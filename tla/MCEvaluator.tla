------------------------------ MODULE MCEvaluator ------------------------------
(* Runs that differ from the base run in a setting or two, for TLC.          *)
EXTENDS Evaluator

MCBase == [backend |-> "rust", legacy |-> FALSE, batch |-> 1, native |-> FALSE,
           control |-> "both", reward |-> "core", mask |-> "apply",
           invalid |-> "error", encoder |-> "gru", history |-> 10,
           forecast |-> FALSE]

Nothing == [k \in {} |-> None]
NoFlags == [algorithm |-> Nothing, backend |-> Nothing, runtime |-> Nothing]

\* The last three make no run without the flags below.
MCFiles ==
  {Nothing,
   [native |-> TRUE, batch |-> 2],
   [native |-> TRUE, batch |-> 2, control |-> "no_short"],
   [batch |-> 2, forecast |-> TRUE],
   [batch |-> 2, history |-> 20],
   [batch |-> 2, invalid |-> "noop", mask |-> "free"],
   [mask |-> "free"],
   [history |-> 20, encoder |-> "mlp"],
   [backend |-> "python"]}

\* The oracle needs both flags.
MCFlags ==
  {NoFlags,
   [NoFlags EXCEPT !.backend = [backend |-> "python", legacy |-> TRUE]],
   [NoFlags EXCEPT !.backend = [legacy |-> TRUE]]}

MCForecasters == {[name |-> "f", stateful |-> FALSE, perSlot |-> FALSE]}
MCLists == {<<"a", "b", "c">>, <<"b", "a">>}
=============================================================================
