----------------------------- MODULE MCEvaluation -----------------------------
(* Four days, of one to three intervals, on a pool of three slots, for TLC. *)
EXTENDS Evaluation

MCLength == [d \in Day |-> IF d = 0 THEN 1 ELSE IF d = 1 THEN 3 ELSE 2]
=============================================================================
