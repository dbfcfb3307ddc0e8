----------------------------- MODULE MCExperiment -----------------------------
(* Two trainings, one per policy: REINFORCE with a rollout that is no        *)
(* multiple of the day, and PPO on two environments, whose budget is no      *)
(* multiple of its rollout.                                                  *)
EXTENDS Experiment, TLC

mcPolicies == <<"reinforce", "ppo">>
mcSeeds == <<0>>
mcSplits == <<"test">>
mcJob == Range(mcPolicies) \X Range(mcSeeds)

mcConfigured ==
  <<"reinforce", 0>> :> [name |-> "reinforce", timing |-> "post_update",
                         steps |-> 3, envs |-> 1, total |-> 6, evalFreq |-> 4]
  @@ <<"ppo", 0>> :> [name |-> "ppo", timing |-> "legacy_step",
                      steps |-> 2, envs |-> 2, total |-> 6, evalFreq |-> 4]
===============================================================================
