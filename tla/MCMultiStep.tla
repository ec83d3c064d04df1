----------------------------- MODULE MCMultiStep -----------------------------
(* Instances of MultiStep for TLC: three steps, one gated on the reward and *)
(* one on another score.                                                    *)
EXTENDS MultiStep, TLC

MCKey == {"reward", "core"}

MCTaskWith(strategy, separate, switches) ==
  [steps |-> 3,
   setup |-> <<FALSE, TRUE, FALSE>>,
   health |-> <<FALSE, TRUE, TRUE>>,
   gate |-> <<"reward" :> 1, "core" :> 1, NoScores>>,
   strategy |-> strategy, separate |-> separate, switches |-> switches]

MCTask == {MCTaskWith("mean", FALSE, TRUE), MCTaskWith("mean", TRUE, TRUE),
           MCTaskWith("final", FALSE, FALSE)}

=============================================================================
