----------------------------- MODULE MCCommands ------------------------------
(* Instances of LocalTrial and of Healthcheck for TLC, as the two callers of *)
(* one command runner: a behaviour is of one or of the other.                *)
EXTENDS LocalTrial, Healthcheck

VARIABLE caller    \* whose behaviour this is

TrialInit ==
  /\ Init
  /\ retries = Absent /\ starting = FALSE /\ pcHealth = "healthy"
  /\ inStart = FALSE /\ failures = 0 /\ counted = 0

HealthInit ==
  /\ HealthcheckInit
  /\ agent = "nop" /\ pc = "settled" /\ attempt = 1 /\ failure = "none"
  /\ file = NoFile /\ report = NoFile /\ stale = FALSE /\ outlived = FALSE

MCInit ==
  \/ caller = "trial" /\ TrialInit
  \/ caller = "health" /\ HealthInit

MCNext ==
  /\ \/ caller = "trial" /\ Next /\ UNCHANGED healthVars
     \/ caller = "health" /\ HealthcheckNext /\ UNCHANGED trialVars
  /\ UNCHANGED caller

(* What is fair to one caller asks nothing of the other.                   *)
MCSpec == MCInit /\ [][MCNext]_<<vars, healthVars, caller>> /\ Fairness /\ HealthFairness

(* A trial and a healthcheck come to an end, with commands that may run for *)
(* ever: the timeout sees to that, but for a trial whose script left a      *)
(* process behind that keeps a pipe.                                        *)
CallersEnd ==
  /\ caller = "trial" => TrialEnds
  /\ caller = "health" => HealthcheckEnds

=============================================================================
