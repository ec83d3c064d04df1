------------------------------- MODULE JobSpec -------------------------------
(***************************************************************************)
(* What `seaport run` promises about the trials of one job, with no        *)
(* threads, no queue and no channel.  Every planned trial goes through the *)
(* stages queued, running, finished, recorded, in that order and never     *)
(* back, and the job either ends complete, with every trial recorded, or   *)
(* is aborted by a fatal error.  TrialPool is shown to implement it.       *)
(***************************************************************************)
CONSTANT Plan    \* the planned trials, one per task and attempt

VARIABLES
  stage,         \* stage[p] is how far trial p has come
  verdict        \* "open", "complete" or "aborted"

vars == <<stage, verdict>>

Stage == {"queued", "running", "finished", "recorded"}
Verdict == {"open", "complete", "aborted"}

TypeOK ==
  /\ stage \in [Plan -> Stage]
  /\ verdict \in Verdict

Init ==
  /\ stage = [p \in Plan |-> "queued"]
  /\ verdict = "open"

(* Trials that were under way when the job was aborted still run to their  *)
(* end, and a worker may pick up one more; nothing runs once the job's     *)
(* result is written.                                                      *)
Start(p) ==
  /\ verdict # "complete"
  /\ stage[p] = "queued"
  /\ stage' = [stage EXCEPT ![p] = "running"]
  /\ UNCHANGED verdict

Finish(p) ==
  /\ verdict # "complete"
  /\ stage[p] = "running"
  /\ stage' = [stage EXCEPT ![p] = "finished"]
  /\ UNCHANGED verdict

Record(p) ==
  /\ verdict = "open"
  /\ stage[p] = "finished"
  /\ stage' = [stage EXCEPT ![p] = "recorded"]
  /\ UNCHANGED verdict

Complete ==
  /\ verdict = "open"
  /\ \A p \in Plan : stage[p] = "recorded"
  /\ verdict' = "complete"
  /\ UNCHANGED stage

Abort ==
  /\ verdict = "open"
  /\ verdict' = "aborted"
  /\ UNCHANGED stage

Next ==
  \/ \E p \in Plan : Start(p) \/ Finish(p) \/ Record(p)
  \/ Complete
  \/ Abort

Spec == Init /\ [][Next]_vars

(* While the job is open some trial always moves, or the job ends.         *)
Progress == verdict = "open" /\ Next

Fairness == WF_vars(Progress)

=============================================================================
