----------------------------- MODULE MCTrialPool -----------------------------
(* Instances of TrialPool for TLC.                                         *)
EXTENDS TrialPool, TLC

(* The last plan is the heaviest: the queue does not run in index order.   *)
MCWeight == [p \in Plan |-> IF p = NumPlans - 1 THEN 800 ELSE 100]

(* Distinct task names, and names that sanitize_name maps to one.          *)
MCDistinctNames == [p \in Plan |-> p]
MCCollidingNames == [p \in Plan |-> IF p = NumPlans - 1 THEN 0 ELSE p]

MCSymmetry == Permutations(Worker)

=============================================================================
