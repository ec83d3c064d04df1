--------------------------- MODULE MCTrialSandbox ---------------------------
(* Instances of TrialSandbox for TLC.                                      *)
EXTENDS TrialSandbox, TLC

CONSTANTS r1, r2

(* r1 has every optional phase and a shared verifier on another network;   *)
(* r2 has a separate verifier.                                             *)
MCFirst == [r \in Run |-> r = r1]
MCSecond == [r \in Run |-> r = r2]

(* Only the second run retries.                                            *)
MCRetries == [r \in Run |-> IF r = r2 THEN 1 ELSE 0]

MCSymmetry == Permutations(Pid)

=============================================================================
