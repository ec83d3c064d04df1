------------------------------ MODULE MCCaches -------------------------------
(* Instances for TLC of what processes share on the disk without a lock:    *)
(* the packages, the checkout of a git source, and the cached version check *)
(* with the installed binary.  They share nothing with each other: a        *)
(* behaviour is of one.                                                     *)
EXTENDS PackageCache, GitCheckout, UpdateCheck

CONSTANTS p1, p2, shared, broken

(* Both processes want one package; the first also wants one whose archive *)
(* has no task in it.                                                      *)
MCList == [p \in Pid |-> IF p = p1 THEN <<shared, broken>> ELSE <<shared>>]
MCArchive == [k \in Package |-> IF k = broken THEN "noTask" ELSE "task"]

(* The first pid comes again.                                              *)
MCLives == [p \in Pid |-> IF p = p1 THEN 2 ELSE 1]

(* 0.9.1, 0.10.0 and 1.0; the last may be built and not published yet.     *)
MCRelease == <<<<0, 9, 1>>, <<0, 10, 0>>, <<1, 0>>>>
MCOwn == {MCRelease[1], MCRelease[3]}

VARIABLE place    \* whose behaviour this is

(* What is not at work stays at one of its first states.                    *)
PackageIdle == Init /\ cache = [k \in Package |-> "absent"]
GitIdle == GitInit /\ cloner = p1 /\ wanted = Moving
UpdateIdle == UpdateInit /\ installed = MCRelease[1]

MCInit ==
  \/ place = "packages" /\ Init /\ GitIdle /\ UpdateIdle
  \/ place = "git" /\ PackageIdle /\ GitInit /\ UpdateIdle
  \/ place = "updates" /\ PackageIdle /\ GitIdle /\ UpdateInit

MCNext ==
  /\ \/ place = "packages" /\ Next /\ UNCHANGED <<gitVars, updateVars>>
     \/ place = "git" /\ GitNext /\ UNCHANGED <<vars, updateVars>>
     \/ place = "updates" /\ UpdateNext /\ UNCHANGED <<vars, gitVars>>
  /\ UNCHANGED place

(* The fairness of PackageCache; the others are asked for safety only.      *)
MCSpec == MCInit /\ [][MCNext]_<<vars, gitVars, updateVars, place>> /\ Fairness

=============================================================================
