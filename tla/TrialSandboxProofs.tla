------------------------- MODULE TrialSandboxProofs -------------------------
(***************************************************************************)
(* Theorems about trials and their containers, for any number of processes *)
(* and pids.                                                               *)
(***************************************************************************)
EXTENDS TrialSandbox, TLAPS

(* Attempts are counted from one, and every run may use its retries.       *)
LEMMA AttemptRange ==
  /\ Attempts \subseteq Nat \ {0}
  /\ \A r \in Run : \A n \in 1 .. MaxRetries[r] + 1 : n \in Attempts
BY RunAssumption DEF Attempts

(* A process has a pid from its launch to its end.                         *)
PidOK ==
  \A r \in Run : pid[r] \in Pid <=> pc[r] \notin {"idle", "gone", "dead"}

TypeInv == TypeOK /\ PidOK

(* What may stand in a reward file.                                        *)
LEMMA Files ==
  /\ NoFile \in File /\ Placeholder \in File
  /\ \A n \in Attempts, b \in BOOLEAN : [by |-> n, parses |-> b] \in File
BY DEF File, NoFile, Placeholder

(* A run's first attempt, and the one after a failed one.                   *)
LEMMA AttemptSteps ==
  ASSUME NEW r \in Run
  PROVE  /\ 1 \in Attempts
         /\ \A n \in Attempts : n <= MaxRetries[r] => n + 1 \in Attempts
<1>1. MaxRetries[r] \in Nat
  BY RunAssumption
<1>2. 1 \in Attempts
  BY <1>1, AttemptRange
<1>3. ASSUME NEW n \in Attempts, n <= MaxRetries[r] PROVE n + 1 \in 1 .. MaxRetries[r] + 1
  BY <1>1, <1>3, AttemptRange
<1> QED
  BY <1>2, <1>3, AttemptRange

(* Setting a flag of one run.                                              *)
LEMMA FlagSet ==
  ASSUME TypeOK, NEW r \in Run, NEW k, leaked' = [leaked EXCEPT ![r] = @ \/ Here(k, r)']
  PROVE  leaked' \in [Run -> BOOLEAN]
BY DEF TypeOK, Here

(* No process runs at the start.                                           *)
LEMMA TypeInvInit == Init => TypeInv
<1> SUFFICES ASSUME Init PROVE TypeInv
  OBVIOUS
<1>1. \A r \in Run : 1 \in Attempts
  BY AttemptSteps
<1>2. TypeOK
  BY <1>1, Files DEF Init, TypeOK, Pc
<1>3. PidOK
  BY RunAssumption DEF Init, PidOK
<1> QED
  BY <1>2, <1>3 DEF TypeInv

(* What a container of a live process looks like.                          *)
LEMMA FreshContainer ==
  ASSUME TypeInv, NEW r \in Run, pc[r] \notin {"idle", "gone", "dead"}
  PROVE  \A k \in {"trial", "verifier"} : Fresh(k, r) \in Container
BY DEF TypeInv, TypeOK, PidOK, Fresh, Container

(* The steps that only move a run on, perhaps with an error.               *)
Moves(r) ==
  \/ NoBackend(r) \/ SweepDone(r) \/ MakeDirs(r)
  \/ PrepareImage(r, "image", "start", "record")
  \/ PrepareImage(r, "vimage", "vcollect", "cleanup")
  \/ PhaseEnds(r) \/ PhaseFails(r) \/ RecordFails(r) \/ Settle(r)

(* Every step of every run preserves the typing.                           *)
LEMMA TypeInvStep == TypeInv /\ [Next]_vars => TypeInv'
<1> SUFFICES ASSUME TypeInv, [Next]_vars PROVE TypeInv'
  OBVIOUS
<1> USE DEF TypeInv, TypeOK, PidOK, Pc, InTrial, Error, Go, Fail, trialVars
<1>r. ASSUME NEW r \in Run, Launch(r) \/ Step(r) \/ Dies(r) PROVE TypeInv'
  <2>1. CASE Launch(r)
    BY <2>1, RunAssumption DEF Launch
  <2>2. CASE Moves(r)
    BY <2>2 DEF Moves, NoBackend, SweepDone, MakeDirs, PrepareImage, PhaseEnds, PhaseFails,
         RecordFails, Settle, NextPhase, VerifierPhase, Phase
  <2>3. CASE SweepList(r) \/ SweepOne(r)
    BY <2>3 DEF SweepList, SweepOne, Cleanup, Removed
  <2>4. CASE Started(r, "trial", "start", "prep") \/ Started(r, "verifier", "vstart", "vupload")
    BY <2>4, FreshContainer DEF Started, StartsOn
  <2>5. CASE \/ NotStarted(r, "trial", "start", "record")
             \/ NotStarted(r, "verifier", "vstart", "vcleanup")
    <3>1. leaked' \in [Run -> BOOLEAN]
      <4>1. leaked' = [leaked EXCEPT ![r] = @ \/ Here("trial", r)']
            \/ leaked' = [leaked EXCEPT ![r] = @ \/ Here("verifier", r)']
        BY <2>5, Zenon DEF NotStarted
      <4> QED
        BY <4>1, FlagSet
    <3> QED
      BY <2>5, <3>1, FreshContainer DEF NotStarted, Cleanup, Removed
  <2>6. CASE PhaseTimesOut(r) \/ SwitchNetwork(r)
    BY <2>6 DEF PhaseTimesOut, SwitchNetwork, Cleanup, Removed, Phase
  <2>7. CASE CollectCurated(r)
    BY <2>7 DEF CollectCurated
  <2>8. CASE UploadCurated(r)
    BY <2>8 DEF UploadCurated, Cleanup, Removed
  <2>9. CASE CleanupVerifier(r) \/ CleanupTrial(r)
    <3>1. leaked' \in [Run -> BOOLEAN] /\ docker' \subseteq docker
      <4>1. leaked' = [leaked EXCEPT ![r] = @ \/ Here("trial", r)']
            \/ leaked' = [leaked EXCEPT ![r] = @ \/ Here("verifier", r)']
        BY <2>9, Zenon DEF CleanupVerifier, CleanupTrial, LastCleanup
      <4>2. docker' \subseteq docker
        BY <2>9 DEF CleanupVerifier, CleanupTrial, LastCleanup, Cleanup, Removed
      <4> QED
        BY <4>1, <4>2, FlagSet
    <3>2. CASE CleanupVerifier(r)
      BY <3>1, <3>2 DEF CleanupVerifier
    <3>3. CASE CleanupTrial(r)
      BY <3>1, <3>3 DEF CleanupTrial
    <3> QED
      BY <2>9, <3>2, <3>3
  <2>10. CASE Verify(r)
    BY <2>10, Files DEF Verify, WritesReward, Cleanup, Removed, AfterVerifier
  <2>11. CASE Record(r)
    BY <2>11, Files DEF Record, RewardError
  <2>12. CASE RemoveWorkspace(r)
    BY <2>12, Files DEF RemoveWorkspace
  <2>13. CASE Retry(r)
    BY <2>13, AttemptSteps DEF Retry, Retries
  <2>14. CASE Exit(r)
    BY <2>14, Files, AttemptSteps, RunAssumption DEF Exit, Ends
  <2>15. CASE Dies(r)
    BY <2>15, Files, FreshContainer, AttemptSteps, RunAssumption DEF Dies, Ends, BeingCreated
  <2> QED
    BY <1>r, <2>1, <2>2, <2>3, <2>4, <2>5, <2>6, <2>7, <2>8, <2>9, <2>10, <2>11, <2>12, <2>13,
       <2>14, <2>15 DEF Step, Moves, StartTrial, StartVerifier, SeparateVerifier
<1> QED
  BY <1>r DEF Next, vars

(* The type invariant holds throughout.                                    *)
LEMMA TypeInvHolds == Spec => []TypeInv
<1> QED
  BY TypeInvInit, TypeInvStep, PTL DEF Spec

(* The state of any number of processes and of the daemon is well typed.   *)
THEOREM TypeCorrect == Spec => []TypeOK
<1>1. TypeInv => TypeOK
  BY DEF TypeInv
<1> QED
  BY <1>1, TypeInvHolds, PTL

(* A step of a run, sorted by what it does.                                *)
Sweeps(r) == Launch(r) \/ SweepList(r) \/ SweepOne(r)
Starts(r) ==
  \/ Started(r, "trial", "start", "prep") \/ NotStarted(r, "trial", "start", "record")
  \/ Started(r, "verifier", "vstart", "vupload") \/ NotStarted(r, "verifier", "vstart", "vcleanup")
Cleans(r) == CleanupVerifier(r) \/ CleanupTrial(r)
Uploads(r) == CollectCurated(r) \/ UploadCurated(r)
Reports(r) == Record(r) \/ RemoveWorkspace(r) \/ Retry(r)
Stops(r) == Exit(r) \/ Dies(r)

(* Every step is of one of these kinds.                                    *)
LEMMA StepKinds ==
  ASSUME NEW r \in Run, Launch(r) \/ Step(r) \/ Dies(r)
  PROVE  \/ Sweeps(r) \/ Moves(r) \/ Starts(r) \/ PhaseTimesOut(r) \/ SwitchNetwork(r)
         \/ Uploads(r) \/ Verify(r) \/ Cleans(r) \/ Reports(r) \/ Stops(r)
BY DEF Step, Sweeps, Moves, Starts, StartTrial, StartVerifier, SeparateVerifier, Uploads, Cleans,
   Reports, Stops

-----------------------------------------------------------------------------
(* The network of a container, and which runs have which phases.           *)
NetworkInv ==
  \A r \in Run :
    /\ pc[r] \in {"vimage", "vcollect", "vstart", "vupload", "vcleanup"} => Separate[r]
    /\ pc[r] \in Phase => network[r] = "agent"
    /\ pc[r] = "switch" => Switches[r] /\ ~Separate[r]
    /\ pc[r] = "verifier" /\ ~Separate[r] =>
         network[r] = IF Switches[r] THEN "verifier" ELSE "agent"
    /\ UsesVerifier(r) => ownNetwork[r] = "verifier"

(* No step leaves a run in a phase on a network that is not the phase's.   *)
LEMMA NetworkInvStep == TypeInv /\ NetworkInv /\ [Next]_vars => NetworkInv'
<1> SUFFICES ASSUME TypeInv, NetworkInv, [Next]_vars PROVE NetworkInv'
  OBVIOUS
<1> USE RunAssumption DEF TypeInv, TypeOK, NetworkInv, Go, Fail, Phase, UsesVerifier, trialVars
<1>r. ASSUME NEW r \in Run, Launch(r) \/ Step(r) \/ Dies(r) PROVE NetworkInv'
  <2>1. CASE Sweeps(r)
    BY <2>1 DEF Sweeps, Launch, SweepList, SweepOne
  <2>2. CASE Moves(r)
    BY <2>2 DEF Moves, NoBackend, SweepDone, MakeDirs, PrepareImage, PhaseEnds, PhaseFails,
         RecordFails, Settle, NextPhase, VerifierPhase
  <2>3. CASE Starts(r)
    BY <2>3 DEF Starts, Started, NotStarted, StartsOn
  <2>4. CASE PhaseTimesOut(r) \/ SwitchNetwork(r)
    BY <2>4 DEF PhaseTimesOut, SwitchNetwork
  <2>5. CASE Uploads(r)
    BY <2>5 DEF Uploads, CollectCurated, UploadCurated
  <2>6. CASE Verify(r)
    BY <2>6 DEF Verify, AfterVerifier
  <2>7. CASE Cleans(r)
    BY <2>7 DEF Cleans, CleanupVerifier, CleanupTrial
  <2>8. CASE Reports(r)
    BY <2>8 DEF Reports, Record, RemoveWorkspace, Retry
  <2>9. CASE Stops(r)
    BY <2>9 DEF Stops, Exit, Dies, Ends
  <2> QED
    BY <1>r, <2>1, <2>2, <2>3, <2>4, <2>5, <2>6, <2>7, <2>8, <2>9, StepKinds
<1> QED
  BY <1>r DEF Next, vars

(* The network invariant holds throughout.                                 *)
LEMMA NetworkInvHolds == Spec => []NetworkInv
<1>1. Init => NetworkInv
  BY DEF Init, NetworkInv, UsesVerifier, Phase
<1> QED
  BY <1>1, NetworkInvStep, TypeInvHolds, PTL DEF Spec

(* Every phase of every trial finds its container on the network that the  *)
(* task declares for it.                                                   *)
THEOREM NetworksAsDeclared == Spec => []NetworkAsDeclared
<1>1. NetworkInv => NetworkAsDeclared
  BY DEF NetworkInv, NetworkAsDeclared
<1> QED
  BY <1>1, NetworkInvHolds, PTL

-----------------------------------------------------------------------------
(* The transfer directory is empty outside of the separate verifier and    *)
(* holds this attempt's artifacts in it.                                   *)
Transferring == {"vstart", "vupload", "verifier", "vcleanup"}

ArtifactInv ==
  \A r \in Run : ~staleArtifacts[r] =>
    /\ uploaded[r] \subseteq {attempt[r]}
    /\ pc[r] \notin {"verifier", "vcleanup"} => uploaded[r] = {}
    /\ pc[r] # "dead" => curated[r] \subseteq {attempt[r]}
    /\ pc[r] \notin Transferring \cup {"dead"} => curated[r] = {}
    /\ pc[r] = "verifier" /\ ~Separate[r] => curated[r] = {} /\ uploaded[r] = {}

(* Artifacts of an attempt are gone before the next one begins.            *)
LEMMA ArtifactInvStep == TypeInv /\ NetworkInv /\ ArtifactInv /\ [Next]_vars => ArtifactInv'
<1> SUFFICES ASSUME TypeInv, NetworkInv, ArtifactInv, [Next]_vars PROVE ArtifactInv'
  OBVIOUS
<1> USE RunAssumption DEF TypeInv, TypeOK, ArtifactInv, Transferring, Go, Fail, Phase, trialVars
<1>r. ASSUME NEW r \in Run, Launch(r) \/ Step(r) \/ Dies(r) PROVE ArtifactInv'
  <2>1. CASE Sweeps(r)
    BY <2>1 DEF Sweeps, Launch, SweepList, SweepOne
  <2>2. CASE Moves(r)
    BY <2>2 DEF Moves, NoBackend, SweepDone, MakeDirs, PrepareImage, PhaseEnds, PhaseFails,
         RecordFails, Settle, NextPhase, VerifierPhase
  <2>3. CASE Starts(r)
    BY <2>3 DEF Starts, Started, NotStarted
  <2>4. CASE PhaseTimesOut(r) \/ SwitchNetwork(r)
    BY <2>4 DEF PhaseTimesOut, SwitchNetwork, NetworkInv
  <2>5. CASE Uploads(r)
    BY <2>5 DEF Uploads, CollectCurated, UploadCurated, NetworkInv
  <2>6. CASE Verify(r)
    BY <2>6 DEF Verify, AfterVerifier
  <2>7. CASE Cleans(r)
    <3>1. CASE CleanupTrial(r)
      BY <3>1 DEF CleanupTrial
    <3>2. CASE CleanupVerifier(r)
      <4>1. PICK left \in {{}, curated[r]} :
              /\ curated' = [curated EXCEPT ![r] = left]
              /\ staleArtifacts' = [staleArtifacts EXCEPT ![r] = @ \/ left # {}]
        BY <3>2, Zenon DEF CleanupVerifier
      <4>2. ~staleArtifacts'[r] => ~staleArtifacts[r] /\ left = {}
        BY <4>1
      <4>3. \A u \in Run \ {r} : staleArtifacts'[u] = staleArtifacts[u]
        BY <4>1
      <4> QED
        BY <3>2, <4>1, <4>2, <4>3 DEF CleanupVerifier
    <3> QED
      BY <2>7, <3>1, <3>2 DEF Cleans
  <2>8. CASE Reports(r)
    BY <2>8 DEF Reports, Record, RemoveWorkspace, Retry
  <2>9. CASE Stops(r)
    BY <2>9 DEF Stops, Exit, Dies, Ends
  <2> QED
    BY <1>r, <2>1, <2>2, <2>3, <2>4, <2>5, <2>6, <2>7, <2>8, <2>9, StepKinds
<1> QED
  BY <1>r DEF Next, vars

(* A separate verifier never judges the artifacts of an earlier attempt,   *)
(* unless the transfer directory could not be removed.                     *)
THEOREM OnlyOwnArtifacts == Spec => []ArtifactsAreOwn
<1>1. Init => ArtifactInv
  BY DEF Init, ArtifactInv
<1>2. ArtifactInv => ArtifactsAreOwn
  BY DEF ArtifactInv, ArtifactsAreOwn
<1> QED
  BY <1>1, <1>2, ArtifactInvStep, NetworkInvHolds, TypeInvHolds, PTL DEF Spec

-----------------------------------------------------------------------------
(* The reward file in the workspace, and the report made from it.          *)
Unwritten == {"idle", "sweep", "sweeping", "mkdir", "image", "start", "return"}

RewardInv ==
  \A r \in Run :
    /\ report[r] # NoFile => pc[r] \in {"remove", "return", "exit"} /\ failure[r] = "none"
    /\ ~staleLogs[r] =>
         /\ pc[r] \in Unwritten => rewardFile[r] = NoFile
         /\ pc[r] \in InTrial \cup {"record"} =>
              rewardFile[r] = NoFile \/ rewardFile[r].by = attempt[r]
         /\ report[r] # NoFile => report[r].by = attempt[r]

(* A file is written, reported and removed within one attempt.             *)
LEMMA RewardInvStep == TypeInv /\ RewardInv /\ [Next]_vars => RewardInv'
<1> SUFFICES ASSUME TypeInv, RewardInv, [Next]_vars PROVE RewardInv'
  OBVIOUS
<1> USE RunAssumption DEF TypeInv, TypeOK, RewardInv, Unwritten, InTrial, Go, Fail, Phase, trialVars
<1>r. ASSUME NEW r \in Run, Launch(r) \/ Step(r) \/ Dies(r) PROVE RewardInv'
  <2>1. CASE Sweeps(r)
    BY <2>1 DEF Sweeps, Launch, SweepList, SweepOne
  <2>2. CASE Moves(r)
    BY <2>2 DEF Moves, NoBackend, SweepDone, MakeDirs, PrepareImage, PhaseEnds, PhaseFails,
         RecordFails, Settle, NextPhase, VerifierPhase
  <2>3. CASE Starts(r)
    BY <2>3 DEF Starts, Started, NotStarted
  <2>4. CASE PhaseTimesOut(r) \/ SwitchNetwork(r)
    BY <2>4 DEF PhaseTimesOut, SwitchNetwork
  <2>5. CASE Uploads(r)
    BY <2>5 DEF Uploads, CollectCurated, UploadCurated
  <2>6. CASE Verify(r)
    BY <2>6 DEF Verify, AfterVerifier, WritesReward
  <2>7. CASE Cleans(r)
    BY <2>7 DEF Cleans, CleanupVerifier, CleanupTrial
  <2>8. CASE Reports(r)
    <3>1. CASE Record(r)
      BY <3>1 DEF Record, RewardError
    <3>2. CASE RemoveWorkspace(r)
      <4>1. PICK left \in {NoFile, rewardFile[r]} :
              /\ rewardFile' = [rewardFile EXCEPT ![r] = left]
              /\ staleLogs' = [staleLogs EXCEPT ![r] = @ \/ left # NoFile]
        BY <3>2, Zenon DEF RemoveWorkspace
      <4>2. ~staleLogs'[r] => ~staleLogs[r] /\ left = NoFile
        BY <4>1
      <4>3. \A u \in Run \ {r} : staleLogs'[u] = staleLogs[u]
        BY <4>1
      <4> QED
        BY <3>2, <4>1, <4>2, <4>3 DEF RemoveWorkspace
    <3>3. CASE Retry(r)
      BY <3>3 DEF Retry, Retries
    <3> QED
      BY <2>8, <3>1, <3>2, <3>3 DEF Reports
  <2>9. CASE Stops(r)
    BY <2>9 DEF Stops, Exit, Dies, Ends
  <2> QED
    BY <1>r, <2>1, <2>2, <2>3, <2>4, <2>5, <2>6, <2>7, <2>8, <2>9, StepKinds
<1> QED
  BY <1>r DEF Next, vars

(* A reported reward is the one the verifier of that very attempt wrote,   *)
(* unless an earlier workspace could not be removed.                       *)
THEOREM RewardsAreOwn == Spec => []RewardIsOwn
<1>1. Init => RewardInv
  BY DEF Init, RewardInv, InTrial
<1>2. RewardInv => RewardIsOwn
  BY DEF RewardInv, RewardIsOwn
<1> QED
  BY <1>1, <1>2, RewardInvStep, TypeInvHolds, PTL DEF Spec

-----------------------------------------------------------------------------
(* Where a run may have a container without having leaked one.             *)
MayHaveTrial == InTrial \cup {"dead"}
MayHaveVerifier == {"vupload", "verifier", "vcleanup", "dead"}

LeakInv ==
  \A r \in Run : ~leaked[r] =>
    /\ pc[r] \notin MayHaveTrial => ~Here("trial", r)
    /\ pc[r] \notin MayHaveVerifier => ~Here("verifier", r)
    /\ pc[r] = "verifier" /\ ~Separate[r] => ~Here("verifier", r)

(* A step of one run adds at most a container of that run, with its pid.   *)
LEMMA NewContainers ==
  ASSUME TypeInv, NEW r \in Run, Launch(r) \/ Step(r) \/ Dies(r)
  PROVE  \A c \in docker' : c \in docker \/ (c.run = r /\ c.owner = pid[r] /\ pc[r] # "idle")
<1> USE DEF Cleanup, Removed, Fresh
<1>1. CASE Sweeps(r) \/ Moves(r)
  BY <1>1 DEF Sweeps, Launch, SweepList, SweepOne, Moves, NoBackend, SweepDone, MakeDirs,
       PrepareImage, PhaseEnds, PhaseFails, RecordFails, Settle
<1>2. CASE Starts(r)
  BY <1>2 DEF Starts, Started, NotStarted
<1>3. CASE PhaseTimesOut(r) \/ SwitchNetwork(r) \/ Uploads(r) \/ Verify(r)
  BY <1>3 DEF PhaseTimesOut, SwitchNetwork, Uploads, CollectCurated, UploadCurated, Verify
<1>4. CASE Cleans(r) \/ Reports(r)
  BY <1>4 DEF Cleans, CleanupVerifier, CleanupTrial, LastCleanup, Reports, Record,
       RemoveWorkspace, Retry
<1>5. CASE Stops(r)
  BY <1>5, RunAssumption DEF Stops, Exit, Dies, TypeInv, TypeOK, PidOK
<1> QED
  BY <1>1, <1>2, <1>3, <1>4, <1>5, StepKinds

(* The state of the other runs is left alone.                              *)
LEMMA OthersKept ==
  ASSUME TypeInv, NEW r \in Run, Launch(r) \/ Step(r) \/ Dies(r), NEW u \in Run, u # r
  PROVE  /\ pc'[u] = pc[u]
         /\ pid'[u] = pid[u]
         /\ leaked'[u] = leaked[u]
         /\ sweeping'[u] = sweeping[u]
<1> USE DEF TypeInv, TypeOK, Go, Fail, trialVars
<1>1. CASE Sweeps(r) \/ Moves(r)
  BY <1>1 DEF Sweeps, Launch, SweepList, SweepOne, Moves, NoBackend, SweepDone, MakeDirs,
       PrepareImage, PhaseEnds, PhaseFails, RecordFails, Settle
<1>2. CASE Starts(r)
  BY <1>2 DEF Starts, Started, NotStarted
<1>3. CASE PhaseTimesOut(r) \/ SwitchNetwork(r) \/ Uploads(r) \/ Verify(r)
  BY <1>3 DEF PhaseTimesOut, SwitchNetwork, Uploads, CollectCurated, UploadCurated, Verify
<1>4. CASE Cleans(r) \/ Reports(r)
  BY <1>4 DEF Cleans, CleanupVerifier, CleanupTrial, LastCleanup, Reports, Record,
       RemoveWorkspace, Retry
<1>5. CASE Stops(r)
  BY <1>5 DEF Stops, Exit, Dies, Ends
<1> QED
  BY <1>1, <1>2, <1>3, <1>4, <1>5, StepKinds

(* Whatever ends an attempt, its containers go or are known to be leaked.  *)
LEMMA LeakInvStep == TypeInv /\ NetworkInv /\ LeakInv /\ [Next]_vars => LeakInv'
<1> SUFFICES ASSUME TypeInv, NetworkInv, LeakInv, [Next]_vars PROVE LeakInv'
  OBVIOUS
<1> USE DEF LeakInv, MayHaveTrial, MayHaveVerifier
<1>r. ASSUME NEW r \in Run, Launch(r) \/ Step(r) \/ Dies(r) PROVE LeakInv'
  <2>o. ASSUME NEW u \in Run, u # r, ~leaked'[u]
        PROVE  /\ pc'[u] \notin MayHaveTrial => ~Here("trial", u)'
               /\ pc'[u] \notin MayHaveVerifier => ~Here("verifier", u)'
               /\ pc'[u] = "verifier" /\ ~Separate[u] => ~Here("verifier", u)'
    BY <1>r, <2>o, NewContainers, OthersKept DEF Here
  <2> SUFFICES ASSUME ~leaked'[r]
               PROVE  /\ pc'[r] \notin MayHaveTrial => ~Here("trial", r)'
                      /\ pc'[r] \notin MayHaveVerifier => ~Here("verifier", r)'
                      /\ pc'[r] = "verifier" /\ ~Separate[r] => ~Here("verifier", r)'
    BY <2>o
  <2> USE DEF TypeInv, TypeOK, InTrial, Go, Fail, Phase, trialVars, Here, Cleanup, Removed
  <2>1. CASE Sweeps(r)
    BY <2>1 DEF Sweeps, Launch, SweepList, SweepOne
  <2>2. CASE Moves(r)
    BY <2>2, RunAssumption DEF Moves, NoBackend, SweepDone, MakeDirs, PrepareImage, PhaseEnds,
         PhaseFails, RecordFails, Settle, NextPhase, VerifierPhase
  <2>3. CASE Starts(r)
    <3>1. CASE Started(r, "trial", "start", "prep")
      BY <3>1 DEF Started, Fresh
    <3>2. CASE Started(r, "verifier", "vstart", "vupload")
      BY <3>2, RunAssumption DEF Started, Fresh
    <3>3. CASE NotStarted(r, "trial", "start", "record")
      <4>1. ~leaked[r] /\ ~Here("trial", r)'
        BY <3>3 DEF NotStarted
      <4> QED
        BY <3>3, <4>1 DEF NotStarted, Fresh
    <3>4. CASE NotStarted(r, "verifier", "vstart", "vcleanup")
      <4>1. ~leaked[r]
        BY <3>4 DEF NotStarted
      <4> QED
        BY <3>4, <4>1 DEF NotStarted, Fresh
    <3> QED
      BY <2>3, <3>1, <3>2, <3>3, <3>4 DEF Starts
  <2>4. CASE PhaseTimesOut(r) \/ SwitchNetwork(r)
    BY <2>4 DEF PhaseTimesOut, SwitchNetwork
  <2>5. CASE Uploads(r)
    BY <2>5, RunAssumption DEF Uploads, CollectCurated, UploadCurated, NetworkInv
  <2>6. CASE Verify(r)
    BY <2>6, RunAssumption DEF Verify, AfterVerifier, VerifierKind
  <2>7. CASE Cleans(r)
    <3>1. CASE CleanupTrial(r)
      <4>1. ~leaked[r] /\ ~Here("trial", r)'
        BY <3>1 DEF CleanupTrial, LastCleanup
      <4> QED
        BY <3>1, <4>1 DEF CleanupTrial, LastCleanup
    <3>2. CASE CleanupVerifier(r)
      <4>1. ~leaked[r] /\ ~Here("verifier", r)'
        BY <3>2 DEF CleanupVerifier, LastCleanup
      <4> QED
        BY <3>2, <4>1 DEF CleanupVerifier, LastCleanup
    <3> QED
      BY <2>7, <3>1, <3>2 DEF Cleans
  <2>8. CASE Reports(r)
    BY <2>8 DEF Reports, Record, RemoveWorkspace, Retry
  <2>9. CASE Stops(r)
    BY <2>9 DEF Stops, Exit, Dies, Ends
  <2> QED
    BY <1>r, <2>1, <2>2, <2>3, <2>4, <2>5, <2>6, <2>7, <2>8, <2>9, StepKinds
<1>u. CASE UNCHANGED vars
  BY <1>u DEF vars, trialVars, Here
<1> QED
  BY <1>r, <1>u DEF Next

(* Between attempts and after its end a run has no container, unless a     *)
(* removal failed, a start ended in an I/O error or the process died.      *)
THEOREM ContainersSwept == Spec => []SweptAway
<1>1. Init => LeakInv
  BY DEF Init, LeakInv, Here
<1>2. LeakInv => SweptAway
  BY DEF LeakInv, SweptAway, MayHaveTrial, MayHaveVerifier, InTrial
<1> QED
  BY <1>1, <1>2, LeakInvStep, NetworkInvHolds, TypeInvHolds, PTL DEF Spec

-----------------------------------------------------------------------------
(* A container that was ever seen belongs to a run that was launched, and  *)
(* carries the pid of that run as long as it lives.                        *)
Owned(c) == pc[c.run] # "idle" /\ (pid[c.run] \in Pid => c.owner = pid[c.run])

OwnerInv ==
  /\ \A c \in docker : Owned(c)
  /\ \A r \in Run : \A c \in sweeping[r] : Owned(c)

(* A run is launched once, and keeps its pid until it ends.                *)
LEMMA PidKept ==
  ASSUME TypeInv, NEW r \in Run, Launch(r) \/ Step(r) \/ Dies(r), NEW u \in Run, pc[u] # "idle"
  PROVE  pc'[u] # "idle" /\ pid'[u] \in {pid[u], NoPid}
<1>1. CASE u # r
  BY <1>1, OthersKept
<1>2. CASE u = r
  <2> USE DEF TypeInv, TypeOK, Go, Fail, trialVars
  <2>1. CASE Sweeps(r) \/ Moves(r)
    BY <1>2, <2>1 DEF Sweeps, Launch, SweepList, SweepOne, Moves, NoBackend, SweepDone, MakeDirs,
         PrepareImage, PhaseEnds, PhaseFails, RecordFails, Settle, NextPhase, VerifierPhase
  <2>2. CASE Starts(r)
    BY <1>2, <2>2 DEF Starts, Started, NotStarted
  <2>3. CASE PhaseTimesOut(r) \/ SwitchNetwork(r) \/ Uploads(r) \/ Verify(r)
    BY <1>2, <2>3 DEF PhaseTimesOut, SwitchNetwork, Uploads, CollectCurated, UploadCurated,
         Verify, AfterVerifier
  <2>4. CASE Cleans(r) \/ Reports(r)
    BY <1>2, <2>4 DEF Cleans, CleanupVerifier, CleanupTrial, LastCleanup, Reports, Record,
         RemoveWorkspace, Retry
  <2>5. CASE Stops(r)
    BY <1>2, <2>5 DEF Stops, Exit, Dies, Ends
  <2> QED
    BY <2>1, <2>2, <2>3, <2>4, <2>5, StepKinds
<1> QED
  BY <1>1, <1>2

(* A sweep knows only containers that the daemon listed.                   *)
LEMMA SweepsListed ==
  ASSUME TypeInv, NEW r \in Run, Launch(r) \/ Step(r) \/ Dies(r), NEW u \in Run
  PROVE  sweeping'[u] \subseteq sweeping[u] \cup docker
<1>1. CASE u # r
  BY <1>1, OthersKept
<1>2. CASE u = r
  <2> USE DEF TypeInv, TypeOK
  <2>1. CASE Sweeps(r) \/ Moves(r)
    BY <1>2, <2>1 DEF Sweeps, Launch, SweepList, SweepOne, Moves, NoBackend, SweepDone, MakeDirs,
         PrepareImage, PhaseEnds, PhaseFails, RecordFails, Settle
  <2>2. CASE Starts(r)
    BY <1>2, <2>2 DEF Starts, Started, NotStarted
  <2>3. CASE PhaseTimesOut(r) \/ SwitchNetwork(r) \/ Uploads(r) \/ Verify(r)
    BY <1>2, <2>3 DEF PhaseTimesOut, SwitchNetwork, Uploads, CollectCurated, UploadCurated, Verify
  <2>4. CASE Cleans(r) \/ Reports(r)
    BY <1>2, <2>4 DEF Cleans, CleanupVerifier, CleanupTrial, Reports, Record, RemoveWorkspace, Retry
  <2>5. CASE Stops(r)
    BY <1>2, <2>5 DEF Stops, Exit, Dies, Ends
  <2> QED
    BY <2>1, <2>2, <2>3, <2>4, <2>5, StepKinds
<1> QED
  BY <1>1, <1>2

(* The label of a container names its run's pid, whatever pids come again. *)
LEMMA OwnerInvStep == TypeInv /\ OwnerInv /\ [Next]_vars => OwnerInv'
<1> SUFFICES ASSUME TypeInv, OwnerInv, [Next]_vars PROVE OwnerInv'
  OBVIOUS
<1>r. ASSUME NEW r \in Run, Launch(r) \/ Step(r) \/ Dies(r) PROVE OwnerInv'
  <2>1. ASSUME NEW c, c.run \in Run, Owned(c) PROVE Owned(c)'
    BY <1>r, <2>1, PidKept, RunAssumption DEF Owned
  <2>2. \A c \in docker : c.run \in Run
    BY DEF TypeInv, TypeOK, Container
  <2>3. \A u \in Run : \A c \in sweeping[u] : c.run \in Run
    BY DEF TypeInv, TypeOK, Container
  <2>4. ASSUME NEW c \in docker' PROVE Owned(c)'
    <3>1. CASE c \in docker
      BY <2>1, <2>2, <3>1 DEF OwnerInv
    <3>2. CASE c.run = r /\ c.owner = pid[r] /\ pc[r] # "idle"
      BY <1>r, <3>2, PidKept, RunAssumption DEF Owned
    <3> QED
      BY <1>r, <2>4, <3>1, <3>2, NewContainers
  <2>5. ASSUME NEW u \in Run, NEW c \in sweeping'[u] PROVE Owned(c)'
    <3>1. c \in sweeping[u] \/ c \in docker
      BY <1>r, <2>5, SweepsListed
    <3> QED
      BY <2>1, <2>2, <2>3, <3>1 DEF OwnerInv
  <2> QED
    BY <2>4, <2>5 DEF OwnerInv
<1>u. CASE UNCHANGED vars
  BY <1>u DEF vars, OwnerInv, Owned
<1> QED
  BY <1>r, <1>u DEF Next

(* Where ps can be relied upon, no step of one run takes a container from  *)
(* another that lives.                                                     *)
LEMMA OthersSpared ==
  ASSUME TypeInv, OwnerInv, PsReliable,
         NEW r \in Run, Launch(r) \/ Step(r) \/ Dies(r),
         NEW u \in Run, u # r, pid[u] \in Pid, NEW k, Here(k, u)
  PROVE  Here(k, u)'
<1>c. PICK c \in docker : c.kind = k /\ c.run = u
  BY DEF Here
<1> SUFFICES c \in docker'
  BY <1>c DEF Here
<1> USE <1>c DEF Cleanup, Removed
<1>1. CASE Launch(r) \/ SweepList(r) \/ Moves(r)
  BY <1>1 DEF Launch, SweepList, Moves, NoBackend, SweepDone, MakeDirs,
       PrepareImage, PhaseEnds, PhaseFails, RecordFails, Settle
<1>2. CASE SweepOne(r)
  <2>1. PICK d \in sweeping[r] :
          IF IsAlive(d.owner) THEN UNCHANGED docker ELSE Cleanup(d.kind, d.run)
    BY <1>2 DEF SweepOne
  <2>2. CASE d.run = u
    BY <2>1, <2>2 DEF OwnerInv, Owned, IsAlive, Live
  <2>3. CASE d.run # u
    BY <2>1, <2>3
  <2> QED
    BY <2>2, <2>3
<1>3. CASE Starts(r)
  BY <1>3 DEF Starts, Started, NotStarted
<1>4. CASE PhaseTimesOut(r) \/ SwitchNetwork(r) \/ Uploads(r) \/ Verify(r)
  BY <1>4 DEF PhaseTimesOut, SwitchNetwork, Uploads, CollectCurated, UploadCurated, Verify
<1>5. CASE Cleans(r) \/ Reports(r)
  BY <1>5 DEF Cleans, CleanupVerifier, CleanupTrial, LastCleanup, Reports, Record,
       RemoveWorkspace, Retry
<1>6. CASE Stops(r)
  BY <1>6 DEF Stops, Exit, Dies
<1> QED
  BY <1>1, <1>2, <1>3, <1>4, <1>5, <1>6, StepKinds DEF Sweeps

(* A run that uses a container has a pid and has it.                       *)
UseInv ==
  \A r \in Run :
    /\ UsesTrial(r) => Here("trial", r)
    /\ UsesVerifier(r) => Here("verifier", r)

(* No phase goes on without its container.                                 *)
LEMMA UseInvStep ==
  ASSUME TypeInv, NetworkInv, OwnerInv, UseInv, PsReliable, [Next]_vars PROVE UseInv'
<1> USE RunAssumption DEF UseInv, UsesTrial, UsesVerifier, TrialContainerInUse
<1>r. ASSUME NEW r \in Run, Launch(r) \/ Step(r) \/ Dies(r) PROVE UseInv'
  <2>o. ASSUME NEW u \in Run, u # r
        PROVE  /\ UsesTrial(u)' => Here("trial", u)'
               /\ UsesVerifier(u)' => Here("verifier", u)'
    <3>1. pc'[u] = pc[u]
      BY <1>r, <2>o, OthersKept
    <3>2. ASSUME pc[u] \in TrialContainerInUse \cup {"verifier"} PROVE pid[u] \in Pid
      BY <3>2 DEF TypeInv, PidOK
    <3>3. \A k : pid[u] \in Pid /\ Here(k, u) => Here(k, u)'
      BY <1>r, <2>o, OthersSpared
    <3> QED
      BY <3>1, <3>2, <3>3
  <2> SUFFICES /\ UsesTrial(r)' => Here("trial", r)'
               /\ UsesVerifier(r)' => Here("verifier", r)'
    BY <2>o
  <2> USE DEF TypeInv, TypeOK, Go, Fail, Phase, trialVars, Here, Cleanup, Removed
  <2>1. CASE Sweeps(r)
    BY <2>1 DEF Sweeps, Launch, SweepList, SweepOne
  <2>2. CASE Moves(r)
    BY <2>2 DEF Moves, NoBackend, SweepDone, MakeDirs, PrepareImage, PhaseEnds,
         PhaseFails, RecordFails, Settle, NextPhase, VerifierPhase
  <2>3. CASE Starts(r)
    <3>1. CASE Started(r, "trial", "start", "prep")
      <4>1. pc'[r] = "prep"
        BY <3>1 DEF Started
      <4>2. Fresh("trial", r) \in docker'
        BY <3>1 DEF Started
      <4>3. Here("trial", r)'
        BY <4>2 DEF Fresh
      <4> QED
        BY <4>1, <4>3
    <3>2. CASE Started(r, "verifier", "vstart", "vupload")
      <4>1. pc[r] = "vstart" /\ pc'[r] = "vupload" /\ docker \subseteq docker'
        BY <3>2 DEF Started
      <4>2. Fresh("verifier", r) \in docker'
        BY <3>2 DEF Started
      <4>3. Here("verifier", r)'
        BY <4>2 DEF Fresh
      <4> QED
        BY <4>1, <4>3
    <3>3. CASE NotStarted(r, "trial", "start", "record")
               \/ NotStarted(r, "verifier", "vstart", "vcleanup")
      BY <3>3 DEF NotStarted
    <3> QED
      BY <2>3, <3>1, <3>2, <3>3 DEF Starts
  <2>4. CASE PhaseTimesOut(r) \/ SwitchNetwork(r)
    BY <2>4 DEF PhaseTimesOut, SwitchNetwork, NetworkInv
  <2>5. CASE Uploads(r)
    BY <2>5 DEF Uploads, CollectCurated, UploadCurated
  <2>6. CASE Verify(r)
    BY <2>6 DEF Verify, AfterVerifier, VerifierKind
  <2>7. CASE Cleans(r)
    BY <2>7 DEF Cleans, CleanupVerifier, CleanupTrial
  <2>8. CASE Reports(r)
    BY <2>8 DEF Reports, Record, RemoveWorkspace, Retry
  <2>9. CASE Stops(r)
    BY <2>9 DEF Stops, Exit, Dies, Ends
  <2> QED
    BY <1>r, <2>1, <2>2, <2>3, <2>4, <2>5, <2>6, <2>7, <2>8, <2>9, StepKinds
<1>u. CASE UNCHANGED vars
  BY <1>u DEF vars, trialVars, Here
<1> QED
  BY <1>r, <1>u DEF Next

(* On a host whose ps can be relied upon no sweep, cleanup or start takes  *)
(* a container from a run that is using it, however pids are used again.   *)
THEOREM TheLivingAreSpared == ASSUME PsReliable PROVE Spec => []LivingSpared
<1>1. Init => OwnerInv /\ UseInv
  BY DEF Init, OwnerInv, UseInv, UsesTrial, UsesVerifier, TrialContainerInUse
<1>2. TypeInv /\ NetworkInv /\ OwnerInv /\ UseInv /\ [Next]_vars => UseInv'
  BY UseInvStep
<1>3. UseInv => LivingSpared
  BY DEF UseInv, LivingSpared
<1> QED
  BY <1>1, <1>2, <1>3, OwnerInvStep, TypeInvHolds, NetworkInvHolds, PTL DEF Spec

=============================================================================
