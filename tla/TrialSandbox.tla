---------------------------- MODULE TrialSandbox ----------------------------
(***************************************************************************)
(* The life of a Docker trial and of its containers (src/main.rs:          *)
(* run_trial, run_trial_once, run_target's sweep; src/sandbox.rs:          *)
(* run_scripts_in_docker, run_verifier_in_separate_container,              *)
(* cleanup_orphaned_trial_containers).                                     *)
(*                                                                         *)
(* Several `seaport run` processes share one Docker daemon.  Each sweeps   *)
(* the containers of dead processes and then runs its trial, in a          *)
(* container named after its run id and labelled with its pid, through the *)
(* phases prep, healthcheck, setup, agent and verifier; the verifier runs  *)
(* in the same container or in a fresh one.  Every phase may fail, time    *)
(* out or end in an I/O error, every cleanup is best effort, a process may *)
(* die at any moment and its pid may be used again.                        *)
(***************************************************************************)
EXTENDS Naturals, FiniteSets

CONSTANTS
  Run,              \* the `seaport run` processes, each with one trial
  Pid, NoPid,       \* process ids of the host
  HasHealthcheck,   \* [environment.healthcheck] is present
  HasSetup,         \* --agent-setup is given
  Separate,         \* the verifier has an environment of its own
  Switches,         \* the agent's and the verifier's network differ
  MaxRetries,       \* --max-retries
  Retryable,        \* the errors --retry-include and --retry-exclude let through
  PsReliable        \* `ps -p` runs and sees every seaport process

ASSUME RunAssumption ==
  /\ NoPid \notin Pid
  /\ {HasHealthcheck, HasSetup, Separate, Switches} \subseteq [Run -> BOOLEAN]
  /\ MaxRetries \in [Run -> Nat]
  /\ Retryable \subseteq {"timeout", "other", "noReward", "unparseable"}
  /\ PsReliable \in BOOLEAN

VARIABLES
  pc,         \* where each run is
  pid,        \* the pid of each live run
  attempt,    \* retries + 1
  failure,    \* the error of the attempt so far
  docker,     \* the containers the daemon holds
  network,    \* the network of each trial container
  ownNetwork, \* the network of each separate verifier's container
  rewardFile, \* the reward file in the workspace of the run
  curated,    \* the attempts whose artifacts lie in the host's transfer directory
  sweeping,   \* the containers `docker ps` listed and the sweep has not handled
  report,     \* the reward the last recorded attempt reported
  uploaded,   \* history: what the verifier container of the attempt was given
  leaked,     \* history: a container removal failed, or a start ended in an I/O error
  staleLogs,  \* history: a workspace removal failed
  staleArtifacts  \* history: a transfer directory removal failed

trialVars == <<network, ownNetwork, rewardFile, curated, report, uploaded, leaked, staleLogs,
               staleArtifacts>>
vars == <<pc, pid, attempt, failure, docker, sweeping, trialVars>>

Attempts == UNION {1 .. MaxRetries[r] + 1 : r \in Run}

(* A reward file: who wrote it (0: record_failed_trial) and whether        *)
(* read_reward can parse it.                                               *)
File == [by : Attempts \cup {0}, parses : BOOLEAN]
NoFile == [by |-> 0, parses |-> FALSE]
Placeholder == [by |-> 0, parses |-> TRUE]

Container == [kind : {"trial", "verifier"}, run : Run, owner : Pid]

Error == {"timeout", "other", "noReward", "unparseable", "fatal"}
InTrial == {"prep", "health", "setup", "agent", "switch", "vimage", "vcollect", "vstart",
            "vupload", "verifier", "vcleanup", "cleanup"}
Pc == InTrial \cup {"idle", "sweep", "sweeping", "mkdir", "image", "start", "record",
                    "remove", "return", "exit", "gone", "dead"}

TypeOK ==
  /\ pc \in [Run -> Pc]
  /\ pid \in [Run -> Pid \cup {NoPid}]
  /\ attempt \in [Run -> Attempts]
  /\ failure \in [Run -> Error \cup {"none"}]
  /\ docker \subseteq Container
  /\ network \in [Run -> {"agent", "verifier", "detached"}]
  /\ ownNetwork \in [Run -> {"agent", "verifier"}]
  /\ rewardFile \in [Run -> File]
  /\ curated \in [Run -> SUBSET Attempts]
  /\ sweeping \in [Run -> SUBSET Container]
  /\ report \in [Run -> File]
  /\ uploaded \in [Run -> SUBSET Attempts]
  /\ {leaked, staleLogs, staleArtifacts} \subseteq [Run -> BOOLEAN]

Init ==
  /\ pc = [r \in Run |-> "idle"]
  /\ pid = [r \in Run |-> NoPid]
  /\ attempt = [r \in Run |-> 1]
  /\ failure = [r \in Run |-> "none"]
  /\ docker = {}
  /\ network = [r \in Run |-> "agent"]
  /\ ownNetwork = [r \in Run |-> "agent"]
  /\ rewardFile = [r \in Run |-> NoFile]
  /\ curated = [r \in Run |-> {}]
  /\ sweeping = [r \in Run |-> {}]
  /\ report = [r \in Run |-> NoFile]
  /\ uploaded = [r \in Run |-> {}]
  /\ leaked = [r \in Run |-> FALSE]
  /\ staleLogs = [r \in Run |-> FALSE]
  /\ staleArtifacts = [r \in Run |-> FALSE]

-----------------------------------------------------------------------------
Here(kind, r) == \E c \in docker : c.kind = kind /\ c.run = r

(* The name carries the kind and the run id, which no other process has.   *)
Fresh(kind, r) == [kind |-> kind, run |-> r, owner |-> pid[r]]
Removed(kind, r) == {c \in docker : ~(c.kind = kind /\ c.run = r)}

(* cleanup_docker_container: an attempt, with a warning when it fails.     *)
Cleanup(kind, r) == docker' \in {docker, Removed(kind, r)}

(* The last cleanup of a container, after which a survivor is a leak.      *)
LastCleanup(kind, r) ==
  /\ Cleanup(kind, r)
  /\ leaked' = [leaked EXCEPT ![r] = @ \/ Here(kind, r)']

Go(r, label) == pc' = [pc EXCEPT ![r] = label]

(* Leave what is under way with an Err.                                    *)
Fail(r, label, error) ==
  /\ Go(r, label)
  /\ failure' = [failure EXCEPT ![r] = error]

-----------------------------------------------------------------------------
(* Processes and the sweep of cleanup_orphaned_trial_containers.           *)
Live(p) == \E r \in Run : pid[r] = p

Launch(r) ==
  /\ pc[r] = "idle"
  /\ \E p \in Pid : ~Live(p) /\ pid' = [pid EXCEPT ![r] = p]
  /\ Go(r, "sweep")
  /\ UNCHANGED <<attempt, failure, docker, sweeping, trialVars>>

(* No Docker, no run.                                                      *)
NoBackend(r) ==
  /\ pc[r] = "sweep"
  /\ Fail(r, "exit", "fatal")
  /\ UNCHANGED <<pid, attempt, docker, sweeping, trialVars>>

(* `docker ps --all` with the label; when it fails there is no sweep.      *)
SweepList(r) ==
  /\ pc[r] = "sweep"
  /\ \E listed \in {docker, {}} : sweeping' = [sweeping EXCEPT ![r] = listed]
  /\ Go(r, "sweeping")
  /\ UNCHANGED <<pid, attempt, failure, docker, trialVars>>

(* Mutated form of IsAlive: only this process counts.                      *)
IsAliveToItself(p) == FALSE

(* process_is_alive: a `ps` that cannot be run, or does not see the        *)
(* process, says that it is gone.                                          *)
IsAlive(p) == Live(p) /\ PsReliable

SweepOne(r) ==
  /\ pc[r] = "sweeping"
  /\ \E c \in sweeping[r] :
       /\ sweeping' = [sweeping EXCEPT ![r] = @ \ {c}]
       /\ IF IsAlive(c.owner) THEN UNCHANGED docker ELSE Cleanup(c.kind, c.run)
  /\ UNCHANGED <<pc, pid, attempt, failure, trialVars>>

SweepDone(r) ==
  /\ pc[r] = "sweeping"
  /\ sweeping[r] = {}
  /\ Go(r, "mkdir")
  /\ UNCHANGED <<pid, attempt, failure, docker, sweeping, trialVars>>

-----------------------------------------------------------------------------
(* run_trial_once: directories, then the image (see ImageCache).           *)
MakeDirs(r) ==
  /\ pc[r] = "mkdir"
  /\ \/ Go(r, "image") /\ failure' = [failure EXCEPT ![r] = "none"]
     \/ Fail(r, "exit", "fatal")
  /\ UNCHANGED <<pid, attempt, docker, sweeping, trialVars>>

(* prepare_docker_image, for the trial's or for the verifier's container.  *)
PrepareImage(r, at, then, else) ==
  /\ pc[r] = at
  /\ \/ Go(r, then) /\ UNCHANGED failure
     \/ \E error \in {"timeout", "other", "fatal"} : Fail(r, else, error)
  /\ UNCHANGED <<pid, attempt, docker, sweeping, trialVars>>

(* Mutated form of StartsOn: a separate verifier on the agent's network.   *)
StartsOnAgents(kind) == "agent"

(* The network in the call: the agent's, or the verifier's when its        *)
(* environment is separate.                                                *)
StartsOn(kind) == IF kind = "trial" THEN "agent" ELSE "verifier"

(* start_trial_container.  The daemon refuses a name in use.               *)
Started(r, kind, at, then) ==
  /\ pc[r] = at
  /\ ~Here(kind, r)
  /\ docker' = docker \cup {Fresh(kind, r)}
  /\ IF kind = "trial"
       THEN network' = [network EXCEPT ![r] = StartsOn(kind)] /\ UNCHANGED ownNetwork
       ELSE ownNetwork' = [ownNetwork EXCEPT ![r] = StartsOn(kind)] /\ UNCHANGED network
  /\ Go(r, then)
  /\ UNCHANGED <<pid, attempt, failure, sweeping, rewardFile, curated, report, uploaded,
                 leaked, staleLogs, staleArtifacts>>

(* A refusal and a timeout remove what has the name; an I/O error after    *)
(* the spawn returns at once.  Killing the client at the timeout does not  *)
(* undo what the daemon did.                                               *)
NotStarted(r, kind, at, else) ==
  /\ pc[r] = at
  /\ \/ Fail(r, else, "other") /\ Cleanup(kind, r)
     \/ Fail(r, else, "timeout") /\ docker' \in {docker, docker \cup {Fresh(kind, r)}, Removed(kind, r)}
     \/ Fail(r, else, "fatal") /\ docker' \in {docker, docker \cup {Fresh(kind, r)}}
  /\ leaked' = [leaked EXCEPT ![r] = @ \/ Here(kind, r)']
  /\ UNCHANGED <<pid, attempt, sweeping, network, ownNetwork, rewardFile, curated,
                 report, uploaded, staleLogs, staleArtifacts>>

StartTrial(r) ==
  \/ Started(r, "trial", "start", "prep")
  \/ NotStarted(r, "trial", "start", "record")

-----------------------------------------------------------------------------
(* The phases in the trial's container.                                    *)
VerifierPhase(r) ==
  IF Separate[r] THEN "vimage" ELSE IF Switches[r] THEN "switch" ELSE "verifier"

NextPhase(r) ==
  CASE pc[r] = "prep" /\ HasHealthcheck[r] -> "health"
    [] pc[r] \in {"prep", "health"} /\ HasSetup[r] -> "setup"
    [] pc[r] = "agent" -> VerifierPhase(r)
    [] OTHER -> "agent"

Phase == {"prep", "health", "setup", "agent"}

(* The command ran and its status does not matter or is zero.  The agent's *)
(* artifacts are collected before the verifier; that never fails.          *)
PhaseEnds(r) ==
  /\ pc[r] \in Phase
  /\ Here("trial", r) \/ pc[r] = "agent"
  /\ Go(r, NextPhase(r))
  /\ UNCHANGED <<pid, attempt, failure, docker, sweeping, trialVars>>

(* A non-zero status, a healthcheck out of retries, or an I/O error.       *)
PhaseFails(r) ==
  /\ pc[r] \in Phase
  /\ \/ pc[r] # "agent" /\ Fail(r, "cleanup", "other")
     \/ Fail(r, "cleanup", "fatal")
  /\ UNCHANGED <<pid, attempt, docker, sweeping, trialVars>>

(* Killing `docker exec` leaves the script running: the container goes.    *)
(* A healthcheck that times out only counts as failed.                     *)
PhaseTimesOut(r) ==
  /\ pc[r] \in Phase \ {"health"}
  /\ Fail(r, "cleanup", "timeout")
  /\ Cleanup("trial", r)
  /\ UNCHANGED <<pid, attempt, sweeping, trialVars>>

(* Mutated form of SwitchNetwork: the new network is never connected.      *)
SwitchDisconnects(r) ==
  /\ pc[r] = "switch"
  /\ Go(r, "verifier")
  /\ network' = [network EXCEPT ![r] = "detached"]
  /\ UNCHANGED <<pid, attempt, failure, docker, sweeping, ownNetwork, rewardFile,
                 curated, report, uploaded, leaked, staleLogs, staleArtifacts>>

(* switch_container_network: disconnect, then connect.                     *)
SwitchNetwork(r) ==
  /\ pc[r] = "switch"
  /\ \/ /\ Here("trial", r)
        /\ Go(r, "verifier")
        /\ network' = [network EXCEPT ![r] = "verifier"]
        /\ UNCHANGED failure
     \/ /\ \E error \in {"other", "fatal"} : Fail(r, "cleanup", error)
        /\ \E reached \in {"agent", "detached"} : network' = [network EXCEPT ![r] = reached]
  /\ UNCHANGED <<pid, attempt, docker, sweeping, ownNetwork, rewardFile, curated,
                 report, uploaded, leaked, staleLogs, staleArtifacts>>

-----------------------------------------------------------------------------
(* The separate verifier: CuratedArtifacts::collect clears the host        *)
(* directory as best it can and copies what it finds.                      *)
CollectCurated(r) ==
  /\ pc[r] = "vcollect"
  /\ \E left \in {{}, curated[r]}, copied \in {{}, {attempt[r]}} :
       curated' = [curated EXCEPT ![r] = left \cup copied]
  /\ Go(r, "vstart")
  /\ UNCHANGED <<pid, attempt, failure, docker, sweeping, network, ownNetwork,
                 rewardFile, report, uploaded, leaked, staleLogs, staleArtifacts>>

StartVerifier(r) ==
  \/ Started(r, "verifier", "vstart", "vupload")
  \/ NotStarted(r, "verifier", "vstart", "vcleanup")

(* populate_writable_tests, upload_into and prep_container_workspace.      *)
UploadCurated(r) ==
  /\ pc[r] = "vupload"
  /\ \/ Go(r, "verifier") /\ Here("verifier", r) /\ UNCHANGED <<failure, docker>>
     \/ \E error \in {"other", "fatal"} : Fail(r, "vcleanup", error) /\ UNCHANGED docker
     \/ Fail(r, "vcleanup", "timeout") /\ Cleanup("verifier", r)
  /\ uploaded' = [uploaded EXCEPT ![r] = curated[r]]
  /\ UNCHANGED <<pid, attempt, sweeping, network, ownNetwork, rewardFile, curated,
                 report, leaked, staleLogs, staleArtifacts>>

(* Mutated form of CleanupVerifier: the transfer directory is not dropped. *)
CleanupVerifierKeeps(r) ==
  /\ pc[r] = "vcleanup"
  /\ LastCleanup("verifier", r)
  /\ uploaded' = [uploaded EXCEPT ![r] = {}]
  /\ Go(r, "cleanup")
  /\ UNCHANGED <<pid, attempt, failure, sweeping, network, ownNetwork, rewardFile,
                 curated, report, staleLogs, staleArtifacts>>

(* The verifier container, then the transfer directory.                    *)
CleanupVerifier(r) ==
  /\ pc[r] = "vcleanup"
  /\ LastCleanup("verifier", r)
  /\ \E left \in {{}, curated[r]} :
       /\ curated' = [curated EXCEPT ![r] = left]
       /\ staleArtifacts' = [staleArtifacts EXCEPT ![r] = @ \/ left # {}]
  /\ uploaded' = [uploaded EXCEPT ![r] = {}]
  /\ Go(r, "cleanup")
  /\ UNCHANGED <<pid, attempt, failure, sweeping, network, ownNetwork, rewardFile,
                 report, staleLogs>>

(* run_verifier_in_separate_container, but for tests/test.sh itself: an    *)
(* error before the container's start skips its cleanup, any later one     *)
(* does not.                                                               *)
SeparateVerifier(r) ==
  \/ PrepareImage(r, "vimage", "vcollect", "cleanup")
  \/ CollectCurated(r)
  \/ StartVerifier(r)
  \/ UploadCurated(r)
  \/ CleanupVerifier(r)

-----------------------------------------------------------------------------
(* tests/test.sh may write a reward whatever its status and even if it is  *)
(* then killed; nothing removes an older file before it.                   *)
VerifierKind(r) == IF Separate[r] THEN "verifier" ELSE "trial"

WritesReward(r) ==
  \/ UNCHANGED rewardFile
  \/ /\ Here(VerifierKind(r), r)
     /\ \E parses \in BOOLEAN :
          rewardFile' = [rewardFile EXCEPT ![r] = [by |-> attempt[r], parses |-> parses]]

AfterVerifier(r) == IF Separate[r] THEN "vcleanup" ELSE "cleanup"

Verify(r) ==
  /\ pc[r] = "verifier"
  /\ WritesReward(r)
  /\ \/ Go(r, AfterVerifier(r)) /\ UNCHANGED <<failure, docker>>
     \/ Fail(r, AfterVerifier(r), "fatal") /\ UNCHANGED docker
     \/ Fail(r, AfterVerifier(r), "timeout") /\ Cleanup(VerifierKind(r), r)
  /\ UNCHANGED <<pid, attempt, sweeping, network, ownNetwork, curated, report, uploaded,
                 leaked, staleLogs, staleArtifacts>>

(* Mutated form of CleanupTrial: the cleanup runs only for an Ok result.   *)
CleanupAfterSuccess(r) ==
  /\ pc[r] = "cleanup"
  /\ IF failure[r] = "none" THEN LastCleanup("trial", r) ELSE UNCHANGED <<docker, leaked>>
  /\ Go(r, IF failure[r] = "fatal" THEN "exit" ELSE "record")
  /\ UNCHANGED <<pid, attempt, failure, sweeping, network, ownNetwork, rewardFile,
                 curated, report, uploaded, staleLogs, staleArtifacts>>

(* The cleanup after the closure, whatever its result.                     *)
CleanupTrial(r) ==
  /\ pc[r] = "cleanup"
  /\ LastCleanup("trial", r)
  /\ Go(r, IF failure[r] = "fatal" THEN "exit" ELSE "record")
  /\ UNCHANGED <<pid, attempt, failure, sweeping, network, ownNetwork, rewardFile,
                 curated, report, uploaded, staleLogs, staleArtifacts>>

-----------------------------------------------------------------------------
(* read_reward turns a missing or unreadable file into a task failure.     *)
RewardError(r) ==
  IF failure[r] # "none" THEN failure[r]
  ELSE IF rewardFile[r] = NoFile THEN "noReward"
  ELSE IF ~rewardFile[r].parses THEN "unparseable"
  ELSE "none"

(* record_completed_trial, or record_failed_trial, which also writes "0"   *)
(* as reward.txt into the workspace; a reward.json there still wins.       *)
Record(r) ==
  /\ pc[r] = "record"
  /\ RewardError(r) # "fatal"
  /\ failure' = [failure EXCEPT ![r] = RewardError(r)]
  /\ IF RewardError(r) = "none"
       THEN report' = [report EXCEPT ![r] = rewardFile[r]] /\ UNCHANGED rewardFile
       ELSE /\ report' = [report EXCEPT ![r] = NoFile]
            /\ \E kept \in {Placeholder, rewardFile[r]} \ {NoFile} :
                 rewardFile' = [rewardFile EXCEPT ![r] = kept]
  /\ Go(r, "remove")
  /\ UNCHANGED <<pid, attempt, docker, sweeping, network, ownNetwork, curated, uploaded,
                 leaked, staleLogs, staleArtifacts>>

(* An Err that is no task failure, or a file that cannot be written: the   *)
(* run ends and the workspace stays.                                       *)
RecordFails(r) ==
  /\ pc[r] = "record"
  /\ Fail(r, "exit", "fatal")
  /\ UNCHANGED <<pid, attempt, docker, sweeping, trialVars>>

(* Mutated form of RemoveWorkspace: the workspace is left to the system.   *)
KeepWorkspace(r) ==
  /\ pc[r] = "remove"
  /\ Go(r, "return")
  /\ UNCHANGED <<pid, attempt, failure, docker, sweeping, trialVars>>

(* remove_dir_all(&workspace), which only warns.                           *)
RemoveWorkspace(r) ==
  /\ pc[r] = "remove"
  /\ Go(r, "return")
  /\ \E left \in {NoFile, rewardFile[r]} :
       /\ rewardFile' = [rewardFile EXCEPT ![r] = left]
       /\ staleLogs' = [staleLogs EXCEPT ![r] = @ \/ left # NoFile]
  /\ UNCHANGED <<pid, attempt, failure, docker, sweeping, network, ownNetwork, curated,
                 report, uploaded, leaked, staleArtifacts>>

(* run_trial: an error that may be retried and retries that are left.      *)
Retries(r) == failure[r] \in Retryable /\ attempt[r] <= MaxRetries[r]

Retry(r) ==
  /\ pc[r] = "return"
  /\ Retries(r)
  /\ attempt' = [attempt EXCEPT ![r] = @ + 1]
  /\ Go(r, "mkdir")
  /\ UNCHANGED <<pid, failure, docker, sweeping, trialVars>>

Settle(r) ==
  /\ pc[r] = "return"
  /\ ~Retries(r)
  /\ Go(r, "exit")
  /\ UNCHANGED <<pid, attempt, failure, docker, sweeping, trialVars>>

(* The process ends and its memory with it; what it left on disk and in    *)
(* the daemon stays.                                                       *)
Ends(r, label) ==
  /\ Go(r, label)
  /\ pid' = [pid EXCEPT ![r] = NoPid]
  /\ attempt' = [attempt EXCEPT ![r] = 1]
  /\ failure' = [failure EXCEPT ![r] = "none"]
  /\ sweeping' = [sweeping EXCEPT ![r] = {}]
  /\ report' = [report EXCEPT ![r] = NoFile]
  /\ uploaded' = [uploaded EXCEPT ![r] = {}]
  /\ network' = [network EXCEPT ![r] = "agent"]
  /\ ownNetwork' = [ownNetwork EXCEPT ![r] = "agent"]

Exit(r) ==
  /\ pc[r] = "exit"
  /\ Ends(r, "gone")
  /\ UNCHANGED <<docker, rewardFile, curated, leaked, staleLogs, staleArtifacts>>

BeingCreated(r) ==
  {k \in {"trial", "verifier"} :
     /\ pc[r] = IF k = "trial" THEN "start" ELSE "vstart"
     /\ ~Here(k, r)}

(* Ctrl-C, a crash or a kill: no destructor runs; a container whose        *)
(* creation was under way may still appear.                                *)
Dies(r) ==
  /\ pid[r] # NoPid
  /\ Ends(r, "dead")
  /\ docker' \in {docker} \cup {docker \cup {Fresh(k, r)} : k \in BeingCreated(r)}
  /\ UNCHANGED <<rewardFile, curated, leaked, staleLogs, staleArtifacts>>

-----------------------------------------------------------------------------
Step(r) ==
  \/ NoBackend(r) \/ SweepList(r) \/ SweepOne(r) \/ SweepDone(r)
  \/ MakeDirs(r) \/ PrepareImage(r, "image", "start", "record") \/ StartTrial(r)
  \/ PhaseEnds(r) \/ PhaseFails(r) \/ PhaseTimesOut(r) \/ SwitchNetwork(r)
  \/ SeparateVerifier(r) \/ Verify(r) \/ CleanupTrial(r)
  \/ Record(r) \/ RecordFails(r) \/ RemoveWorkspace(r)
  \/ Retry(r) \/ Settle(r) \/ Exit(r)

Next == \E r \in Run : Launch(r) \/ Step(r) \/ Dies(r)

Spec == Init /\ [][Next]_vars

-----------------------------------------------------------------------------
TrialContainerInUse ==
  {"prep", "health", "setup", "agent", "switch", "vimage", "vcollect", "vstart", "vupload"}

UsesTrial(r) ==
  \/ pc[r] \in TrialContainerInUse
  \/ pc[r] = "verifier" /\ ~Separate[r]

UsesVerifier(r) ==
  \/ pc[r] = "vupload"
  \/ pc[r] = "verifier" /\ Separate[r]

(* A container in use is there: no other process's sweep, timeout cleanup  *)
(* or start takes it away under a running phase.                           *)
LivingSpared ==
  \A r \in Run :
    /\ UsesTrial(r) => Here("trial", r)
    /\ UsesVerifier(r) => Here("verifier", r)

(* Between attempts and after its end a run has no container, unless a     *)
(* removal failed, a start ended in an I/O error, or the process died.     *)
SweptAway ==
  \A r \in Run :
    pc[r] \in {"mkdir", "image", "record", "remove", "return", "exit", "gone"} /\ ~leaked[r] =>
      ~Here("trial", r) /\ ~Here("verifier", r)

(* A reward that is reported as the verifier's was written by the verifier *)
(* of that very attempt, unless the workspace of an earlier attempt could  *)
(* not be removed.                                                         *)
RewardIsOwn ==
  \A r \in Run : report[r] # NoFile /\ ~staleLogs[r] => report[r].by = attempt[r]

(* A separate verifier is given the artifacts of its own attempt only,     *)
(* unless the transfer directory could not be removed.                     *)
ArtifactsAreOwn ==
  \A r \in Run : ~staleArtifacts[r] => uploaded[r] \subseteq {attempt[r]}

(* Every phase runs in a container on the network declared for it: the     *)
(* agent's and those before it on the agent's, a shared verifier on the    *)
(* verifier's once the container was switched to it, and all that is done  *)
(* in a separate verifier's container on the verifier's.                   *)
NetworkAsDeclared ==
  \A r \in Run :
    /\ pc[r] \in Phase => network[r] = "agent"
    /\ pc[r] = "verifier" /\ ~Separate[r] =>
         network[r] = IF Switches[r] THEN "verifier" ELSE "agent"
    /\ UsesVerifier(r) => ownNetwork[r] = "verifier"

=============================================================================
