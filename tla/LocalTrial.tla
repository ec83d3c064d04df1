----------------------------- MODULE LocalTrial ------------------------------
(***************************************************************************)
(* A trial of the unsafe-local backend (src/sandbox.rs: run_task_scripts,  *)
(* run_scripts_locally, run_shell_locally, run_script_locally; src/main.rs:*)
(* run_trial, run_trial_once).                                             *)
(*                                                                         *)
(* The agent and then the verifier are run on the host with                *)
(* run_command_with_timeout, and the reward is read from a workspace whose *)
(* path is the same for every attempt.  Any process that a script started  *)
(* and that still lives may write there, those of earlier attempts too.    *)
(***************************************************************************)
EXTENDS Naturals, CommandRunner

CONSTANTS
  Agent,        \* the agents asked for, of "oracle", "nop" and "external"
  MaxRetries,   \* --max-retries
  Retryable     \* the errors that --retry-include and --retry-exclude let through

Error == {"timeout", "agentFailed", "noReward", "unparseable"}

ASSUME LocalTrialAssumption ==
  /\ Agent \subseteq {"oracle", "nop", "external"}
  /\ MaxRetries \in Nat
  /\ Retryable \subseteq Error

VARIABLES
  agent,      \* the SandboxAgent
  pc,         \* where run_trial is
  attempt,    \* retries + 1
  file,       \* the reward file in the workspace
  failure,    \* the error of the attempt
  report,     \* the reward file the last recorded attempt was read from
  stale,      \* history: a workspace removal failed
  outlived    \* history: a process of an attempt lived on into the next one

trialVars == <<agent, pc, attempt, file, failure, report, stale, outlived>>
vars == <<runnerVars, trialVars>>

Attempts == 1 .. MaxRetries + 1
Command == [attempt : Attempts, phase : {"agent", "verifier"}]
Nobody == [attempt |-> 0, phase |-> "seaport"]

(* A reward file: the command whose process wrote it, and whether it can   *)
(* be parsed.  record_failed_trial writes the placeholder.                 *)
File == [by : Command \cup {Nobody}, parses : BOOLEAN]
NoFile == [by |-> Nobody, parses |-> FALSE]
Placeholder == [by |-> Nobody, parses |-> TRUE]

TypeOK ==
  /\ RunnerOK(Command)
  /\ agent \in Agent
  /\ pc \in {"mkdir", "agent", "agentRuns", "verifier", "verifierRuns", "read", "record",
             "remove", "return", "settled", "fatal"}
  /\ attempt \in Attempts
  /\ file \in File /\ report \in File
  /\ failure \in Error \cup {"none"}
  /\ stale \in BOOLEAN /\ outlived \in BOOLEAN

Init ==
  /\ RunnerInit([attempt |-> 1, phase |-> "agent"])
  /\ agent \in Agent
  /\ pc = "mkdir"
  /\ attempt = 1
  /\ file = NoFile /\ report = NoFile
  /\ failure = "none"
  /\ stale = FALSE /\ outlived = FALSE

-----------------------------------------------------------------------------
Go(label) == pc' = label /\ UNCHANGED failure
Fail(error) == pc' = "record" /\ failure' = error
Fatal == Go("fatal")

(* The directories and prepare_task_file_workspace.  An I/O error, an      *)
(* entry of task_file that cannot be copied, and a multi-step task (which  *)
(* this backend does not implement) are fatal for the job.                 *)
MakeDirs ==
  /\ pc = "mkdir"
  /\ Go("agent") \/ Fatal
  /\ UNCHANGED <<runnerVars, agent, attempt, file, report, stale, outlived>>

(* Call run_command_with_timeout for a phase.                              *)
Start(phase, label) ==
  /\ Spawn([attempt |-> attempt, phase |-> phase])
  /\ Go(label)
  /\ UNCHANGED <<agent, attempt, file, report, stale, outlived>>

(* AgentStep::nop: nothing is run.                                         *)
SkipAgent ==
  /\ pc = "agent" /\ agent = "nop"
  /\ Go("verifier")
  /\ UNCHANGED <<runnerVars, agent, attempt, file, report, stale, outlived>>

StartAgent == pc = "agent" /\ agent # "nop" /\ Start("agent", "agentRuns")
StartVerifier == pc = "verifier" /\ Start("verifier", "verifierRuns")

(* Only an external agent fails the trial with its status.                 *)
FailsTrial == pc = "agentRuns" /\ agent = "external" /\ child # "zero"

(* run_script_locally, run_shell_locally: what became of the command.      *)
Returned(label, then) ==
  /\ pc = label /\ runner = "done"
  /\ runner' = "idle"
  /\ IF timedOut THEN Fail("timeout") ELSE IF FailsTrial THEN Fail("agentFailed") ELSE Go(then)
  /\ UNCHANGED <<now, child, late, timedOut, reader, strays, agent, attempt, file, report,
                 stale, outlived>>

AgentReturned == Returned("agentRuns", "verifier")
VerifierReturned == Returned("verifierRuns", "read")

(* An I/O error of the runner is no task failure.                          *)
RunnerError ==
  /\ pc \in {"agentRuns", "verifierRuns"} /\ runner = "error"
  /\ Fatal
  /\ UNCHANGED <<runnerVars, agent, attempt, file, report, stale, outlived>>

(* What cannot be parsed may also be no text: an I/O error.                *)
ReadReward ==
  /\ pc = "read"
  /\ \/ file = NoFile /\ Fail("noReward")
     \/ file # NoFile /\ ~file.parses /\ (Fail("unparseable") \/ Fatal)
     \/ file.parses /\ Go("record")
  /\ report' = IF file.parses THEN file ELSE NoFile
  /\ UNCHANGED <<runnerVars, agent, attempt, file, stale, outlived>>

(* record_completed_trial, or record_failed_trial, which writes "0" as     *)
(* reward.txt; a reward.json there still wins.                             *)
Record ==
  /\ pc = "record"
  /\ Go("remove") \/ Fatal
  /\ IF failure = "none" THEN UNCHANGED file ELSE file' \in {Placeholder, file} \ {NoFile}
  /\ report' = IF failure = "none" THEN report ELSE NoFile
  /\ UNCHANGED <<runnerVars, agent, attempt, stale, outlived>>

(* Mutated form of RemoveWorkspace: it is kept.                            *)
KeepWorkspace ==
  /\ pc = "remove"
  /\ Go("return")
  /\ UNCHANGED <<runnerVars, agent, attempt, file, report, stale, outlived>>

(* remove_dir_all of the workspace: a warning when it fails.               *)
RemoveWorkspace ==
  /\ pc = "remove"
  /\ Go("return")
  /\ \/ file' = NoFile /\ UNCHANGED stale
     \/ file' \in {NoFile, file} /\ stale' = TRUE
  /\ UNCHANGED <<runnerVars, agent, attempt, report, outlived>>

(* By default an agent that failed is retryable, a timeout and a missing   *)
(* reward are not; the output in an error may match a pattern by accident. *)
Retry ==
  /\ pc = "return" /\ failure \in Retryable
  /\ attempt <= MaxRetries
  /\ attempt' = attempt + 1
  /\ pc' = "mkdir" /\ failure' = "none"
  /\ outlived' = (outlived \/ strays # {})
  /\ UNCHANGED <<runnerVars, agent, file, report, stale>>

Settle ==
  /\ pc = "return"
  /\ Go("settled")
  /\ UNCHANGED <<runnerVars, agent, attempt, file, report, stale, outlived>>

(* A script, or a process it left behind, writes a reward file.            *)
Alive(command) ==
  \/ now = command /\ child = "running"
  \/ \E x \in strays : x.of = command

WorkspaceThere == pc \notin {"mkdir", "return", "settled", "fatal"} \/ stale

WriteReward ==
  /\ WorkspaceThere
  /\ \E command \in Command, parses \in BOOLEAN :
       Alive(command) /\ file' = [by |-> command, parses |-> parses]
  /\ UNCHANGED <<runnerVars, agent, pc, attempt, failure, report, stale, outlived>>

TrialStep ==
  \/ MakeDirs \/ SkipAgent \/ StartAgent \/ AgentReturned \/ StartVerifier \/ VerifierReturned
  \/ RunnerError \/ ReadReward \/ Record \/ RemoveWorkspace \/ Retry \/ Settle

Next ==
  \/ TrialStep
  \/ RunnerStep /\ UNCHANGED trialVars
  \/ WriteReward

Spec == Init /\ [][Next]_vars
Fairness ==
  /\ WF_vars(TrialStep \/ (CallerStep /\ UNCHANGED trialVars))
  /\ RunnerFairness
FairSpec == Spec /\ Fairness

-----------------------------------------------------------------------------
(* When a command has returned, no process is left that could still write  *)
(* to its pipes: what was captured is all of its output, and the next      *)
(* command runs beside nothing that is connected to an earlier one, whether *)
(* or not it was killed at its timeout.                                    *)
OneAtATime ==
  /\ runner \in {"idle", "done"} => child # "running"
  /\ runner # "error" =>
       \A x \in strays : x.pipes # {} => x.of = now /\ runner \notin {"idle", "done"}

(* The reward of a trial was written by a process of its last attempt,     *)
(* unless an earlier workspace could not be removed or a process of an     *)
(* earlier attempt, by then without the pipes, lived on beside it.         *)
RewardOfAttempt ==
  report # NoFile => report.by.attempt = attempt \/ stale \/ outlived

(* A trial ends, unless some process that a script left behind keeps a     *)
(* pipe open for ever: the timeout of the phase does not end that wait.    *)
TrialEnds == <>[]Held \/ <>(pc \in {"settled", "fatal"})

=============================================================================
