--------------------------- MODULE CommandProofs -----------------------------
(***************************************************************************)
(* Proofs about the two callers of the CommandRunner: LocalTrial, for its  *)
(* types, what is left of a command that has returned and whose reward is  *)
(* reported; and Healthcheck, for its types and how many failed checks it  *)
(* takes, for every number of retries and every modulus in the place of    *)
(* 2^32.                                                                   *)
(***************************************************************************)
EXTENDS LocalTrial, Healthcheck, TLAPS

-----------------------------------------------------------------------------
(* The two phases of an attempt are commands.                              *)
LEMMA CommandType ==
  ASSUME NEW a \in Attempts, NEW f \in {"agent", "verifier"}
  PROVE  [attempt |-> a, phase |-> f] \in Command
  BY DEF Command

(* The files that no process wrote are files.                              *)
LEMMA FileType == NoFile \in File /\ Placeholder \in File
  BY DEF NoFile, Placeholder, File

(* There is an attempt.                                                    *)
LEMMA FirstAttempt == 1 \in Attempts
  BY LocalTrialAssumption DEF Attempts

(* The first state has its types.                                          *)
LEMMA InitType == Init => TypeOK
<1> SUFFICES ASSUME Init PROVE TypeOK
  OBVIOUS
<1>1. RunnerOK(Command)
  BY CommandType, FirstAttempt DEF Init, RunnerInit, RunnerOK, Status, Stream, Stray
<1> QED
  BY <1>1, FileType, FirstAttempt DEF Init, TypeOK

(* The runner and the world keep the types of the command runner.          *)
LEMMA RunnerType ==
  ASSUME RunnerOK(Command), RunnerStep
  PROVE  RunnerOK(Command)'
<1> USE DEF RunnerOK
<1>1. CASE TryWait
  BY <1>1 DEF TryWait, Goto
<1>2. CASE LookAtClock
  BY <1>2 DEF LookAtClock, Goto
<1>3. CASE Kill
  BY <1>3 DEF Kill, Goto, Status
<1>4. CASE JoinOut \/ JoinErr
  BY <1>4 DEF JoinOut, JoinErr, Join, Goto
<1>5. ASSUME NEW s \in Stream, Read(s) PROVE RunnerOK(Command)'
  BY <1>5 DEF Read
<1>6. CASE ChildExits
  BY <1>6 DEF ChildExits
<1>7. CASE ChildForks
  <2> PICK pipes \in SUBSET Stream : strays' = strays \cup {[of |-> now, pipes |-> pipes]}
    BY <1>7 DEF ChildForks
  <2>1. [of |-> now, pipes |-> pipes] \in Stray(Command)
    BY DEF Stray
  <2> QED
    BY <1>7, <2>1 DEF ChildForks
<1>8. CASE StrayEnds
  BY <1>8 DEF StrayEnds
<1>9. CASE TimePasses
  BY <1>9 DEF TimePasses
<1> QED
  BY <1>1, <1>2, <1>3, <1>4, <1>5, <1>6, <1>7, <1>8, <1>9
  DEF RunnerStep, CallerStep, WorldStep

(* So does the start of a command.                                         *)
LEMMA SpawnType ==
  ASSUME RunnerOK(Command), NEW command \in Command, Spawn(command)
  PROVE  RunnerOK(Command)'
  BY DEF RunnerOK, Spawn

(* One step keeps all the types.                                           *)
LEMMA TypeStep ==
  ASSUME TypeOK, [Next]_vars
  PROVE  TypeOK'
<1> USE DEF TypeOK
<1>1. CASE MakeDirs \/ SkipAgent \/ RunnerError \/ Settle
  BY <1>1 DEF MakeDirs, SkipAgent, RunnerError, Settle, Go, Fatal, RunnerOK, runnerVars
<1>2. ASSUME NEW f \in {"agent", "verifier"}, NEW label \in {"agentRuns", "verifierRuns"},
             Start(f, label)
      PROVE  TypeOK'
  BY <1>2, SpawnType, CommandType DEF Start, Go
<1>3. CASE AgentReturned \/ VerifierReturned
  BY <1>3 DEF AgentReturned, VerifierReturned, Returned, Go, Fail, RunnerOK, Error
<1>4. CASE ReadReward
  BY <1>4, FileType DEF ReadReward, Go, Fail, Fatal, Error, RunnerOK, runnerVars
<1>5. CASE Record
  BY <1>5, FileType DEF Record, Go, Fatal, RunnerOK, runnerVars
<1>6. CASE RemoveWorkspace
  BY <1>6, FileType DEF RemoveWorkspace, Go, RunnerOK, runnerVars
<1>7. CASE Retry
  BY <1>7, LocalTrialAssumption DEF Retry, Attempts, RunnerOK, runnerVars
<1>8. CASE RunnerStep /\ UNCHANGED trialVars
  BY <1>8, RunnerType DEF trialVars
<1>9. CASE WriteReward
  BY <1>9 DEF WriteReward, File, RunnerOK, runnerVars
<1>10. CASE UNCHANGED vars
  BY <1>10 DEF vars, runnerVars, trialVars, RunnerOK
<1> QED
  BY <1>1, <1>2, <1>3, <1>4, <1>5, <1>6, <1>7, <1>8, <1>9, <1>10
  DEF Next, TrialStep, StartAgent, StartVerifier

(* Every behaviour of a local trial has the types of its state.            *)
THEOREM TypeCorrect == Spec => []TypeOK
  BY InitType, TypeStep, PTL DEF Spec

-----------------------------------------------------------------------------
(* What is left of a command.                                              *)

(* Where run_trial and run_command_with_timeout are together.              *)
Calls ==
  /\ runner \in {"poll", "clock", "kill", "joinOut", "joinErr", "done"} =>
       pc \in {"agentRuns", "verifierRuns"}
  /\ runner = "error" => pc \in {"agentRuns", "verifierRuns", "fatal"}
  /\ pc \in {"agentRuns", "verifierRuns"} => runner # "idle"

(* A reader at the end of its pipe has nobody left at the other end, and   *)
(* the caller passes both joins: until it is called in vain (an error of   *)
(* the runner, which ends the job) nothing of an earlier command has a     *)
(* pipe.                                                                   *)
Drained ==
  runner # "error" =>
    /\ \A s \in Stream : reader[s] = "eof" => ~HeldOpen(s)
    /\ runner \in {"idle", "joinOut", "joinErr", "done"} => child # "running"
    /\ runner \in {"idle", "joinErr", "done"} => reader["out"] = "eof"
    /\ runner \in {"idle", "done"} => reader["err"] = "eof"
    /\ \A x \in strays : x.pipes # {} => x.of = now

(* Nothing was started before the first command.                           *)
LEMMA DrainedInit == Init => Calls /\ Drained
  BY DEF Init, RunnerInit, Calls, Drained, HeldOpen, Stream

(* The runner and the world keep it by themselves.                         *)
LEMMA DrainedRunner ==
  ASSUME RunnerOK(Command), Drained, RunnerStep
  PROVE  Drained'
<1> SUFFICES ASSUME runner' # "error"
             PROVE  /\ \A s \in Stream : reader'[s] = "eof" => ~HeldOpen(s)'
                    /\ runner' \in {"idle", "joinOut", "joinErr", "done"} => child' # "running"
                    /\ runner' \in {"idle", "joinErr", "done"} => reader'["out"] = "eof"
                    /\ runner' \in {"idle", "done"} => reader'["err"] = "eof"
                    /\ \A x \in strays' : x.pipes # {} => x.of = now'
  BY DEF Drained
<1> USE DEF Drained, HeldOpen, RunnerOK
<1>1. CASE TryWait
  BY <1>1 DEF TryWait, Goto
<1>2. CASE LookAtClock
  BY <1>2 DEF LookAtClock, Goto
<1>3. CASE Kill
  BY <1>3 DEF Kill, Goto
<1>4. CASE JoinOut
  BY <1>4 DEF JoinOut, Join, Goto
<1>5. CASE JoinErr
  BY <1>5 DEF JoinErr, Join, Goto
<1>6. ASSUME NEW s \in Stream, Read(s)
      PROVE  /\ \A t \in Stream : reader'[t] = "eof" => ~HeldOpen(t)'
             /\ runner' = runner /\ child' = child /\ strays' = strays /\ now' = now
             /\ \A t \in Stream : reader[t] = "eof" => reader'[t] = "eof"
  BY <1>6 DEF Read
<1>7. CASE ChildExits
  BY <1>7 DEF ChildExits, Status
<1>8. CASE ChildForks
  BY <1>8 DEF ChildForks
<1>9. CASE StrayEnds
  BY <1>9 DEF StrayEnds
<1>10. CASE TimePasses
  BY <1>10 DEF TimePasses
<1> QED
  BY <1>1, <1>2, <1>3, <1>4, <1>5, <1>6, <1>7, <1>8, <1>9, <1>10
  DEF RunnerStep, CallerStep, WorldStep, Stream

(* A command starts when nothing of the last one is left with a pipe.      *)
LEMMA DrainedSpawn ==
  ASSUME RunnerOK(Command), Drained, NEW command \in Command, Spawn(command)
  PROVE  Drained'
<1> SUFFICES ASSUME runner' # "error" PROVE Drained'
  BY DEF Drained
<1>1. \A x \in strays : x.pipes = {}
  <2> SUFFICES ASSUME NEW x \in strays, x.pipes # {} PROVE FALSE
    OBVIOUS
  <2>1. x.of = now
    BY DEF Drained, Spawn
  <2>2. PICK s \in Stream : s \in x.pipes
    BY DEF RunnerOK, Stray
  <2>3. reader[s] = "eof"
    BY DEF Drained, Spawn, Stream
  <2> QED
    BY <2>1, <2>2, <2>3 DEF Drained, Spawn, HeldOpen
<1> QED
  BY <1>1 DEF Drained, Spawn, HeldOpen

(* One step of the trial.                                                  *)
LEMMA DrainedStep ==
  ASSUME TypeOK, Calls, Drained, [Next]_vars
  PROVE  Calls' /\ Drained'
<1>1. CASE RunnerStep /\ UNCHANGED trialVars
  <2>1. Drained'
    BY <1>1, DrainedRunner DEF TypeOK
  <2>2. Calls'
    BY <1>1 DEF Calls, trialVars, RunnerStep, CallerStep, WorldStep, TryWait, LookAtClock, Kill,
                JoinOut, JoinErr, Join, Goto, Read, ChildExits, ChildForks, StrayEnds, TimePasses
  <2> QED
    BY <2>1, <2>2
<1>2. ASSUME NEW f \in {"agent", "verifier"}, NEW label \in {"agentRuns", "verifierRuns"},
             Start(f, label)
      PROVE  Calls' /\ Drained'
  <2>1. Drained'
    BY <1>2, DrainedSpawn, CommandType DEF TypeOK, Start
  <2>2. Calls'
    BY <1>2 DEF Start, Spawn, Calls, Go
  <2> QED
    BY <2>1, <2>2
<1>3. CASE AgentReturned \/ VerifierReturned
  BY <1>3 DEF AgentReturned, VerifierReturned, Returned, Go, Fail, Calls, Drained, HeldOpen
<1>4. ASSUME UNCHANGED runnerVars PROVE Drained'
  BY <1>4 DEF runnerVars, Drained, HeldOpen
<1>5. CASE \/ MakeDirs \/ SkipAgent \/ RunnerError \/ ReadReward \/ Record \/ RemoveWorkspace
           \/ Retry \/ Settle \/ WriteReward \/ UNCHANGED vars
  <2>1. UNCHANGED runnerVars
    BY <1>5 DEF MakeDirs, SkipAgent, RunnerError, ReadReward, Record, RemoveWorkspace, Retry,
                Settle, WriteReward, vars
  <2>2. Calls'
    BY <1>5, <2>1 DEF Calls, MakeDirs, SkipAgent, RunnerError, ReadReward, Record,
                      RemoveWorkspace, Retry, Settle, WriteReward, vars, trialVars, runnerVars,
                      Go, Fail, Fatal
  <2> QED
    BY <1>4, <2>1, <2>2
<1> QED
  BY <1>1, <1>2, <1>3, <1>5 DEF Next, TrialStep, StartAgent, StartVerifier

(* When a command has returned its child is gone and no process it left    *)
(* has its pipes; nothing else has a pipe beside a later command.          *)
THEOREM CommandsOneAtATime == Spec => []OneAtATime
<1>1. TypeOK /\ Calls /\ Drained => OneAtATime
  <2> SUFFICES ASSUME TypeOK, Drained, runner # "error" PROVE OneAtATime
    BY DEF OneAtATime
  <2> QED
    BY DEF TypeOK, RunnerOK, Stray, Stream, Drained, HeldOpen, OneAtATime
<1>2. Spec => [](Calls /\ Drained)
  BY TypeCorrect, DrainedInit, DrainedStep, PTL DEF Spec
<1> QED
  BY <1>1, <1>2, TypeCorrect, PTL

-----------------------------------------------------------------------------
(* Whose reward is reported.                                               *)

(* The processes that live belong to the attempt under way.                *)
Writers ==
  /\ child = "running" => now.attempt = attempt /\ pc \in {"agentRuns", "verifierRuns", "fatal"}
  /\ ~outlived => \A x \in strays : x.of.attempt = attempt

(* Until the attempt is recorded the reward file is its own; after that    *)
(* the workspace goes, and an attempt that failed reports none.            *)
Rewards ==
  /\ ~stale /\ ~outlived /\ file # NoFile =>
       /\ pc \notin {"mkdir", "return", "settled"}
       /\ file.by.attempt = attempt \/ pc \in {"remove", "fatal"}
  /\ ~stale /\ ~outlived /\ report # NoFile => report.by.attempt = attempt
  /\ pc \in {"remove", "return"} /\ failure # "none" => report = NoFile

(* There is no reward at the start.                                        *)
LEMMA RewardInit == Init => Writers /\ Rewards
  BY DEF Init, RunnerInit, Writers, Rewards

(* What a process writes is by the attempt under way.                      *)
LEMMA AliveNow ==
  ASSUME Writers, ~outlived, NEW command \in Command, Alive(command)
  PROVE  command.attempt = attempt
  BY DEF Writers, Alive

(* The runner starts and ends processes of the attempt under way only.     *)
LEMMA WritersStep ==
  ASSUME TypeOK, Calls, Drained, Writers, [Next]_vars
  PROVE  Writers'
<1> USE DEF Writers
<1>1. CASE RunnerStep /\ UNCHANGED trialVars
  <2>1. CASE ChildForks
    <3>1. PICK pipes \in SUBSET Stream : strays' = strays \cup {[of |-> now, pipes |-> pipes]}
      BY <2>1 DEF ChildForks
    <3> QED
      BY <1>1, <2>1, <3>1 DEF ChildForks, trialVars
  <2>2. CASE ~ChildForks
    BY <1>1, <2>2 DEF trialVars, RunnerStep, CallerStep, WorldStep, TryWait, LookAtClock, Kill,
       JoinOut, JoinErr, Join, Goto, Read, ChildExits, StrayEnds, TimePasses, Status
  <2> QED
    BY <2>1, <2>2
<1>2. ASSUME NEW f \in {"agent", "verifier"}, NEW label \in {"agentRuns", "verifierRuns"},
             Start(f, label)
      PROVE  Writers'
  BY <1>2 DEF Start, Spawn, Go
<1>3. CASE AgentReturned \/ VerifierReturned
  BY <1>3 DEF AgentReturned, VerifierReturned, Returned, Go, Fail, Drained
<1>4. CASE Retry
  BY <1>4 DEF Retry, runnerVars
<1>5. CASE \/ MakeDirs \/ SkipAgent \/ RunnerError \/ ReadReward \/ Record \/ RemoveWorkspace
           \/ Settle \/ WriteReward \/ UNCHANGED vars
  BY <1>5 DEF MakeDirs, SkipAgent, RunnerError, ReadReward, Record, RemoveWorkspace, Settle,
     WriteReward, vars, trialVars, runnerVars, Go, Fail, Fatal
<1> QED
  BY <1>1, <1>2, <1>3, <1>4, <1>5 DEF Next, TrialStep, StartAgent, StartVerifier

(* One step of the trial.                                                  *)
LEMMA RewardsStep ==
  ASSUME TypeOK, Writers, Rewards, [Next]_vars
  PROVE  Rewards'
<1> USE DEF Rewards
<1>1. CASE MakeDirs \/ SkipAgent \/ RunnerError \/ Settle
  BY <1>1 DEF MakeDirs, SkipAgent, RunnerError, Settle, Go, Fatal
<1>2. ASSUME NEW f \in {"agent", "verifier"}, NEW label \in {"agentRuns", "verifierRuns"},
             Start(f, label), pc \in {"agent", "verifier"}
      PROVE  Rewards'
  BY <1>2 DEF Start, Go
<1>3. CASE AgentReturned \/ VerifierReturned
  BY <1>3 DEF AgentReturned, VerifierReturned, Returned, Go, Fail
<1>4. CASE ReadReward
  BY <1>4 DEF ReadReward, Go, Fail, Fatal, NoFile
<1>5. CASE Record
  BY <1>5 DEF Record, Go, Fatal
<1>6. CASE RemoveWorkspace
  BY <1>6 DEF RemoveWorkspace, Go, TypeOK
<1>7. CASE Retry
  BY <1>7, LocalTrialAssumption DEF Retry, Error
<1>8. CASE RunnerStep /\ UNCHANGED trialVars
  BY <1>8 DEF trialVars
<1>9. CASE WriteReward
  <2> PICK command \in Command, parses \in BOOLEAN :
        Alive(command) /\ file' = [by |-> command, parses |-> parses]
    BY <1>9 DEF WriteReward
  <2>1. ~outlived => command.attempt = attempt
    BY AliveNow
  <2> QED
    BY <1>9, <2>1 DEF WriteReward, WorkspaceThere
<1>10. CASE UNCHANGED vars
  BY <1>10 DEF vars, trialVars
<1> QED
  BY <1>1, <1>2, <1>3, <1>4, <1>5, <1>6, <1>7, <1>8, <1>9, <1>10
  DEF Next, TrialStep, StartAgent, StartVerifier

(* The reward of a trial was written by its last attempt, unless a removal *)
(* failed or a process of an earlier attempt lived on.                     *)
THEOREM RewardByLastAttempt == Spec => []RewardOfAttempt
<1>1. Spec => [](Calls /\ Drained)
  BY TypeCorrect, DrainedInit, DrainedStep, PTL DEF Spec
<1>2. Spec => [](Writers /\ Rewards)
  BY <1>1, TypeCorrect, RewardInit, WritersStep, RewardsStep, PTL DEF Spec
<1>3. Rewards => RewardOfAttempt
  BY DEF Rewards, RewardOfAttempt
<1> QED
  BY <1>2, <1>3, PTL

-----------------------------------------------------------------------------
(* The runner and the world keep the types of the command runner.          *)
LEMMA CheckRunnerType ==
  ASSUME RunnerOK({Check}), RunnerStep, UNCHANGED strays
  PROVE  RunnerOK({Check})'
<1> USE DEF RunnerOK
<1>1. CASE TryWait
  BY <1>1 DEF TryWait, Goto
<1>2. CASE LookAtClock
  BY <1>2 DEF LookAtClock, Goto
<1>3. CASE Kill
  BY <1>3 DEF Kill, Goto, Status
<1>4. CASE JoinOut \/ JoinErr
  BY <1>4 DEF JoinOut, JoinErr, Join, Goto
<1>5. ASSUME NEW s \in Stream, Read(s) PROVE RunnerOK({Check})'
  BY <1>5 DEF Read
<1>6. CASE WorldStep
  BY <1>6 DEF WorldStep, ChildExits, ChildForks, StrayEnds, TimePasses
<1> QED
  BY <1>1, <1>2, <1>3, <1>4, <1>5, <1>6 DEF RunnerStep, CallerStep

(* The failed checks that count are those counted, and short of the limit  *)
(* until it is reached.                                                    *)
Counts ==
  /\ failures = counted
  /\ retries = Absent \/ retries < U32 =>
       IF pcHealth = "unhealthy" THEN failures = Parsed ELSE failures < Parsed

HealthInv == HealthcheckTypeOK /\ Counts

(* A number that fits is taken as it is, and is not zero.                  *)
LEMMA ParsedFits ==
  ASSUME retries \in Accepted, retries = Absent \/ retries < U32
  PROVE  Parsed \in Nat \ {0} /\ Parsed = IF retries = Absent THEN Default ELSE retries
<1>1. CASE retries = Absent
  BY <1>1 DEF Parsed, Default
<1>2. CASE retries # Absent
  <2>1. retries \in Nat \ {0} /\ retries < U32 /\ U32 \in Nat
    BY <1>2, HealthcheckAssumption DEF Accepted
  <2>2. retries % U32 = retries
    BY <2>1
  <2> QED
    BY <1>2, <2>1, <2>2 DEF Parsed
<1> QED
  BY <1>1, <1>2

(* Nothing has failed at the start.                                        *)
LEMMA HealthInvInit == ASSUME HealthcheckInit PROVE HealthInv
<1>1. HealthcheckTypeOK
  BY DEF HealthcheckInit, HealthcheckTypeOK, RunnerInit, RunnerOK, Status, Stream, Stray
<1>2. Counts
  BY ParsedFits DEF HealthcheckInit, Counts
<1> QED
  BY <1>1, <1>2 DEF HealthInv

(* A check that ends: it succeeded, or it failed and counts or does not.   *)
LEMMA HealthInvStep == ASSUME HealthInv, [HealthcheckNext]_healthcheckVars PROVE HealthInv'
<1> USE DEF HealthInv
<1>p. Parsed' = Parsed /\ retries' = retries
  BY DEF HealthcheckNext, HealthStep, Begin, Succeeds, CheckFails, CheckError, Pause, Returns,
         StartPeriodEnds, healthVars, healthcheckVars, Parsed
<1>1. CASE Begin
  BY <1>1, <1>p DEF Begin, Spawn, HealthcheckTypeOK, RunnerOK, Counts
<1>2. CASE Succeeds
  BY <1>2, <1>p DEF Succeeds, Returns, HealthcheckTypeOK, RunnerOK, Counts
<1>3. CASE CheckFails
  <2>1. HealthcheckTypeOK'
    <3>1. RunnerOK({Check})'
      BY <1>3 DEF CheckFails, Returns, HealthcheckTypeOK, RunnerOK
    <3>2. failures' \in Nat /\ counted' \in Nat
      BY <1>3 DEF CheckFails, HealthcheckTypeOK
    <3>3. pcHealth' \in {"pause", "unhealthy"}
      BY <1>3, Zenon DEF CheckFails
    <3> QED
      BY <1>3, <3>1, <3>2, <3>3 DEF CheckFails, Returns, HealthcheckTypeOK
  <2>2. Counts'
    <3>1. failures \in Nat /\ failures' = counted' /\ failures' \in {failures, failures + 1}
      BY <1>3 DEF CheckFails, Counts, HealthcheckTypeOK
    <3>2. ASSUME retries = Absent \/ retries < U32
          PROVE  IF pcHealth' = "unhealthy" THEN failures' = Parsed ELSE failures' < Parsed
      <4>1. Parsed \in Nat /\ failures < Parsed
        BY <1>3, <3>2, ParsedFits DEF CheckFails, Returns, Counts, HealthcheckTypeOK
      <4>2. CASE inStart
        BY <1>3, <4>1, <4>2 DEF CheckFails
      <4>3. CASE ~inStart
        BY <1>3, <3>1, <4>1, <4>3 DEF CheckFails
      <4> QED
        BY <4>2, <4>3
    <3> QED
      BY <1>p, <3>1, <3>2 DEF Counts
  <2> QED
    BY <2>1, <2>2
<1>4. CASE CheckError \/ Pause \/ StartPeriodEnds
  BY <1>4, <1>p DEF CheckError, Pause, StartPeriodEnds, runnerVars, HealthcheckTypeOK, RunnerOK, Counts
<1>5. CASE RunnerStep /\ UNCHANGED <<strays, healthVars>>
  BY <1>5, <1>p, CheckRunnerType DEF healthVars, HealthcheckTypeOK, Counts
<1>6. CASE UNCHANGED healthcheckVars
  BY <1>6, <1>p DEF healthcheckVars, runnerVars, healthVars, HealthcheckTypeOK, RunnerOK, Counts
<1> QED
  BY <1>1, <1>2, <1>3, <1>4, <1>5, <1>6 DEF HealthcheckNext, HealthStep

(* Every behaviour of a healthcheck has the types of its state.            *)
THEOREM HealthcheckTypeCorrect == HealthcheckSpec => []HealthcheckTypeOK
<1>1. HealthInv => HealthcheckTypeOK
  BY DEF HealthInv
<1> QED
  BY <1>1, HealthInvInit, HealthInvStep, PTL DEF HealthcheckSpec

(* A healthcheck gives up after exactly as many counted failures as        *)
(* task.toml allows.                                                       *)
THEOREM FailuresAsConfigured == HealthcheckSpec => []HealthcheckBudget
<1>1. HealthInv => HealthcheckBudget
  BY ParsedFits DEF HealthInv, HealthcheckTypeOK, Counts, HealthcheckBudget
<1> QED
  BY <1>1, HealthInvInit, HealthInvStep, PTL DEF HealthcheckSpec

=============================================================================
