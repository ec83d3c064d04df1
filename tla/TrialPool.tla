------------------------------ MODULE TrialPool ------------------------------
(***************************************************************************)
(* The worker pool of `seaport run` (src/main.rs: run_target,              *)
(* run_trial_plans, run_trial).                                            *)
(*                                                                         *)
(* A job is a vector of trial plans.  `concurrency` scoped threads take    *)
(* plan indices from a mutex-protected queue, heaviest first, run the      *)
(* trial with its retries, and send the result over an mpsc channel to the *)
(* thread that called run_trial_plans.  That thread, the collector,        *)
(* records each outcome in the slot of its plan; on the first fatal error  *)
(* it returns, which drops the receiver, and the scope waits for the       *)
(* workers, whose next send fails.  When every sender is gone the          *)
(* collector writes config.json and result.json and picks the exit code.   *)
(***************************************************************************)
EXTENDS Integers, Sequences, FiniteSets

CONSTANTS
  NumPlans,        \* plans.len(): tasks times attempts
  Requested,       \* options.concurrency
  Worker,          \* the scoped worker threads
  Weight,          \* task_schedule_weight of the task of each plan
  TrialName,       \* trial_dir_name of each plan
  MaxRetries,      \* options.max_retries
  TrialError,      \* the messages an errored trial can carry
  RetryInclude,    \* --retry-include: a pattern is the set of the messages
  RetryExclude     \* --retry-exclude:   that contain it

Plan == 0 .. NumPlans - 1

(* RunPhase::concurrency: requested.max(1).min(item_count.max(1)).         *)
Concurrency(requested, items) ==
  LET atLeastOne(n) == IF n > 1 THEN n ELSE 1
  IN  IF atLeastOne(requested) < atLeastOne(items)
        THEN atLeastOne(requested) ELSE atLeastOne(items)

(* A target without tasks is a usage error and `-k` must be positive, so a *)
(* job has at least one plan.                                              *)
ASSUME PlanAssumption ==
  /\ NumPlans \in Nat \ {0}
  /\ Weight \in [Plan -> Nat]

ASSUME WorkerAssumption ==
  /\ Requested \in Nat
  /\ IsFiniteSet(Worker)
  /\ Cardinality(Worker) = Concurrency(Requested, NumPlans)

ASSUME RetryAssumption ==
  /\ MaxRetries \in Nat
  /\ RetryInclude \subseteq SUBSET TrialError
  /\ RetryExclude \subseteq SUBSET TrialError
  /\ TrialError \cap {"passed", "failed", "fatal", "none"} = {}

NoPlan == -1
Collected == {"passed", "failed"} \cup TrialError   \* TrialOutcome
Fatal == "fatal"        \* an Err that is no task failure: usage, io, unimplemented
None == "none"

(* A TrialOutcome, and the TrialEvent a worker sends.                      *)
Outcome == [result : Collected, retries : Nat]
Event == [plan : Plan, result : Collected \cup {Fatal}, retries : Nat]

VARIABLES
  work,      \* the queue, as the set of the indices not yet popped
  pc,        \* where each worker is in its loop
  plan,      \* the plan each worker holds
  retries,   \* the `retries` counter of run_trial, per worker
  held,      \* what the worker's run_trial returned
  channel,   \* events sent and not yet received
  phase,     \* where the collector is
  outcomes,  \* the slot of each plan
  trialDir,  \* the attempts whose output each trial directory holds
  files,     \* job files written
  exit,      \* how the process ended
  log,       \* history: the results of each plan's attempts, in order
  late       \* history: plans taken by a worker after the receiver was dropped

queueVars == <<work, pc, plan, retries, held>>
jobVars == <<channel, phase, outcomes, files, exit>>
vars == <<work, pc, plan, retries, held, channel, phase, outcomes, trialDir,
          files, exit, log, late>>

WorkerPc == {"pop", "trial", "backoff", "send", "exit"}
Phase == {"receive", "unwind", "collect", "config", "result", "summary", "end"}
NoOutcome == [result |-> None, retries |-> 0]

(* The attempts that share the directory `job_dir/trial_dir_name`.         *)
Attempt == Plan \X Nat

TypeOK ==
  /\ work \subseteq Plan
  /\ pc \in [Worker -> WorkerPc]
  /\ plan \in [Worker -> Plan \cup {NoPlan}]
  /\ retries \in [Worker -> Nat]
  /\ held \in [Worker -> Collected \cup {Fatal, None}]
  /\ channel \in Seq(Event)
  /\ phase \in Phase
  /\ outcomes \in [Plan -> Outcome \cup {NoOutcome}]
  /\ trialDir \in [{TrialName[p] : p \in Plan} -> SUBSET Attempt]
  /\ files \subseteq {"config.json", "result.json"}
  /\ exit \in {None, "passed", "failed", "fatal"}
  /\ log \in [Plan -> Seq(Collected \cup {Fatal})]
  /\ late \in [Worker -> Nat]

Init ==
  /\ work = Plan
  /\ pc = [w \in Worker |-> "pop"]
  /\ plan = [w \in Worker |-> NoPlan]
  /\ retries = [w \in Worker |-> 0]
  /\ held = [w \in Worker |-> None]
  /\ channel = << >>
  /\ phase = "receive"
  /\ outcomes = [p \in Plan |-> NoOutcome]
  /\ trialDir = [n \in {TrialName[p] : p \in Plan} |-> {}]
  /\ files = {}
  /\ exit = None
  /\ log = [p \in Plan |-> << >>]
  /\ late = [w \in Worker |-> 0]

-----------------------------------------------------------------------------
(* The receiver lives until the collector returns from its loop.           *)
ReceiverOpen == phase = "receive"

(* weighted_indices: descending weight, ties by ascending index.  Nothing  *)
(* is ever pushed, so the front of the deque is the first remaining index. *)
Before(p, q) ==
  \/ Weight[p] > Weight[q]
  \/ Weight[p] = Weight[q] /\ p < q

IsFront(p) == p \in work /\ \A q \in work \ {p} : Before(p, q)

(* Mutated form of TakeWork: front() instead of pop_front().               *)
TakeWorkPeeks(w) ==
  /\ pc[w] = "pop"
  /\ \E p \in work : IsFront(p) /\ plan' = [plan EXCEPT ![w] = p]
  /\ retries' = [retries EXCEPT ![w] = 0]
  /\ pc' = [pc EXCEPT ![w] = "trial"]
  /\ UNCHANGED <<work, held, trialDir, log, late>>
  /\ UNCHANGED jobVars

(* Mutated form of TakeWork: `while let` on the locked queue, which keeps   *)
(* the guard of the mutex until the trial is over and sent.                *)
TakeWorkLocked(w) ==
  /\ pc[w] = "pop"
  /\ \A x \in Worker : pc[x] \in {"pop", "exit"}
  /\ \E p \in work :
       /\ IsFront(p)
       /\ work' = work \ {p}
       /\ plan' = [plan EXCEPT ![w] = p]
  /\ retries' = [retries EXCEPT ![w] = 0]
  /\ pc' = [pc EXCEPT ![w] = "trial"]
  /\ UNCHANGED <<held, trialDir, log, late>>
  /\ UNCHANGED jobVars

(* Lock the queue, pop the front, unlock, enter run_trial.                 *)
TakeWork(w) ==
  /\ pc[w] = "pop"
  /\ \E p \in work :
       /\ IsFront(p)
       /\ work' = work \ {p}
       /\ plan' = [plan EXCEPT ![w] = p]
  /\ retries' = [retries EXCEPT ![w] = 0]
  /\ pc' = [pc EXCEPT ![w] = "trial"]
  /\ late' = IF ReceiverOpen THEN late ELSE [late EXCEPT ![w] = @ + 1]
  /\ UNCHANGED <<held, trialDir, log>>
  /\ UNCHANGED jobVars

(* pop_front returned None: the thread ends and drops its sender.          *)
QueueEmpty(w) ==
  /\ pc[w] = "pop"
  /\ work = {}
  /\ pc' = [pc EXCEPT ![w] = "exit"]
  /\ UNCHANGED <<work, plan, retries, held, trialDir, log, late>>
  /\ UNCHANGED jobVars

-----------------------------------------------------------------------------
(* should_retry_error: an exclude pattern wins; a non-empty include list   *)
(* must match.                                                             *)
ShouldRetryError(message) ==
  /\ \A pattern \in RetryExclude : message \notin pattern
  /\ RetryInclude # {} => \E pattern \in RetryInclude : message \in pattern

Retryable(result) == result \in TrialError /\ ShouldRetryError(result)

(* Mutated form of Exhausted: one retry too many.                          *)
ExhaustedLate(w) == retries[w] > MaxRetries

Exhausted(w) == retries[w] >= MaxRetries

(* The output of the attempt worker w is making.                           *)
ThisAttempt(w) == <<plan[w], retries[w]>>
DirOf(w) == TrialName[plan[w]]

LogAttempt(w, result) ==
  log' = [log EXCEPT ![plan[w]] = Append(@, result)]

(* Mutated form of TrialSettles: an error worth a retry has its directory  *)
(* discarded even when no retry is left.                                   *)
TrialSettlesDiscards(w, result) ==
  /\ pc[w] = "trial"
  /\ ~Retryable(result) \/ Exhausted(w)
  /\ held' = [held EXCEPT ![w] = result]
  /\ pc' = [pc EXCEPT ![w] = "send"]
  /\ trialDir' = [trialDir EXCEPT ![DirOf(w)] =
                    IF Retryable(result) THEN {} ELSE @ \cup {ThisAttempt(w)}]
  /\ LogAttempt(w, result)
  /\ UNCHANGED <<work, plan, retries, late>>
  /\ UNCHANGED jobVars

(* run_trial_once came back with an outcome that is not retried.           *)
TrialSettles(w, result) ==
  /\ pc[w] = "trial"
  /\ ~Retryable(result) \/ Exhausted(w)
  /\ held' = [held EXCEPT ![w] = result]
  /\ pc' = [pc EXCEPT ![w] = "send"]
  /\ trialDir' = [trialDir EXCEPT ![DirOf(w)] = @ \cup {ThisAttempt(w)}]
  /\ LogAttempt(w, result)
  /\ UNCHANGED <<work, plan, retries, late>>
  /\ UNCHANGED jobVars

(* run_trial_once came back errored and the error is retryable: discard    *)
(* the trial directory (a failure to remove it is ignored) and back off.   *)
TrialRetries(w, result) ==
  /\ pc[w] = "trial"
  /\ Retryable(result) /\ ~Exhausted(w)
  /\ pc' = [pc EXCEPT ![w] = "backoff"]
  /\ \E left \in {{}, trialDir[DirOf(w)] \cup {ThisAttempt(w)}} :
       trialDir' = [trialDir EXCEPT ![DirOf(w)] = left]
  /\ LogAttempt(w, result)
  /\ UNCHANGED <<work, plan, retries, held, late>>
  /\ UNCHANGED jobVars

(* run_trial_once returned an Err: `?` sends it to the collector as it is, *)
(* whatever the attempt had already written.                               *)
TrialFatal(w) ==
  /\ pc[w] = "trial"
  /\ held' = [held EXCEPT ![w] = Fatal]
  /\ pc' = [pc EXCEPT ![w] = "send"]
  /\ \E written \in {{}, {ThisAttempt(w)}} :
       trialDir' = [trialDir EXCEPT ![DirOf(w)] = @ \cup written]
  /\ LogAttempt(w, Fatal)
  /\ UNCHANGED <<work, plan, retries, late>>
  /\ UNCHANGED jobVars

(* The sleep of retry_backoff_delay is over.                               *)
BackoffOver(w) ==
  /\ pc[w] = "backoff"
  /\ retries' = [retries EXCEPT ![w] = @ + 1]
  /\ pc' = [pc EXCEPT ![w] = "trial"]
  /\ UNCHANGED <<work, plan, held, trialDir, log, late>>
  /\ UNCHANGED jobVars

(* sender.send: it fails, and the worker leaves its loop, exactly when the *)
(* receiver is gone.                                                       *)
Send(w) ==
  /\ pc[w] = "send"
  /\ ReceiverOpen
  /\ channel' = Append(channel, [plan |-> plan[w], result |-> held[w],
                                 retries |-> retries[w]])
  /\ pc' = [pc EXCEPT ![w] = "pop"]
  /\ plan' = [plan EXCEPT ![w] = NoPlan]
  /\ held' = [held EXCEPT ![w] = None]
  /\ UNCHANGED <<work, retries, phase, outcomes, trialDir, files, exit, log, late>>

(* Mutated form of SendFails: the result of the failed send is ignored.    *)
SendFailsIgnored(w) ==
  /\ pc[w] = "send"
  /\ ~ReceiverOpen
  /\ pc' = [pc EXCEPT ![w] = "pop"]
  /\ plan' = [plan EXCEPT ![w] = NoPlan]
  /\ held' = [held EXCEPT ![w] = None]
  /\ UNCHANGED <<work, retries, trialDir, log, late>>
  /\ UNCHANGED jobVars

SendFails(w) ==
  /\ pc[w] = "send"
  /\ ~ReceiverOpen
  /\ pc' = [pc EXCEPT ![w] = "exit"]
  /\ plan' = [plan EXCEPT ![w] = NoPlan]
  /\ held' = [held EXCEPT ![w] = None]
  /\ UNCHANGED <<work, retries, trialDir, log, late>>
  /\ UNCHANGED jobVars

RunTrial(w) ==
  \/ \E result \in Collected : TrialSettles(w, result) \/ TrialRetries(w, result)
  \/ TrialFatal(w)

(* What a worker does outside of run_trial_once.                           *)
LoopStep(w) ==
  TakeWork(w) \/ QueueEmpty(w) \/ BackoffOver(w) \/ Send(w) \/ SendFails(w)

WorkerStep(w) == RunTrial(w) \/ LoopStep(w)

-----------------------------------------------------------------------------
AllExited == \A w \in Worker : pc[w] = "exit"

(* The next event is an outcome: print its row, then fill its slot.        *)
ReceiveOutcome ==
  /\ phase = "receive"
  /\ channel # << >>
  /\ Head(channel).result # Fatal
  /\ outcomes' = [outcomes EXCEPT ![Head(channel).plan] =
                    [result |-> Head(channel).result, retries |-> Head(channel).retries]]
  /\ channel' = Tail(channel)
  /\ UNCHANGED <<phase, trialDir, files, exit, log, late>>
  /\ UNCHANGED queueVars

(* The next event is an Err, or printing the row of an outcome failed: the *)
(* collector leaves its loop, the receiver and what it holds are dropped.  *)
ReceiveFails ==
  /\ phase = "receive"
  /\ channel # << >>
  /\ phase' = "unwind"
  /\ channel' = << >>
  /\ UNCHANGED <<outcomes, trialDir, files, exit, log, late>>
  /\ UNCHANGED queueVars

(* Mutated forms of ChannelClosed: the collector stops at an empty channel *)
(* when only some sender is gone, or forgets to drop its own sender.       *)
ChannelDrained ==
  /\ phase = "receive"
  /\ channel = << >>
  /\ \E w \in Worker : pc[w] = "exit"
  /\ phase' = "collect"
  /\ UNCHANGED <<channel, outcomes, trialDir, files, exit, log, late>>
  /\ UNCHANGED queueVars

ChannelNeverCloses == FALSE /\ UNCHANGED vars

(* Every sender is gone and the channel is drained; the scope joins.       *)
ChannelClosed ==
  /\ phase = "receive"
  /\ channel = << >>
  /\ AllExited
  /\ phase' = "collect"
  /\ UNCHANGED <<channel, outcomes, trialDir, files, exit, log, late>>
  /\ UNCHANGED queueVars

(* Mutated form of JoinAfterError: detached threads instead of scoped.     *)
LeaveAfterError ==
  /\ phase = "unwind"
  /\ phase' = "end"
  /\ exit' = "fatal"
  /\ UNCHANGED <<channel, outcomes, trialDir, files, log, late>>
  /\ UNCHANGED queueVars

(* The scope joins its threads before the error leaves run_trial_plans.    *)
JoinAfterError ==
  /\ phase = "unwind"
  /\ AllExited
  /\ phase' = "end"
  /\ exit' = "fatal"
  /\ UNCHANGED <<channel, outcomes, trialDir, files, log, late>>
  /\ UNCHANGED queueVars

AllRecorded == \A p \in Plan : outcomes[p] # NoOutcome

(* An empty slot would be the task failure "trial worker stopped early".   *)
CollectOutcomes ==
  /\ phase = "collect"
  /\ IF AllRecorded
       THEN phase' = "config" /\ UNCHANGED exit
       ELSE phase' = "end" /\ exit' = "failed"
  /\ UNCHANGED <<channel, outcomes, trialDir, files, log, late>>
  /\ UNCHANGED queueVars

(* fs::write of config.json and then of result.json: a failing write ends  *)
(* the run with what is on disk.                                           *)
WriteFile(at, file, then) ==
  /\ phase = at
  /\ \/ files' = files \cup {file} /\ phase' = then /\ UNCHANGED exit
     \/ phase' = "end" /\ exit' = "fatal" /\ UNCHANGED files
  /\ UNCHANGED <<channel, outcomes, trialDir, log, late>>
  /\ UNCHANGED queueVars

WriteConfig == WriteFile("config", "config.json", "result")
WriteResult == WriteFile("result", "result.json", "summary")

AllPassed == \A p \in Plan : outcomes[p].result = "passed"

(* print_run_summary, which may fail like any write, and the exit code.    *)
Conclude ==
  /\ phase = "summary"
  /\ phase' = "end"
  /\ exit' \in {"fatal", IF AllPassed THEN "passed" ELSE "failed"}
  /\ UNCHANGED <<channel, outcomes, trialDir, files, log, late>>
  /\ UNCHANGED queueVars

CollectorStep ==
  \/ ReceiveOutcome \/ ReceiveFails \/ ChannelClosed \/ JoinAfterError
  \/ CollectOutcomes \/ WriteConfig \/ WriteResult \/ Conclude

Next == (\E w \in Worker : WorkerStep(w)) \/ CollectorStep

Spec == Init /\ [][Next]_vars

(* The operating system schedules every thread, so the collector and a     *)
(* worker outside of a trial get on.  RunTrial has no fairness: a trial    *)
(* waits for docker commands that have no timeout (`docker image inspect`, *)
(* `docker network connect`, `docker rm`), and for the readers of a pipe   *)
(* that outlives the command's timeout.                                    *)
Fairness == WF_vars(CollectorStep) /\ \A w \in Worker : WF_vars(LoopStep(w))

FairSpec == Spec /\ Fairness

-----------------------------------------------------------------------------
HoldersOf(p) == {w \in Worker : plan[w] = p}
EventsOf(p) == {i \in DOMAIN channel : channel[i].plan = p}
Recorded(p) == outcomes[p] # NoOutcome

(* A plan is in at most one place: queued, held by one worker, in one      *)
(* event of the channel, or recorded.  So no trial runs twice and no slot  *)
(* of run_trial_plans is filled twice.                                     *)
AtMostOnce ==
  \A p \in Plan :
    /\ \A w, x \in HoldersOf(p) : w = x
    /\ \A i, j \in EventsOf(p) : i = j
    /\ p \in work => HoldersOf(p) = {} /\ EventsOf(p) = {} /\ ~Recorded(p)
    /\ HoldersOf(p) # {} => EventsOf(p) = {} /\ ~Recorded(p)
    /\ EventsOf(p) # {} => ~Recorded(p)

(* While the receiver is alive no plan is lost between the queue, the      *)
(* workers, the channel and the slots, and once the channel has closed     *)
(* without an error every slot is full: the "trial worker stopped early"   *)
(* failure of run_trial_plans cannot happen.                               *)
NothingLost ==
  /\ ReceiverOpen => \A p \in Plan :
       p \in work \/ HoldersOf(p) # {} \/ EventsOf(p) # {} \/ Recorded(p)
  /\ phase \in {"collect", "config", "result", "summary"} => AllRecorded

(* A recorded outcome is the result of the plan's last attempt; every      *)
(* attempt before it failed with a retryable error, and it is itself       *)
(* retryable only if run_trial had used up --max-retries.  In particular   *)
(* no error matching --retry-exclude was ever retried.                     *)
RetryDiscipline ==
  \A p \in Plan : Recorded(p) =>
    LET last == outcomes[p].retries + 1
    IN  /\ Len(log[p]) = last
        /\ log[p][last] = outcomes[p].result
        /\ \A i \in 1 .. last - 1 : Retryable(log[p][i])
        /\ last <= MaxRetries + 1
        /\ Retryable(outcomes[p].result) => last = MaxRetries + 1

(* After a fatal error the collector stops receiving, but a worker may     *)
(* already be past its last send: each worker takes at most one more plan  *)
(* before its own send fails, whatever is left in the queue.               *)
LateStartsBounded == \A w \in Worker : late[w] <= 1

(* The exit code agrees with what is on disk: 0 and 4 are returned only    *)
(* after both job files are written and say the same, and the process      *)
(* never exits while a worker is still in a trial.                         *)
ExitMatchesReport ==
  exit # None =>
    /\ AllExited
    /\ exit # "fatal" => /\ files = {"config.json", "result.json"}
                         /\ AllRecorded
                         /\ exit = "passed" <=> AllPassed

(* The directory of a recorded trial still holds the output of the attempt *)
(* that result.json reports, and nobody else's: neither a retry nor        *)
(* another trial removed it or wrote into it.                              *)
OutputMatchesReport ==
  \A p \in Plan : Recorded(p) =>
    /\ <<p, outcomes[p].retries>> \in trialDir[TrialName[p]]
    /\ \A a \in trialDir[TrialName[p]] : a[1] = p

(* "One container per trial, isolated from your machine and from other     *)
(* trials" (sandboxing.md:15): trials that run at the same time use        *)
(* different trial directories, and so different workspaces and            *)
(* containers, which are named after them.                                 *)
TrialsIsolated ==
  \A w, x \in Worker :
    w # x /\ {pc[w], pc[x]} \subseteq {"trial", "backoff"} => DirOf(w) # DirOf(x)

(* Worker w is in an attempt of p that never comes back.                   *)
Hangs(w, p) == <>[](pc[w] = "trial" /\ plan[w] = p)

(* The assumption that the code does not enforce: run_trial_once returns.  *)
TrialsEnd == \A w \in Worker : []<>(pc[w] # "trial")

(* If every trial ends, the job ends, whichever trials, sends and writes   *)
(* fail: no worker waits for work that does not come, and the collector    *)
(* does not wait for an event nobody will send.                            *)
JobEnds == TrialsEnd => <>(exit # None)

(* A trial that hangs holds the worker it runs on and no other: while one  *)
(* worker is left, every other plan is still taken, run and recorded,      *)
(* unless a fatal error stops the job.  The job itself does not end then.  *)
OthersServed ==
  (\E w \in Worker : []<>(pc[w] # "trial")) =>
    \A p \in Plan : \/ <>(Recorded(p) \/ ~ReceiverOpen)
                    \/ \E w \in Worker : Hangs(w, p)

(* The pool implements the promise of JobSpec.                             *)
StageOf(p) ==
  IF Recorded(p) THEN "recorded"
  ELSE IF p \in work THEN "queued"
  ELSE IF \E w \in HoldersOf(p) : pc[w] # "send" THEN "running"
  ELSE "finished"

Verdict ==
  IF "result.json" \in files THEN "complete"
  ELSE IF phase \in {"unwind", "end"} THEN "aborted" ELSE "open"

Job == INSTANCE JobSpec WITH stage <- [p \in Plan |-> StageOf(p)], verdict <- Verdict

(* Every behaviour of the pool is a behaviour of JobSpec: each trial goes  *)
(* through its stages once and in order; and where trials end, the open    *)
(* job always moves on.                                                    *)
ImplementsJobSpec == Job!Spec /\ (TrialsEnd => Job!Fairness)

=============================================================================
