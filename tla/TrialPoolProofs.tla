--------------------------- MODULE TrialPoolProofs ---------------------------
(***************************************************************************)
(* Theorems about the worker pool, for every number of plans and workers   *)
(* and every retry policy.                                                 *)
(***************************************************************************)
EXTENDS TrialPool, TLAPS, FiniteSetTheorems, SequenceTheorems

(* Every job has a worker: RunPhase::concurrency never yields zero.        *)
LEMMA SomeWorker == Worker # {}
<1>1. Concurrency(Requested, NumPlans) \in Nat \ {0}
  BY PlanAssumption, WorkerAssumption DEF Concurrency
<1>2. QED
  BY <1>1, FS_EmptySet, WorkerAssumption

(* The message classes that are no TrialError are told apart from them.    *)
LEMMA ResultKinds ==
  /\ None \notin Collected /\ Fatal \notin Collected /\ None # Fatal
  /\ TrialError \subseteq Collected
  /\ NoPlan \notin Plan
BY RetryAssumption DEF None, Fatal, Collected, NoPlan, Plan

(* Replacing the contents of one trial directory keeps the type.           *)
LEMMA DirUpdate ==
  ASSUME NEW D, NEW f \in [D -> SUBSET Attempt], NEW n, NEW s \in SUBSET Attempt
  PROVE  [f EXCEPT ![n] = s] \in [D -> SUBSET Attempt]
OBVIOUS

-----------------------------------------------------------------------------
Busy == {"trial", "backoff", "send"}

(* What a worker holds at each point of its loop.                          *)
WorkerOK ==
  \A w \in Worker :
    /\ pc[w] \in Busy => plan[w] \in Plan
    /\ pc[w] \notin Busy => plan[w] = NoPlan
    /\ pc[w] = "send" => held[w] # None

TypeInv == TypeOK /\ WorkerOK

(* The initial state is well typed.                                        *)
LEMMA TypeInvInit == Init => TypeInv
<1> SUFFICES ASSUME Init PROVE TypeInv
  OBVIOUS
<1> USE DEF Init
<1>1. TypeOK
  BY DEF TypeOK, Phase, WorkerPc
<1>2. WorkerOK
  BY DEF WorkerOK, Busy
<1> QED
  BY <1>1, <1>2 DEF TypeInv

(* Every step of a worker or of the collector preserves the typing.        *)
LEMMA TypeInvStep == TypeInv /\ [Next]_vars => TypeInv'
<1> SUFFICES ASSUME TypeInv, [Next]_vars PROVE TypeInv'
  OBVIOUS
<1> USE ResultKinds DEF TypeInv
<1>w. ASSUME NEW w \in Worker, WorkerStep(w) PROVE TypeInv'
  <2>1. CASE TakeWork(w)
    <3> USE <2>1 DEF TakeWork, jobVars
    <3>0. PICK p \in work : work' = work \ {p} /\ plan' = [plan EXCEPT ![w] = p]
      OBVIOUS
    <3>l. late' \in [Worker -> Nat]
      BY DEF TypeOK
    <3>1. TypeOK'
      BY <3>0, <3>l DEF TypeOK, WorkerPc
    <3>2. WorkerOK'
      BY DEF TypeOK, WorkerOK, Busy
    <3> QED
      BY <3>1, <3>2
  <2>2. CASE QueueEmpty(w)
    BY <2>2 DEF QueueEmpty, jobVars, TypeOK, WorkerPc, WorkerOK, Busy
  <2>3. ASSUME NEW result \in Collected, TrialSettles(w, result) PROVE TypeInv'
    <3> USE <2>3 DEF TrialSettles, jobVars
    <3>0. plan[w] \in Plan /\ pc[w] = "trial"
      BY DEF WorkerOK, Busy
    <3>1. log' \in [Plan -> Seq(Collected \cup {Fatal})]
      BY <3>0, AppendProperties DEF TypeOK, LogAttempt
    <3>2. ThisAttempt(w) \in Attempt
      BY <3>0 DEF ThisAttempt, Attempt, TypeOK
    <3>3. trialDir' \in [{TrialName[p] : p \in Plan} -> SUBSET Attempt]
      <4>1. trialDir[DirOf(w)] \cup {ThisAttempt(w)} \subseteq Attempt
        BY <3>0, <3>2 DEF TypeOK, DirOf
      <4> QED
        BY <4>1, DirUpdate DEF TypeOK
    <3>4. TypeOK'
      BY <3>1, <3>3 DEF TypeOK, WorkerPc
    <3>5. WorkerOK'
      BY <3>0 DEF WorkerOK, Busy, TypeOK
    <3> QED
      BY <3>4, <3>5
  <2>4. ASSUME NEW result \in Collected, TrialRetries(w, result) PROVE TypeInv'
    <3> USE <2>4 DEF TrialRetries, jobVars
    <3>0. plan[w] \in Plan /\ pc[w] = "trial"
      BY DEF WorkerOK, Busy
    <3>1. log' \in [Plan -> Seq(Collected \cup {Fatal})]
      BY <3>0, AppendProperties DEF TypeOK, LogAttempt
    <3>2. ThisAttempt(w) \in Attempt
      BY <3>0 DEF ThisAttempt, Attempt, TypeOK
    <3>3. trialDir' \in [{TrialName[p] : p \in Plan} -> SUBSET Attempt]
      <4>1. PICK left \in {{}, trialDir[DirOf(w)] \cup {ThisAttempt(w)}} :
              trialDir' = [trialDir EXCEPT ![DirOf(w)] = left]
        OBVIOUS
      <4>2. trialDir[DirOf(w)] \subseteq Attempt
        BY <3>0 DEF TypeOK, DirOf
      <4>3. left \subseteq Attempt
        BY <3>2, <4>2
      <4> QED
        BY <4>1, <4>3, DirUpdate DEF TypeOK
    <3>4. TypeOK'
      BY <3>1, <3>3 DEF TypeOK, WorkerPc
    <3>5. WorkerOK'
      BY <3>0 DEF WorkerOK, Busy, TypeOK
    <3> QED
      BY <3>4, <3>5
  <2>5. CASE TrialFatal(w)
    <3> USE <2>5 DEF TrialFatal, jobVars
    <3>0. plan[w] \in Plan /\ pc[w] = "trial"
      BY DEF WorkerOK, Busy
    <3>1. log' \in [Plan -> Seq(Collected \cup {Fatal})]
      BY <3>0, AppendProperties DEF TypeOK, LogAttempt
    <3>2. ThisAttempt(w) \in Attempt
      BY <3>0 DEF ThisAttempt, Attempt, TypeOK
    <3>3. trialDir' \in [{TrialName[p] : p \in Plan} -> SUBSET Attempt]
      <4>1. PICK written \in {{}, {ThisAttempt(w)}} :
              trialDir' = [trialDir EXCEPT ![DirOf(w)] = @ \cup written]
        OBVIOUS
      <4>2. trialDir[DirOf(w)] \cup written \subseteq Attempt
        BY <3>0, <3>2 DEF TypeOK, DirOf
      <4> QED
        BY <4>1, <4>2, DirUpdate DEF TypeOK
    <3>4. TypeOK'
      BY <3>1, <3>3 DEF TypeOK, WorkerPc
    <3>5. WorkerOK'
      BY <3>0 DEF WorkerOK, Busy, TypeOK
    <3> QED
      BY <3>4, <3>5
  <2>6. CASE BackoffOver(w)
    <3> USE <2>6 DEF BackoffOver, jobVars
    <3>0. retries' \in [Worker -> Nat]
      BY DEF TypeOK
    <3>1. TypeOK'
      BY <3>0 DEF TypeOK, WorkerPc
    <3>2. WorkerOK'
      BY DEF TypeOK, WorkerOK, Busy
    <3> QED
      BY <3>1, <3>2
  <2>7. CASE Send(w)
    <3> USE <2>7 DEF Send
    <3>0. plan[w] \in Plan /\ held[w] \in Collected \cup {Fatal} /\ retries[w] \in Nat
      BY DEF WorkerOK, Busy, TypeOK
    <3>1. channel' \in Seq(Event)
      BY <3>0, AppendProperties DEF TypeOK, Event
    <3>2. TypeOK'
      BY <3>1 DEF TypeOK, WorkerPc
    <3>3. WorkerOK'
      BY DEF WorkerOK, Busy, TypeOK
    <3> QED
      BY <3>2, <3>3
  <2>8. CASE SendFails(w)
    BY <2>8 DEF SendFails, jobVars, TypeOK, WorkerPc, WorkerOK, Busy
  <2> QED
    BY <1>w, <2>1, <2>2, <2>3, <2>4, <2>5, <2>6, <2>7, <2>8 DEF WorkerStep, LoopStep, RunTrial
<1>c. ASSUME CollectorStep PROVE TypeInv'
  <2>0. WorkerOK' <=> WorkerOK
    BY <1>c DEF CollectorStep, ReceiveOutcome, ReceiveFails, ChannelClosed, JoinAfterError,
         CollectOutcomes, WriteConfig, WriteResult, WriteFile, Conclude, WorkerOK, queueVars
  <2>1. CASE ReceiveOutcome
    <3> USE <2>1 DEF ReceiveOutcome, queueVars
    <3>1. Head(channel) \in Event /\ Tail(channel) \in Seq(Event)
      BY HeadTailProperties DEF TypeOK
    <3>2. outcomes' \in [Plan -> Outcome \cup {NoOutcome}]
      BY <3>1 DEF TypeOK, Event, Outcome
    <3>3. TypeOK'
      BY <3>1, <3>2 DEF TypeOK
    <3> QED
      BY <2>0, <3>3
  <2>2. CASE ReceiveFails
    BY <2>0, <2>2, EmptySeq DEF ReceiveFails, queueVars, TypeOK, Phase
  <2>3. CASE ChannelClosed
    BY <2>0, <2>3 DEF ChannelClosed, queueVars, TypeOK, Phase
  <2>4. CASE JoinAfterError
    BY <2>0, <2>4 DEF JoinAfterError, queueVars, TypeOK, Phase
  <2>5. CASE CollectOutcomes
    BY <2>0, <2>5 DEF CollectOutcomes, queueVars, TypeOK, Phase
  <2>6. CASE WriteConfig
    BY <2>0, <2>6 DEF WriteConfig, WriteFile, queueVars, TypeOK, Phase
  <2>7. CASE WriteResult
    BY <2>0, <2>7 DEF WriteResult, WriteFile, queueVars, TypeOK, Phase
  <2>8. CASE Conclude
    BY <2>0, <2>8 DEF Conclude, queueVars, TypeOK, Phase
  <2> QED
    BY <1>c, <2>1, <2>2, <2>3, <2>4, <2>5, <2>6, <2>7, <2>8 DEF CollectorStep
<1>s. CASE UNCHANGED vars
  BY <1>s DEF vars, TypeOK, WorkerOK
<1> QED
  BY <1>w, <1>c, <1>s DEF Next

(* The typing holds of every behaviour.                                    *)
LEMMA TypeInvHolds == Spec => []TypeInv
<1> QED
  BY TypeInvInit, TypeInvStep, PTL DEF Spec

(* Type correctness of the pool.                                           *)
THEOREM TypeCorrect == Spec => []TypeOK
<1>1. TypeInv => TypeOK
  BY DEF TypeInv
<1> QED
  BY <1>1, TypeInvHolds, PTL

-----------------------------------------------------------------------------
(* AtMostOnce, place by place.                                             *)
Apart ==
  /\ \A p \in work : ~Recorded(p)
  /\ \A w \in Worker : plan[w] \in Plan => plan[w] \notin work /\ ~Recorded(plan[w])
  /\ \A w, x \in Worker : plan[w] \in Plan /\ plan[w] = plan[x] => w = x
  /\ \A i \in 1 .. Len(channel) :
       /\ channel[i].plan \notin work
       /\ ~Recorded(channel[i].plan)
       /\ \A w \in Worker : plan[w] # channel[i].plan
  /\ \A i, j \in 1 .. Len(channel) : channel[i].plan = channel[j].plan => i = j

(* What the collector's phase says of the workers and of the channel.      *)
Drained ==
  /\ phase # "receive" => channel = << >>
  /\ phase \notin {"receive", "unwind"} => AllExited
  /\ ReceiverOpen => \A w \in Worker : pc[w] = "exit" => work = {}

(* NothingLost with its quantifiers over the places.                       *)
Somewhere(p) ==
  \/ p \in work
  \/ \E w \in Worker : plan[w] = p
  \/ \E i \in 1 .. Len(channel) : channel[i].plan = p
  \/ Recorded(p)

Kept ==
  /\ ReceiverOpen => \A p \in Plan : Somewhere(p)
  /\ phase \in {"collect", "config", "result", "summary"} => AllRecorded

PlaceInv == TypeInv /\ Apart /\ Drained /\ Kept

(* At the start every plan is in the work queue and nowhere else.          *)
LEMMA PlaceInvInit == Init => PlaceInv
<1> SUFFICES ASSUME Init PROVE PlaceInv
  OBVIOUS
<1>1. TypeInv
  BY TypeInvInit
<1>2. Len(channel) = 0
  BY EmptySeq DEF Init
<1>3. Apart
  BY <1>2, ResultKinds DEF Init, Apart, Recorded
<1>4. Drained /\ Kept
  BY <1>2 DEF Init, Drained, Kept, Somewhere, ReceiverOpen
<1> QED
  BY <1>1, <1>3, <1>4 DEF PlaceInv

(* A record whose result is a collected one is not the empty slot.         *)
LEMMA FilledSlot ==
  ASSUME NEW r \in Collected, NEW n
  PROVE  [result |-> r, retries |-> n] # NoOutcome
BY ResultKinds DEF NoOutcome

(* Every step moves a plan from one place to the next, or nothing.         *)
LEMMA PlaceInvStep == PlaceInv /\ [Next]_vars => PlaceInv'
<1> SUFFICES ASSUME PlaceInv, [Next]_vars PROVE PlaceInv'
  OBVIOUS
<1>t. TypeInv /\ TypeInv'
  BY TypeInvStep DEF PlaceInv
<1>0. TypeOK /\ WorkerOK /\ Apart /\ Drained /\ Kept
  BY DEF PlaceInv, TypeInv
<1>l. Len(channel) \in Nat /\ \A i \in 1 .. Len(channel) : channel[i] \in Event
  BY <1>0, LenProperties, ElementOfSeq DEF TypeOK
<1> USE ResultKinds
<1>w. ASSUME NEW w \in Worker, WorkerStep(w) PROVE PlaceInv'
  <2>1. CASE TakeWork(w)
    <3> USE <2>1 DEF TakeWork, jobVars
    <3>0. PICK p \in work : work' = work \ {p} /\ plan' = [plan EXCEPT ![w] = p]
      OBVIOUS
    <3>1. plan'[w] = p /\ \A x \in Worker \ {w} : plan'[x] = plan[x]
      BY <1>0, <3>0 DEF TypeOK
    <3>2. pc'[w] = "trial" /\ \A x \in Worker \ {w} : pc'[x] = pc[x]
      BY <1>0 DEF TypeOK
    <3>3. p \in Plan /\ plan[w] = NoPlan
      BY <1>0 DEF TypeOK, WorkerOK, Busy
    <3>4. Apart'
      BY <1>0, <1>l, <3>0, <3>1, <3>3, SMTT(40) DEF Apart, Recorded, TypeOK, Event
    <3>5. Drained'
      BY <1>0, <3>0, <3>2 DEF Drained, ReceiverOpen, AllExited
    <3>6. Kept'
      BY <1>0, <3>0, <3>1, <3>3 DEF Kept, Somewhere, ReceiverOpen, AllRecorded, Recorded
    <3> QED
      BY <1>t, <3>4, <3>5, <3>6 DEF PlaceInv
  <2>2. CASE QueueEmpty(w)
    <3> USE <2>2 DEF QueueEmpty, jobVars
    <3>1. Apart' /\ Kept'
      BY <1>0 DEF Apart, Kept, Somewhere, ReceiverOpen, AllRecorded, Recorded
    <3>2. Drained'
      BY <1>0 DEF Drained, ReceiverOpen, AllExited, TypeOK
    <3> QED
      BY <1>t, <3>1, <3>2 DEF PlaceInv
  <2>3. CASE RunTrial(w) \/ BackoffOver(w)
    <3>0. /\ UNCHANGED <<work, plan, channel, phase, outcomes>>
          /\ \A x \in Worker : pc'[x] = "exit" <=> pc[x] = "exit"
      BY <2>3, <1>0 DEF RunTrial, TrialSettles, TrialRetries, TrialFatal, BackoffOver,
           jobVars, TypeOK
    <3>1. Apart' /\ Kept' /\ Drained'
      BY <1>0, <3>0 DEF Apart, Kept, Somewhere, ReceiverOpen, AllRecorded, Recorded,
           Drained, AllExited
    <3> QED
      BY <1>t, <3>1 DEF PlaceInv
  <2>4. CASE Send(w)
    <3> USE <2>4 DEF Send
    <3> DEFINE e == [plan |-> plan[w], result |-> held[w], retries |-> retries[w]]
    <3>0. plan[w] \in Plan /\ e \in Event
      BY <1>0 DEF TypeOK, WorkerOK, Busy, Event
    <3>1. /\ Len(channel') = Len(channel) + 1
          /\ \A i \in 1 .. Len(channel) : channel'[i] = channel[i]
          /\ channel'[Len(channel) + 1] = e
      BY <1>0, <3>0, AppendProperties DEF TypeOK
    <3>2. plan'[w] = NoPlan /\ \A x \in Worker \ {w} : plan'[x] = plan[x]
      BY <1>0 DEF TypeOK
    <3>3. \A x \in Worker : pc'[x] = "exit" => pc[x] = "exit"
      BY <1>0 DEF TypeOK
    <3> HIDE DEF e
    <3>e. e.plan = plan[w]
      BY DEF e
    <3>4. Apart'
      <4>1. \A i \in 1 .. Len(channel') :
              \/ i \in 1 .. Len(channel) /\ channel'[i] = channel[i]
              \/ i = Len(channel) + 1 /\ channel'[i].plan = plan[w]
        BY <1>l, <3>1, <3>e
      <4>2. \A i \in 1 .. Len(channel) : channel[i].plan \in Plan /\ channel[i].plan # plan[w]
        BY <1>0, <1>l DEF Apart, Event
      <4>3. \A i, j \in 1 .. Len(channel') : channel'[i].plan = channel'[j].plan => i = j
        BY <1>0, <4>1, <4>2 DEF Apart
      <4>4. \A i \in 1 .. Len(channel') :
              /\ channel'[i].plan \notin work'
              /\ outcomes'[channel'[i].plan] = NoOutcome
              /\ \A x \in Worker : plan'[x] # channel'[i].plan
        BY <1>0, <3>0, <3>2, <4>1, <4>2 DEF Apart, Recorded
      <4>5. /\ \A p \in work' : outcomes'[p] = NoOutcome
            /\ \A x \in Worker : plan'[x] \in Plan =>
                 plan'[x] \notin work' /\ outcomes'[plan'[x]] = NoOutcome
            /\ \A x, y \in Worker : plan'[x] \in Plan /\ plan'[x] = plan'[y] => x = y
        BY <1>0, <3>2 DEF Apart, Recorded
      <4> QED
        BY <4>3, <4>4, <4>5 DEF Apart, Recorded
    <3>5. Drained'
      BY <1>0, <3>3 DEF Drained, ReceiverOpen
    <3>6. Kept'
      <4>1. ASSUME NEW p \in Plan PROVE Somewhere(p)'
        <5>1. CASE \E x \in Worker : plan[x] = p
          BY <1>l, <3>1, <3>2, <3>e, <5>1 DEF Somewhere
        <5>2. CASE \E i \in 1 .. Len(channel) : channel[i].plan = p
          BY <1>l, <3>1, <5>2 DEF Somewhere
        <5>3. CASE p \in work \/ Recorded(p)
          BY <5>3 DEF Somewhere, Recorded
        <5> QED
          BY <1>0, <5>1, <5>2, <5>3 DEF Kept, Somewhere
      <4> QED
        BY <1>0, <4>1 DEF Kept, ReceiverOpen
    <3> QED
      BY <1>t, <3>4, <3>5, <3>6 DEF PlaceInv
  <2>5. CASE SendFails(w)
    <3> USE <2>5 DEF SendFails, jobVars
    <3>1. plan'[w] = NoPlan /\ \A x \in Worker \ {w} : plan'[x] = plan[x]
      BY <1>0 DEF TypeOK
    <3>2. \A x \in Worker : pc[x] = "exit" => pc'[x] = "exit"
      BY <1>0 DEF TypeOK
    <3>3. Apart'
      BY <1>0, <1>l, <3>1 DEF Apart, Recorded, Event
    <3>4. Drained' /\ Kept'
      BY <1>0, <3>2 DEF Drained, Kept, ReceiverOpen, AllExited, AllRecorded
    <3> QED
      BY <1>t, <3>3, <3>4 DEF PlaceInv
  <2> QED
    BY <1>w, <2>1, <2>2, <2>3, <2>4, <2>5 DEF WorkerStep, LoopStep
<1>c. ASSUME CollectorStep PROVE PlaceInv'
  <2>1. CASE ReceiveOutcome
    <3> USE <2>1 DEF ReceiveOutcome, queueVars
    <3> DEFINE e == Head(channel)
    <3>0. e = channel[1] /\ 1 \in 1 .. Len(channel) /\ e \in Event
      BY <1>0, <1>l, EmptySeq, HeadTailProperties DEF TypeOK
    <3>1. /\ Len(channel') = Len(channel) - 1
          /\ \A i \in 1 .. Len(channel') : channel'[i] = channel[i + 1]
      BY <1>0, HeadTailProperties DEF TypeOK
    <3>2. /\ e.plan \in Plan /\ outcomes'[e.plan] # NoOutcome
          /\ \A p \in Plan \ {e.plan} : outcomes'[p] = outcomes[p]
      <4>1. e.plan \in Plan /\ e.result \in Collected
        BY <3>0 DEF Event
      <4>2. outcomes'[e.plan] = [result |-> e.result, retries |-> e.retries]
        BY <1>0, <4>1 DEF TypeOK
      <4>3. \A p \in Plan \ {e.plan} : outcomes'[p] = outcomes[p]
        BY <1>0, <4>1 DEF TypeOK
      <4> QED
        BY <4>1, <4>2, <4>3, FilledSlot
    <3> HIDE DEF e
    <3>3. Apart'
      <4>1. \A i \in 1 .. Len(channel') :
              /\ i + 1 \in 1 .. Len(channel)
              /\ channel'[i] = channel[i + 1]
              /\ channel[i + 1].plan \in Plan
              /\ channel[i + 1].plan # e.plan
        BY <1>0, <1>l, <3>0, <3>1 DEF Apart, Event
      <4>2. e.plan \notin work /\ \A w \in Worker : plan[w] # e.plan
        BY <1>0, <3>0 DEF Apart
      <4>3. \A i, j \in 1 .. Len(channel') : channel'[i].plan = channel'[j].plan => i = j
        <5> SUFFICES ASSUME NEW i \in 1 .. Len(channel'), NEW j \in 1 .. Len(channel'),
                            channel'[i].plan = channel'[j].plan
                     PROVE  i = j
          OBVIOUS
        <5>1. i + 1 = j + 1
          BY <1>0, <4>1 DEF Apart
        <5> QED
          BY <5>1, <1>l, <3>1
      <4>4. \A i \in 1 .. Len(channel') :
              /\ channel'[i].plan \notin work'
              /\ outcomes'[channel'[i].plan] = NoOutcome
              /\ \A x \in Worker : plan'[x] # channel'[i].plan
        BY <1>0, <3>2, <4>1 DEF Apart, Recorded
      <4>5. /\ \A p \in work' : outcomes'[p] = NoOutcome
            /\ \A x \in Worker : plan'[x] \in Plan =>
                 plan'[x] \notin work' /\ outcomes'[plan'[x]] = NoOutcome
            /\ \A x, y \in Worker : plan'[x] \in Plan /\ plan'[x] = plan'[y] => x = y
        BY <1>0, <3>2, <4>2 DEF Apart, TypeOK, Recorded
      <4> QED
        BY <4>3, <4>4, <4>5 DEF Apart, Recorded
    <3>4. Drained'
      BY <1>0 DEF Drained, ReceiverOpen
    <3>5. Kept'
      <4>1. ASSUME NEW p \in Plan PROVE Somewhere(p)'
        <5>1. CASE \E i \in 1 .. Len(channel) : channel[i].plan = p
          <6>1. PICK i \in 1 .. Len(channel) : channel[i].plan = p
            BY <5>1
          <6>2. CASE i = 1
            BY <3>0, <3>2, <6>1, <6>2 DEF Somewhere, Recorded
          <6>3. CASE i # 1
            <7>1. i - 1 \in 1 .. Len(channel') /\ channel'[i - 1] = channel[i]
              BY <1>l, <3>1, <6>3
            <7> QED
              BY <6>1, <7>1 DEF Somewhere
          <6> QED
            BY <6>2, <6>3
        <5>2. CASE p \in work \/ \E w \in Worker : plan[w] = p
          BY <5>2 DEF Somewhere
        <5>3. CASE Recorded(p)
          BY <3>2, <5>3 DEF Somewhere, Recorded
        <5> QED
          BY <1>0, <5>1, <5>2, <5>3 DEF Kept, Somewhere, ReceiverOpen
      <4> QED
        BY <1>0, <4>1 DEF Kept, ReceiverOpen
    <3> QED
      BY <1>t, <3>3, <3>4, <3>5 DEF PlaceInv
  <2>2. CASE ReceiveFails
    <3> USE <2>2 DEF ReceiveFails, queueVars
    <3>1. Len(channel') = 0
      BY EmptySeq
    <3>2. Apart'
      BY <1>0, <3>1 DEF Apart, Recorded
    <3>3. Drained' /\ Kept'
      BY DEF Drained, Kept, ReceiverOpen
    <3> QED
      BY <1>t, <3>2, <3>3 DEF PlaceInv
  <2>3. CASE ChannelClosed
    <3> USE <2>3 DEF ChannelClosed, queueVars
    <3>1. Apart' /\ Drained'
      BY <1>0 DEF Apart, Drained, Recorded, AllExited, ReceiverOpen
    <3>2. work = {} /\ \A w \in Worker : plan[w] = NoPlan
      BY <1>0, SomeWorker DEF Drained, AllExited, ReceiverOpen, WorkerOK, Busy
    <3>3. AllRecorded
      <4>1. Len(channel) = 0
        BY EmptySeq
      <4> QED
        BY <1>0, <3>2, <4>1 DEF Kept, Somewhere, AllRecorded, Recorded, ReceiverOpen
    <3>4. Kept'
      BY <3>3 DEF Kept, ReceiverOpen, AllRecorded
    <3> QED
      BY <1>t, <3>1, <3>4 DEF PlaceInv
  <2>4. CASE JoinAfterError
    BY <1>0, <1>t, <2>4 DEF JoinAfterError, queueVars, PlaceInv, Apart, Drained, Kept, Recorded,
         AllExited, ReceiverOpen
  <2>5. CASE CollectOutcomes
    BY <1>0, <1>t, <2>5 DEF CollectOutcomes, queueVars, PlaceInv, Apart, Drained, Kept,
         Recorded, AllExited, ReceiverOpen, AllRecorded
  <2>6. CASE WriteConfig \/ WriteResult \/ Conclude
    <3>1. /\ UNCHANGED <<work, plan, pc, channel, outcomes>>
          /\ phase \in {"config", "result", "summary"}
          /\ phase' \in {"result", "summary", "end"}
      BY <2>6 DEF WriteConfig, WriteResult, WriteFile, Conclude, queueVars
    <3>2. Apart' /\ Drained' /\ Kept'
      BY <1>0, <3>1 DEF Apart, Drained, Kept, Recorded, AllExited, ReceiverOpen, AllRecorded
    <3> QED
      BY <1>t, <3>2 DEF PlaceInv
  <2> QED
    BY <1>c, <2>1, <2>2, <2>3, <2>4, <2>5, <2>6 DEF CollectorStep
<1>s. CASE UNCHANGED vars
  BY <1>0, <1>t, <1>s DEF vars, PlaceInv, Apart, Drained, Kept, Recorded, AllExited, ReceiverOpen,
       AllRecorded, Somewhere
<1> QED
  BY <1>w, <1>c, <1>s DEF Next

(* The places of the plans, in every behaviour.                            *)
LEMMA PlaceInvariant == Spec => []PlaceInv
<1>1. QED
  BY PlaceInvInit, PlaceInvStep, PTL DEF Spec

(* No trial is run twice and no slot is filled twice.                      *)
THEOREM EachTrialAtMostOnce == Spec => []AtMostOnce
<1>1. PlaceInv => AtMostOnce
  <2> SUFFICES ASSUME PlaceInv PROVE AtMostOnce
    OBVIOUS
  <2>1. DOMAIN channel = 1 .. Len(channel)
    BY LenProperties DEF PlaceInv, TypeInv, TypeOK
  <2> QED
    BY <2>1 DEF PlaceInv, Apart, AtMostOnce, HoldersOf, EventsOf
<1>2. QED
  BY <1>1, PlaceInvariant, PTL

(* No plan is lost while the receiver lives, and a closed channel means    *)
(* that every slot is full.                                                *)
THEOREM EachTrialKept == Spec => []NothingLost
<1>1. PlaceInv => NothingLost
  <2> SUFFICES ASSUME PlaceInv PROVE NothingLost
    OBVIOUS
  <2>1. DOMAIN channel = 1 .. Len(channel)
    BY LenProperties DEF PlaceInv, TypeInv, TypeOK
  <2> QED
    BY <2>1 DEF PlaceInv, Kept, Somewhere, NothingLost, HoldersOf, EventsOf
<1>2. QED
  BY <1>1, PlaceInvariant, PTL

-----------------------------------------------------------------------------
(* After a fatal error each worker takes at most one more plan.            *)
LateInv ==
  \A w \in Worker :
    /\ ReceiverOpen => late[w] = 0
    /\ late[w] <= 1
    /\ late[w] = 1 => pc[w] # "pop"

(* Each worker begins at most one trial after the receiver is dropped.     *)
THEOREM FewLateStarts == Spec => []LateStartsBounded
<1>1. Init => LateInv
  BY DEF Init, LateInv
<1>2. TypeInv /\ LateInv /\ [Next]_vars => LateInv'
  <2> SUFFICES ASSUME TypeInv, LateInv, [Next]_vars PROVE LateInv'
    OBVIOUS
  <2> USE DEF TypeInv, TypeOK, LateInv, ReceiverOpen
  <2>w. ASSUME NEW w \in Worker, WorkerStep(w) PROVE LateInv'
    <3>1. CASE TakeWork(w)
      BY <3>1 DEF TakeWork, jobVars
    <3>2. CASE QueueEmpty(w)
      BY <3>2 DEF QueueEmpty, jobVars
    <3>3. CASE RunTrial(w)
      BY <3>3 DEF RunTrial, TrialSettles, TrialRetries, TrialFatal, jobVars
    <3>4. CASE BackoffOver(w)
      BY <3>4 DEF BackoffOver, jobVars
    <3>5. CASE Send(w)
      BY <3>5 DEF Send
    <3>6. CASE SendFails(w)
      BY <3>6 DEF SendFails, jobVars
    <3> QED
      BY <2>w, <3>1, <3>2, <3>3, <3>4, <3>5, <3>6 DEF WorkerStep, LoopStep
  <2>c. ASSUME CollectorStep PROVE LateInv'
    <3>1. UNCHANGED <<late, pc>> /\ (phase' = "receive" => phase = "receive")
      BY <2>c DEF CollectorStep, ReceiveOutcome, ReceiveFails, ChannelClosed, JoinAfterError,
           CollectOutcomes, WriteConfig, WriteResult, WriteFile, Conclude, queueVars
    <3> QED
      BY <3>1
  <2> QED
    BY <2>w, <2>c DEF Next, vars
<1>3. LateInv => LateStartsBounded
  BY DEF LateInv, LateStartsBounded
<1>4. QED
  BY <1>1, <1>2, <1>3, TypeInvHolds, PTL DEF Spec

-----------------------------------------------------------------------------
(* What is on disk at each phase, and what the exit code then says.        *)
BothFiles == {"config.json", "result.json"}

ExitInv ==
  /\ exit # None <=> phase = "end"
  /\ phase \in {"receive", "unwind", "collect", "config"} => files = {}
  /\ phase = "result" => files = {"config.json"}
  /\ phase = "summary" => files = BothFiles
  /\ "result.json" \in files => phase \in {"summary", "end"}
  /\ exit \in {"passed", "failed"} =>
       files = BothFiles /\ AllRecorded /\ (exit = "passed" <=> AllPassed)

(* At the start nothing has been concluded.                                *)
LEMMA ExitInvInit == Init => ExitInv
BY DEF Init, ExitInv, None

(* A conclusion, once drawn, agrees with outcomes that no longer change.   *)
LEMMA ExitInvStep == PlaceInv /\ ExitInv /\ [Next]_vars => ExitInv'
<1> SUFFICES ASSUME PlaceInv, ExitInv, [Next]_vars PROVE ExitInv'
  OBVIOUS
<1> USE DEF ExitInv, None, BothFiles
<1>f. exit \in {None, "passed", "failed", "fatal"} /\ phase \in Phase
  BY DEF PlaceInv, TypeInv, TypeOK
<1>w. ASSUME NEW w \in Worker, WorkerStep(w) PROVE ExitInv'
  <2>1. UNCHANGED <<phase, outcomes, files, exit>>
    BY <1>w DEF WorkerStep, LoopStep, TakeWork, QueueEmpty, RunTrial, TrialSettles, TrialRetries,
         TrialFatal, BackoffOver, Send, SendFails, jobVars
  <2> QED
    BY <2>1 DEF AllRecorded, AllPassed
<1>c. ASSUME CollectorStep PROVE ExitInv'
  <2>1. CASE ReceiveOutcome
    BY <2>1 DEF ReceiveOutcome
  <2>2. CASE ReceiveFails \/ ChannelClosed \/ JoinAfterError
    BY <2>2, <1>f DEF ReceiveFails, ChannelClosed, JoinAfterError
  <2>3. CASE CollectOutcomes
    BY <2>3, <1>f DEF CollectOutcomes, PlaceInv, Kept
  <2>4. CASE WriteConfig
    BY <2>4, <1>f DEF WriteConfig, WriteFile
  <2>5. CASE WriteResult
    BY <2>5, <1>f DEF WriteResult, WriteFile
  <2>6. CASE Conclude
    <3>1. AllRecorded /\ files = BothFiles
      BY <2>6 DEF Conclude, PlaceInv, Kept
    <3>2. (AllRecorded' <=> AllRecorded) /\ (AllPassed' <=> AllPassed)
      BY <2>6 DEF Conclude, AllRecorded, AllPassed
    <3>3. exit' = "fatal" \/ (exit' = "passed" /\ AllPassed) \/ (exit' = "failed" /\ ~AllPassed)
      BY <2>6 DEF Conclude
    <3> QED
      BY <2>6, <3>1, <3>2, <3>3 DEF Conclude
  <2> QED
    BY <1>c, <2>1, <2>2, <2>3, <2>4, <2>5, <2>6 DEF CollectorStep
<1>s. CASE UNCHANGED vars
  BY <1>s DEF vars, AllRecorded, AllPassed
<1> QED
  BY <1>w, <1>c, <1>s DEF Next

(* What the exit code says, in every behaviour.                            *)
LEMMA ExitInvariant == Spec => []ExitInv
<1>1. QED
  BY ExitInvInit, ExitInvStep, PlaceInvariant, PTL DEF Spec

(* Exit codes 0 and 4 only with both job files written and every outcome   *)
(* in them; and the workers are all gone by then.                          *)
THEOREM ExitCodeAgrees == Spec => []ExitMatchesReport
<1>1. PlaceInv /\ ExitInv => ExitMatchesReport
  <2> SUFFICES ASSUME PlaceInv, ExitInv, exit # None PROVE ExitMatchesReport
    BY DEF ExitMatchesReport
  <2>1. AllExited
    BY DEF PlaceInv, Drained, ExitInv
  <2>2. exit # "fatal" => exit \in {"passed", "failed"}
    BY DEF PlaceInv, TypeInv, TypeOK
  <2> QED
    BY <2>1, <2>2 DEF ExitMatchesReport, ExitInv, BothFiles
<1>2. QED
  BY <1>1, PlaceInvariant, ExitInvariant, PTL

-----------------------------------------------------------------------------
(* The attempts of plan p so far: n of them, each of which was retried.    *)
Retried(p, n) ==
  /\ Len(log[p]) = n
  /\ \A i \in 1 .. n : Retryable(log[p][i])

(* ... or n retried ones and a last one with the given result.             *)
Settled(p, result, n) ==
  /\ Len(log[p]) = n + 1
  /\ log[p][n + 1] = result
  /\ \A i \in 1 .. n : Retryable(log[p][i])
  /\ n <= MaxRetries
  /\ Retryable(result) => n = MaxRetries

RetryInv ==
  /\ \A p \in work : Len(log[p]) = 0
  /\ \A w \in Worker :
       /\ pc[w] = "trial" => Retried(plan[w], retries[w]) /\ retries[w] <= MaxRetries
       /\ pc[w] = "backoff" => Retried(plan[w], retries[w] + 1) /\ retries[w] < MaxRetries
       /\ pc[w] = "send" => Settled(plan[w], held[w], retries[w])
  /\ \A i \in 1 .. Len(channel) :
       Settled(channel[i].plan, channel[i].result, channel[i].retries)
  /\ \A p \in Plan : Recorded(p) => Settled(p, outcomes[p].result, outcomes[p].retries)

(* What RetryInv says of everyone but worker w.                            *)
RetryInvBut(w) ==
  /\ \A p \in work : Len(log[p]) = 0
  /\ \A x \in Worker \ {w} :
       /\ pc[x] = "trial" => Retried(plan[x], retries[x]) /\ retries[x] <= MaxRetries
       /\ pc[x] = "backoff" => Retried(plan[x], retries[x] + 1) /\ retries[x] < MaxRetries
       /\ pc[x] = "send" => Settled(plan[x], held[x], retries[x])
  /\ \A i \in 1 .. Len(channel) :
       Settled(channel[i].plan, channel[i].result, channel[i].retries)
  /\ \A p \in Plan : Recorded(p) => Settled(p, outcomes[p].result, outcomes[p].retries)

(* No attempt has been logged at the start.                                *)
LEMMA RetryInvInit == Init => RetryInv
<1>1. Len(<< >>) = 0
  BY EmptySeq
<1>2. QED
  BY <1>1 DEF Init, RetryInv, Recorded

(* An attempt adds its result at the end of its plan's log.                *)
LEMMA LogGrows ==
  ASSUME TypeOK, NEW w \in Worker, NEW p \in Plan, plan[w] = p,
         NEW result \in Collected \cup {Fatal}, LogAttempt(w, result),
         NEW n \in Nat, Retried(p, n)
  PROVE  /\ Len(log'[p]) = n + 1
         /\ log'[p][n + 1] = result
         /\ \A i \in 1 .. n : Retryable(log'[p][i])
<1>1. log[p] \in Seq(Collected \cup {Fatal}) /\ log'[p] = Append(log[p], result)
  BY DEF LogAttempt, TypeOK
<1>2. /\ Len(Append(log[p], result)) = Len(log[p]) + 1
      /\ Append(log[p], result)[Len(log[p]) + 1] = result
      /\ \A i \in 1 .. Len(log[p]) : Append(log[p], result)[i] = log[p][i]
  BY <1>1, AppendProperties
<1> QED
  BY <1>1, <1>2 DEF Retried

(* An attempt only appends to the log of the plan its worker holds, which  *)
(* is in no other place.                                                   *)
LEMMA OtherPlansKept ==
  ASSUME PlaceInv, RetryInv, NEW w \in Worker, pc[w] = "trial",
         NEW result \in Collected \cup {Fatal}, LogAttempt(w, result),
         NEW h, UNCHANGED <<work, plan, retries, channel, outcomes>>,
         held' = [held EXCEPT ![w] = h],
         pc' \in [Worker -> WorkerPc], \A x \in Worker \ {w} : pc'[x] = pc[x]
  PROVE  RetryInvBut(w)'
<1>1. TypeOK /\ WorkerOK /\ Apart
  BY DEF PlaceInv, TypeInv
<1>2. plan[w] \in Plan
  BY <1>1 DEF WorkerOK, Busy
<1>3. \A p \in Plan \ {plan[w]} : log'[p] = log[p]
  BY <1>1 DEF LogAttempt, TypeOK
<1>4. \A p \in work : p \in Plan \ {plan[w]}
  BY <1>1, <1>2 DEF Apart, TypeOK
<1>5. \A x \in Worker \ {w} : pc[x] \in Busy => plan[x] \in Plan \ {plan[w]}
  BY <1>1, <1>2 DEF Apart, WorkerOK
<1>6. \A i \in 1 .. Len(channel) : channel[i].plan \in Plan \ {plan[w]}
  <2>1. \A i \in 1 .. Len(channel) : channel[i] \in Event
    BY <1>1, ElementOfSeq DEF TypeOK
  <2> QED
    BY <1>1, <1>2, <2>1 DEF Apart, Event
<1>7. \A p \in Plan : Recorded(p) => p # plan[w]
  BY <1>1, <1>2 DEF Apart
<1>8. \A x \in Worker \ {w} : held'[x] = held[x]
  BY <1>1 DEF TypeOK
<1>9. \A x \in Worker \ {w} :
        /\ pc'[x] = "trial" => Retried(plan[x], retries[x])' /\ retries'[x] <= MaxRetries
        /\ pc'[x] = "backoff" =>
             Retried(plan[x], retries[x] + 1)' /\ retries'[x] < MaxRetries
        /\ pc'[x] = "send" => Settled(plan[x], held[x], retries[x])'
  BY <1>3, <1>5, <1>8, SMTT(40)
  DEF RetryInv, Retried, Settled, Busy, Retryable, ShouldRetryError
<1>10. \A p \in work' : Len(log'[p]) = 0
  BY <1>3, <1>4 DEF RetryInv
<1>11. \A i \in 1 .. Len(channel') :
         Settled(channel[i].plan, channel[i].result, channel[i].retries)'
  BY <1>3, <1>6 DEF RetryInv, Settled, Retryable, ShouldRetryError
<1>12. \A p \in Plan : Recorded(p)' => Settled(p, outcomes[p].result, outcomes[p].retries)'
  BY <1>3, <1>7 DEF RetryInv, Settled, Recorded, Retryable, ShouldRetryError
<1>13. QED
  BY <1>2, <1>9, <1>10, <1>11, <1>12 DEF RetryInvBut

(* Every step keeps the logs and the retry counters in agreement.          *)
LEMMA RetryInvStep == PlaceInv /\ RetryInv /\ [Next]_vars => RetryInv'
<1> SUFFICES ASSUME PlaceInv, RetryInv, [Next]_vars PROVE RetryInv'
  OBVIOUS
<1>0. TypeOK /\ WorkerOK /\ Apart
  BY DEF PlaceInv, TypeInv
<1>t. TypeOK'
  BY TypeInvStep DEF PlaceInv, TypeInv
<1>l. Len(channel) \in Nat /\ \A i \in 1 .. Len(channel) : channel[i] \in Event
  BY <1>0, LenProperties, ElementOfSeq DEF TypeOK
<1>m. MaxRetries \in Nat
  BY RetryAssumption
<1> USE DEF Retryable, ShouldRetryError
<1>w. ASSUME NEW w \in Worker, WorkerStep(w) PROVE RetryInv'
  <2>1. CASE TakeWork(w)
    <3> USE <2>1 DEF TakeWork, jobVars
    <3>0. PICK p \in work : work' = work \ {p} /\ plan' = [plan EXCEPT ![w] = p]
      OBVIOUS
    <3>1. /\ plan'[w] = p /\ retries'[w] = 0 /\ pc'[w] = "trial"
          /\ \A x \in Worker \ {w} : plan'[x] = plan[x] /\ retries'[x] = retries[x] /\ pc'[x] = pc[x]
      BY <1>0, <3>0 DEF TypeOK
    <3>2. Retried(plan[w], retries[w])' /\ retries'[w] <= MaxRetries
      BY <1>m, <3>0, <3>1 DEF RetryInv, Retried
    <3>3. \A x \in Worker :
            /\ pc'[x] = "trial" => Retried(plan[x], retries[x])' /\ retries'[x] <= MaxRetries
            /\ pc'[x] = "backoff" =>
                 Retried(plan[x], retries[x] + 1)' /\ retries'[x] < MaxRetries
            /\ pc'[x] = "send" => Settled(plan[x], held[x], retries[x])'
      BY <3>1, <3>2 DEF RetryInv, Retried, Settled
    <3> QED
      BY <3>0, <3>3 DEF RetryInv, Settled, Recorded
  <2>2. CASE QueueEmpty(w)
    <3>1. /\ pc'[w] = "exit" /\ \A x \in Worker \ {w} : pc'[x] = pc[x]
          /\ UNCHANGED <<work, plan, retries, held, channel, outcomes, log>>
      BY <1>0, <2>2 DEF QueueEmpty, jobVars, TypeOK
    <3> QED
      BY <3>1 DEF RetryInv, Retried, Settled, Recorded
  <2>3. ASSUME NEW result \in Collected, TrialSettles(w, result) PROVE RetryInv'
    <3> USE <2>3 DEF TrialSettles, jobVars
    <3>1. pc'[w] = "send" /\ held'[w] = result /\ \A x \in Worker \ {w} : pc'[x] = pc[x]
      BY <1>0 DEF TypeOK
    <3>2. plan[w] \in Plan /\ retries[w] \in Nat
      BY <1>0 DEF TypeOK, WorkerOK, Busy
    <3>3. Settled(plan[w], held[w], retries[w])'
      <4>1. Retried(plan[w], retries[w]) /\ retries[w] <= MaxRetries
        BY DEF RetryInv
      <4>2. /\ Len(log'[plan[w]]) = retries[w] + 1
            /\ log'[plan[w]][retries[w] + 1] = result
            /\ \A i \in 1 .. retries[w] : Retryable(log'[plan[w]][i])
        BY <1>0, <3>2, <4>1, LogGrows
      <4>3. ~Retryable(result) \/ retries[w] >= MaxRetries
        BY DEF Exhausted
      <4> QED
        BY <1>m, <3>1, <3>2, <4>1, <4>2, <4>3 DEF Settled
    <3>4. RetryInvBut(w)'
      BY <1>t, <3>1, OtherPlansKept DEF TypeOK
    <3> HIDE DEF TrialSettles
    <3> QED
      BY <3>1, <3>3, <3>4 DEF RetryInv, RetryInvBut
  <2>4. ASSUME NEW result \in Collected, TrialRetries(w, result) PROVE RetryInv'
    <3> USE <2>4 DEF TrialRetries, jobVars
    <3>1. pc'[w] = "backoff" /\ \A x \in Worker \ {w} : pc'[x] = pc[x]
      BY <1>0 DEF TypeOK
    <3>2. plan[w] \in Plan /\ retries[w] \in Nat
      BY <1>0 DEF TypeOK, WorkerOK, Busy
    <3>3. Retried(plan[w], retries[w] + 1)' /\ retries'[w] < MaxRetries
      <4>1. Retried(plan[w], retries[w]) /\ retries[w] <= MaxRetries
        BY DEF RetryInv
      <4>2. /\ Len(log'[plan[w]]) = retries[w] + 1
            /\ log'[plan[w]][retries[w] + 1] = result
            /\ \A i \in 1 .. retries[w] : Retryable(log'[plan[w]][i])
        BY <1>0, <3>2, <4>1, LogGrows
      <4> QED
        BY <1>m, <3>1, <3>2, <4>1, <4>2 DEF Retried, Exhausted
    <3>4. held' = [held EXCEPT ![w] = held[w]]
      BY <1>0 DEF TypeOK
    <3>5. RetryInvBut(w)'
      BY <1>t, <3>1, <3>4, OtherPlansKept DEF TypeOK
    <3> HIDE DEF TrialRetries
    <3> QED
      BY <3>1, <3>3, <3>5 DEF RetryInv, RetryInvBut
  <2>5. CASE TrialFatal(w)
    <3> USE <2>5 DEF TrialFatal, jobVars
    <3>1. pc'[w] = "send" /\ held'[w] = Fatal /\ \A x \in Worker \ {w} : pc'[x] = pc[x]
      BY <1>0 DEF TypeOK
    <3>2. plan[w] \in Plan /\ retries[w] \in Nat
      BY <1>0 DEF TypeOK, WorkerOK, Busy
    <3>3. Settled(plan[w], held[w], retries[w])'
      <4>1. Retried(plan[w], retries[w]) /\ retries[w] <= MaxRetries
        BY DEF RetryInv
      <4>2. /\ Len(log'[plan[w]]) = retries[w] + 1
            /\ log'[plan[w]][retries[w] + 1] = Fatal
            /\ \A i \in 1 .. retries[w] : Retryable(log'[plan[w]][i])
        BY <1>0, <3>2, <4>1, LogGrows
      <4>3. ~Retryable(Fatal)
        BY ResultKinds
      <4> QED
        BY <1>m, <3>1, <3>2, <4>1, <4>2, <4>3 DEF Settled
    <3>4. RetryInvBut(w)'
      BY <1>t, <3>1, OtherPlansKept DEF TypeOK
    <3> HIDE DEF TrialFatal
    <3> QED
      BY <3>1, <3>3, <3>4 DEF RetryInv, RetryInvBut
  <2>6. CASE BackoffOver(w)
    <3> USE <2>6 DEF BackoffOver, jobVars
    <3>1. /\ pc'[w] = "trial" /\ retries'[w] = retries[w] + 1 /\ retries[w] \in Nat
          /\ \A x \in Worker \ {w} : pc'[x] = pc[x] /\ retries'[x] = retries[x]
      BY <1>0 DEF TypeOK
    <3>2. Retried(plan[w], retries[w])' /\ retries'[w] <= MaxRetries
      BY <1>m, <3>1 DEF RetryInv, Retried
    <3>3. \A x \in Worker :
            /\ pc'[x] = "trial" => Retried(plan[x], retries[x])' /\ retries'[x] <= MaxRetries
            /\ pc'[x] = "backoff" =>
                 Retried(plan[x], retries[x] + 1)' /\ retries'[x] < MaxRetries
            /\ pc'[x] = "send" => Settled(plan[x], held[x], retries[x])'
      BY <3>1, <3>2 DEF RetryInv, Retried, Settled
    <3> QED
      BY <3>3 DEF RetryInv, Settled, Recorded
  <2>7. CASE Send(w)
    <3> DEFINE e == [plan |-> plan[w], result |-> held[w], retries |-> retries[w]]
    <3>0. e \in Event
      BY <1>0, <2>7 DEF Send, TypeOK, WorkerOK, Busy, Event
    <3>1. /\ Len(channel') = Len(channel) + 1
          /\ \A i \in 1 .. Len(channel) : channel'[i] = channel[i]
          /\ channel'[Len(channel) + 1] = e
      BY <1>0, <2>7, <3>0, AppendProperties DEF Send, TypeOK
    <3>u. UNCHANGED <<work, retries, outcomes, log>>
      BY <2>7 DEF Send
    <3>2. Settled(e.plan, e.result, e.retries)
      BY <2>7 DEF Send, RetryInv
    <3>3. \A i \in 1 .. Len(channel') :
            Settled(channel[i].plan, channel[i].result, channel[i].retries)'
      <4>1. \A i \in 1 .. Len(channel') : i \in 1 .. Len(channel) \/ i = Len(channel) + 1
        BY <1>l, <3>1
      <4> HIDE DEF e
      <4> QED
        BY <3>u, <3>1, <3>2, <4>1, SMTT(40) DEF RetryInv, Settled
    <3>4. pc'[w] = "pop" /\ \A x \in Worker \ {w} :
             pc'[x] = pc[x] /\ plan'[x] = plan[x] /\ held'[x] = held[x]
      BY <1>0, <2>7 DEF Send, TypeOK
    <3>5. \A x \in Worker :
            /\ pc'[x] = "trial" => Retried(plan[x], retries[x])' /\ retries'[x] <= MaxRetries
            /\ pc'[x] = "backoff" =>
                 Retried(plan[x], retries[x] + 1)' /\ retries'[x] < MaxRetries
            /\ pc'[x] = "send" => Settled(plan[x], held[x], retries[x])'
      BY <3>4, <3>u DEF RetryInv, Retried, Settled
    <3> QED
      BY <3>3, <3>5, <3>u DEF RetryInv, Settled, Recorded
  <2>8. CASE SendFails(w)
    <3> USE <2>8 DEF SendFails, jobVars
    <3>1. pc'[w] = "exit" /\ \A x \in Worker \ {w} :
             pc'[x] = pc[x] /\ plan'[x] = plan[x] /\ held'[x] = held[x]
      BY <1>0 DEF TypeOK
    <3>2. \A x \in Worker :
            /\ pc'[x] = "trial" => Retried(plan[x], retries[x])' /\ retries'[x] <= MaxRetries
            /\ pc'[x] = "backoff" =>
                 Retried(plan[x], retries[x] + 1)' /\ retries'[x] < MaxRetries
            /\ pc'[x] = "send" => Settled(plan[x], held[x], retries[x])'
      BY <3>1 DEF RetryInv, Retried, Settled
    <3> QED
      BY <3>2, SMTT(40) DEF RetryInv, Settled, Recorded
  <2> QED
    BY <1>w, <2>1, <2>2, <2>3, <2>4, <2>5, <2>6, <2>7, <2>8 DEF WorkerStep, LoopStep, RunTrial
<1>c. ASSUME CollectorStep PROVE RetryInv'
  <2>1. CASE ReceiveOutcome
    <3> USE <2>1 DEF ReceiveOutcome, queueVars
    <3>0. /\ Head(channel) = channel[1] /\ 1 \in 1 .. Len(channel)
          /\ channel[1].plan \in Plan /\ channel[1] \in Event
      BY <1>0, <1>l, EmptySeq, HeadTailProperties DEF TypeOK, Event
    <3>1. /\ Len(channel') = Len(channel) - 1
          /\ \A i \in 1 .. Len(channel') : channel'[i] = channel[i + 1]
      BY <1>0, HeadTailProperties DEF TypeOK
    <3>2. /\ outcomes'[channel[1].plan] =
               [result |-> channel[1].result, retries |-> channel[1].retries]
          /\ \A p \in Plan \ {channel[1].plan} : outcomes'[p] = outcomes[p]
      BY <1>0, <3>0 DEF TypeOK
    <3>3. \A i \in 1 .. Len(channel') :
            Settled(channel[i].plan, channel[i].result, channel[i].retries)'
      <4>1. \A i \in 1 .. Len(channel') : i + 1 \in 1 .. Len(channel)
        BY <1>l, <3>1
      <4> QED
        BY <3>1, <4>1 DEF RetryInv, Settled
    <3>4. \A p \in Plan : Recorded(p)' => Settled(p, outcomes[p].result, outcomes[p].retries)'
      BY <3>0, <3>2, SMTT(40) DEF RetryInv, Settled, Recorded
    <3>5. UNCHANGED <<work, pc, plan, held, retries, log>>
      OBVIOUS
    <3> HIDE <2>1 DEF ReceiveOutcome, queueVars
    <3> QED
      BY <3>3, <3>4, <3>5 DEF RetryInv, Retried, Settled
  <2>2. CASE ReceiveFails
    <3>1. Len(channel') = 0
      BY <2>2, EmptySeq DEF ReceiveFails
    <3>2. UNCHANGED <<work, pc, plan, retries, held, outcomes, log>>
      BY <2>2 DEF ReceiveFails, queueVars
    <3> QED
      BY <3>1, <3>2 DEF RetryInv, Retried, Settled, Recorded
  <2>3. CASE ChannelClosed \/ JoinAfterError \/ CollectOutcomes \/ WriteConfig \/ WriteResult \/ Conclude
    <3>1. UNCHANGED <<work, pc, plan, retries, held, channel, outcomes, log>>
      BY <2>3 DEF ChannelClosed, JoinAfterError, CollectOutcomes, WriteConfig, WriteResult,
           WriteFile, Conclude, queueVars
    <3> QED
      BY <3>1 DEF RetryInv, Retried, Settled, Recorded
  <2> QED
    BY <1>c, <2>1, <2>2, <2>3 DEF CollectorStep
<1>s. CASE UNCHANGED vars
  BY <1>s DEF vars, RetryInv, Retried, Settled, Recorded
<1> QED
  BY <1>w, <1>c, <1>s DEF Next

(* Recorded outcomes obey the retry policy: --retry-exclude is never       *)
(* overridden and --max-retries never exceeded.                            *)
THEOREM RetriesAsConfigured == Spec => []RetryDiscipline
<1>1. PlaceInv /\ RetryInv => RetryDiscipline
  <2> SUFFICES ASSUME PlaceInv, RetryInv, NEW p \in Plan, Recorded(p)
               PROVE  LET last == outcomes[p].retries + 1
                      IN  /\ Len(log[p]) = last
                          /\ log[p][last] = outcomes[p].result
                          /\ \A i \in 1 .. last - 1 : Retryable(log[p][i])
                          /\ last <= MaxRetries + 1
                          /\ Retryable(outcomes[p].result) => last = MaxRetries + 1
    BY DEF RetryDiscipline
  <2>1. Settled(p, outcomes[p].result, outcomes[p].retries)
    BY DEF RetryInv
  <2>2. outcomes[p].retries \in Nat /\ MaxRetries \in Nat
    BY RetryAssumption DEF PlaceInv, TypeInv, TypeOK, Recorded, Outcome
  <2>3. (outcomes[p].retries + 1) - 1 = outcomes[p].retries
    BY <2>2
  <2> QED
    BY <2>1, <2>2, <2>3 DEF Settled
<1>2. QED
  BY <1>1, RetryInvInit, RetryInvStep, PlaceInvariant, PTL DEF Spec

-----------------------------------------------------------------------------
(* Two trials share a directory only by the collision of sanitize_name     *)
(* that the run trial_names_collide exhibits.  The theorem on reported     *)
(* output is about the jobs whose trials have names of their own, as those *)
(* of a suite with distinct sanitized task names have.                     *)
DistinctNames == \A p, q \in Plan : TrialName[p] = TrialName[q] => p = q

(* The output of the attempt that the job reports, or will report, is in   *)
(* the directory of its trial, at each of the places an outcome passes     *)
(* through; and a directory holds the output of its own trial only.        *)
HasOutput(p, n) == <<p, n>> \in trialDir[TrialName[p]]

OutputInv ==
  /\ \A p \in Plan : \A a \in trialDir[TrialName[p]] : a[1] = p
  /\ \A w \in Worker : pc[w] = "send" /\ held[w] # Fatal => HasOutput(plan[w], retries[w])
  /\ \A i \in 1 .. Len(channel) :
       channel[i].result # Fatal => HasOutput(channel[i].plan, channel[i].retries)
  /\ \A p \in Plan : Recorded(p) => HasOutput(p, outcomes[p].retries)

(* Every directory is empty at the start.                                  *)
LEMMA OutputInvInit == Init => OutputInv
<1>1. Len(<< >>) = 0
  BY EmptySeq
<1> QED
  BY <1>1 DEF Init, OutputInv, Recorded

(* An attempt of worker w changes the directory of its own plan only, and  *)
(* no other place has an outcome of that plan.                             *)
LEMMA OtherOutputsKept ==
  ASSUME DistinctNames, PlaceInv, OutputInv, NEW w \in Worker, pc[w] = "trial",
         UNCHANGED <<plan, retries, channel, outcomes>>,
         NEW left, left \subseteq trialDir[DirOf(w)] \cup {ThisAttempt(w)},
         trialDir' = [trialDir EXCEPT ![DirOf(w)] = left],
         \A x \in Worker \ {w} : pc'[x] = pc[x] /\ held'[x] = held[x],
         pc'[w] = "send" /\ held'[w] # Fatal => ThisAttempt(w) \in left
  PROVE  OutputInv'
<1>1. TypeOK /\ WorkerOK /\ Apart
  BY DEF PlaceInv, TypeInv
<1>2. plan[w] \in Plan
  BY <1>1 DEF WorkerOK, Busy
<1>3. \A p \in Plan : trialDir'[TrialName[p]] = IF p = plan[w] THEN left
                                                 ELSE trialDir[TrialName[p]]
  BY <1>1, <1>2 DEF DistinctNames, DirOf, TypeOK
<1>4. \A p \in Plan : \A a \in trialDir'[TrialName[p]] : a[1] = p
  BY <1>2, <1>3 DEF OutputInv, DirOf, ThisAttempt
<1>5. \A p \in Plan \ {plan[w]} : \A n : HasOutput(p, n)' <=> HasOutput(p, n)
  BY <1>3 DEF HasOutput
<1>6. \A x \in Worker :
        pc'[x] = "send" /\ held'[x] # Fatal => HasOutput(plan[x], retries[x])'
  <2> SUFFICES ASSUME NEW x \in Worker, pc'[x] = "send", held'[x] # Fatal
               PROVE  HasOutput(plan[x], retries[x])'
    OBVIOUS
  <2>1. CASE x = w
    BY <1>2, <1>3, <2>1 DEF HasOutput, ThisAttempt
  <2>2. CASE x # w
    <3>1. pc[x] = "send" /\ held[x] # Fatal
      BY <2>2
    <3>2. plan[x] \in Plan \ {plan[w]}
      BY <1>1, <1>2, <2>2, <3>1 DEF WorkerOK, Busy, Apart
    <3>3. HasOutput(plan[x], retries[x])
      BY <3>1 DEF OutputInv
    <3>4. HasOutput(plan[x], retries[x])'
      <4>1. <<plan[x], retries[x]>> \in trialDir[TrialName[plan[x]]]
        BY <3>3 DEF HasOutput
      <4>2. trialDir'[TrialName[plan[x]]] = trialDir[TrialName[plan[x]]]
        BY <1>3, <3>2
      <4> QED
        BY <4>1, <4>2 DEF HasOutput
    <3> QED
      BY <3>4
  <2> QED
    BY <2>1, <2>2
<1>7. \A i \in 1 .. Len(channel') :
        channel'[i].result # Fatal => HasOutput(channel[i].plan, channel[i].retries)'
  <2>1. \A i \in 1 .. Len(channel) : channel[i].plan \in Plan \ {plan[w]}
    <3>1. \A i \in 1 .. Len(channel) : channel[i] \in Event
      BY <1>1, ElementOfSeq DEF TypeOK
    <3> QED
      BY <1>1, <1>2, <3>1 DEF Apart, Event
  <2> QED
    BY <1>5, <2>1 DEF OutputInv
<1>8. \A p \in Plan : Recorded(p)' => HasOutput(p, outcomes[p].retries)'
  <2>1. \A p \in Plan : Recorded(p) => p # plan[w]
    BY <1>1, <1>2 DEF Apart
  <2> QED
    BY <1>5, <2>1 DEF OutputInv, Recorded
<1> QED
  BY <1>4, <1>6, <1>7, <1>8 DEF OutputInv

(* Every step keeps the directories and what is said of them in agreement: *)
(* a retry discards the directory of a plan that is in no other place.     *)
LEMMA OutputInvStep ==
  ASSUME DistinctNames, PlaceInv, OutputInv, [Next]_vars PROVE OutputInv'
<1>0. TypeOK /\ WorkerOK /\ Apart
  BY DEF PlaceInv, TypeInv
<1>l. Len(channel) \in Nat /\ \A i \in 1 .. Len(channel) : channel[i] \in Event
  BY <1>0, LenProperties, ElementOfSeq DEF TypeOK
<1>w. ASSUME NEW w \in Worker, WorkerStep(w) PROVE OutputInv'
  <2>1. ASSUME NEW result \in Collected, TrialSettles(w, result) PROVE OutputInv'
    <3>1. \A x \in Worker \ {w} : pc'[x] = pc[x] /\ held'[x] = held[x]
      BY <1>0, <2>1 DEF TrialSettles, TypeOK
    <3>2. trialDir' = [trialDir EXCEPT ![DirOf(w)] = trialDir[DirOf(w)] \cup {ThisAttempt(w)}]
      BY <2>1 DEF TrialSettles
    <3>3. pc[w] = "trial" /\ UNCHANGED <<plan, retries, channel, outcomes>>
      BY <2>1 DEF TrialSettles, jobVars
    <3> QED
      BY <3>1, <3>2, <3>3, OtherOutputsKept
  <2>2. ASSUME NEW result \in Collected, TrialRetries(w, result) PROVE OutputInv'
    <3>1. /\ \A x \in Worker \ {w} : pc'[x] = pc[x] /\ held'[x] = held[x]
          /\ pc'[w] = "backoff"
      BY <1>0, <2>2 DEF TrialRetries, TypeOK
    <3>2. PICK left \in {{}, trialDir[DirOf(w)] \cup {ThisAttempt(w)}} :
            trialDir' = [trialDir EXCEPT ![DirOf(w)] = left]
      BY <2>2 DEF TrialRetries
    <3>3. pc[w] = "trial" /\ UNCHANGED <<plan, retries, channel, outcomes>>
      BY <2>2 DEF TrialRetries, jobVars
    <3> QED
      BY <3>1, <3>2, <3>3, OtherOutputsKept
  <2>3. CASE TrialFatal(w)
    <3>1. /\ \A x \in Worker \ {w} : pc'[x] = pc[x] /\ held'[x] = held[x]
          /\ held'[w] = Fatal
      BY <1>0, <2>3 DEF TrialFatal, TypeOK
    <3>2. PICK written \in {{}, {ThisAttempt(w)}} :
            trialDir' = [trialDir EXCEPT ![DirOf(w)] = trialDir[DirOf(w)] \cup written]
      BY <2>3 DEF TrialFatal
    <3>3. pc[w] = "trial" /\ UNCHANGED <<plan, retries, channel, outcomes>>
      BY <2>3 DEF TrialFatal, jobVars
    <3> QED
      BY <3>1, <3>2, <3>3, OtherOutputsKept
  <2>4. CASE TakeWork(w) \/ QueueEmpty(w) \/ BackoffOver(w) \/ SendFails(w)
    <3>1. /\ UNCHANGED <<trialDir, channel, outcomes>> /\ pc'[w] # "send"
          /\ \A x \in Worker \ {w} : /\ pc'[x] = pc[x] /\ plan'[x] = plan[x]
                                     /\ held'[x] = held[x] /\ retries'[x] = retries[x]
      BY <1>0, <2>4 DEF TakeWork, QueueEmpty, BackoffOver, SendFails, jobVars, TypeOK
    <3> QED
      BY <3>1 DEF OutputInv, HasOutput, Recorded
  <2>5. CASE Send(w)
    <3> DEFINE e == [plan |-> plan[w], result |-> held[w], retries |-> retries[w]]
    <3>0. e \in Event
      BY <1>0, ResultKinds, <2>5 DEF Send, TypeOK, WorkerOK, Busy, Event
    <3>1. /\ Len(channel') = Len(channel) + 1
          /\ \A i \in 1 .. Len(channel) : channel'[i] = channel[i]
          /\ channel'[Len(channel) + 1] = e
      BY <1>0, <2>5, <3>0, AppendProperties DEF Send, TypeOK
    <3>2. /\ UNCHANGED <<trialDir, outcomes, retries>> /\ pc'[w] # "send"
          /\ \A x \in Worker \ {w} : /\ pc'[x] = pc[x] /\ plan'[x] = plan[x]
                                     /\ held'[x] = held[x]
      BY <1>0, <2>5 DEF Send, TypeOK
    <3>3. e.result # Fatal => HasOutput(e.plan, e.retries)
      BY <2>5 DEF Send, OutputInv
    <3>4. \A i \in 1 .. Len(channel') : i \in 1 .. Len(channel) \/ i = Len(channel) + 1
      BY <1>l, <3>1
    <3> HIDE DEF e
    <3>5. \A i \in 1 .. Len(channel') :
            channel'[i].result # Fatal => HasOutput(channel[i].plan, channel[i].retries)'
      BY <3>1, <3>2, <3>3, <3>4 DEF OutputInv, HasOutput
    <3> QED
      BY <3>2, <3>5 DEF OutputInv, HasOutput, Recorded
  <2> QED
    BY <1>w, <2>1, <2>2, <2>3, <2>4, <2>5 DEF WorkerStep, LoopStep, RunTrial
<1>c. ASSUME CollectorStep PROVE OutputInv'
  <2>0. UNCHANGED <<pc, plan, retries, held, trialDir>>
    BY <1>c DEF CollectorStep, ReceiveOutcome, ReceiveFails, ChannelClosed, JoinAfterError,
         CollectOutcomes, WriteConfig, WriteResult, WriteFile, Conclude, queueVars
  <2>1. CASE ReceiveOutcome
    <3>0. /\ Head(channel) = channel[1] /\ 1 \in 1 .. Len(channel)
          /\ channel[1].plan \in Plan
      BY <1>0, <1>l, <2>1, EmptySeq, HeadTailProperties DEF ReceiveOutcome, TypeOK, Event
    <3>1. /\ Len(channel') = Len(channel) - 1
          /\ \A i \in 1 .. Len(channel') : channel'[i] = channel[i + 1]
      BY <1>0, <2>1, HeadTailProperties DEF ReceiveOutcome, TypeOK
    <3>2. \A i \in 1 .. Len(channel') : i + 1 \in 1 .. Len(channel)
      BY <1>l, <3>1
    <3>3. /\ outcomes'[channel[1].plan] =
               [result |-> channel[1].result, retries |-> channel[1].retries]
          /\ \A p \in Plan \ {channel[1].plan} : outcomes'[p] = outcomes[p]
          /\ channel[1].result # Fatal
      BY <1>0, <2>1, <3>0 DEF ReceiveOutcome, TypeOK
    <3>4. ASSUME NEW i \in 1 .. Len(channel'), channel'[i].result # Fatal
          PROVE  HasOutput(channel[i].plan, channel[i].retries)'
      <4>1. i + 1 \in 1 .. Len(channel) /\ channel'[i] = channel[i + 1]
        BY <3>1, <3>2
      <4>2. HasOutput(channel[i + 1].plan, channel[i + 1].retries)
        BY <3>4, <4>1 DEF OutputInv
      <4> QED
        BY <2>0, <4>1, <4>2 DEF HasOutput
    <3>5. ASSUME NEW p \in Plan, Recorded(p)'
          PROVE  HasOutput(p, outcomes[p].retries)'
      <4>1. CASE p = channel[1].plan
        <5>1. HasOutput(p, channel[1].retries)
          BY <3>0, <3>3, <4>1 DEF OutputInv
        <5>2. outcomes'[p].retries = channel[1].retries
          BY <3>3, <4>1
        <5> QED
          BY <2>0, <5>1, <5>2 DEF HasOutput
      <4>2. CASE p # channel[1].plan
        <5>1. outcomes'[p] = outcomes[p]
          BY <3>3, <4>2
        <5>2. HasOutput(p, outcomes[p].retries)
          BY <3>5, <5>1 DEF OutputInv, Recorded
        <5> QED
          BY <2>0, <5>1, <5>2 DEF HasOutput
      <4> QED
        BY <4>1, <4>2
    <3> QED
      BY <2>0, <3>4, <3>5 DEF OutputInv, HasOutput
  <2>2. CASE ReceiveFails
    <3>1. Len(channel') = 0 /\ UNCHANGED outcomes
      BY <2>2, EmptySeq DEF ReceiveFails
    <3> QED
      BY <2>0, <3>1 DEF OutputInv, HasOutput, Recorded
  <2>3. CASE ChannelClosed \/ JoinAfterError \/ CollectOutcomes \/ WriteConfig \/ WriteResult \/ Conclude
    <3>1. UNCHANGED <<channel, outcomes>>
      BY <2>3 DEF ChannelClosed, JoinAfterError, CollectOutcomes, WriteConfig, WriteResult,
           WriteFile, Conclude
    <3> QED
      BY <2>0, <3>1 DEF OutputInv, HasOutput, Recorded
  <2> QED
    BY <1>c, <2>1, <2>2, <2>3 DEF CollectorStep
<1>s. CASE UNCHANGED vars
  BY <1>s DEF vars, OutputInv, HasOutput, Recorded
<1> QED
  BY <1>w, <1>c, <1>s DEF Next

(* What result.json reports of a trial is what its directory holds: no     *)
(* retry and no other trial removed it or wrote into it.                   *)
THEOREM ReportedOutputKept == ASSUME DistinctNames PROVE Spec => []OutputMatchesReport
<1>1. OutputInv => OutputMatchesReport
  BY DEF OutputInv, OutputMatchesReport, HasOutput
<1>2. PlaceInv /\ OutputInv /\ [Next]_vars => OutputInv'
  BY OutputInvStep
<1>3. QED
  BY <1>1, <1>2, OutputInvInit, PlaceInvariant, PTL DEF Spec

-----------------------------------------------------------------------------
(* The refinement: a step of the pool moves at most one plan by one stage. *)
StageFn == [p \in Plan |-> StageOf(p)]

(* A step that leaves slots, queue and verdict alone, and where the only   *)
(* plan that can change stage is p.                                        *)
LEMMA StageFrame ==
  ASSUME TypeOK, UNCHANGED <<work, outcomes>>, NEW w \in Worker,
         \A x \in Worker \ {w} : plan'[x] = plan[x] /\ pc'[x] = pc[x],
         \/ plan'[w] = plan[w] /\ (pc'[w] = "send" <=> pc[w] = "send")
         \/ pc[w] = "send" /\ plan'[w] = NoPlan
  PROVE  StageFn' = StageFn
<1>1. ASSUME NEW p \in Plan PROVE StageOf(p)' = StageOf(p)
  <2>1. (\E x \in HoldersOf(p) : pc[x] # "send")' <=> (\E x \in HoldersOf(p) : pc[x] # "send")
    BY ResultKinds DEF HoldersOf
  <2> QED
    BY <2>1 DEF StageOf, Recorded
<1> QED
  BY <1>1 DEF StageFn

(* The initial state maps to the initial state of JobSpec.                 *)
LEMMA RefinementInit == Init => Job!Init
<1> SUFFICES ASSUME Init PROVE Job!Init
  OBVIOUS
<1>1. \A p \in Plan : StageOf(p) = "queued"
  BY DEF Init, StageOf, Recorded
<1> QED
  BY <1>1 DEF Init, Job!Init, Verdict

(* Every step maps to a step of JobSpec or to a stutter.                   *)
LEMMA RefinementStep == PlaceInv /\ PlaceInv' /\ ExitInv /\ [Next]_vars => [Job!Next]_Job!vars
<1> SUFFICES ASSUME PlaceInv, PlaceInv', ExitInv, [Next]_vars
             PROVE  [Job!Next]_(Job!vars)
  OBVIOUS
<1>0. TypeOK /\ WorkerOK /\ Apart /\ Drained /\ Kept /\ Apart'
  BY DEF PlaceInv, TypeInv
<1>j. [Job!Next]_(Job!vars) <=>
        \/ Job!Next
        \/ StageFn' = StageFn /\ Verdict' = Verdict
  BY DEF Job!vars, StageFn
<1>w. ASSUME NEW w \in Worker, WorkerStep(w) PROVE [Job!Next]_(Job!vars)
  <2>v. Verdict' = Verdict
    BY <1>w DEF WorkerStep, LoopStep, TakeWork, QueueEmpty, RunTrial, TrialSettles, TrialRetries,
         TrialFatal, BackoffOver, Send, SendFails, jobVars, Verdict
  <2>a. pc[w] # "exit"
    BY <1>w DEF WorkerStep, LoopStep, TakeWork, QueueEmpty, RunTrial, TrialSettles, TrialRetries,
         TrialFatal, BackoffOver, Send, SendFails
  <2>n. Verdict # "complete"
    BY <1>0, <2>a DEF Verdict, ExitInv, Drained, AllExited
  <2>1. CASE TakeWork(w)
    <3> USE <2>1 DEF TakeWork, jobVars
    <3>0. PICK p \in work : work' = work \ {p} /\ plan' = [plan EXCEPT ![w] = p]
      OBVIOUS
    <3>1. p \in Plan /\ plan[w] = NoPlan
      BY <1>0 DEF TypeOK, WorkerOK, Busy
    <3>2. /\ plan'[w] = p /\ pc'[w] = "trial"
          /\ \A x \in Worker \ {w} : plan'[x] = plan[x] /\ pc'[x] = pc[x]
      BY <1>0, <3>0 DEF TypeOK
    <3>3. StageOf(p) = "queued" /\ StageOf(p)' = "running"
      BY <1>0, <3>0, <3>1, <3>2 DEF StageOf, Recorded, HoldersOf, Apart
    <3>4. ASSUME NEW q \in Plan, q # p PROVE StageOf(q)' = StageOf(q)
      <4>1. (\E x \in HoldersOf(q) : pc[x] # "send")' <=> (\E x \in HoldersOf(q) : pc[x] # "send")
        BY <3>1, <3>2, <3>4, ResultKinds DEF HoldersOf
      <4> QED
        BY <3>0, <3>4, <4>1 DEF StageOf, Recorded
    <3>5. StageFn' = [StageFn EXCEPT ![p] = "running"] /\ StageFn[p] = "queued"
      BY <3>1, <3>3, <3>4 DEF StageFn
    <3>6. Job!Start(p)
      BY <2>v, <2>n, <3>5 DEF Job!Start, StageFn
    <3> QED
      BY <3>1, <3>6 DEF Job!Next
  <2>2. CASE QueueEmpty(w) \/ BackoffOver(w) \/ Send(w) \/ SendFails(w)
    <3>1. /\ UNCHANGED <<work, outcomes>>
          /\ \A x \in Worker \ {w} : plan'[x] = plan[x] /\ pc'[x] = pc[x]
          /\ \/ plan'[w] = plan[w] /\ (pc'[w] = "send" <=> pc[w] = "send")
             \/ pc[w] = "send" /\ plan'[w] = NoPlan
      BY <1>0, <2>2 DEF QueueEmpty, BackoffOver, Send, SendFails, jobVars, TypeOK
    <3> QED
      BY <1>0, <1>j, <2>v, <3>1, StageFrame
  <2>3. ASSUME NEW result \in Collected, TrialRetries(w, result) PROVE [Job!Next]_(Job!vars)
    <3>1. /\ UNCHANGED <<work, outcomes>>
          /\ \A x \in Worker \ {w} : plan'[x] = plan[x] /\ pc'[x] = pc[x]
          /\ plan'[w] = plan[w] /\ (pc'[w] = "send" <=> pc[w] = "send")
      BY <1>0, <2>3 DEF TrialRetries, jobVars, TypeOK
    <3> QED
      BY <1>0, <1>j, <2>v, <3>1, StageFrame
  <2>4. CASE (\E result \in Collected : TrialSettles(w, result)) \/ TrialFatal(w)
    <3>1. /\ pc[w] = "trial" /\ pc'[w] = "send"
          /\ UNCHANGED <<work, outcomes, plan>>
          /\ \A x \in Worker \ {w} : pc'[x] = pc[x]
      BY <1>0, <2>4 DEF TrialSettles, TrialFatal, jobVars, TypeOK
    <3> DEFINE p == plan[w]
    <3>2. p \in Plan
      BY <1>0, <3>1 DEF WorkerOK, Busy
    <3>3. /\ \A x \in Worker : plan[x] = p => x = w
          /\ p \notin work /\ outcomes[p] = NoOutcome
      BY <1>0, <3>2 DEF Apart, Recorded
    <3> HIDE DEF p
    <3>p. plan[w] = p
      BY DEF p
    <3>4. StageFn[p] = "running" /\ StageFn'[p] = "finished"
      BY <3>1, <3>2, <3>3, <3>p DEF StageFn, StageOf, Recorded, HoldersOf
    <3>5. ASSUME NEW q \in Plan, q # p PROVE StageFn'[q] = StageFn[q]
      <4>1. (\E x \in HoldersOf(q) : pc[x] # "send")' <=> (\E x \in HoldersOf(q) : pc[x] # "send")
        BY <3>1, <3>5, <3>p DEF HoldersOf
      <4> QED
        BY <3>1, <4>1 DEF StageFn, StageOf, Recorded
    <3>6. StageFn' = [StageFn EXCEPT ![p] = "finished"]
      BY <3>2, <3>4, <3>5 DEF StageFn
    <3>7. Job!Finish(p)
      BY <2>v, <2>n, <3>4, <3>6 DEF Job!Finish, StageFn
    <3> QED
      BY <3>2, <3>7 DEF Job!Next
  <2> QED
    BY <1>w, <2>1, <2>2, <2>3, <2>4 DEF WorkerStep, LoopStep, RunTrial
<1>c. ASSUME CollectorStep PROVE [Job!Next]_(Job!vars)
  <2>0. UNCHANGED <<work, plan, pc>>
    BY <1>c DEF CollectorStep, ReceiveOutcome, ReceiveFails, ChannelClosed, JoinAfterError,
         CollectOutcomes, WriteConfig, WriteResult, WriteFile, Conclude, queueVars
  <2>f. ASSUME UNCHANGED outcomes PROVE StageFn' = StageFn
    BY <2>0, <2>f DEF StageFn, StageOf, Recorded, HoldersOf
  <2>1. CASE ReceiveOutcome
    <3> USE <2>1 DEF ReceiveOutcome
    <3> DEFINE p == Head(channel).plan
    <3>0. /\ Head(channel) = channel[1] /\ 1 \in 1 .. Len(channel)
          /\ p \in Plan /\ Head(channel).result \in Collected
      <4>1. Len(channel) \in Nat /\ Len(channel) # 0
        BY <1>0, LenProperties, EmptySeq DEF TypeOK
      <4>2. Head(channel) = channel[1] /\ Head(channel) \in Event
        BY <1>0, HeadTailProperties DEF TypeOK
      <4> QED
        BY <4>1, <4>2 DEF Event
    <3>1. p \notin work /\ outcomes[p] = NoOutcome /\ \A w \in Worker : plan[w] # p
      BY <1>0, <3>0 DEF Apart, Recorded
    <3>2. outcomes'[p] # NoOutcome /\ \A q \in Plan \ {p} : outcomes'[q] = outcomes[q]
      BY <1>0, <3>0, FilledSlot DEF TypeOK
    <3> HIDE DEF p
    <3>3. StageFn[p] = "finished" /\ StageFn'[p] = "recorded"
      BY <3>0, <3>1, <3>2 DEF StageFn, StageOf, Recorded, HoldersOf
    <3>4. \A q \in Plan \ {p} : StageFn'[q] = StageFn[q]
      BY <2>0, <3>2 DEF StageFn, StageOf, Recorded, HoldersOf
    <3>5. StageFn' = [StageFn EXCEPT ![p] = "recorded"]
      BY <3>0, <3>3, <3>4 DEF StageFn
    <3>6. Verdict = "open" /\ Verdict' = "open"
      BY DEF Verdict, ExitInv
    <3>7. Job!Record(p)
      BY <3>3, <3>5, <3>6 DEF Job!Record, StageFn
    <3> QED
      BY <3>0, <3>7 DEF Job!Next
  <2>2. CASE ReceiveFails
    <3>1. StageFn' = StageFn /\ Verdict = "open" /\ Verdict' = "aborted"
      BY <2>2, <2>f DEF ReceiveFails, Verdict, ExitInv
    <3> QED
      BY <3>1 DEF Job!Next, Job!Abort, StageFn
  <2>3. CASE ChannelClosed \/ JoinAfterError
    <3>1. StageFn' = StageFn /\ Verdict' = Verdict
      BY <2>3, <2>f DEF ChannelClosed, JoinAfterError, Verdict
    <3> QED
      BY <1>j, <3>1
  <2>4. CASE CollectOutcomes
    <3>1. StageFn' = StageFn /\ Verdict' = Verdict
      BY <1>0, <2>4, <2>f DEF CollectOutcomes, Verdict, Kept
    <3> QED
      BY <1>j, <3>1
  <2>5. CASE WriteConfig
    <3>1. StageFn' = StageFn /\ Verdict = "open" /\ Verdict' \in {"open", "aborted"}
      BY <2>5, <2>f DEF WriteConfig, WriteFile, Verdict, ExitInv
    <3> QED
      BY <1>j, <3>1 DEF Job!Next, Job!Abort, StageFn
  <2>6. CASE WriteResult
    <3>1. StageFn' = StageFn /\ Verdict = "open" /\ Verdict' \in {"complete", "aborted"}
      BY <2>6, <2>f DEF WriteResult, WriteFile, Verdict, ExitInv
    <3>2. \A p \in Plan : StageFn[p] = "recorded"
      BY <1>0, <2>6 DEF WriteResult, WriteFile, Kept, AllRecorded, StageFn, StageOf, Recorded
    <3> QED
      BY <3>1, <3>2 DEF Job!Next, Job!Complete, Job!Abort, StageFn
  <2>7. CASE Conclude
    <3>1. StageFn' = StageFn /\ Verdict' = Verdict
      BY <2>7, <2>f DEF Conclude, Verdict, ExitInv, BothFiles
    <3> QED
      BY <1>j, <3>1
  <2> QED
    BY <1>c, <2>1, <2>2, <2>3, <2>4, <2>5, <2>6, <2>7 DEF CollectorStep
<1>s. CASE UNCHANGED vars
  <2>1. StageFn' = StageFn /\ Verdict' = Verdict
    BY <1>s DEF vars, StageFn, StageOf, Recorded, HoldersOf, Verdict
  <2> QED
    BY <1>j, <2>1
<1> QED
  BY <1>w, <1>c, <1>s DEF Next

(* The pool implements JobSpec: every plan goes through its stages once    *)
(* and in order, whatever the workers interleave.                          *)
THEOREM PoolImplementsJob == Spec => Job!Spec
<1>1. QED
  BY RefinementInit, RefinementStep, PlaceInvariant, ExitInvariant, PTL DEF Spec, Job!Spec

=============================================================================
