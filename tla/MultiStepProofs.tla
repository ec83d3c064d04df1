--------------------------- MODULE MultiStepProofs ---------------------------
(***************************************************************************)
(* Theorems about the steps of a multi-step task, for every task and every *)
(* set of scores.                                                          *)
(***************************************************************************)
EXTENDS MultiStep, FiniteFolds, SequenceTheorems

(* A step's outcome is pushed when the step is over.                       *)
CountOK ==
  /\ task.steps \in Nat \ {0}
  /\ pc # "done" => Len(outcomes) = step - 1
  /\ pc = "done" => Len(outcomes) \in {step - 1, step}

TypeInv == TypeOK /\ CountOK

(* The empty map and the outcome of an aborted step are well typed.        *)
LEMMA EmptyScores == NoScores \in Scores /\ NoFile \in File /\ Aborted \in Outcome
<1>1. NoScores \in [{} -> Score]
  BY DEF NoScores
<1>2. {} \in SUBSET Key
  OBVIOUS
<1>3. NoScores \in Scores
  BY <1>1, <1>2 DEF Scores
<1> QED
  BY <1>3 DEF NoFile, File, Aborted, Outcome

(* What a verifier writes is a file of its own step.                       *)
LEMMA WrittenFiles ==
  ASSUME NEW s \in Nat
  PROVE  \A f \in JsonFile(s) \cup TextFile(s) : f \in File /\ f.by = s
<1>1. [{"reward"} -> Score] \subseteq Scores
  BY TaskAssumption DEF Parsed, Scores
<1>2. NoScores \in Scores
  BY EmptyScores
<1>3. \A f \in [by : {s}, parses : {TRUE}, scores : Scores] : f \in File /\ f.by = s
  BY DEF File
<1>4. \A f \in {[by |-> s, parses |-> FALSE, scores |-> NoScores]} :
        f \in File /\ f.by = s
  <2>1. [by |-> s, parses |-> FALSE, scores |-> NoScores] \in File
    BY <1>2 DEF File
  <2>2. [by |-> s, parses |-> FALSE, scores |-> NoScores].by = s
    OBVIOUS
  <2> QED
    BY <2>1, <2>2
<1>5. JsonFile(s) \cup TextFile(s) \subseteq
        [by : {s}, parses : {TRUE}, scores : Scores]
          \cup {[by |-> s, parses |-> FALSE, scores |-> NoScores]}
  <2> HIDE DEF Scores, NoScores
  <2> QED
    BY <1>1 DEF JsonFile, TextFile
<1> QED
  BY <1>3, <1>4, <1>5

(* The initial state is well typed.                                        *)
LEMMA TypeInvInit == Init => TypeInv
<1> SUFFICES ASSUME Init PROVE TypeInv
  OBVIOUS
<1>1. task.steps \in Nat \ {0}
  BY TaskAssumption DEF Parsed, Init
<1>2. TypeOK
  <2>1. task \in Task /\ pc \in Pc /\ network \in {"agent", "verifier", "detached"}
    BY DEF Init, Pc
  <2>2. step \in 1 .. task.steps
    BY <1>1 DEF Init
  <2>3. json \in File /\ text \in File
    BY EmptyScores DEF Init
  <2>4. outcomes = << >> /\ outcomes \in Seq(Outcome)
    BY DEF Init
  <2>5. result \in {"none", "ok", "failed", "fatal"} /\ kept \in BOOLEAN
    BY DEF Init
  <2> QED
    BY <2>1, <2>2, <2>3, <2>4, <2>5 DEF TypeOK
<1>3. CountOK
  BY <1>1 DEF Init, CountOK
<1> QED
  BY <1>2, <1>3 DEF TypeInv

(* Every step of the program preserves the typing.                         *)
LEMMA TypeInvStep == TypeInv /\ [Next]_vars => TypeInv'
<1> SUFFICES ASSUME TypeInv, [Next]_vars PROVE TypeInv'
  OBVIOUS
<1> USE DEF TypeInv, TypeOK, CountOK, Pc
<1>a. Len(outcomes) \in Nat /\ Aborted \in Outcome /\ NoFile \in File
  BY EmptyScores
<1>b. Visible \in File
  BY DEF Visible
<1>s. \A s : StepStart(s) \in {"setup", "health", "agent"}
  BY DEF StepStart
<1>1. CASE PopulateTests
  BY <1>1, <1>s DEF PopulateTests, Continue, Err
<1>2. CASE RunSetup
  BY <1>2, <1>a DEF RunSetup, Continue, Err, Break
<1>3. CASE RunHealthcheck
  BY <1>3, <1>a DEF RunHealthcheck, Continue, Break
<1>4. CASE RunAgent
  BY <1>4 DEF RunAgent, Continue, Err
<1>5. CASE SwitchToVerifier
  BY <1>5 DEF SwitchToVerifier, Switch, Continue, Err
<1>6. CASE ResetRewardFiles
  BY <1>6, <1>a DEF ResetRewardFiles, Continue
<1>7. CASE RunVerifier
  <2>1. json' \in File /\ text' \in File
    BY <1>7, WrittenFiles DEF RunVerifier
  <2> QED
    BY <1>7, <2>1 DEF RunVerifier, Continue, Err
<1>8. CASE SwitchBack
  BY <1>8 DEF SwitchBack, Switch, Continue, Err
<1>9. CASE ReadReward
  <2> DEFINE outcome == [by |-> Visible.by, scores |-> Visible.scores, aborted |-> FALSE]
  <2>1. outcome \in Outcome
    BY <1>b DEF File, Outcome
  <2>2. Append(outcomes, outcome) \in Seq(Outcome) /\ Len(Append(outcomes, outcome)) = Len(outcomes) + 1
    BY <2>1
  <2> HIDE DEF outcome
  <2>3. /\ outcomes' = Append(outcomes, outcome)
        /\ \/ /\ step < task.steps /\ step' = step + 1
              /\ pc' = StepStart(step + 1) /\ result' = result
           \/ pc' = "done" /\ result' = "ok" /\ step' = step
        /\ UNCHANGED <<task, network, json, text, kept>>
    BY <1>9 DEF ReadReward, Break, outcome
  <2> QED
    BY <1>9, <2>2, <2>3, <1>s DEF ReadReward
<1>10. CASE UNCHANGED vars
  BY <1>10 DEF vars
<1> QED
  BY <1>1, <1>2, <1>3, <1>4, <1>5, <1>6, <1>7, <1>8, <1>9, <1>10 DEF Next

(* The typing holds of every behaviour.                                    *)
LEMMA TypeInvHolds == Spec => []TypeInv
<1> QED
  BY TypeInvInit, TypeInvStep, PTL DEF Spec

(* Type correctness of the steps.                                          *)
THEOREM TypeCorrect == Spec => []TypeOK
<1>1. TypeInv => TypeOK
  BY DEF TypeInv
<1> QED
  BY <1>1, TypeInvHolds, PTL

-----------------------------------------------------------------------------
(* The network of the container between and during the phases.             *)
NetworkInv ==
  /\ pc \in {"populate", "setup", "health", "agent", "switch", "read"} => network = "agent"
  /\ pc \in {"switch", "switchBack"} => SwitchesHere
  /\ pc \in {"reset", "verify", "switchBack"} =>
       network = IF SwitchesHere THEN "verifier" ELSE "agent"

(* Every phase finds the container on its network, in every step: each     *)
(* switch is undone before the next step's agent.                          *)
THEOREM NetworksHeld == Spec => []NetworkPerPhase
<1>1. Init => NetworkInv
  BY DEF Init, NetworkInv
<1>2. TypeInv /\ NetworkInv /\ [Next]_vars => NetworkInv'
  <2> SUFFICES ASSUME TypeInv, NetworkInv, [Next]_vars PROVE NetworkInv'
    OBVIOUS
  <2> USE DEF NetworkInv, SwitchesHere, Continue, Err, Break
  <2>s. \A s : StepStart(s) \in {"setup", "health", "agent"}
    BY DEF StepStart
  <2>1. CASE PopulateTests \/ RunSetup \/ RunHealthcheck \/ RunAgent
    BY <2>1, <2>s DEF PopulateTests, RunSetup, RunHealthcheck, RunAgent
  <2>2. CASE SwitchToVerifier \/ SwitchBack
    BY <2>2 DEF SwitchToVerifier, SwitchBack, Switch
  <2>3. CASE ResetRewardFiles \/ RunVerifier
    BY <2>3 DEF ResetRewardFiles, RunVerifier
  <2>4. CASE ReadReward
    BY <2>4, <2>s DEF ReadReward
  <2>5. CASE UNCHANGED vars
    BY <2>5 DEF vars
  <2> QED
    BY <2>1, <2>2, <2>3, <2>4, <2>5 DEF Next
<1>3. TypeInv /\ NetworkInv => NetworkPerPhase
  <2> SUFFICES ASSUME TypeInv, NetworkInv PROVE NetworkPerPhase
    OBVIOUS
  <2>1. task.separate \in BOOLEAN /\ task.switches \in BOOLEAN
    BY TaskAssumption DEF Parsed, TypeInv, TypeOK
  <2> QED
    BY <2>1 DEF NetworkInv, NetworkPerPhase, SwitchesHere
<1> QED
  BY <1>1, <1>2, <1>3, TypeInvHolds, PTL DEF Spec

-----------------------------------------------------------------------------
(* After a reset that worked, the reward files can only be the work of the *)
(* current step's verifier.                                                *)
RewardInv ==
  /\ ~kept /\ pc \in {"verify", "switchBack", "read"} =>
       json.by \in {0, step} /\ text.by \in {0, step}
  /\ StepRewardIsOwn

(* No step is credited with the reward of an earlier one.                  *)
THEOREM RewardsAreOwn == Spec => []StepRewardIsOwn
<1>1. Init => RewardInv
  BY DEF Init, RewardInv, StepRewardIsOwn
<1>2. TypeInv /\ RewardInv /\ [Next]_vars => RewardInv'
  <2> SUFFICES ASSUME TypeInv, RewardInv, [Next]_vars PROVE RewardInv'
    OBVIOUS
  <2> USE DEF RewardInv, StepRewardIsOwn, Continue, Err
  <2>t. outcomes \in Seq(Outcome) /\ Len(outcomes) \in Nat /\ step \in Nat
    BY DEF TypeInv, TypeOK, CountOK
  <2>s. \A s : StepStart(s) \in {"setup", "health", "agent"}
    BY DEF StepStart
  <2>p. ASSUME NEW outcome \in Outcome, outcomes' = Append(outcomes, outcome),
               Len(outcomes) = step - 1, kept' = kept, ~kept => outcome.by \in {0, step}
        PROVE  StepRewardIsOwn'
    BY <2>p, <2>t
  <2>1. CASE PopulateTests \/ RunAgent \/ SwitchToVerifier
    BY <2>1, <2>s DEF PopulateTests, RunAgent, SwitchToVerifier, Switch
  <2>2. CASE RunSetup \/ RunHealthcheck
    <3>1. CASE outcomes' = outcomes
      BY <2>2, <3>1 DEF RunSetup, RunHealthcheck, Break
    <3>2. CASE outcomes' = Append(outcomes, Aborted) /\ pc' = "done"
      <4>1. Len(outcomes) = step - 1
        BY <2>2 DEF RunSetup, RunHealthcheck, TypeInv, CountOK
      <4>2. kept' = kept
        BY <2>2 DEF RunSetup, RunHealthcheck
      <4>3. Aborted.by = 0
        BY DEF Aborted
      <4> QED
        BY <3>2, <4>1, <4>2, <4>3, <2>p, EmptyScores
    <3> QED
      BY <2>2, <3>1, <3>2 DEF RunSetup, RunHealthcheck, Break
  <2>3. CASE ResetRewardFiles
    BY <2>3 DEF ResetRewardFiles, NoFile
  <2>4. CASE RunVerifier
    <3>1. json'.by \in {json.by, step} /\ text'.by \in {text.by, step}
      BY <2>4, <2>t, WrittenFiles DEF RunVerifier
    <3> QED
      BY <2>4, <3>1 DEF RunVerifier
  <2>5. CASE SwitchBack
    BY <2>5 DEF SwitchBack, Switch
  <2>6. CASE ReadReward
    <3> DEFINE outcome == [by |-> Visible.by, scores |-> Visible.scores, aborted |-> FALSE]
    <3>1. outcome \in Outcome /\ (~kept => outcome.by \in {0, step})
      BY <2>6 DEF ReadReward, Visible, File, Outcome, TypeInv, TypeOK
    <3>2. outcomes' = Append(outcomes, outcome) /\ kept' = kept /\ pc' \notin {"verify", "switchBack", "read"}
      BY <2>6, <2>s DEF ReadReward, Break
    <3>3. Len(outcomes) = step - 1
      BY <2>6 DEF ReadReward, TypeInv, CountOK
    <3> QED
      BY <3>1, <3>2, <3>3, <2>p
  <2>7. CASE UNCHANGED vars
    BY <2>7 DEF vars
  <2> QED
    BY <2>1, <2>2, <2>3, <2>4, <2>5, <2>6, <2>7 DEF Next
<1>3. RewardInv => StepRewardIsOwn
  BY DEF RewardInv
<1> QED
  BY <1>1, <1>2, <1>3, TypeInvHolds, PTL DEF Spec

-----------------------------------------------------------------------------
(* A failed step is the last one pushed, and pushing it ended the loop.    *)
FailedStep(i) == outcomes[i].aborted \/ ~GateMet(task.gate[i], outcomes[i].scores)

StopInv ==
  \A i \in 1 .. Len(outcomes) :
    FailedStep(i) => i = Len(outcomes) /\ pc = "done" /\ step = i

(* A step pushed behind steps that did not fail.                           *)
LEMMA PushKeepsStop ==
  ASSUME TypeInv, StopInv, pc # "done", NEW outcome \in Outcome,
         outcomes' = Append(outcomes, outcome), task' = task,
         outcome.aborted \/ ~GateMet(task.gate[step], outcome.scores) =>
           pc' = "done" /\ step' = step
  PROVE  StopInv'
<1>1. outcomes \in Seq(Outcome) /\ step \in Nat /\ Len(outcomes) = step - 1
  BY DEF TypeInv, TypeOK, CountOK
<1>2. /\ Len(outcomes') = step
      /\ outcomes'[step] = outcome
      /\ \A i \in 1 .. Len(outcomes) : outcomes'[i] = outcomes[i]
  BY <1>1
<1> SUFFICES ASSUME NEW i \in 1 .. Len(outcomes'), FailedStep(i)'
             PROVE  i = Len(outcomes') /\ pc' = "done" /\ step' = i
  BY DEF StopInv
<1>3. CASE i = step
  BY <1>1, <1>2, <1>3 DEF FailedStep, GateMet
<1>4. CASE i \in 1 .. Len(outcomes)
  BY <1>1, <1>2, <1>4 DEF StopInv, FailedStep, GateMet
<1> QED
  BY <1>1, <1>2, <1>3, <1>4

(* No step runs after a failed setup, healthcheck or gate.                 *)
THEOREM StopsAtFirstFailure == Spec => []StopsAtFailure
<1>1. Init => StopInv
  BY DEF Init, StopInv
<1>2. TypeInv /\ StopInv /\ [Next]_vars => StopInv'
  <2> SUFFICES ASSUME TypeInv, StopInv, [Next]_vars PROVE StopInv'
    OBVIOUS
  <2>k. ASSUME UNCHANGED <<task, outcomes>>, pc # "done" \/ UNCHANGED <<pc, step>>
        PROVE  StopInv'
    BY <2>k DEF StopInv, FailedStep, GateMet
  <2>1. CASE PopulateTests \/ RunAgent \/ SwitchToVerifier \/ ResetRewardFiles
               \/ RunVerifier \/ SwitchBack
    BY <2>1, <2>k DEF PopulateTests, RunAgent, SwitchToVerifier, SwitchBack, Switch,
       ResetRewardFiles, RunVerifier, Continue, Err
  <2>2. CASE RunSetup \/ RunHealthcheck
    <3>1. CASE outcomes' = outcomes
      BY <2>2, <3>1, <2>k DEF RunSetup, RunHealthcheck
    <3>2. CASE Break(Aborted)
      <4>1. pc # "done" /\ task' = task /\ step' = step
        BY <2>2 DEF RunSetup, RunHealthcheck
      <4> QED
        BY <3>2, <4>1, PushKeepsStop, EmptyScores DEF Break
    <3> QED
      BY <2>2, <3>1, <3>2 DEF RunSetup, RunHealthcheck, Continue, Err
  <2>3. CASE ReadReward
    <3> DEFINE outcome == [by |-> Visible.by, scores |-> Visible.scores, aborted |-> FALSE]
    <3>1. outcome \in Outcome /\ outcome.aborted = FALSE
      BY DEF Visible, File, Outcome, TypeInv, TypeOK
    <3>2. /\ outcomes' = Append(outcomes, outcome) /\ task' = task /\ pc # "done"
          /\ GateMet(task.gate[step], outcome.scores) \/ (pc' = "done" /\ step' = step)
      BY <2>3 DEF ReadReward, Break
    <3> HIDE DEF outcome
    <3> QED
      BY <3>1, <3>2, PushKeepsStop
  <2>4. CASE UNCHANGED vars
    BY <2>4, <2>k DEF vars
  <2> QED
    BY <2>1, <2>2, <2>3, <2>4 DEF Next
<1>3. TypeInv /\ StopInv => StopsAtFailure
  <2> SUFFICES ASSUME TypeInv, StopInv PROVE StopsAtFailure
    OBVIOUS
  <2>1. DOMAIN outcomes = 1 .. Len(outcomes)
    BY DEF TypeInv, TypeOK
  <2> QED
    BY <2>1 DEF StopInv, FailedStep, StopsAtFailure
<1> QED
  BY <1>1, <1>2, <1>3, TypeInvHolds, PTL DEF Spec

-----------------------------------------------------------------------------
(* A score whose mean is full is full in every step that produced a        *)
(* reward, when no score exceeds full credit.                              *)
Capped == \A i \in DOMAIN outcomes : \A k \in DOMAIN outcomes[i].scores :
            outcomes[i].scores[k] <= Full

LEMMA FullMean ==
  ASSUME TypeOK, Capped, NEW k \in DOMAIN MeanScores, IsFull(MeanScores[k]),
         NEW i \in Produced
  PROVE  k \in DOMAIN outcomes[i].scores /\ outcomes[i].scores[k] = Full
<1> DEFINE f == [j \in Produced |-> ScoreOf(j, k)]
<1>1. IsFiniteSet(Produced)
  <2>1. DOMAIN outcomes = 1 .. Len(outcomes) /\ Len(outcomes) \in Nat
    BY LenProperties DEF TypeOK
  <2>2. IsFiniteSet(DOMAIN outcomes)
    BY <2>1, FS_Interval
  <2> QED
    BY <2>2, FS_Subset DEF Produced
<1>2. Full \in Nat /\ Full # 0 /\ Score \subseteq Nat
  BY TaskAssumption
<1>3. \A j \in Produced : ScoreOf(j, k) \in 0 .. Full
  <2> TAKE j \in Produced
  <2>1. j \in DOMAIN outcomes /\ outcomes[j] \in Outcome
    BY ElementOfSeq, LenProperties DEF Produced, TypeOK
  <2>2. PICK K \in SUBSET Key : outcomes[j].scores \in [K -> Score]
    BY <2>1 DEF Outcome, Scores
  <2>3. k \in DOMAIN outcomes[j].scores => outcomes[j].scores[k] \in 0 .. Full
    BY <1>2, <2>1, <2>2 DEF Capped
  <2> QED
    BY <1>2, <2>3 DEF ScoreOf
<1>4. \A j \in Produced : f[j] \in 0 .. Full
  BY <1>3
<1>5. SumFunctionOnSet(f, Produced) = Full * Cardinality(Produced)
  BY DEF IsFull, MeanScores, SumFunction
<1> HIDE DEF f
<1>6. f[i] = Full
  BY <1>1, <1>2, <1>4, <1>5, SumAtMost
<1>7. ScoreOf(i, k) = Full
  BY <1>6 DEF f
<1> QED
  BY <1>2, <1>7 DEF ScoreOf

(* The mean of the steps hides no failed step: a trial that passes under   *)
(* "mean" passed every step that produced a reward, whatever the number of *)
(* steps and whatever scores they have.                                    *)
THEOREM MeanOfPassedSteps == Spec => []MeanHidesNoFailure
<1>1. TypeOK => MeanHidesNoFailure
  <2> SUFFICES ASSUME TypeOK, TrialPassed, task.strategy = "mean", Capped,
                      NEW i \in Produced
               PROVE  StepPassed(i)
    BY DEF MeanHidesNoFailure, Capped
  <2> DEFINE own == outcomes[i].scores
             step1 == [k \in DOMAIN own |-> [sum |-> own[k], count |-> 1]]
  <2>1. Passes(MeanScores)
    BY DEF TrialPassed, TrialScores
  <2>2. DOMAIN own \subseteq DOMAIN MeanScores
    BY DEF MeanScores, Produced
  <2>3. Full \in Nat
    BY TaskAssumption
  <2>4. ASSUME NEW k \in DOMAIN MeanScores, IsFull(MeanScores[k])
        PROVE  k \in DOMAIN own /\ IsFull(step1[k])
    BY <2>3, <2>4, FullMean DEF IsFull
  <2>5. CASE "reward" \in DOMAIN MeanScores
    <3>1. "reward" \in DOMAIN step1 /\ IsFull(step1["reward"])
      BY <2>1, <2>4, <2>5 DEF Passes
    <3> QED
      BY <3>1 DEF StepPassed, Passes
  <2>6. CASE "reward" \notin DOMAIN MeanScores
    <3>1. "reward" \notin DOMAIN step1
      BY <2>2, <2>6
    <3>2. \A k \in DOMAIN step1 : IsFull(step1[k])
      BY <2>1, <2>2, <2>4, <2>6 DEF Passes
    <3>3. DOMAIN own # {}
      <4>1. outcomes[i] \in Outcome /\ own # NoScores
        BY ElementOfSeq, LenProperties DEF Produced, TypeOK
      <4>2. PICK K \in SUBSET Key : own \in [K -> Score]
        BY <4>1 DEF Outcome, Scores
      <4> QED
        BY <4>1, <4>2 DEF NoScores
    <3>4. step1 # << >>
      BY <3>3
    <3> QED
      BY <3>1, <3>2, <3>4 DEF StepPassed, Passes
  <2> QED
    BY <2>5, <2>6
<1>2. QED
  BY <1>1, TypeCorrect, PTL

=============================================================================
