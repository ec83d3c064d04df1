------------------------------ MODULE MultiStep ------------------------------
(***************************************************************************)
(* A multi-step task in its live container (src/sandbox.rs:                *)
(* run_steps_in_container, min_reward_met, aggregate_rewards; src/main.rs: *)
(* read_reward, Rewards::passed).                                          *)
(*                                                                         *)
(* The steps run in order: optional setup, optional healthcheck, agent,    *)
(* verifier.  The verifier may run on another network, to which the        *)
(* container is switched and from which it is switched back, or in a       *)
(* container of its own.  The reward files are reset before each verifier  *)
(* and read after it; a gate on the reward may end the run early, and the  *)
(* rewards of the steps that ran are rolled up into the trial's.           *)
(***************************************************************************)
EXTENDS Naturals, Sequences, FiniteSetsExt

CONSTANTS
  Key,        \* names of scores; the 1-D reward is called "reward"
  Score,      \* the numbers a verifier can write, scaled to integers
  Full,       \* 1.0 on that scale
  Task        \* the multi-step tasks

(* A map of named scores: Rewards, or the thresholds of a MinReward.       *)
Scores == UNION {[K -> Score] : K \in SUBSET Key}
NoScores == [k \in {} |-> 0]

(* What parse_steps accepts, with what the task's files and its            *)
(* environment add.                                                        *)
Parsed(t) ==
  /\ t.steps \in Nat \ {0}
  /\ t.setup \in [1 .. t.steps -> BOOLEAN]      \* ships workdir/setup.sh
  /\ t.health \in [1 .. t.steps -> BOOLEAN]     \* has a healthcheck
  /\ t.gate \in [1 .. t.steps -> Scores]        \* NoScores: no min_reward
  /\ t.strategy \in {"mean", "final"}
  /\ t.separate \in BOOLEAN    \* the verifier has its own environment
  /\ t.switches \in BOOLEAN    \* agent_network differs from verifier_network

ASSUME TaskAssumption ==
  /\ "reward" \in Key
  /\ Score \subseteq Nat
  /\ Full \in Nat \ {0}
  /\ \A each \in Task : Parsed(each)

VARIABLES
  task,       \* the task being run
  pc,         \* where run_steps_in_container is
  step,       \* the number of the current step
  network,    \* the network of the trial's container
  json, text, \* the reward files in /logs/verifier
  outcomes,   \* the StepOutcomes pushed so far
  result,     \* how the function ended
  kept        \* history: a reset of the reward files failed

vars == <<task, pc, step, network, json, text, outcomes, result, kept>>

(* A file: the step whose verifier wrote it, and what it says, if it can   *)
(* be parsed.  by = 0: there is no file.                                   *)
NoFile == [by |-> 0, parses |-> FALSE, scores |-> NoScores]
File == [by : Nat, parses : BOOLEAN, scores : Scores]
JsonFile(s) == [by : {s}, parses : {TRUE}, scores : Scores \ {NoScores}]
               \cup {[by |-> s, parses |-> FALSE, scores |-> NoScores]}
TextFile(s) == [by : {s}, parses : {TRUE}, scores : [{"reward"} -> Score]]
               \cup {[by |-> s, parses |-> FALSE, scores |-> NoScores]}

(* An outcome keeps who wrote the scores it carries.                       *)
Outcome == [by : Nat, scores : Scores, aborted : BOOLEAN]

Pc == {"populate", "setup", "health", "agent", "switch", "reset", "verify", "switchBack",
       "read", "done"}

TypeOK ==
  /\ task \in Task
  /\ pc \in Pc
  /\ step \in 1 .. task.steps
  /\ network \in {"agent", "verifier", "detached"}
  /\ json \in File /\ text \in File
  /\ outcomes \in Seq(Outcome)
  /\ result \in {"none", "ok", "failed", "fatal"}
  /\ kept \in BOOLEAN

Init ==
  /\ task \in Task
  /\ pc = "populate"
  /\ step = 1
  /\ network = "agent"
  /\ json = NoFile /\ text = NoFile
  /\ outcomes = << >>
  /\ result = "none"
  /\ kept = FALSE

-----------------------------------------------------------------------------
StepStart(s) ==
  IF task.setup[s] THEN "setup" ELSE IF task.health[s] THEN "health" ELSE "agent"

SwitchesHere == task.switches /\ ~task.separate

(* `?` on an Err: the whole trial fails and the outcomes are dropped.      *)
Err ==
  /\ pc' = "done"
  /\ result' \in {"failed", "fatal"}
  /\ UNCHANGED outcomes

(* Push the outcome and leave the loop.                                    *)
Break(outcome) ==
  /\ outcomes' = Append(outcomes, outcome)
  /\ pc' = "done"
  /\ result' = "ok"

Continue(label) ==
  /\ pc' = label
  /\ UNCHANGED <<outcomes, result>>

Aborted == [by |-> 0, scores |-> NoScores, aborted |-> TRUE]

(* populate_writable_tests.                                                *)
PopulateTests ==
  /\ pc = "populate"
  /\ Continue(StepStart(1)) \/ Err
  /\ UNCHANGED <<task, step, network, json, text, kept>>

(* run_step_setup: a non-zero status aborts the remaining steps.           *)
RunSetup ==
  /\ pc = "setup"
  /\ \/ Continue(IF task.health[step] THEN "health" ELSE "agent")
     \/ Break(Aborted)
     \/ Err
  /\ UNCHANGED <<task, step, network, json, text, kept>>

(* Any Err of run_healthcheck, an I/O error included, aborts the steps.    *)
RunHealthcheck ==
  /\ pc = "health"
  /\ Continue("agent") \/ Break(Aborted)
  /\ UNCHANGED <<task, step, network, json, text, kept>>

(* run_step_agent, whose status does not matter, and collect_artifacts.    *)
RunAgent ==
  /\ pc = "agent"
  /\ Continue(IF SwitchesHere THEN "switch" ELSE "reset") \/ Err
  /\ UNCHANGED <<task, step, network, json, text, kept>>

(* switch_container_network to the verifier's network and back.            *)
Switch(at, from, to, then) ==
  /\ pc = at
  /\ \/ network' = to /\ Continue(then)
     \/ network' \in {from, "detached"} /\ Err
  /\ UNCHANGED <<task, step, json, text, kept>>

SwitchToVerifier == Switch("switch", "agent", "verifier", "reset")
SwitchBack == Switch("switchBack", "verifier", "agent", "read")

(* Mutated form of ResetRewardFiles: only reward.txt is removed.           *)
ResetTextOnly ==
  /\ pc = "reset"
  /\ text' = NoFile
  /\ Continue("verify")
  /\ UNCHANGED <<task, step, network, json, kept>>

(* reset_reward_files: rm -f in the trial's container, best effort.        *)
ResetRewardFiles ==
  /\ pc = "reset"
  /\ \/ json' = NoFile /\ text' = NoFile /\ UNCHANGED kept
     \/ kept' = TRUE /\ UNCHANGED <<json, text>>
  /\ Continue("verify")
  /\ UNCHANGED <<task, step, network>>

(* Mutated form of RunVerifier: the container stays where it is.           *)
RunVerifierNoReturn ==
  /\ pc = "verify"
  /\ json' \in {json} \cup JsonFile(step)
  /\ text' \in {text} \cup TextFile(step)
  /\ Continue("read") \/ Err
  /\ UNCHANGED <<task, step, network, kept>>

(* The step's test.sh, in the trial's container or in a fresh one: it may  *)
(* write either file, both or none.                                        *)
RunVerifier ==
  /\ pc = "verify"
  /\ json' \in {json} \cup JsonFile(step)
  /\ text' \in {text} \cup TextFile(step)
  /\ Continue(IF SwitchesHere THEN "switchBack" ELSE "read") \/ Err
  /\ UNCHANGED <<task, step, network, kept>>

-----------------------------------------------------------------------------
(* read_reward(..).unwrap_or_default(): reward.json wins, even unreadable. *)
Visible == IF json.by # 0 THEN json ELSE text

(* min_reward_met: a missing score is below every threshold.               *)
GateMet(gate, scores) ==
  \A k \in DOMAIN gate : k \in DOMAIN scores /\ scores[k] >= gate[k]

(* Mutated form of ReadReward: the gate is not looked at.                  *)
ReadRewardUngated ==
  /\ pc = "read"
  /\ LET outcome == [by |-> Visible.by, scores |-> Visible.scores, aborted |-> FALSE]
     IN  IF step < task.steps
           THEN /\ outcomes' = Append(outcomes, outcome)
                /\ step' = step + 1
                /\ pc' = StepStart(step + 1)
                /\ UNCHANGED result
           ELSE Break(outcome) /\ UNCHANGED step
  /\ UNCHANGED <<task, network, json, text, kept>>

ReadReward ==
  /\ pc = "read"
  /\ LET outcome == [by |-> Visible.by, scores |-> Visible.scores, aborted |-> FALSE]
     IN  IF GateMet(task.gate[step], outcome.scores) /\ step < task.steps
           THEN /\ outcomes' = Append(outcomes, outcome)
                /\ step' = step + 1
                /\ pc' = StepStart(step + 1)
                /\ UNCHANGED result
           ELSE Break(outcome) /\ UNCHANGED step
  /\ UNCHANGED <<task, network, json, text, kept>>

Next ==
  \/ PopulateTests \/ RunSetup \/ RunHealthcheck \/ RunAgent \/ SwitchToVerifier
  \/ ResetRewardFiles \/ RunVerifier \/ SwitchBack \/ ReadReward

Spec == Init /\ [][Next]_vars

-----------------------------------------------------------------------------
(* A trial-level score is the fraction sum[k] / count.                     *)
Produced == {i \in DOMAIN outcomes : outcomes[i].scores # NoScores}
ScoreOf(i, k) == IF k \in DOMAIN outcomes[i].scores THEN outcomes[i].scores[k] ELSE 0

(* Mutated form of MeanScores: each score is averaged over the steps that  *)
(* have it.                                                                *)
MeanOfPresent ==
  [k \in UNION {DOMAIN outcomes[i].scores : i \in Produced} |->
     [sum |-> SumFunction([i \in Produced |-> ScoreOf(i, k)]),
      count |-> Cardinality({i \in Produced : k \in DOMAIN outcomes[i].scores})]]

(* Mean: per key over the steps that produced a reward, 0 where a step     *)
(* lacks the key.                                                          *)
MeanScores ==
  [k \in UNION {DOMAIN outcomes[i].scores : i \in Produced} |->
     [sum |-> SumFunction([i \in Produced |-> ScoreOf(i, k)]),
      count |-> Cardinality(Produced)]]

(* Final: the last outcome's reward verbatim.                              *)
FinalScores ==
  [k \in DOMAIN outcomes[Len(outcomes)].scores |->
     [sum |-> outcomes[Len(outcomes)].scores[k], count |-> 1]]

TrialScores == IF task.strategy = "mean" THEN MeanScores ELSE FinalScores

(* Rewards::passed: the "reward" score at full credit, or all of them.     *)
IsFull(fraction) == fraction.sum = Full * fraction.count

Passes(scores) ==
  IF "reward" \in DOMAIN scores
    THEN IsFull(scores["reward"])
    ELSE scores # << >> /\ \A k \in DOMAIN scores : IsFull(scores[k])

TrialPassed == result = "ok" /\ Passes(TrialScores)
StepPassed(i) ==
  Passes([k \in DOMAIN outcomes[i].scores |-> [sum |-> outcomes[i].scores[k], count |-> 1]])

-----------------------------------------------------------------------------
(* The reward of a step was written by that step's verifier, never left    *)
(* over from an earlier step, unless a reset of the reward files failed.   *)
StepRewardIsOwn ==
  \A i \in DOMAIN outcomes : ~kept => outcomes[i].by \in {0, i}

(* The steps stop at the first failed setup, healthcheck or gate: only the *)
(* last outcome can be one, and no later step has begun.                   *)
StopsAtFailure ==
  \A i \in DOMAIN outcomes :
    outcomes[i].aborted \/ ~GateMet(task.gate[i], outcomes[i].scores) =>
      i = Len(outcomes) /\ pc = "done" /\ step = i

(* Every agent phase finds the container on the agent's network and every  *)
(* shared verifier on the verifier's, in every step.                       *)
NetworkPerPhase ==
  /\ pc \in {"setup", "health", "agent"} => network = "agent"
  /\ pc = "verify" /\ ~task.separate =>
       network = IF task.switches THEN "verifier" ELSE "agent"

(* Where no score exceeds full credit, the mean passes only if every step  *)
(* that produced a reward passed on its own.                               *)
MeanHidesNoFailure ==
  TrialPassed /\ task.strategy = "mean"
    /\ (\A i \in DOMAIN outcomes : \A k \in DOMAIN outcomes[i].scores : outcomes[i].scores[k] <= Full)
  => \A i \in Produced : StepPassed(i)

(* "final" takes the reward of the task's last step: a trial passes under  *)
(* it only if the last step ran.                                           *)
FinalIsLastStep ==
  TrialPassed /\ task.strategy = "final" => Len(outcomes) = task.steps

=============================================================================
