----------------------------- MODULE JobReport -------------------------------
(***************************************************************************)
(* The report of a job (src/main.rs: Rewards, record_completed_trial,      *)
(* record_failed_trial, job_result_json and what it calls).                *)
(*                                                                         *)
(* The outcomes of the trials come in the order of their plans.  The       *)
(* report has the job's reward, an average of rounded numbers over all     *)
(* trials; the metrics, an average over the trials that were scored; the   *)
(* same trials grouped by what they scored; and pass@k per task.           *)
(***************************************************************************)
EXTENDS Naturals, Sequences, FiniteSetsExt

CONSTANTS
  Job,          \* the jobs: their tasks and --attempts
  Scoring,      \* the maps of named scores a trial can end with
  FullReward,   \* 1.0, on the scale of the scores
  Resolution,   \* 0.000001, on the same scale
  NaN           \* what Rust parses `nan` into

ASSUME JobReportAssumption ==
  /\ \A each \in Job : each.attempts \in Nat \ {0} /\ each.tasks \in Seq(STRING) \ {<< >>}
  /\ FullReward \in Nat \ {0} /\ Resolution \in Nat \ {0} /\ FullReward % Resolution = 0
  /\ NaN \notin Nat \cup [num : Nat, den : Nat]
  /\ \A scores \in Scoring :
       IsFiniteSet(DOMAIN scores) /\ \A k \in DOMAIN scores : scores[k] \in Nat \cup {NaN}

VARIABLES
  job,        \* the job
  outcomes,   \* the TrialOutcomes, in the order of the plans
  resultJson  \* result.json

jobReportVars == <<job, outcomes, resultJson>>

NotWritten == << >>

(* trial_plans: every attempt of a task, then the next task.               *)
Trials == Len(job.tasks) * job.attempts
TaskOf(i) == job.tasks[((i - 1) \div job.attempts) + 1]

Outcome == [errored : {FALSE}, scores : Scoring] \cup [errored : {TRUE}, scores : {[reward |-> 0]}]

JobReportTypeOK ==
  /\ job \in Job
  /\ outcomes \in Seq(Outcome) /\ Len(outcomes) <= Trials

JobReportInit ==
  /\ job \in Job
  /\ outcomes = << >>
  /\ resultJson = NotWritten

-----------------------------------------------------------------------------
(* Fractions; a sum or a mean with NaN in it is NaN.                       *)
Fraction(n, d) == [num |-> n, den |-> d]
Plus(f, g) == Fraction(f.num * g.den + g.num * f.den, f.den * g.den)

Mean(values) ==
  IF \E i \in DOMAIN values : values[i] = NaN THEN NaN
  ELSE IF DOMAIN values = {} THEN Fraction(0, 1)
  ELSE Fraction(SumFunction(values), Cardinality(DOMAIN values))

Score(scores, k) == IF k \in DOMAIN scores THEN scores[k] ELSE 0

(* Rewards::primary and Rewards::passed.                                   *)
Primary(scores) ==
  IF "reward" \in DOMAIN scores
    THEN IF scores["reward"] = NaN THEN NaN ELSE Fraction(scores["reward"], 1)
    ELSE Mean(scores)

Passes(scores) ==
  IF "reward" \in DOMAIN scores
    THEN scores["reward"] = FullReward
    ELSE DOMAIN scores # {} /\ \A k \in DOMAIN scores : scores[k] = FullReward

(* format_reward: six decimals, as a whole number on the scale.            *)
Display(f) ==
  IF f = NaN THEN NaN
  ELSE Resolution * ((2 * f.num + f.den * Resolution) \div (2 * f.den * Resolution))

-----------------------------------------------------------------------------
Outcomes == DOMAIN outcomes
TrialPassed(i) == ~outcomes[i].errored /\ Passes(outcomes[i].scores)
Scored == {i \in Outcomes : ~outcomes[i].errored}

(* reward_key_union.                                                       *)
Keys == UNION {DOMAIN outcomes[i].scores : i \in Scored}

(* aggregate_reward: the displayed rewards, which it parses again, of all  *)
(* trials; an errored one displays 0.                                      *)
JobReward == Display(Mean([i \in Outcomes |-> Display(Primary(outcomes[i].scores))]))

MetricKeys == IF Cardinality(Keys) <= 1 THEN {"mean"} ELSE Keys

(* Mutated form of Metrics: a score is averaged over the trials having it. *)
MetricsOfPresent ==
  [m \in MetricKeys |->
     LET k == IF m \in Keys \/ Keys = {} THEN m ELSE CHOOSE only \in Keys : TRUE
     IN  Mean([i \in {j \in Scored : k \in DOMAIN outcomes[j].scores} |-> outcomes[i].scores[k]])]

(* reward_metrics_json: over the scored trials, a missing score being 0.   *)
(* With one key at most the entry is called "mean".                        *)
Metrics ==
  [m \in MetricKeys |->
     LET k == IF m \in Keys \/ Keys = {} THEN m ELSE CHOOSE only \in Keys : TRUE
     IN  Mean([i \in Scored |-> Score(outcomes[i].scores, k)])]

(* reward_stats_json: for each key, the trials with each value.            *)
RewardStats ==
  [k \in Keys |->
     LET with == {i \in Scored : k \in DOMAIN outcomes[i].scores}
     IN  [value \in {outcomes[i].scores[k] : i \in with} |->
            {i \in with : outcomes[i].scores[k] = value}]]

(* pass_at_k_json: of jobs whose scored trials all have one score, 0 or 1. *)
Binary ==
  \A i \in Scored :
    LET scores == outcomes[i].scores
    IN  Cardinality(DOMAIN scores) = 1 /\ \A k \in DOMAIN scores : scores[k] \in {0, FullReward}

Tasks == {TaskOf(i) : i \in Scored}
TrialsOf(task) == {i \in Scored : TaskOf(i) = task}
SuccessesOf(task) ==
  {i \in TrialsOf(task) : \A k \in DOMAIN outcomes[i].scores : outcomes[i].scores[k] = FullReward}

(* eligible_k_values.                                                      *)
EligibleK(max) == {k \in 2 .. max : k % 5 = 0 \/ \E e \in 1 .. max : k = 2 ^ e}

(* n (n - 1) ... (n - k + 1), the loop of pass_at_k_for_task.              *)
Falling(n, k) ==
  LET product[i \in 0 .. k] == IF i = 0 THEN 1 ELSE product[i - 1] * (n - (i - 1))
  IN  product[k]

(* Mutated form of PassAtKForTask: the draws are made with replacement.    *)
PassAtKWithReplacement(n, c, k) ==
  IF n - c < k THEN Fraction(1, 1) ELSE Fraction(n ^ k - (n - c) ^ k, n ^ k)

PassAtKForTask(n, c, k) ==
  IF n - c < k THEN Fraction(1, 1)
  ELSE Fraction(Falling(n, k) - Falling(n - c, k), Falling(n, k))

(* Over the tasks with a scored trial: the sum, and how many they are.     *)
PassAtK ==
  IF ~Binary \/ Tasks = {} THEN << >>
  ELSE [k \in EligibleK(Min({Cardinality(TrialsOf(task)) : task \in Tasks})) |->
          [sum |-> MapThenFoldSet(Plus, Fraction(0, 1),
                     LAMBDA task : PassAtKForTask(Cardinality(TrialsOf(task)),
                                                  Cardinality(SuccessesOf(task)), k),
                     LAMBDA set : CHOOSE task \in set : TRUE, Tasks),
           tasks |-> Cardinality(Tasks)]]

-----------------------------------------------------------------------------
(* A trial is recorded with what its verifier wrote, or as an errored one  *)
(* with Rewards::single(0.0).                                              *)
Settle ==
  /\ Len(outcomes) < Trials
  /\ \/ \E scores \in Scoring :
          outcomes' = Append(outcomes, [errored |-> FALSE, scores |-> scores])
     \/ outcomes' = Append(outcomes, [errored |-> TRUE, scores |-> [reward |-> 0]])
  /\ UNCHANGED <<job, resultJson>>

(* job_result_json.                                                        *)
Write ==
  /\ Len(outcomes) = Trials /\ resultJson = NotWritten
  /\ resultJson' = [passed |-> \A i \in Outcomes : TrialPassed(i),
                    reward |-> JobReward,
                    n_trials |-> Cardinality(Scored),
                    metrics |-> Metrics,
                    pass_at_k |-> PassAtK,
                    reward_stats |-> RewardStats]
  /\ UNCHANGED <<job, outcomes>>

JobReportNext == Settle \/ Write
JobReportSpec == JobReportInit /\ [][JobReportNext]_jobReportVars

-----------------------------------------------------------------------------
Written == resultJson # NotWritten

(* pass@k by its meaning: the share of the ways to draw k of the task's    *)
(* scored trials in which some draw passed, averaged over the tasks; there *)
(* are always k trials to draw.                                            *)
Share(task, k) ==
  LET draws == kSubset(k, TrialsOf(task))
  IN  Fraction(Cardinality({d \in draws : d \cap SuccessesOf(task) # {}}), Cardinality(draws))

PassAtKUnbiased ==
  Written => \A k \in DOMAIN resultJson.pass_at_k :
    LET reported == resultJson.pass_at_k[k].sum
        expected == MapThenFoldSet(Plus, Fraction(0, 1), LAMBDA task : Share(task, k),
                                   LAMBDA set : CHOOSE task \in set : TRUE, Tasks)
    IN  /\ reported.den > 0 /\ expected.den > 0
        /\ reported.num * expected.den = expected.num * reported.den

(* The sum of a score over the trials that reward_stats lists for it.      *)
Listed(k) ==
  LET trials == resultJson.reward_stats[k]
  IN  SumFunction([value \in DOMAIN trials |-> value * Cardinality(trials[value])])
Apart(a, b) == IF a > b THEN a - b ELSE b - a

AllNumbers == \A i \in Outcomes : \A k \in DOMAIN outcomes[i].scores : outcomes[i].scores[k] # NaN

(* The parts of a report of numbers agree where they overlap: the mean of  *)
(* a score is that of the trials reward_stats lists for it; the job's      *)
(* reward differs from the mean of the only score by no more than the      *)
(* errored trials and rounding make; and a job that passed has the reward  *)
(* 1.                                                                      *)
AveragesAgree ==
  Written /\ AllNumbers =>
    /\ \A k \in DOMAIN resultJson.reward_stats :
         LET mean == resultJson.metrics[IF k \in DOMAIN resultJson.metrics THEN k ELSE "mean"]
         IN  mean.num * resultJson.n_trials = Listed(k) * mean.den
    /\ Cardinality(Keys) <= 1 =>
         LET mean == resultJson.metrics["mean"]
         IN  Apart(resultJson.reward * Trials * mean.den, mean.num * resultJson.n_trials)
               <= Resolution * Trials * mean.den
    /\ resultJson.passed => resultJson.reward = FullReward

(* Every number that result.json has outside quotes can be read as JSON.   *)
ReportIsJson ==
  Written =>
    /\ AllNumbers
    /\ \A m \in DOMAIN resultJson.metrics : resultJson.metrics[m] # NaN

=============================================================================
