------------------------------ MODULE Evaluator ------------------------------
(***************************************************************************)
(* The library's evaluator and its telemetry (src/evaluation.rs:           *)
(* Evaluator::evaluate_with_telemetry, validate_cases,                     *)
(* EvaluationSummary::from_results; src/telemetry.rs: TelemetryRecorder).  *)
(*                                                                         *)
(* A caller evaluates batches of cases one after the other, each with a    *)
(* recorder of its own (evaluate) or with one it keeps.  The agent and the *)
(* scorer are the caller's and may answer anything.                        *)
(***************************************************************************)
EXTENDS Naturals, Sequences, SequencesExt, InOrder

CONSTANTS
  CaseId,           \* the ids of cases, in their order; Blank is none
  Full,             \* 1.0, on the scale of the scores
  MaxCases,         \* bound: the cases of a batch
  MaxRuns           \* bound: the evaluations

Blank == 0

ASSUME CaseAssumption ==
  /\ CaseId \subseteq Nat \ {Blank}
  /\ Full \in Nat \ {0}
  /\ {MaxCases, MaxRuns} \subseteq Nat

VARIABLES
  config,     \* RunConfig: stop_on_failure, and whether there is a limit
  recorder,   \* the TelemetryRecorder in use
  pc,         \* "idle" between evaluations
  input,      \* the ids of the cases, as the caller gave them
  todo,       \* the ordered cases not yet evaluated
  results,    \* the CaseResults so far
  first,      \* first_event
  report,     \* what the last evaluation returned
  runs        \* how many evaluations there were

vars == <<config, recorder, pc, input, todo, results, first, report, runs>>

Batch == UNION {[1 .. n -> CaseId \cup {Blank}] : n \in 0 .. MaxCases}

Event == [sequence : Nat \ {0},
          name : {"run.started", "case.started", "case.failed", "case.completed", "run.stopped",
                  "run.completed"},
          id : CaseId \cup {Blank}]
Result == [id : CaseId, score : 0 .. Full]

NoReport == [kind |-> "none"]
Rejected(reason) == [kind |-> "rejected", reason |-> reason]
Failed(reason) == [kind |-> "failed", reason |-> reason]
Report == [kind : {"report"}, cases : Seq(CaseId), results : Seq(Result), passed : Nat,
           failed : Nat, telemetry : Seq(Event)]

TypeOK ==
  /\ config \in [stop : BOOLEAN, limit : BOOLEAN]
  /\ recorder.events \in Seq(Event) /\ recorder.next \in Nat \ {0}
  /\ pc \in {"idle", "case", "summary"}
  /\ input \in Batch
  /\ todo \in Seq(CaseId)
  /\ results \in Seq(Result)
  /\ first \in 0 .. Len(recorder.events)
  /\ report.kind \in {"none", "rejected", "failed"} \/ report \in Report
  /\ runs \in 0 .. MaxRuns

-----------------------------------------------------------------------------
(* TelemetryRecorder.                                                      *)
NewRecorder == [events |-> << >>, next |-> 1]

Record(r, name, id) ==
  [events |-> Append(r.events, [sequence |-> r.next, name |-> name, id |-> id]),
   next |-> r.next + 1]

Init ==
  /\ config \in [stop : BOOLEAN, limit : BOOLEAN]
  /\ recorder = NewRecorder
  /\ pc = "idle"
  /\ input = << >> /\ todo = << >> /\ results = << >>
  /\ first = 0
  /\ report = NoReport
  /\ runs = 0

-----------------------------------------------------------------------------
(* validate_cases looks at the cases in the order given and reports the    *)
(* first problem.                                                          *)
BadAt(batch, i) == batch[i] = Blank \/ \E j \in 1 .. i - 1 : batch[j] = batch[i]
Bad(batch) == {i \in DOMAIN batch : BadAt(batch, i)}
FirstBad(batch) == CHOOSE i \in Bad(batch) : \A j \in Bad(batch) : i <= j

Problem(batch) ==
  IF Bad(batch) = {} THEN "none"
  ELSE IF batch[FirstBad(batch)] = Blank THEN "emptyCaseId" ELSE "duplicateCaseId"

(* Mutated form of Ordered: the caller's order is kept.                    *)
OrderedAsGiven(batch) == batch

(* sort_by on the ids, which differ once the cases are validated.          *)
Ordered(batch) == Ascending(ToSet(batch))

(* The name of the agent is looked at before the cases.                    *)
Reject ==
  /\ pc = "idle" /\ runs < MaxRuns
  /\ \E batch \in Batch, named \in BOOLEAN :
       /\ ~named \/ Problem(batch) # "none"
       /\ input' = batch
       /\ report' = Rejected(IF named THEN Problem(batch) ELSE "emptyAgentName")
  /\ todo' = << >> /\ results' = << >>
  /\ runs' = runs + 1
  /\ UNCHANGED <<config, recorder, pc, first>>

Start ==
  /\ pc = "idle" /\ runs < MaxRuns
  /\ \E batch \in Batch, use \in {recorder, NewRecorder} :
       /\ Problem(batch) = "none"
       /\ input' = batch
       /\ todo' = Ordered(batch)
       /\ first' = Len(use.events)
       /\ recorder' = Record(use, "run.started", Blank)
  /\ results' = << >>
  /\ report' = NoReport
  /\ pc' = "case"
  /\ runs' = runs + 1
  /\ UNCHANGED config

-----------------------------------------------------------------------------
Begun == Record(recorder, "case.started", Head(todo))

(* Mutated form of CaseFails: an invalid score is not recorded.            *)
CaseFailsSilently(reason) ==
  /\ pc = "case" /\ todo # << >>
  /\ reason = "outputTooLong" => config.limit
  /\ recorder' =
       IF reason = "invalidScore" THEN Begun ELSE Record(Begun, "case.failed", Head(todo))
  /\ report' = Failed(reason)
  /\ pc' = "idle"
  /\ UNCHANGED <<config, input, todo, results, first, runs>>

(* The agent fails, the answer is over the limit, or the score is NaN or   *)
(* outside 0.0..=1.0: the evaluation ends without a report.                *)
CaseFails(reason) ==
  /\ pc = "case" /\ todo # << >>
  /\ reason = "outputTooLong" => config.limit
  /\ recorder' = Record(Begun, "case.failed", Head(todo))
  /\ report' = Failed(reason)
  /\ pc' = "idle"
  /\ UNCHANGED <<config, input, todo, results, first, runs>>

Passed(result) == result.score >= Full

CaseScored(score) ==
  /\ pc = "case" /\ todo # << >>
  /\ LET result == [id |-> Head(todo), score |-> score]
         completed == Record(Begun, "case.completed", Head(todo))
         stops == config.stop /\ ~Passed(result)
     IN  /\ results' = Append(results, result)
         /\ recorder' = IF stops THEN Record(completed, "run.stopped", Head(todo)) ELSE completed
         /\ pc' = IF stops THEN "summary" ELSE "case"
  /\ todo' = Tail(todo)
  /\ UNCHANGED <<config, input, first, report, runs>>

(* EvaluationSummary::from_results and the end.  The run id is a hash of   *)
(* the ordered cases, which stand for it here.                             *)
PassedCases == Cardinality({i \in DOMAIN results : Passed(results[i])})

Finish ==
  /\ pc = "summary" \/ (pc = "case" /\ todo = << >>)
  /\ recorder' = Record(recorder, "run.completed", Blank)
  /\ report' = [kind |-> "report", cases |-> Ordered(input), results |-> results,
                passed |-> PassedCases, failed |-> Len(results) - PassedCases,
                telemetry |-> SubSeq(recorder'.events, first + 1, Len(recorder'.events))]
  /\ pc' = "idle"
  /\ UNCHANGED <<config, input, todo, results, first, runs>>

Next ==
  \/ Reject \/ Start \/ Finish
  \/ \E reason \in {"agentFailed", "outputTooLong", "invalidScore"} : CaseFails(reason)
  \/ \E score \in 0 .. Full : CaseScored(score)

Spec == Init /\ [][Next]_vars

-----------------------------------------------------------------------------
HasReport == report.kind = "report"

Named(events, name) == {i \in DOMAIN events : events[i].name = name}

(* A report depends on the set of the cases and not on their order, covers *)
(* all of them or those up to the first failure, counts what it lists, and *)
(* holds the telemetry of this evaluation from its start to its end, with  *)
(* the results in their order.                                             *)
ReportAgrees ==
  HasReport =>
    /\ ToSet(report.cases) = ToSet(input)
    /\ \A i, j \in DOMAIN report.cases : i < j => report.cases[i] < report.cases[j]
    /\ Len(report.results) <= Len(report.cases)
    /\ \A i \in DOMAIN report.results : report.results[i].id = report.cases[i]
    /\ Len(report.results) < Len(report.cases) => config.stop /\ report.failed = 1
    /\ config.stop =>
         \A i \in 1 .. Len(report.results) - 1 : Passed(report.results[i])
    /\ report.passed + report.failed = Len(report.results)
    /\ LET events == report.telemetry
           completed == Named(events, "case.completed")
       IN  /\ Cardinality(completed) = Len(report.results)
           /\ \A i \in completed :
                events[i].id = report.results[Cardinality(completed \cap 1 .. i)].id
           /\ Named(events, "run.started") = {1}
           /\ Named(events, "run.completed") = {Len(events)}

(* Whatever the agent and the scorer do, the recorder a caller keeps shows *)
(* for every evaluation that started how it ended, and for every case.     *)
EveryStartClosed ==
  LET events == recorder.events
      count(name) == Cardinality(Named(events, name))
  IN  /\ pc = "idle" =>
           count("run.started") = count("run.completed") + count("case.failed")
      /\ \A i \in DOMAIN events : events[i].name = "case.started" =>
           /\ i < Len(events)
           /\ events[i + 1].name \in {"case.completed", "case.failed"}
           /\ events[i + 1].id = events[i].id

=============================================================================
