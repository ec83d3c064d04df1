--------------------------- MODULE OneProcessProofs ---------------------------
(***************************************************************************)
(* Proofs about what one process works out on its own: the evaluations of  *)
(* Evaluator, the selection of tasks of Selection and the report of a job  *)
(* of JobReport, for any cases, scores, requests, directories and jobs.    *)
(***************************************************************************)
EXTENDS Evaluator, Selection, JobReport, FiniteFolds, SequenceTheorems

-----------------------------------------------------------------------------
(* What sorting leaves: every finite set of numbers is enumerated in its   *)
(* order, without repetition and completely.                               *)
Rising(s) == \A i, j \in DOMAIN s : i < j => s[i] < s[j]

LEMMA EnumerationExists ==
  ASSUME NEW S, IsFiniteSet(S)
  PROVE  S \in SUBSET Nat => \E s \in [1 .. Cardinality(S) -> S] : Rising(s)
<1> DEFINE Has(T) == \E s \in [1 .. Cardinality(T) -> T] : Rising(s)
           D == {T \in SUBSET S : T \in SUBSET Nat /\ ~Has(T)}
<1> SUFFICES ASSUME D # {} PROVE FALSE
  OBVIOUS
<1>0. \A T \in D : T \in SUBSET S /\ T \in SUBSET Nat /\ ~Has(T)
  OBVIOUS
<1>1. PICK R \in D : \A U \in D : U \subseteq R => U = R
  <2>1. D \subseteq SUBSET S
    OBVIOUS
  <2> HIDE DEF D
  <2> QED
    BY <2>1, LeastSubset
<1> DEFINE n == Cardinality(R)
<1>2. R \in SUBSET Nat /\ R \in SUBSET S /\ IsFiniteSet(R) /\ n \in Nat /\ ~Has(R)
  <2>1. R \in SUBSET S /\ R \in SUBSET Nat /\ ~Has(R)
    BY <1>0, <1>1
  <2> HIDE DEF D, Has
  <2> QED
    BY <2>1, FS_Subset, FS_CardinalityType
<1>3. R # {}
  <2> SUFFICES ASSUME R = {} PROVE FALSE
    OBVIOUS
  <2>1. n = 0
    BY FS_EmptySet
  <2> DEFINE s == [i \in 1 .. 0 |-> 0]
  <2>2. s \in [1 .. 0 -> {}] /\ Rising(s)
    BY DEF Rising
  <2> HIDE DEF s
  <2> QED
    BY <1>2, <2>1, <2>2
<1>4. PICK least \in R : \A x \in R : least <= x
  <2> HIDE DEF D, Has
  <2> QED
    BY <1>2, <1>3, LeastNatural
<1> DEFINE U == R \ {least}
           m == Cardinality(U)
<1>5. m \in Nat /\ n = m + 1
  <2>1. IsFiniteSet(U) /\ m = n - 1
    BY <1>2, <1>4, FS_RemoveElement
  <2>2. m \in Nat
    BY <2>1, FS_CardinalityType
  <2> QED
    BY <1>2, <2>1, <2>2
<1>6. PICK s \in [1 .. m -> U] : Rising(s)
  <2>1. U \in SUBSET S /\ U \in SUBSET Nat /\ U \subseteq R /\ U # R
    BY <1>2, <1>4
  <2>2. U \notin D
    <3> HIDE DEF D, U
    <3> QED
      BY <1>1, <2>1
  <2>3. Has(U)
    <3> HIDE DEF Has, U
    <3> QED
      BY <2>1, <2>2
  <2> QED
    BY <2>3
<1> HIDE DEF m, n, D
<1> DEFINE t == [i \in 1 .. n |-> IF i = 1 THEN least ELSE s[i - 1]]
<1>7. ASSUME NEW i \in 1 .. n, i # 1
      PROVE  i - 1 \in 1 .. m /\ t[i] = s[i - 1] /\ t[i] \in R /\ t[i] # least
  <2>1. i - 1 \in 1 .. m
    BY <1>5, <1>7
  <2> QED
    BY <1>6, <1>7, <2>1
<1>8. t \in [1 .. n -> R]
  <2>1. ASSUME NEW i \in 1 .. n PROVE t[i] \in R
    BY <1>4, <1>7
  <2> QED
    BY <2>1
<1>9. Rising(t)
  <2> SUFFICES ASSUME NEW i \in 1 .. n, NEW j \in 1 .. n, i < j
               PROVE  t[i] < t[j]
    BY DEF Rising
  <2>1. j # 1
    BY <1>5
  <2>2. CASE i = 1
    <3>1. t[i] = least /\ t[j] # least /\ t[j] \in R
      BY <1>7, <2>1, <2>2
    <3> DEFINE v == t[j]
    <3>2. v \in Nat /\ least \in Nat /\ least <= v /\ v # least
      BY <1>2, <1>4, <3>1
    <3> HIDE DEF v
    <3>3. least < v
      BY <3>2
    <3> HIDE DEF t
    <3> QED
      BY <3>1, <3>3 DEF v
  <2>3. CASE i # 1
    <3>1. i - 1 \in 1 .. m /\ j - 1 \in 1 .. m /\ t[i] = s[i - 1] /\ t[j] = s[j - 1]
      BY <1>7, <2>1, <2>3
    <3>2. i - 1 < j - 1
      BY <1>5
    <3>3. DOMAIN s = 1 .. m
      BY <1>6
    <3> HIDE DEF t
    <3> QED
      BY <1>6, <3>1, <3>2, <3>3 DEF Rising
  <2> QED
    BY <2>2, <2>3
<1> QED
  BY <1>2, <1>8, <1>9 DEF n

LEMMA AscendingOrder ==
  ASSUME NEW S \in SUBSET Nat, IsFiniteSet(S)
  PROVE  /\ Ascending(S) \in Seq(S) /\ Len(Ascending(S)) = Cardinality(S)
         /\ Cardinality(S) \in Nat
         /\ \A i, j \in 1 .. Cardinality(S) : i < j => Ascending(S)[i] < Ascending(S)[j]
         /\ \A x \in S : \E i \in 1 .. Cardinality(S) : Ascending(S)[i] = x
<1> DEFINE n == Cardinality(S)
           s == Ascending(S)
<1>1. s \in [1 .. n -> S] /\ Rising(s)
  <2>1. \E r \in [1 .. n -> S] : Rising(r)
    BY EnumerationExists
  <2>2. s = CHOOSE r \in [1 .. n -> S] : Rising(r)
    BY DEF Ascending, Rising
  <2> HIDE DEF s
  <2> QED
    BY <2>1, <2>2
<1>2. n \in Nat
  BY FS_CardinalityType
<1> HIDE DEF s
<1>3. s \in Seq(S) /\ Len(s) = n
  BY <1>1, <1>2, SeqDef
<1>4. s \in Injection(1 .. n, S)
  <2>1. \A i, j \in 1 .. n : s[i] = s[j] => i = j
    <3> SUFFICES ASSUME NEW i \in 1 .. n, NEW j \in 1 .. n, s[i] = s[j], i # j PROVE FALSE
      OBVIOUS
    <3>1. i < j \/ j < i
      BY <1>2
    <3>2. s[i] \in Nat /\ s[j] \in Nat
      BY <1>1
    <3> QED
      BY <1>1, <3>1, <3>2 DEF Rising
  <2> QED
    BY <1>1, <2>1 DEF Injection, IsInjective
<1>5. s \in Surjection(1 .. n, S)
  <2>1. Cardinality(1 .. n) = n
    BY <1>2, FS_Interval
  <2> QED
    BY <1>4, <2>1, FS_Injection
<1>6. \A x \in S : \E i \in 1 .. n : s[i] = x
  BY <1>5 DEF Surjection
<1> QED
  BY <1>1, <1>2, <1>3, <1>6 DEF s, Rising

-----------------------------------------------------------------------------
(* Evaluations: the telemetry.                                             *)
RecorderOK(r) == r.events \in Seq(Event) /\ r.next \in Nat \ {0}

EventName ==
  {"run.started", "case.started", "case.failed", "case.completed", "run.stopped", "run.completed"}

Entry(r, name, id) == [sequence |-> r.next, name |-> name, id |-> id]

LEMMA NewRecorderOK == RecorderOK(NewRecorder) /\ Len(NewRecorder.events) = 0
BY EmptySeq DEF NewRecorder, RecorderOK

(* Recording appends one event and changes no earlier one.                 *)
LEMMA Recorded ==
  ASSUME NEW r, RecorderOK(r), NEW name \in EventName, NEW id \in CaseId \cup {Blank}
  PROVE  LET s == Record(r, name, id)
         IN  /\ RecorderOK(s)
             /\ s.events = Append(r.events, Entry(r, name, id)) /\ Entry(r, name, id) \in Event
             /\ Len(r.events) \in Nat /\ Len(s.events) = Len(r.events) + 1
             /\ \A i \in 1 .. Len(r.events) : s.events[i] = r.events[i]
             /\ s.events[Len(s.events)].name = name /\ s.events[Len(s.events)].id = id
<1> DEFINE e == Entry(r, name, id)
<1>1. e \in Event /\ e.name = name /\ e.id = id
  BY DEF Entry, Event, EventName, RecorderOK
<1>2. /\ Append(r.events, e) \in Seq(Event)
      /\ Len(r.events) \in Nat /\ Len(Append(r.events, e)) = Len(r.events) + 1
      /\ \A i \in 1 .. Len(r.events) : Append(r.events, e)[i] = r.events[i]
      /\ Append(r.events, e)[Len(r.events) + 1] = e
  BY <1>1, AppendProperties, LenProperties DEF RecorderOK
<1>3. r.next + 1 \in Nat \ {0}
  BY DEF RecorderOK
<1>4. Record(r, name, id).events = Append(r.events, e) /\ Record(r, name, id).next = r.next + 1
  BY DEF Record, Entry
<1> HIDE DEF e
<1> QED
  BY <1>1, <1>2, <1>3, <1>4 DEF RecorderOK, e

(* How many events of each name there are.                                 *)
Count(events, name) == Cardinality(Named(events, name))

LEMMA NamedFinite ==
  ASSUME NEW events \in Seq(Event), NEW name
  PROVE  IsFiniteSet(Named(events, name)) /\ Count(events, name) \in Nat
<1>1. Named(events, name) \in SUBSET (1 .. Len(events)) /\ Len(events) \in Nat
  BY LenProperties DEF Named
<1>2. IsFiniteSet(1 .. Len(events))
  BY <1>1, FS_Interval
<1> QED
  BY <1>1, <1>2, FS_Subset, FS_CardinalityType DEF Count

LEMMA CountEmpty ==
  ASSUME NEW name PROVE Count(NewRecorder.events, name) = 0
<1>1. Named(NewRecorder.events, name) = {}
  BY DEF Named, NewRecorder
<1> QED
  BY <1>1, FS_EmptySet DEF Count

LEMMA CountAppend ==
  ASSUME NEW events \in Seq(Event), NEW e \in Event, NEW name
  PROVE  Count(Append(events, e), name) =
           IF e.name = name THEN Count(events, name) + 1 ELSE Count(events, name)
<1> DEFINE longer == Append(events, e)
           n == Len(events)
<1>1. /\ longer \in Seq(Event) /\ n \in Nat /\ Len(longer) = n + 1
      /\ \A i \in 1 .. n : longer[i] = events[i]
      /\ longer[n + 1] = e
      /\ DOMAIN events = 1 .. n /\ DOMAIN longer = 1 .. n + 1
  BY AppendProperties, LenProperties
<1> HIDE DEF longer, n
<1>2. Named(longer, name) =
        IF e.name = name THEN Named(events, name) \cup {n + 1} ELSE Named(events, name)
  <2>1. ASSUME NEW i PROVE i \in Named(longer, name) <=>
                             (i \in Named(events, name) \/ (i = n + 1 /\ e.name = name))
    <3>1. i \in 1 .. n + 1 <=> i \in 1 .. n \/ i = n + 1
      BY <1>1
    <3>2. n + 1 \notin 1 .. n
      BY <1>1
    <3> QED
      BY <1>1, <3>1, <3>2 DEF Named
  <2> QED
    BY <2>1
<1>3. n + 1 \notin Named(events, name)
  <2>1. n + 1 \notin 1 .. n
    BY <1>1
  <2> QED
    BY <1>1, <2>1 DEF Named
<1>4. IsFiniteSet(Named(events, name)) /\ Count(events, name) \in Nat
  BY NamedFinite
<1>5. CASE e.name = name
  <2>1. Named(longer, name) = Named(events, name) \cup {n + 1}
    BY <1>2, <1>5
  <2> QED
    BY <1>3, <1>4, <1>5, <2>1, FS_AddElement DEF Count, longer
<1>6. CASE e.name # name
  BY <1>2, <1>6 DEF Count, longer
<1> QED
  BY <1>5, <1>6

LEMMA CountRecord ==
  ASSUME NEW r, RecorderOK(r), NEW name \in EventName, NEW id \in CaseId \cup {Blank}, NEW other
  PROVE  /\ Count(Record(r, name, id).events, other) =
              IF other = name THEN Count(r.events, other) + 1 ELSE Count(r.events, other)
         /\ Count(r.events, other) \in Nat
<1>1. /\ Record(r, name, id).events = Append(r.events, Entry(r, name, id))
      /\ Entry(r, name, id) \in Event /\ Entry(r, name, id).name = name
  BY Recorded DEF Entry
<1>2. r.events \in Seq(Event)
  BY DEF RecorderOK
<1> QED
  BY <1>1, <1>2, CountAppend, NamedFinite

(* As many evaluations are open as have started and not ended.             *)
Balanced(events, open) ==
  Count(events, "run.started") =
    Count(events, "run.completed") + Count(events, "case.failed") + open

LEMMA BalancedRecord ==
  ASSUME NEW r, RecorderOK(r), NEW name \in EventName, NEW id \in CaseId \cup {Blank},
         NEW open \in Int, Balanced(r.events, open)
  PROVE  Balanced(Record(r, name, id).events,
                  open + (IF name = "run.started" THEN 1
                          ELSE IF name \in {"run.completed", "case.failed"} THEN -1 ELSE 0))
<1> DEFINE s == Record(r, name, id).events
<1>1. \A other : /\ Count(s, other) = IF other = name THEN Count(r.events, other) + 1
                                      ELSE Count(r.events, other)
                 /\ Count(r.events, other) \in Nat
  BY CountRecord
<1> HIDE DEF s
<1>2. Balanced(s, open + (IF name = "run.started" THEN 1
                          ELSE IF name \in {"run.completed", "case.failed"} THEN -1 ELSE 0))
  BY <1>1 DEF Balanced
<1> QED
  BY <1>2 DEF s

(* Every start of a case is followed by its end.                           *)
Paired(events) ==
  \A i \in DOMAIN events : events[i].name = "case.started" =>
    /\ i < Len(events)
    /\ events[i + 1].name \in {"case.completed", "case.failed"}
    /\ events[i + 1].id = events[i].id

LEMMA PairedRecord ==
  ASSUME NEW r, RecorderOK(r), Paired(r.events), NEW name \in EventName \ {"case.started"},
         NEW id \in CaseId \cup {Blank}
  PROVE  Paired(Record(r, name, id).events)
<1> DEFINE old == r.events
           new == Record(r, name, id).events
<1>1. /\ new \in Seq(Event) /\ Len(old) \in Nat /\ Len(new) = Len(old) + 1
      /\ \A i \in 1 .. Len(old) : new[i] = old[i]
      /\ new[Len(new)].name = name
  BY Recorded DEF RecorderOK
<1>2. old \in Seq(Event) /\ DOMAIN old = 1 .. Len(old) /\ DOMAIN new = 1 .. Len(new)
  BY <1>1, LenProperties DEF RecorderOK
<1>3. Paired(old)
  OBVIOUS
<1> HIDE DEF old, new
<1>4. ASSUME NEW i \in DOMAIN new, new[i].name = "case.started"
      PROVE  /\ i < Len(new)
             /\ new[i + 1].name \in {"case.completed", "case.failed"}
             /\ new[i + 1].id = new[i].id
  <2>1. i \in 1 .. Len(old)
    BY <1>1, <1>2, <1>4
  <2>2. i < Len(old) /\ i + 1 \in 1 .. Len(old)
    BY <1>1, <1>2, <1>3, <1>4, <2>1 DEF Paired
  <2> QED
    BY <1>1, <1>2, <1>3, <1>4, <2>1, <2>2 DEF Paired
<1> QED
  BY <1>4 DEF Paired, new

LEMMA PairRecorded ==
  ASSUME NEW r, RecorderOK(r), Paired(r.events), NEW id \in CaseId,
         NEW name \in {"case.completed", "case.failed"}
  PROVE  Paired(Record(Record(r, "case.started", id), name, id).events)
<1> DEFINE s == Record(r, "case.started", id)
           old == r.events
           middle == s.events
           new == Record(s, name, id).events
<1>1. /\ RecorderOK(s) /\ middle \in Seq(Event) /\ Len(old) \in Nat /\ Len(middle) = Len(old) + 1
      /\ \A i \in 1 .. Len(old) : middle[i] = old[i]
      /\ middle[Len(middle)].name = "case.started" /\ middle[Len(middle)].id = id
  BY Recorded DEF RecorderOK, EventName
<1> HIDE DEF s
<1>2. /\ new \in Seq(Event) /\ Len(middle) \in Nat /\ Len(new) = Len(middle) + 1
      /\ \A i \in 1 .. Len(middle) : new[i] = middle[i]
      /\ new[Len(new)].name = name /\ new[Len(new)].id = id
  <2>1. /\ name \in EventName /\ id \in CaseId \cup {Blank}
    BY DEF EventName
  <2>2. /\ RecorderOK(Record(s, name, id))
        /\ Len(middle) \in Nat /\ Len(new) = Len(middle) + 1
        /\ \A i \in 1 .. Len(middle) : new[i] = middle[i]
        /\ new[Len(new)].name = name /\ new[Len(new)].id = id
    BY <1>1, <2>1, Recorded
  <2> QED
    BY <2>2 DEF RecorderOK
<1>3. old \in Seq(Event) /\ DOMAIN old = 1 .. Len(old) /\ DOMAIN new = 1 .. Len(new)
  BY <1>1, <1>2, LenProperties DEF RecorderOK
<1>4. Paired(old)
  OBVIOUS
<1> HIDE DEF old, middle, new
<1>5. ASSUME NEW i \in DOMAIN new, new[i].name = "case.started"
      PROVE  /\ i < Len(new)
             /\ new[i + 1].name \in {"case.completed", "case.failed"}
             /\ new[i + 1].id = new[i].id
  <2>1. i \in 1 .. Len(old) + 2 /\ i # Len(old) + 2
    BY <1>1, <1>2, <1>3, <1>5
  <2>2. CASE i = Len(old) + 1
    BY <1>1, <1>2, <2>2
  <2>3. CASE i \in 1 .. Len(old)
    <3>1. new[i] = old[i]
      BY <1>1, <1>2, <2>3
    <3>2. i < Len(old) /\ i + 1 \in 1 .. Len(old)
      BY <1>1, <1>3, <1>4, <1>5, <2>3, <3>1 DEF Paired
    <3>3. new[i + 1] = old[i + 1]
      BY <1>1, <1>2, <3>2
    <3> QED
      BY <1>1, <1>2, <1>3, <1>4, <1>5, <2>3, <3>1, <3>2, <3>3 DEF Paired
  <2> QED
    BY <1>1, <2>1, <2>2, <2>3
<1> QED
  BY <1>5 DEF Paired, new, s

-----------------------------------------------------------------------------
(* Evaluations: the cases.                                                 *)
LEMMA OrderedCases ==
  ASSUME NEW batch \in Batch
  PROVE  LET s == Ordered(batch)
         IN  /\ s \in Seq(Nat) /\ Len(s) \in Nat /\ DOMAIN s = 1 .. Len(s)
             /\ \A i, j \in DOMAIN s : i < j => s[i] < s[j]
             /\ ToSet(s) = ToSet(batch)
             /\ Problem(batch) = "none" => s \in Seq(CaseId)
<1> DEFINE all == ToSet(batch)
           s == Ordered(batch)
<1>1. PICK n \in 0 .. MaxCases : batch \in [1 .. n -> CaseId \cup {Blank}]
  BY DEF Batch
<1>2. n \in Nat /\ DOMAIN batch = 1 .. n
  BY <1>1, CaseAssumption
<1>3. all \in SUBSET (CaseId \cup {Blank}) /\ CaseId \subseteq Nat /\ Blank \in Nat
  BY <1>1, <1>2, CaseAssumption DEF ToSet, Blank
<1>4. IsFiniteSet(all)
  <2>1. batch \in Surjection(1 .. n, all)
    BY <1>1, <1>2 DEF Surjection, ToSet
  <2> HIDE DEF all
  <2> QED
    BY <1>2, <2>1, FS_Interval, FS_Surjection
<1>5. /\ s \in Seq(all) /\ Len(s) = Cardinality(all) /\ Cardinality(all) \in Nat
      /\ \A i, j \in 1 .. Len(s) : i < j => s[i] < s[j]
      /\ \A x \in all : \E i \in 1 .. Len(s) : s[i] = x
  <2>1. all \in SUBSET Nat /\ s = Ascending(all)
    BY <1>3 DEF Ordered
  <2>2. s \in [1 .. Cardinality(all) -> all]
    <3>1. IsFiniteSet(all) => \E r \in [1 .. Cardinality(all) -> all] : Rising(r)
      <4> HIDE DEF all, s
      <4> QED
        BY <2>1, EnumerationExists
    <3> HIDE DEF all, s
    <3> QED
      BY <1>4, <2>1, <3>1 DEF Ascending, Rising
  <2>3. Cardinality(all) \in Nat
    BY <1>4, FS_CardinalityType
  <2> HIDE DEF all, s
  <2> QED
    BY <1>4, <2>1, <2>2, <2>3, AscendingOrder, SeqDef
<1> HIDE DEF s
<1>6. DOMAIN s = 1 .. Len(s) /\ \A i \in 1 .. Len(s) : s[i] \in all
  BY <1>5, LenProperties, ElementOfSeq
<1>7. ToSet(s) = all
  BY <1>5, <1>6 DEF ToSet
<1>8. ASSUME Problem(batch) = "none" PROVE all \subseteq CaseId
  <2>1. Bad(batch) = {}
    BY <1>8 DEF Problem
  <2>2. \A i \in DOMAIN batch : batch[i] # Blank
    BY <2>1 DEF Bad, BadAt
  <2> QED
    BY <1>1, <1>2, <2>2 DEF ToSet
<1>9. all \subseteq Nat
  BY <1>3, CaseAssumption
<1>10. s \in Seq(Nat) /\ (Problem(batch) = "none" => s \in Seq(CaseId))
  <2> HIDE DEF all
  <2> QED
    BY <1>5, <1>8, <1>9, SeqMonotonic
<1> QED
  BY <1>5, <1>6, <1>7, <1>10 DEF s

Cases == Ordered(input)

(* While an evaluation is under way the results are those of the first     *)
(* cases, the others are still to do, and only the last one may have been  *)
(* failed if the evaluation stops at a failure.                            *)
Underway ==
  pc # "idle" =>
    /\ Problem(input) = "none"
    /\ report = NoReport
    /\ Len(results) + Len(todo) = Len(Cases)
    /\ \A i \in 1 .. Len(results) : results[i].id = Cases[i]
    /\ \A i \in 1 .. Len(todo) : todo[i] = Cases[Len(results) + i]
    /\ config.stop =>
         \A i \in 1 .. Len(results) : Passed(results[i]) \/ (pc = "summary" /\ i = Len(results))
    /\ pc = "summary" => config.stop /\ results # << >> /\ ~Passed(results[Len(results)])

(* Its events are the start, two for every result, and the early stop.     *)
Logged ==
  pc # "idle" =>
    LET events == recorder.events
    IN  /\ Len(events) = first + 1 + 2 * Len(results) + (IF pc = "summary" THEN 1 ELSE 0)
        /\ events[first + 1].name = "run.started"
        /\ \A i \in 1 .. Len(results) :
             /\ events[first + 2 * i].name = "case.started"
             /\ events[first + 2 * i + 1].name = "case.completed"
             /\ events[first + 2 * i + 1].id = results[i].id
        /\ pc = "summary" => events[Len(events)].name = "run.stopped"

Closed ==
  /\ Balanced(recorder.events, IF pc = "idle" THEN 0 ELSE 1)
  /\ Paired(recorder.events)

EvaluatorInv == TypeOK /\ Underway /\ Logged /\ Closed /\ ReportAgrees

LEMMA ClosedShown == TypeOK /\ Closed => EveryStartClosed
<1> SUFFICES ASSUME TypeOK, Closed PROVE EveryStartClosed
  OBVIOUS
<1>1. recorder.events \in Seq(Event)
  BY DEF TypeOK
<1>2. \A name : Count(recorder.events, name) \in Nat
  BY <1>1, NamedFinite
<1>3. pc = "idle" => Count(recorder.events, "run.started") =
        Count(recorder.events, "run.completed") + Count(recorder.events, "case.failed")
  BY <1>2 DEF Closed, Balanced
<1> QED
  BY <1>3 DEF Closed, Count, Paired, EveryStartClosed

LEMMA TypedRecorder == TypeOK => RecorderOK(recorder)
BY DEF TypeOK, RecorderOK

LEMMA EvaluatorInvInit == Init => EvaluatorInv
<1> SUFFICES ASSUME Init PROVE EvaluatorInv
  OBVIOUS
<1>1. recorder = NewRecorder /\ RecorderOK(recorder) /\ Len(recorder.events) = 0
  BY NewRecorderOK DEF Init
<1>2. TypeOK
  <2>1. << >> \in Batch
    <3>1. 0 \in 0 .. MaxCases /\ << >> \in [1 .. 0 -> CaseId \cup {Blank}]
      BY CaseAssumption
    <3> QED
      BY <3>1 DEF Batch
  <2>2. recorder.events \in Seq(Event) /\ recorder.next \in Nat \ {0}
    BY <1>1 DEF RecorderOK
  <2>3. << >> \in Seq(CaseId) /\ << >> \in Seq(Result)
    BY EmptySeq
  <2>4. 0 \in 0 .. Len(recorder.events) /\ 0 \in 0 .. MaxRuns
    BY <1>1, CaseAssumption
  <2> QED
    BY <2>1, <2>2, <2>3, <2>4 DEF Init, TypeOK, NoReport
<1>3. Closed
  <2>1. \A name : Count(recorder.events, name) = 0
    BY <1>1, CountEmpty
  <2>2. Paired(recorder.events)
    BY <1>1 DEF NewRecorder, Paired
  <2> QED
    BY <2>1, <2>2 DEF Closed, Balanced, Init
<1> QED
  BY <1>2, <1>3 DEF EvaluatorInv, Underway, Logged, ReportAgrees, HasReport, Init, NoReport

-----------------------------------------------------------------------------
(* Evaluations: the steps.                                                 *)
LEMMA RejectKeeps ==
  ASSUME EvaluatorInv, Reject PROVE EvaluatorInv'
<1>1. TypeOK'
  <2>1. runs' \in 0 .. MaxRuns
    BY CaseAssumption DEF EvaluatorInv, TypeOK, Reject
  <2>2. << >> \in Seq(CaseId) /\ << >> \in Seq(Result)
    BY EmptySeq
  <2>3. input' \in Batch /\ report'.kind = "rejected" /\ todo' = << >> /\ results' = << >>
    BY DEF Reject, Rejected
  <2> QED
    BY <2>1, <2>2, <2>3 DEF EvaluatorInv, TypeOK, Reject
<1>2. Underway' /\ Logged' /\ Closed'
  BY DEF EvaluatorInv, Underway, Logged, Closed, Reject
<1>3. ReportAgrees'
  BY DEF ReportAgrees, HasReport, Reject, Rejected
<1> QED
  BY <1>1, <1>2, <1>3 DEF EvaluatorInv

LEMMA StartKeeps ==
  ASSUME EvaluatorInv, Start PROVE EvaluatorInv'
<1>1. PICK batch \in Batch, use \in {recorder, NewRecorder} :
        /\ Problem(batch) = "none"
        /\ input' = batch
        /\ todo' = Ordered(batch)
        /\ first' = Len(use.events)
        /\ recorder' = Record(use, "run.started", Blank)
  BY DEF Start
<1>2. /\ results' = << >> /\ report' = NoReport /\ pc = "idle" /\ pc' = "case"
      /\ runs' = runs + 1 /\ runs < MaxRuns /\ config' = config
  BY DEF Start
<1>3. RecorderOK(use) /\ Balanced(use.events, 0) /\ Paired(use.events)
  <2>1. CASE use = recorder
    BY <1>2, <2>1, TypedRecorder DEF EvaluatorInv, Closed
  <2>2. CASE use = NewRecorder
    <3>1. Balanced(NewRecorder.events, 0)
      <4>1. \A name : Count(NewRecorder.events, name) = 0
        BY CountEmpty
      <4> QED
        BY <4>1 DEF Balanced
    <3>2. Paired(NewRecorder.events)
      BY DEF NewRecorder, Paired
    <3> QED
      BY <2>2, <3>1, <3>2, NewRecorderOK
  <2> QED
    BY <2>1, <2>2
<1>4. "run.started" \in EventName \ {"case.started"} /\ Blank \in CaseId \cup {Blank}
  BY DEF EventName
<1>5. /\ RecorderOK(recorder') /\ Len(use.events) \in Nat
      /\ Len(recorder'.events) = Len(use.events) + 1
      /\ recorder'.events[Len(recorder'.events)].name = "run.started"
  BY <1>1, <1>3, <1>4, Recorded
<1>6. TypeOK'
  <2>1. runs' \in 0 .. MaxRuns
    BY <1>2, CaseAssumption DEF EvaluatorInv, TypeOK
  <2>2. << >> \in Seq(Result)
    BY EmptySeq
  <2>3. todo' \in Seq(CaseId)
    BY <1>1, OrderedCases
  <2>4. first' \in 0 .. Len(recorder'.events)
    BY <1>1, <1>5
  <2>5. input' \in Batch /\ report'.kind = "none"
    BY <1>1, <1>2 DEF NoReport
  <2> QED
    BY <1>2, <1>5, <2>1, <2>2, <2>3, <2>4, <2>5 DEF EvaluatorInv, TypeOK, RecorderOK
<1>7. Underway'
  <2>1. Cases' = todo' /\ Len(todo') \in Nat /\ DOMAIN todo' = 1 .. Len(todo')
    BY <1>1, OrderedCases DEF Cases
  <2>2. Len(results') = 0
    BY <1>2
  <2> QED
    BY <1>1, <1>2, <2>1, <2>2 DEF Underway
<1>8. Logged'
  <2>1. Len(results') = 0 /\ first' + 1 = Len(recorder'.events)
    BY <1>1, <1>2, <1>5
  <2>2. Len(recorder'.events) = first' + 1 + 2 * Len(results') + 0
    BY <1>1, <1>5, <2>1
  <2> QED
    BY <1>2, <1>5, <2>1, <2>2 DEF Logged
<1>9. Closed'
  <2>1. Balanced(recorder'.events, 0 + 1)
    BY <1>1, <1>3, <1>4, BalancedRecord
  <2>2. Paired(recorder'.events)
    BY <1>1, <1>3, <1>4, PairedRecord
  <2> QED
    BY <1>2, <2>1, <2>2 DEF Closed
<1>10. ReportAgrees'
  BY <1>2 DEF ReportAgrees, HasReport, NoReport
<1> QED
  BY <1>6, <1>7, <1>8, <1>9, <1>10 DEF EvaluatorInv

LEMMA CaseFailsKeeps ==
  ASSUME EvaluatorInv, NEW reason \in {"agentFailed", "outputTooLong", "invalidScore"},
         CaseFails(reason)
  PROVE  EvaluatorInv'
<1>1. /\ pc = "case" /\ todo # << >> /\ pc' = "idle"
      /\ recorder' = Record(Begun, "case.failed", Head(todo))
      /\ report' = Failed(reason)
      /\ UNCHANGED <<config, input, todo, results, first, runs>>
  BY DEF CaseFails
<1>2. Head(todo) \in CaseId
  BY <1>1, HeadTailProperties DEF EvaluatorInv, TypeOK
<1>3. /\ RecorderOK(recorder) /\ Balanced(recorder.events, 1) /\ Paired(recorder.events)
      /\ first \in 0 .. Len(recorder.events)
  BY <1>1, TypedRecorder DEF EvaluatorInv, Closed, TypeOK
<1>4. /\ "case.started" \in EventName /\ "case.failed" \in EventName
      /\ Head(todo) \in CaseId \cup {Blank}
  BY <1>2 DEF EventName
<1>5. /\ RecorderOK(Begun) /\ Len(recorder.events) \in Nat
      /\ Len(Begun.events) = Len(recorder.events) + 1
  BY <1>3, <1>4, Recorded DEF Begun
<1>6. RecorderOK(recorder') /\ Len(recorder'.events) = Len(Begun.events) + 1
  BY <1>1, <1>4, <1>5, Recorded
<1>7. TypeOK'
  <2>1. first' \in 0 .. Len(recorder'.events)
    BY <1>1, <1>3, <1>5, <1>6
  <2>2. report'.kind = "failed"
    BY <1>1 DEF Failed
  <2> QED
    BY <1>1, <1>6, <2>1, <2>2 DEF EvaluatorInv, TypeOK, RecorderOK
<1>8. Closed'
  <2>1. Balanced(Begun.events, 1 + 0)
    BY <1>3, <1>4, BalancedRecord DEF Begun
  <2>2. Balanced(recorder'.events, 1 + (-1))
    BY <1>1, <1>4, <1>5, <2>1, BalancedRecord
  <2>3. Paired(recorder'.events)
    BY <1>1, <1>2, <1>3, PairRecorded DEF Begun
  <2> QED
    BY <1>1, <2>2, <2>3 DEF Closed
<1>9. Underway' /\ Logged'
  BY <1>1 DEF Underway, Logged
<1>10. ReportAgrees'
  BY <1>1 DEF ReportAgrees, HasReport, Failed
<1> QED
  BY <1>7, <1>8, <1>9, <1>10 DEF EvaluatorInv

(* What a scored case appends: its start and its completion, and perhaps   *)
(* the stop.                                                               *)
CompletedLog(h) == Record(Record(recorder, "case.started", h), "case.completed", h)
StoppedLog(h) == Record(CompletedLog(h), "run.stopped", h)

LEMMA ScoredLog ==
  ASSUME EvaluatorInv, pc = "case", NEW h \in CaseId
  PROVE  LET n == Len(recorder.events)
             completed == CompletedLog(h)
             stopped == StoppedLog(h)
         IN  /\ RecorderOK(completed) /\ n \in Nat /\ Len(completed.events) = n + 2
             /\ \A i \in 1 .. n : completed.events[i] = recorder.events[i]
             /\ completed.events[n + 1].name = "case.started"
             /\ completed.events[n + 2].name = "case.completed"
             /\ completed.events[n + 2].id = h
             /\ Balanced(completed.events, 1) /\ Paired(completed.events)
             /\ RecorderOK(stopped) /\ Len(stopped.events) = n + 3
             /\ \A i \in 1 .. n + 2 : stopped.events[i] = completed.events[i]
             /\ stopped.events[n + 3].name = "run.stopped"
             /\ Balanced(stopped.events, 1) /\ Paired(stopped.events)
<1> DEFINE begun == Record(recorder, "case.started", h)
           completed == Record(begun, "case.completed", h)
           stopped == Record(completed, "run.stopped", h)
           n == Len(recorder.events)
<1>1. /\ "case.started" \in EventName /\ "case.completed" \in EventName
      /\ "run.stopped" \in EventName \ {"case.started"}
      /\ h \in CaseId \cup {Blank}
  BY DEF EventName
<1>2. RecorderOK(recorder) /\ Balanced(recorder.events, 1) /\ Paired(recorder.events)
  BY TypedRecorder DEF EvaluatorInv, Closed
<1>3. /\ RecorderOK(begun) /\ n \in Nat /\ Len(begun.events) = n + 1
      /\ \A i \in 1 .. n : begun.events[i] = recorder.events[i]
      /\ begun.events[Len(begun.events)].name = "case.started"
  BY <1>1, <1>2, Recorded
<1>4. Balanced(begun.events, 1 + 0)
  BY <1>1, <1>2, BalancedRecord
<1>5. Paired(completed.events)
  BY <1>2, PairRecorded
<1> HIDE DEF begun
<1>6. /\ RecorderOK(completed) /\ Len(completed.events) = Len(begun.events) + 1
      /\ \A i \in 1 .. Len(begun.events) : completed.events[i] = begun.events[i]
      /\ completed.events[Len(completed.events)].name = "case.completed"
      /\ completed.events[Len(completed.events)].id = h
  BY <1>1, <1>3, Recorded
<1>7. Balanced(completed.events, 1 + 0 + 0)
  BY <1>1, <1>3, <1>4, BalancedRecord
<1> HIDE DEF completed
<1>8. /\ RecorderOK(stopped) /\ Len(stopped.events) = Len(completed.events) + 1
      /\ \A i \in 1 .. Len(completed.events) : stopped.events[i] = completed.events[i]
      /\ stopped.events[Len(stopped.events)].name = "run.stopped"
  BY <1>1, <1>6, Recorded
<1>9. Balanced(stopped.events, 1 + 0 + 0 + 0) /\ Paired(stopped.events)
  BY <1>1, <1>5, <1>6, <1>7, BalancedRecord, PairedRecord
<1> HIDE DEF stopped, n
<1>10. /\ Len(completed.events) = n + 2
       /\ \A i \in 1 .. n : completed.events[i] = recorder.events[i]
       /\ completed.events[n + 1].name = "case.started"
       /\ completed.events[n + 2].name = "case.completed" /\ completed.events[n + 2].id = h
  <2>1. n + 1 \in 1 .. Len(begun.events) /\ \A i \in 1 .. n : i \in 1 .. Len(begun.events)
    BY <1>3
  <2>2. Len(completed.events) = n + 2
    BY <1>3, <1>6
  <2> QED
    BY <1>3, <1>6, <2>1, <2>2
<1>11. /\ Len(stopped.events) = n + 3
       /\ \A i \in 1 .. n + 2 : stopped.events[i] = completed.events[i]
       /\ stopped.events[n + 3].name = "run.stopped"
  BY <1>3, <1>8, <1>10
<1>12. Balanced(completed.events, 1) /\ Balanced(stopped.events, 1)
  BY <1>7, <1>9
<1>13. CompletedLog(h) = completed /\ StoppedLog(h) = stopped
  BY DEF CompletedLog, StoppedLog, begun, completed, stopped
<1> QED
  BY <1>3, <1>5, <1>6, <1>8, <1>9, <1>10, <1>11, <1>12, <1>13 DEF n

LEMMA CaseScoredKeeps ==
  ASSUME EvaluatorInv, NEW score \in 0 .. Full, CaseScored(score)
  PROVE  EvaluatorInv'
<1> DEFINE h == Head(todo)
           made == [id |-> h, score |-> score]
           stops == config.stop /\ ~Passed(made)
           n == Len(results)
           old == recorder.events
           new == recorder'.events
<1>1. /\ pc = "case" /\ todo # << >> /\ todo' = Tail(todo)
      /\ results' = Append(results, made)
      /\ pc' = IF stops THEN "summary" ELSE "case"
      /\ UNCHANGED <<config, input, first, report, runs>>
  BY DEF CaseScored
<1>2. /\ h \in CaseId /\ h = todo[1] /\ Tail(todo) \in Seq(CaseId)
      /\ Len(todo) \in Nat /\ Len(todo) >= 1 /\ Len(Tail(todo)) = Len(todo) - 1
      /\ \A i \in 1 .. Len(Tail(todo)) : Tail(todo)[i] = todo[i + 1]
  <2>1. todo \in Seq(CaseId)
    BY DEF EvaluatorInv, TypeOK
  <2>2. h = todo[1]
    BY <1>1, <2>1
  <2> QED
    BY <1>1, <2>1, <2>2, HeadTailProperties, EmptySeq
<1>3. stops \in BOOLEAN /\ made \in Result /\ made.id = h
  BY <1>2 DEF Result, EvaluatorInv, TypeOK, Passed
<1>4. /\ results \in Seq(Result) /\ n \in Nat /\ results' \in Seq(Result) /\ Len(results') = n + 1
      /\ \A i \in 1 .. n : results'[i] = results[i]
      /\ results'[n + 1] = made /\ results' # << >>
  <2>1. results \in Seq(Result)
    BY DEF EvaluatorInv, TypeOK
  <2> HIDE DEF made
  <2> QED
    BY <1>1, <1>3, <2>1, AppendProperties, LenProperties
<1>5. /\ RecorderOK(recorder') /\ Len(old) \in Nat
      /\ Len(new) = Len(old) + 2 + (IF stops THEN 1 ELSE 0)
      /\ \A i \in 1 .. Len(old) : new[i] = old[i]
      /\ new[Len(old) + 1].name = "case.started"
      /\ new[Len(old) + 2].name = "case.completed" /\ new[Len(old) + 2].id = h
      /\ stops => new[Len(old) + 3].name = "run.stopped"
      /\ Balanced(new, 1) /\ Paired(new)
  <2> DEFINE completed == CompletedLog(h)
             stopped == StoppedLog(h)
  <2>1. recorder' = IF stops THEN stopped ELSE completed
    BY DEF CaseScored, Begun, CompletedLog, StoppedLog
  <2> HIDE DEF stops, h, old, new, stopped, completed
  <2>2. /\ RecorderOK(completed) /\ Len(old) \in Nat /\ Len(completed.events) = Len(old) + 2
        /\ \A i \in 1 .. Len(old) : completed.events[i] = old[i]
        /\ completed.events[Len(old) + 1].name = "case.started"
        /\ completed.events[Len(old) + 2].name = "case.completed"
        /\ completed.events[Len(old) + 2].id = h
        /\ Balanced(completed.events, 1) /\ Paired(completed.events)
        /\ RecorderOK(stopped) /\ Len(stopped.events) = Len(old) + 3
        /\ \A i \in 1 .. Len(old) + 2 : stopped.events[i] = completed.events[i]
        /\ stopped.events[Len(old) + 3].name = "run.stopped"
        /\ Balanced(stopped.events, 1) /\ Paired(stopped.events)
    BY <1>1, <1>2, ScoredLog DEF old, completed, stopped
  <2>3. CASE stops
    <3>1. recorder' = stopped
      BY <2>1, <2>3
    <3>2. /\ Len(old) + 1 \in 1 .. Len(old) + 2 /\ Len(old) + 2 \in 1 .. Len(old) + 2
          /\ \A i \in 1 .. Len(old) : i \in 1 .. Len(old) + 2
          /\ Len(old) + 3 = Len(old) + 2 + (IF stops THEN 1 ELSE 0)
      BY <2>2, <2>3
    <3> QED
      BY <2>2, <3>1, <3>2 DEF new
  <2>4. CASE ~stops
    <3>1. recorder' = completed
      BY <2>1, <2>4
    <3>2. Len(old) + 2 = Len(old) + 2 + (IF stops THEN 1 ELSE 0)
      BY <2>2, <2>4
    <3> QED
      BY <2>2, <2>4, <3>1, <3>2 DEF new
  <2> QED
    BY <1>3, <2>3, <2>4
<1> HIDE DEF h, made, stops, n, old, new
<1>6. first \in Nat /\ first <= Len(old)
  BY <1>5 DEF EvaluatorInv, TypeOK, old
<1>7. TypeOK'
  <2>1. first' \in 0 .. Len(recorder'.events)
    BY <1>1, <1>5, <1>6 DEF new
  <2>2. pc' \in {"idle", "case", "summary"}
    BY <1>1
  <2>3. recorder'.events \in Seq(Event) /\ recorder'.next \in Nat \ {0}
    BY <1>5 DEF RecorderOK
  <2> QED
    BY <1>1, <1>2, <1>4, <2>1, <2>2, <2>3 DEF EvaluatorInv, TypeOK
<1>8. Underway'
  <2>1. /\ Problem(input) = "none" /\ report = NoReport
        /\ n + Len(todo) = Len(Cases)
        /\ \A i \in 1 .. n : results[i].id = Cases[i]
        /\ \A i \in 1 .. Len(todo) : todo[i] = Cases[n + i]
        /\ config.stop => \A i \in 1 .. n : Passed(results[i])
    BY <1>1 DEF EvaluatorInv, Underway, n
  <2>2. Cases' = Cases
    BY <1>1 DEF Cases
  <2>3. Len(results') + Len(todo') = Len(Cases)
    BY <1>1, <1>2, <1>4, <2>1
  <2>4. \A i \in 1 .. Len(results') : results'[i].id = Cases[i]
    <3> SUFFICES ASSUME NEW i \in 1 .. n + 1 PROVE results'[i].id = Cases[i]
      BY <1>4
    <3>1. CASE i \in 1 .. n
      BY <1>4, <2>1, <3>1
    <3>2. CASE i = n + 1
      <4>1. 1 \in 1 .. Len(todo)
        BY <1>2
      <4>2. todo[1] = Cases[n + 1]
        BY <2>1, <4>1
      <4> QED
        BY <1>2, <1>3, <1>4, <3>2, <4>2
    <3> QED
      BY <1>4, <3>1, <3>2
  <2>5. \A i \in 1 .. Len(todo') : todo'[i] = Cases[Len(results') + i]
    <3> SUFFICES ASSUME NEW i \in 1 .. Len(todo') PROVE todo'[i] = Cases[Len(results') + i]
      OBVIOUS
    <3>1. i + 1 \in 1 .. Len(todo) /\ todo'[i] = todo[i + 1]
      BY <1>1, <1>2
    <3>2. n + (i + 1) = Len(results') + i
      BY <1>2, <1>4
    <3> QED
      BY <2>1, <3>1, <3>2
  <2>6. config'.stop => \A i \in 1 .. Len(results') :
          Passed(results'[i]) \/ (pc' = "summary" /\ i = Len(results'))
    <3> SUFFICES ASSUME config.stop, NEW i \in 1 .. n + 1
                 PROVE  Passed(results'[i]) \/ (pc' = "summary" /\ i = n + 1)
      BY <1>1, <1>4
    <3>1. CASE i \in 1 .. n
      BY <1>4, <2>1, <3>1
    <3>2. CASE i = n + 1
      BY <1>1, <1>4, <3>2 DEF stops
    <3> QED
      BY <1>4, <3>1, <3>2
  <2>7. pc' = "summary" => config'.stop /\ results' # << >> /\ ~Passed(results'[Len(results')])
    BY <1>1, <1>4 DEF stops
  <2> QED
    BY <1>1, <2>1, <2>2, <2>3, <2>4, <2>5, <2>6, <2>7 DEF Underway, Passed
<1>9. Logged'
  <2>1. /\ Len(old) = first + 1 + 2 * n
        /\ old[first + 1].name = "run.started"
        /\ \A i \in 1 .. n :
             /\ old[first + 2 * i].name = "case.started"
             /\ old[first + 2 * i + 1].name = "case.completed"
             /\ old[first + 2 * i + 1].id = results[i].id
    <3>1. Len(old) = first + 1 + 2 * n + 0
      BY <1>1 DEF EvaluatorInv, Logged, old, n
    <3> QED
      BY <1>1, <1>4, <1>6, <3>1 DEF EvaluatorInv, Logged, old, n
  <2>2. Len(new) = first + 1 + 2 * (n + 1) + (IF pc' = "summary" THEN 1 ELSE 0)
    BY <1>1, <1>4, <1>5, <1>6, <2>1
  <2>3. new[first + 1].name = "run.started"
    <3>1. first + 1 \in 1 .. Len(old)
      BY <1>4, <1>5, <1>6, <2>1
    <3> QED
      BY <1>5, <2>1, <3>1
  <2>4. ASSUME NEW i \in 1 .. n + 1
        PROVE  /\ new[first + 2 * i].name = "case.started"
               /\ new[first + 2 * i + 1].name = "case.completed"
               /\ new[first + 2 * i + 1].id = results'[i].id
    <3>1. CASE i \in 1 .. n
      <4>1. first + 2 * i \in 1 .. Len(old) /\ first + 2 * i + 1 \in 1 .. Len(old)
        BY <1>4, <1>5, <1>6, <2>1, <3>1
      <4>2. /\ new[first + 2 * i] = old[first + 2 * i]
            /\ new[first + 2 * i + 1] = old[first + 2 * i + 1]
        BY <1>5, <4>1
      <4>3. results'[i] = results[i]
        BY <1>4, <3>1
      <4> QED
        BY <2>1, <3>1, <4>2, <4>3
    <3>2. CASE i = n + 1
      <4>1. first + 2 * i = Len(old) + 1 /\ first + 2 * i + 1 = Len(old) + 2
        <5>1. Len(old) = first + 1 + 2 * n
          BY <2>1
        <5> QED
          BY <1>4, <1>6, <3>2, <5>1
      <4>2. results'[i].id = h
        BY <1>3, <1>4, <3>2
      <4> QED
        BY <1>5, <4>1, <4>2
    <3> QED
      BY <1>4, <3>1, <3>2
  <2>5. pc' = "summary" => new[Len(new)].name = "run.stopped"
    <3> SUFFICES ASSUME pc' = "summary" PROVE new[Len(new)].name = "run.stopped"
      OBVIOUS
    <3>1. stops
      BY <1>1
    <3>2. Len(new) = Len(old) + 3
      BY <1>5, <3>1
    <3> QED
      BY <1>5, <3>1, <3>2
  <2> QED
    BY <1>1, <1>4, <2>2, <2>3, <2>4, <2>5 DEF Logged, new
<1>10. Closed'
  BY <1>1, <1>5 DEF Closed, new
<1>11. ReportAgrees'
  BY <1>1 DEF EvaluatorInv, Underway, ReportAgrees, HasReport, NoReport
<1> QED
  BY <1>7, <1>8, <1>9, <1>10, <1>11 DEF EvaluatorInv

LEMMA Halves == \A j \in Nat : \E i \in Int : j = 2 * i \/ j = 2 * i + 1
<1> SUFFICES ASSUME NEW j \in Nat PROVE \E i \in Int : j = 2 * i \/ j = 2 * i + 1
  OBVIOUS
<1>1. j \div 2 \in Int
  OBVIOUS
<1>2. j = 2 * (j \div 2) + (j % 2)
  OBVIOUS
<1>3. j % 2 \in 0 .. 1
  OBVIOUS
<1> QED
  BY <1>1, <1>2, <1>3

(* The shape of a report's telemetry and where the completions are in it.  *)
Odd(n) == {2 * q + 1 : q \in 1 .. n}

LEMMA OddNumbers ==
  ASSUME NEW n \in Nat
  PROVE  /\ Cardinality(Odd(n)) = n
         /\ \A i \in 1 .. n : Odd(n) \cap 1 .. 2 * i + 1 = Odd(i)
<1> DEFINE f == [q \in 1 .. n |-> 2 * q + 1]
<1>1. f \in Bijection(1 .. n, Odd(n))
  <2>1. f \in [1 .. n -> Odd(n)]
    BY DEF Odd
  <2>2. \A p, q \in 1 .. n : f[p] = f[q] => p = q
    OBVIOUS
  <2>3. \A x \in Odd(n) : \E q \in 1 .. n : f[q] = x
    BY DEF Odd
  <2> HIDE DEF f
  <2> QED
    BY <2>1, <2>2, <2>3 DEF Bijection, Injection, Surjection, IsInjective
<1>2. Cardinality(1 .. n) = n /\ IsFiniteSet(1 .. n)
  BY FS_Interval
<1>3. ExistsBijection(1 .. n, Odd(n))
  BY <1>1 DEF ExistsBijection
<1>4. ASSUME NEW i \in 1 .. n PROVE Odd(n) \cap 1 .. 2 * i + 1 = Odd(i)
  BY DEF Odd
<1> QED
  BY <1>2, <1>3, <1>4, FS_Bijection

LEMMA ShapeOfLog ==
  ASSUME NEW n \in Nat, NEW s \in {0, 1}, NEW log \in Seq(Event),
         Len(log) = 2 * n + 2 + s,
         log[1].name = "run.started",
         \A i \in 1 .. n :
           log[2 * i].name = "case.started" /\ log[2 * i + 1].name = "case.completed",
         s = 1 => log[2 * n + 2].name = "run.stopped",
         log[Len(log)].name = "run.completed"
  PROVE  /\ Named(log, "run.started") = {1}
         /\ Named(log, "run.completed") = {Len(log)}
         /\ Named(log, "case.completed") = Odd(n)
<1>1. DOMAIN log = 1 .. 2 * n + 2 + s
  BY LenProperties
<1>2. ASSUME NEW j \in DOMAIN log
      PROVE  \/ j = 1
             \/ \E i \in 1 .. n : j = 2 * i \/ j = 2 * i + 1
             \/ s = 1 /\ j = 2 * n + 2
             \/ j = Len(log)
  <2> SUFFICES ASSUME j # 1, j # Len(log), ~(s = 1 /\ j = 2 * n + 2)
               PROVE  \E i \in 1 .. n : j = 2 * i \/ j = 2 * i + 1
    OBVIOUS
  <2>1. j \in 2 .. 2 * n + 1
    BY <1>1
  <2>2. PICK i \in Int : j = 2 * i \/ j = 2 * i + 1
    <3>1. j \in Nat
      BY <2>1
    <3> QED
      BY <3>1, Halves
  <2>3. i \in 1 .. n
    BY <2>1, <2>2
  <2> QED
    BY <2>2, <2>3
<1>3. \A j \in DOMAIN log : log[j].name = "run.started" <=> j = 1
  BY <1>1, <1>2
<1>4. \A j \in DOMAIN log : log[j].name = "run.completed" <=> j = Len(log)
  BY <1>1, <1>2
<1>5. \A j \in DOMAIN log : log[j].name = "case.completed" <=> \E i \in 1 .. n : j = 2 * i + 1
  BY <1>1, <1>2
<1>6. 1 \in DOMAIN log /\ Len(log) \in DOMAIN log /\ \A i \in 1 .. n : 2 * i + 1 \in DOMAIN log
  BY <1>1
<1>7. Named(log, "run.started") = {1} /\ Named(log, "run.completed") = {Len(log)}
  BY <1>3, <1>4, <1>6 DEF Named
<1>8. Named(log, "case.completed") = Odd(n)
  BY <1>5, <1>6 DEF Named, Odd
<1> QED
  BY <1>7, <1>8

(* The counts of passed and failed results add up, and only the last one   *)
(* failed in an evaluation that stopped early.                             *)
LEMMA PassedCount ==
  ASSUME TypeOK
  PROVE  LET passed == {i \in DOMAIN results : Passed(results[i])}
             n == Len(results)
         IN  /\ n \in Nat /\ PassedCases \in 0 .. n
             /\ (n # 0 /\ passed = 1 .. n - 1) => n - PassedCases = 1
<1> DEFINE passed == {i \in DOMAIN results : Passed(results[i])}
           n == Len(results)
<1>1. n \in Nat /\ DOMAIN results = 1 .. n
  BY LenProperties DEF TypeOK
<1>2. IsFiniteSet(1 .. n) /\ Cardinality(1 .. n) = n
  <2> HIDE DEF n
  <2> QED
    BY <1>1, FS_Interval
<1>3. passed \in SUBSET (1 .. n) /\ PassedCases = Cardinality(passed)
  BY <1>1 DEF PassedCases
<1>4. Cardinality(passed) \in Nat /\ Cardinality(passed) <= n
  BY <1>2, <1>3, FS_Subset, FS_CardinalityType
<1>5. ASSUME n # 0, passed = 1 .. n - 1 PROVE n - PassedCases = 1
  <2>1. PassedCases = Cardinality(1 .. n - 1)
    BY <1>3, <1>5
  <2> HIDE DEF n
  <2>2. Cardinality(1 .. n - 1) = n - 1
    BY <1>1, <1>5, FS_Interval
  <2> QED
    BY <1>1, <2>1, <2>2
<1> QED
  BY <1>1, <1>3, <1>4, <1>5

LEMMA FinishKeeps ==
  ASSUME EvaluatorInv, Finish PROVE EvaluatorInv'
<1> DEFINE n == Len(results)
           s == IF pc = "summary" THEN 1 ELSE 0
           old == recorder.events
           new == recorder'.events
           log == SubSeq(new, first + 1, Len(new))
<1>1. /\ pc # "idle" /\ pc' = "idle" /\ (pc = "summary" \/ todo = << >>)
      /\ recorder' = Record(recorder, "run.completed", Blank)
      /\ report' = [kind |-> "report", cases |-> Cases, results |-> results,
                    passed |-> PassedCases, failed |-> n - PassedCases, telemetry |-> log]
      /\ UNCHANGED <<config, input, todo, results, first, runs>>
  BY DEF Finish, Cases
<1>2. RecorderOK(recorder) /\ Balanced(old, 1) /\ Paired(old)
  BY <1>1, TypedRecorder DEF EvaluatorInv, Closed
<1>3. /\ "run.completed" \in EventName \ {"case.started"} /\ Blank \in CaseId \cup {Blank}
      /\ "run.completed" # "run.started" /\ "run.completed" \in {"run.completed", "case.failed"}
  BY DEF EventName
<1>4. /\ RecorderOK(recorder') /\ Len(old) \in Nat /\ Len(new) = Len(old) + 1
      /\ \A i \in 1 .. Len(old) : new[i] = old[i]
      /\ new[Len(new)].name = "run.completed"
  BY <1>1, <1>2, <1>3, Recorded
<1>5. Balanced(new, 0) /\ Paired(new)
  <2>1. Balanced(new, 1 + (-1))
    BY <1>1, <1>2, <1>3, BalancedRecord
  <2>2. Paired(new)
    BY <1>1, <1>2, <1>3, PairedRecord
  <2> QED
    BY <2>1, <2>2
<1>6. /\ TypeOK /\ Underway /\ Logged
      /\ n \in Nat /\ s \in {0, 1} /\ first \in Nat /\ first <= Len(old)
      /\ results \in Seq(Result) /\ DOMAIN results = 1 .. n
      /\ Len(old) = first + 1 + 2 * n + s
  <2>1. /\ TypeOK /\ Underway /\ Logged /\ results \in Seq(Result) /\ first \in Nat
        /\ first <= Len(old)
    BY <1>4 DEF EvaluatorInv, TypeOK
  <2>2. n \in Nat /\ DOMAIN results = 1 .. n
    BY <2>1, LenProperties
  <2>3. Len(old) = first + 1 + 2 * n + s
    BY <1>1, <2>1 DEF Logged
  <2> QED
    BY <2>1, <2>2, <2>3
<1>7. /\ log \in Seq(Event) /\ Len(log) = 2 * n + 2 + s
      /\ \A i \in 1 .. 2 * n + 2 + s : log[i] = new[first + i]
  <2>1. Len(new) = first + 2 * n + 2 + s /\ new \in Seq(Event)
    BY <1>4, <1>6 DEF RecorderOK
  <2>2. \A i \in first + 1 .. Len(new) : new[i] \in Event
    <3>1. \A i \in 1 .. Len(new) : new[i] \in Event
      BY <2>1, ElementOfSeq
    <3> QED
      BY <1>6, <2>1, <3>1
  <2> HIDE DEF s, n, new, old
  <2>3. first + 1 \in Int /\ Len(new) \in Int /\ first + 1 <= Len(new)
    BY <1>6, <2>1
  <2>4. /\ log \in Seq(Event) /\ Len(log) = Len(new) - (first + 1) + 1
        /\ \A i \in 1 .. Len(new) - (first + 1) + 1 : log[i] = new[first + 1 + i - 1]
    BY <2>2, <2>3, SubSeqProperties
  <2>5. Len(new) - (first + 1) + 1 = 2 * n + 2 + s
    BY <1>6, <2>1
  <2>6. \A i \in 1 .. 2 * n + 2 + s : first + 1 + i - 1 = first + i
    BY <1>6
  <2> QED
    BY <2>4, <2>5, <2>6
<1> HIDE DEF log
<1>8. /\ log[1].name = "run.started"
      /\ \A i \in 1 .. n :
           /\ log[2 * i].name = "case.started" /\ log[2 * i + 1].name = "case.completed"
           /\ log[2 * i + 1].id = results[i].id
      /\ s = 1 => log[2 * n + 2].name = "run.stopped"
      /\ log[Len(log)].name = "run.completed"
  <2>1. /\ old[first + 1].name = "run.started"
        /\ \A i \in 1 .. n :
             /\ old[first + 2 * i].name = "case.started"
             /\ old[first + 2 * i + 1].name = "case.completed"
             /\ old[first + 2 * i + 1].id = results[i].id
        /\ s = 1 => old[Len(old)].name = "run.stopped"
    BY <1>1, <1>6 DEF Logged
  <2> HIDE DEF s, n, new, old
  <2>2. \A j \in 1 .. 2 * n + 1 + s : log[j] = old[first + j]
    <3> SUFFICES ASSUME NEW j \in 1 .. 2 * n + 1 + s PROVE log[j] = old[first + j]
      OBVIOUS
    <3>1. j \in 1 .. 2 * n + 2 + s /\ first + j \in 1 .. Len(old)
      BY <1>4, <1>6
    <3> QED
      BY <1>4, <1>7, <3>1
  <2>3. log[1].name = "run.started"
    <3>1. 1 \in 1 .. 2 * n + 1 + s
      BY <1>6
    <3> QED
      BY <2>1, <2>2, <3>1
  <2>4. ASSUME NEW i \in 1 .. n
        PROVE  /\ log[2 * i].name = "case.started" /\ log[2 * i + 1].name = "case.completed"
               /\ log[2 * i + 1].id = results[i].id
    <3>1. 2 * i \in 1 .. 2 * n + 1 + s /\ 2 * i + 1 \in 1 .. 2 * n + 1 + s
      BY <1>6
    <3>2. log[2 * i] = old[first + 2 * i] /\ log[2 * i + 1] = old[first + 2 * i + 1]
      <4>1. first + (2 * i + 1) = first + 2 * i + 1
        BY <1>6
      <4> QED
        BY <2>2, <3>1, <4>1
    <3> QED
      BY <2>1, <3>2
  <2>5. s = 1 => log[2 * n + 2].name = "run.stopped"
    <3> SUFFICES ASSUME s = 1 PROVE log[2 * n + 2].name = "run.stopped"
      OBVIOUS
    <3>1. 2 * n + 2 \in 1 .. 2 * n + 1 + s /\ first + (2 * n + 2) = Len(old)
      BY <1>6
    <3> QED
      BY <2>1, <2>2, <3>1
  <2>6. log[Len(log)].name = "run.completed"
    <3>1. 2 * n + 2 + s \in 1 .. 2 * n + 2 + s /\ first + (2 * n + 2 + s) = Len(new)
      BY <1>4, <1>6
    <3> QED
      BY <1>4, <1>7, <3>1
  <2> QED
    BY <2>3, <2>4, <2>5, <2>6
<1>9. /\ Named(log, "run.started") = {1}
      /\ Named(log, "run.completed") = {Len(log)}
      /\ Named(log, "case.completed") = Odd(n)
  <2> HIDE DEF s, n
  <2> QED
    BY <1>6, <1>7, <1>8, ShapeOfLog
<1>10. /\ Cases \in Seq(Nat) /\ Len(Cases) \in Nat /\ DOMAIN Cases = 1 .. Len(Cases)
       /\ \A i, j \in DOMAIN Cases : i < j => Cases[i] < Cases[j]
       /\ ToSet(Cases) = ToSet(input) /\ Cases \in Seq(CaseId)
  <2>1. input \in Batch /\ Problem(input) = "none"
    BY <1>1, <1>6 DEF TypeOK, Underway
  <2> QED
    BY <2>1, OrderedCases DEF Cases
<1>11. n <= Len(Cases) /\ \A i \in 1 .. n : results[i].id = Cases[i]
  <2>1. Len(todo) \in Nat
    BY <1>6, LenProperties DEF TypeOK
  <2>2. n + Len(todo) = Len(Cases) /\ \A i \in 1 .. n : results[i].id = Cases[i]
    BY <1>1, <1>6 DEF Underway
  <2> HIDE DEF n
  <2>3. n <= Len(Cases)
    BY <1>6, <1>10, <2>1, <2>2
  <2> QED
    BY <2>2, <2>3
<1>12. PassedCases \in 0 .. n
  BY <1>6, PassedCount
<1>13. n < Len(Cases) => config.stop /\ n - PassedCases = 1
  <2> SUFFICES ASSUME n < Len(Cases) PROVE config.stop /\ n - PassedCases = 1
    OBVIOUS
  <2>1. pc = "summary"
    <3> SUFFICES ASSUME todo = << >> PROVE FALSE
      BY <1>1
    <3>1. Len(todo) = 0
      BY EmptySeq
    <3>2. n + Len(todo) = Len(Cases)
      BY <1>1, <1>6 DEF Underway
    <3> HIDE DEF n
    <3> QED
      BY <1>6, <3>1, <3>2
  <2>2. /\ config.stop /\ results # << >> /\ ~Passed(results[n])
        /\ \A i \in 1 .. n : Passed(results[i]) \/ i = n
    BY <1>6, <2>1 DEF Underway
  <2>3. n # 0
    BY <1>6, <2>2, EmptySeq
  <2>4. {i \in DOMAIN results : Passed(results[i])} = 1 .. n - 1
    <3>1. \A i \in 1 .. n : Passed(results[i]) <=> i # n
      BY <2>2
    <3>2. /\ \A i \in 1 .. n : i # n <=> i \in 1 .. n - 1
          /\ 1 .. n - 1 \subseteq 1 .. n
      <4>1. n \in Nat
        BY <1>6
      <4> HIDE DEF n
      <4> QED
        BY <4>1
    <3> QED
      BY <1>6, <3>1, <3>2
  <2> QED
    BY <1>6, <2>2, <2>3, <2>4, PassedCount
<1>14. config.stop => \A i \in 1 .. n - 1 : Passed(results[i])
  <2> SUFFICES ASSUME config.stop, NEW i \in 1 .. n - 1 PROVE Passed(results[i])
    OBVIOUS
  <2>1. i \in 1 .. n /\ i # n
    <3>1. n \in Nat
      BY <1>6
    <3> HIDE DEF n
    <3> QED
      BY <3>1
  <2> QED
    BY <1>1, <1>6, <2>1 DEF Underway
<1>15. ReportAgrees'
  <2>1. /\ Cardinality(Odd(n)) = n
        /\ \A i \in Odd(n) : log[i].id = results[Cardinality(Odd(n) \cap 1 .. i)].id
    <3>1. Cardinality(Odd(n)) = n
      BY <1>6, OddNumbers
    <3>2. ASSUME NEW i \in Odd(n)
          PROVE  log[i].id = results[Cardinality(Odd(n) \cap 1 .. i)].id
      <4>1. PICK q \in 1 .. n : i = 2 * q + 1
        BY DEF Odd
      <4>2. Odd(n) \cap 1 .. i = Odd(q) /\ q \in Nat
        BY <1>6, <4>1, OddNumbers
      <4>3. Cardinality(Odd(q)) = q
        BY <4>2, OddNumbers
      <4> QED
        BY <1>8, <4>1, <4>2, <4>3
    <3> QED
      BY <3>1, <3>2
  <2>2. PassedCases + (n - PassedCases) = n
    BY <1>6, <1>12
  <2> HIDE DEF s, new, old
  <2>3. /\ report'.kind = "report" /\ report'.cases = Cases /\ report'.results = results
        /\ report'.passed = PassedCases /\ report'.failed = n - PassedCases
        /\ report'.telemetry = log
    BY <1>1
  <2>4. input' = input /\ config' = config
    BY <1>1
  <2> QED
    BY <1>6, <1>9, <1>10, <1>11, <1>13, <1>14, <2>1, <2>2, <2>3, <2>4
       DEF ReportAgrees, HasReport, Passed
<1>16. TypeOK'
  <2>1. report' \in Report
    <3>1. n - PassedCases \in Nat /\ PassedCases \in Nat
      BY <1>6, <1>12
    <3> HIDE DEF n
    <3> QED
      BY <1>1, <1>6, <1>7, <1>10, <3>1 DEF Report
  <2>2. first' \in 0 .. Len(recorder'.events)
    BY <1>1, <1>4, <1>6
  <2> QED
    BY <1>1, <1>4, <1>6, <2>1, <2>2 DEF TypeOK, RecorderOK
<1>17. Underway' /\ Logged' /\ Closed'
  BY <1>1, <1>5 DEF Underway, Logged, Closed
<1> QED
  BY <1>15, <1>16, <1>17 DEF EvaluatorInv

-----------------------------------------------------------------------------
LEMMA EvaluatorInvStep == EvaluatorInv /\ [Next]_vars => EvaluatorInv'
<1> SUFFICES ASSUME EvaluatorInv, [Next]_vars PROVE EvaluatorInv'
  OBVIOUS
<1>1. CASE Reject
  BY <1>1, RejectKeeps
<1>2. CASE Start
  BY <1>2, StartKeeps
<1>3. CASE Finish
  BY <1>3, FinishKeeps
<1>4. CASE \E reason \in {"agentFailed", "outputTooLong", "invalidScore"} : CaseFails(reason)
  BY <1>4, CaseFailsKeeps
<1>5. CASE \E score \in 0 .. Full : CaseScored(score)
  BY <1>5, CaseScoredKeeps
<1>6. CASE UNCHANGED vars
  BY <1>6 DEF vars, EvaluatorInv, TypeOK, Underway, Logged, Closed, ReportAgrees, HasReport,
              Cases, Passed
<1> QED
  BY <1>1, <1>2, <1>3, <1>4, <1>5, <1>6 DEF Next

LEMMA EvaluatorInvHolds == Spec => []EvaluatorInv
BY EvaluatorInvInit, EvaluatorInvStep, PTL DEF Spec

(* The state of the evaluator and of its recorder is well typed for any    *)
(* batches, agents and scorers (Evaluator::evaluate_with_telemetry).       *)
THEOREM EvaluatorTypeCorrect == Spec => []TypeOK
<1>1. EvaluatorInv => TypeOK
  BY DEF EvaluatorInv
<1> QED
  BY <1>1, EvaluatorInvHolds, PTL

(* For any number of cases, scores and evaluations a report covers the     *)
(* cases in their order up to the first failure, counts what it lists and  *)
(* holds this evaluation's telemetry (Evaluator::evaluate_with_telemetry,  *)
(* validate_cases, EvaluationSummary::from_results).                       *)
THEOREM ReportsOfCases == Spec => []ReportAgrees
<1>1. EvaluatorInv => ReportAgrees
  BY DEF EvaluatorInv
<1> QED
  BY <1>1, EvaluatorInvHolds, PTL

(* The recorder a caller keeps over any number of evaluations shows how    *)
(* each of them, and each case, ended (TelemetryRecorder::record).         *)
THEOREM StartsAreClosed == Spec => []EveryStartClosed
<1>1. EvaluatorInv => EveryStartClosed
  BY ClosedShown DEF EvaluatorInv
<1> QED
  BY <1>1, EvaluatorInvHolds, PTL

-----------------------------------------------------------------------------
(* Selections: what a pattern matches.  A cut of the rest of a value says  *)
(* where the piece of each byte of the rest of the pattern ends.           *)
Piece(pattern, value, p, v, w) ==
  IF pattern[p] = "*" THEN w >= v ELSE w = v + 1 /\ pattern[p] \in {"?", value[v]}

CutsRest(pattern, value, p, v, cut) ==
  /\ cut \in [p - 1 .. Len(pattern) -> 0 .. Len(value)]
  /\ cut[p - 1] = v - 1 /\ cut[Len(pattern)] = Len(value)
  /\ \A i \in p .. Len(pattern) : Piece(pattern, value, i, cut[i - 1] + 1, cut[i] + 1)

RestFits(pattern, value, p, v) == \E cut : CutsRest(pattern, value, p, v, cut)

LEMMA FitsWhole ==
  ASSUME NEW pattern \in Name, NEW value \in Name
  PROVE  InLanguage(value, pattern) <=> RestFits(pattern, value, 1, 1)
<1> DEFINE m == Len(pattern)
           n == Len(value)
<1>1. m \in Nat /\ n \in Nat
  BY LenProperties DEF Name
<1>2. ASSUME NEW cut \in [0 .. m -> 0 .. n], NEW i \in 1 .. m
      PROVE  Piece(pattern, value, i, cut[i - 1] + 1, cut[i] + 1) <=>
               IF pattern[i] = "*" THEN cut[i] >= cut[i - 1]
               ELSE cut[i] = cut[i - 1] + 1 /\ pattern[i] \in {"?", value[cut[i]]}
  <2>1. i \in 0 .. m /\ i - 1 \in 0 .. m
    BY <1>1
  <2>2. cut[i] \in Nat /\ cut[i - 1] \in Nat
    BY <2>1
  <2>3. cut[i] >= cut[i - 1] <=> cut[i] + 1 >= cut[i - 1] + 1
    BY <2>2
  <2>4. cut[i] = cut[i - 1] + 1 <=> cut[i] + 1 = cut[i - 1] + 1 + 1
    BY <2>2
  <2> QED
    BY <2>3, <2>4 DEF Piece
<1>3. \A cut : CutsRest(pattern, value, 1, 1, cut) <=>
        /\ cut \in [0 .. m -> 0 .. n] /\ cut[0] = 0 /\ cut[m] = n
        /\ \A i \in 1 .. m : Piece(pattern, value, i, cut[i - 1] + 1, cut[i] + 1)
  BY DEF CutsRest
<1> HIDE DEF m, n
<1> QED
  BY <1>2, <1>3 DEF InLanguage, RestFits, m, n

(* The rest of a pattern fits a rest of a value as its first byte does and *)
(* what follows it.                                                        *)
LEMMA FitsByPiece ==
  ASSUME NEW pattern \in Name, NEW value \in Name,
         NEW p \in 1 .. Len(pattern) + 1, NEW v \in 1 .. Len(value) + 1
  PROVE  RestFits(pattern, value, p, v) <=>
           IF p > Len(pattern) THEN v > Len(value)
           ELSE \E w \in 1 .. Len(value) + 1 :
                  Piece(pattern, value, p, v, w) /\ RestFits(pattern, value, p + 1, w)
<1> DEFINE m == Len(pattern)
           n == Len(value)
<1>1. m \in Nat /\ n \in Nat
  BY LenProperties DEF Name
<1>2. CASE p > m
  <2>1. p = m + 1 /\ p - 1 = m /\ p .. m = {}
    BY <1>1, <1>2
  <2>2. ASSUME NEW cut, CutsRest(pattern, value, p, v, cut) PROVE v > n
    <3>1. v - 1 = n
      BY <2>1, <2>2 DEF CutsRest
    <3> QED
      BY <1>1, <3>1
  <2>3. ASSUME v > n PROVE RestFits(pattern, value, p, v)
    <3> DEFINE cut == [i \in m .. m |-> n]
    <3>1. v - 1 = n
      BY <1>1, <2>3
    <3>2. cut \in [m .. m -> 0 .. n] /\ cut[m] = n
      BY <1>1
    <3> HIDE DEF cut
    <3>3. CutsRest(pattern, value, p, v, cut)
      BY <2>1, <3>1, <3>2 DEF CutsRest
    <3> QED
      BY <3>3 DEF RestFits
  <2> QED
    BY <1>2, <2>2, <2>3 DEF RestFits
<1>3. CASE ~(p > m)
  <2>1. p \in 1 .. m /\ p \in p - 1 .. m /\ p - 1 \in p - 1 .. m /\ m \in p .. m
    BY <1>1, <1>3
  <2>2. ASSUME NEW cut, CutsRest(pattern, value, p, v, cut)
        PROVE  \E w \in 1 .. n + 1 :
                 Piece(pattern, value, p, v, w) /\ RestFits(pattern, value, p + 1, w)
    <3> DEFINE w == cut[p] + 1
               rest == [i \in p .. m |-> cut[i]]
    <3>1. /\ cut \in [p - 1 .. m -> 0 .. n] /\ cut[p - 1] = v - 1 /\ cut[m] = n
          /\ \A i \in p .. m : Piece(pattern, value, i, cut[i - 1] + 1, cut[i] + 1)
      BY <2>2 DEF CutsRest
    <3>2. cut[p] \in 0 .. n /\ cut[p - 1] + 1 = v
      BY <2>1, <3>1
    <3>3. w \in 1 .. n + 1
      BY <1>1, <3>2
    <3>4. Piece(pattern, value, p, v, w)
      BY <2>1, <3>1, <3>2
    <3>5. CutsRest(pattern, value, p + 1, w, rest)
      <4>1. p .. m \subseteq p - 1 .. m /\ p + 1 .. m \subseteq p .. m /\ p + 1 - 1 = p
        BY <2>1
      <4>2. rest \in [p .. m -> 0 .. n] /\ rest[p] = w - 1 /\ rest[m] = n
        BY <2>1, <3>1, <3>2, <4>1
      <4>3. \A i \in p + 1 .. m : i - 1 \in p .. m /\ rest[i] = cut[i] /\ rest[i - 1] = cut[i - 1]
        BY <2>1
      <4> HIDE DEF rest, w
      <4> QED
        BY <3>1, <4>1, <4>2, <4>3 DEF CutsRest
    <3> HIDE DEF w
    <3> QED
      BY <3>3, <3>4, <3>5 DEF RestFits
  <2>3. ASSUME NEW w \in 1 .. n + 1, Piece(pattern, value, p, v, w),
               NEW rest, CutsRest(pattern, value, p + 1, w, rest)
        PROVE  RestFits(pattern, value, p, v)
    <3> DEFINE cut == [i \in p - 1 .. m |-> IF i = p - 1 THEN v - 1 ELSE rest[i]]
    <3>1. p + 1 - 1 = p
      BY <2>1
    <3>2. /\ rest \in [p .. m -> 0 .. n] /\ rest[p] = w - 1 /\ rest[m] = n
          /\ \A i \in p + 1 .. m : Piece(pattern, value, i, rest[i - 1] + 1, rest[i] + 1)
      BY <2>3, <3>1 DEF CutsRest
    <3>3. /\ cut[p - 1] = v - 1
          /\ \A i \in p .. m : cut[i] = rest[i]
      <4>1. \A i \in p .. m : i \in p - 1 .. m /\ i # p - 1
        BY <1>1, <2>1
      <4> QED
        BY <2>1, <4>1
    <3>4. cut \in [p - 1 .. m -> 0 .. n]
      <4>1. \A i \in p - 1 .. m : i = p - 1 \/ i \in p .. m
        BY <1>1, <2>1
      <4>2. v - 1 \in 0 .. n
        BY <1>1
      <4> QED
        BY <3>2, <4>1, <4>2
    <3> HIDE DEF cut
    <3>5. ASSUME NEW i \in p .. m
          PROVE  Piece(pattern, value, i, cut[i - 1] + 1, cut[i] + 1)
      <4>1. CASE i = p
        <5>1. cut[i - 1] + 1 = v /\ cut[i] + 1 = w
          BY <2>1, <3>2, <3>3, <4>1
        <5> QED
          BY <2>3, <4>1, <5>1
      <4>2. CASE i # p
        <5>1. i \in p + 1 .. m /\ i - 1 \in p .. m
          BY <2>1, <4>2
        <5> QED
          BY <3>2, <3>3, <5>1
      <4> QED
        BY <4>1, <4>2
    <3>6. CutsRest(pattern, value, p, v, cut)
      BY <2>1, <3>2, <3>3, <3>4, <3>5 DEF CutsRest
    <3> QED
      BY <3>6 DEF RestFits
  <2> QED
    BY <1>3, <2>2, <2>3 DEF RestFits
<1> QED
  BY <1>2, <1>3

LEMMA FitsAsMatched ==
  ASSUME NEW pattern \in Name, NEW value \in Name,
         NEW p \in 1 .. Len(pattern) + 1, NEW v \in 1 .. Len(value) + 1
  PROVE  RestFits(pattern, value, p, v) <=>
           IF p > Len(pattern) THEN v > Len(value)
           ELSE IF pattern[p] = "*"
             THEN \/ RestFits(pattern, value, p + 1, v)
                  \/ v <= Len(value) /\ RestFits(pattern, value, p, v + 1)
           ELSE /\ v <= Len(value) /\ pattern[p] \in {"?", value[v]}
                /\ RestFits(pattern, value, p + 1, v + 1)
<1> DEFINE m == Len(pattern)
           n == Len(value)
           Fits(q, w) == RestFits(pattern, value, q, w)
<1>1. m \in Nat /\ n \in Nat
  BY LenProperties DEF Name
<1>2. \A w \in 1 .. n + 1 : p <= m =>
        (Fits(p, w) <=> \E x \in 1 .. n + 1 : Piece(pattern, value, p, w, x) /\ Fits(p + 1, x))
  <2> SUFFICES ASSUME NEW w \in 1 .. n + 1, p <= m
               PROVE  Fits(p, w) <=>
                        \E x \in 1 .. n + 1 : Piece(pattern, value, p, w, x) /\ Fits(p + 1, x)
    OBVIOUS
  <2>1. ~(p > m)
    BY <1>1
  <2> QED
    BY <2>1, FitsByPiece
<1>3. CASE p > m
  BY <1>3, FitsByPiece
<1> HIDE DEF Fits, m, n
<1>4. CASE p <= m /\ pattern[p] = "*"
  <2>1. \A w, x \in 1 .. n + 1 : Piece(pattern, value, p, w, x) <=> x >= w
    BY <1>4 DEF Piece
  <2>2. \A w \in 1 .. n + 1 : Fits(p, w) <=> \E x \in 1 .. n + 1 : x >= w /\ Fits(p + 1, x)
    BY <1>2, <1>4, <2>1
  <2>3. v \in 1 .. n + 1
    BY DEF n
  <2>4. ASSUME Fits(p, v) PROVE Fits(p + 1, v) \/ (v <= n /\ Fits(p, v + 1))
    <3>1. PICK x \in 1 .. n + 1 : x >= v /\ Fits(p + 1, x)
      BY <2>2, <2>3, <2>4
    <3>2. CASE x = v
      BY <3>1, <3>2
    <3>3. CASE x # v
      <4>1. v <= n /\ v + 1 \in 1 .. n + 1 /\ x >= v + 1
        BY <1>1, <2>3, <3>1, <3>3
      <4> QED
        BY <2>2, <3>1, <4>1
    <3> QED
      BY <3>2, <3>3
  <2>5. ASSUME Fits(p + 1, v) PROVE Fits(p, v)
    <3>1. v >= v
      BY <1>1, <2>3
    <3> QED
      BY <2>2, <2>3, <2>5, <3>1
  <2>6. ASSUME v <= n, Fits(p, v + 1) PROVE Fits(p, v)
    <3>1. v + 1 \in 1 .. n + 1
      BY <1>1, <2>3, <2>6
    <3>2. PICK x \in 1 .. n + 1 : x >= v + 1 /\ Fits(p + 1, x)
      BY <2>2, <2>6, <3>1
    <3>3. x >= v
      BY <1>1, <2>3, <3>2
    <3> QED
      BY <2>2, <2>3, <3>2, <3>3
  <2>7. Fits(p, v) <=> Fits(p + 1, v) \/ (v <= n /\ Fits(p, v + 1))
    BY <2>4, <2>5, <2>6
  <2>8. ~(p > m)
    BY <1>1, <1>4
  <2> QED
    BY <1>4, <2>7, <2>8 DEF Fits, m, n
<1>5. CASE p <= m /\ pattern[p] # "*"
  <2>1. v \in 1 .. n + 1
    BY DEF n
  <2>2. Fits(p, v) <=> \E x \in 1 .. n + 1 :
          (x = v + 1 /\ pattern[p] \in {"?", value[v]}) /\ Fits(p + 1, x)
    BY <1>2, <1>5, <2>1 DEF Piece
  <2>3. v + 1 \in 1 .. n + 1 <=> v <= n
    BY <1>1, <2>1
  <2>4. Fits(p, v) <=> v <= n /\ pattern[p] \in {"?", value[v]} /\ Fits(p + 1, v + 1)
    BY <2>2, <2>3
  <2>5. ~(p > m)
    BY <1>1, <1>5
  <2> QED
    BY <1>5, <2>4, <2>5 DEF Fits, m, n
<1>6. p > m \/ p <= m
  BY <1>1
<1> QED
  BY <1>3, <1>4, <1>5, <1>6 DEF m

(* glob_matches recognises the language of the pattern: its recursion has  *)
(* one solution, whether the rest of the pattern fits the rest of the value. *)
GlobStep(pattern, value, f, p, v) ==
  IF p > Len(pattern) THEN v > Len(value)
  ELSE IF pattern[p] = "*" THEN f[<<p + 1, v>>] \/ (v <= Len(value) /\ f[<<p, v + 1>>])
  ELSE v <= Len(value) /\ pattern[p] \in {"?", value[v]} /\ f[<<p + 1, v + 1>>]

Solves(pattern, value, f) ==
  f = [rest \in Rests(pattern, value) |-> GlobStep(pattern, value, f, rest[1], rest[2])]

LEMMA GlobSolves ==
  ASSUME NEW pattern, NEW value
  PROVE  GlobMatches(pattern, value) = (CHOOSE f : Solves(pattern, value, f))[<<1, 1>>]
BY DEF GlobMatches, GlobStep, Solves

LEMMA RestsWithin ==
  ASSUME NEW pattern \in Name, NEW value \in Name, NEW p \in 1 .. Len(pattern) + 1,
         NEW v \in 1 .. Len(value) + 1
  PROVE  /\ <<p, v>> \in Rests(pattern, value)
         /\ p <= Len(pattern) => <<p + 1, v>> \in Rests(pattern, value)
         /\ v <= Len(value) => <<p, v + 1>> \in Rests(pattern, value)
         /\ p <= Len(pattern) /\ v <= Len(value) => <<p + 1, v + 1>> \in Rests(pattern, value)
<1>1. Len(pattern) \in Nat /\ Len(value) \in Nat
  BY LenProperties DEF Name
<1>2. p <= Len(pattern) => p + 1 \in 1 .. Len(pattern) + 1
  BY <1>1
<1>3. v <= Len(value) => v + 1 \in 1 .. Len(value) + 1
  BY <1>1
<1> QED
  BY <1>2, <1>3 DEF Rests

LEMMA SolutionExists ==
  ASSUME NEW pattern \in Name, NEW value \in Name
  PROVE  \E f : Solves(pattern, value, f)
<1> DEFINE f == [rest \in Rests(pattern, value) |-> RestFits(pattern, value, rest[1], rest[2])]
<1>1. Len(pattern) \in Nat /\ Len(value) \in Nat
  BY LenProperties DEF Name
<1>2. ASSUME NEW p \in 1 .. Len(pattern) + 1, NEW v \in 1 .. Len(value) + 1
      PROVE  RestFits(pattern, value, p, v) = GlobStep(pattern, value, f, p, v)
  <2>1. /\ p <= Len(pattern) => f[<<p + 1, v>>] = RestFits(pattern, value, p + 1, v)
        /\ v <= Len(value) => f[<<p, v + 1>>] = RestFits(pattern, value, p, v + 1)
        /\ p <= Len(pattern) /\ v <= Len(value) =>
             f[<<p + 1, v + 1>>] = RestFits(pattern, value, p + 1, v + 1)
    BY RestsWithin
  <2> HIDE DEF f
  <2>2. p > Len(pattern) \/ p <= Len(pattern)
    BY <1>1
  <2>3. RestFits(pattern, value, p, v) <=> GlobStep(pattern, value, f, p, v)
    BY <2>1, <2>2, FitsAsMatched DEF GlobStep
  <2>4. RestFits(pattern, value, p, v) \in BOOLEAN
    BY DEF RestFits
  <2>5. GlobStep(pattern, value, f, p, v) \in BOOLEAN
    <3>1. CASE p > Len(pattern)
      <4>1. GlobStep(pattern, value, f, p, v) = (v > Len(value))
        BY <3>1, Zenon DEF GlobStep
      <4>2. (v > Len(value)) \in BOOLEAN
        OBVIOUS
      <4> QED
        BY <4>1, <4>2, Zenon
    <3>2. CASE ~(p > Len(pattern)) /\ pattern[p] = "*"
      <4>1. GlobStep(pattern, value, f, p, v) =
              (f[<<p + 1, v>>] \/ (v <= Len(value) /\ f[<<p, v + 1>>]))
        BY <3>2, Zenon DEF GlobStep
      <4>2. (f[<<p + 1, v>>] \/ (v <= Len(value) /\ f[<<p, v + 1>>])) \in BOOLEAN
        BY Zenon
      <4> QED
        BY <4>1, <4>2, Zenon
    <3>3. CASE ~(p > Len(pattern)) /\ pattern[p] # "*"
      <4>1. GlobStep(pattern, value, f, p, v) =
              (v <= Len(value) /\ pattern[p] \in {"?", value[v]} /\ f[<<p + 1, v + 1>>])
        BY <3>3, Zenon DEF GlobStep
      <4>2. (v <= Len(value) /\ pattern[p] \in {"?", value[v]} /\ f[<<p + 1, v + 1>>])
              \in BOOLEAN
        BY Zenon
      <4> QED
        BY <4>1, <4>2, Zenon
    <3> QED
      BY <3>1, <3>2, <3>3
  <2> QED
    BY <2>3, <2>4, <2>5
<1>3. ASSUME NEW rest \in Rests(pattern, value)
      PROVE  f[rest] = GlobStep(pattern, value, f, rest[1], rest[2])
  <2>1. rest[1] \in 1 .. Len(pattern) + 1 /\ rest[2] \in 1 .. Len(value) + 1
    BY DEF Rests
  <2>2. f[rest] = RestFits(pattern, value, rest[1], rest[2])
    OBVIOUS
  <2> HIDE DEF f
  <2> QED
    BY <1>2, <2>1, <2>2
<1>4. f = [rest \in Rests(pattern, value) |-> f[rest]]
  OBVIOUS
<1> HIDE DEF f
<1>5. Solves(pattern, value, f)
  BY <1>3, <1>4 DEF Solves
<1> QED
  BY <1>5

LEMMA SolutionUnique ==
  ASSUME NEW pattern \in Name, NEW value \in Name, NEW f, Solves(pattern, value, f)
  PROVE  \A p \in 1 .. Len(pattern) + 1, v \in 1 .. Len(value) + 1 :
           f[<<p, v>>] <=> RestFits(pattern, value, p, v)
<1> DEFINE m == Len(pattern)
           n == Len(value)
           Agrees(p, v) == f[<<p, v>>] <=> RestFits(pattern, value, p, v)
           Far(p, v) == (m + 1 - p) + (n + 1 - v)
           D == {k \in Nat : \E p \in 1 .. m + 1, v \in 1 .. n + 1 : k = Far(p, v) /\ ~Agrees(p, v)}
<1>1. m \in Nat /\ n \in Nat
  BY LenProperties DEF Name
<1>2. ASSUME NEW p \in 1 .. m + 1, NEW v \in 1 .. n + 1,
             p <= m => Agrees(p + 1, v),
             v <= n => Agrees(p, v + 1),
             p <= m /\ v <= n => Agrees(p + 1, v + 1)
      PROVE  Agrees(p, v)
  <2>1. <<p, v>> \in Rests(pattern, value)
    BY RestsWithin
  <2>2. f[<<p, v>>] = GlobStep(pattern, value, f, p, v)
    BY <2>1 DEF Solves
  <2>3. p > m \/ p <= m
    BY <1>1
  <2>4. GlobStep(pattern, value, f, p, v) <=> RestFits(pattern, value, p, v)
    BY <1>2, <2>3, FitsAsMatched DEF GlobStep
  <2> QED
    BY <2>2, <2>4
<1> SUFFICES ASSUME D # {} PROVE FALSE
  <2>1. \A p \in 1 .. m + 1, v \in 1 .. n + 1 : Far(p, v) \in Nat
    BY <1>1
  <2> HIDE DEF Far
  <2> QED
    BY <2>1
<1>3. PICK k \in D : \A j \in D : k <= j
  <2>1. D \in SUBSET Nat
    OBVIOUS
  <2> HIDE DEF D
  <2> QED
    BY <2>1, LeastNatural
<1>4. PICK p \in 1 .. m + 1, v \in 1 .. n + 1 : k = Far(p, v) /\ ~Agrees(p, v)
  BY <1>3
<1>5. ASSUME NEW q \in 1 .. m + 1, NEW w \in 1 .. n + 1, Far(q, w) < Far(p, v) PROVE Agrees(q, w)
  <2>1. Far(q, w) \in Nat /\ Far(p, v) \in Nat
    BY <1>1
  <2>2. Far(q, w) \notin D
    <3> HIDE DEF D, Far
    <3> QED
      BY <1>3, <1>4, <1>5, <2>1
  <2> HIDE DEF Far, Agrees
  <2> QED
    BY <2>1, <2>2
<1>6. /\ p <= m => p + 1 \in 1 .. m + 1 /\ Far(p + 1, v) < Far(p, v)
      /\ v <= n => v + 1 \in 1 .. n + 1 /\ Far(p, v + 1) < Far(p, v)
      /\ p <= m /\ v <= n => Far(p + 1, v + 1) < Far(p, v)
  BY <1>1
<1> HIDE DEF Far, Agrees, D, m, n
<1> QED
  BY <1>2, <1>4, <1>5, <1>6

(* What glob_matches answers, byte by byte, is whether the value is in the *)
(* language of the pattern, for every pattern and every value.             *)
THEOREM GlobMatchesLanguage ==
  ASSUME NEW pattern \in Name, NEW value \in Name
  PROVE  GlobMatches(pattern, value) <=> InLanguage(value, pattern)
<1> DEFINE f == CHOOSE g : Solves(pattern, value, g)
<1>1. Solves(pattern, value, f)
  BY SolutionExists
<1> HIDE DEF f
<1>2. 1 \in 1 .. Len(pattern) + 1 /\ 1 \in 1 .. Len(value) + 1
  BY LenProperties DEF Name
<1>3. f[<<1, 1>>] <=> RestFits(pattern, value, 1, 1)
  BY <1>1, <1>2, SolutionUnique
<1>4. GlobMatches(pattern, value) = f[<<1, 1>>]
  BY GlobSolves DEF f
<1> QED
  BY <1>3, <1>4, FitsWhole

-----------------------------------------------------------------------------
(* Selections: what the sorts and filters of task directories leave.       *)
InPlaceOrder(list) == \A i, j \in 1 .. Len(list) : i < j => list[i].place < list[j].place

Holding(list, dir) == \E i \in 1 .. Len(list) : list[i] = dir

LEMMA SortedChildren ==
  ASSUME NEW dirs, IsFiniteSet(dirs), \A dir \in dirs : TaskDir(dir),
         \A dir, other \in dirs : dir.place = other.place => dir = other
  PROVE  /\ SortedChildDirs(dirs) \in Seq(dirs)
         /\ InPlaceOrder(SortedChildDirs(dirs))
         /\ \A dir \in dirs : Holding(SortedChildDirs(dirs), dir)
<1> DEFINE placed == {dir.place : dir \in dirs}
           at == Ascending(placed)
           n == Cardinality(placed)
           list == SortedChildDirs(dirs)
<1>1. placed \in SUBSET Nat /\ IsFiniteSet(placed)
  <2>1. placed \in SUBSET Nat
    BY DEF TaskDir
  <2> DEFINE f == [dir \in dirs |-> dir.place]
  <2>2. f \in Surjection(dirs, placed)
    BY DEF Surjection
  <2> HIDE DEF f, placed
  <2> QED
    BY <2>1, <2>2, FS_Surjection
<1>2. /\ at \in Seq(placed) /\ Len(at) = n /\ n \in Nat
      /\ \A i, j \in 1 .. n : i < j => at[i] < at[j]
      /\ \A x \in placed : \E i \in 1 .. n : at[i] = x
  <2> HIDE DEF placed
  <2> QED
    BY <1>1, AscendingOrder
<1>3. DOMAIN at = 1 .. n /\ \A i \in 1 .. n : at[i] \in placed
  <2> HIDE DEF placed, at, n
  <2> QED
    BY <1>2
<1>4. \A i \in 1 .. n : \E dir \in dirs : dir.place = at[i]
  BY <1>3
<1>5. list = [i \in 1 .. n |-> CHOOSE dir \in dirs : dir.place = at[i]]
  BY <1>3 DEF SortedChildDirs
<1>6. \A i \in 1 .. n : list[i] \in dirs /\ list[i].place = at[i]
  <2> HIDE DEF at, n, list
  <2> QED
    BY <1>4, <1>5
<1>7. list \in Seq(dirs) /\ Len(list) = n
  <2> HIDE DEF n, at
  <2>1. list \in [1 .. n -> dirs]
    <3> HIDE DEF list
    <3> QED
      BY <1>5, <1>6
  <2> HIDE DEF list
  <2> QED
    BY <1>2, <2>1, SeqDef
<1>8. InPlaceOrder(list)
  <2> HIDE DEF n, at, list
  <2> QED
    BY <1>2, <1>6, <1>7 DEF InPlaceOrder
<1>9. \A dir \in dirs : Holding(list, dir)
  <2> SUFFICES ASSUME NEW dir \in dirs PROVE Holding(list, dir)
    OBVIOUS
  <2>1. PICK i \in 1 .. n : at[i] = dir.place
    BY <1>2
  <2> HIDE DEF n, at, list
  <2>2. list[i] = dir
    BY <1>6, <2>1
  <2> QED
    BY <1>7, <2>2 DEF Holding
<1> QED
  BY <1>7, <1>8, <1>9

LEMMA RetainOrder ==
  ASSUME NEW S, NEW list \in Seq(S), NEW K \in SUBSET (1 .. Len(list))
  PROVE  /\ Retain(list, K) \in Seq(S) /\ IsFiniteSet(K)
         /\ \A i \in 1 .. Len(Retain(list, K)) :
              Ascending(K)[i] \in K /\ Retain(list, K)[i] = list[Ascending(K)[i]]
         /\ \A i, j \in 1 .. Len(Retain(list, K)) : i < j => Ascending(K)[i] < Ascending(K)[j]
         /\ \A x \in K : \E i \in 1 .. Len(Retain(list, K)) : Ascending(K)[i] = x
<1> DEFINE n == Cardinality(K)
           at == Ascending(K)
           kept == Retain(list, K)
<1>1. K \in SUBSET Nat /\ IsFiniteSet(K)
  <2>1. Len(list) \in Nat
    BY LenProperties
  <2>2. K \in SUBSET Nat
    BY <2>1
  <2> DEFINE range == 1 .. Len(list)
  <2>3. IsFiniteSet(range) /\ K \subseteq range
    BY <2>1, FS_Interval
  <2> HIDE DEF range
  <2> QED
    BY <2>2, <2>3, FS_Subset
<1>2. /\ at \in Seq(K) /\ Len(at) = n /\ n \in Nat
      /\ \A i, j \in 1 .. n : i < j => at[i] < at[j]
      /\ \A x \in K : \E i \in 1 .. n : at[i] = x
  BY <1>1, AscendingOrder
<1>3. DOMAIN at = 1 .. n /\ \A i \in 1 .. n : at[i] \in K
  <2> HIDE DEF at, n
  <2> QED
    BY <1>2
<1>4. kept = [i \in 1 .. n |-> list[at[i]]]
  BY <1>3 DEF Retain
<1>5. \A i \in 1 .. n : list[at[i]] \in S
  <2>1. \A x \in K : list[x] \in S
    OBVIOUS
  <2> HIDE DEF at, n
  <2> QED
    BY <1>3, <2>1
<1>6. kept \in Seq(S) /\ Len(kept) = n
  <2> HIDE DEF n, at
  <2>1. kept \in [1 .. n -> S]
    <3> HIDE DEF kept
    <3> QED
      BY <1>4, <1>5
  <2> HIDE DEF kept
  <2> QED
    BY <1>2, <2>1, SeqDef
<1> HIDE DEF n, at, kept
<1> QED
  BY <1>1, <1>2, <1>3, <1>4, <1>6 DEF at, kept

-----------------------------------------------------------------------------
(* Selections: the inductive invariant.  Directories come from the world,  *)
(* what was loaded is valid, the request has one clear source once it was  *)
(* looked at, and of a local dataset nothing valid is lost on the way and  *)
(* nothing changes places.                                                 *)
KnownDirs ==
  world.children \cup {world.root}
    \cup UNION {{world.registry[i].tasks[j].dir : j \in DOMAIN world.registry[i].tasks} :
                i \in DOMAIN world.registry}

ListsOK ==
  /\ tasks \in Seq(KnownDirs) /\ pending \in Seq(KnownDirs)
  /\ \A i \in 1 .. Len(tasks) : Valid(tasks[i])

Resolved ==
  /\ pcSelect \in {"resolve", "local", "registry", "apply"} \/ result = "ok" =>
       HasSource /\ SourcesValid
  /\ pcSelect # "done" => result = "none"
  /\ pcSelect \in {"sources", "resolve"} => tasks = << >>
  /\ pcSelect = "local" => Given("path") /\ ~HasToml(world.root)
  /\ pcSelect = "registry" => ~Given("path")

NothingLost ==
  pcSelect \in {"local", "apply"} /\ Given("path") =>
    /\ InPlaceOrder(tasks) /\ InPlaceOrder(pending)
    /\ \A i \in 1 .. Len(tasks), j \in 1 .. Len(pending) : tasks[i].place < pending[j].place
    /\ \A dir \in world.children : Valid(dir) => Holding(tasks, dir) \/ Holding(pending, dir)
    /\ pcSelect = "apply" => pending = << >>

SelectionInv ==
  /\ asked \in Request /\ world \in World
  /\ pcSelect \in {"sources", "resolve", "local", "registry", "apply", "done"}
  /\ result \in {"none", "ok", "usage", "io"}
  /\ ListsOK /\ Resolved /\ NothingLost /\ SelectionAsAsked

(* A world's directories are as the assumption on worlds says.             *)
LEMMA TheWorld ==
  ASSUME SelectionInv
  PROVE  /\ IsFiniteSet(world.children)
         /\ \A dir, other \in world.children : dir.place = other.place => dir = other
         /\ \A dir \in KnownDirs : TaskDir(dir)
         /\ world.root \in KnownDirs /\ world.children \subseteq KnownDirs
         /\ Len(world.registry) \in Nat /\ DOMAIN world.registry = 1 .. Len(world.registry)
         /\ \A i \in DOMAIN world.registry :
              /\ Len(world.registry[i].tasks) \in Nat
              /\ DOMAIN world.registry[i].tasks = 1 .. Len(world.registry[i].tasks)
              /\ \A j \in DOMAIN world.registry[i].tasks :
                   world.registry[i].tasks[j].dir \in KnownDirs
<1>1. world \in World
  BY DEF SelectionInv
<1>2. /\ IsFiniteSet(world.children)
      /\ \A dir \in world.children : TaskDir(dir)
      /\ \A dir, other \in world.children : dir.place = other.place => dir = other
      /\ TaskDir(world.root)
      /\ InARow(world.registry)
      /\ \A i \in DOMAIN world.registry :
           /\ InARow(world.registry[i].tasks)
           /\ \A j \in DOMAIN world.registry[i].tasks : TaskDir(world.registry[i].tasks[j].dir)
  BY <1>1, WorldAssumption
<1> QED
  BY <1>2 DEF KnownDirs, InARow

LEMMA SelectionTyped == SelectionInv => SelectionTypeOK
<1> SUFFICES ASSUME SelectionInv PROVE SelectionTypeOK
  OBVIOUS
<1>1. tasks \in Seq(KnownDirs) /\ pending \in Seq(KnownDirs)
  BY DEF SelectionInv, ListsOK
<1>2. \A i \in DOMAIN tasks : tasks[i] \in KnownDirs
  BY <1>1
<1>3. \A i \in DOMAIN pending : pending[i] \in KnownDirs
  BY <1>1
<1>4. \A dir \in KnownDirs : TaskDir(dir)
  BY TheWorld
<1> QED
  BY <1>2, <1>3, <1>4 DEF SelectionInv, SelectionTypeOK

LEMMA SelectionInvInit == SelectionInit => SelectionInv
<1> SUFFICES ASSUME SelectionInit PROVE SelectionInv
  OBVIOUS
<1>1. << >> \in Seq(KnownDirs) /\ Len(<< >>) = 0
  BY EmptySeq
<1> QED
  BY <1>1 DEF SelectionInit, SelectionInv, ListsOK, Resolved, NothingLost, SelectionAsAsked

-----------------------------------------------------------------------------
(* Selections: every step keeps the invariant.                             *)
LEMMA RefusalKeeps ==
  ASSUME SelectionInv, NEW with \in {"usage", "io"}, End(with), UNCHANGED tasks
  PROVE  SelectionInv'
<1>1. ListsOK' = ListsOK
  BY DEF ListsOK, End, KnownDirs, Valid, HasToml
<1> QED
  BY <1>1 DEF SelectionInv, End, Resolved, NothingLost, SelectionAsAsked

LEMMA CheckSourcesKeeps == ASSUME SelectionInv, CheckSources PROVE SelectionInv'
<1>1. CASE ~(HasSource /\ SourcesValid)
  <2>1. End("usage") /\ UNCHANGED tasks
    BY <1>1 DEF CheckSources
  <2> QED
    BY <2>1, RefusalKeeps
<1>2. CASE HasSource /\ SourcesValid
  <2>1. /\ pcSelect = "sources" /\ pcSelect' = "resolve"
        /\ UNCHANGED <<asked, world, pending, result, tasks>>
    BY <1>2 DEF CheckSources
  <2>2. ListsOK' = ListsOK
    BY <2>1 DEF ListsOK, KnownDirs, Valid, HasToml
  <2>3. Resolved'
    BY <1>2, <2>1 DEF SelectionInv, Resolved, HasSource, SourcesValid, Given
  <2> QED
    BY <2>1, <2>2, <2>3 DEF SelectionInv, NothingLost, SelectionAsAsked
<1> QED
  BY <1>1, <1>2

LEMMA ResolveTaskPathKeeps == ASSUME SelectionInv, ResolveTaskPath PROVE SelectionInv'
<1>1. CASE ~Loads(world.root)
  <2>1. End(LoadError(world.root)) /\ UNCHANGED tasks
    BY <1>1 DEF ResolveTaskPath
  <2>2. LoadError(world.root) \in {"usage", "io"}
    BY DEF LoadError
  <2> QED
    BY <2>1, <2>2, RefusalKeeps
<1>2. CASE Loads(world.root)
  <2>1. /\ pcSelect = "resolve" /\ Given("path") /\ HasToml(world.root)
        /\ tasks' = <<world.root>> /\ pcSelect' = "done" /\ result' = "ok"
        /\ UNCHANGED <<asked, world, pending>>
    BY <1>2 DEF ResolveTaskPath, End
  <2>2. ListsOK'
    <3>1. world.root \in KnownDirs /\ Valid(world.root)
      BY <1>2, TheWorld DEF Loads
    <3>2. /\ <<world.root>> \in Seq(KnownDirs) /\ Len(<<world.root>>) = 1
          /\ <<world.root>>[1] = world.root
      BY <3>1
    <3> QED
      BY <2>1, <3>1, <3>2 DEF SelectionInv, ListsOK, KnownDirs, Valid, HasToml
  <2>3. Resolved'
    BY <2>1 DEF SelectionInv, Resolved, HasSource, SourcesValid, Given
  <2> QED
    BY <2>1, <2>2, <2>3 DEF SelectionInv, NothingLost, SelectionAsAsked, Given, HasToml
<1> QED
  BY <1>1, <1>2

(* A step to loading: the list of what is to be loaded is from the world.  *)
LEMMA LoadKeepsLists ==
  ASSUME SelectionInv, NEW label, NEW dirs \in Seq(KnownDirs), Load(label, dirs)
  PROVE  ListsOK'
BY DEF SelectionInv, ListsOK, KnownDirs, Valid, HasToml, Load

LEMMA ResolveDatasetPathKeeps == ASSUME SelectionInv, ResolveDatasetPath PROVE SelectionInv'
<1>1. CASE ~world.isDir
  <2>1. End("usage") /\ UNCHANGED tasks
    BY <1>1 DEF ResolveDatasetPath
  <2> QED
    BY <2>1, RefusalKeeps
<1>2. CASE world.isDir
  <2> DEFINE dirs == {dir \in world.children : HasToml(dir)}
             list == SortedChildDirs(dirs)
  <2>1. /\ pcSelect = "resolve" /\ Given("path") /\ ~HasToml(world.root)
        /\ Load("local", list)
    BY <1>2 DEF ResolveDatasetPath
  <2>2. /\ list \in Seq(dirs) /\ InPlaceOrder(list) /\ \A dir \in dirs : Holding(list, dir)
    <3>1. IsFiniteSet(dirs) /\ dirs \subseteq KnownDirs
      BY TheWorld, FS_Subset
    <3>2. /\ \A dir \in dirs : TaskDir(dir)
          /\ \A dir, other \in dirs : dir.place = other.place => dir = other
      BY <3>1, TheWorld
    <3> HIDE DEF dirs, list
    <3> QED
      BY <3>1, <3>2, SortedChildren DEF list
  <2>3. list \in Seq(KnownDirs)
    <3>1. dirs \subseteq KnownDirs
      BY TheWorld
    <3> HIDE DEF dirs, list
    <3> QED
      BY <2>2, <3>1
  <2>4. \A dir \in world.children : Valid(dir) => dir \in dirs
    BY DEF Valid
  <2> HIDE DEF dirs, list
  <2>5. ListsOK'
    BY <2>1, <2>3, LoadKeepsLists
  <2>6. /\ pcSelect' = "local" /\ pending' = list /\ tasks = << >>
        /\ UNCHANGED <<asked, world, tasks, result>>
    BY <2>1 DEF SelectionInv, Resolved, Load
  <2>7. Resolved'
    BY <2>1, <2>6 DEF SelectionInv, Resolved, HasSource, SourcesValid, Given, HasToml
  <2>8. NothingLost'
    <3>1. Len(<< >>) = 0
      OBVIOUS
    <3>2. InPlaceOrder(tasks')
      BY <2>6, <3>1 DEF InPlaceOrder
    <3> QED
      BY <2>2, <2>4, <2>6, <3>1, <3>2 DEF NothingLost, Valid, HasToml
  <2> QED
    BY <2>1, <2>5, <2>6, <2>7, <2>8 DEF SelectionInv, SelectionAsAsked
<1> QED
  BY <1>1, <1>2

(* The first place of a row that matches is a place of a row that matches. *)
LEMMA FirstPlaceFound == ASSUME SelectionInv, Places # {} PROVE FirstPlace \in Places
<1> DEFINE First(p) == \A q \in Places : p[1] < q[1] \/ (p[1] = q[1] /\ p[2] <= q[2])
<1>1. \A p \in Places : p[1] \in Nat /\ p[2] \in Nat
  BY TheWorld DEF Places
<1>2. \A p, q \in Places : p[1] = q[1] /\ p[2] = q[2] => p = q
  BY DEF Places
<1>3. PICK i \in {p[1] : p \in Places} : \A n \in {p[1] : p \in Places} : i <= n
  <2> DEFINE firsts == {p[1] : p \in Places}
  <2>1. firsts \in SUBSET Nat /\ firsts # {}
    BY <1>1
  <2> HIDE DEF firsts
  <2>2. \E i \in firsts : \A n \in firsts : i <= n
    BY <2>1, LeastNatural
  <2> QED
    BY <2>2 DEF firsts
<1> DEFINE seconds == {p[2] : p \in {q \in Places : q[1] = i}}
<1>4. PICK j \in seconds : \A n \in seconds : j <= n
  <2>1. seconds \in SUBSET Nat /\ seconds # {}
    BY <1>1, <1>3
  <2> HIDE DEF seconds
  <2> QED
    BY <2>1, LeastNatural
<1>5. PICK p \in Places : p[1] = i /\ p[2] = j
  BY <1>4
<1>6. First(p)
  <2> SUFFICES ASSUME NEW q \in Places PROVE p[1] < q[1] \/ (p[1] = q[1] /\ p[2] <= q[2])
    OBVIOUS
  <2>1. p[1] <= q[1]
    BY <1>3, <1>5
  <2>2. q[1] = i => p[2] <= q[2]
    BY <1>4, <1>5
  <2>3. p[1] \in Nat /\ q[1] \in Nat
    BY <1>1
  <2> QED
    BY <1>5, <2>1, <2>2, <2>3
<1>7. FirstPlace = CHOOSE p_1 \in Places : First(p_1)
  BY DEF FirstPlace
<1> HIDE DEF First
<1> QED
  BY <1>5, <1>6, <1>7

LEMMA ResolveRegistryTaskKeeps == ASSUME SelectionInv, ResolveRegistryTask PROVE SelectionInv'
<1>1. CASE Places = {}
  <2>1. End("usage") /\ UNCHANGED tasks
    BY <1>1 DEF ResolveRegistryTask
  <2> QED
    BY <2>1, RefusalKeeps
<1>2. CASE Places # {}
  <2> DEFINE dir == world.registry[FirstPlace[1]].tasks[FirstPlace[2]].dir
  <2>1. pcSelect = "resolve" /\ ~Given("path") /\ Load("registry", <<dir>>)
    BY <1>2 DEF ResolveRegistryTask
  <2>2. FirstPlace \in Places
    BY <1>2, FirstPlaceFound
  <2>3. dir \in KnownDirs
    BY <2>2, TheWorld DEF Places
  <2> HIDE DEF dir
  <2>4. <<dir>> \in Seq(KnownDirs)
    BY <2>3
  <2>5. ListsOK'
    BY <2>1, <2>4, LoadKeepsLists
  <2> QED
    BY <2>1, <2>5 DEF SelectionInv, SelectionAsAsked, Load, Resolved, NothingLost, HasSource,
                      SourcesValid, Given
<1> QED
  BY <1>1, <1>2

LEMMA ResolveRegistryDatasetKeeps ==
  ASSUME SelectionInv, ResolveRegistryDataset PROVE SelectionInv'
<1>1. CASE ~(Specs # {} /\ Version \in Versions)
  <2>1. End("usage") /\ UNCHANGED tasks
    BY <1>1 DEF ResolveRegistryDataset
  <2> QED
    BY <2>1, RefusalKeeps
<1>2. CASE Specs # {} /\ Version \in Versions
  <2> DEFINE found == {i \in Specs : world.registry[i].version = Version}
             rows == world.registry[Min(found)].tasks
             dirs == [j \in DOMAIN rows |-> rows[j].dir]
  <2>1. pcSelect = "resolve" /\ ~Given("path") /\ Load("registry", dirs)
    BY <1>2 DEF ResolveRegistryDataset
  <2>2. Min(found) \in DOMAIN world.registry
    <3>1. found \in SUBSET Nat /\ found # {} /\ found \subseteq DOMAIN world.registry
      BY <1>2, TheWorld DEF Specs, Versions
    <3> HIDE DEF found
    <3>2. \E m \in found : \A n \in found : m <= n
      BY <3>1, LeastNatural
    <3> QED
      BY <3>1, <3>2 DEF Min
  <2>3. /\ Len(rows) \in Nat /\ DOMAIN rows = 1 .. Len(rows)
        /\ \A j \in DOMAIN rows : rows[j].dir \in KnownDirs
    <3> HIDE DEF found
    <3> QED
      BY <2>2, TheWorld
  <2> HIDE DEF rows
  <2>4. dirs \in [1 .. Len(rows) -> KnownDirs]
    BY <2>3
  <2> HIDE DEF dirs
  <2>5. dirs \in Seq(KnownDirs)
    BY <2>3, <2>4, SeqDef
  <2>6. ListsOK'
    BY <2>1, <2>5, LoadKeepsLists
  <2> QED
    BY <2>1, <2>6 DEF SelectionInv, SelectionAsAsked, Load, Resolved, NothingLost, HasSource,
                      SourcesValid, Given
<1> QED
  BY <1>1, <1>2

(* Directories are loaded in their order: what is taken from one list is   *)
(* at the end of the other.                                                *)
LEMMA HeadAndTail ==
  ASSUME NEW S, NEW list \in Seq(S), list # << >>
  PROVE  /\ Head(list) \in S /\ Tail(list) \in Seq(S) /\ Len(Tail(list)) \in Nat
         /\ Len(list) = Len(Tail(list)) + 1 /\ Head(list) = list[1]
         /\ \A i \in 1 .. Len(Tail(list)) : i + 1 \in 1 .. Len(list) /\ Tail(list)[i] = list[i + 1]
<1>1. Head(list) \in S /\ Tail(list) \in Seq(S) /\ Head(list) = list[1]
  BY HeadTailProperties
<1>2. Len(Tail(list)) = Len(list) - 1 /\ Len(list) \in Nat /\ Len(list) # 0
  BY HeadTailProperties, EmptySeq, LenProperties
<1>3. \A i \in 1 .. Len(Tail(list)) : Tail(list)[i] = list[i + 1]
  BY <1>1, <1>2, HeadTailProperties
<1> QED
  BY <1>1, <1>2, <1>3

LEMMA TailKeepsOrder ==
  ASSUME NEW S, NEW list \in Seq(S), list # << >>, InPlaceOrder(list)
  PROVE  /\ InPlaceOrder(Tail(list))
         /\ \A i \in 1 .. Len(Tail(list)) : Head(list).place < Tail(list)[i].place
<1>1. /\ Len(Tail(list)) \in Nat /\ Len(list) = Len(Tail(list)) + 1 /\ Head(list) = list[1]
      /\ \A i \in 1 .. Len(Tail(list)) : i + 1 \in 1 .. Len(list) /\ Tail(list)[i] = list[i + 1]
  BY HeadAndTail
<1>2. InPlaceOrder(Tail(list))
  <2> SUFFICES ASSUME NEW i \in 1 .. Len(Tail(list)), NEW j \in 1 .. Len(Tail(list)), i < j
               PROVE  Tail(list)[i].place < Tail(list)[j].place
    BY DEF InPlaceOrder
  <2>1. i + 1 \in 1 .. Len(list) /\ j + 1 \in 1 .. Len(list) /\ i + 1 < j + 1
    BY <1>1
  <2>2. list[i + 1].place < list[j + 1].place
    BY <2>1 DEF InPlaceOrder
  <2> QED
    BY <1>1, <2>2
<1>3. ASSUME NEW i \in 1 .. Len(Tail(list)) PROVE Head(list).place < Tail(list)[i].place
  <2>1. 1 \in 1 .. Len(list) /\ i + 1 \in 1 .. Len(list) /\ 1 < i + 1
    BY <1>1
  <2>2. list[1].place < list[i + 1].place
    BY <2>1 DEF InPlaceOrder
  <2> QED
    BY <1>1, <2>2
<1> QED
  BY <1>2, <1>3

LEMMA AppendKeepsOrder ==
  ASSUME NEW S, NEW list \in Seq(S), NEW dir \in S, InPlaceOrder(list),
         \A i \in 1 .. Len(list) : list[i].place < dir.place
  PROVE  InPlaceOrder(Append(list, dir))
<1>1. /\ Len(list) \in Nat /\ Len(Append(list, dir)) = Len(list) + 1
      /\ \A i \in 1 .. Len(list) : Append(list, dir)[i] = list[i]
      /\ Append(list, dir)[Len(list) + 1] = dir
  BY AppendProperties, LenProperties
<1> SUFFICES ASSUME NEW i \in 1 .. Len(Append(list, dir)),
                    NEW j \in 1 .. Len(Append(list, dir)), i < j
             PROVE  Append(list, dir)[i].place < Append(list, dir)[j].place
  BY DEF InPlaceOrder
<1>2. i \in 1 .. Len(list) /\ (j \in 1 .. Len(list) \/ j = Len(list) + 1)
  BY <1>1
<1>3. CASE j \in 1 .. Len(list)
  BY <1>1, <1>2, <1>3 DEF InPlaceOrder
<1>4. CASE j = Len(list) + 1
  BY <1>1, <1>2, <1>4
<1> QED
  BY <1>2, <1>3, <1>4

LEMMA LoadTaskKeeps == ASSUME SelectionInv, LoadTask PROVE SelectionInv'
<1> DEFINE dir == Head(pending)
           rest == Tail(pending)
<1>1. pcSelect \in {"local", "registry"} /\ pending # << >>
  BY DEF LoadTask
<1>2. tasks \in Seq(KnownDirs) /\ pending \in Seq(KnownDirs)
  BY DEF SelectionInv, ListsOK
<1>3. /\ dir \in KnownDirs /\ rest \in Seq(KnownDirs) /\ Len(rest) \in Nat
      /\ Len(pending) = Len(rest) + 1 /\ dir = pending[1]
      /\ \A i \in 1 .. Len(rest) : i + 1 \in 1 .. Len(pending) /\ rest[i] = pending[i + 1]
  BY <1>1, <1>2, HeadAndTail
<1>4. InPlaceOrder(pending) =>
        InPlaceOrder(rest) /\ \A i \in 1 .. Len(rest) : dir.place < rest[i].place
  BY <1>1, <1>2, TailKeepsOrder
<1>5. \A other : Holding(pending, other) => other = dir \/ Holding(rest, other)
  <2> SUFFICES ASSUME NEW other, NEW i \in 1 .. Len(pending), pending[i] = other, other # dir
               PROVE  Holding(rest, other)
    BY DEF Holding
  <2> HIDE DEF dir, rest
  <2>1. i # 1
    BY <1>3
  <2>2. i - 1 \in 1 .. Len(rest) /\ (i - 1) + 1 = i
    BY <1>3, <2>1
  <2>3. rest[i - 1] = other
    BY <1>3, <2>2
  <2> QED
    BY <2>2, <2>3 DEF Holding
<1>6. CASE ~Loads(dir) /\ (LoadError(dir) = "io" \/ pcSelect = "registry")
  <2>1. pcSelect = "local" => LoadError(dir) # "usage"
    BY <1>6
  <2>2. End(LoadError(dir)) /\ UNCHANGED tasks
    BY <1>6, <2>1 DEF LoadTask
  <2>3. LoadError(dir) \in {"usage", "io"}
    BY DEF LoadError
  <2> HIDE DEF dir
  <2> QED
    BY <2>2, <2>3, RefusalKeeps
<1>7. CASE ~Loads(dir) /\ LoadError(dir) = "usage" /\ pcSelect = "local"
  <2>1. pending' = rest /\ UNCHANGED <<asked, world, pcSelect, tasks, result>>
    BY <1>7 DEF LoadTask
  <2>2. ~Valid(dir)
    BY <1>7 DEF LoadError
  <2> HIDE DEF dir, rest
  <2>3. ListsOK'
    BY <1>3, <2>1 DEF SelectionInv, ListsOK, KnownDirs, Valid, HasToml
  <2>4. Resolved'
    BY <2>1 DEF SelectionInv, Resolved, HasSource, SourcesValid, Given, HasToml
  <2>5. NothingLost'
    <3> SUFFICES ASSUME Given("path") PROVE NothingLost'
      BY <2>1 DEF NothingLost, Given
    <3>1. /\ InPlaceOrder(tasks) /\ InPlaceOrder(pending)
          /\ \A i \in 1 .. Len(tasks), j \in 1 .. Len(pending) : tasks[i].place < pending[j].place
          /\ \A other \in world.children :
               Valid(other) => Holding(tasks, other) \/ Holding(pending, other)
      BY <1>7 DEF SelectionInv, NothingLost
    <3>2. \A i \in 1 .. Len(tasks), j \in 1 .. Len(rest) : tasks[i].place < rest[j].place
      BY <1>3, <3>1
    <3>3. \A other \in world.children :
            Valid(other) => Holding(tasks, other) \/ Holding(rest, other)
      BY <1>5, <2>2, <3>1
    <3> QED
      BY <1>4, <1>7, <2>1, <3>1, <3>2, <3>3 DEF NothingLost, Valid, HasToml
  <2> QED
    BY <1>7, <2>1, <2>3, <2>4, <2>5 DEF SelectionInv, SelectionAsAsked
<1>8. CASE Loads(dir)
  <2> DEFINE longer == Append(tasks, dir)
  <2>1. /\ tasks' = longer /\ pending' = rest
        /\ UNCHANGED <<asked, world, pcSelect, result>>
    BY <1>8 DEF LoadTask
  <2>2. Valid(dir)
    BY <1>8 DEF Loads
  <2> HIDE DEF dir, rest
  <2>3. /\ longer \in Seq(KnownDirs) /\ Len(longer) = Len(tasks) + 1 /\ Len(tasks) \in Nat
        /\ \A i \in 1 .. Len(tasks) : longer[i] = tasks[i]
        /\ longer[Len(tasks) + 1] = dir
    BY <1>2, <1>3, AppendProperties, LenProperties
  <2>4. \A i \in 1 .. Len(longer) : i = Len(tasks) + 1 \/ i \in 1 .. Len(tasks)
    <3> HIDE DEF longer
    <3> QED
      BY <2>3
  <2>5. Len(tasks) + 1 \in 1 .. Len(longer) /\ 1 .. Len(tasks) \subseteq 1 .. Len(longer)
    <3> HIDE DEF longer
    <3> QED
      BY <2>3
  <2>6. InPlaceOrder(tasks) /\ (\A i \in 1 .. Len(tasks) : tasks[i].place < dir.place) =>
          InPlaceOrder(longer)
    BY <1>2, <1>3, AppendKeepsOrder
  <2> HIDE DEF longer
  <2>7. ListsOK'
    <3>1. \A i \in 1 .. Len(longer) : Valid(longer[i])
      BY <2>2, <2>3, <2>4 DEF SelectionInv, ListsOK
    <3> QED
      BY <1>3, <2>1, <2>3, <3>1 DEF ListsOK, KnownDirs, Valid, HasToml
  <2>8. Resolved'
    BY <1>1, <2>1 DEF SelectionInv, Resolved, HasSource, SourcesValid, Given, HasToml
  <2>9. NothingLost'
    <3> SUFFICES ASSUME Given("path"), pcSelect = "local" PROVE NothingLost'
      BY <1>1, <2>1 DEF NothingLost, Given
    <3>1. /\ InPlaceOrder(tasks) /\ InPlaceOrder(pending)
          /\ \A i \in 1 .. Len(tasks), j \in 1 .. Len(pending) : tasks[i].place < pending[j].place
          /\ \A other \in world.children :
               Valid(other) => Holding(tasks, other) \/ Holding(pending, other)
      BY DEF SelectionInv, NothingLost
    <3>2. \A i \in 1 .. Len(tasks) : tasks[i].place < dir.place
      <4>1. 1 \in 1 .. Len(pending)
        BY <1>3
      <4> QED
        BY <1>3, <3>1, <4>1
    <3>3. \A i \in 1 .. Len(longer), j \in 1 .. Len(rest) : longer[i].place < rest[j].place
      BY <1>3, <1>4, <2>3, <2>4, <3>1
    <3>4. \A other \in world.children :
            Valid(other) => Holding(longer, other) \/ Holding(rest, other)
      <4>1. Holding(longer, dir)
        BY <2>3, <2>5 DEF Holding
      <4>2. \A other : Holding(tasks, other) => Holding(longer, other)
        BY <2>3, <2>5 DEF Holding
      <4> QED
        BY <1>5, <3>1, <4>1, <4>2
    <3> QED
      BY <1>4, <2>1, <2>6, <3>1, <3>2, <3>3, <3>4 DEF NothingLost, Valid, HasToml
  <2> QED
    BY <1>1, <2>1, <2>7, <2>8, <2>9 DEF SelectionInv, SelectionAsAsked
<1>9. Loads(dir) \/ LoadError(dir) \in {"io", "usage"}
  BY DEF LoadError
<1> QED
  BY <1>1, <1>6, <1>7, <1>8, <1>9

LEMMA LoadedKeeps == ASSUME SelectionInv, Loaded PROVE SelectionInv'
<1>1. CASE pcSelect = "local" /\ tasks = << >>
  <2>1. End("usage") /\ UNCHANGED tasks
    BY <1>1 DEF Loaded
  <2> QED
    BY <2>1, RefusalKeeps
<1>2. CASE ~(pcSelect = "local" /\ tasks = << >>)
  <2>1. /\ pcSelect \in {"local", "registry"} /\ pending = << >> /\ pcSelect' = "apply"
        /\ UNCHANGED <<asked, world, pending, result, tasks>>
    BY <1>2 DEF Loaded
  <2>2. ListsOK'
    BY <2>1 DEF SelectionInv, ListsOK, KnownDirs, Valid, HasToml
  <2>3. Resolved'
    BY <2>1 DEF SelectionInv, Resolved, HasSource, SourcesValid, Given
  <2>4. NothingLost'
    BY <2>1 DEF SelectionInv, NothingLost, Resolved, Given, Valid, HasToml
  <2> QED
    BY <2>1, <2>2, <2>3, <2>4 DEF SelectionInv, SelectionAsAsked
<1> QED
  BY <1>1, <1>2

(* The options that pass the checks name one source.                       *)
LEMMA OneSource ==
  ASSUME asked \in Request, HasSource, SourcesValid
  PROVE  asked.given \in {{"path"}, {"dataset"}, {"task"}, {"path", "git"},
                          {"path", "git", "commit"}}
<1> DEFINE g == asked.given
           several == g \cap {"path", "dataset", "task"}
<1>1. g \subseteq {"path", "dataset", "task", "git", "commit"}
  BY RequestAssumption DEF Flag
<1>2. CASE "git" \in g
  <2>1. "path" \in g /\ "dataset" \notin g /\ "task" \notin g
    BY <1>2 DEF SourcesValid, Given
  <2>2. CASE "commit" \in g
    <3>1. g = {"path", "git", "commit"}
      BY <1>1, <1>2, <2>1, <2>2
    <3> QED
      BY <3>1
  <2>3. CASE "commit" \notin g
    <3>1. g = {"path", "git"}
      BY <1>1, <1>2, <2>1, <2>3
    <3> QED
      BY <3>1
  <2> QED
    BY <2>2, <2>3
<1>3. CASE "git" \notin g
  <2>1. "commit" \notin g /\ Cardinality(several) <= 1
    BY <1>3 DEF SourcesValid, Given
  <2>2. g = several /\ several # {}
    BY <1>1, <1>3, <2>1 DEF HasSource
  <2>3. IsFiniteSet(several)
    <3> DEFINE three == {"path", "dataset", "task"}
    <3>1. IsFiniteSet({"path"}) /\ IsFiniteSet({"dataset"}) /\ IsFiniteSet({"task"})
      BY FS_Singleton
    <3>2. IsFiniteSet(({"path"} \cup {"dataset"}) \cup {"task"})
      BY <3>1, FS_Union
    <3>3. three = ({"path"} \cup {"dataset"}) \cup {"task"}
      OBVIOUS
    <3>4. IsFiniteSet(three) /\ several \subseteq three
      BY <3>2, <3>3
    <3> HIDE DEF several, three
    <3> QED
      BY <3>4, FS_Subset
  <2> HIDE DEF several
  <2>4. Cardinality(several) \in Nat /\ Cardinality(several) # 0
    BY <2>2, <2>3, FS_CardinalityType, FS_EmptySet
  <2>5. Cardinality(several) = 1
    BY <2>1, <2>4
  <2>6. PICK x : several = {x}
    BY <2>3, <2>5, FS_Singleton
  <2>7. x \in {"path", "dataset", "task"}
    BY <2>6 DEF several
  <2>8. g = {x}
    BY <2>2, <2>6
  <2> HIDE DEF g
  <2> QED
    BY <2>7, <2>8 DEF g
<1> QED
  BY <1>2, <1>3

(* The filters keep what is wanted.                                        *)
LEMMA SelectedWanted ==
  ASSUME asked \in Request, NEW name \in Name
  PROVE  Selected(name) <=> Wanted(name)
<1>1. \A pattern \in asked.include \cup asked.exclude :
        GlobMatches(pattern, name) <=> InLanguage(name, pattern)
  <2>1. asked.include \cup asked.exclude \subseteq Name
    BY RequestAssumption
  <2> QED
    BY <2>1, GlobMatchesLanguage
<1> QED
  BY <1>1 DEF Selected, Wanted

(* What a limit leaves of a list.                                          *)
LEMMA Prefix ==
  ASSUME NEW S, NEW list \in Seq(S), NEW n \in Nat, n <= Len(list)
  PROVE  /\ SubSeq(list, 1, n) \in Seq(S) /\ Len(SubSeq(list, 1, n)) = n
         /\ \A i \in 1 .. n : SubSeq(list, 1, n)[i] = list[i]
BY SubSeqProperties, LenProperties

LEMMA ApplyKeeps == ASSUME SelectionInv, Apply PROVE SelectionInv'
<1> DEFINE all == Retained
           kept == IF asked.limit = NoLimit \/ asked.limit > Len(all) THEN all
                   ELSE SubSeq(all, 1, asked.limit)
           K == {i \in DOMAIN tasks : Selected(tasks[i].name)}
           at == Ascending(K)
<1>1. /\ pcSelect = "apply" /\ tasks \in Seq(KnownDirs) /\ pending \in Seq(KnownDirs)
      /\ \A i \in 1 .. Len(tasks) : Valid(tasks[i])
  BY DEF Apply, SelectionInv, ListsOK
<1>2. DOMAIN tasks = 1 .. Len(tasks) /\ \A i \in 1 .. Len(tasks) : tasks[i] \in KnownDirs
  BY <1>1
<1>3. /\ all \in Seq(KnownDirs)
      /\ \A i \in 1 .. Len(all) : at[i] \in K /\ all[i] = tasks[at[i]]
      /\ \A i, j \in 1 .. Len(all) : i < j => at[i] < at[j]
      /\ \A x \in K : \E i \in 1 .. Len(all) : at[i] = x
  <2>1. K \in SUBSET (1 .. Len(tasks)) /\ all = Retain(tasks, K)
    BY <1>2 DEF Retained
  <2> HIDE DEF K, all
  <2> QED
    BY <1>1, <2>1, RetainOrder
<1>4. \A i \in K : i \in 1 .. Len(tasks) /\ Wanted(tasks[i].name)
  <2>1. \A dir \in KnownDirs : dir.name \in Name
    BY TheWorld DEF TaskDir
  <2>2. asked \in Request
    BY DEF SelectionInv
  <2> QED
    BY <1>2, <2>1, <2>2, SelectedWanted
<1>5. \A i \in 1 .. Len(tasks) : Wanted(tasks[i].name) => i \in K
  <2>1. \A dir \in KnownDirs : dir.name \in Name
    BY TheWorld DEF TaskDir
  <2>2. asked \in Request
    BY DEF SelectionInv
  <2> QED
    BY <1>2, <2>1, <2>2, SelectedWanted
<1>6. /\ kept \in Seq(KnownDirs) /\ Len(kept) \in Nat /\ Len(all) \in Nat
      /\ Len(kept) <= Len(all) /\ \A i \in 1 .. Len(kept) : kept[i] = all[i]
      /\ Len(kept) = Len(all) \/ Len(kept) = asked.limit
  <2>1. asked.limit \in Nat \cup {NoLimit}
    BY RequestAssumption DEF SelectionInv
  <2>2. Len(all) \in Nat
    BY <1>3, LenProperties
  <2> HIDE DEF all
  <2>3. CASE asked.limit = NoLimit \/ asked.limit > Len(all)
    BY <1>3, <2>2, <2>3
  <2>4. CASE ~(asked.limit = NoLimit \/ asked.limit > Len(all))
    <3>1. asked.limit \in Nat /\ asked.limit <= Len(all) /\ kept = SubSeq(all, 1, asked.limit)
      BY <2>1, <2>2, <2>4
    <3> HIDE DEF kept
    <3> QED
      BY <1>3, <2>2, <3>1, Prefix
  <2> QED
    BY <2>3, <2>4
<1> HIDE DEF all, K, at
<1>7. CASE ~(asked.limit # 0 /\ kept # << >>)
  <2>1. End("usage") /\ UNCHANGED tasks
    BY <1>7 DEF Apply, all
  <2> QED
    BY <2>1, RefusalKeeps
<1>8. CASE asked.limit # 0 /\ kept # << >>
  <2>1. /\ tasks' = kept /\ pcSelect' = "done" /\ result' = "ok"
        /\ UNCHANGED <<asked, world, pending>>
    BY <1>8 DEF Apply, End, all
  <2> HIDE DEF kept
  <2>2. \A i \in 1 .. Len(kept) :
          /\ i \in 1 .. Len(all) /\ at[i] \in K /\ at[i] \in 1 .. Len(tasks)
          /\ kept[i] = tasks[at[i]]
    BY <1>3, <1>4, <1>6
  <2>3. \A i \in 1 .. Len(kept) : Valid(kept[i]) /\ Wanted(kept[i].name)
    BY <1>1, <1>4, <2>2
  <2>4. ListsOK'
    BY <1>1, <1>6, <2>1, <2>3 DEF ListsOK, KnownDirs, Valid, HasToml
  <2>5. HasSource /\ SourcesValid /\ asked \in Request
    BY <1>1 DEF SelectionInv, Resolved
  <2>6. Resolved'
    BY <2>1, <2>5 DEF Resolved, HasSource, SourcesValid, Given
  <2>7. NothingLost'
    BY <2>1 DEF NothingLost
  <2> DEFINE chosen == {kept[i] : i \in DOMAIN kept}
  <2>8. DOMAIN kept = 1 .. Len(kept) /\ 1 \in 1 .. Len(kept)
    BY <1>6, <1>8, EmptySeq
  <2>9. ASSUME Given("path")
        PROVE  /\ \A i, j \in DOMAIN kept : i < j => kept[i].place < kept[j].place
               /\ \A dir \in world.children \ chosen : Valid(dir) /\ Wanted(dir.name) =>
                    Len(kept) = asked.limit /\ \A other \in chosen : other.place < dir.place
    <3>1. /\ InPlaceOrder(tasks) /\ pending = << >>
          /\ \A dir \in world.children : Valid(dir) => Holding(tasks, dir) \/ Holding(pending, dir)
      BY <1>1, <2>9 DEF SelectionInv, NothingLost
    <3>2. \A dir \in world.children : Valid(dir) => Holding(tasks, dir)
      BY <3>1 DEF Holding
    <3>3. \A i, j \in 1 .. Len(all) : i < j => all[i].place < all[j].place
      BY <1>3, <1>4, <3>1 DEF InPlaceOrder
    <3>4. \A i, j \in DOMAIN kept : i < j => kept[i].place < kept[j].place
      BY <1>6, <2>2, <2>8, <3>3
    <3>5. ASSUME NEW dir \in world.children \ chosen, Valid(dir), Wanted(dir.name)
          PROVE  Len(kept) = asked.limit /\ \A other \in chosen : other.place < dir.place
      <4>1. PICK x \in 1 .. Len(tasks) : tasks[x] = dir
        BY <3>2, <3>5 DEF Holding
      <4>2. x \in K
        BY <1>5, <3>5, <4>1
      <4>3. PICK i \in 1 .. Len(all) : at[i] = x
        BY <1>3, <4>2
      <4>4. all[i] = dir
        BY <1>3, <4>1, <4>3
      <4>5. i \notin 1 .. Len(kept)
        BY <1>6, <2>8, <3>5, <4>4
      <4>6. i > Len(kept) /\ Len(kept) # Len(all)
        BY <1>6, <4>5
      <4>7. ASSUME NEW j \in DOMAIN kept PROVE kept[j].place < dir.place
        <5>1. j \in 1 .. Len(all) /\ j < i /\ kept[j] = all[j]
          BY <1>6, <2>2, <2>8, <4>6
        <5> QED
          BY <3>3, <4>4, <5>1
      <4> QED
        BY <1>6, <4>6, <4>7
    <3> HIDE DEF chosen
    <3> QED
      BY <3>4, <3>5
  <2>10. chosen # {} /\ \A dir \in chosen : Valid(dir) /\ Wanted(dir.name)
    BY <2>3, <2>8
  <2>11. asked.given \in {{"path"}, {"dataset"}, {"task"}, {"path", "git"},
                          {"path", "git", "commit"}}
    BY <2>5, OneSource
  <2>12. SelectionAsAsked'
    <3> DEFINE now == {tasks[i] : i \in DOMAIN tasks}
    <3>1. now' = chosen
      BY <2>1
    <3>2. \A dir : Valid(dir)' = Valid(dir) /\ Wanted(dir.name)' = Wanted(dir.name)
      BY <2>1 DEF Valid, HasToml, Wanted
    <3> HIDE DEF chosen
    <3> QED
      BY <2>1, <2>9, <2>10, <2>11, <3>1, <3>2 DEF SelectionAsAsked, Given
  <2> QED
    BY <2>1, <2>4, <2>6, <2>7, <2>12 DEF SelectionInv
<1> QED
  BY <1>7, <1>8

LEMMA SelectionInvStep == SelectionInv /\ [SelectionNext]_selectionVars => SelectionInv'
<1> SUFFICES ASSUME SelectionInv, [SelectionNext]_selectionVars PROVE SelectionInv'
  OBVIOUS
<1>1. CASE UNCHANGED selectionVars
  <2>1. /\ ListsOK' = ListsOK /\ Resolved' = Resolved /\ NothingLost' = NothingLost
        /\ SelectionAsAsked' = SelectionAsAsked
    BY <1>1 DEF selectionVars, ListsOK, KnownDirs, Resolved, NothingLost, SelectionAsAsked,
                InPlaceOrder, Holding, HasSource, SourcesValid, Given, Valid, HasToml, Wanted
  <2> QED
    BY <1>1, <2>1 DEF selectionVars, SelectionInv
<1> QED
  BY <1>1, CheckSourcesKeeps, ResolveTaskPathKeeps, ResolveDatasetPathKeeps,
     ResolveRegistryTaskKeeps, ResolveRegistryDatasetKeeps, LoadTaskKeeps, LoadedKeeps, ApplyKeeps
     DEF SelectionNext

LEMMA SelectionInvHolds == SelectionSpec => []SelectionInv
BY SelectionInvInit, SelectionInvStep, PTL DEF SelectionSpec

(* What the command holds on its way from the options to the tasks has its *)
(* type: the lists are of task directories with places and names.          *)
THEOREM SelectionTypeCorrect == SelectionSpec => []SelectionTypeOK
BY SelectionInvHolds, SelectionTyped, PTL

(* A dataset is run as asked, whatever is asked of whatever directories:   *)
(* resolve_run_target and TaskSelection::apply let the valid and wanted    *)
(* tasks through, in their order, and of a path leave out none before the  *)
(* limit; options that name no source or several are refused.              *)
THEOREM RunsAsAsked == SelectionSpec => []SelectionAsAsked
<1>1. SelectionInv => SelectionAsAsked
  BY DEF SelectionInv
<1> QED
  BY <1>1, SelectionInvHolds, PTL

-----------------------------------------------------------------------------
(* Reports of jobs: the inductive invariant.  What is written is what the  *)
(* outcomes of all trials make.                                            *)
FullReport ==
  [passed |-> \A i \in Outcomes : TrialPassed(i),
   reward |-> JobReward,
   n_trials |-> Cardinality(Scored),
   metrics |-> Metrics,
   pass_at_k |-> PassAtK,
   reward_stats |-> RewardStats]

JobReportInv ==
  /\ JobReportTypeOK
  /\ Written => Len(outcomes) = Trials /\ resultJson = FullReport

LEMMA TheJob ==
  ASSUME job \in Job
  PROVE  /\ job.attempts \in Nat \ {0} /\ job.tasks \in Seq(STRING)
         /\ Len(job.tasks) \in Nat \ {0} /\ Trials \in Nat \ {0}
<1>1. job.attempts \in Nat \ {0} /\ job.tasks \in Seq(STRING) \ {<< >>}
  BY JobReportAssumption
<1>2. Len(job.tasks) \in Nat /\ Len(job.tasks) # 0
  BY <1>1, EmptySeq, LenProperties
<1> DEFINE n == Len(job.tasks)
           a == job.attempts
<1>3. n \in Nat \ {0} /\ a \in Nat \ {0}
  BY <1>1, <1>2
<1> HIDE DEF n, a
<1>4. n * a \in Nat \ {0}
  BY <1>3
<1> QED
  BY <1>1, <1>3, <1>4 DEF Trials, n, a

(* The parts of the report are of the outcomes and the job alone.          *)
LEMMA SameReport == ASSUME UNCHANGED <<job, outcomes>> PROVE FullReport' = FullReport
<1>1. Outcomes' = Outcomes /\ Scored' = Scored
  BY DEF Outcomes, Scored
<1>2. Keys' = Keys
  BY <1>1 DEF Keys
<1>3. MetricKeys' = MetricKeys
  BY <1>2 DEF MetricKeys
<1>4. Metrics' = Metrics
  BY <1>1, <1>2, <1>3 DEF Metrics, Mean, Fraction, Score
<1>5. RewardStats' = RewardStats
  BY <1>1, <1>2 DEF RewardStats
<1>6. JobReward' = JobReward
  <2> DEFINE shown == [i \in Outcomes |-> Display(Primary(outcomes[i].scores))]
  <2>1. shown' = shown
    BY <1>1
  <2>2. JobReward = Display(Mean(shown)) /\ JobReward' = Display(Mean(shown'))
    BY DEF JobReward
  <2> HIDE DEF shown
  <2> QED
    BY <2>1, <2>2
<1>7. (\A i \in Outcomes : TrialPassed(i))' = (\A i \in Outcomes : TrialPassed(i))
  BY <1>1 DEF TrialPassed, Passes
<1>8. PassAtK' = PassAtK
  BY <1>1 DEF PassAtK, Binary, Tasks, TaskOf, TrialsOf, SuccessesOf, MapThenFoldSet
<1> QED
  BY <1>1, <1>4, <1>5, <1>6, <1>7, <1>8 DEF FullReport

LEMMA JobReportInvStep == JobReportInv /\ [JobReportNext]_jobReportVars => JobReportInv'
<1> SUFFICES ASSUME JobReportInv, [JobReportNext]_jobReportVars PROVE JobReportInv'
  OBVIOUS
<1>1. CASE Settle
  <2>1. /\ Len(outcomes) < Trials /\ UNCHANGED <<job, resultJson>>
        /\ \E o \in Outcome : outcomes' = Append(outcomes, o)
    BY <1>1 DEF Settle, Outcome
  <2>2. outcomes \in Seq(Outcome) /\ Len(outcomes) \in Nat /\ Trials \in Nat /\ job \in Job
    BY LenProperties, TheJob DEF JobReportInv, JobReportTypeOK
  <2>3. outcomes' \in Seq(Outcome) /\ Len(outcomes') = Len(outcomes) + 1
    BY <2>1, <2>2, AppendProperties
  <2>4. Trials' = Trials
    BY <2>1 DEF Trials
  <2>5. Len(outcomes') <= Trials'
    BY <2>1, <2>2, <2>3, <2>4
  <2>6. ~Written /\ Written' = Written
    BY <2>1, <2>2 DEF JobReportInv, Written
  <2> QED
    BY <2>1, <2>2, <2>3, <2>5, <2>6 DEF JobReportInv, JobReportTypeOK
<1>2. CASE Write
  <2>1. Len(outcomes) = Trials /\ resultJson' = FullReport /\ UNCHANGED <<job, outcomes>>
    BY <1>2 DEF Write, FullReport
  <2>2. FullReport' = FullReport /\ Trials' = Trials
    BY <2>1, SameReport DEF Trials
  <2> QED
    BY <2>1, <2>2 DEF JobReportInv, JobReportTypeOK
<1>3. CASE UNCHANGED jobReportVars
  <2>1. UNCHANGED <<job, outcomes>> /\ UNCHANGED resultJson
    BY <1>3 DEF jobReportVars
  <2>2. FullReport' = FullReport /\ Trials' = Trials
    BY <2>1, SameReport DEF Trials
  <2> QED
    BY <2>1, <2>2 DEF JobReportInv, JobReportTypeOK, Written
<1> QED
  BY <1>1, <1>2, <1>3 DEF JobReportNext

LEMMA JobReportInvHolds == JobReportSpec => []JobReportInv
<1>1. JobReportInit => JobReportInv
  <2> SUFFICES ASSUME JobReportInit PROVE JobReportInv
    OBVIOUS
  <2>1. outcomes \in Seq(Outcome) /\ Len(outcomes) = 0 /\ job \in Job /\ ~Written
    BY EmptySeq DEF JobReportInit, Written
  <2>2. Trials \in Nat
    BY <2>1, TheJob
  <2> QED
    BY <2>1, <2>2 DEF JobReportInv, JobReportTypeOK
<1> QED
  BY <1>1, JobReportInvStep, PTL DEF JobReportSpec

(* There are never more outcomes than trials, each of them an error or     *)
(* what a verifier wrote.                                                  *)
THEOREM JobReportTypeCorrect == JobReportSpec => []JobReportTypeOK
<1>1. JobReportInv => JobReportTypeOK
  BY DEF JobReportInv
<1> QED
  BY <1>1, JobReportInvHolds, PTL

-----------------------------------------------------------------------------
(* Reports of jobs: what rounding to six decimals makes of a number.       *)
LEMMA Rounded ==
  ASSUME NEW n \in Nat, NEW d \in Nat \ {0}
  PROVE  /\ Display(Fraction(n, d)) \in Nat
         /\ Near(Display(Fraction(n, d)) * d, n, Resolution * d)
<1> DEFINE a == 2 * n + d * Resolution
           b == 2 * d * Resolution
           q == a \div b
<1>1. Resolution \in Nat \ {0}
  BY JobReportAssumption
<1>2. Display(Fraction(n, d)) = Resolution * q
  <2>1. Fraction(n, d) \in [num : Nat, den : Nat]
    BY DEF Fraction
  <2>2. Fraction(n, d) # NaN
    BY <2>1, JobReportAssumption
  <2>3. Fraction(n, d).num = n /\ Fraction(n, d).den = d
    BY DEF Fraction
  <2> QED
    BY <2>2, <2>3 DEF Display
<1>3. a \in Nat /\ b \in Nat \ {0} /\ d * Resolution \in Nat
  BY <1>1
<1>4. q \in Nat /\ q * b <= a /\ a < q * b + b
  BY <1>3, Divided
<1> HIDE DEF q
<1>5. Resolution * q \in Nat /\ 2 * (Resolution * q * d) = q * b /\ Resolution * q * d \in Nat
  BY <1>1, <1>4
<1>6. b = 2 * (d * Resolution) /\ d * Resolution = Resolution * d
  BY <1>1
<1> DEFINE u == Resolution * q * d
           e == d * Resolution
           w == q * b
<1>7. u \in Nat /\ e \in Nat /\ w = 2 * u /\ w <= 2 * n + e /\ 2 * n + e < w + 2 * e
  BY <1>3, <1>4, <1>5, <1>6
<1> HIDE DEF u, e, w
<1>8. 2 * u <= 2 * n + e /\ 2 * n <= 2 * u + e
  BY <1>7
<1> QED
  BY <1>2, <1>5, <1>6, <1>8 DEF Near, u, e

LEMMA RoundedWhole ==
  ASSUME NEW d \in Nat \ {0}
  PROVE  /\ Display(Fraction(FullReward * d, d)) = FullReward
         /\ Display(Fraction(0, d)) = 0
<1> DEFINE r == Resolution
           F == FullReward
           b == 2 * d * r
           e == d * r
<1>1. r \in Nat \ {0} /\ F \in Nat \ {0} /\ F % r = 0
  BY JobReportAssumption
<1>2. \A n \in Nat : Display(Fraction(n, d)) = r * ((2 * n + e) \div b)
  <2> SUFFICES ASSUME NEW n \in Nat PROVE Display(Fraction(n, d)) = r * ((2 * n + e) \div b)
    OBVIOUS
  <2>1. Fraction(n, d) \in [num : Nat, den : Nat]
    BY DEF Fraction
  <2>2. Fraction(n, d) # NaN
    BY <2>1, JobReportAssumption
  <2>3. Fraction(n, d).num = n /\ Fraction(n, d).den = d
    BY DEF Fraction
  <2> QED
    BY <2>2, <2>3 DEF Display
<1> DEFINE q == F \div r
<1>3. q \in Nat /\ F = r * q
  <2>1. q \in Nat
    BY <1>1
  <2>2. F = r * (F \div r) + (F % r)
    BY <1>1
  <2> HIDE DEF F, r
  <2> QED
    BY <1>1, <2>1, <2>2
<1> HIDE DEF q, r, F
<1>4. e \in Nat \ {0} /\ b = 2 * e /\ F * d \in Nat
  BY <1>1
<1>5. 2 * (F * d) = q * b
  BY <1>1, <1>3
<1>6. q * b \in Nat
  BY <1>1, <1>3
<1> HIDE DEF e, b
<1>7. (2 * (F * d) + e) \div b = q
  <2> DEFINE w == q * b
             a == 2 * (F * d) + e
  <2>1. a = w + e /\ w \in Nat
    BY <1>5, <1>6
  <2> HIDE DEF w, a
  <2>2. a \in Nat /\ b \in Nat \ {0} /\ w <= a /\ a < w + b
    BY <1>4, <2>1
  <2>3. a \div b = q
    BY <1>3, <2>2, DividedBy DEF w
  <2> QED
    BY <2>3 DEF a
<1>8. (2 * 0 + e) \div b = 0
  <2>1. 2 * 0 + e = e /\ 0 * b = 0
    BY <1>4
  <2>2. 0 * b <= e /\ e < 0 * b + b /\ e \in Nat /\ b \in Nat \ {0} /\ 0 \in Nat
    BY <1>4, <2>1
  <2>3. e \div b = 0
    BY <2>2, DividedBy
  <2> QED
    BY <2>1, <2>3
<1>9. r * 0 = 0
  BY <1>1
<1> QED
  BY <1>2, <1>3, <1>4, <1>7, <1>8, <1>9 DEF F

-----------------------------------------------------------------------------
(* Reports of jobs: the scores of the outcomes, when all are numbers.      *)
LEMMA NumberScores ==
  ASSUME JobReportTypeOK, AllNumbers, NEW i \in Outcomes
  PROVE  /\ outcomes[i] \in Outcome
         /\ IsFiniteSet(DOMAIN outcomes[i].scores)
         /\ NatOn(outcomes[i].scores, DOMAIN outcomes[i].scores)
         /\ i \notin Scored => outcomes[i].scores = [reward |-> 0]
<1> DEFINE o == outcomes[i]
<1>1. o \in Outcome
  BY DEF JobReportTypeOK, Outcomes
<1>2. \A k \in DOMAIN o.scores : o.scores[k] # NaN
  BY DEF AllNumbers
<1> HIDE DEF o
<1>3. CASE o \in [errored : {FALSE}, scores : Scoring]
  <2>1. o.scores \in Scoring /\ ~o.errored
    BY <1>3
  <2>2. /\ IsFiniteSet(DOMAIN o.scores)
        /\ \A k \in DOMAIN o.scores : o.scores[k] \in Nat \cup {NaN}
    BY <2>1, JobReportAssumption
  <2> QED
    BY <1>1, <1>2, <2>1, <2>2 DEF NatOn, Scored, o
<1>4. CASE o \in [errored : {TRUE}, scores : {[reward |-> 0]}]
  <2>1. o.scores = [reward |-> 0]
    BY <1>4
  <2>2. DOMAIN o.scores = {"reward"} /\ \A k \in DOMAIN o.scores : o.scores[k] = 0
    BY <2>1
  <2> QED
    BY <1>1, <2>1, <2>2, FS_Singleton DEF NatOn, o
<1> QED
  BY <1>1, <1>3, <1>4 DEF Outcome

LEMMA TrialsFinite ==
  ASSUME JobReportTypeOK
  PROVE  /\ Outcomes = 1 .. Len(outcomes) /\ IsFiniteSet(Outcomes)
         /\ Cardinality(Outcomes) = Len(outcomes)
         /\ Scored \in SUBSET Outcomes /\ IsFiniteSet(Scored)
         /\ Cardinality(Scored) \in Nat /\ (Cardinality(Scored) = 0 <=> Scored = {})
<1>1. outcomes \in Seq(Outcome) /\ Len(outcomes) \in Nat
  BY LenProperties DEF JobReportTypeOK
<1>2. Outcomes = 1 .. Len(outcomes)
  BY <1>1, LenProperties DEF Outcomes
<1>3. IsFiniteSet(Outcomes) /\ Cardinality(Outcomes) = Len(outcomes)
  BY <1>1, <1>2, FS_Interval
<1>4. Scored \in SUBSET Outcomes
  BY DEF Scored
<1>5. IsFiniteSet(Scored)
  BY <1>3, <1>4, FS_Subset
<1> QED
  BY <1>2, <1>3, <1>4, <1>5, FS_CardinalityType, FS_EmptySet

LEMMA KeysFinite ==
  ASSUME JobReportTypeOK, AllNumbers
  PROVE  IsFiniteSet(Keys) /\ Cardinality(Keys) \in Nat
<1> DEFINE f == [i \in Scored |-> DOMAIN outcomes[i].scores]
           domains == {DOMAIN outcomes[i].scores : i \in Scored}
<1>1. f \in Surjection(Scored, domains)
  BY DEF Surjection
<1>2. IsFiniteSet(domains)
  <2> HIDE DEF f, domains
  <2> QED
    BY <1>1, TrialsFinite, FS_Surjection
<1>3. \A s \in domains : IsFiniteSet(s)
  BY TrialsFinite, NumberScores
<1>4. Keys = UNION domains
  BY DEF Keys
<1> HIDE DEF domains
<1>5. IsFiniteSet(Keys)
  BY <1>2, <1>3, <1>4, FS_UNION
<1> QED
  BY <1>5, FS_CardinalityType

(* A mean of numbers.                                                      *)
LEMMA MeanOfNumbers ==
  ASSUME NEW f, IsFiniteSet(DOMAIN f), NatOn(f, DOMAIN f)
  PROVE  /\ DOMAIN f = {} => Mean(f) = Fraction(0, 1)
         /\ DOMAIN f # {} =>
              Mean(f) = Fraction(SumFunctionOnSet(f, DOMAIN f), Cardinality(DOMAIN f))
<1>1. \A x \in DOMAIN f : f[x] # NaN
  BY JobReportAssumption DEF NatOn
<1> QED
  BY <1>1 DEF Mean, SumFunction

(* What a trial displays.                                                  *)
Shown == [i \in Outcomes |-> Display(Primary(outcomes[i].scores))]

LEMMA PrimaryOfNumbers ==
  ASSUME NEW scores, IsFiniteSet(DOMAIN scores), NatOn(scores, DOMAIN scores)
  PROVE  /\ \E n \in Nat, d \in Nat \ {0} : Primary(scores) = Fraction(n, d)
         /\ DOMAIN scores = {} => Primary(scores) = Fraction(0, 1)
         /\ \A k : DOMAIN scores = {k} => Primary(scores) = Fraction(scores[k], 1)
         /\ Passes(scores) => \E d \in Nat \ {0} : Primary(scores) = Fraction(FullReward * d, d)
<1>0. FullReward \in Nat
  BY JobReportAssumption
<1>1. CASE "reward" \in DOMAIN scores
  <2>1. scores["reward"] \in Nat /\ scores["reward"] # NaN
    BY <1>1, JobReportAssumption DEF NatOn
  <2>2. Primary(scores) = Fraction(scores["reward"], 1)
    BY <1>1, <2>1 DEF Primary
  <2>3. Passes(scores) => scores["reward"] = FullReward
    BY <1>1 DEF Passes
  <2>4. FullReward * 1 = FullReward
    BY <1>0
  <2>5. \A k : DOMAIN scores = {k} => k = "reward"
    BY <1>1
  <2>6. Passes(scores) => Primary(scores) = Fraction(FullReward * 1, 1)
    BY <2>2, <2>3, <2>4
  <2>7. \E n \in Nat, d \in Nat \ {0} : Primary(scores) = Fraction(n, d)
    BY <2>1, <2>2
  <2>8. Passes(scores) => \E d \in Nat \ {0} : Primary(scores) = Fraction(FullReward * d, d)
    BY <2>6
  <2> QED
    BY <1>1, <2>2, <2>5, <2>7, <2>8
<1>2. CASE "reward" \notin DOMAIN scores
  <2> DEFINE c == Cardinality(DOMAIN scores)
             sum == SumFunctionOnSet(scores, DOMAIN scores)
  <2>1. Primary(scores) = Mean(scores)
    BY <1>2 DEF Primary
  <2>2. c \in Nat /\ (DOMAIN scores # {} => c # 0) /\ sum \in Nat
    BY FS_CardinalityType, FS_EmptySet, SumType
  <2>3. CASE DOMAIN scores = {}
    <3>1. Primary(scores) = Fraction(0, 1) /\ ~Passes(scores)
      BY <1>2, <2>1, <2>3, MeanOfNumbers DEF Passes
    <3>2. 0 \in Nat /\ 1 \in Nat \ {0}
      OBVIOUS
    <3> QED
      BY <2>3, <3>1, <3>2
  <2>4. CASE DOMAIN scores # {}
    <3>1. Primary(scores) = Fraction(sum, c) /\ sum \in Nat /\ c \in Nat \ {0}
      BY <2>1, <2>2, <2>4, MeanOfNumbers
    <3>2. ASSUME NEW k, DOMAIN scores = {k} PROVE Primary(scores) = Fraction(scores[k], 1)
      <4>1. c = 1
        BY <3>2, FS_Singleton
      <4>2. sum = scores[k] + SumFunctionOnSet(scores, DOMAIN scores \ {k}) /\ scores[k] \in Nat
        BY <3>2, SumTakeOut DEF NatOn
      <4>3. DOMAIN scores \ {k} = {}
        BY <3>2
      <4>4. sum = scores[k]
        BY <4>2, <4>3, SumEmpty
      <4> QED
        BY <3>1, <4>1, <4>4
    <3>3. ASSUME Passes(scores) PROVE sum = FullReward * c
      <4>1. \A k \in DOMAIN scores : scores[k] = FullReward
        BY <1>2, <3>3 DEF Passes
      <4> QED
        BY <1>0, <4>1, SumOfEqual
    <3> HIDE DEF sum, c
    <3> QED
      BY <2>4, <3>1, <3>2, <3>3
  <2> QED
    BY <2>3, <2>4
<1> QED
  BY <1>1, <1>2

LEMMA ShownNumbers ==
  ASSUME JobReportTypeOK, AllNumbers, Outcomes # {}
  PROVE  /\ NatOn(Shown, Outcomes) /\ DOMAIN Shown = Outcomes
         /\ JobReward = Display(Fraction(SumFunctionOnSet(Shown, Outcomes), Cardinality(Outcomes)))
<1>1. ASSUME NEW i \in Outcomes PROVE Shown[i] \in Nat
  <2>1. PICK n \in Nat, d \in Nat \ {0} : Primary(outcomes[i].scores) = Fraction(n, d)
    BY NumberScores, PrimaryOfNumbers
  <2> QED
    BY <2>1, Rounded DEF Shown
<1>2. DOMAIN Shown = Outcomes
  BY DEF Shown
<1>3. JobReward = Display(Mean(Shown))
  BY DEF JobReward, Shown
<1> QED
  BY <1>1, <1>2, <1>3, TrialsFinite, MeanOfNumbers DEF NatOn

(* A job that passed has the reward 1.                                     *)
LEMMA FullWhenPassed ==
  ASSUME JobReportTypeOK, AllNumbers, Outcomes # {}, \A i \in Outcomes : TrialPassed(i)
  PROVE  JobReward = FullReward
<1>0. FullReward \in Nat
  BY JobReportAssumption
<1>1. ASSUME NEW i \in Outcomes PROVE Shown[i] = FullReward
  <2>1. PICK d \in Nat \ {0} : Primary(outcomes[i].scores) = Fraction(FullReward * d, d)
    BY NumberScores, PrimaryOfNumbers DEF TrialPassed
  <2> QED
    BY <2>1, RoundedWhole DEF Shown
<1>2. SumFunctionOnSet(Shown, Outcomes) = FullReward * Cardinality(Outcomes)
  BY <1>0, <1>1, TrialsFinite, SumOfEqual
<1>3. Cardinality(Outcomes) \in Nat \ {0}
  BY TrialsFinite, FS_CardinalityType, FS_EmptySet
<1> QED
  BY <1>2, <1>3, ShownNumbers, RoundedWhole

-----------------------------------------------------------------------------
(* Reports of jobs: the metrics.  The entry m is of the score KeyOf(m).    *)
KeyOf(m) == IF m \in Keys \/ Keys = {} THEN m ELSE CHOOSE only \in Keys : TRUE

ScoresOf(k) == [i \in Scored |-> Score(outcomes[i].scores, k)]

LEMMA ScoresNumbers ==
  ASSUME JobReportTypeOK, AllNumbers, NEW k
  PROVE  /\ DOMAIN ScoresOf(k) = Scored /\ NatOn(ScoresOf(k), Scored)
         /\ SumFunctionOnSet(ScoresOf(k), Scored) \in Nat
         /\ Scored = {} => Mean(ScoresOf(k)) = Fraction(0, 1)
         /\ Scored # {} =>
              Mean(ScoresOf(k)) =
                Fraction(SumFunctionOnSet(ScoresOf(k), Scored), Cardinality(Scored))
<1>1. ASSUME NEW i \in Scored PROVE ScoresOf(k)[i] \in Nat
  <2>1. i \in Outcomes
    BY TrialsFinite
  <2>2. NatOn(outcomes[i].scores, DOMAIN outcomes[i].scores)
    BY <2>1, NumberScores
  <2> QED
    BY <2>2 DEF ScoresOf, Score, NatOn
<1>2. DOMAIN ScoresOf(k) = Scored
  BY DEF ScoresOf
<1>3. NatOn(ScoresOf(k), Scored)
  BY <1>1 DEF NatOn
<1> QED
  BY <1>2, <1>3, TrialsFinite, SumType, MeanOfNumbers

LEMMA MetricOfKey ==
  ASSUME NEW m \in MetricKeys
  PROVE  Metrics[m] = Mean(ScoresOf(KeyOf(m)))
BY DEF Metrics, ScoresOf, KeyOf

(* reward_stats_json and reward_metrics_json count the same scores.        *)
LEMMA ListedSum ==
  ASSUME JobReportTypeOK, AllNumbers, NEW k \in Keys, resultJson = FullReport
  PROVE  Listed(k) = SumFunctionOnSet(ScoresOf(k), Scored)
<1> DEFINE with == {i \in Scored : k \in DOMAIN outcomes[i].scores}
           f == ScoresOf(k)
           trials == resultJson.reward_stats[k]
<1>1. with \in SUBSET Scored /\ IsFiniteSet(with) /\ NatOn(f, with)
  BY TrialsFinite, ScoresNumbers, FS_Subset DEF NatOn
<1>2. \A i \in with : f[i] = outcomes[i].scores[k]
  BY DEF ScoresOf, Score
<1>3. \A i \in Scored \ with : f[i] = 0
  BY DEF ScoresOf, Score
<1>4. trials = [value \in {outcomes[i].scores[k] : i \in with} |->
                  {i \in with : outcomes[i].scores[k] = value}]
  BY DEF FullReport, RewardStats
<1> HIDE DEF f, with, trials
<1>5. {outcomes[i].scores[k] : i \in with} = Values(f, with)
  BY <1>2 DEF Values
<1>6. \A value : {i \in with : outcomes[i].scores[k] = value} = With(f, with, value)
  BY <1>2 DEF With
<1>7. DOMAIN trials = Values(f, with) /\ \A v \in Values(f, with) : trials[v] = With(f, with, v)
  BY <1>4, <1>5, <1>6
<1>8. Listed(k) = SumFunction([v \in DOMAIN trials |-> v * Cardinality(trials[v])])
  BY DEF Listed, trials
<1>9. [v \in DOMAIN trials |-> v * Cardinality(trials[v])] = Grouped(f, with)
  BY <1>7 DEF Grouped
<1>10. DOMAIN Grouped(f, with) = Values(f, with)
  BY DEF Grouped
<1>11. Listed(k) = SumFunctionOnSet(Grouped(f, with), Values(f, with))
  BY <1>8, <1>9, <1>10 DEF SumFunction
<1>12. SumFunctionOnSet(f, with) = SumFunctionOnSet(Grouped(f, with), Values(f, with))
  BY <1>1, SumByValue
<1>13. IsFiniteSet(Scored) /\ NatOn(f, Scored)
  BY TrialsFinite, ScoresNumbers DEF f
<1>14. SumFunctionOnSet(f, Scored) = SumFunctionOnSet(f, with)
  BY <1>1, <1>3, <1>13, SumWithoutZeros
<1> QED
  BY <1>11, <1>12, <1>14 DEF f

LEMMA MeanIsListed ==
  ASSUME JobReportTypeOK, AllNumbers, NEW k \in Keys, resultJson = FullReport
  PROVE  LET mean == resultJson.metrics[IF k \in DOMAIN resultJson.metrics THEN k ELSE "mean"]
         IN  mean.num * resultJson.n_trials = Listed(k) * mean.den
<1> DEFINE m == IF k \in DOMAIN resultJson.metrics THEN k ELSE "mean"
<1>1. /\ resultJson.metrics = Metrics /\ DOMAIN Metrics = MetricKeys
      /\ resultJson.n_trials = Cardinality(Scored)
  BY DEF FullReport, Metrics
<1>2. m \in MetricKeys /\ KeyOf(m) = k
  <2>1. CASE Cardinality(Keys) <= 1
    <3>1. Cardinality(Keys) # 0
      BY KeysFinite, FS_EmptySet
    <3>2. Cardinality(Keys) = 1
      BY <2>1, <3>1, KeysFinite
    <3>3. Keys = {k}
      BY <3>2, KeysFinite, FS_Singleton
    <3>4. MetricKeys = {"mean"}
      BY <2>1 DEF MetricKeys
    <3>5. m = "mean"
      BY <1>1, <3>4
    <3> QED
      BY <3>3, <3>4, <3>5 DEF KeyOf
  <2>2. CASE ~(Cardinality(Keys) <= 1)
    <3>1. MetricKeys = Keys
      BY <2>2 DEF MetricKeys
    <3> QED
      BY <1>1, <3>1 DEF KeyOf
  <2> QED
    BY <2>1, <2>2
<1>3. Scored # {}
  BY DEF Keys
<1> DEFINE sum == SumFunctionOnSet(ScoresOf(k), Scored)
           n == Cardinality(Scored)
<1> HIDE DEF m
<1>4. resultJson.metrics[m] = Fraction(sum, n)
  BY <1>1, <1>2, <1>3, MetricOfKey, ScoresNumbers
<1>5. Listed(k) = sum
  BY ListedSum
<1> HIDE DEF sum, n
<1>6. resultJson.metrics[m].num = sum /\ resultJson.metrics[m].den = n
  BY <1>4 DEF Fraction
<1> QED
  BY <1>1, <1>5, <1>6 DEF m, n

-----------------------------------------------------------------------------
(* Reports of jobs: the reward and the mean of the only score.             *)
LEMMA ApartTimes ==
  ASSUME NEW a \in Nat, NEW b \in Nat, NEW c \in Nat, NEW n \in Nat, a <= b + c, b <= a + c
  PROVE  Apart(a * n, b * n) <= c * n
<1>1. a * n \in Nat /\ b * n \in Nat /\ c * n \in Nat
  OBVIOUS
<1>2. a * n <= b * n + c * n
  <2>1. PICK e \in Nat : b + c = a + e
    <3>1. b + c = a + (b + c - a) /\ b + c - a \in Nat
      OBVIOUS
    <3> QED
      BY <3>1
  <2>2. b * n + c * n = a * n + e * n /\ e * n \in Nat
    <3>1. b * n + c * n = (b + c) * n /\ (a + e) * n = a * n + e * n
      OBVIOUS
    <3> QED
      BY <2>1, <3>1
  <2> QED
    BY <1>1, <2>2
<1>3. b * n <= a * n + c * n
  <2>1. PICK e \in Nat : a + c = b + e
    <3>1. a + c = b + (a + c - b) /\ a + c - b \in Nat
      OBVIOUS
    <3> QED
      BY <3>1
  <2>2. a * n + c * n = b * n + e * n /\ e * n \in Nat
    <3>1. a * n + c * n = (a + c) * n /\ (b + e) * n = b * n + e * n
      OBVIOUS
    <3> QED
      BY <2>1, <3>1
  <2> QED
    BY <1>1, <2>2
<1> DEFINE x == a * n
           y == b * n
           z == c * n
<1>4. x \in Nat /\ y \in Nat /\ z \in Nat /\ x <= y + z /\ y <= x + z
  BY <1>1, <1>2, <1>3
<1> HIDE DEF x, y, z
<1>5. Apart(x, y) <= z
  BY <1>4 DEF Apart
<1> QED
  BY <1>5 DEF x, y, z

(* With one key at most a trial displays its only score, rounded.          *)
LEMMA ShownNearScore ==
  ASSUME JobReportTypeOK, AllNumbers, Cardinality(Keys) <= 1, NEW i \in Outcomes
  PROVE  /\ Score(outcomes[i].scores, KeyOf("mean")) \in Nat
         /\ i \notin Scored => Shown[i] = 0
         /\ i \in Scored => Near(Shown[i], Score(outcomes[i].scores, KeyOf("mean")), Resolution)
<1> DEFINE scores == outcomes[i].scores
           k == KeyOf("mean")
<1>1. Shown[i] = Display(Primary(scores))
  BY DEF Shown
<1>2. /\ IsFiniteSet(DOMAIN scores) /\ NatOn(scores, DOMAIN scores)
      /\ i \notin Scored => scores = [reward |-> 0]
  BY NumberScores
<1>3. Score(scores, k) \in Nat
  BY <1>2 DEF Score, NatOn
<1>4. Display(Fraction(0, 1)) = 0
  BY RoundedWhole
<1>5. ASSUME i \notin Scored PROVE Shown[i] = 0
  <2>1. DOMAIN scores = {"reward"} /\ scores["reward"] = 0
    BY <1>2, <1>5
  <2>2. Primary(scores) = Fraction(0, 1)
    BY <1>2, <2>1, PrimaryOfNumbers
  <2> QED
    BY <1>1, <1>4, <2>2
<1>6. ASSUME i \in Scored PROVE Near(Shown[i], Score(scores, k), Resolution)
  <2>0. Resolution \in Nat
    BY JobReportAssumption
  <2>1. DOMAIN scores \subseteq Keys
    BY <1>6 DEF Keys
  <2>2. CASE DOMAIN scores = {}
    <3>1. Shown[i] = 0
      BY <1>1, <1>2, <1>4, <2>2, PrimaryOfNumbers
    <3>2. Score(scores, k) = 0
      BY <2>2 DEF Score
    <3> QED
      BY <2>0, <3>1, <3>2 DEF Near
  <2>3. CASE DOMAIN scores # {}
    <3>1. Keys # {}
      BY <2>1, <2>3
    <3>2. Cardinality(Keys) = 1
      BY <3>1, KeysFinite, FS_EmptySet
    <3>3. PICK only : Keys = {only}
      BY <3>2, KeysFinite, FS_Singleton
    <3>4. DOMAIN scores = {only}
      BY <2>1, <2>3, <3>3
    <3>5. k = only
      BY <3>3 DEF KeyOf
    <3>6. scores[only] \in Nat /\ Score(scores, k) = scores[only]
      BY <1>2, <3>4, <3>5 DEF Score, NatOn
    <3>7. Primary(scores) = Fraction(scores[only], 1)
      BY <1>2, <3>4, PrimaryOfNumbers
    <3> DEFINE shown == Display(Fraction(scores[only], 1))
    <3>8. shown \in Nat /\ Near(shown * 1, scores[only], Resolution * 1)
      BY <3>6, Rounded
    <3> HIDE DEF shown
    <3>9. shown * 1 = shown /\ Resolution * 1 = Resolution
      BY <2>0, <3>8
    <3>10. Shown[i] = shown
      BY <1>1, <3>7 DEF shown
    <3> HIDE DEF k, scores
    <3> QED
      BY <3>6, <3>8, <3>9, <3>10
  <2> QED
    BY <2>2, <2>3
<1> QED
  BY <1>3, <1>5, <1>6

LEMMA RewardNearMean ==
  ASSUME JobReportTypeOK, AllNumbers, Cardinality(Keys) <= 1, Outcomes # {},
         Cardinality(Outcomes) = Trials, resultJson = FullReport
  PROVE  LET mean == resultJson.metrics["mean"]
         IN  Apart(resultJson.reward * Trials * mean.den, mean.num * resultJson.n_trials)
               <= Resolution * Trials * mean.den
<1> DEFINE k == KeyOf("mean")
           g == [i \in Outcomes |-> IF i \in Scored THEN Score(outcomes[i].scores, k) ELSE 0]
           shownSum == SumFunctionOnSet(Shown, Outcomes)
           sum == SumFunctionOnSet(ScoresOf(k), Scored)
           reward == JobReward
           n == Cardinality(Scored)
           r == Resolution
           t == Trials
<1>1. IsFiniteSet(Outcomes) /\ Scored \in SUBSET Outcomes /\ IsFiniteSet(Scored) /\ n \in Nat
  BY TrialsFinite
<1>2. r \in Nat /\ t \in Nat \ {0}
  BY JobReportAssumption, TheJob DEF JobReportTypeOK
<1>3. NatOn(g, Outcomes)
  BY ShownNearScore DEF NatOn
<1>4. NatOn(Shown, Outcomes) /\ JobReward = Display(Fraction(shownSum, t))
  BY ShownNumbers
<1>5. \A i \in Outcomes : Near(Shown[i], g[i], r)
  <2> SUFFICES ASSUME NEW i \in Outcomes PROVE Near(Shown[i], g[i], r)
    OBVIOUS
  <2>1. CASE i \in Scored
    BY <2>1, ShownNearScore
  <2>2. CASE i \notin Scored
    <3>1. Shown[i] = 0 /\ g[i] = 0
      BY <2>2, ShownNearScore
    <3> HIDE DEF g
    <3> QED
      BY <1>2, <3>1 DEF Near
  <2> QED
    BY <2>1, <2>2
<1>6. SumFunctionOnSet(g, Outcomes) = sum /\ sum \in Nat /\ shownSum \in Nat
  <2>1. \A i \in Outcomes \ Scored : g[i] = 0
    OBVIOUS
  <2>2. \A i \in Scored : g[i] = ScoresOf(k)[i]
    BY <1>1 DEF ScoresOf
  <2> HIDE DEF g, k
  <2>3. SumFunctionOnSet(g, Outcomes) = SumFunctionOnSet(g, Scored)
    BY <1>1, <1>3, <2>1, SumWithoutZeros
  <2>4. SumFunctionOnSet(g, Scored) = sum /\ sum \in Nat
    BY <1>1, <2>2, ScoresNumbers, SumSame
  <2>5. shownSum \in Nat
    BY <1>1, <1>4, SumType
  <2> QED
    BY <2>3, <2>4, <2>5
<1>7. Near(shownSum, sum, r * t)
  <2> HIDE DEF g, sum, k, r
  <2> QED
    BY <1>1, <1>2, <1>3, <1>4, <1>5, <1>6, SumsNear
<1>8. reward \in Nat /\ Near(reward * t, shownSum, r * t)
  BY <1>2, <1>4, <1>6, Rounded
<1>9. /\ resultJson.reward = reward /\ resultJson.n_trials = n
      /\ resultJson.metrics["mean"] = Mean(ScoresOf(k))
  <2>1. MetricKeys = {"mean"}
    BY DEF MetricKeys
  <2> QED
    BY <2>1, MetricOfKey DEF FullReport
<1>10. (Scored = {} => sum = 0) /\ (Scored = {} <=> n = 0)
  BY TrialsFinite, SumEmpty
<1>11. /\ Scored = {} => Mean(ScoresOf(k)) = Fraction(0, 1)
       /\ Scored # {} => Mean(ScoresOf(k)) = Fraction(sum, n)
  BY ScoresNumbers
<1> HIDE DEF k, g, shownSum, sum, reward, n, r, t
<1>12. reward * t \in Nat /\ r * t \in Nat
  BY <1>2, <1>8
<1> DEFINE u == reward * t
           w == r * t
<1>13. u <= sum + w /\ sum <= u + w /\ u \in Nat /\ w \in Nat
  <2>1. u \in Nat /\ w \in Nat /\ Near(shownSum, sum, w) /\ Near(u, shownSum, w)
    BY <1>7, <1>8, <1>12
  <2> HIDE DEF u, w
  <2> QED
    BY <1>6, <2>1 DEF Near
<1> DEFINE mean == Mean(ScoresOf(k))
<1> HIDE DEF u, w
<1>14. Apart(u * mean.den, mean.num * n) <= w * mean.den
  <2>1. CASE Scored = {}
    <3>1. mean.num = 0 /\ mean.den = 1 /\ n = 0 /\ sum = 0
      BY <1>10, <1>11, <2>1 DEF Fraction
    <3>2. Apart(u * 1, sum * 1) <= w * 1
      BY <1>6, <1>13, ApartTimes
    <3>3. sum * 1 = 0 /\ 0 * 0 = 0
      BY <3>1
    <3> HIDE DEF mean
    <3> QED
      BY <3>1, <3>2, <3>3
  <2>2. CASE Scored # {}
    <3>1. mean.num = sum /\ mean.den = n
      BY <1>11, <2>2 DEF Fraction
    <3>2. Apart(u * n, sum * n) <= w * n
      BY <1>1, <1>6, <1>13, ApartTimes
    <3> HIDE DEF mean
    <3> QED
      BY <3>1, <3>2
  <2> QED
    BY <2>1, <2>2
<1> QED
  BY <1>9, <1>14 DEF mean, u, w, t, r, reward, n

LEMMA AveragesShown == JobReportInv => AveragesAgree
<1> SUFFICES ASSUME JobReportInv, Written, AllNumbers PROVE AveragesAgree
  BY DEF AveragesAgree
<1>1. JobReportTypeOK /\ resultJson = FullReport /\ Len(outcomes) = Trials
  BY DEF JobReportInv
<1>2. Trials \in Nat \ {0}
  BY <1>1, TheJob DEF JobReportTypeOK
<1>3. Outcomes # {} /\ Cardinality(Outcomes) = Trials
  BY <1>1, <1>2, TrialsFinite
<1>4. DOMAIN resultJson.reward_stats = Keys
  BY <1>1 DEF FullReport, RewardStats
<1>5. resultJson.passed => resultJson.reward = FullReward
  <2>1. resultJson.passed => \A i \in Outcomes : TrialPassed(i)
    BY <1>1 DEF FullReport
  <2>2. resultJson.reward = JobReward
    BY <1>1 DEF FullReport
  <2> QED
    BY <1>1, <1>3, <2>1, <2>2, FullWhenPassed
<1> QED
  BY <1>1, <1>3, <1>4, <1>5, MeanIsListed, RewardNearMean DEF AveragesAgree

(* The averages of result.json agree where they overlap, whatever numbers  *)
(* the verifiers wrote: the mean of a score is that of the trials that     *)
(* reward_stats_json lists for it; the reward that aggregate_reward makes  *)
(* of rounded rewards is off the mean of the only score by no more than    *)
(* the errored trials and rounding explain; a job that passed has 1.0.     *)
THEOREM AveragesOfReports == JobReportSpec => []AveragesAgree
BY JobReportInvHolds, AveragesShown, PTL

-----------------------------------------------------------------------------
(* Reports of jobs: pass@k.  The loop of pass_at_k_for_task has one value. *)
FallingRun(f, n, k) ==
  f = [i \in 0 .. k |-> IF i = 0 THEN 1 ELSE f[i - 1] * (n - (i - 1))]

LEMMA FallingRunExists ==
  ASSUME NEW n \in Nat, NEW k \in Nat
  PROVE  \E f : FallingRun(f, n, k)
<1> DEFINE D == {i \in Nat : ~\E f : FallingRun(f, n, i)}
<1> SUFFICES ASSUME D # {} PROVE FALSE
  OBVIOUS
<1>1. PICK m \in D : \A i \in D : m <= i
  <2>1. D \in SUBSET Nat
    OBVIOUS
  <2> HIDE DEF D
  <2> QED
    BY <2>1, LeastNatural
<1>2. m \in Nat /\ ~\E f : FallingRun(f, n, m)
  BY <1>1
<1>3. m # 0
  <2> SUFFICES ASSUME m = 0 PROVE FALSE
    OBVIOUS
  <2> DEFINE f == [i \in 0 .. 0 |-> 1]
  <2>1. FallingRun(f, n, 0)
    BY DEF FallingRun
  <2> QED
    BY <1>2, <2>1
<1>4. m - 1 \in Nat /\ m - 1 \notin D
  BY <1>1, <1>2, <1>3
<1>5. PICK f : FallingRun(f, n, m - 1)
  BY <1>4
<1> DEFINE g == [i \in 0 .. m |-> IF i = m THEN f[m - 1] * (n - (m - 1)) ELSE f[i]]
<1>6. ASSUME NEW i \in 0 .. m
      PROVE  g[i] = IF i = 0 THEN 1 ELSE g[i - 1] * (n - (i - 1))
  <2>1. \A j \in 0 .. m - 1 : f[j] = IF j = 0 THEN 1 ELSE f[j - 1] * (n - (j - 1))
    BY <1>5 DEF FallingRun
  <2>2. CASE i = m
    <3>1. g[i] = f[m - 1] * (n - (m - 1)) /\ g[m - 1] = f[m - 1] /\ i # 0
      BY <1>2, <1>3, <2>2
    <3> QED
      BY <2>2, <3>1
  <2>3. CASE i # m
    <3>1. i \in 0 .. m - 1 /\ g[i] = f[i]
      BY <1>2, <2>3
    <3>2. i # 0 => i - 1 \in 0 .. m /\ i - 1 # m
      BY <1>2, <3>1
    <3>3. i # 0 => g[i - 1] = f[i - 1]
      BY <3>2
    <3> HIDE DEF g
    <3> QED
      BY <2>1, <3>1, <3>3
  <2> QED
    BY <2>2, <2>3
<1>7. g = [i \in 0 .. m |-> g[i]]
  OBVIOUS
<1> HIDE DEF g
<1>8. FallingRun(g, n, m)
  BY <1>6, <1>7 DEF FallingRun
<1> QED
  BY <1>2, <1>8

LEMMA FallingRunUnique ==
  ASSUME NEW n \in Nat, NEW k \in Nat, NEW m \in Nat, NEW f, NEW g,
         FallingRun(f, n, k), FallingRun(g, n, m)
  PROVE  \A i \in (0 .. k) \cap (0 .. m) : f[i] = g[i]
<1> DEFINE D == {i \in Nat : i <= k /\ i <= m /\ f[i] # g[i]}
<1> SUFFICES ASSUME D # {} PROVE FALSE
  OBVIOUS
<1>1. PICK j \in D : \A i \in D : j <= i
  <2>1. D \in SUBSET Nat
    OBVIOUS
  <2> HIDE DEF D
  <2> QED
    BY <2>1, LeastNatural
<1>2. j \in Nat /\ j <= k /\ j <= m /\ f[j] # g[j]
  BY <1>1
<1>3. /\ f[j] = IF j = 0 THEN 1 ELSE f[j - 1] * (n - (j - 1))
      /\ g[j] = IF j = 0 THEN 1 ELSE g[j - 1] * (n - (j - 1))
  <2>1. j \in 0 .. k /\ j \in 0 .. m
    BY <1>2
  <2> QED
    BY <2>1 DEF FallingRun
<1>4. j # 0
  BY <1>2, <1>3
<1>5. j - 1 \in Nat /\ j - 1 <= k /\ j - 1 <= m /\ j - 1 \notin D
  BY <1>1, <1>2, <1>4
<1>6. f[j - 1] = g[j - 1]
  BY <1>5
<1> QED
  BY <1>2, <1>3, <1>6

LEMMA FallingOf ==
  ASSUME NEW n \in Nat, NEW k \in Nat, NEW m \in 0 .. k, NEW f, FallingRun(f, n, k)
  PROVE  Falling(n, m) = f[m]
<1> DEFINE g == CHOOSE h : FallingRun(h, n, m)
<1>1. m \in Nat
  OBVIOUS
<1>2. Falling(n, m) = g[m]
  BY DEF Falling, FallingRun
<1>3. FallingRun(g, n, m)
  BY <1>1, FallingRunExists
<1> HIDE DEF g
<1>4. m \in (0 .. m) \cap (0 .. k)
  OBVIOUS
<1> QED
  BY <1>1, <1>2, <1>3, <1>4, FallingRunUnique

LEMMA FallingStep ==
  ASSUME NEW n \in Nat, NEW k \in Nat
  PROVE  Falling(n, 0) = 1 /\ Falling(n, k + 1) = Falling(n, k) * (n - k)
<1>1. PICK f : FallingRun(f, n, k + 1)
  BY FallingRunExists
<1>2. Falling(n, 0) = f[0] /\ Falling(n, k) = f[k] /\ Falling(n, k + 1) = f[k + 1]
  BY <1>1, FallingOf
<1>3. 0 \in 0 .. k + 1 /\ k + 1 \in 0 .. k + 1 /\ k + 1 # 0 /\ (k + 1) - 1 = k
  OBVIOUS
<1>4. f[0] = 1 /\ f[k + 1] = f[k] * (n - k)
  BY <1>1, <1>3 DEF FallingRun
<1> QED
  BY <1>2, <1>4

LEMMA FallingType ==
  ASSUME NEW n \in Nat, NEW k \in Nat
  PROVE  Falling(n, k) \in Nat /\ (k <= n => Falling(n, k) # 0) /\ (k > n => Falling(n, k) = 0)
<1> DEFINE Holds(i) == /\ Falling(n, i) \in Nat /\ (i <= n => Falling(n, i) # 0)
                       /\ (i > n => Falling(n, i) = 0)
           D == {i \in Nat : ~Holds(i)}
<1> SUFFICES ASSUME D # {} PROVE FALSE
  OBVIOUS
<1>1. PICK m \in D : \A i \in D : m <= i
  <2>1. D \in SUBSET Nat
    OBVIOUS
  <2> HIDE DEF D
  <2> QED
    BY <2>1, LeastNatural
<1>2. m \in Nat /\ ~Holds(m)
  BY <1>1
<1>3. m # 0
  BY <1>2, FallingStep
<1>4. m - 1 \in Nat /\ m - 1 \notin D /\ (m - 1) + 1 = m
  BY <1>1, <1>2, <1>3
<1> DEFINE j == m - 1
           old == Falling(n, j)
           new == Falling(n, j + 1)
<1>5. j \in Nat /\ m = j + 1 /\ Holds(j)
  BY <1>4
<1> HIDE DEF j, D
<1>6. new = old * (n - j)
  BY <1>5, FallingStep
<1>7. old \in Nat /\ (j <= n => old # 0) /\ (j > n => old = 0) /\ ~(Holds(j + 1))
  BY <1>2, <1>5
<1>8. ~(/\ new \in Nat /\ (j + 1 <= n => new # 0) /\ (j + 1 > n => new = 0))
  BY <1>7
<1> HIDE DEF old, new, Holds
<1>9. CASE j < n
  <2>1. n - j \in Nat \ {0} /\ old \in Nat \ {0}
    BY <1>5, <1>7, <1>9
  <2>2. old * (n - j) \in Nat \ {0}
    BY <2>1
  <2> QED
    BY <1>5, <1>6, <1>8, <1>9, <2>2
<1>10. CASE j = n
  <2>1. n - j = 0
    BY <1>5, <1>10
  <2>2. new = 0
    BY <1>6, <1>7, <2>1
  <2> QED
    BY <1>5, <1>8, <1>10, <2>2
<1>11. CASE j > n
  <2>1. old = 0 /\ n - j \in Int
    BY <1>5, <1>7, <1>11
  <2>2. new = 0
    BY <1>6, <2>1
  <2> QED
    BY <1>5, <1>8, <1>11, <2>2
<1> QED
  BY <1>5, <1>9, <1>10, <1>11

LEMMA FallingShift ==
  ASSUME NEW n \in Nat, NEW k \in Nat
  PROVE  Falling(n + 1, k + 1) = (n + 1) * Falling(n, k)
<1> DEFINE Holds(i) == Falling(n + 1, i + 1) = (n + 1) * Falling(n, i)
           D == {i \in Nat : ~Holds(i)}
<1> SUFFICES ASSUME D # {} PROVE FALSE
  OBVIOUS
<1>1. PICK m \in D : \A i \in D : m <= i
  <2>1. D \in SUBSET Nat
    OBVIOUS
  <2> HIDE DEF D
  <2> QED
    BY <2>1, LeastNatural
<1>2. m \in Nat /\ ~Holds(m) /\ n + 1 \in Nat
  BY <1>1
<1>3. m # 0
  <2> SUFFICES ASSUME m = 0 PROVE FALSE
    OBVIOUS
  <2>1. /\ Falling(n + 1, 0 + 1) = Falling(n + 1, 0) * ((n + 1) - 0)
        /\ Falling(n + 1, 0) = 1 /\ Falling(n, 0) = 1
    BY <1>2, FallingStep
  <2>2. 1 * ((n + 1) - 0) = (n + 1) * 1
    OBVIOUS
  <2> QED
    BY <1>2, <2>1, <2>2
<1>4. m - 1 \in Nat /\ m - 1 \notin D /\ (m - 1) + 1 = m
  BY <1>1, <1>2, <1>3
<1> DEFINE j == m - 1
<1>5. j \in Nat /\ m = j + 1 /\ Holds(j)
  BY <1>4
<1> HIDE DEF j, D
<1>6. Falling(n + 1, (j + 1) + 1) = Falling(n + 1, j + 1) * ((n + 1) - (j + 1))
  BY <1>2, <1>5, FallingStep
<1>7. Falling(n, j + 1) = Falling(n, j) * (n - j)
  BY <1>5, FallingStep
<1> DEFINE a == Falling(n, j)
<1>8. a \in Nat /\ Falling(n + 1, j + 1) = (n + 1) * a
  BY <1>5, FallingType
<1> HIDE DEF a
<1>9. ((n + 1) * a) * ((n + 1) - (j + 1)) = (n + 1) * (a * (n - j))
  <2>1. (n + 1) - (j + 1) = n - j /\ n - j \in Int
    BY <1>5
  <2> DEFINE x == n + 1
             y == n - j
  <2>2. x \in Int /\ y \in Int
    BY <2>1
  <2> HIDE DEF x, y
  <2>3. (x * a) * y = x * (a * y)
    BY <1>8, <2>2
  <2> QED
    BY <2>1, <2>3 DEF x, y
<1> QED
  BY <1>2, <1>5, <1>6, <1>7, <1>8, <1>9 DEF a

(* The rule of Pascal's triangle.                                          *)
LEMMA FallingPascal ==
  ASSUME NEW n \in Nat, NEW k \in Nat
  PROVE  Falling(n + 1, k + 1) = Falling(n, k + 1) + (k + 1) * Falling(n, k)
<1> DEFINE a == Falling(n, k)
<1>1. a \in Nat /\ Falling(n + 1, k + 1) = (n + 1) * a /\ Falling(n, k + 1) = a * (n - k)
  BY FallingType, FallingShift, FallingStep
<1> HIDE DEF a
<1>2. (n + 1) * a = a * (n - k) + (k + 1) * a
  BY <1>1
<1> QED
  BY <1>1, <1>2 DEF a

(* The ways to draw k of a set: without some element, or with it.          *)
LEMMA DrawsFinite ==
  ASSUME NEW S, IsFiniteSet(S), NEW k
  PROVE  IsFiniteSet(kSubset(k, S)) /\ Cardinality(kSubset(k, S)) \in Nat
<1>1. kSubset(k, S) \in SUBSET (SUBSET S)
  BY DEF kSubset
<1>2. IsFiniteSet(SUBSET S)
  BY FS_SUBSET
<1>3. IsFiniteSet(kSubset(k, S))
  BY <1>1, <1>2, FS_Subset
<1> QED
  BY <1>3, FS_CardinalityType

LEMMA DrawsSplit ==
  ASSUME NEW S, IsFiniteSet(S), NEW x \in S, NEW k \in Nat
  PROVE  Cardinality(kSubset(k + 1, S)) =
           Cardinality(kSubset(k + 1, S \ {x})) + Cardinality(kSubset(k, S \ {x}))
<1> DEFINE T == S \ {x}
           without == kSubset(k + 1, T)
           fewer == kSubset(k, T)
           with == {d \in kSubset(k + 1, S) : x \in d}
           f == [d \in fewer |-> d \cup {x}]
<1>1. IsFiniteSet(T)
  BY FS_RemoveElement
<1>2. \A d \in SUBSET S : IsFiniteSet(d) /\ Cardinality(d) \in Nat
  BY FS_Subset, FS_CardinalityType
<1>3. kSubset(k + 1, S) = without \cup with /\ without \cap with = {}
  BY DEF kSubset
<1>4. \A d \in fewer : d \cup {x} \in with
  <2> SUFFICES ASSUME NEW d \in fewer PROVE d \cup {x} \in with
    OBVIOUS
  <2>1. d \in SUBSET T /\ Cardinality(d) = k /\ IsFiniteSet(d) /\ x \notin d
    BY <1>2 DEF kSubset
  <2>2. Cardinality(d \cup {x}) = k + 1
    BY <2>1, FS_AddElement
  <2>3. d \cup {x} \in SUBSET S
    BY <2>1
  <2> QED
    BY <2>2, <2>3 DEF kSubset
<1>5. \A e \in with : e \ {x} \in fewer /\ e = (e \ {x}) \cup {x}
  <2> SUFFICES ASSUME NEW e \in with PROVE e \ {x} \in fewer /\ e = (e \ {x}) \cup {x}
    OBVIOUS
  <2>1. e \in SUBSET S /\ Cardinality(e) = k + 1 /\ IsFiniteSet(e) /\ x \in e
    BY <1>2 DEF kSubset
  <2>2. Cardinality(e \ {x}) = (k + 1) - 1
    BY <2>1, FS_RemoveElement
  <2>3. (k + 1) - 1 = k
    OBVIOUS
  <2> QED
    BY <2>1, <2>2, <2>3 DEF kSubset
<1>6. \A d, e \in fewer : d \cup {x} = e \cup {x} => d = e
  BY DEF kSubset
<1> HIDE DEF with, fewer, without
<1>7. f \in Bijection(fewer, with)
  <2>1. f \in [fewer -> with]
    BY <1>4
  <2>2. \A d, e \in fewer : f[d] = f[e] => d = e
    BY <1>6
  <2>3. \A e \in with : \E d \in fewer : f[d] = e
    BY <1>5
  <2> HIDE DEF f
  <2> QED
    BY <2>1, <2>2, <2>3 DEF Bijection, Injection, Surjection, IsInjective
<1>8. /\ IsFiniteSet(fewer) /\ Cardinality(fewer) \in Nat
      /\ IsFiniteSet(without) /\ Cardinality(without) \in Nat
  BY <1>1, DrawsFinite DEF fewer, without
<1>9. IsFiniteSet(with) /\ Cardinality(with) = Cardinality(fewer)
  <2>1. ExistsBijection(fewer, with)
    BY <1>7 DEF ExistsBijection
  <2> QED
    BY <1>8, <2>1, FS_Bijection
<1>10. Cardinality(without \cup with) =
         Cardinality(without) + Cardinality(with) - Cardinality(without \cap with)
  BY <1>8, <1>9, FS_Union
<1>11. Cardinality(without \cap with) = 0
  BY <1>3, FS_EmptySet
<1> DEFINE a == Cardinality(without)
           b == Cardinality(fewer)
<1>12. a \in Nat /\ b \in Nat /\ Cardinality(without \cup with) = a + b - 0
  BY <1>8, <1>9, <1>10, <1>11
<1> HIDE DEF a, b
<1>13. Cardinality(without \cup with) = a + b
  BY <1>12
<1> QED
  BY <1>3, <1>13 DEF a, b, without, fewer

(* The loop of pass_at_k_for_task counts the draws, each as often as its   *)
(* members can be put in order.                                            *)
CountsDraws(p, k) ==
  \A S : IsFiniteSet(S) => Falling(Cardinality(S), k) = p * Cardinality(kSubset(k, S))

LEMMA CountsNext ==
  ASSUME NEW k \in Nat, NEW p \in Nat \ {0}, CountsDraws(p, k)
  PROVE  CountsDraws((k + 1) * p, k + 1)
<1> SUFFICES ASSUME NEW S, IsFiniteSet(S)
             PROVE  Falling(Cardinality(S), k + 1) = ((k + 1) * p) * Cardinality(kSubset(k + 1, S))
  BY DEF CountsDraws
<1> DEFINE Holds(s) ==
             Falling(Cardinality(s), k + 1) = ((k + 1) * p) * Cardinality(kSubset(k + 1, s))
           D == {s \in SUBSET S : ~Holds(s)}
<1> SUFFICES ASSUME D # {} PROVE FALSE
  OBVIOUS
<1>1. PICK s \in D : \A t \in D : t \subseteq s => t = s
  <2>1. D \subseteq SUBSET S
    OBVIOUS
  <2> HIDE DEF D
  <2> QED
    BY <2>1, LeastSubset
<1>2. s \in SUBSET S /\ ~Holds(s) /\ IsFiniteSet(s) /\ Cardinality(s) \in Nat
  BY <1>1, FS_Subset, FS_CardinalityType
<1>3. s # {}
  <2> SUFFICES ASSUME s = {} PROVE FALSE
    OBVIOUS
  <2>1. Cardinality(s) = 0 /\ k + 1 > 0
    BY FS_EmptySet
  <2>2. Falling(0, k + 1) = 0
    BY FallingType
  <2>3. kSubset(k + 1, s) = {}
    <3>1. \A d \in SUBSET s : d = {}
      OBVIOUS
    <3>2. \A d \in SUBSET s : Cardinality(d) = 0
      BY <3>1, FS_EmptySet
    <3>3. k + 1 # 0
      OBVIOUS
    <3> QED
      BY <3>2, <3>3 DEF kSubset
  <2>4. Cardinality(kSubset(k + 1, s)) = 0
    BY <2>3, FS_EmptySet
  <2> DEFINE q == (k + 1) * p
  <2>5. q * 0 = 0
    <3>1. q \in Nat
      OBVIOUS
    <3> HIDE DEF q
    <3> QED
      BY <3>1
  <2> QED
    BY <1>2, <2>1, <2>2, <2>4, <2>5
<1>4. PICK x \in s : TRUE
  BY <1>3
<1> DEFINE t == s \ {x}
           n == Cardinality(t)
           a == Cardinality(kSubset(k + 1, t))
           b == Cardinality(kSubset(k, t))
<1>5. IsFiniteSet(t) /\ n \in Nat /\ Cardinality(s) = n + 1 /\ Holds(t)
  <2>1. IsFiniteSet(t) /\ n = Cardinality(s) - 1
    BY <1>2, <1>4, FS_RemoveElement
  <2>2. n \in Nat
    BY <2>1, FS_CardinalityType
  <2>3. t \in SUBSET S /\ t \subseteq s /\ t # s
    BY <1>2, <1>4
  <2>4. t \notin D
    <3> HIDE DEF D, t
    <3> QED
      BY <1>1, <2>3
  <2>5. Holds(t)
    <3> HIDE DEF Holds, t
    <3> QED
      BY <2>3, <2>4
  <2> QED
    BY <1>2, <2>1, <2>2, <2>5
<1>6. Falling(n, k + 1) = ((k + 1) * p) * a /\ Falling(n, k) = p * b
  BY <1>5 DEF CountsDraws
<1>7. a \in Nat /\ b \in Nat
  BY <1>5, DrawsFinite
<1>8. Cardinality(kSubset(k + 1, s)) = a + b
  BY <1>2, <1>4, DrawsSplit
<1>9. Falling(n + 1, k + 1) = Falling(n, k + 1) + (k + 1) * Falling(n, k)
  BY <1>5, FallingPascal
<1>10. Falling(n + 1, k + 1) # ((k + 1) * p) * (a + b)
  BY <1>2, <1>5, <1>8
<1> HIDE DEF a, b, n, Holds, D
<1>11. ((k + 1) * p) * a + (k + 1) * (p * b) = ((k + 1) * p) * (a + b)
  <2> DEFINE j == k + 1
  <2>1. j \in Nat
    OBVIOUS
  <2> HIDE DEF j
  <2>2. (j * p) * a + j * (p * b) = (j * p) * (a + b)
    BY <1>7, <2>1
  <2> QED
    BY <2>2 DEF j
<1> QED
  BY <1>6, <1>9, <1>10, <1>11

LEMMA FallingCountsDraws == \A k \in Nat : \E p \in Nat \ {0} : CountsDraws(p, k)
<1> DEFINE D == {i \in Nat : ~\E p \in Nat \ {0} : CountsDraws(p, i)}
<1> SUFFICES ASSUME D # {} PROVE FALSE
  OBVIOUS
<1>1. PICK m \in D : \A i \in D : m <= i
  <2>1. D \in SUBSET Nat
    OBVIOUS
  <2> HIDE DEF D
  <2> QED
    BY <2>1, LeastNatural
<1>2. m \in Nat /\ ~\E p \in Nat \ {0} : CountsDraws(p, m)
  BY <1>1
<1>3. m # 0
  <2>1. CountsDraws(1, 0)
    <3> SUFFICES ASSUME NEW S, IsFiniteSet(S)
                 PROVE  Falling(Cardinality(S), 0) = 1 * Cardinality(kSubset(0, S))
      BY DEF CountsDraws
    <3>1. \A d \in SUBSET S : IsFiniteSet(d)
      BY FS_Subset
    <3>2. \A d \in SUBSET S : Cardinality(d) = 0 <=> d = {}
      BY <3>1, FS_EmptySet
    <3>3. kSubset(0, S) = {{}}
      BY <3>2 DEF kSubset
    <3>4. Cardinality(kSubset(0, S)) = 1
      BY <3>3, FS_Singleton
    <3>5. Falling(Cardinality(S), 0) = 1
      BY FS_CardinalityType, FallingStep
    <3> QED
      BY <3>4, <3>5
  <2> QED
    BY <1>2, <2>1
<1>4. m - 1 \in Nat /\ m - 1 \notin D /\ (m - 1) + 1 = m
  BY <1>1, <1>2, <1>3
<1> DEFINE j == m - 1
<1>5. PICK p \in Nat \ {0} : CountsDraws(p, j)
  BY <1>4
<1>6. j \in Nat /\ m = j + 1
  BY <1>4
<1> HIDE DEF j, D
<1>7. CountsDraws((j + 1) * p, j + 1) /\ (j + 1) * p \in Nat \ {0}
  BY <1>5, <1>6, CountsNext
<1> QED
  BY <1>2, <1>6, <1>7

-----------------------------------------------------------------------------
(* Reports of jobs: fractions that are equal have equal sums.              *)
Proper(f) == f.num \in Int /\ f.den \in Nat \ {0}
Equal(f, g) == f.num * g.den = g.num * f.den

FractionRun(h, a, S) ==
  h = [s \in SUBSET S |-> IF s = {} THEN Fraction(0, 1) ELSE Plus(a[Pick(s)], h[s \ {Pick(s)}])]

LEMMA PlusProper ==
  ASSUME NEW f, NEW g, Proper(f), Proper(g)
  PROVE  Proper(Plus(f, g)) /\ Plus(f, g) \in [num : Int, den : Nat \ {0}]
<1> DEFINE a == f.num
           b == f.den
           c == g.num
           d == g.den
<1>1. a \in Int /\ b \in Nat \ {0} /\ c \in Int /\ d \in Nat \ {0}
  BY DEF Proper
<1>2. Plus(f, g) = [num |-> a * d + c * b, den |-> b * d]
  BY DEF Plus, Fraction
<1> HIDE DEF a, b, c, d
<1>3. a * d + c * b \in Int /\ b * d \in Nat \ {0}
  BY <1>1
<1> QED
  BY <1>2, <1>3 DEF Proper

LEMMA PlusEqual ==
  ASSUME NEW f, NEW g, NEW u, NEW w, Proper(f), Proper(g), Proper(u), Proper(w),
         Equal(f, u), Equal(g, w)
  PROVE  Equal(Plus(f, g), Plus(u, w))
<1> DEFINE a == f.num
           b == f.den
           c == g.num
           d == g.den
           i == u.num
           j == u.den
           k == w.num
           l == w.den
<1>1. /\ a \in Int /\ b \in Int /\ c \in Int /\ d \in Int
      /\ i \in Int /\ j \in Int /\ k \in Int /\ l \in Int
  BY DEF Proper
<1>2. a * j = i * b /\ c * l = k * d
  BY DEF Equal
<1>3. /\ Plus(f, g) = [num |-> a * d + c * b, den |-> b * d]
      /\ Plus(u, w) = [num |-> i * l + k * j, den |-> j * l]
  BY DEF Plus, Fraction
<1> HIDE DEF a, b, c, d, i, j, k, l
<1>4. (a * d + c * b) * (j * l) = (a * j) * (d * l) + (c * l) * (b * j)
  BY <1>1
<1>5. (i * l + k * j) * (b * d) = (i * b) * (d * l) + (k * d) * (b * j)
  BY <1>1
<1>6. (a * d + c * b) * (j * l) = (i * l + k * j) * (b * d)
  BY <1>2, <1>4, <1>5
<1> QED
  BY <1>3, <1>6 DEF Equal

LEMMA FractionRunExists ==
  ASSUME NEW S, IsFiniteSet(S), NEW a, \A x \in S : Proper(a[x])
  PROVE  \E h : FractionRun(h, a, S)
<1> DEFINE Frac == [num : Int, den : Nat \ {0}]
           zero == Fraction(0, 1)
           add == [p \in S \X Frac |-> Plus(a[p[1]], p[2])]
<1>1. PICK h : Folds(h, add, zero, S)
  BY FoldExists
<1>2. zero \in Frac /\ \A f \in Frac : Proper(f)
  BY DEF Fraction, Proper
<1>3. \A s \in SUBSET S : h[s] = IF s = {} THEN zero ELSE add[<<Pick(s), h[s \ {Pick(s)}]>>]
  BY <1>1 DEF Folds
<1>4. \A x \in S, f \in Frac : add[<<x, f>>] = Plus(a[x], f) /\ Plus(a[x], f) \in Frac
  <2> SUFFICES ASSUME NEW x \in S, NEW f \in Frac
               PROVE  add[<<x, f>>] = Plus(a[x], f) /\ Plus(a[x], f) \in Frac
    OBVIOUS
  <2>1. Plus(a[x], f) \in Frac
    BY <1>2, PlusProper
  <2> HIDE DEF Frac
  <2> QED
    BY <2>1
<1> HIDE DEF Frac, zero, add
<1>5. \A s \in SUBSET S : h[s] \in Frac
  <2> DEFINE D == {s \in SUBSET S : h[s] \notin Frac}
  <2> SUFFICES ASSUME D # {} PROVE FALSE
    OBVIOUS
  <2>1. PICK s \in D : \A t \in D : t \subseteq s => t = s
    <3>1. D \subseteq SUBSET S
      OBVIOUS
    <3> HIDE DEF D
    <3> QED
      BY <3>1, LeastSubset
  <2>2. s # {}
    BY <1>2, <1>3, <2>1
  <2>3. Pick(s) \in S /\ h[s \ {Pick(s)}] \in Frac
    BY <2>1, <2>2, Picked
  <2>4. add[<<Pick(s), h[s \ {Pick(s)}]>>] \in Frac
    <3> DEFINE x == Pick(s)
               f == h[s \ {Pick(s)}]
    <3>1. x \in S /\ f \in Frac
      BY <2>3
    <3> HIDE DEF x, f
    <3>2. add[<<x, f>>] \in Frac
      BY <1>4, <3>1
    <3> QED
      BY <3>2 DEF x, f
  <2>5. h[s] = add[<<Pick(s), h[s \ {Pick(s)}]>>]
    BY <1>3, <2>1, <2>2
  <2>6. h[s] \notin Frac
    BY <2>1
  <2> QED
    BY <2>4, <2>5, <2>6
<1>6. \A s \in SUBSET S : h[s] = IF s = {} THEN zero ELSE Plus(a[Pick(s)], h[s \ {Pick(s)}])
  <2> SUFFICES ASSUME NEW s \in SUBSET S, s # {}
               PROVE  h[s] = Plus(a[Pick(s)], h[s \ {Pick(s)}])
    BY <1>3
  <2>1. Pick(s) \in S /\ h[s \ {Pick(s)}] \in Frac
    BY <1>5, Picked
  <2> QED
    BY <1>3, <1>4, <2>1
<1>7. h = [s \in SUBSET S |-> h[s]]
  BY <1>1 DEF Folds
<1>8. FractionRun(h, a, S)
  BY <1>6, <1>7 DEF FractionRun, zero
<1> QED
  BY <1>8

LEMMA FractionRunsEqual ==
  ASSUME NEW S, IsFiniteSet(S), NEW a, NEW b, NEW g, NEW h,
         FractionRun(g, a, S), FractionRun(h, b, S),
         \A x \in S : Proper(a[x]) /\ Proper(b[x]) /\ Equal(a[x], b[x])
  PROVE  Proper(g[S]) /\ Proper(h[S]) /\ Equal(g[S], h[S])
<1> DEFINE Holds(s) == Proper(g[s]) /\ Proper(h[s]) /\ Equal(g[s], h[s])
           D == {s \in SUBSET S : ~Holds(s)}
<1> SUFFICES ASSUME D # {} PROVE FALSE
  OBVIOUS
<1>1. PICK s \in D : \A t \in D : t \subseteq s => t = s
  <2>1. D \subseteq SUBSET S
    OBVIOUS
  <2> HIDE DEF D
  <2> QED
    BY <2>1, LeastSubset
<1>2. /\ g[s] = IF s = {} THEN Fraction(0, 1) ELSE Plus(a[Pick(s)], g[s \ {Pick(s)}])
      /\ h[s] = IF s = {} THEN Fraction(0, 1) ELSE Plus(b[Pick(s)], h[s \ {Pick(s)}])
  <2>1. s \in SUBSET S
    BY <1>1
  <2> QED
    BY <2>1 DEF FractionRun
<1>3. s # {}
  <2>1. Proper(Fraction(0, 1)) /\ Equal(Fraction(0, 1), Fraction(0, 1))
    BY DEF Proper, Equal, Fraction
  <2> QED
    BY <1>1, <1>2, <2>1
<1>4. Pick(s) \in S /\ Holds(s \ {Pick(s)})
  BY <1>1, <1>3, Picked
<1>5. Holds(s)
  BY <1>2, <1>3, <1>4, PlusProper, PlusEqual
<1> QED
  BY <1>1, <1>5

(* Of one task: the estimate is the share of the draws that hit.           *)
LEMMA EstimateIsShare ==
  ASSUME JobReportTypeOK, NEW task, NEW k \in Nat, k <= Cardinality(TrialsOf(task))
  PROVE  LET estimate ==
               PassAtKForTask(Cardinality(TrialsOf(task)), Cardinality(SuccessesOf(task)), k)
         IN  /\ Proper(estimate) /\ Proper(Share(task, k))
             /\ Equal(estimate, Share(task, k))
<1> DEFINE T == TrialsOf(task)
           C == SuccessesOf(task)
           draws == kSubset(k, T)
           hits == {d \in draws : d \cap C # {}}
           misses == kSubset(k, T \ C)
           n == Cardinality(T)
           c == Cardinality(C)
           m == Cardinality(T \ C)
           a == Cardinality(draws)
           b == Cardinality(misses)
           e == Cardinality(hits)
<1>1. T \in SUBSET Scored /\ C \in SUBSET T
  BY DEF TrialsOf, SuccessesOf
<1>2. IsFiniteSet(T) /\ IsFiniteSet(C) /\ IsFiniteSet(T \ C)
  BY <1>1, TrialsFinite, FS_Subset
<1>3. n \in Nat /\ c \in Nat /\ m \in Nat /\ n - c = m
  <2>1. Cardinality(T \ C) = Cardinality(T) - Cardinality(T \cap C)
    BY <1>2, FS_Difference
  <2>2. T \cap C = C
    BY <1>1
  <2> QED
    BY <1>2, <2>1, <2>2, FS_CardinalityType
<1>4. Share(task, k) = Fraction(e, a)
  BY DEF Share
<1> HIDE DEF T, C
<1>5. IsFiniteSet(draws) /\ a \in Nat /\ IsFiniteSet(misses) /\ b \in Nat
  BY <1>2, DrawsFinite
<1>6. draws \ hits = misses /\ hits \in SUBSET draws
  BY <1>1 DEF kSubset
<1>7. e \in Nat /\ b = a - e
  <2>1. Cardinality(draws \ hits) = Cardinality(draws) - Cardinality(draws \cap hits)
    BY <1>5, FS_Difference
  <2>2. draws \cap hits = hits /\ IsFiniteSet(hits)
    BY <1>5, <1>6, FS_Subset
  <2> HIDE DEF draws, hits, misses
  <2> QED
    BY <1>6, <2>1, <2>2, FS_CardinalityType
<1>8. PICK p \in Nat \ {0} : CountsDraws(p, k)
  BY FallingCountsDraws
<1>9. Falling(n, k) = p * a /\ Falling(m, k) = p * b
  BY <1>2, <1>8 DEF CountsDraws
<1>10. a # 0
  <2>1. Falling(n, k) # 0
    BY <1>3, FallingType DEF T
  <2>2. p * 0 = 0
    OBVIOUS
  <2> QED
    BY <1>9, <2>1, <2>2
<1>11. m < k => b = 0
  <2> SUFFICES ASSUME m < k PROVE b = 0
    OBVIOUS
  <2>1. Falling(m, k) = 0
    BY <1>3, FallingType
  <2> HIDE DEF b
  <2>2. p * b = 0 => b = 0
    BY <1>5
  <2> QED
    BY <1>9, <2>1, <2>2
<1> DEFINE estimate == PassAtKForTask(n, c, k)
<1>12. estimate = IF m < k THEN Fraction(1, 1) ELSE Fraction(p * a - p * b, p * a)
  BY <1>3, <1>9 DEF PassAtKForTask
<1> HIDE DEF estimate, n, c, m, a, b, e, draws, hits, misses
<1>13. Proper(Share(task, k))
  BY <1>4, <1>5, <1>7, <1>10 DEF Proper, Fraction
<1>14. Proper(estimate) /\ Equal(estimate, Share(task, k))
  <2>1. CASE m < k
    <3>1. estimate = Fraction(1, 1) /\ e = a
      BY <1>5, <1>7, <1>11, <1>12, <2>1
    <3>2. 1 * a = a * 1
      BY <1>5
    <3> QED
      BY <1>4, <3>1, <3>2 DEF Proper, Equal, Fraction
  <2>2. CASE ~(m < k)
    <3>1. estimate = Fraction(p * a - p * b, p * a)
      BY <1>12, <2>2
    <3>2. p * a - p * b \in Int /\ p * a \in Nat \ {0}
      BY <1>5, <1>10
    <3>3. (p * a - p * b) * a = e * (p * a)
      <4>1. p * a - p * b = p * (a - b)
        BY <1>5
      <4>2. a - b = e
        BY <1>5, <1>7
      <4>3. (p * e) * a = e * (p * a)
        BY <1>5, <1>7
      <4> QED
        BY <4>1, <4>2, <4>3
    <3>4. estimate.num = p * a - p * b /\ estimate.den = p * a
      BY <3>1 DEF Fraction
    <3>5. Share(task, k).num = e /\ Share(task, k).den = a
      BY <1>4 DEF Fraction
    <3>6. Proper(estimate)
      BY <3>2, <3>4 DEF Proper
    <3>7. Equal(estimate, Share(task, k))
      BY <3>3, <3>4, <3>5 DEF Equal
    <3> QED
      BY <3>6, <3>7
  <2> QED
    BY <2>1, <2>2
<1> QED
  BY <1>13, <1>14 DEF estimate, n, c, T, C

(* Of all tasks.                                                           *)
LEMMA TasksFinite == ASSUME JobReportTypeOK PROVE IsFiniteSet(Tasks)
<1> DEFINE f == [i \in Scored |-> TaskOf(i)]
<1>1. f \in Surjection(Scored, Tasks)
  BY DEF Surjection, Tasks
<1> HIDE DEF f
<1> QED
  BY <1>1, TrialsFinite, FS_Surjection

LEMMA EnoughTrials ==
  ASSUME JobReportTypeOK, Tasks # {}, NEW k,
         k \in EligibleK(Min({Cardinality(TrialsOf(task)) : task \in Tasks}))
  PROVE  k \in Nat /\ \A task \in Tasks : k <= Cardinality(TrialsOf(task))
<1> DEFINE counts == {Cardinality(TrialsOf(task)) : task \in Tasks}
<1>1. counts \in SUBSET Nat /\ counts # {}
  <2>1. \A task \in Tasks : TrialsOf(task) \in SUBSET Scored
    BY DEF TrialsOf
  <2>2. \A task \in Tasks : Cardinality(TrialsOf(task)) \in Nat
    BY <2>1, TrialsFinite, FS_Subset, FS_CardinalityType
  <2> QED
    BY <2>2
<1>2. \A task \in Tasks : Cardinality(TrialsOf(task)) \in counts
  OBVIOUS
<1> HIDE DEF counts
<1>3. \E m \in counts : \A n \in counts : m <= n
  BY <1>1, LeastNatural
<1>4. Min(counts) \in counts /\ \A n \in counts : Min(counts) <= n
  BY <1>3 DEF Min
<1>5. k \in 2 .. Min(counts) /\ Min(counts) \in Nat
  BY <1>1, <1>4 DEF EligibleK, counts
<1>6. \A n \in counts : n \in Nat /\ k <= n
  BY <1>1, <1>4, <1>5
<1> QED
  BY <1>2, <1>5, <1>6

LEMMA PassAtKShown == JobReportInv => PassAtKUnbiased
<1> SUFFICES ASSUME JobReportInv, Written, NEW k \in DOMAIN resultJson.pass_at_k
             PROVE  LET reported == resultJson.pass_at_k[k].sum
                        expected ==
                          MapThenFoldSet(Plus, Fraction(0, 1), LAMBDA task : Share(task, k),
                                         LAMBDA set : CHOOSE task \in set : TRUE, Tasks)
                    IN  /\ reported.den > 0 /\ expected.den > 0
                        /\ reported.num * expected.den = expected.num * reported.den
  BY DEF PassAtKUnbiased
<1> DEFINE Estimate(task) ==
             PassAtKForTask(Cardinality(TrialsOf(task)), Cardinality(SuccessesOf(task)), k)
           max == Min({Cardinality(TrialsOf(task)) : task \in Tasks})
           reported == MapThenFoldSet(Plus, Fraction(0, 1), Estimate,
                                      LAMBDA set : CHOOSE task \in set : TRUE, Tasks)
           expected == MapThenFoldSet(Plus, Fraction(0, 1), LAMBDA task : Share(task, k),
                                      LAMBDA set : CHOOSE task \in set : TRUE, Tasks)
<1>1. JobReportTypeOK /\ resultJson.pass_at_k = PassAtK
  BY DEF JobReportInv, FullReport
<1>2. Binary /\ Tasks # {}
  BY <1>1 DEF PassAtK
<1>3. k \in EligibleK(max) /\ resultJson.pass_at_k[k].sum = reported
  BY <1>1, <1>2 DEF PassAtK
<1>4. k \in Nat /\ \A task \in Tasks : k <= Cardinality(TrialsOf(task))
  BY <1>1, <1>2, <1>3, EnoughTrials
<1> DEFINE a == [task \in Tasks |-> Estimate(task)]
           b == [task \in Tasks |-> Share(task, k)]
           RunA(h) == h = [s \in SUBSET Tasks |-> IF s = {} THEN Fraction(0, 1)
                                                  ELSE Plus(Estimate(Pick(s)), h[s \ {Pick(s)}])]
           RunB(h) == h = [s \in SUBSET Tasks |-> IF s = {} THEN Fraction(0, 1)
                                                  ELSE Plus(Share(Pick(s), k), h[s \ {Pick(s)}])]
<1>5. reported = (CHOOSE h : RunA(h))[Tasks] /\ expected = (CHOOSE h : RunB(h))[Tasks]
  BY DEF MapThenFoldSet, Pick
<1> HIDE DEF reported, expected
<1>6. \A task \in Tasks : Proper(a[task]) /\ Proper(b[task]) /\ Equal(a[task], b[task])
  <2> SUFFICES ASSUME NEW task \in Tasks
               PROVE  /\ Proper(Estimate(task)) /\ Proper(Share(task, k))
                      /\ Equal(Estimate(task), Share(task, k))
    OBVIOUS
  <2> QED
    BY <1>1, <1>4, EstimateIsShare
<1>7. IsFiniteSet(Tasks)
  BY <1>1, TasksFinite
<1>8. \A s \in SUBSET Tasks :
        s # {} => Estimate(Pick(s)) = a[Pick(s)] /\ Share(Pick(s), k) = b[Pick(s)]
  <2> SUFFICES ASSUME NEW s \in SUBSET Tasks, s # {}
               PROVE  Estimate(Pick(s)) = a[Pick(s)] /\ Share(Pick(s), k) = b[Pick(s)]
    OBVIOUS
  <2>1. Pick(s) \in Tasks
    BY Picked
  <2> QED
    BY <2>1
<1> HIDE DEF a, b, Estimate
<1>9. \A h : (RunA(h) <=> FractionRun(h, a, Tasks)) /\ (RunB(h) <=> FractionRun(h, b, Tasks))
  BY <1>8 DEF FractionRun
<1>10. (\E h : FractionRun(h, a, Tasks)) /\ (\E h : FractionRun(h, b, Tasks))
  BY <1>6, <1>7, FractionRunExists
<1> DEFINE g == CHOOSE any : RunA(any)
           h == CHOOSE any : RunB(any)
<1>11. FractionRun(g, a, Tasks) /\ FractionRun(h, b, Tasks)
  <2>1. RunA(g) /\ RunB(h)
    <3> HIDE DEF RunA, RunB
    <3> QED
      BY <1>9, <1>10
  <2> HIDE DEF g, h, RunA, RunB
  <2> QED
    BY <1>9, <2>1
<1>12. reported = g[Tasks] /\ expected = h[Tasks]
  BY <1>5
<1> HIDE DEF g, h
<1>13. Proper(g[Tasks]) /\ Proper(h[Tasks]) /\ Equal(g[Tasks], h[Tasks])
  BY <1>6, <1>7, <1>11, FractionRunsEqual
<1>14. Proper(reported) /\ Proper(expected) /\ Equal(reported, expected)
  BY <1>12, <1>13
<1>15. /\ reported.den > 0 /\ expected.den > 0
       /\ reported.num * expected.den = expected.num * reported.den
  BY <1>14 DEF Proper, Equal
<1> QED
  BY <1>3, <1>15 DEF expected

(* pass@k is unbiased, for any job, any k it reports and any outcomes: the *)
(* product that pass_at_k_for_task computes is the share of the draws of k *)
(* of a task's trials in which some trial passed, and there are that many. *)
THEOREM PassAtKOfReports == JobReportSpec => []PassAtKUnbiased
BY JobReportInvHolds, PassAtKShown, PTL

=============================================================================
