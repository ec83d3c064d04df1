-------------------------- MODULE SharedFilesProofs --------------------------
(***************************************************************************)
(* Proofs about what processes share without a lock, for any number of     *)
(* them: the cache of packaged tasks (PackageCache), for any lists of      *)
(* packages, the checkout of a git source (GitCheckout), and the update    *)
(* check and the installed binary (UpdateCheck).                           *)
(***************************************************************************)
EXTENDS PackageCache, GitCheckout, UpdateCheck, TLAPS

(* A call belongs to a process that has the pid, and to one package.       *)
LEMMA Jobs == \A j \in Job : j[1] \in Pid /\ PackageOf(j) \in Package
BY ListAssumption DEF Job, PackageOf

(* Nothing has happened at the start.                                      *)
LEMMA TypeInit == Init => TypeOK
BY ListAssumption DEF Init, TypeOK, Pc, Working, Content

(* What a process or one of its calls does keeps every variable's type.    *)
LEMMA TypeStep == TypeOK /\ [Next]_vars => TypeOK'
<1> SUFFICES ASSUME TypeOK, [Next]_vars PROVE TypeOK'
  OBVIOUS
<1> USE DEF TypeOK, Pc, Working, Content, Go, Return, Fail
<1>tries. MaxTries \in Nat \ {0}
  BY ListAssumption
<1>p. ASSUME NEW p \in Pid, Launch(p) \/ Collect(p) \/ End(p) PROVE TypeOK'
  <2>1. CASE Launch(p)
    BY <2>1 DEF Launch
  <2>2. CASE Collect(p)
    BY <2>2 DEF Collect
  <2>3. CASE End(p)
    BY <2>3, <1>tries DEF End
  <2> QED
    BY <1>p, <2>1, <2>2, <2>3
<1>j. ASSUME NEW j \in Job, Call(j) PROVE TypeOK'
  <2> DEFINE k == PackageOf(j)
  <2>k. j[1] \in Pid /\ k \in Package
    BY Jobs
  <2> HIDE DEF k
  <2>1. CASE TakeIndex(j)
    BY <2>1, <2>k DEF TakeIndex
  <2>2. CASE Lookup(j)
    <3>1. pc' \in [Job -> Pc] /\ result' \in [Job -> {"none", "ok", "err"}]
      BY <2>2 DEF Lookup
    <3>2. contested' \in [Package -> BOOLEAN]
      BY <2>2, <2>k, Zenon DEF Lookup, k
    <3> QED
      BY <2>2, <3>1, <3>2 DEF Lookup
  <2>3. CASE Stage(j)
    <3>1. littered' \in [Job -> BOOLEAN]
      BY <2>3, Zenon DEF Stage
    <3>2. staging' \in [Job -> Content \cup {"absent"}]
      BY <2>3 DEF Stage
    <3>3. pc' \in [Job -> Pc] /\ result' \in [Job -> {"none", "ok", "err"}]
      BY <2>3 DEF Stage
    <3> QED
      BY <2>3, <3>1, <3>2, <3>3 DEF Stage
  <2>4. CASE Fetch(j)
    <3>1. tries' \in [Job -> 1 .. MaxTries]
      BY <2>4, <1>tries DEF Fetch
    <3>2. pc' \in [Job -> Pc] /\ result' \in [Job -> {"none", "ok", "err"}]
      BY <2>4 DEF Fetch
    <3> QED
      BY <2>4, <3>1, <3>2 DEF Fetch
  <2>5. CASE Validate(j)
    <3>1. pc' \in [Job -> Pc] /\ result' \in [Job -> {"none", "ok", "err"}]
      BY <2>5 DEF Validate
    <3> QED
      BY <2>5, <3>1 DEF Validate
  <2>6. CASE Extract(j)
    <3>1. pc' \in [Job -> Pc] /\ result' \in [Job -> {"none", "ok", "err"}]
      BY <2>6 DEF Extract
    <3>2. staging' \in [Job -> Content \cup {"absent"}]
      BY <2>6 DEF Extract
    <3> QED
      BY <2>6, <3>1, <3>2 DEF Extract
  <2>7. CASE CheckRoot(j)
    BY <2>7 DEF CheckRoot
  <2>8. CASE FindTarget(j)
    <3>1. pc' \in [Job -> Pc]
      BY <2>8 DEF FindTarget
    <3>2. cache' \in [Package -> Content \cup {"absent"}]
      BY <2>8, <2>k DEF FindTarget, k
    <3>3. opened' \in [Package -> SUBSET Job]
      BY <2>8, <2>k DEF FindTarget, k
    <3> QED
      BY <2>8, <3>1, <3>2, <3>3 DEF FindTarget
  <2>9. CASE RemoveTarget(j)
    <3>1. pc' \in [Job -> Pc] /\ result' \in [Job -> {"none", "ok", "err"}]
      BY <2>9 DEF RemoveTarget
    <3>2. cache' \in [Package -> Content \cup {"absent"}]
      BY <2>9, <2>k DEF RemoveTarget, k
    <3>3. opened' \in [Package -> SUBSET Job]
      BY <2>9, <2>k DEF RemoveTarget, k
    <3> QED
      BY <2>9, <3>1, <3>2, <3>3 DEF RemoveTarget
  <2>10. CASE Install(j)
    <3>1. pc' \in [Job -> Pc] /\ result' \in [Job -> {"none", "ok", "err"}]
      BY <2>10 DEF Install
    <3>2. /\ cache' \in [Package -> Content \cup {"absent"}]
          /\ staging' \in [Job -> Content \cup {"absent"}]
      BY <2>10, <2>k DEF Install, k
    <3>3. opened' \in [Package -> SUBSET Job]
      BY <2>10, <2>k DEF Install, k
    <3> QED
      BY <2>10, <3>1, <3>2, <3>3 DEF Install
  <2>11. CASE Unstage(j)
    BY <2>11 DEF Unstage
  <2> QED
    BY <1>j, <2>1, <2>2, <2>3, <2>4, <2>5, <2>6, <2>7, <2>8, <2>9, <2>10, <2>11 DEF Call, CallStep, CommandStep
<1>u. CASE UNCHANGED vars
  BY <1>u DEF vars, local
<1> QED
  BY <1>p, <1>j, <1>u DEF Next

(* The state of the cache and of all processes is well typed.              *)
THEOREM TypeCorrect == Spec => []TypeOK
BY TypeInit, TypeStep, PTL DEF Spec

-----------------------------------------------------------------------------
(* No call has begun whose index has not been taken.                       *)
QueuedInv == \A j \in Job : next[j[1]] <= j[2] => pc[j] = "queued"

(* The counter only grows while a process lives, and starts again with it. *)
LEMMA QueuedInvStep == TypeOK /\ QueuedInv /\ [Next]_vars => QueuedInv'
<1> SUFFICES ASSUME TypeOK, QueuedInv, [Next]_vars,
                    NEW q \in Job, next'[q[1]] <= q[2]
             PROVE  pc'[q] = "queued"
  BY DEF QueuedInv
<1>q. next[q[1]] <= q[2] => pc[q] = "queued"
  BY DEF QueuedInv
<1>t. /\ pc \in [Job -> Pc] /\ next \in [Pid -> Nat]
      /\ q[1] \in Pid /\ q[2] \in Nat /\ (\A p \in Pid : q[1] = p => q \in JobsOf(p))
  BY ListAssumption DEF TypeOK, Job, JobsOf
<1>p. ASSUME NEW p \in Pid, Launch(p) \/ Collect(p) \/ End(p) PROVE pc'[q] = "queued"
  <2>1. CASE Launch(p) \/ Collect(p)
    BY <2>1, <1>q DEF Launch, Collect
  <2>2. CASE End(p)
    BY <2>2, <1>q, <1>t DEF End
  <2> QED
    BY <1>p, <2>1, <2>2
<1>j. ASSUME NEW j \in Job, Call(j) PROVE pc'[q] = "queued"
  <2> USE DEF Go, Return, Fail
  <2>1. CASE TakeIndex(j)
    <3>1. q # j => pc'[q] = pc[q]
      BY <2>1, <1>t DEF TakeIndex
    <3>2. q = j => next'[q[1]] = q[2] + 1
      BY <2>1, <1>t DEF TakeIndex
    <3>3. /\ next[q[1]] \in Nat /\ next'[q[1]] \in Nat /\ q[2] \in Nat
          /\ next[q[1]] <= next'[q[1]]
      BY <2>1, <1>t DEF TakeIndex
    <3>4. next[q[1]] <= q[2] /\ q # j
      BY <3>2, <3>3
    <3> QED
      BY <3>1, <3>4, <1>q
  <2>2. ASSUME ~TakeIndex(j)
        PROVE  next' = next /\ pc[j] # "queued" /\ (q # j => pc'[q] = pc[q])
    <3>1. CASE Lookup(j) \/ Stage(j) \/ Fetch(j) \/ Validate(j) \/ Extract(j)
      BY <3>1, <1>t DEF Lookup, Stage, Fetch, Validate, Extract
    <3>2. CASE CheckRoot(j) \/ FindTarget(j) \/ RemoveTarget(j) \/ Install(j) \/ Unstage(j)
      BY <3>2, <1>t DEF CheckRoot, FindTarget, RemoveTarget, Install, Unstage
    <3> QED
      BY <1>j, <2>2, <3>1, <3>2 DEF Call, CallStep, CommandStep
  <2> QED
    BY <2>1, <2>2, <1>q
<1>u. CASE UNCHANGED vars
  BY <1>u, <1>q DEF vars, local
<1> QED
  BY <1>p, <1>j, <1>u DEF Next

(* A staging directory is there only during a call, or known to be left.   *)
StagingInv ==
  \A j \in Job :
    ~littered[j] /\ pc[j] \in {"queued", "lookup", "done"} => staging[j] = "absent"

(* Whatever ends a call, its staging directory goes or is counted.         *)
LEMMA StagingInvStep == TypeOK /\ QueuedInv /\ StagingInv /\ [Next]_vars => StagingInv'
<1> SUFFICES ASSUME TypeOK, QueuedInv, StagingInv, [Next]_vars,
                    NEW q \in Job, ~littered'[q], pc'[q] \in {"queued", "lookup", "done"}
             PROVE  staging'[q] = "absent"
  BY DEF StagingInv
<1>q. ~littered[q] /\ pc[q] \in {"queued", "lookup", "done"} => staging[q] = "absent"
  BY DEF StagingInv
<1> USE DEF Go, Return, Fail
<1>t. /\ pc \in [Job -> Pc] /\ staging \in [Job -> Content \cup {"absent"}]
      /\ littered \in [Job -> BOOLEAN]
  BY DEF TypeOK
<1>p. ASSUME NEW p \in Pid, Launch(p) \/ Collect(p) \/ End(p) PROVE staging'[q] = "absent"
  <2>1. CASE Launch(p) \/ Collect(p)
    BY <2>1, <1>q DEF Launch, Collect
  <2>2. CASE End(p)
    <3>1. ~(littered[q] \/ (q \in JobsOf(p) /\ staging[q] # "absent"))
      <4>1. littered'[q] = (littered[q] \/ (q \in JobsOf(p) /\ staging[q] # "absent"))
        BY <2>2, Zenon DEF End
      <4> QED
        BY <4>1
    <3>2. staging' = staging
      BY <2>2 DEF End
    <3>3. q \notin JobsOf(p) => pc'[q] = pc[q]
      BY <2>2, <1>t DEF End
    <3> QED
      BY <3>1, <3>2, <3>3, <1>q
  <2> QED
    BY <1>p, <2>1, <2>2
<1>j. ASSUME NEW j \in Job, Call(j) PROVE staging'[q] = "absent"
  <2>1. CASE TakeIndex(j)
    <3>1. next[j[1]] <= j[2]
      <4>1. next[j[1]] = j[2] /\ next[j[1]] \in Nat
        BY <2>1, Jobs DEF TakeIndex, TypeOK
      <4> QED
        BY <4>1
    <3>2. pc[j] = "queued"
      BY <3>1 DEF QueuedInv
    <3> QED
      BY <2>1, <3>2, <1>t, <1>q DEF TakeIndex
  <2>2. CASE Lookup(j)
    BY <2>2, <1>t, <1>q DEF Lookup
  <2>3. CASE Stage(j)
    <3>1. q = j => littered'[q] \/ pc'[q] = "fetch"
      BY <2>3, <1>t DEF Stage
    <3>2. q # j => littered'[q] = littered[q]
      BY <2>3, <1>t, Zenon DEF Stage
    <3>3. q # j => pc'[q] = pc[q] /\ staging'[q] = staging[q]
      BY <2>3, <1>t DEF Stage
    <3> QED
      BY <3>1, <3>2, <3>3, <1>q
  <2>4. CASE Fetch(j)
    BY <2>4, <1>t, <1>q DEF Fetch
  <2>5. CASE Validate(j) \/ Extract(j) \/ CheckRoot(j)
    BY <2>5, <1>t, <1>q DEF Validate, Extract, CheckRoot
  <2>6. CASE FindTarget(j) \/ RemoveTarget(j) \/ Install(j)
    BY <2>6, <1>t, <1>q DEF FindTarget, RemoveTarget, Install
  <2>7. CASE Unstage(j)
    <3>1. q = j => littered'[q] \/ staging'[q] = "absent"
      BY <2>7, <1>t DEF Unstage
    <3>2. q # j => littered'[q] = littered[q]
      BY <2>7, <1>t, Zenon DEF Unstage
    <3>3. q # j => pc'[q] = pc[q] /\ staging'[q] = staging[q]
      BY <2>7, <1>t DEF Unstage
    <3> QED
      BY <3>1, <3>2, <3>3, <1>q
  <2> QED
    BY <1>j, <2>1, <2>2, <2>3, <2>4, <2>5, <2>6, <2>7 DEF Call, CallStep, CommandStep
<1>u. CASE UNCHANGED vars
  BY <1>u, <1>q DEF vars, local
<1> QED
  BY <1>p, <1>j, <1>u DEF Next

(* A call that is over has left no staging directory, unless it could not  *)
(* be made or removed or a process with its pid died on the way.           *)
THEOREM StagingGone == Spec => []StagingSwept
<1>1. Init => StagingInv
  BY DEF Init, StagingInv
<1>2. StagingInv => StagingSwept
  BY DEF StagingInv, StagingSwept
<1>3. Init => QueuedInv
  BY DEF Init, QueuedInv
<1> QED
  BY <1>1, <1>2, <1>3, QueuedInvStep, StagingInvStep, TypeCorrect, PTL DEF Spec

-----------------------------------------------------------------------------
(* What has passed the check is a whole package.                           *)
CheckedInv ==
  \A j \in Job :
    /\ pc[j] = "check" => staging[j] \in {"husk", "whole"}
    /\ pc[j] \in {"exists", "removing", "rename"} => staging[j] = "whole"

(* Without contention one call at a time fills the cache with a package,   *)
(* and only while it is not there.                                         *)
FilledByOne(k) ==
  /\ cache[k] # "part"
  /\ \A j, q \in Job :
       PackageOf(j) = k /\ PackageOf(q) = k /\ pc[j] \in Working /\ pc[q] \in Working => j = q
  /\ \A j \in Job : PackageOf(j) = k =>
       /\ result[j] = "ok" => cache[k] = "whole"
       /\ pc[j] \in Working /\ cache[k] = "whole" => pc[j] = "unstage"

FillInv == \A k \in Package : ~contested[k] => FilledByOne(k)

WholeInv == CheckedInv /\ FillInv

(* Only its own call touches a staging directory, and the check comes      *)
(* between the extraction and the rename.                                  *)
LEMMA CheckedInvStep == TypeOK /\ CheckedInv /\ [Next]_vars => CheckedInv'
<1> SUFFICES ASSUME TypeOK, CheckedInv, [Next]_vars PROVE CheckedInv'
  OBVIOUS
<1> USE DEF CheckedInv, Go, Return, Fail
<1>t. pc \in [Job -> Pc] /\ staging \in [Job -> Content \cup {"absent"}]
  BY DEF TypeOK
<1>p. ASSUME NEW p \in Pid, Launch(p) \/ Collect(p) \/ End(p) PROVE CheckedInv'
  BY <1>p, <1>t DEF Launch, Collect, End
<1>j. ASSUME NEW j \in Job, Call(j) PROVE CheckedInv'
  <2>1. CASE TakeIndex(j) \/ Lookup(j) \/ Fetch(j) \/ Validate(j)
    BY <2>1, <1>t DEF TakeIndex, Lookup, Fetch, Validate
  <2>2. CASE Stage(j)
    BY <2>2, <1>t DEF Stage
  <2>3. CASE Extract(j)
    BY <2>3, <1>t DEF Extract
  <2>4. CASE CheckRoot(j)
    BY <2>4, <1>t DEF CheckRoot, HasTaskToml
  <2>5. CASE FindTarget(j) \/ RemoveTarget(j)
    BY <2>5, <1>t DEF FindTarget, RemoveTarget
  <2>6. CASE Install(j) \/ Unstage(j)
    BY <2>6, <1>t DEF Install, Unstage
  <2> QED
    BY <1>j, <2>1, <2>2, <2>3, <2>4, <2>5, <2>6 DEF Call, CallStep, CommandStep
<1>u. CASE UNCHANGED vars
  BY <1>u DEF vars, local
<1> QED
  BY <1>p, <1>j, <1>u DEF Next

(* What a call does to a package that is not its own: nothing.             *)
LEMMA OthersApart ==
  ASSUME TypeOK, NEW j \in Job, Call(j), NEW k \in Package, PackageOf(j) # k
  PROVE  /\ cache'[k] = cache[k]
         /\ \A q \in Job : PackageOf(q) = k => pc'[q] = pc[q] /\ result'[q] = result[q]
<1> USE DEF Go, Return, Fail
<1>t. /\ pc \in [Job -> Pc] /\ result \in [Job -> {"none", "ok", "err"}]
      /\ cache \in [Package -> Content \cup {"absent"}]
  BY DEF TypeOK
<1>1. CASE TakeIndex(j) \/ Lookup(j) \/ Stage(j) \/ Fetch(j)
  BY <1>1, <1>t DEF TakeIndex, Lookup, Stage, Fetch
<1>2. CASE Validate(j) \/ Extract(j) \/ CheckRoot(j)
  BY <1>2, <1>t DEF Validate, Extract, CheckRoot
<1>3. CASE FindTarget(j) \/ RemoveTarget(j) \/ Install(j) \/ Unstage(j)
  BY <1>3, <1>t DEF FindTarget, RemoveTarget, Install, Unstage
<1> QED
  BY <1>1, <1>2, <1>3 DEF Call, CallStep, CommandStep

(* A package is known to be contested for good.                            *)
LEMMA ContestedStays ==
  ASSUME TypeOK, [Next]_vars, NEW k \in Package, contested[k]
  PROVE  contested'[k]
<1>1. ASSUME NEW p \in Pid, Launch(p) \/ Collect(p) \/ End(p) PROVE contested' = contested
  BY <1>1 DEF Launch, Collect, End
<1>2. ASSUME NEW j \in Job, Call(j), ~Lookup(j) PROVE contested' = contested
  BY <1>2 DEF Call, CallStep, CommandStep, TakeIndex, Stage, Fetch, Validate, Extract, CheckRoot, FindTarget,
              RemoveTarget, Install, Unstage
<1>3. ASSUME NEW j \in Job, Lookup(j) PROVE contested'[k]
  <2>1. CASE contested' = contested
    BY <2>1
  <2>2. CASE contested' = [contested EXCEPT ![PackageOf(j)] = @ \/ Filling(j) # {}]
    BY <2>2, Zenon DEF TypeOK
  <2> QED
    BY <1>3, <2>1, <2>2 DEF Lookup
<1>4. CASE UNCHANGED vars
  BY <1>4 DEF vars
<1> QED
  BY <1>1, <1>2, <1>3, <1>4 DEF Next

(* A package is installed in one piece, by one call, and stays.            *)
LEMMA FillInvStep == TypeOK /\ WholeInv /\ [Next]_vars => FillInv'
<1> SUFFICES ASSUME TypeOK, WholeInv, [Next]_vars, NEW k \in Package, ~contested'[k]
             PROVE  FilledByOne(k)'
  BY DEF FillInv
<1>f. ~contested[k] /\ FilledByOne(k)
  BY ContestedStays DEF WholeInv, FillInv
<1>t. /\ pc \in [Job -> Pc] /\ result \in [Job -> {"none", "ok", "err"}]
      /\ cache \in [Package -> Content \cup {"absent"}]
  BY DEF TypeOK
<1> USE DEF FilledByOne, Working, Content
<1>p. ASSUME NEW p \in Pid, Launch(p) \/ Collect(p) \/ End(p) PROVE FilledByOne(k)'
  <2>1. CASE Launch(p) \/ Collect(p)
    BY <2>1, <1>f DEF Launch, Collect
  <2>2. CASE End(p)
    <3>1. /\ cache' = cache
          /\ \A q \in Job : \/ pc'[q] = "queued" /\ result'[q] = "none"
                            \/ pc'[q] = pc[q] /\ result'[q] = result[q]
      BY <2>2 DEF End
    <3> QED
      BY <3>1, <1>f
  <2> QED
    BY <1>p, <2>1, <2>2
<1>j. ASSUME NEW j \in Job, Call(j), PackageOf(j) # k PROVE FilledByOne(k)'
  BY <1>j, <1>f, OthersApart
<1>k. ASSUME NEW j \in Job, Call(j), PackageOf(j) = k PROVE FilledByOne(k)'
  <2>c. pc[j] \in {"exists", "removing", "rename"} => staging[j] = "whole"
    BY DEF WholeInv, CheckedInv
  <2> USE <1>t, <1>f, <1>k DEF Go, Return, Fail
  <2>1. CASE TakeIndex(j)
    BY <2>1 DEF TakeIndex
  <2>2. CASE Lookup(j)
    <3>1. CASE HasTaskToml(cache[k])
      BY <2>2, <3>1 DEF Lookup, HasTaskToml
    <3>2. CASE ~HasTaskToml(cache[k])
      <4>1. contested' = [contested EXCEPT ![k] = @ \/ Filling(j) # {}]
        BY <2>2, <3>2 DEF Lookup
      <4>2. Filling(j) = {}
        BY <4>1, Zenon DEF TypeOK
      <4>3. \A q \in Job : q # j /\ PackageOf(q) = k => pc[q] \notin Working
        BY <4>2 DEF Filling
      <4> QED
        BY <2>2, <3>2, <4>3 DEF Lookup, HasTaskToml
    <3> QED
      BY <3>1, <3>2
  <2>3. CASE Stage(j)
    BY <2>3 DEF Stage
  <2>4. CASE Fetch(j)
    BY <2>4 DEF Fetch
  <2>5. CASE Validate(j) \/ Extract(j) \/ CheckRoot(j)
    BY <2>5 DEF Validate, Extract, CheckRoot
  <2>6. CASE FindTarget(j)
    BY <2>6 DEF FindTarget, HasTaskToml
  <2>7. CASE RemoveTarget(j)
    BY <2>7 DEF RemoveTarget
  <2>8. CASE Install(j)
    BY <2>8, <2>c DEF Install
  <2>9. CASE Unstage(j)
    BY <2>9 DEF Unstage
  <2> QED
    BY <1>k, <2>1, <2>2, <2>3, <2>4, <2>5, <2>6, <2>7, <2>8, <2>9 DEF Call, CallStep, CommandStep
<1>u. CASE UNCHANGED vars
  BY <1>u, <1>f DEF vars, local
<1> QED
  BY <1>p, <1>j, <1>k, <1>u DEF Next

(* A process finds every package it was given in one piece, unless two     *)
(* were filling the cache with it at once.                                 *)
THEOREM PackagesWhole == Spec => []GivenIsWhole
<1>1. Init => WholeInv
  BY DEF Init, WholeInv, CheckedInv, FillInv, FilledByOne, Working
<1>2. WholeInv => GivenIsWhole
  BY Jobs DEF WholeInv, FillInv, FilledByOne, GivenIsWhole
<1>3. TypeOK /\ WholeInv /\ [Next]_vars => WholeInv'
  BY CheckedInvStep, FillInvStep DEF WholeInv
<1> QED
  BY <1>1, <1>2, <1>3, TypeCorrect, PTL DEF Spec

-----------------------------------------------------------------------------
(* The directory of a clone is part only while git makes it, has a clone   *)
(* for who checks out and the revision for who was given it, and who fills *)
(* it is alone.                                                            *)
Quiet ==
  ~disturbed =>
    /\ ~Contested(at)
    /\ dir = "part" => at[cloner] = "cloning"
    /\ \A p \in Process :
         /\ at[p] = "checkout" => dir \in {"whole", "mixed"}
         /\ at[p] = "given" => dir = "whole" /\ files = Asked

GitInv == GitTypeOK /\ Quiet

(* Nobody is there at the start.                                           *)
LEMMA GitInvInit == GitInit => GitInv
<1>1. 1 \in Commit
  BY TipAssumption DEF Commit
<1> QED
  BY <1>1 DEF GitInit, GitInv, GitTypeOK, Quiet, Contested, Dir, Inside, Making

(* A step of one process keeps the types.                                  *)
LEMMA GitTypeStep ==
  ASSUME GitTypeOK, [GitNext]_gitVars
  PROVE  GitTypeOK'
<1> USE DEF GitTypeOK, Dir
<1>1. ASSUME NEW p \in Process, NEW label \in Inside \cup {"failed"}, GitGo(p, label)
      PROVE  /\ UNCHANGED <<tip, wanted>>
             /\ at' \in [Process -> Inside \cup {"idle", "failed", "dead"}]
             /\ disturbed' \in BOOLEAN
  <2>1. at' \in [Process -> Inside \cup {"idle", "failed", "dead"}]
    BY <1>1 DEF GitGo
  <2>2. disturbed' \in BOOLEAN
    BY <1>1, Zenon DEF GitGo
  <2> QED
    BY <1>1, <2>1, <2>2 DEF GitGo
<1>2. ASSUME NEW p \in Process,
             \/ LookForGit(p) \/ LookForDir(p) \/ RemoveDir(p) \/ StartClone(p) \/ FinishClone(p)
             \/ Checkout(p)
      PROVE  GitTypeOK'
  <2>1. \E label \in Inside \cup {"failed"} : GitGo(p, label)
    BY <1>2 DEF LookForGit, LookForDir, RemoveDir, StartClone, FinishClone, Checkout, Inside, Making
  <2>2. /\ dir' \in Dir /\ cloner' \in Process
        /\ files' \in Commit \cup {0} /\ cloned' \in Commit \cup {0}
    BY <1>2 DEF LookForGit, LookForDir, RemoveDir, StartClone, FinishClone, Checkout, Asked
  <2> QED
    BY <1>1, <2>1, <2>2
<1>3. ASSUME NEW p \in Process, Killed(p) PROVE GitTypeOK'
  <2>1. dir' \in Dir /\ cloner' \in Process /\ at' \in [Process -> Inside \cup {"idle", "failed", "dead"}]
    BY <1>3 DEF Killed
  <2>2. disturbed' \in BOOLEAN
    BY <1>3, Zenon DEF Killed
  <2> QED
    BY <1>3, <2>1, <2>2 DEF Killed
<1>4. CASE Push
  BY <1>4, TipAssumption DEF Push, Commit
<1>5. CASE UNCHANGED gitVars
  BY <1>5 DEF gitVars
<1> QED
  BY <1>2, <1>3, <1>4, <1>5 DEF GitNext

(* A step of one process that is not disturbed keeps the directory what    *)
(* the others take it for.                                                 *)
LEMMA QuietStep ==
  ASSUME GitInv, [GitNext]_gitVars
  PROVE  Quiet'
<1> SUFFICES ASSUME ~disturbed' PROVE Quiet'
  BY DEF Quiet
<1> USE DEF GitInv, GitTypeOK, Quiet
<1>c. ASSUME NEW p \in Process, NEW label \in Inside \cup {"failed"}, GitGo(p, label)
      PROVE  ~disturbed /\ ~Contested(at') /\ at' = [at EXCEPT ![p] = label]
  BY <1>c, Zenon DEF GitGo
<1>same. ASSUME NEW p \in Process, NEW label \in Inside \cup {"failed"}, GitGo(p, label)
         PROVE  UNCHANGED wanted
  BY <1>same DEF GitGo
<1>alone. ASSUME NEW p \in Process, at[p] \in Making, ~disturbed
          PROVE  \A q \in Process \ {p} : at[q] \notin Inside
  BY <1>alone DEF Contested
<1>1. ASSUME NEW p \in Process, LookForGit(p) PROVE Quiet'
  <2>1. CASE HasGit
    <3>1. GitGo(p, "checkout") /\ UNCHANGED <<dir, files, cloned, cloner, wanted>>
      BY <1>1, <2>1 DEF LookForGit, GitGo
    <3>2. ~disturbed /\ ~Contested(at') /\ at' = [at EXCEPT ![p] = "checkout"]
      BY <1>c, <3>1 DEF Inside
    <3>3. dir # "part"
      <4> SUFFICES ASSUME dir = "part" PROVE FALSE
        OBVIOUS
      <4>1. at'[cloner] = "cloning" /\ cloner # p /\ at'[p] = "checkout"
        BY <1>1, <3>2 DEF LookForGit
      <4> QED
        BY <3>2, <4>1 DEF Contested, Making, Inside
    <3> QED
      BY <2>1, <3>1, <3>2, <3>3 DEF HasGit, Asked
  <2>2. CASE ~HasGit
    <3>1. GitGo(p, "exists") /\ UNCHANGED <<dir, files, cloned, cloner, wanted>>
      BY <1>1, <2>2 DEF LookForGit, GitGo
    <3>2. ~disturbed /\ ~Contested(at') /\ at' = [at EXCEPT ![p] = "exists"]
      BY <1>c, <3>1 DEF Inside, Making
    <3> QED
      BY <2>2, <3>1, <3>2 DEF HasGit, Asked
  <2> QED
    BY <2>1, <2>2
<1>2. ASSUME NEW p \in Process, LookForDir(p) PROVE Quiet'
  <2>1. PICK label \in {"clone", "remove"} : GitGo(p, label)
    BY <1>2 DEF LookForDir
  <2>2. ~disturbed /\ ~Contested(at') /\ at' = [at EXCEPT ![p] = label]
    BY <1>c, <2>1 DEF Inside, Making
  <2> QED
    BY <1>2, <1>same, <2>1, <2>2 DEF LookForDir, Asked, Inside, Making
<1>3. ASSUME NEW p \in Process, RemoveDir(p) PROVE Quiet'
  <2>1. PICK label \in {"clone", "failed"} : GitGo(p, label)
    BY <1>3 DEF RemoveDir
  <2>2. ~disturbed /\ ~Contested(at') /\ at' = [at EXCEPT ![p] = label]
    BY <1>c, <2>1 DEF Inside, Making
  <2>3. \A q \in Process \ {p} : at[q] \notin Inside
    BY <1>3, <1>alone, <2>2 DEF RemoveDir, Making
  <2>4. dir # "part" /\ dir' # "part"
    BY <1>3, <2>2, <2>3 DEF RemoveDir, Inside, Making
  <2> QED
    BY <1>3, <2>2, <2>3, <2>4 DEF RemoveDir, Inside
<1>4. ASSUME NEW p \in Process, StartClone(p) PROVE Quiet'
  <2>1. PICK label \in {"cloning", "failed"} :
          /\ GitGo(p, label)
          /\ IF label = "cloning" THEN dir' = "part" /\ cloner' = p ELSE UNCHANGED <<dir, cloned, cloner>>
    BY <1>4 DEF StartClone
  <2>2. ~disturbed /\ ~Contested(at') /\ at' = [at EXCEPT ![p] = label]
    BY <1>c, <2>1 DEF Inside, Making
  <2>3. \A q \in Process \ {p} : at[q] \notin Inside
    BY <1>4, <1>alone, <2>2 DEF StartClone, Making
  <2> QED
    BY <1>4, <2>1, <2>2, <2>3 DEF StartClone, Inside, Making
<1>5. ASSUME NEW p \in Process, FinishClone(p) PROVE Quiet'
  <2>1. PICK label \in {"checkout", "failed"} :
          GitGo(p, label) /\ (label = "checkout" => dir' = "whole")
    BY <1>5 DEF FinishClone
  <2>2. ~disturbed /\ ~Contested(at') /\ at' = [at EXCEPT ![p] = label]
    BY <1>c, <2>1 DEF Inside, Making
  <2>3. \A q \in Process \ {p} : at[q] \notin Inside
    BY <1>5, <1>alone, <2>2 DEF FinishClone, Making
  <2>4. dir' # "part"
    BY <1>5, <2>2, <2>3 DEF FinishClone, Inside, Making
  <2> QED
    BY <1>5, <2>1, <2>2, <2>3, <2>4 DEF FinishClone, Inside
<1>6. ASSUME NEW p \in Process, Checkout(p) PROVE Quiet'
  <2>1. PICK label \in {"given", "failed"} :
          /\ GitGo(p, label)
          /\ \/ UNCHANGED <<dir, files>> /\ (label = "given" => dir = "part")
             \/ dir' = "whole" /\ files' = Asked
    BY <1>6 DEF Checkout
  <2>2. ~disturbed /\ ~Contested(at') /\ at' = [at EXCEPT ![p] = label]
    BY <1>c, <2>1 DEF Inside, Making
  <2>3. dir \in {"whole", "mixed"} /\ UNCHANGED <<cloner, cloned>>
    BY <1>6, <2>2 DEF Checkout
  <2>4. Asked' = Asked
    BY <1>same, <2>1, <2>3 DEF Asked, Inside, Making
  <2> QED
    BY <2>1, <2>2, <2>3, <2>4
<1>7. ASSUME NEW p \in Process, Killed(p) PROVE Quiet'
  <2>1. ~disturbed /\ at[p] # "cloning" /\ at' = [at EXCEPT ![p] = "dead"] /\ cloner' = cloner
    BY <1>7, Zenon DEF Killed
  <2>2. ~Contested(at')
    BY <2>1 DEF Contested, Making, Inside
  <2>3. CASE at[p] = "remove"
    <3>1. \A q \in Process \ {p} : at[q] \notin Inside
      BY <1>alone, <2>1, <2>3 DEF Making
    <3>2. dir' # "part"
      BY <1>7, <2>1, <2>3, <3>1 DEF Killed, Inside, Making
    <3> QED
      BY <2>1, <2>2, <3>1, <3>2 DEF Inside
  <2>4. CASE at[p] # "remove"
    <3>1. /\ dir' = dir \/ (dir = "whole" /\ files # Asked /\ dir' = "mixed")
          /\ UNCHANGED files /\ Asked' = Asked
      BY <1>7, <2>1, <2>4 DEF Killed, Asked
    <3> QED
      BY <2>1, <2>2, <3>1
  <2> QED
    BY <2>3, <2>4
<1>8. CASE Push
  BY <1>8 DEF Push, Contested, Asked
<1>9. CASE UNCHANGED gitVars
  BY <1>9 DEF gitVars, Contested, Asked
<1> QED
  BY <1>1, <1>2, <1>3, <1>4, <1>5, <1>6, <1>7, <1>8, <1>9 DEF GitNext

(* Every behaviour has the types of its state.                             *)
THEOREM GitTypeCorrect == GitSpec => []GitTypeOK
<1>1. GitInit => GitTypeOK
  BY GitInvInit DEF GitInv
<1> QED
  BY <1>1, GitTypeStep, PTL DEF GitSpec

(* Who was given the checkout finds in it the commit it asked for, or what *)
(* the moving name it asked for was when the directory was cloned, as long *)
(* as no process died in a clone and none was there while another filled   *)
(* it.                                                                     *)
THEOREM GivenTheRevision == GitSpec => []CheckoutAsAsked
<1>1. GitInv /\ [GitNext]_gitVars => GitInv'
  BY GitTypeStep, QuietStep DEF GitInv
<1>2. GitInv => CheckoutAsAsked
  BY DEF GitInv, Quiet, CheckoutAsAsked
<1> QED
  BY GitInvInit, <1>1, <1>2, PTL DEF GitSpec

-----------------------------------------------------------------------------
(* The versions are those published, and there is a first one.             *)
LEMMA Releases ==
  /\ DOMAIN Release = 1 .. Len(Release) /\ Len(Release) \in Nat /\ 1 \in DOMAIN Release
  /\ Version \subseteq Seq(Nat) /\ Unknown \notin Version /\ Own \subseteq Version
  BY UpdateAssumption DEF Version

(* Nothing is known at the start.                                          *)
LEMMA UpdateInitType == ASSUME UpdateInit PROVE UpdateTypeOK
  BY Releases DEF UpdateInit, UpdateTypeOK

(* What a process adds to the writers or makes of one is a writer.         *)
LEMMA WriterType ==
  ASSUME UpdateTypeOK, NEW u \in User, NEW latest \in Version \cup {Unknown},
         NEW step \in {"fetch", "open", "write"}
  PROVE  writers \cup {Writer(u, latest, step)} \subseteq
           [by : User, at : Nat, latest : Version \cup {Unknown}, step : {"fetch", "open", "write"}]
  BY DEF UpdateTypeOK, Writer

(* A writer that goes on is one.                                           *)
LEMMA BecomesType ==
  ASSUME UpdateTypeOK, NEW w \in writers, NEW latest \in Version \cup {Unknown},
         NEW step \in {"fetch", "open", "write"}
  PROVE  Becomes(w, latest, step) \subseteq
           [by : User, at : Nat, latest : Version \cup {Unknown}, step : {"fetch", "open", "write"}]
  BY DEF UpdateTypeOK, Becomes

(* The installer takes a version that is published.                        *)
LEMMA InstallablePublished ==
  ASSUME UpdateTypeOK, NEW u \in User, NEW version \in Installable(u)
  PROVE  \E i \in DOMAIN Release :
           i <= published /\ version = Release[i] /\ version \in Version
<1>1. published \in DOMAIN Release /\ published \in Nat /\ 1 .. published \subseteq DOMAIN Release
  BY Releases DEF UpdateTypeOK
<1> QED
  BY <1>1, Releases DEF Installable, Latest, Version

(* An installer that is to move a binary has a version.                    *)
ResolvedInMove == \A u \in User : stage[u] = "move" => resolved[u] # Unknown

(* The steps of the commands, of the writers and of the world.             *)
LEMMA UpdateTypeStep ==
  ASSUME UpdateTypeOK, ResolvedInMove, [UpdateNext]_updateVars
  PROVE  UpdateTypeOK'
<1> USE DEF UpdateTypeOK
<1>1. ASSUME NEW u \in User, Command(u) PROVE UpdateTypeOK'
  <2>1. /\ writers' \subseteq [by : User, at : Nat, latest : Version \cup {Unknown},
                               step : {"fetch", "open", "write"}]
        /\ blurred' \in BOOLEAN
    <3>1. CASE Fresh
      BY <1>1, <3>1, Zenon DEF Command
    <3>2. CASE ~Fresh
      <4>1. AddWriter(Writer(u, Unknown, "fetch"))
        BY <1>1, <3>2, Zenon DEF Command
      <4>2. blurred' \in BOOLEAN
        BY <4>1, Zenon DEF AddWriter
      <4> QED
        BY <4>1, <4>2, WriterType DEF AddWriter
    <3> QED
      BY <3>1, <3>2
  <2>2. shown' \subseteq User
    BY <1>1, Zenon DEF Command
  <2> QED
    BY <1>1, <2>1, <2>2 DEF Command, upgradeVars
<1>2. ASSUME NEW w \in writers, Refresh(w) PROVE UpdateTypeOK'
  <2>1. PICK latest \in Fetched : writers' = Becomes(w, latest, "open")
    BY <1>2 DEF Refresh
  <2>2. latest \in Version \cup {Unknown}
    BY DEF Fetched, Latest, Version
  <2>3. blurred' \in BOOLEAN
    BY <1>2, Zenon DEF Refresh
  <2> QED
    BY <1>2, <2>1, <2>2, <2>3, BecomesType DEF Refresh, upgradeVars
<1>3. ASSUME NEW w \in writers, OpenCache(w) PROVE UpdateTypeOK'
  <2>1. w.latest \in Version \cup {Unknown}
    OBVIOUS
  <2> QED
    BY <1>3, <2>1, BecomesType DEF OpenCache, upgradeVars
<1>4. ASSUME NEW w \in writers, WriteCache(w) PROVE UpdateTypeOK'
  <2>1. /\ file' \subseteq [at : Nat, latest : Version \cup {Unknown}]
        /\ known' \in Version \cup {Unknown}
    BY <1>4 DEF WriteCache
  <2>2. blurred' \in BOOLEAN
    BY <1>4, Zenon DEF WriteCache
  <2> QED
    BY <1>4, <2>1, <2>2 DEF WriteCache, upgradeVars
<1>5. ASSUME NEW u \in User, Upgrade(u) PROVE UpdateTypeOK'
  BY <1>5 DEF Upgrade, noticeVars
<1>6. ASSUME NEW u \in User, FetchLatest(u) PROVE UpdateTypeOK'
  BY <1>6 DEF FetchLatest, UpgradeGo, Fetched, Latest, Version, noticeVars
<1>7. ASSUME NEW u \in User,
             NothingToDo(u) \/ NoInstaller(u) \/ InstallBinary(u) \/ InstallerFails(u)
      PROVE  UpdateTypeOK'
  <2>1. CASE NothingToDo(u)
    BY <2>1 DEF NothingToDo, UpgradeEnds, UpgradeGo, noticeVars
  <2>2. CASE NoInstaller(u)
    BY <2>2 DEF NoInstaller, UpgradeGo, noticeVars
  <2>3. CASE InstallBinary(u)
    <3>1. resolved[u] \in Version
      BY <2>3 DEF InstallBinary, UpgradeGo, ResolvedInMove
    <3> QED
      BY <2>3, <3>1 DEF InstallBinary, UpgradeGo, noticeVars
  <2>4. CASE InstallerFails(u)
    BY <2>4 DEF InstallerFails, UpgradeEnds, UpgradeGo, noticeVars
  <2> QED
    BY <1>7, <2>1, <2>2, <2>3, <2>4
<1>8. ASSUME NEW u \in User, ResolveVersion(u) PROVE UpdateTypeOK'
  <2>1. PICK version \in Installable(u) : resolved' = [resolved EXCEPT ![u] = version]
    BY <1>8 DEF ResolveVersion
  <2>2. version \in Version
    BY <2>1, InstallablePublished
  <2> QED
    BY <1>8, <2>1, <2>2 DEF ResolveVersion, UpgradeGo, noticeVars
<1>r. ASSUME NEW u \in User, RecordUpgrade(u) PROVE UpdateTypeOK'
  <2>1. PICK asked \in Version :
          writers' = writers \cup
            {Writer(u, IF does[u] = "pinned" THEN asked ELSE found[u], "open")}
    BY <1>r DEF RecordUpgrade
  <2>2. blurred' \in BOOLEAN
    BY <1>r, Zenon DEF RecordUpgrade
  <2> QED
    BY <1>r, <2>1, <2>2, WriterType DEF RecordUpgrade, UpgradeEnds, UpgradeGo
<1>w. CASE Publish \/ Tick
  BY <1>w, Releases DEF Publish, Tick, upgradeVars, noticeVars
<1>9. CASE UNCHANGED updateVars
  BY <1>9 DEF updateVars, upgradeVars, noticeVars
<1> QED
  BY <1>1, <1>2, <1>3, <1>4, <1>5, <1>6, <1>7, <1>8, <1>r, <1>w, <1>9 DEF UpdateNext, UpgradeGoesOn

(* Only the look-up of a version leads to the move.                        *)
LEMMA ResolvedStep ==
  ASSUME UpdateTypeOK, ResolvedInMove, [UpdateNext]_updateVars
  PROVE  ResolvedInMove'
<1> USE DEF UpdateTypeOK, ResolvedInMove
<1>1. ASSUME NEW u \in User, Upgrade(u) PROVE ResolvedInMove'
  BY <1>1 DEF Upgrade
<1>2. ASSUME NEW u \in User, ResolveVersion(u) PROVE ResolvedInMove'
  <2>1. PICK version \in Installable(u) : resolved' = [resolved EXCEPT ![u] = version]
    BY <1>2 DEF ResolveVersion
  <2>2. version # Unknown
    BY <2>1, InstallablePublished, Releases
  <2> QED
    BY <1>2, <2>1, <2>2 DEF ResolveVersion, UpgradeGo
<1>3. ASSUME NEW u \in User,
             \/ FetchLatest(u) \/ NothingToDo(u) \/ NoInstaller(u) \/ InstallBinary(u)
             \/ InstallerFails(u) \/ RecordUpgrade(u)
      PROVE  ResolvedInMove'
  BY <1>3 DEF FetchLatest, NothingToDo, NoInstaller, InstallBinary, InstallerFails, RecordUpgrade,
              UpgradeEnds, UpgradeGo
<1>4. CASE UNCHANGED <<stage, resolved>>
  BY <1>4
<1> QED
  BY <1>1, <1>2, <1>3, <1>4
  DEF UpdateNext, UpgradeGoesOn, Command, Refresh, OpenCache, WriteCache, Publish, Tick, updateVars,
      upgradeVars

(* Every behaviour of the update check has the types of its state.         *)
THEOREM UpdateTypeCorrect == UpdateSpec => []UpdateTypeOK
<1>1. UpdateInit => UpdateTypeOK /\ ResolvedInMove
  BY UpdateInitType DEF UpdateInit, ResolvedInMove
<1>2. UpdateTypeOK /\ ResolvedInMove /\ [UpdateNext]_updateVars => (UpdateTypeOK /\ ResolvedInMove)'
  BY UpdateTypeStep, ResolvedStep
<1> QED
  BY <1>1, <1>2, PTL DEF UpdateSpec

-----------------------------------------------------------------------------
(* Each release has a later version than those before it.                  *)
Ascending == \A i, j \in DOMAIN Release : i > j => IsNewer(Release[i], Release[j])

(* is_newer never holds both ways.                                         *)
LEMMA NewerOneWay ==
  ASSUME NEW v \in Seq(Nat), NEW w \in Seq(Nat), IsNewer(v, w)
  PROVE  ~IsNewer(w, v)
<1> DEFINE differ(a, b) == {i \in Components(a, b) : Component(a, i) # Component(b, i)}
<1>1. Components(v, w) = Components(w, v)
  <2>1. {Len(v), Len(w)} = {Len(w), Len(v)}
    OBVIOUS
  <2> QED
    BY <2>1 DEF Components
<1>2. differ(v, w) = differ(w, v)
  BY <1>1
<1> DEFINE first == Min(differ(v, w))
<1>3. Component(v, first) \in Nat /\ Component(w, first) \in Nat
  BY DEF Component
<1>4. Component(v, first) > Component(w, first)
  BY DEF IsNewer
<1>5. ASSUME IsNewer(w, v) PROVE Component(w, first) > Component(v, first)
  BY <1>2, <1>5 DEF IsNewer
<1> QED
  BY <1>3, <1>4, <1>5

(* So the order of the versions is the order of the releases.              *)
LEMMA NewerIsLater ==
  ASSUME Ascending, NEW v \in Version, NEW w \in Version
  PROVE  IsNewer(v, w) <=> Later(v, w)
<1>1. PICK i \in DOMAIN Release : v = Release[i]
  BY DEF Version
<1>2. PICK j \in DOMAIN Release : w = Release[j]
  BY DEF Version
<1>3. ASSUME NEW k \in DOMAIN Release PROVE ~IsNewer(Release[k], Release[k])
  BY Releases, NewerOneWay DEF Version
<1>4. ASSUME NEW k \in DOMAIN Release, NEW l \in DOMAIN Release, Release[k] = Release[l]
      PROVE  k = l
  BY <1>3, <1>4, Releases DEF Ascending
<1>5. Place(v) = i /\ Place(w) = j
  BY <1>1, <1>2, <1>4 DEF Place
<1>6. i > j => IsNewer(v, w)
  BY <1>1, <1>2 DEF Ascending
<1>7. j > i => ~IsNewer(v, w)
  BY <1>1, <1>2, Releases, NewerOneWay DEF Ascending
<1>8. i = j => ~IsNewer(v, w)
  BY <1>1, <1>2, <1>3
<1>9. v # Unknown /\ i \in Nat /\ j \in Nat
  BY Releases
<1> QED
  BY <1>5, <1>6, <1>7, <1>8, <1>9 DEF Later

(* The place of a release is its number.                                   *)
LEMMA PlaceOf ==
  ASSUME Ascending, NEW i \in DOMAIN Release
  PROVE  Place(Release[i]) = i
<1>1. Place(Release[i]) \in DOMAIN Release /\ Release[Place(Release[i])] = Release[i]
  BY DEF Place
<1>2. ~IsNewer(Release[i], Release[i])
  BY Releases, NewerOneWay DEF Version
<1> QED
  BY <1>1, <1>2, Releases DEF Ascending

-----------------------------------------------------------------------------
(* A command that has not begun has shown nothing.                         *)
ShownAfter == \A u \in User : does[u] = "none" => u \notin shown

(* With one writer at a time the file has what was written last, except    *)
(* while it is written.                                                    *)
FileKnown ==
  ~blurred =>
    /\ \A w1, w2 \in writers : w1 = w2
    /\ (\A w \in writers : w.step # "write") =>
         \/ file = {} /\ known = Unknown
         \/ \E entry \in file : file = {entry} /\ entry.latest = known

(* What is installed was published, or is what an upgrade started from.    *)
InstalledPublished ==
  \A u \in User : does[u] = "upgrade" =>
    Place(installed) <= published \/ installed = own[u]

(* What was fetched had been published.                                    *)
FoundPublished ==
  \A u \in User : found[u] # Unknown => Place(found[u]) <= published

(* What an installer downloads was published; for a plain upgrade that     *)
(* knows the latest release it is later than what it runs, none before the *)
(* one it knows, and, if none has overtaken it, none before the installed. *)
Downloading ==
  \A u \in User :
    /\ resolved[u] # Unknown => Place(resolved[u]) <= published
    /\ stage[u] = "move" /\ does[u] = "upgrade" /\ found[u] # Unknown =>
         /\ Later(resolved[u], own[u])
         /\ Place(resolved[u]) >= Place(found[u])
         /\ u \in overtaken \/ Place(installed) <= Place(resolved[u])

UpdateInv ==
  /\ UpdateTypeOK /\ ResolvedInMove /\ ShownAfter /\ FileKnown
  /\ InstalledPublished /\ FoundPublished /\ Downloading

(* Nothing has been written or shown at the start.                         *)
LEMMA UpdateInvInit == ASSUME UpdateInit PROVE UpdateInv
  BY UpdateInitType DEF UpdateInv, UpdateInit, ResolvedInMove, ShownAfter, FileKnown,
                         InstalledPublished, FoundPublished, Downloading

(* One step and what was shown.                                            *)
LEMMA ShownStep ==
  ASSUME UpdateTypeOK, ShownAfter, [UpdateNext]_updateVars
  PROVE  ShownAfter'
<1> USE DEF ShownAfter, UpdateTypeOK
<1>1. ASSUME NEW u \in User, Command(u) PROVE ShownAfter'
  <2>1. shown' \subseteq shown \cup {u} /\ does' = [does EXCEPT ![u] = "command"]
    BY <1>1, Zenon DEF Command
  <2> QED
    BY <2>1
<1>2. ASSUME NEW u \in User, Upgrade(u) PROVE ShownAfter'
  BY <1>2 DEF Upgrade
<1>3. CASE UNCHANGED <<does, shown>>
  BY <1>3
<1> QED
  BY <1>1, <1>2, <1>3
  DEF UpdateNext, UpgradeGoesOn, FetchLatest, NothingToDo, ResolveVersion, NoInstaller, InstallBinary,
      InstallerFails, RecordUpgrade, UpgradeEnds, UpgradeGo, Refresh, OpenCache, WriteCache, Publish, Tick,
      updateVars

(* One step and the file.                                                  *)
LEMMA FileStep ==
  ASSUME UpdateTypeOK, FileKnown, [UpdateNext]_updateVars
  PROVE  FileKnown'
<1> SUFFICES ASSUME ~blurred' PROVE FileKnown'
  BY DEF FileKnown
<1>1. ASSUME NEW u \in User, Command(u) PROVE FileKnown'
  <2>1. CASE UNCHANGED <<writers, blurred>>
    BY <1>1, <2>1 DEF Command, FileKnown
  <2>2. CASE AddWriter(Writer(u, Unknown, "fetch"))
    <3>1. ~blurred /\ writers = {}
      BY <2>2, Zenon DEF AddWriter
    <3>2. writers' = {Writer(u, Unknown, "fetch")}
      BY <2>2, <3>1 DEF AddWriter
    <3> QED
      BY <1>1, <3>1, <3>2 DEF Command, FileKnown, Writer
  <2> QED
    BY <1>1, <2>1, <2>2, Zenon DEF Command
<1>2. ASSUME NEW w \in writers, Refresh(w) PROVE FileKnown'
  <2>1. PICK latest \in Fetched : writers' = Becomes(w, latest, "open")
    BY <1>2 DEF Refresh
  <2>2. ~blurred
    BY <1>2, Zenon DEF Refresh
  <2>3. writers = {w}
    BY <2>2 DEF FileKnown
  <2>4. writers' = {[w EXCEPT !.latest = latest, !.step = "open"]}
    BY <2>1, <2>3 DEF Becomes
  <2> QED
    BY <1>2, <2>2, <2>3, <2>4 DEF Refresh, FileKnown
<1>3. ASSUME NEW w \in writers, OpenCache(w) PROVE FileKnown'
  <2>1. ~blurred /\ writers' = Becomes(w, w.latest, "write")
    BY <1>3 DEF OpenCache
  <2>2. writers = {w}
    BY <2>1 DEF FileKnown
  <2>3. writers' = {[w EXCEPT !.latest = w.latest, !.step = "write"]}
    BY <2>1, <2>2 DEF Becomes
  <2>4. [w EXCEPT !.latest = w.latest, !.step = "write"].step = "write"
    BY DEF UpdateTypeOK
  <2> QED
    BY <2>3, <2>4 DEF FileKnown
<1>4. ASSUME NEW w \in writers, WriteCache(w) PROVE FileKnown'
  <2>1. /\ ~blurred
        /\ file' = {[at |-> w.at, latest |-> w.latest]}
        /\ known' = w.latest
        /\ writers' = writers \ {w}
    BY <1>4 DEF WriteCache
  <2> QED
    BY <2>1 DEF FileKnown
<1>5. ASSUME NEW u \in User, RecordUpgrade(u) PROVE FileKnown'
  <2>1. ~blurred /\ writers = {}
    BY <1>5, Zenon DEF RecordUpgrade
  <2>2. PICK latest : writers' = {Writer(u, latest, "open")}
    BY <1>5, <2>1 DEF RecordUpgrade
  <2> QED
    BY <1>5, <2>1, <2>2 DEF RecordUpgrade, UpgradeEnds, UpgradeGo, FileKnown, Writer
<1>6. CASE UNCHANGED <<file, writers, known, blurred>>
  BY <1>6 DEF FileKnown
<1> QED
  BY <1>1, <1>2, <1>3, <1>4, <1>5, <1>6
  DEF UpdateNext, Upgrade, UpgradeGoesOn, FetchLatest, NothingToDo, ResolveVersion, NoInstaller,
      InstallBinary, InstallerFails, Publish, Tick, updateVars, noticeVars

(* One step and what is installed.                                         *)
LEMMA InstalledStep ==
  ASSUME UpdateTypeOK, ResolvedInMove, Downloading, InstalledPublished, [UpdateNext]_updateVars
  PROVE  InstalledPublished'
<1> USE DEF InstalledPublished
<1>1. ASSUME NEW u \in User, Command(u) \/ Upgrade(u) PROVE InstalledPublished'
  BY <1>1 DEF Command, Upgrade, UpdateTypeOK
<1>2. ASSUME NEW u \in User, InstallBinary(u) PROVE InstalledPublished'
  BY <1>2 DEF InstallBinary, UpgradeGo, ResolvedInMove, Downloading
<1>3. CASE Publish
  <2>1. Place(installed) \in Nat /\ published \in Nat
    BY Releases DEF Place, Version, UpdateTypeOK
  <2> QED
    BY <1>3, <2>1 DEF Publish
<1>4. CASE UNCHANGED <<installed, published, does, own>>
  BY <1>4
<1> QED
  BY <1>1, <1>2, <1>3, <1>4
  DEF UpdateNext, UpgradeGoesOn, FetchLatest, NothingToDo, ResolveVersion, NoInstaller,
      InstallerFails, RecordUpgrade, UpgradeEnds, UpgradeGo, Refresh, OpenCache, WriteCache, Tick, updateVars

(* One step and what was fetched.                                          *)
LEMMA FoundStep ==
  ASSUME Ascending, UpdateTypeOK, FoundPublished, [UpdateNext]_updateVars
  PROVE  FoundPublished'
<1> USE DEF FoundPublished
<1>1. ASSUME NEW u \in User, FetchLatest(u) PROVE FoundPublished'
  <2>1. PICK latest \in Fetched : found' = [found EXCEPT ![u] = latest]
    BY <1>1 DEF FetchLatest
  <2>2. latest # Unknown => Place(latest) <= published
    BY PlaceOf, Releases DEF Fetched, Latest, UpdateTypeOK
  <2> QED
    BY <1>1, <2>1, <2>2 DEF FetchLatest, UpgradeGo, UpdateTypeOK
<1>2. CASE Publish
  <2>1. \A u \in User : found[u] # Unknown => Place(found[u]) \in Nat
    BY Releases DEF Place, Version, UpdateTypeOK
  <2>2. published \in Nat
    BY Releases DEF UpdateTypeOK
  <2> QED
    BY <1>2, <2>1, <2>2 DEF Publish, upgradeVars
<1>3. ASSUME NEW u \in User, NothingToDo(u) \/ InstallerFails(u) \/ RecordUpgrade(u)
      PROVE  FoundPublished'
  BY <1>3 DEF NothingToDo, InstallerFails, RecordUpgrade, UpgradeEnds, UpgradeGo, UpdateTypeOK
<1>4. CASE UNCHANGED <<found, published>>
  BY <1>4
<1> QED
  BY <1>1, <1>2, <1>3, <1>4
  DEF UpdateNext, Command, Upgrade, UpgradeGoesOn, NothingToDo, ResolveVersion, NoInstaller,
      InstallBinary, InstallerFails, RecordUpgrade, UpgradeEnds, UpgradeGo, Refresh, OpenCache,
      WriteCache, Tick,
      updateVars, upgradeVars

(* One step and what is being downloaded.                                  *)
LEMMA DownloadStep ==
  ASSUME Ascending, UpdateInv, [UpdateNext]_updateVars
  PROVE  Downloading'
<1> USE DEF UpdateInv, UpdateTypeOK, Downloading
<1>n. \A v \in Version : Place(v) \in Nat /\ Release[Place(v)] = v
  BY Releases DEF Place, Version
<1>1. ASSUME NEW u \in User, Command(u) \/ Upgrade(u) PROVE Downloading'
  BY <1>1 DEF Command, Upgrade, upgradeVars, Later
<1>2. ASSUME NEW u \in User, ResolveVersion(u) PROVE Downloading'
  <2>1. PICK version \in Installable(u) : resolved' = [resolved EXCEPT ![u] = version]
    BY <1>2 DEF ResolveVersion
  <2>2. PICK i \in DOMAIN Release : i <= published /\ version = Release[i] /\ version \in Version
    BY <2>1, InstallablePublished
  <2>3. Place(version) = i
    BY <2>2, PlaceOf
  <2>4. ASSUME does[u] = "upgrade", found[u] # Unknown
        PROVE  /\ Later(version, own[u]) /\ Place(version) >= Place(found[u])
               /\ Place(installed) <= Place(version)
    <3>1. Place(version) = published
      BY <2>1, <2>4, PlaceOf DEF Installable, Latest
    <3>2. Later(found[u], own[u])
      BY <1>2, <2>4, NewerIsLater DEF ResolveVersion, UpToDate
    <3>3. Place(found[u]) <= published
      BY <2>4 DEF FoundPublished
    <3>4. Place(own[u]) \in Nat /\ Place(found[u]) \in Nat /\ Place(installed) \in Nat
      BY <1>n, <2>4
    <3>5. version # Unknown
      BY <2>2, Releases
    <3>6. published \in Nat
      BY Releases
    <3> QED
      BY <2>4, <3>1, <3>2, <3>3, <3>4, <3>5, <3>6 DEF Later, InstalledPublished
  <2> QED
    BY <1>2, <2>1, <2>2, <2>3, <2>4 DEF ResolveVersion, UpgradeGo
<1>3. ASSUME NEW u \in User, InstallBinary(u) PROVE Downloading'
  BY <1>3 DEF InstallBinary, UpgradeGo
<1>4. ASSUME NEW u \in User, FetchLatest(u) PROVE Downloading'
  BY <1>4 DEF FetchLatest, UpgradeGo
<1>5. ASSUME NEW u \in User, NothingToDo(u) \/ NoInstaller(u) \/ InstallerFails(u) \/ RecordUpgrade(u)
      PROVE  Downloading'
  BY <1>5 DEF NothingToDo, NoInstaller, InstallerFails, RecordUpgrade, UpgradeEnds, UpgradeGo
<1>6. CASE Publish
  <2>1. \A u \in User : resolved[u] # Unknown => Place(resolved[u]) \in Nat
    BY <1>n
  <2>2. published \in Nat
    BY Releases
  <2> QED
    BY <1>6, <2>1, <2>2 DEF Publish, upgradeVars
<1>7. CASE UNCHANGED <<installed, published, does, own, upgradeVars>>
  BY <1>7 DEF upgradeVars
<1> QED
  BY <1>1, <1>2, <1>3, <1>4, <1>5, <1>6, <1>7
  DEF UpdateNext, UpgradeGoesOn, Refresh, OpenCache, WriteCache, Tick, updateVars

(* One step and all of it.                                                 *)
LEMMA UpdateInvStep ==
  ASSUME Ascending, UpdateInv, [UpdateNext]_updateVars
  PROVE  UpdateInv'
  BY UpdateTypeStep, ResolvedStep, ShownStep, FileStep, InstalledStep, FoundStep, DownloadStep
  DEF UpdateInv

(* A command shows the notice exactly if the version written last is of a  *)
(* release after the installed one.                                        *)
LEMMA NoticeStep ==
  ASSUME Ascending, UpdateInv, [UpdateNext]_updateVars,
         NEW u \in User, does[u] = "none", does'[u] = "command", ~blurred, writers = {}
  PROVE  u \in shown' <=> Later(known, installed)
<1> USE DEF UpdateInv, UpdateTypeOK
<1>1. Command(u)
  BY DEF UpdateNext, Upgrade, UpgradeGoesOn, FetchLatest, NothingToDo, ResolveVersion, NoInstaller,
         InstallBinary, InstallerFails, RecordUpgrade, UpgradeEnds, UpgradeGo, Command, Refresh, OpenCache,
         WriteCache, Publish, Tick, updateVars
<1>2. u \in shown' <=>
        \E entry \in file : entry.latest # Unknown /\ IsNewer(entry.latest, installed)
  BY <1>1 DEF Command, ShownAfter
<1>3. CASE file = {} /\ known = Unknown
  BY <1>2, <1>3 DEF Later
<1>4. ASSUME NEW entry \in file, file = {entry}, entry.latest = known
      PROVE  u \in shown' <=> Later(known, installed)
  <2>1. u \in shown' <=> known # Unknown /\ IsNewer(known, installed)
    BY <1>2, <1>4
  <2>2. CASE known = Unknown
    BY <2>1, <2>2 DEF Later
  <2>3. CASE known # Unknown
    BY <2>1, <2>3, NewerIsLater
  <2> QED
    BY <2>2, <2>3
<1> QED
  BY <1>3, <1>4 DEF FileKnown

(* The only step from the download to the record is that of the installer  *)
(* that moves its binary into place.                                       *)
LEMMA MoveStep ==
  ASSUME UpdateInv, [UpdateNext]_updateVars,
         NEW u \in User, stage[u] = "move", stage'[u] = "record"
  PROVE  InstallBinary(u)
  BY DEF UpdateInv, UpdateTypeOK, UpdateNext, Command, Upgrade, UpgradeGoesOn, FetchLatest,
         NothingToDo, ResolveVersion, NoInstaller, InstallBinary, InstallerFails, RecordUpgrade,
         UpgradeEnds, UpgradeGo, Refresh, OpenCache, WriteCache, Publish, Tick, updateVars,
         upgradeVars

(* A plain upgrade that knows the latest release installs a later one.     *)
LEMMA UpgradeStep ==
  ASSUME Ascending, UpdateInv, [UpdateNext]_updateVars,
         NEW u \in User, stage[u] = "move", stage'[u] = "record", installed' # installed,
         does[u] = "upgrade", found[u] # Unknown
  PROVE  /\ Later(installed', own[u])
         /\ Place(installed') >= Place(found[u])
         /\ u \in overtaken \/ Later(installed', installed)
<1> USE DEF UpdateInv, UpdateTypeOK
<1>1. installed' = resolved[u] /\ resolved[u] \in Version
  BY MoveStep DEF InstallBinary, ResolvedInMove
<1>2. Place(installed) # Place(resolved[u])
  <2>1. \A v \in Version : Release[Place(v)] = v
    BY DEF Place, Version
  <2> QED
    BY <1>1, <2>1
<1>3. Place(installed) \in Nat /\ Place(resolved[u]) \in Nat /\ resolved[u] # Unknown
  BY <1>1, Releases DEF Place, Version
<1> QED
  BY <1>1, <1>2, <1>3 DEF Downloading, Later

(* Every behaviour keeps the invariant of the update check.                *)
LEMMA UpdateInvariant ==
  ASSUME Ascending
  PROVE  UpdateSpec => []UpdateInv
  BY UpdateInvInit, UpdateInvStep, PTL DEF UpdateSpec

(* The notice tells exactly of a release later than the installed one, if  *)
(* releases have ascending versions.                                       *)
THEOREM NoticeCorrect ==
  ASSUME Ascending
  PROVE  UpdateSpec => NoticeAsKnown
<1>1. UpdateInv /\ [UpdateNext]_updateVars =>
        [\A u \in User :
           does[u] = "none" /\ does'[u] = "command" /\ ~blurred /\ writers = {} =>
             (u \in shown' <=> Later(known, installed))]_updateVars
  BY NoticeStep
<1> QED
  BY <1>1, UpdateInvariant, PTL DEF UpdateSpec, NoticeAsKnown

(* `seaport upgrade` never goes back, if releases have ascending versions  *)
(* and no other upgrade has overtaken it during its download.              *)
THEOREM UpgradeCorrect ==
  ASSUME Ascending
  PROVE  UpdateSpec => UpgradeNeverDowngrades
<1>1. UpdateInv /\ [UpdateNext]_updateVars =>
        [\A u \in User :
           stage[u] = "move" /\ stage'[u] = "record" /\ installed' # installed
             /\ does[u] = "upgrade" /\ found[u] # Unknown =>
             /\ Later(installed', own[u])
             /\ Place(installed') >= Place(found[u])
             /\ u \in overtaken \/ Later(installed', installed)]_updateVars
  BY UpgradeStep
<1> QED
  BY <1>1, UpdateInvariant, PTL DEF UpdateSpec, UpgradeNeverDowngrades

=============================================================================
