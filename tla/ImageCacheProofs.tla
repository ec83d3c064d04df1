-------------------------- MODULE ImageCacheProofs --------------------------
(***************************************************************************)
(* Theorems about the image cache, for every set of threads and requests.  *)
(***************************************************************************)
EXTENDS ImageCache, TLAPS

(* A build with a fallback is never a pull; a target is one of the two     *)
(* references of its thread.                                               *)
TargetOK ==
  \A t \in Thread :
    \/ target[t] = Image[t]
    \/ Compat[t] # NoRef /\ target[t] = Compat[t]

ResultOK ==
  \A t \in Thread :
    /\ pc[t] = "release" => result[t] \in {"ready", "failed"}
    /\ pc[t] = "evict" => Mode[t] = "build"
    /\ pc[t] = "inspect" => Mode[t] = "pull"

TypeInv == TypeOK /\ TargetOK /\ ResultOK

(* The initial state is well typed.                                        *)
LEMMA TypeInvInit == Init => TypeInv
<1> SUFFICES ASSUME Init PROVE TypeInv
  OBVIOUS
<1>1. TypeOK
  BY RequestAssumption DEF Init, TypeOK, Pc, Guarded
<1>2. TargetOK /\ ResultOK
  BY RequestAssumption DEF Init, TargetOK, ResultOK
<1> QED
  BY <1>1, <1>2 DEF TypeInv

(* Every step of a thread preserves the typing.                            *)
LEMMA TypeInvStep == TypeInv /\ [Next]_vars => TypeInv'
<1> SUFFICES ASSUME TypeInv, [Next]_vars PROVE TypeInv'
  OBVIOUS
<1> USE RequestAssumption DEF TypeInv, Go, Return
<1>t. ASSUME NEW t \in Thread, Step(t) \/ SpuriousWakeup(t) PROVE TypeInv'
  <2>k. Key(t) \in Keys
    BY DEF Keys
  <2>1. CASE Inspect(t) \/ SpuriousWakeup(t) \/ Start(t)
    BY <2>1 DEF Inspect, SpuriousWakeup, Start, TypeOK, TargetOK, ResultOK, Pc, Guarded
  <2>2. CASE Acquire(t)
    BY <2>2, <2>k DEF Acquire, TypeOK, TargetOK, ResultOK, Pc, Guarded
  <2>3. CASE Recheck(t)
    BY <2>3 DEF Recheck, TypeOK, TargetOK, ResultOK, Pc, Guarded
  <2>4. CASE RunSucceeds(t)
    <3>1. built' \in [Ref -> Nat] /\ images' \subseteq Ref
      BY <2>4 DEF RunSucceeds, TypeOK
    <3> QED
      BY <2>4, <3>1 DEF RunSucceeds, TypeOK, TargetOK, ResultOK, Pc, Guarded
  <2>5. CASE RunTransient(t)
    BY <2>5 DEF RunTransient, TypeOK, TargetOK, ResultOK
  <2>6. CASE RunFails(t)
    BY <2>6 DEF RunFails, TypeOK, TargetOK, ResultOK, Pc, Guarded
  <2>7. CASE RunTimesOut(t)
    <3>1. images' \subseteq Ref
      BY <2>7 DEF RunTimesOut, TypeOK
    <3> QED
      BY <2>7, <3>1 DEF RunTimesOut, TypeOK, TargetOK, ResultOK, Pc, Guarded
  <2>8. CASE RunNeedsCompat(t)
    BY <2>8 DEF RunNeedsCompat, TypeOK, TargetOK, ResultOK, Pc, Guarded
  <2>9. CASE Evict(t)
    BY <2>9 DEF Evict, TypeOK, TargetOK, ResultOK, Pc, Guarded
  <2>10. CASE Release(t)
    <3>1. pc' \in [Thread -> Pc]
      BY <2>10 DEF Release, TypeOK, ResultOK, Pc, Guarded
    <3> QED
      BY <2>10, <3>1 DEF Release, TypeOK, TargetOK, ResultOK
  <2> QED
    BY <1>t, <2>1, <2>2, <2>3, <2>4, <2>5, <2>6, <2>7, <2>8, <2>9, <2>10 DEF Step, GuardStep, DockerStep, RunEnds
<1>s. CASE UNCHANGED vars
  BY <1>s DEF vars, TypeOK, TargetOK, ResultOK
<1> QED
  BY <1>t, <1>s DEF Next

(* The typing holds of every behaviour.                                    *)
LEMMA TypeInvHolds == Spec => []TypeInv
<1> QED
  BY TypeInvInit, TypeInvStep, PTL DEF Spec

(* Type correctness of the image cache.                                    *)
THEOREM TypeCorrect == Spec => []TypeOK
<1>1. TypeInv => TypeOK
  BY DEF TypeInv
<1> QED
  BY <1>1, TypeInvHolds, PTL

-----------------------------------------------------------------------------
(* GuardExclusive and NoLostWakeup are inductive together with the types.  *)
LockInv == GuardExclusive /\ NoLostWakeup

(* At the start no thread holds a lock.                                    *)
LEMMA LockInvInit == Init => LockInv
BY DEF Init, LockInv, GuardExclusive, NoLostWakeup, Holds, Guarded

(* Every step keeps the table of locks and its holders in agreement.       *)
LEMMA LockInvStep == TypeInv /\ LockInv /\ [Next]_vars => LockInv'
<1> SUFFICES ASSUME TypeInv, LockInv, [Next]_vars PROVE LockInv'
  OBVIOUS
<1>0. TypeOK /\ GuardExclusive /\ NoLostWakeup /\ ResultOK
  BY DEF TypeInv, LockInv
<1>t. ASSUME NEW t \in Thread, Step(t) \/ SpuriousWakeup(t) PROVE LockInv'
  <2>1. CASE Acquire(t)
    <3>1. CASE Key(t) \in active
      <4>1. /\ pc'[t] = "waiting" /\ active' = active
            /\ \A u \in Thread \ {t} : pc'[u] = pc[u]
            /\ \A u \in Thread : Holds(u)' <=> Holds(u)
        BY <1>0, <2>1, <3>1 DEF Acquire, Go, TypeOK, Holds, Guarded
      <4> QED
        BY <1>0, <3>1, <4>1 DEF LockInv, GuardExclusive, NoLostWakeup, Key
    <3>2. CASE Key(t) \notin active
      <4>1. /\ active' = active \cup {Key(t)}
            /\ \A u \in Thread : Holds(u)' <=> Holds(u) \/ u = t
            /\ \A u \in Thread \ {t} : pc'[u] = pc[u]
            /\ pc'[t] # "waiting"
        BY <1>0, <2>1, <3>2 DEF Acquire, Go, TypeOK, Holds, Guarded
      <4>2. \A u \in Thread : Holds(u) => Key(u) # Key(t)
        BY <1>0, <3>2 DEF GuardExclusive
      <4>3. GuardExclusive'
        BY <1>0, <4>1, <4>2 DEF GuardExclusive, Key
      <4> QED
        BY <1>0, <4>1, <4>3 DEF LockInv, NoLostWakeup, Key
    <3> QED
      BY <3>1, <3>2
  <2>2. CASE Release(t)
    <3>1. /\ active' = active \ {Key(t)}
          /\ \A u \in Thread : pc'[u] # "waiting"
          /\ \A u \in Thread : Holds(u)' <=> Holds(u) /\ u # t
      BY <1>0, <2>2 DEF Release, TypeOK, ResultOK, Holds, Guarded
    <3>2. Holds(t)
      BY <2>2 DEF Release, Holds, Guarded
    <3>3. GuardExclusive'
      BY <1>0, <3>1, <3>2 DEF GuardExclusive, Key
    <3> QED
      BY <3>1, <3>3 DEF LockInv, NoLostWakeup
  <2>3. CASE Inspect(t) \/ SpuriousWakeup(t) \/ Recheck(t) \/ RunEnds(t) \/ Evict(t) \/ Start(t)
    <3>1. /\ active' = active
          /\ \A u \in Thread : Holds(u)' <=> Holds(u)
          /\ \A u \in Thread : pc'[u] = "waiting" => pc[u] = "waiting"
      BY <1>0, <2>3 DEF Inspect, SpuriousWakeup, Recheck, RunEnds, RunSucceeds, RunTransient,
         RunFails, RunTimesOut, RunNeedsCompat, Evict, Start, Go, Return, TypeOK, Holds, Guarded
    <3> QED
      BY <1>0, <3>1 DEF LockInv, GuardExclusive, NoLostWakeup, Key
  <2> QED
    BY <1>t, <2>1, <2>2, <2>3 DEF Step, GuardStep, DockerStep
<1>s. CASE UNCHANGED vars
  BY <1>0, <1>s DEF vars, LockInv, GuardExclusive, NoLostWakeup, Holds, Key
<1> QED
  BY <1>t, <1>s DEF Next

(* The guard of DockerImagePull excludes, and is always given back.        *)
THEOREM GuardsExclude == Spec => []GuardExclusive
<1>1. LockInv => GuardExclusive
  BY DEF LockInv
<1>2. QED
  BY <1>1, LockInvInit, LockInvStep, TypeInvHolds, PTL DEF Spec

(* No waiter is left behind by notify_all.                                 *)
THEOREM WakeupsKept == Spec => []NoLostWakeup
<1>1. LockInv => NoLostWakeup
  BY DEF LockInv
<1>2. QED
  BY <1>1, LockInvInit, LockInvStep, TypeInvHolds, PTL DEF Spec

-----------------------------------------------------------------------------
(* Where fallback references are private, the guard protects the reference *)
(* a thread works on: threads with one target have one key.                *)
LEMMA SameTargetSameKey ==
  ASSUME FallbackPrivate, TypeInv, NEW t \in Thread, NEW u \in Thread,
         target[t] = target[u]
  PROVE  Key(t) = Key(u)
BY RequestAssumption, NamespaceAssumption DEF FallbackPrivate, TypeInv, TypeOK, TargetOK, Key

(* Concurrent identical pulls and builds serialize, on every host where    *)
(* the linux/amd64 fallback is not also some task's own platform.          *)
THEOREM SameWorkSerialized ==
  ASSUME FallbackPrivate PROVE Spec => []WorkDeduplicated
<1>1. TypeInv /\ GuardExclusive => WorkDeduplicated
  BY SameTargetSameKey DEF WorkDeduplicated, GuardExclusive, Holds, Guarded
<1>2. QED
  BY <1>1, TypeInvHolds, GuardsExclude, PTL

(* What a thread knows of its reference at each point.                     *)
StoreInv ==
  /\ \A t \in Thread :
       /\ pc[t] = "run" => target[t] \notin images
       /\ pc[t] \in {"ready", "release"} /\ result[t] = "ready" => target[t] \in images
       /\ pc[t] = "ready" => result[t] = "ready"
       /\ pc[t] = "evict" => built[target[t]] = 0
  /\ \A t, u \in Thread :
       pc[t] = "evict" /\ pc[u] \in {"ready", "release"} /\ result[u] = "ready" =>
         target[t] # target[u]
  /\ \A r \in Ref : built[r] <= 1 /\ (built[r] = 1 => r \in images)

(* Every step keeps the threads and the image store in agreement.          *)
LEMMA StoreInvStep ==
  ASSUME FallbackPrivate, TypeInv, LockInv, LockInv', StoreInv, [Next]_vars
  PROVE  StoreInv'
<1>0. TypeOK /\ GuardExclusive /\ TargetOK /\ ResultOK
  BY DEF TypeInv, LockInv
<1>1. ASSUME NEW t \in Thread, NEW u \in Thread, Holds(t), Holds(u), target[t] = target[u]
      PROVE  t = u
  BY <1>0, <1>1, SameTargetSameKey DEF GuardExclusive
<1>t. ASSUME NEW t \in Thread, Step(t) \/ SpuriousWakeup(t) PROVE StoreInv'
  <2>o. ASSUME NEW u \in Thread \ {t}, Holds(t), pc[u] \in Guarded PROVE target[u] # target[t]
    BY <1>1, <2>o DEF Holds
  <2>i. CASE Inspect(t)
    <3>1. \A u \in Thread : pc[u] = "evict" => target[u] # target[t]
      BY <1>0, <2>i, RequestAssumption, NamespaceAssumption DEF Inspect, TargetOK, ResultOK
    <3>2. /\ images' = images /\ built' = built /\ target' = target
          /\ \A u \in Thread \ {t} : pc'[u] = pc[u] /\ result'[u] = result[u]
          /\ \/ pc'[t] = "ready" /\ result'[t] = "ready" /\ target[t] \in images
             \/ pc'[t] = "acquire"
      BY <1>0, <2>i DEF Inspect, Go, TypeOK
    <3> QED
      BY <3>1, <3>2 DEF StoreInv
  <2>1. CASE SpuriousWakeup(t) \/ Acquire(t) \/ RunTransient(t) \/ RunFails(t) \/ Start(t)
    <3>1. /\ images' = images /\ built' = built /\ target' = target
          /\ \A u \in Thread \ {t} : pc'[u] = pc[u] /\ result'[u] = result[u]
          /\ \/ pc'[t] \notin {"run", "ready", "release", "evict"}
             \/ pc'[t] = "run" /\ pc[t] = "run"
             \/ pc'[t] = "release" /\ result'[t] = "failed"
      BY <1>0, <2>1 DEF SpuriousWakeup, Acquire, RunTransient, RunFails, Start, Go, Return,
         TypeOK, Pc, Guarded
    <3> QED
      BY <3>1 DEF StoreInv
  <2>c. CASE RunNeedsCompat(t)
    <3>1. /\ images' = images /\ built' = built /\ result' = result
          /\ \A u \in Thread \ {t} : pc'[u] = pc[u] /\ target'[u] = target[u]
          /\ pc'[t] = "inspectCompat"
      BY <1>0, <2>c DEF RunNeedsCompat, Go, TypeOK
    <3> QED
      BY <3>1 DEF StoreInv
  <2>2. CASE Recheck(t)
    BY <1>0, <2>2, <2>o DEF Recheck, Go, Return, StoreInv, TypeOK, Holds, Guarded
  <2>3. CASE RunSucceeds(t)
    BY <1>0, <2>3, <2>o DEF RunSucceeds, Go, Return, StoreInv, TypeOK, Holds, Guarded
  <2>4. CASE RunTimesOut(t)
    BY <1>0, <2>4, <2>o, SMTT(40) DEF RunTimesOut, Go, Return, StoreInv, TypeOK, Holds, Guarded
  <2>5. CASE Evict(t)
    BY <1>0, <2>5, <2>o DEF Evict, Go, Return, StoreInv, TypeOK, Holds, Guarded
  <2>6. CASE Release(t)
    BY <1>0, <2>6 DEF Release, StoreInv, TypeOK, ResultOK
  <2> QED
    BY <1>t, <2>i, <2>1, <2>c, <2>2, <2>3, <2>4, <2>5, <2>6 DEF Step, GuardStep, DockerStep, RunEnds
<1>s. CASE UNCHANGED vars
  BY <1>s DEF vars, StoreInv
<1> QED
  BY <1>t, <1>s DEF Next

(* At the start the store holds what it held before the run.               *)
LEMMA StoreInvInit == Init => StoreInv
<1> SUFFICES ASSUME Init PROVE StoreInv
  OBVIOUS
<1>1. \A t \in Thread : pc[t] \in {"inspect", "acquire"}
  BY DEF Init
<1>2. \A r \in Ref : built[r] = 0
  BY DEF Init
<1> QED
  BY <1>1, <1>2 DEF StoreInv

(* StoreInv holds in every state of a host with private fallbacks.         *)
LEMMA StoreKept == ASSUME FallbackPrivate PROVE Spec => []StoreInv
<1>1. TypeInv /\ LockInv /\ LockInv' /\ StoreInv /\ [Next]_vars => StoreInv'
  BY StoreInvStep
<1>2. QED
  BY <1>1, StoreInvInit, TypeInvHolds, LockInvInit, LockInvStep, PTL DEF Spec

(* Concurrent identical requests share one pull or one build.              *)
THEOREM BuiltAtMostOnce == ASSUME FallbackPrivate PROVE Spec => []BuiltOnce
<1>1. StoreInv => BuiltOnce
  BY DEF StoreInv, BuiltOnce
<1>2. QED
  BY <1>1, StoreKept, PTL

(* The cleanup after a build's timeout never takes away an image that      *)
(* another trial has been told is ready.                                   *)
THEOREM ReadyImagesStay == ASSUME FallbackPrivate PROVE Spec => []ReadyImageStays
<1>1. StoreInv => ReadyImageStays
  BY DEF StoreInv, ReadyImageStays
<1>2. QED
  BY <1>1, StoreKept, PTL

=============================================================================
