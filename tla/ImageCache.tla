----------------------------- MODULE ImageCache -----------------------------
(***************************************************************************)
(* How trials obtain their Docker images (src/sandbox.rs:                  *)
(* ensure_docker_image_available, DockerImagePull, prepare_docker_image).  *)
(*                                                                         *)
(* Every trial thread of the process pulls or builds its image on demand.  *)
(* A process-wide set of active keys, with one mutex and one condition     *)
(* variable for all keys, lets one thread at a time work on a key; a       *)
(* thread that gets the key looks again whether the image exists by now.   *)
(* A build on an arm64 host whose task asks for no platform may fall back  *)
(* to linux/amd64, which is another cache key, under the guard of the      *)
(* first key.  The Docker daemon is the set of the images it holds.        *)
(***************************************************************************)
EXTENDS Naturals, FiniteSets

CONSTANTS
  Thread,        \* the trial threads of one process
  Ref,           \* image references
  NoRef,
  Mode,          \* "pull" (prebuilt, or no Dockerfile) or "build"
  Image,         \* environment.image, or cached_docker_image's reference
  Compat,        \* the linux/amd64 reference of a build with no platform on arm64
  MaxAttempts    \* DOCKER_PULL_ATTEMPTS, DOCKER_BUILD_ATTEMPTS

ASSUME RequestAssumption ==
  /\ Mode \in [Thread -> {"pull", "build"}]
  /\ Image \in [Thread -> Ref]
  /\ Compat \in [Thread -> Ref \cup {NoRef}]
  /\ NoRef \notin Ref
  /\ \A t \in Thread : Mode[t] = "pull" => Compat[t] = NoRef
  /\ \A t \in Thread : Compat[t] # Image[t]
  /\ MaxAttempts \in Nat \ {0}

(* References of cached builds carry a namespace no task names as image.   *)
ASSUME NamespaceAssumption ==
  \A t, u \in Thread : Mode[t] = "pull" /\ Mode[u] = "build" =>
    Image[t] # Image[u] /\ Image[t] # Compat[u]

VARIABLES
  pc,         \* where each thread is in prepare_docker_image
  target,     \* the reference the thread is trying to get
  attempt,    \* the attempt counter of its pull or build
  result,     \* what prepare_docker_image is about to return
  active,     \* ImagePullState.active: the keys being worked on
  images,     \* the images the daemon holds
  built       \* history: successful pulls and builds of each reference

vars == <<pc, target, attempt, result, active, images, built>>

(* The key of the guard: the image, or "build:" and the reference.         *)
Key(t) == <<Mode[t], Image[t]>>
Keys == {Key(t) : t \in Thread}

Guarded == {"recheck", "run", "inspectCompat", "evict", "release"}
Pc == {"inspect", "acquire", "waiting", "ready", "started", "failed"} \cup Guarded

TypeOK ==
  /\ pc \in [Thread -> Pc]
  /\ target \in [Thread -> Ref]
  /\ attempt \in [Thread -> Nat]
  /\ result \in [Thread -> {"none", "ready", "failed"}]
  /\ active \subseteq Keys
  /\ images \subseteq Ref
  /\ built \in [Ref -> Nat]

(* Only a pull looks for the image before it takes the guard.              *)
Init ==
  /\ pc = [t \in Thread |-> IF Mode[t] = "pull" THEN "inspect" ELSE "acquire"]
  /\ target = Image
  /\ attempt = [t \in Thread |-> 0]
  /\ result = [t \in Thread |-> "none"]
  /\ active = {}
  /\ images \in SUBSET Ref
  /\ built = [r \in Ref |-> 0]

-----------------------------------------------------------------------------
Go(t, label) == pc' = [pc EXCEPT ![t] = label]

(* Leave the guarded part with a result; the guard is dropped on return.   *)
Return(t, value) ==
  /\ result' = [result EXCEPT ![t] = value]
  /\ Go(t, "release")

Inspect(t) ==
  /\ pc[t] = "inspect"
  /\ IF target[t] \in images
       THEN Go(t, "ready") /\ result' = [result EXCEPT ![t] = "ready"]
       ELSE Go(t, "acquire") /\ UNCHANGED result
  /\ UNCHANGED <<target, attempt, active, images, built>>

(* Mutated form of Acquire: the result of the insertion is not looked at.  *)
AcquireAnyway(t) ==
  /\ pc[t] = "acquire"
  /\ Go(t, "recheck")
  /\ active' = active \cup {Key(t)}
  /\ UNCHANGED <<target, attempt, result, images, built>>

(* DockerImagePull::start: with the mutex held, insert the key or wait on  *)
(* the condition variable, which gives the mutex up.                       *)
Acquire(t) ==
  /\ pc[t] = "acquire"
  /\ IF Key(t) \in active
       THEN Go(t, "waiting") /\ UNCHANGED active
       ELSE Go(t, "recheck") /\ active' = active \cup {Key(t)}
  /\ UNCHANGED <<target, attempt, result, images, built>>

(* A condition variable may wake a waiter for no reason.                   *)
SpuriousWakeup(t) ==
  /\ pc[t] = "waiting"
  /\ Go(t, "acquire")
  /\ UNCHANGED <<target, attempt, result, active, images, built>>

(* Mutated form of Recheck: no second look under the guard.                *)
RecheckSkipped(t) ==
  /\ pc[t] \in {"recheck", "inspectCompat"}
  /\ Go(t, "run")
  /\ attempt' = [attempt EXCEPT ![t] = 1]
  /\ UNCHANGED <<target, result, active, images, built>>

(* Under the guard: a hit, or the first attempt.  The same look is taken   *)
(* before a fallback build.                                                *)
Recheck(t) ==
  /\ pc[t] \in {"recheck", "inspectCompat"}
  /\ IF target[t] \in images
       THEN Return(t, "ready") /\ UNCHANGED attempt
       ELSE Go(t, "run") /\ attempt' = [attempt EXCEPT ![t] = 1] /\ UNCHANGED result
  /\ UNCHANGED <<target, active, images, built>>

-----------------------------------------------------------------------------
(* The ends of one `docker pull` or `docker buildx build`.                 *)
RunSucceeds(t) ==
  /\ pc[t] = "run"
  /\ images' = images \cup {target[t]}
  /\ built' = [built EXCEPT ![target[t]] = @ + 1]
  /\ Return(t, "ready")
  /\ UNCHANGED <<target, attempt, active>>

(* A transient failure with attempts left: sleep and try again.            *)
RunTransient(t) ==
  /\ pc[t] = "run"
  /\ attempt[t] < MaxAttempts
  /\ attempt' = [attempt EXCEPT ![t] = @ + 1]
  /\ UNCHANGED <<pc, target, result, active, images, built>>

(* Any other failure, the builder's creation and the spawn included.       *)
RunFails(t) ==
  /\ pc[t] = "run"
  /\ Return(t, "failed")
  /\ UNCHANGED <<target, attempt, active, images, built>>

(* The command was killed at its timeout, perhaps just after it had loaded *)
(* the image.  A build then removes its reference.                         *)
RunTimesOut(t) ==
  /\ pc[t] = "run"
  /\ \E loaded \in {{}, {target[t]}} : images' = images \cup loaded
  /\ IF Mode[t] = "build" THEN Go(t, "evict") /\ UNCHANGED result
                          ELSE Return(t, "failed")
  /\ UNCHANGED <<target, attempt, active, built>>

(* should_retry_build_with_compat_platform: go on with the linux/amd64     *)
(* reference, still under the guard of the native one.                     *)
RunNeedsCompat(t) ==
  /\ pc[t] = "run"
  /\ Compat[t] # NoRef
  /\ target[t] = Image[t]
  /\ target' = [target EXCEPT ![t] = Compat[t]]
  /\ Go(t, "inspectCompat")
  /\ UNCHANGED <<attempt, result, active, images, built>>

(* cleanup_docker_image, which only warns when it fails.                   *)
Evict(t) ==
  /\ pc[t] = "evict"
  /\ images' \in {images, images \ {target[t]}}
  /\ Return(t, "failed")
  /\ UNCHANGED <<target, attempt, active, built>>

(* Mutated form of Release: the key is removed and nobody notified.        *)
ReleaseSilently(t) ==
  /\ pc[t] = "release"
  /\ active' = active \ {Key(t)}
  /\ Go(t, result[t])
  /\ UNCHANGED <<target, attempt, result, images, built>>

(* Mutated form of Release: notify_one, which may wake a waiter of another *)
(* key.                                                                    *)
ReleaseNotifiesOne(t) ==
  /\ pc[t] = "release"
  /\ active' = active \ {Key(t)}
  /\ LET waiters == {u \in Thread : pc[u] = "waiting"}
         after == [pc EXCEPT ![t] = result[t]]
     IN  \/ waiters = {} /\ pc' = after
         \/ \E u \in waiters : pc' = [after EXCEPT ![u] = "acquire"]
  /\ UNCHANGED <<target, attempt, result, images, built>>

(* Drop of the guard: remove the key and notify_all, which wakes the       *)
(* waiters of every key.                                                   *)
Release(t) ==
  /\ pc[t] = "release"
  /\ active' = active \ {Key(t)}
  /\ pc' = [u \in Thread |-> IF u = t THEN result[t]
                             ELSE IF pc[u] = "waiting" THEN "acquire" ELSE pc[u]]
  /\ UNCHANGED <<target, attempt, result, images, built>>

(* start_trial_container with the reference prepare_docker_image returned. *)
Start(t) ==
  /\ pc[t] = "ready"
  /\ Go(t, IF target[t] \in images THEN "started" ELSE "failed")
  /\ UNCHANGED <<target, attempt, result, active, images, built>>

RunEnds(t) ==
  RunSucceeds(t) \/ RunTransient(t) \/ RunFails(t) \/ RunTimesOut(t) \/ RunNeedsCompat(t)

(* What a thread does on its own, and what waits for a docker command.     *)
GuardStep(t) == Acquire(t) \/ Release(t)

InDocker == {"inspect", "recheck", "inspectCompat", "run", "evict", "ready"}

DockerStep(t) == Inspect(t) \/ Recheck(t) \/ RunEnds(t) \/ Evict(t) \/ Start(t)

Step(t) == GuardStep(t) \/ DockerStep(t)

Next == \E t \in Thread : Step(t) \/ SpuriousWakeup(t)

Spec == Init /\ [][Next]_vars

(* Threads are scheduled.  Nothing is assumed of docker: pulls and builds  *)
(* run under a timeout, `docker image inspect` and `docker image rm` under *)
(* none.  And nothing wakes a waiter but a notification.                   *)
FairSpec == Spec /\ \A t \in Thread : WF_vars(GuardStep(t))

-----------------------------------------------------------------------------
Holds(t) == pc[t] \in Guarded

(* One thread at a time holds the guard of a key, and a key is active      *)
(* exactly while some thread holds it: no path leaves prepare_docker_image *)
(* with its key still active.                                              *)
GuardExclusive ==
  /\ \A t, u \in Thread : Holds(t) /\ Holds(u) /\ Key(t) = Key(u) => t = u
  /\ active = {Key(t) : t \in {u \in Thread : Holds(u)}}

(* A waiting thread waits for a key that somebody holds: the wakeup of the *)
(* last release is never lost, though one condition variable serves all    *)
(* keys and the waiter may have come between a check and a release.        *)
NoLostWakeup == \A t \in Thread : pc[t] = "waiting" => Key(t) \in active

(* Identical pulls and builds serialize: no two threads run docker for the *)
(* same reference at the same time.                                        *)
WorkDeduplicated ==
  \A t, u \in Thread :
    pc[t] = "run" /\ pc[u] = "run" /\ target[t] = target[u] => t = u

(* ... and share the result: a reference is pulled or built with success   *)
(* at most once, however many trials ask for it and however their first    *)
(* look interleaves with the work of another.                              *)
BuiltOnce == \A r \in Ref : built[r] <= 1

(* A reference that prepare_docker_image returned is still there when the  *)
(* trial's container starts: nobody's timeout cleanup removes it.          *)
ReadyImageStays == \A t \in Thread : pc[t] = "ready" => target[t] \in images

(* From some moment on the thread is at one of these and does not go on.   *)
Hangs(t, where) == <>[](pc[t] \in where)

(* Every thread gets its image or an error, and nobody waits on the        *)
(* condition variable for ever, except in a docker command of its own that *)
(* hangs, or behind one that hangs under the guard of the thread's own     *)
(* key: the one condition variable does not make the callers of one key    *)
(* wait for the work on another.                                           *)
EveryoneServed ==
  \A t \in Thread :
    \/ <>(pc[t] \in {"started", "failed"})
    \/ Hangs(t, InDocker)
    \/ \E u \in Thread : Key(u) = Key(t) /\ Hangs(u, InDocker \cap Guarded)

(* The fallback reference of a thread is nobody's own reference, and       *)
(* threads with the same fallback have the same native reference.          *)
FallbackPrivate ==
  \A t, u \in Thread : Compat[t] # NoRef =>
    /\ Image[u] # Compat[t]
    /\ Compat[u] = Compat[t] => Image[u] = Image[t]

=============================================================================
