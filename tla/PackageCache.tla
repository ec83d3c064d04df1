---------------------------- MODULE PackageCache ----------------------------
(***************************************************************************)
(* The cache of packaged tasks (src/registry.rs: download_package_tasks,   *)
(* download_package_task, download_package_archive).                       *)
(*                                                                         *)
(* Each process resolves a list of task packages with a few worker         *)
(* threads and then runs trials from the directories it was given.  The    *)
(* cache is shared by all processes and has no lock: a package that is not *)
(* there is fetched and unpacked in a staging directory named after the    *)
(* pid and then renamed into place, over whatever another process has put  *)
(* there meanwhile.  Processes may die at any step and pids come again.    *)
(***************************************************************************)
EXTENDS Naturals, Sequences, FiniteSets

CONSTANTS
  Pid,          \* the pids of the processes that share the cache
  Package,      \* <org>/<name>/<digest>
  List,         \* the packages the process with a pid resolves
  Archive,      \* what the registry serves for a package
  MaxWorkers,   \* 6
  MaxTries,     \* package_archive_download_attempts
  MaxLives      \* bound: how many processes have a pid, one after the other

ASSUME ListAssumption ==
  /\ List \in [Pid -> Seq(Package)]
  /\ \A p \in Pid :
       /\ List[p] # << >>
       /\ \A i, j \in DOMAIN List[p] : List[p][i] = List[p][j] => i = j
  /\ Archive \in [Package -> {"task", "noTask", "unsafe"}]
  /\ MaxLives \in [Pid -> Nat]
  /\ {MaxWorkers, MaxTries} \subseteq Nat \ {0}

(* One call of download_package_task: a process and an index of its list.  *)
Job == UNION {{p} \X DOMAIN List[p] : p \in Pid}
JobsOf(p) == {j \in Job : j[1] = p}
PackageOf(j) == List[j[1]][j[2]]

VARIABLES
  phase,      \* what each process does
  lives,      \* how many processes have had the pid
  next,       \* next_index
  pc,         \* where each call is
  tries,      \* the attempts to download the archive
  result,     \* the result of each call
  cache,      \* the directory of each package
  opened,     \* the calls that are removing the directory now in the cache
  staging,    \* the staging directory of each call
  contested,  \* history: two processes were filling the cache with the package at once
  littered    \* history: the staging directory of a call could not be removed

local == <<phase, lives, next, pc, tries, result>>
vars == <<local, cache, opened, staging, contested, littered>>

(* A directory without task.toml, one with task.toml and not all the rest, *)
(* and a package.                                                          *)
Content == {"husk", "part", "whole"}
HasTaskToml(content) == content \in {"part", "whole"}

Working == {"stage", "fetch", "validate", "extract", "check", "exists", "removing", "rename",
            "unstage"}
Pc == Working \cup {"queued", "lookup", "done"}

TypeOK ==
  /\ phase \in [Pid -> {"idle", "resolving", "using"}]
  /\ lives \in [Pid -> Nat]
  /\ next \in [Pid -> Nat]
  /\ pc \in [Job -> Pc]
  /\ tries \in [Job -> 1 .. MaxTries]
  /\ result \in [Job -> {"none", "ok", "err"}]
  /\ cache \in [Package -> Content \cup {"absent"}]
  /\ opened \in [Package -> SUBSET Job]
  /\ staging \in [Job -> Content \cup {"absent"}]
  /\ contested \in [Package -> BOOLEAN]
  /\ littered \in [Job -> BOOLEAN]

(* A cache may hold packages, and the remains of a removal.                *)
Init ==
  /\ phase = [p \in Pid |-> "idle"]
  /\ lives = [p \in Pid |-> 0]
  /\ next = [p \in Pid |-> 1]
  /\ pc = [j \in Job |-> "queued"]
  /\ tries = [j \in Job |-> 1]
  /\ result = [j \in Job |-> "none"]
  /\ cache \in [Package -> {"absent", "husk", "whole"}]
  /\ opened = [k \in Package |-> {}]
  /\ staging = [j \in Job |-> "absent"]
  /\ contested = [k \in Package |-> FALSE]
  /\ littered = [j \in Job |-> FALSE]

-----------------------------------------------------------------------------
(* Processes.                                                              *)
Launch(p) ==
  /\ phase[p] = "idle" /\ lives[p] < MaxLives[p]
  /\ phase' = [phase EXCEPT ![p] = "resolving"]
  /\ lives' = [lives EXCEPT ![p] = @ + 1]
  /\ UNCHANGED <<next, pc, tries, result, cache, opened, staging, contested, littered>>

(* The scope ends when every worker has; the first Err is the result.      *)
Collect(p) ==
  /\ phase[p] = "resolving"
  /\ \A j \in JobsOf(p) : pc[j] = "done"
  /\ \A j \in JobsOf(p) : result[j] = "ok"
  /\ phase' = [phase EXCEPT ![p] = "using"]
  /\ UNCHANGED <<lives, next, pc, tries, result, cache, opened, staging, contested, littered>>

(* The process ends: after its trials, with an Err, or killed.  Its memory *)
(* is gone and what it was removing stays as it is.                        *)
End(p) ==
  /\ phase[p] # "idle"
  /\ phase' = [phase EXCEPT ![p] = "idle"]
  /\ next' = [next EXCEPT ![p] = 1]
  /\ pc' = [j \in Job |-> IF j \in JobsOf(p) THEN "queued" ELSE pc[j]]
  /\ tries' = [j \in Job |-> IF j \in JobsOf(p) THEN 1 ELSE tries[j]]
  /\ result' = [j \in Job |-> IF j \in JobsOf(p) THEN "none" ELSE result[j]]
  /\ opened' = [k \in Package |-> opened[k] \ JobsOf(p)]
  /\ littered' = [j \in Job |-> littered[j] \/ (j \in JobsOf(p) /\ staging[j] # "absent")]
  /\ UNCHANGED <<lives, cache, staging, contested>>

-----------------------------------------------------------------------------
(* One call.                                                               *)
Go(j, label) == pc' = [pc EXCEPT ![j] = label]

Return(j, outcome) ==
  /\ Go(j, "done")
  /\ result' = [result EXCEPT ![j] = outcome]

Fail(j) ==
  /\ Go(j, "unstage")
  /\ result' = [result EXCEPT ![j] = "err"]

Busy(p) == {j \in JobsOf(p) : pc[j] \notin {"queued", "done"}}

(* Mutated form of TakeIndex: the counter is advanced twice.               *)
TakeIndexSkips(j) ==
  /\ phase[j[1]] = "resolving"
  /\ next[j[1]] = j[2]
  /\ Cardinality(Busy(j[1])) < MaxWorkers
  /\ next' = [next EXCEPT ![j[1]] = @ + 2]
  /\ Go(j, "lookup")
  /\ UNCHANGED <<phase, lives, tries, result, cache, opened, staging, contested, littered>>

(* A worker that has nothing to do takes the next index.                   *)
TakeIndex(j) ==
  /\ phase[j[1]] = "resolving"
  /\ next[j[1]] = j[2]
  /\ Cardinality(Busy(j[1])) < MaxWorkers
  /\ next' = [next EXCEPT ![j[1]] = @ + 1]
  /\ Go(j, "lookup")
  /\ UNCHANGED <<phase, lives, tries, result, cache, opened, staging, contested, littered>>

Filling(j) == {q \in Job : q # j /\ PackageOf(q) = PackageOf(j) /\ pc[q] \in Working}

(* task.toml is all that a hit takes.                                      *)
Lookup(j) ==
  /\ pc[j] = "lookup"
  /\ IF HasTaskToml(cache[PackageOf(j)])
       THEN Return(j, "ok") /\ UNCHANGED contested
       ELSE /\ Go(j, "stage")
            /\ contested' = [contested EXCEPT ![PackageOf(j)] = @ \/ Filling(j) # {}]
            /\ UNCHANGED result
  /\ UNCHANGED <<phase, lives, next, tries, cache, opened, staging, littered>>

(* Clear what an earlier process with this pid left, make the directories. *)
(* An error returns before the cleanup at the end.                         *)
Stage(j) ==
  /\ pc[j] = "stage"
  /\ \/ /\ staging' = [staging EXCEPT ![j] = "husk"]
        /\ Go(j, "fetch")
        /\ littered' = [littered EXCEPT ![j] = FALSE]
        /\ UNCHANGED result
     \/ /\ \E left \in {staging[j], "husk"} : staging' = [staging EXCEPT ![j] = left]
        /\ Return(j, "err")
        /\ littered' = [littered EXCEPT ![j] = TRUE]
  /\ UNCHANGED <<phase, lives, next, tries, cache, opened, contested>>

(* curl succeeds, fails for good, or fails in a way worth another attempt, *)
(* which starts without the archive of this one.                           *)
Fetch(j) ==
  /\ pc[j] = "fetch"
  /\ \/ Go(j, "validate") /\ UNCHANGED <<tries, result>>
     \/ Fail(j) /\ UNCHANGED tries
     \/ /\ tries[j] < MaxTries
        /\ tries' = [tries EXCEPT ![j] = @ + 1]
        /\ UNCHANGED <<pc, result>>
  /\ UNCHANGED <<phase, lives, next, cache, opened, staging, contested, littered>>

(* validate_archive_paths: `tar -t`, and no entry outside the directory.   *)
Validate(j) ==
  /\ pc[j] = "validate"
  /\ \/ Archive[PackageOf(j)] # "unsafe" /\ Go(j, "extract") /\ UNCHANGED result
     \/ Fail(j)
  /\ UNCHANGED <<phase, lives, next, tries, cache, opened, staging, contested, littered>>

(* `tar -x`, file by file.                                                 *)
Extract(j) ==
  /\ pc[j] = "extract"
  /\ \/ /\ staging' = [staging EXCEPT ![j] =
                         IF Archive[PackageOf(j)] = "task" THEN "whole" ELSE "husk"]
        /\ Go(j, "check")
        /\ UNCHANGED result
     \/ /\ \E reached \in {"husk", "part"} : staging' = [staging EXCEPT ![j] = reached]
        /\ Fail(j)
  /\ UNCHANGED <<phase, lives, next, tries, cache, opened, contested, littered>>

(* Mutated form of CheckRoot: task.toml is not asked for.                  *)
CheckNothing(j) ==
  /\ pc[j] = "check"
  /\ Go(j, "exists")
  /\ UNCHANGED <<phase, lives, next, tries, result, cache, opened, staging, contested, littered>>

CheckRoot(j) ==
  /\ pc[j] = "check"
  /\ IF HasTaskToml(staging[j]) THEN Go(j, "exists") /\ UNCHANGED result ELSE Fail(j)
  /\ UNCHANGED <<phase, lives, next, tries, cache, opened, staging, contested, littered>>

-----------------------------------------------------------------------------
(* target_dir.exists(), and the start of remove_dir_all if it does.        *)
FindTarget(j) ==
  /\ pc[j] = "exists"
  /\ IF cache[PackageOf(j)] = "absent"
       THEN Go(j, "rename") /\ UNCHANGED <<cache, opened>>
       ELSE /\ Go(j, "removing")
            /\ \E left \in {cache[PackageOf(j)], "husk"} \cup
                           (IF HasTaskToml(cache[PackageOf(j)]) THEN {"part"} ELSE {}) :
                 cache' = [cache EXCEPT ![PackageOf(j)] = left]
            /\ opened' = [opened EXCEPT ![PackageOf(j)] = @ \cup {j}]
  /\ UNCHANGED <<phase, lives, next, tries, result, staging, contested, littered>>

(* The end of remove_dir_all.  It goes on in the directory that it opened: *)
(* one that has taken its place is not emptied.                            *)
RemoveTarget(j) ==
  /\ pc[j] = "removing"
  /\ \/ /\ j \in opened[PackageOf(j)]
        /\ cache' = [cache EXCEPT ![PackageOf(j)] = "absent"]
        /\ opened' = [opened EXCEPT ![PackageOf(j)] = {}]
        /\ Go(j, "rename")
        /\ UNCHANGED result
     \/ /\ cache[PackageOf(j)] = "absent"
        /\ Go(j, "rename")
        /\ UNCHANGED <<result, cache, opened>>
     \/ /\ Fail(j)
        /\ opened' = [opened EXCEPT ![PackageOf(j)] = @ \ {j}]
        /\ UNCHANGED cache
  /\ UNCHANGED <<phase, lives, next, tries, staging, contested, littered>>

(* rename: never over a directory with something in it.                    *)
Install(j) ==
  /\ pc[j] = "rename"
  /\ \/ /\ cache[PackageOf(j)] \in {"absent", "husk"}
        /\ cache' = [cache EXCEPT ![PackageOf(j)] = staging[j]]
        /\ opened' = [opened EXCEPT ![PackageOf(j)] = {}]
        /\ staging' = [staging EXCEPT ![j] = "husk"]
        /\ result' = [result EXCEPT ![j] = "ok"]
        /\ Go(j, "unstage")
     \/ Fail(j) /\ UNCHANGED <<cache, opened, staging>>
  /\ UNCHANGED <<phase, lives, next, tries, contested, littered>>

(* Mutated form of Unstage: the cleanup runs only for an Ok result.        *)
UnstageAfterOk(j) ==
  /\ pc[j] = "unstage"
  /\ staging' = [staging EXCEPT ![j] = IF result[j] = "ok" THEN "absent" ELSE @]
  /\ Go(j, "done")
  /\ UNCHANGED <<phase, lives, next, tries, result, cache, opened, contested, littered>>

(* remove_dir_all(&staging) whatever the result; a failure is a warning.   *)
Unstage(j) ==
  /\ pc[j] = "unstage"
  /\ \/ staging' = [staging EXCEPT ![j] = "absent"] /\ UNCHANGED littered
     \/ littered' = [littered EXCEPT ![j] = TRUE] /\ UNCHANGED staging
  /\ Go(j, "done")
  /\ UNCHANGED <<phase, lives, next, tries, result, cache, opened, contested>>

-----------------------------------------------------------------------------
(* What a call waits for a command for, curl or tar, and what it does on   *)
(* its own.                                                                *)
InCommand == {"fetch", "validate", "extract"}

CommandStep(j) == Fetch(j) \/ Validate(j) \/ Extract(j)

CallStep(j) ==
  \/ TakeIndex(j) \/ Lookup(j) \/ Stage(j)
  \/ CheckRoot(j) \/ FindTarget(j) \/ RemoveTarget(j) \/ Install(j) \/ Unstage(j)

Call(j) == CallStep(j) \/ CommandStep(j)

Next ==
  \/ \E p \in Pid : Launch(p) \/ Collect(p) \/ End(p)
  \/ \E j \in Job : Call(j)

(* The threads of a process run; nothing makes it die or start, and no     *)
(* command is assumed to end: curl and tar are started without a timeout.  *)
Fairness ==
  /\ \A j \in Job : WF_vars(CallStep(j))
  /\ \A p \in Pid : WF_vars(Collect(p))

Spec == Init /\ [][Next]_vars /\ Fairness

-----------------------------------------------------------------------------
(* A process that runs its trials finds every package it was given in one  *)
(* piece, whatever died before or fails beside it, unless two processes    *)
(* were filling the cache with that package at the same time.              *)
GivenIsWhole ==
  \A j \in Job :
    result[j] = "ok" /\ ~contested[PackageOf(j)] => cache[PackageOf(j)] = "whole"

(* A call that is over has no staging directory left, whatever its result, *)
(* unless it could not be made or removed or its process died on the way.  *)
StagingSwept ==
  \A j \in Job : pc[j] = "done" /\ ~littered[j] => staging[j] = "absent"

(* The assumption that the code does not enforce: the commands of a        *)
(* process end.                                                            *)
CommandsEnd(p) == \A j \in JobsOf(p) : []<>(pc[j] \notin InCommand)

(* If its own curl and tar end, every call of a process that resolves its  *)
(* list comes to an end, unless the process dies: no index is passed over, *)
(* and no process waits for another one that fills the cache.              *)
ResolutionEnds ==
  \A p \in Pid : CommandsEnd(p) =>
    (phase[p] = "resolving" ~> phase[p] # "resolving" \/ \A j \in JobsOf(p) : pc[j] = "done")

=============================================================================
