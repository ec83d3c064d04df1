------------------------------ MODULE Selection ------------------------------
(***************************************************************************)
(* What `seaport run` runs (src/main.rs: run_eval, resolve_run_target,     *)
(* validate_sources, validate_task_path; src/target.rs; src/registry.rs:   *)
(* resolve_json_registry_dataset, resolve_json_registry_task).             *)
(*                                                                         *)
(* The options name one source: a path, a path in a git repository, a task *)
(* of a registry or a dataset of one.  Its task directories are loaded one *)
(* after the other, and the name filters and the limit are applied to      *)
(* them.  The package registry and the checkout of git sources are other   *)
(* modules' subject: here their directories are there.                     *)
(***************************************************************************)
EXTENDS Naturals, Sequences, SequencesExt, InOrder

CONSTANTS
  Request,    \* what the command line asks for
  World,      \* what is on the disk and in the registry
  NoLimit,    \* -l is not given
  NoVersion,  \* the dataset reference has no @version
  HeadVersion \* the version "head"

(* The options of a request: `given` names those that are there.  Names    *)
(* and patterns are sequences of bytes, versions are numbered in the order *)
(* of their text.                                                          *)
Flag == {"path", "dataset", "task", "git", "commit"}

Name == Seq(STRING)

ASSUME RequestAssumption ==
  \A r \in Request :
    /\ r.given \subseteq Flag
    /\ r.limit \in Nat \cup {NoLimit}
    /\ r.include \cup r.exclude \subseteq Name
    /\ r.version \in Nat \cup {NoVersion, HeadVersion}

(* A task directory: its place among its siblings, the name in task.toml,  *)
(* the required files it has, whether it declares [[steps]], and whether   *)
(* it can be read.                                                         *)
Required == {"task.toml", "instruction.md", "tests/test.sh", "steps"}

TaskDir(dir) == dir.place \in Nat /\ dir.name \in Name /\ dir.files \subseteq Required

InARow(list) == Len(list) \in Nat /\ DOMAIN list = 1 .. Len(list)

(* A world: the directory at the path and its children, and the datasets   *)
(* of the registry with their rows.                                        *)
ASSUME WorldAssumption ==
  \A w \in World :
    /\ IsFiniteSet(w.children)
    /\ \A dir \in w.children : TaskDir(dir)
    /\ \A dir, other \in w.children : dir.place = other.place => dir = other
    /\ TaskDir(w.root)
    /\ InARow(w.registry)
    /\ \A i \in DOMAIN w.registry :
         /\ InARow(w.registry[i].tasks)
         /\ \A j \in DOMAIN w.registry[i].tasks : TaskDir(w.registry[i].tasks[j].dir)

VARIABLES
  asked,      \* the request
  world,      \* its world
  pcSelect,   \* where the command is
  pending,    \* the task directories that are still to be loaded
  tasks,      \* the TaskRefs loaded so far, then selected
  result      \* how the resolution ended

selectionVars == <<asked, world, pcSelect, pending, tasks, result>>

SelectionTypeOK ==
  /\ asked \in Request /\ world \in World
  /\ pcSelect \in {"sources", "resolve", "local", "registry", "apply", "done"}
  /\ \A i \in DOMAIN pending : TaskDir(pending[i])
  /\ \A i \in DOMAIN tasks : TaskDir(tasks[i])
  /\ result \in {"none", "ok", "usage", "io"}

SelectionInit ==
  /\ asked \in Request /\ world \in World
  /\ pcSelect = "sources"
  /\ pending = << >> /\ tasks = << >>
  /\ result = "none"

-----------------------------------------------------------------------------
End(with) ==
  /\ pcSelect' = "done" /\ result' = with
  /\ UNCHANGED <<asked, world, pending>>

Given(flag) == flag \in asked.given

(* validate_sources, after has_run_source.                                 *)
HasSource == asked.given \cap {"path", "dataset", "task", "git"} # {}

SourcesValid ==
  /\ Given("commit") => Given("git")
  /\ Given("git") => Given("path") /\ ~Given("dataset") /\ ~Given("task")
  /\ ~Given("git") => Cardinality(asked.given \cap {"path", "dataset", "task"}) <= 1

CheckSources ==
  /\ pcSelect = "sources"
  /\ \/ HasSource /\ SourcesValid /\ pcSelect' = "resolve" /\ UNCHANGED <<asked, world, pending, result>>
     \/ ~(HasSource /\ SourcesValid) /\ End("usage")
  /\ UNCHANGED tasks

(* validate_task_path, for which a task.toml that cannot be read declares  *)
(* no steps, and then task_name, which has to read it.                     *)
HasToml(dir) == "task.toml" \in dir.files
TaskIsMultiStep(dir) == dir.multi /\ dir.readable
Valid(dir) ==
  /\ HasToml(dir)
  /\ IF TaskIsMultiStep(dir) THEN "steps" \in dir.files
     ELSE {"instruction.md", "tests/test.sh"} \subseteq dir.files

(* TaskRef::from_path, whose errors are of usage or of input and output.   *)
Loads(dir) == Valid(dir) /\ dir.readable
LoadError(dir) == IF Valid(dir) THEN "io" ELSE "usage"

Load(label, dirs) ==
  /\ pcSelect' = label /\ pending' = dirs
  /\ UNCHANGED <<asked, world, tasks, result>>

(* A path that is a task is run as it is: no filter is looked at.          *)
ResolveTaskPath ==
  /\ pcSelect = "resolve" /\ Given("path") /\ HasToml(world.root)
  /\ IF Loads(world.root)
       THEN tasks' = <<world.root>> /\ End("ok")
       ELSE End(LoadError(world.root)) /\ UNCHANGED tasks

(* sorted_child_dirs.                                                      *)
SortedChildDirs(dirs) ==
  LET places == Ascending({dir.place : dir \in dirs})
  IN  [i \in DOMAIN places |-> CHOOSE dir \in dirs : dir.place = places[i]]

(* local_dataset: of the child directories those with a task.toml.         *)
ResolveDatasetPath ==
  /\ pcSelect = "resolve" /\ Given("path") /\ ~HasToml(world.root)
  /\ IF world.isDir
       THEN Load("local", SortedChildDirs({dir \in world.children : HasToml(dir)}))
       ELSE End("usage") /\ UNCHANGED tasks

(* registry_task_matches: the name, or the last part of the path.  A task  *)
(* is asked for as its name's parts, of which the last counts here.        *)
RegistryTaskMatches(row) == row.name = asked.name \/ row.base = Last(asked.name)

(* Where the task is in the registry, and the first of these places.       *)
Places ==
  UNION {{<<i, j>> : j \in {row \in DOMAIN world.registry[i].tasks :
                            RegistryTaskMatches(world.registry[i].tasks[row])}} :
         i \in DOMAIN world.registry}
FirstPlace ==
  CHOOSE p \in Places : \A q \in Places : p[1] < q[1] \/ (p[1] = q[1] /\ p[2] <= q[2])

ResolveRegistryTask ==
  /\ pcSelect = "resolve" /\ ~Given("path") /\ Given("task")
  /\ IF Places # {}
       THEN Load("registry", <<world.registry[FirstPlace[1]].tasks[FirstPlace[2]].dir>>)
       ELSE End("usage") /\ UNCHANGED tasks

(* resolve_version: "head", or else the last in the order of the text.     *)
Specs == {i \in DOMAIN world.registry : world.registry[i].name = asked.name}
Versions == {world.registry[i].version : i \in Specs}
ResolveVersion ==
  IF HeadVersion \in Versions THEN HeadVersion ELSE CHOOSE v \in Versions : \A w \in Versions : w <= v
Version == IF asked.version = NoVersion THEN ResolveVersion ELSE asked.version

ResolveRegistryDataset ==
  /\ pcSelect = "resolve" /\ ~Given("path") /\ ~Given("task")
  /\ IF Specs # {} /\ Version \in Versions
       THEN LET rows == world.registry[Min({i \in Specs : world.registry[i].version = Version})].tasks
            IN  Load("registry", [j \in DOMAIN rows |-> rows[j].dir])
       ELSE End("usage") /\ UNCHANGED tasks

(* In a local dataset a directory that is no valid task is passed over; of *)
(* a registry's every one must be valid.                                   *)
LoadTask ==
  /\ pcSelect \in {"local", "registry"} /\ pending # << >>
  /\ LET dir == Head(pending)
     IN  \/ /\ Loads(dir)
            /\ tasks' = Append(tasks, dir) /\ pending' = Tail(pending)
            /\ UNCHANGED <<asked, world, pcSelect, result>>
         \/ /\ ~Loads(dir) /\ LoadError(dir) = "usage" /\ pcSelect = "local"
            /\ pending' = Tail(pending)
            /\ UNCHANGED <<asked, world, pcSelect, tasks, result>>
         \/ /\ ~Loads(dir) /\ (LoadError(dir) = "io" \/ pcSelect = "registry")
            /\ End(LoadError(dir)) /\ UNCHANGED tasks

Loaded ==
  /\ pcSelect \in {"local", "registry"} /\ pending = << >>
  /\ IF pcSelect = "local" /\ tasks = << >>
       THEN End("usage")
       ELSE pcSelect' = "apply" /\ UNCHANGED <<asked, world, pending, result>>
  /\ UNCHANGED tasks

-----------------------------------------------------------------------------
(* What is left to match of a pattern and of a value, by where it begins.  *)
Rests(pattern, value) == (1 .. Len(pattern) + 1) \X (1 .. Len(value) + 1)

(* Mutated form of GlobMatches: a star matches one byte or more.           *)
GlobMatchesStarPlus(pattern, value) ==
  LET inner[rest \in Rests(pattern, value)] ==
        LET p == rest[1]
            v == rest[2]
        IN  IF p > Len(pattern) THEN v > Len(value)
            ELSE IF pattern[p] = "*"
              THEN v <= Len(value) /\ (inner[<<p + 1, v + 1>>] \/ inner[<<p, v + 1>>])
            ELSE v <= Len(value) /\ pattern[p] \in {"?", value[v]} /\ inner[<<p + 1, v + 1>>]
  IN  inner[<<1, 1>>]

(* glob_matches, byte by byte.                                             *)
GlobMatches(pattern, value) ==
  LET inner[rest \in Rests(pattern, value)] ==
        LET p == rest[1]
            v == rest[2]
        IN  IF p > Len(pattern) THEN v > Len(value)
            ELSE IF pattern[p] = "*"
              THEN inner[<<p + 1, v>>] \/ (v <= Len(value) /\ inner[<<p, v + 1>>])
            ELSE v <= Len(value) /\ pattern[p] \in {"?", value[v]} /\ inner[<<p + 1, v + 1>>]
  IN  inner[<<1, 1>>]

Selected(name) ==
  /\ asked.include # {} => \E pattern \in asked.include : GlobMatches(pattern, name)
  /\ \A pattern \in asked.exclude : ~GlobMatches(pattern, name)

Retained == Retain(tasks, {i \in DOMAIN tasks : Selected(tasks[i].name)})

(* TaskSelection::apply, and the check that something is left.             *)
Apply ==
  /\ pcSelect = "apply"
  /\ LET kept == IF asked.limit = NoLimit \/ asked.limit > Len(Retained) THEN Retained
                 ELSE SubSeq(Retained, 1, asked.limit)
     IN  IF asked.limit # 0 /\ kept # << >>
           THEN tasks' = kept /\ End("ok")
           ELSE End("usage") /\ UNCHANGED tasks

SelectionNext ==
  \/ CheckSources \/ ResolveTaskPath \/ ResolveDatasetPath \/ ResolveRegistryTask
  \/ ResolveRegistryDataset \/ LoadTask \/ Loaded \/ Apply

SelectionSpec == SelectionInit /\ [][SelectionNext]_selectionVars

-----------------------------------------------------------------------------
(* The language of a pattern, by its meaning: the value can be cut into as *)
(* many pieces as the pattern has bytes, each what its byte stands for.    *)
InLanguage(value, pattern) ==
  \E cut \in [0 .. Len(pattern) -> 0 .. Len(value)] :
    /\ cut[0] = 0 /\ cut[Len(pattern)] = Len(value)
    /\ \A i \in 1 .. Len(pattern) :
         IF pattern[i] = "*" THEN cut[i] >= cut[i - 1]
         ELSE cut[i] = cut[i - 1] + 1 /\ pattern[i] \in {"?", value[cut[i]]}

Wanted(name) ==
  /\ asked.include = {} \/ \E pattern \in asked.include : InLanguage(name, pattern)
  /\ ~\E pattern \in asked.exclude : InLanguage(name, pattern)

(* What runs is what was asked for: every task that runs is valid and      *)
(* wanted, and of the dataset at a path the tasks run in the order of the  *)
(* directories, and a valid one that does not run is unwanted or comes     *)
(* after as many as the limit allows.  A run that cannot be as asked, for  *)
(* want of a task or of one clear source, is refused.                      *)
SelectionAsAsked ==
  pcSelect = "done" /\ result = "ok" /\ ~(Given("path") /\ HasToml(world.root)) =>
    LET chosen == {tasks[i] : i \in DOMAIN tasks}
    IN  /\ asked.given \in {{"path"}, {"dataset"}, {"task"}, {"path", "git"},
                            {"path", "git", "commit"}}
        /\ chosen # {} /\ \A dir \in chosen : Valid(dir) /\ Wanted(dir.name)
        /\ Given("path") =>
             /\ \A i, j \in DOMAIN tasks : i < j => tasks[i].place < tasks[j].place
             /\ \A dir \in world.children \ chosen : Valid(dir) /\ Wanted(dir.name) =>
                  Len(tasks) = asked.limit /\ \A other \in chosen : other.place < dir.place

=============================================================================
