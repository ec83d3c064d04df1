# Seaport in TLA+

This directory models [Seaport](../src/README.md), a runner that evaluates
software agents on tasks: it plans trials, runs each in Docker containers, reads
the reward that the task's verifier wrote, retries what is worth a retry, and
writes a job's results. The modules are TLA+, checked with TLC on small
instances, and every safety property that the runs check is proved with TLAPS for
every value of the constants. Paths below are relative to `src/`; `main.rs:438` is
`src/src/main.rs`, line 438.

1. [The system](#1-the-system) – components, state, operations, interactions
2. [The modules](#2-the-modules) – what models what, and how to read them
3. [The runs](#3-the-runs) – what each asks and shows, bounds, fairness
4. [The proofs](#4-the-proofs) – theorems, assumptions, invariants
5. [Disagreements between code and text](#5-disagreements-between-code-and-text)
6. [What is not modelled](#6-what-is-not-modelled)
7. [Plan](#7-plan)

## 1. The system

### Components

| component | state it keeps | operations | what makes it correct |
|---|---|---|---|
| **trial worker pool** (`main.rs` `run_target`, `run_trial_plans`, `run_trial`) | a mutex-protected queue of plan indices, an mpsc channel, one slot per plan, a `retries` counter per trial, the job's directories and files | pop, run, retry with back-off, send, receive, join, write `config.json` and `result.json`, choose the exit code | every planned trial is run and recorded once; only retryable errors are retried, at most `--max-retries` times; a fatal error stops the job without leaving a thread behind; exit code and files agree; trials do not share a directory |
| **image cache** (`sandbox.rs` `prepare_docker_image`, `DockerImagePull`) | a process-wide set of active keys with one mutex and one condition variable; the daemon's images | look, take the guard, look again, pull or build with attempts, fall back to linux/amd64, evict after a timeout, release | one `docker` command per reference at a time, one success per reference, no lost wakeup, an image that was promised is there when the container starts |
| **trial sandbox** (`sandbox.rs` `run_scripts_in_docker`, `cleanup_orphaned_trial_containers`; `main.rs` `run_trial_once`) | containers named after the run and labelled with a pid, the container's network, the workspace with the reward file, the transfer directory of a separate verifier | sweep orphans, start, prep, healthcheck, setup, agent, network switch, verifier in place or in a container of its own, cleanup, record, remove the workspace | containers of dead runs go and those of live runs stay; no leak on any error path; a reward and the artifacts it is based on belong to the attempt that is credited |
| **multi-step tasks** (`sandbox.rs` `run_steps_in_container`, `aggregate_rewards`; `main.rs` `read_reward`, `Rewards::passed`) | the step, the reward files all steps share, the outcomes so far, the container's network | setup, healthcheck, agent, reset, verifier, gate, roll-up | each step is credited with its own reward only, the first failure ends the steps, every phase is on its network, the roll-up hides no failure |
| **package cache** (`registry.rs` `download_package_tasks`, `download_package_task`) | one directory per package shared by all processes without a lock, a staging directory per process and digest, a shared index | look up, stage, fetch with attempts, validate, extract, check, replace, clean up | a process never runs a half-installed package; no staging directory is left behind; resolution ends |
| **evaluation library** (`evaluation.rs`, `telemetry.rs`, `agent.rs`) | a recorder with a sequence number, ordered cases, results | validate, order, evaluate, record, summarise | reports do not depend on the order of the cases, and every start in the telemetry is closed |
| **command runner** (`sandbox.rs:3772` `run_command_with_timeout`) | a child process, two reader threads on its pipes, a deadline | spawn, poll, look at the clock, kill, join the readers | what is returned is all that was written; nothing that holds a pipe of a command is left beside the next; it ends, unless such a process stays for ever |
| **unsafe-local backend** (`sandbox.rs:3577` `run_scripts_locally`) | a workspace whose path is the same for every attempt, with the reward file in it | prepare, agent, verifier, read, record, remove, retry | the reward is that of the attempt that reports it |
| **healthcheck** (`sandbox.rs:1836`) | a counter of failures, the start period | check, count or not, sleep, give up | exactly the configured number of failures is counted, and it ends |
| **job statistics** (`main.rs:1632`–`2185`) | the outcomes in the order of the plans | verdict, mean, grouping by score, pass@k, average of displayed rewards | pass@k is the share of draws that it estimates; the parts of a report agree |
| **target selection** (`target.rs`; `main.rs:142`; `registry.rs:77`) | the tasks found so far | choose one source, resolve, load, filter, limit | what runs is what was asked for, and nothing valid and wanted goes missing |
| **git checkout cache** (`registry.rs:682`) | one directory per source and revision, shared by all processes without a lock | look for `.git`, clear, clone, check out | what a process was given is the commit it asked for, or the clone's if it asked for a name that moves |
| **upgrade and update notice** (`upgrade.rs`) | a cache file shared by all processes, the installed binary | notice, detached refresh, fetch, install, write the cache | the notice says what the last check found; an upgrade never goes back, unless another one overtakes its download |
| artifact collection (`sandbox.rs:2135`) | files of the trial directory | best-effort copy | never changes a result; only the transfer to a separate verifier is modelled |
| task configuration (`toml_doc.rs`, `sandbox.rs` parsers) | none | parse `task.toml` | what it decides are constants here, but for the healthcheck's `retries` |
| command line, scaffolding, logging | none | | pure input and output |

### How they interact

Every command but `upgrade` first looks at the cached latest version and may
start a detached refresh (**update notice**). `seaport run` resolves its target
(**target selection**, with the **git checkout cache** or the **package cache**), makes
one plan per task and attempt, and sweeps the containers of dead processes
(**trial sandbox**). It then starts the **worker pool** as scoped threads. Each
worker calls `run_trial`, which for every attempt calls `run_trial_once`: make
the directories, get an image through the **image cache** — the one piece of
state that all trial threads of a process share —, start the container, run the
phases or the **multi-step** loop (each phase a `docker` command of the
**command runner**, or a script on the host in the unsafe-local backend), clean up, read the reward, write the trial's
files and remove the workspace. The result goes through the channel to the
collector, which prints, fills slots and finally writes the job with its
**statistics**. Processes know nothing of one another; they meet in the Docker
daemon, the two caches of tasks, the update cache and the process table.

### Which behaviours are hard

* **Concurrency**: workers against the collector; trial threads against one
  condition variable for all image keys; several processes against one daemon
  and three caches of files, without any lock; a script's own processes against
  the phases after it.
* **Failure**: every phase has four ends (status, timeout, task error, I/O
  error), in two nested scopes with two containers; every cleanup is best
  effort; a `?` in one trial aborts the job.
* **Crash**: Ctrl-C kills the process between any two steps; containers and
  staging directories stay; pids come again.
* **Stale state**: names that do not change between attempts (workspace,
  transfer directory) or between steps (reward files).
* **Hangs**: many docker commands run without a timeout (`sandbox.rs:2572` and
  others), `curl` without `--max-time` (`registry.rs:934`), and a reader thread may
  outlast the timeout of its command (`sandbox.rs:3820`).
* **Timeouts**: killing the `docker` client does not undo what the daemon did,
  a build killed late may have loaded its image, and killing a shell does not end
  what it has started.

`PROJECT.json` lists each hazard with its line and the properties that would
catch it going wrong.

## 2. The modules

| module | models | extended or used by |
|---|---|---|
| `JobSpec` | the abstract promise of a job: queued → running → finished → recorded, and a verdict | instantiated by `TrialPool` |
| `TrialPool` | the worker pool and `run_target` | `MCTrialPool`, `TrialPoolProofs` |
| `ImageCache` | `prepare_docker_image` and its guard | `MCImageCache`, `ImageCacheProofs` |
| `TrialSandbox` | processes, sweep, containers, phases, rewards of one-step trials | `MCTrialSandbox`, `TrialSandboxProofs` |
| `MultiStep` | the loop over the steps and the roll-up | `MCMultiStep`, `MultiStepProofs` |
| `PackageCache` | the shared cache of packaged tasks | `MCCaches`, `SharedFilesProofs` |
| `GitCheckout` | the shared checkout of a git source | `MCCaches`, `SharedFilesProofs` |
| `UpdateCheck` | the update cache, the notice and `seaport upgrade` | `MCCaches`, `SharedFilesProofs` |
| `CommandRunner` | `run_command_with_timeout`, its threads and the processes it starts | `LocalTrial`, `Healthcheck` |
| `LocalTrial` | a trial of the unsafe-local backend on the command runner | `MCCommands`, `CommandProofs` |
| `Healthcheck` | `run_healthcheck` on the command runner | `MCCommands`, `CommandProofs` |
| `Evaluator` | the library's evaluator and telemetry | `MCOneProcess`, `OneProcessProofs` |
| `Selection` | from the options of `seaport run` to its tasks | `MCOneProcess`, `OneProcessProofs` |
| `JobReport` | from the outcomes of the trials to `result.json` | `MCOneProcess`, `OneProcessProofs` |
| `InOrder` | what `sort` and `retain` of the standard library leave | `Evaluator`, `Selection` |
| `FiniteFolds` | no part of the system: lemmas on finite data, least elements, sums | `MultiStepProofs`, `OneProcessProofs` |

`MCCommands`, `MCCaches` and `MCOneProcess` check several modules in one run. A
variable (`caller`, `place`, `routine`) says which of them a behaviour is of, the
state of the others stands still, and so the run is exactly the union of their
separate instances. (`MCOneProcess` extends its three modules, so that TLC evaluates
their assumptions.) `MCCommands` is also where the one command runner has its two
callers.

In every module one action stands for one step that the scheduler, another
process or a crash can separate from the next, and has the name of the function
or of the branch it models. Variables marked *history* in their declaration are
no state of the program; the properties need them. Operators commented *Mutated
form of …* are plausible bugs; no specification uses them, they are substituted
one at a time to see that the property they are paired with in `PROJECT.json`
can fail.

**TrialPool.** `work` is the `VecDeque` as a set: nothing is ever pushed, so its
front is determined by the weights (`IsFront`, from `weighted_indices`). `pc`,
`plan`, `retries`, `held` are a worker's locals in the loop of
`run_trial_plans` and `run_trial`. `channel` is the mpsc channel. The collector
is the thread that called `run_trial_plans`: `phase` goes from `receive` over
`collect`, `config`, `result`, `summary` to `end`, or over `unwind` after a
fatal event, where the drop of the receiver makes the workers' sends fail and
the scope's implicit join holds the error back. `run_trial_once` has three ends
here: an outcome that settles, an error that is retried (the trial directory is
discarded, and that may fail), or an `Err` that is no task failure. An error
message is a model value and a retry pattern the set of messages it occurs in.
An attempt may also never come back: `RunTrial` is an action of its own and not
part of the fair `LoopStep`.

**ImageCache.** A thread inspects (pulls only), acquires the guard or waits,
looks again, runs docker, falls back under the *same* guard, evicts after a
timed-out build, and releases, which notifies the waiters of every key. A
condition variable may wake up spuriously. The steps that are docker commands
(`DockerStep`) may hang; the others are the thread's own (`GuardStep`). Container start is included because
the promise of `prepare_docker_image` is about that moment.

**TrialSandbox.** One `Run` is one process with one trial, since what is
interesting between trials of one process is in the other modules. `docker` is
the set of containers; `Started`/`NotStarted` and `Cleanup` are
`start_trial_container` and `cleanup_docker_container` with all their ends. The
separate verifier has its own scope (`SeparateVerifier`) and a container with a
network of its own (`ownNetwork`), the network switch is two docker commands that can fail in between, and `Record`,
`RecordFails`, `RemoveWorkspace`, `Retry` are the rest of the attempt. Which errors
are retryable is a parameter (`Retryable`), as `--retry-include` and
`--retry-exclude` decide it.
A reward file carries the attempt that wrote it; the agent could write one too,
in the same attempt, which would change nothing, so only the verifier does.
`remove_after_run` is never set by the code, so images stay.

**MultiStep.** One task in one container, a phase of the trial above that is not
composed with it: its `Err` is the trial's `PhaseFails`. Scores are integers on
a scale where `Full` is 1.0. A file carries the step whose verifier wrote it.
The mean is kept as a sum and a count.

**PackageCache.** A directory is absent, a `husk` (no `task.toml`), a `part`
(`task.toml` and not all the rest) or `whole`. `remove_dir_all` is two steps,
because it goes on in the directory it opened after another process has renamed
a new one into its place (`opened`). A staging directory is named after the pid:
a later process with that pid finds it. `CommandStep` is what waits for curl or
tar, `CallStep` the rest of a call.

**GitCheckout.** The directory is absent, a `rest` without `.git`, a `part` (a
clone under way or cut off), or has the files of one commit (`whole`, and then
`files` says of which) or of two (`mixed`). What git does is external: it makes
`.git` first and its files last, and a clone that fails removes what it made. The
source gets commits at any time (`Push`). What is asked for is a commit or a name
that moves, which is the default, `HEAD` (`registry.rs:694`); a directory with a
`.git` is never fetched again (`registry.rs:743`), so a commit pushed after the
clone is not there to be checked out (`Knows`), and a name stays where it was
(`Asked`). A second task of the same source asks again, so `LookForGit` is enabled
in `given` too.

**UpdateCheck.** Versions are sequences of numbers, compared by `is_newer`
component by component. `fs::write` is two steps, a truncation and a write, since a
reader may come between. A refresh fetches, opens and writes as three steps of a
process of its own (`writers`). An upgrade fetches the latest version, decides, and
starts `install.sh`, which looks the version up once more (`ResolveVersion`), downloads
it, and only then moves the binary into place (`InstallBinary`): releases and other
upgrades come between any two of these. The installer is the right side of a pipe
without `pipefail`, so a script that cannot be fetched counts as success
(`NoInstaller`). At last the upgrade writes the cache.

**CommandRunner.** `runner` is the caller's place in `run_command_with_timeout`,
`reader` what became of the two reader threads, `child` the child or its status.
`strays` are the processes that the command left behind, each with the pipes it
still holds: a child that forks and exits, `... &`, or what a killed shell was
running. The kernel, the clock and the scripts are `WorldStep`.

**LocalTrial.** `CommandRunner` is extended, so a call is a sequence of its steps
between `Start` and `Returned`. Any living process of any attempt may write the
reward file while there is a workspace. The file carries its writer. Which errors
are retryable is a parameter.

**Healthcheck.** The other caller. `counted` is a history of the failed checks
that began after the start period; `U32` is the width of `retries as u32`. Inside a
container the client of `docker exec` has no children of its own, so the strays
of the runner stay empty.

**Selection.** A directory is a record of what decides about it: its place among
its siblings, the name in `task.toml`, the required files it has. Names and
patterns are sequences of bytes because `glob_matches` is compared with the
language of the pattern (`InLanguage`), which is defined without recursion on it. The
Rust function calls itself on two slices; the slices of one call are the suffixes of its
arguments, so `GlobMatches` is a function on pairs of positions (`Rests`).

**JobReport.** Scores are integers on a scale with 1.0 = `Full`; means and pass@k
are fractions, so that they can be compared exactly. `Display` rounds to six
decimals, here to multiples of `Resolution`. Rounding of binary floating point is
left out. The loop of `pass_at_k_for_task` multiplies as it counts; `Falling` is that
product, and `Share` what it is meant to estimate, defined by the sets of trials that can be drawn.

**Evaluator.** Cases are ids in their order (0 is the blank id), the agent and
the scorer answer anything, and the caller may keep its recorder between
evaluations.

## 3. The runs

Every run is `tlc -workers 2 -config <cfg> <module>`. Deadlock is not checked in
any of them because each of these programs really ends: jobs, calls,
evaluations and processes come to a final state.

| run | asks | shows |
|---|---|---|
| `trial_pool` | 3 plans, 2 workers, 1 retry; a retryable, an excluded and a not included error; any trial may be fatal | `AtMostOnce`, `NothingLost`, `RetryDiscipline`, `LateStartsBounded`, `ExitMatchesReport`, `OutputMatchesReport` (with distinct names) |
| `trial_pool_live` | 2 plans, 4 requested workers, 2 retries, with fairness of the threads and none of an attempt | `JobEnds`: the job ends if every attempt does; `OthersServed`: an attempt that hangs holds up no other plan; the pool implements `JobSpec`, and its liveness too if attempts end |
| `trial_names_collide` | two task names with one directory | violates `TrialsIsolated` |
| `image_cache` | two builds of one environment with the amd64 fallback and two pulls of one image, two attempts each | `GuardExclusive`, `NoLostWakeup`, `WorkDeduplicated`, `BuiltOnce`, `ReadyImageStays`, and with fairness of the threads `EveryoneServed`, but behind a docker command of the same key that hangs |
| `trial_sandbox` | two processes, two pids: one with all optional phases and a shared verifier on another network, one with a separate verifier and a retry after any of its errors | `LivingSpared`, `SweptAway`, `RewardIsOwn`, `ArtifactsAreOwn`, `NetworkAsDeclared` |
| `sweep_without_ps` | the same where `ps -p` does not see the other process | violates `LivingSpared` |
| `multi_step` | three steps with setup, healthchecks and two gates; mean and final; shared, switched and separate verifiers; scores below, at and above full credit | `StepRewardIsOwn`, `StopsAtFailure`, `NetworkPerPhase`, `MeanHidesNoFailure` |
| `multi_step_final` | the same | violates `FinalIsLastStep` |
| `commands` | a local trial of each kind of agent with one retry; a healthcheck with `retries` of 1, 2, 9 (more than `U32` = 8) or none | `OneAtATime`, `RewardOfAttempt`, `HealthcheckBudget`, and with fairness `CallersEnd` |
| `caches` | packages: two processes that want one package, one of which wants a broken one too and whose pid comes again, a cold, warm or littered cache; git: two processes in one directory, a source with up to three commits, asked for by commit or by a moving name; updates: two commands of any kind with their installers, releases 0.9.1, 0.10.0 and 1.0 | `GivenIsWhole`, `StagingSwept`, with fairness of the threads `ResolutionEnds` if curl and tar end; `CheckoutAsAsked`; `NoticeAsKnown`, `UpgradeNeverDowngrades` |
| `one_process` | two evaluations of any batch of up to three cases; every set of sources with six patterns, limits 0 to 2 and broken directories; jobs of one task with five attempts and of two with three | `ReportAgrees`, `EveryStartClosed`; `SelectionAsAsked`; `PassAtKUnbiased`, `AveragesAgree` |
| `report_not_json` | a verifier that writes `nan` | violates `ReportIsJson` |

The types of the state are in no run: they are proved (section 4), for all modules.

### Bounds and why they are enough

* *Plans and workers* (3/2 and 2/2): one worker more than is needed for a race,
  and one plan more than workers, so that a plan waits in the queue while an
  error is on its way. The heaviest plan is the last, so queue order and index
  order differ. The proofs lift both bounds.
* *Retries*: `MaxRetries` is a parameter of the program; 1 and 2 reach the first,
  the middle and the exhausted attempt.
* *Threads of the image cache* (4): a holder and a waiter for each of two keys,
  so that a notification for one key wakes a waiter of the other. Attempts: 2 of
  the code's 3 reach both sides of the limit.
* *Processes and pids* (2/2): the sweep of one against the life of the other and
  the reuse of a pid by the second after the death of the first. Nothing in the
  code relates three processes.
* *Steps* (3): a first, a middle and a last one; two score names and three
  values, so that a score can be missing, zero, full and above full.
* *Package cache*: `MaxLives` lets the first pid have two lives, so that a
  staging directory of a dead process is met again; `MaxWorkers` is 1 because
  calls of one process on different packages touch disjoint directories;
  `MaxTries` is 2 (8 in the code, configurable), the least
  with a last attempt that is not the first.
* *Git* (2 processes): one fills the directory while the other looks, and each may
  die or fail at every step. `MaxTip` 3: a commit before the one that is cloned,
  that one, and one after it. The proof lifts both bounds.
* *Updates* (2 commands, `MaxClock` = `Interval` = 1): a stale and a fresh cache, and
  a release between any two steps of one command and the other, and the second
  upgrade between the installer's look-up and its move. Comparing 0.9.1
  with 0.10.0 and with 1.0 tells numbers from text and a missing component from a
  greater one.
* *Commands*: one process outlives each command at a time, with any set of pipes;
  `MaxRetries` 1 has a first and a second attempt, so that a process of the first
  meets the second. Only a failed agent is retryable in the run, as by default; the
  proofs hold for any choice.
* *Healthcheck*: retries of one, more than one, none and more than fits.
* *Selection*: names of one to three bytes of two letters, patterns with a star at
  either end, in the middle and twice, and with `?`; three or four siblings of which one is
  incomplete or unreadable; two versions and a `head`.
* *Reports*: five attempts reach pass@2, @4 and @5 with every number of successes;
  two tasks of three attempts, some errored, have different numbers of scored trials; a
  score of one third is one that rounding changes; two score names, alone and
  together.
* *Evaluator*: `MaxCases` 3 and `MaxRuns` 2, the least with an unsorted batch
  that stops in the middle, and with a second run on a kept recorder.

### What the properties leave out, and why

`RewardIsOwn`, `ArtifactsAreOwn`, `SweptAway`, `StepRewardIsOwn` and
`StagingSwept` except the case that a removal itself failed, which the code only
warns of; each exception is a history variable set by exactly that failure.
That the sweep of a later run removes what a dead one has left is no property:
it does so at the next launch, if docker and `ps` answer then. `GivenIsWhole`
excludes packages that two processes were filling in at once:
between the look and the rename there is no lock, and a process can then
remove what another has just published. `TrialsIsolated` is in no passing run: with
distinct names it would say no more than `AtMostOnce`, and without them it is false.
`OutputMatchesReport` and `WorkDeduplicated` are checked with distinct names and private fallbacks in the passing
runs, and proved with them as hypotheses (`DistinctNames`, `FallbackPrivate`); without
distinct names there is a finding, and without private fallbacks (one task that falls
back to linux/amd64 and one that asks for it) two builds of one reference can run
at once under two guards (`sandbox.rs:2752`). `MeanHidesNoFailure` supposes that no
score exceeds full credit: above it a step can make up for another.
`ListAssumption`: the rows of a dataset version are distinct packages.
`CheckoutAsAsked` excludes a checkout in which a process died during the clone or
was present while another filled the directory (`disturbed`): the code takes any
`.git` for a clone, and has no lock. Of a name that moves it says only that it is
what it was when the directory was cloned, however old that is.
`UpgradeNeverDowngrades` excepts an upgrade during whose download another one moved
its binary into place (`overtaken`): `install.sh` looks the version up long before its
`mv -f`, and does not look again, so it can put an earlier release over a later one.
`NoticeAsKnown` says nothing of a cache that
two processes wrote at once or whose last check failed (`blurred`).
`RewardOfAttempt` excepts processes that outlived their attempt without holding a
pipe: nothing ends them, and the path of the workspace does not change.
`CallersEnd` excepts a process that keeps a pipe for ever. `HealthcheckBudget`
speaks of numbers that fit `u32`. The rounding in `AveragesAgree` is allowed for by
one unit in the last displayed place.
The sequence numbers of a recorder that is kept for a second evaluation go on
(`telemetry.rs:78`), although the comment at `telemetry.rs:14` has them start at one for
each run; `ReportAgrees` and `EveryStartClosed` do not depend on it.

### Fairness

Weak fairness of what a thread does by itself, and of nothing else: threads are
scheduled by the operating system, and none is made to wait for another while it
could be starved (the mutex sections are single steps). Whatever waits for a
command outside of the process is not fair, since the code does not make it end:

* `docker` runs without a timeout wherever it is started by `output()` or `status()`
  (`sandbox.rs:898`, 916, 1203, 1227, 2572, 2945, 3243, 3410, 3445);
* `run_command_with_timeout` joins its readers after the kill (`sandbox.rs:3820`), and
  a process that keeps a pipe holds them;
* the registry's `curl` has no `--max-time` (`registry.rs:934`).

So in `TrialPool` an attempt (`RunTrial`), in `ImageCache` a `DockerStep` and in
`PackageCache` a `CommandStep` may be left undone for ever. The liveness properties
say what holds nevertheless, and name what they assume beyond:

* `JobEnds`, and the liveness half of `ImplementsJobSpec`, hold if every attempt comes
  back (`TrialsEnd`): an assumption, not a promise of the code.
* `OthersServed` assumes that one worker is not held for ever: an attempt that
  hangs then costs its own plan and its worker, and no other plan.
* `EveryoneServed` excepts threads in a docker command that hangs, and threads behind
  one that hangs under the guard of their own key. The threads of other keys
  are served, although all wait on one condition variable.
* `ResolutionEnds` assumes that curl and tar of the process itself end
  (`CommandsEnd`), not those of others.
* `CallersEnd` assumes nothing of commands: in `CommandRunner` and its callers the
  caller's thread, the reader threads, the clock and the end of the start period are
  fair, and no script is. That a command ends follows from its timeout, but for a
  process that keeps a pipe (`Held`), which the property excepts.

No spurious wakeup, no launch and no death of a process is ever relied upon. Strong
fairness is not needed for `EveryoneServed`: a thread that loses the race for a key
finds the image on its next look or the key free again, and attempts are finite.

## 4. The proofs

`tlapm` proves the following for all values of the constants that satisfy the
named assumptions of the modules. What is said to be a hypothesis is one of the theorem, not
of the module; the instances of the passing runs satisfy each of them, and each is
a limit of the code that a finding or the section above describes.

**TrialPoolProofs** — assumptions `PlanAssumption`, `WorkerAssumption`,
`RetryAssumption` (at least one plan, as many workers as
`RunPhase::concurrency` says, error messages are no keywords).

* `TypeCorrect` : `Spec => []TypeOK`, from `TypeInv`, which adds that a worker
  holds a plan exactly in the places of its loop where it has one.
* `EachTrialAtMostOnce`, `EachTrialKept`: from `PlaceInv` = `TypeInv` and
  `Apart` (the places of a plan are disjoint, stated for queue, workers, channel
  and slots pairwise), `Drained` (what the collector's phase says of the channel
  and the workers: nobody exits while there is work and the receiver is alive)
  and `Kept`. `AtMostOnce` alone is not inductive: a pop needs the queue to be
  disjoint from everything else, a receive needs the channel's plans to have
  empty slots.
* `FewLateStarts`: `LateInv` adds that a worker that has used its late start is
  past its pop.
* `ExitCodeAgrees`: `ExitInv` says what is on disk in each phase.
* `RetriesAsConfigured`: `RetryInv` follows the log of a plan from the worker
  through the channel into the slot.
* `ReportedOutputKept` (`OutputMatchesReport`), with hypothesis `DistinctNames`: `OutputInv`
  follows the output of an attempt: it is in the directory when the outcome is in a
  worker's hands, in the channel, or in a slot. That no later attempt, and no removal
  before a retry, touches it needs `PlaceInv`: a plan with an outcome anywhere is with no
  worker that could still discard the directory. And without distinct names it is
  false: another trial's retry removes the shared directory.
* `PoolImplementsJob` : `Spec => Job!Spec`, the safety part of the refinement,
  under the mapping `StageOf` (where the plan is) and `Verdict` (`complete` once
  `result.json` is written). It rests on `PlaceInv` and `ExitInv`: only they
  exclude that a step of the pool moves a stage backwards.

**ImageCacheProofs** — assumptions `RequestAssumption`, `NamespaceAssumption`
(cached builds have references no task names as its image). `TypeInv`
adds which reference a thread may be working on; `LockInv` is
`GuardExclusive /\ NoLostWakeup`, inductive as it stands. With `FallbackPrivate`
as hypothesis (no fallback reference is anybody's own; section 3 says what happens
otherwise) threads with one target have one key, and `StoreInv` — what a
thread knows of its reference at each point, including that an evicting thread
never evicts what another was promised — gives `SameWorkSerialized`,
`BuiltAtMostOnce` and `ReadyImagesStay`.

**TrialSandboxProofs** — assumption `RunAssumption`; any number of processes, pids
and retries. `TypeInv` adds that a process has a pid from its launch to its end.

* `NetworksAsDeclared`: `NetworkInv` adds that only a trial whose networks differ
  and whose verifier is shared comes to the switch, that only a separate
  verifier comes to the transfer, and that its container is on the verifier's network
  from its start on.
* `OnlyOwnArtifacts`: `ArtifactInv` says that outside of the separate verifier
  the transfer directory is empty and nothing has been uploaded; so what is in
  it was collected by this attempt.
* `RewardsAreOwn`: `RewardInv` follows the reward file from the empty workspace to
  the report and the removal. It needs that a report exists only after a
  success, which is never retried.
* `ContainersSwept`: `LeakInv` says, for each kind, where a run may have a
  container without having leaked one; a step of one run adds at most a container
  of its own (`NewContainers`).
* `TheLivingAreSpared`, with hypothesis `PsReliable`: `OwnerInv` says that every
  container, in the daemon or on a sweep's list, belongs to a run that was
  launched and carries that run's pid for as long as the run lives. It must speak
  of the lists too: a sweep acts on what `docker ps` said earlier, and in between
  the owner may have died and its pid come again. `UseInv` then says that a phase
  finds its container, using `OthersSpared`.

**MultiStepProofs** — assumption `TaskAssumption`. `TypeInv` bounds the number of
outcomes by the step; `NetworkInv` extends `NetworkPerPhase` to the phases in
between; `RewardInv` says that from the reset to the read the files are missing
or the step's own; `StopInv` is `StopsAtFailure` with the loop's state. `MeanOfPassedSteps`
(`MeanHidesNoFailure`) holds in every well-typed state: a sum of numbers none of which is
above `Full` reaches `Full` times their number only if each of them is `Full`
(`SumAtMost` of `FiniteFolds`), for every number of steps and every set of scores.

**SharedFilesProofs** — assumptions `ListAssumption`, `TipAssumption`, `UpdateAssumption`; any
number of processes, lives, packages, commits and commands.

* `StagingGone` (`StagingSwept`): `StagingInv` extends it to the calls that have not
  got to the staging yet: a directory is there only between `Stage` and `Unstage`,
  or it is counted in `littered`. It needs `QueuedInv`: an index that has not been
  taken belongs to a call that has not begun, or a worker could begin a call twice.
* `PackagesWhole` (`GivenIsWhole`): `CheckedInv` says that what passed the check of
  `task.toml` is complete until the rename. `FillInv` says that without contention
  one call at a time fills the cache with a package, never while it is there, so
  the removal and the rename of that call cannot hit what another was given. The
  crash of a process in the middle of a removal leaves a husk, never a part:
  without contention nothing with a `task.toml` is ever removed.
* `GivenTheRevision` (`CheckoutAsAsked`): `Quiet` says, for as long as nothing
  disturbed the directory, what each process may take it to be from where it is, and
  that one process at most is filling it.
* `NoticeCorrect`, `UpgradeCorrect`: with `Ascending` as hypothesis, that each
  release is newer (by `is_newer`) than those before it. `NewerOneWay` shows that
  `is_newer` cannot hold both ways, so its order is the order of the releases, which a
  comparison of any component would not give. `UpdateInv` says what the file, the
  writers and each upgrade know. `Downloading` is the part that the moves need: between the
  installer's look-up and its move the version is published, later than what the upgrade runs,
  none before what it fetched, and, until somebody overtakes it, none before what is installed. That
  rests on `InstalledPublished`: nothing is installed that was not published, but for a build
  that an upgrade was started from. The releases of the run satisfy `Ascending`.

**CommandProofs** — assumptions `LocalTrialAssumption`, `HealthcheckAssumption`; any number
of attempts, any choice of retryable errors, any numbers of a healthcheck's retries and any modulus.

* `CommandsOneAtATime` (`OneAtATime`): `Drained` follows the pipes: a reader at the
  end of its pipe means that no process of the command holds it, and a process of an earlier
  command holds none; `Calls` says when the runner is in use. `OneAtATime` is not
  inductive because it speaks of both pipes only after both joins.
* `RewardByLastAttempt` (`RewardOfAttempt`): `Writers` says whose processes live,
  `Rewards` follows the file from the workspace to the report and to its removal, and
  that an attempt that is retried reports nothing.
* `FailuresAsConfigured` (`HealthcheckBudget`): `Counts` relates the counter
  to the history at each point of the loop.

**FiniteFolds** — no assumptions. Induction over data is out of the provers' reach as a
rule to apply, because it takes the property as a parameter. It is in reach as a
fact about sets: of the subsets of a finite set with some property one is least
(`LeastSubset`, from the library's theorem that strict inclusion is well-founded), and of the
natural numbers with some property one is least (`LeastNatural`). So each induction here
supposes a counterexample, picks a least one, and refutes it with a smaller one. On that rest:

* a fold over a set takes its elements in some order; a run of the fold exists
  (`FoldExists`) and ends in one result (`FoldUnique`), so `SumFunctionOnSet`, which
  the community modules define by a choice, can be computed: `SumTakeOut` takes any element out.
* `SumAtMost`, `SumOfEqual`, `SumWithoutZeros`, `SumsNear` (sums of numbers that are
  near are near), `SumByValue` (a sum is that of each value times how often it occurs) and
  `Divided` (what `\div` returns).

**OneProcessProofs** — assumptions `CaseAssumption`, `RequestAssumption`, `WorldAssumption`,
`JobReportAssumption` (ids and scores are numbers, directories have places among their
siblings, a job has a task and an attempt): any cases, requests, directories and jobs.

* `EvaluatorTypeCorrect`, `ReportsOfCases` (`ReportAgrees`), `StartsAreClosed`
  (`EveryStartClosed`): `EvaluatorInv`. `Underway` says that the results are of a first part of the
  ordered cases and all but the last of them passed if the evaluation is to stop at a failure;
  `Logged` at which place of the recorder the two events of each result are, from which
  the telemetry in the report is cut out; `Closed` counts starts and ends.
  `ReportAgrees` is not inductive: it speaks only of evaluations that have ended, and
  says nothing of the parts that `Finish` then puts together. That the sorted cases are all of
  them, and once each, is `EnumerationExists` with `AscendingOrder`.
* `GlobMatchesLanguage`: `GlobMatches` is recursive on two positions. A function is
  a solution of its equations if it says of each pair of suffixes whether one fits the
  other (`FitsByPiece`), and the equations have one solution (`SolutionUnique`, by the
  pair with the least rest where two would differ).
* `SelectionTypeCorrect`, `RunsAsAsked` (`SelectionAsAsked`): `SelectionInv`. `Resolved` says that
  nothing is resolved before the sources were looked at; `NothingLost` that while the directories
  of a local dataset are loaded one by one each valid child is among the loaded or the
  pending ones, in the order of places, the loaded before the pending. The filter and the
  limit then keep that order (`RetainOrder`, `Prefix`).
* `JobReportTypeCorrect`: `JobReportInv`, that what is written is what the outcomes of all
  trials make (`FullReport`).
* `AveragesOfReports` (`AveragesAgree`): the mean of a score is the sum by value that
  `reward_stats` lists (`MeanIsListed`); a displayed number is off by half of `Resolution` at
  most (`Rounded`), the sum of displayed rewards then by half of it for each trial
  (`SumsNear`), and the display of their mean by another half, which gives the one unit.
* `PassAtKOfReports` (`PassAtKUnbiased`): `Falling(n, k)` is the number of draws of k from n,
  times a number that depends on k alone (`FallingCountsDraws`): a set of draws splits into those with one trial and those
  without it, and `Falling` follows the same rule (`FallingPascal`). The draws without a
  success are those from the failures, so the product is the share (`EstimateIsShare`),
  the case of fewer than k failures included. An eligible k is at most the least number of scored
  trials of a task (`EnoughTrials`), so no share is a fraction of nothing, and a sum of
  equal fractions is equal (`FractionRunsEqual`), in whatever order the tasks come.

### Only model-checked

Liveness and fairness (`JobEnds`, `OthersServed`, `EveryoneServed`, `ResolutionEnds`, `CallersEnd`, and the
liveness of `JobSpec`, which `ImplementsJobSpec` includes): temporal properties that rest on fairness, and so on
ENABLED, are outside of the prover's reach. Every other property of a passing run is
stated by a theorem. `JobSpec` is used in one more way: `PoolImplementsJob` proves the safety part
of that refinement.

## 5. Disagreements between code and text

Each is a run that violates one property that a text promises.

1. `trial_names_collide`: `landing/src/pages/docs/sandboxing.md` promises one container per trial,
   isolated from other trials; `sanitize_name` (`main.rs:1810`) is not injective
   and equal names are not rejected, so two trials of a job can share directory,
   workspace and container name.
2. `sweep_without_ps`: the sweep is for containers whose process is gone;
   `process_is_alive` takes a `ps` that cannot be run for a dead process.
3. `multi_step_final`: `final` is said to use the last step's reward; it uses
   that of the last step that ran, and a gate on another score can make an
   earlier step the last.
4. `report_not_json`: `rewards` is said to be a JSON object; `nan` and `inf` in
   `reward.txt` are numbers to `parse::<f64>` (`main.rs:1721`) and are printed as they
   are, outside quotes.

## 6. What is not modelled

* **The command runner below the Docker phases**: the modules of the Docker backend
  take a command as one step with four ends. A composition with `CommandRunner` was left
  out: it multiplies the states of every phase, and the only thing it could add
  there, a reader that never ends, needs a child of the `docker` client.
* **Schedule weights and CPU shares**: a sort by a number and a clamped
  quotient, without state.
* **Windows**, where the installer is not supported, and the unsafe-local backend
  needs a `bash`.
* **Queries to the package registry, command line, scaffolding, `view`, output,
  logging, `upgrade --check`**: pure input and output without a state that other
  parts depend on.
* **`toml_doc.rs` and `error.rs`**: a parser, and a type of errors with their exit
  codes; the kinds of errors are the ends of the actions.
* **`exception_stats`** and the tails of outputs in the report: text.
* **Contents**: names of files, JSON layout, messages. Where a message decides
  something (retry patterns, transient failures) the choice is nondeterministic or
  a parameter.

## 7. Plan

Done, in this order: `JobSpec` and `TrialPool` with proofs and refinement,
`ImageCache`, `TrialSandbox`, `MultiStep` and `PackageCache` with proofs,
`Evaluator`; then `CommandRunner` with `LocalTrial` and `Healthcheck`, `GitCheckout` and
`UpdateCheck`, all with proofs, and `Selection` and `JobReport`; then the proofs that were
left for distinct names, for the mean, and for what one process works out on its own, with the lemmas
on finite data they rest on.

What would come next:

1. The pool over the image cache: `run_trial_once` in `TrialPool` replaced by the
   steps of `ImageCache`, to check that one condition variable for all keys
   never stalls the pool, and to prove that the invariants of both survive.
2. An abstract cache, of which `PackageCache` with a lock, or with a rename that
   never replaces, would be a refinement without the exception for contention.
3. What no property covers: scores above 1.0 in a mean (`sandbox.rs:972`), which needs a
   statement of what such a score should do; two rows of a dataset with one package and digest
   (`registry.rs:530`), which `ListAssumption` excludes; an upgrade that calls itself complete
   although its installer could not be fetched (`upgrade.rs:191`), which `NoInstaller` models
   and nothing in the code prevents; a moving revision that is never fetched again
   (`registry.rs:743`).
