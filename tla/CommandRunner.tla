---------------------------- MODULE CommandRunner ----------------------------
(***************************************************************************)
(* run_command_with_timeout (src/sandbox.rs): a child process, a loop that *)
(* polls it and looks at the clock, and two threads that read its pipes.   *)
(*                                                                         *)
(* The child may start processes that inherit its pipes and outlive it:    *)
(* only the child itself is killed at the timeout, and a reader thread     *)
(* ends when nobody holds the other end of its pipe.  Commands are run one *)
(* after the other; a caller takes the result in "done" or "error" and     *)
(* the runner is "idle" again.                                             *)
(***************************************************************************)
EXTENDS FiniteSets

VARIABLES
  runner,     \* where run_command_with_timeout is
  now,        \* the command it was last called with
  child,      \* the child process of that command, or its status
  late,       \* the command's timeout has passed
  timedOut,   \* timed_out
  reader,     \* the two reader threads
  strays      \* processes other than the child: their command, the pipes they hold

runnerVars == <<runner, now, child, late, timedOut, reader, strays>>

Stream == {"out", "err"}
Status == {"zero", "nonzero"}      \* a death by a signal is no success
Stray(Command) == [of : Command, pipes : SUBSET Stream]

RunnerOK(Command) ==
  /\ runner \in {"idle", "poll", "clock", "kill", "joinOut", "joinErr", "done", "error"}
  /\ now \in Command
  /\ child \in Status \cup {"running"}
  /\ late \in BOOLEAN /\ timedOut \in BOOLEAN
  /\ reader \in [Stream -> {"reading", "eof", "failed"}]
  /\ strays \subseteq Stray(Command)

RunnerInit(command) ==
  /\ runner = "idle"
  /\ now = command
  /\ child = "zero"
  /\ late = FALSE /\ timedOut = FALSE
  /\ reader = [s \in Stream |-> "eof"]
  /\ strays = {}

-----------------------------------------------------------------------------
(* The thread that called run_command_with_timeout.                        *)
Spawn(command) ==
  /\ runner = "idle"
  /\ now' = command
  /\ late' = FALSE /\ timedOut' = FALSE
  /\ \/ /\ runner' = "poll"
        /\ child' = "running"
        /\ reader' = [s \in Stream |-> "reading"]
     \/ /\ runner' = "error"
        /\ UNCHANGED <<child, reader>>
  /\ UNCHANGED strays

Goto(label) == runner' = label /\ UNCHANGED <<now, late, reader, strays>>

(* try_wait, whose error leaves the child to itself.                       *)
TryWait ==
  /\ runner = "poll"
  /\ \/ Goto(IF child = "running" THEN "clock" ELSE "joinOut")
     \/ Goto("error")
  /\ UNCHANGED <<child, timedOut>>

(* Mutated form of LookAtClock: the elapsed time is never compared.        *)
LookAtClockOnly ==
  /\ runner = "clock"
  /\ Goto("poll") /\ UNCHANGED timedOut
  /\ UNCHANGED child

(* The child may have ended since it was polled: it is timed out then too. *)
LookAtClock ==
  /\ runner = "clock"
  /\ IF late THEN Goto("kill") /\ timedOut' = TRUE ELSE Goto("poll") /\ UNCHANGED timedOut
  /\ UNCHANGED child

(* kill and wait: the child alone gets the signal.                         *)
Kill ==
  /\ runner = "kill"
  /\ Goto("joinOut") \/ Goto("error")
  /\ child' = IF child = "running" THEN "nonzero" ELSE child
  /\ UNCHANGED timedOut

(* join_stream_reader, stdout before stderr; it waits as long as it takes. *)
Join(at, s, then) ==
  /\ runner = at
  /\ reader[s] # "reading"
  /\ Goto(IF reader[s] = "eof" THEN then ELSE "error")
  /\ UNCHANGED <<child, timedOut>>

(* Mutated form of JoinErr: the reader of stderr is not waited for.        *)
JoinErrLeftOut ==
  /\ runner = "joinErr"
  /\ Goto("done")
  /\ UNCHANGED <<child, timedOut>>

JoinOut == Join("joinOut", "out", "joinErr")
JoinErr == Join("joinErr", "err", "done")

CallerStep == TryWait \/ LookAtClock \/ Kill \/ JoinOut \/ JoinErr

-----------------------------------------------------------------------------
(* The processes that hold the pipe s of the last command.                 *)
HeldOpen(s) == child = "running" \/ \E x \in strays : x.of = now /\ s \in x.pipes

(* read_stream: to the end of the pipe, or to an error.                    *)
Read(s) ==
  /\ reader[s] = "reading"
  /\ \/ ~HeldOpen(s) /\ reader' = [reader EXCEPT ![s] = "eof"]
     \/ reader' = [reader EXCEPT ![s] = "failed"]
  /\ UNCHANGED <<runner, now, child, late, timedOut, strays>>

(* The operating system: bash and what it runs, and the clock.             *)
ChildExits ==
  /\ child = "running"
  /\ child' \in Status
  /\ UNCHANGED <<runner, now, late, timedOut, reader, strays>>

(* A process that may outlive the child, with the pipes or without (a      *)
(* foreground command of the script, `... &`, a daemon).  Bound: one at a  *)
(* time for each command.                                                  *)
ChildForks ==
  /\ child = "running"
  /\ \A x \in strays : x.of # now
  /\ \E pipes \in SUBSET Stream : strays' = strays \cup {[of |-> now, pipes |-> pipes]}
  /\ UNCHANGED <<runner, now, child, late, timedOut, reader>>

StrayEnds ==
  /\ \E x \in strays : strays' = strays \ {x}
  /\ UNCHANGED <<runner, now, child, late, timedOut, reader>>

TimePasses ==
  /\ runner \in {"poll", "clock"} /\ ~late
  /\ late' = TRUE
  /\ UNCHANGED <<runner, now, child, timedOut, reader, strays>>

WorldStep == ChildExits \/ ChildForks \/ StrayEnds \/ TimePasses

RunnerStep == CallerStep \/ (\E s \in Stream : Read(s)) \/ WorldStep

(* The reader threads run and time passes; nothing makes a process end.    *)
(* (The caller is one thread with what it does between its commands.)      *)
RunnerFairness ==
  /\ \A s \in Stream : WF_runnerVars(Read(s))
  /\ WF_runnerVars(TimePasses)

(* Some process keeps a pipe of the command open after its child is gone.  *)
Held == child # "running" /\ \E s \in Stream : HeldOpen(s)

=============================================================================
