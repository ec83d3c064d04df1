----------------------------- MODULE Healthcheck -----------------------------
(***************************************************************************)
(* A healthcheck in a running container (src/sandbox.rs: parse_healthcheck,*)
(* run_healthcheck): checks are run until one succeeds in time or enough   *)
(* of them have failed; those that began in the start period do not count. *)
(* The client of `docker exec` has no children; a check that timed out     *)
(* goes on in the container, which nothing here depends on.                *)
(***************************************************************************)
EXTENDS Naturals, CommandRunner

CONSTANTS
  Configured,   \* the integers at `retries` in task.toml
  Absent,       \* there is no such key
  Check,        \* the command of a check
  U32           \* 2^32, or a smaller modulus in its place

ASSUME HealthcheckAssumption ==
  /\ Configured \subseteq Nat
  /\ Absent \notin Configured
  /\ U32 \in Nat /\ U32 > 3

VARIABLES
  retries,    \* what task.toml says
  starting,   \* the clock: the start period is not over
  pcHealth,   \* where run_healthcheck is
  inStart,    \* in_start_period
  failures,   \* consecutive_failures
  counted     \* history: the failed checks that began after the start period

healthVars == <<retries, starting, pcHealth, inStart, failures, counted>>
healthcheckVars == <<runnerVars, healthVars>>

(* parse_healthcheck: `as u32` drops the high bits.                        *)
Default == 3
Parsed == IF retries = Absent THEN Default ELSE retries % U32
Accepted == {n \in Configured : n > 0} \cup {Absent}

HealthcheckTypeOK ==
  /\ RunnerOK({Check})
  /\ retries \in Accepted
  /\ starting \in BOOLEAN /\ inStart \in BOOLEAN
  /\ pcHealth \in {"begin", "checking", "pause", "healthy", "unhealthy", "error"}
  /\ failures \in Nat /\ counted \in Nat

HealthcheckInit ==
  /\ RunnerInit(Check)
  /\ retries \in Accepted
  /\ starting \in BOOLEAN
  /\ pcHealth = "begin"
  /\ inStart = FALSE
  /\ failures = 0 /\ counted = 0

-----------------------------------------------------------------------------
Begin ==
  /\ pcHealth = "begin"
  /\ Spawn(Check)
  /\ inStart' = starting
  /\ pcHealth' = "checking"
  /\ UNCHANGED <<retries, starting, failures, counted>>

Returns ==
  /\ pcHealth = "checking" /\ runner = "done"
  /\ runner' = "idle"
  /\ UNCHANGED <<now, child, late, timedOut, reader, strays, retries, starting, inStart>>

Succeeds ==
  /\ Returns
  /\ ~timedOut /\ child = "zero"
  /\ pcHealth' = "healthy"
  /\ UNCHANGED <<failures, counted>>

(* Mutated form of CheckFails: what counts is the period in which it ends. *)
CheckFailsByEnd ==
  /\ Returns
  /\ timedOut \/ child # "zero"
  /\ failures' = IF starting THEN failures ELSE failures + 1
  /\ counted' = IF inStart THEN counted ELSE counted + 1
  /\ pcHealth' = IF ~starting /\ failures' >= Parsed THEN "unhealthy" ELSE "pause"

CheckFails ==
  /\ Returns
  /\ timedOut \/ child # "zero"
  /\ failures' = IF inStart THEN failures ELSE failures + 1
  /\ counted' = IF inStart THEN counted ELSE counted + 1
  /\ pcHealth' = IF ~inStart /\ failures' >= Parsed THEN "unhealthy" ELSE "pause"

CheckError ==
  /\ pcHealth = "checking" /\ runner = "error"
  /\ pcHealth' = "error"
  /\ UNCHANGED <<runnerVars, retries, starting, inStart, failures, counted>>

(* The sleep of start_interval or interval.                                *)
Pause ==
  /\ pcHealth = "pause"
  /\ pcHealth' = "begin"
  /\ UNCHANGED <<runnerVars, retries, starting, inStart, failures, counted>>

StartPeriodEnds ==
  /\ starting /\ starting' = FALSE
  /\ UNCHANGED <<runnerVars, retries, pcHealth, inStart, failures, counted>>

HealthStep == Begin \/ Succeeds \/ CheckFails \/ CheckError \/ Pause

HealthcheckNext ==
  \/ HealthStep
  \/ StartPeriodEnds
  \/ RunnerStep /\ UNCHANGED <<strays, healthVars>>

HealthcheckSpec == HealthcheckInit /\ [][HealthcheckNext]_healthcheckVars
HealthFairness ==
  /\ WF_healthcheckVars(HealthStep \/ (CallerStep /\ UNCHANGED healthVars))
  /\ WF_healthcheckVars(StartPeriodEnds)
HealthcheckFairSpec == HealthcheckSpec /\ HealthFairness /\ RunnerFairness

-----------------------------------------------------------------------------
(* A healthcheck gives up after exactly as many failed checks as task.toml *)
(* allows, those that began in the start period not counted, even if they  *)
(* ended after it.  A number that does not fit u32 is outside this.        *)
HealthcheckBudget ==
  pcHealth = "unhealthy" /\ (retries = Absent \/ retries < U32) =>
    counted = IF retries = Absent THEN Default ELSE retries

(* A healthcheck ends: with success, or when the failures are used up.     *)
HealthcheckEnds == <>(pcHealth \in {"healthy", "unhealthy", "error"})

=============================================================================
