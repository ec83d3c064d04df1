----------------------------- MODULE UpdateCheck -----------------------------
(***************************************************************************)
(* The update notice and `seaport upgrade` (src/upgrade.rs; src/main.rs:   *)
(* run; install.sh).                                                       *)
(*                                                                         *)
(* A command reads the cached latest version, may print a notice, and      *)
(* starts a detached process that fetches the version anew if the cache is *)
(* a day old.  `upgrade` fetches it too, starts the installer, which looks *)
(* the version up once more, and writes the cache.  The processes share    *)
(* the cache file, which is truncated and then written, and the installed  *)
(* binary, which is replaced by a rename.                                  *)
(***************************************************************************)
EXTENDS Naturals, Sequences, FiniteSetsExt

CONSTANTS
  Release,      \* the versions published, in order: sequences of numbers
  Own,          \* the versions that may be installed at first
  User,         \* the commands a user gives, each once
  Interval,     \* CHECK_INTERVAL_SECS
  MaxClock,     \* bound: the clock
  Unknown       \* no version

ASSUME UpdateAssumption ==
  /\ Release \in Seq(Seq(Nat)) /\ Release # << >>
  /\ Own \subseteq {Release[i] : i \in DOMAIN Release}
  /\ {Interval, MaxClock} \subseteq Nat
  /\ Unknown \notin {Release[i] : i \in DOMAIN Release}

VARIABLES
  installed,  \* the version of the installed binary
  published,  \* how many releases there are
  clock,
  file,       \* what read_cache finds: {} if nothing that can be read
  does,       \* what each user command is
  stage,      \* where each upgrade is
  own,        \* the version each was started with
  found,      \* the version each upgrade fetched
  resolved,   \* the version each upgrade's installer downloads
  writers,    \* the processes on their way to a write_cache
  shown,      \* the commands that printed a notice
  known,      \* history: the version last written
  blurred,    \* history: a fetch or a write failed, two writers were at work at
              \* once, or a version was asked for by name
  overtaken   \* history: the upgrades during whose download another one moved
              \* its binary into place

upgradeVars == <<stage, found, resolved, overtaken>>
noticeVars == <<file, writers, known, blurred>>
updateVars == <<installed, published, clock, does, own, shown, upgradeVars, noticeVars>>

Version == {Release[i] : i \in DOMAIN Release}
Latest == Release[published]

UpdateTypeOK ==
  /\ installed \in Version
  /\ published \in DOMAIN Release
  /\ clock \in Nat
  /\ file \subseteq [at : Nat, latest : Version \cup {Unknown}]
  /\ does \in [User -> {"none", "command", "upgrade", "force", "pinned"}]
  /\ stage \in [User -> {"none", "fetch", "decide", "move", "record", "over"}]
  /\ own \in [User -> Version]
  /\ found \in [User -> Version \cup {Unknown}]
  /\ resolved \in [User -> Version \cup {Unknown}]
  /\ writers \subseteq [by : User, at : Nat, latest : Version \cup {Unknown},
                       step : {"fetch", "open", "write"}]
  /\ shown \subseteq User
  /\ known \in Version \cup {Unknown}
  /\ blurred \in BOOLEAN
  /\ overtaken \subseteq User

UpdateInit ==
  /\ installed \in Own
  /\ published = 1
  /\ clock = 0
  /\ file = {}
  /\ does = [u \in User |-> "none"]
  /\ stage = [u \in User |-> "none"]
  /\ own = [u \in User |-> installed]
  /\ found = [u \in User |-> Unknown]
  /\ resolved = [u \in User |-> Unknown]
  /\ writers = {}
  /\ shown = {}
  /\ known = Unknown
  /\ blurred = FALSE
  /\ overtaken = {}

-----------------------------------------------------------------------------
(* version_components: absent components count as 0.                       *)
Component(version, i) == IF i \in DOMAIN version THEN version[i] ELSE 0
Components(v, w) == 1 .. Max({Len(v), Len(w)})

(* Mutated form of IsNewer: some component is greater.                     *)
IsNewerSomewhere(candidate, current) ==
  \E i \in Components(candidate, current) : Component(candidate, i) > Component(current, i)

(* is_newer: the first component that differs decides.                     *)
IsNewer(candidate, current) ==
  LET differ == {i \in Components(candidate, current) : Component(candidate, i) # Component(current, i)}
  IN  differ # {} /\ Component(candidate, Min(differ)) > Component(current, Min(differ))

Fresh == \E cache \in file : clock - cache.at < Interval

(* A process will write the cache; if another is at it, which is last is   *)
(* open, and so is what a reader finds.                                    *)
Writer(u, latest, step) == [by |-> u, at |-> clock, latest |-> latest, step |-> step]
AddWriter(w) == writers' = writers \cup {w} /\ blurred' = (blurred \/ writers # {})
Becomes(w, latest, step) == (writers \ {w}) \cup {[w EXCEPT !.latest = latest, !.step = step]}

(* notify_if_outdated, on an interactive terminal.                         *)
Command(u) ==
  /\ does[u] = "none"
  /\ does' = [does EXCEPT ![u] = "command"]
  /\ shown' = IF \E cache \in file : cache.latest # Unknown /\ IsNewer(cache.latest, installed)
                THEN shown \cup {u} ELSE shown
  /\ IF Fresh THEN UNCHANGED <<writers, blurred>> ELSE AddWriter(Writer(u, Unknown, "fetch"))
  /\ UNCHANGED <<installed, published, clock, file, own, known>>
  /\ UNCHANGED upgradeVars

(* fetch_latest_version, best effort.                                      *)
Fetched == {Latest, Unknown}

(* refresh_cache.                                                          *)
Refresh(w) ==
  /\ w.step = "fetch"
  /\ \E latest \in Fetched :
       /\ writers' = Becomes(w, latest, "open")
       /\ blurred' = (blurred \/ latest = Unknown)
  /\ UNCHANGED <<installed, published, clock, file, does, own, shown, known>>
  /\ UNCHANGED upgradeVars

(* write_cache: fs::write truncates the file and then writes it.  An error *)
(* is ignored.                                                             *)
OpenCache(w) ==
  /\ w.step = "open"
  /\ \/ file' = {} /\ writers' = Becomes(w, w.latest, "write") /\ UNCHANGED blurred
     \/ UNCHANGED file /\ writers' = writers \ {w} /\ blurred' = TRUE
  /\ UNCHANGED <<installed, published, clock, does, own, shown, known>>
  /\ UNCHANGED upgradeVars

WriteCache(w) ==
  /\ w.step = "write"
  /\ \/ file' = {[at |-> w.at, latest |-> w.latest]} /\ known' = w.latest /\ UNCHANGED blurred
     \/ blurred' = TRUE /\ UNCHANGED <<file, known>>
  /\ writers' = writers \ {w}
  /\ UNCHANGED <<installed, published, clock, does, own, shown>>
  /\ UNCHANGED upgradeVars

-----------------------------------------------------------------------------
(* upgrade::run: plain, with --force, or with --version.                   *)
Upgrade(u) ==
  /\ does[u] = "none"
  /\ \E mode \in {"upgrade", "force", "pinned"} : does' = [does EXCEPT ![u] = mode]
  /\ own' = [own EXCEPT ![u] = installed]
  /\ stage' = [stage EXCEPT ![u] = "fetch"]
  /\ UNCHANGED <<installed, published, clock, shown, found, resolved, overtaken>>
  /\ UNCHANGED noticeVars

(* Its steps from there on.                                                *)
UpgradeGo(u, from, to) ==
  /\ stage[u] = from
  /\ stage' = [stage EXCEPT ![u] = to]
  /\ UNCHANGED <<published, clock, does, own, shown>>

(* It ends, and what it knew with it.                                      *)
UpgradeEnds(u, from) ==
  /\ UpgradeGo(u, from, "over")
  /\ found' = [found EXCEPT ![u] = Unknown]
  /\ resolved' = [resolved EXCEPT ![u] = Unknown]
  /\ overtaken' = overtaken \ {u}

FetchLatest(u) ==
  /\ UpgradeGo(u, "fetch", "decide")
  /\ \E latest \in Fetched : found' = [found EXCEPT ![u] = latest]
  /\ UNCHANGED <<installed, resolved, overtaken>>
  /\ UNCHANGED noticeVars

(* Mutated form of UpToDate: an equal version only.                        *)
UpToDateIfEqual(u) == does[u] = "upgrade" /\ found[u] = own[u]

(* up_to_date, without --force: nothing is installed then.                 *)
UpToDate(u) ==
  does[u] = "upgrade" /\ found[u] # Unknown /\ ~IsNewer(found[u], own[u])

NothingToDo(u) ==
  /\ UpgradeEnds(u, "decide") /\ UpToDate(u)
  /\ UNCHANGED installed
  /\ UNCHANGED noticeVars

(* The installer's version: the one asked for, or the latest at this time. *)
Installable(u) ==
  IF does[u] = "pinned" THEN {Release[i] : i \in 1 .. published} ELSE {Latest}

ResolveVersion(u) ==
  /\ UpgradeGo(u, "decide", "move") /\ ~UpToDate(u)
  /\ \E version \in Installable(u) : resolved' = [resolved EXCEPT ![u] = version]
  /\ UNCHANGED <<installed, found, overtaken>>
  /\ UNCHANGED noticeVars

(* `curl ... | bash` without pipefail: if the script cannot be fetched,    *)
(* bash reads nothing and succeeds.                                        *)
NoInstaller(u) ==
  /\ UpgradeGo(u, "decide", "record") /\ ~UpToDate(u)
  /\ UNCHANGED <<installed, found, resolved, overtaken>>
  /\ UNCHANGED noticeVars

(* Download, check and unpack that version and `mv -f` it into place.      *)
InstallBinary(u) ==
  /\ UpgradeGo(u, "move", "record")
  /\ installed' = resolved[u]
  /\ overtaken' = overtaken \cup {x \in User \ {u} : stage[x] = "move"}
  /\ UNCHANGED <<found, resolved>>
  /\ UNCHANGED noticeVars

(* A step of the installer fails: no version, no download, no rename, or   *)
(* no shell configuration after the rename.                                *)
InstallerFails(u) ==
  /\ \E from \in {"decide", "move", "record"} : UpgradeEnds(u, from)
  /\ ~UpToDate(u)
  /\ stage[u] = "record" => resolved[u] # Unknown
  /\ UNCHANGED installed
  /\ UNCHANGED noticeVars

(* "Record success": the write of the cache, which waits for nobody.       *)
RecordUpgrade(u) ==
  /\ UpgradeEnds(u, "record")
  /\ \E asked \in Version :
       /\ resolved[u] # Unknown => asked = resolved[u]
       /\ writers' = writers \cup
            {Writer(u, IF does[u] = "pinned" THEN asked ELSE found[u], "open")}
  /\ blurred' = (blurred \/ writers # {} \/ does[u] = "pinned" \/ found[u] = Unknown)
  /\ UNCHANGED <<installed, file, known>>

Publish ==
  /\ published < Len(Release) /\ published' = published + 1
  /\ UNCHANGED <<installed, clock, does, own, shown>> /\ UNCHANGED <<upgradeVars, noticeVars>>

Tick ==
  /\ clock < MaxClock /\ clock' = clock + 1
  /\ UNCHANGED <<installed, published, does, own, shown>> /\ UNCHANGED <<upgradeVars, noticeVars>>

UpgradeGoesOn(u) ==
  \/ FetchLatest(u) \/ NothingToDo(u) \/ ResolveVersion(u) \/ NoInstaller(u)
  \/ InstallBinary(u) \/ InstallerFails(u) \/ RecordUpgrade(u)

UpdateNext ==
  \/ \E u \in User : Command(u) \/ Upgrade(u) \/ UpgradeGoesOn(u)
  \/ \E w \in writers : Refresh(w) \/ OpenCache(w) \/ WriteCache(w)
  \/ Publish \/ Tick

UpdateSpec == UpdateInit /\ [][UpdateNext]_updateVars

-----------------------------------------------------------------------------
(* Which release a version is, in the order they were published.           *)
Place(version) == CHOOSE i \in DOMAIN Release : Release[i] = version
Later(v, w) == v # Unknown /\ Place(v) > Place(w)

(* A command prints the notice exactly if the last check that came to an   *)
(* end found a release published after the installed one; a check that     *)
(* failed, two at once and one that is under way leave it open.            *)
NoticeAsKnown ==
  [][\A u \in User :
       does[u] = "none" /\ does'[u] = "command" /\ ~blurred /\ writers = {} =>
         (u \in shown' <=> Later(known, installed))]_updateVars

(* `seaport upgrade` that knows the latest release replaces the binary     *)
(* only by a later release than the one that runs, by none before the one  *)
(* it has printed as the latest, and by a later one than is installed by   *)
(* then, unless another upgrade moved its binary into place while this one *)
(* was downloading: then it may put the earlier release over the later.    *)
UpgradeNeverDowngrades ==
  [][\A u \in User :
       stage[u] = "move" /\ stage'[u] = "record" /\ installed' # installed
         /\ does[u] = "upgrade" /\ found[u] # Unknown =>
         /\ Later(installed', own[u])
         /\ Place(installed') >= Place(found[u])
         /\ u \in overtaken \/ Later(installed', installed)]_updateVars

=============================================================================
