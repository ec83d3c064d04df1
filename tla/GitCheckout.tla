----------------------------- MODULE GitCheckout -----------------------------
(***************************************************************************)
(* The checkout of a task's git source (src/registry.rs:                   *)
(* resolve_git_task_path, ensure_git_checkout, run_git).                   *)
(*                                                                         *)
(* Several processes share one directory, named after the source and the   *)
(* revision, and there is no lock.  A process that finds no .git in it     *)
(* clears it and clones; one that finds a .git takes it for a clone.  Both *)
(* then check out the revision.  The source gets new commits meanwhile,    *)
(* and a clone that is there is never fetched again.  What git does is     *)
(* external: a clone makes its .git first and its files last, and one that *)
(* fails removes what it has made.                                         *)
(***************************************************************************)
EXTENDS Naturals

CONSTANTS
  Process,    \* the processes that resolve the source
  MaxTip      \* bound: how many commits the source gets

ASSUME TipAssumption == MaxTip \in Nat \ {0}

VARIABLES
  tip,        \* the source's newest commit
  wanted,     \* the revision asked for: the one the directory is named after
  at,         \* where each process is
  dir,        \* what there is in the checkout directory
  files,      \* the commit of its files, when they are of one
  cloned,     \* the source's newest commit when `git clone` last read it
  cloner,     \* the process whose `git clone` last made the directory
  disturbed   \* history: a process was in the directory while another filled
              \* it, or died while it did

gitVars == <<tip, wanted, at, dir, files, cloned, cloner, disturbed>>

(* The commits, oldest first, and a name that moves: a branch, or the HEAD *)
(* that stands for a git_commit_id that was left out.                      *)
Commit == 1..MaxTip
Moving == 0

(* absent; a rest without .git; a clone under way or cut off; the files of *)
(* one commit; the files of two.                                           *)
Dir == {"absent", "rest", "part", "whole", "mixed"}
HasGit == dir \in {"part", "whole", "mixed"}

(* What the revision is in the clone, and whether the clone has it.        *)
Asked == IF wanted = Moving THEN cloned ELSE wanted
Knows == wanted <= cloned

Making == {"exists", "remove", "clone", "cloning"}
Inside == Making \cup {"checkout", "given"}

GitTypeOK ==
  /\ tip \in Commit
  /\ wanted \in Commit \cup {Moving}
  /\ files \in Commit \cup {0}
  /\ cloned \in Commit \cup {0}
  /\ at \in [Process -> Inside \cup {"idle", "failed", "dead"}]
  /\ dir \in Dir
  /\ cloner \in Process
  /\ disturbed \in BOOLEAN

GitInit ==
  /\ tip = 1
  /\ wanted \in Commit \cup {Moving}
  /\ files = 0
  /\ cloned = 0
  /\ at = [p \in Process |-> "idle"]
  /\ dir = "absent"
  /\ cloner \in Process
  /\ disturbed = FALSE

-----------------------------------------------------------------------------
Contested(where) ==
  \E p, q \in Process : p # q /\ where[p] \in Making /\ where[q] \in Inside

GitGo(p, label) ==
  /\ at' = [at EXCEPT ![p] = label]
  /\ disturbed' = (disturbed \/ Contested(at'))
  /\ UNCHANGED <<tip, wanted>>

(* Mutated form of LookForGit: a hit is not checked out.                   *)
LookForGitTrusting(p) ==
  /\ at[p] \in {"idle", "given"}
  /\ GitGo(p, IF HasGit THEN "given" ELSE "exists")
  /\ UNCHANGED <<dir, files, cloned, cloner>>

(* `.git` is a directory.  A process asks once for each task of the source.*)
LookForGit(p) ==
  /\ at[p] \in {"idle", "given"}
  /\ GitGo(p, IF HasGit THEN "checkout" ELSE "exists")
  /\ UNCHANGED <<dir, files, cloned, cloner>>

(* checkout_dir.exists(), a second look.                                   *)
LookForDir(p) ==
  /\ at[p] = "exists"
  /\ GitGo(p, IF dir = "absent" THEN "clone" ELSE "remove")
  /\ UNCHANGED <<dir, files, cloned, cloner>>

(* remove_dir_all, which may fail half way.                                *)
RemoveDir(p) ==
  /\ at[p] = "remove"
  /\ \/ dir' = "absent" /\ GitGo(p, "clone")
     \/ dir' \in {dir, "rest"} /\ GitGo(p, "failed")
  /\ UNCHANGED <<files, cloned, cloner>>

(* create_dir_all of the parent and `git clone`, which wants no directory  *)
(* there, or an empty one.  It reads the source's names at once.           *)
StartClone(p) ==
  /\ at[p] = "clone"
  /\ \/ /\ dir = "absent"
        /\ dir' = "part"
        /\ cloned' = tip
        /\ cloner' = p
        /\ GitGo(p, "cloning")
     \/ UNCHANGED <<dir, cloned, cloner>> /\ GitGo(p, "failed")
  /\ UNCHANGED files

(* A clone whose directory another process took away fails, and may clear  *)
(* what is there by now.                                                   *)
FinishClone(p) ==
  /\ at[p] = "cloning"
  /\ \/ cloner = p /\ dir = "part" /\ dir' = "whole" /\ files' = cloned /\ GitGo(p, "checkout")
     \/ /\ IF cloner = p /\ dir = "part" THEN dir' = "absent" ELSE dir' \in {dir, "absent"}
        /\ UNCHANGED files
        /\ GitGo(p, "failed")
  /\ UNCHANGED <<cloned, cloner>>

(* `git checkout <revision>`, without a fetch: a commit the source got     *)
(* after the clone is not there, and a name is where it was then.  Of a    *)
(* clone cut off while its files were written it may succeed and leave     *)
(* them as they are.                                                       *)
Checkout(p) ==
  /\ at[p] = "checkout"
  /\ \/ /\ dir \in {"whole", "mixed"}
        /\ Knows
        /\ dir' = "whole"
        /\ files' = Asked
        /\ GitGo(p, "given")
     \/ dir = "part" /\ UNCHANGED <<dir, files>> /\ GitGo(p, "given")
     \/ UNCHANGED <<dir, files>> /\ GitGo(p, "failed")
  /\ UNCHANGED <<cloned, cloner>>

(* The process is killed, and git with it.                                 *)
Killed(p) ==
  /\ at[p] \in Inside
  /\ at' = [at EXCEPT ![p] = "dead"]
  /\ disturbed' = (disturbed \/ at[p] = "cloning")
  /\ dir' \in CASE at[p] = "remove" -> {dir, "rest", "absent"}
                [] at[p] = "cloning" -> {dir, "absent"}
                [] at[p] = "checkout" /\ dir = "whole" /\ Knows /\ files # Asked ->
                     {"whole", "mixed"}
                [] OTHER -> {dir}
  /\ UNCHANGED <<tip, wanted, files, cloned, cloner>>

(* The source gets a commit, and its names move to it.                     *)
Push ==
  /\ tip < MaxTip
  /\ tip' = tip + 1
  /\ UNCHANGED <<wanted, at, dir, files, cloned, cloner, disturbed>>

GitNext ==
  \/ Push
  \/ \E p \in Process :
       \/ LookForGit(p) \/ LookForDir(p) \/ RemoveDir(p) \/ StartClone(p) \/ FinishClone(p)
       \/ Checkout(p) \/ Killed(p)

GitSpec == GitInit /\ [][GitNext]_gitVars

-----------------------------------------------------------------------------
(* A process that was given the checkout finds in it the files of the      *)
(* commit it asked for, however earlier processes failed or died in their  *)
(* removals and checkouts and whatever the source got since the clone, as  *)
(* long as none died in a clone and none was there while another filled    *)
(* the directory.  Who asked for a name that moves finds what the source   *)
(* had when the directory was cloned, be it by an earlier process, and not *)
(* what it has now: the code never fetches.                                *)
CheckoutAsAsked ==
  \A p \in Process : at[p] = "given" /\ ~disturbed => dir = "whole" /\ files = Asked

=============================================================================
