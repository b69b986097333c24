------------------------------- MODULE BuildLock -------------------------------
(***************************************************************************)
(* The builds that watch-unyport.sh starts, from the watcher when the tree *)
(* has changed and from `once`: the lock directory with the pid in it,     *)
(* each a step of its own, and the fingerprint that says which tree is     *)
(* clean. The fingerprint of a tree is its version.                        *)
(*                                                                         *)
(* The state directory is taken to be there. (Where it is not, the tree    *)
(* the watcher finds counts as clean, built or not.) All shells run as one *)
(* user: a process of another one would not count as running. A shell that *)
(* is killed takes its build with it.                                      *)
(***************************************************************************)
EXTENDS Integers

CONSTANTS
  Shells,        \* the watcher, and calls of `once`
  MaxVersion     \* how often the tree changes

ASSUME BuildAssumption ==
  MaxVersion \in Nat /\ {"nobody", "stale", "other"} \cap Shells = {}

Places ==
  {"idle", "refused", "locking", "removing", "remaking", "relocking", "building", "built",
   "releasing"}

VARIABLES
  tree,          \* the version of the tree
  treeFp,        \* tree.fp
  lockDir,       \* the directory exists
  lockPid,       \* whose pid is in it: a shell that runs, or "nobody"; "stale", of a
                 \* killed one; "other", of a killed one, but another process has it now
  shellAt,       \* where each shell is
  buildOf,       \* the version each build began with
  builtTo,       \* history: the newest one that was built from its beginning on
  calmChange,    \* history: the newest one that came while nobody was building
  contended      \* history: two shells have been at the lock at a time

buildVars ==
  <<tree, treeFp, lockDir, lockPid, shellAt, buildOf, builtTo, calmChange, contended>>

BuildInit ==
  /\ tree = 0 /\ treeFp = 0
  /\ lockDir = FALSE /\ lockPid = "nobody"
  /\ shellAt = [s \in Shells |-> "idle"]
  /\ buildOf = [s \in Shells |-> 0]
  /\ builtTo = 0 /\ calmChange = 0
  /\ contended = FALSE

Building == {s \in Shells : shellAt[s] = "building" \/ shellAt[s] = "built"}

\* Between a mkdir that gets the lock, or finding it stale, and the pid.
AtTheLock == {s \in Shells : shellAt[s] \in {"locking", "removing", "remaking", "relocking"}}

Go(s, where) ==
  /\ shellAt' = [shellAt EXCEPT ![s] = where]
  /\ contended' = (contended \/ \E t \in AtTheLock' : AtTheLock' # {t})

ChangeTree ==
  /\ tree < MaxVersion
  /\ tree' = tree + 1
  /\ calmChange' = IF Building = {} THEN tree + 1 ELSE calmChange
  /\ UNCHANGED <<treeFp, lockDir, lockPid, shellAt, buildOf, builtTo, contended>>

\* The number of a killed shell comes to another process of the user, whatever it
\* is, and is free again when that ends.
PidReused ==
  /\ lockPid = "stale" /\ lockPid' = "other"
  /\ UNCHANGED <<tree, treeFp, lockDir, shellAt, buildOf, builtTo, calmChange, contended>>

PidFreed ==
  /\ lockPid = "other" /\ lockPid' = "stale"
  /\ UNCHANGED <<tree, treeFp, lockDir, shellAt, buildOf, builtTo, calmChange, contended>>

-------------------------------------------------------------------------------
(* acquire_build_lock. A failing command does not end it: it is called in  *)
(* a condition. `once` calls it at any time, and the watcher some time     *)
(* after it has found a tree that differs from its fingerprint.            *)

TryMkdir(s) ==
  /\ shellAt[s] = "idle"
  /\ lockDir' = TRUE
  /\ Go(s, IF lockDir THEN "refused" ELSE "locking")
  /\ UNCHANGED <<tree, treeFp, lockPid, buildOf, builtTo, calmChange>>

\* Mistake: the directory is taken over whoever has it.
ReadPidIgnored(s) ==
  /\ shellAt[s] = "refused"
  /\ Go(s, "removing")
  /\ UNCHANGED <<tree, treeFp, lockDir, lockPid, buildOf, builtTo, calmChange>>

\* kill -0: the lock is respected if any process has the pid, "build deja en
\* cours".
ReadPid(s) ==
  /\ shellAt[s] = "refused"
  /\ Go(s, IF lockPid \in Shells \cup {"other"} THEN "idle" ELSE "removing")
  /\ UNCHANGED <<tree, treeFp, lockDir, lockPid, buildOf, builtTo, calmChange>>

RemoveStale(s) ==
  /\ shellAt[s] = "removing"
  /\ lockDir' = FALSE /\ lockPid' = "nobody"
  /\ Go(s, "remaking")
  /\ UNCHANGED <<tree, treeFp, buildOf, builtTo, calmChange>>

MkdirAgain(s) ==
  /\ shellAt[s] = "remaking"
  /\ lockDir' = TRUE
  /\ Go(s, "relocking")
  /\ UNCHANGED <<tree, treeFp, lockPid, buildOf, builtTo, calmChange>>

\* Without a directory there is nowhere to write; only a shell that took the lock
\* over finds out.
WritePid(s) ==
  /\ shellAt[s] \in {"locking", "relocking"}
  /\ lockPid' = IF lockDir THEN s ELSE lockPid
  /\ IF shellAt[s] = "relocking" /\ ~lockDir
       THEN Go(s, "idle") /\ UNCHANGED buildOf
       ELSE Go(s, "building") /\ buildOf' = [buildOf EXCEPT ![s] = tree]
  /\ UNCHANGED <<tree, treeFp, lockDir, builtTo, calmChange>>

-------------------------------------------------------------------------------
(* build_and_sync.                                                         *)

BuildSucceeds(s) ==
  /\ shellAt[s] = "building"
  /\ Go(s, "built")
  /\ builtTo' = IF builtTo < buildOf[s] THEN buildOf[s] ELSE builtTo
  /\ UNCHANGED <<tree, treeFp, lockDir, lockPid, buildOf, calmChange>>

\* Mistake: the tree counts as clean after a build that failed.
BuildFailsClean(s) ==
  /\ shellAt[s] = "building"
  /\ Go(s, "built")
  /\ UNCHANGED <<tree, treeFp, lockDir, lockPid, buildOf, builtTo, calmChange>>

\* Mistake: a build that failed goes back to watching at once.
BuildFailsLocked(s) ==
  /\ shellAt[s] = "building"
  /\ Go(s, "idle")
  /\ UNCHANGED <<tree, treeFp, lockDir, lockPid, buildOf, builtTo, calmChange>>

BuildFails(s) ==
  /\ shellAt[s] = "building"
  /\ Go(s, "releasing")
  /\ UNCHANGED <<tree, treeFp, lockDir, lockPid, buildOf, builtTo, calmChange>>

\* mark_clean takes the fingerprint anew.
MarkClean(s) ==
  /\ shellAt[s] = "built"
  /\ treeFp' = tree
  /\ Go(s, "releasing")
  /\ UNCHANGED <<tree, lockDir, lockPid, buildOf, builtTo, calmChange>>

\* release_build_lock removes the lock, whoever has it.
Release(s) ==
  /\ shellAt[s] = "releasing"
  /\ lockDir' = FALSE /\ lockPid' = "nobody"
  /\ Go(s, "idle")
  /\ UNCHANGED <<tree, treeFp, buildOf, builtTo, calmChange>>

\* A shell is killed, and another may start: it leaves its pid in the lock.
KillShell(s) ==
  /\ Go(s, "idle")
  /\ lockPid' = IF lockPid = s THEN "stale" ELSE lockPid
  /\ UNCHANGED <<tree, treeFp, lockDir, buildOf, builtTo, calmChange>>

\* Or the watcher's trap removes the lock first, whoever has it, even if it idles.
KillWatcher(s) ==
  /\ shellAt' = [shellAt EXCEPT ![s] = "idle"]
  /\ contended' = (contended \/ \E t \in Shells \ {s} : shellAt[t] # "idle")
  /\ lockDir' = FALSE /\ lockPid' = "nobody"
  /\ UNCHANGED <<tree, treeFp, buildOf, builtTo, calmChange>>

BuildNext ==
  \/ ChangeTree \/ PidReused \/ PidFreed
  \/ \E s \in Shells :
       \/ TryMkdir(s) \/ ReadPid(s) \/ RemoveStale(s) \/ MkdirAgain(s) \/ WritePid(s)
       \/ BuildSucceeds(s) \/ BuildFails(s) \/ MarkClean(s) \/ Release(s)
       \/ KillShell(s) \/ KillWatcher(s)

BuildSpec == BuildInit /\ [][BuildNext]_buildVars

-------------------------------------------------------------------------------
(* Correctness.                                                            *)

\* A shell whose pid is in the lock is building, or just done: whatever races and
\* kills there were, no build that has come to its end, and no shell that idles,
\* keeps others from building under its own pid. (A killed one does under the
\* process that has its pid next, for as long as that runs.)
LockNamesABuilder ==
  \A s \in Shells : lockPid = s => shellAt[s] \in {"building", "built", "releasing"}

\* There is one build at a time, whatever builds fail or are killed and whoever
\* gets their pids, as long as no two shells were at the lock at once and no trap
\* of the watcher ran while another shell was at work. (A shell that finds the
\* directory before the pid is in it takes the lock over.)
OneBuilderAtATime ==
  ~contended =>
    \A s, t \in Shells :
      {shellAt[s], shellAt[t]} \subseteq {"building", "built", "releasing"} => s = t

\* What it takes: whoever builds has the lock, under its pid; whoever is at the lock
\* is there alone, and nobody builds.
LockInv ==
  /\ contended \in BOOLEAN
  /\ shellAt \in [Shells -> Places]
  /\ ~lockDir => lockPid = "nobody"
  /\ ~contended =>
       \A s \in Shells :
         /\ shellAt[s] \in {"building", "built", "releasing"} => lockDir /\ lockPid = s
         /\ shellAt[s] \in {"locking", "relocking"} => lockDir /\ lockPid = "nobody"
         /\ shellAt[s] = "removing" => lockPid \notin Shells
         /\ shellAt[s] = "remaking" => ~lockDir
         /\ s \in AtTheLock => AtTheLock = {s}

\* The watcher rests only on a tree that was built: a change that came while
\* nobody was building has been built when the tree counts as clean, whichever
\* builds failed, were killed or overlapped. (A change during a build may count
\* as clean without ever being built.)
RestsOnlyOnBuilt == treeFp = tree => calmChange <= builtTo

\* What it takes: a build has begun with, or gone as far as, the last change that
\* came while nobody was building.
BuildInv ==
  /\ tree \in Nat /\ treeFp \in Nat /\ calmChange \in Nat /\ builtTo \in Nat
  /\ buildOf \in [Shells -> Nat]
  /\ shellAt \in [Shells -> Places]
  /\ calmChange <= tree /\ treeFp <= tree
  /\ \A s \in Shells :
       /\ shellAt[s] = "building" => calmChange <= buildOf[s]
       /\ shellAt[s] = "built" => calmChange <= builtTo
  /\ RestsOnlyOnBuilt
===============================================================================
