---------------------------- MODULE ServerProofs -----------------------------
(***************************************************************************)
(* Proofs about the process around the dashboard: the build lock of the    *)
(* watcher, the start and stop of the server, the history of startups, the *)
(* branding, and the session cookie, across restarts of the process.       *)
(***************************************************************************)
EXTENDS BuildLock, ServerLife, StartupHistory, Branding, SessionCookie,
        FiniteSetTheorems, SequenceTheorems, TLAPS

-------------------------------------------------------------------------------
(* What the lock names (BuildLock).                                        *)

NamesInv == shellAt \in [Shells -> Places] /\ LockNamesABuilder

\* No step of acquire_build_lock makes the lock name a shell that does not go on
\* to build.
LEMMA AcquireKeepsNames ==
  ASSUME NamesInv, NEW s \in Shells,
         TryMkdir(s) \/ ReadPid(s) \/ RemoveStale(s) \/ MkdirAgain(s) \/ WritePid(s)
  PROVE  NamesInv'
<1>1. CASE TryMkdir(s)
  <2>1. Go(s, "refused") \/ Go(s, "locking")
    BY <1>1 DEF TryMkdir
  <2> QED
    BY <1>1, <2>1 DEF Go, Places, TryMkdir, NamesInv, LockNamesABuilder
<1>2. CASE ReadPid(s)
  <2>1. Go(s, "idle") \/ Go(s, "removing")
    BY <1>2 DEF ReadPid
  <2> QED
    BY <1>2, <2>1 DEF Go, Places, ReadPid, NamesInv, LockNamesABuilder
<1>3. CASE RemoveStale(s)
  BY <1>3, BuildAssumption DEF Go, Places, RemoveStale, NamesInv, LockNamesABuilder
<1>4. CASE MkdirAgain(s)
  BY <1>4 DEF Go, Places, MkdirAgain, NamesInv, LockNamesABuilder
<1>5. CASE WritePid(s)
  <2>1. CASE shellAt[s] = "relocking" /\ ~lockDir
    <3>1. Go(s, "idle") /\ lockPid' = lockPid
      BY <1>5, <2>1 DEF WritePid
    <3> QED
      BY <2>1, <3>1 DEF Go, Places, NamesInv, LockNamesABuilder
  <2>2. CASE ~(shellAt[s] = "relocking" /\ ~lockDir)
    <3>1. Go(s, "building") /\ lockPid' \in {s, lockPid}
      BY <1>5, <2>2 DEF WritePid
    <3> QED
      BY <3>1 DEF Go, Places, NamesInv, LockNamesABuilder
  <2> QED
    BY <2>1, <2>2
<1> QED
  BY <1>1, <1>2, <1>3, <1>4, <1>5

\* A build keeps its name in the lock until it removes the lock.
LEMMA BuildKeepsNames ==
  ASSUME NamesInv, NEW s \in Shells,
         BuildSucceeds(s) \/ BuildFails(s) \/ MarkClean(s) \/ Release(s) \/ KillShell(s)
           \/ KillWatcher(s)
  PROVE  NamesInv'
<1>1. CASE BuildSucceeds(s)
  BY <1>1 DEF Go, Places, BuildSucceeds, NamesInv, LockNamesABuilder
<1>2. CASE BuildFails(s)
  BY <1>2 DEF Go, Places, BuildFails, NamesInv, LockNamesABuilder
<1>3. CASE MarkClean(s)
  BY <1>3 DEF Go, Places, MarkClean, NamesInv, LockNamesABuilder
<1>4. CASE Release(s)
  BY <1>4, BuildAssumption DEF Go, Places, Release, NamesInv, LockNamesABuilder
<1>5. CASE KillShell(s)
  <2>1. Go(s, "idle") /\ lockPid' # s /\ lockPid' \in {lockPid, "stale"}
    BY <1>5, BuildAssumption DEF KillShell
  <2> QED
    BY <2>1, BuildAssumption DEF Go, Places, NamesInv, LockNamesABuilder
<1>6. CASE KillWatcher(s)
  BY <1>6, BuildAssumption DEF Places, KillWatcher, NamesInv, LockNamesABuilder
<1> QED
  BY <1>1, <1>2, <1>3, <1>4, <1>5, <1>6

\* No shell whose pid is in the lock idles: the lock makes others give up in the
\* name of a shell only while that builds. (What else may have the pid of a killed
\* one is not a shell.)
THEOREM LockNames == BuildSpec => []LockNamesABuilder
<1>1. BuildInit => NamesInv
  BY BuildAssumption DEF BuildInit, Places, NamesInv, LockNamesABuilder
<1>2. NamesInv /\ [BuildNext]_buildVars => NamesInv'
  <2> SUFFICES ASSUME NamesInv, [BuildNext]_buildVars PROVE NamesInv'
    OBVIOUS
  <2>1. CASE ChangeTree \/ PidReused \/ PidFreed
    BY <2>1, BuildAssumption DEF ChangeTree, PidReused, PidFreed, NamesInv, LockNamesABuilder
  <2>2. CASE UNCHANGED buildVars
    BY <2>2 DEF buildVars, NamesInv, LockNamesABuilder
  <2>3. ASSUME NEW s \in Shells,
               TryMkdir(s) \/ ReadPid(s) \/ RemoveStale(s) \/ MkdirAgain(s) \/ WritePid(s)
       PROVE  NamesInv'
    BY <2>3, AcquireKeepsNames
  <2>4. ASSUME NEW s \in Shells,
               BuildSucceeds(s) \/ BuildFails(s) \/ MarkClean(s) \/ Release(s) \/ KillShell(s)
                 \/ KillWatcher(s)
           \/ KillWatcher(s)
       PROVE  NamesInv'
    BY <2>4, BuildKeepsNames
  <2> QED
    BY <2>1, <2>2, <2>3, <2>4 DEF BuildNext
<1>3. NamesInv => LockNamesABuilder
  BY DEF NamesInv
<1> QED
  BY <1>1, <1>2, <1>3, PTL DEF BuildSpec

-------------------------------------------------------------------------------
(* One build at a time.                                                    *)

\* What a step of shell s does to who is at the lock, and to contended.
LEMMA GoesAlone ==
  ASSUME LockInv, NEW s \in Shells, NEW where \in Places, Go(s, where), ~contended'
  PROVE  /\ ~contended /\ shellAt' \in [Shells -> Places] /\ shellAt'[s] = where
         /\ \A t \in Shells \ {s} : shellAt'[t] = shellAt[t]
         /\ \A t \in AtTheLock' : AtTheLock' = {t}
         /\ where \in {"locking", "removing", "remaking", "relocking"} =>
              \A t \in Shells \ {s} : t \notin AtTheLock
<1>1. /\ ~contended /\ shellAt' \in [Shells -> Places] /\ shellAt'[s] = where
      /\ \A t \in Shells \ {s} : shellAt'[t] = shellAt[t]
  BY DEF Go, LockInv
<1>2. \A t \in AtTheLock' : AtTheLock' = {t}
  BY DEF Go
<1>3. ASSUME where \in {"locking", "removing", "remaking", "relocking"}
      PROVE  \A t \in Shells \ {s} : t \notin AtTheLock
  <2>1. AtTheLock' = {s}
    BY <1>1, <1>2, <1>3 DEF AtTheLock
  <2> QED
    BY <1>1, <2>1 DEF AtTheLock
<1> QED
  BY <1>1, <1>2, <1>3

\* Where a step takes shell s.
LEMMA GoesWhere ==
  ASSUME LockInv, NEW s \in Shells, NEW where, Go(s, where)
  PROVE  shellAt'[s] = where
BY DEF LockInv, Go

\* acquire_build_lock, by a shell that is at the lock alone.
LEMMA AcquireKeepsLock ==
  ASSUME LockInv, NEW s \in Shells,
         TryMkdir(s) \/ ReadPid(s) \/ RemoveStale(s) \/ MkdirAgain(s) \/ WritePid(s)
  PROVE  LockInv'
<1> DEFINE here == {"idle", "refused", "locking", "removing", "remaking", "relocking", "building"}
<1>1. PICK where \in here : Go(s, where)
  BY DEF TryMkdir, ReadPid, RemoveStale, MkdirAgain, WritePid
<1>2. where \in Places /\ contended' \in BOOLEAN /\ shellAt' \in [Shells -> Places]
  BY <1>1 DEF Places, Go, LockInv
<1>3. ~lockDir' => lockPid' = "nobody"
  BY BuildAssumption DEF TryMkdir, ReadPid, RemoveStale, MkdirAgain, WritePid, LockInv
<1>4. ASSUME ~contended', NEW t \in Shells
      PROVE  /\ shellAt'[t] \in {"building", "built", "releasing"} => lockDir' /\ lockPid' = t
             /\ shellAt'[t] \in {"locking", "relocking"} => lockDir' /\ lockPid' = "nobody"
             /\ shellAt'[t] = "removing" => lockPid' \notin Shells
             /\ shellAt'[t] = "remaking" => ~lockDir'
             /\ t \in AtTheLock' => AtTheLock' = {t}
  <2>1. /\ ~contended /\ shellAt'[s] = where
        /\ \A u \in Shells \ {s} : shellAt'[u] = shellAt[u]
        /\ \A u \in AtTheLock' : AtTheLock' = {u}
        /\ where \in {"locking", "removing", "remaking", "relocking"} =>
             \A u \in Shells \ {s} : u \notin AtTheLock
    BY <1>1, <1>2, <1>4, GoesAlone
  <2>2. /\ shellAt[t] \in {"building", "built", "releasing"} => lockDir /\ lockPid = t
        /\ shellAt[t] \in {"locking", "relocking"} => lockDir /\ lockPid = "nobody"
        /\ shellAt[t] = "removing" => lockPid \notin Shells
        /\ shellAt[t] = "remaking" => ~lockDir
        /\ ~lockDir => lockPid = "nobody"
    BY <2>1 DEF LockInv
  <2>3. /\ shellAt[s] \in {"building", "built", "releasing"} => lockDir /\ lockPid = s
        /\ shellAt[s] \in {"locking", "relocking"} => lockDir /\ lockPid = "nobody"
        /\ shellAt[s] = "removing" => lockPid \notin Shells
        /\ shellAt[s] = "remaking" => ~lockDir
        /\ s \in AtTheLock => AtTheLock = {s}
    BY <2>1 DEF LockInv
  <2>4. CASE t = s
    <3>0. t \in AtTheLock' => AtTheLock' = {t}
      BY <2>1
    <3>1. CASE TryMkdir(s)
      <4>1. CASE lockDir
        <5>1. shellAt'[s] = "refused"
          BY <3>1, <4>1, GoesWhere DEF TryMkdir
        <5> QED
          BY <2>4, <3>0, <5>1
      <4>2. CASE ~lockDir
        <5>1. shellAt'[s] = "locking" /\ lockDir' /\ lockPid' = lockPid
          BY <3>1, <4>2, GoesWhere DEF TryMkdir
        <5> QED
          BY <2>2, <2>4, <3>0, <4>2, <5>1
      <4> QED
        BY <4>1, <4>2
    <3>2. CASE ReadPid(s)
      <4>1. CASE lockPid \in Shells \cup {"other"}
        <5>1. shellAt'[s] = "idle"
          BY <3>2, <4>1, GoesWhere DEF ReadPid
        <5> QED
          BY <2>4, <3>0, <5>1
      <4>2. CASE lockPid \notin Shells \cup {"other"}
        <5>1. shellAt'[s] = "removing" /\ lockPid' = lockPid
          BY <3>2, <4>2, GoesWhere DEF ReadPid
        <5> QED
          BY <2>4, <3>0, <4>2, <5>1
      <4> QED
        BY <4>1, <4>2
    <3>3. CASE RemoveStale(s)
      <4>1. shellAt'[s] = "remaking" /\ ~lockDir'
        BY <3>3, GoesWhere DEF RemoveStale
      <4> QED
        BY <2>4, <3>0, <4>1
    <3>4. CASE MkdirAgain(s)
      <4>1. shellAt'[s] = "relocking" /\ lockDir' /\ lockPid' = lockPid /\ shellAt[s] = "remaking"
        BY <3>4, GoesWhere DEF MkdirAgain
      <4> QED
        BY <2>2, <2>3, <2>4, <3>0, <4>1
    <3>5. CASE WritePid(s)
      <4>1. shellAt[s] \in {"locking", "relocking"} /\ lockDir
        BY <2>3, <3>5 DEF WritePid
      <4>2. shellAt'[s] = "building" /\ lockDir' /\ lockPid' = s
        <5>1. Go(s, "building") /\ lockDir' = lockDir /\ lockPid' = s
          BY <3>5, <4>1 DEF WritePid
        <5> QED
          BY <4>1, <5>1, GoesWhere
      <4> QED
        BY <2>4, <3>0, <4>2
    <3> QED
      BY <3>1, <3>2, <3>3, <3>4, <3>5
  <2>5. CASE t # s
    <3>1. shellAt'[t] = shellAt[t]
      BY <2>1, <2>5
    <3>2. shellAt[s] \in {"removing", "remaking", "locking", "relocking"} =>
            t \notin AtTheLock
      BY <2>3, <2>5 DEF AtTheLock
    <3>3. CASE TryMkdir(s)
      <4>1. CASE lockDir
        BY <2>1, <2>2, <3>1, <3>3, <4>1 DEF TryMkdir
      <4>2. CASE ~lockDir
        <5>1. shellAt'[s] = "locking" /\ lockDir' /\ lockPid' = lockPid
          BY <3>3, <4>2, GoesWhere DEF TryMkdir
        <5>2. t \notin AtTheLock
          BY <2>1, <2>5, <5>1
        <5> QED
          BY <2>1, <2>2, <3>1, <4>2, <5>1, <5>2 DEF AtTheLock
      <4> QED
        BY <4>1, <4>2
    <3>4. CASE ReadPid(s)
      BY <2>1, <2>2, <3>1, <3>4 DEF ReadPid
    <3>5. CASE RemoveStale(s)
      BY <2>1, <2>2, <2>3, <3>1, <3>2, <3>5 DEF RemoveStale, AtTheLock
    <3>6. CASE MkdirAgain(s)
      BY <2>1, <2>2, <2>3, <3>1, <3>2, <3>6, BuildAssumption DEF MkdirAgain, AtTheLock
    <3>7. CASE WritePid(s)
      BY <2>1, <2>2, <2>3, <3>1, <3>2, <3>7, BuildAssumption DEF WritePid, AtTheLock
    <3> QED
      BY <3>3, <3>4, <3>5, <3>6, <3>7
  <2> QED
    BY <2>4, <2>5
<1> QED
  BY <1>2, <1>3, <1>4 DEF LockInv

\* A shell that builds has the lock for itself; one that is killed leaves it as it is.
LEMMA BuildKeepsLock ==
  ASSUME LockInv, NEW s \in Shells,
         BuildSucceeds(s) \/ BuildFails(s) \/ MarkClean(s) \/ Release(s) \/ KillShell(s)
  PROVE  LockInv'
<1> DEFINE here == {"idle", "built", "releasing"}
<1>1. PICK where \in here : Go(s, where)
  BY DEF BuildSucceeds, BuildFails, MarkClean, Release, KillShell
<1>2. where \in Places /\ contended' \in BOOLEAN /\ shellAt' \in [Shells -> Places]
  BY <1>1 DEF Places, Go, LockInv
<1>3. ~lockDir' => lockPid' = "nobody"
  BY BuildAssumption DEF BuildSucceeds, BuildFails, MarkClean, Release, KillShell, LockInv
<1>4. ASSUME ~contended', NEW t \in Shells
      PROVE  /\ shellAt'[t] \in {"building", "built", "releasing"} => lockDir' /\ lockPid' = t
             /\ shellAt'[t] \in {"locking", "relocking"} => lockDir' /\ lockPid' = "nobody"
             /\ shellAt'[t] = "removing" => lockPid' \notin Shells
             /\ shellAt'[t] = "remaking" => ~lockDir'
             /\ t \in AtTheLock' => AtTheLock' = {t}
  <2>1. /\ ~contended /\ shellAt'[s] = where
        /\ \A u \in Shells \ {s} : shellAt'[u] = shellAt[u]
        /\ \A u \in AtTheLock' : AtTheLock' = {u}
    BY <1>1, <1>2, <1>4, GoesAlone
  <2>2. /\ shellAt[t] \in {"building", "built", "releasing"} => lockDir /\ lockPid = t
        /\ shellAt[t] \in {"locking", "relocking"} => lockDir /\ lockPid = "nobody"
        /\ shellAt[t] = "removing" => lockPid \notin Shells
        /\ shellAt[t] = "remaking" => ~lockDir
    BY <2>1 DEF LockInv
  <2>3. shellAt[s] \in {"building", "built", "releasing"} => lockDir /\ lockPid = s
    BY <2>1 DEF LockInv
  <2>4. CASE t = s
    <3>1. CASE BuildSucceeds(s) \/ BuildFails(s) \/ MarkClean(s)
      BY <2>1, <2>3, <2>4, <3>1 DEF BuildSucceeds, BuildFails, MarkClean
    <3>2. CASE Release(s) \/ KillShell(s)
      BY <2>1, <2>4, <3>2 DEF Release, KillShell, Go, LockInv
    <3> QED
      BY <3>1, <3>2
  <2>5. CASE t # s
    <3>1. shellAt'[t] = shellAt[t]
      BY <2>1, <2>5
    <3>2. CASE BuildSucceeds(s) \/ BuildFails(s) \/ MarkClean(s)
      BY <2>1, <2>2, <3>1, <3>2 DEF BuildSucceeds, BuildFails, MarkClean
    <3>3. CASE Release(s)
      BY <2>1, <2>2, <2>3, <2>5, <3>1, <3>3, BuildAssumption DEF Release
    <3>4. CASE KillShell(s)
      BY <2>1, <2>2, <2>5, <3>1, <3>4, BuildAssumption DEF KillShell
    <3> QED
      BY <3>2, <3>3, <3>4
  <2> QED
    BY <2>4, <2>5
<1> QED
  BY <1>2, <1>3, <1>4 DEF LockInv

\* The watcher's trap finds no other shell at work, or is one of the exceptions.
LEMMA TrapKeepsLock ==
  ASSUME LockInv, NEW s \in Shells, KillWatcher(s)
  PROVE  LockInv'
<1>1. contended' \in BOOLEAN /\ shellAt' \in [Shells -> Places] /\ lockPid' = "nobody"
  BY DEF KillWatcher, LockInv, Places
<1>2. ~contended' => \A t \in Shells : shellAt'[t] = "idle"
  BY DEF KillWatcher, LockInv
<1> QED
  BY <1>1, <1>2 DEF LockInv, AtTheLock

\* Shells that come to the lock one after another build one after another.
THEOREM BuildsOneAtATime == BuildSpec => []OneBuilderAtATime
<1>1. BuildInit => LockInv
  BY DEF BuildInit, LockInv, Places, AtTheLock
<1>2. LockInv /\ [BuildNext]_buildVars => LockInv'
  <2> SUFFICES ASSUME LockInv, [BuildNext]_buildVars PROVE LockInv'
    OBVIOUS
  <2>1. CASE ChangeTree \/ UNCHANGED buildVars
    BY <2>1 DEF ChangeTree, buildVars, LockInv, AtTheLock
  <2>2. CASE PidReused \/ PidFreed
    <3>1. /\ UNCHANGED <<lockDir, shellAt, contended>> /\ AtTheLock' = AtTheLock
          /\ {lockPid, lockPid'} \subseteq {"stale", "other"}
      BY <2>2 DEF PidReused, PidFreed, AtTheLock
    <3> QED
      BY <3>1, BuildAssumption DEF LockInv
  <2>3. ASSUME NEW s \in Shells,
               TryMkdir(s) \/ ReadPid(s) \/ RemoveStale(s) \/ MkdirAgain(s) \/ WritePid(s)
       PROVE  LockInv'
    BY <2>3, AcquireKeepsLock
  <2>4. ASSUME NEW s \in Shells,
               BuildSucceeds(s) \/ BuildFails(s) \/ MarkClean(s) \/ Release(s) \/ KillShell(s)
       PROVE  LockInv'
    BY <2>4, BuildKeepsLock
  <2>5. ASSUME NEW s \in Shells, KillWatcher(s) PROVE LockInv'
    BY <2>5, TrapKeepsLock
  <2> QED
    BY <2>1, <2>2, <2>3, <2>4, <2>5 DEF BuildNext
<1>3. LockInv => OneBuilderAtATime
  BY DEF LockInv, OneBuilderAtATime
<1> QED
  BY <1>1, <1>2, <1>3, PTL DEF BuildSpec

-------------------------------------------------------------------------------
(* What the fingerprint says.                                              *)

\* The tree changes: while somebody builds the change is not a calm one.
LEMMA ChangeKeepsBuilt ==
  ASSUME BuildInv, ChangeTree
  PROVE  BuildInv'
<1>1. tree' = tree + 1 /\ treeFp' # tree'
  BY DEF ChangeTree, BuildInv
<1>2. CASE Building = {}
  <2>1. \A s \in Shells : shellAt[s] # "building" /\ shellAt[s] # "built"
    BY <1>2 DEF Building
  <2> QED
    BY <1>1, <1>2, <2>1 DEF ChangeTree, BuildInv, RestsOnlyOnBuilt
<1>3. CASE Building # {}
  BY <1>1, <1>3 DEF ChangeTree, BuildInv, RestsOnlyOnBuilt
<1> QED
  BY <1>2, <1>3

\* No step of acquire_build_lock touches what the watcher knows; a build that
\* begins has all changes.
LEMMA AcquireKeepsBuilt ==
  ASSUME BuildInv, NEW s \in Shells,
         TryMkdir(s) \/ ReadPid(s) \/ RemoveStale(s) \/ MkdirAgain(s) \/ WritePid(s)
  PROVE  BuildInv'
<1>1. UNCHANGED <<tree, treeFp, calmChange, builtTo>>
  BY DEF TryMkdir, ReadPid, RemoveStale, MkdirAgain, WritePid
<1>2. /\ buildOf' \in [Shells -> Nat] /\ shellAt' \in [Shells -> Places]
      /\ \A t \in Shells \ {s} : buildOf'[t] = buildOf[t] /\ shellAt'[t] = shellAt[t]
      /\ shellAt'[s] # "built"
      /\ shellAt'[s] = "building" => buildOf'[s] = tree
  <2>1. CASE WritePid(s)
    <3>1. \/ Go(s, "idle") /\ buildOf' = buildOf
          \/ Go(s, "building") /\ buildOf' = [buildOf EXCEPT ![s] = tree]
      BY <2>1 DEF WritePid
    <3> QED
      BY <3>1 DEF Go, Places, BuildInv
  <2>2. CASE TryMkdir(s) \/ ReadPid(s) \/ RemoveStale(s) \/ MkdirAgain(s)
    <3>1. /\ buildOf' = buildOf
          /\ \/ Go(s, "idle") \/ Go(s, "refused") \/ Go(s, "locking")
             \/ Go(s, "removing") \/ Go(s, "remaking") \/ Go(s, "relocking")
      BY <2>2 DEF TryMkdir, ReadPid, RemoveStale, MkdirAgain
    <3> QED
      BY <3>1 DEF Go, Places, BuildInv
  <2> QED
    BY <2>1, <2>2
<1>3. \A t \in Shells :
        /\ shellAt'[t] = "building" => calmChange' <= buildOf'[t]
        /\ shellAt'[t] = "built" => calmChange' <= builtTo'
  BY <1>1, <1>2 DEF BuildInv
<1> QED
  BY <1>1, <1>2, <1>3 DEF BuildInv, RestsOnlyOnBuilt

\* A build that succeeds has gone as far as it began with, and only then is the
\* tree marked as clean.
LEMMA BuildKeepsBuilt ==
  ASSUME BuildInv, NEW s \in Shells,
         BuildSucceeds(s) \/ BuildFails(s) \/ MarkClean(s) \/ Release(s) \/ KillShell(s)
           \/ KillWatcher(s)
  PROVE  BuildInv'
<1>1. CASE BuildSucceeds(s)
  <2>1. /\ builtTo' \in Nat /\ builtTo <= builtTo' /\ buildOf[s] <= builtTo'
        /\ UNCHANGED <<tree, treeFp, calmChange, buildOf>>
    BY <1>1 DEF BuildSucceeds, BuildInv
  <2>2. /\ shellAt' \in [Shells -> Places] /\ shellAt'[s] = "built"
        /\ \A t \in Shells \ {s} : shellAt'[t] = shellAt[t]
    BY <1>1 DEF Go, Places, BuildSucceeds, BuildInv
  <2>3. calmChange <= buildOf[s]
    BY <1>1 DEF BuildSucceeds, BuildInv
  <2>4. \A t \in Shells :
          /\ shellAt'[t] = "building" => calmChange' <= buildOf'[t]
          /\ shellAt'[t] = "built" => calmChange' <= builtTo'
    BY <2>1, <2>2, <2>3 DEF BuildInv
  <2>5. RestsOnlyOnBuilt'
    BY <2>1 DEF BuildInv, RestsOnlyOnBuilt
  <2> QED
    BY <2>1, <2>2, <2>4, <2>5 DEF BuildInv
<1>2. CASE MarkClean(s)
  <2>1. treeFp' = tree /\ UNCHANGED <<tree, builtTo, calmChange, buildOf>>
    BY <1>2 DEF MarkClean
  <2>2. /\ shellAt' \in [Shells -> Places] /\ shellAt'[s] = "releasing"
        /\ \A t \in Shells \ {s} : shellAt'[t] = shellAt[t]
    BY <1>2 DEF Go, Places, MarkClean, BuildInv
  <2>3. calmChange <= builtTo
    BY <1>2 DEF MarkClean, BuildInv
  <2> QED
    BY <2>1, <2>2, <2>3 DEF BuildInv, RestsOnlyOnBuilt
<1>3. CASE BuildFails(s) \/ Release(s) \/ KillShell(s) \/ KillWatcher(s)
  <2>1. /\ UNCHANGED <<tree, treeFp, builtTo, calmChange, buildOf>>
        /\ \/ shellAt' = [shellAt EXCEPT ![s] = "releasing"]
           \/ shellAt' = [shellAt EXCEPT ![s] = "idle"]
    BY <1>3 DEF BuildFails, Release, KillShell, KillWatcher, Go
  <2>2. /\ shellAt' \in [Shells -> Places]
        /\ shellAt'[s] # "building" /\ shellAt'[s] # "built"
        /\ \A t \in Shells \ {s} : shellAt'[t] = shellAt[t]
    BY <2>1 DEF Places, BuildInv
  <2> QED
    BY <2>1, <2>2 DEF BuildInv, RestsOnlyOnBuilt
<1> QED
  BY <1>1, <1>2, <1>3

\* A tree that counts as clean has every change that came while nobody built.
THEOREM RestsOnBuilt == BuildSpec => []RestsOnlyOnBuilt
<1>1. BuildInit => BuildInv
  BY DEF BuildInit, Places, BuildInv, RestsOnlyOnBuilt
<1>2. BuildInv /\ [BuildNext]_buildVars => BuildInv'
  <2> SUFFICES ASSUME BuildInv, [BuildNext]_buildVars PROVE BuildInv'
    OBVIOUS
  <2>1. CASE UNCHANGED buildVars
    BY <2>1 DEF buildVars, BuildInv, RestsOnlyOnBuilt
  <2>2. ASSUME NEW s \in Shells,
               TryMkdir(s) \/ ReadPid(s) \/ RemoveStale(s) \/ MkdirAgain(s) \/ WritePid(s)
       PROVE  BuildInv'
    BY <2>2, AcquireKeepsBuilt
  <2>4. CASE PidReused \/ PidFreed
    BY <2>4 DEF PidReused, PidFreed, BuildInv, RestsOnlyOnBuilt
  <2>3. ASSUME NEW s \in Shells,
               BuildSucceeds(s) \/ BuildFails(s) \/ MarkClean(s) \/ Release(s) \/ KillShell(s)
                 \/ KillWatcher(s)
           \/ KillWatcher(s)
       PROVE  BuildInv'
    BY <2>3, BuildKeepsBuilt
  <2> QED
    BY <2>1, ChangeKeepsBuilt, <2>2, <2>3, <2>4 DEF BuildNext
<1>3. BuildInv => RestsOnlyOnBuilt
  BY DEF BuildInv
<1> QED
  BY <1>1, <1>2, <1>3, PTL DEF BuildSpec

-------------------------------------------------------------------------------
(* The stop of the server (ServerLife).                                    *)

\* What a client's request may be.
Kinds == {"none", "tcp", "stream", "quic", "redirect", "cut", "cut aside"}

\* No request over TCP is cut short before the process has ended in another way
\* than gracefully, and it has not ended gracefully while one is open.
NotCutInv ==
  /\ request \in [Clients -> Kinds]
  /\ life \notin {"in error", "killed"} => \A c \in Clients : request[c] # "cut"
  /\ life = "gracefully" => \A c \in Clients : request[c] \notin {"tcp", "stream"}

\* What closing listeners leaves of the requests.
LEMMA WithoutSome ==
  ASSUME request \in [Clients -> Kinds], NEW kinds
  PROVE  /\ Without(kinds) \in [Clients -> Kinds]
         /\ \A c \in Clients :
              /\ Without(kinds)[c] \in {request[c], "cut", "cut aside"}
              /\ Without(kinds)[c] = "cut" => request[c] = "cut" \/ request[c] \in kinds \cap {"tcp", "stream"}
<1>1. ASSUME NEW c \in Clients
      PROVE  /\ Without(kinds)[c] \in Kinds
             /\ Without(kinds)[c] \in {request[c], "cut", "cut aside"}
             /\ Without(kinds)[c] = "cut" => request[c] = "cut" \/ request[c] \in kinds \cap {"tcp", "stream"}
  <2>1. request[c] \in Kinds
    OBVIOUS
  <2>2. CASE request[c] \notin kinds
    BY <2>1, <2>2 DEF Without
  <2>3. CASE request[c] \in kinds \cap {"tcp", "stream"}
    BY <2>3 DEF Without, Kinds
  <2>4. CASE request[c] \in kinds \ {"tcp", "stream"}
    BY <2>4 DEF Without, Kinds
  <2> QED
    BY <2>2, <2>3, <2>4
<1>2. Without(kinds) = [c \in Clients |-> Without(kinds)[c]]
  BY DEF Without
<1> QED
  BY <1>1, <1>2

\* Whatever is asked, answered or started, no request over TCP is cut.
LEMMA ServingKeepsNotCut ==
  ASSUME NotCutInv,
         \/ Assemble \/ Listen \/ ListenToRedirect \/ AwaitSignal \/ StopTakesTime \/ Restart
         \/ \E c \in Clients :
              \/ \E kind \in {"tcp", "stream", "quic", "redirect"} : Request(c, kind)
              \/ Served(c) \/ LeavesServer(c)
  PROVE  NotCutInv'
<1>1. CASE Assemble \/ Listen \/ ListenToRedirect \/ AwaitSignal \/ StopTakesTime
  BY <1>1 DEF Assemble, Listen, ListenToRedirect, AwaitSignal, StopTakesTime, NotCutInv
<1>2. CASE Restart
  BY <1>2 DEF Restart, NotCutInv, Kinds
<1>3. ASSUME NEW c \in Clients, NEW kind \in {"tcp", "stream", "quic", "redirect"}, Request(c, kind)
      PROVE  NotCutInv'
  BY <1>3 DEF Request, Up, NotCutInv, Kinds
<1>4. ASSUME NEW c \in Clients, Served(c) \/ LeavesServer(c)
      PROVE  NotCutInv'
  BY <1>4 DEF Served, LeavesServer, NotCutInv, Kinds
<1> QED
  BY <1>1, <1>2, <1>3, <1>4

\* The stop cuts what is over QUIC; it ends gracefully when nothing is left over TCP.
LEMMA StoppingKeepsNotCut ==
  ASSUME NotCutInv, KillEarly \/ SignalStop \/ StopGracefully \/ StopInError
  PROVE  NotCutInv'
<1>1. request \in [Clients -> Kinds]
  BY DEF NotCutInv
<1>2. CASE KillEarly
  BY <1>1, <1>2, WithoutSome DEF KillEarly, End, Close, NotCutInv
<1>3. CASE StopInError
  BY <1>1, <1>3, WithoutSome DEF StopInError, End, Close, NotCutInv
<1>4. CASE SignalStop
  <2>1. life = "waiting" /\ life' = "stopping" /\ request' = Without({"quic"})
    BY <1>4 DEF SignalStop, Close
  <2>2. \A c \in Clients : request[c] # "cut"
    BY <2>1 DEF NotCutInv
  <2>3. {"quic"} \cap {"tcp", "stream"} = {}
    OBVIOUS
  <2> QED
    BY <1>1, <2>1, <2>2, <2>3, WithoutSome DEF NotCutInv
<1>5. CASE StopGracefully
  <2>1. /\ life = "stopping" /\ life' = "gracefully"
        /\ request' = Without({} \union {"redirect"})
        /\ \A c \in Clients : request[c] \notin {"tcp", "stream"}
    BY <1>5 DEF StopGracefully, End, Close
  <2>2. \A c \in Clients : request[c] # "cut"
    BY <2>1 DEF NotCutInv
  <2>3. ({} \union {"redirect"}) \cap {"tcp", "stream"} = {}
    OBVIOUS
  <2>4. ASSUME NEW c \in Clients PROVE request'[c] # "cut" /\ request'[c] \notin {"tcp", "stream"}
    BY <1>1, <2>1, <2>2, <2>3, WithoutSome
  <2> QED
    BY <1>1, <2>1, <2>4, WithoutSome DEF NotCutInv
<1> QED
  BY <1>2, <1>3, <1>4, <1>5

\* main's "stopped gracefully" is the truth for HTTP: the stop has cut no request
\* over TCP short, and is not over while one is open.
THEOREM GracefulIsTrue == LifeSpec => []GracefulCutsNoRequest
<1>1. LifeInit => NotCutInv
  BY DEF LifeInit, NotCutInv, Kinds
<1>2. NotCutInv /\ [LifeNext]_lifeVars => NotCutInv'
  <2> SUFFICES ASSUME NotCutInv, [LifeNext]_lifeVars PROVE NotCutInv'
    OBVIOUS
  <2>1. CASE UNCHANGED lifeVars
    BY <2>1 DEF lifeVars, NotCutInv
  <2> QED
    BY <2>1, ServingKeepsNotCut, StoppingKeepsNotCut DEF LifeNext
<1>3. NotCutInv => GracefulCutsNoRequest
  BY DEF NotCutInv, GracefulCutsNoRequest
<1> QED
  BY <1>1, <1>2, <1>3, PTL DEF LifeSpec

-------------------------------------------------------------------------------
(* The history of the boots (StartupHistory).                              *)

\* A line of startup-history.jsonl.
Line == [of : Nat, boot_id : Nat, rebooted_at : {NoStamp} \cup (Nat \X Stamps), day : Nat]

\* A line that parses is the record of a boot, under its identity and on its day.
LineWell(l) ==
  l # Garbage =>
    /\ l.of \in 1 .. boot
    /\ "boot_id" \in host => l.boot_id = l.of
    /\ l.rebooted_at # NoStamp => \E s \in Stamps : l.rebooted_at = <<l.of, s>>
    /\ "uptime" \in host => l.day = bootDay[l.of]

\* The boots in which the process ran that the file does not tell of.
Missing == {b \in started : ~Recorded(b)}

\* What a line without an end may still cost: the record that is glued to it, and its
\* own if it has one.
Owed == IF openLine THEN (IF lines[Len(lines)] = Garbage THEN 1 ELSE 2) ELSE 0

\* No boot is recorded twice.
OnePerBoot == \A i, j \in Parsed : lines[i].of = lines[j].of => i = j

\* What is missing, and what may come to be, is paid for by the faults.
Paid == Cardinality(Missing) + Owed <= 2 * faults.short + faults.empty

\* The types, and no line without an end where there is no line.
HistTypes ==
  /\ today \in Nat
  /\ bootDay \in Seq(Nat) /\ bootDay # << >>
  /\ lines \in Seq(Line) /\ openLine \in BOOLEAN
  /\ openLine => lines # << >>
  /\ started \in SUBSET (1 .. boot)
  /\ faults \in [short : Nat, empty : Nat]

\* On a host with a boot id, each boot has one record at most, the one being recorded
\* has none, and what is missing is paid for.
HistInv ==
  /\ HistTypes
  /\ \A i \in DOMAIN lines : LineWell(lines[i])
  /\ "boot_id" \in host =>
       /\ OnePerBoot
       /\ process = "recording" => ~Recorded(boot)
       /\ Paid

\* The types, and what they mean for indices.
LEMMA HistIndices ==
  ASSUME HistTypes
  PROVE  /\ boot \in Nat /\ 1 <= boot
         /\ Len(lines) \in Nat /\ DOMAIN lines = 1 .. Len(lines)
         /\ openLine => 1 <= Len(lines)
         /\ Garbage \in Line
         /\ faults.short \in Nat /\ faults.empty \in Nat
<1>1. Len(bootDay) \in Nat /\ Len(bootDay) # 0
  BY EmptySeq, LenProperties DEF HistTypes
<1>2. Len(lines) \in Nat /\ DOMAIN lines = 1 .. Len(lines) /\ (lines # << >> => Len(lines) # 0)
  BY EmptySeq, LenProperties DEF HistTypes
<1>3. Garbage \in Line
  BY DEF Garbage, Line
<1> QED
  BY <1>1, <1>2, <1>3 DEF boot, HistTypes

\* No more is missing than one might think.
LEMMA MissingIsFinite ==
  ASSUME HistTypes
  PROVE  /\ IsFiniteSet(started) /\ IsFiniteSet(Missing)
         /\ Cardinality(Missing) \in Nat
         /\ Owed \in Nat
<1>1. IsFiniteSet(1 .. boot)
  BY HistIndices, FS_Interval
<1>2. IsFiniteSet(started)
  BY <1>1, FS_Subset DEF HistTypes
<1>3. IsFiniteSet(Missing)
  BY <1>2, FS_Subset DEF Missing
<1> QED
  BY <1>2, <1>3, FS_CardinalityType DEF Owed

\* With one element more a finite set is larger by one at most.
LEMMA OneMoreMissing ==
  ASSUME NEW M, IsFiniteSet(M), NEW x, NEW N \in SUBSET (M \cup {x})
  PROVE  /\ IsFiniteSet(N) /\ IsFiniteSet(M \cup {x})
         /\ Cardinality(N) \in Nat /\ Cardinality(M) \in Nat
         /\ Cardinality(N) <= Cardinality(M) + 1
         /\ Cardinality(M \cup {x}) <= Cardinality(M) + 1
<1>1. IsFiniteSet(M \cup {x}) /\ Cardinality(M \cup {x}) <= Cardinality(M) + 1 /\ Cardinality(M) \in Nat
  <2>1. Cardinality(M) \in Nat
    BY FS_CardinalityType
  <2>2. /\ IsFiniteSet(M \cup {x})
        /\ Cardinality(M \cup {x}) = IF x \in M THEN Cardinality(M) ELSE Cardinality(M) + 1
    BY FS_AddElement
  <2> QED
    BY <2>1, <2>2
<1>2. IsFiniteSet(N) /\ Cardinality(N) <= Cardinality(M \cup {x})
  BY <1>1, FS_Subset
<1>3. Cardinality(N) \in Nat /\ Cardinality(M \cup {x}) \in Nat
  BY <1>1, <1>2, FS_CardinalityType
<1> QED
  BY <1>1, <1>2, <1>3

-------------------------------------------------------------------------------
(* A record.                                                               *)

\* The record of a start is a line of the current boot.
LEMMA EventIsLine ==
  ASSUME HistTypes, NEW stamp \in Stamps
  PROVE  /\ Event(stamp) \in Line /\ Event(stamp) # Garbage
         /\ Event(stamp).of = boot
         /\ LineWell(Event(stamp))
<1> DEFINE e == Event(stamp)
<1>1. boot \in Nat /\ 1 <= boot
  BY HistIndices
<1>2. bootDay[boot] \in Nat
  BY <1>1, ElementOfSeq DEF HistTypes, boot
<1>3. /\ e.of = boot /\ (e.boot_id = IF "boot_id" \in host THEN boot ELSE 0)
      /\ (e.rebooted_at = IF "uptime" \in host THEN <<boot, stamp>> ELSE NoStamp)
      /\ (e.day = IF "uptime" \in host THEN bootDay[boot] ELSE today)
  BY DEF Event
<1>4. e \in Line
  <2>1. (IF "uptime" \in host THEN <<boot, stamp>> ELSE NoStamp) \in {NoStamp} \cup (Nat \X Stamps)
    BY <1>1
  <2>2. (IF "boot_id" \in host THEN boot ELSE 0) \in Nat
    BY <1>1
  <2>3. (IF "uptime" \in host THEN bootDay[boot] ELSE today) \in Nat
    BY <1>2 DEF HistTypes
  <2> QED
    BY <1>1, <2>1, <2>2, <2>3 DEF Event, Line
<1>5. e # Garbage
  BY <1>1, <1>3 DEF Garbage
<1> HIDE DEF e
<1>6. LineWell(e)
  <2>1. e.rebooted_at # NoStamp => e.rebooted_at = <<e.of, stamp>>
    BY <1>3
  <2> QED
    BY <1>1, <1>3, <2>1 DEF LineWell
<1> QED
  BY <1>3, <1>4, <1>5, <1>6 DEF e

\* A start that is in the history already is the boot's: it is recorded.
LEMMA ContainedIsRecorded ==
  ASSUME HistInv, "boot_id" \in host, NEW stamp \in Stamps
  PROVE  Contains(Event(stamp)) <=> Recorded(boot)
<1>1. boot \in Nat /\ 1 <= boot
  BY HistIndices DEF HistInv
<1>2. /\ Event(stamp).boot_id = boot
      /\ Event(stamp).rebooted_at = IF "uptime" \in host THEN <<boot, stamp>> ELSE NoStamp
  BY DEF Event
<1>3. ASSUME NEW i \in Parsed
      PROVE  /\ lines[i].boot_id = lines[i].of
             /\ lines[i].rebooted_at = <<boot, stamp>> => lines[i].of = boot
  <2>1. LineWell(lines[i]) /\ lines[i] # Garbage
    BY DEF HistInv, Parsed
  <2>2. lines[i].rebooted_at # NoStamp => \E s \in Stamps : lines[i].rebooted_at = <<lines[i].of, s>>
    BY <2>1 DEF LineWell
  <2>3. ASSUME lines[i].rebooted_at = <<boot, stamp>> PROVE lines[i].rebooted_at # NoStamp
    <3>1. <<boot, stamp>> # NoStamp
      BY DEF NoStamp
    <3> QED
      BY <2>3, <3>1
  <2> QED
    BY <2>1, <2>2, <2>3 DEF LineWell
<1> QED
  BY <1>1, <1>2, <1>3 DEF Contains, Recorded

-------------------------------------------------------------------------------
(* What a write does to the lines.                                         *)

\* The record that is glued to a line without an end takes that line with it.
LEMMA GluedLines ==
  ASSUME HistTypes, openLine, lines' = [lines EXCEPT ![Len(lines)] = Garbage]
  PROVE  /\ lines' \in Seq(Line) /\ Len(lines') = Len(lines) /\ lines' # << >>
         /\ Parsed' = Parsed \ {Len(lines)}
         /\ \A i \in Parsed' : lines'[i] = lines[i]
         /\ lines'[Len(lines')] = Garbage
<1> DEFINE n == Len(lines)
<1>1. n \in Nat /\ 1 <= n /\ n \in 1 .. n /\ DOMAIN lines = 1 .. n /\ Garbage \in Line /\ lines \in Seq(Line)
  BY HistIndices DEF HistTypes
<1>2. /\ lines' \in Seq(Line) /\ Len(lines') = n
      /\ \A j \in 1 .. n : lines'[j] = IF j = n THEN Garbage ELSE lines[j]
  BY <1>1, ExceptSeq
<1>3. DOMAIN lines' = 1 .. n
  BY <1>2, LenProperties
<1>4. lines' # << >>
  BY <1>1, <1>2, EmptySeq
<1> HIDE DEF n
<1>5. \A i \in 1 .. n : i \in Parsed' <=> i \in Parsed /\ i # n
  BY <1>1, <1>2, <1>3 DEF Parsed
<1>6. Parsed' \subseteq 1 .. n /\ Parsed \subseteq 1 .. n
  BY <1>1, <1>3 DEF Parsed
<1>7. Parsed' = Parsed \ {n}
  BY <1>5, <1>6
<1>8. \A i \in Parsed' : lines'[i] = lines[i]
  BY <1>2, <1>6, <1>7
<1> QED
  BY <1>1, <1>2, <1>4, <1>7, <1>8 DEF n

\* A line is added.
LEMMA AddedLine ==
  ASSUME HistTypes, NEW e \in Line, lines' = Append(lines, e)
  PROVE  /\ lines' \in Seq(Line) /\ lines' # << >> /\ lines'[Len(lines')] = e
         /\ Len(lines) + 1 \notin Parsed /\ Len(lines') = Len(lines) + 1
         /\ Parsed' = Parsed \cup (IF e = Garbage THEN {} ELSE {Len(lines) + 1})
         /\ \A i \in Parsed : lines'[i] = lines[i]
<1> DEFINE n == Len(lines)
<1>1. n \in Nat /\ DOMAIN lines = 1 .. n /\ lines \in Seq(Line)
  BY HistIndices DEF HistTypes
<1>2. /\ lines' \in Seq(Line) /\ lines' # << >> /\ Len(lines') = n + 1
      /\ \A i \in 1 .. n : lines'[i] = lines[i]
      /\ lines'[n + 1] = e
  BY <1>1, AppendProperties
<1>3. DOMAIN lines' = 1 .. n + 1
  BY <1>2, LenProperties
<1> HIDE DEF n
<1>4. Parsed \subseteq 1 .. n /\ Parsed' \subseteq 1 .. n + 1
  BY <1>1, <1>3 DEF Parsed
<1>5. \A i \in 1 .. n : i \in Parsed' <=> i \in Parsed
  BY <1>1, <1>2, <1>3 DEF Parsed
<1>6. n + 1 \in Parsed' <=> e # Garbage
  <2>1. n + 1 \in DOMAIN lines' /\ Garbage' = Garbage
    BY <1>1, <1>3 DEF Garbage, NoStamp
  <2> QED
    BY <1>2, <2>1 DEF Parsed
<1>7. n + 1 \notin Parsed
  BY <1>1, <1>4
<1>8. \A i \in 1 .. n + 1 : i \in 1 .. n \/ i = n + 1
  BY <1>1
<1>9. Parsed' = Parsed \cup (IF e = Garbage THEN {} ELSE {n + 1})
  <2>1. CASE e = Garbage
    BY <1>4, <1>5, <1>6, <1>8, <2>1
  <2>2. CASE e # Garbage
    BY <1>4, <1>5, <1>6, <1>8, <2>2
  <2> QED
    BY <2>1, <2>2
<1> QED
  BY <1>2, <1>4, <1>7, <1>9 DEF n

\* A host may have booted again; the boots before are what they were.
LEMMA BootsGrow ==
  ASSUME HistTypes, bootDay' = bootDay \/ bootDay' = Append(bootDay, today), host' = host
  PROVE  /\ bootDay' \in Seq(Nat) /\ bootDay' # << >>
         /\ boot' \in Nat /\ boot <= boot'
         /\ \A S \in SUBSET (1 .. boot) : S \in SUBSET (1 .. boot') /\ S \cup {boot} \in SUBSET (1 .. boot')
         /\ \A l \in Line : LineWell(l) => LineWell(l)'
<1>1. boot \in Nat /\ 1 <= boot /\ bootDay \in Seq(Nat) /\ today \in Nat
  BY HistIndices DEF HistTypes
<1>2. /\ bootDay' \in Seq(Nat) /\ bootDay' # << >> /\ boot' \in Nat /\ boot <= boot'
      /\ \A b \in 1 .. boot : bootDay'[b] = bootDay[b]
  <2>1. CASE bootDay' = bootDay
    BY <1>1, <2>1 DEF HistTypes, boot
  <2>2. CASE bootDay' = Append(bootDay, today)
    BY <1>1, <2>2, AppendProperties DEF boot
  <2> QED
    BY <2>1, <2>2
<1>3. (\A b \in 1 .. boot : b \in 1 .. boot') /\ boot \in 1 .. boot'
  BY <1>1, <1>2
<1>4. Garbage' = Garbage /\ NoStamp' = NoStamp
  BY DEF Garbage, NoStamp
<1>5. ASSUME NEW l \in Line, LineWell(l) PROVE LineWell(l)'
  BY <1>2, <1>3, <1>4, <1>5 DEF LineWell
<1> QED
  BY <1>2, <1>3, <1>5

-------------------------------------------------------------------------------
(* The steps.                                                              *)

\* A step that writes no line: what comes to be recorded, or missing, is paid for.
LEMMA QuietKeepsInv ==
  ASSUME HistInv, UNCHANGED <<lines, openLine, host>>, today' \in Nat,
         bootDay' = bootDay \/ bootDay' = Append(bootDay, today),
         faults' \in [short : Nat, empty : Nat],
         faults'.short = faults.short, faults.empty <= faults'.empty,
         \/ started' = started
         \/ /\ started' = started \cup {boot}
            /\ ("boot_id" \in host => Recorded(boot)) \/ faults'.empty = faults.empty + 1,
         process' = "recording" =>
           bootDay' = bootDay /\ ("boot_id" \in host => ~Recorded(boot))
  PROVE  HistInv'
<1>1. HistTypes /\ boot \in Nat /\ 1 <= boot /\ started \in SUBSET (1 .. boot)
      /\ faults.short \in Nat /\ faults.empty \in Nat /\ lines \in Seq(Line)
  BY HistIndices DEF HistInv, HistTypes
<1>2. /\ bootDay' \in Seq(Nat) /\ bootDay' # << >> /\ boot' \in Nat /\ boot <= boot'
      /\ \A S \in SUBSET (1 .. boot) : S \in SUBSET (1 .. boot') /\ S \cup {boot} \in SUBSET (1 .. boot')
      /\ \A l \in Line : LineWell(l) => LineWell(l)'
  BY <1>1, BootsGrow
<1>3. HistTypes'
  <2>1. started' \in SUBSET (1 .. boot')
    BY <1>1, <1>2
  <2>2. openLine' \in BOOLEAN /\ (openLine' => lines' # << >>) /\ lines' \in Seq(Line)
    BY DEF HistInv, HistTypes
  <2> QED
    BY <1>2, <2>1, <2>2 DEF HistTypes
<1>4. Parsed' = Parsed /\ \A b : Recorded(b)' <=> Recorded(b)
  BY DEF Parsed, Recorded, Garbage, NoStamp
<1>5. \A i \in DOMAIN lines' : LineWell(lines[i])'
  <2>1. \A i \in DOMAIN lines : lines[i] \in Line
    BY <1>1, LenProperties
  <2> QED
    BY <1>2, <2>1 DEF HistInv
<1>6. ASSUME "boot_id" \in host PROVE OnePerBoot' /\ (process' = "recording" => ~Recorded(boot)') /\ Paid'
  <2>1. OnePerBoot'
    BY <1>4, <1>6 DEF HistInv, OnePerBoot
  <2>2. process' = "recording" => ~Recorded(boot)'
    BY <1>4, <1>6 DEF boot, Recorded
  <2>3. Paid'
    <3>1. IsFiniteSet(Missing) /\ Cardinality(Missing) \in Nat /\ Owed \in Nat
      BY <1>1, MissingIsFinite
    <3>2. Owed' = Owed
      BY DEF Owed, Garbage, NoStamp
    <3>3. Paid
      BY <1>6 DEF HistInv
    <3>4. CASE started' = started \/ (started' = started \cup {boot} /\ Recorded(boot))
      <4>1. Missing' = Missing
        BY <1>4, <3>4 DEF Missing
      <4> QED
        BY <1>1, <3>1, <3>2, <3>3, <4>1 DEF Paid, HistTypes
    <3>5. CASE started' = started \cup {boot} /\ faults'.empty = faults.empty + 1
      <4>1. Missing' \subseteq Missing \cup {boot}
        BY <1>4, <3>5 DEF Missing
      <4>2. Cardinality(Missing') <= Cardinality(Missing) + 1 /\ Cardinality(Missing') \in Nat
        BY <3>1, <4>1, OneMoreMissing
      <4>3. Cardinality(Missing) + Owed <= 2 * faults.short + faults.empty
        BY <3>3 DEF Paid
      <4>4. faults'.short = faults.short /\ faults.short \in Nat /\ faults.empty \in Nat
        BY <1>1
      <4>5. Cardinality(Missing') + Owed' <= 2 * faults'.short + faults'.empty
        BY <3>1, <3>2, <3>5, <4>2, <4>3, <4>4
      <4> QED
        BY <4>5 DEF Paid
    <3> QED
      BY <1>6, <3>4, <3>5
  <2> QED
    BY <2>1, <2>2, <2>3
<1> QED
  BY <1>3, <1>5, <1>6 DEF HistInv

\* What a write may cost at the time, before it is known how it ends.
LEMMA WriteCosts ==
  ASSUME HistInv, "boot_id" \in host, NEW stamp \in Stamps, NEW e \in {Event(stamp), Garbage},
         lines' = IF openLine THEN [lines EXCEPT ![Len(lines)] = Garbage] ELSE Append(lines, e),
         ~Recorded(boot), boot <= boot', boot' \in Nat,
         started' = started \/ started' = started \cup {boot}
  PROVE  /\ OnePerBoot'
         /\ Cardinality(Missing') \in Nat
         /\ openLine => Cardinality(Missing') <= Cardinality(Missing) + Owed
         /\ ~openLine => Cardinality(Missing') <= Cardinality(Missing) + IF e = Garbage THEN 1 ELSE 0
<1>1. /\ HistTypes /\ OnePerBoot /\ IsFiniteSet(Missing) /\ Cardinality(Missing) \in Nat
      /\ boot \in Nat /\ Garbage \in Line /\ e \in Line
  BY HistIndices, MissingIsFinite, EventIsLine DEF HistInv
<1>2. CASE openLine
  <2> DEFINE x == lines[Len(lines)].of
  <2>1. /\ Parsed' = Parsed \ {Len(lines)} /\ \A i \in Parsed' : lines'[i] = lines[i]
    BY <1>1, <1>2, GluedLines
  <2>2. OnePerBoot'
    <3> SUFFICES ASSUME NEW i \in Parsed', NEW j \in Parsed', lines'[i].of = lines'[j].of
                 PROVE  i = j
      BY DEF OnePerBoot
    <3>1. i \in Parsed /\ j \in Parsed /\ lines[i].of = lines[j].of
      BY <2>1
    <3> QED
      BY <1>1, <3>1 DEF OnePerBoot
  <2>3. \A b : Recorded(b) => Recorded(b)' \/ (Len(lines) \in Parsed /\ b = x)
    BY <2>1 DEF Recorded
  <2>4. CASE Len(lines) \in Parsed
    <3>1. Missing' \subseteq (Missing \cup {x}) \cup {boot}
      BY <2>3 DEF Missing
    <3>2. IsFiniteSet(Missing \cup {x}) /\ Cardinality(Missing \cup {x}) <= Cardinality(Missing) + 1
      BY <1>1, OneMoreMissing
    <3>3. /\ Cardinality(Missing') <= Cardinality(Missing \cup {x}) + 1
          /\ Cardinality(Missing') \in Nat /\ Cardinality(Missing \cup {x}) \in Nat
      <4> DEFINE M == Missing \cup {x}
      <4>1. IsFiniteSet(M) /\ Missing' \in SUBSET (M \cup {boot})
        BY <3>1, <3>2
      <4> HIDE DEF M
      <4>2. Cardinality(Missing') <= Cardinality(M) + 1 /\ Cardinality(Missing') \in Nat /\ Cardinality(M) \in Nat
        BY <4>1, OneMoreMissing
      <4> QED
        BY <4>2 DEF M
    <3>4. Owed = 2
      BY <1>2, <2>4 DEF Owed, Parsed
    <3> QED
      BY <1>1, <1>2, <2>2, <3>2, <3>3, <3>4
  <2>5. CASE Len(lines) \notin Parsed
    <3>1. Missing' \subseteq Missing \cup {boot}
      BY <2>3, <2>5 DEF Missing
    <3>2. Cardinality(Missing') <= Cardinality(Missing) + 1 /\ Cardinality(Missing') \in Nat
      BY <1>1, <3>1, OneMoreMissing
    <3>3. Owed = 1
      <4>1. Len(lines) \in DOMAIN lines
        BY <1>1, <1>2, HistIndices
      <4> QED
        BY <1>2, <2>5, <4>1 DEF Owed, Parsed
    <3> QED
      BY <1>1, <1>2, <2>2, <3>2, <3>3
  <2> QED
    BY <2>4, <2>5
<1>3. CASE ~openLine
  <2>1. /\ Len(lines) + 1 \notin Parsed
        /\ Parsed' = Parsed \cup (IF e = Garbage THEN {} ELSE {Len(lines) + 1})
        /\ \A i \in Parsed : lines'[i] = lines[i]
        /\ lines'[Len(lines) + 1] = e
    BY <1>1, <1>3, AddedLine
  <2>2. \A b : Recorded(b) => Recorded(b)'
    BY <2>1 DEF Recorded
  <2>3. CASE e = Garbage
    <3>1. OnePerBoot'
      <4> SUFFICES ASSUME NEW i \in Parsed', NEW j \in Parsed', lines'[i].of = lines'[j].of
                   PROVE  i = j
        BY DEF OnePerBoot
      <4>1. i \in Parsed /\ j \in Parsed /\ lines[i].of = lines[j].of
        BY <2>1, <2>3
      <4> QED
        BY <1>1, <4>1 DEF OnePerBoot
    <3>2. Missing' \subseteq Missing \cup {boot}
      BY <2>2 DEF Missing
    <3>3. Cardinality(Missing') <= Cardinality(Missing) + 1 /\ Cardinality(Missing') \in Nat
      BY <1>1, <3>2, OneMoreMissing
    <3> QED
      BY <1>3, <2>3, <3>1, <3>3
  <2>4. CASE e # Garbage
    <3>1. e.of = boot
      BY <1>1, <2>4, EventIsLine
    <3>2. OnePerBoot'
      <4>1. \A i \in Parsed : lines'[i].of # boot
        BY <2>1 DEF Recorded
      <4> SUFFICES ASSUME NEW i \in Parsed', NEW j \in Parsed', lines'[i].of = lines'[j].of
                   PROVE  i = j
        BY DEF OnePerBoot
      <4>2. ASSUME NEW k \in Parsed'
            PROVE  \/ k \in Parsed /\ lines'[k].of = lines[k].of /\ lines[k].of # boot
                   \/ k = Len(lines) + 1 /\ lines'[k].of = boot
        BY <2>1, <2>4, <3>1, <4>1
      <4> QED
        BY <1>1, <4>2 DEF OnePerBoot
    <3>4. Missing' \in SUBSET Missing
      <4>1. \E i \in Parsed' : lines'[i].of = boot
        BY <2>1, <2>4, <3>1
      <4>2. ASSUME NEW b \in started', \A i \in Parsed' : lines'[i].of # b
            PROVE  b \in started /\ ~Recorded(b)
        <5>1. b # boot
          BY <4>1, <4>2
        <5>2. b \in started
          BY <2>2, <4>2, <5>1
        <5>3. \A i \in Parsed : i \in Parsed' /\ lines'[i].of = lines[i].of
          BY <2>1
        <5>4. \A i \in Parsed : lines[i].of # b
          BY <4>2, <5>3
        <5> QED
          BY <5>2, <5>4 DEF Recorded
      <4> QED
        BY <4>2 DEF Missing, Recorded
    <3>5. Cardinality(Missing') <= Cardinality(Missing) /\ IsFiniteSet(Missing')
      BY <1>1, <3>4, FS_Subset
    <3>6. Cardinality(Missing') \in Nat
      BY <3>5, FS_CardinalityType
    <3> QED
      BY <1>1, <1>3, <2>4, <3>2, <3>5, <3>6
  <2> QED
    BY <2>3, <2>4
<1> QED
  BY <1>2, <1>3

\* A step that writes a line, and pays if the line has no end.
LEMMA WriteKeepsInv ==
  ASSUME HistInv, NEW stamp \in Stamps, NEW e \in {Event(stamp), Garbage},
         process = "recording", process' # "recording",
         lines' = IF openLine THEN [lines EXCEPT ![Len(lines)] = Garbage] ELSE Append(lines, e),
         host' = host, today' = today,
         bootDay' = bootDay \/ bootDay' = Append(bootDay, today),
         started' = started \/ started' = started \cup {boot},
         \/ openLine' = FALSE /\ faults' = faults /\ e = Event(stamp)
         \/ openLine' = TRUE /\ faults' = [faults EXCEPT !.short = @ + 1]
  PROVE  HistInv'
<1>1. /\ HistTypes /\ boot \in Nat /\ 1 <= boot /\ started \in SUBSET (1 .. boot) /\ today \in Nat
      /\ faults \in [short : Nat, empty : Nat]
      /\ faults.short \in Nat /\ faults.empty \in Nat /\ lines \in Seq(Line)
      /\ Garbage \in Line /\ e \in Line /\ LineWell(e)
  <2>1. LineWell(Garbage)
    BY DEF LineWell
  <2> QED
    BY <2>1, HistIndices, EventIsLine DEF HistInv, HistTypes
<1>2. /\ bootDay' \in Seq(Nat) /\ bootDay' # << >> /\ boot' \in Nat /\ boot <= boot'
      /\ \A S \in SUBSET (1 .. boot) : S \in SUBSET (1 .. boot') /\ S \cup {boot} \in SUBSET (1 .. boot')
      /\ \A l \in Line : LineWell(l) => LineWell(l)'
  BY <1>1, BootsGrow
<1>3. /\ faults' \in [short : Nat, empty : Nat] /\ faults'.empty = faults.empty
      /\ faults'.short = IF openLine' THEN faults.short + 1 ELSE faults.short
      /\ openLine' \in BOOLEAN
  <2>1. CASE openLine' = FALSE
    BY <1>1, <2>1
  <2>2. CASE openLine' = TRUE
    BY <1>1, <2>2
  <2> QED
    BY <2>1, <2>2
<1>4. lines' \in Seq(Line) /\ lines' # << >>
  <2>1. CASE openLine
    BY <1>1, <2>1, GluedLines
  <2>2. CASE ~openLine
    BY <1>1, <2>2, AddedLine
  <2> QED
    BY <2>1, <2>2
<1>5. HistTypes'
  <2>1. started' \in SUBSET (1 .. boot')
    BY <1>1, <1>2
  <2> QED
    BY <1>1, <1>2, <1>3, <1>4, <2>1 DEF HistTypes
<1>6. ASSUME NEW i \in DOMAIN lines' PROVE LineWell(lines[i])'
  <2>1. CASE openLine
    <3>1. DOMAIN lines' = DOMAIN lines /\ lines'[i] \in {lines[i], Garbage}
      BY <2>1, <1>6, HistIndices, <1>1
    <3>2. lines[i] \in Line /\ LineWell(lines[i])
      BY <1>1, <1>6, <3>1, LenProperties DEF HistInv
    <3>3. LineWell(Garbage)
      BY DEF LineWell
    <3> QED
      BY <1>1, <1>2, <3>1, <3>2, <3>3
  <2>2. CASE ~openLine
    <3>1. /\ Len(lines) \in Nat /\ DOMAIN lines = 1 .. Len(lines) /\ DOMAIN lines' = 1 .. Len(lines')
          /\ Len(lines') = Len(lines) + 1
          /\ \A j \in 1 .. Len(lines) : lines'[j] = lines[j]
          /\ lines'[Len(lines) + 1] = e
      <4>1. lines' = Append(lines, e) /\ lines \in Seq(Line) /\ e \in Line
        BY <1>1, <2>2
      <4>2. /\ Len(lines') = Len(lines) + 1
            /\ \A j \in 1 .. Len(lines) : lines'[j] = lines[j]
            /\ lines'[Len(lines) + 1] = e
        BY <4>1, AppendProperties
      <4>3. DOMAIN lines' = 1 .. Len(lines')
        BY <1>4, LenProperties
      <4>4. Len(lines) \in Nat /\ DOMAIN lines = 1 .. Len(lines)
        BY <4>1, LenProperties
      <4> QED
        BY <4>2, <4>3, <4>4
    <3>2. i \in DOMAIN lines \/ i = Len(lines) + 1
      <4>1. i \in 1 .. Len(lines) + 1
        BY <1>6, <3>1
      <4>2. ASSUME NEW n \in Nat, NEW k \in 1 .. n + 1
            PROVE  k \in 1 .. n \/ k = n + 1
        OBVIOUS
      <4> QED
        BY <3>1, <4>1, <4>2
    <3>3. CASE i \in DOMAIN lines
      <4>1. lines'[i] = lines[i] /\ lines[i] \in Line /\ LineWell(lines[i])
        <5>1. i \in 1 .. Len(lines)
          BY <3>1, <3>3
        <5>2. lines[i] \in Line
          BY <1>1, <5>1, ElementOfSeq
        <5> QED
          BY <3>1, <3>3, <5>1, <5>2 DEF HistInv
      <4> QED
        BY <1>2, <4>1
    <3>4. CASE i = Len(lines) + 1
      BY <1>1, <1>2, <3>1, <3>4
    <3> QED
      BY <3>2, <3>3, <3>4
  <2> QED
    BY <2>1, <2>2
<1>7. ASSUME "boot_id" \in host PROVE OnePerBoot' /\ Paid'
  <2>1. ~Recorded(boot) /\ Paid
    BY <1>7 DEF HistInv
  <2>2. /\ OnePerBoot'
        /\ Cardinality(Missing') \in Nat
        /\ openLine => Cardinality(Missing') <= Cardinality(Missing) + Owed
        /\ ~openLine => Cardinality(Missing') <= Cardinality(Missing) + IF e = Garbage THEN 1 ELSE 0
    BY <1>2, <1>7, <2>1, WriteCosts
  <2>3. Cardinality(Missing) \in Nat /\ Owed \in Nat
    BY <1>1, MissingIsFinite
  <2>4. /\ openLine => Owed' = (IF openLine' THEN 1 ELSE 0)
        /\ ~openLine => Owed = 0 /\ Owed' = (IF openLine' THEN (IF e = Garbage THEN 1 ELSE 2) ELSE 0)
    <3>1. Garbage' = Garbage
      BY DEF Garbage, NoStamp
    <3>2. CASE openLine
      <4>1. lines'[Len(lines')] = Garbage
        BY <1>1, <3>2, GluedLines
      <4> QED
        BY <3>1, <3>2, <4>1 DEF Owed
    <3>3. CASE ~openLine
      <4>1. lines'[Len(lines')] = e
        BY <1>1, <3>3, AddedLine
      <4> QED
        BY <3>1, <3>3, <4>1 DEF Owed
    <3> QED
      BY <3>2, <3>3
  <2>5. Event(stamp) # Garbage
    BY <1>1, EventIsLine
  <2>6. Owed' \in Nat
    BY <1>5 DEF Owed
  <2>7. Cardinality(Missing') + Owed' <= 2 * faults'.short + faults'.empty
    <3>1. Cardinality(Missing) + Owed <= 2 * faults.short + faults.empty
      BY <2>1 DEF Paid
    <3>2. CASE openLine' = FALSE
      <4>1. Owed' = 0 /\ e # Garbage /\ faults'.short = faults.short
        BY <1>3, <2>4, <2>5, <3>2
      <4>2. Cardinality(Missing') <= Cardinality(Missing) + Owed
        BY <2>2, <2>3, <2>4, <4>1
      <4> QED
        BY <1>1, <1>3, <2>2, <2>3, <3>1, <4>1, <4>2
    <3>3. CASE openLine' = TRUE
      <4>1. faults'.short = faults.short + 1
        BY <1>3, <3>3
      <4>2. Cardinality(Missing') + Owed' <= Cardinality(Missing) + Owed + 2
        BY <2>2, <2>3, <2>4, <3>3
      <4>3. /\ faults.short \in Nat /\ faults'.empty = faults.empty /\ faults.empty \in Nat
            /\ Cardinality(Missing') \in Nat
        BY <1>1, <1>3, <2>2
      <4> QED
        BY <2>3, <2>6, <3>1, <4>1, <4>2, <4>3
    <3> QED
      BY <1>3, <3>2, <3>3
  <2> QED
    BY <2>2, <2>7 DEF Paid
<1> QED
  BY <1>5, <1>6, <1>7 DEF HistInv

\* The invariant of the history holds throughout.
THEOREM HistInvariant == HistSpec => []HistInv
<1>1. HistInit => HistInv
  <2> SUFFICES ASSUME HistInit PROVE HistInv
    OBVIOUS
  <2>1. bootDay = <<0>> /\ lines = << >> /\ openLine = FALSE /\ started = {} /\ process = "down"
    BY DEF HistInit
  <2>2. HistTypes
    <3>1. today \in Nat /\ faults \in [short : Nat, empty : Nat]
      BY DEF HistInit
    <3>2. bootDay \in Seq(Nat) /\ bootDay # << >>
      BY <2>1
    <3>3. lines \in Seq(Line)
      BY <2>1, EmptySeq
    <3> QED
      BY <2>1, <3>1, <3>2, <3>3 DEF HistTypes
  <2>3. DOMAIN lines = {} /\ Parsed = {}
    BY <2>1 DEF Parsed
  <2>4. Cardinality(Missing) + Owed <= 2 * faults.short + faults.empty
    <3>1. Missing = {} /\ Owed = 0 /\ faults.short = 0 /\ faults.empty = 0
      BY <2>1 DEF Missing, Owed, HistInit
    <3>2. Cardinality(Missing) = 0
      BY <3>1, FS_EmptySet
    <3> QED
      BY <3>1, <3>2
  <2> QED
    BY <2>1, <2>2, <2>3, <2>4 DEF HistInv, OnePerBoot, Paid
<1>2. HistInv /\ [HistNext]_histVars => HistInv'
  <2> SUFFICES ASSUME HistInv, [HistNext]_histVars PROVE HistInv'
    OBVIOUS
  <2>1. HistTypes /\ today \in Nat /\ faults \in [short : Nat, empty : Nat]
        /\ faults.short \in Nat /\ faults.empty \in Nat
    BY HistIndices DEF HistInv, HistTypes
  <2>2. CASE NextDay
    BY <2>1, <2>2, QuietKeepsInv DEF NextDay, HistInv
  <2>3. CASE Reboot
    BY <2>1, <2>3, QuietKeepsInv DEF Reboot
  <2>4. CASE StopProcess \/ StartProcess \/ ViewReboots \/ UNCHANGED histVars
    BY <2>1, <2>4, QuietKeepsInv DEF StopProcess, StartProcess, ViewReboots, histVars, HistInv
  <2>5. ASSUME NEW stamp \in Stamps, Check(stamp) PROVE HistInv'
    <3>1. CASE Contains(Event(stamp))
      <4>1. "boot_id" \in host => Recorded(boot)
        BY <3>1, ContainedIsRecorded
      <4> QED
        BY <2>1, <2>5, <3>1, <4>1, QuietKeepsInv DEF Check
    <3>2. CASE ~Contains(Event(stamp))
      <4>1. "boot_id" \in host => ~Recorded(boot)
        BY <3>2, ContainedIsRecorded
      <4> QED
        BY <2>1, <2>5, <3>2, <4>1, QuietKeepsInv DEF Check
    <3> QED
      BY <3>1, <3>2
  <2>6. ASSUME NEW stamp \in Stamps, Record(stamp) PROVE HistInv'
    <3> DEFINE e == Event(stamp)
    <3>1. /\ process = "recording" /\ process' = "running" /\ openLine' = FALSE
          /\ lines' = IF openLine THEN [lines EXCEPT ![Len(lines)] = Garbage] ELSE Append(lines, e)
          /\ started' = started \cup {boot}
          /\ UNCHANGED <<host, today, bootDay, faults>>
      BY <2>6 DEF Record, Written
    <3> HIDE DEF e
    <3>2. e = Event(stamp)
      BY DEF e
    <3> QED
      BY <3>1, <3>2, WriteKeepsInv
  <2>7. ASSUME NEW stamp \in Stamps, RecordShort(stamp) PROVE HistInv'
    <3>1. PICK e \in {Event(stamp), Garbage} : Written(e, TRUE)
      BY <2>7 DEF RecordShort
    <3>2. /\ process = "recording" /\ process' = "running" /\ openLine' = TRUE
          /\ lines' = IF openLine THEN [lines EXCEPT ![Len(lines)] = Garbage] ELSE Append(lines, e)
          /\ started' = started \cup {boot}
          /\ faults' = [faults EXCEPT !.short = @ + 1]
          /\ UNCHANGED <<host, today, bootDay>>
      BY <2>7, <3>1 DEF RecordShort, Written
    <3> QED
      BY <3>2, WriteKeepsInv
  <2>8. ASSUME NEW stamp \in Stamps, PowerCut(stamp) PROVE HistInv'
    <3>1. PICK e \in {Event(stamp), Garbage} : Written(e, TRUE)
      BY <2>8 DEF PowerCut
    <3>2. /\ process = "recording" /\ process' = "down" /\ openLine' = TRUE
          /\ lines' = IF openLine THEN [lines EXCEPT ![Len(lines)] = Garbage] ELSE Append(lines, e)
          /\ bootDay' = Append(bootDay, today)
          /\ faults' = [faults EXCEPT !.short = @ + 1]
          /\ UNCHANGED <<host, today, started>>
      BY <2>8, <3>1 DEF PowerCut, Written
    <3> QED
      BY <3>2, WriteKeepsInv
  <2>9. CASE RecordFails
    <3>1. /\ faults' \in [short : Nat, empty : Nat]
          /\ faults'.short = faults.short /\ faults'.empty = faults.empty + 1
      BY <2>1, <2>9 DEF RecordFails
    <3> QED
      BY <2>1, <2>9, <3>1, QuietKeepsInv DEF RecordFails
  <2> QED
    BY <2>2, <2>3, <2>4, <2>5, <2>6, <2>7, <2>8, <2>9 DEF HistNext
<1> QED
  BY <1>1, <1>2, PTL DEF HistSpec

\* Where the host tells its boot_id the history has one record of a boot at most, and
\* what it misses the faults account for.
THEOREM HistoryIsComplete == HistSpec => []HistoryHoldsEachBoot
<1>1. HistInv => HistoryHoldsEachBoot
  <2> SUFFICES ASSUME HistInv, "boot_id" \in host
               PROVE  OnePerBoot /\ Cardinality(Missing) <= 2 * faults.short + faults.empty
    BY DEF HistoryHoldsEachBoot, OnePerBoot, Missing
  <2>1. OnePerBoot /\ Paid /\ HistTypes
    BY DEF HistInv
  <2>2. /\ Cardinality(Missing) \in Nat /\ Owed \in Nat
        /\ faults.short \in Nat /\ faults.empty \in Nat
    BY <2>1, MissingIsFinite, HistIndices
  <2> QED
    BY <2>1, <2>2 DEF Paid
<1> QED
  BY <1>1, HistInvariant, PTL

\* What the heat map takes from the history are the boots of the host, each on its day.
THEOREM HeatMapShowsBoots == HistSpec => []HeatMapCountsBoots
<1>1. HistInv => HeatMapCountsBoots
  <2> SUFFICES ASSUME HistInv, host = {"boot_id", "uptime"}, NEW d \in Days
               PROVE  HistoryCount(d) = Cardinality({b \in 1 .. boot : bootDay[b] = d /\ Recorded(b)})
    BY DEF HeatMapCountsBoots
  <2> DEFINE S == {i \in Parsed : lines[i].day = d /\ FirstOfItsBoot(i)}
             T == {b \in 1 .. boot : bootDay[b] = d /\ Recorded(b)}
             f == [i \in S |-> lines[i].of]
  <2>1. HistTypes /\ OnePerBoot /\ "boot_id" \in host /\ "uptime" \in host
    BY DEF HistInv
  <2>2. ASSUME NEW i \in Parsed
        PROVE  /\ lines[i].of \in 1 .. boot /\ lines[i].boot_id = lines[i].of
               /\ lines[i].day = bootDay[lines[i].of]
    BY <2>1 DEF HistInv, Parsed, LineWell
  <2>3. ASSUME NEW i \in Parsed PROVE FirstOfItsBoot(i)
    <3>1. lines[i].boot_id # 0
      BY <2>1, <2>2, HistIndices
    <3>2. \A j \in Parsed : j < i => lines[j].boot_id # lines[i].boot_id
      <4>1. \A j \in Parsed : j < i => j # i
        BY <2>1, HistIndices DEF Parsed
      <4> QED
        BY <2>1, <2>2, <4>1 DEF OnePerBoot
    <3> QED
      BY <3>1, <3>2 DEF FirstOfItsBoot
  <2>4. IsFiniteSet(S)
    <3>1. IsFiniteSet(DOMAIN lines)
      BY <2>1, HistIndices, FS_Interval
    <3> QED
      BY <3>1, FS_Subset DEF Parsed
  <2>5. f \in [S -> T]
    BY <2>2 DEF Recorded
  <2>6. \A i, j \in S : f[i] = f[j] => i = j
    BY <2>1 DEF OnePerBoot
  <2>7. \A b \in T : \E i \in S : f[i] = b
    <3> SUFFICES ASSUME NEW b \in T PROVE \E i \in S : f[i] = b
      OBVIOUS
    <3>1. PICK i \in Parsed : lines[i].of = b
      BY DEF Recorded
    <3>2. i \in S
      BY <2>2, <2>3, <3>1
    <3> QED
      BY <3>1, <3>2
  <2> HIDE DEF S, T, f
  <2>8. f \in Bijection(S, T)
    BY <2>5, <2>6, <2>7 DEF Bijection, Injection, Surjection, IsInjective
  <2>9. Cardinality(T) = Cardinality(S)
    BY <2>4, <2>8, FS_Bijection DEF ExistsBijection
  <2> QED
    BY <2>9 DEF S, T, HistoryCount
<1> QED
  BY <1>1, HistInvariant, PTL

-------------------------------------------------------------------------------
(* The branding (Branding).                                                *)

\* A logo, a body, what is kept, and the branding part of a page.
Logo == [kind : {"data", "url", "none"}, size : Nat]
Body == [b64 : Logo, url : Logo,
         color : {"default", "custom", "empty", "malformed", "reset", "nothing"}]
KeptBrand == [b64 : Logo, url : Logo, color : {"default", "custom"}]
Page == [src : Logo, b64 : Logo, url : Logo]
Asked == [page : Editors \cup {NoPage}, body : Body,
          answer : {"none", "failed", "saved", "overtaken"}, touched : BOOLEAN]

\* A page waits for what it sent; what was sent is what the fields hold as long as
\* they have not been touched; and what was saved last is what the file holds.
AskedWell(c) ==
  /\ c.body = Nothing => c.page = NoPage /\ c.answer = "none"
  /\ c.page \in Editors /\ c.body \notin {Nothing, Reset} /\ ~c.touched =>
       editor[c.page].b64 = c.body.b64 /\ editor[c.page].url = c.body.url
  /\ c.answer = "saved" => brandFile = Stored(c.body)

\* An update that holds the mutex has changed the branding to what was sent.
UpdateWell(k) ==
  /\ brandUp
  /\ brandCall[k].body # Nothing /\ brandCall[k].answer = "none"
  /\ brand = Stored(brandCall[k].body)

\* The inductive invariant: the branding, the file, the pages and their requests.
BrandInv ==
  /\ brandUp \in BOOLEAN /\ brandClean \in BOOLEAN
  /\ brand \in KeptBrand /\ brandFile \in KeptBrand \cup {Nothing}
  /\ brandUpdate \in SUBSET BrandCalls
  /\ \A k, other \in brandUpdate : k = other
  /\ editor \in [Editors -> Page]
  /\ brandCall \in [BrandCalls -> Asked]
  /\ \A k \in BrandCalls : AskedWell(brandCall[k])
  /\ \A k \in brandUpdate : UpdateWell(k)
  /\ BrandingSurvivesRestart

\* The logos, and the requests with them.
LEMMA LogosAreTyped ==
  /\ NoLogo \in Logo /\ URL \in Logo
  /\ \A n \in Images : DataURI(n) \in Logo
  /\ Nothing \in Body /\ Reset \in Body /\ Nothing # Reset
  /\ DefaultBrand \in KeptBrand /\ Nothing \notin KeptBrand
<1>1. NoLogo \in Logo /\ URL \in Logo
  BY DEF NoLogo, URL, Logo
<1>2. ASSUME NEW n \in Images PROVE DataURI(n) \in Logo
  <2>1. 4 * ((n + 2) \div 3) \in Nat
    BY BrandAssumption
  <2> QED
    BY <2>1 DEF DataURI, Logo
<1>3. ASSUME NEW l \in Logo
      PROVE  /\ Brand(l, l, "nothing") \in Body /\ Brand(l, l, "reset") \in Body
             /\ Brand(l, l, "nothing") # Brand(l, l, "reset")
             /\ Brand(l, l, "default") \in KeptBrand
             /\ Brand(l, l, "nothing") \notin KeptBrand
  BY DEF Brand, Body, KeptBrand
<1> QED
  BY <1>1, <1>2, <1>3 DEF Nothing, Reset, DefaultBrand

\* What is stored can be kept in the file, and has the logo that was sent.
LEMMA StoredIsKept ==
  ASSUME NEW b \in Body
  PROVE  /\ Stored(b) \in KeptBrand
         /\ EffectiveLogo(Stored(b)) = IF b.b64 # NoLogo THEN b.b64 ELSE b.url
  BY DEF Stored, Brand, KeptBrand, Body, EffectiveLogo

\* Pages and requests change, and nothing of the server.
LEMMA PagesChange ==
  ASSUME BrandInv, UNCHANGED serverVars,
         editor' \in [Editors -> Page], brandCall' \in [BrandCalls -> Asked],
         \A k \in BrandCalls : AskedWell(brandCall[k])',
         \A k \in brandUpdate :
           brandCall'[k].body = brandCall[k].body /\ brandCall'[k].answer = brandCall[k].answer
  PROVE  BrandInv'
<1>1. ASSUME NEW k \in brandUpdate PROVE UpdateWell(k)'
  <2>1. UpdateWell(k)
    BY DEF BrandInv
  <2> QED
    BY <2>1 DEF UpdateWell, Stored, serverVars
<1> QED
  BY <1>1 DEF BrandInv, BrandingSurvivesRestart, serverVars

\* A request that nobody sent, one that is sent, and one whose page is gone.
LEMMA CallsAreTyped ==
  /\ Idle \in Asked /\ Idle.page = NoPage /\ Idle.body = Nothing /\ Idle.answer = "none"
  /\ \A p \in Editors, body \in Body :
       /\ NewCall(p, body) \in Asked
       /\ NewCall(p, body).page = p /\ NewCall(p, body).body = body
       /\ NewCall(p, body).answer = "none"
  /\ \A c \in Asked :
       /\ Left(c) \in Asked /\ Left(c).page = NoPage /\ Left(c).answer = "none"
       /\ c.answer = "none" => Left(c).body = c.body
<1>1. /\ Idle \in Asked /\ Idle.page = NoPage /\ Idle.body = Nothing /\ Idle.answer = "none"
  BY LogosAreTyped DEF Idle, NewCall, Asked
<1>2. ASSUME NEW p \in Editors, NEW body \in Body
      PROVE  /\ NewCall(p, body) \in Asked
             /\ NewCall(p, body).page = p /\ NewCall(p, body).body = body
             /\ NewCall(p, body).answer = "none"
  BY DEF NewCall, Asked
<1>3. ASSUME NEW c \in Asked
      PROVE  /\ Left(c) \in Asked /\ Left(c).page = NoPage /\ Left(c).answer = "none"
             /\ c.answer = "none" => Left(c).body = c.body
  <2>1. CASE c.answer = "none"
    BY <2>1 DEF Left, Asked
  <2>2. CASE c.answer # "none"
    BY <1>1, <2>2 DEF Left
  <2> QED
    BY <2>1, <2>2
<1> QED
  BY <1>1, <1>2, <1>3

\* The logo of a page changes under the requests it waits for.
LEMMA TouchKeepsInv ==
  ASSUME BrandInv, UNCHANGED serverVars, NEW p \in Editors, NEW e \in Page,
         editor' = [editor EXCEPT ![p] = e],
         NEW calls \in [BrandCalls -> Asked], brandCall' = Touched(calls, p),
         \A k \in BrandCalls : calls[k] \in {brandCall[k], Idle},
         \A k \in brandUpdate : calls[k] = brandCall[k]
  PROVE  BrandInv'
<1>1. editor' \in [Editors -> Page] /\ \A q \in Editors \ {p} : editor'[q] = editor[q]
  BY DEF BrandInv
<1>2. ASSUME NEW k \in BrandCalls
      PROVE  /\ brandCall'[k] \in Asked
             /\ brandCall'[k].page = calls[k].page /\ brandCall'[k].body = calls[k].body
             /\ brandCall'[k].answer = calls[k].answer
             /\ calls[k].page = p => brandCall'[k].touched
             /\ calls[k].page # p => brandCall'[k].touched = calls[k].touched
  <2>1. calls[k] \in Asked
    OBVIOUS
  <2>2. brandCall'[k] = IF calls[k].page = p THEN [calls[k] EXCEPT !.touched = TRUE] ELSE calls[k]
    BY DEF Touched
  <2>3. CASE calls[k].page = p
    BY <2>1, <2>2, <2>3 DEF Asked
  <2>4. CASE calls[k].page # p
    BY <2>1, <2>2, <2>4
  <2> QED
    BY <2>3, <2>4
<1>3. brandCall' \in [BrandCalls -> Asked]
  <2>1. brandCall' = [k \in BrandCalls |-> brandCall'[k]]
    BY DEF Touched
  <2> QED
    BY <1>2, <2>1
<1>4. ASSUME NEW k \in BrandCalls PROVE AskedWell(brandCall[k])'
  <2>1. AskedWell(brandCall[k]) /\ brandFile' = brandFile
    BY DEF BrandInv, serverVars
  <2>2. CASE calls[k] = Idle
    <3>1. calls[k].page = NoPage /\ calls[k].body = Nothing /\ calls[k].answer = "none"
      BY <2>2, CallsAreTyped
    <3> QED
      BY <1>2, <3>1 DEF AskedWell
  <2>3. CASE calls[k] = brandCall[k]
    BY <1>1, <1>2, <2>1, <2>3 DEF AskedWell, Stored
  <2> QED
    BY <2>2, <2>3
<1>5. ASSUME NEW k \in brandUpdate
      PROVE  brandCall'[k].body = brandCall[k].body /\ brandCall'[k].answer = brandCall[k].answer
  BY <1>2 DEF BrandInv
<1> QED
  BY <1>1, <1>3, <1>4, <1>5, PagesChange

\* Whatever is done to the fields of an editor.
LEMMA EditKeepsInv ==
  ASSUME BrandInv, NEW p \in Editors, NEW b64 \in Logo, NEW url \in Logo, EditLogo(p, b64, url)
  PROVE  BrandInv'
<1> DEFINE e == [editor[p] EXCEPT !.b64 = b64, !.url = url]
<1>1. e \in Page
  BY DEF BrandInv, Page
<1>2. editor' = [editor EXCEPT ![p] = e] /\ brandCall' = Touched(brandCall, p)
      /\ UNCHANGED serverVars /\ brandCall \in [BrandCalls -> Asked]
  BY DEF EditLogo, BrandInv
<1> HIDE DEF e
<1> QED
  BY <1>1, <1>2, TouchKeepsInv

\* A page that has just loaded.
LEMMA NewEditorIsTyped ==
  ASSUME NEW src \in Logo
  PROVE  NewEditor(src) \in Page
BY LogosAreTyped DEF NewEditor, Page

\* A request goes out.
LEMMA SendKeepsInv ==
  ASSUME BrandInv, NEW k \in BrandCalls, NEW p \in Editors, NEW body \in Body, Send(k, p, body),
         body # Nothing,
         body = Reset \/ (body.b64 = editor[p].b64 /\ body.url = editor[p].url)
  PROVE  BrandInv'
<1>1. /\ brandCall[k] = Idle /\ brandCall' = [brandCall EXCEPT ![k] = NewCall(p, body)]
      /\ UNCHANGED <<serverVars, editor>>
  BY DEF Send
<1>2. /\ NewCall(p, body) \in Asked
      /\ NewCall(p, body).page = p /\ NewCall(p, body).body = body
      /\ NewCall(p, body).answer = "none"
  BY CallsAreTyped
<1>3. k \notin brandUpdate
  BY <1>1, CallsAreTyped DEF BrandInv, UpdateWell
<1>4. /\ brandCall' \in [BrandCalls -> Asked] /\ brandCall'[k] = NewCall(p, body)
      /\ \A other \in BrandCalls \ {k} : brandCall'[other] = brandCall[other]
  BY <1>1, <1>2 DEF BrandInv
<1>5. ASSUME NEW other \in BrandCalls PROVE AskedWell(brandCall[other])'
  <2>1. CASE other = k
    BY <1>1, <1>2, <1>4, <2>1 DEF AskedWell
  <2>2. CASE other # k
    <3>1. AskedWell(brandCall[other]) /\ brandCall'[other] = brandCall[other]
          /\ editor' = editor /\ brandFile' = brandFile
      BY <1>1, <1>4, <2>2 DEF BrandInv, serverVars
    <3> QED
      BY <3>1 DEF AskedWell, Stored
  <2> QED
    BY <2>1, <2>2
<1>6. \A other \in brandUpdate : brandCall'[other] = brandCall[other]
  BY <1>3, <1>4 DEF BrandInv
<1>7. editor' \in [Editors -> Page] /\ UNCHANGED serverVars
  BY <1>1 DEF BrandInv
<1> QED
  BY <1>4, <1>5, <1>6, <1>7, PagesChange

\* Pages are loaded and forget their requests, or requests come to an end.
LEMMA LeaveKeepsInv ==
  ASSUME BrandInv, UNCHANGED serverVars, editor' \in [Editors -> Page],
         brandCall' \in [BrandCalls -> Asked],
         \A k \in BrandCalls :
           \/ brandCall'[k] \in {Left(brandCall[k]), Idle}
           \/ /\ brandCall'[k] = brandCall[k]
              /\ brandCall[k].page \in Editors =>
                   /\ editor'[brandCall[k].page].b64 = editor[brandCall[k].page].b64
                   /\ editor'[brandCall[k].page].url = editor[brandCall[k].page].url,
         \A k \in brandUpdate : brandCall'[k] # Idle
  PROVE  BrandInv'
<1>1. ASSUME NEW k \in BrandCalls PROVE AskedWell(brandCall[k])'
  <2>1. AskedWell(brandCall[k]) /\ brandCall[k] \in Asked /\ brandFile' = brandFile
    BY DEF BrandInv, serverVars
  <2>2. CASE brandCall'[k] \in {Left(brandCall[k]), Idle}
    <3>1. brandCall'[k].page = NoPage /\ brandCall'[k].answer = "none"
      BY <2>1, <2>2, CallsAreTyped
    <3> QED
      BY <3>1, BrandAssumption DEF AskedWell
  <2>3. CASE brandCall'[k] \notin {Left(brandCall[k]), Idle}
    BY <2>1, <2>3 DEF AskedWell, Stored
  <2> QED
    BY <2>2, <2>3
<1>2. ASSUME NEW k \in brandUpdate
      PROVE  brandCall'[k].body = brandCall[k].body /\ brandCall'[k].answer = brandCall[k].answer
  <2>1. k \in BrandCalls /\ brandCall[k] \in Asked /\ brandCall[k].answer = "none"
    BY DEF BrandInv, UpdateWell
  <2>2. brandCall'[k] \in {Left(brandCall[k]), brandCall[k]}
    BY <2>1
  <2> QED
    BY <2>1, <2>2, CallsAreTyped
<1> QED
  BY <1>1, <1>2, PagesChange

\* Nothing that a page does breaks the invariant.
LEMMA EditorKeepsInv ==
  ASSUME BrandInv, NEW p \in Editors, EditorStep(p)
  PROVE  BrandInv'
<1>1. /\ editor[p] \in Page /\ brand \in KeptBrand
      /\ editor[p].b64 \in Logo /\ editor[p].url \in Logo /\ editor[p].src \in Logo
  BY DEF BrandInv, Page
<1>2. CASE LoadBranding(p)
  <2>1. NewEditor(EffectiveLogo(brand)) \in Page
    <3>1. EffectiveLogo(brand) \in Logo
      BY <1>1 DEF EffectiveLogo, KeptBrand
    <3> QED
      BY <3>1, NewEditorIsTyped
  <2>2. /\ editor' \in [Editors -> Page] /\ \A q \in Editors \ {p} : editor'[q] = editor[q]
        /\ UNCHANGED serverVars
    BY <1>2, <2>1 DEF LoadBranding, BrandInv
  <2>3. ASSUME NEW k \in BrandCalls
        PROVE  /\ brandCall[k].page = p => brandCall'[k] = Left(brandCall[k])
               /\ brandCall[k].page # p => brandCall'[k] = brandCall[k]
    BY <1>2 DEF LoadBranding
  <2>4. brandCall' \in [BrandCalls -> Asked]
    <3>1. \A k \in BrandCalls : brandCall'[k] \in Asked
      BY <2>3, CallsAreTyped DEF BrandInv
    <3>2. brandCall' = [k \in BrandCalls |-> brandCall'[k]]
      BY <1>2 DEF LoadBranding
    <3> QED
      BY <3>1, <3>2
  <2>5. ASSUME NEW k \in brandUpdate PROVE brandCall'[k] # Idle
    <3>1. /\ k \in BrandCalls /\ brandCall[k] \in Asked
          /\ brandCall[k].answer = "none" /\ brandCall[k].body # Nothing
      BY DEF BrandInv, UpdateWell
    <3>2. brandCall'[k].body = brandCall[k].body
      BY <2>3, <3>1, CallsAreTyped
    <3> QED
      BY <3>1, <3>2, CallsAreTyped
  <2> QED
    BY <2>2, <2>3, <2>4, <2>5, LeaveKeepsInv
<1>3. CASE OpenSettings(p)
  <2>1. (IF editor[p].src.kind = "data" THEN editor[p].src ELSE NoLogo) \in Logo
    BY <1>1, LogosAreTyped
  <2> QED
    BY <1>1, <1>3, <2>1, EditKeepsInv DEF OpenSettings
<1>4. ASSUME NEW n \in Images, setBrandingLogoFromFile(p, n) PROVE BrandInv'
  BY <1>4, LogosAreTyped, EditKeepsInv DEF setBrandingLogoFromFile
<1>5. CASE applyBrandingLogoUrl(p) \/ removeBrandingLogo(p)
  BY <1>5, LogosAreTyped, EditKeepsInv DEF applyBrandingLogoUrl, removeBrandingLogo
<1>6. ASSUME NEW k \in BrandCalls, NEW color \in Colors, saveBranding(k, p, color) PROVE BrandInv'
  <2> DEFINE body == Brand(editor[p].b64, editor[p].url, color)
  <2>1. body \in Body /\ body.b64 = editor[p].b64 /\ body.url = editor[p].url
    BY <1>1, BrandAssumption DEF Brand, Body
  <2>2. body # Nothing
    BY BrandAssumption DEF Nothing, Brand
  <2>3. Send(k, p, body)
    BY <1>6 DEF saveBranding
  <2> HIDE DEF body
  <2> QED
    BY <2>1, <2>2, <2>3, SendKeepsInv
<1>7. ASSUME NEW k \in BrandCalls, resetBranding(k, p) PROVE BrandInv'
  BY <1>7, LogosAreTyped, SendKeepsInv DEF resetBranding
<1> QED
  BY <1>2, <1>3, <1>4, <1>5, <1>6, <1>7 DEF EditorStep

\* Nor does what becomes of a request.
LEMMA ReceiveKeepsInv ==
  ASSUME BrandInv, NEW k \in BrandCalls, ReceiveSaved(k) \/ ReceiveFailure(k) \/ Forget(k)
  PROVE  BrandInv'
<1>1. /\ editor \in [Editors -> Page] /\ brandCall \in [BrandCalls -> Asked]
      /\ brandCall[k] \in Asked
  BY DEF BrandInv
<1>2. k \in brandUpdate => brandCall[k].body # Nothing /\ brandCall[k].answer = "none"
  BY DEF BrandInv, UpdateWell
<1> DEFINE rest == [brandCall EXCEPT ![k] = Idle]
<1>3. /\ rest \in [BrandCalls -> Asked] /\ rest[k] = Idle
      /\ \A other \in BrandCalls \ {k} : rest[other] = brandCall[other]
  BY <1>1, CallsAreTyped
<1>4. CASE ReceiveSaved(k)
  <2> DEFINE p == brandCall[k].page
  <2>1. /\ p \in Editors /\ k \notin brandUpdate /\ UNCHANGED serverVars
    BY <1>2, <1>4 DEF ReceiveSaved
  <2>2. CASE brandCall[k].body = Reset
    <3>1. editor' = [editor EXCEPT ![p] = NewEditor(NoLogo)] /\ brandCall' = Touched(rest, p)
      BY <1>4, <2>2 DEF ReceiveSaved
    <3>2. NewEditor(NoLogo) \in Page
      BY LogosAreTyped, NewEditorIsTyped
    <3>3. \A other \in BrandCalls : rest[other] \in {brandCall[other], Idle}
      BY <1>3
    <3>4. \A other \in brandUpdate : rest[other] = brandCall[other]
      BY <1>3, <2>1 DEF BrandInv
    <3> HIDE DEF rest, p
    <3> QED
      BY <1>3, <2>1, <3>1, <3>2, <3>3, <3>4, TouchKeepsInv
  <2>3. CASE brandCall[k].body # Reset
    <3> DEFINE e == [editor[p] EXCEPT !.src = LogoAfter(k)]
    <3>1. editor' = [editor EXCEPT ![p] = e] /\ brandCall' = rest
      BY <1>4, <2>3 DEF ReceiveSaved
    <3>2. editor[p] \in Page
      BY <1>1, <2>1
    <3>3. LogoAfter(k) \in Logo
      BY <2>3, <3>2 DEF LogoAfter, EffectiveLogo, Brand, Page
    <3>4. e \in Page /\ e.b64 = editor[p].b64 /\ e.url = editor[p].url
      BY <3>2, <3>3 DEF Page
    <3> HIDE DEF e, rest, p
    <3>5. /\ editor' \in [Editors -> Page]
          /\ \A q \in Editors : editor'[q].b64 = editor[q].b64 /\ editor'[q].url = editor[q].url
      BY <1>1, <3>1, <3>4
    <3>6. \A other \in brandUpdate : brandCall'[other] # Idle
      BY <1>3, <2>1, <3>1, CallsAreTyped DEF BrandInv, UpdateWell
    <3> QED
      BY <1>3, <2>1, <3>1, <3>5, <3>6, LeaveKeepsInv
  <2> QED
    BY <2>2, <2>3
<1>5. CASE ReceiveFailure(k)
  <2>1. /\ brandCall' = [brandCall EXCEPT ![k] = Left(brandCall[k])]
        /\ UNCHANGED <<serverVars, editor>>
    BY <1>5 DEF ReceiveFailure
  <2>2. /\ brandCall' \in [BrandCalls -> Asked] /\ brandCall'[k] = Left(brandCall[k])
        /\ \A other \in BrandCalls \ {k} : brandCall'[other] = brandCall[other]
    BY <1>1, <2>1, CallsAreTyped
  <2>3. ASSUME NEW other \in brandUpdate PROVE brandCall'[other] # Idle
    <3>1. /\ other \in BrandCalls /\ brandCall[other] \in Asked
          /\ brandCall[other].answer = "none" /\ brandCall[other].body # Nothing
      BY DEF BrandInv, UpdateWell
    <3>2. brandCall'[other].body = brandCall[other].body
      BY <2>2, <3>1, CallsAreTyped
    <3> QED
      BY <3>1, <3>2, CallsAreTyped
  <2> QED
    BY <1>1, <2>1, <2>2, <2>3, LeaveKeepsInv
<1>6. CASE Forget(k)
  <2>1. /\ k \notin brandUpdate /\ brandCall' = rest /\ UNCHANGED <<serverVars, editor>>
    BY <1>6 DEF Forget
  <2> HIDE DEF rest
  <2>2. \A other \in brandUpdate : brandCall'[other] # Idle
    BY <1>3, <2>1, CallsAreTyped DEF BrandInv, UpdateWell
  <2> QED
    BY <1>1, <1>3, <2>1, <2>2, LeaveKeepsInv
<1> QED
  BY <1>4, <1>5, <1>6

\* The server takes an update up, or refuses it.
LEMMA ServeKeepsInv ==
  ASSUME BrandInv, NEW k \in BrandCalls, ServeUpdate(k)
  PROVE  BrandInv'
<1>1. brandCall[k] \in Asked /\ AskedWell(brandCall[k]) /\ brandCall[k].body \in Body
  BY DEF BrandInv, Asked
<1>2. CASE Decodes(brandCall[k].body) /\ Valid(brandCall[k].body)
  <2>1. /\ brandUp /\ brandUpdate = {}
        /\ brandCall[k].body # Nothing /\ brandCall[k].answer = "none"
        /\ brand' = Stored(brandCall[k].body) /\ brandUpdate' = {k}
        /\ UNCHANGED <<editor, brandCall, brandUp, brandFile, brandClean>>
    BY <1>2 DEF ServeUpdate
  <2>2. brand' \in KeptBrand
    BY <1>1, <2>1, StoredIsKept
  <2>3. \A other \in BrandCalls : AskedWell(brandCall[other])'
    BY <2>1 DEF BrandInv, AskedWell, Stored
  <2>4. UpdateWell(k)'
    BY <2>1 DEF UpdateWell
  <2> QED
    BY <2>1, <2>2, <2>3, <2>4 DEF BrandInv, BrandingSurvivesRestart
<1>3. CASE ~(Decodes(brandCall[k].body) /\ Valid(brandCall[k].body))
  <2> DEFINE c == [brandCall[k] EXCEPT !.answer = "failed"]
  <2>1. /\ brandUpdate = {} /\ brandCall[k].body # Nothing
        /\ brandCall' = [brandCall EXCEPT ![k] = c]
        /\ UNCHANGED <<serverVars, editor>>
    BY <1>3 DEF ServeUpdate, serverVars, BrandInv
  <2>2. /\ c \in Asked /\ c.page = brandCall[k].page /\ c.body = brandCall[k].body
        /\ c.answer = "failed" /\ c.touched = brandCall[k].touched
    BY <1>1 DEF Asked
  <2> HIDE DEF c
  <2>3. /\ brandCall' \in [BrandCalls -> Asked] /\ editor' \in [Editors -> Page]
        /\ brandCall'[k] = c
        /\ \A other \in BrandCalls \ {k} : brandCall'[other] = brandCall[other]
    BY <2>1, <2>2 DEF BrandInv
  <2>4. ASSUME NEW other \in BrandCalls PROVE AskedWell(brandCall[other])'
    <3>1. AskedWell(brandCall[other]) /\ editor' = editor /\ brandFile' = brandFile
      BY <2>1 DEF BrandInv, serverVars
    <3> QED
      BY <1>1, <2>1, <2>2, <2>3, <3>1 DEF AskedWell, Stored
  <2> QED
    BY <2>1, <2>3, <2>4, PagesChange
<1> QED
  BY <1>2, <1>3

\* A save takes the branding into the file, and overtakes the earlier ones.
LEMMA SaveKeepsInv ==
  ASSUME BrandInv, NEW k \in BrandCalls, SaveBrand(k)
  PROVE  BrandInv'
<1>1. /\ k \in brandUpdate /\ brandFile' = brand /\ brandUpdate' = {} /\ brandClean' = TRUE
      /\ brandCall' = SavedBy(k) /\ UNCHANGED <<brandUp, brand, editor>>
  BY DEF SaveBrand
<1>2. UpdateWell(k) /\ brand \in KeptBrand
  BY <1>1 DEF BrandInv
<1>3. ASSUME NEW other \in BrandCalls
      PROVE  brandCall'[other] \in Asked /\ AskedWell(brandCall[other])'
  <2> DEFINE c == brandCall[other]
             a == IF other = k THEN "saved"
                  ELSE IF c.answer = "saved" THEN "overtaken" ELSE c.answer
  <2>1. c \in Asked /\ AskedWell(c)
    BY DEF BrandInv
  <2>2. brandCall'[other] = [c EXCEPT !.answer = a]
    BY <1>1 DEF SavedBy
  <2>3. /\ a \in {"none", "failed", "saved", "overtaken"} /\ (a = "saved" <=> other = k)
        /\ other # k /\ c.answer = "none" => a = "none"
    BY <2>1 DEF Asked
  <2> HIDE DEF a
  <2>4. /\ brandCall'[other] \in Asked /\ brandCall'[other].page = c.page
        /\ brandCall'[other].body = c.body /\ brandCall'[other].touched = c.touched
        /\ brandCall'[other].answer = a
    BY <2>1, <2>2, <2>3 DEF Asked
  <2> QED
    BY <1>1, <1>2, <2>1, <2>3, <2>4 DEF AskedWell, UpdateWell, Stored
<1>4. brandCall' \in [BrandCalls -> Asked]
  <2>1. brandCall' = [other \in BrandCalls |-> brandCall'[other]]
    BY <1>1 DEF SavedBy
  <2> QED
    BY <1>3, <2>1
<1>5. brandFile' # Nothing
  BY <1>1, <1>2, LogosAreTyped
<1> QED
  BY <1>1, <1>2, <1>3, <1>4, <1>5 DEF BrandInv, BrandingSurvivesRestart

\* Requests fail, with the update that there is.
LEMMA UpdateFails ==
  ASSUME BrandInv, UNCHANGED <<brand, brandFile, editor>>, brandUpdate' = {},
         brandUp' \in BOOLEAN, brandClean' \in BOOLEAN, ~brandUp' \/ ~brandClean',
         brandCall' = [k \in BrandCalls |->
           IF k \in brandUpdate THEN [brandCall[k] EXCEPT !.answer = "failed"] ELSE brandCall[k]]
  PROVE  BrandInv'
<1>1. ASSUME NEW k \in BrandCalls
      PROVE  brandCall'[k] \in Asked /\ AskedWell(brandCall[k])'
  <2>1. brandCall[k] \in Asked /\ AskedWell(brandCall[k])
    BY DEF BrandInv
  <2>2. CASE k \notin brandUpdate
    <3>1. brandCall'[k] = brandCall[k]
      BY <2>2
    <3> QED
      BY <2>1, <3>1 DEF AskedWell, Stored
  <2>3. CASE k \in brandUpdate
    <3>1. brandCall[k].body # Nothing
      BY <2>3 DEF BrandInv, UpdateWell
    <3>2. brandCall'[k] = [brandCall[k] EXCEPT !.answer = "failed"]
      BY <2>3
    <3>3. /\ brandCall'[k] \in Asked /\ brandCall'[k].page = brandCall[k].page
          /\ brandCall'[k].body = brandCall[k].body /\ brandCall'[k].answer = "failed"
          /\ brandCall'[k].touched = brandCall[k].touched
      BY <2>1, <3>2 DEF Asked
    <3> QED
      BY <2>1, <3>1, <3>3 DEF AskedWell
  <2> QED
    BY <2>2, <2>3
<1>2. brandCall' \in [BrandCalls -> Asked]
  BY <1>1
<1> QED
  BY <1>1, <1>2 DEF BrandInv, BrandingSurvivesRestart

\* A save that fails, a crash and a start.
LEMMA FailureKeepsInv ==
  ASSUME BrandInv, BrandCrash \/ BrandStart \/ \E k \in BrandCalls : SaveBrandFails(k)
  PROVE  BrandInv'
<1>1. CASE BrandCrash
  BY <1>1, UpdateFails DEF BrandCrash, BrandInv
<1>2. CASE BrandStart
  <2>1. /\ ~brandUp /\ brandUp' = TRUE /\ brandClean' = TRUE
        /\ brand' = (IF brandFile = Nothing THEN DefaultBrand ELSE brandFile)
        /\ UNCHANGED <<brandFile, brandUpdate, editor, brandCall>>
    BY <1>2 DEF BrandStart
  <2>2. brandUpdate = {}
    BY <2>1 DEF BrandInv, UpdateWell
  <2>3. brand' \in KeptBrand
    BY <2>1, LogosAreTyped DEF BrandInv
  <2> QED
    BY <2>1, <2>2, <2>3 DEF BrandInv, BrandingSurvivesRestart, AskedWell, Stored
<1>3. ASSUME NEW k \in BrandCalls, SaveBrandFails(k) PROVE BrandInv'
  <2>1. /\ k \in brandUpdate /\ brandUpdate' = {} /\ brandClean' = FALSE
        /\ brandCall' = [brandCall EXCEPT ![k].answer = "failed"]
        /\ UNCHANGED <<brandUp, brand, brandFile, editor>>
    BY <1>3 DEF SaveBrandFails
  <2>2. brandUpdate = {k}
    BY <2>1 DEF BrandInv
  <2>3. brandCall' = [other \in BrandCalls |->
           IF other \in brandUpdate THEN [brandCall[other] EXCEPT !.answer = "failed"]
           ELSE brandCall[other]]
    BY <2>1, <2>2 DEF BrandInv
  <2>4. brandUp' \in BOOLEAN
    BY <2>1 DEF BrandInv
  <2> QED
    BY <2>1, <2>3, <2>4, UpdateFails
<1> QED
  BY <1>1, <1>2, <1>3

\* The invariant of the branding holds throughout.
THEOREM BrandInvariant == BrandSpec => []BrandInv
<1>1. BrandInit => BrandInv
  <2> SUFFICES ASSUME BrandInit PROVE BrandInv
    OBVIOUS
  <2>1. NewEditor(NoLogo) \in Page
    BY LogosAreTyped, NewEditorIsTyped
  <2> QED
    BY <2>1, LogosAreTyped, CallsAreTyped, BrandAssumption
       DEF BrandInit, BrandInv, AskedWell, BrandingSurvivesRestart
<1>2. BrandInv /\ [BrandNext]_brandVars => BrandInv'
  <2> SUFFICES ASSUME BrandInv, [BrandNext]_brandVars PROVE BrandInv'
    OBVIOUS
  <2>1. CASE UNCHANGED brandVars
    BY <2>1 DEF brandVars, serverVars, BrandInv, BrandingSurvivesRestart, AskedWell, UpdateWell,
                Stored
  <2>2. ASSUME NEW p \in Editors, EditorStep(p) PROVE BrandInv'
    BY <2>2, EditorKeepsInv
  <2>3. ASSUME NEW k \in BrandCalls, CallStep(k) PROVE BrandInv'
    BY <2>3, ReceiveKeepsInv, ServeKeepsInv, SaveKeepsInv, FailureKeepsInv DEF CallStep
  <2> QED
    BY <2>1, <2>2, <2>3, FailureKeepsInv DEF BrandNext
<1> QED
  BY <1>1, <1>2, PTL DEF BrandSpec

\* While no update has failed, a restart brings back the branding that visitors get.
THEOREM RestartKeepsBranding == BrandSpec => []BrandingSurvivesRestart
<1>1. BrandInv => BrandingSurvivesRestart
  BY DEF BrandInv
<1> QED
  BY <1>1, BrandInvariant, PTL

\* A page that is told "Branding saved." goes on to show the logo in the file, unless
\* its fields changed meanwhile or a later update was saved.
THEOREM PageShowsSavedLogo == BrandSpec => []SavedLogoIsShown
<1>1. BrandInv => SavedLogoIsShown
  <2> SUFFICES ASSUME BrandInv, NEW k \in BrandCalls, brandCall[k].page \in Editors,
                      brandCall[k].answer = "saved", ~brandCall[k].touched
               PROVE  LogoAfter(k) = EffectiveLogo(brandFile)
    BY DEF SavedLogoIsShown
  <2> DEFINE body == brandCall[k].body
             page == editor[brandCall[k].page]
  <2>1. AskedWell(brandCall[k]) /\ body \in Body /\ page \in Page
    BY DEF BrandInv, Asked
  <2>2. body # Nothing /\ brandFile = Stored(body)
    BY <2>1, BrandAssumption DEF AskedWell
  <2>3. EffectiveLogo(brandFile) = IF body.b64 # NoLogo THEN body.b64 ELSE body.url
    BY <2>1, <2>2, StoredIsKept
  <2>4. CASE body = Reset
    BY <2>3, <2>4 DEF LogoAfter, Reset, Brand
  <2>5. CASE body # Reset
    <3>1. page.b64 = body.b64 /\ page.url = body.url
      BY <2>1, <2>2, <2>5 DEF AskedWell
    <3> QED
      BY <2>3, <2>5, <3>1 DEF LogoAfter, EffectiveLogo, Brand
  <2> QED
    BY <2>4, <2>5
<1> QED
  BY <1>1, BrandInvariant, PTL

-------------------------------------------------------------------------------
(* The session cookie (SessionCookie).                                     *)

\* What a cookie may be, and whose a request.
Cookies == Emails \cup {NoCookie}
SomePerson == Persons \cup {Nobody}
CallKinds == {"none", "login", "oauth", "logout", "profile", "read"}
Stages == {"idle", "sent", "found", "admitted", "renamed", "answered"}

\* A request of the browser.
BrowserRequest ==
  [kind : CallKinds, at : Stages, token : Cookies, email : Cookies, person : SomePerson,
   cookie : Cookies, behind : SUBSET Calls, late : BOOLEAN]

\* The accounts, the browser and its requests.
CookieTypes ==
  /\ email \in [Persons -> Emails] /\ known \in SUBSET Persons
  /\ onFile \in [email : [Persons -> Emails], known : SUBSET Persons]
  /\ jar \in Cookies /\ holder \in SomePerson /\ excused \in BOOLEAN
  /\ call \in [Calls -> BrowserRequest]

\* An answer of Auth that clears the cookie.
Cleared(r) == call[r].kind \in {"read", "profile"} /\ call[r].cookie = NoCookie

\* What a request holds at each stage: a cookie only once it is answered, the record of
\* a person while the handler has one, an email where one is asked for.
CallWell(r) ==
  /\ call[r].at # "answered" => call[r].cookie = NoCookie
  /\ call[r].at \in {"found", "renamed"} => call[r].person \in Persons
  /\ call[r].at = "renamed" => call[r].kind = "profile"
  /\ call[r].kind \in {"login", "oauth", "profile"} /\ call[r].at \in {"sent", "found", "admitted"}
       => call[r].email \in Emails
  /\ call[r].at = "answered" =>
       /\ call[r].cookie = NoCookie => call[r].kind \in {"logout", "read", "profile"}
       /\ Cleared(r) => call[r].token # NoCookie

\* All requests are well formed.
CallsWell == \A r \in Calls : CallWell(r)

\* The answer to r is overtaken by one to a rename of the browser's own.
Superseded(r) ==
  \E q \in Calls \ {r} :
     \/ call[q].at = "renamed"
     \/ /\ call[q].at = "answered" /\ call[q].kind = "profile" /\ call[q].cookie # NoCookie
        /\ r \in call[q].behind

\* Without a failure users.json says what the store does.
Filed == onFile = [email |-> email, known |-> known]

\* The property, as long as nothing excuses.
JarNamesHolder == holder = Nobody \/ Renaming # {} \/ holder \in Owner(jar)

\* An answer in time that sets a cookie names the account of its person, or will be
\* followed by that of a rename.
AnswersNameTheirs ==
  \A r \in Answered :
     call[r].cookie # NoCookie /\ ~call[r].late
       => call[r].person \in Owner(call[r].cookie) \/ Superseded(r)

\* An answer of Auth in time that clears the cookie the browser has now: there is no
\* session to lose, or a rename is on its way.
ClearsAreDue ==
  \A r \in Answered :
     Cleared(r) /\ ~call[r].late /\ call[r].token = jar => holder = Nobody \/ Renaming # {}

\* An answer of Auth that comes after one that sets the very cookie it clears: the
\* latter is overtaken by that of a rename.
ClearedAfter ==
  \A q, r \in Answered :
     /\ Cleared(r) /\ ~call[r].late /\ ~call[q].late
     /\ r \notin call[q].behind /\ call[q].cookie = call[r].token
     => Superseded(q)

\* The record that a handler holds is in the map.
HoldersKnown ==
  \A r \in Calls : call[r].at \in {"found", "renamed"} => call[r].person \in known

\* All that holds as long as nothing excuses.
SessionWell ==
  Filed /\ JarNamesHolder /\ AnswersNameTheirs /\ ClearsAreDue /\ ClearedAfter /\ HoldersKnown

\* The inductive invariant: SessionKept alone says nothing of the answers on their way,
\* which become the cookie of the browser in whatever order they arrive.
CookieInv == CookieTypes /\ CallsWell /\ (~excused => SessionWell)

\* A request that goes on as it is, but for those it has overtaken.
SameButBehind(q) ==
  /\ call'[q].kind = call[q].kind /\ call'[q].at = call[q].at /\ call'[q].token = call[q].token
  /\ call'[q].email = call[q].email /\ call'[q].person = call[q].person
  /\ call'[q].cookie = call[q].cookie

\* No request.
IsFresh(c) == c.at = "idle" /\ c.kind = "none" /\ c.cookie = NoCookie /\ c.person = Nobody

\* NoCall is a request, and none.
LEMMA FreshCall == NoCall \in BrowserRequest /\ IsFresh(NoCall)
BY DEF NoCall, BrowserRequest, IsFresh, Cookies, SomePerson, CallKinds, Stages

\* What Ended does to each request.
LEMMA EndedCalls ==
  ASSUME CookieTypes, NEW r \in Calls, NEW late \in SUBSET Calls, call' = Ended(r, late)
  PROVE  /\ call' \in [Calls -> BrowserRequest] /\ IsFresh(call'[r])
         /\ \A q \in Calls : q # r =>
              /\ SameButBehind(q)
              /\ call'[q].behind = call[q].behind \ {r}
              /\ call'[q].late <=> call[q].late \/ q \in late
<1>1. call \in [Calls -> BrowserRequest]
  BY DEF CookieTypes
<1>2. \A q \in Calls : call'[q] = IF q = r THEN NoCall
         ELSE [call[q] EXCEPT !.behind = @ \ {r}, !.late = @ \/ q \in late]
  BY DEF Ended
<1>3. ASSUME NEW q \in Calls, q # r
      PROVE  /\ call'[q] \in BrowserRequest
             /\ SameButBehind(q)
             /\ call'[q].behind = call[q].behind \ {r}
             /\ call'[q].late <=> call[q].late \/ q \in late
  <2>1. call[q] \in BrowserRequest
    BY <1>1
  <2>2. call'[q] = [call[q] EXCEPT !.behind = call[q].behind \ {r},
                                   !.late = (call[q].late \/ q \in late)]
    BY <1>2, <1>3
  <2> QED
    BY <2>1, <2>2 DEF BrowserRequest, SameButBehind
<1>4. call' \in [Calls -> BrowserRequest]
  <2>1. call' = [q \in Calls |-> call'[q]]
    BY DEF Ended
  <2>2. \A q \in Calls : call'[q] \in BrowserRequest
    BY <1>2, <1>3, FreshCall
  <2> QED
    BY <2>1, <2>2
<1> QED
  BY <1>2, <1>3, <1>4, FreshCall

\* What Answer does to each request.
LEMMA AnsweredCalls ==
  ASSUME CookieTypes, NEW r \in Calls, NEW p \in SomePerson, NEW cookie \in Cookies,
         Answer(r, p, cookie)
  PROVE  /\ call' \in [Calls -> BrowserRequest]
         /\ call'[r].kind = call[r].kind /\ call'[r].at = "answered"
         /\ call'[r].token = call[r].token /\ call'[r].person = p /\ call'[r].cookie = cookie
         /\ call'[r].behind = Answered /\ ~call'[r].late
         /\ \A q \in Calls : q # r => call'[q] = call[q]
<1> DEFINE a == [NoCall EXCEPT !.kind = call[r].kind, !.at = "answered", !.token = call[r].token,
                            !.person = p, !.cookie = cookie, !.behind = Answered]
<1>1. call \in [Calls -> BrowserRequest] /\ call[r] \in BrowserRequest
  BY DEF CookieTypes
<1>2. Answered \in SUBSET Calls
  BY DEF Answered
<1>3. /\ a \in BrowserRequest
      /\ a.kind = call[r].kind /\ a.at = "answered" /\ a.token = call[r].token
      /\ a.person = p /\ a.cookie = cookie /\ a.behind = Answered /\ ~a.late
  BY <1>1, <1>2 DEF NoCall, BrowserRequest, Stages, Cookies, SomePerson
<1>4. call' = [call EXCEPT ![r] = a]
  BY DEF Answer
<1> HIDE DEF a
<1> QED
  BY <1>1, <1>3, <1>4

\* A request that ends leaves the others well formed.
LEMMA EndedWell ==
  ASSUME CookieTypes, CallsWell, NEW r \in Calls, NEW late \in SUBSET Calls, call' = Ended(r, late)
  PROVE  CallsWell'
<1> SUFFICES ASSUME NEW q \in Calls PROVE CallWell(q)'
  BY DEF CallsWell
<1>1. CASE q = r
  BY <1>1, EndedCalls DEF CallWell, IsFresh, Cleared
<1>2. CASE q # r
  <2>1. SameButBehind(q) /\ CallWell(q)
    BY <1>2, EndedCalls DEF CallsWell
  <2> QED
    BY <2>1 DEF CallWell, SameButBehind, Cleared
<1> QED
  BY <1>1, <1>2

\* A request ends that was no rename of the browser's own.
LEMMA OverKeeps ==
  ASSUME CookieInv, NEW r \in Calls, Over(r), UNCHANGED <<accounts, jar, holder>>,
         excused' \in BOOLEAN, ~excused' => ~excused /\ r \notin Renaming
  PROVE  CookieInv'
<1>1. CookieTypes /\ CallsWell /\ call' = Ended(r, {}) /\ {} \in SUBSET Calls
  BY DEF CookieInv, Over
<1>2. /\ call' \in [Calls -> BrowserRequest] /\ IsFresh(call'[r])
      /\ \A q \in Calls : q # r =>
           /\ SameButBehind(q)
           /\ call'[q].behind = call[q].behind \ {r}
           /\ call'[q].late <=> call[q].late
  BY <1>1, EndedCalls
<1>3. CookieTypes'
  BY <1>1, <1>2 DEF CookieTypes, accounts
<1>4. CallsWell'
  BY <1>1, EndedWell
<1>5. ASSUME ~excused' PROVE SessionWell'
  <2>1. SessionWell /\ r \notin Renaming
    BY <1>5 DEF CookieInv
  <2>2. Renaming' = Renaming
    BY <1>2, <2>1 DEF Renaming, IsFresh, SameButBehind
  <2>3. \A q \in Answered' : q \in Answered /\ q # r
    BY <1>2 DEF Answered, IsFresh, SameButBehind
  <2>4. ASSUME NEW q \in Calls, q # r, Superseded(q) PROVE Superseded(q)'
    <3>1. PICK w \in Calls \ {q} :
            \/ call[w].at = "renamed"
            \/ /\ call[w].at = "answered" /\ call[w].kind = "profile"
               /\ call[w].cookie # NoCookie /\ q \in call[w].behind
      BY <2>4 DEF Superseded
    <3>2. w # r
      BY <2>1, <3>1 DEF Renaming
    <3> QED
      BY <1>2, <2>4, <3>1, <3>2 DEF Superseded, SameButBehind
  <2>5. Filed' /\ JarNamesHolder'
    BY <2>1, <2>2 DEF SessionWell, Filed, JarNamesHolder, accounts, Owner
  <2>6. AnswersNameTheirs'
    <3> SUFFICES ASSUME NEW q \in Answered', call'[q].cookie # NoCookie, ~call'[q].late
                 PROVE  call'[q].person \in Owner(call[q].cookie)' \/ Superseded(q)'
      BY DEF AnswersNameTheirs
    <3>1. q \in Calls /\ q \in Answered /\ q # r
      BY <2>3 DEF Answered
    <3>2. call[q].person \in Owner(call[q].cookie) \/ Superseded(q)
      BY <1>2, <2>1, <3>1 DEF SessionWell, AnswersNameTheirs, SameButBehind
    <3> QED
      BY <1>2, <2>4, <3>1, <3>2 DEF SameButBehind, Owner, accounts
  <2>7. ClearsAreDue'
    BY <1>2, <2>1, <2>2, <2>3 DEF SessionWell, ClearsAreDue, Cleared, SameButBehind, Answered
  <2>8. ClearedAfter'
    <3> SUFFICES ASSUME NEW q \in Answered', NEW s \in Answered', Cleared(s)', ~call'[s].late,
                        ~call'[q].late, s \notin call'[q].behind, call'[q].cookie = call'[s].token
                 PROVE  Superseded(q)'
      BY DEF ClearedAfter
    <3>1. q \in Calls /\ s \in Calls /\ q \in Answered /\ q # r /\ s \in Answered /\ s # r
      BY <2>3 DEF Answered
    <3>2. Superseded(q)
      BY <1>2, <2>1, <3>1 DEF SessionWell, ClearedAfter, Cleared, SameButBehind
    <3> QED
      BY <2>4, <3>1, <3>2
  <2>9. HoldersKnown'
    BY <1>2, <2>1 DEF SessionWell, HoldersKnown, SameButBehind, IsFresh, accounts
  <2> QED
    BY <2>5, <2>6, <2>7, <2>8, <2>9 DEF SessionWell
<1> QED
  BY <1>3, <1>4, <1>5 DEF CookieInv

\* A request goes on, without an answer.
LEMMA QuietKeeps ==
  ASSUME CookieInv, NEW r \in Calls, call' \in [Calls -> BrowserRequest],
         \A q \in Calls : q # r => call'[q] = call[q],
         call[r].at \notin {"renamed", "answered"}, call'[r].at \notin {"renamed", "answered"},
         CallWell(r)', call'[r].at = "found" => call'[r].person \in known,
         UNCHANGED <<accounts, jar, holder, excused>>
  PROVE  CookieInv'
<1>1. CookieTypes'
  BY DEF CookieInv, CookieTypes, accounts
<1>2. CallsWell'
  BY DEF CookieInv, CallsWell, CallWell, Cleared
<1>3. ASSUME ~excused' PROVE SessionWell'
  <2>1. SessionWell /\ CallWell(r)
    BY <1>3 DEF CookieInv, CallsWell
  <2>2. call[r].cookie = NoCookie /\ call'[r].cookie = NoCookie
    BY <2>1 DEF CallWell
  <2>3. Answered' = Answered /\ r \notin Answered
    BY DEF Answered
  <2>4. Renaming' = Renaming
    BY <2>2 DEF Renaming
  <2>5. \A q \in Calls : Superseded(q)' <=> Superseded(q)
    BY DEF Superseded
  <2>6. \A q \in Answered : q \in Calls /\ call'[q] = call[q]
    BY <2>3 DEF Answered
  <2>7. Filed' /\ JarNamesHolder'
    BY <2>1, <2>4 DEF SessionWell, Filed, JarNamesHolder, accounts, Owner
  <2>8. AnswersNameTheirs'
    BY <2>1, <2>3, <2>5, <2>6 DEF SessionWell, AnswersNameTheirs, Owner, accounts
  <2>9. ClearsAreDue'
    BY <2>1, <2>3, <2>4, <2>6 DEF SessionWell, ClearsAreDue, Cleared
  <2>10. ClearedAfter'
    BY <2>1, <2>3, <2>5, <2>6 DEF SessionWell, ClearedAfter, Cleared
  <2>11. HoldersKnown'
    BY <2>1 DEF SessionWell, HoldersKnown, accounts
  <2> QED
    BY <2>7, <2>8, <2>9, <2>10, <2>11 DEF SessionWell
<1> QED
  BY <1>1, <1>2, <1>3 DEF CookieInv

\* A request is answered: with a cookie that names the person's account, or with none,
\* which Auth does only where no account has the email of the token.
LEMMA AnswerKeeps ==
  ASSUME CookieInv, NEW r \in Calls, NEW p \in SomePerson, NEW cookie \in Cookies,
         Answer(r, p, cookie), call[r].at # "answered",
         cookie = NoCookie => call[r].kind \in {"logout", "read", "profile"},
         call[r].at = "renamed" => cookie # NoCookie,
         call[r].kind = "profile" /\ cookie # NoCookie => call[r].at = "renamed",
         UNCHANGED <<accounts, jar, holder>>, excused' \in BOOLEAN,
         call[r].kind \in {"read", "profile"} /\ cookie = NoCookie => call[r].token # NoCookie,
         ~excused' =>
           /\ ~excused
           /\ cookie # NoCookie => p \in Owner(cookie)
           /\ call[r].kind \in {"read", "profile"} /\ cookie = NoCookie
                => Owner(call[r].token) = {}
  PROVE  CookieInv'
<1>1. CookieTypes /\ CallsWell /\ CallWell(r) /\ call \in [Calls -> BrowserRequest]
  BY DEF CookieInv, CallsWell, CookieTypes
<1>2. /\ call' \in [Calls -> BrowserRequest]
      /\ call'[r].kind = call[r].kind /\ call'[r].at = "answered"
      /\ call'[r].token = call[r].token /\ call'[r].person = p /\ call'[r].cookie = cookie
      /\ call'[r].behind = Answered /\ ~call'[r].late
      /\ \A q \in Calls : q # r => call'[q] = call[q]
  BY <1>1, AnsweredCalls
<1>3. CookieTypes'
  BY <1>1, <1>2 DEF CookieTypes, accounts
<1>4. CallsWell'
  <2> SUFFICES ASSUME NEW q \in Calls PROVE CallWell(q)'
    BY DEF CallsWell
  <2>1. CASE q = r
    BY <1>2, <2>1 DEF CallWell, Cleared
  <2>2. CASE q # r
    BY <1>1, <1>2, <2>2 DEF CallsWell, CallWell, Cleared
  <2> QED
    BY <2>1, <2>2
<1>5. ASSUME ~excused' PROVE SessionWell'
  <2>1. /\ SessionWell
        /\ cookie # NoCookie => p \in Owner(cookie)
        /\ call[r].kind \in {"read", "profile"} /\ cookie = NoCookie
             => Owner(call[r].token) = {}
    BY <1>5 DEF CookieInv
  <2>2. Renaming' = Renaming
    <3> SUFFICES ASSUME NEW q \in Calls PROVE q \in Renaming' <=> q \in Renaming
      BY DEF Renaming
    <3>1. CASE q # r
      BY <1>2, <3>1 DEF Renaming
    <3>2. CASE q = r
      BY <1>1, <1>2, <3>2 DEF Renaming, CallWell
    <3> QED
      BY <3>1, <3>2
  <2>3. Answered' = Answered \cup {r} /\ r \notin Answered
    BY <1>2 DEF Answered
  <2>4. ASSUME NEW q \in Answered, Superseded(q) PROVE Superseded(q)'
    <3>1. q \in Calls /\ q # r
      BY <2>3 DEF Answered
    <3>2. PICK w \in Calls \ {q} :
            \/ call[w].at = "renamed"
            \/ /\ call[w].at = "answered" /\ call[w].kind = "profile"
               /\ call[w].cookie # NoCookie /\ q \in call[w].behind
      BY <2>4 DEF Superseded
    <3>3. CASE w = r
      <4>1. call'[r].kind = "profile" /\ call'[r].cookie # NoCookie /\ q \in call'[r].behind
        BY <1>1, <1>2, <3>2, <3>3 DEF CallWell
      <4> QED
        BY <1>2, <3>1, <4>1 DEF Superseded
    <3>4. CASE w # r
      BY <1>2, <3>1, <3>2, <3>4 DEF Superseded
    <3> QED
      BY <3>3, <3>4
  <2>5. \A q \in Answered : q \in Calls /\ call'[q] = call[q]
    BY <1>2, <2>3 DEF Answered
  <2>6. Filed' /\ JarNamesHolder'
    BY <2>1, <2>2 DEF SessionWell, Filed, JarNamesHolder, accounts, Owner
  <2>7. AnswersNameTheirs'
    <3> SUFFICES ASSUME NEW q \in Answered', call'[q].cookie # NoCookie, ~call'[q].late
                 PROVE  call'[q].person \in Owner(call[q].cookie)' \/ Superseded(q)'
      BY DEF AnswersNameTheirs
    <3>1. CASE q = r
      BY <1>2, <2>1, <3>1 DEF Owner, accounts
    <3>2. CASE q # r
      <4>1. q \in Answered
        BY <2>3, <3>2
      <4>2. call[q].person \in Owner(call[q].cookie) \/ Superseded(q)
        BY <2>1, <2>5, <4>1 DEF SessionWell, AnswersNameTheirs
      <4> QED
        BY <2>4, <2>5, <4>1, <4>2 DEF Owner, accounts
    <3> QED
      BY <3>1, <3>2
  <2>8. ClearsAreDue'
    <3> SUFFICES ASSUME NEW q \in Answered', Cleared(q)', ~call'[q].late, call'[q].token = jar
                 PROVE  holder = Nobody \/ Renaming # {}
      BY <2>2 DEF ClearsAreDue
    <3>1. CASE q = r
      <4>1. Owner(jar) = {}
        BY <1>2, <2>1, <3>1 DEF Cleared
      <4> QED
        BY <2>1, <4>1 DEF SessionWell, JarNamesHolder
    <3>2. CASE q # r
      BY <2>1, <2>3, <2>5, <3>2 DEF SessionWell, ClearsAreDue, Cleared
    <3> QED
      BY <3>1, <3>2
  <2>9. ClearedAfter'
    <3> SUFFICES ASSUME NEW q \in Answered', NEW s \in Answered', Cleared(s)', ~call'[s].late,
                        ~call'[q].late, s \notin call'[q].behind, call'[q].cookie = call'[s].token
                 PROVE  Superseded(q)'
      BY DEF ClearedAfter
    <3>1. CallWell(s)'
      BY <1>4 DEF CallsWell, Answered
    <3>2. call'[s].token # NoCookie
      BY <3>1 DEF CallWell, Answered
    <3>3. q # s
      BY <3>2 DEF Cleared
    <3>4. CASE q = r
      BY <1>2, <2>3, <3>3, <3>4
    <3>5. CASE q # r /\ s # r
      <4>1. q \in Answered /\ s \in Answered
        BY <2>3, <3>5
      <4>2. Superseded(q)
        BY <2>1, <2>5, <4>1 DEF SessionWell, ClearedAfter, Cleared
      <4> QED
        BY <2>4, <4>1, <4>2
    <3>6. CASE q # r /\ s = r
      <4>1. q \in Answered
        BY <2>3, <3>6
      <4>2. Owner(call[q].cookie) = {} /\ call[q].cookie # NoCookie /\ ~call[q].late
        BY <1>2, <2>1, <2>5, <3>2, <3>6, <4>1 DEF Cleared
      <4>3. Superseded(q)
        BY <2>1, <4>1, <4>2 DEF SessionWell, AnswersNameTheirs
      <4> QED
        BY <2>4, <4>1, <4>3
    <3> QED
      BY <3>4, <3>5, <3>6
  <2>10. HoldersKnown'
    BY <1>2, <2>1 DEF SessionWell, HoldersKnown, accounts
  <2> QED
    BY <2>6, <2>7, <2>8, <2>9, <2>10 DEF SessionWell
<1> QED
  BY <1>3, <1>4, <1>5 DEF CookieInv

\* An answer arrives. Those it has overtaken are late from now on.
LEMMA ReceiveKeeps ==
  ASSUME CookieInv, NEW r \in Calls, ReceiveCookie(r)
  PROVE  CookieInv'
<1>1. CookieTypes /\ CallsWell /\ CallWell(r) /\ call \in [Calls -> BrowserRequest] /\ call[r] \in BrowserRequest
  BY DEF CookieInv, CallsWell, CookieTypes
<1>2. call[r].behind \in SUBSET Calls /\ call[r].cookie \in Cookies /\ call[r].person \in SomePerson
  BY <1>1 DEF BrowserRequest
<1>3. call' = Ended(r, call[r].behind) /\ call[r].at = "answered" /\ jar' = call[r].cookie
  BY DEF ReceiveCookie, Answered
<1>4. /\ call' \in [Calls -> BrowserRequest] /\ IsFresh(call'[r])
      /\ \A q \in Calls : q # r =>
           /\ SameButBehind(q)
           /\ call'[q].behind = call[q].behind \ {r}
           /\ call'[q].late <=> call[q].late \/ q \in call[r].behind
  <2> DEFINE late == call[r].behind
  <2>1. late \in SUBSET Calls /\ call' = Ended(r, late)
    BY <1>2, <1>3
  <2> HIDE DEF late
  <2>2. /\ call' \in [Calls -> BrowserRequest] /\ IsFresh(call'[r])
        /\ \A q \in Calls : q # r =>
             /\ SameButBehind(q)
             /\ call'[q].behind = call[q].behind \ {r}
             /\ call'[q].late <=> call[q].late \/ q \in late
    BY <1>1, <2>1, EndedCalls
  <2> QED
    BY <2>2 DEF late
<1>5. CookieTypes'
  <2>1. holder' \in SomePerson
    BY <1>1, <1>2 DEF ReceiveCookie, CookieTypes, SomePerson
  <2>2. excused' \in BOOLEAN
    BY DEF ReceiveCookie
  <2> QED
    BY <1>1, <1>2, <1>3, <1>4, <2>1, <2>2 DEF CookieTypes, accounts, ReceiveCookie
<1>6. CallsWell'
  BY <1>1, <1>2, <1>3, EndedWell
<1>7. ASSUME ~excused' PROVE SessionWell'
  <2>1. ~excused /\ ~call[r].late /\ ~Crossed(r)
    BY <1>7 DEF ReceiveCookie
  <2>2. SessionWell
    BY <2>1 DEF CookieInv
  <2>3. Renaming' = Renaming \ {r}
    BY <1>4 DEF Renaming, IsFresh, SameButBehind
  <2>4. \A q \in Answered' : q \in Calls /\ q \in Answered /\ q # r
    BY <1>4 DEF Answered, IsFresh, SameButBehind
  <2>5. ASSUME NEW q \in Calls, q # r, Superseded(q), q \notin call[r].behind
        PROVE  Superseded(q)'
    <3>1. PICK w \in Calls \ {q} :
            \/ call[w].at = "renamed"
            \/ /\ call[w].at = "answered" /\ call[w].kind = "profile"
               /\ call[w].cookie # NoCookie /\ q \in call[w].behind
      BY <2>5 DEF Superseded
    <3>2. w # r
      BY <1>3, <2>5, <3>1
    <3> QED
      BY <1>4, <2>5, <3>1, <3>2 DEF Superseded, SameButBehind
  <2>6. Superseded(r) => Renaming' # {}
    BY <2>3 DEF Superseded, Renaming
  <2>7. JarNamesHolder'
    <3>1. CASE call[r].kind = "logout"
      BY <3>1 DEF ReceiveCookie, JarNamesHolder
    <3>2. CASE call[r].kind # "logout" /\ call[r].cookie = NoCookie
      <4>1. Cleared(r)
        BY <1>1, <1>3, <3>2 DEF CallWell, Cleared
      <4>2. call[r].token = jar
        BY <2>1, <4>1 DEF Cleared, Crossed
      <4>3. holder = Nobody \/ Renaming # {}
        BY <1>3, <2>1, <2>2, <4>1, <4>2 DEF SessionWell, ClearsAreDue, Answered
      <4>4. r \notin Renaming
        BY <1>3, <3>2 DEF Renaming
      <4>5. holder' = holder
        BY <3>2 DEF ReceiveCookie
      <4> QED
        BY <2>3, <4>3, <4>4, <4>5 DEF JarNamesHolder
    <3>3. CASE call[r].kind # "logout" /\ call[r].cookie # NoCookie
      <4>1. call[r].person \in Owner(call[r].cookie) \/ Superseded(r)
        BY <1>3, <2>1, <2>2, <3>3 DEF SessionWell, AnswersNameTheirs, Answered
      <4>2. holder' = call[r].person
        BY <3>3 DEF ReceiveCookie
      <4> QED
        BY <1>3, <2>6, <4>1, <4>2 DEF JarNamesHolder, Owner, ReceiveCookie, accounts
    <3> QED
      BY <3>1, <3>2, <3>3
  <2>8. AnswersNameTheirs'
    <3> SUFFICES ASSUME NEW q \in Answered', call'[q].cookie # NoCookie, ~call'[q].late
                 PROVE  call'[q].person \in Owner(call[q].cookie)' \/ Superseded(q)'
      BY DEF AnswersNameTheirs
    <3>1. q \in Calls /\ q \in Answered /\ q # r
      BY <2>4
    <3>2. q \notin call[r].behind /\ SameButBehind(q) /\ ~call[q].late
      BY <1>4, <3>1
    <3>3. call[q].person \in Owner(call[q].cookie) \/ Superseded(q)
      BY <2>2, <3>1, <3>2 DEF SessionWell, AnswersNameTheirs, SameButBehind
    <3> QED
      BY <2>5, <3>1, <3>2, <3>3 DEF SameButBehind, Owner, accounts, ReceiveCookie
  <2>9. ClearsAreDue'
    <3> SUFFICES ASSUME NEW q \in Answered', Cleared(q)', ~call'[q].late, call'[q].token = jar'
                 PROVE  Renaming' # {}
      BY DEF ClearsAreDue
    <3>1. q \in Calls /\ q \in Answered /\ q # r
      BY <2>4
    <3>2. q \notin call[r].behind /\ SameButBehind(q) /\ ~call[q].late /\ Cleared(q)
      BY <1>4, <3>1 DEF Cleared, SameButBehind
    <3>3. Superseded(r)
      BY <1>3, <2>1, <2>2, <3>1, <3>2 DEF SessionWell, ClearedAfter, Answered, SameButBehind
    <3> QED
      BY <2>6, <3>3
  <2>10. ClearedAfter'
    <3> SUFFICES ASSUME NEW q \in Answered', NEW s \in Answered', Cleared(s)', ~call'[s].late,
                        ~call'[q].late, s \notin call'[q].behind, call'[q].cookie = call'[s].token
                 PROVE  Superseded(q)'
      BY DEF ClearedAfter
    <3>1. q \in Calls /\ q \in Answered /\ q # r /\ s \in Calls /\ s \in Answered /\ s # r
      BY <2>4
    <3>2. q \notin call[r].behind /\ ~call[q].late /\ ~call[s].late /\ s \notin call[q].behind
      BY <1>4, <3>1
    <3>3. Cleared(s) /\ call[q].cookie = call[s].token
      BY <1>4, <3>1 DEF SameButBehind, Cleared
    <3>4. Superseded(q)
      BY <2>2, <3>1, <3>2, <3>3 DEF SessionWell, ClearedAfter
    <3> QED
      BY <2>5, <3>1, <3>2, <3>4
  <2>11. Filed' /\ HoldersKnown'
    BY <1>4, <2>2
       DEF SessionWell, Filed, HoldersKnown, SameButBehind, IsFresh, accounts, ReceiveCookie
  <2> QED
    BY <2>7, <2>8, <2>9, <2>10, <2>11 DEF SessionWell
<1> QED
  BY <1>5, <1>6, <1>7 DEF CookieInv

\* The browser sends a request.
LEMMA SendKeeps ==
  ASSUME CookieInv, NEW r \in Calls,
         NEW kind \in CallKinds, NEW token \in Cookies, NEW e \in Cookies,
         SendCall(r, kind, token, e), kind \in {"login", "oauth", "profile"} => e \in Emails
  PROVE  CookieInv'
<1> DEFINE c == [NoCall EXCEPT !.kind = kind, !.at = "sent", !.token = token, !.email = e]
<1>1. /\ c \in BrowserRequest /\ c.kind = kind /\ c.at = "sent" /\ c.email = e /\ c.cookie = NoCookie
  BY DEF NoCall, BrowserRequest, Stages, Cookies, SomePerson
<1>2. call \in [Calls -> BrowserRequest] /\ call' = [call EXCEPT ![r] = c] /\ call[r].at = "idle"
  BY DEF CookieInv, CookieTypes, SendCall
<1> HIDE DEF c
<1>3. call' \in [Calls -> BrowserRequest] /\ call'[r] = c /\ \A q \in Calls : q # r => call'[q] = call[q]
  BY <1>1, <1>2
<1>4. CallWell(r)'
  BY <1>1, <1>3 DEF CallWell
<1>5. UNCHANGED <<accounts, jar, holder, excused>>
  BY DEF SendCall
<1> QED
  BY <1>1, <1>2, <1>3, <1>4, <1>5, QuietKeeps

\* The token expires.
LEMMA ExpireKeeps ==
  ASSUME CookieInv, Expire
  PROVE  CookieInv'
<1>1. CookieTypes /\ CallsWell /\ call \in [Calls -> BrowserRequest]
  BY DEF CookieInv, CookieTypes
<1>2. ASSUME NEW q \in Calls
      PROVE  /\ call'[q].kind = call[q].kind /\ call'[q].at = call[q].at
             /\ call'[q].email = call[q].email /\ call'[q].cookie = call[q].cookie
             /\ call[q].at # "sent" => call'[q] = call[q]
             /\ call'[q] \in BrowserRequest
  <2>1. CASE call[q].at = "sent" /\ call[q].token = jar
    <3>1. call'[q] = [call[q] EXCEPT !.token = NoCookie] /\ call[q] \in BrowserRequest
      BY <1>1, <2>1 DEF Expire
    <3> QED
      BY <2>1, <3>1 DEF BrowserRequest, Cookies
  <2>2. CASE ~(call[q].at = "sent" /\ call[q].token = jar)
    <3>1. call'[q] = call[q] /\ call[q] \in BrowserRequest
      BY <1>1, <2>2 DEF Expire
    <3> QED
      BY <3>1 DEF SameButBehind
  <2> QED
    BY <2>1, <2>2
<1>3. CookieTypes'
  <2>1. call' = [q \in Calls |-> call'[q]]
    BY DEF Expire
  <2>2. call' \in [Calls -> BrowserRequest]
    BY <1>2, <2>1
  <2> QED
    BY <1>1, <2>2 DEF CookieTypes, Expire, accounts, Cookies, SomePerson
<1>4. CallsWell'
  <2> SUFFICES ASSUME NEW q \in Calls PROVE CallWell(q)'
    BY DEF CallsWell
  <2>1. CallWell(q)
    BY <1>1 DEF CallsWell
  <2>2. CASE call[q].at = "sent"
    BY <1>2, <2>1, <2>2 DEF CallWell
  <2>3. CASE call[q].at # "sent"
    BY <1>2, <2>1, <2>3 DEF CallWell, Cleared
  <2> QED
    BY <2>2, <2>3
<1>5. ASSUME ~excused' PROVE SessionWell'
  <2>1. SessionWell
    BY <1>5 DEF CookieInv, Expire
  <2>2. Answered' = Answered /\ \A q \in Answered : q \in Calls /\ call'[q] = call[q]
    BY <1>2 DEF Answered
  <2>3. Renaming' = Renaming
    BY <1>2 DEF Renaming
  <2>4. \A q \in Calls : Superseded(q)' <=> Superseded(q)
    BY <1>2 DEF Superseded
  <2>5. Filed' /\ JarNamesHolder'
    BY <2>1 DEF SessionWell, Filed, JarNamesHolder, accounts, Expire
  <2>6. AnswersNameTheirs'
    <3>1. \A p, e : p \in Owner(e)' <=> p \in Owner(e)
      BY DEF Owner, accounts, Expire
    <3> QED
      BY <2>1, <2>2, <2>4, <3>1 DEF SessionWell, AnswersNameTheirs
  <2>7. ClearsAreDue'
    BY DEF ClearsAreDue, Expire
  <2>8. ClearedAfter'
    BY <2>1, <2>2, <2>4 DEF SessionWell, ClearedAfter, Cleared
  <2>9. HoldersKnown'
    BY <1>2, <2>1 DEF SessionWell, HoldersKnown, accounts, Expire
  <2> QED
    BY <2>5, <2>6, <2>7, <2>8, <2>9 DEF SessionWell
<1> QED
  BY <1>3, <1>4, <1>5 DEF CookieInv

\* A change that leaves the requests alone, of a record that is nobody's here.
LEMMA ElsewhereKeeps ==
  ASSUME CookieInv, NEW p \in Persons, UNCHANGED <<jar, call, holder>>,
         email' \in [Persons -> Emails], known' \in SUBSET Persons, excused' \in BOOLEAN,
         onFile' \in [email : [Persons -> Emails], known : SUBSET Persons],
         ~excused' =>
           /\ ~excused /\ Filed' /\ ~HasToken(p)
           /\ \A q \in Persons : q # p => email'[q] = email[q] /\ (q \in known' <=> q \in known)
           /\ p \in known' \/ \A r \in Calls : call[r].person # p
           /\ p \in known
  PROVE  CookieInv'
<1>1. CookieTypes'
  BY DEF CookieInv, CookieTypes
<1>2. CallsWell'
  BY DEF CookieInv, CallsWell, CallWell, Cleared
<1>3. ASSUME ~excused' PROVE SessionWell'
  <2>1. SessionWell /\ ~HasToken(p) /\ CookieTypes
    BY <1>3 DEF CookieInv
  <2>2. \A q, e : q # p /\ q \in Owner(e) => q \in Owner(e)'
    BY <1>3, <2>1 DEF Owner, CookieTypes
  <2>3. JarNamesHolder'
    BY <2>1, <2>2 DEF SessionWell, JarNamesHolder, Renaming, HasToken
  <2>4. AnswersNameTheirs'
    <3> SUFFICES ASSUME NEW q \in Answered, call[q].cookie # NoCookie, ~call[q].late
                 PROVE  call[q].person \in Owner(call[q].cookie)' \/ Superseded(q)
      BY DEF AnswersNameTheirs, Answered, Superseded
    <3>1. call[q].person \in Owner(call[q].cookie) \/ Superseded(q)
      BY <2>1 DEF SessionWell, AnswersNameTheirs
    <3>2. call[q].person # p
      BY <2>1 DEF HasToken
    <3> QED
      BY <2>2, <3>1, <3>2
  <2>5. ClearsAreDue'
    BY <2>1 DEF SessionWell, ClearsAreDue, Cleared, Answered, Renaming
  <2>6. ClearedAfter'
    BY <2>1 DEF SessionWell, ClearedAfter, Cleared, Answered, Superseded
  <2>7. HoldersKnown'
    BY <1>3, <2>1 DEF SessionWell, HoldersKnown, CookieTypes
  <2> QED
    BY <1>3, <2>3, <2>4, <2>5, <2>6, <2>7 DEF SessionWell
<1> QED
  BY <1>1, <1>2, <1>3 DEF CookieInv

\* The process starts again, from what it has saved.
LEMMA RestartKeeps ==
  ASSUME CookieInv, RestartServer
  PROVE  CookieInv'
<1>1. \A q \in Calls : call'[q] = NoCall
  BY DEF RestartServer
<1>2. call' \in [Calls -> BrowserRequest]
  BY FreshCall DEF RestartServer
<1>3. CookieTypes'
  BY <1>2 DEF CookieInv, CookieTypes, RestartServer
<1>4. CallsWell'
  BY <1>1, FreshCall DEF CallsWell, CallWell, IsFresh
<1>5. ASSUME ~excused' PROVE SessionWell'
  <2>1. SessionWell /\ Renaming = {}
    BY <1>5 DEF CookieInv, RestartServer
  <2>2. email' = email /\ known' = known
    BY <2>1 DEF SessionWell, Filed, RestartServer
  <2>3. Answered' = {}
    BY <1>1, FreshCall DEF Answered, IsFresh
  <2>4. JarNamesHolder' /\ Filed'
    BY <2>1, <2>2 DEF SessionWell, JarNamesHolder, Filed, Owner, RestartServer
  <2>5. HoldersKnown'
    BY <1>1, FreshCall DEF HoldersKnown, IsFresh
  <2> QED
    BY <2>3, <2>4, <2>5 DEF SessionWell, AnswersNameTheirs, ClearsAreDue, ClearedAfter
<1> QED
  BY <1>3, <1>4, <1>5 DEF CookieInv

\* What Save leaves behind.
LEMMA Saved ==
  ASSUME NEW saved \in BOOLEAN, NEW ends \in BOOLEAN, Save(saved, ends), CookieTypes,
         email' \in [Persons -> Emails], known' \in SUBSET Persons
  PROVE  /\ onFile' \in [email : [Persons -> Emails], known : SUBSET Persons]
         /\ excused' \in BOOLEAN
         /\ ~excused' => ~excused /\ Filed' /\ ends = FALSE /\ saved = TRUE
<1>1. excused' \in BOOLEAN /\ (~excused' => ~excused /\ ends = FALSE /\ saved = TRUE)
  BY DEF Save
<1>2. CASE saved = TRUE
  BY <1>1, <1>2 DEF Save, Filed
<1>3. CASE saved = FALSE
  BY <1>1, <1>3 DEF Save, CookieTypes
<1> QED
  BY <1>2, <1>3

\* A person whose token the browser neither has nor is sent changes the email.
LEMMA RenameElsewhereKeeps ==
  ASSUME CookieInv, NEW p \in Persons, NEW e \in Emails, NEW saved \in BOOLEAN,
         RenameElsewhere(p, e, saved)
  PROVE  CookieInv'
<1>1. /\ p \in known /\ email' = [email EXCEPT ![p] = e] /\ known' = known
      /\ Save(saved, HasToken(p)) /\ UNCHANGED <<jar, call, holder>>
  BY DEF RenameElsewhere
<1>2. CookieTypes /\ email' \in [Persons -> Emails] /\ known' \in SUBSET Persons
  BY <1>1 DEF CookieInv, CookieTypes
<1>3. \A q \in Persons : q # p => email'[q] = email[q]
  BY <1>1, <1>2 DEF CookieTypes
<1>4. HasToken(p) \in BOOLEAN
  BY DEF HasToken
<1>5. /\ onFile' \in [email : [Persons -> Emails], known : SUBSET Persons]
      /\ excused' \in BOOLEAN
      /\ ~excused' => ~excused /\ Filed' /\ HasToken(p) = FALSE
  BY <1>1, <1>2, <1>4, Saved
<1> QED
  BY <1>1, <1>2, <1>3, <1>5, ElsewhereKeeps

\* An administrator deletes a person no request here is about.
LEMMA DeleteElsewhereKeeps ==
  ASSUME CookieInv, NEW p \in Persons, NEW saved \in BOOLEAN, DeleteElsewhere(p, saved)
  PROVE  CookieInv'
<1> DEFINE ends == holder = p \/ \E r \in Calls : call[r].person = p
<1>1. /\ p \in known /\ email' = email /\ known' = known \ {p}
      /\ Save(saved, ends) /\ UNCHANGED <<jar, call, holder>>
  BY DEF DeleteElsewhere
<1>2. CookieTypes /\ email' \in [Persons -> Emails] /\ known' \in SUBSET Persons
  BY <1>1 DEF CookieInv, CookieTypes
<1>3. \A q \in Persons : q # p => (q \in known' <=> q \in known)
  BY <1>1
<1>4. ends \in BOOLEAN
  OBVIOUS
<1>5. ~ends => ~HasToken(p) /\ \A r \in Calls : call[r].person # p
  BY DEF HasToken, Answered
<1> HIDE DEF ends
<1>6. /\ onFile' \in [email : [Persons -> Emails], known : SUBSET Persons]
      /\ excused' \in BOOLEAN
      /\ ~excused' => ~excused /\ Filed' /\ ends = FALSE
  BY <1>1, <1>2, <1>4, Saved
<1> QED
  BY <1>1, <1>2, <1>3, <1>5, <1>6, ElsewhereKeeps

\* A rename of the browser's own: every answer on its way is superseded by it.
LEMMA RenameKeeps ==
  ASSUME CookieInv, NEW r \in Calls, NEW p \in Owner(call[r].token), NEW saved \in BOOLEAN,
         call[r].kind = "profile", call[r].at = "admitted",
         email' = [email EXCEPT ![p] = call[r].email], known' = known, Save(saved, FALSE),
         IF saved THEN call' = [call EXCEPT ![r].at = "renamed", ![r].person = p] ELSE Over(r),
         UNCHANGED <<jar, holder>>
  PROVE  CookieInv'
<1>1. CookieTypes /\ CallsWell /\ CallWell(r) /\ call \in [Calls -> BrowserRequest] /\ call[r] \in BrowserRequest
  BY DEF CookieInv, CallsWell, CookieTypes
<1>2. p \in known /\ p \in Persons /\ call[r].email \in Emails
  BY <1>1 DEF Owner, CookieTypes, CallWell
<1>3. email' \in [Persons -> Emails] /\ known' \in SUBSET Persons
  BY <1>1, <1>2 DEF CookieTypes
<1>4. /\ onFile' \in [email : [Persons -> Emails], known : SUBSET Persons]
      /\ excused' \in BOOLEAN
      /\ ~excused' => ~excused /\ Filed' /\ saved = TRUE
  BY <1>1, <1>3, Saved
<1>5. CASE saved = FALSE
  <2>1. call' = Ended(r, {}) /\ {} \in SUBSET Calls
    BY <1>5 DEF Over
  <2>2. call' \in [Calls -> BrowserRequest] /\ CallsWell'
    BY <1>1, <2>1, EndedCalls, EndedWell
  <2> QED
    BY <1>1, <1>3, <1>4, <1>5, <2>2 DEF CookieInv, CookieTypes
<1>6. CASE saved = TRUE
  <2> DEFINE c == [call[r] EXCEPT !.at = "renamed", !.person = p]
  <2>1. c \in BrowserRequest /\ c.at = "renamed" /\ c.kind = "profile" /\ c.person = p /\ c.cookie = NoCookie
    BY <1>1, <1>2 DEF BrowserRequest, Stages, SomePerson, CallWell
  <2>2. call' = [call EXCEPT ![r] = c]
    BY <1>1, <1>6
  <2> HIDE DEF c
  <2>3. call' \in [Calls -> BrowserRequest] /\ call'[r] = c /\ \A q \in Calls : q # r => call'[q] = call[q]
    BY <1>1, <2>1, <2>2
  <2>4. CookieTypes'
    BY <1>1, <1>3, <1>4, <2>3 DEF CookieTypes
  <2>5. CallsWell'
    <3> SUFFICES ASSUME NEW q \in Calls PROVE CallWell(q)'
      BY DEF CallsWell
    <3>1. CASE q = r
      BY <1>2, <2>1, <2>3, <3>1 DEF CallWell
    <3>2. CASE q # r
      BY <1>1, <2>3, <3>2 DEF CallsWell, CallWell, Cleared
    <3> QED
      BY <3>1, <3>2
  <2>6. ASSUME ~excused' PROVE SessionWell'
    <3>1. SessionWell /\ Filed'
      BY <1>4, <2>6 DEF CookieInv
    <3>2. Renaming' # {}
      BY <2>1, <2>3 DEF Renaming
    <3>3. \A q \in Answered' : q \in Calls /\ q # r
      BY <2>1, <2>3 DEF Answered
    <3>4. \A q \in Answered' : Superseded(q)'
      BY <2>1, <2>3, <3>3 DEF Superseded
    <3>5. HoldersKnown'
      BY <1>2, <2>1, <2>3, <3>1 DEF SessionWell, HoldersKnown
    <3> QED
      BY <3>1, <3>2, <3>4, <3>5
         DEF SessionWell, JarNamesHolder, AnswersNameTheirs, ClearsAreDue, ClearedAfter
  <2> QED
    BY <2>4, <2>5, <2>6 DEF CookieInv
<1> QED
  BY <1>5, <1>6

\* Whatever the server does for a request keeps the invariant.
LEMMA ServerKeeps ==
  ASSUME CookieInv, NEW r \in Calls
  PROVE  /\ FindRecord(r) => CookieInv'
         /\ SetCookie(r) => CookieInv'
         /\ Logout(r) => CookieInv'
         /\ Auth(r) => CookieInv'
         /\ UpdateProfile(r) => CookieInv'
         /\ Reissue(r) => CookieInv'
         /\ LoseAnswer(r) => CookieInv'
<1>1. CookieTypes /\ CallWell(r) /\ call \in [Calls -> BrowserRequest] /\ call[r] \in BrowserRequest
      /\ excused \in BOOLEAN
  BY DEF CookieInv, CallsWell, CookieTypes
<1>2. call[r].person \in SomePerson /\ call[r].email \in Cookies /\ call[r].token \in Cookies
  BY <1>1 DEF BrowserRequest
<1>3. Nobody \in SomePerson /\ NoCookie \in Cookies /\ NoCookie \notin Emails
  BY CookieAssumption DEF SomePerson, Cookies
<1>4. call[r].at \notin {"renamed", "answered"} => r \notin Renaming
  BY <1>1 DEF Renaming, CallWell
<1>5. ASSUME FindRecord(r) PROVE CookieInv'
  <2>1. UNCHANGED <<accounts, jar, holder, excused>> /\ call[r].at = "sent"
        /\ call[r].kind \in {"login", "oauth"}
    BY <1>5 DEF FindRecord
  <2>2. CASE Over(r)
    <3>1. excused' \in BOOLEAN /\ (~excused' => ~excused /\ r \notin Renaming)
      BY <1>1, <1>4, <2>1
    <3> QED
      BY <2>1, <2>2, <3>1, OverKeeps
  <2>3. ASSUME NEW p \in Owner(call[r].email), call' = [call EXCEPT ![r].at = "found", ![r].person = p]
        PROVE  CookieInv'
    <3> DEFINE c == [call[r] EXCEPT !.at = "found", !.person = p]
    <3>1. p \in known /\ p \in Persons
      BY <1>1, <2>3 DEF Owner, CookieTypes
    <3>2. /\ c \in BrowserRequest /\ c.at = "found" /\ c.person = p /\ c.cookie = NoCookie
          /\ c.kind = call[r].kind /\ c.email = call[r].email
      BY <1>1, <2>1, <3>1 DEF BrowserRequest, Stages, SomePerson, CallWell
    <3>3. call' = [call EXCEPT ![r] = c]
      BY <1>1, <2>3
    <3> HIDE DEF c
    <3>4. /\ call' \in [Calls -> BrowserRequest] /\ call'[r] = c
          /\ \A q \in Calls : q # r => call'[q] = call[q]
      BY <1>1, <3>2, <3>3
    <3>5. CallWell(r)'
      BY <1>1, <2>1, <3>1, <3>2, <3>4 DEF CallWell
    <3> QED
      BY <2>1, <3>1, <3>2, <3>4, <3>5, QuietKeeps
  <2> QED
    BY <1>5, <2>2, <2>3 DEF FindRecord
<1>6. ASSUME SetCookie(r) PROVE CookieInv'
  <2> DEFINE cookie == IssuedFor(r)
  <2>1. /\ call[r].kind \in {"login", "oauth"} /\ call[r].at = "found"
        /\ Answer(r, call[r].person, cookie) /\ UNCHANGED <<accounts, jar, holder>>
        /\ excused' \in BOOLEAN
        /\ ~excused' => ~excused /\ (call[r].kind = "oauth" => call[r].person \in Owner(call[r].email))
    BY <1>6 DEF SetCookie
  <2>2. call[r].person \in Persons /\ call[r].email \in Emails
    BY <1>1, <2>1 DEF CallWell
  <2>3. cookie \in Emails
    BY <1>1, <2>1, <2>2 DEF IssuedFor, CookieTypes
  <2>4. cookie \in Cookies /\ cookie # NoCookie
    BY <1>3, <2>3 DEF Cookies
  <2>5. ~excused' => ~excused /\ call[r].person \in Owner(cookie)
    <3>1. ~excused => call[r].person \in known
      BY <2>1 DEF CookieInv, SessionWell, HoldersKnown
    <3> QED
      BY <2>1, <3>1 DEF IssuedFor, Owner
  <2> HIDE DEF cookie
  <2> QED
    BY <1>2, <2>1, <2>4, <2>5, AnswerKeeps
<1>7. ASSUME Logout(r) PROVE CookieInv'
  <2>1. call[r].kind = "logout" /\ call[r].at = "sent" /\ Answer(r, Nobody, NoCookie)
        /\ UNCHANGED <<accounts, jar, holder, excused>>
    BY <1>7 DEF Logout
  <2> QED
    BY <1>1, <1>3, <2>1, AnswerKeeps
<1>8. ASSUME Auth(r) PROVE CookieInv'
  <2>1. call[r].kind \in {"read", "profile"} /\ call[r].at = "sent"
        /\ UNCHANGED <<accounts, jar, holder, excused>>
    BY <1>8 DEF Auth
  <2>2. CASE Over(r)
    <3>1. excused' \in BOOLEAN /\ (~excused' => ~excused /\ r \notin Renaming)
      BY <1>1, <1>4, <2>1
    <3> QED
      BY <2>1, <2>2, <3>1, OverKeeps
  <2>3. CASE call[r].token # NoCookie /\ Owner(call[r].token) = {} /\ Answer(r, Nobody, NoCookie)
    <3>1. excused' \in BOOLEAN /\ (~excused' => ~excused)
      BY <1>1, <2>1
    <3> QED
      BY <1>3, <2>1, <2>3, <3>1, AnswerKeeps
  <2>4. CASE call[r].kind = "profile" /\ call' = [call EXCEPT ![r].at = "admitted"]
    <3> DEFINE c == [call[r] EXCEPT !.at = "admitted"]
    <3>1. /\ c \in BrowserRequest /\ c.at = "admitted" /\ c.cookie = NoCookie
          /\ c.kind = call[r].kind /\ c.email = call[r].email
      BY <1>1, <2>1 DEF BrowserRequest, Stages, CallWell
    <3>2. call' = [call EXCEPT ![r] = c]
      BY <1>1, <2>4
    <3> HIDE DEF c
    <3>3. /\ call' \in [Calls -> BrowserRequest] /\ call'[r] = c
          /\ \A q \in Calls : q # r => call'[q] = call[q]
      BY <1>1, <3>1, <3>2
    <3>4. CallWell(r)'
      BY <1>1, <2>1, <3>1, <3>3 DEF CallWell
    <3> QED
      BY <2>1, <3>1, <3>3, <3>4, QuietKeeps
  <2> QED
    BY <1>8, <2>1, <2>2, <2>3, <2>4 DEF Auth
<1>9. ASSUME UpdateProfile(r) PROVE CookieInv'
  <2>1. call[r].kind = "profile" /\ call[r].at = "admitted" /\ UNCHANGED <<jar, holder>>
    BY <1>9 DEF UpdateProfile
  <2>2. CASE Over(r) /\ UNCHANGED <<accounts, excused>>
    <3>1. excused' \in BOOLEAN /\ (~excused' => ~excused /\ r \notin Renaming)
      BY <1>1, <1>4, <2>1, <2>2
    <3> QED
      BY <2>1, <2>2, <3>1, OverKeeps
  <2>3. ASSUME NEW p \in Owner(call[r].token), NEW saved \in BOOLEAN,
               email' = [email EXCEPT ![p] = call[r].email], known' = known, Save(saved, FALSE),
               IF saved THEN call' = [call EXCEPT ![r].at = "renamed", ![r].person = p] ELSE Over(r)
        PROVE  CookieInv'
    BY <2>1, <2>3, RenameKeeps
  <2> QED
    BY <1>9, <2>2, <2>3 DEF UpdateProfile
<1>10. ASSUME Reissue(r) PROVE CookieInv'
  <2> DEFINE cookie == email[call[r].person]
  <2>1. /\ call[r].at = "renamed" /\ Answer(r, call[r].person, cookie)
        /\ UNCHANGED <<accounts, jar, holder, excused>>
    BY <1>10 DEF Reissue
  <2>2. call[r].person \in Persons
    BY <1>1, <2>1 DEF CallWell
  <2>3. cookie \in Cookies /\ cookie # NoCookie
    BY <1>1, <1>3, <2>2 DEF CookieTypes, Cookies
  <2>4. ~excused' => ~excused /\ call[r].person \in Owner(cookie)
    BY <2>1 DEF CookieInv, SessionWell, HoldersKnown, Owner
  <2>5. excused' \in BOOLEAN
    BY <1>1, <2>1
  <2> HIDE DEF cookie
  <2> QED
    BY <1>2, <2>1, <2>3, <2>4, <2>5, AnswerKeeps
<1>11. ASSUME LoseAnswer(r) PROVE CookieInv'
  <2>1. Over(r) /\ UNCHANGED <<accounts, jar, holder>>
    BY <1>11 DEF LoseAnswer
  <2>2. excused' \in BOOLEAN /\ (~excused' => ~excused /\ r \notin Renaming)
    BY <1>11 DEF LoseAnswer
  <2> QED
    BY <2>1, <2>2, OverKeeps
<1> QED
  BY <1>5, <1>6, <1>7, <1>8, <1>9, <1>10, <1>11

\* The invariant holds of every behaviour.
THEOREM CookieInvariant == CookieSpec => []CookieInv
<1>1. CookieInit => CookieInv
  <2> SUFFICES ASSUME CookieInit PROVE CookieInv
    OBVIOUS
  <2>1. \A r \in Calls : call[r] = NoCall
    BY DEF CookieInit
  <2>2. CookieTypes
    BY FreshCall DEF CookieInit, CookieTypes, SomePerson, Cookies
  <2>3. CallsWell /\ HoldersKnown
    BY <2>1, FreshCall DEF CallsWell, CallWell, IsFresh, HoldersKnown
  <2>4. Answered = {}
    BY <2>1, FreshCall DEF Answered, IsFresh
  <2>5. Filed /\ JarNamesHolder
    BY DEF CookieInit, Filed, JarNamesHolder
  <2> QED
    BY <2>2, <2>3, <2>4, <2>5
       DEF CookieInv, SessionWell, AnswersNameTheirs, ClearsAreDue, ClearedAfter
<1>2. CookieInv /\ [CookieNext]_cookieVars => CookieInv'
  <2> SUFFICES ASSUME CookieInv, [CookieNext]_cookieVars PROVE CookieInv'
    OBVIOUS
  <2>1. CASE UNCHANGED cookieVars
    BY <2>1
       DEF cookieVars, accounts, CookieInv, CookieTypes, CallsWell, CallWell, SessionWell, Filed,
         JarNamesHolder, AnswersNameTheirs, ClearsAreDue, ClearedAfter, HoldersKnown, Cleared,
         Superseded, Answered, Renaming, Owner
  <2>2. CASE Expire
    BY <2>2, ExpireKeeps
  <2>3. CASE RestartServer
    BY <2>3, RestartKeeps
  <2>4. ASSUME NEW p \in Persons, NEW saved \in BOOLEAN,
               DeleteElsewhere(p, saved) \/ \E e \in Emails : RenameElsewhere(p, e, saved)
        PROVE  CookieInv'
    BY <2>4, DeleteElsewhereKeeps, RenameElsewhereKeeps
  <2>5. ASSUME NEW r \in Calls, NEW e \in Emails,
               SendLogin(r, e) \/ SendOAuth(r, e) \/ SendProfile(r, e)
        PROVE  CookieInv'
    <3>1. {"login", "oauth", "profile"} \subseteq CallKinds /\ jar \in Cookies /\ NoCookie \in Cookies
          /\ e \in Cookies
      BY DEF CallKinds, CookieInv, CookieTypes, Cookies
    <3> QED
      BY <2>5, <3>1, SendKeeps DEF SendLogin, SendOAuth, SendProfile
  <2>6. ASSUME NEW r \in Calls, SendLogout(r) \/ SendRead(r)
        PROVE  CookieInv'
    <3>1. {"logout", "read"} \subseteq CallKinds /\ jar \in Cookies /\ NoCookie \in Cookies
      BY DEF CallKinds, CookieInv, CookieTypes, Cookies
    <3> QED
      BY <2>6, <3>1, SendKeeps DEF SendLogout, SendRead
  <2>7. ASSUME NEW r \in Calls,
               \/ ReceiveCookie(r) \/ LoseAnswer(r)
               \/ FindRecord(r) \/ SetCookie(r) \/ Logout(r)
               \/ Auth(r) \/ UpdateProfile(r) \/ Reissue(r)
        PROVE  CookieInv'
    BY <2>7, ReceiveKeeps, ServerKeeps
  <2> QED
    BY <2>1, <2>2, <2>3, <2>4, <2>5, <2>6, <2>7 DEF CookieNext
<1> QED
  BY <1>1, <1>2, PTL DEF CookieSpec

\* A browser keeps the session it was given, for any number of persons, emails and
\* overlapping requests, through renames, deletions, restarts and answers in any
\* order, except in the ways SessionKept lists (jwt.go, handlers.go, middleware/auth.go).
THEOREM SessionIsKept == CookieSpec => []SessionKept
<1>1. CookieInv => SessionKept
  BY DEF CookieInv, SessionWell, JarNamesHolder, SessionKept
<1> QED
  BY <1>1, CookieInvariant, PTL
===============================================================================
