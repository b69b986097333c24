------------------------------- MODULE CpuSample -------------------------------
(***************************************************************************)
(* The CPU load of a snapshot (collect, backend/sse/metrics.go): the       *)
(* counters of /proc/stat are read twice, 200 ms apart, and their          *)
(* differences, which are unsigned, give the load of each core, the load   *)
(* of the host and the frequency it amounts to. Meanwhile cores come and   *)
(* go, and the kernel may take back idle time it has counted (iowait).     *)
(*                                                                         *)
(* Loads are in percent, rounded down.                                     *)
(***************************************************************************)
EXTENDS Integers, FiniteSets, FiniteSetsExt

CONSTANTS
  Cores,
  FreqMax,      \* in MHz; 0 when it is not known
  MaxJiffies,   \* a bound on what a core spends between the readings
  CpuWord       \* 2^64

ASSUME CpuAssumption ==
  /\ IsFiniteSet(Cores)
  /\ FreqMax \in Nat /\ MaxJiffies \in Nat /\ CpuWord \in Nat /\ 3 * MaxJiffies < CpuWord

VARIABLES
  online,   \* the cores /proc/stat lists
  listed,   \* those it listed in the first reading, if there has been one
  gained,   \* by how much each counter has changed since
  load,     \* of the last snapshot
  slipped   \* history: cores whose idle time had shrunk in the last snapshot

cpuVars == <<online, listed, gained, load, slipped>>

NothingGained == [c \in Cores |-> [idle |-> 0, busy |-> 0]]

CpuInit ==
  /\ online = Cores /\ listed = {}
  /\ gained = NothingGained
  /\ load = [perCore |-> << >>, usage |-> 0, frequency |-> 0]
  /\ slipped = {}

-------------------------------------------------------------------------------
(* The kernel.                                                             *)

Spend(c, kind) ==
  /\ listed # {}
  /\ c \in online /\ gained[c][kind] < MaxJiffies
  /\ gained' = [gained EXCEPT ![c][kind] = @ + 1]
  /\ UNCHANGED <<online, listed, load, slipped>>

TakeBackIdle(c) ==
  /\ listed # {}
  /\ c \in online /\ gained[c].idle > -MaxJiffies
  /\ gained' = [gained EXCEPT ![c].idle = @ - 1]
  /\ UNCHANGED <<online, listed, load, slipped>>

Plug(c) ==
  /\ online' = IF c \in online THEN online \ {c} ELSE online \cup {c}
  /\ UNCHANGED <<listed, gained, load, slipped>>

-------------------------------------------------------------------------------
(* collect.                                                                *)

\* readCPUTimes, before collect sleeps.
ReadFirst ==
  /\ listed = {}
  /\ listed' = online
  /\ UNCHANGED <<online, gained, load, slipped>>

\* The differences of two uint64.
dIdle(c) == gained[c].idle % CpuWord

\* Mistake: the total leaves out the idle time.
dTotalBusy(c) == gained[c].busy % CpuWord

dTotal(c) == (gained[c].idle + gained[c].busy) % CpuWord

\* The cores of both readings, if they spent any time in between.
Counted == {c \in listed \cap online : dTotal(c) > 0}

Percent(c) == (100 * (dTotal(c) - dIdle(c))) \div dTotal(c)

PerCore == [c \in Counted |-> Percent(c)]

Usage ==
  IF Counted = {} THEN 0
  ELSE MapThenSumSet(LAMBDA c : PerCore[c], Counted) \div Cardinality(Counted)

\* readCPUTimes again, cpuPercentAll and computeEffectiveFreq.
ReadSecond ==
  /\ listed # {}
  /\ load' = [perCore |-> PerCore, usage |-> Usage,
              frequency |-> (Usage * FreqMax) \div 100]
  /\ slipped' = {c \in listed \cap online : gained[c].idle < 0}
  /\ listed' = {} /\ gained' = NothingGained
  /\ UNCHANGED online

CpuNext ==
  \/ \E c \in Cores :
       \/ \E kind \in {"idle", "busy"} : Spend(c, kind)
       \/ TakeBackIdle(c) \/ Plug(c)
  \/ ReadFirst
  \/ ReadSecond

CpuSpec == CpuInit /\ [][CpuNext]_cpuVars

-------------------------------------------------------------------------------
(* Correctness.                                                            *)

\* Whatever cores come and go between the readings, the loads are percentages
\* and the frequency is within the highest, as long as no counter has slipped
\* back. (Where one has, its difference wraps around: the load of that core, and
\* the mean with it, falls far below zero.)
LoadIsPercentage ==
  slipped = {} =>
    /\ \A c \in DOMAIN load.perCore : load.perCore[c] \in 0 .. 100
    /\ load.usage \in 0 .. 100
    /\ load.frequency \in 0 .. FreqMax
===============================================================================
