--------------------------------- MODULE Rates ---------------------------------
(***************************************************************************)
(* The rates a snapshot shows: the traffic of the host and of each of its  *)
(* interfaces (backend/sse/broker.go, metrics.go), and the CPU time of     *)
(* each Xen domain (xen.go). All are differences of counters between two   *)
(* ticks of the loop, which remembers the counters of the last tick, over  *)
(* the time between the two snapshots. Meanwhile interfaces and domains    *)
(* come and go, counters start again, and `xl list` may fail.              *)
(*                                                                         *)
(* One direction of the traffic stands for both. What comes into being     *)
(* counts from 0.                                                          *)
(***************************************************************************)
EXTENDS Integers, FiniteSets, FiniteSetsExt

CONSTANTS
  Ifaces, Domains,
  VCPUs,                 \* of each domain
  MaxDt,                 \* the time between two snapshots
  MaxCount,              \* bounds on what is counted
  CounterWord               \* 2^64

Metered == Ifaces \cup Domains
Absent == -1

ASSUME RatesAssumption ==
  /\ IsFiniteSet(Ifaces) /\ Ifaces \cap Domains = {}
  /\ "total" \notin Metered
  /\ VCPUs \in Nat \ {0}
  /\ MaxDt \in Nat \ {0} /\ MaxCount \in Nat
  /\ CounterWord \in Nat /\ CounterWord > MaxCount * Cardinality(Ifaces)

VARIABLES
  at,          \* what the loop does next: "collect", "map" or "xen"
  dt,          \* the time since the last snapshot; after collect, between the two
  counters,    \* of interfaces and domains
  prevTotal,   \* prevSnap.NetRXBytes, if there is a previous snapshot
  prevIfaces, prevXenCPU,
  moved        \* history: what was counted since each was last read; for
               \* "total", since the last snapshot

rateVars == <<at, dt, counters, prevTotal, prevIfaces, prevXenCPU, moved>>

Present(kind, count) == {x \in kind : count[x] # Absent}
Readings(kind) == [x \in Present(kind, counters) |-> counters[x]]

RatesInit ==
  /\ at = "collect" /\ dt = 0
  /\ counters = [x \in Metered |-> 0]
  /\ prevTotal = Absent
  /\ prevIfaces = << >> /\ prevXenCPU = << >>
  /\ moved = [x \in Metered \cup {"total"} |-> 0]

-------------------------------------------------------------------------------
(* The host.                                                               *)

Count(x) ==
  /\ counters[x] \in 0 .. MaxCount - 1
  /\ moved[x] < MaxCount /\ moved["total"] < MaxCount
  /\ counters' = [counters EXCEPT ![x] = @ + 1]
  /\ moved' = [moved EXCEPT ![x] = @ + 1, !["total"] = IF x \in Ifaces THEN @ + 1 ELSE @]
  /\ UNCHANGED <<at, dt, prevTotal, prevIfaces, prevXenCPU>>

\* It goes, or it is new, or it starts again.
Change(x, count) ==
  /\ count \in {0, Absent} /\ counters[x] # count
  /\ counters' = [counters EXCEPT ![x] = count]
  /\ UNCHANGED <<at, dt, prevTotal, prevIfaces, prevXenCPU, moved>>

Elapse ==
  /\ at = "collect" /\ dt < MaxDt
  /\ dt' = dt + 1
  /\ UNCHANGED <<at, counters, prevTotal, prevIfaces, prevXenCPU, moved>>

-------------------------------------------------------------------------------
(* A tick.                                                                 *)

\* Mistake: a counter that is lower than before is subtracted from all the same.
RateUnguarded(now, before) ==
  IF before # Absent /\ dt > 0 THEN ((now - before) % CounterWord) \div dt ELSE 0

\* The rate from one reading to the next, in whole units.
Rate(now, before) ==
  IF before # Absent /\ dt > 0 /\ now >= before THEN (now - before) \div dt ELSE 0

Before(readings, x) == IF x \in DOMAIN readings THEN readings[x] ELSE Absent

\* readNetBytes
Total == MapThenSumSet(LAMBDA x : counters[x], Present(Ifaces, counters))

NetRXBps == Rate(Total, prevTotal)

IfaceRXBps(x) == Rate(counters[x], Before(prevIfaces, x))

\* computeXenCPUPct, in CPU seconds per second: no more than the domain has CPUs.
CPUPct(d) ==
  LET used == Rate(counters[d], Before(prevXenCPU, d))
  IN  IF used > VCPUs THEN VCPUs ELSE used

\* collect, and NetRXBps. The loop's dt is that of the snapshots until the next.
Collect ==
  /\ at = "collect" /\ dt > 0
  /\ at' = "map"
  /\ prevTotal' = Total
  /\ moved' = [moved EXCEPT !["total"] = 0]
  /\ UNCHANGED <<dt, counters, prevIfaces, prevXenCPU>>

\* collectNetworkMap: every interface gets its rate.
MapInterfaces ==
  /\ at = "map"
  /\ at' = "xen"
  /\ prevIfaces' = Readings(Ifaces)
  /\ moved' = [x \in DOMAIN moved |-> IF x \in Ifaces THEN 0 ELSE moved[x]]
  /\ UNCHANGED <<dt, counters, prevTotal, prevXenCPU>>

\* collectXenSnapshot: every domain gets its load; or nothing is known of any, if
\* `xl list` fails or takes more than xenCommandTimeout.
ListDomains(fails) ==
  /\ at = "xen"
  /\ at' = "collect" /\ dt' = 0
  /\ prevXenCPU' = IF fails THEN << >> ELSE Readings(Domains)
  /\ moved' = [x \in DOMAIN moved |-> IF x \in Domains THEN 0 ELSE moved[x]]
  /\ UNCHANGED <<counters, prevTotal, prevIfaces>>

RatesNext ==
  \/ \E x \in Metered : Count(x) \/ \E count \in {0, Absent} : Change(x, count)
  \/ Elapse
  \/ Collect
  \/ MapInterfaces
  \/ \E fails \in BOOLEAN : ListDomains(fails)

RatesSpec == RatesInit /\ [][RatesNext]_rateVars

-------------------------------------------------------------------------------
(* Correctness.                                                            *)

\* A snapshot never shows more than happened: what a rate says was counted since
\* the reading before was counted since then, for the host, for each interface
\* and for each domain, whatever came, went or started again in between, and
\* however the readings of one tick are spread in time.
RatesNeverExceedCounts ==
  /\ at = "collect" => NetRXBps * dt <= moved["total"]
  /\ at = "map" =>
       \A x \in Present(Ifaces, counters) : IfaceRXBps(x) * dt <= moved[x]
  /\ at = "xen" =>
       \A d \in Present(Domains, counters) : CPUPct(d) * dt <= moved[d]
===============================================================================
