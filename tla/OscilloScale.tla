----------------------------- MODULE OscilloScale -----------------------------
(***************************************************************************)
(* The "oscilloscope" scales of backend/sse/broker.go: on each tick the    *)
(* loop computes, from the ring and before it stores the new snapshot, the *)
(* y-axis bounds the browser draws the CPU, frequency and memory curves    *)
(* with.                                                                   *)
(*                                                                         *)
(* CPU usage is counted in twentieths of 0.1 % so that the 5 % margin of a *)
(* reading that is a multiple of 0.1 % is exact; frequencies and memory    *)
(* are integers, as in the code, and frequencies wrap around. A usage is   *)
(* no more than 100 %, but when an idle counter has slipped it is far      *)
(* below zero, and its frequency the lowest integer (see CpuSample).       *)
(***************************************************************************)
EXTENDS Integers, FiniteSetsExt

CONSTANTS
  RingSize,   \* ringSize (60)
  Window,     \* windowSnaps (15), the snapshots the browser draws
  Samples,    \* what a snapshot can read: a CPU usage, a frequency and a memory use
  MemTotal,
  IntMax      \* 2^63 - 1

CpuFull == 20000  \* 100 %

ASSUME ScaleAssumption ==
  /\ RingSize \in Nat \ {0, 1} /\ Window \in 1 .. RingSize - 1
  /\ MemTotal \in Nat \ {0} /\ IntMax \in Nat /\ IntMax >= 100
  /\ \A r \in Samples :
       /\ r \in [cpu : Int, freq : Int, mem : 0 .. MemTotal]
       /\ r.cpu <= CpuFull
       /\ -IntMax - 1 <= r.freq /\ r.freq <= IntMax \div 2

VARIABLES
  ring, head, count,  \* the ring of readings
  last,               \* the snapshot published last
  scale               \* the scales it was published with

oscVars == <<ring, head, count, last, scale>>

NoReading == [cpu |-> 0, freq |-> 0, mem |-> 0]
NoScale == [cpu |-> <<0, 0>>, freq |-> <<0, 0>>, mem |-> <<0, 0>>]

OscInit ==
  /\ ring = [i \in 0 .. RingSize - 1 |-> NoReading]
  /\ head = 0 /\ count = 0
  /\ last = NoReading /\ scale = NoScale

AtLeast(x, low) == IF x < low THEN low ELSE x
AtMost(x, high) == IF x > high THEN high ELSE x

\* Mistakes: the loop stops one reading too early; it goes through the ring
\* rather than through the window.
LookBackShort ==
  LET n == AtMost(count, Window)
  IN  {ring[(head - 1 - i + RingSize) % RingSize] : i \in 1 .. n - 2}

LookBackAll == {ring[(head - 1 - i + RingSize) % RingSize] : i \in 1 .. count - 1}

\* The readings computeOscilloScales finds in the ring: i = 1 is the one
\* before the newest stored one.
LookBack ==
  LET n == AtMost(count, Window)
  IN  {ring[(head - 1 - i + RingSize) % RingSize] : i \in 1 .. n - 1}

\* An int, after an overflow.
Wrapped(x) == ((x + IntMax + 1) % (2 * (IntMax + 1))) - (IntMax + 1)

\* The bounds of an axis: the extremes with a margin of 5 %, but at least the
\* one the code sets, within what the quantity can be.
CpuScale(low, high) ==
  LET margin == AtLeast(AtLeast(high - low, 100) \div 20, 20)
  IN  <<AtLeast(low - margin, 0), AtMost(high + margin, CpuFull)>>

FreqScale(low, high) ==
  LET margin == AtLeast(AtLeast(Wrapped(high - low), 1) \div 20, 1)
  IN  <<AtLeast(Wrapped(low - margin), 0), Wrapped(high + margin)>>

MemScale(low, high) ==
  LET margin == AtLeast(AtLeast(high - low, 1) \div 20, 1)
  IN  <<IF low > margin THEN low - margin ELSE 0, AtMost(high + margin, MemTotal)>>

\* A frequency in the ring counts if it is above 0: 0 is an unknown one.
computeOscilloScales(snap) ==
  LET cpus  == {snap.cpu} \cup {s.cpu : s \in LookBack}
      freqs == {snap.freq} \cup {f \in {s.freq : s \in LookBack} : f > 0}
      mems  == {snap.mem} \cup {s.mem : s \in LookBack}
  IN  [cpu  |-> CpuScale(Min(cpus), Max(cpus)),
       freq |-> FreqScale(Min(freqs), Max(freqs)),
       mem  |-> MemScale(Min(mems), Max(mems))]

\* One turn of the loop's critical section.
Tick(snap) ==
  /\ scale' = computeOscilloScales(snap)
  /\ ring' = [ring EXCEPT ![head] = snap]
  /\ head' = (head + 1) % RingSize
  /\ count' = AtMost(count + 1, RingSize)
  /\ last' = snap

OscNext == \E snap \in Samples : Tick(snap)

OscSpec == OscInit /\ [][OscNext]_oscVars

-------------------------------------------------------------------------------

\* The reading published i ticks before the last one.
Ago(i) == ring[(head - 1 - i + RingSize) % RingSize]

Within(x, bounds) == bounds[1] <= x /\ x <= bounds[2]

\* A reading lies on the axes of the last snapshot, but for a usage below zero: the
\* axis ends at 0. A frequency below zero costs the snapshot that comes with it
\* its frequency axis: the difference to the others overflows.
Fits(s) ==
  /\ s.cpu >= 0 => Within(s.cpu, scale.cpu)
  /\ s.freq > 0 /\ last.freq >= 0 => Within(s.freq, scale.freq)
  /\ Within(s.mem, scale.mem)

\* A snapshot lies on its own axes, whatever clamping did to them, and so does any
\* older one of the drawn window but the one before it, across the ring's seam;
\* and a counter that slipped spoils no more than what it is in itself.
OlderOnesFit ==
  count > 0 =>
    /\ Fits(last)
    /\ \A i \in 2 .. Window - 1 : i < count => Fits(Ago(i))

\* The bounds come from the drawn window and one snapshot more: a reading that
\* has left it, a slipped one too, stops stretching the axes. (CPU: no bound is
\* further from the readings than the margin, 5 % of their span or 0.1 %.)
AxesForget ==
  count > 0 =>
    LET cpus   == {Ago(i).cpu : i \in 0 .. AtMost(count - 1, Window)}
        margin == AtLeast((Max(cpus) - Min(cpus)) \div 20, 20)
    IN  /\ scale.cpu[2] <= AtMost(Max(cpus) + margin, CpuFull)
        /\ scale.cpu[1] >= AtLeast(Min(cpus) - margin, 0)

\* What the comments of loop and computeOscilloScales say: the scales are the
\* real minimum and maximum of the last snapshots, the window that is drawn.
WindowFits ==
  count > 0 => \A i \in 0 .. Window - 1 : i < count => Fits(Ago(i))
===============================================================================
