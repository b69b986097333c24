--------------------------- MODULE DashboardProofs ---------------------------
(***************************************************************************)
(* Proofs about what the dashboard is shown: the scales of the             *)
(* oscilloscope, the load of the cores, the rates, the identity of         *)
(* neighbours, the operators of their addresses and the versions that      *)
(* GitHub offers.                                                          *)
(***************************************************************************)
EXTENDS OscilloScale, CpuSample, Rates, NeighborIdentity, RdapCache, VersionCache,
        SumLemmas

-------------------------------------------------------------------------------
(* The scales of the oscilloscope (OscilloScale).                          *)

\* What a slot of the ring holds: a reading, or none yet.
Usages == {c \in Int : c <= CpuFull}
Frequencies == -IntMax - 1 .. IntMax \div 2
Readable == [cpu : Usages, freq : Frequencies, mem : 0 .. MemTotal]

\* The ring and its two indices.
RingTypes ==
  /\ ring \in [0 .. RingSize - 1 -> Readable]
  /\ head \in 0 .. RingSize - 1 /\ count \in 0 .. RingSize

\* Both properties are inductive next to the types of the ring: a tick computes the
\* scales from all that it looks back at, and nothing else changes either.
ScaleInv == RingTypes /\ OlderOnesFit /\ AxesForget

\* An index wraps around once.
LEMMA WrapsOnce ==
  ASSUME NEW size \in Nat \ {0}, NEW n \in 0 .. 2 * size - 1
  PROVE  n % size = IF n < size THEN n ELSE n - size
<1>1. CASE n < size
  BY <1>1
<1>2. CASE n >= size
  BY <1>2
<1> QED
  BY <1>1, <1>2

\* cpuScale holds what lies between its extremes, and its margins are bounded.
LEMMA OnCpuScale ==
  ASSUME NEW low \in Usages, NEW high \in Usages, low <= high
  PROVE  /\ \A x \in low .. high : x >= 0 => Within(x, CpuScale(low, high))
         /\ CpuScale(low, high)[1] >= AtLeast(low - AtLeast((high - low) \div 20, 20), 0)
         /\ CpuScale(low, high)[2] <= AtMost(high + AtLeast((high - low) \div 20, 20), CpuFull)
<1> DEFINE margin == AtLeast((high - low) \div 20, 20)
<1>1. low \in Int /\ high \in Int /\ high <= 20000 /\ CpuFull = 20000
  BY DEF Usages, CpuFull
<1>2. margin \in Int /\ margin >= 20
  BY <1>1 DEF AtLeast
<1>3. AtLeast(AtLeast(high - low, 100) \div 20, 20) = margin
  BY <1>1 DEF AtLeast
<1>4. CpuScale(low, high) = <<AtLeast(low - margin, 0), AtMost(high + margin, CpuFull)>>
  BY <1>3 DEF CpuScale
<1> HIDE DEF margin
<1>5. /\ \A x \in low .. high : x >= 0 => Within(x, CpuScale(low, high))
      /\ CpuScale(low, high)[1] >= AtLeast(low - margin, 0)
      /\ CpuScale(low, high)[2] <= AtMost(high + margin, CpuFull)
  BY <1>1, <1>2, <1>4 DEF Within, AtLeast, AtMost
<1> QED
  BY <1>5 DEF margin

\* What fits an int does not overflow.
LEMMA DoesNotOverflow ==
  ASSUME NEW x \in -IntMax - 1 .. IntMax
  PROVE  Wrapped(x) = x
<1> DEFINE size == 2 * (IntMax + 1)
           n == x + IntMax + 1
<1>1. size \in Nat \ {0} /\ n \in 0 .. 2 * size - 1 /\ n < size
  BY ScaleAssumption
<1> HIDE DEF size, n
<1>2. n % size = n
  BY <1>1, WrapsOnce
<1> QED
  BY <1>2, ScaleAssumption DEF Wrapped, size, n

\* So does freqScale.
LEMMA OnFreqScale ==
  ASSUME NEW low \in 0 .. IntMax \div 2, NEW high \in low .. IntMax \div 2, NEW x \in low .. high
  PROVE  Within(x, FreqScale(low, high))
<1> DEFINE margin == AtLeast(AtLeast(high - low, 1) \div 20, 1)
<1>1. IntMax \in Nat /\ IntMax >= 100
  BY ScaleAssumption
<1>2. high - low \in -IntMax - 1 .. IntMax
  BY <1>1
<1>3. margin \in 1 .. IntMax \div 2
  BY <1>1 DEF AtLeast
<1>4. FreqScale(low, high) =
        <<AtLeast(Wrapped(low - margin), 0), Wrapped(high + margin)>>
  BY <1>2, DoesNotOverflow DEF FreqScale
<1> HIDE DEF margin
<1>5. low - margin \in -IntMax - 1 .. IntMax /\ high + margin \in -IntMax - 1 .. IntMax
  BY <1>1, <1>3
<1>6. Wrapped(low - margin) = low - margin /\ Wrapped(high + margin) = high + margin
  BY <1>5, DoesNotOverflow
<1> QED
  BY <1>1, <1>3, <1>4, <1>6 DEF Within, AtLeast

\* So does memScale, within the memory of the host.
LEMMA OnMemScale ==
  ASSUME NEW low \in 0 .. MemTotal, NEW high \in low .. MemTotal, NEW x \in low .. high
  PROVE  Within(x, MemScale(low, high))
BY ScaleAssumption DEF Within, MemScale, AtLeast, AtMost

\* The readings a tick looks back at, and their values.
LEMMA LookBackIsFinite ==
  ASSUME RingTypes
  PROVE  IsFiniteSet(LookBack) /\ LookBack \subseteq Readable
<1> DEFINE n == AtMost(count, Window)
           slot(i) == (head - 1 - i + RingSize) % RingSize
<1>1. n \in 0 .. RingSize - 1
  BY ScaleAssumption DEF RingTypes, AtMost
<1>2. \A i \in 1 .. n - 1 : slot(i) \in 0 .. RingSize - 1
  <2> SUFFICES ASSUME NEW i \in 1 .. n - 1 PROVE slot(i) \in 0 .. RingSize - 1
    OBVIOUS
  <2> DEFINE m == head - 1 - i + RingSize
  <2>1. m \in 0 .. 2 * RingSize - 1
    BY <1>1, ScaleAssumption DEF RingTypes
  <2> HIDE DEF m
  <2>2. m % RingSize \in 0 .. RingSize - 1
    BY <2>1, ScaleAssumption, WrapsOnce
  <2> QED
    BY <2>2 DEF m
<1>3. IsFiniteSet(1 .. n - 1)
  BY <1>1, FS_Interval
<1>4. LookBack = {ring[slot(i)] : i \in 1 .. n - 1}
  BY DEF LookBack
<1> HIDE DEF n, slot
<1> DEFINE f == [i \in 1 .. n - 1 |-> ring[slot(i)]]
<1>5. IsFiniteSet({f[i] : i \in 1 .. n - 1})
  <2> HIDE DEF f
  <2> QED
    BY <1>3, ImageIsFinite
<1>6. {ring[slot(i)] : i \in 1 .. n - 1} = {f[i] : i \in 1 .. n - 1}
  OBVIOUS
<1> HIDE DEF f
<1>7. IsFiniteSet(LookBack)
  BY <1>4, <1>5, <1>6
<1> QED
  BY <1>2, <1>4, <1>7 DEF RingTypes

\* The slot of a reading, by its age.
LEMMA SlotOfAge ==
  ASSUME NEW h \in 0 .. RingSize - 1, NEW i \in 0 .. RingSize - 1
  PROVE  /\ (h - 1 - i + RingSize) % RingSize =
              IF i < h THEN h - 1 - i ELSE h - 1 - i + RingSize
         /\ (h - 1 - i + RingSize) % RingSize \in 0 .. RingSize - 1
<1> DEFINE n == h - 1 - i + RingSize
<1>1. n \in 0 .. 2 * RingSize - 1
  BY ScaleAssumption
<1>2. n < RingSize <=> ~(i < h)
  BY ScaleAssumption
<1> HIDE DEF n
<1>3. n % RingSize = IF n < RingSize THEN n ELSE n - RingSize
  BY <1>1, ScaleAssumption, WrapsOnce
<1>4. n % RingSize \in 0 .. RingSize - 1
  BY <1>1, <1>3, ScaleAssumption
<1>5. n % RingSize = IF i < h THEN h - 1 - i ELSE h - 1 - i + RingSize
  BY <1>2, <1>3, ScaleAssumption DEF n
<1> QED
  BY <1>4, <1>5 DEF n

\* The readings of the ring, by their age, and those of the next one.
LEMMA AgoIsReadable ==
  ASSUME NEW i \in 0 .. RingSize - 1
  PROVE  /\ RingTypes =>
              /\ Ago(i) = ring[IF i < head THEN head - 1 - i ELSE head - 1 - i + RingSize]
              /\ Ago(i) \in Readable
         /\ RingTypes' =>
              /\ Ago(i)' = ring'[IF i < head' THEN head' - 1 - i ELSE head' - 1 - i + RingSize]
              /\ Ago(i)' \in Readable
<1>1. ASSUME NEW h \in 0 .. RingSize - 1, NEW slots \in [0 .. RingSize - 1 -> Readable]
      PROVE  /\ slots[(h - 1 - i + RingSize) % RingSize] =
                  slots[IF i < h THEN h - 1 - i ELSE h - 1 - i + RingSize]
             /\ slots[(h - 1 - i + RingSize) % RingSize] \in Readable
  <2> DEFINE n == (h - 1 - i + RingSize) % RingSize
  <2>1. n = (IF i < h THEN h - 1 - i ELSE h - 1 - i + RingSize) /\ n \in 0 .. RingSize - 1
    BY SlotOfAge
  <2> HIDE DEF n
  <2>2. slots[n] = slots[IF i < h THEN h - 1 - i ELSE h - 1 - i + RingSize] /\ slots[n] \in Readable
    BY <2>1
  <2> QED
    BY <2>2 DEF n
<1> QED
  BY <1>1 DEF RingTypes, Ago

\* What a snapshot reads may be read.
LEMMA SamplesAreReadable == Samples \subseteq Readable
<1> SUFFICES ASSUME NEW r \in Samples PROVE r \in Readable
  OBVIOUS
<1>1. r \in [cpu : Int, freq : Int, mem : 0 .. MemTotal]
  BY ScaleAssumption
<1>2. r.cpu <= CpuFull /\ -IntMax - 1 <= r.freq /\ r.freq <= IntMax \div 2
  BY ScaleAssumption
<1>3. r.cpu \in Usages
  BY <1>1, <1>2 DEF Usages
<1>4. r.freq \in Frequencies
  BY <1>1, <1>2, ScaleAssumption DEF Frequencies
<1> QED
  BY <1>1, <1>3, <1>4 DEF Readable

\* A tick makes every reading one older, but for the oldest, which is gone.
LEMMA TickAges ==
  ASSUME RingTypes, NEW snap \in Samples, Tick(snap)
  PROVE  /\ RingTypes'
         /\ Ago(0)' = snap
         /\ \A i \in 0 .. RingSize - 2 : Ago(i + 1)' = Ago(i)
<1>1. snap \in Readable
  BY SamplesAreReadable
<1>2. /\ ring' = [ring EXCEPT ![head] = snap]
      /\ head' = IF head + 1 < RingSize THEN head + 1 ELSE 0
      /\ count' = IF count + 1 > RingSize THEN RingSize ELSE count + 1
  <2>1. head + 1 \in 0 .. 2 * RingSize - 1
    BY ScaleAssumption DEF RingTypes
  <2> DEFINE n == head + 1
  <2>2. n % RingSize = IF n < RingSize THEN n ELSE n - RingSize
    <3> HIDE DEF n
    <3> QED
      BY <2>1, ScaleAssumption, WrapsOnce DEF n
  <2>3. head' = (head + 1) % RingSize
    BY DEF Tick
  <2>4. head' = IF head + 1 < RingSize THEN head + 1 ELSE 0
    BY <2>2, <2>3, ScaleAssumption DEF RingTypes
  <2> QED
    BY <2>4 DEF Tick, AtMost
<1>3. RingTypes'
  BY <1>1, <1>2, ScaleAssumption DEF RingTypes
<1>4. ASSUME NEW i \in 0 .. RingSize - 1
      PROVE  Ago(i)' = ring'[IF i < head' THEN head' - 1 - i ELSE head' - 1 - i + RingSize]
  BY <1>3, AgoIsReadable
<1>5. Ago(0)' = snap
  <2>1. (IF 0 < head' THEN head' - 1 - 0 ELSE head' - 1 - 0 + RingSize) = head
    BY <1>2, ScaleAssumption DEF RingTypes
  <2>2. ring'[head] = snap
    BY <1>2 DEF RingTypes
  <2> QED
    BY <1>4, <2>1, <2>2, ScaleAssumption
<1>6. ASSUME NEW i \in 0 .. RingSize - 2 PROVE Ago(i + 1)' = Ago(i)
  <2> DEFINE old == IF i < head THEN head - 1 - i ELSE head - 1 - i + RingSize
             new == IF i + 1 < head' THEN head' - 1 - (i + 1) ELSE head' - 1 - (i + 1) + RingSize
  <2>1. new = old /\ old # head /\ old \in 0 .. RingSize - 1
    BY <1>2, ScaleAssumption DEF RingTypes
  <2>2. i \in 0 .. RingSize - 1 /\ i + 1 \in 0 .. RingSize - 1
    BY ScaleAssumption
  <2>3. Ago(i) = ring[old]
    BY <2>2, AgoIsReadable
  <2>4. Ago(i + 1)' = ring'[new]
    BY <1>4, <2>2
  <2>5. ring'[old] = ring[old]
    BY <1>2, <2>1 DEF RingTypes
  <2> HIDE DEF old, new
  <2> QED
    BY <2>1, <2>3, <2>4, <2>5
<1> QED
  BY <1>3, <1>5, <1>6

\* What is looked back at are readings of the new window.
LEMMA LookBackByAge ==
  ASSUME RingTypes, NEW snap \in Samples, Tick(snap)
  PROVE  /\ LookBack = {Ago(i) : i \in 1 .. AtMost(count, Window) - 1}
         /\ \A s \in LookBack :
              \E i \in 0 .. AtMost(count' - 1, Window) : i \in 0 .. RingSize - 1 /\ Ago(i)' = s
         /\ \A i \in 2 .. Window - 1 : i < count' => Ago(i)' \in LookBack
<1>1. LookBack = {Ago(i) : i \in 1 .. AtMost(count, Window) - 1}
  BY DEF LookBack, Ago
<1>2. /\ count' = IF count + 1 > RingSize THEN RingSize ELSE count + 1
      /\ AtMost(count, Window) = IF count > Window THEN Window ELSE count
      /\ AtMost(count' - 1, Window) = IF count' - 1 > Window THEN Window ELSE count' - 1
      /\ RingTypes'
  BY TickAges DEF Tick, AtMost
<1>3. ASSUME NEW i \in 1 .. AtMost(count, Window) - 1
      PROVE  i + 1 \in 0 .. AtMost(count' - 1, Window) /\ i \in 0 .. RingSize - 2
  BY <1>2, ScaleAssumption DEF RingTypes
<1>4. ASSUME NEW i \in 2 .. Window - 1, i < count'
      PROVE  i - 1 \in 1 .. AtMost(count, Window) - 1
  BY <1>2, <1>4, ScaleAssumption DEF RingTypes
<1>5. ASSUME NEW i \in 1 .. AtMost(count, Window) - 1
      PROVE  /\ i + 1 \in 0 .. AtMost(count' - 1, Window)
             /\ i + 1 \in 0 .. RingSize - 1
             /\ Ago(i + 1)' = Ago(i)
  <2>1. i \in 0 .. RingSize - 2 /\ i + 1 \in 0 .. RingSize - 1
    BY <1>3, ScaleAssumption
  <2>2. Ago(i + 1)' = Ago(i)
    BY <2>1, TickAges
  <2> QED
    BY <1>3, <2>1, <2>2
<1>6. ASSUME NEW i \in 2 .. Window - 1, i < count'
      PROVE  Ago(i)' \in LookBack
  <2> DEFINE j == i - 1
  <2>1. j \in 1 .. AtMost(count, Window) - 1 /\ j + 1 = i
    BY <1>4, <1>6
  <2> HIDE DEF j
  <2>2. Ago(j + 1)' = Ago(j)
    BY <1>5, <2>1
  <2> QED
    BY <1>1, <2>1, <2>2
<1> QED
  BY <1>1, <1>5, <1>6
\* The extremes of a set within a range.
LEMMA ExtremesInRange ==
  ASSUME NEW most \in Nat, NEW S \in SUBSET (0 .. most),
         NEW low \in S, NEW high \in S, \A x \in S : low <= x /\ x <= high
  PROVE  low \in 0 .. most /\ high \in low .. most /\ \A x \in S : x \in low .. high
<1>1. low \in 0 .. most /\ high \in 0 .. most
  OBVIOUS
<1>2. low \in Int /\ high \in Int /\ low <= high
  BY <1>1
<1>3. \A x \in S : x \in Int /\ low <= x /\ x <= high
  OBVIOUS
<1> QED
  BY <1>1, <1>2, <1>3

\* Everything a scale is made for is on it.
LEMMA OnItsScale ==
  ASSUME NEW S, Min(S) \in S, Max(S) \in S, \A x \in S : Min(S) <= x /\ x <= Max(S)
  PROVE  /\ S \in SUBSET Usages =>
              LET margin == AtLeast((Max(S) - Min(S)) \div 20, 20)
              IN  /\ \A x \in S : x >= 0 => Within(x, CpuScale(Min(S), Max(S)))
                  /\ CpuScale(Min(S), Max(S))[1] >= AtLeast(Min(S) - margin, 0)
                  /\ CpuScale(Min(S), Max(S))[2] <= AtMost(Max(S) + margin, CpuFull)
         /\ S \in SUBSET (0 .. IntMax \div 2) =>
              \A x \in S : Within(x, FreqScale(Min(S), Max(S)))
         /\ S \in SUBSET (0 .. MemTotal) => \A x \in S : Within(x, MemScale(Min(S), Max(S)))
<1> DEFINE low == Min(S)
           high == Max(S)
<1>1. low \in S /\ high \in S /\ \A x \in S : low <= x /\ x <= high
  OBVIOUS
<1> HIDE DEF low, high
<1>2. ASSUME S \in SUBSET Usages
      PROVE  /\ \A x \in S : x >= 0 => Within(x, CpuScale(low, high))
             /\ CpuScale(low, high)[1] >= AtLeast(low - AtLeast((high - low) \div 20, 20), 0)
             /\ CpuScale(low, high)[2] <=
                  AtMost(high + AtLeast((high - low) \div 20, 20), CpuFull)
  <2>1. low \in Usages /\ high \in Usages /\ low <= high
    BY <1>1, <1>2
  <2>2. \A x \in S : x \in low .. high
    BY <1>1, <1>2, <2>1 DEF Usages
  <2>3. \A x \in S : x >= 0 => Within(x, CpuScale(low, high))
    BY <2>1, <2>2, OnCpuScale
  <2> QED
    BY <2>1, <2>3, OnCpuScale
<1>3. ASSUME S \in SUBSET (0 .. IntMax \div 2) PROVE \A x \in S : Within(x, FreqScale(low, high))
  <2>1. IntMax \div 2 \in Nat
    BY ScaleAssumption
  <2>2. low \in 0 .. IntMax \div 2 /\ high \in low .. IntMax \div 2 /\ \A x \in S : x \in low .. high
    BY <1>1, <1>3, <2>1, ExtremesInRange
  <2> QED
    BY <2>2, OnFreqScale
<1>4. ASSUME S \in SUBSET (0 .. MemTotal) PROVE \A x \in S : Within(x, MemScale(low, high))
  <2>1. low \in 0 .. MemTotal /\ high \in low .. MemTotal /\ \A x \in S : x \in low .. high
    BY <1>1, <1>4, ScaleAssumption, ExtremesInRange
  <2> QED
    BY <2>1, OnMemScale
<1> QED
  BY <1>2, <1>3, <1>4 DEF low, high

\* The extremes of what a scale is made for.
LEMMA TickScales ==
  ASSUME RingTypes, NEW snap \in Samples
  PROVE  LET cpus  == {snap.cpu} \cup {s.cpu : s \in LookBack}
             freqs == {snap.freq} \cup {f \in {s.freq : s \in LookBack} : f > 0}
             mems  == {snap.mem} \cup {s.mem : s \in LookBack}
         IN  /\ Min(cpus) \in cpus /\ Max(cpus) \in cpus /\ cpus \subseteq Usages
             /\ \A x \in cpus : Min(cpus) <= x /\ x <= Max(cpus)
             /\ Min(freqs) \in freqs /\ Max(freqs) \in freqs /\ freqs \subseteq Frequencies
             /\ \A x \in freqs : Min(freqs) <= x /\ x <= Max(freqs)
             /\ Min(mems) \in mems /\ Max(mems) \in mems /\ mems \subseteq 0 .. MemTotal
             /\ \A x \in mems : Min(mems) <= x /\ x <= Max(mems)
<1> DEFINE cpus  == {snap.cpu} \cup {s.cpu : s \in LookBack}
           freqs == {snap.freq} \cup {f \in {s.freq : s \in LookBack} : f > 0}
           mems  == {snap.mem} \cup {s.mem : s \in LookBack}
<1>1. snap \in Readable /\ LookBack \subseteq Readable /\ IsFiniteSet(LookBack)
  BY LookBackIsFinite, SamplesAreReadable
<1>2. cpus \subseteq Usages /\ freqs \subseteq Frequencies /\ mems \subseteq 0 .. MemTotal
  BY <1>1 DEF Readable
<1>3. IsFiniteSet(cpus)
  <2> DEFINE f == [s \in LookBack |-> s.cpu]
  <2>1. {s.cpu : s \in LookBack} = {f[s] : s \in LookBack}
    OBVIOUS
  <2>2. IsFiniteSet({f[s] : s \in LookBack})
    <3> HIDE DEF f
    <3> QED
      BY <1>1, ImageIsFinite
  <2>3. cpus = {f[s] : s \in LookBack} \cup {snap.cpu}
    BY <2>1
  <2> HIDE DEF f
  <2> QED
    BY <2>2, <2>3, FS_AddElement
<1>4. IsFiniteSet(freqs)
  <2> DEFINE f == [s \in LookBack |-> s.freq]
             rest == {f[s] : s \in LookBack}
  <2>1. freqs \subseteq rest \cup {snap.freq}
    OBVIOUS
  <2>2. IsFiniteSet(rest)
    <3> HIDE DEF f
    <3> QED
      BY <1>1, ImageIsFinite
  <2> HIDE DEF rest
  <2>3. IsFiniteSet(rest \cup {snap.freq})
    BY <2>2, FS_AddElement
  <2> QED
    BY <2>1, <2>3, FS_Subset
<1>5. IsFiniteSet(mems)
  <2> DEFINE f == [s \in LookBack |-> s.mem]
  <2>1. {s.mem : s \in LookBack} = {f[s] : s \in LookBack}
    OBVIOUS
  <2>2. IsFiniteSet({f[s] : s \in LookBack})
    <3> HIDE DEF f
    <3> QED
      BY <1>1, ImageIsFinite
  <2>3. mems = {f[s] : s \in LookBack} \cup {snap.mem}
    BY <2>1
  <2> HIDE DEF f
  <2> QED
    BY <2>2, <2>3, FS_AddElement
<1>6. cpus # {} /\ freqs # {} /\ mems # {}
  OBVIOUS
<1>7. cpus \subseteq Int /\ freqs \subseteq Int /\ mems \subseteq Int
  BY <1>2 DEF Usages, Frequencies
<1> HIDE DEF cpus, freqs, mems
<1>8. ASSUME NEW S \in SUBSET Int, S # {}, IsFiniteSet(S)
      PROVE  Min(S) \in S /\ Max(S) \in S /\ \A x \in S : Min(S) <= x /\ x <= Max(S)
  <2>1. Min(S) \in S /\ \A x \in S : Min(S) <= x
    BY <1>8, LeastExists
  <2>2. Max(S) \in S /\ \A x \in S : x <= Max(S)
    BY <1>8, GreatestExists
  <2> QED
    BY <2>1, <2>2
<1>9. Min(cpus) \in cpus /\ Max(cpus) \in cpus /\ \A x \in cpus : Min(cpus) <= x /\ x <= Max(cpus)
  BY <1>3, <1>6, <1>7, <1>8
<1>10. Min(freqs) \in freqs /\ Max(freqs) \in freqs /\ \A x \in freqs : Min(freqs) <= x /\ x <= Max(freqs)
  BY <1>4, <1>6, <1>7, <1>8
<1>11. Min(mems) \in mems /\ Max(mems) \in mems /\ \A x \in mems : Min(mems) <= x /\ x <= Max(mems)
  BY <1>5, <1>6, <1>7, <1>8
<1>12. /\ Min(cpus) \in cpus /\ Max(cpus) \in cpus /\ cpus \subseteq Usages
       /\ \A x \in cpus : Min(cpus) <= x /\ x <= Max(cpus)
       /\ Min(freqs) \in freqs /\ Max(freqs) \in freqs /\ freqs \subseteq Frequencies
       /\ \A x \in freqs : Min(freqs) <= x /\ x <= Max(freqs)
       /\ Min(mems) \in mems /\ Max(mems) \in mems /\ mems \subseteq 0 .. MemTotal
       /\ \A x \in mems : Min(mems) <= x /\ x <= Max(mems)
  BY <1>2, <1>9, <1>10, <1>11
<1> QED
  BY <1>12 DEF cpus, freqs, mems

\* Everything that was looked at fits.
LEMMA TickFits ==
  ASSUME RingTypes, NEW snap \in Samples, Tick(snap)
  PROVE  /\ Fits(snap)' 
         /\ \A s \in LookBack : Fits(s)'
<1> DEFINE cpus  == {snap.cpu} \cup {s.cpu : s \in LookBack}
           freqs == {snap.freq} \cup {f \in {s.freq : s \in LookBack} : f > 0}
           mems  == {snap.mem} \cup {s.mem : s \in LookBack}
<1>1. /\ Min(cpus) \in cpus /\ Max(cpus) \in cpus /\ cpus \subseteq Usages
      /\ \A x \in cpus : Min(cpus) <= x /\ x <= Max(cpus)
      /\ Min(freqs) \in freqs /\ Max(freqs) \in freqs /\ freqs \subseteq Frequencies
      /\ \A x \in freqs : Min(freqs) <= x /\ x <= Max(freqs)
      /\ Min(mems) \in mems /\ Max(mems) \in mems /\ mems \subseteq 0 .. MemTotal
      /\ \A x \in mems : Min(mems) <= x /\ x <= Max(mems)
  BY TickScales
<1>2. /\ scale'.cpu = CpuScale(Min(cpus), Max(cpus))
      /\ scale'.freq = FreqScale(Min(freqs), Max(freqs))
      /\ scale'.mem = MemScale(Min(mems), Max(mems))
  BY DEF Tick, computeOscilloScales
<1>3. /\ snap.cpu \in cpus /\ snap.freq \in freqs /\ snap.mem \in mems
      /\ \A s \in LookBack : s.cpu \in cpus /\ (s.freq > 0 => s.freq \in freqs) /\ s.mem \in mems
      /\ snap.freq >= 0 => freqs \subseteq 0 .. IntMax \div 2
      /\ last' = snap
  BY <1>1 DEF Tick, Frequencies
<1> HIDE DEF cpus, freqs, mems
<1>4. \A x \in cpus : x >= 0 => Within(x, scale'.cpu)
  BY <1>1, <1>2, OnItsScale
<1>5. snap.freq >= 0 => \A x \in freqs : Within(x, scale'.freq)
  BY <1>1, <1>2, <1>3, OnItsScale
<1>6. \A x \in mems : Within(x, scale'.mem)
  BY <1>1, <1>2, OnItsScale
<1> QED
  BY <1>3, <1>4, <1>5, <1>6 DEF Fits, Within

\* Every step keeps the readings on their axes.
LEMMA ScaleInvStep == ScaleInv /\ [OscNext]_oscVars => ScaleInv'
<1>1. ASSUME ScaleInv, NEW snap \in Samples, Tick(snap) PROVE ScaleInv'
  <2>1. /\ RingTypes /\ RingTypes' /\ Ago(0)' = snap
    BY <1>1, TickAges DEF ScaleInv
  <2>2. OlderOnesFit'
    <3>1. last' = snap
      BY <1>1 DEF Tick
    <3>2. \A i \in 2 .. Window - 1 : i < count' => Ago(i)' \in LookBack
      BY <1>1, <2>1, LookBackByAge
    <3>3. Fits(snap)' /\ \A s \in LookBack : Fits(s)'
      BY <1>1, <2>1, TickFits
    <3> QED
      BY <3>1, <3>2, <3>3 DEF OlderOnesFit, Fits, Within
  <2>3. AxesForget'
    <3> DEFINE visible == {Ago(i)'.cpu : i \in 0 .. AtMost(count' - 1, Window)}
               cpus  == {snap.cpu} \cup {s.cpu : s \in LookBack}
    <3>1. scale'.cpu = CpuScale(Min(cpus), Max(cpus))
      BY <1>1 DEF Tick, computeOscilloScales
    <3>2. /\ Min(cpus) \in cpus /\ Max(cpus) \in cpus /\ cpus \subseteq Usages
          /\ \A x \in cpus : Min(cpus) <= x /\ x <= Max(cpus)
      BY <2>1, TickScales
    <3>3. cpus \subseteq visible
      <4>1. \A s \in LookBack : \E i \in 0 .. AtMost(count' - 1, Window) : Ago(i)' = s
        BY <1>1, <2>1, LookBackByAge
      <4>2. 0 \in 0 .. AtMost(count' - 1, Window)
        BY <1>1, <2>1, ScaleAssumption DEF RingTypes, Tick, AtMost
      <4> QED
        BY <2>1, <4>1, <4>2
    <3>4. visible \subseteq Usages /\ IsFiniteSet(visible)
      <4>1. AtMost(count' - 1, Window) \in -1 .. RingSize - 1
        <5>1. count' \in 0 .. RingSize
          BY <2>1 DEF RingTypes
        <5>2. \A n \in 0 .. RingSize : AtMost(n - 1, Window) \in -1 .. RingSize - 1
          BY ScaleAssumption DEF AtMost
        <5> QED
          BY <5>1, <5>2
      <4> DEFINE oldest == AtMost(count' - 1, Window)
                 f == [i \in 0 .. oldest |-> Ago(i)'.cpu]
      <4> HIDE DEF oldest
      <4>2. \A i \in 0 .. oldest : f[i] \in Usages
        <5> SUFFICES ASSUME NEW i \in 0 .. oldest PROVE f[i] \in Usages
          OBVIOUS
        <5>1. i \in 0 .. RingSize - 1
          BY <4>1, ScaleAssumption DEF oldest
        <5>2. Ago(i)' \in Readable
          BY <2>1, <5>1, AgoIsReadable
        <5> QED
          BY <5>2 DEF Readable
      <4>3. visible = {f[i] : i \in 0 .. oldest}
        BY DEF oldest
      <4> HIDE DEF f
      <4>4. IsFiniteSet({f[i] : i \in 0 .. oldest})
        <5>1. IsFiniteSet(0 .. oldest)
          BY <4>1, FS_Interval DEF oldest
        <5> QED
          BY <5>1, ImageIsFinite
      <4> QED
        BY <4>2, <4>3, <4>4
    <3>5. visible \in SUBSET Int /\ visible # {} /\ cpus \in SUBSET Usages
      <4> HIDE DEF cpus, visible
      <4> QED
        BY <3>2, <3>3, <3>4 DEF Usages
    <3>6. /\ Min(visible) \in visible /\ \A x \in visible : Min(visible) <= x
          /\ Max(visible) \in visible /\ \A x \in visible : x <= Max(visible)
      <4> HIDE DEF cpus, visible
      <4> QED
        BY <3>4, <3>5, GreatestExists, LeastExists
    <3>7. /\ scale'.cpu[1] >= AtLeast(Min(cpus) - AtLeast((Max(cpus) - Min(cpus)) \div 20, 20), 0)
          /\ scale'.cpu[2] <=
               AtMost(Max(cpus) + AtLeast((Max(cpus) - Min(cpus)) \div 20, 20), CpuFull)
      <4> HIDE DEF cpus, visible
      <4> QED
        BY <3>1, <3>2, <3>5, OnItsScale
    <3>8. Min(visible) <= Min(cpus) /\ Min(cpus) <= Max(cpus) /\ Max(cpus) <= Max(visible)
      <4> HIDE DEF cpus, visible
      <4> QED
        BY <3>2, <3>3, <3>6
    <3>9. /\ Min(visible) \in Int /\ Max(visible) \in Int /\ Min(cpus) \in Int /\ Max(cpus) \in Int
          /\ scale'.cpu[1] \in Int /\ scale'.cpu[2] \in Int
      <4>1. Min(visible) \in Int /\ Max(visible) \in Int /\ Min(cpus) \in Int /\ Max(cpus) \in Int
        <5> HIDE DEF cpus, visible
        <5> QED
          BY <3>2, <3>3, <3>5, <3>6
      <4> HIDE DEF cpus, visible
      <4> QED
        BY <3>1, <4>1 DEF CpuScale, AtLeast, AtMost, CpuFull
    <3>10. ASSUME NEW a \in Int, NEW b \in Int, NEW low \in Int, NEW high \in Int,
                  a <= low, low <= high, high <= b
           PROVE  AtLeast((high - low) \div 20, 20) <= AtLeast((b - a) \div 20, 20)
      BY <3>10 DEF AtLeast
    <3>11. /\ scale'.cpu[1] >=
                AtLeast(Min(visible) - AtLeast((Max(visible) - Min(visible)) \div 20, 20), 0)
           /\ scale'.cpu[2] <=
                AtMost(Max(visible) + AtLeast((Max(visible) - Min(visible)) \div 20, 20), CpuFull)
      <4> DEFINE small == AtLeast((Max(cpus) - Min(cpus)) \div 20, 20)
                 wide == AtLeast((Max(visible) - Min(visible)) \div 20, 20)
      <4> HIDE DEF cpus, visible
      <4>1. small <= wide
        BY <3>8, <3>9, <3>10
      <4>2. small \in Int /\ wide \in Int
        BY <3>9 DEF AtLeast
      <4>3. /\ scale'.cpu[1] >= AtLeast(Min(cpus) - small, 0)
            /\ scale'.cpu[2] <= AtMost(Max(cpus) + small, CpuFull)
        BY <3>7
      <4> HIDE DEF small, wide
      <4>4. /\ scale'.cpu[1] >= AtLeast(Min(visible) - wide, 0)
            /\ scale'.cpu[2] <= AtMost(Max(visible) + wide, CpuFull)
        BY <3>8, <3>9, <4>1, <4>2, <4>3 DEF AtLeast, AtMost, CpuFull
      <4> QED
        BY <4>4 DEF wide
    <3> QED
      BY <3>11 DEF AxesForget
  <2> QED
    BY <2>1, <2>2, <2>3 DEF ScaleInv
<1>2. ASSUME ScaleInv, UNCHANGED oscVars PROVE ScaleInv'
  BY <1>2 DEF ScaleInv, RingTypes, OlderOnesFit, AxesForget, Fits, Within, Ago, oscVars
<1> QED
  BY <1>1, <1>2 DEF OscNext
\* Before the first tick there is no reading.
LEMMA ScaleInvInit == OscInit => ScaleInv
<1> SUFFICES ASSUME OscInit PROVE ScaleInv
  OBVIOUS
<1>1. NoReading \in Readable
  BY ScaleAssumption DEF NoReading, Readable, Usages, Frequencies, CpuFull
<1>2. RingTypes
  BY <1>1, ScaleAssumption DEF OscInit, RingTypes
<1> QED
  BY <1>2 DEF OscInit, ScaleInv, OlderOnesFit, AxesForget

\* The scales of a tick hold its reading and the older ones that are still looked
\* back at, and however far a counter slips, only what comes of that lies off them,
\* for every ring that is longer than the window (oscilloscope scales of broker.go).
THEOREM ReadingsFitTheirAxes == OscSpec => []OlderOnesFit
<1>1. ScaleInv => OlderOnesFit
  BY DEF ScaleInv
<1> QED
  BY ScaleInvInit, ScaleInvStep, <1>1, PTL DEF OscSpec

\* An extreme that has left the window no longer stretches the CPU axis, for every
\* ring that is longer than the window.
THEOREM ScalesForgetOldReadings == OscSpec => []AxesForget
<1>1. ScaleInv => AxesForget
  BY DEF ScaleInv
<1> QED
  BY ScaleInvInit, ScaleInvStep, <1>1, PTL DEF OscSpec

-------------------------------------------------------------------------------
(* The load of the cores (CpuSample).                                      *)

\* A ratio of a hundred at most is a percentage.
LEMMA RatioIsPercentage ==
  ASSUME NEW n \in Nat, NEW d \in Nat \ {0}, n <= 100 * d
  PROVE  n \div d \in 0 .. 100
OBVIOUS

\* And a percentage of the highest frequency is within it.
LEMMA ShareOfFrequency ==
  ASSUME NEW p \in 0 .. 100, NEW m \in Nat
  PROVE  (p * m) \div 100 \in 0 .. m
<1>1. p * m \in Nat /\ p * m <= 100 * m
  OBVIOUS
<1> DEFINE q == p * m
<1> HIDE DEF q
<1>2. q \in Nat /\ q <= 100 * m
  BY <1>1 DEF q
<1>3. q \div 100 \in 0 .. m
  BY <1>2
<1> QED
  BY <1>3 DEF q

\* What is less than the word does not wrap around.
LEMMA SmallIsUnwrapped ==
  ASSUME NEW w \in Nat, NEW n \in Nat, n < w
  PROVE  n % w = n
OBVIOUS

\* What cpuPercentAll and collect are given, and what the loads are.
CpuInv ==
  /\ online \subseteq Cores /\ listed \subseteq Cores
  /\ gained \in [Cores -> [idle : -MaxJiffies .. MaxJiffies, busy : 0 .. MaxJiffies]]
  /\ LoadIsPercentage

\* Before the first reading nothing is loaded.
LEMMA CpuInvInit == CpuInit => CpuInv
BY CpuAssumption DEF CpuInit, CpuInv, NothingGained, LoadIsPercentage

\* Where no counter has slipped back, no difference wraps around.
LEMMA PercentOfUnslipped ==
  ASSUME CpuInv, NEW c \in Counted, gained[c].idle >= 0
  PROVE  Percent(c) \in 0 .. 100
<1> DEFINE idle == gained[c].idle
           busy == gained[c].busy
<1>1. idle \in 0 .. MaxJiffies /\ busy \in 0 .. MaxJiffies
  BY DEF CpuInv, Counted
<1>2. dTotal(c) > 0 /\ dTotal(c) = (idle + busy) % CpuWord /\ dIdle(c) = idle % CpuWord
  BY DEF Counted, dTotal, dIdle
<1> HIDE DEF idle, busy
<1>3. idle \in Nat /\ idle < CpuWord /\ idle + busy \in Nat /\ idle + busy < CpuWord
  BY <1>1, CpuAssumption
<1>4. dTotal(c) = idle + busy /\ dIdle(c) = idle
  BY <1>2, <1>3, CpuAssumption, SmallIsUnwrapped
<1> DEFINE total == idle + busy
           n == 100 * (total - idle)
<1>5. Percent(c) = n \div total
  BY <1>4 DEF Percent
<1>6. total \in Nat \ {0} /\ n \in Nat /\ n <= 100 * total
  BY <1>1, <1>2, <1>3, <1>4
<1> HIDE DEF n, total
<1> QED
  BY <1>5, <1>6, RatioIsPercentage

\* So is the mean of the cores, which is the quotient of two sums.
LEMMA UsageOfUnslipped ==
  ASSUME CpuInv, \A c \in Counted : gained[c].idle >= 0
  PROVE  Usage \in 0 .. 100
<1>1. \A c \in Counted : PerCore[c] \in 0 .. 100
  BY PercentOfUnslipped DEF PerCore
<1>2. CASE Counted = {}
  BY <1>2 DEF Usage
<1>3. CASE Counted # {}
  <2>1. IsFiniteSet(Counted)
    BY CpuAssumption, FS_Subset DEF CpuInv, Counted
  <2> DEFINE sum == SumOf(PerCore, Counted)
             cores == Cardinality(Counted)
  <2>2. Usage = sum \div cores
    BY <1>3 DEF Usage, SumOf
  <2>3. cores \in Nat \ {0}
    BY <2>1, <1>3, FS_CardinalityType, FS_EmptySet
  <2>4. sum \in Nat
    <3>1. \A c \in Counted : PerCore[c] \in Nat
      BY <1>1
    <3> QED
      BY <2>1, <3>1, SumOfNaturals
  <2>5. sum <= 100 * cores
    BY <1>1, <2>1, SumIsBounded
  <2> HIDE DEF sum, cores
  <2> QED
    BY <2>2, <2>3, <2>4, <2>5, RatioIsPercentage
<1> QED
  BY <1>2, <1>3

\* Every reading computes percentages.
LEMMA CpuInvStep == CpuInv /\ [CpuNext]_cpuVars => CpuInv'
<1> SUFFICES ASSUME CpuInv, [CpuNext]_cpuVars PROVE CpuInv'
  OBVIOUS
<1> USE CpuAssumption
<1>1. ASSUME NEW c \in Cores, NEW kind \in {"idle", "busy"}, Spend(c, kind) PROVE CpuInv'
  <2>1. gained[c] \in [idle : -MaxJiffies .. MaxJiffies, busy : 0 .. MaxJiffies]
    BY DEF CpuInv
  <2>2. gained' \in [Cores -> [idle : -MaxJiffies .. MaxJiffies, busy : 0 .. MaxJiffies]]
    BY <1>1, <2>1 DEF CpuInv, Spend
  <2> QED
    BY <1>1, <2>2 DEF CpuInv, Spend, LoadIsPercentage
<1>2. ASSUME NEW c \in Cores, TakeBackIdle(c) PROVE CpuInv'
  <2>1. gained[c] \in [idle : -MaxJiffies .. MaxJiffies, busy : 0 .. MaxJiffies]
    BY DEF CpuInv
  <2>2. gained' \in [Cores -> [idle : -MaxJiffies .. MaxJiffies, busy : 0 .. MaxJiffies]]
    BY <1>2, <2>1 DEF CpuInv, TakeBackIdle
  <2> QED
    BY <1>2, <2>2 DEF CpuInv, TakeBackIdle, LoadIsPercentage
<1>3. ASSUME NEW c \in Cores, Plug(c) PROVE CpuInv'
  BY <1>3 DEF CpuInv, Plug, LoadIsPercentage
<1>4. CASE ReadFirst
  BY <1>4 DEF CpuInv, ReadFirst, LoadIsPercentage
<1>5. CASE ReadSecond
  <2>1. online' \subseteq Cores /\ listed' \subseteq Cores
    BY <1>5 DEF CpuInv, ReadSecond
  <2>2. gained' \in [Cores -> [idle : -MaxJiffies .. MaxJiffies, busy : 0 .. MaxJiffies]]
    BY <1>5 DEF ReadSecond, NothingGained
  <2>3. ASSUME slipped' = {}
        PROVE  /\ \A c \in DOMAIN load'.perCore : load'.perCore[c] \in 0 .. 100
               /\ load'.usage \in 0 .. 100
               /\ load'.frequency \in 0 .. FreqMax
    <3>1. load' = [perCore |-> PerCore, usage |-> Usage,
                   frequency |-> (Usage * FreqMax) \div 100]
      BY <1>5 DEF ReadSecond
    <3>2. \A c \in Counted : gained[c].idle \in Int /\ gained[c].idle >= 0
      BY <1>5, <2>3 DEF ReadSecond, Counted, CpuInv
    <3>3. Usage \in 0 .. 100
      BY <3>2, UsageOfUnslipped
    <3>4. \A c \in Counted : PerCore[c] \in 0 .. 100
      BY <3>2, PercentOfUnslipped DEF PerCore
    <3>5. (Usage * FreqMax) \div 100 \in 0 .. FreqMax
      BY <3>3, ShareOfFrequency
    <3>6. DOMAIN PerCore = Counted
      BY DEF PerCore
    <3> QED
      BY <3>1, <3>3, <3>4, <3>5, <3>6
  <2> QED
    BY <2>1, <2>2, <2>3 DEF CpuInv, LoadIsPercentage
<1>6. CASE UNCHANGED cpuVars
  BY <1>6 DEF CpuInv, cpuVars, LoadIsPercentage
<1> QED
  BY <1>1, <1>2, <1>3, <1>4, <1>5, <1>6 DEF CpuNext

\* The load of each core and of the host is a percentage and the frequency at most
\* the highest, for every set of cores, of which any come and go, and counters of
\* any width, as long as none slipped back (cpuPercentAll and collect).
THEOREM CpuLoadIsPercentage == CpuSpec => []LoadIsPercentage
<1>1. CpuInv => LoadIsPercentage
  BY DEF CpuInv
<1> QED
  BY CpuInvInit, CpuInvStep, <1>1, PTL DEF CpuSpec

-------------------------------------------------------------------------------
(* The rates (Rates).                                                      *)

\* Rounding down, a rate is of no more than was counted.
LEMMA RateIsOfWhatWasCounted ==
  ASSUME NEW n \in Nat, NEW time \in Nat \ {0}
  PROVE  n \div time \in Nat /\ (n \div time) * time <= n
OBVIOUS

\* A product grows with its factor.
LEMMA FewerIsLess ==
  ASSUME NEW n \in Nat, NEW m \in Nat, n <= m, NEW time \in Nat
  PROVE  n * time <= m * time
OBVIOUS

\* What was counted of x is at least what its counter has gained since it was read.
ReadBefore(readings, kind) ==
  /\ DOMAIN readings \subseteq kind
  /\ \A x \in DOMAIN readings : readings[x] \in Nat /\ counters[x] - readings[x] <= moved[x]

\* The counters of the kernel, and what the collector remembers of them.
RateTypes ==
  /\ at \in {"collect", "map", "xen"}
  /\ dt \in Nat
  /\ counters \in [Metered -> Nat \cup {Absent}]
  /\ moved \in [Metered \cup {"total"} -> Nat]
  /\ prevTotal \in Nat \cup {Absent}

\* What the collector remembers of a counter is at most what was counted since away
\* from what the counter says now; of all interfaces, the sum is.
RateInv ==
  /\ RateTypes
  /\ prevTotal # Absent => Total - prevTotal <= moved["total"]
  /\ ReadBefore(prevIfaces, Ifaces)
  /\ ReadBefore(prevXenCPU, Domains)

\* The total of the host, now and after a step, is a sum over the interfaces that are.
LEMMA TotalIsSum ==
  /\ Total = SumOf(counters, Present(Ifaces, counters))
  /\ Total' = SumOf(counters', Present(Ifaces, counters'))
<1>1. Total = SumOf(counters, Present(Ifaces, counters))
  BY DEF Total, SumOf
<1>2. (Total = SumOf(counters, Present(Ifaces, counters)))'
  BY <1>1, PTL
<1> QED
  BY <1>1, <1>2

\* Such a sum is a natural number.
LEMMA TotalIsNatural ==
  ASSUME NEW number \in [Metered -> Nat \cup {Absent}]
  PROVE  /\ IsFiniteSet(Present(Ifaces, number))
         /\ \A x \in Present(Ifaces, number) : number[x] \in Nat
         /\ SumOf(number, Present(Ifaces, number)) \in Nat
<1>1. Present(Ifaces, number) \subseteq Ifaces
  BY DEF Present
<1>2. IsFiniteSet(Present(Ifaces, number))
  BY <1>1, RatesAssumption, FS_Subset
<1>3. \A x \in Present(Ifaces, number) : number[x] \in Nat
  BY DEF Present, Metered
<1> QED
  BY <1>2, <1>3, SumOfNaturals

\* A packet of an interface adds one to the total, a domain's time nothing.
LEMMA CountAddsOne ==
  ASSUME RateTypes, NEW x \in Metered, Count(x)
  PROVE  Total' = IF x \in Ifaces THEN Total + 1 ELSE Total
<1> DEFINE here == Present(Ifaces, counters)
<1>1. /\ counters[x] \in Nat /\ counters' \in [Metered -> Nat \cup {Absent}]
      /\ counters'[x] = counters[x] + 1
      /\ \A y \in Metered \ {x} : counters'[y] = counters[y]
  BY RatesAssumption DEF RateTypes, Count
<1>2. Present(Ifaces, counters') = here
  BY <1>1 DEF Present, Metered, Absent
<1>3. /\ IsFiniteSet(here)
      /\ \A y \in here : counters[y] \in Nat /\ counters'[y] \in Nat
      /\ Total \in Nat
  BY <1>1, <1>2, TotalIsNatural, TotalIsSum DEF RateTypes
<1>4. CASE x \in Ifaces
  <2>1. x \in here
    BY <1>1, <1>4 DEF Present, Absent
  <2>2. \A y \in here \ {x} : counters'[y] = counters[y]
    BY <1>1 DEF Present, Metered
  <2>3. SumOf(counters', here) = SumOf(counters, here) - counters[x] + counters'[x]
    <3>1. \A y \in here : counters[y] \in Int /\ counters'[y] \in Int
      BY <1>3
    <3> HIDE DEF here
    <3> QED
      BY <1>3, <2>1, <2>2, <3>1, SumChanges
  <2>4. Total' = Total - counters[x] + counters'[x]
    BY <1>2, <2>3, TotalIsSum
  <2> QED
    BY <1>1, <1>3, <1>4, <2>4
<1>5. CASE x \notin Ifaces
  <2>1. \A y \in here : counters[y] \in Int /\ counters[y] = counters'[y]
    BY <1>1, <1>3, <1>5 DEF Present, Metered
  <2>2. SumOf(counters, here) = SumOf(counters', here)
    BY <1>3, <2>1, SumOfEquals
  <2> QED
    BY <1>2, <1>5, <2>2, TotalIsSum
<1> QED
  BY <1>4, <1>5

\* What goes, comes or starts again does not add to it.
LEMMA ChangeAddsNothing ==
  ASSUME RateTypes, NEW x \in Metered, NEW number \in {0, Absent}, Change(x, number)
  PROVE  Total' <= Total
<1> DEFINE here == Present(Ifaces, counters)
           there == Present(Ifaces, counters')
           rest == here \ {x}
<1>1. /\ counters' \in [Metered -> Nat \cup {Absent}]
      /\ counters'[x] = number
      /\ \A y \in Metered \ {x} : counters'[y] = counters[y]
  BY DEF RateTypes, Change
<1>2. there \ {x} = rest
  BY <1>1 DEF Present, Metered
<1>3. /\ IsFiniteSet(here) /\ IsFiniteSet(there)
      /\ \A y \in here : counters[y] \in Nat
      /\ \A y \in there : counters'[y] \in Nat
  BY <1>1, TotalIsNatural DEF RateTypes
<1>4. Total = SumOf(counters, here) /\ Total' = SumOf(counters', there)
  BY TotalIsSum
<1>5. x \in there => counters'[x] = 0
  BY <1>1 DEF Present
<1>6. \A y \in rest : counters'[y] = counters[y]
  BY <1>1 DEF Present, Metered
<1> HIDE DEF here, there
<1>7. SumOf(counters, rest) \in Nat /\ SumOf(counters, rest) <= SumOf(counters, here)
  BY <1>3, SumOfNaturals
<1>8. SumOf(counters', rest) = SumOf(counters, rest)
  <2>1. \A y \in rest : counters'[y] \in Int /\ counters'[y] = counters[y]
    BY <1>3, <1>6
  <2>2. IsFiniteSet(rest)
    BY <1>3, FS_Subset
  <2> HIDE DEF rest
  <2> QED
    BY <2>1, <2>2, SumOfEquals
<1>9. SumOf(counters', there) = SumOf(counters', rest)
  <2>1. CASE x \in there
    <3>1. \A y \in there : counters'[y] \in Int
      BY <1>3
    <3>2. SumOf(counters', there) = counters'[x] + SumOf(counters', there \ {x})
      BY <1>3, <2>1, <3>1, SumTakesElement
    <3> HIDE DEF rest
    <3> QED
      BY <1>2, <1>5, <1>7, <1>8, <2>1, <3>2
  <2>2. CASE x \notin there
    BY <1>2, <2>2
  <2> QED
    BY <2>1, <2>2
<1> HIDE DEF rest
<1> QED
  BY <1>4, <1>7, <1>8, <1>9

\* At first nothing is remembered.
LEMMA RateInvInit == RatesInit => RateInv
<1> SUFFICES ASSUME RatesInit PROVE RateInv
  OBVIOUS
<1>1. RateTypes
  BY DEF RatesInit, RateTypes, Absent
<1>2. ReadBefore(prevIfaces, Ifaces) /\ ReadBefore(prevXenCPU, Domains)
  BY DEF RatesInit, ReadBefore
<1> QED
  BY <1>1, <1>2 DEF RatesInit, RateInv

\* The readings that a tick leaves for the next.
LEMMA ReadNow ==
  ASSUME NEW kind \in SUBSET Metered, RateTypes
  PROVE  /\ DOMAIN Readings(kind) \subseteq kind
         /\ \A x \in DOMAIN Readings(kind) :
              Readings(kind)[x] \in Nat /\ counters[x] = Readings(kind)[x]
BY DEF Readings, Present, RateTypes

\* No step of the kernel or the collector makes a memory exceed what was counted.
LEMMA RateInvStep == RateInv /\ [RatesNext]_rateVars => RateInv'
<1> SUFFICES ASSUME RateInv, [RatesNext]_rateVars PROVE RateInv'
  OBVIOUS
<1> USE RatesAssumption
<1>0. RateTypes /\ Total \in Nat
  BY TotalIsNatural, TotalIsSum DEF RateInv, RateTypes
<1>a. /\ counters \in [Metered -> Int] /\ moved \in [Metered \cup {"total"} -> Nat]
      /\ prevTotal \in Int /\ Ifaces \subseteq Metered /\ Domains \subseteq Metered
  BY <1>0 DEF RateTypes, Metered, Absent
<1>1. ASSUME NEW x \in Metered, Count(x) PROVE RateInv'
  <2>1. /\ counters'[x] = counters[x] + 1 /\ counters[x] \in Nat
        /\ moved'[x] = moved[x] + 1
        /\ moved'["total"] = IF x \in Ifaces THEN moved["total"] + 1 ELSE moved["total"]
        /\ \A y \in Metered \ {x} : counters'[y] = counters[y] /\ moved'[y] = moved[y]
    BY <1>0, <1>1 DEF Count, RateTypes
  <2>2. RateTypes'
    <3>1. counters' \in [Metered -> Nat \cup {Absent}]
      BY <1>0, <1>1 DEF Count, RateTypes
    <3>2. moved' \in [Metered \cup {"total"} -> Nat]
      BY <1>0, <1>1 DEF Count, RateTypes
    <3> QED
      BY <1>0, <1>1, <3>1, <3>2 DEF Count, RateTypes
  <2>3. Total' = IF x \in Ifaces THEN Total + 1 ELSE Total
    BY <1>0, <1>1, CountAddsOne
  <2>4. prevTotal' # Absent => Total' - prevTotal' <= moved'["total"]
    <3>1. prevTotal' = prevTotal /\ moved["total"] \in Nat
      BY <1>1, <1>a DEF Count
    <3> QED
      BY <1>0, <1>a, <2>1, <2>3, <3>1 DEF RateInv
  <2>5. UNCHANGED <<prevIfaces, prevXenCPU>>
    BY <1>1 DEF Count
  <2>6. ASSUME NEW readings, NEW kind \in SUBSET Metered, ReadBefore(readings, kind)
        PROVE  /\ DOMAIN readings \subseteq kind
               /\ \A y \in DOMAIN readings :
                    readings[y] \in Nat /\ counters'[y] - readings[y] <= moved'[y]
    <3> SUFFICES ASSUME NEW y \in DOMAIN readings
                 PROVE  readings[y] \in Nat /\ counters'[y] - readings[y] <= moved'[y]
      BY <2>6 DEF ReadBefore
    <3>1. readings[y] \in Nat /\ counters[y] - readings[y] <= moved[y] /\ y \in Metered
      BY <2>6 DEF ReadBefore
    <3>2. counters[y] \in Int /\ moved[y] \in Int
      BY <1>a, <3>1
    <3> QED
      BY <2>1, <3>1, <3>2
  <2>7. ReadBefore(prevIfaces, Ifaces)' /\ ReadBefore(prevXenCPU, Domains)'
    BY <1>a, <2>5, <2>6 DEF RateInv, ReadBefore
  <2> QED
    BY <2>2, <2>4, <2>7 DEF RateInv
<1>2. ASSUME NEW x \in Metered, NEW number \in {0, Absent}, Change(x, number) PROVE RateInv'
  <2>1. /\ counters'[x] = number /\ moved' = moved
        /\ \A y \in Metered \ {x} : counters'[y] = counters[y]
    BY <1>0, <1>2 DEF Change, RateTypes
  <2>2. RateTypes'
    BY <1>0, <1>2 DEF Change, RateTypes
  <2>3. Total' <= Total /\ Total' \in Nat
    BY <1>0, <1>2, <2>2, ChangeAddsNothing, TotalIsNatural, TotalIsSum DEF RateTypes
  <2>4. prevTotal' # Absent => Total' - prevTotal' <= moved'["total"]
    <3>1. prevTotal' = prevTotal /\ moved["total"] \in Nat
      BY <1>2, <1>a DEF Change
    <3> QED
      BY <1>0, <1>a, <2>1, <2>3, <3>1 DEF RateInv
  <2>5. UNCHANGED <<prevIfaces, prevXenCPU>>
    BY <1>2 DEF Change
  <2>6. ASSUME NEW readings, NEW kind \in SUBSET Metered, ReadBefore(readings, kind)
        PROVE  /\ DOMAIN readings \subseteq kind
               /\ \A y \in DOMAIN readings :
                    readings[y] \in Nat /\ counters'[y] - readings[y] <= moved'[y]
    <3> SUFFICES ASSUME NEW y \in DOMAIN readings
                 PROVE  readings[y] \in Nat /\ counters'[y] - readings[y] <= moved'[y]
      BY <2>6 DEF ReadBefore
    <3>1. readings[y] \in Nat /\ counters[y] - readings[y] <= moved[y] /\ y \in Metered
      BY <2>6 DEF ReadBefore
    <3>2. counters[y] \in Int /\ moved[y] \in Nat
      BY <1>a, <3>1
    <3> QED
      BY <2>1, <3>1, <3>2 DEF Absent
  <2>7. ReadBefore(prevIfaces, Ifaces)' /\ ReadBefore(prevXenCPU, Domains)'
    BY <1>a, <2>5, <2>6 DEF RateInv, ReadBefore
  <2> QED
    BY <2>2, <2>4, <2>7 DEF RateInv
<1>3. CASE Elapse
  <2>1. UNCHANGED <<at, counters, prevTotal, prevIfaces, prevXenCPU, moved>> /\ dt' = dt + 1
    BY <1>3 DEF Elapse
  <2>2. Total' = Total
    BY <2>1, TotalIsSum
  <2> QED
    BY <1>0, <2>1, <2>2 DEF RateInv, RateTypes, ReadBefore
<1>4. CASE Collect
  <2>1. /\ UNCHANGED <<dt, counters, prevIfaces, prevXenCPU>> /\ at' = "map"
        /\ prevTotal' = Total /\ moved'["total"] = 0
        /\ moved' \in [Metered \cup {"total"} -> Nat]
        /\ \A y \in Metered : moved'[y] = moved[y]
    BY <1>4, <1>a DEF Collect
  <2>2. Total' = Total
    BY <2>1, TotalIsSum
  <2>3. ReadBefore(prevIfaces, Ifaces)' /\ ReadBefore(prevXenCPU, Domains)'
    BY <1>a, <2>1 DEF RateInv, ReadBefore
  <2>4. RateTypes'
    BY <1>0, <2>1 DEF RateTypes
  <2>5. Total' - prevTotal' <= moved'["total"]
    BY <1>0, <2>1, <2>2
  <2> QED
    BY <2>3, <2>4, <2>5 DEF RateInv
<1>5. CASE MapInterfaces
  <2>1. /\ UNCHANGED <<dt, counters, prevTotal, prevXenCPU>> /\ at' = "xen"
        /\ prevIfaces' = Readings(Ifaces)
        /\ moved' = [x \in DOMAIN moved |-> IF x \in Ifaces THEN 0 ELSE moved[x]]
    BY <1>5 DEF MapInterfaces
  <2>2. /\ moved' \in [Metered \cup {"total"} -> Nat] /\ moved'["total"] = moved["total"]
        /\ \A y \in Ifaces : moved'[y] = 0
        /\ \A y \in Domains : moved'[y] = moved[y]
    BY <1>a, <2>1 DEF Metered
  <2>3. Total' = Total
    BY <2>1, TotalIsSum
  <2>4. ReadBefore(prevIfaces, Ifaces)'
    BY <1>0, <1>a, <2>1, <2>2, ReadNow DEF ReadBefore
  <2>5. ReadBefore(prevXenCPU, Domains)'
    BY <1>a, <2>1, <2>2 DEF RateInv, ReadBefore
  <2>6. RateTypes'
    BY <1>0, <2>1, <2>2 DEF RateTypes
  <2>7. prevTotal' # Absent => Total' - prevTotal' <= moved'["total"]
    BY <2>1, <2>2, <2>3 DEF RateInv
  <2> QED
    BY <2>4, <2>5, <2>6, <2>7 DEF RateInv
<1>6. ASSUME NEW fails \in BOOLEAN, ListDomains(fails) PROVE RateInv'
  <2>1. /\ UNCHANGED <<counters, prevTotal, prevIfaces>> /\ at' = "collect" /\ dt' = 0
        /\ prevXenCPU' = IF fails THEN << >> ELSE Readings(Domains)
        /\ moved' = [x \in DOMAIN moved |-> IF x \in Domains THEN 0 ELSE moved[x]]
    BY <1>6 DEF ListDomains
  <2>2. /\ moved' \in [Metered \cup {"total"} -> Nat] /\ moved'["total"] = moved["total"]
        /\ \A y \in Domains : moved'[y] = 0
        /\ \A y \in Ifaces : moved'[y] = moved[y]
    BY <1>a, <2>1 DEF Metered
  <2>3. Total' = Total
    BY <2>1, TotalIsSum
  <2>4. ReadBefore(prevXenCPU, Domains)'
    <3>1. CASE fails
      BY <2>1, <3>1 DEF ReadBefore
    <3>2. CASE ~fails
      BY <1>0, <1>a, <2>1, <2>2, <3>2, ReadNow DEF ReadBefore
    <3> QED
      BY <3>1, <3>2
  <2>5. ReadBefore(prevIfaces, Ifaces)'
    BY <1>a, <2>1, <2>2 DEF RateInv, ReadBefore
  <2>6. RateTypes'
    BY <1>0, <2>1, <2>2 DEF RateTypes
  <2>7. prevTotal' # Absent => Total' - prevTotal' <= moved'["total"]
    BY <2>1, <2>2, <2>3 DEF RateInv
  <2> QED
    BY <2>4, <2>5, <2>6, <2>7 DEF RateInv
<1>7. CASE UNCHANGED rateVars
  <2>1. UNCHANGED <<at, dt, counters, prevTotal, prevIfaces, prevXenCPU, moved>>
    BY <1>7 DEF rateVars
  <2>2. Total' = Total
    BY <2>1, TotalIsSum
  <2> QED
    BY <2>1, <2>2 DEF RateInv, RateTypes, ReadBefore
<1> QED
  BY <1>1, <1>2, <1>3, <1>4, <1>5, <1>6, <1>7 DEF RatesNext

\* The rate of anything that the invariant says was read before.
LEMMA RateIsBounded ==
  ASSUME NEW now \in Nat, NEW before \in Nat \cup {Absent}, NEW most \in Nat,
         before # Absent => now - before <= most, dt \in Nat
  PROVE  Rate(now, before) \in Nat /\ Rate(now, before) * dt <= most
<1>1. CASE before # Absent /\ dt > 0 /\ now >= before
  <2> DEFINE n == now - before
  <2>1. n \in Nat /\ n <= most /\ Rate(now, before) = n \div dt
    BY <1>1 DEF Rate, Absent
  <2> HIDE DEF n
  <2>2. n \div dt \in Nat /\ (n \div dt) * dt <= n
    BY <1>1, <2>1, RateIsOfWhatWasCounted
  <2> DEFINE rate == n \div dt
             product == rate * dt
  <2>3. product \in Nat /\ product <= n
    BY <2>2
  <2> HIDE DEF rate, product
  <2>4. product <= most
    BY <2>1, <2>3
  <2> QED
    BY <2>1, <2>2, <2>4 DEF rate, product
<1>2. CASE ~(before # Absent /\ dt > 0 /\ now >= before)
  BY <1>2 DEF Rate
<1> QED
  BY <1>1, <1>2

\* Rates computed from such memories never exceed the counts.
LEMMA RateInvBoundsRates == RateInv => RatesNeverExceedCounts
<1> SUFFICES ASSUME RateInv PROVE RatesNeverExceedCounts
  OBVIOUS
<1>1. RateTypes /\ Total \in Nat /\ dt \in Nat
  BY TotalIsNatural, TotalIsSum DEF RateInv, RateTypes
<1>2. NetRXBps * dt <= moved["total"]
  BY <1>1, RateIsBounded DEF RateInv, NetRXBps, RateTypes
<1>3. ASSUME NEW kind \in {Ifaces, Domains}, NEW readings, ReadBefore(readings, kind),
             NEW x \in Present(kind, counters)
      PROVE  /\ Rate(counters[x], Before(readings, x)) \in Nat
             /\ Rate(counters[x], Before(readings, x)) * dt <= moved[x]
             /\ moved[x] \in Nat
  <2>1. x \in Metered /\ counters[x] \in Nat /\ moved[x] \in Nat
    BY <1>1, <1>3 DEF Present, Metered, RateTypes
  <2>2. /\ Before(readings, x) \in Nat \cup {Absent}
        /\ Before(readings, x) # Absent => counters[x] - Before(readings, x) <= moved[x]
    BY <1>3 DEF Before, ReadBefore
  <2> QED
    BY <1>1, <2>1, <2>2, RateIsBounded
<1>4. \A x \in Present(Ifaces, counters) : IfaceRXBps(x) * dt <= moved[x]
  BY <1>3 DEF RateInv, IfaceRXBps
<1>5. ASSUME NEW d \in Present(Domains, counters) PROVE CPUPct(d) * dt <= moved[d]
  <2> DEFINE used == Rate(counters[d], Before(prevXenCPU, d))
  <2>1. used \in Nat /\ used * dt <= moved[d] /\ moved[d] \in Nat
    BY <1>3 DEF RateInv
  <2>2. CPUPct(d) = IF used > VCPUs THEN VCPUs ELSE used
    BY DEF CPUPct
  <2> HIDE DEF used
  <2>3. CPUPct(d) \in Nat /\ CPUPct(d) <= used
    BY <2>1, <2>2, RatesAssumption
  <2>4. CPUPct(d) * dt <= used * dt
    BY <1>1, <2>1, <2>3, FewerIsLess
  <2>5. CPUPct(d) * dt \in Int /\ used * dt \in Int
    BY <1>1, <2>1, <2>3
  <2> DEFINE a == CPUPct(d) * dt
             b == used * dt
  <2>6. a \in Int /\ b \in Int /\ a <= b /\ b <= moved[d]
    BY <2>1, <2>4, <2>5
  <2> HIDE DEF a, b
  <2>7. a <= moved[d]
    BY <2>1, <2>6
  <2> QED
    BY <2>7 DEF a
<1> QED
  BY <1>2, <1>4, <1>5 DEF RatesNeverExceedCounts

\* What a snapshot shows as a rate was counted since the reading before, for the
\* host and for every interface and domain, however many there are, whatever came,
\* went or started again (Rates of metrics.go).
THEOREM RatesAreOfWhatWasCounted == RatesSpec => []RatesNeverExceedCounts
BY RateInvInit, RateInvStep, RateInvBoundsRates, PTL DEF RatesSpec

-------------------------------------------------------------------------------
(* The identity of neighbours (NeighborIdentity).                          *)

\* The signals, as records.
Weighed ==
  [source : {"dhcp", "public-ip", "mac", "oui", "interface"}, type : Roles, weight : Nat]
Of(source, type, weight) == [source |-> source, type |-> type, weight |-> weight]
If(when, signal) == IF when THEN {signal} ELSE {}

\* A list of signals that has each of a set once.
Lists(signals, set) ==
  /\ signals \in Seq(Weighed)
  /\ \A i \in DOMAIN signals : signals[i] \in set
  /\ \A s \in set : \E i \in DOMAIN signals : signals[i] = s
  /\ \A i, j \in DOMAIN signals : signals[i] = signals[j] => i = j

\* The empty list, and that of one signal.
LEMMA OneSignalOrNone ==
  ASSUME NEW s \in Weighed
  PROVE  Lists(<< >>, {}) /\ Lists(<<s>>, {s})
<1>1. Lists(<< >>, {})
  BY DEF Lists
<1>2. <<s>> \in Seq(Weighed) /\ DOMAIN <<s>> = {1} /\ <<s>>[1] = s
  OBVIOUS
<1>3. Lists(<<s>>, {s})
  BY <1>2 DEF Lists
<1> QED
  BY <1>1, <1>3

\* A list with a signal that it does not have put last, or nothing.
LEMMA OneMoreSignal ==
  ASSUME NEW signals, NEW set, Lists(signals, set), NEW s \in Weighed, s \notin set,
         NEW more, NEW extra,
         (more = << >> /\ extra = {}) \/ (more = <<s>> /\ extra = {s})
  PROVE  Lists(signals \o more, set \cup extra)
<1>1. CASE more = << >> /\ extra = {}
  <2>1. signals \o << >> = signals
    BY DEF Lists
  <2>2. set \cup {} = set
    OBVIOUS
  <2> QED
    BY <1>1, <2>1, <2>2
<1>2. CASE more = <<s>> /\ extra = {s}
  <2> DEFINE longer == Append(signals, s)
  <2>1. signals \o <<s>> = longer
    BY DEF Lists
  <2>2. /\ longer \in Seq(Weighed) /\ Len(longer) = Len(signals) + 1
        /\ \A i \in 1 .. Len(signals) : longer[i] = signals[i]
        /\ longer[Len(signals) + 1] = s
        /\ Len(signals) \in Nat
    BY DEF Lists
  <2>3. DOMAIN longer = DOMAIN signals \cup {Len(longer)} /\ Len(longer) \notin DOMAIN signals
        /\ longer[Len(longer)] = s /\ \A i \in DOMAIN signals : longer[i] = signals[i]
    BY <2>2 DEF Lists
  <2> HIDE DEF longer
  <2>4. Lists(longer, set \cup {s})
    BY <2>2, <2>3 DEF Lists
  <2> QED
    BY <1>2, <2>1, <2>4
<1> QED
  BY <1>1, <1>2

\* What may be known of a neighbour.
Known(n, host) ==
  n \in Neighbor /\ host \in Roles \cup {"unknown", None}

\* What speaks for a type of n.
Spoken(n, host) ==
  If(isNetworkDeviceType(host), Of("dhcp", host, 65))
    \cup If(n.public, Of("public-ip", "router_wan", 50))
    \cup If(n.mac = "virtual", Of("mac", "server", 60))
    \cup If(n.mac = "virtual", Of("oui", "server", 55))
    \cup If(n.mac = "access point", Of("oui", "accesspoint", 55))
    \cup If(n.vif, Of("interface", "server", 20))

\* The signals of computeNeighborIdentity are these, each once.
LEMMA SignalsAreDistinct ==
  ASSUME NEW n, NEW host, Known(n, host)
  PROVE  Lists(Signals(n, host), Spoken(n, host))
<1> DEFINE m1 == Signal(isNetworkDeviceType(host), "dhcp", host, 65)
           e1 == If(isNetworkDeviceType(host), Of("dhcp", host, 65))
           m2 == Signal(n.public, "public-ip", "router_wan", 50)
           e2 == If(n.public, Of("public-ip", "router_wan", 50))
           m3 == Signal(n.mac = "virtual", "mac", "server", 60)
           e3 == If(n.mac = "virtual", Of("mac", "server", 60))
           m4 == Signal(n.mac = "virtual", "oui", "server", 55)
           e4 == If(n.mac = "virtual", Of("oui", "server", 55))
           m5 == Signal(n.mac = "access point", "oui", "accesspoint", 55)
           e5 == If(n.mac = "access point", Of("oui", "accesspoint", 55))
           m6 == Signal(n.vif, "interface", "server", 20)
           e6 == If(n.vif, Of("interface", "server", 20))
           s1 == m1
           t1 == e1
           s2 == s1 \o m2
           t2 == t1 \cup e2
           s3 == s2 \o m3
           t3 == t2 \cup e3
           s4 == s3 \o m4
           t4 == t3 \cup e4
           s5 == s4 \o m5
           t5 == t4 \cup e5
           s6 == s5 \o m6
           t6 == t5 \cup e6
<1>0. Signals(n, host) = s6
  BY DEF Signals
<1>a. /\ e1 \subseteq {Of("dhcp", host, 65)}
      /\ e2 \subseteq {Of("public-ip", "router_wan", 50)}
      /\ e3 \subseteq {Of("mac", "server", 60)}
      /\ e4 \subseteq {Of("oui", "server", 55)}
      /\ e5 \subseteq {Of("oui", "accesspoint", 55)}
      /\ e6 \subseteq {Of("interface", "server", 20)}
  BY DEF If
<1>1. Lists(s1, t1)
  <2>2. CASE isNetworkDeviceType(host)
    <3>1. s1 = <<Of("dhcp", host, 65)>> /\ t1 = {Of("dhcp", host, 65)}
      BY <2>2 DEF Signal, If, Of
    <3>2. Of("dhcp", host, 65) \in Weighed
      BY <2>2 DEF Of, Weighed, Known, isNetworkDeviceType
    <3> HIDE DEF s1, t1
    <3> QED
      BY <3>1, <3>2, OneSignalOrNone
  <2>3. CASE ~isNetworkDeviceType(host)
    <3>1. s1 = << >> /\ t1 = {}
      BY <2>3 DEF Signal, If
    <3>2. Of("public-ip", "router_wan", 50) \in Weighed
      BY DEF Of, Weighed, Roles
    <3> HIDE DEF s1, t1
    <3> QED
      BY <3>1, <3>2, OneSignalOrNone
  <2> QED
    BY <2>2, <2>3
<1>2. Lists(s2, t2)
  <2>1. Of("public-ip", "router_wan", 50) \in Weighed /\ Of("public-ip", "router_wan", 50) \notin t1
    <3> HIDE DEF e1, e2, e3, e4, e5, e6
    <3>1. Of("public-ip", "router_wan", 50) \in Weighed
      BY DEF Of, Weighed, Roles
    <3> QED
      BY <1>a, <3>1 DEF Of
  <2>2. \/ m2 = << >> /\ e2 = {}
        \/ m2 = <<Of("public-ip", "router_wan", 50)>> /\ e2 = {Of("public-ip", "router_wan", 50)}
    BY DEF Signal, If, Of
  <2> HIDE DEF s1, t1, m2, e2
  <2> QED
    BY <1>1, <2>1, <2>2, OneMoreSignal
<1>3. Lists(s3, t3)
  <2>1. Of("mac", "server", 60) \in Weighed /\ Of("mac", "server", 60) \notin t2
    <3> HIDE DEF e1, e2, e3, e4, e5, e6
    <3>1. Of("mac", "server", 60) \in Weighed
      BY DEF Of, Weighed, Roles
    <3> QED
      BY <1>a, <3>1 DEF Of
  <2>2. \/ m3 = << >> /\ e3 = {}
        \/ m3 = <<Of("mac", "server", 60)>> /\ e3 = {Of("mac", "server", 60)}
    BY DEF Signal, If, Of
  <2> HIDE DEF s2, t2, m3, e3
  <2> QED
    BY <1>2, <2>1, <2>2, OneMoreSignal
<1>4. Lists(s4, t4)
  <2>1. Of("oui", "server", 55) \in Weighed /\ Of("oui", "server", 55) \notin t3
    <3> HIDE DEF e1, e2, e3, e4, e5, e6
    <3>1. Of("oui", "server", 55) \in Weighed
      BY DEF Of, Weighed, Roles
    <3> QED
      BY <1>a, <3>1 DEF Of
  <2>2. \/ m4 = << >> /\ e4 = {}
        \/ m4 = <<Of("oui", "server", 55)>> /\ e4 = {Of("oui", "server", 55)}
    BY DEF Signal, If, Of
  <2> HIDE DEF s3, t3, m4, e4
  <2> QED
    BY <1>3, <2>1, <2>2, OneMoreSignal
<1>5. Lists(s5, t5)
  <2>1. Of("oui", "accesspoint", 55) \in Weighed /\ Of("oui", "accesspoint", 55) \notin t4
    <3> HIDE DEF e1, e2, e3, e4, e5, e6
    <3>1. Of("oui", "accesspoint", 55) \in Weighed
      BY DEF Of, Weighed, Roles
    <3> QED
      BY <1>a, <3>1 DEF Of
  <2>2. \/ m5 = << >> /\ e5 = {}
        \/ m5 = <<Of("oui", "accesspoint", 55)>> /\ e5 = {Of("oui", "accesspoint", 55)}
    BY DEF Signal, If, Of
  <2> HIDE DEF s4, t4, m5, e5
  <2> QED
    BY <1>4, <2>1, <2>2, OneMoreSignal
<1>6. Lists(s6, t6)
  <2>1. Of("interface", "server", 20) \in Weighed /\ Of("interface", "server", 20) \notin t5
    <3> HIDE DEF e1, e2, e3, e4, e5, e6
    <3>1. Of("interface", "server", 20) \in Weighed
      BY DEF Of, Weighed, Roles
    <3> QED
      BY <1>a, <3>1 DEF Of
  <2>2. \/ m6 = << >> /\ e6 = {}
        \/ m6 = <<Of("interface", "server", 20)>> /\ e6 = {Of("interface", "server", 20)}
    BY DEF Signal, If, Of
  <2> HIDE DEF s5, t5, m6, e6
  <2> QED
    BY <1>5, <2>1, <2>2, OneMoreSignal
<1>7. t6 = Spoken(n, host) /\ s6 = Signals(n, host)
  BY <1>0 DEF Spoken
<1> QED
  BY <1>6, <1>7
-------------------------------------------------------------------------------
(* What the signals weigh.                                                 *)

\* The signals that speak for a type.
OfType(signals, type) == {i \in DOMAIN signals : signals[i].type = type}

\* The score of a type is the sum of the weights that speak for it.
LEMMA ScoreIsSum ==
  ASSUME NEW signals \in Seq(Weighed), NEW type
  PROVE  /\ Score(signals, type) \in Nat
         /\ \A i \in OfType(signals, type) : signals[i].weight <= Score(signals, type)
         /\ \A i \in OfType(signals, type) :
              OfType(signals, type) = {i} => Score(signals, type) = signals[i].weight
<1> DEFINE weight == [i \in DOMAIN signals |-> signals[i].weight]
           S == OfType(signals, type)
<1>1. Score(signals, type) = SumOf(weight, S)
  BY DEF Score, SumOf, OfType
<1>2. DOMAIN signals = 1 .. Len(signals) /\ Len(signals) \in Nat
  OBVIOUS
<1>3. IsFiniteSet(S)
  <2>1. IsFiniteSet(DOMAIN signals)
    BY <1>2, FS_Interval
  <2> QED
    BY <2>1, FS_Subset DEF OfType
<1>4. \A i \in DOMAIN signals : weight[i] \in Nat /\ weight[i] = signals[i].weight
  <2>1. \A i \in DOMAIN signals : weight[i] = signals[i].weight
    OBVIOUS
  <2>2. \A i \in DOMAIN signals : signals[i] \in Weighed
    OBVIOUS
  <2>3. \A s \in Weighed : s.weight \in Nat
    BY DEF Weighed
  <2> HIDE DEF weight
  <2> QED
    BY <2>1, <2>2, <2>3
<1>5. S \subseteq DOMAIN signals
  BY DEF OfType
<1> HIDE DEF weight, S
<1>6. \A i \in S : weight[i] \in Nat
  BY <1>4, <1>5
<1>7. SumOf(weight, S) \in Nat
  BY <1>3, <1>6, SumOfNaturals
<1>8. ASSUME NEW i \in S
      PROVE  /\ weight[i] <= SumOf(weight, S)
             /\ S = {i} => SumOf(weight, S) = weight[i]
  <2>1. SumOf(weight, S) = weight[i] + SumOf(weight, S \ {i})
    BY <1>3, <1>6, SumTakesElement
  <2>2. SumOf(weight, S \ {i}) \in Nat
    <3>1. IsFiniteSet(S \ {i}) /\ \A x \in S \ {i} : weight[x] \in Nat
      BY <1>3, <1>6, FS_Subset
    <3> QED
      BY <3>1, SumOfNaturals
  <2>3. S = {i} => SumOf(weight, S \ {i}) = 0
    <3>1. S = {i} => S \ {i} = {}
      OBVIOUS
    <3> QED
      BY <3>1, SumOfNothing
  <2> QED
    BY <1>6, <2>1, <2>2, <2>3
<1>9. \A i \in S : weight[i] = signals[i].weight
  BY <1>4, <1>5
<1> QED
  BY <1>1, <1>7, <1>8, <1>9 DEF S

\* The one that no other type beats.
Beats(signals, i) ==
  \A j \in DOMAIN signals :
    LET si == Score(signals, signals[i].type)
        sj == Score(signals, signals[j].type)
    IN  si > sj \/ (si = sj /\ i <= j) \/ signals[i].type = signals[j].type

\* Some signal's type scores the most, the first one among equals.
LEMMA SomeSignalWins ==
  ASSUME NEW signals \in Seq(Weighed), signals # << >>
  PROVE  \E i \in DOMAIN signals : Beats(signals, i)
<1> DEFINE D == DOMAIN signals
           score == [i \in D |-> Score(signals, signals[i].type)]
<1>1. IsFiniteSet(D) /\ D \subseteq Int /\ D # {}
  <2>1. D = 1 .. Len(signals) /\ Len(signals) \in Nat
    OBVIOUS
  <2>2. Len(signals) # 0
    OBVIOUS
  <2>3. IsFiniteSet(1 .. Len(signals))
    BY <2>1, FS_Interval
  <2>4. 1 \in 1 .. Len(signals)
    BY <2>1, <2>2
  <2> QED
    BY <2>1, <2>3, <2>4
<1>2. \A i \in D : score[i] \in Nat
  BY ScoreIsSum
<1>3. \A i \in D : score[i] = Score(signals, signals[i].type)
  OBVIOUS
<1> HIDE DEF D, score
<1> DEFINE scores == {score[i] : i \in D}
<1>4. scores \in SUBSET Int /\ IsFiniteSet(scores) /\ scores # {}
  <2>1. IsFiniteSet(scores)
    BY <1>1, ImageIsFinite
  <2>2. scores \in SUBSET Int
    BY <1>2
  <2>3. scores # {}
    BY <1>1
  <2> QED
    BY <2>1, <2>2, <2>3
<1>5. PICK top \in scores : \A x \in scores : x <= top
  <2> HIDE DEF scores
  <2> QED
    BY <1>4, GreatestExists
<1> DEFINE T == {i \in D : score[i] = top}
<1>6. T \in SUBSET Int /\ IsFiniteSet(T) /\ T # {}
  <2>1. T \subseteq D /\ T # {}
    OBVIOUS
  <2> HIDE DEF T
  <2> QED
    BY <1>1, <2>1, FS_Subset
<1>7. PICK w \in T : \A x \in T : w <= x
  <2> HIDE DEF T
  <2> QED
    BY <1>6, LeastExists
<1>8. ASSUME NEW j \in D PROVE score[w] > score[j] \/ (score[w] = score[j] /\ w <= j)
  <2>1. score[w] \in Nat /\ score[j] \in Nat /\ score[w] = top /\ score[j] <= top
    BY <1>2, <1>5
  <2>2. CASE score[j] = top
    BY <1>7, <2>1, <2>2
  <2>3. CASE score[j] # top
    BY <2>1, <2>3
  <2> QED
    BY <2>2, <2>3
<1>9. \A j \in D : \/ Score(signals, signals[w].type) > Score(signals, signals[j].type)
                   \/ Score(signals, signals[w].type) = Score(signals, signals[j].type) /\ w <= j
  BY <1>3, <1>8
<1>10. Beats(signals, w)
  BY <1>9 DEF Beats, D
<1> QED
  BY <1>10 DEF D

\* What the strongest type is, and what becomes of it.
LEMMA StrongestIsKnown ==
  ASSUME NEW signals \in Seq(Weighed), signals # << >>, NEW host
  PROVE  \E i \in DOMAIN signals :
           /\ Winner(signals, host) = IF signals[i].type = "server" /\ isNetworkDeviceType(host)
                                        THEN host ELSE signals[i].type
           /\ \A j \in DOMAIN signals :
                Score(signals, signals[j].type) <= Score(signals, signals[i].type)
<1> DEFINE w == CHOOSE i \in DOMAIN signals : Beats(signals, i)
<1>1. w \in DOMAIN signals /\ Beats(signals, w)
  BY SomeSignalWins
<1>2. Winner(signals, host) = IF signals[w].type = "server" /\ isNetworkDeviceType(host)
                                THEN host ELSE signals[w].type
  BY DEF Winner, Beats
<1> HIDE DEF w
<1>3. ASSUME NEW j \in DOMAIN signals
      PROVE  Score(signals, signals[j].type) <= Score(signals, signals[w].type)
  <2> DEFINE si == Score(signals, signals[w].type)
             sj == Score(signals, signals[j].type)
  <2>1. si \in Nat /\ sj \in Nat
    BY ScoreIsSum
  <2>2. si > sj \/ si = sj \/ signals[w].type = signals[j].type
    BY <1>1 DEF Beats
  <2>3. signals[w].type = signals[j].type => si = sj
    OBVIOUS
  <2> HIDE DEF si, sj
  <2>4. sj <= si
    BY <2>1, <2>2, <2>3
  <2> QED
    BY <2>4 DEF si, sj
<1> QED
  BY <1>1, <1>2, <1>3
-------------------------------------------------------------------------------
(* What is computed follows from what is known.                            *)

\* FollowsFromWhatIsKnown, of one neighbour and what is said of it.
Follows(n, host, said) ==
  LET signals == Signals(n, host)
      Louder == {i \in DOMAIN signals :
                   Score(signals, signals[i].type) > Score(signals, said.type)}
  IN  IF isNetworkDeviceType(inventory) THEN said.type = inventory
      ELSE IF signals = << >> THEN said.type = "unknown"
      ELSE /\ said.sources # {}
           /\ said.sources = SourcesOf(signals, said.type)
           /\ said.type = "server" => host \in {"server", "unknown", None}
           /\ Louder = {} \/ ( /\ said.type = host
                               /\ \A i \in Louder : signals[i].type = "server")

\* Only a server's signals can be louder than a name that says something else.
LEMMA NamesAreLoud ==
  ASSUME NEW n, NEW host, Known(n, host), isNetworkDeviceType(host),
         NEW i \in DOMAIN Signals(n, host),
         Score(Signals(n, host), Signals(n, host)[i].type) > Score(Signals(n, host), host)
  PROVE  Signals(n, host)[i].type = "server"
<1> DEFINE signals == Signals(n, host)
           s == signals[i]
           records == {Of("dhcp", host, 65), Of("public-ip", "router_wan", 50),
                       Of("mac", "server", 60), Of("oui", "server", 55),
                       Of("oui", "accesspoint", 55), Of("interface", "server", 20)}
<1>1. /\ signals \in Seq(Weighed)
      /\ \A j \in DOMAIN signals : signals[j] \in records
      /\ \E j \in DOMAIN signals : signals[j] = Of("dhcp", host, 65)
      /\ \A j, k \in DOMAIN signals : signals[j] = signals[k] => j = k
  <2> DEFINE set == Spoken(n, host)
  <2>1. Lists(signals, set)
    BY SignalsAreDistinct
  <2>2. set \subseteq records /\ Of("dhcp", host, 65) \in set
    <3> DEFINE e1 == If(isNetworkDeviceType(host), Of("dhcp", host, 65))
               e2 == If(n.public, Of("public-ip", "router_wan", 50))
               e3 == If(n.mac = "virtual", Of("mac", "server", 60))
               e4 == If(n.mac = "virtual", Of("oui", "server", 55))
               e5 == If(n.mac = "access point", Of("oui", "accesspoint", 55))
               e6 == If(n.vif, Of("interface", "server", 20))
    <3>1. set = e1 \cup e2 \cup e3 \cup e4 \cup e5 \cup e6
      BY DEF Spoken
    <3>2. /\ e1 = {Of("dhcp", host, 65)}
          /\ e2 \subseteq {Of("public-ip", "router_wan", 50)}
          /\ e3 \subseteq {Of("mac", "server", 60)}
          /\ e4 \subseteq {Of("oui", "server", 55)}
          /\ e5 \subseteq {Of("oui", "accesspoint", 55)}
          /\ e6 \subseteq {Of("interface", "server", 20)}
      BY DEF If
    <3> HIDE DEF e1, e2, e3, e4, e5, e6, set
    <3> QED
      BY <3>1, <3>2
  <2> HIDE DEF signals, set, records
  <2>3. /\ signals \in Seq(Weighed)
        /\ \A j \in DOMAIN signals : signals[j] \in set
        /\ \A e \in set : \E j \in DOMAIN signals : signals[j] = e
        /\ \A j, k \in DOMAIN signals : signals[j] = signals[k] => j = k
    BY <2>1 DEF Lists
  <2>4. \E j \in DOMAIN signals : signals[j] = Of("dhcp", host, 65)
    BY <2>2, <2>3
  <2>5. \A j \in DOMAIN signals : signals[j] \in records
    BY <2>2, <2>3
  <2> QED
    BY <2>3, <2>4, <2>5
<1> HIDE DEF signals
<1>2. PICK d \in DOMAIN signals : signals[d] = Of("dhcp", host, 65)
  BY <1>1
<1>3. Score(signals, host) >= 65
  <2>1. d \in OfType(signals, host) /\ signals[d].weight = 65
    BY <1>2 DEF OfType, Of
  <2>2. signals[d].weight <= Score(signals, host) /\ Score(signals, host) \in Nat
    BY <1>1, <2>1, ScoreIsSum
  <2> QED
    BY <2>1, <2>2
<1>4. i \in DOMAIN signals /\ Score(signals, s.type) > Score(signals, host)
  BY DEF signals
<1> SUFFICES ASSUME s.type # "server" PROVE FALSE
  BY DEF signals
<1>5. s.type # host
  <2> SUFFICES ASSUME s.type = host PROVE FALSE
    OBVIOUS
  <2>1. Score(signals, host) > Score(signals, host) /\ Score(signals, host) \in Nat
    BY <1>1, <1>4, ScoreIsSum
  <2> QED
    BY <2>1
<1>6. s \in {Of("public-ip", "router_wan", 50), Of("oui", "accesspoint", 55)}
  <2>1. s \in records
    BY <1>1, <1>4
  <2> HIDE DEF s
  <2> QED
    BY <1>5, <2>1 DEF Of
<1>7. s.weight \in 0 .. 55
  <2> HIDE DEF s
  <2> QED
    BY <1>6 DEF Of
<1>8. OfType(signals, s.type) = {i}
  <2>1. ASSUME NEW j \in DOMAIN signals, signals[j].type = s.type PROVE j = i
    <3> DEFINE r == signals[j]
    <3>1. r \in records /\ r.type = s.type
      BY <1>1, <2>1
    <3>2. r = s
      <4> HIDE DEF s, r
      <4> QED
        BY <1>5, <1>6, <3>1 DEF Of
    <3> QED
      BY <1>1, <1>4, <3>2
  <2> QED
    BY <1>4, <2>1 DEF OfType
<1>9. Score(signals, s.type) = s.weight /\ Score(signals, host) \in Nat
  BY <1>1, <1>4, <1>8, ScoreIsSum
<1> HIDE DEF s
<1> QED
  BY <1>3, <1>4, <1>7, <1>9

\* What computeNeighborIdentity returns follows from the neighbour.
LEMMA ComputedFollows ==
  ASSUME NEW n, NEW host, Known(n, host)
  PROVE  Follows(n, host, computeNeighborIdentity(n, host))
<1> DEFINE signals == Signals(n, host)
           winner == Winner(signals, host)
           said == computeNeighborIdentity(n, host)
<1>1. CASE isNetworkDeviceType(inventory)
  BY <1>1 DEF Follows, computeNeighborIdentity, Identity
<1>2. CASE ~isNetworkDeviceType(inventory) /\ signals = << >>
  BY <1>2 DEF Follows, computeNeighborIdentity, Identity
<1>3. CASE ~isNetworkDeviceType(inventory) /\ signals # << >>
  <2>1. said.type = winner /\ said.sources = SourcesOf(signals, winner)
    BY <1>3 DEF computeNeighborIdentity, Identity
  <2>2. signals \in Seq(Weighed)
    BY SignalsAreDistinct DEF Lists
  <2>3. PICK w \in DOMAIN signals :
          /\ winner = IF signals[w].type = "server" /\ isNetworkDeviceType(host)
                        THEN host ELSE signals[w].type
          /\ \A j \in DOMAIN signals :
               Score(signals, signals[j].type) <= Score(signals, signals[w].type)
    <3> HIDE DEF signals
    <3> QED
      BY <1>3, <2>2, StrongestIsKnown
  <2>4. \E i \in DOMAIN signals : signals[i].type = winner
    <3>1. CASE isNetworkDeviceType(host)
      <4>1. \E i \in DOMAIN signals : signals[i] = Of("dhcp", host, 65)
        <5> DEFINE set == Spoken(n, host)
        <5>1. Lists(signals, set)
          BY SignalsAreDistinct
        <5>2. Of("dhcp", host, 65) \in set
          BY <3>1 DEF If, Spoken
        <5> HIDE DEF signals, set
        <5> QED
          BY <5>1, <5>2 DEF Lists
      <4>2. \E i \in DOMAIN signals : signals[i].type = host
        BY <4>1 DEF Of
      <4> HIDE DEF signals, winner
      <4> QED
        BY <2>3, <4>2
    <3>2. CASE ~isNetworkDeviceType(host)
      <4> HIDE DEF signals, winner
      <4> QED
        BY <2>3, <3>2
    <3> QED
      BY <3>1, <3>2
  <2>5. said.sources # {}
    <3> HIDE DEF signals, winner, said
    <3> QED
      BY <2>1, <2>4 DEF SourcesOf
  <2>6. winner = "server" => host \in {"server", "unknown", None}
    <3>1. winner = "server" => ~isNetworkDeviceType(host) \/ host = "server"
      <4> HIDE DEF signals, winner
      <4> QED
        BY <2>3
    <3>2. ~isNetworkDeviceType(host) => host \in {"unknown", None}
      BY DEF isNetworkDeviceType, Known, Roles
    <3> QED
      BY <3>1, <3>2
  <2> DEFINE Louder == {i \in DOMAIN signals :
                          Score(signals, signals[i].type) > Score(signals, said.type)}
  <2>7. Louder = {} \/ (said.type = host /\ \A i \in Louder : signals[i].type = "server")
    <3>1. CASE winner = signals[w].type
      <4>1. ASSUME NEW i \in Louder PROVE FALSE
        <5> DEFINE a == Score(signals, signals[i].type)
                   b == Score(signals, winner)
        <5>1. a > b /\ a <= b
          BY <2>1, <2>3, <3>1
        <5>2. a \in Nat /\ b \in Nat
          BY <2>2, ScoreIsSum
        <5> HIDE DEF a, b
        <5> QED
          BY <5>1, <5>2
      <4> QED
        BY <4>1
    <3>2. CASE winner # signals[w].type
      <4>1. winner = host /\ isNetworkDeviceType(host)
        <5> HIDE DEF signals, winner
        <5> QED
          BY <2>3, <3>2
      <4>2. \A i \in Louder : signals[i].type = "server"
        BY <2>1, <4>1, NamesAreLoud
      <4> QED
        BY <2>1, <4>1, <4>2
    <3> QED
      BY <3>1, <3>2
  <2> QED
    BY <1>3, <2>1, <2>5, <2>6, <2>7 DEF Follows
<1> QED
  BY <1>1, <1>2, <1>3

\* The names that a snapshot may find.
LEMMA HostnameIsKnown ==
  ASSUME NEW names \in NameLists
  PROVE  hostname(names) \in Roles \cup {"unknown", None}
<1> DEFINE named(key) == {i \in DOMAIN names : names[i][key] /\ names[i].host # None}
           first(S) == CHOOSE i \in S : \A j \in S : i <= j
<1>1. names \in Seq(Entry)
  BY IdentityAssumption
<1>2. ASSUME NEW S \in SUBSET DOMAIN names, S # {} PROVE first(S) \in S
  <2>1. S \subseteq Int /\ IsFiniteSet(S)
    <3>1. DOMAIN names = 1 .. Len(names) /\ Len(names) \in Nat
      BY <1>1
    <3>2. IsFiniteSet(1 .. Len(names))
      BY <3>1, FS_Interval
    <3>3. \A x \in 1 .. Len(names) : x \in Int
      OBVIOUS
    <3> QED
      BY <3>1, <3>2, <3>3, FS_Subset
  <2>2. \E i \in S : \A j \in S : i <= j
    BY <1>2, <2>1, LeastExists
  <2> QED
    BY <2>2
<1>3. \A i \in DOMAIN names : names[i].host \in Roles \cup {"unknown", None}
  <2>1. \A i \in DOMAIN names : names[i] \in Entry
    BY <1>1
  <2> QED
    BY <2>1 DEF Entry
<1>4. \A key \in {"ip", "mac"} : named(key) \in SUBSET DOMAIN names
  OBVIOUS
<1>5. \A key \in {"ip", "mac"} : named(key) # {} => first(named(key)) \in DOMAIN names
  <2> SUFFICES ASSUME NEW key \in {"ip", "mac"}, named(key) # {}
               PROVE  first(named(key)) \in DOMAIN names
    OBVIOUS
  <2> DEFINE S == named(key)
  <2>1. S \in SUBSET DOMAIN names /\ S # {}
    OBVIOUS
  <2> HIDE DEF S, first
  <2>2. first(S) \in S
    BY <1>2, <2>1
  <2>3. first(S) \in DOMAIN names
    BY <2>1, <2>2
  <2> QED
    BY <2>3 DEF S
<1>6. hostname(names) = IF named("ip") # {} THEN names[first(named("ip"))].host
                        ELSE IF named("mac") # {} THEN names[first(named("mac"))].host
                        ELSE None
  BY DEF hostname
<1> HIDE DEF named, first
<1> QED
  BY <1>3, <1>5, <1>6
\* The cache holds what was computed, and would be computed now.
IdentityInv ==
  /\ seen.neighbor # NotSeen =>
       /\ Known(seen.neighbor, seen.host)
       /\ identity = computeNeighborIdentity(seen.neighbor, seen.host)
  /\ \A key \in DOMAIN identityCache :
       identityCache[key] = computeNeighborIdentity(key[1], key[2])

\* A cached identity is that of its key, and shown for that key alone.
LEMMA IdentityInvStep == IdentityInv /\ [IdentityNext]_identityVars => IdentityInv'
<1> SUFFICES ASSUME IdentityInv, [IdentityNext]_identityVars PROVE IdentityInv'
  OBVIOUS
<1>0. UNCHANGED inventory
  BY DEF IdentityNext, NeighborSeen, identityVars
<1>1. ASSUME NEW n, NEW host
      PROVE  computeNeighborIdentity(n, host)' = computeNeighborIdentity(n, host)
  BY <1>0 DEF computeNeighborIdentity
<1>2. ASSUME NEW n \in Sights, NEW names \in NameLists, NeighborSeen(n, hostname(names))
      PROVE  IdentityInv'
  <2> DEFINE host == hostname(names)
             key == Key(n, host)
             computed == computeNeighborIdentity(n, host)
             kept == IF Cardinality(DOMAIN identityCache) >= CacheLimit THEN {}
                     ELSE DOMAIN identityCache
  <2>1. Known(n, host)
    BY HostnameIsKnown, IdentityAssumption DEF Known
  <2>2. key[1] = n /\ key[2] = host
    BY DEF Key
  <2>3. seen'.neighbor = n /\ seen'.host = host
    BY <1>2 DEF NeighborSeen
  <2>4. CASE key \in DOMAIN identityCache
    <3>1. identity' = identityCache[key] /\ identityCache' = identityCache
      BY <1>2, <2>4 DEF NeighborSeen
    <3>2. identityCache[key] = computeNeighborIdentity(key[1], key[2])
      BY <2>4 DEF IdentityInv
    <3>3. identity' = computed
      BY <2>2, <3>1, <3>2
    <3> HIDE DEF host, key
    <3>4. identity' = computeNeighborIdentity(seen'.neighbor, seen'.host)
      BY <2>3, <3>3
    <3> QED
      BY <1>1, <2>1, <2>3, <3>1, <3>4 DEF IdentityInv
  <2>5. CASE key \notin DOMAIN identityCache
    <3>1. /\ identity' = computed
          /\ identityCache' = [k \in kept \cup {key} |->
                                 IF k = key THEN computed ELSE identityCache[k]]
      BY <1>2, <2>5 DEF NeighborSeen
    <3>2. kept \subseteq DOMAIN identityCache
      OBVIOUS
    <3> HIDE DEF host, key, kept
    <3>3. ASSUME NEW k \in DOMAIN identityCache'
          PROVE  identityCache'[k] = computeNeighborIdentity(k[1], k[2])
      <4>1. CASE k = key
        BY <2>2, <3>1, <4>1
      <4>2. CASE k # key
        BY <3>1, <3>2, <4>2 DEF IdentityInv
      <4> QED
        BY <4>1, <4>2
    <3>4. identity' = computeNeighborIdentity(seen'.neighbor, seen'.host)
      BY <2>3, <3>1
    <3> QED
      BY <1>1, <2>1, <2>3, <3>3, <3>4 DEF IdentityInv
  <2> QED
    BY <2>4, <2>5
<1>3. CASE UNCHANGED identityVars
  BY <1>1, <1>3 DEF IdentityInv, identityVars
<1> QED
  BY <1>2, <1>3 DEF IdentityNext

\* What a snapshot says of a neighbour follows from what is known of it, for every
\* set of neighbours and names, whatever the cache holds (device_identity.go).
THEOREM IdentityFollows == IdentitySpec => []FollowsFromWhatIsKnown
<1>1. IdentityInit => IdentityInv
  BY DEF IdentityInit, IdentityInv
<1>2. IdentityInv => FollowsFromWhatIsKnown
  <2> SUFFICES ASSUME IdentityInv, seen.neighbor # NotSeen
               PROVE  Follows(seen.neighbor, seen.host, identity)
    BY DEF FollowsFromWhatIsKnown, Follows
  <2>1. /\ Known(seen.neighbor, seen.host)
        /\ identity = computeNeighborIdentity(seen.neighbor, seen.host)
    BY DEF IdentityInv
  <2> QED
    BY <2>1, ComputedFollows
<1> QED
  BY <1>1, <1>2, IdentityInvStep, PTL DEF IdentitySpec

-------------------------------------------------------------------------------
(* The RDAP lookups (RdapCache).                                           *)

\* A snapshot starts a lookup only where none is under way.
LEMMA SightKeepsInv ==
  ASSUME RdapInv, NEW ip \in Neighbors, Sight(ip)
  PROVE  RdapInv'
<1>1. CASE LooksUp(ip)
  <2>1. running[ip] = 0 /\ ~Cached(ip)
    BY <1>1 DEF LooksUp, RdapInv
  <2>2. inFlight' \subseteq Neighbors /\ running' \in [Neighbors -> {0, 1}]
    BY <1>1, <2>1 DEF Sight, RdapInv
  <2>3. \A n \in Neighbors : n \in inFlight' <=> running'[n] = 1
    BY <1>1, <2>1 DEF Sight, RdapInv
  <2>4. \A n \in Neighbors : n \in inFlight' => ~Cached(n)'
    BY <1>1, <2>1 DEF Sight, RdapInv, Cached
  <2> QED
    BY <2>2, <2>3, <2>4 DEF Sight, RdapInv
<1>2. CASE ~LooksUp(ip)
  BY <1>2 DEF Sight, RdapInv, Cached
<1> QED
  BY <1>1, <1>2

\* What a lookup that comes back finds and leaves: nothing was cached, so nothing
\* learned less than a day ago is lost.
LEMMA RefreshKeepsInv ==
  ASSUME RdapInv, NEW ip \in Neighbors, NEW operator \in Operators, NEW ttl \in Nat,
         Refresh(ip, operator, ttl),
         \/ UNCHANGED learned
         \/ /\ ttl = Day
            /\ learned' = [learned EXCEPT ![ip] = [operator |-> operator, at |-> instant]]
  PROVE  RdapInv'
<1>1. ip \in inFlight /\ running[ip] = 1
  BY DEF Refresh, RdapInv
<1>2. ~(instant < entries[ip].expires)
  BY <1>1 DEF RdapInv, Cached
<1>3. ~(learned[ip].operator # Unnamed /\ instant < learned[ip].at + Day)
  BY <1>2 DEF RdapInv
<1>4. /\ instant' = instant /\ instant \in Nat
      /\ entries' \in [Neighbors -> [operator : Operators, expires : Nat]]
      /\ entries'[ip] = [operator |-> operator, expires |-> instant + ttl]
      /\ \A n \in Neighbors \ {ip} : entries'[n] = entries[n]
  BY DEF Refresh, RdapInv
<1>5. /\ inFlight' \subseteq Neighbors /\ running' \in [Neighbors -> {0, 1}]
      /\ ip \notin inFlight' /\ running'[ip] = 0
      /\ \A n \in Neighbors \ {ip} : /\ n \in inFlight' <=> n \in inFlight
                                     /\ running'[n] = running[n]
  BY <1>1 DEF Refresh, RdapInv
<1>6. /\ learned' \in [Neighbors -> [operator : Operators, at : Nat]]
      /\ \A n \in Neighbors \ {ip} : learned'[n] = learned[n]
  <2>1. CASE learned' = learned
    BY <2>1 DEF RdapInv
  <2>2. CASE learned' = [learned EXCEPT ![ip] = [operator |-> operator, at |-> instant]]
    <3>1. [operator |-> operator, at |-> instant] \in [operator : Operators, at : Nat]
      BY <1>4
    <3> QED
      BY <2>2, <3>1 DEF RdapInv
  <2> QED
    BY <2>1, <2>2
<1>7. learned'[ip].operator # Unnamed /\ instant < learned'[ip].at + Day =>
        /\ entries'[ip].operator = learned'[ip].operator
        /\ entries'[ip].expires = learned'[ip].at + Day
  <2>1. CASE learned' = learned
    BY <1>3, <2>1
  <2>2. CASE /\ ttl = Day
             /\ learned' = [learned EXCEPT ![ip] = [operator |-> operator, at |-> instant]]
    <3>1. learned'[ip] = [operator |-> operator, at |-> instant]
      BY <2>2 DEF RdapInv
    <3> QED
      BY <1>4, <2>2, <3>1
  <2> QED
    BY <2>1, <2>2
<1>8. ASSUME NEW n \in Neighbors
      PROVE  /\ n \in inFlight' <=> running'[n] = 1
             /\ n \in inFlight' => ~Cached(n)'
             /\ learned'[n].operator # Unnamed /\ instant' < learned'[n].at + Day =>
                  /\ entries'[n].operator = learned'[n].operator
                  /\ entries'[n].expires = learned'[n].at + Day
  <2>1. CASE n = ip
    BY <1>4, <1>5, <1>7, <2>1
  <2>2. CASE n # ip
    BY <1>4, <1>5, <1>6, <2>2 DEF RdapInv, Cached
  <2> QED
    BY <2>1, <2>2
<1> QED
  BY <1>4, <1>5, <1>6, <1>8 DEF RdapInv

\* Whatever once expired stays so as time goes on.
LEMMA TimeKeepsInv ==
  ASSUME RdapInv, PassTime
  PROVE  RdapInv'
<1>1. instant' = instant + 1 /\ UNCHANGED <<entries, inFlight, running, learned>>
  BY DEF PassTime
<1>2. \A n \in Neighbors :
        entries[n].expires \in Nat /\ learned[n].at \in Nat /\ instant \in Nat
  BY DEF RdapInv
<1> QED
  BY <1>1, <1>2, RdapAssumption DEF RdapInv, Cached

\* Once a lookup has found the operator, every snapshot of the next day shows it.
THEOREM OperatorShown == RdapSpec => []OperatorShownForADay
<1>1. RdapInit => RdapInv
  BY DEF RdapInit, RdapInv, NoEntry, Operators, Cached
<1>2. RdapInv /\ [RdapNext]_rdapVars => RdapInv'
  <2> SUFFICES ASSUME RdapInv, [RdapNext]_rdapVars PROVE RdapInv'
    OBVIOUS
  <2>1. CASE PassTime
    BY <2>1, TimeKeepsInv
  <2>2. ASSUME NEW ip \in Neighbors, Sight(ip) PROVE RdapInv'
    BY <2>2, SightKeepsInv
  <2>3. ASSUME NEW ip \in Neighbors, NEW p \in Payloads, LookupSucceeds(ip, p) PROVE RdapInv'
    <3>1. parseISPMetadata(p) \in Operators
      BY DEF Operators
    <3> QED
      BY <2>3, <3>1, RefreshKeepsInv, RdapAssumption DEF LookupSucceeds
  <2>4. ASSUME NEW ip \in Neighbors, LookupFails(ip) PROVE RdapInv'
    BY <2>4, RefreshKeepsInv, RdapAssumption DEF LookupFails, Operators
  <2>5. CASE UNCHANGED rdapVars
    BY <2>5 DEF rdapVars, RdapInv, Cached
  <2> QED
    BY <2>1, <2>2, <2>3, <2>4, <2>5 DEF RdapNext
<1>3. RdapInv => OperatorShownForADay
  BY DEF RdapInv, OperatorShownForADay, Shown, Cached
<1> QED
  BY <1>1, <1>2, <1>3, PTL DEF RdapSpec

-------------------------------------------------------------------------------
(* The version caches (VersionCache): how GitHub is asked.                 *)

\* The variables' types, as WaitInv has them.
Types ==
  /\ clock \in 1 .. MaxClock
  /\ cached \in [Caches -> Versions \cup {Unknown}]
  /\ checked \in [Caches -> Nat] /\ askedAt \in [Caches -> Nat]
  /\ asking \in [Caches -> SUBSET Asks]
  /\ since \in [Asks -> [cache : Caches \cup {"none"}, at : Nat, known : BOOLEAN]]

\* What WaitInv says of one request.
RequestWell(r) ==
  /\ since[r].cache = "none" => ~since[r].known
  /\ since[r].cache = "release" /\ since[r].known => cached["release"] # Unknown
  /\ \A c \in Caches : WaitsWell(r, c)

\* WaitInv, in the parts that the proofs treat one by one.
LEMMA WaitInvParts ==
  WaitInv <=> Types /\ (\A c \in Caches : AsksWell(c)) /\ (\A r \in Asks : RequestWell(r))
  BY DEF WaitInv, Types, RequestWell

\* A request that does not wait is well.
LEMMA NotWaitingIsWell ==
  /\ NotWaiting \in [cache : Caches \cup {"none"}, at : Nat, known : BOOLEAN]
  /\ NotWaiting.cache = "none" /\ NotWaiting.known = FALSE
  BY DEF NotWaiting, Waiting

\* GitHub answers with versions, or with none.
LEMMA AnswersAreVersions ==
  ASSUME NEW c \in Caches, NEW v \in AnswersOfGitHub(c)
  PROVE  v \in Versions \cup {Unknown}
<1>1. PICK t \in askedAt[c] .. clock :
        v \in IF c = "tags" THEN UNION {highestVersionFromTagNames(page) : page \in FirstPages(t)}
                           ELSE LastPublished(t)
  BY DEF AnswersOfGitHub
<1>2. PublishedBy(t) \subseteq Versions
  BY DEF PublishedBy
<1>3. CASE c = "tags"
  <2>1. PICK page \in FirstPages(t) : v \in highestVersionFromTagNames(page)
    BY <1>1, <1>3
  <2>2. page \subseteq Versions
    BY <1>2, <2>1 DEF FirstPages
  <2> QED
    BY <2>1, <2>2 DEF highestVersionFromTagNames
<1>4. CASE c # "tags"
  BY <1>1, <1>2, <1>4 DEF LastPublished
<1> QED
  BY <1>3, <1>4

\* The promise at the moment: it follows from what is known of each request.
LEMMA WellMeansServed == WaitInv => WaitsForOneExchange
<1> SUFFICES ASSUME WaitInv, NEW r \in Asks, since[r].cache = "tags" \/ since[r].known
             PROVE  clock <= since[r].at + Timeout
  BY DEF WaitsForOneExchange
<1>1. Types /\ RequestWell(r) /\ \A c \in Caches : AsksWell(c)
  BY WaitInvParts
<1>2. since[r].cache \in Caches
  BY <1>1 DEF Types, RequestWell, Caches
<1>3. PICK c \in Caches : since[r].cache = c
  BY <1>2
<1>4. WaitsWell(r, c) /\ AsksWell(c)
  BY <1>1, <1>3 DEF RequestWell
<1>5. clock \in Nat /\ since[r].at \in Nat /\ askedAt[c] \in Nat /\ Timeout \in Nat
  BY <1>1, VersionAssumption DEF Types
<1> QED
  BY <1>3, <1>4, <1>5 DEF WaitsWell, AsksWell

-------------------------------------------------------------------------------
(* Every step keeps the invariant.                                         *)

\* Time goes on only where nobody waits for a mutex that is free.
LEMMA ClockKeepsInv ==
  ASSUME WaitInv, Clock
  PROVE  WaitInv'
<1>1. /\ clock' = clock + 1 /\ clock < MaxClock
      /\ UNCHANGED <<cached, checked, asking, askedAt, since>>
  BY DEF Clock
<1>2. Types /\ (\A c \in Caches : AsksWell(c)) /\ (\A r \in Asks : RequestWell(r))
  BY WaitInvParts
<1>3. Types'
  BY <1>1, <1>2, VersionAssumption DEF Types
<1>4. ASSUME NEW c \in Caches PROVE AsksWell(c)'
  <2>1. clock \in Nat /\ askedAt[c] \in Nat /\ Timeout \in Nat
    BY <1>2, VersionAssumption DEF Types
  <2>2. asking[c] # {} => clock < askedAt[c] + Timeout
    BY DEF Clock
  <2>3. AsksWell(c)
    BY <1>2
  <2> QED
    BY <1>1, <2>1, <2>2, <2>3 DEF AsksWell
<1>5. ASSUME NEW r \in Asks PROVE RequestWell(r)'
  <2>1. ASSUME NEW c \in Caches PROVE WaitsWell(r, c)'
    <3>1. asking[c] = {} => since[r].cache # c
      BY DEF Clock
    <3>2. WaitsWell(r, c)
      BY <1>2 DEF RequestWell
    <3> QED
      BY <1>1, <3>1, <3>2 DEF WaitsWell
  <2> QED
    BY <1>1, <1>2, <2>1 DEF RequestWell
<1> QED
  BY <1>3, <1>4, <1>5 DEF WaitInv, Types, RequestWell

\* What a step leaves of a request, and of a cache, that it does not touch.
LEMMA UntouchedStaysWell ==
  ASSUME NEW r \in Asks, NEW c \in Caches, WaitsWell(r, c),
         clock' = clock, since'[r] = since[r], cached'[c] = cached[c],
         checked'[c] = checked[c], asking'[c] = asking[c], askedAt'[c] = askedAt[c]
  PROVE  WaitsWell(r, c)'
  BY DEF WaitsWell, Fresh

\* A request that comes finds its mutex free, or an exchange that has begun.
LEMMA ArriveKeepsInv ==
  ASSUME WaitInv, NEW r \in Asks, NEW c \in Caches, Arrive(r, c)
  PROVE  WaitInv'
<1> DEFINE come == Waiting(c, clock, cached[c] # Unknown)
<1>1. /\ since' = [since EXCEPT ![r] = come]
      /\ UNCHANGED <<clock, cached, checked, asking, askedAt>>
  BY DEF Arrive
<1>2. Types /\ (\A d \in Caches : AsksWell(d)) /\ (\A q \in Asks : RequestWell(q))
  BY WaitInvParts
<1>3. /\ come \in [cache : Caches \cup {"none"}, at : Nat, known : BOOLEAN]
      /\ come.cache = c /\ come.at = clock /\ (come.known <=> cached[c] # Unknown)
  <2>1. clock \in Nat
    BY <1>2, VersionAssumption DEF Types
  <2> QED
    BY <2>1 DEF Waiting
<1> HIDE DEF come
<1>4. Types' /\ since'[r] = come /\ \A q \in Asks \ {r} : since'[q] = since[q]
  BY <1>1, <1>2, <1>3 DEF Types
<1>5. ASSUME NEW d \in Caches PROVE AsksWell(d)'
  BY <1>1, <1>2 DEF AsksWell
<1>6. ASSUME NEW q \in Asks PROVE RequestWell(q)'
  <2>1. CASE q = r
    <3>1. ASSUME NEW d \in Caches PROVE WaitsWell(r, d)'
      <4>1. AsksWell(d) /\ clock \in Nat /\ askedAt[d] \in Nat
        BY <1>2, VersionAssumption DEF Types
      <4>2. since'[r].cache = c /\ since'[r].at = clock
        BY <1>3, <1>4
      <4> QED
        BY <1>1, <4>1, <4>2 DEF WaitsWell, AsksWell
    <3>2. c # "none"
      BY DEF Caches
    <3> QED
      BY <1>1, <1>3, <1>4, <2>1, <3>1, <3>2 DEF RequestWell
  <2>2. CASE q # r
    <3>1. since'[q] = since[q] /\ RequestWell(q)
      BY <1>2, <1>4, <2>2
    <3>2. \A d \in Caches : WaitsWell(q, d)'
      BY <1>1, <3>1, UntouchedStaysWell DEF RequestWell
    <3> QED
      BY <1>1, <3>1, <3>2 DEF RequestWell
  <2> QED
    BY <2>1, <2>2
<1> QED
  BY <1>4, <1>5, <1>6 DEF WaitInv, Types, RequestWell

\* A request that is answered waits no more; the others wait as before.
LEMMA AnswerFreshKeepsInv ==
  ASSUME WaitInv, NEW r \in Asks, NEW c \in Caches, AnswerFresh(r, c)
  PROVE  WaitInv'
<1>1. /\ since' = [since EXCEPT ![r] = NotWaiting]
      /\ UNCHANGED <<clock, cached, checked, asking, askedAt>>
  BY DEF AnswerFresh
<1>2. Types /\ (\A d \in Caches : AsksWell(d)) /\ (\A q \in Asks : RequestWell(q))
  BY WaitInvParts
<1>3. Types' /\ since'[r] = NotWaiting /\ \A q \in Asks \ {r} : since'[q] = since[q]
  BY <1>1, <1>2, NotWaitingIsWell DEF Types
<1>4. ASSUME NEW d \in Caches PROVE AsksWell(d)'
  BY <1>1, <1>2 DEF AsksWell
<1>5. ASSUME NEW q \in Asks PROVE RequestWell(q)'
  <2>1. CASE q = r
    BY <1>3, <2>1, NotWaitingIsWell DEF RequestWell, WaitsWell, Caches
  <2>2. CASE q # r
    <3>1. since'[q] = since[q] /\ RequestWell(q)
      BY <1>2, <1>3, <2>2
    <3>2. \A d \in Caches : WaitsWell(q, d)'
      BY <1>1, <3>1, UntouchedStaysWell DEF RequestWell
    <3> QED
      BY <1>1, <3>1, <3>2 DEF RequestWell
  <2> QED
    BY <2>1, <2>2
<1> QED
  BY <1>3, <1>4, <1>5 DEF WaitInv, Types, RequestWell

\* Whoever waits for a mutex that is taken to ask GitHub has just come: the cache
\* is not fresh.
LEMMA AskKeepsInv ==
  ASSUME WaitInv, NEW r \in Asks, NEW c \in Caches, AskGitHub(r, c)
  PROVE  WaitInv'
<1>1. /\ asking[c] = {} /\ ~Fresh(c)
      /\ asking' = [asking EXCEPT ![c] = {r}]
      /\ askedAt' = [askedAt EXCEPT ![c] = clock]
      /\ checked' = IF c = "release" THEN [checked EXCEPT ![c] = clock] ELSE checked
      /\ UNCHANGED <<clock, cached, since>>
  BY DEF AskGitHub
<1>2. Types /\ (\A d \in Caches : AsksWell(d)) /\ (\A q \in Asks : RequestWell(q))
  BY WaitInvParts
<1>3. clock \in Nat /\ Timeout \in Nat
  BY <1>2, VersionAssumption DEF Types
<1>4. Types'
  <2>1. asking' \in [Caches -> SUBSET Asks] /\ askedAt' \in [Caches -> Nat]
    BY <1>1, <1>2, <1>3 DEF Types
  <2>2. checked' \in [Caches -> Nat]
    BY <1>1, <1>2, <1>3 DEF Types
  <2> QED
    BY <1>1, <1>2, <2>1, <2>2 DEF Types
<1>5. /\ asking'[c] = {r} /\ askedAt'[c] = clock
      /\ c = "release" => checked'[c] = clock
      /\ \A d \in Caches \ {c} : /\ asking'[d] = asking[d] /\ askedAt'[d] = askedAt[d]
                                 /\ checked'[d] = checked[d]
  BY <1>1, <1>2 DEF Types
<1>6. ASSUME NEW d \in Caches PROVE AsksWell(d)'
  <2>1. CASE d = c
    BY <1>1, <1>3, <1>5, <2>1 DEF AsksWell
  <2>2. CASE d # c
    BY <1>1, <1>2, <1>5, <2>2 DEF AsksWell
  <2> QED
    BY <2>1, <2>2
<1>7. ASSUME NEW q \in Asks PROVE RequestWell(q)'
  <2>1. ASSUME NEW d \in Caches PROVE WaitsWell(q, d)'
    <3>1. WaitsWell(q, d)
      BY <1>2 DEF RequestWell
    <3>2. CASE d = c
      <4>1. asking[d] = {} /\ ~Fresh(d) /\ asking'[d] # {} /\ askedAt'[d] = clock
        BY <1>1, <1>5, <3>2
      <4>2. since[q].cache = d /\ (d = "tags" \/ since[q].known) => since[q].at = clock
        BY <3>1, <4>1 DEF WaitsWell
      <4>3. since[q].cache = d /\ (d = "tags" \/ since[q].known) => askedAt'[d] <= since[q].at
        BY <1>3, <4>1, <4>2
      <4>4. since'[q] = since[q]
        BY <1>1
      <4> QED
        BY <4>1, <4>3, <4>4 DEF WaitsWell
    <3>3. CASE d # c
      BY <1>1, <1>5, <3>1, <3>3, UntouchedStaysWell
    <3> QED
      BY <3>2, <3>3
  <2> QED
    BY <1>1, <1>2, <2>1 DEF RequestWell
<1> QED
  BY <1>4, <1>6, <1>7 DEF WaitInv, Types, RequestWell

\* The end of an exchange leaves a fresh cache to all that the promise is made to.
LEMMA DoneKeepsInv ==
  ASSUME WaitInv, NEW r \in Asks, NEW c \in Caches, r \in asking[c], Done(r, c),
         cached' \in [Caches -> Versions \cup {Unknown}],
         \A d \in Caches \ {c} : cached'[d] = cached[d],
         c = "release" /\ cached[c] # Unknown => cached'[c] # Unknown
  PROVE  WaitInv'
<1>1. /\ asking' = [asking EXCEPT ![c] = {}]
      /\ since' = [since EXCEPT ![r] = NotWaiting]
      /\ checked' = IF c = "tags" THEN [checked EXCEPT ![c] = clock] ELSE checked
      /\ UNCHANGED <<clock, askedAt>>
  BY DEF Done
<1>2. Types /\ (\A d \in Caches : AsksWell(d)) /\ (\A q \in Asks : RequestWell(q))
  BY WaitInvParts
<1>3. /\ clock \in Nat /\ clock <= MaxClock /\ MaxClock \in Nat /\ askedAt[c] \in Nat
      /\ Timeout \in Nat /\ TTL \in Nat /\ Timeout < TTL /\ 0 < Timeout
  BY <1>2, VersionAssumption DEF Types
<1>4. Types'
  <2>1. asking' \in [Caches -> SUBSET Asks]
    BY <1>1, <1>2 DEF Types
  <2>2. checked' \in [Caches -> Nat]
    BY <1>1, <1>2, <1>3 DEF Types
  <2>3. since' \in [Asks -> [cache : Caches \cup {"none"}, at : Nat, known : BOOLEAN]]
    BY <1>1, <1>2, NotWaitingIsWell DEF Types
  <2> QED
    BY <1>1, <1>2, <2>1, <2>2, <2>3 DEF Types
<1>5. /\ asking'[c] = {} /\ (c = "tags" => checked'[c] = clock)
      /\ c = "release" => checked'[c] = checked[c]
      /\ \A d \in Caches \ {c} : asking'[d] = asking[d] /\ checked'[d] = checked[d]
  BY <1>1, <1>2 DEF Types
<1>6. since'[r] = NotWaiting /\ \A q \in Asks \ {r} : since'[q] = since[q]
  BY <1>1, <1>2 DEF Types
<1>7. ASSUME NEW d \in Caches PROVE AsksWell(d)'
  <2>1. CASE d = c
    BY <1>5, <2>1 DEF AsksWell
  <2>2. CASE d # c
    BY <1>1, <1>2, <1>5, <2>2 DEF AsksWell
  <2> QED
    BY <2>1, <2>2
<1>8. /\ askedAt[c] <= clock /\ clock <= askedAt[c] + Timeout
      /\ c = "release" => checked[c] = askedAt[c]
  BY <1>2 DEF AsksWell
<1>9. c = "tags" \/ cached[c] # Unknown => Fresh(c)'
  <2>1. c = "tags" => checked'[c] = clock
    BY <1>5
  <2>2. c = "release" => checked'[c] = askedAt[c]
    BY <1>5, <1>8
  <2>3. c = "tags" \/ c = "release"
    BY DEF Caches
  <2>4. checked'[c] <= clock /\ clock - checked'[c] <= Timeout /\ checked'[c] \in Nat
    BY <1>3, <1>8, <2>1, <2>2, <2>3
  <2>5. checked'[c] # Never /\ clock' - checked'[c] < TTL
    BY <1>1, <1>3, <2>4 DEF Never
  <2> QED
    BY <2>3, <2>5 DEF Fresh, Never
<1>10. ASSUME NEW q \in Asks PROVE RequestWell(q)'
  <2>1. CASE q = r
    BY <1>6, <2>1, NotWaitingIsWell DEF RequestWell, WaitsWell, Caches
  <2>2. CASE q # r
    <3>1. since'[q] = since[q] /\ RequestWell(q)
      BY <1>2, <1>6, <2>2
    <3>2. since'[q].cache = "release" /\ since'[q].known => cached'["release"] # Unknown
      <4>1. "release" \in Caches
        BY DEF Caches
      <4> QED
        BY <3>1, <4>1 DEF RequestWell
    <3>3. ASSUME NEW d \in Caches PROVE WaitsWell(q, d)'
      <4>1. WaitsWell(q, d)
        BY <3>1 DEF RequestWell
      <4>2. CASE d # c
        BY <1>1, <1>5, <3>1, <4>1, <4>2, UntouchedStaysWell
      <4>3. CASE d = c
        <5> SUFFICES ASSUME since[q].cache = c, c = "tags" \/ since[q].known
                     PROVE  Fresh(c)' /\ clock <= since[q].at + Timeout
          BY <1>1, <1>5, <3>1, <4>3 DEF WaitsWell
        <5>1. askedAt[c] <= since[q].at
          BY <4>1, <4>3 DEF WaitsWell
        <5>2. since[q].at \in Nat
          BY <1>2 DEF Types
        <5>3. c = "tags" \/ cached[c] # Unknown
          BY <3>1 DEF RequestWell, Caches
        <5> QED
          BY <1>3, <1>8, <1>9, <5>1, <5>2, <5>3
      <4> QED
        BY <4>2, <4>3
    <3> QED
      BY <3>1, <3>2, <3>3 DEF RequestWell
  <2> QED
    BY <2>1, <2>2
<1> QED
  BY <1>4, <1>7, <1>10 DEF WaitInv, Types, RequestWell

-------------------------------------------------------------------------------

\* WaitInv holds at the start, and every step keeps it.
LEMMA WaitInvIsInductive ==
  /\ VersionInit => WaitInv
  /\ WaitInv /\ [VersionNext]_versionVars => WaitInv'
<1>1. VersionInit => WaitInv
  <2> SUFFICES ASSUME VersionInit PROVE WaitInv
    OBVIOUS
  <2>1. Types
    BY VersionAssumption, NotWaitingIsWell DEF VersionInit, Types, Never
  <2>2. \A c \in Caches : AsksWell(c)
    BY DEF VersionInit, AsksWell
  <2>3. \A r \in Asks : RequestWell(r)
    BY NotWaitingIsWell DEF VersionInit, RequestWell, WaitsWell, Caches
  <2> QED
    BY <2>1, <2>2, <2>3, WaitInvParts
<1>2. WaitInv /\ [VersionNext]_versionVars => WaitInv'
  <2> SUFFICES ASSUME WaitInv, [VersionNext]_versionVars PROVE WaitInv'
    OBVIOUS
  <2>1. CASE Clock
    BY <2>1, ClockKeepsInv
  <2>2. ASSUME NEW v \in Versions, Publish(v) PROVE WaitInv'
    BY <2>2 DEF Publish, WaitInv, AsksWell, WaitsWell, Fresh
  <2>3. ASSUME NEW r \in Asks, NEW c \in Caches, Arrive(r, c) PROVE WaitInv'
    BY <2>3, ArriveKeepsInv
  <2>4. ASSUME NEW r \in Asks, NEW c \in Caches, AnswerFresh(r, c) PROVE WaitInv'
    BY <2>4, AnswerFreshKeepsInv
  <2>5. ASSUME NEW r \in Asks, NEW c \in Caches, AskGitHub(r, c) PROVE WaitInv'
    BY <2>5, AskKeepsInv
  <2>6. ASSUME NEW r \in Asks, NEW c \in Caches, GitHubAnswers(r, c) PROVE WaitInv'
    <3>1. PICK v \in AnswersOfGitHub(c) : cached' = [cached EXCEPT ![c] = Keep(c, v)]
      BY <2>6 DEF GitHubAnswers
    <3>2. cached \in [Caches -> Versions \cup {Unknown}]
      BY DEF WaitInv
    <3>3. Keep(c, v) \in Versions \cup {Unknown}
      BY <3>2, AnswersAreVersions DEF Keep
    <3>4. c = "release" /\ cached[c] # Unknown => Keep(c, v) # Unknown
      BY DEF Keep
    <3> DEFINE kept == Keep(c, v)
    <3> HIDE DEF kept
    <3>5. /\ cached' \in [Caches -> Versions \cup {Unknown}] /\ cached'[c] = kept
          /\ \A d \in Caches \ {c} : cached'[d] = cached[d]
      BY <3>1, <3>2, <3>3 DEF kept
    <3>6. c = "release" /\ cached[c] # Unknown => cached'[c] # Unknown
      BY <3>4, <3>5 DEF kept
    <3> QED
      BY <2>6, <3>5, <3>6, DoneKeepsInv DEF GitHubAnswers
  <2>7. ASSUME NEW r \in Asks, NEW c \in Caches, GitHubFails(r, c) PROVE WaitInv'
    BY <2>7, DoneKeepsInv DEF GitHubFails, WaitInv
  <2>8. CASE UNCHANGED versionVars
    BY <2>8 DEF versionVars, WaitInv, AsksWell, WaitsWell, Fresh
  <2> QED
    BY <2>1, <2>2, <2>3, <2>4, <2>5, <2>6, <2>7, <2>8 DEF VersionNext
<1> QED
  BY <1>1, <1>2

\* However many requests wait for the mutex, and whether GitHub answers or not,
\* none that is promised so waits for more than one exchange with GitHub.
THEOREM OneExchange == VersionSpec => []WaitsForOneExchange
BY WaitInvIsInductive, WellMeansServed, PTL DEF VersionSpec

-------------------------------------------------------------------------------
(* What a cache holds (VersionCache).                                      *)

\* A cache has what GitHub said at a time.
Said(c, t) ==
  IF c = "tags" THEN \E page \in FirstPages(t) : IsHighest(cached[c], page)
                ELSE IsLast(cached[c], t)

\* What a request may wait longer than the time to live (only that for the tags is cut).
Late(c) == IF c = "tags" THEN Timeout ELSE 0

\* The last exchange went well, and brought something.
Informed(c) ==
  checked[c] # Never /\ asking[c] = {} /\ ~failing[c] /\ (c = "release" => cached[c] # Unknown)

\* What a cache holds has been published, before an exchange that is under way; and
\* after an exchange that went well it is what GitHub said in its course.
HoldsWell(c) ==
  /\ asking[c] # {} => 1 <= askedAt[c]
  /\ cached[c] # Unknown =>
       published[cached[c]] < clock /\ (asking[c] # {} => published[cached[c]] < askedAt[c])
  /\ Informed(c) => \E t \in 1 .. clock : checked[c] - Late(c) <= t /\ Said(c, t)

\* Why what is served is recent.
ServeInv ==
  /\ WaitInv
  /\ published \in [Versions -> Nat] /\ failing \in [Caches -> BOOLEAN]
  /\ \A v \in Versions : published[v] < clock + 1 \/ published[v] = Never
  /\ \A c \in Caches : HoldsWell(c)

\* No version is unknown, and versions that differ have a first part that does.
LEMMA VersionsDiffer ==
  ASSUME NEW v \in Versions, NEW w \in Versions
  PROVE  /\ v # Unknown
         /\ v # w => /\ FirstDifference(v, w) \in 1 .. 3
                     /\ v[FirstDifference(v, w)] # w[FirstDifference(v, w)]
                     /\ \A j \in 1 .. FirstDifference(v, w) - 1 : v[j] = w[j]
<1>1. v \in Nat \X Nat \X Nat /\ w \in Nat \X Nat \X Nat
  BY VersionAssumption
<1>2. v # Unknown
  BY <1>1 DEF Unknown
<1>3. ASSUME v # w
      PROVE  \E i \in 1 .. 3 : v[i] # w[i] /\ \A j \in 1 .. i - 1 : v[j] = w[j]
  <2>1. v[1] # w[1] \/ v[2] # w[2] \/ v[3] # w[3]
    BY <1>1, <1>3
  <2>2. CASE v[1] # w[1]
    BY <2>2
  <2>3. CASE v[1] = w[1] /\ v[2] # w[2]
    BY <2>3
  <2>4. CASE v[1] = w[1] /\ v[2] = w[2] /\ v[3] # w[3]
    BY <2>4
  <2> QED
    BY <2>1, <2>2, <2>3, <2>4
<1> QED
  BY <1>2, <1>3 DEF FirstDifference

\* What compareDotVersions does not put above a version is lower or the same.
LEMMA NotAboveIsLower ==
  ASSUME NEW v \in Versions, NEW w \in Versions, w # v, compareDotVersions(w, v) <= 0
  PROVE  Higher(v, w)
<1> DEFINE i == FirstDifference(w, v)
<1>1. v # Unknown
  BY VersionsDiffer
<1>2. i \in 1 .. 3 /\ w[i] # v[i] /\ \A j \in 1 .. i - 1 : w[j] = v[j]
  BY VersionsDiffer
<1>3. compareDotVersions(w, v) = IF w[i] > v[i] THEN 1 ELSE -1
  BY <1>1 DEF compareDotVersions
<1> HIDE DEF i
<1>4. w[i] \in Nat /\ v[i] \in Nat
  BY <1>2, VersionAssumption
<1>5. w[i] < v[i]
  BY <1>2, <1>3, <1>4
<1> QED
  BY <1>2, <1>5 DEF Higher

\* What GitHub said stays said, as long as the cache has it.
LEMMA SaidStays ==
  ASSUME NEW c \in Caches, NEW t, Said(c, t), cached'[c] = cached[c],
         PublishedBy(t)' = PublishedBy(t), \A w \in PublishedBy(t) : published'[w] = published[w]
  PROVE  Said(c, t)'
<1>1. CASE c = "tags"
  <2>1. PICK page \in FirstPages(t) : IsHighest(cached[c], page)
    BY <1>1 DEF Said
  <2>2. page \in FirstPages(t)'
    BY <2>1 DEF FirstPages
  <2>3. IsHighest(cached[c], page)'
    BY <2>1 DEF IsHighest, Higher
  <2> QED
    BY <1>1, <2>2, <2>3 DEF Said
<1>2. CASE c # "tags"
  BY <1>2 DEF Said, IsLast
<1> QED
  BY <1>1, <1>2

\* What has been published by now stays what was published by then.
LEMMA PublishedStays ==
  ASSUME published \in [Versions -> Nat], clock \in 1 .. MaxClock, MaxClock \in Nat,
         NEW v \in Versions, Publish(v)
  PROVE  /\ published' \in [Versions -> Nat] /\ published'[v] = clock /\ published[v] = Never
         /\ \A w \in Versions \ {v} : published'[w] = published[w]
         /\ \A t \in 1 .. clock : PublishedBy(t)' = PublishedBy(t) /\ v \notin PublishedBy(t)
<1>1. published' = [published EXCEPT ![v] = clock] /\ published[v] = Never /\ clock \in Nat
  BY DEF Publish
<1>2. /\ published' \in [Versions -> Nat] /\ published'[v] = clock
      /\ \A w \in Versions \ {v} : published'[w] = published[w]
  BY <1>1
<1>3. ASSUME NEW t \in 1 .. clock
      PROVE  /\ \A w \in Versions : published'[w] < t <=> published[w] < t
             /\ ~(published[v] < t)
  BY <1>1, <1>2 DEF Never
<1>4. ASSUME NEW t \in 1 .. clock PROVE PublishedBy(t)' = PublishedBy(t) /\ v \notin PublishedBy(t)
  BY <1>3 DEF PublishedBy
<1> QED
  BY <1>1, <1>2, <1>4

\* A cache that a step does not touch holds what it held.
LEMMA UntouchedHoldsWell ==
  ASSUME NEW c \in Caches, HoldsWell(c), clock \in Nat, clock' \in {clock, clock + 1},
         published' = published, published \in [Versions -> Nat],
         cached \in [Caches -> Versions \cup {Unknown}],
         cached'[c] = cached[c], checked'[c] = checked[c], asking'[c] = asking[c],
         askedAt'[c] = askedAt[c], failing'[c] = failing[c]
  PROVE  HoldsWell(c)'
<1>1. asking'[c] # {} => 1 <= askedAt'[c]
  BY DEF HoldsWell
<1>2. ASSUME cached'[c] # Unknown
      PROVE  published'[cached'[c]] < clock' /\ (asking'[c] # {} => published'[cached'[c]] < askedAt'[c])
  <2>1. published[cached[c]] \in Nat
    BY <1>2
  <2>2. published[cached[c]] < clock /\ (asking[c] # {} => published[cached[c]] < askedAt[c])
    BY <1>2 DEF HoldsWell
  <2> QED
    BY <2>1, <2>2
<1>3. ASSUME Informed(c)'
      PROVE  (\E t \in 1 .. clock : checked[c] - Late(c) <= t /\ Said(c, t))'
  <2>1. Informed(c)
    BY <1>3 DEF Informed, Never
  <2>2. PICK t \in 1 .. clock : checked[c] - Late(c) <= t /\ Said(c, t)
    BY <2>1 DEF HoldsWell
  <2>3. t \in 1 .. clock'
    BY <2>2
  <2>4. Said(c, t)'
    <3>1. PublishedBy(t)' = PublishedBy(t)
      BY DEF PublishedBy
    <3> QED
      BY <2>2, <3>1, SaidStays
  <2>5. checked'[c] - Late(c)' <= t
    BY <2>2 DEF Late
  <2> QED
    BY <2>3, <2>4, <2>5
<1> QED
  BY <1>1, <1>2, <1>3 DEF HoldsWell

\* A publication changes nothing of what GitHub said.
LEMMA PublishKeepsServe ==
  ASSUME ServeInv, WaitInv', NEW v \in Versions, Publish(v)
  PROVE  ServeInv'
<1>1. /\ clock \in 1 .. MaxClock /\ MaxClock \in Nat /\ published \in [Versions -> Nat]
      /\ cached \in [Caches -> Versions \cup {Unknown}]
  BY VersionAssumption DEF ServeInv, WaitInv
<1>2. UNCHANGED <<clock, cached, checked, asking, askedAt, failing>>
  BY DEF Publish
<1>3. /\ published' \in [Versions -> Nat] /\ published'[v] = clock /\ published[v] = Never
      /\ \A w \in Versions \ {v} : published'[w] = published[w]
      /\ \A t \in 1 .. clock : PublishedBy(t)' = PublishedBy(t) /\ v \notin PublishedBy(t)
  BY <1>1, PublishedStays
<1>4. \A w \in Versions : published'[w] < clock' + 1 \/ published'[w] = Never'
  <2>1. Never' = Never
    BY DEF Never
  <2> QED
    BY <1>1, <1>2, <1>3, <2>1 DEF ServeInv
<1>5. ASSUME NEW c \in Caches PROVE HoldsWell(c)'
  <2>1. HoldsWell(c)
    BY DEF ServeInv
  <2>2. ASSUME cached[c] # Unknown PROVE cached[c] \in Versions \ {v}
    <3>1. cached[c] \in Versions /\ published[cached[c]] < clock
      BY <1>1, <2>1, <2>2 DEF HoldsWell
    <3>2. ~(published[v] < clock)
      BY <1>1, <1>3 DEF Never
    <3> QED
      BY <3>1, <3>2
  <2>3. cached'[c] # Unknown =>
          published'[cached'[c]] < clock' /\ (asking'[c] # {} => published'[cached'[c]] < askedAt'[c])
    BY <1>2, <1>3, <2>1, <2>2 DEF HoldsWell
  <2>4. ASSUME Informed(c)'
        PROVE  (\E t \in 1 .. clock : checked[c] - Late(c) <= t /\ Said(c, t))'
    <3>1. Informed(c)
      BY <1>2, <2>4 DEF Informed, Never
    <3>2. PICK t \in 1 .. clock : checked[c] - Late(c) <= t /\ Said(c, t)
      BY <2>1, <3>1 DEF HoldsWell
    <3>3. PublishedBy(t)' = PublishedBy(t) /\ v \notin PublishedBy(t) /\ PublishedBy(t) \subseteq Versions
      BY <1>3 DEF PublishedBy
    <3>4. \A w \in PublishedBy(t) : published'[w] = published[w]
      BY <1>3, <3>3
    <3>5. Said(c, t)'
      BY <1>2, <3>2, <3>3, <3>4, SaidStays
    <3> QED
      BY <1>2, <3>2, <3>5 DEF Late
  <2> QED
    BY <1>2, <2>1, <2>3, <2>4 DEF HoldsWell
<1> QED
  BY <1>2, <1>3, <1>4, <1>5 DEF ServeInv

\* The caches that a step leaves alone, all of them or all but one.
LEMMA OthersHoldWell ==
  ASSUME ServeInv, WaitInv', published' = published, clock' \in {clock, clock + 1},
         failing' \in [Caches -> BOOLEAN],
         NEW Touched \in SUBSET Caches, \A c \in Touched : HoldsWell(c)',
         \A c \in Caches \ Touched :
           /\ cached'[c] = cached[c] /\ checked'[c] = checked[c] /\ asking'[c] = asking[c]
           /\ askedAt'[c] = askedAt[c] /\ failing'[c] = failing[c]
  PROVE  ServeInv'
<1>1. /\ clock \in Nat /\ published \in [Versions -> Nat]
      /\ cached \in [Caches -> Versions \cup {Unknown}]
  BY VersionAssumption DEF ServeInv, WaitInv
<1>2. ASSUME NEW c \in Caches \ Touched PROVE HoldsWell(c)'
  BY <1>1, UntouchedHoldsWell DEF ServeInv
<1>3. \A v \in Versions : published'[v] < clock' + 1 \/ published'[v] = Never'
  <2>1. Never' = Never
    BY DEF Never
  <2>2. ASSUME NEW v \in Versions PROVE published[v] < clock' + 1 \/ published[v] = Never
    BY <1>1 DEF ServeInv
  <2> QED
    BY <2>1, <2>2
<1> QED
  BY <1>2, <1>3 DEF ServeInv

\* And all of them.
LEMMA AllHoldWell ==
  ASSUME ServeInv, WaitInv', published' = published, clock' \in {clock, clock + 1},
         cached' = cached, checked' = checked, asking' = asking, askedAt' = askedAt,
         failing' = failing
  PROVE  ServeInv'
<1>1. failing' \in [Caches -> BOOLEAN] /\ {} \in SUBSET Caches
  BY DEF ServeInv
<1> QED
  BY <1>1, OthersHoldWell

\* GitHub is asked when what is held has long been published.
LEMMA AskKeepsServe ==
  ASSUME ServeInv, WaitInv', NEW r \in Asks, NEW c \in Caches, AskGitHub(r, c)
  PROVE  ServeInv'
<1>1. /\ clock \in Nat /\ 1 <= clock
      /\ asking \in [Caches -> SUBSET Asks] /\ askedAt \in [Caches -> Nat]
      /\ checked \in [Caches -> Nat] /\ HoldsWell(c)
  BY VersionAssumption DEF ServeInv, WaitInv
<1>2. /\ asking'[c] = {r} /\ askedAt'[c] = clock
      /\ UNCHANGED <<clock, published, cached, failing>>
      /\ \A d \in Caches \ {c} : /\ asking'[d] = asking[d] /\ askedAt'[d] = askedAt[d]
                                 /\ checked'[d] = checked[d]
  BY <1>1 DEF AskGitHub
<1>3. HoldsWell(c)'
  BY <1>1, <1>2 DEF HoldsWell, Informed
<1>4. {c} \in SUBSET Caches /\ failing' \in [Caches -> BOOLEAN]
  BY <1>2 DEF ServeInv
<1> QED
  BY <1>2, <1>3, <1>4, OthersHoldWell

\* A failure is remembered as one.
LEMMA FailureKeepsServe ==
  ASSUME ServeInv, WaitInv', NEW r \in Asks, NEW c \in Caches, GitHubFails(r, c)
  PROVE  ServeInv'
<1>1. /\ asking \in [Caches -> SUBSET Asks] /\ checked \in [Caches -> Nat]
      /\ HoldsWell(c) /\ failing \in [Caches -> BOOLEAN]
  BY DEF ServeInv, WaitInv
<1>2. failing' = [failing EXCEPT ![c] = TRUE] /\ cached' = cached /\ Done(r, c)
  BY DEF GitHubFails
<1>3. /\ asking'[c] = {} /\ UNCHANGED <<clock, published, cached, askedAt>>
      /\ \A d \in Caches \ {c} : /\ asking'[d] = asking[d] /\ checked'[d] = checked[d]
                                 /\ failing'[d] = failing[d]
  BY <1>1, <1>2 DEF Done
<1>4. HoldsWell(c)'
  BY <1>1, <1>2, <1>3 DEF HoldsWell, Informed
<1>5. {c} \in SUBSET Caches /\ failing' \in [Caches -> BOOLEAN]
  BY <1>1, <1>2
<1> QED
  BY <1>3, <1>4, <1>5, OthersHoldWell

\* What GitHub answers is what it says at that moment.
LEMMA AnswerIsSaid ==
  ASSUME ServeInv, NEW c \in Caches, NEW t \in 1 .. clock,
         NEW v \in IF c = "tags" THEN UNION {highestVersionFromTagNames(page) : page \in FirstPages(t)}
                                ELSE LastPublished(t)
  PROVE  /\ v = Unknown \/ (v \in Versions /\ published[v] < t)
         /\ c # "tags" /\ PublishedBy(t) # {} => v # Unknown
         /\ IF c = "tags" THEN \E page \in FirstPages(t) : IsHighest(v, page) ELSE IsLast(v, t)
<1>1. \A w \in PublishedBy(t) : w \in Versions /\ published[w] < t
  BY DEF PublishedBy
<1>2. CASE c = "tags"
  <2>1. PICK page \in FirstPages(t) : v \in highestVersionFromTagNames(page)
    BY <1>2
  <2>2. page \subseteq PublishedBy(t)
    BY <2>1 DEF FirstPages
  <2>3. CASE page = {}
    <3>1. v = Unknown
      BY <2>1, <2>3 DEF highestVersionFromTagNames
    <3> QED
      BY <1>2, <2>1, <2>3, <3>1 DEF IsHighest
  <2>4. CASE page # {}
    <3>1. v \in page /\ \A w \in page : compareDotVersions(w, v) <= 0
      BY <2>1, <2>4 DEF highestVersionFromTagNames
    <3>2. \A w \in page \ {v} : Higher(v, w)
      BY <1>1, <2>2, <3>1, NotAboveIsLower
    <3>3. IsHighest(v, page)
      BY <2>4, <3>1, <3>2 DEF IsHighest
    <3> QED
      BY <1>1, <1>2, <2>1, <2>2, <3>1, <3>3
  <2> QED
    BY <2>3, <2>4
<1>3. CASE c # "tags"
  <2>1. CASE PublishedBy(t) = {}
    BY <1>3, <2>1 DEF LastPublished, IsLast
  <2>2. CASE PublishedBy(t) # {}
    <3>1. v \in PublishedBy(t) /\ \A w \in PublishedBy(t) : published[w] <= published[v]
      BY <1>3, <2>2 DEF LastPublished
    <3>2. v # Unknown
      BY <1>1, <3>1, VersionsDiffer
    <3> QED
      BY <1>1, <1>3, <2>2, <3>1, <3>2 DEF IsLast
  <2> QED
    BY <2>1, <2>2
<1> QED
  BY <1>2, <1>3

\* An answer is kept, unless it is that there is no release; and that cannot be the
\* answer when one is held.
LEMMA AnswerKeepsServe ==
  ASSUME ServeInv, WaitInv', NEW r \in Asks, NEW c \in Caches, GitHubAnswers(r, c)
  PROVE  ServeInv'
<1>1. PICK v \in AnswersOfGitHub(c) : cached' = [cached EXCEPT ![c] = Keep(c, v)]
  BY DEF GitHubAnswers
<1>2. PICK t \in askedAt[c] .. clock :
        v \in IF c = "tags" THEN UNION {highestVersionFromTagNames(page) : page \in FirstPages(t)}
                           ELSE LastPublished(t)
  BY DEF AnswersOfGitHub
<1>3. /\ clock \in Nat /\ 1 <= clock /\ askedAt[c] \in Nat /\ checked[c] \in Nat /\ Timeout \in Nat
      /\ asking \in [Caches -> SUBSET Asks] /\ checked \in [Caches -> Nat]
      /\ cached \in [Caches -> Versions \cup {Unknown}] /\ published \in [Versions -> Nat]
      /\ failing \in [Caches -> BOOLEAN]
      /\ HoldsWell(c) /\ AsksWell(c) /\ asking[c] # {}
  BY VersionAssumption DEF ServeInv, WaitInv, GitHubAnswers
<1>4. /\ 1 <= askedAt[c] /\ askedAt[c] <= t /\ t <= clock /\ t \in 1 .. clock
      /\ clock <= askedAt[c] + Timeout
      /\ c = "release" => checked[c] = askedAt[c]
  BY <1>2, <1>3 DEF HoldsWell, AsksWell
<1>5. /\ v = Unknown \/ (v \in Versions /\ published[v] < t)
      /\ c # "tags" /\ PublishedBy(t) # {} => v # Unknown
      /\ IF c = "tags" THEN \E page \in FirstPages(t) : IsHighest(v, page) ELSE IsLast(v, t)
  BY <1>2, <1>4, AnswerIsSaid
<1>6. /\ asking'[c] = {} /\ (c = "tags" => checked'[c] = clock)
      /\ c = "release" => checked'[c] = checked[c]
      /\ UNCHANGED <<clock, published, askedAt>>
      /\ \A d \in Caches \ {c} : /\ asking'[d] = asking[d] /\ checked'[d] = checked[d]
                                 /\ failing'[d] = failing[d]
      /\ {c} \in SUBSET Caches /\ failing' \in [Caches -> BOOLEAN]
  <2>1. Done(r, c) /\ failing' = [failing EXCEPT ![c] = FALSE]
    BY DEF GitHubAnswers
  <2> QED
    BY <1>3, <2>1 DEF Done
<1>7. cached'[c] = Keep(c, v) /\ \A d \in Caches \ {c} : cached'[d] = cached[d]
  BY <1>1, <1>3
<1>8. cached[c] # Unknown => PublishedBy(t) # {}
  <2> SUFFICES ASSUME cached[c] # Unknown PROVE PublishedBy(t) # {}
    OBVIOUS
  <2>1. cached[c] \in Versions /\ published[cached[c]] \in Nat /\ published[cached[c]] < askedAt[c]
    BY <1>3 DEF HoldsWell
  <2>2. cached[c] \in PublishedBy(t)
    BY <1>3, <1>4, <2>1 DEF PublishedBy
  <2> QED
    BY <2>2
<1>9. ASSUME cached'[c] = v PROVE Said(c, t)'
  <2>1. PublishedBy(t)' = PublishedBy(t) /\ published' = published
    BY <1>6 DEF PublishedBy
  <2>2. CASE c = "tags"
    <3>1. PICK page \in FirstPages(t) : IsHighest(v, page)
      BY <1>5, <2>2
    <3>2. page \in FirstPages(t)'
      BY <2>1, <3>1 DEF FirstPages
    <3>3. IsHighest(cached[c], page)'
      BY <1>9, <3>1 DEF IsHighest, Higher
    <3> QED
      BY <2>2, <3>2, <3>3 DEF Said
  <2>3. CASE c # "tags"
    BY <1>5, <1>9, <2>1, <2>3 DEF Said, IsLast
  <2> QED
    BY <2>2, <2>3
<1>10. CASE v = Unknown
  <2>1. cached'[c] = Unknown
    <3>1. c = "release" => cached[c] = Unknown
      BY <1>5, <1>8, <1>10
    <3> QED
      BY <1>7, <1>10, <3>1 DEF Keep
  <2>2. Said(c, t)'
    BY <1>9, <1>10, <2>1
  <2>3. c = "tags" => checked'[c] - Late(c)' <= t
    BY <1>3, <1>4, <1>6 DEF Late
  <2>4. c = "release" => ~Informed(c)'
    BY <2>1 DEF Informed
  <2>5. Informed(c)' => (\E u \in 1 .. clock : checked[c] - Late(c) <= u /\ Said(c, u))'
    BY <1>4, <1>6, <2>2, <2>3, <2>4 DEF Caches
  <2>6. HoldsWell(c)'
    BY <1>6, <2>1, <2>5 DEF HoldsWell
  <2> QED
    BY <1>6, <1>7, <2>6, OthersHoldWell
<1>11. CASE v # Unknown
  <2>1. v \in Versions /\ published[v] < t
    BY <1>5, <1>11
  <2>2. cached'[c] = v
    BY <1>7, <1>11 DEF Keep
  <2>3. Said(c, t)'
    BY <1>9, <2>2
  <2>4. checked'[c] - Late(c)' <= t
    BY <1>3, <1>4, <1>6 DEF Late, Caches
  <2>5. published[v] \in Nat /\ published[v] < clock
    BY <1>3, <1>4, <2>1
  <2>6. HoldsWell(c)'
    BY <1>4, <1>6, <2>2, <2>3, <2>4, <2>5 DEF HoldsWell
  <2> QED
    BY <1>6, <1>7, <2>6, OthersHoldWell
<1> QED
  BY <1>10, <1>11

\* While a cache is fresh and the last exchange did not fail, it holds what GitHub
\* said less than the TTL ago (for the tags, less than the TTL and one exchange).
THEOREM RecentVersionServed == VersionSpec => []ServesRecentVersion
<1>1. VersionInit => ServeInv
  <2> SUFFICES ASSUME VersionInit PROVE ServeInv
    OBVIOUS
  <2>1. WaitInv
    BY WaitInvIsInductive
  <2>2. published \in [Versions -> Nat] /\ \A v \in Versions : published[v] < clock + 1 \/ published[v] = Never
    BY VersionAssumption DEF VersionInit, Never
  <2>3. \A c \in Caches : HoldsWell(c)
    BY DEF VersionInit, HoldsWell, Informed
  <2>4. failing \in [Caches -> BOOLEAN]
    BY DEF VersionInit
  <2> QED
    BY <2>1, <2>2, <2>3, <2>4 DEF ServeInv
<1>2. ServeInv /\ [VersionNext]_versionVars => ServeInv'
  <2> SUFFICES ASSUME ServeInv, [VersionNext]_versionVars PROVE ServeInv'
    OBVIOUS
  <2>1. WaitInv'
    BY WaitInvIsInductive DEF ServeInv
  <2>2. CASE Clock
    BY <2>1, <2>2, AllHoldWell DEF Clock
  <2>3. ASSUME NEW v \in Versions, Publish(v) PROVE ServeInv'
    BY <2>1, <2>3, PublishKeepsServe
  <2>4. ASSUME NEW r \in Asks, NEW c \in Caches, Arrive(r, c) \/ AnswerFresh(r, c) PROVE ServeInv'
    BY <2>1, <2>4, AllHoldWell DEF Arrive, AnswerFresh
  <2>5. ASSUME NEW r \in Asks, NEW c \in Caches, AskGitHub(r, c) PROVE ServeInv'
    BY <2>1, <2>5, AskKeepsServe
  <2>6. ASSUME NEW r \in Asks, NEW c \in Caches, GitHubAnswers(r, c) PROVE ServeInv'
    BY <2>1, <2>6, AnswerKeepsServe
  <2>7. ASSUME NEW r \in Asks, NEW c \in Caches, GitHubFails(r, c) PROVE ServeInv'
    BY <2>1, <2>7, FailureKeepsServe
  <2>8. CASE UNCHANGED versionVars
    BY <2>1, <2>8, AllHoldWell DEF versionVars
  <2> QED
    BY <2>2, <2>3, <2>4, <2>5, <2>6, <2>7, <2>8 DEF VersionNext
<1>3. ServeInv => ServesRecentVersion
  <2> SUFFICES ASSUME ServeInv, NEW c \in Caches, Fresh(c), asking[c] = {}, ~failing[c]
               PROVE  \E t \in 1 .. clock :
                        t > clock - TTL - (IF c = "tags" THEN Timeout ELSE 0) /\ Said(c, t)
    BY DEF ServesRecentVersion, Said
  <2>1. Informed(c) /\ HoldsWell(c)
    BY DEF Fresh, Informed, ServeInv
  <2>2. PICK t \in 1 .. clock : checked[c] - Late(c) <= t /\ Said(c, t)
    BY <2>1 DEF HoldsWell
  <2>3. /\ clock \in Nat /\ checked[c] \in Nat /\ TTL \in Nat /\ Timeout \in Nat
        /\ clock - checked[c] < TTL
    BY VersionAssumption DEF ServeInv, WaitInv, Fresh
  <2>4. t > clock - TTL - (IF c = "tags" THEN Timeout ELSE 0)
    BY <2>2, <2>3 DEF Late
  <2> QED
    BY <2>2, <2>4
<1> QED
  BY <1>1, <1>2, <1>3, PTL DEF VersionSpec
===============================================================================
