------------------------ MODULE LoginRateLimiterProofs ------------------------
(***************************************************************************)
(* Proofs about the login limiter, for every set of addresses, quota,      *)
(* window and sweep period.                                                *)
(***************************************************************************)
EXTENDS LoginRateLimiter, SumLemmas, TLAPS

\* A bucket of RateLimiter.
Bucket == [count : Nat, resetAt : Nat]

\* The bucket an attempt is counted in is a bucket: a fresh one, or the
\* address's own one when that has not expired.
LEMMA BucketForType ==
  ASSUME TypeOK, NEW ip \in IPs
  PROVE  /\ BucketFor(ip) \in Bucket
         /\ \/ BucketFor(ip) = [count |-> 0, resetAt |-> now + Window]
            \/ buckets[ip] # None /\ ~Expired(ip) /\ BucketFor(ip) = buckets[ip]
         /\ buckets[ip] # None => buckets[ip] \in Bucket
<1>1. buckets[ip] # None => buckets[ip] \in Bucket
  BY DEF TypeOK, Bucket
<1>2. now + Window \in Nat /\ 0 \in Nat
  BY LimiterAssumption DEF TypeOK
<1>3. [count |-> 0, resetAt |-> now + Window] \in Bucket
  BY <1>2 DEF Bucket
<1>4. QED
  BY <1>1, <1>3 DEF BucketFor

\* What one attempt does to the entry of its address.
LEMMA AttemptEntry ==
  ASSUME TypeOK, NEW ip \in IPs, Attempt(ip)
  PROVE  /\ buckets' = [buckets EXCEPT ![ip] =
                          [count |-> BucketFor(ip).count + 1, resetAt |-> BucketFor(ip).resetAt]]
         /\ IF BucketFor(ip).count + 1 > maxAttempts
              THEN /\ refusedSince' = [refusedSince EXCEPT ![ip] = IF @ = None THEN now ELSE @]
                   /\ refusedLast' = [refusedLast EXCEPT ![ip] = now]
                   /\ UNCHANGED admitted
              ELSE /\ admitted' = [admitted EXCEPT ![ip][now] = @ + 1]
                   /\ refusedSince' = [refusedSince EXCEPT ![ip] = None]
                   /\ refusedLast' = [refusedLast EXCEPT ![ip] = None]
         /\ BucketFor(ip).count \in Nat /\ BucketFor(ip).resetAt \in Nat
<1>1. BucketFor(ip) \in Bucket
  BY BucketForType
<1>2. [BucketFor(ip) EXCEPT !.count = BucketFor(ip).count + 1] =
        [count |-> BucketFor(ip).count + 1, resetAt |-> BucketFor(ip).resetAt]
  BY <1>1 DEF Bucket
<1>3. QED
  BY <1>1, <1>2 DEF Attempt, Bucket

-------------------------------------------------------------------------------
(* The inductive invariant.                                                *)

\* Every step keeps the types.
LEMMA TypeOKStep == TypeOK /\ [Next]_vars => TypeOK'
<1> SUFFICES ASSUME TypeOK, [Next]_vars PROVE TypeOK'
  OBVIOUS
<1>1. CASE Tick
  BY <1>1, LimiterAssumption DEF Tick, TypeOK
<1>2. CASE Sweep
  BY <1>2, LimiterAssumption DEF Sweep, Swept, TypeOK
<1>3. ASSUME NEW ip \in IPs, Attempt(ip) PROVE TypeOK'
  <2>1. buckets' \in [IPs -> Bucket \cup {None}]
    <3>1. [count |-> BucketFor(ip).count + 1, resetAt |-> BucketFor(ip).resetAt] \in Bucket
      BY <1>3, AttemptEntry DEF Bucket
    <3>2. buckets \in [IPs -> Bucket \cup {None}]
      BY DEF TypeOK, Bucket
    <3>3. QED
      BY <1>3, <3>1, <3>2, AttemptEntry
  <2>2. /\ admitted' \in [IPs -> [0 .. MaxTime -> Nat]]
        /\ refusedSince' \in [IPs -> Nat \cup {None}]
        /\ refusedLast' \in [IPs -> Nat \cup {None}]
    <3>1. CASE BucketFor(ip).count + 1 > maxAttempts
      <4>1. (IF refusedSince[ip] = None THEN now ELSE refusedSince[ip]) \in Nat \cup {None}
        BY DEF TypeOK
      <4>2. /\ refusedSince' = [refusedSince EXCEPT ![ip] =
                                  IF refusedSince[ip] = None THEN now ELSE refusedSince[ip]]
            /\ refusedLast' = [refusedLast EXCEPT ![ip] = now]
            /\ admitted' = admitted
        BY <1>3, <3>1, AttemptEntry
      <4>3. QED
        BY <4>1, <4>2 DEF TypeOK
    <3>2. CASE ~(BucketFor(ip).count + 1 > maxAttempts)
      <4>1. admitted' = [admitted EXCEPT ![ip][now] = @ + 1]
        BY <1>3, <3>2, AttemptEntry
      <4>2. admitted' \in [IPs -> [0 .. MaxTime -> Nat]]
        <5>1. admitted[ip] \in [0 .. MaxTime -> Nat] /\ now \in 0 .. MaxTime
          BY DEF TypeOK
        <5>2. [admitted[ip] EXCEPT ![now] = admitted[ip][now] + 1] \in [0 .. MaxTime -> Nat]
          <6>1. ASSUME NEW f \in [0 .. MaxTime -> Nat], NEW t \in 0 .. MaxTime
                PROVE  [f EXCEPT ![t] = f[t] + 1] \in [0 .. MaxTime -> Nat]
            OBVIOUS
          <6>2. QED
            BY <5>1, <6>1
        <5>3. QED
          BY <4>1, <5>2 DEF TypeOK
      <4>3. QED
        BY <1>3, <3>2, <4>2, AttemptEntry DEF TypeOK
    <3>3. QED
      BY <3>1, <3>2
  <2>3. tries' \in [IPs -> Nat] /\ UNCHANGED <<now, nextSweep>>
    BY <1>3 DEF Attempt, TypeOK
  <2>4. QED
    BY <2>1, <2>2, <2>3 DEF TypeOK, Bucket
<1>4. CASE UNCHANGED vars
  BY <1>4 DEF vars, TypeOK
<1>5. QED
  BY <1>1, <1>2, <1>3, <1>4 DEF Next

\* The invariant holds at the start.
LEMMA InitIInv == Init => IInv
BY LimiterAssumption DEF Init, IInv, TypeOK, EntryInv

\* Every step keeps the invariant.
LEMMA IInvStep == IInv /\ [Next]_vars => IInv'
<1> SUFFICES ASSUME IInv, [Next]_vars PROVE IInv'
  OBVIOUS
<1>1. TypeOK /\ TypeOK'
  BY TypeOKStep DEF IInv
<1>2. ASSUME NEW ip \in IPs
      PROVE  /\ buckets[ip] # None => buckets[ip].resetAt \in Nat /\ buckets[ip].count \in Nat
             /\ refusedSince[ip] # None => refusedSince[ip] \in Nat
             /\ EntryInv(ip)
  BY <1>1, BucketForType DEF IInv, TypeOK, Bucket
<1>3. CASE Tick
  <2>1. ASSUME NEW ip \in IPs PROVE EntryInv(ip)'
    BY <1>1, <1>2, <1>3, LimiterAssumption DEF Tick, EntryInv, Expired, TypeOK
  <2>2. QED
    BY <1>1, <1>3, <2>1, LimiterAssumption DEF Tick, IInv, TypeOK
<1>4. CASE Sweep
  <2>1. ASSUME NEW ip \in IPs PROVE EntryInv(ip)'
    BY <1>1, <1>2, <1>4, LimiterAssumption DEF Sweep, Swept, EntryInv, Expired, TypeOK
  <2>2. QED
    BY <1>1, <1>4, <2>1, LimiterAssumption DEF Sweep, Swept, IInv, TypeOK
<1>5. ASSUME NEW ip \in IPs, Attempt(ip) PROVE IInv'
  <2>1. UNCHANGED <<now, nextSweep>>
    BY <1>5 DEF Attempt
  <2>2. ASSUME NEW other \in IPs, other # ip PROVE EntryInv(other)'
    <3>1. /\ buckets'[other] = buckets[other]
          /\ refusedSince'[other] = refusedSince[other]
          /\ refusedLast'[other] = refusedLast[other]
      <4>1. CASE BucketFor(ip).count + 1 > maxAttempts
        BY <1>1, <1>5, <2>2, <4>1, AttemptEntry DEF TypeOK
      <4>2. CASE ~(BucketFor(ip).count + 1 > maxAttempts)
        BY <1>1, <1>5, <2>2, <4>2, AttemptEntry DEF TypeOK
      <4>3. QED
        BY <4>1, <4>2
    <3>2. QED
      BY <1>2, <2>1, <3>1 DEF EntryInv, Expired
  <2>3. EntryInv(ip)'
    <3> DEFINE b == BucketFor(ip)
    <3>1. /\ buckets'[ip] = [count |-> b.count + 1, resetAt |-> b.resetAt]
          /\ b.count \in Nat /\ b.resetAt \in Nat
          /\ buckets'[ip] # None
      <4>1. [count |-> b.count + 1, resetAt |-> b.resetAt] \in Bucket
        BY <1>1, <1>5, AttemptEntry DEF Bucket
      <4>2. /\ buckets'[ip] = [count |-> b.count + 1, resetAt |-> b.resetAt]
            /\ b.count \in Nat /\ b.resetAt \in Nat
        BY <1>1, <1>5, AttemptEntry DEF TypeOK
      <4>3. None \notin Bucket
        BY LimiterAssumption DEF Bucket
      <4> HIDE DEF b
      <4>4. QED
        BY <4>1, <4>2, <4>3
    <3>2. \/ b.count = 0 /\ b.resetAt = now + Window
          \/ buckets[ip] # None /\ ~Expired(ip) /\ b = buckets[ip]
      BY <1>1, BucketForType
    <3>3. b.resetAt <= now + Window /\ b.resetAt + SweepEvery >= nextSweep
      BY <1>1, <1>2, <3>2, LimiterAssumption DEF EntryInv, IInv, TypeOK
    <3>4. CASE b.count + 1 > maxAttempts
      <4>1. buckets[ip] # None /\ ~Expired(ip) /\ b = buckets[ip]
        BY <3>2, <3>4, LimiterAssumption
      <4>2. now <= b.resetAt
        BY <1>1, <1>2, <4>1 DEF Expired, TypeOK
      <4>3. /\ refusedSince'[ip] = IF refusedSince[ip] = None THEN now ELSE refusedSince[ip]
            /\ refusedLast'[ip] = now
        BY <1>1, <1>5, <3>4, AttemptEntry DEF TypeOK
      <4>4. now \in Nat /\ now # None
        BY <1>1, LimiterAssumption DEF TypeOK
      <4> HIDE DEF b
      <4>5. /\ refusedSince'[ip] \in Nat
            /\ refusedSince'[ip] <= now
            /\ b.resetAt <= refusedSince'[ip] + Window
        BY <1>2, <3>3, <4>1, <4>3, <4>4 DEF EntryInv
      <4>6. now - refusedSince'[ip] <= Window
        BY <3>1, <4>2, <4>4, <4>5, LimiterAssumption
      <4>7. QED
        BY <2>1, <3>1, <3>3, <3>4, <4>3, <4>4, <4>5, <4>6 DEF EntryInv
    <3>5. CASE ~(b.count + 1 > maxAttempts)
      <4>1. refusedSince'[ip] = None
        BY <1>1, <1>5, <3>5, AttemptEntry DEF TypeOK
      <4> HIDE DEF b
      <4>2. QED
        BY <2>1, <3>1, <3>3, <4>1 DEF EntryInv
    <3>6. QED
      BY <3>4, <3>5
  <2>4. QED
    BY <1>1, <2>1, <2>2, <2>3 DEF IInv
<1>6. CASE UNCHANGED vars
  BY <1>1, <1>6 DEF vars, IInv, EntryInv, Expired
<1>7. QED
  BY <1>3, <1>4, <1>5, <1>6 DEF Next

-------------------------------------------------------------------------------
(* The theorems.                                                           *)

\* The inductive invariant holds throughout.
THEOREM LimiterInvariant == Spec => []IInv
BY InitIInv, IInvStep, PTL DEF Spec

\* A run of refusals never outlasts one Window, however hard a client tries.
THEOREM NoEndlessLockout == Spec => []LockoutEnds
<1>1. IInv => LockoutEnds
  BY DEF IInv, EntryInv, LockoutEnds
<1>2. QED
  BY <1>1, LimiterInvariant, PTL

\* No entry outlives its expiry by more than a sweep period.
THEOREM MapStaysSmall == Spec => []BucketsAreRecent
<1>1. IInv => BucketsAreRecent
  BY LimiterAssumption, BucketForType DEF IInv, EntryInv, TypeOK, BucketsAreRecent, Bucket
<1>2. QED
  BY <1>1, LimiterInvariant, PTL

-------------------------------------------------------------------------------
(* The janitor is invisible.                                               *)

\* Each step of the limiter is a step of the limiter without a map to clean,
\* or leaves it unchanged: a sweep only removes what is already dead.
LEMMA LiveStep == TypeOK /\ [Next]_vars => [Live!Next]_(Live!vars)
<1> SUFFICES ASSUME TypeOK, [Next]_vars PROVE [Live!Next]_(Live!vars)
  OBVIOUS
<1>1. ASSUME NEW ip \in IPs
      PROVE  buckets[ip] # None => buckets[ip].resetAt \in Nat
  BY BucketForType DEF Bucket
<1>2. CASE Tick
  <2>1. now \in Nat /\ now' = now + 1 /\ UNCHANGED <<buckets, admitted>>
    BY <1>2 DEF Tick, TypeOK
  <2>2. ASSUME NEW ip \in IPs
        PROVE  LiveBuckets'[ip] =
                 IF LiveBuckets[ip] # None /\ LiveBuckets[ip].resetAt < now' THEN None
                 ELSE LiveBuckets[ip]
    BY <1>1, <2>1 DEF LiveBuckets, Expired
  <2>3. LiveBuckets' = [ip \in IPs |->
                          IF LiveBuckets[ip] # None /\ LiveBuckets[ip].resetAt < now' THEN None
                          ELSE LiveBuckets[ip]]
    BY <2>2 DEF LiveBuckets
  <2>4. QED
    BY <2>1, <2>3 DEF Live!Next, Live!Tick
<1>3. CASE Sweep
  <2>1. ASSUME NEW ip \in IPs PROVE LiveBuckets'[ip] = LiveBuckets[ip]
    BY <1>3 DEF Sweep, Swept, LiveBuckets, Expired
  <2>2. LiveBuckets' = LiveBuckets
    BY <2>1 DEF LiveBuckets
  <2>3. QED
    BY <1>3, <2>2 DEF Sweep, Swept, Live!vars
<1>4. ASSUME NEW ip \in IPs, Attempt(ip) PROVE Live!Attempt(ip)
  <2> DEFINE b == BucketFor(ip)
             c == [count |-> b.count + 1, resetAt |-> b.resetAt]
  <2>1. Live!Open(ip) = b
    BY DEF Live!Open, LiveBuckets, BucketFor
  <2>2. now' = now /\ now \in Nat
    BY <1>4 DEF Attempt, TypeOK
  <2>3. b.count \in Nat /\ b.resetAt \in Nat /\ now <= b.resetAt
    BY <1>1, <1>4, <2>2, AttemptEntry, BucketForType, LimiterAssumption DEF Expired
  <2>4. c # None /\ c.resetAt = b.resetAt
    BY <2>3, LimiterAssumption
  <2>5. buckets' = [buckets EXCEPT ![ip] = c]
    BY <1>4, AttemptEntry
  <2> HIDE DEF b, c
  <2>6. LiveBuckets'[ip] = c
    BY <2>2, <2>3, <2>4, <2>5 DEF LiveBuckets, Expired, TypeOK
  <2>7. ASSUME NEW other \in IPs, other # ip PROVE LiveBuckets'[other] = LiveBuckets[other]
    BY <2>2, <2>5, <2>7 DEF LiveBuckets, Expired, TypeOK
  <2>8. LiveBuckets' = [LiveBuckets EXCEPT ![ip] = c]
    BY <2>6, <2>7 DEF LiveBuckets
  <2>9. admitted' = IF b.count + 1 <= maxAttempts
                     THEN [admitted EXCEPT ![ip][now] = @ + 1] ELSE admitted
    BY <1>4, <2>3, AttemptEntry, LimiterAssumption DEF b
  <2>10. QED
    BY <2>1, <2>2, <2>8, <2>9 DEF Live!Attempt, c
<1>5. CASE UNCHANGED vars
  <2>1. LiveBuckets' = LiveBuckets
    BY <1>5 DEF vars, LiveBuckets, Expired
  <2>2. QED
    BY <1>5, <2>1 DEF vars, Live!vars
<1>6. QED
  BY <1>2, <1>3, <1>4, <1>5 DEF Next, Live!Next

\* With the janitor or without it, the same attempts are let through.
THEOREM JanitorChangesNothing == Spec => JanitorInvisible
<1>1. Init => Live!Init
  BY DEF Init, Live!Init, LiveBuckets
<1>2. IInv => TypeOK
  BY DEF IInv
<1>3. QED
  BY <1>1, <1>2, LiveStep, LimiterInvariant, PTL DEF Spec, JanitorInvisible, Live!Spec

-------------------------------------------------------------------------------
(* Two buckets.                                                            *)

\* What a history holds from one instant to another.
Between(from, to) == {u \in 0 .. MaxTime : from <= u /\ u <= to}
Through(history, from, to) == SumOf(history, Between(from, to))

\* The times of an interval are finitely many, what was admitted in them a number.
LEMMA ThroughIsNatural ==
  ASSUME NEW f \in [0 .. MaxTime -> Nat], NEW a \in Int, NEW b \in Int
  PROVE  /\ IsFiniteSet(Between(a, b))
         /\ \A u \in Between(a, b) : f[u] \in Nat
         /\ Through(f, a, b) \in Nat
<1>1. IsFiniteSet(0 .. MaxTime)
  BY LimiterAssumption, FS_Interval
<1>2. IsFiniteSet(Between(a, b))
  BY <1>1, FS_Subset DEF Between
<1>3. \A u \in Between(a, b) : f[u] \in Nat
  BY DEF Between
<1> QED
  BY <1>2, <1>3, SumOfNaturals DEF Through

\* In a narrower interval fewer were admitted.
LEMMA NarrowerIsLess ==
  ASSUME NEW f \in [0 .. MaxTime -> Nat], NEW a \in Int, NEW b \in Int,
         NEW c \in Int, NEW d \in Int, a <= c, d <= b
  PROVE  Through(f, c, d) <= Through(f, a, b)
<1>1. Between(c, d) \in SUBSET Between(a, b)
  BY LimiterAssumption DEF Between
<1>2. IsFiniteSet(Between(a, b)) /\ \A u \in Between(a, b) : f[u] \in Nat
  BY ThroughIsNatural
<1> QED
  BY <1>1, <1>2, SumOfNaturals DEF Through

\* An interval cut in two admits at most what its parts do.
LEMMA CutInTwo ==
  ASSUME NEW f \in [0 .. MaxTime -> Nat], NEW a \in Int, NEW b \in Int, NEW c \in Int
  PROVE  Through(f, a, b) <= Through(f, a, c - 1) + Through(f, c, b)
<1> DEFINE A == Between(a, c - 1)
           B == Between(c, b)
<1>1. IsFiniteSet(A) /\ IsFiniteSet(B) /\ \A u \in A \cup B : f[u] \in Nat
  <2>1. c - 1 \in Int
    OBVIOUS
  <2> QED
    BY <2>1, ThroughIsNatural
<1>2. A \cap B = {} /\ Between(a, b) \subseteq A \cup B
  BY LimiterAssumption DEF Between
<1> HIDE DEF A, B
<1>3. IsFiniteSet(A \cup B)
  BY <1>1, FS_Union
<1>4. SumOf(f, Between(a, b)) <= SumOf(f, A \cup B)
  BY <1>1, <1>2, <1>3, SumOfNaturals
<1>5. \A u \in A \cup B : f[u] \in Int
  BY <1>1
<1>6. SumOf(f, A \cup B) = SumOf(f, A) + SumOf(f, B)
  BY <1>1, <1>2, <1>5, SumOfUnion
<1> QED
  BY <1>4, <1>6 DEF Through, A, B

\* Where nothing was admitted at any time, nothing was in all.
LEMMA NothingThrough ==
  ASSUME NEW f \in [0 .. MaxTime -> Nat], NEW a \in Int, NEW b \in Int,
         \A u \in Between(a, b) : f[u] = 0
  PROVE  Through(f, a, b) = 0
<1> DEFINE S == Between(a, b)
<1>1. IsFiniteSet(S) /\ SumOf(f, S) \in Nat
  BY ThroughIsNatural DEF Through
<1>2. \A u \in S : f[u] \in Int /\ f[u] <= 0
  OBVIOUS
<1> HIDE DEF S
<1>3. SumOf(f, S) <= 0 * Cardinality(S)
  <2>1. 0 \in Int
    OBVIOUS
  <2> QED
    BY <1>1, <1>2, <2>1, SumIsBounded
<1>4. Cardinality(S) \in Nat
  BY <1>1, FS_CardinalityType
<1> QED
  BY <1>1, <1>3, <1>4 DEF Through, S

\* One request more counts once, in the intervals around it.
LEMMA OneMoreThrough ==
  ASSUME NEW f \in [0 .. MaxTime -> Nat], NEW n \in 0 .. MaxTime, NEW a \in Int, NEW b \in Int
  PROVE  Through([f EXCEPT ![n] = @ + 1], a, b) =
           Through(f, a, b) + (IF a <= n /\ n <= b THEN 1 ELSE 0)
<1> DEFINE g == [f EXCEPT ![n] = @ + 1]
           S == Between(a, b)
<1>1. g \in [0 .. MaxTime -> Nat] /\ g[n] = f[n] + 1 /\ f[n] \in Nat
      /\ \A u \in (0 .. MaxTime) \ {n} : g[u] = f[u]
  OBVIOUS
<1> HIDE DEF g
<1>2. /\ IsFiniteSet(S) /\ SumOf(f, S) \in Nat
      /\ \A u \in S : f[u] \in Int /\ g[u] \in Int
      /\ S \subseteq 0 .. MaxTime
  BY <1>1, ThroughIsNatural DEF Through, Between
<1>3. n \in S <=> a <= n /\ n <= b
  BY DEF Between
<1> HIDE DEF S
<1>4. CASE n \in S
  <2>1. /\ \A y \in S : f[y] \in Int /\ g[y] \in Int
        /\ \A y \in S \ {n} : g[y] = f[y]
        /\ g[n] = f[n] + 1
    BY <1>1, <1>2
  <2>2. SumOf(g, S) = SumOf(f, S) + 1
    BY <1>2, <1>4, <2>1, SumGrows
  <2> QED
    BY <1>3, <1>4, <2>2 DEF Through, S, g
<1>5. CASE n \notin S
  <2>1. SumOf(f, S) = SumOf(g, S)
    BY <1>1, <1>2, <1>5, SumOfEquals
  <2>2. SumOf(g, S) = SumOf(f, S) + 0
    BY <1>2, <2>1
  <2> QED
    BY <1>3, <1>5, <2>2 DEF Through, S, g
<1> QED
  BY <1>4, <1>5

\* The live bucket of an address: when it was opened, or would be, and what it has
\* let through at most.
Opened(ip) == IF LiveBuckets[ip] = None THEN now ELSE LiveBuckets[ip].resetAt - Window
Spent(ip) ==
  IF LiveBuckets[ip] = None THEN 0
  ELSE IF LiveBuckets[ip].count < maxAttempts THEN LiveBuckets[ip].count ELSE maxAttempts

\* One bucket's worth before the instant o the live bucket was opened at, what it
\* let through since, spent at most, and nothing later than the instant n.
TwoAt(f, o, spent, n) ==
  /\ Through(f, o - 1 - Window, o - 1) <= maxAttempts
  /\ Through(f, o, n) <= spent
  /\ \A u \in 0 .. MaxTime : n < u => f[u] = 0
  /\ \A t \in 0 .. n : Through(f, t, t + Window) <= 2 * maxAttempts

TwoBuckets(ip) == TwoAt(admitted[ip], Opened(ip), Spent(ip), now)

\* An attempt the bucket has room for.
LEMMA OneMoreInBucket ==
  ASSUME NEW f \in [0 .. MaxTime -> Nat], NEW o \in Int, NEW s \in Nat, NEW n \in 0 .. MaxTime,
         TwoAt(f, o, s, n), o <= n, n <= o + Window, s + 1 <= maxAttempts
  PROVE  TwoAt([f EXCEPT ![n] = @ + 1], o, s + 1, n)
<1> DEFINE g == [f EXCEPT ![n] = @ + 1]
<1>1. /\ g \in [0 .. MaxTime -> Nat]
      /\ \A u \in 0 .. MaxTime : u # n => g[u] = f[u]
  OBVIOUS
<1>2. ASSUME NEW a \in Int, NEW b \in Int
      PROVE  Through(g, a, b) = Through(f, a, b) + (IF a <= n /\ n <= b THEN 1 ELSE 0)
  BY <1>2, OneMoreThrough
<1>3. ASSUME NEW a \in Int, NEW b \in Int PROVE Through(f, a, b) \in Nat
  BY <1>3, ThroughIsNatural
<1> HIDE DEF g
<1>4. n \in Int /\ Window \in Nat /\ maxAttempts \in Nat
  BY LimiterAssumption
<1>5. Through(g, o - 1 - Window, o - 1) <= maxAttempts
  <2>1. o - 1 - Window \in Int /\ o - 1 \in Int /\ ~(n <= o - 1)
    BY <1>4
  <2>2. Through(g, o - 1 - Window, o - 1) = Through(f, o - 1 - Window, o - 1) + 0
    BY <1>2, <2>1
  <2>3. Through(f, o - 1 - Window, o - 1) \in Nat
    BY <1>3, <2>1
  <2>4. Through(f, o - 1 - Window, o - 1) <= maxAttempts
    BY DEF TwoAt
  <2> QED
    BY <2>2, <2>3, <2>4
<1>6. Through(g, o, n) <= s + 1
  <2>1. Through(g, o, n) = Through(f, o, n) + 1 /\ Through(f, o, n) \in Nat
    BY <1>2, <1>3, <1>4
  <2>2. Through(f, o, n) <= s
    BY DEF TwoAt
  <2> QED
    BY <2>1, <2>2
<1>7. \A u \in 0 .. MaxTime : n < u => g[u] = 0
  BY <1>1, <1>4 DEF TwoAt
<1>8. ASSUME NEW t \in 0 .. n PROVE Through(g, t, t + Window) <= 2 * maxAttempts
  <2>1. t \in Int /\ t + Window \in Int /\ t <= n
    BY <1>4
  <2>2. CASE t + Window < n
    <3>1. Through(g, t, t + Window) = Through(f, t, t + Window) + 0
      BY <1>2, <1>4, <2>1, <2>2
    <3>2. Through(f, t, t + Window) \in Nat /\ Through(f, t, t + Window) <= 2 * maxAttempts
      BY <1>3, <2>1 DEF TwoAt
    <3> QED
      BY <3>1, <3>2
  <2>3. CASE n <= t + Window
    <3>1. Through(g, t, t + Window) <= Through(g, t, o - 1) + Through(g, o, t + Window)
      BY <1>1, <2>1, CutInTwo
    <3>2. Through(g, t, o - 1) <= maxAttempts
      <4>1. o - 1 - Window <= t /\ o - 1 \in Int /\ o - 1 - Window \in Int
        BY <1>4, <2>1, <2>3
      <4>2. Through(g, t, o - 1) <= Through(g, o - 1 - Window, o - 1)
        BY <1>1, <2>1, <4>1, NarrowerIsLess
      <4>3. Through(g, t, o - 1) \in Nat /\ Through(g, o - 1 - Window, o - 1) \in Nat
        BY <1>1, <2>1, <4>1, ThroughIsNatural
      <4> QED
        BY <1>4, <1>5, <4>2, <4>3
    <3>3. Through(g, o, t + Window) <= s + 1
      <4>1. n + 1 \in Int /\ (n + 1) - 1 = n
        BY <1>4
      <4>2. Through(g, o, t + Window) <= Through(g, o, (n + 1) - 1) + Through(g, n + 1, t + Window)
        BY <1>1, <2>1, <4>1, CutInTwo
      <4>3. \A u \in Between(n + 1, t + Window) : g[u] = 0
        BY <1>4, <1>7 DEF Between
      <4>4. Through(g, n + 1, t + Window) = 0
        BY <1>1, <2>1, <4>1, <4>3, NothingThrough
      <4>5. Through(g, o, n) \in Nat /\ Through(g, o, t + Window) \in Nat
        BY <1>1, <1>4, <2>1, ThroughIsNatural
      <4> QED
        BY <1>6, <4>1, <4>2, <4>4, <4>5
    <3>4. /\ Through(g, t, t + Window) \in Nat
          /\ Through(g, t, o - 1) \in Nat
          /\ Through(g, o, t + Window) \in Nat
      <4>1. o - 1 \in Int
        OBVIOUS
      <4> QED
        BY <1>1, <2>1, <4>1, ThroughIsNatural
    <3> QED
      BY <1>4, <3>1, <3>2, <3>3, <3>4
  <2> QED
    BY <1>4, <2>1, <2>2, <2>3
<1> QED
  BY <1>5, <1>6, <1>7, <1>8 DEF TwoAt, g

\* Time passes, and the live bucket with it, or is still there.
LEMMA TimePasses ==
  ASSUME NEW f \in [0 .. MaxTime -> Nat], NEW o \in Int, NEW s \in 0 .. maxAttempts,
         NEW n \in 0 .. MaxTime, n + 1 \in 0 .. MaxTime, TwoAt(f, o, s, n), o <= n
  PROVE  /\ TwoAt(f, o, s, n + 1)
         /\ (n = o + Window) \/ (o = n /\ s = 0) => TwoAt(f, n + 1, 0, n + 1)
<1>1. n \in Int /\ n + 1 \in Int /\ Window \in Nat /\ maxAttempts \in Nat /\ s \in Nat /\ s <= maxAttempts
      /\ (n + 1) + Window \in Int
  BY LimiterAssumption
<1>2. ASSUME NEW a \in Int, NEW b \in Int PROVE Through(f, a, b) \in Nat
  BY <1>2, ThroughIsNatural
<1>3. ASSUME NEW b \in Int PROVE Through(f, n + 1, b) = 0
  <2>1. \A u \in Between(n + 1, b) : f[u] = 0
    BY <1>1 DEF TwoAt, Between
  <2> QED
    BY <1>1, <2>1, NothingThrough
<1>4. \A u \in 0 .. MaxTime : n + 1 < u => f[u] = 0
  BY <1>1 DEF TwoAt
<1>5. ASSUME NEW t \in 0 .. n + 1 PROVE Through(f, t, t + Window) <= 2 * maxAttempts
  <2>1. CASE t = n + 1
    BY <1>1, <1>3, <2>1
  <2>2. CASE t # n + 1
    <3>1. t \in 0 .. n
      BY <1>1, <2>2
    <3> QED
      BY <3>1 DEF TwoAt
  <2> QED
    BY <2>1, <2>2
<1>6. Through(f, o, n + 1) <= s
  <2>1. (n + 1) - 1 = n
    BY <1>1
  <2>2. Through(f, o, n + 1) <= Through(f, o, (n + 1) - 1) + Through(f, n + 1, n + 1)
    BY <1>1, CutInTwo
  <2>3. Through(f, o, n) <= s /\ Through(f, o, n) \in Nat /\ Through(f, o, n + 1) \in Nat
    BY <1>1, <1>2 DEF TwoAt
  <2>4. Through(f, n + 1, n + 1) = 0
    BY <1>1, <1>3
  <2> QED
    BY <1>1, <2>1, <2>2, <2>3, <2>4
<1>7. TwoAt(f, o, s, n + 1)
  BY <1>4, <1>5, <1>6 DEF TwoAt
<1>8. ASSUME (n = o + Window) \/ (o = n /\ s = 0) PROVE TwoAt(f, n + 1, 0, n + 1)
  <2>1. (n + 1) - 1 = n /\ (n + 1) - 1 - Window = n - Window /\ n - Window \in Int
    BY <1>1
  <2>2. Through(f, n - Window, n) <= maxAttempts
    <3>1. CASE n = o + Window
      <4>1. n - Window = o
        BY <1>1, <3>1
      <4>2. Through(f, o, n) <= s /\ Through(f, o, n) \in Nat
        BY <1>1, <1>2 DEF TwoAt
      <4> QED
        BY <1>1, <4>1, <4>2
    <3>2. CASE o = n /\ s = 0
      <4>1. n - 1 \in Int /\ n - 1 - Window \in Int /\ n - 1 - Window <= n - Window
        BY <1>1
      <4>2. Through(f, n - Window, n) <= Through(f, n - Window, n - 1) + Through(f, n, n)
        BY <1>1, <2>1, CutInTwo
      <4>3. Through(f, n - Window, n - 1) <= Through(f, n - 1 - Window, n - 1)
        BY <2>1, <4>1, NarrowerIsLess
      <4>4. Through(f, n - 1 - Window, n - 1) <= maxAttempts /\ Through(f, n, n) <= 0
        BY <3>2 DEF TwoAt
      <4>5. /\ Through(f, n - Window, n) \in Nat /\ Through(f, n - Window, n - 1) \in Nat
            /\ Through(f, n, n) \in Nat /\ Through(f, n - 1 - Window, n - 1) \in Nat
        BY <1>1, <1>2, <2>1, <4>1
      <4> QED
        BY <1>1, <4>2, <4>3, <4>4, <4>5
    <3> QED
      BY <1>8, <3>1, <3>2
  <2>3. Through(f, n + 1, n + 1) <= 0
    BY <1>1, <1>3
  <2> QED
    BY <1>4, <1>5, <2>1, <2>2, <2>3 DEF TwoAt
<1> QED
  BY <1>7, <1>8

\* What the invariant says of an address's live bucket.
LiveTyped(ip) ==
  /\ now \in 0 .. MaxTime /\ now \in Nat
  /\ admitted[ip] \in [0 .. MaxTime -> Nat]
  /\ LiveBuckets[ip] # None =>
       /\ LiveBuckets[ip].count \in Nat /\ LiveBuckets[ip].resetAt \in Nat
       /\ now <= LiveBuckets[ip].resetAt /\ LiveBuckets[ip].resetAt <= now + Window
  /\ Opened(ip) \in Int /\ Opened(ip) <= now /\ now <= Opened(ip) + Window
  /\ Spent(ip) \in 0 .. maxAttempts

\* A live bucket has a count, and ends within a window from now.
LEMMA LiveTypes ==
  ASSUME IInv, NEW ip \in IPs
  PROVE  LiveTyped(ip)
<1>1. now \in 0 .. MaxTime /\ now \in Nat /\ admitted[ip] \in [0 .. MaxTime -> Nat]
  BY LimiterAssumption DEF IInv, TypeOK
<1>2. LiveBuckets[ip] # None =>
        /\ LiveBuckets[ip].count \in Nat /\ LiveBuckets[ip].resetAt \in Nat
        /\ now <= LiveBuckets[ip].resetAt /\ LiveBuckets[ip].resetAt <= now + Window
  <2>1. LiveBuckets[ip] = IF buckets[ip] # None /\ ~Expired(ip) THEN buckets[ip] ELSE None
    BY DEF LiveBuckets
  <2>2. buckets[ip] # None => buckets[ip].count \in Nat /\ buckets[ip].resetAt \in Nat
    BY BucketForType DEF IInv, Bucket
  <2>3. buckets[ip] # None => buckets[ip].resetAt <= now + Window
    BY DEF IInv, EntryInv
  <2> QED
    BY <1>1, <2>1, <2>2, <2>3 DEF Expired
<1>3. Opened(ip) \in Int /\ Opened(ip) <= now /\ now <= Opened(ip) + Window
  <2>1. CASE LiveBuckets[ip] = None
    BY <1>1, <2>1, LimiterAssumption DEF Opened
  <2>2. CASE LiveBuckets[ip] # None
    BY <1>1, <1>2, <2>2, LimiterAssumption DEF Opened
  <2> QED
    BY <2>1, <2>2
<1>4. Spent(ip) \in 0 .. maxAttempts
  BY <1>2, LimiterAssumption DEF Spent
<1> QED
  BY <1>1, <1>2, <1>3, <1>4 DEF LiveTyped

\* So it is after a step.
LEMMA LiveTypesNext ==
  /\ IInv => \A ip \in IPs : LiveTyped(ip)
  /\ IInv' => \A ip \in IPs : LiveTyped(ip)'
<1>1. IInv => \A ip \in IPs : LiveTyped(ip)
  BY LiveTypes
<1>2. IInv' => (\A ip \in IPs : LiveTyped(ip))'
  BY <1>1, PTL
<1> QED
  BY <1>1, <1>2

\* It holds at the start.
LEMMA TwoBucketsInit ==
  ASSUME Init, NEW ip \in IPs
  PROVE  TwoBuckets(ip)
<1> DEFINE f == [t \in 0 .. MaxTime |-> 0]
<1>1. f \in [0 .. MaxTime -> Nat] /\ \A u \in 0 .. MaxTime : f[u] = 0
  OBVIOUS
<1>2. admitted[ip] = f /\ now = 0 /\ Opened(ip) = 0 /\ Spent(ip) = 0
  BY DEF Init, LiveBuckets, Opened, Spent
<1> HIDE DEF f
<1>3. ASSUME NEW a \in Int, NEW b \in Int PROVE Through(f, a, b) = 0
  <2>1. \A u \in Between(a, b) : f[u] = 0
    BY <1>1 DEF Between
  <2> QED
    BY <1>1, <2>1, NothingThrough
<1>4. maxAttempts \in Nat /\ 0 - 1 - Window \in Int /\ 0 - 1 \in Int /\ Window \in Int
  BY LimiterAssumption
<1>5. ASSUME NEW t \in 0 .. 0 PROVE Through(f, t, t + Window) <= 2 * maxAttempts
  <2>1. t \in Int /\ t + Window \in Int
    BY <1>4
  <2> QED
    BY <1>3, <1>4, <2>1
<1>6. Through(f, 0 - 1 - Window, 0 - 1) <= maxAttempts /\ Through(f, 0, 0) <= 0
  BY <1>3, <1>4
<1>7. TwoAt(f, 0, 0, 0)
  BY <1>1, <1>5, <1>6 DEF TwoAt
<1> QED
  BY <1>2, <1>7 DEF TwoBuckets

\* Every step keeps it.
LEMMA TwoBucketsStep ==
  ASSUME IInv, [Next]_vars, NEW ip \in IPs, TwoBuckets(ip)
  PROVE  TwoBuckets(ip)'
<1> DEFINE f == admitted[ip]
           o == Opened(ip)
           s == Spent(ip)
<1>1. IInv' /\ [Live!Next]_(Live!vars)
  BY IInvStep, LiveStep DEF IInv
<1>2. LiveTyped(ip) /\ LiveTyped(ip)'
  BY <1>1, LiveTypesNext
<1>3. f \in [0 .. MaxTime -> Nat] /\ o \in Int /\ o <= now /\ now <= o + Window
      /\ s \in 0 .. maxAttempts /\ s \in Nat /\ now \in 0 .. MaxTime /\ now \in Int
      /\ TwoAt(f, o, s, now) /\ Window \in Nat /\ maxAttempts \in Nat \ {0}
  <2>1. TwoAt(f, o, s, now)
    BY DEF TwoBuckets
  <2>2. f \in [0 .. MaxTime -> Nat] /\ o \in Int /\ o <= now /\ now <= o + Window
        /\ s \in 0 .. maxAttempts /\ now \in 0 .. MaxTime
    BY <1>2 DEF LiveTyped
  <2> HIDE DEF f, o, s
  <2> QED
    BY <2>1, <2>2, LimiterAssumption
<1>4. CASE UNCHANGED <<now, LiveBuckets, admitted>>
  BY <1>3, <1>4 DEF TwoBuckets, Opened, Spent
<1>5. CASE Live!Tick
  <2>1. now' = now + 1 /\ admitted' = admitted /\ now + 1 \in 0 .. MaxTime
    BY <1>2, <1>5 DEF Live!Tick, LiveTyped
  <2>2. LiveBuckets'[ip] = IF LiveBuckets[ip] # None /\ LiveBuckets[ip].resetAt < now + 1 THEN None
                           ELSE LiveBuckets[ip]
    BY <1>5 DEF Live!Tick
  <2>3. CASE LiveBuckets'[ip] # None
    <3>1. Opened(ip)' = o /\ Spent(ip)' = s
      BY <2>2, <2>3 DEF Opened, Spent
    <3>2. TwoAt(f, o, s, now + 1)
      BY <1>3, <2>1, TimePasses
    <3> QED
      BY <2>1, <3>1, <3>2 DEF TwoBuckets
  <2>4. CASE LiveBuckets'[ip] = None
    <3>1. Opened(ip)' = now + 1 /\ Spent(ip)' = 0
      BY <2>1, <2>4 DEF Opened, Spent
    <3>2. (now = o + Window) \/ (o = now /\ s = 0)
      <4>1. CASE LiveBuckets[ip] = None
        BY <4>1 DEF Opened, Spent
      <4>2. CASE LiveBuckets[ip] # None
        <5>1. LiveBuckets[ip].resetAt < now + 1 /\ LiveBuckets[ip].resetAt \in Nat
              /\ now <= LiveBuckets[ip].resetAt
          BY <1>2, <2>2, <2>4, <4>2 DEF LiveTyped
        <5>2. o = LiveBuckets[ip].resetAt - Window
          BY <4>2 DEF Opened
        <5> HIDE DEF o
        <5> QED
          BY <1>3, <5>1, <5>2
      <4> QED
        BY <4>1, <4>2
    <3> HIDE DEF f, o, s
    <3>3. TwoAt(f, now + 1, 0, now + 1)
      BY <1>3, <2>1, <3>2, TimePasses
    <3> USE DEF f
    <3> QED
      BY <2>1, <3>1, <3>3 DEF TwoBuckets
  <2> QED
    BY <2>3, <2>4
<1>6. ASSUME NEW other \in IPs, Live!Attempt(other), other # ip PROVE TwoBuckets(ip)'
  <2>1. now' = now /\ LiveBuckets'[ip] = LiveBuckets[ip] /\ admitted'[ip] = admitted[ip]
    BY <1>6 DEF Live!Attempt, IInv, TypeOK
  <2> QED
    BY <1>3, <2>1 DEF TwoBuckets, Opened, Spent
<1>7. CASE Live!Attempt(ip)
  <2> DEFINE b == Live!Open(ip)
  <2>1. now' = now /\ LiveBuckets'[ip] = [count |-> b.count + 1, resetAt |-> b.resetAt]
    BY <1>7 DEF Live!Attempt, LiveBuckets
  <2>2. /\ b.count \in Nat /\ b.resetAt \in Nat /\ b.resetAt - Window = o
        /\ s = (IF b.count < maxAttempts THEN b.count ELSE maxAttempts)
    <3>1. CASE LiveBuckets[ip] = None
      <4>1. b = [count |-> 0, resetAt |-> now + Window]
        BY <3>1 DEF Live!Open
      <4>2. o = now /\ s = 0
        BY <3>1 DEF Opened, Spent
      <4> HIDE DEF b, o, s
      <4> QED
        BY <1>3, <4>1, <4>2
    <3>2. CASE LiveBuckets[ip] # None
      <4>1. b = LiveBuckets[ip]
        BY <3>2 DEF Live!Open
      <4> HIDE DEF b
      <4> QED
        BY <1>2, <3>2, <4>1 DEF LiveTyped, Opened, Spent
    <3> QED
      BY <3>1, <3>2
  <2>3. admitted'[ip] = IF b.count + 1 <= maxAttempts THEN [f EXCEPT ![now] = @ + 1] ELSE f
    BY <1>7 DEF Live!Attempt, IInv, TypeOK
  <2> HIDE DEF b, f, o, s
  <2>4. /\ Opened(ip)' = o
        /\ Spent(ip)' = IF b.count + 1 < maxAttempts THEN b.count + 1 ELSE maxAttempts
    <3>1. LiveBuckets'[ip] # None
      BY <2>1, <2>2, LimiterAssumption
    <3> QED
      BY <2>1, <2>2, <3>1 DEF Opened, Spent
  <2>5. CASE b.count + 1 <= maxAttempts
    <3>1. s + 1 <= maxAttempts /\ Spent(ip)' = s + 1
      BY <1>3, <2>2, <2>4, <2>5
    <3>2. TwoAt([f EXCEPT ![now] = @ + 1], o, s + 1, now)
      BY <1>3, <3>1, OneMoreInBucket
    <3> QED
      BY <2>1, <2>3, <2>4, <2>5, <3>1, <3>2 DEF TwoBuckets
  <2>6. CASE ~(b.count + 1 <= maxAttempts)
    <3>1. Spent(ip)' = maxAttempts /\ s <= maxAttempts
      BY <1>3, <2>2, <2>4, <2>6
    <3>2. Through(f, o, now) \in Nat
      BY <1>3, ThroughIsNatural
    <3>3. TwoAt(f, o, maxAttempts, now)
      BY <1>3, <3>1, <3>2 DEF TwoAt
    <3> QED
      BY <2>1, <2>3, <2>4, <2>6, <3>1, <3>3 DEF TwoBuckets
  <2> QED
    BY <2>5, <2>6
<1> QED
  BY <1>1, <1>4, <1>5, <1>6, <1>7 DEF Live!Next, Live!vars

\* No stretch of one Window lets through more than two buckets' worth.
THEOREM TwoBucketsAtMost == Spec => []AtMostTwoBuckets
<1> DEFINE Both == IInv /\ \A ip \in IPs : TwoBuckets(ip)
<1>1. Init => Both
  BY InitIInv, TwoBucketsInit
<1>2. Both /\ [Next]_vars => Both'
  <2> SUFFICES ASSUME Both, [Next]_vars PROVE Both'
    OBVIOUS
  <2>1. IInv'
    BY IInvStep
  <2>2. ASSUME NEW ip \in IPs PROVE TwoBuckets(ip)'
    BY TwoBucketsStep
  <2> QED
    BY <2>1, <2>2
<1>3. Both => AtMostTwoBuckets
  <2> SUFFICES ASSUME Both, NEW ip \in IPs, NEW t \in 0 .. now
               PROVE  AdmittedFrom(ip, t) <= 2 * maxAttempts
    BY DEF AtMostTwoBuckets
  <2>1. AdmittedFrom(ip, t) = Through(admitted[ip], t, t + Window)
    BY DEF AdmittedFrom, Through, SumOf, Between
  <2>2. Through(admitted[ip], t, t + Window) <= 2 * maxAttempts
    BY DEF TwoBuckets, TwoAt
  <2> QED
    BY <2>1, <2>2
<1> HIDE DEF Both
<1> QED
  BY <1>1, <1>2, <1>3, PTL DEF Spec
===============================================================================
