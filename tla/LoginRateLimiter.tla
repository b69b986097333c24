--------------------------- MODULE LoginRateLimiter ---------------------------
(***************************************************************************)
(* The per-address limiter on POST /api/login of middleware/ratelimit.go:  *)
(* a bucket per address that counts attempts and expires one Window after  *)
(* it was opened, and a janitor that deletes expired buckets.              *)
(*                                                                         *)
(* The clock is discrete and only advances in Tick; any number of attempts *)
(* may share an instant. The section under rl.mu is one action.            *)
(***************************************************************************)
EXTENDS Integers, FiniteSets, FiniteSetsExt

CONSTANTS
  IPs,          \* extractIP's results
  maxAttempts,
  Window,       \* rl.window (one minute)
  SweepEvery,   \* the janitor's ticker (two minutes)
  MaxTime,      \* bound on the clock
  MaxTries,     \* bound on the attempts of an address at one instant
  None

ASSUME LimiterAssumption ==
  /\ maxAttempts \in Nat \ {0}
  /\ Window \in Nat \ {0}
  /\ SweepEvery \in Nat \ {0}
  /\ MaxTime \in Nat /\ MaxTries \in Nat
  /\ None \notin Nat
  /\ None \notin [count : Nat, resetAt : Nat]

VARIABLES
  now,
  buckets,       \* rl.buckets
  nextSweep,     \* when the janitor's ticker fires next
  admitted,      \* history: attempts let through, per address and instant
  tries,         \* history: attempts of each address at this instant
  refusedSince,  \* history: the first refusal since the last admission
  refusedLast    \* history: the last refusal since the last admission

vars == <<now, buckets, nextSweep, admitted, tries, refusedSince, refusedLast>>

Init ==
  /\ now = 0
  /\ buckets = [ip \in IPs |-> None]
  /\ nextSweep = SweepEvery
  /\ admitted = [ip \in IPs |-> [t \in 0 .. MaxTime |-> 0]]
  /\ tries = [ip \in IPs |-> 0]
  /\ refusedSince = [ip \in IPs |-> None]
  /\ refusedLast = [ip \in IPs |-> None]

\* Mistake: the age is counted from now on, not from the opening.
ExpiredEarly(ip) == now > buckets[ip].resetAt - Window

\* now.After(b.resetAt)
Expired(ip) == now > buckets[ip].resetAt

\* Mistake: every attempt prolongs the window.
BucketForProlonged(ip) ==
  [count |-> IF buckets[ip] = None \/ Expired(ip) THEN 0 ELSE buckets[ip].count,
   resetAt |-> now + Window]

\* The bucket an attempt is counted in, before it is counted.
BucketFor(ip) ==
  IF buckets[ip] = None \/ Expired(ip)
    THEN [count |-> 0, resetAt |-> now + Window]
    ELSE buckets[ip]

\* A POST to /api/login.
Attempt(ip) ==
  /\ tries[ip] < MaxTries
  /\ tries' = [tries EXCEPT ![ip] = @ + 1]
  /\ LET b == BucketFor(ip)
         count == b.count + 1
     IN  /\ buckets' = [buckets EXCEPT ![ip] = [b EXCEPT !.count = count]]
         /\ IF count > maxAttempts
              THEN \* 429, Retry-After: one Window
                   /\ refusedSince' = [refusedSince EXCEPT ![ip] = IF @ = None THEN now ELSE @]
                   /\ refusedLast' = [refusedLast EXCEPT ![ip] = now]
                   /\ UNCHANGED admitted
              ELSE /\ admitted' = [admitted EXCEPT ![ip][now] = @ + 1]
                   /\ refusedSince' = [refusedSince EXCEPT ![ip] = None]
                   /\ refusedLast' = [refusedLast EXCEPT ![ip] = None]
  /\ UNCHANGED <<now, nextSweep>>

\* Mistakes: the janitor keeps everything, or deletes everything.
SweptNever(ip) == buckets[ip]
SweptAlways(ip) == None

\* What the janitor leaves of an entry: nothing, when it has expired.
Swept(ip) == IF buckets[ip] # None /\ Expired(ip) THEN None ELSE buckets[ip]

\* janitor: the ticker fires.
Sweep ==
  /\ now = nextSweep
  /\ nextSweep' = now + SweepEvery
  /\ buckets' = [ip \in IPs |-> Swept(ip)]
  /\ UNCHANGED <<now, admitted, tries, refusedSince, refusedLast>>

\* Time passes; the janitor is not late.
Tick ==
  /\ now < MaxTime
  /\ now < nextSweep
  /\ now' = now + 1
  /\ tries' = [ip \in IPs |-> 0]
  /\ UNCHANGED <<buckets, nextSweep, admitted, refusedSince, refusedLast>>

Next == Tick \/ Sweep \/ \E ip \in IPs : Attempt(ip)

Spec == Init /\ [][Next]_vars

-------------------------------------------------------------------------------
(* Correctness.                                                            *)

\* The variables hold values of their types.
TypeOK ==
  /\ now \in 0 .. MaxTime
  /\ buckets \in [IPs -> [count : Nat, resetAt : Nat] \cup {None}]
  /\ nextSweep \in Nat
  /\ admitted \in [IPs -> [0 .. MaxTime -> Nat]]
  /\ tries \in [IPs -> Nat]
  /\ refusedSince \in [IPs -> Nat \cup {None}]
  /\ refusedLast \in [IPs -> Nat \cup {None}]

\* Attempts of ip that were let through from t to t + Window, both included.
AdmittedFrom(ip, t) ==
  MapThenSumSet(LAMBDA u : admitted[ip][u], {u \in 0 .. MaxTime : t <= u /\ u <= t + Window})

\* No stretch of one Window lets through more than two buckets' worth, however
\* attempts, expiries and sweeps fall.
AtMostTwoBuckets ==
  \A ip \in IPs : \A t \in 0 .. now : AdmittedFrom(ip, t) <= 2 * maxAttempts

\* What the comments promise: a sliding window of one minute, so that no
\* stretch of one Window lets through more than maxAttempts.
SlidingWindow ==
  \A ip \in IPs : \A t \in 0 .. now : AdmittedFrom(ip, t) <= maxAttempts

\* A client that keeps trying while it is refused does not prolong its wait:
\* an unbroken run of refusals never lasts longer than one Window.
LockoutEnds ==
  \A ip \in IPs :
    refusedSince[ip] # None => refusedLast[ip] - refusedSince[ip] <= Window

\* The map does not grow with the addresses ever seen: an entry outlives its
\* expiry by less than two sweeps.
BucketsAreRecent ==
  \A ip \in IPs : buckets[ip] # None => now <= buckets[ip].resetAt + SweepEvery

\* What an entry owes to the clock, to the last sweep and to the run of
\* refusals it caused.
EntryInv(ip) ==
  /\ buckets[ip] # None =>
       /\ buckets[ip].resetAt <= now + Window
       /\ buckets[ip].resetAt + SweepEvery >= nextSweep
  /\ refusedSince[ip] # None =>
       /\ refusedSince[ip] <= now
       /\ refusedLast[ip] # None
       /\ refusedLast[ip] - refusedSince[ip] <= Window
       /\ buckets[ip] # None /\ ~Expired(ip) =>
            /\ buckets[ip].count > maxAttempts
            /\ buckets[ip].resetAt <= refusedSince[ip] + Window

\* The inductive invariant behind LockoutEnds and BucketsAreRecent.
IInv ==
  /\ TypeOK
  /\ now <= nextSweep
  /\ nextSweep <= now + SweepEvery
  /\ \A ip \in IPs : EntryInv(ip)

-------------------------------------------------------------------------------
(* The janitor only saves memory: with it or without it, the same attempts *)
(* are let through. An expired bucket is the same as no bucket.            *)

LiveBuckets ==
  [ip \in IPs |-> IF buckets[ip] # None /\ ~Expired(ip) THEN buckets[ip] ELSE None]

Live == INSTANCE FixedWindow WITH bucket <- LiveBuckets

JanitorInvisible == Live!Spec
===============================================================================
