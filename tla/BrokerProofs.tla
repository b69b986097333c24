----------------------------- MODULE BrokerProofs -----------------------------
(***************************************************************************)
(* Proofs about the broker, for every set of connections, ring size,       *)
(* channel capacity and number of ticks.                                   *)
(***************************************************************************)
EXTENDS Broker, TLAPS

-------------------------------------------------------------------------------
(* Facts about queues and about the ring's indices.                        *)

\* Moving the head of a queue to the end of what was already taken from it
\* leaves the two together as they were.
LEMMA TakeFromQueue ==
  ASSUME NEW S, NEW f \in Seq(S), NEW q \in Seq(S), q # <<>>
  PROVE  Append(f, Head(q)) \o Tail(q) = f \o q
OBVIOUS

\* Reducing an index that is less than one turn ahead.
LEMMA WrapAround ==
  ASSUME NEW R \in Nat \ {0}, NEW x \in 0 .. 2 * R - 1
  PROVE  x % R = IF x < R THEN x ELSE x - R
OBVIOUS

\* The slot after the head, and the slot before it.
LEMMA SlotsAroundHead ==
  ASSUME head \in 0 .. RingSize - 1
  PROVE  /\ (head + 1) % RingSize = IF head + 1 < RingSize THEN head + 1 ELSE 0
         /\ LastSlot = IF head = 0 THEN RingSize - 1 ELSE head - 1
<1> DEFINE next == head + 1
           last == head - 1 + RingSize
<1>1. next \in 0 .. 2 * RingSize - 1 /\ last \in 0 .. 2 * RingSize - 1
  BY BrokerAssumption
<1> HIDE DEF next, last
<1>2. next % RingSize = IF next < RingSize THEN next ELSE next - RingSize
  BY <1>1, BrokerAssumption, WrapAround
<1>3. last % RingSize = IF last < RingSize THEN last ELSE last - RingSize
  BY <1>1, BrokerAssumption, WrapAround
<1>4. QED
  BY <1>2, <1>3, BrokerAssumption DEF next, last, LastSlot

-------------------------------------------------------------------------------
(* Type correctness.                                                       *)

\* Every step keeps the types.
LEMMA TypeOKStep == TypeOK /\ [Next]_vars => TypeOK'
<1> SUFFICES ASSUME TypeOK, [Next]_vars PROVE TypeOK'
  OBVIOUS
<1> USE BrokerAssumption DEF TypeOK, Handler, Snapshots, loopVars, streamVars
<1>1. CASE Collect
  BY <1>1 DEF Collect
<1>2. CASE Publish
  <2>1. collected \in Snapshots
    BY <1>2 DEF Publish, Store
  <2>2. (head + 1) % RingSize \in 0 .. RingSize - 1
    BY SlotsAroundHead
  <2>3. ASSUME NEW c \in Clients PROVE Offer(chan[c], collected) \in Seq(Snapshots)
    <3>1. chan[c] \in Seq(Snapshots)
      OBVIOUS
    <3>2. Append(chan[c], collected) \in Seq(Snapshots)
      BY <2>1, <3>1
    <3>3. QED
      BY <3>1, <3>2 DEF Offer
  <2>4. QED
    BY <1>2, <2>1, <2>2, <2>3 DEF Publish, Store
<1>3. ASSUME NEW c \in Clients, Subscribe(c) PROVE TypeOK'
  BY <1>3 DEF Subscribe
<1>4. ASSUME NEW c \in Clients, ReadLast(c) PROVE TypeOK'
  <2>1. LastSlot \in 0 .. RingSize - 1
    BY SlotsAroundHead
  <2>2. ring[LastSlot] \in 0 .. MaxTicks
    BY <2>1
  <2>3. QED
    BY <1>4, <2>2 DEF ReadLast
<1>5. ASSUME NEW c \in Clients, Receive(c) PROVE TypeOK'
  <2>1. /\ chan[c] \in Seq(1 .. MaxTicks) /\ chan[c] # <<>>
        /\ fed[c] \in Seq(1 .. MaxTicks)
    BY <1>5 DEF Receive
  <2>2. /\ Tail(chan[c]) \in Seq(1 .. MaxTicks)
        /\ Append(fed[c], Head(chan[c])) \in Seq(1 .. MaxTicks)
    <3>1. ASSUME NEW f \in Seq(1 .. MaxTicks), NEW q \in Seq(1 .. MaxTicks), q # <<>>
          PROVE  Tail(q) \in Seq(1 .. MaxTicks) /\ Append(f, Head(q)) \in Seq(1 .. MaxTicks)
      BY <3>1
    <3>2. QED
      BY <2>1, <3>1
  <2>3. chan' \in [Clients -> Seq(1 .. MaxTicks)]
    <3>1. chan' = [chan EXCEPT ![c] = Tail(chan[c])] /\ chan \in [Clients -> Seq(1 .. MaxTicks)]
      BY <1>5 DEF Receive
    <3>2. QED
      BY <2>2, <3>1
  <2>4. fed' \in [Clients -> Seq(1 .. MaxTicks)]
    <3>1. /\ fed' = [fed EXCEPT ![c] = Append(fed[c], Head(chan[c]))]
          /\ fed \in [Clients -> Seq(1 .. MaxTicks)]
      BY <1>5 DEF Receive
    <3>2. QED
      BY <2>2, <3>1
  <2>5. pc' \in [Clients -> {"away", "subscribed", "writing", "waiting"}]
    BY <1>5 DEF Receive
  <2>6. UNCHANGED <<ring, head, count, collected, published, clients, gone, joined, hello>>
    BY <1>5 DEF Receive
  <2>7. QED
    BY <2>3, <2>4, <2>5, <2>6
<1>6. ASSUME NEW c \in Clients, FinishWrite(c) PROVE TypeOK'
  BY <1>6 DEF FinishWrite
<1>7. ASSUME NEW c \in Clients, HangUp(c) PROVE TypeOK'
  BY <1>7 DEF HangUp
<1>8. ASSUME NEW c \in Clients, Leave(c) PROVE TypeOK'
  BY <1>8 DEF Leave
<1>9. CASE UNCHANGED vars
  BY <1>9 DEF vars
<1>10. QED
  BY <1>1, <1>2, <1>3, <1>4, <1>5, <1>6, <1>7, <1>8, <1>9 DEF Next

\* Every variable keeps its type.
THEOREM TypeCorrect == Spec => []TypeOK
<1>1. Init => TypeOK
  BY BrokerAssumption DEF Init, TypeOK, Handler
<1>2. QED
  BY <1>1, TypeOKStep, PTL DEF Spec

-------------------------------------------------------------------------------
(* What each action does to a handler's pipeline.                          *)

\* A broadcast adds the new snapshot to the pipeline of a subscriber whose
\* channel has room, and changes no other pipeline.
LEMMA PublishPipeline ==
  ASSUME TypeOK, Publish, NEW c \in Clients
  PROVE  /\ Pipeline(c)' = IF c \in clients /\ Len(chan[c]) < ChanCap
                             THEN Append(Pipeline(c), collected) ELSE Pipeline(c)
         /\ collected \in Snapshots
<1>1. collected \in Snapshots
  BY DEF TypeOK, Publish, Store, Snapshots
<1>2. /\ fed'[c] = fed[c]
      /\ chan'[c] = IF c \in clients /\ Len(chan[c]) < ChanCap
                      THEN Append(chan[c], collected) ELSE chan[c]
  BY DEF Publish, Store, Offer, TypeOK, streamVars
<1>3. fed[c] \in Seq(Snapshots) /\ chan[c] \in Seq(Snapshots)
  BY DEF TypeOK
<1>4. fed[c] \o Append(chan[c], collected) = Append(fed[c] \o chan[c], collected)
  <2>1. ASSUME NEW f \in Seq(Snapshots), NEW q \in Seq(Snapshots)
        PROVE  f \o Append(q, collected) = Append(f \o q, collected)
    BY <1>1
  <2>2. QED
    BY <1>3, <2>1
<1>5. QED
  BY <1>1, <1>2, <1>4 DEF Pipeline

\* Taking a snapshot from the channel moves it within the pipeline.
LEMMA ReceivePipeline ==
  ASSUME TypeOK, NEW d \in Clients, Receive(d), NEW c \in Clients
  PROVE  Pipeline(c)' = Pipeline(c)
<1>1. fed[d] \in Seq(Snapshots) /\ chan[d] \in Seq(Snapshots) /\ chan[d] # <<>>
  BY DEF TypeOK, Receive
<1>2. Append(fed[d], Head(chan[d])) \o Tail(chan[d]) = fed[d] \o chan[d]
  <2>1. ASSUME NEW f \in Seq(Snapshots), NEW q \in Seq(Snapshots), q # <<>>
        PROVE  Append(f, Head(q)) \o Tail(q) = f \o q
    BY <2>1, TakeFromQueue
  <2>2. QED
    BY <1>1, <2>1
<1>3. CASE c = d
  BY <1>2, <1>3 DEF Receive, Pipeline, TypeOK
<1>4. CASE c # d
  BY <1>4 DEF Receive, Pipeline, TypeOK
<1>5. QED
  BY <1>3, <1>4

\* A pipeline is a sequence of snapshots.
LEMMA PipelineType ==
  ASSUME TypeOK, NEW c \in Clients
  PROVE  /\ Pipeline(c) \in Seq(Snapshots)
         /\ Len(Pipeline(c)) = Len(fed[c]) + Len(chan[c])
         /\ fed[c] = <<>> => Pipeline(c) = chan[c]
BY DEF TypeOK, Pipeline

-------------------------------------------------------------------------------
(* The inductive invariant.                                                *)

\* The invariant holds at the start.
LEMMA InitIInv == Init => IInv
<1> SUFFICES ASSUME Init PROVE IInv
  OBVIOUS
<1>1. TypeOK
  BY BrokerAssumption DEF Init, TypeOK, Handler
<1>2. \A c \in Clients : Pipeline(c) = <<>>
  <2>1. <<>> \o <<>> = <<>>
    OBVIOUS
  <2>2. QED
    BY <2>1 DEF Init, Pipeline
<1>3. QED
  BY <1>1, <1>2, BrokerAssumption
  DEF Init, IInv, LoopBounds, SlotsHoldTheirAge, Age, SubscribedIffServed, FeedInOrder,
      FirstSnapshotsKept, StepBackBounded, HandlerBounds

\* The slot before the head holds the last published snapshot.
LEMMA NewestSlot ==
  ASSUME TypeOK, SlotsHoldTheirAge, count > 0
  PROVE  ring[LastSlot] = published
<1>1. LastSlot = IF head = 0 THEN RingSize - 1 ELSE head - 1
  BY SlotsAroundHead DEF TypeOK
<1>2. LastSlot \in 0 .. RingSize - 1
  BY <1>1, BrokerAssumption DEF TypeOK
<1>3. \A k \in 0 .. RingSize - 1 :
        (k = IF head = 0 THEN RingSize - 1 ELSE head - 1) => Age(k) = 0
  BY BrokerAssumption DEF TypeOK, Age
<1>4. \A k \in 0 .. RingSize - 1 : Age(k) = 0 => ring[k] = published
  BY DEF TypeOK, SlotsHoldTheirAge
<1>5. QED
  BY <1>1, <1>2, <1>3, <1>4

\* Going back i slots from the head, as the code indexes the ring, meets the
\* slot written i ticks ago.
LEMMA AgesAreDistances ==
  ASSUME TypeOK, SlotsHoldTheirAge
  PROVE  RingHoldsLatest
<1>1. ASSUME NEW i \in 0 .. count - 1
      PROVE  ring[(head - 1 - i + RingSize) % RingSize] = published - i
  <2> DEFINE x == head - 1 - i + RingSize
             k == x % RingSize
  <2>1. x \in 0 .. 2 * RingSize - 1 /\ i \in Nat
    BY BrokerAssumption DEF TypeOK
  <2> HIDE DEF x
  <2>2. k = IF x < RingSize THEN x ELSE x - RingSize
    BY <2>1, BrokerAssumption, WrapAround
  <2>3. k \in 0 .. RingSize - 1
    BY <2>1, <2>2, BrokerAssumption
  <2> HIDE DEF k
  <2>4. Age(k) = i
    BY <2>1, <2>2, <2>3, BrokerAssumption DEF Age, TypeOK, x
  <2>5. ring[k] = published - i
    BY <1>1, <2>3, <2>4 DEF SlotsHoldTheirAge, TypeOK
  <2>6. QED
    BY <2>5 DEF k, x
<1>2. QED
  BY <1>1 DEF RingHoldsLatest, SlotsHoldTheirAge

\* Storing a snapshot makes every slot one tick older but the one it goes to.
LEMMA PublishRing ==
  ASSUME IInv, Publish
  PROVE  SlotsHoldTheirAge'
<1> USE BrokerAssumption DEF IInv, TypeOK, LoopBounds, SlotsHoldTheirAge
<1>1. head' = IF head + 1 < RingSize THEN head + 1 ELSE 0
  BY SlotsAroundHead DEF Publish, Store
<1>2. published' = published + 1
  BY DEF Publish, Store
<1>3. count' = IF published' < RingSize THEN published' ELSE RingSize
  BY <1>2 DEF Publish, Store
<1>4. ASSUME NEW k \in 0 .. RingSize - 1, Age(k)' < count'
      PROVE  ring'[k] = published' - Age(k)'
  <2>1. CASE k = head
    <3>1. Age(k)' = 0
      BY <1>1, <2>1 DEF Age
    <3>2. ring'[k] = collected /\ published' = collected
      BY <2>1 DEF Publish, Store
    <3>3. QED
      BY <3>1, <3>2
  <2>2. CASE k # head
    <3>1. Age(k)' = Age(k) + 1
      BY <1>1, <2>2 DEF Age
    <3>2. ring'[k] = ring[k]
      BY <2>2 DEF Publish, Store
    <3>3. Age(k) < count
      BY <1>2, <1>3, <1>4, <3>1 DEF Age
    <3>4. Age(k) \in Int
      BY DEF Age
    <3>5. QED
      BY <1>2, <3>1, <3>2, <3>3, <3>4
  <2>3. QED
    BY <2>1, <2>2
<1>5. QED
  BY <1>3, <1>4

-------------------------------------------------------------------------------
(* The stream of one handler, as a fact about four values: its pipeline p, *)
(* what was published when it joined (j), its greeting (h) and what is     *)
(* published now (n).                                                      *)

StreamOK(p, j, h, n) ==
  /\ \A i, k \in 1 .. Len(p) : i < k => p[i] < p[k]
  /\ \A i \in 1 .. Len(p) : j < p[i] /\ p[i] <= n
  /\ j <= n /\ h <= n
  /\ h # 0 => h >= j /\ \A i \in 1 .. Len(p) : p[i] <= h => i <= ChanCap

StreamKept(p, j, n) ==
  /\ \A i \in 1 .. Len(p) : i <= ChanCap => p[i] = j + i
  /\ Len(p) < ChanCap => n = j + Len(p)

\* Snapshots are numbered by naturals.
LEMMA SnapshotsAreNumbers ==
  \A p \in Seq(Snapshots) : \A i \in 1 .. Len(p) : p[i] \in Nat
<1>1. \A p \in Seq(Snapshots) : \A i \in 1 .. Len(p) : p[i] \in Snapshots
  OBVIOUS
<1>2. QED
  BY <1>1 DEF Snapshots

\* The next snapshot keeps a stream in order, whether it is taken or dropped.
LEMMA StreamGrows ==
  ASSUME NEW p \in Seq(Snapshots), NEW j \in Nat, NEW h \in Nat, NEW n \in Nat,
         n + 1 \in Snapshots, StreamOK(p, j, h, n)
  PROVE  /\ StreamOK(Append(p, n + 1), j, h, n + 1)
         /\ StreamOK(p, j, h, n + 1)
<1> DEFINE q == Append(p, n + 1)
<1>1. /\ Len(q) = Len(p) + 1 /\ Len(p) \in Nat
      /\ \A i \in 1 .. Len(p) : q[i] = p[i] /\ p[i] \in Int
      /\ q[Len(p) + 1] = n + 1
  BY SnapshotsAreNumbers
<1> HIDE DEF q
<1>2. \A i \in 1 .. Len(q) : i \in 1 .. Len(p) \/ i = Len(p) + 1
  BY <1>1
<1>3. StreamOK(p, j, h, n + 1)
  BY <1>1 DEF StreamOK
<1>4. StreamOK(q, j, h, n + 1)
  <2>1. \A i \in 1 .. Len(q) : j < q[i] /\ q[i] <= n + 1
    BY <1>1, <1>2 DEF StreamOK
  <2>2. \A i, k \in 1 .. Len(q) : i < k => q[i] < q[k]
    BY <1>1, <1>2 DEF StreamOK
  <2>3. h # 0 => \A i \in 1 .. Len(q) : q[i] <= h => i <= ChanCap
    BY <1>1, <1>2 DEF StreamOK
  <2>4. QED
    BY <2>1, <2>2, <2>3 DEF StreamOK
<1>5. QED
  BY <1>3, <1>4 DEF q

\* The next snapshot leaves no gap among the first ChanCap ones.
LEMMA StreamStaysKept ==
  ASSUME NEW p \in Seq(Snapshots), NEW j \in Nat, NEW n \in Nat,
         n + 1 \in Snapshots, StreamKept(p, j, n)
  PROVE  /\ StreamKept(Append(p, n + 1), j, n + 1)
         /\ Len(p) >= ChanCap => StreamKept(p, j, n + 1)
BY BrokerAssumption DEF StreamKept, Snapshots

\* The part of the invariant that is about one handler.
HandlerInv(c) ==
  /\ StreamOK(Pipeline(c), joined[c], hello[c], published)
  /\ c \in clients => StreamKept(Pipeline(c), joined[c], published)
  /\ Len(chan[c]) <= ChanCap
  /\ pc[c] = "subscribed" => hello[c] = 0 /\ fed[c] = <<>>

HandlersInv == \A c \in Clients : HandlerInv(c)

\* The invariant, regrouped handler by handler.
LEMMA Regroup ==
  IInv <=> TypeOK /\ LoopBounds /\ SlotsHoldTheirAge /\ SubscribedIffServed /\ HandlersInv
<1> SUFFICES ASSUME TypeOK
             PROVE  FeedInOrder /\ FirstSnapshotsKept /\ StepBackBounded
                      /\ (\A c \in Clients : HandlerBounds(c))
                    <=> \A c \in Clients : HandlerInv(c)
  BY DEF IInv, HandlersInv
<1>1. ASSUME NEW c \in Clients
      PROVE  /\ \A i \in 1 .. Len(Pipeline(c)) : Pipeline(c)[i] \in Nat
             /\ joined[c] \in Nat /\ hello[c] \in Nat /\ published \in Nat
  <2>1. Pipeline(c) \in Seq(Snapshots)
    BY PipelineType
  <2>2. QED
    BY <2>1, SnapshotsAreNumbers DEF TypeOK
<1>2. ASSUME FeedInOrder, FirstSnapshotsKept, StepBackBounded,
             NEW c \in Clients, HandlerBounds(c)
      PROVE  HandlerInv(c)
  <2>1. StreamOK(Pipeline(c), joined[c], hello[c], published)
    BY <1>1, <1>2 DEF FeedInOrder, StepBackBounded, HandlerBounds, StreamOK
  <2>2. c \in clients => StreamKept(Pipeline(c), joined[c], published)
    BY <1>2 DEF FirstSnapshotsKept, StreamKept
  <2>3. QED
    BY <1>2, <2>1, <2>2 DEF HandlerBounds, HandlerInv
<1>3. ASSUME \A c \in Clients : HandlerInv(c)
      PROVE  /\ FeedInOrder /\ FirstSnapshotsKept /\ StepBackBounded
             /\ \A c \in Clients : HandlerBounds(c)
  <2>1. FeedInOrder
    BY <1>1, <1>3 DEF HandlerInv, StreamOK, FeedInOrder
  <2>2. FirstSnapshotsKept
    BY <1>3 DEF TypeOK, HandlerInv, StreamKept, FirstSnapshotsKept
  <2>3. StepBackBounded
    BY <1>1, <1>3 DEF HandlerInv, StreamOK, StepBackBounded
  <2>4. ASSUME NEW c \in Clients PROVE HandlerBounds(c)
    BY <1>1, <1>3 DEF HandlerInv, StreamOK, HandlerBounds
  <2>5. QED
    BY <2>1, <2>2, <2>3, <2>4
<1>4. QED
  BY <1>2, <1>3

\* Every step keeps the invariant.
LEMMA IInvStep == IInv /\ [Next]_vars => IInv'
<1> SUFFICES ASSUME IInv, [Next]_vars PROVE IInv'
  OBVIOUS
<1>1. /\ TypeOK /\ TypeOK'
      /\ LoopBounds /\ SlotsHoldTheirAge /\ SubscribedIffServed
      /\ \A c \in Clients : HandlerInv(c)
  BY TypeOKStep, Regroup DEF HandlersInv
<1>2. SUFFICES LoopBounds' /\ SlotsHoldTheirAge' /\ SubscribedIffServed'
               /\ \A c \in Clients : HandlerInv(c)'
  <2>1. IInv' <=> TypeOK' /\ LoopBounds' /\ SlotsHoldTheirAge' /\ SubscribedIffServed'
                    /\ HandlersInv'
    BY Regroup, PTL
  <2>2. QED
    BY <1>1, <2>1 DEF HandlersInv
<1>3. CASE Collect
  <2>1. LoopBounds'
    BY <1>1, <1>3 DEF Collect, LoopBounds, TypeOK
  <2>2. SlotsHoldTheirAge' /\ SubscribedIffServed' /\ \A c \in Clients : HandlerInv(c)'
    BY <1>1, <1>3 DEF Collect, streamVars, SlotsHoldTheirAge, Age, SubscribedIffServed,
                      HandlerInv, StreamOK, StreamKept, Pipeline
  <2>3. QED
    BY <2>1, <2>2
<1>4. CASE Publish
  <2>1. collected = published + 1 /\ published' = published + 1 /\ collected' = collected
    BY <1>1, <1>4 DEF Publish, Store, LoopBounds, TypeOK
  <2>2. SlotsHoldTheirAge'
    BY <1>4, PublishRing
  <2>3. SubscribedIffServed'
    BY <1>1, <1>4 DEF Publish, Store, SubscribedIffServed
  <2>4. ASSUME NEW c \in Clients PROVE HandlerInv(c)'
    <3>1. /\ Pipeline(c) \in Seq(Snapshots) /\ Len(chan[c]) <= Len(Pipeline(c))
          /\ joined[c] \in Nat /\ hello[c] \in Nat /\ published \in Nat
          /\ chan[c] \in Seq(Snapshots)
      <4>1. fed[c] \in Seq(Snapshots) /\ chan[c] \in Seq(Snapshots)
        BY <1>1 DEF TypeOK
      <4>2. Len(fed[c]) \in Nat /\ Len(chan[c]) \in Nat
        BY <4>1
      <4>3. Pipeline(c) \in Seq(Snapshots) /\ Len(Pipeline(c)) = Len(fed[c]) + Len(chan[c])
        BY <1>1, PipelineType
      <4>4. QED
        BY <1>1, <4>1, <4>2, <4>3 DEF TypeOK
    <3>2. /\ StreamOK(Append(Pipeline(c), published + 1), joined[c], hello[c], published + 1)
          /\ StreamOK(Pipeline(c), joined[c], hello[c], published + 1)
      BY <1>1, <1>4, <2>1, <3>1, StreamGrows, PublishPipeline DEF HandlerInv
    <3>3. c \in clients =>
            /\ StreamKept(Append(Pipeline(c), published + 1), joined[c], published + 1)
            /\ Len(Pipeline(c)) >= ChanCap => StreamKept(Pipeline(c), joined[c], published + 1)
      BY <1>1, <1>4, <2>1, <3>1, StreamStaysKept, PublishPipeline DEF HandlerInv
    <3>4. /\ clients' = clients /\ joined' = joined /\ hello' = hello /\ pc' = pc
          /\ fed' = fed
          /\ chan'[c] = IF c \in clients /\ Len(chan[c]) < ChanCap
                          THEN Append(chan[c], collected) ELSE chan[c]
      BY <1>1, <1>4 DEF Publish, Store, Offer, streamVars, TypeOK
    <3>5. Len(chan'[c]) <= ChanCap
      BY <1>1, <1>4, <2>1, <3>1, <3>4, BrokerAssumption, PublishPipeline DEF HandlerInv
    <3>6. Pipeline(c)' = IF c \in clients /\ Len(chan[c]) < ChanCap
                          THEN Append(Pipeline(c), published + 1) ELSE Pipeline(c)
      BY <1>1, <1>4, <2>1, PublishPipeline
    <3>7. QED
      BY <1>1, <2>1, <3>1, <3>2, <3>3, <3>4, <3>5, <3>6, BrokerAssumption DEF HandlerInv
  <2>5. QED
    BY <1>1, <2>1, <2>2, <2>3, <2>4 DEF LoopBounds, TypeOK
<1>5. ASSUME NEW d \in Clients, Subscribe(d) \/ ReadLast(d) \/ Receive(d)
                                  \/ FinishWrite(d) \/ HangUp(d) \/ Leave(d)
      PROVE  LoopBounds' /\ SlotsHoldTheirAge'
  BY <1>1, <1>5 DEF Subscribe, ReadLast, Receive, FinishWrite, HangUp, Leave, loopVars,
                    LoopBounds, SlotsHoldTheirAge, Age
<1>6. ASSUME NEW d \in Clients, Subscribe(d)
      PROVE  SubscribedIffServed' /\ \A c \in Clients : HandlerInv(c)'
  <2>1. SubscribedIffServed'
    BY <1>1, <1>6 DEF Subscribe, SubscribedIffServed, TypeOK
  <2>2. Pipeline(d)' = <<>> \o <<>> /\ <<>> \o <<>> = <<>>
    BY <1>1, <1>6 DEF Subscribe, Pipeline, TypeOK
  <2>3. HandlerInv(d)'
    BY <1>1, <1>6, <2>2, BrokerAssumption
    DEF Subscribe, HandlerInv, StreamOK, StreamKept, TypeOK, loopVars
  <2>4. ASSUME NEW c \in Clients, c # d PROVE HandlerInv(c)'
    <3>1. /\ chan'[c] = chan[c] /\ fed'[c] = fed[c] /\ pc'[c] = pc[c]
          /\ joined'[c] = joined[c] /\ hello'[c] = hello[c]
          /\ c \in clients' <=> c \in clients
          /\ published' = published
      BY <1>1, <1>6, <2>4 DEF Subscribe, TypeOK, loopVars
    <3>2. HandlerInv(c)
      BY <1>1
    <3>3. Pipeline(c)' = Pipeline(c)
      BY <3>1 DEF Pipeline
    <3>4. QED
      BY <3>1, <3>2, <3>3 DEF HandlerInv, StreamOK, StreamKept
  <2>5. QED
    BY <2>1, <2>3, <2>4
<1>7. ASSUME NEW d \in Clients, ReadLast(d)
      PROVE  SubscribedIffServed' /\ \A c \in Clients : HandlerInv(c)'
  <2>1. SubscribedIffServed'
    BY <1>1, <1>7 DEF ReadLast, SubscribedIffServed, TypeOK
  <2>2. count > 0 => ring[LastSlot] = published
    BY <1>1, NewestSlot
  <2>3. \A c \in Clients : Pipeline(c)' = Pipeline(c)
    BY <1>7 DEF ReadLast, Pipeline
  <2>4. HandlerInv(d)'
    <3>1. Pipeline(d) = chan[d] /\ Pipeline(d) \in Seq(Snapshots) /\ hello[d] = 0
          /\ Len(Pipeline(d)) <= ChanCap
      BY <1>1, <1>7, PipelineType DEF ReadLast, HandlerInv
    <3>2. hello'[d] = 0 \/ hello'[d] = published
      BY <1>1, <1>7, <2>2, <3>1 DEF ReadLast, TypeOK
    <3>3. StreamOK(Pipeline(d), joined[d], hello'[d], published)
      <4>1. Len(Pipeline(d)) \in Nat /\ published \in Nat /\ joined[d] \in Nat
        BY <1>1, <3>1 DEF TypeOK
      <4>2. StreamOK(Pipeline(d), joined[d], hello[d], published)
        BY <1>1 DEF HandlerInv
      <4>3. QED
        BY <3>1, <3>2, <4>1, <4>2, BrokerAssumption DEF StreamOK
    <3>4. QED
      BY <1>1, <1>7, <2>3, <3>3 DEF ReadLast, HandlerInv, TypeOK, loopVars
  <2>5. ASSUME NEW c \in Clients, c # d PROVE HandlerInv(c)'
    BY <1>1, <1>7, <2>3, <2>5 DEF ReadLast, HandlerInv, TypeOK, loopVars
  <2>6. QED
    BY <2>1, <2>4, <2>5
<1>8. ASSUME NEW d \in Clients, Receive(d)
      PROVE  SubscribedIffServed' /\ \A c \in Clients : HandlerInv(c)'
  <2>1. SubscribedIffServed'
    BY <1>1, <1>8 DEF Receive, SubscribedIffServed, TypeOK
  <2>2. ASSUME NEW c \in Clients PROVE HandlerInv(c)'
    <3>1. Pipeline(c)' = Pipeline(c)
      BY <1>1, <1>8, ReceivePipeline
    <3>2. Len(chan'[c]) <= ChanCap
      BY <1>1, <1>8, BrokerAssumption DEF Receive, HandlerInv, TypeOK
    <3>3. pc'[c] = "subscribed" => hello'[c] = 0 /\ fed'[c] = <<>>
      BY <1>1, <1>8 DEF Receive, HandlerInv, TypeOK
    <3>4. QED
      BY <1>1, <1>8, <3>1, <3>2, <3>3 DEF Receive, HandlerInv, loopVars
  <2>3. QED
    BY <2>1, <2>2
<1>9. ASSUME NEW d \in Clients, FinishWrite(d) \/ HangUp(d) \/ Leave(d)
      PROVE  SubscribedIffServed' /\ \A c \in Clients : HandlerInv(c)'
  <2>1. SubscribedIffServed'
    BY <1>1, <1>9 DEF FinishWrite, HangUp, Leave, SubscribedIffServed, TypeOK
  <2>2. ASSUME NEW c \in Clients PROVE HandlerInv(c)'
    BY <1>1, <1>9 DEF FinishWrite, HangUp, Leave, HandlerInv, TypeOK, loopVars, streamVars,
                      Pipeline
  <2>3. QED
    BY <2>1, <2>2
<1>10. CASE UNCHANGED vars
  BY <1>1, <1>10 DEF vars, loopVars, streamVars, LoopBounds, SlotsHoldTheirAge, Age,
                     SubscribedIffServed, HandlerInv, StreamOK, StreamKept, Pipeline
<1>11. QED
  BY <1>3, <1>4, <1>5, <1>6, <1>7, <1>8, <1>9, <1>10 DEF Next

-------------------------------------------------------------------------------
(* The theorems.                                                           *)

\* The inductive invariant holds throughout.
THEOREM BrokerInvariant == Spec => []IInv
BY InitIInv, IInvStep, PTL DEF Spec

\* The ring always holds exactly the last snapshots, in order, for every ring
\* size and after any number of turns.
THEOREM RingCorrect == Spec => []RingHoldsLatest
<1>1. IInv => RingHoldsLatest
  BY AgesAreDistances DEF IInv
<1>2. QED
  BY <1>1, BrokerInvariant, PTL

\* Whatever is dropped, a channel never reorders or repeats a snapshot and
\* never delivers one from before the subscription.
THEOREM FeedOrder == Spec => []FeedInOrder
<1>1. IInv => FeedInOrder
  BY DEF IInv
<1>2. QED
  BY <1>1, BrokerInvariant, PTL

\* The first ChanCap snapshots after a subscription are all delivered.
THEOREM FirstKept == Spec => []FirstSnapshotsKept
<1>1. IInv => FirstSnapshotsKept
  BY DEF IInv
<1>2. QED
  BY <1>1, BrokerInvariant, PTL

\* At most the first ChanCap fed snapshots can be older than the greeting.
THEOREM StepBack == Spec => []StepBackBounded
<1>1. IInv => StepBackBounded
  BY DEF IInv
<1>2. QED
  BY <1>1, BrokerInvariant, PTL

-------------------------------------------------------------------------------
(* The broker implements the feed it promises.                             *)

\* The snapshot at the head of a handler's channel is one the feed may send.
LEMMA HeadMayBeFed ==
  ASSUME TypeOK, HandlersInv, NEW c \in clients, chan[c] # <<>>
  PROVE  /\ Head(chan[c]) \in Feed!Newest(c) + 1 .. published
         /\ Len(fed[c]) < ChanCap => Head(chan[c]) = Feed!Newest(c) + 1
<1> DEFINE p == Pipeline(c)
           m == Len(fed[c])
<1>1. c \in Clients /\ HandlerInv(c)
  BY DEF TypeOK, HandlersInv
<1>2. /\ fed[c] \in Seq(Snapshots) /\ chan[c] \in Seq(Snapshots)
      /\ joined[c] \in Nat /\ published \in Nat
  BY <1>1 DEF TypeOK
<1>3. m \in Nat /\ Len(chan[c]) \in Nat \ {0} /\ Len(p) = m + Len(chan[c])
  <2>1. \A q \in Seq(Snapshots) : Len(q) \in Nat /\ (q # <<>> => Len(q) # 0)
    OBVIOUS
  <2>2. Len(p) = m + Len(chan[c])
    BY <1>1, PipelineType
  <2>3. QED
    BY <1>2, <2>1, <2>2
<1>4. Head(chan[c]) = p[m + 1] /\ (m # 0 => fed[c][m] = p[m])
  <2>1. ASSUME NEW f \in Seq(Snapshots), NEW q \in Seq(Snapshots), q # <<>>
        PROVE  /\ Head(q) = (f \o q)[Len(f) + 1]
               /\ Len(f) # 0 => f[Len(f)] = (f \o q)[Len(f)]
    BY <2>1
  <2>2. QED
    BY <1>2, <2>1 DEF Pipeline
<1>5. \A i \in 1 .. Len(p) : p[i] \in Nat
  BY <1>1, PipelineType, SnapshotsAreNumbers
<1>6. Feed!Newest(c) = IF m = 0 THEN joined[c] ELSE p[m]
  <2>1. fed[c] = <<>> <=> m = 0
    BY <1>2
  <2>2. QED
    BY <1>4, <2>1 DEF Feed!Newest
<1> HIDE DEF p, m
<1>7. StreamOK(p, joined[c], hello[c], published) /\ StreamKept(p, joined[c], published)
  BY <1>1 DEF HandlerInv, p
<1>8. m + 1 \in 1 .. Len(p) /\ (m # 0 => m \in 1 .. Len(p))
  BY <1>3
<1>9. /\ p[m + 1] \in Nat /\ joined[c] < p[m + 1] /\ p[m + 1] <= published
      /\ m # 0 => p[m] \in Nat /\ p[m] < p[m + 1]
  <2>1. /\ \A i, k \in 1 .. Len(p) : i < k => p[i] < p[k]
        /\ \A i \in 1 .. Len(p) : joined[c] < p[i] /\ p[i] <= published
    BY <1>7 DEF StreamOK
  <2>2. m < m + 1
    BY <1>3
  <2>3. m # 0 => p[m] < p[m + 1]
    BY <1>8, <2>1, <2>2
  <2>4. QED
    BY <1>5, <1>8, <2>1, <2>3
<1>10. /\ m < ChanCap => p[m + 1] = joined[c] + (m + 1)
       /\ m < ChanCap /\ m # 0 => p[m] = joined[c] + m
  <2>1. \A i \in 1 .. Len(p) : i <= ChanCap => p[i] = joined[c] + i
    BY <1>7 DEF StreamKept
  <2>2. m < ChanCap => m <= ChanCap /\ m + 1 <= ChanCap
    BY <1>3, BrokerAssumption
  <2>3. QED
    BY <1>8, <2>1, <2>2
<1>11. CASE m = 0
  BY <1>2, <1>3, <1>4, <1>6, <1>9, <1>10, <1>11 DEF m
<1>12. CASE m # 0
  <2>1. Feed!Newest(c) = p[m]
    BY <1>6, <1>12
  <2>2. Head(chan[c]) \in p[m] + 1 .. published
    BY <1>2, <1>4, <1>9, <1>12
  <2>3. m < ChanCap => Head(chan[c]) = p[m] + 1
    BY <1>2, <1>3, <1>4, <1>9, <1>10, <1>12
  <2>4. QED
    BY <2>1, <2>2, <2>3 DEF m
<1>13. QED
  BY <1>11, <1>12

\* Each step of the broker is a step of the feed or leaves it unchanged.
LEMMA FeedStep == IInv /\ [Next]_vars => [Feed!Next]_(Feed!vars)
<1> SUFFICES ASSUME IInv, [Next]_vars PROVE [Feed!Next]_(Feed!vars)
  OBVIOUS
<1>1. TypeOK /\ LoopBounds /\ SlotsHoldTheirAge /\ SubscribedIffServed /\ HandlersInv
  BY Regroup
<1>2. CASE Collect
  BY <1>2 DEF Collect, streamVars, Feed!vars
<1>3. CASE Publish
  <2>1. published' = published + 1
    BY <1>1, <1>3 DEF Publish, Store, LoopBounds, TypeOK
  <2>2. QED
    BY <1>3, <2>1 DEF Publish, Store, streamVars, Feed!Next, Feed!Publish
<1>4. ASSUME NEW c \in Clients, Subscribe(c) PROVE Feed!Join(c)
  BY <1>1, <1>4 DEF Subscribe, SubscribedIffServed, loopVars, Feed!Join
<1>5. ASSUME NEW c \in Clients, ReadLast(c) PROVE Feed!Greet(c) \/ UNCHANGED Feed!vars
  <2>1. CASE count > 0
    <3>1. hello' = [hello EXCEPT ![c] = published] /\ UNCHANGED <<published, clients, joined, fed>>
      BY <1>1, <1>5, <2>1, NewestSlot DEF ReadLast, loopVars
    <3>2. published > 0
      BY <1>1, <2>1 DEF SlotsHoldTheirAge, TypeOK
    <3>3. hello[c] = 0 /\ fed[c] = <<>> /\ c \in clients
      BY <1>1, <1>5 DEF ReadLast, HandlersInv, HandlerInv, SubscribedIffServed
    <3>4. QED
      BY <3>1, <3>2, <3>3 DEF Feed!Greet
  <2>2. CASE ~(count > 0)
    BY <1>5, <2>2 DEF ReadLast, loopVars, Feed!vars
  <2>3. QED
    BY <2>1, <2>2
<1>6. ASSUME NEW c \in Clients, Receive(c) PROVE Feed!Feed(c)
  <2>1. c \in clients /\ chan[c] # <<>>
    BY <1>1, <1>6 DEF Receive, SubscribedIffServed
  <2>2. /\ Head(chan[c]) \in Feed!Newest(c) + 1 .. published
        /\ Len(fed[c]) < ChanCap => Head(chan[c]) = Feed!Newest(c) + 1
    BY <1>1, <2>1, HeadMayBeFed
  <2>3. /\ fed' = [fed EXCEPT ![c] = Append(fed[c], Head(chan[c]))]
        /\ UNCHANGED <<published, clients, joined, hello>>
    BY <1>6 DEF Receive, loopVars
  <2>4. QED
    BY <2>1, <2>2, <2>3 DEF Feed!Feed
<1>7. ASSUME NEW c \in Clients, FinishWrite(c) \/ HangUp(c) PROVE UNCHANGED Feed!vars
  BY <1>7 DEF FinishWrite, HangUp, loopVars, streamVars, Feed!vars
<1>8. ASSUME NEW c \in Clients, Leave(c) PROVE Feed!Quit(c)
  BY <1>1, <1>8 DEF Leave, SubscribedIffServed, loopVars, streamVars, Feed!Quit
<1>9. CASE UNCHANGED vars
  BY <1>9 DEF vars, loopVars, streamVars, Feed!vars
<1>10. QED
  BY <1>2, <1>3, <1>4, <1>5, <1>6, <1>7, <1>8, <1>9 DEF Next, Feed!Next

\* Every behaviour of the broker is one of the feed: greeted with the newest
\* snapshot, then fed newer ones, the first ChanCap of them without a gap.
THEOREM BrokerImplementsFeed == Spec => FeedSpec
<1>1. Init => Feed!Init
  BY DEF Init, Feed!Init
<1>2. QED
  BY <1>1, FeedStep, BrokerInvariant, PTL DEF Spec, FeedSpec, Feed!Spec
===============================================================================
