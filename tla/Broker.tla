-------------------------------- MODULE Broker --------------------------------
(***************************************************************************)
(* The SSE broker of backend/sse/broker.go: one sampling loop, a ring of   *)
(* the last snapshots, and one HTTP handler per connected browser, fed     *)
(* through a small buffered channel.                                       *)
(*                                                                         *)
(* A snapshot is identified by its number: the loop collects 1, 2, 3, ...  *)
(* Every section under Broker.mu is one action; everything the code does   *)
(* between two sections (collect, write to the socket, select) is a        *)
(* separate step, so ticks, subscriptions, socket writes and               *)
(* disconnections interleave freely.                                       *)
(***************************************************************************)
EXTENDS Integers, Sequences

CONSTANTS
  Clients,   \* connections: one handler goroutine each, reused on reconnect
  Prompt,    \* the connections whose browser keeps reading what it is sent
  RingSize,  \* ringSize (60)
  ChanCap,   \* capacity of a client's channel (4)
  MaxTicks   \* bound on the snapshots the loop collects

ASSUME BrokerAssumption ==
  /\ Prompt \subseteq Clients
  /\ RingSize \in Nat \ {0}
  /\ ChanCap \in Nat \ {0}
  /\ MaxTicks \in Nat

VARIABLES
  ring, head, count,  \* the ring buffer
  clients,            \* Broker.clients: the handlers that are subscribed
  collected,          \* the last snapshot the loop collected
  published,          \* the last snapshot the loop stored and broadcast
  chan,               \* channel of each handler
  pc,                 \* where each handler stands
  gone,               \* the request context of each handler is done
  joined,             \* history: value of published when it subscribed
  hello,              \* history: snapshot it read from the ring (0: none)
  fed                 \* history: snapshots it took from its channel

loopVars   == <<ring, head, count, collected, published>>
streamVars == <<joined, hello, fed>>
vars       == <<loopVars, clients, chan, pc, gone, streamVars>>

Handler == {"away", "subscribed", "writing", "waiting"}

Init ==
  /\ ring = [i \in 0 .. RingSize - 1 |-> 0]
  /\ head = 0
  /\ count = 0
  /\ clients = {}
  /\ collected = 0
  /\ published = 0
  /\ chan = [c \in Clients |-> <<>>]
  /\ pc = [c \in Clients |-> "away"]
  /\ gone = [c \in Clients |-> FALSE]
  /\ joined = [c \in Clients |-> 0]
  /\ hello = [c \in Clients |-> 0]
  /\ fed = [c \in Clients |-> <<>>]

-------------------------------------------------------------------------------
(* The sampling loop.                                                      *)

\* collect() and the rates: no lock is held.
Collect ==
  /\ collected = published
  /\ collected < MaxTicks
  /\ collected' = collected + 1
  /\ UNCHANGED <<ring, head, count, published, clients, chan, pc, gone, streamVars>>

\* Mistakes (see the README): one slot too many, the oldest dropped instead of
\* the newest, no limit at all.
OfferOneMore(q, snap) == IF Len(q) <= ChanCap THEN Append(q, snap) ELSE q
OfferNewest(q, snap) == IF Len(q) < ChanCap THEN Append(q, snap) ELSE Append(Tail(q), snap)
OfferUnbounded(q, snap) == Append(q, snap)

\* A channel after the non-blocking send: a full one keeps what it holds and
\* the new snapshot is dropped.
Offer(q, snap) == IF Len(q) < ChanCap THEN Append(q, snap) ELSE q

\* Mistake: the slot is written after the head moved.
StoreAfterAdvance ==
  /\ head' = (head + 1) % RingSize
  /\ ring' = [ring EXCEPT ![head'] = collected]
  /\ count' = IF count < RingSize THEN count + 1 ELSE count

\* The ring takes the new snapshot at the head, which moves on.
Store ==
  /\ ring' = [ring EXCEPT ![head] = collected]
  /\ head' = (head + 1) % RingSize
  /\ count' = IF count < RingSize THEN count + 1 ELSE count

\* Mistake: a blocking send, with the lock held.
PublishBlocking ==
  /\ collected > published
  /\ \A c \in clients : Len(chan[c]) < ChanCap
  /\ Store
  /\ published' = collected
  /\ chan' = [c \in Clients |-> IF c \in clients THEN Append(chan[c], collected) ELSE chan[c]]
  /\ UNCHANGED <<collected, clients, pc, gone, streamVars>>

\* The critical section of loop(): store, advance, broadcast.
Publish ==
  /\ collected > published
  /\ Store
  /\ published' = collected
  /\ chan' = [c \in Clients |-> IF c \in clients THEN Offer(chan[c], collected) ELSE chan[c]]
  /\ UNCHANGED <<collected, clients, pc, gone, streamVars>>

-------------------------------------------------------------------------------
(* One handler.                                                            *)

\* Mistake: the channel of the last stream is used again.
SubscribeSameChannel(c) ==
  /\ pc[c] = "away"
  /\ clients' = clients \cup {c}
  /\ pc' = [pc EXCEPT ![c] = "subscribed"]
  /\ gone' = [gone EXCEPT ![c] = FALSE]
  /\ joined' = [joined EXCEPT ![c] = published]
  /\ hello' = [hello EXCEPT ![c] = 0]
  /\ fed' = [fed EXCEPT ![c] = <<>>]
  /\ UNCHANGED <<loopVars, chan>>

\* A request reaches Handler, which makes a fresh channel and subscribes it.
Subscribe(c) ==
  /\ pc[c] = "away"
  /\ clients' = clients \cup {c}
  /\ chan' = [chan EXCEPT ![c] = <<>>]
  /\ pc' = [pc EXCEPT ![c] = "subscribed"]
  /\ gone' = [gone EXCEPT ![c] = FALSE]
  /\ joined' = [joined EXCEPT ![c] = published]
  /\ hello' = [hello EXCEPT ![c] = 0]
  /\ fed' = [fed EXCEPT ![c] = <<>>]
  /\ UNCHANGED loopVars

\* Mistake: the slot to be written next, which is the oldest one.
SlotAtHead == head

\* Index of the newest slot, as the code computes it.
LastSlot == (head - 1 + RingSize) % RingSize

\* Under the read lock: the newest snapshot is written at once, if there is one.
ReadLast(c) ==
  /\ pc[c] = "subscribed"
  /\ IF count > 0
       THEN /\ hello' = [hello EXCEPT ![c] = ring[LastSlot]]
            /\ pc' = [pc EXCEPT ![c] = "writing"]
       ELSE /\ pc' = [pc EXCEPT ![c] = "waiting"]
            /\ UNCHANGED hello
  /\ UNCHANGED <<loopVars, clients, chan, gone, joined, fed>>

\* select: a snapshot arrives from the channel and its write starts.
Receive(c) ==
  /\ pc[c] = "waiting"
  /\ chan[c] # <<>>
  /\ fed' = [fed EXCEPT ![c] = Append(@, Head(chan[c]))]
  /\ chan' = [chan EXCEPT ![c] = Tail(@)]
  /\ pc' = [pc EXCEPT ![c] = "writing"]
  /\ UNCHANGED <<loopVars, clients, gone, joined, hello>>

\* writeSSE returns: the bytes went out, or the peer is gone (the error of the
\* write is ignored).
FinishWrite(c) ==
  /\ pc[c] = "writing"
  /\ pc' = [pc EXCEPT ![c] = "waiting"]
  /\ UNCHANGED <<loopVars, clients, chan, gone, streamVars>>

\* The browser goes away: net/http cancels the request context.
HangUp(c) ==
  /\ pc[c] # "away"
  /\ ~gone[c]
  /\ gone' = [gone EXCEPT ![c] = TRUE]
  /\ UNCHANGED <<loopVars, clients, chan, pc, streamVars>>

\* Mistake: no deferred unsubscribe.
LeaveSubscribed(c) ==
  /\ pc[c] = "waiting"
  /\ gone[c]
  /\ pc' = [pc EXCEPT ![c] = "away"]
  /\ UNCHANGED <<loopVars, clients, chan, gone, streamVars>>

\* select: the context is done; the deferred unsubscribe runs.
Leave(c) ==
  /\ pc[c] = "waiting"
  /\ gone[c]
  /\ clients' = clients \ {c}
  /\ pc' = [pc EXCEPT ![c] = "away"]
  /\ UNCHANGED <<loopVars, chan, gone, streamVars>>

-------------------------------------------------------------------------------

Next ==
  \/ Collect
  \/ Publish
  \/ \E c \in Clients :
       \/ Subscribe(c)
       \/ ReadLast(c)
       \/ Receive(c)
       \/ FinishWrite(c)
       \/ HangUp(c)
       \/ Leave(c)

Spec == Init /\ [][Next]_vars

\* What runs without anybody's help: the loop, and a handler that is not stuck
\* in a socket write. A write is only sure to return when the browser reads, or
\* once it has closed (the server sets no write timeout). select picks a ready
\* case at random, so a done context is not passed over for ever.
Fairness ==
  /\ WF_vars(Collect) /\ WF_vars(Publish)
  /\ \A c \in Clients :
       /\ WF_vars(ReadLast(c))
       /\ WF_vars(Receive(c))
       /\ WF_vars((gone[c] \/ c \in Prompt) /\ FinishWrite(c))
       /\ SF_vars(Leave(c))

FairSpec == Spec /\ Fairness

-------------------------------------------------------------------------------
(* Correctness.                                                            *)

Snapshots == 1 .. MaxTicks

\* The variables hold values of their types.
TypeOK ==
  /\ ring \in [0 .. RingSize - 1 -> 0 .. MaxTicks]
  /\ head \in 0 .. RingSize - 1
  /\ count \in 0 .. RingSize
  /\ clients \subseteq Clients
  /\ collected \in 0 .. MaxTicks
  /\ published \in 0 .. MaxTicks
  /\ chan \in [Clients -> Seq(Snapshots)]
  /\ pc \in [Clients -> Handler]
  /\ gone \in [Clients -> BOOLEAN]
  /\ joined \in [Clients -> 0 .. MaxTicks]
  /\ hello \in [Clients -> 0 .. MaxTicks]
  /\ fed \in [Clients -> Seq(Snapshots)]

\* The ring holds exactly the last snapshots: going back i slots from the head
\* finds the snapshot published i ticks ago, for as many as the ring has.
RingHoldsLatest ==
  /\ count = IF published < RingSize THEN published ELSE RingSize
  /\ \A i \in 0 .. count - 1 :
       ring[(head - 1 - i + RingSize) % RingSize] = published - i

\* What a handler took from its channel, followed by what is waiting there.
Pipeline(c) == fed[c] \o chan[c]

\* The channel never reorders, repeats or delivers what was broadcast before
\* the subscription, whatever the drops and however slow the browser is.
FeedInOrder ==
  \A c \in Clients :
    /\ \A i, j \in 1 .. Len(Pipeline(c)) : i < j => Pipeline(c)[i] < Pipeline(c)[j]
    /\ \A i \in 1 .. Len(Pipeline(c)) : Pipeline(c)[i] > joined[c]

\* No snapshot slips through between subscribing and reading the ring, and a
\* drop only ever hits a client that is ChanCap snapshots behind: the first
\* ChanCap snapshots after the subscription are all delivered, without a gap.
FirstSnapshotsKept ==
  \A c \in clients :
    /\ \A i \in 1 .. Len(Pipeline(c)) : i <= ChanCap => Pipeline(c)[i] = joined[c] + i
    /\ Len(Pipeline(c)) < ChanCap => published = joined[c] + Len(Pipeline(c))

\* A tick between subscribe and the read of the ring makes the stream step
\* back: the ring's snapshot is newer than the queued ones that follow it. The
\* damage is bounded: only the first ChanCap fed snapshots can be as old as
\* the first one the browser saw, and that one is never older than the
\* subscription.
StepBackBounded ==
  \A c \in Clients :
    hello[c] # 0 =>
      /\ hello[c] >= joined[c]
      /\ \A i \in 1 .. Len(Pipeline(c)) : Pipeline(c)[i] <= hello[c] => i <= ChanCap

\* Nothing is sent to a handler that has left, and a handler always leaves
\* through unsubscribe: nobody is subscribed who has no handler running.
SubscribedIffServed == clients = {c \in Clients : pc[c] # "away"}

\* How many ticks ago slot k was written, counting back from the head.
Age(k) == IF k < head THEN head - 1 - k ELSE head - 1 - k + RingSize

\* The ring in terms of its slots rather than of the distance to the head.
SlotsHoldTheirAge ==
  /\ count = IF published < RingSize THEN published ELSE RingSize
  /\ \A k \in 0 .. RingSize - 1 : Age(k) < count => ring[k] = published - Age(k)

\* The loop is at most one snapshot ahead of what it has broadcast.
LoopBounds == published <= collected /\ collected <= published + 1

\* What one handler holds is bounded by what was published, and it takes
\* nothing from its channel before it has read the ring.
HandlerBounds(c) ==
  /\ joined[c] <= published
  /\ hello[c] <= published
  /\ Len(chan[c]) <= ChanCap
  /\ pc[c] = "subscribed" => hello[c] = 0 /\ fed[c] = <<>>
  /\ \A i \in 1 .. Len(Pipeline(c)) : Pipeline(c)[i] <= published

\* The inductive invariant behind the properties above.
IInv ==
  /\ TypeOK
  /\ LoopBounds
  /\ SlotsHoldTheirAge
  /\ SubscribedIffServed
  /\ FeedInOrder
  /\ FirstSnapshotsKept
  /\ StepBackBounded
  /\ \A c \in Clients : HandlerBounds(c)

\* The broker implements the feed it promises.
Feed == INSTANCE SnapshotFeed WITH Keep <- ChanCap, on <- clients

FeedSpec == Feed!Spec

-------------------------------------------------------------------------------
(* Liveness.                                                               *)

\* However many browsers stall in a write, the loop goes on sampling.
LoopNeverStalls == <>(published = MaxTicks)

\* A handler whose browser has left ends and unsubscribes, also when its queue
\* keeps filling up or it was stuck in a write.
GoneIsUnsubscribed == \A c \in Clients : gone[c] ~> c \notin clients

\* A snapshot that entered the queue of a browser that keeps reading is taken
\* from it, unless the browser leaves first.
QueuedIsFed ==
  \A c \in Prompt : \A s \in Snapshots :
    (\E i \in 1 .. Len(chan[c]) : chan[c][i] = s) ~>
      \/ \E i \in 1 .. Len(fed[c]) : fed[c][i] = s
      \/ gone[c]
===============================================================================
