---------------------------- MODULE CsrfFetchProofs ---------------------------
(***************************************************************************)
(* Proofs about the requests of the pages and their tokens, for any number *)
(* of pages, calls under way and tokens.                                   *)
(***************************************************************************)
EXTENDS CsrfFetch, TLAPS

-------------------------------------------------------------------------------
(* Types.                                                                  *)

\* A new call is a call.
LEMMA NewCallType ==
  ASSUME NEW p \in Pages, NEW kind \in Kinds, NEW phase \in {"idle"} \cup Waiting,
         NEW spare \in 0 .. 1, NEW header \in Tokens \cup {None}
  PROVE  NewCall(p, kind, phase, spare, header) \in Call
BY DEF NewCall, Call, Statuses

\* The call that does nothing is a call.
LEMMA IdleType == Pages # {} => Idle \in Call
<1>1. Pages # {} => (CHOOSE p \in Pages : TRUE) \in Pages
  OBVIOUS
<1>2. QED
  BY <1>1, NewCallType DEF Idle, Kinds, Waiting

\* A call that goes on with a token, or without, is a call.
LEMMA SuppliedType ==
  ASSUME TypeOK, NEW c \in Calls, NEW t \in Tokens \cup {None}
  PROVE  Supplied(c, t) \in Call
<1>1. call[c] \in Call /\ call[c].page \in Pages
  BY DEF TypeOK, Call
<1>2. Idle \in Call
  BY <1>1, IdleType
<1>3. [call[c] EXCEPT !.phase = "ask", !.spare = 0, !.issued = None] \in Call
  <2>1. 0 \in 0 .. 1 /\ "ask" \in {"idle"} \cup Waiting /\ None \in Tokens \cup {None}
    BY DEF Waiting
  <2>2. QED
    BY <1>1, <2>1 DEF Call
<1>4. [call[c] EXCEPT !.phase = "post", !.header = t, !.issued = None] \in Call
  BY <1>1 DEF Call, Waiting
<1>5. QED
  BY <1>2, <1>3, <1>4 DEF Supplied

\* What serving a request does, for the status answered and the number of times
\* the request was executed.
Served(c, status, writes) ==
  /\ call[c].phase = "post"
  /\ call' = [call EXCEPT ![c].phase = "replied", ![c].status = status]
  /\ executed' = [executed EXCEPT ![c] = @ + writes]
  /\ status = "ok" => writes = 1
  /\ status \in {"refused", "forbidden"} => writes = 0
  /\ status = "refused" => ~TokenAccepted(c)
  /\ UNCHANGED <<jar, cache, upset, result>>

\* Serving a request is one of these.
LEMMA ServeRequestDetail ==
  ASSUME NEW c \in Calls, ServeRequest(c)
  PROVE  \E status \in Statuses, writes \in {0, 1} : Served(c, status, writes)
<1>1. PICK status \in Statuses :
        /\ status = "refused" => ~TokenAccepted(c)
        /\ call' = [call EXCEPT ![c].phase = "replied", ![c].status = status]
        /\ \E writes \in CASE status = "ok" -> {1} [] status = "error" -> {0, 1} [] OTHER -> {0} :
             executed' = [executed EXCEPT ![c] = @ + writes]
  BY DEF ServeRequest, Statuses
<1>2. CASE status = "ok"
  BY <1>1, <1>2 DEF ServeRequest, Served
<1>3. CASE status = "error"
  BY <1>1, <1>3 DEF ServeRequest, Served
<1>4. CASE status \notin {"ok", "error"}
  BY <1>1, <1>4 DEF ServeRequest, Served
<1>5. QED
  BY <1>2, <1>3, <1>4

\* Every step keeps the types.
LEMMA TypeOKStep == TypeOK /\ [Next]_vars => TypeOK'
<1> SUFFICES ASSUME TypeOK, [Next]_vars PROVE TypeOK'
  OBVIOUS
<1>1. CASE UNCHANGED vars
  BY <1>1 DEF vars, TypeOK
<1>2. CASE Expire
  BY <1>2 DEF Expire, TypeOK
<1>3. ASSUME NEW c \in Calls, NEW p \in Pages, Write(c, p) \/ Refresh(c, p) \/ Logout(c, p)
      PROVE  TypeOK'
  <2>1. PICK first \in Call : Begin(c, first)
    <3>1. CASE Write(c, p)
      <4>1. cache[p] \in Tokens \cup {None}
        BY DEF TypeOK
      <4>2. NewCall(p, "write", IF cache[p] = None THEN "ask" ELSE "post", 0, cache[p]) \in Call
        BY <4>1, NewCallType DEF Kinds, Waiting
      <4>3. QED
        BY <3>1, <4>2 DEF Write
    <3>2. CASE Refresh(c, p)
      BY <3>2, NewCallType DEF Refresh, Kinds, Waiting
    <3>3. CASE Logout(c, p)
      BY <3>3, NewCallType DEF Logout, Kinds, Waiting
    <3>4. QED
      BY <1>3, <3>1, <3>2, <3>3
  <2>2. cache' \in [Pages -> Tokens \cup {None}]
    BY <1>3 DEF Write, Refresh, Logout, TypeOK
  <2>3. QED
    BY <2>1, <2>2 DEF Begin, TypeOK, Results
<1>4. ASSUME NEW c \in Calls, Progress(c) PROVE TypeOK'
  <2>0. call[c] \in Call /\ call[c].page \in Pages
    BY DEF TypeOK, Call
  <2>1. CASE ServeToken(c)
    <3>1. PICK t \in Tokens :
            call' = [call EXCEPT ![c].phase = "answered", ![c].issued = t, ![c].set = (jar = None)]
      BY <2>1 DEF ServeToken, Unused, TypeOK
    <3>2. [call[c] EXCEPT !.phase = "answered", !.issued = t, !.set = (jar = None)] \in Call
      BY <2>0 DEF Call, Waiting
    <3>3. QED
      BY <2>1, <3>1, <3>2 DEF ServeToken, TypeOK
  <2>2. CASE StoreCookie(c)
    <3>1. [call[c] EXCEPT !.phase = "body"] \in Call /\ call[c].issued \in Tokens \cup {None}
      BY <2>0 DEF Call, Waiting
    <3>2. QED
      BY <2>2, <3>1 DEF StoreCookie, TypeOK
  <2>3. CASE ReadToken(c)
    <3>1. call[c].issued \in Tokens \cup {None}
      BY <2>0 DEF Call
    <3>2. QED
      BY <2>0, <2>3, <3>1, SuppliedType DEF ReadToken, TypeOK
  <2>4. CASE TokenFails(c)
    BY <2>0, <2>4, SuppliedType DEF TokenFails, TypeOK
  <2>5. CASE ServeRequest(c)
    <3>1. PICK status \in Statuses, writes \in {0, 1} : Served(c, status, writes)
      BY <2>5, ServeRequestDetail
    <3>2. [call[c] EXCEPT !.phase = "replied", !.status = status] \in Call
      BY <2>0 DEF Call, Waiting
    <3>3. executed[c] + writes \in Nat
      BY DEF TypeOK
    <3>4. QED
      BY <2>5, <3>1, <3>2, <3>3 DEF ServeRequest, Served, TypeOK
  <2>6. CASE Reply(c) /\ Retryable(c)
    <3>1. [call[c] EXCEPT !.phase = "ask", !.retried = TRUE, !.spare = 1, !.header = None] \in Call
      <4>1. 1 \in 0 .. 1 /\ "ask" \in {"idle"} \cup Waiting /\ None \in Tokens \cup {None}
        BY DEF Waiting
      <4>2. QED
        BY <2>0, <4>1 DEF Call
    <3>2. QED
      BY <2>0, <2>6, <3>1 DEF Reply, Again, TypeOK
  <2>7. ASSUME NEW outcome \in Results, End(c, outcome) PROVE TypeOK'
    BY <2>0, <2>7, IdleType DEF End, TypeOK
  <2>8. call[c].status \in Results /\ "lost" \in Results
    BY <2>0 DEF Call, Results
  <2>9. QED
    BY <1>4, <2>1, <2>2, <2>3, <2>4, <2>5, <2>6, <2>7, <2>8 DEF Progress, Reply, Lose
<1>5. QED
  BY <1>1, <1>2, <1>3, <1>4 DEF Next

-------------------------------------------------------------------------------
(* The inductive invariant.                                                *)

\* A step that leaves a call alone keeps what is known of it, if the cookie
\* stays or the change is recorded.
LEMMA CallLeftAlone ==
  ASSUME NEW d \in Calls, Executions(d), TokenInHand(d),
         call'[d] = call[d], executed'[d] = executed[d], result'[d] = result[d],
         upset'[d] \/ (upset'[d] = upset[d] /\ jar' = jar)
  PROVE  Executions(d)' /\ TokenInHand(d)'
BY DEF Executions, TokenInHand

\* A call that goes on after a fetch: it is over, asks again, or is sent.
LEMMA SuppliedCases ==
  ASSUME TypeOK, NEW c \in Calls, NEW t
  PROVE  \/ call[c].kind = "refresh" /\ Supplied(c, t).phase = "idle"
         \/ call[c].kind # "refresh" /\ t = None /\ Supplied(c, t).phase = "ask"
         \/ /\ call[c].kind # "refresh" /\ Supplied(c, t).phase = "post"
            /\ Supplied(c, t).header = t
            /\ Supplied(c, t).kind = call[c].kind
BY DEF TypeOK, Supplied, Idle, NewCall, Call

\* Every step of the system keeps what is known of every call.
LEMMA CallsStep ==
  IInv /\ [Next]_vars => \A d \in Calls : Executions(d)' /\ TokenInHand(d)'
<1> SUFFICES ASSUME IInv, [Next]_vars, NEW d \in Calls
             PROVE  Executions(d)' /\ TokenInHand(d)'
  OBVIOUS
<1>0. TypeOK /\ Executions(d) /\ TokenInHand(d)
  BY DEF IInv
<1>1. CASE UNCHANGED vars
  BY <1>0, <1>1, CallLeftAlone DEF vars
<1>2. CASE Expire
  BY <1>0, <1>2, CallLeftAlone DEF Expire, TypeOK
<1>3. ASSUME NEW c \in Calls, NEW p \in Pages, Write(c, p) \/ Refresh(c, p) \/ Logout(c, p)
      PROVE  Executions(d)' /\ TokenInHand(d)'
  <2>1. CASE d # c
    <3>1. /\ call'[d] = call[d] /\ executed'[d] = executed[d] /\ result'[d] = result[d]
          /\ upset'[d] = upset[d] /\ jar' = jar
      BY <1>0, <1>3, <2>1 DEF Write, Refresh, Logout, Begin, TypeOK
    <3>2. QED
      BY <1>0, <3>1, CallLeftAlone
  <2>2. CASE d = c
    <3>1. /\ call'[c].phase \in {"ask", "post"} /\ ~call'[c].retried
          /\ call'[c].phase = "post" => call'[c].kind = "write"
          /\ executed'[c] = 0 /\ result'[c] = "none"
      BY <1>0, <1>3 DEF Write, Refresh, Logout, Begin, NewCall, TypeOK
    <3>2. QED
      BY <2>2, <3>1 DEF Executions, TokenInHand
  <2>3. QED
    BY <2>1, <2>2
<1>4. ASSUME NEW c \in Calls, Progress(c) PROVE Executions(d)' /\ TokenInHand(d)'
  <2>0. /\ TypeOK /\ Executions(c) /\ TokenInHand(c)
        /\ call \in [Calls -> Call] /\ call[c] \in Call
    BY DEF IInv, TypeOK
  <2>1. CASE d # c
    <3>1. ASSUME NEW outcome, End(c, outcome)
          PROVE  /\ call'[d] = call[d] /\ executed'[d] = executed[d] /\ result'[d] = result[d]
                 /\ upset'[d] = upset[d] /\ jar' = jar
      BY <1>0, <2>1, <3>1 DEF End, TypeOK
    <3>2. /\ call'[d] = call[d] /\ executed'[d] = executed[d] /\ result'[d] = result[d]
          /\ upset'[d] \/ (upset'[d] = upset[d] /\ jar' = jar)
      <4>1. CASE ServeToken(c)
        BY <1>0, <2>1, <4>1 DEF ServeToken, TypeOK
      <4>2. CASE StoreCookie(c)
        BY <1>0, <2>1, <4>2 DEF StoreCookie, TypeOK
      <4>3. CASE ReadToken(c) \/ TokenFails(c)
        BY <1>0, <2>1, <4>3 DEF ReadToken, TokenFails, TypeOK
      <4>4. CASE ServeRequest(c)
        <5>1. PICK status \in Statuses, writes \in {0, 1} : Served(c, status, writes)
          BY <4>4, ServeRequestDetail
        <5>2. QED
          BY <1>0, <2>1, <5>1 DEF Served, TypeOK
      <4>5. CASE Reply(c) \/ Lose(c)
        BY <1>0, <2>1, <3>1, <4>5 DEF Reply, Again, Lose, TypeOK
      <4>6. QED
        BY <1>4, <4>1, <4>2, <4>3, <4>4, <4>5 DEF Progress
    <3>3. QED
      BY <1>0, <3>2, CallLeftAlone
  <2>2. CASE d = c
    <3>1. CASE ServeToken(c)
      <4>1. PICK t \in IF jar # None THEN {jar} ELSE Unused :
              call' = [call EXCEPT ![c].phase = "answered", ![c].issued = t, ![c].set = (jar = None)]
        BY <3>1 DEF ServeToken
      <4>2. t \in Tokens /\ (jar # None => t = jar)
        BY <2>0, <4>1 DEF TypeOK, Unused
      <4>3. /\ call'[c].phase = "answered" /\ call'[c].issued = t
            /\ call'[c].set = (jar = None)
        BY <2>0, <4>1 DEF Call
      <4>4. /\ call[c].phase = "ask" /\ jar' = jar
            /\ executed'[c] = executed[c] /\ result'[c] = result[c]
        BY <3>1 DEF ServeToken
      <4>5. QED
        BY <2>0, <2>2, <4>2, <4>3, <4>4 DEF Executions, TokenInHand
    <3>2. CASE StoreCookie(c)
      <4>1. /\ call'[c].phase = "body" /\ call'[c].issued = call[c].issued
            /\ call[c].phase = "answered"
            /\ executed'[c] = executed[c] /\ result'[c] = result[c]
        BY <2>0, <3>2 DEF StoreCookie, Call
      <4>2. IF call[c].set THEN jar' = call[c].issued /\ upset'[c] = upset[c]
                           ELSE jar' = jar /\ upset'[c] = upset[c]
        BY <2>0, <3>2 DEF StoreCookie, TypeOK
      <4>3. QED
        BY <2>0, <2>2, <4>1, <4>2 DEF Executions, TokenInHand
    <3>3. CASE ReadToken(c)
      <4>1. /\ call[c].phase = "body" /\ call'[c] = Supplied(c, call[c].issued)
            /\ executed'[c] = executed[c] /\ result'[c] = result[c]
            /\ jar' = jar /\ upset'[c] = upset[c]
        BY <2>0, <3>3 DEF ReadToken
      <4>2. call[c].issued \in Tokens /\ call[c].issued # None
        BY <2>0, <4>1, FetchAssumption DEF TokenInHand
      <4>3. QED
        BY <2>0, <2>2, <4>1, <4>2, SuppliedCases DEF Executions, TokenInHand
    <3>4. CASE TokenFails(c)
      <4>1. /\ call[c].phase \in {"ask", "answered", "body"} /\ call'[c] = Supplied(c, None)
            /\ executed'[c] = executed[c] /\ result'[c] = result[c] /\ upset'[c]
        BY <2>0, <3>4 DEF TokenFails, TypeOK
      <4>2. QED
        BY <2>0, <2>2, <4>1, SuppliedCases DEF Executions, TokenInHand
    <3>5. CASE ServeRequest(c)
      <4>1. PICK status \in Statuses, writes \in {0, 1} : Served(c, status, writes)
        BY <3>5, ServeRequestDetail
      <4>2. /\ call[c].phase = "post" /\ call'[c].phase = "replied" /\ call'[c].status = status
            /\ call'[c].retried = call[c].retried /\ call'[c].kind = call[c].kind
            /\ result'[c] = result[c] /\ jar' = jar /\ upset'[c] = upset[c]
        BY <2>0, <4>1 DEF Served, Call
      <4>3. executed'[c] = writes
        BY <2>0, <4>1 DEF Served, Executions, TypeOK
      <4>4. status = "refused" => jar = None \/ call[c].header # jar
        BY <4>1 DEF Served, TokenAccepted
      <4>5. Executions(c)'
        <5>1. executed'[c] \in CASE status = "ok" -> {1} [] status = "error" -> {0, 1} [] OTHER -> {0}
          BY <4>1, <4>3 DEF Served, Statuses
        <5>2. call[c].phase # "idle" /\ result'[c] = "none"
          BY <2>0, <4>2 DEF Executions
        <5>3. QED
          BY <4>2, <5>1, <5>2 DEF Executions
      <4>6. TokenInHand(c)'
        BY <2>0, <4>2, <4>4 DEF TokenInHand
      <4>7. QED
        BY <2>2, <4>5, <4>6
    <3>6. CASE Reply(c) /\ Retryable(c)
      <4>1. /\ call'[c].phase = "ask" /\ call[c].phase = "replied"
            /\ call[c].status \in {"refused", "forbidden"}
            /\ executed'[c] = executed[c] /\ result'[c] = result[c]
        BY <2>0, <3>6 DEF Reply, Again, Retryable, Call
      <4>2. QED
        BY <2>0, <2>2, <4>1 DEF Executions, TokenInHand
    <3>7. CASE (Reply(c) /\ ~Retryable(c)) \/ Lose(c)
      <4>1. PICK outcome : /\ End(c, outcome)
                           /\ \/ outcome = "lost" /\ call[c].phase \in {"post", "replied"}
                              \/ /\ call[c].phase = "replied" /\ outcome = call[c].status
                                 /\ ~Retryable(c)
        BY <3>7 DEF Reply, Lose
      <4>2. /\ call'[c].phase = "idle" /\ executed'[c] = executed[c] /\ result'[c] = outcome
            /\ upset'[c] = upset[c]
        BY <2>0, <4>1 DEF End, Idle, NewCall, TypeOK
      <4>3. Executions(c)'
        BY <2>0, <4>1, <4>2 DEF Executions, Call, Statuses
      <4>4. TokenInHand(c)'
        BY <2>0, <4>1, <4>2 DEF TokenInHand, Retryable
      <4>5. QED
        BY <2>2, <4>3, <4>4
    <3>8. QED
      BY <1>4, <3>1, <3>2, <3>3, <3>4, <3>5, <3>6, <3>7 DEF Progress
  <2>3. QED
    BY <2>1, <2>2
<1>5. QED
  BY <1>1, <1>2, <1>3, <1>4 DEF Next

\* The initial state satisfies the invariant.
LEMMA InitIInv == Init => IInv
<1> SUFFICES ASSUME Init PROVE IInv
  OBVIOUS
<1>1. TypeOK
  BY IdleType, FetchAssumption DEF Init, TypeOK, Results
<1>2. \A c \in Calls : Executions(c) /\ TokenInHand(c)
  BY DEF Init, Idle, NewCall, Executions, TokenInHand
<1>3. QED
  BY <1>1, <1>2 DEF IInv

\* The invariant of the calls and their tokens.
THEOREM FetchInvariant == Spec => []IInv
<1>1. IInv /\ [Next]_vars => IInv'
  BY TypeOKStep, CallsStep DEF IInv
<1>2. QED
  BY InitIInv, <1>1, PTL DEF Spec

-------------------------------------------------------------------------------
(* What the system promises.                                               *)

\* The variables keep their types.
THEOREM FetchTypeCorrect == Spec => []TypeOK
<1>1. IInv => TypeOK
  BY DEF IInv
<1>2. QED
  BY FetchInvariant, <1>1, PTL

\* No write is executed twice, and what the page is told of it is true.
THEOREM NoWriteTwice == Spec => []WrittenOnce
<1>1. IInv => WrittenOnce
  <2> SUFFICES ASSUME IInv, NEW c \in Calls
               PROVE  /\ executed[c] <= 1
                      /\ result[c] = "ok" => executed[c] = 1
                      /\ result[c] \in {"refused", "forbidden"} => executed[c] = 0
    BY DEF WrittenOnce
  <2>1. Executions(c) /\ call[c] \in Call
    BY DEF IInv, TypeOK
  <2>2. CASE call[c].phase = "idle"
    BY <2>1, <2>2 DEF Executions
  <2>3. CASE call[c].phase \in {"ask", "answered", "body", "post"}
    BY <2>1, <2>3 DEF Executions
  <2>4. CASE call[c].phase = "replied"
    BY <2>1, <2>4 DEF Executions
  <2>5. call[c].phase \in {"idle"} \cup Waiting
    BY <2>1 DEF Call
  <2>6. QED
    BY <2>2, <2>3, <2>4, <2>5 DEF Waiting
<1>2. QED
  BY FetchInvariant, <1>1, PTL

\* A write is only refused in the end when the cookie changed under its retry,
\* or a fetch of the token failed.
THEOREM RetriesRepair == Spec => []RetryRepairs
<1>1. IInv => RetryRepairs
  <2> SUFFICES ASSUME IInv, NEW c \in Calls, result[c] = "refused" PROVE upset[c]
    BY DEF RetryRepairs
  <2>1. Executions(c) /\ TokenInHand(c)
    BY DEF IInv
  <2>2. call[c].phase = "idle"
    BY <2>1 DEF Executions
  <2>3. QED
    BY <2>1, <2>2 DEF TokenInHand
<1>2. QED
  BY FetchInvariant, <1>1, PTL

\* The steps a call has left, by where it is.
LEMMA StepsLeftValue ==
  ASSUME NEW r \in Call
  PROVE  \E retries \in {0, 1} :
           /\ retries = 0 <=> r.kind = "refresh" \/ r.retried
           /\ r.phase = "idle" => StepsLeft(r) = 0
           /\ r.phase = "replied" => StepsLeft(r) = 1 + 8 * retries
           /\ r.phase = "post" => StepsLeft(r) = 2 + 8 * retries
           /\ r.phase = "body" => StepsLeft(r) = 3 + 3 * r.spare + 8 * retries
           /\ r.phase = "answered" => StepsLeft(r) = 4 + 3 * r.spare + 8 * retries
           /\ r.phase = "ask" => StepsLeft(r) = 5 + 3 * r.spare + 8 * retries
<1>1. r.spare \in 0 .. 1
  BY DEF Call
<1>2. CASE r.kind = "refresh" \/ r.retried
  BY <1>1, <1>2 DEF StepsLeft
<1>3. CASE ~(r.kind = "refresh" \/ r.retried)
  BY <1>1, <1>3 DEF StepsLeft
<1>4. QED
  BY <1>2, <1>3

\* No call goes on for ever: each of its steps brings it nearer to its end.
THEOREM CallsEnd == Spec => CallsComeToAnEnd
<1>1. IInv /\ [Next]_vars => [CallsAdvance]_vars
  <2> SUFFICES ASSUME IInv, Next, NEW d \in Calls, call[d].phase # "idle"
               PROVE  call'[d] = call[d] \/ StepsLeft(call'[d]) < StepsLeft(call[d])
    BY DEF vars, CallsAdvance
  <2>0. /\ TypeOK /\ TokenInHand(d)
        /\ call \in [Calls -> Call] /\ call[d] \in Call
    BY DEF IInv, TypeOK
  <2>1. CASE Expire
    BY <2>1 DEF Expire
  <2>2. ASSUME NEW c \in Calls, NEW p \in Pages, Write(c, p) \/ Refresh(c, p) \/ Logout(c, p)
        PROVE  call'[d] = call[d]
    BY <2>0, <2>2 DEF Write, Refresh, Logout, Begin, TypeOK
  <2>3. ASSUME NEW c \in Calls, c # d, Progress(c) PROVE call'[d] = call[d]
    <3>1. ServeRequest(c) => call'[d] = call[d]
      BY <2>0, <2>3, ServeRequestDetail DEF Served, TypeOK
    <3>2. QED
      BY <2>0, <2>3, <3>1 DEF Progress, ServeToken, StoreCookie, ReadToken, TokenFails, Reply,
                              Again, Lose, End, TypeOK
  <2>4. ASSUME Progress(d) PROVE StepsLeft(call'[d]) < StepsLeft(call[d])
    <3>0. /\ call[d] \in Call /\ call'[d] \in Call
          /\ call[d].spare \in 0 .. 1 /\ call'[d].spare \in 0 .. 1
      <4>1. call' \in [Calls -> Call]
        BY <2>0, TypeOKStep DEF TypeOK
      <4>2. QED
        BY <2>0, <4>1 DEF Call
    <3>1. CASE ServeToken(d)
      <4>1. /\ call[d].phase = "ask" /\ call'[d].phase = "answered"
            /\ call'[d].kind = call[d].kind /\ call'[d].retried = call[d].retried
            /\ call'[d].spare = call[d].spare
        BY <2>0, <3>1 DEF ServeToken, Call
      <4>2. QED
        BY <3>0, <4>1, StepsLeftValue
    <3>2. CASE StoreCookie(d)
      <4>1. /\ call[d].phase = "answered" /\ call'[d].phase = "body"
            /\ call'[d].kind = call[d].kind /\ call'[d].retried = call[d].retried
            /\ call'[d].spare = call[d].spare
        BY <2>0, <3>2 DEF StoreCookie, Call
      <4>2. QED
        BY <3>0, <4>1, StepsLeftValue
    <3>3. CASE ReadToken(d) \/ TokenFails(d)
      <4>1. PICK t : /\ call[d].phase \in {"ask", "answered", "body"}
                     /\ call'[d] = Supplied(d, t)
        BY <2>0, <3>3 DEF ReadToken, TokenFails
      <4>2. CASE call'[d].phase = "idle"
        BY <3>0, <4>1, <4>2, StepsLeftValue
      <4>3. CASE call[d].kind # "refresh" /\ t = None /\ call[d].spare > 0
        <5>1. /\ call'[d].phase = "ask" /\ call'[d].spare = 0
              /\ call'[d].kind = call[d].kind /\ call'[d].retried = call[d].retried
          BY <2>0, <4>1, <4>3 DEF Supplied, Call
        <5>2. QED
          BY <3>0, <4>1, <4>3, <5>1, StepsLeftValue
      <4>4. CASE call[d].kind # "refresh" /\ ~(t = None /\ call[d].spare > 0)
        <5>1. /\ call'[d].phase = "post"
              /\ call'[d].kind = call[d].kind /\ call'[d].retried = call[d].retried
          BY <2>0, <4>1, <4>4 DEF Supplied, Call
        <5>2. QED
          BY <3>0, <4>1, <5>1, StepsLeftValue
      <4>5. CASE call[d].kind = "refresh"
        BY <4>1, <4>2, <4>5 DEF Supplied, Idle, NewCall
      <4>6. QED
        BY <4>3, <4>4, <4>5
    <3>4. CASE ServeRequest(d)
      <4>1. /\ call[d].phase = "post" /\ call'[d].phase = "replied"
            /\ call'[d].kind = call[d].kind /\ call'[d].retried = call[d].retried
        <5>1. PICK status \in Statuses, writes \in {0, 1} : Served(d, status, writes)
          BY <3>4, ServeRequestDetail
        <5>2. QED
          BY <2>0, <5>1 DEF Served, Call
      <4>2. QED
        BY <3>0, <4>1, StepsLeftValue
    <3>5. CASE Reply(d) /\ Retryable(d)
      <4>1. /\ call[d].phase = "replied" /\ call'[d].phase = "ask"
            /\ ~call[d].retried /\ call'[d].retried /\ call'[d].spare = 1
            /\ call'[d].kind = call[d].kind /\ call[d].kind # "refresh"
        BY <2>0, <3>5 DEF Reply, Retryable, Again, Call, TokenInHand
      <4>2. QED
        BY <3>0, <4>1, StepsLeftValue
    <3>6. CASE (Reply(d) /\ ~Retryable(d)) \/ Lose(d)
      <4>1. call[d].phase \in {"post", "replied"} /\ call'[d].phase = "idle"
        BY <2>0, <3>6 DEF Reply, Lose, End, Idle, NewCall
      <4>2. QED
        BY <3>0, <4>1, StepsLeftValue
    <3>7. QED
      BY <2>4, <3>1, <3>2, <3>3, <3>4, <3>5, <3>6 DEF Progress
  <2>5. QED
    BY <2>1, <2>2, <2>3, <2>4 DEF Next
<1>2. QED
  BY FetchInvariant, <1>1, PTL DEF Spec, CallsComeToAnEnd
===============================================================================
