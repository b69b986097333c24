------------------------------- MODULE CsrfFetch ------------------------------
(***************************************************************************)
(* The CSRF protection of backend/middleware/csrf.go and the wrapper that  *)
(* the pages send their requests through, frontend/public/app/auth.js.     *)
(*                                                                         *)
(* The server keeps no state: a token travels in a signed cookie, which    *)
(* all pages of the browser share, and in a header, which each page fills  *)
(* from its own copy. A write is served when the two agree. Cookie and     *)
(* copy are fetched by fetchCSRF, and part when the cookie expires or      *)
(* another fetch replaces it; apiFetch then repairs its copy and sends the *)
(* request once more.                                                      *)
(*                                                                         *)
(* A fetch is three steps: the server answers for the cookie it gets, the  *)
(* browser stores the cookie of the answer's headers, the page reads its   *)
(* body. Everything between two awaits of a page is one step. Tokens are   *)
(* random: a new one is a token nobody holds.                              *)
(***************************************************************************)
EXTENDS Integers, FiniteSets

CONSTANTS
  Calls,   \* the calls that may be under way at a time
  Pages,   \* tabs of one browser
  Tokens,
  None

ASSUME FetchAssumption == Pages # {} /\ None \notin Tokens

VARIABLES
  jar,       \* the token in the browser's cookie
  cache,     \* _csrf of each page
  call,      \* the calls
  executed,  \* history: how often the write of each call was executed
  upset,     \* history: the cookie changed since the call began, or got its token
  result     \* history: what became of the call before

vars == <<jar, cache, call, executed, upset, result>>

Kinds == {"write", "refresh", "logout"}
Waiting == {"ask", "answered", "body", "post", "replied"}
Statuses == {"ok", "error", "refused", "forbidden"}
Results == Statuses \cup {"none", "lost"}

\* page: the page whose script runs it. phase: what the call waits for. spare: how often a failed fetch of the token
\* may be repeated. issued, set: the answer of /api/csrf and whether it brings a
\* cookie. status: the answer to the request itself.
Call ==
  [page : Pages, kind : Kinds, phase : {"idle"} \cup Waiting, retried : BOOLEAN, spare : 0 .. 1,
   header : Tokens \cup {None}, issued : Tokens \cup {None}, set : BOOLEAN, status : Statuses]

NewCall(p, kind, phase, spare, header) ==
  [page |-> p, kind |-> kind, phase |-> phase, retried |-> FALSE, spare |-> spare,
   header |-> header, issued |-> None, set |-> FALSE, status |-> "ok"]

Idle == NewCall(CHOOSE p \in Pages : TRUE, "refresh", "idle", 0, None)

\* Tokens that nobody holds. There is always one when a new token is asked for
\* if there are more tokens than pages and other calls.
Unused ==
  Tokens \ ({jar} \cup {cache[p] : p \in Pages}
              \cup UNION {{call[c].header, call[c].issued} : c \in Calls})

Init ==
  /\ jar = None
  /\ cache = [p \in Pages |-> None]
  /\ call = [c \in Calls |-> Idle]
  /\ executed = [c \in Calls |-> 0]
  /\ upset = [c \in Calls |-> FALSE]
  /\ result = [c \in Calls |-> "none"]

-------------------------------------------------------------------------------
(* A call begins.                                                          *)

Begin(c, first) ==
  /\ call[c].phase = "idle"
  /\ call' = [call EXCEPT ![c] = first]
  /\ executed' = [executed EXCEPT ![c] = 0]
  /\ result' = [result EXCEPT ![c] = "none"]
  /\ upset' = [upset EXCEPT ![c] = FALSE]
  /\ UNCHANGED jar

\* apiFetch with POST, PUT, PATCH or DELETE: the page's token, or a fetch of one.
Write(c, p) ==
  /\ Begin(c, NewCall(p, "write", IF cache[p] = None THEN "ask" ELSE "post", 0, cache[p]))
  /\ UNCHANGED cache

\* fetchCSRF on its own: when a page loads, after login, before a new password.
Refresh(c, p) ==
  /\ Begin(c, NewCall(p, "refresh", "ask", 0, None))
  /\ UNCHANGED cache

\* logout forgets the token and fetches it before its POST.
Logout(c, p) ==
  /\ Begin(c, NewCall(p, "logout", "ask", 1, None))
  /\ cache' = [cache EXCEPT ![p] = None]

-------------------------------------------------------------------------------
(* fetchCSRF.                                                              *)

\* CSRFTokenHandler: the cookie's token, or a new one with a new cookie.
ServeToken(c) ==
  /\ call[c].phase = "ask"
  /\ \E t \in IF jar # None THEN {jar} ELSE Unused :
       call' = [call EXCEPT ![c].phase = "answered", ![c].issued = t, ![c].set = (jar = None)]
  /\ upset' = [upset EXCEPT ![c] = FALSE]
  /\ UNCHANGED <<jar, cache, executed, result>>

\* The browser gets the headers of the answer.
StoreCookie(c) ==
  /\ call[c].phase = "answered"
  /\ call' = [call EXCEPT ![c].phase = "body"]
  /\ IF call[c].set
       THEN /\ jar' = call[c].issued
            /\ upset' = [d \in Calls |-> upset[d] \/ d # c]
       ELSE UNCHANGED <<jar, upset>>
  /\ UNCHANGED <<cache, executed, result>>

\* Mistake: the headers are not built again after the fetch.
SuppliedOldHeader(c, t) ==
  IF call[c].kind = "refresh" THEN Idle ELSE [call[c] EXCEPT !.phase = "post", !.issued = None]

\* The call with token t, or with none: a fetch that failed is repeated where
\* buildHeaders finds no token after it.
Supplied(c, t) ==
  CASE call[c].kind = "refresh" -> Idle
    [] call[c].kind # "refresh" /\ t = None /\ call[c].spare > 0 ->
         [call[c] EXCEPT !.phase = "ask", !.spare = 0, !.issued = None]
    [] OTHER ->
         [call[c] EXCEPT !.phase = "post", !.header = t, !.issued = None]

\* The page reads the token and goes on.
ReadToken(c) ==
  /\ call[c].phase = "body"
  /\ cache' = [cache EXCEPT ![call[c].page] = call[c].issued]
  /\ call' = [call EXCEPT ![c] = Supplied(c, call[c].issued)]
  /\ UNCHANGED <<jar, executed, upset, result>>

\* The fetch throws: no answer, an error status, or no JSON.
TokenFails(c) ==
  /\ call[c].phase \in {"ask", "answered", "body"}
  /\ cache' = [cache EXCEPT ![call[c].page] = None]
  /\ call' = [call EXCEPT ![c] = Supplied(c, None)]
  /\ upset' = [upset EXCEPT ![c] = TRUE]
  /\ UNCHANGED <<jar, executed, result>>

-------------------------------------------------------------------------------
(* The request itself.                                                     *)

\* CSRFBypass and validateRequest: the header agrees with the cookie, or the
\* route is one of bypassPaths.
TokenAccepted(c) == call[c].kind = "logout" \/ (jar # None /\ call[c].header = jar)

\* CSRFProtect. What it lets through is executed, unless a handler finds that
\* the caller's role or the host forbids it, which all do before they act; a
\* handler that fails may have acted before.
ServeRequest(c) ==
  /\ call[c].phase = "post"
  /\ \E status \in IF TokenAccepted(c) THEN {"ok", "error", "forbidden"} ELSE {"refused"} :
       /\ call[c].kind = "logout" => status # "forbidden"
       /\ call' = [call EXCEPT ![c].phase = "replied", ![c].status = status]
       /\ \E writes \in CASE status = "ok" -> {1} [] status = "error" -> {0, 1} [] OTHER -> {0} :
            executed' = [executed EXCEPT ![c] = @ + writes]
  /\ UNCHANGED <<jar, cache, upset, result>>

\* The call is over. logout forgets the token a second time.
End(c, outcome) ==
  /\ call' = [call EXCEPT ![c] = Idle]
  /\ result' = [result EXCEPT ![c] = outcome]
  /\ cache' = IF call[c].kind = "logout" THEN [cache EXCEPT ![call[c].page] = None] ELSE cache
  /\ UNCHANGED <<jar, executed, upset>>

\* Mistakes: every failure is sent again; every 403 is sent again for ever.
RetryableError(c) == call[c].status # "ok" /\ ~call[c].retried
RetryableAlways(c) == call[c].status \in {"refused", "forbidden"}

\* A 403, the first time.
Retryable(c) == call[c].status \in {"refused", "forbidden"} /\ ~call[c].retried

\* The token is forgotten and fetched anew, then the request is sent again.
Again(c) ==
  /\ call' = [call EXCEPT ![c].phase = "ask", ![c].retried = TRUE, ![c].spare = 1,
                          ![c].header = None]
  /\ cache' = [cache EXCEPT ![call[c].page] = None]
  /\ UNCHANGED <<jar, executed, upset, result>>

Reply(c) ==
  /\ call[c].phase = "replied"
  /\ IF Retryable(c) THEN Again(c) ELSE End(c, call[c].status)

\* The connection breaks, before or after the server got the request.
Lose(c) ==
  /\ call[c].phase \in {"post", "replied"}
  /\ End(c, "lost")

\* The cookie's hour is over.
Expire ==
  /\ jar # None
  /\ jar' = None
  /\ upset' = [c \in Calls |-> TRUE]
  /\ UNCHANGED <<cache, call, executed, result>>

-------------------------------------------------------------------------------

Progress(c) ==
  \/ ServeToken(c) \/ StoreCookie(c) \/ ReadToken(c) \/ TokenFails(c)
  \/ ServeRequest(c) \/ Reply(c) \/ Lose(c)

Next ==
  \/ Expire
  \/ \E c \in Calls : Progress(c) \/ \E p \in Pages : Write(c, p) \/ Refresh(c, p) \/ Logout(c, p)

Spec == Init /\ [][Next]_vars

-------------------------------------------------------------------------------
(* Correctness.                                                            *)

\* The variables hold values of their types.
TypeOK ==
  /\ jar \in Tokens \cup {None}
  /\ cache \in [Pages -> Tokens \cup {None}]
  /\ call \in [Calls -> Call]
  /\ executed \in [Calls -> Nat]
  /\ upset \in [Calls -> BOOLEAN]
  /\ result \in [Calls -> Results]

\* The retry is invisible: a write is executed at most once, and what the page
\* is told is true. Told that it was done, it was; told 403, it was not.
WrittenOnce ==
  \A c \in Calls :
    /\ executed[c] <= 1
    /\ result[c] = "ok" => executed[c] = 1
    /\ result[c] \in {"refused", "forbidden"} => executed[c] = 0

\* The retry repairs: a stale copy, a lost cookie or a crossing of two fetches
\* never makes a write fail in the end. Only a change of the cookie between the
\* issue of the retry's token and its use does, or a fetch that fails.
RetryRepairs == \A c \in Calls : result[c] = "refused" => upset[c]

\* How often the call has been executed, by how far it is.
Executions(c) ==
  /\ call[c].phase \in {"ask", "answered", "body", "post"} => executed[c] = 0
  /\ call[c].phase = "replied" => executed[c] \in
       CASE call[c].status = "ok" -> {1} [] call[c].status = "error" -> {0, 1} [] OTHER -> {0}
  /\ call[c].phase = "idle" => executed[c] \in
       CASE result[c] = "ok" -> {1} [] result[c] \in {"refused", "forbidden"} -> {0} [] OTHER -> {0, 1}
  /\ call[c].phase # "idle" => result[c] = "none"

\* As long as nothing upsets it, a call that has fetched its token holds the one
\* of the cookie. So does every second attempt, which is then not refused.
TokenInHand(c) ==
  /\ call[c].phase \in {"answered", "body"} => call[c].issued \in Tokens
  /\ call[c].phase = "answered" /\ ~call[c].set /\ ~upset[c] => call[c].issued = jar
  /\ call[c].phase = "body" /\ ~upset[c] => call[c].issued = jar
  /\ call[c].phase = "post" /\ call[c].retried /\ ~upset[c] => jar # None /\ call[c].header = jar
  /\ call[c].phase = "replied" /\ call[c].status = "refused" /\ call[c].retried => upset[c]
  /\ call[c].phase = "idle" /\ result[c] = "refused" => upset[c]
  /\ call[c].phase \in {"post", "replied"} => call[c].kind # "refresh"

IInv == TypeOK /\ \A c \in Calls : Executions(c) /\ TokenInHand(c)

\* How many steps a call may still take, at most: two requests, each with a fetch of
\* three steps before it, and one fetch more where a token may be asked for twice.
StepsLeft(r) ==
  LET fetches == IF r.phase \in {"ask", "answered", "body"} THEN r.spare ELSE 0
      retries == IF r.kind = "refresh" \/ r.retried THEN 0 ELSE 1
      own     == [idle |-> 0, replied |-> 1, post |-> 2, body |-> 3, answered |-> 4, ask |-> 5]
  IN  IF r.phase = "idle" THEN 0 ELSE own[r.phase] + 3 * fetches + 8 * retries

CallsAdvance ==
  \A c \in Calls : call[c].phase # "idle" =>
    \/ call'[c] = call[c]
    \/ StepsLeft(call'[c]) < StepsLeft(call[c])

\* Every call ends, whatever expires and whatever other calls do to its token:
\* each of its steps takes it nearer to its end, and no step of another call
\* takes it farther away. (With the fact that every request is answered or
\* fails: always a step is possible.)
CallsComeToAnEnd == [][CallsAdvance]_vars
===============================================================================
