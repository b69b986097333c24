----------------------------- MODULE PageSession ------------------------------
(***************************************************************************)
(* Signing in and out: init, doLogin and startOAuth of                     *)
(* frontend/public/app/app.js, login and logout of auth.js, the logout     *)
(* button of logout.js, against Login, Logout and Session of               *)
(* backend/auth/handlers.go and the OAuth handlers of auth/oauth.go.       *)
(*                                                                         *)
(* The tabs of a browser share the session cookie, the cookie with the     *)
(* state of the OAuth flow begun last, and the flag "_logged_out" of the   *)
(* local storage, which logout leaves for pages that are loaded later. A   *)
(* request is three steps: it is sent with the cookie as it is then, the   *)
(* server answers, the browser gets the answer and its cookie. CSRF tokens *)
(* are CsrfFetch's matter; what a signed-in page shows is left out.        *)
(***************************************************************************)
EXTENDS Integers

CONSTANTS Tabs, None

ASSUME SessionAssumption == None \notin Tabs

VARIABLES
  cookie,    \* has the browser a session cookie that has not expired?
  flag,      \* is _logged_out set?
  state,     \* the tab whose OAuth flow the state cookie belongs to
  tab,       \* the tabs: the page, the request it waits for, and its answer
  out,       \* history: has somebody logged out since the last sign-in?
  keptOut,   \* history: had somebody, ever since the tab's page was loaded?
  signedIn,  \* history: how the browser was signed in, if nothing ended that
  keptIn     \* history: the same, ever since the tab's page was loaded

vars == <<cookie, flag, state, tab, out, keptOut, signedIn, keptIn>>

Ways == {"no", "password", "oauth"}

\* What a page may wait for. "assets" are the four public requests of init,
\* "user" the session asked for after a login. The page is never left blank
\* without a request that will lead on from it.
WaitsOn(page) ==
  CASE page = "loading" -> {"assets", "session"}
    [] page = "login"   -> {"none", "login", "user"}
    [] page = "app"     -> {"none", "logout"}
    [] page = "away"    -> {"none", "callback"}
    [] page = "error"   -> {"none"}

Pages == {"loading", "login", "app", "away", "error"}

Tab ==
  UNION {[page : {page}, wait : WaitsOn(page), sent : BOOLEAN, answer : {"none", "ok", "no"}] :
           page \in Pages}

Show(page) == [page |-> page, wait |-> "none", sent |-> FALSE, answer |-> "none"]

Ask(page, what) == [page |-> page, wait |-> what, sent |-> cookie, answer |-> "none"]

Init ==
  /\ cookie = FALSE /\ flag = FALSE /\ state = None
  /\ tab = [t \in Tabs |-> Ask("loading", "assets")]
  /\ out = FALSE /\ keptOut = [t \in Tabs |-> FALSE]
  /\ signedIn = "no" /\ keptIn = [t \in Tabs |-> "no"]

-------------------------------------------------------------------------------
(* What the history variables record.                                      *)

\* Tab t is signed in. A logout of another tab whose answer is still on its way
\* will end the session again.
SignIn(t, way) ==
  LET lasting == IF \E u \in Tabs \ {t} : tab[u].wait = "logout" THEN "no" ELSE way
  IN  /\ out' = FALSE
      /\ keptOut' = [u \in Tabs |-> FALSE]
      /\ signedIn' = lasting
      /\ keptIn' = [u \in Tabs |-> IF u = t THEN lasting ELSE "no"]

\* The session is over.
SignOut(loggedOut) ==
  /\ out' = (out \/ loggedOut)
  /\ signedIn' = "no"
  /\ keptIn' = [u \in Tabs |-> "no"]
  /\ UNCHANGED keptOut

Unrecorded == UNCHANGED <<out, keptOut, signedIn, keptIn>>

-------------------------------------------------------------------------------
(* A page is loaded.                                                       *)

\* The tab goes to "/" and init begins.
Load(t) ==
  /\ tab' = [tab EXCEPT ![t] = Ask("loading", "assets")]
  /\ keptOut' = [keptOut EXCEPT ![t] = out]
  /\ keptIn' = [keptIn EXCEPT ![t] = signedIn]
  /\ UNCHANGED <<out, signedIn>>

\* The user opens the page or loads it again, whatever it waits for.
Reload(t) == Load(t) /\ UNCHANGED <<cookie, flag, state>>

\* Mistake: a public request that fails makes init throw.
AssetsThrow(t) ==
  /\ tab[t].wait = "assets"
  /\ \E fails \in BOOLEAN :
       tab' = [tab EXCEPT ![t] = IF fails THEN Show("loading")
                                 ELSE IF flag THEN Show("login") ELSE Ask("loading", "session")]
  /\ UNCHANGED <<cookie, flag, state>> /\ Unrecorded

\* The public requests are answered, or fail, and init looks at the flag.
Assets(t) ==
  /\ tab[t].wait = "assets"
  /\ tab' = [tab EXCEPT ![t] = IF flag THEN Show("login") ELSE Ask("loading", "session")]
  /\ UNCHANGED <<cookie, flag, state>> /\ Unrecorded

\* init has its session, or none.
ReceiveSession(t) ==
  /\ tab[t].wait = "session" /\ tab[t].answer # "none"
  /\ tab' = [tab EXCEPT ![t] = Show(IF tab[t].answer = "ok" THEN "app" ELSE "login")]
  /\ UNCHANGED <<cookie, flag, state>> /\ Unrecorded

-------------------------------------------------------------------------------
(* Signing in.                                                             *)

\* doLogin. The page does not tell a wrong password until it is answered.
Submit(t) ==
  /\ tab[t].page = "login" /\ tab[t].wait = "none"
  /\ tab' = [tab EXCEPT ![t] = Ask("login", "login")]
  /\ UNCHANGED <<cookie, flag, state>> /\ Unrecorded

\* Mistake: the flag stays.
ReceiveLoginFlagged(t) ==
  /\ tab[t].wait = "login" /\ tab[t].answer # "none"
  /\ IF tab[t].answer = "ok"
       THEN /\ cookie' = TRUE
            /\ tab' = [tab EXCEPT ![t] = [Ask("login", "user") EXCEPT !.sent = TRUE]]
            /\ SignIn(t, "password")
       ELSE /\ tab' = [tab EXCEPT ![t] = Show("login")]
            /\ Unrecorded /\ UNCHANGED cookie
  /\ UNCHANGED <<flag, state>>

\* login removes the flag, and doLogin asks for the session.
ReceiveLogin(t) ==
  /\ tab[t].wait = "login" /\ tab[t].answer # "none"
  /\ IF tab[t].answer = "ok"
       THEN /\ cookie' = TRUE
            /\ flag' = FALSE
            /\ tab' = [tab EXCEPT ![t] = [Ask("login", "user") EXCEPT !.sent = TRUE]]
            /\ SignIn(t, "password")
       ELSE /\ tab' = [tab EXCEPT ![t] = Show("login")]
            /\ Unrecorded /\ UNCHANGED <<cookie, flag>>
  /\ UNCHANGED state

\* doLogin opens the dashboard, whatever the session was.
ReceiveUser(t) ==
  /\ tab[t].wait = "user" /\ tab[t].answer # "none"
  /\ tab' = [tab EXCEPT ![t] = Show("app")]
  /\ UNCHANGED <<cookie, flag, state>> /\ Unrecorded

\* startOAuth and LoginHandler: the tab gets a state and goes to the provider.
StartOAuth(t) ==
  /\ tab[t].page = "login" /\ tab[t].wait = "none"
  /\ tab' = [tab EXCEPT ![t] = Show("away")]
  /\ state' = t
  /\ UNCHANGED <<cookie, flag>> /\ Unrecorded

\* The provider sends the tab back with the state it went with. CallbackHandler
\* refuses it when the cookie holds another one.
Return(t) ==
  /\ tab[t].page = "away" /\ tab[t].wait = "none"
  /\ tab' = [tab EXCEPT ![t] = IF state = t THEN Ask("away", "callback") ELSE Show("error")]
  /\ UNCHANGED <<cookie, flag, state>> /\ Unrecorded

\* The callback's answer clears the state; it brings the session cookie and leads
\* to "/", or it is an error.
ReceiveCallback(t) ==
  /\ tab[t].wait = "callback" /\ tab[t].answer # "none"
  /\ state' = None
  /\ IF tab[t].answer = "ok"
       THEN /\ cookie' = TRUE
            /\ tab' = [tab EXCEPT ![t] = Ask("loading", "assets")]
            /\ SignIn(t, "oauth")
       ELSE /\ tab' = [tab EXCEPT ![t] = Show("error")]
            /\ Unrecorded /\ UNCHANGED cookie
  /\ UNCHANGED flag

-------------------------------------------------------------------------------
(* Signing out.                                                            *)

\* Mistake: the flag is set when the answer is there.
ClickLogoutUnflagged(t) ==
  /\ tab[t].page = "app" /\ tab[t].wait = "none"
  /\ tab' = [tab EXCEPT ![t] = Ask("app", "logout")]
  /\ SignOut(TRUE)
  /\ UNCHANGED <<cookie, flag, state>>

\* logout sets the flag and sends its request. (A second click does nothing.)
ClickLogout(t) ==
  /\ tab[t].page = "app" /\ tab[t].wait = "none"
  /\ flag' = TRUE
  /\ tab' = [tab EXCEPT ![t] = Ask("app", "logout")]
  /\ SignOut(TRUE)
  /\ UNCHANGED <<cookie, state>>

\* The answer clears the cookie; then logout.js loads "/".
ReceiveLogout(t) ==
  /\ tab[t].wait = "logout" /\ tab[t].answer # "none"
  /\ cookie' = FALSE
  /\ Load(t)
  /\ UNCHANGED <<flag, state>>

-------------------------------------------------------------------------------

\* The server answers: Session looks at the cookie that was sent, Login and the
\* exchange of the callback succeed or not, Logout always does.
Serve(t) ==
  /\ tab[t].wait \notin {"none", "assets"} /\ tab[t].answer = "none"
  /\ \E answer \in {"ok", "no"} :
       /\ tab[t].wait \in {"session", "user"} => (answer = "ok") = tab[t].sent
       /\ tab[t].wait = "logout" => answer = "ok"
       /\ tab' = [tab EXCEPT ![t].answer = answer]
  /\ UNCHANGED <<cookie, flag, state>> /\ Unrecorded

\* A request fails, before or after the server has got it: init and doLogin show
\* the login page, logout.js loads "/" all the same, the browser an error.
Lose(t) ==
  \/ /\ tab[t].wait \in {"session", "login", "user", "callback"}
     /\ tab' = [tab EXCEPT ![t] = Show(IF tab[t].wait = "callback" THEN "error" ELSE "login")]
     /\ UNCHANGED <<cookie, flag, state>> /\ Unrecorded
  \/ tab[t].wait = "logout" /\ Load(t) /\ UNCHANGED <<cookie, flag, state>>

\* The session's hour is over, by the cookie and by the token in it, which
\* requests under way carry.
Expire ==
  /\ cookie
  /\ cookie' = FALSE
  /\ tab' = [t \in Tabs |-> [tab[t] EXCEPT !.sent = FALSE]]
  /\ SignOut(FALSE)
  /\ UNCHANGED <<flag, state>>

Next ==
  \/ Expire
  \/ \E t \in Tabs :
       \/ Reload(t) \/ Assets(t) \/ ReceiveSession(t)
       \/ Submit(t) \/ ReceiveLogin(t) \/ ReceiveUser(t)
       \/ StartOAuth(t) \/ Return(t) \/ ReceiveCallback(t)
       \/ ClickLogout(t) \/ ReceiveLogout(t)
       \/ Serve(t) \/ Lose(t)

Spec == Init /\ [][Next]_vars

-------------------------------------------------------------------------------
(* Correctness.                                                            *)

\* The variables hold values of their types; no page is left blank with nothing
\* to wait for.
TypeOK ==
  /\ cookie \in BOOLEAN /\ flag \in BOOLEAN
  /\ state \in Tabs \cup {None}
  /\ tab \in [Tabs -> Tab]
  /\ out \in BOOLEAN /\ keptOut \in [Tabs -> BOOLEAN]
  /\ signedIn \in Ways /\ keptIn \in [Tabs -> Ways]

\* Who has clicked on logout is out: no page that is loaded later opens the
\* dashboard before somebody signs in again, whether the request of the logout
\* was served, lost, or cut off because the page was loaded again.
StaysOut == \A t \in Tabs : tab[t].page = "app" => ~keptOut[t]

\* A page that decides for the login page; one whose request failed decides
\* nothing.
TurnedAway(t) == tab[t].page = "loading" /\ tab'[t].page = "login" /\ ~Lose(t)

NobodyTurnedAway ==
  \A t \in Tabs : TurnedAway(t) => keptIn[t] = "no" \/ (keptIn[t] = "oauth" /\ flag)

\* Who has signed in with a password is in: until a logout or the end of the
\* hour every page that is loaded opens the dashboard. So it is after OAuth,
\* as long as nobody had logged out before.
StaysIn == [][NobodyTurnedAway]_vars

\* Who is out stays out because of the flag: no page of before a sign-in asks
\* for the session.
OutInv ==
  /\ out => flag
  /\ \A t \in Tabs : keptOut[t] => /\ out
                                  /\ tab[t].page # "app"
                                  /\ tab[t].wait \notin {"session", "user"}

\* Who is in has the cookie, and no answer on its way will take it.
InInv ==
  /\ signedIn # "no" => cookie /\ \A t \in Tabs : tab[t].wait # "logout"
  /\ signedIn = "password" => ~flag
  /\ \A t \in Tabs : keptIn[t] # "no" =>
       /\ keptIn[t] = signedIn
       /\ tab[t].wait = "session" => tab[t].sent /\ tab[t].answer # "no"

IInv == TypeOK /\ OutInv /\ InInv

\* What the comment in login says of a sign-in, for every way of signing in: the
\* user wants to be signed in, so that the flag of an earlier logout is gone.
SignInClearsFlag ==
  [][\A t \in Tabs : TurnedAway(t) => keptIn[t] = "no"]_vars
===============================================================================
