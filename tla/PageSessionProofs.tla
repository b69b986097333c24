--------------------------- MODULE PageSessionProofs --------------------------
(***************************************************************************)
(* Proofs about signing in and out, for any number of tabs.                *)
(***************************************************************************)
EXTENDS PageSession, TLAPS

-------------------------------------------------------------------------------
(* Types.                                                                  *)

\* What a tab may show, by its page.
LEMMA TabForms ==
  ASSUME NEW page \in Pages, NEW wait \in WaitsOn(page), NEW sent \in BOOLEAN,
         NEW answer \in {"none", "ok", "no"}
  PROVE  [page |-> page, wait |-> wait, sent |-> sent, answer |-> answer] \in Tab
BY DEF Tab

\* A tab that waits for nothing, and one that has sent a request.
LEMMA ShowAsk ==
  ASSUME TypeOK
  PROVE  /\ \A page \in {"login", "app", "away", "error"} : Show(page) \in Tab
         /\ \A what \in {"assets", "session"} : Ask("loading", what) \in Tab
         /\ \A what \in {"login", "user"} : Ask("login", what) \in Tab
         /\ Ask("app", "logout") \in Tab
         /\ Ask("away", "callback") \in Tab
<1>1. cookie \in BOOLEAN
  BY DEF TypeOK
<1>2. \A page \in {"login", "app", "away", "error"} : page \in Pages /\ "none" \in WaitsOn(page)
  BY DEF Pages, WaitsOn
<1>3. /\ "assets" \in WaitsOn("loading") /\ "session" \in WaitsOn("loading")
      /\ "login" \in WaitsOn("login") /\ "user" \in WaitsOn("login")
      /\ "logout" \in WaitsOn("app") /\ "callback" \in WaitsOn("away")
      /\ {"loading", "login", "app", "away"} \subseteq Pages
  BY DEF Pages, WaitsOn
<1>4. \A page \in {"login", "app", "away", "error"} : Show(page) \in Tab
  BY <1>2, TabForms DEF Show
<1>5. QED
  BY <1>1, <1>3, <1>4, TabForms DEF Ask

\* A tab is one of its forms.
LEMMA TabParts ==
  ASSUME NEW r \in Tab
  PROVE  /\ r.page \in Pages /\ r.wait \in WaitsOn(r.page)
         /\ r.sent \in BOOLEAN /\ r.answer \in {"none", "ok", "no"}
         /\ r = [page |-> r.page, wait |-> r.wait, sent |-> r.sent, answer |-> r.answer]
<1>1. PICK page \in Pages :
        r \in [page : {page}, wait : WaitsOn(page), sent : BOOLEAN, answer : {"none", "ok", "no"}]
  BY DEF Tab
<1>2. QED
  BY <1>1

\* A tab that is answered, or whose token has run out, is a tab.
LEMMA TabChanged ==
  ASSUME NEW r \in Tab, NEW answer \in {"none", "ok", "no"}, NEW sent \in BOOLEAN
  PROVE  /\ [r EXCEPT !.answer = answer] \in Tab
         /\ [r EXCEPT !.sent = sent] \in Tab
<1>1. /\ r.page \in Pages /\ r.wait \in WaitsOn(r.page)
      /\ r.sent \in BOOLEAN /\ r.answer \in {"none", "ok", "no"}
      /\ r = [page |-> r.page, wait |-> r.wait, sent |-> r.sent, answer |-> r.answer]
  BY TabParts
<1>2. /\ [r EXCEPT !.answer = answer] =
           [page |-> r.page, wait |-> r.wait, sent |-> r.sent, answer |-> answer]
      /\ [r EXCEPT !.sent = sent] =
           [page |-> r.page, wait |-> r.wait, sent |-> sent, answer |-> r.answer]
  BY <1>1
<1>3. /\ [page |-> r.page, wait |-> r.wait, sent |-> r.sent, answer |-> answer] \in Tab
      /\ [page |-> r.page, wait |-> r.wait, sent |-> sent, answer |-> r.answer] \in Tab
  BY <1>1, TabForms
<1>4. QED
  BY <1>2, <1>3

\* The recording of a sign-in, of a sign-out and of a load keeps the types.
LEMMA RecordTypes ==
  ASSUME TypeOK, NEW t \in Tabs
  PROVE  LET HistoryOK == /\ out \in BOOLEAN /\ keptOut \in [Tabs -> BOOLEAN]
                          /\ signedIn \in Ways /\ keptIn \in [Tabs -> Ways]
         IN  /\ \A way \in Ways : SignIn(t, way) => HistoryOK'
             /\ \A loggedOut \in BOOLEAN : SignOut(loggedOut) => HistoryOK'
             /\ Load(t) => HistoryOK' /\ tab' \in [Tabs -> Tab]
             /\ Unrecorded => HistoryOK'
<1>1. "no" \in Ways /\ \A way \in Ways : (IF \E u \in Tabs \ {t} : tab[u].wait = "logout" THEN "no" ELSE way) \in Ways
  BY DEF Ways
<1>2. \A way \in Ways : SignIn(t, way) =>
        /\ out' \in BOOLEAN /\ keptOut' \in [Tabs -> BOOLEAN]
        /\ signedIn' \in Ways /\ keptIn' \in [Tabs -> Ways]
  BY <1>1 DEF SignIn
<1>3. \A loggedOut \in BOOLEAN : SignOut(loggedOut) =>
        /\ out' \in BOOLEAN /\ keptOut' \in [Tabs -> BOOLEAN]
        /\ signedIn' \in Ways /\ keptIn' \in [Tabs -> Ways]
  BY <1>1 DEF SignOut, TypeOK
<1>4. Load(t) => /\ out' \in BOOLEAN /\ keptOut' \in [Tabs -> BOOLEAN]
                 /\ signedIn' \in Ways /\ keptIn' \in [Tabs -> Ways]
                 /\ tab' \in [Tabs -> Tab]
  BY ShowAsk DEF Load, TypeOK
<1>5. QED
  BY <1>2, <1>3, <1>4 DEF Unrecorded, TypeOK

\* Every step keeps the types.
LEMMA TypeOKStep == TypeOK /\ [Next]_vars => TypeOK'
<1> SUFFICES ASSUME TypeOK, [Next]_vars PROVE TypeOK'
  OBVIOUS
<1>1. CASE UNCHANGED vars
  BY <1>1 DEF vars, TypeOK
<1>2. CASE Expire
  <2>1. \A t \in Tabs : [tab[t] EXCEPT !.sent = FALSE] \in Tab
    BY TabChanged DEF TypeOK
  <2>2. tab' \in [Tabs -> Tab]
    BY <1>2, <2>1 DEF Expire
  <2>3. QED
    BY <1>2, <2>2 DEF Expire, SignOut, Ways, TypeOK
<1>3. ASSUME NEW t \in Tabs,
             \/ Reload(t) \/ Assets(t) \/ ReceiveSession(t)
             \/ Submit(t) \/ ReceiveLogin(t) \/ ReceiveUser(t)
             \/ StartOAuth(t) \/ Return(t) \/ ReceiveCallback(t)
             \/ ClickLogout(t) \/ ReceiveLogout(t)
             \/ Serve(t) \/ Lose(t)
      PROVE  TypeOK'
  <2>1. tab' \in [Tabs -> Tab]
    <3>1. CASE Reload(t) \/ ReceiveLogout(t) \/ (tab[t].wait = "logout" /\ Load(t))
      BY <3>1, RecordTypes DEF Reload, ReceiveLogout
    <3>2. CASE Assets(t) \/ ReceiveSession(t) \/ Submit(t) \/ ReceiveUser(t)
      BY <3>2, ShowAsk DEF Assets, ReceiveSession, Submit, ReceiveUser, TypeOK
    <3>3. CASE ReceiveLogin(t)
      <4>1. [Ask("login", "user") EXCEPT !.sent = TRUE] \in Tab
        BY ShowAsk, TabChanged
      <4>2. QED
        BY <3>3, <4>1, ShowAsk DEF ReceiveLogin, TypeOK
    <3>4. CASE StartOAuth(t) \/ Return(t) \/ ReceiveCallback(t) \/ ClickLogout(t)
      BY <3>4, ShowAsk DEF StartOAuth, Return, ReceiveCallback, ClickLogout, TypeOK
    <3>5. CASE Serve(t)
      <4>1. \A answer \in {"ok", "no"} : [tab[t] EXCEPT !.answer = answer] \in Tab
        BY TabChanged DEF TypeOK
      <4>2. QED
        BY <3>5, <4>1 DEF Serve, TypeOK
    <3>6. CASE Lose(t) /\ tab' = [tab EXCEPT ![t] =
                                    Show(IF tab[t].wait = "callback" THEN "error" ELSE "login")]
      BY <3>6, ShowAsk DEF TypeOK
    <3>7. QED
      BY <1>3, <3>1, <3>2, <3>3, <3>4, <3>5, <3>6 DEF Lose
  <2>2. cookie' \in BOOLEAN /\ flag' \in BOOLEAN /\ state' \in Tabs \cup {None}
    BY <1>3 DEF Reload, Assets, ReceiveSession, Submit, ReceiveLogin, ReceiveUser, StartOAuth,
                Return, ReceiveCallback, ClickLogout, ReceiveLogout, Serve, Lose, TypeOK
  <2>3. /\ out' \in BOOLEAN /\ keptOut' \in [Tabs -> BOOLEAN]
        /\ signedIn' \in Ways /\ keptIn' \in [Tabs -> Ways]
    <3>1. \/ \E way \in Ways : SignIn(t, way)
          \/ \E loggedOut \in BOOLEAN : SignOut(loggedOut)
          \/ Load(t) \/ Unrecorded
      BY <1>3 DEF Reload, Assets, ReceiveSession, Submit, ReceiveLogin, ReceiveUser, StartOAuth,
                  Return, ReceiveCallback, ClickLogout, ReceiveLogout, Serve, Lose, Ways
    <3>2. QED
      BY <3>1, RecordTypes
  <2>4. QED
    BY <2>1, <2>2, <2>3 DEF TypeOK
<1>4. QED
  BY <1>1, <1>2, <1>3 DEF Next

-------------------------------------------------------------------------------
(* Staying out and staying in.                                             *)

\* The steps of one tab.
TabStep(t) ==
  \/ Reload(t) \/ Assets(t) \/ ReceiveSession(t)
  \/ Submit(t) \/ ReceiveLogin(t) \/ ReceiveUser(t)
  \/ StartOAuth(t) \/ Return(t) \/ ReceiveCallback(t)
  \/ ClickLogout(t) \/ ReceiveLogout(t)
  \/ Serve(t) \/ Lose(t)

\* A tab's step leaves other tabs alone; and no step but Expire touches two.
LEMMA OtherTabs ==
  ASSUME TypeOK, NEW t \in Tabs, TabStep(t), NEW u \in Tabs, u # t
  PROVE  tab'[u] = tab[u]
<1>1. tab \in [Tabs -> Tab]
  BY DEF TypeOK
<1>2. CASE \E r : tab' = [tab EXCEPT ![t] = r]
  BY <1>1, <1>2
<1>3. CASE Serve(t)
  BY <1>1, <1>3 DEF Serve
<1>4. CASE ReceiveLogin(t) \/ ReceiveCallback(t)
  BY <1>1, <1>4 DEF ReceiveLogin, ReceiveCallback
<1>5. CASE Reload(t) \/ ReceiveLogout(t) \/ Lose(t)
  BY <1>1, <1>5 DEF Reload, Load, ReceiveLogout, Lose
<1>6. QED
  BY <1>2, <1>3, <1>4, <1>5
     DEF TabStep, Assets, ReceiveSession, Submit, ReceiveUser, StartOAuth, Return, ClickLogout

\* When the hour is over no tab changes but for the token it has sent.
LEMMA ExpireTabs ==
  ASSUME TypeOK, Expire, NEW u \in Tabs
  PROVE  tab'[u].page = tab[u].page /\ tab'[u].wait = tab[u].wait
<1>1. tab[u] \in Tab /\ tab'[u] = [tab[u] EXCEPT !.sent = FALSE]
  BY DEF TypeOK, Expire
<1>2. QED
  BY <1>1, TabParts

\* Every step keeps the flag as long as somebody is out.
LEMMA OutInvStep == TypeOK /\ OutInv /\ [Next]_vars => OutInv'
<1> SUFFICES ASSUME TypeOK, OutInv, [Next]_vars PROVE OutInv'
  OBVIOUS
<1>1. CASE UNCHANGED vars
  BY <1>1 DEF vars, OutInv
<1>2. CASE Expire
  BY <1>2, ExpireTabs DEF Expire, SignOut, OutInv, TypeOK
<1>3. ASSUME NEW t \in Tabs, TabStep(t) PROVE OutInv'
  <2>0. /\ tab \in [Tabs -> Tab] /\ keptOut \in [Tabs -> BOOLEAN]
        /\ \A u \in Tabs : u # t => tab'[u] = tab[u]
    BY <1>3, OtherTabs DEF TypeOK
  <2>1. CASE /\ tab' = [tab EXCEPT ![t] = Ask("loading", "assets")]
             /\ keptOut' = [keptOut EXCEPT ![t] = out]
             /\ out' = out /\ flag' = flag
    BY <2>0, <2>1 DEF OutInv, Ask
  <2>2. CASE Reload(t) \/ ReceiveLogout(t) \/ (tab[t].wait = "logout" /\ Lose(t))
    BY <2>1, <2>2 DEF Reload, Load, ReceiveLogout, Lose
  <2>3. CASE Assets(t) \/ ReceiveSession(t) \/ Submit(t) \/ ReceiveUser(t)
    BY <2>0, <2>3 DEF Assets, ReceiveSession, Submit, ReceiveUser, Unrecorded, Ask, Show, OutInv
  <2>4. CASE ReceiveLogin(t) \/ ReceiveCallback(t)
    BY <2>0, <2>4 DEF ReceiveLogin, ReceiveCallback, SignIn, Unrecorded, Show, OutInv
  <2>5. CASE StartOAuth(t) \/ Return(t)
    BY <2>0, <2>5 DEF StartOAuth, Return, Unrecorded, Ask, Show, OutInv
  <2>6. CASE ClickLogout(t)
    BY <2>0, <2>6 DEF ClickLogout, SignOut, Ask, OutInv
  <2>7. CASE Serve(t)
    <3>1. PICK answer \in {"ok", "no"} : tab' = [tab EXCEPT ![t].answer = answer]
      BY <2>7 DEF Serve
    <3>2. tab'[t].page = tab[t].page /\ tab'[t].wait = tab[t].wait
      BY <2>0, <3>1, TabParts
    <3>3. QED
      BY <2>0, <2>7, <3>2 DEF Serve, Unrecorded, OutInv
  <2>8. CASE Lose(t) /\ tab[t].wait # "logout"
    BY <2>0, <2>8 DEF Lose, Unrecorded, Show, OutInv
  <2>9. QED
    BY <1>3, <2>2, <2>3, <2>4, <2>5, <2>6, <2>7, <2>8 DEF TabStep
<1>4. QED
  BY <1>1, <1>2, <1>3 DEF Next, TabStep

\* Every step keeps the session of who is in, or records that it has ended.
LEMMA InInvStep == TypeOK /\ InInv /\ [Next]_vars => InInv'
<1> SUFFICES ASSUME TypeOK, InInv, [Next]_vars PROVE InInv'
  OBVIOUS
<1>1. CASE UNCHANGED vars
  BY <1>1 DEF vars, InInv
<1>2. CASE Expire
  BY <1>2, ExpireTabs DEF Expire, SignOut, InInv, TypeOK
<1>3. ASSUME NEW t \in Tabs, TabStep(t) PROVE InInv'
  <2>0. /\ tab \in [Tabs -> Tab] /\ keptIn \in [Tabs -> Ways]
        /\ \A u \in Tabs : u # t => tab'[u] = tab[u]
    BY <1>3, OtherTabs DEF TypeOK
  <2>1. CASE /\ tab' = [tab EXCEPT ![t] = Ask("loading", "assets")]
             /\ keptIn' = [keptIn EXCEPT ![t] = signedIn]
             /\ signedIn' = signedIn /\ flag' = flag /\ (cookie' = cookie \/ signedIn = "no")
    BY <2>0, <2>1 DEF InInv, Ask
  <2>2. CASE Reload(t) \/ (tab[t].wait = "logout" /\ Lose(t))
    BY <2>1, <2>2 DEF Reload, Load, Lose
  <2>3. CASE ReceiveLogout(t)
    BY <2>1, <2>3 DEF ReceiveLogout, Load, InInv
  <2>4. CASE Assets(t) \/ ReceiveSession(t) \/ Submit(t) \/ ReceiveUser(t)
    BY <2>0, <2>4 DEF Assets, ReceiveSession, Submit, ReceiveUser, Unrecorded, Ask, Show, InInv
  <2>5. CASE (ReceiveLogin(t) \/ ReceiveCallback(t)) /\ tab[t].answer = "ok"
    <3>1. /\ tab'[t].wait \in {"user", "assets"} /\ cookie'
      BY <2>0, <2>5 DEF ReceiveLogin, ReceiveCallback, Ask
    <3>2. PICK way \in {"password", "oauth"} :
            SignIn(t, way) /\ (way = "password" => flag' = FALSE)
      BY <2>5 DEF ReceiveLogin, ReceiveCallback
    <3>3. signedIn' # "no" => \A u \in Tabs : tab'[u].wait # "logout"
      BY <2>0, <3>1, <3>2 DEF SignIn
    <3>4. signedIn' = "password" => ~flag'
      BY <3>2 DEF SignIn
    <3>5. \A u \in Tabs : keptIn'[u] # "no" => u = t /\ keptIn'[u] = signedIn'
      BY <3>2 DEF SignIn
    <3>6. QED
      BY <3>1, <3>3, <3>4, <3>5 DEF InInv
  <2>6. CASE (ReceiveLogin(t) \/ ReceiveCallback(t)) /\ tab[t].answer # "ok"
    BY <2>0, <2>6 DEF ReceiveLogin, ReceiveCallback, Unrecorded, Show, InInv
  <2>7. CASE StartOAuth(t) \/ Return(t)
    BY <2>0, <2>7 DEF StartOAuth, Return, Unrecorded, Ask, Show, InInv
  <2>8. CASE ClickLogout(t)
    BY <2>0, <2>8 DEF ClickLogout, SignOut, Ask, InInv
  <2>9. CASE Serve(t)
    <3>1. PICK answer \in {"ok", "no"} :
            /\ tab[t].wait \in {"session", "user"} => (answer = "ok") = tab[t].sent
            /\ tab' = [tab EXCEPT ![t].answer = answer]
      BY <2>9 DEF Serve
    <3>2. /\ tab'[t].wait = tab[t].wait /\ tab'[t].sent = tab[t].sent
          /\ tab'[t].answer = answer
      BY <2>0, <3>1, TabParts
    <3>3. tab[t].wait = "session" /\ tab[t].sent => answer # "no"
      BY <3>1
    <3>4. QED
      BY <2>0, <2>9, <3>2, <3>3 DEF Serve, Unrecorded, InInv
  <2>10. CASE Lose(t) /\ tab[t].wait # "logout"
    BY <2>0, <2>10 DEF Lose, Unrecorded, Show, InInv
  <2>11. QED
    BY <1>3, <2>2, <2>3, <2>4, <2>5, <2>6, <2>7, <2>8, <2>9, <2>10 DEF TabStep
<1>4. QED
  BY <1>1, <1>2, <1>3 DEF Next, TabStep

\* The invariant holds when the first pages are loaded.
LEMMA InitIInv == Init => IInv
<1> SUFFICES ASSUME Init PROVE IInv
  OBVIOUS
<1>1. [page |-> "loading", wait |-> "assets", sent |-> FALSE, answer |-> "none"] \in Tab
  BY TabForms DEF Pages, WaitsOn
<1>2. TypeOK
  BY <1>1 DEF Init, Ask, TypeOK, Ways
<1>3. OutInv /\ InInv
  BY DEF Init, Ask, OutInv, InInv
<1>4. QED
  BY <1>2, <1>3 DEF IInv

\* The invariant of tabs, flag and cookie.
THEOREM SessionInvariant == Spec => []IInv
<1>1. IInv /\ [Next]_vars => IInv'
  BY TypeOKStep, OutInvStep, InInvStep DEF IInv
<1>2. QED
  BY InitIInv, <1>1, PTL DEF Spec

\* No page is ever left blank for good, and all variables keep their types.
THEOREM SessionTypeCorrect == Spec => []TypeOK
<1>1. IInv => TypeOK
  BY DEF IInv
<1>2. QED
  BY SessionInvariant, <1>1, PTL

\* A logout keeps every later page out until the next sign-in, whatever becomes
\* of its request.
THEOREM LogoutHolds == Spec => []StaysOut
<1>1. IInv => StaysOut
  BY DEF IInv, OutInv, StaysOut
<1>2. QED
  BY SessionInvariant, <1>1, PTL

\* A sign-in opens every later page until a logout or the end of the hour.
THEOREM SignInHolds == Spec => StaysIn
<1>1. IInv /\ [Next]_vars => [NobodyTurnedAway]_vars
  <2> SUFFICES ASSUME IInv, Next, NEW u \in Tabs, TurnedAway(u)
               PROVE  keptIn[u] = "no" \/ (keptIn[u] = "oauth" /\ flag)
    BY DEF NobodyTurnedAway
  <2>0. /\ TypeOK /\ InInv
        /\ tab \in [Tabs -> Tab] /\ keptIn[u] \in Ways
        /\ tab[u].page = "loading" /\ tab'[u].page = "login" /\ ~Lose(u)
    BY DEF IInv, TypeOK, TurnedAway
  <2>1. PICK t \in Tabs : TabStep(t)
    <3>1. ~Expire
      <4>1. Expire => tab'[u].page = tab[u].page
        BY <2>0, ExpireTabs
      <4>2. QED
        BY <2>0, <4>1
    <3>2. QED
      BY <3>1 DEF Next, TabStep
  <2>2. t = u
    BY <2>0, <2>1, OtherTabs
  <2>3. tab[u].wait \in {"assets", "session"}
    BY <2>0, TabParts DEF WaitsOn
  <2>4. CASE Assets(u)
    BY <2>0, <2>4 DEF Assets, Ask, InInv, Ways
  <2>5. CASE ReceiveSession(u)
    <3>1. tab[u].answer = "no"
      BY <2>0, <2>5, TabParts DEF ReceiveSession, Show
    <3>2. QED
      BY <2>0, <2>5, <3>1 DEF ReceiveSession, InInv
  <2>6. ~Reload(u) /\ ~Serve(u)
    <3>1. Reload(u) => tab'[u].page = "loading"
      BY <2>0 DEF Reload, Load, Ask
    <3>2. Serve(u) => tab'[u].page = tab[u].page
      BY <2>0, TabParts DEF Serve
    <3>3. QED
      BY <2>0, <3>1, <3>2
  <2>7. QED
    BY <2>0, <2>1, <2>2, <2>3, <2>4, <2>5, <2>6
       DEF TabStep, Submit, ReceiveLogin, ReceiveUser, StartOAuth, Return, ReceiveCallback,
           ClickLogout, ReceiveLogout
<1>2. QED
  BY SessionInvariant, <1>1, PTL DEF Spec, StaysIn
===============================================================================
