----------------------------- MODULE SessionCookie -----------------------------
(***************************************************************************)
(* The session cookie of a browser, while accounts are renamed and deleted *)
(* under it: its issue and clearing (backend/auth/jwt.go, handlers.go,     *)
(* oauth.go), the middleware that refuses and clears it                    *)
(* (backend/middleware/auth.go), and the browser, whose requests overlap   *)
(* and whose answers get lost or arrive in another order.                  *)
(*                                                                         *)
(* A token is the email it was issued for; its role is not read again. A   *)
(* call of the store is one step, for it holds the mutex. No account is    *)
(* made (a provider's email without one is refused, as it is unless        *)
(* accounts are created automatically), and nobody is a viewer, who may    *)
(* not write. A request that is answered without touching the cookie is    *)
(* over when it is served.                                                 *)
(***************************************************************************)
EXTENDS Integers

CONSTANTS
  Persons, Emails,
  Calls         \* requests the browser has under way

NoCookie == "no cookie"
Nobody == "nobody"

ASSUME CookieAssumption == NoCookie \notin Emails /\ Nobody \notin Persons

VARIABLES
  email,      \* User.Email of each person's record, in the map or no more
  known,      \* the persons whose record is in the map
  onFile,     \* users.json: both, as last saved
  jar,        \* the cookie of the browser
  call,       \* its requests
  holder,     \* history: whom the last answer that set the cookie was for
  excused     \* history: something has happened that may end a session, see below

accounts == <<email, known, onFile>>
cookieVars == <<accounts, jar, call, holder, excused>>

\* at: how far the request is. token: the cookie it was sent with, if anybody looks
\* at it. email: the one it names. person: whose record the handler holds. cookie:
\* what its answer sets. behind: answers that touch the cookie and are on their way
\* for longer. late: a later answer was faster.
NoCall ==
  [kind |-> "none", at |-> "idle", token |-> NoCookie, email |-> NoCookie,
   person |-> Nobody, cookie |-> NoCookie, behind |-> {}, late |-> FALSE]

CookieInit ==
  /\ email \in {f \in [Persons -> Emails] : \A p, q \in Persons : f[p] = f[q] => p = q}
  /\ known = Persons
  /\ onFile = [email |-> email, known |-> known]
  /\ jar = NoCookie /\ holder = Nobody
  /\ call = [r \in Calls |-> NoCall]
  /\ excused = FALSE

\* users[e]: one person, or none.
Owner(e) == {p \in known : email[p] = e}

\* Renames of the browser's own that were made and not yet answered for.
Renaming ==
  {r \in Calls : \/ call[r].at = "renamed"
                 \/ call[r].kind = "profile" /\ call[r].cookie # NoCookie}

Answered == {r \in Calls : call[r].at = "answered"}

\* Requests without r, which is over; late ones are those it has overtaken.
Ended(r, late) ==
  [q \in Calls |->
     IF q = r THEN NoCall
     ELSE [call[q] EXCEPT !.behind = @ \ {r}, !.late = @ \/ q \in late]]

Over(r) == call' = Ended(r, {})

\* The answer to r sets the cookie of p, or clears it.
Answer(r, p, cookie) ==
  call' = [call EXCEPT ![r] =
             [NoCall EXCEPT !.kind = call[r].kind, !.at = "answered", !.token = call[r].token,
                            !.person = p, !.cookie = cookie, !.behind = Answered]]

-------------------------------------------------------------------------------
(* The browser.                                                            *)

SendCall(r, kind, token, e) ==
  /\ call[r].at = "idle"
  /\ call' = [call EXCEPT ![r] = [NoCall EXCEPT !.kind = kind, !.at = "sent", !.token = token,
                                                !.email = e]]
  /\ UNCHANGED <<accounts, jar, holder, excused>>

SendLogin(r, e) == SendCall(r, "login", NoCookie, e)
SendOAuth(r, e) == SendCall(r, "oauth", NoCookie, e)
SendLogout(r) == SendCall(r, "logout", NoCookie, NoCookie)

\* A change of the profile, with the email to have from now on.
SendProfile(r, e) == SendCall(r, "profile", jar, e)

\* Any other route behind Auth.
SendRead(r) == SendCall(r, "read", jar, NoCookie)

\* Auth's answer to a request that was sent with another cookie.
Crossed(r) ==
  call[r].kind \in {"read", "profile"} /\ call[r].cookie = NoCookie /\ call[r].token # jar

ReceiveCookie(r) ==
  /\ r \in Answered
  /\ jar' = call[r].cookie
  /\ holder' = IF call[r].kind = "logout" THEN Nobody
               ELSE IF call[r].cookie = NoCookie THEN holder ELSE call[r].person
  /\ call' = Ended(r, call[r].behind)
  /\ excused' = (excused \/ call[r].late \/ Crossed(r))
  /\ UNCHANGED accounts

LoseAnswer(r) ==
  /\ r \in Answered
  /\ Over(r)
  /\ excused' = (excused \/ r \in Renaming)
  /\ UNCHANGED <<accounts, jar, holder>>

\* The token expires, and is as good as none to the server too.
Expire ==
  /\ jar # NoCookie
  /\ jar' = NoCookie /\ holder' = Nobody
  /\ call' = [r \in Calls |-> IF call[r].at = "sent" /\ call[r].token = jar
                                THEN [call[r] EXCEPT !.token = NoCookie] ELSE call[r]]
  /\ UNCHANGED <<accounts, excused>>

-------------------------------------------------------------------------------
(* Requests without a session.                                             *)

\* Login and CallbackHandler: Find returns the record itself, not a copy.
FindRecord(r) ==
  /\ call[r].kind \in {"login", "oauth"} /\ call[r].at = "sent"
  /\ IF Owner(call[r].email) = {} THEN Over(r)
     ELSE \E p \in Owner(call[r].email) :
            call' = [call EXCEPT ![r].at = "found", ![r].person = p]
  /\ UNCHANGED <<accounts, jar, holder, excused>>

\* Mistake: the token is issued for the email that was typed.
IssuedForTyped(r) == call[r].email

\* After bcrypt, the email of the record as it is then; or the provider's.
IssuedFor(r) == IF call[r].kind = "login" THEN email[call[r].person] ELSE call[r].email

SetCookie(r) ==
  /\ call[r].kind \in {"login", "oauth"} /\ call[r].at = "found"
  /\ Answer(r, call[r].person, IssuedFor(r))
  /\ excused' = ( \/ excused
                  \/ call[r].kind = "oauth" /\ call[r].person \notin Owner(call[r].email) )
  /\ UNCHANGED <<accounts, jar, holder>>

Logout(r) ==
  /\ call[r].kind = "logout" /\ call[r].at = "sent"
  /\ Answer(r, Nobody, NoCookie)
  /\ UNCHANGED <<accounts, jar, holder, excused>>

-------------------------------------------------------------------------------
(* Requests with one.                                                      *)

\* No cookie, and the request is refused; no account, and it is refused and the
\* cookie cleared; else the handler is called.
Auth(r) ==
  /\ call[r].kind \in {"read", "profile"} /\ call[r].at = "sent"
  /\ IF call[r].token = NoCookie THEN Over(r)
     ELSE IF Owner(call[r].token) = {} THEN Answer(r, Nobody, NoCookie)
     ELSE IF call[r].kind = "read" THEN Over(r)
     ELSE call' = [call EXCEPT ![r].at = "admitted"]
  /\ UNCHANGED <<accounts, jar, holder, excused>>

\* saveLocked: a failure leaves the change in memory. ends: may the change end the
\* browser's session?
Save(saved, ends) ==
  /\ onFile' = IF saved THEN [email |-> email', known |-> known'] ELSE onFile
  /\ excused' = (excused \/ ends \/ ~saved)

\* UpdateProfile of the handler, and of the store. Without a new email, or with
\* one that is taken, or when the save fails, there is no new cookie.
UpdateProfile(r) ==
  /\ call[r].kind = "profile" /\ call[r].at = "admitted"
  /\ \/ /\ Owner(call[r].token) = {} \/ Owner(call[r].email) # {}
        /\ Over(r)
        /\ UNCHANGED <<accounts, excused>>
     \/ \E p \in Owner(call[r].token), saved \in BOOLEAN :
          /\ Owner(call[r].email) = {}
          /\ email' = [email EXCEPT ![p] = call[r].email]
          /\ UNCHANGED known
          /\ Save(saved, FALSE)
          /\ IF saved THEN call' = [call EXCEPT ![r].at = "renamed", ![r].person = p]
                      ELSE Over(r)
  /\ UNCHANGED <<jar, holder>>

Reissue(r) ==
  /\ call[r].at = "renamed"
  /\ Answer(r, call[r].person, email[call[r].person])
  /\ UNCHANGED <<accounts, jar, holder, excused>>

-------------------------------------------------------------------------------
(* Other browsers, and the process.                                        *)

\* A token that was issued to p is, or may become, the browser's.
HasToken(p) == holder = p \/ \E r \in Answered : call[r].person = p

\* p changes the email in another browser.
RenameElsewhere(p, e, saved) ==
  /\ p \in known /\ Owner(e) = {}
  /\ email' = [email EXCEPT ![p] = e]
  /\ UNCHANGED known
  /\ Save(saved, HasToken(p))
  /\ UNCHANGED <<jar, call, holder>>

\* An administrator deletes p.
DeleteElsewhere(p, saved) ==
  /\ p \in known
  /\ known' = known \ {p}
  /\ UNCHANGED email
  /\ Save(saved, holder = p \/ \E r \in Calls : call[r].person = p)
  /\ UNCHANGED <<jar, call, holder>>

\* With all requests it was serving.
RestartServer ==
  /\ email' = onFile.email /\ known' = onFile.known
  /\ call' = [r \in Calls |-> NoCall]
  /\ excused' = (excused \/ Renaming # {})
  /\ UNCHANGED <<onFile, jar, holder>>

CookieNext ==
  \/ Expire
  \/ RestartServer
  \/ \E p \in Persons, saved \in BOOLEAN :
       \/ DeleteElsewhere(p, saved)
       \/ \E e \in Emails : RenameElsewhere(p, e, saved)
  \/ \E r \in Calls :
       \/ \E e \in Emails : SendLogin(r, e) \/ SendOAuth(r, e) \/ SendProfile(r, e)
       \/ SendLogout(r) \/ SendRead(r)
       \/ ReceiveCookie(r) \/ LoseAnswer(r)
       \/ FindRecord(r) \/ SetCookie(r) \/ Logout(r)
       \/ Auth(r) \/ UpdateProfile(r) \/ Reissue(r)

CookieSpec == CookieInit /\ [][CookieNext]_cookieVars

-------------------------------------------------------------------------------
(* Correctness.                                                            *)

\* A browser that has been given a session keeps it: its cookie names the account
\* of whom it was given to, under the email the account has now, whatever was
\* renamed and deleted, by whomever, while requests overlapped; except while the
\* answer to its own rename is on its way. Only this may end a session, or leave
\* it with a cookie that names no account: logout and expiry; a deletion or a
\* rename in another browser; an answer to its own rename that is lost or
\* reports that the save failed; a cookie that arrives after a later one; the
\* answer of Auth to a request that was sent before a rename and served after;
\* a rename that comes between a provider's answer and its cookie.
SessionKept ==
  excused \/ holder = Nobody \/ Renaming # {} \/ holder \in Owner(jar)
===============================================================================
