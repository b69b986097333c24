----------------------------- MODULE AuthRequests -----------------------------
(***************************************************************************)
(* The requests that change accounts: the Auth and RequireRole middleware  *)
(* (backend/middleware/auth.go), the handlers of auth/handlers.go and the  *)
(* account creation of the OAuth callback, over the UserStore.             *)
(*                                                                         *)
(* Auth looks the caller up and puts its email and role, as they are then, *)
(* in the context of the request; the handler acts on that copy later,     *)
(* when other requests may have renamed, demoted or deleted the caller.    *)
(* Each request is served by a worker, a goroutine of net/http.            *)
(***************************************************************************)
EXTENDS UserStore

CONSTANT Workers

VARIABLES
  req,       \* the request each worker serves: how far it is, and for whom
  overtaken  \* history: has a request acted as an administrator who was none any more?

allVars == <<vars, req, overtaken>>

Idle == [phase |-> "idle"]

Phases == {"admitted", "newcomer", "saving"}
Request == {Idle} \cup [phase : Phases, caller : Emails, role : Roles]

ReqInit == Init /\ req = [w \in Workers |-> Idle] /\ overtaken = FALSE

\* The caller was let in as an administrator and is none now.
OutOfDate(w) ==
  /\ req[w].role = "admin"
  /\ users[req[w].caller] # None => users[req[w].caller].role # "admin"

\* The request is over when the call it made did not go on to save.
Proceed(w) ==
  /\ req' = [req EXCEPT ![w] = IF pending' = None THEN Idle ELSE [@ EXCEPT !.phase = "saving"]]
  /\ overtaken' = (overtaken \/ OutOfDate(w))

\* Any email a session was opened for may still be presented: one that no
\* account has any more is refused and changes nothing.
Auth(w, e) ==
  /\ req[w] = Idle
  /\ Free
  /\ users[e] # None
  /\ req' = [req EXCEPT ![w] = [phase |-> "admitted", caller |-> e, role |-> users[e].role]]
  /\ UNCHANGED <<vars, overtaken>>

\* Past Auth, and past RequireRole("admin") for the routes under /api/admin.
Admitted(w) == req[w] # Idle /\ req[w].phase = "admitted"
AsAdmin(w) == Admitted(w) /\ req[w].role = "admin"
\* Viewers may not change anything, their own profile and password included.
MayWrite(w) == Admitted(w) /\ req[w].role # "viewer"

\* Mistake: nobody's own account.
OwnAccountNever(w, e) == FALSE

\* The account the request names is the caller's, by the email Auth found.
OwnAccount(w, e) == e = req[w].caller

\* POST /api/admin/users.
adminCreateUser(w) ==
  /\ AsAdmin(w)
  /\ \E e \in Emails, role \in Roles, pwd \in Passwords : Add(e, role, pwd)
  /\ Proceed(w)

\* DELETE /api/admin/users/{email}.
adminDeleteUser(w) ==
  /\ AsAdmin(w)
  /\ \E e \in Emails : ~OwnAccount(w, e) /\ Delete(e)
  /\ Proceed(w)

\* PATCH /api/admin/users/{email}.
adminSetRole(w) ==
  /\ AsAdmin(w)
  /\ \E e \in Emails, role \in Roles :
       /\ ~(OwnAccount(w, e) /\ role # "admin")
       /\ SetRole(e, role)
  /\ Proceed(w)

\* PATCH /api/profile.
PatchProfile(w) ==
  /\ MayWrite(w)
  /\ \E new \in Emails, name \in Names, valid \in BOOLEAN :
       UpdateProfile(req[w].caller, new, name, valid)
  /\ Proceed(w)

\* POST /api/profile/password.
PostPassword(w) ==
  /\ MayWrite(w)
  /\ \E old, new \in Passwords : UpdatePassword(req[w].caller, old, new)
  /\ Proceed(w)

\* The OAuth callback, with autoCreate: no account has the email...
OAuthFind(w, e) ==
  /\ req[w] = Idle
  /\ Free
  /\ users[e] = None
  /\ req' = [req EXCEPT ![w] = [phase |-> "newcomer", caller |-> e, role |-> "viewer"]]
  /\ UNCHANGED <<vars, overtaken>>

\* ... and one is made, unless another request was faster (Add refuses, which
\* the callback ignores).
OAuthAdd(w) ==
  /\ req[w] # Idle /\ req[w].phase = "newcomer"
  /\ \E pwd \in Passwords : Add(req[w].caller, "viewer", pwd)
  /\ Proceed(w)

\* A request that finds nothing to change: the store refuses it, or it reads.
Refuse(w) ==
  /\ req[w] # Idle /\ req[w].phase # "saving"
  /\ Free
  /\ req' = [req EXCEPT ![w] = Idle]
  /\ UNCHANGED <<vars, overtaken>>

\* The save of this worker's call ends, well or badly, and it answers.
Answer(w) ==
  /\ req[w] # Idle /\ req[w].phase = "saving"
  /\ RenameTemp \/ SaveFails
  /\ req' = [req EXCEPT ![w] = Idle]
  /\ UNCHANGED overtaken

\* The store's own steps: writing the temporary file, and the seed at boot,
\* which ends before any request is accepted.
StoreStep ==
  /\ \/ WriteTemp
     \/ Start
     \/ pending # None /\ pending.boot /\ (RenameTemp \/ SaveFails)
  /\ UNCHANGED <<req, overtaken>>

\* The process dies with every request it was serving.
Die == Crash /\ req' = [w \in Workers |-> Idle] /\ UNCHANGED overtaken

-------------------------------------------------------------------------------

Handle(w) ==
  \/ adminCreateUser(w)
  \/ adminDeleteUser(w)
  \/ adminSetRole(w)
  \/ PatchProfile(w)
  \/ PostPassword(w)
  \/ OAuthAdd(w)
  \/ Refuse(w)

Arrive(w) == \E e \in Emails : Auth(w, e) \/ OAuthFind(w, e)

ReqNext == StoreStep \/ Die \/ \E w \in Workers : Arrive(w) \/ Handle(w) \/ Answer(w)

ReqSpec == ReqInit /\ [][ReqNext]_allVars

-------------------------------------------------------------------------------
(* Correctness.                                                            *)

\* The requests whose call holds the mutex.
Savers == {w \in Workers : req[w].phase = "saving"}

\* Requests and store agree on who holds the mutex: a save belongs to exactly
\* one request, or to the seed, so that no request waits for a mutex nobody
\* will give back.
ReqTypeOK ==
  /\ req \in [Workers -> Request]
  /\ overtaken \in BOOLEAN
  /\ TypeOK
  /\ Cardinality(Savers) = IF pending = None \/ pending.boot THEN 0 ELSE 1

HasAdmin(table) == \E e \in Present(table) : table[e].role = "admin"

\* Somebody can always administer the accounts. Nothing but the two checks on
\* the caller's own account, in AdminUserByEmail, ensures it, and they look at
\* the email the caller had when it was let in: no legal sequence of requests,
\* failed saves, crashes and restarts leaves the map or the file without an
\* administrator, unless a request has acted whose caller another one had
\* demoted, renamed or deleted since it was let in.
AdminSurvives ==
  \/ overtaken
  \/ /\ up => HasAdmin(users)
     /\ disk # None => HasAdmin(disk)

OneOwner ==
  IF pending = None \/ pending.boot THEN Savers = {} ELSE \E w \in Workers : Savers = {w}

\* The inductive invariant behind both: the store's, and whose the save is.
ReqInv ==
  /\ IInv
  /\ req \in [Workers -> Request]
  /\ overtaken \in BOOLEAN
  /\ OneOwner
  /\ AdminSurvives
===============================================================================
