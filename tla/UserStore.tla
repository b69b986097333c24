------------------------------- MODULE UserStore ------------------------------
(***************************************************************************)
(* The account store of backend/auth/users.go: a map from email to account *)
(* under one mutex, and users.json, rewritten as a whole after every       *)
(* change through a temporary file and a rename.                           *)
(*                                                                         *)
(* A call changes the map first and saves next, with the mutex held. The   *)
(* map, the temporary file and the rename are separate steps, so that a    *)
(* save may fail and the process may die between any two of them. A call   *)
(* the code refuses without touching the map is not a step.                *)
(*                                                                         *)
(* The password of an account stands for its bcrypt hash, its name for     *)
(* the fields of the profile. Emails are normalised and well-formed.       *)
(***************************************************************************)
EXTENDS Integers, FiniteSets

CONSTANTS
  Emails, DefaultAdmin,  \* DefaultAdmin: demo@unyport.app
  Roles,                 \* ValidRoles
  Names, Passwords,
  Accounts,              \* who an account belongs to, whatever its email becomes
  None

Account == [who : Accounts, email : Emails, role : Roles, name : Names, pwd : Passwords]
Table == [Emails -> Account \cup {None}]
NoAccounts == [e \in Emails |-> None]

\* A save in progress. stage: what saveLocked does next; closes: accounts that
\* the call deletes; boot: it is seedAdmin's, whose failure ends the process.
Saving == [stage : {"write", "rename"}, closes : SUBSET Accounts, boot : BOOLEAN]
Save(closes, boot) == [stage |-> "write", closes |-> closes, boot |-> boot]

ASSUME StoreAssumption ==
  /\ DefaultAdmin \in Emails
  /\ {"admin", "viewer"} \subseteq Roles
  /\ "" \in Names
  /\ None \notin Accounts /\ None \notin Account
  /\ None \notin [email : Emails, role : Roles, name : Names, pwd : Passwords]
  /\ None \notin Table /\ None \notin Saving

VARIABLES
  up,       \* the process runs and has loaded the store
  users,    \* UserStore.users
  disk,     \* users.json, None when there is no file
  temp,     \* the temporary file of the save in progress
  pending,  \* the save in progress, None when the mutex is free
  clean,    \* history: no call has failed since the last save or load
  closed    \* history: accounts whose deletion was reported as done

vars == <<up, users, disk, temp, pending, clean, closed>>

Present(table) == {e \in Emails : table[e] # None}
Holders(table) == {table[e].who : e \in Present(table)}
OnDisk == IF disk = None THEN NoAccounts ELSE disk

\* An identity nobody has had: not current, not saved, not deleted.
Fresh == Accounts \ (Holders(users) \cup Holders(OnDisk) \cup closed)

Free == up /\ pending = None

Init ==
  /\ up = FALSE /\ users = NoAccounts
  /\ disk = None /\ temp = None
  /\ pending = None
  /\ clean = TRUE /\ closed = {}

-------------------------------------------------------------------------------
(* The calls, up to the point where they save.                             *)

\* The map of a call that has changed it and goes on to save it.
Commit(table, closes) ==
  /\ users' = table
  /\ pending' = Save(closes, FALSE)
  /\ UNCHANGED <<up, disk, temp, clean, closed>>

Add(e, role, pwd) ==
  /\ Free
  /\ users[e] = None
  /\ \E a \in Fresh :
       Commit([users EXCEPT ![e] =
                 [who |-> a, email |-> e, role |-> role, name |-> "", pwd |-> pwd]], {})

Delete(e) ==
  /\ Free
  /\ users[e] # None
  /\ Commit([users EXCEPT ![e] = None], {users[e].who})

\* Mistake: the old key stays.
MovedCopied(e, new, name) ==
  [users EXCEPT ![new] = [users[e] EXCEPT !.email = new, !.name = name]]

\* The map after the account of e has moved to the key new.
Moved(e, new, name) ==
  [users EXCEPT ![e] = None, ![new] = [users[e] EXCEPT !.email = new, !.name = name]]

\* Mistake: the new email may be anybody's.
AvailableAlways(e, new) == TRUE

Available(e, new) == new # e => users[new] = None

\* valid: the avatar and the photo pass their checks, which come after the
\* display name has been assigned.
UpdateProfile(e, new, name, valid) ==
  /\ Free
  /\ users[e] # None
  /\ Available(e, new)
  /\ IF valid
       THEN Commit(Moved(e, new, name), {})
       ELSE /\ users' = [users EXCEPT ![e].name = name]
            /\ clean' = FALSE
            /\ UNCHANGED <<up, disk, temp, pending, closed>>

UpdatePassword(e, old, new) ==
  /\ Free
  /\ users[e] # None
  /\ users[e].pwd = old
  /\ Commit([users EXCEPT ![e].pwd = new], {})

\* Mistake: the change is not saved.
SetRoleUnsaved(e, role) ==
  /\ Free
  /\ users[e] # None
  /\ users' = [users EXCEPT ![e].role = role]
  /\ UNCHANGED <<up, disk, temp, pending, clean, closed>>

SetRole(e, role) ==
  /\ Free
  /\ users[e] # None
  /\ Commit([users EXCEPT ![e].role = role], {})

-------------------------------------------------------------------------------
(* saveLocked.                                                             *)

\* The whole map goes to a temporary file beside users.json.
WriteTemp ==
  /\ pending # None /\ pending.stage = "write"
  /\ temp' = users
  /\ pending' = [pending EXCEPT !.stage = "rename"]
  /\ UNCHANGED <<up, users, disk, clean, closed>>

\* Mistake: an error of the rename is ignored.
RenameTempIgnored ==
  /\ pending # None /\ pending.stage = "rename"
  /\ disk' \in {disk, temp}
  /\ temp' = None
  /\ pending' = None
  /\ clean' = TRUE
  /\ closed' = closed \cup pending.closes
  /\ UNCHANGED <<up, users>>

\* The rename: the call returns nil.
RenameTemp ==
  /\ pending # None /\ pending.stage = "rename"
  /\ disk' = temp
  /\ temp' = None
  /\ pending' = None
  /\ clean' = TRUE
  /\ closed' = closed \cup pending.closes
  /\ UNCHANGED <<up, users>>

\* The directory, the temporary file or the rename fails: the call returns the
\* error and the map keeps the change. server.New panics if it was the seed's.
SaveFails ==
  /\ pending # None
  /\ temp' = None
  /\ pending' = None
  /\ clean' = FALSE
  /\ up' = ~pending.boot
  /\ users' = IF pending.boot THEN NoAccounts ELSE users
  /\ UNCHANGED <<disk, closed>>

-------------------------------------------------------------------------------
(* The process.                                                            *)

Crash ==
  /\ up
  /\ up' = FALSE
  /\ users' = NoAccounts
  /\ temp' = None
  /\ pending' = None
  /\ UNCHANGED <<disk, clean, closed>>

\* seedAdmin: a missing file, or one without any account.
Seeded(a, pwd) ==
  [NoAccounts EXCEPT ![DefaultAdmin] =
     [who |-> a, email |-> DefaultAdmin, role |-> "admin", name |-> "", pwd |-> pwd]]

\* NewUserStore: load.
Start ==
  /\ ~up
  /\ up' = TRUE
  /\ IF OnDisk # NoAccounts
       THEN /\ users' = disk
            /\ UNCHANGED pending
       ELSE /\ \E a \in Fresh, pwd \in Passwords : users' = Seeded(a, pwd)
            /\ pending' = Save({}, TRUE)
  /\ clean' = TRUE
  /\ UNCHANGED <<disk, temp, closed>>

-------------------------------------------------------------------------------

Call ==
  \E e \in Emails :
    \/ \E role \in Roles, pwd \in Passwords : Add(e, role, pwd)
    \/ Delete(e)
    \/ \E new \in Emails, name \in Names, valid \in BOOLEAN : UpdateProfile(e, new, name, valid)
    \/ \E old, new \in Passwords : UpdatePassword(e, old, new)
    \/ \E role \in Roles : SetRole(e, role)

Next == Call \/ WriteTemp \/ RenameTemp \/ SaveFails \/ Crash \/ Start

Spec == Init /\ [][Next]_vars

-------------------------------------------------------------------------------
(* Correctness.                                                            *)

\* The variables hold values of their types.
TypeOK ==
  /\ up \in BOOLEAN
  /\ users \in Table
  /\ disk \in Table \cup {None}
  /\ temp \in Table \cup {None}
  /\ pending \in Saving \cup {None}
  /\ clean \in BOOLEAN
  /\ closed \subseteq Accounts

\* Every account is found under its own email, and under no other one.
WellKeyed(table) ==
  /\ \A e \in Present(table) : table[e].email = e
  /\ \A e, f \in Present(table) : table[e].who = table[f].who => e = f

\* Renames, failures and restarts leave neither the map nor the file with an
\* account under a stale key or under two.
OneKeyPerAccount == WellKeyed(users) /\ WellKeyed(OnDisk)

\* As long as every call has been answered without an error, a crash loses
\* nothing: the file is the map.
AnsweredMeansSaved == Free /\ clean => disk = users

\* An account whose deletion was reported as done never comes back, neither
\* through later calls or failed saves, nor from the file after a crash.
DeletedStaysDeleted == closed \cap (Holders(users) \cup Holders(OnDisk)) = {}

\* What an unfinished save owes to the map, and a stopped process to nothing.
SaveInv ==
  /\ pending # None => up
  /\ ~up => users = NoAccounts
  /\ pending # None /\ pending.stage = "rename" => temp = users
  /\ pending # None => pending.closes \cap (Holders(users) \cup closed) = {}
  /\ pending # None /\ pending.boot => OnDisk = NoAccounts /\ pending.closes = {}

\* The inductive invariant behind the properties above.
IInv ==
  /\ TypeOK
  /\ SaveInv
  /\ OneKeyPerAccount
  /\ AnsweredMeansSaved
  /\ DeletedStaysDeleted

-------------------------------------------------------------------------------
(* The store, one account at a time.                                       *)

Held(table) ==
  [a \in Accounts |->
     IF a \in Holders(table)
       THEN LET u == table[CHOOSE e \in Present(table) : table[e].who = a]
            IN  [email |-> u.email, role |-> u.role, name |-> u.name, pwd |-> u.pwd]
       ELSE None]

Ledger == INSTANCE AccountLedger
            WITH now <- Held(users), saved <- Held(OnDisk), running <- up, Absent <- None

LedgerSpec == Ledger!Spec
===============================================================================
