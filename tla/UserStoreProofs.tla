---------------------------- MODULE UserStoreProofs ---------------------------
(***************************************************************************)
(* Proofs, for any set of emails, accounts and values, of the safety       *)
(* properties of UserStore and of its refinement of AccountLedger, and,    *)
(* for any number of requests at a time, of the properties of              *)
(* AuthRequests.                                                           *)
(***************************************************************************)
EXTENDS AuthRequests, FiniteSetTheorems, TLAPS

\* The empty table is a table, without holders and well keyed.
LEMMA NoAccountsFacts ==
  NoAccounts \in Table /\ Holders(NoAccounts) = {} /\ WellKeyed(NoAccounts)
BY DEF NoAccounts, Table, Holders, Present, WellKeyed

\* Before the first start the invariant holds.
LEMMA InitInv == Init => IInv
BY NoAccountsFacts
   DEF Init, IInv, TypeOK, SaveInv, OneKeyPerAccount, AnsweredMeansSaved,
       DeletedStaysDeleted, OnDisk, Free

\* The invariant after a call that changed the map: it is enough that the new
\* map is well keyed and holds neither the account that the call deletes nor
\* one that was deleted before.
LEMMA CommitKeepsInv ==
  ASSUME IInv, Free,
         NEW STATE table, table \in Table, WellKeyed(table),
         NEW STATE closes, closes \in SUBSET Accounts,
         Holders(table) \cap (closes \cup closed) = {},
         closes \cap closed = {},
         Commit(table, closes)
  PROVE  IInv'
<1>1. pending' = [stage |-> "write", closes |-> closes, boot |-> FALSE]
  BY DEF Commit, Save
<1>a. pending' \in Saving
  BY <1>1 DEF Saving
<1>b. /\ pending' # None
      /\ pending'.stage = "write" /\ pending'.closes = closes /\ ~pending'.boot
  BY <1>1, <1>a, StoreAssumption
<1>2. TypeOK'
  BY <1>a DEF IInv, TypeOK, Commit
<1>3. users' = table /\ OnDisk' = OnDisk /\ closed' = closed /\ up' = up /\ up
  BY DEF Commit, OnDisk, Free
<1>4. SaveInv'
  BY <1>b, <1>3 DEF SaveInv
<1>5. OneKeyPerAccount'
  BY <1>3 DEF IInv, OneKeyPerAccount, WellKeyed, Present
<1>6. AnsweredMeansSaved'
  BY <1>b DEF AnsweredMeansSaved, Free
<1>7. DeletedStaysDeleted'
  BY <1>3 DEF IInv, DeletedStaysDeleted, Holders, Present
<1>8. QED
  BY <1>2, <1>4, <1>5, <1>6, <1>7 DEF IInv

\* Add leaves a well-keyed map whose only new holder is a fresh identity.
LEMMA AddKeepsInv ==
  ASSUME IInv, NEW e \in Emails, NEW role \in Roles, NEW pwd \in Passwords, Add(e, role, pwd)
  PROVE  IInv'
<1>1. PICK a \in Fresh :
        Commit([users EXCEPT ![e] =
                  [who |-> a, email |-> e, role |-> role, name |-> "", pwd |-> pwd]], {})
  BY DEF Add
<1> DEFINE u == [who |-> a, email |-> e, role |-> role, name |-> "", pwd |-> pwd]
           table == [users EXCEPT ![e] = u]
<1>a. a \in Accounts /\ a \notin Holders(users) /\ a \notin closed
  BY DEF Fresh
<1>b. u \in Account
  BY <1>a, StoreAssumption DEF Account
<1>2. u \in Account /\ u # None /\ u.who = a /\ u.email = e
  BY <1>b, StoreAssumption
<1>3. users \in Table /\ users[e] = None /\ Free
  BY DEF IInv, TypeOK, Add
<1> HIDE DEF u
<1>4. /\ table \in Table /\ table[e] = u
      /\ \A f \in Emails : f # e => table[f] = users[f]
  BY <1>2, <1>3 DEF Table
<1> HIDE DEF table
<1>5. WellKeyed(table)
  BY <1>a, <1>2, <1>4 DEF IInv, OneKeyPerAccount, WellKeyed, Present, Holders
<1>6. Holders(table) \cap ({} \cup closed) = {}
  BY <1>a, <1>2, <1>4 DEF IInv, DeletedStaysDeleted, Present, Holders
<1>7. QED
  BY <1>1, <1>3, <1>4, <1>5, <1>6, CommitKeepsInv DEF table, u

\* Delete leaves the other accounts where they were.
LEMMA DeleteKeepsInv ==
  ASSUME IInv, NEW e \in Emails, Delete(e)
  PROVE  IInv'
<1> DEFINE table == [users EXCEPT ![e] = None]
           closes == {users[e].who}
<1>1. users \in Table /\ users[e] # None /\ Free /\ Commit(table, closes)
  BY DEF IInv, TypeOK, Delete
<1>2. /\ table \in Table /\ table[e] = None
      /\ \A f \in Emails : f # e => table[f] = users[f]
  BY <1>1 DEF Table
<1>3. closes \in SUBSET Accounts /\ users[e].who \in Holders(users)
  BY <1>1 DEF Table, Account, Holders, Present
<1>4. closes \cap closed = {}
  BY <1>3 DEF IInv, DeletedStaysDeleted
<1> HIDE DEF table
<1>5. WellKeyed(table)
  BY <1>1, <1>2 DEF IInv, OneKeyPerAccount, WellKeyed, Present
<1>6. Holders(table) \cap (closes \cup closed) = {}
  BY <1>1, <1>2 DEF IInv, DeletedStaysDeleted, OneKeyPerAccount, WellKeyed, Present, Holders
<1> HIDE DEF closes
<1>7. QED
  BY <1>1, <1>2, <1>3, <1>4, <1>5, <1>6, CommitKeepsInv

\* A change to fields other than the identity and the email keeps the map well
\* keyed, with the holders it had.
LEMMA AmendedTable ==
  ASSUME IInv, NEW e \in Emails, users[e] # None,
         NEW STATE u, u \in Account, u.who = users[e].who, u.email = e,
         NEW STATE table, table = [users EXCEPT ![e] = u]
  PROVE  table \in Table /\ WellKeyed(table) /\ Holders(table) = Holders(users)
<1>1. users \in Table /\ u # None
  BY StoreAssumption DEF IInv, TypeOK
<1>2. /\ table \in Table /\ table[e] = u
      /\ \A f \in Emails : f # e => table[f] = users[f]
  BY <1>1 DEF Table
<1>3. Present(table) = Present(users)
  BY <1>1, <1>2 DEF Present
<1>4. \A f \in Emails : table[f].who = users[f].who
  BY <1>2
<1>5. WellKeyed(table)
  BY <1>2, <1>3, <1>4 DEF IInv, OneKeyPerAccount, WellKeyed, Present
<1>6. Holders(table) = Holders(users)
  BY <1>3, <1>4 DEF Holders, Present
<1>7. QED
  BY <1>2, <1>5, <1>6

\* UpdatePassword and SetRole amend one account in place.
LEMMA AmendKeepsInv ==
  ASSUME IInv, Free, NEW e \in Emails, users[e] # None,
         NEW STATE u, u \in Account, u.who = users[e].who, u.email = e,
         Commit([users EXCEPT ![e] = u], {})
  PROVE  IInv'
<1> DEFINE table == [users EXCEPT ![e] = u]
<1>1. table \in Table /\ WellKeyed(table) /\ Holders(table) = Holders(users)
  BY AmendedTable
<1>2. Holders(table) \cap ({} \cup closed) = {}
  BY <1>1 DEF IInv, DeletedStaysDeleted
<1> HIDE DEF table
<1>3. QED
  BY <1>1, <1>2, CommitKeepsInv DEF table

\* A new password keeps the invariant.
LEMMA UpdatePasswordKeepsInv ==
  ASSUME IInv, NEW e \in Emails, NEW old \in Passwords, NEW new \in Passwords,
         UpdatePassword(e, old, new)
  PROVE  IInv'
<1> DEFINE u == [users[e] EXCEPT !.pwd = new]
<1>1. users \in Table /\ users[e] # None /\ users[e] \in Account /\ Free
  BY DEF IInv, TypeOK, UpdatePassword, Table
<1>2. u \in Account /\ u.who = users[e].who /\ u.email = users[e].email
  BY <1>1 DEF Account
<1>3. users[e].email = e
  BY <1>1 DEF IInv, OneKeyPerAccount, WellKeyed, Present
<1>4. [users EXCEPT ![e].pwd = new] = [users EXCEPT ![e] = u]
  BY <1>1 DEF Table
<1>5. Commit([users EXCEPT ![e] = u], {})
  BY <1>4 DEF UpdatePassword
<1> HIDE DEF u
<1>6. QED
  BY <1>1, <1>2, <1>3, <1>5, AmendKeepsInv

\* A new role keeps the invariant.
LEMMA SetRoleKeepsInv ==
  ASSUME IInv, NEW e \in Emails, NEW role \in Roles, SetRole(e, role)
  PROVE  IInv'
<1> DEFINE u == [users[e] EXCEPT !.role = role]
<1>1. users \in Table /\ users[e] # None /\ users[e] \in Account /\ Free
  BY DEF IInv, TypeOK, SetRole, Table
<1>2. u \in Account /\ u.who = users[e].who /\ u.email = users[e].email
  BY <1>1 DEF Account
<1>3. users[e].email = e
  BY <1>1 DEF IInv, OneKeyPerAccount, WellKeyed, Present
<1>4. [users EXCEPT ![e].role = role] = [users EXCEPT ![e] = u]
  BY <1>1 DEF Table
<1>5. Commit([users EXCEPT ![e] = u], {})
  BY <1>4 DEF SetRole
<1> HIDE DEF u
<1>6. QED
  BY <1>1, <1>2, <1>3, <1>5, AmendKeepsInv

\* The key move of UpdateProfile: the account leaves its old key, takes the new
\* one, which was free or its own, and nobody else moves.
LEMMA MovedTable ==
  ASSUME IInv, NEW e \in Emails, NEW new \in Emails, NEW name \in Names,
         users[e] # None, new # e => users[new] = None
  PROVE  /\ Moved(e, new, name) \in Table
         /\ WellKeyed(Moved(e, new, name))
         /\ Holders(Moved(e, new, name)) = Holders(users)
<1> DEFINE u == [users[e] EXCEPT !.email = new, !.name = name]
           table == Moved(e, new, name)
<1>1. users \in Table /\ users[e] \in Account
  BY DEF IInv, TypeOK, Table
<1>2. u \in Account /\ u.who = users[e].who /\ u.email = new
  BY <1>1 DEF Account
<1>3. u # None
  BY <1>2, StoreAssumption
<1>4. table = [users EXCEPT ![e] = None, ![new] = u]
  BY DEF Moved
<1> HIDE DEF u, table
<1>5. /\ table \in Table /\ table[new] = u
      /\ e # new => table[e] = None
      /\ \A f \in Emails : f # e /\ f # new => table[f] = users[f]
  BY <1>1, <1>2, <1>4 DEF Table
<1>6. WellKeyed(table)
  BY <1>2, <1>3, <1>5 DEF IInv, OneKeyPerAccount, WellKeyed, Present
<1>7. Holders(table) \subseteq Holders(users)
  BY <1>2, <1>3, <1>5 DEF Holders, Present
<1>8. Holders(users) \subseteq Holders(table)
  <2> SUFFICES ASSUME NEW f \in Emails, users[f] # None PROVE users[f].who \in Holders(table)
    BY DEF Holders, Present
  <2>1. CASE f = e
    BY <2>1, <1>2, <1>3, <1>5 DEF Holders, Present
  <2>2. CASE f # e
    BY <2>2, <1>5 DEF Holders, Present
  <2>3. QED
    BY <2>1, <2>2
<1>9. QED
  BY <1>5, <1>6, <1>7, <1>8 DEF table

\* A profile update, accepted or refused, keeps the invariant.
LEMMA UpdateProfileKeepsInv ==
  ASSUME IInv, NEW e \in Emails, NEW new \in Emails, NEW name \in Names, NEW valid \in BOOLEAN,
         UpdateProfile(e, new, name, valid)
  PROVE  IInv'
<1>1. Free /\ users[e] # None /\ (new # e => users[new] = None)
  BY DEF UpdateProfile, Available
<1>2. CASE valid
  <2>1. Commit(Moved(e, new, name), {})
    BY <1>2 DEF UpdateProfile
  <2>2. /\ Moved(e, new, name) \in Table
        /\ WellKeyed(Moved(e, new, name))
        /\ Holders(Moved(e, new, name)) = Holders(users)
    BY <1>1, MovedTable
  <2>3. Holders(Moved(e, new, name)) \cap ({} \cup closed) = {}
    BY <2>2 DEF IInv, DeletedStaysDeleted
  <2>4. QED
    BY <1>1, <2>1, <2>2, <2>3, CommitKeepsInv
<1>3. CASE ~valid
  <2> DEFINE u == [users[e] EXCEPT !.name = name]
  <2>1. users \in Table /\ users[e] \in Account
    BY <1>1 DEF IInv, TypeOK, Table
  <2>2. u \in Account /\ u.who = users[e].who /\ u.email = users[e].email
    BY <2>1 DEF Account
  <2>3. users[e].email = e
    BY <1>1 DEF IInv, OneKeyPerAccount, WellKeyed, Present
  <2>4. users' = [users EXCEPT ![e] = u]
    BY <1>3, <2>1 DEF UpdateProfile, Table
  <2> HIDE DEF u
  <2>5. /\ [users EXCEPT ![e] = u] \in Table
        /\ WellKeyed([users EXCEPT ![e] = u])
        /\ Holders([users EXCEPT ![e] = u]) = Holders(users)
    BY <1>1, <2>2, <2>3, AmendedTable
  <2>6. users' \in Table /\ WellKeyed(users)' /\ Holders(users)' = Holders(users)
    BY <2>4, <2>5 DEF WellKeyed, Holders, Present
  <2>7. /\ UNCHANGED <<up, disk, temp, pending, closed>> /\ clean' = FALSE
        /\ OnDisk' = OnDisk /\ pending = None /\ up
    BY <1>1, <1>3 DEF UpdateProfile, Free, OnDisk
  <2>8. WellKeyed(OnDisk)' /\ Holders(OnDisk)' = Holders(OnDisk)
    BY <2>7 DEF IInv, OneKeyPerAccount, WellKeyed, Holders, Present
  <2>9. QED
    BY <2>6, <2>7, <2>8
       DEF IInv, TypeOK, SaveInv, OneKeyPerAccount, AnsweredMeansSaved, DeletedStaysDeleted, Free
<1>4. QED
  BY <1>2, <1>3

-------------------------------------------------------------------------------
(* The save and the process.                                               *)

\* Once the temporary file is written, it is the map.
LEMMA WriteTempKeepsInv == ASSUME IInv, WriteTemp PROVE IInv'
<1>1. /\ pending \in Saving /\ users \in Table
  BY DEF IInv, TypeOK, WriteTemp
<1>2. /\ pending' \in Saving /\ pending'.stage = "rename"
      /\ pending'.closes = pending.closes /\ pending'.boot = pending.boot
  BY <1>1 DEF WriteTemp, Saving
<1>3. pending' # None
  BY <1>2, StoreAssumption
<1>4. /\ WellKeyed(users)' = WellKeyed(users) /\ WellKeyed(OnDisk)' = WellKeyed(OnDisk)
      /\ Holders(users)' = Holders(users) /\ Holders(OnDisk)' = Holders(OnDisk)
      /\ OnDisk' = OnDisk
  BY DEF WriteTemp, WellKeyed, Holders, Present, OnDisk
<1>5. TypeOK'
  BY <1>1, <1>2 DEF IInv, TypeOK, WriteTemp
<1>6. SaveInv'
  BY <1>2, <1>3, <1>4 DEF IInv, SaveInv, WriteTemp
<1>7. OneKeyPerAccount' /\ AnsweredMeansSaved' /\ DeletedStaysDeleted'
  BY <1>3, <1>4
     DEF IInv, OneKeyPerAccount, AnsweredMeansSaved, DeletedStaysDeleted, Free, WriteTemp
<1>8. QED
  BY <1>5, <1>6, <1>7 DEF IInv

\* The rename puts the map in the file; what the call deletes is now deleted in
\* both.
LEMMA RenameTempKeepsInv == ASSUME IInv, RenameTemp PROVE IInv'
<1>1. /\ pending \in Saving /\ users \in Table /\ temp = users /\ users # None
  BY StoreAssumption DEF IInv, TypeOK, SaveInv, RenameTemp
<1>2. disk' = users /\ OnDisk' = users
  BY <1>1 DEF RenameTemp, OnDisk
<1>3. /\ WellKeyed(users)' = WellKeyed(users) /\ Holders(users)' = Holders(users)
      /\ WellKeyed(OnDisk)' = WellKeyed(users) /\ Holders(OnDisk)' = Holders(users)
  BY <1>2 DEF RenameTemp, WellKeyed, Holders, Present
<1>4. pending.closes \subseteq Accounts /\ pending.closes \cap Holders(users) = {}
  BY <1>1 DEF IInv, SaveInv, Saving, RenameTemp
<1>5. TypeOK'
  BY <1>1, <1>2, <1>4 DEF IInv, TypeOK, RenameTemp
<1>6. SaveInv'
  BY DEF IInv, SaveInv, RenameTemp
<1>7. OneKeyPerAccount' /\ AnsweredMeansSaved'
  BY <1>2, <1>3 DEF IInv, OneKeyPerAccount, AnsweredMeansSaved, RenameTemp
<1>8. DeletedStaysDeleted'
  BY <1>3, <1>4 DEF IInv, DeletedStaysDeleted, RenameTemp
<1>9. QED
  BY <1>5, <1>6, <1>7, <1>8 DEF IInv

\* A stopped process has the empty map; the file keeps what it was.
LEMMA StopKeepsInv ==
  ASSUME IInv, up' = FALSE, users' = NoAccounts, temp' = None, pending' = None,
         UNCHANGED <<disk, closed>>, clean' \in BOOLEAN
  PROVE  IInv'
<1>1. /\ WellKeyed(users)' /\ Holders(users)' = {}
      /\ WellKeyed(OnDisk)' = WellKeyed(OnDisk) /\ Holders(OnDisk)' = Holders(OnDisk)
  BY NoAccountsFacts DEF WellKeyed, Holders, Present, OnDisk
<1>2. QED
  BY <1>1, NoAccountsFacts
     DEF IInv, TypeOK, SaveInv, OneKeyPerAccount, AnsweredMeansSaved, DeletedStaysDeleted, Free

\* A save that fails keeps the invariant: it only ends what was going on.
LEMMA SaveFailsKeepsInv == ASSUME IInv, SaveFails PROVE IInv'
<1>1. pending \in Saving /\ pending # None
  BY DEF IInv, TypeOK, SaveFails
<1>2. CASE pending.boot
  BY <1>1, <1>2, StopKeepsInv DEF SaveFails, Saving
<1>3. CASE ~pending.boot
  <2>1. /\ WellKeyed(users)' = WellKeyed(users) /\ WellKeyed(OnDisk)' = WellKeyed(OnDisk)
        /\ Holders(users)' = Holders(users) /\ Holders(OnDisk)' = Holders(OnDisk)
    BY <1>3 DEF SaveFails, WellKeyed, Holders, Present, OnDisk
  <2>2. QED
    BY <1>1, <1>3, <2>1
       DEF IInv, TypeOK, SaveInv, OneKeyPerAccount, AnsweredMeansSaved, DeletedStaysDeleted,
           Free, SaveFails, Saving
<1>4. QED
  BY <1>2, <1>3

\* A crash keeps the invariant.
LEMMA CrashKeepsInv == ASSUME IInv, Crash PROVE IInv'
BY StopKeepsInv DEF Crash, IInv, TypeOK

\* The seed's map has one holder, a fresh identity.
LEMMA SeededTable ==
  ASSUME NEW a \in Accounts, NEW pwd \in Passwords
  PROVE  /\ Seeded(a, pwd) \in Table /\ WellKeyed(Seeded(a, pwd))
         /\ Holders(Seeded(a, pwd)) = {a}
<1> DEFINE u == [who |-> a, email |-> DefaultAdmin, role |-> "admin", name |-> "", pwd |-> pwd]
           table == Seeded(a, pwd)
<1>1. u \in Account /\ u.who = a /\ u.email = DefaultAdmin
  BY StoreAssumption DEF Account
<1>2. u # None /\ DefaultAdmin \in Emails
  BY <1>1, StoreAssumption
<1>3. table = [NoAccounts EXCEPT ![DefaultAdmin] = u]
  BY DEF Seeded
<1> HIDE DEF u, table
<1>4. /\ table \in Table /\ table[DefaultAdmin] = u
      /\ \A f \in Emails : f # DefaultAdmin => table[f] = None
  BY <1>1, <1>2, <1>3 DEF NoAccounts, Table
<1>5. WellKeyed(table) /\ Holders(table) = {a}
  BY <1>1, <1>2, <1>4 DEF WellKeyed, Holders, Present
<1>6. QED
  BY <1>4, <1>5 DEF table

\* A start keeps the invariant, whether it finds accounts or makes the first one.
LEMMA StartKeepsInv == ASSUME IInv, Start PROVE IInv'
<1>1. /\ OnDisk' = OnDisk /\ closed' = closed /\ disk' = disk /\ temp' = temp
      /\ WellKeyed(OnDisk)' = WellKeyed(OnDisk) /\ Holders(OnDisk)' = Holders(OnDisk)
      /\ up' = TRUE /\ clean' = TRUE
  BY DEF Start, OnDisk, WellKeyed, Holders, Present
<1>2. pending = None
  BY DEF IInv, SaveInv, Start
<1>3. CASE OnDisk # NoAccounts
  <2>1. users' = disk /\ disk = OnDisk /\ pending' = None /\ disk \in Table
    BY <1>2, <1>3 DEF Start, OnDisk, IInv, TypeOK
  <2>2. WellKeyed(users)' = WellKeyed(OnDisk) /\ Holders(users)' = Holders(OnDisk)
    BY <2>1 DEF WellKeyed, Holders, Present
  <2>3. QED
    BY <1>1, <2>1, <2>2
       DEF IInv, TypeOK, SaveInv, OneKeyPerAccount, AnsweredMeansSaved, DeletedStaysDeleted
<1>4. CASE OnDisk = NoAccounts
  <2>1. PICK a \in Fresh, pwd \in Passwords : users' = Seeded(a, pwd)
    BY <1>4 DEF Start
  <2>2. a \in Accounts /\ a \notin closed
    BY DEF Fresh
  <2>3. /\ users' \in Table /\ WellKeyed(users)' /\ Holders(users)' = {a}
    BY <2>1, <2>2, SeededTable DEF WellKeyed, Holders, Present
  <2>4. pending' = [stage |-> "write", closes |-> {}, boot |-> TRUE]
    BY <1>4 DEF Start, Save
  <2>5. pending' \in Saving
    BY <2>4 DEF Saving
  <2>6. pending' # None
    BY <2>5, StoreAssumption
  <2>7. QED
    BY <1>1, <1>4, <2>2, <2>3, <2>4, <2>5, <2>6
       DEF IInv, TypeOK, SaveInv, OneKeyPerAccount, AnsweredMeansSaved, DeletedStaysDeleted, Free
<1>5. QED
  BY <1>3, <1>4

-------------------------------------------------------------------------------
(* The theorems.                                                           *)

\* Every step of the store keeps the invariant.
LEMMA StepInv == IInv /\ [Next]_vars => IInv'
<1> SUFFICES ASSUME IInv, [Next]_vars PROVE IInv'
  OBVIOUS
<1>1. CASE Call
  BY <1>1, AddKeepsInv, DeleteKeepsInv, UpdateProfileKeepsInv, UpdatePasswordKeepsInv,
     SetRoleKeepsInv DEF Call
<1>2. CASE WriteTemp
  BY <1>2, WriteTempKeepsInv
<1>3. CASE RenameTemp
  BY <1>3, RenameTempKeepsInv
<1>4. CASE SaveFails
  BY <1>4, SaveFailsKeepsInv
<1>5. CASE Crash
  BY <1>5, CrashKeepsInv
<1>6. CASE Start
  BY <1>6, StartKeepsInv
<1>7. CASE UNCHANGED vars
  BY <1>7 DEF vars, IInv, TypeOK, SaveInv, OneKeyPerAccount, AnsweredMeansSaved,
              DeletedStaysDeleted, WellKeyed, Holders, Present, OnDisk, Free
<1>8. QED
  BY <1>1, <1>2, <1>3, <1>4, <1>5, <1>6, <1>7 DEF Next

\* The invariant of the store holds in every reachable state.
THEOREM StoreInvariant == Spec => []IInv
<1>1. Init => IInv
  BY InitInv
<1>2. IInv /\ [Next]_vars => IInv'
  BY StepInv
<1>3. QED
  BY <1>1, <1>2, PTL DEF Spec

\* A crash loses nothing that was answered without an error, whatever was
\* called, failed or crashed before.
THEOREM NothingAnsweredIsLost == Spec => []AnsweredMeansSaved
<1>1. IInv => AnsweredMeansSaved
  BY DEF IInv
<1>2. QED
  BY <1>1, StoreInvariant, PTL

\* A deletion that was answered is final, in the map and in the file.
THEOREM DeletionIsFinal == Spec => []DeletedStaysDeleted
<1>1. IInv => DeletedStaysDeleted
  BY DEF IInv
<1>2. QED
  BY <1>1, StoreInvariant, PTL

\* Renames and restarts never leave an account under a wrong key or two keys.
THEOREM KeysStayRight == Spec => []OneKeyPerAccount
<1>1. IInv => OneKeyPerAccount
  BY DEF IInv
<1>2. QED
  BY <1>1, StoreInvariant, PTL

-------------------------------------------------------------------------------
(* The store, one account at a time.                                       *)

\* What the ledger shows of an account.
Shown(u) == [email |-> u.email, role |-> u.role, name |-> u.name, pwd |-> u.pwd]

\* In a table that is well keyed each account shows its record, and the ledger has
\* nothing of the others.
LEMMA HeldOf ==
  ASSUME NEW T \in Table, WellKeyed(T)
  PROVE  /\ Held(T) \in [Accounts -> Ledger!Holder \cup {None}]
         /\ \A e \in Emails : T[e] # None =>
              /\ T[e].who \in Accounts /\ T[e].email = e
              /\ Held(T)[T[e].who] = Shown(T[e]) /\ Shown(T[e]) \in Ledger!Holder
         /\ \A a \in Accounts :
              (\A e \in Emails : T[e] # None => T[e].who # a) => Held(T)[a] = None
<1> DEFINE Record(a) == T[CHOOSE e \in Present(T) : T[e].who = a]
<1>1. Held(T) = [a \in Accounts |-> IF a \in Holders(T) THEN Shown(Record(a)) ELSE None]
  BY DEF Held, Shown
<1>2. ASSUME NEW e \in Emails, T[e] # None
      PROVE  T[e] \in Account /\ e \in Present(T) /\ T[e].who \in Holders(T) /\ T[e].email = e
  BY <1>2 DEF Table, Present, Holders, WellKeyed
<1>3. ASSUME NEW e \in Present(T) PROVE Record(T[e].who) = T[e]
  <2> DEFINE f == CHOOSE g \in Present(T) : T[g].who = T[e].who
  <2>1. f \in Present(T) /\ T[f].who = T[e].who
    OBVIOUS
  <2> HIDE DEF f
  <2>2. f = e
    BY <2>1 DEF WellKeyed
  <2> QED
    BY <2>2 DEF f
<1>4. \A u \in Account : u.who \in Accounts /\ Shown(u) \in Ledger!Holder
  BY DEF Account, Shown, Ledger!Holder
<1> HIDE DEF Record
<1>5. ASSUME NEW a \in Accounts, a \in Holders(T) PROVE Shown(Record(a)) \in Ledger!Holder
  <2>1. PICK e \in Present(T) : T[e].who = a
    BY <1>5 DEF Holders
  <2>2. e \in Emails /\ T[e] # None
    BY DEF Present
  <2> QED
    BY <1>2, <1>3, <1>4, <2>1, <2>2
<1>6. Held(T) \in [Accounts -> Ledger!Holder \cup {None}]
  BY <1>1, <1>5
<1>7. ASSUME NEW e \in Emails, T[e] # None
      PROVE  /\ T[e].who \in Accounts /\ T[e].email = e
             /\ Held(T)[T[e].who] = Shown(T[e]) /\ Shown(T[e]) \in Ledger!Holder
  BY <1>1, <1>2, <1>3, <1>4, <1>7
<1>8. ASSUME NEW a \in Accounts, \A e \in Emails : T[e] # None => T[e].who # a
      PROVE  Held(T)[a] = None
  <2>1. a \notin Holders(T)
    BY <1>8 DEF Holders, Present
  <2> QED
    BY <1>1, <2>1
<1> QED
  BY <1>6, <1>7, <1>8

\* Tables that differ in the record of one account: the ledger amends it, and no other
\* account has its email.
LEMMA OneAmended ==
  ASSUME NEW T \in Table, WellKeyed(T), NEW U \in Table, WellKeyed(U), NEW a \in Accounts,
         \A e \in Emails : U[e] # T[e] =>
           (T[e] # None => T[e].who = a) /\ (U[e] # None => U[e].who = a)
  PROVE  \E h \in Ledger!Holder \cup {None} :
           /\ h # None =>
                \A b \in Accounts \ {a} : Held(T)[b] # None => Held(T)[b].email # h.email
           /\ Held(U) = [Held(T) EXCEPT ![a] = h]
<1>1. ASSUME NEW b \in Accounts, b # a PROVE Held(U)[b] = Held(T)[b]
  <2>1. CASE \E e \in Emails : T[e] # None /\ T[e].who = b
    <3>1. PICK e \in Emails : T[e] # None /\ T[e].who = b
      BY <2>1
    <3>2. U[e] = T[e]
      BY <1>1, <3>1
    <3> QED
      BY <3>1, <3>2, HeldOf
  <2>2. CASE \A e \in Emails : T[e] # None => T[e].who # b
    <3>1. \A e \in Emails : U[e] # None => U[e].who # b
      BY <1>1, <2>2
    <3> QED
      BY <2>2, <3>1, HeldOf
  <2> QED
    BY <2>1, <2>2
<1> DEFINE h == Held(U)[a]
<1>2. /\ Held(T) \in [Accounts -> Ledger!Holder \cup {None}]
      /\ Held(U) \in [Accounts -> Ledger!Holder \cup {None}]
  BY HeldOf
<1>3. h \in Ledger!Holder \cup {None} /\ Held(U) = [Held(T) EXCEPT ![a] = h]
  BY <1>1, <1>2
<1>4. ASSUME h # None, NEW b \in Accounts \ {a}, Held(T)[b] # None
      PROVE  Held(T)[b].email # h.email
  <2>1. PICK e \in Emails : U[e] # None /\ U[e].who = a
    BY <1>4, HeldOf
  <2>2. PICK f \in Emails : T[f] # None /\ T[f].who = b
    BY <1>4, HeldOf
  <2>3. U[f] = T[f]
    BY <2>2
  <2>4. h = Shown(U[e]) /\ U[e].email = e /\ Held(T)[b] = Shown(T[f]) /\ T[f].email = f
    BY <2>1, <2>2, HeldOf
  <2>5. h.email = e /\ Held(T)[b].email = f
    BY <2>4 DEF Shown
  <2>6. e # f
    BY <2>1, <2>2, <2>3
  <2> QED
    BY <2>5, <2>6
<1> HIDE DEF h
<1> QED
  BY <1>3, <1>4

\* Only the empty table holds nobody.
LEMMA HeldNobody ==
  ASSUME NEW T \in Table, WellKeyed(T)
  PROVE  Held(T) = Ledger!Nobody <=> T = NoAccounts
<1>1. Held(NoAccounts) = Ledger!Nobody
  <2>1. \A a \in Accounts : Held(NoAccounts)[a] = None
    BY NoAccountsFacts, HeldOf DEF NoAccounts
  <2>2. Held(NoAccounts) = [a \in Accounts |-> Held(NoAccounts)[a]]
    BY NoAccountsFacts, HeldOf
  <2> QED
    BY <2>1, <2>2 DEF Ledger!Nobody
<1>2. ASSUME Held(T) = Ledger!Nobody, NEW e \in Emails, T[e] # None PROVE FALSE
  <2>1. /\ T[e].who \in Accounts /\ Held(T)[T[e].who] = Shown(T[e])
        /\ Shown(T[e]) \in Ledger!Holder
    BY <1>2, HeldOf
  <2>2. Shown(T[e]) = None
    BY <1>2, <2>1 DEF Ledger!Nobody
  <2> QED
    BY <2>1, <2>2, StoreAssumption DEF Ledger!Holder
<1>3. (\A e \in Emails : T[e] = None) => T = NoAccounts
  BY DEF Table, NoAccounts
<1> QED
  BY <1>1, <1>2, <1>3

\* A call of the store amends one account.
LEMMA CallAmends ==
  ASSUME IInv, IInv', Call
  PROVE  \E a \in Accounts : Ledger!Amend(a)
<1>1. /\ users \in Table /\ WellKeyed(users) /\ users' \in Table /\ WellKeyed(users')
  BY DEF IInv, TypeOK, OneKeyPerAccount, WellKeyed, Present
<1>2. Free /\ UNCHANGED <<up, disk>>
  BY DEF Call, Add, Delete, UpdateProfile, UpdatePassword, SetRole, Commit
<1>3. \A e \in Emails : users[e] # None => users[e] \in Account /\ users[e].who \in Accounts
  BY <1>1 DEF Table, Account
<1> DEFINE Only(a) == \A f \in Emails : users'[f] # users[f] =>
                        (users[f] # None => users[f].who = a) /\ (users'[f] # None => users'[f].who = a)
<1>4. ASSUME NEW e \in Emails, NEW u, users' = [users EXCEPT ![e] = u],
             NEW a \in Accounts, users[e] # None => users[e].who = a, u # None => u.who = a
      PROVE  Only(a)
  BY <1>1, <1>4 DEF Table
<1>5. PICK e \in Emails :
        \/ \E role \in Roles, pwd \in Passwords : Add(e, role, pwd)
        \/ Delete(e)
        \/ \E new \in Emails, name \in Names, valid \in BOOLEAN : UpdateProfile(e, new, name, valid)
        \/ \E old, new \in Passwords : UpdatePassword(e, old, new)
        \/ \E role \in Roles : SetRole(e, role)
  BY DEF Call
<1>6. \E a \in Accounts : Only(a)
  <2>1. ASSUME NEW role \in Roles, NEW pwd \in Passwords, Add(e, role, pwd)
        PROVE  \E a \in Accounts : Only(a)
    <3>1. PICK a \in Fresh :
            users' = [users EXCEPT ![e] =
                        [who |-> a, email |-> e, role |-> role, name |-> "", pwd |-> pwd]]
      BY <2>1 DEF Add, Commit
    <3> DEFINE u == [who |-> a, email |-> e, role |-> role, name |-> "", pwd |-> pwd]
    <3>2. users[e] = None /\ a \in Accounts /\ u.who = a /\ users' = [users EXCEPT ![e] = u]
      BY <2>1, <3>1 DEF Add, Fresh
    <3> HIDE DEF u, Only
    <3> QED
      BY <1>4, <3>2
  <2>2. CASE Delete(e)
    <3>1. users[e] # None /\ users' = [users EXCEPT ![e] = None]
      BY <2>2 DEF Delete, Commit
    <3> HIDE DEF Only
    <3> QED
      BY <1>3, <1>4, <3>1
  <2>3. ASSUME NEW u, u.who = users[e].who, users[e] # None, users' = [users EXCEPT ![e] = u]
        PROVE  \E a \in Accounts : Only(a)
    <3> HIDE DEF Only
    <3> QED
      BY <1>3, <1>4, <2>3
  <2>4. ASSUME NEW new \in Emails, NEW name \in Names, NEW valid \in BOOLEAN,
               UpdateProfile(e, new, name, valid)
        PROVE  \E a \in Accounts : Only(a)
    <3>1. users[e] # None /\ users[e] \in Account /\ (new # e => users[new] = None)
      BY <1>3, <2>4 DEF UpdateProfile, Available
    <3>2. CASE valid = TRUE
      <4> DEFINE u == [users[e] EXCEPT !.email = new, !.name = name]
      <4>1. users' = [users EXCEPT ![e] = None, ![new] = u]
        BY <2>4, <3>2 DEF UpdateProfile, Commit, Moved
      <4>2. u.who = users[e].who
        BY <3>1 DEF Account
      <4> HIDE DEF u
      <4>3. Only(users[e].who)
        BY <1>1, <3>1, <4>1, <4>2 DEF Table
      <4> QED
        BY <1>3, <3>1, <4>3
    <3>3. CASE valid = FALSE
      <4> DEFINE u == [users[e] EXCEPT !.name = name]
      <4>1. users' = [users EXCEPT ![e] = u]
        BY <1>1, <2>4, <3>3 DEF UpdateProfile, Table
      <4>2. u.who = users[e].who
        BY <3>1 DEF Account
      <4> HIDE DEF u, Only
      <4> QED
        BY <2>3, <3>1, <4>1, <4>2
    <3> QED
      BY <3>2, <3>3
  <2>5. ASSUME NEW old \in Passwords, NEW new \in Passwords, UpdatePassword(e, old, new)
        PROVE  \E a \in Accounts : Only(a)
    <3> DEFINE u == [users[e] EXCEPT !.pwd = new]
    <3>1. users[e] # None /\ users[e] \in Account /\ users' = [users EXCEPT ![e] = u]
      BY <1>1, <1>3, <2>5 DEF UpdatePassword, Commit, Table
    <3>2. u.who = users[e].who
      BY <3>1 DEF Account
    <3> HIDE DEF u, Only
    <3> QED
      BY <2>3, <3>1, <3>2
  <2>6. ASSUME NEW role \in Roles, SetRole(e, role)
        PROVE  \E a \in Accounts : Only(a)
    <3> DEFINE u == [users[e] EXCEPT !.role = role]
    <3>1. users[e] # None /\ users[e] \in Account /\ users' = [users EXCEPT ![e] = u]
      BY <1>1, <1>3, <2>6 DEF SetRole, Commit, Table
    <3>2. u.who = users[e].who
      BY <3>1 DEF Account
    <3> HIDE DEF u, Only
    <3> QED
      BY <2>3, <3>1, <3>2
  <2> HIDE DEF Only
  <2> QED
    BY <1>5, <2>1, <2>2, <2>4, <2>5, <2>6
<1>7. PICK a \in Accounts : Only(a)
  BY <1>6
<1>8. \E h \in Ledger!Holder \cup {None} :
        /\ h # None =>
             \A b \in Accounts \ {a} : Held(users)[b] # None => Held(users)[b].email # h.email
        /\ Held(users') = [Held(users) EXCEPT ![a] = h]
  BY <1>1, <1>7, OneAmended
<1>9. Held(users') = Held(users)' /\ Held(OnDisk)' = Held(OnDisk) /\ up /\ up' = up
  BY <1>2 DEF Held, Holders, Present, OnDisk, Free
<1> QED
  BY <1>8, <1>9 DEF Ledger!Amend

\* What the ledger shows of the seed.
LEMMA SeededHeld ==
  ASSUME NEW a \in Accounts, NEW pwd \in Passwords
  PROVE  Held(Seeded(a, pwd)) =
           [Ledger!Nobody EXCEPT ![a] =
              [email |-> DefaultAdmin, role |-> "admin", name |-> "", pwd |-> pwd]]
<1> DEFINE T == Seeded(a, pwd)
           u == [who |-> a, email |-> DefaultAdmin, role |-> "admin", name |-> "", pwd |-> pwd]
           h == [email |-> DefaultAdmin, role |-> "admin", name |-> "", pwd |-> pwd]
<1>1. T \in Table /\ WellKeyed(T)
  BY SeededTable
<1>2. u.who = a /\ Shown(u) = h /\ u # None
  <2>1. u \in Account
    BY StoreAssumption DEF Account
  <2> QED
    BY <2>1, StoreAssumption DEF Shown
<1>3. T[DefaultAdmin] = u /\ \A e \in Emails : e # DefaultAdmin => T[e] = None
  BY StoreAssumption DEF Seeded, NoAccounts
<1> HIDE DEF T, u, h
<1>4. Held(T) \in [Accounts -> Ledger!Holder \cup {None}] /\ Held(T)[a] = h
  BY <1>1, <1>2, <1>3, StoreAssumption, HeldOf
<1>5. \A b \in Accounts : b # a => Held(T)[b] = None
  BY <1>1, <1>2, <1>3, HeldOf
<1>6. Held(T) = [Ledger!Nobody EXCEPT ![a] = h]
  BY <1>4, <1>5 DEF Ledger!Nobody
<1> QED
  BY <1>6 DEF T, h

\* The initial state is one of the ledger.
LEMMA LedgerInit == Init => Ledger!Init
<1> SUFFICES ASSUME Init PROVE Ledger!Init
  OBVIOUS
<1>1. users = NoAccounts /\ OnDisk = NoAccounts /\ up = FALSE
  BY DEF Init, OnDisk
<1> QED
  BY <1>1, NoAccountsFacts, HeldNobody DEF Ledger!Init

\* Every step of the store is one of the ledger, or none.
LEMMA LedgerStep == IInv /\ IInv' /\ [Next]_vars => [Ledger!Next]_Ledger!vars
<1> SUFFICES ASSUME IInv, IInv', [Next]_vars PROVE [Ledger!Next]_Ledger!vars
  OBVIOUS
<1>1. /\ users \in Table /\ WellKeyed(users) /\ OnDisk \in Table /\ WellKeyed(OnDisk)
      /\ (pending # None => up)
  BY NoAccountsFacts DEF IInv, TypeOK, SaveInv, OneKeyPerAccount, OnDisk
<1>2. ASSUME UNCHANGED <<users, OnDisk, up>> PROVE UNCHANGED Ledger!vars
  BY <1>2 DEF Ledger!vars, Held, Holders, Present
<1>3. ASSUME up, up' = FALSE, users' = NoAccounts, disk' = disk PROVE Ledger!Stop
  <2>1. Held(users)' = Held(NoAccounts)
    BY <1>3 DEF Held, Holders, Present
  <2>2. Held(NoAccounts) = Ledger!Nobody
    BY NoAccountsFacts, HeldNobody
  <2>3. Held(OnDisk)' = Held(OnDisk)
    BY <1>3 DEF Held, Holders, Present, OnDisk
  <2> QED
    BY <1>3, <2>1, <2>2, <2>3 DEF Ledger!Stop
<1>4. CASE Call
  BY <1>4, CallAmends DEF Ledger!Next
<1>5. CASE WriteTemp
  <2>1. UNCHANGED <<users, OnDisk, up>>
    BY <1>5 DEF WriteTemp, OnDisk
  <2> QED
    BY <1>2, <2>1
<1>6. CASE RenameTemp
  <2>1. disk' = users /\ users' = users /\ up' = up /\ up /\ users # None
    BY <1>1, <1>6, StoreAssumption DEF RenameTemp, IInv, SaveInv
  <2>2. OnDisk' = users
    BY <2>1 DEF OnDisk
  <2>3. Held(OnDisk)' = Held(users) /\ Held(users)' = Held(users)
    BY <2>1, <2>2 DEF Held, Holders, Present
  <2> QED
    BY <2>1, <2>3 DEF Ledger!Save, Ledger!Next
<1>7. CASE SaveFails
  <2>1. CASE pending.boot
    BY <1>1, <1>3, <1>7, <2>1 DEF SaveFails, Ledger!Next
  <2>2. CASE ~pending.boot
    <3>1. UNCHANGED <<users, OnDisk, up>>
      BY <1>1, <1>7, <2>2 DEF SaveFails, OnDisk, IInv, TypeOK
    <3> QED
      BY <1>2, <3>1
  <2> QED
    BY <2>1, <2>2
<1>8. CASE Crash
  BY <1>3, <1>8 DEF Crash, Ledger!Next
<1>9. CASE Start
  <2>1. ~up /\ up' = TRUE /\ disk' = disk
    BY <1>9 DEF Start
  <2>2. Held(OnDisk)' = Held(OnDisk)
    BY <2>1 DEF Held, Holders, Present, OnDisk
  <2>3. CASE OnDisk # NoAccounts
    <3>1. users' = OnDisk
      BY <1>9, <2>3 DEF Start, OnDisk
    <3>2. Held(users)' = Held(OnDisk)
      BY <3>1 DEF Held, Holders, Present
    <3>3. Held(OnDisk) # Ledger!Nobody
      BY <1>1, <2>3, HeldNobody
    <3> QED
      BY <2>1, <2>2, <3>2, <3>3 DEF Ledger!Start, Ledger!Next
  <2>4. CASE OnDisk = NoAccounts
    <3>1. PICK a \in Fresh, pwd \in Passwords : users' = Seeded(a, pwd)
      BY <1>9, <2>4 DEF Start
    <3>2. a \in Accounts /\ "" \in Names
      BY StoreAssumption DEF Fresh
    <3> DEFINE h == [email |-> DefaultAdmin, role |-> "admin", name |-> "", pwd |-> pwd]
    <3>6. Held(Seeded(a, pwd)) = [Ledger!Nobody EXCEPT ![a] = h]
      BY <3>2, SeededHeld
    <3>7. Held(users)' = Held(Seeded(a, pwd))
      BY <3>1 DEF Held, Holders, Present
    <3> HIDE DEF h
    <3>8. Held(OnDisk) = Ledger!Nobody
      BY <1>1, <2>4, HeldNobody
    <3> QED
      <4>1. Held(OnDisk) = Ledger!Nobody /\ Held(users)' = [Ledger!Nobody EXCEPT ![a] = h]
        BY <3>6, <3>7, <3>8
      <4>2. \E b \in Accounts, p \in Passwords, n \in Names :
              Held(users)' = [Ledger!Nobody EXCEPT ![b] =
                                [email |-> DefaultAdmin, role |-> "admin", name |-> n, pwd |-> p]]
        BY <3>2, <4>1 DEF h
      <4> QED
        BY <2>1, <2>2, <4>1, <4>2 DEF Ledger!Start, Ledger!Next
  <2> QED
    BY <2>3, <2>4
<1>10. CASE UNCHANGED vars
  <2>1. UNCHANGED <<users, OnDisk, up>>
    BY <1>10 DEF vars, OnDisk
  <2> QED
    BY <1>2, <2>1
<1> QED
  BY <1>4, <1>5, <1>6, <1>7, <1>8, <1>9, <1>10 DEF Next

\* The store keeps what the ledger promises: each call amends one account and no two
\* have the same email, what a save leaves in users.json is the whole map of that
\* instant, and a restart finds exactly that (every method of UserStore, saveLocked
\* and load of users.go, with failures and crashes anywhere).
THEOREM StoreImplementsLedger == Spec => LedgerSpec
<1>1. Init => Ledger!Init
  BY LedgerInit
<1>2. QED
  BY <1>1, LedgerStep, StoreInvariant, PTL DEF Spec, LedgerSpec, Ledger!Spec

-------------------------------------------------------------------------------
(* The requests over the store.                                            *)

\* What a request that is being served carries.
LEMMA ServedRequest ==
  ASSUME req \in [Workers -> Request], NEW w \in Workers, req[w] # Idle
  PROVE  /\ req[w].caller \in Emails /\ req[w].role \in Roles
         /\ [req[w] EXCEPT !.phase = "saving"] \in Request
         /\ [req[w] EXCEPT !.phase = "saving"].phase = "saving"
BY DEF Request, Phases

\* A step of a request is a step of the store, or leaves it alone.
LEMMA RequestStepIsStoreStep ==
  ASSUME req \in [Workers -> Request], [ReqNext]_allVars
  PROVE  [Next]_vars
<1>1. CASE StoreStep
  BY <1>1 DEF StoreStep, Next
<1>2. CASE Die
  BY <1>2 DEF Die, Next
<1>3. ASSUME NEW w \in Workers, Arrive(w) PROVE [Next]_vars
  BY <1>3 DEF Arrive, Auth, OAuthFind
<1>4. ASSUME NEW w \in Workers, Answer(w) PROVE [Next]_vars
  BY <1>4 DEF Answer, Next
<1>5. ASSUME NEW w \in Workers, Handle(w) PROVE [Next]_vars
  <2>1. CASE adminCreateUser(w)
    BY <2>1 DEF adminCreateUser, Next, Call
  <2>2. CASE adminDeleteUser(w)
    BY <2>2 DEF adminDeleteUser, Next, Call
  <2>3. CASE adminSetRole(w)
    BY <2>3 DEF adminSetRole, Next, Call
  <2>4. CASE PatchProfile(w) \/ PostPassword(w)
    <3>1. req[w].caller \in Emails
      BY <2>4, ServedRequest DEF PatchProfile, PostPassword, MayWrite, Admitted
    <3>2. QED
      BY <2>4, <3>1 DEF PatchProfile, PostPassword, Next, Call
  <2>5. CASE OAuthAdd(w)
    <3>1. req[w].caller \in Emails
      BY <2>5, ServedRequest DEF OAuthAdd
    <3>2. "viewer" \in Roles
      BY StoreAssumption
    <3>3. QED
      BY <2>5, <3>1, <3>2 DEF OAuthAdd, Next, Call
  <2>6. CASE Refuse(w)
    BY <2>6 DEF Refuse
  <2>7. QED
    BY <1>5, <2>1, <2>2, <2>3, <2>4, <2>5, <2>6 DEF Handle
<1>6. CASE UNCHANGED allVars
  BY <1>6 DEF allVars
<1>7. QED
  BY <1>1, <1>2, <1>3, <1>4, <1>5, <1>6 DEF ReqNext

\* After its call a request owns the mutex exactly if the call goes on to save.
LEMMA ProceedKeepsOwner ==
  ASSUME ReqInv, NEW w \in Workers, req[w] # Idle, Free, Proceed(w),
         pending' = None \/ ~pending'.boot
  PROVE  req' \in [Workers -> Request] /\ overtaken' \in BOOLEAN /\ OneOwner'
<1>1. Savers = {} /\ req \in [Workers -> Request] /\ overtaken \in BOOLEAN
  BY DEF ReqInv, OneOwner, Free
<1>2. OutOfDate(w) \in BOOLEAN
  BY DEF OutOfDate
<1>3. CASE pending' = None
  <2>1. req' = [req EXCEPT ![w] = Idle]
    BY <1>3 DEF Proceed
  <2>2. Idle \in Request /\ Idle.phase # "saving"
    BY DEF Idle, Request
  <2>3. Savers' = {}
    BY <1>1, <2>1, <2>2 DEF Savers
  <2>4. QED
    BY <1>1, <1>2, <1>3, <2>1, <2>2, <2>3 DEF OneOwner, Proceed
<1>4. CASE pending' # None
  <2>1. req' = [req EXCEPT ![w] = [req[w] EXCEPT !.phase = "saving"]]
    BY <1>1, <1>4 DEF Proceed
  <2> DEFINE r == [req[w] EXCEPT !.phase = "saving"]
  <2>2. r \in Request /\ r.phase = "saving"
    BY <1>1, ServedRequest
  <2> HIDE DEF r
  <2>3. Savers' = {w}
    BY <1>1, <2>1, <2>2 DEF Savers, r
  <2>4. QED
    BY <1>1, <1>2, <1>4, <2>1, <2>2, <2>3 DEF OneOwner, Proceed, r
<1>5. QED
  BY <1>3, <1>4

\* A call that leaves an administrator in the map, or acts out of date, keeps
\* the invariant of the requests.
LEMMA CallKeepsReqInv ==
  ASSUME ReqInv, IInv', NEW w \in Workers, req[w] # Idle, Free, Proceed(w),
         pending' = None \/ ~pending'.boot, UNCHANGED <<up, disk>>,
         ~overtaken /\ ~OutOfDate(w) => HasAdmin(users)'
  PROVE  ReqInv'
<1>1. req' \in [Workers -> Request] /\ overtaken' \in BOOLEAN /\ OneOwner'
  BY ProceedKeepsOwner
<1>2. AdminSurvives'
  <2>1. HasAdmin(disk)' <=> HasAdmin(disk)
    BY DEF HasAdmin, Present
  <2>2. overtaken' = (overtaken \/ OutOfDate(w))
    BY DEF Proceed
  <2>3. CASE overtaken \/ OutOfDate(w)
    BY <2>2, <2>3 DEF AdminSurvives
  <2>4. CASE ~overtaken /\ ~OutOfDate(w)
    BY <2>1, <2>4 DEF AdminSurvives, ReqInv
  <2>5. QED
    BY <2>3, <2>4
<1>3. QED
  BY <1>1, <1>2 DEF ReqInv

\* A saved change is never the seed's.
LEMMA CommitIsNoSeed ==
  ASSUME NEW STATE table, NEW STATE closes, Commit(table, closes)
  PROVE  ~pending'.boot /\ users' = table /\ UNCHANGED <<up, disk>>
BY DEF Commit, Save

\* An administrator among the others, or one that keeps its role, is still one.
LEMMA AdminStays ==
  ASSUME IInv, NEW f \in Emails, users[f] # None, users[f].role = "admin",
         users'[f] # None, users'[f].role = "admin"
  PROVE  HasAdmin(users)'
BY DEF HasAdmin, Present

\* A caller that is not out of date is an administrator.
LEMMA CallerIsAdmin ==
  ASSUME ReqInv, NEW w \in Workers, AsAdmin(w), ~OutOfDate(w)
  PROVE  /\ req[w].caller \in Emails
         /\ users[req[w].caller] # None /\ users[req[w].caller].role = "admin"
BY ServedRequest DEF ReqInv, AsAdmin, Admitted, OutOfDate

\* While the process runs and nothing was overtaken, there is an administrator.
LEMMA RunningHasAdmin ==
  ASSUME ReqInv, up, ~overtaken
  PROVE  \E f \in Emails : users[f] # None /\ users[f].role = "admin"
BY DEF ReqInv, AdminSurvives, HasAdmin, Present

\* A new account takes no administrator's place.
LEMMA AddKeepsReqInv ==
  ASSUME ReqInv, IInv', NEW w \in Workers, req[w] # Idle, Proceed(w),
         NEW e \in Emails, NEW role \in Roles, NEW pwd \in Passwords, Add(e, role, pwd)
  PROVE  ReqInv'
<1>1. PICK a \in Fresh :
        Commit([users EXCEPT ![e] =
                  [who |-> a, email |-> e, role |-> role, name |-> "", pwd |-> pwd]], {})
  BY DEF Add
<1>2. /\ ~pending'.boot /\ UNCHANGED <<up, disk>>
      /\ users' = [users EXCEPT ![e] =
                     [who |-> a, email |-> e, role |-> role, name |-> "", pwd |-> pwd]]
  BY <1>1 DEF Commit, Save
<1>3. Free /\ users[e] = None /\ users \in Table
  BY DEF Add, ReqInv, IInv, TypeOK
<1>4. \A f \in Emails : f # e => users'[f] = users[f]
  BY <1>2, <1>3 DEF Table
<1>5. ~overtaken => HasAdmin(users)'
  <2> SUFFICES ASSUME ~overtaken PROVE HasAdmin(users)'
    OBVIOUS
  <2>1. PICK f \in Emails : users[f] # None /\ users[f].role = "admin"
    BY <1>3, RunningHasAdmin DEF Free
  <2>2. QED
    BY <1>3, <1>4, <2>1 DEF HasAdmin, Present
<1>6. QED
  BY <1>2, <1>3, <1>5, CallKeepsReqInv

\* Whoever deletes another account is still an administrator after it.
LEMMA adminDeleteUserKeepsReqInv ==
  ASSUME ReqInv, IInv', NEW w \in Workers, adminDeleteUser(w)
  PROVE  ReqInv'
<1>1. PICK e \in Emails : e # req[w].caller /\ Delete(e)
  BY DEF adminDeleteUser, OwnAccount
<1>2. /\ Free /\ users \in Table /\ ~pending'.boot /\ UNCHANGED <<up, disk>>
      /\ users' = [users EXCEPT ![e] = None]
  BY <1>1 DEF Delete, Commit, Save, ReqInv, IInv, TypeOK
<1>3. ~OutOfDate(w) => HasAdmin(users)'
  <2> SUFFICES ASSUME ~OutOfDate(w) PROVE HasAdmin(users)'
    OBVIOUS
  <2> DEFINE c == req[w].caller
  <2>1. c \in Emails /\ users[c] # None /\ users[c].role = "admin"
    BY CallerIsAdmin DEF adminDeleteUser
  <2>2. users'[c] = users[c]
    BY <1>1, <1>2, <2>1 DEF Table
  <2> HIDE DEF c
  <2>3. QED
    BY <2>1, <2>2 DEF HasAdmin, Present
<1>4. req[w] # Idle /\ Proceed(w)
  BY DEF adminDeleteUser, AsAdmin, Admitted
<1>5. QED
  BY <1>2, <1>3, <1>4, CallKeepsReqInv

\* An account whose fields change, its role apart, goes on to be an
\* administrator if it was one.
LEMMA AmendedHasAdmin ==
  ASSUME ReqInv, up, ~overtaken, NEW e \in Emails, users[e] # None,
         NEW STATE u, u # None, u.role = users[e].role,
         users' = [users EXCEPT ![e] = u]
  PROVE  HasAdmin(users)'
<1>1. PICK f \in Emails : users[f] # None /\ users[f].role = "admin"
  BY RunningHasAdmin
<1>2. users \in Table
  BY DEF ReqInv, IInv, TypeOK
<1>3. CASE f = e
  BY <1>1, <1>2, <1>3 DEF HasAdmin, Present, Table
<1>4. CASE f # e
  BY <1>1, <1>2, <1>4 DEF HasAdmin, Present, Table
<1>5. QED
  BY <1>3, <1>4

\* Whoever changes another account's role keeps its own; its own it can only
\* set to administrator.
LEMMA adminSetRoleKeepsReqInv ==
  ASSUME ReqInv, IInv', NEW w \in Workers, adminSetRole(w)
  PROVE  ReqInv'
<1>1. PICK e \in Emails, role \in Roles :
        (e = req[w].caller => role = "admin") /\ SetRole(e, role)
  BY DEF adminSetRole, OwnAccount
<1> DEFINE u == [users[e] EXCEPT !.role = role]
<1>2. /\ Free /\ users \in Table /\ users[e] # None /\ ~pending'.boot
      /\ UNCHANGED <<up, disk>> /\ users' = [users EXCEPT ![e].role = role]
  BY <1>1 DEF SetRole, Commit, Save, ReqInv, IInv, TypeOK
<1>3. users[e] \in Account
  BY <1>2 DEF Table
<1>4. u \in Account /\ u.role = role
  BY <1>3 DEF Account
<1>5. u # None
  BY <1>4, StoreAssumption
<1>6. users' = [users EXCEPT ![e] = u]
  BY <1>2 DEF Table
<1> HIDE DEF u
<1>7. ~OutOfDate(w) => HasAdmin(users)'
  <2> SUFFICES ASSUME ~OutOfDate(w) PROVE HasAdmin(users)'
    OBVIOUS
  <2> DEFINE c == req[w].caller
  <2>1. c \in Emails /\ users[c] # None /\ users[c].role = "admin"
    BY CallerIsAdmin DEF adminSetRole
  <2>2. users'[c] # None /\ users'[c].role = "admin"
    <3>1. CASE c = e
      <4>1. users'[c] = u
        BY <1>2, <1>6, <2>1, <3>1 DEF Table
      <4>2. QED
        BY <1>1, <1>4, <1>5, <3>1, <4>1
    <3>2. CASE c # e
      <4>1. users'[c] = users[c]
        BY <1>2, <1>6, <2>1, <3>2 DEF Table
      <4>2. QED
        BY <2>1, <4>1
    <3>3. QED
      BY <3>1, <3>2
  <2> HIDE DEF c
  <2>3. QED
    BY <2>1, <2>2 DEF HasAdmin, Present
<1>8. req[w] # Idle /\ Proceed(w)
  BY DEF adminSetRole, AsAdmin, Admitted
<1>9. QED
  BY <1>2, <1>7, <1>8, CallKeepsReqInv

\* A password change leaves every role.
LEMMA PostPasswordKeepsReqInv ==
  ASSUME ReqInv, IInv', NEW w \in Workers, PostPassword(w)
  PROVE  ReqInv'
<1> DEFINE e == req[w].caller
<1>1. req[w] # Idle /\ Proceed(w) /\ e \in Emails
  BY ServedRequest DEF PostPassword, MayWrite, Admitted, ReqInv
<1>2. PICK old \in Passwords, new \in Passwords : UpdatePassword(e, old, new)
  BY DEF PostPassword
<1> HIDE DEF e
<1> DEFINE u == [users[e] EXCEPT !.pwd = new]
<1>3. /\ Free /\ users \in Table /\ users[e] # None /\ ~pending'.boot
      /\ UNCHANGED <<up, disk>> /\ users' = [users EXCEPT ![e].pwd = new]
  BY <1>2 DEF UpdatePassword, Commit, Save, ReqInv, IInv, TypeOK
<1>4. users[e] \in Account
  BY <1>1, <1>3 DEF Table
<1>5. u \in Account /\ u.role = users[e].role
  BY <1>4 DEF Account
<1>6. u # None
  BY <1>5, StoreAssumption
<1>7. users' = [users EXCEPT ![e] = u]
  BY <1>1, <1>3 DEF Table
<1> HIDE DEF u
<1>8. ~overtaken => HasAdmin(users)'
  BY <1>1, <1>3, <1>5, <1>6, <1>7, AmendedHasAdmin DEF Free
<1>9. QED
  BY <1>1, <1>3, <1>8, CallKeepsReqInv

\* A profile update moves an account with its role, or changes its name.
LEMMA PatchProfileKeepsReqInv ==
  ASSUME ReqInv, IInv', NEW w \in Workers, PatchProfile(w)
  PROVE  ReqInv'
<1> DEFINE e == req[w].caller
<1>1. req[w] # Idle /\ Proceed(w) /\ e \in Emails
  BY ServedRequest DEF PatchProfile, MayWrite, Admitted, ReqInv
<1>2. PICK new \in Emails, name \in Names, valid \in BOOLEAN : UpdateProfile(e, new, name, valid)
  BY DEF PatchProfile
<1> HIDE DEF e
<1>3. Free /\ users \in Table /\ users[e] # None /\ (new # e => users[new] = None)
  BY <1>2 DEF UpdateProfile, Available, ReqInv, IInv, TypeOK
<1>4. users[e] \in Account
  BY <1>1, <1>3 DEF Table
<1>5. CASE valid
  <2> DEFINE u == [users[e] EXCEPT !.email = new, !.name = name]
  <2>1. u \in Account /\ u.role = users[e].role
    BY <1>4 DEF Account
  <2>2. u # None
    BY <2>1, StoreAssumption
  <2>3. /\ ~pending'.boot /\ UNCHANGED <<up, disk>>
        /\ users' = [users EXCEPT ![e] = None, ![new] = u]
    BY <1>2, <1>5 DEF UpdateProfile, Commit, Save, Moved
  <2> HIDE DEF u
  <2>4. users'[new] = u /\ \A f \in Emails : f # e /\ f # new => users'[f] = users[f]
    BY <1>1, <1>3, <2>3 DEF Table
  <2>5. ~overtaken => HasAdmin(users)'
    <3> SUFFICES ASSUME ~overtaken PROVE HasAdmin(users)'
      OBVIOUS
    <3>1. PICK f \in Emails : users[f] # None /\ users[f].role = "admin"
      BY <1>3, RunningHasAdmin DEF Free
    <3>2. CASE f = e
      BY <2>1, <2>2, <2>4, <3>1, <3>2 DEF HasAdmin, Present
    <3>3. CASE f # e
      BY <1>3, <2>4, <3>1, <3>3 DEF HasAdmin, Present
    <3>4. QED
      BY <3>2, <3>3
  <2>6. QED
    BY <1>1, <1>3, <2>3, <2>5, CallKeepsReqInv
<1>6. CASE ~valid
  <2> DEFINE u == [users[e] EXCEPT !.name = name]
  <2>1. u \in Account /\ u.role = users[e].role
    BY <1>4 DEF Account
  <2>2. u # None
    BY <2>1, StoreAssumption
  <2>3. users' = [users EXCEPT ![e].name = name] /\ UNCHANGED <<up, disk, pending>>
    BY <1>2, <1>6 DEF UpdateProfile
  <2>4. users' = [users EXCEPT ![e] = u] /\ pending' = None
    BY <1>1, <1>3, <2>3 DEF Table, Free
  <2> HIDE DEF u
  <2>5. ~overtaken => HasAdmin(users)'
    BY <1>1, <1>3, <2>1, <2>2, <2>4, AmendedHasAdmin DEF Free
  <2>6. QED
    BY <1>1, <1>3, <2>3, <2>4, <2>5, CallKeepsReqInv
<1>7. QED
  BY <1>5, <1>6

\* What a request does with the store keeps the invariant.
LEMMA HandleKeepsReqInv ==
  ASSUME ReqInv, IInv', NEW w \in Workers, Handle(w)
  PROVE  ReqInv'
<1>1. CASE adminCreateUser(w)
  BY <1>1, AddKeepsReqInv DEF adminCreateUser, AsAdmin, Admitted
<1>2. CASE adminDeleteUser(w)
  BY <1>2, adminDeleteUserKeepsReqInv
<1>3. CASE adminSetRole(w)
  BY <1>3, adminSetRoleKeepsReqInv
<1>4. CASE PatchProfile(w)
  BY <1>4, PatchProfileKeepsReqInv
<1>5. CASE PostPassword(w)
  BY <1>5, PostPasswordKeepsReqInv
<1>6. CASE OAuthAdd(w)
  <2>1. req[w] # Idle /\ Proceed(w) /\ req[w].caller \in Emails /\ "viewer" \in Roles
    BY <1>6, ServedRequest, StoreAssumption DEF OAuthAdd, ReqInv
  <2>2. QED
    BY <1>6, <2>1, AddKeepsReqInv DEF OAuthAdd
<1>7. CASE Refuse(w)
  <2>1. /\ req \in [Workers -> Request] /\ req' = [req EXCEPT ![w] = Idle]
        /\ UNCHANGED <<up, users, disk, pending, overtaken>> /\ pending = None
    BY <1>7 DEF Refuse, ReqInv, vars, Free
  <2>2. Idle \in Request /\ Idle.phase # "saving"
    BY DEF Idle, Request
  <2>3. Savers = {}
    BY <2>1 DEF ReqInv, OneOwner
  <2>4. Savers' = {}
    BY <2>1, <2>2, <2>3 DEF Savers
  <2>5. OneOwner'
    BY <2>1, <2>4 DEF OneOwner
  <2>6. req' \in [Workers -> Request]
    BY <2>1, <2>2
  <2>7. AdminSurvives'
    BY <2>1 DEF ReqInv, AdminSurvives, HasAdmin, Present
  <2>8. QED
    BY <2>1, <2>5, <2>6, <2>7 DEF ReqInv
<1>8. QED
  BY <1>1, <1>2, <1>3, <1>4, <1>5, <1>6, <1>7 DEF Handle

\* A request that enters copies what it needs and touches nothing.
LEMMA ArriveKeepsReqInv ==
  ASSUME ReqInv, IInv', NEW w \in Workers, Arrive(w)
  PROVE  ReqInv'
<1>1. PICK r \in Request : /\ r.phase # "saving" /\ req' = [req EXCEPT ![w] = r]
                           /\ Free /\ UNCHANGED <<vars, overtaken>>
  <2>1. PICK e \in Emails : Auth(w, e) \/ OAuthFind(w, e)
    BY DEF Arrive
  <2>2. CASE Auth(w, e)
    <3> DEFINE r == [phase |-> "admitted", caller |-> e, role |-> users[e].role]
    <3>1. users[e] \in Account
      BY <2>2 DEF Auth, ReqInv, IInv, TypeOK, Table
    <3>2. r \in Request /\ r.phase # "saving"
      BY <3>1 DEF Account, Request, Phases
    <3>3. QED
      BY <2>2, <3>2 DEF Auth
  <2>3. CASE OAuthFind(w, e)
    <3> DEFINE r == [phase |-> "newcomer", caller |-> e, role |-> "viewer"]
    <3>1. r \in Request /\ r.phase # "saving"
      BY StoreAssumption DEF Request, Phases
    <3>2. QED
      BY <2>3, <3>1 DEF OAuthFind
  <2>4. QED
    BY <2>1, <2>2, <2>3
<1>2. /\ req \in [Workers -> Request] /\ pending = None
      /\ UNCHANGED <<up, users, disk, pending, overtaken>>
  BY <1>1 DEF ReqInv, Free, vars
<1>3. Savers = {}
  BY <1>2 DEF ReqInv, OneOwner
<1>4. Savers' = {}
  BY <1>1, <1>2, <1>3 DEF Savers
<1>5. OneOwner'
  BY <1>2, <1>4 DEF OneOwner
<1>6. req' \in [Workers -> Request]
  BY <1>1, <1>2
<1>7. AdminSurvives'
  BY <1>2 DEF ReqInv, AdminSurvives, HasAdmin, Present
<1>8. QED
  BY <1>2, <1>5, <1>6, <1>7 DEF ReqInv

\* The end of a save, good or bad, leaves somebody to administer the map and
\* the file.
LEMMA SaveEndKeepsAdmin ==
  ASSUME ReqInv, RenameTemp \/ SaveFails, UNCHANGED overtaken
  PROVE  AdminSurvives'
<1>1. CASE RenameTemp
  <2>1. up /\ up' = up /\ users' = users /\ disk' = users
    BY <1>1 DEF RenameTemp, ReqInv, IInv, SaveInv
  <2>2. QED
    BY <2>1 DEF ReqInv, AdminSurvives, HasAdmin, Present
<1>2. CASE SaveFails
  <2>1. up' = ~pending.boot /\ disk' = disk /\ up
    BY <1>2 DEF SaveFails, ReqInv, IInv, SaveInv
  <2>2. CASE pending.boot
    BY <2>1, <2>2 DEF ReqInv, AdminSurvives, HasAdmin, Present
  <2>3. CASE ~pending.boot
    <3>1. users' = users
      BY <1>2, <2>3 DEF SaveFails
    <3>2. QED
      BY <2>1, <3>1 DEF ReqInv, AdminSurvives, HasAdmin, Present
  <2>4. QED
    BY <2>2, <2>3
<1>3. QED
  BY <1>1, <1>2

\* The request whose call has saved, or failed to, gives the mutex back.
LEMMA AnswerKeepsReqInv ==
  ASSUME ReqInv, IInv', NEW w \in Workers, Answer(w)
  PROVE  ReqInv'
<1>1. /\ req \in [Workers -> Request] /\ req' = [req EXCEPT ![w] = Idle]
      /\ w \in Savers /\ pending' = None /\ UNCHANGED overtaken
  BY DEF Answer, ReqInv, Savers, RenameTemp, SaveFails
<1>2. Idle \in Request /\ Idle.phase # "saving"
  BY DEF Idle, Request
<1>3. Savers = {w}
  BY <1>1 DEF ReqInv, OneOwner
<1>4. Savers' = {}
  BY <1>1, <1>2, <1>3 DEF Savers
<1>5. OneOwner'
  BY <1>1, <1>4 DEF OneOwner
<1>6. req' \in [Workers -> Request]
  BY <1>1, <1>2
<1>7. AdminSurvives'
  BY SaveEndKeepsAdmin DEF Answer
<1>8. QED
  BY <1>1, <1>5, <1>6, <1>7 DEF ReqInv

\* What no request does: the temporary file, the start and the seed.
LEMMA StoreStepKeepsReqInv ==
  ASSUME ReqInv, IInv', StoreStep
  PROVE  ReqInv'
<1>1. Savers' = Savers /\ UNCHANGED <<req, overtaken>>
  BY DEF StoreStep, Savers
<1>2. CASE WriteTemp
  <2>1. pending \in Saving
    BY <1>2 DEF WriteTemp, ReqInv, IInv, TypeOK
  <2>2. pending' \in Saving /\ pending'.boot = pending.boot
    BY <1>2, <2>1 DEF WriteTemp, Saving
  <2>3. pending # None /\ pending' # None
    BY <2>1, <2>2, StoreAssumption
  <2>4. OneOwner'
    BY <1>1, <2>2, <2>3 DEF OneOwner, ReqInv
  <2>5. AdminSurvives'
    BY <1>1, <1>2 DEF WriteTemp, ReqInv, AdminSurvives, HasAdmin, Present
  <2>6. QED
    BY <1>1, <2>4, <2>5 DEF ReqInv
<1>3. CASE Start
  <2>1. pending = None
    BY <1>3 DEF Start, ReqInv, IInv, SaveInv
  <2>2. Savers = {}
    BY <2>1 DEF ReqInv, OneOwner
  <2>3. pending' = None \/ pending'.boot
    BY <1>3, <2>1 DEF Start, Save
  <2>4. OneOwner'
    BY <1>1, <2>2, <2>3 DEF OneOwner
  <2>5. AdminSurvives'
    <3>1. disk' = disk /\ up'
      BY <1>3 DEF Start
    <3>2. CASE OnDisk # NoAccounts
      <4>1. users' = disk /\ disk # None
        BY <1>3, <3>2 DEF Start, OnDisk
      <4>2. QED
        BY <1>1, <3>1, <4>1 DEF ReqInv, AdminSurvives, HasAdmin, Present
    <3>3. CASE OnDisk = NoAccounts
      <4>1. PICK a \in Fresh, pwd \in Passwords : users' = Seeded(a, pwd)
        BY <1>3, <3>3 DEF Start
      <4> DEFINE u == [who |-> a, email |-> DefaultAdmin, role |-> "admin", name |-> "",
                       pwd |-> pwd]
      <4>2. a \in Accounts
        BY DEF Fresh
      <4>3. u \in Account /\ u.role = "admin" /\ DefaultAdmin \in Emails
        BY <4>2, StoreAssumption DEF Account
      <4>4. u # None
        BY <4>3, StoreAssumption
      <4>5. users' = [NoAccounts EXCEPT ![DefaultAdmin] = u]
        BY <4>1 DEF Seeded
      <4> HIDE DEF u
      <4>6. users'[DefaultAdmin] = u
        BY <4>3, <4>5 DEF NoAccounts
      <4>7. HasAdmin(users)'
        BY <4>3, <4>4, <4>6 DEF HasAdmin, Present
      <4>8. HasAdmin(disk)' <=> HasAdmin(disk)
        BY <3>1 DEF HasAdmin, Present
      <4>9. QED
        BY <1>1, <3>1, <4>7, <4>8 DEF ReqInv, AdminSurvives
    <3>4. QED
      BY <3>2, <3>3
  <2>6. QED
    BY <1>1, <2>4, <2>5 DEF ReqInv
<1>4. CASE pending # None /\ pending.boot /\ (RenameTemp \/ SaveFails)
  <2>1. Savers = {} /\ pending' = None
    BY <1>4 DEF ReqInv, OneOwner, RenameTemp, SaveFails
  <2>2. OneOwner'
    BY <1>1, <2>1 DEF OneOwner
  <2>3. AdminSurvives'
    BY <1>1, <1>4, SaveEndKeepsAdmin
  <2>4. QED
    BY <1>1, <2>2, <2>3 DEF ReqInv
<1>5. QED
  BY <1>2, <1>3, <1>4 DEF StoreStep

\* The requests die with the process, and with them the save.
LEMMA DieKeepsReqInv ==
  ASSUME ReqInv, IInv', Die
  PROVE  ReqInv'
<1>1. req' = [w \in Workers |-> Idle] /\ pending' = None /\ up' = FALSE /\ disk' = disk
      /\ UNCHANGED overtaken
  BY DEF Die, Crash
<1>2. Idle \in Request /\ Idle.phase # "saving"
  BY DEF Idle, Request
<1>3. req' \in [Workers -> Request] /\ Savers' = {}
  BY <1>1, <1>2 DEF Savers
<1>4. OneOwner'
  BY <1>1, <1>3 DEF OneOwner
<1>5. AdminSurvives'
  BY <1>1 DEF ReqInv, AdminSurvives, HasAdmin, Present
<1>6. QED
  BY <1>1, <1>3, <1>4, <1>5 DEF ReqInv

\* Every step of the requests keeps their invariant.
LEMMA ReqStepInv == ReqInv /\ [ReqNext]_allVars => ReqInv'
<1> SUFFICES ASSUME ReqInv, [ReqNext]_allVars PROVE ReqInv'
  OBVIOUS
<1>1. IInv'
  BY RequestStepIsStoreStep, StepInv DEF ReqInv
<1>2. CASE StoreStep
  BY <1>1, <1>2, StoreStepKeepsReqInv
<1>3. CASE Die
  BY <1>1, <1>3, DieKeepsReqInv
<1>4. ASSUME NEW w \in Workers, Arrive(w) PROVE ReqInv'
  BY <1>1, <1>4, ArriveKeepsReqInv
<1>5. ASSUME NEW w \in Workers, Handle(w) PROVE ReqInv'
  BY <1>1, <1>5, HandleKeepsReqInv
<1>6. ASSUME NEW w \in Workers, Answer(w) PROVE ReqInv'
  BY <1>1, <1>6, AnswerKeepsReqInv
<1>7. CASE UNCHANGED allVars
  <2>1. UNCHANGED <<up, users, disk, pending, req, overtaken>>
    BY <1>7 DEF allVars, vars
  <2>2. Savers' = Savers
    BY <2>1 DEF Savers
  <2>3. QED
    BY <1>1, <2>1, <2>2 DEF ReqInv, OneOwner, AdminSurvives, HasAdmin, Present
<1>8. QED
  BY <1>2, <1>3, <1>4, <1>5, <1>6, <1>7 DEF ReqNext

\* Before the first start nobody is served.
LEMMA ReqInitInv == ReqInit => ReqInv
<1> SUFFICES ASSUME ReqInit PROVE ReqInv
  OBVIOUS
<1>1. IInv
  BY InitInv DEF ReqInit
<1>2. Idle \in Request /\ Idle.phase # "saving"
  BY DEF Idle, Request
<1>3. req = [w \in Workers |-> Idle] /\ overtaken = FALSE
      /\ pending = None /\ up = FALSE /\ disk = None
  BY DEF ReqInit, Init
<1>4. req \in [Workers -> Request] /\ Savers = {}
  BY <1>2, <1>3 DEF Savers
<1>5. QED
  BY <1>1, <1>3, <1>4 DEF ReqInv, OneOwner, AdminSurvives

\* The invariant of the requests holds in every reachable state.
THEOREM RequestsInvariant == ReqSpec => []ReqInv
<1>1. ReqInit => ReqInv
  BY ReqInitInv
<1>2. ReqInv /\ [ReqNext]_allVars => ReqInv'
  BY ReqStepInv
<1>3. QED
  BY <1>1, <1>2, PTL DEF ReqSpec

\* With any number of requests at a time, the accounts lose their last
\* administrator only to a request whose caller had lost its own rights since
\* it was let in.
THEOREM SomebodyAdministers == ReqSpec => []AdminSurvives
<1>1. ReqInv => AdminSurvives
  BY DEF ReqInv
<1>2. QED
  BY <1>1, RequestsInvariant, PTL

\* The mutex always belongs to exactly one request while a save is going on,
\* and to none otherwise.
THEOREM MutexHasOneOwner == ReqSpec => []ReqTypeOK
<1>1. ReqInv => ReqTypeOK
  <2> SUFFICES ASSUME ReqInv PROVE ReqTypeOK
    OBVIOUS
  <2>1. Cardinality({}) = 0 /\ \A w \in Workers : Cardinality({w}) = 1
    BY FS_EmptySet, FS_Singleton
  <2>2. Cardinality(Savers) = IF pending = None \/ pending.boot THEN 0 ELSE 1
    BY <2>1 DEF ReqInv, OneOwner
  <2>3. QED
    BY <2>2 DEF ReqInv, ReqTypeOK, IInv
<1>2. QED
  BY <1>1, RequestsInvariant, PTL
===============================================================================
