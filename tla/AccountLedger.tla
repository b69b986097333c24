----------------------------- MODULE AccountLedger ----------------------------
(***************************************************************************)
(* What the user store promises, one account at a time: a call amends one  *)
(* account and leaves the others alone, no two accounts answer to the same *)
(* email, what is saved is all of what was current at that instant, and a  *)
(* restart finds exactly what was saved. Only an installation without any  *)
(* account gets the default administrator.                                 *)
(***************************************************************************)
CONSTANTS Accounts, Emails, Roles, Names, Passwords, Absent, DefaultAdmin

VARIABLES now, saved, running

vars == <<now, saved, running>>

Holder == [email : Emails, role : Roles, name : Names, pwd : Passwords]

Nobody == [a \in Accounts |-> Absent]

Init == now = Nobody /\ saved = Nobody /\ running = FALSE

Amend(a) ==
  /\ running
  /\ \E h \in Holder \cup {Absent} :
       /\ h # Absent => \A b \in Accounts \ {a} : now[b] # Absent => now[b].email # h.email
       /\ now' = [now EXCEPT ![a] = h]
  /\ UNCHANGED <<saved, running>>

Save == running /\ saved' = now /\ UNCHANGED <<now, running>>

Stop == running /\ now' = Nobody /\ running' = FALSE /\ UNCHANGED saved

Start ==
  /\ ~running
  /\ running' = TRUE
  /\ IF saved # Nobody
       THEN now' = saved
       ELSE \E a \in Accounts, p \in Passwords, n \in Names :
              now' = [Nobody EXCEPT ![a] =
                        [email |-> DefaultAdmin, role |-> "admin", name |-> n, pwd |-> p]]
  /\ UNCHANGED saved

Next == Save \/ Stop \/ Start \/ \E a \in Accounts : Amend(a)

Spec == Init /\ [][Next]_vars
===============================================================================
