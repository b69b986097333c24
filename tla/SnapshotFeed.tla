----------------------------- MODULE SnapshotFeed -----------------------------
(***************************************************************************)
(* What the broker promises to one browser, without ring, channels or      *)
(* locks: on joining it is greeted with the newest snapshot there is, then *)
(* it is fed newer and newer snapshots; it may miss some, but none of the  *)
(* first Keep that follow its joining.                                     *)
(***************************************************************************)
EXTENDS Integers, Sequences

CONSTANTS Clients, Keep

VARIABLES published, on, joined, hello, fed

vars == <<published, on, joined, hello, fed>>

Init ==
  /\ published = 0
  /\ on = {}
  /\ joined = [c \in Clients |-> 0]
  /\ hello = [c \in Clients |-> 0]
  /\ fed = [c \in Clients |-> <<>>]

Publish ==
  /\ published' = published + 1
  /\ UNCHANGED <<on, joined, hello, fed>>

Join(c) ==
  /\ c \notin on
  /\ on' = on \cup {c}
  /\ joined' = [joined EXCEPT ![c] = published]
  /\ hello' = [hello EXCEPT ![c] = 0]
  /\ fed' = [fed EXCEPT ![c] = <<>>]
  /\ UNCHANGED published

Greet(c) ==
  /\ c \in on
  /\ hello[c] = 0 /\ fed[c] = <<>> /\ published > 0
  /\ hello' = [hello EXCEPT ![c] = published]
  /\ UNCHANGED <<published, on, joined, fed>>

\* The newest snapshot fed to c so far.
Newest(c) == IF fed[c] = <<>> THEN joined[c] ELSE fed[c][Len(fed[c])]

Feed(c) ==
  /\ c \in on
  /\ \E s \in Newest(c) + 1 .. published :
       /\ Len(fed[c]) < Keep => s = Newest(c) + 1
       /\ fed' = [fed EXCEPT ![c] = Append(@, s)]
  /\ UNCHANGED <<published, on, joined, hello>>

Quit(c) ==
  /\ c \in on
  /\ on' = on \ {c}
  /\ UNCHANGED <<published, joined, hello, fed>>

Next == Publish \/ \E c \in Clients : Join(c) \/ Greet(c) \/ Feed(c) \/ Quit(c)

Spec == Init /\ [][Next]_vars
===============================================================================
