------------------------------ MODULE FixedWindow -----------------------------
(***************************************************************************)
(* What the limiter decides, without a map to clean: an address has a      *)
(* quota of maxAttempts for the Window that its first attempt opens, and a *)
(* fresh one once that Window is over.                                     *)
(***************************************************************************)
EXTENDS Integers

CONSTANTS IPs, maxAttempts, Window, MaxTime, None

VARIABLES now, bucket, admitted

vars == <<now, bucket, admitted>>

Init ==
  /\ now = 0
  /\ bucket = [ip \in IPs |-> None]
  /\ admitted = [ip \in IPs |-> [t \in 0 .. MaxTime |-> 0]]

Open(ip) == IF bucket[ip] = None THEN [count |-> 0, resetAt |-> now + Window] ELSE bucket[ip]

Attempt(ip) ==
  LET count == Open(ip).count + 1
  IN  /\ bucket' = [bucket EXCEPT ![ip] = [count |-> count, resetAt |-> Open(ip).resetAt]]
      /\ admitted' = IF count <= maxAttempts THEN [admitted EXCEPT ![ip][now] = @ + 1] ELSE admitted
      /\ UNCHANGED now

Tick ==
  /\ now' = now + 1
  /\ bucket' = [ip \in IPs |->
                  IF bucket[ip] # None /\ bucket[ip].resetAt < now' THEN None ELSE bucket[ip]]
  /\ UNCHANGED admitted

Next == Tick \/ \E ip \in IPs : Attempt(ip)

Spec == Init /\ [][Next]_vars
===============================================================================
