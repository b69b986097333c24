------------------------------- MODULE MCBroker -------------------------------
(* The broker on small instances; interchangeable browsers in safety runs.   *)
EXTENDS Broker, TLC

Symmetry == Permutations(Clients \ Prompt)

===============================================================================
