-------------------------- MODULE MCLoginRateLimiter --------------------------
(* The limiter with one or two addresses and a short window.                 *)
EXTENDS LoginRateLimiter, TLC

Symmetry == Permutations(IPs)
===============================================================================
