----------------------------- MODULE MCCsrfFetch ------------------------------
(* Two calls at a time, of one page or of two pages that share the cookie.   *)
EXTENDS CsrfFetch, TLC

Symmetry == Permutations(Tokens) \cup Permutations(Calls)
===============================================================================
