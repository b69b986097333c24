---------------------------- MODULE MCPageSession -----------------------------
(* Three tabs of one browser.                                                *)
EXTENDS PageSession, TLC

Symmetry == Permutations(Tabs)
===============================================================================
