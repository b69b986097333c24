------------------------------ MODULE MCUserStore -----------------------------
EXTENDS UserStore, TLC

Symmetry == Permutations(Accounts) \cup Permutations(Emails \ {DefaultAdmin})
===============================================================================
