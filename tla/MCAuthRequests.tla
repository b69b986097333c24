----------------------------- MODULE MCAuthRequests ---------------------------
EXTENDS AuthRequests, TLC

Symmetry ==
  Permutations(Accounts) \cup Permutations(Emails \ {DefaultAdmin}) \cup Permutations(Workers)
===============================================================================
