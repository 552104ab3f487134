------------------------------ MODULE MCAccounts ------------------------------
EXTENDS Accounts, TLC

\* Accounts, invites and requests are interchangeable.
Symmetry == Permutations(Users) \cup Permutations(Invites) \cup Permutations(Clients)
=============================================================================
