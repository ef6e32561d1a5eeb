--------------------------- MODULE MCUserAccounts ---------------------------
(* Symmetry for TLC: accounts, passwords and requests are interchangeable. *)
EXTENDS UserAccounts, TLC

Symmetry == Permutations(Users) \cup Permutations(Passwords) \cup Permutations(Requests)
=============================================================================
