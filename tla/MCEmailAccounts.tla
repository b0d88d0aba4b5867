--------------------------- MODULE MCEmailAccounts ---------------------------
(* Small instances of EmailAccounts.                                       *)
EXTENDS EmailAccounts, TLC

Symmetry ==
  Permutations(Request) \cup Permutations(Uid) \cup Permutations(Password)
    \cup Permutations(Code) \cup Permutations(Project)
    \cup Permutations(Email)
=============================================================================
