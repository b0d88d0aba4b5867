----------------------------- MODULE MCSessions -----------------------------
(* Small instances of Sessions.                                            *)
EXTENDS Sessions, TLC

Symmetry ==
  Permutations(Request) \cup Permutations(Token) \cup Permutations(UUID)
=============================================================================
