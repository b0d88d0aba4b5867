-------------------------- MODULE MCSocialAccounts --------------------------
(* Small instances of SocialAccounts.                                      *)
EXTENDS SocialAccounts, TLC

Symmetry ==
  Permutations(Request) \cup Permutations(Uid) \cup Permutations(Social)
    \cup Permutations(Project)
=============================================================================
