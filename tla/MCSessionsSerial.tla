-------------------------- MODULE MCSessionsSerial --------------------------
(* A small instance of SessionsSerial.                                     *)
EXTENDS SessionsSerial, TLC

\* Tokens are not symmetric here: the refinement mapping uses CHOOSE on them.
Symmetry == Permutations(Request)
=============================================================================
