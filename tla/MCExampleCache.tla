---------------------------- MODULE MCExampleCache ----------------------------
(* A small instance of ExampleCache, without symmetry, which liveness does *)
(* not admit.                                                              *)
EXTENDS ExampleCache
=============================================================================
