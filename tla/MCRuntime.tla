------------------------------ MODULE MCRuntime ------------------------------
(***************************************************************************)
(* Two threads that emit, configure and shut down at will, and one sink.   *)
(***************************************************************************)
EXTENDS Runtime, TLC

Symmetry == Permutations(Threads)

=============================================================================
