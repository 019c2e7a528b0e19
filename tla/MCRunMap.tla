------------------------------- MODULE MCRunMap -------------------------------
(***************************************************************************)
(* Three threads and a tree of three runs, in a map that holds two.        *)
(***************************************************************************)
EXTENDS RunMap

Tree == [r \in Runs |-> CASE r = "root" -> None
                          [] r = "child" -> "root"
                          [] r = "grandchild" -> "child"]

Symmetry == Permutations(Threads)

=============================================================================
