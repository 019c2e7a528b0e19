------------------------------- MODULE MCSpans -------------------------------
(***************************************************************************)
(* Two tasks and one generator that both may consume.                      *)
(***************************************************************************)
EXTENDS Spans

Symmetry == Permutations(Tasks)

=============================================================================
