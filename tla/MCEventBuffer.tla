--------------------------- MODULE MCEventBuffer ---------------------------
(* Model values and bounds for checking EventBuffer with TLC. *)
EXTENDS EventBufferProperties, TLC

\* Callers that flush the same way are interchangeable, and so are threads.
Symmetry == Permutations(Patient) \cup Permutations(Callers \ Patient)
            \cup Permutations(Flushers)

=============================================================================
