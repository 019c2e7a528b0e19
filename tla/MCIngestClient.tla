--------------------------- MODULE MCIngestClient ---------------------------
(* Model values and bounds for checking IngestClient with TLC. *)
EXTENDS IngestClient, TLC

\* Senders and pools are interchangeable.
Symmetry == Permutations(Senders) \cup Permutations(Pools)

=============================================================================
