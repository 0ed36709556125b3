---------------------------- MODULE MCDocumentIndex ----------------------------
(* DocumentIndex with a few sessions, texts and encoders. *)
EXTENDS DocumentIndex, TLC

CONSTANTS blank, short, long

\* A blank text has no chunk at all.
PieceCounts == (blank :> 0) @@ (short :> 1) @@ (long :> 2)

Symmetry == Permutations(Sessions) \cup Permutations(Encoders)
=============================================================================
