---------------------------- MODULE MCEngineCache ----------------------------
(* EngineCache with a few threads and data sources. *)
EXTENDS EngineCache

Symmetry == Permutations(Threads) \cup Permutations(Sources)
=============================================================================
