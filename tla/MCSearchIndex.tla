---------------------------- MODULE MCSearchIndex ----------------------------
(* Values for the configurations: two objects of one table, two alike sessions. *)
EXTENDS SearchIndex, TLC

CONSTANTS m, t

Tab == (m :> 2) @@ (t :> 2)

Symmetry == Permutations(Sessions)
=============================================================================
