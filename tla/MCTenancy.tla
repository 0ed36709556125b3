------------------------------ MODULE MCTenancy ------------------------------
(* Values for the configurations. *)
EXTENDS Tenancy, TLC

CONSTANTS acme, ops, k1, k2, k3

\* ops' key is an admin's and has the prefix of one of acme's.
TenantOf == k1 :> acme @@ k2 :> ops @@ k3 :> acme
PrefixOf == k1 :> "a" @@ k2 :> "a" @@ k3 :> "b"

Symmetry == Permutations(Requests)
=============================================================================
