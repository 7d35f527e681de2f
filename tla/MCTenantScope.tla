--------------------------- MODULE MCTenantScope ---------------------------
(* A small instance of TenantScope for TLC.                                 *)
EXTENDS TenantScope, TLC

Symmetry == Permutations(Rows) \cup Permutations(Tenants) \cup Permutations(Chains)
=============================================================================
