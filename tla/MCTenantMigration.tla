------------------------- MODULE MCTenantMigration -------------------------
(* A small instance of TenantMigration for TLC.                             *)
EXTENDS TenantMigration, TLC

Symmetry == Permutations(Rows) \cup Permutations(Defaults) \cup Permutations(Tenants \ Defaults)
=============================================================================
