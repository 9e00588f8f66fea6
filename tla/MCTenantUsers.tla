--------------------------- MODULE MCTenantUsers ---------------------------
(* TenantUsers and TenantQueries for TLC: sets of model values, and the symmetry of those that *)
(* the specification treats alike.                                           *)
EXTENDS TenantQueries, TLC

Symmetry ==
    Permutations(Tenants) \union Permutations(Users)
        \union Permutations(TenantUserIds) \union Permutations(Groups)
=============================================================================
