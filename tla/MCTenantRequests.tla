-------------------------- MODULE MCTenantRequests --------------------------
(* TenantRequests for TLC. *)
EXTENDS TenantRequests, TLC

Symmetry ==
    Permutations(Tenants) \union Permutations(RequestIds)
        \union Permutations(Names) \union Permutations(Ministries)
        \union Permutations(Reasons) \union Permutations(Calls)
=============================================================================
