-------------------------- MODULE MCEffectiveRoles --------------------------
(* EffectiveRoles for TLC: symmetry of ids.                                  *)
EXTENDS EffectiveRoles, TLC

Symmetry ==
    Permutations(Tenants) \union Permutations(Users) \union Permutations(TenantUserIds)
    \union Permutations(Groups) \union Permutations(Services) \union Permutations(RoleIds)
=============================================================================
