------------------------ MODULE MCGroupServiceRoles ------------------------
(* GroupServiceRolesConcurrent for TLC: symmetry of ids.                     *)
EXTENDS GroupServiceRolesConcurrent, TLC

Symmetry ==
    Permutations(Tenants) \union Permutations(Groups) \union Permutations(Services)
    \union Permutations(RoleIds) \union Permutations(RoleNames)
    \union Permutations(Requests) \union Permutations(GroupNames)
=============================================================================
