-------------------------- MODULE MCSharedServices --------------------------
(* SharedServicesConcurrent for TLC: symmetry of ids and values.             *)
EXTENDS SharedServicesConcurrent, TLC

Symmetry ==
    Permutations(Services) \union Permutations(RoleIds) \union Permutations(Values)
    \union Permutations(RoleNames) \union Permutations(Requests)
=============================================================================
