------------------------------- MODULE MCPages -------------------------------
(* Pages for TLC.  The users page: two users, at most one of them, and then   *)
(* either, with a business BCeID; the group page: two groups, one role.       *)
(* Calls are alike on both.                                                   *)
EXTENDS Pages

Alike ==
    Permutations(Calls) \union Permutations(Groups) \union Permutations(Users)
=============================================================================
