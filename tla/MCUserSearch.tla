----------------------------- MODULE MCUserSearch -----------------------------
(* UserSearch for TLC.  Of a poor and two richer records of one user and one  *)
(* without a guid: every answer of up to two, and a richer record found after *)
(* another user's, before and after one that is as rich.  And a BCeID user    *)
(* who is of a business and one who is not.                                   *)
EXTENDS UserSearch, SequencesExt, TLC

CONSTANTS g1, g2, email, name

User(guid, filled, business) == [guid |-> guid, filled |-> filled, business |-> business]
Poor == User(g1, {}, FALSE)
WithEmail == User(g1, {email}, FALSE)
WithName == User(g1, {name}, FALSE)
Unknown == User(NoGuid, {}, FALSE)
Idir ==
    BoundedSeq({Poor, WithEmail, WithName, Unknown}, 2)
        \union {<<Poor, Unknown, WithEmail>>, <<Unknown, Poor, WithEmail, WithName>>}
Bceid == {<<>>, <<User(g1, {}, TRUE), User(g2, {email}, FALSE)>>}
Alike == Permutations(Searches) \union Permutations(Texts \ {EmptyText})
=============================================================================
