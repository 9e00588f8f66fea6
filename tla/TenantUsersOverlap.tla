------------------------- MODULE TenantUsersOverlap -------------------------
(***************************************************************************)
(* What overlapping requests can and cannot do to tenant membership.  Two  *)
(* history variables, which no action of the system reads, tell overlap    *)
(* that matters from overlap that does not: a request in flight is         *)
(* overtaken when another one commits a change, since what it has read may *)
(* be stale by then; a stale commit is the commit of an overtaken request. *)
(***************************************************************************)
EXTENDS TenantUsersConcurrent

VARIABLES
    overtaken,   \* the requests in flight that have been overtaken
    stale        \* some overtaken request has committed a change

ovars == <<cvars, overtaken, stale>>

OInit ==
    /\ CInit
    /\ overtaken = {}
    /\ stale = FALSE

\* q answers, and the tables change with it.
Commits(q) == ~Free(q) /\ Free(q)' /\ vars' # vars

ONext ==
    /\ CNext
    /\ overtaken' = {q \in Requests : ~Free(q)' /\ (q \in overtaken \/ vars' # vars)}
    /\ stale' = (stale \/ \E q \in overtaken : Commits(q))

OSpec == OInit /\ [][ONext]_ovars

-----------------------------------------------------------------------------
(* Properties. *)

\* A request that no other commit overtook does exactly what the handler does
\* when it runs alone: its commit is a step of the serial specification.  The
\* checks and plans it made query by query are then those of one moment.
SerialUnlessOvertaken ==
    [][\A q \in Requests \ overtaken : Commits(q) => Next]_ovars

\* An overtaken request of one of these kinds commits.
StaleCommitBy(ops) == \E q \in overtaken : request[q].op \in ops /\ Commits(q)

\* The rules of tenant membership hold, however many requests are in flight and
\* whatever they have read, up to the first commit of a request that another
\* one has overtaken, and which of them that commit can break depends on its
\* handler: only a handler that takes roles takes the last one, only one that
\* plans before it writes writes a row twice, and so on.
FirstStaleCommitBreaksOnly ==
    [][~stale =>
        /\ TenantHasOwner' \/ StaleCommitBy({"unassign", "remove"})
        /\ ActiveUserHasRole' \/ StaleCommitBy({"unassign"})
        /\ RemovedUserHasNothing'
             \/ StaleCommitBy({"remove", "assign", "add", "addToGroup", "createGroup"})
        /\ NoDuplicateAssignments' \/ StaleCommitBy({"assign", "add", "addToGroup"})
        /\ OneRowPerTenantAndUser' \/ StaleCommitBy({"add", "addToGroup"})]_ovars
=============================================================================
