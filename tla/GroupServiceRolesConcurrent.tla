-------------------- MODULE GroupServiceRolesConcurrent --------------------
(***************************************************************************)
(* Requests on groups that overlap.  An update of a group's roles reads    *)
(* the rows of the roles it is asked about, plans its inserts,             *)
(* restorations and deletions from them and writes these later; the rows   *)
(* may have changed by then.  Its checks cannot turn false, so they are    *)
(* one step with the read.  A group is created, or given another name,     *)
(* after a query that looks for the name in the tenant.                    *)
(***************************************************************************)
EXTENDS GroupServiceRoles

CONSTANTS
    Requests,    \* the requests that can be in flight at once
    GroupNames   \* names of groups

VARIABLES
    groupName,  \* Group: the name of each group
    request,    \* what each request is asked for and what it will write
    overtaken   \* history: the updates whose rows were changed since their read

gvars == <<gtables, groupName, request, overtaken>>

Idle == [op |-> "idle"]
Asked == SUBSET (RoleIds \X BOOLEAN)
Plan == [create : SUBSET RoleIds, restore : SUBSET RoleIds, delete : SUBSET RoleIds]
RequestState ==
    {Idle} \union [op : {"write"}, group : Groups, asked : Asked, plan : Plan]
    \union [op : {"create"}, tenant : Tenants, name : GroupNames]
    \union [op : {"rename"}, group : Groups, name : GroupNames]

CTypeOK ==
    /\ GTypeOK
    /\ groupName \in [Groups -> GroupNames \union {NoRow}]
    /\ request \in [Requests -> RequestState]
    /\ overtaken \subseteq Requests

Free(q) == request[q] = Idle
Writing(q) == request[q].op = "write"
Becomes(q, state) == request' = [request EXCEPT ![q] = state]

-----------------------------------------------------------------------------
(* The roles of a group. *)

StartUpdate(q, t, g, asked) ==
    /\ Free(q)
    /\ ValidForTenant(t, g, asked)
    /\ Becomes(q, [op |-> "write", group |-> g, asked |-> asked,
                   plan |-> Diff(assignment[g], asked)])
    /\ UNCHANGED <<gtables, groupName, overtaken>>

\* The updates in flight that have read the row of one of these.
Readers(g, roles) ==
    {p \in Requests : /\ Writing(p)
                      /\ request[p].group = g
                      /\ \E x \in request[p].asked : x[1] \in roles}

WriteUpdate(q) ==
    /\ Writing(q)
    /\ LET g == request[q].group
           plan == request[q].plan
       IN /\ ApplyDiff(g, plan)
          /\ overtaken' = (overtaken \union
                 Readers(g, plan.create \union plan.restore \union plan.delete)) \ {q}
    /\ Becomes(q, Idle)
    /\ UNCHANGED <<tables, groupTenant, groupName>>

-----------------------------------------------------------------------------
(* Groups and their names. *)

\* checkIfGroupNameExistsInTenant, the group itself aside.
NameTaken(t, name, g) ==
    \E other \in Groups \ {g} : groupTenant[other] = t /\ groupName[other] = name

\* The unique key on name and tenant.
UniqueNameAny(t, name, g) == TRUE
UniqueName(t, name, g) == ~NameTaken(t, name, g)

StartCreateGroup(q, t, name) ==
    /\ Free(q)
    /\ ~NameTaken(t, name, NoRow)
    /\ Becomes(q, [op |-> "create", tenant |-> t, name |-> name])
    /\ UNCHANGED <<gtables, groupName, overtaken>>

WriteCreateGroup(q, g) ==
    /\ request[q].op = "create"
    /\ UniqueName(request[q].tenant, request[q].name, g)
    /\ CreateGroup(request[q].tenant, g)
    /\ groupName' = [groupName EXCEPT ![g] = request[q].name]
    /\ Becomes(q, Idle)
    /\ UNCHANGED overtaken

\* updateGroup; one that only changes the description changes nothing here.
StartUpdateGroup(q, t, g, name) ==
    /\ Free(q)
    /\ groupTenant[g] = t
    /\ ~NameTaken(t, name, g)
    /\ Becomes(q, [op |-> "rename", group |-> g, name |-> name])
    /\ UNCHANGED <<gtables, groupName, overtaken>>

WriteUpdateGroup(q) ==
    /\ request[q].op = "rename"
    /\ LET g == request[q].group
       IN /\ UniqueName(groupTenant[g], request[q].name, g)
          /\ groupName' = [groupName EXCEPT ![g] = request[q].name]
    /\ Becomes(q, Idle)
    /\ UNCHANGED <<gtables, overtaken>>

-----------------------------------------------------------------------------

\* A unique key refuses what is written, or the process stops: rollback.
Abort(q) ==
    /\ ~Free(q)
    /\ Becomes(q, Idle)
    /\ overtaken' = overtaken \ {q}
    /\ UNCHANGED <<gtables, groupName>>

CInit ==
    /\ GInit
    /\ groupName = [g \in Groups |-> NoRow]
    /\ request = [q \in Requests |-> Idle]
    /\ overtaken = {}

CNext ==
    \/ Next /\ UNCHANGED <<groupTenant, assignment, groupName, request, overtaken>>
    \/ \E q \in Requests :
        \/ \E t \in Tenants, g \in Groups, asked \in Asked : StartUpdate(q, t, g, asked)
        \/ WriteUpdate(q)
        \/ \E t \in Tenants, name \in GroupNames : StartCreateGroup(q, t, name)
        \/ \E g \in Groups : WriteCreateGroup(q, g)
        \/ \E t \in Tenants, g \in Groups, name \in GroupNames :
            StartUpdateGroup(q, t, g, name)
        \/ WriteUpdateGroup(q)
        \/ Abort(q)

CSpec == CInit /\ [][CNext]_gvars

-----------------------------------------------------------------------------
(* Properties. *)

\* No two groups of a tenant share a name, however creations and updates overlap.
GroupNamesUnique ==
    \A g, other \in Groups :
        groupTenant[g] # NoRow /\ groupTenant[g] = groupTenant[other]
        /\ groupName[g] = groupName[other] => g = other

\* However updates overlap, a commit gives a group only roles the request asked
\* to give, takes only roles it asked to take, and no other group's.
NeverAgainstRequest ==
    [][\A q \in Requests : ~Free(q) /\ Free(q)' =>
        \A g \in Groups, r \in RoleIds :
            Assigned(g, r)' # Assigned(g, r) =>
                /\ g = request[q].group
                /\ <<r, Assigned(g, r)'>> \in request[q].asked]_gvars

\* An update that was not overtaken leaves the group with each role as asked,
\* unless the body asks for both.
AsAskedUnlessOvertaken ==
    [][\A q \in Requests \ overtaken :
        WriteUpdate(q) =>
            \A g \in Groups, r \in RoleIds, enabled \in BOOLEAN :
                /\ g = request[q].group
                /\ <<r, enabled>> \in request[q].asked
                /\ <<r, ~enabled>> \notin request[q].asked
                => Assigned(g, r)' = enabled]_gvars
=============================================================================
