------------------------- MODULE GroupServiceRoles -------------------------
(***************************************************************************)
(* Roles of connected services assigned to the groups of a tenant.  The    *)
(* table GroupSharedServiceRole has one row per group and role, which is   *)
(* flagged and restored; an update says for some roles whether the group   *)
(* shall have them and leaves the rest alone.                              *)
(*                                                                         *)
(* Nothing an update checks can become false again: groups, roles and      *)
(* associations are never deleted, and a role stays with its service.      *)
(***************************************************************************)
EXTENDS SharedServices

CONSTANT Groups  \* Group ids

ASSUME TenantsAssumption == NoRow \notin Tenants

VARIABLES
    groupTenant,  \* Group: the tenant of each group
    assignment    \* GroupSharedServiceRole: the status of each group and role

gtables == <<service, role, association, groupTenant, assignment>>

Statuses == {"none", "active", "deleted"}

GTypeOK ==
    /\ TypeOK
    /\ groupTenant \in [Groups -> Tenants \union {NoRow}]
    /\ assignment \in [Groups -> [RoleIds -> Statuses]]

Assigned(g, r) == assignment[g][r] = "active"
AssociatedWith(t, r) == role[r] # NoRow /\ <<t, role[r].service>> \in association

\* asked: pairs of a role and whether the group shall have it.  A role may be
\* there twice.  That a service of the tenant is active is not asked for.
ValidForTenantAny(t, g, asked) ==
    /\ groupTenant[g] = t
    /\ asked # {}
    /\ \A x \in asked : role[x[1]] # NoRow
ValidForTenant(t, g, asked) ==
    /\ groupTenant[g] = t
    /\ asked # {}
    /\ \A x \in asked : AssociatedWith(t, x[1])

\* What to write, by the rows that are there.
DiffReplacesAll(rows, asked) ==
    [create |-> {r \in RoleIds : <<r, TRUE>> \in asked /\ rows[r] = "none"},
     restore |-> {r \in RoleIds : <<r, TRUE>> \in asked /\ rows[r] = "deleted"},
     delete |-> {r \in RoleIds : <<r, TRUE>> \notin asked /\ rows[r] = "active"}]
DiffNeverRestores(rows, asked) ==
    [create |-> {r \in RoleIds : <<r, TRUE>> \in asked /\ rows[r] = "none"},
     restore |-> {},
     delete |-> {r \in RoleIds : <<r, FALSE>> \in asked /\ rows[r] = "active"}]
Diff(rows, asked) ==
    [create |-> {r \in RoleIds : <<r, TRUE>> \in asked /\ rows[r] = "none"},
     restore |-> {r \in RoleIds : <<r, TRUE>> \in asked /\ rows[r] = "deleted"},
     delete |-> {r \in RoleIds : <<r, FALSE>> \in asked /\ rows[r] = "active"}]

\* An insert meets the unique key on group and role; the other rows are
\* written by id, whatever they say by now.
ApplyDiff(g, diff) ==
    /\ \A r \in diff.create : assignment[g][r] = "none"
    /\ assignment' = [assignment EXCEPT ![g] = [r \in RoleIds |->
           IF r \in diff.delete THEN "deleted"
           ELSE IF r \in diff.create \union diff.restore THEN "active"
           ELSE assignment[g][r]]]

\* fetchSharedServiceRolesForGroup: the roles a group could have, and has.
Offered(t) == {r \in RoleIds : AssociatedWith(t, r) /\ IsActive(role[r].service)}
ShownEnabled(t, g) == {r \in Offered(t) : Assigned(g, r)}

-----------------------------------------------------------------------------

GInit ==
    /\ Init
    /\ groupTenant = [g \in Groups |-> NoRow]
    /\ assignment = [g \in Groups |-> [r \in RoleIds |-> "none"]]

CreateGroup(t, g) ==
    /\ groupTenant[g] = NoRow
    /\ groupTenant' = [groupTenant EXCEPT ![g] = t]
    /\ UNCHANGED <<tables, assignment>>

UpdateSharedServiceRolesForGroup(t, g, asked) ==
    /\ ValidForTenant(t, g, asked)
    /\ ApplyDiff(g, Diff(assignment[g], asked))
    /\ UNCHANGED <<tables, groupTenant>>

GNext ==
    \/ Next /\ UNCHANGED <<groupTenant, assignment>>
    \/ \E t \in Tenants, g \in Groups :
        \/ CreateGroup(t, g)
        \/ \E asked \in SUBSET (RoleIds \X BOOLEAN) :
            UpdateSharedServiceRolesForGroup(t, g, asked)

GSpec == GInit /\ [][GNext]_gtables

-----------------------------------------------------------------------------
(* Properties. *)

\* "A tenant must be associated with a connected service before roles for that
\* service can be assigned to tenant groups": every row there ever was is for
\* a role of a service associated with the tenant of the group.
AssignedServicesAssociated ==
    \A g \in Groups, r \in RoleIds :
        assignment[g][r] # "none" =>
            groupTenant[g] # NoRow /\ AssociatedWith(groupTenant[g], r)
=============================================================================
