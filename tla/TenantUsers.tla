---------------------------- MODULE TenantUsers ----------------------------
(***************************************************************************)
(* Tenant membership as the backend keeps it in Postgres: tenants, the SSO *)
(* users it has met, tenant users, their CSTAR roles, groups and group     *)
(* members.  Every state variable is a table; every action is one API      *)
(* handler, run as one transaction with no other request in between        *)
(* (module TenantUsersConcurrent interleaves them).  A handler that throws *)
(* rolls back, so its failures are steps that change nothing.              *)
(*                                                                         *)
(* Rows are never deleted, only flagged (is_deleted).  The tables          *)
(* TenantUserRole and GroupUser have no unique key, so several rows may    *)
(* exist for one (tenant user, role) or one (tenant user, group): Copies   *)
(* tells such rows apart.  The global Role rows exist as soon as a tenant  *)
(* does, and no action but CreateTenant is enabled before.                 *)
(***************************************************************************)
CONSTANTS
    Tenants,        \* Tenant ids
    Users,          \* SSO user ids, upper-cased as setSSOUser stores them
    TenantUserIds,  \* TenantUser ids: a pool from which inserted rows are drawn
    Groups,         \* Group ids
    Roles,          \* the global roles, by name
    Copies,         \* bound on the rows for one (tenant user, role or group)
    NoRow           \* "there is no such row"

ServiceUser == "TMS.SERVICE_USER"
TenantOwner == "TMS.TENANT_OWNER"
UserAdmin   == "TMS.USER_ADMIN"

Idir          == "idir"
BusinessBceid == "bceidbusiness"
IdpTypes      == {Idir, BusinessBceid}

Statuses == {"none", "active", "deleted"}

TenantUserRow == [tenant : Tenants, sso : Users, isDeleted : BOOLEAN]

ASSUME RolesAssumption == {ServiceUser, TenantOwner} \subseteq Roles
ASSUME CopiesAssumption == Copies # {}
ASSUME NoRowAssumption ==
    /\ NoRow \notin Tenants
    /\ NoRow \notin Users
    /\ NoRow \notin TenantUserIds
    /\ NoRow \notin IdpTypes
    /\ NoRow \notin TenantUserRow

VARIABLES
    idpType,      \* SSOUser: the identity provider stored with each user
    createdBy,    \* Tenant: the user each tenant was created for
    tenantUser,   \* TenantUser: tenant, SSO user and is_deleted of each row
    roleRow,      \* TenantUserRole: status of each (tenant user, role, copy)
    groupTenant,  \* Group: the tenant of each group
    groupRow      \* GroupUser: status of each (tenant user, group, copy)

vars == <<idpType, createdBy, tenantUser, roleRow, groupTenant, groupRow>>

TypeOK ==
    /\ idpType \in [Users -> IdpTypes \union {NoRow}]
    /\ createdBy \in [Tenants -> Users \union {NoRow}]
    /\ tenantUser \in [TenantUserIds -> TenantUserRow \union {NoRow}]
    /\ roleRow \in [TenantUserIds -> [Roles -> [Copies -> Statuses]]]
    /\ groupTenant \in [Groups -> Tenants \union {NoRow}]
    /\ groupRow \in [TenantUserIds -> [Groups -> [Copies -> Statuses]]]

-----------------------------------------------------------------------------
(* Queries. *)

TenantExists(t) == createdBy[t] # NoRow
Exists(u) == tenantUser[u] # NoRow
Active(u) == Exists(u) /\ ~tenantUser[u].isDeleted
InTenant(u, t) == Exists(u) /\ tenantUser[u].tenant = t

\* u is a row of user s in tenant t.
RowOf(u, t, s) == InTenant(u, t) /\ tenantUser[u].sso = s

\* Some of the rows for one (tenant user, role or group) has this status.
Has(rows, status) == \E k \in Copies : rows[k] = status

\* getOne and Array.find return one of the rows that match.
OneWith(rows, status) == CHOOSE k \in Copies : rows[k] = status

HasRole(u, r) == Has(roleRow[u][r], "active")
IsMember(u, g) == Has(groupRow[u][g], "active")

ActiveRoleRows(u) == {x \in Roles \X Copies : roleRow[u][x[1]][x[2]] = "active"}

\* checkTenantAccess([TENANT_OWNER, USER_ADMIN]) lets some caller through.
ManagedBy(v, t) ==
    /\ Active(v)
    /\ InTenant(v, t)
    /\ \E r \in Roles \intersect {TenantOwner, UserAdmin} : HasRole(v, r)
Manageable(t) == \E v \in TenantUserIds : ManagedBy(v, t)

-----------------------------------------------------------------------------
(* What a handler decides to write, and the writes. *)

\* setSSOUser: a user already stored keeps the identity provider on record.
StoredIdp(s, idp) == IF idpType[s] = NoRow THEN idp ELSE idpType[s]

\* The soft-deleted rows to restore and the keys to insert a row for.  Only
\* one row per key is restored: the code takes the first it finds.
AssignableToAll(idp, r) == TRUE
Assignable(idp, r) == idp = Idir \/ r = ServiceUser

RolePlanIgnoresDeleted(rows, idp, asked) ==
    [restore |-> {},
     create |-> {r \in asked : Assignable(idp, r) /\ ~Has(rows[r], "active")}]
RolePlan(rows, idp, asked) ==
    LET granted == {r \in asked : Assignable(idp, r)}
        restorable == {r \in granted : Has(rows[r], "deleted")}
    IN [restore |-> {<<r, OneWith(rows[r], "deleted")>> : r \in restorable},
        create |-> {r \in granted \ restorable : ~Has(rows[r], "active")}]

\* addUserToGroups restores every soft-deleted row of a group to add.
ExistingMemberships(rows, asked) == {g \in asked : Has(rows[g], "active")}
SoftDeletedMemberships(rows, asked) ==
    {x \in asked \X Copies : rows[x[1]][x[2]] = "deleted"}
GroupsPlan(rows, asked) ==
    LET toAdd == asked \ ExistingMemberships(rows, asked)
    IN [restore |-> SoftDeletedMemberships(rows, toAdd),
        create |-> {g \in toAdd : ~Has(rows[g], "deleted")}]

\* addGroupUser restores one row, or inserts one.
MemberPlan(rows, g) ==
    IF Has(rows[g], "deleted")
    THEN [restore |-> {<<g, OneWith(rows[g], "deleted")>>}, create |-> {}]
    ELSE [restore |-> {}, create |-> {g}]

Saves(plan) == plan.restore # {} \/ plan.create # {}

\* The bound on Copies leaves room for the rows to insert.
Fits(rows, plan) == \A x \in plan.create : Has(rows[x], "none")

ApplyPlan(rows, plan) ==
    [x \in DOMAIN rows |-> [k \in Copies |->
        IF \/ <<x, k>> \in plan.restore
           \/ x \in plan.create /\ k = OneWith(rows[x], "none")
        THEN "active"
        ELSE rows[x][k]]]

SoftDelete(rows) ==
    [k \in Copies |-> IF rows[k] = "active" THEN "deleted" ELSE rows[k]]

SoftDeleteAll(table) == [x \in DOMAIN table |-> SoftDelete(table[x])]

SaveRoles(u, plan) ==
    /\ Fits(roleRow[u], plan)
    /\ roleRow' = [roleRow EXCEPT ![u] = ApplyPlan(@, plan)]

SaveMembers(u, plan) ==
    /\ Fits(groupRow[u], plan)
    /\ groupRow' = [groupRow EXCEPT ![u] = ApplyPlan(@, plan)]

SaveTenantUserUnlinked(u, t, s) ==
    tenantUser' =
        [tenantUser EXCEPT ![u] = [tenant |-> IF Exists(u) THEN NoRow ELSE t,
                                   sso |-> s, isDeleted |-> FALSE]]
SaveTenantUser(u, t, s) ==
    tenantUser' =
        [tenantUser EXCEPT ![u] = [tenant |-> t, sso |-> s, isDeleted |-> FALSE]]

\* A user of whom the tenant has no row at all, deleted or not.
UnknownIfNotActive(t, s) ==
    ~\E u \in TenantUserIds : RowOf(u, t, s) /\ Active(u)
Unknown(t, s) == ~\E u \in TenantUserIds : RowOf(u, t, s)
SoftDeletedTenantUser(u, t, s) == RowOf(u, t, s) /\ ~Active(u)

\* validateGroupsForTenant, of the groups a user is to be added to.
GroupsOfTenant(t, groups) == \A g \in groups : groupTenant[g] = t

\* bceidbusiness users are added with SERVICE_USER whatever was asked for.
RoleIdsToAssign(idp, asked) == IF idp = BusinessBceid THEN {ServiceUser} ELSE asked

\* What the validator lets through: a list of roles is not empty, and who adds a
\* user other than an IDIR user may leave it out; so may a group its first member.
RolesInBody(idp) == IF idp = Idir THEN (SUBSET Roles) \ {{}} ELSE SUBSET Roles
RoleIdsInBody == (SUBSET Roles) \ {{}}
FirstMembers == TenantUserIds \union {NoRow}

-----------------------------------------------------------------------------
(* The handlers. *)

Init ==
    /\ idpType = [s \in Users |-> NoRow]
    /\ createdBy = [t \in Tenants |-> NoRow]
    /\ tenantUser = [u \in TenantUserIds |-> NoRow]
    /\ roleRow = [u \in TenantUserIds |-> [r \in Roles |-> [k \in Copies |-> "none"]]]
    /\ groupTenant = [g \in Groups |-> NoRow]
    /\ groupRow = [u \in TenantUserIds |-> [g \in Groups |-> [k \in Copies |-> "none"]]]

\* The creator gets every global role, whatever the identity provider.
CreateTenant(t, s, idp, u) ==
    /\ ~TenantExists(t)
    /\ ~Exists(u)
    /\ createdBy' = [createdBy EXCEPT ![t] = s]
    /\ idpType' = [idpType EXCEPT ![s] = StoredIdp(s, idp)]
    /\ SaveTenantUser(u, t, s)
    /\ SaveRoles(u, [restore |-> {}, create |-> Roles])
    /\ UNCHANGED <<groupTenant, groupRow>>

\* A new row if the tenant never had this user, else a soft-deleted row of it
\* is restored; an active user is a conflict.
AddTenantUser(t, s, idp, asked, groups, u) ==
    /\ Manageable(t)
    /\ IF Unknown(t, s) THEN ~Exists(u) ELSE SoftDeletedTenantUser(u, t, s)
    /\ GroupsOfTenant(t, groups)
    /\ idpType' = [idpType EXCEPT ![s] = StoredIdp(s, idp)]
    /\ SaveTenantUser(u, t, s)
    /\ LET plan == RolePlan(roleRow[u], StoredIdp(s, idp), RoleIdsToAssign(idp, asked))
       IN Saves(plan) /\ SaveRoles(u, plan)
    /\ SaveMembers(u, GroupsPlan(groupRow[u], groups))
    /\ UNCHANGED <<createdBy, groupTenant>>

\* The tenant of the URL is not compared with the tenant of the user.
AssignUserRoles(t, u, asked) ==
    /\ Manageable(t)
    /\ Active(u)
    /\ LET plan == RolePlan(roleRow[u], idpType[tenantUser[u].sso], asked)
       IN Saves(plan) /\ SaveRoles(u, plan)
    /\ UNCHANGED <<idpType, createdBy, tenantUser, groupTenant, groupRow>>

\* otherTenantOwnersCount > 0 in unassignUserRoles: it does not ask whether the
\* other owner is still an active user.
OtherOwnerAny(t, u) == TRUE
OtherOwnerOnRecord(t, u) ==
    \E v \in TenantUserIds \ {u} : InTenant(v, t) /\ HasRole(v, TenantOwner)

\* otherTenantOwnersCount > 0 in removeTenantUser, which does.
OtherActiveOwner(t, u) ==
    \E v \in TenantUserIds \ {u} :
        Active(v) /\ InTenant(v, t) /\ HasRole(v, TenantOwner)

\* userRoleCount === 1
OneRoleRowLeftNever(u) == FALSE
OneRoleRowLeft(u) == \E x \in Roles \X Copies : ActiveRoleRows(u) = {x}

UnassignUserRoles(t, u, r) ==
    /\ Manageable(t)
    /\ InTenant(u, t)
    /\ HasRole(u, r)
    /\ r = TenantOwner => OtherOwnerOnRecord(t, u)
    /\ ~OneRoleRowLeft(u)
    /\ roleRow' = [roleRow EXCEPT ![u][r] = SoftDelete(@)]
    /\ UNCHANGED <<idpType, createdBy, tenantUser, groupTenant, groupRow>>

\* removeTenantUser, then removeUserFromAllGroups in the same transaction.
SweepUserRolesOnly(u) ==
    /\ roleRow' = [roleRow EXCEPT ![u] = SoftDeleteAll(@)]
    /\ tenantUser' = [tenantUser EXCEPT ![u].isDeleted = TRUE]
    /\ UNCHANGED groupRow
SweepEveryGroup(u) ==
    /\ roleRow' = [roleRow EXCEPT ![u] = SoftDeleteAll(@)]
    /\ tenantUser' = [tenantUser EXCEPT ![u].isDeleted = TRUE]
    /\ groupRow' = [v \in TenantUserIds |-> SoftDeleteAll(groupRow[v])]
SweepUser(u) ==
    /\ roleRow' = [roleRow EXCEPT ![u] = SoftDeleteAll(@)]
    /\ tenantUser' = [tenantUser EXCEPT ![u].isDeleted = TRUE]
    /\ groupRow' = [groupRow EXCEPT ![u] = SoftDeleteAll(@)]

RemoveTenantUser(t, u) ==
    /\ Manageable(t)
    /\ Active(u)
    /\ InTenant(u, t)
    /\ HasRole(u, TenantOwner) => OtherActiveOwner(t, u)
    /\ SweepUser(u)
    /\ UNCHANGED <<idpType, createdBy, groupTenant>>

\* ensureTenantUserExists finds an active row, restores a deleted one or inserts
\* one; the last two also assign SERVICE_USER.  Then addGroupUser.
AddGroupUser(t, g, s, idp, u) ==
    /\ Manageable(t)
    /\ groupTenant[g] = t
    /\ IF \E v \in TenantUserIds : RowOf(v, t, s) /\ Active(v)
       THEN /\ RowOf(u, t, s) /\ Active(u)
            /\ UNCHANGED <<idpType, tenantUser, roleRow>>
       ELSE /\ IF Unknown(t, s) THEN ~Exists(u) ELSE RowOf(u, t, s)
            /\ idpType' = [idpType EXCEPT ![s] = StoredIdp(s, idp)]
            /\ SaveTenantUser(u, t, s)
            /\ LET plan == RolePlan(roleRow[u], StoredIdp(s, idp), {ServiceUser})
               IN Saves(plan) /\ SaveRoles(u, plan)
    /\ ~IsMember(u, g)
    /\ SaveMembers(u, MemberPlan(groupRow[u], g))
    /\ UNCHANGED <<createdBy, groupTenant>>

\* The optional first member w must be an active tenant user, of any tenant.
CreateGroup(t, g, w) ==
    /\ Manageable(t)
    /\ groupTenant[g] = NoRow
    /\ groupTenant' = [groupTenant EXCEPT ![g] = t]
    /\ IF w = NoRow
       THEN UNCHANGED groupRow
       ELSE /\ Active(w)
            /\ SaveMembers(w, [restore |-> {}, create |-> {g}])
    /\ UNCHANGED <<idpType, createdBy, tenantUser, roleRow>>

RemoveGroupUser(t, g, u, k) ==
    /\ Manageable(t)
    /\ groupTenant[g] = t
    /\ groupRow[u][g][k] = "active"
    /\ groupRow' = [groupRow EXCEPT ![u][g][k] = "deleted"]
    /\ UNCHANGED <<idpType, createdBy, tenantUser, roleRow, groupTenant>>

Next ==
    \/ \E t \in Tenants, s \in Users, idp \in IdpTypes, u \in TenantUserIds :
        CreateTenant(t, s, idp, u)
    \/ \E t \in Tenants, s \in Users, idp \in IdpTypes, groups \in SUBSET Groups,
          u \in TenantUserIds :
        \E asked \in RolesInBody(idp) : AddTenantUser(t, s, idp, asked, groups, u)
    \/ \E t \in Tenants, u \in TenantUserIds, asked \in RoleIdsInBody :
        AssignUserRoles(t, u, asked)
    \/ \E t \in Tenants, u \in TenantUserIds, r \in Roles :
        UnassignUserRoles(t, u, r)
    \/ \E t \in Tenants, u \in TenantUserIds : RemoveTenantUser(t, u)
    \/ \E t \in Tenants, g \in Groups, s \in Users, idp \in IdpTypes, u \in TenantUserIds :
        AddGroupUser(t, g, s, idp, u)
    \/ \E t \in Tenants, g \in Groups, w \in FirstMembers :
        CreateGroup(t, g, w)
    \/ \E t \in Tenants, g \in Groups, u \in TenantUserIds, k \in Copies :
        RemoveGroupUser(t, g, u, k)

Spec == Init /\ [][Next]_vars

-----------------------------------------------------------------------------
(* Properties. *)

\* Every tenant keeps an active user who holds TENANT_OWNER: what the two
\* "At least one tenant owner must remain" checks are for.  The check in
\* unassignUserRoles counts owners without asking whether they are still
\* active, so it relies on RemovedUserHasNothing.
OwnerOf(t, u) == Active(u) /\ InTenant(u, t) /\ HasRole(u, TenantOwner)
TenantHasOwner ==
    \A t \in Tenants : TenantExists(t) => \E u \in TenantUserIds : OwnerOf(t, u)

\* An active tenant user holds a role ("User must have at least one role in
\* the tenant"): adding, restoring and unassigning all take part.
ActiveUserHasRole ==
    \A u \in TenantUserIds : Active(u) => \E r \in Roles : HasRole(u, r)

\* A removed user holds no role and no group membership, in any tenant.
RemovedUserHasNothing ==
    \A u \in TenantUserIds : ~Active(u) =>
        /\ \A r \in Roles : ~HasRole(u, r)
        /\ \A g \in Groups : ~IsMember(u, g)

\* Adding, removing and adding a user again, in any order and by either way of
\* adding, leaves one TenantUser row for the user in the tenant.
OneRowPerTenantAndUser ==
    \A t \in Tenants, s \in Users, u, v \in TenantUserIds :
        RowOf(u, t, s) /\ RowOf(v, t, s) => u = v

\* One TenantUserRole row per (tenant user, role), active or deleted, and one
\* GroupUser row per (tenant user, group): a row is restored, not duplicated.
NoDuplicateAssignments ==
    \A u \in TenantUserIds, j, k \in Copies :
        /\ \A r \in Roles :
            roleRow[u][r][j] # "none" /\ roleRow[u][r][k] # "none" => j = k
        /\ \A g \in Groups :
            groupRow[u][g][j] # "none" /\ groupRow[u][g][k] # "none" => j = k

\* A user stored as bceidbusiness holds no role but SERVICE_USER, except the
\* roles given to the one a tenant was created for, whatever provider the
\* request bodies claim and however often the user is removed and added.
BceidHoldsServiceUserOnly ==
    \A u \in TenantUserIds, r \in Roles :
        /\ Active(u)
        /\ HasRole(u, r)
        /\ idpType[tenantUser[u].sso] # Idir
        => r = ServiceUser \/ createdBy[tenantUser[u].tenant] = tenantUser[u].sso

\* A request changes the rows of one tenant user only.
RowsOf(u) == <<tenantUser[u], roleRow[u], groupRow[u]>>
OneUserPerRequest ==
    [][\A u, v \in TenantUserIds :
        RowsOf(u)' # RowsOf(u) /\ RowsOf(v)' # RowsOf(v) => u = v]_vars
=============================================================================
