----------------------- MODULE TenantUsersConcurrent -----------------------
(***************************************************************************)
(* The handlers of TenantUsers as they really run: each is a transaction   *)
(* at Postgres' default READ COMMITTED level that awaits one query after   *)
(* another, and other requests run between two queries.  A request reads   *)
(* what is committed at the time of each query, keeps what it read, and    *)
(* writes at the end; nothing locks or re-checks what it read.             *)
(*                                                                         *)
(* The queries a decision depends on are steps of their own, and so are    *)
(* the UPDATEs of a removal, each of which finds the rows there are by     *)
(* then.  The writes of another handler, and the reads it makes after its  *)
(* first write, are one step with its commit; but one that writes on after *)
(* a save that found nothing to do holds no lock, and reads on step by     *)
(* step.  A row that an UPDATE has flagged is locked up to the commit.  A  *)
(* request that throws, or whose process stops, before the commit leaves   *)
(* nothing behind (Abort).                                                 *)
(***************************************************************************)
EXTENDS TenantUsers

CONSTANT Requests  \* the API requests that can be in flight at once

VARIABLE request   \* what each request is doing and what it has read

cvars == <<vars, request>>

Idle == [op |-> "idle"]
NoPlan == [restore |-> {}, create |-> {}]

\* op: the handler; at: the query or write it is about to make.
RolePlans == [restore : SUBSET (Roles \X Copies), create : SUBSET Roles]
MemberPlans == [restore : SUBSET (Groups \X Copies), create : SUBSET Groups]
RequestState ==
    [op : {"idle"}]
    \union [op : {"assign"}, at : {"existing", "deleted", "write"},
            tenantUser : TenantUserIds, roles : SUBSET Roles,
            existing : SUBSET Roles, plan : RolePlans]
    \union [op : {"unassign"}, at : {"owners", "count", "write"},
            tenant : Tenants, tenantUser : TenantUserIds, role : Roles]
    \union [op : {"remove"}, at : {"owners", "roles", "user", "members", "commit"},
            tenant : Tenants, tenantUser : TenantUserIds,
            roleRows : SUBSET (Roles \X Copies), memberRows : SUBSET (Groups \X Copies)]
    \union [op : {"add"},
            at : {"insert", "restore", "existing", "deleted", "groups", "members", "write"},
            tenant : Tenants, tenantUser : TenantUserIds \union {NoRow},
            sso : Users, idp : IdpTypes,
            roles : SUBSET Roles, groups : SUBSET Groups,
            existing : SUBSET Roles, plan : RolePlans, memberPlan : MemberPlans]
    \union [op : {"addToGroup"},
            at : {"insert", "restore", "existing", "deleted", "member", "wasMember", "write"},
            tenant : Tenants, tenantUser : TenantUserIds \union {NoRow},
            sso : Users, idp : IdpTypes, group : Groups, roles : SUBSET Roles,
            existing : SUBSET Roles, plan : RolePlans, memberPlan : MemberPlans]
    \union [op : {"createGroup"}, at : {"write"},
            tenant : Tenants, group : Groups, tenantUser : TenantUserIds]

CTypeOK == TypeOK /\ request \in [Requests -> RequestState]

-----------------------------------------------------------------------------
(* Steps common to all requests. *)

Free(q) == request[q] = Idle
At(q, op, at) == request[q].op = op /\ request[q].at = at

\* A read: the request goes on, the tables stay.
Becomes(q, state) ==
    /\ request' = [request EXCEPT ![q] = state]
    /\ UNCHANGED vars

Advance(q, at) == Becomes(q, [request[q] EXCEPT !.at = at])

\* The request answers, with the commit of what it wrote.
Finish(q) == request' = [request EXCEPT ![q] = Idle]

\* The rows removals have flagged and not yet committed: who is to write them waits.
Removing(p, u) ==
    /\ request[p].op = "remove" /\ request[p].tenantUser = u
    /\ request[p].at \in {"members", "commit"}
UserLocked(u) == \E p \in Requests : Removing(p, u)
RoleLocked(u, r) ==
    \E p \in Requests : Removing(p, u) /\ \E k \in Copies : <<r, k>> \in request[p].roleRows
MemberLocked(u, g, k) ==
    \E p \in Requests : Removing(p, u) /\ <<g, k>> \in request[p].memberRows

\* A check fails, a statement fails or the process stops: rollback.
Abort(q) == ~Free(q) /\ Becomes(q, Idle)

-----------------------------------------------------------------------------
(* assignUserRoles, on its own or for a user whom another request has        *)
(* restored before this one could (FoundRestored).                           *)

StartAssign(q, t, u, asked) ==
    /\ Free(q)
    /\ Manageable(t)
    /\ Active(u)
    /\ Becomes(q, [op |-> "assign", at |-> "existing", tenantUser |-> u,
                   roles |-> asked, existing |-> {}, plan |-> NoPlan])

GivesRoles == {"assign", "add", "addToGroup"}

\* getExistingRolesForUser finds none once the user is removed.
ReadExistingRoles(q) ==
    /\ request[q].op \in GivesRoles /\ request[q].at = "existing"
    /\ LET u == request[q].tenantUser
           existing == {r \in Roles : Active(u) /\ HasRole(u, r)}
       IN Becomes(q, [request[q] EXCEPT !.at = "deleted", !.existing = existing])

\* The plan made of what the two queries have read.
AssignPlan(q) ==
    LET idp == idpType[tenantUser[request[q].tenantUser].sso]
        now == RolePlan(roleRow[request[q].tenantUser], idp, request[q].roles)
        restored == {x[1] : x \in now.restore}
        granted == {r \in request[q].roles : Assignable(idp, r)}
    IN [restore |-> now.restore, create |-> granted \ (restored \union request[q].existing)]

AfterRoles == [assign |-> "write", add |-> "groups", addToGroup |-> "member"]
ReadDeletedRoles(q) ==
    /\ request[q].op \in GivesRoles /\ request[q].at = "deleted"
    /\ Saves(AssignPlan(q))
    /\ Becomes(q, [request[q] EXCEPT !.at = AfterRoles[request[q].op],
                                     !.plan = AssignPlan(q)])

WriteAssign(q) ==
    /\ At(q, "assign", "write")
    /\ SaveRoles(request[q].tenantUser, request[q].plan)
    /\ Finish(q)
    /\ UNCHANGED <<idpType, createdBy, tenantUser, groupTenant, groupRow>>

-----------------------------------------------------------------------------
(* unassignUserRoles *)

StartUnassign(q, t, u, r) ==
    /\ Free(q)
    /\ Manageable(t)
    /\ InTenant(u, t)
    /\ HasRole(u, r)
    /\ Becomes(q, [op |-> "unassign",
                   at |-> IF r = TenantOwner THEN "owners" ELSE "count",
                   tenant |-> t, tenantUser |-> u, role |-> r])

CountOtherOwnersUnchecked(q) ==
    /\ At(q, "unassign", "owners")
    /\ Advance(q, "count")
CountOtherOwners(q) ==
    /\ At(q, "unassign", "owners")
    /\ OtherOwnerOnRecord(request[q].tenant, request[q].tenantUser)
    /\ Advance(q, "count")

CountRoles(q) ==
    /\ At(q, "unassign", "count")
    /\ ~OneRoleRowLeft(request[q].tenantUser)
    /\ Advance(q, "write")

\* The UPDATE flags whatever rows there are for the user and the role by now.
WriteUnassign(q) ==
    /\ At(q, "unassign", "write")
    /\ ~RoleLocked(request[q].tenantUser, request[q].role)
    /\ roleRow' = [roleRow EXCEPT ![request[q].tenantUser][request[q].role] = SoftDelete(@)]
    /\ Finish(q)
    /\ UNCHANGED <<idpType, createdBy, tenantUser, groupTenant, groupRow>>

-----------------------------------------------------------------------------
(* removeTenantUser, and removeUserFromAllGroups in the same transaction     *)

StartRemove(q, t, u) ==
    /\ Free(q)
    /\ Manageable(t)
    /\ Active(u)
    /\ InTenant(u, t)
    /\ Becomes(q, [op |-> "remove",
                   at |-> IF HasRole(u, TenantOwner) THEN "owners" ELSE "roles",
                   tenant |-> t, tenantUser |-> u, roleRows |-> {}, memberRows |-> {}])

CountActiveOwners(q) ==
    /\ At(q, "remove", "owners")
    /\ OtherActiveOwner(request[q].tenant, request[q].tenantUser)
    /\ Advance(q, "roles")

ActiveMemberRows(u) == {x \in Groups \X Copies : groupRow[u][x[1]][x[2]] = "active"}

\* The table once these of its rows are flagged.
Flagged(rows, found) ==
    [x \in DOMAIN rows |-> [k \in Copies |->
        IF <<x, k>> \in found /\ rows[x][k] = "active" THEN "deleted" ELSE rows[x][k]]]

\* The first UPDATE begins: it flags the role rows it finds, once they are not locked.
SweepRoles(q) ==
    /\ At(q, "remove", "roles")
    /\ Becomes(q, [request[q] EXCEPT !.at = "user",
                                     !.roleRows = ActiveRoleRows(request[q].tenantUser)])

\* It ends: rows flagged by others meanwhile are left out.  The second UPDATE.
SweepTenantUser(q) ==
    /\ At(q, "remove", "user")
    /\ ~UserLocked(request[q].tenantUser)
    /\ Becomes(q, [request[q] EXCEPT
           !.at = "members",
           !.roleRows = @ \intersect ActiveRoleRows(request[q].tenantUser)])

SweepNoMemberships(q) ==
    /\ At(q, "remove", "members")
    /\ Advance(q, "commit")
SweepMemberships(q) ==
    /\ At(q, "remove", "members")
    /\ Becomes(q, [request[q] EXCEPT
           !.at = "commit",
           !.memberRows = ActiveMemberRows(request[q].tenantUser)])

CommitRemoval(q) ==
    /\ At(q, "remove", "commit")
    /\ LET u == request[q].tenantUser
       IN /\ roleRow' = [roleRow EXCEPT ![u] = Flagged(@, request[q].roleRows)]
          /\ tenantUser' = [tenantUser EXCEPT ![u].isDeleted = TRUE]
          /\ groupRow' = [groupRow EXCEPT ![u] = Flagged(@, request[q].memberRows)]
    /\ Finish(q)
    /\ UNCHANGED <<idpType, createdBy, groupTenant>>

-----------------------------------------------------------------------------
(* addTenantUser *)

StartAdd(q, t, s, idp, asked, groups, u) ==
    /\ Free(q)
    /\ Manageable(t)
    /\ GroupsOfTenant(t, groups)
    /\ IF Unknown(t, s) THEN u = NoRow ELSE u # NoRow /\ SoftDeletedTenantUser(u, t, s)
    /\ Becomes(q, [op |-> "add", at |-> IF u = NoRow THEN "insert" ELSE "restore",
                   tenant |-> t, tenantUser |-> u, sso |-> s, idp |-> idp,
                   roles |-> asked, groups |-> groups,
                   existing |-> {}, plan |-> NoPlan, memberPlan |-> NoPlan])

\* A new row, or the deleted one that was found, which is locked from then on.
SavesTenantUser(q, op, u) ==
    IF At(q, op, "insert")
    THEN ~Exists(u)
    ELSE At(q, op, "restore") /\ u = request[q].tenantUser /\ ~Active(u) /\ ~UserLocked(u)

WriteAdd(q, u) ==
    /\ SavesTenantUser(q, "add", u)
    /\ LET s == request[q].sso
           idp == StoredIdp(s, request[q].idp)
           plan == RolePlan(roleRow[u], idp, RoleIdsToAssign(request[q].idp, request[q].roles))
       IN /\ idpType' = [idpType EXCEPT ![s] = idp]
          /\ SaveTenantUser(u, request[q].tenant, s)
          /\ Saves(plan)
          /\ SaveRoles(u, plan)
    /\ SaveMembers(u, GroupsPlan(groupRow[u], request[q].groups))
    /\ Finish(q)
    /\ UNCHANGED <<createdBy, groupTenant>>

\* save reads the row again before it writes, and if another request has restored
\* the user writes nothing, at most who did; then roles and groups are assigned.
FoundRestored(q, op, asked) ==
    /\ At(q, op, "restore")
    /\ Active(request[q].tenantUser)
    /\ Becomes(q, [request[q] EXCEPT !.at = "existing", !.roles = asked])
AddFoundRestored(q) ==
    FoundRestored(q, "add", RoleIdsToAssign(request[q].idp, request[q].roles))

\* getExistingGroupMemberships, then getSoftDeletedGroupMemberships.
ReadMemberships(q) ==
    /\ At(q, "add", "groups")
    /\ LET existing == ExistingMemberships(groupRow[request[q].tenantUser], request[q].groups)
       IN Becomes(q, [request[q] EXCEPT !.at = "members", !.groups = @ \ existing])

ReadDeletedMemberships(q) ==
    /\ At(q, "add", "members")
    /\ LET restore == SoftDeletedMemberships(groupRow[request[q].tenantUser],
                                             request[q].groups)
       IN Becomes(q, [request[q] EXCEPT
              !.at = "write",
              !.memberPlan = [restore |-> restore,
                              create |-> request[q].groups \ {x[1] : x \in restore}]])

\* What a request writes for a user it found restored, or active from the start.
WriteRolesAndMembers(q, op) ==
    /\ At(q, op, "write")
    /\ SaveRoles(request[q].tenantUser, request[q].plan)
    /\ SaveMembers(request[q].tenantUser, request[q].memberPlan)
    /\ Finish(q)
    /\ UNCHANGED <<idpType, createdBy, tenantUser, groupTenant>>

-----------------------------------------------------------------------------
(* addGroupUser: ensureTenantUserExists, then the membership *)

StartAddToGroup(q, t, g, s, idp, u) ==
    /\ Free(q)
    /\ Manageable(t)
    /\ groupTenant[g] = t
    /\ IF Unknown(t, s)
       THEN u = NoRow
       ELSE /\ u # NoRow
            /\ RowOf(u, t, s)
            /\ Active(u) \/ ~\E v \in TenantUserIds : RowOf(v, t, s) /\ Active(v)
    /\ Becomes(q, [op |-> "addToGroup",
                   at |-> IF u = NoRow THEN "insert"
                          ELSE IF Active(u) THEN "member" ELSE "restore",
                   tenant |-> t, tenantUser |-> u, sso |-> s, idp |-> idp,
                   group |-> g, roles |-> {ServiceUser},
                   existing |-> {}, plan |-> NoPlan, memberPlan |-> NoPlan])

MemberFoundRestored(q) == FoundRestored(q, "addToGroup", {ServiceUser})

\* checkIfUserExistsInGroup, then findSoftDeletedGroupUser.
ReadMember(q) ==
    /\ At(q, "addToGroup", "member")
    /\ ~IsMember(request[q].tenantUser, request[q].group)
    /\ Advance(q, "wasMember")

ReadDeletedMember(q) ==
    /\ At(q, "addToGroup", "wasMember")
    /\ Becomes(q, [request[q] EXCEPT
           !.at = "write",
           !.memberPlan = MemberPlan(groupRow[request[q].tenantUser], request[q].group)])

WriteUserAndMember(q, u) ==
    /\ SavesTenantUser(q, "addToGroup", u)
    /\ LET s == request[q].sso
           idp == StoredIdp(s, request[q].idp)
           plan == RolePlan(roleRow[u], idp, {ServiceUser})
       IN /\ idpType' = [idpType EXCEPT ![s] = idp]
          /\ SaveTenantUser(u, request[q].tenant, s)
          /\ Saves(plan)
          /\ SaveRoles(u, plan)
    /\ ~IsMember(u, request[q].group)
    /\ SaveMembers(u, MemberPlan(groupRow[u], request[q].group))
    /\ Finish(q)
    /\ UNCHANGED <<createdBy, groupTenant>>

-----------------------------------------------------------------------------
(* createGroup with a first member.  Without one it reads nothing that could *)
(* change under it; nor does removeGroupUser, nor createTenant.              *)

StartCreateGroup(q, t, g, w) ==
    /\ Free(q)
    /\ Manageable(t)
    /\ groupTenant[g] = NoRow
    /\ Active(w)
    /\ Becomes(q, [op |-> "createGroup", at |-> "write",
                   tenant |-> t, group |-> g, tenantUser |-> w])

WriteCreateGroup(q) ==
    /\ At(q, "createGroup", "write")
    /\ groupTenant[request[q].group] = NoRow
    /\ groupTenant' = [groupTenant EXCEPT ![request[q].group] = request[q].tenant]
    /\ SaveMembers(request[q].tenantUser, [restore |-> {}, create |-> {request[q].group}])
    /\ Finish(q)
    /\ UNCHANGED <<idpType, createdBy, tenantUser, roleRow>>

-----------------------------------------------------------------------------

CInit == Init /\ request = [q \in Requests |-> Idle]

Start(q) ==
    \E t \in Tenants :
        \/ \E u \in TenantUserIds, asked \in RoleIdsInBody : StartAssign(q, t, u, asked)
        \/ \E u \in TenantUserIds, r \in Roles : StartUnassign(q, t, u, r)
        \/ \E u \in TenantUserIds : StartRemove(q, t, u)
        \/ \E s \in Users, idp \in IdpTypes, groups \in SUBSET Groups,
              u \in TenantUserIds \union {NoRow} :
            \E asked \in RolesInBody(idp) : StartAdd(q, t, s, idp, asked, groups, u)
        \/ \E g \in Groups, s \in Users, idp \in IdpTypes, u \in TenantUserIds \union {NoRow} :
            StartAddToGroup(q, t, g, s, idp, u)
        \/ \E g \in Groups, w \in TenantUserIds : StartCreateGroup(q, t, g, w)

Continue(q) ==
    \/ ReadExistingRoles(q)
    \/ ReadDeletedRoles(q)
    \/ WriteAssign(q)
    \/ CountOtherOwners(q)
    \/ CountRoles(q)
    \/ WriteUnassign(q)
    \/ CountActiveOwners(q)
    \/ SweepRoles(q)
    \/ SweepTenantUser(q)
    \/ SweepMemberships(q)
    \/ CommitRemoval(q)
    \/ \E u \in TenantUserIds : WriteAdd(q, u)
    \/ AddFoundRestored(q)
    \/ ReadMemberships(q)
    \/ ReadDeletedMemberships(q)
    \/ WriteRolesAndMembers(q, "add")
    \/ MemberFoundRestored(q)
    \/ ReadMember(q)
    \/ ReadDeletedMember(q)
    \/ WriteRolesAndMembers(q, "addToGroup")
    \/ \E u \in TenantUserIds : WriteUserAndMember(q, u)
    \/ WriteCreateGroup(q)
    \/ Abort(q)

\* The handlers that decide and write in one statement.
AtOnce ==
    /\ \/ \E t \in Tenants, s \in Users, idp \in IdpTypes, u \in TenantUserIds :
            CreateTenant(t, s, idp, u)
       \/ \E t \in Tenants, g \in Groups : CreateGroup(t, g, NoRow)
       \/ \E t \in Tenants, g \in Groups, u \in TenantUserIds, k \in Copies :
            ~MemberLocked(u, g, k) /\ RemoveGroupUser(t, g, u, k)
    /\ UNCHANGED request

CNext == AtOnce \/ \E q \in Requests : Start(q) \/ Continue(q)

CSpec == CInit /\ [][CNext]_cvars
=============================================================================
