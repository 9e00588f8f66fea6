--------------------------- MODULE EffectiveRoles ---------------------------
(***************************************************************************)
(* What a connected service is told of a user: the composition of          *)
(* GroupServiceRoles (services, their roles, assignments to groups) with   *)
(* TenantUsers (who is in which tenant and group).  The two share the      *)
(* table Group.                                                            *)
(*                                                                         *)
(* The answer is made by two queries that are not in a transaction: one    *)
(* finds the tenant user, one joins memberships, assignments, roles,       *)
(* services and associations by the id it found.                           *)
(***************************************************************************)
EXTENDS GroupServiceRoles

CONSTANTS Users, TenantUserIds, Roles, Copies  \* of TenantUsers

VARIABLES
    idpType, createdBy, tenantUser, roleRow, groupRow,  \* of TenantUsers
    query   \* a request of a connected service between its two queries

TU == INSTANCE TenantUsers

\* service: the one whose client identifier is the audience of the token;
\* idp: the identity provider of the token, not the one on record.
Query == [tenantUser : TenantUserIds, tenant : Tenants, sso : Users,
          service : Services, idp : Idps]

\* What TenantUsers assumes of its constants: TLC does not evaluate the
\* assumptions of an instance.
ASSUME UsersAssumptions ==
    /\ {TU!ServiceUser, TU!TenantOwner} \subseteq Roles
    /\ Copies # {}
    /\ NoRow \notin Users \union TenantUserIds \union TU!IdpTypes \union TU!TenantUserRow

users == <<idpType, createdBy, tenantUser, roleRow, groupRow>>
evars == <<gtables, users, query>>

-----------------------------------------------------------------------------
(* The queries. *)

AllowedFor(r, idp) == role[r].idps = {} \/ idp \in role[r].idps

\* What the joins of getEffectiveSharedServiceRoles and of
\* getUserGroupsWithSharedServiceRoles find: a role of this service by a group.
\* Neither asks of which tenant the group is.
JoinedIgnoresStatus(q, g, r) ==
    /\ TU!IsMember(q.tenantUser, g)
    /\ Assigned(g, r)
    /\ role[r] # NoRow
    /\ role[r].service = q.service
    /\ AssociatedWith(q.tenant, r)
    /\ AllowedFor(r, q.idp)
Joined(q, g, r) ==
    /\ TU!IsMember(q.tenantUser, g)
    /\ Assigned(g, r)
    /\ role[r] # NoRow
    /\ role[r].service = q.service
    /\ IsActive(q.service)
    /\ AssociatedWith(q.tenant, r)
    /\ AllowedFor(r, q.idp)

\* By role, with the groups it comes from; by group, with the roles it gives.
EffectiveSharedServiceRoles(q) ==
    [r \in {x \in RoleIds : \E g \in Groups : Joined(q, g, x)} |->
        {g \in Groups : Joined(q, g, r)}]
UserGroupsWithSharedServiceRoles(q) ==
    [g \in {h \in Groups : \E r \in RoleIds : Joined(q, h, r)} |->
        {r \in RoleIds : Joined(q, g, r)}]

\* The lists a service can ask for: getTenantGroups gives it the groups that
\* have a role of it, getUsersForTenant the users who have one of these roles
\* through a group.
TenantGroupsAnyStatus(t, s) ==
    {g \in Groups : /\ groupTenant[g] = t
                    /\ <<t, s>> \in association
                    /\ \E r \in RolesOf(s) : Assigned(g, r)}
TenantGroups(t, s) ==
    {g \in Groups : /\ groupTenant[g] = t
                    /\ <<t, s>> \in association
                    /\ IsActive(s)
                    /\ \E r \in RolesOf(s) : Assigned(g, r)}
UsersWithSharedServiceRoles(t, roles) ==
    {u \in TenantUserIds :
        /\ TU!InTenant(u, t) /\ TU!Active(u)
        /\ \E g \in Groups, r \in roles : TU!IsMember(u, g) /\ Assigned(g, r)}

\* getTenantUser, for the page of a user: the user's groups, and the roles of
\* any service through them, whether the service is active or not.
GroupsOfUser(u) == {g \in Groups : TU!IsMember(u, g)}
SharedServiceRolesOfUser(u) ==
    {r \in RoleIds : role[r] # NoRow /\ \E g \in GroupsOfUser(u) : Assigned(g, r)}

\* checkIfTenantHasSharedServiceAccess: who the token was issued for gets in.
TenantHasSharedServiceAccess(t, s) == IsActive(s) /\ <<t, s>> \in association

-----------------------------------------------------------------------------
(* Steps. *)

EInit ==
    /\ GInit
    /\ TU!Init
    /\ query = NoRow

\* getTenantUserBySsoId finds an active user of the tenant, or the answer is 404.
FindTenantUser(q) ==
    /\ query = NoRow
    /\ Exists(q.service)
    /\ TU!RowOf(q.tenantUser, q.tenant, q.sso)
    /\ TU!Active(q.tenantUser)
    /\ query' = q
    /\ UNCHANGED <<gtables, users>>

Answer ==
    /\ query # NoRow
    /\ query' = NoRow
    /\ UNCHANGED <<gtables, users>>

\* The roles of a service and their assignment, by their handlers; a service
\* is associated with a tenant that exists.
ServiceStep ==
    /\ \/ /\ Next
          /\ \A x \in association' : TU!TenantExists(x[1])
          /\ UNCHANGED <<groupTenant, assignment>>
       \/ \E t \in Tenants, g \in Groups, asked \in SUBSET (RoleIds \X BOOLEAN) :
            /\ TU!Manageable(t)
            /\ UpdateSharedServiceRolesForGroup(t, g, asked)
    /\ UNCHANGED <<users, query>>

\* Users and groups, by theirs.
UserStep == TU!Next /\ UNCHANGED <<tables, assignment, query>>

ENext ==
    \/ \E q \in Query : FindTenantUser(q)
    \/ Answer
    \/ ServiceStep
    \/ UserStep

ESpec == EInit /\ [][ENext]_evars

-----------------------------------------------------------------------------
(* Properties. *)

\* "A user's effective access for a connected service comes from the groups
\* they belong to and the connected-service roles assigned to those groups."
Entitled(q, r) ==
    /\ IsActive(q.service)
    /\ <<q.tenant, q.service>> \in association
    /\ role[r] # NoRow /\ role[r].service = q.service /\ AllowedFor(r, q.idp)
    /\ \E u \in TenantUserIds, g \in Groups :
        /\ TU!RowOf(u, q.tenant, q.sso) /\ TU!Active(u)
        /\ TU!IsMember(u, g) /\ Assigned(g, r)

\* What the second query returns is what the user is entitled to when it runs:
\* a user removed, or removed and added again, since the first query is not
\* told what the user had before, because a removal takes the memberships.
AnswerIsCurrent ==
    query # NoRow =>
        DOMAIN EffectiveSharedServiceRoles(query) = {r \in RoleIds : Entitled(query, r)}

\* The page on which a tenant assigns roles to a group and the answer given to
\* a service, which are queries of their own, agree: of a group of the tenant, a
\* member has the roles shown as enabled that the service defines and the
\* identity provider may have.
ShownRolesAreEffective ==
    query # NoRow =>
        \A g \in Groups : groupTenant[g] = query.tenant /\ TU!IsMember(query.tenantUser, g) =>
            {r \in RoleIds : Joined(query, g, r)} =
                {r \in ShownEnabled(query.tenant, g) :
                    role[r].service = query.service /\ AllowedFor(r, query.idp)}

\* The lists and the answer agree: a service gets no groups of a tenant it has
\* no access to, and of one it has access to it finds the user among the users
\* listed by a role exactly if the answer has the role, and the user's own page
\* shows the role, identity provider aside.
ListsAgreeWithAnswer ==
    query # NoRow =>
        /\ TenantGroups(query.tenant, query.service) # {} =>
               TenantHasSharedServiceAccess(query.tenant, query.service)
        /\ TenantHasSharedServiceAccess(query.tenant, query.service) =>
               \A r \in RolesOf(query.service) : AllowedFor(r, query.idp) =>
                   /\ r \in DOMAIN EffectiveSharedServiceRoles(query)
                      <=> \E u \in UsersWithSharedServiceRoles(query.tenant, {r}) :
                             tenantUser[u].sso = query.sso
                   /\ r \in DOMAIN EffectiveSharedServiceRoles(query)
                      <=> r \in SharedServiceRolesOfUser(query.tenantUser)
        /\ DOMAIN UserGroupsWithSharedServiceRoles(query)
               \subseteq GroupsOfUser(query.tenantUser)

\* "Tenants are used to keep users, groups, and role assignments separate from
\* other tenants": the roles a user has in a tenant come from its groups.
RolesThroughOwnGroups ==
    query # NoRow =>
        \A g \in DOMAIN UserGroupsWithSharedServiceRoles(query) :
            groupTenant[g] = query.tenant
=============================================================================
