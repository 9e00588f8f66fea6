--------------------------- MODULE TenantQueries ---------------------------
(***************************************************************************)
(* What the API answers about tenants, users, roles and groups.  Each read *)
(* has its own query with its own joins and is_deleted conditions; a left  *)
(* join whose table has a condition in WHERE drops rows that have nothing  *)
(* to join.  The properties relate the answers of different queries to one *)
(* another: a client lists with one and opens with another.                *)
(***************************************************************************)
EXTENDS TenantUsers

\* checkUserTenantAccess: no required role means any active user.
UserTenantAccess(t, s, required) ==
    \E u \in TenantUserIds :
        /\ RowOf(u, t, s)
        /\ Active(u)
        /\ required # {} => \E r \in required : HasRole(u, r)

\* getUserTenantAccessWithRoles asks the same with the roles in its answer, of a
\* user whose join has found an active one.
AccessWithRoles(t, s, required) ==
    \E u \in TenantUserIds :
        /\ RowOf(u, t, s)
        /\ Active(u)
        /\ \E r \in Roles : HasRole(u, r)
        /\ required = {} \/ \E r \in required : HasRole(u, r)

\* getTenantsForUser; with the roles expanded, the users without an active role
\* are dropped, and with them the tenants where there is no other.
TenantsForUser(s) ==
    {t \in Tenants : \E u \in TenantUserIds : RowOf(u, t, s) /\ Active(u)}
TenantsForUserWithRoles(s) ==
    {t \in TenantsForUser(s) : \E u \in TenantUserIds, r \in Roles :
        InTenant(u, t) /\ Active(u) /\ HasRole(u, r)}

\* getTenant with users, and getUsersForTenant without filters.
UsersOf(t) == {u \in TenantUserIds : InTenant(u, t) /\ Active(u)}

\* getUsersForTenant by groups.
UsersInGroups(t, groups) == {u \in UsersOf(t) : \E g \in groups : IsMember(u, g)}

\* getTenantUser finds the user when asked for the roles, too: its join then
\* needs an active one.
OpensWithRoles(t, u) == u \in UsersOf(t) /\ \E r \in Roles : HasRole(u, r)

\* getTenant drops deleted role rows after the query; getRolesForUser and
\* getRolesForSSOUser join by the id of the row and by the id of the user.
RolesListed(u) == {r \in Roles : HasRole(u, r)}
RolesForUser(u) == {r \in Roles : Active(u) /\ HasRole(u, r)}
RolesForSSOUser(t, s) ==
    {r \in Roles : \E u \in TenantUserIds : RowOf(u, t, s) /\ Active(u) /\ HasRole(u, r)}

\* getGroup: the active members, each with the tenant user if that is active.
MembersOf(g) == {u \in TenantUserIds : IsMember(u, g)}
MemberUser(u) == IF Active(u) THEN u ELSE NoRow

-----------------------------------------------------------------------------
(* Properties. *)

\* A user who is listed can be opened, with the roles listed; the same user
\* passes the access check for these roles and no others; the user's tenants
\* are those the access check admits to, and expanding roles hides none.  Every
\* member a group lists comes with a user, and the members of a group who are of
\* its tenant are the users listed by that group.
ReadsAgree ==
    /\ \A t \in Tenants, u \in TenantUserIds : u \in UsersOf(t) =>
        /\ OpensWithRoles(t, u)
        /\ RolesListed(u) = RolesForUser(u)
        /\ RolesListed(u) = RolesForSSOUser(t, tenantUser[u].sso)
        /\ \A r \in Roles :
            UserTenantAccess(t, tenantUser[u].sso, {r}) <=> r \in RolesListed(u)
    /\ \A t \in Tenants, s \in Users, required \in SUBSET Roles :
        AccessWithRoles(t, s, required) <=> UserTenantAccess(t, s, required)
    /\ \A s \in Users :
        /\ TenantsForUser(s) = {t \in Tenants : UserTenantAccess(t, s, {})}
        /\ TenantsForUserWithRoles(s) = TenantsForUser(s)
    /\ \A g \in Groups : groupTenant[g] # NoRow =>
        /\ \A u \in MembersOf(g) : MemberUser(u) = u
        /\ UsersInGroups(groupTenant[g], {g}) =
               {u \in MembersOf(g) : InTenant(u, groupTenant[g])}
=============================================================================
