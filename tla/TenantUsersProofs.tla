------------------------- MODULE TenantUsersProofs -------------------------
(***************************************************************************)
(* Theorems about the users of tenants, for every choice of the constants  *)
(* that satisfies the assumptions of TenantUsers.                          *)
(*                                                                         *)
(* First about TenantUsers, whose handlers run alone, and about what       *)
(* TenantQueries answers of its tables.                                    *)
(*                                                                         *)
(* Then about TenantUsersOverlap: what any number of requests in flight    *)
(* can and cannot do to each other.                                        *)
(***************************************************************************)
EXTENDS TenantUsersOverlap, TenantQueries, TLAPS

-----------------------------------------------------------------------------
(* What the writes do to the rows of one tenant user. *)

\* Applying a plan keeps a table of rows a table of rows.
LEMMA ApplyPlanType ==
    ASSUME NEW X, NEW rows \in [X -> [Copies -> Statuses]], NEW plan
    PROVE  ApplyPlan(rows, plan) \in [X -> [Copies -> Statuses]]
BY DEF ApplyPlan, Statuses

\* Applying a plan never takes an active row away.
LEMMA ApplyPlanKeepsActive ==
    ASSUME NEW X, NEW rows \in [X -> [Copies -> Statuses]], NEW plan,
           NEW x \in X, Has(rows[x], "active")
    PROVE  Has(ApplyPlan(rows, plan)[x], "active")
BY DEF ApplyPlan, Has

\* Soft deletion keeps a table of rows a table of rows.
LEMMA SoftDeleteType ==
    ASSUME NEW rows \in [Copies -> Statuses]
    PROVE  SoftDelete(rows) \in [Copies -> Statuses]
BY DEF SoftDelete, Statuses

LEMMA SoftDeleteAllType ==
    ASSUME NEW X, NEW table \in [X -> [Copies -> Statuses]]
    PROVE  SoftDeleteAll(table) \in [X -> [Copies -> Statuses]]
BY SoftDeleteType DEF SoftDeleteAll

\* Soft deletion leaves no active row.
LEMMA SoftDeleteSweeps ==
    ASSUME NEW rows \in [Copies -> Statuses]
    PROVE  ~Has(SoftDelete(rows), "active")
BY DEF SoftDelete, Has

-----------------------------------------------------------------------------
(* Type correctness. *)

LEMMA InitTypeOK == Init => TypeOK
BY DEF Init, TypeOK, Statuses

\* A write of role rows, of member rows or of a tenant user row is well typed.
LEMMA SaveRolesType ==
    ASSUME TypeOK, NEW u \in TenantUserIds, NEW plan, SaveRoles(u, plan)
    PROVE  roleRow' \in [TenantUserIds -> [Roles -> [Copies -> Statuses]]]
BY ApplyPlanType DEF TypeOK, SaveRoles

LEMMA SaveMembersType ==
    ASSUME TypeOK, NEW u \in TenantUserIds, NEW plan, SaveMembers(u, plan)
    PROVE  groupRow' \in [TenantUserIds -> [Groups -> [Copies -> Statuses]]]
BY ApplyPlanType DEF TypeOK, SaveMembers

LEMMA SaveTenantUserType ==
    ASSUME TypeOK, NEW u \in TenantUserIds, NEW t \in Tenants, NEW s \in Users,
           SaveTenantUser(u, t, s)
    PROVE  tenantUser' \in [TenantUserIds -> TenantUserRow \union {NoRow}]
BY DEF TypeOK, SaveTenantUser, TenantUserRow

LEMMA StoredIdpType ==
    ASSUME TypeOK, NEW s \in Users, NEW idp \in IdpTypes
    PROVE  StoredIdp(s, idp) \in IdpTypes
BY DEF TypeOK, StoredIdp

LEMMA NextTypeOK == TypeOK /\ [Next]_vars => TypeOK'
<1> SUFFICES ASSUME TypeOK, [Next]_vars PROVE TypeOK'
  OBVIOUS
<1>1. ASSUME NEW t \in Tenants, NEW s \in Users, NEW idp \in IdpTypes,
             NEW u \in TenantUserIds, CreateTenant(t, s, idp, u)
      PROVE  TypeOK'
  BY <1>1, SaveTenantUserType, SaveRolesType, StoredIdpType DEF CreateTenant, TypeOK
<1>2. ASSUME NEW t \in Tenants, NEW s \in Users, NEW idp \in IdpTypes,
             NEW asked \in SUBSET Roles, NEW groups \in SUBSET Groups,
             NEW u \in TenantUserIds, AddTenantUser(t, s, idp, asked, groups, u)
      PROVE  TypeOK'
  BY <1>2, SaveTenantUserType, SaveRolesType, SaveMembersType, StoredIdpType
     DEF AddTenantUser, TypeOK
<1>3. ASSUME NEW t \in Tenants, NEW u \in TenantUserIds,
             NEW asked \in SUBSET Roles, AssignUserRoles(t, u, asked)
      PROVE  TypeOK'
  BY <1>3, SaveRolesType DEF AssignUserRoles, TypeOK
<1>4. ASSUME NEW t \in Tenants, NEW u \in TenantUserIds, NEW r \in Roles,
             UnassignUserRoles(t, u, r)
      PROVE  TypeOK'
  BY <1>4, SoftDeleteType DEF UnassignUserRoles, TypeOK
<1>5. ASSUME NEW t \in Tenants, NEW u \in TenantUserIds, RemoveTenantUser(t, u)
      PROVE  TypeOK'
  <2>1. tenantUser' \in [TenantUserIds -> TenantUserRow \union {NoRow}]
    BY <1>5 DEF RemoveTenantUser, SweepUser, TypeOK, Active, Exists, TenantUserRow
  <2>2. roleRow' \in [TenantUserIds -> [Roles -> [Copies -> Statuses]]]
    BY <1>5, SoftDeleteAllType DEF RemoveTenantUser, SweepUser, TypeOK
  <2>3. groupRow' \in [TenantUserIds -> [Groups -> [Copies -> Statuses]]]
    BY <1>5, SoftDeleteAllType DEF RemoveTenantUser, SweepUser, TypeOK
  <2>4. UNCHANGED <<idpType, createdBy, groupTenant>>
    BY <1>5 DEF RemoveTenantUser
  <2> QED
    BY <2>1, <2>2, <2>3, <2>4 DEF TypeOK
<1>6. ASSUME NEW t \in Tenants, NEW g \in Groups, NEW s \in Users,
             NEW idp \in IdpTypes, NEW u \in TenantUserIds,
             AddGroupUser(t, g, s, idp, u)
      PROVE  TypeOK'
  <2>1. groupRow' \in [TenantUserIds -> [Groups -> [Copies -> Statuses]]]
    BY <1>6, SaveMembersType DEF AddGroupUser
  <2>2. roleRow' \in [TenantUserIds -> [Roles -> [Copies -> Statuses]]]
    BY <1>6, SaveRolesType DEF AddGroupUser, TypeOK
  <2>3. tenantUser' \in [TenantUserIds -> TenantUserRow \union {NoRow}]
    BY <1>6, SaveTenantUserType DEF AddGroupUser, TypeOK
  <2>4. idpType' \in [Users -> IdpTypes \union {NoRow}]
    BY <1>6, StoredIdpType DEF AddGroupUser, TypeOK
  <2>5. UNCHANGED <<createdBy, groupTenant>>
    BY <1>6 DEF AddGroupUser
  <2> QED
    BY <2>1, <2>2, <2>3, <2>4, <2>5 DEF TypeOK
<1>7. ASSUME NEW t \in Tenants, NEW g \in Groups,
             NEW w \in TenantUserIds \union {NoRow}, CreateGroup(t, g, w)
      PROVE  TypeOK'
  BY <1>7, SaveMembersType DEF CreateGroup, TypeOK
<1>8. ASSUME NEW t \in Tenants, NEW g \in Groups, NEW u \in TenantUserIds,
             NEW k \in Copies, RemoveGroupUser(t, g, u, k)
      PROVE  TypeOK'
  BY <1>8 DEF RemoveGroupUser, TypeOK, Statuses
<1>9. CASE UNCHANGED vars
  BY <1>9 DEF vars, TypeOK
<1> QED
  BY <1>1, <1>2, <1>3, <1>4, <1>5, <1>6, <1>7, <1>8, <1>9
  DEF Next, RolesInBody, RoleIdsInBody, FirstMembers

\* Every table keeps its row type, whatever requests are handled.
THEOREM TypeCorrect == Spec => []TypeOK
<1>1. QED
  BY InitTypeOK, NextTypeOK, PTL DEF Spec

-----------------------------------------------------------------------------
(* One tenant user per request. *)

\* The rows of every tenant user but u stay as they are.
OthersUnchanged(u) ==
    \A v \in TenantUserIds \ {u} :
        /\ tenantUser'[v] = tenantUser[v]
        /\ roleRow'[v] = roleRow[v]
        /\ groupRow'[v] = groupRow[v]

LEMMA CreateTenantOthers ==
    ASSUME TypeOK, NEW t, NEW s, NEW idp, NEW u \in TenantUserIds,
           CreateTenant(t, s, idp, u)
    PROVE  OthersUnchanged(u)
BY DEF TypeOK, CreateTenant, SaveTenantUser, SaveRoles, OthersUnchanged

LEMMA AddTenantUserOthers ==
    ASSUME TypeOK, NEW t, NEW s, NEW idp, NEW asked, NEW groups,
           NEW u \in TenantUserIds, AddTenantUser(t, s, idp, asked, groups, u)
    PROVE  OthersUnchanged(u)
BY DEF TypeOK, AddTenantUser, SaveTenantUser, SaveRoles, SaveMembers, OthersUnchanged

LEMMA AssignUserRolesOthers ==
    ASSUME TypeOK, NEW t, NEW u \in TenantUserIds, NEW asked,
           AssignUserRoles(t, u, asked)
    PROVE  OthersUnchanged(u)
BY DEF TypeOK, AssignUserRoles, SaveRoles, OthersUnchanged

LEMMA UnassignUserRolesOthers ==
    ASSUME TypeOK, NEW t, NEW u \in TenantUserIds, NEW r,
           UnassignUserRoles(t, u, r)
    PROVE  OthersUnchanged(u)
BY DEF TypeOK, UnassignUserRoles, OthersUnchanged

LEMMA RemoveTenantUserOthers ==
    ASSUME TypeOK, NEW t, NEW u \in TenantUserIds, RemoveTenantUser(t, u)
    PROVE  OthersUnchanged(u)
BY Zenon DEF TypeOK, RemoveTenantUser, SweepUser, OthersUnchanged

LEMMA AddGroupUserOthers ==
    ASSUME TypeOK, NEW t, NEW g, NEW s, NEW idp, NEW u \in TenantUserIds,
           AddGroupUser(t, g, s, idp, u)
    PROVE  OthersUnchanged(u)
BY DEF TypeOK, AddGroupUser, SaveTenantUser, SaveRoles, SaveMembers, OthersUnchanged

LEMMA CreateGroupOthers ==
    ASSUME TypeOK, NEW t, NEW g, NEW w \in TenantUserIds \union {NoRow},
           CreateGroup(t, g, w)
    PROVE  OthersUnchanged(w)
BY DEF TypeOK, CreateGroup, SaveMembers, OthersUnchanged

LEMMA RemoveGroupUserOthers ==
    ASSUME TypeOK, NEW t, NEW g, NEW u \in TenantUserIds, NEW k,
           RemoveGroupUser(t, g, u, k)
    PROVE  OthersUnchanged(u)
BY DEF TypeOK, RemoveGroupUser, OthersUnchanged

\* Whatever request a step handles, it leaves all tenant users but one alone.
LEMMA NextOthers ==
    ASSUME TypeOK, [Next]_vars
    PROVE  \E u : OthersUnchanged(u)
<1>1. CASE UNCHANGED vars
  BY <1>1 DEF vars, OthersUnchanged
<1>2. CASE Next
  BY <1>2, CreateTenantOthers, AddTenantUserOthers, AssignUserRolesOthers,
     UnassignUserRolesOthers, RemoveTenantUserOthers, AddGroupUserOthers,
     CreateGroupOthers, RemoveGroupUserOthers
     DEF Next, RolesInBody, RoleIdsInBody, FirstMembers
<1> QED
  BY <1>1, <1>2

\* No request changes the rows of two tenant users.
THEOREM OneUserChanges == Spec => OneUserPerRequest
<1> DEFINE OneUser == \A u, v \in TenantUserIds :
             RowsOf(u)' # RowsOf(u) /\ RowsOf(v)' # RowsOf(v) => u = v
<1>1. TypeOK /\ [Next]_vars => [OneUser]_vars
  <2> SUFFICES ASSUME TypeOK, [Next]_vars PROVE OneUser
    OBVIOUS
  <2>1. PICK w : OthersUnchanged(w)
    BY NextOthers
  <2> QED
    BY <2>1 DEF OthersUnchanged, RowsOf
<1> QED
  BY <1>1, TypeCorrect, PTL DEF Spec, OneUserPerRequest

-----------------------------------------------------------------------------
(* A removed user holds nothing. *)

HoldsNothing(u) ==
    /\ \A r \in Roles : ~HasRole(u, r)
    /\ \A g \in Groups : ~IsMember(u, g)

\* A step that leaves the one user it touches active, or with nothing, keeps
\* the invariant.
LEMMA RemovedFrame ==
    ASSUME RemovedUserHasNothing, NEW u, OthersUnchanged(u),
           u \in TenantUserIds => Active(u)' \/ HoldsNothing(u)'
    PROVE  RemovedUserHasNothing'
BY DEF RemovedUserHasNothing, OthersUnchanged, HoldsNothing, HasRole, IsMember,
       Has, Active, Exists

\* A saved tenant user row is an active one.
LEMMA SaveTenantUserActive ==
    ASSUME TypeOK, NEW u \in TenantUserIds, NEW t \in Tenants, NEW s \in Users,
           SaveTenantUser(u, t, s)
    PROVE  /\ Active(u)'
           /\ tenantUser'[u] = [tenant |-> t, sso |-> s, isDeleted |-> FALSE]
<1>1. tenantUser'[u] = [tenant |-> t, sso |-> s, isDeleted |-> FALSE]
  BY DEF TypeOK, SaveTenantUser
<1>2. [tenant |-> t, sso |-> s, isDeleted |-> FALSE] \in TenantUserRow
  BY DEF TenantUserRow
<1>3. tenantUser'[u] # NoRow
  BY <1>1, <1>2, NoRowAssumption
<1> QED
  BY <1>1, <1>3 DEF Active, Exists

\* removeTenantUser and removeUserFromAllGroups leave the user with nothing.
LEMMA SweepUserSweeps ==
    ASSUME TypeOK, NEW u \in TenantUserIds, SweepUser(u)
    PROVE  HoldsNothing(u)'
<1>1. \A r \in Roles : roleRow'[u][r] = SoftDelete(roleRow[u][r])
  BY DEF TypeOK, SweepUser, SoftDeleteAll
<1>2. \A g \in Groups : groupRow'[u][g] = SoftDelete(groupRow[u][g])
  BY DEF TypeOK, SweepUser, SoftDeleteAll
<1> QED
  BY <1>1, <1>2, SoftDeleteSweeps DEF TypeOK, HoldsNothing, HasRole, IsMember

LEMMA NextRemoved ==
    ASSUME TypeOK, RemovedUserHasNothing, [Next]_vars
    PROVE  RemovedUserHasNothing'
<1>1. ASSUME NEW t \in Tenants, NEW s \in Users, NEW idp \in IdpTypes,
             NEW u \in TenantUserIds, CreateTenant(t, s, idp, u)
      PROVE  RemovedUserHasNothing'
  BY <1>1, CreateTenantOthers, SaveTenantUserActive, RemovedFrame DEF CreateTenant
<1>2. ASSUME NEW t \in Tenants, NEW s \in Users, NEW idp \in IdpTypes,
             NEW asked \in SUBSET Roles, NEW groups \in SUBSET Groups,
             NEW u \in TenantUserIds, AddTenantUser(t, s, idp, asked, groups, u)
      PROVE  RemovedUserHasNothing'
  BY <1>2, AddTenantUserOthers, SaveTenantUserActive, RemovedFrame DEF AddTenantUser
<1>3. ASSUME NEW t \in Tenants, NEW u \in TenantUserIds,
             NEW asked \in SUBSET Roles, AssignUserRoles(t, u, asked)
      PROVE  RemovedUserHasNothing'
  BY <1>3, AssignUserRolesOthers, RemovedFrame DEF AssignUserRoles, Active, Exists
<1>4. ASSUME NEW t \in Tenants, NEW u \in TenantUserIds, NEW r \in Roles,
             UnassignUserRoles(t, u, r)
      PROVE  RemovedUserHasNothing'
  <2>1. Active(u)
    BY <1>4 DEF UnassignUserRoles, RemovedUserHasNothing
  <2> QED
    BY <1>4, <2>1, UnassignUserRolesOthers, RemovedFrame
       DEF UnassignUserRoles, Active, Exists
<1>5. ASSUME NEW t \in Tenants, NEW u \in TenantUserIds, RemoveTenantUser(t, u)
      PROVE  RemovedUserHasNothing'
  BY <1>5, RemoveTenantUserOthers, SweepUserSweeps, RemovedFrame DEF RemoveTenantUser
<1>6. ASSUME NEW t \in Tenants, NEW g \in Groups, NEW s \in Users,
             NEW idp \in IdpTypes, NEW u \in TenantUserIds,
             AddGroupUser(t, g, s, idp, u)
      PROVE  RemovedUserHasNothing'
  <2>1. Active(u)'
    <3>1. CASE \E v \in TenantUserIds : RowOf(v, t, s) /\ Active(v)
      BY <1>6, <3>1 DEF AddGroupUser, Active, Exists
    <3>2. CASE ~\E v \in TenantUserIds : RowOf(v, t, s) /\ Active(v)
      BY <1>6, <3>2, SaveTenantUserActive DEF AddGroupUser
    <3> QED
      BY <3>1, <3>2
  <2> QED
    BY <1>6, <2>1, AddGroupUserOthers, RemovedFrame
<1>7. ASSUME NEW t \in Tenants, NEW g \in Groups,
             NEW w \in TenantUserIds \union {NoRow}, CreateGroup(t, g, w)
      PROVE  RemovedUserHasNothing'
  <2>1. w \in TenantUserIds => Active(w)'
    BY <1>7, NoRowAssumption DEF CreateGroup, Active, Exists
  <2> QED
    BY <1>7, <2>1, CreateGroupOthers, RemovedFrame
<1>8. ASSUME NEW t \in Tenants, NEW g \in Groups, NEW u \in TenantUserIds,
             NEW k \in Copies, RemoveGroupUser(t, g, u, k)
      PROVE  RemovedUserHasNothing'
  <2>1. Active(u)
    BY <1>8 DEF RemoveGroupUser, RemovedUserHasNothing, IsMember, Has
  <2> QED
    BY <1>8, <2>1, RemoveGroupUserOthers, RemovedFrame DEF RemoveGroupUser, Active, Exists
<1>9. CASE UNCHANGED vars
  BY <1>9 DEF vars, RemovedUserHasNothing, HasRole, IsMember, Has, Active, Exists
<1> QED
  BY <1>1, <1>2, <1>3, <1>4, <1>5, <1>6, <1>7, <1>8, <1>9
  DEF Next, RolesInBody, RoleIdsInBody, FirstMembers

\* A user removed from a tenant keeps no role and no group membership, and no
\* later request hands one to the removed user.
THEOREM RemovedHasNothing == Spec => []RemovedUserHasNothing
<1>1. Init => RemovedUserHasNothing
  BY DEF Init, RemovedUserHasNothing, HasRole, IsMember, Has
<1>2. TypeOK /\ RemovedUserHasNothing /\ [Next]_vars => RemovedUserHasNothing'
  BY NextRemoved
<1> QED
  BY <1>1, <1>2, TypeCorrect, PTL DEF Spec

-----------------------------------------------------------------------------
(* A tenant keeps an owner. *)

\* A row the plan creates is active afterwards.
LEMMA ApplyPlanCreates ==
    ASSUME NEW X, NEW rows \in [X -> [Copies -> Statuses]], NEW plan,
           NEW x \in X, x \in plan.create, Has(rows[x], "none")
    PROVE  Has(ApplyPlan(rows, plan)[x], "active")
<1>1. OneWith(rows[x], "none") \in Copies
  BY DEF Has, OneWith
<1>2. ApplyPlan(rows, plan)[x][OneWith(rows[x], "none")] = "active"
  BY <1>1 DEF ApplyPlan
<1> QED
  BY <1>1, <1>2 DEF Has

\* If the user a step touches stops being the owner of a tenant only when the
\* tenant has another, every tenant that had an owner still has one.
LEMMA OwnerFrame ==
    ASSUME TenantHasOwner, NEW u, OthersUnchanged(u), createdBy' = createdBy,
           \A t \in Tenants : OwnerOf(t, u) =>
               \/ OwnerOf(t, u)'
               \/ \E v \in TenantUserIds \ {u} : OwnerOf(t, v)
    PROVE  TenantHasOwner'
<1> SUFFICES ASSUME NEW t \in Tenants, TenantExists(t)
             PROVE  \E v \in TenantUserIds : OwnerOf(t, v)'
  BY DEF TenantHasOwner, TenantExists
<1>1. \A v \in TenantUserIds \ {u} : OwnerOf(t, v) => OwnerOf(t, v)'
  BY DEF OthersUnchanged, OwnerOf, Active, Exists, InTenant, HasRole
<1>2. PICK w \in TenantUserIds : OwnerOf(t, w)
  BY DEF TenantHasOwner
<1> QED
  BY <1>1, <1>2

LEMMA NextOwner ==
    ASSUME TypeOK, RemovedUserHasNothing, TenantHasOwner, [Next]_vars
    PROVE  TenantHasOwner'
<1>1. ASSUME NEW t \in Tenants, NEW s \in Users, NEW idp \in IdpTypes,
             NEW u \in TenantUserIds, CreateTenant(t, s, idp, u)
      PROVE  TenantHasOwner'
  <2>1. Active(u)' /\ tenantUser'[u].tenant = t
    <3>1. /\ Active(u)'
          /\ tenantUser'[u] = [tenant |-> t, sso |-> s, isDeleted |-> FALSE]
      BY <1>1, SaveTenantUserActive DEF CreateTenant
    <3> QED
      BY <3>1
  <2>2. HasRole(u, TenantOwner)'
    <3>1. roleRow'[u] = ApplyPlan(roleRow[u], [restore |-> {}, create |-> Roles])
      BY <1>1 DEF CreateTenant, SaveRoles, TypeOK
    <3>2. TenantOwner \in Roles /\ Has(roleRow[u][TenantOwner], "none")
      BY <1>1, RolesAssumption DEF CreateTenant, SaveRoles, Fits
    <3> QED
      BY <3>1, <3>2, ApplyPlanCreates DEF HasRole, TypeOK
  <2>3. OwnerOf(t, u)'
    BY <2>1, <2>2 DEF OwnerOf, InTenant, Active
  <2>4. \A v \in TenantUserIds \ {u}, x \in Tenants : OwnerOf(x, v) => OwnerOf(x, v)'
    BY <1>1, CreateTenantOthers
       DEF OthersUnchanged, OwnerOf, Active, Exists, InTenant, HasRole
  <2>5. \A x \in Tenants : ~OwnerOf(x, u)
    BY <1>1 DEF CreateTenant, OwnerOf, Active
  <2>6. \A x \in Tenants \ {t} : TenantExists(x)' => TenantExists(x)
    BY <1>1 DEF CreateTenant, TenantExists, TypeOK
  <2> QED
    BY <2>3, <2>4, <2>5, <2>6 DEF TenantHasOwner
<1>2. ASSUME NEW t \in Tenants, NEW s \in Users, NEW idp \in IdpTypes,
             NEW asked \in SUBSET Roles, NEW groups \in SUBSET Groups,
             NEW u \in TenantUserIds, AddTenantUser(t, s, idp, asked, groups, u)
      PROVE  TenantHasOwner'
  <2>1. ~Active(u)
    BY <1>2 DEF AddTenantUser, SoftDeletedTenantUser, Active
  <2> QED
    BY <1>2, <2>1, AddTenantUserOthers, OwnerFrame DEF AddTenantUser, OwnerOf
<1>3. ASSUME NEW t \in Tenants, NEW u \in TenantUserIds,
             NEW asked \in SUBSET Roles, AssignUserRoles(t, u, asked)
      PROVE  TenantHasOwner'
  <2>1. PICK plan : SaveRoles(u, plan)
    BY <1>3 DEF AssignUserRoles
  <2>2. HasRole(u, TenantOwner) => HasRole(u, TenantOwner)'
    BY <2>1, RolesAssumption, ApplyPlanKeepsActive DEF SaveRoles, HasRole, TypeOK
  <2>3. \A x \in Tenants : OwnerOf(x, u) => OwnerOf(x, u)'
    BY <1>3, <2>2 DEF AssignUserRoles, OwnerOf, Active, Exists, InTenant
  <2> QED
    BY <1>3, <2>3, AssignUserRolesOthers, OwnerFrame DEF AssignUserRoles
<1>4. ASSUME NEW t \in Tenants, NEW u \in TenantUserIds, NEW r \in Roles,
             UnassignUserRoles(t, u, r)
      PROVE  TenantHasOwner'
  <2>1. CASE r = TenantOwner
    <3>1. PICK v \in TenantUserIds \ {u} : InTenant(v, t) /\ HasRole(v, TenantOwner)
      BY <1>4, <2>1 DEF UnassignUserRoles, OtherOwnerOnRecord
    <3>2. Active(v)
      BY <3>1, RolesAssumption DEF RemovedUserHasNothing
    <3>3. \A x \in Tenants : OwnerOf(x, u) => x = t
      BY <1>4 DEF UnassignUserRoles, OwnerOf, InTenant
    <3> QED
      BY <1>4, <3>1, <3>2, <3>3, UnassignUserRolesOthers, OwnerFrame
         DEF UnassignUserRoles, OwnerOf
  <2>2. CASE r # TenantOwner
    <3>1. roleRow'[u][TenantOwner] = roleRow[u][TenantOwner]
      BY <1>4, <2>2, RolesAssumption DEF UnassignUserRoles, TypeOK
    <3>2. \A x \in Tenants : OwnerOf(x, u) => OwnerOf(x, u)'
      BY <1>4, <3>1 DEF UnassignUserRoles, OwnerOf, Active, Exists, InTenant, HasRole
    <3> QED
      BY <1>4, <3>2, UnassignUserRolesOthers, OwnerFrame DEF UnassignUserRoles
  <2> QED
    BY <2>1, <2>2
<1>5. ASSUME NEW t \in Tenants, NEW u \in TenantUserIds, RemoveTenantUser(t, u)
      PROVE  TenantHasOwner'
  <2>1. \A x \in Tenants : OwnerOf(x, u) => \E v \in TenantUserIds \ {u} : OwnerOf(x, v)
    BY <1>5 DEF RemoveTenantUser, OtherActiveOwner, OwnerOf, InTenant
  <2> QED
    BY <1>5, <2>1, RemoveTenantUserOthers, OwnerFrame DEF RemoveTenantUser
<1>6. ASSUME NEW t \in Tenants, NEW g \in Groups, NEW s \in Users,
             NEW idp \in IdpTypes, NEW u \in TenantUserIds,
             AddGroupUser(t, g, s, idp, u)
      PROVE  TenantHasOwner'
  <2>1. \A x \in Tenants : OwnerOf(x, u) => OwnerOf(x, u)'
    <3>1. CASE \E v \in TenantUserIds : RowOf(v, t, s) /\ Active(v)
      BY <1>6, <3>1 DEF AddGroupUser, OwnerOf, Active, Exists, InTenant, HasRole
    <3>2. CASE ~\E v \in TenantUserIds : RowOf(v, t, s) /\ Active(v)
      BY <1>6, <3>2 DEF AddGroupUser, OwnerOf, Active
    <3> QED
      BY <3>1, <3>2
  <2> QED
    BY <1>6, <2>1, AddGroupUserOthers, OwnerFrame DEF AddGroupUser
<1>7. ASSUME NEW t \in Tenants, NEW g \in Groups,
             NEW w \in TenantUserIds \union {NoRow}, CreateGroup(t, g, w)
      PROVE  TenantHasOwner'
  <2>1. \A x \in Tenants : OwnerOf(x, w) => OwnerOf(x, w)'
    BY <1>7 DEF CreateGroup, OwnerOf, Active, Exists, InTenant, HasRole
  <2> QED
    BY <1>7, <2>1, CreateGroupOthers, OwnerFrame DEF CreateGroup
<1>8. ASSUME NEW t \in Tenants, NEW g \in Groups, NEW u \in TenantUserIds,
             NEW k \in Copies, RemoveGroupUser(t, g, u, k)
      PROVE  TenantHasOwner'
  <2>1. \A x \in Tenants : OwnerOf(x, u) => OwnerOf(x, u)'
    BY <1>8 DEF RemoveGroupUser, OwnerOf, Active, Exists, InTenant, HasRole
  <2> QED
    BY <1>8, <2>1, RemoveGroupUserOthers, OwnerFrame DEF RemoveGroupUser
<1>9. CASE UNCHANGED vars
  BY <1>9 DEF vars, TenantHasOwner, TenantExists, OwnerOf, Active, Exists, InTenant,
              HasRole
<1> QED
  BY <1>1, <1>2, <1>3, <1>4, <1>5, <1>6, <1>7, <1>8, <1>9
  DEF Next, RolesInBody, RoleIdsInBody, FirstMembers

\* While requests are handled one at a time no tenant loses its last owner.
THEOREM TenantKeepsOwner == Spec => []TenantHasOwner
<1>1. Init => TenantHasOwner
  BY DEF Init, TenantHasOwner, TenantExists
<1>2. TypeOK /\ RemovedUserHasNothing /\ TenantHasOwner /\ [Next]_vars => TenantHasOwner'
  BY NextOwner
<1> QED
  BY <1>1, <1>2, TypeCorrect, RemovedHasNothing, PTL DEF Spec

-----------------------------------------------------------------------------
(* Plans: what they insert and what they restore. *)

\* No row with this key was ever inserted; at most one was.
Blank(rows) == \A k \in Copies : rows[k] = "none"
AtMostOneRow(rows) ==
    \A j, k \in Copies : rows[j] # "none" /\ rows[k] # "none" => j = k

\* A plan inserts only where no row is and restores only rows that are there.
SoundPlan(rows, plan) ==
    /\ \A x \in DOMAIN rows : x \in plan.create => Blank(rows[x])
    /\ \A x \in DOMAIN rows, k \in Copies :
        <<x, k>> \in plan.restore => rows[x][k] = "deleted"

\* Roles are restored or inserted soundly: what was soft-deleted is restored,
\* and what is neither active nor deleted was never inserted.
LEMMA RolePlanSound ==
    ASSUME NEW X, NEW rows \in [X -> [Copies -> Statuses]], NEW idp,
           NEW asked \in SUBSET X
    PROVE  /\ SoundPlan(rows, RolePlan(rows, idp, asked))
           /\ RolePlan(rows, idp, asked).create \subseteq X
           /\ RolePlan(rows, idp, asked).restore \subseteq X \X Copies
           /\ \A x \in X : x \in RolePlan(rows, idp, asked).create =>
                Assignable(idp, x)
           /\ \A x \in X, k \in Copies :
                <<x, k>> \in RolePlan(rows, idp, asked).restore => Assignable(idp, x)
<1>1. \A x \in X : Has(rows[x], "deleted") =>
        /\ OneWith(rows[x], "deleted") \in Copies
        /\ rows[x][OneWith(rows[x], "deleted")] = "deleted"
  BY DEF Has, OneWith
<1>2. \A x \in X : ~Has(rows[x], "deleted") /\ ~Has(rows[x], "active") => Blank(rows[x])
  BY DEF Has, Blank, Statuses
<1> QED
  BY <1>1, <1>2 DEF RolePlan, SoundPlan

LEMMA GroupsPlanSound ==
    ASSUME NEW X, NEW rows \in [X -> [Copies -> Statuses]], NEW asked \in SUBSET X
    PROVE  /\ SoundPlan(rows, GroupsPlan(rows, asked))
           /\ GroupsPlan(rows, asked).create \subseteq asked
           /\ \A x, k : <<x, k>> \in GroupsPlan(rows, asked).restore => x \in asked
<1>1. \A x \in X : ~Has(rows[x], "deleted") /\ ~Has(rows[x], "active") => Blank(rows[x])
  BY DEF Has, Blank, Statuses
<1> QED
  BY <1>1 DEF GroupsPlan, ExistingMemberships, SoftDeletedMemberships, SoundPlan

\* A user who is not a member of the group gets the soft-deleted row back, or a
\* first one.
LEMMA MemberPlanSound ==
    ASSUME NEW X, NEW rows \in [X -> [Copies -> Statuses]], NEW g \in X,
           ~Has(rows[g], "active")
    PROVE  /\ SoundPlan(rows, MemberPlan(rows, g))
           /\ MemberPlan(rows, g).create \subseteq {g}
           /\ \A x, k : <<x, k>> \in MemberPlan(rows, g).restore => x = g
<1>1. Has(rows[g], "deleted") =>
        /\ OneWith(rows[g], "deleted") \in Copies
        /\ rows[g][OneWith(rows[g], "deleted")] = "deleted"
  BY DEF Has, OneWith
<1>2. ~Has(rows[g], "deleted") => Blank(rows[g])
  BY DEF Has, Blank, Statuses
<1> QED
  BY <1>1, <1>2 DEF MemberPlan, SoundPlan

\* A sound plan never makes a second row for a key.
LEMMA ApplyPlanOneRow ==
    ASSUME NEW X, NEW rows \in [X -> [Copies -> Statuses]], NEW plan,
           SoundPlan(rows, plan), NEW x \in X, AtMostOneRow(rows[x])
    PROVE  AtMostOneRow(ApplyPlan(rows, plan)[x])
<1> DEFINE new == ApplyPlan(rows, plan)[x]
<1>1. \A k \in Copies : new[k] =
        IF <<x, k>> \in plan.restore \/ (x \in plan.create /\ k = OneWith(rows[x], "none"))
        THEN "active" ELSE rows[x][k]
  BY DEF ApplyPlan
<1>2. CASE x \in plan.create
  <2>1. \A k \in Copies : rows[x][k] = "none" /\ <<x, k>> \notin plan.restore
    BY <1>2 DEF SoundPlan, Blank
  <2>2. \A k \in Copies : new[k] # "none" => k = OneWith(rows[x], "none")
    BY <1>1, <2>1
  <2> QED
    BY <2>2 DEF AtMostOneRow
<1>3. CASE x \notin plan.create
  <2>1. \A k \in Copies : <<x, k>> \in plan.restore => rows[x][k] = "deleted"
    BY DEF SoundPlan
  <2>2. \A k \in Copies : new[k] # "none" => rows[x][k] # "none"
    BY <1>1, <1>3, <2>1
  <2> QED
    BY <2>2 DEF AtMostOneRow
<1> QED
  BY <1>2, <1>3

\* A key the plan does not speak of keeps its rows.
LEMMA ApplyPlanKeeps ==
    ASSUME NEW X, NEW rows \in [X -> [Copies -> Statuses]], NEW plan,
           NEW x \in X, x \notin plan.create,
           \A k \in Copies : <<x, k>> \notin plan.restore
    PROVE  ApplyPlan(rows, plan)[x] = rows[x]
BY DEF ApplyPlan

\* A row the plan restores is active afterwards.
LEMMA ApplyPlanRestores ==
    ASSUME NEW X, NEW rows \in [X -> [Copies -> Statuses]], NEW plan,
           NEW x \in X, NEW k \in Copies, <<x, k>> \in plan.restore
    PROVE  Has(ApplyPlan(rows, plan)[x], "active")
<1>1. ApplyPlan(rows, plan)[x][k] = "active"
  BY DEF ApplyPlan
<1> QED
  BY <1>1 DEF Has

\* What is active after a plan was active before or is of the plan.
LEMMA ApplyPlanActive ==
    ASSUME NEW X, NEW rows \in [X -> [Copies -> Statuses]], NEW plan,
           NEW x \in X, Has(ApplyPlan(rows, plan)[x], "active")
    PROVE  \/ Has(rows[x], "active")
           \/ x \in plan.create
           \/ \E k \in Copies : <<x, k>> \in plan.restore
BY DEF ApplyPlan, Has

\* Soft deletion inserts nothing.
LEMMA SoftDeleteOneRow ==
    ASSUME NEW rows \in [Copies -> Statuses]
    PROVE  /\ AtMostOneRow(rows) => AtMostOneRow(SoftDelete(rows))
           /\ Blank(rows) => Blank(SoftDelete(rows))
BY DEF SoftDelete, AtMostOneRow, Blank

-----------------------------------------------------------------------------
(* One row per tenant and user, and one per assignment. *)

\* An id that is not in use has no rows in the tables that refer to it, and a
\* group that does not exist has no members: an insert meets no row of before.
UnusedIsBlank ==
    /\ \A u \in TenantUserIds : ~Exists(u) =>
        /\ \A r \in Roles : Blank(roleRow[u][r])
        /\ \A g \in Groups : Blank(groupRow[u][g])
    /\ \A u \in TenantUserIds, g \in Groups :
        groupTenant[g] = NoRow => Blank(groupRow[u][g])

\* Tenant users are of tenants that exist.
RowsOfTenants ==
    \A u \in TenantUserIds : Exists(u) => TenantExists(tenantUser[u].tenant)

\* The rows of one tenant user are in order: the local part of the invariant.
InOrder(u) ==
    /\ \A r \in Roles : AtMostOneRow(roleRow[u][r])
    /\ \A g \in Groups : AtMostOneRow(groupRow[u][g])
    /\ ~Exists(u) => \A r \in Roles : Blank(roleRow[u][r])
    /\ ~Exists(u) => \A g \in Groups : Blank(groupRow[u][g])
    /\ \A g \in Groups : groupTenant[g] = NoRow => Blank(groupRow[u][g])

RowsInOrder == \A u \in TenantUserIds : InOrder(u)

LEMMA RowsInOrderMeans ==
    /\ RowsInOrder => NoDuplicateAssignments /\ UnusedIsBlank
    /\ NoDuplicateAssignments /\ UnusedIsBlank => RowsInOrder
BY DEF RowsInOrder, InOrder, NoDuplicateAssignments, UnusedIsBlank, AtMostOneRow, Blank

\* It is enough to look at the user a step touches, if no group is given up.
LEMMA InOrderFrame ==
    ASSUME RowsInOrder, NEW u, OthersUnchanged(u), u \in TenantUserIds => InOrder(u)',
           \A g \in Groups : groupTenant'[g] = NoRow => groupTenant[g] = NoRow
    PROVE  RowsInOrder'
BY DEF RowsInOrder, InOrder, OthersUnchanged, Exists

\* Role rows saved by a sound plan are in order, and so are member rows.
LEMMA SaveRolesInOrder ==
    ASSUME TypeOK, NEW u \in TenantUserIds, InOrder(u), NEW plan,
           SoundPlan(roleRow[u], plan), SaveRoles(u, plan)
    PROVE  \A r \in Roles : AtMostOneRow(roleRow'[u][r])
<1>1. roleRow'[u] = ApplyPlan(roleRow[u], plan)
  BY DEF TypeOK, SaveRoles
<1> QED
  BY <1>1, ApplyPlanOneRow DEF TypeOK, InOrder

LEMMA SaveMembersInOrder ==
    ASSUME TypeOK, NEW u \in TenantUserIds, InOrder(u), NEW plan,
           SoundPlan(groupRow[u], plan), SaveMembers(u, plan),
           NEW groups \in SUBSET Groups, plan.create \subseteq groups,
           \A x, k : <<x, k>> \in plan.restore => x \in groups
    PROVE  /\ \A g \in Groups : AtMostOneRow(groupRow'[u][g])
           /\ \A g \in Groups \ groups : groupRow'[u][g] = groupRow[u][g]
<1>1. groupRow'[u] = ApplyPlan(groupRow[u], plan)
  BY DEF TypeOK, SaveMembers
<1>2. groupRow[u] \in [Groups -> [Copies -> Statuses]]
  BY DEF TypeOK
<1>3. ASSUME NEW g \in Groups \ groups
      PROVE  groupRow'[u][g] = groupRow[u][g]
  <2>1. g \notin plan.create /\ \A k \in Copies : <<g, k>> \notin plan.restore
    OBVIOUS
  <2> QED
    BY <1>1, <1>2, <2>1, ApplyPlanKeeps
<1>4. \A g \in Groups : AtMostOneRow(groupRow'[u][g])
  BY <1>1, <1>2, ApplyPlanOneRow DEF InOrder
<1> QED
  BY <1>3, <1>4

LEMMA NextInOrder ==
    ASSUME TypeOK, RemovedUserHasNothing, RowsInOrder, [Next]_vars
    PROVE  RowsInOrder'
<1> USE NoRowAssumption
<1>1. ASSUME NEW t \in Tenants, NEW s \in Users, NEW idp \in IdpTypes,
             NEW u \in TenantUserIds, CreateTenant(t, s, idp, u)
      PROVE  RowsInOrder'
  <2> DEFINE plan == [restore |-> {}, create |-> Roles]
  <2>1. InOrder(u) /\ ~Exists(u)
    BY <1>1 DEF CreateTenant, RowsInOrder
  <2>2. SoundPlan(roleRow[u], plan)
    BY <2>1 DEF SoundPlan, InOrder, TypeOK
  <2>3. \A r \in Roles : AtMostOneRow(roleRow'[u][r])
    BY <1>1, <2>1, <2>2, SaveRolesInOrder DEF CreateTenant
  <2>4. Exists(u)'
    BY <1>1, SaveTenantUserActive DEF CreateTenant, Active
  <2>5. InOrder(u)'
    BY <1>1, <2>1, <2>3, <2>4 DEF CreateTenant, InOrder
  <2> QED
    BY <1>1, <2>5, CreateTenantOthers, InOrderFrame DEF CreateTenant
<1>2. ASSUME NEW t \in Tenants, NEW s \in Users, NEW idp \in IdpTypes,
             NEW asked \in SUBSET Roles, NEW groups \in SUBSET Groups,
             NEW u \in TenantUserIds, AddTenantUser(t, s, idp, asked, groups, u)
      PROVE  RowsInOrder'
  <2> DEFINE all == RoleIdsToAssign(idp, asked)
             given == StoredIdp(s, idp)
  <2>1. InOrder(u)
    BY DEF RowsInOrder
  <2>2. all \in SUBSET Roles
    BY RolesAssumption DEF RoleIdsToAssign
  <2>3. SoundPlan(roleRow[u], RolePlan(roleRow[u], given, all))
    <3> HIDE DEF all, given
    <3> QED
      BY <2>2, RolePlanSound DEF TypeOK
  <2>4. \A r \in Roles : AtMostOneRow(roleRow'[u][r])
    BY <1>2, <2>1, <2>3, SaveRolesInOrder DEF AddTenantUser
  <2>5. /\ \A g \in Groups : AtMostOneRow(groupRow'[u][g])
        /\ \A g \in Groups \ groups : groupRow'[u][g] = groupRow[u][g]
    <3>1. groupRow[u] \in [Groups -> [Copies -> Statuses]]
      BY DEF TypeOK
    <3>2. SaveMembers(u, GroupsPlan(groupRow[u], groups))
      BY <1>2 DEF AddTenantUser
    <3> QED
      BY <2>1, <3>1, <3>2, GroupsPlanSound, SaveMembersInOrder
  <2>6. \A g \in groups : groupTenant[g] # NoRow
    BY <1>2 DEF AddTenantUser, GroupsOfTenant
  <2>7. Exists(u)'
    BY <1>2, SaveTenantUserActive DEF AddTenantUser, Active
  <2>8. InOrder(u)'
    BY <1>2, <2>1, <2>4, <2>5, <2>6, <2>7 DEF AddTenantUser, InOrder
  <2> QED
    BY <1>2, <2>8, AddTenantUserOthers, InOrderFrame DEF AddTenantUser
<1>3. ASSUME NEW t \in Tenants, NEW u \in TenantUserIds,
             NEW asked \in SUBSET Roles, AssignUserRoles(t, u, asked)
      PROVE  RowsInOrder'
  <2> DEFINE given == idpType[tenantUser[u].sso]
  <2>1. InOrder(u) /\ Exists(u)
    BY <1>3 DEF AssignUserRoles, RowsInOrder, Active
  <2>2. SoundPlan(roleRow[u], RolePlan(roleRow[u], given, asked))
    <3> HIDE DEF given
    <3> QED
      BY RolePlanSound DEF TypeOK
  <2>3. \A r \in Roles : AtMostOneRow(roleRow'[u][r])
    BY <1>3, <2>1, <2>2, SaveRolesInOrder DEF AssignUserRoles
  <2>4. InOrder(u)'
    BY <1>3, <2>1, <2>3 DEF AssignUserRoles, InOrder, Exists
  <2> QED
    BY <1>3, <2>4, AssignUserRolesOthers, InOrderFrame DEF AssignUserRoles
<1>4. ASSUME NEW t \in Tenants, NEW u \in TenantUserIds, NEW r \in Roles,
             UnassignUserRoles(t, u, r)
      PROVE  RowsInOrder'
  <2>1. InOrder(u) /\ Exists(u)
    BY <1>4 DEF UnassignUserRoles, RowsInOrder, InTenant
  <2>2. \A x \in Roles : roleRow'[u][x] =
            IF x = r THEN SoftDelete(roleRow[u][x]) ELSE roleRow[u][x]
    BY <1>4 DEF UnassignUserRoles, TypeOK
  <2>3. \A x \in Roles : AtMostOneRow(roleRow'[u][x])
    BY <2>1, <2>2, SoftDeleteOneRow DEF InOrder, TypeOK
  <2>4. InOrder(u)'
    BY <1>4, <2>1, <2>3 DEF UnassignUserRoles, InOrder, Exists
  <2> QED
    BY <1>4, <2>4, UnassignUserRolesOthers, InOrderFrame DEF UnassignUserRoles
<1>5. ASSUME NEW t \in Tenants, NEW u \in TenantUserIds, RemoveTenantUser(t, u)
      PROVE  RowsInOrder'
  <2>1. InOrder(u) /\ Exists(u)
    BY <1>5 DEF RemoveTenantUser, RowsInOrder, InTenant
  <2>2. /\ \A r \in Roles : roleRow'[u][r] = SoftDelete(roleRow[u][r])
        /\ \A g \in Groups : groupRow'[u][g] = SoftDelete(groupRow[u][g])
    BY <1>5 DEF RemoveTenantUser, TypeOK, SweepUser, SoftDeleteAll
  <2>3. /\ \A r \in Roles : AtMostOneRow(roleRow'[u][r])
        /\ \A g \in Groups : AtMostOneRow(groupRow'[u][g])
        /\ \A g \in Groups : groupTenant[g] = NoRow => Blank(groupRow'[u][g])
    BY <2>1, <2>2, SoftDeleteOneRow DEF InOrder, TypeOK
  <2>4. Exists(u)'
    <3>1. tenantUser[u] \in TenantUserRow
      BY <2>1 DEF TypeOK, Exists
    <3>2. tenantUser'[u] = [tenantUser[u] EXCEPT !.isDeleted = TRUE]
      BY <1>5 DEF RemoveTenantUser, SweepUser, TypeOK
    <3>3. tenantUser'[u] \in TenantUserRow
      BY <3>1, <3>2 DEF TenantUserRow
    <3> QED
      BY <3>3 DEF Exists
  <2>5. InOrder(u)'
    BY <1>5, <2>3, <2>4 DEF RemoveTenantUser, InOrder
  <2> QED
    BY <1>5, <2>5, RemoveTenantUserOthers, InOrderFrame DEF RemoveTenantUser
<1>6. ASSUME NEW t \in Tenants, NEW g \in Groups, NEW s \in Users,
             NEW idp \in IdpTypes, NEW u \in TenantUserIds,
             AddGroupUser(t, g, s, idp, u)
      PROVE  RowsInOrder'
  <2>1. InOrder(u)
    BY DEF RowsInOrder
  <2>2. Exists(u)' /\ \A r \in Roles : AtMostOneRow(roleRow'[u][r])
    <3>1. CASE \E v \in TenantUserIds : RowOf(v, t, s) /\ Active(v)
      BY <1>6, <2>1, <3>1 DEF AddGroupUser, Active, Exists, InOrder
    <3>2. CASE ~\E v \in TenantUserIds : RowOf(v, t, s) /\ Active(v)
      <4> DEFINE given == StoredIdp(s, idp)
      <4>1. SoundPlan(roleRow[u], RolePlan(roleRow[u], given, {ServiceUser}))
        <5> HIDE DEF given
        <5> QED
          BY RolePlanSound, RolesAssumption DEF TypeOK
      <4>2. SaveRoles(u, RolePlan(roleRow[u], given, {ServiceUser}))
        BY <1>6, <3>2 DEF AddGroupUser
      <4>3. Exists(u)'
        BY <1>6, <3>2, SaveTenantUserActive DEF AddGroupUser, Active
      <4> HIDE DEF given
      <4> QED
        BY <2>1, <4>1, <4>2, <4>3, SaveRolesInOrder
    <3> QED
      BY <3>1, <3>2
  <2>3. /\ \A x \in Groups : AtMostOneRow(groupRow'[u][x])
        /\ \A x \in Groups \ {g} : groupRow'[u][x] = groupRow[u][x]
    <3>1. groupRow[u] \in [Groups -> [Copies -> Statuses]]
      BY DEF TypeOK
    <3>2. ~Has(groupRow[u][g], "active") /\ SaveMembers(u, MemberPlan(groupRow[u], g))
      BY <1>6 DEF AddGroupUser, IsMember
    <3> DEFINE plan == MemberPlan(groupRow[u], g)
    <3>3. /\ SoundPlan(groupRow[u], plan)
          /\ plan.create \subseteq {g}
          /\ \A x, k : <<x, k>> \in plan.restore => x \in {g}
      BY <3>1, <3>2, MemberPlanSound
    <3>4. SaveMembers(u, plan)
      BY <3>2
    <3> HIDE DEF plan
    <3> QED
      BY <2>1, <3>3, <3>4, SaveMembersInOrder
  <2>4. groupTenant[g] # NoRow /\ groupTenant' = groupTenant
    BY <1>6 DEF AddGroupUser
  <2>5. InOrder(u)'
    BY <2>1, <2>2, <2>3, <2>4 DEF InOrder
  <2> QED
    BY <1>6, <2>4, <2>5, AddGroupUserOthers, InOrderFrame
<1>7. ASSUME NEW t \in Tenants, NEW g \in Groups,
             NEW w \in TenantUserIds \union {NoRow}, CreateGroup(t, g, w)
      PROVE  RowsInOrder'
  <2>1. ASSUME w \in TenantUserIds
        PROVE  InOrder(w)'
    <3> DEFINE plan == [restore |-> {}, create |-> {g}]
    <3>1. InOrder(w) /\ Blank(groupRow[w][g])
      BY <1>7, <2>1 DEF CreateGroup, RowsInOrder, InOrder
    <3>2. SaveMembers(w, plan) /\ Active(w) /\ groupTenant' = [groupTenant EXCEPT ![g] = t]
      BY <1>7, <2>1 DEF CreateGroup
    <3>3. SoundPlan(groupRow[w], plan)
      BY <3>1 DEF SoundPlan
    <3>4. /\ \A x \in Groups : AtMostOneRow(groupRow'[w][x])
          /\ \A x \in Groups \ {g} : groupRow'[w][x] = groupRow[w][x]
      <4>1. plan.create \subseteq {g} /\ \A x, k : <<x, k>> \in plan.restore => x \in {g}
        OBVIOUS
      <4> HIDE DEF plan
      <4> QED
        BY <2>1, <3>1, <3>2, <3>3, <4>1, SaveMembersInOrder
    <3>5. \A x \in Groups : groupTenant'[x] = NoRow => x # g /\ groupTenant[x] = NoRow
      BY <3>2 DEF TypeOK
    <3> QED
      BY <1>7, <3>1, <3>2, <3>4, <3>5 DEF CreateGroup, InOrder, Active, Exists
  <2>2. \A x \in Groups : groupTenant'[x] = NoRow => groupTenant[x] = NoRow
    BY <1>7 DEF CreateGroup, TypeOK
  <2> QED
    BY <1>7, <2>1, <2>2, CreateGroupOthers, InOrderFrame
<1>8. ASSUME NEW t \in Tenants, NEW g \in Groups, NEW u \in TenantUserIds,
             NEW k \in Copies, RemoveGroupUser(t, g, u, k)
      PROVE  RowsInOrder'
  <2>1. InOrder(u)
    BY DEF RowsInOrder
  <2>2. \A x \in Groups, j \in Copies :
            groupRow'[u][x][j] = IF x = g /\ j = k THEN "deleted" ELSE groupRow[u][x][j]
    BY <1>8 DEF RemoveGroupUser, TypeOK
  <2>3. groupRow[u][g][k] = "active"
    BY <1>8 DEF RemoveGroupUser
  <2>4. \A x \in Groups, j \in Copies :
            (groupRow'[u][x][j] = "none") <=> (groupRow[u][x][j] = "none")
    BY <2>2, <2>3
  <2>5. /\ \A x \in Groups : AtMostOneRow(groupRow'[u][x]) <=> AtMostOneRow(groupRow[u][x])
        /\ \A x \in Groups : Blank(groupRow'[u][x]) <=> Blank(groupRow[u][x])
    BY <2>4 DEF AtMostOneRow, Blank
  <2>6. InOrder(u)'
    BY <1>8, <2>1, <2>5 DEF RemoveGroupUser, InOrder, Exists
  <2> QED
    BY <1>8, <2>6, RemoveGroupUserOthers, InOrderFrame DEF RemoveGroupUser
<1>9. CASE UNCHANGED vars
  BY <1>9 DEF vars, RowsInOrder, InOrder, Exists
<1> QED
  BY <1>1, <1>2, <1>3, <1>4, <1>5, <1>6, <1>7, <1>8, <1>9
  DEF Next, RolesInBody, RoleIdsInBody, FirstMembers

\* However users are added, removed and added again, and groups created, there
\* is one row per assignment: a row is restored, never duplicated.
THEOREM AssignmentsNotDuplicated == Spec => []NoDuplicateAssignments
<1>1. Init => RowsInOrder
  BY DEF Init, RowsInOrder, InOrder, AtMostOneRow, Blank
<1>2. TypeOK /\ RemovedUserHasNothing /\ RowsInOrder /\ [Next]_vars => RowsInOrder'
  BY NextInOrder
<1>3. RowsInOrder => NoDuplicateAssignments
  BY RowsInOrderMeans
<1> QED
  BY <1>1, <1>2, <1>3, TypeCorrect, RemovedHasNothing, PTL DEF Spec

\* Tenants are never deleted, and the user a step touches becomes a row only of
\* a user the tenant did not know.
LEMMA OneRowFrame ==
    ASSUME OneRowPerTenantAndUser, RowsOfTenants, NEW u, OthersUnchanged(u),
           \A t \in Tenants : TenantExists(t) => TenantExists(t)',
           TypeOK,
           u \in TenantUserIds =>
             /\ Exists(u)' => TenantExists(tenantUser[u].tenant)'
             /\ \A t \in Tenants, s \in Users :
                  RowOf(u, t, s)' => RowOf(u, t, s) \/ Unknown(t, s)
    PROVE  OneRowPerTenantAndUser' /\ RowsOfTenants'
<1>1. \A v \in TenantUserIds \ {u} :
        /\ Exists(v)' <=> Exists(v)
        /\ \A t \in Tenants, s \in Users : RowOf(v, t, s)' <=> RowOf(v, t, s)
  BY DEF OthersUnchanged, Exists, RowOf, InTenant
<1>2. OneRowPerTenantAndUser'
  BY <1>1 DEF OneRowPerTenantAndUser, Unknown
<1>3. \A v \in TenantUserIds \ {u} : Exists(v)' => TenantExists(tenantUser[v].tenant)'
  BY <1>1 DEF OthersUnchanged, RowsOfTenants, TypeOK, TenantUserRow, Exists, TenantExists
<1>4. RowsOfTenants'
  BY <1>3 DEF RowsOfTenants
<1> QED
  BY <1>2, <1>4

\* A row that is saved is of its tenant and user and of no other.
LEMMA SaveTenantUserRowOf ==
    ASSUME TypeOK, NEW u \in TenantUserIds, NEW t \in Tenants, NEW s \in Users,
           SaveTenantUser(u, t, s)
    PROVE  /\ tenantUser'[u].tenant = t
           /\ tenantUser'[u].sso = s
           /\ \A x \in Tenants, y \in Users : RowOf(u, x, y)' => x = t /\ y = s
<1>1. tenantUser'[u] = [tenant |-> t, sso |-> s, isDeleted |-> FALSE]
  BY SaveTenantUserActive
<1>2. tenantUser'[u].tenant = t /\ tenantUser'[u].sso = s
  BY <1>1
<1> QED
  BY <1>2 DEF RowOf, InTenant

LEMMA NextOneRow ==
    ASSUME TypeOK, OneRowPerTenantAndUser, RowsOfTenants, [Next]_vars
    PROVE  OneRowPerTenantAndUser' /\ RowsOfTenants'
<1> USE NoRowAssumption
<1> DEFINE Goal == OneRowPerTenantAndUser' /\ RowsOfTenants'
<1>1. ASSUME NEW t \in Tenants, NEW s \in Users, NEW idp \in IdpTypes,
             NEW u \in TenantUserIds, CreateTenant(t, s, idp, u)
      PROVE  Goal
  <2>1. Unknown(t, s)
    BY <1>1 DEF CreateTenant, Unknown, RowOf, InTenant, RowsOfTenants
  <2>2. /\ \A x \in Tenants : TenantExists(x) => TenantExists(x)'
        /\ TenantExists(t)'
    BY <1>1 DEF CreateTenant, TenantExists, TypeOK
  <2>3. tenantUser'[u].tenant = t
    BY <1>1, SaveTenantUserRowOf DEF CreateTenant
  <2>4. \A x \in Tenants, y \in Users : RowOf(u, x, y)' => x = t /\ y = s
    BY <1>1, SaveTenantUserRowOf DEF CreateTenant
  <2>5. (Exists(u)' => TenantExists(tenantUser[u].tenant)')
    BY <2>2, <2>3
  <2> QED
    BY <1>1, <2>1, <2>2, <2>4, <2>5, CreateTenantOthers, OneRowFrame
<1>2. ASSUME NEW t \in Tenants, NEW s \in Users, NEW idp \in IdpTypes,
             NEW asked \in SUBSET Roles, NEW groups \in SUBSET Groups,
             NEW u \in TenantUserIds, AddTenantUser(t, s, idp, asked, groups, u)
      PROVE  Goal
  <2>1. Unknown(t, s) \/ RowOf(u, t, s)
    BY <1>2 DEF AddTenantUser, SoftDeletedTenantUser
  <2>2. TenantExists(t) /\ createdBy' = createdBy
    BY <1>2 DEF AddTenantUser, Manageable, ManagedBy, InTenant, RowsOfTenants
  <2>3. tenantUser'[u].tenant = t
    BY <1>2, SaveTenantUserRowOf DEF AddTenantUser
  <2>4. \A x \in Tenants, y \in Users : RowOf(u, x, y)' => x = t /\ y = s
    BY <1>2, SaveTenantUserRowOf DEF AddTenantUser
  <2>5. /\ \A x \in Tenants : TenantExists(x) => TenantExists(x)'
        /\ (Exists(u)' => TenantExists(tenantUser[u].tenant)')
    BY <2>2, <2>3 DEF TenantExists
  <2> QED
    BY <1>2, <2>1, <2>4, <2>5, AddTenantUserOthers, OneRowFrame
\* A step that leaves the rows of tenants and tenant users alone.
<1> DEFINE SameUsers == createdBy' = createdBy /\ tenantUser' = tenantUser
<1>3. SameUsers => Goal
  BY DEF OneRowPerTenantAndUser, RowsOfTenants, RowOf, InTenant, Exists, TenantExists
<1>4. ASSUME NEW t \in Tenants, NEW u \in TenantUserIds, RemoveTenantUser(t, u)
      PROVE  Goal
  <2>1. createdBy' = createdBy /\ Exists(u)
    BY <1>4 DEF RemoveTenantUser, Active
  <2>2. tenantUser'[u] = [tenantUser[u] EXCEPT !.isDeleted = TRUE]
    BY <1>4 DEF RemoveTenantUser, SweepUser, TypeOK
  <2>3. tenantUser[u] \in TenantUserRow
    BY <2>1 DEF TypeOK, Exists
  <2>4. tenantUser'[u].tenant = tenantUser[u].tenant /\ tenantUser'[u].sso = tenantUser[u].sso
    BY <2>2, <2>3 DEF TenantUserRow
  <2>5. /\ \A x \in Tenants : TenantExists(x) => TenantExists(x)'
        /\ (Exists(u)' => TenantExists(tenantUser[u].tenant)')
        /\ \A x \in Tenants, y \in Users : RowOf(u, x, y)' => RowOf(u, x, y)
    BY <2>1, <2>4 DEF TenantExists, RowsOfTenants, RowOf, InTenant
  <2> QED
    BY <1>4, <2>5, RemoveTenantUserOthers, OneRowFrame
<1>5. ASSUME NEW t \in Tenants, NEW g \in Groups, NEW s \in Users,
             NEW idp \in IdpTypes, NEW u \in TenantUserIds,
             AddGroupUser(t, g, s, idp, u)
      PROVE  Goal
  <2>1. CASE \E v \in TenantUserIds : RowOf(v, t, s) /\ Active(v)
    BY <1>3, <1>5, <2>1 DEF AddGroupUser
  <2>2. CASE ~\E v \in TenantUserIds : RowOf(v, t, s) /\ Active(v)
    <3>1. Unknown(t, s) \/ RowOf(u, t, s)
      BY <1>5, <2>2 DEF AddGroupUser
    <3>2. TenantExists(t) /\ createdBy' = createdBy
      BY <1>5 DEF AddGroupUser, Manageable, ManagedBy, InTenant, RowsOfTenants
    <3>3. tenantUser'[u].tenant = t
      BY <1>5, <2>2, SaveTenantUserRowOf DEF AddGroupUser
    <3>4. \A x \in Tenants, y \in Users : RowOf(u, x, y)' => x = t /\ y = s
      BY <1>5, <2>2, SaveTenantUserRowOf DEF AddGroupUser
    <3>5. /\ \A x \in Tenants : TenantExists(x) => TenantExists(x)'
          /\ (Exists(u)' => TenantExists(tenantUser[u].tenant)')
      BY <3>2, <3>3 DEF TenantExists
    <3> QED
      BY <1>5, <3>1, <3>4, <3>5, AddGroupUserOthers, OneRowFrame
  <2> QED
    BY <2>1, <2>2
<1>6. ASSUME NEW t \in Tenants, NEW u \in TenantUserIds,
             NEW asked \in SUBSET Roles, AssignUserRoles(t, u, asked)
      PROVE  SameUsers
  BY <1>6 DEF AssignUserRoles
<1>7. ASSUME NEW t \in Tenants, NEW u \in TenantUserIds, NEW r \in Roles,
             UnassignUserRoles(t, u, r)
      PROVE  SameUsers
  BY <1>7 DEF UnassignUserRoles
<1>8. ASSUME NEW t \in Tenants, NEW g \in Groups,
             NEW w \in TenantUserIds \union {NoRow}, CreateGroup(t, g, w)
      PROVE  SameUsers
  BY <1>8 DEF CreateGroup
<1>9. ASSUME NEW t \in Tenants, NEW g \in Groups, NEW u \in TenantUserIds,
             NEW k \in Copies, RemoveGroupUser(t, g, u, k)
      PROVE  SameUsers
  BY <1>9 DEF RemoveGroupUser
<1>10. UNCHANGED vars => SameUsers
  BY DEF vars
<1> QED
  BY <1>1, <1>2, <1>3, <1>4, <1>5, <1>6, <1>7, <1>8, <1>9, <1>10
  DEF Next, RolesInBody, RoleIdsInBody, FirstMembers

\* A row stays the row of its tenant and user: one that exists is only saved
\* again for the same tenant and user.
LEMMA NextRowsStay ==
    ASSUME TypeOK, [Next]_vars, NEW v \in TenantUserIds, NEW x \in Tenants,
           NEW y \in Users, RowOf(v, x, y)
    PROVE  RowOf(v, x, y)'
<1> USE NoRowAssumption
<1> DEFINE Goal == RowOf(v, x, y)'
\* A step leaves the row alone, or saves it for the tenant and user it is of.
<1>1. tenantUser'[v] = tenantUser[v] => Goal
  BY DEF RowOf, InTenant, Exists
<1>2. ASSUME NEW u \in TenantUserIds, OthersUnchanged(u), v # u
      PROVE  Goal
  BY <1>1, <1>2 DEF OthersUnchanged
<1>3. ASSUME NEW t \in Tenants, NEW s \in Users, NEW u \in TenantUserIds,
             SaveTenantUser(u, t, s), OthersUnchanged(u),
             Exists(u) => RowOf(u, t, s)
      PROVE  Goal
  <2>1. CASE v = u
    <3>1. tenantUser'[u] = [tenant |-> t, sso |-> s, isDeleted |-> FALSE]
      BY <1>3, SaveTenantUserActive
    <3>2. x = t /\ y = s
      BY <1>3, <2>1 DEF RowOf, InTenant
    <3>3. /\ tenantUser'[v].tenant = x
          /\ tenantUser'[v].sso = y
          /\ tenantUser'[v] \in TenantUserRow
      BY <2>1, <3>1, <3>2 DEF TenantUserRow
    <3> QED
      BY <3>3 DEF RowOf, InTenant, Exists
  <2> QED
    BY <1>2, <1>3, <2>1
<1>4. ASSUME NEW t \in Tenants, NEW s \in Users, NEW idp \in IdpTypes,
             NEW u \in TenantUserIds, CreateTenant(t, s, idp, u)
      PROVE  Goal
  BY <1>3, <1>4, CreateTenantOthers DEF CreateTenant
<1>5. ASSUME NEW t \in Tenants, NEW s \in Users, NEW idp \in IdpTypes,
             NEW asked \in SUBSET Roles, NEW groups \in SUBSET Groups,
             NEW u \in TenantUserIds, AddTenantUser(t, s, idp, asked, groups, u)
      PROVE  Goal
  BY <1>3, <1>5, AddTenantUserOthers DEF AddTenantUser, SoftDeletedTenantUser
<1>6. ASSUME NEW t \in Tenants, NEW u \in TenantUserIds, RemoveTenantUser(t, u)
      PROVE  Goal
  <2>1. CASE v = u
    <3>1. tenantUser'[v] = [tenantUser[v] EXCEPT !.isDeleted = TRUE]
      BY <1>6, <2>1 DEF RemoveTenantUser, SweepUser, TypeOK
    <3>2. tenantUser[v] \in TenantUserRow
      BY DEF TypeOK, RowOf, InTenant, Exists
    <3>3. /\ tenantUser'[v].tenant = tenantUser[v].tenant
          /\ tenantUser'[v].sso = tenantUser[v].sso
          /\ tenantUser'[v] # NoRow
      BY <3>1, <3>2 DEF TenantUserRow
    <3> QED
      BY <3>3 DEF RowOf, InTenant, Exists
  <2> QED
    BY <1>2, <1>6, <2>1, RemoveTenantUserOthers
<1>7. ASSUME NEW t \in Tenants, NEW g \in Groups, NEW s \in Users,
             NEW idp \in IdpTypes, NEW u \in TenantUserIds,
             AddGroupUser(t, g, s, idp, u)
      PROVE  Goal
  <2>1. CASE \E w \in TenantUserIds : RowOf(w, t, s) /\ Active(w)
    BY <1>1, <1>7, <2>1 DEF AddGroupUser
  <2>2. CASE ~\E w \in TenantUserIds : RowOf(w, t, s) /\ Active(w)
    BY <1>3, <1>7, <2>2, AddGroupUserOthers DEF AddGroupUser
  <2> QED
    BY <2>1, <2>2
<1>8. CASE UNCHANGED tenantUser
  BY <1>1, <1>8
<1> QED
  BY <1>4, <1>5, <1>6, <1>7, <1>8
  DEF Next, RolesInBody, RoleIdsInBody, FirstMembers, vars,
      AssignUserRoles, UnassignUserRoles, CreateGroup, RemoveGroupUser

\* Whichever way a user comes back, the tenant has one row of the user.
THEOREM UsersNotDuplicated == Spec => []OneRowPerTenantAndUser
<1>1. Init => OneRowPerTenantAndUser /\ RowsOfTenants
  BY DEF Init, OneRowPerTenantAndUser, RowsOfTenants, RowOf, InTenant, Exists
<1>2. TypeOK /\ (OneRowPerTenantAndUser /\ RowsOfTenants) /\ [Next]_vars
        => (OneRowPerTenantAndUser /\ RowsOfTenants)'
  BY NextOneRow
<1> QED
  BY <1>1, <1>2, TypeCorrect, PTL DEF Spec

-----------------------------------------------------------------------------
(* An active user holds a role. *)

HoldsSome(u) == \E r \in Roles : HasRole(u, r)

LEMMA HoldsSomeFrame ==
    ASSUME ActiveUserHasRole, NEW u, OthersUnchanged(u),
           u \in TenantUserIds => (Active(u)' => HoldsSome(u)')
    PROVE  ActiveUserHasRole'
BY DEF ActiveUserHasRole, HoldsSome, OthersUnchanged, Active, Exists, HasRole

\* Saving a plan that saves something leaves the user with a role, and a plan
\* takes none away.
LEMMA SavedRolesHoldSome ==
    ASSUME TypeOK, NEW u \in TenantUserIds, NEW idp, NEW asked \in SUBSET Roles,
           SaveRoles(u, RolePlan(roleRow[u], idp, asked)),
           Saves(RolePlan(roleRow[u], idp, asked))
    PROVE  HoldsSome(u)'
<1> DEFINE plan == RolePlan(roleRow[u], idp, asked)
<1>1. roleRow[u] \in [Roles -> [Copies -> Statuses]]
  BY DEF TypeOK
<1>2. plan.create \subseteq Roles /\ plan.restore \subseteq Roles \X Copies
  BY <1>1, RolePlanSound
<1>3. /\ roleRow'[u] = ApplyPlan(roleRow[u], plan)
      /\ \A r \in plan.create : Has(roleRow[u][r], "none")
  BY DEF SaveRoles, Fits, TypeOK
<1>4. (\E r \in Roles : r \in plan.create)
        \/ \E r \in Roles, k \in Copies : <<r, k>> \in plan.restore
  BY <1>2 DEF Saves
<1> HIDE DEF plan
<1>5. CASE \E r \in Roles : r \in plan.create
  BY <1>1, <1>3, <1>5, ApplyPlanCreates DEF HoldsSome, HasRole
<1>6. CASE \E r \in Roles, k \in Copies : <<r, k>> \in plan.restore
  BY <1>1, <1>3, <1>6, ApplyPlanRestores DEF HoldsSome, HasRole
<1> QED
  BY <1>4, <1>5, <1>6

LEMMA NextHasRole ==
    ASSUME TypeOK, RowsInOrder, ActiveUserHasRole, [Next]_vars
    PROVE  ActiveUserHasRole'
<1> USE NoRowAssumption
<1>1. ASSUME NEW t \in Tenants, NEW s \in Users, NEW idp \in IdpTypes,
             NEW u \in TenantUserIds, CreateTenant(t, s, idp, u)
      PROVE  ActiveUserHasRole'
  <2>1. roleRow'[u] = ApplyPlan(roleRow[u], [restore |-> {}, create |-> Roles])
    BY <1>1 DEF CreateTenant, SaveRoles, TypeOK
  <2>2. TenantOwner \in Roles /\ Has(roleRow[u][TenantOwner], "none")
    BY <1>1, RolesAssumption DEF CreateTenant, SaveRoles, Fits
  <2>3. HasRole(u, TenantOwner)'
    BY <2>1, <2>2, ApplyPlanCreates DEF HasRole, TypeOK
  <2>4. HoldsSome(u)'
    BY <2>2, <2>3 DEF HoldsSome
  <2> QED
    BY <1>1, <2>4, CreateTenantOthers, HoldsSomeFrame
<1>2. ASSUME NEW t \in Tenants, NEW s \in Users, NEW idp \in IdpTypes,
             NEW asked \in SUBSET Roles, NEW groups \in SUBSET Groups,
             NEW u \in TenantUserIds, AddTenantUser(t, s, idp, asked, groups, u)
      PROVE  ActiveUserHasRole'
  <2>1. RoleIdsToAssign(idp, asked) \in SUBSET Roles
    BY RolesAssumption DEF RoleIdsToAssign
  <2>2. HoldsSome(u)'
    BY <1>2, <2>1, SavedRolesHoldSome DEF AddTenantUser
  <2> QED
    BY <1>2, <2>2, AddTenantUserOthers, HoldsSomeFrame
<1>3. ASSUME NEW t \in Tenants, NEW u \in TenantUserIds,
             NEW asked \in SUBSET Roles, AssignUserRoles(t, u, asked)
      PROVE  ActiveUserHasRole'
  <2>1. HoldsSome(u)'
    BY <1>3, SavedRolesHoldSome DEF AssignUserRoles
  <2> QED
    BY <1>3, <2>1, AssignUserRolesOthers, HoldsSomeFrame
<1>4. ASSUME NEW t \in Tenants, NEW u \in TenantUserIds, NEW r \in Roles,
             UnassignUserRoles(t, u, r)
      PROVE  ActiveUserHasRole'
  <2>1. PICK k \in Copies : roleRow[u][r][k] = "active"
    BY <1>4 DEF UnassignUserRoles, HasRole, Has
  <2>2. <<r, k>> \in ActiveRoleRows(u) /\ ActiveRoleRows(u) # {<<r, k>>}
    BY <1>4, <2>1 DEF UnassignUserRoles, OneRoleRowLeft, ActiveRoleRows
  <2>3. PICK x \in Roles \X Copies : x \in ActiveRoleRows(u) /\ x # <<r, k>>
    BY <2>2 DEF ActiveRoleRows
  <2>4. roleRow[u][x[1]][x[2]] = "active" /\ x[1] # r
    BY <2>1, <2>3 DEF ActiveRoleRows, RowsInOrder, InOrder, AtMostOneRow
  <2>5. roleRow'[u][x[1]] = roleRow[u][x[1]]
    BY <1>4, <2>3, <2>4 DEF UnassignUserRoles, TypeOK
  <2>6. HoldsSome(u)'
    BY <2>3, <2>4, <2>5 DEF HoldsSome, HasRole, Has
  <2> QED
    BY <1>4, <2>6, UnassignUserRolesOthers, HoldsSomeFrame
<1>5. ASSUME NEW t \in Tenants, NEW u \in TenantUserIds, RemoveTenantUser(t, u)
      PROVE  ActiveUserHasRole'
  <2>1. tenantUser'[u].isDeleted = TRUE
    BY <1>5 DEF RemoveTenantUser, SweepUser, TypeOK, Active, Exists, TenantUserRow
  <2>2. ~Active(u)'
    BY <2>1 DEF Active
  <2> QED
    BY <1>5, <2>2, RemoveTenantUserOthers, HoldsSomeFrame
<1>6. ASSUME NEW t \in Tenants, NEW g \in Groups, NEW s \in Users,
             NEW idp \in IdpTypes, NEW u \in TenantUserIds,
             AddGroupUser(t, g, s, idp, u)
      PROVE  ActiveUserHasRole'
  <2>1. HoldsSome(u)'
    <3>1. CASE \E v \in TenantUserIds : RowOf(v, t, s) /\ Active(v)
      BY <1>6, <3>1 DEF AddGroupUser, ActiveUserHasRole, HoldsSome, HasRole
    <3>2. CASE ~\E v \in TenantUserIds : RowOf(v, t, s) /\ Active(v)
      BY <1>6, <3>2, SavedRolesHoldSome, RolesAssumption DEF AddGroupUser
    <3> QED
      BY <3>1, <3>2
  <2> QED
    BY <1>6, <2>1, AddGroupUserOthers, HoldsSomeFrame
\* A step that leaves roles and tenant users alone.
<1> DEFINE SameRoles == roleRow' = roleRow /\ tenantUser' = tenantUser
<1>7. SameRoles => ActiveUserHasRole'
  BY DEF ActiveUserHasRole, Active, Exists, HasRole
<1>8. ASSUME NEW t \in Tenants, NEW g \in Groups,
             NEW w \in TenantUserIds \union {NoRow}, CreateGroup(t, g, w)
      PROVE  SameRoles
  BY <1>8 DEF CreateGroup
<1>9. ASSUME NEW t \in Tenants, NEW g \in Groups, NEW u \in TenantUserIds,
             NEW k \in Copies, RemoveGroupUser(t, g, u, k)
      PROVE  SameRoles
  BY <1>9 DEF RemoveGroupUser
<1>10. UNCHANGED vars => SameRoles
  BY DEF vars
<1> QED
  BY <1>1, <1>2, <1>3, <1>4, <1>5, <1>6, <1>7, <1>8, <1>9, <1>10
  DEF Next, RolesInBody, RoleIdsInBody, FirstMembers

\* No active tenant user is left without a role: counting the role rows in
\* unassignUserRoles is sound because there is one row per role.
THEOREM ActiveUsersHoldRoles == Spec => []ActiveUserHasRole
<1>1. Init => ActiveUserHasRole /\ RowsInOrder
  BY DEF Init, RowsInOrder, InOrder, AtMostOneRow, Blank, ActiveUserHasRole, Active, Exists
<1>2. TypeOK /\ RemovedUserHasNothing /\ (ActiveUserHasRole /\ RowsInOrder) /\ [Next]_vars
        => (ActiveUserHasRole /\ RowsInOrder)'
  BY NextHasRole, NextInOrder
<1> QED
  BY <1>1, <1>2, TypeCorrect, RemovedHasNothing, PTL DEF Spec

-----------------------------------------------------------------------------
(* What a BCeID user may hold. *)

WithinProvider(u) ==
    \A r \in Roles :
        Active(u) /\ HasRole(u, r) /\ idpType[tenantUser[u].sso] # Idir
        => r = ServiceUser \/ createdBy[tenantUser[u].tenant] = tenantUser[u].sso

\* A provider once stored stays, and so does the creator of a tenant.
LEMMA WithinProviderFrame ==
    ASSUME TypeOK, BceidHoldsServiceUserOnly, NEW u, OthersUnchanged(u),
           \A s \in Users : idpType[s] # NoRow => idpType'[s] = idpType[s],
           \A t \in Tenants : createdBy[t] # NoRow => createdBy'[t] = createdBy[t],
           u \in TenantUserIds => WithinProvider(u)'
    PROVE  BceidHoldsServiceUserOnly'
<1> SUFFICES ASSUME NEW v \in TenantUserIds \ {u}, NEW r \in Roles,
                    Active(v)', HasRole(v, r)', idpType'[tenantUser'[v].sso] # Idir,
                    r # ServiceUser
             PROVE  createdBy'[tenantUser'[v].tenant] = tenantUser'[v].sso
  BY DEF BceidHoldsServiceUserOnly, WithinProvider
<1>1. Active(v) /\ HasRole(v, r) /\ tenantUser'[v] = tenantUser[v]
  BY DEF OthersUnchanged, Active, Exists, HasRole
<1>2. tenantUser[v].sso \in Users /\ tenantUser[v].tenant \in Tenants
  BY <1>1 DEF TypeOK, Active, Exists, TenantUserRow
<1>3. idpType[tenantUser[v].sso] # Idir
  BY <1>1, <1>2, NoRowAssumption DEF IdpTypes
<1>4. createdBy[tenantUser[v].tenant] = tenantUser[v].sso
  BY <1>1, <1>3 DEF BceidHoldsServiceUserOnly
<1> QED
  BY <1>1, <1>2, <1>4, NoRowAssumption

\* What a plan makes active is within the provider it was made for.
LEMMA SavedRolesWithin ==
    ASSUME TypeOK, NEW u \in TenantUserIds, NEW idp, NEW asked \in SUBSET Roles,
           SaveRoles(u, RolePlan(roleRow[u], idp, asked)), NEW r \in Roles,
           HasRole(u, r)'
    PROVE  HasRole(u, r) \/ idp = Idir \/ r = ServiceUser
<1> DEFINE plan == RolePlan(roleRow[u], idp, asked)
<1>1. roleRow[u] \in [Roles -> [Copies -> Statuses]]
  BY DEF TypeOK
<1>2. /\ r \in plan.create => Assignable(idp, r)
      /\ \A k \in Copies : <<r, k>> \in plan.restore => Assignable(idp, r)
  BY <1>1, RolePlanSound
<1>3. roleRow'[u] = ApplyPlan(roleRow[u], plan)
  BY DEF SaveRoles, TypeOK
<1> HIDE DEF plan
<1> QED
  BY <1>1, <1>2, <1>3, ApplyPlanActive DEF HasRole, Assignable

\* A user stored for the first time, or again.
LEMMA StoredIdpStays ==
    ASSUME TypeOK, NEW s \in Users, NEW idp \in IdpTypes,
           idpType' = [idpType EXCEPT ![s] = StoredIdp(s, idp)]
    PROVE  /\ \A x \in Users : idpType[x] # NoRow => idpType'[x] = idpType[x]
           /\ idpType'[s] = StoredIdp(s, idp)
BY DEF TypeOK, StoredIdp

LEMMA NextWithinProvider ==
    ASSUME TypeOK, RemovedUserHasNothing, BceidHoldsServiceUserOnly, [Next]_vars
    PROVE  BceidHoldsServiceUserOnly'
<1> USE NoRowAssumption
<1>1. ASSUME NEW t \in Tenants, NEW s \in Users, NEW idp \in IdpTypes,
             NEW u \in TenantUserIds, CreateTenant(t, s, idp, u)
      PROVE  BceidHoldsServiceUserOnly'
  <2>1. tenantUser'[u].tenant = t /\ tenantUser'[u].sso = s
    BY <1>1, SaveTenantUserRowOf DEF CreateTenant
  <2>2. /\ createdBy'[t] = s
        /\ \A x \in Tenants : createdBy[x] # NoRow => createdBy'[x] = createdBy[x]
    BY <1>1 DEF CreateTenant, TenantExists, TypeOK
  <2>3. WithinProvider(u)'
    BY <2>1, <2>2 DEF WithinProvider
  <2>4. \A x \in Users : idpType[x] # NoRow => idpType'[x] = idpType[x]
    BY <1>1, StoredIdpStays DEF CreateTenant
  <2> QED
    BY <1>1, <2>2, <2>3, <2>4, CreateTenantOthers, WithinProviderFrame
\* Adding a user with these roles, in addTenantUsers or in ensureTenantUserExists.
<1>2. ASSUME NEW t \in Tenants, NEW s \in Users, NEW idp \in IdpTypes,
             NEW u \in TenantUserIds, NEW asked \in SUBSET Roles,
             ~Active(u), SaveTenantUser(u, t, s),
             idpType' = [idpType EXCEPT ![s] = StoredIdp(s, idp)],
             SaveRoles(u, RolePlan(roleRow[u], StoredIdp(s, idp), asked)),
             createdBy' = createdBy, OthersUnchanged(u)
      PROVE  BceidHoldsServiceUserOnly'
  <2>1. tenantUser'[u].sso = s
    BY <1>2, SaveTenantUserRowOf
  <2>2. idpType'[s] = StoredIdp(s, idp)
    BY <1>2, StoredIdpStays
  <2>3. \A r \in Roles : ~HasRole(u, r)
    BY <1>2 DEF RemovedUserHasNothing
  <2> DEFINE given == StoredIdp(s, idp)
  <2>4. SaveRoles(u, RolePlan(roleRow[u], given, asked)) /\ idpType'[s] = given
    BY <1>2, <2>2
  <2> HIDE DEF given
  <2>5. \A r \in Roles : HasRole(u, r)' => given = Idir \/ r = ServiceUser
    BY <2>3, <2>4, SavedRolesWithin
  <2>6. WithinProvider(u)'
    BY <2>1, <2>4, <2>5 DEF WithinProvider
  <2>7. \A x \in Users : idpType[x] # NoRow => idpType'[x] = idpType[x]
    BY <1>2, StoredIdpStays
  <2> QED
    BY <1>2, <2>6, <2>7, WithinProviderFrame
<1>3. ASSUME NEW t \in Tenants, NEW s \in Users, NEW idp \in IdpTypes,
             NEW asked \in SUBSET Roles, NEW groups \in SUBSET Groups,
             NEW u \in TenantUserIds, AddTenantUser(t, s, idp, asked, groups, u)
      PROVE  BceidHoldsServiceUserOnly'
  <2>1. RoleIdsToAssign(idp, asked) \in SUBSET Roles
    BY RolesAssumption DEF RoleIdsToAssign
  <2>2. ~Active(u)
    BY <1>3 DEF AddTenantUser, SoftDeletedTenantUser, Active
  <2> QED
    BY <1>2, <1>3, <2>1, <2>2, AddTenantUserOthers DEF AddTenantUser
\* A step that leaves users, their providers and creators alone.
<1> DEFINE SameUsers == /\ createdBy' = createdBy
                        /\ tenantUser' = tenantUser
                        /\ idpType' = idpType
<1>4. ASSUME SameUsers,
             \A u \in TenantUserIds, r \in Roles : HasRole(u, r)' => HasRole(u, r)
      PROVE  BceidHoldsServiceUserOnly'
  BY <1>4 DEF BceidHoldsServiceUserOnly, Active, Exists
<1>5. ASSUME NEW t \in Tenants, NEW u \in TenantUserIds,
             NEW asked \in SUBSET Roles, AssignUserRoles(t, u, asked)
      PROVE  BceidHoldsServiceUserOnly'
  <2> DEFINE given == idpType[tenantUser[u].sso]
  <2>1. SameUsers /\ SaveRoles(u, RolePlan(roleRow[u], given, asked))
    BY <1>5 DEF AssignUserRoles
  <2>2. given = idpType'[tenantUser'[u].sso]
    BY <2>1
  <2> HIDE DEF given
  <2>3. \A r \in Roles : HasRole(u, r)' => HasRole(u, r) \/ given = Idir \/ r = ServiceUser
    BY <2>1, SavedRolesWithin
  <2>4. WithinProvider(u)'
    BY <2>1, <2>2, <2>3 DEF WithinProvider, BceidHoldsServiceUserOnly, Active, Exists
  <2> QED
    BY <1>5, <2>1, <2>4, AssignUserRolesOthers, WithinProviderFrame
<1>6. ASSUME NEW t \in Tenants, NEW u \in TenantUserIds, NEW r \in Roles,
             UnassignUserRoles(t, u, r)
      PROVE  BceidHoldsServiceUserOnly'
  <2>1. \A v \in TenantUserIds, x \in Roles : roleRow'[v][x] =
            IF v = u /\ x = r THEN SoftDelete(roleRow[v][x]) ELSE roleRow[v][x]
    BY <1>6 DEF UnassignUserRoles, TypeOK
  <2>2. ~Has(SoftDelete(roleRow[u][r]), "active")
    BY SoftDeleteSweeps DEF TypeOK
  <2>3. \A v \in TenantUserIds, x \in Roles : HasRole(v, x)' => HasRole(v, x)
    BY <2>1, <2>2 DEF HasRole
  <2> QED
    BY <1>4, <1>6, <2>3 DEF UnassignUserRoles
<1>7. ASSUME NEW t \in Tenants, NEW u \in TenantUserIds, RemoveTenantUser(t, u)
      PROVE  BceidHoldsServiceUserOnly'
  <2>1. WithinProvider(u)'
    BY <1>7, SweepUserSweeps DEF RemoveTenantUser, WithinProvider, HoldsNothing
  <2> QED
    BY <1>7, <2>1, RemoveTenantUserOthers, WithinProviderFrame DEF RemoveTenantUser
<1>8. ASSUME NEW t \in Tenants, NEW g \in Groups, NEW s \in Users,
             NEW idp \in IdpTypes, NEW u \in TenantUserIds,
             AddGroupUser(t, g, s, idp, u)
      PROVE  BceidHoldsServiceUserOnly'
  <2>1. CASE \E v \in TenantUserIds : RowOf(v, t, s) /\ Active(v)
    BY <1>4, <1>8, <2>1 DEF AddGroupUser, HasRole
  <2>2. CASE ~\E v \in TenantUserIds : RowOf(v, t, s) /\ Active(v)
    <3>1. ~Active(u)
      BY <1>8, <2>2 DEF AddGroupUser, Active
    <3> QED
      BY <1>2, <1>8, <2>2, <3>1, AddGroupUserOthers, RolesAssumption DEF AddGroupUser
  <2> QED
    BY <2>1, <2>2
<1>9. ASSUME NEW t \in Tenants, NEW g \in Groups,
             NEW w \in TenantUserIds \union {NoRow}, CreateGroup(t, g, w)
      PROVE  BceidHoldsServiceUserOnly'
  BY <1>4, <1>9 DEF CreateGroup, HasRole
<1>10. ASSUME NEW t \in Tenants, NEW g \in Groups, NEW u \in TenantUserIds,
              NEW k \in Copies, RemoveGroupUser(t, g, u, k)
       PROVE  BceidHoldsServiceUserOnly'
  BY <1>4, <1>10 DEF RemoveGroupUser, HasRole
<1>11. CASE UNCHANGED vars
  BY <1>4, <1>11 DEF vars, HasRole
<1> QED
  BY <1>1, <1>3, <1>5, <1>6, <1>7, <1>8, <1>9, <1>10, <1>11
  DEF Next, RolesInBody, RoleIdsInBody, FirstMembers

\* A user stored as bceidbusiness never holds more than SERVICE_USER in a tenant
\* that was not created for the user.
THEOREM BceidUsersAreServiceUsers == Spec => []BceidHoldsServiceUserOnly
<1>1. Init => BceidHoldsServiceUserOnly
  BY DEF Init, BceidHoldsServiceUserOnly, Active, Exists
<1>2. TypeOK /\ RemovedUserHasNothing /\ BceidHoldsServiceUserOnly /\ [Next]_vars
        => BceidHoldsServiceUserOnly'
  BY NextWithinProvider
<1> QED
  BY <1>1, <1>2, TypeCorrect, RemovedHasNothing, PTL DEF Spec

-----------------------------------------------------------------------------
(* The answers of different queries. *)

\* The agreement of the reads is a matter of the tables being in order: every
\* active user holds a role, a removed one nothing, and a tenant has one row of
\* a user.
LEMMA ReadsAgreeInOrder ==
    ASSUME TypeOK, ActiveUserHasRole, RemovedUserHasNothing, OneRowPerTenantAndUser
    PROVE  ReadsAgree
<1>1. ASSUME NEW t \in Tenants, NEW u \in TenantUserIds, u \in UsersOf(t)
      PROVE  /\ OpensWithRoles(t, u)
             /\ RolesListed(u) = RolesForUser(u)
             /\ RolesListed(u) = RolesForSSOUser(t, tenantUser[u].sso)
             /\ \A r \in Roles :
                  UserTenantAccess(t, tenantUser[u].sso, {r}) <=> r \in RolesListed(u)
  <2>1. Active(u) /\ RowOf(u, t, tenantUser[u].sso) /\ tenantUser[u].sso \in Users
    BY <1>1 DEF UsersOf, RowOf, InTenant, Exists, TypeOK, TenantUserRow
  <2>2. \A v \in TenantUserIds : RowOf(v, t, tenantUser[u].sso) => v = u
    BY <2>1 DEF OneRowPerTenantAndUser
  <2>3. OpensWithRoles(t, u)
    BY <1>1, <2>1 DEF OpensWithRoles, ActiveUserHasRole
  <2>4. RolesListed(u) = RolesForUser(u)
    BY <2>1 DEF RolesListed, RolesForUser
  <2>5. RolesListed(u) = RolesForSSOUser(t, tenantUser[u].sso)
    BY <2>1, <2>2 DEF RolesListed, RolesForSSOUser
  <2>6. \A r \in Roles :
            UserTenantAccess(t, tenantUser[u].sso, {r}) <=> r \in RolesListed(u)
    BY <2>1, <2>2 DEF RolesListed, UserTenantAccess
  <2> QED
    BY <2>3, <2>4, <2>5, <2>6
<1>2. ASSUME NEW t \in Tenants, NEW s \in Users, NEW required \in SUBSET Roles
      PROVE  AccessWithRoles(t, s, required) <=> UserTenantAccess(t, s, required)
  BY DEF AccessWithRoles, UserTenantAccess, ActiveUserHasRole
<1>3. ASSUME NEW s \in Users
      PROVE  /\ TenantsForUser(s) = {t \in Tenants : UserTenantAccess(t, s, {})}
             /\ TenantsForUserWithRoles(s) = TenantsForUser(s)
  <2>1. TenantsForUser(s) = {t \in Tenants : UserTenantAccess(t, s, {})}
    BY DEF TenantsForUser, UserTenantAccess
  <2>2. \A t \in TenantsForUser(s) : \E u \in TenantUserIds, r \in Roles :
            InTenant(u, t) /\ Active(u) /\ HasRole(u, r)
    BY DEF TenantsForUser, RowOf, ActiveUserHasRole
  <2> QED
    BY <2>1, <2>2 DEF TenantsForUserWithRoles
<1>4. ASSUME NEW g \in Groups, groupTenant[g] # NoRow
      PROVE  /\ \A u \in MembersOf(g) : MemberUser(u) = u
             /\ UsersInGroups(groupTenant[g], {g}) =
                    {u \in MembersOf(g) : InTenant(u, groupTenant[g])}
  <2>1. \A u \in TenantUserIds : IsMember(u, g) => Active(u)
    BY DEF RemovedUserHasNothing
  <2> QED
    BY <2>1 DEF MembersOf, MemberUser, UsersInGroups, UsersOf
<1> QED
  BY <1>1, <1>2, <1>3, <1>4 DEF ReadsAgree

\* What one query lists another opens, and the access check admits exactly whom
\* they show.
THEOREM QueriesAgree == Spec => []ReadsAgree
<1>1. TypeOK /\ ActiveUserHasRole /\ RemovedUserHasNothing /\ OneRowPerTenantAndUser
        => ReadsAgree
  BY ReadsAgreeInOrder
<1> QED
  BY <1>1, TypeCorrect, ActiveUsersHoldRoles, RemovedHasNothing, UsersNotDuplicated, PTL

-----------------------------------------------------------------------------
(* The states of a request, by handler. *)

AssignState ==
    [op : {"assign"}, at : {"existing", "deleted", "write"},
     tenantUser : TenantUserIds, roles : SUBSET Roles,
     existing : SUBSET Roles, plan : RolePlans]
UnassignState ==
    [op : {"unassign"}, at : {"owners", "count", "write"},
     tenant : Tenants, tenantUser : TenantUserIds, role : Roles]
RemoveState ==
    [op : {"remove"}, at : {"owners", "roles", "user", "members", "commit"},
     tenant : Tenants, tenantUser : TenantUserIds,
     roleRows : SUBSET (Roles \X Copies), memberRows : SUBSET (Groups \X Copies)]
AddState ==
    [op : {"add"},
     at : {"insert", "restore", "existing", "deleted", "groups", "members", "write"},
     tenant : Tenants, tenantUser : TenantUserIds \union {NoRow},
     sso : Users, idp : IdpTypes, roles : SUBSET Roles, groups : SUBSET Groups,
     existing : SUBSET Roles, plan : RolePlans, memberPlan : MemberPlans]
AddToGroupState ==
    [op : {"addToGroup"},
     at : {"insert", "restore", "existing", "deleted", "member", "wasMember", "write"},
     tenant : Tenants, tenantUser : TenantUserIds \union {NoRow},
     sso : Users, idp : IdpTypes, group : Groups, roles : SUBSET Roles,
     existing : SUBSET Roles, plan : RolePlans, memberPlan : MemberPlans]
CreateGroupState ==
    [op : {"createGroup"}, at : {"write"},
     tenant : Tenants, group : Groups, tenantUser : TenantUserIds]

LEMMA RequestStates ==
    /\ Idle \in RequestState
    /\ AssignState \subseteq RequestState
    /\ UnassignState \subseteq RequestState
    /\ RemoveState \subseteq RequestState
    /\ AddState \subseteq RequestState
    /\ AddToGroupState \subseteq RequestState
    /\ CreateGroupState \subseteq RequestState
BY DEF Idle, RequestState, AssignState, UnassignState, RemoveState, AddState,
       AddToGroupState, CreateGroupState

\* The handler a request runs tells what it has in hand.
LEMMA StateOfHandler ==
    ASSUME NEW st \in RequestState
    PROVE  /\ st.op = "assign" => st \in AssignState
           /\ st.op = "unassign" => st \in UnassignState
           /\ st.op = "remove" => st \in RemoveState
           /\ st.op = "add" => st \in AddState
           /\ st.op = "addToGroup" => st \in AddToGroupState
           /\ st.op = "createGroup" => st \in CreateGroupState
           /\ st.op = "idle" <=> st = Idle
<1>1. \/ st \in [op : {"idle"}] \/ st \in AssignState \/ st \in UnassignState
      \/ st \in RemoveState \/ st \in AddState \/ st \in AddToGroupState
      \/ st \in CreateGroupState
  BY DEF RequestState, AssignState, UnassignState, RemoveState, AddState, AddToGroupState,
         CreateGroupState
<1>2. st \in [op : {"idle"}] => st = Idle
  BY DEF Idle
<1>3. Idle.op = "idle"
  BY DEF Idle
<1>4. /\ st \in AssignState => st.op = "assign"
      /\ st \in UnassignState => st.op = "unassign"
      /\ st \in RemoveState => st.op = "remove"
      /\ st \in AddState => st.op = "add"
      /\ st \in AddToGroupState => st.op = "addToGroup"
      /\ st \in CreateGroupState => st.op = "createGroup"
  BY DEF AssignState, UnassignState, RemoveState, AddState, AddToGroupState, CreateGroupState
<1> QED
  BY <1>1, <1>2, <1>3, <1>4

LEMMA NoPlanType == NoPlan \in RolePlans /\ NoPlan \in MemberPlans
BY DEF NoPlan, RolePlans, MemberPlans

-----------------------------------------------------------------------------
(* Type correctness. *)

\* A request that goes on leaves the tables alone; one that finishes is idle.
LEMMA BecomesType ==
    ASSUME CTypeOK, NEW q \in Requests, NEW st \in RequestState, Becomes(q, st)
    PROVE  CTypeOK'
BY DEF CTypeOK, TypeOK, Becomes, vars

LEMMA FinishType ==
    ASSUME CTypeOK, NEW q \in Requests, Finish(q)
    PROVE  request' \in [Requests -> RequestState]
BY RequestStates DEF CTypeOK, Finish

LEMMA StartType ==
    ASSUME CTypeOK, NEW q \in Requests, Start(q)
    PROVE  CTypeOK'
<1>1. ASSUME NEW t \in Tenants, NEW u \in TenantUserIds, NEW asked \in SUBSET Roles,
             StartAssign(q, t, u, asked)
      PROVE  CTypeOK'
  <2> DEFINE st == [op |-> "assign", at |-> "existing", tenantUser |-> u,
                    roles |-> asked, existing |-> {}, plan |-> NoPlan]
  <2>1. st \in AssignState
    BY NoPlanType DEF AssignState
  <2>2. Becomes(q, st)
    BY <1>1 DEF StartAssign
  <2> QED
    BY <2>1, <2>2, RequestStates, BecomesType
<1>2. ASSUME NEW t \in Tenants, NEW u \in TenantUserIds, NEW r \in Roles,
             StartUnassign(q, t, u, r)
      PROVE  CTypeOK'
  <2> DEFINE st == [op |-> "unassign",
                    at |-> IF r = TenantOwner THEN "owners" ELSE "count",
                    tenant |-> t, tenantUser |-> u, role |-> r]
  <2>1. st \in UnassignState
    BY DEF UnassignState
  <2>2. Becomes(q, st)
    BY <1>2 DEF StartUnassign
  <2> QED
    BY <2>1, <2>2, RequestStates, BecomesType
<1>3. ASSUME NEW t \in Tenants, NEW u \in TenantUserIds, StartRemove(q, t, u)
      PROVE  CTypeOK'
  <2> DEFINE st == [op |-> "remove",
                    at |-> IF HasRole(u, TenantOwner) THEN "owners" ELSE "roles",
                    tenant |-> t, tenantUser |-> u, roleRows |-> {}, memberRows |-> {}]
  <2>1. st \in RemoveState
    BY DEF RemoveState
  <2>2. Becomes(q, st)
    BY <1>3 DEF StartRemove
  <2> QED
    BY <2>1, <2>2, RequestStates, BecomesType
<1>4. ASSUME NEW t \in Tenants, NEW s \in Users, NEW idp \in IdpTypes,
             NEW groups \in SUBSET Groups, NEW u \in TenantUserIds \union {NoRow},
             NEW asked \in SUBSET Roles, StartAdd(q, t, s, idp, asked, groups, u)
      PROVE  CTypeOK'
  <2> DEFINE st == [op |-> "add", at |-> IF u = NoRow THEN "insert" ELSE "restore",
                    tenant |-> t, tenantUser |-> u, sso |-> s, idp |-> idp,
                    roles |-> asked, groups |-> groups,
                    existing |-> {}, plan |-> NoPlan, memberPlan |-> NoPlan]
  <2>1. st \in AddState
    BY NoPlanType DEF AddState
  <2>2. Becomes(q, st)
    BY <1>4 DEF StartAdd
  <2> QED
    BY <2>1, <2>2, RequestStates, BecomesType
<1>5. ASSUME NEW t \in Tenants, NEW g \in Groups, NEW s \in Users,
             NEW idp \in IdpTypes, NEW u \in TenantUserIds \union {NoRow},
             StartAddToGroup(q, t, g, s, idp, u)
      PROVE  CTypeOK'
  <2> DEFINE st == [op |-> "addToGroup",
                    at |-> IF u = NoRow THEN "insert"
                           ELSE IF Active(u) THEN "member" ELSE "restore",
                    tenant |-> t, tenantUser |-> u, sso |-> s, idp |-> idp,
                    group |-> g, roles |-> {ServiceUser},
                    existing |-> {}, plan |-> NoPlan, memberPlan |-> NoPlan]
  <2>1. st \in AddToGroupState
    BY NoPlanType, RolesAssumption DEF AddToGroupState
  <2>2. Becomes(q, st)
    BY <1>5 DEF StartAddToGroup
  <2> QED
    BY <2>1, <2>2, RequestStates, BecomesType
<1>6. ASSUME NEW t \in Tenants, NEW g \in Groups, NEW w \in TenantUserIds,
             StartCreateGroup(q, t, g, w)
      PROVE  CTypeOK'
  <2> DEFINE st == [op |-> "createGroup", at |-> "write",
                    tenant |-> t, group |-> g, tenantUser |-> w]
  <2>1. st \in CreateGroupState
    BY DEF CreateGroupState
  <2>2. Becomes(q, st)
    BY <1>6 DEF StartCreateGroup
  <2> QED
    BY <2>1, <2>2, RequestStates, BecomesType
<1> QED
  BY <1>1, <1>2, <1>3, <1>4, <1>5, <1>6 DEF Start, RolesInBody, RoleIdsInBody

\* What the handlers are made of: queries and UPDATEs that go on, and commits.
Reads(q) ==
    \/ ReadExistingRoles(q)
    \/ ReadDeletedRoles(q)
    \/ CountOtherOwners(q)
    \/ CountRoles(q)
    \/ CountActiveOwners(q)
    \/ SweepRoles(q)
    \/ SweepTenantUser(q)
    \/ SweepMemberships(q)
    \/ AddFoundRestored(q)
    \/ ReadMemberships(q)
    \/ ReadDeletedMemberships(q)
    \/ MemberFoundRestored(q)
    \/ ReadMember(q)
    \/ ReadDeletedMember(q)

AddsUser == {"add", "addToGroup"}
Writes(q) ==
    \/ WriteAssign(q)
    \/ WriteUnassign(q)
    \/ CommitRemoval(q)
    \/ \E u \in TenantUserIds : WriteAdd(q, u)
    \/ \E op \in AddsUser : WriteRolesAndMembers(q, op)
    \/ \E u \in TenantUserIds : WriteUserAndMember(q, u)
    \/ WriteCreateGroup(q)

LEMMA ContinueReadsOrWrites ==
    ASSUME NEW q, Continue(q)
    PROVE  Reads(q) \/ Writes(q) \/ Abort(q)
BY DEF Continue, Reads, Writes, AddsUser

LEMMA ReadsBecome ==
    ASSUME NEW q, Reads(q)
    PROVE  \E new : Becomes(q, new)
<1>1. CASE ReadExistingRoles(q)
  BY <1>1 DEF ReadExistingRoles
<1>2. CASE ReadDeletedRoles(q)
  BY <1>2 DEF ReadDeletedRoles
<1>3. CASE SweepRoles(q) \/ SweepTenantUser(q) \/ SweepMemberships(q)
  BY <1>3 DEF SweepRoles, SweepTenantUser, SweepMemberships
<1>4. CASE AddFoundRestored(q) \/ MemberFoundRestored(q)
  BY <1>4 DEF AddFoundRestored, MemberFoundRestored, FoundRestored
<1>5. CASE ReadMemberships(q) \/ ReadDeletedMemberships(q)
  BY <1>5 DEF ReadMemberships, ReadDeletedMemberships
<1>6. CASE ReadMember(q) \/ ReadDeletedMember(q)
  BY <1>6 DEF ReadMember, ReadDeletedMember, Advance
<1>7. CASE CountOtherOwners(q) \/ CountRoles(q) \/ CountActiveOwners(q)
  BY <1>7 DEF CountOtherOwners, CountRoles, CountActiveOwners, Advance
<1> QED
  BY <1>1, <1>2, <1>3, <1>4, <1>5, <1>6, <1>7 DEF Reads

LEMMA WritesFinish ==
    ASSUME NEW q, Writes(q)
    PROVE  Finish(q) /\ ~Free(q)
BY DEF Writes, AddsUser, WriteAssign, WriteUnassign, CommitRemoval, WriteAdd,
       SavesTenantUser, WriteRolesAndMembers, WriteUserAndMember, WriteCreateGroup,
       At, Free, Idle

LEMMA AssignPlanType ==
    ASSUME TypeOK, NEW q, request[q].tenantUser \in TenantUserIds,
           request[q].roles \in SUBSET Roles
    PROVE  AssignPlan(q) \in RolePlans
<1> DEFINE u == request[q].tenantUser
           idp == idpType[tenantUser[u].sso]
<1>1. roleRow[u] \in [Roles -> [Copies -> Statuses]]
  BY DEF TypeOK
<1>2. RolePlan(roleRow[u], idp, request[q].roles).restore \subseteq Roles \X Copies
  <2> HIDE DEF u, idp
  <2> QED
    BY <1>1, RolePlanSound
<1> QED
  BY <1>2 DEF AssignPlan, RolePlans

LEMMA MemberPlanType ==
    ASSUME NEW rows \in [Groups -> [Copies -> Statuses]], NEW g \in Groups
    PROVE  MemberPlan(rows, g) \in MemberPlans
<1>1. Has(rows[g], "deleted") => OneWith(rows[g], "deleted") \in Copies
  BY DEF Has, OneWith
<1> QED
  BY <1>1 DEF MemberPlan, MemberPlans

\* A request that has found its tenant user holds on to a row that is there.
HasTarget(q) ==
    /\ request[q].op \in {"assign", "unassign", "remove", "createGroup"} =>
        Exists(request[q].tenantUser)
    /\ request[q].op \in AddsUser /\ request[q].at # "insert" =>
        /\ request[q].tenantUser \in TenantUserIds
        /\ RowOf(request[q].tenantUser, request[q].tenant, request[q].sso)

TargetsExist == \A q \in Requests : HasTarget(q)

\* Who gives roles has them, and the row to give them to, in hand by then.
LEMMA RolesInHand ==
    ASSUME CTypeOK, NEW q \in Requests, HasTarget(q), request[q].op \in GivesRoles,
           request[q].at # "insert"
    PROVE  /\ request[q].tenantUser \in TenantUserIds
           /\ Exists(request[q].tenantUser)
           /\ request[q].roles \in SUBSET Roles
           /\ request[q].existing \in SUBSET Roles
           /\ request[q].plan \in RolePlans
<1>1. request[q] \in RequestState
  BY DEF CTypeOK
<1>2. CASE request[q].op = "assign"
  BY <1>1, <1>2, StateOfHandler DEF AssignState, HasTarget
<1>3. CASE request[q].op = "add"
  BY <1>1, <1>3, StateOfHandler DEF AddState, HasTarget, AddsUser, RowOf, InTenant
<1>4. CASE request[q].op = "addToGroup"
  BY <1>1, <1>4, StateOfHandler DEF AddToGroupState, HasTarget, AddsUser, RowOf, InTenant
<1> QED
  BY <1>2, <1>3, <1>4 DEF GivesRoles

\* What a query may change of what a request knows: not whom it is about, and of
\* the roles to give only the whole plan.
Moves(q, new) ==
    /\ new.op = request[q].op
    /\ new.tenantUser = request[q].tenantUser
    /\ request[q].op \in AddsUser =>
        /\ request[q].at # "insert" /\ new.at # "insert"
        /\ new.tenant = request[q].tenant /\ new.sso = request[q].sso
    /\ request[q].op \in GivesRoles => new.plan \in {request[q].plan, AssignPlan(q)}

LEMMA ReadsMove ==
    ASSUME CTypeOK, NEW q \in Requests, HasTarget(q), Reads(q)
    PROVE  \E new \in RequestState : Becomes(q, new) /\ Moves(q, new)
<1> DEFINE st == request[q]
<1>0. TypeOK /\ st \in RequestState
  BY DEF CTypeOK
<1> USE DEF Moves, GivesRoles, AddsUser
<1>1. CASE ReadExistingRoles(q)
  <2> DEFINE existing == {r \in Roles : Active(st.tenantUser) /\ HasRole(st.tenantUser, r)}
             new == [st EXCEPT !.at = "deleted", !.existing = existing]
  <2>1. Becomes(q, new) /\ st.op \in GivesRoles
    BY <1>1 DEF ReadExistingRoles
  <2>2. existing \in SUBSET Roles
    OBVIOUS
  <2>3. st.op \in AddsUser => st.at # "insert"
    BY <1>1 DEF ReadExistingRoles
  <2> HIDE DEF existing
  <2>4. CASE st.op = "assign"
    <3>1. st \in AssignState
      BY <1>0, <2>4, StateOfHandler
    <3>2. new \in AssignState
      BY <2>2, <3>1 DEF AssignState
    <3>3. Moves(q, new)
      BY <2>3, <3>1 DEF AssignState
    <3> QED
      BY <2>1, <3>2, <3>3, RequestStates
  <2>5. CASE st.op = "add"
    <3>1. st \in AddState
      BY <1>0, <2>5, StateOfHandler
    <3>2. new \in AddState
      BY <2>2, <3>1 DEF AddState
    <3>3. Moves(q, new)
      BY <2>3, <3>1 DEF AddState
    <3> QED
      BY <2>1, <3>2, <3>3, RequestStates
  <2>6. CASE st.op = "addToGroup"
    <3>1. st \in AddToGroupState
      BY <1>0, <2>6, StateOfHandler
    <3>2. new \in AddToGroupState
      BY <2>2, <3>1 DEF AddToGroupState
    <3>3. Moves(q, new)
      BY <2>3, <3>1 DEF AddToGroupState
    <3> QED
      BY <2>1, <3>2, <3>3, RequestStates
  <2> QED
    BY <2>1, <2>4, <2>5, <2>6
<1>2. CASE ReadDeletedRoles(q)
  <2> DEFINE plan == AssignPlan(q)
             next == AfterRoles[st.op]
             new == [st EXCEPT !.at = next, !.plan = plan]
  <2>1. Becomes(q, new)
    BY <1>2 DEF ReadDeletedRoles
  <2>2. st.op \in GivesRoles /\ st.at = "deleted"
    BY <1>2 DEF ReadDeletedRoles
  <2>3. plan \in RolePlans
    BY <1>0, <2>2, RolesInHand, AssignPlanType
  <2>4. /\ st.op = "assign" => AfterRoles[st.op] = "write"
        /\ st.op = "add" => AfterRoles[st.op] = "groups"
        /\ st.op = "addToGroup" => AfterRoles[st.op] = "member"
    BY DEF AfterRoles
  <2>5. plan = AssignPlan(q)
    OBVIOUS
  <2> HIDE DEF plan
  <2>6. CASE st.op = "assign"
    <3>1. st \in AssignState
      BY <1>0, <2>6, StateOfHandler
    <3>2. new \in AssignState
      BY <2>3, <2>4, <2>6, <3>1 DEF AssignState
    <3>3. Moves(q, new)
      BY <2>2, <2>4, <2>5, <2>6, <3>1 DEF AssignState
    <3> QED
      BY <2>1, <3>2, <3>3, RequestStates
  <2>7. CASE st.op = "add"
    <3>1. st \in AddState
      BY <1>0, <2>7, StateOfHandler
    <3>2. new \in AddState
      BY <2>3, <2>4, <2>7, <3>1 DEF AddState
    <3>3. Moves(q, new)
      BY <2>2, <2>4, <2>5, <2>7, <3>1 DEF AddState
    <3> QED
      BY <2>1, <3>2, <3>3, RequestStates
  <2>8. CASE st.op = "addToGroup"
    <3>1. st \in AddToGroupState
      BY <1>0, <2>8, StateOfHandler
    <3>2. new \in AddToGroupState
      BY <2>3, <2>4, <2>8, <3>1 DEF AddToGroupState
    <3>3. Moves(q, new)
      BY <2>2, <2>4, <2>5, <2>8, <3>1 DEF AddToGroupState
    <3> QED
      BY <2>1, <3>2, <3>3, RequestStates
  <2> QED
    BY <2>2, <2>6, <2>7, <2>8
<1>3. CASE CountOtherOwners(q) \/ CountRoles(q)
  <2>1. st \in UnassignState
    BY <1>0, <1>3, StateOfHandler DEF CountOtherOwners, CountRoles, At
  <2>2. ASSUME NEW at \in {"count", "write"}, Advance(q, at)
        PROVE  \E new \in RequestState : Becomes(q, new) /\ Moves(q, new)
    <3>1. [st EXCEPT !.at = at] \in UnassignState /\ Moves(q, [st EXCEPT !.at = at])
      BY <2>1 DEF UnassignState
    <3> QED
      BY <2>2, <3>1, RequestStates DEF Advance
  <2> QED
    BY <1>3, <2>2 DEF CountOtherOwners, CountRoles
<1>4. CASE CountActiveOwners(q) \/ SweepRoles(q) \/ SweepTenantUser(q) \/ SweepMemberships(q)
  <2>1. st \in RemoveState
    BY <1>0, <1>4, StateOfHandler
       DEF CountActiveOwners, SweepRoles, SweepTenantUser, SweepMemberships, At
  <2>2. ASSUME NEW new \in RemoveState, new.tenantUser = st.tenantUser, Becomes(q, new)
        PROVE  \E x \in RequestState : Becomes(q, x) /\ Moves(q, x)
    <3>1. Moves(q, new)
      BY <2>1, <2>2 DEF RemoveState
    <3> QED
      BY <2>2, <3>1, RequestStates
  <2>3. CASE CountActiveOwners(q)
    BY <2>1, <2>2, <2>3 DEF CountActiveOwners, Advance, RemoveState
  <2>4. CASE SweepRoles(q) \/ SweepTenantUser(q)
    <3> DEFINE rows == ActiveRoleRows(st.tenantUser)
               first == [st EXCEPT !.at = "user", !.roleRows = rows]
               second == [st EXCEPT !.at = "members", !.roleRows = @ \intersect rows]
    <3>1. rows \in SUBSET (Roles \X Copies)
      BY DEF ActiveRoleRows
    <3>2. Becomes(q, first) \/ Becomes(q, second)
      BY <2>4 DEF SweepRoles, SweepTenantUser
    <3> HIDE DEF rows
    <3>3. /\ first \in RemoveState /\ first.tenantUser = st.tenantUser
          /\ second \in RemoveState /\ second.tenantUser = st.tenantUser
      BY <2>1, <3>1 DEF RemoveState
    <3> QED
      BY <2>2, <3>2, <3>3
  <2>5. CASE SweepMemberships(q)
    <3> DEFINE rows == ActiveMemberRows(st.tenantUser)
               new == [st EXCEPT !.at = "commit", !.memberRows = rows]
    <3>1. rows \in SUBSET (Groups \X Copies)
      BY DEF ActiveMemberRows
    <3>2. Becomes(q, new)
      BY <2>5 DEF SweepMemberships
    <3> HIDE DEF rows
    <3>3. new \in RemoveState /\ new.tenantUser = st.tenantUser
      BY <2>1, <3>1 DEF RemoveState
    <3> QED
      BY <2>2, <3>2, <3>3
  <2> QED
    BY <1>4, <2>3, <2>4, <2>5
<1>5. CASE AddFoundRestored(q)
  <2> DEFINE asked == RoleIdsToAssign(st.idp, st.roles)
             new == [st EXCEPT !.at = "existing", !.roles = asked]
  <2>1. st \in AddState /\ st.at = "restore" /\ Becomes(q, new)
    BY <1>0, <1>5, StateOfHandler DEF AddFoundRestored, FoundRestored, At
  <2>2. asked \in SUBSET Roles
    BY <2>1, RolesAssumption DEF RoleIdsToAssign, AddState
  <2> HIDE DEF asked
  <2>3. new \in AddState /\ Moves(q, new)
    BY <2>1, <2>2 DEF AddState
  <2> QED
    BY <2>1, <2>3, RequestStates
<1>6. CASE MemberFoundRestored(q)
  <2> DEFINE new == [st EXCEPT !.at = "existing", !.roles = {ServiceUser}]
  <2>1. st \in AddToGroupState /\ st.at = "restore" /\ Becomes(q, new)
    BY <1>0, <1>6, StateOfHandler DEF MemberFoundRestored, FoundRestored, At
  <2>2. new \in AddToGroupState /\ Moves(q, new)
    BY <2>1, RolesAssumption DEF AddToGroupState
  <2> QED
    BY <2>1, <2>2, RequestStates
<1>7. CASE ReadMemberships(q)
  <2> DEFINE existing == ExistingMemberships(groupRow[st.tenantUser], st.groups)
             new == [st EXCEPT !.at = "members", !.groups = @ \ existing]
  <2>1. st \in AddState /\ st.at = "groups" /\ Becomes(q, new)
    BY <1>0, <1>7, StateOfHandler DEF ReadMemberships, At
  <2> HIDE DEF existing
  <2>2. new \in AddState /\ Moves(q, new)
    BY <2>1 DEF AddState
  <2> QED
    BY <2>1, <2>2, RequestStates
<1>8. CASE ReadDeletedMemberships(q)
  <2> DEFINE restore == SoftDeletedMemberships(groupRow[st.tenantUser], st.groups)
             plan == [restore |-> restore, create |-> st.groups \ {x[1] : x \in restore}]
             new == [st EXCEPT !.at = "write", !.memberPlan = plan]
  <2>1. st \in AddState /\ st.at = "members" /\ Becomes(q, new)
    BY <1>0, <1>8, StateOfHandler DEF ReadDeletedMemberships, At
  <2>2. restore \in SUBSET (Groups \X Copies) /\ st.groups \in SUBSET Groups
    BY <2>1 DEF SoftDeletedMemberships, AddState
  <2>3. plan \in MemberPlans
    <3> HIDE DEF restore
    <3> QED
      BY <2>2 DEF MemberPlans
  <2> HIDE DEF plan
  <2>4. new \in AddState /\ Moves(q, new)
    BY <2>1, <2>3 DEF AddState
  <2> QED
    BY <2>1, <2>4, RequestStates
<1>9. CASE ReadMember(q)
  <2> DEFINE new == [st EXCEPT !.at = "wasMember"]
  <2>1. st \in AddToGroupState /\ st.at = "member" /\ Becomes(q, new)
    BY <1>0, <1>9, StateOfHandler DEF ReadMember, Advance, At
  <2>2. new \in AddToGroupState /\ Moves(q, new)
    BY <2>1 DEF AddToGroupState
  <2> QED
    BY <2>1, <2>2, RequestStates
<1>10. CASE ReadDeletedMember(q)
  <2> DEFINE plan == MemberPlan(groupRow[st.tenantUser], st.group)
             new == [st EXCEPT !.at = "write", !.memberPlan = plan]
  <2>1. st \in AddToGroupState /\ st.at = "wasMember" /\ Becomes(q, new)
    BY <1>0, <1>10, StateOfHandler DEF ReadDeletedMember, At
  <2>2. plan \in MemberPlans
    <3>1. st.tenantUser \in TenantUserIds
      BY <2>1 DEF HasTarget, AddToGroupState
    <3> QED
      BY <1>0, <2>1, <3>1, MemberPlanType DEF TypeOK, AddToGroupState
  <2> HIDE DEF plan
  <2>3. new \in AddToGroupState /\ Moves(q, new)
    BY <2>1, <2>2 DEF AddToGroupState
  <2> QED
    BY <2>1, <2>3, RequestStates
<1> QED
  BY <1>1, <1>2, <1>3, <1>4, <1>5, <1>6, <1>7, <1>8, <1>9, <1>10 DEF Reads

\* Flagging rows keeps a table of rows a table of rows, inserts none and makes
\* none active.
LEMMA FlaggedRows ==
    ASSUME NEW X, NEW rows \in [X -> [Copies -> Statuses]], NEW found
    PROVE  /\ Flagged(rows, found) \in [X -> [Copies -> Statuses]]
           /\ \A x \in X : AtMostOneRow(rows[x]) => AtMostOneRow(Flagged(rows, found)[x])
           /\ \A x \in X : Has(Flagged(rows, found)[x], "active") => Has(rows[x], "active")
<1>1. \A x \in X, k \in Copies : Flagged(rows, found)[x][k] =
          IF <<x, k>> \in found /\ rows[x][k] = "active" THEN "deleted" ELSE rows[x][k]
  BY DEF Flagged
<1>2. Flagged(rows, found) \in [X -> [Copies -> Statuses]]
  BY DEF Flagged, Statuses
<1> QED
  BY <1>1, <1>2 DEF AtMostOneRow, Has

LEMMA WritesType ==
    ASSUME CTypeOK, NEW q \in Requests, HasTarget(q), Writes(q)
    PROVE  CTypeOK'
<1> DEFINE st == request[q]
<1>0. TypeOK /\ st \in RequestState
  BY DEF CTypeOK
<1>1. request' \in [Requests -> RequestState]
  BY WritesFinish, FinishType
<1> SUFFICES TypeOK'
  BY <1>1 DEF CTypeOK
<1>2. CASE WriteAssign(q)
  <2>1. st.tenantUser \in TenantUserIds
    BY <1>0, <1>2, StateOfHandler DEF WriteAssign, At, AssignState
  <2>2. roleRow' \in [TenantUserIds -> [Roles -> [Copies -> Statuses]]]
    BY <1>0, <1>2, <2>1, SaveRolesType DEF WriteAssign
  <2> QED
    BY <1>0, <1>2, <2>2 DEF WriteAssign, TypeOK
<1>3. CASE WriteUnassign(q)
  <2>1. st.tenantUser \in TenantUserIds /\ st.role \in Roles
    BY <1>0, <1>3, StateOfHandler DEF WriteUnassign, At, UnassignState
  <2>2. roleRow' \in [TenantUserIds -> [Roles -> [Copies -> Statuses]]]
    BY <1>0, <1>3, <2>1, SoftDeleteType DEF WriteUnassign, TypeOK
  <2> QED
    BY <1>0, <1>3, <2>2 DEF WriteUnassign, TypeOK
<1>4. CASE CommitRemoval(q)
  <2>1. st.tenantUser \in TenantUserIds /\ Exists(st.tenantUser)
    BY <1>0, <1>4, StateOfHandler DEF CommitRemoval, At, RemoveState, HasTarget
  <2>2. tenantUser' \in [TenantUserIds -> TenantUserRow \union {NoRow}]
    BY <1>0, <1>4, <2>1 DEF CommitRemoval, TypeOK, Exists, TenantUserRow
  <2>3. roleRow' \in [TenantUserIds -> [Roles -> [Copies -> Statuses]]]
    BY <1>0, <1>4, <2>1, FlaggedRows DEF CommitRemoval, TypeOK
  <2>4. groupRow' \in [TenantUserIds -> [Groups -> [Copies -> Statuses]]]
    BY <1>0, <1>4, <2>1, FlaggedRows DEF CommitRemoval, TypeOK
  <2> QED
    BY <1>0, <1>4, <2>2, <2>3, <2>4 DEF CommitRemoval, TypeOK
<1>5. ASSUME NEW u \in TenantUserIds, WriteAdd(q, u)
      PROVE  TypeOK'
  <2>1. st.tenant \in Tenants /\ st.sso \in Users /\ st.idp \in IdpTypes
    BY <1>0, <1>5, StateOfHandler DEF WriteAdd, SavesTenantUser, At, AddState
  <2>2. StoredIdp(st.sso, st.idp) \in IdpTypes
    BY <1>0, <2>1, StoredIdpType
  <2>3. tenantUser' \in [TenantUserIds -> TenantUserRow \union {NoRow}]
    BY <1>0, <1>5, <2>1, SaveTenantUserType DEF WriteAdd
  <2>4. roleRow' \in [TenantUserIds -> [Roles -> [Copies -> Statuses]]]
    BY <1>0, <1>5, SaveRolesType DEF WriteAdd
  <2>5. groupRow' \in [TenantUserIds -> [Groups -> [Copies -> Statuses]]]
    BY <1>0, <1>5, SaveMembersType DEF WriteAdd
  <2>6. idpType' \in [Users -> IdpTypes \union {NoRow}]
    BY <1>0, <1>5, <2>2 DEF WriteAdd, TypeOK
  <2> QED
    BY <1>0, <1>5, <2>3, <2>4, <2>5, <2>6 DEF WriteAdd, TypeOK
<1>6. ASSUME NEW op \in AddsUser, WriteRolesAndMembers(q, op)
      PROVE  TypeOK'
  <2>1. st.tenantUser \in TenantUserIds
    BY <1>6 DEF WriteRolesAndMembers, At, HasTarget
  <2>2. roleRow' \in [TenantUserIds -> [Roles -> [Copies -> Statuses]]]
    BY <1>0, <1>6, <2>1, SaveRolesType DEF WriteRolesAndMembers
  <2>3. groupRow' \in [TenantUserIds -> [Groups -> [Copies -> Statuses]]]
    BY <1>0, <1>6, <2>1, SaveMembersType DEF WriteRolesAndMembers
  <2> QED
    BY <1>0, <1>6, <2>2, <2>3 DEF WriteRolesAndMembers, TypeOK
<1>7. ASSUME NEW u \in TenantUserIds, WriteUserAndMember(q, u)
      PROVE  TypeOK'
  <2>1. st.tenant \in Tenants /\ st.sso \in Users /\ st.idp \in IdpTypes
    BY <1>0, <1>7, StateOfHandler DEF WriteUserAndMember, SavesTenantUser, At, AddToGroupState
  <2>2. StoredIdp(st.sso, st.idp) \in IdpTypes
    BY <1>0, <2>1, StoredIdpType
  <2>3. tenantUser' \in [TenantUserIds -> TenantUserRow \union {NoRow}]
    BY <1>0, <1>7, <2>1, SaveTenantUserType DEF WriteUserAndMember
  <2>4. roleRow' \in [TenantUserIds -> [Roles -> [Copies -> Statuses]]]
    BY <1>0, <1>7, SaveRolesType DEF WriteUserAndMember
  <2>5. groupRow' \in [TenantUserIds -> [Groups -> [Copies -> Statuses]]]
    BY <1>0, <1>7, SaveMembersType DEF WriteUserAndMember
  <2>6. idpType' \in [Users -> IdpTypes \union {NoRow}]
    BY <1>0, <1>7, <2>2 DEF WriteUserAndMember, TypeOK
  <2> QED
    BY <1>0, <1>7, <2>3, <2>4, <2>5, <2>6 DEF WriteUserAndMember, TypeOK
<1>8. CASE WriteCreateGroup(q)
  <2>1. st.tenantUser \in TenantUserIds /\ st.tenant \in Tenants
    BY <1>0, <1>8, StateOfHandler DEF WriteCreateGroup, At, CreateGroupState
  <2>2. groupRow' \in [TenantUserIds -> [Groups -> [Copies -> Statuses]]]
    BY <1>0, <1>8, <2>1, SaveMembersType DEF WriteCreateGroup
  <2> QED
    BY <1>0, <1>8, <2>1, <2>2 DEF WriteCreateGroup, TypeOK
<1> QED
  BY <1>2, <1>3, <1>4, <1>5, <1>6, <1>7, <1>8 DEF Writes

LEMMA ContinueType ==
    ASSUME CTypeOK, NEW q \in Requests, HasTarget(q), Continue(q)
    PROVE  CTypeOK'
<1>1. CASE Reads(q)
  BY <1>1, ReadsMove, BecomesType
<1>2. CASE Abort(q)
  BY <1>2, RequestStates, BecomesType DEF Abort
<1> QED
  BY <1>1, <1>2, ContinueReadsOrWrites, WritesType

LEMMA AtOnceType ==
    ASSUME CTypeOK, AtOnce
    PROVE  CTypeOK'
<1>1. Next
  BY DEF AtOnce, Next, FirstMembers
<1> QED
  BY <1>1, NextTypeOK DEF AtOnce, CTypeOK

-----------------------------------------------------------------------------
(* Rows keep their tenant and user. *)

RowsStay ==
    \A u \in TenantUserIds : Exists(u) =>
        /\ Exists(u)'
        /\ tenantUser'[u].tenant = tenantUser[u].tenant
        /\ tenantUser'[u].sso = tenantUser[u].sso

\* A row is saved as a new one, or as the row of the same tenant and user.
LEMMA SaveTenantUserStays ==
    ASSUME TypeOK, NEW u \in TenantUserIds, NEW t \in Tenants, NEW s \in Users,
           SaveTenantUser(u, t, s), ~Exists(u) \/ RowOf(u, t, s)
    PROVE  RowsStay
<1>1. Exists(u)' /\ tenantUser'[u].tenant = t /\ tenantUser'[u].sso = s
  BY SaveTenantUserActive, SaveTenantUserRowOf DEF Active
<1>2. \A v \in TenantUserIds \ {u} : tenantUser'[v] = tenantUser[v]
  BY DEF SaveTenantUser, TypeOK
<1> QED
  BY <1>1, <1>2 DEF RowsStay, RowOf, InTenant, Exists

\* Removing a user only flags the row.
LEMMA FlaggedUserStays ==
    ASSUME TypeOK, NEW u \in TenantUserIds, Exists(u),
           tenantUser' = [tenantUser EXCEPT ![u].isDeleted = TRUE]
    PROVE  RowsStay /\ ~Active(u)'
<1>1. tenantUser[u] \in TenantUserRow
  BY DEF TypeOK, Exists
<1>2. tenantUser'[u] = [tenantUser[u] EXCEPT !.isDeleted = TRUE]
  BY DEF TypeOK
<1>3. /\ tenantUser'[u] \in TenantUserRow
      /\ tenantUser'[u].tenant = tenantUser[u].tenant
      /\ tenantUser'[u].sso = tenantUser[u].sso
      /\ tenantUser'[u].isDeleted
  BY <1>1, <1>2 DEF TenantUserRow
<1>4. \A v \in TenantUserIds \ {u} : tenantUser'[v] = tenantUser[v]
  BY DEF TypeOK
<1> QED
  BY <1>3, <1>4, NoRowAssumption DEF RowsStay, Exists, Active

\* A request that starts was idle, and starting it writes nothing.
LEMMA StartsIdle ==
    ASSUME NEW q, Start(q)
    PROVE  Free(q) /\ \E new : Becomes(q, new)
<1>1. ASSUME NEW t, NEW u, NEW asked, StartAssign(q, t, u, asked)
      PROVE  Free(q) /\ \E new : Becomes(q, new)
  BY <1>1 DEF StartAssign
<1>2. ASSUME NEW t, NEW u, NEW r, StartUnassign(q, t, u, r)
      PROVE  Free(q) /\ \E new : Becomes(q, new)
  BY <1>2 DEF StartUnassign
<1>3. ASSUME NEW t, NEW u, StartRemove(q, t, u)
      PROVE  Free(q) /\ \E new : Becomes(q, new)
  BY <1>3 DEF StartRemove
<1>4. ASSUME NEW t, NEW s, NEW idp, NEW asked, NEW groups, NEW u,
             StartAdd(q, t, s, idp, asked, groups, u)
      PROVE  Free(q) /\ \E new : Becomes(q, new)
  BY <1>4 DEF StartAdd
<1>5. ASSUME NEW t, NEW g, NEW s, NEW idp, NEW u, StartAddToGroup(q, t, g, s, idp, u)
      PROVE  Free(q) /\ \E new : Becomes(q, new)
  BY <1>5 DEF StartAddToGroup
<1>6. ASSUME NEW t, NEW g, NEW w, StartCreateGroup(q, t, g, w)
      PROVE  Free(q) /\ \E new : Becomes(q, new)
  BY <1>6 DEF StartCreateGroup
<1> QED
  BY <1>1, <1>2, <1>3, <1>4, <1>5, <1>6 DEF Start

LEMMA CNextRowsStay ==
    ASSUME CTypeOK, TargetsExist, CNext
    PROVE  RowsStay
<1> USE DEF CTypeOK
<1>1. tenantUser' = tenantUser => RowsStay
  BY DEF RowsStay, Exists
<1>2. CASE AtOnce
  <2>1. ASSUME NEW t \in Tenants, NEW s \in Users, NEW idp \in IdpTypes,
               NEW u \in TenantUserIds, CreateTenant(t, s, idp, u)
        PROVE  RowsStay
    BY <2>1, SaveTenantUserStays DEF CreateTenant
  <2> QED
    BY <1>1, <1>2, <2>1 DEF AtOnce, CreateGroup, RemoveGroupUser
<1>3. ASSUME NEW q \in Requests, Start(q)
      PROVE  RowsStay
  BY <1>1, <1>3, StartsIdle DEF Becomes, vars
<1>4. ASSUME NEW q \in Requests, Continue(q)
      PROVE  RowsStay
  <2>1. HasTarget(q) /\ request[q] \in RequestState
    BY DEF TargetsExist
  <2>2. CASE CommitRemoval(q)
    <3>1. request[q].tenantUser \in TenantUserIds /\ Exists(request[q].tenantUser)
      BY <2>1, <2>2, StateOfHandler DEF CommitRemoval, At, RemoveState, HasTarget
    <3> QED
      BY <2>2, <3>1, FlaggedUserStays DEF CommitRemoval
  <2>3. ASSUME NEW u \in TenantUserIds, WriteAdd(q, u)
        PROVE  RowsStay
    <3>1. request[q].tenant \in Tenants /\ request[q].sso \in Users
      BY <2>1, <2>3, StateOfHandler DEF WriteAdd, SavesTenantUser, At, AddState
    <3>2. ~Exists(u) \/ RowOf(u, request[q].tenant, request[q].sso)
      BY <2>1, <2>3 DEF WriteAdd, SavesTenantUser, At, HasTarget, AddsUser
    <3> QED
      BY <2>3, <3>1, <3>2, SaveTenantUserStays DEF WriteAdd
  <2>4. ASSUME NEW u \in TenantUserIds, WriteUserAndMember(q, u)
        PROVE  RowsStay
    <3>1. request[q].tenant \in Tenants /\ request[q].sso \in Users
      BY <2>1, <2>4, StateOfHandler
         DEF WriteUserAndMember, SavesTenantUser, At, AddToGroupState
    <3>2. ~Exists(u) \/ RowOf(u, request[q].tenant, request[q].sso)
      BY <2>1, <2>4 DEF WriteUserAndMember, SavesTenantUser, At, HasTarget, AddsUser
    <3> QED
      BY <2>4, <3>1, <3>2, SaveTenantUserStays DEF WriteUserAndMember
  <2>5. CASE Reads(q) \/ Abort(q)
    BY <1>1, <2>5, ReadsBecome DEF Abort, Becomes, vars
  <2>6. CASE Writes(q)
    BY <1>1, <2>2, <2>3, <2>4, <2>6
    DEF Writes, WriteAssign, WriteUnassign, WriteRolesAndMembers, WriteCreateGroup
  <2> QED
    BY <1>4, <2>5, <2>6, ContinueReadsOrWrites
<1> QED
  BY <1>2, <1>3, <1>4 DEF CNext

\* A step of a request leaves the other requests where they are.
LEMMA OtherRequestsStay ==
    ASSUME CTypeOK, NEW q \in Requests, Start(q) \/ Continue(q)
    PROVE  \A p \in Requests \ {q} : request'[p] = request[p]
<1>1. ASSUME NEW new, request' = [request EXCEPT ![q] = new]
      PROVE  \A p \in Requests \ {q} : request'[p] = request[p]
  BY <1>1 DEF CTypeOK
<1>2. Start(q) => \E new : request' = [request EXCEPT ![q] = new]
  BY StartsIdle DEF Becomes
<1>3. Reads(q) => \E new : request' = [request EXCEPT ![q] = new]
  BY ReadsBecome DEF Becomes
<1>4. Writes(q) \/ Abort(q) => \E new : request' = [request EXCEPT ![q] = new]
  BY WritesFinish DEF Finish, Abort, Becomes
<1> QED
  BY <1>1, <1>2, <1>3, <1>4, ContinueReadsOrWrites

LEMMA HasTargetStays ==
    ASSUME CTypeOK, NEW q \in Requests, HasTarget(q), RowsStay,
           request'[q] = request[q]
    PROVE  HasTarget(q)'
<1>1. request[q].op \in {"assign", "unassign", "remove", "createGroup"} =>
        request[q].tenantUser \in TenantUserIds
  BY StateOfHandler DEF CTypeOK, AssignState, UnassignState, RemoveState, CreateGroupState
<1> QED
  BY <1>1 DEF HasTarget, AddsUser, RowsStay, RowOf, InTenant

LEMMA StartHasTarget ==
    ASSUME CTypeOK, NEW q \in Requests, Start(q)
    PROVE  HasTarget(q)'
<1> USE NoRowAssumption DEF HasTarget, AddsUser, CTypeOK
<1>1. ASSUME NEW t \in Tenants, NEW u \in TenantUserIds, NEW asked,
             StartAssign(q, t, u, asked)
      PROVE  HasTarget(q)'
  <2>1. /\ request'[q].op = "assign" /\ request'[q].tenantUser = u
        /\ Exists(u)'
    BY <1>1 DEF StartAssign, Becomes, vars, Active, Exists
  <2> QED
    BY <2>1 DEF Exists
<1>2. ASSUME NEW t \in Tenants, NEW u \in TenantUserIds, NEW r \in Roles,
             StartUnassign(q, t, u, r)
      PROVE  HasTarget(q)'
  <2>1. /\ request'[q].op = "unassign" /\ request'[q].tenantUser = u
        /\ Exists(u)'
    BY <1>2 DEF StartUnassign, Becomes, vars, InTenant, Exists
  <2> QED
    BY <2>1 DEF Exists
<1>3. ASSUME NEW t \in Tenants, NEW u \in TenantUserIds, StartRemove(q, t, u)
      PROVE  HasTarget(q)'
  <2>1. /\ request'[q].op = "remove" /\ request'[q].tenantUser = u
        /\ Exists(u)'
    BY <1>3 DEF StartRemove, Becomes, vars, InTenant, Exists
  <2> QED
    BY <2>1 DEF Exists
<1>4. ASSUME NEW t \in Tenants, NEW s \in Users, NEW idp, NEW groups,
             NEW u \in TenantUserIds \union {NoRow}, NEW asked,
             StartAdd(q, t, s, idp, asked, groups, u)
      PROVE  HasTarget(q)'
  <2>1. /\ request'[q].op = "add" /\ request'[q].tenantUser = u
        /\ request'[q].tenant = t /\ request'[q].sso = s
        /\ request'[q].at = IF u = NoRow THEN "insert" ELSE "restore"
    BY <1>4 DEF StartAdd, Becomes
  <2>2. u # NoRow => RowOf(u, t, s)
    BY <1>4 DEF StartAdd, SoftDeletedTenantUser
  <2>3. tenantUser' = tenantUser
    BY <1>4 DEF StartAdd, Becomes, vars
  <2> QED
    BY <2>1, <2>2, <2>3 DEF RowOf, InTenant, Exists
<1>5. ASSUME NEW t \in Tenants, NEW g \in Groups, NEW s \in Users, NEW idp,
             NEW u \in TenantUserIds \union {NoRow},
             StartAddToGroup(q, t, g, s, idp, u)
      PROVE  HasTarget(q)'
  <2>1. /\ request'[q].op = "addToGroup" /\ request'[q].tenantUser = u
        /\ request'[q].tenant = t /\ request'[q].sso = s
        /\ u = NoRow => request'[q].at = "insert"
    BY <1>5 DEF StartAddToGroup, Becomes
  <2>2. u # NoRow => RowOf(u, t, s)
    BY <1>5 DEF StartAddToGroup
  <2>3. tenantUser' = tenantUser
    BY <1>5 DEF StartAddToGroup, Becomes, vars
  <2> QED
    BY <2>1, <2>2, <2>3 DEF RowOf, InTenant, Exists
<1>6. ASSUME NEW t \in Tenants, NEW g \in Groups, NEW w \in TenantUserIds,
             StartCreateGroup(q, t, g, w)
      PROVE  HasTarget(q)'
  <2>1. /\ request'[q].op = "createGroup" /\ request'[q].tenantUser = w
        /\ Exists(w)'
    BY <1>6 DEF StartCreateGroup, Becomes, vars, Active, Exists
  <2> QED
    BY <2>1 DEF Exists
<1> QED
  BY <1>1, <1>2, <1>3, <1>4, <1>5, <1>6 DEF Start

LEMMA ContinueHasTarget ==
    ASSUME CTypeOK, NEW q \in Requests, HasTarget(q), RowsStay, Continue(q)
    PROVE  HasTarget(q)'
<1>0. request[q] \in RequestState /\ request \in [Requests -> RequestState]
  BY DEF CTypeOK
<1>1. CASE Reads(q)
  <2>1. PICK new \in RequestState : Becomes(q, new) /\ Moves(q, new)
    BY <1>1, ReadsMove
  <2>2. request'[q] = new /\ tenantUser' = tenantUser
    BY <1>0, <2>1 DEF Becomes, vars
  <2> QED
    BY <2>1, <2>2 DEF Moves, HasTarget, AddsUser, RowOf, InTenant, Exists
<1>2. CASE Writes(q) \/ Abort(q)
  <2>1. request'[q] = Idle
    BY <1>0, <1>2, WritesFinish DEF Finish, Abort, Becomes
  <2> QED
    BY <2>1 DEF HasTarget, AddsUser, Idle
<1> QED
  BY <1>1, <1>2, ContinueReadsOrWrites

LEMMA CNextInv ==
    ASSUME CTypeOK, TargetsExist, [CNext]_cvars
    PROVE  CTypeOK' /\ TargetsExist'
<1>1. CASE AtOnce
  BY <1>1, AtOnceType, CNextRowsStay, HasTargetStays DEF CNext, AtOnce, TargetsExist
<1>2. ASSUME NEW q \in Requests, Start(q)
      PROVE  CTypeOK' /\ TargetsExist'
  BY <1>2, StartType, CNextRowsStay, HasTargetStays, OtherRequestsStay, StartHasTarget
     DEF CNext, TargetsExist
<1>3. ASSUME NEW q \in Requests, Continue(q)
      PROVE  CTypeOK' /\ TargetsExist'
  BY <1>3, ContinueType, CNextRowsStay, HasTargetStays, OtherRequestsStay, ContinueHasTarget
     DEF CNext, TargetsExist
<1>4. CASE UNCHANGED cvars
  BY <1>4 DEF cvars, vars, CTypeOK, TypeOK, TargetsExist, HasTarget, RowOf, InTenant, Exists
<1> QED
  BY <1>1, <1>2, <1>3, <1>4 DEF CNext

\* The tables and the requests keep their types however requests overlap, and
\* the row a request has found stays the row of that tenant and user.
THEOREM OverlapTypeCorrect == OSpec => [](CTypeOK /\ TargetsExist)
<1>1. OInit => CTypeOK /\ TargetsExist
  <2> SUFFICES ASSUME OInit PROVE CTypeOK /\ TargetsExist
    OBVIOUS
  <2>1. Init /\ request = [q \in Requests |-> Idle]
    BY DEF OInit, CInit
  <2> QED
    BY <2>1, InitTypeOK, RequestStates DEF CTypeOK, TargetsExist, HasTarget, AddsUser, Idle
<1>2. (CTypeOK /\ TargetsExist) /\ [ONext]_ovars => (CTypeOK /\ TargetsExist)'
  BY CNextInv DEF ONext, ovars
<1> QED
  BY <1>1, <1>2, PTL DEF OSpec

-----------------------------------------------------------------------------
(* Commits. *)

\* A request commits by a write of its own.
LEMMA CommitIsWrite ==
    ASSUME CTypeOK, NEW q \in Requests, CNext, Commits(q)
    PROVE  Writes(q)
<1>1. ~AtOnce
  BY DEF AtOnce, Commits, Free
<1>2. ~Start(q)
  BY StartsIdle DEF Commits
<1>3. \A p \in Requests \ {q} : ~Start(p) /\ ~Continue(p)
  BY OtherRequestsStay DEF Commits, Free
<1>4. Continue(q)
  BY <1>1, <1>2, <1>3 DEF CNext
<1> QED
  BY <1>4, ContinueReadsOrWrites, ReadsBecome DEF Commits, Abort, Becomes

-----------------------------------------------------------------------------
(* A request that was not overtaken commits what the handler would do alone. *)

\* What a request in state st has checked and read, as of the present tables:
\* one conjunct for each check or query it has made so far.  It never finds that
\* another request has restored the user it is about to restore.
KnowsAssign(st) ==
    LET u == st.tenantUser
        idp == idpType[tenantUser[u].sso]
        plan == RolePlan(roleRow[u], idp, st.roles)
    IN /\ \E t \in Tenants : Manageable(t)
       /\ Active(u)
       /\ st.roles # {}
       /\ st.at # "existing" => st.existing = {r \in Roles : Active(u) /\ HasRole(u, r)}
       /\ st.at = "write" => st.plan = plan /\ Saves(plan)
KnowsUnassign(st) ==
    /\ Manageable(st.tenant)
    /\ InTenant(st.tenantUser, st.tenant)
    /\ HasRole(st.tenantUser, st.role)
    /\ st.at # "owners" /\ st.role = TenantOwner =>
        OtherOwnerOnRecord(st.tenant, st.tenantUser)
    /\ st.at = "write" => ~OneRoleRowLeft(st.tenantUser)
KnowsRemove(st) ==
    /\ Manageable(st.tenant)
    /\ Active(st.tenantUser)
    /\ InTenant(st.tenantUser, st.tenant)
    /\ st.at # "owners" /\ HasRole(st.tenantUser, TenantOwner) =>
        OtherActiveOwner(st.tenant, st.tenantUser)
    /\ st.at \in {"user", "members", "commit"} => st.roleRows = ActiveRoleRows(st.tenantUser)
    /\ st.at = "commit" => st.memberRows = ActiveMemberRows(st.tenantUser)
KnowsAdd(st) ==
    /\ Manageable(st.tenant)
    /\ GroupsOfTenant(st.tenant, st.groups)
    /\ st.roles \in RolesInBody(st.idp)
    /\ st.at \in {"insert", "restore"}
    /\ st.at = "insert" => Unknown(st.tenant, st.sso)
    /\ st.at = "restore" => SoftDeletedTenantUser(st.tenantUser, st.tenant, st.sso)
KnowsAddToGroup(st) ==
    LET u == st.tenantUser
        known == \E v \in TenantUserIds : RowOf(v, st.tenant, st.sso) /\ Active(v)
    IN /\ Manageable(st.tenant)
       /\ groupTenant[st.group] = st.tenant
       /\ st.at \in {"insert", "restore", "member", "wasMember", "write"}
       /\ st.at = "insert" => Unknown(st.tenant, st.sso)
       /\ st.at = "restore" => RowOf(u, st.tenant, st.sso) /\ ~Active(u) /\ ~known
       /\ st.at \in {"member", "wasMember", "write"} =>
            RowOf(u, st.tenant, st.sso) /\ Active(u) /\ st.plan = NoPlan
       /\ st.at \in {"wasMember", "write"} => ~IsMember(u, st.group)
       /\ st.at = "write" => st.memberPlan = MemberPlan(groupRow[u], st.group)
KnowsCreateGroup(st) ==
    /\ Manageable(st.tenant)
    /\ groupTenant[st.group] = NoRow
    /\ Active(st.tenantUser)

Knows(st) ==
    /\ st.op = "assign" => KnowsAssign(st)
    /\ st.op = "unassign" => KnowsUnassign(st)
    /\ st.op = "remove" => KnowsRemove(st)
    /\ st.op = "add" => KnowsAdd(st)
    /\ st.op = "addToGroup" => KnowsAddToGroup(st)
    /\ st.op = "createGroup" => KnowsCreateGroup(st)

\* While the tables stay as they are, what a request knows stays true.
LEMMA KnowsStays ==
    ASSUME UNCHANGED vars, NEW st
    PROVE  Knows(st) => Knows(st)'
<1> USE DEF vars, Manageable, ManagedBy, Active, Exists, InTenant, HasRole, IsMember,
            RowOf, Unknown
<1>1. KnowsAssign(st) => KnowsAssign(st)'
  BY DEF KnowsAssign
<1>2. KnowsUnassign(st) => KnowsUnassign(st)'
  BY DEF KnowsUnassign, OtherOwnerOnRecord, OneRoleRowLeft, ActiveRoleRows
<1>3. KnowsRemove(st) => KnowsRemove(st)'
  BY DEF KnowsRemove, OtherActiveOwner, ActiveRoleRows, ActiveMemberRows
<1>4. KnowsAdd(st) => KnowsAdd(st)'
  BY DEF KnowsAdd, GroupsOfTenant, SoftDeletedTenantUser
<1>5. KnowsAddToGroup(st) => KnowsAddToGroup(st)'
  BY DEF KnowsAddToGroup
<1>6. KnowsCreateGroup(st) => KnowsCreateGroup(st)'
  BY DEF KnowsCreateGroup
<1> QED
  BY <1>1, <1>2, <1>3, <1>4, <1>5, <1>6 DEF Knows

\* The checks made at the start.
LEMMA StartKnows ==
    ASSUME CTypeOK, NEW q \in Requests, Start(q)
    PROVE  \E st \in RequestState : Becomes(q, st) /\ Knows(st)
<1>1. ASSUME NEW t \in Tenants, NEW u \in TenantUserIds, NEW asked \in (SUBSET Roles) \ {{}},
             StartAssign(q, t, u, asked)
      PROVE  \E st \in RequestState : Becomes(q, st) /\ Knows(st)
  <2> DEFINE st == [op |-> "assign", at |-> "existing", tenantUser |-> u,
                    roles |-> asked, existing |-> {}, plan |-> NoPlan]
  <2>1. st \in RequestState
    BY RequestStates, NoPlanType DEF AssignState
  <2>2. Becomes(q, st) /\ Manageable(t) /\ Active(u)
    BY <1>1 DEF StartAssign
  <2>3. st.op = "assign" /\ st.at = "existing" /\ st.tenantUser = u /\ st.roles # {}
    OBVIOUS
  <2>4. Knows(st)
    <3> HIDE DEF st
    <3> QED
      BY <2>2, <2>3 DEF Knows, KnowsAssign
  <2> QED
    BY <2>1, <2>2, <2>4
<1>2. ASSUME NEW t \in Tenants, NEW u \in TenantUserIds, NEW r \in Roles,
             StartUnassign(q, t, u, r)
      PROVE  \E st \in RequestState : Becomes(q, st) /\ Knows(st)
  <2> DEFINE st == [op |-> "unassign",
                    at |-> IF r = TenantOwner THEN "owners" ELSE "count",
                    tenant |-> t, tenantUser |-> u, role |-> r]
  <2>1. st \in RequestState
    BY RequestStates DEF UnassignState
  <2>2. Becomes(q, st) /\ Manageable(t) /\ InTenant(u, t) /\ HasRole(u, r)
    BY <1>2 DEF StartUnassign
  <2> QED
    BY <2>1, <2>2 DEF Knows, KnowsUnassign
<1>3. ASSUME NEW t \in Tenants, NEW u \in TenantUserIds, StartRemove(q, t, u)
      PROVE  \E st \in RequestState : Becomes(q, st) /\ Knows(st)
  <2> DEFINE st == [op |-> "remove",
                    at |-> IF HasRole(u, TenantOwner) THEN "owners" ELSE "roles",
                    tenant |-> t, tenantUser |-> u, roleRows |-> {}, memberRows |-> {}]
  <2>1. st \in RequestState
    BY RequestStates DEF RemoveState
  <2>2. Becomes(q, st) /\ Manageable(t) /\ Active(u) /\ InTenant(u, t)
    BY <1>3 DEF StartRemove
  <2> QED
    BY <2>1, <2>2 DEF Knows, KnowsRemove
<1>4. ASSUME NEW t \in Tenants, NEW s \in Users, NEW idp \in IdpTypes,
             NEW groups \in SUBSET Groups, NEW u \in TenantUserIds \union {NoRow},
             NEW asked \in RolesInBody(idp), StartAdd(q, t, s, idp, asked, groups, u)
      PROVE  \E st \in RequestState : Becomes(q, st) /\ Knows(st)
  <2> DEFINE st == [op |-> "add", at |-> IF u = NoRow THEN "insert" ELSE "restore",
                    tenant |-> t, tenantUser |-> u, sso |-> s, idp |-> idp,
                    roles |-> asked, groups |-> groups,
                    existing |-> {}, plan |-> NoPlan, memberPlan |-> NoPlan]
  <2>1. st \in RequestState
    BY RequestStates, NoPlanType DEF AddState, RolesInBody
  <2>2. Becomes(q, st) /\ Manageable(t) /\ GroupsOfTenant(t, groups)
    BY <1>4 DEF StartAdd
  <2>3. /\ u = NoRow => Unknown(t, s)
        /\ u # NoRow => SoftDeletedTenantUser(u, t, s)
    BY <1>4 DEF StartAdd
  <2> QED
    BY <2>1, <2>2, <2>3 DEF Knows, KnowsAdd
<1>5. ASSUME NEW t \in Tenants, NEW g \in Groups, NEW s \in Users,
             NEW idp \in IdpTypes, NEW u \in TenantUserIds \union {NoRow},
             StartAddToGroup(q, t, g, s, idp, u)
      PROVE  \E st \in RequestState : Becomes(q, st) /\ Knows(st)
  <2> DEFINE st == [op |-> "addToGroup",
                    at |-> IF u = NoRow THEN "insert"
                           ELSE IF Active(u) THEN "member" ELSE "restore",
                    tenant |-> t, tenantUser |-> u, sso |-> s, idp |-> idp,
                    group |-> g, roles |-> {ServiceUser},
                    existing |-> {}, plan |-> NoPlan, memberPlan |-> NoPlan]
  <2>1. st \in RequestState
    BY RequestStates, NoPlanType, RolesAssumption DEF AddToGroupState
  <2>2. Becomes(q, st) /\ Manageable(t) /\ groupTenant[g] = t
    BY <1>5 DEF StartAddToGroup
  <2>3. /\ u = NoRow => Unknown(t, s)
        /\ u # NoRow => /\ RowOf(u, t, s)
                        /\ Active(u) \/ ~\E v \in TenantUserIds : RowOf(v, t, s) /\ Active(v)
    BY <1>5 DEF StartAddToGroup
  <2> QED
    BY <2>1, <2>2, <2>3 DEF Knows, KnowsAddToGroup
<1>6. ASSUME NEW t \in Tenants, NEW g \in Groups, NEW w \in TenantUserIds,
             StartCreateGroup(q, t, g, w)
      PROVE  \E st \in RequestState : Becomes(q, st) /\ Knows(st)
  <2> DEFINE st == [op |-> "createGroup", at |-> "write",
                    tenant |-> t, group |-> g, tenantUser |-> w]
  <2>1. st \in RequestState
    BY RequestStates DEF CreateGroupState
  <2>2. Becomes(q, st) /\ Manageable(t) /\ groupTenant[g] = NoRow /\ Active(w)
    BY <1>6 DEF StartCreateGroup
  <2> QED
    BY <2>1, <2>2 DEF Knows, KnowsCreateGroup
<1> QED
  BY <1>1, <1>2, <1>3, <1>4, <1>5, <1>6 DEF Start, RoleIdsInBody

\* Read of one moment, the two queries of assignUserRoles make the plan that
\* one would.
LEMMA AssignPlanAlone ==
    ASSUME NEW q, Active(request[q].tenantUser),
           request[q].roles \subseteq Roles,
           request[q].existing = {r \in Roles : Active(request[q].tenantUser)
                                                /\ HasRole(request[q].tenantUser, r)}
    PROVE  AssignPlan(q) = RolePlan(roleRow[request[q].tenantUser],
                                    idpType[tenantUser[request[q].tenantUser].sso],
                                    request[q].roles)
<1> DEFINE u == request[q].tenantUser
           asked == request[q].roles
           idp == idpType[tenantUser[u].sso]
           rows == roleRow[u]
           granted == {r \in asked : Assignable(idp, r)}
           restorable == {r \in granted : Has(rows[r], "deleted")}
           restore == {<<r, OneWith(rows[r], "deleted")>> : r \in restorable}
<1>1. RolePlan(rows, idp, asked) =
        [restore |-> restore,
         create |-> {r \in granted \ restorable : ~Has(rows[r], "active")}]
  BY DEF RolePlan
<1>2. {x[1] : x \in restore} = restorable
  <2>1. \A r \in restorable : <<r, OneWith(rows[r], "deleted")>> \in restore
    OBVIOUS
  <2>2. \A x \in restore : x[1] \in restorable
    OBVIOUS
  <2>3. \A r \in restorable : \E x \in restore : r = x[1]
    <3> SUFFICES ASSUME NEW r \in restorable PROVE \E x \in restore : r = x[1]
      OBVIOUS
    <3>1. <<r, OneWith(rows[r], "deleted")>>[1] = r
      OBVIOUS
    <3> QED
      BY <2>1, <3>1
  <2> HIDE DEF restore, restorable
  <2> QED
    BY <2>2, <2>3
<1>3. AssignPlan(q) =
        [restore |-> restore, create |-> granted \ (restorable \union request[q].existing)]
  <2>1. RolePlan(rows, idp, asked).restore = restore
    <3> HIDE DEF restore, restorable, granted
    <3> QED
      BY <1>1
  <2>2. AssignPlan(q) =
          [restore |-> RolePlan(rows, idp, asked).restore,
           create |-> granted \ ({x[1] : x \in RolePlan(rows, idp, asked).restore}
                                    \union request[q].existing)]
    BY DEF AssignPlan
  <2> HIDE DEF restore, restorable, granted
  <2> QED
    BY <1>2, <2>1, <2>2
<1>4. granted \ (restorable \union request[q].existing)
        = {r \in granted \ restorable : ~Has(rows[r], "active")}
  BY DEF HasRole
<1> QED
  BY <1>1, <1>3, <1>4

\* Each query adds what it read, and a write ends the request.
LEMMA ContinueKnows ==
    ASSUME CTypeOK, NEW q \in Requests, Continue(q), Knows(request[q]), ~Free(q)'
    PROVE  \E st : Becomes(q, st) /\ Knows(st)
<1> DEFINE st == request[q]
<1>0. st \in RequestState /\ request \in [Requests -> RequestState]
  BY DEF CTypeOK
<1>1. Reads(q)
  BY <1>0, ContinueReadsOrWrites, WritesFinish DEF Finish, Abort, Becomes, Free
<1>2. CASE ReadExistingRoles(q)
  <2> DEFINE existing == {r \in Roles : Active(st.tenantUser) /\ HasRole(st.tenantUser, r)}
             new == [st EXCEPT !.at = "deleted", !.existing = existing]
  <2>1. st \in AssignState /\ KnowsAssign(st)
    BY <1>0, <1>2, StateOfHandler
       DEF ReadExistingRoles, GivesRoles, Knows, KnowsAdd, KnowsAddToGroup
  <2>2. Becomes(q, new)
    BY <1>2 DEF ReadExistingRoles
  <2>3. /\ new.op = "assign" /\ new.at = "deleted" /\ new.existing = existing
        /\ new.tenantUser = st.tenantUser /\ new.roles = st.roles
    BY <2>1 DEF AssignState
  <2>4. Knows(new)
    <3> HIDE DEF new
    <3> QED
      BY <2>1, <2>3 DEF Knows, KnowsAssign
  <2> QED
    BY <2>2, <2>4
<1>3. CASE ReadDeletedRoles(q)
  <2> DEFINE next == AfterRoles[st.op]
             new == [st EXCEPT !.at = next, !.plan = AssignPlan(q)]
             plan == RolePlan(roleRow[st.tenantUser], idpType[tenantUser[st.tenantUser].sso],
                              st.roles)
  <2>1. st \in AssignState /\ KnowsAssign(st) /\ st.at = "deleted"
    BY <1>0, <1>3, StateOfHandler
       DEF ReadDeletedRoles, GivesRoles, Knows, KnowsAdd, KnowsAddToGroup
  <2>2. Becomes(q, new) /\ Saves(AssignPlan(q))
    BY <1>3 DEF ReadDeletedRoles
  <2>3. AssignPlan(q) = plan
    BY <2>1, AssignPlanAlone DEF KnowsAssign, AssignState
  <2>4. next = "write"
    BY <2>1 DEF AfterRoles, AssignState
  <2> HIDE DEF next
  <2>5. /\ new.op = "assign" /\ new.at = "write" /\ new.existing = st.existing
        /\ new.tenantUser = st.tenantUser /\ new.roles = st.roles /\ new.plan = AssignPlan(q)
    BY <2>1, <2>4 DEF AssignState
  <2>6. Knows(new)
    <3> HIDE DEF new
    <3> QED
      BY <2>1, <2>2, <2>3, <2>5 DEF Knows, KnowsAssign
  <2> QED
    BY <2>2, <2>6
<1>4. CASE CountOtherOwners(q)
  <2> DEFINE new == [st EXCEPT !.at = "count"]
  <2>1. st \in UnassignState /\ KnowsUnassign(st)
    BY <1>0, <1>4, StateOfHandler DEF CountOtherOwners, At, Knows
  <2>2. Becomes(q, new) /\ OtherOwnerOnRecord(st.tenant, st.tenantUser)
    BY <1>4 DEF CountOtherOwners, Advance
  <2>3. /\ new.op = "unassign" /\ new.at = "count" /\ new.tenant = st.tenant
        /\ new.tenantUser = st.tenantUser /\ new.role = st.role
    BY <2>1 DEF UnassignState
  <2>4. Knows(new)
    <3> HIDE DEF new
    <3> QED
      BY <2>1, <2>2, <2>3 DEF Knows, KnowsUnassign
  <2> QED
    BY <2>2, <2>4
<1>5. CASE CountRoles(q)
  <2> DEFINE new == [st EXCEPT !.at = "write"]
  <2>1. st \in UnassignState /\ KnowsUnassign(st) /\ st.at = "count"
    BY <1>0, <1>5, StateOfHandler DEF CountRoles, At, Knows
  <2>2. Becomes(q, new) /\ ~OneRoleRowLeft(st.tenantUser)
    BY <1>5 DEF CountRoles, Advance
  <2>3. /\ new.op = "unassign" /\ new.at = "write" /\ new.tenant = st.tenant
        /\ new.tenantUser = st.tenantUser /\ new.role = st.role
    BY <2>1 DEF UnassignState
  <2>4. Knows(new)
    <3> HIDE DEF new
    <3> QED
      BY <2>1, <2>2, <2>3 DEF Knows, KnowsUnassign
  <2> QED
    BY <2>2, <2>4
<1>6. CASE CountActiveOwners(q)
  <2> DEFINE new == [st EXCEPT !.at = "roles"]
  <2>1. st \in RemoveState /\ KnowsRemove(st)
    BY <1>0, <1>6, StateOfHandler DEF CountActiveOwners, At, Knows
  <2>2. Becomes(q, new) /\ OtherActiveOwner(st.tenant, st.tenantUser)
    BY <1>6 DEF CountActiveOwners, Advance
  <2>3. /\ new.op = "remove" /\ new.at = "roles" /\ new.tenant = st.tenant
        /\ new.tenantUser = st.tenantUser
    BY <2>1 DEF RemoveState
  <2>4. Knows(new)
    <3> HIDE DEF new
    <3> QED
      BY <2>1, <2>2, <2>3 DEF Knows, KnowsRemove
  <2> QED
    BY <2>2, <2>4
<1>7. CASE SweepRoles(q)
  <2> DEFINE rows == ActiveRoleRows(st.tenantUser)
             new == [st EXCEPT !.at = "user", !.roleRows = rows]
  <2>1. st \in RemoveState /\ KnowsRemove(st) /\ st.at = "roles"
    BY <1>0, <1>7, StateOfHandler DEF SweepRoles, At, Knows
  <2>2. Becomes(q, new)
    BY <1>7 DEF SweepRoles
  <2>3. rows = ActiveRoleRows(st.tenantUser)
    OBVIOUS
  <2> HIDE DEF rows
  <2>4. /\ new.op = "remove" /\ new.at = "user" /\ new.tenant = st.tenant
        /\ new.tenantUser = st.tenantUser /\ new.roleRows = rows
    BY <2>1 DEF RemoveState
  <2>5. Knows(new)
    <3> HIDE DEF new
    <3> QED
      BY <2>1, <2>3, <2>4 DEF Knows, KnowsRemove
  <2> QED
    BY <2>2, <2>5
<1>8. CASE SweepTenantUser(q)
  <2> DEFINE rows == ActiveRoleRows(st.tenantUser)
             new == [st EXCEPT !.at = "members", !.roleRows = @ \intersect rows]
  <2>1. st \in RemoveState /\ KnowsRemove(st) /\ st.at = "user"
    BY <1>0, <1>8, StateOfHandler DEF SweepTenantUser, At, Knows
  <2>2. Becomes(q, new)
    BY <1>8 DEF SweepTenantUser
  <2>3. st.roleRows = rows /\ rows = ActiveRoleRows(st.tenantUser)
    BY <2>1 DEF KnowsRemove
  <2> HIDE DEF rows
  <2>4. /\ new.op = "remove" /\ new.at = "members" /\ new.tenant = st.tenant
        /\ new.tenantUser = st.tenantUser /\ new.roleRows = rows
    BY <2>1, <2>3 DEF RemoveState
  <2>5. Knows(new)
    <3> HIDE DEF new
    <3> QED
      BY <2>1, <2>3, <2>4 DEF Knows, KnowsRemove
  <2> QED
    BY <2>2, <2>5
<1>9. CASE SweepMemberships(q)
  <2> DEFINE rows == ActiveMemberRows(st.tenantUser)
             new == [st EXCEPT !.at = "commit", !.memberRows = rows]
  <2>1. st \in RemoveState /\ KnowsRemove(st) /\ st.at = "members"
    BY <1>0, <1>9, StateOfHandler DEF SweepMemberships, At, Knows
  <2>2. Becomes(q, new)
    BY <1>9 DEF SweepMemberships
  <2>3. rows = ActiveMemberRows(st.tenantUser)
    OBVIOUS
  <2> HIDE DEF rows
  <2>4. /\ new.op = "remove" /\ new.at = "commit" /\ new.tenant = st.tenant
        /\ new.tenantUser = st.tenantUser /\ new.roleRows = st.roleRows
        /\ new.memberRows = rows
    BY <2>1 DEF RemoveState
  <2>5. Knows(new)
    <3> HIDE DEF new
    <3> QED
      BY <2>1, <2>3, <2>4 DEF Knows, KnowsRemove
  <2> QED
    BY <2>2, <2>5
<1>10. CASE ReadMember(q)
  <2> DEFINE new == [st EXCEPT !.at = "wasMember"]
  <2>1. st \in AddToGroupState /\ KnowsAddToGroup(st) /\ st.at = "member"
    BY <1>0, <1>10, StateOfHandler DEF ReadMember, At, Knows
  <2>2. Becomes(q, new) /\ ~IsMember(st.tenantUser, st.group)
    BY <1>10 DEF ReadMember, Advance
  <2>3. /\ new.op = "addToGroup" /\ new.at = "wasMember" /\ new.tenant = st.tenant
        /\ new.tenantUser = st.tenantUser /\ new.sso = st.sso /\ new.group = st.group
        /\ new.plan = st.plan
    BY <2>1 DEF AddToGroupState
  <2>4. Knows(new)
    <3> HIDE DEF new
    <3> QED
      BY <2>1, <2>2, <2>3 DEF Knows, KnowsAddToGroup
  <2> QED
    BY <2>2, <2>4
<1>11. CASE ReadDeletedMember(q)
  <2> DEFINE plan == MemberPlan(groupRow[st.tenantUser], st.group)
             new == [st EXCEPT !.at = "write", !.memberPlan = plan]
  <2>1. st \in AddToGroupState /\ KnowsAddToGroup(st) /\ st.at = "wasMember"
    BY <1>0, <1>11, StateOfHandler DEF ReadDeletedMember, At, Knows
  <2>2. Becomes(q, new)
    BY <1>11 DEF ReadDeletedMember
  <2>3. plan = MemberPlan(groupRow[st.tenantUser], st.group)
    OBVIOUS
  <2> HIDE DEF plan
  <2>4. /\ new.op = "addToGroup" /\ new.at = "write" /\ new.tenant = st.tenant
        /\ new.tenantUser = st.tenantUser /\ new.sso = st.sso /\ new.group = st.group
        /\ new.plan = st.plan /\ new.memberPlan = plan
    BY <2>1 DEF AddToGroupState
  <2>5. Knows(new)
    <3> HIDE DEF new
    <3> QED
      BY <2>1, <2>3, <2>4 DEF Knows, KnowsAddToGroup
  <2> QED
    BY <2>2, <2>5
<1>12. ~AddFoundRestored(q) /\ ~ReadMemberships(q) /\ ~ReadDeletedMemberships(q)
  BY DEF AddFoundRestored, FoundRestored, ReadMemberships, ReadDeletedMemberships, At,
     Knows, KnowsAdd, SoftDeletedTenantUser
<1>13. ~MemberFoundRestored(q)
  BY DEF MemberFoundRestored, FoundRestored, At, Knows, KnowsAddToGroup
<1> QED
  BY <1>1, <1>2, <1>3, <1>4, <1>5, <1>6, <1>7, <1>8, <1>9, <1>10, <1>11, <1>12, <1>13
  DEF Reads

\* Every request that was not overtaken knows what it has read.
FreshKnows == \A q \in Requests \ overtaken : \A st : request[q] = st => Knows(st)

LEMMA ONextFresh ==
    ASSUME CTypeOK, FreshKnows, [ONext]_ovars
    PROVE  FreshKnows'
<1>1. CASE UNCHANGED ovars
  BY <1>1, KnowsStays DEF ovars, cvars, FreshKnows
<1>2. CASE ONext
  <2> SUFFICES ASSUME NEW q \in Requests \ overtaken', NEW st, request'[q] = st
               PROVE  Knows(st)'
    BY DEF FreshKnows
  <2>1. CASE Free(q)'
    BY <2>1 DEF Free, Idle, Knows
  <2>2. CASE ~Free(q)'
    <3>1. q \notin overtaken /\ UNCHANGED vars
      BY <1>2, <2>2 DEF ONext
    <3>2. Knows(request[q])
      BY <3>1 DEF FreshKnows
    <3>3. CASE request'[q] = request[q]
      BY <3>1, <3>2, <3>3, KnowsStays
    <3>4. ASSUME NEW new, Becomes(q, new), Knows(new)
          PROVE  Knows(st)'
      <4>1. st = new
        BY <3>4 DEF Becomes, CTypeOK
      <4> QED
        BY <3>1, <3>4, <4>1, KnowsStays
    <3>5. CASE Start(q)
      BY <3>4, <3>5, StartKnows
    <3>6. CASE Continue(q)
      BY <2>2, <3>2, <3>4, <3>6, ContinueKnows
    <3>7. AtOnce \/ (\E p \in Requests \ {q} : Start(p) \/ Continue(p)) => request'[q] = request[q]
      BY OtherRequestsStay DEF AtOnce
    <3> QED
      BY <1>2, <3>3, <3>5, <3>6, <3>7 DEF ONext, CNext
  <2> QED
    BY <2>1, <2>2
<1> QED
  BY <1>1, <1>2

\* All active rows flagged are all rows soft-deleted, and no plan is none applied.
LEMMA FlaggedAll ==
    ASSUME TypeOK, NEW u \in TenantUserIds
    PROVE  /\ Flagged(roleRow[u], ActiveRoleRows(u)) = SoftDeleteAll(roleRow[u])
           /\ Flagged(groupRow[u], ActiveMemberRows(u)) = SoftDeleteAll(groupRow[u])
<1>1. ASSUME NEW X, NEW rows \in [X -> [Copies -> Statuses]], NEW found,
             \A x \in X, k \in Copies : rows[x][k] = "active" => <<x, k>> \in found
      PROVE  Flagged(rows, found) = SoftDeleteAll(rows)
  <2>1. DOMAIN rows = X
    OBVIOUS
  <2>2. ASSUME NEW x \in X
        PROVE  Flagged(rows, found)[x] = SoftDelete(rows[x])
    <3>1. Flagged(rows, found)[x] = [k \in Copies |->
            IF <<x, k>> \in found /\ rows[x][k] = "active" THEN "deleted" ELSE rows[x][k]]
      BY <2>1 DEF Flagged
    <3>2. \A k \in Copies : rows[x][k] = "active" => <<x, k>> \in found
      BY <1>1
    <3> QED
      BY <3>1, <3>2 DEF SoftDelete
  <2>3. SoftDeleteAll(rows) = [x \in X |-> SoftDelete(rows[x])]
    BY <2>1 DEF SoftDeleteAll
  <2>4. Flagged(rows, found) = [x \in X |-> Flagged(rows, found)[x]]
    BY <2>1 DEF Flagged
  <2> HIDE DEF Flagged, SoftDelete
  <2> QED
    BY <2>2, <2>3, <2>4
<1>2. roleRow[u] \in [Roles -> [Copies -> Statuses]]
      /\ groupRow[u] \in [Groups -> [Copies -> Statuses]]
  BY DEF TypeOK
<1>3. \A r \in Roles, k \in Copies :
        roleRow[u][r][k] = "active" => <<r, k>> \in ActiveRoleRows(u)
  BY DEF ActiveRoleRows
<1>4. \A g \in Groups, k \in Copies :
        groupRow[u][g][k] = "active" => <<g, k>> \in ActiveMemberRows(u)
  BY DEF ActiveMemberRows
<1> QED
  BY <1>1, <1>2, <1>3, <1>4

LEMMA SavesNothing ==
    ASSUME TypeOK, NEW u \in TenantUserIds, SaveRoles(u, NoPlan)
    PROVE  roleRow' = roleRow
<1>1. roleRow[u] \in [Roles -> [Copies -> Statuses]]
  BY DEF TypeOK
<1>2. ApplyPlan(roleRow[u], NoPlan) = roleRow[u]
  BY <1>1 DEF ApplyPlan, NoPlan
<1> QED
  BY <1>2 DEF SaveRoles, TypeOK

\* A write of a request that knows what it has read is a step of the handler.
LEMMA WriteIsSerial ==
    ASSUME CTypeOK, NEW q \in Requests, HasTarget(q), Knows(request[q]), Writes(q)
    PROVE  Next
<1> DEFINE st == request[q]
<1>0. st \in RequestState
  BY DEF CTypeOK
<1>1. CASE WriteAssign(q)
  <2>1. st \in AssignState /\ KnowsAssign(st) /\ st.at = "write"
    BY <1>0, <1>1, StateOfHandler DEF WriteAssign, At, Knows
  <2>2. PICK t \in Tenants : Manageable(t)
    BY <2>1 DEF KnowsAssign
  <2>3. AssignUserRoles(t, st.tenantUser, st.roles)
    BY <1>1, <2>1, <2>2 DEF WriteAssign, KnowsAssign, AssignUserRoles
  <2>4. st.tenantUser \in TenantUserIds /\ st.roles \in RoleIdsInBody
    BY <2>1 DEF AssignState, KnowsAssign, RoleIdsInBody
  <2> QED
    BY <2>3, <2>4 DEF Next
<1>2. CASE WriteUnassign(q)
  <2>1. st \in UnassignState /\ KnowsUnassign(st) /\ st.at = "write"
    BY <1>0, <1>2, StateOfHandler DEF WriteUnassign, At, Knows
  <2>2. UnassignUserRoles(st.tenant, st.tenantUser, st.role)
    BY <1>2, <2>1 DEF WriteUnassign, KnowsUnassign, UnassignUserRoles
  <2>3. st.tenant \in Tenants /\ st.tenantUser \in TenantUserIds /\ st.role \in Roles
    BY <2>1 DEF UnassignState
  <2> QED
    BY <2>2, <2>3 DEF Next
<1>3. CASE CommitRemoval(q)
  <2>1. st \in RemoveState /\ KnowsRemove(st) /\ st.at = "commit"
    BY <1>0, <1>3, StateOfHandler DEF CommitRemoval, At, Knows
  <2>2. st.tenant \in Tenants /\ st.tenantUser \in TenantUserIds
    BY <2>1 DEF RemoveState
  <2>3. st.roleRows = ActiveRoleRows(st.tenantUser)
        /\ st.memberRows = ActiveMemberRows(st.tenantUser)
    BY <2>1 DEF KnowsRemove
  <2>4. SweepUser(st.tenantUser)
    BY <1>3, <2>2, <2>3, FlaggedAll DEF CommitRemoval, SweepUser, CTypeOK
  <2>5. RemoveTenantUser(st.tenant, st.tenantUser)
    BY <1>3, <2>1, <2>4 DEF CommitRemoval, KnowsRemove, RemoveTenantUser
  <2> QED
    BY <2>2, <2>5 DEF Next
<1>4. ASSUME NEW u \in TenantUserIds, WriteAdd(q, u)
      PROVE  Next
  <2>1. st \in AddState /\ KnowsAdd(st)
    BY <1>0, <1>4, StateOfHandler DEF WriteAdd, SavesTenantUser, At, Knows
  <2>2. IF Unknown(st.tenant, st.sso) THEN ~Exists(u)
        ELSE SoftDeletedTenantUser(u, st.tenant, st.sso)
    BY <1>4, <2>1 DEF WriteAdd, SavesTenantUser, At, KnowsAdd, SoftDeletedTenantUser, Unknown
  <2>3. AddTenantUser(st.tenant, st.sso, st.idp, st.roles, st.groups, u)
    BY <1>4, <2>1, <2>2 DEF WriteAdd, KnowsAdd, AddTenantUser
  <2>4. /\ st.tenant \in Tenants /\ st.sso \in Users /\ st.idp \in IdpTypes
        /\ st.groups \in SUBSET Groups /\ st.roles \in RolesInBody(st.idp)
    BY <2>1 DEF AddState, KnowsAdd
  <2> QED
    BY <2>3, <2>4 DEF Next
<1>5. ASSUME NEW op \in AddsUser, WriteRolesAndMembers(q, op)
      PROVE  Next
  <2>1. st \in AddToGroupState /\ KnowsAddToGroup(st) /\ st.at = "write"
    BY <1>0, <1>5, StateOfHandler DEF WriteRolesAndMembers, AddsUser, At, Knows, KnowsAdd
  <2>2. st.tenantUser \in TenantUserIds
    BY <1>5 DEF WriteRolesAndMembers, At, HasTarget
  <2>3. roleRow' = roleRow
    BY <1>5, <2>1, <2>2, SavesNothing DEF WriteRolesAndMembers, KnowsAddToGroup, CTypeOK
  <2>4. AddGroupUser(st.tenant, st.group, st.sso, st.idp, st.tenantUser)
    BY <1>5, <2>1, <2>2, <2>3 DEF WriteRolesAndMembers, KnowsAddToGroup, AddGroupUser
  <2>5. /\ st.tenant \in Tenants /\ st.sso \in Users /\ st.idp \in IdpTypes
        /\ st.group \in Groups
    BY <2>1 DEF AddToGroupState
  <2> QED
    BY <2>2, <2>4, <2>5 DEF Next
<1>6. ASSUME NEW u \in TenantUserIds, WriteUserAndMember(q, u)
      PROVE  Next
  <2>1. st \in AddToGroupState /\ KnowsAddToGroup(st)
    BY <1>0, <1>6, StateOfHandler DEF WriteUserAndMember, SavesTenantUser, At, Knows
  <2>2. /\ ~\E v \in TenantUserIds : RowOf(v, st.tenant, st.sso) /\ Active(v)
        /\ IF Unknown(st.tenant, st.sso) THEN ~Exists(u)
           ELSE RowOf(u, st.tenant, st.sso)
    BY <1>6, <2>1 DEF WriteUserAndMember, SavesTenantUser, At, KnowsAddToGroup, Unknown
  <2>3. AddGroupUser(st.tenant, st.group, st.sso, st.idp, u)
    BY <1>6, <2>1, <2>2 DEF WriteUserAndMember, KnowsAddToGroup, AddGroupUser
  <2>4. /\ st.tenant \in Tenants /\ st.sso \in Users /\ st.idp \in IdpTypes
        /\ st.group \in Groups
    BY <2>1 DEF AddToGroupState
  <2> QED
    BY <2>3, <2>4 DEF Next
<1>7. CASE WriteCreateGroup(q)
  <2>1. st \in CreateGroupState /\ KnowsCreateGroup(st)
    BY <1>0, <1>7, StateOfHandler DEF WriteCreateGroup, At, Knows
  <2>2. /\ st.tenant \in Tenants /\ st.group \in Groups
        /\ st.tenantUser \in TenantUserIds /\ st.tenantUser # NoRow
    BY <2>1, NoRowAssumption DEF CreateGroupState
  <2>3. CreateGroup(st.tenant, st.group, st.tenantUser)
    BY <1>7, <2>1, <2>2 DEF WriteCreateGroup, KnowsCreateGroup, CreateGroup
  <2> QED
    BY <2>2, <2>3 DEF Next, FirstMembers
<1> QED
  BY <1>1, <1>2, <1>3, <1>4, <1>5, <1>6, <1>7 DEF Writes

\* However many requests are in flight, one that no other commit overtook has
\* the effect of its handler run alone on the tables as they are: what it
\* checked and planned, query by query, is what it would decide in one step.
THEOREM SerialWhenNotOvertaken == OSpec => SerialUnlessOvertaken
<1>1. OInit => FreshKnows
  BY DEF OInit, CInit, FreshKnows, Idle, Knows
<1>2. (CTypeOK /\ TargetsExist) /\ FreshKnows /\ [ONext]_ovars => FreshKnows'
  BY ONextFresh
<1>3. (CTypeOK /\ TargetsExist) /\ FreshKnows /\ [ONext]_ovars =>
        [\A q \in Requests \ overtaken : Commits(q) => Next]_ovars
  BY CommitIsWrite, WriteIsSerial DEF FreshKnows, ONext, TargetsExist
<1> QED
  BY <1>1, <1>2, <1>3, OverlapTypeCorrect, PTL DEF OSpec, SerialUnlessOvertaken

-----------------------------------------------------------------------------
(* The rules, under overlap. *)

\* The rules of tenant membership, with what makes them inductive.
SerialInv ==
    /\ TypeOK
    /\ RemovedUserHasNothing
    /\ TenantHasOwner
    /\ RowsInOrder
    /\ ActiveUserHasRole
    /\ OneRowPerTenantAndUser
    /\ RowsOfTenants

LEMMA InitSerial == Init => SerialInv
<1> SUFFICES ASSUME Init PROVE SerialInv
  OBVIOUS
<1>1. TypeOK
  BY InitTypeOK
<1>2. RemovedUserHasNothing /\ TenantHasOwner
  BY DEF Init, RemovedUserHasNothing, HasRole, IsMember, Has, TenantHasOwner, TenantExists
<1>3. RowsInOrder /\ ActiveUserHasRole
  BY DEF Init, RowsInOrder, InOrder, AtMostOneRow, Blank, ActiveUserHasRole, Active, Exists
<1>4. OneRowPerTenantAndUser /\ RowsOfTenants
  BY DEF Init, OneRowPerTenantAndUser, RowsOfTenants, RowOf, InTenant, Exists
<1> QED
  BY <1>1, <1>2, <1>3, <1>4 DEF SerialInv

LEMMA NextSerial ==
    ASSUME SerialInv, [Next]_vars
    PROVE  SerialInv'
<1>1. TypeOK /\ RemovedUserHasNothing /\ TenantHasOwner /\ RowsInOrder
      /\ ActiveUserHasRole /\ OneRowPerTenantAndUser /\ RowsOfTenants
  BY DEF SerialInv
<1>2. TypeOK' /\ RemovedUserHasNothing' /\ TenantHasOwner'
  BY <1>1, NextTypeOK, NextRemoved, NextOwner
<1>3. RowsInOrder' /\ ActiveUserHasRole' /\ OneRowPerTenantAndUser' /\ RowsOfTenants'
  BY <1>1, NextInOrder, NextHasRole, NextOneRow
<1> QED
  BY <1>2, <1>3 DEF SerialInv

\* What happens to the tables up to the first stale commit is what handlers that
\* run alone do to them.
LEMMA SerialUntilStale ==
    ASSUME CTypeOK, TargetsExist, FreshKnows, [ONext]_ovars, ~stale'
    PROVE  [Next]_vars
<1>1. CASE UNCHANGED vars
  BY <1>1
<1>2. CASE ONext /\ vars' # vars
  <2>1. CASE AtOnce
    BY <2>1 DEF AtOnce, Next, FirstMembers
  <2>2. ASSUME NEW q \in Requests, Start(q)
        PROVE  FALSE
    BY <1>2, <2>2, StartsIdle DEF Becomes
  <2>3. ASSUME NEW q \in Requests, Continue(q)
        PROVE  Next
    <3>1. Writes(q)
      BY <1>2, <2>3, ContinueReadsOrWrites, ReadsBecome DEF Abort, Becomes
    <3>2. Finish(q) /\ ~Free(q)
      BY <3>1, WritesFinish
    <3>3. Commits(q)
      BY <1>2, <3>2 DEF Commits, Finish, Free, CTypeOK
    <3>4. q \notin overtaken
      BY <1>2, <3>3 DEF ONext
    <3>5. Knows(request[q]) /\ HasTarget(q)
      BY <3>4 DEF FreshKnows, TargetsExist
    <3> QED
      BY <3>1, <3>5, WriteIsSerial
  <2> QED
    BY <1>2, <2>1, <2>2, <2>3 DEF ONext, CNext
<1> QED
  BY <1>1, <1>2 DEF ovars, cvars

\* The tables are those of handlers run alone as long as no commit was stale.
TablesUntilStale ==
    overtaken \subseteq Requests /\ FreshKnows /\ (~stale => SerialInv)

LEMMA OverlapTables == OSpec => []TablesUntilStale
<1>1. OInit => TablesUntilStale
  BY InitSerial DEF OInit, CInit, TablesUntilStale, FreshKnows, Idle, Knows
<1>2. (CTypeOK /\ TargetsExist) /\ TablesUntilStale /\ [ONext]_ovars => TablesUntilStale'
  <2> SUFFICES ASSUME CTypeOK, TargetsExist, TablesUntilStale, [ONext]_ovars
               PROVE  /\ overtaken' \subseteq Requests
                      /\ FreshKnows' /\ (~stale' => SerialInv')
    BY DEF TablesUntilStale
  <2>1. FreshKnows'
    BY ONextFresh DEF TablesUntilStale
  <2>2. ~stale' => ~stale
    BY DEF ONext, ovars
  <2>3. ~stale' => SerialInv'
    BY <2>2, SerialUntilStale, NextSerial DEF TablesUntilStale
  <2>4. overtaken' \subseteq Requests
    BY DEF TablesUntilStale, ONext, ovars
  <2> QED
    BY <2>1, <2>3, <2>4
<1> QED
  BY <1>1, <1>2, OverlapTypeCorrect, PTL DEF OSpec

RulesUntilStaleCommit ==
    ~stale =>
        /\ TenantHasOwner
        /\ ActiveUserHasRole
        /\ RemovedUserHasNothing
        /\ NoDuplicateAssignments
        /\ OneRowPerTenantAndUser

\* However many requests overlap, up to the first commit of one that another had
\* overtaken every tenant has an owner, every active user a role, no removed
\* user anything, and no row is there twice.
THEOREM RulesHoldUntilStale == OSpec => []RulesUntilStaleCommit
<1>1. TablesUntilStale => RulesUntilStaleCommit
  BY RowsInOrderMeans DEF TablesUntilStale, SerialInv, RulesUntilStaleCommit
<1> QED
  BY <1>1, OverlapTables, PTL

-----------------------------------------------------------------------------
(* What the first stale commit can break. *)

\* No row is doubled if the rows of the user a step touches are not.
LEMMA NoDuplicatesFrame ==
    ASSUME NoDuplicateAssignments, NEW u, OthersUnchanged(u),
           u \in TenantUserIds =>
             /\ \A r \in Roles : AtMostOneRow(roleRow'[u][r])
             /\ \A g \in Groups : AtMostOneRow(groupRow'[u][g])
    PROVE  NoDuplicateAssignments'
BY DEF NoDuplicateAssignments, AtMostOneRow, OthersUnchanged

\* The rules about rows of tenant users outlive a step that leaves them alone.
LEMMA SameUsersOneRow ==
    ASSUME OneRowPerTenantAndUser, tenantUser' = tenantUser
    PROVE  OneRowPerTenantAndUser'
BY DEF OneRowPerTenantAndUser, RowOf, InTenant, Exists

\* Roles given by an old plan may go to a user removed by then, or be inserted a
\* second time, but none is taken.
LEMMA StaleRoles ==
    ASSUME CTypeOK, SerialInv, NEW u \in TenantUserIds, NEW plan, SaveRoles(u, plan),
           createdBy' = createdBy, tenantUser' = tenantUser,
           \A v \in TenantUserIds \ {u} : groupRow'[v] = groupRow[v]
    PROVE  TenantHasOwner' /\ ActiveUserHasRole' /\ OneRowPerTenantAndUser'
<1>1. OthersUnchanged(u)
  BY DEF OthersUnchanged, SaveRoles, CTypeOK, TypeOK
<1>2. \A r \in Roles : HasRole(u, r) => HasRole(u, r)'
  BY ApplyPlanKeepsActive DEF SaveRoles, HasRole, CTypeOK, TypeOK
<1>3. \A t \in Tenants : OwnerOf(t, u) => OwnerOf(t, u)'
  BY <1>2, RolesAssumption DEF OwnerOf, Active, Exists, InTenant
<1>4. Active(u)' => HoldsSome(u)'
  BY <1>2 DEF SerialInv, ActiveUserHasRole, HoldsSome, Active, Exists
<1> QED
  BY <1>1, <1>3, <1>4, OwnerFrame, HoldsSomeFrame, SameUsersOneRow DEF SerialInv

LEMMA StaleAssign ==
    ASSUME CTypeOK, SerialInv, NEW q \in Requests, WriteAssign(q)
    PROVE  TenantHasOwner' /\ ActiveUserHasRole' /\ OneRowPerTenantAndUser'
<1>1. request[q].tenantUser \in TenantUserIds
  BY StateOfHandler DEF CTypeOK, WriteAssign, At, AssignState
<1> QED
  BY <1>1, StaleRoles DEF WriteAssign

\* So may those given, with memberships, to a user found restored.
LEMMA StaleRolesAndMembers ==
    ASSUME CTypeOK, SerialInv, NEW q \in Requests, HasTarget(q),
           NEW op \in AddsUser, WriteRolesAndMembers(q, op)
    PROVE  TenantHasOwner' /\ ActiveUserHasRole'
<1>1. request[q].tenantUser \in TenantUserIds
  BY DEF WriteRolesAndMembers, At, HasTarget
<1>2. \A v \in TenantUserIds \ {request[q].tenantUser} : groupRow'[v] = groupRow[v]
  BY DEF WriteRolesAndMembers, SaveMembers, CTypeOK, TypeOK
<1> QED
  BY <1>1, <1>2, StaleRoles DEF WriteRolesAndMembers

\* A stale unassignUserRoles may take the last owner or the last role of a user,
\* but gives nothing and inserts no row.
LEMMA StaleUnassign ==
    ASSUME CTypeOK, SerialInv, NEW q \in Requests, WriteUnassign(q),
           NEW u, u = request[q].tenantUser, NEW r, r = request[q].role
    PROVE  RemovedUserHasNothing' /\ NoDuplicateAssignments' /\ OneRowPerTenantAndUser'
<1>1. u \in TenantUserIds /\ r \in Roles
  BY StateOfHandler DEF CTypeOK, WriteUnassign, At, UnassignState
<1>2. /\ roleRow' = [roleRow EXCEPT ![u][r] = SoftDelete(@)]
      /\ tenantUser' = tenantUser
      /\ groupRow' = groupRow
  BY DEF WriteUnassign
<1>3. OthersUnchanged(u)
  BY <1>2 DEF OthersUnchanged, CTypeOK, TypeOK
<1>4. \A x \in Roles : roleRow'[u][x] =
          IF x = r THEN SoftDelete(roleRow[u][x]) ELSE roleRow[u][x]
  BY <1>1, <1>2 DEF CTypeOK, TypeOK
<1>5. \A x \in Roles : ~HasRole(u, x) => ~HasRole(u, x)'
  BY <1>1, <1>4, SoftDeleteSweeps DEF HasRole, CTypeOK, TypeOK
<1>6. Active(u)' \/ HoldsNothing(u)'
  BY <1>1, <1>2, <1>5
  DEF SerialInv, RemovedUserHasNothing, HoldsNothing, IsMember, Active, Exists
<1>7. /\ \A x \in Roles : AtMostOneRow(roleRow[u][x])
      /\ \A g \in Groups : AtMostOneRow(groupRow[u][g])
  BY <1>1 DEF SerialInv, RowsInOrder, InOrder
<1>8. /\ \A x \in Roles : AtMostOneRow(roleRow'[u][x])
      /\ \A g \in Groups : AtMostOneRow(groupRow'[u][g])
  BY <1>1, <1>2, <1>4, <1>7, SoftDeleteOneRow DEF CTypeOK, TypeOK
<1> QED
  BY <1>2, <1>3, <1>6, <1>8, RemovedFrame, NoDuplicatesFrame, SameUsersOneRow,
     RowsInOrderMeans DEF SerialInv

\* A stale removeTenantUser may take the last owner, and may leave a removed user
\* what was given since its UPDATEs, but takes no role of an active user and
\* inserts no row.
LEMMA StaleRemove ==
    ASSUME CTypeOK, SerialInv, NEW q \in Requests, HasTarget(q), CommitRemoval(q),
           NEW u, u = request[q].tenantUser
    PROVE  ActiveUserHasRole' /\ NoDuplicateAssignments' /\ OneRowPerTenantAndUser'
<1>1. u \in TenantUserIds /\ Exists(u)
  BY StateOfHandler DEF CTypeOK, CommitRemoval, At, RemoveState, HasTarget
<1>2. PICK roleRows, memberRows :
        /\ roleRow' = [roleRow EXCEPT ![u] = Flagged(@, roleRows)]
        /\ tenantUser' = [tenantUser EXCEPT ![u].isDeleted = TRUE]
        /\ groupRow' = [groupRow EXCEPT ![u] = Flagged(@, memberRows)]
  BY DEF CommitRemoval
<1>3. OthersUnchanged(u)
  BY <1>2 DEF OthersUnchanged, CTypeOK, TypeOK
<1>4. RowsStay /\ ~Active(u)'
  BY <1>1, <1>2, FlaggedUserStays DEF CTypeOK
<1>5. /\ \A r \in Roles : AtMostOneRow(roleRow[u][r])
      /\ \A g \in Groups : AtMostOneRow(groupRow[u][g])
  BY <1>1 DEF SerialInv, RowsInOrder, InOrder
<1>6. /\ \A r \in Roles : AtMostOneRow(roleRow'[u][r])
      /\ \A g \in Groups : AtMostOneRow(groupRow'[u][g])
  <2>1. /\ roleRow[u] \in [Roles -> [Copies -> Statuses]]
        /\ groupRow[u] \in [Groups -> [Copies -> Statuses]]
        /\ roleRow'[u] = Flagged(roleRow[u], roleRows)
        /\ groupRow'[u] = Flagged(groupRow[u], memberRows)
    BY <1>1, <1>2 DEF CTypeOK, TypeOK
  <2>2. \A r \in Roles : AtMostOneRow(Flagged(roleRow[u], roleRows)[r])
    BY <1>5, <2>1, FlaggedRows
  <2>3. \A g \in Groups : AtMostOneRow(Flagged(groupRow[u], memberRows)[g])
    BY <1>5, <2>1, FlaggedRows
  <2> QED
    BY <2>1, <2>2, <2>3
<1>7. OneRowPerTenantAndUser'
  <2>1. /\ tenantUser'[u].tenant = tenantUser[u].tenant
        /\ tenantUser'[u].sso = tenantUser[u].sso
    BY <1>1, <1>4 DEF RowsStay
  <2>2. \A v \in TenantUserIds, t \in Tenants, s \in Users :
          RowOf(v, t, s)' => RowOf(v, t, s)
    BY <1>1, <1>3, <2>1 DEF OthersUnchanged, RowOf, InTenant, Exists
  <2> QED
    BY <2>2 DEF SerialInv, OneRowPerTenantAndUser
<1> QED
  BY <1>3, <1>4, <1>6, <1>7, HoldsSomeFrame, NoDuplicatesFrame, RowsInOrderMeans DEF SerialInv

\* A stale addTenantUser or addGroupUser that saves the tenant user takes no role:
\* an active user keeps one, a tenant its owner.
LEMMA StaleSavedUser ==
    ASSUME CTypeOK, SerialInv, NEW u \in TenantUserIds, NEW t \in Tenants, NEW s \in Users,
           ~Exists(u) \/ RowOf(u, t, s), SaveTenantUser(u, t, s),
           NEW idp, NEW asked \in SUBSET Roles, Saves(RolePlan(roleRow[u], idp, asked)),
           SaveRoles(u, RolePlan(roleRow[u], idp, asked)),
           NEW plan, SaveMembers(u, plan), createdBy' = createdBy
    PROVE  TenantHasOwner' /\ ActiveUserHasRole'
<1>1. OthersUnchanged(u)
  BY DEF OthersUnchanged, SaveTenantUser, SaveRoles, SaveMembers, CTypeOK, TypeOK
<1>2. Active(u)' /\ tenantUser'[u].tenant = t
  BY SaveTenantUserActive, SaveTenantUserRowOf DEF CTypeOK
<1>3. HoldsSome(u)'
  BY SavedRolesHoldSome DEF CTypeOK
<1>4. \A r \in Roles : HasRole(u, r) => HasRole(u, r)'
  BY ApplyPlanKeepsActive DEF SaveRoles, HasRole, CTypeOK, TypeOK
<1>5. \A x \in Tenants : OwnerOf(x, u) => OwnerOf(x, u)'
  BY <1>2, <1>4, RolesAssumption DEF OwnerOf, Active, InTenant, RowOf
<1> QED
  BY <1>1, <1>3, <1>5, OwnerFrame, HoldsSomeFrame DEF SerialInv

LEMMA StaleAdd ==
    ASSUME CTypeOK, SerialInv, NEW q \in Requests, HasTarget(q),
           NEW u \in TenantUserIds, WriteAdd(q, u)
    PROVE  TenantHasOwner' /\ ActiveUserHasRole'
<1> DEFINE st == request[q]
           idp == StoredIdp(st.sso, st.idp)
           asked == RoleIdsToAssign(st.idp, st.roles)
<1>1. st.tenant \in Tenants /\ st.sso \in Users /\ asked \in SUBSET Roles
  BY StateOfHandler, RolesAssumption
     DEF CTypeOK, WriteAdd, SavesTenantUser, At, AddState, RoleIdsToAssign
<1>2. /\ SaveTenantUser(u, st.tenant, st.sso)
      /\ Saves(RolePlan(roleRow[u], idp, asked))
      /\ SaveRoles(u, RolePlan(roleRow[u], idp, asked))
      /\ SaveMembers(u, GroupsPlan(groupRow[u], st.groups))
      /\ createdBy' = createdBy
  BY DEF WriteAdd
<1>3. ~Exists(u) \/ RowOf(u, st.tenant, st.sso)
  BY DEF WriteAdd, SavesTenantUser, At, HasTarget, AddsUser
<1> HIDE DEF idp, asked
<1> QED
  BY <1>1, <1>2, <1>3, StaleSavedUser

LEMMA StaleUserAndMember ==
    ASSUME CTypeOK, SerialInv, NEW q \in Requests, HasTarget(q),
           NEW u \in TenantUserIds, WriteUserAndMember(q, u)
    PROVE  TenantHasOwner' /\ ActiveUserHasRole'
<1> DEFINE st == request[q]
           idp == StoredIdp(st.sso, st.idp)
<1>1. st.tenant \in Tenants /\ st.sso \in Users /\ {ServiceUser} \in SUBSET Roles
  BY StateOfHandler, RolesAssumption
     DEF CTypeOK, WriteUserAndMember, SavesTenantUser, At, AddToGroupState
<1>2. /\ SaveTenantUser(u, st.tenant, st.sso)
      /\ Saves(RolePlan(roleRow[u], idp, {ServiceUser}))
      /\ SaveRoles(u, RolePlan(roleRow[u], idp, {ServiceUser}))
      /\ SaveMembers(u, MemberPlan(groupRow[u], st.group))
      /\ createdBy' = createdBy
  BY DEF WriteUserAndMember
<1>3. ~Exists(u) \/ RowOf(u, st.tenant, st.sso)
  BY DEF WriteUserAndMember, SavesTenantUser, At, HasTarget, AddsUser
<1> HIDE DEF idp
<1> QED
  BY <1>1, <1>2, <1>3, StaleSavedUser

\* A stale createGroup may make a removed user the first member, and that is
\* all: the group it inserts is new, so that no member row is there yet.
LEMMA StaleCreateGroup ==
    ASSUME CTypeOK, SerialInv, NEW q \in Requests, WriteCreateGroup(q),
           NEW w, w = request[q].tenantUser, NEW g, g = request[q].group
    PROVE  /\ TenantHasOwner' /\ ActiveUserHasRole'
           /\ NoDuplicateAssignments' /\ OneRowPerTenantAndUser'
<1> DEFINE plan == [restore |-> {}, create |-> {g}]
<1>1. w \in TenantUserIds /\ g \in Groups
  BY StateOfHandler DEF CTypeOK, WriteCreateGroup, At, CreateGroupState
<1>2. /\ groupTenant[g] = NoRow
      /\ SaveMembers(w, plan)
      /\ createdBy' = createdBy /\ tenantUser' = tenantUser /\ roleRow' = roleRow
  BY DEF WriteCreateGroup
<1>3. plan.create \subseteq {g} /\ \A x, k : <<x, k>> \in plan.restore => x \in {g}
  OBVIOUS
<1>4. InOrder(w) /\ Blank(groupRow[w][g])
  BY <1>1, <1>2 DEF SerialInv, RowsInOrder, InOrder
<1>5. SoundPlan(groupRow[w], plan)
  BY <1>4 DEF SoundPlan
<1> HIDE DEF plan
<1>6. OthersUnchanged(w)
  BY <1>2 DEF OthersUnchanged, SaveMembers, CTypeOK, TypeOK
<1>7. \A x \in Groups : AtMostOneRow(groupRow'[w][x])
  BY <1>1, <1>2, <1>3, <1>4, <1>5, SaveMembersInOrder DEF CTypeOK
<1>8. \A r \in Roles : AtMostOneRow(roleRow'[w][r])
  BY <1>2, <1>4 DEF InOrder
<1>9. TenantHasOwner' /\ ActiveUserHasRole'
  BY <1>2 DEF SerialInv, TenantHasOwner, TenantExists, OwnerOf, ActiveUserHasRole,
     Active, Exists, InTenant, HasRole
<1> QED
  BY <1>2, <1>6, <1>7, <1>8, <1>9, NoDuplicatesFrame, SameUsersOneRow, RowsInOrderMeans
  DEF SerialInv

\* However many requests overlap, every rule outlives every step up to the first
\* commit of one that was overtaken, and that commit, too, but for those of its
\* handler.
THEOREM FirstStaleCommit == OSpec => FirstStaleCommitBreaksOnly
<1> DEFINE BreaksOnly(q) ==
      /\ TenantHasOwner' \/ request[q].op \in {"unassign", "remove"}
      /\ ActiveUserHasRole' \/ request[q].op = "unassign"
      /\ RemovedUserHasNothing'
           \/ request[q].op \in {"remove", "assign", "add", "addToGroup", "createGroup"}
      /\ NoDuplicateAssignments' \/ request[q].op \in {"assign", "add", "addToGroup"}
      /\ OneRowPerTenantAndUser' \/ request[q].op \in {"add", "addToGroup"}
<1> DEFINE RulesOutlive ==
      /\ TenantHasOwner' \/ StaleCommitBy({"unassign", "remove"})
      /\ ActiveUserHasRole' \/ StaleCommitBy({"unassign"})
      /\ RemovedUserHasNothing'
           \/ StaleCommitBy({"remove", "assign", "add", "addToGroup", "createGroup"})
      /\ NoDuplicateAssignments' \/ StaleCommitBy({"assign", "add", "addToGroup"})
      /\ OneRowPerTenantAndUser' \/ StaleCommitBy({"add", "addToGroup"})
<1>1. ASSUME CTypeOK, TargetsExist, TablesUntilStale, ONext, NEW q \in Requests,
             ~stale, Commits(q)
      PROVE  BreaksOnly(q)
  <2>1. Writes(q)
    BY <1>1, CommitIsWrite DEF ONext
  <2>2. SerialInv /\ HasTarget(q)
    BY <1>1 DEF TablesUntilStale, TargetsExist
  <2>3. CASE WriteAssign(q)
    BY <1>1, <2>2, <2>3, StaleAssign DEF WriteAssign, At
  <2>4. CASE WriteUnassign(q)
    BY <1>1, <2>2, <2>4, StaleUnassign DEF WriteUnassign, At
  <2>5. CASE CommitRemoval(q)
    BY <1>1, <2>2, <2>5, StaleRemove DEF CommitRemoval, At
  <2>6. ASSUME NEW u \in TenantUserIds, WriteAdd(q, u)
        PROVE  BreaksOnly(q)
    <3>1. request[q].op = "add"
      BY <2>6 DEF WriteAdd, SavesTenantUser, At
    <3> QED
      BY <1>1, <2>2, <2>6, <3>1, StaleAdd
  <2>7. ASSUME NEW op \in AddsUser, WriteRolesAndMembers(q, op)
        PROVE  BreaksOnly(q)
    <3>1. request[q].op \in AddsUser
      BY <2>7 DEF WriteRolesAndMembers, At
    <3> QED
      BY <1>1, <2>2, <2>7, <3>1, StaleRolesAndMembers DEF AddsUser
  <2>8. ASSUME NEW u \in TenantUserIds, WriteUserAndMember(q, u)
        PROVE  BreaksOnly(q)
    <3>1. request[q].op = "addToGroup"
      BY <2>8 DEF WriteUserAndMember, SavesTenantUser, At
    <3> QED
      BY <1>1, <2>2, <2>8, <3>1, StaleUserAndMember
  <2>9. CASE WriteCreateGroup(q)
    BY <1>1, <2>2, <2>9, StaleCreateGroup DEF WriteCreateGroup, At
  <2> QED
    BY <2>1, <2>3, <2>4, <2>5, <2>6, <2>7, <2>8, <2>9 DEF Writes
<1>2. ASSUME CTypeOK, TargetsExist, TablesUntilStale, ONext, ~stale
      PROVE  RulesOutlive
  <2>1. CASE ~stale'
    <3>1. SerialInv'
      BY <1>2, <2>1, SerialUntilStale, NextSerial DEF TablesUntilStale
    <3> QED
      BY <3>1 DEF SerialInv, RowsInOrder, InOrder, NoDuplicateAssignments, AtMostOneRow, Blank
  <2>2. CASE stale'
    <3>1. PICK q \in overtaken : Commits(q)
      BY <1>2, <2>2 DEF ONext
    <3>2. q \in Requests
      BY <1>2, <3>1 DEF TablesUntilStale
    <3>3. BreaksOnly(q)
      BY <1>1, <1>2, <3>1, <3>2
    <3> QED
      BY <3>1, <3>3 DEF StaleCommitBy
  <2> QED
    BY <2>1, <2>2
<1>3. (CTypeOK /\ TargetsExist) /\ TablesUntilStale /\ [ONext]_ovars =>
        [~stale => RulesOutlive]_ovars
  BY <1>2
<1> QED
  BY <1>3, OverlapTypeCorrect, OverlapTables, PTL DEF OSpec, FirstStaleCommitBreaksOnly

-----------------------------------------------------------------------------
(* One tenant user per request, under overlap. *)

LEMMA WriteOthers ==
    ASSUME CTypeOK, NEW q \in Requests, HasTarget(q), Writes(q)
    PROVE  \E w : OthersUnchanged(w)
<1> DEFINE st == request[q]
<1> USE DEF CTypeOK, TypeOK, OthersUnchanged, SaveTenantUser, SaveRoles, SaveMembers
<1>1. CASE WriteAssign(q)
  BY <1>1 DEF WriteAssign
<1>2. CASE WriteUnassign(q)
  <2>1. OthersUnchanged(st.tenantUser)
    BY <1>2 DEF WriteUnassign
  <2> QED
    BY <2>1
<1>3. CASE CommitRemoval(q)
  <2>1. OthersUnchanged(st.tenantUser)
    BY <1>3 DEF CommitRemoval
  <2> QED
    BY <2>1
<1>4. ASSUME NEW u \in TenantUserIds, WriteAdd(q, u)
      PROVE  OthersUnchanged(u)
  BY <1>4 DEF WriteAdd
<1>5. ASSUME NEW op \in AddsUser, WriteRolesAndMembers(q, op)
      PROVE  OthersUnchanged(st.tenantUser)
  BY <1>5 DEF WriteRolesAndMembers
<1>6. ASSUME NEW u \in TenantUserIds, WriteUserAndMember(q, u)
      PROVE  OthersUnchanged(u)
  BY <1>6 DEF WriteUserAndMember
<1>7. CASE WriteCreateGroup(q)
  BY <1>7 DEF WriteCreateGroup
<1> QED
  BY <1>1, <1>2, <1>3, <1>4, <1>5, <1>6, <1>7 DEF Writes

\* Whatever a request has read and whoever overtook it, its commit changes the
\* rows of one tenant user: what overlap can spoil is never somebody else's.
THEOREM OneUserUnderOverlap == OSpec => OneUserPerRequest
<1> DEFINE OneUser == \A u, v \in TenantUserIds :
             RowsOf(u)' # RowsOf(u) /\ RowsOf(v)' # RowsOf(v) => u = v
<1>1. (CTypeOK /\ TargetsExist) /\ [ONext]_ovars => [OneUser]_vars
  <2> SUFFICES ASSUME CTypeOK, TargetsExist, ONext, vars' # vars PROVE OneUser
    BY DEF ovars, cvars
  <2>1. PICK w : OthersUnchanged(w)
    <3>1. CASE AtOnce
      <4>1. Next
        BY <3>1 DEF AtOnce, Next, FirstMembers
      <4> QED
        BY <4>1, NextOthers DEF CTypeOK
    <3>2. ASSUME NEW q \in Requests, Start(q)
          PROVE  FALSE
      BY <3>2, StartsIdle DEF Becomes
    <3>3. ASSUME NEW q \in Requests, Continue(q)
          PROVE  \E w : OthersUnchanged(w)
      <4>1. Writes(q)
        BY <3>3, ContinueReadsOrWrites, ReadsBecome DEF Abort, Becomes
      <4> QED
        BY <4>1, WriteOthers DEF TargetsExist
    <3> QED
      BY <3>1, <3>2, <3>3 DEF ONext, CNext
  <2> QED
    BY <2>1 DEF OthersUnchanged, RowsOf
<1> QED
  BY <1>1, OverlapTypeCorrect, PTL DEF OSpec, OneUserPerRequest

-----------------------------------------------------------------------------
(* BCeID users, under overlap. *)

\* u may hold r: by the provider stored with the user, as SERVICE_USER, or as
\* the one the tenant was created for.
MayHold(u, r) ==
    \/ idpType[tenantUser[u].sso] = Idir
    \/ r = ServiceUser
    \/ createdBy[tenantUser[u].tenant] = tenantUser[u].sso

\* Stronger than BceidHoldsServiceUserOnly: it holds of removed users, too, who
\* may be given roles by a request that overlaps the removal, and of the roles
\* that requests are about to write.
RolesHeldMayBe ==
    \A u \in TenantUserIds, r \in Roles : HasRole(u, r) => Exists(u) /\ MayHold(u, r)
PlannedMayBe(st) ==
    st.op \in GivesRoles /\ st.at # "insert" =>
        \A r \in Roles :
            r \in st.plan.create \/ (\E k \in Copies : <<r, k>> \in st.plan.restore)
                => MayHold(st.tenantUser, r)
RolesPlannedMayBe == \A q \in Requests : \A st : request[q] = st => PlannedMayBe(st)

\* A provider stored with a user stays, and so does the creator of a tenant.
ProvidersStay ==
    /\ \A s \in Users : idpType[s] # NoRow => idpType'[s] = idpType[s]
    /\ \A t \in Tenants : createdBy[t] # NoRow => createdBy'[t] = createdBy[t]

LEMMA MayHoldStays ==
    ASSUME TypeOK, RowsStay, ProvidersStay, NEW u \in TenantUserIds, Exists(u), NEW r,
           MayHold(u, r)
    PROVE  MayHold(u, r)'
<1>1. tenantUser[u].sso \in Users /\ tenantUser[u].tenant \in Tenants
  BY DEF TypeOK, Exists, TenantUserRow
<1> QED
  BY <1>1, NoRowAssumption DEF MayHold, RowsStay, ProvidersStay, IdpTypes

LEMMA CNextProvidersStay ==
    ASSUME CTypeOK, CNext
    PROVE  ProvidersStay
<1> USE DEF CTypeOK
<1>1. idpType' = idpType /\ createdBy' = createdBy => ProvidersStay
  BY DEF ProvidersStay
<1>2. ASSUME NEW s \in Users, NEW idp \in IdpTypes, createdBy' = createdBy,
             idpType' = [idpType EXCEPT ![s] = StoredIdp(s, idp)]
      PROVE  ProvidersStay
  BY <1>2, StoredIdpStays DEF ProvidersStay
<1>3. CASE AtOnce
  <2>1. ASSUME NEW t \in Tenants, NEW s \in Users, NEW idp \in IdpTypes,
               NEW u \in TenantUserIds, CreateTenant(t, s, idp, u)
        PROVE  ProvidersStay
    <3>1. \A x \in Users : idpType[x] # NoRow => idpType'[x] = idpType[x]
      BY <2>1, StoredIdpStays DEF CreateTenant
    <3>2. \A x \in Tenants : createdBy[x] # NoRow => createdBy'[x] = createdBy[x]
      BY <2>1 DEF CreateTenant, TenantExists, TypeOK
    <3> QED
      BY <3>1, <3>2 DEF ProvidersStay
  <2> QED
    BY <1>1, <1>3, <2>1 DEF AtOnce, CreateGroup, RemoveGroupUser
<1>4. ASSUME NEW q \in Requests, Start(q)
      PROVE  ProvidersStay
  BY <1>1, <1>4, StartsIdle DEF Becomes, vars
<1>5. ASSUME NEW q \in Requests, Continue(q)
      PROVE  ProvidersStay
  <2>1. request[q] \in RequestState
    OBVIOUS
  <2>2. ASSUME NEW u \in TenantUserIds, WriteAdd(q, u)
        PROVE  ProvidersStay
    <3>1. request[q].sso \in Users /\ request[q].idp \in IdpTypes
      BY <2>1, <2>2, StateOfHandler DEF WriteAdd, SavesTenantUser, At, AddState
    <3> QED
      BY <1>2, <2>2, <3>1 DEF WriteAdd
  <2>3. ASSUME NEW u \in TenantUserIds, WriteUserAndMember(q, u)
        PROVE  ProvidersStay
    <3>1. request[q].sso \in Users /\ request[q].idp \in IdpTypes
      BY <2>1, <2>3, StateOfHandler
         DEF WriteUserAndMember, SavesTenantUser, At, AddToGroupState
    <3> QED
      BY <1>2, <2>3, <3>1 DEF WriteUserAndMember
  <2>4. CASE Reads(q) \/ Abort(q)
    BY <1>1, <2>4, ReadsBecome DEF Abort, Becomes, vars
  <2>5. CASE Writes(q)
    BY <1>1, <2>2, <2>3, <2>5
    DEF Writes, WriteAssign, WriteUnassign, CommitRemoval, WriteRolesAndMembers,
        WriteCreateGroup
  <2> QED
    BY <1>5, <2>4, <2>5, ContinueReadsOrWrites
<1> QED
  BY <1>3, <1>4, <1>5 DEF CNext

\* What is held after a step was held before, or may be held.
LEMMA RolesHeldFrame ==
    ASSUME TypeOK, RolesHeldMayBe, RowsStay, ProvidersStay,
           \A u \in TenantUserIds, r \in Roles :
               HasRole(u, r)' => HasRole(u, r) \/ (Exists(u)' /\ MayHold(u, r)')
    PROVE  RolesHeldMayBe'
<1>1. \A u \in TenantUserIds, r \in Roles :
        HasRole(u, r) => Exists(u)' /\ MayHold(u, r)'
  BY MayHoldStays DEF RolesHeldMayBe, RowsStay
<1> QED
  BY <1>1 DEF RolesHeldMayBe

\* A user added with these roles, by either handler.
LEMMA AddedMayHold ==
    ASSUME TypeOK, NEW u \in TenantUserIds, NEW t \in Tenants, NEW s \in Users,
           NEW idp \in IdpTypes, NEW asked \in SUBSET Roles, SaveTenantUser(u, t, s),
           idpType' = [idpType EXCEPT ![s] = StoredIdp(s, idp)],
           SaveRoles(u, RolePlan(roleRow[u], StoredIdp(s, idp), asked))
    PROVE  \A v \in TenantUserIds, r \in Roles :
               HasRole(v, r)' => HasRole(v, r) \/ (Exists(v)' /\ MayHold(v, r)')
<1> DEFINE given == StoredIdp(s, idp)
<1>1. Exists(u)' /\ tenantUser'[u].sso = s
  BY SaveTenantUserActive, SaveTenantUserRowOf DEF Active
<1>2. idpType'[s] = given
  BY StoredIdpStays
<1>3. SaveRoles(u, RolePlan(roleRow[u], given, asked))
  OBVIOUS
<1> HIDE DEF given
<1>4. \A r \in Roles : HasRole(u, r)' => HasRole(u, r) \/ given = Idir \/ r = ServiceUser
  BY <1>3, SavedRolesWithin
<1>5. \A r \in Roles : HasRole(u, r)' => HasRole(u, r) \/ (Exists(u)' /\ MayHold(u, r)')
  BY <1>1, <1>2, <1>4 DEF MayHold
<1>6. \A v \in TenantUserIds \ {u} : roleRow'[v] = roleRow[v]
  BY <1>3 DEF SaveRoles, TypeOK
<1> QED
  BY <1>5, <1>6 DEF HasRole

\* Roles written by plan.
LEMMA PlannedRolesHeld ==
    ASSUME CTypeOK, NEW q \in Requests, HasTarget(q), RolesPlannedMayBe, RowsStay,
           ProvidersStay, request[q].op \in GivesRoles, request[q].at = "write",
           SaveRoles(request[q].tenantUser, request[q].plan)
    PROVE  \A v \in TenantUserIds, r \in Roles :
               HasRole(v, r)' => HasRole(v, r) \/ (Exists(v)' /\ MayHold(v, r)')
<1>1. PICK u \in TenantUserIds : u = request[q].tenantUser /\ Exists(u)
  BY RolesInHand
<1>2. PICK plan : plan = request[q].plan
  OBVIOUS
<1>3. /\ \A v \in TenantUserIds \ {u} : roleRow'[v] = roleRow[v]
      /\ roleRow'[u] = ApplyPlan(roleRow[u], plan)
  BY <1>1, <1>2 DEF SaveRoles, CTypeOK, TypeOK
<1>4. \A r \in Roles :
          r \in plan.create \/ (\E k \in Copies : <<r, k>> \in plan.restore)
              => MayHold(u, r)
  BY <1>1, <1>2 DEF RolesPlannedMayBe, PlannedMayBe
<1>5. \A r \in Roles : MayHold(u, r) => Exists(u)' /\ MayHold(u, r)'
  BY <1>1, MayHoldStays DEF RowsStay, CTypeOK
<1>6. roleRow[u] \in [Roles -> [Copies -> Statuses]]
  BY DEF CTypeOK, TypeOK
<1>7. \A r \in Roles : HasRole(u, r)' => HasRole(u, r) \/ MayHold(u, r)
  BY <1>3, <1>4, <1>6, ApplyPlanActive DEF HasRole
<1> QED
  BY <1>3, <1>5, <1>7 DEF HasRole

LEMMA CNextRolesHeld ==
    ASSUME CTypeOK, TargetsExist, RolesHeldMayBe, RolesPlannedMayBe, CNext
    PROVE  RolesHeldMayBe'
<1> USE DEF CTypeOK
<1>0. RowsStay /\ ProvidersStay
  BY CNextRowsStay, CNextProvidersStay
<1>1. roleRow' = roleRow => RolesHeldMayBe'
  BY <1>0, RolesHeldFrame DEF HasRole
<1>2. CASE AtOnce
  <2>1. ASSUME NEW t \in Tenants, NEW s \in Users, NEW idp \in IdpTypes,
               NEW u \in TenantUserIds, CreateTenant(t, s, idp, u)
        PROVE  RolesHeldMayBe'
    <3>1. Exists(u)' /\ tenantUser'[u].tenant = t /\ tenantUser'[u].sso = s
      BY <2>1, SaveTenantUserActive, SaveTenantUserRowOf DEF CreateTenant, Active
    <3>2. createdBy'[t] = s
      BY <2>1 DEF CreateTenant, TypeOK
    <3>3. \A r \in Roles : MayHold(u, r)'
      BY <3>1, <3>2 DEF MayHold
    <3>4. \A v \in TenantUserIds \ {u} : roleRow'[v] = roleRow[v]
      BY <2>1 DEF CreateTenant, SaveRoles, TypeOK
    <3>5. \A v \in TenantUserIds, r \in Roles :
              HasRole(v, r)' => HasRole(v, r) \/ (Exists(v)' /\ MayHold(v, r)')
      BY <3>1, <3>3, <3>4 DEF HasRole
    <3> QED
      BY <1>0, <3>5, RolesHeldFrame
  <2> QED
    BY <1>1, <1>2, <2>1 DEF AtOnce, CreateGroup, RemoveGroupUser
<1>3. ASSUME NEW q \in Requests, Start(q)
      PROVE  RolesHeldMayBe'
  BY <1>1, <1>3, StartsIdle DEF Becomes, vars
<1>4. ASSUME NEW q \in Requests, Continue(q)
      PROVE  RolesHeldMayBe'
  <2> DEFINE st == request[q]
  <2>0. st \in RequestState /\ HasTarget(q)
    BY DEF TargetsExist
  <2>1. CASE WriteAssign(q) \/ \E op \in AddsUser : WriteRolesAndMembers(q, op)
    <3>1. /\ st.op \in GivesRoles /\ st.at = "write"
          /\ SaveRoles(st.tenantUser, st.plan)
      BY <2>1 DEF WriteAssign, WriteRolesAndMembers, At, GivesRoles, AddsUser
    <3>2. \A v \in TenantUserIds, r \in Roles :
              HasRole(v, r)' => HasRole(v, r) \/ (Exists(v)' /\ MayHold(v, r)')
      BY <1>0, <2>0, <3>1, PlannedRolesHeld
    <3> QED
      BY <1>0, <3>2, RolesHeldFrame
  <2>2. CASE WriteUnassign(q)
    <3> DEFINE u == st.tenantUser
    <3>1. u \in TenantUserIds /\ st.role \in Roles
      BY <2>0, <2>2, StateOfHandler DEF WriteUnassign, At, UnassignState
    <3>2. \A v \in TenantUserIds, r \in Roles : roleRow'[v][r] =
              IF v = u /\ r = st.role THEN SoftDelete(roleRow[v][r]) ELSE roleRow[v][r]
      BY <2>2, <3>1 DEF WriteUnassign, TypeOK
    <3>3. ~Has(SoftDelete(roleRow[u][st.role]), "active")
      BY <3>1, SoftDeleteSweeps DEF TypeOK
    <3>4. \A v \in TenantUserIds, r \in Roles : HasRole(v, r)' => HasRole(v, r)
      BY <3>2, <3>3 DEF HasRole
    <3> QED
      BY <1>0, <3>4, RolesHeldFrame
  <2>3. CASE CommitRemoval(q)
    <3> DEFINE u == st.tenantUser
               found == st.roleRows
    <3>1. u \in TenantUserIds /\ roleRow' = [roleRow EXCEPT ![u] = Flagged(@, found)]
      BY <2>0, <2>3, StateOfHandler DEF CommitRemoval, At, RemoveState
    <3> HIDE DEF u, found
    <3>2. /\ roleRow[u] \in [Roles -> [Copies -> Statuses]]
          /\ roleRow'[u] = Flagged(roleRow[u], found)
          /\ \A v \in TenantUserIds \ {u} : roleRow'[v] = roleRow[v]
      BY <3>1 DEF TypeOK
    <3>3. \A v \in TenantUserIds, r \in Roles : HasRole(v, r)' => HasRole(v, r)
      BY <3>2, FlaggedRows DEF HasRole
    <3> QED
      BY <1>0, <3>3, RolesHeldFrame
  <2>4. ASSUME NEW u \in TenantUserIds, WriteAdd(q, u)
        PROVE  RolesHeldMayBe'
    <3>1. /\ st.tenant \in Tenants /\ st.sso \in Users /\ st.idp \in IdpTypes
          /\ RoleIdsToAssign(st.idp, st.roles) \in SUBSET Roles
      BY <2>0, <2>4, StateOfHandler, RolesAssumption
         DEF WriteAdd, SavesTenantUser, At, AddState, RoleIdsToAssign
    <3>2. /\ SaveTenantUser(u, st.tenant, st.sso)
          /\ idpType' = [idpType EXCEPT ![st.sso] = StoredIdp(st.sso, st.idp)]
          /\ SaveRoles(u, RolePlan(roleRow[u], StoredIdp(st.sso, st.idp),
                                   RoleIdsToAssign(st.idp, st.roles)))
      BY <2>4 DEF WriteAdd
    <3> HIDE DEF st
    <3>3. \A v \in TenantUserIds, r \in Roles :
              HasRole(v, r)' => HasRole(v, r) \/ (Exists(v)' /\ MayHold(v, r)')
      BY <3>1, <3>2, AddedMayHold
    <3> QED
      BY <1>0, <3>3, RolesHeldFrame
  <2>5. ASSUME NEW u \in TenantUserIds, WriteUserAndMember(q, u)
        PROVE  RolesHeldMayBe'
    <3>1. /\ st.tenant \in Tenants /\ st.sso \in Users /\ st.idp \in IdpTypes
          /\ {ServiceUser} \in SUBSET Roles
      BY <2>0, <2>5, StateOfHandler, RolesAssumption
         DEF WriteUserAndMember, SavesTenantUser, At, AddToGroupState
    <3>2. /\ SaveTenantUser(u, st.tenant, st.sso)
          /\ idpType' = [idpType EXCEPT ![st.sso] = StoredIdp(st.sso, st.idp)]
          /\ SaveRoles(u, RolePlan(roleRow[u], StoredIdp(st.sso, st.idp), {ServiceUser}))
      BY <2>5 DEF WriteUserAndMember
    <3> HIDE DEF st
    <3>3. \A v \in TenantUserIds, r \in Roles :
              HasRole(v, r)' => HasRole(v, r) \/ (Exists(v)' /\ MayHold(v, r)')
      BY <3>1, <3>2, AddedMayHold
    <3> QED
      BY <1>0, <3>3, RolesHeldFrame
  <2>6. CASE Reads(q) \/ Abort(q)
    BY <1>1, <2>6, ReadsBecome DEF Abort, Becomes, vars
  <2>7. CASE Writes(q)
    BY <1>1, <2>1, <2>2, <2>3, <2>4, <2>5, <2>7 DEF Writes, WriteCreateGroup
  <2> QED
    BY <1>4, <2>6, <2>7, ContinueReadsOrWrites
<1> QED
  BY <1>2, <1>3, <1>4 DEF CNext

\* The plan is made of what is asked and may be granted to the user.
LEMMA AssignPlanMayHold ==
    ASSUME TypeOK, NEW q, request[q].tenantUser \in TenantUserIds,
           request[q].roles \in SUBSET Roles
    PROVE  \A r \in Roles :
               \/ r \in AssignPlan(q).create
               \/ \E k \in Copies : <<r, k>> \in AssignPlan(q).restore
               => MayHold(request[q].tenantUser, r)
<1> DEFINE u == request[q].tenantUser
           idp == idpType[tenantUser[u].sso]
           asked == request[q].roles
<1>1. roleRow[u] \in [Roles -> [Copies -> Statuses]] /\ asked \in SUBSET Roles
  BY DEF TypeOK
<1>2. \A r \in Roles : r \in AssignPlan(q).create => Assignable(idp, r)
  BY DEF AssignPlan
<1>3. AssignPlan(q).restore = RolePlan(roleRow[u], idp, asked).restore
  BY DEF AssignPlan
<1>4. \A r \in Roles, k \in Copies :
        <<r, k>> \in AssignPlan(q).restore => Assignable(idp, r)
  <2> HIDE DEF u, idp, asked
  <2> QED
    BY <1>1, <1>3, RolePlanSound
<1>5. \A r \in Roles : Assignable(idp, r) => MayHold(u, r)
  BY DEF Assignable, MayHold
<1> QED
  BY <1>2, <1>4, <1>5

LEMMA CNextRolesPlanned ==
    ASSUME CTypeOK, TargetsExist, RolesPlannedMayBe, CNext
    PROVE  RolesPlannedMayBe'
<1> USE DEF CTypeOK
<1>0. RowsStay /\ ProvidersStay
  BY CNextRowsStay, CNextProvidersStay
<1> SUFFICES ASSUME NEW q \in Requests, NEW st, request'[q] = st,
                    st.op \in GivesRoles, st.at # "insert"
             PROVE  PlannedMayBe(st)'
  BY DEF RolesPlannedMayBe, PlannedMayBe
<1> DEFINE Gives(plan, u) == \A r \in Roles :
             r \in plan.create \/ (\E k \in Copies : <<r, k>> \in plan.restore) => MayHold(u, r)
<1>1. ASSUME request'[q] = request[q]
      PROVE  PlannedMayBe(st)'
  <2>1. PlannedMayBe(st) /\ st.tenantUser \in TenantUserIds /\ Exists(st.tenantUser)
    BY <1>1, RolesInHand DEF RolesPlannedMayBe, TargetsExist
  <2> QED
    BY <1>0, <2>1, MayHoldStays DEF PlannedMayBe
<1>2. CASE Start(q)
  <2>1. ASSUME NEW new, Becomes(q, new)
        PROVE  new = st /\ (\A u, r : MayHold(u, r) => MayHold(u, r)')
    BY <2>1 DEF Becomes, vars, MayHold
  <2>2. st.plan = NoPlan
    <3>1. PICK t \in Tenants :
            \/ \E u \in TenantUserIds, asked \in RoleIdsInBody : StartAssign(q, t, u, asked)
            \/ \E u \in TenantUserIds, r \in Roles : StartUnassign(q, t, u, r)
            \/ \E u \in TenantUserIds : StartRemove(q, t, u)
            \/ \E s \in Users, idp \in IdpTypes, groups \in SUBSET Groups,
                  u \in TenantUserIds \union {NoRow} :
                \E asked \in RolesInBody(idp) : StartAdd(q, t, s, idp, asked, groups, u)
            \/ \E g \in Groups, s \in Users, idp \in IdpTypes,
                  u \in TenantUserIds \union {NoRow} : StartAddToGroup(q, t, g, s, idp, u)
            \/ \E g \in Groups, w \in TenantUserIds : StartCreateGroup(q, t, g, w)
      BY <1>2 DEF Start
    <3>2. ASSUME NEW u \in TenantUserIds, NEW asked \in RoleIdsInBody, StartAssign(q, t, u, asked)
          PROVE  st.plan = NoPlan
      BY <2>1, <3>2 DEF StartAssign
    <3>3. ASSUME NEW u \in TenantUserIds, NEW r \in Roles, StartUnassign(q, t, u, r)
          PROVE  FALSE
      BY <2>1, <3>3 DEF StartUnassign, GivesRoles
    <3>4. ASSUME NEW u \in TenantUserIds, StartRemove(q, t, u)
          PROVE  FALSE
      BY <2>1, <3>4 DEF StartRemove, GivesRoles
    <3>5. ASSUME NEW s \in Users, NEW idp \in IdpTypes, NEW groups \in SUBSET Groups,
                 NEW u \in TenantUserIds \union {NoRow}, NEW asked \in RolesInBody(idp),
                 StartAdd(q, t, s, idp, asked, groups, u)
          PROVE  st.plan = NoPlan
      BY <2>1, <3>5 DEF StartAdd
    <3>6. ASSUME NEW g \in Groups, NEW s \in Users, NEW idp \in IdpTypes,
                 NEW u \in TenantUserIds \union {NoRow}, StartAddToGroup(q, t, g, s, idp, u)
          PROVE  st.plan = NoPlan
      BY <2>1, <3>6 DEF StartAddToGroup
    <3>7. ASSUME NEW g \in Groups, NEW w \in TenantUserIds, StartCreateGroup(q, t, g, w)
          PROVE  FALSE
      BY <2>1, <3>7 DEF StartCreateGroup, GivesRoles
    <3> QED
      BY <3>1, <3>2, <3>3, <3>4, <3>5, <3>6, <3>7
  <2> QED
    BY <2>2 DEF PlannedMayBe, NoPlan
<1>3. CASE Reads(q)
  <2>1. PICK new \in RequestState : Becomes(q, new) /\ Moves(q, new)
    BY <1>3, ReadsMove DEF TargetsExist
  <2>2. new = st /\ \A u, r : MayHold(u, r) => MayHold(u, r)'
    BY <2>1 DEF Becomes, vars, MayHold
  <2>3. request[q].op \in GivesRoles /\ request[q].at # "insert"
    <3>1. request[q].op = "assign" => request[q].at # "insert"
      BY StateOfHandler DEF AssignState
    <3> QED
      BY <2>1, <2>2, <3>1 DEF Moves, GivesRoles, AddsUser
  <2>4. request[q].tenantUser \in TenantUserIds /\ request[q].roles \in SUBSET Roles
    BY <2>3, RolesInHand DEF TargetsExist
  <2>5. st.tenantUser = request[q].tenantUser /\ st.plan \in {request[q].plan, AssignPlan(q)}
    BY <2>1, <2>2, <2>3 DEF Moves
  <2>6. Gives(request[q].plan, request[q].tenantUser)
    BY <2>3 DEF RolesPlannedMayBe, PlannedMayBe
  <2>7. Gives(AssignPlan(q), request[q].tenantUser)
    BY <2>4, AssignPlanMayHold
  <2>8. Gives(st.plan, st.tenantUser)
    BY <2>5, <2>6, <2>7
  <2> QED
    BY <2>2, <2>8 DEF PlannedMayBe
<1>4. CASE Writes(q) \/ Abort(q)
  BY <1>4, WritesFinish DEF Finish, Abort, Becomes, Idle, GivesRoles
<1>5. AtOnce \/ (\E p \in Requests \ {q} : Start(p) \/ Continue(p)) => request'[q] = request[q]
  BY OtherRequestsStay DEF AtOnce
<1> QED
  BY <1>1, <1>2, <1>3, <1>4, <1>5, ContinueReadsOrWrites DEF CNext

\* Overlap does not help a BCeID user to a role: the checks read a provider that
\* never changes once stored.
THEOREM BceidUnderOverlap == OSpec => []BceidHoldsServiceUserOnly
<1>1. OInit => RolesHeldMayBe /\ RolesPlannedMayBe
  BY DEF OInit, CInit, Init, RolesHeldMayBe, RolesPlannedMayBe, PlannedMayBe, GivesRoles,
         Idle, HasRole, Has
<1>2. (CTypeOK /\ TargetsExist) /\ (RolesHeldMayBe /\ RolesPlannedMayBe) /\ [ONext]_ovars
        => (RolesHeldMayBe /\ RolesPlannedMayBe)'
  <2> SUFFICES ASSUME CTypeOK, TargetsExist, RolesHeldMayBe, RolesPlannedMayBe, [ONext]_ovars
               PROVE  RolesHeldMayBe' /\ RolesPlannedMayBe'
    OBVIOUS
  <2>1. CASE ONext
    BY <2>1, CNextRolesHeld, CNextRolesPlanned DEF ONext
  <2>2. CASE UNCHANGED ovars
    BY <2>2 DEF ovars, cvars, vars, RolesHeldMayBe, RolesPlannedMayBe, PlannedMayBe,
       HasRole, Exists, MayHold
  <2> QED
    BY <2>1, <2>2
<1>3. RolesHeldMayBe => BceidHoldsServiceUserOnly
  BY DEF RolesHeldMayBe, MayHold, BceidHoldsServiceUserOnly
<1> QED
  BY <1>1, <1>2, <1>3, OverlapTypeCorrect, PTL DEF OSpec

\* However many requests overlap, a tenant user stays of the tenant and the user
\* it was inserted for, a tenant of its creator, and a user keeps the identity
\* provider first stored: a request may rely on what it read of these.
THEOREM IdentitiesStay == OSpec => [][RowsStay /\ ProvidersStay]_ovars
<1>1. (CTypeOK /\ TargetsExist) /\ [ONext]_ovars => [RowsStay /\ ProvidersStay]_ovars
  BY CNextRowsStay, CNextProvidersStay DEF ONext
<1> QED
  BY <1>1, OverlapTypeCorrect, PTL DEF OSpec
=============================================================================
