---------------------- MODULE GroupServiceRolesProofs ----------------------
(***************************************************************************)
(* Theorems about the roles of connected services, for any number of       *)
(* tenants, users, groups, services and roles.                             *)
(*                                                                         *)
(* First about GroupServiceRolesConcurrent: what any number of overlapping *)
(* requests do to the roles of groups and to their names.                  *)
(*                                                                         *)
(* Then about EffectiveRoles: it implements both components it is composed *)
(* of, and what their theorems say of the tables makes the answer to a     *)
(* connected service the one the user is entitled to.                      *)
(***************************************************************************)
EXTENDS GroupServiceRolesConcurrent, EffectiveRoles, TLAPS

-----------------------------------------------------------------------------
(* Services, roles and associations. *)

LEMMA InsertRolesType ==
    ASSUME TypeOK, NEW s \in Services, NEW names \in SUBSET RoleNames,
           NEW idps \in Providers, InsertRoles(s, names, idps)
    PROVE  /\ role' \in [RoleIds -> RoleRow \union {NoRow}]
           /\ \A r \in RoleIds : role[r] # NoRow => role'[r] = role[r]
<1>1. PICK id \in [names -> {r \in RoleIds : role[r] = NoRow}] :
          role' = [r \in RoleIds |->
              IF \E n \in names : id[n] = r
              THEN [service |-> s, name |-> CHOOSE n \in names : id[n] = r, idps |-> idps]
              ELSE role[r]]
  BY DEF InsertRoles
<1>2. ASSUME NEW r \in RoleIds, \E n \in names : id[n] = r
      PROVE  (CHOOSE n \in names : id[n] = r) \in RoleNames
  <2> DEFINE named == CHOOSE n \in names : id[n] = r
  <2>1. named \in names
    BY <1>2
  <2> QED
    BY <2>1
<1>3. \A r \in RoleIds : role[r] # NoRow => role'[r] = role[r]
  BY <1>1
<1>4. role' \in [RoleIds -> RoleRow \union {NoRow}]
  BY <1>1, <1>2 DEF RoleRow, TypeOK
<1> QED
  BY <1>3, <1>4

LEMMA UpdatedRoleType ==
    ASSUME NEW row \in RoleRow, NEW name \in RoleNames \union {NoRow},
           NEW idps \in Providers \union {NoRow}
    PROVE  /\ UpdatedRole(row, name, idps) \in RoleRow
           /\ UpdatedRole(row, name, idps).service = row.service
BY DEF UpdatedRole, RoleRow, OrElse

LEMMA UpdatedRowType ==
    ASSUME NEW row \in ServiceRow, NEW fields \in ColumnsInBody
    PROVE  UpdatedRow(row, fields) \in ServiceRow
BY DEF UpdatedRow, ServiceRow, Key, Overlay, OrElse, ColumnsInBody

\* A role stays with its service, a service with its tenants.
LEMMA NextTables ==
    ASSUME TypeOK, [Next]_tables
    PROVE  /\ TypeOK'
           /\ \A t, r : r \in RoleIds /\ AssociatedWith(t, r) => AssociatedWith(t, r)'
<1> DEFINE Stays == \A t, r : r \in RoleIds /\ AssociatedWith(t, r) => AssociatedWith(t, r)'
<1>1. ASSUME NEW s \in Services, NEW row \in ServiceRow, NEW names \in RolesInBody,
             NEW idps \in Providers, CreateSharedService(s, row, names, idps)
      PROVE  TypeOK' /\ Stays
  BY <1>1, InsertRolesType DEF CreateSharedService, RolesInBody, TypeOK, AssociatedWith
<1>2. ASSUME NEW s \in Services, NEW fields \in ColumnsInBody, UpdateSharedService(s, fields)
      PROVE  TypeOK' /\ Stays
  BY <1>2, UpdatedRowType DEF UpdateSharedService, TypeOK, Exists, AssociatedWith
<1>3. ASSUME NEW s \in Services, NEW isActive \in BOOLEAN,
             UpdateSharedServiceStatus(s, isActive)
      PROVE  TypeOK' /\ Stays
  BY <1>3 DEF UpdateSharedServiceStatus, TypeOK, Exists, AssociatedWith, ServiceRow
<1>4. ASSUME NEW s \in Services, NEW names \in RolesInBody, NEW idps \in Providers,
             AddSharedServiceRoles(s, names, idps)
      PROVE  TypeOK' /\ Stays
  BY <1>4, InsertRolesType DEF AddSharedServiceRoles, RolesInBody, TypeOK, AssociatedWith
<1>5. ASSUME NEW t \in Tenants, NEW s \in Services, AssociateSharedServiceToTenant(t, s)
      PROVE  TypeOK' /\ Stays
  BY <1>5 DEF AssociateSharedServiceToTenant, TypeOK, AssociatedWith
<1>6. ASSUME NEW r \in RoleIds, NEW name \in RoleNames \union {NoRow},
             NEW idps \in Providers \union {NoRow}, UpdateSharedServiceRole(r, name, idps)
      PROVE  TypeOK' /\ Stays
  <2>1. role[r] \in RoleRow
    BY <1>6 DEF UpdateSharedServiceRole, TypeOK
  <2>2. /\ role' = [role EXCEPT ![r] = UpdatedRole(role[r], name, idps)]
        /\ service' = service /\ association' = association
    BY <1>6 DEF UpdateSharedServiceRole
  <2>3. /\ UpdatedRole(role[r], name, idps) \in RoleRow
        /\ UpdatedRole(role[r], name, idps).service = role[r].service
        /\ UpdatedRole(role[r], name, idps) # NoRow
    BY <2>1, UpdatedRoleType, NoRowAssumption
  <2> QED
    BY <2>2, <2>3 DEF TypeOK, AssociatedWith
<1>7. CASE UNCHANGED tables
  BY <1>7 DEF tables, TypeOK, AssociatedWith
<1> QED
  BY <1>1, <1>2, <1>3, <1>4, <1>5, <1>6, <1>7 DEF Next

-----------------------------------------------------------------------------
(* Type correctness. *)

LEMMA DiffType ==
    ASSUME NEW rows \in [RoleIds -> Statuses], NEW asked \in Asked
    PROVE  Diff(rows, asked) \in Plan
BY DEF Diff, Plan

LEMMA ApplyDiffType ==
    ASSUME GTypeOK, NEW g \in Groups, NEW plan \in Plan, ApplyDiff(g, plan)
    PROVE  /\ assignment' \in [Groups -> [RoleIds -> Statuses]]
           /\ \A h \in Groups \ {g} : assignment'[h] = assignment[h]
           /\ \A r \in RoleIds : assignment'[g][r] =
                  IF r \in plan.delete THEN "deleted"
                  ELSE IF r \in plan.create \union plan.restore THEN "active"
                  ELSE assignment[g][r]
BY DEF ApplyDiff, GTypeOK, Statuses

LEMMA WritingType ==
    ASSUME CTypeOK, NEW q \in Requests, Writing(q)
    PROVE  /\ request[q].group \in Groups
           /\ request[q].asked \in Asked
           /\ request[q].plan \in Plan
BY DEF CTypeOK, Writing, RequestState, Idle

LEMMA NamingType ==
    ASSUME CTypeOK, NEW q \in Requests
    PROVE  /\ request[q].op = "create" =>
                  request[q].tenant \in Tenants /\ request[q].name \in GroupNames
           /\ request[q].op = "rename" =>
                  request[q].group \in Groups /\ request[q].name \in GroupNames
BY DEF CTypeOK, RequestState, Idle

LEMMA IdleType == Idle \in RequestState /\ Idle.op = "idle"
BY DEF Idle, RequestState

LEMMA BecomesType ==
    ASSUME CTypeOK, NEW q \in Requests, NEW state \in RequestState, Becomes(q, state)
    PROVE  request' \in [Requests -> RequestState]
BY DEF CTypeOK, Becomes

LEMMA InitTypeOK == CInit => CTypeOK
BY IdleType DEF CInit, GInit, Init, CTypeOK, GTypeOK, TypeOK, Statuses

LEMMA CreateGroupType ==
    ASSUME GTypeOK, NEW t \in Tenants, NEW g \in Groups, CreateGroup(t, g)
    PROVE  GTypeOK' /\ groupTenant' \in [Groups -> Tenants \union {NoRow}]
BY DEF CreateGroup, GTypeOK, TypeOK, tables

LEMMA NextTypeOK == CTypeOK /\ [CNext]_gvars => CTypeOK'
<1> SUFFICES ASSUME CTypeOK, [CNext]_gvars PROVE CTypeOK'
  OBVIOUS
<1>0. GTypeOK /\ TypeOK
  BY DEF CTypeOK, GTypeOK
<1>1. CASE Next /\ UNCHANGED <<groupTenant, assignment, groupName, request, overtaken>>
  BY <1>0, <1>1, NextTables DEF CTypeOK, GTypeOK
<1>2. ASSUME NEW q \in Requests, NEW t \in Tenants, NEW g \in Groups, NEW asked \in Asked,
             StartUpdate(q, t, g, asked)
      PROVE  CTypeOK'
  <2> DEFINE state == [op |-> "write", group |-> g, asked |-> asked,
                       plan |-> Diff(assignment[g], asked)]
  <2>1. Diff(assignment[g], asked) \in Plan
    BY <1>0, DiffType DEF GTypeOK
  <2>2. state \in RequestState
    BY <2>1 DEF RequestState
  <2> QED
    BY <1>0, <1>2, <2>2, BecomesType
       DEF StartUpdate, CTypeOK, GTypeOK, TypeOK, gtables
<1>3. ASSUME NEW q \in Requests, WriteUpdate(q) PROVE CTypeOK'
  <2>1. assignment' \in [Groups -> [RoleIds -> Statuses]]
    BY <1>0, <1>3, WritingType, ApplyDiffType DEF WriteUpdate
  <2>2. request' \in [Requests -> RequestState]
    BY <1>3, IdleType, BecomesType DEF WriteUpdate
  <2>3. overtaken' \subseteq Requests
    BY <1>3 DEF WriteUpdate, Readers, CTypeOK
  <2> QED
    BY <1>0, <1>3, <2>1, <2>2, <2>3 DEF WriteUpdate, CTypeOK, GTypeOK, TypeOK, tables
<1>4. ASSUME NEW q \in Requests, NEW t \in Tenants, NEW name \in GroupNames,
             StartCreateGroup(q, t, name)
      PROVE  CTypeOK'
  <2>1. [op |-> "create", tenant |-> t, name |-> name] \in RequestState
    BY DEF RequestState
  <2> QED
    BY <1>0, <1>4, <2>1, BecomesType DEF StartCreateGroup, CTypeOK, GTypeOK, TypeOK, gtables
<1>5. ASSUME NEW q \in Requests, NEW g \in Groups, WriteCreateGroup(q, g) PROVE CTypeOK'
  <2>1. request[q].tenant \in Tenants /\ request[q].name \in GroupNames
    BY <1>5, NamingType DEF WriteCreateGroup
  <2>2. GTypeOK'
    BY <1>0, <1>5, <2>1, CreateGroupType DEF WriteCreateGroup
  <2> QED
    BY <1>5, <2>1, <2>2, IdleType, BecomesType DEF WriteCreateGroup, CTypeOK
<1>6. ASSUME NEW q \in Requests, NEW t \in Tenants, NEW g \in Groups, NEW name \in GroupNames,
             StartUpdateGroup(q, t, g, name)
      PROVE  CTypeOK'
  <2>1. [op |-> "rename", group |-> g, name |-> name] \in RequestState
    BY DEF RequestState
  <2> QED
    BY <1>0, <1>6, <2>1, BecomesType DEF StartUpdateGroup, CTypeOK, GTypeOK, TypeOK, gtables
<1>7. ASSUME NEW q \in Requests, WriteUpdateGroup(q) PROVE CTypeOK'
  <2>1. request[q].group \in Groups /\ request[q].name \in GroupNames
    BY <1>7, NamingType DEF WriteUpdateGroup
  <2> QED
    BY <1>0, <1>7, <2>1, IdleType, BecomesType
       DEF WriteUpdateGroup, CTypeOK, GTypeOK, TypeOK, gtables
<1>8. ASSUME NEW q \in Requests, Abort(q) PROVE CTypeOK'
  BY <1>0, <1>8, IdleType, BecomesType DEF Abort, CTypeOK, GTypeOK, TypeOK, gtables
<1>9. CASE UNCHANGED gvars
  BY <1>0, <1>9 DEF gvars, gtables, tables, CTypeOK, GTypeOK, TypeOK
<1> QED
  BY <1>1, <1>2, <1>3, <1>4, <1>5, <1>6, <1>7, <1>8, <1>9 DEF CNext

\* Tables and requests keep their form, however requests overlap.
THEOREM TypeCorrect == CSpec => []CTypeOK
<1>1. CTypeOK /\ [CNext]_gvars => CTypeOK'
  BY NextTypeOK
<1> QED
  BY <1>1, InitTypeOK, PTL DEF CSpec

-----------------------------------------------------------------------------
(* Names of groups. *)

\* Writing a name under the key keeps the names apart.
LEMMA NamesKeptApart ==
    ASSUME CTypeOK, GroupNamesUnique, NEW g \in Groups, NEW t, NEW name,
           UniqueName(t, name, g),
           \A h \in Groups : groupTenant'[h] = IF h = g THEN t ELSE groupTenant[h],
           \A h \in Groups : groupName'[h] = IF h = g THEN name ELSE groupName[h]
    PROVE  GroupNamesUnique'
BY DEF GroupNamesUnique, UniqueName, NameTaken

LEMMA NextNames == CTypeOK /\ GroupNamesUnique /\ [CNext]_gvars => GroupNamesUnique'
<1> SUFFICES ASSUME CTypeOK, GroupNamesUnique, [CNext]_gvars PROVE GroupNamesUnique'
  OBVIOUS
<1>0. DOMAIN groupTenant = Groups /\ DOMAIN groupName = Groups
  BY DEF CTypeOK, GTypeOK
<1>1. ASSUME NEW q \in Requests, NEW g \in Groups, WriteCreateGroup(q, g)
      PROVE  GroupNamesUnique'
  BY <1>0, <1>1, NamesKeptApart DEF WriteCreateGroup, CreateGroup
<1>2. ASSUME NEW q \in Requests, WriteUpdateGroup(q) PROVE GroupNamesUnique'
  <2>1. request[q].group \in Groups
    BY <1>2, NamingType DEF WriteUpdateGroup
  <2>2. groupTenant' = groupTenant
    BY <1>2 DEF WriteUpdateGroup, gtables
  <2> QED
    BY <1>0, <1>2, <2>1, <2>2, NamesKeptApart DEF WriteUpdateGroup
<1>3. CASE groupTenant' = groupTenant /\ groupName' = groupName
  BY <1>3 DEF GroupNamesUnique
<1> QED
  BY <1>1, <1>2, <1>3
     DEF CNext, StartUpdate, WriteUpdate, StartCreateGroup, StartUpdateGroup, Abort, gvars, gtables

\* Two groups of a tenant never share a name: the key alone sees to it, the
\* query for the name before it is not needed.
THEOREM GroupNamesStayUnique == CSpec => []GroupNamesUnique
<1>1. CInit => GroupNamesUnique
  BY DEF CInit, GInit, GroupNamesUnique
<1>2. CTypeOK /\ GroupNamesUnique /\ [CNext]_gvars => GroupNamesUnique'
  BY NextNames
<1> QED
  BY <1>1, <1>2, TypeCorrect, PTL DEF CSpec

-----------------------------------------------------------------------------
(* Roles of groups. *)

\* What an update in flight will write: roles of services associated with the
\* group's tenant, nothing against its request, and, if nobody wrote the rows
\* since, what the diff of the rows as they are would be.
PlanSound(q) ==
    LET g == request[q].group
        asked == request[q].asked
        plan == request[q].plan
    IN /\ groupTenant[g] # NoRow
       /\ \A x \in asked : AssociatedWith(groupTenant[g], x[1])
       /\ \A r \in plan.create \union plan.restore : <<r, TRUE>> \in asked
       /\ \A r \in plan.delete : <<r, FALSE>> \in asked
       /\ q \notin overtaken => plan = Diff(assignment[g], asked)

PlansSound == \A q \in Requests : Writing(q) => PlanSound(q)

RolesInv == CTypeOK /\ PlansSound /\ AssignedServicesAssociated

LEMMA InitRoles == CInit => RolesInv
BY InitTypeOK
   DEF CInit, GInit, RolesInv, PlansSound, Writing, Idle, AssignedServicesAssociated

\* A diff does nothing that was not asked for.
LEMMA DiffAsAsked ==
    ASSUME NEW rows, NEW asked
    PROVE  /\ \A r \in Diff(rows, asked).create \union Diff(rows, asked).restore :
                  <<r, TRUE>> \in asked
           /\ \A r \in Diff(rows, asked).delete : <<r, FALSE>> \in asked
BY DEF Diff

\* A diff depends on the rows of the roles it is asked for, and on no others.
LEMMA DiffReadsAsked ==
    ASSUME NEW rows, NEW others, NEW asked,
           \A x \in asked : rows[x[1]] = others[x[1]]
    PROVE  Diff(rows, asked) = Diff(others, asked)
<1>1. ASSUME NEW r, NEW enabled, <<r, enabled>> \in asked
      PROVE  rows[r] = others[r]
  BY <1>1
<1> QED
  BY <1>1 DEF Diff

\* A plan is sound later, too, if the group keeps its tenant and the roles their
\* associations.
LEMMA PlanStaysSound ==
    ASSUME NEW p,
           groupTenant'[request'[p].group] # NoRow,
           \A x \in request'[p].asked :
               /\ role'[x[1]] # NoRow
               /\ <<groupTenant'[request'[p].group], role'[x[1]].service>> \in association',
           \A r \in request'[p].plan.create \union request'[p].plan.restore :
               <<r, TRUE>> \in request'[p].asked,
           \A r \in request'[p].plan.delete : <<r, FALSE>> \in request'[p].asked,
           p \notin overtaken' => request'[p].plan =
               Diff(assignment'[request'[p].group], request'[p].asked)
    PROVE  PlanSound(p)'
BY DEF PlanSound, AssociatedWith

\* An update that starts reads the rows as they are.
LEMMA StartUpdateRoles ==
    ASSUME RolesInv, NEW q \in Requests, NEW t \in Tenants, NEW g \in Groups,
           NEW asked \in Asked, StartUpdate(q, t, g, asked)
    PROVE  PlansSound' /\ AssignedServicesAssociated'
<1> DEFINE state == [op |-> "write", group |-> g, asked |-> asked,
                     plan |-> Diff(assignment[g], asked)]
<1>1. /\ request' = [request EXCEPT ![q] = state]
      /\ groupTenant' = groupTenant /\ assignment' = assignment
      /\ role' = role /\ association' = association /\ overtaken' = overtaken
  BY DEF StartUpdate, Becomes, gtables, tables
<1>2. \A p \in Requests : request'[p] = IF p = q THEN state ELSE request[p]
  BY <1>1 DEF RolesInv, CTypeOK
<1>3. ASSUME NEW p \in Requests, Writing(p)' PROVE PlanSound(p)'
  <2>1. CASE p = q
    <3>1. groupTenant[g] = t /\ \A x \in asked : AssociatedWith(t, x[1])
      BY DEF StartUpdate, ValidForTenant
    <3>2. request'[p] = state
      BY <1>2, <2>1
    <3>3. /\ groupTenant'[g] # NoRow
          /\ \A x \in asked : /\ role'[x[1]] # NoRow
                              /\ <<groupTenant'[g], role'[x[1]].service>> \in association'
      BY <1>1, <3>1, TenantsAssumption DEF AssociatedWith
    <3>4. state.plan = Diff(assignment'[g], asked)
      BY <1>1
    <3>5. /\ request'[p].group = g /\ request'[p].asked = asked
          /\ request'[p].plan = Diff(assignment'[g], asked)
      BY <3>2, <3>4
    <3> QED
      BY <3>3, <3>5, DiffAsAsked, PlanStaysSound
  <2>2. CASE p # q
    <3>1. PlanSound(p) /\ request'[p] = request[p]
      BY <1>2, <1>3, <2>2 DEF RolesInv, PlansSound, Writing
    <3>2. /\ groupTenant'[request[p].group] # NoRow
          /\ \A x \in request[p].asked :
                 /\ role'[x[1]] # NoRow
                 /\ <<groupTenant'[request[p].group], role'[x[1]].service>> \in association'
          /\ \A r \in request[p].plan.create \union request[p].plan.restore :
                 <<r, TRUE>> \in request[p].asked
          /\ \A r \in request[p].plan.delete : <<r, FALSE>> \in request[p].asked
      BY <1>1, <3>1 DEF PlanSound, AssociatedWith
    <3>3. p \notin overtaken' =>
              request[p].plan = Diff(assignment'[request[p].group], request[p].asked)
      BY <1>1, <3>1 DEF PlanSound
    <3> QED
      BY <3>1, <3>2, <3>3, PlanStaysSound
  <2> QED
    BY <2>1, <2>2
<1> QED
  BY <1>1, <1>3 DEF PlansSound, RolesInv, AssignedServicesAssociated, AssociatedWith

\* A write overtakes every update that has read a row it changes.
LEMMA WriteUpdateRoles ==
    ASSUME RolesInv, NEW q \in Requests, WriteUpdate(q)
    PROVE  PlansSound' /\ AssignedServicesAssociated'
<1> DEFINE g == request[q].group
           plan == request[q].plan
           written == plan.create \union plan.restore \union plan.delete
<1>1. /\ g \in Groups /\ plan \in Plan /\ Writing(q) /\ PlanSound(q)
      /\ ApplyDiff(g, plan)
      /\ request' = [request EXCEPT ![q] = Idle]
      /\ groupTenant' = groupTenant /\ role' = role /\ association' = association
      /\ overtaken' = (overtaken \union Readers(g, written)) \ {q}
  BY WritingType DEF WriteUpdate, RolesInv, PlansSound, Becomes, tables
<1>2. /\ \A h \in Groups \ {g} : assignment'[h] = assignment[h]
      /\ \A r \in RoleIds : assignment'[g][r] =
             IF r \in plan.delete THEN "deleted"
             ELSE IF r \in plan.create \union plan.restore THEN "active"
             ELSE assignment[g][r]
  BY <1>1, ApplyDiffType DEF RolesInv, CTypeOK
<1> HIDE DEF g, plan
<1>3. ASSUME NEW p \in Requests, Writing(p)' PROVE PlanSound(p)'
  <2>1. p # q /\ request'[p] = request[p] /\ Writing(p) /\ PlanSound(p)
    <3>1. p # q
      BY <1>1, <1>3 DEF Writing, Idle, RolesInv, CTypeOK
    <3> QED
      BY <1>1, <1>3, <3>1 DEF Writing, RolesInv, CTypeOK, PlansSound
  <2>2. request[p].group \in Groups /\ request[p].asked \in Asked
    BY <2>1, WritingType DEF RolesInv
  <2>3. ASSUME p \notin overtaken'
        PROVE  request[p].plan = Diff(assignment'[request[p].group], request[p].asked)
    <3>1. p \notin overtaken /\ p \notin Readers(g, written)
      BY <1>1, <2>1, <2>3
    <3>2. request[p].plan = Diff(assignment[request[p].group], request[p].asked)
      BY <2>1, <3>1 DEF PlanSound
    <3>3. \A x \in request[p].asked :
              assignment'[request[p].group][x[1]] = assignment[request[p].group][x[1]]
      <4>1. CASE request[p].group # g
        BY <1>2, <2>2, <4>1
      <4>2. CASE request[p].group = g
        <5>1. \A x \in request[p].asked : x[1] \in RoleIds /\ x[1] \notin written
          BY <2>1, <2>2, <3>1, <4>2 DEF Readers, Asked
        <5> QED
          BY <1>2, <4>2, <5>1
      <4> QED
        BY <4>1, <4>2
    <3> QED
      BY <3>2, <3>3, DiffReadsAsked
  <2>4. /\ groupTenant'[request[p].group] # NoRow
        /\ \A x \in request[p].asked :
               /\ role'[x[1]] # NoRow
               /\ <<groupTenant'[request[p].group], role'[x[1]].service>> \in association'
        /\ \A r \in request[p].plan.create \union request[p].plan.restore :
               <<r, TRUE>> \in request[p].asked
        /\ \A r \in request[p].plan.delete : <<r, FALSE>> \in request[p].asked
    BY <1>1, <2>1 DEF PlanSound, AssociatedWith
  <2> QED
    BY <2>1, <2>3, <2>4, PlanStaysSound
<1>4. AssignedServicesAssociated'
  <2> SUFFICES ASSUME NEW h \in Groups, NEW r \in RoleIds, assignment'[h][r] # "none"
               PROVE  groupTenant[h] # NoRow /\ AssociatedWith(groupTenant[h], r)
    BY <1>1 DEF AssignedServicesAssociated, AssociatedWith
  <2>1. CASE assignment[h][r] # "none"
    BY <2>1 DEF RolesInv, AssignedServicesAssociated
  <2>2. CASE assignment[h][r] = "none"
    <3>1. h = g /\ r \in written
      BY <1>2, <2>2
    <3>2. PICK enabled \in BOOLEAN : <<r, enabled>> \in request[q].asked
      BY <1>1, <3>1 DEF PlanSound, g, plan
    <3> QED
      BY <1>1, <3>1, <3>2 DEF PlanSound, g
  <2> QED
    BY <2>1, <2>2
<1> QED
  BY <1>3, <1>4 DEF PlansSound

\* The rest neither reads nor writes a row of a role that a plan rests on.
LEMMA OtherStepsRoles ==
    ASSUME RolesInv, [CNext]_gvars,
           \A q \in Requests : Writing(q)' => Writing(q) /\ request'[q] = request[q],
           assignment' = assignment, overtaken' \subseteq overtaken,
           \A q \in Requests : Writing(q)' /\ q \in overtaken => q \in overtaken',
           \A g \in Groups : groupTenant[g] # NoRow => groupTenant'[g] = groupTenant[g],
           \A t, r : r \in RoleIds /\ AssociatedWith(t, r) => AssociatedWith(t, r)'
    PROVE  PlansSound' /\ AssignedServicesAssociated'
<1>1. ASSUME NEW p \in Requests, Writing(p)' PROVE PlanSound(p)'
  <2>1. Writing(p) /\ PlanSound(p) /\ request'[p] = request[p]
    BY <1>1 DEF RolesInv, PlansSound
  <2>2. request[p].group \in Groups /\ request[p].asked \in Asked
    BY <2>1, WritingType DEF RolesInv
  <2>3. /\ groupTenant[request[p].group] # NoRow
        /\ groupTenant'[request[p].group] = groupTenant[request[p].group]
    BY <2>1, <2>2 DEF PlanSound
  <2>4. \A x \in request[p].asked :
            /\ role'[x[1]] # NoRow
            /\ <<groupTenant'[request[p].group], role'[x[1]].service>> \in association'
    <3> SUFFICES ASSUME NEW x \in request[p].asked
                 PROVE  /\ role'[x[1]] # NoRow
                        /\ <<groupTenant'[request[p].group], role'[x[1]].service>> \in association'
      OBVIOUS
    <3>1. x[1] \in RoleIds
      BY <2>2 DEF Asked
    <3>2. AssociatedWith(groupTenant[request[p].group], x[1])
      BY <2>1 DEF PlanSound
    <3> QED
      BY <2>3, <3>1, <3>2 DEF AssociatedWith
  <2>5. /\ \A r \in request[p].plan.create \union request[p].plan.restore :
               <<r, TRUE>> \in request[p].asked
        /\ \A r \in request[p].plan.delete : <<r, FALSE>> \in request[p].asked
        /\ p \notin overtaken' =>
               request[p].plan = Diff(assignment[request[p].group], request[p].asked)
    BY <1>1, <2>1 DEF PlanSound
  <2> QED
    BY <2>1, <2>3, <2>4, <2>5, PlanStaysSound
<1>2. AssignedServicesAssociated'
  <2> SUFFICES ASSUME NEW g \in Groups, NEW r \in RoleIds, assignment[g][r] # "none"
               PROVE  /\ groupTenant'[g] # NoRow
                      /\ role'[r] # NoRow
                      /\ <<groupTenant'[g], role'[r].service>> \in association'
    BY DEF AssignedServicesAssociated, AssociatedWith
  <2>1. groupTenant[g] # NoRow /\ AssociatedWith(groupTenant[g], r)
    BY DEF RolesInv, AssignedServicesAssociated
  <2>2. groupTenant'[g] = groupTenant[g]
    BY <2>1
  <2> QED
    BY <2>1, <2>2 DEF AssociatedWith
<1> QED
  BY <1>1, <1>2 DEF PlansSound

LEMMA NextRoles == RolesInv /\ [CNext]_gvars => RolesInv'
<1> SUFFICES ASSUME RolesInv, [CNext]_gvars PROVE RolesInv'
  OBVIOUS
<1>0. CTypeOK' /\ CTypeOK /\ GTypeOK /\ TypeOK
  BY NextTypeOK DEF RolesInv, CTypeOK, GTypeOK
<1> DEFINE Rest ==
        /\ \A q \in Requests : Writing(q)' => Writing(q) /\ request'[q] = request[q]
        /\ assignment' = assignment /\ overtaken' \subseteq overtaken
        /\ \A q \in Requests : Writing(q)' /\ q \in overtaken => q \in overtaken'
        /\ \A g \in Groups : groupTenant[g] # NoRow => groupTenant'[g] = groupTenant[g]
        /\ \A t, r : r \in RoleIds /\ AssociatedWith(t, r) => AssociatedWith(t, r)'
<1>1. ASSUME NEW q \in Requests, NEW t \in Tenants, NEW g \in Groups, NEW asked \in Asked,
             StartUpdate(q, t, g, asked)
      PROVE  PlansSound' /\ AssignedServicesAssociated'
  BY <1>1, StartUpdateRoles
<1>2. ASSUME NEW q \in Requests, WriteUpdate(q)
      PROVE  PlansSound' /\ AssignedServicesAssociated'
  BY <1>2, WriteUpdateRoles
<1>3. ASSUME Next, UNCHANGED <<groupTenant, assignment, groupName, request, overtaken>>
      PROVE  Rest
  <2>1. \A t, r : r \in RoleIds /\ AssociatedWith(t, r) => AssociatedWith(t, r)'
    BY <1>0, <1>3, NextTables
  <2> QED
    BY <1>3, <2>1 DEF Writing
<1>4. ASSUME NEW q \in Requests, NEW state,
             Becomes(q, state), state.op # "write", ~Writing(q),
             assignment' = assignment, overtaken' = overtaken, tables' = tables,
             \A g \in Groups : groupTenant[g] # NoRow => groupTenant'[g] = groupTenant[g]
      PROVE  Rest
  <2>1. \A p \in Requests : request'[p] = IF p = q THEN state ELSE request[p]
    BY <1>0, <1>4 DEF Becomes, CTypeOK
  <2>2. \A t, r : r \in RoleIds /\ AssociatedWith(t, r) => AssociatedWith(t, r)'
    BY <1>4 DEF tables, AssociatedWith
  <2> QED
    BY <1>4, <2>1, <2>2 DEF Writing
<1>5. ASSUME NEW q \in Requests, NEW t \in Tenants, NEW name \in GroupNames,
             StartCreateGroup(q, t, name)
      PROVE  Rest
  BY <1>4, <1>5 DEF StartCreateGroup, Free, Writing, Idle, gtables, tables
<1>6. ASSUME NEW q \in Requests, NEW g \in Groups, WriteCreateGroup(q, g) PROVE Rest
  <2>1. \A h \in Groups : groupTenant[h] # NoRow => groupTenant'[h] = groupTenant[h]
    BY <1>0, <1>6 DEF WriteCreateGroup, CreateGroup, GTypeOK
  <2> QED
    BY <1>4, <1>6, <2>1, IdleType DEF WriteCreateGroup, CreateGroup, Writing
<1>7. ASSUME NEW q \in Requests, NEW t \in Tenants, NEW g \in Groups, NEW name \in GroupNames,
             StartUpdateGroup(q, t, g, name)
      PROVE  Rest
  BY <1>4, <1>7 DEF StartUpdateGroup, Free, Writing, Idle, gtables, tables
<1>8. ASSUME NEW q \in Requests, WriteUpdateGroup(q) PROVE Rest
  BY <1>4, <1>8, IdleType DEF WriteUpdateGroup, Writing, gtables, tables
<1>9. ASSUME NEW q \in Requests, Abort(q) PROVE Rest
  <2>1. \A p \in Requests : request'[p] = IF p = q THEN Idle ELSE request[p]
    BY <1>0, <1>9 DEF Abort, Becomes, CTypeOK
  <2>2. \A t, r : r \in RoleIds /\ AssociatedWith(t, r) => AssociatedWith(t, r)'
    BY <1>9 DEF Abort, gtables, tables, AssociatedWith
  <2> QED
    BY <1>9, <2>1, <2>2, IdleType DEF Abort, Writing, gtables
<1>10. ASSUME UNCHANGED gvars PROVE Rest
  <2>1. \A t, r : r \in RoleIds /\ AssociatedWith(t, r) => AssociatedWith(t, r)'
    BY <1>10 DEF gvars, gtables, tables, AssociatedWith
  <2> QED
    BY <1>10, <2>1 DEF gvars, gtables, Writing
<1>11. ASSUME Rest PROVE PlansSound' /\ AssignedServicesAssociated'
  BY <1>11, OtherStepsRoles
<1> HIDE DEF Rest
<1> QED
  BY <1>0, <1>1, <1>2, <1>3, <1>5, <1>6, <1>7, <1>8, <1>9, <1>10, <1>11 DEF CNext, RolesInv

LEMMA RolesInvariant == CSpec => []RolesInv
<1>1. RolesInv /\ [CNext]_gvars => RolesInv'
  BY NextRoles
<1> QED
  BY <1>1, InitRoles, PTL DEF CSpec

\* A group has, or had, roles of those services only with which its tenant is
\* associated: what an update has checked stays true until it writes.
THEOREM RolesOfAssociatedServices == CSpec => []AssignedServicesAssociated
<1>1. RolesInv => AssignedServicesAssociated
  BY DEF RolesInv
<1> QED
  BY <1>1, RolesInvariant, PTL

\* Only the request that ends in a step can be one that becomes free.
LEMMA OnlyWritesAssign ==
    ASSUME RolesInv, [CNext]_gvars, NEW q \in Requests, ~Free(q), Free(q)'
    PROVE  WriteUpdate(q) \/ assignment' = assignment
<1>0. request \in [Requests -> RequestState]
  BY DEF RolesInv, CTypeOK
<1>1. ASSUME NEW p \in Requests, WriteUpdate(p) PROVE p = q
  BY <1>0, <1>1 DEF WriteUpdate, Becomes, Free
<1> QED
  BY <1>1
     DEF CNext, StartUpdate, StartCreateGroup, WriteCreateGroup, CreateGroup, StartUpdateGroup,
         WriteUpdateGroup, Abort, gvars, gtables

\* Whatever other updates have written since it read, a commit gives and takes
\* only what its own request asked for.
THEOREM NothingAgainstRequest == CSpec => NeverAgainstRequest
<1> DEFINE Against(q) ==
        \A g \in Groups, r \in RoleIds :
            Assigned(g, r)' # Assigned(g, r) =>
                /\ g = request[q].group
                /\ <<r, Assigned(g, r)'>> \in request[q].asked
<1>1. ASSUME RolesInv, [CNext]_gvars, NEW q \in Requests, ~Free(q), Free(q)' PROVE Against(q)
  <2>1. CASE WriteUpdate(q)
    <3> DEFINE g == request[q].group
               plan == request[q].plan
    <3>1. g \in Groups /\ plan \in Plan /\ PlanSound(q) /\ ApplyDiff(g, plan) /\ GTypeOK
      BY <1>1, <2>1, WritingType DEF WriteUpdate, RolesInv, PlansSound, CTypeOK
    <3>2. /\ \A h \in Groups \ {g} : assignment'[h] = assignment[h]
          /\ \A r \in RoleIds : assignment'[g][r] =
                 IF r \in plan.delete THEN "deleted"
                 ELSE IF r \in plan.create \union plan.restore THEN "active"
                 ELSE assignment[g][r]
      BY <3>1, ApplyDiffType
    <3>3. ASSUME NEW h \in Groups, NEW r \in RoleIds, Assigned(h, r)' # Assigned(h, r)
          PROVE  /\ h = g
                 /\ <<r, Assigned(h, r)'>> \in request[q].asked
      <4>1. h = g
        BY <3>2, <3>3 DEF Assigned
      <4>2. CASE r \in plan.delete
        <5>1. Assigned(h, r)' = FALSE
          BY <3>2, <4>1, <4>2 DEF Assigned
        <5> QED
          BY <3>1, <4>1, <4>2, <5>1 DEF PlanSound
      <4>3. CASE r \notin plan.delete /\ r \in plan.create \union plan.restore
        <5>1. Assigned(h, r)' = TRUE
          BY <3>2, <4>1, <4>3 DEF Assigned
        <5> QED
          BY <3>1, <4>1, <4>3, <5>1 DEF PlanSound
      <4>4. CASE r \notin plan.delete /\ r \notin plan.create \union plan.restore
        BY <3>2, <3>3, <4>1, <4>4 DEF Assigned
      <4> QED
        BY <4>1, <4>2, <4>3, <4>4
    <3> QED
      BY <3>3
  <2>2. CASE assignment' = assignment
    BY <2>2 DEF Assigned
  <2> QED
    BY <1>1, <2>1, <2>2, OnlyWritesAssign
<1>2. RolesInv /\ [CNext]_gvars =>
          [\A q \in Requests : ~Free(q) /\ Free(q)' => Against(q)]_gvars
  BY <1>1
<1> QED
  BY <1>2, RolesInvariant, PTL DEF CSpec, NeverAgainstRequest

\* An update whose rows nobody wrote since it read them does all it was asked.
THEOREM AllThatWasAsked == CSpec => AsAskedUnlessOvertaken
<1> DEFINE AsAsked(q) ==
        \A g \in Groups, r \in RoleIds, enabled \in BOOLEAN :
            /\ g = request[q].group
            /\ <<r, enabled>> \in request[q].asked
            /\ <<r, ~enabled>> \notin request[q].asked
            => Assigned(g, r)' = enabled
<1>1. ASSUME RolesInv, NEW q \in Requests \ overtaken, WriteUpdate(q) PROVE AsAsked(q)
  <2> DEFINE g == request[q].group
             asked == request[q].asked
             plan == request[q].plan
  <2>1. /\ g \in Groups /\ plan \in Plan /\ ApplyDiff(g, plan) /\ GTypeOK
        /\ plan = Diff(assignment[g], asked)
    BY <1>1, WritingType DEF WriteUpdate, RolesInv, PlansSound, PlanSound, CTypeOK
  <2>2. \A r \in RoleIds : assignment'[g][r] =
            IF r \in plan.delete THEN "deleted"
            ELSE IF r \in plan.create \union plan.restore THEN "active"
            ELSE assignment[g][r]
    BY <2>1, ApplyDiffType
  <2>3. \A r \in RoleIds : assignment[g][r] \in {"none", "active", "deleted"}
    BY <2>1 DEF GTypeOK, Statuses
  <2>4. ASSUME NEW r \in RoleIds, <<r, TRUE>> \in asked, <<r, FALSE>> \notin asked
        PROVE  assignment'[g][r] = "active"
    <3>1. r \notin plan.delete
      BY <2>1, <2>4 DEF Diff
    <3>2. assignment[g][r] # "active" => r \in plan.create \union plan.restore
      BY <2>1, <2>3, <2>4 DEF Diff
    <3> QED
      BY <2>2, <3>1, <3>2
  <2>5. ASSUME NEW r \in RoleIds, <<r, FALSE>> \in asked, <<r, TRUE>> \notin asked
        PROVE  assignment'[g][r] # "active"
    <3>1. r \notin plan.create \union plan.restore
      BY <2>1, <2>5 DEF Diff
    <3>2. assignment[g][r] = "active" => r \in plan.delete
      BY <2>1, <2>5 DEF Diff
    <3> QED
      BY <2>2, <3>1, <3>2
  <2> QED
    BY <2>4, <2>5 DEF Assigned
<1>2. RolesInv /\ [CNext]_gvars =>
          [\A q \in Requests \ overtaken : WriteUpdate(q) => AsAsked(q)]_gvars
  BY <1>1
<1> QED
  BY <1>2, RolesInvariant, PTL DEF CSpec, AsAskedUnlessOvertaken

-----------------------------------------------------------------------------
(* Updates, and whoever else writes, one by one. *)

\* An update that nobody overtook is the update of a handler that runs alone.
LEMMA WriteUpdateIsSerial ==
    ASSUME RolesInv, NEW q \in Requests \ overtaken, WriteUpdate(q)
    PROVE  [GNext]_gtables
<1> DEFINE g == request[q].group
           asked == request[q].asked
           t == groupTenant[g]
<1>1. /\ g \in Groups /\ asked \in Asked /\ PlanSound(q) /\ GTypeOK
      /\ ApplyDiff(g, Diff(assignment[g], asked))
      /\ UNCHANGED <<tables, groupTenant>>
  BY WritingType DEF WriteUpdate, RolesInv, PlansSound, PlanSound, CTypeOK
<1>2. t \in Tenants /\ \A x \in asked : AssociatedWith(t, x[1])
  BY <1>1 DEF PlanSound, GTypeOK
<1> HIDE DEF g, asked
<1>3. CASE asked # {}
  <2>1. UpdateSharedServiceRolesForGroup(t, g, asked)
    BY <1>1, <1>2, <1>3 DEF UpdateSharedServiceRolesForGroup, ValidForTenant
  <2> QED
    BY <1>1, <1>2, <2>1 DEF GNext, Asked
<1>4. CASE asked = {}
  <2>1. \A r \in RoleIds : r \notin Diff(assignment[g], asked).create
                         /\ r \notin Diff(assignment[g], asked).restore
                         /\ r \notin Diff(assignment[g], asked).delete
    BY <1>4 DEF Diff
  <2>2. assignment[g] = [r \in RoleIds |-> assignment[g][r]]
    BY <1>1 DEF GTypeOK
  <2>3. assignment' = [assignment EXCEPT ![g] = assignment[g]]
    BY <1>1, <2>1, <2>2 DEF ApplyDiff
  <2>4. assignment' = assignment
    BY <1>1, <2>3 DEF GTypeOK
  <2> QED
    BY <1>1, <2>4 DEF gtables, tables
<1> QED
  BY <1>3, <1>4

SerialUnlessOvertaken == [][(\E q \in overtaken : WriteUpdate(q)) \/ GNext]_gtables

\* Only an update one of whose rows was written since it was read departs from
\* what handlers do that run one by one; what it checked of associations, and
\* what others do to services, groups and names, makes no difference.
THEOREM SerialWhenNotOvertaken == CSpec => SerialUnlessOvertaken
<1>1. RolesInv /\ [CNext]_gvars
        => [(\E q \in overtaken : WriteUpdate(q)) \/ GNext]_gtables
  <2> SUFFICES ASSUME RolesInv, [CNext]_gvars
               PROVE  \/ \E q \in overtaken : WriteUpdate(q)
                      \/ GNext
                      \/ UNCHANGED gtables
    OBVIOUS
  <2>1. CASE Next /\ UNCHANGED <<groupTenant, assignment, groupName, request, overtaken>>
    BY <2>1 DEF GNext
  <2>2. ASSUME NEW q \in Requests, WriteUpdate(q)
        PROVE  \/ \E p \in overtaken : WriteUpdate(p)
               \/ GNext
               \/ UNCHANGED gtables
    BY <2>2, WriteUpdateIsSerial
  <2>3. ASSUME NEW q \in Requests, NEW g \in Groups, WriteCreateGroup(q, g)
        PROVE  GNext
    BY <2>3, NamingType DEF WriteCreateGroup, GNext, RolesInv
  <2> QED
    BY <2>1, <2>2, <2>3
    DEF CNext, StartUpdate, StartCreateGroup, StartUpdateGroup, WriteUpdateGroup, Abort, gvars
<1> QED
  BY <1>1, RolesInvariant, PTL DEF CSpec, SerialUnlessOvertaken

\* Where updates of groups come one at a time, whatever else is done to services
\* and associations meanwhile, each does in one step what its handler does.
THEOREM OneUpdateIsSerial ==
    ASSUME NEW c, Requests = {c}
    PROVE  CSpec => GSpec
<1>1. CInit => GInit /\ overtaken = {}
  BY DEF CInit
<1>2. overtaken = {} /\ [CNext]_gvars => (overtaken = {})'
  <2>1. Readers(request[c].group, request[c].plan.create \union request[c].plan.restore
                                  \union request[c].plan.delete) \subseteq {c}
    BY DEF Readers
  <2>2. WriteUpdate(c) => overtaken' \subseteq overtaken
    BY <2>1 DEF WriteUpdate
  <2> QED
    BY <2>2 DEF CNext, StartUpdate, StartCreateGroup, WriteCreateGroup, StartUpdateGroup,
       WriteUpdateGroup, Abort, gvars
<1>3. CSpec => [](overtaken = {})
  BY <1>1, <1>2, PTL DEF CSpec
<1>4. overtaken = {} /\ [(\E q \in overtaken : WriteUpdate(q)) \/ GNext]_gtables
        => [GNext]_gtables
  OBVIOUS
<1> QED
  BY <1>1, <1>3, <1>4, SerialWhenNotOvertaken, PTL DEF CSpec, GSpec, SerialUnlessOvertaken

-----------------------------------------------------------------------------
(* EffectiveRoles. *)

\* The theorems about the tenants' users whose handlers run alone, so that no
\* request on them is ever in flight.  They are instances of their own: a
\* definition of TenantUsers is known here by two names, TU! and TUP!, that
\* expand to the same formula.
TUP == INSTANCE TenantUsersProofs WITH
    Requests <- {}, request <- <<>>, overtaken <- {}, stale <- FALSE

-----------------------------------------------------------------------------
(* The constants of TenantUsers. *)

LEMMA UserRoles == {TUP!ServiceUser, TUP!TenantOwner} \subseteq Roles
BY UsersAssumptions
   DEF TUP!ServiceUser, TUP!TenantOwner, TU!ServiceUser, TU!TenantOwner

LEMMA SomeCopies == Copies # {}
BY UsersAssumptions

LEMMA NoRowIsNone ==
    /\ NoRow \notin Tenants
    /\ NoRow \notin Users
    /\ NoRow \notin TenantUserIds
    /\ NoRow \notin TUP!IdpTypes
    /\ NoRow \notin TUP!TenantUserRow
BY TenantsAssumption, UsersAssumptions
   DEF TUP!IdpTypes, TUP!Idir, TUP!BusinessBceid, TUP!TenantUserRow,
       TU!IdpTypes, TU!Idir, TU!BusinessBceid, TU!TenantUserRow

-----------------------------------------------------------------------------
(* The components are implemented. *)

\* A step for a connected service leaves the users' tables alone.
LEMMA NextUsers == [ENext]_evars => [TU!Next]_TU!vars
<1> SUFFICES ASSUME [ENext]_evars PROVE [TU!Next]_TU!vars
  OBVIOUS
<1>1. ASSUME NEW q \in Query, FindTenantUser(q)
      PROVE  UNCHANGED TU!vars
  BY <1>1 DEF FindTenantUser, gtables, users, TU!vars
<1>2. CASE Answer
  BY <1>2 DEF Answer, gtables, users, TU!vars
<1>3. CASE ServiceStep
  BY <1>3 DEF ServiceStep, UpdateSharedServiceRolesForGroup, users, TU!vars
<1>4. CASE UserStep
  BY <1>4 DEF UserStep
<1>5. CASE UNCHANGED evars
  BY <1>5 DEF evars, gtables, users, TU!vars
<1> QED
  BY <1>1, <1>2, <1>3, <1>4, <1>5 DEF ENext

\* What happens to the users' tables beside connected services is what the
\* handlers of TenantUsers do.
THEOREM UsersImplemented == ESpec => TU!Spec
<1>1. EInit => TU!Init
  BY DEF EInit
<1>2. [ENext]_evars => [TU!Next]_TU!vars
  BY NextUsers
<1> QED
  BY <1>1, <1>2, PTL DEF ESpec, TU!Spec

\* A step for the users leaves connected services alone, and the group it may
\* create is one the groups' component knows.
LEMMA NextServices == [ENext]_evars => [GNext]_gtables
<1> SUFFICES ASSUME [ENext]_evars PROVE [GNext]_gtables
  OBVIOUS
<1>1. ASSUME NEW q \in Query, FindTenantUser(q)
      PROVE  UNCHANGED gtables
  BY <1>1 DEF FindTenantUser
<1>2. CASE Answer
  BY <1>2 DEF Answer
<1>3. CASE ServiceStep
  BY <1>3 DEF ServiceStep, GNext
<1>4. CASE UserStep
  <2> DEFINE MayCreate ==
        \/ groupTenant' = groupTenant
        \/ \E t \in Tenants, g \in Groups :
             /\ groupTenant[g] = NoRow
             /\ groupTenant' = [groupTenant EXCEPT ![g] = t]
  <2>1. ASSUME NEW t, NEW s, NEW idp, NEW u, TU!CreateTenant(t, s, idp, u)
        PROVE  MayCreate
    BY <2>1 DEF TU!CreateTenant
  <2>2. ASSUME NEW t, NEW s, NEW idp, NEW asked, NEW groups, NEW u,
               TU!AddTenantUser(t, s, idp, asked, groups, u)
        PROVE  MayCreate
    BY <2>2 DEF TU!AddTenantUser
  <2>3. ASSUME NEW t, NEW u, NEW asked, TU!AssignUserRoles(t, u, asked)
        PROVE  MayCreate
    BY <2>3 DEF TU!AssignUserRoles
  <2>4. ASSUME NEW t, NEW u, NEW r, TU!UnassignUserRoles(t, u, r)
        PROVE  MayCreate
    BY <2>4 DEF TU!UnassignUserRoles
  <2>5. ASSUME NEW t, NEW u, TU!RemoveTenantUser(t, u)
        PROVE  MayCreate
    BY <2>5 DEF TU!RemoveTenantUser
  <2>6. ASSUME NEW t, NEW g, NEW s, NEW idp, NEW u, TU!AddGroupUser(t, g, s, idp, u)
        PROVE  MayCreate
    BY <2>6 DEF TU!AddGroupUser
  <2>7. ASSUME NEW t \in Tenants, NEW g \in Groups, NEW w, TU!CreateGroup(t, g, w)
        PROVE  MayCreate
    BY <2>7 DEF TU!CreateGroup
  <2>8. ASSUME NEW t, NEW g, NEW u, NEW k, TU!RemoveGroupUser(t, g, u, k)
        PROVE  MayCreate
    BY <2>8 DEF TU!RemoveGroupUser
  <2>9. MayCreate
    BY <1>4, <2>1, <2>2, <2>3, <2>4, <2>5, <2>6, <2>7, <2>8 DEF UserStep, TU!Next
  <2> QED
    BY <1>4, <2>9 DEF UserStep, GNext, CreateGroup, gtables, tables
<1>5. CASE UNCHANGED evars
  BY <1>5 DEF evars
<1> QED
  BY <1>1, <1>2, <1>3, <1>4, <1>5 DEF ENext

\* What happens to the services, their roles and the groups' roles is what the
\* handlers of GroupServiceRoles do.
THEOREM ServicesImplemented == ESpec => GSpec
<1>1. EInit => GInit
  BY DEF EInit
<1> QED
  BY <1>1, NextServices, PTL DEF ESpec, GSpec

-----------------------------------------------------------------------------
(* What is known of the users. *)

LEMMA SameNext == [TU!Next]_TU!vars => [TUP!Next]_TUP!vars
BY DEF TU!ServiceUser, TU!TenantOwner, TU!UserAdmin, TU!Idir,
       TU!BusinessBceid, TU!IdpTypes, TU!Statuses, TU!TenantUserRow, TU!vars,
       TU!TenantExists, TU!Exists, TU!Active, TU!InTenant, TU!RowOf, TU!Has,
       TU!OneWith, TU!HasRole, TU!IsMember, TU!ActiveRoleRows, TU!ManagedBy,
       TU!Manageable, TU!StoredIdp, TU!Assignable, TU!RolePlan,
       TU!ExistingMemberships, TU!SoftDeletedMemberships, TU!GroupsPlan,
       TU!MemberPlan, TU!Saves, TU!Fits, TU!ApplyPlan, TU!SoftDelete,
       TU!SoftDeleteAll, TU!SaveRoles, TU!SaveMembers, TU!SaveTenantUser,
       TU!Unknown, TU!SoftDeletedTenantUser, TU!GroupsOfTenant,
       TU!RoleIdsToAssign, TU!RolesInBody, TU!RoleIdsInBody, TU!FirstMembers,
       TU!CreateTenant, TU!AddTenantUser, TU!AssignUserRoles,
       TU!OtherOwnerOnRecord, TU!OtherActiveOwner, TU!OneRoleRowLeft,
       TU!UnassignUserRoles, TU!SweepUser, TU!RemoveTenantUser,
       TU!AddGroupUser, TU!CreateGroup, TU!RemoveGroupUser, TU!Next,
       TUP!ServiceUser, TUP!TenantOwner, TUP!UserAdmin, TUP!Idir,
       TUP!BusinessBceid, TUP!IdpTypes, TUP!Statuses, TUP!TenantUserRow,
       TUP!vars, TUP!TenantExists, TUP!Exists, TUP!Active, TUP!InTenant,
       TUP!RowOf, TUP!Has, TUP!OneWith, TUP!HasRole, TUP!IsMember,
       TUP!ActiveRoleRows, TUP!ManagedBy, TUP!Manageable, TUP!StoredIdp,
       TUP!Assignable, TUP!RolePlan, TUP!ExistingMemberships,
       TUP!SoftDeletedMemberships, TUP!GroupsPlan, TUP!MemberPlan, TUP!Saves,
       TUP!Fits, TUP!ApplyPlan, TUP!SoftDelete, TUP!SoftDeleteAll,
       TUP!SaveRoles, TUP!SaveMembers, TUP!SaveTenantUser, TUP!Unknown,
       TUP!SoftDeletedTenantUser, TUP!GroupsOfTenant, TUP!RoleIdsToAssign,
       TUP!RolesInBody, TUP!RoleIdsInBody, TUP!FirstMembers,
       TUP!CreateTenant, TUP!AddTenantUser, TUP!AssignUserRoles,
       TUP!OtherOwnerOnRecord, TUP!OtherActiveOwner, TUP!OneRoleRowLeft,
       TUP!UnassignUserRoles, TUP!SweepUser, TUP!RemoveTenantUser,
       TUP!AddGroupUser, TUP!CreateGroup, TUP!RemoveGroupUser, TUP!Next

LEMMA UsersSpec == ESpec => TUP!Spec
<1>1. TU!Init => TUP!Init
  BY DEF TU!Init, TUP!Init
<1> QED
  BY <1>1, SameNext, UsersImplemented, PTL DEF TU!Spec, TUP!Spec

UsersInv ==
    /\ TUP!TypeOK
    /\ TUP!OneRowPerTenantAndUser
    /\ TUP!RemovedUserHasNothing

LEMMA UsersInvariant == ESpec => []UsersInv
<1>1. TUP!Spec => []TUP!TypeOK
  BY TUP!TypeCorrect, UserRoles, SomeCopies, NoRowIsNone
<1>2. TUP!Spec => []TUP!OneRowPerTenantAndUser
  BY TUP!UsersNotDuplicated, UserRoles, SomeCopies, NoRowIsNone
<1>3. TUP!Spec => []TUP!RemovedUserHasNothing
  BY TUP!RemovedHasNothing, UserRoles, SomeCopies, NoRowIsNone
<1> QED
  BY <1>1, <1>2, <1>3, UsersSpec, PTL DEF UsersInv

-----------------------------------------------------------------------------
(* The request between its two queries. *)

\* The id the first query found stays an id of the user the token names, in the
\* tenant it asks of, for as long as the second query is not made: the user may
\* be removed and added again, but the row is never given to another.
QueryInv ==
    query # NoRow =>
        query \in Query /\ TUP!RowOf(query.tenantUser, query.tenant, query.sso)

LEMMA NextQuery == TUP!TypeOK /\ QueryInv /\ [ENext]_evars => QueryInv'
<1> SUFFICES ASSUME TUP!TypeOK, QueryInv, [ENext]_evars PROVE QueryInv'
  OBVIOUS
<1>1. ASSUME NEW q \in Query, FindTenantUser(q)
      PROVE  QueryInv'
  BY <1>1 DEF FindTenantUser, users, QueryInv, TU!RowOf, TU!InTenant, TU!Exists,
              TUP!RowOf, TUP!InTenant, TUP!Exists
<1>2. CASE Answer
  BY <1>2 DEF Answer, QueryInv
<1>3. CASE UNCHANGED query
  <2>1. SUFFICES ASSUME query # NoRow
                 PROVE  TUP!RowOf(query.tenantUser, query.tenant, query.sso)'
    BY <1>3 DEF QueryInv
  <2> DEFINE v == query.tenantUser
             x == query.tenant
             y == query.sso
  <2>2. /\ v \in TenantUserIds /\ x \in Tenants /\ y \in Users
        /\ TUP!RowOf(v, x, y)
    BY <2>1 DEF QueryInv, Query
  <2>3. PICK v0 \in TenantUserIds, x0 \in Tenants, y0 \in Users :
            v0 = v /\ x0 = x /\ y0 = y
    BY <2>2
  <2>4. [TUP!Next]_TUP!vars
    BY NextUsers, SameNext
  <2>5. TUP!RowOf(v0, x0, y0)
    BY <2>2, <2>3
  <2>6. TUP!RowOf(v0, x0, y0)'
    BY <2>4, <2>5, TUP!NextRowsStay, UserRoles, SomeCopies, NoRowIsNone
  <2> QED
    BY <2>3, <2>6, <1>3 DEF TUP!RowOf, TUP!InTenant, TUP!Exists
<1> QED
  BY <1>1, <1>2, <1>3 DEF ENext, ServiceStep, UserStep, evars

LEMMA QueryInvariant == ESpec => []QueryInv
<1>1. EInit => QueryInv
  BY DEF EInit, QueryInv
<1> QED
  BY <1>1, NextQuery, UsersInvariant, PTL DEF ESpec, UsersInv

-----------------------------------------------------------------------------
(* The answers. *)

\* Whoever has the row of the user is who the request is about, and only an
\* active user is a member of a group.
LEMMA RowOfQuery ==
    ASSUME UsersInv, QueryInv, query # NoRow
    PROVE  /\ query \in Query
           /\ TU!RowOf(query.tenantUser, query.tenant, query.sso)
           /\ \A u \in TenantUserIds :
                 TU!RowOf(u, query.tenant, query.sso) => u = query.tenantUser
           /\ \A u \in TenantUserIds, g \in Groups : TU!IsMember(u, g) => TU!Active(u)
<1>1. query \in Query /\ TUP!RowOf(query.tenantUser, query.tenant, query.sso)
  BY DEF QueryInv
<1>2. query.tenantUser \in TenantUserIds /\ query.tenant \in Tenants /\ query.sso \in Users
  BY <1>1 DEF Query
<1>3. \A u \in TenantUserIds :
        TUP!RowOf(u, query.tenant, query.sso) => u = query.tenantUser
  BY <1>1, <1>2 DEF UsersInv, TUP!OneRowPerTenantAndUser
<1>4. \A u : TU!RowOf(u, query.tenant, query.sso) <=> TUP!RowOf(u, query.tenant, query.sso)
  BY DEF TU!RowOf, TU!InTenant, TU!Exists, TUP!RowOf, TUP!InTenant, TUP!Exists
<1>5. \A u \in TenantUserIds, g \in Groups : TU!IsMember(u, g) => TU!Active(u)
  BY DEF UsersInv, TUP!RemovedUserHasNothing, TUP!IsMember, TUP!Has, TUP!Active, TUP!Exists,
         TU!IsMember, TU!Has, TU!Active, TU!Exists
<1> QED
  BY <1>1, <1>3, <1>4, <1>5

\* The answer has a role exactly if a group of the user gives it.
LEMMA RolesInAnswer ==
    /\ DOMAIN EffectiveSharedServiceRoles(query) =
          {r \in RoleIds : \E g \in Groups : Joined(query, g, r)}
    /\ DOMAIN UserGroupsWithSharedServiceRoles(query) =
          {g \in Groups : \E r \in RoleIds : Joined(query, g, r)}
BY DEF EffectiveSharedServiceRoles, UserGroupsWithSharedServiceRoles

LEMMA JoinedIsEntitled ==
    ASSUME UsersInv, QueryInv, query # NoRow, NEW r \in RoleIds
    PROVE  (\E g \in Groups : Joined(query, g, r)) <=> Entitled(query, r)
<1>1. ASSUME NEW g \in Groups, Joined(query, g, r)
      PROVE  Entitled(query, r)
  BY <1>1, RowOfQuery DEF Joined, Entitled, AssociatedWith, Query
<1>2. ASSUME Entitled(query, r)
      PROVE  \E g \in Groups : Joined(query, g, r)
  BY <1>2, RowOfQuery DEF Joined, Entitled, AssociatedWith
<1> QED
  BY <1>1, <1>2

\* A user removed, or removed and added again, between the two queries is told
\* what the user is entitled to when the second one runs.
THEOREM AnswersAreCurrent == ESpec => []AnswerIsCurrent
<1>1. UsersInv /\ QueryInv => AnswerIsCurrent
  BY JoinedIsEntitled, RolesInAnswer DEF AnswerIsCurrent
<1> QED
  BY <1>1, UsersInvariant, QueryInvariant, PTL

\* The roles shown as enabled for a group are those its members have.
THEOREM ShownRolesAreHeld == ESpec => []ShownRolesAreEffective
<1>1. ShownRolesAreEffective
  BY DEF ShownRolesAreEffective, Joined, ShownEnabled, Offered, AssociatedWith
<1> QED
  BY <1>1, PTL

\* The lists a service can ask for, and the page of a user, agree with the
\* answer it is given.
LEMMA ListsAgree ==
    ASSUME UsersInv, QueryInv
    PROVE  ListsAgreeWithAnswer
<1> SUFFICES ASSUME query # NoRow PROVE ListsAgreeWithAnswer
  BY DEF ListsAgreeWithAnswer
<1> DEFINE t == query.tenant
           s == query.service
           Answered(r) == \E g \in Groups : Joined(query, g, r)
           Listed(r) == \E u \in UsersWithSharedServiceRoles(t, {r}) :
                            tenantUser[u].sso = query.sso
<1>1. TenantGroups(t, s) # {} => TenantHasSharedServiceAccess(t, s)
  BY DEF TenantGroups, TenantHasSharedServiceAccess
<1>2. ASSUME TenantHasSharedServiceAccess(t, s), NEW r \in RolesOf(s),
             AllowedFor(r, query.idp)
      PROVE  /\ Answered(r) <=> Listed(r)
             /\ Answered(r) <=> r \in SharedServiceRolesOfUser(query.tenantUser)
  \* What is asked of the service and the role holds.
  <2>1. \A g : Joined(query, g, r) <=> TU!IsMember(query.tenantUser, g) /\ Assigned(g, r)
    BY <1>2 DEF TenantHasSharedServiceAccess, RolesOf, Joined, AssociatedWith
  <2>2. Answered(r) => Listed(r)
    BY <2>1, RowOfQuery DEF Query, UsersWithSharedServiceRoles, TU!RowOf
  <2>3. ASSUME NEW u \in UsersWithSharedServiceRoles(t, {r}), tenantUser[u].sso = query.sso
        PROVE  Answered(r)
    <3>1. u \in TenantUserIds /\ TU!RowOf(u, t, query.sso)
      BY <2>3 DEF UsersWithSharedServiceRoles, TU!RowOf
    <3>2. u = query.tenantUser
      BY <3>1, RowOfQuery
    <3> QED
      BY <2>1, <2>3, <3>2 DEF UsersWithSharedServiceRoles
  <2>4. Answered(r) <=> r \in SharedServiceRolesOfUser(query.tenantUser)
    BY <1>2, <2>1 DEF RolesOf, SharedServiceRolesOfUser, GroupsOfUser
  <2> QED
    BY <2>2, <2>3, <2>4
<1>3. DOMAIN UserGroupsWithSharedServiceRoles(query) \subseteq GroupsOfUser(query.tenantUser)
  BY RolesInAnswer DEF GroupsOfUser, Joined
<1>4. \A r \in RolesOf(s) :
        r \in DOMAIN EffectiveSharedServiceRoles(query) <=> Answered(r)
  BY RolesInAnswer DEF RolesOf
<1> QED
  BY <1>1, <1>2, <1>3, <1>4 DEF ListsAgreeWithAnswer

\* The lists of a user's groups and roles, on the page of a tenant user, say what
\* a connected service is told of the same user.
THEOREM ListsAgreeWithAnswers == ESpec => []ListsAgreeWithAnswer
<1>1. UsersInv /\ QueryInv => ListsAgreeWithAnswer
  BY ListsAgree
<1> QED
  BY <1>1, UsersInvariant, QueryInvariant, PTL
=============================================================================
