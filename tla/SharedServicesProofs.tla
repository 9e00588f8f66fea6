------------------------ MODULE SharedServicesProofs ------------------------
(***************************************************************************)
(* Theorems about SharedServicesConcurrent: what the unique keys keep      *)
(* apart and what overlapping requests do, for any number of services,     *)
(* roles, columns and requests in flight.                                  *)
(***************************************************************************)
EXTENDS SharedServicesConcurrent, TLAPS

-----------------------------------------------------------------------------
(* What the writes do to the tables. *)

\* The rows inserted are of the service, have the names asked for, and each
\* name goes to one of them; the rows that were there stay.
LEMMA InsertRolesEffect ==
    ASSUME TypeOK, NEW s \in Services, NEW names \in SUBSET RoleNames,
           NEW idps \in Providers, InsertRoles(s, names, idps)
    PROVE  /\ role' \in [RoleIds -> RoleRow \union {NoRow}]
           /\ \A r \in RoleIds : role[r] # NoRow => role'[r] = role[r]
           /\ \A r \in RoleIds : role[r] = NoRow /\ role'[r] # NoRow =>
                role'[r].service = s /\ role'[r].name \in names
           /\ \A r, other \in RoleIds :
                /\ role[r] = NoRow /\ role'[r] # NoRow
                /\ role[other] = NoRow /\ role'[other] # NoRow
                /\ role'[r].name = role'[other].name
                => r = other
           /\ names # {} => \E r \in RoleIds : role'[r] # NoRow /\ role'[r].service = s
<1>1. PICK id \in [names -> {r \in RoleIds : role[r] = NoRow}] :
          role' = [r \in RoleIds |->
              IF \E n \in names : id[n] = r
              THEN [service |-> s, name |-> CHOOSE n \in names : id[n] = r, idps |-> idps]
              ELSE role[r]]
  BY DEF InsertRoles
<1> DEFINE named(r) == CHOOSE n \in names : id[n] = r
           Given(r) == \E n \in names : id[n] = r
<1>2. \A r \in RoleIds : Given(r) => named(r) \in names /\ id[named(r)] = r
  OBVIOUS
<1>3. \A r \in RoleIds :
        role'[r] = IF Given(r) THEN [service |-> s, name |-> named(r), idps |-> idps]
                   ELSE role[r]
  BY <1>1
<1>4. \A n \in names : id[n] \in RoleIds /\ Given(id[n]) /\ role[id[n]] = NoRow
  OBVIOUS
<1>5. \A r \in RoleIds : Given(r) => role[r] = NoRow
  BY <1>4
<1>6. \A r \in RoleIds : Given(r) => [service |-> s, name |-> named(r), idps |-> idps] \in RoleRow
  BY <1>2 DEF RoleRow
<1>7. DOMAIN role' = RoleIds /\ role' = [r \in RoleIds |-> role'[r]]
  BY <1>1
<1> HIDE DEF named, Given
<1>8. role' \in [RoleIds -> RoleRow \union {NoRow}]
  BY <1>3, <1>6, <1>7 DEF TypeOK
<1>9. \A r \in RoleIds : Given(r) =>
        /\ role'[r].service = s
        /\ role'[r].name = named(r)
        /\ role'[r] # NoRow
  <2> SUFFICES ASSUME NEW r \in RoleIds, Given(r)
               PROVE  role'[r].service = s /\ role'[r].name = named(r) /\ role'[r] # NoRow
    OBVIOUS
  <2>1. role'[r] = [service |-> s, name |-> named(r), idps |-> idps]
    BY <1>3
  <2>2. role'[r] \in RoleRow
    BY <1>6, <2>1
  <2>3. role'[r] # NoRow
    BY <2>2, NoRowAssumption
  <2> QED
    BY <2>1, <2>3
<1>10. \A r \in RoleIds : role[r] # NoRow => role'[r] = role[r]
  BY <1>3, <1>5
<1>11. \A r \in RoleIds : role[r] = NoRow /\ role'[r] # NoRow => Given(r)
  BY <1>3
<1>12. \A r \in RoleIds : role[r] = NoRow /\ role'[r] # NoRow =>
        role'[r].service = s /\ role'[r].name \in names
  BY <1>2, <1>9, <1>11
<1>13. \A r, other \in RoleIds :
         /\ role[r] = NoRow /\ role'[r] # NoRow
         /\ role[other] = NoRow /\ role'[other] # NoRow
         /\ role'[r].name = role'[other].name
         => r = other
  BY <1>2, <1>9, <1>11
<1>14. names # {} => \E r \in RoleIds : role'[r] # NoRow /\ role'[r].service = s
  BY <1>4, <1>9
<1> QED
  BY <1>8, <1>10, <1>12, <1>13, <1>14

\* A service or role row with the fields of a body is a row.
LEMMA UpdatedRowType ==
    ASSUME NEW row \in ServiceRow, NEW fields \in ColumnsInBody
    PROVE  UpdatedRow(row, fields) \in ServiceRow
BY DEF UpdatedRow, ServiceRow, Key, Overlay, OrElse, ColumnsInBody

LEMMA UpdatedRoleType ==
    ASSUME NEW row \in RoleRow, NEW name \in RoleNames \union {NoRow},
           NEW idps \in Providers \union {NoRow}
    PROVE  /\ UpdatedRole(row, name, idps) \in RoleRow
           /\ UpdatedRole(row, name, idps).service = row.service
           /\ UpdatedRole(row, name, idps).name = OrElse(name, row.name)
BY DEF UpdatedRole, RoleRow, OrElse

\* What save writes on the row as it is: the columns in which it differed.
WrittenRow(st) ==
    LET current == service[st.service]
    IN [key |-> [c \in Columns |-> IF c \in st.changed THEN st.row.key[c]
                                   ELSE current.key[c]],
        isActive |-> IF "isActive" \in st.changed THEN st.row.isActive
                     ELSE current.isActive]
WrittenRole(st) ==
    [c \in DOMAIN role[st.role] |->
        IF c \in st.changed THEN st.row[c] ELSE role[st.role][c]]

-----------------------------------------------------------------------------
(* The states of a request, by handler. *)

CreateState ==
    [op : {"create"}, unchecked : SUBSET Columns, service : {NoRow},
     row : ServiceRow, names : SUBSET RoleNames, idps : Providers]
UpdateState ==
    [op : {"update"}, unchecked : SUBSET Columns, service : Services, row : ServiceRow]
SaveServiceState ==
    [op : {"saveService"}, service : Services, row : ServiceRow,
     changed : SUBSET (Columns \union {"isActive"})]
AddRolesState ==
    [op : {"addRoles"}, unchecked : SUBSET RoleNames, service : Services,
     names : SUBSET RoleNames, idps : Providers]
UpdateRoleState == [op : {"updateRole"}, checked : BOOLEAN, role : RoleIds, row : RoleRow]
SaveRoleState ==
    [op : {"saveRole"}, role : RoleIds, row : RoleRow, changed : SUBSET {"name", "idps"}]
AssociateState ==
    [op : {"associate"}, checked : BOOLEAN, service : Services, tenant : Tenants]

LEMMA RequestStates ==
    /\ Idle \in RequestState
    /\ CreateState \subseteq RequestState
    /\ UpdateState \subseteq RequestState
    /\ SaveServiceState \subseteq RequestState
    /\ AddRolesState \subseteq RequestState
    /\ UpdateRoleState \subseteq RequestState
    /\ SaveRoleState \subseteq RequestState
    /\ AssociateState \subseteq RequestState
BY DEF Idle, RequestState, CreateState, UpdateState, SaveServiceState, AddRolesState,
       UpdateRoleState, SaveRoleState, AssociateState

LEMMA StateOfHandler ==
    ASSUME NEW st \in RequestState
    PROVE  /\ st.op = "create" => st \in CreateState
           /\ st.op = "update" => st \in UpdateState
           /\ st.op = "saveService" => st \in SaveServiceState
           /\ st.op = "addRoles" => st \in AddRolesState
           /\ st.op = "updateRole" => st \in UpdateRoleState
           /\ st.op = "saveRole" => st \in SaveRoleState
           /\ st.op = "associate" => st \in AssociateState
           /\ st.op = "idle" <=> st = Idle
<1> USE DEF CreateState, UpdateState, SaveServiceState, AddRolesState,
            UpdateRoleState, SaveRoleState, AssociateState
<1>1. \/ st \in [op : {"idle"}] \/ st \in CreateState \/ st \in UpdateState
      \/ st \in SaveServiceState \/ st \in AddRolesState \/ st \in UpdateRoleState
      \/ st \in SaveRoleState \/ st \in AssociateState
  BY DEF RequestState
<1>2. st \in [op : {"idle"}] => st = Idle
  BY DEF Idle
<1>3. Idle.op = "idle"
  BY DEF Idle
<1> QED
  BY <1>1, <1>2, <1>3

\* Services and roles that requests speak of, and the roles a new one asks for.
ServiceOps == {"update", "saveService", "addRoles", "associate"}
RoleOps == {"updateRole", "saveRole"}

\* A request in flight speaks of a row that is there, and roles are asked for.
Target(st) ==
    /\ st.op \in ServiceOps => Exists(st.service)
    /\ st.op \in RoleOps => role[st.role] # NoRow
    /\ st.op \in {"create", "addRoles"} => st.names # {}
TargetsExist == \A q \in Requests : \A st : request[q] = st => Target(st)

\* What a request that nothing overtook knows of the row it read, still.
RowMeant(st) ==
    LET current == service[st.service]
    IN \/ \E fields \in ColumnsInBody : st.row = UpdatedRow(current, fields)
       \/ \E isActive \in BOOLEAN :
            current.isActive # isActive /\ st.row = [current EXCEPT !.isActive = isActive]
RoleMeant(st) ==
    \E name \in RoleNames \union {NoRow}, idps \in Providers \union {NoRow} :
        st.row = UpdatedRole(role[st.role], name, idps)
Knows(st) ==
    /\ st.op \in {"update", "saveService"} => RowMeant(st)
    /\ st.op = "saveService" => st.changed = Differing(st.row, service[st.service])
    /\ st.op \in {"addRoles", "associate"} => IsActive(st.service)
    /\ st.op \in RoleOps => RoleMeant(st)
    /\ st.op = "saveRole" =>
         st.changed = {c \in {"name", "idps"} : st.row[c] # role[st.role][c]}
FreshKnows ==
    \A q \in Requests \ overtaken : \A st : request[q] = st => Knows(st)

\* The steps by what they do: a request begins, proceeds or writes.
Begins(q) ==
    \/ \E row \in ServiceRow, names \in RolesInBody, idps \in Providers :
        StartCreate(q, row, names, idps)
    \/ \E s \in Services, fields \in ColumnsInBody : StartUpdate(q, s, fields)
    \/ \E s \in Services, isActive \in BOOLEAN : StartStatus(q, s, isActive)
    \/ \E s \in Services, names \in RolesInBody, idps \in Providers :
        StartAddRoles(q, s, names, idps)
    \/ \E r \in RoleIds, name \in RoleNames \union {NoRow},
          idps \in Providers \union {NoRow} :
        StartUpdateRole(q, r, name, idps)
    \/ \E t \in Tenants, s \in Services : StartAssociate(q, t, s)
Proceeds(q) ==
    \/ \E c \in Columns : CheckColumn(q, c)
    \/ SaveService(q)
    \/ \E name \in RoleNames : CheckRoleName(q, name)
    \/ CheckNewName(q)
    \/ SaveRole(q)
    \/ CheckAssociation(q)
Writes(q) ==
    \/ \E s \in Services : WriteCreate(q, s)
    \/ WriteService(q)
    \/ WriteAddRoles(q)
    \/ WriteRole(q)
    \/ WriteAssociation(q)

LEMMA StepsOfRequests ==
    CNext => \E q \in Requests : Begins(q) \/ Proceeds(q) \/ Writes(q) \/ Abort(q)
BY DEF CNext, Begins, Proceeds, Writes

-----------------------------------------------------------------------------
(* Types and targets. *)

LEMMA WrittenRowType ==
    ASSUME TypeOK, NEW st \in SaveServiceState, Exists(st.service)
    PROVE  WrittenRow(st) \in ServiceRow
<1>1. service[st.service] \in ServiceRow
  BY DEF TypeOK, Exists, SaveServiceState
<1>2. st.row \in ServiceRow
  BY DEF SaveServiceState
<1> QED
  BY <1>1, <1>2 DEF WrittenRow, ServiceRow, Key

LEMMA WrittenRoleType ==
    ASSUME TypeOK, NEW st \in SaveRoleState, role[st.role] # NoRow
    PROVE  /\ WrittenRole(st) \in RoleRow
           /\ WrittenRole(st).service = role[st.role].service
           /\ WrittenRole(st).name =
                IF "name" \in st.changed THEN st.row.name ELSE role[st.role].name
           /\ WrittenRole(st).idps =
                IF "idps" \in st.changed THEN st.row.idps ELSE role[st.role].idps
<1>1. role[st.role] \in RoleRow
  BY DEF TypeOK, SaveRoleState
<1>2. st.row \in RoleRow /\ st.changed \subseteq {"name", "idps"}
  BY DEF SaveRoleState
<1> QED
  BY <1>1, <1>2 DEF WrittenRole, RoleRow

\* The state a request begins in: typed, with its target, and it knows the row.
Sound(st) == st \in RequestState /\ st # Idle /\ Target(st) /\ Knows(st)

LEMMA BeginsSound ==
    ASSUME CTypeOK, NEW q \in Requests, Begins(q)
    PROVE  \E st : Becomes(q, st) /\ Sound(st)
<1> USE DEF CTypeOK
<1>1. ASSUME NEW row \in ServiceRow, NEW names \in RolesInBody, NEW idps \in Providers,
             StartCreate(q, row, names, idps)
      PROVE  \E st : Becomes(q, st) /\ Sound(st)
  <2> DEFINE st == [op |-> "create", unchecked |-> Columns, service |-> NoRow,
                    row |-> row, names |-> names, idps |-> idps]
  <2>1. st \in CreateState /\ st.names # {}
    BY DEF CreateState, RolesInBody
  <2>2. st.op = "create"
    OBVIOUS
  <2>3. Becomes(q, st)
    BY <1>1 DEF StartCreate
  <2> HIDE DEF st
  <2> QED
    BY <2>1, <2>2, <2>3, RequestStates
       DEF Sound, Target, Knows, ServiceOps, RoleOps, Idle
<1>2. ASSUME NEW s \in Services, NEW fields \in ColumnsInBody, StartUpdate(q, s, fields)
      PROVE  \E st : Becomes(q, st) /\ Sound(st)
  <2> DEFINE row == UpdatedRow(service[s], fields)
             st == [op |-> "update", service |-> s, row |-> row,
                    unchecked |-> {c \in Columns : row.key[c] # service[s].key[c]}]
  <2>1. service[s] \in ServiceRow /\ Exists(s)
    BY <1>2 DEF StartUpdate, Exists, TypeOK
  <2>2. st \in UpdateState
    BY <2>1, UpdatedRowType DEF UpdateState
  <2>3. st.op = "update" /\ st.service = s /\ st.row = UpdatedRow(service[s], fields)
    OBVIOUS
  <2>4. Becomes(q, st)
    BY <1>2 DEF StartUpdate
  <2> HIDE DEF st, row
  <2>5. Knows(st)
    BY <2>3 DEF Knows, RowMeant, RoleOps
  <2> QED
    BY <2>1, <2>2, <2>3, <2>4, <2>5, RequestStates
       DEF Sound, Target, ServiceOps, RoleOps, Idle
<1>3. ASSUME NEW s \in Services, NEW isActive \in BOOLEAN, StartStatus(q, s, isActive)
      PROVE  \E st : Becomes(q, st) /\ Sound(st)
  <2> DEFINE st == [op |-> "update", service |-> s, unchecked |-> {},
                    row |-> [service[s] EXCEPT !.isActive = isActive]]
  <2>1. service[s] \in ServiceRow /\ Exists(s) /\ service[s].isActive # isActive
    BY <1>3 DEF StartStatus, Exists, TypeOK
  <2>2. st \in UpdateState
    BY <2>1 DEF UpdateState, ServiceRow
  <2>3. /\ st.op = "update" /\ st.service = s
        /\ st.row = [service[s] EXCEPT !.isActive = isActive]
    OBVIOUS
  <2>4. Becomes(q, st)
    BY <1>3 DEF StartStatus
  <2> HIDE DEF st
  <2>5. Knows(st)
    BY <2>1, <2>3 DEF Knows, RowMeant, RoleOps
  <2> QED
    BY <2>1, <2>2, <2>3, <2>4, <2>5, RequestStates
       DEF Sound, Target, ServiceOps, RoleOps, Idle
<1>4. ASSUME NEW s \in Services, NEW names \in RolesInBody, NEW idps \in Providers,
             StartAddRoles(q, s, names, idps)
      PROVE  \E st : Becomes(q, st) /\ Sound(st)
  <2> DEFINE st == [op |-> "addRoles", unchecked |-> names, service |-> s,
                    names |-> names, idps |-> idps]
  <2>1. IsActive(s) /\ Becomes(q, st)
    BY <1>4 DEF StartAddRoles
  <2>2. st \in AddRolesState /\ st.names # {}
    BY DEF AddRolesState, RolesInBody
  <2>3. st.op = "addRoles" /\ st.service = s
    OBVIOUS
  <2> HIDE DEF st
  <2> QED
    BY <2>1, <2>2, <2>3, RequestStates
       DEF Sound, Target, Knows, ServiceOps, RoleOps, Idle, IsActive
<1>5. ASSUME NEW r \in RoleIds, NEW name \in RoleNames \union {NoRow},
             NEW idps \in Providers \union {NoRow}, StartUpdateRole(q, r, name, idps)
      PROVE  \E st : Becomes(q, st) /\ Sound(st)
  <2> DEFINE row == UpdatedRole(role[r], name, idps)
             st == [op |-> "updateRole", checked |-> row.name = role[r].name,
                    role |-> r, row |-> row]
  <2>1. role[r] \in RoleRow /\ role[r] # NoRow
    BY <1>5 DEF StartUpdateRole, TypeOK
  <2>2. st \in UpdateRoleState
    BY <2>1, UpdatedRoleType DEF UpdateRoleState
  <2>3. st.op = "updateRole" /\ st.role = r /\ st.row = UpdatedRole(role[r], name, idps)
    OBVIOUS
  <2>4. Becomes(q, st)
    BY <1>5 DEF StartUpdateRole
  <2> HIDE DEF st, row
  <2>5. Knows(st)
    BY <2>3 DEF Knows, RoleMeant, RoleOps
  <2> QED
    BY <2>1, <2>2, <2>3, <2>4, <2>5, RequestStates
       DEF Sound, Target, ServiceOps, RoleOps, Idle
<1>6. ASSUME NEW t \in Tenants, NEW s \in Services, StartAssociate(q, t, s)
      PROVE  \E st : Becomes(q, st) /\ Sound(st)
  <2> DEFINE st == [op |-> "associate", checked |-> FALSE, service |-> s, tenant |-> t]
  <2>1. IsActive(s) /\ Becomes(q, st)
    BY <1>6 DEF StartAssociate
  <2>2. st \in AssociateState
    BY DEF AssociateState
  <2>3. st.op = "associate" /\ st.service = s
    OBVIOUS
  <2> HIDE DEF st
  <2> QED
    BY <2>1, <2>2, <2>3, RequestStates
       DEF Sound, Target, Knows, ServiceOps, RoleOps, Idle, IsActive
<1> QED
  BY <1>1, <1>2, <1>3, <1>4, <1>5, <1>6 DEF Begins

\* A request that proceeds keeps its target and what it knows.
LEMMA ProceedsSound ==
    ASSUME CTypeOK, NEW q \in Requests, Target(request[q]), Proceeds(q)
    PROVE  \E st : /\ Becomes(q, st)
                   /\ st \in RequestState /\ st # Idle /\ Target(st)
                   /\ Knows(request[q]) => Knows(st)
<1> DEFINE old == request[q]
<1>0. old \in RequestState
  BY DEF CTypeOK
<1>1. ASSUME NEW c \in Columns, CheckColumn(q, c)
      PROVE  \E st : /\ Becomes(q, st)
                     /\ st \in RequestState /\ st # Idle /\ Target(st)
                     /\ Knows(old) => Knows(st)
  <2> DEFINE st == [old EXCEPT !.unchecked = @ \ {c}]
  <2>1. Becomes(q, st) /\ (old \in CreateState \/ old \in UpdateState)
    BY <1>0, <1>1, StateOfHandler DEF CheckColumn
  <2>2. st \in CreateState \/ st \in UpdateState
    BY <2>1 DEF CreateState, UpdateState
  <2>3. st.op = old.op /\ st.service = old.service /\ st.row = old.row
    BY <2>1 DEF CreateState, UpdateState
  <2>4. st.op = "create" => st.names = old.names
    BY <2>1 DEF CreateState, UpdateState
  <2>5. st.op \in {"create", "update"}
    BY <2>2 DEF CreateState, UpdateState
  <2> HIDE DEF st
  <2>6. Knows(old) => Knows(st)
    BY <2>3, <2>5 DEF Knows, RowMeant, RoleOps
  <2> QED
    BY <2>1, <2>2, <2>3, <2>4, <2>5, <2>6, RequestStates DEF Target, ServiceOps, RoleOps, Idle
<1>2. CASE SaveService(q)
  <2> DEFINE s == old.service
             st == [op |-> "saveService", service |-> s, row |-> old.row,
                    changed |-> Differing(old.row, service[s])]
  <2>1. Becomes(q, st) /\ old \in UpdateState /\ old.op = "update"
    BY <1>0, <1>2, StateOfHandler DEF SaveService, Doing
  <2>2. st \in SaveServiceState
    BY <2>1 DEF UpdateState, SaveServiceState, Differing
  <2>3. /\ st.op = "saveService" /\ st.service = old.service /\ st.row = old.row
        /\ st.changed = Differing(st.row, service[st.service])
    OBVIOUS
  <2> HIDE DEF st
  <2>6. Knows(old) => Knows(st)
    BY <2>1, <2>3 DEF Knows, RowMeant, RoleOps
  <2> QED
    BY <2>1, <2>2, <2>3, <2>6, RequestStates DEF Target, ServiceOps, RoleOps, Idle
<1>3. ASSUME NEW name \in RoleNames, CheckRoleName(q, name)
      PROVE  \E st : /\ Becomes(q, st)
                     /\ st \in RequestState /\ st # Idle /\ Target(st)
                     /\ Knows(old) => Knows(st)
  <2> DEFINE st == [old EXCEPT !.unchecked = @ \ {name}]
  <2>1. Becomes(q, st) /\ old \in AddRolesState
    BY <1>0, <1>3, StateOfHandler DEF CheckRoleName, Doing
  <2>2. st \in AddRolesState
    BY <2>1 DEF AddRolesState
  <2>3. /\ st.op = "addRoles" /\ old.op = "addRoles"
        /\ st.service = old.service /\ st.names = old.names
    BY <2>1 DEF AddRolesState
  <2> HIDE DEF st
  <2> QED
    BY <2>1, <2>2, <2>3, RequestStates DEF Knows, Target, ServiceOps, RoleOps, Idle
<1>4. CASE CheckNewName(q)
  <2> DEFINE st == [old EXCEPT !.checked = TRUE]
  <2>1. Becomes(q, st) /\ old \in UpdateRoleState
    BY <1>0, <1>4, StateOfHandler DEF CheckNewName, Doing
  <2>2. st \in UpdateRoleState
    BY <2>1 DEF UpdateRoleState
  <2>3. /\ st.op = "updateRole" /\ old.op = "updateRole"
        /\ st.role = old.role /\ st.row = old.row
    BY <2>1 DEF UpdateRoleState
  <2> HIDE DEF st
  <2> QED
    BY <2>1, <2>2, <2>3, RequestStates
       DEF Knows, RoleMeant, Target, ServiceOps, RoleOps, Idle
<1>5. CASE SaveRole(q)
  <2> DEFINE r == old.role
             st == [op |-> "saveRole", role |-> r, row |-> old.row,
                    changed |-> {c \in {"name", "idps"} : old.row[c] # role[r][c]}]
  <2>1. Becomes(q, st) /\ old \in UpdateRoleState /\ old.op = "updateRole"
    BY <1>0, <1>5, StateOfHandler DEF SaveRole, Doing
  <2>2. st \in SaveRoleState
    BY <2>1 DEF UpdateRoleState, SaveRoleState
  <2>3. /\ st.op = "saveRole" /\ st.role = old.role /\ st.row = old.row
        /\ st.changed = {c \in {"name", "idps"} : st.row[c] # role[st.role][c]}
    OBVIOUS
  <2> HIDE DEF st
  <2> QED
    BY <2>1, <2>2, <2>3, RequestStates
       DEF Knows, RoleMeant, Target, ServiceOps, RoleOps, Idle
<1>6. CASE CheckAssociation(q)
  <2> DEFINE st == [old EXCEPT !.checked = TRUE]
  <2>1. Becomes(q, st) /\ old \in AssociateState
    BY <1>0, <1>6, StateOfHandler DEF CheckAssociation, Doing
  <2>2. st \in AssociateState
    BY <2>1 DEF AssociateState
  <2>3. st.op = "associate" /\ old.op = "associate" /\ st.service = old.service
    BY <2>1 DEF AssociateState
  <2> HIDE DEF st
  <2> QED
    BY <2>1, <2>2, <2>3, RequestStates DEF Knows, Target, ServiceOps, RoleOps, Idle
<1> QED
  BY <1>1, <1>2, <1>3, <1>4, <1>5, <1>6 DEF Proceeds

\* Rows that are there stay, and a role stays with its service.
RowsStay ==
    /\ \A s \in Services : Exists(s) => Exists(s)'
    /\ \A r \in RoleIds : role[r] # NoRow =>
        role'[r] # NoRow /\ role'[r].service = role[r].service

\* What a write does: types, rows, and the requests other than its own stay.
LEMMA WritesKeep ==
    ASSUME CTypeOK, NEW q \in Requests, Target(request[q]), Writes(q)
    PROVE  TypeOK' /\ RowsStay
<1> USE DEF CTypeOK
<1> DEFINE st == request[q]
<1>0. st \in RequestState
  OBVIOUS
<1>1. ASSUME NEW s \in Services, WriteCreate(q, s)
      PROVE  TypeOK' /\ RowsStay
  <2>1. st \in CreateState /\ ~Exists(s)
    BY <1>0, <1>1, StateOfHandler DEF WriteCreate, Doing
  <2>2. /\ service' = [service EXCEPT ![s] = st.row]
        /\ InsertRoles(s, st.names, st.idps)
        /\ association' = association
    BY <1>1 DEF WriteCreate
  <2>3. st.row \in ServiceRow /\ st.names \in SUBSET RoleNames /\ st.idps \in Providers
    BY <2>1 DEF CreateState
  <2> HIDE DEF st
  <2>4. /\ role' \in [RoleIds -> RoleRow \union {NoRow}]
        /\ \A r \in RoleIds : role[r] # NoRow => role'[r] = role[r]
    BY <2>2, <2>3, InsertRolesEffect
  <2>5. TypeOK'
    BY <2>2, <2>3, <2>4 DEF TypeOK
  <2> QED
    BY <2>1, <2>2, <2>4, <2>5 DEF RowsStay, Exists, TypeOK
<1>2. CASE WriteService(q)
  <2>1. st \in SaveServiceState /\ Exists(st.service)
    BY <1>0, <1>2, StateOfHandler DEF WriteService, Doing, Target, ServiceOps
  <2>2. /\ service' = [service EXCEPT ![st.service] = WrittenRow(st)]
        /\ UNCHANGED <<role, association>>
    BY <1>2 DEF WriteService, WrittenRow
  <2>3. WrittenRow(st) \in ServiceRow /\ st.service \in Services
    BY <2>1, WrittenRowType DEF SaveServiceState
  <2> HIDE DEF st
  <2>4. WrittenRow(st) # NoRow
    BY <2>3, NoRowAssumption
  <2> QED
    BY <2>2, <2>3, <2>4 DEF RowsStay, Exists, TypeOK
<1>3. CASE WriteAddRoles(q)
  <2>1. st \in AddRolesState
    BY <1>0, <1>3, StateOfHandler DEF WriteAddRoles, Doing
  <2>2. /\ InsertRoles(st.service, st.names, st.idps)
        /\ UNCHANGED <<service, association>>
    BY <1>3 DEF WriteAddRoles
  <2>3. st.service \in Services /\ st.names \in SUBSET RoleNames /\ st.idps \in Providers
    BY <2>1 DEF AddRolesState
  <2> HIDE DEF st
  <2>4. /\ role' \in [RoleIds -> RoleRow \union {NoRow}]
        /\ \A r \in RoleIds : role[r] # NoRow => role'[r] = role[r]
    BY <2>2, <2>3, InsertRolesEffect
  <2> QED
    BY <2>2, <2>4 DEF RowsStay, Exists, TypeOK
<1>4. CASE WriteRole(q)
  <2>1. st \in SaveRoleState /\ role[st.role] # NoRow
    BY <1>0, <1>4, StateOfHandler DEF WriteRole, Doing, Target, RoleOps
  <2>2. /\ role' = [role EXCEPT ![st.role] = WrittenRole(st)]
        /\ UNCHANGED <<service, association>>
    BY <1>4 DEF WriteRole, WrittenRole
  <2>3. /\ WrittenRole(st) \in RoleRow /\ st.role \in RoleIds
        /\ WrittenRole(st).service = role[st.role].service
    BY <2>1, WrittenRoleType DEF SaveRoleState
  <2> HIDE DEF st
  <2>4. WrittenRole(st) # NoRow
    BY <2>3, NoRowAssumption
  <2> QED
    BY <2>2, <2>3, <2>4 DEF RowsStay, Exists, TypeOK
<1>5. CASE WriteAssociation(q)
  <2>1. st \in AssociateState
    BY <1>0, <1>5, StateOfHandler DEF WriteAssociation, Doing
  <2>2. /\ association' = association \union {<<st.tenant, st.service>>}
        /\ UNCHANGED <<service, role>>
    BY <1>5 DEF WriteAssociation
  <2>3. st.tenant \in Tenants /\ st.service \in Services
    BY <2>1 DEF AssociateState
  <2> HIDE DEF st
  <2> QED
    BY <2>2, <2>3 DEF RowsStay, Exists, TypeOK
<1> QED
  BY <1>1, <1>2, <1>3, <1>4, <1>5 DEF Writes

LEMMA WritesFinish ==
    ASSUME CTypeOK, NEW q \in Requests, Writes(q)
    PROVE  /\ request' = [request EXCEPT ![q] = Idle]
           /\ overtaken' \subseteq Requests
           /\ q \notin overtaken'
           /\ overtaken \ {q} \subseteq overtaken'
BY DEF CTypeOK, Writes, WriteCreate, WriteService, WriteAddRoles, WriteRole,
       WriteAssociation, Commit

\* A target stays when rows stay.
LEMMA TargetStays ==
    ASSUME RowsStay, NEW st \in RequestState, Target(st)
    PROVE  Target(st)'
<1>1. st.op \in ServiceOps => st.service \in Services
  BY StateOfHandler DEF ServiceOps, UpdateState, SaveServiceState, AddRolesState,
     AssociateState
<1>2. st.op \in RoleOps => st.role \in RoleIds
  BY StateOfHandler DEF RoleOps, UpdateRoleState, SaveRoleState
<1> QED
  BY <1>1, <1>2 DEF Target, RowsStay

LEMMA IdleSound == Idle \in RequestState /\ Target(Idle) /\ Knows(Idle)
BY RequestStates DEF Idle, Target, Knows, ServiceOps, RoleOps

\* A step of q leaves it in a typed state with a target, and leaves the other
\* requests as they are.
LEMMA StepKeeps ==
    ASSUME CTypeOK, TargetsExist, CNext
    PROVE  /\ CTypeOK'
           /\ TargetsExist'
           /\ RowsStay
<1> USE DEF CTypeOK
<1>1. PICK q \in Requests : Begins(q) \/ Proceeds(q) \/ Writes(q) \/ Abort(q)
  BY StepsOfRequests
<1>2. Target(request[q])
  BY DEF TargetsExist
<1>3. \A p \in Requests : \A st : request[p] = st => st \in RequestState /\ Target(st)
  BY DEF TargetsExist
<1>4. ASSUME NEW st \in RequestState, Target(st), Becomes(q, st)
      PROVE  CTypeOK' /\ TargetsExist' /\ RowsStay
  <2>1. TypeOK' /\ RowsStay
    BY <1>4 DEF Becomes, tables, TypeOK, RowsStay, Exists
  <2>2. /\ request' = [request EXCEPT ![q] = st]
        /\ overtaken' \subseteq Requests
    BY <1>4 DEF Becomes
  <2>3. \A p \in Requests : \A x : request'[p] = x => x \in RequestState /\ Target(x)
    BY <1>3, <1>4, <2>2
  <2>4. TargetsExist'
    BY <2>1, <2>3, TargetStays DEF TargetsExist
  <2> QED
    BY <2>1, <2>2, <2>4
<1>5. CASE Begins(q)
  BY <1>4, <1>5, BeginsSound DEF Sound
<1>6. CASE Proceeds(q)
  BY <1>2, <1>4, <1>6, ProceedsSound
<1>7. CASE Abort(q)
  BY <1>4, <1>7, IdleSound DEF Abort
<1>8. CASE Writes(q)
  <2>1. TypeOK' /\ RowsStay
    BY <1>2, <1>8, WritesKeep
  <2>2. request' = [request EXCEPT ![q] = Idle] /\ overtaken' \subseteq Requests
    BY <1>8, WritesFinish
  <2>3. \A p \in Requests : \A x : request'[p] = x => x \in RequestState /\ Target(x)
    BY <1>3, <2>2, IdleSound
  <2>4. TargetsExist'
    BY <2>1, <2>3, TargetStays DEF TargetsExist
  <2>5. request' \in [Requests -> RequestState]
    BY <2>2, IdleSound
  <2> QED
    BY <2>1, <2>2, <2>4, <2>5
<1> QED
  BY <1>1, <1>5, <1>6, <1>7, <1>8

\* In every reachable state the rows and requests are what they should be, and
\* the service or role that a request in flight speaks of is there.
THEOREM OverlapTypeCorrect == CSpec => [](CTypeOK /\ TargetsExist)
<1>1. CInit => CTypeOK /\ TargetsExist
  BY IdleSound DEF CInit, Init, CTypeOK, TypeOK, TargetsExist
<1>2. CTypeOK /\ TargetsExist /\ [CNext]_vars => (CTypeOK /\ TargetsExist)'
  <2> SUFFICES ASSUME CTypeOK, TargetsExist, [CNext]_vars
               PROVE  (CTypeOK /\ TargetsExist)'
    OBVIOUS
  <2>1. CASE CNext
    BY <2>1, StepKeeps
  <2>2. CASE UNCHANGED vars
    BY <2>2 DEF vars, tables, CTypeOK, TypeOK, TargetsExist, Target, Exists
  <2> QED
    BY <2>1, <2>2
<1> QED
  BY <1>1, <1>2, PTL DEF CSpec

-----------------------------------------------------------------------------
(* The unique keys, and the roles of every service. *)

KeysApart ==
    \A s, other \in Services, c \in Columns :
        Exists(s) /\ Exists(other) /\ service[s].key[c] = service[other].key[c] =>
            s = other
NamesApart ==
    \A r, other \in RoleIds :
        /\ role[r] # NoRow /\ role[other] # NoRow
        /\ role[r].service = role[other].service
        /\ role[r].name = role[other].name
        => r = other

LEMMA InsertRolesKeepsNamesApart ==
    ASSUME TypeOK, NamesApart, NEW s \in Services, NEW names \in SUBSET RoleNames,
           NEW idps \in Providers, InsertRoles(s, names, idps)
    PROVE  NamesApart'
<1> SUFFICES ASSUME NEW r \in RoleIds, NEW other \in RoleIds,
                    role'[r] # NoRow, role'[other] # NoRow,
                    role'[r].service = role'[other].service,
                    role'[r].name = role'[other].name
             PROVE  r = other
  BY DEF NamesApart
<1>1. /\ \A x \in RoleIds : role[x] # NoRow => role'[x] = role[x]
      /\ \A x \in RoleIds : role[x] = NoRow /\ role'[x] # NoRow =>
            role'[x].service = s /\ role'[x].name \in names
      /\ \A x, y \in RoleIds :
            /\ role[x] = NoRow /\ role'[x] # NoRow
            /\ role[y] = NoRow /\ role'[y] # NoRow
            /\ role'[x].name = role'[y].name
            => x = y
  BY InsertRolesEffect
<1>2. \A x \in RoleIds, name \in names :
        role[x] # NoRow /\ role[x].service = s => role[x].name # name
  BY DEF InsertRoles, RoleNamed, RolesOf
<1>3. CASE role[r] # NoRow /\ role[other] # NoRow
  BY <1>1, <1>3 DEF NamesApart
<1>4. CASE role[r] # NoRow /\ role[other] = NoRow
  BY <1>1, <1>2, <1>4
<1>5. CASE role[r] = NoRow /\ role[other] # NoRow
  BY <1>1, <1>2, <1>5
<1>6. CASE role[r] = NoRow /\ role[other] = NoRow
  BY <1>1, <1>6
<1> QED
  BY <1>3, <1>4, <1>5, <1>6

\* A row written under the unique keys differs from the other services' in them.
LEMMA UniqueKeysKeepApart ==
    ASSUME TypeOK, KeysApart, NEW s \in Services, NEW row \in ServiceRow,
           UniqueKeys(s, row.key), service' = [service EXCEPT ![s] = row]
    PROVE  KeysApart'
<1>1. \A other \in Services \ {s} : service'[other] = service[other]
  BY DEF TypeOK
<1>2. service'[s] = row
  BY DEF TypeOK
<1>3. \A other \in Services \ {s}, c \in Columns :
        Exists(other) => service[other].key[c] # row.key[c]
  BY DEF UniqueKeys, TakenByOther
<1> QED
  BY <1>1, <1>2, <1>3 DEF KeysApart, Exists

LEMMA WritesKeepApart ==
    ASSUME CTypeOK, NEW q \in Requests, Target(request[q]), KeysApart, NamesApart, Writes(q)
    PROVE  KeysApart' /\ NamesApart'
<1> USE DEF CTypeOK
<1> DEFINE st == request[q]
<1>0. st \in RequestState
  OBVIOUS
<1>1. service' = service => KeysApart'
  BY DEF KeysApart, Exists
<1>2. role' = role => NamesApart'
  BY DEF NamesApart
<1>3. ASSUME NEW s \in Services, WriteCreate(q, s)
      PROVE  KeysApart' /\ NamesApart'
  <2>1. /\ st.row \in ServiceRow /\ st.names \in SUBSET RoleNames
        /\ st.idps \in Providers
    BY <1>0, <1>3, StateOfHandler DEF WriteCreate, Doing, CreateState
  <2>2. /\ UniqueKeys(s, st.row.key)
        /\ service' = [service EXCEPT ![s] = st.row]
        /\ InsertRoles(s, st.names, st.idps)
    BY <1>3 DEF WriteCreate
  <2> HIDE DEF st
  <2> QED
    BY <2>1, <2>2, UniqueKeysKeepApart, InsertRolesKeepsNamesApart
<1>4. CASE WriteService(q)
  <2>1. st \in SaveServiceState /\ Exists(st.service)
    BY <1>0, <1>4, StateOfHandler DEF WriteService, Doing, Target, ServiceOps
  <2>2. /\ UniqueKeys(st.service, WrittenRow(st).key)
        /\ service' = [service EXCEPT ![st.service] = WrittenRow(st)]
        /\ role' = role
    BY <1>4 DEF WriteService, WrittenRow
  <2>3. WrittenRow(st) \in ServiceRow /\ st.service \in Services
    BY <2>1, WrittenRowType DEF SaveServiceState
  <2> HIDE DEF st
  <2> QED
    BY <1>2, <2>2, <2>3, UniqueKeysKeepApart
<1>5. CASE WriteAddRoles(q)
  <2>1. /\ st.service \in Services /\ st.names \in SUBSET RoleNames
        /\ st.idps \in Providers
    BY <1>0, <1>5, StateOfHandler DEF WriteAddRoles, Doing, AddRolesState
  <2>2. InsertRoles(st.service, st.names, st.idps) /\ service' = service
    BY <1>5 DEF WriteAddRoles
  <2> HIDE DEF st
  <2> QED
    BY <1>1, <2>1, <2>2, InsertRolesKeepsNamesApart
<1>6. CASE WriteRole(q)
  <2>1. st \in SaveRoleState /\ role[st.role] # NoRow
    BY <1>0, <1>6, StateOfHandler DEF WriteRole, Doing, Target, RoleOps
  <2>2. PICK r \in RoleIds : r = st.role
    BY <2>1 DEF SaveRoleState
  <2>3. PICK written : written = WrittenRole(st)
    OBVIOUS
  <2>4. /\ role' = [role EXCEPT ![r] = written]
        /\ \A other \in RolesOf(written.service) \ {r} : role[other].name # written.name
        /\ service' = service
    BY <1>6, <2>2, <2>3 DEF WriteRole, WrittenRole
  <2>5. \A other \in RoleIds \ {r} :
          role[other] # NoRow /\ role[other].service = written.service
            => role[other].name # written.name
    BY <2>4 DEF RolesOf
  <2>6. /\ role'[r] = written
        /\ \A other \in RoleIds \ {r} : role'[other] = role[other]
    BY <2>4 DEF TypeOK
  <2>7. NamesApart'
    BY <2>5, <2>6 DEF NamesApart
  <2> QED
    BY <1>1, <2>4, <2>7
<1>7. CASE WriteAssociation(q)
  BY <1>1, <1>2, <1>7 DEF WriteAssociation
<1> QED
  BY <1>3, <1>4, <1>5, <1>6, <1>7 DEF Writes

\* However many requests overlap, no two services ever share a name, a display
\* name or a client identifier, and no two roles of a service share a name: what
\* the handlers check before they write may be out of date, the keys are not.
THEOREM KeysKeptApart == CSpec => []NoTwoAlike
<1>1. CInit => KeysApart /\ NamesApart
  BY DEF CInit, Init, KeysApart, NamesApart, Exists
<1>2. (CTypeOK /\ TargetsExist) /\ (KeysApart /\ NamesApart) /\ [CNext]_vars
        => (KeysApart /\ NamesApart)'
  <2> SUFFICES ASSUME CTypeOK, TargetsExist, KeysApart, NamesApart, [CNext]_vars
               PROVE  KeysApart' /\ NamesApart'
    OBVIOUS
  <2>1. UNCHANGED tables => KeysApart' /\ NamesApart'
    BY DEF tables, KeysApart, NamesApart, Exists
  <2>2. CASE CNext
    <3>1. PICK q \in Requests : Begins(q) \/ Proceeds(q) \/ Writes(q) \/ Abort(q)
      BY <2>2, StepsOfRequests
    <3>2. Target(request[q])
      BY DEF TargetsExist
    <3>3. Begins(q) \/ Proceeds(q) \/ Abort(q) => UNCHANGED tables
      BY <3>2, BeginsSound, ProceedsSound DEF Becomes, Abort
    <3> QED
      BY <2>1, <3>1, <3>2, <3>3, WritesKeepApart
  <2>3. CASE UNCHANGED vars
    BY <2>1, <2>3 DEF vars
  <2> QED
    BY <2>2, <2>3
<1>3. KeysApart /\ NamesApart => NoTwoAlike
  BY DEF KeysApart, NamesApart, NoTwoAlike
<1> QED
  BY <1>1, <1>2, <1>3, OverlapTypeCorrect, PTL DEF CSpec

LEMMA ServicesLoadStays ==
    ASSUME CTypeOK, NEW q \in Requests, Target(request[q]), ServicesLoad, Writes(q)
    PROVE  ServicesLoad'
<1> USE DEF CTypeOK
<1> DEFINE st == request[q]
<1>0. st \in RequestState /\ TypeOK' /\ RowsStay
  BY WritesKeep
<1>1. \A s \in Services : Exists(s) => RolesOf(s)' # {}
  <2> SUFFICES ASSUME NEW s \in Services, Exists(s)
               PROVE  RolesOf(s)' # {}
    OBVIOUS
  <2>1. PICK r \in RoleIds : role[r] # NoRow /\ role[r].service = s
    BY DEF ServicesLoad, RolesOf
  <2> QED
    BY <1>0, <2>1 DEF RowsStay, RolesOf
<1>2. \A x \in association : Exists(x[2])'
  <2> SUFFICES ASSUME NEW x \in association
               PROVE  Exists(x[2])'
    OBVIOUS
  <2>1. x[2] \in Services
    BY DEF TypeOK
  <2> QED
    BY <1>0, <2>1 DEF ServicesLoad, RowsStay
\* It is enough that new services have roles and new roles and associations
\* are of services that are there.
<1>3. ASSUME \A s \in Services : ~Exists(s) /\ Exists(s)' => RolesOf(s)' # {},
             \A r \in RoleIds : role[r] = NoRow /\ role'[r] # NoRow =>
                 service'[role'[r].service] # NoRow,
             \A x \in association' : x \in association \/ Exists(x[2])'
      PROVE  ServicesLoad'
  <2>1. \A r \in RoleIds : role'[r] # NoRow => service'[role'[r].service] # NoRow
    <3> SUFFICES ASSUME NEW r \in RoleIds, role[r] # NoRow
                 PROVE  service'[role[r].service] # NoRow
      BY <1>0, <1>3 DEF RowsStay
    <3>1. role[r].service \in Services
      BY DEF TypeOK, RoleRow
    <3>2. r \in RolesOf(role[r].service)
      BY DEF RolesOf
    <3> QED
      BY <1>0, <3>1, <3>2 DEF ServicesLoad, RowsStay, Exists
  <2>2. \A s \in Services : RolesOf(s)' # {} => Exists(s)'
    BY <2>1 DEF RolesOf, Exists
  <2>3. \A s \in Services : Exists(s)' => RolesOf(s)' # {}
    BY <1>1, <1>3
  <2>4. \A x \in association' : Exists(x[2])'
    BY <1>2, <1>3
  <2> QED
    BY <2>2, <2>3, <2>4 DEF ServicesLoad
<1>4. ASSUME NEW s \in Services, WriteCreate(q, s)
      PROVE  ServicesLoad'
  <2>1. /\ st.row \in ServiceRow /\ st.names \in SUBSET RoleNames
        /\ st.idps \in Providers /\ st.names # {}
    BY <1>0, <1>4, StateOfHandler DEF WriteCreate, Doing, CreateState, Target
  <2>2. /\ service' = [service EXCEPT ![s] = st.row]
        /\ InsertRoles(s, st.names, st.idps)
        /\ association' = association
    BY <1>4 DEF WriteCreate
  <2> HIDE DEF st
  <2>3. Exists(s)' /\ \A x \in Services \ {s} : service'[x] = service[x]
    BY <2>1, <2>2, NoRowAssumption DEF Exists, TypeOK
  <2>4. \A r \in RoleIds : role[r] = NoRow /\ role'[r] # NoRow => role'[r].service = s
    BY <2>1, <2>2, InsertRolesEffect
  <2>5. RolesOf(s)' # {}
    <3>1. \E r \in RoleIds : role'[r] # NoRow /\ role'[r].service = s
      BY <2>1, <2>2, InsertRolesEffect
    <3> QED
      BY <3>1 DEF RolesOf
  <2>6. \A x \in Services : ~Exists(x) /\ Exists(x)' => x = s
    BY <2>3 DEF Exists
  <2>7. \A r \in RoleIds : role[r] = NoRow /\ role'[r] # NoRow =>
          service'[role'[r].service] # NoRow
    BY <2>3, <2>4 DEF Exists
  <2> QED
    BY <1>3, <2>2, <2>5, <2>6, <2>7
<1>5. CASE WriteService(q)
  <2>1. Exists(st.service) /\ st.service \in Services
    BY <1>0, <1>5, StateOfHandler
       DEF WriteService, Doing, Target, ServiceOps, SaveServiceState
  <2>2. \A x \in Services \ {st.service} : service'[x] = service[x]
    BY <1>5 DEF WriteService, TypeOK
  <2>3. role' = role /\ association' = association
    BY <1>5 DEF WriteService
  <2>4. \A x \in Services : ~Exists(x) => ~Exists(x)'
    BY <2>1, <2>2 DEF Exists
  <2> QED
    BY <1>3, <2>3, <2>4
<1>6. CASE WriteAddRoles(q)
  <2>1. /\ st.service \in Services /\ st.names \in SUBSET RoleNames
        /\ st.idps \in Providers /\ Exists(st.service)
    BY <1>0, <1>6, StateOfHandler DEF WriteAddRoles, Doing, AddRolesState, Target, ServiceOps
  <2>2. /\ InsertRoles(st.service, st.names, st.idps)
        /\ service' = service /\ association' = association
    BY <1>6 DEF WriteAddRoles
  <2> HIDE DEF st
  <2>3. \A r \in RoleIds :
          role[r] = NoRow /\ role'[r] # NoRow => role'[r].service = st.service
    BY <2>1, <2>2, InsertRolesEffect
  <2>4. \A x \in Services : Exists(x)' <=> Exists(x)
    BY <2>2 DEF Exists
  <2>5. \A r \in RoleIds : role[r] = NoRow /\ role'[r] # NoRow =>
          service'[role'[r].service] # NoRow
    BY <2>1, <2>2, <2>3 DEF Exists
  <2> QED
    BY <1>3, <2>2, <2>4, <2>5
<1>7. CASE WriteRole(q)
  <2>1. role[st.role] # NoRow
    BY <1>0, <1>7, StateOfHandler DEF WriteRole, Doing, Target, RoleOps
  <2>2. /\ \A r \in RoleIds \ {st.role} : role'[r] = role[r]
        /\ service' = service /\ association' = association
    BY <1>7 DEF WriteRole, TypeOK
  <2>3. \A x \in Services : Exists(x)' <=> Exists(x)
    BY <2>2 DEF Exists
  <2> QED
    BY <1>3, <2>1, <2>2, <2>3
<1>8. CASE WriteAssociation(q)
  <2>1. st.service \in Services /\ Exists(st.service)
    BY <1>0, <1>8, StateOfHandler DEF WriteAssociation, Doing, AssociateState, Target, ServiceOps
  <2>2. /\ association' = association \union {<<st.tenant, st.service>>}
        /\ service' = service /\ role' = role
    BY <1>8 DEF WriteAssociation
  <2>3. \A x : Exists(x)' <=> Exists(x)
    BY <2>2 DEF Exists
  <2>4. \A x \in association' : x \in association \/ Exists(x[2])'
    BY <2>1, <2>2, <2>3
  <2> QED
    BY <1>3, <2>2, <2>3, <2>4
<1> QED
  BY <1>4, <1>5, <1>6, <1>7, <1>8 DEF Writes

\* Every service has a role, and every role and association a service, however
\* requests overlap: so the load that ends an update never fails.
THEOREM ServicesKeepLoading == CSpec => []ServicesLoad
<1>1. CInit => ServicesLoad
  BY DEF CInit, Init, ServicesLoad, RolesOf, Exists
<1>2. (CTypeOK /\ TargetsExist) /\ ServicesLoad /\ [CNext]_vars => ServicesLoad'
  <2> SUFFICES ASSUME CTypeOK, TargetsExist, ServicesLoad, [CNext]_vars
               PROVE  ServicesLoad'
    OBVIOUS
  <2>1. UNCHANGED tables => ServicesLoad'
    BY DEF tables, ServicesLoad, RolesOf, Exists
  <2>2. CASE CNext
    <3>1. PICK q \in Requests : Begins(q) \/ Proceeds(q) \/ Writes(q) \/ Abort(q)
      BY <2>2, StepsOfRequests
    <3>2. Target(request[q])
      BY DEF TargetsExist
    <3>3. Begins(q) \/ Proceeds(q) \/ Abort(q) => UNCHANGED tables
      BY <3>2, BeginsSound, ProceedsSound DEF Becomes, Abort
    <3> QED
      BY <2>1, <3>1, <3>2, <3>3, ServicesLoadStays
  <2>3. CASE UNCHANGED vars
    BY <2>1, <2>3 DEF vars
  <2> QED
    BY <2>2, <2>3
<1> QED
  BY <1>1, <1>2, OverlapTypeCorrect, PTL DEF CSpec

-----------------------------------------------------------------------------
(* A request that nothing overtook does what its handler does alone. *)

\* What is known of a row stays known while the row stays as it is.
LEMMA KnowsStays ==
    ASSUME NEW st, Knows(st),
           st.op \in ServiceOps => service'[st.service] = service[st.service],
           st.op \in RoleOps => role'[st.role] = role[st.role]
    PROVE  Knows(st)'
<1>1. st.op \in {"addRoles", "associate"} => IsActive(st.service)'
  BY DEF Knows, ServiceOps, IsActive, Exists
<1>2. st.op \in {"update", "saveService"} => RowMeant(st)'
  BY DEF Knows, ServiceOps, RowMeant
<1>3. st.op = "saveService" => st.changed = Differing(st.row, service'[st.service])
  BY DEF Knows, ServiceOps
<1>4. st.op \in RoleOps => RoleMeant(st)'
  BY DEF Knows, RoleMeant
<1>5. st.op = "saveRole" =>
        st.changed = {c \in {"name", "idps"} : st.row[c] # role'[st.role][c]}
  BY DEF Knows, RoleOps
<1> QED
  BY <1>1, <1>2, <1>3, <1>4, <1>5 DEF Knows

\* A write overtakes whoever has read the row it changes.
LEMMA WritesOvertake ==
    ASSUME CTypeOK, NEW q \in Requests, Target(request[q]), Writes(q),
           NEW p \in Requests \ overtaken', p # q, Target(request[p])
    PROVE  /\ request[p].op \in ServiceOps =>
                service'[request[p].service] = service[request[p].service]
           /\ request[p].op \in RoleOps =>
                role'[request[p].role] = role[request[p].role]
<1> USE DEF CTypeOK
<1> DEFINE st == request[p]
<1>0. /\ st \in RequestState /\ request[q] \in RequestState
      /\ st.op \in ServiceOps => st.service \in Services /\ service[st.service] # NoRow
      /\ st.op \in RoleOps => st.role \in RoleIds /\ role[st.role] # NoRow
  BY StateOfHandler DEF Target, Exists, ServiceOps, RoleOps, UpdateState, SaveServiceState,
     AddRolesState, AssociateState, UpdateRoleState, SaveRoleState
<1>1. st.op \in ServiceOps => "service" \in DOMAIN st
  BY <1>0, StateOfHandler
     DEF ServiceOps, UpdateState, SaveServiceState, AddRolesState, AssociateState
<1>2. st.op \in RoleOps => "role" \in DOMAIN st
  BY <1>0, StateOfHandler DEF RoleOps, UpdateRoleState, SaveRoleState
<1>3. ASSUME NEW s \in Services, NEW names \in SUBSET RoleNames, NEW idps \in Providers,
             InsertRoles(s, names, idps)
      PROVE  st.op \in RoleOps => role'[st.role] = role[st.role]
  BY <1>0, <1>3, InsertRolesEffect
<1>4. ASSUME NEW s \in Services, WriteCreate(q, s)
      PROVE  /\ st.op \in ServiceOps => service'[st.service] = service[st.service]
             /\ st.op \in RoleOps => role'[st.role] = role[st.role]
  <2>1. request[q].names \in SUBSET RoleNames /\ request[q].idps \in Providers
    BY <1>0, <1>4, StateOfHandler DEF WriteCreate, Doing, CreateState
  <2>2. InsertRoles(s, request[q].names, request[q].idps)
    BY <1>4 DEF WriteCreate
  <2>3. \A x \in Services : service[x] # NoRow => service'[x] = service[x]
    BY <1>4 DEF WriteCreate, Exists, TypeOK
  <2> QED
    BY <1>0, <1>3, <2>1, <2>2, <2>3
<1>5. CASE WriteService(q)
  <2>1. ~HasRead(p, "service", request[q].service)
    BY <1>5 DEF WriteService, Commit
  <2>2. \A x \in Services \ {request[q].service} : service'[x] = service[x]
    BY <1>5 DEF WriteService, TypeOK
  <2>3. role' = role
    BY <1>5 DEF WriteService
  <2> QED
    BY <1>0, <1>1, <2>1, <2>2, <2>3 DEF HasRead
<1>6. CASE WriteAddRoles(q)
  <2>1. /\ request[q].service \in Services /\ request[q].names \in SUBSET RoleNames
        /\ request[q].idps \in Providers
    BY <1>0, <1>6, StateOfHandler DEF WriteAddRoles, Doing, AddRolesState
  <2>2. /\ InsertRoles(request[q].service, request[q].names, request[q].idps)
        /\ service' = service
    BY <1>6 DEF WriteAddRoles
  <2> QED
    BY <1>3, <2>1, <2>2
<1>7. CASE WriteRole(q)
  <2>1. ~HasRead(p, "role", request[q].role)
    BY <1>7 DEF WriteRole, Commit
  <2>2. \A x \in RoleIds \ {request[q].role} : role'[x] = role[x]
    BY <1>7 DEF WriteRole, TypeOK
  <2>3. service' = service
    BY <1>7 DEF WriteRole
  <2> QED
    BY <1>0, <1>2, <2>1, <2>2, <2>3 DEF HasRead
<1>8. CASE WriteAssociation(q)
  BY <1>8 DEF WriteAssociation
<1> QED
  BY <1>4, <1>5, <1>6, <1>7, <1>8 DEF Writes

LEMMA StepKeepsKnowledge ==
    ASSUME CTypeOK, TargetsExist, FreshKnows, CNext
    PROVE  FreshKnows'
<1>1. PICK q \in Requests : Begins(q) \/ Proceeds(q) \/ Writes(q) \/ Abort(q)
  BY StepsOfRequests
<1>2. Target(request[q]) /\ request \in [Requests -> RequestState]
  BY DEF TargetsExist, CTypeOK
<1>3. \A p \in Requests \ overtaken : \A st : request[p] = st => Knows(st)
  BY DEF FreshKnows
\* A request that reads changes no row.
<1>4. ASSUME NEW st, Becomes(q, st), q \in overtaken \/ Knows(st), st # Idle
      PROVE  FreshKnows'
  <2>1. overtaken' = overtaken /\ request' = [request EXCEPT ![q] = st]
        /\ UNCHANGED tables
    BY <1>4 DEF Becomes
  <2>2. \A x : Knows(x) => Knows(x)'
    BY <2>1, KnowsStays DEF tables
  <2>3. \A p \in Requests \ overtaken' : \A x : request'[p] = x => Knows(x)
    BY <1>2, <1>3, <1>4, <2>1
  <2> QED
    BY <2>2, <2>3 DEF FreshKnows
<1>5. CASE Begins(q)
  BY <1>4, <1>5, BeginsSound DEF Sound, CTypeOK
<1>6. CASE Proceeds(q)
  <2>1. q \in overtaken \/ Knows(request[q])
    BY <1>3
  <2> QED
    BY <1>2, <1>4, <1>6, <2>1, ProceedsSound
<1>7. CASE Abort(q)
  <2>1. overtaken' = overtaken \ {q} /\ request' = [request EXCEPT ![q] = Idle]
        /\ UNCHANGED tables
    BY <1>7 DEF Abort, Becomes
  <2>2. \A x : Knows(x) => Knows(x)'
    BY <2>1, KnowsStays DEF tables
  <2>3. \A p \in Requests \ overtaken' : \A x : request'[p] = x => Knows(x)
    BY <1>2, <1>3, <2>1, IdleSound
  <2> QED
    BY <2>2, <2>3 DEF FreshKnows
<1>8. CASE Writes(q)
  <2>1. /\ request' = [request EXCEPT ![q] = Idle]
        /\ overtaken \ {q} \subseteq overtaken'
    BY <1>8, WritesFinish
  <2> SUFFICES ASSUME NEW p \in Requests \ overtaken', NEW st, request'[p] = st
               PROVE  Knows(st)'
    BY DEF FreshKnows
  <2>2. CASE p = q
    <3>1. st = Idle
      BY <1>2, <2>1, <2>2
    <3> QED
      BY <3>1 DEF Knows, Idle, RoleOps
  <2>3. CASE p # q
    <3>1. st = request[p] /\ p \notin overtaken
      BY <1>2, <2>1, <2>3
    <3>2. Knows(st) /\ Target(request[p])
      BY <1>3, <3>1 DEF TargetsExist
    <3>3. /\ st.op \in ServiceOps => service'[st.service] = service[st.service]
          /\ st.op \in RoleOps => role'[st.role] = role[st.role]
      BY <1>2, <1>8, <2>3, <3>1, <3>2, WritesOvertake
    <3> QED
      BY <3>2, <3>3, KnowsStays
  <2> QED
    BY <2>2, <2>3
<1> QED
  BY <1>1, <1>5, <1>6, <1>7, <1>8

\* Written on the row it was made from, the columns in which they differ make
\* the row that was handed to save.
LEMMA WrittenAsMeant ==
    ASSUME NEW st, st.row \in ServiceRow, service[st.service] \in ServiceRow,
           st.changed = Differing(st.row, service[st.service])
    PROVE  WrittenRow(st) = st.row
BY DEF WrittenRow, Differing, ServiceRow, Key

LEMMA WrittenRoleAsMeant ==
    ASSUME NEW st, st.row \in RoleRow, role[st.role] \in RoleRow,
           st.changed = {c \in {"name", "idps"} : st.row[c] # role[st.role][c]},
           RoleMeant(st)
    PROVE  WrittenRole(st) = st.row
<1>1. st.row.service = role[st.role].service
  BY UpdatedRoleType DEF RoleMeant
<1>2. DOMAIN WrittenRole(st) = {"service", "name", "idps"}
  BY DEF WrittenRole, RoleRow
<1>3. \A c \in {"service", "name", "idps"} : WrittenRole(st)[c] = st.row[c]
  BY <1>1 DEF WrittenRole, RoleRow
<1>4. WrittenRole(st) \in RoleRow
  BY <1>1, <1>3 DEF WrittenRole, RoleRow
<1> QED
  BY <1>3, <1>4 DEF RoleRow

LEMMA WriteIsSerial ==
    ASSUME CTypeOK, NEW q \in Requests, Target(request[q]), Knows(request[q]), Writes(q)
    PROVE  Next
<1> USE DEF CTypeOK
<1>0. PICK st : st = request[q]
  OBVIOUS
<1>1. st \in RequestState /\ Target(st) /\ Knows(st)
  BY <1>0
<1>2. ASSUME NEW s \in Services, WriteCreate(q, s)
      PROVE  Next
  <2>1. st \in CreateState /\ st.names # {}
    BY <1>0, <1>1, <1>2, StateOfHandler DEF WriteCreate, Doing, Target
  <2>2. /\ st.row \in ServiceRow /\ st.names \in RolesInBody /\ st.idps \in Providers
    BY <2>1 DEF CreateState, RolesInBody
  <2>3. CreateSharedService(s, st.row, st.names, st.idps)
    BY <1>0, <1>2 DEF WriteCreate, CreateSharedService
  <2> QED
    BY <2>2, <2>3 DEF Next
<1>3. CASE WriteService(q)
  <2>1. st \in SaveServiceState /\ st.op = "saveService"
    BY <1>0, <1>1, <1>3, StateOfHandler DEF WriteService, Doing
  <2>2. PICK s \in Services : s = st.service
    BY <2>1 DEF SaveServiceState
  <2>3. PICK current : current = service[s]
    OBVIOUS
  <2>4. Exists(s) /\ current \in ServiceRow /\ st.row \in ServiceRow
    BY <1>1, <2>1, <2>2, <2>3 DEF Target, ServiceOps, Exists, TypeOK, SaveServiceState
  <2>5. WrittenRow(st) = st.row
    BY <1>1, <2>1, <2>2, <2>3, <2>4, WrittenAsMeant DEF Knows
  <2>6. /\ UniqueKeys(s, st.row.key)
        /\ RolesOf(s) # {}
        /\ service' = [service EXCEPT ![s] = st.row]
        /\ UNCHANGED <<role, association>>
    BY <1>0, <1>3, <2>2, <2>5 DEF WriteService, WrittenRow
  <2>7. ASSUME NEW fields \in ColumnsInBody, st.row = UpdatedRow(current, fields)
        PROVE  Next
    <3>1. \A c \in Columns : fields[c] # NoRow => st.row.key[c] = fields[c]
      BY <2>4, <2>7 DEF UpdatedRow, Overlay, OrElse, ServiceRow
    <3>2. UpdateSharedService(s, fields)
      BY <2>3, <2>4, <2>6, <2>7, <3>1 DEF UpdateSharedService, UniqueKeys
    <3> QED
      BY <3>2 DEF Next
  <2>8. ASSUME NEW isActive \in BOOLEAN, current.isActive # isActive,
               st.row = [current EXCEPT !.isActive = isActive]
        PROVE  Next
    <3>1. UpdateSharedServiceStatus(s, isActive)
      BY <2>3, <2>4, <2>6, <2>8 DEF UpdateSharedServiceStatus
    <3> QED
      BY <3>1 DEF Next
  <2> QED
    BY <1>1, <2>1, <2>2, <2>3, <2>7, <2>8 DEF Knows, RowMeant
<1>4. CASE WriteAddRoles(q)
  <2>1. st \in AddRolesState /\ st.names # {} /\ IsActive(st.service)
    BY <1>0, <1>1, <1>4, StateOfHandler DEF WriteAddRoles, Doing, Target, Knows
  <2>2. /\ st.service \in Services /\ st.names \in RolesInBody /\ st.idps \in Providers
    BY <2>1 DEF AddRolesState, RolesInBody
  <2>3. AddSharedServiceRoles(st.service, st.names, st.idps)
    BY <1>0, <1>4, <2>1 DEF WriteAddRoles, AddSharedServiceRoles
  <2> QED
    BY <2>2, <2>3 DEF Next
<1>5. CASE WriteRole(q)
  <2>1. st \in SaveRoleState /\ st.op = "saveRole"
    BY <1>0, <1>1, <1>5, StateOfHandler DEF WriteRole, Doing
  <2>2. PICK r \in RoleIds : r = st.role
    BY <2>1 DEF SaveRoleState
  <2>3. PICK current : current = role[r]
    OBVIOUS
  <2>4. current # NoRow /\ current \in RoleRow /\ st.row \in RoleRow
    BY <1>1, <2>1, <2>2, <2>3 DEF Target, RoleOps, TypeOK, SaveRoleState
  <2>5. RoleMeant(st)
    BY <1>1, <2>1 DEF Knows, RoleOps
  <2>6. WrittenRole(st) = st.row
    BY <1>1, <2>1, <2>2, <2>3, <2>4, <2>5, WrittenRoleAsMeant DEF Knows
  <2>7. /\ \A other \in RolesOf(st.row.service) \ {r} : role[other].name # st.row.name
        /\ role' = [role EXCEPT ![r] = st.row]
        /\ UNCHANGED <<service, association>>
    BY <1>0, <1>5, <2>2, <2>6 DEF WriteRole, WrittenRole
  <2>8. PICK name \in RoleNames \union {NoRow}, idps \in Providers \union {NoRow} :
          st.row = UpdatedRole(current, name, idps)
    BY <2>2, <2>3, <2>5 DEF RoleMeant
  <2>9. st.row.service = current.service /\ st.row.name = OrElse(name, current.name)
    BY <2>4, <2>8, UpdatedRoleType
  <2>10. \A other \in RolesOf(current.service) \ {r} : role[other].name # name
    <3> SUFFICES ASSUME NEW other \in RolesOf(current.service) \ {r}
                 PROVE  role[other].name # name
      OBVIOUS
    <3>1. role[other].name # OrElse(name, current.name)
      BY <2>7, <2>9
    <3>2. role[other].name \in RoleNames
      BY DEF RolesOf, TypeOK, RoleRow
    <3> QED
      BY <3>1, <3>2, NoRowAssumption DEF OrElse
  <2>11. UpdateSharedServiceRole(r, name, idps)
    BY <2>3, <2>4, <2>7, <2>8, <2>10 DEF UpdateSharedServiceRole
  <2> QED
    BY <2>11 DEF Next
<1>6. CASE WriteAssociation(q)
  <2>1. st \in AssociateState /\ IsActive(st.service)
    BY <1>0, <1>1, <1>6, StateOfHandler DEF WriteAssociation, Doing, Knows
  <2>2. st.service \in Services /\ st.tenant \in Tenants
    BY <2>1 DEF AssociateState
  <2>3. AssociateSharedServiceToTenant(st.tenant, st.service)
    BY <1>0, <1>6, <2>1 DEF WriteAssociation, AssociateSharedServiceToTenant
  <2> QED
    BY <2>2, <2>3 DEF Next
<1> QED
  BY <1>2, <1>3, <1>4, <1>5, <1>6 DEF Writes

\* However many requests are in flight, one whose row nobody changed since it
\* was read has the effect of its handler run alone, save included: the columns
\* written are the ones meant.
THEOREM SerialWhenNotOvertaken == CSpec => SerialUnlessOvertaken
<1>1. CInit => FreshKnows
  BY IdleSound DEF CInit, FreshKnows
<1>2. (CTypeOK /\ TargetsExist) /\ FreshKnows /\ [CNext]_vars => FreshKnows'
  <2>1. UNCHANGED vars => (FreshKnows => FreshKnows')
    <3> SUFFICES ASSUME UNCHANGED vars, FreshKnows
                 PROVE  FreshKnows'
      OBVIOUS
    <3>1. \A x : Knows(x) => Knows(x)'
      BY KnowsStays DEF vars, tables
    <3> QED
      BY <3>1 DEF vars, FreshKnows
  <2> QED
    BY <2>1, StepKeepsKnowledge
<1>3. (CTypeOK /\ TargetsExist) /\ FreshKnows /\ [CNext]_vars
        => [(\E q \in overtaken : ~Free(q) /\ Free(q)') \/ Next]_tables
  <2> SUFFICES ASSUME CTypeOK, TargetsExist, FreshKnows, CNext
               PROVE  \/ (\E q \in overtaken : ~Free(q) /\ Free(q)')
                      \/ Next
                      \/ UNCHANGED tables
    BY DEF vars, tables
  <2>1. PICK q \in Requests : Begins(q) \/ Proceeds(q) \/ Writes(q) \/ Abort(q)
    BY StepsOfRequests
  <2>2. Target(request[q]) /\ request \in [Requests -> RequestState]
    BY DEF TargetsExist, CTypeOK
  <2>3. Begins(q) \/ Proceeds(q) \/ Abort(q) => UNCHANGED tables
    BY <2>2, BeginsSound, ProceedsSound DEF Becomes, Abort
  <2>4. CASE Writes(q) /\ q \notin overtaken
    <3>1. Knows(request[q])
      BY <2>4 DEF FreshKnows
    <3> QED
      BY <2>2, <2>4, <3>1, WriteIsSerial
  <2>5. CASE Writes(q) /\ q \in overtaken
    <3>1. Free(q)'
      BY <2>2, <2>5, WritesFinish DEF Free
    <3>2. request[q].op # "idle"
      BY <2>5 DEF Writes, WriteCreate, WriteService, WriteAddRoles, WriteRole,
         WriteAssociation, Doing
    <3>3. ~Free(q)
      BY <3>2 DEF Free, Idle
    <3> QED
      BY <2>5, <3>1, <3>3
  <2> QED
    BY <2>1, <2>3, <2>4, <2>5
<1> QED
  BY <1>1, <1>2, <1>3, OverlapTypeCorrect, PTL DEF CSpec, SerialUnlessOvertaken

-----------------------------------------------------------------------------
(* One request at a time. *)

\* With one request there is nobody to overtake it.
LEMMA NobodyOvertakes ==
    ASSUME NEW c, Requests = {c}, overtaken = {}, [CNext]_vars
    PROVE  overtaken' = {}
<1>1. \A st : Becomes(c, st) => overtaken' = {}
  BY DEF Becomes
<1>2. \A field, id : Commit(c, field, id) => overtaken' = {}
  BY DEF Commit
<1>3. CASE UNCHANGED vars
  BY <1>3 DEF vars
<1>4. CASE CNext
  <2>1. Begins(c) \/ Proceeds(c) \/ Writes(c) \/ Abort(c)
    BY <1>4, StepsOfRequests
  <2>2. Begins(c) => overtaken' = {}
    BY <1>1 DEF Begins, StartCreate, StartUpdate, StartStatus, StartAddRoles, StartUpdateRole,
       StartAssociate
  <2>3. Proceeds(c) \/ Abort(c) => overtaken' = {}
    BY <1>1 DEF Proceeds, CheckColumn, SaveService, CheckRoleName, CheckNewName, SaveRole,
       CheckAssociation, Abort
  <2>4. Writes(c) => overtaken' = {}
    BY <1>2 DEF Writes, WriteCreate, WriteService, WriteAddRoles, WriteRole, WriteAssociation
  <2> QED
    BY <2>1, <2>2, <2>3, <2>4
<1> QED
  BY <1>3, <1>4

\* Where one request is handled at a time, the handlers query by query, each
\* save with the reading and writing of its own, do what they do in one step.
THEOREM OneRequestIsSerial ==
    ASSUME NEW c, Requests = {c}
    PROVE  CSpec => Spec
<1>1. CInit => Init /\ overtaken = {}
  BY DEF CInit
<1>2. overtaken = {} /\ [CNext]_vars => (overtaken = {})'
  BY NobodyOvertakes
<1>3. CSpec => [](overtaken = {})
  BY <1>1, <1>2, PTL DEF CSpec
<1>4. overtaken = {} /\ [(\E q \in overtaken : ~Free(q) /\ Free(q)') \/ Next]_tables
        => [Next]_tables
  OBVIOUS
<1> QED
  BY <1>1, <1>3, <1>4, SerialWhenNotOvertaken, PTL DEF CSpec, Spec, SerialUnlessOvertaken
====
