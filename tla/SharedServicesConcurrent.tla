---------------------- MODULE SharedServicesConcurrent ----------------------
(***************************************************************************)
(* The handlers of SharedServices query by query, each one a transaction   *)
(* at READ COMMITTED: other requests run between two queries.              *)
(*                                                                         *)
(* An update hands the row it read, with its changes, to TypeORM's save,   *)
(* which reads the row once more and writes the columns in which the two   *)
(* differ (Save, then Write).  So what is written back is whatever another *)
(* request changed between the handler's read and the save.                *)
(***************************************************************************)
EXTENDS SharedServices

CONSTANT Requests  \* the API requests that can be in flight at once

VARIABLES
    request,    \* what each request is doing and what it has read
    overtaken   \* history: the requests whose row was changed since they read it

vars == <<tables, request, overtaken>>

Idle == [op |-> "idle"]
RequestState ==
    [op : {"idle"}]
    \union [op : {"create"}, unchecked : SUBSET Columns, service : {NoRow},
            row : ServiceRow, names : SUBSET RoleNames, idps : Providers]
    \union [op : {"update"}, unchecked : SUBSET Columns, service : Services,
            row : ServiceRow]
    \union [op : {"saveService"}, service : Services, row : ServiceRow,
            changed : SUBSET (Columns \union {"isActive"})]
    \union [op : {"addRoles"}, unchecked : SUBSET RoleNames, service : Services,
            names : SUBSET RoleNames, idps : Providers]
    \union [op : {"updateRole"}, checked : BOOLEAN, role : RoleIds, row : RoleRow]
    \union [op : {"saveRole"}, role : RoleIds, row : RoleRow,
            changed : SUBSET {"name", "idps"}]
    \union [op : {"associate"}, checked : BOOLEAN, service : Services, tenant : Tenants]

CTypeOK ==
    /\ TypeOK
    /\ request \in [Requests -> RequestState]
    /\ overtaken \subseteq Requests

-----------------------------------------------------------------------------
(* Steps common to all requests. *)

Free(q) == request[q] = Idle
Doing(q, op) == request[q].op = op

Becomes(q, state) ==
    /\ request' = [request EXCEPT ![q] = state]
    /\ overtaken' = overtaken \ (IF state = Idle THEN {q} ELSE {})
    /\ UNCHANGED tables

\* The service, or the role, that a request has read.
HasRead(q, field, id) == field \in DOMAIN request[q] /\ request[q][field] = id

\* q commits its change to a row, which overtakes the requests that have read it.
Commit(q, field, id) ==
    /\ request' = [request EXCEPT ![q] = Idle]
    /\ overtaken' = (overtaken \union {p \in Requests : HasRead(p, field, id)}) \ {q}

\* A check fails, a unique key is violated or the process stops: rollback.
Abort(q) == ~Free(q) /\ Becomes(q, Idle)

-----------------------------------------------------------------------------
(* Services *)

StartCreate(q, row, names, idps) ==
    /\ Free(q)
    /\ Becomes(q, [op |-> "create", unchecked |-> Columns, service |-> NoRow,
                   row |-> row, names |-> names, idps |-> idps])

\* A column is checked if the body changes it.
StartUpdate(q, s, fields) ==
    /\ Free(q)
    /\ Exists(s)
    /\ LET row == UpdatedRow(service[s], fields)
       IN Becomes(q, [op |-> "update", service |-> s, row |-> row,
                      unchecked |-> {c \in Columns : row.key[c] # service[s].key[c]}])

\* One query per column; which comes first decides which conflict is reported.
CheckColumn(q, c) ==
    /\ request[q].op \in {"create", "update"}
    /\ c \in request[q].unchecked
    /\ ~TakenByOther(request[q].service, c, request[q].row.key[c])
    /\ Becomes(q, [request[q] EXCEPT !.unchecked = @ \ {c}])

WriteCreate(q, s) ==
    /\ Doing(q, "create")
    /\ request[q].unchecked = {}
    /\ ~Exists(s)
    /\ UniqueKeys(s, request[q].row.key)
    /\ service' = [service EXCEPT ![s] = request[q].row]
    /\ InsertRoles(s, request[q].names, request[q].idps)
    /\ Commit(q, "service", s)
    /\ UNCHANGED association

StartStatus(q, s, isActive) ==
    /\ Free(q)
    /\ Exists(s)
    /\ service[s].isActive # isActive
    /\ Becomes(q, [op |-> "update", service |-> s, unchecked |-> {},
                   row |-> [service[s] EXCEPT !.isActive = isActive]])

\* save reads the row again to find the columns to write.
Differing(row, current) ==
    {c \in Columns : row.key[c] # current.key[c]}
    \union (IF row.isActive # current.isActive THEN {"isActive"} ELSE {})
SaveService(q) ==
    /\ Doing(q, "update")
    /\ request[q].unchecked = {}
    /\ LET s == request[q].service
       IN Becomes(q, [op |-> "saveService", service |-> s, row |-> request[q].row,
                      changed |-> Differing(request[q].row, service[s])])

\* It writes them on the row as it is by then, and the service must load.
WriteService(q) ==
    /\ Doing(q, "saveService")
    /\ LET s == request[q].service
           changed == request[q].changed
           row == request[q].row
           current == service[s]
           written == [key |-> [c \in Columns |-> IF c \in changed THEN row.key[c]
                                                  ELSE current.key[c]],
                       isActive |-> IF "isActive" \in changed THEN row.isActive
                                    ELSE current.isActive]
       IN /\ UniqueKeys(s, written.key)
          /\ RolesOf(s) # {}
          /\ service' = [service EXCEPT ![s] = written]
          /\ Commit(q, "service", s)
    /\ UNCHANGED <<role, association>>

-----------------------------------------------------------------------------
(* Roles *)

StartAddRoles(q, s, names, idps) ==
    /\ Free(q)
    /\ IsActive(s)
    /\ Becomes(q, [op |-> "addRoles", unchecked |-> names, service |-> s,
                   names |-> names, idps |-> idps])

CheckRoleName(q, name) ==
    /\ Doing(q, "addRoles")
    /\ name \in request[q].unchecked
    /\ ~RoleNamed(request[q].service, name)
    /\ Becomes(q, [request[q] EXCEPT !.unchecked = @ \ {name}])

WriteAddRoles(q) ==
    /\ Doing(q, "addRoles")
    /\ request[q].unchecked = {}
    /\ InsertRoles(request[q].service, request[q].names, request[q].idps)
    /\ request' = [request EXCEPT ![q] = Idle]
    /\ overtaken' = overtaken \ {q}
    /\ UNCHANGED <<service, association>>

StartUpdateRole(q, r, name, idps) ==
    /\ Free(q)
    /\ role[r] # NoRow
    /\ LET row == UpdatedRole(role[r], name, idps)
       IN Becomes(q, [op |-> "updateRole", checked |-> row.name = role[r].name,
                      role |-> r, row |-> row])

CheckNewName(q) ==
    /\ Doing(q, "updateRole")
    /\ ~request[q].checked
    /\ LET row == request[q].row
       IN \A other \in RolesOf(row.service) \ {request[q].role} :
              role[other].name # row.name
    /\ Becomes(q, [request[q] EXCEPT !.checked = TRUE])

SaveRole(q) ==
    /\ Doing(q, "updateRole")
    /\ request[q].checked
    /\ LET r == request[q].role
           row == request[q].row
       IN Becomes(q, [op |-> "saveRole", role |-> r, row |-> row,
                      changed |-> {c \in {"name", "idps"} : row[c] # role[r][c]}])

WriteRole(q) ==
    /\ Doing(q, "saveRole")
    /\ LET r == request[q].role
           written == [c \in DOMAIN role[r] |->
                           IF c \in request[q].changed THEN request[q].row[c] ELSE role[r][c]]
       IN /\ \A other \in RolesOf(written.service) \ {r} : role[other].name # written.name
          /\ role' = [role EXCEPT ![r] = written]
          /\ Commit(q, "role", r)
    /\ UNCHANGED <<service, association>>

-----------------------------------------------------------------------------
(* Associations *)

StartAssociateAny(q, t, s) ==
    /\ Free(q)
    /\ Exists(s)
    /\ Becomes(q, [op |-> "associate", checked |-> FALSE, service |-> s, tenant |-> t])
StartAssociate(q, t, s) ==
    /\ Free(q)
    /\ IsActive(s)
    /\ Becomes(q, [op |-> "associate", checked |-> FALSE, service |-> s, tenant |-> t])

CheckAssociation(q) ==
    /\ Doing(q, "associate")
    /\ ~request[q].checked
    /\ <<request[q].tenant, request[q].service>> \notin association
    /\ Becomes(q, [request[q] EXCEPT !.checked = TRUE])

\* Tenant and service have a unique key here, too.
WriteAssociation(q) ==
    /\ Doing(q, "associate")
    /\ request[q].checked
    /\ <<request[q].tenant, request[q].service>> \notin association
    /\ association' = association \union {<<request[q].tenant, request[q].service>>}
    /\ request' = [request EXCEPT ![q] = Idle]
    /\ overtaken' = overtaken \ {q}
    /\ UNCHANGED <<service, role>>

-----------------------------------------------------------------------------

CInit ==
    /\ Init
    /\ request = [q \in Requests |-> Idle]
    /\ overtaken = {}

CNext == \E q \in Requests :
    \/ \E row \in ServiceRow, names \in RolesInBody, idps \in Providers :
        StartCreate(q, row, names, idps)
    \/ \E s \in Services, fields \in ColumnsInBody : StartUpdate(q, s, fields)
    \/ \E c \in Columns : CheckColumn(q, c)
    \/ \E s \in Services : WriteCreate(q, s)
    \/ \E s \in Services, isActive \in BOOLEAN : StartStatus(q, s, isActive)
    \/ SaveService(q)
    \/ WriteService(q)
    \/ \E s \in Services, names \in RolesInBody, idps \in Providers :
        StartAddRoles(q, s, names, idps)
    \/ \E name \in RoleNames : CheckRoleName(q, name)
    \/ WriteAddRoles(q)
    \/ \E r \in RoleIds, name \in RoleNames \union {NoRow},
          idps \in Providers \union {NoRow} :
        StartUpdateRole(q, r, name, idps)
    \/ CheckNewName(q)
    \/ SaveRole(q)
    \/ WriteRole(q)
    \/ \E t \in Tenants, s \in Services : StartAssociate(q, t, s)
    \/ CheckAssociation(q)
    \/ WriteAssociation(q)
    \/ Abort(q)

CSpec == CInit /\ [][CNext]_vars

-----------------------------------------------------------------------------
(* Properties. *)

\* A request whose row nobody changed since it read it does what the handler
\* does alone.  Checks for a name, a role or an association that is there need
\* no such condition: what slips between check and write is refused by a key.
SerialUnlessOvertaken ==
    [][(\E q \in overtaken : ~Free(q) /\ Free(q)') \/ Next]_tables
=============================================================================
