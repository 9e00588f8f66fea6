--------------------------- MODULE TenantRequests ---------------------------
(***************************************************************************)
(* Tenants, their names, and the requests they are created from.  As in    *)
(* TenantUsersConcurrent, a handler is one transaction at READ COMMITTED   *)
(* whose queries interleave with those of other handlers: each query a     *)
(* decision depends on is a step, the writes are one step with the commit. *)
(* The table Tenant has a unique key, checked when a row is written.  A    *)
(* request is written by TypeORM's save, which reads the row again and     *)
(* then writes the columns in which what it is to save differs from that.  *)
(*                                                                         *)
(* Who asks and who decides is left out: the SSO users of a request do not *)
(* influence what becomes of it.                                           *)
(***************************************************************************)
CONSTANTS
    Tenants,      \* Tenant ids: a pool from which inserted rows are drawn
    RequestIds,   \* TenantRequest ids, likewise
    Names,        \* tenant names
    Ministries,   \* ministry names
    Reasons,      \* reasons for a rejection
    Calls,        \* the API requests that can be in flight at once
    NoRow         \* "there is no such row", or a field left out of a body

TenantRow == [name : Names, ministry : Ministries]
Decisions == {"APPROVED", "REJECTED"}
RequestRow ==
    [name : Names, ministry : Ministries,
     status : {"NEW"} \union Decisions, rejectionReason : Reasons \union {NoRow}]

ASSUME NoRowAssumption ==
    NoRow \notin Tenants \union RequestIds \union Names \union Ministries
                     \union Reasons \union TenantRow \union RequestRow

VARIABLES
    tenant,    \* Tenant: name and ministry name of each row
    request,   \* TenantRequest: the row of each request
    origin,    \* history: the request each tenant was created from, if any
    call       \* what each API request is doing and what it has read

vars == <<tenant, request, origin, call>>

Idle == [op |-> "idle"]
CallState ==
    [op : {"idle"}]
    \union [op : {"create"}, at : {"write"}, row : TenantRow]
    \union [op : {"update"}, at : {"name", "write"}, tenant : Tenants,
            row : TenantRow,
            name : Names \union {NoRow}, ministry : Ministries \union {NoRow}]
    \union [op : {"decide"}, at : {"name", "save", "write"}, request : RequestIds,
            row : TenantRow, status : Decisions, rejectionReason : Reasons \union {NoRow},
            reread : RequestRow \union {NoRow}]

TypeOK ==
    /\ tenant \in [Tenants -> TenantRow \union {NoRow}]
    /\ request \in [RequestIds -> RequestRow \union {NoRow}]
    /\ origin \in [Tenants -> RequestIds \union {NoRow}]
    /\ call \in [Calls -> CallState]

-----------------------------------------------------------------------------

Free(q) == call[q] = Idle
At(q, op, at) == call[q].op = op /\ call[q].at = at

Becomes(q, state) ==
    /\ call' = [call EXCEPT ![q] = state]
    /\ UNCHANGED <<tenant, request, origin>>

Finish(q) == call' = [call EXCEPT ![q] = Idle]

\* A check fails, a unique key is violated or the process stops: rollback.
Abort(q) == ~Free(q) /\ Becomes(q, Idle)

\* checkIfTenantNameAndMinistryNameExists
Taken(row) == \E t \in Tenants : tenant[t] = row

\* The unique key of table Tenant lets this row be written at t.
UniqueKeyNone(t, row) == TRUE
UniqueKey(t, row) == \A other \in Tenants \ {t} : tenant[other] # row

InsertTenant(t, row, r) ==
    /\ tenant[t] = NoRow
    /\ UniqueKey(t, row)
    /\ tenant' = [tenant EXCEPT ![t] = row]
    /\ origin' = [origin EXCEPT ![t] = r]

\* A field of an update, or what the row has if the body leaves it out.
OrElse(field, current) == IF field = NoRow THEN current ELSE field

-----------------------------------------------------------------------------
(* The handlers. *)

Init ==
    /\ tenant = [t \in Tenants |-> NoRow]
    /\ request = [r \in RequestIds |-> NoRow]
    /\ origin = [t \in Tenants |-> NoRow]
    /\ call = [q \in Calls |-> Idle]

StartCreate(q, row) ==
    /\ Free(q)
    /\ ~Taken(row)
    /\ Becomes(q, [op |-> "create", at |-> "write", row |-> row])

WriteCreate(q, t) ==
    /\ At(q, "create", "write")
    /\ InsertTenant(t, call[q].row, NoRow)
    /\ Finish(q)
    /\ UNCHANGED request

\* row: the name and ministry the tenant will have, by what it has now.
StartUpdate(q, t, name, ministry) ==
    /\ Free(q)
    /\ tenant[t] # NoRow
    /\ Becomes(q, [op |-> "update",
                   at |-> IF name = NoRow /\ ministry = NoRow THEN "write" ELSE "name",
                   tenant |-> t, name |-> name, ministry |-> ministry,
                   row |-> [name |-> OrElse(name, tenant[t].name),
                            ministry |-> OrElse(ministry, tenant[t].ministry)]])

CheckUpdate(q) ==
    /\ At(q, "update", "name")
    /\ \A other \in Tenants \ {call[q].tenant} : tenant[other] # call[q].row
    /\ Becomes(q, [call[q] EXCEPT !.at = "write"])

\* The UPDATE sets the fields of the body, on the row as it is by now.
WriteUpdate(q) ==
    /\ At(q, "update", "write")
    /\ LET t == call[q].tenant
           row == [name |-> OrElse(call[q].name, tenant[t].name),
                   ministry |-> OrElse(call[q].ministry, tenant[t].ministry)]
       IN /\ UniqueKey(t, row)
          /\ tenant' = [tenant EXCEPT ![t] = row]
    /\ Finish(q)
    /\ UNCHANGED <<request, origin>>

\* A tenant created since the check is as if it were created after the request.
CreateTenantRequest(r, row) ==
    /\ request[r] = NoRow
    /\ ~Taken(row)
    /\ request' = [request EXCEPT ![r] =
           [name |-> row.name, ministry |-> row.ministry,
            status |-> "NEW", rejectionReason |-> NoRow]]
    /\ UNCHANGED <<tenant, origin, call>>

\* The name may be changed on approval only; a rejection has a reason, and the
\* body of an approval may have one too.
DecisionBody(status, reason, tenantName) ==
    status = "REJECTED" => reason # NoRow /\ tenantName = NoRow

StartDecision(q, r, status, reason, tenantName) ==
    /\ Free(q)
    /\ request[r] # NoRow
    /\ request[r].status = "NEW"
    /\ DecisionBody(status, reason, tenantName)
    /\ Becomes(q, [op |-> "decide",
                   at |-> IF status = "APPROVED" THEN "name" ELSE "save",
                   request |-> r, status |-> status, rejectionReason |-> reason,
                   row |-> [name |-> OrElse(tenantName, request[r].name),
                            ministry |-> request[r].ministry],
                   reread |-> NoRow])

CheckDecision(q) ==
    /\ At(q, "decide", "name")
    /\ ~Taken(call[q].row)
    /\ Becomes(q, [call[q] EXCEPT !.at = "save"])

\* save reads the row again, ...
Reread(q) ==
    /\ At(q, "decide", "save")
    /\ Becomes(q, [call[q] EXCEPT !.at = "write", !.reread = request[call[q].request]])

\* ... and of what this handler has decided writes what differs from that.
ReasonKept(q) == call[q].rejectionReason
Reason(q) == IF call[q].status = "REJECTED" THEN call[q].rejectionReason ELSE NoRow
Saved(mine, read, now) == IF mine = read THEN now ELSE mine
Decided(q) ==
    LET read == call[q].reread
        now == request[call[q].request]
    IN [name |-> Saved(call[q].row.name, read.name, now.name),
        ministry |-> Saved(call[q].row.ministry, read.ministry, now.ministry),
        status |-> Saved(call[q].status, read.status, now.status),
        rejectionReason |-> Saved(Reason(q), read.rejectionReason, now.rejectionReason)]

WriteApprovalNoTenant(q, t) ==
    /\ At(q, "decide", "write")
    /\ call[q].status = "APPROVED"
    /\ request' = [request EXCEPT ![call[q].request] = Decided(q)]
    /\ IF Taken(call[q].row) THEN UNCHANGED <<tenant, origin>>
       ELSE InsertTenant(t, call[q].row, call[q].request)
    /\ Finish(q)
WriteApproval(q, t) ==
    /\ At(q, "decide", "write")
    /\ call[q].status = "APPROVED"
    /\ InsertTenant(t, call[q].row, call[q].request)
    /\ request' = [request EXCEPT ![call[q].request] = Decided(q)]
    /\ Finish(q)

WriteRejection(q) ==
    /\ At(q, "decide", "write")
    /\ call[q].status = "REJECTED"
    /\ request' = [request EXCEPT ![call[q].request] = Decided(q)]
    /\ Finish(q)
    /\ UNCHANGED <<tenant, origin>>

Next ==
    \/ \E r \in RequestIds, row \in TenantRow : CreateTenantRequest(r, row)
    \/ \E q \in Calls :
        \/ \E row \in TenantRow : StartCreate(q, row)
        \/ \E t \in Tenants : WriteCreate(q, t)
        \/ \E t \in Tenants, name \in Names \union {NoRow},
              ministry \in Ministries \union {NoRow} :
            StartUpdate(q, t, name, ministry)
        \/ CheckUpdate(q)
        \/ WriteUpdate(q)
        \/ \E r \in RequestIds, status \in Decisions, reason \in Reasons \union {NoRow},
              tenantName \in Names \union {NoRow} :
            StartDecision(q, r, status, reason, tenantName)
        \/ CheckDecision(q)
        \/ Reread(q)
        \/ \E t \in Tenants : WriteApproval(q, t)
        \/ WriteRejection(q)
        \/ Abort(q)

Spec == Init /\ [][Next]_vars

-----------------------------------------------------------------------------
(* Properties. *)

\* The approval workflow of the documentation.  With one call in flight it is
\* what the code does; with two it is not.
RequestStatus(r) == IF request[r] = NoRow THEN "none" ELSE request[r].status
RequestReason(r) == IF request[r] = NoRow THEN NoRow ELSE request[r].rejectionReason
TenantsFrom(r) == {t \in Tenants : origin[t] = r}
Approval == INSTANCE TenantApproval WITH
    NoReason <- NoRow,
    status <- [r \in RequestIds |-> RequestStatus(r)],
    reason <- [r \in RequestIds |-> RequestReason(r)],
    tenantsOf <- [r \in RequestIds |-> TenantsFrom(r)]
ApprovalWorkflow == Approval!Spec

\* Nothing but a decision on a request that another call has decided meanwhile
\* departs from the workflow: whatever else overlaps, each step is one of it.
DecidesAgain(q) ==
    /\ call[q].op = "decide" /\ Free(q)'
    /\ request[call[q].request].status # "NEW"
WorkflowUnlessDecidedAgain ==
    [][(\E q \in Calls : DecidesAgain(q)) \/ [Approval!Next]_<<request, origin>>]_vars

\* No two tenants share name and ministry, whatever the checks were told about
\* the table before another handler wrote to it.
TenantNamesUnique ==
    \A t, other \in Tenants :
        tenant[t] # NoRow /\ tenant[t] = tenant[other] => t = other

\* A request on record as approved has a tenant that was created from it,
\* whichever of two decisions at once is written last.
ApprovedHasTenant ==
    \A r \in RequestIds :
        request[r] # NoRow /\ request[r].status = "APPROVED" =>
            \E t \in Tenants : origin[t] = r

\* The reason on record is the "Reason for rejection, if the request was
\* rejected" (openapi.yaml:1527): rejected requests have one, others none.
ReasonIffRejected ==
    \A r \in RequestIds :
        request[r] # NoRow =>
            (request[r].rejectionReason # NoRow <=> request[r].status = "REJECTED")
=============================================================================
