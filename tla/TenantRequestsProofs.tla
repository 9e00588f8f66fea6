------------------------ MODULE TenantRequestsProofs ------------------------
(***************************************************************************)
(* Proofs about TenantRequests, for every set of tenants, requests, names  *)
(* and, unless a theorem says otherwise, calls in flight.                  *)
(***************************************************************************)
EXTENDS TenantRequests, TLAPS

-----------------------------------------------------------------------------
(* Types. *)

LEMMA InitType == Init => TypeOK
<1>1. Idle \in CallState
  BY DEF Idle, CallState
<1>2. QED
  BY <1>1 DEF Init, TypeOK

\* A step of one call that moves it to a state of the right shape.
LEMMA CallType ==
    ASSUME NEW f \in [Calls -> CallState], NEW q \in Calls, NEW s \in CallState
    PROVE  [f EXCEPT ![q] = s] \in [Calls -> CallState]
OBVIOUS

\* An update in flight is of a tenant that is there, a decision of a request that
\* is there and, once save has read it again, of one it has found: rows are never
\* deleted.
UpdatesExist ==
    \A q \in Calls : call[q].op = "update" => tenant[call[q].tenant] # NoRow
DecisionsExist ==
    \A q \in Calls : call[q].op = "decide" =>
        /\ request[call[q].request] # NoRow
        /\ call[q].at = "write" => call[q].reread # NoRow

LEMMA NoRowIsNoRow == NoRow \notin TenantRow
BY NoRowAssumption

\* What an UPDATE of a tenant leaves in the table.
LEMMA UpdatedRow ==
    ASSUME TypeOK, UpdatesExist, NEW q \in Calls, WriteUpdate(q)
    PROVE  /\ call[q].tenant \in Tenants
           /\ \E row \in TenantRow :
                /\ UniqueKey(call[q].tenant, row)
                /\ tenant' = [tenant EXCEPT ![call[q].tenant] = row]
<1> DEFINE t == call[q].tenant
           row == [name |-> OrElse(call[q].name, tenant[t].name),
                   ministry |-> OrElse(call[q].ministry, tenant[t].ministry)]
<1>1. /\ call[q].op = "update"
      /\ UniqueKey(t, row)
      /\ tenant' = [tenant EXCEPT ![t] = row]
  BY DEF WriteUpdate, At
<1>2. /\ t \in Tenants
      /\ call[q].name \in Names \union {NoRow}
      /\ call[q].ministry \in Ministries \union {NoRow}
  BY <1>1 DEF TypeOK, CallState
<1>3. tenant[t] \in TenantRow
  BY <1>1, <1>2 DEF TypeOK, UpdatesExist
<1>4. row \in TenantRow
  BY <1>2, <1>3 DEF TenantRow, OrElse
<1> HIDE DEF row
<1>5. QED
  BY <1>1, <1>2, <1>4

\* What save leaves of a request.
LEMMA DecidedType ==
    ASSUME TypeOK, DecisionsExist, NEW q \in Calls, At(q, "decide", "write")
    PROVE  /\ call[q].request \in RequestIds
           /\ call[q].row \in TenantRow
           /\ call[q].status \in Decisions
           /\ call[q].rejectionReason \in Reasons \union {NoRow}
           /\ call[q].reread \in RequestRow
           /\ request[call[q].request] \in RequestRow
           /\ Decided(q) \in RequestRow
<1>1. /\ call[q].request \in RequestIds
      /\ call[q].row \in TenantRow
      /\ call[q].status \in Decisions
      /\ call[q].rejectionReason \in Reasons \union {NoRow}
      /\ call[q].reread \in RequestRow \union {NoRow}
  BY DEF TypeOK, At, CallState
<1>2. call[q].reread \in RequestRow /\ request[call[q].request] \in RequestRow
  BY <1>1 DEF TypeOK, DecisionsExist, At
<1>3. Decided(q) \in RequestRow
  <2>1. Reason(q) \in Reasons \union {NoRow}
    BY <1>1 DEF Reason
  <2> QED
    BY <1>1, <1>2, <2>1 DEF Decided, Saved, TenantRow, RequestRow
<1> QED
  BY <1>1, <1>2, <1>3

LEMMA NextType == TypeOK /\ UpdatesExist /\ DecisionsExist /\ [Next]_vars => TypeOK'
<1> SUFFICES ASSUME TypeOK, UpdatesExist, DecisionsExist, [Next]_vars PROVE TypeOK'
  OBVIOUS
<1> USE DEF TypeOK
<1>idle. Idle \in CallState
  BY DEF Idle, CallState
<1>abort. ASSUME NEW q \in Calls, Abort(q) PROVE TypeOK'
  BY <1>abort, <1>idle DEF Abort, Becomes
<1>insert. ASSUME NEW t \in Tenants, NEW row \in TenantRow,
                  NEW r \in RequestIds \union {NoRow}, InsertTenant(t, row, r)
           PROVE  /\ tenant' \in [Tenants -> TenantRow \union {NoRow}]
                  /\ origin' \in [Tenants -> RequestIds \union {NoRow}]
  BY <1>insert DEF InsertTenant
<1>1. ASSUME NEW r \in RequestIds, NEW row \in TenantRow, CreateTenantRequest(r, row)
      PROVE  TypeOK'
  <2>1. [name |-> row.name, ministry |-> row.ministry,
         status |-> "NEW", rejectionReason |-> NoRow] \in RequestRow
    BY DEF TenantRow, RequestRow
  <2>2. QED
    BY <1>1, <2>1 DEF CreateTenantRequest
<1>2. ASSUME NEW q \in Calls, NEW row \in TenantRow, StartCreate(q, row)
      PROVE  TypeOK'
  <2>1. [op |-> "create", at |-> "write", row |-> row] \in CallState
    BY DEF CallState
  <2>2. QED
    BY <1>2, <2>1, CallType DEF StartCreate, Becomes
<1>3. ASSUME NEW q \in Calls, NEW t \in Tenants, WriteCreate(q, t)
      PROVE  TypeOK'
  <2>1. call[q].row \in TenantRow
    BY <1>3 DEF WriteCreate, At, CallState
  <2>2. QED
    BY <1>3, <2>1, <1>insert, <1>idle, CallType DEF WriteCreate, Finish
<1>4. ASSUME NEW q \in Calls, NEW t \in Tenants, NEW name \in Names \union {NoRow},
             NEW ministry \in Ministries \union {NoRow},
             StartUpdate(q, t, name, ministry)
      PROVE  TypeOK'
  <2>1. tenant[t] \in TenantRow
    BY <1>4 DEF StartUpdate
  <2>2. [name |-> OrElse(name, tenant[t].name),
         ministry |-> OrElse(ministry, tenant[t].ministry)] \in TenantRow
    BY <2>1 DEF TenantRow, OrElse
  <2>3. [op |-> "update",
         at |-> IF name = NoRow /\ ministry = NoRow THEN "write" ELSE "name",
         tenant |-> t, name |-> name, ministry |-> ministry,
         row |-> [name |-> OrElse(name, tenant[t].name),
                  ministry |-> OrElse(ministry, tenant[t].ministry)]] \in CallState
    BY <2>2 DEF CallState
  <2>4. QED
    BY <1>4, <2>3, CallType DEF StartUpdate, Becomes
<1>5. ASSUME NEW q \in Calls, CheckUpdate(q) PROVE TypeOK'
  <2>1. [call[q] EXCEPT !.at = "write"] \in CallState
    BY <1>5 DEF CheckUpdate, At, CallState
  <2>2. QED
    BY <1>5, <2>1, CallType DEF CheckUpdate, Becomes
<1>6. ASSUME NEW q \in Calls, WriteUpdate(q) PROVE TypeOK'
  <2>1. tenant' \in [Tenants -> TenantRow \union {NoRow}]
    BY <1>6, UpdatedRow
  <2>2. QED
    BY <1>6, <2>1, <1>idle, CallType DEF WriteUpdate, Finish
<1>7. ASSUME NEW q \in Calls, NEW r \in RequestIds, NEW status \in Decisions,
             NEW reason \in Reasons \union {NoRow},
             NEW tenantName \in Names \union {NoRow},
             StartDecision(q, r, status, reason, tenantName)
      PROVE  TypeOK'
  <2>1. request[r] \in RequestRow
    BY <1>7 DEF StartDecision, DecisionBody
  <2>2. [name |-> OrElse(tenantName, request[r].name),
         ministry |-> request[r].ministry] \in TenantRow
    BY <2>1 DEF TenantRow, RequestRow, OrElse
  <2>3. [op |-> "decide",
         at |-> IF status = "APPROVED" THEN "name" ELSE "save",
         request |-> r, status |-> status, rejectionReason |-> reason,
         row |-> [name |-> OrElse(tenantName, request[r].name),
                  ministry |-> request[r].ministry],
         reread |-> NoRow] \in CallState
    BY <2>2 DEF CallState
  <2>4. QED
    BY <1>7, <2>3, CallType DEF StartDecision, Becomes
<1>8. ASSUME NEW q \in Calls, CheckDecision(q) PROVE TypeOK'
  <2>1. [call[q] EXCEPT !.at = "save"] \in CallState
    BY <1>8 DEF CheckDecision, At, CallState
  <2>2. QED
    BY <1>8, <2>1, CallType DEF CheckDecision, Becomes
<1>13. ASSUME NEW q \in Calls, Reread(q) PROVE TypeOK'
  <2>1. request[call[q].request] \in RequestRow \union {NoRow}
    BY <1>13 DEF Reread, At, CallState
  <2>2. [call[q] EXCEPT !.at = "write", !.reread = request[call[q].request]] \in CallState
    BY <1>13, <2>1 DEF Reread, At, CallState
  <2>3. QED
    BY <1>13, <2>2, CallType DEF Reread, Becomes
<1>9. ASSUME NEW q \in Calls, NEW t \in Tenants, WriteApproval(q, t) PROVE TypeOK'
  <2>1. At(q, "decide", "write")
    BY <1>9 DEF WriteApproval
  <2>2. QED
    BY <1>9, <2>1, DecidedType, <1>insert, <1>idle, CallType DEF WriteApproval, Finish
<1>10. ASSUME NEW q \in Calls, WriteRejection(q) PROVE TypeOK'
  <2>1. At(q, "decide", "write")
    BY <1>10 DEF WriteRejection
  <2>2. QED
    BY <1>10, <2>1, DecidedType, <1>idle, CallType DEF WriteRejection, Finish
<1>11. CASE UNCHANGED vars
  BY <1>11 DEF vars
<1>12. QED
  BY <1>abort, <1>1, <1>2, <1>3, <1>4, <1>5, <1>6, <1>7, <1>8, <1>9, <1>10, <1>11,
     <1>13 DEF Next

\* Tenants are never deleted.
LEMMA TenantsStay ==
    ASSUME TypeOK, UpdatesExist, [Next]_vars, NEW t \in Tenants, tenant[t] # NoRow
    PROVE  tenant'[t] # NoRow
<1>1. ASSUME NEW q \in Calls, WriteUpdate(q) PROVE tenant'[t] # NoRow
  BY <1>1, UpdatedRow, NoRowIsNoRow DEF TypeOK
<1>2. ASSUME NEW u \in Tenants, NEW row, NEW r, InsertTenant(u, row, r)
      PROVE  tenant'[t] # NoRow
  BY <1>2 DEF InsertTenant, TypeOK
<1>3. QED
  BY <1>1, <1>2 DEF Next, vars, WriteCreate, WriteApproval, WriteRejection,
     CreateTenantRequest, StartCreate, StartUpdate, CheckUpdate, StartDecision,
     CheckDecision, Reread, Abort, Becomes

\* The only step that brings an update in flight is its start.
LEMMA UpdateInFlight ==
    ASSUME TypeOK, [Next]_vars, NEW q \in Calls, call'[q].op = "update"
    PROVE  \/ call[q].op = "update" /\ call'[q].tenant = call[q].tenant
           \/ call'[q].tenant \in Tenants /\ tenant[call'[q].tenant] # NoRow
<1> USE DEF TypeOK
<1>1. ASSUME NEW p \in Calls, NEW at, call' = [call EXCEPT ![p] = [call[p] EXCEPT !.at = at]]
      PROVE  call[q].op = "update" /\ call'[q].tenant = call[q].tenant
  <2>1. CASE p = q
    BY <1>1, <2>1 DEF CallState
  <2>2. CASE p # q
    BY <1>1, <2>2
  <2>3. QED
    BY <2>1, <2>2
<1>2. ASSUME NEW p \in Calls, NEW s, call' = [call EXCEPT ![p] = s], s.op # "update"
      PROVE  call[q].op = "update" /\ call'[q].tenant = call[q].tenant
  BY <1>2
<1>3. ASSUME NEW p \in Calls, Finish(p) \/ Abort(p)
      PROVE  call[q].op = "update" /\ call'[q].tenant = call[q].tenant
  BY <1>2, <1>3 DEF Finish, Abort, Becomes, Idle
<1>4. ASSUME NEW p \in Calls, NEW row \in TenantRow, StartCreate(p, row)
      PROVE  call[q].op = "update" /\ call'[q].tenant = call[q].tenant
  BY <1>2, <1>4 DEF StartCreate, Becomes
<1>5. ASSUME NEW p \in Calls, NEW t \in Tenants, NEW name, NEW ministry,
             StartUpdate(p, t, name, ministry)
      PROVE  \/ call[q].op = "update" /\ call'[q].tenant = call[q].tenant
             \/ call'[q].tenant \in Tenants /\ tenant[call'[q].tenant] # NoRow
  BY <1>5 DEF StartUpdate, Becomes
<1>6. ASSUME NEW p \in Calls, NEW r, NEW status, NEW reason, NEW name,
             StartDecision(p, r, status, reason, name)
      PROVE  call[q].op = "update" /\ call'[q].tenant = call[q].tenant
  BY <1>2, <1>6 DEF StartDecision, Becomes
<1>7. ASSUME NEW p \in Calls, CheckUpdate(p) \/ CheckDecision(p)
      PROVE  call[q].op = "update" /\ call'[q].tenant = call[q].tenant
  BY <1>1, <1>7 DEF CheckUpdate, CheckDecision, Becomes
<1>10. ASSUME NEW p \in Calls, Reread(p)
       PROVE  call[q].op = "update" /\ call'[q].tenant = call[q].tenant
  <2>1. [call[p] EXCEPT !.at = "write", !.reread = request[call[p].request]].op # "update"
    BY <1>10 DEF Reread, At, CallState
  <2> QED
    BY <1>2, <1>10, <2>1 DEF Reread, Becomes
<1>8. CASE UNCHANGED call
  BY <1>8
<1>9. QED
  BY <1>3, <1>4, <1>5, <1>6, <1>7, <1>8, <1>10 DEF Next, vars, WriteCreate,
     WriteUpdate,
     WriteApproval, WriteRejection, CreateTenantRequest

\* A decision in flight stays what it is, and is brought to its write by reading
\* the request once more; a new one has found the request NEW.
SameDecision(q) ==
    /\ call[q].op = "decide"
    /\ call'[q].request = call[q].request
    /\ call'[q].status = call[q].status
    /\ call'[q].rejectionReason = call[q].rejectionReason
    /\ call'[q].at = "write" =>
        IF call[q].at = "write"
        THEN call'[q].reread = call[q].reread
        ELSE request' = request /\ call'[q].reread = request[call[q].request]
NewDecision(q) ==
    /\ call'[q].at # "write"
    /\ call'[q].status = "REJECTED" => call'[q].rejectionReason # NoRow
    /\ request' = request
    /\ request[call'[q].request] # NoRow
    /\ request[call'[q].request].status = "NEW"

LEMMA DecisionInFlight ==
    ASSUME TypeOK, [Next]_vars, NEW q \in Calls, call'[q].op = "decide"
    PROVE  SameDecision(q) \/ NewDecision(q)
<1> USE DEF TypeOK
<1>1. call'[q] = call[q] => SameDecision(q)
  BY DEF SameDecision
<1>2. ASSUME NEW p \in Calls, NEW new, call' = [call EXCEPT ![p] = new],
             new.op # "decide" \/ p # q
      PROVE  SameDecision(q)
  BY <1>1, <1>2
<1>3. ASSUME NEW p \in Calls, Finish(p) \/ Abort(p)
      PROVE  SameDecision(q)
  BY <1>2, <1>3 DEF Finish, Abort, Becomes, Idle
<1>4. ASSUME NEW p \in Calls, NEW row \in TenantRow, StartCreate(p, row)
      PROVE  SameDecision(q)
  BY <1>2, <1>4 DEF StartCreate, Becomes
<1>5. ASSUME NEW p \in Calls, NEW t \in Tenants, NEW name, NEW ministry,
             StartUpdate(p, t, name, ministry)
      PROVE  SameDecision(q)
  BY <1>2, <1>5 DEF StartUpdate, Becomes
<1>6. ASSUME NEW p \in Calls, NEW r \in RequestIds, NEW status, NEW reason, NEW name,
             StartDecision(p, r, status, reason, name)
      PROVE  SameDecision(q) \/ NewDecision(q)
  <2>1. CASE p # q
    BY <1>2, <1>6, <2>1 DEF StartDecision, Becomes
  <2>2. CASE p = q
    BY <1>6, <2>2 DEF StartDecision, DecisionBody, Becomes, NewDecision
  <2> QED
    BY <2>1, <2>2
<1>7. ASSUME NEW p \in Calls, CheckUpdate(p)
      PROVE  SameDecision(q)
  <2>1. [call[p] EXCEPT !.at = "write"].op # "decide"
    BY <1>7 DEF CheckUpdate, At, CallState
  <2> QED
    BY <1>2, <1>7, <2>1 DEF CheckUpdate, Becomes
<1>8. ASSUME NEW p \in Calls, CheckDecision(p)
      PROVE  SameDecision(q)
  <2>1. CASE p # q
    BY <1>2, <1>8, <2>1 DEF CheckDecision, Becomes
  <2>2. CASE p = q
    BY <1>8, <2>2 DEF CheckDecision, At, Becomes, SameDecision, CallState
  <2> QED
    BY <2>1, <2>2
<1>9. ASSUME NEW p \in Calls, Reread(p)
      PROVE  SameDecision(q)
  <2>1. CASE p # q
    BY <1>2, <1>9, <2>1 DEF Reread, Becomes
  <2>2. CASE p = q
    BY <1>9, <2>2 DEF Reread, At, Becomes, SameDecision, CallState
  <2> QED
    BY <2>1, <2>2
<1> QED
  BY <1>1, <1>3, <1>4, <1>5, <1>6, <1>7, <1>8, <1>9 DEF Next, vars, WriteCreate,
     WriteUpdate, WriteApproval, WriteRejection, CreateTenantRequest

LEMMA DecisionReads ==
    ASSUME TypeOK, NEW q \in Calls, call[q].op = "decide"
    PROVE  call[q].request \in RequestIds
BY DEF TypeOK, CallState

\* Requests are never deleted.
LEMMA RequestsStay ==
    ASSUME TypeOK, DecisionsExist, [Next]_vars, NEW r \in RequestIds, request[r] # NoRow
    PROVE  request'[r] # NoRow
<1>1. ASSUME NEW q \in Calls, At(q, "decide", "write")
      PROVE  Decided(q) # NoRow
  BY <1>1, DecidedType, NoRowAssumption
<1>2. ASSUME NEW s \in RequestIds, NEW row \in TenantRow, CreateTenantRequest(s, row)
      PROVE  request'[r] # NoRow
  BY <1>2 DEF CreateTenantRequest, TypeOK
<1>3. ASSUME NEW q \in Calls, WriteRejection(q)
      PROVE  request'[r] # NoRow
  BY <1>1, <1>3 DEF WriteRejection, TypeOK
<1>4. ASSUME NEW q \in Calls, NEW t \in Tenants, WriteApproval(q, t)
      PROVE  request'[r] # NoRow
  BY <1>1, <1>4 DEF WriteApproval, TypeOK
<1>5. CASE UNCHANGED request
  BY <1>5
<1>6. QED
  BY <1>2, <1>3, <1>4, <1>5 DEF Next, vars, WriteCreate, WriteUpdate, StartCreate,
     StartUpdate, CheckUpdate, StartDecision, CheckDecision, Reread, Abort, Becomes

\* The strengthening of TypeOK that is inductive.
TypeInv == TypeOK /\ UpdatesExist /\ DecisionsExist

LEMMA InitTypeInv == Init => TypeInv
BY InitType DEF Init, TypeInv, UpdatesExist, DecisionsExist, Idle

LEMMA NextTypeInv == TypeInv /\ [Next]_vars => TypeInv'
<1> SUFFICES ASSUME TypeInv, [Next]_vars PROVE TypeInv'
  OBVIOUS
<1>1. TypeOK'
  BY NextType DEF TypeInv
<1>2. UpdatesExist'
  <2> SUFFICES ASSUME NEW q \in Calls, call'[q].op = "update"
               PROVE  tenant'[call'[q].tenant] # NoRow
    BY DEF UpdatesExist
  <2>1. call[q].op = "update" => call[q].tenant \in Tenants
    BY DEF TypeInv, TypeOK, CallState
  <2>2. call'[q].tenant \in Tenants /\ tenant[call'[q].tenant] # NoRow
    BY <2>1, UpdateInFlight DEF TypeInv, UpdatesExist
  <2>3. QED
    BY <2>2, TenantsStay DEF TypeInv
<1>3. DecisionsExist'
  <2> SUFFICES ASSUME NEW q \in Calls, call'[q].op = "decide"
               PROVE  /\ request'[call'[q].request] # NoRow
                      /\ call'[q].at = "write" => call'[q].reread # NoRow
    BY DEF DecisionsExist
  <2>1. CASE SameDecision(q)
    <3>1. /\ call[q].request \in RequestIds
          /\ request[call[q].request] # NoRow
          /\ call[q].at = "write" => call[q].reread # NoRow
      BY <2>1, DecisionReads DEF SameDecision, TypeInv, DecisionsExist
    <3>2. request'[call[q].request] # NoRow
      BY <3>1, RequestsStay DEF TypeInv
    <3> QED
      BY <2>1, <3>1, <3>2 DEF SameDecision
  <2>2. CASE NewDecision(q)
    BY <2>2 DEF NewDecision
  <2> QED
    BY <2>1, <2>2, DecisionInFlight DEF TypeInv
<1> QED
  BY <1>1, <1>2, <1>3 DEF TypeInv

LEMMA TypeInvariant == Spec => []TypeInv
BY InitTypeInv, NextTypeInv, PTL DEF Spec

\* Every table and every call keeps its shape.
THEOREM TypeCorrect == Spec => []TypeOK
<1>1. TypeInv => TypeOK
  BY DEF TypeInv
<1>2. QED
  BY <1>1, TypeInvariant, PTL

-----------------------------------------------------------------------------
(* Names. *)

\* A row written at t where the unique key allows it keeps names unique.
LEMMA WriteKeepsUnique ==
    ASSUME TypeOK, TenantNamesUnique, NEW t \in Tenants, NEW row \in TenantRow,
           UniqueKey(t, row), tenant' = [tenant EXCEPT ![t] = row]
    PROVE  TenantNamesUnique'
BY DEF TypeOK, TenantNamesUnique, UniqueKey

LEMMA NextUnique ==
    ASSUME TypeInv, TenantNamesUnique, [Next]_vars
    PROVE  TenantNamesUnique'
<1>1. ASSUME NEW q \in Calls, WriteUpdate(q) PROVE TenantNamesUnique'
  BY <1>1, UpdatedRow, WriteKeepsUnique DEF TypeInv
<1>2. ASSUME NEW q \in Calls, NEW t \in Tenants, NEW r,
             InsertTenant(t, call[q].row, r), call[q].op \in {"create", "decide"}
      PROVE  TenantNamesUnique'
  <2>1. call[q].row \in TenantRow
    BY <1>2 DEF TypeInv, TypeOK, CallState
  <2>2. QED
    BY <1>2, <2>1, WriteKeepsUnique DEF InsertTenant, TypeInv
<1>3. CASE UNCHANGED tenant
  BY <1>3 DEF TenantNamesUnique
<1>4. QED
  BY <1>1, <1>2, <1>3 DEF Next, vars, At, WriteCreate, WriteApproval, WriteRejection,
     CreateTenantRequest, StartCreate, StartUpdate, CheckUpdate, StartDecision,
     CheckDecision, Reread, Abort, Becomes

\* However many handlers create, approve and rename tenants at once, and
\* whatever their checks have read, no two tenants get the same names.
THEOREM NamesStayUnique == Spec => []TenantNamesUnique
<1>1. Init => TenantNamesUnique
  BY DEF Init, TenantNamesUnique
<1>2. TypeInv /\ TenantNamesUnique /\ [Next]_vars => TenantNamesUnique'
  BY NextUnique
<1>3. QED
  BY <1>1, <1>2, TypeInvariant, PTL DEF Spec

-----------------------------------------------------------------------------
(* Decisions, with any number of calls in flight. *)

\* Only rows of tenants have an origin; so an origin once given stays.
OriginHasTenant == \A t \in Tenants : origin[t] # NoRow => tenant[t] # NoRow

DecisionInv == OriginHasTenant /\ ApprovedHasTenant

LEMMA NextOrigin ==
    ASSUME TypeInv, OriginHasTenant, [Next]_vars
    PROVE  OriginHasTenant'
<1> SUFFICES ASSUME NEW t \in Tenants, origin'[t] # NoRow PROVE tenant'[t] # NoRow
  BY DEF OriginHasTenant
<1> USE DEF TypeInv
<1>1. CASE origin[t] # NoRow
  BY <1>1, TenantsStay DEF OriginHasTenant
<1>2. CASE origin[t] = NoRow
  <2>1. ASSUME NEW q \in Calls, NEW u \in Tenants, WriteApproval(q, u)
        PROVE  tenant'[t] # NoRow
    BY <1>2, <2>1, DecidedType, NoRowIsNoRow DEF WriteApproval, InsertTenant, TypeOK
  <2>2. ASSUME NEW q \in Calls, NEW u \in Tenants, WriteCreate(q, u)
        PROVE  origin'[t] = NoRow
    BY <1>2, <2>2 DEF WriteCreate, InsertTenant, TypeOK
  <2>3. CASE UNCHANGED origin
    BY <1>2, <2>3
  <2>4. QED
    BY <2>1, <2>2, <2>3 DEF Next, vars, WriteUpdate, WriteRejection,
       CreateTenantRequest, StartCreate, StartUpdate, CheckUpdate, StartDecision,
       CheckDecision, Reread, Abort, Becomes
<1>3. QED
  BY <1>1, <1>2

LEMMA NextDecision ==
    ASSUME TypeInv, DecisionInv, [Next]_vars
    PROVE  DecisionInv'
<1> USE DEF TypeInv
<1>1. OriginHasTenant'
  BY NextOrigin DEF DecisionInv
<1>2. ASSUME NEW t \in Tenants, origin[t] # NoRow PROVE origin'[t] = origin[t]
  <2>1. tenant[t] # NoRow
    BY <1>2 DEF DecisionInv, OriginHasTenant
  <2>2. ASSUME NEW u \in Tenants, NEW row, NEW r, InsertTenant(u, row, r)
        PROVE  origin'[t] = origin[t]
    BY <2>1, <2>2 DEF InsertTenant, TypeOK
  <2>3. ASSUME NEW q \in Calls, NEW u \in Tenants, WriteCreate(q, u) \/ WriteApproval(q, u)
        PROVE  origin'[t] = origin[t]
    BY <2>2, <2>3 DEF WriteCreate, WriteApproval
  <2>4. CASE UNCHANGED origin
    BY <2>4
  <2>5. QED
    BY <2>3, <2>4 DEF Next, vars, WriteUpdate, WriteRejection, CreateTenantRequest,
       StartCreate, StartUpdate, CheckUpdate, StartDecision, CheckDecision, Reread, Abort, Becomes
\* Only an approval makes a request approved, and inserts its tenant.
<1>3. ASSUME NEW r \in RequestIds, request'[r] # NoRow, request'[r].status = "APPROVED"
      PROVE  \/ request[r] # NoRow /\ request[r].status = "APPROVED"
             \/ \E t \in Tenants : origin'[t] = r
  <2>1. ASSUME NEW s \in RequestIds, NEW row, CreateTenantRequest(s, row)
        PROVE  request[r] # NoRow /\ request[r].status = "APPROVED"
    BY <1>3, <2>1 DEF CreateTenantRequest, TypeOK
  <2>2. ASSUME NEW q \in Calls, WriteRejection(q)
        PROVE  request[r] # NoRow /\ request[r].status = "APPROVED"
    <3>1. At(q, "decide", "write")
      BY <2>2 DEF WriteRejection
    <3>2. /\ request[call[q].request] # NoRow
          /\ Decided(q).status = "APPROVED" => request[call[q].request].status = "APPROVED"
      BY <2>2, <3>1, DecidedType, NoRowAssumption DEF WriteRejection, Decided, Saved
    <3> QED
      BY <1>3, <2>2, <3>2 DEF WriteRejection, TypeOK
  <2>3. ASSUME NEW q \in Calls, NEW t \in Tenants, WriteApproval(q, t)
        PROVE  \/ request[r] # NoRow /\ request[r].status = "APPROVED"
               \/ origin'[t] = r
    BY <1>3, <2>3 DEF WriteApproval, InsertTenant, TypeOK
  <2>4. CASE UNCHANGED request
    BY <1>3, <2>4
  <2> QED
    BY <2>1, <2>2, <2>3, <2>4 DEF Next, vars, WriteCreate, WriteUpdate, StartCreate,
       StartUpdate, CheckUpdate, StartDecision, CheckDecision, Reread, Abort, Becomes
<1>4. ApprovedHasTenant'
  <2> SUFFICES ASSUME NEW r \in RequestIds, request'[r] # NoRow,
                      request'[r].status = "APPROVED"
               PROVE  \E t \in Tenants : origin'[t] = r
    BY DEF ApprovedHasTenant
  <2>1. CASE request[r] # NoRow /\ request[r].status = "APPROVED"
    BY <1>2, <2>1, NoRowAssumption DEF DecisionInv, ApprovedHasTenant
  <2> QED
    BY <1>3, <2>1
<1> QED
  BY <1>1, <1>4 DEF DecisionInv

LEMMA DecisionInvariant == Spec => []DecisionInv
<1>1. Init => DecisionInv
  BY DEF Init, DecisionInv, OriginHasTenant, ApprovedHasTenant
<1>2. TypeInv /\ DecisionInv /\ [Next]_vars => DecisionInv'
  BY NextDecision
<1>3. QED
  BY <1>1, <1>2, TypeInvariant, PTL DEF Spec

\* A request on record as approved has a tenant, whatever was decided at once.
THEOREM ApprovalCreatesTenant == Spec => []ApprovedHasTenant
<1>1. DecisionInv => ApprovedHasTenant
  BY DEF DecisionInv
<1>2. QED
  BY <1>1, DecisionInvariant, PTL

-----------------------------------------------------------------------------
(* The approval workflow, with any number of calls in flight. *)

\* A request that is not decided has neither a tenant nor a reason.
UndecidedHasNothing ==
    \A r \in RequestIds :
        RequestStatus(r) \in {"none", "NEW"} =>
            TenantsFrom(r) = {} /\ RequestReason(r) = NoRow

\* While a request is NEW, a decision that save has read it again for still has
\* the row as it is: only a decision changes it.
NewAsRead ==
    \A q \in Calls :
        At(q, "decide", "write") /\ request[call[q].request].status = "NEW" =>
            call[q].reread = request[call[q].request]

RejectionsHaveReason ==
    \A q \in Calls :
        call[q].op = "decide" /\ call[q].status = "REJECTED" =>
            call[q].rejectionReason # NoRow

WorkflowInv ==
    /\ TypeInv
    /\ OriginHasTenant
    /\ UndecidedHasNothing
    /\ NewAsRead
    /\ RejectionsHaveReason

\* What a step does to the workflow.
StepOfWorkflow ==
    (\E q \in Calls : DecidesAgain(q)) \/ [Approval!Next]_<<request, origin>>

LEMMA InitWorkflow == Init => WorkflowInv /\ Approval!Init
<1> SUFFICES ASSUME Init PROVE WorkflowInv /\ Approval!Init
  OBVIOUS
<1>1. /\ \A r \in RequestIds :
             RequestStatus(r) = "none" /\ RequestReason(r) = NoRow /\ TenantsFrom(r) = {}
      /\ \A q \in Calls : call[q].op = "idle"
  BY NoRowAssumption DEF Init, RequestStatus, RequestReason, TenantsFrom, Idle
<1>2. WorkflowInv
  BY <1>1, InitTypeInv DEF WorkflowInv, OriginHasTenant, UndecidedHasNothing,
     NewAsRead, RejectionsHaveReason, At, Init
<1>3. Approval!Init
  BY <1>1 DEF Approval!Init
<1>4. QED
  BY <1>2, <1>3

\* Every step but a submission and a decision leaves requests and origins alone.
LEMMA OtherSteps ==
    ASSUME TypeInv, OriginHasTenant, [Next]_vars,
           ~\E r \in RequestIds, row \in TenantRow : CreateTenantRequest(r, row),
           ~\E q \in Calls, t \in Tenants : WriteApproval(q, t),
           ~\E q \in Calls : WriteRejection(q)
    PROVE  request' = request /\ origin' = origin
<1>1. ASSUME NEW q \in Calls, NEW t \in Tenants, WriteCreate(q, t)
      PROVE  request' = request /\ origin' = origin
  <2>1. origin[t] = NoRow
    BY <1>1 DEF WriteCreate, InsertTenant, OriginHasTenant
  <2>2. QED
    BY <1>1, <2>1 DEF WriteCreate, InsertTenant, TypeInv, TypeOK
<1>2. QED
  BY <1>1 DEF Next, vars, WriteUpdate, StartCreate, StartUpdate, CheckUpdate,
     StartDecision, CheckDecision, Reread, Abort, Becomes

LEMMA WrittenRow ==
    ASSUME TypeOK, NEW r \in RequestIds, NEW row \in RequestRow,
           request' = [request EXCEPT ![r] = row]
    PROVE  \A s \in RequestIds :
             /\ RequestStatus(s)' = IF s = r THEN row.status ELSE RequestStatus(s)
             /\ RequestReason(s)' =
                    IF s = r THEN row.rejectionReason ELSE RequestReason(s)
BY NoRowAssumption DEF TypeOK, RequestStatus, RequestReason

LEMMA SubmitStep ==
    ASSUME WorkflowInv, NEW r \in RequestIds, NEW row \in TenantRow,
           CreateTenantRequest(r, row)
    PROVE  UndecidedHasNothing' /\ Approval!Submit(r)
<1> DEFINE new == [name |-> row.name, ministry |-> row.ministry,
                   status |-> "NEW", rejectionReason |-> NoRow]
<1>1. request' = [request EXCEPT ![r] = new] /\ UNCHANGED <<origin, call>>
  BY DEF CreateTenantRequest
<1>2. new \in RequestRow
  BY DEF TenantRow, RequestRow
<1>3. RequestStatus(r) = "none" /\ RequestReason(r) = NoRow
  BY DEF CreateTenantRequest, RequestStatus, RequestReason
<1>4. \A s \in RequestIds :
        /\ RequestStatus(s)' = IF s = r THEN "NEW" ELSE RequestStatus(s)
        /\ RequestReason(s)' = RequestReason(s)
  BY <1>1, <1>2, <1>3, WrittenRow DEF WorkflowInv, TypeInv
<1>5. \A s : TenantsFrom(s)' = TenantsFrom(s)
  BY <1>1 DEF TenantsFrom
<1>6. UndecidedHasNothing'
  BY <1>3, <1>4, <1>5 DEF WorkflowInv, UndecidedHasNothing
<1>7. Approval!Submit(r)
  BY <1>3, <1>4, <1>5 DEF Approval!Submit
<1>8. QED
  BY <1>6, <1>7

\* What save writes decides the request, as this handler has it if the request is
\* NEW by now, with whatever of another decision it does not write otherwise.
LEMMA DecidedStatus ==
    ASSUME WorkflowInv, NEW q \in Calls, At(q, "decide", "write")
    PROVE  /\ Decided(q).status \in Decisions
           /\ request[call[q].request].status = "NEW" =>
                /\ Decided(q).status = call[q].status
                /\ Decided(q).rejectionReason = Reason(q)
<1> DEFINE r == call[q].request
<1>1. /\ r \in RequestIds
      /\ request[r] \in RequestRow
      /\ call[q].status \in Decisions
      /\ Decided(q) \in RequestRow
  BY DecidedType DEF WorkflowInv, TypeInv
<1>2. /\ Decided(q).status = Saved(call[q].status, call[q].reread.status, request[r].status)
      /\ Decided(q).rejectionReason =
             Saved(Reason(q), call[q].reread.rejectionReason, request[r].rejectionReason)
  BY DEF Decided
<1>3. CASE request[r].status = "NEW"
  <2>1. call[q].reread = request[r]
    BY <1>3 DEF WorkflowInv, NewAsRead
  <2> QED
    BY <1>1, <1>2, <1>3, <2>1 DEF Saved, Decisions
<1>4. CASE request[r].status # "NEW"
  <2>1. request[r].status \in Decisions
    BY <1>1, <1>4 DEF RequestRow
  <2> QED
    BY <1>1, <1>2, <1>4, <2>1 DEF Saved
<1> QED
  BY <1>3, <1>4

\* A decision that is written: of a request that is NEW, or once more.
LEMMA DecisionStep ==
    ASSUME WorkflowInv, NEW q \in Calls, At(q, "decide", "write"),
           request' = [request EXCEPT ![call[q].request] = Decided(q)], Finish(q)
    PROVE  /\ call[q].request \in RequestIds
           /\ \A s \in RequestIds :
                /\ RequestStatus(s)' =
                       IF s = call[q].request THEN Decided(q).status ELSE RequestStatus(s)
                /\ RequestReason(s)' =
                       IF s = call[q].request THEN Decided(q).rejectionReason
                                              ELSE RequestReason(s)
           /\ Decided(q).status \in Decisions
           /\ \/ /\ RequestStatus(call[q].request) = "NEW"
                 /\ Decided(q).status = call[q].status
                 /\ Decided(q).rejectionReason = Reason(q)
              \/ DecidesAgain(q)
<1>1. /\ call[q].request \in RequestIds
      /\ request[call[q].request] \in RequestRow
      /\ Decided(q) \in RequestRow
  BY DecidedType DEF WorkflowInv, TypeInv
<1>2. \A s \in RequestIds :
        /\ RequestStatus(s)' =
               IF s = call[q].request THEN Decided(q).status ELSE RequestStatus(s)
        /\ RequestReason(s)' =
               IF s = call[q].request THEN Decided(q).rejectionReason ELSE RequestReason(s)
  BY <1>1, WrittenRow DEF WorkflowInv, TypeInv
<1>3. RequestStatus(call[q].request) = request[call[q].request].status
  BY <1>1, NoRowAssumption DEF RequestStatus
<1>4. Free(q)'
  BY DEF Free, Finish, WorkflowInv, TypeInv, TypeOK
<1>5. QED
  BY <1>1, <1>2, <1>3, <1>4, DecidedStatus DEF DecidesAgain, At

LEMMA ApprovalStep ==
    ASSUME WorkflowInv, NEW q \in Calls, NEW t \in Tenants, WriteApproval(q, t)
    PROVE  UndecidedHasNothing' /\ StepOfWorkflow
<1> DEFINE r == call[q].request
<1>1. /\ At(q, "decide", "write") /\ call[q].status = "APPROVED"
      /\ InsertTenant(t, call[q].row, r)
      /\ request' = [request EXCEPT ![r] = Decided(q)] /\ Finish(q)
  BY DEF WriteApproval
<1>2. /\ r \in RequestIds
      /\ \A s \in RequestIds :
           /\ RequestStatus(s)' = IF s = r THEN Decided(q).status ELSE RequestStatus(s)
           /\ RequestReason(s)' =
                  IF s = r THEN Decided(q).rejectionReason ELSE RequestReason(s)
      /\ Decided(q).status \in Decisions
      /\ \/ /\ RequestStatus(r) = "NEW"
            /\ Decided(q).status = "APPROVED"
            /\ Decided(q).rejectionReason = NoRow
         \/ DecidesAgain(q)
  BY <1>1, DecisionStep DEF Reason
<1>3. origin[t] = NoRow /\ origin' = [origin EXCEPT ![t] = r]
  BY <1>1 DEF InsertTenant, WorkflowInv, OriginHasTenant
<1>4. \A s \in RequestIds :
          TenantsFrom(s)' = IF s = r THEN TenantsFrom(s) \union {t} ELSE TenantsFrom(s)
  <2> SUFFICES ASSUME NEW s \in RequestIds
               PROVE  TenantsFrom(s)' =
                          IF s = r THEN TenantsFrom(s) \union {t} ELSE TenantsFrom(s)
    OBVIOUS
  <2>1. \A u \in Tenants : origin'[u] = IF u = t THEN r ELSE origin[u]
    BY <1>3 DEF WorkflowInv, TypeInv, TypeOK
  <2>2. NoRow # s
    BY NoRowAssumption
  <2>3. QED
    BY <1>3, <2>1, <2>2 DEF TenantsFrom
<1>5. UndecidedHasNothing'
  BY <1>2, <1>4 DEF WorkflowInv, UndecidedHasNothing, Decisions
<1>6. CASE /\ RequestStatus(r) = "NEW"
           /\ Decided(q).status = "APPROVED"
           /\ Decided(q).rejectionReason = NoRow
  <2>1. TenantsFrom(r) = {} /\ RequestReason(r) = NoRow
    BY <1>2, <1>6 DEF WorkflowInv, UndecidedHasNothing
  <2>2. \A s \in RequestIds :
          /\ RequestStatus(s)' = IF s = r THEN "APPROVED" ELSE RequestStatus(s)
          /\ RequestReason(s)' = RequestReason(s)
    BY <1>2, <1>6, <2>1
  <2>3. Approval!Approve(r, t)
    BY <1>2, <1>4, <1>6, <2>1, <2>2 DEF Approval!Approve
  <2>4. QED
    BY <1>2, <1>5, <2>3 DEF StepOfWorkflow, Approval!Next
<1>7. CASE DecidesAgain(q)
  BY <1>5, <1>7 DEF StepOfWorkflow
<1>8. QED
  BY <1>2, <1>6, <1>7

LEMMA RejectionStep ==
    ASSUME WorkflowInv, NEW q \in Calls, WriteRejection(q)
    PROVE  UndecidedHasNothing' /\ StepOfWorkflow
<1> DEFINE r == call[q].request
           why == call[q].rejectionReason
<1>1. /\ At(q, "decide", "write") /\ call[q].status = "REJECTED"
      /\ request' = [request EXCEPT ![r] = Decided(q)] /\ Finish(q)
      /\ origin' = origin
  BY DEF WriteRejection
<1>2. /\ r \in RequestIds
      /\ \A s \in RequestIds :
           /\ RequestStatus(s)' = IF s = r THEN Decided(q).status ELSE RequestStatus(s)
           /\ RequestReason(s)' =
                  IF s = r THEN Decided(q).rejectionReason ELSE RequestReason(s)
      /\ Decided(q).status \in Decisions
      /\ \/ /\ RequestStatus(r) = "NEW"
            /\ Decided(q).status = "REJECTED"
            /\ Decided(q).rejectionReason = why
         \/ DecidesAgain(q)
  BY <1>1, DecisionStep DEF Reason
<1>3. \A s : TenantsFrom(s)' = TenantsFrom(s)
  BY <1>1 DEF TenantsFrom
<1>4. UndecidedHasNothing'
  BY <1>2, <1>3 DEF WorkflowInv, UndecidedHasNothing, Decisions
<1>5. CASE /\ RequestStatus(r) = "NEW"
           /\ Decided(q).status = "REJECTED"
           /\ Decided(q).rejectionReason = why
  <2>1. why \in Reasons
    BY <1>1, DecidedType DEF WorkflowInv, TypeInv, RejectionsHaveReason, At
  <2>2. \A s \in RequestIds :
          /\ RequestStatus(s)' = IF s = r THEN "REJECTED" ELSE RequestStatus(s)
          /\ RequestReason(s)' = IF s = r THEN why ELSE RequestReason(s)
    BY <1>2, <1>5
  <2> HIDE DEF why
  <2>3. Approval!Reject(r, why)
    BY <1>2, <1>3, <1>5, <2>2 DEF Approval!Reject
  <2>4. QED
    BY <1>2, <1>4, <2>1, <2>3 DEF StepOfWorkflow, Approval!Next
<1>6. CASE DecidesAgain(q)
  BY <1>4, <1>6 DEF StepOfWorkflow
<1>7. QED
  BY <1>2, <1>5, <1>6

\* What becomes of a request on record: it stays as it is, or is decided.
LEMMA RecordStep ==
    ASSUME WorkflowInv, [Next]_vars, NEW r \in RequestIds, request[r] # NoRow
    PROVE  request'[r] = request[r] \/ request'[r].status \in Decisions
<1>1. ASSUME NEW q \in Calls, At(q, "decide", "write"),
             request' = [request EXCEPT ![call[q].request] = Decided(q)]
      PROVE  request'[r] = request[r] \/ request'[r].status \in Decisions
  BY <1>1, DecidedStatus DEF WorkflowInv, TypeInv, TypeOK
<1>2. ASSUME NEW s \in RequestIds, NEW row \in TenantRow, CreateTenantRequest(s, row)
      PROVE  request'[r] = request[r]
  BY <1>2 DEF CreateTenantRequest
<1>3. CASE request' = request
  BY <1>3
<1>4. QED
  BY <1>1, <1>2, <1>3 DEF Next, vars, WriteCreate, WriteUpdate, WriteApproval,
     WriteRejection, StartCreate, StartUpdate, CheckUpdate, StartDecision,
     CheckDecision, Reread, Abort, Becomes

\* What decisions in flight have read and been asked keeps its promises.
LEMMA NextDecisions ==
    ASSUME WorkflowInv, [Next]_vars
    PROVE  NewAsRead' /\ RejectionsHaveReason'
<1>1. NewAsRead'
  <2> SUFFICES ASSUME NEW q \in Calls, call'[q].op = "decide", call'[q].at = "write",
                      request'[call'[q].request].status = "NEW"
               PROVE  call'[q].reread = request'[call'[q].request]
    BY DEF NewAsRead, At
  <2>1. SameDecision(q)
    BY DecisionInFlight DEF WorkflowInv, TypeInv, NewDecision
  <2>2. call[q].request \in RequestIds /\ request[call[q].request] # NoRow
    BY <2>1, DecisionReads DEF SameDecision, WorkflowInv, TypeInv, DecisionsExist
  <2>3. request'[call[q].request] = request[call[q].request]
    BY <2>1, <2>2, RecordStep DEF SameDecision, Decisions
  <2> QED
    BY <2>1, <2>3 DEF SameDecision, WorkflowInv, NewAsRead, At
<1>2. RejectionsHaveReason'
  <2> SUFFICES ASSUME NEW q \in Calls, call'[q].op = "decide",
                      call'[q].status = "REJECTED"
               PROVE  call'[q].rejectionReason # NoRow
    BY DEF RejectionsHaveReason
  <2> QED
    BY DecisionInFlight DEF SameDecision, NewDecision, WorkflowInv, TypeInv,
       RejectionsHaveReason
<1> QED
  BY <1>1, <1>2

LEMMA NextWorkflow == WorkflowInv /\ [Next]_vars => WorkflowInv' /\ StepOfWorkflow
<1> SUFFICES ASSUME WorkflowInv, [Next]_vars PROVE WorkflowInv' /\ StepOfWorkflow
  OBVIOUS
<1>1. TypeInv' /\ OriginHasTenant' /\ NewAsRead' /\ RejectionsHaveReason'
  BY NextTypeInv, NextOrigin, NextDecisions DEF WorkflowInv
<1>2. CASE \E r \in RequestIds, row \in TenantRow : CreateTenantRequest(r, row)
  BY <1>1, <1>2, SubmitStep DEF WorkflowInv, StepOfWorkflow, Approval!Next
<1>3. CASE \E q \in Calls, t \in Tenants : WriteApproval(q, t)
  BY <1>1, <1>3, ApprovalStep DEF WorkflowInv
<1>4. CASE \E q \in Calls : WriteRejection(q)
  BY <1>1, <1>4, RejectionStep DEF WorkflowInv
<1>5. CASE /\ ~\E r \in RequestIds, row \in TenantRow : CreateTenantRequest(r, row)
           /\ ~\E q \in Calls, t \in Tenants : WriteApproval(q, t)
           /\ ~\E q \in Calls : WriteRejection(q)
  <2>1. request' = request /\ origin' = origin
    BY <1>5, OtherSteps DEF WorkflowInv
  <2>2. UndecidedHasNothing'
    BY <2>1 DEF WorkflowInv, UndecidedHasNothing, RequestStatus, RequestReason, TenantsFrom
  <2>3. QED
    BY <1>1, <2>1, <2>2 DEF WorkflowInv, StepOfWorkflow
<1>6. QED
  BY <1>2, <1>3, <1>4, <1>5

LEMMA WorkflowInvariant == Spec => []WorkflowInv
<1>1. Init => WorkflowInv
  BY InitWorkflow
<1>2. WorkflowInv /\ [Next]_vars => WorkflowInv'
  BY NextWorkflow
<1>3. QED
  BY <1>1, <1>2, PTL DEF Spec

\* However many calls overlap, only a decision on a request that another call
\* has decided since it was read departs from the documented workflow.
THEOREM WorkflowWhenDecidedOnce == Spec => WorkflowUnlessDecidedAgain
<1>1. WorkflowInv /\ [Next]_vars => StepOfWorkflow
  BY NextWorkflow
<1>2. QED
  BY <1>1, WorkflowInvariant, PTL DEF Spec, WorkflowUnlessDecidedAgain, StepOfWorkflow

-----------------------------------------------------------------------------
(* One call at a time: the code implements the approval workflow. *)

\* What a decision in flight has read is what is there.
ReadIsCurrent ==
    \A q \in Calls : call[q].op = "decide" => RequestStatus(call[q].request) = "NEW"

LEMMA NextRead ==
    ASSUME NEW c, Calls = {c}, TypeInv, ReadIsCurrent, [Next]_vars
    PROVE  ReadIsCurrent'
<1> SUFFICES ASSUME call'[c].op = "decide"
             PROVE  /\ request'[call'[c].request] # NoRow
                    /\ request'[call'[c].request].status = "NEW"
  BY DEF ReadIsCurrent, RequestStatus
<1>1. CASE SameDecision(c)
  <2>1. /\ request[call[c].request] # NoRow
        /\ request[call[c].request].status = "NEW"
    BY <1>1, NoRowAssumption DEF SameDecision, ReadIsCurrent, RequestStatus
  <2>2. ASSUME NEW q \in Calls, Finish(q)
        PROVE  FALSE
    BY <2>2 DEF Finish, Idle, TypeInv, TypeOK
  <2>3. ASSUME NEW r \in RequestIds, NEW row \in TenantRow, CreateTenantRequest(r, row)
        PROVE  request'[call[c].request] = request[call[c].request]
    BY <2>1, <2>3 DEF CreateTenantRequest, TypeInv, TypeOK
  <2>4. request'[call[c].request] = request[call[c].request]
    BY <2>2, <2>3 DEF Next, vars, WriteCreate, WriteUpdate, WriteApproval,
       WriteRejection, StartCreate, StartUpdate, CheckUpdate, StartDecision,
       CheckDecision, Reread, Abort, Becomes
  <2>5. QED
    BY <1>1, <2>1, <2>4 DEF SameDecision
<1>2. CASE NewDecision(c)
  BY <1>2 DEF NewDecision
<1>3. QED
  BY <1>1, <1>2, DecisionInFlight DEF TypeInv

\* When requests to the API do not overlap, the handlers of tenant requests do
\* what the documentation promises: one tenant for an approved request, none
\* for a rejected one, and a decision is final.
THEOREM OneCallFollowsWorkflow ==
    ASSUME NEW c, Calls = {c}
    PROVE  Spec => ApprovalWorkflow
<1>1. Init => ReadIsCurrent /\ Approval!Init
  BY InitWorkflow DEF Init, ReadIsCurrent, Idle
<1>2. TypeInv /\ ReadIsCurrent /\ [Next]_vars => ReadIsCurrent'
  BY NextRead
\* No decision is written on a request that is decided.
<1>3. ASSUME WorkflowInv, ReadIsCurrent, [Next]_vars
      PROVE  [Approval!Next]_(Approval!vars)
  <2>1. ~\E q \in Calls : DecidesAgain(q)
    BY <1>3, NoRowAssumption DEF DecidesAgain, ReadIsCurrent, RequestStatus
  <2>2. [Approval!Next]_<<request, origin>>
    BY <1>3, <2>1, NextWorkflow DEF StepOfWorkflow
  <2>3. UNCHANGED <<request, origin>> => UNCHANGED Approval!vars
    BY DEF Approval!vars, RequestStatus, RequestReason, TenantsFrom
  <2>4. QED
    BY <2>2, <2>3
<1>4. QED
  BY <1>1, <1>2, <1>3, WorkflowInvariant, TypeInvariant, PTL
  DEF Spec, ApprovalWorkflow, Approval!Spec

-----------------------------------------------------------------------------
(* What follows from the workflow. *)

\* An approved request has the one tenant it was approved with, any other none.
OneTenantIfApproved ==
    \A r \in RequestIds :
        IF RequestStatus(r) = "APPROVED"
        THEN \E t \in Tenants : TenantsFrom(r) = {t}
        ELSE TenantsFrom(r) = {}

\* A request that is decided stays so, with the tenant it has.
DecisionsFinal ==
    \A r \in RequestIds :
        RequestStatus(r) \in {"APPROVED", "REJECTED"} =>
            RequestStatus(r)' = RequestStatus(r) /\ TenantsFrom(r)' = TenantsFrom(r)

LEMMA WorkflowDecides ==
    ASSUME OneTenantIfApproved, [Approval!Next]_(Approval!vars)
    PROVE  OneTenantIfApproved' /\ DecisionsFinal
<1> DEFINE status == [r \in RequestIds |-> RequestStatus(r)]
           tenantsOf == [r \in RequestIds |-> TenantsFrom(r)]
<1>0. /\ \A r \in RequestIds :
             status[r] = RequestStatus(r) /\ tenantsOf[r] = TenantsFrom(r)
      /\ \A r \in RequestIds :
             status'[r] = RequestStatus(r)' /\ tenantsOf'[r] = TenantsFrom(r)'
      /\ status = [r \in RequestIds |-> status[r]]
      /\ tenantsOf = [r \in RequestIds |-> tenantsOf[r]]
  OBVIOUS
<1>1. ASSUME NEW r \in RequestIds, Approval!Submit(r)
      PROVE  status[r] = "none" /\ status' = [status EXCEPT ![r] = "NEW"]
             /\ tenantsOf' = tenantsOf
  BY <1>1 DEF Approval!Submit
<1>2. ASSUME NEW r \in RequestIds, NEW t \in Tenants, Approval!Approve(r, t)
      PROVE  status[r] = "NEW" /\ status' = [status EXCEPT ![r] = "APPROVED"]
             /\ tenantsOf' = [tenantsOf EXCEPT ![r] = {t}]
  BY <1>2 DEF Approval!Approve
<1>3. ASSUME NEW r \in RequestIds, NEW why \in Reasons, Approval!Reject(r, why)
      PROVE  status[r] = "NEW" /\ status' = [status EXCEPT ![r] = "REJECTED"]
             /\ tenantsOf' = tenantsOf
  BY <1>3 DEF Approval!Reject
<1>4. UNCHANGED Approval!vars => status' = status /\ tenantsOf' = tenantsOf
  BY DEF Approval!vars
<1>5. \/ status' = status /\ tenantsOf' = tenantsOf
      \/ \E r \in RequestIds :
            /\ status[r] \in {"none", "NEW"}
            /\ \/ /\ \E to \in {"NEW", "REJECTED"} : status' = [status EXCEPT ![r] = to]
                  /\ tenantsOf' = tenantsOf
               \/ \E t \in Tenants : /\ status' = [status EXCEPT ![r] = "APPROVED"]
                                      /\ tenantsOf' = [tenantsOf EXCEPT ![r] = {t}]
  BY <1>1, <1>2, <1>3, <1>4 DEF Approval!Next
<1>6. \A r \in RequestIds : IF status[r] = "APPROVED" THEN \E t \in Tenants : tenantsOf[r] = {t}
                                                     ELSE tenantsOf[r] = {}
  BY <1>0 DEF OneTenantIfApproved
<1>7. PICK s, ts : status = s /\ tenantsOf = ts
  OBVIOUS
<1>8. PICK s1, ts1 : status' = s1 /\ tenantsOf' = ts1
  OBVIOUS
<1> HIDE DEF status, tenantsOf
<1>9. /\ \A r \in RequestIds : IF s1[r] = "APPROVED" THEN \E t \in Tenants : ts1[r] = {t}
                                                     ELSE ts1[r] = {}
      /\ \A r \in RequestIds : s[r] \in {"APPROVED", "REJECTED"} => s1[r] = s[r] /\ ts1[r] = ts[r]
  <2>1. s = [r \in RequestIds |-> s[r]] /\ ts = [r \in RequestIds |-> ts[r]]
    BY <1>0, <1>7
  <2> QED
    BY <1>5, <1>6, <1>7, <1>8, <2>1
<1> QED
  BY <1>0, <1>7, <1>8, <1>9 DEF OneTenantIfApproved, DecisionsFinal

\* With one call at a time, whatever calls fail or repeat, a request that was
\* approved has one tenant, any other has none, and a decision is never changed.
THEOREM OneCallOneTenant ==
    ASSUME NEW c, Calls = {c}
    PROVE  Spec => [](OneTenantIfApproved) /\ [][DecisionsFinal]_vars
<1>1. Approval!Init => OneTenantIfApproved
  <2> SUFFICES ASSUME Approval!Init, NEW r \in RequestIds
               PROVE  RequestStatus(r) = "none" /\ TenantsFrom(r) = {}
    BY DEF OneTenantIfApproved
  <2> QED
    BY DEF Approval!Init
<1>2. OneTenantIfApproved /\ [Approval!Next]_(Approval!vars) => OneTenantIfApproved'
  BY WorkflowDecides
<1>3. OneTenantIfApproved /\ [Approval!Next]_(Approval!vars) => [DecisionsFinal]_vars
  BY WorkflowDecides
<1> QED
  BY <1>1, <1>2, <1>3, OneCallFollowsWorkflow, PTL DEF ApprovalWorkflow, Approval!Spec

\* The reason on record and the status go together at every step of the workflow.
Reasoned ==
    \A r \in RequestIds : RequestReason(r) # NoRow <=> RequestStatus(r) = "REJECTED"

LEMMA WorkflowReasons ==
    ASSUME Reasoned, [Approval!Next]_(Approval!vars)
    PROVE  Reasoned'
<1> DEFINE status == [r \in RequestIds |-> RequestStatus(r)]
           reason == [r \in RequestIds |-> RequestReason(r)]
<1>0. /\ \A r \in RequestIds :
             status[r] = RequestStatus(r) /\ reason[r] = RequestReason(r)
      /\ \A r \in RequestIds :
             status'[r] = RequestStatus(r)' /\ reason'[r] = RequestReason(r)'
      /\ status = [r \in RequestIds |-> status[r]]
      /\ reason = [r \in RequestIds |-> reason[r]]
  OBVIOUS
<1>1. ASSUME NEW r \in RequestIds, Approval!Submit(r)
      PROVE  status[r] = "none" /\ status' = [status EXCEPT ![r] = "NEW"]
             /\ reason' = reason
  BY <1>1 DEF Approval!Submit
<1>2. ASSUME NEW r \in RequestIds, NEW t \in Tenants, Approval!Approve(r, t)
      PROVE  status[r] = "NEW" /\ status' = [status EXCEPT ![r] = "APPROVED"]
             /\ reason' = reason
  BY <1>2 DEF Approval!Approve
<1>3. ASSUME NEW r \in RequestIds, NEW why \in Reasons, Approval!Reject(r, why)
      PROVE  status[r] = "NEW" /\ status' = [status EXCEPT ![r] = "REJECTED"]
             /\ reason' = [reason EXCEPT ![r] = why]
  BY <1>3 DEF Approval!Reject
<1>4. UNCHANGED Approval!vars => status' = status /\ reason' = reason
  BY DEF Approval!vars
<1>5. \/ status' = status /\ reason' = reason
      \/ \E r \in RequestIds :
            /\ status[r] \in {"none", "NEW"}
            /\ \/ /\ \E to \in {"NEW", "APPROVED"} : status' = [status EXCEPT ![r] = to]
                  /\ reason' = reason
               \/ \E why \in Reasons : /\ status' = [status EXCEPT ![r] = "REJECTED"]
                                        /\ reason' = [reason EXCEPT ![r] = why]
  BY <1>1, <1>2, <1>3, <1>4 DEF Approval!Next
<1>6. \A r \in RequestIds : reason[r] # NoRow <=> status[r] = "REJECTED"
  BY <1>0 DEF Reasoned
<1>7. PICK s, why : status = s /\ reason = why
  OBVIOUS
<1>8. PICK s1, why1 : status' = s1 /\ reason' = why1
  OBVIOUS
<1> HIDE DEF status, reason
<1>9. \A r \in RequestIds : why1[r] # NoRow <=> s1[r] = "REJECTED"
  <2>1. s = [r \in RequestIds |-> s[r]] /\ why = [r \in RequestIds |-> why[r]]
    BY <1>0, <1>7
  <2> QED
    BY <1>5, <1>6, <1>7, <1>8, <2>1, NoRowAssumption
<1> QED
  BY <1>0, <1>8, <1>9 DEF Reasoned

\* With one call at a time the reason on record is what openapi.yaml says: a
\* request has one exactly if it was rejected, whatever calls fail or repeat.
THEOREM OneCallReasons ==
    ASSUME NEW c, Calls = {c}
    PROVE  Spec => []ReasonIffRejected
<1>1. Approval!Init => Reasoned
  <2> SUFFICES ASSUME Approval!Init, NEW r \in RequestIds
               PROVE  RequestStatus(r) = "none" /\ RequestReason(r) = NoRow
    BY DEF Reasoned
  <2> QED
    BY DEF Approval!Init
<1>2. Reasoned /\ [Approval!Next]_(Approval!vars) => Reasoned'
  BY WorkflowReasons
<1>3. Reasoned => ReasonIffRejected
  BY DEF Reasoned, ReasonIffRejected, RequestReason, RequestStatus
<1> QED
  BY <1>1, <1>2, <1>3, OneCallFollowsWorkflow, PTL DEF ApprovalWorkflow, Approval!Spec
=============================================================================
