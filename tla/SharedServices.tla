--------------------------- MODULE SharedServices ---------------------------
(***************************************************************************)
(* Connected services ("shared services" in the code), the roles they      *)
(* define and the tenants they are associated with.  Every variable is a   *)
(* table, every action a handler that runs alone; a handler that throws    *)
(* changes nothing.  Rows of the three tables are never deleted: is_deleted *)
(* exists on two of them and no code sets it.                              *)
(*                                                                         *)
(* Display texts (description, landing page) are left out: an update of    *)
(* those alone is an Update that asks for no column.                       *)
(***************************************************************************)
EXTENDS FiniteSets

CONSTANTS
    Services,     \* SharedService ids: a pool from which inserts draw
    RoleIds,      \* SharedServiceRole ids, likewise
    Tenants,      \* the tenants
    Columns,      \* columns of SharedService with a unique key: name,
                  \* displayName, clientIdentifier
    Values,       \* values of these columns
    RoleNames,    \* names of roles
    Idps,         \* identity providers a role can be restricted to
    NoRow         \* "there is no such row", or a field left out of a body

Key == [Columns -> Values]
ServiceRow == [key : Key, isActive : BOOLEAN]
\* No identity provider (null, or an empty list, stored as null) allows them all.
Providers == SUBSET Idps
RoleRow == [service : Services, name : RoleNames, idps : Providers]

ASSUME NoRowAssumption ==
    /\ NoRow \notin Services \union RoleIds \union Values \union RoleNames
    /\ \A x \in Providers : x # NoRow
    /\ \A x \in ServiceRow \union RoleRow : x # NoRow

VARIABLES
    service,      \* SharedService
    role,         \* SharedServiceRole
    association   \* TenantSharedService: the pairs of tenant and service

tables == <<service, role, association>>

TypeOK ==
    /\ service \in [Services -> ServiceRow \union {NoRow}]
    /\ role \in [RoleIds -> RoleRow \union {NoRow}]
    /\ association \subseteq Tenants \X Services

-----------------------------------------------------------------------------
(* What the handlers ask of the tables. *)

Exists(s) == service[s] # NoRow
IsActive(s) == Exists(s) /\ service[s].isActive
RolesOf(s) == {r \in RoleIds : role[r] # NoRow /\ role[r].service = s}
RoleNamed(s, name) == \E r \in RolesOf(s) : role[r].name = name

\* Another service has this value in this column.
TakenByOther(s, c, value) ==
    \E other \in Services \ {s} : Exists(other) /\ service[other].key[c] = value

\* The unique keys let this row be written at s.
UniqueKeysNone(s, key) == TRUE
UniqueKeys(s, key) == \A c \in Columns : ~TakenByOther(s, c, key[c])

\* A field of the body, or what there is if the body leaves it out.
OrElse(field, current) == IF field = NoRow THEN current ELSE field
Overlay(fields, key) == [c \in Columns |-> OrElse(fields[c], key[c])]

\* What a handler hands to save: the row it read with the fields of the body.
UpdatedRow(row, fields) == [row EXCEPT !.key = Overlay(fields, row.key)]
UpdatedRole(row, name, idps) ==
    [row EXCEPT !.name = OrElse(name, row.name), !.idps = OrElse(idps, row.idps)]

\* What the validator lets through: a service has a role, and an update says
\* something.  One of texts only is one that leaves all of these columns out.
RolesInBody == (SUBSET RoleNames) \ {{}}
ColumnsInBody == [Columns -> Values \union {NoRow}]

\* A row for each of these names, with ids of the database's choice, under the
\* unique key on name and service.
InsertRolesUnsaved(s, names, idps) == UNCHANGED role
InsertRoles(s, names, idps) ==
    /\ \A name \in names : ~RoleNamed(s, name)
    /\ \E id \in [names -> {r \in RoleIds : role[r] = NoRow}] :
        /\ \A n, m \in names : id[n] = id[m] => n = m
        /\ role' = [r \in RoleIds |->
               IF \E n \in names : id[n] = r
               THEN [service |-> s, name |-> CHOOSE n \in names : id[n] = r,
                     idps |-> idps]
               ELSE role[r]]

-----------------------------------------------------------------------------
(* The handlers. *)

Init ==
    /\ service = [s \in Services |-> NoRow]
    /\ role = [r \in RoleIds |-> NoRow]
    /\ association = {}

CreateSharedService(s, row, names, idps) ==
    /\ ~Exists(s)
    /\ UniqueKeys(s, row.key)
    /\ service' = [service EXCEPT ![s] = row]
    /\ InsertRoles(s, names, idps)
    /\ UNCHANGED association

UpdateSharedService(s, fields) ==
    /\ Exists(s)
    /\ \A c \in Columns : fields[c] # NoRow => ~TakenByOther(s, c, fields[c])
    /\ RolesOf(s) # {}
    /\ service' = [service EXCEPT ![s] = UpdatedRow(service[s], fields)]
    /\ UNCHANGED <<role, association>>

UpdateSharedServiceStatus(s, isActive) ==
    /\ Exists(s)
    /\ service[s].isActive # isActive
    /\ RolesOf(s) # {}
    /\ service' = [service EXCEPT ![s].isActive = isActive]
    /\ UNCHANGED <<role, association>>

AddSharedServiceRoles(s, names, idps) ==
    /\ IsActive(s)
    /\ InsertRoles(s, names, idps)
    /\ UNCHANGED <<service, association>>

UpdateSharedServiceRole(r, name, idps) ==
    /\ role[r] # NoRow
    /\ \A other \in RolesOf(role[r].service) \ {r} : role[other].name # name
    /\ role' = [role EXCEPT ![r] = UpdatedRole(role[r], name, idps)]
    /\ UNCHANGED <<service, association>>

AssociateSharedServiceToTenant(t, s) ==
    /\ IsActive(s)
    /\ <<t, s>> \notin association
    /\ association' = association \union {<<t, s>>}
    /\ UNCHANGED <<service, role>>

Next ==
    \/ \E s \in Services :
        \/ \E row \in ServiceRow, names \in RolesInBody, idps \in Providers :
            CreateSharedService(s, row, names, idps)
        \/ \E fields \in ColumnsInBody : UpdateSharedService(s, fields)
        \/ \E isActive \in BOOLEAN : UpdateSharedServiceStatus(s, isActive)
        \/ \E names \in RolesInBody, idps \in Providers :
            AddSharedServiceRoles(s, names, idps)
        \/ \E t \in Tenants : AssociateSharedServiceToTenant(t, s)
    \/ \E r \in RoleIds, name \in RoleNames \union {NoRow},
          idps \in Providers \union {NoRow} :
        UpdateSharedServiceRole(r, name, idps)

Spec == Init /\ [][Next]_tables

-----------------------------------------------------------------------------
(* Properties. *)

\* No two services share a name, a display name or a client identifier, by
\* which a token's audience finds its service; no two roles of a service share
\* a name.
NoTwoAlike ==
    /\ \A s, other \in Services, c \in Columns :
        Exists(s) /\ Exists(other) /\ service[s].key[c] = service[other].key[c] =>
            s = other
    /\ \A r, other \in RoleIds :
        role[r] # NoRow /\ role[other] # NoRow
        /\ role[r].service = role[other].service /\ role[r].name = role[other].name =>
            r = other

\* A service always has a role, so the load that ends each update of it never
\* fails; roles and associations are of services that exist.
ServicesLoad ==
    /\ \A s \in Services : Exists(s) <=> RolesOf(s) # {}
    /\ \A x \in association : Exists(x[2])
=============================================================================
