------------------------------ MODULE ApiRoutes ------------------------------
(***************************************************************************)
(* The routes of the backend, by the names of routes.constants.ts: what a  *)
(* request passes before its handler (routes.ts), and what the handler     *)
(* does with the database and afterwards (the services).                   *)
(*                                                                         *)
(*   checks   the middleware that needs no database, in order              *)
(*   access   whether checkTenantAccess comes next                         *)
(*   roles    the roles it requires one of; {}: any active user will do    *)
(*   service  whether it is open to the tokens of connected services, for  *)
(*            which checkTenantAccess asks if the tenant has the service   *)
(*   does     "write" (one transaction), "read" or "search" (SSO service)  *)
(*   queries  how many connections a read takes from the pool in turn      *)
(*   after    after the commit: "mail"; "find" what the mail is about and  *)
(*            mail; "name" the creator; or "nothing"                       *)
(*   members  whether it can change who is in a tenant and with what roles *)
(***************************************************************************)
EXTENDS Naturals, Sequences, TLC

-----------------------------------------------------------------------------
(* Middleware. *)

Managers == {"TMS.TENANT_OWNER", "TMS.USER_ADMIN"}
Owners == {"TMS.TENANT_OWNER"}

Open(checks) == [checks |-> checks, access |-> FALSE, roles |-> {}, service |-> FALSE]

\* checkJwt, validate, checkTenantAccess(roles)
OnTenant(roles) == [Open(<<"token", "body">>) EXCEPT !.access = TRUE, !.roles = roles]

\* checkJwt, checkOperationsAdmin, validate
Admin == Open(<<"token", "admin", "body">>)

\* checkJwt({ sharedServiceAccess: true })
ForServices(route) == [route EXCEPT !.service = TRUE]

TenantRoutes ==
    [CREATE_TENANTS |-> Admin,
     ADD_TENANT_USERS |-> OnTenant(Managers),
     REMOVE_TENANT_USER |-> OnTenant(Managers),
     GET_USER_TENANTS |-> ForServices(Open(<<"token", "body">>)),
     GET_USER_TENANT_REQUESTS |-> Open(<<"token", "body">>),
     GET_TENANT_USERS |-> ForServices(OnTenant({})),
     ASSIGN_USER_ROLES |-> OnTenant(Managers),
     GET_TMS_ROLES |-> Open(<<"token">>),
     GET_USER_ROLES |-> Open(<<"token", "body">>),
     UNASSIGN_USER_ROLES |-> OnTenant(Managers),
     SEARCH_BC_GOV_IDIR_USERS |-> Open(<<"token", "body">>),
     SEARCH_BC_GOV_BCEID_USERS |-> Open(<<"token", "body">>),
     GET_TENANT |-> OnTenant({}),
     GET_ROLES_FOR_SSO_USER |-> ForServices(OnTenant({})),
     UPDATE_TENANT |-> OnTenant(Owners),
     CREATE_TENANT_REQUEST |-> Open(<<"token", "body">>),
     UPDATE_TENANT_REQUEST_STATUS |-> Admin,
     GET_TENANT_REQUESTS |-> Admin]

GroupRoutes ==
    [CREATE_GROUP |-> OnTenant(Managers),
     UPDATE_GROUP |-> OnTenant(Managers),
     ADD_GROUP_USER |-> OnTenant(Managers),
     REMOVE_GROUP_USER |-> OnTenant(Managers),
     GET_GROUP |-> OnTenant({}),
     GET_TENANT_GROUPS |-> ForServices(OnTenant({}))]

SharedServiceRoutes ==
    [CREATE_SHARED_SERVICE |-> Admin,
     UPDATE_SHARED_SERVICE |-> Admin,
     UPDATE_SHARED_SERVICE_STATUS |-> Admin,
     ADD_SHARED_SERVICE_ROLES |-> Open(<<"token", "body", "admin">>),
     UPDATE_SHARED_SERVICE_ROLE |-> Open(<<"token", "body", "admin">>),
     GET_ALL_ACTIVE_SHARED_SERVICES |-> Open(<<"token">>),
     GET_SHARED_SERVICE_ROLES_FOR_GROUP |-> ForServices(OnTenant({})),
     UPDATE_SHARED_SERVICE_ROLES_FOR_GROUP |-> OnTenant(Managers),
     ASSOCIATE_SHARED_SERVICE_TO_TENANT |-> OnTenant(Owners),
     GET_SHARED_SERVICES_FOR_TENANT |-> OnTenant({}),
     GET_EFFECTIVE_SHARED_SERVICE_ROLES |-> ForServices(OnTenant({})),
     GET_USER_GROUPS_WITH_SHARED_SERVICE_ROLES |-> ForServices(OnTenant({})),
     GET_TENANT_USER |-> OnTenant(Managers)]

Routes == TenantRoutes @@ GroupRoutes @@ SharedServiceRoutes

-----------------------------------------------------------------------------
(* Handlers. *)

Writes(after) == [does |-> "write", queries |-> 1, after |-> after, members |-> FALSE]
Changes(after) == [Writes(after) EXCEPT !.members = TRUE]
Reads(queries) ==
    [does |-> "read", queries |-> queries, after |-> "nothing", members |-> FALSE]
Searches == [does |-> "search", queries |-> 1, after |-> "nothing", members |-> FALSE]

TenantHandlers ==
    [CREATE_TENANTS |-> Changes("nothing"),
     ADD_TENANT_USERS |-> Changes("mail"),
     GET_USER_TENANTS |-> Reads(1),
     GET_TENANT_USERS |-> Reads(1)]
RoleHandlers ==
    [ASSIGN_USER_ROLES |-> Changes("nothing"),
     GET_TMS_ROLES |-> Reads(1),
     GET_USER_ROLES |-> Reads(1),
     UNASSIGN_USER_ROLES |-> Changes("nothing"),
     GET_TENANT |-> Reads(2)]
TenantUserHandlers ==
    [UPDATE_TENANT |-> Writes("nothing"),
     GET_ROLES_FOR_SSO_USER |-> Reads(2),
     REMOVE_TENANT_USER |-> Changes("find"),
     GET_TENANT_USER |-> Reads(3)]

TenantRequestHandlers ==
    [CREATE_TENANT_REQUEST |-> Writes("mail"),
     UPDATE_TENANT_REQUEST_STATUS |-> Changes("mail"),
     GET_TENANT_REQUESTS |-> Reads(1),
     GET_USER_TENANT_REQUESTS |-> Reads(1)]

GroupUserHandlers ==
    [CREATE_GROUP |-> Writes("name"),
     ADD_GROUP_USER |-> Changes("find")]
GroupHandlers ==
    [UPDATE_GROUP |-> Writes("name"),
     REMOVE_GROUP_USER |-> Writes("nothing"),
     GET_GROUP |-> Reads(3),
     GET_TENANT_GROUPS |-> Reads(2)]
GroupServiceRoleHandlers ==
    [GET_SHARED_SERVICE_ROLES_FOR_GROUP |-> Reads(2),
     UPDATE_SHARED_SERVICE_ROLES_FOR_GROUP |-> Writes("nothing"),
     GET_USER_GROUPS_WITH_SHARED_SERVICE_ROLES |-> Reads(2),
     GET_EFFECTIVE_SHARED_SERVICE_ROLES |-> Reads(2)]

SharedServiceHandlers ==
    [CREATE_SHARED_SERVICE |-> Writes("nothing"),
     UPDATE_SHARED_SERVICE |-> Writes("nothing"),
     ADD_SHARED_SERVICE_ROLES |-> Writes("nothing"),
     UPDATE_SHARED_SERVICE_ROLE |-> Writes("nothing"),
     UPDATE_SHARED_SERVICE_STATUS |-> Writes("nothing"),
     ASSOCIATE_SHARED_SERVICE_TO_TENANT |-> Writes("nothing"),
     GET_ALL_ACTIVE_SHARED_SERVICES |-> Reads(1),
     GET_SHARED_SERVICES_FOR_TENANT |-> Reads(1)]

SearchHandlers ==
    [SEARCH_BC_GOV_IDIR_USERS |-> Searches,
     SEARCH_BC_GOV_BCEID_USERS |-> Searches]

Handlers ==
    TenantHandlers @@ RoleHandlers @@ TenantUserHandlers @@ TenantRequestHandlers
    @@ GroupUserHandlers @@ GroupHandlers @@ GroupServiceRoleHandlers
    @@ SharedServiceHandlers @@ SearchHandlers

ApiEndpoints == DOMAIN Routes
ApiRouteTable == [e \in ApiEndpoints |-> Routes[e] @@ Handlers[e]]
=============================================================================
