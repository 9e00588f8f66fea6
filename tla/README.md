# Tenant Management System (CSTAR) in TLA+

CSTAR keeps, for many tenants, who may do what: an Express backend with TypeORM on
Postgres (`src/backend`), a Vue frontend (`src/frontend`), and connected services that
ask it for a user's roles. Most of the interesting state is in the database. Every
handler that writes is one transaction, `connection.manager.transaction(...)`, at
Postgres' default READ COMMITTED level: it awaits one query after another, nothing it
reads is locked, and few tables have a unique key. The rest of the state is in copies:
the CHES token the process keeps, and the stores and forms of the frontend. So this
project asks of each part: is it right when it runs alone, in every order of legal
calls; and what is left of that when steps of two requests interleave, when answers come
late or not at all, and when a process stops.

## 1. The system

### Components

| Component | State | Operations | Here |
|---|---|---|---|
| Tenant users and CSTAR roles (`tenant.repository.ts`, `tenant.service.ts`) | `SSOUser`, `TenantUser`, `TenantUserRole`, `Role`; rows are soft-deleted, never removed | createTenant, addTenantUser, assignUserRoles, unassignUserRoles, removeTenantUser; lists and look-ups | `TenantUsers`, `TenantUsersConcurrent`, `TenantUsersOverlap`, `TenantQueries` |
| Groups and members (`group.repository.ts`, `group.service.ts`) | `Group` (unique name per tenant), `GroupUser` | createGroup, updateGroup, addGroupUser, removeGroupUser, the sweep when a user is removed | the same, names in `GroupServiceRolesConcurrent` |
| Tenants and tenant requests (`tenant-request.repository.ts`, `tenant.repository.ts`) | `Tenant` (unique name and ministry), `TenantRequest` | createTenant, updateTenant, createTenantRequest, updateTenantRequestStatus | `TenantRequests`, `TenantApproval` |
| Connected services (`shared-service.repository.ts`) | `SharedService`, `SharedServiceRole`, `TenantSharedService` | create, update, (de)activate, add and update roles, associate with a tenant | `SharedServices`, `SharedServicesConcurrent` |
| Connected-service roles of groups, effective roles (`group.repository.ts`) | `GroupSharedServiceRole` | the assignment diff; the roles a user has by groups and identity provider | `GroupServiceRoles`, `GroupServiceRolesConcurrent`, `EffectiveRoles` |
| Routes, access control, services (`routes.ts`, `auth.mw.ts`, `tenant-access.mw.ts`, `*.service.ts`) | the connection pool | the middleware before each handler, the transaction, what follows the commit | `ApiRoutes`, `ApiRequests` |
| Notifications and CHES client | cached token and its expiry | token, mail, timeouts | `ApiRequests`, `ChesToken`, `MailSend` |
| SSO user search (`sso-search.service.ts`, `UserSearch.vue`, `TenantUserManagement.vue`, `TenantUserContainer.vue` and those of groups) | the search box, the results shown | filter, deduplicate; open, type, search, select, add, cancel | `UserSearch` |
| Validators | none | shape of requests | as the input sets of the actions (`RolesInBody`, `DecisionBody`, ...) |
| Users page (`TenantUserTable.vue`, `RoleDialog.vue`, `useTenantStore.ts`) | the list shown, the dialog | add, remove, remove a role, save roles by several calls | `TenantUserPage`, `Pages` |
| Roles page of a group (`GroupHeaderContainer.vue`, `GroupRoleContainer.vue`, `useGroupStore.ts`) | the list of roles all groups share, the form | load, edit, save | `GroupRolesPage`, `Pages` |
| Other pages and stores, session | forms, lists | one call each | not modelled |
| Configuration, logging, migrations, mapper, DTOs | - | - | not modelled: set-up, wording, DDL, layout |
| Docs site, charts, tests | - | - | read, not modelled |

### How they interact

A request passes the middleware of its route (the access check is a query of its own,
against the caller's roles), then the handler's transaction calls one or two
repositories: addTenantUser and addGroupUser write `SSOUser`, `TenantUser`,
`TenantUserRole` and `GroupUser`; removeTenantUser flags rows of three tables; approving
a tenant request calls the tenant repository to create the tenant. Notifications are sent
after the commit. The handlers of different requests share nothing but the database, the
connection pool and the CHES token. The frontend keeps what it loaded, sends a call per
change and changes its copy when the answer comes.

### What is hard, and what correctness means

* Tenant users: a tenant keeps an active owner; an active user has a role; a removed
  user has no role and no membership; one row per user and tenant, and per role and
  membership, through any sequence of adding, removing and restoring; a BCeID user gets
  no role but SERVICE_USER. Each rule is a query followed by a write, so two requests
  can each be right and together break it.
* Tenant requests: a decision is final, an approved request has exactly its tenant, a
  rejected one has none but a reason, names are unique. A decision saves the row it read
  earlier, column by column.
* Connected services: no association with an inactive service; an update does not write
  back a status it read before; names stay unique through several checks and one write.
* Roles of groups: the diff does what was asked for and nothing else; what a service is
  told, what the pages show and what the lists return are five queries that must agree.
* Requests: nothing is written that was not allowed, the answer tells the outcome, mail
  follows the commit and never decides, nobody waits for ever.
* CHES: a cached token is valid while it is in use, whatever other mails do to the cache.
* Pages: what is shown is what is held, and a save changes only what was edited, with
  answers that come late, out of order or never. Results of a search are those of the text
  in the box, though the box comes and goes and the results stay.

`PROJECT.json` lists the hazards at their lines, each with the properties that would
catch it or the reason none does.

## 2. Modules

`TenantUsers`: every variable is a table, every action a handler that runs alone.
`tenantUser` holds tenant, SSO user and is_deleted; `roleRow[u][r][k]` and
`groupRow[u][g][k]` hold the status (none, active, deleted) of the k-th row for a pair,
because nothing in the database keeps two rows for one pair from existing. What a
handler decides is in operators of its own (`RolePlan`, `GroupsPlan`, `MemberPlan`,
`OtherOwnerOnRecord`, `OtherActiveOwner`, `OneRoleRowLeft`), what it writes in others
(`ApplyPlan`, `SoftDelete`, `SweepUser`). A handler that throws changes nothing, so its
failures are stuttering steps. `TenantQueries` adds what the queries for access, lists
and single users return, each as the code joins it.

`TenantUsersConcurrent` extends it: `request[q]` is what a request in flight is about to
do and what it has read. The queries a decision depends on are steps (`ReadExistingRoles`,
`CountOtherOwners`, ...), the writes are one step with the commit, `Abort` is any failure
or a stopped process. Two handlers write step by step. removeTenantUser awaits three
UPDATEs, each of which finds the rows there are by then (`SweepRoles`, `SweepTenantUser`,
`SweepMemberships`); they become visible with `CommitRemoval`, and until then the rows
they have flagged are locked (`UserLocked`, `RoleLocked`, `MemberLocked`), so that who is
to write one of them waits. An UPDATE may wait for rows itself, which is why the first one
begins in one step and ends in the next. And a request that is to restore a removed user
whom another one has restored meanwhile finds nothing to save: it goes on, without a lock,
to read and write roles and memberships query by query (`FoundRestored`). The module uses
the operators of `TenantUsers`, so the two cannot drift apart. `TenantUsersOverlap`
extends that with two history variables: the requests in flight that another commit has
overtaken, and whether such a request has committed a change.

`TenantApproval` is the approval workflow of
`docs-site/docs/tenant-management/tenant-approval-workflow.md` as an abstract
specification. `TenantRequests` models the handlers on `Tenant` and `TenantRequest` query
by query, with the unique key on name and ministry. A decision reads the request, checks
the name if it approves, and saves; a TypeORM `save` reads the row again (`Reread`) and
then writes the columns in which what it is to save differs from that (`Decided`), so a
column that another decision has written in between stays as that one left it. The module
instantiates `TenantApproval` under a refinement mapping (the status and the reason on
record, and the tenants whose `origin` is the request).

`SharedServices` and `SharedServicesConcurrent` are such a pair for connected services,
their roles and associations. A `save` is two steps there as well (`SaveService`,
`WriteService`).

`GroupServiceRoles` extends `SharedServices` with groups and the roles assigned to them;
`GroupServiceRolesConcurrent` lets updates of a group's roles, and of the names of groups,
overlap. `EffectiveRoles` composes `GroupServiceRoles` with `TenantUsers`: they share the
table `Group`. Its state adds a request of a connected service between its two queries.

`ApiRoutes` is the table of routes: for each, its middleware in order and what its
handler does with connections and after the commit. `ApiRequests` takes requests through
it: checks, `checkTenantAccess` (on the routes for services the look-up of the service is
one query, that of the user with the roles of that moment another, and each may fail), the
pool with its queue,
the transaction as one commit that may change roles, the mail, the answer. `Crash` is a
process that stops between any two steps.

`ChesToken` is the client of the mail service: a cache shared by the mails on their way,
with relative times for validity, timeouts and the expiry buffer. `MailSend` is what its
callers may rely on; the run `mail` shows that `ChesToken` implements it.

`UserSearch` has the deduplication of the backend as operators (`DedupedUsers`, the `Map`
of the code, is a recursive function of how many records have been seen), with a reference
definition of its own in `DedupKeepsTheBest`, and the search of the two pages that add
users as steps. `open` and `text` are the box, which is mounted and unmounted; `shown` is
`searchResults`, which the container keeps. Choosing a user closes the box at once
(`HandleAddUser`), but the results are cleared only when the user was added or was there
already (`UserAdded`), and not on another failure (`AddFails`): a box opened before that,
or after the failure, shows them with no text in it. The history variable `left` says that
what is shown is what the last box was closed on, `late` has the texts that were abandoned
while a search for them was outstanding.

`TenantUserPage` is the users page: what the API holds (`held`), what the list shows
(`shown`), the dialog, and calls that are served, refused or lost, and answered later.
Whose account is a business BCeID (`bceid`) is chosen at the start and stays. The history
variable `doubt` has the users of whom the list may say something else than the API: those
with two calls on their way at once, those whose answer was lost, those whose save ended
half-way, and those another user's save went on with, since the dialog finds its user
again by a place in the list after each call.
`GroupRolesPage` is the roles page of a group likewise; its headers load into one list all
groups share. `Pages` is the frontend with one of the two open.

`TenantUsersProofs` (with `TenantUsersOverlap` and `TenantQueries`),
`TenantRequestsProofs`, `SharedServicesProofs`, `GroupServiceRolesProofs` (with
`EffectiveRoles`), `ApiRequestsProofs`, `ChesTokenProofs`, `UserSearchProofs` and
`PagesProofs` hold theorems (section 4); the `MC` modules hold symmetry sets, bounds and
input sets.

Operators whose names extend that of the definition that follows them
(`AssignableToAll`, `UniqueKeyNone`, ...) or otherwise stand before it with the same
parameters (`RemovalsFirst`, `TurnDownAndGoOn`, ...) are mutants: plausible mistakes in
that definition, each of which makes the property it is listed with fail.

### What the models leave out

* Reads a transaction makes after its first write are one step with the commit. Postgres
  would let another commit in between; the rows in question are those just written or
  those of a plan the handler computes and applies at once. The exceptions, where such
  reads are steps, are the UPDATEs of removeTenantUser and a save that finds nothing to do
  (`FoundRestored`). Likewise the access check and the handler's first look-ups are one
  step in the modules on tables; `ApiRequests` has the access check as steps of its own.
* createTenant, createGroup without a member and removeGroupUser decide and write
  together (`AtOnce`): the UPDATE of removeGroupUser flags by id the row its read has
  found, which comes to the same unless the row was flagged meanwhile, and then to nothing;
  the others depend on nothing that can change under them but a unique key.
* Names of tenants and groups do not appear in `TenantUsers` (a duplicate is refused,
  which changes nothing); SSO users, descriptions and dates do not appear in
  `TenantRequests`. Display texts of services are left out, except that a body must say
  something. The three global Role rows exist from the start.
* Where a query returns one of several rows, the model takes one (`OneWith`); in the
  serial specification there never are several (`NoDuplicateAssignments`).
* createRoles is not reachable: its route is commented out (`routes.ts:86`).
* In the table modules the caller is not part of the state: `Manageable(t)` says some
  active user of the tenant passes the access check. The operations admin's role comes
  from the token, which is a choice of the environment in `ApiRequests`.
* After adding a user the users page also adds the user to the groups that were chosen
  (`TenantUserContainer.vue:77-80`). These calls change no role on the list; that one of
  them restores a user who was removed meanwhile is a case of calls about one user that
  cross, of which the properties on the page say nothing.
* On the pages nobody else changes the tenant or the group: what others do is shown at
  the next load. The header's counts, notifications and spinners are left out.

## 3. Runs

| Run | Asks | Bounds |
|---|---|---|
| `users` | Do the rules hold for handlers that run alone? `TypeOK`, `ActiveUserHasRole`, `RemovedUserHasNothing`, `NoDuplicateAssignments`, `TenantHasOwner`, `OneRowPerTenantAndUser`, `BceidHoldsServiceUserOnly`, `OneUserPerRequest`, and do the queries that list, open and admit users agree (`ReadsAgree`)? | 2 tenants, 2 users, 3 tenant-user rows, 1 group, 2 roles, 2 copies |
| `overlap` | Two requests on users, roles and groups at once: every commit that was not overtaken is a step of `TenantUsers` (`SerialUnlessOvertaken`); the rules hold up to the first commit that was overtaken, which breaks only the rules of its handler (`FirstStaleCommitBreaksOnly`). | 1 tenant, 2 users, 3 tenant-user rows, 1 group, 2 requests |
| `requests` | Two calls at once: `TenantNamesUnique`, `ApprovedHasTenant`, and every step is one of `TenantApproval` unless it decides a request decided meanwhile (`WorkflowUnlessDecidedAgain`). | 2 tenants, 2 requests, 2 names, 2 ministries, 1 reason |
| `shared_services` | Two requests on services at once: no two services, and no two roles of one, share what a key keeps unique (`NoTwoAlike`), every service loads (`ServicesLoad`), `SerialUnlessOvertaken`. | 2 services, 2 roles, 1 keyed column of 2 values, 1 tenant |
| `group_roles` | Two updates of groups at once: `AssignedServicesAssociated`, `GroupNamesUnique`, a commit does nothing against its request (`NeverAgainstRequest`) and all of it unless overtaken (`AsAskedUnlessOvertaken`). | 1 tenant, 1 service, 2 roles, 2 groups, 2 names |
| `effective_roles` | Is what a connected service is told, after two queries, about a user who is of the tenant (`AnswerIsCurrent`), and do pages and lists say the same (`ShownRolesAreEffective`, `ListsAgreeWithAnswer`)? | 1 tenant, 2 users, 1 group, 1 role of 1 service, 2 identity providers |
| `api` | Requests from middleware to answer: `WrittenAsAllowed`, `AnswerTellsOutcome`, `MailAfterCommit`, `PoolKept`, and every request ends (`EveryRequestEnds`). | 2 requests, 1 caller, 2 roles, 7 routes, a pool of 1 |
| `mail` | Is a cached token valid while it is used (`CachedTokenValid`); does the client implement `MailSend` (`SendsMail`)? | 2 mails, timeout 2, buffer 4, lifetimes 0, 3, 6 and 7 |
| `user_search` | Is the deduplication what its reference definition says (`DedupKeepsTheBest`), do searches keep apart (`ResultsOfOneSearch`), and what results can a box show that are not for its text (`ResultsForTextUnlessLateOrLeft`)? | answers of up to 4 records, 2 searches, 2 texts and the empty one, 2 users being added |
| `pages` | Does each page show what is held unless a call was lost or overtaken (`ListShowsRolesHeld`, `PageShowsRolesHeld`); does a save leave the rest alone (`SaveNeverRemovesLastRole`, `UntouchedRolesKept`)? | users page: 2 users, at most one, and then either, of BCeID, 2 calls; group page: 2 groups, 1 role, 2 visits, 2 saves |
| `overlap_last_owner` | Counterexample to `TenantHasOwner`: the last two owners go at once. | 3 rows, no groups, 2 requests |
| `effective_roles_of_other_tenant` | Counterexample to `RolesThroughOwnGroups`: a role by a group of another tenant. | 2 tenants |

### Why the bounds are enough

* The rules on users relate two users (the owner and the other owner), two tenants and
  two rows for one pair, and there are as many of each. Two roles suffice for the rules,
  which tell TENANT_OWNER and SERVICE_USER from the rest. Three tenant-user rows let two
  tenants share a user and keep a third row free. Ids are pools from which inserts draw; a
  run ends up with the pools exhausted but with every removal, restoration and assignment
  still possible.
* `overlap` and `overlap_last_owner` follow a behaviour up to and including the first
  commit of an overtaken request (`UpToFirstStaleCommit`): afterwards the tables may
  already be wrong, and a further difference says nothing new. Every interleaving of two
  requests before that is covered. The third tenant-user row is for a user added twice.
  `RolesOrGroups` leaves out behaviours that have a group and also a request on roles
  alone, a BCeID user or a second user who ever was an owner: the queries of the two kinds
  do not meet in a row, and all of them run without groups.
* Overlaps of two requests show every loss that a read before and a write after can cause;
  a third adds no new pair.
* One keyed column stands for the three of a service: each has a check and a key of its
  own, and no check reads another column.
* The routes of `api` have between them each kind of middleware, each way a handler uses
  connections, and each way to go on after the commit. With a pool of one, two requests
  are enough for one to wait for the other, and for a handler that asks for a second
  connection to wait for itself.
* In `mail` the times stand to each other as in the code, where the buffer is at least
  the timeout for the token and that for the mail together (`TimesAssumption`); the
  lifetimes lie below the buffer, within a timeout of it, and above.
* Four records show a duplicate that replaces, one that does not, and others before and
  between them; a record has two fields, so that equal, fewer and more of them occur.
  Answers of up to two records are all there, of longer ones those that show a
  replacement in the place of the first. Of two searches one is shown or starts while the
  other is late.

Deadlock is not checked in three runs. After the last owner and user admin are gone a
tenant admits no request, which is part of the finding below (`overlap`,
`overlap_last_owner`). In `pages` the calls a run may make can be used up.

### Fairness

* `api`: a request that waits for a connection gets one when one is free (`Grant`), and a
  request that can go on goes on (`Proceeds`): the event loop and the pool's queue do
  this. `Proceeds` contains the end of a mail because `REQUEST_TIMEOUT_MS` ends it
  (run `mail`); it does not contain the search service, the answer of CHES, or a client
  that leaves.
* `mail`: time passes (`Tick`) and timers fire (`TimedOut`). Nothing is assumed of the two
  services.

No other run assumes fairness: the API promises nothing of a request except an answer.

### What the runs found

Two disagreements of code and documentation, listed under "findings" with the text they
contradict:

* Two requests that take the last two owners from a tenant each count the other one. The
  tenant then has no owner and nobody who passes the access check.
* A new group's first member is not checked against the tenant, and the queries for a
  user's roles do not ask of which tenant the group is. A connected service is told, for
  one tenant, of roles by a group of another.

READ COMMITTED without locks allows more, and the properties say where. Until a request
that another commit overtook commits itself, all the rules of membership hold, and what
the first such commit can break depends on its handler (`FirstStaleCommitBreaksOnly`).
Each mark of this table is an exception of that property without which the run `overlap`
finds it violated:

| | unassignUserRoles | removeTenantUser | addTenantUser | assignUserRoles | addGroupUser | createGroup |
|---|---|---|---|---|---|---|
| a tenant has an owner | x | x | | | | |
| an active user has a role | x | | | | | |
| a removed user has nothing | | x | x | x | x | x |
| one row per role or membership | | | x | x | x | |
| one row per tenant and user | | | x | | x | |

The first line is the first finding above. The mark of removeTenantUser in the third line
is a removal that does not take all it should (`openapi.yaml:520`): a role or membership
committed between its UPDATEs and its commit stays with the removed user, and is there
again when the user is restored. addTenantUser is in the third and the fourth by the way of
a user whom another request has restored first. `WorkflowUnlessDecidedAgain` likewise
excuses a decision on a request decided meanwhile: the request may end approved with the
reason of a rejection (`openapi.yaml:1527` has a reason for rejected ones only) that was
committed after the approval read it again, since a save writes only what differed.

The antecedent "unless overtaken" (in `SerialUnlessOvertaken`, `AsAskedUnlessOvertaken`,
`WorkflowUnlessDecidedAgain`) is needed: a removed user may be left with a membership, a user may be added twice, a
request may be approved and rejected, or approved with a reason, an update of a service
may write back a column, when two requests meet. And it is all that is needed: a request
that no other commit overtook does what it would have done alone. Two rows of a unique
table are never written whatever the checks were told. Without overlap the
restore-or-insert logic never duplicates a row.

## 4. Theorems

Every property of a passing run but the two of liveness is proved here, for every value
of the constants: any number of users, tenants, groups, roles, services, requests in
flight, mails, calls, visits, searches. Of what overlap breaks it is proved that handlers
which run alone keep it (`TenantKeepsOwner`, `RemovedHasNothing`, `OneCallReasons`). The
assumptions are the named ones of the modules. They say that `NoRow`, `NoRequest`, `None` and `"none"` are not also one of the
things they stand for the lack of (`NoRowAssumption`, `TenantsAssumption`,
`NoRequestAssumption`, `NoneAssumption`); that the two roles the code names exist
(`RolesAssumption`, `UsersAssumptions`) and a pair can have a row (`CopiesAssumption`);
that the pool has a connection (`PoolAssumption`) and the table of routes is one
(`EndpointsAssumption`, `HandlersAssumption`, `RowsAssumption`); how the times of the
CHES client compare (`TimesAssumption`); that the visits of a page are counted
(`VisitsAssumption`); that a tenant's list is finite and its users have roles when it is
loaded (`PageAssumption`); that the SSO API answers with lists of users
(`AnswersAssumption`), `NoGuid` is no guid (`GuidsAssumption`) and a user has finitely
many fields (`FieldsAssumption`), that a new box holds a text (`TextsAssumption`), and
that the calls under way are counted (`MaxAddingAssumption`).

* `TenantUsersProofs`, for handlers that run alone
  * `TypeCorrect`: `TypeOK` is inductive by itself; one step per handler, on lemmas about
    `ApplyPlan` and `SoftDelete`.
  * `OneUserChanges`: for each handler, only the rows of the tenant user it names change.
  * `RemovedHasNothing`: inductive together with `TypeOK`. It needs that a plan is applied
    only to an active user, and that `SoftDeleteAll` leaves nothing active.
  * `TenantKeepsOwner`: inductive together with `TypeOK` and `RemovedUserHasNothing`. The
    second is what makes the count in unassignUserRoles right: it counts owners without
    asking whether they are active, and a removed one would count if it still had a role.
  * `AssignmentsNotDuplicated`: not inductive alone, since an insert for an id that is
    not in use could meet rows. The strengthening `RowsInOrder` adds that ids not in use
    have no rows and groups that do not exist no members (`UnusedIsBlank`); every plan is
    sound for rows in order (`SoundPlan`: it inserts where no row is, and restores only
    deleted rows).
  * `UsersNotDuplicated`: a handler that inserts has looked for the row of this user.
  * `ActiveUsersHoldRoles`: by `NoDuplicateAssignments`. unassignUserRoles counts rows,
    not roles, and leaves a role to the user because no role has two rows.
  * `BceidUsersAreServiceUsers`: each of the three filters for BCeID users, against the
    provider on record, which no handler changes.
  * `QueriesAgree`: from the invariants above, and that rows are of tenants that exist
    (`RowsOfTenants`). The queries join the same tables differently and agree only then.
* `TenantUsersProofs`, for any number of requests at once
  * `OverlapTypeCorrect`: with `TargetsExist`, that a row once found stays the row of the
    tenant and user it was found for, since rows are flagged, never deleted or reused.
  * `SerialWhenNotOvertaken`: the commit of a request that no other overtook is a step of
    `TenantUsers`. The invariant `FreshKnows` says, for each handler and stage, what such
    a request still knows of the tables: one conjunct for each query made so far
    (`KnowsAssign`, `KnowsUnassign`, ...). With all of them the parts of the handler make
    up the handler that runs alone: for a removal, the rows it has flagged are all the
    active ones (`FlaggedAll`); for an assignment, its two queries make the plan that one
    would (`AssignPlanAlone`).
  * `RulesHoldUntilStale`: as long as no commit was stale, every step of overlapping
    requests is a step of `TenantUsers` on the tables or leaves them alone
    (`SerialUntilStale`, from `FreshKnows`), so what is inductive for handlers that run
    alone, `SerialInv`, the conjunction of the invariants above, holds of the tables.
  * `FirstStaleCommit`: the steps before that commit are those of `SerialUntilStale`, and
    by the invariant `TablesUntilStale` it meets tables of which `SerialInv` holds. There
    one lemma for each handler (`StaleAssign`, `StaleRemove`, ...) uses nothing the request
    has read, only what it writes: a plan takes no role, a removal takes roles only of a
    user who is not active afterwards and inserts nothing, an addition that saves the user
    plans as it writes, and so on.
  * `OneUserUnderOverlap`: whatever was read, each write names one tenant user.
  * `IdentitiesStay`: a row stays of its tenant and user (`RowsStay`), the provider stored
    with a user and the creator of a tenant stay (`ProvidersStay`).
  * `BceidUnderOverlap`: by `RolesHeldMayBe`, on removed users too, and
    `RolesPlannedMayBe`, on plans that are not yet written.
* `TenantRequestsProofs`, for any number of calls at once except in the last three
  * `TypeCorrect`: needs `UpdatesExist`, that a tenant being updated is there, since the
    update writes its row back, and `DecisionsExist`, likewise for the row that the save
    of a decision has read again.
  * `NamesStayUnique`: from the unique key alone, none of the checks is needed.
  * `ApprovalCreatesTenant`: by `DecisionInv`. A tenant's origin is written once, and only
    an approval makes a request approved, whichever columns a save writes.
  * `WorkflowWhenDecidedOnce`: each step maps to a submission, an approval, a rejection
    or a stutter of `TenantApproval`, unless it decides a request decided since it was
    read. By `WorkflowInv`: a request that is not decided has neither tenant nor reason
    (`UndecidedHasNothing`), an unused tenant row has no origin (`OriginHasTenant`), a
    rejection in flight has a reason (`RejectionsHaveReason`), and while a request is NEW
    the row that a save has read again is still what is there (`NewAsRead`), so that the
    columns it writes make up the decision.
  * `OneCallFollowsWorkflow`: with one call at a time nothing is excused, since what a
    decision has read is what is there (`ReadIsCurrent`): `TenantRequests` implements
    `TenantApproval`.
  * `OneCallOneTenant`: what that workflow promises, carried over: an approved request has
    one tenant, any other none, and a decision and its tenant stay. From a step of
    `TenantApproval` to these properties it takes `WorkflowDecides`.
  * `OneCallReasons`: likewise, a request has a reason exactly if it was rejected
    (`WorkflowReasons`). With two calls at once it fails (section 3).
* `SharedServicesProofs`, for any number of requests at once
  * `OverlapTypeCorrect`: with `TargetsExist`, that the service or role a request speaks
    of is there, and a request for roles names some.
  * `KeysKeptApart`: from the keys alone; an update of columns checks the key again as it
    writes, so a row written back does not get past it.
  * `ServicesKeepLoading`: a service and its roles are inserted together, and rows stay.
  * `SerialWhenNotOvertaken`: by `FreshKnows`. A request that nothing overtook holds the
    row with the change meant (`RowMeant`, `RoleMeant`), and the columns its save found
    different are those of the change.
  * `OneRequestIsSerial`: with one request at a time nobody is overtaken
    (`NobodyOvertakes`), so `SharedServicesConcurrent` implements `SharedServices`.
* `GroupServiceRolesProofs`, for any number of requests at once
  * `GroupNamesStayUnique`: from the unique key alone.
  * `RolesOfAssociatedServices`, `NothingAgainstRequest`, `AllThatWasAsked`: by `RolesInv`.
    Its part `PlansSound` says of an update in flight that the tenant is still associated
    with the services of the roles it asks for (`NextTables`: associations and the services
    of roles never change back), that its plan is within its request, and, if no other
    commit has touched a role it read, that its plan is the diff of the rows as they are
    (`DiffReadsAsked`: a diff depends on the rows it asks about and no others).
  * `SerialWhenNotOvertaken`, `OneUpdateIsSerial`: an update that was not overtaken is a
    step of `GroupServiceRoles`, since it writes the diff of the rows as they are; with one
    update at a time that is every update.
  * `UsersImplemented`, `ServicesImplemented`: `EffectiveRoles` implements both modules it
    composes. So the theorems about `TenantUsers` hold of it: `TUP` instantiates
    `TenantUsersProofs`, with no requests in flight.
  * `AnswersAreCurrent`: by `QueryInv`, that the row the first query found stays the row
    of that user in that tenant. With `OneRowPerTenantAndUser` it is then the row by which
    the user is active, if the user is, and with `RemovedUserHasNothing` an answer about a
    removed user is empty.
  * `ShownRolesAreHeld`, `ListsAgreeWithAnswers`: by the same invariants.
* `ApiRequestsProofs`, for any number of requests and any size of pool, on all the routes
  * `RequestsSound`: the invariant `Sound`. A request is as far as what it has passed
    allows (`Progress`) and has said what it may (`Said`); whoever has what the route
    requires has had it since the request came (`EntitledWith`); the queue has no request
    twice, and who waits holds nothing (`PoolSound`).
  * `PoolNeverOverdrawn`, `WritesAllowed`, `AnswersTellOutcome`, `MailsAfterCommit`: each
    from `Sound`, the last three from its part on a single request.
  * `PoolNeverStuck`: the safety half of `EveryRequestEnds`. Where a request waits, a
    connection is free or somebody who does not wait has one for its next query.
* `ChesTokenProofs`, for any number of mails, any timeout and any lifetimes
  * `CachedTokenIsValid`: the invariant `ValidInv` follows a token. It ages on its way by
    no more than its request waits (`IssuedAges`), so while the cache gives it away it has
    a timeout left (`CacheOutlivesTimeout`: here the buffer pays for the way and for the
    use), so in use it is valid longer than its request may still wait
    (`UseOutlivesTimeout`).
  * `SendsSafely`: every step of `ChesToken` is one of `MailSend` or none. The invariant
    `TakenWhenAccepted` says in which stages CHES has the mail.
* `UserSearchProofs`, for any number of searches, texts, users and answers of any length
  * `ShownOfOneSearch`, `ShownForTextUnlessLateOrLeft`: by `SearchInv`. A search that is on
    its way is for a text, which is the one in the box unless it is late
    (`OutstandingUnlessLate`), and holds results of its own alone (`KeptOfOwnSearch`); and
    whether or not there is a box, what is shown is late or left or for the text in it
    (`ShownUnlessLateOrLeft`). Every step that changes or ends a box clears the results or
    leaves them (`GoneOrLeft`).
  * `DedupIsBest`: after n records the `Map` has, for each guid met, the first of the most
    complete records and the place of the first (`DedupedSound`), by the same induction over
    numbers as in `PagesProofs`. That the answer has them in order is then about the k-th
    smallest of a finite set of numbers (`Rank`, `HoldsTheBest`).
* `PagesProofs`, for any number of users, calls, groups, roles, visits and saves
  * `PageShowsGroupsRoles`, `SaveKeepsTheRest`: by `GroupInv`. While the page is sure of
    its list, at most one of its calls is on its way (`OneCallOfThisPage`), an answer to a
    load has the roles the group still has (`HeldIsKnown`), the form differs from them
    only where it was touched (`OnlyTouchedDiffers`), and so does a save under way
    (`SavesOnlyTouched`).
  * `ListShowsWhatIsHeld`, `SavesLeaveARole`: by `UsersInv`. The dialog was filled in for
    whoever is at its place now (`DialogFits`); and of a user who is not in doubt there is
    at most one call, which knows what the list and the API have, before it is served
    (`BeforeCall`), after (`AfterCall`), and while a save removes roles one by one
    (`Removing`: some role is left to the user, in the list and at the API).
  * `Kept`, the filter of lists, is a recursive function. What it returns is proved by an
    induction over numbers stated with sets (`InductionOn`), which needs no theorem with an
    operator as parameter.

The proof of `ListShowsWhatIsHeld` failed at first, for a good reason: `doubt` left out the
user with whom another user's save goes on. The run had not shown it, because one of its
two users was always the BCeID user. The model has the user in doubt now, and the run also
has two users with IDIR accounts, where TLC finds the failure if `doubt` leaves the user
out.

Only model-checked: liveness (`EveryRequestEnds`, and what `MailSend` promises under
fairness, which with `SendsSafely` makes up `SendsMail`) and ENABLED, which are out of the
prover's reach.

There is no theorem that one request at a time implements `TenantUsers`, as there is for the
other concurrent modules: the handlers that decide and write at once (`AtOnce`) are not
counted as requests in flight and may overtake the one that is. `SerialWhenNotOvertaken`
and `RulesHoldUntilStale` say what holds instead.

No module here uses a RECURSIVE operator.

## 5. Plan

The modelling is done: every part with state of its own that several operations or actors
share has its module. The order was `TenantUsers` and its proofs, its concurrent form,
`TenantRequests` and its proofs, connected services, roles of groups, effective roles,
requests and mail, search, pages, and then the proofs, component by component.

Nothing that the prover can reach is left to prove of what the runs check. What could
come next is in the hazards without a property: the stores of the frontend that change an
object after an await, and the look-ups by place in the roles dialog.

### Not modelled

* The remaining pages, stores and the session: each page shows a form or a list and sends
  one call; the stores of tenants, requests and services load again after a change. The
  session is the identity provider's library.
* Texts: templates of mails, lengths and patterns in the validator, the layout of answers
  (mapper, DTOs, error bodies), translations. No property is about them.
* Configuration, logging and start-up: read once, before any request.
* Migrations: DDL and updates that run before any request; the keys they leave are in the
  modules. The first createTenant inserting the three role rows is among the hazards
  without a property: afterwards, no handler writes that table.
* Charts and images: they allow several processes on one database, which the models allow
  too, since handlers share only the tables.

## 6. Running

    tlc -workers 2 -config MCTenantUsers.cfg MCTenantUsers
    tlapm TenantUsersProofs.tla

`PROJECT.json` pairs every run with its module and configuration, every definition with
its lines, and every property of a run with a mutant that breaks it. The longest runs are
`api`, for its liveness, and `overlap` (two to three minutes each with two workers).
