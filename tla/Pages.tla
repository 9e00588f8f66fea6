------------------------------- MODULE Pages -------------------------------
(***************************************************************************)
(* The pages of the frontend that keep a copy of what the backend holds    *)
(* and change both.  One of them is open; the other has no state.          *)
(***************************************************************************)
EXTENDS TenantUserPage

CONSTANTS
    Groups, ServiceRoles, MaxVisits, Saves, None,  \* of GroupRolesPage
    NotOpen                                         \* the state of a page not open

ASSUME VisitsAssumption == MaxVisits \in Nat
ASSUME NoneAssumption == None \notin Groups

VARIABLES
    open,  \* the page
    enabled, groupServices, visit, page, draft, editing, load, save, touched, early, unsure

groupPage ==
    <<enabled, groupServices, visit, page, draft, editing, load, save, touched, early, unsure>>

Group == INSTANCE GroupRolesPage WITH Roles <- ServiceRoles, doubt <- unsure

PInit ==
    \/ /\ open = "users"
       /\ Init
       /\ enabled = NotOpen /\ groupServices = NotOpen /\ visit = NotOpen /\ page = NotOpen
       /\ draft = NotOpen /\ editing = NotOpen /\ load = NotOpen /\ save = NotOpen
       /\ touched = NotOpen /\ early = NotOpen /\ unsure = NotOpen
    \/ /\ open = "group"
       /\ Group!Init
       /\ bceid = NotOpen /\ held = NotOpen /\ shown = NotOpen /\ dialog = NotOpen /\ call = NotOpen
       /\ doubt = NotOpen

OnUsers(step) == open = "users" /\ step /\ UNCHANGED <<open, bceid, groupPage>>
OnGroup(step) == open = "group" /\ step /\ UNCHANGED <<open, vars>>

UsersNext ==
    \/ \E k \in Calls, u \in Users :
        \/ \E roles \in SUBSET Roles : OnUsers(AddUser(k, u, roles))
        \/ OnUsers(RemoveUser(k, u))
        \/ \E r \in Roles : OnUsers(RemoveRole(k, u, r))
    \/ \E k \in Calls :
        \/ OnUsers(Save(k))
        \/ OnUsers(Serve(k))
        \/ OnUsers(Refuse(k))
        \/ OnUsers(UserAdded(k))
        \/ OnUsers(UserRemoved(k))
        \/ OnUsers(RolesAssigned(k))
        \/ OnUsers(RoleUnassigned(k))
        \/ OnUsers(Fails(k))
    \/ \E u \in Users : OnUsers(OpenDialog(u))
    \/ OnUsers(CancelDialog)
    \/ OnUsers(DismissDialog)
    \/ \E i \in 1..3 : OnUsers(Check(i))

GroupNext ==
    \/ \E g \in Groups : OnGroup(Group!OpenGroup(g))
    \/ OnGroup(Group!Initialized)
    \/ OnGroup(Group!LeaveGroup)
    \/ OnGroup(Group!StartEditing)
    \/ OnGroup(Group!ClearAll)
    \/ OnGroup(Group!UndoChanges)
    \/ OnGroup(Group!CancelEditing)
    \/ \E r \in ServiceRoles : OnGroup(Group!Check(r))
    \/ \E v \in Group!Visits :
        \/ OnGroup(Group!ReadRoles(v))
        \/ OnGroup(Group!RolesLoaded(v))
        \/ OnGroup(Group!LoadFails(v))
    \/ \E k \in Saves :
        \/ OnGroup(Group!SaveChanges(k))
        \/ OnGroup(Group!ServeSave(k))
        \/ OnGroup(Group!RefuseSave(k))
        \/ OnGroup(Group!RolesSaved(k))
        \/ OnGroup(Group!SaveFails(k))

PNext == UsersNext \/ GroupNext

PSpec == PInit /\ [][PNext]_<<open, vars, groupPage>>

-----------------------------------------------------------------------------
(* What the open page promises: the properties of the modules of the pages. *)

\* The users of a tenant: what the list shows when no call is outstanding, ...
ListShowsRolesHeld == open = "users" => ShownIsHeld

\* ... and what the dialog asks for while it saves.
SaveNeverRemovesLastRole == open = "users" => NeverRemovesLastRole

\* The roles of a group: what the page shows when no save is under way, ...
PageShowsRolesHeld == open = "group" => Group!PageShowsRolesHeld

\* ... and what a save changes.
UntouchedRolesKept ==
    [][open = "group" => Group!SaveKeepsUntouched]_<<open, vars, groupPage>>
=============================================================================
