---------------------------- MODULE TenantUserPage ----------------------------
(***************************************************************************)
(* The page of a tenant's users: the list in the tenant store, the role    *)
(* dialog over it, and the calls to the API that the user starts and that  *)
(* are answered in any order, late or never.  The dialog knows the user it *)
(* is for by a place in the list, and saves by several calls in turn.      *)
(*                                                                         *)
(* What the API does is a step of its own, by the rules of TenantUsers; it *)
(* may refuse for other reasons, and its answer may be lost.  The page is  *)
(* the only one that changes the tenant, and is not left or reloaded.      *)
(***************************************************************************)
EXTENDS Naturals, SequencesExt, FiniteSetsExt

CONSTANTS
    Users,     \* users who are in the tenant or may be added to it
    Bceids,    \* bound: those of them who can have a business BCeID
    Members,   \* bound: those in the tenant when the page is opened
    Calls,     \* bound: what the user of the page starts before leaving it
    AtFirst    \* bound: the roles its members can have when it is opened

\* The order of roleLookup, and of the rows of the dialog.
TenantRoles == <<"TENANT_OWNER", "USER_ADMIN", "SERVICE_USER">>
Owner == TenantRoles[1]
ServiceUser == TenantRoles[3]
Roles == ToSet(TenantRoles)

ASSUME PageAssumption ==
    /\ "none" \notin Users
    /\ Bceids \subseteq SUBSET Users
    /\ Members \subseteq Users
    /\ IsFiniteSet(Members)
    /\ AtFirst \subseteq (SUBSET Roles) \ {{}}

VARIABLES
    bceid,    \* those with a business BCeID; stays what it is
    held,     \* by user: the roles at the server; {}: not in the tenant
    shown,    \* the list: users and their roles
    dialog,   \* the role dialog
    call,     \* the calls
    doubt     \* history: users the list may be wrong about

vars == <<bceid, held, shown, dialog, call, doubt>>

Entry(u, roles) == [user |-> u, roles |-> roles]
NoCall == [does |-> "nothing", for |-> "none", user |-> "none", roles |-> {},
           full |-> {}, todo |-> <<>>, at |-> "idle"]

\* index: place in the list, 0 for null.  items, defaults: the rows that are
\* checked, and that were when the dialog was filled in.
DialogState == [open : BOOLEAN, index : Nat, items : SUBSET (1..3), defaults : SUBSET (1..3)]
CallState ==
    [does : {"nothing", "add", "remove", "unassign", "assign"},
     for : Users \union {"none"}, user : Users \union {"none"}, roles : SUBSET Roles,
     full : SUBSET Roles, todo : Seq(Roles),
     at : {"idle", "asked", "done", "refused", "lost", "over"}]

TypeOK ==
    /\ bceid \subseteq Users
    /\ held \in [Users -> SUBSET Roles]
    /\ shown \in Seq([user : Users, roles : SUBSET Roles])
    /\ dialog \in DialogState
    /\ call \in [Calls -> CallState]
    /\ doubt \subseteq Users

-----------------------------------------------------------------------------
(* The store and the dialog. *)

Listed(list, u) == \E i \in DOMAIN list : list[i].user = u
ShownRoles(u) == UNION {shown[i].roles : i \in {j \in DOMAIN shown : shown[j].user = u}}
SetRoles(list, u, roles) ==
    [i \in DOMAIN list |-> IF list[i].user = u THEN Entry(u, roles) ELSE list[i]]

\* Array.filter: what the list has at some places, in order.
Kept(list, places) ==
    LET kept[n \in 0..Len(list)] ==
            IF n = 0 THEN <<>>
            ELSE IF n \in places THEN Append(kept[n - 1], list[n]) ELSE kept[n - 1]
    IN kept[Len(list)]

\* updateState: a BCeID user has one row, for SERVICE_USER.
Rows(entry) ==
    IF entry.user \in bceid
    THEN IF ServiceUser \in entry.roles THEN {1} ELSE {}
    ELSE {i \in 1..3 : TenantRoles[i] \in entry.roles}
Fill(d, list) ==
    IF d.index \in DOMAIN list
    THEN [d EXCEPT !.items = Rows(list[d.index]), !.defaults = Rows(list[d.index])]
    ELSE d

\* The computed user of the dialog: it fills the dialog in again whenever the
\* list, or the user at its place in it, changes.
UsersIn(list) == [i \in DOMAIN list |-> list[i].user]
Refill(d, list) ==
    IF \/ UsersIn(list) # UsersIn(shown)
       \/ d.index \in DOMAIN list /\ list[d.index] # shown[d.index]
    THEN Fill(d, list)
    ELSE d

Shows(list) == shown' = list /\ dialog' = Refill(dialog, list)
UserOf(d, list) == IF d.index \in DOMAIN list THEN list[d.index].user ELSE "none"

-----------------------------------------------------------------------------
(* What the user of the page does. *)

About(u) == {k \in Calls : call[k].at \notin {"idle", "over"} /\ u \in {call[k].user, call[k].for}}

\* Starts a call; calls about the same user may be answered in the wrong order.
Ask(k, what) ==
    /\ call[k].at = "idle"
    /\ call' = [call EXCEPT ![k] = what]
    /\ doubt' = doubt \union {u \in {what.user} : About(u) # {}}

AddUser(k, u, roles) ==
    /\ roles # {}
    /\ Ask(k, [NoCall EXCEPT !.does = "add", !.user = u, !.roles = roles, !.at = "asked"])
    /\ UNCHANGED <<held, shown, dialog>>

ShownOwners == {i \in DOMAIN shown : Owner \in shown[i].roles}

\* canRemoveUser
RemoveUser(k, u) ==
    /\ Listed(shown, u)
    /\ Cardinality(ShownOwners) > 1 \/ Owner \notin ShownRoles(u)
    /\ Ask(k, [NoCall EXCEPT !.does = "remove", !.user = u, !.at = "asked"])
    /\ UNCHANGED <<held, shown, dialog>>

\* canRemoveRole
RemoveRole(k, u, r) ==
    /\ r \in ShownRoles(u)
    /\ Cardinality(ShownRoles(u)) > 1
    /\ r = Owner => Cardinality(ShownOwners) > 1
    /\ Ask(k, [NoCall EXCEPT !.does = "unassign", !.user = u, !.roles = {r}, !.at = "asked"])
    /\ UNCHANGED <<held, shown, dialog>>

\* showEditRolesDialog; the dialog is filled in if its place changes.
OpenDialog(u) ==
    /\ ~dialog.open
    /\ Listed(shown, u)
    /\ LET i == Min({j \in DOMAIN shown : shown[j].user = u})
           opened == [dialog EXCEPT !.open = TRUE, !.index = i]
       IN dialog' = IF dialog.index = i THEN opened ELSE Fill(opened, shown)
    /\ UNCHANGED <<held, shown, call, doubt>>

\* Cancel forgets the place in the list, and with it the rows, which are filled
\* in before they are seen again; the cross does not.
Closed == [open |-> FALSE, index |-> 0, items |-> {}, defaults |-> {}]
CancelDialog ==
    /\ dialog.open
    /\ dialog' = Closed
    /\ UNCHANGED <<held, shown, call, doubt>>
DismissDialog ==
    /\ dialog.open
    /\ dialog' = [dialog EXCEPT !.open = FALSE]
    /\ UNCHANGED <<held, shown, call, doubt>>

Check(i) ==
    /\ dialog.open
    /\ i \in IF UserOf(dialog, shown) \in bceid THEN {1} ELSE 1..3
    /\ dialog' = [dialog EXCEPT !.items = SymDiff(@, {i})]
    /\ UNCHANGED <<held, shown, call, doubt>>

\* The roles of some rows, by roleLookup, whatever rows the dialog has.
RolesAt(rows) == {TenantRoles[i] : i \in rows}

Assign(u, add, full, todo) ==
    [NoCall EXCEPT !.does = "assign", !.for = u, !.user = u, !.roles = add, !.full = full,
                   !.todo = todo, !.at = "asked"]
Unassign(for, u, todo) ==
    [NoCall EXCEPT !.does = "unassign", !.for = for, !.user = u, !.roles = {Head(todo)},
                   !.todo = Tail(todo), !.at = "asked"]

\* handleSave, up to its first call: what is new is added first, in one call.
RemovalsFirst(u, items, defaults) ==
    LET todo == Kept(TenantRoles, defaults \ items)
    IN IF todo # <<>>
       THEN Unassign(u, u, todo)
       ELSE Assign(u, RolesAt(items \ defaults), RolesAt(items), todo)
SaveBegins(u, items, defaults) ==
    LET todo == Kept(TenantRoles, defaults \ items)
    IN IF items \ defaults # {}
       THEN Assign(u, RolesAt(items \ defaults), RolesAt(items), todo)
       ELSE Unassign(u, u, todo)

Save(k) ==
    /\ dialog.open
    /\ dialog.items # dialog.defaults   \* hasChanges
    /\ dialog.items # {}                \* atLeastOneRole
    /\ UserOf(dialog, shown) # "none"
    /\ Ask(k, SaveBegins(UserOf(dialog, shown), dialog.items, dialog.defaults))
    /\ UNCHANGED <<held, shown, dialog>>

-----------------------------------------------------------------------------
(* The API. *)

Assignable(u, roles) == IF u \in bceid THEN roles \intersect {ServiceUser} ELSE roles
OtherOwner(u) == \E v \in Users \ {u} : Owner \in held[v]

\* What the roles of the user become, by the rules of each handler.
Allowed(c) ==
    CASE c.does = "add" -> held[c.user] = {}
      [] c.does = "remove" -> held[c.user] # {} /\ (Owner \in held[c.user] => OtherOwner(c.user))
      [] c.does = "assign" ->
            held[c.user] # {} /\ Assignable(c.user, c.roles) \ held[c.user] # {}
      [] c.does = "unassign" ->
            /\ c.roles \subseteq held[c.user]
            /\ Owner \in c.roles => OtherOwner(c.user)
            /\ held[c.user] # c.roles
Given(c) ==
    CASE c.does = "add" -> IF c.user \in bceid THEN {ServiceUser} ELSE c.roles
      [] c.does = "remove" -> {}
      [] c.does = "assign" -> held[c.user] \union Assignable(c.user, c.roles)
      [] c.does = "unassign" -> held[c.user] \ c.roles

Serve(k) ==
    /\ call[k].at = "asked"
    /\ Allowed(call[k])
    /\ held' = [held EXCEPT ![call[k].user] = Given(call[k])]
    /\ \E end \in {"done", "lost"} :
           call' = [call EXCEPT ![k].at = end,
                        ![k].full = IF call[k].does = "add" THEN Given(call[k]) ELSE @]
    /\ UNCHANGED <<shown, dialog, doubt>>

Refuse(k) ==
    /\ call[k].at = "asked"
    /\ call' = [call EXCEPT ![k].at = "refused"]
    /\ UNCHANGED <<held, shown, dialog, doubt>>

-----------------------------------------------------------------------------
(* The answers. *)

Ends(k) == call' = [call EXCEPT ![k] = [NoCall EXCEPT !.at = "over"]]

UserAdded(k) ==
    /\ call[k].does = "add" /\ call[k].at = "done"
    /\ Shows(Append(shown, Entry(call[k].user, call[k].full)))
    /\ Ends(k)
    /\ UNCHANGED <<held, doubt>>

UserRemoved(k) ==
    /\ call[k].does = "remove" /\ call[k].at = "done"
    /\ Shows(Kept(shown, {i \in DOMAIN shown : shown[i].user # call[k].user}))
    /\ Ends(k)
    /\ UNCHANGED <<held, doubt>>

\* After a step of a save: the next one is for whomever the dialog is at now,
\* and the save fails if that is nobody; after the last one the dialog closes.
NextStep(k, list) ==
    LET refilled == Refill(dialog, list)
        next == UserOf(refilled, list)
        c == call[k]
    IN /\ shown' = list
       /\ IF c.todo = <<>>
          THEN Ends(k) /\ dialog' = Closed /\ UNCHANGED doubt
          ELSE /\ dialog' = refilled
               /\ IF next = "none"
                  THEN Ends(k)
                  ELSE call' = [call EXCEPT ![k] = Unassign(c.for, next, c.todo)]
               /\ doubt' = doubt \union
                     {u \in {c.for} : next # u}
                     \union {u \in {next} \intersect Users : About(u) \ {k} # {}}

\* assignTenantUserRoles shows the roles the save is for, before the others
\* have been removed; it fails if the user is not in the list any more.
ShowsAdded(c) == c.roles
ShowsFull(c) == c.full
RolesAssigned(k) ==
    /\ call[k].does = "assign" /\ call[k].at = "done"
    /\ IF Listed(shown, call[k].user)
       THEN NextStep(k, SetRoles(shown, call[k].user, ShowsFull(call[k])))
       ELSE /\ Ends(k)
            /\ doubt' = doubt \union {call[k].user}
            /\ UNCHANGED <<shown, dialog>>
    /\ UNCHANGED held

\* removeTenantUserRole, called by the dialog or for a role in the table.
RoleUnassigned(k) ==
    /\ call[k].does = "unassign" /\ call[k].at = "done"
    /\ LET c == call[k]
           list == SetRoles(shown, c.user, ShownRoles(c.user) \ c.roles)
       IN IF c.for # "none"
          THEN NextStep(k, list)
          ELSE Shows(list) /\ Ends(k) /\ UNCHANGED doubt
    /\ UNCHANGED held

\* An error: nothing in the list changes, and the dialog stays.  A user whom
\* the table already shows without roles that are still to be removed, or whose
\* call was made but not answered, is shown wrongly.
Fails(k) ==
    /\ call[k].at \in {"refused", "lost"}
    /\ doubt' = doubt \union
           (IF call[k].at = "lost" THEN {call[k].user} ELSE {})
           \union (IF call[k].for # "none" /\ call[k].does = "unassign" THEN {call[k].for} ELSE {})
    /\ Ends(k)
    /\ UNCHANGED <<held, shown, dialog>>

-----------------------------------------------------------------------------

\* The tenant was just loaded, and somebody in it owns it.
Init ==
    /\ bceid \in Bceids
    /\ held \in [Users -> AtFirst \union {{}}]
    /\ \A u \in Users : u \in Members <=> held[u] # {}
    /\ \E u \in Members : Owner \in held[u]
    /\ shown \in {[i \in DOMAIN order |-> Entry(order[i], held[order[i]])] :
                     order \in SetToSeqs(Members)}
    /\ dialog = Closed
    /\ call = [k \in Calls |-> NoCall]
    /\ doubt = {}

Next ==
    /\ UNCHANGED bceid
    /\ \/ \E k \in Calls :
           \/ \E u \in Users :
               \/ \E roles \in SUBSET Roles : AddUser(k, u, roles)
               \/ RemoveUser(k, u)
               \/ \E r \in Roles : RemoveRole(k, u, r)
           \/ Save(k)
           \/ Serve(k) \/ Refuse(k)
           \/ UserAdded(k) \/ UserRemoved(k) \/ RolesAssigned(k) \/ RoleUnassigned(k)
           \/ Fails(k)
       \/ \E u \in Users : OpenDialog(u)
       \/ CancelDialog \/ DismissDialog
       \/ \E i \in 1..3 : Check(i)

Spec == Init /\ [][Next]_vars

-----------------------------------------------------------------------------
(* Properties. *)

\* When no call about a user is outstanding the list shows the roles the user
\* has, without ever being loaded again, unless calls about the user crossed,
\* an answer was lost, or a save ended half-way or went on with another user.
ShownIsHeld ==
    \A u \in Users \ doubt : About(u) = {} => ShownRoles(u) = held[u]

\* "add first because remove fails if last role": a save never asks for the
\* removal of the only role its user has.
NeverRemovesLastRole ==
    \A k \in Calls :
        LET c == call[k]
        IN /\ c.for # "none" /\ c.does = "unassign" /\ c.at = "asked"
           /\ c.for \notin doubt /\ About(c.for) = {k}
           => held[c.user] # c.roles
=============================================================================
