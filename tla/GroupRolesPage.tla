--------------------------- MODULE GroupRolesPage ---------------------------
(***************************************************************************)
(* The page on which a group is given roles of connected services.  All    *)
(* groups share one list in the group store, groupServices: it holds what  *)
(* the last answer said, whichever group that was about.  Whatever way one *)
(* comes to the page, its header is set up anew and loads the roles, and   *)
(* shows the page also if that failed.  A saved form is put in the store   *)
(* when the call has succeeded.                                            *)
(*                                                                         *)
(* What the API does is a step of its own; answers come late or not at     *)
(* all.  Nobody else changes the groups, and the services of the tenant    *)
(* stay what they are: every load shows the same roles to tick.            *)
(***************************************************************************)
EXTENDS Naturals, FiniteSets

CONSTANTS
    Groups,     \* groups of the tenant
    Roles,      \* the roles of the connected services of the tenant
    MaxVisits,  \* bound on how often a group's page is set up
    Saves,      \* save calls; a bound on those the user starts
    None

Visits == 1..MaxVisits

\* groupServices when nothing was loaded yet, and draft when it was cleared.
Empty == [r \in {} |-> FALSE]
Forms == [Roles -> BOOLEAN] \union {Empty}

VARIABLES
    enabled,        \* server: the roles of each group
    groupServices,  \* store: the roles and whether they are enabled
    visit,          \* how many headers were set up
    page,           \* the header that is there: its group, and initialized
    draft,          \* the form
    editing,        \* the form can be changed
    load,           \* the call of each header to load the roles
    save,           \* the calls to save them
    touched,        \* history: the roles ticked or cleared by hand
    early,          \* history: the form was filled in while a save was under way
    doubt           \* history: the list may be about something else

vars ==
    <<enabled, groupServices, visit, page, draft, editing, load, save, touched, early, doubt>>

NoPage == [group |-> None, initialized |-> FALSE]
Idle == [at |-> "idle", group |-> None, data |-> Empty]
\* here: the page that called is still the one there is.
IdleSave == [at |-> "idle", group |-> None, data |-> Empty, here |-> FALSE, touched |-> {},
             doubt |-> FALSE]

LoadState ==
    [at : {"idle", "asked", "read", "over"}, group : Groups \union {None}, data : Forms]
SaveState ==
    [at : {"idle", "asked", "done", "refused", "lost", "over"}, group : Groups \union {None},
     data : Forms, here : BOOLEAN, touched : SUBSET Roles, doubt : BOOLEAN]

TypeOK ==
    /\ enabled \in [Groups -> SUBSET Roles]
    /\ groupServices \in Forms
    /\ visit \in 0..MaxVisits
    /\ page \in [group : Groups \union {None}, initialized : BOOLEAN]
    /\ draft \in Forms
    /\ editing \in BOOLEAN
    /\ load \in [Visits -> LoadState]
    /\ save \in [Saves -> SaveState]
    /\ touched \subseteq Roles
    /\ early \in BOOLEAN
    /\ doubt \in BOOLEAN

-----------------------------------------------------------------------------

Form(roles) == [r \in Roles |-> r \in roles]
Enabled(form) == {r \in DOMAIN form : form[r]}

Loading == {v \in Visits : load[v].at \in {"asked", "read"}}
Saving == {k \in Saves : save[k].at \notin {"idle", "over"}}

NoForm == draft' = Empty /\ editing' = FALSE /\ touched' = {} /\ early' = FALSE
KeepForm == UNCHANGED <<draft, editing, touched, early>>

-----------------------------------------------------------------------------
(* Going from page to page. *)

\* init of the header.  The other load, of the group and its members, only
\* delays the page.
OpenGroup(g) ==
    /\ page.group = None
    /\ visit < MaxVisits
    /\ visit' = visit + 1
    /\ page' = [group |-> g, initialized |-> FALSE]
    /\ load' = [load EXCEPT ![visit + 1] = [Idle EXCEPT !.at = "asked", !.group = g]]
    /\ doubt' = (Loading # {} \/ Saving # {})
    /\ NoForm
    /\ UNCHANGED <<enabled, groupServices, save>>

\* Promise.allSettled: also when the load failed.
Initialized ==
    /\ page.group # None
    /\ ~page.initialized
    /\ load[visit].at = "over"
    /\ page' = [page EXCEPT !.initialized = TRUE]
    /\ NoForm
    /\ UNCHANGED <<enabled, groupServices, visit, load, save, doubt>>

\* The view of App.vue has the path for its key: another page, another group or
\* the group's other tab replaces everything, by a link or through the history.
\* Calls under way end in the store only.
LeaveGroup ==
    /\ page.group # None
    /\ page' = NoPage
    /\ NoForm
    /\ save' = [k \in Saves |-> [save[k] EXCEPT !.here = FALSE]]
    /\ UNCHANGED <<enabled, groupServices, visit, load, doubt>>

-----------------------------------------------------------------------------
(* The form. *)

\* startEditing; there is no Edit button as long as no roles are loaded.
StartEditing ==
    /\ page.initialized
    /\ ~editing
    /\ groupServices # Empty
    /\ draft' = groupServices
    /\ editing' = TRUE
    /\ touched' = {}
    /\ early' = (Saving # {})
    /\ UNCHANGED <<enabled, groupServices, visit, page, load, save, doubt>>

Check(r) ==
    /\ page.initialized
    /\ editing
    /\ draft' = [x \in DOMAIN draft \union {r} |-> IF x = r THEN ~draft[r] ELSE draft[x]]
    /\ touched' = touched \union {r}
    /\ UNCHANGED <<enabled, groupServices, visit, page, editing, load, save, early, doubt>>

ClearAll ==
    /\ page.initialized
    /\ editing
    /\ draft' = [r \in DOMAIN draft |-> FALSE]
    /\ touched' = Roles
    /\ UNCHANGED <<enabled, groupServices, visit, page, editing, load, save, early, doubt>>

RevertedToNothing == [r \in DOMAIN draft |-> FALSE]
Reverted == groupServices
UndoChanges ==
    /\ page.initialized
    /\ editing
    /\ draft' = Reverted
    /\ touched' = {}
    /\ early' = (Saving # {})
    /\ UNCHANGED <<enabled, groupServices, visit, page, editing, load, save, doubt>>

CancelEditing ==
    /\ page.initialized
    /\ editing
    /\ NoForm
    /\ UNCHANGED <<enabled, groupServices, visit, page, load, save, doubt>>

\* saveChanges: the roles on the page, each as in the form if it is there.  The
\* form stays open meanwhile.  Saves under way may be answered, and done, in
\* another order.
Updated ==
    [r \in DOMAIN groupServices |-> IF r \in DOMAIN draft THEN draft[r] ELSE groupServices[r]]
SaveChanges(k) ==
    /\ page.initialized
    /\ editing
    /\ save[k].at = "idle"
    /\ doubt' = (doubt \/ Saving # {})
    /\ save' = [j \in Saves |->
           IF j = k
           THEN [at |-> "asked", group |-> page.group, data |-> Updated, here |-> TRUE,
                 touched |-> touched, doubt |-> doubt' \/ early]
           ELSE [save[j] EXCEPT !.doubt = save[j].at \notin {"idle", "over"}]]
    /\ KeepForm
    /\ UNCHANGED <<enabled, groupServices, visit, page, load>>

-----------------------------------------------------------------------------
(* The API and its answers. *)

ReadRoles(v) ==
    /\ load[v].at = "asked"
    /\ load' = [load EXCEPT ![v].at = "read", ![v].data = Form(enabled[load[v].group])]
    /\ KeepForm
    /\ UNCHANGED <<enabled, groupServices, visit, page, save, doubt>>

\* fetchGroupServices puts the answer in the store, whoever is there by now.
RolesLoaded(v) ==
    /\ load[v].at = "read"
    /\ groupServices' = load[v].data
    /\ load' = [load EXCEPT ![v].at = "over", ![v].data = Empty]
    /\ doubt' = (doubt \/ v # visit)
    /\ KeepForm
    /\ UNCHANGED <<enabled, visit, page, save>>

LoadFails(v) ==
    /\ load[v].at \in {"asked", "read"}
    /\ load' = [load EXCEPT ![v].at = "over", ![v].data = Empty]
    /\ doubt' = (doubt \/ v = visit)
    /\ KeepForm
    /\ UNCHANGED <<enabled, groupServices, visit, page, save>>

ServeSave(k) ==
    /\ save[k].at = "asked"
    /\ enabled' = [enabled EXCEPT ![save[k].group] = Enabled(save[k].data)]
    /\ \E end \in {"done", "lost"} : save' = [save EXCEPT ![k].at = end]
    /\ KeepForm
    /\ UNCHANGED <<groupServices, visit, page, load, doubt>>

RefuseSave(k) ==
    /\ save[k].at = "asked"
    /\ save' = [save EXCEPT ![k].at = "refused"]
    /\ KeepForm
    /\ UNCHANGED <<enabled, groupServices, visit, page, load, doubt>>

Ends(k) == save' = [save EXCEPT ![k] = [IdleSave EXCEPT !.at = "over"]]

\* updateGroupRoles shows what was saved; the page ends editing, and with it what
\* was ticked since the call.
ShownAsBefore(k) == groupServices
ShownAsSaved(k) == save[k].data
RolesSaved(k) ==
    /\ save[k].at = "done"
    /\ groupServices' = ShownAsSaved(k)
    /\ doubt' = (doubt \/ save[k].group # page.group)
    /\ Ends(k)
    /\ IF save[k].here THEN NoForm ELSE KeepForm
    /\ UNCHANGED <<enabled, visit, page, load>>

\* An error: the page stays as it is, whether or not the API has done it.
SaveFails(k) ==
    /\ save[k].at \in {"refused", "lost"}
    /\ doubt' = (doubt \/ save[k].at = "lost")
    /\ Ends(k)
    /\ KeepForm
    /\ UNCHANGED <<enabled, groupServices, visit, page, load>>

-----------------------------------------------------------------------------

Init ==
    /\ enabled \in [Groups -> SUBSET Roles]
    /\ groupServices = Empty
    /\ visit = 0
    /\ page = NoPage
    /\ draft = Empty
    /\ editing = FALSE
    /\ load = [v \in Visits |-> Idle]
    /\ save = [k \in Saves |-> IdleSave]
    /\ touched = {}
    /\ early = FALSE
    /\ doubt = FALSE

Next ==
    \/ \E g \in Groups : OpenGroup(g)
    \/ Initialized \/ LeaveGroup
    \/ StartEditing \/ ClearAll \/ UndoChanges \/ CancelEditing
    \/ \E r \in Roles : Check(r)
    \/ \E v \in Visits : ReadRoles(v) \/ RolesLoaded(v) \/ LoadFails(v)
    \/ \E k \in Saves :
        \/ SaveChanges(k)
        \/ ServeSave(k) \/ RefuseSave(k)
        \/ RolesSaved(k) \/ SaveFails(k)

Spec == Init /\ [][Next]_vars

-----------------------------------------------------------------------------
(* Properties. *)

\* With no save under way the page of a group shows the roles the group has,
\* unless the page was opened over calls of another one, a call failed or
\* answered late, or two saves crossed.
PageShowsRolesHeld ==
    page.initialized /\ ~doubt /\ Saving = {} =>
        groupServices = Form(enabled[page.group])

\* Under the same conditions a save changes no role that was not ticked or
\* cleared by hand since the form was opened or reverted, unless that was done
\* while an earlier save was under way.
SaveKeepsUntouched ==
    \A k \in Saves, g \in Groups :
        save[k].at = "asked" /\ save[k]'.at \in {"done", "lost"} /\ ~save[k].doubt =>
            \A r \in Roles :
                (r \in enabled[g]) # (r \in enabled'[g]) =>
                    g = save[k].group /\ r \in save[k].touched
UntouchedRolesKept == [][SaveKeepsUntouched]_vars
=============================================================================
