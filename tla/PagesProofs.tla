---------------------------- MODULE PagesProofs ----------------------------
(***************************************************************************)
(* Theorems about Pages, for any number of users, calls, groups, roles and *)
(* visits: what each page shows, and what its saves do.                    *)
(***************************************************************************)
EXTENDS Pages, TLAPS, WellFoundedInduction, FiniteSetTheorems

-----------------------------------------------------------------------------
(* The page of a group. *)

Full == [ServiceRoles -> BOOLEAN]

\* What is in the form, in the answers and in the calls has all the roles.
FormsFull ==
    /\ editing => draft \in Full /\ groupServices \in Full
    /\ \A v \in Group!Visits : load[v].at = "read" => load[v].data \in Full
    /\ \A k \in Group!Saving : save[k].data \in Full /\ save[k].group \in Groups

\* The header that is there is the last one that was set up.
LastVisitIsHere ==
    /\ page.group # None => visit \in Group!Visits /\ load[visit].group = page.group
    /\ page.initialized => page.group # None /\ load[visit].at = "over"
    /\ editing => page.initialized
    /\ \A v \in Group!Visits : load[v].at # "idle" => load[v].group \in Groups

GroupTypeInv == Group!TypeOK /\ FormsFull /\ LastVisitIsHere

\* As long as the list is not in doubt, one call at most is under way, by the
\* header that is there and for its group, ...
OneCallOfThisPage ==
    /\ Group!Loading \subseteq {visit}
    /\ \A k \in Group!Saving : Group!Saving = {k} /\ save[k].group = page.group /\ save[k].here
    /\ ~page.initialized => Group!Saving = {}

\* ... the roles of the group are in the answer that is on its way, or in the
\* list, or in the call that has been served, ...
Held == Group!Form(enabled[page.group])
HeldIsKnown ==
    /\ load[visit].at = "read" => load[visit].data = Held
    /\ load[visit].at = "over" /\ Group!Saving = {} => groupServices = Held
    /\ \A k \in Group!Saving :
          /\ save[k].at \in {"asked", "refused"} => groupServices = Held
          /\ save[k].at = "done" => enabled[page.group] = Group!Enabled(save[k].data)

\* ... and the form differs from the list where it was changed by hand.
OnlyTouchedDiffers ==
    editing /\ ~early =>
        \A r \in ServiceRoles \ touched : draft[r] = groupServices[r]

\* A save that is not in doubt is the only one, and its roles differ from those
\* held where they were changed by hand.
SavesOnlyTouched ==
    \A k \in Saves :
        save[k].at = "asked" /\ ~save[k].doubt =>
            /\ Group!Saving = {k}
            /\ \A r \in ServiceRoles \ save[k].touched :
                  save[k].data[r] <=> r \in enabled[save[k].group]

GroupInv ==
    /\ GroupTypeInv
    /\ page.group # None /\ ~unsure => OneCallOfThisPage /\ HeldIsKnown /\ OnlyTouchedDiffers
    /\ SavesOnlyTouched

\* A save's row changes only in how far it is.
LEMMA SaveMoves ==
    ASSUME Group!TypeOK, NEW k \in Saves,
           NEW at \in {"idle", "asked", "done", "refused", "lost", "over"},
           save' = [save EXCEPT ![k].at = at]
    PROVE  /\ save' \in [Saves -> Group!SaveState]
           /\ \A j \in Saves : j # k => save'[j] = save[j]
           /\ save'[k] = [save[k] EXCEPT !.at = at]
           /\ save'[k].at = at
           /\ save'[k].group = save[k].group
           /\ save'[k].data = save[k].data
           /\ save'[k].here = save[k].here
           /\ save'[k].touched = save[k].touched
           /\ save'[k].doubt = save[k].doubt
<1>1. save \in [Saves -> Group!SaveState]
  BY DEF Group!TypeOK
<1>2. PICK row \in Group!SaveState : row = save[k]
  BY <1>1
<1>3. save' = [save EXCEPT ![k] = [row EXCEPT !.at = at]]
  BY <1>2
<1>4. /\ [row EXCEPT !.at = at] \in Group!SaveState
      /\ [row EXCEPT !.at = at].at = at
      /\ [row EXCEPT !.at = at].group = row.group
      /\ [row EXCEPT !.at = at].data = row.data
      /\ [row EXCEPT !.at = at].here = row.here
      /\ [row EXCEPT !.at = at].touched = row.touched
      /\ [row EXCEPT !.at = at].doubt = row.doubt
  BY DEF Group!SaveState
<1> QED
  BY <1>1, <1>2, <1>3, <1>4

\* A load's row changes only in how far it is and what it has read.
LEMMA LoadMoves ==
    ASSUME Group!TypeOK, NEW v \in Group!Visits, NEW at \in {"idle", "asked", "read", "over"},
           NEW data \in Group!Forms,
           load' = [load EXCEPT ![v].at = at, ![v].data = data]
    PROVE  /\ load' \in [Group!Visits -> Group!LoadState]
           /\ \A w \in Group!Visits : w # v => load'[w] = load[w]
           /\ load'[v].at = at
           /\ load'[v].group = load[v].group
           /\ load'[v].data = data
<1>1. load \in [Group!Visits -> Group!LoadState]
  BY DEF Group!TypeOK
<1>2. PICK row \in Group!LoadState : row = load[v]
  BY <1>1
<1>3. load' = [load EXCEPT ![v] = [row EXCEPT !.at = at, !.data = data]]
  BY <1>1, <1>2
<1>4. /\ [row EXCEPT !.at = at, !.data = data] \in Group!LoadState
      /\ [row EXCEPT !.at = at, !.data = data].at = at
      /\ [row EXCEPT !.at = at, !.data = data].group = row.group
      /\ [row EXCEPT !.at = at, !.data = data].data = data
  BY DEF Group!LoadState
<1> QED
  BY <1>1, <1>2, <1>3, <1>4

\* A save whose page is left goes on as it was.
LEMMA LeftRow ==
    ASSUME NEW row \in Group!SaveState
    PROVE  /\ [row EXCEPT !.here = FALSE] \in Group!SaveState
           /\ [row EXCEPT !.here = FALSE].at = row.at
           /\ [row EXCEPT !.here = FALSE].group = row.group
           /\ [row EXCEPT !.here = FALSE].data = row.data
           /\ [row EXCEPT !.here = FALSE].touched = row.touched
           /\ [row EXCEPT !.here = FALSE].doubt = row.doubt
BY DEF Group!SaveState

\* Calls that are not made.
LEMMA IdleRows ==
    /\ Group!Empty \in Group!Forms
    /\ Group!Idle \in Group!LoadState /\ Group!Idle.at = "idle"
    /\ Group!IdleSave \in Group!SaveState /\ Group!IdleSave.at = "idle"
BY DEF Group!Idle, Group!IdleSave, Group!Forms, Group!LoadState, Group!SaveState

\* No page of a group, nothing loaded, nothing saved.
LEMMA InitGroup == Group!Init => GroupInv
<1> SUFFICES ASSUME Group!Init PROVE GroupInv
  OBVIOUS
<1>1. Group!TypeOK
  <2>1. load \in [Group!Visits -> Group!LoadState] /\ save \in [Saves -> Group!SaveState]
    BY IdleRows DEF Group!Init
  <2>2. page \in [group : Groups \union {None}, initialized : BOOLEAN]
    BY DEF Group!Init, Group!NoPage
  <2>3. visit \in 0..MaxVisits
    BY VisitsAssumption DEF Group!Init
  <2>4. enabled \in [Groups -> SUBSET ServiceRoles]
    BY DEF Group!Init
  <2> QED
    BY <2>1, <2>2, <2>3, <2>4, IdleRows DEF Group!Init, Group!TypeOK
<1>2. Group!Saving = {}
  BY IdleRows DEF Group!Init, Group!Saving
<1>3. FormsFull
  BY <1>2, IdleRows DEF Group!Init, FormsFull
<1>4. LastVisitIsHere
  BY IdleRows DEF Group!Init, LastVisitIsHere, Group!NoPage
<1>5. SavesOnlyTouched
  BY IdleRows DEF Group!Init, SavesOnlyTouched
<1> QED
  BY <1>1, <1>3, <1>4, <1>5 DEF Group!Init, GroupInv, GroupTypeInv, Group!NoPage

\* saveChanges asks for all the roles of the page, and puts the others in doubt.
LEMMA SaveStarts ==
    ASSUME GroupTypeInv, NEW k \in Saves, Group!SaveChanges(k)
    PROVE  /\ save' \in [Saves -> Group!SaveState] /\ unsure' \in BOOLEAN
           /\ Group!Updated \in Full /\ page.group \in Groups
           /\ save'[k].at = "asked" /\ save'[k].data = Group!Updated
           /\ save'[k].group = page.group /\ save'[k].here /\ save'[k].touched = touched
           /\ save'[k].doubt = (unsure' \/ early)
           /\ \A j \in Saves : j # k =>
                 /\ save'[j].at = save[j].at /\ save'[j].group = save[j].group
                 /\ save'[j].data = save[j].data /\ save'[j].here = save[j].here
                 /\ save'[j].doubt = (save[j].at \notin {"idle", "over"})
<1> USE DEF GroupTypeInv
<1>1. Group!Updated \in Full
  BY DEF Group!SaveChanges, FormsFull, Group!Updated, Full
<1>2. page.group \in Groups
  BY DEF Group!SaveChanges, Group!TypeOK, LastVisitIsHere
<1>3. /\ unsure' \in BOOLEAN
      /\ \A j \in Saves : (save[j].at \notin {"idle", "over"}) \in BOOLEAN
  BY DEF Group!SaveChanges
<1> DEFINE new == [at |-> "asked", group |-> page.group, data |-> Group!Updated,
                   here |-> TRUE, touched |-> touched, doubt |-> unsure' \/ early]
<1>4. new \in Group!SaveState
  BY <1>1, <1>2, <1>3 DEF Group!SaveState, Group!Forms, Full, Group!TypeOK
<1>5. save' = [j \in Saves |-> IF j = k THEN new
                ELSE [save[j] EXCEPT !.doubt = save[j].at \notin {"idle", "over"}]]
  BY DEF Group!SaveChanges
<1>6. /\ new.at = "asked" /\ new.data = Group!Updated /\ new.group = page.group
      /\ new.here /\ new.touched = touched /\ new.doubt = (unsure' \/ early)
  OBVIOUS
<1> HIDE DEF new
<1>7. save'[k] = new
  BY <1>5
<1>8. ASSUME NEW j \in Saves, j # k
      PROVE  /\ save'[j] \in Group!SaveState
             /\ save'[j].at = save[j].at /\ save'[j].group = save[j].group
             /\ save'[j].data = save[j].data /\ save'[j].here = save[j].here
             /\ save'[j].doubt = (save[j].at \notin {"idle", "over"})
  <2>1. PICK b \in BOOLEAN : b = (save[j].at \notin {"idle", "over"})
    BY <1>3
  <2>2. PICK row \in Group!SaveState : row = save[j]
    BY DEF Group!TypeOK
  <2>3. save'[j] = [row EXCEPT !.doubt = b]
    BY <1>5, <1>8, <2>1, <2>2
  <2>4. /\ [row EXCEPT !.doubt = b] \in Group!SaveState
        /\ [row EXCEPT !.doubt = b].at = row.at
        /\ [row EXCEPT !.doubt = b].group = row.group
        /\ [row EXCEPT !.doubt = b].data = row.data
        /\ [row EXCEPT !.doubt = b].here = row.here
        /\ [row EXCEPT !.doubt = b].doubt = b
    BY DEF Group!SaveState
  <2> QED
    BY <2>1, <2>2, <2>3, <2>4
<1>9. save' \in [Saves -> Group!SaveState]
  BY <1>4, <1>5, <1>7, <1>8
<1> QED
  BY <1>1, <1>2, <1>3, <1>6, <1>7, <1>8, <1>9

\* Every step of the roles page keeps the types of its state.
LEMMA NextGroupType == GroupTypeInv /\ [Group!Next]_groupPage => GroupTypeInv'
<1> SUFFICES ASSUME GroupTypeInv, [Group!Next]_groupPage PROVE GroupTypeInv'
  OBVIOUS
<1> USE VisitsAssumption, NoneAssumption DEF GroupTypeInv
<1>1. ASSUME NEW g \in Groups, Group!OpenGroup(g) PROVE GroupTypeInv'
  <2> DEFINE asked == [Group!Idle EXCEPT !.at = "asked", !.group = g]
  <2>4. visit + 1 \in Group!Visits
    BY <1>1, VisitsAssumption DEF Group!OpenGroup, Group!TypeOK, Group!Visits
  <2>5. asked \in Group!LoadState /\ asked.at = "asked" /\ asked.group = g
    BY DEF Group!Idle, Group!LoadState, Group!Forms
  <2>6. load' \in [Group!Visits -> Group!LoadState]
    BY <1>1, <2>5 DEF Group!OpenGroup, Group!TypeOK
  <2>7. page' \in [group : Groups \union {None}, initialized : BOOLEAN]
    BY <1>1 DEF Group!OpenGroup
  <2>8. visit' \in 0..MaxVisits
    BY <1>1, <2>4 DEF Group!OpenGroup, Group!Visits
  <2>9. unsure' \in BOOLEAN
    BY <1>1 DEF Group!OpenGroup
  <2>1. Group!TypeOK'
    BY <1>1, <2>6, <2>7, <2>8, <2>9, IdleRows DEF Group!OpenGroup, Group!NoForm, Group!TypeOK
  <2>2. FormsFull'
    BY <1>1 DEF Group!OpenGroup, Group!NoForm, FormsFull, Group!Saving
  <2>3. LastVisitIsHere'
    BY <1>1 DEF Group!OpenGroup, Group!NoForm, Group!TypeOK, LastVisitIsHere, Group!Visits
  <2> QED
    BY <2>1, <2>2, <2>3
<1>2. CASE Group!Initialized
  <2>1. Group!TypeOK'
    BY <1>2
       DEF Group!Initialized, Group!NoForm, Group!TypeOK, Full, Group!Forms, Group!Empty,
           Group!Visits
  <2>2. FormsFull'
    BY <1>2 DEF Group!Initialized, Group!NoForm, FormsFull, Group!Saving
  <2>3. LastVisitIsHere'
    BY <1>2 DEF Group!Initialized, LastVisitIsHere
  <2> QED
    BY <2>1, <2>2, <2>3
<1>3. CASE Group!LeaveGroup
  <2>4. /\ save' \in [Saves -> Group!SaveState]
        /\ \A k \in Saves : save'[k].at = save[k].at /\ save'[k].group = save[k].group
                            /\ save'[k].data = save[k].data
    BY <1>3, LeftRow DEF Group!LeaveGroup, Group!TypeOK
  <2>1. Group!TypeOK'
    BY <1>3, <2>4, IdleRows DEF Group!LeaveGroup, Group!NoForm, Group!NoPage, Group!TypeOK
  <2>2. FormsFull'
    BY <1>3, <2>4 DEF Group!LeaveGroup, Group!NoForm, FormsFull, Group!Saving
  <2>3. LastVisitIsHere'
    BY <1>3 DEF Group!LeaveGroup, Group!NoForm, Group!NoPage, LastVisitIsHere
  <2> QED
    BY <2>1, <2>2, <2>3
<1>4. CASE Group!StartEditing
  <2>1. Group!TypeOK'
    BY <1>4 DEF Group!StartEditing, Group!TypeOK, Full, Group!Forms, Group!Empty, Group!Visits
  <2>2. FormsFull'
    BY <1>4 DEF Group!StartEditing, Group!TypeOK, FormsFull, Group!Saving, Full, Group!Forms
  <2>3. LastVisitIsHere'
    BY <1>4 DEF Group!StartEditing, LastVisitIsHere
  <2> QED
    BY <2>1, <2>2, <2>3
<1>5. ASSUME NEW r \in ServiceRoles, Group!Check(r) PROVE GroupTypeInv'
  <2>4. draft' \in Full
    BY <1>5 DEF Group!Check, FormsFull, Full
  <2>1. Group!TypeOK'
    BY <1>5, <2>4 DEF Group!Check, Group!TypeOK, Full, Group!Forms
  <2>2. FormsFull'
    BY <1>5, <2>4 DEF Group!Check, FormsFull, Group!Saving
  <2>3. LastVisitIsHere'
    BY <1>5 DEF Group!Check, LastVisitIsHere
  <2> QED
    BY <2>1, <2>2, <2>3
<1>6. CASE Group!ClearAll
  <2>1. Group!TypeOK'
    BY <1>6 DEF Group!ClearAll, Group!TypeOK, Full, Group!Forms, Group!Empty, Group!Visits
  <2>2. FormsFull'
    BY <1>6 DEF Group!ClearAll, FormsFull, Group!Saving, Full
  <2>3. LastVisitIsHere'
    BY <1>6 DEF Group!ClearAll, LastVisitIsHere
  <2> QED
    BY <2>1, <2>2, <2>3
<1>7. CASE Group!UndoChanges
  <2>1. Group!TypeOK'
    BY <1>7 DEF Group!UndoChanges, Group!Reverted, Group!TypeOK
  <2>2. FormsFull'
    BY <1>7 DEF Group!UndoChanges, Group!Reverted, FormsFull, Group!Saving
  <2>3. LastVisitIsHere'
    BY <1>7 DEF Group!UndoChanges, LastVisitIsHere
  <2> QED
    BY <2>1, <2>2, <2>3
<1>8. CASE Group!CancelEditing
  <2>1. Group!TypeOK'
    BY <1>8
       DEF Group!CancelEditing, Group!NoForm, Group!TypeOK, Full, Group!Forms, Group!Empty,
           Group!Visits
  <2>2. FormsFull'
    BY <1>8 DEF Group!CancelEditing, Group!NoForm, FormsFull, Group!Saving
  <2>3. LastVisitIsHere'
    BY <1>8 DEF Group!CancelEditing, LastVisitIsHere
  <2> QED
    BY <2>1, <2>2, <2>3
<1>9. ASSUME NEW v \in Group!Visits, Group!ReadRoles(v) PROVE GroupTypeInv'
  <2> DEFINE data == Group!Form(enabled[load[v].group])
  <2>1. data \in Full
    BY DEF Group!Form, Full
  <2>2. load' = [load EXCEPT ![v].at = "read", ![v].data = data]
    BY <1>9 DEF Group!ReadRoles
  <2> HIDE DEF data
  <2>3. /\ load' \in [Group!Visits -> Group!LoadState]
        /\ \A w \in Group!Visits : w # v => load'[w] = load[w]
        /\ load'[v].at = "read" /\ load'[v].group = load[v].group /\ load'[v].data = data
    BY <2>1, <2>2, LoadMoves DEF Group!Forms, Full
  <2>11. Group!TypeOK'
    BY <1>9, <2>3 DEF Group!ReadRoles, Group!KeepForm, Group!TypeOK
  <2>12. FormsFull'
    BY <1>9, <2>1, <2>3 DEF Group!ReadRoles, Group!KeepForm, FormsFull, Group!Saving
  <2>13. LastVisitIsHere'
    BY <1>9, <2>3 DEF Group!ReadRoles, Group!KeepForm, LastVisitIsHere
  <2> QED
    BY <2>11, <2>12, <2>13
<1>10. ASSUME NEW v \in Group!Visits, Group!RolesLoaded(v) PROVE GroupTypeInv'
  <2>1. Group!Empty \in Group!Forms
    BY DEF Group!Forms
  <2>2. load' = [load EXCEPT ![v].at = "over", ![v].data = Group!Empty]
    BY <1>10 DEF Group!RolesLoaded
  <2>3. /\ load' \in [Group!Visits -> Group!LoadState]
        /\ \A w \in Group!Visits : w # v => load'[w] = load[w]
        /\ load'[v].at = "over" /\ load'[v].group = load[v].group
    BY <2>1, <2>2, LoadMoves
  <2>11. Group!TypeOK'
    BY <1>10, <2>3 DEF Group!RolesLoaded, Group!KeepForm, Group!TypeOK, Group!LoadState
  <2>12. FormsFull'
    BY <1>10, <2>3 DEF Group!RolesLoaded, Group!KeepForm, FormsFull, Group!Saving
  <2>13. LastVisitIsHere'
    BY <1>10, <2>3 DEF Group!RolesLoaded, Group!KeepForm, LastVisitIsHere
  <2> QED
    BY <2>11, <2>12, <2>13
<1>11. ASSUME NEW v \in Group!Visits, Group!LoadFails(v) PROVE GroupTypeInv'
  <2>1. Group!Empty \in Group!Forms
    BY DEF Group!Forms
  <2>2. load' = [load EXCEPT ![v].at = "over", ![v].data = Group!Empty]
    BY <1>11 DEF Group!LoadFails
  <2>3. /\ load' \in [Group!Visits -> Group!LoadState]
        /\ \A w \in Group!Visits : w # v => load'[w] = load[w]
        /\ load'[v].at = "over" /\ load'[v].group = load[v].group
    BY <2>1, <2>2, LoadMoves
  <2>11. Group!TypeOK'
    BY <1>11, <2>3 DEF Group!LoadFails, Group!KeepForm, Group!TypeOK
  <2>12. FormsFull'
    BY <1>11, <2>3 DEF Group!LoadFails, Group!KeepForm, FormsFull, Group!Saving
  <2>13. LastVisitIsHere'
    BY <1>11, <2>3 DEF Group!LoadFails, Group!KeepForm, LastVisitIsHere
  <2> QED
    BY <2>11, <2>12, <2>13
<1>12. ASSUME NEW k \in Saves, Group!SaveChanges(k) PROVE GroupTypeInv'
  <2>4. /\ save' \in [Saves -> Group!SaveState] /\ unsure' \in BOOLEAN
        /\ save'[k].at = "asked" /\ save'[k].data \in Full /\ save'[k].group \in Groups
        /\ \A j \in Saves : j # k =>
              save'[j].at = save[j].at /\ save'[j].group = save[j].group
              /\ save'[j].data = save[j].data
    BY <1>12, SaveStarts
  <2>1. Group!TypeOK'
    BY <1>12, <2>4 DEF Group!SaveChanges, Group!KeepForm, Group!TypeOK
  <2>2. FormsFull'
    BY <1>12, <2>4 DEF Group!SaveChanges, Group!KeepForm, FormsFull, Group!Saving
  <2>3. LastVisitIsHere'
    BY <1>12 DEF Group!SaveChanges, LastVisitIsHere
  <2> QED
    BY <2>1, <2>2, <2>3
<1>13. ASSUME NEW k \in Saves, Group!ServeSave(k) PROVE GroupTypeInv'
  <2>1. PICK end \in {"done", "lost"} : save' = [save EXCEPT ![k].at = end]
    BY <1>13 DEF Group!ServeSave
  <2>3. /\ save' \in [Saves -> Group!SaveState]
        /\ \A j \in Saves : j # k => save'[j] = save[j]
        /\ save'[k].group = save[k].group /\ save'[k].data = save[k].data
    BY <2>1, SaveMoves
  <2>4. enabled' \in [Groups -> SUBSET ServiceRoles]
    BY <1>13 DEF Group!ServeSave, Group!Enabled, Group!TypeOK, FormsFull, Group!Saving, Full
  <2>11. Group!TypeOK'
    BY <1>13, <2>3, <2>4 DEF Group!ServeSave, Group!KeepForm, Group!TypeOK
  <2>12. FormsFull'
    BY <1>13 DEF Group!ServeSave, Group!KeepForm, FormsFull, Group!Saving
  <2>13. LastVisitIsHere'
    BY <1>13 DEF Group!ServeSave, Group!KeepForm, LastVisitIsHere
  <2> QED
    BY <2>11, <2>12, <2>13
<1>14. ASSUME NEW k \in Saves, Group!RefuseSave(k) PROVE GroupTypeInv'
  <2>1. save' = [save EXCEPT ![k].at = "refused"]
    BY <1>14 DEF Group!RefuseSave
  <2>3. /\ save' \in [Saves -> Group!SaveState]
        /\ \A j \in Saves : j # k => save'[j] = save[j]
        /\ save'[k].group = save[k].group /\ save'[k].data = save[k].data
    BY <2>1, SaveMoves
  <2>11. Group!TypeOK'
    BY <1>14, <2>3 DEF Group!RefuseSave, Group!KeepForm, Group!TypeOK
  <2>12. FormsFull'
    BY <1>14 DEF Group!RefuseSave, Group!KeepForm, FormsFull, Group!Saving
  <2>13. LastVisitIsHere'
    BY <1>14 DEF Group!RefuseSave, Group!KeepForm, LastVisitIsHere
  <2> QED
    BY <2>11, <2>12, <2>13
<1>15. ASSUME NEW k \in Saves, Group!RolesSaved(k) PROVE GroupTypeInv'
  <2>1. Group!TypeOK'
    BY <1>15
       DEF Group!RolesSaved, Group!ShownAsSaved, Group!Ends, Group!IdleSave, Group!KeepForm,
           Group!NoForm, Group!SaveState, Group!TypeOK, Full, Group!Forms, Group!Empty,
           Group!Visits
  <2>2. FormsFull'
    BY <1>15
       DEF Group!RolesSaved, Group!ShownAsSaved, Group!Ends, Group!KeepForm, Group!NoForm,
           FormsFull, Group!Saving
  <2>3. LastVisitIsHere'
    BY <1>15 DEF Group!RolesSaved, Group!KeepForm, Group!NoForm, LastVisitIsHere
  <2> QED
    BY <2>1, <2>2, <2>3
<1>16. ASSUME NEW k \in Saves, Group!SaveFails(k) PROVE GroupTypeInv'
  <2>1. Group!TypeOK'
    BY <1>16
       DEF Group!SaveFails, Group!Ends, Group!IdleSave, Group!KeepForm, Group!SaveState,
           Group!TypeOK, Full, Group!Forms, Group!Empty, Group!Visits
  <2>2. FormsFull'
    BY <1>16 DEF Group!SaveFails, Group!Ends, Group!KeepForm, FormsFull, Group!Saving
  <2>3. LastVisitIsHere'
    BY <1>16 DEF Group!SaveFails, Group!KeepForm, LastVisitIsHere
  <2> QED
    BY <2>1, <2>2, <2>3
<1>17. CASE UNCHANGED groupPage
  <2>1. Group!TypeOK'
    BY <1>17 DEF groupPage, Group!TypeOK, Full, Group!Forms, Group!Empty, Group!Visits
  <2>2. FormsFull'
    BY <1>17 DEF groupPage, FormsFull, Group!Saving
  <2>3. LastVisitIsHere'
    BY <1>17 DEF groupPage, LastVisitIsHere
  <2> QED
    BY <2>1, <2>2, <2>3
<1> QED
  BY <1>1, <1>2, <1>3, <1>4, <1>5, <1>6, <1>7, <1>8, <1>9, <1>10, <1>11, <1>12, <1>13, <1>14,
     <1>15, <1>16, <1>17
     DEF Group!Next

\* Every step of the roles page keeps its invariant: what a save under way was
\* touched, whether or not the page is sure, and the rest while it is.
LEMMA NextGroup == GroupInv /\ [Group!Next]_groupPage => GroupInv'
<1> SUFFICES ASSUME GroupInv, [Group!Next]_groupPage PROVE GroupInv'
  OBVIOUS
<1> DEFINE Sure == page.group # None /\ ~unsure
           SureInv == OneCallOfThisPage /\ HeldIsKnown /\ OnlyTouchedDiffers
<1>0. GroupTypeInv /\ GroupTypeInv' /\ (Sure => SureInv) /\ SavesOnlyTouched
  BY NextGroupType DEF GroupInv
<1> SUFFICES SavesOnlyTouched' /\ (Sure' => SureInv')
  BY <1>0 DEF GroupInv
<1> USE <1>0, VisitsAssumption, NoneAssumption DEF GroupTypeInv
<1>1. ASSUME NEW g \in Groups, Group!OpenGroup(g)
      PROVE  SavesOnlyTouched' /\ (Sure' => SureInv')
  <2> DEFINE asked == [Group!Idle EXCEPT !.at = "asked", !.group = g]
  <2>1. asked.at = "asked" /\ asked.group = g
    BY DEF Group!Idle
  <2>2. visit' \in Group!Visits
    BY <1>1, VisitsAssumption DEF Group!OpenGroup, Group!TypeOK, Group!Visits
  <2>3. load'[visit'].at = "asked" /\ \A v \in Group!Visits : v # visit' => load'[v] = load[v]
    BY <1>1, <2>1, <2>2 DEF Group!OpenGroup, Group!TypeOK
  <2>11. SavesOnlyTouched'
    BY <1>1 DEF Group!OpenGroup, Group!Saving, SavesOnlyTouched
  <2>12. ASSUME Sure' PROVE OneCallOfThisPage'
    BY <1>1, <2>2, <2>3, <2>12
       DEF Group!OpenGroup, Group!NoForm, GroupTypeInv, Group!TypeOK, LastVisitIsHere,
           Group!Saving, Group!Loading, OneCallOfThisPage
  <2>13. ASSUME Sure' PROVE HeldIsKnown'
    BY <1>1, <2>2, <2>3, <2>13
       DEF Group!OpenGroup, Group!NoForm, GroupTypeInv, Group!TypeOK, LastVisitIsHere,
           Group!Saving, Group!Loading, OneCallOfThisPage, HeldIsKnown, Held
  <2>14. ASSUME Sure' PROVE OnlyTouchedDiffers'
    BY <2>3 DEF LastVisitIsHere, OnlyTouchedDiffers
  <2> QED
    BY <2>11, <2>12, <2>13, <2>14
<1>2. CASE Group!Initialized
  <2>11. SavesOnlyTouched'
    BY <1>2 DEF Group!Initialized, Group!Saving, SavesOnlyTouched
  <2>12. ASSUME Sure' PROVE OneCallOfThisPage'
    BY <1>2, <2>12 DEF Group!Initialized, Group!Saving, Group!Loading, OneCallOfThisPage
  <2>13. ASSUME Sure' PROVE HeldIsKnown'
    BY <1>2, <2>13 DEF Group!Initialized, Group!Saving, HeldIsKnown, Held
  <2>14. ASSUME Sure' PROVE OnlyTouchedDiffers'
    BY <1>2 DEF Group!Initialized, Group!NoForm, OnlyTouchedDiffers
  <2> QED
    BY <2>11, <2>12, <2>13, <2>14
<1>3. CASE Group!LeaveGroup
  <2>1. \A k \in Saves : /\ save'[k].at = save[k].at /\ save'[k].group = save[k].group
                         /\ save'[k].data = save[k].data /\ save'[k].doubt = save[k].doubt
                         /\ save'[k].touched = save[k].touched
    BY <1>3, LeftRow DEF Group!LeaveGroup, Group!TypeOK
  <2>11. SavesOnlyTouched'
    BY <1>3, <2>1 DEF Group!LeaveGroup, Group!TypeOK, Group!Saving, SavesOnlyTouched
  <2>12. ASSUME Sure' PROVE OneCallOfThisPage'
    BY <1>3, <2>12 DEF Group!LeaveGroup, Group!NoPage
  <2>13. ASSUME Sure' PROVE HeldIsKnown'
    BY <1>3, <2>13 DEF Group!LeaveGroup, Group!NoPage
  <2>14. ASSUME Sure' PROVE OnlyTouchedDiffers'
    BY <1>3, <2>14 DEF Group!LeaveGroup, Group!NoPage
  <2> QED
    BY <2>11, <2>12, <2>13, <2>14
<1>4. CASE Group!StartEditing
  <2>11. SavesOnlyTouched'
    BY <1>4 DEF Group!StartEditing, Group!Saving, SavesOnlyTouched
  <2>12. ASSUME Sure' PROVE OneCallOfThisPage'
    BY <1>4, <2>12 DEF Group!StartEditing, Group!Saving, Group!Loading, OneCallOfThisPage
  <2>13. ASSUME Sure' PROVE HeldIsKnown'
    BY <1>4, <2>13 DEF Group!StartEditing, Group!Saving, HeldIsKnown, Held
  <2>14. ASSUME Sure' PROVE OnlyTouchedDiffers'
    BY <1>4 DEF Group!StartEditing, OnlyTouchedDiffers
  <2> QED
    BY <2>11, <2>12, <2>13, <2>14
<1>5. ASSUME NEW r \in ServiceRoles, Group!Check(r)
      PROVE  SavesOnlyTouched' /\ (Sure' => SureInv')
  <2>11. SavesOnlyTouched'
    BY <1>5 DEF Group!Check, Group!Saving, SavesOnlyTouched
  <2>12. ASSUME Sure' PROVE OneCallOfThisPage'
    BY <1>5, <2>12 DEF Group!Check, Group!Saving, Group!Loading, OneCallOfThisPage
  <2>13. ASSUME Sure' PROVE HeldIsKnown'
    BY <1>5, <2>13 DEF Group!Check, Group!Saving, HeldIsKnown, Held
  <2>14. ASSUME Sure' PROVE OnlyTouchedDiffers'
    BY <1>5, <2>14 DEF Group!Check, OnlyTouchedDiffers, FormsFull, Full
  <2> QED
    BY <2>11, <2>12, <2>13, <2>14
<1>6. CASE Group!ClearAll
  <2>11. SavesOnlyTouched'
    BY <1>6 DEF Group!ClearAll, Group!Saving, SavesOnlyTouched
  <2>12. ASSUME Sure' PROVE OneCallOfThisPage'
    BY <1>6, <2>12 DEF Group!ClearAll, Group!Saving, Group!Loading, OneCallOfThisPage
  <2>13. ASSUME Sure' PROVE HeldIsKnown'
    BY <1>6, <2>13 DEF Group!ClearAll, Group!Saving, HeldIsKnown, Held
  <2>14. ASSUME Sure' PROVE OnlyTouchedDiffers'
    BY <1>6 DEF Group!ClearAll, OnlyTouchedDiffers
  <2> QED
    BY <2>11, <2>12, <2>13, <2>14
<1>7. CASE Group!UndoChanges
  <2>11. SavesOnlyTouched'
    BY <1>7 DEF Group!UndoChanges, Group!Saving, SavesOnlyTouched
  <2>12. ASSUME Sure' PROVE OneCallOfThisPage'
    BY <1>7, <2>12 DEF Group!UndoChanges, Group!Saving, Group!Loading, OneCallOfThisPage
  <2>13. ASSUME Sure' PROVE HeldIsKnown'
    BY <1>7, <2>13 DEF Group!UndoChanges, Group!Saving, HeldIsKnown, Held
  <2>14. ASSUME Sure' PROVE OnlyTouchedDiffers'
    BY <1>7 DEF Group!UndoChanges, Group!Reverted, OnlyTouchedDiffers
  <2> QED
    BY <2>11, <2>12, <2>13, <2>14
<1>8. CASE Group!CancelEditing
  <2>11. SavesOnlyTouched'
    BY <1>8 DEF Group!CancelEditing, Group!Saving, SavesOnlyTouched
  <2>12. ASSUME Sure' PROVE OneCallOfThisPage'
    BY <1>8, <2>12 DEF Group!CancelEditing, Group!Saving, Group!Loading, OneCallOfThisPage
  <2>13. ASSUME Sure' PROVE HeldIsKnown'
    BY <1>8, <2>13 DEF Group!CancelEditing, Group!Saving, HeldIsKnown, Held
  <2>14. ASSUME Sure' PROVE OnlyTouchedDiffers'
    BY <1>8 DEF Group!CancelEditing, Group!NoForm, OnlyTouchedDiffers
  <2> QED
    BY <2>11, <2>12, <2>13, <2>14
<1>9. ASSUME NEW v \in Group!Visits, Group!ReadRoles(v)
      PROVE  SavesOnlyTouched' /\ (Sure' => SureInv')
  <2> DEFINE data == Group!Form(enabled[load[v].group])
  <2>1. data \in Group!Forms
    BY DEF Group!Form, Group!Forms
  <2>2. load' = [load EXCEPT ![v].at = "read", ![v].data = data]
    BY <1>9 DEF Group!ReadRoles
  <2> HIDE DEF data
  <2>3. /\ \A w \in Group!Visits : w # v => load'[w] = load[w]
        /\ load'[v].at = "read" /\ load'[v].group = load[v].group /\ load'[v].data = data
    BY <2>1, <2>2, LoadMoves
  <2>11. SavesOnlyTouched'
    BY <1>9 DEF Group!ReadRoles, Group!Saving, SavesOnlyTouched
  <2>12. ASSUME Sure' PROVE OneCallOfThisPage'
    BY <1>9, <2>12
       DEF Group!ReadRoles, Group!TypeOK, Group!Saving, Group!Loading, OneCallOfThisPage
  <2>13. ASSUME Sure' PROVE HeldIsKnown'
    BY <1>9, <2>13
       DEF Group!ReadRoles, Group!TypeOK, LastVisitIsHere, Group!Saving, HeldIsKnown, Held
  <2>14. ASSUME Sure' PROVE OnlyTouchedDiffers'
    BY <1>9, <2>14 DEF Group!ReadRoles, Group!KeepForm, OnlyTouchedDiffers
  <2> QED
    BY <2>11, <2>12, <2>13, <2>14
<1>10. ASSUME NEW v \in Group!Visits, Group!RolesLoaded(v)
      PROVE  SavesOnlyTouched' /\ (Sure' => SureInv')
  <2>2. load' = [load EXCEPT ![v].at = "over", ![v].data = Group!Empty]
    BY <1>10 DEF Group!RolesLoaded
  <2>3. /\ \A w \in Group!Visits : w # v => load'[w] = load[w]
        /\ load'[v].at = "over" /\ load'[v].group = load[v].group
    BY <2>2, LoadMoves, IdleRows
  <2>11. SavesOnlyTouched'
    BY <1>10 DEF Group!RolesLoaded, Group!Saving, SavesOnlyTouched
  <2>12. ASSUME Sure' PROVE OneCallOfThisPage'
    BY <1>10, <2>12
       DEF Group!RolesLoaded, Group!TypeOK, Group!Saving, Group!Loading, OneCallOfThisPage
  <2>13. ASSUME Sure' PROVE HeldIsKnown'
    BY <1>10, <2>13
       DEF Group!RolesLoaded, Group!TypeOK, Group!Saving, Group!Loading, OneCallOfThisPage,
           HeldIsKnown, Held
  <2>14. ASSUME Sure' PROVE OnlyTouchedDiffers'
    BY <1>10, <2>14 DEF Group!RolesLoaded, LastVisitIsHere, OnlyTouchedDiffers, FormsFull, Full
  <2> QED
    BY <2>11, <2>12, <2>13, <2>14
<1>11. ASSUME NEW v \in Group!Visits, Group!LoadFails(v)
      PROVE  SavesOnlyTouched' /\ (Sure' => SureInv')
  <2>2. load' = [load EXCEPT ![v].at = "over", ![v].data = Group!Empty]
    BY <1>11 DEF Group!LoadFails
  <2>3. /\ \A w \in Group!Visits : w # v => load'[w] = load[w]
        /\ load'[v].at = "over" /\ load'[v].group = load[v].group
    BY <2>2, LoadMoves, IdleRows
  <2>11. SavesOnlyTouched'
    BY <1>11 DEF Group!LoadFails, Group!Saving, SavesOnlyTouched
  <2>12. ASSUME Sure' PROVE OneCallOfThisPage'
    BY <1>11, <2>12
       DEF Group!LoadFails, Group!TypeOK, Group!Saving, Group!Loading, OneCallOfThisPage
  <2>13. ASSUME Sure' PROVE HeldIsKnown'
    BY <1>11, <2>3, <2>13
       DEF Group!LoadFails, Group!KeepForm, GroupTypeInv, Group!TypeOK, LastVisitIsHere,
           Group!Saving, Group!Loading, OneCallOfThisPage, HeldIsKnown, Held
  <2>14. ASSUME Sure' PROVE OnlyTouchedDiffers'
    BY <1>11, <2>14 DEF Group!LoadFails, Group!KeepForm, OnlyTouchedDiffers, FormsFull, Full
  <2> QED
    BY <2>11, <2>12, <2>13, <2>14
<1>12. ASSUME NEW k \in Saves, Group!SaveChanges(k)
      PROVE  SavesOnlyTouched' /\ (Sure' => SureInv')
  <2>1. /\ Group!Updated \in Full /\ page.group \in Groups
        /\ save'[k].at = "asked" /\ save'[k].data = Group!Updated
        /\ save'[k].group = page.group /\ save'[k].here /\ save'[k].touched = touched
        /\ save'[k].doubt = (unsure' \/ early)
        /\ \A j \in Saves : j # k =>
              /\ save'[j].at = save[j].at /\ save'[j].group = save[j].group
              /\ save'[j].data = save[j].data /\ save'[j].here = save[j].here
              /\ save'[j].doubt = (save[j].at \notin {"idle", "over"})
    BY <1>12, SaveStarts
  <2>2. unsure' = (unsure \/ Group!Saving # {}) /\ page.initialized /\ editing
        /\ save[k].at = "idle" /\ UNCHANGED <<enabled, groupServices, visit, page, load>>
    BY <1>12 DEF Group!SaveChanges
  <2>3. Group!Saving' = Group!Saving \union {k}
    BY <2>1, <2>2 DEF Group!Saving
  <2>4. ASSUME NEW j \in Saves, save'[j].at = "asked", ~save'[j].doubt
        PROVE  /\ j = k /\ ~unsure' /\ ~early
               /\ Group!Saving' = {k}
    BY <2>1, <2>2, <2>3, <2>4 DEF Group!Saving
  <2>5. ASSUME ~unsure', ~early, NEW r \in ServiceRoles \ touched
        PROVE  Group!Updated[r] <=> r \in enabled[page.group]
    <3>1. Sure /\ Group!Saving = {}
      BY <2>2, <2>5 DEF LastVisitIsHere
    <3>2. groupServices = Held
      BY <2>2, <3>1 DEF HeldIsKnown, LastVisitIsHere
    <3>3. draft[r] = groupServices[r] /\ draft \in Full /\ groupServices \in Full
      BY <2>2, <2>5, <3>1 DEF OnlyTouchedDiffers, FormsFull
    <3> QED
      BY <3>2, <3>3 DEF Group!Updated, Held, Group!Form, Full
  <2>11. SavesOnlyTouched'
    BY <2>1, <2>2, <2>4, <2>5 DEF SavesOnlyTouched
  <2>12. ASSUME Sure' PROVE OneCallOfThisPage'
    BY <2>1, <2>2, <2>3, <2>12 DEF Group!TypeOK, Group!Loading, OneCallOfThisPage
  <2>13. ASSUME Sure' PROVE HeldIsKnown'
    BY <2>1, <2>2, <2>3, <2>13 DEF Group!TypeOK, LastVisitIsHere, HeldIsKnown, Held
  <2>14. ASSUME Sure' PROVE OnlyTouchedDiffers'
    BY <1>12, <2>14 DEF Group!SaveChanges, Group!KeepForm, OnlyTouchedDiffers, FormsFull, Full
  <2> QED
    BY <2>11, <2>12, <2>13, <2>14
<1>13. ASSUME NEW k \in Saves, Group!ServeSave(k)
      PROVE  SavesOnlyTouched' /\ (Sure' => SureInv')
  <2>1. PICK end \in {"done", "lost"} : save' = [save EXCEPT ![k].at = end]
    BY <1>13 DEF Group!ServeSave
  <2>2. /\ \A j \in Saves : j # k => save'[j] = save[j]
        /\ save'[k].at = end /\ save'[k].group = save[k].group /\ save'[k].data = save[k].data
        /\ save'[k].here = save[k].here
    BY <2>1, SaveMoves
  <2>11. SavesOnlyTouched'
    BY <1>13, <2>2 DEF Group!ServeSave, Group!Saving, SavesOnlyTouched
  <2>12. ASSUME Sure' PROVE OneCallOfThisPage'
    BY <1>13, <2>12 DEF Group!ServeSave, Group!Saving, Group!Loading, OneCallOfThisPage
  <2>13. ASSUME Sure' PROVE HeldIsKnown'
    BY <1>13, <2>13
       DEF Group!ServeSave, Group!TypeOK, LastVisitIsHere, Group!Saving, OneCallOfThisPage,
           HeldIsKnown
  <2>14. ASSUME Sure' PROVE OnlyTouchedDiffers'
    BY <1>13, <2>14 DEF Group!ServeSave, Group!KeepForm, OnlyTouchedDiffers
  <2> QED
    BY <2>11, <2>12, <2>13, <2>14
<1>14. ASSUME NEW k \in Saves, Group!RefuseSave(k)
      PROVE  SavesOnlyTouched' /\ (Sure' => SureInv')
  <2>1. save' = [save EXCEPT ![k].at = "refused"]
    BY <1>14 DEF Group!RefuseSave
  <2>2. /\ \A j \in Saves : j # k => save'[j] = save[j]
        /\ save'[k].at = "refused" /\ save'[k].group = save[k].group
        /\ save'[k].data = save[k].data /\ save'[k].here = save[k].here
    BY <2>1, SaveMoves
  <2>11. SavesOnlyTouched'
    BY <1>14 DEF Group!RefuseSave, Group!Saving, SavesOnlyTouched
  <2>12. ASSUME Sure' PROVE OneCallOfThisPage'
    BY <1>14, <2>12 DEF Group!RefuseSave, Group!Saving, Group!Loading, OneCallOfThisPage
  <2>13. ASSUME Sure' PROVE HeldIsKnown'
    BY <1>14, <2>13 DEF Group!RefuseSave, Group!Saving, HeldIsKnown, Held
  <2>14. ASSUME Sure' PROVE OnlyTouchedDiffers'
    BY <1>14, <2>14 DEF Group!RefuseSave, Group!KeepForm, OnlyTouchedDiffers
  <2> QED
    BY <2>11, <2>12, <2>13, <2>14
<1>15. ASSUME NEW k \in Saves, Group!RolesSaved(k)
      PROVE  SavesOnlyTouched' /\ (Sure' => SureInv')
  <2>1. /\ \A j \in Saves : j # k => save'[j] = save[j]
        /\ save'[k].at = "over"
    BY <1>15 DEF Group!RolesSaved, Group!Ends, Group!IdleSave, Group!TypeOK
  <2>11. SavesOnlyTouched'
    BY <1>15, <2>1 DEF Group!RolesSaved, Group!Saving, SavesOnlyTouched
  <2>12. ASSUME Sure' PROVE OneCallOfThisPage'
    BY <1>15, <2>1, <2>12
       DEF Group!RolesSaved, Group!TypeOK, Group!Saving, Group!Loading, OneCallOfThisPage
  <2>13. ASSUME Sure' PROVE HeldIsKnown'
    <3>1. Sure /\ UNCHANGED <<enabled, page, visit, load>> /\ groupServices' = save[k].data
      BY <1>15, <2>13 DEF Group!RolesSaved, Group!ShownAsSaved, Group!TypeOK
    <3>2. k \in Group!Saving /\ save[k].at = "done"
      BY <1>15 DEF Group!RolesSaved, Group!Saving
    <3>3. save[k].data \in Full /\ enabled[page.group] = Group!Enabled(save[k].data)
      BY <3>1, <3>2 DEF FormsFull, HeldIsKnown
    <3>4. groupServices' = Held
      BY <3>1, <3>3 DEF Held, Group!Form, Group!Enabled, Full
    <3>5. Group!Saving' = {} /\ page.initialized
      BY <2>1, <3>1, <3>2 DEF OneCallOfThisPage, Group!Saving
    <3> QED
      BY <3>1, <3>4, <3>5 DEF HeldIsKnown, Held, LastVisitIsHere
  <2>14. ASSUME Sure' PROVE OnlyTouchedDiffers'
    BY <1>15, <2>1, <2>14
       DEF Group!RolesSaved, Group!ShownAsSaved, Group!KeepForm, Group!NoForm, GroupTypeInv,
           Group!TypeOK, LastVisitIsHere, Group!Saving, Group!Loading, OneCallOfThisPage,
           OnlyTouchedDiffers, FormsFull, Full
  <2> QED
    BY <2>11, <2>12, <2>13, <2>14
<1>16. ASSUME NEW k \in Saves, Group!SaveFails(k)
      PROVE  SavesOnlyTouched' /\ (Sure' => SureInv')
  <2>1. /\ \A j \in Saves : j # k => save'[j] = save[j]
        /\ save'[k].at = "over"
    BY <1>16 DEF Group!SaveFails, Group!Ends, Group!IdleSave, Group!TypeOK
  <2>11. SavesOnlyTouched'
    BY <1>16, <2>1 DEF Group!SaveFails, Group!Saving, SavesOnlyTouched
  <2>12. ASSUME Sure' PROVE OneCallOfThisPage'
    BY <1>16, <2>1, <2>12
       DEF Group!SaveFails, Group!TypeOK, Group!Saving, Group!Loading, OneCallOfThisPage
  <2>13. ASSUME Sure' PROVE HeldIsKnown'
    BY <1>16, <2>1, <2>13
       DEF Group!SaveFails, Group!TypeOK, Group!Saving, OneCallOfThisPage, HeldIsKnown, Held
  <2>14. ASSUME Sure' PROVE OnlyTouchedDiffers'
    BY <1>16, <2>14 DEF Group!SaveFails, Group!KeepForm, OnlyTouchedDiffers, FormsFull, Full
  <2> QED
    BY <2>11, <2>12, <2>13, <2>14
<1>17. CASE UNCHANGED groupPage
  <2>11. SavesOnlyTouched'
    BY <1>17 DEF groupPage, Group!Saving, SavesOnlyTouched
  <2>12. ASSUME Sure' PROVE OneCallOfThisPage'
    BY <1>17, <2>12 DEF groupPage, Group!Saving, Group!Loading, OneCallOfThisPage
  <2>13. ASSUME Sure' PROVE HeldIsKnown'
    BY <1>17, <2>13 DEF groupPage, Group!Saving, HeldIsKnown, Held
  <2>14. ASSUME Sure' PROVE OnlyTouchedDiffers'
    BY <1>17, <2>14 DEF groupPage, OnlyTouchedDiffers
  <2> QED
    BY <2>11, <2>12, <2>13, <2>14
<1> QED
  BY <1>1, <1>2, <1>3, <1>4, <1>5, <1>6, <1>7, <1>8, <1>9, <1>10, <1>11, <1>12, <1>13, <1>14,
     <1>15, <1>16, <1>17
     DEF Group!Next

\* The roles page, in the frontend that has it open.
LEMMA GroupInvariant == PSpec => [](open = "group" => GroupInv)
<1>1. PInit => (open = "group" => GroupInv)
  BY InitGroup DEF PInit
<1>2. (open = "group" => GroupInv) /\ [PNext]_<<open, vars, groupPage>>
        => (open = "group" => GroupInv)'
  <2> SUFFICES ASSUME open = "group" => GroupInv, [PNext]_<<open, vars, groupPage>>,
                      open' = "group"
               PROVE  GroupInv'
    OBVIOUS
  <2>1. CASE UsersNext
    BY <2>1 DEF UsersNext, OnUsers
  <2>2. CASE GroupNext
    BY <2>2, NextGroup DEF GroupNext, OnGroup, Group!Next
  <2>3. CASE UNCHANGED <<open, vars, groupPage>>
    BY <2>3, NextGroup
  <2> QED
    BY <2>1, <2>2, <2>3 DEF PNext
<1> QED
  BY <1>1, <1>2, PTL DEF PSpec

\* With no save under way the page of a group shows the roles the group has,
\* unless the page was opened over calls of another one, a call failed or
\* answered late, or two saves crossed; by any number of visits and saves.
THEOREM PageShowsGroupsRoles == PSpec => []PageShowsRolesHeld
<1>1. (open = "group" => GroupInv) => PageShowsRolesHeld
  BY DEF PageShowsRolesHeld, Group!PageShowsRolesHeld, GroupInv, GroupTypeInv, LastVisitIsHere,
         HeldIsKnown, Held
<1> QED
  BY <1>1, GroupInvariant, PTL

\* Only the server, when it serves a save, changes a group's roles.
LEMMA OnlyServesGive == GroupNext => UNCHANGED enabled \/ \E k \in Saves : Group!ServeSave(k)
BY DEF GroupNext, OnGroup, Group!OpenGroup, Group!Initialized, Group!LeaveGroup,
       Group!StartEditing, Group!ClearAll, Group!UndoChanges, Group!CancelEditing, Group!Check,
       Group!ReadRoles, Group!RolesLoaded, Group!LoadFails, Group!SaveChanges, Group!RefuseSave,
       Group!RolesSaved, Group!SaveFails

\* A save changes no role that was not ticked or cleared by hand, unless the
\* form was filled in, or the save started, while another one was under way.
THEOREM SaveKeepsTheRest == PSpec => UntouchedRolesKept
<1>1. ASSUME open = "group" => GroupInv, [PNext]_<<open, vars, groupPage>>
      PROVE  [open = "group" => Group!SaveKeepsUntouched]_<<open, vars, groupPage>>
  <2> SUFFICES ASSUME open = "group", PNext, NEW k \in Saves, NEW g \in Groups,
                      save[k].at = "asked", save'[k].at \in {"done", "lost"}, ~save[k].doubt,
                      NEW r \in ServiceRoles, (r \in enabled[g]) # (r \in enabled'[g])
               PROVE  g = save[k].group /\ r \in save[k].touched
    BY <1>1 DEF Group!SaveKeepsUntouched
  <2>1. GroupInv /\ Group!Saving = {k}
    BY <1>1 DEF GroupInv, SavesOnlyTouched
  <2>2. PICK j \in Saves : Group!ServeSave(j)
    BY OnlyServesGive DEF PNext, UsersNext, OnUsers
  <2>3. j = k
    BY <2>1, <2>2 DEF Group!ServeSave, Group!Saving
  <2>4. enabled' = [enabled EXCEPT ![save[k].group] = Group!Enabled(save[k].data)]
    BY <2>2, <2>3 DEF Group!ServeSave
  <2>5. /\ save[k].data \in Full
        /\ enabled \in [Groups -> SUBSET ServiceRoles]
        /\ r \notin save[k].touched => (save[k].data[r] <=> r \in enabled[save[k].group])
    BY <2>1 DEF GroupInv, GroupTypeInv, Group!TypeOK, FormsFull, SavesOnlyTouched
  <2> QED
    BY <2>4, <2>5 DEF Group!Enabled, Full
<1> QED
  BY <1>1, GroupInvariant, PTL DEF PSpec, UntouchedRolesKept

-----------------------------------------------------------------------------
(* The page of a tenant's users. *)

CallTypeInv ==
    \A k \in Calls :
        /\ call[k].at \notin {"idle", "over"} => call[k].user \in Users /\ call[k].does # "nothing"
        /\ call[k].does = "assign" => call[k].for = call[k].user

UsersTypeInv == TypeOK /\ CallTypeInv

\* The dialog was filled in for whoever is at its place in the list by now.
DialogFits ==
    dialog.index \in DOMAIN shown =>
        /\ dialog.defaults = Rows(shown[dialog.index])
        /\ shown[dialog.index].user \in bceid => dialog.items \subseteq {1}

\* A user who is in the list twice has the same roles in both places.
ShownOnce(u) == \A i \in DOMAIN shown : shown[i].user = u => shown[i].roles = ShownRoles(u)

\* The list says of a user what the server does.
Settled(u) == ShownRoles(u) = held[u] /\ (Listed(shown, u) <=> held[u] # {})

ToDo(c) == ToSet(c.todo)
NoneTwice(c) == IsInjective(c.todo)

\* What the only call about a user knows, before ...
BeforeCall(c, u) ==
    /\ Settled(u)
    /\ c.does = "add" => c.roles # {}
    /\ c.does = "assign" /\ u \notin bceid =>
          /\ ToDo(c) \subseteq held[u]
          /\ c.full = (held[u] \ ToDo(c)) \union c.roles
    /\ c.does = "assign" =>
          /\ c.roles # {} /\ c.roles \intersect ToDo(c) = {}
          /\ u \in bceid => ServiceUser \notin c.roles
          /\ NoneTwice(c)

\* ... and after the server has done what it asks for, ...
AfterCall(c, u) ==
    /\ c.does = "add" => ~Listed(shown, u) /\ held[u] = c.full /\ c.full # {}
    /\ c.does = "remove" => held[u] = {}
    /\ c.does = "unassign" => held[u] = ShownRoles(u) \ c.roles /\ held[u] # {}
    /\ c.does = "assign" =>
          /\ held[u] = ShownRoles(u) \union c.roles
          /\ c.full = (ShownRoles(u) \ ToDo(c)) \union c.roles
          /\ ToDo(c) \subseteq ShownRoles(u)
          /\ c.roles # {} /\ c.roles \intersect ToDo(c) = {}
          /\ NoneTwice(c)

\* ... and what a save knows while it removes roles: it leaves some, and the
\* list agrees on those.
Removing(c, u) ==
    LET left == held[u] \ (c.roles \union ToDo(c))
    IN /\ left = ShownRoles(u) \ (c.roles \union ToDo(c)) /\ left # {}
       /\ ToDo(c) \subseteq held[u] /\ NoneTwice(c)
       /\ c.roles \intersect ToDo(c) = {}
       /\ IF c.at = "asked" THEN c.roles \subseteq held[u] ELSE c.roles \intersect held[u] = {}

CallInv(c, u) ==
    /\ c.user = u
    /\ ~(c.does = "unassign" /\ c.for = u) =>
          /\ c.at \in {"asked", "refused"} => BeforeCall(c, u)
          /\ c.at = "done" => AfterCall(c, u)
    /\ c.does = "unassign" /\ c.for = u /\ c.at \in {"asked", "done"} => Removing(c, u)

UserInv(u) ==
    /\ ShownOnce(u)
    /\ About(u) = {} => Settled(u)
    /\ \A k \in About(u) : About(u) = {k} /\ CallInv(call[k], u)

UsersInv ==
    /\ UsersTypeInv
    /\ DialogFits
    /\ \A u \in Users \ doubt : UserInv(u)

-----------------------------------------------------------------------------
(* What Kept keeps. *)

\* The least number of a set of numbers.
LEMMA Smallest ==
    ASSUME NEW S \in SUBSET Nat, S # {}
    PROVE  \E m \in S : \A n \in S : m <= n
<1>1. PICK m \in S : \A n \in S : <<n, m>> \notin OpToRel(<, Nat)
  BY WFMin, NatLessThanWellFounded, Zenon
<1>2. \A n \in S : ~(n < m)
  BY <1>1, Zenon DEF OpToRel
<1> QED
  BY <1>2

\* Induction on a set of numbers.
LEMMA InductionOn ==
    ASSUME NEW S, 0 \in S, \A n \in Nat : n \in S => n + 1 \in S
    PROVE  Nat \subseteq S
<1> SUFFICES ASSUME Nat \ S # {} PROVE FALSE
  OBVIOUS
<1>1. PICK m \in Nat \ S : \A n \in Nat \ S : m <= n
  BY Smallest
<1>2. m - 1 \in Nat /\ m - 1 \in S
  BY <1>1
<1> QED
  BY <1>1, <1>2

\* The recursion of Kept defines a function.
LEMMA KeptIsDefined ==
    ASSUME NEW list, NEW places, Len(list) \in Nat
    PROVE  \E f : f = [n \in 0..Len(list) |->
              IF n = 0 THEN <<>>
              ELSE IF n \in places THEN Append(f[n - 1], list[n]) ELSE f[n - 1]]
<1> DEFINE Step(f, n) == IF n = 0 THEN <<>>
                         ELSE IF n \in places THEN Append(f[n - 1], list[n]) ELSE f[n - 1]
           Defined == {m \in Nat : \E f : f = [n \in 0..m |-> Step(f, n)]}
<1>1. 0 \in Defined
  <2>1. [n \in 0..0 |-> <<>>] = [n \in 0..0 |-> Step([k \in 0..0 |-> <<>>], n)]
    OBVIOUS
  <2> QED
    BY <2>1
<1>2. ASSUME NEW m \in Nat, m \in Defined PROVE m + 1 \in Defined
  <2>1. PICK f : f = [n \in 0..m |-> Step(f, n)]
    BY <1>2
  <2> DEFINE g == [n \in 0..(m + 1) |->
                    IF n <= m THEN f[n]
                    ELSE IF n \in places THEN Append(f[n - 1], list[n]) ELSE f[n - 1]]
  <2>2. ASSUME NEW n \in 0..(m + 1) PROVE g[n] = Step(g, n)
    <3>1. CASE n = 0
      BY <2>1, <3>1
    <3>2. CASE n # 0
      <4>1. n - 1 \in 0..m /\ g[n - 1] = f[n - 1]
        BY <3>2
      <4>2. n \in 0..m => f[n] = Step(f, n)
        BY <2>1
      <4> QED
        BY <3>2, <4>1, <4>2
    <3> QED
      BY <3>1, <3>2
  <2>3. g = [n \in 0..(m + 1) |-> Step(g, n)]
    <3> DEFINE h == [n \in 0..(m + 1) |-> Step(g, n)]
    <3>1. \A n \in 0..(m + 1) : h[n] = g[n]
      BY <2>2
    <3> QED
      BY <3>1
  <2>4. \E e : e = [n \in 0..(m + 1) |-> Step(e, n)]
    BY <2>3, Zenon
  <2>5. m + 1 \in Nat
    OBVIOUS
  <2> QED
    BY <2>4, <2>5, Zenon
<1>3. Nat \subseteq Defined
  <2> HIDE DEF Defined
  <2> QED
    BY <1>1, <1>2, InductionOn
<1> QED
  BY <1>3

\* Kept by its equations: nothing of no elements, and one more or not for each.
LEMMA KeptIs ==
    ASSUME NEW S, NEW list \in Seq(S), NEW places
    PROVE  \E f : /\ Kept(list, places) = f[Len(list)]
                  /\ f[0] = <<>>
                  /\ \A n \in 1..Len(list) : f[n] = IF n \in places THEN Append(f[n - 1], list[n])
                                                    ELSE f[n - 1]
<1> DEFINE Step(f, n) == IF n = 0 THEN <<>>
                         ELSE IF n \in places THEN Append(f[n - 1], list[n]) ELSE f[n - 1]
           kept == CHOOSE f : f = [n \in 0..Len(list) |-> Step(f, n)]
<1>1. Len(list) \in Nat
  OBVIOUS
<1>2. kept = [n \in 0..Len(list) |-> Step(kept, n)]
  <2>1. \E f : f = [n \in 0..Len(list) |-> Step(f, n)]
    BY <1>1, KeptIsDefined
  <2> QED
    BY <2>1, Zenon
<1>3. Kept(list, places) = kept[Len(list)]
  BY DEF Kept
<1>4. PICK f : f = kept
  OBVIOUS
<1> HIDE DEF kept
<1>5. \A n \in 0..Len(list) : f[n] = Step(f, n)
  BY <1>2, <1>4
<1>6. f[0] = <<>>
  BY <1>1, <1>5
<1>7. \A n \in 1..Len(list) : n \in 0..Len(list) /\ n # 0
  BY <1>1
<1>8. \A n \in 1..Len(list) : f[n] = IF n \in places THEN Append(f[n - 1], list[n])
                                                    ELSE f[n - 1]
  BY <1>5, <1>7
<1> QED
  BY <1>3, <1>4, <1>6, <1>8

\* Every entry is kept that is at one of the places, and no other, and none
\* twice that is not there twice.
LEMMA KeptHas ==
    ASSUME NEW S, NEW list \in Seq(S), NEW places
    PROVE  /\ Kept(list, places) \in Seq(S)
           /\ \A i \in DOMAIN Kept(list, places) : \E j \in DOMAIN list \intersect places :
                 Kept(list, places)[i] = list[j]
           /\ \A j \in DOMAIN list \intersect places : \E i \in DOMAIN Kept(list, places) :
                 Kept(list, places)[i] = list[j]
           /\ (\A i, j \in DOMAIN list : list[i] = list[j] => i = j) =>
                 \A i, j \in DOMAIN Kept(list, places) :
                    Kept(list, places)[i] = Kept(list, places)[j] => i = j
<1>1. PICK f : /\ Kept(list, places) = f[Len(list)]
               /\ f[0] = <<>>
               /\ \A n \in 1..Len(list) : f[n] = IF n \in places THEN Append(f[n - 1], list[n])
                                                 ELSE f[n - 1]
  BY KeptIs
<1> DEFINE Has(s, n) ==
        /\ s \in Seq(S)
        /\ \A i \in DOMAIN s : \E j \in (1..n) \intersect places : s[i] = list[j]
        /\ \A j \in (1..n) \intersect places : \E i \in DOMAIN s : s[i] = list[j]
        /\ (\A i, j \in DOMAIN list : list[i] = list[j] => i = j) =>
              \A i, j \in DOMAIN s : s[i] = s[j] => i = j
    Good == {n \in Nat : n <= Len(list) => Has(f[n], n)}
<1>2. 0 \in Good
  <2>1. Has(<<>>, 0)
    <3>1. <<>> \in Seq(S) /\ DOMAIN <<>> = {} /\ 1..0 = {}
      OBVIOUS
    <3> QED
      BY <3>1
  <2> HIDE DEF Has
  <2> QED
    BY <1>1, <2>1
<1>3. ASSUME NEW n \in Nat, n \in Good PROVE n + 1 \in Good
  <2> SUFFICES ASSUME n + 1 <= Len(list) PROVE Has(f[n + 1], n + 1)
    OBVIOUS
  <2>1. PICK s : s = f[n]
    OBVIOUS
  <2>2. PICK t : t = f[n + 1]
    OBVIOUS
  <2>3. Has(s, n) /\ n + 1 \in 1..Len(list) /\ list[n + 1] \in S
    <3>1. n <= Len(list) /\ n + 1 \in 1..Len(list)
      BY <1>3
    <3>2. list[n + 1] \in S
      BY <3>1
    <3> HIDE DEF Has
    <3>3. Has(s, n)
      BY <1>3, <2>1, <3>1
    <3> QED
      BY <3>1, <3>2, <3>3
  <2>4. t = IF n + 1 \in places THEN Append(s, list[n + 1]) ELSE s
    BY <1>1, <2>1, <2>2, <2>3
  <2>5. (1..(n + 1)) = (1..n) \union {n + 1}
    OBVIOUS
  <2>6. CASE n + 1 \notin places
    <3>1. f[n + 1] = s
      BY <2>2, <2>4, <2>6
    <3>2. (1..(n + 1)) \intersect places = (1..n) \intersect places
      BY <2>5, <2>6, Zenon
    <3>3. Has(s, n)
      BY <2>3, Zenon
    <3>4. Has(s, n + 1)
      BY <3>2, <3>3, Zenon
    <3> HIDE DEF Has
    <3> QED
      BY <3>1, <3>4
  <2>7. CASE n + 1 \in places
    <3> DEFINE last == Len(s) + 1
    <3>1. /\ t \in Seq(S)
          /\ t[last] = list[n + 1]
          /\ \A i \in DOMAIN s : t[i] = s[i]
          /\ DOMAIN t = DOMAIN s \union {last} /\ last \notin DOMAIN s
      <4>1. t = Append(s, list[n + 1]) /\ s \in Seq(S) /\ list[n + 1] \in S
        BY <2>3, <2>4, <2>7, Zenon
      <4> HIDE DEF Has
      <4> QED
        BY <4>1
    <3> HIDE DEF last
    <3>2. ASSUME NEW i \in DOMAIN t
          PROVE  \E j \in (1..(n + 1)) \intersect places : t[i] = list[j]
      <4>1. CASE i = last
        BY <3>1, <2>5, <2>7, <4>1
      <4>2. CASE i \in DOMAIN s
        <5>1. PICK j \in (1..n) \intersect places : s[i] = list[j]
          BY <2>3, <4>2, Zenon
        <5> HIDE DEF Has
        <5> QED
          BY <2>5, <3>1, <4>2, <5>1
      <4> QED
        BY <3>1, <4>1, <4>2
    <3>3. ASSUME NEW j \in (1..(n + 1)) \intersect places
          PROVE  \E i \in DOMAIN t : t[i] = list[j]
      <4>1. CASE j = n + 1
        BY <3>1, <4>1
      <4>2. CASE j \in 1..n
        <5>1. PICK i \in DOMAIN s : s[i] = list[j]
          BY <2>3, <4>2
        <5> QED
          BY <3>1, <5>1
      <4> QED
        BY <2>5, <4>1, <4>2
    <3>4. ASSUME \A i, j \in DOMAIN list : list[i] = list[j] => i = j
          PROVE  \A i, j \in DOMAIN t : t[i] = t[j] => i = j
      <4>1. ASSUME NEW i \in DOMAIN s PROVE s[i] # list[n + 1]
        <5>1. PICK j \in 1..n : s[i] = list[j]
          BY <2>3
        <5>2. j \in DOMAIN list /\ n + 1 \in DOMAIN list /\ j # n + 1
          BY <2>3
        <5> QED
          BY <3>4, <5>1, <5>2
      <4>2. \A i, j \in DOMAIN s : s[i] = s[j] => i = j
        BY <2>3, <3>4
      <4> QED
        BY <3>1, <4>1, <4>2
    <3> QED
      BY <2>2, <3>1, <3>2, <3>3, <3>4
  <2> QED
    BY <2>6, <2>7
<1>4. Len(list) \in Good
  <2> HIDE DEF Good
  <2> QED
    BY <1>2, <1>3, InductionOn
<1>5. Has(Kept(list, places), Len(list))
  <2> HIDE DEF Has
  <2>1. Len(list) \in Nat /\ Len(list) <= Len(list)
    OBVIOUS
  <2>2. Has(f[Len(list)], Len(list))
    BY <1>4, <2>1
  <2> QED
    BY <1>1, <2>2
<1>6. PICK kept : kept = Kept(list, places)
  OBVIOUS
<1>7. DOMAIN list = 1..Len(list)
  OBVIOUS
<1>8. Has(kept, Len(list))
  BY <1>5, <1>6, Zenon
<1> QED
  BY <1>6, <1>7, <1>8, Zenon

-----------------------------------------------------------------------------
(* The list of users. *)

Entries == [user : Users, roles : SUBSET Roles]

\* A change of the list that is not about a user.
SameFor(u) ==
    /\ ShownRoles(u)' = ShownRoles(u)
    /\ Listed(shown, u)' <=> Listed(shown, u)
    /\ ShownOnce(u) => ShownOnce(u)'

\* A user who is not in the list is shown with no roles.
LEMMA NotListed == ASSUME NEW u, ~Listed(shown, u) PROVE ShownRoles(u) = {} /\ ShownOnce(u)
BY DEF Listed, ShownRoles, ShownOnce

\* A user added to the list.
LEMMA Appended ==
    ASSUME shown \in Seq(Entries), NEW u \in Users, NEW roles \in SUBSET Roles,
           shown' = Append(shown, Entry(u, roles))
    PROVE  /\ shown' \in Seq(Entries)
           /\ \A v : v # u => SameFor(v)
           /\ ~Listed(shown, u) =>
                 Listed(shown, u)' /\ ShownRoles(u)' = roles /\ ShownOnce(u)'
<1> DEFINE last == Len(shown) + 1
<1>1. Entry(u, roles) \in Entries /\ Entry(u, roles).user = u /\ Entry(u, roles).roles = roles
  BY DEF Entry, Entries
<1>2. /\ shown' \in Seq(Entries)
      /\ DOMAIN shown' = DOMAIN shown \union {last} /\ last \notin DOMAIN shown
      /\ shown'[last] = Entry(u, roles)
      /\ \A i \in DOMAIN shown : shown'[i] = shown[i]
  BY <1>1
<1> HIDE DEF last
<1>3. ASSUME NEW v, v # u PROVE SameFor(v)
  <2>1. {j \in DOMAIN shown' : shown'[j].user = v} = {j \in DOMAIN shown : shown[j].user = v}
    BY <1>1, <1>2, <1>3
  <2>2. ShownRoles(v)' = ShownRoles(v)
    BY <1>2, <2>1 DEF ShownRoles
  <2>3. Listed(shown, v)' <=> Listed(shown, v)
    BY <1>1, <1>2, <1>3 DEF Listed
  <2>4. ShownOnce(v) => ShownOnce(v)'
    BY <1>1, <1>2, <1>3, <2>2 DEF ShownOnce
  <2> QED
    BY <2>2, <2>3, <2>4 DEF SameFor
<1>4. ASSUME ~Listed(shown, u)
      PROVE  Listed(shown, u)' /\ ShownRoles(u)' = roles /\ ShownOnce(u)'
  <2>1. {j \in DOMAIN shown' : shown'[j].user = u} = {last}
    BY <1>1, <1>2, <1>4 DEF Listed
  <2>2. ShownRoles(u)' = roles
    BY <1>1, <1>2, <2>1 DEF ShownRoles
  <2> QED
    BY <1>1, <1>2, <2>1, <2>2 DEF Listed, ShownOnce
<1> QED
  BY <1>2, <1>3, <1>4

\* A user whose roles in the list are set.
LEMMA RolesSet ==
    ASSUME shown \in Seq(Entries), NEW u \in Users, NEW roles \in SUBSET Roles,
           shown' = SetRoles(shown, u, roles)
    PROVE  /\ shown' \in Seq(Entries)
           /\ \A v : v # u => SameFor(v)
           /\ Listed(shown, u)' <=> Listed(shown, u)
           /\ ShownOnce(u)'
           /\ Listed(shown, u) => ShownRoles(u)' = roles
<1>1. Entry(u, roles) \in Entries /\ Entry(u, roles).user = u /\ Entry(u, roles).roles = roles
  BY DEF Entry, Entries
<1>2. /\ DOMAIN shown' = DOMAIN shown
      /\ \A i \in DOMAIN shown : shown'[i] = IF shown[i].user = u THEN Entry(u, roles) ELSE shown[i]
      /\ \A i \in DOMAIN shown : shown'[i].user = shown[i].user
  BY <1>1 DEF SetRoles
<1>3. shown' \in Seq(Entries)
  <2>1. Len(shown) \in Nat /\ shown' = [i \in 1..Len(shown) |-> shown'[i]]
    BY DEF SetRoles
  <2>2. \A i \in 1..Len(shown) : shown'[i] \in Entries
    BY <1>1, <1>2
  <2> QED
    BY <2>1, <2>2
<1>4. ASSUME NEW v, v # u PROVE SameFor(v)
  <2>1. {j \in DOMAIN shown' : shown'[j].user = v} = {j \in DOMAIN shown : shown[j].user = v}
    BY <1>2
  <2>2. ShownRoles(v)' = ShownRoles(v)
    <3>1. \A j \in {i \in DOMAIN shown : shown[i].user = v} : shown'[j] = shown[j]
      BY <1>2, <1>4
    <3> QED
      BY <2>1, <3>1 DEF ShownRoles
  <2>3. Listed(shown, v)' <=> Listed(shown, v)
    BY <1>2 DEF Listed
  <2>4. ShownOnce(v) => ShownOnce(v)'
    BY <1>2, <1>4, <2>2 DEF ShownOnce
  <2> QED
    BY <2>2, <2>3, <2>4 DEF SameFor
<1>5. Listed(shown, u)' <=> Listed(shown, u)
  BY <1>2 DEF Listed
<1>6. Listed(shown, u) => ShownRoles(u)' = roles
  BY <1>1, <1>2 DEF Listed, ShownRoles
<1>7. ShownOnce(u)'
  BY <1>1, <1>2, <1>6 DEF ShownOnce, Listed
<1> QED
  BY <1>3, <1>4, <1>5, <1>6, <1>7

\* A user filtered out of the list.
LEMMA OthersKept ==
    ASSUME shown \in Seq(Entries), NEW u \in Users,
           shown' = Kept(shown, {i \in DOMAIN shown : shown[i].user # u})
    PROVE  /\ shown' \in Seq(Entries)
           /\ \A v : v # u => SameFor(v)
           /\ ~Listed(shown, u)'
<1> DEFINE places == {i \in DOMAIN shown : shown[i].user # u}
<1>1. /\ shown' \in Seq(Entries)
      /\ \A i \in DOMAIN shown' : \E j \in DOMAIN shown \intersect places : shown'[i] = shown[j]
      /\ \A j \in DOMAIN shown \intersect places : \E i \in DOMAIN shown' : shown'[i] = shown[j]
  <2> HIDE DEF places
  <2>1. shown' = Kept(shown, places)
    BY DEF places
  <2>2. PICK kept : kept = Kept(shown, places)
    OBVIOUS
  <2>3. /\ kept \in Seq(Entries)
        /\ \A i \in DOMAIN kept : \E j \in DOMAIN shown \intersect places : kept[i] = shown[j]
        /\ \A j \in DOMAIN shown \intersect places : \E i \in DOMAIN kept : kept[i] = shown[j]
    BY <2>2, KeptHas
  <2>4. shown' = kept
    BY <2>1, <2>2
  <2> QED
    BY <2>3, <2>4
<1>2. ASSUME NEW v, v # u PROVE SameFor(v)
  <2>1. ShownRoles(v)' = ShownRoles(v)
    <3>1. ASSUME NEW r \in ShownRoles(v) PROVE r \in ShownRoles(v)'
      <4>1. PICK j \in DOMAIN shown : shown[j].user = v /\ r \in shown[j].roles
        BY <3>1 DEF ShownRoles
      <4>2. PICK i \in DOMAIN shown' : shown'[i] = shown[j]
        BY <1>1, <1>2, <4>1
      <4> QED
        BY <4>1, <4>2 DEF ShownRoles
    <3>2. ASSUME NEW r \in ShownRoles(v)' PROVE r \in ShownRoles(v)
      <4>1. PICK i \in DOMAIN shown' : shown'[i].user = v /\ r \in shown'[i].roles
        BY <3>2 DEF ShownRoles
      <4>2. PICK j \in DOMAIN shown : shown'[i] = shown[j]
        BY <1>1
      <4> QED
        BY <4>1, <4>2 DEF ShownRoles
    <3> QED
      BY <3>1, <3>2
  <2>2. Listed(shown, v)' <=> Listed(shown, v)
    <3>1. ASSUME Listed(shown, v) PROVE Listed(shown, v)'
      <4>1. PICK j \in DOMAIN shown : shown[j].user = v
        BY <3>1 DEF Listed
      <4>2. PICK i \in DOMAIN shown' : shown'[i] = shown[j]
        BY <1>1, <1>2, <4>1
      <4> QED
        BY <4>1, <4>2 DEF Listed
    <3>2. ASSUME Listed(shown, v)' PROVE Listed(shown, v)
      <4>1. PICK i \in DOMAIN shown' : shown'[i].user = v
        BY <3>2 DEF Listed
      <4>2. PICK j \in DOMAIN shown : shown'[i] = shown[j]
        BY <1>1
      <4> QED
        BY <4>1, <4>2 DEF Listed
    <3> QED
      BY <3>1, <3>2
  <2>3. ShownOnce(v) => ShownOnce(v)'
    BY <1>1, <2>1 DEF ShownOnce
  <2> QED
    BY <2>1, <2>2, <2>3 DEF SameFor
<1>3. ~Listed(shown, u)'
  BY <1>1 DEF Listed
<1> QED
  BY <1>1, <1>2, <1>3

-----------------------------------------------------------------------------
(* The calls. *)

\* A step that is not about a user keeps what is known of the user.
LEMMA UserStays ==
    ASSUME NEW u \in Users, UserInv(u), SameFor(u), held'[u] = held[u], bceid' = bceid,
           About(u)' = About(u), \A k \in About(u) : call'[k] = call[k]
    PROVE  UserInv(u)'
<1>1. Settled(u)' <=> Settled(u)
  BY DEF SameFor, Settled
<1>2. ASSUME NEW k \in About(u), CallInv(call[k], u) PROVE CallInv(call[k], u)'
  <2>1. PICK c : c = call[k] /\ c = call'[k]
    OBVIOUS
  <2>2. /\ BeforeCall(c, u) => BeforeCall(c, u)'
        /\ AfterCall(c, u) => AfterCall(c, u)'
        /\ Removing(c, u) => Removing(c, u)'
    BY <1>1 DEF BeforeCall, AfterCall, Removing, SameFor, ToDo, NoneTwice
  <2>3. CallInv(c, u)
    BY <1>2, <2>1
  <2>4. CallInv(c, u)'
    BY <2>2, <2>3 DEF CallInv
  <2> QED
    BY <2>1, <2>4
<1> QED
  BY <1>1, <1>2 DEF UserInv, SameFor

\* Whom the calls are about after one of them has changed.
LEMMA AboutOne ==
    ASSUME NEW k \in Calls, NEW c, call \in [Calls -> CallState], call' = [call EXCEPT ![k] = c]
    PROVE  /\ call'[k] = c /\ \A j \in Calls : j # k => call'[j] = call[j]
           /\ \A u : About(u)' =
                 IF c.at \notin {"idle", "over"} /\ u \in {c.user, c.for}
                 THEN About(u) \union {k} ELSE About(u) \ {k}
BY DEF About

\* A call that is about others, before and after.
LEMMA OthersStay ==
    ASSUME NEW k \in Calls, NEW c, call \in [Calls -> CallState], call' = [call EXCEPT ![k] = c],
           NEW u \in Users, UserInv(u), SameFor(u), held'[u] = held[u], bceid' = bceid,
           k \notin About(u), c.at \in {"idle", "over"} \/ u \notin {c.user, c.for}
    PROVE  UserInv(u)'
<1>1. About(u)' = About(u) /\ \A j \in About(u) : call'[j] = call[j]
  BY AboutOne DEF About
<1> QED
  BY <1>1, UserStays

\* A user whom one call is about after the step.
LEMMA UserWithCall ==
    ASSUME NEW k \in Calls, NEW c, call \in [Calls -> CallState], call' = [call EXCEPT ![k] = c],
           NEW u \in Users, About(u) \subseteq {k}, c.at \notin {"idle", "over"},
           u \in {c.user, c.for}, ShownOnce(u)', CallInv(c, u)'
    PROVE  UserInv(u)'
<1>1. About(u)' = {k} /\ call'[k] = c
  BY AboutOne
<1>2. CallInv(call[k], u)'
  BY <1>1 DEF CallInv, BeforeCall, AfterCall, Removing, ToDo, NoneTwice
<1> QED
  BY <1>1, <1>2 DEF UserInv

\* A user whom no call is about after the step.
LEMMA UserWithoutCall ==
    ASSUME NEW k \in Calls, NEW c, call \in [Calls -> CallState], call' = [call EXCEPT ![k] = c],
           NEW u \in Users, About(u) \subseteq {k},
           c.at \in {"idle", "over"} \/ u \notin {c.user, c.for},
           ShownOnce(u)', Settled(u)'
    PROVE  UserInv(u)'
<1>1. About(u)' = About(u) \ {k}
  BY AboutOne
<1>2. About(u)' = {}
  BY <1>1
<1> QED
  BY <1>2 DEF UserInv

\* The roles, and the calls the page makes.
LEMMA RolesAre ==
    /\ Roles = {"TENANT_OWNER", "USER_ADMIN", "SERVICE_USER"}
    /\ TenantRoles \in Seq(Roles) /\ DOMAIN TenantRoles = 1..3
    /\ TenantRoles[1] = "TENANT_OWNER" /\ TenantRoles[2] = "USER_ADMIN"
    /\ TenantRoles[3] = "SERVICE_USER"
    /\ Owner \in Roles /\ ServiceUser \in Roles /\ Owner # ServiceUser
    /\ \A i, j \in DOMAIN TenantRoles : TenantRoles[i] = TenantRoles[j] => i = j
<1>1. /\ DOMAIN TenantRoles = 1..3 /\ TenantRoles[1] = "TENANT_OWNER"
      /\ TenantRoles[2] = "USER_ADMIN" /\ TenantRoles[3] = "SERVICE_USER"
  BY DEF TenantRoles
<1>2. Roles = {"TENANT_OWNER", "USER_ADMIN", "SERVICE_USER"}
  BY <1>1 DEF Roles, ToSet
<1>3. TenantRoles \in Seq(Roles)
  BY <1>2 DEF TenantRoles
<1>4. \A i, j \in DOMAIN TenantRoles : TenantRoles[i] = TenantRoles[j] => i = j
  BY <1>1
<1> QED
  BY <1>1, <1>2, <1>3, <1>4 DEF Owner, ServiceUser

\* The roles of rows, in any order and in that of the dialog.
LEMMA RolesAtRows ==
    ASSUME NEW rows \in SUBSET (1..3)
    PROVE  /\ RolesAt(rows) \in SUBSET Roles
           /\ \A i \in 1..3 : TenantRoles[i] \in RolesAt(rows) <=> i \in rows
           /\ Kept(TenantRoles, rows) \in Seq(Roles)
           /\ ToSet(Kept(TenantRoles, rows)) = RolesAt(rows)
           /\ IsInjective(Kept(TenantRoles, rows))
           /\ rows # {} => Kept(TenantRoles, rows) # <<>>
<1>1. RolesAt(rows) \in SUBSET Roles
  BY RolesAre DEF RolesAt
<1>2. \A i \in 1..3 : TenantRoles[i] \in RolesAt(rows) <=> i \in rows
  BY RolesAre DEF RolesAt
<1>3. PICK kept : kept = Kept(TenantRoles, rows)
  OBVIOUS
<1>4. /\ kept \in Seq(Roles)
      /\ \A i \in DOMAIN kept : \E j \in DOMAIN TenantRoles \intersect rows :
            kept[i] = TenantRoles[j]
      /\ \A j \in DOMAIN TenantRoles \intersect rows : \E i \in DOMAIN kept :
            kept[i] = TenantRoles[j]
      /\ \A i, j \in DOMAIN kept : kept[i] = kept[j] => i = j
  <2>1. PICK list : list = TenantRoles
    OBVIOUS
  <2>2. PICK S : S = Roles
    OBVIOUS
  <2>3. list \in Seq(S) /\ \A i, j \in DOMAIN list : list[i] = list[j] => i = j
    BY <2>1, <2>2, RolesAre
  <2>4. kept = Kept(list, rows)
    BY <1>3, <2>1
  <2>5. /\ kept \in Seq(S)
        /\ \A i \in DOMAIN kept : \E j \in DOMAIN list \intersect rows : kept[i] = list[j]
        /\ \A j \in DOMAIN list \intersect rows : \E i \in DOMAIN kept : kept[i] = list[j]
        /\ \A i, j \in DOMAIN kept : kept[i] = kept[j] => i = j
    BY <2>3, <2>4, KeptHas
  <2> QED
    BY <2>1, <2>2, <2>5
<1>5. ToSet(kept) = RolesAt(rows) /\ IsInjective(kept)
  <2>1. \A i \in DOMAIN kept : kept[i] \in RolesAt(rows)
    BY <1>4, RolesAre DEF RolesAt
  <2>2. \A r \in RolesAt(rows) : \E i \in DOMAIN kept : kept[i] = r
    BY <1>4, RolesAre DEF RolesAt
  <2> QED
    BY <1>4, <2>1, <2>2 DEF ToSet, IsInjective
<1>6. rows # {} => kept # <<>>
  <2>1. rows # {} => \E i \in DOMAIN kept : TRUE
    BY <1>4, RolesAre
  <2>2. DOMAIN <<>> = {}
    OBVIOUS
  <2> QED
    BY <2>1, <2>2
<1> QED
  BY <1>1, <1>2, <1>3, <1>4, <1>5, <1>6

\* The roles of what was ticked and what was cleared.
LEMMA RolesAtSets ==
    /\ \A a, b \in SUBSET (1..3) :
          /\ RolesAt(a \ b) = RolesAt(a) \ RolesAt(b)
          /\ a # {} => RolesAt(a) # {}
          /\ 3 \notin a => ServiceUser \notin RolesAt(a)
    /\ \A roles \in SUBSET Roles : RolesAt({i \in 1..3 : TenantRoles[i] \in roles}) = roles
<1>1. /\ \A a \in SUBSET (1..3) : \A i \in 1..3 : TenantRoles[i] \in RolesAt(a) <=> i \in a
      /\ \A a \in SUBSET (1..3) : RolesAt(a) \in SUBSET Roles
  BY RolesAtRows
<1>2. \A r \in Roles : \E i \in 1..3 : r = TenantRoles[i]
  BY RolesAre
<1>3. ASSUME NEW a \in SUBSET (1..3), NEW b \in SUBSET (1..3)
      PROVE  /\ RolesAt(a \ b) = RolesAt(a) \ RolesAt(b)
             /\ a # {} => RolesAt(a) # {}
             /\ 3 \notin a => ServiceUser \notin RolesAt(a)
  <2>1. \A r \in Roles : r \in RolesAt(a \ b) <=> r \in RolesAt(a) \ RolesAt(b)
    BY <1>1, <1>2
  <2>2. RolesAt(a \ b) \subseteq Roles /\ RolesAt(a) \subseteq Roles
    BY <1>1
  <2>3. a # {} => RolesAt(a) # {}
    BY <1>1
  <2>4. 3 \notin a => ServiceUser \notin RolesAt(a)
    BY <1>1 DEF ServiceUser
  <2> QED
    BY <2>1, <2>2, <2>3, <2>4
<1>4. ASSUME NEW roles \in SUBSET Roles
      PROVE  RolesAt({i \in 1..3 : TenantRoles[i] \in roles}) = roles
  <2> DEFINE a == {i \in 1..3 : TenantRoles[i] \in roles}
  <2>1. a \in SUBSET (1..3) /\ \A i \in 1..3 : i \in a <=> TenantRoles[i] \in roles
    OBVIOUS
  <2> HIDE DEF a
  <2> QED
    BY <1>1, <1>2, <2>1 DEF a
<1> QED
  BY <1>3, <1>4

\* The first of a sequence and the rest.
LEMMA HeadAndRest ==
    ASSUME NEW S, NEW s \in Seq(S), s # <<>>, IsInjective(s)
    PROVE  /\ Head(s) \in S /\ Tail(s) \in Seq(S)
           /\ ToSet(s) = {Head(s)} \union ToSet(Tail(s))
           /\ Head(s) \notin ToSet(Tail(s))
           /\ IsInjective(Tail(s))
<1> PICK t : t = Tail(s)
  OBVIOUS
<1>1. Len(s) \in Nat \ {0} /\ DOMAIN s = 1..Len(s) /\ Head(s) = s[1] /\ Head(s) \in S
  OBVIOUS
<1>2. /\ t \in Seq(S) /\ DOMAIN t = 1..(Len(s) - 1)
      /\ \A i \in DOMAIN t : i + 1 \in DOMAIN s /\ t[i] = s[i + 1]
  BY <1>1
<1>3. ASSUME NEW i \in DOMAIN s, i # 1 PROVE i - 1 \in DOMAIN t /\ t[i - 1] = s[i]
  BY <1>1, <1>2, <1>3
<1>4. ToSet(s) = {Head(s)} \union ToSet(t)
  <2>1. \A i \in DOMAIN s : s[i] \in {Head(s)} \union ToSet(t)
    BY <1>1, <1>3 DEF ToSet
  <2>2. \A i \in DOMAIN t : t[i] \in ToSet(s)
    BY <1>2 DEF ToSet
  <2>3. Head(s) \in ToSet(s)
    BY <1>1 DEF ToSet
  <2> QED
    BY <2>1, <2>2, <2>3 DEF ToSet
<1>5. Head(s) \notin ToSet(t)
  BY <1>1, <1>2 DEF ToSet, IsInjective
<1>6. IsInjective(t)
  BY <1>1, <1>2 DEF IsInjective
<1> QED
  BY <1>1, <1>2, <1>4, <1>5, <1>6

\* The call that is not made.
LEMMA NoCallIs ==
    \E n \in CallState :
        /\ n = NoCall /\ n.does = "nothing" /\ n.for = "none" /\ n.user = "none"
        /\ n.roles = {} /\ n.full = {} /\ n.todo = <<>> /\ n.at = "idle"
<1>1. PICK nothing : nothing = <<>> /\ nothing \in Seq(Roles)
  <2>1. <<>> \in Seq(Roles)
    OBVIOUS
  <2> QED
    BY <2>1
<1>2. PICK n : n = [does |-> "nothing", for |-> "none", user |-> "none", roles |-> {},
                    full |-> {}, todo |-> nothing, at |-> "idle"]
  OBVIOUS
<1>3. n \in CallState
  BY <1>1, <1>2 DEF CallState
<1>4. n = NoCall
  BY <1>1, <1>2 DEF NoCall
<1>5. /\ n.does = "nothing" /\ n.for = "none" /\ n.user = "none"
      /\ n.roles = {} /\ n.full = {} /\ n.todo = <<>> /\ n.at = "idle"
  BY <1>1, <1>2
<1> QED
  BY <1>3, <1>4, <1>5

\* A call that is over.
LEMMA CallOver ==
    \E c \in CallState : c = [NoCall EXCEPT !.at = "over"] /\ c.at = "over"
                         /\ c.does = "nothing"
<1>1. PICK n \in CallState : n = NoCall /\ n.does = "nothing"
  BY NoCallIs
<1>2. PICK c : c = [n EXCEPT !.at = "over"]
  OBVIOUS
<1>3. c \in CallState /\ c.at = "over" /\ c.does = "nothing"
  BY <1>1, <1>2 DEF CallState
<1> QED
  BY <1>1, <1>2, <1>3

\* What the calls of a save are.
LEMMA AssignCall ==
    ASSUME NEW u \in Users, NEW roles \in SUBSET Roles, NEW full \in SUBSET Roles,
           NEW todo \in Seq(Roles)
    PROVE  \E c \in CallState :
              /\ c = Assign(u, roles, full, todo)
              /\ c.does = "assign" /\ c.for = u /\ c.user = u /\ c.roles = roles
              /\ c.full = full /\ c.todo = todo /\ c.at = "asked"
<1>1. PICK n \in CallState : n = NoCall
  BY NoCallIs
<1>2. PICK c : c = [n EXCEPT !.does = "assign", !.for = u, !.user = u, !.roles = roles,
                             !.full = full, !.todo = todo, !.at = "asked"]
  OBVIOUS
<1>3. /\ c \in CallState
      /\ c.does = "assign" /\ c.for = u /\ c.user = u /\ c.roles = roles
      /\ c.full = full /\ c.todo = todo /\ c.at = "asked"
  BY <1>1, <1>2 DEF CallState
<1> QED
  BY <1>1, <1>2, <1>3 DEF Assign

\* The call of a save that removes one of its roles.
LEMMA UnassignCall ==
    ASSUME NEW for \in Users, NEW u \in Users, NEW todo \in Seq(Roles), todo # <<>>
    PROVE  \A c : c = Unassign(for, u, todo) =>
              /\ c \in CallState
              /\ c.does = "unassign" /\ c.for = for /\ c.user = u /\ c.roles = {Head(todo)}
              /\ c.todo = Tail(todo) /\ c.at = "asked"
<1>1. Head(todo) \in Roles /\ Tail(todo) \in Seq(Roles)
  OBVIOUS
<1>2. PICK n \in CallState : n = NoCall
  BY NoCallIs
<1>3. PICK c : c = [n EXCEPT !.does = "unassign", !.for = for, !.user = u,
                             !.roles = {Head(todo)}, !.todo = Tail(todo), !.at = "asked"]
  OBVIOUS
<1>4. /\ c \in CallState
      /\ c.does = "unassign" /\ c.for = for /\ c.user = u /\ c.roles = {Head(todo)}
      /\ c.todo = Tail(todo) /\ c.at = "asked"
  BY <1>1, <1>2, <1>3 DEF CallState
<1> QED
  BY <1>2, <1>3, <1>4 DEF Unassign

\* The dialog follows the list.
LEMMA RowsTyped == \A e : Rows(e) \in SUBSET (1..3) /\ (e.user \in bceid => Rows(e) \subseteq {1})
BY DEF Rows

\* The dialog filled in for whoever is at its place.
LEMMA FilledIn ==
    ASSUME NEW d \in DialogState, NEW list \in Seq(Entries)
    PROVE  \E f \in DialogState :
              /\ f = Fill(d, list) /\ f.index = d.index /\ f.open = d.open
              /\ d.index \in DOMAIN list =>
                    f.items = Rows(list[d.index]) /\ f.defaults = Rows(list[d.index])
<1>1. CASE d.index \in DOMAIN list
  <2>1. PICK rows \in SUBSET (1..3) : rows = Rows(list[d.index])
    BY RowsTyped
  <2>2. PICK f : f = [d EXCEPT !.items = rows, !.defaults = rows]
    OBVIOUS
  <2>3. /\ f \in DialogState /\ f.index = d.index /\ f.open = d.open
        /\ f.items = rows /\ f.defaults = rows
    BY <2>1, <2>2 DEF DialogState
  <2> QED
    BY <1>1, <2>1, <2>2, <2>3 DEF Fill
<1>2. CASE d.index \notin DOMAIN list
  BY <1>2 DEF Fill
<1> QED
  BY <1>1, <1>2

\* The dialog fits the list again after every change of it.
LEMMA Refilled ==
    ASSUME shown \in Seq(Entries), dialog \in DialogState, DialogFits,
           NEW list \in Seq(Entries), shown' = list, dialog' = Refill(dialog, list),
           bceid' = bceid
    PROVE  dialog' \in DialogState /\ DialogFits'
<1>1. PICK d \in DialogState : d = dialog
  OBVIOUS
<1>2. PICK f \in DialogState :
         /\ f = Fill(d, list) /\ f.index = d.index
         /\ d.index \in DOMAIN list =>
               f.items = Rows(list[d.index]) /\ f.defaults = Rows(list[d.index])
  BY FilledIn
<1>3. \A e : Rows(e)' = Rows(e)
  BY DEF Rows
<1>4. CASE dialog' = f
  <2>1. f.index \in DOMAIN list =>
           /\ f.defaults = Rows(list[f.index])
           /\ list[f.index].user \in bceid => f.items \subseteq {1}
    BY <1>2, RowsTyped
  <2> QED
    BY <1>4, <1>3, <2>1 DEF DialogFits, Rows
<1>5. CASE dialog' = d /\ UsersIn(list) = UsersIn(shown)
           /\ (d.index \in DOMAIN list => list[d.index] = shown[d.index])
  <2>1. DOMAIN list = DOMAIN shown
    BY <1>5 DEF UsersIn
  <2>2. d.index \in DOMAIN list =>
           /\ d.defaults = Rows(list[d.index])
           /\ list[d.index].user \in bceid => d.items \subseteq {1}
    BY <1>1, <1>5, <2>1 DEF DialogFits
  <2> QED
    BY <1>1, <1>5, <2>2 DEF DialogFits, Rows
<1> QED
  BY <1>1, <1>2, <1>4, <1>5 DEF Refill

-----------------------------------------------------------------------------
(* Calls that are made. *)

\* A user the list is right about, before and after a step.
UsersSettle == \A u \in Users \ doubt : UserInv(u)

\* A call replaced by one of the right form.
LEMMA CallTyped ==
    ASSUME UsersTypeInv, NEW k \in Calls, NEW c \in CallState, call' = [call EXCEPT ![k] = c],
           c.at \notin {"idle", "over"} => c.user \in Users /\ c.does # "nothing",
           c.does = "assign" => c.for = c.user
    PROVE  call' \in [Calls -> CallState] /\ CallTypeInv'
BY DEF UsersTypeInv, TypeOK, CallTypeInv

\* A call that was asked for keeps the invariant, if it knows what it should in
\* case its user is in no doubt.
LEMMA Asked ==
    ASSUME UsersInv, NEW k \in Calls, NEW c \in CallState, Ask(k, c), c.at = "asked",
           c.user \in Users, c.for \in {c.user, "none"}, c.does # "nothing",
           c.does = "assign" => c.for = c.user,
           UNCHANGED <<bceid, held, shown, dialog>>,
           UserInv(c.user) /\ About(c.user) = {} => CallInv(c, c.user)
    PROVE  UsersInv'
<1>1. UsersTypeInv /\ TypeOK /\ call \in [Calls -> CallState]
  BY DEF UsersInv, UsersTypeInv, TypeOK
<1>2. call[k].at = "idle" /\ call' = [call EXCEPT ![k] = c]
      /\ doubt' = doubt \union {u \in {c.user} : About(u) # {}}
  BY DEF Ask
<1>3. UsersTypeInv'
  BY <1>1, <1>2, CallTyped DEF UsersTypeInv, TypeOK
<1>4. DialogFits'
  BY DEF UsersInv, DialogFits, Rows
<1>5. ASSUME NEW u \in Users \ doubt' PROVE UserInv(u)'
  <2>1. u \in Users \ doubt /\ UserInv(u) /\ (u = c.user => About(u) = {})
    BY <1>2, <1>5 DEF UsersInv
  <2>2. SameFor(u) /\ k \notin About(u)
    BY <1>2 DEF SameFor, ShownRoles, Listed, ShownOnce, About
  <2>3. CASE u # c.user
    <3>1. u \notin {c.user, c.for}
      BY <2>3, PageAssumption DEF PageAssumption
    <3> QED
      BY <1>1, <1>2, <2>1, <2>2, <3>1, OthersStay
  <2>4. CASE u = c.user
    <3>1. CallInv(c, u)
      BY <2>1, <2>4
    <3>2. CallInv(c, u)'
      BY <3>1 DEF CallInv, BeforeCall, Removing, Settled, ShownRoles
    <3>3. ShownOnce(u)'
      BY <2>1, <2>2 DEF UserInv, SameFor
    <3> QED
      BY <1>1, <1>2, <2>1, <2>4, <3>2, <3>3, UserWithCall
  <2> QED
    BY <2>3, <2>4
<1> QED
  BY <1>3, <1>4, <1>5 DEF UsersInv

\* Adding a user.
LEMMA AddKeeps ==
    ASSUME UsersInv, bceid' = bceid, NEW k \in Calls, NEW u \in Users, NEW roles \in SUBSET Roles,
           AddUser(k, u, roles)
    PROVE  UsersInv'
<1> PICK n \in CallState : n = NoCall /\ n.for = "none"
  BY NoCallIs
<1> PICK c : c = [n EXCEPT !.does = "add", !.user = u, !.roles = roles, !.at = "asked"]
  OBVIOUS
<1>1. /\ c \in CallState
      /\ c.does = "add" /\ c.for = "none" /\ c.user = u /\ c.roles = roles /\ c.at = "asked"
  BY DEF CallState
<1>2. roles # {} /\ Ask(k, c) /\ UNCHANGED <<held, shown, dialog>>
  BY DEF AddUser
<1>3. UserInv(u) /\ About(u) = {} => CallInv(c, u)
  BY <1>1, <1>2 DEF UserInv, CallInv, BeforeCall
<1> QED
  BY <1>1, <1>2, <1>3, Asked

\* Removing a user.
LEMMA RemoveKeeps ==
    ASSUME UsersInv, bceid' = bceid, NEW k \in Calls, NEW u \in Users, RemoveUser(k, u)
    PROVE  UsersInv'
<1> PICK n \in CallState : n = NoCall /\ n.for = "none"
  BY NoCallIs
<1> PICK c : c = [n EXCEPT !.does = "remove", !.user = u, !.at = "asked"]
  OBVIOUS
<1>1. /\ c \in CallState
      /\ c.does = "remove" /\ c.for = "none" /\ c.user = u /\ c.at = "asked"
  BY DEF CallState
<1>2. Ask(k, c) /\ UNCHANGED <<held, shown, dialog>>
  BY DEF RemoveUser
<1>3. UserInv(u) /\ About(u) = {} => CallInv(c, u)
  BY <1>1, <1>2 DEF UserInv, CallInv, BeforeCall
<1> QED
  BY <1>1, <1>2, <1>3, Asked

\* Removing a role in the table.
LEMMA RemoveRoleKeeps ==
    ASSUME UsersInv, bceid' = bceid, NEW k \in Calls, NEW u \in Users, NEW r \in Roles,
           RemoveRole(k, u, r)
    PROVE  UsersInv'
<1> PICK n \in CallState : n = NoCall /\ n.for = "none"
  BY NoCallIs
<1> PICK c : c = [n EXCEPT !.does = "unassign", !.user = u, !.roles = {r}, !.at = "asked"]
  OBVIOUS
<1>1. /\ c \in CallState
      /\ c.does = "unassign" /\ c.for = "none" /\ c.user = u /\ c.at = "asked"
  BY DEF CallState
<1>2. Ask(k, c) /\ UNCHANGED <<held, shown, dialog>>
  BY DEF RemoveRole
<1>3. UserInv(u) /\ About(u) = {} => CallInv(c, u)
  BY <1>1, <1>2, PageAssumption DEF UserInv, CallInv, BeforeCall, PageAssumption
<1> QED
  BY <1>1, <1>2, <1>3, Asked

\* A save adds and removes what the dialog and the list, which agree with the
\* server on the user's roles, differ in; it leaves what is checked.
LEMMA SaveKeeps ==
    ASSUME UsersInv, bceid' = bceid, NEW k \in Calls, Save(k)
    PROVE  UsersInv'
<1> DEFINE i == dialog.index
<1>1. /\ i \in DOMAIN shown /\ shown[i] \in Entries /\ UserOf(dialog, shown) = shown[i].user
      /\ dialog.items \in SUBSET (1..3) /\ dialog.defaults \in SUBSET (1..3)
      /\ dialog.defaults = Rows(shown[i])
      /\ shown[i].user \in bceid => dialog.items \subseteq {1}
  <2>1. shown \in Seq(Entries) /\ dialog \in DialogState /\ DialogFits
    BY DEF UsersInv, UsersTypeInv, TypeOK, Entries
  <2>2. i \in DOMAIN shown /\ UserOf(dialog, shown) = shown[i].user
    BY DEF Save, UserOf
  <2>3. shown[i] \in Entries
    BY <2>1, <2>2
  <2> QED
    BY <2>1, <2>2, <2>3 DEF DialogFits, DialogState
<1>2. PICK u \in Users, held_u \in SUBSET Roles,
           items \in SUBSET (1..3), defaults \in SUBSET (1..3) :
         /\ u = shown[i].user /\ held_u = shown[i].roles
         /\ items = dialog.items /\ defaults = dialog.defaults
  BY <1>1 DEF Entries
<1>3. /\ items # defaults /\ items # {}
      /\ u \in bceid => items \subseteq {1} /\ defaults \subseteq {1}
      /\ u \notin bceid => held_u = RolesAt(defaults)
      /\ Ask(k, SaveBegins(u, items, defaults))
      /\ UNCHANGED <<held, shown, dialog>>
  BY <1>1, <1>2, RolesAtSets DEF Save, Rows
<1>4. UserInv(u) /\ About(u) = {} => Settled(u) /\ held[u] = held_u
  BY <1>1, <1>2 DEF UserInv, ShownOnce, Settled
<1>5. PICK todo \in Seq(Roles) :
         /\ todo = Kept(TenantRoles, defaults \ items)
         /\ ToSet(todo) = RolesAt(defaults \ items) /\ IsInjective(todo)
         /\ defaults \ items # {} => todo # <<>>
  BY <1>2, RolesAtRows
<1>8. /\ RolesAt(items \ defaults) = RolesAt(items) \ RolesAt(defaults)
      /\ RolesAt(defaults \ items) = RolesAt(defaults) \ RolesAt(items)
      /\ items \ defaults # {} => RolesAt(items \ defaults) # {}
      /\ RolesAt(items) # {}
      /\ items \subseteq {1} => ServiceUser \notin RolesAt(items)
  <2>1. RolesAt(items \ defaults) = RolesAt(items) \ RolesAt(defaults)
    BY <1>2, RolesAtSets
  <2>2. RolesAt(defaults \ items) = RolesAt(defaults) \ RolesAt(items)
    BY <1>2, RolesAtSets
  <2>3. RolesAt(items) # {} /\ (items \ defaults # {} => RolesAt(items \ defaults) # {})
    BY <1>2, <1>3, RolesAtSets
  <2>4. items \subseteq {1} => 3 \notin items
    OBVIOUS
  <2>5. items \subseteq {1} => ServiceUser \notin RolesAt(items)
    BY <1>2, <2>4, RolesAtSets
  <2> QED
    BY <2>1, <2>2, <2>3, <2>5
<1>6. CASE items \ defaults # {}
  <2>1. PICK add \in SUBSET Roles, full \in SUBSET Roles :
           add = RolesAt(items \ defaults) /\ full = RolesAt(items)
    BY RolesAtRows
  <2>2. PICK c \in CallState :
           /\ c = Assign(u, add, full, todo)
           /\ c.does = "assign" /\ c.for = u /\ c.user = u /\ c.roles = add
           /\ c.full = full /\ c.todo = todo /\ c.at = "asked"
    BY AssignCall
  <2>3. Ask(k, c)
    <3>1. SaveBegins(u, items, defaults) = c
      BY <1>5, <1>6, <2>1, <2>2 DEF SaveBegins
    <3> QED
      BY <1>3, <3>1 DEF Ask
  <2>4. ToDo(c) = RolesAt(defaults \ items) /\ NoneTwice(c)
    BY <1>5, <2>2 DEF ToDo, NoneTwice
  <2>5. add # {} /\ add \intersect RolesAt(defaults \ items) = {}
    BY <1>6, <1>8, <2>1
  <2>6. u \in bceid => ServiceUser \notin add
    BY <1>3, <1>8, <2>1
  <2>7. u \notin bceid =>
           /\ RolesAt(defaults \ items) \subseteq held_u
           /\ full = (held_u \ RolesAt(defaults \ items)) \union add
    BY <1>3, <1>8, <2>1
  <2>8. UserInv(u) /\ About(u) = {} => CallInv(c, u)
    BY <1>4, <2>2, <2>4, <2>5, <2>6, <2>7 DEF CallInv, BeforeCall
  <2> QED
    BY <1>3, <2>2, <2>3, <2>8, Asked
<1>7. CASE items \ defaults = {}
  <2>1. defaults \ items # {} /\ u \notin bceid /\ todo # <<>>
    BY <1>3, <1>5, <1>7
  <2> PICK c : c = Unassign(u, u, todo)
    OBVIOUS
  <2>2. /\ c \in CallState
        /\ c.does = "unassign" /\ c.for = u /\ c.user = u /\ c.roles = {Head(todo)}
        /\ c.todo = Tail(todo) /\ c.at = "asked"
    BY <2>1, UnassignCall
  <2>3. Ask(k, c)
    <3>1. SaveBegins(u, items, defaults) = c
      BY <1>5, <1>7, <2>1, <2>2 DEF SaveBegins
    <3> QED
      BY <1>3, <3>1 DEF Ask
  <2>4. /\ c.roles \union ToDo(c) = RolesAt(defaults \ items)
        /\ c.roles \intersect ToDo(c) = {} /\ NoneTwice(c)
    <3>1. /\ ToSet(todo) = {Head(todo)} \union ToSet(Tail(todo))
          /\ Head(todo) \notin ToSet(Tail(todo)) /\ IsInjective(Tail(todo))
      BY <1>5, <2>1, HeadAndRest, Zenon
    <3> QED
      BY <1>5, <2>2, <3>1 DEF ToDo, NoneTwice
  <2>7. RolesAt(defaults \ items) \subseteq held_u /\ held_u \ RolesAt(defaults \ items) # {}
    <3>1. RolesAt(items) \subseteq RolesAt(defaults)
      BY <1>7 DEF RolesAt
    <3> QED
      BY <1>3, <1>8, <2>1, <3>1
  <2>8. UserInv(u) /\ About(u) = {} => CallInv(c, u)
    BY <1>4, <2>2, <2>4, <2>7 DEF CallInv, Removing, Settled
  <2> QED
    BY <1>3, <2>2, <2>3, <2>8, Asked
<1> QED
  BY <1>6, <1>7

\* The dialog is opened, closed, filled in; nothing else changes.
LEMMA DialogKeeps ==
    ASSUME UsersInv, bceid' = bceid, UNCHANGED <<held, shown, call, doubt>>,
           dialog' \in DialogState, DialogFits'
    PROVE  UsersInv'
<1>1. UsersTypeInv'
  BY DEF UsersInv, UsersTypeInv, TypeOK, CallTypeInv
<1>2. ASSUME NEW u \in Users \ doubt' PROVE UserInv(u)'
  <2>1. UserInv(u) /\ SameFor(u) /\ About(u)' = About(u)
    BY <1>2 DEF UsersInv, SameFor, ShownRoles, Listed, ShownOnce, About
  <2> QED
    BY <2>1, UserStays
<1> QED
  BY <1>1, <1>2 DEF UsersInv

\* Opening the dialog.
LEMMA OpenKeeps ==
    ASSUME UsersInv, bceid' = bceid, NEW u \in Users, OpenDialog(u)
    PROVE  UsersInv'
<1>1. shown \in Seq(Entries) /\ dialog \in DialogState /\ DialogFits
  BY DEF UsersInv, UsersTypeInv, TypeOK, Entries
<1> DEFINE places == {j \in DOMAIN shown : shown[j].user = u}
<1>2. PICK i \in places : i = Min(places)
  <2>1. places \in SUBSET Nat /\ places # {}
    BY <1>1 DEF OpenDialog, Listed
  <2>2. \E m \in places : \A n \in places : m <= n
    <3> HIDE DEF places
    <3> QED
      BY <2>1, Smallest
  <2>3. Min(places) = CHOOSE m \in places : \A n \in places : m <= n
    BY DEF Min
  <2>4. Min(places) \in places
    <3> HIDE DEF places
    <3> QED
      BY <2>2, <2>3, Zenon
  <2> QED
    BY <2>4
<1>3. PICK d \in DialogState : d = dialog
  BY <1>1
<1>4. PICK opened : opened = [d EXCEPT !.open = TRUE, !.index = i]
  OBVIOUS
<1>5. /\ opened \in DialogState /\ opened.index = i
      /\ opened.items = d.items /\ opened.defaults = d.defaults
  <2>1. i \in Nat
    BY <1>1
  <2> QED
    BY <1>3, <1>4, <2>1 DEF DialogState
<1>6. PICK f \in DialogState :
         /\ f = Fill(opened, shown) /\ f.index = opened.index
         /\ opened.index \in DOMAIN shown =>
               f.items = Rows(shown[opened.index]) /\ f.defaults = Rows(shown[opened.index])
  BY <1>1, <1>5, FilledIn
<1>7. dialog' = (IF d.index = i THEN opened ELSE f) /\ UNCHANGED <<held, shown, call, doubt>>
  BY <1>2, <1>3, <1>4, <1>6 DEF OpenDialog
<1>8. DialogFits'
  <2>1. CASE d.index = i
    BY <1>1, <1>3, <1>5, <1>7, <2>1 DEF DialogFits, Rows
  <2>2. CASE d.index # i
    <3>1. f.defaults = Rows(shown[i]) /\ (shown[i].user \in bceid => f.items \subseteq {1})
      BY <1>2, <1>5, <1>6, RowsTyped
    <3> QED
      BY <1>5, <1>6, <1>7, <2>2, <3>1 DEF DialogFits, Rows
  <2> QED
    BY <2>1, <2>2
<1> QED
  BY <1>5, <1>6, <1>7, <1>8, DialogKeeps

\* Closing the dialog, either way.
LEMMA CloseKeeps ==
    ASSUME UsersInv, bceid' = bceid, CancelDialog \/ DismissDialog
    PROVE  UsersInv'
<1>1. shown \in Seq(Entries) /\ dialog \in DialogState /\ DialogFits
  BY DEF UsersInv, UsersTypeInv, TypeOK, Entries
<1>2. PICK d \in DialogState : d = dialog
  BY <1>1
<1>3. CASE CancelDialog
  <2>1. Closed \in DialogState /\ Closed.index \notin DOMAIN shown
    BY <1>1 DEF Closed, DialogState
  <2> QED
    BY <1>3, <2>1, DialogKeeps DEF CancelDialog, DialogFits
<1>4. CASE DismissDialog
  <2>1. PICK e : e = [d EXCEPT !.open = FALSE]
    OBVIOUS
  <2>2. e \in DialogState /\ e.index = d.index /\ e.items = d.items /\ e.defaults = d.defaults
    BY <1>2, <2>1 DEF DialogState
  <2>3. dialog' = e /\ UNCHANGED <<held, shown, call, doubt>>
    BY <1>2, <1>4, <2>1 DEF DismissDialog
  <2>4. DialogFits'
    BY <1>1, <1>2, <2>2, <2>3 DEF DialogFits, Rows
  <2> QED
    BY <2>2, <2>3, <2>4, DialogKeeps
<1> QED
  BY <1>3, <1>4

\* Ticking or clearing a row of the dialog.
LEMMA CheckKeeps ==
    ASSUME UsersInv, bceid' = bceid, NEW i \in 1..3, Check(i)
    PROVE  UsersInv'
<1>1. shown \in Seq(Entries) /\ dialog \in DialogState /\ DialogFits
  BY DEF UsersInv, UsersTypeInv, TypeOK, Entries
<1>2. PICK d \in DialogState : d = dialog
  BY <1>1
<1>3. PICK items : items = SymDiff(d.items, {i})
  OBVIOUS
<1>4. PICK e : e = [d EXCEPT !.items = items]
  OBVIOUS
<1>5. items \subseteq d.items \union {i}
  BY <1>3 DEF SymDiff
<1>6. /\ e \in DialogState /\ e.index = d.index /\ e.items = items /\ e.defaults = d.defaults
  BY <1>2, <1>4, <1>5 DEF DialogState
<1>7. dialog' = e /\ UNCHANGED <<held, shown, call, doubt>>
      /\ (d.index \in DOMAIN shown /\ shown[d.index].user \in bceid => i = 1)
  BY <1>2, <1>3, <1>4 DEF Check, UserOf
<1>8. d.index \in DOMAIN shown /\ shown[d.index].user \in bceid => items \subseteq {1}
  BY <1>1, <1>2, <1>5, <1>7 DEF DialogFits
<1>9. DialogFits'
  BY <1>1, <1>2, <1>6, <1>7, <1>8 DEF DialogFits, Rows
<1> QED
  BY <1>6, <1>7, <1>9, DialogKeeps

-----------------------------------------------------------------------------
(* Calls that are answered. *)

\* What is known of a call a user is not wrong about.
LEMMA CallOf ==
    ASSUME UsersInv, NEW k \in Calls, call[k].at \notin {"idle", "over"}
    PROVE  \E c \in CallState :
              /\ c = call[k] /\ c.user \in Users /\ c.does # "nothing"
              /\ c.does = "assign" => c.for = c.user
              /\ \A u \in Users \ doubt :
                    /\ u \in {c.user, c.for} => u = c.user /\ About(u) = {k} /\ CallInv(c, u)
                    /\ u \notin {c.user, c.for} => k \notin About(u)
<1>1. PICK c \in CallState : c = call[k]
  BY DEF UsersInv, UsersTypeInv, TypeOK
<1>2. c.user \in Users /\ c.does # "nothing" /\ (c.does = "assign" => c.for = c.user)
  BY <1>1 DEF UsersInv, UsersTypeInv, CallTypeInv
<1>3. ASSUME NEW u \in Users \ doubt, u \in {c.user, c.for}
      PROVE  u = c.user /\ About(u) = {k} /\ CallInv(c, u)
  <2>1. k \in About(u)
    BY <1>1, <1>3 DEF About
  <2>2. About(u) = {k} /\ CallInv(c, u)
    BY <1>1, <2>1 DEF UsersInv, UserInv
  <2> QED
    BY <2>2 DEF CallInv
<1>4. \A u \in Users : u \notin {c.user, c.for} => k \notin About(u)
  BY <1>1 DEF About
<1> QED
  BY <1>1, <1>2, <1>3, <1>4

\* A call that is refused.
LEMMA RefuseKeeps ==
    ASSUME UsersInv, bceid' = bceid, NEW k \in Calls, Refuse(k)
    PROVE  UsersInv'
<1>1. PICK c \in CallState :
         /\ c = call[k] /\ c.user \in Users /\ c.does # "nothing"
         /\ c.does = "assign" => c.for = c.user
         /\ \A u \in Users \ doubt :
               /\ u \in {c.user, c.for} => u = c.user /\ About(u) = {k} /\ CallInv(c, u)
               /\ u \notin {c.user, c.for} => k \notin About(u)
  BY CallOf DEF Refuse
<1>2. PICK d : d = [c EXCEPT !.at = "refused"]
  OBVIOUS
<1>3. /\ d \in CallState /\ d.at = "refused"
      /\ d.user = c.user /\ d.for = c.for /\ d.does = c.does /\ d.roles = c.roles
      /\ d.full = c.full /\ d.todo = c.todo
  BY <1>2 DEF CallState
<1>4. /\ call' = [call EXCEPT ![k] = d] /\ call \in [Calls -> CallState]
      /\ c.at = "asked" /\ UNCHANGED <<held, shown, dialog, doubt>>
  BY <1>1, <1>2 DEF Refuse, UsersInv, UsersTypeInv, TypeOK
<1>5. UsersTypeInv'
  BY <1>1, <1>3, <1>4, CallTyped DEF UsersInv, UsersTypeInv, TypeOK
<1>6. DialogFits'
  BY <1>4 DEF UsersInv, DialogFits, Rows
<1>7. ASSUME NEW u \in Users \ doubt' PROVE UserInv(u)'
  <2>1. UserInv(u) /\ SameFor(u) /\ u \notin doubt
    BY <1>4, <1>7 DEF UsersInv, SameFor, ShownRoles, Listed, ShownOnce
  <2>2. CASE u \notin {c.user, c.for}
    BY <1>1, <1>3, <1>4, <2>1, <2>2, OthersStay
  <2>3. CASE u \in {c.user, c.for}
    <3>1. u = c.user /\ About(u) = {k} /\ CallInv(c, u)
      BY <1>1, <2>1, <2>3
    <3>2. BeforeCall(c, u) => BeforeCall(d, u)
      BY <1>3 DEF BeforeCall, ToDo, NoneTwice
    <3>3. CallInv(d, u)
      BY <1>3, <1>4, <3>1, <3>2 DEF CallInv
    <3>4. CallInv(d, u)'
      BY <1>3, <1>4, <3>3 DEF CallInv, BeforeCall, Settled, ShownRoles
    <3>5. ShownOnce(u)'
      BY <2>1 DEF UserInv, SameFor
    <3> QED
      BY <1>3, <1>4, <3>1, <3>4, <3>5, UserWithCall
  <2> QED
    BY <2>2, <2>3
<1> QED
  BY <1>5, <1>6, <1>7 DEF UsersInv

\* What the server does is what the user's roles become in each case.
LEMMA ServeKeeps ==
    ASSUME UsersInv, bceid' = bceid, NEW k \in Calls, Serve(k)
    PROVE  UsersInv'
<1>1. PICK c \in CallState :
         /\ c = call[k] /\ c.user \in Users /\ c.does # "nothing"
         /\ c.does = "assign" => c.for = c.user
         /\ \A u \in Users \ doubt :
               /\ u \in {c.user, c.for} => u = c.user /\ About(u) = {k} /\ CallInv(c, u)
               /\ u \notin {c.user, c.for} => k \notin About(u)
  BY CallOf DEF Serve
<1>2. PICK given : given = Given(c)
  OBVIOUS
<1>3. PICK end \in {"done", "lost"} :
         call' = [call EXCEPT ![k].at = end,
                              ![k].full = IF call[k].does = "add" THEN Given(call[k]) ELSE @]
  BY DEF Serve
<1>4. PICK full : full = IF c.does = "add" THEN given ELSE c.full
  OBVIOUS
<1>5. PICK d : d = [c EXCEPT !.at = end, !.full = full]
  OBVIOUS
<1>6. /\ held \in [Users -> SUBSET Roles] /\ call \in [Calls -> CallState]
      /\ held' = [held EXCEPT ![c.user] = given]
      /\ Allowed(c) /\ c.at = "asked" /\ UNCHANGED <<shown, dialog, doubt>>
  BY <1>1, <1>2 DEF Serve, UsersInv, UsersTypeInv, TypeOK
<1>7. given \in SUBSET Roles
  BY <1>1, <1>2, <1>6, RolesAre DEF Given, Assignable, CallState
<1>8. /\ d \in CallState /\ d.at = end /\ d.full = full
      /\ d.user = c.user /\ d.for = c.for /\ d.does = c.does /\ d.roles = c.roles
      /\ d.todo = c.todo
  BY <1>4, <1>5, <1>7 DEF CallState
<1>9. call' = [call EXCEPT ![k] = d]
  BY <1>1, <1>2, <1>3, <1>4, <1>5, <1>6
<1>10. UsersTypeInv'
  <2>1. held' \in [Users -> SUBSET Roles]
    BY <1>6, <1>7
  <2> QED
    BY <1>1, <1>6, <1>8, <1>9, <2>1, CallTyped DEF UsersInv, UsersTypeInv, TypeOK
<1>11. DialogFits'
  BY <1>6 DEF UsersInv, DialogFits, Rows
<1>12. ASSUME NEW u \in Users \ doubt' PROVE UserInv(u)'
  <2>1. UserInv(u) /\ SameFor(u) /\ u \notin doubt
    BY <1>6, <1>12 DEF UsersInv, SameFor, ShownRoles, Listed, ShownOnce
  <2>2. CASE u \notin {c.user, c.for}
    BY <1>1, <1>6, <1>8, <1>9, <2>1, <2>2, OthersStay
  <2>3. CASE u \in {c.user, c.for}
    <3>1. u = c.user /\ About(u) = {k} /\ CallInv(c, u)
      BY <1>1, <2>1, <2>3
    <3>2. ToDo(d) = ToDo(c) /\ (NoneTwice(d) <=> NoneTwice(c))
      BY <1>8 DEF ToDo, NoneTwice
    <3>3. /\ held'[u] = given /\ held[u] \in SUBSET Roles
          /\ ShownRoles(u)' = ShownRoles(u) /\ (Listed(shown, u)' <=> Listed(shown, u))
      BY <1>6, <2>1, <3>1 DEF SameFor
    <3>4. ASSUME end = "done", ~(c.does = "unassign" /\ c.for = u)
          PROVE  AfterCall(d, u)'
      <4>1. BeforeCall(c, u)
        BY <1>6, <3>1, <3>4 DEF CallInv
      <4>2. CASE c.does = "add"
        <5>1. held[u] = {} /\ given # {} /\ d.full = given
          BY <1>2, <1>4, <1>6, <1>8, <3>1, <4>1, <4>2 DEF Allowed, Given, BeforeCall
        <5> QED
          BY <1>8, <3>3, <4>1, <4>2, <5>1 DEF AfterCall, BeforeCall, Settled
      <4>3. CASE c.does = "remove"
        BY <1>2, <1>8, <3>3, <4>3 DEF AfterCall, Given
      <4>4. CASE c.does = "unassign"
        <5>1. given = held[u] \ c.roles /\ c.roles \subseteq held[u] /\ held[u] # c.roles
          BY <1>2, <1>6, <3>1, <4>4 DEF Allowed, Given
        <5> QED
          BY <1>8, <3>3, <4>1, <4>4, <5>1 DEF AfterCall, BeforeCall, Settled
      <4>5. CASE c.does = "assign"
        <5>1. Assignable(u, c.roles) # {} /\ given = held[u] \union Assignable(u, c.roles)
          BY <1>2, <1>6, <3>1, <4>5 DEF Allowed, Given
        <5>2. u \notin bceid /\ given = held[u] \union c.roles
          BY <4>1, <4>5, <5>1 DEF BeforeCall, Assignable
        <5> QED
          BY <1>4, <1>8, <3>2, <3>3, <4>1, <4>5, <5>2 DEF AfterCall, BeforeCall, Settled
      <4> QED
        BY <1>1, <4>2, <4>3, <4>4, <4>5 DEF CallState
    <3>5. ASSUME end = "done", c.does = "unassign", c.for = u
          PROVE  Removing(d, u)'
      <4>1. Removing(c, u) /\ given = held[u] \ c.roles
        BY <1>2, <1>6, <3>1, <3>5 DEF CallInv, Given
      <4> QED
        BY <1>8, <3>2, <3>3, <4>1 DEF Removing
    <3>6. CallInv(d, u)'
      BY <1>8, <3>1, <3>4, <3>5 DEF CallInv
    <3>7. ShownOnce(u)'
      BY <2>1 DEF UserInv, SameFor
    <3> QED
      BY <1>6, <1>8, <1>9, <3>1, <3>6, <3>7, UserWithCall
  <2> QED
    BY <2>2, <2>3
<1> QED
  BY <1>10, <1>11, <1>12 DEF UsersInv

\* A call that has failed: its user is in doubt, or nothing had changed.
LEMMA FailsKeeps ==
    ASSUME UsersInv, bceid' = bceid, NEW k \in Calls, Fails(k)
    PROVE  UsersInv'
<1>1. PICK c \in CallState :
         /\ c = call[k] /\ c.user \in Users /\ c.does # "nothing"
         /\ c.does = "assign" => c.for = c.user
         /\ \A u \in Users \ doubt :
               /\ u \in {c.user, c.for} => u = c.user /\ About(u) = {k} /\ CallInv(c, u)
               /\ u \notin {c.user, c.for} => k \notin About(u)
  BY CallOf DEF Fails
<1>2. PICK d \in CallState :
         d = [NoCall EXCEPT !.at = "over"] /\ d.at = "over" /\ d.does = "nothing"
  BY CallOver
<1>3. /\ call' = [call EXCEPT ![k] = d] /\ call \in [Calls -> CallState]
      /\ c.at \in {"refused", "lost"} /\ UNCHANGED <<held, shown, dialog>>
      /\ doubt' = doubt \union (IF c.at = "lost" THEN {c.user} ELSE {})
                        \union (IF c.for # "none" /\ c.does = "unassign" THEN {c.for} ELSE {})
  BY <1>1, <1>2 DEF Fails, Ends, UsersInv, UsersTypeInv, TypeOK
<1>4. UsersTypeInv'
  BY <1>1, <1>2, <1>3, CallTyped DEF UsersInv, UsersTypeInv, TypeOK, CallState
<1>5. DialogFits'
  BY <1>3 DEF UsersInv, DialogFits, Rows
<1>6. ASSUME NEW u \in Users \ doubt' PROVE UserInv(u)'
  <2>1. UserInv(u) /\ SameFor(u) /\ u \notin doubt
    BY <1>3, <1>6 DEF UsersInv, SameFor, ShownRoles, Listed, ShownOnce
  <2>2. CASE u \notin {c.user, c.for}
    BY <1>1, <1>2, <1>3, <2>1, <2>2, OthersStay
  <2>3. CASE u \in {c.user, c.for}
    <3>1. u = c.user /\ About(u) = {k} /\ CallInv(c, u)
      BY <1>1, <2>1, <2>3
    <3>2. c.at = "refused" /\ ~(c.does = "unassign" /\ c.for = u)
      BY <1>3, <1>6, <3>1, PageAssumption DEF PageAssumption
    <3>3. Settled(u)'
      BY <1>3, <2>1, <3>1, <3>2 DEF CallInv, BeforeCall, Settled, SameFor
    <3>4. ShownOnce(u)'
      BY <2>1 DEF UserInv, SameFor
    <3> QED
      BY <1>2, <1>3, <3>1, <3>3, <3>4, UserWithoutCall
  <2> QED
    BY <2>2, <2>3
<1> QED
  BY <1>4, <1>5, <1>6 DEF UsersInv

\* The answer that a user was added.
LEMMA AddedKeeps ==
    ASSUME UsersInv, bceid' = bceid, NEW k \in Calls, UserAdded(k)
    PROVE  UsersInv'
<1>1. PICK c \in CallState :
         /\ c = call[k] /\ c.user \in Users /\ c.does # "nothing"
         /\ c.does = "assign" => c.for = c.user
         /\ \A u \in Users \ doubt :
               /\ u \in {c.user, c.for} => u = c.user /\ About(u) = {k} /\ CallInv(c, u)
               /\ u \notin {c.user, c.for} => k \notin About(u)
  BY CallOf DEF UserAdded
<1>2. PICK d \in CallState :
         d = [NoCall EXCEPT !.at = "over"] /\ d.at = "over" /\ d.does = "nothing"
  BY CallOver
<1>3. PICK list : list = Append(shown, Entry(c.user, c.full))
  OBVIOUS
<1>4. /\ call' = [call EXCEPT ![k] = d] /\ call \in [Calls -> CallState]
      /\ c.does = "add" /\ c.at = "done" /\ UNCHANGED <<held, doubt>>
      /\ shown' = list /\ dialog' = Refill(dialog, list)
      /\ c.full \in SUBSET Roles
      /\ shown \in Seq(Entries) /\ dialog \in DialogState /\ DialogFits
  BY <1>1, <1>2, <1>3
     DEF UserAdded, Shows, Ends, UsersInv, UsersTypeInv, TypeOK, Entries, CallState
<1>5. /\ shown' \in Seq(Entries)
      /\ \A v : v # c.user => SameFor(v)
      /\ ~Listed(shown, c.user) =>
            Listed(shown, c.user)' /\ ShownRoles(c.user)' = c.full /\ ShownOnce(c.user)'
  BY <1>1, <1>3, <1>4, Appended
<1>6. dialog' \in DialogState /\ DialogFits'
  BY <1>4, <1>5, Refilled
<1>7. UsersTypeInv'
  BY <1>1, <1>2, <1>4, <1>5, <1>6, CallTyped DEF UsersInv, UsersTypeInv, TypeOK, Entries
<1>8. ASSUME NEW u \in Users \ doubt' PROVE UserInv(u)'
  <2>1. UserInv(u) /\ u \notin doubt
    BY <1>4, <1>8 DEF UsersInv
  <2>2. CASE u \notin {c.user, c.for}
    BY <1>1, <1>2, <1>4, <1>5, <2>1, <2>2, OthersStay
  <2>3. CASE u \in {c.user, c.for}
    <3>1. u = c.user /\ About(u) = {k} /\ AfterCall(c, u)
      BY <1>1, <1>4, <2>1, <2>3 DEF CallInv
    <3>2. Settled(u)' /\ ShownOnce(u)'
      BY <1>4, <1>5, <3>1 DEF AfterCall, Settled
    <3> QED
      BY <1>2, <1>4, <3>1, <3>2, UserWithoutCall
  <2> QED
    BY <2>2, <2>3
<1> QED
  BY <1>6, <1>7, <1>8 DEF UsersInv

\* The answer that a user was removed.
LEMMA RemovedKeeps ==
    ASSUME UsersInv, bceid' = bceid, NEW k \in Calls, UserRemoved(k)
    PROVE  UsersInv'
<1>1. PICK c \in CallState :
         /\ c = call[k] /\ c.user \in Users /\ c.does # "nothing"
         /\ c.does = "assign" => c.for = c.user
         /\ \A u \in Users \ doubt :
               /\ u \in {c.user, c.for} => u = c.user /\ About(u) = {k} /\ CallInv(c, u)
               /\ u \notin {c.user, c.for} => k \notin About(u)
  BY CallOf DEF UserRemoved
<1>2. PICK d \in CallState :
         d = [NoCall EXCEPT !.at = "over"] /\ d.at = "over" /\ d.does = "nothing"
  BY CallOver
<1>3. PICK list : list = Kept(shown, {i \in DOMAIN shown : shown[i].user # c.user})
  OBVIOUS
<1>4. /\ call' = [call EXCEPT ![k] = d] /\ call \in [Calls -> CallState]
      /\ c.does = "remove" /\ c.at = "done" /\ UNCHANGED <<held, doubt>>
      /\ shown' = list /\ dialog' = Refill(dialog, list)
      /\ shown \in Seq(Entries) /\ dialog \in DialogState /\ DialogFits
  BY <1>1, <1>2, <1>3 DEF UserRemoved, Shows, Ends, UsersInv, UsersTypeInv, TypeOK, Entries
<1>5. /\ shown' \in Seq(Entries)
      /\ \A v : v # c.user => SameFor(v)
      /\ ~Listed(shown, c.user)'
  BY <1>1, <1>3, <1>4, OthersKept
<1>6. dialog' \in DialogState /\ DialogFits'
  BY <1>4, <1>5, Refilled
<1>7. UsersTypeInv'
  BY <1>1, <1>2, <1>4, <1>5, <1>6, CallTyped DEF UsersInv, UsersTypeInv, TypeOK, Entries
<1>8. ASSUME NEW u \in Users \ doubt' PROVE UserInv(u)'
  <2>1. UserInv(u) /\ u \notin doubt
    BY <1>4, <1>8 DEF UsersInv
  <2>2. CASE u \notin {c.user, c.for}
    BY <1>1, <1>2, <1>4, <1>5, <2>1, <2>2, OthersStay
  <2>3. CASE u \in {c.user, c.for}
    <3>1. u = c.user /\ About(u) = {k} /\ AfterCall(c, u)
      BY <1>1, <1>4, <2>1, <2>3 DEF CallInv
    <3>2. Settled(u)' /\ ShownOnce(u)'
      BY <1>4, <1>5, <3>1 DEF AfterCall, Settled, Listed, ShownRoles, ShownOnce
    <3> QED
      BY <1>2, <1>4, <3>1, <3>2, UserWithoutCall
  <2> QED
    BY <2>2, <2>3
<1> QED
  BY <1>6, <1>7, <1>8 DEF UsersInv

\* A step of a save leaves the roles its user keeps, whatever is still to be
\* removed; a role removed from another user by mistake is shown as removed.
StepGoesWell(c, roles) ==
    /\ Listed(shown, c.user)
    /\ IF c.for = c.user
       THEN /\ ToDo(c) \subseteq held[c.user] /\ NoneTwice(c)
            /\ held[c.user] \ ToDo(c) = roles \ ToDo(c)
            /\ held[c.user] \ ToDo(c) # {}
       ELSE held[c.user] = roles /\ roles # {}

\* A save goes on or ends: if its user is in no doubt, the roles it has changed
\* are shown, and the next removal is of a role the user has beside others.
LEMMA StepKeeps ==
    ASSUME UsersInv, bceid' = bceid, held' = held, NEW k \in Calls, call[k].at = "done",
           call[k].for \in Users, NEW roles \in SUBSET Roles,
           NextStep(k, SetRoles(shown, call[k].user, roles)),
           call[k].user \notin doubt => StepGoesWell(call[k], roles)
    PROVE  UsersInv'
<1>1. PICK c \in CallState :
         /\ c = call[k] /\ c.user \in Users /\ c.does # "nothing"
         /\ c.does = "assign" => c.for = c.user
         /\ \A u \in Users \ doubt :
               /\ u \in {c.user, c.for} => u = c.user /\ About(u) = {k} /\ CallInv(c, u)
               /\ u \notin {c.user, c.for} => k \notin About(u)
  BY CallOf
<1>2. PICK list : list = SetRoles(shown, c.user, roles)
  OBVIOUS
<1>3. PICK refilled : refilled = Refill(dialog, list)
  OBVIOUS
<1>4. PICK next : next = UserOf(refilled, list)
  OBVIOUS
<1>5. /\ shown' = list /\ call \in [Calls -> CallState]
      /\ IF c.todo = <<>>
         THEN Ends(k) /\ dialog' = Closed /\ UNCHANGED doubt
         ELSE /\ dialog' = refilled
              /\ IF next = "none"
                 THEN Ends(k)
                 ELSE call' = [call EXCEPT ![k] = Unassign(c.for, next, c.todo)]
              /\ doubt' = doubt \union {u \in {c.for} : next # u}
                                \union {u \in {next} \intersect Users : About(u) \ {k} # {}}
  BY <1>1, <1>2, <1>3, <1>4 DEF NextStep, UsersInv, UsersTypeInv, TypeOK
<1>6. shown \in Seq(Entries) /\ dialog \in DialogState /\ DialogFits
  BY DEF UsersInv, UsersTypeInv, TypeOK, Entries
<1>7. /\ list \in Seq(Entries) /\ shown' \in Seq(Entries)
      /\ \A v : v # c.user => SameFor(v)
      /\ Listed(shown, c.user)' <=> Listed(shown, c.user)
      /\ ShownOnce(c.user)'
      /\ Listed(shown, c.user) => ShownRoles(c.user)' = roles
  BY <1>1, <1>2, <1>5, <1>6, RolesSet
<1>8. dialog' \in DialogState /\ DialogFits'
  <2>1. CASE c.todo = <<>>
    <3>1. Closed \in DialogState /\ Closed.index \notin DOMAIN list
      BY <1>7 DEF Closed, DialogState
    <3> QED
      BY <1>5, <2>1, <3>1 DEF DialogFits
  <2>2. CASE c.todo # <<>>
    BY <1>3, <1>5, <1>6, <1>7, <2>2, Refilled
  <2> QED
    BY <2>1, <2>2
<1>9. next = "none" \/ next \in Users
  <2>1. ASSUME refilled.index \in DOMAIN list PROVE list[refilled.index].user \in Users
    <3>1. list[refilled.index] \in Entries
      BY <1>7, <2>1
    <3> QED
      BY <3>1 DEF Entries
  <2> QED
    BY <1>4, <2>1 DEF UserOf
<1>10. doubt' \subseteq Users
  BY <1>1, <1>5 DEF UsersInv, UsersTypeInv, TypeOK
<1>11. \A u \in Users \ doubt' : u \in Users \ doubt /\ UserInv(u)
  BY <1>5 DEF UsersInv
<1>12. ASSUME Ends(k), c.todo = <<>> \/ next = "none"
       PROVE  UsersInv'
  <2>1. PICK d \in CallState :
           d = [NoCall EXCEPT !.at = "over"] /\ d.at = "over" /\ d.does = "nothing"
    BY CallOver
  <2>2. call' = [call EXCEPT ![k] = d]
    BY <1>12, <2>1 DEF Ends
  <2>3. UsersTypeInv'
    BY <1>5, <1>7, <1>8, <1>10, <2>1, <2>2, CallTyped
       DEF UsersInv, UsersTypeInv, TypeOK, Entries
  <2>4. ASSUME NEW u \in Users \ doubt' PROVE UserInv(u)'
    <3>1. CASE u \notin {c.user, c.for}
      BY <1>1, <1>5, <1>7, <1>11, <2>1, <2>2, <3>1, OthersStay
    <3>2. CASE u \in {c.user, c.for}
      <4>1. u = c.user /\ About(u) = {k} /\ StepGoesWell(c, roles)
        BY <1>1, <1>11, <3>2
      <4>2. c.for = u => c.todo = <<>>
        BY <1>5, <1>12, <2>4, PageAssumption DEF PageAssumption
      <4>3. ToDo(c) = {} \/ c.for # u
        BY <4>2 DEF ToDo, ToSet
      <4>4. Settled(u)'
        BY <1>7, <4>1, <4>3 DEF StepGoesWell, Settled
      <4> QED
        BY <1>5, <1>7, <2>1, <2>2, <4>1, <4>4, UserWithoutCall
    <3> QED
      BY <3>1, <3>2
  <2> QED
    BY <1>8, <2>3, <2>4 DEF UsersInv
<1>13. ASSUME c.todo # <<>>, next # "none"
       PROVE  UsersInv'
  <2> PICK d : d = Unassign(c.for, next, c.todo)
    OBVIOUS
  <2>1. c.todo \in Seq(Roles) /\ c.for \in Users /\ next \in Users
    BY <1>1, <1>9, <1>13 DEF CallState
  <2>2. /\ d \in CallState
        /\ d.does = "unassign" /\ d.for = c.for /\ d.user = next /\ d.roles = {Head(c.todo)}
        /\ d.todo = Tail(c.todo) /\ d.at = "asked"
    <3>1. PICK todo, for : todo = c.todo /\ for = c.for
      OBVIOUS
    <3>2. todo \in Seq(Roles) /\ todo # <<>> /\ for \in Users /\ d = Unassign(for, next, todo)
      BY <1>13, <2>1, <3>1
    <3>3. /\ d \in CallState
          /\ d.does = "unassign" /\ d.for = for /\ d.user = next /\ d.roles = {Head(todo)}
          /\ d.todo = Tail(todo) /\ d.at = "asked"
      BY <2>1, <3>2, UnassignCall
    <3> QED
      BY <3>1, <3>3
  <2>3. /\ call' = [call EXCEPT ![k] = d]
        /\ doubt' = doubt \union {u \in {c.for} : next # u}
                          \union {u \in {next} \intersect Users : About(u) \ {k} # {}}
    BY <1>5, <1>13
  <2>4. UsersTypeInv'
    BY <1>5, <1>7, <1>8, <1>10, <2>1, <2>2, <2>3, CallTyped
       DEF UsersInv, UsersTypeInv, TypeOK, Entries
  <2>5. ASSUME NEW u \in Users \ doubt' PROVE UserInv(u)'
    <3>1. About(u) \subseteq {k} \/ u # next
      BY <2>1, <2>3, <2>5
    <3>2. u = c.for => u = next
      BY <2>3, <2>5
    <3>3. u \in Users \ doubt /\ UserInv(u)
      BY <1>11, <2>5
    <3>4. CASE u # next /\ u # c.user
      <4>1. u \notin {c.user, c.for} /\ k \notin About(u) /\ SameFor(u)
        BY <1>1, <1>7, <3>2, <3>3, <3>4
      <4>2. u \notin {d.user, d.for}
        BY <2>2, <3>2, <3>4
      <4> QED
        BY <1>5, <2>2, <2>3, <3>3, <4>1, <4>2, OthersStay
    <3>5. CASE u # next /\ u = c.user
      <4>1. About(u) = {k} /\ StepGoesWell(c, roles)
        BY <1>1, <3>3, <3>5
      <4>2. Settled(u)'
        BY <1>7, <3>2, <3>5, <4>1 DEF StepGoesWell, Settled
      <4> QED
        BY <1>5, <1>7, <2>2, <2>3, <3>2, <3>5, <4>1, <4>2, UserWithoutCall
    <3>6. CASE u = next /\ u # c.for
      <4>1. Settled(u)'
        <5>1. CASE u = c.user
          BY <1>1, <1>7, <3>3, <3>6, <5>1 DEF StepGoesWell, Settled
        <5>2. CASE u # c.user
          <6>1. About(u) = {} /\ SameFor(u)
            BY <1>1, <1>7, <3>1, <3>3, <3>6, <5>2
          <6> QED
            BY <3>3, <6>1 DEF UserInv, Settled, SameFor
        <5> QED
          BY <5>1, <5>2
      <4>2. ShownOnce(u)'
        BY <1>7, <3>3 DEF UserInv, SameFor
      <4>3. CallInv(d, u)'
        BY <2>2, <3>6, <4>1 DEF CallInv, BeforeCall
      <4> QED
        BY <1>5, <2>2, <2>3, <3>1, <3>6, <4>2, <4>3, UserWithCall
    <3>7. CASE u = next /\ u = c.for
      <4>1. u = c.user /\ About(u) = {k} /\ StepGoesWell(c, roles)
        BY <1>1, <3>3, <3>7
      <4>2. /\ ToDo(c) = d.roles \union ToDo(d) /\ d.roles \intersect ToDo(d) = {}
            /\ NoneTwice(d)
        <5>1. ToSet(c.todo) = {Head(c.todo)} \union ToSet(Tail(c.todo))
              /\ Head(c.todo) \notin ToSet(Tail(c.todo)) /\ IsInjective(Tail(c.todo))
          BY <1>13, <2>1, <3>7, <4>1, HeadAndRest DEF StepGoesWell, NoneTwice
        <5> QED
          BY <2>2, <5>1 DEF ToDo, NoneTwice
      <4>3. /\ held'[u] = held[u] /\ ShownRoles(u)' = roles /\ ToDo(c) \subseteq held[u]
            /\ held[u] \ ToDo(c) = roles \ ToDo(c) /\ held[u] \ ToDo(c) # {}
        BY <1>7, <3>7, <4>1 DEF StepGoesWell
      <4>4. Removing(d, u)'
        BY <2>2, <4>2, <4>3 DEF Removing, ToDo, NoneTwice
      <4>5. CallInv(d, u)'
        BY <2>2, <3>7, <4>4 DEF CallInv, Removing, ToDo, NoneTwice
      <4> QED
        BY <1>5, <1>7, <2>2, <2>3, <3>7, <4>1, <4>5, UserWithCall
    <3> QED
      BY <3>4, <3>5, <3>6, <3>7
  <2> QED
    BY <1>8, <2>4, <2>5 DEF UsersInv
<1> QED
  BY <1>5, <1>12, <1>13

\* The answer that roles were given, by a save.
LEMMA AssignedKeeps ==
    ASSUME UsersInv, bceid' = bceid, NEW k \in Calls, RolesAssigned(k)
    PROVE  UsersInv'
<1>1. PICK c \in CallState :
         /\ c = call[k] /\ c.user \in Users /\ c.does # "nothing"
         /\ c.does = "assign" => c.for = c.user
         /\ \A u \in Users \ doubt :
               /\ u \in {c.user, c.for} => u = c.user /\ About(u) = {k} /\ CallInv(c, u)
               /\ u \notin {c.user, c.for} => k \notin About(u)
  BY CallOf DEF RolesAssigned
<1>2. c.does = "assign" /\ c.at = "done" /\ held' = held /\ c.for = c.user
      /\ c.full \in SUBSET Roles
  BY <1>1 DEF RolesAssigned, CallState
<1>3. CASE Listed(shown, c.user)
  <2>1. NextStep(k, SetRoles(shown, call[k].user, c.full))
    BY <1>1, <1>3 DEF RolesAssigned, ShowsFull
  <2>2. c.user \notin doubt => StepGoesWell(c, c.full)
    <3> SUFFICES ASSUME c.user \notin doubt PROVE StepGoesWell(c, c.full)
      OBVIOUS
    <3>1. AfterCall(c, c.user)
      BY <1>1, <1>2 DEF CallInv
    <3> QED
      BY <1>2, <1>3, <3>1 DEF StepGoesWell, AfterCall
  <2> QED
    BY <1>1, <1>2, <2>1, <2>2, StepKeeps
<1>4. CASE ~Listed(shown, c.user)
  <2>1. PICK d \in CallState :
           d = [NoCall EXCEPT !.at = "over"] /\ d.at = "over" /\ d.does = "nothing"
    BY CallOver
  <2>2. /\ call' = [call EXCEPT ![k] = d] /\ call \in [Calls -> CallState]
        /\ doubt' = doubt \union {c.user} /\ UNCHANGED <<shown, dialog, held>>
    BY <1>1, <1>4, <2>1 DEF RolesAssigned, Ends, UsersInv, UsersTypeInv, TypeOK
  <2>3. UsersTypeInv'
    BY <1>1, <2>1, <2>2, CallTyped DEF UsersInv, UsersTypeInv, TypeOK
  <2>4. DialogFits'
    BY <2>2 DEF UsersInv, DialogFits, Rows
  <2>5. ASSUME NEW u \in Users \ doubt' PROVE UserInv(u)'
    <3>1. UserInv(u) /\ SameFor(u) /\ u \notin {c.user, c.for} /\ u \notin doubt
      BY <1>2, <2>2 DEF UsersInv, SameFor, ShownRoles, ShownOnce
    <3> QED
      BY <1>1, <2>1, <2>2, <3>1, OthersStay
  <2> QED
    BY <2>3, <2>4, <2>5 DEF UsersInv
<1> QED
  BY <1>3, <1>4

\* The answer that a role was removed, by a save or in the table.
LEMMA UnassignedKeeps ==
    ASSUME UsersInv, bceid' = bceid, NEW k \in Calls, RoleUnassigned(k)
    PROVE  UsersInv'
<1>1. PICK c \in CallState :
         /\ c = call[k] /\ c.user \in Users /\ c.does # "nothing"
         /\ c.does = "assign" => c.for = c.user
         /\ \A u \in Users \ doubt :
               /\ u \in {c.user, c.for} => u = c.user /\ About(u) = {k} /\ CallInv(c, u)
               /\ u \notin {c.user, c.for} => k \notin About(u)
  BY CallOf DEF RoleUnassigned
<1>2. PICK roles : roles = ShownRoles(c.user) \ c.roles
  OBVIOUS
<1>3. shown \in Seq(Entries) /\ dialog \in DialogState /\ DialogFits
  BY DEF UsersInv, UsersTypeInv, TypeOK, Entries
<1>4. roles \in SUBSET Roles
  <2>1. ASSUME NEW j \in DOMAIN shown PROVE shown[j].roles \in SUBSET Roles
    <3>1. shown[j] \in Entries
      BY <1>3
    <3> QED
      BY <3>1 DEF Entries
  <2> QED
    BY <1>2, <2>1 DEF ShownRoles
<1>5. /\ c.does = "unassign" /\ c.at = "done" /\ held' = held
      /\ c.for # "none" => NextStep(k, SetRoles(shown, c.user, roles))
      /\ c.for = "none" =>
            Shows(SetRoles(shown, c.user, roles)) /\ Ends(k) /\ UNCHANGED doubt
  BY <1>1, <1>2 DEF RoleUnassigned
<1>6. c.user \notin doubt => StepGoesWell(c, roles)
  <2> SUFFICES ASSUME c.user \notin doubt PROVE StepGoesWell(c, roles)
    OBVIOUS
  <2>1. CallInv(c, c.user) /\ UserInv(c.user)
    BY <1>1 DEF UsersInv
  <2>2. CASE c.for = c.user
    <3>1. Removing(c, c.user)
      BY <1>5, <2>1, <2>2 DEF CallInv
    <3>2. ShownRoles(c.user) # {}
      BY <3>1 DEF Removing
    <3>3. Listed(shown, c.user)
      BY <3>2 DEF ShownRoles, Listed
    <3> QED
      BY <1>2, <1>5, <2>2, <3>1, <3>3 DEF StepGoesWell, Removing
  <2>3. CASE c.for # c.user
    <3>1. AfterCall(c, c.user)
      BY <1>5, <2>1, <2>3 DEF CallInv
    <3>2. held[c.user] = roles /\ roles # {}
      BY <1>2, <1>5, <3>1 DEF AfterCall
    <3>3. Listed(shown, c.user)
      BY <1>2, <3>2 DEF ShownRoles, Listed
    <3> QED
      BY <2>3, <3>2, <3>3 DEF StepGoesWell
  <2> QED
    BY <2>2, <2>3
<1>7. CASE c.for # "none"
  <2>1. c.for \in Users
    BY <1>1, <1>7 DEF CallState
  <2> QED
    BY <1>1, <1>4, <1>5, <1>6, <1>7, <2>1, StepKeeps
<1>8. CASE c.for = "none"
  <2>1. PICK list : list = SetRoles(shown, c.user, roles)
    OBVIOUS
  <2>2. PICK d \in CallState :
           d = [NoCall EXCEPT !.at = "over"] /\ d.at = "over" /\ d.does = "nothing"
    BY CallOver
  <2>3. /\ call' = [call EXCEPT ![k] = d] /\ call \in [Calls -> CallState]
        /\ UNCHANGED <<held, doubt>> /\ shown' = list /\ dialog' = Refill(dialog, list)
    BY <1>5, <1>8, <2>1, <2>2 DEF Shows, Ends, UsersInv, UsersTypeInv, TypeOK
  <2>4. /\ list \in Seq(Entries)
        /\ \A v : v # c.user => SameFor(v)
        /\ Listed(shown, c.user)' <=> Listed(shown, c.user)
        /\ ShownOnce(c.user)'
        /\ Listed(shown, c.user) => ShownRoles(c.user)' = roles
    BY <1>1, <1>3, <1>4, <2>1, <2>3, RolesSet
  <2>5. dialog' \in DialogState /\ DialogFits'
    BY <1>3, <2>3, <2>4, Refilled
  <2>6. UsersTypeInv'
    BY <1>1, <2>2, <2>3, <2>4, <2>5, CallTyped DEF UsersInv, UsersTypeInv, TypeOK, Entries
  <2>7. ASSUME NEW u \in Users \ doubt' PROVE UserInv(u)'
    <3>1. UserInv(u) /\ u \notin doubt
      BY <2>3, <2>7 DEF UsersInv
    <3>2. CASE u \notin {c.user, c.for}
      BY <1>1, <1>5, <2>2, <2>3, <2>4, <3>1, <3>2, OthersStay
    <3>3. CASE u \in {c.user, c.for}
      <4>1. u = c.user /\ About(u) = {k} /\ StepGoesWell(c, roles) /\ c.for # u
        BY <1>1, <1>6, <1>8, <3>1, <3>3, PageAssumption DEF PageAssumption
      <4>2. Settled(u)'
        BY <1>5, <2>4, <4>1 DEF StepGoesWell, Settled
      <4> QED
        BY <1>5, <2>2, <2>3, <2>4, <4>1, <4>2, UserWithoutCall
    <3> QED
      BY <3>2, <3>3
  <2> QED
    BY <2>5, <2>6, <2>7 DEF UsersInv
<1> QED
  BY <1>7, <1>8

\* The list names every member once.
LEMMA OrdersAre ==
    ASSUME NEW S, IsFiniteSet(S), NEW order \in SetToSeqs(S)
    PROVE  /\ order \in Seq(S)
           /\ \A u \in S : \E i \in DOMAIN order : order[i] = u
           /\ \A i, j \in DOMAIN order : order[i] = order[j] => i = j
<1> PICK n : n = Cardinality(S)
  OBVIOUS
<1>1. n \in Nat
  BY FS_CardinalityType
<1>2. /\ order \in [1..n -> S]
      /\ \A i, j \in 1..n : i # j => order[i] # order[j]
  BY DEF SetToSeqs
<1>3. order \in Injection(1..n, S)
  BY <1>2 DEF Injection, IsInjective
<1>4. IsFiniteSet(1..n) /\ Cardinality(1..n) = n
  BY <1>1, FS_Interval
<1>5. order \in Surjection(1..n, S)
  BY <1>3, <1>4, FS_Injection
<1>6. \A u \in S : \E i \in 1..n : order[i] = u
  BY <1>5 DEF Surjection
<1> QED
  BY <1>1, <1>2, <1>6

\* The list when the tenant was just loaded.
LEMMA InitUsers == Init => UsersInv
<1> SUFFICES ASSUME Init PROVE UsersInv
  OBVIOUS
<1>1. PICK order \in SetToSeqs(Members) :
         shown = [i \in DOMAIN order |-> Entry(order[i], held[order[i]])]
  BY DEF Init
<1>2. /\ order \in Seq(Members) /\ order \in Seq(Users)
      /\ \A u \in Members : \E i \in DOMAIN order : order[i] = u
      /\ \A i, j \in DOMAIN order : order[i] = order[j] => i = j
  <2>1. order \in Seq(Members) => order \in Seq(Users)
    BY PageAssumption DEF PageAssumption
  <2> QED
    BY <2>1, OrdersAre, PageAssumption DEF PageAssumption
<1>3. /\ bceid \subseteq Users /\ held \in [Users -> SUBSET Roles]
      /\ \A u \in Users : u \in Members <=> held[u] # {}
      /\ dialog = Closed /\ call = [k \in Calls |-> NoCall] /\ doubt = {}
  BY PageAssumption DEF Init, PageAssumption
<1>4. /\ DOMAIN shown = DOMAIN order
      /\ \A i \in DOMAIN shown : shown[i].user = order[i] /\ shown[i].roles = held[order[i]]
      /\ \A i \in DOMAIN shown : shown[i] \in Entries
  <2>1. \A i \in DOMAIN order : order[i] \in Users
    BY <1>2
  <2> QED
    BY <1>1, <1>3, <2>1 DEF Entry, Entries
<1>5. shown \in Seq(Entries)
  <2>1. Len(order) \in Nat /\ DOMAIN order = 1..Len(order)
    BY <1>2
  <2>2. shown = [i \in 1..Len(order) |-> shown[i]]
    BY <1>1, <2>1
  <2> QED
    BY <1>4, <2>1, <2>2
<1>6. PICK n \in CallState : n = NoCall /\ n.at = "idle" /\ n.does = "nothing"
  BY NoCallIs
<1>7. UsersTypeInv
  <2>1. Closed \in DialogState
    BY DEF Closed, DialogState
  <2> QED
    BY <1>3, <1>5, <1>6, <2>1 DEF UsersTypeInv, TypeOK, CallTypeInv, Entries
<1>8. DialogFits
  <2>1. dialog.index \notin DOMAIN shown
    BY <1>3, <1>5 DEF Closed
  <2> QED
    BY <2>1 DEF DialogFits
<1>9. ASSUME NEW u \in Users PROVE UserInv(u)
  <2>1. About(u) = {}
    BY <1>3, <1>6 DEF About
  <2>2. CASE u \in Members
    <3>1. PICK i \in DOMAIN shown : shown[i].user = u
      BY <1>2, <1>4, <2>2
    <3>2. {j \in DOMAIN shown : shown[j].user = u} = {i}
      BY <1>2, <1>4, <3>1
    <3>3. ShownRoles(u) = held[u]
      BY <1>4, <3>1, <3>2 DEF ShownRoles
    <3>4. ShownOnce(u)
      BY <1>4, <3>3 DEF ShownOnce
    <3> QED
      BY <1>3, <2>1, <2>2, <3>1, <3>3, <3>4 DEF UserInv, Settled, Listed
  <2>3. CASE u \notin Members
    <3>1. ~Listed(shown, u)
      <4>1. \A i \in DOMAIN order : order[i] \in Members
        BY <1>2
      <4> QED
        BY <1>4, <2>3, <4>1 DEF Listed
    <3> QED
      BY <1>3, <2>1, <2>3, <3>1, NotListed DEF UserInv, Settled
  <2> QED
    BY <2>2, <2>3
<1> QED
  BY <1>3, <1>7, <1>8, <1>9 DEF UsersInv

\* Nothing changes.
LEMMA StutterKeeps == ASSUME UsersInv, UNCHANGED vars PROVE UsersInv'
<1>1. UsersTypeInv' /\ DialogFits'
  BY DEF vars, UsersInv, UsersTypeInv, TypeOK, CallTypeInv, DialogFits, Rows
<1>2. bceid' = bceid /\ UNCHANGED <<held, shown, call, doubt>>
  BY DEF vars
<1> QED
  BY <1>1, <1>2, DialogKeeps DEF UsersTypeInv, TypeOK

-----------------------------------------------------------------------------
(* What the page of the users promises. *)

\* Every step of the users page keeps its invariant.
LEMMA NextUsers == ASSUME UsersInv, bceid' = bceid, UsersNext PROVE UsersInv'
<1>1. ASSUME NEW k \in Calls, NEW u \in Users, NEW roles \in SUBSET Roles, AddUser(k, u, roles)
      PROVE  UsersInv'
  BY <1>1, AddKeeps
<1>2. ASSUME NEW k \in Calls, NEW u \in Users, RemoveUser(k, u) PROVE UsersInv'
  BY <1>2, RemoveKeeps
<1>3. ASSUME NEW k \in Calls, NEW u \in Users, NEW r \in Roles, RemoveRole(k, u, r)
      PROVE  UsersInv'
  BY <1>3, RemoveRoleKeeps
<1>4. ASSUME NEW k \in Calls, Save(k) PROVE UsersInv'
  BY <1>4, SaveKeeps
<1>5. ASSUME NEW k \in Calls, Serve(k) PROVE UsersInv'
  BY <1>5, ServeKeeps
<1>6. ASSUME NEW k \in Calls, Refuse(k) PROVE UsersInv'
  BY <1>6, RefuseKeeps
<1>7. ASSUME NEW k \in Calls, UserAdded(k) PROVE UsersInv'
  BY <1>7, AddedKeeps
<1>8. ASSUME NEW k \in Calls, UserRemoved(k) PROVE UsersInv'
  BY <1>8, RemovedKeeps
<1>9. ASSUME NEW k \in Calls, RolesAssigned(k) PROVE UsersInv'
  BY <1>9, AssignedKeeps
<1>10. ASSUME NEW k \in Calls, RoleUnassigned(k) PROVE UsersInv'
  BY <1>10, UnassignedKeeps
<1>11. ASSUME NEW k \in Calls, Fails(k) PROVE UsersInv'
  BY <1>11, FailsKeeps
<1>12. ASSUME NEW u \in Users, OpenDialog(u) PROVE UsersInv'
  BY <1>12, OpenKeeps
<1>13. ASSUME CancelDialog \/ DismissDialog PROVE UsersInv'
  BY <1>13, CloseKeeps
<1>14. ASSUME NEW i \in 1..3, Check(i) PROVE UsersInv'
  BY <1>14, CheckKeeps
<1> QED
  BY <1>1, <1>2, <1>3, <1>4, <1>5, <1>6, <1>7, <1>8, <1>9, <1>10, <1>11, <1>12, <1>13, <1>14
     DEF UsersNext, OnUsers

\* The users page, in the frontend that has it open.
LEMMA UsersInvariant == PSpec => [](open = "users" => UsersInv)
<1>1. PInit => (open = "users" => UsersInv)
  BY InitUsers DEF PInit
<1>2. (open = "users" => UsersInv) /\ [PNext]_<<open, vars, groupPage>>
        => (open = "users" => UsersInv)'
  <2> SUFFICES ASSUME open = "users" => UsersInv, [PNext]_<<open, vars, groupPage>>,
                      open' = "users"
               PROVE  UsersInv'
    OBVIOUS
  <2>1. CASE UsersNext
    <3>1. open = "users" /\ bceid' = bceid
      BY <2>1 DEF UsersNext, OnUsers
    <3> QED
      BY <2>1, <3>1, NextUsers
  <2>2. CASE GroupNext
    BY <2>2 DEF GroupNext, OnGroup
  <2>3. CASE UNCHANGED <<open, vars, groupPage>>
    BY <2>3, StutterKeeps
  <2> QED
    BY <2>1, <2>2, <2>3 DEF PNext
<1> QED
  BY <1>1, <1>2, PTL DEF PSpec

\* With no call about a user outstanding the list shows the roles the user
\* has, without being loaded again, unless calls about the user crossed, an
\* answer was lost, or a save ended half-way or went on with another user; for
\* any number of users and calls, and any of them of BCeID.
THEOREM ListShowsWhatIsHeld == PSpec => []ListShowsRolesHeld
<1>1. (open = "users" => UsersInv) => ListShowsRolesHeld
  BY DEF ListShowsRolesHeld, ShownIsHeld, UsersInv, UserInv, Settled
<1> QED
  BY <1>1, UsersInvariant, PTL

\* "add first because remove fails if last role": a save, while nothing else is
\* asked about its user, never asks for the removal of the only role left.
THEOREM SavesLeaveARole == PSpec => []SaveNeverRemovesLastRole
<1>1. (open = "users" => UsersInv) => SaveNeverRemovesLastRole
  <2> SUFFICES ASSUME UsersInv, NEW k \in Calls, NEW c, c = call[k],
                      c.for # "none", c.does = "unassign", c.at = "asked",
                      c.for \notin doubt, About(c.for) = {k}
               PROVE  held[c.user] # c.roles
    BY DEF SaveNeverRemovesLastRole, NeverRemovesLastRole
  <2>1. c \in CallState
    BY DEF UsersInv, UsersTypeInv, TypeOK
  <2>2. c.for \in Users \ doubt
    BY <2>1 DEF CallState
  <2>3. CallInv(c, c.for)
    BY <2>2 DEF UsersInv, UserInv
  <2>4. c.user = c.for /\ Removing(c, c.for)
    BY <2>3 DEF CallInv
  <2> QED
    BY <2>4 DEF Removing
<1> QED
  BY <1>1, UsersInvariant, PTL
=============================================================================
