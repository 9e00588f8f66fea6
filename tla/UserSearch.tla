------------------------------ MODULE UserSearch ------------------------------
(***************************************************************************)
(* The search for users to add to a tenant or to a group: the SSO service  *)
(* of the backend, which drops duplicates from what the SSO API finds, and *)
(* the containers of the two pages, which ask first for IDIR users, then   *)
(* for BCeID users, and show what has come so far.  A search that was      *)
(* started later may be answered earlier.  The results belong to the       *)
(* container, the text to the box: a box that is closed and opened again   *)
(* is new, what it shows may be old.                                       *)
(***************************************************************************)
EXTENDS Naturals, Sequences, FiniteSetsExt

CONSTANTS
    Texts,      \* what can be in the search box, with the field it is looked for in
    EmptyText,  \* what is in a new one
    Searches,   \* the searches that can be outstanding at once
    MaxAdding,  \* bound: calls at once that add a user who was selected
    Guids,      \* values of idir_user_guid, or of bceid_user_guid
    NoGuid,     \* a user found without one
    Fields,     \* the other fields that count for the completeness of a user
    IdirAnswers, BceidAnswers   \* bounds: what the SSO API finds

SsoUsers == [guid : Guids \union {NoGuid}, filled : SUBSET Fields, business : BOOLEAN]

ASSUME TextsAssumption == EmptyText \in Texts
ASSUME MaxAddingAssumption == MaxAdding \in Nat
ASSUME GuidsAssumption == NoGuid \notin Guids
ASSUME FieldsAssumption == IsFiniteSet(Fields) \* so that completeness is a number
ASSUME AnswersAssumption ==
    \A found \in IdirAnswers \union BceidAnswers : found \in Seq(SsoUsers)

-----------------------------------------------------------------------------
(* The backend. *)

\* getIdirUserCompletenessScore, getBceidUserCompletenessScore.
Score(user) == Cardinality(user.filled) + IF user.guid = NoGuid THEN 0 ELSE 1

\* The Map of dedupSearchResultsByGuid after one more user: the first user of a
\* guid, or a strictly more complete one in the place of the first.  A user
\* without a guid is set aside.
Absent == [from |-> 0, index |-> 0]
KeepsLater(kept, data, i) ==
    LET guid == data[i].guid
        existing == kept[guid]
    IN IF guid = NoGuid \/ (existing # Absent /\ Score(data[i]) < Score(data[existing.from]))
       THEN kept
       ELSE [kept EXCEPT ![guid] =
                [from |-> i, index |-> IF existing = Absent THEN i ELSE existing.index]]
Keeps(kept, data, i) ==
    LET guid == data[i].guid
        existing == kept[guid]
    IN IF guid = NoGuid \/ (existing # Absent /\ Score(data[i]) <= Score(data[existing.from]))
       THEN kept
       ELSE [kept EXCEPT ![guid] =
                [from |-> i, index |-> IF existing = Absent THEN i ELSE existing.index]]

\* The Map after data.forEach.
DedupedUsers(data) ==
    LET kept[n \in 0..Len(data)] ==
            IF n = 0 THEN [guid \in Guids |-> Absent] ELSE Keeps(kept[n - 1], data, n)
    IN kept[Len(data)]

\* The k-th smallest of some numbers.
Nth(numbers, k) == CHOOSE n \in numbers : Cardinality({m \in numbers : m <= n}) = k

\* Those kept and those set aside, sorted by the place they were found at.
Entries(data) ==
    LET kept == DedupedUsers(data)
    IN {kept[guid] : guid \in {g \in Guids : kept[g] # Absent}}
       \union {[from |-> i, index |-> i] : i \in {j \in DOMAIN data : data[j].guid = NoGuid}}
Dedup(data) ==
    LET entries == Entries(data)
        indexes == {e.index : e \in entries}
        At(k) == CHOOSE e \in entries : e.index = Nth(indexes, k)
    IN [k \in 1..Cardinality(indexes) |-> data[At(k).from]]

\* filterBceidBusinessSearchResults
Business(found) ==
    LET places == {i \in DOMAIN found : found[i].business}
    IN [k \in 1..Cardinality(places) |-> found[Nth(places, k)]]

SearchBCGOVSSOUsers(found) == Dedup(found)
SearchBCGOVSSOBceidUsers(found) == Dedup(Business(found))

-----------------------------------------------------------------------------
(* The pages. *)

VARIABLES
    open,     \* showSearch: whether there is a box
    text,     \* what is in it, or was in the last one
    selected, \* whether a user is selected
    adding,   \* the number of calls adding a user that are not answered
    shown,    \* searchResults: users with the text they were searched for
    shows,    \* whether it is not null
    search,   \* the searches; found: history, what the IDIR search found
    late,     \* history: texts abandoned while a search for them was outstanding
    left      \* history: whether shown is what the last box was closed on

box == <<open, text, selected, adding>>
results == <<shown, shows>>
vars == <<box, results, search, late, left>>

NoSearch == [at |-> "idle", for |-> "none", found |-> <<>>, kept |-> <<>>]
Results == [for : Texts, user : SsoUsers]

TypeOK ==
    /\ open \in BOOLEAN
    /\ text \in Texts
    /\ selected \in BOOLEAN
    /\ adding \in 0..MaxAdding
    /\ shown \in Seq(Results)
    /\ shows \in BOOLEAN
    /\ ~shows => shown = <<>>
    /\ search \in [Searches -> [at : {"idle", "idir", "bceid"},
                                for : Texts \union {"none"}, found : Seq(SsoUsers),
                                kept : Seq(Results)]]
    /\ late \subseteq Texts
    /\ left \in BOOLEAN

Outstanding == {s \in Searches : search[s].at # "idle"}

\* searchResults.value = ...
Show(users) == shown' = users /\ shows' = TRUE /\ left' = FALSE
Nothing == shown' = <<>> /\ shows' = FALSE /\ left' = FALSE
Abandon == late' = late \union {search[s].for : s \in Outstanding}

\* A box is mounted: its text is empty, and the watch on it has seen no change.
OpenBox ==
    /\ ~open
    /\ open' = TRUE /\ text' = EmptyText
    /\ UNCHANGED <<selected, adding, results, search, late, left>>

\* The box is unmounted with its text; the results stay with the container.
CloseBox ==
    /\ open /\ open' = FALSE
    /\ Abandon
    /\ left' = shows
    /\ UNCHANGED <<text, results, search>>

\* toggleSearch of a page that lists no members: the box may be open.
ToggleSearch ==
    CloseBox /\ UNCHANGED <<selected, adding>>

\* UserSearch.vue watches its box, and its events clear the results.
ChangeTextOnly(t) ==
    /\ open /\ t # text
    /\ text' = t
    /\ Abandon
    /\ UNCHANGED <<open, selected, adding, results, search, left>>
ChangeText(t) ==
    /\ open /\ t # text
    /\ text' = t
    /\ Nothing
    /\ Abandon
    /\ UNCHANGED <<open, selected, adding, search>>

\* On the page of a tenant a change and the end of a box also reset what is
\* selected; on that of a group they do not, so nothing here does.
HandleUserSelected ==
    /\ open
    /\ \/ selected' = TRUE /\ shown # <<>>
       \/ selected' = FALSE
    /\ UNCHANGED <<open, text, adding, results, search, late, left>>

\* The box closes at once, ...
HandleAddUser ==
    /\ selected
    /\ adding < MaxAdding /\ adding' = adding + 1
    /\ CloseBox
    /\ UNCHANGED selected

\* ... and when the user was added, or was there already, the results are
\* cleared, whatever the box shows by then; on another failure they stay.
UserAdded ==
    /\ adding > 0 /\ adding' = adding - 1
    /\ Nothing
    /\ Abandon
    /\ UNCHANGED <<open, text, selected, search>>
AddFails ==
    /\ adding > 0 /\ adding' = adding - 1
    /\ UNCHANGED <<open, text, selected, results, search, late, left>>

HandleCancel ==
    /\ open /\ open' = FALSE
    /\ Nothing
    /\ Abandon
    /\ UNCHANGED <<text, selected, adding, search>>

HandleUserSearch(s) ==
    /\ open
    /\ search[s].at = "idle"
    /\ search' = [search EXCEPT ![s] = [NoSearch EXCEPT !.at = "idir", !.for = text]]
    /\ UNCHANGED <<box, results, late, left>>

For(s, users) == [k \in DOMAIN users |-> [for |-> search[s].for, user |-> users[k]]]

\* The backend refuses to search for the text of a new box.
Accepted(for) == for # EmptyText

\* The users found replace what is shown, and the array is held by the call.
IdirAnswered(s, found) ==
    /\ search[s].at = "idir"
    /\ Accepted(search[s].for)
    /\ LET users == For(s, SearchBCGOVSSOUsers(found))
       IN /\ search' = [search EXCEPT ![s].at = "bceid", ![s].kept = users,
                                              ![s].found = found]
          /\ Show(users)
    /\ UNCHANGED <<box, late>>

\* searchResults.value is read before the call: concat adds to the array that
\* was shown then, whatever is shown now.
BceidAddedToShown(s, found) ==
    /\ search[s].at = "bceid"
    /\ Show(shown \o For(s, SearchBCGOVSSOBceidUsers(found)))
    /\ search' = [search EXCEPT ![s] = NoSearch]
    /\ UNCHANGED <<box, late>>
BceidAnswered(s, found) ==
    /\ search[s].at = "bceid"
    /\ Show(search[s].kept \o For(s, SearchBCGOVSSOBceidUsers(found)))
    /\ search' = [search EXCEPT ![s] = NoSearch]
    /\ UNCHANGED <<box, late>>

\* Either call fails: nothing is shown, not even what another search has found.
SearchFails(s) ==
    /\ search[s].at # "idle"
    /\ Nothing
    /\ search' = [search EXCEPT ![s] = NoSearch]
    /\ UNCHANGED <<box, late>>

Init ==
    /\ open = FALSE /\ text = EmptyText
    /\ selected = FALSE /\ adding = 0
    /\ shown = <<>> /\ shows = FALSE
    /\ search = [s \in Searches |-> NoSearch]
    /\ late = {} /\ left = FALSE

Next ==
    \/ OpenBox \/ ToggleSearch \/ HandleUserSelected
    \/ HandleAddUser \/ UserAdded \/ AddFails \/ HandleCancel
    \/ \E t \in Texts : ChangeText(t)
    \/ \E s \in Searches :
        \/ HandleUserSearch(s)
        \/ \E found \in IdirAnswers : IdirAnswered(s, found)
        \/ \E found \in BceidAnswers : BceidAnswered(s, found)
        \/ SearchFails(s)

Spec == Init /\ [][Next]_vars

-----------------------------------------------------------------------------
(* Properties. *)

\* The places in data at which a guid, or a user without one, is first seen;
\* and of the users with the guid of one, the first of the most complete.
Firsts(data) ==
    {i \in DOMAIN data :
        data[i].guid = NoGuid \/ \A j \in 1..(i - 1) : data[j].guid # data[i].guid}
BestLike(data, i) ==
    LET like == {j \in DOMAIN data : data[j].guid = data[i].guid}
        best == {j \in like : \A k \in like : Score(data[k]) <= Score(data[j])}
    IN IF data[i].guid = NoGuid THEN i ELSE Min(best)

\* Of what the SSO API found, each person is in the answer once, by the first of
\* their most complete records, in the order they were first found in; and
\* records that cannot be told apart by a guid are all there.
DedupKeepsTheBest ==
    \A s \in Searches :
        LET data == search[s].found
            answer == search[s].kept
        IN /\ Len(answer) = Cardinality(Firsts(data))
           /\ \A i \in Firsts(data) :
                  answer[Cardinality({j \in Firsts(data) : j <= i})].user
                      = data[BestLike(data, i)]

\* However searches overtake each other, the results shown are those of one.
ResultsOfOneSearch ==
    \A i, j \in DOMAIN shown : shown[i].for = shown[j].for

\* Results for another text than the one in the box are only shown if their
\* search was outstanding when the box was changed, closed or cleared, or if
\* they are what the last box was closed on; a change of the text clears these.
ResultsForTextUnlessLateOrLeft ==
    open => left \/ \A i \in DOMAIN shown : shown[i].for = text \/ shown[i].for \in late
=============================================================================
