\* Two searches, and a box that opens and closes while users are added.
SPECIFICATION Spec
CONSTANTS
    Texts = {none, t1, t2}
    EmptyText = none
    Searches = {s1, s2}
    MaxAdding = 2
    g1 = g1
    g2 = g2
    email = email
    name = name
    Guids = {g1, g2}
    NoGuid = NoGuid
    Fields = {email, name}
    IdirAnswers <- Idir
    BceidAnswers <- Bceid
SYMMETRY Alike
INVARIANTS
    DedupKeepsTheBest
    ResultsOfOneSearch
    ResultsForTextUnlessLateOrLeft
