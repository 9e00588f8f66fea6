SPECIFICATION PSpec
CONSTANTS
    Users = {u1, u2}
    Bceids = {{}, {u1}, {u2}}
    Members = {u1, u2}
    Calls = {k1, k2}
    AtFirst = {{"TENANT_OWNER", "USER_ADMIN"}}
    Groups = {g1, g2}
    ServiceRoles = {r1}
    MaxVisits = 2
    Saves = {k1, k2}
    None = None
    NotOpen = NotOpen
SYMMETRY Alike
\* All the calls may be used up.
CHECK_DEADLOCK FALSE
INVARIANTS
    ListShowsRolesHeld
    SaveNeverRemovesLastRole
    PageShowsRolesHeld
PROPERTY UntouchedRolesKept
