\* Two overlapping requests on two services that share a column with a key.
SPECIFICATION CSpec
CONSTANTS
    Services = {s1, s2}
    RoleIds = {r1, r2}
    Tenants = {t1}
    Columns = {"name"}
    Values = {v1, v2}
    RoleNames = {n1, n2}
    Idps = {"idir"}
    NoRow = NoRow
    Requests = {q1, q2}
SYMMETRY Symmetry
INVARIANTS
    NoTwoAlike
    ServicesLoad
PROPERTY SerialUnlessOvertaken
