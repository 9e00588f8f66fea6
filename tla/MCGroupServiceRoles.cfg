\* Two overlapping updates on two groups of a tenant and two roles of a
\* service; the columns with a key play no part.
SPECIFICATION CSpec
CONSTANTS
    Services = {s1}
    RoleIds = {r1, r2}
    Tenants = {t1}
    Columns = {}
    Values = {}
    RoleNames = {n1, n2}
    Idps = {}
    Groups = {g1, g2}
    NoRow = NoRow
    Requests = {q1, q2}
    GroupNames = {x1, x2}
SYMMETRY Symmetry
INVARIANTS
    AssignedServicesAssociated
    GroupNamesUnique
PROPERTIES
    NeverAgainstRequest
    AsAskedUnlessOvertaken
