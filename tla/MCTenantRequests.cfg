\* Two calls at once.
SPECIFICATION Spec
CONSTANTS
    Tenants = {t1, t2}
    RequestIds = {r1, r2}
    Names = {n1, n2}
    Ministries = {m1, m2}
    Reasons = {x1}
    Calls = {q1, q2}
    NoRow = NoRow
SYMMETRY Symmetry
INVARIANTS
    TenantNamesUnique
    ApprovedHasTenant
PROPERTY WorkflowUnlessDecidedAgain
