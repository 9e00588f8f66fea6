\* Two owners lose the role, or are removed, at once.
SPECIFICATION OSpec
CONSTANTS
    Tenants = {t1}
    Users = {s1, s2}
    TenantUserIds = {u1, u2, u3}
    Groups = {}
    Roles = {"TMS.SERVICE_USER", "TMS.TENANT_OWNER"}
    Copies = {k1, k2}
    NoRow = NoRow
    Requests = {q1, q2}
SYMMETRY Symmetry
CONSTRAINT UpToFirstStaleCommit
INVARIANT TenantHasOwner
CHECK_DEADLOCK FALSE
