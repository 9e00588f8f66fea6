\* Two overlapping requests on users and roles, or on users and groups.
SPECIFICATION OSpec
CONSTANTS
    Tenants = {t1}
    Users = {s1, s2}
    TenantUserIds = {u1, u2, u3}
    Groups = {g1}
    Roles = {"TMS.SERVICE_USER", "TMS.TENANT_OWNER"}
    Copies = {k1, k2}
    NoRow = NoRow
    Requests = {q1, q2}
SYMMETRY Symmetry
CONSTRAINTS
    UpToFirstStaleCommit
    RolesOrGroups
PROPERTIES
    SerialUnlessOvertaken
    FirstStaleCommitBreaksOnly
\* A tenant whose last owners were removed at once admits no request at all.
CHECK_DEADLOCK FALSE
