\* Two tenants with one service: a group of one with a member of the other.
SPECIFICATION ESpec
CONSTANTS
    Services = {c1}
    RoleIds = {r1}
    Tenants = {t1, t2}
    Columns = {}
    Values = {}
    RoleNames = {n1}
    Idps = {"idir"}
    Groups = {g1}
    Users = {s1, s2}
    TenantUserIds = {u1, u2}
    Roles = {"TMS.SERVICE_USER", "TMS.TENANT_OWNER"}
    Copies = {k1}
    NoRow = NoRow
SYMMETRY Symmetry
INVARIANT RolesThroughOwnGroups
