\* One tenant, two users, one group, one role of one service.
SPECIFICATION ESpec
CONSTANTS
    Services = {c1}
    RoleIds = {r1}
    Tenants = {t1}
    Columns = {}
    Values = {}
    RoleNames = {n1}
    Idps = {"idir", "bceidbusiness"}
    Groups = {g1}
    Users = {s1, s2}
    TenantUserIds = {u1, u2}
    Roles = {"TMS.SERVICE_USER", "TMS.TENANT_OWNER"}
    Copies = {k1}
    NoRow = NoRow
SYMMETRY Symmetry
INVARIANTS
    AnswerIsCurrent
    ShownRolesAreEffective
    ListsAgreeWithAnswer
