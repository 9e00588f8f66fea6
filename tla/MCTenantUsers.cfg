\* Two tenants that share users, the two roles the checks speak of.
SPECIFICATION Spec
CONSTANTS
    Tenants = {t1, t2}
    Users = {s1, s2}
    TenantUserIds = {u1, u2, u3}
    Groups = {g1}
    Roles = {"TMS.SERVICE_USER", "TMS.TENANT_OWNER"}
    Copies = {k1, k2}
    NoRow = NoRow
SYMMETRY Symmetry
INVARIANTS
    TypeOK
    ActiveUserHasRole
    RemovedUserHasNothing
    NoDuplicateAssignments
    TenantHasOwner
    OneRowPerTenantAndUser
    BceidHoldsServiceUserOnly
    ReadsAgree
PROPERTIES
    OneUserPerRequest
