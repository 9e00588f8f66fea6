SPECIFICATION Spec
CONSTANTS
    Requests = {q1, q2}
    Callers = {c1}
    Roles = {"TMS.TENANT_OWNER", "TMS.USER_ADMIN"}
    Endpoints = {"ADD_TENANT_USERS", "REMOVE_TENANT_USER", "CREATE_GROUP", "UPDATE_TENANT",
        "UPDATE_TENANT_REQUEST_STATUS",
        "GET_ROLES_FOR_SSO_USER", "SEARCH_BC_GOV_IDIR_USERS"}
    PoolSize = 1
    NoRequest = NoRequest
INVARIANTS
    WrittenAsAllowed
    AnswerTellsOutcome
    MailAfterCommit
    PoolKept
PROPERTY EveryRequestEnds
