--------------------------- MODULE TenantApproval ---------------------------
(***************************************************************************)
(* What docs-site/docs/tenant-management/tenant-approval-workflow.md       *)
(* promises: a tenant request is submitted, then approved, which creates   *)
(* one tenant, or rejected, which creates none and stores the decision     *)
(* with its reason; a decision is final.                                   *)
(***************************************************************************)
CONSTANTS
    RequestIds,   \* tenant requests
    Tenants,      \* tenants that may come of them
    Reasons,      \* reasons for a rejection
    NoReason      \* "not rejected"

VARIABLES
    status,       \* the status of each request
    reason,       \* why it was rejected
    tenantsOf     \* the tenants created on approval of each request

vars == <<status, reason, tenantsOf>>

Init ==
    /\ status = [r \in RequestIds |-> "none"]
    /\ reason = [r \in RequestIds |-> NoReason]
    /\ tenantsOf = [r \in RequestIds |-> {}]

Submit(r) ==
    /\ status[r] = "none"
    /\ status' = [status EXCEPT ![r] = "NEW"]
    /\ UNCHANGED <<reason, tenantsOf>>

Approve(r, t) ==
    /\ status[r] = "NEW"
    /\ status' = [status EXCEPT ![r] = "APPROVED"]
    /\ tenantsOf' = [tenantsOf EXCEPT ![r] = {t}]
    /\ UNCHANGED reason

Reject(r, why) ==
    /\ status[r] = "NEW"
    /\ status' = [status EXCEPT ![r] = "REJECTED"]
    /\ reason' = [reason EXCEPT ![r] = why]
    /\ UNCHANGED tenantsOf

Next ==
    \E r \in RequestIds :
        \/ Submit(r)
        \/ \E t \in Tenants : Approve(r, t)
        \/ \E why \in Reasons : Reject(r, why)

Spec == Init /\ [][Next]_vars
=============================================================================
