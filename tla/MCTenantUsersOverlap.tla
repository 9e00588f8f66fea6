------------------------ MODULE MCTenantUsersOverlap ------------------------
(* TenantUsersOverlap for TLC: the symmetry of the model values and the      *)
(* bounds of the runs, which are constraints on the states TLC goes on from. *)
EXTENDS TenantUsersOverlap, TLC

Symmetry ==
    Permutations(Users) \union Permutations(TenantUserIds) \union Permutations(Requests)

\* Behaviours are followed up to and including their first stale commit.
UpToFirstStaleCommit == ~stale

\* The requests on users and roles overlap while the tenant has no group, ...
NoGroupYet ==
    /\ \A g \in Groups : groupTenant[g] = NoRow
    /\ \A q \in Requests : request[q].op # "createGroup"

\* ... and those on users and groups while every user is an IDIR user, only one
\* has ever been an owner and no request gives or takes a role by itself.
IdirOnly == \A s \in Users : idpType[s] # BusinessBceid
OneOwner ==
    \A u, v \in TenantUserIds :
        (\E k, l \in Copies :
            roleRow[u][TenantOwner][k] # "none" /\ roleRow[v][TenantOwner][l] # "none") => u = v
NoRoleRequests ==
    \A q \in Requests :
        /\ request[q].op \notin {"assign", "unassign"}
        /\ request[q].op = "add" => TenantOwner \notin request[q].roles

RolesOrGroups == NoGroupYet \/ (NoRoleRequests /\ IdirOnly /\ OneOwner)
=============================================================================
