----------------------------- MODULE ApiRequests -----------------------------
(***************************************************************************)
(* A request on its way through the backend: the middleware of its route,  *)
(* the connection pool, its transaction, and what comes after the commit.  *)
(* What the handlers write is in the other modules; here a commit is one   *)
(* bit, and all that it may change is who may do what in the tenant.       *)
(*                                                                         *)
(* The pool hands its connections out in the order they were asked for and *)
(* makes the others wait without a limit.  A request holds a connection    *)
(* for one query, or for its whole transaction, in which every query names *)
(* the transaction's manager.  Mail, the search for SSO users and their    *)
(* waiting hold none.                                                      *)
(***************************************************************************)
EXTENDS ApiRoutes, FiniteSets

CONSTANTS
    Requests,    \* the requests the process can be serving at once
    Callers,     \* users who call the API
    Roles,       \* the global roles
    Endpoints,   \* the routes they take
    PoolSize,    \* the most connections the pool opens
    NoRequest    \* "not serving a request"

Checks == {"token", "admin", "body"}
RouteRow ==
    [checks : Seq(Checks), access : BOOLEAN, roles : SUBSET Roles, service : BOOLEAN,
     does : {"write", "read", "search"}, queries : Nat,
     after : {"nothing", "mail", "find", "name"}, members : BOOLEAN]

ASSUME EndpointsAssumption == Endpoints \subseteq ApiEndpoints
ASSUME HandlersAssumption == DOMAIN Handlers = ApiEndpoints
ASSUME RowsAssumption == \A e \in ApiEndpoints : ApiRouteTable[e] \in RouteRow
ASSUME PoolAssumption == PoolSize \in Nat \ {0}

VARIABLES
    roles,     \* by caller: the roles of the active tenant user, in the tenant
    request,   \* what each request is doing
    queue,     \* the requests that wait for a connection
    holds      \* how many connections each request holds

vars == <<roles, request, queue, holds>>

\* lacks: what the request would be turned down for, if anything, apart from
\* the caller's roles; at: the stage it is in; entitled: history, the caller
\* had what the route requires at some moment since the request came.
RequestState ==
    [endpoint : Endpoints, caller : Callers,
     lacks : Checks \union {"nothing", "service"},
     at : {"checks", "service", "access", "handler", "find", "name", "mail", "done"},
     queries : Nat, committed : BOOLEAN, mail : {"no", "asked", "sent", "failed"},
     answer : {"none", "success", "unauthorized", "forbidden", "invalid", "error"},
     entitled : BOOLEAN]

ASSUME NoRequestAssumption == NoRequest \notin RequestState

TypeOK ==
    /\ roles \in [Callers -> SUBSET Roles]
    /\ request \in [Requests -> RequestState \union {NoRequest}]
    /\ queue \in Seq(Requests)
    /\ holds \in [Requests -> 0..1]

-----------------------------------------------------------------------------

Route(q) == ApiRouteTable[request[q].endpoint]
Serving(q) == request[q] # NoRequest
At(q, stage) == Serving(q) /\ request[q].at = stage
Does(q, what) == At(q, "handler") /\ Route(q).does = what

Lacks(q) == \E i \in 1..Len(Route(q).checks) : Route(q).checks[i] = request[q].lacks
Requires(row, what) ==
    \/ \E i \in 1..Len(row.checks) : row.checks[i] = what
    \/ what = "service" /\ row.service

Waiting(q) == \E i \in 1..Len(queue) : queue[i] = q
Connected(q) == holds[q] > 0

\* The stages whose next step is a query.
NeedsConnection(q) ==
    \/ At(q, "service") \/ At(q, "access") \/ At(q, "find") \/ At(q, "name")
    \/ Does(q, "write") \/ Does(q, "read")

\* checkUserTenantAccess: one of the required roles, or none required and active.
Allows(row, held) ==
    IF row.roles = {} THEN held # {} ELSE held \intersect row.roles # {}
Entitles(e, held) == ApiRouteTable[e].access => Allows(ApiRouteTable[e], held)

Becomes(q, fields) == request' = [request EXCEPT ![q] = fields]
Moves(q, stage) == Becomes(q, [request[q] EXCEPT !.at = stage])
Answers(q, answer) ==
    Becomes(q, [request[q] EXCEPT !.at = "done", !.answer = answer])
Releases(q) == holds' = [holds EXCEPT ![q] = 0]

-----------------------------------------------------------------------------
(* Middleware. *)

Arrive(q, e, c, lacks) ==
    /\ ~Serving(q)
    /\ lacks # "nothing" => Requires(ApiRouteTable[e], lacks)
    /\ request' = [request EXCEPT ![q] =
           [endpoint |-> e, caller |-> c, lacks |-> lacks, at |-> "checks",
            queries |-> ApiRouteTable[e].queries, committed |-> FALSE, mail |-> "no",
            answer |-> "none", entitled |-> Entitles(e, roles[c])]]
    /\ UNCHANGED <<roles, queue, holds>>

\* checkTenantAccess looks a connected service up before the user, if the token
\* is a service's.
AfterChecks(q) ==
    IF ~Route(q).access THEN {"handler"}
    ELSE IF request[q].lacks = "service" THEN {"service"}
    ELSE {"access"} \union (IF Route(q).service THEN {"service"} ELSE {})

\* checkJwt, checkOperationsAdmin and validate, in the order of the route.
Pass(q) ==
    /\ At(q, "checks")
    /\ ~Lacks(q)
    /\ \E stage \in AfterChecks(q) : Moves(q, stage)
    /\ UNCHANGED <<roles, queue, holds>>

\* Each answers and does not call next.
TurnDownAndGoOn(q) ==
    /\ At(q, "checks")
    /\ Lacks(q)
    /\ Becomes(q, [request[q] EXCEPT !.answer = "forbidden",
                       !.at = IF request[q].lacks = "admin" THEN "handler" ELSE "done"])
    /\ UNCHANGED <<roles, queue, holds>>
TurnDown(q) ==
    /\ At(q, "checks")
    /\ Lacks(q)
    /\ Answers(q, CASE request[q].lacks = "token" -> "unauthorized"
                    [] request[q].lacks = "admin" -> "forbidden"
                    [] request[q].lacks = "body" -> "invalid")
    /\ UNCHANGED <<roles, queue, holds>>

\* A token of a service that the tenant does not have is turned down; each of
\* the two queries may fail, and the error handler answers.
CheckService(q) ==
    /\ At(q, "service")
    /\ Connected(q)
    /\ \/ request[q].lacks # "service" /\ Moves(q, "access")
       \/ request[q].lacks = "service" /\ Answers(q, "forbidden")
       \/ Answers(q, "error")
    /\ Releases(q)
    /\ UNCHANGED <<roles, queue>>

\* The roles are those of the moment its query runs.
CheckAccess(q) ==
    /\ At(q, "access")
    /\ Connected(q)
    /\ LET allowed == Allows(Route(q), roles[request[q].caller])
       IN \/ allowed /\ Moves(q, "handler")
          \/ ~allowed /\ Answers(q, "forbidden")
          \/ Answers(q, "error")
    /\ Releases(q)
    /\ UNCHANGED <<roles, queue>>

-----------------------------------------------------------------------------
(* The connection pool. *)

AskAgain(q) ==
    /\ NeedsConnection(q)
    /\ ~Waiting(q)
    /\ queue' = Append(queue, q)
    /\ UNCHANGED <<roles, request, holds>>
Ask(q) ==
    /\ NeedsConnection(q)
    /\ ~Connected(q) /\ ~Waiting(q)
    /\ queue' = Append(queue, q)
    /\ UNCHANGED <<roles, request, holds>>

InUse == Cardinality({q \in Requests : Connected(q)})
Grant ==
    /\ queue # <<>>
    /\ InUse < PoolSize
    /\ holds' = [holds EXCEPT ![Head(queue)] = @ + 1]
    /\ queue' = Tail(queue)
    /\ UNCHANGED <<roles, request>>

-----------------------------------------------------------------------------
(* Handlers. *)

\* The stage after the commit; a handler with nothing to do after it answers.
AfterCommit(q) == IF Route(q).after = "nothing" THEN "done" ELSE Route(q).after

\* A commit on who is in the tenant may change the roles of some caller, which
\* other requests may be relying on.
Commit(q, c, held) ==
    /\ Does(q, "write")
    /\ Connected(q)
    /\ held # roles[c] => Route(q).members
    /\ roles' = [roles EXCEPT ![c] = held]
    /\ LET stage == AfterCommit(q)
           row == [request[q] EXCEPT
                      !.committed = TRUE, !.at = stage,
                      !.answer = IF stage = "done" THEN "success" ELSE @]
       IN request' = [p \in Requests |->
              LET now == IF p = q THEN row ELSE request[p]
              IN IF p # q /\ Serving(p)
                 THEN [now EXCEPT !.entitled = @ \/ Entitles(now.endpoint, roles'[now.caller])]
                 ELSE now]
    /\ Releases(q)
    /\ UNCHANGED queue

\* A check of the handler throws, or a statement fails: rollback, and an error.
Rollback(q) ==
    /\ Does(q, "write")
    /\ Connected(q)
    /\ Answers(q, "error")
    /\ Releases(q)
    /\ UNCHANGED <<roles, queue>>

Read(q) ==
    /\ Does(q, "read")
    /\ Connected(q)
    /\ IF request[q].queries > 1
       THEN Becomes(q, [request[q] EXCEPT !.queries = @ - 1])
       ELSE Answers(q, "success")
    /\ Releases(q)
    /\ UNCHANGED <<roles, queue>>

\* Nothing is found, or the query fails.
ReadFails(q) ==
    /\ Does(q, "read")
    /\ Connected(q)
    /\ Answers(q, "error")
    /\ Releases(q)
    /\ UNCHANGED <<roles, queue>>

\* The SSO service answers or refuses; the calls have no timeout.
Search(q) ==
    /\ Does(q, "search")
    /\ \E answer \in {"success", "error"} : Answers(q, answer)
    /\ UNCHANGED <<roles, queue, holds>>

-----------------------------------------------------------------------------
(* After the commit. *)

\* createGroup and updateGroup look the creator's name up; if that fails, so
\* does the request, whose change stays.
FindName(q) ==
    /\ At(q, "name")
    /\ Connected(q)
    /\ \E answer \in {"success", "error"} : Answers(q, answer)
    /\ Releases(q)
    /\ UNCHANGED <<roles, queue>>

\* The tenant user the mail is about.  No mail goes out if the query fails or a
\* user removed their own access, or addGroupUser added no tenant user.
FindUser(q) ==
    /\ At(q, "find")
    /\ Connected(q)
    /\ Moves(q, "mail") \/ Answers(q, "success")
    /\ Releases(q)
    /\ UNCHANGED <<roles, queue>>

\* Skipped if CHES is not configured or the user has no address.
SkipMail(q) ==
    /\ At(q, "mail")
    /\ request[q].mail = "no"
    /\ Answers(q, "success")
    /\ UNCHANGED <<roles, queue, holds>>

AskMail(q) ==
    /\ At(q, "mail")
    /\ request[q].mail = "no"
    /\ Becomes(q, [request[q] EXCEPT !.mail = "asked"])
    /\ UNCHANGED <<roles, queue, holds>>

\* CHES answers, or refuses.
MailAnswered(q) ==
    /\ At(q, "mail")
    /\ request[q].mail = "asked"
    /\ \E outcome \in {"sent", "failed"} :
           Becomes(q, [request[q] EXCEPT !.mail = outcome, !.at = "done",
                                         !.answer = "success"])
    /\ UNCHANGED <<roles, queue, holds>>

\* Or nothing comes until REQUEST_TIMEOUT_MS have passed.  The failure is
\* caught and logged.
NoTimeout(q) == At(q, "mail") /\ FALSE /\ UNCHANGED vars
MailFailsRequest(q) ==
    /\ At(q, "mail")
    /\ request[q].mail = "asked"
    /\ Becomes(q, [request[q] EXCEPT !.mail = "failed", !.at = "done", !.answer = "error"])
    /\ UNCHANGED <<roles, queue, holds>>
MailFails(q) ==
    /\ At(q, "mail")
    /\ request[q].mail = "asked"
    /\ Becomes(q, [request[q] EXCEPT !.mail = "failed", !.at = "done",
                                     !.answer = "success"])
    /\ UNCHANGED <<roles, queue, holds>>

\* The response is sent and the request forgotten.
Leave(q) ==
    /\ At(q, "done")
    /\ Becomes(q, NoRequest)
    /\ UNCHANGED <<roles, queue, holds>>

\* The process stops.  Postgres rolls open transactions back; the requests are
\* forgotten, and so are the mails of those that had committed.
Crash ==
    /\ request' = [q \in Requests |-> NoRequest]
    /\ queue' = <<>>
    /\ holds' = [q \in Requests |-> 0]
    /\ UNCHANGED roles

-----------------------------------------------------------------------------

Init ==
    /\ roles \in [Callers -> SUBSET Roles]
    /\ request = [q \in Requests |-> NoRequest]
    /\ queue = <<>>
    /\ holds = [q \in Requests |-> 0]

\* What the process does of itself, given time.
Proceeds(q) ==
    \/ Pass(q) \/ TurnDown(q)
    \/ Ask(q) \/ CheckService(q) \/ CheckAccess(q)
    \/ \E c \in Callers, held \in SUBSET Roles : Commit(q, c, held)
    \/ Rollback(q) \/ Read(q) \/ ReadFails(q)
    \/ FindName(q) \/ FindUser(q)
    \/ SkipMail(q) \/ AskMail(q) \/ MailFails(q)

Next ==
    \/ \E q \in Requests :
        \/ \E e \in Endpoints, c \in Callers,
              lacks \in Checks \union {"nothing", "service"} : Arrive(q, e, c, lacks)
        \/ Proceeds(q)
        \/ Search(q)
        \/ MailAnswered(q)
        \/ Leave(q)
    \/ Grant
    \/ Crash

Fairness == WF_vars(Grant) /\ \A q \in Requests : WF_vars(Proceeds(q))

Spec == Init /\ [][Next]_vars /\ Fairness

-----------------------------------------------------------------------------
(* Properties. *)

\* What a request has written it was allowed to write: it lacked nothing its
\* route checks, and its caller had one of the roles at some moment since the
\* request came (not necessarily when it was written).
WrittenAsAllowed ==
    \A q \in Requests : Serving(q) /\ request[q].committed =>
        /\ ~Lacks(q)
        /\ request[q].entitled

\* The answer tells whether the change was made, except that createGroup and
\* updateGroup may fail after it; none is given before the end.
AnswerTellsOutcome ==
    \A q \in Requests : Serving(q) =>
        /\ At(q, "done") <=> request[q].answer # "none"
        /\ Route(q).does = "write" /\ request[q].answer # "none" =>
            \/ request[q].committed = (request[q].answer = "success")
            \/ Route(q).after = "name" /\ request[q].answer = "error"

\* Mail is about what is committed, and never decides whether the request
\* succeeds.
MailAfterCommit ==
    \A q \in Requests : Serving(q) /\ request[q].mail # "no" =>
        /\ request[q].committed
        /\ At(q, "mail") \/ request[q].answer = "success"

\* The pool is never overdrawn, and no request waits for a connection while it
\* holds one, or while it waits for CHES or the SSO service.
PoolKept ==
    /\ InUse <= PoolSize
    /\ \A q \in Requests :
        /\ Waiting(q) => ~Connected(q)
        /\ Waiting(q) \/ Connected(q) => NeedsConnection(q)

\* Every request but a search is answered, or its process has stopped: requests
\* do not starve each other of connections, and a mail that CHES does not answer
\* does not hold its request up for ever.
EveryRequestEnds ==
    \A q \in Requests :
        Serving(q) /\ ~Does(q, "search") ~> ~Serving(q) \/ At(q, "done") \/ Does(q, "search")
=============================================================================
