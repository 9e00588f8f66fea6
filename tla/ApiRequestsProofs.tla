------------------------- MODULE ApiRequestsProofs -------------------------
(***************************************************************************)
(* Theorems about ApiRequests, for any number of requests and callers, any *)
(* size of the pool and any choice of routes.                              *)
(***************************************************************************)
EXTENDS ApiRequests, FiniteSetTheorems, TLAPS

-----------------------------------------------------------------------------
(* What can be said of a request from its own state. *)

RouteOf(st) == ApiRouteTable[st.endpoint]
TurnedDown(st) == \E i \in 1..Len(RouteOf(st).checks) : RouteOf(st).checks[i] = st.lacks

\* How far it is: each stage is reached by passing the one before.
Progress(st) ==
    /\ st.at \notin {"checks", "done"} => ~TurnedDown(st)
    /\ st.at \in {"handler", "find", "name", "mail"} => st.entitled
    /\ st.at \in {"find", "name", "mail"} => st.committed
    /\ st.at \in {"checks", "service", "access", "handler"} => ~st.committed
    /\ st.committed => ~TurnedDown(st) /\ st.entitled /\ RouteOf(st).does = "write"
    /\ st.at = "name" => RouteOf(st).after = "name"

\* What it has said.
Said(st) ==
    /\ st.at = "done" <=> st.answer # "none"
    /\ RouteOf(st).does = "write" /\ st.at = "done" =>
        \/ st.committed = (st.answer = "success")
        \/ RouteOf(st).after = "name" /\ st.answer = "error"
    /\ st.mail # "no" => st.committed /\ (st.at = "mail" \/ st.answer = "success")

Legal(st) == st \in RequestState /\ Progress(st) /\ Said(st)

\* Whoever has what the route requires now has had it since the request came.
EntitledWith(st, held) == Entitles(st.endpoint, held[st.caller]) => st.entitled

RequestsLegal ==
    \A q \in Requests : Serving(q) => Legal(request[q]) /\ EntitledWith(request[q], roles)

\* The queue has no request twice, and those in it or connected need a connection.
Busy == {q \in Requests : Connected(q)}
PoolSound ==
    /\ \A i, j \in 1..Len(queue) : queue[i] = queue[j] => i = j
    /\ IsFiniteSet(Busy)
    /\ PoolKept

-----------------------------------------------------------------------------
(* Steps of one request. *)

\* The new state is of the same request, and legal.
Follows(new, old) ==
    /\ Legal(new)
    /\ new.endpoint = old.endpoint /\ new.caller = old.caller
    /\ new.entitled = old.entitled

LEMMA RouteRows ==
    ASSUME NEW st \in RequestState
    PROVE  RouteOf(st) \in RouteRow
BY EndpointsAssumption, RowsAssumption DEF RouteOf, RequestState

\* To move, or to answer, changes these fields and no other.
MovedTo(st, stage) == [st EXCEPT !.at = stage]
AnsweredWith(st, answer) == [st EXCEPT !.at = "done", !.answer = answer]
SameBut(new, st, fields) ==
    /\ new \in RequestState
    /\ \A field \in {"endpoint", "caller", "lacks", "at", "queries", "committed", "mail",
                     "answer", "entitled"} \ fields : new[field] = st[field]

Stages == {"checks", "service", "access", "handler", "find", "name", "mail", "done"}
AnswerKinds == {"success", "unauthorized", "forbidden", "invalid", "error"}

LEMMA MovesTo ==
    ASSUME NEW st \in RequestState, NEW stage \in Stages
    PROVE  SameBut(MovedTo(st, stage), st, {"at"}) /\ MovedTo(st, stage).at = stage
BY DEF RequestState, MovedTo, SameBut, Stages

LEMMA AnswersWith ==
    ASSUME NEW st \in RequestState, NEW answer \in AnswerKinds
    PROVE  /\ SameBut(AnsweredWith(st, answer), st, {"at", "answer"})
           /\ AnsweredWith(st, answer).at = "done"
           /\ AnsweredWith(st, answer).answer = answer
BY DEF RequestState, AnsweredWith, SameBut, AnswerKinds

\* A legal request that answers stays legal if the answer is a success where
\* something was written, and an error or a refusal where it was not; reads
\* and searches may answer as they like.
LEMMA AnswerLegal ==
    ASSUME NEW st, Legal(st), st.at # "done", NEW answer \in AnswerKinds,
           \/ RouteOf(st).does # "write"
           \/ st.committed = (answer = "success")
           \/ RouteOf(st).after = "name" /\ answer = "error",
           st.mail # "no" => answer = "success"
    PROVE  Follows(AnsweredWith(st, answer), st)
<1> DEFINE new == AnsweredWith(st, answer)
<1>1. new \in RequestState /\ new.at = "done" /\ new.answer = answer
  BY AnswersWith DEF Legal, SameBut
<1>2. /\ new.endpoint = st.endpoint /\ new.caller = st.caller
      /\ new.lacks = st.lacks /\ new.committed = st.committed /\ new.mail = st.mail
      /\ new.entitled = st.entitled
  BY AnswersWith DEF Legal, SameBut
<1> HIDE DEF new
<1>3. RouteOf(new) = RouteOf(st) /\ (TurnedDown(new) <=> TurnedDown(st))
  BY <1>2 DEF RouteOf, TurnedDown
<1>4. Progress(new)
  BY <1>1, <1>2, <1>3 DEF Legal, Progress
<1>5. Said(new)
  <2>1. answer # "none"
    BY DEF AnswerKinds
  <2> QED
    BY <1>1, <1>2, <1>3, <2>1 DEF Legal, Said
<1> QED
  BY <1>1, <1>2, <1>4, <1>5 DEF Follows, Legal, new

LEMMA LacksIsTurnedDown ==
    ASSUME NEW q \in Requests
    PROVE  /\ Lacks(q) <=> TurnedDown(request[q])
           /\ Route(q) = RouteOf(request[q])
BY DEF Lacks, TurnedDown, Route, RouteOf

\* The steps that need no connection, and those that use one for their query.
Local(q) ==
    \/ Pass(q) \/ TurnDown(q) \/ Search(q)
    \/ SkipMail(q) \/ AskMail(q) \/ MailAnswered(q) \/ MailFails(q)
Queries(q) ==
    \/ CheckService(q) \/ CheckAccess(q)
    \/ Rollback(q) \/ Read(q) \/ ReadFails(q)
    \/ FindName(q) \/ FindUser(q)

LEMMA LocalFollows ==
    ASSUME RequestsLegal, NEW q \in Requests, Local(q)
    PROVE  /\ \E new : Becomes(q, new) /\ Follows(new, request[q])
           /\ ~NeedsConnection(q)
           /\ UNCHANGED <<roles, queue, holds>>
<1>1. PICK st : st = request[q]
  OBVIOUS
<1>2. Serving(q)
  BY DEF Local, Pass, TurnDown, Search, SkipMail, AskMail, MailAnswered, MailFails,
     Does, At
<1>3. Legal(st) /\ EntitledWith(st, roles)
  BY <1>1, <1>2 DEF RequestsLegal
<1>4. /\ Lacks(q) <=> TurnedDown(st)
      /\ Route(q) = RouteOf(st)
  BY <1>1, LacksIsTurnedDown
<1>5. RouteOf(st) \in RouteRow /\ st \in RequestState
  BY <1>3, RouteRows DEF Legal
<1>6. UNCHANGED <<roles, queue, holds>>
  BY DEF Local, Pass, TurnDown, Search, SkipMail, AskMail, MailAnswered, MailFails
<1>7. st.at \in {"checks", "mail"} \/ (st.at = "handler" /\ RouteOf(st).does = "search")
  BY <1>1, <1>4 DEF Local, Pass, TurnDown, Search, SkipMail, AskMail, MailAnswered,
     MailFails, Does, At
<1>8. ~NeedsConnection(q)
  BY <1>1, <1>4, <1>7 DEF NeedsConnection, Does, At
<1>9. ASSUME NEW answer \in AnswerKinds, Answers(q, answer), st.mail = "no",
             \/ RouteOf(st).does # "write"
             \/ st.committed = (answer = "success")
      PROVE  \E new : Becomes(q, new) /\ Follows(new, st)
  <2>1. Follows(AnsweredWith(st, answer), st)
    BY <1>3, <1>7, <1>9, AnswerLegal
  <2> QED
    BY <1>1, <1>9, <2>1 DEF Answers, AnsweredWith
<1>10. CASE Pass(q)
  <2>1. PICK stage \in AfterChecks(q) : Moves(q, stage)
    BY <1>10 DEF Pass
  <2>2. /\ stage \in {"service", "access", "handler"}
        /\ stage = "handler" => ~RouteOf(st).access
    BY <1>4 DEF AfterChecks
  <2> DEFINE new == MovedTo(st, stage)
  <2>3. st.at = "checks" /\ ~TurnedDown(st) /\ Becomes(q, new)
    BY <1>1, <1>4, <1>10, <2>1 DEF Pass, At, Moves, MovedTo
  <2>4. /\ new \in RequestState /\ new.at = stage
        /\ new.endpoint = st.endpoint /\ new.caller = st.caller /\ new.lacks = st.lacks
        /\ new.committed = st.committed /\ new.mail = st.mail
        /\ new.answer = st.answer /\ new.entitled = st.entitled
    BY <1>5, <2>2, MovesTo DEF SameBut, Stages
  <2>5. ~RouteOf(st).access => st.entitled
    BY <1>3 DEF EntitledWith, Entitles, RouteOf
  <2> HIDE DEF new
  <2>6. RouteOf(new) = RouteOf(st) /\ (TurnedDown(new) <=> TurnedDown(st))
    BY <2>4 DEF RouteOf, TurnedDown
  <2>7. Progress(new)
    BY <1>3, <2>2, <2>3, <2>4, <2>5, <2>6 DEF Legal, Progress
  <2>8. Said(new)
    BY <1>3, <2>2, <2>3, <2>4, <2>6 DEF Legal, Said, Progress
  <2> QED
    BY <1>1, <1>6, <1>8, <2>3, <2>4, <2>7, <2>8 DEF Follows, Legal
<1>11. CASE TurnDown(q)
  <2>1. st.at = "checks" /\ TurnedDown(st)
    BY <1>1, <1>4, <1>11 DEF TurnDown, At
  <2>2. st.lacks \in Checks
    <3>1. RouteOf(st).checks \in Seq(Checks)
      BY <1>5 DEF RouteRow
    <3> QED
      BY <2>1, <3>1 DEF TurnedDown
  <2>3. PICK answer : /\ answer = CASE st.lacks = "token" -> "unauthorized"
                                    [] st.lacks = "admin" -> "forbidden"
                                    [] st.lacks = "body" -> "invalid"
                      /\ Answers(q, answer)
    BY <1>1, <1>11 DEF TurnDown
  <2>4. answer \in {"unauthorized", "forbidden", "invalid"}
    BY <2>2, <2>3 DEF Checks
  <2>5. st.committed = FALSE /\ st.mail = "no"
    BY <1>3, <2>1 DEF Legal, Progress, Said, RequestState
  <2> QED
    BY <1>1, <1>6, <1>8, <1>9, <2>3, <2>4, <2>5 DEF AnswerKinds
<1>12. CASE Search(q)
  <2>1. st.at = "handler" /\ RouteOf(st).does = "search"
    BY <1>1, <1>4, <1>12 DEF Search, Does, At
  <2>2. PICK answer \in {"success", "error"} : Answers(q, answer)
    BY <1>12 DEF Search
  <2>3. st.mail = "no"
    BY <1>3, <2>1 DEF Legal, Progress, Said
  <2> QED
    BY <1>1, <1>6, <1>8, <1>9, <2>1, <2>2, <2>3 DEF AnswerKinds
<1>13. CASE SkipMail(q)
  <2>1. st.at = "mail" /\ st.mail = "no" /\ Answers(q, "success")
    BY <1>1, <1>13 DEF SkipMail, At
  <2>2. st.committed
    BY <1>3, <2>1 DEF Legal, Progress
  <2> QED
    BY <1>1, <1>6, <1>8, <1>9, <2>1, <2>2 DEF AnswerKinds
<1>14. CASE AskMail(q)
  <2> DEFINE new == [st EXCEPT !.mail = "asked"]
  <2>1. st.at = "mail" /\ Becomes(q, new)
    BY <1>1, <1>14 DEF AskMail, At
  <2>2. /\ new \in RequestState /\ new.mail = "asked"
        /\ new.endpoint = st.endpoint /\ new.caller = st.caller /\ new.lacks = st.lacks
        /\ new.at = st.at /\ new.committed = st.committed
        /\ new.answer = st.answer /\ new.entitled = st.entitled
    BY <1>5 DEF RequestState
  <2> HIDE DEF new
  <2>3. RouteOf(new) = RouteOf(st) /\ (TurnedDown(new) <=> TurnedDown(st))
    BY <2>2 DEF RouteOf, TurnedDown
  <2>4. Progress(new) /\ Said(new)
    BY <1>3, <2>1, <2>2, <2>3 DEF Legal, Progress, Said
  <2> QED
    BY <1>1, <1>6, <1>8, <2>1, <2>2, <2>4 DEF Follows, Legal
<1>15. CASE MailAnswered(q) \/ MailFails(q)
  <2>1. PICK outcome \in {"sent", "failed"} :
          Becomes(q, [st EXCEPT !.mail = outcome, !.at = "done", !.answer = "success"])
    BY <1>1, <1>15 DEF MailAnswered, MailFails
  <2> DEFINE new == [st EXCEPT !.mail = outcome, !.at = "done", !.answer = "success"]
  <2>2. st.at = "mail" /\ Becomes(q, new)
    BY <1>1, <1>15, <2>1 DEF MailAnswered, MailFails, At
  <2>3. /\ new \in RequestState /\ new.mail = outcome /\ new.at = "done"
        /\ new.answer = "success"
        /\ new.endpoint = st.endpoint /\ new.caller = st.caller /\ new.lacks = st.lacks
        /\ new.committed = st.committed /\ new.entitled = st.entitled
    BY <1>5 DEF RequestState
  <2> HIDE DEF new
  <2>4. RouteOf(new) = RouteOf(st) /\ (TurnedDown(new) <=> TurnedDown(st))
    BY <2>3 DEF RouteOf, TurnedDown
  <2>5. Progress(new) /\ Said(new)
    BY <1>3, <2>2, <2>3, <2>4 DEF Legal, Progress, Said
  <2> QED
    BY <1>1, <1>6, <1>8, <2>2, <2>3, <2>5 DEF Follows, Legal
<1> QED
  BY <1>10, <1>11, <1>12, <1>13, <1>14, <1>15 DEF Local

LEMMA QueriesFollow ==
    ASSUME RequestsLegal, NEW q \in Requests, Queries(q)
    PROVE  /\ \E new : Becomes(q, new) /\ Follows(new, request[q])
           /\ Connected(q) /\ Releases(q)
           /\ UNCHANGED <<roles, queue>>
<1>1. PICK st : st = request[q]
  OBVIOUS
<1>2. Serving(q)
  BY DEF Queries, CheckService, CheckAccess, Rollback, Read, ReadFails, FindName, FindUser,
     Does, At
<1>3. Legal(st) /\ EntitledWith(st, roles)
  BY <1>1, <1>2 DEF RequestsLegal
<1>4. Route(q) = RouteOf(st)
  BY <1>1, LacksIsTurnedDown
<1>5. RouteOf(st) \in RouteRow /\ st \in RequestState
  BY <1>3, RouteRows DEF Legal
<1>6. Connected(q) /\ Releases(q) /\ UNCHANGED <<roles, queue>>
  BY DEF Queries, CheckService, CheckAccess, Rollback, Read, ReadFails, FindName, FindUser
<1>7. st.at \in {"service", "access", "handler", "find", "name"}
  BY <1>1 DEF Queries, CheckService, CheckAccess, Rollback, Read, ReadFails, FindName,
     FindUser, Does, At
<1>8. st.mail = "no"
  BY <1>3, <1>7 DEF Legal, Said, Progress
<1>9. ASSUME NEW answer \in AnswerKinds, Answers(q, answer),
             \/ RouteOf(st).does # "write"
             \/ st.committed = (answer = "success")
             \/ RouteOf(st).after = "name" /\ answer = "error"
      PROVE  \E new : Becomes(q, new) /\ Follows(new, st)
  <2>1. Follows(AnsweredWith(st, answer), st)
    BY <1>3, <1>7, <1>8, <1>9, AnswerLegal
  <2> QED
    BY <1>1, <1>9, <2>1 DEF Answers, AnsweredWith
<1>10. ASSUME NEW stage \in {"access", "handler", "mail"}, Moves(q, stage),
              stage = "access" => st.at = "service",
              stage = "handler" => st.at = "access" /\ st.entitled,
              stage = "mail" => st.at = "find"
       PROVE  \E new : Becomes(q, new) /\ Follows(new, st)
  <2> DEFINE new == MovedTo(st, stage)
  <2>1. Becomes(q, new)
    BY <1>1, <1>10 DEF Moves, MovedTo
  <2>2. /\ new \in RequestState /\ new.at = stage
        /\ new.endpoint = st.endpoint /\ new.caller = st.caller /\ new.lacks = st.lacks
        /\ new.committed = st.committed /\ new.mail = st.mail
        /\ new.answer = st.answer /\ new.entitled = st.entitled
    BY <1>5, MovesTo DEF SameBut, Stages
  <2> HIDE DEF new
  <2>3. RouteOf(new) = RouteOf(st) /\ (TurnedDown(new) <=> TurnedDown(st))
    BY <2>2 DEF RouteOf, TurnedDown
  <2>4. Progress(new)
    BY <1>3, <1>7, <1>10, <2>2, <2>3 DEF Legal, Progress
  <2>5. Said(new)
    BY <1>3, <1>7, <1>8, <1>10, <2>2, <2>3 DEF Legal, Said
  <2> QED
    BY <2>1, <2>2, <2>4, <2>5 DEF Follows, Legal
<1>11. CASE CheckService(q) \/ CheckAccess(q)
  <2>1. st.at \in {"service", "access"}
    BY <1>1, <1>11 DEF CheckService, CheckAccess, At
  <2>2. ASSUME NEW answer \in {"forbidden", "error"}, Answers(q, answer)
        PROVE  \E new : Becomes(q, new) /\ Follows(new, st)
    <3>1. st.committed = FALSE
      BY <1>3, <2>1 DEF Legal, Progress, RequestState
    <3> QED
      BY <1>9, <2>2, <3>1 DEF AnswerKinds
  <2>3. CASE CheckService(q) /\ Moves(q, "access")
    <3>1. st.at = "service"
      BY <1>1, <2>3 DEF CheckService, At
    <3> QED
      BY <1>1, <1>6, <1>10, <2>3, <3>1
  <2>4. CASE CheckAccess(q) /\ Allows(RouteOf(st), roles[st.caller]) /\ Moves(q, "handler")
    <3>1. st.entitled /\ st.at = "access"
      BY <1>1, <1>3, <2>4 DEF EntitledWith, Entitles, RouteOf, CheckAccess, At
    <3> QED
      BY <1>1, <1>6, <1>10, <2>4, <3>1
  <2> QED
    BY <1>1, <1>4, <1>6, <1>11, <2>2, <2>3, <2>4 DEF CheckService, CheckAccess
<1>12. CASE Rollback(q)
  <2>1. st.at = "handler" /\ Answers(q, "error")
    BY <1>1, <1>12 DEF Rollback, Does, At
  <2>2. st.committed = FALSE
    BY <1>3, <2>1 DEF Legal, Progress, RequestState
  <2> QED
    BY <1>1, <1>6, <1>9, <2>1, <2>2 DEF AnswerKinds
<1>13. CASE Read(q)
  <2>1. st.at = "handler" /\ RouteOf(st).does = "read"
    BY <1>1, <1>4, <1>13 DEF Read, Does, At
  <2>2. CASE Answers(q, "success")
    BY <1>1, <1>6, <1>9, <2>1, <2>2 DEF AnswerKinds
  <2>3. CASE st.queries > 1 /\ Becomes(q, [st EXCEPT !.queries = @ - 1])
    <3> DEFINE new == [st EXCEPT !.queries = @ - 1]
    <3>1. /\ new \in RequestState /\ new.at = st.at
          /\ new.endpoint = st.endpoint /\ new.caller = st.caller /\ new.lacks = st.lacks
          /\ new.committed = st.committed /\ new.mail = st.mail
          /\ new.answer = st.answer /\ new.entitled = st.entitled
      BY <1>5, <2>3 DEF RequestState
    <3>2. Becomes(q, new)
      BY <2>3
    <3> HIDE DEF new
    <3>3. RouteOf(new) = RouteOf(st) /\ (TurnedDown(new) <=> TurnedDown(st))
      BY <3>1 DEF RouteOf, TurnedDown
    <3>4. Progress(new) /\ Said(new)
      BY <1>3, <3>1, <3>3 DEF Legal, Progress, Said
    <3> QED
      BY <1>1, <1>6, <3>1, <3>2, <3>4 DEF Follows, Legal
  <2> QED
    BY <1>1, <1>13, <2>2, <2>3 DEF Read
<1>14. CASE ReadFails(q)
  <2>1. RouteOf(st).does = "read" /\ Answers(q, "error")
    BY <1>1, <1>4, <1>14 DEF ReadFails, Does, At
  <2> QED
    BY <1>1, <1>6, <1>9, <2>1 DEF AnswerKinds
<1>15. CASE FindName(q)
  <2>1. st.at = "name"
    BY <1>1, <1>15 DEF FindName, At
  <2>2. PICK answer \in {"success", "error"} : Answers(q, answer)
    BY <1>15 DEF FindName
  <2>3. st.committed /\ RouteOf(st).after = "name"
    BY <1>3, <2>1 DEF Legal, Progress
  <2> QED
    BY <1>1, <1>6, <1>9, <2>2, <2>3 DEF AnswerKinds
<1>16. CASE FindUser(q)
  <2>1. st.at = "find" /\ st.committed
    BY <1>1, <1>3, <1>16 DEF FindUser, At, Legal, Progress
  <2>2. CASE Answers(q, "success")
    BY <1>1, <1>6, <1>9, <2>1, <2>2 DEF AnswerKinds
  <2>3. CASE Moves(q, "mail")
    BY <1>1, <1>6, <1>10, <2>1, <2>3
  <2> QED
    BY <1>16, <2>2, <2>3 DEF FindUser
<1> QED
  BY <1>11, <1>12, <1>13, <1>14, <1>15, <1>16 DEF Queries

\* A commit moves its own request on; the others may have become entitled.
LEMMA CommitFollows ==
    ASSUME TypeOK, RequestsLegal, NEW q \in Requests, NEW c \in Callers,
           NEW held \in SUBSET Roles, Commit(q, c, held)
    PROVE  /\ \A p \in Requests : Serving(p) =>
                Legal(request'[p]) /\ EntitledWith(request'[p], roles')
           /\ \A p \in Requests \ {q} : Serving(p) =>
                /\ request'[p].at = request[p].at
                /\ request'[p].endpoint = request[p].endpoint
           /\ \A p \in Requests : ~Serving(p) => request'[p] = request[p]
           /\ roles' \in [Callers -> SUBSET Roles]
           /\ request' = [p \in Requests |-> request'[p]]
<1> DEFINE stage == AfterCommit(q)
           row == [request[q] EXCEPT !.committed = TRUE, !.at = stage,
                                     !.answer = IF stage = "done" THEN "success" ELSE @]
<1>1. /\ \A p \in Requests \ {q} : request'[p] =
            IF Serving(p)
            THEN [request[p] EXCEPT !.entitled =
                     @ \/ Entitles(request[p].endpoint, roles'[request[p].caller])]
            ELSE request[p]
      /\ request'[q] = row
      /\ request' = [p \in Requests |-> request'[p]]
  BY DEF Commit
<1>2. roles' \in [Callers -> SUBSET Roles]
  BY DEF Commit, TypeOK
<1>3. PICK st : st = request[q]
  OBVIOUS
<1>4. /\ Serving(q) /\ st.at = "handler" /\ RouteOf(st).does = "write"
      /\ Route(q) = RouteOf(st)
  BY <1>3 DEF Commit, Does, At, Route, RouteOf
<1>5. Legal(st) /\ st \in RequestState /\ RouteOf(st) \in RouteRow
  BY <1>3, <1>4, RouteRows DEF RequestsLegal, Legal
<1>6. Legal(request'[q]) /\ EntitledWith(request'[q], roles')
  <2> DEFINE new == row
  <2>1. stage \in {"done", "mail", "find", "name"} /\ (stage = "name" => RouteOf(st).after = "name")
    BY <1>4, <1>5 DEF AfterCommit, RouteRow
  <2> HIDE DEF stage
  <2>2. PICK answer : answer = IF stage = "done" THEN "success" ELSE st.answer
    OBVIOUS
  <2>3. answer \in {"none", "success", "unauthorized", "forbidden", "invalid", "error"}
    BY <1>5, <2>2 DEF RequestState
  <2>4. new = [st EXCEPT !.committed = TRUE, !.at = stage, !.answer = answer]
    BY <1>3, <2>2
  <2> HIDE DEF new
  <2>5. /\ new \in RequestState /\ new.at = stage /\ new.committed = TRUE
        /\ new.answer = answer
        /\ new.endpoint = st.endpoint /\ new.caller = st.caller /\ new.lacks = st.lacks
        /\ new.mail = st.mail /\ new.entitled = st.entitled
    BY <1>5, <2>1, <2>3, <2>4 DEF RequestState
  <2>6. RouteOf(new) = RouteOf(st) /\ (TurnedDown(new) <=> TurnedDown(st))
    BY <2>5 DEF RouteOf, TurnedDown
  <2>7. Progress(new) /\ Said(new) /\ new.entitled
    BY <1>4, <1>5, <2>1, <2>2, <2>5, <2>6 DEF Legal, Progress, Said
  <2>8. request'[q] = new
    BY <1>1 DEF new
  <2> QED
    BY <2>5, <2>7, <2>8 DEF Legal, EntitledWith
<1>7. ASSUME NEW p \in Requests \ {q}, Serving(p)
      PROVE  /\ Legal(request'[p]) /\ EntitledWith(request'[p], roles')
             /\ request'[p].at = request[p].at
             /\ request'[p].endpoint = request[p].endpoint
  <2>1. PICK old : old = request[p]
    OBVIOUS
  <2>2. PICK now \in BOOLEAN : now = Entitles(old.endpoint, roles'[old.caller])
    <3>1. old \in RequestState
      BY <1>7, <2>1 DEF RequestsLegal, Legal
    <3>2. Entitles(old.endpoint, roles'[old.caller]) \in BOOLEAN
      BY DEF Entitles
    <3> QED
      BY <3>2
  <2> DEFINE new == [old EXCEPT !.entitled = @ \/ now]
  <2>3. request'[p] = new /\ Legal(old)
    BY <1>1, <1>7, <2>1, <2>2 DEF RequestsLegal
  <2>4. /\ new \in RequestState /\ (new.entitled <=> old.entitled \/ now)
        /\ new.endpoint = old.endpoint /\ new.caller = old.caller /\ new.lacks = old.lacks
        /\ new.at = old.at /\ new.committed = old.committed
        /\ new.mail = old.mail /\ new.answer = old.answer
    BY <2>3 DEF Legal, RequestState
  <2> HIDE DEF new
  <2>5. RouteOf(new) = RouteOf(old) /\ (TurnedDown(new) <=> TurnedDown(old))
    BY <2>4 DEF RouteOf, TurnedDown
  <2>6. Legal(new)
    BY <2>3, <2>4, <2>5 DEF Legal, Progress, Said
  <2>7. Entitles(new.endpoint, roles'[new.caller]) => new.entitled
    BY <2>2, <2>4
  <2> QED
    BY <2>1, <2>3, <2>4, <2>6, <2>7 DEF EntitledWith
<1>8. \A p \in Requests : ~Serving(p) => request'[p] = request[p]
  BY <1>1, <1>4
<1> QED
  BY <1>1, <1>2, <1>6, <1>7, <1>8

LEMMA ArriveLegal ==
    ASSUME TypeOK, NEW q \in Requests, NEW e \in Endpoints, NEW c \in Callers,
           NEW lacks \in Checks \union {"nothing", "service"}, Arrive(q, e, c, lacks)
    PROVE  \E new : Becomes(q, new) /\ Legal(new) /\ EntitledWith(new, roles)
<1> DEFINE new == [endpoint |-> e, caller |-> c, lacks |-> lacks, at |-> "checks",
                   queries |-> ApiRouteTable[e].queries, committed |-> FALSE,
                   mail |-> "no", answer |-> "none", entitled |-> Entitles(e, roles[c])]
<1>1. Becomes(q, new)
  BY DEF Arrive, Becomes
<1>2. Entitles(e, roles[c]) \in BOOLEAN
  BY DEF Entitles
<1>3. ApiRouteTable[e].queries \in Nat
  BY EndpointsAssumption, RowsAssumption DEF RouteRow
<1>4. /\ new \in RequestState /\ new.at = "checks" /\ new.committed = FALSE
      /\ new.mail = "no" /\ new.answer = "none"
      /\ new.endpoint = e /\ new.caller = c /\ new.entitled = Entitles(e, roles[c])
  BY <1>2, <1>3 DEF RequestState
<1> HIDE DEF new
<1>5. Progress(new) /\ Said(new)
  BY <1>4 DEF Progress, Said
<1>6. EntitledWith(new, roles)
  BY <1>4 DEF EntitledWith
<1> QED
  BY <1>1, <1>4, <1>5, <1>6 DEF Legal

\* The steps of Next, by what they do.
LEMMA StepsOfNext ==
    Next =>
        \/ \E q \in Requests :
            \/ \E e \in Endpoints, c \in Callers,
                  lacks \in Checks \union {"nothing", "service"} : Arrive(q, e, c, lacks)
            \/ Local(q) \/ Queries(q) \/ Ask(q) \/ Leave(q)
            \/ \E c \in Callers, held \in SUBSET Roles : Commit(q, c, held)
        \/ Grant
        \/ Crash
BY DEF Next, Proceeds, Local, Queries

LEMMA BecomesLegal ==
    ASSUME TypeOK, RequestsLegal, NEW q \in Requests, NEW new, Becomes(q, new),
           new = NoRequest \/ (Legal(new) /\ EntitledWith(new, roles)), roles' = roles
    PROVE  RequestsLegal' /\ request' \in [Requests -> RequestState \union {NoRequest}]
<1>1. \A p \in Requests : request'[p] = IF p = q THEN new ELSE request[p]
  BY DEF TypeOK, Becomes
<1>2. \A p \in Requests : request'[p] # NoRequest =>
          Legal(request'[p]) /\ EntitledWith(request'[p], roles)
  BY <1>1 DEF RequestsLegal, Serving
<1>3. RequestsLegal'
  <2>1. \A p \in Requests : EntitledWith(request'[p], roles) => EntitledWith(request'[p], roles')
    OBVIOUS
  <2> QED
    BY <1>2, <2>1 DEF RequestsLegal, Serving
<1>4. new \in RequestState \union {NoRequest}
  BY DEF Legal
<1> QED
  BY <1>3, <1>4 DEF TypeOK, Becomes

LEMMA NextLegal ==
    ASSUME TypeOK, RequestsLegal, Next
    PROVE  /\ RequestsLegal'
           /\ request' \in [Requests -> RequestState \union {NoRequest}]
           /\ roles' \in [Callers -> SUBSET Roles]
<1>1. ASSUME request' = request, roles' = roles
      PROVE  /\ RequestsLegal'
             /\ request' \in [Requests -> RequestState \union {NoRequest}]
             /\ roles' \in [Callers -> SUBSET Roles]
  BY <1>1 DEF TypeOK, RequestsLegal, Serving
<1>2. ASSUME NEW q \in Requests, NEW new, Becomes(q, new), roles' = roles,
             new = NoRequest \/ (Legal(new) /\ EntitledWith(new, roles))
      PROVE  /\ RequestsLegal'
             /\ request' \in [Requests -> RequestState \union {NoRequest}]
             /\ roles' \in [Callers -> SUBSET Roles]
  BY <1>2, BecomesLegal DEF TypeOK
<1>3. ASSUME NEW q \in Requests, Local(q) \/ Queries(q)
      PROVE  /\ RequestsLegal'
             /\ request' \in [Requests -> RequestState \union {NoRequest}]
             /\ roles' \in [Callers -> SUBSET Roles]
  <2>1. PICK new : Becomes(q, new) /\ Follows(new, request[q])
    BY <1>3, LocalFollows, QueriesFollow
  <2>2. roles' = roles
    BY <1>3, LocalFollows, QueriesFollow
  <2>3. Serving(q)
    BY <1>3 DEF Local, Queries, Pass, TurnDown, Search, SkipMail, AskMail, MailAnswered,
       MailFails, CheckService, CheckAccess, Rollback, Read, ReadFails, FindName, FindUser, Does, At
  <2>4. Legal(new) /\ EntitledWith(new, roles)
    BY <2>1, <2>3 DEF RequestsLegal, Follows, EntitledWith
  <2> QED
    BY <1>2, <2>1, <2>2, <2>4
<1>4. ASSUME NEW q \in Requests, NEW e \in Endpoints, NEW c \in Callers,
             NEW lacks \in Checks \union {"nothing", "service"}, Arrive(q, e, c, lacks)
      PROVE  /\ RequestsLegal'
             /\ request' \in [Requests -> RequestState \union {NoRequest}]
             /\ roles' \in [Callers -> SUBSET Roles]
  <2>1. roles' = roles
    BY <1>4 DEF Arrive
  <2> QED
    BY <1>2, <1>4, <2>1, ArriveLegal
<1>5. ASSUME NEW q \in Requests, NEW c \in Callers, NEW held \in SUBSET Roles,
             Commit(q, c, held)
      PROVE  /\ RequestsLegal'
             /\ request' \in [Requests -> RequestState \union {NoRequest}]
             /\ roles' \in [Callers -> SUBSET Roles]
  <2>1. /\ \A p \in Requests : Serving(p) =>
            Legal(request'[p]) /\ EntitledWith(request'[p], roles')
        /\ \A p \in Requests : ~Serving(p) => request'[p] = request[p]
        /\ roles' \in [Callers -> SUBSET Roles]
        /\ request' = [p \in Requests |-> request'[p]]
    BY <1>5, CommitFollows
  <2>2. RequestsLegal'
    BY <2>1 DEF RequestsLegal, Serving
  <2>3. \A p \in Requests : request'[p] \in RequestState \union {NoRequest}
    BY <2>1 DEF Serving, Legal
  <2> QED
    BY <2>1, <2>2, <2>3
<1>6. ASSUME NEW q \in Requests, Leave(q)
      PROVE  /\ RequestsLegal'
             /\ request' \in [Requests -> RequestState \union {NoRequest}]
             /\ roles' \in [Callers -> SUBSET Roles]
  BY <1>2, <1>6 DEF Leave
<1>7. CASE Crash
  BY <1>7 DEF Crash, RequestsLegal, Serving, TypeOK
<1>8. ASSUME NEW q \in Requests, Ask(q) \/ Grant
      PROVE  request' = request /\ roles' = roles
  BY <1>8 DEF Ask, Grant
<1>9. Grant => request' = request /\ roles' = roles
  BY DEF Grant
<1> QED
  BY <1>1, <1>3, <1>4, <1>5, <1>6, <1>7, <1>8, <1>9, StepsOfNext

-----------------------------------------------------------------------------
(* The connection pool. *)

LEMMA NeedStays ==
    ASSUME NEW p \in Requests, Serving(p)' <=> Serving(p),
           Serving(p) => /\ request'[p].at = request[p].at
                         /\ request'[p].endpoint = request[p].endpoint
    PROVE  NeedsConnection(p)' <=> NeedsConnection(p)
BY DEF NeedsConnection, At, Does, Route, Serving

\* A step of one request that leaves it unconnected, and the queue as it is.
LEMMA PoolStays ==
    ASSUME TypeOK, PoolSound, NEW q \in Requests, ~Waiting(q), queue' = queue,
           holds' \in {holds, [holds EXCEPT ![q] = 0]}, ~Connected(q)',
           \A p \in Requests \ {q} : NeedsConnection(p)' <=> NeedsConnection(p)
    PROVE  PoolSound' /\ holds' \in [Requests -> 0..1]
<1>1. holds' \in [Requests -> 0..1]
  BY DEF TypeOK
<1>2. \A p \in Requests \ {q} : Connected(p)' <=> Connected(p)
  BY DEF TypeOK, Connected
<1>3. Busy' \in SUBSET Busy
  BY <1>2 DEF Busy
<1>4. IsFiniteSet(Busy') /\ Cardinality(Busy') <= Cardinality(Busy)
  BY <1>3, FS_Subset DEF PoolSound
<1>5. Cardinality(Busy) \in Nat /\ Cardinality(Busy') \in Nat
  BY <1>4, FS_CardinalityType DEF PoolSound
<1>6. InUse' <= PoolSize
  BY <1>4, <1>5, PoolAssumption DEF PoolSound, PoolKept, InUse, Busy
<1>7. \A p \in Requests : Waiting(p)' <=> Waiting(p)
  BY DEF Waiting
<1>8. \A p \in Requests : /\ Waiting(p)' => ~Connected(p)'
                          /\ Waiting(p)' \/ Connected(p)' => NeedsConnection(p)'
  BY <1>2, <1>7 DEF PoolSound, PoolKept
<1> QED
  BY <1>1, <1>4, <1>6, <1>8 DEF PoolSound, PoolKept

LEMMA AskPool ==
    ASSUME TypeOK, PoolSound, NEW q \in Requests, Ask(q)
    PROVE  PoolSound' /\ queue' \in Seq(Requests)
<1>1. /\ queue' = Append(queue, q) /\ request' = request /\ holds' = holds
      /\ NeedsConnection(q) /\ ~Connected(q) /\ ~Waiting(q)
  BY DEF Ask
<1>2. /\ queue' \in Seq(Requests) /\ Len(queue') = Len(queue) + 1
      /\ \A i \in 1..Len(queue) : queue'[i] = queue[i]
      /\ queue'[Len(queue) + 1] = q
      /\ Len(queue) \in Nat
  BY <1>1 DEF TypeOK
<1>3. \A i, j \in 1..Len(queue') : queue'[i] = queue'[j] => i = j
  BY <1>1, <1>2 DEF PoolSound, Waiting
<1>4. \A p \in Requests : Waiting(p)' => Waiting(p) \/ p = q
  BY <1>2 DEF Waiting
<1>5. \A p \in Requests : /\ Connected(p)' <=> Connected(p)
                          /\ NeedsConnection(p)' <=> NeedsConnection(p)
  BY <1>1 DEF Connected, NeedsConnection, At, Does, Route, Serving
<1>6. Busy' = Busy /\ InUse' = InUse
  BY <1>1 DEF Busy, InUse, Connected
<1> QED
  BY <1>1, <1>2, <1>3, <1>4, <1>5, <1>6 DEF PoolSound, PoolKept

LEMMA GrantPool ==
    ASSUME TypeOK, PoolSound, Grant
    PROVE  PoolSound' /\ queue' \in Seq(Requests) /\ holds' \in [Requests -> 0..1]
<1>1. PICK q : q = Head(queue)
  OBVIOUS
<1>2. /\ holds' = [holds EXCEPT ![q] = @ + 1] /\ queue' = Tail(queue)
      /\ request' = request /\ queue # <<>> /\ InUse < PoolSize
  BY <1>1 DEF Grant
<1>3. /\ queue' \in Seq(Requests) /\ Len(queue') = Len(queue) - 1 /\ Len(queue) \in Nat \ {0}
      /\ \A i \in 1..Len(queue') : queue'[i] = queue[i + 1]
      /\ q = queue[1] /\ q \in Requests
  BY <1>1, <1>2 DEF TypeOK
<1>4. Waiting(q) /\ ~Connected(q) /\ NeedsConnection(q)
  BY <1>3 DEF Waiting, PoolSound, PoolKept
<1>5. holds[q] = 0 /\ holds'[q] = 1
  BY <1>2, <1>3, <1>4 DEF Connected, TypeOK
<1>6. holds' \in [Requests -> 0..1]
  BY <1>2, <1>3, <1>5 DEF TypeOK
<1>7. \A i, j \in 1..Len(queue') : queue'[i] = queue'[j] => i = j
  <2> SUFFICES ASSUME NEW i \in 1..Len(queue'), NEW j \in 1..Len(queue'),
                      queue'[i] = queue'[j]
               PROVE  i = j
    OBVIOUS
  <2>1. i + 1 \in 1..Len(queue) /\ j + 1 \in 1..Len(queue)
    BY <1>3
  <2>2. i + 1 = j + 1
    BY <1>3, <2>1 DEF PoolSound
  <2> QED
    BY <1>3, <2>2
<1>8. \A p \in Requests : Waiting(p)' => Waiting(p) /\ p # q
  <2> SUFFICES ASSUME NEW p \in Requests, NEW i \in 1..Len(queue'), queue'[i] = p
               PROVE  Waiting(p) /\ p # q
    BY DEF Waiting
  <2>1. i + 1 \in 1..Len(queue) /\ queue[i + 1] = p /\ 1 \in 1..Len(queue) /\ i + 1 # 1
    BY <1>3
  <2> QED
    BY <1>3, <2>1 DEF PoolSound, Waiting
<1>9. \A p \in Requests \ {q} : Connected(p)' <=> Connected(p)
  BY <1>2 DEF Connected, TypeOK
<1>10. \A p \in Requests : NeedsConnection(p)' <=> NeedsConnection(p)
  BY <1>2 DEF NeedsConnection, At, Does, Route, Serving
<1>11. Busy' = Busy \union {q} /\ q \notin Busy
  BY <1>3, <1>4, <1>5, <1>9 DEF Busy, Connected
<1>12. IsFiniteSet(Busy') /\ Cardinality(Busy') = Cardinality(Busy) + 1
  BY <1>11, FS_AddElement DEF PoolSound
<1>13. Cardinality(Busy) \in Nat
  BY FS_CardinalityType DEF PoolSound
<1>14. InUse' <= PoolSize
  BY <1>2, <1>12, <1>13, PoolAssumption DEF InUse, Busy
<1> QED
  BY <1>3, <1>4, <1>6, <1>7, <1>8, <1>9, <1>10, <1>12, <1>14 DEF PoolSound, PoolKept

LEMMA NextPool ==
    ASSUME TypeOK, RequestsLegal, PoolSound, Next
    PROVE  PoolSound' /\ queue' \in Seq(Requests) /\ holds' \in [Requests -> 0..1]
<1>1. ASSUME NEW q \in Requests, NEW new, Becomes(q, new)
      PROVE  \A p \in Requests \ {q} : NeedsConnection(p)' <=> NeedsConnection(p)
  <2>1. \A p \in Requests \ {q} : request'[p] = request[p]
    BY <1>1 DEF Becomes, TypeOK
  <2> QED
    BY <2>1, NeedStays DEF Serving
\* A request that needs no connection has none, and awaits none.
<1>2. ASSUME NEW q \in Requests, NEW new, Becomes(q, new), ~NeedsConnection(q),
             queue' = queue, holds' = holds
      PROVE  PoolSound' /\ queue' \in Seq(Requests) /\ holds' \in [Requests -> 0..1]
  <2>1. ~Waiting(q) /\ ~Connected(q)
    BY <1>2 DEF PoolSound, PoolKept
  <2>2. ~Connected(q)'
    BY <1>2, <2>1 DEF Connected
  <2> QED
    BY <1>1, <1>2, <2>1, <2>2, PoolStays DEF TypeOK
\* One that has a connection awaits none, and gives it back.
<1>3. ASSUME NEW q \in Requests, Connected(q), Releases(q), queue' = queue,
             \A p \in Requests \ {q} : NeedsConnection(p)' <=> NeedsConnection(p)
      PROVE  PoolSound' /\ queue' \in Seq(Requests) /\ holds' \in [Requests -> 0..1]
  <2>1. ~Waiting(q)
    BY <1>3 DEF PoolSound, PoolKept
  <2>2. ~Connected(q)'
    BY <1>3 DEF Connected, Releases, TypeOK
  <2> QED
    BY <1>3, <2>1, <2>2, PoolStays DEF Releases, TypeOK
<1>4. ASSUME NEW q \in Requests, Local(q)
      PROVE  PoolSound' /\ queue' \in Seq(Requests) /\ holds' \in [Requests -> 0..1]
  BY <1>2, <1>4, LocalFollows
<1>5. ASSUME NEW q \in Requests, Queries(q)
      PROVE  PoolSound' /\ queue' \in Seq(Requests) /\ holds' \in [Requests -> 0..1]
  BY <1>1, <1>3, <1>5, QueriesFollow
<1>6. ASSUME NEW q \in Requests, NEW e \in Endpoints, NEW c \in Callers,
             NEW lacks \in Checks \union {"nothing", "service"}, Arrive(q, e, c, lacks)
      PROVE  PoolSound' /\ queue' \in Seq(Requests) /\ holds' \in [Requests -> 0..1]
  <2>1. ~NeedsConnection(q) /\ queue' = queue /\ holds' = holds
    BY <1>6 DEF Arrive, NeedsConnection, At, Does
  <2> QED
    BY <1>2, <1>6, <2>1, ArriveLegal
<1>7. ASSUME NEW q \in Requests, NEW c \in Callers, NEW held \in SUBSET Roles,
             Commit(q, c, held)
      PROVE  PoolSound' /\ queue' \in Seq(Requests) /\ holds' \in [Requests -> 0..1]
  <2>1. Connected(q) /\ Releases(q) /\ queue' = queue
    BY <1>7 DEF Commit
  <2>2. \A p \in Requests \ {q} : Serving(p)' <=> Serving(p)
    BY <1>7, CommitFollows, NoRequestAssumption DEF Serving, Legal
  <2>3. \A p \in Requests \ {q} : NeedsConnection(p)' <=> NeedsConnection(p)
    BY <1>7, <2>2, CommitFollows, NeedStays
  <2> QED
    BY <1>3, <2>1, <2>3
<1>8. ASSUME NEW q \in Requests, Leave(q)
      PROVE  PoolSound' /\ queue' \in Seq(Requests) /\ holds' \in [Requests -> 0..1]
  <2>1. ~NeedsConnection(q) /\ queue' = queue /\ holds' = holds /\ Becomes(q, NoRequest)
    BY <1>8 DEF Leave, NeedsConnection, At, Does
  <2> QED
    BY <1>2, <2>1
<1>9. CASE Crash
  <2>1. queue' = <<>> /\ holds' = [q \in Requests |-> 0]
    BY <1>9 DEF Crash
  <2>2. \A q \in Requests : ~Waiting(q)' /\ ~Connected(q)'
    BY <2>1 DEF Waiting, Connected
  <2>3. Busy' = {} /\ InUse' = Cardinality(Busy')
    BY <2>2 DEF Busy, InUse
  <2> QED
    BY <2>1, <2>2, <2>3, FS_EmptySet, PoolAssumption DEF PoolSound, PoolKept
<1>10. ASSUME NEW q \in Requests, Ask(q)
       PROVE  PoolSound' /\ queue' \in Seq(Requests) /\ holds' \in [Requests -> 0..1]
  BY <1>10, AskPool DEF Ask, TypeOK
<1> QED
  BY <1>4, <1>5, <1>6, <1>7, <1>8, <1>9, <1>10, GrantPool, StepsOfNext

-----------------------------------------------------------------------------
(* Theorems. *)

Sound == TypeOK /\ RequestsLegal /\ PoolSound

\* Requests, queue and connections are what they should be in every reachable
\* state, and each request is as far as what it passed allows.
THEOREM RequestsSound == Spec => []Sound
<1>1. Init => Sound
  <2> SUFFICES ASSUME Init
               PROVE  Sound
    OBVIOUS
  <2>1. TypeOK /\ RequestsLegal
    BY DEF Init, TypeOK, RequestsLegal, Serving
  <2>2. Busy = {} /\ InUse = Cardinality({})
    BY DEF Init, Busy, InUse, Connected
  <2>3. \A q \in Requests : ~Waiting(q) /\ ~Connected(q)
    BY DEF Init, Waiting, Connected
  <2>4. \A i, j \in 1..Len(queue) : queue[i] = queue[j] => i = j
    BY DEF Init
  <2>5. PoolSound
    BY <2>2, <2>3, <2>4, FS_EmptySet, PoolAssumption DEF PoolSound, PoolKept
  <2> QED
    BY <2>1, <2>5 DEF Sound
<1>2. Sound /\ [Next]_vars => Sound'
  <2> SUFFICES ASSUME Sound, [Next]_vars
               PROVE  Sound'
    OBVIOUS
  <2>1. CASE Next
    BY <2>1, NextLegal, NextPool DEF Sound, TypeOK
  <2>2. CASE UNCHANGED vars
    BY <2>2 DEF vars, Sound, TypeOK, RequestsLegal, PoolSound, PoolKept, Busy, InUse,
       Waiting, Connected, NeedsConnection, Does, At, Serving, Route
  <2> QED
    BY <2>1, <2>2
<1> QED
  BY <1>1, <1>2, PTL DEF Spec

\* The pool is never overdrawn, and no request waits for a connection while it
\* holds one, or while it waits for another service: so connections cannot be
\* held in a circle, whatever the size of the pool.
THEOREM PoolNeverOverdrawn == Spec => []PoolKept
<1>1. Sound => PoolKept
  BY DEF Sound, PoolSound
<1> QED
  BY <1>1, RequestsSound, PTL

\* Where a request waits for a connection, one can be handed out, or some request
\* holds one and is about to make the query that gives it back: nobody waits for
\* requests that wait themselves, however small the pool.
NobodyWaitsInVain ==
    (\E q \in Requests : Waiting(q)) =>
        \/ queue # <<>> /\ InUse < PoolSize
        \/ \E p \in Requests : Connected(p) /\ ~Waiting(p) /\ NeedsConnection(p)

THEOREM PoolNeverStuck == Spec => []NobodyWaitsInVain
<1>1. Sound => NobodyWaitsInVain
  <2> SUFFICES ASSUME Sound, NEW q \in Requests, Waiting(q)
               PROVE  \/ queue # <<>> /\ InUse < PoolSize
                      \/ \E p \in Requests : Connected(p) /\ ~Waiting(p) /\ NeedsConnection(p)
    BY DEF NobodyWaitsInVain
  <2>1. queue # <<>>
    BY DEF Waiting, Sound, TypeOK
  <2>2. InUse = Cardinality(Busy) /\ InUse \in Nat
    BY FS_CardinalityType DEF InUse, Busy, Sound, PoolSound
  <2>3. CASE Busy = {}
    BY <2>1, <2>2, <2>3, FS_EmptySet, PoolAssumption
  <2>4. ASSUME NEW p \in Busy
        PROVE  Connected(p) /\ ~Waiting(p) /\ NeedsConnection(p)
    BY <2>4 DEF Busy, Sound, PoolSound, PoolKept
  <2> QED
    BY <2>3, <2>4 DEF Busy
<1> QED
  BY <1>1, RequestsSound, PTL

\* What is written was allowed, on every route of the table, at some moment
\* since the request came.
THEOREM WritesAllowed == Spec => []WrittenAsAllowed
<1>1. Sound => WrittenAsAllowed
  BY LacksIsTurnedDown DEF Sound, RequestsLegal, Legal, Progress, WrittenAsAllowed
<1> QED
  BY <1>1, RequestsSound, PTL

\* An answer tells whether the change was made, unless the name looked up after
\* it failed.
THEOREM AnswersTellOutcome == Spec => []AnswerTellsOutcome
<1>1. Sound => AnswerTellsOutcome
  BY LacksIsTurnedDown DEF Sound, RequestsLegal, Legal, Said, AnswerTellsOutcome, At
<1> QED
  BY <1>1, RequestsSound, PTL

\* Mail is about what is committed, and its failure is not the request's.
THEOREM MailsAfterCommit == Spec => []MailAfterCommit
<1>1. Sound => MailAfterCommit
  BY DEF Sound, RequestsLegal, Legal, Said, MailAfterCommit, At
<1> QED
  BY <1>1, RequestsSound, PTL
====
