------------------------------- MODULE ChesToken -------------------------------
(***************************************************************************)
(* The CHES client: one access token cached for all the mails that are     *)
(* sent at the same time, the requests for a token and for a mail, each    *)
(* with a timeout, and the two services that answer them, late or never.   *)
(*                                                                         *)
(* Times are relative, so that the states do not grow with the clock: how  *)
(* long a token is still valid, for how long it may still be used from the *)
(* cache, how long a request has been waiting.  A token is only told apart *)
(* by its validity.                                                        *)
(***************************************************************************)
EXTENDS Integers

CONSTANTS
    Mails,      \* the mails that can be on their way at the same time
    Timeout,    \* REQUEST_TIMEOUT_MS
    Buffer,     \* TOKEN_EXPIRY_BUFFER_MS
    Lifetimes   \* the values of expires_in

ASSUME TimesAssumption ==
    /\ Timeout \in Nat \ {0}
    /\ Buffer \in Nat
    /\ 2 * Timeout <= Buffer
    /\ Lifetimes \subseteq Nat

VARIABLES
    mail,   \* by mail: how far it is
    cache   \* the cached token: how long it is valid, for how long it is used

vars == <<mail, cache>>

NoToken == [valid |-> 0, usable |-> 0]
Idle == [at |-> "idle", waited |-> 0, valid |-> 0, life |-> 0,
         cached |-> FALSE, taken |-> FALSE]

\* "issued": the token is on its way back; "accepted": CHES took the mail and
\* its answer is on its way; "abandoned": CHES may still take it.  life: what
\* expires_in says; cached: the token is from the cache.
Stages == {"idle", "asking", "issued", "posting", "accepted", "sent", "failed", "abandoned"}
Waits(m) == mail[m].at \in {"asking", "issued", "posting", "accepted"}

TypeOK ==
    /\ mail \in [Mails -> [at : Stages, waited : 0..Timeout, valid : Nat, life : Nat,
                           cached : BOOLEAN, taken : BOOLEAN]]
    /\ cache \in [valid : Nat, usable : Nat]

-----------------------------------------------------------------------------

Becomes(m, fields) == mail' = [mail EXCEPT ![m] = fields]
Floor(n) == IF n > 0 THEN n ELSE 0

\* sendEmail: a cached token is used until its time is over, and checked by
\* nobody between here and CHES.
SendEmail(m) ==
    /\ mail[m].at = "idle"
    /\ Becomes(m, IF cache.usable > 0
                  THEN [Idle EXCEPT !.at = "posting", !.valid = cache.valid, !.cached = TRUE]
                  ELSE [Idle EXCEPT !.at = "asking"])
    /\ UNCHANGED cache

\* getToken: the token's lifetime starts at the service, before it arrives.
IssueToken(m, life) ==
    /\ mail[m].at = "asking"
    /\ Becomes(m, [mail[m] EXCEPT !.at = "issued", !.valid = life, !.life = life])
    /\ UNCHANGED cache

UsableWithoutBuffer(life) == life
Usable(life) == Floor(life - Buffer)

\* Requests that found nothing in the cache each ask, and each write it.
TokenArrives(m) ==
    /\ mail[m].at = "issued"
    /\ Becomes(m, [mail[m] EXCEPT !.at = "posting", !.waited = 0])
    /\ cache' = [valid |-> mail[m].valid, usable |-> Usable(mail[m].life)]

\* A failure empties the cache, whoever has filled it.
TokenRefused(m) ==
    /\ mail[m].at \in {"asking", "issued"}
    /\ Becomes(m, [mail[m] EXCEPT !.at = "failed"])
    /\ cache' = NoToken

Accept(m) ==
    /\ mail[m].at = "posting"
    /\ mail[m].valid > 0
    /\ Becomes(m, [mail[m] EXCEPT !.at = "accepted", !.taken = TRUE])
    /\ UNCHANGED cache

Answer(m) ==
    /\ mail[m].at = "accepted"
    /\ Becomes(m, [mail[m] EXCEPT !.at = "sent"])
    /\ UNCHANGED cache

\* CHES refuses, or the connection breaks.
Refuse(m) ==
    /\ mail[m].at \in {"posting", "accepted"}
    /\ Becomes(m, [mail[m] EXCEPT !.at = "failed"])
    /\ UNCHANGED cache

TimedOutForTokens(m) ==
    /\ mail[m].at \in {"asking", "issued"}
    /\ mail[m].waited = Timeout
    /\ Becomes(m, [mail[m] EXCEPT !.at = "failed"])
    /\ cache' = NoToken
TimedOut(m) ==
    /\ Waits(m)
    /\ mail[m].waited = Timeout
    /\ Becomes(m, [mail[m] EXCEPT !.at = IF @ = "posting" THEN "abandoned" ELSE "failed"])
    /\ cache' = IF mail[m].at \in {"asking", "issued"} THEN NoToken ELSE cache

\* CHES takes a mail whose sender has given up.
AcceptLate(m) ==
    /\ mail[m].at = "abandoned"
    /\ mail[m].valid > 0
    /\ Becomes(m, [mail[m] EXCEPT !.at = "failed", !.taken = TRUE])
    /\ UNCHANGED cache

\* The caller logs the outcome; the next mail takes the place of this one.
Finished(m) ==
    /\ mail[m].at \in {"sent", "failed", "abandoned"}
    /\ Becomes(m, Idle)
    /\ UNCHANGED cache

\* The clock moves on; no request waits longer than its timeout.
Tick ==
    /\ \A m \in Mails : Waits(m) => mail[m].waited < Timeout
    /\ mail' = [m \in Mails |->
           [mail[m] EXCEPT !.waited = IF Waits(m) THEN @ + 1 ELSE @,
                           !.valid = Floor(@ - 1)]]
    /\ cache' = [valid |-> Floor(cache.valid - 1), usable |-> Floor(cache.usable - 1)]

\* The process restarts, with an empty cache.
Restart ==
    /\ mail' = [m \in Mails |-> Idle]
    /\ cache' = NoToken

Init ==
    /\ mail = [m \in Mails |-> Idle]
    /\ cache = NoToken

Next ==
    \/ \E m \in Mails :
        \/ SendEmail(m)
        \/ \E life \in Lifetimes : IssueToken(m, life)
        \/ TokenArrives(m) \/ TokenRefused(m)
        \/ Accept(m) \/ Answer(m) \/ Refuse(m)
        \/ TimedOut(m) \/ AcceptLate(m) \/ Finished(m)
    \/ Tick
    \/ Restart

\* Time passes and the timers fire; nothing is assumed of the two services.
Spec ==
    /\ Init /\ [][Next]_vars
    /\ WF_vars(Tick)
    /\ \A m \in Mails : WF_vars(TimedOut(m))

-----------------------------------------------------------------------------
(* Properties. *)

\* A token used from the cache is valid until the request it is used for has
\* been answered or given up: the buffer covers the time the token took to
\* arrive and the time of the request.
CachedTokenValid ==
    \A m \in Mails :
        mail[m].at \in {"posting", "accepted"} /\ mail[m].cached => mail[m].valid > 0

\* The client is a mail sender: nothing is sent twice by it, nothing is reported
\* sent that CHES did not take, and every send ends, whatever the services do.
PhaseOf(m) ==
    CASE Waits(m) -> "sending"
      [] mail[m].at = "abandoned" -> "failed"
      [] OTHER -> mail[m].at
Sender == INSTANCE MailSend WITH
    phase <- [m \in Mails |-> PhaseOf(m)],
    taken <- [m \in Mails |-> mail[m].taken]
SendsMail == Sender!Spec
=============================================================================
