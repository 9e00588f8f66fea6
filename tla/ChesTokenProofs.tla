--------------------------- MODULE ChesTokenProofs ---------------------------
(***************************************************************************)
(* Theorems about ChesToken, for any number of mails, any timeout and any  *)
(* lifetimes, if the buffer is at least two timeouts.                      *)
(***************************************************************************)
EXTENDS ChesToken, TLAPS

MailState == [at : Stages, waited : 0..Timeout, valid : Nat, life : Nat,
              cached : BOOLEAN, taken : BOOLEAN]

-----------------------------------------------------------------------------
(* Type correctness. *)

LEMMA IdleType == Idle \in MailState
BY TimesAssumption DEF Idle, MailState, Stages

LEMMA FloorType ==
    ASSUME NEW n \in Int
    PROVE  /\ Floor(n) \in Nat
           /\ Floor(n) >= n
           /\ n > 0 => Floor(n) = n
BY DEF Floor

LEMMA UsableType ==
    ASSUME NEW life \in Nat
    PROVE  /\ Usable(life) \in Nat
           /\ Usable(life) > 0 => Usable(life) = life - Buffer
<1>1. life - Buffer \in Int
  BY TimesAssumption
<1> QED
  BY <1>1, TimesAssumption DEF Usable, Floor

LEMMA NoTokenType == NoToken \in [valid : Nat, usable : Nat]
BY DEF NoToken

LEMMA InitTypeOK == Init => TypeOK
BY IdleType, NoTokenType DEF Init, TypeOK, MailState

\* A mail in flight becomes another state of a mail.
LEMMA BecomesType ==
    ASSUME TypeOK, NEW m \in Mails, NEW state \in MailState, Becomes(m, state)
    PROVE  mail' \in [Mails -> MailState]
BY DEF TypeOK, Becomes, MailState

LEMMA TickType ==
    ASSUME TypeOK, Tick
    PROVE  TypeOK'
<1>1. ASSUME NEW m \in Mails
      PROVE  [mail[m] EXCEPT !.waited = IF Waits(m) THEN @ + 1 ELSE @,
                             !.valid = Floor(@ - 1)] \in MailState
  <2>1. mail[m] \in MailState
    BY DEF TypeOK, MailState
  <2>2. Floor(mail[m].valid - 1) \in Nat
    <3>1. mail[m].valid - 1 \in Int
      BY <2>1 DEF MailState
    <3> QED
      BY <3>1, FloorType
  <2>3. (IF Waits(m) THEN mail[m].waited + 1 ELSE mail[m].waited) \in 0..Timeout
    <3>1. mail[m].waited \in 0..Timeout
      BY <2>1 DEF MailState
    <3>2. CASE Waits(m)
      <4>1. mail[m].waited < Timeout
        BY <3>2 DEF Tick
      <4> QED
        BY <3>1, <3>2, <4>1, TimesAssumption
    <3>3. CASE ~Waits(m)
      BY <3>1, <3>3
    <3> QED
      BY <3>2, <3>3
  <2> QED
    BY <2>1, <2>2, <2>3 DEF MailState
<1>2. cache' \in [valid : Nat, usable : Nat]
  <2>1. cache.valid - 1 \in Int /\ cache.usable - 1 \in Int
    BY DEF TypeOK
  <2>2. Floor(cache.valid - 1) \in Nat /\ Floor(cache.usable - 1) \in Nat
    BY <2>1, FloorType
  <2> QED
    BY <2>2 DEF Tick
<1> QED
  BY <1>1, <1>2 DEF Tick, TypeOK, MailState

LEMMA NextTypeOK == TypeOK /\ [Next]_vars => TypeOK'
<1> SUFFICES ASSUME TypeOK, [Next]_vars PROVE TypeOK'
  OBVIOUS
<1>0. \A m \in Mails : mail[m] \in MailState
  BY DEF TypeOK, MailState
<1>1. ASSUME NEW m \in Mails, SendEmail(m) PROVE TypeOK'
  <2> DEFINE state == IF cache.usable > 0
                      THEN [Idle EXCEPT !.at = "posting", !.valid = cache.valid, !.cached = TRUE]
                      ELSE [Idle EXCEPT !.at = "asking"]
  <2>1. state \in MailState
    BY IdleType DEF MailState, Stages, TypeOK
  <2> QED
    BY <1>1, <2>1, BecomesType DEF SendEmail, TypeOK, MailState
<1>2. ASSUME NEW m \in Mails, NEW life \in Lifetimes, IssueToken(m, life) PROVE TypeOK'
  <2>1. [mail[m] EXCEPT !.at = "issued", !.valid = life, !.life = life] \in MailState
    BY <1>0, TimesAssumption DEF MailState, Stages
  <2> QED
    BY <1>2, <2>1, BecomesType DEF IssueToken, TypeOK, MailState
<1>3. ASSUME NEW m \in Mails, TokenArrives(m) PROVE TypeOK'
  <2>0. 0 \in 0..Timeout
    BY TimesAssumption
  <2>1. [mail[m] EXCEPT !.at = "posting", !.waited = 0] \in MailState
    BY <1>0, <2>0 DEF MailState, Stages
  <2>2. cache' \in [valid : Nat, usable : Nat]
    BY <1>0, <1>3, UsableType DEF TokenArrives, MailState
  <2> QED
    BY <1>3, <2>1, <2>2, BecomesType DEF TokenArrives, TypeOK, MailState
<1>4. ASSUME NEW m \in Mails,
             \/ TokenRefused(m) \/ Answer(m) \/ Refuse(m) \/ TimedOut(m)
             \/ Accept(m) \/ AcceptLate(m)
      PROVE  TypeOK'
  <2>1. \A at \in Stages, taken \in BOOLEAN :
            /\ [mail[m] EXCEPT !.at = at] \in MailState
            /\ [mail[m] EXCEPT !.at = at, !.taken = taken] \in MailState
    BY <1>0 DEF MailState
  <2>2. mail' \in [Mails -> MailState]
    BY <1>4, <2>1, BecomesType
       DEF TokenRefused, Answer, Refuse, TimedOut, Accept, AcceptLate, Stages
  <2>3. cache' \in [valid : Nat, usable : Nat]
    BY <1>4, NoTokenType
       DEF TokenRefused, Answer, Refuse, TimedOut, Accept, AcceptLate, TypeOK
  <2> QED
    BY <2>2, <2>3 DEF TypeOK, MailState
<1>5. ASSUME NEW m \in Mails, Finished(m) PROVE TypeOK'
  BY <1>5, IdleType, BecomesType DEF Finished, TypeOK, MailState
<1>6. ASSUME Restart PROVE TypeOK'
  BY <1>6, IdleType, NoTokenType DEF Restart, TypeOK, MailState
<1>7. CASE UNCHANGED vars
  BY <1>7 DEF vars, TypeOK
<1> QED
  BY <1>1, <1>2, <1>3, <1>4, <1>5, <1>6, <1>7, TickType DEF Next

\* Every mail and the cache keep their form, whatever the services do.
THEOREM TypeCorrect == Spec => []TypeOK
<1>1. TypeOK /\ [Next]_vars => TypeOK'
  BY NextTypeOK
<1> QED
  BY <1>1, InitTypeOK, PTL DEF Spec

-----------------------------------------------------------------------------
(* A cached token outlives its use. *)

\* Whoever asks for a token does not use the cache.
AskersUseOwnToken ==
    \A m \in Mails : mail[m].at \in {"idle", "asking", "issued"} => ~mail[m].cached

\* A token on its way has lost no more validity than its request has waited.
IssuedAges ==
    \A m \in Mails : mail[m].at = "issued" => mail[m].valid + mail[m].waited >= mail[m].life

\* As long as the cache gives a token away it is valid for another timeout.
CacheOutlivesTimeout == cache.usable > 0 => cache.valid >= cache.usable + Timeout

\* A cached token in use is valid for longer than its request may still wait.
UseOutlivesTimeout ==
    \A m \in Mails :
        mail[m].at \in {"posting", "accepted"} /\ mail[m].cached =>
            mail[m].valid + mail[m].waited > Timeout

ValidInv ==
    TypeOK /\ AskersUseOwnToken /\ IssuedAges /\ CacheOutlivesTimeout /\ UseOutlivesTimeout

LEMMA InitValid == Init => ValidInv
BY InitTypeOK
   DEF Init, ValidInv, AskersUseOwnToken, IssuedAges, CacheOutlivesTimeout,
       UseOutlivesTimeout, Idle, NoToken

\* The clock takes as much from a token as it adds to the waiting.
LEMMA TickValid ==
    ASSUME ValidInv, Tick
    PROVE  ValidInv'
<1>1. \A m \in Mails : mail[m] \in MailState
  BY DEF ValidInv, TypeOK, MailState
<1>2. ASSUME NEW m \in Mails
      PROVE  /\ mail'[m].at = mail[m].at
             /\ mail'[m].cached = mail[m].cached
             /\ mail'[m].life = mail[m].life
             /\ mail'[m].valid = Floor(mail[m].valid - 1)
             /\ mail'[m].waited = IF Waits(m) THEN mail[m].waited + 1 ELSE mail[m].waited
  BY <1>1 DEF Tick, MailState
<1>3. AskersUseOwnToken'
  BY <1>2 DEF AskersUseOwnToken, ValidInv
<1>4. IssuedAges'
  <2> SUFFICES ASSUME NEW m \in Mails, mail'[m].at = "issued"
               PROVE  mail'[m].valid + mail'[m].waited >= mail'[m].life
    BY DEF IssuedAges
  <2>1. mail[m].at = "issued" /\ Waits(m)
    BY <1>2 DEF Waits
  <2>2. mail[m].valid + mail[m].waited >= mail[m].life
    BY <2>1 DEF ValidInv, IssuedAges
  <2>3. mail[m].valid \in Nat /\ mail[m].waited \in Nat /\ mail[m].life \in Nat
    BY <1>1, TimesAssumption DEF MailState
  <2>4. Floor(mail[m].valid - 1) \in Nat /\ Floor(mail[m].valid - 1) >= mail[m].valid - 1
    <3>1. mail[m].valid - 1 \in Int
      BY <2>3
    <3> QED
      BY <3>1, FloorType
  <2> QED
    BY <1>2, <2>1, <2>2, <2>3, <2>4
<1>5. CacheOutlivesTimeout'
  <2>1. cache.valid \in Nat /\ cache.usable \in Nat
    BY DEF ValidInv, TypeOK
  <2>2. cache'.valid = Floor(cache.valid - 1) /\ cache'.usable = Floor(cache.usable - 1)
    BY DEF Tick
  <2> QED
    BY <2>1, <2>2, TimesAssumption DEF ValidInv, CacheOutlivesTimeout, Floor
<1>6. UseOutlivesTimeout'
  <2> SUFFICES ASSUME NEW m \in Mails, mail'[m].at \in {"posting", "accepted"}, mail'[m].cached
               PROVE  mail'[m].valid + mail'[m].waited > Timeout
    BY DEF UseOutlivesTimeout
  <2>1. mail[m].at \in {"posting", "accepted"} /\ mail[m].cached /\ Waits(m)
    BY <1>2 DEF Waits
  <2>2. mail[m].valid + mail[m].waited > Timeout
    BY <2>1 DEF ValidInv, UseOutlivesTimeout
  <2>3. mail[m].waited < Timeout
    BY <2>1 DEF Tick
  <2>4. mail[m].valid \in Nat /\ mail[m].waited \in Nat
    BY <1>1, TimesAssumption DEF MailState
  <2>5. Floor(mail[m].valid - 1) \in Nat /\ Floor(mail[m].valid - 1) >= mail[m].valid - 1
    <3>1. mail[m].valid - 1 \in Int
      BY <2>4
    <3> QED
      BY <3>1, FloorType
  <2> QED
    BY <1>2, <2>1, <2>2, <2>3, <2>4, <2>5, TimesAssumption
<1>7. TypeOK'
  BY TickType DEF ValidInv
<1> QED
  BY <1>3, <1>4, <1>5, <1>6, <1>7 DEF ValidInv

LEMMA NextValid == ValidInv /\ [Next]_vars => ValidInv'
<1> SUFFICES ASSUME ValidInv, [Next]_vars PROVE ValidInv'
  OBVIOUS
<1> USE DEF AskersUseOwnToken, IssuedAges, CacheOutlivesTimeout, UseOutlivesTimeout
<1>t. TypeOK'
  BY NextTypeOK DEF ValidInv
<1>0. \A m \in Mails : mail[m] \in MailState
  BY DEF ValidInv, TypeOK, MailState
<1>c. cache.valid \in Nat /\ cache.usable \in Nat
  BY DEF ValidInv, TypeOK
<1>d. DOMAIN mail = Mails
  BY DEF ValidInv, TypeOK
<1>1. ASSUME NEW m \in Mails, SendEmail(m) PROVE ValidInv'
  <2>1. CASE cache.usable > 0
    <3>1. mail' = [mail EXCEPT ![m] = [Idle EXCEPT !.at = "posting", !.valid = cache.valid,
                                                   !.cached = TRUE]]
      BY <1>1, <2>1 DEF SendEmail, Becomes
    <3>2. cache.valid > Timeout
      BY <1>c, <2>1, TimesAssumption DEF ValidInv
    <3> QED
      BY <1>1, <1>d, <1>c, <3>1, <3>2, <1>t, TimesAssumption DEF SendEmail, ValidInv, Idle
  <2>2. CASE ~(cache.usable > 0)
    <3>1. mail' = [mail EXCEPT ![m] = [Idle EXCEPT !.at = "asking"]]
      BY <1>1, <2>2 DEF SendEmail, Becomes
    <3> QED
      BY <1>1, <1>d, <3>1, <1>t DEF SendEmail, ValidInv, Idle
  <2> QED
    BY <2>1, <2>2
<1>2. ASSUME NEW m \in Mails, NEW life \in Lifetimes, IssueToken(m, life) PROVE ValidInv'
  <2>1. mail[m].waited \in Nat /\ life \in Nat
    BY <1>0, TimesAssumption DEF MailState
  <2> QED
    BY <1>2, <1>0, <1>d, <2>1, <1>t DEF IssueToken, Becomes, ValidInv, MailState
<1>3. ASSUME NEW m \in Mails, TokenArrives(m) PROVE ValidInv'
  <2>1. /\ mail[m].valid \in Nat /\ mail[m].life \in Nat
        /\ mail[m].waited \in 0..Timeout
        /\ mail[m].valid + mail[m].waited >= mail[m].life
    BY <1>3, <1>0 DEF TokenArrives, ValidInv, MailState
  <2>2. cache'.valid = mail[m].valid /\ cache'.usable = Usable(mail[m].life)
    BY <1>3 DEF TokenArrives
  <2>3. CacheOutlivesTimeout'
    BY <2>1, <2>2, UsableType, TimesAssumption
  <2> QED
    BY <1>3, <1>0, <1>d, <2>3, <1>t DEF TokenArrives, Becomes, ValidInv, MailState
<1>4. ASSUME NEW m \in Mails,
             TokenRefused(m) \/ Answer(m) \/ Refuse(m) \/ TimedOut(m)
      PROVE  ValidInv'
  <2>1. PICK at \in {"failed", "sent", "abandoned"} :
            mail' = [mail EXCEPT ![m] = [mail[m] EXCEPT !.at = at]]
    BY <1>4, <1>d DEF TokenRefused, Answer, Refuse, TimedOut, Becomes
  <2>2. cache' = cache \/ cache' = NoToken
    BY <1>4 DEF TokenRefused, Answer, Refuse, TimedOut
  <2> QED
    BY <1>0, <1>d, <2>1, <2>2, <1>t DEF ValidInv, MailState, NoToken
<1>5. ASSUME NEW m \in Mails, Accept(m) \/ AcceptLate(m) PROVE ValidInv'
  <2>1. CASE Accept(m)
    BY <2>1, <1>0, <1>d, <1>t DEF Accept, Becomes, ValidInv, MailState
  <2>2. CASE AcceptLate(m)
    BY <2>2, <1>0, <1>d, <1>t DEF AcceptLate, Becomes, ValidInv, MailState
  <2> QED
    BY <1>5, <2>1, <2>2
<1>6. ASSUME NEW m \in Mails, Finished(m) PROVE ValidInv'
  BY <1>6, <1>d, <1>t DEF Finished, Becomes, ValidInv, Idle
<1>7. ASSUME Restart PROVE ValidInv'
  BY <1>7, <1>t DEF Restart, ValidInv, Idle, NoToken
<1>8. CASE UNCHANGED vars
  BY <1>8, <1>t DEF vars, ValidInv
<1> QED
  BY <1>1, <1>2, <1>3, <1>4, <1>5, <1>6, <1>7, <1>8, TickValid DEF Next

\* A token taken from the cache is valid until the request it is used for has
\* ended: the buffer of ches.service.ts covers the way of the token to the
\* client and the request it is used for.
THEOREM CachedTokenIsValid == Spec => []CachedTokenValid
<1>1. ValidInv => CachedTokenValid
  <2> SUFFICES ASSUME ValidInv, NEW m \in Mails,
                      mail[m].at \in {"posting", "accepted"}, mail[m].cached
               PROVE  mail[m].valid > 0
    BY DEF CachedTokenValid
  <2>1. mail[m].valid \in Nat /\ mail[m].waited \in 0..Timeout
    BY DEF ValidInv, TypeOK
  <2> QED
    BY <2>1, TimesAssumption DEF ValidInv, UseOutlivesTimeout
<1>2. ValidInv /\ [Next]_vars => ValidInv'
  BY NextValid
<1> QED
  BY <1>1, <1>2, InitValid, PTL DEF Spec

-----------------------------------------------------------------------------
(* The client is a mail sender: every step is one of MailSend or none. *)

\* CHES has the mail exactly where the client may report so.
TakenWhenAccepted ==
    \A m \in Mails :
        /\ mail[m].at \in {"idle", "asking", "issued", "posting", "abandoned"} => ~mail[m].taken
        /\ mail[m].at \in {"accepted", "sent"} => mail[m].taken

SendInv == TypeOK /\ TakenWhenAccepted

\* What a step of one mail does to phase and taken.
Phase == [m \in Mails |-> PhaseOf(m)]
Taken == [m \in Mails |-> mail[m].taken]
PhaseAt(at) ==
    CASE at \in {"asking", "issued", "posting", "accepted"} -> "sending"
      [] at = "abandoned" -> "failed"
      [] OTHER -> at

LEMMA OneMailMoves ==
    ASSUME TypeOK, NEW m \in Mails, NEW state \in MailState, Becomes(m, state)
    PROVE  /\ Phase' = [Phase EXCEPT ![m] = PhaseAt(state.at)]
           /\ Taken' = [Taken EXCEPT ![m] = state.taken]
BY DEF TypeOK, Becomes, PhaseOf, Waits, Phase, Taken, PhaseAt

LEMMA InitSends == Init => SendInv /\ Sender!Init
BY InitTypeOK
   DEF Init, SendInv, TakenWhenAccepted, Idle, Sender!Init, PhaseOf, Waits

\* A step of one mail keeps the invariant if the mail's new state does.
LEMMA OneMailKeepsTaken ==
    ASSUME SendInv, NEW m \in Mails, NEW state, Becomes(m, state),
           state.at \in {"idle", "asking", "issued", "posting", "abandoned"} => ~state.taken,
           state.at \in {"accepted", "sent"} => state.taken
    PROVE  TakenWhenAccepted'
BY DEF SendInv, TypeOK, TakenWhenAccepted, Becomes

LEMMA NextSends ==
    SendInv /\ [Next]_vars => SendInv' /\ [Sender!Next]_(Sender!vars)
<1> SUFFICES ASSUME SendInv, [Next]_vars
             PROVE  TakenWhenAccepted' /\ [Sender!Next]_(Sender!vars)
  BY NextTypeOK DEF SendInv
<1> USE DEF Sender!Next, Sender!vars
<1>0. TypeOK /\ \A m \in Mails : mail[m] \in MailState
  BY DEF SendInv, TypeOK, MailState
<1>1. ASSUME NEW m \in Mails, SendEmail(m)
      PROVE  TakenWhenAccepted' /\ Sender!Send(m)
  <2> DEFINE state == IF cache.usable > 0
                      THEN [Idle EXCEPT !.at = "posting", !.valid = cache.valid, !.cached = TRUE]
                      ELSE [Idle EXCEPT !.at = "asking"]
  <2>1. /\ state \in MailState /\ state.at \in {"posting", "asking"} /\ ~state.taken
        /\ Becomes(m, state) /\ mail[m].at = "idle" /\ mail[m].taken = FALSE
    BY <1>0, <1>1, IdleType DEF SendEmail, SendInv, TakenWhenAccepted, TypeOK, MailState,
       Stages, Idle
  <2> HIDE DEF state
  <2>2. TakenWhenAccepted'
    BY <2>1, OneMailKeepsTaken
  <2>3. /\ Phase' = [Phase EXCEPT ![m] = "sending"]
        /\ Taken' = [Taken EXCEPT ![m] = FALSE]
    BY <1>0, <2>1, OneMailMoves DEF PhaseAt
  <2>4. Taken' = Taken
    BY <2>1, <2>3 DEF Taken
  <2> QED
    BY <2>1, <2>2, <2>3, <2>4 DEF Sender!Send, Phase, Taken, PhaseOf, Waits
\* A token comes, or is on its way: no change that the caller sees.
<1>2. ASSUME NEW m \in Mails, (\E life \in Lifetimes : IssueToken(m, life)) \/ TokenArrives(m)
      PROVE  TakenWhenAccepted' /\ UNCHANGED Sender!vars
  <2>1. PICK state \in MailState :
            /\ Becomes(m, state) /\ state.at \in {"issued", "posting"} /\ ~state.taken
            /\ Waits(m) /\ mail[m].taken = FALSE /\ state.taken = FALSE
    <3>1. 0 \in 0..Timeout
      BY TimesAssumption
    <3>2. ASSUME NEW life \in Lifetimes, IssueToken(m, life)
          PROVE  \E state \in MailState :
                    /\ Becomes(m, state) /\ state.at = "issued" /\ state.taken = FALSE
                    /\ mail[m].at = "asking" /\ mail[m].taken = FALSE
      <4> DEFINE state == [mail[m] EXCEPT !.at = "issued", !.valid = life, !.life = life]
      <4>1. /\ state \in MailState /\ state.at = "issued"
            /\ Becomes(m, state) /\ mail[m].at = "asking"
        BY <1>0, <3>2, TimesAssumption DEF IssueToken, MailState, Stages
      <4>2. mail[m].taken = FALSE /\ state.taken = mail[m].taken
        BY <1>0, <4>1 DEF MailState, SendInv, TakenWhenAccepted
      <4> QED
        BY <4>1, <4>2
    <3>3. ASSUME TokenArrives(m)
          PROVE  \E state \in MailState :
                    /\ Becomes(m, state) /\ state.at = "posting" /\ state.taken = FALSE
                    /\ mail[m].at = "issued" /\ mail[m].taken = FALSE
      <4> DEFINE state == [mail[m] EXCEPT !.at = "posting", !.waited = 0]
      <4>1. /\ state \in MailState /\ state.at = "posting"
            /\ Becomes(m, state) /\ mail[m].at = "issued"
        BY <1>0, <3>1, <3>3 DEF TokenArrives, MailState, Stages
      <4>2. mail[m].taken = FALSE /\ state.taken = mail[m].taken
        BY <1>0, <4>1 DEF MailState, SendInv, TakenWhenAccepted
      <4> QED
        BY <4>1, <4>2
    <3> QED
      BY <1>2, <3>2, <3>3 DEF Waits
  <2>2. TakenWhenAccepted'
    BY <2>1, OneMailKeepsTaken
  <2>3. /\ Phase' = [Phase EXCEPT ![m] = "sending"]
        /\ Taken' = [Taken EXCEPT ![m] = FALSE]
    BY <1>0, <2>1, OneMailMoves DEF PhaseAt
  <2>4. Phase' = Phase /\ Taken' = Taken
    BY <2>1, <2>3 DEF Phase, Taken, PhaseOf, Waits
  <2> QED
    BY <2>2, <2>4 DEF Phase, Taken
\* A request ends, and the caller is told sent or failed.
<1>3. ASSUME NEW m \in Mails, TokenRefused(m) \/ Answer(m) \/ Refuse(m) \/ TimedOut(m)
      PROVE  TakenWhenAccepted' /\ Sender!Finish(m)
  <2>1. PICK at \in {"failed", "sent", "abandoned"} :
            /\ Becomes(m, [mail[m] EXCEPT !.at = at])
            /\ Waits(m)
            /\ at = "sent" => mail[m].at = "accepted"
            /\ at = "abandoned" => mail[m].at = "posting"
    <3> DEFINE Ends(at) ==
            /\ Becomes(m, [mail[m] EXCEPT !.at = at])
            /\ Waits(m)
            /\ at = "sent" => mail[m].at = "accepted"
            /\ at = "abandoned" => mail[m].at = "posting"
    <3>1. CASE TokenRefused(m) \/ Refuse(m)
      <4>1. Ends("failed")
        BY <3>1 DEF TokenRefused, Refuse, Waits
      <4> QED
        BY <4>1
    <3>2. CASE Answer(m)
      <4>1. Ends("sent")
        BY <3>2 DEF Answer, Waits
      <4> QED
        BY <4>1
    <3>3. CASE TimedOut(m)
      <4>1. CASE mail[m].at = "posting"
        <5>1. Ends("abandoned")
          BY <3>3, <4>1 DEF TimedOut, Waits
        <5> QED
          BY <5>1
      <4>2. CASE mail[m].at # "posting"
        <5>1. Ends("failed")
          BY <3>3, <4>2 DEF TimedOut, Waits
        <5> QED
          BY <5>1
      <4> QED
        BY <4>1, <4>2
    <3> QED
      BY <1>3, <3>1, <3>2, <3>3
  <2> DEFINE state == [mail[m] EXCEPT !.at = at]
  <2>2. /\ state \in MailState /\ state.at = at /\ state.taken = mail[m].taken
        /\ at = "sent" => mail[m].taken
        /\ at = "abandoned" => ~mail[m].taken
    BY <1>0, <2>1 DEF MailState, Stages, SendInv, TakenWhenAccepted
  <2>3. TakenWhenAccepted'
    BY <2>1, <2>2, OneMailKeepsTaken
  <2>4. /\ Phase' = [Phase EXCEPT ![m] = IF at = "sent" THEN "sent" ELSE "failed"]
        /\ Taken' = [Taken EXCEPT ![m] = mail[m].taken]
    <3>1. /\ Phase' = [Phase EXCEPT ![m] = PhaseAt(state.at)]
          /\ Taken' = [Taken EXCEPT ![m] = state.taken]
      BY <1>0, <2>1, <2>2, OneMailMoves
    <3>2. PhaseAt(state.at) = IF at = "sent" THEN "sent" ELSE "failed"
      BY <2>2 DEF PhaseAt
    <3> QED
      BY <2>2, <3>1, <3>2
  <2>5. Taken' = Taken
    BY <2>4 DEF Taken
  <2> QED
    <3>1. Phase[m] = "sending"
      BY <2>1 DEF Phase, PhaseOf, Waits
    <3>2. at = "sent" => Taken[m]
      BY <2>2 DEF Taken
    <3>3. \E outcome \in {"failed"} \union (IF Taken[m] THEN {"sent"} ELSE {}) :
              Phase' = [Phase EXCEPT ![m] = outcome]
      BY <2>4, <3>2
    <3> QED
      BY <2>3, <2>5, <3>1, <3>3 DEF Sender!Finish, Phase, Taken
\* CHES takes the mail, in time or late.
<1>4. ASSUME NEW m \in Mails, Accept(m) \/ AcceptLate(m)
      PROVE  TakenWhenAccepted' /\ Sender!Take(m)
  <2>1. PICK at \in {"accepted", "failed"} :
            /\ Becomes(m, [mail[m] EXCEPT !.at = at, !.taken = TRUE])
            /\ at = "accepted" => mail[m].at = "posting"
            /\ at = "failed" => mail[m].at = "abandoned"
    <3> DEFINE Takes(at, before) ==
            /\ Becomes(m, [mail[m] EXCEPT !.at = at, !.taken = TRUE])
            /\ mail[m].at = before
    <3>1. CASE Accept(m)
      <4>1. Takes("accepted", "posting")
        BY <3>1 DEF Accept
      <4> QED
        BY <4>1
    <3>2. CASE AcceptLate(m)
      <4>1. Takes("failed", "abandoned")
        BY <3>2 DEF AcceptLate
      <4> QED
        BY <4>1
    <3> QED
      BY <1>4, <3>1, <3>2
  <2> DEFINE state == [mail[m] EXCEPT !.at = at, !.taken = TRUE]
  <2>2. state \in MailState /\ state.at = at /\ state.taken = TRUE /\ ~mail[m].taken
    BY <1>0, <2>1 DEF MailState, Stages, SendInv, TakenWhenAccepted
  <2>3. TakenWhenAccepted'
    BY <2>1, <2>2, OneMailKeepsTaken
  <2>4. /\ Phase' = [Phase EXCEPT ![m] = IF at = "accepted" THEN "sending" ELSE "failed"]
        /\ Taken' = [Taken EXCEPT ![m] = TRUE]
    <3>1. /\ Phase' = [Phase EXCEPT ![m] = PhaseAt(state.at)]
          /\ Taken' = [Taken EXCEPT ![m] = state.taken]
      BY <1>0, <2>1, <2>2, OneMailMoves
    <3>2. PhaseAt(state.at) = IF at = "accepted" THEN "sending" ELSE "failed"
      BY <2>2 DEF PhaseAt
    <3> QED
      BY <2>2, <3>1, <3>2
  <2>5. Phase' = Phase
    BY <2>1, <2>4 DEF Phase, PhaseOf, Waits
  <2> QED
    <3>1. Phase[m] \in {"sending", "failed"}
      BY <2>1 DEF Phase, PhaseOf, Waits
    <3>2. ~Taken[m]
      BY <2>2 DEF Taken
    <3> QED
      BY <2>3, <2>4, <2>5, <3>1, <3>2 DEF Sender!Take, Phase, Taken
<1>5. ASSUME NEW m \in Mails, Finished(m)
      PROVE  TakenWhenAccepted' /\ Sender!Forget(m)
  <2>1. Becomes(m, Idle) /\ Idle.at = "idle" /\ Idle.taken = FALSE
    BY <1>5 DEF Finished, Idle
  <2>2. TakenWhenAccepted'
    BY <2>1, OneMailKeepsTaken
  <2>3. /\ Phase' = [Phase EXCEPT ![m] = "idle"]
        /\ Taken' = [Taken EXCEPT ![m] = FALSE]
    BY <1>0, <2>1, IdleType, OneMailMoves DEF PhaseAt
  <2> QED
    BY <1>5, <2>2, <2>3 DEF Sender!Forget, Finished, Phase, Taken, PhaseOf, Waits
<1>6. ASSUME Tick PROVE TakenWhenAccepted' /\ UNCHANGED Sender!vars
  <2>1. \A m \in Mails : mail'[m].at = mail[m].at /\ mail'[m].taken = mail[m].taken
    BY <1>0, <1>6 DEF Tick, MailState
  <2> QED
    BY <2>1 DEF TakenWhenAccepted, SendInv, PhaseOf, Waits
<1>7. ASSUME Restart PROVE TakenWhenAccepted' /\ Sender!Stop
  BY <1>7 DEF Restart, Idle, TakenWhenAccepted, Sender!Stop, PhaseOf, Waits
<1>8. CASE UNCHANGED vars
  BY <1>8 DEF vars, TakenWhenAccepted, SendInv, PhaseOf, Waits
<1> QED
  BY <1>1, <1>2, <1>3, <1>4, <1>5, <1>6, <1>7, <1>8 DEF Next

\* The safety of MailSend, by refinement: nothing is taken twice, a mail is
\* reported sent only if CHES took it, and a failure may hide a mail that was
\* taken.
THEOREM SendsSafely == Spec => Sender!Init /\ [][Sender!Next]_(Sender!vars)
<1>1. SendInv /\ [Next]_vars => SendInv' /\ [Sender!Next]_(Sender!vars)
  BY NextSends
<1> QED
  BY <1>1, InitSends, PTL DEF Spec
=============================================================================
