------------------------------- MODULE MailSend -------------------------------
(***************************************************************************)
(* What a caller of the CHES client may rely on: a mail is taken by CHES   *)
(* at most once, it is reported sent only if CHES took it, and every send  *)
(* ends.  A mail reported as failed may have been taken nevertheless.      *)
(***************************************************************************)
CONSTANT Mails

VARIABLES phase, taken
vars == <<phase, taken>>

Init ==
    /\ phase = [m \in Mails |-> "idle"]
    /\ taken = [m \in Mails |-> FALSE]

Send(m) ==
    /\ phase[m] = "idle"
    /\ phase' = [phase EXCEPT ![m] = "sending"]
    /\ UNCHANGED taken

Take(m) ==
    /\ phase[m] \in {"sending", "failed"}
    /\ ~taken[m]
    /\ taken' = [taken EXCEPT ![m] = TRUE]
    /\ UNCHANGED phase

Finish(m) ==
    /\ phase[m] = "sending"
    /\ \E outcome \in {"failed"} \union (IF taken[m] THEN {"sent"} ELSE {}) :
           phase' = [phase EXCEPT ![m] = outcome]
    /\ UNCHANGED taken

Forget(m) ==
    /\ phase[m] \in {"sent", "failed"}
    /\ phase' = [phase EXCEPT ![m] = "idle"]
    /\ taken' = [taken EXCEPT ![m] = FALSE]

\* The process stops, and every mail it was sending is forgotten.
Stop == phase' = [m \in Mails |-> "idle"] /\ taken' = [m \in Mails |-> FALSE]

Next == Stop \/ \E m \in Mails : Send(m) \/ Take(m) \/ Finish(m) \/ Forget(m)

Spec == Init /\ [][Next]_vars /\ \A m \in Mails : WF_vars(Finish(m))
=============================================================================
