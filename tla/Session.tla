------------------------------ MODULE Session ------------------------------
(***************************************************************************)
(* AuthenticateSession of auth/session.go over an application's store. The  *)
(* caller reads the clock, then the lookup takes its time, while the         *)
(* application inserts, revokes and removes sessions. A token stands for its *)
(* hash (SHA-256 is taken to be injective); the short token is one outside    *)
(* the length limits, the malformed hash one that validTokenHash refuses.    *)
(***************************************************************************)
EXTENDS Integers

CONSTANTS
    Callers,    \* concurrent calls of AuthenticateSession
    Tokens,     \* raw tokens of a valid length
    MaxClock    \* bound: the last instant; 0 is the zero Time

ASSUME SessionAssumption ==
    /\ {"short", "malformed"} \cap Tokens = {}
    /\ MaxClock \in Nat \ {0}

VARIABLES
    clock,      \* the time that callers and the application read
    rows,       \* the store: what is under each hash
    calls,      \* the calls of AuthenticateSession
    answers     \* history: what an instantaneous call would have answered at
                \* some instant since each call started

sessionVars == <<clock, rows, calls, answers>>

Hashes == Tokens \cup {"malformed"}
Times == 0..MaxClock

(* complete: ID, UserID and ExpiresAt are set.                               *)
Sessions == [present : {TRUE}, hash : Hashes, complete : BOOLEAN,
             expires : Times, revoked : Times]
NoSession == [present |-> FALSE, hash |-> "malformed", complete |-> FALSE,
              expires |-> 0, revoked |-> 0]

Results == {"none", "ok", "ErrTokenInvalid", "ErrSessionRevoked",
            "ErrSessionExpired", "find session"}

Idle == [step |-> "idle", token |-> "short", now |-> 0, found |-> NoSession,
         result |-> "none"]

SessionInit ==
    /\ clock = 1
    /\ rows = [h \in Hashes |-> NoSession]
    /\ calls = [c \in Callers |-> Idle]
    /\ answers = [c \in Callers |-> {}]

-----------------------------------------------------------------------------
(* What the comments promise of a call that takes no time, at t, when s is    *)
(* what the store has under the token: accept it when it is there, neither    *)
(* revoked nor expired.                                                      *)
Ideal(s, t) ==
    IF ~s.complete THEN "ErrTokenInvalid"
    ELSE IF s.revoked # 0 THEN "ErrSessionRevoked"
    ELSE IF s.expires <= t THEN "ErrSessionExpired"
    ELSE "ok"

(* The instant after the step counts for every call under way.               *)
Observe ==
    answers' = [c \in Callers |->
                  IF calls[c].step \in {"finding", "deciding"}
                  THEN answers[c] \cup {Ideal(rows'[calls[c].token], clock')}
                  ELSE answers[c]]

-----------------------------------------------------------------------------
(* The application.                                                          *)
InsertSession(h, complete, expires) ==
    /\ ~rows[h].present
    /\ expires > clock
    /\ rows' = [rows EXCEPT ![h] = [present |-> TRUE, hash |-> h,
                   complete |-> complete, expires |-> expires, revoked |-> 0]]
    /\ UNCHANGED <<clock, calls>>
    /\ Observe

RevokeSession(h) ==
    /\ rows[h].present
    /\ rows[h].revoked = 0
    /\ rows' = [rows EXCEPT ![h].revoked = clock]
    /\ UNCHANGED <<clock, calls>>
    /\ Observe

RemoveSession(h) ==
    /\ rows[h].present
    /\ rows' = [rows EXCEPT ![h] = NoSession]
    /\ UNCHANGED <<clock, calls>>
    /\ Observe

Tick ==
    /\ clock < MaxClock
    /\ clock' = clock + 1
    /\ UNCHANGED <<rows, calls>>
    /\ Observe

-----------------------------------------------------------------------------
(* The code.                                                                 *)
ActiveAtOpen(s, now) ==     \* variant: a revocation counts from the next instant
    IF now = 0 \/ ~s.complete \/ s.hash = "malformed" THEN "ErrTokenInvalid"
    ELSE IF s.revoked # 0 /\ s.revoked < now THEN "ErrSessionRevoked"
    ELSE IF ~(s.expires > now) THEN "ErrSessionExpired"
    ELSE "ok"

ActiveAt(s, now) ==
    IF now = 0 \/ ~s.complete \/ s.hash = "malformed" THEN "ErrTokenInvalid"
    ELSE IF s.revoked # 0 /\ ~(s.revoked > now) THEN "ErrSessionRevoked"
    ELSE IF ~(s.expires > now) THEN "ErrSessionExpired"
    ELSE "ok"

Step(c, call) ==
    /\ calls' = [calls EXCEPT ![c] = call]
    /\ UNCHANGED <<clock, rows>>

(* The caller reads the clock, or forgets to; the store may be nil.          *)
Start(c, token, now, nilStore) ==
    /\ calls[c].step \in {"idle", "done"}
    /\ LET refused == nilStore \/ now = 0 \/ token = "short" IN
       /\ Step(c, [Idle EXCEPT !.token = token, !.now = now,
                     !.step = IF refused THEN "done" ELSE "finding",
                     !.result = IF refused THEN "ErrTokenInvalid" ELSE "none"])
       /\ answers' = [answers EXCEPT ![c] =
                        {IF refused THEN "ErrTokenInvalid"
                         ELSE Ideal(rows[token], clock)}]

(* The store answers with the token's row; without one, with none or with     *)
(* one that only resembles it.                                               *)
Candidates(token) ==
    IF rows[token].present THEN {rows[token]}
    ELSE {rows[h] : h \in Hashes}

Find(c, s) ==
    /\ calls[c].step = "finding"
    /\ s \in Candidates(calls[c].token)
    /\ Step(c, [calls[c] EXCEPT !.step = "deciding", !.found = s])
    /\ UNCHANGED answers

FindFails(c) ==
    /\ calls[c].step = "finding"
    /\ Step(c, [calls[c] EXCEPT !.step = "done", !.result = "find session"])
    /\ UNCHANGED answers

Decide(c) ==
    /\ calls[c].step = "deciding"
    /\ LET s == calls[c].found IN
       Step(c, [calls[c] EXCEPT !.step = "done", !.found = NoSession,
                  !.result = IF ~s.present \/ s.hash # calls[c].token
                             THEN "ErrTokenInvalid"
                             ELSE ActiveAt(s, calls[c].now)])
    /\ UNCHANGED answers

SessionNext ==
    \/ Tick
    \/ \E h \in Hashes, complete \in BOOLEAN, expires \in Times :
          InsertSession(h, complete, expires)
    \/ \E h \in Hashes : RevokeSession(h) \/ RemoveSession(h)
    \/ \E c \in Callers :
          \/ \E token \in Tokens \cup {"short"}, now \in {0, clock},
                nilStore \in BOOLEAN : Start(c, token, now, nilStore)
          \/ \E h \in Hashes : Find(c, rows[h])
          \/ FindFails(c)
          \/ Decide(c)

SessionSpec == SessionInit /\ [][SessionNext]_sessionVars

-----------------------------------------------------------------------------
SessionTypeOK ==
    /\ clock \in 1..MaxClock
    /\ rows \in [Hashes -> Sessions \cup {NoSession}]
    /\ calls \in [Callers -> [step : {"idle", "finding", "deciding", "done"},
                              token : Tokens \cup {"short"}, now : 0..clock,
                              found : Sessions \cup {NoSession},
                              result : Results]]
    /\ answers \in [Callers -> SUBSET (Results \ {"none", "find session"})]

(* The clock is read before the lookup and the row is judged after it, with   *)
(* the application at work in between: every answer is still the one that an  *)
(* instantaneous call would have given at some instant of this call. A        *)
(* session is never accepted that was inactive, or another's, throughout,     *)
(* and never refused that was active throughout.                             *)
AnswerOfAnInstant ==
    \A c \in Callers :
        calls[c].step = "done" /\ calls[c].result # "find session" =>
            calls[c].result \in answers[c]
=============================================================================
