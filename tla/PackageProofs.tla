--------------------------- MODULE PackageProofs ---------------------------
(***************************************************************************)
(* The application packages, each by an inductive invariant of its own:      *)
(* Decide grants exactly what is in force, for every width of the machine's   *)
(* integers and every number of grants; every answer of AuthenticateSession  *)
(* is the one of some instant of the call, for any number of callers, tokens  *)
(* and instants; a delivery is verified exactly when it was signed, for every *)
(* header, secret, clock and configuration.                                  *)
(***************************************************************************)
EXTENDS Packages, RateLimiterProofs, FiniteSetTheorems, TLAPS

-----------------------------------------------------------------------------
(* Entitlements.                                                             *)

(* The capped quantity is the exact one up to the requirement.               *)
Capped ==
    granted = IF total >= require.quantity THEN require.quantity ELSE total

(* The locals say of the grants read what they were.                         *)
FlagsTrue ==
    /\ \A k \in Kinds : k \in flags <=> k \in kinds
    /\ "matched" \in flags <=> kinds # {}
    /\ "active" \notin kinds => total = 0

DecisionInv ==
    /\ EntitlementTypeOK
    /\ outcome \in {"deciding", "ok"} =>
         Capped /\ FlagsTrue /\ kinds \subseteq Kinds
    /\ DecisionExact

-----------------------------------------------------------------------------
(* The branch taken is the one that the comment on Grant describes.          *)
LEMMA BranchIsKind ==
    ASSUME NEW g \in Grants, decideAt \in Nat
    PROVE  /\ Branch(g) = KindOf(g)
           /\ Branch(g) \in Kinds
           /\ Branch(g) = "active" <=> Covers(g)
  <1>1. /\ g.startsAt \in Nat /\ g.endsAt \in Nat /\ g.revokedAt \in Nat
    BY EntitlementAssumption DEF Grants
  <1> QED  BY <1>1 DEF Branch, KindOf, Covers, Kinds

(* The addition never wraps and stays capped.                                *)
LEMMA AddIsCapped ==
    ASSUME NEW quantity \in Quantities, NEW Q \in Quantities, NEW n \in Nat,
           require.quantity = Q,
           granted = IF n >= Q THEN Q ELSE n
    PROVE  Add(quantity) = IF n + quantity >= Q THEN Q ELSE n + quantity
  <1>1. granted \in 0..Q /\ Q \in 0..MaxUint /\ quantity \in Nat /\ MaxUint \in Nat
    BY EntitlementAssumption DEF Quantities
  <1>2. Wrap(Q - granted) = Q - granted
    BY <1>1 DEF Wrap
  <1>3. CASE quantity >= Q - granted
    <2>1. Add(quantity) = Q
      BY <1>2, <1>3 DEF Add
    <2>2. n + quantity >= Q
      BY <1>1, <1>3
    <2> QED  BY <2>1, <2>2
  <1>4. CASE ~(quantity >= Q - granted)
    <2>1. granted = n /\ n + quantity < Q
      BY <1>1, <1>4
    <2>2. Wrap(granted + quantity) = n + quantity
      BY <1>1, <2>1 DEF Wrap
    <2>3. Add(quantity) = n + quantity
      BY <1>2, <1>4, <2>2 DEF Add
    <2> QED  BY <2>1, <2>3, <1>1
  <1> QED  BY <1>3, <1>4

LEMMA DecisionStarts == EntitlementInit => DecisionInv
  <1> SUFFICES ASSUME EntitlementInit PROVE DecisionInv
    OBVIOUS
  <1>1. require.quantity \in Nat
    BY EntitlementAssumption DEF EntitlementInit, Requirements, Quantities
  <1>2. EntitlementTypeOK
    BY EntitlementAssumption
    DEF EntitlementInit, EntitlementTypeOK, ZeroDecision, Denied, Quantities
  <1>3. Capped /\ FlagsTrue
    BY <1>1 DEF EntitlementInit, Capped, FlagsTrue
  <1>4. DecisionExact
    BY DEF EntitlementInit, DecisionExact
  <1> QED  BY <1>2, <1>3, <1>4 DEF DecisionInv, EntitlementInit

-----------------------------------------------------------------------------
(* An error is the zero Decision.                                            *)
LEMMA ErrorKeeps ==
    ASSUME DecisionInv,
           Refuse \/ \E g \in Grants : Reject(g)
    PROVE  DecisionInv'
  <1>1. /\ outcome' \in {"ErrInvalidTime", "ErrInvalidRequirement", "ErrInvalidGrant"}
        /\ decision' = ZeroDecision
        /\ UNCHANGED <<call, loop, total>>
        /\ kinds' = kinds \/ kinds' = kinds \cup {"malformed"}
    BY DEF Refuse, Reject, Return, history
  <1>2. EntitlementTypeOK'
    BY <1>1, EntitlementAssumption
    DEF DecisionInv, EntitlementTypeOK, ZeroDecision, Denied, call, loop, Quantities
  <1>3. DecisionExact'
    BY <1>1 DEF DecisionExact
  <1> QED  BY <1>1, <1>2, <1>3 DEF DecisionInv

LEMMA SkipKeeps ==
    ASSUME DecisionInv, NEW g \in Grants, Skip(g)
    PROVE  DecisionInv'
  <1>1. /\ at' = at + 1 /\ at < length /\ outcome = "deciding"
        /\ UNCHANGED <<decideAt, require, length, granted, flags, outcome, decision,
                       total, kinds>>
    BY DEF Skip, Looping, call, history
  <1>2. EntitlementTypeOK'
    BY <1>1, EntitlementAssumption DEF DecisionInv, EntitlementTypeOK
  <1> QED  BY <1>1, <1>2 DEF DecisionInv, Capped, FlagsTrue, DecisionExact

LEMMA CountKeeps ==
    ASSUME DecisionInv, NEW g \in Grants, Count(g)
    PROVE  DecisionInv'
  <1> USE EntitlementAssumption
  <1>1. /\ at' = at + 1 /\ at < length /\ outcome = "deciding"
        /\ UNCHANGED <<decideAt, require, length, outcome, decision>>
        /\ flags' = flags \cup {"matched", Branch(g)}
        /\ granted' = IF Branch(g) = "active" THEN Add(g.quantity) ELSE granted
        /\ kinds' = kinds \cup {KindOf(g)}
        /\ total' = IF Covers(g) THEN total + g.quantity ELSE total
    BY DEF Count, Looping, call
  <1>2. /\ decideAt \in Nat /\ g.quantity \in Quantities /\ total \in Nat
        /\ require.quantity \in Quantities /\ granted \in Quantities
        /\ Quantities \subseteq Nat
    BY DEF DecisionInv, EntitlementTypeOK, Requirements, Grants, Quantities
  <1>3. /\ Branch(g) = KindOf(g) /\ Branch(g) \in Kinds
        /\ Branch(g) = "active" <=> Covers(g)
    BY <1>2, BranchIsKind
  <1>4. Capped /\ FlagsTrue /\ kinds \subseteq Kinds
    BY <1>1 DEF DecisionInv
  <1>5. Add(g.quantity) = IF total + g.quantity >= require.quantity
                          THEN require.quantity ELSE total + g.quantity
    BY <1>2, <1>4, AddIsCapped DEF Capped
  <1>6. total' \in Nat /\ granted' \in Quantities /\ Capped'
    <2>1. CASE Covers(g)
      BY <2>1, <1>1, <1>2, <1>3, <1>5 DEF Capped, Quantities
    <2>2. CASE ~Covers(g)
      BY <2>2, <1>1, <1>2, <1>3, <1>4 DEF Capped
    <2> QED  BY <2>1, <2>2
  <1>7. FlagsTrue' /\ kinds' \subseteq Kinds
    BY <1>1, <1>3, <1>4 DEF FlagsTrue, Kinds
  <1>8. EntitlementTypeOK'
    <2>1. at' \in 0..length' /\ flags' \subseteq Kinds \cup {"matched"}
      BY <1>1, <1>3 DEF DecisionInv, EntitlementTypeOK
    <2> QED  BY <2>1, <1>1, <1>6, <1>7 DEF DecisionInv, EntitlementTypeOK
  <1>9. DecisionExact'
    BY <1>1 DEF DecisionInv, DecisionExact
  <1> QED  BY <1>6, <1>7, <1>8, <1>9 DEF DecisionInv

LEMMA ConcludeKeeps ==
    ASSUME DecisionInv, Conclude
    PROVE  DecisionInv'
  <1> USE EntitlementAssumption
  <1>1. /\ outcome = "deciding" /\ outcome' = "ok" /\ require.quantity # 0
        /\ UNCHANGED <<decideAt, require, length, at, granted, flags, total, kinds>>
    BY DEF Conclude, Return, call, loop, history, Refused, ValidRequirement
  <1>2. /\ total \in Nat /\ require.quantity \in Nat /\ granted \in Nat
        /\ granted \in Quantities
    BY DEF DecisionInv, EntitlementTypeOK, Requirements, Quantities
  <1>3. Capped /\ FlagsTrue /\ kinds \subseteq Kinds
    BY <1>1 DEF DecisionInv
  <1>4. decision' =
          IF granted = require.quantity
          THEN [allowed |-> TRUE, reason |-> "granted", granted |-> granted]
          ELSE IF "active" \in flags THEN Denied("insufficient", granted)
          ELSE IF "matched" \notin flags THEN Denied("noGrant", 0)
          ELSE IF "revoked" \in flags THEN Denied("revoked", 0)
          ELSE IF "notStarted" \in flags THEN Denied("notStarted", 0)
          ELSE Denied("expired", 0)
    BY DEF Conclude, Return
  <1>5. granted = require.quantity <=> total >= require.quantity
    BY <1>2, <1>3 DEF Capped
  <1>6. CASE granted = require.quantity
    <2>1. decision' = [allowed |-> TRUE, reason |-> "granted", granted |-> granted]
      BY <1>4, <1>6
    <2>2. EntitlementTypeOK'
      BY <2>1, <1>1, <1>2 DEF DecisionInv, EntitlementTypeOK
    <2>3. DecisionExact'
      BY <2>1, <1>1, <1>5, <1>6 DEF DecisionExact
    <2> QED  BY <2>2, <2>3, <1>1, <1>3 DEF DecisionInv, Capped, FlagsTrue
  <1>7. CASE granted # require.quantity
    <2>1. granted = total
      BY <1>2, <1>3, <1>7, <1>5 DEF Capped
    <2>2. /\ ~decision'.allowed
          /\ decision'.granted = total
          /\ decision'.reason = IF "active" \in kinds THEN "insufficient"
                                ELSE IF kinds = {} THEN "noGrant"
                                ELSE IF "revoked" \in kinds THEN "revoked"
                                ELSE IF "notStarted" \in kinds THEN "notStarted"
                                ELSE "expired"
      BY <2>1, <1>3, <1>4, <1>7 DEF FlagsTrue, Kinds, Denied
    <2>3. decision' \in [allowed : BOOLEAN, granted : Quantities,
                         reason : {"unknown", "granted", "insufficient", "noGrant",
                                   "revoked", "notStarted", "expired"}]
      BY <1>2, <1>4, <1>7 DEF Denied, Quantities
    <2>4. EntitlementTypeOK'
      BY <2>3, <1>1 DEF DecisionInv, EntitlementTypeOK
    <2>5. DecisionExact'
      BY <2>2, <1>1, <1>5, <1>7 DEF DecisionExact
    <2> QED  BY <2>4, <2>5, <1>1, <1>3 DEF DecisionInv, Capped, FlagsTrue
  <1> QED  BY <1>6, <1>7

LEMMA DecisionKeeps == DecisionInv /\ [EntitlementNext]_entitlementVars => DecisionInv'
  <1> SUFFICES ASSUME DecisionInv, [EntitlementNext]_entitlementVars PROVE DecisionInv'
    OBVIOUS
  <1>1. ASSUME Refuse PROVE DecisionInv'
    BY <1>1, ErrorKeeps
  <1>2. ASSUME NEW g \in Grants, Reject(g) PROVE DecisionInv'
    BY <1>2, ErrorKeeps
  <1>3. ASSUME NEW g \in Grants, Skip(g) PROVE DecisionInv'
    BY <1>3, SkipKeeps
  <1>4. ASSUME NEW g \in Grants, Count(g) PROVE DecisionInv'
    BY <1>4, CountKeeps
  <1>5. ASSUME Conclude PROVE DecisionInv'
    BY <1>5, ConcludeKeeps
  <1>6. ASSUME UNCHANGED entitlementVars PROVE DecisionInv'
    BY <1>6 DEF DecisionInv, EntitlementTypeOK, Capped, FlagsTrue, DecisionExact,
                entitlementVars, call, loop, history
  <1> QED  BY <1>1, <1>2, <1>3, <1>4, <1>5, <1>6 DEF EntitlementNext

(* Every decision is by the exact sum of the grants in force: Decide's capped *)
(* addition neither wraps nor loses a grant, and its flags name the reason.   *)
THEOREM DecisionIsExact == EntitlementSpec => []DecisionExact
  <1>1. DecisionInv => DecisionExact
    BY DEF DecisionInv
  <1> QED  BY <1>1, DecisionStarts, DecisionKeeps, PTL DEF EntitlementSpec

-----------------------------------------------------------------------------
(* Sessions.                                                                 *)

(* A row is filed under its hash, and is not revoked in the future.           *)
RowsFiled ==
    \A h \in Hashes : rows[h].present => rows[h].hash = h /\ rows[h].revoked <= clock

(* What Decide would answer of a row found for the token.                    *)
Judge(s, token, now) ==
    IF ~s.present \/ s.hash # token THEN "ErrTokenInvalid" ELSE ActiveAt(s, now)

(* Under way, the answer that the row now gives, or the one found gives, is   *)
(* already that of an instant of the call.                                   *)
CallOK(c) ==
    /\ calls[c].step \in {"finding", "deciding"} =>
          calls[c].token \in Tokens /\ calls[c].now \in 1..clock
    /\ calls[c].step = "finding" =>
          Judge(rows[calls[c].token], calls[c].token, calls[c].now) \in answers[c]
    /\ calls[c].step = "deciding" =>
          Judge(calls[c].found, calls[c].token, calls[c].now) \in answers[c]
    /\ calls[c].step = "done" /\ calls[c].result # "find session" =>
          calls[c].result \in answers[c]

SessionInv == SessionTypeOK /\ RowsFiled /\ \A c \in Callers : CallOK(c)

(* A call's record, at a clock's time.                                       *)
Calls(t) == [step : {"idle", "finding", "deciding", "done"},
             token : Tokens \cup {"short"}, now : 0..t,
             found : Sessions \cup {NoSession}, result : Results]

Answers == SUBSET (Results \ {"none", "find session"})

-----------------------------------------------------------------------------
LEMMA ConstantFacts ==
    /\ "malformed" \notin Tokens /\ "short" \notin Tokens
    /\ Tokens \subseteq Hashes
    /\ MaxClock \in Nat /\ MaxClock >= 1
    /\ Times \subseteq Nat
  BY SessionAssumption DEF Hashes, Times

LEMMA TypeFacts ==
    ASSUME SessionTypeOK
    PROVE  /\ clock \in Nat /\ clock >= 1 /\ clock <= MaxClock
           /\ rows \in [Hashes -> Sessions \cup {NoSession}]
           /\ calls \in [Callers -> Calls(clock)]
           /\ answers \in [Callers -> Answers]
  <1>1. clock \in 1..MaxClock
    BY DEF SessionTypeOK
  <1>2. clock \in Nat /\ clock >= 1 /\ clock <= MaxClock
    BY <1>1, ConstantFacts
  <1> QED  BY <1>2 DEF SessionTypeOK, Calls, Answers

LEMMA RowFacts ==
    ASSUME NEW s \in Sessions
    PROVE  /\ s.present /\ s.hash \in Hashes /\ s.complete \in BOOLEAN
           /\ s.expires \in Nat /\ s.revoked \in Nat
  BY ConstantFacts DEF Sessions

LEMMA ActiveAtType ==
    ASSUME NEW s, NEW now
    PROVE  ActiveAt(s, now) \in Results \ {"none", "find session"}
  BY DEF ActiveAt, Results

LEMMA IdealType ==
    ASSUME NEW s, NEW t
    PROVE  Ideal(s, t) \in Results \ {"none", "find session"}
  BY DEF Ideal, Results

(* Judged at the current instant, a row gets the answer of that instant.      *)
LEMMA JudgedNow ==
    ASSUME SessionInv, NEW token \in Tokens
    PROVE  Judge(rows[token], token, clock) = Ideal(rows[token], clock)
  <1>1. token \in Hashes /\ token # "malformed" /\ clock \in Nat \ {0}
    BY ConstantFacts, TypeFacts DEF SessionInv
  <1>2. rows[token] \in Sessions \cup {NoSession}
    BY <1>1, TypeFacts DEF SessionInv
  <1>3. CASE rows[token] = NoSession
    BY <1>3 DEF Judge, Ideal, NoSession
  <1>4. CASE rows[token] \in Sessions
    <2>1. rows[token].present /\ rows[token].hash = token /\ rows[token].revoked <= clock
      BY <1>1, <1>4, RowFacts DEF SessionInv, RowsFiled
    <2>2. rows[token].revoked \in Nat /\ rows[token].expires \in Nat
      BY <1>4, RowFacts
    <2> QED  BY <1>1, <2>1, <2>2 DEF Judge, Ideal, ActiveAt
  <1> QED  BY <1>2, <1>3, <1>4

-----------------------------------------------------------------------------
(* A step of the application leaves every call with an answer of some         *)
(* instant if it changes the verdict on a row only to what now holds of it.   *)
LEMMA ApplicationKeeps ==
    ASSUME SessionInv, Observe, UNCHANGED calls,
           clock' \in clock..MaxClock,
           rows' \in [Hashes -> Sessions \cup {NoSession}],
           RowsFiled',
           \A token \in Tokens, now \in 1..clock :
               Judge(rows'[token], token, now)
                   \in {Judge(rows[token], token, now), Ideal(rows'[token], clock')}
    PROVE  SessionInv'
  <1>1. clock \in Nat \ {0} /\ clock' \in 1..MaxClock
    BY TypeFacts DEF SessionInv
  <1>2. Calls(clock) \subseteq Calls(clock')
    <2>1. 0..clock \subseteq 0..clock'
      BY <1>1
    <2> QED  BY <2>1 DEF Calls
  <1>3. calls' \in [Callers -> Calls(clock')]
    BY <1>2, TypeFacts DEF SessionInv
  <1>4. answers' \in [Callers -> Answers]
    BY ZenonT(60), IdealType, TypeFacts DEF Observe, SessionInv, Answers
  <1>5. SessionTypeOK'
    BY <1>1, <1>3, <1>4 DEF SessionTypeOK, Calls, Answers
  <1>6. ASSUME NEW c \in Callers PROVE CallOK(c)'
    <2>1. CallOK(c) /\ answers[c] \subseteq answers'[c]
      BY DEF SessionInv, Observe
    <2>2. CASE calls[c].step = "finding"
      <3>1. Ideal(rows'[calls[c].token], clock') \in answers'[c]
        BY <2>2 DEF Observe
      <3>2. calls[c].token \in Tokens /\ calls[c].now \in 1..clock
        BY <2>1, <2>2 DEF CallOK
      <3>4. Judge(rows'[calls[c].token], calls[c].token, calls[c].now) \in answers'[c]
        <4> DEFINE token == calls[c].token
        <4>1. Judge(rows'[token], token, calls[c].now)
                \in {Judge(rows[token], token, calls[c].now), Ideal(rows'[calls[c].token], clock')}
          BY <3>2 DEF Ideal
        <4> QED  BY <4>1, <3>1, <2>1, <2>2 DEF CallOK
      <3> QED  BY <3>2, <3>4, <2>2, <1>1 DEF CallOK, Judge, ActiveAt
    <2>3. CASE calls[c].step # "finding"
      <3>1. 1..clock \subseteq 1..clock'
        BY <1>1
      <3> QED  BY <3>1, <2>1, <2>3 DEF CallOK, Judge, ActiveAt
    <2> QED  BY <2>2, <2>3
  <1> QED  BY <1>5, <1>6 DEF SessionInv

LEMMA InsertKeeps ==
    ASSUME SessionInv, NEW h \in Hashes, NEW complete \in BOOLEAN, NEW expires \in Times,
           InsertSession(h, complete, expires)
    PROVE  SessionInv'
  <1> DEFINE s == [present |-> TRUE, hash |-> h, complete |-> complete,
                   expires |-> expires, revoked |-> 0]
  <1>1. /\ rows' = [rows EXCEPT ![h] = s] /\ expires > clock
        /\ UNCHANGED <<clock, calls>> /\ Observe
    BY DEF InsertSession
  <1>2. clock \in 1..MaxClock /\ rows \in [Hashes -> Sessions \cup {NoSession}]
    BY TypeFacts DEF SessionInv
  <1>3. s \in Sessions
    BY ConstantFacts DEF Sessions, Times
  <1>4. rows' \in [Hashes -> Sessions \cup {NoSession}]
    BY <1>1, <1>2, <1>3
  <1>5. RowsFiled'
    BY <1>1, <1>2 DEF SessionInv, RowsFiled
  <1>6. ASSUME NEW token \in Tokens, NEW now \in 1..clock
        PROVE  Judge(rows'[token], token, now)
                 \in {Judge(rows[token], token, now), Ideal(rows'[token], clock')}
    <2>1. CASE token = h
      <3>1. rows'[token] = s /\ token # "malformed" /\ expires \in Nat
        BY <1>1, <1>2, <2>1, ConstantFacts
      <3>2. Judge(s, token, now) = IF complete THEN "ok" ELSE "ErrTokenInvalid"
        BY <1>1, <1>2, <3>1, <2>1 DEF Judge, ActiveAt
      <3>3. Ideal(rows'[token], clock') = IF complete THEN "ok" ELSE "ErrTokenInvalid"
        BY <1>1, <1>2, <3>1 DEF Ideal
      <3> QED  BY <3>1, <3>2, <3>3
    <2>2. CASE token # h
      BY <2>2, <1>1, <1>2 DEF Hashes
    <2> QED  BY <2>1, <2>2
  <1>7. clock' \in clock..MaxClock
    BY <1>1, <1>2
  <1> QED  BY <1>1, <1>4, <1>5, <1>6, <1>7, ApplicationKeeps

LEMMA RevokeKeeps ==
    ASSUME SessionInv, NEW h \in Hashes, RevokeSession(h)
    PROVE  SessionInv'
  <1>1. /\ rows' = [rows EXCEPT ![h].revoked = clock]
        /\ rows[h].present /\ rows[h].revoked = 0
        /\ UNCHANGED <<clock, calls>> /\ Observe
    BY DEF RevokeSession
  <1>2. clock \in 1..MaxClock /\ rows \in [Hashes -> Sessions \cup {NoSession}]
    BY TypeFacts DEF SessionInv
  <1>3. rows[h] \in Sessions /\ rows[h].hash = h
    BY <1>1, <1>2 DEF NoSession, SessionInv, RowsFiled
  <1>4. rows'[h] = [rows[h] EXCEPT !.revoked = clock]
    BY <1>1, <1>2
  <1>5. rows'[h] \in Sessions
    <2>1. clock \in Times
      BY <1>2, ConstantFacts DEF Times
    <2> QED  BY <2>1, <1>3, <1>4 DEF Sessions
  <1>6. rows' \in [Hashes -> Sessions \cup {NoSession}]
    BY <1>1, <1>2, <1>4, <1>5
  <1>7. RowsFiled'
    BY <1>1, <1>2, <1>3, <1>4 DEF SessionInv, RowsFiled, Sessions
  <1>8. ASSUME NEW token \in Tokens, NEW now \in 1..clock
        PROVE  Judge(rows'[token], token, now)
                 \in {Judge(rows[token], token, now), Ideal(rows'[token], clock')}
    <2>1. CASE token = h
      <3>1. /\ rows'[h].present /\ rows'[h].hash = h /\ rows'[h].revoked = clock
            /\ rows'[h].complete = rows[h].complete
            /\ rows'[h].expires = rows[h].expires
        BY ZenonT(60), <1>1, <1>3, <1>4 DEF Sessions
      <3>2. CASE clock > now
        <4>1. Judge(rows'[token], token, now) = Judge(rows[token], token, now)
          BY <3>1, <3>2, <1>1, <1>2, <1>3, <2>1 DEF Judge, ActiveAt
        <4> QED  BY <4>1
      <3>3. CASE clock = now
        <4>1. Judge(rows'[token], token, now) = Ideal(rows'[token], clock')
          BY <3>1, <3>3, <1>1, <1>2, <2>1, ConstantFacts DEF Judge, ActiveAt, Ideal
        <4> QED  BY <4>1
      <3> QED  BY <3>2, <3>3, <1>2
    <2>2. CASE token # h
      BY <2>2, <1>1, <1>2 DEF Hashes
    <2> QED  BY <2>1, <2>2
  <1>9. clock' \in clock..MaxClock
    BY <1>1, <1>2
  <1> QED  BY <1>1, <1>6, <1>7, <1>8, <1>9, ApplicationKeeps

LEMMA RemoveKeeps ==
    ASSUME SessionInv, NEW h \in Hashes, RemoveSession(h)
    PROVE  SessionInv'
  <1>1. /\ rows' = [rows EXCEPT ![h] = NoSession]
        /\ UNCHANGED <<clock, calls>> /\ Observe
    BY DEF RemoveSession
  <1>2. clock \in 1..MaxClock /\ rows \in [Hashes -> Sessions \cup {NoSession}]
    BY TypeFacts DEF SessionInv
  <1>3. rows' \in [Hashes -> Sessions \cup {NoSession}]
    BY <1>1, <1>2
  <1>4. RowsFiled'
    BY <1>1, <1>2 DEF SessionInv, RowsFiled, NoSession
  <1>5. ASSUME NEW token \in Tokens, NEW now \in 1..clock
        PROVE  Judge(rows'[token], token, now)
                 \in {Judge(rows[token], token, now), Ideal(rows'[token], clock')}
    <2>1. CASE token = h
      BY <2>1, <1>1, <1>2 DEF Judge, Ideal, NoSession
    <2>2. CASE token # h
      BY <2>2, <1>1, <1>2 DEF Hashes
    <2> QED  BY <2>1, <2>2
  <1>6. clock' \in clock..MaxClock
    BY <1>1, <1>2
  <1> QED  BY <1>1, <1>3, <1>4, <1>5, <1>6, ApplicationKeeps

LEMMA TickKeeps ==
    ASSUME SessionInv, Tick
    PROVE  SessionInv'
  <1>1. /\ clock < MaxClock /\ clock' = clock + 1
        /\ UNCHANGED <<rows, calls>> /\ Observe
    BY DEF Tick
  <1>2. clock \in 1..MaxClock /\ rows \in [Hashes -> Sessions \cup {NoSession}]
    BY TypeFacts DEF SessionInv
  <1>3. clock' \in clock..MaxClock
    BY <1>1, <1>2, ConstantFacts
  <1>4. RowsFiled'
    <2>1. ASSUME NEW h \in Hashes, rows[h].present
          PROVE  rows[h].hash = h /\ rows[h].revoked <= clock + 1
      <3>1. rows[h].revoked \in Nat
        BY <2>1, <1>2, RowFacts DEF NoSession
      <3> QED  BY <2>1, <3>1, <1>2 DEF SessionInv, RowsFiled
    <2> QED  BY <2>1, <1>1 DEF RowsFiled, Hashes
  <1>5. \A token \in Tokens, now \in 1..clock :
            Judge(rows'[token], token, now) = Judge(rows[token], token, now)
    BY <1>1
  <1>6. rows' \in [Hashes -> Sessions \cup {NoSession}]
    BY <1>1, <1>2
  <1> QED  BY <1>1, <1>3, <1>4, <1>5, <1>6, ApplicationKeeps

-----------------------------------------------------------------------------
(* A step of one call: it is enough that its own record stays right.          *)
LEMMA CallKeeps ==
    ASSUME SessionInv, NEW c \in Callers, NEW entry,
           Step(c, entry),
           entry \in Calls(clock),
           answers' \in [Callers -> Answers],
           \A d \in Callers \ {c} : answers'[d] = answers[d],
           CallOK(c)'
    PROVE  SessionInv'
  <1>1. calls' = [calls EXCEPT ![c] = entry] /\ UNCHANGED <<clock, rows>>
    BY DEF Step
  <1>2. SessionTypeOK'
    BY <1>1 DEF SessionInv, SessionTypeOK, Calls, Answers
  <1>3. ASSUME NEW d \in Callers PROVE CallOK(d)'
    <2>1. CASE d = c
      BY <2>1
    <2>2. CASE d # c
      <3>1. calls'[d] = calls[d] /\ answers'[d] = answers[d]
        BY <2>2, <1>1, TypeFacts DEF SessionInv
      <3>2. CallOK(d)
        BY DEF SessionInv
      <3> QED  BY ZenonT(60), <3>1, <3>2, <1>1 DEF CallOK, Judge, ActiveAt
    <2> QED  BY <2>1, <2>2
  <1>4. RowsFiled'
    BY <1>1 DEF SessionInv, RowsFiled, Hashes
  <1> QED  BY <1>2, <1>3, <1>4 DEF SessionInv

LEMMA StartKeeps ==
    ASSUME SessionInv, NEW c \in Callers, NEW token \in Tokens \cup {"short"},
           NEW now \in {0, clock}, NEW nilStore \in BOOLEAN,
           Start(c, token, now, nilStore)
    PROVE  SessionInv'
  <1> DEFINE refused == nilStore \/ now = 0 \/ token = "short"
             entry == [Idle EXCEPT !.token = token, !.now = now,
                        !.step = IF refused THEN "done" ELSE "finding",
                        !.result = IF refused THEN "ErrTokenInvalid" ELSE "none"]
  <1>1. /\ Step(c, entry)
        /\ answers' = [answers EXCEPT ![c] =
                         {IF refused THEN "ErrTokenInvalid" ELSE Ideal(rows[token], clock)}]
    BY DEF Start
  <1>2. calls' = [calls EXCEPT ![c] = entry] /\ UNCHANGED <<clock, rows>>
    BY <1>1 DEF Step
  <1>3. /\ clock \in Nat \ {0} /\ answers \in [Callers -> Answers]
        /\ calls'[c] = entry
    BY <1>2, TypeFacts DEF SessionInv
  <1>4. entry \in Calls(clock)
    <2>1. now \in 0..clock /\ token \in Tokens \cup {"short"}
      BY <1>3
    <2>2. Idle \in Calls(clock)
      BY <1>3 DEF Idle, Calls, Results
    <2> QED  BY <2>1, <2>2 DEF Calls, Results
  <1>5. answers' \in [Callers -> Answers]
    BY <1>1, <1>3, IdealType DEF Results, Answers
  <1>6. CallOK(c)'
    <2>1. CASE refused
      BY <2>1, <1>1, <1>3 DEF CallOK, Idle
    <2>2. CASE ~refused
      <3>1. token \in Tokens /\ now = clock
        BY <2>2
      <3>2. Judge(rows[token], token, now) = Ideal(rows[token], clock)
        BY <3>1, JudgedNow
      <3>3. /\ entry.step = "finding" /\ entry.token = token /\ entry.now = now
            /\ answers'[c] = {Ideal(rows[token], clock)}
        BY <2>2, <1>1, <1>3 DEF Idle
      <3>4. Judge(rows'[token], token, now) \in answers'[c]
        BY <3>2, <3>3, <1>2
      <3>5. calls'[c].step = "finding" /\ calls'[c].token = token /\ calls'[c].now = now
        BY <3>3, <1>3
      <3>6. now \in 1..clock'
        BY <3>1, <1>2, <1>3
      <3> QED  BY <3>1, <3>4, <3>5, <3>6 DEF CallOK, Judge, ActiveAt
    <2> QED  BY <2>1, <2>2
  <1>7. \A d \in Callers \ {c} : answers'[d] = answers[d]
    BY <1>1, <1>3
  <1> HIDE DEF entry
  <1> QED  BY <1>1, <1>4, <1>5, <1>6, <1>7, CallKeeps

LEMMA FindKeeps ==
    ASSUME SessionInv, NEW c \in Callers, NEW h \in Hashes, Find(c, rows[h])
    PROVE  SessionInv'
  <1> DEFINE old == calls[c]
             entry == [old EXCEPT !.step = "deciding", !.found = rows[h]]
  <1>1. /\ old.step = "finding" /\ Step(c, entry) /\ answers' = answers
        /\ rows[h] \in Candidates(old.token)
    BY DEF Find
  <1>2. calls' = [calls EXCEPT ![c] = entry] /\ UNCHANGED <<clock, rows>>
    BY <1>1 DEF Step
  <1>3. /\ old \in Calls(clock)
        /\ rows[h] \in Sessions \cup {NoSession}
        /\ calls'[c] = entry
    BY <1>2, TypeFacts DEF SessionInv
  <1>4. entry \in Calls(clock)
    BY <1>3 DEF Calls
  <1>5. /\ old.token \in Tokens /\ old.now \in 1..clock
        /\ Judge(rows[old.token], old.token, old.now) \in answers[c]
    BY <1>1 DEF SessionInv, CallOK
  <1>6. Judge(rows[h], old.token, old.now) = Judge(rows[old.token], old.token, old.now)
    <2>1. CASE rows[old.token].present
      BY <2>1, <1>1 DEF Candidates
    <2>2. CASE ~rows[old.token].present
      BY <2>2, <1>5 DEF Judge, SessionInv, RowsFiled
    <2> QED  BY <2>1, <2>2
  <1>7. /\ entry.step = "deciding" /\ entry.token = old.token /\ entry.now = old.now
        /\ entry.found = rows[h]
    BY <1>3
  <1>8. CallOK(c)'
    <2>1. clock' = clock /\ answers'[c] = answers[c]
      BY <1>1, <1>2
    <2>2. (Judge(calls[c].found, calls[c].token, calls[c].now) \in answers[c])'
      <3>1. Judge(rows[h], old.token, old.now) \in answers[c]
        BY <1>5, <1>6
      <3> HIDE DEF old, entry
      <3> QED  BY <3>1, <2>1, <1>3, <1>7 DEF Judge, ActiveAt
    <2> HIDE DEF old, entry
    <2> QED  BY <2>1, <2>2, <1>3, <1>5, <1>7 DEF CallOK
  <1>9. answers' \in [Callers -> Answers]
    BY <1>1, TypeFacts DEF SessionInv
  <1> HIDE DEF entry
  <1> QED  BY <1>1, <1>4, <1>8, <1>9, CallKeeps

(* FindFails and Decide end the call.                                        *)
LEMMA EndKeeps ==
    ASSUME SessionInv, NEW c \in Callers, FindFails(c) \/ Decide(c)
    PROVE  SessionInv'
  <1> DEFINE old == calls[c]
  <1>1. PICK entry :
          /\ Step(c, entry) /\ answers' = answers
          /\ entry.step = "done"
          /\ entry.result = "find session" \/ entry.result \in answers[c]
          /\ entry \in Calls(clock)
    <2>1. old \in Calls(clock)
      BY TypeFacts DEF SessionInv
    <2>2. CASE FindFails(c)
      <3> DEFINE ended == [old EXCEPT !.step = "done", !.result = "find session"]
      <3>1. Step(c, ended) /\ answers' = answers
        BY <2>2 DEF FindFails
      <3>2. /\ ended.step = "done" /\ ended.result = "find session"
            /\ ended \in Calls(clock)
        BY <2>1 DEF Results, Calls
      <3> HIDE DEF ended
      <3> QED  BY <3>1, <3>2
    <2>3. CASE Decide(c)
      <3> DEFINE answer == Judge(old.found, old.token, old.now)
                 ended == [old EXCEPT !.step = "done", !.found = NoSession,
                                      !.result = answer]
      <3>1. Step(c, ended) /\ answers' = answers /\ old.step = "deciding"
        BY <2>3 DEF Decide, Judge
      <3>2. answer \in answers[c] /\ answer \in Results
        BY <3>1, ActiveAtType DEF SessionInv, CallOK, Judge, Results
      <3> HIDE DEF answer
      <3>3. /\ ended.step = "done" /\ ended.result \in answers[c]
            /\ ended \in Calls(clock)
        BY <2>1, <3>2 DEF Calls
      <3> HIDE DEF ended
      <3> QED  BY <3>1, <3>3
    <2> QED  BY <2>2, <2>3
  <1>2. calls'[c] = entry
    BY <1>1, TypeFacts DEF Step, SessionInv
  <1>3. CallOK(c)'
    BY <1>1, <1>2 DEF CallOK
  <1>4. answers' \in [Callers -> Answers]
    BY <1>1, TypeFacts DEF SessionInv
  <1> QED  BY <1>1, <1>3, <1>4, CallKeeps

-----------------------------------------------------------------------------
LEMMA SessionStarts == SessionInit => SessionInv
  <1> SUFFICES ASSUME SessionInit PROVE SessionInv
    OBVIOUS
  <1>1. clock = 1 /\ clock \in 1..MaxClock
    BY ConstantFacts DEF SessionInit
  <1>2. rows \in [Hashes -> Sessions \cup {NoSession}]
    BY DEF SessionInit
  <1>3. Idle \in Calls(clock)
    BY <1>1 DEF Idle, Calls, Results
  <1>4. SessionTypeOK
    BY <1>1, <1>2, <1>3 DEF SessionInit, SessionTypeOK, Calls
  <1>5. RowsFiled
    BY DEF SessionInit, RowsFiled, NoSession
  <1>6. \A c \in Callers : CallOK(c)
    BY DEF SessionInit, CallOK, Idle
  <1> QED  BY <1>4, <1>5, <1>6 DEF SessionInv

LEMMA SessionKeeps == SessionInv /\ [SessionNext]_sessionVars => SessionInv'
  <1> SUFFICES ASSUME SessionInv, [SessionNext]_sessionVars PROVE SessionInv'
    OBVIOUS
  <1>1. ASSUME Tick PROVE SessionInv'
    BY <1>1, TickKeeps
  <1>2. ASSUME NEW h \in Hashes, NEW complete \in BOOLEAN, NEW expires \in Times,
               InsertSession(h, complete, expires)
        PROVE  SessionInv'
    BY <1>2, InsertKeeps
  <1>3. ASSUME NEW h \in Hashes, RevokeSession(h) \/ RemoveSession(h) PROVE SessionInv'
    BY <1>3, RevokeKeeps, RemoveKeeps
  <1>4. ASSUME NEW c \in Callers, NEW token \in Tokens \cup {"short"},
               NEW now \in {0, clock}, NEW nilStore \in BOOLEAN,
               Start(c, token, now, nilStore)
        PROVE  SessionInv'
    BY <1>4, StartKeeps
  <1>5. ASSUME NEW c \in Callers, NEW h \in Hashes, Find(c, rows[h]) PROVE SessionInv'
    BY <1>5, FindKeeps
  <1>6. ASSUME NEW c \in Callers, FindFails(c) \/ Decide(c) PROVE SessionInv'
    BY <1>6, EndKeeps
  <1>7. ASSUME UNCHANGED sessionVars PROVE SessionInv'
    BY <1>7 DEF sessionVars, SessionInv, SessionTypeOK, RowsFiled, CallOK, Judge, ActiveAt
  <1> QED  BY <1>1, <1>2, <1>3, <1>4, <1>5, <1>6, <1>7 DEF SessionNext

(* The type invariant of the store and of the calls under way.               *)
THEOREM SessionTypeCorrect == SessionSpec => []SessionTypeOK
  <1>1. SessionInv => SessionTypeOK
    BY DEF SessionInv
  <1> QED  BY <1>1, SessionStarts, SessionKeeps, PTL DEF SessionSpec

(* However slow the lookup and whatever the application does meanwhile,        *)
(* AuthenticateSession answers as of some instant of the call.               *)
THEOREM AnswersAreOfAnInstant == SessionSpec => []AnswerOfAnInstant
  <1>1. SessionInv => AnswerOfAnInstant
    BY DEF SessionInv, CallOK, AnswerOfAnInstant
  <1> QED  BY <1>1, SessionStarts, SessionKeeps, PTL DEF SessionSpec

-----------------------------------------------------------------------------
(* Webhook deliveries.                                                       *)

Errors == {"none", "ErrBodyTooLarge", "ErrInvalidSignature",
           "ErrInvalidTimestamp", "ErrStaleTimestamp"}

Header(parts, header) ==
    /\ DOMAIN header = 1..Len(header) /\ Len(header) \in Nat
    /\ \A i \in DOMAIN header : header[i] \in parts

(* A delivery under way was put together from what was signed so far, and     *)
(* was judged by the verifier that is there.                                 *)
DeliveryInv ==
    /\ WebhookTypeOK
    /\ delivery # NoDelivery =>
          /\ Header(Parts, delivery.header)
          /\ delivery.now \in Clocks
          /\ delivery.err = VerifyAt(delivery.now, delivery.header, delivery.body)
          /\ delivery.err = "none" =>
                delivery.time = ParseHeader(delivery.header).unix

(* A signature in a header is one that was made, or belongs to no secret.     *)
LEMMA SignaturesWereMade ==
    ASSUME NEW part \in Parts, part.key = "v1"
    PROVE  part.value \in signed \/ part.value.secret = "forged"
  <1>1. \A u : Stamp(u).key = "t"
    BY DEF Stamp, Part
  <1>2. BadStamp.key = "t" /\ Malformed.key = "malformed"
    BY DEF BadStamp, Malformed, Part
  <1>3. \A s : Signature(s).value = s
    BY DEF Signature, Part
  <1>4. Forged.secret = "forged"
    BY DEF Forged, Sum
  <1> QED
    BY <1>1, <1>2, <1>3, <1>4 DEF Parts

LEMMA VerifyTypes ==
    ASSUME NEW now, NEW header, NEW body
    PROVE  VerifyAt(now, header, body) \in Errors
  <1>1. \A i : PartError(header, i) \in Errors
    BY DEF PartError, Errors
  <1>2. ParseHeader(header).err \in Errors
    BY <1>1 DEF ParseHeader, Errors
  <1> QED
    BY <1>2 DEF VerifyAt, Errors

(* Sub saturates beyond every tolerance, and the comparison of the age with    *)
(* both ends is one with the exact difference.                               *)
LEMMA FreshExact ==
    ASSUME WebhookTypeOK, NEW now \in Nat, NEW unix \in Nat
    PROVE  Fresh(now, unix) <=> now - 2 * unix \in -verifier.maxAge..verifier.maxAge
  <1>1. /\ verifier.maxAge \in Nat /\ verifier.maxAge < MaxDuration
        /\ MaxDuration \in Nat
    BY WebhookAssumption DEF WebhookTypeOK
  <1>2. now - 2 * unix \in Int
    OBVIOUS
  <1> QED
    BY <1>1, <1>2 DEF Fresh, Age

LEMMA SignedTypes ==
    ASSUME WebhookTypeOK, NEW s \in signed
    PROVE  /\ s.secret \in Secrets /\ s.unix \in Nat /\ s.body \in Bodies
           /\ s = Sum(s.secret, s.unix, s.body)
  <1>1. \A c \in Clocks : UnixOf(c) \in Nat
    BY WebhookAssumption DEF UnixOf
  <1> QED
    BY <1>1 DEF WebhookTypeOK, Sum

(* What is accepted was signed.                                              *)
LEMMA AcceptedIsSigned ==
    ASSUME WebhookTypeOK, NEW header, Header(Parts, header), NEW body,
           NEW now \in Clocks, VerifyAt(now, header, body) = "none"
    PROVE  \E s \in signed :
              /\ s.secret \in verifier.secrets
              /\ s.body = body /\ SizeOf[body] <= verifier.maxBody
              /\ now # 0
              /\ now - 2 * s.unix \in -verifier.maxAge..verifier.maxAge
              /\ s.unix = ParseHeader(header).unix
  <1> DEFINE p == ParseHeader(header)
  <1>1. /\ ~BodyTooLarge(body) /\ now # 0 /\ Fresh(now, p.unix)
        /\ \E secret \in verifier.secrets :
              Sum(secret, p.unix, body) \in p.signatures
    BY DEF VerifyAt
  <1>2. PICK secret \in verifier.secrets : Sum(secret, p.unix, body) \in p.signatures
    BY <1>1
  <1>3. PICK i \in Before(header, Len(header) + 1, "v1") :
           header[i].value = Sum(secret, p.unix, body)
    BY <1>2 DEF ParseHeader
  <1> DEFINE s == Sum(secret, p.unix, body)
  <1>4. header[i] \in Parts /\ header[i].key = "v1"
    BY <1>3 DEF Before, Header
  <1>5. s.secret = secret /\ s.unix = p.unix /\ s.body = body
    BY DEF Sum
  <1>6. s \in signed
    <2>1. secret \in Secrets /\ "forged" \notin Secrets
      BY WebhookAssumption DEF WebhookTypeOK
    <2> QED
      BY <1>3, <1>4, <1>5, <2>1, SignaturesWereMade
  <1> HIDE DEF p, s
  <1>7. now - 2 * s.unix \in -verifier.maxAge..verifier.maxAge
    BY <1>1, <1>5, <1>6, SignedTypes, FreshExact, WebhookAssumption
  <1>8. SizeOf[body] <= verifier.maxBody
    <2>1. SizeOf[body] \in Nat
      BY <1>5, <1>6, SignedTypes, WebhookAssumption
    <2>2. verifier.maxBody \in Nat
      BY WebhookAssumption DEF WebhookTypeOK
    <2> QED
      BY <1>1, <2>1, <2>2 DEF BodyTooLarge
  <1> QED
    BY <1>1, <1>2, <1>5, <1>6, <1>7, <1>8 DEF p

(* A signed header has one stamp and one signature, those of what was signed. *)
LEMMA SignedHeaderParses ==
    ASSUME NEW s
    PROVE  LET p == ParseHeader(SignedHeader(s)) IN
           p.err = "none" /\ p.unix = s.unix /\ p.signatures = {s}
  <1> DEFINE h == SignedHeader(s)
  <1>1. /\ Len(h) = 2 /\ DOMAIN h = {1, 2}
        /\ h[1].key = "t" /\ h[1].value.ok /\ h[1].value.unix = s.unix
        /\ h[2].key = "v1" /\ h[2].value = s
    BY DEF SignedHeader, Stamp, Signature, Part
  <1> HIDE DEF h
  <1>2. \A key : Before(h, 1, key) = {}
    BY DEF Before
  <1>3. Before(h, 2, "v1") = {}
    BY <1>1 DEF Before
  <1>4. Cardinality({}) < MaxSignatures
    BY FS_EmptySet, WebhookAssumption
  <1>5. PartError(h, 1) = "none" /\ PartError(h, 2) = "none"
    BY <1>1, <1>2, <1>3, <1>4 DEF PartError
  <1>6. Before(h, 3, "t") = {1} /\ Before(h, 3, "v1") = {2}
    <2>1. 1..(3 - 1) = {1, 2}
      OBVIOUS
    <2> QED
      BY <1>1, <2>1 DEF Before
  <1>7. Min({1}) = 1
    BY DEF Min
  <1>8. /\ {i \in DOMAIN h : PartError(h, i) # "none"} = {}
        /\ {h[i].value : i \in {2}} = {s}
    BY <1>1, <1>5
  <1>9. Len(h) + 1 = 3
    BY <1>1
  <1>10. ParseHeader(h) = [err |-> "none", unix |-> s.unix, signatures |-> {s}]
    BY <1>1, <1>6, <1>7, <1>8, <1>9 DEF ParseHeader
  <1> QED
    BY <1>10 DEF h

(* What was signed is accepted, while it is genuine.                         *)
LEMMA SignedIsAccepted ==
    ASSUME WebhookTypeOK, NEW s \in signed, NEW body, NEW now \in Clocks,
           s.secret \in verifier.secrets, s.body = body,
           SizeOf[body] <= verifier.maxBody, now # 0,
           now - 2 * s.unix \in -verifier.maxAge..verifier.maxAge
    PROVE  VerifyAt(now, SignedHeader(s), body) = "none"
  <1> DEFINE p == ParseHeader(SignedHeader(s))
  <1>1. p.err = "none" /\ p.unix = s.unix /\ p.signatures = {s}
    BY SignedHeaderParses
  <1>2. s = Sum(s.secret, s.unix, body) /\ s.unix \in Nat
    BY SignedTypes
  <1>3. ~BodyTooLarge(body)
    <2>1. verifier # Nil
      BY DEF Nil
    <2>2. SizeOf[body] \in Nat /\ verifier.maxBody \in Nat
      BY SMTT(30), SignedTypes, WebhookAssumption DEF WebhookTypeOK
    <2> QED
      BY <2>1, <2>2 DEF BodyTooLarge
  <1>4. Fresh(now, p.unix)
    BY <1>1, <1>2, FreshExact, WebhookAssumption
  <1> QED
    BY <1>1, <1>2, <1>3, <1>4 DEF VerifyAt

LEMMA InvIsExact == DeliveryInv => VerifiedExactly
  <1> SUFFICES ASSUME DeliveryInv
               PROVE  VerifiedExactly
    OBVIOUS
  <1>1. ASSUME Accepted
        PROVE  \E s \in signed : Genuine(s) /\ s.unix = delivery.time
    BY <1>1, AcceptedIsSigned DEF Accepted, DeliveryInv, Genuine
  <1>2. ASSUME NEW s \in signed, Genuine(s), delivery.header = SignedHeader(s)
        PROVE  Accepted
    <2>1. delivery # NoDelivery
      <3>1. Len(SignedHeader(s)) = 2 /\ NoDelivery.header = << >>
        BY DEF SignedHeader, NoDelivery
      <3> QED
        BY SMTT(30), <1>2, <3>1
    <2>2. VerifyAt(delivery.now, SignedHeader(s), delivery.body) = "none"
      BY <1>2, <2>1, SignedIsAccepted DEF DeliveryInv, Genuine
    <2> QED
      BY <1>2, <2>1, <2>2 DEF DeliveryInv, Accepted
  <1> QED
    BY <1>1, <1>2 DEF VerifiedExactly

LEMMA DeliveryStarts == WebhookInit => DeliveryInv
  BY WebhookAssumption DEF WebhookInit, DeliveryInv, WebhookTypeOK, Nil, NoDelivery

(* NewVerifier keeps valid secrets and bounds alone.                         *)
LEMMA ConfigureKeeps ==
    ASSUME DeliveryInv, delivery = NoDelivery, NEW config \in Configs,
           Configure(config)
    PROVE  DeliveryInv'
  <1> DEFINE age == OrDefault(config.maxAge, DefaultMaxAge)
             limit == OrDefault(config.maxBody, DefaultBody)
             v == [secrets |-> ToSet(config.secrets), maxAge |-> age,
                   maxBody |-> limit]
  <1>1. signed' = signed /\ delivery' = NoDelivery
    BY DEF Configure
  <1>2. CASE verifier' = Nil
    BY <1>1, <1>2, WebhookAssumption DEF DeliveryInv, WebhookTypeOK, Nil
  <1>3. CASE /\ verifier' = v
             /\ \A i \in DOMAIN config.secrets : ValidSecret(config.secrets[i])
             /\ age \in 0..MaxAge /\ limit \in 1..MaxBodyBytes
    <2>1. ToSet(config.secrets) \subseteq Secrets
      BY <1>3 DEF ToSet, ValidSecret
    <2>2. /\ v.secrets = ToSet(config.secrets) /\ v.maxAge = age
          /\ v.maxBody = limit
      OBVIOUS
    <2>3. limit \in 0..MaxBodyBytes
      BY <1>3, WebhookAssumption
    <2> HIDE DEF v, age, limit
    <2>4. WebhookTypeOK'
      BY <1>1, <1>3, <2>1, <2>2, <2>3 DEF DeliveryInv, WebhookTypeOK
    <2> QED
      BY <1>1, <2>4 DEF DeliveryInv
  <1> QED
    BY <1>2, <1>3 DEF Configure

LEMMA SignKeeps ==
    ASSUME DeliveryInv, delivery = NoDelivery, NEW secret \in Secrets,
           NEW timestamp \in Clocks, NEW body \in Bodies,
           Sign(secret, timestamp, body)
    PROVE  DeliveryInv'
  <1>1. verifier' = verifier /\ delivery' = NoDelivery
    BY DEF Sign
  <1>2. signed' = signed \cup {Sum(secret, UnixOf(timestamp), body)}
    BY DEF Sign
  <1>3. Sum(secret, UnixOf(timestamp), body) \in
           [secret : Secrets, unix : {UnixOf(c) : c \in Clocks}, body : Bodies]
    BY DEF Sum
  <1> QED
    BY <1>1, <1>2, <1>3 DEF DeliveryInv, WebhookTypeOK

LEMMA DeliverKeeps ==
    ASSUME DeliveryInv, NEW header \in BoundedSeq(Parts, MaxParts),
           NEW body, NEW now \in Clocks, Deliver(header, body, now)
    PROVE  DeliveryInv'
  <1> DEFINE err == VerifyAt(now, header, body)
             d == [header |-> header, body |-> body, now |-> now, err |-> err,
                   time |-> IF err = "none" THEN ParseHeader(header).unix ELSE 0]
  <1>1. verifier' = verifier /\ signed' = signed /\ delivery' = d
    BY DEF Deliver
  <1>2. err \in Errors
    BY VerifyTypes
  <1>3. Header(Parts, header)
    <2>1. PICK m \in 0..MaxParts : header \in [1..m -> Parts]
      BY DEF BoundedSeq, SeqOf
    <2>2. header \in Seq(Parts)
      BY <2>1, WebhookAssumption
    <2> QED
      BY <2>2 DEF Header
  <1>4. /\ d.header = header /\ d.body = body /\ d.now = now /\ d.err = err
        /\ err = "none" => d.time = ParseHeader(header).unix
    OBVIOUS
  <1>5. /\ Parts' = Parts
        /\ \A n, h, b : VerifyAt(n, h, b)' = VerifyAt(n, h, b)
    BY <1>1 DEF Parts, VerifyAt, BodyTooLarge, Fresh
  <1> HIDE DEF d
  <1>6. WebhookTypeOK'
    BY <1>1, <1>2, <1>4 DEF DeliveryInv, WebhookTypeOK, Errors
  <1> QED
    BY <1>1, <1>3, <1>4, <1>5, <1>6 DEF DeliveryInv, Header

LEMMA DeliveryKeeps == DeliveryInv /\ [WebhookNext]_webhookVars => DeliveryInv'
  <1> SUFFICES ASSUME DeliveryInv, [WebhookNext]_webhookVars
               PROVE  DeliveryInv'
    OBVIOUS
  <1>1. CASE UNCHANGED webhookVars
    BY <1>1 DEF DeliveryInv, WebhookTypeOK, Header, Parts, VerifyAt, BodyTooLarge,
                Fresh, webhookVars
  <1>2. CASE Dismiss
    BY <1>2 DEF Dismiss, DeliveryInv, WebhookTypeOK, NoDelivery
  <1> QED
    BY <1>1, <1>2, ConfigureKeeps, SignKeeps, DeliverKeeps DEF WebhookNext

(* A delivery is accepted exactly when a holder of a current secret signed    *)
(* this body within the tolerance of now: VerifyAt checks the sum of the one  *)
(* stamp that parseHeader lets through against every signature, before and    *)
(* after secrets rotate (webhook.go:118-149, 167-209).                       *)
THEOREM DeliveriesAreVerified == WebhookSpec => []VerifiedExactly
  BY DeliveryStarts, DeliveryKeeps, InvIsExact, PTL DEF WebhookSpec

-----------------------------------------------------------------------------
(* Side by side, each package takes its own steps or none.                   *)
LEMMA PackagesSpecs ==
    Spec => EntitlementSpec /\ SessionSpec /\ WebhookSpec /\ LimiterSpec
  <1>1. Init => EntitlementInit /\ SessionInit /\ WebhookInit /\ LimiterInit
    BY DEF Init
  <1>2. [Next]_<<entitlementVars, sessionVars, webhookVars, limiterVars, focus>> =>
           /\ [EntitlementNext]_entitlementVars
           /\ [SessionNext]_sessionVars
           /\ [WebhookNext]_webhookVars
           /\ [LimiterNext]_limiterVars
    BY DEF Next
  <1> QED
    BY <1>1, <1>2, PTL
       DEF Spec, EntitlementSpec, SessionSpec, WebhookSpec, LimiterSpec

(* The state of each package keeps its types: a Verifier never holds a secret *)
(* or a bound that NewVerifier refuses, a decision is one of the package's,    *)
(* a call under way has a row, or none, for its token, and no window counts    *)
(* more than the limit.                                                      *)
THEOREM PackagesAreTyped == Spec => []PackagesTypeOK
  <1>1. DecisionInv => EntitlementTypeOK
    BY DEF DecisionInv
  <1>2. SessionInv => SessionTypeOK
    BY DEF SessionInv
  <1>3. DeliveryInv => WebhookTypeOK
    BY DEF DeliveryInv
  <1>4. EntitlementSpec => []EntitlementTypeOK
    BY <1>1, DecisionStarts, DecisionKeeps, PTL DEF EntitlementSpec
  <1>5. SessionSpec => []SessionTypeOK
    BY <1>2, SessionStarts, SessionKeeps, PTL DEF SessionSpec
  <1>6. WebhookSpec => []WebhookTypeOK
    BY <1>3, DeliveryStarts, DeliveryKeeps, PTL DEF WebhookSpec
  <1>7. EntitlementTypeOK /\ SessionTypeOK /\ WebhookTypeOK /\ LimiterTypeOK
           => PackagesTypeOK
    BY DEF PackagesTypeOK
  <1> QED
    BY <1>4, <1>5, <1>6, <1>7, LimiterTypeCorrect, PackagesSpecs, PTL
=============================================================================
