---------------------------- MODULE Entitlement ----------------------------
(***************************************************************************)
(* Decide of entitlement/entitlement.go, one iteration of its loop a step.  *)
(* A grant is chosen when the loop reaches it; nothing reads it again.       *)
(* Quantities are unsigned machine integers, 0 is the zero Time, and the     *)
(* malformed feature is one that validFeature refuses.                       *)
(***************************************************************************)
EXTENDS Integers

CONSTANTS
    Features,       \* valid feature names
    MaxUint,        \* the largest quantity: 2^64 - 1
    MaxGrants,      \* grants per decision: 128
    GrantTimes      \* instants of grants and decisions

ASSUME EntitlementAssumption ==
    /\ "malformed" \notin Features
    /\ MaxUint \in Nat
    /\ MaxGrants \in Nat
    /\ GrantTimes \subseteq Nat

VARIABLES
    decideAt,   \* the decision's time
    require,    \* the Requirement
    length,     \* len(grants)
    at,         \* grants read
    granted,    \* the capped quantity
    flags,      \* the Boolean locals that are set
    outcome,    \* "deciding", "ok" or the error returned
    decision,   \* the Decision returned
    total,      \* history: the exact quantity of the active grants
    kinds       \* history: what the required feature's grants were

call == <<decideAt, require, length>>
loop == <<at, granted, flags>>
history == <<total, kinds>>
entitlementVars == <<call, loop, outcome, decision, history>>

Quantities == 0..MaxUint
Requirements == [feature : Features \cup {"malformed"}, quantity : Quantities]
Grants == [feature : Features \cup {"malformed"}, quantity : Quantities,
           startsAt : GrantTimes, endsAt : GrantTimes, revokedAt : GrantTimes]

(* One machine addition or subtraction leaves the range by less than its     *)
(* size.                                                                     *)
Wrap(n) == IF n < 0 THEN n + (MaxUint + 1)
           ELSE IF n > MaxUint THEN n - (MaxUint + 1) ELSE n

ValidRequirement(r) == r.feature # "malformed" /\ r.quantity # 0

ValidGrant(g) ==
    /\ g.feature # "malformed" /\ g.quantity # 0
    /\ g.startsAt # 0 /\ g.endsAt # 0 => g.endsAt > g.startsAt

Denied(reason, quantity) ==
    [allowed |-> FALSE, reason |-> reason, granted |-> quantity]

ZeroDecision == Denied("unknown", 0)

-----------------------------------------------------------------------------
(* What the comment on Grant says of one: it is in force from its start,      *)
(* before its end, while it is not revoked. Otherwise the reasons rank.       *)
Covers(g) ==
    /\ g.startsAt <= decideAt
    /\ g.endsAt = 0 \/ decideAt < g.endsAt
    /\ g.revokedAt = 0 \/ decideAt < g.revokedAt

KindOf(g) == IF Covers(g) THEN "active"
             ELSE IF g.revokedAt \in 1..decideAt THEN "revoked"
             ELSE IF g.startsAt > decideAt THEN "notStarted" ELSE "expired"

EntitlementInit ==
    /\ decideAt \in GrantTimes
    /\ require \in Requirements
    /\ length \in 0..MaxGrants + 1
    /\ at = 0
    /\ granted = 0
    /\ flags = {}
    /\ outcome = "deciding"
    /\ decision = ZeroDecision
    /\ total = 0
    /\ kinds = {}

Refused == decideAt = 0 \/ ~ValidRequirement(require) \/ length > MaxGrants

Return(result, d) ==
    /\ outcome' = result
    /\ decision' = d
    /\ UNCHANGED <<call, loop>>

Refuse ==
    /\ outcome = "deciding"
    /\ Refused
    /\ Return(IF decideAt = 0 THEN "ErrInvalidTime"
              ELSE IF ~ValidRequirement(require) THEN "ErrInvalidRequirement"
              ELSE "ErrInvalidGrant", ZeroDecision)
    /\ UNCHANGED history

AddWrapping(quantity) ==       \* variant: compare the sum with the quantity
    IF Wrap(granted + quantity) >= require.quantity THEN require.quantity
    ELSE Wrap(granted + quantity)

(* remaining = Quantity - granted, and the capped addition.                  *)
Add(quantity) ==
    IF quantity >= Wrap(require.quantity - granted) THEN require.quantity
    ELSE Wrap(granted + quantity)

(* The branch that a grant of the required feature takes.                    *)
Branch(g) ==
    IF g.revokedAt # 0 /\ ~(g.revokedAt > decideAt) THEN "revoked"
    ELSE IF g.startsAt # 0 /\ g.startsAt > decideAt THEN "notStarted"
    ELSE IF g.endsAt # 0 /\ ~(g.endsAt > decideAt) THEN "expired"
    ELSE "active"

(* One iteration: a malformed grant fails the whole decision, even one of     *)
(* another feature.                                                          *)
Looping == outcome = "deciding" /\ ~Refused /\ at < length

Reject(g) ==
    /\ Looping
    /\ ~ValidGrant(g)
    /\ Return("ErrInvalidGrant", ZeroDecision)
    /\ kinds' = kinds \cup {"malformed"}
    /\ UNCHANGED total

Skip(g) ==
    /\ Looping
    /\ ValidGrant(g)
    /\ g.feature # require.feature
    /\ at' = at + 1
    /\ UNCHANGED <<call, granted, flags, outcome, decision, history>>

Count(g) ==
    /\ Looping
    /\ ValidGrant(g)
    /\ g.feature = require.feature
    /\ at' = at + 1
    /\ flags' = flags \cup {"matched", Branch(g)}
    /\ granted' = IF Branch(g) = "active" THEN Add(g.quantity) ELSE granted
    /\ kinds' = kinds \cup {KindOf(g)}
    /\ total' = IF Covers(g) THEN total + g.quantity ELSE total
    /\ UNCHANGED <<call, outcome, decision>>

Conclude ==
    /\ outcome = "deciding"
    /\ ~Refused
    /\ at = length
    /\ Return("ok",
          IF granted = require.quantity
          THEN [allowed |-> TRUE, reason |-> "granted", granted |-> granted]
          ELSE IF "active" \in flags THEN Denied("insufficient", granted)
          ELSE IF "matched" \notin flags THEN Denied("noGrant", 0)
          ELSE IF "revoked" \in flags THEN Denied("revoked", 0)
          ELSE IF "notStarted" \in flags THEN Denied("notStarted", 0)
          ELSE Denied("expired", 0))
    /\ UNCHANGED history

EntitlementNext ==
    \/ Refuse
    \/ \E g \in Grants : Reject(g) \/ Skip(g) \/ Count(g)
    \/ Conclude

EntitlementSpec == EntitlementInit /\ [][EntitlementNext]_entitlementVars

-----------------------------------------------------------------------------
Kinds == {"active", "revoked", "notStarted", "expired"}

EntitlementTypeOK ==
    /\ decideAt \in GrantTimes
    /\ require \in Requirements
    /\ length \in 0..MaxGrants + 1
    /\ at \in 0..length
    /\ granted \in Quantities
    /\ flags \subseteq Kinds \cup {"matched"}
    /\ outcome \in {"deciding", "ok", "ErrInvalidTime", "ErrInvalidRequirement",
                    "ErrInvalidGrant"}
    /\ decision \in [allowed : BOOLEAN, granted : Quantities,
                     reason : {"unknown", "granted", "insufficient", "noGrant",
                               "revoked", "notStarted", "expired"}]
    /\ total \in Nat
    /\ kinds \subseteq Kinds \cup {"malformed"}

(* Access is decided by the exact sum of the grants in force, which no        *)
(* quantity near the machine's limit can wrap: it is allowed when the sum     *)
(* reaches the requirement, the quantity reported is the smaller of the two,  *)
(* a denial names what would have to change, and an error allows nothing.     *)
DecisionExact ==
    /\ outcome \notin {"deciding", "ok"} => decision = ZeroDecision
    /\ outcome = "ok" =>
         /\ decision.allowed <=> total >= require.quantity
         /\ decision.granted = IF decision.allowed THEN require.quantity ELSE total
         /\ decision.reason =
              IF decision.allowed THEN "granted"
              ELSE IF "active" \in kinds THEN "insufficient"
              ELSE IF kinds = {} THEN "noGrant"
              ELSE IF "revoked" \in kinds THEN "revoked"
              ELSE IF "notStarted" \in kinds THEN "notStarted"
              ELSE "expired"
=============================================================================
