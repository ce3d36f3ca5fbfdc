------------------------------ MODULE Webhook ------------------------------
(***************************************************************************)
(* Signing and verification of webhook/webhook.go: a sender signs bodies    *)
(* with secrets and a clock of its own; the receiver builds a Verifier from  *)
(* one configuration after another as secrets rotate, and checks deliveries  *)
(* whose header puts together any parts, of one signed header or several.    *)
(* A signature is what was summed: HMAC-SHA256 is taken to be injective.     *)
(* Clocks count half seconds, because a stamp keeps only the whole ones.     *)
(***************************************************************************)
EXTENDS Integers, FiniteSets, Sequences, SequencesExt

CONSTANTS
    Secrets,        \* secrets of a valid length
    Bodies,         \* payloads
    SizeOf,         \* their sizes in bytes
    Configs,        \* configurations given to NewVerifier
    MaxSecrets,     \* secrets in a configuration: 8
    MaxAge,         \* cap of the tolerance: 24 h
    DefaultMaxAge,  \* 5 min
    MaxBodyBytes,   \* cap of the body limit: 8 MiB
    DefaultBody,    \* DefaultMaxBodyBytes: 1 MiB
    MaxDuration,    \* the largest Duration, at which Time.Sub saturates
    Clocks,         \* instants of the sender's and the receiver's clocks
    FarStamp,       \* a stamp further away than any Duration
    MaxSignatures,  \* v1 parts in a header: 8
    MaxParts,       \* bound: parts in a delivered header
    MaxSigned       \* bound: signatures made

ASSUME WebhookAssumption ==
    /\ "weak" \notin Secrets /\ "forged" \notin Secrets
    /\ SizeOf \in [Bodies -> Nat]
    /\ Configs \subseteq [secrets : Seq(Secrets \cup {"weak"}),
                          maxAge : Int, maxBody : Int]
    /\ {MaxAge, MaxBodyBytes, MaxSecrets, MaxSignatures} \subseteq Nat \ {0}
    /\ MaxDuration \in Nat /\ MaxDuration > MaxAge
    /\ DefaultMaxAge \in 1..MaxAge /\ DefaultBody \in 1..MaxBodyBytes
    /\ Clocks \subseteq Nat
    /\ {MaxParts, MaxSigned} \subseteq Nat

VARIABLES
    verifier,   \* the receiver's Verifier, or nil
    signed,     \* history: what Sign has returned signatures of
    delivery    \* the last delivery and what VerifyAt made of it

webhookVars == <<verifier, signed, delivery>>

Nil == [secrets |-> {}, maxAge |-> 0, maxBody |-> 0]
NoDelivery == [header |-> <<>>, body |-> CHOOSE b \in Bodies : TRUE,
               now |-> 0, err |-> "none", time |-> 0]

ValidSecretAny(secret) == TRUE  \* variant: no minimal length

ValidSecret(secret) == secret \in Secrets

UnixOf(timestamp) == timestamp \div 2

Sum(secret, unix, body) == [secret |-> secret, unix |-> unix, body |-> body]

-----------------------------------------------------------------------------
(* A header is the sequence of its parts: a stamp, a signature, or one that   *)
(* is malformed (which also stands for an oversized header).                 *)
Part(key, value) == [key |-> key, value |-> value]

Stamp(unix) == Part("t", [unix |-> unix, ok |-> TRUE])
Signature(s) == Part("v1", s)
BadStamp == Part("t", [unix |-> 0, ok |-> FALSE])
Malformed == Part("malformed", Nil)
Forged == Sum("forged", 0, NoDelivery.body)

SignedHeader(s) == <<Stamp(s.unix), Signature(s)>>

(* parseHeader stops at the first part that it refuses; the limit of v1 parts *)
(* counts those before.                                                      *)
Before(header, i, key) == {j \in 1..(i - 1) : header[j].key = key}

PartError(header, i) ==
    IF header[i].key = "t"
    THEN IF Before(header, i, "t") # {} THEN "ErrInvalidSignature"
         ELSE IF header[i].value.ok THEN "none" ELSE "ErrInvalidTimestamp"
    ELSE IF /\ header[i].key = "v1"
            /\ Cardinality(Before(header, i, "v1")) < MaxSignatures
         THEN "none" ELSE "ErrInvalidSignature"

ParseHeader(header) ==
    LET refused == {i \in DOMAIN header : PartError(header, i) # "none"}
        stamps == Before(header, Len(header) + 1, "t")
        signatures == Before(header, Len(header) + 1, "v1") IN
    [err |-> IF refused # {} THEN PartError(header, Min(refused))
             ELSE IF stamps = {} \/ signatures = {} THEN "ErrInvalidSignature"
             ELSE "none",
     unix |-> IF stamps = {} THEN 0 ELSE header[Min(stamps)].value.unix,
     signatures |-> {header[i].value : i \in signatures}]

(* now.Sub(timestamp) saturates.                                             *)
Age(now, unix) ==
    LET d == now - 2 * unix IN
    IF d > MaxDuration THEN MaxDuration ELSE IF d < -MaxDuration THEN -MaxDuration
    ELSE d

FreshOneSided(now, unix) == Age(now, unix) <= verifier.maxAge
    \* variant: stamps of the future are never stale

Fresh(now, unix) ==
    Age(now, unix) <= verifier.maxAge /\ Age(now, unix) >= -verifier.maxAge

(* ReadBody, which stops one byte after the limit.                           *)
BodyTooLarge(body) ==
    verifier = Nil \/ SizeOf[body] > verifier.maxBody

(* The error of VerifyAt, "none" when the delivery is genuine.               *)
VerifyAt(now, header, body) ==
    LET p == ParseHeader(header) IN
    IF BodyTooLarge(body) THEN "ErrBodyTooLarge"
    ELSE IF p.err # "none" THEN p.err
    ELSE IF now = 0 THEN "ErrInvalidTimestamp"
    ELSE IF ~Fresh(now, p.unix) THEN "ErrStaleTimestamp"
    ELSE IF \E secret \in verifier.secrets :
                Sum(secret, p.unix, body) \in p.signatures
         THEN "none"
    ELSE "ErrInvalidSignature"

-----------------------------------------------------------------------------
WebhookInit ==
    /\ verifier = Nil
    /\ signed = {}
    /\ delivery = NoDelivery

OrDefault(n, default) == IF n = 0 THEN default ELSE n

(* NewVerifier: a refused configuration leaves the receiver without one.      *)
Configure(config) ==
    LET age == OrDefault(config.maxAge, DefaultMaxAge)
        limit == OrDefault(config.maxBody, DefaultBody)
        refused == \/ Len(config.secrets) \notin 1..MaxSecrets
                   \/ \E i \in DOMAIN config.secrets :
                          ~ValidSecret(config.secrets[i])
                   \/ age \notin 0..MaxAge
                   \/ limit \notin 1..MaxBodyBytes IN
    /\ verifier' = IF refused THEN Nil
                   ELSE [secrets |-> ToSet(config.secrets), maxAge |-> age,
                         maxBody |-> limit]
    /\ UNCHANGED <<signed, delivery>>

(* Sign: a refused one returns no header.                                    *)
Sign(secret, timestamp, body) ==
    /\ ValidSecret(secret) /\ SizeOf[body] <= MaxBodyBytes /\ timestamp # 0
    /\ Cardinality(signed) < MaxSigned
    /\ signed' = signed \cup {Sum(secret, UnixOf(timestamp), body)}
    /\ UNCHANGED <<verifier, delivery>>

Deliver(header, body, now) ==
    /\ LET err == VerifyAt(now, header, body) IN
       delivery' = [header |-> header, body |-> body, now |-> now, err |-> err,
                    time |-> IF err = "none" THEN ParseHeader(header).unix ELSE 0]
    /\ UNCHANGED <<verifier, signed>>

(* The receiver has dealt with the delivery.                                 *)
Dismiss ==
    /\ delivery # NoDelivery
    /\ delivery' = NoDelivery
    /\ UNCHANGED <<verifier, signed>>

Parts ==
    {Stamp(s.unix) : s \in signed} \cup {Signature(s) : s \in signed}
        \cup {Stamp(FarStamp), BadStamp, Signature(Forged), Malformed}

WebhookNext ==
    \/ /\ delivery = NoDelivery
       /\ \/ \E config \in Configs : Configure(config)
          \/ \E secret \in Secrets, timestamp \in Clocks, body \in Bodies :
                Sign(secret, timestamp, body)
          \/ \E header \in BoundedSeq(Parts, MaxParts), body \in Bodies,
                now \in Clocks : Deliver(header, body, now)
    \/ Dismiss

WebhookSpec == WebhookInit /\ [][WebhookNext]_webhookVars

-----------------------------------------------------------------------------
WebhookTypeOK ==
    /\ verifier.secrets \subseteq Secrets
    /\ verifier.maxAge \in 0..MaxAge
    /\ verifier.maxBody \in 0..MaxBodyBytes
    /\ signed \subseteq [secret : Secrets, unix : {UnixOf(c) : c \in Clocks},
                         body : Bodies]
    /\ delivery.err \in {"none", "ErrBodyTooLarge", "ErrInvalidSignature",
                         "ErrInvalidTimestamp", "ErrStaleTimestamp"}

Accepted == delivery # NoDelivery /\ delivery.err = "none"

(* Within the tolerance of a body that a holder of this secret signed.        *)
Genuine(s) ==
    /\ s.secret \in verifier.secrets
    /\ s.body = delivery.body
    /\ SizeOf[s.body] <= verifier.maxBody
    /\ delivery.now # 0
    /\ delivery.now - 2 * s.unix \in -verifier.maxAge..verifier.maxAge

(* Through any rotation of secrets and any recombination of header parts, a    *)
(* delivery is accepted only when a holder of a current secret signed this     *)
(* body at the time returned, within the tolerance on either side; and a       *)
(* header that Sign returned, delivered with its body, is accepted whenever    *)
(* that is so.                                                               *)
VerifiedExactly ==
    /\ Accepted => \E s \in signed : Genuine(s) /\ s.unix = delivery.time
    /\ \A s \in signed :
           Genuine(s) /\ delivery.header = SignedHeader(s) => Accepted
=============================================================================
