----------------------------- MODULE RateLimiter -----------------------------
(***************************************************************************)
(* The in-memory fixed-window limiter of ratelimit/ratelimit.go.  A caller  *)
(* of Allow reads the clock before it takes the mutex, so the time a call   *)
(* decides with may be older than the window another call has opened        *)
(* meanwhile.  The number of keys is bounded: a new key that finds the map  *)
(* full evicts the expired entries first.                                   *)
(***************************************************************************)
EXTENDS Integers, Sequences, FiniteSets

CONSTANTS
    LimiterCallers,     \* goroutines that call Allow, one call after another
    Keys,               \* valid limiter keys
    NoKey,              \* the key of a caller outside Allow
    Policies,           \* arguments of NewMemory: [limit, window, maxKeys]
    DefaultWindow, MinWindow, MaxWindow,
    DefaultMaxKeys, MaxKeys,
    LimiterMaxClock     \* bound: the last clock reading

ASSUME LimiterAssumption ==
    /\ IsFiniteSet(Keys)
    /\ NoKey \notin Keys
    /\ Policies \subseteq [limit : Int, window : Int, maxKeys : Int]
    /\ MinWindow \in Nat \ {0}
    /\ MaxWindow \in Nat
    /\ DefaultWindow \in MinWindow..MaxWindow
    /\ MaxKeys \in Nat
    /\ DefaultMaxKeys \in 1..MaxKeys
    /\ LimiterMaxClock \in Nat

VARIABLES
    memory,     \* the limiter's policy and key bound, or NilMemory
    entries,    \* m.entries: [a subset of Keys -> [count, started]]
    monotonic,  \* the monotonic clock
    stage,      \* [LimiterCallers -> "idle", "stamped"]
    asked,      \* [LimiterCallers -> Keys]: the key of the call under way
    readAt,     \* [LimiterCallers -> the time the call read]
    reply,      \* what the latest step returned to its caller, if it did
    last        \* history: [Keys -> [started, grants]] of the latest window

limiterVars == <<memory, entries, monotonic, stage, asked, readAt, reply, last>>

AllowAnswers == {"none", "allow", "deny", "capacity", "invalid"}

NilMemory == [limit |-> 0, window |-> 0, maxKeys |-> 0]

-----------------------------------------------------------------------------
(* NewMemory: the defaults, then the bounds.                                 *)
OrDefaultLimit(v, d) == IF v = 0 THEN d ELSE v

Resolved(p) == [limit   |-> p.limit,
                window  |-> OrDefaultLimit(p.window, DefaultWindow),
                maxKeys |-> OrDefaultLimit(p.maxKeys, DefaultMaxKeys)]

WithinLimits(p) ==
    /\ p.limit >= 1
    /\ p.window \in MinWindow..MaxWindow
    /\ p.maxKeys \in 1..MaxKeys

NewMemory(p) == IF WithinLimits(Resolved(p)) THEN Resolved(p) ELSE NilMemory

-----------------------------------------------------------------------------
LimiterInit ==
    /\ \E p \in Policies : memory = NewMemory(p)
    /\ entries = [k \in {} |-> 0]
    /\ monotonic = 0
    /\ stage = [c \in LimiterCallers |-> "idle"]
    /\ asked = [c \in LimiterCallers |-> NoKey]
    /\ readAt = [c \in LimiterCallers |-> 0]
    /\ reply = "none"
    /\ last = [k \in Keys |-> [started |-> -MaxWindow, grants |-> 0]]

LimiterTick ==
    /\ monotonic < LimiterMaxClock
    /\ monotonic' = monotonic + 1
    /\ reply' = "none"
    /\ UNCHANGED <<memory, entries, stage, asked, readAt, last>>

(* A nil limiter or context, an invalid key or a context that is done        *)
(* already: an error, and nothing is counted.                                *)
CallInvalid(c) ==
    /\ stage[c] = "idle"
    /\ reply' = "invalid"
    /\ UNCHANGED <<memory, entries, monotonic, stage, asked, readAt, last>>

(* The clock is read, and then the mutex is waited for.                      *)
Call(c, k) ==
    /\ stage[c] = "idle"
    /\ memory # NilMemory
    /\ stage' = [stage EXCEPT ![c] = "stamped"]
    /\ asked' = [asked EXCEPT ![c] = k]
    /\ readAt' = [readAt EXCEPT ![c] = monotonic]
    /\ reply' = "none"
    /\ UNCHANGED <<memory, entries, monotonic, last>>

-----------------------------------------------------------------------------
(* The critical section of Allow.  Each disjunct is one way through it; t is *)
(* the time the call read, which may lie before entries[k].started.          *)

ExpiredByBucket(k, t) ==    \* variant: windows aligned to the clock
    t \div memory.window # entries[k].started \div memory.window

Expired(k, t) == t - entries[k].started >= memory.window

Full == Cardinality(DOMAIN entries) >= memory.maxKeys

Without(S) == [k \in DOMAIN entries \ S |-> entries[k]]

EvictOldest(t) ==   \* variant
    Without({k \in DOMAIN entries : \A j \in DOMAIN entries :
                entries[k].started <= entries[j].started})

evictExpired(t) == Without({k \in DOMAIN entries : Expired(k, t)})

With(f, k, e) == [j \in DOMAIN f \cup {k} |-> IF j = k THEN e ELSE f[j]]

OpenWindow(f, k, t) ==
    /\ entries' = With(f, k, [count |-> 1, started |-> t])
    /\ last' = [last EXCEPT ![k] = [started |-> t, grants |-> 1]]

(* Variants of the actions below, not part of the specification.             *)
AdmitKeyUnchecked(k, t) ==
    /\ k \notin DOMAIN entries
    /\ OpenWindow(IF Full THEN evictExpired(t) ELSE entries, k, t)

RefuseKeyBeforeEviction(k, t) ==
    /\ k \notin DOMAIN entries
    /\ Full
    /\ UNCHANGED <<entries, last>>

(* A found key whose window is over starts a new one.                        *)
RenewWindow(k, t) ==
    /\ k \in DOMAIN entries
    /\ Expired(k, t)
    /\ OpenWindow(entries, k, t)

(* A new key needs room, after an eviction if the map is full.               *)
AdmitKey(k, t) ==
    LET kept == IF Full THEN evictExpired(t) ELSE entries IN
    /\ k \notin DOMAIN entries
    /\ Cardinality(DOMAIN kept) < memory.maxKeys
    /\ OpenWindow(kept, k, t)

(* ErrCapacity: the eviction found too little, and keeps what it found.      *)
RefuseKey(k, t) ==
    /\ k \notin DOMAIN entries
    /\ Cardinality(DOMAIN evictExpired(t)) >= memory.maxKeys
    /\ entries' = evictExpired(t)
    /\ UNCHANGED last

CountGrant(k, t) ==
    /\ k \in DOMAIN entries
    /\ ~Expired(k, t)
    /\ entries[k].count < memory.limit
    /\ entries' = [entries EXCEPT ![k].count = @ + 1]
    /\ last' = [last EXCEPT ![k].grants = @ + 1]

Deny(k, t) ==
    /\ k \in DOMAIN entries
    /\ ~Expired(k, t)
    /\ entries[k].count >= memory.limit
    /\ UNCHANGED <<entries, last>>

AllowReturns(c, a) ==
    /\ stage' = [stage EXCEPT ![c] = "idle"]
    /\ asked' = [asked EXCEPT ![c] = NoKey]
    /\ readAt' = [readAt EXCEPT ![c] = 0]
    /\ reply' = a
    /\ UNCHANGED <<memory, monotonic>>

DecideAllow(c) ==
    /\ stage[c] = "stamped"
    /\ \/ RenewWindow(asked[c], readAt[c]) /\ AllowReturns(c, "allow")
       \/ AdmitKey(asked[c], readAt[c]) /\ AllowReturns(c, "allow")
       \/ RefuseKey(asked[c], readAt[c]) /\ AllowReturns(c, "capacity")
       \/ CountGrant(asked[c], readAt[c]) /\ AllowReturns(c, "allow")
       \/ Deny(asked[c], readAt[c]) /\ AllowReturns(c, "deny")

LimiterNext ==
    \/ LimiterTick
    \/ \E c \in LimiterCallers : CallInvalid(c) \/ DecideAllow(c)
    \/ \E c \in LimiterCallers, k \in Keys : Call(c, k)

LimiterSpec == LimiterInit /\ [][LimiterNext]_limiterVars

-----------------------------------------------------------------------------
(* Properties                                                                *)

LimiterTypeOK ==
    /\ memory \in [limit : Nat, window : Nat, maxKeys : Nat]
    /\ DOMAIN entries \subseteq Keys
    /\ \A k \in DOMAIN entries :
          entries[k] \in [count : 1..memory.limit, started : 0..LimiterMaxClock]
    /\ monotonic \in 0..LimiterMaxClock
    /\ stage \in [LimiterCallers -> {"idle", "stamped"}]
    /\ asked \in [LimiterCallers -> Keys \cup {NoKey}]
    /\ readAt \in [LimiterCallers -> 0..LimiterMaxClock]
    /\ reply \in AllowAnswers
    /\ last \in [Keys -> [started : Int, grants : Nat]]

(* The map never holds more than maxKeys keys, however many keys, callers    *)
(* and stale clock readings meet in the critical section                     *)
(* (ratelimit.go:86-92).                                                     *)
KeysBounded == Cardinality(DOMAIN entries) <= memory.maxKeys

(* No window of a key admits more than the limit, and the key's next window  *)
(* opens, in real time, no earlier than the previous one is over: neither a  *)
(* stale clock reading nor an eviction for another key gives a key its       *)
(* budget back early (ratelimit.go:85-100).                                  *)
WindowBudget ==
    [][\A k \in Keys : last'[k] # last[k] =>
          \/ /\ last'[k].started = last[k].started
             /\ last'[k].grants = last[k].grants + 1
             /\ last'[k].grants <= memory.limit
          \/ monotonic >= last[k].started + memory.window]_limiterVars

(* ErrCapacity is honest: every slot is taken by a key whose window is not   *)
(* over at the time the call read (ratelimit.go:86-91).                      *)
CapacityHonest ==
    [][\A c \in LimiterCallers :
          (stage[c] # stage'[c] /\ reply' = "capacity") =>
             /\ Cardinality(DOMAIN entries') = memory.maxKeys
             /\ \A k \in DOMAIN entries' :
                   readAt[c] - entries'[k].started < memory.window]_limiterVars

(* While a key stays in the map its window only moves forward: a caller      *)
(* whose clock reading is older than the window does not reopen it           *)
(* (ratelimit.go:81-85).                                                     *)
WindowMovesForward ==
    [][\A k \in Keys : k \in DOMAIN entries \cap DOMAIN entries' =>
          entries'[k].started >= entries[k].started]_limiterVars
=============================================================================
