-------------------------- MODULE RateLimiterProofs --------------------------
(***************************************************************************)
(* Proofs about RateLimiter, for every set of callers and keys, every       *)
(* policy and every clock bound.  WindowBudget speaks of the latest window   *)
(* a key was granted, which the map may have forgotten: the invariant says   *)
(* that it agrees with the map for the keys the map holds, and that it is    *)
(* over, in real time, for the others.                                      *)
(***************************************************************************)
EXTENDS RateLimiter, FiniteSetTheorems, TLAPS

(* A call under way has a valid key, a usable limiter and a time that is not *)
(* ahead of the clock.                                                       *)
CallInv ==
    \A c \in LimiterCallers :
        /\ readAt[c] <= monotonic
        /\ stage[c] = "stamped" => asked[c] \in Keys /\ WithinLimits(memory)

EntriesOK ==
    /\ DOMAIN entries \subseteq Keys
    /\ \A k \in DOMAIN entries :
          entries[k] \in [count : 1..memory.limit, started : 0..LimiterMaxClock]

LastInv ==
    \A k \in Keys :
        /\ k \in DOMAIN entries =>
              /\ last[k].started = entries[k].started
              /\ last[k].grants = entries[k].count
        /\ k \notin DOMAIN entries => last[k].started + memory.window <= monotonic

MemoryInv == memory = NilMemory \/ WithinLimits(memory)

IInv == LimiterTypeOK /\ MemoryInv /\ KeysBounded /\ CallInv /\ LastInv

-----------------------------------------------------------------------------
(* NewMemory returns nothing or a limiter within the package's limits.       *)
LEMMA NewMemoryWithinLimits ==
    ASSUME NEW p \in Policies
    PROVE  /\ NewMemory(p) \in [limit : Nat, window : Nat, maxKeys : Nat]
              /\ NewMemory(p).window <= MaxWindow
           /\ NewMemory(p) = NilMemory \/ WithinLimits(NewMemory(p))
  <1>1. p.limit \in Int /\ p.window \in Int /\ p.maxKeys \in Int
    BY LimiterAssumption
  <1> QED
    BY <1>1, LimiterAssumption
       DEF NewMemory, NilMemory, Resolved, OrDefaultLimit, WithinLimits

(* Sets of keys are finite.                                                  *)
LEMMA KeysFinite ==
    ASSUME NEW S \in SUBSET Keys
    PROVE  IsFiniteSet(S) /\ Cardinality(S) \in Nat
  BY LimiterAssumption, FS_Subset, FS_CardinalityType

LEMMA InitIInv == LimiterInit => IInv
  <1> SUFFICES ASSUME LimiterInit PROVE IInv
    OBVIOUS
  <1>1. PICK p \in Policies : memory = NewMemory(p)
    BY DEF LimiterInit
  <1>2. /\ memory \in [limit : Nat, window : Nat, maxKeys : Nat]
        /\ memory.window <= MaxWindow
        /\ MemoryInv
    BY <1>1, NewMemoryWithinLimits DEF MemoryInv
  <1>3. DOMAIN entries = {}
    BY DEF LimiterInit
  <1>4. LimiterTypeOK
    BY <1>2, <1>3, LimiterAssumption DEF LimiterInit, LimiterTypeOK, AllowAnswers
  <1>5. KeysBounded
    BY <1>2, <1>3, FS_EmptySet DEF KeysBounded
  <1>6. CallInv
    BY DEF LimiterInit, CallInv
  <1>7. LastInv
    BY <1>2, <1>3, LimiterAssumption DEF LimiterInit, LastInv
  <1> QED
    BY <1>2, <1>4, <1>5, <1>6, <1>7 DEF IInv

-----------------------------------------------------------------------------
(* What the map may forget: keys whose window is over by a time a call read. *)
LEMMA WithoutExpired ==
    ASSUME IInv, NEW t \in 0..monotonic
    PROVE  /\ DOMAIN evictExpired(t) \subseteq DOMAIN entries
           /\ \A j \in DOMAIN evictExpired(t) :
                 evictExpired(t)[j] = entries[j] /\ ~Expired(j, t)
           /\ \A j \in DOMAIN entries \ DOMAIN evictExpired(t) :
                 entries[j].started + memory.window <= monotonic
  <1>1. \A j \in DOMAIN entries :
           entries[j].started \in Int /\ memory.window \in Int /\ monotonic \in Int
    BY LimiterAssumption DEF IInv, LimiterTypeOK
  <1>2. t \in Int /\ t <= monotonic
    BY <1>1, LimiterAssumption DEF IInv, LimiterTypeOK
  <1> QED
    BY <1>1, <1>2 DEF evictExpired, Without, Expired

(* A window opens on a map that forgot only finished windows.                *)
LEMMA OpenWindowStep ==
    ASSUME IInv, NEW k \in Keys, NEW t \in 0..monotonic, WithinLimits(memory),
           NEW f, DOMAIN f \subseteq DOMAIN entries,
           \A j \in DOMAIN f : f[j] = entries[j],
           \A j \in DOMAIN entries \ DOMAIN f :
              entries[j].started + memory.window <= monotonic,
           Cardinality(DOMAIN f \cup {k}) <= memory.maxKeys,
           OpenWindow(f, k, t), UNCHANGED <<memory, monotonic>>
    PROVE  /\ EntriesOK' /\ KeysBounded' /\ LastInv'
           /\ last' \in [Keys -> [started : Int, grants : Nat]]
  <1>1. /\ DOMAIN entries' = DOMAIN f \cup {k}
        /\ entries'[k] = [count |-> 1, started |-> t]
        /\ \A j \in DOMAIN f : j # k => entries'[j] = entries[j]
        /\ last' = [last EXCEPT ![k] = [started |-> t, grants |-> 1]]
    BY DEF OpenWindow, With
  <1>2. /\ memory.limit \in Nat /\ memory.limit >= 1 /\ memory.window \in Nat
        /\ t \in 0..LimiterMaxClock /\ t \in Int /\ monotonic \in Int
        /\ last \in [Keys -> [started : Int, grants : Nat]]
        /\ DOMAIN entries \subseteq Keys
    BY LimiterAssumption DEF IInv, LimiterTypeOK, WithinLimits
  <1>3. EntriesOK'
    BY <1>1, <1>2 DEF IInv, LimiterTypeOK, EntriesOK
  <1>4. KeysBounded'
    BY <1>1 DEF KeysBounded
  <1>5. LastInv'
    <2> SUFFICES ASSUME NEW j \in Keys
                 PROVE  /\ j \in DOMAIN entries' =>
                              /\ last'[j].started = entries'[j].started
                              /\ last'[j].grants = entries'[j].count
                        /\ j \notin DOMAIN entries' =>
                              last'[j].started + memory.window <= monotonic
      BY DEF LastInv
    <2>1. CASE j = k
      BY <1>1, <1>2, <2>1
    <2>2. CASE j # k /\ j \in DOMAIN entries
      BY <1>1, <1>2, <2>2 DEF IInv, LastInv
    <2>3. CASE j # k /\ j \notin DOMAIN entries
      BY <1>1, <1>2, <2>3 DEF IInv, LastInv
    <2> QED
      BY <2>1, <2>2, <2>3
  <1>6. last' \in [Keys -> [started : Int, grants : Nat]]
    BY <1>1, <1>2
  <1> QED
    BY <1>3, <1>4, <1>5, <1>6

(* What a call under way decides with.                                       *)
LEMMA Decider ==
    ASSUME IInv, NEW c \in LimiterCallers, stage[c] = "stamped"
    PROVE  asked[c] \in Keys /\ readAt[c] \in 0..monotonic /\ WithinLimits(memory)
  BY LimiterAssumption DEF IInv, LimiterTypeOK, CallInv

LEMMA RenewWindowStep ==
    ASSUME IInv, NEW k \in Keys, NEW t \in 0..monotonic, WithinLimits(memory),
           RenewWindow(k, t), UNCHANGED <<memory, monotonic>>
    PROVE  /\ EntriesOK' /\ KeysBounded' /\ LastInv'
           /\ last' \in [Keys -> [started : Int, grants : Nat]]
  <1>1. DOMAIN entries \cup {k} = DOMAIN entries
    BY DEF RenewWindow
  <1>2. Cardinality(DOMAIN entries \cup {k}) <= memory.maxKeys
    BY <1>1 DEF IInv, KeysBounded
  <1> QED
    BY <1>2, OpenWindowStep DEF RenewWindow

LEMMA AdmitKeyStep ==
    ASSUME IInv, NEW k \in Keys, NEW t \in 0..monotonic, WithinLimits(memory),
           AdmitKey(k, t), UNCHANGED <<memory, monotonic>>
    PROVE  /\ EntriesOK' /\ KeysBounded' /\ LastInv'
           /\ last' \in [Keys -> [started : Int, grants : Nat]]
  <1> DEFINE kept == IF Full THEN evictExpired(t) ELSE entries
  <1>1. /\ DOMAIN kept \subseteq DOMAIN entries
        /\ \A j \in DOMAIN kept : kept[j] = entries[j]
        /\ \A j \in DOMAIN entries \ DOMAIN kept :
              entries[j].started + memory.window <= monotonic
    BY WithoutExpired
  <1>2. OpenWindow(kept, k, t) /\ Cardinality(DOMAIN kept) < memory.maxKeys
    BY DEF AdmitKey
  <1>3. IsFiniteSet(DOMAIN kept) /\ Cardinality(DOMAIN kept) \in Nat
    BY <1>1, KeysFinite DEF IInv, LimiterTypeOK
  <1>4. memory.maxKeys \in Nat
    BY DEF IInv, LimiterTypeOK
  <1>5. Cardinality(DOMAIN kept \cup {k}) <= memory.maxKeys
    BY <1>2, <1>3, <1>4, FS_AddElement
  <1> HIDE DEF kept
  <1> QED
    BY <1>1, <1>2, <1>5, OpenWindowStep

LEMMA RefuseKeyStep ==
    ASSUME IInv, NEW k \in Keys, NEW t \in 0..monotonic,
           RefuseKey(k, t), UNCHANGED <<memory, monotonic>>
    PROVE  /\ EntriesOK' /\ KeysBounded' /\ LastInv'
           /\ Cardinality(DOMAIN entries') = memory.maxKeys
           /\ \A j \in DOMAIN entries' : ~Expired(j, t) /\ entries'[j] = entries[j]
  <1>1. entries' = evictExpired(t) /\ last' = last
    BY DEF RefuseKey
  <1>2. /\ DOMAIN entries' \subseteq DOMAIN entries
        /\ \A j \in DOMAIN entries' : entries'[j] = entries[j] /\ ~Expired(j, t)
        /\ \A j \in DOMAIN entries \ DOMAIN entries' :
              entries[j].started + memory.window <= monotonic
    BY <1>1, WithoutExpired
  <1>3. EntriesOK'
    BY <1>2 DEF IInv, LimiterTypeOK, EntriesOK
  <1>4. /\ Cardinality(DOMAIN entries') <= Cardinality(DOMAIN entries)
        /\ Cardinality(DOMAIN entries') \in Nat
        /\ Cardinality(DOMAIN entries) \in Nat
    <2>1. IsFiniteSet(DOMAIN entries) /\ Cardinality(DOMAIN entries) \in Nat
      BY KeysFinite DEF IInv, LimiterTypeOK
    <2>2. /\ IsFiniteSet(DOMAIN entries')
          /\ Cardinality(DOMAIN entries') <= Cardinality(DOMAIN entries)
      BY <1>2, <2>1, FS_Subset
    <2> QED
      BY <2>1, <2>2, FS_CardinalityType
  <1>5. memory.maxKeys \in Nat
    BY DEF IInv, LimiterTypeOK
  <1>6. Cardinality(DOMAIN entries') = memory.maxKeys
    <2>1. Cardinality(DOMAIN entries) <= memory.maxKeys
      BY DEF IInv, KeysBounded
    <2>2. Cardinality(DOMAIN entries') >= memory.maxKeys
      BY <1>1 DEF RefuseKey
    <2> QED
      BY <1>4, <1>5, <2>1, <2>2
  <1>7. KeysBounded'
    BY <1>5, <1>6 DEF KeysBounded
  <1>8. LastInv'
    BY <1>1, <1>2 DEF IInv, LastInv
  <1> QED
    BY <1>2, <1>3, <1>6, <1>7, <1>8

LEMMA CountStep ==
    ASSUME IInv, NEW k \in Keys, NEW t \in 0..monotonic,
           CountGrant(k, t), UNCHANGED <<memory, monotonic>>
    PROVE  /\ EntriesOK' /\ KeysBounded' /\ LastInv'
           /\ last' \in [Keys -> [started : Int, grants : Nat]]
  <1>1. /\ k \in DOMAIN entries
        /\ entries[k] \in [count : 1..memory.limit, started : 0..LimiterMaxClock]
        /\ entries[k].count < memory.limit
        /\ memory.limit \in Nat
        /\ last \in [Keys -> [started : Int, grants : Nat]]
    BY DEF CountGrant, IInv, LimiterTypeOK
  <1>2. /\ entries' = [entries EXCEPT ![k] =
                          [entries[k] EXCEPT !.count = entries[k].count + 1]]
        /\ last' = [last EXCEPT ![k] =
                          [last[k] EXCEPT !.grants = last[k].grants + 1]]
    BY DEF CountGrant
  <1>3. DOMAIN entries' = DOMAIN entries
    BY <1>2
  <1>4. /\ entries'[k] \in [count : 1..memory.limit, started : 0..LimiterMaxClock]
        /\ entries'[k].count = entries[k].count + 1
        /\ entries'[k].started = entries[k].started
        /\ \A j \in DOMAIN entries : j # k => entries'[j] = entries[j]
    BY <1>1, <1>2, LimiterAssumption
  <1>5. EntriesOK'
    BY <1>3, <1>4 DEF IInv, LimiterTypeOK, EntriesOK
  <1>6. KeysBounded'
    BY <1>3 DEF IInv, KeysBounded
  <1>7. last' \in [Keys -> [started : Int, grants : Nat]]
    BY <1>1, <1>2
  <1>8. /\ last'[k].started = last[k].started
        /\ last'[k].grants = last[k].grants + 1
        /\ \A j \in Keys : j # k => last'[j] = last[j]
    BY <1>1, <1>2
  <1>9. LastInv'
    BY <1>1, <1>3, <1>4, <1>8 DEF IInv, LastInv
  <1> QED
    BY <1>5, <1>6, <1>7, <1>9

(* The critical section of Allow, whichever way through it is taken.         *)
LEMMA DecideStep ==
    ASSUME IInv, NEW c \in LimiterCallers, DecideAllow(c)
    PROVE  IInv'
  <1> DEFINE k == asked[c]
             t == readAt[c]
  <1>1. k \in Keys /\ t \in 0..monotonic /\ WithinLimits(memory)
    BY Decider DEF DecideAllow
  <1>2. /\ UNCHANGED <<memory, monotonic>>
        /\ stage' = [stage EXCEPT ![c] = "idle"]
        /\ asked' = [asked EXCEPT ![c] = NoKey]
        /\ readAt' = [readAt EXCEPT ![c] = 0]
        /\ reply' \in AllowAnswers
    BY DEF DecideAllow, AllowReturns, AllowAnswers
  <1>3. /\ EntriesOK' /\ KeysBounded' /\ LastInv'
        /\ last' \in [Keys -> [started : Int, grants : Nat]]
    <2>1. CASE RenewWindow(k, t)
      BY <1>1, <1>2, <2>1, RenewWindowStep
    <2>2. CASE AdmitKey(k, t)
      BY <1>1, <1>2, <2>2, AdmitKeyStep
    <2>3. CASE RefuseKey(k, t)
      <3>1. last' = last
        BY <2>3 DEF RefuseKey
      <3> QED
        BY <1>1, <1>2, <2>3, <3>1, RefuseKeyStep DEF IInv, LimiterTypeOK
    <2>4. CASE CountGrant(k, t)
      BY <1>1, <1>2, <2>4, CountStep
    <2>5. CASE Deny(k, t)
      BY <1>2, <2>5 DEF Deny, IInv, LimiterTypeOK, EntriesOK, KeysBounded, LastInv
    <2> QED
      BY <2>1, <2>2, <2>3, <2>4, <2>5 DEF DecideAllow
  <1>4. LimiterTypeOK' /\ MemoryInv'
    BY <1>2, <1>3, LimiterAssumption
       DEF IInv, LimiterTypeOK, EntriesOK, MemoryInv, WithinLimits
  <1>5. CallInv'
    BY <1>2, LimiterAssumption DEF IInv, LimiterTypeOK, CallInv, WithinLimits
  <1> QED
    BY <1>3, <1>4, <1>5 DEF IInv

(* Time passes, and calls are refused or wait for the mutex.                 *)
LEMMA OutsideStep ==
    ASSUME IInv,
           \/ LimiterTick
           \/ \E c \in LimiterCallers : CallInvalid(c)
           \/ \E c \in LimiterCallers, k \in Keys : Call(c, k)
           \/ UNCHANGED limiterVars
    PROVE  IInv'
  <1>1. UNCHANGED <<memory, entries, last>>
    BY DEF LimiterTick, CallInvalid, Call, limiterVars
  <1>2. monotonic' \in 0..LimiterMaxClock /\ monotonic <= monotonic'
    BY LimiterAssumption DEF LimiterTick, CallInvalid, Call, limiterVars, IInv, LimiterTypeOK
  <1>3. LimiterTypeOK' /\ CallInv'
    <2>1. CASE LimiterTick
      BY <1>2, <2>1, LimiterAssumption
         DEF LimiterTick, IInv, LimiterTypeOK, CallInv, AllowAnswers, WithinLimits
    <2>2. ASSUME NEW c \in LimiterCallers, CallInvalid(c) PROVE LimiterTypeOK' /\ CallInv'
      BY <2>2 DEF CallInvalid, IInv, LimiterTypeOK, CallInv, AllowAnswers, WithinLimits
    <2>3. ASSUME NEW c \in LimiterCallers, NEW k \in Keys, Call(c, k)
          PROVE  LimiterTypeOK' /\ CallInv'
      <3>1. WithinLimits(memory)
        BY <2>3 DEF Call, IInv, MemoryInv
      <3> QED
        BY <2>3, <3>1, LimiterAssumption
           DEF Call, IInv, LimiterTypeOK, CallInv, AllowAnswers, WithinLimits
    <2>4. CASE UNCHANGED limiterVars
      BY <2>4 DEF limiterVars, IInv, LimiterTypeOK, CallInv, WithinLimits
    <2> QED
      BY <2>1, <2>2, <2>3, <2>4
  <1>4. KeysBounded'
    BY <1>1 DEF IInv, KeysBounded
  <1>5. LastInv' /\ MemoryInv'
    BY <1>1, <1>2, LimiterAssumption
       DEF IInv, LimiterTypeOK, LastInv, MemoryInv, WithinLimits
  <1> QED
    BY <1>3, <1>4, <1>5 DEF IInv

LEMMA NextIInv == IInv /\ [LimiterNext]_limiterVars => IInv'
  BY DecideStep, OutsideStep DEF LimiterNext

(* The invariant is inductive.                                               *)
THEOREM Invariance == LimiterSpec => []IInv
  BY InitIInv, NextIInv, PTL DEF LimiterSpec

(* The limiter's state stays well-formed; no count exceeds the limit         *)
(* (ratelimit.go:84-101).                                                    *)
THEOREM LimiterTypeCorrect == LimiterSpec => []LimiterTypeOK
  <1>1. IInv => LimiterTypeOK
    BY DEF IInv
  <1> QED
    BY Invariance, <1>1, PTL

(* The map never outgrows maxKeys (ratelimit.go:86-92).                      *)
THEOREM MapIsBounded == LimiterSpec => []KeysBounded
  <1>1. IInv => KeysBounded
    BY DEF IInv
  <1> QED
    BY Invariance, <1>1, PTL

-----------------------------------------------------------------------------
(* What a step does to the budget of one key: it counts a grant within the   *)
(* limit, or the key's previous window is over.                              *)
Budget(k) ==
    last'[k] # last[k] =>
       \/ /\ last'[k].started = last[k].started
          /\ last'[k].grants = last[k].grants + 1
          /\ last'[k].grants <= memory.limit
       \/ monotonic >= last[k].started + memory.window

LEMMA DecideBudget ==
    ASSUME IInv, NEW c \in LimiterCallers, DecideAllow(c), NEW j \in Keys
    PROVE  Budget(j)
  <1> DEFINE k == asked[c]
             t == readAt[c]
  <1>1. k \in Keys /\ t \in 0..monotonic /\ WithinLimits(memory)
    BY Decider DEF DecideAllow
  <1>2. /\ last \in [Keys -> [started : Int, grants : Nat]]
        /\ memory.limit \in Nat /\ memory.window \in Nat
        /\ monotonic \in Int /\ t \in Int /\ t <= monotonic
    BY <1>1, LimiterAssumption DEF IInv, LimiterTypeOK
  <1>3. /\ j \in DOMAIN entries =>
              /\ last[j].started = entries[j].started
              /\ last[j].grants = entries[j].count
              /\ entries[j].count \in Nat /\ entries[j].started \in Int
        /\ j \notin DOMAIN entries => last[j].started + memory.window <= monotonic
    BY LimiterAssumption DEF IInv, LastInv, LimiterTypeOK
  <1>4. CASE RenewWindow(k, t)
    <2>1. j # k => last'[j] = last[j]
      BY <1>2, <1>4 DEF RenewWindow, OpenWindow
    <2>2. j = k => t - entries[j].started >= memory.window /\ j \in DOMAIN entries
      BY <1>4 DEF RenewWindow, Expired
    <2> QED
      BY <1>2, <1>3, <2>1, <2>2 DEF Budget
  <1>5. CASE AdmitKey(k, t)
    <2>1. j # k => last'[j] = last[j]
      BY <1>2, <1>5 DEF AdmitKey, OpenWindow
    <2>2. j = k => j \notin DOMAIN entries
      BY <1>5 DEF AdmitKey
    <2> QED
      BY <1>2, <1>3, <2>1, <2>2 DEF Budget
  <1>6. CASE CountGrant(k, t)
    <2>1. last' = [last EXCEPT ![k] =
                      [last[k] EXCEPT !.grants = last[k].grants + 1]]
      BY <1>6 DEF CountGrant
    <2>2. j # k => last'[j] = last[j]
      BY <1>2, <2>1
    <2>3. j = k => /\ last'[j].started = last[j].started
                   /\ last'[j].grants = last[j].grants + 1
      BY <1>2, <2>1
    <2>4. j = k => j \in DOMAIN entries /\ entries[j].count < memory.limit
      BY <1>6 DEF CountGrant
    <2> QED
      BY <1>2, <1>3, <2>2, <2>3, <2>4 DEF Budget
  <1>7. CASE RefuseKey(k, t) \/ Deny(k, t)
    BY <1>7 DEF RefuseKey, Deny, Budget
  <1> QED
    BY <1>4, <1>5, <1>6, <1>7 DEF DecideAllow

(* No window of a key grants more than the limit, and the next one opens,    *)
(* in real time, no earlier than the previous one is over, whatever stale    *)
(* clock readings and evictions meet in between (ratelimit.go:85-100).       *)
THEOREM BudgetIsKept == LimiterSpec => WindowBudget
  <1> DEFINE Kept == \A k \in Keys : last'[k] # last[k] =>
                        \/ /\ last'[k].started = last[k].started
                           /\ last'[k].grants = last[k].grants + 1
                           /\ last'[k].grants <= memory.limit
                        \/ monotonic >= last[k].started + memory.window
  <1>1. ASSUME IInv, [LimiterNext]_limiterVars PROVE \A k \in Keys : Budget(k)
    <2>1. CASE \E c \in LimiterCallers : DecideAllow(c)
      BY <1>1, <2>1, DecideBudget
    <2>2. CASE ~\E c \in LimiterCallers : DecideAllow(c)
      BY <1>1, <2>2 DEF LimiterNext, LimiterTick, CallInvalid, Call, limiterVars, Budget
    <2> QED
      BY <2>1, <2>2
  <1>2. IInv /\ [LimiterNext]_limiterVars => [Kept]_limiterVars
    BY <1>1 DEF Budget
  <1> QED
    BY Invariance, <1>2, PTL DEF LimiterSpec, WindowBudget

-----------------------------------------------------------------------------
(* A call that is refused for want of room leaves a full map of keys whose   *)
(* windows are not over at the time the call read.                           *)
Honest(c) ==
    (stage[c] # stage'[c] /\ reply' = "capacity") =>
       /\ Cardinality(DOMAIN entries') = memory.maxKeys
       /\ \A k \in DOMAIN entries' :
             readAt[c] - entries'[k].started < memory.window

LEMMA DecideHonest ==
    ASSUME IInv, NEW c \in LimiterCallers, DecideAllow(c), NEW d \in LimiterCallers
    PROVE  Honest(d)
  <1> SUFFICES ASSUME stage[d] # stage'[d], reply' = "capacity"
               PROVE  /\ Cardinality(DOMAIN entries') = memory.maxKeys
                      /\ \A k \in DOMAIN entries' :
                            readAt[d] - entries'[k].started < memory.window
    BY DEF Honest
  <1>1. /\ asked[c] \in Keys /\ readAt[c] \in 0..monotonic
        /\ readAt[c] \in Int /\ memory.window \in Int
    BY Decider, LimiterAssumption DEF DecideAllow, IInv, LimiterTypeOK
  <1>2. stage' = [stage EXCEPT ![c] = "idle"] /\ UNCHANGED <<memory, monotonic>>
    BY DEF DecideAllow, AllowReturns
  <1>3. d = c
    BY <1>2 DEF IInv, LimiterTypeOK
  <1>4. RefuseKey(asked[c], readAt[c])
    BY DEF DecideAllow, AllowReturns
  <1>5. /\ Cardinality(DOMAIN entries') = memory.maxKeys
        /\ \A k \in DOMAIN entries' :
              ~Expired(k, readAt[c]) /\ entries'[k] = entries[k]
              /\ entries'[k].started \in Int
    <2>1. /\ EntriesOK'
          /\ Cardinality(DOMAIN entries') = memory.maxKeys
          /\ \A k \in DOMAIN entries' :
                ~Expired(k, readAt[c]) /\ entries'[k] = entries[k]
      BY <1>1, <1>2, <1>4, RefuseKeyStep
    <2> QED
      BY <2>1 DEF EntriesOK
  <1> QED
    BY <1>1, <1>3, <1>5 DEF Expired

(* ErrCapacity is returned only when every slot is taken by a key whose      *)
(* window is not over (ratelimit.go:86-91).                                  *)
THEOREM RefusalIsHonest == LimiterSpec => CapacityHonest
  <1>1. ASSUME IInv, [LimiterNext]_limiterVars PROVE \A c \in LimiterCallers : Honest(c)
    <2>1. CASE \E c \in LimiterCallers : DecideAllow(c)
      BY <1>1, <2>1, DecideHonest
    <2>2. CASE ~\E c \in LimiterCallers : DecideAllow(c)
      BY <1>1, <2>2 DEF LimiterNext, LimiterTick, CallInvalid, Call, limiterVars, Honest
    <2> QED
      BY <2>1, <2>2
  <1>2. IInv /\ [LimiterNext]_limiterVars => [\A c \in LimiterCallers : Honest(c)]_limiterVars
    BY <1>1
  <1> QED
    BY Invariance, <1>2, PTL DEF LimiterSpec, CapacityHonest, Honest

-----------------------------------------------------------------------------
(* The window of a key the map still holds is never moved back.              *)
Forward ==
    \A k \in DOMAIN entries \cap DOMAIN entries' :
        entries'[k].started >= entries[k].started

LEMMA DecideForward ==
    ASSUME IInv, NEW c \in LimiterCallers, DecideAllow(c)
    PROVE  Forward
  <1> DEFINE k == asked[c]
             t == readAt[c]
  <1>1. k \in Keys /\ t \in 0..monotonic /\ WithinLimits(memory)
    BY Decider DEF DecideAllow
  <1> SUFFICES ASSUME NEW j \in DOMAIN entries, j \in DOMAIN entries'
               PROVE  entries'[j].started >= entries[j].started
    BY DEF Forward
  <1>2. /\ entries[j].started \in Int /\ t \in Int
        /\ memory.window \in Nat
        /\ entries[j] \in [count : 1..memory.limit, started : 0..LimiterMaxClock]
    BY <1>1, LimiterAssumption DEF IInv, LimiterTypeOK
  <1>3. CASE RenewWindow(k, t)
    <2>1. CASE j = k
      BY <1>2, <1>3, <2>1 DEF RenewWindow, OpenWindow, With, Expired
    <2>2. CASE j # k
      BY <1>2, <1>3, <2>2 DEF RenewWindow, OpenWindow, With
    <2> QED
      BY <2>1, <2>2
  <1>4. CASE AdmitKey(k, t)
    <2> DEFINE kept == IF Full THEN evictExpired(t) ELSE entries
    <2>1. \A i \in DOMAIN kept : kept[i] = entries[i]
      BY <1>1, WithoutExpired
    <2>2. j # k /\ OpenWindow(kept, k, t)
      BY <1>4 DEF AdmitKey
    <2> HIDE DEF kept
    <2> QED
      BY <1>2, <2>1, <2>2 DEF OpenWindow, With
  <1>5. CASE RefuseKey(k, t)
    <2>1. entries'[j] = entries[j]
      BY <1>1, <1>5, WithoutExpired DEF RefuseKey
    <2> QED
      BY <1>2, <2>1
  <1>6. CASE CountGrant(k, t)
    <2>1. entries' = [entries EXCEPT ![k] =
                         [entries[k] EXCEPT !.count = entries[k].count + 1]]
      BY <1>6 DEF CountGrant
    <2> QED
      BY <1>2, <2>1
  <1>7. CASE Deny(k, t)
    BY <1>2, <1>7 DEF Deny
  <1> QED
    BY <1>3, <1>4, <1>5, <1>6, <1>7 DEF DecideAllow

(* A caller whose clock reading is older than a key's window does not move   *)
(* the window back (ratelimit.go:81-85).                                     *)
THEOREM WindowsMoveForward == LimiterSpec => WindowMovesForward
  <1> DEFINE Kept == \A k \in Keys :
                        k \in DOMAIN entries \cap DOMAIN entries' =>
                           entries'[k].started >= entries[k].started
  <1>1. ASSUME IInv, [LimiterNext]_limiterVars PROVE Forward
    <2>1. CASE \E c \in LimiterCallers : DecideAllow(c)
      BY <1>1, <2>1, DecideForward
    <2>2. CASE ~\E c \in LimiterCallers : DecideAllow(c)
      <3>1. entries' = entries
        BY <1>1, <2>2 DEF LimiterNext, LimiterTick, CallInvalid, Call, limiterVars
      <3>2. \A j \in DOMAIN entries : entries[j].started \in Int
        BY <1>1, LimiterAssumption DEF IInv, LimiterTypeOK
      <3> QED
        BY <3>1, <3>2 DEF Forward
    <2> QED
      BY <2>1, <2>2
  <1>2. IInv /\ [LimiterNext]_limiterVars => [Kept]_limiterVars
    BY <1>1 DEF Forward
  <1> QED
    BY Invariance, <1>2, PTL DEF LimiterSpec, WindowMovesForward
=============================================================================
