---------------------------- MODULE SSEHubProofs ----------------------------
(***************************************************************************)
(* Proofs about SSEHub, for every set of requests and topics and every      *)
(* capacity.  NoPanic is not inductive: that no closed channel is offered    *)
(* an event rests on membership of the map implying an open channel, and on *)
(* what a publisher has still to walk being registered.  The histories of    *)
(* TopicIsolation need the event in the publisher's hand as well.           *)
(***************************************************************************)
EXTENDS SSEHub, FiniteSetTheorems, TLAPS

(* A registered channel is open, and so is one not registered yet.           *)
ChannelInv ==
    /\ \A t \in Topics : \A c \in clients[t] : open[c]
    /\ \A c \in Conns : pc[c] = "new" => open[c]

(* The publisher walks registered channels, and only while it has the mutex. *)
PublisherInv ==
    /\ pub.active => /\ pub.rest \subseteq clients[pub.topic]
                     /\ pub.event \in Events
    /\ ~pub.active => pub.rest = {}

(* A topic with clients has its inner map.                                   *)
EntriesInv == \A t \in Topics : clients[t] # {} => t \in entries

(* The count that serveTopic tests stays within the limit.                   *)
RegisteredBound == Cardinality(Registered) <= maxClients

IInv ==
    /\ TypeOK
    /\ NoPanic
    /\ SlotReleased
    /\ ChannelInv
    /\ PublisherInv
    /\ NoTopicLeak
    /\ EntriesInv
    /\ RegisteredBound

-----------------------------------------------------------------------------
(* The limit NewHub settles on is positive.                                  *)
LEMMA LimitIsPositive == maxClients \in Nat \ {0}
  BY HubAssumption DEF maxClients

LEMMA RegisteredFinite ==
    ASSUME TypeOK
    PROVE  /\ Registered \in SUBSET Conns
           /\ IsFiniteSet(Registered)
           /\ Cardinality(Registered) \in Nat
  <1>1. Registered \in SUBSET Conns
    BY DEF TypeOK, Registered
  <1> QED
    BY <1>1, HubAssumption, FS_Subset, FS_CardinalityType

(* A step after which nobody new is registered keeps the capacity.           *)
LEMMA RegisteredKept ==
    ASSUME TypeOK, RegisteredBound, Registered' \subseteq Registered
    PROVE  RegisteredBound'
  <1>1. IsFiniteSet(Registered) /\ Cardinality(Registered) \in Nat
    BY RegisteredFinite
  <1>2. /\ IsFiniteSet(Registered')
        /\ Cardinality(Registered') <= Cardinality(Registered)
    BY <1>1, FS_Subset
  <1>3. Cardinality(Registered') \in Nat
    BY <1>2, FS_CardinalityType
  <1>4. maxClients' = maxClients /\ maxClients \in Nat
    BY LimitIsPositive DEF maxClients
  <1> QED
    BY <1>1, <1>2, <1>3, <1>4 DEF RegisteredBound

(* The empty hub satisfies the invariant.                                    *)
LEMMA InitIInv == Init => IInv
  <1> SUFFICES ASSUME Init PROVE IInv
    OBVIOUS
  <1>1. TypeOK
    <2>1. Idle \in [active : BOOLEAN, topic : Topics,
                   event : Events \cup {NoEvent}, rest : SUBSET Conns]
      BY HubAssumption DEF Idle
    <2>2. /\ log \in [Topics -> Seq(Events)]
          /\ delivered \in [Conns -> Seq(Events)]
          /\ sent \in 0..MaxEvents
      BY HubAssumption DEF Init
    <2> QED
      BY <2>1, <2>2 DEF Init, TypeOK, Labels
  <1>2. NoPanic /\ SlotReleased /\ ChannelInv /\ PublisherInv /\ EntriesInv
    BY DEF Init, NoPanic, SlotReleased, ChannelInv, PublisherInv, EntriesInv,
           Idle
  <1>3. NoTopicLeak
    BY DEF Init, NoTopicLeak
  <1>4. RegisteredBound
    <2>1. Registered = {}
      BY DEF Init, Registered
    <2>2. Cardinality(Registered) = 0
      BY <2>1, FS_EmptySet
    <2> QED
      BY <2>2, LimitIsPositive DEF RegisteredBound
  <1> QED
    BY <1>1, <1>2, <1>3, <1>4 DEF IInv

-----------------------------------------------------------------------------
(* A publisher takes the mutex.                                              *)
LEMMA BeginPublishStep ==
    ASSUME IInv, NEW t \in Topics, BeginPublish(t)
    PROVE  IInv'
  <1> USE DEF BeginPublish, chanVars, streamVars
  <1>1. TypeOK'
    <2>1. sent + 1 \in Events /\ sent' \in 0..MaxEvents
      BY HubAssumption DEF IInv, TypeOK, Events
    <2>2. log' \in [Topics -> Seq(Events)]
      BY <2>1 DEF IInv, TypeOK
    <2>3. pub' \in [active : BOOLEAN, topic : Topics,
                   event : Events \cup {NoEvent}, rest : SUBSET Conns]
      BY <2>1 DEF IInv, TypeOK
    <2> QED
      BY <2>1, <2>2, <2>3 DEF IInv, TypeOK
  <1>2. NoPanic' /\ SlotReleased' /\ ChannelInv'
    BY DEF IInv, NoPanic, SlotReleased, ChannelInv
  <1>3. PublisherInv' /\ NoTopicLeak' /\ EntriesInv'
    BY HubAssumption DEF IInv, TypeOK, PublisherInv, NoTopicLeak, EntriesInv,
                         Events
  <1>4. RegisteredBound'
    BY RegisteredKept DEF IInv, Registered
  <1> QED
    BY <1>1, <1>2, <1>3, <1>4 DEF IInv

(* It offers its event to one channel: the slot is free, or the channel is   *)
(* closed and removed.                                                       *)
LEMMA OfferStep ==
    ASSUME IInv, NEW c \in Conns, Offer(c)
    PROVE  IInv'
  <1>1. /\ pub \in [active : BOOLEAN, topic : Topics,
                    event : Events \cup {NoEvent}, rest : SUBSET Conns]
        /\ pub' = [pub EXCEPT !.rest = pub.rest \ {c}]
        /\ pub.active /\ c \in pub.rest
    BY DEF IInv, TypeOK, Offer
  <1>2. /\ pub' \in [active : BOOLEAN, topic : Topics,
                     event : Events \cup {NoEvent}, rest : SUBSET Conns]
        /\ pub'.active = pub.active /\ pub'.topic = pub.topic
        /\ pub'.rest = pub.rest \ {c} /\ pub'.event = pub.event
    BY <1>1
  <1>3. pub.topic \in Topics /\ pub.rest \subseteq clients[pub.topic]
    BY <1>1 DEF IInv, PublisherInv
  <1>4. /\ UNCHANGED <<entries, pc, hand, done, topicOf, sent, log, joined,
                       delivered>>
        /\ SendToSlot(c) \/ Evict(c)
    BY <1>1, <1>3 DEF Offer, SendOnClosed, IInv, ChannelInv, streamVars, history
  <1>5. CASE SendToSlot(c)
    <2>1. /\ UNCHANGED <<clients, open, panicked>>
          /\ buf' = [buf EXCEPT ![c] = <<pub.event>>]
          /\ pub.event \in Events
      BY <1>1, <1>5 DEF SendToSlot, IInv, PublisherInv
    <2>2. TypeOK'
      BY <1>2, <1>4, <2>1 DEF IInv, TypeOK
    <2>3. NoPanic' /\ SlotReleased' /\ ChannelInv' /\ NoTopicLeak' /\ EntriesInv'
      BY <1>4, <2>1 DEF IInv, NoPanic, SlotReleased, ChannelInv, NoTopicLeak,
                        EntriesInv
    <2>4. PublisherInv'
      BY <1>1, <1>2, <1>3, <2>1 DEF IInv, PublisherInv
    <2>5. RegisteredBound'
      BY <1>4, <2>1, RegisteredKept DEF IInv, Registered
    <2> QED
      BY <2>2, <2>3, <2>4, <2>5 DEF IInv
  <1>6. CASE Evict(c)
    <2>1. /\ UNCHANGED <<buf, panicked>>
          /\ open' = [open EXCEPT ![c] = FALSE]
          /\ clients' = [clients EXCEPT ![pub.topic] = clients[pub.topic] \ {c}]
      BY <1>6 DEF Evict
    <2>2. /\ TypeOK'
          /\ \A t \in Topics : clients'[t] \subseteq clients[t]
          /\ c \notin clients'[pub.topic]
      BY <1>2, <1>3, <1>4, <2>1 DEF IInv, TypeOK
    <2>3. \A t \in Topics : c \notin clients'[t]
      BY <1>1, <1>3, <2>2 DEF IInv, SlotReleased
    <2>4. NoPanic' /\ SlotReleased' /\ NoTopicLeak' /\ EntriesInv'
      BY <1>4, <2>1, <2>2 DEF IInv, NoPanic, SlotReleased, NoTopicLeak,
                              EntriesInv
    <2>5. ChannelInv'
      <3>1. pc[c] \in Serving
        BY <1>1, <1>3 DEF IInv, SlotReleased
      <3>2. \A d \in Conns : d # c => open'[d] = open[d]
        BY <2>1 DEF IInv, TypeOK
      <3>3. \A t \in Topics : \A d \in clients'[t] : open'[d]
        BY SMTT(30), <2>2, <2>3, <3>2 DEF IInv, TypeOK, ChannelInv
      <3>4. \A d \in Conns : pc'[d] = "new" => open'[d]
        BY <1>4, <3>1, <3>2 DEF IInv, ChannelInv, Serving
      <3> QED
        BY <3>3, <3>4 DEF ChannelInv
    <2>6. PublisherInv'
      <3>1. clients'[pub.topic] = clients[pub.topic] \ {c}
        BY <1>3, <2>1 DEF IInv, TypeOK
      <3>2. pub'.event \in Events
        BY <1>1, <1>2 DEF IInv, PublisherInv
      <3> QED
        BY <1>1, <1>2, <1>3, <3>1, <3>2 DEF PublisherInv
    <2>7. RegisteredBound'
      BY <1>4, <2>2, RegisteredKept DEF IInv, TypeOK, Registered
    <2> QED
      BY <2>2, <2>4, <2>5, <2>6, <2>7 DEF IInv
  <1> QED
    BY <1>4, <1>5, <1>6

(* It releases the mutex.                                                    *)
LEMMA EndPublishStep ==
    ASSUME IInv, EndPublish
    PROVE  IInv'
  <1> USE DEF EndPublish, chanVars, streamVars, history
  <1>1. /\ Idle \in [active : BOOLEAN, topic : Topics,
                     event : Events \cup {NoEvent}, rest : SUBSET Conns]
        /\ ~Idle.active /\ Idle.rest = {}
    BY HubAssumption DEF Idle
  <1>2. TypeOK' /\ PublisherInv'
    BY <1>1 DEF IInv, TypeOK, PublisherInv
  <1>3. /\ NoPanic' /\ SlotReleased' /\ ChannelInv'
        /\ NoTopicLeak' /\ EntriesInv'
    BY DEF IInv, NoPanic, SlotReleased, ChannelInv, NoTopicLeak, EntriesInv
  <1>4. RegisteredBound'
    BY RegisteredKept DEF IInv, Registered
  <1> QED
    BY <1>2, <1>3, <1>4 DEF IInv

-----------------------------------------------------------------------------
(* A step of a handler that is admitted and stays so leaves the hub alone.   *)
LEMMA ServingStep ==
    ASSUME IInv, TypeOK',
           UNCHANGED <<clients, entries, pub, open, panicked, topicOf>>,
           \A c \in Conns : pc[c] \in Serving => pc'[c] \in Serving,
           \A c \in Conns : pc'[c] = "new" => pc[c] = "new"
    PROVE  IInv'
  <1>1. NoPanic' /\ SlotReleased' /\ ChannelInv' /\ PublisherInv' /\ EntriesInv'
    BY DEF IInv, TypeOK, NoPanic, SlotReleased, ChannelInv, PublisherInv,
           EntriesInv
  <1>2. NoTopicLeak'
    BY DEF IInv, NoTopicLeak
  <1>3. RegisteredBound'
    BY RegisteredKept DEF IInv, Registered
  <1> QED
    BY <1>1, <1>2, <1>3 DEF IInv

(* A request beyond the capacity is refused.                                 *)
LEMMA RefuseStep ==
    ASSUME IInv, NEW c \in Conns, Refuse(c)
    PROVE  IInv'
  <1> USE DEF Refuse, Goto, hubVars, chanVars, history
  <1>1. TypeOK'
    BY DEF IInv, TypeOK, Labels
  <1> QED
    BY <1>1, ServingStep DEF IInv, TypeOK, Serving

(* A request is admitted and registered in one critical section.             *)
LEMMA RegisterStep ==
    ASSUME IInv, NEW c \in Conns, Register(c)
    PROVE  IInv'
  <1> DEFINE t == topicOf[c]
  <1>1. /\ t \in Topics
        /\ pc[c] = "new" /\ open[c] /\ ~pub.active
        /\ entries' = entries \cup {t}
        /\ clients' = [clients EXCEPT ![t] = clients[t] \cup {c}]
        /\ pc' = [pc EXCEPT ![c] = "opening"]
        /\ UNCHANGED <<pub, open, buf, hand, done, panicked, topicOf, sent, log,
                       delivered>>
    BY DEF IInv, TypeOK, ChannelInv, Register, Goto, Unlocked, chanVars
  <1>2. TypeOK'
    <2>1. joined' \in [Conns -> Nat]
      BY DEF IInv, TypeOK, Register
    <2> QED
      BY <1>1, <2>1 DEF IInv, TypeOK, Labels
  <1>3. NoPanic' /\ SlotReleased' /\ ChannelInv' /\ PublisherInv' /\ EntriesInv'
    BY <1>1 DEF IInv, TypeOK, NoPanic, SlotReleased, ChannelInv, PublisherInv,
                EntriesInv, Serving
  <1>4. NoTopicLeak'
    BY <1>1 DEF IInv, TypeOK, NoTopicLeak, Serving
  <1>5. RegisteredBound'
    <2>1. Registered' \subseteq Registered \cup {c}
      BY <1>1 DEF IInv, TypeOK, EntriesInv, Registered
    <2>2. /\ IsFiniteSet(Registered \cup {c})
          /\ Cardinality(Registered \cup {c}) <= Cardinality(Registered) + 1
          /\ Cardinality(Registered) \in Nat
      <3>1. IsFiniteSet(Registered) /\ Cardinality(Registered) \in Nat
        BY RegisteredFinite DEF IInv
      <3> QED
        BY SMTT(30), <3>1, FS_AddElement
    <2>3. /\ Cardinality(Registered') <= Cardinality(Registered \cup {c})
          /\ Cardinality(Registered') \in Nat
          /\ Cardinality(Registered \cup {c}) \in Nat
      BY <2>1, <2>2, FS_Subset, FS_CardinalityType
    <2>4. Cardinality(Registered) < maxClients
      BY DEF Register, clientCount
    <2>5. maxClients' = maxClients /\ maxClients \in Nat
      BY LimitIsPositive DEF maxClients
    <2> QED
      BY <2>2, <2>3, <2>4, <2>5 DEF RegisteredBound
  <1> QED
    BY <1>2, <1>3, <1>4, <1>5 DEF IInv

(* The first flush, the end of the context, and the cases of the loop.       *)
LEMMA StreamStep ==
    ASSUME IInv, NEW c \in Conns,
           \/ FlushHeaders(c) \/ ContextEnds(c) \/ SeeDone(c)
           \/ Heartbeat(c) \/ SeeClosed(c) \/ WriteFails(c)
    PROVE  IInv'
  <1> USE DEF Goto, FlushHeaders, ContextEnds, SeeDone, Heartbeat, SeeClosed,
              WriteFails
  <1>1. UNCHANGED <<clients, entries, pub, open, buf, hand, panicked, topicOf,
                    sent, log, joined, delivered>>
    BY DEF hubVars, chanVars, history
  <1>2. pc \in [Conns -> Labels] /\ done \in [Conns -> BOOLEAN]
    BY DEF IInv, TypeOK
  <1>3. /\ pc[c] \in Serving
        /\ \/ pc' = pc
           \/ \E l \in Serving : pc' = [pc EXCEPT ![c] = l]
        /\ done' = done \/ done' = [done EXCEPT ![c] = TRUE]
    BY DEF Serving
  <1>4. pc' \in [Conns -> Labels] /\ done' \in [Conns -> BOOLEAN]
    BY <1>2, <1>3 DEF Serving, Labels
  <1>5. TypeOK'
    BY <1>1, <1>4 DEF IInv, TypeOK
  <1> QED
    BY <1>1, <1>2, <1>3, <1>5, ServingStep DEF Serving

(* An event moves from the slot to the handler's hand.                       *)
LEMMA ReceiveStep ==
    ASSUME IInv, NEW c \in Conns, Receive(c)
    PROVE  IInv'
  <1> USE DEF Receive, Goto, hubVars, history
  <1>1. PICK e \in Events : buf[c] = <<e>>
    BY DEF IInv, TypeOK
  <1>2. Head(buf[c]) = e /\ Tail(buf[c]) = << >>
    BY <1>1
  <1>3. TypeOK'
    BY <1>2 DEF IInv, TypeOK, Labels
  <1> QED
    BY <1>3, ServingStep DEF IInv, TypeOK, Serving

(* An event or a heartbeat is written.                                       *)
LEMMA WriteReturnsStep ==
    ASSUME IInv, NEW c \in Conns, WriteReturns(c)
    PROVE  IInv'
  <1> USE DEF WriteReturns, Goto, hubVars, chanVars
  <1>1. delivered' \in [Conns -> Seq(Events)]
    <2>1. hand[c] # NoEvent => Append(delivered[c], hand[c]) \in Seq(Events)
      BY DEF IInv, TypeOK
    <2> QED
      BY <2>1 DEF IInv, TypeOK
  <1>2. TypeOK'
    BY <1>1 DEF IInv, TypeOK, Labels
  <1> QED
    BY <1>2, ServingStep DEF IInv, TypeOK, Serving

(* The deferred cleanup takes the channel out of the map and closes it,      *)
(* unless publish has done both.                                             *)
LEMMA CleanupStep ==
    ASSUME IInv, NEW c \in Conns, Cleanup(c)
    PROVE  IInv'
  <1> DEFINE t == topicOf[c]
  <1>1. /\ t \in Topics
        /\ ~pub.active /\ pub.rest = {}
        /\ pc' = [pc EXCEPT ![c] = "gone"]
        /\ entries' = IF clients[t] \subseteq {c} THEN entries \ {t}
                      ELSE entries
        /\ UNCHANGED <<pub, buf, hand, done, topicOf, sent, log, joined,
                       delivered>>
    BY DEF IInv, TypeOK, PublisherInv, Cleanup, Goto, Unlocked, history
  <1>2. /\ clients' = [clients EXCEPT ![t] = clients[t] \ {c}]
        /\ open' = open \/ open' = [open EXCEPT ![c] = FALSE]
        /\ panicked' = panicked
    <2>1. CASE c \in clients[t]
      BY <1>1, <2>1 DEF Cleanup, IInv, TypeOK, NoPanic, ChannelInv
    <2>2. CASE c \notin clients[t]
      BY <1>1, <2>2 DEF Cleanup, IInv, TypeOK
    <2> QED
      BY <2>1, <2>2
  <1>3. TypeOK'
    BY <1>1, <1>2 DEF IInv, TypeOK, Labels
  <1>4. \A s \in Topics : c \notin clients'[s] /\ clients'[s] \subseteq clients[s]
    BY <1>1, <1>2 DEF IInv, TypeOK, SlotReleased
  <1>5. NoPanic' /\ SlotReleased' /\ PublisherInv'
    BY <1>1, <1>2, <1>4 DEF IInv, TypeOK, NoPanic, SlotReleased, PublisherInv
  <1>6. ChannelInv'
    BY <1>1, <1>2, <1>4 DEF IInv, TypeOK, ChannelInv
  <1>7. EntriesInv'
    BY <1>1, <1>2 DEF IInv, TypeOK, EntriesInv
  <1>8. NoTopicLeak'
    <2> SUFFICES ASSUME NEW s \in entries'
                 PROVE  \E d \in Conns : topicOf[d] = s /\ pc'[d] \in Serving
      BY <1>1 DEF NoTopicLeak
    <2>1. CASE s = t
      <3>1. PICK d \in clients[t] : d # c
        BY <1>1, <2>1
      <3> QED
        BY <1>1, <2>1, <3>1 DEF IInv, TypeOK, SlotReleased
    <2>2. CASE s # t
      BY <1>1, <2>2 DEF IInv, TypeOK, NoTopicLeak
    <2> QED
      BY <2>1, <2>2
  <1>9. RegisteredBound'
    <2>1. Registered' \subseteq Registered
      BY <1>1, <1>4 DEF IInv, TypeOK, Registered
    <2> QED
      BY <2>1, RegisteredKept DEF IInv
  <1> QED
    BY <1>3, <1>5, <1>6, <1>7, <1>8, <1>9 DEF IInv

-----------------------------------------------------------------------------
(* A stuttering step changes nothing the invariant speaks of.                *)
LEMMA StutterStep == IInv /\ UNCHANGED vars => IInv'
  <1> SUFFICES ASSUME IInv, UNCHANGED vars PROVE IInv'
    OBVIOUS
  <1> USE DEF vars, hubVars, chanVars, streamVars, history
  <1>1. TypeOK'
    BY DEF IInv, TypeOK
  <1> QED
    BY <1>1, ServingStep

(* The invariant is inductive.                                               *)
THEOREM Invariance == Spec => []IInv
  <1>1. ASSUME IInv, [Next]_vars PROVE IInv'
    <2> USE <1>1
    <2>1. ASSUME NEW t \in Topics, BeginPublish(t) PROVE IInv'
      BY <2>1, BeginPublishStep
    <2>2. ASSUME NEW c \in Conns, Offer(c) PROVE IInv'
      BY <2>2, OfferStep
    <2>3. CASE EndPublish
      BY <2>3, EndPublishStep
    <2>4. ASSUME NEW c \in Conns, Handler(c) PROVE IInv'
      BY <2>4, RefuseStep, RegisterStep, StreamStep, ReceiveStep,
         WriteReturnsStep, CleanupStep DEF Handler
    <2>5. CASE Finished
      BY <2>5, StutterStep DEF Finished
    <2>6. CASE UNCHANGED vars
      BY <2>6, StutterStep
    <2> QED
      BY <2>1, <2>2, <2>3, <2>4, <2>5, <2>6 DEF Next
  <1> QED
    BY InitIInv, <1>1, PTL DEF Spec

(* The hub's state stays well-formed (sse.go:18-27, 78-182).                 *)
THEOREM TypeCorrect == Spec => []TypeOK
  <1>1. IInv => TypeOK
    BY DEF IInv
  <1> QED
    BY Invariance, <1>1, PTL

(* Neither publish nor the deferred cleanup sends on or closes a closed      *)
(* channel, however many streams and topics there are (sse.go:90-102,        *)
(* 134-143).                                                                 *)
THEOREM NeverPanics == Spec => []NoPanic
  <1>1. IInv => NoPanic
    BY DEF IInv
  <1> QED
    BY Invariance, <1>1, PTL

(* A handler whose channel is open has it registered: it is publish that     *)
(* unregisters the others, and publish closes what it unregisters.           *)
OpenInv ==
    \A c \in Conns : pc[c] \in Serving /\ open[c] => c \in clients[topicOf[c]]

LEMMA OpenStep == IInv /\ OpenInv /\ [Next]_vars => OpenInv'
  <1> SUFFICES ASSUME IInv, OpenInv, [Next]_vars,
                      NEW d \in Conns, pc'[d] \in Serving, open'[d]
               PROVE  d \in clients'[topicOf'[d]]
    BY DEF OpenInv
  <1> USE DEF IInv, TypeOK, OpenInv, Serving, Goto, hubVars, chanVars,
              streamVars, history
  <1>1. ASSUME NEW t \in Topics, BeginPublish(t)
        PROVE  d \in clients'[topicOf'[d]]
    BY <1>1 DEF BeginPublish
  <1>2. ASSUME NEW c \in Conns, Offer(c)
        PROVE  d \in clients'[topicOf'[d]]
    <2> USE <1>2 DEF Offer
    <2>1. CASE SendOnClosed(c) \/ SendToSlot(c)
      BY <2>1 DEF SendOnClosed, SendToSlot
    <2>2. CASE Evict(c)
      <3>1. open' = [open EXCEPT ![c] = FALSE]
        BY <2>2 DEF Evict
      <3>2. d # c /\ open[d] /\ d \in clients[topicOf[d]]
        BY <3>1
      <3>3. clients' = [clients EXCEPT ![pub.topic] = clients[pub.topic] \ {c}]
        BY <2>2 DEF Evict
      <3> QED
        BY <3>2, <3>3
    <2> QED
      BY <2>1, <2>2
  <1>3. CASE EndPublish
    BY <1>3 DEF EndPublish
  <1>4. ASSUME NEW c \in Conns, Handler(c)
        PROVE  d \in clients'[topicOf'[d]]
    <2>1. CASE Register(c)
      <3>1. CASE d = c
        BY <2>1, <3>1 DEF Register
      <3>2. CASE d # c
        <4>1. pc[d] \in Serving /\ open[d]
          BY <2>1, <3>2 DEF Register
        <4> QED
          BY <2>1, <4>1 DEF Register
      <3> QED
        BY <3>1, <3>2
    <2>2. CASE Cleanup(c)
      <3>1. pc' = [pc EXCEPT ![c] = "gone"] /\ topicOf' = topicOf
        BY <2>2 DEF Cleanup
      <3>2. d # c
        BY <3>1
      <3>3. pc[d] \in Serving
        BY <3>1, <3>2
      <3>4. open' = open \/ open' = [open EXCEPT ![c] = FALSE]
        BY <2>2 DEF Cleanup
      <3>5. open[d]
        BY <3>2, <3>4
      <3>6. \/ clients' = clients
            \/ clients' = [clients EXCEPT ![topicOf[c]] = clients[topicOf[c]] \ {c}]
        BY <2>2 DEF Cleanup
      <3>7. d \in clients[topicOf[d]]
        BY <3>3, <3>5
      <3>8. CASE clients' = clients
        BY <3>1, <3>7, <3>8
      <3>9. CASE clients' = [clients EXCEPT
                               ![topicOf[c]] = clients[topicOf[c]] \ {c}]
        BY <3>1, <3>2, <3>7, <3>9
      <3> QED
        BY <3>6, <3>8, <3>9
    <2>3. CASE ContextEnds(c)
      BY <2>3 DEF ContextEnds
    <2>4. CASE \/ Refuse(c) \/ FlushHeaders(c) \/ SeeDone(c) \/ Heartbeat(c)
               \/ Receive(c) \/ SeeClosed(c) \/ WriteReturns(c)
               \/ WriteFails(c)
      <3>1. open' = open /\ clients' = clients /\ topicOf' = topicOf
        BY <2>4 DEF Refuse, FlushHeaders, SeeDone, Heartbeat, Receive,
                    SeeClosed, WriteReturns, WriteFails
      <3>2. pc[d] \in Serving
        <4>1. CASE d # c
          BY <2>4, <4>1 DEF Refuse, FlushHeaders, SeeDone, Heartbeat, Receive,
                            SeeClosed, WriteReturns, WriteFails
        <4>2. CASE d = c
          BY <2>4, <4>2 DEF Refuse, FlushHeaders, SeeDone, Heartbeat, Receive,
                            SeeClosed, WriteReturns, WriteFails
        <4> QED
          BY <4>1, <4>2
      <3> QED
        BY <3>1, <3>2
    <2> QED
      BY <1>4, <2>1, <2>2, <2>3, <2>4 DEF Handler
  <1>5. CASE UNCHANGED vars
    BY <1>5 DEF vars
  <1> QED
    BY <1>1, <1>2, <1>3, <1>4, <1>5 DEF Next, Finished

(* The streams that are served and not evicted never exceed the limit, over  *)
(* all topics, wherever publishers, handlers and cleanups are                *)
(* (sse.go:96-99, 124-144).                                                  *)
THEOREM CapacityHolds == Spec => []CapacityKept
  <1>1. Init => OpenInv
    BY DEF Init, OpenInv, Serving
  <1>2. IInv /\ OpenInv => CapacityKept
    <2> SUFFICES ASSUME IInv, OpenInv PROVE CapacityKept
      OBVIOUS
    <2> DEFINE S == {c \in Conns : pc[c] \in Serving /\ open[c]}
    <2>1. S \subseteq Registered
      BY DEF OpenInv, IInv, TypeOK, EntriesInv, Registered
    <2>2. IsFiniteSet(Registered) /\ Cardinality(Registered) \in Nat
      BY RegisteredFinite DEF IInv
    <2> HIDE DEF S
    <2>3. /\ IsFiniteSet(S)
          /\ Cardinality(S) <= Cardinality(Registered)
      BY <2>1, <2>2, FS_Subset
    <2>4. Cardinality(S) \in Nat
      BY <2>3, FS_CardinalityType
    <2>5. Cardinality(Registered) <= maxClients /\ maxClients \in Nat
      BY LimitIsPositive DEF IInv, RegisteredBound
    <2>6. Cardinality(S) <= maxClients
      BY <2>2, <2>3, <2>4, <2>5
    <2> QED
      BY <2>6 DEF CapacityKept, S
  <1> QED
    BY <1>1, <1>2, OpenStep, Invariance, PTL DEF Spec

(* A slot of the capacity and an inner map are held only by a handler that   *)
(* has its cleanup ahead (sse.go:134-143).                                   *)
THEOREM StreamsLeaveNothing == Spec => []NothingLeaks
  <1>1. IInv => NothingLeaks
    BY DEF IInv, NothingLeaks
  <1> QED
    BY Invariance, <1>1, PTL

-----------------------------------------------------------------------------
(* TopicIsolation, from the same invariant: what the publisher holds was     *)
(* published to the topic whose channels it walks.                           *)
EventsOf(s) == {s[i] : i \in 1..Len(s)}

IsolationInv ==
    /\ pub.active => pub.event \in EventsOf(log[pub.topic])
    /\ \A c \in Conns :
          /\ EventsOf(delivered[c]) \subseteq EventsOf(log[topicOf[c]])
          /\ EventsOf(buf[c]) \subseteq EventsOf(log[topicOf[c]])
          /\ hand[c] # NoEvent => hand[c] \in EventsOf(log[topicOf[c]])

LEMMA EventsOfAppend ==
    ASSUME NEW S, NEW s \in Seq(S), NEW e \in S
    PROVE  EventsOf(Append(s, e)) = EventsOf(s) \cup {e}
  <1>1. /\ Len(Append(s, e)) = Len(s) + 1
        /\ Len(s) \in Nat
        /\ \A i \in 1..Len(s) : Append(s, e)[i] = s[i]
        /\ Append(s, e)[Len(s) + 1] = e
    OBVIOUS
  <1>2. ASSUME NEW x \in EventsOf(s) PROVE x \in EventsOf(Append(s, e))
    BY <1>1, <1>2 DEF EventsOf
  <1>3. e \in EventsOf(Append(s, e))
    BY <1>1 DEF EventsOf
  <1>4. ASSUME NEW x \in EventsOf(Append(s, e)) PROVE x \in EventsOf(s) \cup {e}
    BY <1>1, <1>4 DEF EventsOf
  <1> QED
    BY <1>2, <1>3, <1>4

LEMMA EventsOfShort ==
    /\ EventsOf(<< >>) = {}
    /\ \A e : EventsOf(<<e>>) = {e}
  BY DEF EventsOf

(* Steps that neither publish nor move an event.                             *)
LEMMA EventsStay ==
    ASSUME IsolationInv, UNCHANGED <<pub, buf, hand, topicOf, log, delivered>>
    PROVE  IsolationInv'
  BY DEF IsolationInv

LEMMA IsolationStep ==
    ASSUME TypeOK, SlotReleased, PublisherInv, IsolationInv, [Next]_vars
    PROVE  IsolationInv'
  <1>1. ASSUME NEW t \in Topics, BeginPublish(t) PROVE IsolationInv'
    <2>1. /\ pub'.active /\ pub'.topic = t /\ pub'.event = sent + 1
          /\ log' = [log EXCEPT ![t] = Append(log[t], sent + 1)]
          /\ sent + 1 \in Events
          /\ UNCHANGED <<buf, hand, topicOf, delivered>>
      BY <1>1, HubAssumption
         DEF BeginPublish, TypeOK, Events, chanVars, streamVars
    <2>2. /\ EventsOf(log'[t]) = EventsOf(log[t]) \cup {sent + 1}
          /\ \A u \in Topics : EventsOf(log[u]) \subseteq EventsOf(log'[u])
      BY <2>1, EventsOfAppend DEF TypeOK
    <2>3. \A c \in Conns : topicOf[c] \in Topics
      BY DEF TypeOK
    <2> QED
      BY <2>1, <2>2, <2>3 DEF IsolationInv
  <1>2. ASSUME NEW c \in Conns, Offer(c) PROVE IsolationInv'
    <2>1. /\ pub'.active = pub.active /\ pub'.topic = pub.topic
          /\ pub'.event = pub.event
          /\ pub.active /\ c \in pub.rest
          /\ UNCHANGED <<hand, topicOf, log, delivered>>
      BY <1>2 DEF Offer, TypeOK, streamVars, history
    <2>2. topicOf[c] = pub.topic
      BY <2>1 DEF PublisherInv, SlotReleased, TypeOK
    <2>3. buf' = buf \/ buf' = [buf EXCEPT ![c] = <<pub.event>>]
      BY <1>2 DEF Offer, SendOnClosed, SendToSlot, Evict
    <2>4. \A d \in Conns : EventsOf(buf'[d]) \subseteq EventsOf(log[topicOf[d]])
      <3> SUFFICES ASSUME NEW d \in Conns
                   PROVE  EventsOf(buf'[d]) \subseteq EventsOf(log[topicOf[d]])
        OBVIOUS
      <3>1. CASE buf'[d] = buf[d]
        BY <3>1 DEF IsolationInv
      <3>2. CASE d = c /\ buf'[d] = <<pub.event>>
        <4>1. EventsOf(buf'[d]) = {pub.event}
          BY <3>2, EventsOfShort
        <4>2. pub.event \in EventsOf(log[topicOf[d]])
          BY <2>1, <2>2, <3>2 DEF IsolationInv
        <4> QED
          BY <4>1, <4>2
      <3> QED
        BY <2>3, <3>1, <3>2 DEF TypeOK
    <2> QED
      BY <2>1, <2>4 DEF IsolationInv
  <1>3. CASE EndPublish
    <2>1. ~pub'.active /\ UNCHANGED <<buf, hand, topicOf, log, delivered>>
      BY <1>3 DEF EndPublish, Idle, chanVars, streamVars, history
    <2> QED
      BY <2>1 DEF IsolationInv
  <1>4. ASSUME NEW c \in Conns, Receive(c) PROVE IsolationInv'
    <2>1. PICK e \in Events : buf[c] = <<e>>
      BY <1>4 DEF Receive, TypeOK
    <2>2. /\ hand' = [hand EXCEPT ![c] = e]
          /\ buf' = [buf EXCEPT ![c] = << >>]
          /\ UNCHANGED <<pub, topicOf, log, delivered>>
      BY <1>4, <2>1 DEF Receive, hubVars, history
    <2>3. e \in EventsOf(log[topicOf[c]])
      BY ZenonT(60), <2>1, EventsOfShort DEF IsolationInv
    <2> QED
      BY <2>2, <2>3, EventsOfShort DEF IsolationInv, TypeOK
  <1>5. ASSUME NEW c \in Conns, WriteReturns(c) PROVE IsolationInv'
    <2>1. /\ hand' = [hand EXCEPT ![c] = NoEvent]
          /\ delivered' = [delivered EXCEPT ![c] =
                IF hand[c] = NoEvent THEN delivered[c]
                ELSE Append(delivered[c], hand[c])]
          /\ UNCHANGED <<pub, buf, topicOf, log>>
      BY <1>5 DEF WriteReturns, hubVars, chanVars
    <2>2. hand[c] # NoEvent => EventsOf(Append(delivered[c], hand[c])) =
                               EventsOf(delivered[c]) \cup {hand[c]}
      BY EventsOfAppend DEF TypeOK
    <2>3. \A d \in Conns :
             EventsOf(delivered'[d]) \subseteq EventsOf(log[topicOf[d]])
      BY <2>1, <2>2 DEF IsolationInv, TypeOK
    <2> QED
      BY <2>1, <2>3 DEF IsolationInv, TypeOK
  <1>6. ASSUME NEW c \in Conns, Handler(c), ~Receive(c), ~WriteReturns(c)
        PROVE  IsolationInv'
    <2>1. UNCHANGED <<pub, buf, hand, topicOf, log, delivered>>
      BY <1>6 DEF Handler, Refuse, Register, FlushHeaders, ContextEnds, SeeDone,
              Heartbeat, SeeClosed, WriteFails, Cleanup, Goto, hubVars,
              chanVars, history
    <2> QED
      BY <2>1, EventsStay
  <1>7. CASE Finished \/ UNCHANGED vars
    <2>1. UNCHANGED <<pub, buf, hand, topicOf, log, delivered>>
      BY <1>7 DEF Finished, vars, hubVars, chanVars, streamVars, history
    <2> QED
      BY <2>1, EventsStay
  <1> QED
    BY <1>1, <1>2, <1>3, <1>4, <1>5, <1>6, <1>7 DEF Next

(* An event reaches only streams of the topic it was published to            *)
(* (sse.go:80-88).                                                           *)
THEOREM TopicsAreIsolated == Spec => []TopicIsolation
  <1>1. Init => IsolationInv
    BY EventsOfShort DEF Init, IsolationInv, Idle
  <1>2. IInv => TypeOK /\ SlotReleased /\ PublisherInv
    BY DEF IInv
  <1>3. TypeOK /\ SlotReleased /\ PublisherInv /\ IsolationInv /\ [Next]_vars
           => IsolationInv'
    BY IsolationStep
  <1>4. IsolationInv => TopicIsolation
    BY DEF IsolationInv, TopicIsolation, EventsOf
  <1> QED
    BY Invariance, <1>1, <1>2, <1>3, <1>4, PTL DEF Spec
-----------------------------------------------------------------------------
(* The refinement of TopicStream.  Where a stream stands in its topic's log: *)
(* after Position(c) events come the one in its handler's hand, the one in   *)
(* its slot, and the one the publisher still has for it; for a registered    *)
(* stream these make up the whole log.                                       *)
Position(c) == joined[c] + Len(delivered[c])

InHand(c) == IF hand[c] = NoEvent THEN 0 ELSE 1

ConnOK(c) ==
    LET published == log[topicOf[c]] IN
    /\ pc[c] = "new" => buf[c] = << >> /\ delivered[c] = << >>
    /\ pc[c] \in {"new", "opening", "loop"} => hand[c] = NoEvent
    /\ pc[c] \in Serving =>
          /\ hand[c] # NoEvent =>
                /\ Position(c) + 1 \in 1..Len(published)
                /\ hand[c] = published[Position(c) + 1]
          /\ buf[c] # << >> =>
                /\ Position(c) + InHand(c) + 1 \in 1..Len(published)
                /\ buf[c] = <<published[Position(c) + InHand(c) + 1]>>
    /\ c \in clients[topicOf[c]] => Position(c) + Owed(c) = Len(published)

(* The publisher offers the newest event of its topic.                       *)
NewestOffered ==
    pub.active => /\ Len(log[pub.topic]) >= 1
                  /\ pub.event = log[pub.topic][Len(log[pub.topic])]

OrderInv == NewestOffered /\ \A c \in Conns : ConnOK(c)

(* A step of the hub is a step of TopicStream, or none.                      *)
Maps == [Stream!Next]_(Stream!vars)

LEMMA ConnTypes ==
    ASSUME TypeOK, NEW c \in Conns
    PROVE  /\ topicOf[c] \in Topics
           /\ log[topicOf[c]] \in Seq(Events) /\ Len(log[topicOf[c]]) \in Nat
           /\ joined[c] \in Nat
           /\ delivered[c] \in Seq(Events) /\ Len(delivered[c]) \in Nat
           /\ Position(c) \in Nat
           /\ hand[c] \in Events \cup {NoEvent}
           /\ InHand(c) \in {0, 1}
           /\ buf[c] # << >> => \E e \in Events : buf[c] = <<e>>
           /\ Len(buf[c]) = IF buf[c] = << >> THEN 0 ELSE 1
           /\ Owed(c) \in Nat
  <1>1. /\ topicOf[c] \in Topics
        /\ log[topicOf[c]] \in Seq(Events) /\ Len(log[topicOf[c]]) \in Nat
        /\ joined[c] \in Nat
        /\ delivered[c] \in Seq(Events) /\ Len(delivered[c]) \in Nat
        /\ hand[c] \in Events \cup {NoEvent}
    BY DEF TypeOK
  <1>2. /\ buf[c] # << >> => \E e \in Events : buf[c] = <<e>>
        /\ Len(buf[c]) = IF buf[c] = << >> THEN 0 ELSE 1
    <2>1. buf[c] \in {<< >>} \cup {<<e>> : e \in Events}
      BY DEF TypeOK
    <2>2. CASE buf[c] = << >>
      BY <2>2
    <2>3. CASE buf[c] # << >>
      <3>1. PICK e \in Events : buf[c] = <<e>>
        BY <2>1, <2>3
      <3> QED
        BY <2>3, <3>1
    <2> QED
      BY <2>2, <2>3
  <1>3. Position(c) \in Nat /\ InHand(c) \in {0, 1}
    BY <1>1 DEF Position, InHand
  <1>4. Owed(c) \in Nat
    BY <1>2 DEF Owed
  <1> QED
    BY <1>1, <1>2, <1>3, <1>4

(* What a step leaves alone of one stream.                                   *)
Untouched(d) ==
    /\ UNCHANGED <<pc[d], buf[d], hand[d], delivered[d], joined[d], topicOf[d],
                   log[topicOf[d]]>>
    /\ d \in clients'[topicOf[d]] <=> d \in clients[topicOf[d]]
    /\ d \in pub'.rest <=> d \in pub.rest

LEMMA UntouchedStream ==
    ASSUME NEW d \in Conns, Untouched(d), ConnOK(d)
    PROVE  ConnOK(d)' /\ Phase(d)' = Phase(d) /\ Owed(d)' = Owed(d)
  <1>1. Phase(d)' = Phase(d) /\ Owed(d)' = Owed(d)
    BY DEF Untouched, Phase, Owed
  <1>2. Position(d)' = Position(d) /\ InHand(d)' = InHand(d)
    BY DEF Untouched, Position, InHand
  <1>3. ConnOK(d)'
    BY <1>1, <1>2 DEF Untouched, ConnOK
  <1> QED
    BY <1>1, <1>3

(* A step that TopicStream does not see.                                     *)
LEMMA Unseen ==
    ASSUME \A d \in Conns : Phase(d)' = Phase(d) /\ Owed(d)' = Owed(d),
           UNCHANGED <<log, topicOf, joined, delivered>>
    PROVE  Maps
  BY DEF Maps, Stream!vars

LEMMA UntouchedStreams ==
    ASSUME OrderInv, \A d \in Conns : Untouched(d), NewestOffered',
           UNCHANGED <<log, topicOf, joined, delivered>>
    PROVE  OrderInv' /\ Maps
  BY UntouchedStream, Unseen DEF OrderInv

(* A publisher appends to one topic and owes the event to whoever is          *)
(* registered there.                                                         *)
LEMMA BeginPublishMaps ==
    ASSUME IInv, OrderInv, NEW t \in Topics, BeginPublish(t)
    PROVE  OrderInv' /\ Maps
  <1> DEFINE e == sent + 1
  <1>1. /\ e \in Events
        /\ log' = [log EXCEPT ![t] = Append(log[t], e)]
        /\ pub.rest = {}
        /\ pub'.active /\ pub'.topic = t /\ pub'.event = e
        /\ pub'.rest = clients[t]
        /\ UNCHANGED <<clients, buf, pc, hand, topicOf, joined, delivered>>
    BY HubAssumption DEF BeginPublish, Unlocked, Events, IInv, TypeOK,
                         PublisherInv, chanVars, streamVars
  <1> HIDE DEF e
  <1>2. /\ log \in [Topics -> Seq(Events)] /\ TypeOK
        /\ Len(log[t]) \in Nat
        /\ log'[t] = Append(log[t], e)
        /\ Len(log'[t]) = Len(log[t]) + 1
        /\ log'[t][Len(log[t]) + 1] = e
        /\ \A i \in 1..Len(log[t]) : log'[t][i] = log[t][i]
    BY <1>1 DEF IInv, TypeOK
  <1>3. NewestOffered'
    BY <1>1, <1>2 DEF NewestOffered
  <1>4. ASSUME NEW d \in Conns
        PROVE  /\ ConnOK(d)'
               /\ Phase(d)' = Phase(d)
               /\ Owed(d)' = IF Phase(d) = "live" /\ topicOf[d] = t
                             THEN Owed(d) + 1 ELSE Owed(d)
    <2>1. ConnOK(d) /\ topicOf[d] \in Topics
      BY <1>2 DEF OrderInv, TypeOK
    <2>2. Phase(d)' = Phase(d)
      BY <1>1 DEF Phase
    <2>3. d \in clients[t] => topicOf[d] = t /\ pc[d] \in Serving
      BY DEF IInv, SlotReleased
    <2>4. CASE topicOf[d] # t
      <3>1. Untouched(d)
        BY <1>1, <1>2, <2>1, <2>3, <2>4 DEF Untouched
      <3> QED
        BY <2>1, <2>4, <3>1, UntouchedStream
    <2>5. CASE topicOf[d] = t
      <3>1. Phase(d) = "live" <=> d \in clients[t]
        BY <2>3, <2>5 DEF Phase, Serving
      <3>2. Owed(d)' = IF d \in clients[t] THEN Owed(d) + 1 ELSE Owed(d)
        <4>1. (d \in pub.rest)' <=> d \in clients[t]
          BY <1>1
        <4>2. CASE d \in clients[t]
          <5>1. pc[d] \in Serving
            BY <2>3, <4>2
          <5>2. Owed(d) = Len(buf[d]) + InHand(d)
            <6>1. d \notin pub.rest /\ Len(buf[d]) \in Nat
              BY <1>1, <1>2, ConnTypes
            <6>2. Owed(d) = Len(buf[d]) + InHand(d) + 0
              BY <5>1, <6>1 DEF Owed, InHand
            <6>3. InHand(d) \in Nat
              BY DEF InHand
            <6> QED
              BY <6>1, <6>2, <6>3
          <5>3. Owed(d)' = Len(buf[d]) + InHand(d) + 1
            BY <1>1, <4>1, <4>2, <5>1 DEF Owed, InHand
          <5> QED
            BY <4>2, <5>2, <5>3
        <4>3. CASE d \notin clients[t]
          BY <1>1, <4>1, <4>3 DEF Owed
        <4> QED
          BY <4>2, <4>3
      <3>3. /\ Position(d)' = Position(d) /\ InHand(d)' = InHand(d)
            /\ Position(d) \in Nat /\ InHand(d) \in {0, 1} /\ Owed(d) \in Nat
        BY <1>1, <1>2, ConnTypes DEF Position, InHand
      <3>4. ConnOK(d)'
        <4>1. log'[topicOf'[d]] = log'[t] /\ log[topicOf[d]] = log[t]
          BY <1>1, <2>5
        <4>2. pc[d] \in Serving /\ hand[d] # NoEvent =>
                /\ Position(d) + 1 \in 1..Len(log'[t])
                /\ hand[d] = log'[t][Position(d) + 1]
          BY <1>2, <2>1, <3>3, <4>1 DEF ConnOK
        <4>3. pc[d] \in Serving /\ buf[d] # << >> =>
                /\ Position(d) + InHand(d) + 1 \in 1..Len(log'[t])
                /\ buf[d] = <<log'[t][Position(d) + InHand(d) + 1]>>
          BY <1>2, <2>1, <3>3, <4>1 DEF ConnOK
        <4>4. d \in clients[t] => Position(d) + Owed(d)' = Len(log'[t])
          BY <1>2, <2>1, <2>5, <3>2, <3>3, <4>1 DEF ConnOK
        <4> QED
          BY <1>1, <2>1, <2>5, <3>3, <4>1, <4>2, <4>3, <4>4 DEF ConnOK
      <3> QED
        BY <2>2, <2>5, <3>1, <3>2, <3>4
    <2> QED
      BY <2>4, <2>5
  <1>5. Stream!Publish(t)
    BY <1>1, <1>4 DEF Stream!Publish
  <1> QED
    BY <1>3, <1>4, <1>5 DEF OrderInv, Maps, Stream!Next

(* An event moves from the publisher to the slot: what is owed stays owed.   *)
LEMMA SendToSlotMaps ==
    ASSUME IInv, OrderInv, NEW c \in Conns, Offer(c), SendToSlot(c)
    PROVE  OrderInv' /\ Maps
  <1> DEFINE t == topicOf[c]
             l == log[t]
  <1>1. /\ pub.active /\ c \in pub.rest
        /\ pub'.active /\ pub'.topic = pub.topic /\ pub'.event = pub.event
        /\ pub'.rest = pub.rest \ {c}
        /\ buf[c] = << >> /\ buf' = [buf EXCEPT ![c] = <<pub.event>>]
        /\ UNCHANGED <<clients, pc, hand, topicOf, log, joined, delivered>>
        /\ TypeOK
    BY DEF Offer, SendToSlot, IInv, TypeOK, streamVars, history
  <1>2. /\ pub.topic = t /\ c \in clients[t] /\ pc[c] \in Serving
        /\ buf'[c] = <<pub.event>>
        /\ Len(l) \in Nat /\ pub.event = l[Len(l)] /\ Len(l) >= 1
    BY <1>1, ConnTypes DEF IInv, TypeOK, SlotReleased, PublisherInv, OrderInv,
                           NewestOffered
  <1>3. /\ Position(c)' = Position(c) /\ InHand(c)' = InHand(c)
        /\ Position(c) \in Nat /\ InHand(c) \in {0, 1}
    BY <1>1, ConnTypes DEF Position, InHand
  <1>4. /\ Owed(c) = InHand(c) + 1 /\ Owed(c)' = InHand(c) + 1
        /\ Phase(c)' = Phase(c)
    <2>1. Len(buf[c]) = 0 /\ Len(buf'[c]) = 1
      BY <1>1, <1>2
    <2>2. Owed(c) = InHand(c) + 1
      BY <1>1, <1>2, <2>1 DEF Owed, InHand
    <2>3. c \notin pub'.rest /\ pc'[c] \in Serving
      BY <1>1, <1>2
    <2>4. Owed(c)' = Len(buf'[c]) + InHand(c)' + 0
      BY <2>3 DEF Owed, InHand
    <2>5. Phase(c)' = Phase(c)
      BY <1>1 DEF Phase
    <2> QED
      BY <1>3, <2>1, <2>2, <2>4, <2>5
  <1>5. Position(c) + InHand(c) + 1 = Len(l)
    BY <1>2, <1>3, <1>4 DEF OrderInv, ConnOK
  <1>6. ConnOK(c)'
    <2>1. ConnOK(c)
      BY DEF OrderInv
    <2>2. l[Position(c) + InHand(c) + 1] = pub.event
      BY <1>2, <1>5
    <2>3. Position(c) + InHand(c) + 1 \in 1..Len(l)
      BY <1>2, <1>3, <1>5
    <2>4. pc[c] # "new"
      BY <1>2 DEF Serving
    <2> QED
      BY <1>1, <1>2, <1>3, <1>4, <1>5, <2>1, <2>2, <2>3, <2>4 DEF ConnOK
  <1>7. ASSUME NEW d \in Conns, d # c PROVE Untouched(d)
    BY <1>1, <1>7 DEF Untouched, TypeOK
  <1>8. ASSUME NEW d \in Conns
        PROVE  ConnOK(d)' /\ Phase(d)' = Phase(d) /\ Owed(d)' = Owed(d)
    BY <1>4, <1>6, <1>7, UntouchedStream DEF OrderInv
  <1>9. NewestOffered'
    BY <1>1 DEF OrderInv, NewestOffered
  <1> QED
    BY <1>1, <1>8, <1>9, Unseen DEF OrderInv

(* A stream whose slot is taken owes an earlier event, and loses the newest. *)
LEMMA EvictMaps ==
    ASSUME IInv, OrderInv, NEW c \in Conns, Offer(c), Evict(c)
    PROVE  OrderInv' /\ Maps
  <1> DEFINE t == topicOf[c]
  <1>1. /\ pub.active /\ c \in pub.rest
        /\ pub'.active /\ pub'.topic = pub.topic /\ pub'.event = pub.event
        /\ pub'.rest = pub.rest \ {c}
        /\ buf[c] # << >>
        /\ clients' = [clients EXCEPT ![pub.topic] = clients[pub.topic] \ {c}]
        /\ UNCHANGED <<buf, pc, hand, topicOf, log, joined, delivered>>
        /\ TypeOK
    BY DEF Offer, Evict, IInv, TypeOK, streamVars, history
  <1>2. /\ pub.topic = t /\ t \in Topics
        /\ c \in clients[t] /\ pc[c] \in Serving
        /\ clients'[t] = clients[t] \ {c}
        /\ c \notin clients'[t]
    BY <1>1, ConnTypes DEF IInv, TypeOK, SlotReleased, PublisherInv
  <1>3. /\ Position(c)' = Position(c) /\ InHand(c)' = InHand(c)
        /\ InHand(c) \in {0, 1} /\ Len(buf[c]) = 1
    BY <1>1, ConnTypes DEF Position, InHand
  <1>4. /\ Owed(c) = InHand(c) + 2 /\ Owed(c)' = InHand(c) + 1
        /\ Phase(c) = "live" /\ Phase(c)' = "cut"
    <2>1. Owed(c) = InHand(c) + 2 /\ Owed(c)' = InHand(c) + 1
      BY <1>1, <1>2, <1>3 DEF Owed, InHand
    <2>2. Phase(c) = "live"
      BY <1>2 DEF Phase, Serving
    <2>3. Phase(c)' = "cut"
      BY <1>1, <1>2 DEF Phase, Serving
    <2> QED
      BY <2>1, <2>2, <2>3
  <1>5. ConnOK(c)'
    <2>1. ConnOK(c)
      BY DEF OrderInv
    <2> QED
      BY <1>1, <1>2, <1>3, <2>1 DEF ConnOK
  <1>6. ASSUME NEW d \in Conns, d # c PROVE Untouched(d)
    <2>1. d \in clients'[topicOf[d]] <=> d \in clients[topicOf[d]]
      BY <1>1, <1>2, <1>6, ConnTypes DEF TypeOK
    <2> QED
      BY <1>1, <1>6, <2>1 DEF Untouched
  <1>7. ASSUME NEW d \in Conns
        PROVE  /\ ConnOK(d)'
               /\ Phase(d)' = IF d = c THEN "cut" ELSE Phase(d)
               /\ Owed(d)' = IF d = c THEN Owed(d) - 1 ELSE Owed(d)
    BY <1>3, <1>4, <1>5, <1>6, UntouchedStream DEF OrderInv
  <1>8. NewestOffered'
    BY <1>1 DEF OrderInv, NewestOffered
  <1>9. Stream!Cut(c)
    <2> DEFINE ph == [d \in Conns |-> Phase(d)]
               ow == [d \in Conns |-> Owed(d)]
    <2>1. ph[c] = "live" /\ ow[c] > 1
      BY <1>3, <1>4
    <2>2. ph' = [ph EXCEPT ![c] = "cut"]
      BY <1>7
    <2>3. ow' = [ow EXCEPT ![c] = ow[c] - 1]
      BY <1>7
    <2> QED
      BY <1>1, <2>1, <2>2, <2>3 DEF Stream!Cut
  <1> QED
    BY <1>7, <1>8, <1>9 DEF OrderInv, Maps, Stream!Next

LEMMA OfferMaps ==
    ASSUME IInv, OrderInv, NEW c \in Conns, Offer(c)
    PROVE  OrderInv' /\ Maps
  <1>1. open[c]
    BY DEF Offer, IInv, TypeOK, PublisherInv, ChannelInv
  <1> QED
    BY <1>1, SendToSlotMaps, EvictMaps DEF Offer, SendOnClosed

LEMMA EndPublishMaps ==
    ASSUME IInv, OrderInv, EndPublish
    PROVE  OrderInv' /\ Maps
  <1>1. /\ pub.rest = {} /\ pub'.rest = {} /\ ~pub'.active
        /\ UNCHANGED <<clients, buf, pc, hand, topicOf, log, joined, delivered>>
    BY DEF EndPublish, Idle, chanVars, streamVars, history
  <1>2. NewestOffered' /\ \A d \in Conns : Untouched(d)
    BY <1>1 DEF NewestOffered, Untouched
  <1> QED
    BY <1>1, <1>2, UntouchedStreams

(* A request subscribes at the end of its topic's log.                       *)
LEMMA RegisterMaps ==
    ASSUME IInv, OrderInv, NEW c \in Conns, Register(c)
    PROVE  OrderInv' /\ Maps
  <1> DEFINE t == topicOf[c]
  <1>1. /\ t \in Topics
        /\ pc[c] = "new" /\ ~pub.active /\ pub.rest = {}
        /\ clients' = [clients EXCEPT ![t] = clients[t] \cup {c}]
        /\ pc' = [pc EXCEPT ![c] = "opening"]
        /\ joined' = [joined EXCEPT ![c] = Len(log[t])]
        /\ UNCHANGED <<pub, buf, hand, topicOf, log, delivered>>
        /\ TypeOK
    BY DEF IInv, TypeOK, PublisherInv, Register, Goto, Unlocked, chanVars
  <1>2. /\ buf[c] = << >> /\ delivered[c] = << >> /\ hand[c] = NoEvent
        /\ Len(log[t]) \in Nat
        /\ c \in clients'[t] /\ pc'[c] = "opening" /\ joined'[c] = Len(log[t])
    BY <1>1, ConnTypes DEF OrderInv, ConnOK, TypeOK
  <1>3. Owed(c) = 0 /\ Owed(c)' = 0
    BY <1>1, <1>2 DEF Owed, Serving
  <1>4. Phase(c) = "absent" /\ Phase(c)' = "live"
    BY <1>1, <1>2 DEF Phase, Serving
  <1>5. ConnOK(c)'
    <2>1. Position(c)' = Len(log[t])
      BY <1>1, <1>2 DEF Position
    <2> QED
      BY <1>1, <1>2, <1>3, <2>1 DEF ConnOK
  <1>6. ASSUME NEW d \in Conns, d # c PROVE Untouched(d)
    BY <1>1, <1>6, ConnTypes DEF Untouched, TypeOK
  <1>7. ASSUME NEW d \in Conns
        PROVE  /\ ConnOK(d)'
               /\ Phase(d)' = IF d = c THEN "live" ELSE Phase(d)
               /\ Owed(d)' = Owed(d)
    BY <1>3, <1>4, <1>5, <1>6, UntouchedStream DEF OrderInv
  <1>8. NewestOffered'
    BY <1>1 DEF NewestOffered
  <1>9. Stream!Subscribe(c)
    <2> DEFINE ph == [d \in Conns |-> Phase(d)]
               ow == [d \in Conns |-> Owed(d)]
    <2>1. ph[c] = "absent"
      BY <1>4
    <2>2. ph' = [ph EXCEPT ![c] = "live"]
      BY <1>7
    <2>3. ow' = ow
      BY <1>7
    <2> QED
      BY <1>1, <2>1, <2>2, <2>3 DEF Stream!Subscribe
  <1> QED
    BY <1>7, <1>8, <1>9 DEF OrderInv, Maps, Stream!Next

(* A handler that moves on without touching slot, hand or peer.              *)
LEMMA MoveMaps ==
    ASSUME IInv, OrderInv, NEW c \in Conns, NEW l \in Labels,
           pc' = pc \/ pc' = [pc EXCEPT ![c] = l],
           \/ pc[c] = "new" /\ l = "refused"
           \/ /\ pc[c] \in Serving /\ l \in Serving
              /\ l \in {"opening", "loop"} => hand[c] = NoEvent,
           UNCHANGED <<clients, pub, buf, hand, topicOf, log, joined, delivered>>
    PROVE  OrderInv' /\ Maps
  <1>1. TypeOK /\ pc \in [Conns -> Labels]
    BY DEF IInv, TypeOK
  <1>2. NewestOffered'
    BY DEF OrderInv, NewestOffered
  <1>3. ASSUME NEW d \in Conns
        PROVE  ConnOK(d)' /\ Phase(d)' = Phase(d) /\ Owed(d)' = Owed(d)
    <2>1. CASE pc'[d] = pc[d]
      <3>1. Untouched(d)
        BY <2>1 DEF Untouched
      <3> QED
        BY <3>1, UntouchedStream DEF OrderInv
    <2>2. CASE pc'[d] # pc[d]
      <3>1. d = c /\ pc'[c] = l
        BY <1>1, <2>2
      <3>2. Position(c)' = Position(c) /\ InHand(c)' = InHand(c)
        BY DEF Position, InHand
      <3>3. CASE pc[c] = "new" /\ l = "refused"
        <4>1. Phase(c)' = Phase(c) /\ Owed(c)' = Owed(c)
          BY <3>1, <3>3 DEF Phase, Owed, Serving
        <4>2. c \notin clients[topicOf[c]]
          BY <1>1, <3>3, ConnTypes DEF IInv, SlotReleased, Serving
        <4> QED
          BY <3>1, <3>3, <4>1, <4>2 DEF OrderInv, ConnOK, Serving
      <3>4. CASE /\ pc[c] \in Serving /\ l \in Serving
                 /\ l \in {"opening", "loop"} => hand[c] = NoEvent
        <4>1. Owed(c)' = Owed(c)
          BY <3>1, <3>4 DEF Owed
        <4>2. Phase(c)' = Phase(c)
          BY <3>1, <3>4 DEF Phase, Serving
        <4>3. l # "new"
          BY <3>4 DEF Serving
        <4>4. ConnOK(c)
          BY DEF OrderInv
        <4>5. ConnOK(c)'
          BY <3>1, <3>2, <3>4, <4>1, <4>3, <4>4 DEF ConnOK
        <4> QED
          BY <3>1, <4>1, <4>2, <4>5
      <3> QED
        BY <3>3, <3>4
    <2> QED
      BY <2>1, <2>2
  <1> QED
    BY <1>2, <1>3, Unseen DEF OrderInv

LEMMA QuietMaps ==
    ASSUME IInv, OrderInv, NEW c \in Conns,
           \/ Refuse(c) \/ FlushHeaders(c) \/ ContextEnds(c) \/ SeeDone(c)
           \/ Heartbeat(c) \/ SeeClosed(c) \/ WriteFails(c)
    PROVE  OrderInv' /\ Maps
  <1> USE DEF Goto, Refuse, FlushHeaders, ContextEnds, SeeDone, Heartbeat,
              SeeClosed, WriteFails
  <1>1. UNCHANGED <<clients, pub, buf, hand, topicOf, log, joined, delivered>>
    BY DEF hubVars, chanVars, history
  <1>2. pc[c] \in {"opening", "loop"} => hand[c] = NoEvent
    BY DEF OrderInv, ConnOK
  <1>3. PICK l \in Labels :
           /\ pc' = pc \/ pc' = [pc EXCEPT ![c] = l]
           /\ \/ pc[c] = "new" /\ l = "refused"
              \/ /\ pc[c] \in Serving /\ l \in Serving
                 /\ l \in {"opening", "loop"} => hand[c] = NoEvent
    <2>1. CASE Refuse(c)
      BY <2>1 DEF Labels
    <2>2. CASE FlushHeaders(c)
      BY <1>2, <2>2 DEF Labels, Serving
    <2>3. CASE ContextEnds(c)
      BY <2>3 DEF Labels, Serving
    <2>4. CASE SeeDone(c) \/ Heartbeat(c) \/ SeeClosed(c) \/ WriteFails(c)
      BY <2>4 DEF Labels, Serving
    <2> QED
      BY <2>1, <2>2, <2>3, <2>4
  <1> QED
    BY <1>1, <1>3, MoveMaps

(* An event moves from the slot to the hand.                                 *)
LEMMA ReceiveMaps ==
    ASSUME IInv, OrderInv, NEW c \in Conns, Receive(c)
    PROVE  OrderInv' /\ Maps
  <1>1. /\ TypeOK /\ pc[c] = "loop" /\ hand[c] = NoEvent /\ ConnOK(c)
        /\ \E e \in Events : buf[c] = <<e>>
    BY ConnTypes DEF Receive, IInv, OrderInv, ConnOK
  <1>2. PICK e \in Events : buf[c] = <<e>>
    BY <1>1
  <1>3. /\ hand' = [hand EXCEPT ![c] = e]
        /\ buf' = [buf EXCEPT ![c] = << >>]
        /\ pc' = [pc EXCEPT ![c] = "writing"]
        /\ UNCHANGED <<clients, pub, topicOf, log, joined, delivered>>
    BY <1>2 DEF Receive, Goto, hubVars, history
  <1>4. /\ hand'[c] = e /\ buf'[c] = << >> /\ pc'[c] = "writing"
        /\ e # NoEvent
    BY <1>1, <1>3 DEF TypeOK, Events, NoEvent
  <1>5. /\ Position(c)' = Position(c) /\ Position(c) \in Nat
        /\ InHand(c) = 0 /\ InHand(c)' = 1
    BY <1>1, <1>3, <1>4, ConnTypes DEF Position, InHand
  <1>6. Owed(c)' = Owed(c)
    <2>1. Len(buf[c]) = 1 /\ Len(buf'[c]) = 0
      BY <1>2, <1>4
    <2>2. pub'.rest = pub.rest
      BY <1>3
    <2> QED
      BY <1>1, <1>4, <2>1, <2>2 DEF Owed, Serving
  <1>7. Phase(c)' = Phase(c)
    BY <1>1, <1>3, <1>4 DEF Phase, Serving
  <1>8. ConnOK(c)'
    <2>1. /\ Position(c) + 1 \in 1..Len(log[topicOf[c]])
          /\ e = log[topicOf[c]][Position(c) + 1]
      <3>1. /\ Position(c) + 0 + 1 \in 1..Len(log[topicOf[c]])
            /\ <<e>> = <<log[topicOf[c]][Position(c) + 0 + 1]>>
        BY <1>1, <1>2, <1>5 DEF ConnOK, Serving
      <3>2. Position(c) + 0 + 1 = Position(c) + 1
        BY <1>5
      <3> QED
        BY <3>1, <3>2
    <2> QED
      BY <1>1, <1>3, <1>4, <1>5, <1>6, <2>1 DEF ConnOK
  <1>9. ASSUME NEW d \in Conns, d # c PROVE Untouched(d)
    BY <1>1, <1>3, <1>9 DEF Untouched, TypeOK
  <1>10. ASSUME NEW d \in Conns
         PROVE  ConnOK(d)' /\ Phase(d)' = Phase(d) /\ Owed(d)' = Owed(d)
    BY <1>6, <1>7, <1>8, <1>9, UntouchedStream DEF OrderInv
  <1>11. NewestOffered'
    BY <1>3 DEF OrderInv, NewestOffered
  <1> QED
    BY <1>3, <1>10, <1>11, Unseen DEF OrderInv

(* The event in hand reaches the peer: it is the next one of the topic.      *)
LEMMA DeliverMaps ==
    ASSUME IInv, OrderInv, NEW c \in Conns, WriteReturns(c), hand[c] # NoEvent
    PROVE  OrderInv' /\ Maps
  <1> DEFINE t == topicOf[c]
             e == hand[c]
  <1>1. /\ TypeOK /\ ConnOK(c) /\ pc[c] = "writing"
        /\ pc' = [pc EXCEPT ![c] = "loop"]
        /\ hand' = [hand EXCEPT ![c] = NoEvent]
        /\ delivered' = [delivered EXCEPT ![c] = Append(delivered[c], e)]
        /\ UNCHANGED <<clients, pub, buf, topicOf, log, joined>>
    BY DEF WriteReturns, Goto, IInv, OrderInv, hubVars, chanVars
  <1>2. /\ pc'[c] = "loop" /\ hand'[c] = NoEvent
        /\ delivered'[c] = Append(delivered[c], e)
    BY <1>1 DEF TypeOK
  <1>3. /\ joined[c] \in Nat
        /\ delivered[c] \in Seq(Events) /\ Len(delivered[c]) \in Nat
        /\ e \in Events
        /\ Len(buf[c]) \in Nat
    BY <1>1, ConnTypes
  <1>4. Len(delivered'[c]) = Len(delivered[c]) + 1
    BY <1>2, <1>3
  <1>5. /\ Position(c)' = Position(c) + 1 /\ Position(c) \in Nat
        /\ InHand(c) = 1 /\ InHand(c)' = 0
    <2>1. joined'[c] = joined[c]
      BY <1>1
    <2>2. Position(c) = joined[c] + Len(delivered[c]) /\ Position(c) \in Nat
      BY <1>3 DEF Position
    <2>3. Position(c)' = joined[c] + Len(delivered'[c])
      BY <2>1 DEF Position
    <2>4. InHand(c) = 1 /\ InHand(c)' = 0
      BY <1>2 DEF InHand
    <2> QED
      BY <1>3, <1>4, <2>2, <2>3, <2>4
  <1>6. Owed(c) >= 1 /\ Owed(c)' = Owed(c) - 1
    <2> DEFINE R == IF c \in pub.rest THEN 1 ELSE 0
    <2>1. Owed(c) = Len(buf[c]) + InHand(c) + R
      BY <1>1 DEF Owed, InHand, Serving
    <2>2. Owed(c)' = Len(buf[c]) + InHand(c)' + R
      BY <1>1, <1>2 DEF Owed, InHand, Serving
    <2>3. R \in {0, 1}
      OBVIOUS
    <2> HIDE DEF R
    <2> QED
      BY <1>3, <1>5, <2>1, <2>2, <2>3
  <1>7. Phase(c)' = Phase(c) /\ Phase(c) \in {"live", "cut"}
    <2>1. pc[c] \in Serving /\ pc'[c] \in Serving
      BY <1>1, <1>2 DEF Serving
    <2>2. pc[c] \notin {"new", "refused"} /\ pc[c] # "gone"
      BY <1>1
    <2>3. pc'[c] \notin {"new", "refused"} /\ pc'[c] # "gone"
      BY <1>2
    <2> QED
      BY <1>1, <2>1, <2>2, <2>3 DEF Phase
  <1>8. e = log[t][joined[c] + Len(delivered[c]) + 1]
    BY <1>1 DEF ConnOK, Serving, Position
  <1>9. ConnOK(c)'
    <2>1. buf[c] # << >> =>
            /\ Position(c)' + 0 + 1 \in 1..Len(log[t])
            /\ buf[c] = <<log[t][Position(c)' + 0 + 1]>>
      <3>1. Position(c) + 1 + 1 = Position(c)' + 0 + 1
        BY <1>5
      <3>2. buf[c] # << >> =>
              /\ Position(c) + 1 + 1 \in 1..Len(log[t])
              /\ buf[c] = <<log[t][Position(c) + 1 + 1]>>
        BY <1>1, <1>5 DEF ConnOK, Serving
      <3> QED
        BY <3>1, <3>2
    <2>2. c \in clients[t] => Position(c)' + Owed(c)' = Len(log[t])
      <3>1. Owed(c) \in Nat
        BY <1>1, ConnTypes
      <3> QED
        BY <1>1, <1>5, <1>6, <3>1 DEF ConnOK
    <2> QED
      BY <1>1, <1>2, <1>5, <2>1, <2>2 DEF ConnOK
  <1>10. ASSUME NEW d \in Conns, d # c PROVE Untouched(d)
    BY <1>1, <1>10 DEF Untouched, TypeOK
  <1>11. ASSUME NEW d \in Conns
         PROVE  /\ ConnOK(d)'
                /\ Phase(d)' = Phase(d)
                /\ Owed(d)' = IF d = c THEN Owed(d) - 1 ELSE Owed(d)
    BY <1>6, <1>7, <1>9, <1>10, UntouchedStream DEF OrderInv
  <1>12. NewestOffered'
    BY <1>1 DEF OrderInv, NewestOffered
  <1>13. Stream!Deliver(c)
    <2> DEFINE ph == [d \in Conns |-> Phase(d)]
               ow == [d \in Conns |-> Owed(d)]
    <2>1. ph[c] \in {"live", "cut"} /\ ow[c] > 0
      BY <1>1, <1>6, <1>7, ConnTypes
    <2>2. ph' = ph
      BY <1>11
    <2>3. ow' = [ow EXCEPT ![c] = ow[c] - 1]
      BY <1>11
    <2>4. delivered' = [delivered EXCEPT ![c] =
             Append(delivered[c], log[t][joined[c] + Len(delivered[c]) + 1])]
      BY <1>1, <1>8
    <2> QED
      BY <1>1, <2>1, <2>2, <2>3, <2>4 DEF Stream!Deliver
  <1> QED
    BY <1>11, <1>12, <1>13 DEF OrderInv, Maps, Stream!Next

(* A heartbeat reaches the peer.                                             *)
LEMMA HeartbeatMaps ==
    ASSUME IInv, OrderInv, NEW c \in Conns, WriteReturns(c), hand[c] = NoEvent
    PROVE  OrderInv' /\ Maps
  <1>1. /\ pc[c] = "writing" /\ pc' = [pc EXCEPT ![c] = "loop"]
        /\ hand' = hand /\ delivered' = delivered
        /\ UNCHANGED <<clients, pub, buf, topicOf, log, joined>>
    BY DEF WriteReturns, Goto, IInv, TypeOK, hubVars, chanVars
  <1> QED
    BY <1>1, MoveMaps DEF Labels, Serving

(* A stream ends.                                                            *)
LEMMA CleanupMaps ==
    ASSUME IInv, OrderInv, NEW c \in Conns, Cleanup(c)
    PROVE  OrderInv' /\ Maps
  <1> DEFINE t == topicOf[c]
  <1>1. /\ TypeOK /\ t \in Topics
        /\ pc[c] = "leaving" /\ ~pub.active
        /\ pc' = [pc EXCEPT ![c] = "gone"]
        /\ clients' = [clients EXCEPT ![t] = clients[t] \ {c}]
        /\ UNCHANGED <<pub, buf, hand, topicOf, log, joined, delivered>>
    <2>1. clients' = [clients EXCEPT ![t] = clients[t] \ {c}]
      <3>1. CASE c \in clients[t]
        BY <3>1 DEF Cleanup, IInv, TypeOK
      <3>2. CASE c \notin clients[t]
        BY <3>2 DEF Cleanup, IInv, TypeOK
      <3> QED
        BY <3>1, <3>2
    <2> QED
      BY <2>1 DEF Cleanup, Goto, Unlocked, IInv, TypeOK, history
  <1>2. pc'[c] = "gone" /\ clients'[t] = clients[t] \ {c}
    BY <1>1 DEF TypeOK
  <1>3. Owed(c)' = 0 /\ Phase(c)' = "ended"
    BY <1>2 DEF Owed, Phase, Serving
  <1>4. Phase(c) \in {"live", "cut"}
    BY <1>1 DEF Phase, Serving
  <1>5. ConnOK(c)'
    BY <1>1, <1>2 DEF ConnOK, Serving
  <1>6. ASSUME NEW d \in Conns, d # c PROVE Untouched(d)
    <2>1. d \in clients'[topicOf[d]] <=> d \in clients[topicOf[d]]
      BY <1>1, <1>2, <1>6, ConnTypes DEF TypeOK
    <2> QED
      BY <1>1, <1>6, <2>1 DEF Untouched, TypeOK
  <1>7. ASSUME NEW d \in Conns
        PROVE  /\ ConnOK(d)'
               /\ Phase(d)' = IF d = c THEN "ended" ELSE Phase(d)
               /\ Owed(d)' = IF d = c THEN 0 ELSE Owed(d)
    BY <1>3, <1>5, <1>6, UntouchedStream DEF OrderInv
  <1>8. NewestOffered'
    BY <1>1 DEF NewestOffered
  <1>9. Stream!End(c)
    <2> DEFINE ph == [d \in Conns |-> Phase(d)]
               ow == [d \in Conns |-> Owed(d)]
    <2>1. ph[c] \in {"live", "cut"}
      BY <1>4
    <2>2. ph' = [ph EXCEPT ![c] = "ended"]
      BY <1>7
    <2>3. ow' = [ow EXCEPT ![c] = 0]
      BY <1>7
    <2> QED
      BY <1>1, <2>1, <2>2, <2>3 DEF Stream!End
  <1> QED
    BY <1>7, <1>8, <1>9 DEF OrderInv, Maps, Stream!Next

LEMMA InitMaps == Init => OrderInv /\ Stream!Init
  <1> SUFFICES ASSUME Init PROVE OrderInv /\ Stream!Init
    OBVIOUS
  <1>1. ASSUME NEW c \in Conns
        PROVE  ConnOK(c) /\ Phase(c) = "absent" /\ Owed(c) = 0
    <2>1. pc[c] = "new" /\ buf[c] = << >> /\ delivered[c] = << >>
          /\ hand[c] = NoEvent
      BY DEF Init
    <2>2. c \notin clients[topicOf[c]]
      BY DEF Init
    <2>3. Phase(c) = "absent" /\ Owed(c) = 0
      BY <2>1 DEF Phase, Owed, Serving
    <2> QED
      BY <2>1, <2>2, <2>3 DEF ConnOK, Serving
  <1>2. NewestOffered
    BY DEF Init, Idle, NewestOffered
  <1>3. Stream!Init
    BY <1>1 DEF Init, Stream!Init
  <1> QED
    BY <1>1, <1>2, <1>3 DEF OrderInv

LEMMA StepMaps == IInv /\ OrderInv /\ [Next]_vars => OrderInv' /\ Maps
  <1> SUFFICES ASSUME IInv, OrderInv, [Next]_vars PROVE OrderInv' /\ Maps
    OBVIOUS
  <1>1. ASSUME NEW t \in Topics, BeginPublish(t) PROVE OrderInv' /\ Maps
    BY <1>1, BeginPublishMaps
  <1>2. ASSUME NEW c \in Conns, Offer(c) PROVE OrderInv' /\ Maps
    BY <1>2, OfferMaps
  <1>3. CASE EndPublish
    BY <1>3, EndPublishMaps
  <1>4. ASSUME NEW c \in Conns, Handler(c) PROVE OrderInv' /\ Maps
    <2>1. CASE WriteReturns(c)
      BY <2>1, DeliverMaps, HeartbeatMaps
    <2> QED
      BY <1>4, <2>1, QuietMaps, RegisterMaps, ReceiveMaps, CleanupMaps
      DEF Handler
  <1>5. CASE Finished \/ UNCHANGED vars
    <2>1. UNCHANGED <<clients, pub, buf, pc, hand, topicOf, log, joined,
                      delivered>>
      BY <1>5 DEF Finished, vars, hubVars, chanVars, streamVars, history
    <2>2. NewestOffered' /\ \A d \in Conns : Untouched(d)
      BY <2>1 DEF OrderInv, NewestOffered, Untouched
    <2> QED
      BY <2>1, <2>2, UntouchedStreams
  <1> QED
    BY <1>1, <1>2, <1>3, <1>4, <1>5 DEF Next

(* The hub keeps the promise of TopicStream to any number of streams of any  *)
(* number of topics: every stream delivers the events of its topic from its  *)
(* registration on, in order and without a gap, and a stream that is cut for *)
(* lagging loses all later ones (sse.go:90-102, 158-180).                    *)
THEOREM StreamsAreInOrder == Spec => ImplementsStream
  <1>1. Init => OrderInv /\ Stream!Init
    BY InitMaps
  <1>2. IInv /\ OrderInv /\ [Next]_vars
           => OrderInv' /\ [Stream!Next]_(Stream!vars)
    BY StepMaps DEF Maps
  <1> QED
    BY Invariance, <1>1, <1>2, PTL DEF Spec, ImplementsStream, Stream!Spec
=============================================================================
