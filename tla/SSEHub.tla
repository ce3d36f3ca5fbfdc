------------------------------- MODULE SSEHub -------------------------------
(***************************************************************************)
(* The server-sent-events hub of realtime/sse.go.  Each stream handler owns *)
(* a channel with one slot; the hub's mutex guards the map from topics to   *)
(* registered channels.  A publisher holds the mutex while it offers its    *)
(* event to every registered channel of the topic, without blocking: a      *)
(* channel whose slot is taken is closed and removed.  Handlers receive      *)
(* outside the mutex, so their steps interleave with a publisher's.          *)
(*                                                                         *)
(* Events are numbers in the order of publication; the header bytes, the    *)
(* line splitting of writeEvent and the copies of Data are left out.        *)
(***************************************************************************)
EXTENDS Integers, Sequences, FiniteSets

CONSTANTS
    Conns,              \* stream requests, each with its own handler goroutine
    Topics,             \* topic names: "" of ServeHTTP and Publish, and others
    MaxEvents,          \* bound: how many events are published
    MaxClientsOption,   \* the argument of WithMaxClients
    DefaultMaxClients   \* defaultMaxClients

ASSUME HubAssumption ==
    /\ IsFiniteSet(Conns)
    /\ Topics # {}
    /\ MaxEvents \in Nat
    /\ MaxClientsOption \in Int
    /\ DefaultMaxClients \in Nat \ {0}

Events  == 1..MaxEvents
NoEvent == 0

VARIABLES
    clients,    \* [Topics -> SUBSET Conns]: h.clients, channels by owner
    entries,    \* the keys of h.clients: topics that have an inner map
    pub,        \* the publisher inside the mutex: [active, topic, event, rest]
    open,       \* [Conns -> BOOLEAN]: the channel is not closed
    buf,        \* [Conns -> Seq(Events)]: the channel's one slot
    pc,         \* [Conns -> where the handler is]
    hand,       \* [Conns -> the event being written, or NoEvent]
    done,       \* [Conns -> BOOLEAN]: the stream's context is done
    panicked,   \* a send on, or a close of, a closed channel happened
    topicOf,    \* [Conns -> Topics]: the topic of the handler's route
    sent,       \* number of events published
    log,        \* history: [Topics -> events published, in order]
    joined,     \* history: [Conns -> Len(log) of its topic at registration]
    delivered   \* history: [Conns -> events written and flushed]

hubVars    == <<clients, entries, pub>>
chanVars   == <<open, buf>>
streamVars == <<pc, hand, done>>
history    == <<sent, log, joined, delivered>>
vars == <<hubVars, chanVars, streamVars, panicked, topicOf, history>>

Labels  == {"new", "opening", "loop", "writing", "leaving", "gone", "refused"}
Serving == {"opening", "loop", "writing", "leaving"}

Idle == [active |-> FALSE, topic |-> CHOOSE t \in Topics : TRUE,
         event |-> NoEvent, rest |-> {}]

-----------------------------------------------------------------------------
(* NewHub: an option below one keeps the default.                            *)
maxClients == IF MaxClientsOption > 0 THEN MaxClientsOption
              ELSE DefaultMaxClients

Registered == UNION {clients[t] : t \in entries}

clientCount == Cardinality(Registered)

Unlocked == ~pub.active

Goto(c, l) == pc' = [pc EXCEPT ![c] = l]

Init ==
    /\ clients = [t \in Topics |-> {}]
    /\ entries = {}
    /\ pub = Idle
    /\ open = [c \in Conns |-> TRUE]
    /\ buf = [c \in Conns |-> << >>]
    /\ pc = [c \in Conns |-> "new"]
    /\ hand = [c \in Conns |-> NoEvent]
    /\ done = [c \in Conns |-> FALSE]
    /\ panicked = FALSE
    /\ topicOf \in [Conns -> Topics]
    /\ sent = 0
    /\ log = [t \in Topics |-> << >>]
    /\ joined = [c \in Conns |-> 0]
    /\ delivered = [c \in Conns |-> << >>]

-----------------------------------------------------------------------------
(* Variants of the actions below, each with one slip a maintainer could make; *)
(* they are not part of the specification.                                   *)

BeginPublishEverywhere(t) ==
    /\ Unlocked
    /\ sent < MaxEvents
    /\ sent' = sent + 1
    /\ log' = [log EXCEPT ![t] = Append(@, sent + 1)]
    /\ pub' = [active |-> TRUE, topic |-> t, event |-> sent + 1,
               rest |-> Registered]
    /\ UNCHANGED <<clients, entries, chanVars, streamVars, panicked, topicOf,
                   joined, delivered>>

SendToLargerBuffer(c) ==
    /\ open[c]
    /\ Len(buf[c]) < 2
    /\ buf' = [buf EXCEPT ![c] = Append(@, pub.event)]
    /\ UNCHANGED <<clients, open, panicked>>

EvictKeepsMember(c) ==
    /\ open[c]
    /\ buf[c] # << >>
    /\ open' = [open EXCEPT ![c] = FALSE]
    /\ UNCHANGED <<clients, buf, panicked>>

EvictLeavesOpen(c) ==
    /\ open[c]
    /\ buf[c] # << >>
    /\ clients' = [clients EXCEPT ![pub.topic] = @ \ {c}]
    /\ UNCHANGED <<open, buf, panicked>>

EvictDropsEvent(c) ==
    /\ open[c]
    /\ buf[c] # << >>
    /\ UNCHANGED <<clients, open, buf, panicked>>

FlushHeadersBeforeDefer(c) ==
    /\ pc[c] = "opening"
    /\ Goto(c, "loop") \/ Goto(c, "gone")
    /\ UNCHANGED <<hubVars, chanVars, hand, done, panicked, topicOf, history>>

-----------------------------------------------------------------------------
(* publish: the mutex is taken, the topic's channels are offered the event   *)
(* in the map's random order, the mutex is released.                         *)

BeginPublish(t) ==
    /\ Unlocked
    /\ sent < MaxEvents
    /\ sent' = sent + 1
    /\ log' = [log EXCEPT ![t] = Append(@, sent + 1)]
    /\ pub' = [active |-> TRUE, topic |-> t, event |-> sent + 1,
               rest |-> clients[t]]
    /\ UNCHANGED <<clients, entries, chanVars, streamVars, panicked, topicOf,
                   joined, delivered>>

(* A send on a closed channel panics, also inside a select with a default.   *)
SendOnClosed(c) ==
    /\ ~open[c]
    /\ panicked' = TRUE
    /\ UNCHANGED <<clients, open, buf>>

SendToSlot(c) ==
    /\ open[c]
    /\ buf[c] = << >>
    /\ buf' = [buf EXCEPT ![c] = <<pub.event>>]
    /\ UNCHANGED <<clients, open, panicked>>

(* The slot is taken: the slow client's channel is closed and removed.       *)
Evict(c) ==
    /\ open[c]
    /\ buf[c] # << >>
    /\ open' = [open EXCEPT ![c] = FALSE]
    /\ clients' = [clients EXCEPT ![pub.topic] = @ \ {c}]
    /\ UNCHANGED <<buf, panicked>>

Offer(c) ==
    /\ pub.active
    /\ c \in pub.rest
    /\ pub' = [pub EXCEPT !.rest = @ \ {c}]
    /\ SendOnClosed(c) \/ SendToSlot(c) \/ Evict(c)
    /\ UNCHANGED <<entries, streamVars, topicOf, history>>

EndPublish ==
    /\ pub.active
    /\ pub.rest = {}
    /\ pub' = Idle
    /\ UNCHANGED <<clients, entries, chanVars, streamVars, panicked, topicOf,
                   history>>

-----------------------------------------------------------------------------
(* serveTopic: admission and registration in one critical section, ...       *)

Refuse(c) ==
    /\ pc[c] = "new"
    /\ Unlocked
    /\ clientCount >= maxClients
    /\ Goto(c, "refused")
    /\ UNCHANGED <<hubVars, chanVars, hand, done, panicked, topicOf, history>>

Register(c) ==
    /\ pc[c] = "new"
    /\ Unlocked
    /\ clientCount < maxClients
    /\ entries' = entries \cup {topicOf[c]}
    /\ clients' = [clients EXCEPT ![topicOf[c]] = @ \cup {c}]
    /\ joined' = [joined EXCEPT ![c] = Len(log[topicOf[c]])]
    /\ Goto(c, "opening")
    /\ UNCHANGED <<pub, chanVars, hand, done, panicked, topicOf, sent, log,
                   delivered>>

(* ... the first Flush, which may fail, ...                                  *)
FlushHeaders(c) ==
    /\ pc[c] = "opening"
    /\ Goto(c, "loop") \/ Goto(c, "leaving")
    /\ UNCHANGED <<hubVars, chanVars, hand, done, panicked, topicOf, history>>

(* ... the stream's context, which ends when the request does or after       *)
(* maxStreamAge; nothing looks at it before the loop is entered, ...         *)
ContextEnds(c) ==
    /\ pc[c] \in {"loop", "writing"}
    /\ ~done[c]
    /\ done' = [done EXCEPT ![c] = TRUE]
    /\ UNCHANGED <<hubVars, chanVars, pc, hand, panicked, topicOf, history>>

(* ... the select loop: any ready case may be taken, and a closed channel    *)
(* still yields the event in its slot, ...                                   *)
SeeDone(c) ==
    /\ pc[c] = "loop"
    /\ done[c]
    /\ Goto(c, "leaving")
    /\ UNCHANGED <<hubVars, chanVars, hand, done, panicked, topicOf, history>>

Heartbeat(c) ==
    /\ pc[c] = "loop"
    /\ Goto(c, "writing")
    /\ UNCHANGED <<hubVars, chanVars, hand, done, panicked, topicOf, history>>

Receive(c) ==
    /\ pc[c] = "loop"
    /\ buf[c] # << >>
    /\ hand' = [hand EXCEPT ![c] = Head(buf[c])]
    /\ buf' = [buf EXCEPT ![c] = Tail(@)]
    /\ Goto(c, "writing")
    /\ UNCHANGED <<hubVars, open, done, panicked, topicOf, history>>

SeeClosed(c) ==
    /\ pc[c] = "loop"
    /\ buf[c] = << >>
    /\ ~open[c]
    /\ Goto(c, "leaving")
    /\ UNCHANGED <<hubVars, chanVars, hand, done, panicked, topicOf, history>>

(* ... the write and flush of an event or a heartbeat: no deadline bounds    *)
(* them, either may fail, ...                                                *)
WriteReturns(c) ==
    /\ pc[c] = "writing"
    /\ Goto(c, "loop")
    /\ hand' = [hand EXCEPT ![c] = NoEvent]
    /\ delivered' = [delivered EXCEPT ![c] =
                        IF hand[c] = NoEvent THEN @ ELSE Append(@, hand[c])]
    /\ UNCHANGED <<hubVars, chanVars, done, panicked, topicOf, sent, log,
                   joined>>

WriteFails(c) ==
    /\ pc[c] = "writing"
    /\ Goto(c, "leaving")
    /\ UNCHANGED <<hubVars, chanVars, hand, done, panicked, topicOf, history>>

(* ... and the deferred cleanup: a channel that publish already closed and   *)
(* removed is left alone, and the last one to leave removes the inner map.   *)
Cleanup(c) ==
    LET t == topicOf[c] IN
    /\ pc[c] = "leaving"
    /\ Unlocked
    /\ IF c \in clients[t]
       THEN /\ clients' = [clients EXCEPT ![t] = @ \ {c}]
            /\ open' = [open EXCEPT ![c] = FALSE]
            /\ panicked' = (panicked \/ ~open[c])
       ELSE UNCHANGED <<clients, open, panicked>>
    /\ entries' = IF clients[t] \subseteq {c} THEN entries \ {t} ELSE entries
    /\ Goto(c, "gone")
    /\ UNCHANGED <<pub, buf, hand, done, topicOf, history>>

Handler(c) ==
    \/ Refuse(c) \/ Register(c) \/ FlushHeaders(c)
    \/ ContextEnds(c)
    \/ SeeDone(c) \/ Heartbeat(c) \/ Receive(c) \/ SeeClosed(c)
    \/ WriteReturns(c) \/ WriteFails(c)
    \/ Cleanup(c)

(* Every request was served or refused and every event was published.        *)
Finished ==
    /\ \A c \in Conns : pc[c] \in {"gone", "refused"}
    /\ UNCHANGED vars

Next ==
    \/ \E t \in Topics : BeginPublish(t)
    \/ \E c \in Conns : Offer(c)
    \/ EndPublish
    \/ \E c \in Conns : Handler(c)
    \/ Finished

Spec == Init /\ [][Next]_vars

(* Goroutines run, sync.Mutex hands itself to a waiting goroutine, timers    *)
(* fire (maxStreamAge is one), and a select with a ready case does not pass  *)
(* it over for ever: a heartbeat is 25 seconds away when the context is done. *)
(* Nothing is assumed of the first flush or of a write: serveTopic clears    *)
(* the write deadline (sse.go:150), so that a peer may stall either for ever. *)
Fairness ==
    /\ WF_vars(EndPublish)
    /\ \A c \in Conns :
          /\ WF_vars(Offer(c))
          /\ SF_vars(Refuse(c) \/ Register(c))
          /\ WF_vars(ContextEnds(c)) /\ SF_vars(SeeDone(c)) /\ WF_vars(SeeClosed(c))
          /\ SF_vars(Cleanup(c))

FairSpec == Spec /\ Fairness

-----------------------------------------------------------------------------
(* Properties                                                                *)

TypeOK ==
    /\ clients \in [Topics -> SUBSET Conns]
    /\ entries \in SUBSET Topics
    /\ pub \in [active : BOOLEAN, topic : Topics, event : Events \cup {NoEvent},
                rest : SUBSET Conns]
    /\ open \in [Conns -> BOOLEAN]
    /\ buf \in [Conns -> {<< >>} \cup {<<e>> : e \in Events}]
    /\ pc \in [Conns -> Labels]
    /\ hand \in [Conns -> Events \cup {NoEvent}]
    /\ done \in [Conns -> BOOLEAN]
    /\ panicked \in BOOLEAN
    /\ topicOf \in [Conns -> Topics]
    /\ sent \in 0..MaxEvents
    /\ log \in [Topics -> Seq(Events)]
    /\ joined \in [Conns -> Nat]
    /\ delivered \in [Conns -> Seq(Events)]

(* No publisher sends on a closed channel, and no channel is closed twice:   *)
(* publish and the deferred cleanup agree, through membership of the map, on *)
(* which of them closes (sse.go:96-99, 136-139).                             *)
NoPanic == ~panicked

(* The streams that publish may still send to, on the handler's side of the   *)
(* channel, are never more than the limit over all topics together: whoever  *)
(* takes a slot away has closed the stream it belonged to                    *)
(* (sse.go:96-99, 124-144).                                                  *)
CapacityKept ==
    Cardinality({c \in Conns : pc[c] \in Serving /\ open[c]}) <= maxClients

(* "WithMaxClients limits simultaneous SSE clients" (sse.go:41): no more      *)
(* requests are being served than the limit.                                 *)
ClientsBounded == Cardinality({c \in Conns : pc[c] \in Serving}) <= maxClients

(* A registered channel has a handler that has not run its cleanup.          *)
SlotReleased ==
    \A t \in Topics : \A c \in clients[t] : topicOf[c] = t /\ pc[c] \in Serving

(* An inner map outlives its last client only while an evicted handler has   *)
(* its cleanup ahead.                                                        *)
NoTopicLeak ==
    \A t \in entries : \E c \in Conns : topicOf[c] = t /\ pc[c] \in Serving

(* No way out of serveTopic, not even a first flush that fails, leaves a slot *)
(* of the capacity taken, and topics that come and go do not pile up in       *)
(* h.clients (sse.go:99, 134-153).                                           *)
NothingLeaks == SlotReleased /\ NoTopicLeak

(* No event of one topic reaches the slot, the writer or the peer of a       *)
(* stream of another topic (sse.go:80-88).                                   *)
TopicIsolation ==
    LET eventsOf(s) == {s[i] : i \in 1..Len(s)} IN
    \A c \in Conns :
        eventsOf(delivered[c]) \cup eventsOf(buf[c]) \cup ({hand[c]} \ {NoEvent})
            \subseteq eventsOf(log[topicOf[c]])

(* "WithMaxStreamAge limits the lifetime of each SSE connection" (sse.go:51). *)
StreamEnds ==
    \A c \in Conns : pc[c] = "loop" ~> pc[c] = "gone"

(* The hub implements the promise of TopicStream to each of its streams.     *)
Phase(c) ==
    CASE pc[c] \in {"new", "refused"} -> "absent"
      [] pc[c] = "gone" -> "ended"
      [] pc[c] \in Serving /\ c \in clients[topicOf[c]] -> "live"
      [] OTHER -> "cut"

Owed(c) ==
    IF pc[c] \notin Serving THEN 0
    ELSE Len(buf[c]) + (IF hand[c] = NoEvent THEN 0 ELSE 1)
                     + (IF c \in pub.rest THEN 1 ELSE 0)

Stream == INSTANCE TopicStream WITH
    phase <- [c \in Conns |-> Phase(c)],
    owed  <- [c \in Conns |-> Owed(c)]

(* Every stream delivers the events of its topic from its registration on,   *)
(* in order and without a gap, until it ends; only a stream that lags loses  *)
(* an event, and it loses all later ones with it (sse.go:90-102, 158-180).   *)
ImplementsStream == Stream!Spec
=============================================================================
