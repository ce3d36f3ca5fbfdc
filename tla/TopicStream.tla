----------------------------- MODULE TopicStream -----------------------------
(***************************************************************************)
(* What the SSE hub promises to one connection, without locks, channels or *)
(* sockets: from the moment it subscribes, a stream delivers the events of *)
(* its topic in order and without a gap.  A stream that has not kept up    *)
(* may be cut; what it still delivers then is what it was owed before, and *)
(* it never resumes.                                                       *)
(***************************************************************************)
EXTENDS Naturals, Sequences

CONSTANTS Conns, Topics, Events

VARIABLES
    log,        \* [Topics -> sequence of the events published]
    phase,      \* [Conns -> "absent", "live", "cut", "ended"]
    topicOf,    \* [Conns -> Topics]
    joined,     \* [Conns -> length of the topic's log at subscription]
    owed,       \* [Conns -> events accepted for it and not delivered yet]
    delivered   \* [Conns -> sequence of the events delivered]

vars == <<log, phase, topicOf, joined, owed, delivered>>

Init ==
    /\ log = [t \in Topics |-> << >>]
    /\ phase = [c \in Conns |-> "absent"]
    /\ topicOf \in [Conns -> Topics]
    /\ joined = [c \in Conns |-> 0]
    /\ owed = [c \in Conns |-> 0]
    /\ delivered = [c \in Conns |-> << >>]

Subscribe(c) ==
    /\ phase[c] = "absent"
    /\ phase' = [phase EXCEPT ![c] = "live"]
    /\ joined' = [joined EXCEPT ![c] = Len(log[topicOf[c]])]
    /\ UNCHANGED <<log, topicOf, owed, delivered>>

Publish(t) ==
    /\ \E e \in Events : log' = [log EXCEPT ![t] = Append(@, e)]
    /\ owed' = [c \in Conns |->
                  IF phase[c] = "live" /\ topicOf[c] = t
                  THEN owed[c] + 1 ELSE owed[c]]
    /\ UNCHANGED <<phase, topicOf, joined, delivered>>

(* The next event after the ones delivered, taken from the topic's log.      *)
Deliver(c) ==
    /\ phase[c] \in {"live", "cut"}
    /\ owed[c] > 0
    /\ owed' = [owed EXCEPT ![c] = @ - 1]
    /\ delivered' = [delivered EXCEPT ![c] =
                        Append(@, log[topicOf[c]][joined[c] + Len(@) + 1])]
    /\ UNCHANGED <<log, phase, topicOf, joined>>

(* Only a stream that still owes an earlier event loses the newest one.      *)
Cut(c) ==
    /\ phase[c] = "live"
    /\ owed[c] > 1
    /\ phase' = [phase EXCEPT ![c] = "cut"]
    /\ owed' = [owed EXCEPT ![c] = @ - 1]
    /\ UNCHANGED <<log, topicOf, joined, delivered>>

End(c) ==
    /\ phase[c] \in {"live", "cut"}
    /\ phase' = [phase EXCEPT ![c] = "ended"]
    /\ owed' = [owed EXCEPT ![c] = 0]
    /\ UNCHANGED <<log, topicOf, joined, delivered>>

Next ==
    \/ \E t \in Topics : Publish(t)
    \/ \E c \in Conns : Subscribe(c) \/ Deliver(c) \/ Cut(c) \/ End(c)

Spec == Init /\ [][Next]_vars
=============================================================================
