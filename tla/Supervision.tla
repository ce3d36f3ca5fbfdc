----------------------------- MODULE Supervision -----------------------------
(***************************************************************************)
(* A generated application in production: web/supervisor.mjs starts the SSR *)
(* worker (web/ssr-server.mjs, web/worker.mjs) and the Go server (main.go,  *)
(* Run of server/server.go), and stops both when one of them ends or a      *)
(* signal arrives.  Pages are rendered by the worker while the server       *)
(* answers; each process has a deadline of its own for the same shutdown.   *)
(*                                                                         *)
(* Time is counted in units of five seconds, the length of a render's       *)
(* limit.  Timers fire and signals arrive within a unit; between two ticks  *)
(* every order of steps is possible.                                        *)
(***************************************************************************)
EXTENDS Integers

CONSTANTS
    Requests,           \* requests that clients make
    ExitCodes,          \* codes with which a failing child may exit
    RenderTimeout,      \* http.Client.Timeout of the renderer: 1
    ShutdownTimeout,    \* Config.ShutdownTimeout by default: 3
    SupervisorDeadline, \* setTimeout in supervisor.mjs: 2
    WorkerDeadline      \* setTimeout in worker.mjs: 2

Children == {"worker", "app"}

ASSUME SupervisionAssumption ==
    /\ Requests \cap (Children \cup {"sup"}) = {}
    /\ ExitCodes \subseteq Nat
    /\ RenderTimeout \in Nat \ {0}
    /\ ShutdownTimeout \in Nat /\ RenderTimeout < ShutdownTimeout
    /\ SupervisorDeadline \in Nat /\ RenderTimeout < SupervisorDeadline
    /\ WorkerDeadline \in Nat \ {0}

VARIABLES
    sup,        \* the supervisor: "starting", "running", "stopping", "gone"
    exitCode,   \* the code that stop was given
    status,     \* how the supervisor ended
    used,       \* the process.once handlers that have run
    closed,     \* children whose "close" event has been handled
    cause,      \* history: the first event that asked for a stop
    child,      \* [Children -> their phase]
    exit,       \* [Children -> how they ended]
    mail,       \* [Children -> the signal on its way to them]
    listening,  \* ListenAndServe has not failed
    fault,      \* history: children that failed on their own account
    req,        \* [Requests -> where each request is]
    left        \* [timers -> units until they fire]

supervisor == <<sup, exitCode, status, used, closed, cause>>
children == <<child, exit, mail, listening, fault>>
vars == <<supervisor, children, req, left>>

Off == -1           \* a timer that is not running
Killed == -1        \* ended by a signal: no exit code
NotSpawned == -2    \* spawn failed
NoCode == -3        \* still running

Timers == {"sup"} \cup Children \cup Requests

Alive(c) == child[c] # "dead"

Waiting(r) == req[r] \in {"handler", "rendering"}           \* for its page

Active(r) == req[r] \in {"handler", "rendering", "page", "error", "stream"}

-----------------------------------------------------------------------------
(* Both children are spawned before any handler is installed.                *)
Init ==
    /\ sup = "starting"
    /\ exitCode = 0
    /\ status = NoCode
    /\ used = {}
    /\ closed = {}
    /\ cause = "none"
    /\ \E missing \in SUBSET Children :
          /\ child = [c \in Children |->
                         IF c \in missing THEN "dead" ELSE "booting"]
          /\ exit = [c \in Children |->
                         IF c \in missing THEN NotSpawned ELSE NoCode]
          /\ fault = missing
    /\ mail = [c \in Children |-> "none"]
    /\ listening = TRUE
    /\ req = [r \in Requests |-> "none"]
    /\ left = [t \in Timers |-> Off]

-----------------------------------------------------------------------------
(* Variants of the operators below, each with one slip a maintainer could    *)
(* make; they are not part of the specification.                             *)

StopAgain(code) ==
    /\ sup' = "stopping"
    /\ exitCode' = code
    /\ mail' = [c \in Children |-> IF Alive(c) THEN "TERM" ELSE mail[c]]
    /\ left' = [left EXCEPT !["sup"] = SupervisorDeadline]

ForceExitAlone ==
    /\ sup = "stopping"
    /\ left["sup"] = 0
    /\ closed # Children
    /\ sup' = "gone"
    /\ status' = 1
    /\ left' = [left EXCEPT !["sup"] = Off]
    /\ UNCHANGED <<exitCode, used, closed, cause, children, req>>

StartRenderSlow(r) ==
    /\ req[r] = "handler"
    /\ req' = [req EXCEPT ![r] = "rendering"]
    /\ left' = [left EXCEPT ![r] = 3 * RenderTimeout]
    /\ UNCHANGED <<supervisor, children>>

CloseFailuresOnly(c) ==
    /\ sup \in {"running", "stopping"}
    /\ ~Alive(c)
    /\ c \notin closed
    /\ closed' = closed \cup {c}
    /\ IF sup = "running" /\ exit[c] # 0
       THEN /\ sup' = "stopping"
            /\ exitCode' = IF exit[c] > 0 THEN exit[c] ELSE 1
            /\ mail' = [d \in Children |-> IF Alive(d) THEN "TERM" ELSE mail[d]]
            /\ left' = [left EXCEPT !["sup"] = SupervisorDeadline]
            /\ cause' = IF cause = "none" THEN c ELSE cause
       ELSE UNCHANGED <<sup, exitCode, mail, left, cause>>
    /\ UNCHANGED <<status, used, child, exit, listening, fault, req>>

RenderedTimerKept(r, answer) ==
    /\ req[r] = "rendering"
    /\ req' = [req EXCEPT ![r] = answer]
    /\ UNCHANGED <<supervisor, children, left>>

-----------------------------------------------------------------------------
(* The supervisor.                                                           *)
Install ==
    /\ sup = "starting"
    /\ sup' = "running"
    /\ UNCHANGED <<exitCode, status, used, closed, cause, children, req, left>>

(* stop: the first call decides; a later one returns at once.                *)
Stop(code) ==
    \/ /\ sup = "stopping"
       /\ UNCHANGED <<sup, exitCode, mail, left>>
    \/ /\ sup = "running"
       /\ sup' = "stopping"
       /\ exitCode' = code
       /\ mail' = [c \in Children |-> IF Alive(c) THEN "TERM" ELSE mail[c]]
       /\ left' = [left EXCEPT !["sup"] = SupervisorDeadline]

Because(event) == cause' = IF cause = "none" THEN event ELSE cause

(* Without a handler, before Install and after process.once, the signal ends *)
(* the supervisor.                                                           *)
Signal(s) ==
    \/ /\ sup \in {"running", "stopping"}
       /\ s \notin used
       /\ used' = used \cup {s}
       /\ Stop(0)
       /\ Because("signal")
       /\ UNCHANGED <<status, closed, child, exit, listening, fault, req>>
    \/ /\ sup = "starting" \/ (sup # "gone" /\ s \in used)
       /\ sup' = "gone"
       /\ status' = Killed
       /\ left' = [left EXCEPT !["sup"] = Off]
       /\ UNCHANGED <<exitCode, used, closed, cause, children, req>>

FailureCode(code) == IF code > 0 THEN code ELSE 1

(* A child's "close"; for one that was not spawned, its "error" as well,     *)
(* which asks for the same stop.                                             *)
Close(c) ==
    /\ sup \in {"running", "stopping"}
    /\ ~Alive(c)
    /\ c \notin closed
    /\ closed' = closed \cup {c}
    /\ Stop(FailureCode(exit[c]))
    /\ Because(c)
    /\ UNCHANGED <<status, used, child, exit, listening, fault, req>>

AllClosed ==
    /\ sup = "stopping"
    /\ closed = Children
    /\ sup' = "gone"
    /\ status' = exitCode
    /\ left' = [left EXCEPT !["sup"] = Off]
    /\ UNCHANGED <<exitCode, used, closed, cause, children, req>>

ForceExit ==
    /\ sup = "stopping"
    /\ left["sup"] = 0
    /\ closed # Children
    /\ mail' = [c \in Children |-> IF Alive(c) THEN "KILL" ELSE mail[c]]
    /\ sup' = "gone"
    /\ status' = 1
    /\ left' = [left EXCEPT !["sup"] = Off]
    /\ UNCHANGED <<exitCode, used, closed, cause, child, exit, listening,
                   fault, req>>

-----------------------------------------------------------------------------
(* The children.  The server's requests end with it; the worker's are         *)
(* connections of the server, which notices by itself.                       *)
End(c, code) ==
    /\ child' = [child EXCEPT ![c] = "dead"]
    /\ exit' = [exit EXCEPT ![c] = code]
    /\ mail' = [mail EXCEPT ![c] = "none"]
    /\ IF c = "app"
       THEN /\ req' = [r \in Requests |->
                         IF Waiting(r) THEN "lost"
                         ELSE IF Active(r) THEN "cut" ELSE req[r]]
            /\ left' = [t \in Timers |->
                         IF t \in Requests \cup {"app"} THEN Off ELSE left[t]]
       ELSE left' = [left EXCEPT ![c] = Off] /\ UNCHANGED req

(* The worker installs its handlers, then listens.  The server listens in a   *)
(* goroutine, before or after Run has asked for signals.                     *)
Boot(c) ==
    /\ child[c] = "booting"
    /\ child' = [child EXCEPT ![c] = IF c = "app" THEN "opening" ELSE "up"]
    /\ UNCHANGED <<supervisor, exit, mail, listening, fault, req, left>>

Notify ==
    /\ child["app"] = "opening"
    /\ child' = [child EXCEPT !["app"] = "up"]
    /\ UNCHANGED <<supervisor, exit, mail, listening, fault, req, left>>

ListenFails ==
    /\ child["app"] \in {"opening", "up"}
    /\ listening
    /\ listening' = FALSE
    /\ fault' = fault \cup {"app"}
    /\ UNCHANGED <<supervisor, child, exit, mail, req, left>>

(* Run's select: errCh and stop may both be ready; TakeTerm is the other     *)
(* choice.                                                                   *)
RunFails ==
    /\ child["app"] = "up"
    /\ ~listening
    /\ End("app", 1)
    /\ UNCHANGED <<supervisor, listening, fault>>

DeadlineOf(c) == IF c = "app" THEN ShutdownTimeout ELSE WorkerDeadline

TakeTerm(c) ==
    /\ mail[c] = "TERM"
    /\ child[c] = "up"
    /\ child' = [child EXCEPT ![c] = "draining"]
    /\ mail' = [mail EXCEPT ![c] = "none"]
    /\ left' = [left EXCEPT ![c] = DeadlineOf(c)]
    /\ UNCHANGED <<supervisor, exit, listening, fault, req>>

(* No handler yet; a worker whose server does not listen yet exits with 1.   *)
TakeTermEarly(c) ==
    /\ mail[c] = "TERM"
    /\ child[c] \in {"booting", "opening"}
    /\ \/ End(c, Killed)
       \/ c = "worker" /\ End(c, 1)
    /\ UNCHANGED <<supervisor, listening, fault>>

TakeKill(c) ==
    /\ mail[c] = "KILL"
    /\ Alive(c)
    /\ End(c, Killed)
    /\ UNCHANGED <<supervisor, listening, fault>>

Busy(c) ==
    \E r \in Requests : IF c = "app" THEN Active(r) ELSE req[r] = "rendering"

Drained(c) ==
    /\ child[c] = "draining"
    /\ ~Busy(c)
    /\ End(c, 0)
    /\ UNCHANGED <<supervisor, listening, fault>>

DeadlinePasses(c) ==
    /\ child[c] = "draining"
    /\ left[c] = 0
    /\ End(c, 1)
    /\ UNCHANGED <<supervisor, listening, fault>>

(* A child that exits or is killed for a reason of its own.                  *)
Fail(c, code) ==
    /\ Alive(c)
    /\ End(c, code)
    /\ fault' = fault \cup {c}
    /\ UNCHANGED <<supervisor, listening>>

-----------------------------------------------------------------------------
(* Requests: pages, and others, such as event streams, that end when their   *)
(* client leaves.                                                            *)
Accept(r) ==
    /\ req[r] = "none"
    /\ child["app"] \in {"opening", "up"}
    /\ listening
    /\ \E k \in {"handler", "stream"} : req' = [req EXCEPT ![r] = k]
    /\ UNCHANGED <<supervisor, children, left>>

(* Page: Render asks the worker; in production an error is a 500.            *)
StartRender(r) ==
    /\ req[r] = "handler"
    /\ \/ /\ child["worker"] = "up"
          /\ req' = [req EXCEPT ![r] = "rendering"]
          /\ left' = [left EXCEPT ![r] = RenderTimeout]
       \/ /\ child["worker"] # "up"
          /\ req' = [req EXCEPT ![r] = "error"]
          /\ UNCHANGED left
    /\ UNCHANGED <<supervisor, children>>

Rendered(r, answer) ==
    /\ req[r] = "rendering"
    /\ req' = [req EXCEPT ![r] = answer]
    /\ left' = [left EXCEPT ![r] = Off]
    /\ UNCHANGED <<supervisor, children>>

RenderEnds(r) ==
    /\ Alive("worker")
    /\ Rendered(r, "page") \/ Rendered(r, "error")

RenderBreaks(r) ==
    /\ ~Alive("worker") \/ left[r] = 0
    /\ Rendered(r, "error")

(* The client has read the answer, or leaves.                                *)
Finish(r) ==
    /\ req[r] \in {"page", "error", "stream"}
    /\ req' = [req EXCEPT ![r] = "done"]
    /\ UNCHANGED <<supervisor, children, left>>

-----------------------------------------------------------------------------
(* Five seconds pass: no timer is due, no signal on its way, no handler      *)
(* about to start its render.                                                *)
Tick ==
    /\ \E t \in Timers : left[t] # Off
    /\ \A t \in Timers : left[t] # 0
    /\ \A c \in Children : mail[c] = "none"
    /\ \A r \in Requests : req[r] # "handler"
    /\ left' = [t \in Timers |-> IF left[t] = Off THEN Off ELSE left[t] - 1]
    /\ UNCHANGED <<supervisor, children, req>>

SupervisorStep ==
    \/ Install
    \/ \E c \in Children : Close(c)
    \/ AllClosed
    \/ ForceExit

ChildStep(c) ==
    \/ Boot(c)
    \/ TakeTerm(c)
    \/ TakeTermEarly(c)
    \/ TakeKill(c)
    \/ Drained(c)
    \/ DeadlinePasses(c)

RequestStep(r) ==
    \/ StartRender(r)
    \/ RenderBreaks(r)

Next ==
    \/ SupervisorStep
    \/ \E s \in {"INT", "TERM"} : Signal(s)
    \/ \E c \in Children :
          ChildStep(c) \/ \E code \in ExitCodes \cup {Killed} : Fail(c, code)
    \/ Notify
    \/ ListenFails
    \/ RunFails
    \/ \E r \in Requests :
          Accept(r) \/ RequestStep(r) \/ RenderEnds(r) \/ Finish(r)
    \/ Tick

Spec == Init /\ [][Next]_vars

(* Processes run, signals arrive, timers fire.  Nothing makes a client leave, *)
(* a render end by itself, a child fail or a signal be sent.                  *)
Fairness ==
    /\ WF_vars(SupervisorStep)
    /\ \A c \in Children : WF_vars(ChildStep(c))
    /\ WF_vars(Notify) /\ WF_vars(RunFails)
    /\ \A r \in Requests : WF_vars(RequestStep(r))
    /\ WF_vars(Tick)

LiveSpec == Spec /\ Fairness

-----------------------------------------------------------------------------
(* Properties                                                                *)

TypeOK ==
    /\ sup \in {"starting", "running", "stopping", "gone"}
    /\ exitCode \in Nat
    /\ status \in Nat \cup {Killed, NoCode}
    /\ used \subseteq {"INT", "TERM"}
    /\ closed \subseteq Children
    /\ cause \in {"none", "signal"} \cup Children
    /\ child \in [Children -> {"booting", "opening", "up", "draining", "dead"}]
    /\ exit \in [Children -> Nat \cup {Killed, NotSpawned, NoCode}]
    /\ mail \in [Children -> {"none", "TERM", "KILL"}]
    /\ listening \in BOOLEAN
    /\ fault \subseteq Children
    /\ req \in [Requests -> {"none", "handler", "rendering", "page", "error",
                             "stream", "done", "cut", "lost"}]
    /\ left \in [Timers -> Nat \cup {Off}]
    /\ \A c \in Children : Alive(c) <=> exit[c] = NoCode
    /\ \A r \in Requests : left[r] # Off <=> req[r] = "rendering"
    /\ (\E r \in Requests : Active(r)) => Alive("app")

(* The code with which the container ends tells why it did: 0 only when a    *)
(* signal came first and both children have ended, otherwise the code of the *)
(* child that ended first; 1 when it had to kill a child.  Neither the ends   *)
(* that the stop itself brings about nor a later signal change it             *)
(* (supervisor.mjs:22-26, 42-63).                                             *)
ExitCodeHonest ==
    (sup = "gone" /\ status # Killed) =>
        IF closed = Children
        THEN status = IF cause = "signal" THEN 0 ELSE FailureCode(exit[cause])
        ELSE status = 1

(* The supervisor leaves no child to itself: when it has exited, a child is  *)
(* dead or about to be; when a second signal has killed it, both know that    *)
(* they have to stop.  A signal that comes before the handlers are installed  *)
(* is the exception (supervisor.mjs:9-12, 27-39, 62-63).                      *)
NoneLeftBehind ==
    sup = "gone" =>
        \A c \in Children :
            /\ status # Killed => ~Alive(c) \/ mail[c] = "KILL"
            /\ used # {} => child[c] \in {"draining", "dead"} \/ mail[c] # "none"

(* However the deadlines fall, a page request that was accepted gets an       *)
(* answer, the page or an error: no stop ends the server while the request    *)
(* waits for the worker, which is shorter than either deadline.  Exceptions   *)
(* are a server that fails, or that is stopped before it asked for signals    *)
(* (server.go:176-190, 356-373, renderer.go.tmpl:20, supervisor.mjs:39).      *)
PagesAnswered ==
    [][\A r \in Requests :
          (Waiting(r) /\ req'[r] = "lost") =>
              "app" \in fault' \/ child["app"] = "opening"]_vars

AllOver == sup = "gone" /\ \A c \in Children : ~Alive(c)

(* One child's end, for whatever reason, or a signal, ends everything, even   *)
(* when requests never do (supervisor.mjs:49-63, worker.mjs:49-70).           *)
AnyEndStopsAll ==
    (\/ sup = "stopping"
     \/ sup = "running" /\ \E c \in Children : ~Alive(c)) ~> AllOver

(* "Run serves until SIGINT or SIGTERM, then drains connections"              *)
(* (server.go:348), for ShutdownTimeout (server.go:371): a stop does not cut   *)
(* a request before.                                                          *)
DrainHonoured ==
    [][\A r \in Requests :
          (Active(r) /\ req'[r] \in {"cut", "lost"} /\ "app" \notin fault'
            /\ child["app"] = "draining") => left["app"] = 0]_vars
=============================================================================
