------------------------- MODULE SupervisionProofs -------------------------
(***************************************************************************)
(* The safety of Supervision for every set of requests, every exit code and *)
(* all deadlines longer than a render.  IInv is inductive: what the          *)
(* supervisor knows (SupInv), what the children have been told (ToldInv),    *)
(* and that the deadlines left to a stop exceed the time left to each        *)
(* render (TimeInv).                                                         *)
(***************************************************************************)
EXTENDS Supervision, TLAPS

Code == IF cause = "signal" THEN 0 ELSE FailureCode(exit[cause])

(* A supervisor that has not been asked to stop knows nothing; one that       *)
(* stops has the code of the first cause, and keeps it.                       *)
SupInv ==
    /\ \A c \in closed : ~Alive(c)
    /\ cause \in Children => cause \in closed
    /\ sup \in {"starting", "running"} =>
          closed = {} /\ cause = "none" /\ status = NoCode /\ used = {}
    /\ sup = "stopping" => /\ cause # "none"
                           /\ exitCode = Code
                           /\ status = NoCode
    /\ sup = "gone" /\ status # Killed =>
          IF closed = Children THEN cause # "none" /\ status = Code
          ELSE status = 1

(* Signals are sent to children that run, and only by a stop.                *)
ToldInv ==
    /\ \A c \in Children : mail[c] # "none" => Alive(c)
    /\ sup \in {"starting", "running"} => \A c \in Children : mail[c] = "none"
    /\ sup = "stopping" \/ used # {} =>
          \A c \in Children : child[c] \in {"draining", "dead"} \/ mail[c] # "none"
    /\ sup = "gone" /\ status # Killed =>
          \A c \in Children : ~Alive(c) \/ mail[c] = "KILL"
    /\ \A c \in Children : mail[c] = "KILL" => sup = "gone"

(* Until both children know of the stop its deadline is whole; afterwards no  *)
(* deadline ends before a render does.                                        *)
TimeInv ==
    /\ sup = "stopping" <=> left["sup"] # Off
    /\ \A c \in Children : child[c] = "draining" <=> left[c] # Off
    /\ sup = "stopping" /\ (\E c \in Children : mail[c] # "none") =>
          left["sup"] = SupervisorDeadline
    /\ \A r \in Requests :
          /\ req[r] = "rendering" => left[r] <= RenderTimeout
          /\ Waiting(r) => child["app"] # "booting" /\ mail["app"] # "KILL"
          /\ req[r] = "handler" =>
                /\ sup = "stopping" => left["sup"] > RenderTimeout
                /\ child["app"] = "draining" => left["app"] > RenderTimeout
          /\ req[r] = "rendering" =>
                /\ sup = "stopping" => left["sup"] > left[r]
                /\ child["app"] = "draining" => left["app"] > left[r]
    /\ mail["app"] = "KILL" => child["app"] = "draining"
    /\ ~listening => "app" \in fault

IInv == TypeOK /\ SupInv /\ ToldInv /\ TimeInv

-----------------------------------------------------------------------------
(* Every initial state satisfies the invariant.                              *)
LEMMA InitInv == Init => IInv
<1> SUFFICES ASSUME Init PROVE IInv
    OBVIOUS
<1>1. TypeOK
    BY SupervisionAssumption DEF Init, TypeOK, Alive, Active, Children, Timers,
       Off, Killed, NotSpawned, NoCode
<1>2. SupInv /\ ToldInv
    BY DEF Init, SupInv, ToldInv, Alive, Children
<1>3. TimeInv
    BY SupervisionAssumption DEF Init, TimeInv, Waiting, Children, Timers, Off
<1> QED
    BY <1>1, <1>2, <1>3 DEF IInv

(* The way a child ends does not matter for the types and the timing.        *)
LEMMA EndKeeps ==
    ASSUME IInv, NEW c \in Children, NEW code \in Nat \cup {Killed}, Alive(c),
           End(c, code), UNCHANGED <<supervisor, listening>>,
           fault' \subseteq Children, fault \subseteq fault'
    PROVE  TypeOK' /\ TimeInv'
<1>1. ASSUME NEW r \in Requests PROVE r \in Timers /\ r \notin {"sup", "app", "worker"}
    BY SupervisionAssumption DEF Children, Timers
<1>2. CASE c = "app"
    <2>1. \A r \in Requests : ~Active(r)' /\ ~Waiting(r)'
                              /\ req'[r] # "rendering" /\ req'[r] # "handler"
        BY <1>2 DEF IInv, TypeOK, End, Active, Waiting
    <2>2. \A r \in Requests : left'[r] = Off
        BY <1>1, <1>2 DEF IInv, TypeOK, End
    <2>3. /\ left' \in [Timers -> Nat \cup {Off}]
          /\ left'["sup"] = left["sup"] /\ left'["app"] = Off
          /\ left'["worker"] = left["worker"]
      <3>1. left' = [t \in Timers |->
                       IF t \in Requests \cup {"app"} THEN Off ELSE left[t]]
        BY <1>2 DEF End
      <3>2. \A t \in {"sup", "app", "worker"} : t \in Timers
        BY DEF Timers, Children
      <3>3. left' \in [Timers -> Nat \cup {Off}]
        BY <3>1 DEF IInv, TypeOK
      <3> QED
        BY <1>1, <3>1, <3>2, <3>3
    <2>4. req' \in [Requests -> {"none", "handler", "rendering", "page", "error",
                                "stream", "done", "cut", "lost"}]
        BY <1>2 DEF IInv, TypeOK, End, Active, Waiting
    <2>5. /\ child' \in [Children -> {"booting", "opening", "up", "draining",
                                      "dead"}]
          /\ exit' \in [Children -> Nat \cup {Killed, NotSpawned, NoCode}]
          /\ mail' \in [Children -> {"none", "TERM", "KILL"}]
          /\ \A d \in Children : Alive(d)' <=> exit'[d] = NoCode
        BY DEF IInv, TypeOK, End, Alive, Killed, NoCode
    <2>6. TypeOK'
        BY <2>1, <2>2, <2>3, <2>4, <2>5 DEF IInv, TypeOK, supervisor
    <2>7. TimeInv'
        BY <1>2, <2>1, <2>2, <2>3
        DEF IInv, TypeOK, TimeInv, End, supervisor, Children
    <2> QED
        BY <2>6, <2>7
<1>3. CASE c = "worker"
    <2>1. /\ left' \in [Timers -> Nat \cup {Off}]
          /\ \A t \in Timers \ {"worker"} : left'[t] = left[t]
          /\ left'["worker"] = Off
        BY <1>3 DEF IInv, TypeOK, End, Children, Timers
    <2>2. /\ child' \in [Children -> {"booting", "opening", "up", "draining",
                                      "dead"}]
          /\ exit' \in [Children -> Nat \cup {Killed, NotSpawned, NoCode}]
          /\ mail' \in [Children -> {"none", "TERM", "KILL"}]
          /\ \A d \in Children : Alive(d)' <=> exit'[d] = NoCode
        BY DEF IInv, TypeOK, End, Alive, Killed, NoCode
    <2>3. child'["app"] = child["app"] /\ mail'["app"] = mail["app"] /\ req' = req
          /\ child'["worker"] = "dead" /\ mail'["worker"] = "none"
        BY <1>3 DEF IInv, TypeOK, End, Children
    <2>4. \A r \in Requests : left'[r] = left[r]
        BY <1>1, <2>1
    <2>5. "sup" \in Timers \ {"worker"} /\ "app" \in Timers \ {"worker"}
        BY DEF Timers, Children
    <2>6. TypeOK'
        BY <2>1, <2>2, <2>3, <2>4 DEF IInv, TypeOK, supervisor, Active, Alive
    <2>7. TimeInv'
        BY <1>3, <2>1, <2>3, <2>4, <2>5
        DEF IInv, TypeOK, TimeInv, supervisor, Children, Waiting
    <2> QED
        BY <2>6, <2>7
<1> QED
    BY <1>2, <1>3 DEF Children

(* A call of stop, by whatever event.                                        *)
LEMMA StopKeeps ==
    ASSUME IInv, NEW code \in Nat, sup \in {"running", "stopping"}, Stop(code),
           UNCHANGED <<status, child, exit, listening, fault, req>>
    PROVE  /\ sup' = "stopping" /\ exitCode' \in Nat
           /\ mail' \in [Children -> {"none", "TERM", "KILL"}]
           /\ left' \in [Timers -> Nat \cup {Off}]
           /\ \A t \in Timers \ {"sup"} : left'[t] = left[t]
           /\ TimeInv'
<1>1. ASSUME NEW r \in Requests \cup Children PROVE r \in Timers \ {"sup"}
    BY SupervisionAssumption DEF Children, Timers
<1>2. CASE sup = "stopping"
    <2>1. UNCHANGED <<sup, exitCode, mail, left>>
        BY <1>2 DEF Stop
    <2> QED
        BY <1>2, <2>1 DEF IInv, TypeOK, TimeInv, Waiting, Active
<1>3. CASE sup = "running"
    <2>1. /\ sup' = "stopping" /\ exitCode' = code
          /\ mail' = [c \in Children |-> IF Alive(c) THEN "TERM" ELSE mail[c]]
          /\ left' = [left EXCEPT !["sup"] = SupervisorDeadline]
        BY <1>3 DEF Stop
    <2>2. /\ mail' \in [Children -> {"none", "TERM", "KILL"}]
          /\ left' \in [Timers -> Nat \cup {Off}]
          /\ \A t \in Timers \ {"sup"} : left'[t] = left[t]
          /\ left'["sup"] = SupervisorDeadline
        BY <2>1, SupervisionAssumption DEF IInv, TypeOK, Timers
    <2>3. \A c \in Children : mail'[c] # "KILL" /\ left'[c] = left[c]
        BY <1>1, <1>3, <2>1, <2>2 DEF IInv, ToldInv
    <2>4. \A r \in Requests : left'[r] = left[r]
        BY <1>1, <2>2
    <2>5. TimeInv'
      <3>1. \A r \in Requests : req[r] = "rendering" =>
                                  left[r] \in Int /\ left[r] <= RenderTimeout
        BY <1>1 DEF IInv, TypeOK, TimeInv, Off
      <3> QED
        BY <1>3, <2>1, <2>2, <2>3, <2>4, <3>1, SupervisionAssumption
        DEF IInv, TimeInv, Waiting, Children, Off
    <2> QED
        BY <2>1, <2>2, <2>5
<1> QED
    BY <1>2, <1>3

(* The end of a render, with whatever answer.                                *)
LEMMA RenderedKeeps ==
    ASSUME IInv, NEW r \in Requests, NEW answer \in {"page", "error"},
           Rendered(r, answer)
    PROVE  TypeOK' /\ TimeInv'
<1>1. \A q \in Requests \cup Children \cup {"sup"} : q \in Timers
    BY DEF Timers
<1>2. /\ req' \in [Requests -> {"none", "handler", "rendering", "page", "error",
                               "stream", "done", "cut", "lost"}]
      /\ req'[r] = answer /\ req[r] = "rendering"
      /\ \A q \in Requests \ {r} : req'[q] = req[q]
    BY DEF IInv, TypeOK, Rendered
<1>3. /\ left' \in [Timers -> Nat \cup {Off}]
      /\ left'[r] = Off
      /\ \A t \in Timers \ {r} : left'[t] = left[t]
    BY DEF IInv, TypeOK, Rendered, Timers
<1>4. r \notin Children /\ r # "sup"
    BY SupervisionAssumption
<1>5. /\ left'["sup"] = left["sup"]
      /\ \A c \in Children : left'[c] = left[c]
    BY <1>1, <1>3, <1>4
<1>6. \A q \in Requests \ {r} : left'[q] = left[q]
    BY <1>1, <1>3
<1>7. TypeOK'
    BY <1>2, <1>3, <1>6
    DEF IInv, TypeOK, Rendered, supervisor, children, Active, Alive
<1>8. TimeInv'
    BY <1>2, <1>3, <1>5, <1>6
    DEF IInv, TypeOK, TimeInv, Rendered, supervisor, children, Waiting, Children
<1> QED
    BY <1>7, <1>8

(* The handlers are installed.                                              *)
LEMMA InstallStep ==
    ASSUME IInv, Install
    PROVE  IInv'
<1>1. TypeOK'
    BY SupervisionAssumption
    DEF IInv, TypeOK, Install, Alive, Active, Waiting, Children, Timers,
        Off, Killed, NotSpawned, NoCode, supervisor, children
<1>2. SupInv'
    BY DEF IInv, TypeOK, SupInv, Code, FailureCode, Install, Alive, Active,
           Waiting, Children, Timers, Off, Killed, NotSpawned, NoCode,
           supervisor, children
<1>3. ToldInv'
    BY DEF IInv, TypeOK, SupInv, ToldInv, Install, Alive, Active, Waiting,
           Children, Timers, Off, Killed, NotSpawned, NoCode, supervisor,
           children
<1>4. TimeInv'
    BY SupervisionAssumption
    DEF IInv, TypeOK, SupInv, ToldInv, TimeInv, Install, Alive, Active,
        Waiting, Children, Timers, Off, Killed, NotSpawned, NoCode,
        supervisor, children
<1> QED
    BY <1>1, <1>2, <1>3, <1>4 DEF IInv

(* A signal: the first one stops, with code 0; a repeated one ends the supervisor.*)
LEMMA SignalStep ==
    ASSUME IInv, NEW s \in {"INT", "TERM"}, Signal(s)
    PROVE  IInv'
<1> USE DEF IInv
<1>1. ASSUME sup \in {"running", "stopping"}, Stop(0), Because("signal"),
             used' = used \cup {s},
             UNCHANGED <<status, closed, child, exit, listening, fault, req>>
      PROVE  TypeOK' /\ TimeInv'
    <2>1. \A r \in Requests : r \in Timers \ {"sup"}
        BY SupervisionAssumption DEF Timers
    <2>2. /\ sup' = "stopping" /\ exitCode' \in Nat
          /\ mail' \in [Children -> {"none", "TERM", "KILL"}]
          /\ left' \in [Timers -> Nat \cup {Off}]
          /\ \A t \in Timers \ {"sup"} : left'[t] = left[t]
          /\ TimeInv'
        BY <1>1, StopKeeps, 0 \in Nat
    <2>3. \A r \in Requests : left'[r] = left[r]
        BY <2>1, <2>2
    <2>4. /\ status' = status /\ closed' = closed /\ child' = child /\ exit' = exit
          /\ listening' = listening /\ fault' = fault /\ req' = req
          /\ used' \subseteq {"INT", "TERM"}
          /\ cause' \in {"none", "signal"} \cup Children
        BY <1>1 DEF TypeOK, Because
    <2>5. TypeOK'
        BY <2>2, <2>3, <2>4 DEF TypeOK, Active, Alive
    <2> QED
        BY <2>2, <2>5
<1>2. ASSUME sup # "gone", sup' = "gone", status' = Killed,
             left' = [left EXCEPT !["sup"] = Off],
             UNCHANGED <<exitCode, used, closed, cause, children, req>>
      PROVE  TypeOK' /\ TimeInv'
    <2>1. \A r \in Requests \cup Children : r \in Timers /\ r # "sup"
        BY SupervisionAssumption DEF Timers, Children
    <2>2. \A r \in Requests \cup Children : left'[r] = left[r]
        BY <1>2, <2>1 DEF TypeOK
    <2>3. left' \in [Timers -> Nat \cup {Off}] /\ left'["sup"] = Off
        BY <1>2 DEF TypeOK, Timers
    <2>4. TypeOK'
        BY <1>2, <2>2, <2>3 DEF TypeOK, children, Active, Alive
    <2>5. TimeInv'
      <3>1. /\ child' = child /\ mail' = mail /\ req' = req
            /\ listening' = listening /\ fault' = fault
        BY <1>2 DEF children
      <3>2. \A c \in Children : left'[c] = left[c]
        BY <2>2
      <3>3. left'["app"] = left["app"]
        BY <3>2 DEF Children
      <3> QED
        BY <1>2, <2>2, <2>3, <3>1, <3>2, <3>3 DEF TimeInv, Waiting
    <2> QED
        BY <2>4, <2>5
<1>3. TypeOK' /\ TimeInv'
    BY <1>1, <1>2 DEF Signal
<1>4. SupInv'
    BY DEF IInv, TypeOK, SupInv, Code, FailureCode, Signal, Stop, Because,
           Alive, Active, Waiting, Children, Timers, Off, Killed,
           NotSpawned, NoCode, supervisor, children
<1>5. ToldInv'
    BY DEF IInv, TypeOK, SupInv, ToldInv, Signal, Stop, Because, Alive,
           Active, Waiting, Children, Timers, Off, Killed, NotSpawned,
           NoCode, supervisor, children
<1> QED
    BY <1>3, <1>4, <1>5

(* A child's end, noticed by the supervisor.                                *)
LEMMA CloseStep ==
    ASSUME IInv, NEW c \in Children, Close(c)
    PROVE  IInv'
<1> USE DEF IInv
<1>1. FailureCode(exit[c]) \in Nat
    BY DEF TypeOK, FailureCode, Killed, NotSpawned, NoCode
<1>2. \A r \in Requests : r \in Timers \ {"sup"}
    BY SupervisionAssumption DEF Timers
<1>3. TypeOK' /\ TimeInv'
    BY <1>1, <1>2, StopKeeps
    DEF Close, Because, TypeOK, Active, Alive, Children
<1>4. SupInv'
    BY DEF IInv, TypeOK, SupInv, Code, FailureCode, Close, Stop, Because,
           Alive, Active, Waiting, Children, Timers, Off, Killed,
           NotSpawned, NoCode, supervisor, children
<1>5. ToldInv'
    BY DEF IInv, TypeOK, SupInv, ToldInv, Close, Stop, Because, Alive,
           Active, Waiting, Children, Timers, Off, Killed, NotSpawned,
           NoCode, supervisor, children
<1> QED
    BY <1>3, <1>4, <1>5

(* Both children have ended.                                                *)
LEMMA AllClosedStep ==
    ASSUME IInv, AllClosed
    PROVE  IInv'
<1>1. TypeOK'
    BY SupervisionAssumption
    DEF IInv, TypeOK, AllClosed, FailureCode, SupInv, Alive, Active,
        Waiting, Children, Timers, Off, Killed, NotSpawned, NoCode,
        supervisor, children
<1>2. SupInv'
    BY DEF IInv, TypeOK, SupInv, Code, FailureCode, AllClosed, Alive,
           Active, Waiting, Children, Timers, Off, Killed, NotSpawned,
           NoCode, supervisor, children
<1>3. ToldInv'
    BY DEF IInv, TypeOK, SupInv, ToldInv, AllClosed, Alive, Active, Waiting,
           Children, Timers, Off, Killed, NotSpawned, NoCode, supervisor,
           children
<1>4. TimeInv'
    BY SupervisionAssumption
    DEF IInv, TypeOK, SupInv, ToldInv, TimeInv, AllClosed, Alive, Active,
        Waiting, Children, Timers, Off, Killed, NotSpawned, NoCode,
        supervisor, children
<1> QED
    BY <1>1, <1>2, <1>3, <1>4 DEF IInv

(* The supervisor's deadline: no request waits for a page any more.         *)
LEMMA ForceExitStep ==
    ASSUME IInv, ForceExit
    PROVE  IInv'
<1>1. TypeOK'
    BY SupervisionAssumption
    DEF IInv, TypeOK, ForceExit, Alive, Active, Waiting, Children, Timers,
        Off, Killed, NotSpawned, NoCode, supervisor, children
<1>2. SupInv'
    BY DEF IInv, TypeOK, SupInv, Code, FailureCode, ForceExit, Alive,
           Active, Waiting, Children, Timers, Off, Killed, NotSpawned,
           NoCode, supervisor, children
<1>3. ToldInv'
    BY DEF IInv, TypeOK, SupInv, ToldInv, ForceExit, Alive, Active, Waiting,
           Children, Timers, Off, Killed, NotSpawned, NoCode, supervisor,
           children
<1>4. TimeInv'
    BY SupervisionAssumption
    DEF IInv, TypeOK, SupInv, ToldInv, TimeInv, ForceExit, Alive, Active,
        Waiting, Children, Timers, Off, Killed, NotSpawned, NoCode,
        supervisor, children
<1> QED
    BY <1>1, <1>2, <1>3, <1>4 DEF IInv

(* A child has started.                                                     *)
LEMMA BootStep ==
    ASSUME IInv, NEW c \in Children, Boot(c)
    PROVE  IInv'
<1>1. TypeOK'
    BY SupervisionAssumption
    DEF IInv, TypeOK, Boot, Alive, Active, Waiting, Children, Timers, Off,
        Killed, NotSpawned, NoCode, supervisor, children
<1>2. SupInv'
    BY DEF IInv, TypeOK, SupInv, Code, FailureCode, Boot, Alive, Active,
           Waiting, Children, Timers, Off, Killed, NotSpawned, NoCode,
           supervisor, children
<1>3. ToldInv'
    BY DEF IInv, TypeOK, SupInv, ToldInv, Boot, Alive, Active, Waiting,
           Children, Timers, Off, Killed, NotSpawned, NoCode, supervisor,
           children
<1>4. TimeInv'
    BY SupervisionAssumption
    DEF IInv, TypeOK, SupInv, ToldInv, TimeInv, Boot, Alive, Active,
        Waiting, Children, Timers, Off, Killed, NotSpawned, NoCode,
        supervisor, children
<1> QED
    BY <1>1, <1>2, <1>3, <1>4 DEF IInv

(* The server asks for signals.                                             *)
LEMMA NotifyStep ==
    ASSUME IInv, Notify
    PROVE  IInv'
<1>1. TypeOK'
    BY SupervisionAssumption
    DEF IInv, TypeOK, Notify, Alive, Active, Waiting, Children, Timers, Off,
        Killed, NotSpawned, NoCode, supervisor, children
<1>2. SupInv'
    BY DEF IInv, TypeOK, SupInv, Code, FailureCode, Notify, Alive, Active,
           Waiting, Children, Timers, Off, Killed, NotSpawned, NoCode,
           supervisor, children
<1>3. ToldInv'
    BY DEF IInv, TypeOK, SupInv, ToldInv, Notify, Alive, Active, Waiting,
           Children, Timers, Off, Killed, NotSpawned, NoCode, supervisor,
           children
<1>4. TimeInv'
    BY SupervisionAssumption
    DEF IInv, TypeOK, SupInv, ToldInv, TimeInv, Notify, Alive, Active,
        Waiting, Children, Timers, Off, Killed, NotSpawned, NoCode,
        supervisor, children
<1> QED
    BY <1>1, <1>2, <1>3, <1>4 DEF IInv

(* The listener fails.                                                      *)
LEMMA ListenFailsStep ==
    ASSUME IInv, ListenFails
    PROVE  IInv'
<1>1. TypeOK'
    BY SupervisionAssumption
    DEF IInv, TypeOK, ListenFails, Alive, Active, Waiting, Children, Timers,
        Off, Killed, NotSpawned, NoCode, supervisor, children
<1>2. SupInv'
    BY DEF IInv, TypeOK, SupInv, Code, FailureCode, ListenFails, Alive,
           Active, Waiting, Children, Timers, Off, Killed, NotSpawned,
           NoCode, supervisor, children
<1>3. ToldInv'
    BY DEF IInv, TypeOK, SupInv, ToldInv, ListenFails, Alive, Active,
           Waiting, Children, Timers, Off, Killed, NotSpawned, NoCode,
           supervisor, children
<1>4. TimeInv'
    BY SupervisionAssumption
    DEF IInv, TypeOK, SupInv, ToldInv, TimeInv, ListenFails, Alive, Active,
        Waiting, Children, Timers, Off, Killed, NotSpawned, NoCode,
        supervisor, children
<1> QED
    BY <1>1, <1>2, <1>3, <1>4 DEF IInv

(* Run returns the listener's error.                                        *)
LEMMA RunFailsStep ==
    ASSUME IInv, RunFails
    PROVE  IInv'
<1>1. TypeOK' /\ TimeInv'
    BY EndKeeps DEF RunFails, IInv, TypeOK, Alive, Killed, Children
<1>2. SupInv'
    BY DEF IInv, TypeOK, SupInv, Code, FailureCode, RunFails, End, Alive,
           Active, Waiting, Children, Timers, Off, Killed, NotSpawned,
           NoCode, supervisor, children
<1>3. ToldInv'
    BY DEF IInv, TypeOK, SupInv, ToldInv, RunFails, End, Alive, Active,
           Waiting, Children, Timers, Off, Killed, NotSpawned, NoCode,
           supervisor, children
<1> QED
    BY <1>1, <1>2, <1>3 DEF IInv

(* A child learns of the stop: its deadline begins.                         *)
LEMMA TakeTermStep ==
    ASSUME IInv, NEW c \in Children, TakeTerm(c)
    PROVE  IInv'
<1>1. TypeOK'
    BY SupervisionAssumption
    DEF IInv, TypeOK, TakeTerm, DeadlineOf, Alive, Active, Waiting,
        Children, Timers, Off, Killed, NotSpawned, NoCode, supervisor,
        children
<1>2. SupInv'
    BY DEF IInv, TypeOK, SupInv, Code, FailureCode, TakeTerm, DeadlineOf,
           Alive, Active, Waiting, Children, Timers, Off, Killed,
           NotSpawned, NoCode, supervisor, children
<1>3. ToldInv'
    BY DEF IInv, TypeOK, SupInv, ToldInv, TakeTerm, DeadlineOf, Alive,
           Active, Waiting, Children, Timers, Off, Killed, NotSpawned,
           NoCode, supervisor, children
<1>4. TimeInv'
    BY SupervisionAssumption
    DEF IInv, TypeOK, SupInv, ToldInv, TimeInv, TakeTerm, DeadlineOf, Alive,
        Active, Waiting, Children, Timers, Off, Killed, NotSpawned, NoCode,
        supervisor, children
<1> QED
    BY <1>1, <1>2, <1>3, <1>4 DEF IInv

(* A child is stopped before it has handlers.                               *)
LEMMA TakeTermEarlyStep ==
    ASSUME IInv, NEW c \in Children, TakeTermEarly(c)
    PROVE  IInv'
<1>1. TypeOK' /\ TimeInv'
    BY EndKeeps DEF TakeTermEarly, IInv, TypeOK, Alive, Killed
<1>2. SupInv'
    BY DEF IInv, TypeOK, SupInv, Code, FailureCode, TakeTermEarly, End,
           Alive, Active, Waiting, Children, Timers, Off, Killed,
           NotSpawned, NoCode, supervisor, children
<1>3. ToldInv'
    BY DEF IInv, TypeOK, SupInv, ToldInv, TakeTermEarly, End, Alive, Active,
           Waiting, Children, Timers, Off, Killed, NotSpawned, NoCode,
           supervisor, children
<1> QED
    BY <1>1, <1>2, <1>3 DEF IInv

(* A child is killed.                                                       *)
LEMMA TakeKillStep ==
    ASSUME IInv, NEW c \in Children, TakeKill(c)
    PROVE  IInv'
<1>1. TypeOK' /\ TimeInv'
    BY EndKeeps DEF TakeKill, IInv, TypeOK, Alive, Killed, Children
<1>2. SupInv'
    BY DEF IInv, TypeOK, SupInv, Code, FailureCode, TakeKill, End, Alive,
           Active, Waiting, Children, Timers, Off, Killed, NotSpawned,
           NoCode, supervisor, children
<1>3. ToldInv'
    BY DEF IInv, TypeOK, SupInv, ToldInv, TakeKill, End, Alive, Active,
           Waiting, Children, Timers, Off, Killed, NotSpawned, NoCode,
           supervisor, children
<1> QED
    BY <1>1, <1>2, <1>3 DEF IInv

(* A drain completes.                                                       *)
LEMMA DrainedStep ==
    ASSUME IInv, NEW c \in Children, Drained(c)
    PROVE  IInv'
<1>1. TypeOK' /\ TimeInv'
    BY EndKeeps DEF Drained, IInv, TypeOK, Alive, Killed, Children
<1>2. SupInv'
    BY DEF IInv, TypeOK, SupInv, Code, FailureCode, Drained, End, Alive,
           Active, Waiting, Children, Timers, Off, Killed, NotSpawned,
           NoCode, supervisor, children
<1>3. ToldInv'
    BY DEF IInv, TypeOK, SupInv, ToldInv, Drained, End, Alive, Active,
           Waiting, Children, Timers, Off, Killed, NotSpawned, NoCode,
           supervisor, children
<1> QED
    BY <1>1, <1>2, <1>3 DEF IInv

(* A drain is cut off.                                                      *)
LEMMA DeadlineStep ==
    ASSUME IInv, NEW c \in Children, DeadlinePasses(c)
    PROVE  IInv'
<1>1. TypeOK' /\ TimeInv'
    BY EndKeeps DEF DeadlinePasses, IInv, TypeOK, Alive, Killed, Children
<1>2. SupInv'
    BY DEF IInv, TypeOK, SupInv, Code, FailureCode, DeadlinePasses, End,
           Alive, Active, Waiting, Children, Timers, Off, Killed,
           NotSpawned, NoCode, supervisor, children
<1>3. ToldInv'
    BY DEF IInv, TypeOK, SupInv, ToldInv, DeadlinePasses, End, Alive,
           Active, Waiting, Children, Timers, Off, Killed, NotSpawned,
           NoCode, supervisor, children
<1> QED
    BY <1>1, <1>2, <1>3 DEF IInv

(* A child fails.                                                           *)
LEMMA FailStep ==
    ASSUME IInv, NEW c \in Children, NEW code \in ExitCodes \cup {Killed}, Fail(c, code)
    PROVE  IInv'
<1>1. TypeOK' /\ TimeInv'
    BY EndKeeps, SupervisionAssumption
    DEF Fail, IInv, TypeOK, Alive, Killed, Children
<1>2. SupInv'
    BY DEF IInv, TypeOK, SupInv, Code, FailureCode, Fail, End, Alive,
           Active, Waiting, Children, Timers, Off, Killed, NotSpawned,
           NoCode, supervisor, children
<1>3. ToldInv'
    BY DEF IInv, TypeOK, SupInv, ToldInv, Fail, End, Alive, Active, Waiting,
           Children, Timers, Off, Killed, NotSpawned, NoCode, supervisor,
           children
<1> QED
    BY <1>1, <1>2, <1>3 DEF IInv

(* A request is accepted.                                                   *)
LEMMA AcceptStep ==
    ASSUME IInv, NEW r \in Requests, Accept(r)
    PROVE  IInv'
<1>1. TypeOK'
    BY SupervisionAssumption
    DEF IInv, TypeOK, Accept, Alive, Active, Waiting, Children, Timers, Off,
        Killed, NotSpawned, NoCode, supervisor, children
<1>2. SupInv'
    BY DEF IInv, TypeOK, SupInv, Code, FailureCode, Accept, Alive, Active,
           Waiting, Children, Timers, Off, Killed, NotSpawned, NoCode,
           supervisor, children
<1>3. ToldInv'
    BY DEF IInv, TypeOK, SupInv, ToldInv, Accept, Alive, Active, Waiting,
           Children, Timers, Off, Killed, NotSpawned, NoCode, supervisor,
           children
<1>4. TimeInv'
    BY SupervisionAssumption
    DEF IInv, TypeOK, SupInv, ToldInv, TimeInv, Accept, Alive, Active,
        Waiting, Children, Timers, Off, Killed, NotSpawned, NoCode,
        supervisor, children
<1> QED
    BY <1>1, <1>2, <1>3, <1>4 DEF IInv

(* A page is asked for.                                                     *)
LEMMA StartRenderStep ==
    ASSUME IInv, NEW r \in Requests, StartRender(r)
    PROVE  IInv'
<1> USE DEF IInv
<1>1. \A q \in Requests \cup Children \cup {"sup"} : q \in Timers
    BY DEF Timers
<1>2. r \notin Children /\ r # "sup"
    BY SupervisionAssumption
<1>3. PICK to \in {"rendering", "error"} :
            /\ req' = [req EXCEPT ![r] = to]
            /\ left' = [left EXCEPT ![r] = IF to = "rendering"
                                           THEN RenderTimeout ELSE Off]
    <2>1. left = [left EXCEPT ![r] = Off] \/ left[r] # Off
        BY <1>1 DEF TypeOK
    <2>2. left[r] = Off
        BY DEF StartRender, TypeOK
    <2> QED
        BY <2>1, <2>2 DEF StartRender
<1>4. /\ req' \in [Requests -> {"none", "handler", "rendering", "page", "error",
                               "stream", "done", "cut", "lost"}]
      /\ req'[r] = to /\ req[r] = "handler"
      /\ \A q \in Requests \ {r} : req'[q] = req[q]
    BY <1>3 DEF TypeOK, StartRender
<1>5. /\ left' \in [Timers -> Nat \cup {Off}]
      /\ left'[r] = IF to = "rendering" THEN RenderTimeout ELSE Off
      /\ \A t \in Timers \ {r} : left'[t] = left[t]
    BY <1>1, <1>3, SupervisionAssumption DEF TypeOK
<1>6. /\ left'["sup"] = left["sup"]
      /\ \A d \in Children : left'[d] = left[d]
      /\ \A q \in Requests \ {r} : left'[q] = left[q]
    BY <1>1, <1>2, <1>5
<1>7. RenderTimeout # Off
    BY SupervisionAssumption DEF Off
<1>8. TypeOK'
    BY <1>4, <1>5, <1>6, <1>7
    DEF TypeOK, StartRender, supervisor, children, Active, Alive
<1>9. TimeInv'
    BY <1>4, <1>5, <1>6, <1>7, SupervisionAssumption
    DEF TypeOK, TimeInv, StartRender, supervisor, children, Waiting, Children
<1>10. SupInv'
    BY DEF IInv, TypeOK, SupInv, Code, FailureCode, StartRender, Alive,
           Active, Waiting, Children, Timers, Off, Killed, NotSpawned,
           NoCode, supervisor, children
<1>11. ToldInv'
    BY DEF IInv, TypeOK, SupInv, ToldInv, StartRender, Alive, Active,
           Waiting, Children, Timers, Off, Killed, NotSpawned, NoCode,
           supervisor, children
<1> QED
    BY <1>8, <1>9, <1>10, <1>11

(* The worker answers.                                                      *)
LEMMA RenderEndsStep ==
    ASSUME IInv, NEW r \in Requests, RenderEnds(r)
    PROVE  IInv'
<1>1. TypeOK' /\ TimeInv'
    BY RenderedKeeps DEF RenderEnds
<1>2. SupInv'
    BY DEF IInv, TypeOK, SupInv, Code, FailureCode, RenderEnds, Rendered,
           Alive, Active, Waiting, Children, Timers, Off, Killed,
           NotSpawned, NoCode, supervisor, children
<1>3. ToldInv'
    BY DEF IInv, TypeOK, SupInv, ToldInv, RenderEnds, Rendered, Alive,
           Active, Waiting, Children, Timers, Off, Killed, NotSpawned,
           NoCode, supervisor, children
<1> QED
    BY <1>1, <1>2, <1>3 DEF IInv

(* The worker is gone or too slow.                                          *)
LEMMA RenderBreaksStep ==
    ASSUME IInv, NEW r \in Requests, RenderBreaks(r)
    PROVE  IInv'
<1>1. TypeOK' /\ TimeInv'
    BY RenderedKeeps DEF RenderBreaks
<1>2. SupInv'
    BY DEF IInv, TypeOK, SupInv, Code, FailureCode, RenderBreaks, Rendered,
           Alive, Active, Waiting, Children, Timers, Off, Killed,
           NotSpawned, NoCode, supervisor, children
<1>3. ToldInv'
    BY DEF IInv, TypeOK, SupInv, ToldInv, RenderBreaks, Rendered, Alive,
           Active, Waiting, Children, Timers, Off, Killed, NotSpawned,
           NoCode, supervisor, children
<1> QED
    BY <1>1, <1>2, <1>3 DEF IInv

(* The client is done.                                                      *)
LEMMA FinishStep ==
    ASSUME IInv, NEW r \in Requests, Finish(r)
    PROVE  IInv'
<1>1. TypeOK'
    BY SupervisionAssumption
    DEF IInv, TypeOK, Finish, Alive, Active, Waiting, Children, Timers, Off,
        Killed, NotSpawned, NoCode, supervisor, children
<1>2. SupInv'
    BY DEF IInv, TypeOK, SupInv, Code, FailureCode, Finish, Alive, Active,
           Waiting, Children, Timers, Off, Killed, NotSpawned, NoCode,
           supervisor, children
<1>3. ToldInv'
    BY DEF IInv, TypeOK, SupInv, ToldInv, Finish, Alive, Active, Waiting,
           Children, Timers, Off, Killed, NotSpawned, NoCode, supervisor,
           children
<1>4. TimeInv'
    BY SupervisionAssumption
    DEF IInv, TypeOK, SupInv, ToldInv, TimeInv, Finish, Alive, Active,
        Waiting, Children, Timers, Off, Killed, NotSpawned, NoCode,
        supervisor, children
<1> QED
    BY <1>1, <1>2, <1>3, <1>4 DEF IInv

(* Time passes.                                                             *)
LEMMA TickStep ==
    ASSUME IInv, Tick
    PROVE  IInv'
<1> USE DEF IInv
<1>1. left' \in [Timers -> Nat \cup {Off}]
    BY DEF TypeOK, Tick, Off
<1>2. \A t \in Timers : left'[t] # Off <=> left[t] # Off
    BY DEF TypeOK, Tick, Off
<1>3. TypeOK'
    BY <1>1, <1>2 DEF TypeOK, Tick, supervisor, children, Active, Alive, Timers
<1>4. SupInv'
    BY DEF IInv, TypeOK, SupInv, Code, FailureCode, Tick, Alive, Active,
           Waiting, Children, Timers, Off, Killed, NotSpawned, NoCode,
           supervisor, children
<1>5. ToldInv'
    BY DEF IInv, TypeOK, SupInv, ToldInv, Tick, Alive, Active, Waiting,
           Children, Timers, Off, Killed, NotSpawned, NoCode, supervisor,
           children
<1>6. TimeInv'
    BY SupervisionAssumption
    DEF TypeOK, TimeInv, Tick, Waiting, Children, Timers, Off, supervisor, children
<1> QED
    BY <1>3, <1>4, <1>5, <1>6

-----------------------------------------------------------------------------
(* Every step, and stuttering, preserves the invariant.                      *)
LEMMA NextInv == IInv /\ [Next]_vars => IInv'
<1> SUFFICES ASSUME IInv, [Next]_vars PROVE IInv'
    OBVIOUS
<1>1. CASE SupervisorStep
    BY <1>1, InstallStep, CloseStep, AllClosedStep, ForceExitStep
    DEF SupervisorStep
<1>2. ASSUME NEW s \in {"INT", "TERM"}, Signal(s) PROVE IInv'
    BY <1>2, SignalStep
<1>3. ASSUME NEW c \in Children, ChildStep(c) PROVE IInv'
    BY <1>3, BootStep, TakeTermStep, TakeTermEarlyStep, TakeKillStep,
       DrainedStep, DeadlineStep DEF ChildStep
<1>4. ASSUME NEW c \in Children, NEW code \in ExitCodes \cup {Killed},
             Fail(c, code)
      PROVE  IInv'
    BY <1>4, FailStep
<1>5. CASE Notify \/ ListenFails \/ RunFails
    BY <1>5, NotifyStep, ListenFailsStep, RunFailsStep
<1>6. ASSUME NEW r \in Requests,
             Accept(r) \/ RequestStep(r) \/ RenderEnds(r) \/ Finish(r)
      PROVE  IInv'
    BY <1>6, AcceptStep, StartRenderStep, RenderBreaksStep, RenderEndsStep,
       FinishStep DEF RequestStep
<1>7. CASE Tick
    BY <1>7, TickStep
<1>8. CASE UNCHANGED vars
    BY <1>8 DEF vars, supervisor, children, IInv, TypeOK, SupInv, Code, ToldInv,
       TimeInv, Alive, Active, Waiting
<1> QED
    BY <1>1, <1>2, <1>3, <1>4, <1>5, <1>6, <1>7, <1>8 DEF Next

(* The invariant holds in every reachable state.                             *)
THEOREM Invariance == Spec => []IInv
    BY InitInv, NextInv, PTL DEF Spec

(* Every variable keeps its type; timers run exactly for renders under way,   *)
(* and requests are open only while the server lives (server.go:348-374).     *)
THEOREM TypeCorrect == Spec => []TypeOK
    BY Invariance, PTL DEF IInv

(* The exit status tells the first cause, however ends and signals are        *)
(* interleaved (supervisor.mjs:22-26, 42-63).                                 *)
THEOREM ExitCodeIsHonest == Spec => []ExitCodeHonest
<1>1. IInv => ExitCodeHonest
    BY DEF IInv, SupInv, ExitCodeHonest, Code
<1> QED
    BY <1>1, Invariance, PTL

(* The supervisor never leaves a child to itself once its handlers are        *)
(* installed (supervisor.mjs:27-39, 62-63).                                   *)
THEOREM ChildrenAreStopped == Spec => []NoneLeftBehind
<1>1. IInv => NoneLeftBehind
    BY DEF IInv, ToldInv, NoneLeftBehind
<1> QED
    BY <1>1, Invariance, PTL

(* Whatever the deadlines are, as long as a render's limit is shorter than    *)
(* the supervisor's and the server's, no stop takes a page request's answer   *)
(* away (server.go:176-190, 356-373, supervisor.mjs:39).                      *)
THEOREM PagesAreAnswered == Spec => PagesAnswered
<1> DEFINE Kept ==
      \A r \in Requests :
          (Waiting(r) /\ req'[r] = "lost") =>
              "app" \in fault' \/ child["app"] = "opening"
<1>1. ASSUME IInv, NEW c \in Children, NEW code, End(c, code),
             c = "app" => \A r \in Requests : ~Waiting(r)
      PROVE  Kept
    BY <1>1 DEF End, Waiting
<1>2. ASSUME IInv, NEW r \in Requests, Waiting(r), child["app"] = "draining"
      PROVE  left["app"] # 0
    BY <1>2, SupervisionAssumption
    DEF IInv, TypeOK, TimeInv, Waiting, Timers, Children, Off
<1>3. ASSUME IInv, [Next]_vars PROVE Kept
    <2>1. CASE UNCHANGED req
        BY <2>1 DEF Waiting
    <2>2. ASSUME NEW c \in Children, ChildStep(c) PROVE Kept
        <3>1. CASE Boot(c) \/ TakeTerm(c)
            BY <3>1, <2>1 DEF Boot, TakeTerm
        <3>2. CASE TakeTermEarly(c)
            <4>1. CASE child["app"] = "opening"
                BY <4>1
            <4>2. CASE child["app"] # "opening"
                BY <1>1, <1>3, <3>2, <4>2 DEF TakeTermEarly, IInv, TimeInv
            <4> QED
                BY <4>1, <4>2
        <3>3. CASE TakeKill(c)
            BY <1>1, <1>3, <3>3 DEF TakeKill, IInv, TimeInv
        <3>4. CASE Drained(c)
            BY <1>1, <1>3, <3>4 DEF Drained, Busy, Active, Waiting
        <3>5. CASE DeadlinePasses(c)
            BY <1>1, <1>2, <1>3, <3>5 DEF DeadlinePasses
        <3> QED
            BY <2>2, <3>1, <3>2, <3>3, <3>4, <3>5 DEF ChildStep
    <2>3. ASSUME NEW c \in Children, NEW code \in ExitCodes \cup {Killed},
                 Fail(c, code)
          PROVE  Kept
        <3>1. CASE c = "app"
            BY <2>3, <3>1 DEF Fail, IInv, TypeOK
        <3>2. CASE c # "app"
            BY <1>1, <1>3, <2>3, <3>2 DEF Fail
        <3> QED
            BY <3>1, <3>2
    <2>4. CASE RunFails
        BY <1>3, <2>4 DEF RunFails, IInv, TimeInv
    <2>5. CASE SupervisorStep \/ Notify \/ ListenFails \/ Tick
               \/ \E s \in {"INT", "TERM"} : Signal(s)
        BY <2>1, <2>5 DEF SupervisorStep, Install, Close, AllClosed, ForceExit,
           Notify, ListenFails, Tick, Signal, children
    <2>6. ASSUME NEW r \in Requests,
                 Accept(r) \/ RequestStep(r) \/ RenderEnds(r) \/ Finish(r)
          PROVE  Kept
        BY <1>3, <2>6 DEF RequestStep, Accept, StartRender, RenderBreaks,
           RenderEnds, Rendered, Finish, IInv, TypeOK, Waiting
    <2> QED
        BY <1>3, <2>1, <2>2, <2>3, <2>4, <2>5, <2>6 DEF Next, vars
<1>4. IInv /\ [Next]_vars => [Kept]_vars
    BY <1>3
<1> QED
    BY Invariance, <1>4, PTL DEF Spec, PagesAnswered
=============================================================================
