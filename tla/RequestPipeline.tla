-------------------------- MODULE RequestPipeline --------------------------
(***************************************************************************)
(* One request through ServeHTTP of server/server.go: the middleware in the *)
(* order of Use, the application's handler behind the recording response    *)
(* writer, the recovery of panics, the observation, and what net/http puts  *)
(* on the connection.  The handler is application code: any sequence of      *)
(* calls of its ResponseWriter with any integer as a status, a return or a  *)
(* panic; it does not Unwrap the recorder.  Requests share no state of the  *)
(* server but the limiter, which RateLimiter models.                        *)
(***************************************************************************)
EXTENDS Integers, Sequences

CONSTANTS
    Chains,     \* middleware sequences over Kinds
    Statuses,   \* integers the handler passes to WriteHeader
    Writes,     \* numbers of body bytes that a write transfers
    MaxCalls    \* bound: ResponseWriter calls of the handler

Kinds == {"SecurityHeaders", "MaxBodyBytes", "RateLimit",
          "MaxBodyBytesUnset", "RateLimitUnset"}

ASSUME PipelineAssumption ==
    /\ Chains \subseteq Seq(Kinds)
    /\ Statuses \subseteq Int
    /\ Writes \subseteq Nat
    /\ MaxCalls \in Nat

VARIABLES
    chain,      \* the middleware around the mux, outermost first
    method,     \* of the request: "HEAD" or another
    observer,   \* Config.Observer: "nil", "returns" or "panics"
    pc,         \* where the request is
    at,         \* the middleware whose turn it is
    calls,      \* ResponseWriter calls made by the handler
    rec,        \* the responseRecorder
    net,        \* net/http's response: what the client receives
    panicked,   \* the deferred function recovered a panic
    logged,     \* the access log entries of the request
    observed,   \* the observations handed to the observer
    raised      \* history: the writer when a panic was raised, if one was

response == <<rec, net>>
report == <<panicked, logged, observed>>
vars == <<chain, method, observer, pc, at, calls, response, report, raised>>

Labels == {"middleware", "handler", "panicking", "reporting", "observing",
           "finishing", "done"}

-----------------------------------------------------------------------------
(* net/http: the first final status wins, an informational one is sent at    *)
(* once and decides nothing, a status that is no code makes WriteHeader      *)
(* panic, and a hijacked connection is out of its hands.  The body of a HEAD *)
(* request is accepted and thrown away.                                      *)
Fresh == [wrote |-> FALSE, status |-> 0, bytes |-> 0, hijacked |-> FALSE]

Codes == 100..999

Final(s) == s \in 200..999

Informational(s) == s \in 100..199 /\ s # 101

BodyAllowed(s) == s >= 200 /\ s \notin {204, 304}

Begun(n) == n.wrote \/ n.hijacked

HeaderPanics(n, s) == ~Begun(n) /\ s \notin Codes

NetHeader(n, s) ==
    IF Begun(n) \/ s \notin Codes \/ Informational(s) THEN n
    ELSE [n EXCEPT !.wrote = TRUE, !.status = s]

(* What a write of k bytes returns, and what it sends.                       *)
Accepted(n, k) == IF n.hijacked \/ ~BodyAllowed(n.status) THEN 0 ELSE k

NetWrite(n, k) ==
    [n EXCEPT !.bytes = @ + IF method = "HEAD" THEN 0 ELSE Accepted(n, k)]

-----------------------------------------------------------------------------
(* responseRecorder, each method as a change of rec and net together.        *)
NewRecorder == [status |-> 0, bytes |-> 0, wroteHeader |-> FALSE]

HeaderNotLatched(w, s) ==    \* variant
    [rec |-> [w.rec EXCEPT !.status = s], net |-> NetHeader(w.net, s)]

RecHeader(w, s) ==
    IF w.rec.wroteHeader THEN w
    ELSE [rec |-> [w.rec EXCEPT !.status = s, !.wroteHeader = TRUE],
          net |-> NetHeader(w.net, s)]

WriteCountsOffered(w, k) ==  \* variant: len(data), not what was written
    LET h == RecHeader(w, 200)
        n == NetHeader(h.net, 200) IN
    [rec |-> [h.rec EXCEPT !.bytes = @ + k], net |-> NetWrite(n, k)]

RecWrite(w, k) ==
    LET h == RecHeader(w, 200)
        n == NetHeader(h.net, 200) IN
    [rec |-> [h.rec EXCEPT !.bytes = @ + Accepted(n, k)],
     net |-> NetWrite(n, k)]

RecFlushUnrecorded(w) ==     \* variant
    [w EXCEPT !.net = NetHeader(@, 200)]

RecFlush(w) ==
    LET h == RecHeader(w, 200) IN [h EXCEPT !.net = NetHeader(@, 200)]

(* A Hijacker that is there latches 101, and then takes the connection over  *)
(* or fails.                                                                 *)
RecHijack(w, taken) ==
    [rec |-> IF w.rec.wroteHeader THEN w.rec
             ELSE [w.rec EXCEPT !.status = 101, !.wroteHeader = TRUE],
     net |-> [w.net EXCEPT !.hijacked = @ \/ taken]]

statusCode == IF rec.status = 0 THEN 200 ELSE rec.status

HTTPError(w, s) == RecWrite(RecHeader(w, s), 1)

Respond(w) == rec' = w.rec /\ net' = w.net

Writer == [rec |-> rec, net |-> net]

-----------------------------------------------------------------------------
Init ==
    /\ chain \in Chains
    /\ method \in {"GET", "HEAD"}
    /\ observer \in {"nil", "returns", "panics"}
    /\ pc = "middleware"
    /\ at = 1
    /\ calls = 0
    /\ rec = NewRecorder
    /\ net = Fresh
    /\ panicked = FALSE
    /\ logged = << >>
    /\ observed = << >>
    /\ raised = << >>

(* A middleware passes the request on, or answers it.                        *)
PassOn ==
    /\ at' = at + 1
    /\ pc' = IF at' > Len(chain) THEN "handler" ELSE "middleware"
    /\ UNCHANGED response

Answer(s) ==
    /\ Respond(HTTPError(Writer, s))
    /\ pc' = "reporting"
    /\ UNCHANGED at

Turn(k) ==
    /\ pc = "middleware"
    /\ at <= Len(chain)
    /\ chain[at] = k
    /\ UNCHANGED <<chain, method, observer, calls, report, raised>>

SecurityHeaders == Turn("SecurityHeaders") /\ PassOn

MaxBodyBytes ==
    \/ Turn("MaxBodyBytes") /\ PassOn
    \/ Turn("MaxBodyBytesUnset") /\ Answer(500)

RateLimit ==
    \/ Turn("RateLimit") /\ (PassOn \/ Answer(503) \/ Answer(429))
    \/ Turn("RateLimitUnset") /\ Answer(500)

NoMiddleware ==
    /\ pc = "middleware"
    /\ chain = << >>
    /\ pc' = "handler"
    /\ UNCHANGED <<chain, method, observer, at, calls, response, report, raised>>

-----------------------------------------------------------------------------
(* The handler: WriteHeader, Write or ReadFrom, Flush, Hijack.               *)
Called(w) ==
    /\ pc = "handler"
    /\ calls < MaxCalls
    /\ calls' = calls + 1
    /\ Respond(w)
    /\ UNCHANGED <<chain, method, observer, at, report>>

Call(w) == Called(w) /\ UNCHANGED <<pc, raised>>

(* The recorder has latched what net/http panics on.  A handler may recover  *)
(* that panic itself, and is then as after any other call.                   *)
WriteHeader == \E s \in Statuses : Call(RecHeader(Writer, s))

WriteHeaderPanics ==
    \E s \in Statuses :
        /\ ~rec.wroteHeader
        /\ HeaderPanics(net, s)
        /\ Called(RecHeader(Writer, s))
        /\ pc' = "panicking"
        /\ raised' = <<RecHeader(Writer, s)>>

Write  == \E k \in Writes : Call(RecWrite(Writer, k))
Flush  == Call(RecFlush(Writer))

(* The connection may be none that can be hijacked.                          *)
Hijack ==
    \/ Call(Writer)
    \/ \E taken \in BOOLEAN : Call(RecHijack(Writer, taken))

HandlerReturns ==
    /\ pc = "handler"
    /\ pc' = "reporting"
    /\ UNCHANGED <<chain, method, observer, at, calls, response, report, raised>>

(* The handler, the limiter or its key function panics.                      *)
Panic ==
    /\ \/ pc = "handler"
       \/ pc = "middleware" /\ at <= Len(chain) /\ chain[at] = "RateLimit"
    /\ pc' = "panicking"
    /\ raised' = <<Writer>>
    /\ UNCHANGED <<chain, method, observer, at, calls, response, report>>

-----------------------------------------------------------------------------
(* The deferred function: recovery, the log entry, the observer.             *)
RecoverWithoutAnswer ==     \* variant
    /\ pc = "panicking"
    /\ panicked' = TRUE
    /\ pc' = "reporting"
    /\ UNCHANGED <<chain, method, observer, at, calls, response, logged, observed,
                   raised>>

Recover ==
    /\ pc = "panicking"
    /\ panicked' = TRUE
    /\ IF rec.wroteHeader THEN UNCHANGED response
       ELSE Respond(HTTPError(Writer, 500))
    /\ pc' = "reporting"
    /\ UNCHANGED <<chain, method, observer, at, calls, logged, observed, raised>>

Observation == [status |-> statusCode, bytes |-> rec.bytes,
                panicked |-> panicked]

Log ==
    /\ pc = "reporting"
    /\ logged' = Append(logged, Observation)
    /\ pc' = "observing"
    /\ UNCHANGED <<chain, method, observer, at, calls, response, panicked, observed,
                   raised>>

ObserveUnprotected ==       \* variant: no recover around the observer
    /\ pc = "observing"
    /\ observed' = Append(observed, Observation)
    /\ pc' = IF observer = "panics" THEN "done" ELSE "finishing"
    /\ UNCHANGED <<chain, method, observer, at, calls, response, panicked, logged,
                   raised>>

(* observe: a nil observer is skipped, a panic of the observer recovered.    *)
Observe ==
    /\ pc = "observing"
    /\ observed' = IF observer = "nil" THEN observed
                   ELSE Append(observed, Observation)
    /\ pc' = "finishing"
    /\ UNCHANGED <<chain, method, observer, at, calls, response, panicked, logged,
                   raised>>

(* net/http completes a response that ServeHTTP returned from.               *)
FinishRequest ==
    /\ pc = "finishing"
    /\ net' = NetHeader(net, 200)
    /\ pc' = "done"
    /\ UNCHANGED <<chain, method, observer, at, calls, rec, report, raised>>

Next ==
    \/ SecurityHeaders \/ MaxBodyBytes \/ RateLimit \/ NoMiddleware
    \/ WriteHeader \/ WriteHeaderPanics \/ Write \/ Flush \/ Hijack
    \/ HandlerReturns \/ Panic \/ Recover \/ Log \/ Observe \/ FinishRequest

Spec == Init /\ [][Next]_vars

-----------------------------------------------------------------------------
(* Properties                                                                *)

Records == [status : Int, bytes : Nat, wroteHeader : BOOLEAN]

Responses == [wrote : BOOLEAN, status : Codes \cup {0}, bytes : Nat,
              hijacked : BOOLEAN]

Writers == [rec : Records, net : Responses]

Observations == [status : Int, bytes : Nat, panicked : BOOLEAN]

TypeOK ==
    /\ chain \in Chains
    /\ method \in {"GET", "HEAD"}
    /\ observer \in {"nil", "returns", "panics"}
    /\ pc \in Labels
    /\ at \in 1..Len(chain) + 1
    /\ calls \in 0..MaxCalls
    /\ rec \in Records
    /\ ~rec.wroteHeader => rec.status = 0
    /\ net \in Responses
    /\ panicked \in BOOLEAN
    /\ logged \in Seq(Observations)
    /\ observed \in Seq(Observations)
    /\ Len(logged) <= 1 /\ Len(observed) <= Len(logged)
    /\ raised \in Seq(Writers)

Done == pc = "done"

(* A final status in a report is the one the client received, and a report   *)
(* that is wrong is so in one way only: it carries the informational or      *)
(* invalid status, or the 101 of a failed Hijack, that was latched before    *)
(* net/http answered 200.  For any integers as statuses, any order of the    *)
(* handler's calls and a panic anywhere (server.go:395-463).                 *)
StatusReported ==
    Done /\ ~net.hijacked =>
        \/ logged[1].status = net.status
        \/ ~Final(logged[1].status) /\ net.status = 200

(* Body bytes are reported of responses that have a body only: neither a     *)
(* write that a 204 or a 304 refuses nor one on a connection taken over is   *)
(* counted, whichever call sent the header (server.go:403-410, 444-455).     *)
BodyReported ==
    Done /\ logged[1].bytes > 0 => net.wrote /\ BodyAllowed(net.status)

(* A request is reported as panicked just when it was.  One that panics when *)
(* its client is not being answered is answered with 500, unless the         *)
(* recorder holds a status that is not final: a recorder that holds a final  *)
(* one never leaves the client without an answer (server.go:202-209).        *)
Unanswered(w) ==
    ~Begun(w.net) /\ (w.rec.wroteHeader => Final(w.rec.status))

PanicAnswered ==
    Done =>
        /\ logged[1].panicked <=> raised # << >>
        /\ raised # << >> /\ Unanswered(raised[1]) => net.status = 500

(* Every request is answered, or was taken over by its handler, and handed   *)
(* to a configured observer once, even when handler and observer both panic  *)
(* (server.go:202-222, 376-386).                                             *)
Answered ==
    Done =>
        /\ Begun(net)
        /\ observed = IF observer = "nil" THEN << >> ELSE logged

(* "ServeHTTP applies request ID, recovery" (server.go:193): a panic raised  *)
(* while the client is not being answered ends in the 500 of server.go:207.  *)
PanicRecovered ==
    Done /\ raised # << >> /\ ~Begun(raised[1].net) => net.status = 500
=============================================================================
