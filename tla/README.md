# A TLA+ model of wahoo

wahoo is a small Go web framework: a library of packages an application
imports (`server`, `jobs`, `realtime`, `ratelimit`, `entitlement`, `webhook`,
`auth`, ...) and a command, `wahoo`, that generates a project and adds modules
to it. This directory models the parts of it that have state and order: goroutines
and processes that share it, callbacks into application code, timeouts and
signals, clocks that are read before what they are compared with, and file system
steps that fail or are cut short. TLC checks the models on small instances; TLAPS
proves their safety properties, and the refinement of the one abstract
specification, for every value of the constants.

Contents: [inventory](#inventory), [modules](#modules-and-the-code),
[runs](#runs), [bounds](#bounds), [fairness](#fairness),
[disagreements found](#where-the-code-and-its-documentation-disagree),
[proofs](#proofs), [what is only checked](#what-is-only-model-checked),
[what is not modelled](#what-is-not-modelled), [plan](#plan),
[running it](#running-it).

## Inventory

The components with state or order of their own:

| component | source | state | operations | talks to |
|---|---|---|---|---|
| Job runner | `jobs/jobs.go` | per `Run` call: the derived context, `runErr` behind a `sync.Once`, the worker goroutines | `New`, `Run`, the worker loop (context check, `Pull`, idle wait, `Handle` under a job timeout), first failure cancels all | the application's `Puller` and `Handler` |
| SSE hub | `realtime/sse.go` | `h.clients`: topic → registered channels, under one mutex; per stream a channel with one slot | `Publish`, `PublishTopic`, `ServeHTTP`, `ServeTopic` | `net/http` (write, flush, deadlines), the request's context |
| Rate limiter | `ratelimit/ratelimit.go` | `m.entries`: key → count and start of its window | `NewMemory`, `Allow`, `evictExpired` | the monotonic clock; `server`'s `RateLimit` middleware |
| Project scaffold | `internal/scaffold/scaffold.go` | files of the project, the route list inside `app/routes.go`, the version in `go.mod`, `.wahoo/project.json` (or the older `modules.json`), `*.wahoo.tmp` files | `Create`, `Add`, `Upgrade` | the file system; the `wahoo` command |
| Command line | `cmd/wahoo/main.go` | none between invocations; `go.sum` and `vendor/` of the project | `new`, `add`, `upgrade`, then `go mod tidy` and `go mod vendor` | the scaffold, the `go` command |
| Request pipeline | `server/server.go` | per request: the recording response writer, the panic flag | `ServeHTTP`, the middleware, recovery, access log, observer | the application's handler and observer, the limiter, `net/http` |
| Server lifecycle | `server/server.go` | the listener, the drain | `Run` | signals, every request in flight, the supervisor |
| Process supervision | `internal/scaffold/templates/web/*.mjs` | two child processes, what was asked of them, the stop's code, timers | start, exit and signal handlers, `stop`, the forced exit; the worker's shutdown | the Go server, the SSR worker |
| Renderer | `internal/scaffold/templates/web/renderer.go.tmpl` | none | `Render` | the SSR worker, within a limit of its own |
| Entitlements | `entitlement/entitlement.go` | none between calls; the loop's locals | `Decide` | the application's store |
| Webhooks | `webhook/webhook.go` | the receiver's `Verifier` | `NewVerifier`, `Sign`, `ReadBody`, `VerifyAt` | a sender with secrets and a clock of its own |
| Sessions | `auth/session.go` | the application's store, the clock | `AuthenticateSession`, `ActiveAt` | the application's store |

The rest (passwords and tokens, authorization, billing, mail, audit, storage,
JSON helpers, database readiness, the WebSocket wrapper, the HTTP helpers, the
installer) validates values or wraps a library and keeps nothing between calls;
`PROJECT.json` lists each with the reason.

What is hard, and what makes each correct:

* **Job runner.** A worker's error, another worker's error and the caller's
  cancellation race; the check of the context, `failed.Do` and `cancel` are three
  steps. `Pull` may succeed after cancellation. *Correct:* `Run` never returns nil
  and reports the first recorded error; a pulled job is handled once, and never
  lost; a stop reaches every worker; a job does not wait for ever.
* **SSE hub.** A publisher that finds a slot taken closes the channel, and so does
  the handler's deferred cleanup; handlers receive outside the mutex while a
  publisher walks the map in random order. *Correct:* no double close or send after
  close; the streams served and not evicted stay within the capacity over all
  topics, which is given back on every way out; a stream sees its topic's events in
  order and without a gap until it is cut; it ends, unless a write of it stalls.
* **Rate limiter.** The clock is read before the mutex, so a call decides with a
  time that may be older than the window it finds. Memory is bounded, so a
  new key evicts. *Correct:* neither a stale time nor an eviction gives a key its
  budget back before its window is over; the map never outgrows its bound; a
  refusal for want of room is true.
* **Scaffold and command line.** Each command is a sequence of file system steps
  without a transaction or a lock, and then runs two commands that may fail: any
  step may fail, the process may be killed between two, a second invocation may
  run at the same time. *Correct:* the metadata tells the truth, the generated
  routes compile, files the application may have edited are left alone, a
  reported success is one.
* **Request pipeline.** The recorder keeps its own idea of the status beside
  `net/http`'s, for any order of writer calls and any integers as statuses; the
  handler and the observer may panic, and so may `WriteHeader` itself.
  *Correct:* what is logged and observed is what the client received; every
  request is answered; a panic is answered with 500 when that is possible.
* **Supervision.** Three processes and a render each have a deadline for the same
  shutdown. One child's exit, the other's failure to start and signals race to
  call `stop`; signals may come before handlers are installed or after they were
  used up. *Correct:* the exit code tells the first cause; no child outlives the
  supervisor unasked; a page request gets an answer however the deadlines fall;
  any end ends everything.
* **Entitlements.** Quantities are unsigned 64-bit integers, the sum of grants may
  exceed them; grants start, end and are revoked at instants that may coincide
  with the decision. *Correct:* access is decided by the exact sum of the grants
  in force, and a denial names its reason.
* **Sessions.** The caller reads the clock, then the lookup takes time, while
  sessions are inserted, revoked and removed. *Correct:* the answer is one that a
  call without duration would have given at some instant of the call.
* **Webhooks.** Two clocks, secrets in rotation, headers that put parts of signed
  headers together anew. *Correct:* accepted exactly when a holder of a current
  secret signed this body within the tolerance on either side.

How they meet. The supervisor, the worker, the server's `Run` and the requests in
flight are composed in `Supervision`: what one's deadline does to another is its
subject. The pipeline calls the limiter: RateLimit is a step of `RequestPipeline`
with the three outcomes (pass, 429, 503) that `RateLimiter` determines, and
requests share nothing else. The hub's handlers run inside the pipeline: `SSEHub`
uses the writer only through a write or flush that returns or fails, and to
`Supervision` they are requests that end when their client leaves. The scaffold
is composed with the command that calls it. Entitlements, sessions and webhooks
are called by the application alone and share nothing, with the limiter neither;
`Packages` puts the four side by side.

## Modules and the code

`PROJECT.json` (`map`) gives the source lines of every definition. Operators whose
comment says *variant* are slips a maintainer could make; they are not part of any
specification and serve to show that the properties notice them.

### JobRunner

One step is one atomic step of a goroutine. `runner` is what `New` returned: the
resolved configuration or `NilRunner` for every refusal. `call`, `caller`, `runCtx`
are the `Run` call and its two contexts (`Propagate` is the moment a caller's
cancellation reaches the derived context). `pc[r][w]` is a worker: `top` (the
`runCtx.Err()` check) → `pull` → `handle` or `wait` → `check` → `fail`
(`failed.Do`) → `cancel`. `once` is the `sync.Once`: `FailFirst` records the error
and enters the function, `FailCancel` cancels and leaves it, `FailLater` is a worker
that comes too late and has to wait for it. `pending`, `queue`, `handled` and `held`
are where jobs are; `Offer` is the application making a job available at any time.
`Pull` and `Handle` follow their documented contracts: both may fail at any time
and may succeed after cancellation. `Handle` may also return `ErrNoJob`, which the
worker treats like any other error.

### SSEHub, TopicStream

`clients` and `entries` are `h.clients`: the channels of each topic, and whether
the topic has an inner map. `pub` is the publisher that holds the mutex; `Offer` is
one iteration of its loop (`SendToSlot`, `Evict`, and `SendOnClosed`, the panic that
must not happen), in any order of the topic's channels; every other critical
section requires `Unlocked`. A handler moves `new` → `opening` (registered,
headers not flushed) → `loop` ⇄ `writing` → `leaving` (its deferred cleanup) →
`gone`, or `refused`. A write or flush may take for ever. A closed channel still yields the event in its slot, as Go's
do.

`TopicStream` is the promise without locks and channels: a stream that subscribes
delivers its topic's events from then on, in order, without a gap; a stream that
still owes an earlier event may be cut, and then delivers at most what it was owed.
`SSEHub` implements it under the mapping `Phase`, `Owed` (the event in the slot,
plus the one in the handler's hand, plus the one the publisher has yet to offer).

### RateLimiter

`Call` reads the clock, `DecideAllow` is the critical section, with one disjunct for
each way through it; other calls and `LimiterTick` come between the two. `last` is history: the
latest window each key was granted, kept when `entries` has forgotten it.

### Scaffold

`files` says whether a file is absent, partial or full. Of their contents the model
keeps what the generator reads back: the registrations in `routes.go`, the version in
`go.mod` and whether it replaces the framework by a local checkout (`replaced`), the
metadata. `sess[p]` is one invocation: its label, the files still to be written
(`todo`), the managed file being replaced (`out`) and what it read. The loop of `Add`
over the modules that the metadata lacks is `NextModule`, which plans the first of
`Missing`, and `ModuleWritten`, which appends it to the project and its registration
to the routes. `create`/`fill` is `writeNewFile`, `open`/`write`/`rename`/`remove` is
`writeAtomic`, with the deferred removal that also runs after a rename. Every step may
fail (`CreateFails`, `FillFails`, `OpenTmpFails`, `RenameFails`, `FailReading`),
`Crash` ends an invocation between two steps. Two invocations can meet in one
temporary file: the deferred removal of one takes the name away from another, whose
rename then fails or moves a third one's file. `tmp[f].owner` says whose file has the
temporary name, `writer[f]` who still has the target open because somebody else
renamed it there too early; `WriteTmp` writes to the file the invocation opened,
wherever it is by now. The module table is the source's; the
template files next to `routes.go` and `go.mod` are represented by one of them. A
project of an older version starts with `LegacyModules` in its metadata and their
registrations, `LegacyRoutes`, in `routes.go`. When the generator is done, the command
runs `Tidy` and, with a local checkout, `Vendor`; `built` is what the two have done
since the sources last changed.

### RequestPipeline

`rec` is the `responseRecorder`, `net` the response of `net/http` over HTTP/1 (the
first final status wins, an informational one decides nothing, one outside
100..999 panics, the body of a HEAD is accepted and dropped, a hijacked connection
is out of its hands). `chain` is the middleware in the order of `Use`, `method` tells
HEAD from the rest. The handler makes any calls of its writer (`WriteHeader` with any
integer, `Write` — `ReadFrom` has the same effect — `Flush`, `Hijack`, which may be
unsupported or fail after the recorder latched 101) and returns or panics; a
`WriteHeader` that panics (`WriteHeaderPanics`) has been latched by the recorder
first, and the handler may recover from it. `raised` keeps what the writer was when
the handler's panic left it. `Recover`, `Log`, `Observe` are the deferred function,
in its order.

### Supervision

`sup` is the supervisor: `starting` (both children spawned, no handler installed),
`running`, `stopping`, `gone`. `Stop` is its function `stop`, of which only the first
call has an effect; `Close` is a child's "close" (with the "error" of one that was
not spawned), `Signal` a `process.once` handler or, where there is none, the
default action. `AllClosed` and `ForceExit` are the two ways out. `child` is each
child's phase: `booting` (no handlers), `opening` (the server listens and `Run` has not
asked for signals), `up`, `draining`, `dead`; `mail` is the signal on its way to
it. `Drained` and `DeadlinePasses` end the worker's `close` and the server's
`Shutdown`. `req` follows each request through the page handler, the render and
the answer, or as a stream. `left` holds the running timers. Time is counted in
units of five seconds, which all limits of the code are multiples of; between two
ticks every order of steps is possible.

### Entitlement, Session, Webhook

`Entitlement` is `Decide`, one iteration of the loop a step: `Count` is the body for
a grant of the required feature, `Branch` its conditions, `Add` the capped addition
with the machine's wrap-around (`Wrap`). A grant is chosen when the loop reaches it.
`total` and `kinds` are history: the exact sum, and what `KindOf` — the comment
on `Grant` put as a definition — says each grant was. `Session` is
`AuthenticateSession` in three steps (`Start` reads the clock, `Find`, `Decide`) over
a store in which the application inserts, revokes and removes; `answers` collects
what the ideal, instantaneous call would have said at each instant of the call.
`Webhook` is a sender (`Sign`), a receiver whose configuration changes
(`Configure` is `NewVerifier`) and deliveries (`Deliver` is `ReadBody` and
`VerifyAt`) of headers made of any parts of signed ones, malformed and forged
ones; time counts half seconds, because a stamp drops the fraction. `parseHeader`
reads the parts from left to right with two values and an error: `PartError` is what
is wrong with a part given the parts `Before` it, and `ParseHeader` reports the first
part with an error, or else the only stamp and the signatures.

`Packages` composes the three and `RateLimiter` (`MCPackages` is its instance for TLC);
`focus` picks the one that moves, which covers all interleavings of packages that
share nothing.

## Runs

| run | what it shows |
|---|---|
| `jobs` | one `Run` with up to two workers, three jobs, any mix of `Pull`/`Handle` errors, timeouts and cancellation: `Run` has a cause to return (`ReturnHasCause`), which is the first recorded error (`FirstErrorStands`); no pulled job is lost or handled twice (`NoJobDropped`); after cancellation each worker obtains at most one more (`LateWorkBounded`); stops terminate, jobs time out, the queue drains (`StopTerminates`, `HandleEnds`, `QueueDrains`) |
| `jobs_two_runs` | *violation* of `HandleBound`, see below |
| `sse_hub` | three streams, two topics, two slots: `NoPanic`, `CapacityKept` (no more streams are served, evicted ones aside, than the capacity), `NothingLeaks` (a finished stream leaves no slot taken and no empty topic behind), `TopicIsolation`, and `ImplementsStream`, the refinement of `TopicStream`, where streams really are cut |
| `sse_evicted` | *violation* of `ClientsBounded`: an evicted handler that is still writing is not counted |
| `sse_stalled_write` | *violation* of `StreamEnds`: a write that stalls outlasts the stream's age |
| `scaffold` | three invocations, two at a time, one of them killed, any step failing, on an empty directory or a project with `modules.json`, with two modules that register in `routes.go`: through lost updates and temporary files taken away or moved by another invocation, `RoutesCompile` and `NeverClobbers`; for those that do not overlap `ManifestHonest` and `SuccessMeans` (a command that reports success has left what it was asked for, tidied, and vendored if it has to be) |
| `scaffold_retry` | *violation* of `AddInstallable` |
| `supervision` | both children, two requests, every way to end: `ExitCodeHonest`, `NoneLeftBehind`, `PagesAnswered`, `AnyEndStopsAll` |
| `supervised_shutdown` | *violation* of `DrainHonoured` |
| `access` | entitlements, sessions, webhooks and the limiter: `DecisionExact`, `AnswerOfAnInstant`, `VerifiedExactly`; with two callers, three keys and room for one or two, `KeysBounded`, `WindowBudget` (a budget per window, windows that do not overlap in real time), `CapacityHonest`, `WindowMovesForward` |
| `requests` | GET and HEAD, four middleware chains, handlers of up to four calls with final, informational and invalid statuses, every observer: `StatusReported` (a report differs from what the client got only where the recorder latched a status that is not final), `BodyReported`, `PanicAnswered`, `Answered` |
| `requests_recovery` | *violation* of `PanicRecovered`: `WriteHeader(42)` panics after it was latched |

Each module's `TypeOK` is checked with the first run that explores it fully
(`PackagesTypeOK` joins those of the four packages). Beyond types it says what the
labels imply, such as that no count exceeds the limit (`RateLimiter`) or that a
response is logged once (`RequestPipeline`).

## Bounds

* **JobRunner:** two workers are enough for every race of two failures and of a
  failure with a cancellation; three jobs let one be handled, one be held and one
  be queued when it happens. The configurations cover the accepted values, the
  defaults and one refusal per field. Each job is handed out once; pulling is
  otherwise unbounded, since an empty `Pull` and the idle wait may repeat for ever.
* **SSEHub:** `Conns` 3 with two slots makes requests compete for the last slot and
  replace evicted streams; two topics separate "the last of its topic" from "the
  last". `MaxEvents` 2 fills a slot and evicts. A cut that loses an event behind one
  in hand and one in the slot takes a third; that case is left to the theorem
  `StreamsAreInOrder`, which bounds no number of events.
* **RateLimiter:** `LimiterMaxClock` 5 is three windows of two ticks, so a window is
  opened, counted up, renewed, and decided upon by a call that read the clock up to
  five ticks ago. Policies: limit 2 and 2 keys; limit 1 and the default window and
  key bound; one refused policy per field.
* **Scaffold:** `jobs` (two files, no registration), `openapi` (two files and a
  registration) and `mail` (one file and a registration) are the kinds of module, and
  the last two let two invocations replace `routes.go`. Three invocations are enough
  for create, a killed step and its retry, for one step of a third beside two that
  overlap, and for an invocation that reads what the loser of a lost update left; two
  at a time, because the races are between one that has read and one that writes.
* **RequestPipeline:** four writer calls exceed every combination of first and
  later header, write, flush and hijack. Statuses: two that are no status (0, 42), one
  informational (103), one switching (101), one without a body (204), one with (404).
* **Supervision:** the deadlines are the code's: render 1 unit, worker and
  supervisor 2, server 3. Two requests let a page be rendered beside a stream that
  holds the server. Children exit with 0, 1 or 2, or are killed; any of them may
  be missing.
* **Entitlement:** quantities up to 3, so that three grants exceed the largest one
  and sums wrap; instants 0 (unset), 1 and 2, which meet each comparison from
  below, at equality and from above; one more grant than allowed is refused.
* **Session:** one call is enough, since calls only read the store; two tokens, so
  that the store can answer with another's row, and a malformed hash; three instants
  for insertion, revocation and expiry around the lookup.
* **Webhook:** two secrets, overlapping in one of six configurations, three of which
  `NewVerifier` refuses (too many secrets, a weak one, a negative age); two
  signatures and headers of up to three parts, so that parts of both are mixed,
  doubled and left out; two bodies around the size limits; half-second clocks on
  both ends of the window, and a stamp so far away that the difference saturates.

Symmetry is used only for runs that check safety, over connections, callers,
tokens and processes, which the specifications treat alike. Deadlock is checked
except in the runs where the program stops by design (all invocations used up; a
request done; every process gone; a decision made); `Finished` is the quiet end of
the job runner and the hub.

## Fairness

* **JobRunner** (`Fairness`): goroutines and timers run; `Pull` returns when its
  context is done or a job is available; `Handle` returns when its context is done.
  `jobs/jobs.go:38-39` demands the first of a `Puller` ("It must return ErrNoJob when
  no work is currently available and honor context cancellation"); for a
  `Handler` it is what the context and the job timeout are passed for. Nothing makes
  `Pull` return otherwise, a job succeed, or a caller cancel.
* **SSEHub** (`Fairness`): goroutines run, `sync.Mutex` serves a waiting goroutine
  (strong fairness of the critical sections: its starvation mode), the age timer
  fires, and the `select` does not pass over a context that is done for ever while
  heartbeats are 25 s apart. Nothing makes a write return: `serveTopic` clears the
  write deadline and looks at its context only between writes. `sse_stalled_write`
  alone uses this: a run that assumed writes to return would hide what it shows.
* **Supervision** (`Fairness`): processes run, signals arrive, timers fire. Nothing
  makes a client leave, a render end by itself, a child fail or a signal be sent:
  `AnyEndStopsAll` rests on the deadlines alone.

The other modules claim no liveness.

## Where the code and its documentation disagree

* **Two `Run` calls, one `Runner`** (`jobs_two_runs`). `jobs/jobs.go:52-53` says "A
  Runner never calls Handle concurrently more often than its configured worker
  count." Workers are counted per `Run` call and nothing prevents a second one.
* **Evicted clients are not counted** (`sse_evicted`). `realtime/sse.go:41` says
  "WithMaxClients limits simultaneous SSE clients." What is counted are registered
  channels; an evicted one leaves the count at once, while its handler keeps the
  connection until its write returns, and the next client is admitted beside it.
* **A stalled write outlives the stream's age** (`sse_stalled_write`).
  `realtime/sse.go:51` says "WithMaxStreamAge limits the lifetime of each SSE
  connection." The age is looked at between writes, and no deadline ends a write.
* **A failed `Add` blocks its retry** (`scaffold_retry`).
  `internal/scaffold/scaffold.go:253` says "Add installs modules in an existing
  Wahoo project." When a step after the first new file fails, that file
  stays and every later `Add` of the module reports "target already exists", though
  the metadata does not list the module. No crash is needed.
* **A latched status is not recovered from** (`requests_recovery`).
  `server/server.go:193` says "ServeHTTP applies request ID, recovery", and the
  repository's `README.md:22` lists panic recovery. The recorder latches the status of
  `WriteHeader(42)` before `net/http` panics on it, so the recovery takes the
  response for begun and sends no 500: the client receives an empty 200, the log says 42.
  An informational status latches it as well: after `WriteHeader(103)` neither the 500
  of a recovery nor a final status of the handler reaches the client, who receives 200
  while the log says 103.
* **The supervisor cuts the drain** (`supervised_shutdown`).
  `server/server.go:348` says "Run serves until SIGINT or SIGTERM, then drains
  connections." `Run` drains for `ShutdownTimeout`, 15 s by default; in a generated
  application `supervisor.mjs` kills it after 10 s.

Some things happen in the models and are left out of the properties, because
nothing in the repository clearly promises otherwise:

* An `ErrNoJob` that a handler returns ends the run like any other error.
  `jobs/jobs.go:118-119` can be read otherwise ("until ... a puller or handler returns
  an error other than ErrNoJob"); only `Pull`'s error is compared with it.
* Overlapping `Add`s lose each other's updates (`ManifestHonest` and `SuccessMeans` are
  about invocations that do not overlap), and a `.wahoo.tmp` left by a killed
  process makes later writes of that file fail. If an overlapping invocation moves a
  temporary file onto `routes.go` before its owner has written it, and the owner then
  fails or is killed, `routes.go` stays unfinished; `RoutesCompile` is about the list
  the file was being given.
* A `Write` to a HEAD request counts as bytes of the response, because `net/http` says
  it accepted them; `BodyReported` claims no number of bytes.
* An open event stream never becomes idle: every supervised stop with one ends in
  the forced exit, with code 1. A page in flight at a stop is answered, but perhaps
  with the 500 of a render that failed, because the worker is stopped together
  with the server. A signal before the supervisor has installed its handlers
  leaves the children running.
* A delivery repeated within the tolerance is accepted again; `webhook` keeps no
  record of deliveries.

## Proofs

Seven modules hold theorems. None bounds the number of workers, streams, callers,
keys, requests, modules, invocations, grants, headers or events; the assumptions are
those the component's module states on its constants:

* `LimitsAssumption`, `ConfigsAssumption`, `NoJobAssumption` (`JobRunner`),
  `HubAssumption`, `LimiterAssumption`, `EntitlementAssumption`,
  `SessionAssumption`, `PipelineAssumption`: the package's limits are ordered, the sets
  whose cardinality is bounded are finite, configurations have their types, "none"
  values lie outside the sets they complete.
* `SupervisionAssumption`: both deadlines are longer than a render.
* `ScaffoldAssumption`: the modules are the source's, and a project of an older version
  registers exactly the modules it lists that have routes, each once; "none" is not the
  name of an invocation.
* `WebhookAssumption`: the placeholders for a weak secret and a forged signature are no
  secrets, and the largest `time.Duration` exceeds the largest tolerance, which is
  what makes the saturated difference of two times harmless.

Each proof has the same shape: an inductive invariant (`IInv` in most modules), a
lemma that it holds initially, a lemma per action or group of actions that it is
preserved, and the theorems from it.

**JobRunnerProofs**: `TypeCorrect`, `RunReportsACause` (`ReturnHasCause`),
`PulledJobsAreHandled` (`NoJobDropped`), `FirstErrorIsReported`
(`FirstErrorStands`), `LateWorkIsBounded` (`LateWorkBounded`). `ReturnHasCause` is
not inductive: that a returning `Run` finds an error or a cancelled caller needs to
know why its workers left. `IInv` adds that a cancelled derived context has a cause
(`CallInv`), that a worker exits only after a stop or a recorded error, and is active
only while its call runs (`WorkerInv`), that the `Once` and `runErr` agree, and where
each job is, with one holder at most (`InHand`, `JobInv`). `LateWorkBounded` needs
a count, `LateInv`: the jobs obtained after cancellation and the workers past their
check of the context are together at most the configured workers, since a stopped run
lets no worker past that check again.

**SSEHubProofs**: `TypeCorrect`, `NeverPanics` (`NoPanic`), `CapacityHolds`
(`CapacityKept`), `StreamsLeaveNothing` (`NothingLeaks`), `TopicsAreIsolated`
(`TopicIsolation`), `StreamsAreInOrder` (`ImplementsStream`). That no channel is
closed twice rests on membership deciding who closes: registered channels are open
(`ChannelInv`), the publisher's remaining channels are registered, because nobody else
can remove one while it has the mutex (`PublisherInv`), and a topic with clients has
its map (`EntriesInv`, without which `clientCount` would miss some). The capacity needs `OpenInv`
beside the count of registered channels (`RegisteredBound`): a handler whose channel is
still open is registered, so that the handlers that were not evicted are among those
that `Register` counted. Isolation needs
`IsolationInv`: what the publisher carries is in the log of the topic it walks.
`StreamsAreInOrder` is the refinement, by `IInv` and `OrderInv`: under `Phase` and
`Owed` every step of the hub is a step of `TopicStream` or leaves what it sees
unchanged. Most of the hub's steps move an event between the publisher, the slot and
the hand and leave `Owed` as it was; `Evict` is `TopicStream`'s cut.

**RateLimiterProofs**: `LimiterTypeCorrect`, `MapIsBounded` (`KeysBounded`), `BudgetIsKept`
(`WindowBudget`), `RefusalIsHonest` (`CapacityHonest`), `WindowsMoveForward`
(`WindowMovesForward`). The budget speaks of windows the map has forgotten, so
`LastInv` ties the history to the map: for a key in the map the two agree; for one
that is not, its last window is over on the real clock. Eviction keeps this
because a call's time is never ahead of the clock (`CallInv`), so what is
expired for a stale call is expired.

**SupervisionProofs**: `TypeCorrect`, `ExitCodeIsHonest` (`ExitCodeHonest`),
`ChildrenAreStopped` (`NoneLeftBehind`), `PagesAreAnswered` (`PagesAnswered`). The
theorems hold for all deadlines of server and supervisor that are longer than a
render, and for no relation between the two. `SupInv` ties the stop's code to the
first cause, `ToldInv` says that a supervisor that stops has told each child that
has not heard of it yet. `TimeInv` is why no page request is lost: no
deadline that runs is shorter than what remains of any render, and the
supervisor's is whole until both children know of the stop.

**RequestPipelineProofs**: `TypeCorrect`, `StatusIsReported` (`StatusReported`),
`BodyIsReported` (`BodyReported`), `PanicIsAnswered` (`PanicAnswered`) and
`EveryRequestIsAnswered` (`Answered`), for any chain of middleware, any calls of the
writer and any integers as statuses. The recorder and `net/http`'s response are
looked at together as one `Writer`, and a lemma per method says what it preserves:
as long as the recorder has latched nothing, neither has `net/http`; a final status
it has latched is the client's; one that is not final leaves the client with nothing
yet, or with 200. `IInv` then follows the request from label to label. That the
weaker statement is the right one is shown by `requests_recovery`, where the stronger
one of the documentation fails.

**ScaffoldProofs**: `TypeCorrect`, `ApplicationFilesAreSafe` (`NeverClobbers`),
`ApplicationCompiles` (`RoutesCompile`), `MetadataIsHonest` (`ManifestHonest`),
`SuccessIsTrue` (`SuccessMeans`), for any number of invocations and kills. Types alone
need `LoopInv`: an `Add` inside its loop has a module still to write. Two arguments
follow.

* Whatever overlaps: `FillInv` says that an application file being written was created
  by the invocation that writes it, which is `writeNewFile`'s `O_EXCL`. `RouteInv` says
  that the route list compiles in every place it has a copy: on disk, in a temporary
  file, and in the memory of every invocation, where `LoopOK` adds that the modules
  still to be written are registered nowhere and that the files of the next one are
  complete or still planned. The lost update of two `Add`s is thus a loss of
  registrations, never a registration without its files. Whose temporary file a rename
  moves, and whether its owner had written it, does not matter: every copy compiles.
* Without overlap: `SoloInv` consists of `DiskOK` (what a directory that is a project
  has) and `SessionOK`, which says for each command (`CreateOK`, `AddOK`, `UpgradeOK`,
  `GoOK`) how far it has come and what is on disk by then. The order in which `Add`
  writes, files, then routes, then metadata, is what makes it inductive for a process
  killed anywhere. `TmpOK` says that the temporary file is still this invocation's own.

`SuccessMeans` also uses `AsksInv`: an upgrade asks for no module.

**PackageProofs** covers `Entitlement`, `Session` and `Webhook`, each as a
specification of its own, and their composition with `RateLimiter`.

* `DecisionIsExact` (`DecisionExact`), for any largest quantity and any number of
  grants. `Capped` says that the loop's quantity is the smaller of the exact sum and
  the requirement, so that the subtraction and the addition never wrap
  (`AddIsCapped`); `FlagsTrue` that the flags are the kinds seen; `BranchIsKind`
  that the loop's conditions are the documented ones.
* `SessionTypeCorrect` and `AnswersAreOfAnInstant` (`AnswerOfAnInstant`), for any
  number of calls, tokens and instants. `CallOK` states, before the lookup, that the
  answer the row would get now with the time that was read is that of an instant
  already passed, and keeps it true when the row changes; it needs that rows are filed
  under their own hash and not revoked in the future (`RowsFiled`).
* `DeliveriesAreVerified` (`VerifiedExactly`), for every header, clock and rotation of
  secrets. In one direction, an accepted signature was made over this body with one of
  the verifier's secrets and the parsed stamp (`AcceptedIsSigned`); in the other, a
  header that was signed parses and is accepted (`SignedHeaderParses`,
  `SignedIsAccepted`); `FreshExact` says that the comparison of saturated durations is
  the one of the exact difference, on both sides of the window.
* `PackagesAreTyped` (`PackagesTypeOK`): the composition implements each of the four
  specifications (`PackagesSpecs`), so that their theorems hold in it.

## What is only model-checked

* Liveness (`StopTerminates`, `HandleEnds`, `QueueDrains`,
  `AnyEndStopsAll`): TLAPS does not reason about `ENABLED`, on which fairness rests.
* That the six properties of the violation runs are violated, by their
  counterexamples.

Every other property that a run checks is also a theorem. Facts that need induction
over data are out of the provers' reach, because the library's induction theorems
take an operator as a parameter. Two places would have needed one, `parseHeader`'s loop
over the parts of a header and `Add`'s loop over modules: the first is stated by
what is found before each part, the second takes one module at a time, as the code
does. Neither loses a behaviour of the code.

## What is not modelled

* Text: event formatting, header values, topic and key syntax, file contents the
  generator does not read back, module names, log lines, request identifiers.
  Each such validation is one failing outcome of its operation.
* In `Scaffold`: the checks for symbolic links, and the command's choice among
  several `go` commands.
* In `RequestPipeline`: a handler that reaches past the recorder with `Unwrap` or
  `http.ResponseController`, `net/http` over HTTP/2, and framing (a body shorter than
  its Content-Length, trailers). `net/http` is external: its rules are those of
  its HTTP/1 server.
* In `Supervision`: a caller's own context for `Run` (`main` passes Background), and
  the development server, which has no supervisor.
* In `Session`: clocks of different machines; one clock stamps and compares.
* HMAC and SHA-256 are injective functions.
* Components with no state or order of their own; `PROJECT.json` gives the reason
  for each.

## Plan

Done: `JobRunner`, `SSEHub` with `TopicStream`, `RateLimiter`, `Scaffold` with the
command line, `RequestPipeline`, `Supervision` with the server's lifecycle,
`Entitlement`, `Session` and `Webhook`, composed in `Packages` with the limiter; proofs of every
invariant and action property that a passing run checks, and of the refinement.
Next, in this order:

1. What holds of overlapping invocations of the scaffold beyond `RoutesCompile` and
   `NeverClobbers`: which part of `ManifestHonest` survives a lost update.
2. An abstract limiter (a budget per window, windows apart in real time) that
   `RateLimiter` implements, in place of the two properties that say it piecewise.
3. Of the unmodelled packages, `storage` and `api.DecodeJSON` have the most
   branches; they become modules if they gain state.

## Running it

In this directory:

    tlc -workers 2 -config MCSSEHub.cfg MCSSEHub
    tlapm SSEHubProofs.tla

The runs take a second to half a minute each, except `access` and `scaffold` (about a
minute and a half); each proof module takes at most a few minutes,
`ScaffoldProofs` the longest (about three). A violation run is expected to end in a
counterexample.
