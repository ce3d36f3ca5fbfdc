----------------------------- MODULE JobRunner -----------------------------
(***************************************************************************)
(* The pull-based job runner of jobs/jobs.go.  A Runner owns no queue: each *)
(* worker goroutine of a Run call loops over "check the context, Pull, then *)
(* Handle".  The first failing worker records its error and cancels the    *)
(* context that all workers of the call share; Run waits for every worker  *)
(* and reports the recorded error or the caller's cancellation.            *)
(*                                                                         *)
(* Several Run calls may share one Runner and one Puller.  The Puller and   *)
(* the Handler are supplied by the application; they are modelled by the   *)
(* contract that the code documents for them.  A step of this module is    *)
(* one atomic step of a goroutine; context cancellation reaches the shared *)
(* context in a step of its own.                                           *)
(***************************************************************************)
EXTENDS Integers, FiniteSets

CONSTANTS
    Runs,               \* calls of Run on the one Runner
    Jobs,               \* the jobs the Puller can hand out, each once
    NoJob,              \* what a worker holds when it holds no job
    Configs,            \* the configurations passed to New
    DefaultWorkers, MaxWorkers,
    DefaultIdleDelay,
    DefaultJobTimeout, MinJobTimeout, MaxJobTimeout

Durations == Int

RunnerValues == [workers : Int, idleDelay : Durations, jobTimeout : Durations,
                 deps : BOOLEAN]    \* deps: both interfaces are non-nil

ASSUME LimitsAssumption ==
    /\ MaxWorkers \in Nat
    /\ DefaultWorkers \in 1..MaxWorkers
    /\ DefaultIdleDelay \in Nat
    /\ MinJobTimeout \in Nat
    /\ MaxJobTimeout \in Nat
    /\ DefaultJobTimeout \in MinJobTimeout..MaxJobTimeout

ASSUME ConfigsAssumption == Configs \subseteq RunnerValues

ASSUME NoJobAssumption == NoJob \notin Jobs

VARIABLES
    runner,     \* the Runner that New returned
    caller,     \* [Runs -> "nil", "live", "cancelled"]: the ctx given to Run
    call,       \* [Runs -> "idle", "running", "returned"]
    runCtx,     \* [Runs -> "live", "cancelled"]: the derived context
    once,       \* [Runs -> "ready", "running", "done"]: sync.Once failed
    runErr,     \* [Runs -> error]: the variable the workers share
    result,     \* [Runs -> error]: what Run returned
    pc,         \* [Runs -> [Slots -> label]]: the worker goroutines
    err,        \* [Runs -> [Slots -> origin of the error in hand]]
    expired,    \* [Runs -> [Slots -> BOOLEAN]]: the job timeout fired
    held,       \* [Runs -> [Slots -> Jobs or NoJob]]
    pending,    \* jobs that are not offered to the Puller yet
    queue,      \* the Puller's jobs that nobody pulled yet
    handled,    \* jobs whose Handle call returned
    late        \* history: [Runs -> jobs pulled after runCtx was cancelled]

callVars   == <<runner, caller, call, result>>
failVars   == <<runCtx, once, runErr>>
workVars   == <<err, expired, held, pending, queue, handled, late>>
vars       == <<callVars, failVars, pc, workVars>>

Slots  == 1..MaxWorkers
Labels == {"none", "top", "pull", "wait", "handle", "check", "fail", "cancel",
           "exit"}
Origins == {"none", "pull", "handle", "handleNoJob"}

NoErr      == <<"none", 0>>     \* a nil error
CtxErr     == <<"ctx", 0>>      \* ctx.Err() of the caller's context
NilCtxErr  == <<"nilctx", 0>>
InvalidErr == <<"invalid", 0>>
WorkerErrs == (Origins \ {"none"}) \X Slots
Errors     == {NoErr, CtxErr, NilCtxErr, InvalidErr} \cup WorkerErrs

NilRunner == [workers |-> 0, idleDelay |-> 0, jobTimeout |-> 0, deps |-> FALSE]

-----------------------------------------------------------------------------
(* New: defaults replace zero fields, then the bounds are checked.  New      *)
(* returns a nil *Runner with its error, and Run treats it like the zero     *)
(* Runner.                                                                   *)

OrDefault(v, d) == IF v = 0 THEN d ELSE v

Resolved(c) == [workers    |-> OrDefault(c.workers, DefaultWorkers),
                idleDelay  |-> OrDefault(c.idleDelay, DefaultIdleDelay),
                jobTimeout |-> OrDefault(c.jobTimeout, DefaultJobTimeout),
                deps       |-> c.deps]

WithinLimits(r) ==
    /\ r.deps
    /\ r.workers \in 1..MaxWorkers
    /\ r.idleDelay >= 0
    /\ r.jobTimeout \in MinJobTimeout..MaxJobTimeout

New(c) == IF WithinLimits(Resolved(c)) THEN Resolved(c) ELSE NilRunner

(* Run's own guard repeats New's bounds on the stored fields.                *)
Usable(r) == WithinLimits(r)

-----------------------------------------------------------------------------
Stopped(r) == runCtx[r] = "cancelled"

(* The job context ends with the run context or with the job timeout.        *)
JobDone(r, w) == Stopped(r) \/ expired[r][w]

Goto(r, w, l) == pc' = [pc EXCEPT ![r][w] = l]

(* The worker owns job j from the moment Pull returned it.                   *)
TakeJob(r, w, j) ==
    /\ held' = [held EXCEPT ![r][w] = j]
    /\ queue' = queue \ {j}
    /\ late' = [late EXCEPT ![r] = IF Stopped(r) THEN @ \cup {j} ELSE @]

-----------------------------------------------------------------------------
(* Variants of the actions below, each with one slip a maintainer could make; *)
(* they are not part of the specification.                                   *)

LoopTopUnchecked(r, w) ==
    /\ pc[r][w] = "top"
    /\ Goto(r, w, "pull")
    /\ UNCHANGED <<callVars, failVars, workVars>>

PullJobRechecked(r, w) ==
    /\ pc[r][w] = "pull"
    /\ \E j \in queue : TakeJob(r, w, j)
    /\ Goto(r, w, IF Stopped(r) THEN "exit" ELSE "handle")
    /\ UNCHANGED <<callVars, failVars, err, expired, pending, handled>>

JobTimeoutNever(r, w) == FALSE /\ UNCHANGED vars

FailCancelForgotten(r, w) ==
    /\ pc[r][w] = "cancel"
    /\ once' = [once EXCEPT ![r] = "done"]
    /\ Goto(r, w, "exit")
    /\ UNCHANGED <<callVars, runCtx, runErr, workVars>>

FailLaterOverwrites(r, w) ==
    /\ pc[r][w] = "fail"
    /\ once[r] = "done"
    /\ runErr' = [runErr EXCEPT ![r] = <<err[r][w], w>>]
    /\ Goto(r, w, "exit")
    /\ UNCHANGED <<callVars, runCtx, once, workVars>>

WaitTimerNever(r, w) == FALSE /\ UNCHANGED vars

PullErrorUnset(r, w) ==
    /\ pc[r][w] = "pull"
    /\ Goto(r, w, "check")
    /\ UNCHANGED <<callVars, failVars, workVars>>

OutcomeOfCaller(r) == IF caller[r] = "cancelled" THEN CtxErr ELSE NoErr

-----------------------------------------------------------------------------
Init ==
    /\ \E c \in Configs : runner = New(c)
    /\ caller \in [Runs -> {"nil", "live"}]
    /\ call    = [r \in Runs |-> "idle"]
    /\ runCtx  = [r \in Runs |-> "live"]
    /\ once    = [r \in Runs |-> "ready"]
    /\ runErr  = [r \in Runs |-> NoErr]
    /\ result  = [r \in Runs |-> NoErr]
    /\ pc      = [r \in Runs |-> [w \in Slots |-> "none"]]
    /\ err     = [r \in Runs |-> [w \in Slots |-> "none"]]
    /\ expired = [r \in Runs |-> [w \in Slots |-> FALSE]]
    /\ held    = [r \in Runs |-> [w \in Slots |-> NoJob]]
    /\ pending = Jobs
    /\ queue   = {}
    /\ handled = {}
    /\ late    = [r \in Runs |-> {}]

(* The guards of Run: a nil context first, then the runner's fields.         *)
RejectRun(r) ==
    /\ call[r] = "idle"
    /\ \/ /\ caller[r] = "nil"
          /\ result' = [result EXCEPT ![r] = NilCtxErr]
       \/ /\ caller[r] # "nil"
          /\ ~Usable(runner)
          /\ result' = [result EXCEPT ![r] = InvalidErr]
    /\ call' = [call EXCEPT ![r] = "returned"]
    /\ UNCHANGED <<runner, caller, failVars, pc, workVars>>

(* context.WithCancel on an already cancelled parent is cancelled at once;   *)
(* then one goroutine per configured worker starts.                          *)
StartRun(r) ==
    /\ call[r] = "idle"
    /\ caller[r] # "nil"
    /\ Usable(runner)
    /\ call' = [call EXCEPT ![r] = "running"]
    /\ runCtx' = [runCtx EXCEPT ![r] = caller[r]]
    /\ pc' = [pc EXCEPT ![r] = [w \in Slots |->
                  IF w <= runner.workers THEN "top" ELSE "none"]]
    /\ UNCHANGED <<runner, caller, result, once, runErr, workVars>>

(* A producer offers a job to the Puller's store.                            *)
Offer ==
    /\ \E j \in pending : pending' = pending \ {j} /\ queue' = queue \cup {j}
    /\ UNCHANGED <<callVars, failVars, pc, err, expired, held, handled, late>>

(* The caller cancels its context, or the context's deadline passes.         *)
CancelCaller(r) ==
    /\ caller[r] = "live"
    /\ caller' = [caller EXCEPT ![r] = "cancelled"]
    /\ UNCHANGED <<runner, call, result, failVars, pc, workVars>>

(* The cancellation reaches the derived context.                             *)
Propagate(r) ==
    /\ call[r] = "running"
    /\ caller[r] = "cancelled"
    /\ runCtx[r] = "live"
    /\ runCtx' = [runCtx EXCEPT ![r] = "cancelled"]
    /\ UNCHANGED <<callVars, once, runErr, pc, workVars>>

-----------------------------------------------------------------------------
(* The worker loop.                                                          *)

(* The check at the top of the loop, and the call of Pull.                   *)
LoopTop(r, w) ==
    /\ pc[r][w] = "top"
    /\ Goto(r, w, IF Stopped(r) THEN "exit" ELSE "pull")
    /\ UNCHANGED <<callVars, failVars, workVars>>

(* Pull returns a job, also when the context was cancelled meanwhile; the    *)
(* worker derives the job context and calls Handle without another check.    *)
PullJob(r, w) ==
    /\ pc[r][w] = "pull"
    /\ \E j \in queue : TakeJob(r, w, j)
    /\ Goto(r, w, "handle")
    /\ UNCHANGED <<callVars, failVars, err, expired, pending, handled>>

(* Pull returns ErrNoJob: the contract asks for it when no work is available. *)
PullNoJob(r, w) ==
    /\ pc[r][w] = "pull"
    /\ queue = {}
    /\ Goto(r, w, "wait")
    /\ UNCHANGED <<callVars, failVars, workVars>>

PullError(r, w) ==
    /\ pc[r][w] = "pull"
    /\ err' = [err EXCEPT ![r][w] = "pull"]
    /\ Goto(r, w, "check")
    /\ UNCHANGED <<callVars, failVars, expired, held, pending, queue,
                   handled, late>>

WaitTimer(r, w) ==
    /\ pc[r][w] = "wait"
    /\ Goto(r, w, "top")
    /\ UNCHANGED <<callVars, failVars, workVars>>

WaitDone(r, w) ==
    /\ pc[r][w] = "wait"
    /\ Stopped(r)
    /\ Goto(r, w, "exit")
    /\ UNCHANGED <<callVars, failVars, workVars>>

JobTimeout(r, w) ==
    /\ pc[r][w] = "handle"
    /\ ~expired[r][w]
    /\ expired' = [expired EXCEPT ![r][w] = TRUE]
    /\ UNCHANGED <<callVars, failVars, pc, err, held, pending, queue, handled,
                   late>>

(* Handle returns and cancelJob releases the job's timer.  An ErrNoJob from   *)
(* Handle is an error like any other.                                        *)
HandleReturns(r, w) ==
    /\ pc[r][w] = "handle"
    /\ held' = [held EXCEPT ![r][w] = NoJob]
    /\ handled' = handled \cup {held[r][w]}
    /\ expired' = [expired EXCEPT ![r][w] = FALSE]
    /\ \/ /\ Goto(r, w, "top")
          /\ UNCHANGED err
       \/ /\ Goto(r, w, "check")
          /\ \E e \in {"handle", "handleNoJob"} :
                err' = [err EXCEPT ![r][w] = e]
    /\ UNCHANGED <<callVars, failVars, pending, queue, late>>

(* An error seen after the run stopped is the cancellation's own echo.       *)
CheckError(r, w) ==
    /\ pc[r][w] = "check"
    /\ Goto(r, w, IF Stopped(r) THEN "exit" ELSE "fail")
    /\ UNCHANGED <<callVars, failVars, workVars>>

(* failed.Do: the first caller runs the function in two steps, ...           *)
FailFirst(r, w) ==
    /\ pc[r][w] = "fail"
    /\ once[r] = "ready"
    /\ once' = [once EXCEPT ![r] = "running"]
    /\ runErr' = [runErr EXCEPT ![r] = <<err[r][w], w>>]
    /\ Goto(r, w, "cancel")
    /\ UNCHANGED <<callVars, runCtx, workVars>>

FailCancel(r, w) ==
    /\ pc[r][w] = "cancel"
    /\ runCtx' = [runCtx EXCEPT ![r] = "cancelled"]
    /\ once' = [once EXCEPT ![r] = "done"]
    /\ Goto(r, w, "exit")
    /\ UNCHANGED <<callVars, runErr, workVars>>

(* ... later callers wait for it to be done and run nothing.                 *)
FailLater(r, w) ==
    /\ pc[r][w] = "fail"
    /\ once[r] = "done"
    /\ Goto(r, w, "exit")
    /\ UNCHANGED <<callVars, failVars, workVars>>

WorkersDone(r) == \A w \in Slots : pc[r][w] \in {"none", "exit"}

Outcome(r) == IF runErr[r] # NoErr THEN runErr[r]
              ELSE IF caller[r] = "cancelled" THEN CtxErr ELSE NoErr

(* workers.Wait returns; the deferred cancel runs as Run returns.            *)
ReturnRun(r) ==
    /\ call[r] = "running"
    /\ WorkersDone(r)
    /\ result' = [result EXCEPT ![r] = Outcome(r)]
    /\ call' = [call EXCEPT ![r] = "returned"]
    /\ runCtx' = [runCtx EXCEPT ![r] = "cancelled"]
    /\ UNCHANGED <<runner, caller, once, runErr, pc, workVars>>

Worker(r, w) ==
    \/ LoopTop(r, w)
    \/ PullJob(r, w) \/ PullNoJob(r, w) \/ PullError(r, w)
    \/ WaitTimer(r, w) \/ WaitDone(r, w)
    \/ JobTimeout(r, w) \/ HandleReturns(r, w)
    \/ CheckError(r, w)
    \/ FailFirst(r, w) \/ FailCancel(r, w) \/ FailLater(r, w)

(* Every Run call has returned: nothing is left to do.                       *)
Finished ==
    /\ \A r \in Runs : call[r] = "returned"
    /\ UNCHANGED vars

Next ==
    \/ \E r \in Runs :
          \/ RejectRun(r) \/ StartRun(r)
          \/ CancelCaller(r) \/ Propagate(r)
          \/ ReturnRun(r)
          \/ \E w \in Slots : Worker(r, w)
    \/ Offer
    \/ Finished

(* The Go scheduler runs every runnable goroutine and fires every timer.  A  *)
(* Pull call returns when work is available or its context ends, a Handle    *)
(* call returns when its job context ends: that is their contract, and       *)
(* neither is assumed to return otherwise.                                   *)
Fairness ==
    \A r \in Runs :
        /\ WF_vars(RejectRun(r)) /\ WF_vars(StartRun(r))
        /\ WF_vars(Propagate(r)) /\ WF_vars(ReturnRun(r))
        /\ \A w \in Slots :
              /\ WF_vars(LoopTop(r, w))
              /\ WF_vars(PullJob(r, w))
              /\ WF_vars(Stopped(r) /\ PullError(r, w))
              /\ WF_vars(WaitTimer(r, w)) /\ WF_vars(WaitDone(r, w))
              /\ WF_vars(JobTimeout(r, w))
              /\ WF_vars(JobDone(r, w) /\ HandleReturns(r, w))
              /\ WF_vars(CheckError(r, w))
              /\ WF_vars(FailFirst(r, w)) /\ WF_vars(FailCancel(r, w))
              /\ WF_vars(FailLater(r, w))

Spec == Init /\ [][Next]_vars

LiveSpec == Spec /\ Fairness

-----------------------------------------------------------------------------
(* Properties                                                                *)

TypeOK ==
    /\ runner \in RunnerValues
    /\ caller \in [Runs -> {"nil", "live", "cancelled"}]
    /\ call \in [Runs -> {"idle", "running", "returned"}]
    /\ runCtx \in [Runs -> {"live", "cancelled"}]
    /\ once \in [Runs -> {"ready", "running", "done"}]
    /\ runErr \in [Runs -> {NoErr} \cup WorkerErrs]
    /\ result \in [Runs -> Errors]
    /\ pc \in [Runs -> [Slots -> Labels]]
    /\ err \in [Runs -> [Slots -> Origins]]
    /\ expired \in [Runs -> [Slots -> BOOLEAN]]
    /\ held \in [Runs -> [Slots -> Jobs \cup {NoJob}]]
    /\ pending \in SUBSET Jobs
    /\ queue \in SUBSET Jobs
    /\ handled \in SUBSET Jobs
    /\ late \in [Runs -> SUBSET Jobs]

(* Run never returns nil: it reports a worker's error, or the caller's       *)
(* cancellation when no worker failed, or why it refused to start.  The      *)
(* shared runErr and the two contexts are read after the workers are gone    *)
(* (jobs.go:179-183).                                                        *)
ReturnHasCause ==
    \A r \in Runs : call[r] = "returned" => result[r] # NoErr

(* A job that left the Puller is in exactly one worker's Handle call of a    *)
(* Run that has not returned, or its Handle call is over: no cancellation,   *)
(* failure or return of Run between Pull and Handle loses it, and no two     *)
(* workers handle it.                                                        *)
NoJobDropped ==
    \A j \in Jobs \ (pending \cup queue \cup handled) :
        \E r \in Runs : \E w \in Slots :
            /\ held[r][w] = j
            /\ pc[r][w] = "handle"
            /\ call[r] = "running"
            /\ \A q \in Runs : \A v \in Slots :
                   held[q][v] = j => q = r /\ v = w

(* Once a run's context is cancelled its workers together obtain at most as  *)
(* many more jobs as they are: the Pull call each is in may still succeed,   *)
(* the loop's check stops the next one (jobs.go:148-153).                    *)
LateWorkBounded ==
    \A r \in Runs : Cardinality(late[r]) <= runner.workers

(* The first recorded error stands: whatever later workers report, and in    *)
(* whatever order they reach failed.Do, runErr is not replaced, and a run    *)
(* whose error is recorded returns that error.                               *)
FirstErrorStands ==
    [][\A r \in Runs : runErr[r] # NoErr =>
          /\ runErr'[r] = runErr[r]
          /\ call'[r] = "returned" => result'[r] = runErr[r]]_vars

(* A caller that cancels, or a worker that fails, ends the Run call: every   *)
(* worker leaves its Pull, idle wait or Handle and Run returns.              *)
StopTerminates ==
    \A r \in Runs :
        (call[r] = "running" /\ (caller[r] = "cancelled" \/ runErr[r] # NoErr))
            ~> call[r] = "returned"

(* A Handle call that honours its context cannot keep its worker for ever,   *)
(* also when nobody cancels: the job timeout ends it.                        *)
HandleEnds ==
    \A r \in Runs : \A w \in Slots :
        pc[r][w] = "handle" ~> pc[r][w] # "handle"

(* A job offered to a running Runner is pulled, or Run returns: no worker    *)
(* stays in its idle wait, or keeps a finished job, while work is available. *)
QueueDrains ==
    \A r \in Runs : \A j \in Jobs :
        (j \in queue /\ call[r] = "running")
            ~> (j \notin queue \/ call[r] = "returned")

(* jobs.go:52-53 "A Runner never calls Handle concurrently more often than   *)
(* its configured worker count."  The count is per Run call, so this fails   *)
(* when two Run calls share the Runner.                                      *)
HandleBound ==
    Cardinality({rw \in Runs \X Slots : pc[rw[1]][rw[2]] = "handle"})
        <= runner.workers
=============================================================================
