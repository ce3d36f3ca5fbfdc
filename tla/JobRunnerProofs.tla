-------------------------- MODULE JobRunnerProofs --------------------------
(***************************************************************************)
(* Proofs about JobRunner, for every set of Run calls and jobs and every   *)
(* limit.  TypeOK, ReturnHasCause and NoJobDropped are not inductive; the  *)
(* conjuncts below are what a worker's label says about the data it holds, *)
(* about its run's context and about the once that guards runErr.          *)
(***************************************************************************)
EXTENDS JobRunner, FiniteSetTheorems, TLAPS

Active == Labels \ {"none", "exit"}

(* A worker that is about to report has an error in hand, and one that is    *)
(* inside Handle has a job.                                                  *)
InHand ==
    \A r \in Runs : \A w \in Slots :
        /\ pc[r][w] \in {"check", "fail"} => err[r][w] # "none"
        /\ pc[r][w] = "handle" <=> held[r][w] # NoJob

(* What may be read off once, the shared error and the derived context.      *)
CallInv ==
    \A r \in Runs :
        /\ call[r] = "idle" => runErr[r] = NoErr /\ once[r] = "ready"
        /\ call[r] = "running" => caller[r] # "nil" /\ pc[r][1] # "none"
        /\ once[r] = "ready" <=> runErr[r] = NoErr
        /\ (call[r] = "running" /\ Stopped(r))
              => caller[r] = "cancelled" \/ runErr[r] # NoErr
        /\ (call[r] = "returned" /\ runErr[r] # NoErr)
              => result[r] = runErr[r]
        /\ call[r] = "returned" => result[r] # NoErr

WorkerInv ==
    \A r \in Runs : \A w \in Slots :
        /\ pc[r][w] \in Active => call[r] = "running"
        /\ pc[r][w] = "cancel" => runErr[r] # NoErr
        /\ (call[r] = "running" /\ pc[r][w] = "exit")
              => Stopped(r) \/ runErr[r] # NoErr

(* Where each job is.                                                        *)
JobInv ==
    /\ pending \cap queue = {}
    /\ pending \cap handled = {}
    /\ queue \cap handled = {}
    /\ \A r, q \in Runs : \A w, v \in Slots :
          (held[r][w] # NoJob /\ held[r][w] = held[q][v]) => r = q /\ w = v
    /\ \A r \in Runs : \A w \in Slots :
          held[r][w] \notin pending \cup queue \cup handled
    /\ \A j \in Jobs \ (pending \cup queue \cup handled) :
          \E r \in Runs : \E w \in Slots : held[r][w] = j

IInv == TypeOK /\ InHand /\ CallInv /\ WorkerInv /\ JobInv

-----------------------------------------------------------------------------
(* New returns the zero Runner or one that Run's own guard accepts.          *)
LEMMA NewIsUsable ==
    ASSUME NEW c \in Configs
    PROVE  /\ New(c) \in RunnerValues
           /\ New(c) = NilRunner \/ Usable(New(c))
  <1>1. c \in RunnerValues
    BY ConfigsAssumption
  <1>2. Resolved(c) \in RunnerValues
    BY <1>1, LimitsAssumption DEF RunnerValues, Resolved, OrDefault, Durations
  <1>3. NilRunner \in RunnerValues
    BY DEF RunnerValues, NilRunner, Durations
  <1> QED
    BY <1>2, <1>3 DEF New, Usable

(* MaxWorkers is positive, so there is a first worker.                       *)
LEMMA OneIsASlot == 1 \in Slots
  BY LimitsAssumption DEF Slots

(* The errors Run builds itself are not nil.                                 *)
LEMMA ErrorsDistinct ==
    CtxErr # NoErr /\ NilCtxErr # NoErr /\ InvalidErr # NoErr
  BY DEF CtxErr, NilCtxErr, InvalidErr, NoErr

(* A worker's error is not the nil error.                                    *)
LEMMA WorkerErrNotNil ==
    ASSUME NEW o \in Origins, NEW w \in Slots, o # "none"
    PROVE  <<o, w>> \in WorkerErrs /\ <<o, w>> # NoErr
  BY DEF Origins, WorkerErrs, NoErr

(* The invariant holds before any Run call starts.                           *)
LEMMA InitIInv == Init => IInv
  <1> SUFFICES ASSUME Init PROVE IInv
    OBVIOUS
  <1>1. TypeOK
    BY NewIsUsable DEF Init, TypeOK, Errors, Labels, Origins
  <1>2. InHand
    BY DEF Init, InHand
  <1>3. CallInv
    BY DEF Init, CallInv
  <1>4. WorkerInv
    BY DEF Init, WorkerInv, Active
  <1>5. JobInv
    BY NoJobAssumption DEF Init, JobInv
  <1> QED
    BY <1>1, <1>2, <1>3, <1>4, <1>5 DEF IInv

(* Run refuses a nil context or an unusable Runner.                          *)
LEMMA RejectRunStep ==
    ASSUME IInv, NEW r \in Runs, RejectRun(r)
    PROVE  IInv'
  <1> USE DEF RejectRun, callVars, failVars, workVars
  <1>1. TypeOK'
    BY DEF IInv, TypeOK, InHand, Errors, Labels, Origins, Stopped
  <1>2. InHand'
    BY DEF IInv, TypeOK, InHand, Labels, Stopped
  <1>3. CallInv'
    <2> USE ErrorsDistinct DEF IInv, TypeOK, CallInv, WorkerInv, Active, Labels,
            Stopped
    <2>1. CASE caller[r] = "nil" /\ result' = [result EXCEPT ![r] = NilCtxErr]
      BY <2>1
    <2>2. CASE result' = [result EXCEPT ![r] = InvalidErr]
      BY <2>2
    <2> QED
      BY <2>1, <2>2
  <1>4. WorkerInv'
    BY DEF IInv, TypeOK, CallInv, WorkerInv, Active, Labels, Stopped
  <1>5. JobInv'
    BY NoJobAssumption DEF IInv, TypeOK, JobInv, InHand
  <1> QED
    BY <1>1, <1>2, <1>3, <1>4, <1>5 DEF IInv

(* Run derives its context and starts the workers.                           *)
LEMMA StartRunStep ==
    ASSUME IInv, NEW r \in Runs, StartRun(r)
    PROVE  IInv'
  <1> USE DEF StartRun, callVars, failVars, workVars, WithinLimits, Usable
  <1>1. TypeOK'
    BY DEF IInv, TypeOK, InHand, Errors, Labels, Origins, Stopped
  <1>2. InHand'
    BY ZenonT(60), LimitsAssumption
    DEF IInv, TypeOK, InHand, WorkerInv, Active, Labels, Stopped
  <1>3. CallInv'
    BY OneIsASlot DEF IInv, TypeOK, CallInv, WorkerInv, Active, Labels, Stopped,
           RunnerValues, WithinLimits
  <1>4. WorkerInv'
    BY DEF IInv, TypeOK, CallInv, WorkerInv, Active, Labels, Stopped
  <1>5. JobInv'
    BY NoJobAssumption DEF IInv, TypeOK, JobInv, InHand
  <1> QED
    BY <1>1, <1>2, <1>3, <1>4, <1>5 DEF IInv

(* The caller's context is cancelled.                                        *)
LEMMA CancelCallerStep ==
    ASSUME IInv, NEW r \in Runs, CancelCaller(r)
    PROVE  IInv'
  <1> USE DEF CancelCaller, callVars, failVars, workVars
  <1>1. TypeOK'
    BY DEF IInv, TypeOK, InHand, Errors, Labels, Origins, Stopped
  <1>2. InHand'
    BY DEF IInv, TypeOK, InHand, Labels, Stopped
  <1>3. CallInv'
    BY DEF IInv, TypeOK, CallInv, WorkerInv, Active, Labels, Stopped
  <1>4. WorkerInv'
    BY DEF IInv, TypeOK, CallInv, WorkerInv, Active, Labels, Stopped
  <1>5. JobInv'
    BY NoJobAssumption DEF IInv, TypeOK, JobInv, InHand
  <1> QED
    BY <1>1, <1>2, <1>3, <1>4, <1>5 DEF IInv

(* The cancellation reaches the derived context.                             *)
LEMMA PropagateStep ==
    ASSUME IInv, NEW r \in Runs, Propagate(r)
    PROVE  IInv'
  <1> USE DEF Propagate, callVars, failVars, workVars
  <1>1. TypeOK'
    BY DEF IInv, TypeOK, InHand, Errors, Labels, Origins, Stopped
  <1>2. InHand'
    BY DEF IInv, TypeOK, InHand, Labels, Stopped
  <1>3. CallInv'
    BY DEF IInv, TypeOK, CallInv, WorkerInv, Active, Labels, Stopped
  <1>4. WorkerInv'
    BY DEF IInv, TypeOK, CallInv, WorkerInv, Active, Labels, Stopped
  <1>5. JobInv'
    BY NoJobAssumption DEF IInv, TypeOK, JobInv, InHand
  <1> QED
    BY <1>1, <1>2, <1>3, <1>4, <1>5 DEF IInv

(* Run returns: slot 1 always runs a worker, so one worker has exited.       *)
LEMMA ReturnRunStep ==
    ASSUME IInv, NEW r \in Runs, ReturnRun(r)
    PROVE  IInv'
  <1> USE DEF ReturnRun, callVars, failVars, workVars, WorkersDone, Outcome
  <1>1. TypeOK'
    BY DEF IInv, TypeOK, InHand, Errors, Labels, Origins, Stopped
  <1>2. InHand'
    BY DEF IInv, TypeOK, InHand, Labels, Stopped
  <1>3. CallInv'
    BY OneIsASlot DEF IInv, TypeOK, CallInv, WorkerInv, Active, Labels, Stopped,
           NoErr, CtxErr
  <1>4. WorkerInv'
    BY DEF IInv, TypeOK, CallInv, WorkerInv, Active, Labels, Stopped
  <1>5. JobInv'
    BY NoJobAssumption DEF IInv, TypeOK, JobInv, InHand
  <1> QED
    BY <1>1, <1>2, <1>3, <1>4, <1>5 DEF IInv

(* A job becomes available to the Puller.                                    *)
LEMMA OfferStep ==
    ASSUME IInv, Offer
    PROVE  IInv'
  <1> USE DEF Offer, callVars, failVars, workVars
  <1>1. TypeOK'
    BY DEF IInv, TypeOK, InHand, Errors, Labels, Origins, Stopped
  <1>2. InHand'
    BY DEF IInv, TypeOK, InHand, Labels, Stopped
  <1>3. CallInv'
    BY DEF IInv, TypeOK, CallInv, WorkerInv, Active, Labels, Stopped
  <1>4. WorkerInv'
    BY DEF IInv, TypeOK, CallInv, WorkerInv, Active, Labels, Stopped
  <1>5. JobInv'
    BY NoJobAssumption DEF IInv, TypeOK, JobInv, InHand
  <1> QED
    BY <1>1, <1>2, <1>3, <1>4, <1>5 DEF IInv

(* The check at the top of the loop.                                         *)
LEMMA LoopTopStep ==
    ASSUME IInv, NEW r \in Runs, NEW w \in Slots, LoopTop(r, w)
    PROVE  IInv'
  <1> USE DEF LoopTop, callVars, failVars, workVars, Goto
  <1>1. TypeOK'
    BY DEF IInv, TypeOK, InHand, Errors, Labels, Origins, Stopped
  <1>2. InHand'
    BY DEF IInv, TypeOK, InHand, Labels, Stopped
  <1>3. CallInv'
    BY DEF IInv, TypeOK, CallInv, WorkerInv, Active, Labels, Stopped
  <1>4. WorkerInv'
    BY DEF IInv, TypeOK, CallInv, WorkerInv, Active, Labels, Stopped
  <1>5. JobInv'
    BY NoJobAssumption DEF IInv, TypeOK, JobInv, InHand
  <1> QED
    BY <1>1, <1>2, <1>3, <1>4, <1>5 DEF IInv

(* Pull returns a job that nobody else holds.                                *)
LEMMA PullJobStep ==
    ASSUME IInv, NEW r \in Runs, NEW w \in Slots, PullJob(r, w)
    PROVE  IInv'
  <1> USE DEF PullJob, callVars, failVars, workVars, Goto, TakeJob
  <1>1. TypeOK'
    BY DEF IInv, TypeOK, InHand, Errors, Labels, Origins, Stopped
  <1>2. InHand'
    BY NoJobAssumption DEF IInv, TypeOK, InHand, Labels, Stopped
  <1>3. CallInv'
    BY DEF IInv, TypeOK, CallInv, WorkerInv, Active, Labels, Stopped
  <1>4. WorkerInv'
    BY DEF IInv, TypeOK, CallInv, WorkerInv, Active, Labels, Stopped
  <1>5. JobInv'
    <2>1. PICK j \in queue : /\ held' = [held EXCEPT ![r][w] = j]
                            /\ queue' = queue \ {j}
      OBVIOUS
    <2>2. held[r][w] = NoJob
      BY DEF IInv, TypeOK, InHand
    <2>3. held'[r][w] = j /\ j \in Jobs /\ j # NoJob
      BY <2>1, NoJobAssumption DEF IInv, TypeOK
    <2>4. \A q \in Runs : \A v \in Slots :
             (q # r \/ v # w) => held'[q][v] = held[q][v]
      BY <2>1 DEF IInv, TypeOK
    <2> HIDE DEF PullJob
    <2>5. \A q \in Runs : \A v \in Slots : held[q][v] # j
      BY <2>1 DEF IInv, JobInv
    <2>6. UNCHANGED <<pending, handled>>
      BY DEF PullJob
    <2>7. \A k \in Jobs \ (pending \cup queue' \cup handled) :
            \E q \in Runs : \E v \in Slots : held'[q][v] = k
      <3> SUFFICES ASSUME NEW k \in Jobs \ (pending \cup queue' \cup handled)
                   PROVE  \E q \in Runs : \E v \in Slots : held'[q][v] = k
        OBVIOUS
      <3>1. CASE k = j
        BY <2>3, <3>1
      <3>2. CASE k # j
        <4>1. PICK q \in Runs, v \in Slots : held[q][v] = k
          BY <2>1, <3>2 DEF IInv, JobInv
        <4> QED
          BY <2>2, <2>4, <4>1, NoJobAssumption
      <3> QED
        BY <3>1, <3>2
    <2> QED
      BY <2>1, <2>2, <2>3, <2>4, <2>5, <2>6, <2>7 DEF IInv, JobInv
  <1> QED
    BY <1>1, <1>2, <1>3, <1>4, <1>5 DEF IInv

(* Pull returns ErrNoJob.                                                    *)
LEMMA PullNoJobStep ==
    ASSUME IInv, NEW r \in Runs, NEW w \in Slots, PullNoJob(r, w)
    PROVE  IInv'
  <1> USE DEF PullNoJob, callVars, failVars, workVars, Goto
  <1>1. TypeOK'
    BY DEF IInv, TypeOK, InHand, Errors, Labels, Origins, Stopped
  <1>2. InHand'
    BY DEF IInv, TypeOK, InHand, Labels, Stopped
  <1>3. CallInv'
    BY DEF IInv, TypeOK, CallInv, WorkerInv, Active, Labels, Stopped
  <1>4. WorkerInv'
    BY DEF IInv, TypeOK, CallInv, WorkerInv, Active, Labels, Stopped
  <1>5. JobInv'
    BY NoJobAssumption DEF IInv, TypeOK, JobInv, InHand
  <1> QED
    BY <1>1, <1>2, <1>3, <1>4, <1>5 DEF IInv

(* Pull returns another error.                                               *)
LEMMA PullErrorStep ==
    ASSUME IInv, NEW r \in Runs, NEW w \in Slots, PullError(r, w)
    PROVE  IInv'
  <1> USE DEF PullError, callVars, failVars, workVars, Goto
  <1>1. TypeOK'
    BY DEF IInv, TypeOK, InHand, Errors, Labels, Origins, Stopped
  <1>2. InHand'
    BY DEF IInv, TypeOK, InHand, Labels, Stopped
  <1>3. CallInv'
    BY DEF IInv, TypeOK, CallInv, WorkerInv, Active, Labels, Stopped
  <1>4. WorkerInv'
    BY DEF IInv, TypeOK, CallInv, WorkerInv, Active, Labels, Stopped
  <1>5. JobInv'
    BY NoJobAssumption DEF IInv, TypeOK, JobInv, InHand
  <1> QED
    BY <1>1, <1>2, <1>3, <1>4, <1>5 DEF IInv

(* The idle delay is over.                                                   *)
LEMMA WaitTimerStep ==
    ASSUME IInv, NEW r \in Runs, NEW w \in Slots, WaitTimer(r, w)
    PROVE  IInv'
  <1> USE DEF WaitTimer, callVars, failVars, workVars, Goto
  <1>1. TypeOK'
    BY DEF IInv, TypeOK, InHand, Errors, Labels, Origins, Stopped
  <1>2. InHand'
    BY DEF IInv, TypeOK, InHand, Labels, Stopped
  <1>3. CallInv'
    BY DEF IInv, TypeOK, CallInv, WorkerInv, Active, Labels, Stopped
  <1>4. WorkerInv'
    BY DEF IInv, TypeOK, CallInv, WorkerInv, Active, Labels, Stopped
  <1>5. JobInv'
    BY NoJobAssumption DEF IInv, TypeOK, JobInv, InHand
  <1> QED
    BY <1>1, <1>2, <1>3, <1>4, <1>5 DEF IInv

(* The idle wait sees the cancellation.                                      *)
LEMMA WaitDoneStep ==
    ASSUME IInv, NEW r \in Runs, NEW w \in Slots, WaitDone(r, w)
    PROVE  IInv'
  <1> USE DEF WaitDone, callVars, failVars, workVars, Goto
  <1>1. TypeOK'
    BY DEF IInv, TypeOK, InHand, Errors, Labels, Origins, Stopped
  <1>2. InHand'
    BY DEF IInv, TypeOK, InHand, Labels, Stopped
  <1>3. CallInv'
    BY DEF IInv, TypeOK, CallInv, WorkerInv, Active, Labels, Stopped
  <1>4. WorkerInv'
    BY DEF IInv, TypeOK, CallInv, WorkerInv, Active, Labels, Stopped
  <1>5. JobInv'
    BY NoJobAssumption DEF IInv, TypeOK, JobInv, InHand
  <1> QED
    BY <1>1, <1>2, <1>3, <1>4, <1>5 DEF IInv

(* The job context times out.                                                *)
LEMMA JobTimeoutStep ==
    ASSUME IInv, NEW r \in Runs, NEW w \in Slots, JobTimeout(r, w)
    PROVE  IInv'
  <1> USE DEF JobTimeout, callVars, failVars, workVars, Goto
  <1>1. TypeOK'
    BY DEF IInv, TypeOK, InHand, Errors, Labels, Origins, Stopped
  <1>2. InHand'
    BY DEF IInv, TypeOK, InHand, Labels, Stopped
  <1>3. CallInv'
    BY DEF IInv, TypeOK, CallInv, WorkerInv, Active, Labels, Stopped
  <1>4. WorkerInv'
    BY DEF IInv, TypeOK, CallInv, WorkerInv, Active, Labels, Stopped
  <1>5. JobInv'
    BY NoJobAssumption DEF IInv, TypeOK, JobInv, InHand
  <1> QED
    BY <1>1, <1>2, <1>3, <1>4, <1>5 DEF IInv

(* Handle returns, with or without an error.                                 *)
LEMMA HandleReturnsStep ==
    ASSUME IInv, NEW r \in Runs, NEW w \in Slots, HandleReturns(r, w)
    PROVE  IInv'
  <1> USE DEF HandleReturns, callVars, failVars, workVars, Goto
  <1>a. held[r][w] \in Jobs
    BY DEF IInv, TypeOK, InHand
  <1>b. PICK l \in {"top", "check"}, e \in Origins :
            /\ pc' = [pc EXCEPT ![r][w] = l]
            /\ err' = [err EXCEPT ![r][w] = e]
            /\ l = "check" => e # "none"
    <2>1. CASE Goto(r, w, "top") /\ UNCHANGED err
      <3>1. err' = [err EXCEPT ![r][w] = err[r][w]] /\ err[r][w] \in Origins
        BY <2>1 DEF IInv, TypeOK
      <3> QED
        BY <2>1, <3>1
    <2>2. CASE /\ Goto(r, w, "check")
               /\ \E e \in {"handle", "handleNoJob"} :
                     err' = [err EXCEPT ![r][w] = e]
      BY <2>2 DEF Origins
    <2> QED
      BY <2>1, <2>2
  <1>1. TypeOK'
    BY <1>a, <1>b DEF IInv, TypeOK, InHand, Errors, Labels, Origins, Stopped
  <1>2. InHand'
    BY <1>a, <1>b DEF IInv, TypeOK, InHand, Labels
  <1>3. CallInv'
    BY <1>b DEF IInv, TypeOK, CallInv, Labels, Stopped
  <1>4. WorkerInv'
    BY <1>b DEF IInv, TypeOK, WorkerInv, Active, Labels, Stopped
  <1>5. JobInv'
    BY <1>a, NoJobAssumption DEF IInv, TypeOK, JobInv, InHand
  <1> QED
    BY <1>1, <1>2, <1>3, <1>4, <1>5 DEF IInv

(* The worker looks at the context before it reports.                        *)
LEMMA CheckErrorStep ==
    ASSUME IInv, NEW r \in Runs, NEW w \in Slots, CheckError(r, w)
    PROVE  IInv'
  <1> USE DEF CheckError, callVars, failVars, workVars, Goto
  <1>1. TypeOK'
    BY DEF IInv, TypeOK, InHand, Errors, Labels, Origins, Stopped
  <1>2. InHand'
    BY DEF IInv, TypeOK, InHand, Labels, Stopped
  <1>3. CallInv'
    BY DEF IInv, TypeOK, CallInv, WorkerInv, Active, Labels, Stopped
  <1>4. WorkerInv'
    BY DEF IInv, TypeOK, CallInv, WorkerInv, Active, Labels, Stopped
  <1>5. JobInv'
    BY NoJobAssumption DEF IInv, TypeOK, JobInv, InHand
  <1> QED
    BY <1>1, <1>2, <1>3, <1>4, <1>5 DEF IInv

(* The first failure is recorded.                                            *)
LEMMA FailFirstStep ==
    ASSUME IInv, NEW r \in Runs, NEW w \in Slots, FailFirst(r, w)
    PROVE  IInv'
  <1> USE DEF FailFirst, callVars, failVars, workVars, Goto
  <1>a. <<err[r][w], w>> \in WorkerErrs /\ <<err[r][w], w>> # NoErr
    BY WorkerErrNotNil DEF IInv, TypeOK, InHand
  <1>1. TypeOK'
    BY <1>a DEF IInv, TypeOK, Labels
  <1>2. InHand'
    BY DEF IInv, TypeOK, InHand, Labels, Stopped
  <1>3. CallInv'
    BY <1>a DEF IInv, TypeOK, CallInv, WorkerInv, Active, Labels, Stopped
  <1>4. WorkerInv'
    BY <1>a DEF IInv, TypeOK, CallInv, WorkerInv, Active, Labels, Stopped
  <1>5. JobInv'
    BY NoJobAssumption DEF IInv, TypeOK, JobInv, InHand
  <1> QED
    BY <1>1, <1>2, <1>3, <1>4, <1>5 DEF IInv

(* The first failing worker cancels the run.                                 *)
LEMMA FailCancelStep ==
    ASSUME IInv, NEW r \in Runs, NEW w \in Slots, FailCancel(r, w)
    PROVE  IInv'
  <1> USE DEF FailCancel, callVars, failVars, workVars, Goto
  <1>1. TypeOK'
    BY DEF IInv, TypeOK, InHand, Errors, Labels, Origins, Stopped
  <1>2. InHand'
    BY DEF IInv, TypeOK, InHand, Labels, Stopped
  <1>3. CallInv'
    BY DEF IInv, TypeOK, CallInv, WorkerInv, Active, Labels, Stopped
  <1>4. WorkerInv'
    BY DEF IInv, TypeOK, CallInv, WorkerInv, Active, Labels, Stopped
  <1>5. JobInv'
    BY NoJobAssumption DEF IInv, TypeOK, JobInv, InHand
  <1> QED
    BY <1>1, <1>2, <1>3, <1>4, <1>5 DEF IInv

(* A later failure is dropped.                                               *)
LEMMA FailLaterStep ==
    ASSUME IInv, NEW r \in Runs, NEW w \in Slots, FailLater(r, w)
    PROVE  IInv'
  <1> USE DEF FailLater, callVars, failVars, workVars, Goto
  <1>1. TypeOK'
    BY DEF IInv, TypeOK, InHand, Errors, Labels, Origins, Stopped
  <1>2. InHand'
    BY DEF IInv, TypeOK, InHand, Labels, Stopped
  <1>3. CallInv'
    BY DEF IInv, TypeOK, CallInv, WorkerInv, Active, Labels, Stopped
  <1>4. WorkerInv'
    BY DEF IInv, TypeOK, CallInv, WorkerInv, Active, Labels, Stopped
  <1>5. JobInv'
    BY NoJobAssumption DEF IInv, TypeOK, JobInv, InHand
  <1> QED
    BY <1>1, <1>2, <1>3, <1>4, <1>5 DEF IInv

-----------------------------------------------------------------------------
(* Every step of the runner, and stuttering, preserves the invariant.        *)
LEMMA StepIInv == IInv /\ [Next]_vars => IInv'
  <1> SUFFICES ASSUME IInv, [Next]_vars PROVE IInv'
    OBVIOUS
  <1>1. ASSUME NEW r \in Runs, RejectRun(r) PROVE IInv'
    BY <1>1, RejectRunStep
  <1>2. ASSUME NEW r \in Runs, StartRun(r) PROVE IInv'
    BY <1>2, StartRunStep
  <1>3. ASSUME NEW r \in Runs, CancelCaller(r) PROVE IInv'
    BY <1>3, CancelCallerStep
  <1>4. ASSUME NEW r \in Runs, Propagate(r) PROVE IInv'
    BY <1>4, PropagateStep
  <1>5. ASSUME NEW r \in Runs, ReturnRun(r) PROVE IInv'
    BY <1>5, ReturnRunStep
  <1>6. ASSUME NEW r \in Runs, NEW w \in Slots, Worker(r, w) PROVE IInv'
    BY <1>6, LoopTopStep, PullJobStep, PullNoJobStep, PullErrorStep,
       WaitTimerStep, WaitDoneStep, JobTimeoutStep, HandleReturnsStep,
       CheckErrorStep, FailFirstStep, FailCancelStep, FailLaterStep
       DEF Worker
  <1>7. CASE Offer
    BY <1>7, OfferStep
  <1>8. CASE UNCHANGED vars
    BY <1>8 DEF vars, callVars, failVars, workVars, IInv, TypeOK, InHand,
       CallInv, WorkerInv, JobInv, Stopped
  <1> QED
    BY <1>1, <1>2, <1>3, <1>4, <1>5, <1>6, <1>7, <1>8 DEF Next, Finished

(* The inductive invariant holds in every reachable state.                   *)
THEOREM Invariance == Spec => []IInv
  BY InitIInv, StepIInv, PTL DEF Spec

(* Every variable keeps its type: in particular runErr only ever holds nil   *)
(* or an error a worker wrapped (jobs.go:163, 173).                          *)
THEOREM TypeCorrect == Spec => []TypeOK
  <1>1. IInv => TypeOK
    BY DEF IInv
  <1> QED
    BY Invariance, <1>1, PTL

(* Run never returns a nil error, for any number of workers and of           *)
(* concurrent Run calls (jobs.go:179-183).                                   *)
THEOREM RunReportsACause == Spec => []ReturnHasCause
  <1>1. IInv => ReturnHasCause
    BY DEF IInv, CallInv, ReturnHasCause
  <1> QED
    BY Invariance, <1>1, PTL

(* A pulled job is in exactly one running Handle call until that call        *)
(* returns (jobs.go:152-168).                                                *)
THEOREM PulledJobsAreHandled == Spec => []NoJobDropped
  <1>1. ASSUME IInv PROVE NoJobDropped
    <2> SUFFICES ASSUME NEW j \in Jobs \ (pending \cup queue \cup handled)
                 PROVE  \E r \in Runs : \E w \in Slots :
                          /\ held[r][w] = j
                          /\ pc[r][w] = "handle"
                          /\ call[r] = "running"
                          /\ \A q \in Runs : \A v \in Slots :
                                held[q][v] = j => q = r /\ v = w
      BY DEF NoJobDropped
    <2>1. PICK r \in Runs, w \in Slots : held[r][w] = j
      BY <1>1 DEF IInv, JobInv
    <2>2. pc[r][w] = "handle"
      BY <1>1, <2>1, NoJobAssumption DEF IInv, InHand
    <2>3. call[r] = "running"
      BY <1>1, <2>2 DEF IInv, WorkerInv, Active, Labels
    <2>4. \A q \in Runs : \A v \in Slots : held[q][v] = j => q = r /\ v = w
      BY <1>1, <2>1, NoJobAssumption DEF IInv, JobInv
    <2> QED
      BY <2>1, <2>2, <2>3, <2>4
  <1> QED
    BY Invariance, <1>1, PTL

(* No step replaces a recorded error, and a run with a recorded error        *)
(* returns it (jobs.go:137-142, 180-182).                                    *)
THEOREM FirstErrorIsReported == Spec => FirstErrorStands
  <1> DEFINE Kept == \A r \in Runs : runErr[r] # NoErr =>
                        /\ runErr'[r] = runErr[r]
                        /\ call'[r] = "returned" => result'[r] = runErr[r]
  <1>1. ASSUME IInv, Next PROVE Kept
    <2> SUFFICES ASSUME NEW q \in Runs, runErr[q] # NoErr
                 PROVE  runErr'[q] = runErr[q]
      <3>1. IInv'
        BY <1>1, StepIInv
      <3> QED
        BY <3>1 DEF IInv, CallInv
    <2>1. once[q] # "ready"
      BY <1>1 DEF IInv, CallInv
    <2>2. \A r \in Runs, w \in Slots : FailFirst(r, w) => runErr'[q] = runErr[q]
      BY <1>1, <2>1 DEF FailFirst, IInv, TypeOK
    <2>3. \A r \in Runs, w \in Slots :
            Worker(r, w) => FailFirst(r, w) \/ UNCHANGED runErr
      BY DEF Worker, LoopTop, PullJob, PullNoJob, PullError, WaitTimer,
         WaitDone, JobTimeout, HandleReturns, CheckError, FailCancel,
         FailLater, failVars
    <2>4. \A r \in Runs :
            RejectRun(r) \/ StartRun(r) \/ CancelCaller(r) \/ Propagate(r)
              \/ ReturnRun(r) => UNCHANGED runErr
      BY DEF RejectRun, StartRun, CancelCaller, Propagate, ReturnRun, failVars
    <2>5. Offer \/ Finished => UNCHANGED runErr
      BY DEF Offer, Finished, vars, failVars
    <2> QED
      BY <1>1, <2>2, <2>3, <2>4, <2>5 DEF Next
  <1>2. ASSUME UNCHANGED vars, IInv PROVE Kept
    BY <1>2 DEF vars, callVars, failVars, IInv, CallInv
  <1>3. IInv /\ [Next]_vars => [Kept]_vars
    BY <1>1, <1>2
  <1> QED
    BY Invariance, <1>3, PTL DEF Spec, FirstErrorStands
-----------------------------------------------------------------------------
(* Late work.  The workers inside Pull when their run stops are the only ones *)
(* that can still obtain a job: the loop's check admits nobody after a stop.  *)
Pulling(r) == {w \in 1..runner.workers : pc[r][w] = "pull"}

LateInv ==
    /\ runner.workers \in 0..MaxWorkers
    /\ \A r \in Runs :
          /\ call[r] = "idle" => ~Stopped(r)
          /\ \A w \in Slots : pc[r][w] # "none" => w <= runner.workers
          /\ ~Stopped(r) => late[r] = {}
          /\ IsFiniteSet(late[r])
          /\ Cardinality(late[r]) + Cardinality(Pulling(r)) <= runner.workers

LEMMA SlotsCounted ==
    ASSUME NEW n \in Nat, NEW S, S \subseteq 1..n
    PROVE  IsFiniteSet(S) /\ Cardinality(S) \in Nat /\ Cardinality(S) <= n
  <1>1. IsFiniteSet(1..n) /\ Cardinality(1..n) = n
    BY FS_Interval
  <1>2. IsFiniteSet(S) /\ Cardinality(S) <= n
    BY <1>1, FS_Subset
  <1> QED
    BY <1>2, FS_CardinalityType

LEMMA PullingFinite ==
    ASSUME runner.workers \in 0..MaxWorkers, NEW r \in Runs
    PROVE  /\ IsFiniteSet(Pulling(r))
           /\ Cardinality(Pulling(r)) \in Nat
           /\ Cardinality(Pulling(r)) <= runner.workers
  <1>1. runner.workers \in Nat /\ Pulling(r) \subseteq 1..runner.workers
    BY LimitsAssumption DEF Pulling
  <1> QED
    BY <1>1, SlotsCounted

LEMMA InitLateInv == Init => LateInv
  <1> SUFFICES ASSUME Init PROVE LateInv
    OBVIOUS
  <1>1. runner.workers \in 0..MaxWorkers
    <2>1. PICK c \in Configs : runner = New(c)
      BY DEF Init
    <2>2. runner = NilRunner \/ Usable(runner)
      BY <2>1, NewIsUsable
    <2> QED
      BY <2>2, LimitsAssumption DEF NilRunner, Usable, WithinLimits
  <1>2. ASSUME NEW r \in Runs
        PROVE  /\ IsFiniteSet(late[r])
               /\ Cardinality(late[r]) + Cardinality(Pulling(r)) <= runner.workers
    <2>1. late[r] = {}
      BY DEF Init
    <2> QED
      BY <1>1, <2>1, PullingFinite, FS_EmptySet, LimitsAssumption
  <1> QED
    BY <1>1, <1>2 DEF LateInv, Init, Stopped

(* What any step does to a run that has stopped, or stops by it.             *)
LateStep(q) ==
    /\ Stopped(q) => Stopped(q)'
    /\ call'[q] = "idle" => UNCHANGED <<call[q], runCtx[q]>>
    /\ \A w \in Slots : pc'[q][w] # "none" => w <= runner.workers
    /\ Stopped(q) => Pulling(q)' \subseteq Pulling(q)
    /\ \/ late'[q] = late[q]
       \/ /\ Stopped(q)
          /\ \E w \in Pulling(q), j \in Jobs :
                late'[q] = late[q] \cup {j} /\ w \notin Pulling(q)'

LEMMA RunnerIsFixed == Next => UNCHANGED runner
  BY DEF Next, RejectRun, StartRun, CancelCaller, Propagate, ReturnRun, Worker,
         LoopTop, PullJob, PullNoJob, PullError, WaitTimer, WaitDone,
         JobTimeout, HandleReturns, CheckError, FailFirst, FailCancel,
         FailLater, Offer, Finished, vars, callVars

LEMMA LateSteps ==
    ASSUME IInv, LateInv, Next, NEW q \in Runs
    PROVE  LateStep(q)
  <1> USE DEF LateStep, LateInv, Pulling, Stopped
  <1>0. /\ pc \in [Runs -> [Slots -> Labels]]
        /\ runCtx \in [Runs -> {"live", "cancelled"}]
        /\ call \in [Runs -> {"idle", "running", "returned"}]
        /\ late \in [Runs -> SUBSET Jobs]
        /\ queue \in SUBSET Jobs
        /\ runner.workers \in Nat
        /\ 1..runner.workers \subseteq Slots
    BY LimitsAssumption DEF IInv, TypeOK, Slots
  <1>1. ASSUME NEW r \in Runs,
               RejectRun(r) \/ StartRun(r) \/ CancelCaller(r)
                 \/ Propagate(r) \/ ReturnRun(r)
        PROVE  LateStep(q)
    <2>1. CASE RejectRun(r)
      BY <1>0, <2>1 DEF RejectRun, failVars, workVars
    <2>2. CASE StartRun(r)
      BY <1>0, <2>2 DEF StartRun, workVars
    <2>3. CASE CancelCaller(r)
      BY <1>0, <2>3 DEF CancelCaller, failVars, workVars
    <2>4. CASE Propagate(r)
      BY <1>0, <2>4 DEF Propagate, callVars, workVars
    <2>5. CASE ReturnRun(r)
      BY <1>0, <2>5 DEF ReturnRun, workVars
    <2> QED
      BY <1>1, <2>1, <2>2, <2>3, <2>4, <2>5
  <1>2. ASSUME NEW r \in Runs, NEW w \in Slots, Worker(r, w)
        PROVE  LateStep(q)
    <2>1. CASE PullJob(r, w)
      <3>1. PICK j \in queue :
               late' = [late EXCEPT ![r] = IF Stopped(r) THEN @ \cup {j} ELSE @]
        BY <2>1 DEF PullJob, TakeJob
      <3>2. /\ pc[r][w] = "pull" /\ pc' = [pc EXCEPT ![r][w] = "handle"]
            /\ UNCHANGED <<runner, call, runCtx>>
        BY <2>1 DEF PullJob, Goto, callVars, failVars
      <3>3. w \in Pulling(r) /\ pc'[r][w] = "handle"
        <4>1. w <= runner.workers
          BY <3>2
        <4>2. w \in 1..runner.workers
          BY <1>0, <4>1 DEF Slots
        <4>3. pc'[r][w] = "handle"
          BY <1>0, <3>2
        <4> QED
          BY <3>2, <4>2, <4>3
      <3>4. Pulling(q)' \subseteq Pulling(q)
        BY <1>0, <3>2
      <3>5. \A v \in Slots : pc'[q][v] # "none" => v <= runner.workers
        BY <1>0, <3>2
      <3>6. \/ late'[q] = late[q]
            \/ /\ Stopped(q)
               /\ late'[q] = late[q] \cup {j} /\ q = r
        BY <1>0, <3>1
      <3>7. j \in Jobs
        BY <1>0
      <3>8. w \notin Pulling(r)'
        BY <3>3
      <3> HIDE DEF Pulling
      <3> QED
        BY <3>2, <3>3, <3>4, <3>5, <3>6, <3>7, <3>8
    <2>2. CASE LoopTop(r, w)
      BY <1>0, <2>2 DEF LoopTop, Goto, callVars, failVars, workVars
    <2>3. CASE FailCancel(r, w)
      <3>1. /\ pc[r][w] # "none" /\ pc' = [pc EXCEPT ![r][w] = "exit"]
            /\ runCtx' = [runCtx EXCEPT ![r] = "cancelled"]
            /\ UNCHANGED <<runner, call, late>>
        BY <2>3 DEF FailCancel, Goto, callVars, workVars
      <3>2. \A v \in Slots : pc'[q][v] # "none" => v <= runner.workers
        BY <1>0, <3>1
      <3>3. Pulling(q)' \subseteq Pulling(q)
        BY <1>0, <3>1
      <3>4. CASE q = r
        <4>1. call[q] # "idle"
          BY <2>3, <3>4 DEF FailCancel, IInv, WorkerInv, Active, Labels
        <4> QED
          BY <1>0, <3>1, <3>2, <3>3, <3>4, <4>1
      <3>5. CASE q # r
        BY <1>0, <3>1, <3>2, <3>3, <3>5
      <3> QED
        BY <3>4, <3>5
    <2>4. CASE JobTimeout(r, w)
      BY <1>0, <2>4 DEF JobTimeout, callVars, failVars
    <2>5. ASSUME NEW l \in Labels \ {"none", "pull"}, Goto(r, w, l),
                 pc[r][w] # "none",
                 UNCHANGED <<callVars, runCtx, late>>
          PROVE  LateStep(q)
      BY <1>0, <2>5 DEF Goto, callVars
    <2>6. CASE PullNoJob(r, w)
      BY <2>5, <2>6 DEF PullNoJob, failVars, workVars, Labels
    <2>7. CASE PullError(r, w)
      BY <2>5, <2>7 DEF PullError, failVars, Labels
    <2>8. CASE WaitTimer(r, w) \/ WaitDone(r, w)
      BY <2>5, <2>8 DEF WaitTimer, WaitDone, failVars, workVars, Labels
    <2>9. CASE HandleReturns(r, w)
      BY <2>5, <2>9 DEF HandleReturns, failVars, Labels
    <2>10. CASE CheckError(r, w)
      BY <2>5, <2>10 DEF CheckError, failVars, workVars, Labels
    <2>11. CASE FailFirst(r, w) \/ FailLater(r, w)
      BY <2>5, <2>11 DEF FailFirst, FailLater, failVars, workVars, Labels
    <2> QED
      BY <1>2, <2>1, <2>2, <2>3, <2>4, <2>6, <2>7, <2>8, <2>9, <2>10, <2>11
      DEF Worker
  <1>3. CASE Offer \/ Finished
    BY <1>0, <1>3 DEF Offer, Finished, vars, callVars, failVars, workVars
  <1> QED
    BY <1>1, <1>2, <1>3 DEF Next

LEMMA StepLateInv == IInv /\ LateInv /\ [Next]_vars => LateInv'
  <1> SUFFICES ASSUME IInv, LateInv, [Next]_vars PROVE LateInv'
    OBVIOUS
  <1>1. CASE UNCHANGED vars
    BY <1>1 DEF vars, callVars, failVars, workVars, LateInv, Stopped, Pulling
  <1>2. CASE Next
    <2>1. runner' = runner /\ runner.workers \in 0..MaxWorkers
      BY <1>2, RunnerIsFixed DEF LateInv
    <2>2. ASSUME NEW q \in Runs
          PROVE  /\ (call[q] = "idle" => ~Stopped(q))'
                 /\ (\A w \in Slots : pc[q][w] # "none" => w <= runner.workers)'
                 /\ (~Stopped(q) => late[q] = {})'
                 /\ IsFiniteSet(late[q])'
                 /\ (Cardinality(late[q]) + Cardinality(Pulling(q))
                        <= runner.workers)'
      <3> DEFINE n  == runner.workers
                 P  == Pulling(q)
                 PP == Pulling(q)'
                 L  == late[q]
                 LL == late'[q]
      <3>1. LateStep(q)
        BY <1>2, LateSteps
      <3>2. /\ IsFiniteSet(P) /\ IsFiniteSet(PP)
            /\ Cardinality(P) \in Nat /\ Cardinality(PP) \in Nat
            /\ Cardinality(PP) <= n
        <4>1. n \in Nat /\ P \subseteq 1..n /\ PP \subseteq 1..n
          BY <2>1, LimitsAssumption DEF Pulling
        <4> HIDE DEF n, P, PP
        <4> QED
          BY <4>1, SlotsCounted
      <3>3. IsFiniteSet(L) /\ Cardinality(L) \in Nat
        BY FS_CardinalityType DEF LateInv
      <3>4. /\ ~Stopped(q) => L = {}
            /\ Cardinality(L) + Cardinality(P) <= n
            /\ call[q] = "idle" => ~Stopped(q)
        BY DEF LateInv
      <3>5. n \in Nat /\ runner'.workers = n
        BY <2>1, LimitsAssumption
      <3>6. IsFiniteSet(LL) /\ Cardinality(LL) + Cardinality(PP) <= n
        <4>1. CASE LL = L /\ ~Stopped(q)
          <5>1. Cardinality(LL) = 0
            BY <3>4, <4>1, FS_EmptySet
          <5> QED
            BY <3>2, <3>3, <3>5, <4>1, <5>1
        <4>2. CASE LL = L /\ Stopped(q)
          <5>1. PP \subseteq P
            BY <3>1, <4>2 DEF LateStep
          <5>2. Cardinality(PP) <= Cardinality(P)
            BY <3>2, <5>1, FS_Subset
          <5> QED
            BY <3>2, <3>3, <3>4, <3>5, <4>2, <5>2
        <4>3. CASE LL # L
          <5>1. PICK w \in P, j \in Jobs : LL = L \cup {j} /\ w \notin PP
            BY <3>1, <4>3 DEF LateStep
          <5>2. PP \subseteq P \ {w}
            BY <3>1, <4>3, <5>1 DEF LateStep
          <5>3. /\ IsFiniteSet(P \ {w})
                /\ Cardinality(P \ {w}) = Cardinality(P) - 1
            BY <3>2, <5>1, FS_RemoveElement
          <5>4. Cardinality(PP) <= Cardinality(P) - 1
            BY <5>2, <5>3, FS_Subset
          <5>5. /\ IsFiniteSet(LL)
                /\ Cardinality(LL) <= Cardinality(L) + 1
                /\ Cardinality(LL) \in Nat
            <6>1. /\ IsFiniteSet(L \cup {j})
                  /\ \/ Cardinality(L \cup {j}) = Cardinality(L)
                     \/ Cardinality(L \cup {j}) = Cardinality(L) + 1
              BY <3>3, FS_AddElement
            <6> QED
              BY <3>3, <5>1, <6>1
          <5> HIDE DEF n, P, PP, L, LL
          <5> QED
            BY <3>2, <3>3, <3>4, <3>5, <5>4, <5>5
        <4> QED
          BY <4>1, <4>2, <4>3
      <3>7. (~Stopped(q) => late[q] = {})'
        BY <3>1, <3>4 DEF LateStep
      <3>8. (call[q] = "idle" => ~Stopped(q))'
        BY <3>1, <3>4 DEF LateStep, Stopped
      <3>9. (\A w \in Slots : pc[q][w] # "none" => w <= runner.workers)'
        BY <2>1, <3>1 DEF LateStep
      <3> QED
        BY <3>5, <3>6, <3>7, <3>8, <3>9
    <2> QED
      BY <2>1, <2>2 DEF LateInv
  <1> QED
    BY <1>1, <1>2

(* After its context is cancelled a run pulls at most one more job per       *)
(* configured worker, however many runs share the Runner (jobs.go:146-155).  *)
THEOREM LateWorkIsBounded == Spec => []LateWorkBounded
  <1>1. IInv /\ LateInv => LateWorkBounded
    <2> SUFFICES ASSUME LateInv, NEW r \in Runs
                 PROVE  Cardinality(late[r]) <= runner.workers
      BY DEF LateWorkBounded
    <2>1. Cardinality(late[r]) \in Nat /\ Cardinality(Pulling(r)) \in Nat
      BY PullingFinite, FS_CardinalityType DEF LateInv
    <2>2. Cardinality(late[r]) + Cardinality(Pulling(r)) <= runner.workers
      BY DEF LateInv
    <2>3. runner.workers \in Int
      BY LimitsAssumption DEF LateInv
    <2> QED
      BY <2>1, <2>2, <2>3
  <1>2. Spec => []LateInv
    BY InitLateInv, StepLateInv, Invariance, PTL DEF Spec
  <1> QED
    BY Invariance, <1>1, <1>2, PTL
=============================================================================
