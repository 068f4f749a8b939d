------------------------ MODULE ExecutionSpaceProofs ------------------------
(***************************************************************************)
(* Proofs about the execution space provider, for every number of          *)
(* executors, of requests and of failed calls: type correctness, that      *)
(* Status names all executors, that Stop stops them all, that a failed     *)
(* ExecutorStart leaves no orphan, and that Close waits.                   *)
(***************************************************************************)
EXTENDS ExecutionSpace, TLAPS

-----------------------------------------------------------------------------
(* The inductive invariant.                                                *)

\* The executor has met no failure of Kubernetes, and no ExecutorStart of it has
\* overlapped a Stop.
Clean(e) == e \notin raced \cup lost
Runs(e) == kube[e] \in {"running", "ready"}

\* A status that lists executors lists the ones it has gone through.
StatusInv ==
  /\ status \in {"read", "DONE"} => listed = 1..position
  /\ status = "DONE" => position = Amount

\* Once provider.Done has returned nothing joins its wait group that is waited for,
\* and once main has returned no handler is left.
CloseInv ==
  /\ service \in {"wg", "exited"} =>
       status # "read" /\ (checkout \in {"none", "done"} \/ late)
  /\ service = "exited" => ~Handling

\* Executors become known when the goroutine Checkout is done with them, and until
\* then nothing has been started.
KnownInv ==
  /\ known \/ status = "read" \/ space = "DONE" => checkout = "done"
  /\ ~known => /\ stop = "idle" /\ stopAnswer = "none"
               /\ \A e \in Executor : start[e] = "idle" /\ kube[e] = "none"

\* A Stop under way has not answered.
AnswerInv == stop # "idle" => stopAnswer = "none"

\* ExecutorStart: the database knows of a job that runs, except between its creation
\* and the save, and until a cleanup has deleted it.
StartInv ==
  \A e \in Executor : Clean(e) =>
    /\ start[e] \in {"idle", "load", "create", "waitStart"} /\ Runs(e) => spec[e] = "built"
    /\ start[e] \in {"watch", "watching", "stuck"} => ~Runs(e)

\* Stop: no start is under way, what it has passed without an error does not run,
\* and what it has checked in is not in the database.
StopInv ==
  \A e \in Executor : Clean(e) =>
    /\ stop # "idle" => start[e] = "idle"
    /\ stop \in {"watch", "watching", "stuck"} /\ index = e => ~Runs(e)
    /\ stop \notin {"idle", "checkin"} /\ ~stopErr /\ e < index => ~Runs(e)
    /\ stop = "checkin" => ~Runs(e) /\ (e < index => spec[e] = "none")

\* After Stop has answered 204 there is nothing left that could be started.
StoppedInv ==
  \A e \in Executor : Clean(e) /\ stopAnswer = "ok" =>
    /\ ~Runs(e) /\ spec[e] = "none" /\ start[e] \in {"idle", "load"}

JobInv == KnownInv /\ AnswerInv /\ StartInv /\ StopInv /\ StoppedInv

-----------------------------------------------------------------------------
(* Type correctness.                                                       *)

USE DEF database, checkoutVars, statusVars, startVars, stopVars, client, ghosts,
        Executor, Deleting, StartState, StopState, NoFault

\* FaultType: the count of failed calls stays within its bound (Fault).
LEMMA FaultType == ASSUME TypeOK, Fault PROVE faults' \in 0..MaxFaults
BY ExecutionSpaceAssumption DEF TypeOK, Fault

\* DeleteJobType: what the deletion of a job leaves has the right type (DeleteJob).
LEMMA DeleteJobType ==
  ASSUME TypeOK, NEW e \in Executor, NEW next, DeleteJob(e, next)
  PROVE  /\ kube' \in [Executor -> {"none", "running", "ready", "deleting"}]
         /\ faults' \in 0..MaxFaults /\ lost' \subseteq Executor
BY FaultType DEF TypeOK, DeleteJob, KubeFault, NoKubeFault

\* WatchPodType: and what a watch of its pod leaves (WatchPod).
LEMMA WatchPodType ==
  ASSUME TypeOK, NEW e \in Executor, NEW next, WatchPod(e, next)
  PROVE  faults' \in 0..MaxFaults /\ lost' \subseteq Executor
BY FaultType DEF TypeOK, WatchPod, KubeFault, NoKubeFault

\* NextExecutorType: Stop goes to an executor that exists (NextExecutor).
LEMMA NextExecutorType ==
  ASSUME TypeOK, NEW err \in BOOLEAN, NextExecutor(err)
  PROVE  /\ stop' \in StopState /\ index' \in Executor
         /\ stopErr' \in BOOLEAN /\ stopAnswer' \in {"none", "ok", "error"}
BY ExecutionSpaceAssumption DEF TypeOK, NextExecutor

\* CheckoutType: Start and Checkout preserve types; no executor is added beyond
\* Amount (StartRequest and the steps of Checkout).
LEMMA CheckoutType ==
  ASSUME TypeOK, StartRequest \/ Checkout PROVE TypeOK'
<1>1. CASE StartRequest
  BY <1>1 DEF StartRequest, TypeOK
<1>2. CASE CheckoutBegin
  <2>1. /\ UNCHANGED <<spec, kube, added, statusVars, startVars, stopVars, client,
                       service, lost, raced, late>>
        /\ space' \in {space, "PENDING"} /\ checkout' \in {"add", "done"}
    BY <1>2 DEF CheckoutBegin, Save, SaveFails, New
  <2>2. unsettled' \in BOOLEAN
    BY <1>2, Zenon DEF CheckoutBegin, Save, SaveFails, TypeOK
  <2>3. faults' \in 0..MaxFaults
    BY <1>2, FaultType DEF CheckoutBegin, Save, SaveFails, TypeOK
  <2> QED BY <2>1, <2>2, <2>3 DEF TypeOK
<1>3. CASE CheckoutAdd
  BY <1>3, FaultType, ExecutionSpaceAssumption
     DEF CheckoutAdd, MoreToAdd, AfterAddFails, SaveExecutor, TypeOK
<1>4. CASE CheckoutFail
  <2>1. /\ UNCHANGED <<spec, kube, added, statusVars, startVars, stopVars, client,
                       service, lost, raced, late>>
        /\ space' \in {space, "FAILED"} /\ checkout' = "done"
    BY <1>4 DEF CheckoutFail, Save, SaveFails
  <2>2. unsettled' \in BOOLEAN
    BY <1>4, Zenon DEF CheckoutFail, Save, SaveFails, TypeOK
  <2>3. faults' \in 0..MaxFaults
    BY <1>4, FaultType DEF CheckoutFail, Save, SaveFails, TypeOK
  <2> QED BY <2>1, <2>2, <2>3 DEF TypeOK
<1>5. CASE CheckoutFinish
  <2>1. faults' \in 0..MaxFaults
    BY <1>5, FaultType, ExecutionSpaceAssumption DEF CheckoutFinish, Save, TypeOK
  <2>2. /\ UNCHANGED <<spec, kube, added, statusVars, startVars, stopVars, client, lost,
                       raced, late>>
        /\ space' \in {space, "DONE", "FAILED"} /\ checkout' = "done"
        /\ service' \in {service, "crashed"}
    BY <1>5 DEF CheckoutFinish, Save
  <2>3. unsettled' \in BOOLEAN
    BY <1>5, Zenon DEF CheckoutFinish, Save, TypeOK
  <2> QED BY <2>1, <2>2, <2>3 DEF TypeOK
<1> QED BY <1>1, <1>2, <1>3, <1>4, <1>5 DEF Checkout

\* StatusType: so does Status (StatusRequest, StatusRead).
LEMMA StatusType ==
  ASSUME TypeOK, StatusRequest \/ StatusRead PROVE TypeOK'
<1>1. CASE StatusRequest
  BY <1>1, FaultType, ExecutionSpaceAssumption DEF StatusRequest, Request, TypeOK
<1>2. CASE StatusRead
  <2>1. /\ UNCHANGED <<database, kube, checkoutVars, startVars, stopVars, requests,
                       service, ghosts>>
        /\ status' \in {status, "error", "DONE"}
    BY <1>2 DEF StatusRead, StatusMissing
  <2>2. /\ position' = position \/ (position < Amount /\ position' = position + 1)
        /\ listed' = listed \/ (position < Amount /\ listed' = listed \cup {position + 1})
    BY <1>2 DEF StatusRead
  <2>5. position \in 0..Amount /\ listed \subseteq Executor
    BY DEF TypeOK
  <2>6. position' \in 0..Amount
    BY <2>2, <2>5, ExecutionSpaceAssumption
  <2>7. listed' \subseteq Executor
    <3>1. position < Amount => position + 1 \in Executor
      BY <2>5, ExecutionSpaceAssumption
    <3> QED BY <2>2, <2>5, <3>1, Zenon
  <2>3. faults' \in 0..MaxFaults
    BY <1>2, FaultType DEF StatusRead, TypeOK
  <2>4. known' \in BOOLEAN
    BY <1>2, Zenon DEF StatusRead, TypeOK
  <2> QED BY <2>1, <2>3, <2>4, <2>6, <2>7 DEF TypeOK
<1> QED BY <1>1, <1>2

\* StartType: so does every step of an ExecutorStart (executor.go:44-170).
LEMMA StartType ==
  ASSUME TypeOK, NEW e \in Executor, ExecutorStart(e) \/ ExecutorStarting(e) PROVE TypeOK'
<1> DEFINE StartTyped == /\ start \in [Executor -> StartState]
                         /\ answer \in [Executor -> {"none", "ok", "error"}]
<1> USE DEF At, Answers
<1> HIDE DEF StartTyped
<1>1. CASE ExecutorStart(e)
  BY <1>1, ExecutionSpaceAssumption DEF ExecutorStart, Request, TypeOK
<1>2. CASE StartLoad(e)
  <2>1. UNCHANGED <<database, kube, checkoutVars, statusVars, stopVars, client, service,
                    ghosts>>
    BY <1>2 DEF StartLoad
  <2>2. StartTyped'
    BY <1>2 DEF StartLoad, TypeOK, StartTyped
  <2>3. faults' \in 0..MaxFaults
    BY <1>2, FaultType DEF StartLoad, TypeOK
  <2> QED BY <2>1, <2>2, <2>3 DEF TypeOK, StartTyped
<1>3. CASE StartCreate(e)
  <2>1. UNCHANGED <<database, checkoutVars, statusVars, stopVars, client, service, raced,
                    unsettled, late>>
    BY <1>3 DEF StartCreate
  <2>2. StartTyped' /\ kube' \in [Executor -> {"none", "running", "ready", "deleting"}]
    BY <1>3 DEF StartCreate, TypeOK, StartTyped
  <2>3. faults' \in 0..MaxFaults /\ lost' \subseteq Executor
    BY <1>3, FaultType DEF StartCreate, KubeFault, NoKubeFault, TypeOK
  <2> QED BY <2>1, <2>2, <2>3 DEF TypeOK, StartTyped
<1>4. CASE StartWait(e)
  <2>1. UNCHANGED <<database, kube, checkoutVars, statusVars, stopVars, client, service,
                    raced, unsettled, late>>
    BY <1>4 DEF StartWait
  <2>2. StartTyped'
    BY <1>4 DEF StartWait, PanicRecovery, TypeOK, StartTyped
  <2>3. faults' \in 0..MaxFaults /\ lost' \subseteq Executor
    BY <1>4, FaultType DEF StartWait, PanicRecovery, KubeFault, NoKubeFault, TypeOK
  <2> QED BY <2>1, <2>2, <2>3 DEF TypeOK, StartTyped
<1>5. CASE StartSave(e)
  <2>1. UNCHANGED <<space, kube, checkoutVars, statusVars, stopVars, client, service, ghosts>>
    BY <1>5 DEF StartSave
  <2>2. StartTyped'
    BY <1>5 DEF StartSave, AfterSaveFails, TypeOK, StartTyped
  <2>3. spec' \in [Executor -> {"none", "saved", "built"}]
    BY <1>5 DEF StartSave, SaveExecutor, TypeOK
  <2>4. faults' \in 0..MaxFaults
    BY <1>5, FaultType DEF StartSave, NoFault, TypeOK
  <2> QED BY <2>1, <2>2, <2>3, <2>4 DEF TypeOK, StartTyped
<1>6. CASE StartWaitStart(e)
  BY <1>6 DEF StartWaitStart, TypeOK
<1>7. CASE StartDelete(e)
  BY <1>7, DeleteJobType, SMTT(30) DEF StartDelete, TypeOK
<1>8. CASE StartWatch(e)
  BY <1>8, WatchPodType, SMTT(30) DEF StartWatch, TypeOK
<1>9. CASE StartWatching(e)
  <2>1. UNCHANGED <<database, kube, checkoutVars, statusVars, stopVars, client, service,
                    raced, unsettled, late>>
    BY <1>9 DEF StartWatching
  <2>2. StartTyped'
    BY <1>9 DEF StartWatching, TypeOK, StartTyped
  <2>3. faults' \in 0..MaxFaults /\ lost' \subseteq Executor
    BY <1>9, FaultType DEF StartWatching, KubeFault, NoKubeFault, TypeOK
  <2> QED BY <2>1, <2>2, <2>3 DEF TypeOK, StartTyped
<1> QED BY <1>1, <1>2, <1>3, <1>4, <1>5, <1>6, <1>7, <1>8, <1>9 DEF ExecutorStarting

\* StopType: so does every step of a Stop (provider.go:277-341).
LEMMA StopType ==
  ASSUME TypeOK, StopRequest \/ Stop PROVE TypeOK'
<1> DEFINE StopTyped == /\ stop \in StopState /\ index \in Executor
                        /\ stopErr \in BOOLEAN /\ stopAnswer \in {"none", "ok", "error"}
<1>0. StopTyped /\ \A b : (stopErr \/ b) \in BOOLEAN
  BY DEF TypeOK
<1>a. ASSUME NEW err \in BOOLEAN, NextExecutor(err) PROVE StopTyped'
  BY <1>a, NextExecutorType
<1> HIDE DEF StopTyped
<1>1. CASE StopRequest
  <2>1. UNCHANGED <<database, kube, checkoutVars, statusVars, startVars, known, service,
                    faults, lost, unsettled, late>>
    BY <1>1 DEF StopRequest
  <2>2. StopTyped'
    <3>1. stopErr' \in BOOLEAN
      BY <1>1, Zenon DEF StopRequest
    <3> QED BY <1>1, <3>1, ExecutionSpaceAssumption DEF StopRequest, StopTyped
  <2>3. requests' \in 0..MaxRequests
    BY <1>1, ExecutionSpaceAssumption DEF StopRequest, Request, TypeOK
  <2>4. raced' \subseteq Executor
    BY <1>1 DEF StopRequest, TypeOK
  <2> QED BY <2>1, <2>2, <2>3, <2>4 DEF TypeOK, StopTyped
<1>2. CASE StopJob
  <2>1. UNCHANGED <<database, kube, checkoutVars, statusVars, startVars, client, service,
                    ghosts>>
    BY <1>2 DEF StopJob
  <2>2. StopTyped'
    <3>1. CASE stop' = "delete" /\ UNCHANGED <<index, stopErr, stopAnswer>>
      BY <1>0, <3>1 DEF StopTyped
    <3>2. CASE NextExecutor(stopErr)
      BY <1>0, <1>a, <3>2 DEF StopTyped
    <3>3. CASE NextExecutor(TRUE)
      BY <1>a, <3>3
    <3> QED BY <1>2, <3>1, <3>2, <3>3 DEF StopJob
  <2>3. faults' \in 0..MaxFaults
    BY <1>2, FaultType DEF StopJob, TypeOK
  <2> QED BY <2>1, <2>2, <2>3 DEF TypeOK, StopTyped
<1>3. CASE StopDelete
  <2>1. PICK next \in {"watch", "nil", "error"} :
          /\ DeleteJob(index, next)
          /\ IF next = "watch" THEN stop' = next /\ UNCHANGED <<index, stopErr, stopAnswer>>
                               ELSE NextExecutor(stopErr \/ next = "error")
    BY <1>3 DEF StopDelete
  <2>2. UNCHANGED <<database, checkoutVars, statusVars, startVars, client, service, raced,
                    unsettled, late>>
    BY <1>3 DEF StopDelete
  <2>3. StopTyped'
    BY <1>0, <1>a, <2>1 DEF StopTyped
  <2>4. /\ kube' \in [Executor -> {"none", "running", "ready", "deleting"}]
        /\ faults' \in 0..MaxFaults /\ lost' \subseteq Executor
    BY <1>0, <2>1, DeleteJobType DEF StopTyped
  <2> QED BY <2>2, <2>3, <2>4 DEF TypeOK, StopTyped
<1>4. CASE StopWatch
  <2>1. PICK next \in {"watching", "stuck", "nil", "error"} :
          /\ WatchPod(index, next)
          /\ IF next \in Deleting
             THEN stop' = next /\ UNCHANGED <<index, stopErr, stopAnswer>>
             ELSE NextExecutor(stopErr \/ next = "error")
    BY <1>4 DEF StopWatch
  <2>2. UNCHANGED <<database, kube, checkoutVars, statusVars, startVars, client, service,
                    raced, unsettled, late>>
    BY <1>4 DEF StopWatch
  <2>3. StopTyped'
    BY <1>0, <1>a, <2>1 DEF StopTyped
  <2>4. faults' \in 0..MaxFaults /\ lost' \subseteq Executor
    BY <1>0, <2>1, WatchPodType DEF StopTyped
  <2> QED BY <2>2, <2>3, <2>4 DEF TypeOK, StopTyped
<1>5. CASE StopWatching
  <2>1. UNCHANGED <<database, kube, checkoutVars, statusVars, startVars, client, service,
                    faults, ghosts>>
    BY <1>5 DEF StopWatching
  <2>2. StopTyped'
    <3>1. CASE stop' = "watching" /\ UNCHANGED <<index, stopErr, stopAnswer>>
      BY <1>0, <3>1 DEF StopTyped
    <3>2. CASE NextExecutor(stopErr)
      BY <1>0, <1>a, <3>2 DEF StopTyped
    <3>3. CASE NextExecutor(TRUE)
      BY <1>a, <3>3
    <3> QED BY <1>5, <3>1, <3>2, <3>3 DEF StopWatching
  <2> QED BY <2>1, <2>2 DEF TypeOK, StopTyped
<1>6. CASE StopCheckin
  BY <1>6, FaultType, ExecutionSpaceAssumption, SMTT(30) DEF StopCheckin, Checkin, Delete, TypeOK
<1> QED BY <1>1, <1>2, <1>3, <1>4, <1>5, <1>6 DEF Stop

\* ServiceType: so do the pods and the shutdown of the service (main, Close).
LEMMA ServiceType ==
  ASSUME TypeOK,
         \/ Drain \/ Drained \/ CloseActive \/ CloseHandlers
         \/ \E e \in Executor : PodReady(e) \/ PodEnds(e) \/ PodDeleted(e)
  PROVE  TypeOK'
<1>1. CASE Drain \/ Drained \/ CloseActive \/ CloseHandlers
  <2>1. /\ UNCHANGED <<database, kube, checkoutVars, statusVars, startVars, stopVars, client,
                       faults, lost, raced, unsettled>>
        /\ service' \in {"draining", "active", "wg", "exited"}
    BY <1>1 DEF Drain, Drained, CloseActive, CloseHandlers
  <2>2. late' \in BOOLEAN
    BY <1>1, Zenon DEF Drain, Drained, CloseActive, CloseHandlers, TypeOK
  <2> QED BY <2>1, <2>2 DEF TypeOK
<1>2. CASE \E e \in Executor : PodReady(e) \/ PodEnds(e) \/ PodDeleted(e)
  <2>1. /\ UNCHANGED <<database, checkoutVars, statusVars, startVars, stopVars, client,
                       service, faults, ghosts>>
        /\ kube' \in [Executor -> {"none", "running", "ready", "deleting"}]
    BY <1>2 DEF PodReady, PodEnds, PodDeleted, TypeOK
  <2> QED BY <2>1 DEF TypeOK
<1> QED BY <1>1, <1>2

\* NextType: a step of the specification is a step of one of these.
LEMMA NextType == TypeOK /\ [Next]_vars => TypeOK'
<1>1. ASSUME TypeOK, Next PROVE TypeOK'
  BY <1>1, CheckoutType, StatusType, StartType, StopType, ServiceType
     DEF Next, Checkout, Stop, ExecutorStarting
<1>2. ASSUME TypeOK, UNCHANGED vars PROVE TypeOK'
  BY <1>2 DEF vars, TypeOK
<1> QED BY <1>1, <1>2

\* TypeCorrect: every variable of the model keeps its type; in particular Checkout
\* adds no executor beyond Amount and Stop never looks past the last one
\* (provider.go:113, v1alpha/provider.go:300).
THEOREM TypeCorrect == Spec => []TypeOK
<1>1. Init => TypeOK
  <2> SUFFICES ASSUME Init PROVE TypeOK
    OBVIOUS
  <2>1. /\ stopErr \in BOOLEAN /\ known \in BOOLEAN
        /\ unsettled \in BOOLEAN /\ late \in BOOLEAN
    BY DEF Init
  <2> QED BY <2>1, ExecutionSpaceAssumption DEF Init, TypeOK
<1> QED BY <1>1, NextType, PTL DEF Spec
-----------------------------------------------------------------------------
(* Status and Close.                                                       *)

\* StatusStep: Status adds each executor it has read to its answer, and answers DONE
\* only when it has gone through all of them (providerCore.Status).
LEMMA StatusStep == TypeOK /\ StatusInv /\ [Next]_vars => StatusInv'
<1> SUFFICES ASSUME TypeOK, StatusInv, [Next]_vars PROVE StatusInv'
  OBVIOUS
<1>1. CASE StatusRequest
  <2>1. position' = 0 /\ listed' = {} /\ status' # "DONE"
    BY <1>1 DEF StatusRequest
  <2> QED BY <2>1 DEF StatusInv
<1>2. CASE StatusRead
  <2>1. status = "read" /\ listed = 1..position /\ position \in 0..Amount /\ Amount \in Nat
    BY <1>2, ExecutionSpaceAssumption DEF StatusRead, StatusInv, TypeOK
  <2>2. \/ status' = status /\ position' = position + 1 /\ listed' = listed \cup {position + 1}
        \/ status' = "error"
        \/ position = Amount /\ status' = "DONE" /\ UNCHANGED <<position, listed>>
    BY <1>2 DEF StatusRead, StatusMissing
  <2>3. (1..position) \cup {position + 1} = 1..(position + 1)
    BY <2>1
  <2> QED BY <2>1, <2>2, <2>3 DEF StatusInv
<1>3. CASE UNCHANGED statusVars
  BY <1>3 DEF StatusInv
<1>4. StatusRequest \/ StatusRead \/ UNCHANGED statusVars
  BY ZenonT(60)
     DEF Next, vars, StartRequest, CheckoutBegin, CheckoutAdd, CheckoutFail, CheckoutFinish,
         ExecutorStart, StartLoad, StartCreate, StartWait, StartSave, StartWaitStart,
         StartDelete, StartWatch, StartWatching, PodReady, PodEnds, PodDeleted,
         StopRequest, StopJob, StopDelete, StopWatch, StopWatching, StopCheckin,
         Drain, Drained, CloseActive, CloseHandlers
<1> QED BY <1>1, <1>2, <1>3, <1>4

\* StatusIsComplete: a status answer DONE names every executor of the checkout,
\* whatever Checkout and Stop do while it is put together (providerCore.Status).
THEOREM StatusIsComplete == Spec => []StatusComplete
<1>1. Init => StatusInv
  BY DEF Init, StatusInv
<1>2. StatusInv => StatusComplete
  BY DEF StatusInv, StatusComplete
<1> QED BY <1>1, <1>2, StatusStep, TypeCorrect, PTL DEF Spec
\* CloseStep: the wait groups are waited for one after the other; what could join the
\* first one again has to be a request, and those are refused by then (Close).
LEMMA CloseStep == TypeOK /\ CloseInv /\ [Next]_vars => CloseInv'
<1> SUFFICES ASSUME TypeOK, CloseInv, [Next]_vars PROVE CloseInv'
  OBVIOUS
<1>1. CASE CloseActive
  <2>1. /\ UNCHANGED <<status, checkout>> /\ service' = "wg"
        /\ checkout = "spawned" => late'
        /\ checkout \notin {"add", "finish", "fail"} /\ status # "read"
    BY <1>1 DEF CloseActive, Active
  <2>2. checkout \in {"none", "done"} \/ late'
    BY <2>1 DEF TypeOK
  <2> QED BY <2>1, <2>2 DEF CloseInv
<1>2. CASE CloseHandlers
  BY <1>2 DEF CloseHandlers, CloseInv, Handling
<1>3. CASE service \notin {"wg", "exited"} /\ ~CloseActive /\ ~CloseHandlers
  <2>1. service' \notin {"wg", "exited"}
    BY <1>3, ZenonT(60) DEF Next, vars, StartRequest, CheckoutBegin, CheckoutAdd, CheckoutFail,
       CheckoutFinish, StatusRequest, StatusRead,
       ExecutorStart, StartLoad, StartCreate, StartWait, StartSave, StartWaitStart,
       StartDelete, StartWatch, StartWatching, PodReady, PodEnds, PodDeleted,
       StopRequest, StopJob, StopDelete, StopWatch, StopWatching, StopCheckin,
       Drain, Drained
  <2> QED BY <2>1 DEF CloseInv
<1>4. CASE service = "exited"
  <2>1. UNCHANGED <<service, status, checkout, stop, start, late>>
    BY <1>4 DEF Next, vars, Running, StartRequest, CheckoutBegin, CheckoutAdd, CheckoutFail,
       CheckoutFinish, StatusRequest, StatusRead,
       ExecutorStart, StartLoad, StartCreate, StartWait, StartSave, StartWaitStart,
       StartDelete, StartWatch, StartWatching, PodReady, PodEnds, PodDeleted,
       StopRequest, StopJob, StopDelete, StopWatch, StopWatching, StopCheckin,
       Drain, Drained, CloseActive, CloseHandlers
  <2> QED BY <2>1 DEF CloseInv, Handling
<1>5. CASE service = "wg" /\ ~CloseActive /\ ~CloseHandlers
  <2>1. /\ service' # "exited" /\ late' = late /\ status' # "read"
        /\ checkout \in {"none", "done"} => checkout' = checkout
    BY <1>5, ZenonT(60)
       DEF CloseInv, Next, vars, StartRequest, CheckoutBegin, CheckoutAdd, CheckoutFail,
       CheckoutFinish, StatusRequest, StatusRead,
       ExecutorStart, StartLoad, StartCreate, StartWait, StartSave, StartWaitStart,
       StartDelete, StartWatch, StartWatching, PodReady, PodEnds, PodDeleted,
       StopRequest, StopJob, StopDelete, StopWatch, StopWatching, StopCheckin,
       Drain, Drained
  <2> QED BY <1>5, <2>1 DEF CloseInv
<1> QED BY <1>1, <1>2, <1>3, <1>4, <1>5

\* CloseReallyWaits: the process exits only when no request and no checkout is in
\* progress, except for a checkout whose goroutine had not begun to run when
\* provider.Done returned (Close, provider.go:147-151).
THEOREM CloseReallyWaits == Spec => []CloseWaits
<1>1. Init => CloseInv
  BY DEF Init, CloseInv
<1>2. CloseInv => CloseWaits
  BY DEF CloseInv, CloseWaits
<1> QED BY <1>1, <1>2, CloseStep, TypeCorrect, PTL DEF Spec
-----------------------------------------------------------------------------
(* ExecutorStart and Stop.                                                 *)

\* DeleteJobEffect: a deletion makes no job run, and leaves the job it is about
\* running only when it fails (KubernetesExecutor.Stop).
LEMMA DeleteJobEffect ==
  ASSUME TypeOK, NEW x \in Executor, NEW next, DeleteJob(x, next)
  PROVE  /\ \A e \in Executor : Runs(e)' => Runs(e)
         /\ \A e \in Executor \ {x} : kube'[e] = kube[e]
         /\ next \in {"watch", "nil"} => ~Runs(x)'
         /\ lost \subseteq lost'
         /\ next \notin {"watch", "nil"} => x \in lost'
BY DEF TypeOK, DeleteJob, KubeFault, NoKubeFault, Runs

\* WatchPodEffect: a watch that cannot be set up is a failure of Kubernetes
\* (KubernetesExecutor.Stop).
LEMMA WatchPodEffect ==
  ASSUME NEW x \in Executor, NEW next, WatchPod(x, next)
  PROVE  /\ lost \subseteq lost'
         /\ next \notin {"watching", "stuck"} => x \in lost'
BY DEF WatchPod, KubeFault, NoKubeFault

\* StartFrame: to preserve the invariant, a step of the ExecutorStart of x only has
\* to see to x itself.
LEMMA StartFrame ==
  ASSUME TypeOK, JobInv, NEW x \in Executor, start[x] # "idle",
         UNCHANGED <<space, checkout, status, stopVars, known, raced>>,
         lost \subseteq lost',
         \A e \in Executor \ {x} :
           start'[e] = start[e] /\ kube'[e] = kube[e] /\ spec'[e] = spec[e],
         Clean(x)' =>
           /\ start'[x] \in {"idle", "load", "create", "waitStart"} /\ Runs(x)'
                => spec'[x] = "built"
           /\ start'[x] \in {"watch", "watching", "stuck"} => ~Runs(x)'
           /\ stopAnswer = "ok" => /\ ~Runs(x)' /\ spec'[x] = "none"
                                  /\ start'[x] \in {"idle", "load"}
  PROVE  JobInv'
<1>1. known /\ (Clean(x) => stop = "idle")
  BY DEF JobInv, KnownInv, StopInv
<1>2. \A e \in Executor : Clean(e)' => Clean(e)
  BY DEF Clean
<1>3. KnownInv' /\ AnswerInv'
  BY <1>1 DEF JobInv, KnownInv, AnswerInv
<1>4. StartInv'
  BY <1>2 DEF JobInv, StartInv, Runs
<1>5. StopInv'
  BY <1>1, <1>2 DEF JobInv, StopInv, Runs
<1>6. StoppedInv'
  BY <1>2 DEF JobInv, StoppedInv, Runs
<1> QED BY <1>3, <1>4, <1>5, <1>6 DEF JobInv

\* StartStep: each step of ExecutorStart, with its failures and its cleanup, leaves no
\* job that runs unknown to the database (executor.go:44-170).
LEMMA StartStep ==
  ASSUME TypeOK, JobInv, NEW x \in Executor, ExecutorStarting(x)
  PROVE  JobInv'
<1> USE DEF At, Answers, Runs
<1>a. Clean(x)' => Clean(x)
  BY DEF ExecutorStarting, StartLoad, StartCreate, StartWait, StartSave, StartWaitStart,
         StartDelete, StartWatch, StartWatching, PanicRecovery, KubeFault, NoKubeFault,
         DeleteJob, WatchPod, Clean
<1>b. Clean(x) =>
        /\ start[x] \in {"idle", "load", "create", "waitStart"} /\ Runs(x) => spec[x] = "built"
        /\ start[x] \in {"watch", "watching", "stuck"} => ~Runs(x)
        /\ stopAnswer = "ok" => /\ ~Runs(x) /\ spec[x] = "none"
                               /\ start[x] \in {"idle", "load"}
  BY DEF JobInv, StartInv, StoppedInv
<1>1. CASE StartLoad(x)
  <2>1. /\ UNCHANGED <<database, kube, checkoutVars, statusVars, stopVars, client, service,
                       ghosts>>
        /\ start[x] = "load"
    BY <1>1 DEF StartLoad
  <2>2. /\ \A e \in Executor \ {x} : start'[e] = start[e]
        /\ (spec[x] # "none" /\ start'[x] = "create") \/ start'[x] = "idle"
    BY <1>1 DEF StartLoad, LoadExecutorSpec, TypeOK
  <2> QED BY <1>a, <1>b, <2>1, <2>2, StartFrame
<1>2. CASE StartCreate(x)
  <2>1. /\ UNCHANGED <<database, checkoutVars, statusVars, stopVars, client, service, raced>>
        /\ start[x] = "create" /\ lost \subseteq lost'
    BY <1>2 DEF StartCreate, KubeFault, NoKubeFault
  <2>2. \A e \in Executor \ {x} : start'[e] = start[e] /\ kube'[e] = kube[e]
    BY <1>2 DEF StartCreate, TypeOK
  <2>3. \/ start'[x] = "wait"
        \/ start'[x] = "idle" /\ kube' = kube
        \/ x \in lost'
    BY <1>2 DEF StartCreate, KubeFault, TypeOK
  <2>4. Clean(x)' => start'[x] = "wait" \/ (start'[x] = "idle" /\ kube' = kube)
    BY <2>3 DEF Clean
  <2> QED BY <1>a, <1>b, <2>1, <2>2, <2>4, StartFrame
<1>3. CASE StartWait(x)
  <2>1. /\ UNCHANGED <<database, kube, checkoutVars, statusVars, stopVars, client, raced>>
        /\ start[x] = "wait" /\ lost \subseteq lost'
    BY <1>3 DEF StartWait, PanicRecovery, KubeFault, NoKubeFault
  <2>2. /\ \A e \in Executor \ {x} : start'[e] = start[e]
        /\ start'[x] \in {"save", "delete"} \/ x \in lost'
    BY <1>3 DEF StartWait, PanicRecovery, KubeFault, TypeOK
  <2>3. Clean(x)' => start'[x] \in {"save", "delete"}
    BY <2>2 DEF Clean
  <2> QED BY <1>a, <1>b, <2>1, <2>2, <2>3, StartFrame
<1>4. CASE StartSave(x)
  <2>1. /\ UNCHANGED <<space, kube, checkoutVars, statusVars, stopVars, client, service, ghosts>>
        /\ start[x] = "save"
    BY <1>4 DEF StartSave
  <2>2. /\ \A e \in Executor \ {x} : start'[e] = start[e] /\ spec'[e] = spec[e]
        /\ \/ start'[x] = "waitStart" /\ spec'[x] = "built"
           \/ start'[x] = "delete"
    BY <1>4, ZenonT(60) DEF StartSave, SaveExecutor, AfterSaveFails, TypeOK
  <2> QED BY <1>a, <1>b, <2>1, <2>2, StartFrame
<1>5. CASE StartWaitStart(x)
  <2>1. /\ UNCHANGED <<database, kube, checkoutVars, statusVars, stopVars, client, service,
                       ghosts>>
        /\ start[x] = "waitStart"
    BY <1>5 DEF StartWaitStart
  <2>2. /\ \A e \in Executor \ {x} : start'[e] = start[e]
        /\ start'[x] \in {"idle", "delete"}
    BY <1>5 DEF StartWaitStart, TypeOK
  <2> QED BY <1>a, <1>b, <2>1, <2>2, StartFrame
<1>6. CASE StartDelete(x)
  <2>1. PICK next \in {"watch", "nil", "error"} :
          /\ DeleteJob(x, next)
          /\ IF next = "watch" THEN At(x, "watch") ELSE At(x, "idle")
    BY <1>6 DEF StartDelete
  <2>2. /\ UNCHANGED <<database, checkoutVars, statusVars, stopVars, client, raced>>
        /\ start[x] = "delete"
    BY <1>6 DEF StartDelete
  <2>3. /\ \A e \in Executor \ {x} : start'[e] = start[e] /\ kube'[e] = kube[e]
        /\ start'[x] \in {"watch", "idle"}
    BY <2>1, DeleteJobEffect, ZenonT(60) DEF TypeOK
  <2>4. Clean(x)' => ~Runs(x)'
    BY <2>1, DeleteJobEffect DEF Clean
  <2>5. lost \subseteq lost'
    BY <2>1, DeleteJobEffect
  <2> QED BY <1>a, <1>b, <2>2, <2>3, <2>4, <2>5, StartFrame
<1>7. CASE StartWatch(x)
  <2>1. PICK next \in {"watching", "stuck", "nil", "error"} :
          /\ WatchPod(x, next)
          /\ IF next \in Deleting THEN At(x, next) ELSE At(x, "idle")
    BY <1>7 DEF StartWatch
  <2>2. /\ UNCHANGED <<database, kube, checkoutVars, statusVars, stopVars, client, raced>>
        /\ start[x] = "watch"
    BY <1>7 DEF StartWatch
  <2>3. /\ \A e \in Executor \ {x} : start'[e] = start[e]
        /\ start'[x] \in {"watching", "stuck", "idle"}
    BY <2>1 DEF TypeOK
  <2>4. lost \subseteq lost'
    BY <2>1, WatchPodEffect
  <2> QED BY <1>a, <1>b, <2>2, <2>3, <2>4, StartFrame
<1>8. CASE StartWatching(x)
  <2>1. /\ UNCHANGED <<database, kube, checkoutVars, statusVars, stopVars, client, raced>>
        /\ start[x] = "watching" /\ lost \subseteq lost'
    BY <1>8 DEF StartWatching, KubeFault, NoKubeFault
  <2>2. /\ \A e \in Executor \ {x} : start'[e] = start[e]
        /\ start'[x] \in {"idle", "stuck"}
    BY <1>8 DEF StartWatching, TypeOK
  <2> QED BY <1>a, <1>b, <2>1, <2>2, StartFrame
<1> QED BY <1>1, <1>2, <1>3, <1>4, <1>5, <1>6, <1>7, <1>8 DEF ExecutorStarting
\* StopAdvance: Stop may go on from an executor that it has not failed to stop, if
\* the job of that executor no longer runs (NextExecutor).
LEMMA StopAdvance ==
  ASSUME TypeOK, JobInv, NEW i \in Executor, index = i,
         stop \notin {"idle", "checkin"}, NEW err \in BOOLEAN, NextExecutor(err), stopErr => err,
         UNCHANGED <<database, checkout, status, start, known, raced>>,
         lost \subseteq lost',
         \A e \in Executor : Runs(e)' => Runs(e),
         ~err /\ Clean(i)' => ~Runs(i)'
  PROVE  JobInv'
<1>1. known /\ stopAnswer = "none"
  BY DEF JobInv, KnownInv, AnswerInv
<1>2. \A e \in Executor : Clean(e)' => Clean(e)
  BY DEF Clean
<1>4. i \in 1..Amount /\ Amount \in Nat
  BY ExecutionSpaceAssumption
<1>3. /\ stopErr' = err
      /\ \/ /\ stop' = "job" /\ index' = index + 1 /\ stopAnswer' = "none"
         \/ stop' = "idle" /\ stopAnswer' = "error"
         \/ /\ stop' = "checkin" /\ index' = 1 /\ index = Amount /\ ~err
            /\ stopAnswer' = "none"
  BY <1>1, <1>4 DEF NextExecutor
<1>5. KnownInv' /\ AnswerInv' /\ StoppedInv'
  BY <1>1, <1>3 DEF JobInv, KnownInv, AnswerInv, StoppedInv
<1>6. StartInv'
  BY <1>2 DEF JobInv, StartInv
<1>7. ASSUME NEW e \in Executor, Clean(e)', ~err, e <= i PROVE ~Runs(e)'
  <2>1. CASE e = i
    BY <1>7, <2>1
  <2>2. CASE e < i
    BY <1>2, <1>7, <2>2 DEF JobInv, StopInv
  <2> QED BY <1>4, <1>7, <2>1, <2>2
<1>8. ASSUME NEW e \in Executor, Clean(e)'
      PROVE  /\ start'[e] = "idle"
             /\ stop' \notin {"idle", "checkin"} /\ ~stopErr' /\ e < index' => ~Runs(e)'
             /\ stop' = "checkin" => ~Runs(e)' /\ ~(e < index')
  <2>1. start'[e] = "idle"
    BY <1>2, <1>8 DEF JobInv, StopInv
  <2>2. stop' \notin {"idle", "checkin"} /\ ~stopErr' /\ e < index' => ~Runs(e)'
    BY <1>3, <1>4, <1>7, <1>8
  <2>3. stop' = "checkin" => ~Runs(e)' /\ ~(e < index')
    BY <1>3, <1>4, <1>7, <1>8
  <2> QED BY <2>1, <2>2, <2>3
<1>9. StopInv'
  BY <1>3, <1>8 DEF StopInv
<1> QED BY <1>5, <1>6, <1>9 DEF JobInv

\* StopStays: Stop may go on to wait for an executor whose job no longer runs.
LEMMA StopStays ==
  ASSUME TypeOK, JobInv, NEW i \in Executor, index = i,
         stop \notin {"idle", "checkin"}, stop' \notin {"idle", "checkin"},
         UNCHANGED <<database, checkout, status, start, known, raced,
                     index, stopErr, stopAnswer>>,
         lost \subseteq lost',
         \A e \in Executor : Runs(e)' => Runs(e),
         stop' \in {"watch", "watching", "stuck"} /\ Clean(i)' => ~Runs(i)'
  PROVE  JobInv'
<1>1. known /\ stopAnswer = "none"
  BY DEF JobInv, KnownInv, AnswerInv
<1>2. \A e \in Executor : Clean(e)' => Clean(e)
  BY DEF Clean
<1>3. KnownInv' /\ AnswerInv' /\ StoppedInv'
  BY <1>1 DEF JobInv, KnownInv, AnswerInv, StoppedInv
<1>4. StartInv'
  BY <1>2 DEF JobInv, StartInv
<1>5. StopInv'
  BY <1>2 DEF JobInv, StopInv
<1> QED BY <1>3, <1>4, <1>5 DEF JobInv

\* StopStep: each step of Stop preserves the invariant: it passes no clean executor
\* whose job runs, and checks none in before it has passed all (provider.go:300-341).
LEMMA StopStep == ASSUME TypeOK, JobInv, Stop PROVE JobInv'
<1>0. PICK i \in Executor : index = i /\ stopErr \in BOOLEAN
  BY DEF TypeOK
<1>1. CASE StopJob
  <2>1. /\ UNCHANGED <<database, kube, checkoutVars, statusVars, startVars, client, service,
                       ghosts>>
        /\ stop = "job"
    BY <1>1 DEF StopJob
  <2>2. \A e \in Executor : Runs(e)' <=> Runs(e)
    BY <2>1 DEF Runs
  <2>3. CASE stop' = "delete" /\ UNCHANGED <<index, stopErr, stopAnswer>>
    BY <1>0, <2>1, <2>2, <2>3, StopStays
  <2>4. CASE spec[index] # "built" /\ NextExecutor(stopErr)
    <3>1. Clean(i)' => ~Runs(i)'
      BY <1>0, <2>1, <2>2, <2>4 DEF JobInv, StartInv, StopInv, Clean
    <3> QED BY <1>0, <2>1, <2>2, <2>4, <3>1, StopAdvance
  <2>5. CASE NextExecutor(TRUE)
    BY <1>0, <2>1, <2>2, <2>5, StopAdvance
  <2> QED BY <1>1, <2>3, <2>4, <2>5 DEF StopJob, Job
<1>2. CASE StopDelete
  <2>1. PICK next \in {"watch", "nil", "error"} :
          /\ DeleteJob(i, next)
          /\ IF next = "watch" THEN stop' = next /\ UNCHANGED <<index, stopErr, stopAnswer>>
                               ELSE NextExecutor(stopErr \/ next = "error")
    BY <1>0, <1>2 DEF StopDelete
  <2>2. /\ UNCHANGED <<database, checkoutVars, statusVars, startVars, client, raced>>
        /\ stop = "delete"
    BY <1>2 DEF StopDelete
  <2>3. /\ \A e \in Executor : Runs(e)' => Runs(e)
        /\ next \in {"watch", "nil"} => ~Runs(i)'
        /\ lost \subseteq lost'
    BY <1>0, <2>1, DeleteJobEffect
  <2>4. CASE next = "watch"
    BY <1>0, <2>1, <2>2, <2>3, <2>4, StopStays
  <2>5. CASE next = "nil"
    <3>1. NextExecutor(stopErr)
      BY <1>0, <2>1, <2>5
    <3> QED BY <1>0, <2>2, <2>3, <2>5, <3>1, StopAdvance
  <2>6. CASE next = "error"
    <3>1. NextExecutor(TRUE)
      BY <1>0, <2>1, <2>6
    <3> QED BY <1>0, <2>2, <2>3, <3>1, StopAdvance
  <2> QED BY <2>4, <2>5, <2>6
<1>3. CASE StopWatch
  <2>1. PICK next \in {"watching", "stuck", "nil", "error"} :
          /\ WatchPod(i, next)
          /\ IF next \in Deleting
             THEN stop' = next /\ UNCHANGED <<index, stopErr, stopAnswer>>
             ELSE NextExecutor(stopErr \/ next = "error")
    BY <1>0, <1>3 DEF StopWatch
  <2>2. /\ UNCHANGED <<database, kube, checkoutVars, statusVars, startVars, client, raced>>
        /\ stop = "watch"
    BY <1>3 DEF StopWatch
  <2>3. \A e \in Executor : Runs(e)' <=> Runs(e)
    BY <2>2 DEF Runs
  <2>4. lost \subseteq lost' /\ (next \in {"nil", "error"} => i \in lost')
    BY <1>0, <2>1, WatchPodEffect
  <2>5. Clean(i)' => ~Runs(i)' /\ next \notin {"nil", "error"}
    BY <1>0, <2>2, <2>3, <2>4 DEF JobInv, StopInv, Clean
  <2>6. CASE next \in {"watching", "stuck"}
    BY <1>0, <2>1, <2>2, <2>3, <2>4, <2>5, <2>6, StopStays
  <2>7. CASE next \in {"nil", "error"}
    <3>1. PICK err \in BOOLEAN : NextExecutor(err) /\ (stopErr => err)
      BY <1>0, <2>1, <2>7
    <3> QED BY <1>0, <2>2, <2>3, <2>4, <2>5, <2>7, <3>1, StopAdvance
  <2> QED BY <2>6, <2>7
<1>4. CASE StopWatching
  <2>1. /\ UNCHANGED <<database, kube, checkoutVars, statusVars, startVars, client, ghosts>>
        /\ stop \in {"watching", "stuck"}
    BY <1>4 DEF StopWatching
  <2>2. \A e \in Executor : Runs(e)' <=> Runs(e)
    BY <2>1 DEF Runs
  <2>3. Clean(i)' => ~Runs(i)'
    BY <1>0, <2>1, <2>2 DEF JobInv, StopInv, Clean
  <2>4. CASE NextExecutor(stopErr)
    BY <1>0, <2>1, <2>2, <2>3, <2>4, StopAdvance
  <2>5. CASE NextExecutor(TRUE)
    BY <1>0, <2>1, <2>2, <2>3, <2>5, StopAdvance
  <2>6. CASE stop' = "watching" /\ UNCHANGED <<index, stopErr, stopAnswer>>
    BY <1>0, <2>1, <2>2, <2>3, <2>6, StopStays
  <2> QED BY <1>4, <2>4, <2>5, <2>6 DEF StopWatching
<1>5. CASE StopCheckin
  <2>1. /\ UNCHANGED <<space, kube, checkoutVars, statusVars, startVars, stopErr, client,
                       ghosts>>
        /\ stop = "checkin"
    BY <1>5 DEF StopCheckin
  <2>2. /\ known /\ stopAnswer = "none"
        /\ \A e \in Executor : Clean(e) =>
             ~Runs(e) /\ start[e] = "idle" /\ (e < index => spec[e] = "none")
    BY <2>1 DEF JobInv, KnownInv, AnswerInv, StopInv
  <2>3. \A e \in Executor : (Runs(e)' <=> Runs(e)) /\ (Clean(e)' <=> Clean(e))
    BY <2>1 DEF Runs, Clean
  <2>4. \A e \in Executor : spec'[e] = spec[e] \/ spec'[e] = "none"
    BY <1>5 DEF StopCheckin, Checkin, Delete, TypeOK
  <2>5. KnownInv'
    BY <2>1, <2>2 DEF JobInv, KnownInv
  <2>6. StartInv'
    BY <2>1, <2>2, <2>3 DEF StartInv
  <2>7. CASE Checkin
    <3>1. spec'[index] = "none"
      BY <2>7 DEF Checkin, Delete, TypeOK
    <3>2. \/ stop' = stop /\ stopAnswer' = stopAnswer /\ index' = index + 1
          \/ stop' = "idle" /\ index = Amount
      BY <1>0, <2>7, ExecutionSpaceAssumption DEF Checkin
    <3>3. \A e \in Executor : Clean(e)' /\ e <= index => spec'[e] = "none"
      BY <1>0, <2>2, <2>3, <2>4, <3>1
    <3>4. AnswerInv'
      BY <2>2, <3>2 DEF AnswerInv
    <3>5. StopInv'
      BY <1>0, <2>1, <2>2, <2>3, <3>2, <3>3 DEF StopInv
    <3>6. stopAnswer' = "ok" => index = Amount
      BY <1>0, <2>2, <2>7, ExecutionSpaceAssumption DEF Checkin
    <3>7. StoppedInv'
      BY <1>0, <2>1, <2>2, <2>3, <3>3, <3>6 DEF StoppedInv
    <3> QED BY <2>5, <2>6, <3>4, <3>5, <3>7 DEF JobInv
  <2>8. CASE stop' = "idle" /\ stopAnswer' = "error"
    BY <2>5, <2>6, <2>8 DEF JobInv, AnswerInv, StopInv, StoppedInv
  <2> QED BY <1>5, <2>7, <2>8 DEF StopCheckin
<1> QED BY <1>1, <1>2, <1>3, <1>4, <1>5 DEF Stop
\* RequestStep: an ExecutorStart that arrives during a Stop, or is under way when a
\* Stop arrives, is one that has raced (ExecutorStart, Stop).
LEMMA RequestStep ==
  ASSUME TypeOK, JobInv, StopRequest \/ \E e \in Executor : ExecutorStart(e) PROVE JobInv'
<1>1. CASE StopRequest
  <2>1. /\ UNCHANGED <<database, kube, checkoutVars, statusVars, startVars, known, lost>>
        /\ known /\ stop' = "job" /\ index' = 1 /\ stopAnswer' = "none"
        /\ raced' = raced \cup {e \in Executor : start[e] # "idle"}
    BY <1>1 DEF StopRequest
  <2>2. \A e \in Executor : Clean(e)' => Clean(e) /\ start[e] = "idle"
    BY <2>1 DEF Clean
  <2>3. \A e \in Executor : (Runs(e)' <=> Runs(e)) /\ ~(e < 1)
    BY <2>1 DEF Runs
  <2>4. KnownInv' /\ AnswerInv' /\ StoppedInv'
    BY <2>1 DEF JobInv, KnownInv, AnswerInv, StoppedInv
  <2>5. StartInv'
    BY <2>1, <2>2, <2>3 DEF JobInv, StartInv
  <2>6. StopInv'
    BY <2>1, <2>2, <2>3 DEF StopInv
  <2> QED BY <2>4, <2>5, <2>6 DEF JobInv
<1>2. ASSUME NEW x \in Executor, ExecutorStart(x) PROVE JobInv'
  <2>1. /\ UNCHANGED <<database, kube, checkoutVars, statusVars, stopVars, known, lost>>
        /\ known /\ start[x] = "idle"
        /\ raced' = IF stop = "idle" THEN raced ELSE raced \cup {x}
    BY <1>2 DEF ExecutorStart
  <2>2. /\ \A e \in Executor \ {x} : start'[e] = start[e]
        /\ start'[x] = "load"
    BY <1>2 DEF ExecutorStart, At, TypeOK
  <2>3. \A e \in Executor : Clean(e)' => Clean(e) /\ (stop = "idle" \/ e # x)
    BY <2>1 DEF Clean
  <2>4. \A e \in Executor : Runs(e)' <=> Runs(e)
    BY <2>1 DEF Runs
  <2>5. KnownInv' /\ AnswerInv'
    BY <2>1 DEF JobInv, KnownInv, AnswerInv
  <2>6. StartInv'
    BY <2>1, <2>2, <2>3, <2>4 DEF JobInv, StartInv
  <2>7. StopInv'
    BY <2>1, <2>2, <2>3, <2>4 DEF JobInv, StopInv
  <2>8. StoppedInv'
    BY <2>1, <2>2, <2>3, <2>4 DEF JobInv, StoppedInv
  <2> QED BY <2>5, <2>6, <2>7, <2>8 DEF JobInv
<1> QED BY <1>1, <1>2

\* QuietStep: a step that leaves jobs, specifications and handlers alone, and does not
\* take back that Checkout is done, preserves the invariant.
LEMMA QuietStep ==
  ASSUME JobInv, UNCHANGED <<spec, start, stop, index, stopErr, stopAnswer, lost, raced>>,
         \A e \in Executor : Runs(e)' <=> Runs(e),
         KnownInv'
  PROVE  JobInv'
<1>1. \A e \in Executor : Clean(e)' <=> Clean(e)
  BY DEF Clean
<1>2. AnswerInv' /\ StartInv' /\ StopInv' /\ StoppedInv'
  BY <1>1 DEF JobInv, AnswerInv, StartInv, StopInv, StoppedInv
<1> QED BY <1>2 DEF JobInv

\* CheckoutStep: Checkout writes specifications only while no executor is known, and
\* Status makes them known only when Checkout is done (Checkout, Status).
LEMMA CheckoutStep ==
  ASSUME TypeOK, JobInv, StartRequest \/ Checkout \/ StatusRequest \/ StatusRead
  PROVE  JobInv'
<1>1. UNCHANGED <<kube, start, stop, index, stopErr, stopAnswer, lost, raced>>
  BY DEF StartRequest, Checkout, CheckoutBegin, CheckoutAdd, CheckoutFail, CheckoutFinish,
         StatusRequest, StatusRead
<1>2. \A e \in Executor : (Runs(e)' <=> Runs(e)) /\ (Clean(e)' <=> Clean(e))
  BY <1>1 DEF Runs, Clean
<1>3. CASE CheckoutAdd
  <2>1. checkout = "add" /\ UNCHANGED <<known, space, status>>
    BY <1>3 DEF CheckoutAdd
  <2>2. ~known /\ status # "read" /\ space # "DONE"
    BY <2>1 DEF JobInv, KnownInv
  <2>3. /\ stop = "idle" /\ stopAnswer = "none"
        /\ \A e \in Executor : start[e] = "idle" /\ kube[e] = "none" /\ ~Runs(e)
    BY <2>2 DEF JobInv, KnownInv, Runs
  <2>4. KnownInv' /\ AnswerInv'
    BY <1>1, <2>1, <2>2, <2>3 DEF KnownInv, AnswerInv
  <2>5. StartInv' /\ StopInv' /\ StoppedInv'
    BY <1>1, <1>2, <2>3 DEF StartInv, StopInv, StoppedInv
  <2> QED BY <2>4, <2>5 DEF JobInv
<1>4. CASE StartRequest \/ CheckoutBegin \/ CheckoutFail \/ CheckoutFinish
           \/ StatusRequest \/ StatusRead
  <2>1. UNCHANGED spec
    BY <1>4 DEF StartRequest, CheckoutBegin, CheckoutFail, CheckoutFinish,
                StatusRequest, StatusRead
  <2>2. (known' \/ status' = "read" \/ space' = "DONE") => checkout' = "done"
    BY <1>4 DEF StartRequest, CheckoutBegin, CheckoutFail, CheckoutFinish, StatusRequest,
                StatusRead, StatusMissing, Save, SaveFails, New, JobInv, KnownInv
  <2>3. known => known'
    BY <1>4 DEF StartRequest, CheckoutBegin, CheckoutFail, CheckoutFinish, StatusRequest,
                StatusRead
  <2>4. KnownInv'
    BY <1>1, <2>2, <2>3 DEF JobInv, KnownInv
  <2> QED BY <1>1, <1>2, <2>1, <2>4, QuietStep
<1> QED BY <1>3, <1>4 DEF Checkout

\* ServiceStep: neither pods nor the shutdown disturb the invariant: a pod that becomes
\* ready, ends or goes away belonged to a job that ran, or was deleted (main, Close).
LEMMA ServiceStep ==
  ASSUME TypeOK, JobInv,
         \/ Drain \/ Drained \/ CloseActive \/ CloseHandlers
         \/ \E e \in Executor : PodReady(e) \/ PodEnds(e) \/ PodDeleted(e)
  PROVE  JobInv'
<1>1. UNCHANGED <<database, checkoutVars, statusVars, startVars, stopVars, client, lost, raced>>
  BY DEF Drain, Drained, CloseActive, CloseHandlers, PodReady, PodEnds, PodDeleted
<1>2. \A e \in Executor : Runs(e)' <=> Runs(e)
  <2>1. CASE UNCHANGED kube
    BY <2>1 DEF Runs
  <2>2. ASSUME NEW x \in Executor, PodReady(x) \/ PodEnds(x) \/ PodDeleted(x),
               NEW e \in Executor
        PROVE  Runs(e)' <=> Runs(e)
    <3>1. kube'[e] = kube[e] \/ (kube[e] = "running" /\ kube'[e] = "ready")
          \/ (kube[e] = "ready" /\ kube'[e] = "running")
          \/ (kube[e] = "deleting" /\ kube'[e] = "none")
      BY <2>2, ZenonT(60) DEF PodReady, PodEnds, PodDeleted, TypeOK
    <3> QED BY <3>1 DEF Runs
  <2> QED BY <2>1, <2>2 DEF Drain, Drained, CloseActive, CloseHandlers
<1>3. \A e \in Executor : kube[e] = "none" => kube'[e] = "none"
  BY DEF Drain, Drained, CloseActive, CloseHandlers, PodReady, PodEnds, PodDeleted, TypeOK
<1>4. UNCHANGED <<known, status, space, checkout, stop, stopAnswer, start>>
  BY <1>1
<1>5. KnownInv'
  BY <1>3, <1>4 DEF JobInv, KnownInv
<1>6. UNCHANGED <<spec, start, stop, index, stopErr, stopAnswer, lost, raced>>
  BY <1>1
<1> QED BY <1>2, <1>5, <1>6, QuietStep

\* JobStep: every step preserves the invariant.
LEMMA JobStep == TypeOK /\ JobInv /\ [Next]_vars => JobInv'
<1>1. ASSUME TypeOK, JobInv, Next PROVE JobInv'
  BY <1>1, CheckoutStep, StartStep, StopStep, RequestStep, ServiceStep
     DEF Next, Checkout, Stop, ExecutorStarting
<1>2. ASSUME JobInv, UNCHANGED vars PROVE JobInv'
  BY <1>2 DEF vars, JobInv, KnownInv, AnswerInv, StartInv, StopInv, StoppedInv, Clean, Runs
<1> QED BY <1>1, <1>2

\* JobInvariant: the invariant holds throughout.
LEMMA JobInvariant == Spec => []JobInv
<1>1. Init => JobInv
  BY DEF Init, JobInv, KnownInv, AnswerInv, StartInv, StopInv, StoppedInv, Runs
<1> QED BY <1>1, JobStep, TypeCorrect, PTL DEF Spec

\* StopReallyStops: once Stop has answered 204, no executor is left running or in the
\* database, whatever failed on the way, unless an ExecutorStart of it overlapped a
\* Stop or a failure of Kubernetes had left its job an orphan (Stop, provider.go:277).
THEOREM StopReallyStops == Spec => []StopStops
<1>1. JobInv => StopStops
  BY DEF JobInv, StoppedInv, StopStops, Left, Runs, Clean
<1> QED BY <1>1, JobInvariant, PTL

\* StartCleansUp: an ExecutorStart that fails leaves no job that the database knows
\* nothing of, at whichever step it failed, under the same conditions
\* (ExecutorStart, executor.go:100-161).
THEOREM StartCleansUp == Spec => []CleanedUp
<1>1. JobInv => CleanedUp
  BY DEF JobInv, StartInv, CleanedUp, Orphan, Runs, Clean
<1> QED BY <1>1, JobInvariant, PTL
=============================================================================
