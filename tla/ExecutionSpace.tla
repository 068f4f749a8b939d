--------------------------- MODULE ExecutionSpace ---------------------------
(***************************************************************************)
(* The execution space provider: one checkout of Amount executors, from    *)
(* the start request to the stop request.                                  *)
(*                                                                         *)
(*   Start, Status, Stop  pkg/executionspace/v1alpha/provider.go           *)
(*   ExecutorStart        pkg/executionspace/v1alpha/executor.go           *)
(*   Checkout, Checkin    internal/executionspace/provider/provider.go     *)
(*   the records          pkg/executionspace/executionspace                *)
(*   jobs                 internal/executionspace/executor/kubernetes.go   *)
(*   shutdown             cmd/executionspace/main.go                       *)
(*                                                                         *)
(* A step is one access to the database or to Kubernetes: between two of   *)
(* them the other handlers run. The database, the cluster and the client   *)
(* are external. The client sends one start request, then asks for status, *)
(* starts executors and stops them, again and in any order, for executors  *)
(* that a status response has named.                                       *)
(***************************************************************************)
EXTENDS Integers

CONSTANTS
  Amount,      \* MaximumAmount of the start request
  MaxRequests, \* bound on status, executor and stop requests
  MaxFaults    \* bound on failed database and Kubernetes calls

ASSUME ExecutionSpaceAssumption ==
  Amount \in Nat \ {0} /\ MaxRequests \in Nat /\ MaxFaults \in Nat

\* The executors of the checkout, in the order Checkout adds them.
Executor == 1..Amount

VARIABLES
  \* Database: the execution space, and one specification per executor.
  space,       \* "absent", "PENDING", "DONE" or "FAILED"
  spec,        \* "none" (absent or emptied), "saved" or "built" (has BuildID)
  kube,        \* Kubernetes job and pod: "none", "running", "ready", "deleting"
  \* The goroutine Checkout.
  checkout,    \* "none", "spawned", "add", "finish", "fail" or "done"
  added,       \* executors it has added
  \* The request handlers.
  status,      \* "idle", "read" or an answer: "error", "PENDING", "DONE", "FAILED"
  position,    \* references Status has gone through
  listed,      \* executors it has read
  start,       \* ExecutorStart, per executor: see StartState
  answer,      \* its last answer: "none", "ok" or "error"
  stop,        \* Stop: see StopState
  index,       \* the executor Stop works on
  stopErr,     \* its variable err is not nil
  stopAnswer,  \* its last answer: "none", "ok" or "error"
  known,       \* the client has learnt of the executors
  requests,    \* requests it has sent
  \* The service.
  service,     \* "up", "draining", "active", "wg", "exited" or "crashed"
  \* Observation:
  faults,
  lost,        \* executors for which a Kubernetes call failed, or whose Wait panicked
  raced,       \* executors for which ExecutorStart and Stop have overlapped
  unsettled,   \* some write of the status of the execution space failed
  late         \* Checkout had not begun to run when provider.Done returned

database == <<space, spec>>
checkoutVars == <<checkout, added>>
statusVars == <<status, position, listed>>
startVars == <<start, answer>>
stopVars == <<stop, index, stopErr, stopAnswer>>
client == <<known, requests>>
ghosts == <<lost, raced, unsettled, late>>
vars == <<database, kube, checkoutVars, statusVars, startVars, stopVars, client,
          service, faults, ghosts>>

\* The steps of the executor's Stop. It is "stuck" when it watches for an event
\* that will not come. In ExecutorStart it cleans up, with a context that never
\* ends.
Deleting == {"delete", "watch", "watching", "stuck"}
StartState == {"idle", "load", "create", "wait", "save", "waitStart"} \cup Deleting
StopState == {"idle", "job", "checkin"} \cup Deleting

TypeOK ==
  /\ space \in {"absent", "PENDING", "DONE", "FAILED"}
  /\ spec \in [Executor -> {"none", "saved", "built"}]
  /\ kube \in [Executor -> {"none", "running", "ready", "deleting"}]
  /\ checkout \in {"none", "spawned", "add", "finish", "fail", "done"}
  /\ added \in 0..Amount
  /\ status \in {"idle", "read", "error", "PENDING", "DONE", "FAILED"}
  /\ position \in 0..Amount
  /\ listed \subseteq Executor
  /\ start \in [Executor -> StartState]
  /\ answer \in [Executor -> {"none", "ok", "error"}]
  /\ stop \in StopState
  /\ index \in Executor
  /\ stopErr \in BOOLEAN
  /\ stopAnswer \in {"none", "ok", "error"}
  /\ known \in BOOLEAN
  /\ requests \in 0..MaxRequests
  /\ service \in {"up", "draining", "active", "wg", "exited", "crashed"}
  /\ faults \in 0..MaxFaults
  /\ lost \subseteq Executor
  /\ raced \subseteq Executor
  /\ unsettled \in BOOLEAN
  /\ late \in BOOLEAN

Init ==
  /\ space = "absent" /\ spec = [e \in Executor |-> "none"]
  /\ kube = [e \in Executor |-> "none"]
  /\ checkout = "none" /\ added = 0
  /\ status = "idle" /\ position = 0 /\ listed = {}
  /\ start = [e \in Executor |-> "idle"]
  /\ answer = [e \in Executor |-> "none"]
  /\ stop = "idle" /\ index = 1 /\ stopErr = FALSE /\ stopAnswer = "none"
  /\ known = FALSE /\ requests = 0
  /\ service = "up"
  /\ faults = 0
  /\ lost = {} /\ raced = {} /\ unsettled = FALSE /\ late = FALSE

Running == service \notin {"exited", "crashed"}
\* A call fails. A write that fails may have been done.
Fault == faults < MaxFaults /\ faults' = faults + 1
NoFault == UNCHANGED faults
\* The client sends a request.
Request == requests < MaxRequests /\ requests' = requests + 1
KubeFault(e) == Fault /\ lost' = lost \cup {e}
NoKubeFault == NoFault /\ UNCHANGED lost

-----------------------------------------------------------------------------
(* Start and its goroutine Checkout.                                       *)

\* A new execution space.
New == "PENDING"

\* The execution space is written to the database, or that fails.
Save(value) == space' = value /\ NoFault /\ UNCHANGED unsettled
SaveFails(value) == space' \in {space, value} /\ Fault /\ unsettled' = TRUE

\* SaveExecutor writes the specification of executor e as a whole, Delete writes
\* nothing in its place.
SaveExecutor(e, value) == [spec EXCEPT ![e] = value]
Delete(e) == [spec EXCEPT ![e] = "none"]

\* What is not there, or is empty, cannot be decoded (EOF).
LoadExecutorSpec(e) == spec[e] # "none"

\* Start answers with the ID of the checkout; the goroutine has yet to run.
StartRequest ==
  /\ service = "up" /\ checkout = "none"
  /\ checkout' = "spawned"
  /\ UNCHANGED <<database, kube, added, statusVars, startVars, stopVars, client,
                 service, faults, ghosts>>

CheckoutBegin ==
  /\ Running /\ checkout = "spawned"
  /\ \/ Save(New) /\ checkout' = "add"
     \/ SaveFails(New) /\ checkout' = "done"
  /\ UNCHANGED <<spec, kube, added, statusVars, startVars, stopVars, client, service,
                 lost, raced, late>>

\* Mutant: one executor too many.
MoreToAddOffByOne == added <= Amount

MoreToAdd == added < Amount

\* Mutant: Checkout returns without reporting that an executor was not saved.
AfterAddFailsSilent == "done"

\* Checkout reports that an executor could not be saved.
AfterAddFails == "fail"

CheckoutAdd ==
  /\ Running /\ checkout = "add"
  /\ \/ /\ MoreToAdd
        /\ added' = added + 1
        /\ \/ /\ spec' = SaveExecutor(added + 1, "saved")
              /\ NoFault /\ UNCHANGED checkout
           \/ /\ spec' \in {spec, SaveExecutor(added + 1, "saved")}
              /\ checkout' = AfterAddFails
              /\ Fault
     \/ /\ ~MoreToAdd
        /\ checkout' = "finish"
        /\ NoFault /\ UNCHANGED <<spec, added>>
  /\ UNCHANGED <<space, kube, statusVars, startVars, stopVars, client, service, ghosts>>

\* executionSpace.Fail; its error is ignored.
CheckoutFail ==
  /\ Running /\ checkout = "fail"
  /\ checkout' = "done"
  /\ Save("FAILED") \/ SaveFails("FAILED")
  /\ UNCHANGED <<spec, kube, added, statusVars, startVars, stopVars, client, service,
                 lost, raced, late>>

\* The last save. If it fails and Fail succeeds, failErr is nil and the call of
\* failErr.Error() panics, in a goroutine nobody recovers.
CheckoutFinish ==
  /\ Running /\ checkout = "finish"
  /\ checkout' = "done"
  /\ \/ Save("DONE") /\ UNCHANGED service
     \/ space' = "FAILED" /\ Fault /\ service' = "crashed" /\ UNCHANGED unsettled
     \/ /\ space' \in {space, "DONE", "FAILED"}
        /\ faults + 1 < MaxFaults /\ faults' = faults + 2
        /\ unsettled' = TRUE /\ UNCHANGED service
  /\ UNCHANGED <<spec, kube, added, statusVars, startVars, stopVars, client,
                 lost, raced, late>>

-----------------------------------------------------------------------------
(* Status reads the execution space, then each executor it refers to. Only *)
(* a space that is DONE refers to executors.                               *)

StatusRequest ==
  /\ service = "up" /\ Request /\ checkout # "none" /\ status # "read"
  /\ position' = 0 /\ listed' = {}
  /\ \/ /\ space = "DONE" /\ status' = "read" /\ NoFault
     \/ /\ space \in {"PENDING", "FAILED"} /\ status' = space /\ NoFault
     \/ /\ space = "absent" /\ status' = "error" /\ NoFault
     \/ /\ status' = "error" /\ Fault
  /\ UNCHANGED <<database, kube, checkoutVars, startVars, stopVars, known, service,
                 ghosts>>

\* Mutant: an executor that cannot be read is left out.
StatusMissingSkipped == "read"

\* An executor that is not in the database is an error.
StatusMissing == "error"

StatusRead ==
  /\ Running /\ status = "read"
  /\ \/ /\ position < Amount /\ LoadExecutorSpec(position + 1)
        /\ position' = position + 1 /\ listed' = listed \cup {position + 1}
        /\ NoFault /\ UNCHANGED <<status, known>>
     \/ /\ position < Amount /\ ~LoadExecutorSpec(position + 1)
        /\ status' = StatusMissing
        /\ position' = position + 1
        /\ NoFault /\ UNCHANGED <<listed, known>>
     \/ /\ position < Amount
        /\ status' = "error"
        /\ Fault /\ UNCHANGED <<position, listed, known>>
     \/ /\ position = Amount
        /\ status' = "DONE" /\ known' = TRUE
        /\ NoFault /\ UNCHANGED <<position, listed>>
  /\ UNCHANGED <<database, kube, checkoutVars, startVars, stopVars, requests, service,
                 ghosts>>

-----------------------------------------------------------------------------
(* Kubernetes. A job and its pod are created together; the pod becomes     *)
(* ready, and stops being so when the test runner ends. A job is deleted   *)
(* in the foreground: it stays until its pod is gone.                      *)

PodReady(e) ==
  /\ kube[e] = "running" /\ kube' = [kube EXCEPT ![e] = "ready"]
  /\ UNCHANGED <<database, checkoutVars, statusVars, startVars, stopVars, client, service,
                 faults, ghosts>>

PodEnds(e) ==
  /\ kube[e] = "ready" /\ kube' = [kube EXCEPT ![e] = "running"]
  /\ UNCHANGED <<database, checkoutVars, statusVars, startVars, stopVars, client, service,
                 faults, ghosts>>

PodDeleted(e) ==
  /\ kube[e] = "deleting" /\ kube' = [kube EXCEPT ![e] = "none"]
  /\ UNCHANGED <<database, checkoutVars, statusVars, startVars, stopVars, client, service,
                 faults, ghosts>>

\* jobs.Delete in the executor's Stop, which goes on to watch the pod.
DeleteJob(e, next) ==
  \/ /\ kube[e] # "none"
     /\ kube' = [kube EXCEPT ![e] = "deleting"]
     /\ next = "watch" /\ NoKubeFault
  \/ /\ kube[e] = "none"                    \* NotFound: there is nothing to stop
     /\ next = "nil" /\ NoKubeFault /\ UNCHANGED kube
  \/ /\ kube' \in {kube, [kube EXCEPT ![e] = IF @ = "none" THEN @ ELSE "deleting"]}
     /\ next = "error" /\ KubeFault(e)

\* The watch in the executor's Stop. It shows the deletion of a pod only if
\* the pod is still there when it begins.
WatchPod(e, next) ==
  \/ kube[e] = "deleting" /\ next = "watching" /\ NoKubeFault
  \/ kube[e] # "deleting" /\ next = "stuck" /\ NoKubeFault
  \/ next \in {"error", "nil"} /\ KubeFault(e)  \* a probable EOF counts as no pods

-----------------------------------------------------------------------------
(* ExecutorStart: start a job for executor e and wait until the test       *)
(* runner has started. It is sent by the client, one at a time for each.   *)

At(e, label) == start' = [start EXCEPT ![e] = label]
Answers(e, result) == At(e, "idle") /\ answer' = [answer EXCEPT ![e] = result]

ExecutorStart(e) ==
  /\ service = "up" /\ Request /\ known /\ start[e] = "idle"
  /\ At(e, "load")
  /\ raced' = IF stop = "idle" THEN raced ELSE raced \cup {e}
  /\ UNCHANGED <<database, kube, checkoutVars, statusVars, answer, stopVars, known,
                 service, faults, lost, unsettled, late>>

\* The specification is read. One that was checked in cannot be.
StartLoad(e) ==
  /\ Running /\ start[e] = "load"
  /\ \/ LoadExecutorSpec(e) /\ At(e, "create") /\ NoFault /\ UNCHANGED answer
     \/ ~LoadExecutorSpec(e) /\ Answers(e, "error") /\ NoFault
     \/ Answers(e, "error") /\ Fault
  /\ UNCHANGED <<database, kube, checkoutVars, statusVars, stopVars, client, service,
                 ghosts>>

\* The executor's Start. The job is named after the executor, so a second one
\* is refused. A call that fails may have created the job.
StartCreate(e) ==
  /\ Running /\ start[e] = "create"
  /\ \/ /\ kube[e] = "none"
        /\ kube' = [kube EXCEPT ![e] = "running"]
        /\ At(e, "wait") /\ NoKubeFault /\ UNCHANGED answer
     \/ /\ kube[e] # "none"
        /\ Answers(e, "error") /\ NoKubeFault /\ UNCHANGED kube
     \/ /\ kube[e] = "none"
        /\ kube' \in {kube, [kube EXCEPT ![e] = "running"]}
        /\ Answers(e, "error") /\ KubeFault(e)
  /\ UNCHANGED <<database, checkoutVars, statusVars, stopVars, client, service,
                 raced, unsettled, late>>

\* Mutant: the wait for the pod does not end with the context.
WaitEndsNever == FALSE

\* The context of a request ends after a while.
WaitEnds == TRUE

\* The pod of executor e is found and is ready.
Alive(e) == kube[e] = "ready"

\* panicRecovery answers, and nothing is cleaned up.
PanicRecovery(e) == Answers(e, "error") /\ lost' = lost \cup {e}

\* The executor's Wait. If the watch is over before the select sees that the
\* context has ended, the type assertion on the zero event panics.
StartWait(e) ==
  /\ Running /\ start[e] = "wait"
  /\ \/ Alive(e) /\ At(e, "save") /\ NoKubeFault /\ UNCHANGED answer
     \/ WaitEnds /\ At(e, "delete") /\ NoKubeFault /\ UNCHANGED answer
     \/ At(e, "delete") /\ KubeFault(e) /\ UNCHANGED answer
     \/ PanicRecovery(e) /\ ((WaitEnds /\ NoFault) \/ Fault)
  /\ UNCHANGED <<database, kube, checkoutVars, statusVars, stopVars, client, service,
                 raced, unsettled, late>>

\* Mutant: a job whose BuildID could not be saved is left alone.
AfterSaveFailsLeave(e) == Answers(e, "error")

\* A job whose BuildID could not be saved is stopped.
AfterSaveFails(e) == At(e, "delete") /\ UNCHANGED answer

\* The specification is saved with its BuildID, as a whole: also if it has been
\* checked in since it was loaded.
StartSave(e) ==
  /\ Running /\ start[e] = "save"
  /\ \/ /\ spec' = SaveExecutor(e, "built")
        /\ At(e, "waitStart") /\ NoFault /\ UNCHANGED answer
     \/ /\ spec' \in {spec, SaveExecutor(e, "built")}
        /\ AfterSaveFails(e) /\ Fault
  /\ UNCHANGED <<space, kube, checkoutVars, statusVars, stopVars, client, service,
                 ghosts>>

\* waitStart retries until the sub suite has started, the pod is found not to
\* be ready, or the context ends.
StartWaitStart(e) ==
  /\ Running /\ start[e] = "waitStart"
  /\ \/ Alive(e) /\ Answers(e, "ok")
     \/ At(e, "delete") /\ UNCHANGED answer
  /\ UNCHANGED <<database, kube, checkoutVars, statusVars, stopVars, client, service,
                 faults, ghosts>>

\* Cancel or Stop with context.Background. Its outcome does not change the
\* answer.
StartDelete(e) ==
  /\ Running /\ start[e] = "delete"
  /\ \E next \in {"watch", "nil", "error"} :
       /\ DeleteJob(e, next)
       /\ IF next = "watch" THEN At(e, "watch") /\ UNCHANGED answer
                            ELSE Answers(e, "error")
  /\ UNCHANGED <<database, checkoutVars, statusVars, stopVars, client, service,
                 raced, unsettled, late>>

StartWatch(e) ==
  /\ Running /\ start[e] = "watch"
  /\ \E next \in {"watching", "stuck", "nil", "error"} :
       /\ WatchPod(e, next)
       /\ IF next \in Deleting THEN At(e, next) /\ UNCHANGED answer
                               ELSE Answers(e, "error")
  /\ UNCHANGED <<database, kube, checkoutVars, statusVars, stopVars, client, service,
                 raced, unsettled, late>>

\* Only the deletion of the pod ends this wait. If Kubernetes ends the watch
\* the loop spins on a closed channel.
StartWatching(e) ==
  /\ Running /\ start[e] = "watching"
  /\ \/ kube[e] # "deleting" /\ Answers(e, "error") /\ NoKubeFault
     \/ At(e, "stuck") /\ KubeFault(e) /\ UNCHANGED answer
  /\ UNCHANGED <<database, kube, checkoutVars, statusVars, stopVars, client, service,
                 raced, unsettled, late>>

-----------------------------------------------------------------------------
(* Stop: stop the job of every executor, then check them all in.           *)

StopRequest ==
  /\ service = "up" /\ Request /\ known /\ stop = "idle"
  /\ stop' = "job" /\ index' = 1 /\ stopErr' = FALSE /\ stopAnswer' = "none"
  /\ raced' = raced \cup {e \in Executor : start[e] # "idle"}
  /\ UNCHANGED <<database, kube, checkoutVars, statusVars, startVars, known, service,
                 faults, lost, unsettled, late>>

\* Mutant: executors are checked in although one could not be stopped.
NextExecutorRegardless(err) ==
  /\ stopErr' = err
  /\ IF index < Amount
     THEN stop' = "job" /\ index' = index + 1
     ELSE stop' = "checkin" /\ index' = 1
  /\ UNCHANGED stopAnswer

\* On to the next executor, or to checking in if there was no error.
NextExecutor(err) ==
  /\ stopErr' = err
  /\ IF index < Amount
     THEN stop' = "job" /\ index' = index + 1 /\ UNCHANGED stopAnswer
     ELSE /\ index' = 1
          /\ IF err THEN stop' = "idle" /\ stopAnswer' = "error"
                    ELSE stop' = "checkin" /\ UNCHANGED stopAnswer

\* provider.Job gives the name of the job, if the specification has a BuildID.
Job(e) == spec[e] = "built"

\* An executor that is checked in, or has no BuildID, is skipped.
StopJob ==
  /\ Running /\ stop = "job"
  /\ \/ /\ Job(index)
        /\ stop' = "delete" /\ NoFault /\ UNCHANGED <<index, stopErr, stopAnswer>>
     \/ /\ ~Job(index)
        /\ NextExecutor(stopErr) /\ NoFault
     \/ /\ NextExecutor(TRUE) /\ Fault
  /\ UNCHANGED <<database, kube, checkoutVars, statusVars, startVars, client, service,
                 ghosts>>

StopDelete ==
  /\ Running /\ stop = "delete"
  /\ \E next \in {"watch", "nil", "error"} :
       /\ DeleteJob(index, next)
       /\ IF next = "watch" THEN stop' = next /\ UNCHANGED <<index, stopErr, stopAnswer>>
                            ELSE NextExecutor(stopErr \/ next = "error")
  /\ UNCHANGED <<database, checkoutVars, statusVars, startVars, client, service,
                 raced, unsettled, late>>

StopWatch ==
  /\ Running /\ stop = "watch"
  /\ \E next \in {"watching", "stuck", "nil", "error"} :
       /\ WatchPod(index, next)
       /\ IF next \in Deleting THEN stop' = next /\ UNCHANGED <<index, stopErr, stopAnswer>>
                               ELSE NextExecutor(stopErr \/ next = "error")
  /\ UNCHANGED <<database, kube, checkoutVars, statusVars, startVars, client, service,
                 raced, unsettled, late>>

\* The wait ends with the deletion of the pod, or with the request's context. A
\* watch that began too late may come to see the pod of a newer job.
StopWatching ==
  /\ Running /\ stop \in {"watching", "stuck"}
  /\ \/ stop = "watching" /\ kube[index] # "deleting" /\ NextExecutor(stopErr)
     \/ /\ stop = "stuck" /\ kube[index] = "deleting" /\ stop' = "watching"
        /\ UNCHANGED <<index, stopErr, stopAnswer>>
     \/ NextExecutor(TRUE)
  /\ UNCHANGED <<database, kube, checkoutVars, statusVars, startVars, client, service,
                 faults, ghosts>>

\* Checkin empties the specifications one by one.
Checkin ==
  /\ spec' = Delete(index)
  /\ IF index < Amount
     THEN index' = index + 1 /\ UNCHANGED <<stop, stopAnswer>>
     ELSE stop' = "idle" /\ index' = 1 /\ stopAnswer' = "ok"

StopCheckin ==
  /\ Running /\ stop = "checkin"
  /\ \/ Checkin /\ NoFault
     \/ /\ stop' = "idle" /\ index' = 1 /\ stopAnswer' = "error"
        /\ spec' \in {spec, Delete(index)}
        /\ Fault
  /\ UNCHANGED <<space, kube, checkoutVars, statusVars, startVars, stopErr, client,
                 service, ghosts>>

-----------------------------------------------------------------------------
(* The shutdown of the service.                                            *)

\* A signal arrives: no more requests are accepted.
Drain ==
  /\ service = "up" /\ service' = "draining"
  /\ UNCHANGED <<database, kube, checkoutVars, statusVars, startVars, stopVars, client,
                 faults, ghosts>>

\* srv.Close returns when no request is active or its context has ended.
Drained ==
  /\ service = "draining" /\ service' = "active"
  /\ UNCHANGED <<database, kube, checkoutVars, statusVars, startVars, stopVars, client,
                 faults, ghosts>>

\* The wait group of the provider: Checkout, Status and Checkin.
Active == checkout \in {"add", "finish", "fail"} \/ status = "read" \/ stop = "checkin"
\* The wait group of the handlers: Stop and ExecutorStart.
Handling == stop # "idle" \/ \E e \in Executor : start[e] # "idle"

\* provider.Done.
CloseActive ==
  /\ service = "active" /\ ~Active
  /\ service' = "wg" /\ late' = (checkout = "spawned")
  /\ UNCHANGED <<database, kube, checkoutVars, statusVars, startVars, stopVars, client,
                 faults, lost, raced, unsettled>>

\* Mutant: Close does not wait for the handlers.
CloseHandlersMissing ==
  /\ service = "wg"
  /\ service' = "exited"
  /\ UNCHANGED <<database, kube, checkoutVars, statusVars, startVars, stopVars, client,
                 faults, ghosts>>

\* wg.Wait, and then main returns.
CloseHandlers ==
  /\ service = "wg" /\ ~Handling
  /\ service' = "exited"
  /\ UNCHANGED <<database, kube, checkoutVars, statusVars, startVars, stopVars, client,
                 faults, ghosts>>

-----------------------------------------------------------------------------
Checkout == CheckoutBegin \/ CheckoutAdd \/ CheckoutFail \/ CheckoutFinish
Stop == StopJob \/ StopDelete \/ StopWatch \/ StopWatching \/ StopCheckin
ExecutorStarting(e) ==
  \/ StartLoad(e) \/ StartCreate(e) \/ StartWait(e) \/ StartSave(e) \/ StartWaitStart(e)
  \/ StartDelete(e) \/ StartWatch(e) \/ StartWatching(e)

Next ==
  \/ StartRequest \/ CheckoutBegin \/ CheckoutAdd \/ CheckoutFail \/ CheckoutFinish
  \/ StatusRequest \/ StatusRead
  \/ \E e \in Executor :
       \/ ExecutorStart(e) \/ StartLoad(e) \/ StartCreate(e) \/ StartWait(e)
       \/ StartSave(e) \/ StartWaitStart(e) \/ StartDelete(e) \/ StartWatch(e)
       \/ StartWatching(e)
       \/ PodReady(e) \/ PodEnds(e) \/ PodDeleted(e)
  \/ StopRequest \/ StopJob \/ StopDelete \/ StopWatch \/ StopWatching \/ StopCheckin
  \/ Drain \/ Drained \/ CloseActive \/ CloseHandlers

Spec == Init /\ [][Next]_vars

\* Goroutines run, contexts of requests end, and Kubernetes completes the
\* deletions it has begun. Nothing makes a pod ready, and no request need come.
Fairness ==
  /\ WF_vars(Checkout) /\ WF_vars(Stop)
  /\ \A e \in Executor : WF_vars(ExecutorStarting(e)) /\ WF_vars(PodDeleted(e))

FairSpec == Spec /\ Fairness

-----------------------------------------------------------------------------
(* Properties.                                                             *)

\* StatusComplete: a status answer DONE names every executor of the checkout,
\* whatever Checkout and Stop do while it is put together.
StatusComplete == status = "DONE" => listed = Executor

\* A job runs for executor e, or the database says so.
Left(e) == kube[e] \in {"running", "ready"} \/ spec[e] = "built"

\* Orphan: ExecutorStart has answered with an error and left a job that the
\* database knows nothing of, so that Stop will not find it.
Orphan(e) == /\ answer[e] = "error" /\ start[e] = "idle"
             /\ kube[e] \in {"running", "ready"} /\ spec[e] # "built"

\* StopStops: once Stop has answered 204, no executor is left running or in the
\* database, unless an ExecutorStart of it overlapped a Stop, a failed call to
\* Kubernetes had left its job an orphan, or Wait had panicked, as it may whenever
\* the context of its request ends. (Stop, provider.go:277)
StopStops ==
  stopAnswer = "ok" => {e \in Executor : Left(e)} \subseteq raced \cup lost

\* StrictStopStops: what provider.go:277 says of the stop request, when no call to
\* Kubernetes has failed, no Wait has panicked and every executor request has been answered.
StrictStopStops ==
  stopAnswer = "ok" =>
    {e \in Executor : Left(e) /\ start[e] = "idle"} \subseteq lost

\* CleanedUp: an ExecutorStart that fails leaves no orphan, at whichever step it
\* failed, unless a call to Kubernetes failed too, a Stop checked in its
\* specification meanwhile, or Wait panicked: nothing is cleaned up then, though the
\* context of the request has but ended (kubernetes.go:181). (ExecutorStart,
\* executor.go:100-161)
CleanedUp == {e \in Executor : Orphan(e)} \subseteq raced \cup lost

\* CloseWaits: the process exits only when no request and no checkout is in
\* progress, although the two wait groups are waited for one after the other.
\* Only a checkout whose goroutine had not yet run is not waited for.
\* (Close, provider.go:147)
CloseWaits ==
  service = "exited" =>
    /\ ~Handling
    /\ status # "read"
    /\ checkout \in {"none", "done"} \/ late

\* A client polls a checkout that has no final status yet.
Polled ==
  Running /\ checkout # "none" /\ space \notin {"DONE", "FAILED"} /\ ~unsettled

\* Settles: a checkout ends with status DONE or FAILED, so that the client stops
\* polling, unless writing the status failed or the process went away.
Settles == []<>~Polled

\* A request of Stop or ExecutorStart is being handled. A cleanup that waits for
\* the deletion of a pod it cannot see is stuck for good.
Pending ==
  Running /\ (stop # "idle" \/ \E e \in Executor : start[e] \notin {"idle", "stuck"})

\* Responds: every Stop and every ExecutorStart is answered in the end, unless
\* its cleanup is stuck. There are MaxRequests of them, so there comes a time when
\* none is pending.
Responds == []<>~Pending
=============================================================================
