----------------------------- MODULE KubeCache ------------------------------
(***************************************************************************)
(* The cache of Kubernetes jobs and pods that the requests of an SSE       *)
(* application share (internal/kubernetes/kubernetes.go), seen from one    *)
(* test run: getAllJobs and getAllPods with their fast path, their mutex,  *)
(* the second check under it, the API call and the store.                  *)
(*                                                                         *)
(* The cluster is external. One number, stage, says how far the suite      *)
(* runner (ESR) of the test run has come.                                  *)
(***************************************************************************)
EXTENDS Integers, Sequences

CONSTANTS
  Callers,     \* requests that use the cache
  MaxFaults    \* bound on failed calls and broken connections

VARIABLES
  stage,       \* the suite runner: see Absent .. Removed
  entry,       \* cached list and whether it is younger than cacheTTL
  mutex,       \* who holds jobsMutex and podsMutex
  at,          \* where in getAllJobs or getAllPods a caller is
  snap,        \* the list a caller has got
  faults

cacheVars == <<entry, mutex, at, snap>>

\* No job yet; a job whose pod has no IP; its log listener answers; its pod has
\* ended; the job's status says so; the job and its pod are deleted.
Absent == 0
Pending == 1
Up == 2
Ended == 3
Finished == 4
Removed == 5

Resource == {"jobs", "pods"}
Free == "free"
At == {"idle", "lock", "list", "store", "done", "failed"}

\* Mutant: a job that is gone is reported in a state of its own.
ViewGone(r, s) == IF s = Removed THEN 4 ELSE s

\* What a list shows of the test run, in the order in which that can change:
\* of its job nothing (0), no result (1), a result (2), and nothing again (3);
\* of its pod nothing (0), no IP (1), an IP (2), and nothing again (3).
View(r, s) ==
  IF r = "jobs"
  THEN CASE s = Absent -> 0 [] s \in Pending..Ended -> 1 [] s = Finished -> 2 [] OTHER -> 3
  ELSE CASE s = Absent -> 0 [] s = Pending -> 1 [] s \in Up..Finished -> 2 [] OTHER -> 3

CacheTypeOK ==
  /\ stage \in Absent..Removed
  /\ entry \in [Resource -> [data : 0..3, fresh : BOOLEAN]]
  /\ mutex \in [Resource -> Callers \cup {Free}]
  /\ at \in [Callers -> At]
  /\ snap \in [Callers -> 0..3]
  /\ faults \in 0..MaxFaults

CacheInit ==
  /\ stage = Absent
  /\ entry = [r \in Resource |-> [data |-> 0, fresh |-> FALSE]]
  /\ mutex = [r \in Resource |-> Free]
  /\ at = [c \in Callers |-> "idle"] /\ snap = [c \in Callers |-> 0]
  /\ faults = 0

Fault == faults < MaxFaults /\ faults' = faults + 1
NoFault == UNCHANGED faults

Move(c, to) == at' = [at EXCEPT ![c] = to]

\* The call returns the cached list.
ReturnCached(c, r) ==
  /\ Move(c, "done")
  /\ snap' = [snap EXCEPT ![c] = entry[r].data]

-----------------------------------------------------------------------------
\* External: the suite runner is created, gets an IP, ends, is seen to have
\* ended, and is deleted, by its retention or at any time by an abort.
Progress ==
  /\ \/ stage < Removed /\ stage' = stage + 1
     \/ stage \in Pending..Ended /\ stage' = Removed
  /\ UNCHANGED <<cacheVars, faults>>

\* Mutant: the age of an entry does not count.
ExpireNever(r) == FALSE /\ UNCHANGED <<stage, cacheVars, faults>>

\* cacheTTL passes.
Expire(r) ==
  /\ entry[r].fresh
  /\ entry' = [entry EXCEPT ![r].fresh = FALSE]
  /\ UNCHANGED <<stage, mutex, at, snap, faults>>

\* A caller starts a call: clientset, and the check of the cache without a lock.
\* That no client can be created has the outcome of a failed List; two callers may
\* both create one, and the clients are the same.
Call(c, r) ==
  IF entry[r].fresh
  THEN ReturnCached(c, r)
  ELSE Move(c, "lock") /\ snap' = [snap EXCEPT ![c] = 0]

\* Mutant: the mutex is released before the API call.
LockNotHeld(c, r) ==
  /\ at[c] = "lock" /\ mutex[r] = Free
  /\ IF entry[r].fresh THEN ReturnCached(c, r) ELSE Move(c, "list") /\ UNCHANGED snap
  /\ UNCHANGED <<stage, entry, mutex, faults>>

\* The mutex is taken, and the cache checked again under it.
Lock(c, r) ==
  /\ at[c] = "lock" /\ mutex[r] = Free
  /\ IF entry[r].fresh
     THEN ReturnCached(c, r) /\ UNCHANGED mutex
     ELSE /\ Move(c, "list")
          /\ mutex' = [mutex EXCEPT ![r] = c]
          /\ UNCHANGED snap
  /\ UNCHANGED <<stage, entry, faults>>

\* Mutant: the mutex stays locked when the API call fails.
UnlockForgotten(r) == UNCHANGED mutex

Unlock(r) == mutex' = [mutex EXCEPT ![r] = Free]

\* The API call. It fails, too, when the context it was given is done.
List(c, r, ctxDone) ==
  /\ at[c] = "list"
  /\ \/ /\ ~ctxDone
        /\ Move(c, "store")
        /\ snap' = [snap EXCEPT ![c] = View(r, stage)]
        /\ NoFault /\ UNCHANGED mutex
     \/ /\ IF ctxDone THEN NoFault ELSE Fault
        /\ Move(c, "failed")
        /\ Unlock(r)
        /\ UNCHANGED snap
  /\ UNCHANGED <<stage, entry>>

\* The list is stored with the time of the store, and returned.
Store(c, r) ==
  /\ at[c] = "store"
  /\ entry' = [entry EXCEPT ![r] = [data |-> snap[c], fresh |-> TRUE]]
  /\ mutex' = [mutex EXCEPT ![r] = Free]
  /\ Move(c, "done")
  /\ UNCHANGED <<stage, snap, faults>>

\* getAllJobs or getAllPods on behalf of c, from the mutex to its return.
GetAll(c, r, ctxDone) ==
  Lock(c, r) \/ List(c, r, ctxDone) \/ Store(c, r)

\* A caller takes the result of its call.
Return(c) == Move(c, "idle") /\ snap' = [snap EXCEPT ![c] = 0]
Returned(c) == at[c] \in {"done", "failed"}

\* Mutant: an error of Kubernetes counts as finished.
IsFinishedOnError(c) == at[c] = "failed" \/ snap[c] \in {0, 2, 3}

\* IsFinished, given what getAllJobs returned: an error is "not finished", no
\* job is "finished".
IsFinished(c) == at[c] = "done" /\ snap[c] \in {0, 2, 3}

\* LogListenerIP finds a job, and then a pod with an IP.
JobFound(c) == at[c] = "done" /\ snap[c] \in {1, 2}
IPFound(c) == at[c] = "done" /\ snap[c] = 2
=============================================================================
