----------------------------- MODULE CacheReads -----------------------------
(***************************************************************************)
(* The Kubernetes cache under any number of concurrent callers, and what   *)
(* its callers may rely on. IsFinished and LogListenerIP of all requests   *)
(* come down to calls of getAllJobs and getAllPods in some order; here     *)
(* every caller makes any calls at any time.                               *)
(***************************************************************************)
EXTENDS KubeCache

ASSUME CacheReadsAssumption == Free \notin Callers /\ MaxFaults \in Nat

VARIABLES
  asks,      \* the list a caller asks for
  newest,    \* history: newest list that any call has returned
  floor      \* history: newest list that had been returned when a call began

vars == <<stage, cacheVars, faults, asks, newest, floor>>

TypeOK ==
  /\ CacheTypeOK
  /\ asks \in [Callers -> Resource]
  /\ newest \in [Resource -> 0..3]
  /\ floor \in [Callers -> 0..3]

Init ==
  /\ CacheInit
  /\ asks = [c \in Callers |-> "jobs"]
  /\ newest = [r \in Resource |-> 0]
  /\ floor = [c \in Callers |-> 0]

\* IsFinished or LogListenerIP begins a call.
Begin(c, r) ==
  /\ at[c] = "idle"
  /\ Call(c, r)
  /\ asks' = [asks EXCEPT ![c] = r]
  /\ floor' = [floor EXCEPT ![c] = newest[r]]
  /\ UNCHANGED <<stage, entry, mutex, faults, newest>>

\* A step of the call; the caller's context may be done.
Step(c) ==
  /\ \E ctxDone \in BOOLEAN : GetAll(c, asks[c], ctxDone)
  /\ UNCHANGED <<asks, newest, floor>>

\* The caller goes on with what the call has returned.
Finish(c) ==
  /\ Returned(c)
  /\ newest' = IF at[c] = "done" /\ snap[c] > newest[asks[c]]
               THEN [newest EXCEPT ![asks[c]] = snap[c]] ELSE newest
  /\ Return(c)
  /\ floor' = [floor EXCEPT ![c] = 0] /\ asks' = [asks EXCEPT ![c] = "jobs"]
  /\ UNCHANGED <<stage, entry, mutex, faults>>

Environment ==
  /\ Progress \/ \E r \in Resource : Expire(r)
  /\ UNCHANGED <<asks, newest, floor>>

Next ==
  \/ Environment
  \/ \E c \in Callers : Step(c) \/ Finish(c) \/ \E r \in Resource : Begin(c, r)

Spec == Init /\ [][Next]_vars

\* Go hands an unlocked mutex to every waiter in the end, and the API answers.
FairSpec == Spec /\ \A c \in Callers : SF_vars(Step(c)) /\ WF_vars(Finish(c))

-----------------------------------------------------------------------------
\* One API call at a time for each list, by the holder of its mutex ("Mutexes to
\* prevent concurrent API calls for the same resource").
OneCall ==
  \A c \in Callers : at[c] \in {"list", "store"} =>
    /\ mutex[asks[c]] = c
    /\ \A d \in Callers \ {c} : at[d] \in {"list", "store"} => asks[d] # asks[c]

\* The cache never goes back to an older list than the one it has, although the age
\* of a list is counted from its store and callers race (getAllJobs, getAllPods).
NeverBack == [][\A r \in Resource : entry'[r].data >= entry[r].data]_vars

\* A call returns no older a list than calls that had returned before it began: no
\* caller sees a run finished and a later one sees it going on.
MonotonicReads == \A c \in Callers : at[c] = "done" => snap[c] >= floor[c]

\* Ordered: how the lists under way compare. What callers have seen is no newer than
\* what is stored, nor that than the cluster; a list about to be stored lies between
\* the stored one and the cluster, which nobody else can change since its caller
\* holds the mutex. With the two above it is inductive.
Ordered ==
  /\ \A r \in Resource : newest[r] <= entry[r].data /\ entry[r].data <= View(r, stage)
  /\ \A c \in Callers :
       /\ at[c] # "idle" => floor[c] <= newest[asks[c]]
       /\ at[c] = "store" => /\ entry[asks[c]].data <= snap[c]
                             /\ snap[c] <= View(asks[c], stage)
       /\ at[c] = "done" => /\ floor[c] <= snap[c]
                            /\ snap[c] <= entry[asks[c]].data

\* Every call returns, whatever fails and however the callers compete.
CallsReturn == \A c \in Callers : []<>(at[c] = "idle")
=============================================================================
