-------------------------- MODULE CacheReadsProofs --------------------------
(***************************************************************************)
(* Proofs about the Kubernetes cache, for every set of callers and every   *)
(* number of failures: type correctness, mutual exclusion of API calls,    *)
(* and that neither the cache nor a caller goes back to an older list.     *)
(***************************************************************************)
EXTENDS CacheReads, TLAPS

\* The inductive invariant.
CacheInv == TypeOK /\ OneCall /\ Ordered

USE DEF Absent, Pending, Up, Ended, Finished, Removed, Resource, Free, At

\* ViewType: a list shows one of four things of a test run (View).
LEMMA ViewType ==
  ASSUME NEW r \in Resource, NEW s \in Absent..Removed
  PROVE  View(r, s) \in 0..3
BY DEF View

\* ViewMonotone: as the suite runner goes on, so does what lists show of it (View).
LEMMA ViewMonotone ==
  ASSUME NEW r \in Resource, NEW s \in Absent..Removed, NEW t \in Absent..Removed, s <= t
  PROVE  View(r, s) <= View(r, t)
BY DEF View

\* InitInv: the invariant holds of an empty cache (CacheInit).
LEMMA InitInv == Init => CacheInv
BY CacheReadsAssumption
   DEF Init, CacheInit, CacheInv, TypeOK, CacheTypeOK, OneCall, Ordered, View

\* EnvironmentInv: neither the progress of the suite runner nor the age of an entry
\* disturbs the invariant (Progress, Expire).
LEMMA EnvironmentInv == CacheInv /\ Environment => CacheInv'
<1> SUFFICES ASSUME CacheInv, Environment PROVE CacheInv'
  OBVIOUS
<1>1. CASE Progress
  <2>1. stage' \in Absent..Removed /\ stage <= stage'
    BY <1>1 DEF Progress, CacheInv, TypeOK, CacheTypeOK
  <2>2. UNCHANGED <<entry, mutex, at, snap, faults, asks, newest, floor>>
    BY <1>1 DEF Progress, cacheVars, Environment
  <2>3. TypeOK' /\ OneCall'
    BY <2>1, <2>2 DEF CacheInv, TypeOK, CacheTypeOK, OneCall
  <2>4. \A r \in Resource : /\ View(r, stage) <= View(r, stage')
                            /\ View(r, stage) \in 0..3 /\ View(r, stage') \in 0..3
    BY <2>1, ViewMonotone, ViewType DEF CacheInv, TypeOK, CacheTypeOK
  <2>5. Ordered'
    BY <2>2, <2>4 DEF CacheInv, TypeOK, CacheTypeOK, Ordered
  <2> QED BY <2>3, <2>5 DEF CacheInv
<1>2. ASSUME NEW r \in Resource, Expire(r) PROVE CacheInv'
  <2>1. UNCHANGED <<stage, mutex, at, snap, faults, asks, newest, floor>>
    BY <1>2 DEF Expire, Environment
  <2>2. /\ entry' \in [Resource -> [data : 0..3, fresh : BOOLEAN]]
        /\ \A q \in Resource : entry'[q].data = entry[q].data
    BY <1>2, ZenonT(60) DEF Expire, CacheInv, TypeOK, CacheTypeOK
  <2>3. TypeOK' /\ OneCall'
    BY <2>1, <2>2 DEF CacheInv, TypeOK, CacheTypeOK, OneCall
  <2>4. Ordered'
    BY <2>1, <2>2 DEF CacheInv, TypeOK, CacheTypeOK, Ordered
  <2> QED BY <2>3, <2>4 DEF CacheInv
<1> QED BY <1>1, <1>2 DEF Environment

\* BeginInv: a call that begins returns the stored list or waits for the mutex (Call).
LEMMA BeginInv ==
  ASSUME CacheInv, NEW c \in Callers, NEW r \in Resource, Begin(c, r)
  PROVE  CacheInv'
<1>1. /\ UNCHANGED <<stage, entry, mutex, faults, newest>>
      /\ asks' = [asks EXCEPT ![c] = r] /\ floor' = [floor EXCEPT ![c] = newest[r]]
  BY DEF Begin
<1>2. \/ at' = [at EXCEPT ![c] = "done"] /\ snap' = [snap EXCEPT ![c] = entry[r].data]
      \/ at' = [at EXCEPT ![c] = "lock"] /\ snap' = [snap EXCEPT ![c] = 0]
  BY DEF Begin, Call, ReturnCached, Move
<1>3. TypeOK'
  BY <1>1, <1>2 DEF CacheInv, TypeOK, CacheTypeOK
<1>4. OneCall'
  BY <1>1, <1>2 DEF CacheInv, TypeOK, CacheTypeOK, OneCall
<1>5. Ordered'
  BY <1>1, <1>2 DEF CacheInv, TypeOK, CacheTypeOK, Ordered
<1> QED BY <1>3, <1>4, <1>5 DEF CacheInv

\* LockInv: the second check under the mutex, and the way into the API call (Lock).
LEMMA LockInv ==
  ASSUME CacheInv, NEW c \in Callers, Lock(c, asks[c]), UNCHANGED <<asks, newest, floor>>
  PROVE  CacheInv'
<1>1. /\ UNCHANGED <<stage, entry, faults, asks, newest, floor>>
      /\ at[c] = "lock" /\ mutex[asks[c]] = Free /\ asks[c] \in Resource
  BY DEF Lock, CacheInv, TypeOK
<1>2. CASE entry[asks[c]].fresh
  <2>1. /\ at' = [at EXCEPT ![c] = "done"] /\ UNCHANGED mutex
        /\ snap' = [snap EXCEPT ![c] = entry[asks[c]].data]
    BY <1>2 DEF Lock, ReturnCached, Move
  <2>2. TypeOK' /\ OneCall'
    BY <1>1, <2>1 DEF CacheInv, TypeOK, CacheTypeOK, OneCall
  <2>3. Ordered'
    BY <1>1, <2>1 DEF CacheInv, TypeOK, CacheTypeOK, Ordered
  <2> QED BY <2>2, <2>3 DEF CacheInv
<1>3. CASE ~entry[asks[c]].fresh
  <2>1. /\ at' = [at EXCEPT ![c] = "list"] /\ UNCHANGED snap
        /\ mutex' = [mutex EXCEPT ![asks[c]] = c]
    BY <1>3 DEF Lock, Move
  <2>2. TypeOK'
    BY <1>1, <2>1 DEF CacheInv, TypeOK, CacheTypeOK
  <2>3. OneCall'
    BY <1>1, <2>1, CacheReadsAssumption DEF CacheInv, TypeOK, CacheTypeOK, OneCall
  <2>4. Ordered'
    BY <1>1, <2>1 DEF CacheInv, TypeOK, CacheTypeOK, Ordered
  <2> QED BY <2>2, <2>3, <2>4 DEF CacheInv
<1> QED BY <1>2, <1>3

\* ListInv: the API answers with what the cluster shows, or the call fails (List).
LEMMA ListInv ==
  ASSUME CacheInv, NEW c \in Callers, NEW ctxDone \in BOOLEAN,
         List(c, asks[c], ctxDone), UNCHANGED <<asks, newest, floor>>
  PROVE  CacheInv'
<1>1. /\ UNCHANGED <<stage, entry, asks, newest, floor>>
      /\ at[c] = "list" /\ asks[c] \in Resource /\ mutex[asks[c]] = c
  BY DEF List, CacheInv, TypeOK, OneCall
<1>2. faults' \in 0..MaxFaults
  BY CacheReadsAssumption DEF List, NoFault, Fault, CacheInv, TypeOK, CacheTypeOK
<1>3. CASE /\ at' = [at EXCEPT ![c] = "store"] /\ UNCHANGED mutex
           /\ snap' = [snap EXCEPT ![c] = View(asks[c], stage)]
  <2>1. View(asks[c], stage) \in 0..3
    BY <1>1, ViewType DEF CacheInv, TypeOK, CacheTypeOK
  <2>2. TypeOK' /\ OneCall'
    BY <1>1, <1>2, <1>3, <2>1 DEF CacheInv, TypeOK, CacheTypeOK, OneCall
  <2>3. Ordered'
    BY <1>1, <1>3, <2>1 DEF CacheInv, TypeOK, CacheTypeOK, Ordered
  <2> QED BY <2>2, <2>3 DEF CacheInv
<1>4. CASE /\ at' = [at EXCEPT ![c] = "failed"] /\ UNCHANGED snap
           /\ mutex' = [mutex EXCEPT ![asks[c]] = Free]
  <2>1. TypeOK'
    BY <1>1, <1>2, <1>4 DEF CacheInv, TypeOK, CacheTypeOK
  <2>2. OneCall'
    BY <1>1, <1>4 DEF CacheInv, TypeOK, CacheTypeOK, OneCall
  <2>3. Ordered'
    BY <1>1, <1>4 DEF CacheInv, TypeOK, CacheTypeOK, Ordered
  <2> QED BY <2>1, <2>2, <2>3 DEF CacheInv
<1> QED BY <1>3, <1>4 DEF List, Move, Unlock

\* StoreInv: the list is stored by the holder of the mutex, over an older one (Store).
LEMMA StoreInv ==
  ASSUME CacheInv, NEW c \in Callers, Store(c, asks[c]), UNCHANGED <<asks, newest, floor>>
  PROVE  CacheInv' /\ \A r \in Resource : entry'[r].data >= entry[r].data
<1>1. /\ UNCHANGED <<stage, snap, faults, asks, newest, floor>>
      /\ at[c] = "store" /\ asks[c] \in Resource /\ mutex[asks[c]] = c
      /\ at' = [at EXCEPT ![c] = "done"]
      /\ mutex' = [mutex EXCEPT ![asks[c]] = Free]
  BY DEF Store, Move, CacheInv, TypeOK, OneCall
<1>2. /\ entry' \in [Resource -> [data : 0..3, fresh : BOOLEAN]]
      /\ entry'[asks[c]].data = snap[c]
      /\ \A r \in Resource \ {asks[c]} : entry'[r] = entry[r]
  BY <1>1 DEF Store, CacheInv, TypeOK, CacheTypeOK
<1>3. \A r \in Resource : entry'[r].data >= entry[r].data
  BY <1>1, <1>2 DEF CacheInv, TypeOK, CacheTypeOK, Ordered
<1>4. TypeOK'
  BY <1>1, <1>2 DEF CacheInv, TypeOK, CacheTypeOK
<1>5. OneCall'
  BY <1>1 DEF CacheInv, TypeOK, CacheTypeOK, OneCall
<1>6. \A d \in Callers \ {c} : at[d] = "store" => asks[d] # asks[c]
  BY <1>1 DEF CacheInv, OneCall
<1>7. Ordered'
  BY <1>1, <1>2, <1>3, <1>6, ViewType DEF CacheInv, TypeOK, CacheTypeOK, Ordered
<1> QED BY <1>3, <1>4, <1>5, <1>7 DEF CacheInv

\* FinishInv: a caller goes on with what it has got (Return).
LEMMA FinishInv ==
  ASSUME CacheInv, NEW c \in Callers, Finish(c)
  PROVE  CacheInv'
<1>1. /\ UNCHANGED <<stage, entry, mutex, faults>>
      /\ at' = [at EXCEPT ![c] = "idle"] /\ snap' = [snap EXCEPT ![c] = 0]
      /\ floor' = [floor EXCEPT ![c] = 0] /\ asks' = [asks EXCEPT ![c] = "jobs"]
      /\ at[c] \in {"done", "failed"} /\ asks[c] \in Resource
  BY DEF Finish, Return, Returned, Move, CacheInv, TypeOK
<1>2. /\ newest' \in [Resource -> 0..3]
      /\ \A r \in Resource : newest[r] <= newest'[r] /\ newest'[r] <= entry[r].data
  BY <1>1 DEF Finish, CacheInv, TypeOK, CacheTypeOK, Ordered
<1>3. TypeOK'
  BY <1>1, <1>2 DEF CacheInv, TypeOK, CacheTypeOK
<1>4. OneCall'
  BY <1>1 DEF CacheInv, TypeOK, CacheTypeOK, OneCall
<1>5. Ordered'
  BY <1>1, <1>2 DEF CacheInv, TypeOK, CacheTypeOK, Ordered
<1> QED BY <1>3, <1>4, <1>5 DEF CacheInv

\* NextInv: every step preserves the invariant, and no step puts an older list into
\* the cache (getAllJobs, getAllPods).
LEMMA NextInv ==
  CacheInv /\ [Next]_vars => CacheInv' /\ \A r \in Resource : entry'[r].data >= entry[r].data
<1> SUFFICES ASSUME CacheInv, [Next]_vars
             PROVE  CacheInv' /\ \A r \in Resource : entry'[r].data >= entry[r].data
  OBVIOUS
<1>1. \A r \in Resource : entry[r].data \in 0..3
  BY DEF CacheInv, TypeOK, CacheTypeOK
<1>2. CASE Environment
  <2>1. \A r \in Resource : entry'[r].data = entry[r].data
    BY <1>2 DEF Environment, Progress, Expire, cacheVars, CacheInv, TypeOK, CacheTypeOK
  <2> QED BY <1>1, <1>2, <2>1, EnvironmentInv
<1>3. ASSUME NEW c \in Callers, Step(c)
      PROVE  CacheInv' /\ \A r \in Resource : entry'[r].data >= entry[r].data
  <2>1. PICK ctxDone \in BOOLEAN : GetAll(c, asks[c], ctxDone)
    BY <1>3 DEF Step
  <2>2. UNCHANGED <<asks, newest, floor>>
    BY <1>3 DEF Step
  <2>3. CASE Lock(c, asks[c])
    BY <1>1, <2>2, <2>3, LockInv DEF Lock
  <2>4. CASE List(c, asks[c], ctxDone)
    BY <1>1, <2>2, <2>4, ListInv DEF List
  <2>5. CASE Store(c, asks[c])
    BY <2>2, <2>5, StoreInv
  <2> QED BY <2>1, <2>3, <2>4, <2>5 DEF GetAll
<1>4. ASSUME NEW c \in Callers, Finish(c)
      PROVE  CacheInv' /\ \A r \in Resource : entry'[r].data >= entry[r].data
  <2>1. CacheInv'
    BY <1>4, FinishInv
  <2>2. entry' = entry
    BY <1>4 DEF Finish
  <2> QED BY <1>1, <2>1, <2>2
<1>5. ASSUME NEW c \in Callers, NEW r \in Resource, Begin(c, r)
      PROVE  CacheInv' /\ \A q \in Resource : entry'[q].data >= entry[q].data
  <2>1. CacheInv'
    BY <1>5, BeginInv
  <2>2. entry' = entry
    BY <1>5 DEF Begin
  <2> QED BY <1>1, <2>1, <2>2
<1>6. CASE UNCHANGED vars
  BY <1>1, <1>6 DEF vars, cacheVars, CacheInv, TypeOK, CacheTypeOK, OneCall, Ordered
<1> QED BY <1>2, <1>3, <1>4, <1>5, <1>6 DEF Next

-----------------------------------------------------------------------------
\* CacheInvariance: the invariant of the cache, on which the other theorems rest.
THEOREM CacheInvariance == Spec => []CacheInv
<1>1. CacheInv /\ [Next]_vars => CacheInv'
  BY NextInv
<1> QED BY InitInv, <1>1, PTL DEF Spec

\* TypeCorrect: type correctness for any number of callers (getAllJobs, getAllPods).
THEOREM TypeCorrect == Spec => []TypeOK
<1>1. CacheInv => TypeOK
  BY DEF CacheInv
<1> QED BY CacheInvariance, <1>1, PTL

\* MutualExclusion: the mutex allows one API call at a time for each list
\* (jobsMutex, podsMutex).
THEOREM MutualExclusion == Spec => []OneCall
<1>1. CacheInv => OneCall
  BY DEF CacheInv
<1> QED BY CacheInvariance, <1>1, PTL

\* ListsOrdered: what was read, what is stored, what is about to be and what the
\* cluster shows stay in this order (getAllJobs, getAllPods).
THEOREM ListsOrdered == Spec => []Ordered
<1>1. CacheInv => Ordered
  BY DEF CacheInv
<1> QED BY CacheInvariance, <1>1, PTL

\* ReadsMonotone: a call returns no older a list than calls that returned before it
\* began (getAllJobs, getAllPods).
THEOREM ReadsMonotone == Spec => []MonotonicReads
<1>1. CacheInv => MonotonicReads
  BY DEF CacheInv, TypeOK, CacheTypeOK, Ordered, MonotonicReads
<1> QED BY CacheInvariance, <1>1, PTL

\* CacheNeverBack: no store replaces a list by an older one (the stores at the end of
\* getAllJobs and getAllPods).
THEOREM CacheNeverBack == Spec => NeverBack
<1>1. CacheInv /\ [Next]_vars => [\A r \in Resource : entry'[r].data >= entry[r].data]_vars
  BY NextInv
<1> QED BY CacheInvariance, <1>1, PTL DEF Spec, NeverBack
=============================================================================
