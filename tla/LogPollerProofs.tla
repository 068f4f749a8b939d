-------------------------- MODULE LogPollerProofs ---------------------------
(***************************************************************************)
(* Proofs about the log streams of v1 and v1alpha, for logs of any length, *)
(* any number of connections, broken responses and failed calls: type      *)
(* correctness, that a client is told of the end of a run only when it has *)
(* ended, and that it gets the lines in order and without a gap.           *)
(***************************************************************************)
EXTENDS LogPoller, TLAPS

-----------------------------------------------------------------------------
(* The inductive invariant.                                                *)

\* The list that is asked for.
Asked == IF hnd = "findPod" THEN "pods" ELSE "jobs"

\* The handler calls the cache before Subscribe runs, and Subscribe thereafter.
PhaseInv ==
  /\ sub # "none" => hnd \in {"serving", "idle"}
  /\ hnd = "serving" => sub # "none"
  /\ sub \in {"loop", "send", "closed"} \/ (hnd = "idle" /\ sub = "none") => at[me] = "idle"

\* What was read, what is stored and what the cluster shows are in this order of age.
OrderInv ==
  /\ \A r \in Resource : entry[r].data <= View(r, stage)
  /\ at[me] \in {"list", "store"} => mutex[Asked] = me
  /\ at[me] = "store" => entry[Asked].data <= snap[me] /\ snap[me] <= View(Asked, stage)
  /\ at[me] = "done" => snap[me] <= entry[Asked].data

\* Subscribe runs only when the job has been seen, and so does not take a job that
\* is not there yet for one that has been removed.
SeenInv ==
  /\ hnd \in {"findPod", "serving"} \/ sub # "none" => entry["jobs"].data >= 1
  /\ sub = "isFinished" /\ at[me] \in {"store", "done"} => snap[me] >= 1

\* What Subscribe has yet to send begins at its counter.
BatchInv ==
  /\ batch # {} => sub = "send" /\ out = "line"
  /\ \A line \in batch : counter <= line.n /\ line.n \in Readable /\ (version = "v1" => line.whole)
  /\ \A line, other \in batch : line.n = other.n => line = other
  /\ counter <= Len(log) + 1 /\ last <= Len(log)

\* What the counter has passed, and what a response leaves out, is no line that the
\* client still has to get.
Attached == client = "connected" /\ sub # "none"
GapInv ==
  /\ NoGap
  /\ last # 0 => Passed(last)
  /\ Attached =>
       /\ \A n \in 1..(counter - 1) : Sendable(n) => Passed(n)
       /\ \A line \in batch : \A n \in 1..(line.n - 1) :
            Sendable(n) => Passed(n) \/ \E other \in batch : other.n = n

\* Unless v1 has lines that it does not count, or began before the first one, the counter
\* is the number of the line that is next.
CountInv ==
  Attached /\ sub # "closed" /\ CountsAll =>
    /\ counter >= 1 /\ last <= counter
    /\ \A line \in batch : \A n \in counter..line.n : \E other \in batch : other.n = n

PollerInv ==
  TypeOK /\ PhaseInv /\ OrderInv /\ SeenInv /\ ToldTheTruth /\ BatchInv /\ GapInv /\ CountInv

-----------------------------------------------------------------------------
(* The cache.                                                              *)

USE LogPollerAssumption
USE DEF Absent, Pending, Up, Ended, Finished, Removed, Resource, Free, At, HandlerState,
        cacheVars, subVars, clientVars, me

\* ViewFacts: what a list shows goes on with the suite runner, and a list that shows
\* a result shows it of a run that has finished (View).
LEMMA ViewFacts ==
  /\ \A r \in Resource, s \in Absent..Removed : View(r, s) \in 0..3
  /\ \A r \in Resource, s, t \in Absent..Removed : s <= t => View(r, s) <= View(r, t)
  /\ \A s \in Absent..Removed : View("jobs", s) >= 2 => s >= Finished
BY DEF View

\* CallFacts: a call that begins returns the stored list or waits for the mutex (Call).
LEMMA CallFacts ==
  ASSUME TypeOK, NEW r \in Resource, Call(me, r)
  PROVE  /\ at' \in [Callers -> At] /\ snap' \in [Callers -> 0..3]
         /\ \/ at'[me] = "done" /\ snap'[me] = entry[r].data
            \/ at'[me] = "lock"
BY DEF TypeOK, CacheTypeOK, Call, ReturnCached, Move

\* ReturnFacts: a caller goes on with what it has got (Return).
LEMMA ReturnFacts ==
  ASSUME TypeOK, Return(me)
  PROVE  at' \in [Callers -> At] /\ snap' \in [Callers -> 0..3] /\ at'[me] = "idle"
BY DEF TypeOK, CacheTypeOK, Return, Move

\* FaultFacts: the count of faults stays within its bound (Fault).
LEMMA FaultFacts ==
  ASSUME TypeOK, Fault \/ NoFault PROVE faults' \in 0..MaxFaults
BY DEF TypeOK, CacheTypeOK, Fault, NoFault

\* StepFacts: getAllJobs and getAllPods, from the mutex to their return (GetAll).
LEMMA StepFacts ==
  ASSUME TypeOK, CacheStep
  PROVE  /\ UNCHANGED <<stage, version, log, service, hnd, ctx, subVars, clientVars>>
         /\ entry' \in [Resource -> [data : 0..3, fresh : BOOLEAN]]
         /\ mutex' \in [Resource -> Callers \cup {Free}]
         /\ at' \in [Callers -> At] /\ snap' \in [Callers -> 0..3] /\ faults' \in 0..MaxFaults
         /\ \/ /\ at[me] = "lock" /\ at'[me] = "done" /\ UNCHANGED <<entry, mutex>>
               /\ snap'[me] = entry[Asked].data
            \/ /\ at[me] = "lock" /\ at'[me] = "list" /\ UNCHANGED <<entry, snap>>
               /\ mutex'[Asked] = me
            \/ /\ at[me] = "list" /\ at'[me] = "store" /\ UNCHANGED <<entry, mutex>>
               /\ snap'[me] = View(Asked, stage)
            \/ /\ at[me] = "list" /\ at'[me] = "failed" /\ UNCHANGED entry
            \/ /\ at[me] = "store" /\ at'[me] = "done" /\ UNCHANGED snap
               /\ entry'[Asked].data = snap[me]
               /\ \A r \in Resource \ {Asked} : entry'[r] = entry[r]
<1>1. UNCHANGED <<version, log, service, hnd, ctx, subVars, clientVars>>
  BY DEF CacheStep
<1>2. Asked \in Resource /\ GetAll(me, Asked, CacheCtxDone)
  BY DEF CacheStep, Asked
<1>3. CASE Lock(me, Asked)
  BY <1>1, <1>2, <1>3 DEF TypeOK, CacheTypeOK, Lock, ReturnCached, Move
<1>4. CASE List(me, Asked, CacheCtxDone)
  <2>1. UNCHANGED <<stage, entry>> /\ at[me] = "list" /\ faults' \in 0..MaxFaults
    BY <1>4, FaultFacts DEF List
  <2>2. View(Asked, stage) \in 0..3
    BY <1>2, ViewFacts DEF TypeOK, CacheTypeOK
  <2>3. CASE at' = [at EXCEPT ![me] = "store"] /\ UNCHANGED mutex
             /\ snap' = [snap EXCEPT ![me] = View(Asked, stage)]
    BY <1>1, <2>1, <2>2, <2>3 DEF TypeOK, CacheTypeOK
  <2>4. CASE at' = [at EXCEPT ![me] = "failed"] /\ UNCHANGED snap
             /\ mutex' = [mutex EXCEPT ![Asked] = Free]
    BY <1>1, <2>1, <2>4 DEF TypeOK, CacheTypeOK
  <2> QED BY <1>4, <2>3, <2>4 DEF List, Move, Unlock
<1>5. CASE Store(me, Asked)
  <2>1. UNCHANGED <<stage, snap, faults>> /\ at[me] = "store"
    BY <1>5 DEF Store
  <2>2. /\ entry' \in [Resource -> [data : 0..3, fresh : BOOLEAN]]
        /\ entry'[Asked].data = snap[me]
        /\ \A r \in Resource \ {Asked} : entry'[r] = entry[r]
    BY <1>2, <1>5 DEF TypeOK, CacheTypeOK, Store
  <2>3. /\ at' \in [Callers -> At] /\ at'[me] = "done"
        /\ mutex' \in [Resource -> Callers \cup {Free}]
    BY <1>2, <1>5 DEF TypeOK, CacheTypeOK, Store, Move
  <2> QED BY <1>1, <2>1, <2>2, <2>3 DEF TypeOK, CacheTypeOK
<1> QED BY <1>2, <1>3, <1>4, <1>5 DEF GetAll

-----------------------------------------------------------------------------
(* What is known of the run.                                               *)

KnowInv == PhaseInv /\ OrderInv /\ SeenInv /\ ToldTheTruth

\* KnowFrame: steps that leave the cache and the run alone.
LEMMA KnowFrame ==
  ASSUME KnowInv, PhaseInv', UNCHANGED <<stage, entry, mutex, at, snap>>,
         Asked' = Asked,
         hnd' \in {"findPod", "serving"} => hnd \in {"findPod", "serving"},
         sub' # "none" => sub # "none",
         sub' = "isFinished" => sub = "isFinished",
         out' = "shutdown" => out = "shutdown",
         client' = "told" => client = "told" \/ out = "shutdown"
  PROVE  KnowInv'
<1>1. OrderInv'
  BY DEF KnowInv, OrderInv
<1>2. SeenInv'
  BY DEF KnowInv, SeenInv
<1>3. ToldTheTruth'
  BY DEF KnowInv, ToldTheTruth
<1> QED BY <1>1, <1>2, <1>3 DEF KnowInv

\* CallStep: the handler or Subscribe calls the cache (Call).
LEMMA CallStep ==
  ASSUME TypeOK, KnowInv, PhaseInv', UNCHANGED <<stage, entry, mutex>>,
         Call(me, Asked'),
         hnd' \in {"findPod", "serving"} \/ sub' # "none" => entry["jobs"].data >= 1,
         sub' = "isFinished" => Asked' = "jobs",
         UNCHANGED out, client' = "told" => client = "told"
  PROVE  KnowInv'
<1>1. Asked' \in Resource
  BY DEF Asked
<1>2. \/ at'[me] = "done" /\ snap'[me] = entry[Asked'].data
      \/ at'[me] = "lock"
  BY <1>1, CallFacts
<1>3. OrderInv'
  <2>1. \A r \in Resource : entry[r].data \in Nat
    BY DEF TypeOK, CacheTypeOK
  <2> QED BY <1>1, <1>2, <2>1 DEF KnowInv, OrderInv
<1>4. SeenInv'
  BY <1>2 DEF SeenInv
<1>5. ToldTheTruth'
  BY DEF KnowInv, ToldTheTruth
<1> QED BY <1>3, <1>4, <1>5 DEF KnowInv

\* ReturnStep: the handler or Subscribe goes on with the result (Return).
LEMMA ReturnStep ==
  ASSUME TypeOK, KnowInv, PhaseInv', UNCHANGED <<stage, entry, mutex>>, Return(me),
         hnd' \in {"findPod", "serving"} \/ sub' # "none" => entry["jobs"].data >= 1,
         out' = "shutdown" => out = "shutdown" \/ stage >= Finished,
         client' = "told" => client = "told"
  PROVE  KnowInv'
<1>1. at'[me] = "idle"
  BY ReturnFacts
<1>2. OrderInv'
  BY <1>1 DEF KnowInv, OrderInv
<1>3. SeenInv'
  BY <1>1 DEF SeenInv
<1>4. ToldTheTruth'
  BY DEF KnowInv, ToldTheTruth
<1> QED BY <1>2, <1>3, <1>4 DEF KnowInv

\* WorldStep: the run goes on, entries expire and other requests refresh them
\* (Progress, Expire, OthersRefresh).
LEMMA WorldStep ==
  ASSUME TypeOK, TypeOK', KnowInv,
         SuiteRunner \/ \E r \in Resource : CacheExpires(r) \/ OthersRefresh(r)
  PROVE  KnowInv'
<1>1. UNCHANGED <<mutex, at, snap, hnd, sub, out, client>>
  BY DEF SuiteRunner, Progress, CacheExpires, Expire, OthersRefresh
<1>2. PhaseInv' /\ Asked' = Asked /\ Asked \in Resource
  BY <1>1 DEF KnowInv, PhaseInv, Asked
<1>3. CASE SuiteRunner
  <2>1. stage \in Absent..Removed /\ stage' \in Absent..Removed /\ stage <= stage'
    BY <1>3 DEF SuiteRunner, Progress, TypeOK, CacheTypeOK
  <2>2. UNCHANGED entry
    BY <1>3 DEF SuiteRunner, Progress
  <2>3. \A r \in Resource : /\ View(r, stage) <= View(r, stage') /\ entry[r].data \in 0..3
                            /\ View(r, stage) \in 0..3 /\ View(r, stage') \in 0..3
    BY <2>1, ViewFacts DEF TypeOK, CacheTypeOK
  <2>4. snap[me] \in 0..3
    BY DEF TypeOK, CacheTypeOK
  <2>5. OrderInv'
    BY <1>1, <1>2, <2>2, <2>3, <2>4 DEF KnowInv, OrderInv
  <2>6. SeenInv'
    BY <1>1, <2>2 DEF KnowInv, SeenInv
  <2>7. ToldTheTruth'
    BY <1>1, <2>1 DEF KnowInv, ToldTheTruth
  <2> QED BY <1>2, <2>5, <2>6, <2>7 DEF KnowInv
<1>4. ASSUME NEW r \in Resource, CacheExpires(r) PROVE KnowInv'
  <2>1. UNCHANGED stage /\ \A q \in Resource : entry'[q].data = entry[q].data
    BY <1>4 DEF CacheExpires, Expire, TypeOK, CacheTypeOK
  <2>2. OrderInv'
    BY <1>1, <1>2, <2>1 DEF KnowInv, OrderInv
  <2>3. SeenInv' /\ ToldTheTruth'
    BY <1>1, <2>1 DEF KnowInv, SeenInv, ToldTheTruth
  <2> QED BY <1>2, <2>2, <2>3 DEF KnowInv
<1>5. ASSUME NEW r \in Resource, OthersRefresh(r) PROVE KnowInv'
  <2>1. /\ UNCHANGED stage /\ mutex[r] = Free /\ entry'[r].data = View(r, stage)
        /\ \A q \in Resource \ {r} : entry'[q] = entry[q]
    BY <1>5 DEF OthersRefresh, TypeOK, CacheTypeOK
  <2>2. \A q \in Resource : /\ entry[q].data \in 0..3 /\ View(q, stage) \in 0..3
                            /\ entry'[q].data \in 0..3
    BY ViewFacts DEF TypeOK, CacheTypeOK
  <2>3. \A q \in Resource : entry[q].data <= entry'[q].data /\ entry'[q].data <= View(q, stage)
    BY <2>1, <2>2 DEF KnowInv, OrderInv
  <2>4. at[me] = "store" => entry'[Asked] = entry[Asked]
    BY <1>2, <2>1 DEF KnowInv, OrderInv
  <2>5. snap[me] \in 0..3
    BY DEF TypeOK, CacheTypeOK
  <2>6. OrderInv'
    BY <1>1, <1>2, <2>1, <2>2, <2>3, <2>4, <2>5 DEF KnowInv, OrderInv
  <2>7. SeenInv' /\ ToldTheTruth'
    BY <1>1, <2>1, <2>2, <2>3 DEF KnowInv, SeenInv, ToldTheTruth
  <2> QED BY <1>2, <2>6, <2>7 DEF KnowInv
<1> QED BY <1>3, <1>4, <1>5

\* ListStep: getAllJobs or getAllPods gets on (GetAll).
LEMMA ListStep ==
  ASSUME TypeOK, TypeOK', KnowInv, CacheStep
  PROVE  KnowInv'
<1>1. UNCHANGED <<stage, hnd, sub, out, client>>
  BY StepFacts
<1>2. Asked' = Asked /\ Asked \in Resource /\ ToldTheTruth'
  BY <1>1 DEF KnowInv, ToldTheTruth, Asked
<1>3. at[me] \in {"lock", "list", "store"} /\ at'[me] # "idle"
  BY StepFacts
<1>4. PhaseInv'
  BY <1>1, <1>3 DEF KnowInv, PhaseInv
<1>5. \A r \in Resource : /\ entry[r].data \in 0..3 /\ View(r, stage) \in 0..3
                          /\ entry'[r].data \in 0..3
  BY ViewFacts DEF TypeOK, CacheTypeOK
<1>6. snap[me] \in 0..3 /\ snap'[me] \in 0..3
  BY DEF TypeOK, CacheTypeOK
<1>7. sub = "isFinished" => Asked = "jobs" /\ entry["jobs"].data >= 1
  BY DEF KnowInv, PhaseInv, SeenInv, Asked
<1>8. CASE at[me] = "lock" /\ at'[me] = "done" /\ UNCHANGED <<entry, mutex>>
           /\ snap'[me] = entry[Asked].data
  BY <1>1, <1>2, <1>4, <1>5, <1>7, <1>8 DEF KnowInv, OrderInv, SeenInv
<1>9. CASE at[me] = "lock" /\ at'[me] = "list" /\ UNCHANGED <<entry, snap>>
           /\ mutex'[Asked] = me
  BY <1>1, <1>2, <1>4, <1>9 DEF KnowInv, OrderInv, SeenInv
<1>10. CASE at[me] = "list" /\ at'[me] = "store" /\ UNCHANGED <<entry, mutex>>
            /\ snap'[me] = View(Asked, stage)
  <2>1. OrderInv'
    BY <1>1, <1>2, <1>5, <1>10 DEF KnowInv, OrderInv
  <2>2. sub = "isFinished" => snap'[me] >= 1
    BY <1>2, <1>5, <1>7, <1>10 DEF KnowInv, OrderInv
  <2>3. SeenInv'
    BY <1>1, <1>10, <2>2 DEF KnowInv, SeenInv
  <2> QED BY <1>2, <1>4, <2>1, <2>3 DEF KnowInv
<1>11. CASE at[me] = "list" /\ at'[me] = "failed" /\ UNCHANGED entry
  BY <1>1, <1>2, <1>4, <1>11 DEF KnowInv, OrderInv, SeenInv
<1>12. CASE at[me] = "store" /\ at'[me] = "done" /\ UNCHANGED snap
            /\ entry'[Asked].data = snap[me]
            /\ \A r \in Resource \ {Asked} : entry'[r] = entry[r]
  <2>1. \A r \in Resource : entry[r].data <= entry'[r].data /\ entry'[r].data <= View(r, stage)
    BY <1>2, <1>5, <1>12 DEF KnowInv, OrderInv
  <2>2. OrderInv'
    BY <1>1, <1>2, <1>6, <1>12, <2>1 DEF KnowInv, OrderInv
  <2>3. SeenInv'
    BY <1>1, <1>5, <1>12, <2>1 DEF KnowInv, SeenInv
  <2> QED BY <1>2, <1>4, <2>2, <2>3 DEF KnowInv
<1> QED BY <1>8, <1>9, <1>10, <1>11, <1>12, StepFacts

\* HandlerStep: a request on its way to the log listener (GetEvents, LogListenerIP).
LEMMA HandlerStep ==
  ASSUME TypeOK, KnowInv, Request \/ Handler
  PROVE  KnowInv'
<1>1. UNCHANGED <<stage, entry, mutex>>
  BY DEF Request, Handler, AfterIsFinished, AfterFindJob, AfterFindPod
<1>2. entry["jobs"].data \in 0..3 /\ snap[me] \in 0..3
  BY DEF TypeOK, CacheTypeOK
<1>3. CASE Request
  <2>1. /\ Call(me, "jobs") /\ hnd' = "isFinished" /\ sub = "none" /\ UNCHANGED subVars
        /\ client' = "connected"
    BY <1>3 DEF Request, Goto
  <2>2. Asked' = "jobs" /\ PhaseInv'
    BY <2>1 DEF Asked, PhaseInv
  <2> QED BY <1>1, <2>1, <2>2, CallStep
<1>4. CASE AfterIsFinished
  <2>1. hnd = "isFinished" /\ UNCHANGED subVars /\ sub = "none"
    BY <1>4 DEF AfterIsFinished, KnowInv, PhaseInv
  <2>2. CASE hnd' = "idle" /\ Return(me) /\ (client' = "told" => client = "told")
    <3>1. PhaseInv'
      BY <2>1, <2>2, ReturnFacts DEF PhaseInv
    <3> QED BY <1>1, <2>1, <2>2, <3>1, ReturnStep
  <2>3. CASE hnd' = "findJob" /\ Call(me, "jobs") /\ UNCHANGED client
    <3>1. Asked' = "jobs" /\ PhaseInv'
      BY <2>1, <2>3 DEF Asked, PhaseInv
    <3> QED BY <1>1, <2>1, <2>3, <3>1, CallStep
  <2> QED BY <1>4, <2>2, <2>3 DEF AfterIsFinished, Respond, Goto
<1>5. CASE AfterFindJob
  <2>1. hnd = "findJob" /\ UNCHANGED subVars /\ sub = "none"
    BY <1>5 DEF AfterFindJob, KnowInv, PhaseInv
  <2>2. CASE JobFound(me) /\ hnd' = "findPod" /\ Call(me, "pods") /\ UNCHANGED client
    <3>1. Asked' = "pods" /\ Asked = "jobs" /\ PhaseInv'
      BY <2>1, <2>2 DEF Asked, PhaseInv
    <3>2. entry["jobs"].data >= 1
      BY <1>2, <2>2, <3>1 DEF JobFound, KnowInv, OrderInv
    <3> QED BY <1>1, <2>1, <2>2, <3>1, <3>2, CallStep
  <2>3. CASE hnd' = "idle" /\ Return(me) /\ (client' = "told" => client = "told")
    <3>1. PhaseInv'
      BY <2>1, <2>3, ReturnFacts DEF PhaseInv
    <3> QED BY <1>1, <2>1, <2>3, <3>1, ReturnStep
  <2> QED BY <1>5, <2>2, <2>3 DEF AfterFindJob, Respond, Goto
<1>6. CASE AfterFindPod
  <2>1. hnd = "findPod" /\ sub = "none" /\ Return(me)
    BY <1>6 DEF AfterFindPod, KnowInv, PhaseInv
  <2>2. entry["jobs"].data >= 1
    BY <2>1 DEF KnowInv, SeenInv
  <2>3. /\ (hnd' = "serving" /\ sub' = "loop") \/ (hnd' = "idle" /\ sub' = "none")
        /\ UNCHANGED out /\ (client' = "told" => client = "told")
    BY <1>6, <2>1 DEF AfterFindPod, NotParsable, StartSubscribe, Respond, Goto
  <2>4. PhaseInv'
    BY <2>1, <2>3, ReturnFacts DEF PhaseInv
  <2> QED BY <1>1, <2>1, <2>2, <2>3, <2>4, ReturnStep
<1> QED BY <1>3, <1>4, <1>5, <1>6 DEF Handler

\* FinishedStep: Subscribe asks whether the run is finished (IsFinished).
LEMMA FinishedStep ==
  ASSUME TypeOK, KnowInv, PollFails \/ AfterPollFails
  PROVE  KnowInv'
<1>1. UNCHANGED <<stage, entry, mutex, hnd, client>>
  BY DEF PollFails, AfterPollFails
<1>2. sub \in {"loop", "isFinished"} /\ hnd \in {"serving", "idle"} /\ Asked = "jobs"
  BY DEF PollFails, AfterPollFails, KnowInv, PhaseInv, Asked
<1>3. Asked' = "jobs" /\ entry["jobs"].data >= 1
  BY <1>1, <1>2 DEF Asked, KnowInv, SeenInv
<1>4. CASE PollFails
  <2>1. Call(me, "jobs") /\ sub' = "isFinished" /\ UNCHANGED out
    BY <1>4 DEF PollFails
  <2>2. PhaseInv'
    BY <1>1, <1>2, <2>1 DEF PhaseInv
  <2> QED BY <1>1, <1>3, <2>1, <2>2, CallStep
<1>5. CASE AfterPollFails
  <2>1. Return(me) /\ sub = "isFinished" /\ sub' \in {"send", "loop"}
    BY <1>5 DEF AfterPollFails
  <2>2. PhaseInv'
    BY <1>1, <1>2, <2>1, ReturnFacts DEF PhaseInv
  <2>3. IsFinished(me) => stage >= Finished
    <3> SUFFICES ASSUME IsFinished(me) PROVE stage >= Finished
      OBVIOUS
    <3>1. stage \in Absent..Removed /\ entry["jobs"].data \in 0..3 /\ snap[me] \in 0..3
      BY DEF TypeOK, CacheTypeOK
    <3>2. View("jobs", stage) \in 0..3
      BY <3>1, ViewFacts
    <3>3. at[me] = "done" /\ snap[me] \in {0, 2, 3} /\ snap[me] >= 1
      BY <2>1 DEF IsFinished, KnowInv, SeenInv
    <3>4. snap[me] <= entry["jobs"].data /\ entry["jobs"].data <= View("jobs", stage)
      BY <1>2, <3>3 DEF KnowInv, OrderInv
    <3>5. View("jobs", stage) >= 2
      BY <3>1, <3>2, <3>3, <3>4
    <3> QED BY <3>1, <3>5, ViewFacts
  <2>4. out' = "shutdown" => out = "shutdown" \/ stage >= Finished
    BY <1>5, <2>3 DEF AfterPollFails
  <2> QED BY <1>1, <1>3, <2>1, <2>2, <2>4, ReturnStep
<1> QED BY <1>4, <1>5

\* KnowStep: every step keeps what the handler and Subscribe know of the run.
LEMMA KnowStep ==
  ASSUME TypeOK, TypeOK', KnowInv, [Next]_vars
  PROVE  KnowInv'
<1>1. CASE UNCHANGED <<stage, entry, mutex, at, snap, hnd, sub, out>>
           /\ (client' = "told" => client = "told")
  <2>1. PhaseInv' /\ Asked' = Asked
    BY <1>1 DEF KnowInv, PhaseInv, Asked
  <2> QED BY <1>1, <2>1, KnowFrame
<1>2. CASE Poll \/ Ping \/ SubscribeCtxDone \/ Reap \/ HandlerWrite \/ HandlerClosed
           \/ HandlerReturns
  <2> USE DEF Poll, SendNext, Ping, SubscribeCtxDone, Reap, HandlerWrite, WriteLine, WriteEvent,
              HandlerClosed, HandlerReturns, Respond, Goto, Serving
  <2>1. UNCHANGED <<stage, entry, mutex, at, snap>>
    BY <1>2
  <2>2. /\ sub # "none" /\ hnd \in {"serving", "idle"} /\ hnd' \in {"serving", "idle"}
        /\ hnd' = "serving" => hnd = "serving"
    BY <1>2 DEF KnowInv, PhaseInv
  <2>3. /\ sub' = "none" => hnd' = "idle" /\ sub = "closed"
        /\ \/ sub' = sub
           \/ sub \in {"loop", "send", "closed"} /\ sub' # "isFinished"
    BY <1>2, <2>2
  <2>4. /\ out' = "shutdown" => out = "shutdown"
        /\ client' = "told" => client = "told" \/ out = "shutdown"
    BY <1>2
  <2>5. PhaseInv'
    BY <2>1, <2>2, <2>3 DEF KnowInv, PhaseInv
  <2>6. Asked' = Asked
    BY <2>2 DEF Asked
  <2> QED BY <2>1, <2>2, <2>3, <2>4, <2>5, <2>6, KnowFrame
<1>3. CASE PollPanics
  <2>1. /\ UNCHANGED <<stage, entry, mutex, at, snap, out>> /\ sub = "loop"
        /\ sub' = "none" /\ hnd' = "idle" /\ client' \in {client, "away"}
    BY <1>3 DEF PollPanics, Respond, Goto
  <2>2. PhaseInv' /\ Asked' = Asked
    BY <2>1 DEF KnowInv, PhaseInv, Asked
  <2> QED BY <2>1, <2>2, KnowFrame
<1> QED
  BY <1>1, <1>2, <1>3, WorldStep, ListStep, HandlerStep, FinishedStep
     DEF Next, LogLine, Leave, Shutdown, Subscribe, Tick, Stream, HandlerCancel, CancelCtx, vars

-----------------------------------------------------------------------------
(* Lines.                                                                  *)

\* LogFacts: the lines of the log, and those that a scanner gets to (Readable).
LEMMA LogFacts ==
  ASSUME TypeOK
  PROVE  /\ Len(log) \in Nat /\ Len(log) <= MaxLines
         /\ Readable \subseteq 1..Len(log) /\ Readable \subseteq 1..MaxLines
         /\ \A n \in Readable : n \in Nat /\ \A m \in 1..n : m \in Readable
<1>1. Len(log) \in Nat /\ Len(log) <= MaxLines
  BY DEF TypeOK
<1>2. Readable \subseteq 1..Len(log) /\ Readable \subseteq 1..MaxLines
  BY <1>1 DEF Readable
<1>3. ASSUME NEW n \in Readable, NEW m \in 1..n PROVE m \in Readable
  BY <1>1 DEF Readable
<1> QED BY <1>1, <1>2, <1>3

\* LinesFacts: a response holds whole lines, and at its end perhaps a part (Lines).
LEMMA LinesFacts ==
  ASSUME NEW from \in Int, NEW to \in Nat, NEW broken \in BOOLEAN
  PROVE  /\ \A l \in Lines(from, to, broken) :
              /\ l \in [n : Nat, whole : BOOLEAN]
              /\ \/ l.whole = TRUE /\ l.n \in 1..to /\ l.n >= from
                 \/ l.whole = FALSE /\ l.n = to + 1 /\ broken
         /\ \A i \in 1..to : i >= from => [n |-> i, whole |-> TRUE] \in Lines(from, to, broken)
<1>1. ASSUME NEW l \in Lines(from, to, broken)
      PROVE  /\ l \in [n : Nat, whole : BOOLEAN]
             /\ \/ l.whole = TRUE /\ l.n \in 1..to /\ l.n >= from
                \/ l.whole = FALSE /\ l.n = to + 1 /\ broken
  <2>1. ASSUME NEW i \in 1..to, i >= from, l = [n |-> i, whole |-> TRUE]
        PROVE  l \in [n : Nat, whole : BOOLEAN] /\ l.whole = TRUE /\ l.n \in 1..to /\ l.n >= from
    BY <2>1
  <2>2. ASSUME broken, l = [n |-> to + 1, whole |-> FALSE]
        PROVE  l \in [n : Nat, whole : BOOLEAN] /\ l.whole = FALSE /\ l.n = to + 1
    BY <2>2
  <2>3. \/ \E i \in 1..to : i >= from /\ l = [n |-> i, whole |-> TRUE]
        \/ broken /\ l = [n |-> to + 1, whole |-> FALSE]
    BY Zenon DEF Lines
  <2> QED BY <2>1, <2>2, <2>3, Zenon
<1>2. ASSUME NEW i \in 1..to, i >= from PROVE [n |-> i, whole |-> TRUE] \in Lines(from, to, broken)
  BY <1>2, Zenon DEF Lines
<1> QED BY <1>1, <1>2, Zenon

\* LineEqual: a line is its number and whether it is whole.
LEMMA LineEqual ==
  ASSUME NEW l \in [n : Nat, whole : BOOLEAN], NEW m \in [n : Nat, whole : BOOLEAN],
         l.n = m.n, l.whole = m.whole
  PROVE  l = m
OBVIOUS

\* EventFacts: what Subscribe has to send of a response are lines from its counter on,
\* and all that the client should have are among them (GetFrom, Subscribe).
LEMMA EventFacts ==
  ASSUME TypeOK, NEW to \in Readable \cup {0}, NEW broken \in BOOLEAN,
         broken => to + 1 \in Readable
  PROVE  LET events == NewEvents(to, broken) IN
         /\ events \subseteq Line
         /\ \A l \in events : /\ counter <= l.n /\ l.n \in Readable /\ l.n <= to + 1
                              /\ version = "v1" => l.whole
         /\ \A l, m \in events : l.n = m.n => l = m
         /\ \A n \in 1..to : n >= counter /\ Sendable(n) => \E m \in events : m.n = n
         /\ CountsAll /\ counter >= 1 =>
              \A l \in events : \A n \in counter..l.n : \E m \in events : m.n = n
<1> DEFINE events == NewEvents(to, broken)
<1>1. /\ counter \in Int /\ counter <= MaxLines + 1 /\ to \in Nat /\ version \in {"v1", "v1alpha"}
      /\ Len(log) \in Nat /\ Len(log) <= MaxLines /\ MaxLines \in Nat
      /\ Readable \subseteq 1..Len(log)
  BY LogFacts DEF TypeOK
<1>2. \A n \in 1..to : n \in Readable
  BY LogFacts
<1>3. CASE version = "v1"
  <2>1. events = {l \in Lines(counter, to, broken) : l.whole /\ log[l.n] # "bad"}
    BY <1>3 DEF NewEvents, FromV1, New
  <2>2. \A l \in events : /\ l.whole = TRUE /\ l.n \in 1..to /\ l.n >= counter
                          /\ l \in [n : Nat, whole : BOOLEAN]
    <3>1. counter \in Int
      BY <1>1
    <3> HIDE DEF events
    <3>2. \A l \in events : l \in Lines(counter, to, broken) /\ l.whole
      BY <2>1
    <3> QED BY <1>1, <3>1, <3>2, LinesFacts, Zenon
  <2>3. \A n \in 1..to : n >= counter /\ log[n] # "bad" => \E m \in events : m.n = n
    <3> SUFFICES ASSUME NEW n \in 1..to, n >= counter, log[n] # "bad" PROVE \E m \in events : m.n = n
      OBVIOUS
    <3>1. counter \in Int
      BY <1>1
    <3> DEFINE m == [n |-> n, whole |-> TRUE]
    <3>2. m \in Lines(counter, to, broken)
      BY <1>1, <3>1, LinesFacts, Zenon
    <3>3. m.n = n /\ m.whole
      OBVIOUS
    <3> HIDE DEF m
    <3> QED BY <2>1, <3>2, <3>3
  <2>4. \A l \in events : counter <= l.n /\ l.n \in Readable /\ l.n <= to + 1 /\ l.whole
    BY <1>1, <1>2, <2>2
  <2>5. /\ events \subseteq Line /\ \A l, m \in events : l.n = m.n => l = m
    <3> HIDE DEF events
    <3>1. \A l \in events : l \in [n : Nat, whole : BOOLEAN] /\ l.n \in 1..MaxLines
      BY <1>1, <2>2, <2>4
    <3>2. events \subseteq Line
      BY <3>1 DEF Line
    <3> QED BY <2>2, <3>2, LineEqual
  <2>6. \A n \in 1..to : Sendable(n) => log[n] # "bad"
    BY <1>3 DEF Sendable
  <2>7. CountsAll => \A n \in 1..to : log[n] # "bad"
    BY <1>1, <1>2, <1>3 DEF CountsAll
  <2>8. CountsAll /\ counter >= 1 => \A l \in events : \A n \in counter..l.n : \E m \in events : m.n = n
    <3> SUFFICES ASSUME CountsAll, counter >= 1, NEW l \in events, NEW n \in counter..l.n
                 PROVE  \E m \in events : m.n = n
      OBVIOUS
    <3>1. n \in 1..to /\ n >= counter
      BY <1>1, <2>2
    <3> QED BY <2>3, <2>7, <3>1
  <2> HIDE DEF events
  <2> QED BY <2>3, <2>4, <2>5, <2>6, <2>8 DEF events
<1>4. CASE version = "v1alpha"
  <2>1. events \subseteq {l \in Lines(1, to, broken) : l.n >= counter}
    BY <1>4 DEF NewEvents, FromV1alpha
  <2>2. \A l \in Lines(1, to, broken) :
          /\ l \in [n : Nat, whole : BOOLEAN]
          /\ \/ l.whole = TRUE /\ l.n \in 1..to
             \/ l.whole = FALSE /\ l.n = to + 1 /\ broken
    <3>1. 1 \in Int
      OBVIOUS
    <3> QED BY <1>1, <3>1, LinesFacts, ZenonT(60)
  <2>3. \A l \in events : counter <= l.n /\ l.n \in Readable /\ l.n <= to + 1
    BY <1>1, <1>2, <2>1, <2>2
  <2>4. events \subseteq Line
    <3> HIDE DEF events
    <3>1. \A l \in events : l \in [n : Nat, whole : BOOLEAN] /\ l.n \in 1..MaxLines
      BY <1>1, <2>1, <2>2, <2>3
    <3> QED BY <3>1 DEF Line
  <2>5. \A l, m \in events : l.n = m.n => l = m
    <3> SUFFICES ASSUME NEW l \in events, NEW m \in events, l.n = m.n PROVE l = m
      OBVIOUS
    <3> HIDE DEF events
    <3>1. l \in Lines(1, to, broken) /\ m \in Lines(1, to, broken)
      BY <2>1
    <3>2. l.whole = m.whole
      BY <1>1, <2>2, <3>1
    <3> QED BY <2>2, <3>1, <3>2, LineEqual
  <2>6. \A n \in 1..to : n >= counter => \E m \in events : m.n = n
    <3> SUFFICES ASSUME NEW n \in 1..to, n >= counter PROVE \E m \in events : m.n = n
      OBVIOUS
    <3>1. Messages(to, broken) >= counter - 1
      BY <1>1 DEF Messages
    <3>2. events = {l \in Lines(1, to, broken) : l.n >= counter}
      BY <1>4, <3>1 DEF NewEvents, FromV1alpha
    <3>3. n \in 1..to /\ n >= counter
      BY <1>1
    <3>4. [n |-> n, whole |-> TRUE] \in Lines(1, to, broken)
      <4>1. 1 \in Int /\ n >= 1
        BY <3>3
      <4> QED BY <1>1, <3>3, <4>1, LinesFacts, Zenon
    <3> QED BY <3>2, <3>3, <3>4
  <2>7. counter >= 1 => \A l \in events : \A n \in counter..l.n : \E m \in events : m.n = n
    <3> SUFFICES ASSUME counter >= 1, NEW l \in events, NEW n \in counter..l.n
                 PROVE  \E m \in events : m.n = n
      OBVIOUS
    <3>1. (n \in 1..to /\ n >= counter) \/ n = l.n
      BY <1>1, <2>1, <2>2
    <3> QED BY <2>6, <3>1
  <2> HIDE DEF events
  <2> QED BY <1>4, <2>3, <2>4, <2>5, <2>6, <2>7 DEF events
<1> QED BY <1>1, <1>3, <1>4

-----------------------------------------------------------------------------
(* The stream.                                                             *)

StreamInv == BatchInv /\ GapInv /\ CountInv

\* StreamFrame: steps that leave the lines alone.
LEMMA StreamFrame ==
  ASSUME StreamInv, UNCHANGED <<version, log, counter, start, batch, last, got, cut>>,
         Attached' => Attached, Attached' /\ sub' # "closed" => sub # "closed",
         batch # {} => sub' = "send" /\ out' = "line"
  PROVE  StreamInv'
<1>1. Readable' = Readable /\ CountsAll' = CountsAll
      /\ \A n : Sendable(n)' = Sendable(n) /\ Passed(n)' = Passed(n)
  BY DEF Readable, CountsAll, Sendable, Passed
<1>2. BatchInv'
  BY <1>1 DEF StreamInv, BatchInv
<1>3. GapInv'
  BY <1>1 DEF StreamInv, GapInv, NoGap
<1>4. CountInv'
  BY <1>1 DEF StreamInv, CountInv
<1> QED BY <1>2, <1>3, <1>4 DEF StreamInv

\* StartStep: Subscribe begins or ends, with the counter where the client is or at the
\* first line (GetEvents, LastEventID).
LEMMA StartStep ==
  ASSUME TypeOK, StreamInv, UNCHANGED <<version, log, batch, last, got, cut>>, batch = {},
         \/ counter' = start' /\ (counter' \in LastEventID \/ counter' = 0)
         \/ counter' = 1 /\ sub' \in {"closed", "none"}
  PROVE  StreamInv'
<1>1. Readable' = Readable /\ \A n : Sendable(n)' = Sendable(n) /\ Passed(n)' = Passed(n)
  BY DEF Readable, Sendable, Passed
<1>2. last \in 0..MaxLines /\ Len(log) \in Nat /\ MaxLines \in Nat
  BY LogFacts DEF TypeOK
<1>3. \/ counter' = 1 /\ sub' \in {"closed", "none"}
      \/ counter' \in Int /\ counter' <= 1 /\ counter' = start' /\ (last = 0 \/ counter' = 0)
      \/ last # 0 /\ (counter' = last \/ counter' = last + 1)
  <2>1. FirstIDs \subseteq {id \in Int : id <= 1}
    BY LogPollerAssumption
  <2>2. counter' \in FirstIDs => counter' \in Int /\ counter' <= 1
    BY <2>1
  <2> QED BY <2>2 DEF LastEventID
<1>4. last <= Len(log)
  BY DEF StreamInv, BatchInv
<1>5. BatchInv'
  BY <1>2, <1>3, <1>4 DEF BatchInv
<1>6. \A n \in 1..(counter' - 1) : Sendable(n) => Passed(n)
  <2> SUFFICES ASSUME NEW n \in 1..(counter' - 1), Sendable(n) PROVE Passed(n)
    OBVIOUS
  <2>1. n \in 1..(last - 1) \/ (last # 0 /\ n = last)
    BY <1>2, <1>3
  <2> QED BY <2>1 DEF StreamInv, GapInv, NoGap
<1>7. GapInv'
  BY <1>1, <1>6 DEF StreamInv, GapInv, NoGap
<1>8. CountInv'
  BY <1>2, <1>3 DEF CountInv, CountsAll, Attached
<1> QED BY <1>5, <1>7, <1>8 DEF StreamInv

\* LogStep: the log grows behind what Subscribe and the client are at (LogLine).
LEMMA LogStep ==
  ASSUME TypeOK, StreamInv, NEW k \in Kinds, LogLine(k)
  PROVE  StreamInv'
<1>1. UNCHANGED <<version, sub, out, counter, start, batch, client, last, got, cut>>
  BY DEF LogLine
<1>2. /\ Len(log) \in Nat /\ Len(log') = Len(log) + 1
      /\ \A n \in 1..Len(log) : log'[n] = log[n]
  BY DEF LogLine, TypeOK
<1>3. \A n \in 1..Len(log) : n \in Readable' <=> n \in Readable
  <2> SUFFICES ASSUME NEW n \in 1..Len(log) PROVE n \in Readable' <=> n \in Readable
    OBVIOUS
  <2>1. n \in 1..Len(log') /\ \A m \in 1..n : log'[m] = log[m]
    BY <1>2
  <2> QED BY <2>1 DEF Readable
<1>4. /\ Readable \subseteq Readable'
      /\ \A n \in 1..Len(log) : Sendable(n)' <=> Sendable(n)
      /\ \A n : Passed(n)' = Passed(n)
  BY <1>1, <1>2, <1>3, LogFacts DEF Sendable, Passed
<1>5. CountsAll' => CountsAll
  <2>1. \A n \in 1..Len(log) : n \in 1..Len(log')
    BY <1>2
  <2> QED BY <1>1, <1>2, <2>1 DEF CountsAll
<1>6. counter \in Int /\ last \in 0..MaxLines /\ MaxLines \in Nat
  BY DEF TypeOK
<1>7. counter <= Len(log) + 1 /\ last <= Len(log)
  BY DEF StreamInv, BatchInv
<1>8. BatchInv'
  <2>1. counter <= Len(log') + 1 /\ last <= Len(log')
    BY <1>2, <1>6, <1>7
  <2> QED BY <1>1, <1>4, <2>1 DEF StreamInv, BatchInv
<1>9. GapInv'
  <2>1. \A n \in 1..(last - 1) : n \in 1..Len(log)
    BY <1>2, <1>6, <1>7
  <2>2. \A n \in 1..(counter - 1) : n \in 1..Len(log)
    BY <1>2, <1>6, <1>7
  <2>3. \A line \in batch : \A n \in 1..(line.n - 1) : n \in 1..Len(log)
    <3>1. \A line \in batch : line.n \in 1..Len(log)
      BY LogFacts DEF StreamInv, BatchInv
    <3> QED BY <1>2, <3>1
  <2> QED BY <1>1, <1>4, <2>1, <2>2, <2>3 DEF StreamInv, GapInv, NoGap, Attached
<1>10. CountInv'
  BY <1>1, <1>5 DEF StreamInv, CountInv, Attached
<1> QED BY <1>8, <1>9, <1>10 DEF StreamInv

\* PollStep: Subscribe gets the lines from its counter on, and perhaps a part of the
\* last (GetFrom).
LEMMA PollStep ==
  ASSUME TypeOK, StreamInv, Poll
  PROVE  StreamInv' /\ batch' \subseteq Line /\ faults' \in 0..MaxFaults
<1>1. UNCHANGED <<version, log, counter, start, client, last, got, cut>> /\ sub = "loop"
  BY DEF Poll
<1>2. PICK to \in Readable \cup {0}, broken \in BOOLEAN :
        (broken => to + 1 \in Readable) /\ SendNext(NewEvents(to, broken)) /\ (Fault \/ NoFault)
  BY DEF Poll
<1>3. /\ batch' = NewEvents(to, broken)
      /\ batch' # {} => sub' = "send" /\ out' = "line"
      /\ sub' \in {"loop", "send"}
  BY <1>2 DEF SendNext
<1>4. /\ batch' \subseteq Line
      /\ \A l \in batch' : /\ counter <= l.n /\ l.n \in Readable /\ l.n <= to + 1
                           /\ version = "v1" => l.whole
      /\ \A l, m \in batch' : l.n = m.n => l = m
      /\ \A n \in 1..to : n >= counter /\ Sendable(n) => \E m \in batch' : m.n = n
      /\ CountsAll /\ counter >= 1 =>
           \A l \in batch' : \A n \in counter..l.n : \E m \in batch' : m.n = n
  BY <1>2, <1>3, EventFacts
<1>5. Readable' = Readable /\ CountsAll' = CountsAll
      /\ \A n : Sendable(n)' = Sendable(n) /\ Passed(n)' = Passed(n)
  BY <1>1 DEF Readable, CountsAll, Sendable, Passed
<1>6. BatchInv'
  BY <1>1, <1>3, <1>4, <1>5 DEF StreamInv, BatchInv
<1>7. Attached' <=> Attached
  BY <1>1, <1>3 DEF Attached
<1>8. ASSUME Attached, NEW l \in batch', NEW n \in 1..(l.n - 1), Sendable(n)
      PROVE  Passed(n) \/ \E m \in batch' : m.n = n
  <2>1. counter \in Int /\ MaxLines \in Nat /\ to \in Nat
    BY LogFacts DEF TypeOK
  <2>2. l.n \in Nat /\ l.n <= to + 1
    BY <1>4, LogFacts
  <2>3. n \in 1..(counter - 1) \/ (n \in 1..to /\ n >= counter)
    BY <2>1, <2>2
  <2> QED BY <1>4, <1>8, <2>3 DEF StreamInv, GapInv
<1>9. GapInv'
  BY <1>1, <1>5, <1>7, <1>8 DEF StreamInv, GapInv, NoGap
<1>10. CountInv'
  BY <1>1, <1>4, <1>5, <1>7 DEF StreamInv, CountInv
<1>11. faults' \in 0..MaxFaults
  BY <1>2, FaultFacts
<1> QED BY <1>4, <1>6, <1>9, <1>10, <1>11 DEF StreamInv

\* WriteStep: the first line of the batch is sent and counted. What lies before it the
\* client has, and without lines that are not counted it is the one that the counter
\* says (Subscribe, GetEvents).
LEMMA WriteStep ==
  ASSUME TypeOK, StreamInv, NEW line \in batch, WriteLine(line)
  PROVE  /\ StreamInv' /\ counter' \in Int /\ counter' <= MaxLines + 1
         /\ last' \in 0..MaxLines /\ got' \subseteq 1..MaxLines /\ cut' \subseteq 1..MaxLines
         /\ CountsAll /\ client = "connected" => last' >= last
<1>1. /\ UNCHANGED <<version, log, client, start>> /\ batch' = batch \ {line}
      /\ counter' = counter + 1 /\ sub = "send"
      /\ \A other \in batch : line.n <= other.n
      /\ batch' # {} => sub' = "send" /\ out' = "line"
      /\ sub' \in {"loop", "send"}
  BY DEF WriteLine, SendNext
<1>2. /\ client = "connected" => last' = line.n
      /\ client # "connected" => UNCHANGED <<last, got, cut>>
      /\ client = "connected" => IF line.whole THEN line.n \in got' ELSE line.n \in cut'
      /\ got \subseteq got' /\ got' \subseteq got \cup {line.n}
      /\ cut \subseteq cut' /\ cut' \subseteq cut \cup {line.n}
  BY DEF WriteLine
<1>3. /\ counter \in Int /\ counter <= MaxLines + 1 /\ MaxLines \in Nat /\ Len(log) \in Nat
      /\ last \in 0..MaxLines /\ Len(log) <= MaxLines
      /\ got \subseteq 1..MaxLines /\ cut \subseteq 1..MaxLines
      /\ version \in {"v1", "v1alpha"}
  BY LogFacts DEF TypeOK
<1>4. \A other \in batch : /\ other.n \in 1..Len(log) /\ counter <= other.n
                           /\ other.n \in 1..MaxLines
  BY LogFacts DEF StreamInv, BatchInv
<1>5. \A other \in batch' : other \in batch /\ line.n + 1 <= other.n /\ counter' <= other.n
  <2>1. \A other \in batch' : other \in batch /\ other.n # line.n /\ line.n <= other.n
    BY <1>1 DEF StreamInv, BatchInv
  <2> QED BY <1>1, <1>3, <1>4, <2>1
<1>6. counter' \in Int /\ counter' <= MaxLines + 1 /\ counter' <= Len(log) + 1
  BY <1>1, <1>3, <1>4
<1>7. /\ last' \in 0..MaxLines /\ last' <= Len(log)
      /\ got' \subseteq 1..MaxLines /\ cut' \subseteq 1..MaxLines
  <2>1. last <= Len(log)
    BY DEF StreamInv, BatchInv
  <2> QED BY <1>2, <1>3, <1>4, <2>1
<1>8. /\ Readable' = Readable /\ CountsAll' = CountsAll
      /\ \A n : Sendable(n)' = Sendable(n) /\ (Passed(n) => Passed(n)')
      /\ client # "connected" => \A n : Passed(n)' = Passed(n)
  BY <1>1, <1>2 DEF Readable, CountsAll, Sendable, Passed
<1>9. BatchInv'
  BY <1>1, <1>5, <1>6, <1>7, <1>8 DEF StreamInv, BatchInv
<1>10. (Attached' <=> client = "connected") /\ (Attached <=> client = "connected")
  BY <1>1 DEF Attached
<1>11. ASSUME client = "connected", NEW n \in 1..(line.n - 1), Sendable(n) PROVE Passed(n)
  <2>1. Passed(n) \/ \E other \in batch : other.n = n
    BY <1>10, <1>11 DEF StreamInv, GapInv
  <2>2. ASSUME NEW other \in batch, other.n = n PROVE FALSE
    BY <1>1, <1>4, <2>2
  <2> QED BY <2>1, <2>2
<1>12. client = "connected" => Passed(line.n)'
  BY <1>1, <1>2, <1>3 DEF StreamInv, BatchInv, Passed
<1>13. GapInv'
  <2>1. CASE client # "connected"
    BY <1>2, <1>8, <1>10, <2>1 DEF StreamInv, GapInv, NoGap
  <2>2. CASE client = "connected"
    <3>1. NoGap'
      BY <1>2, <1>8, <1>11, <2>2 DEF NoGap
    <3>2. Passed(last)'
      BY <1>2, <1>12, <2>2 DEF Passed
    <3>3. ASSUME NEW n \in 1..(counter' - 1), Sendable(n) PROVE Passed(n)'
      <4>1. n \in 1..(line.n - 1) \/ n = line.n
        BY <1>1, <1>3, <1>4
      <4> QED BY <1>2, <1>8, <1>11, <1>12, <2>2, <3>3, <4>1
    <3>4. ASSUME NEW other \in batch', NEW n \in 1..(other.n - 1), Sendable(n)
          PROVE  Passed(n)' \/ \E third \in batch' : third.n = n
      <4>1. Passed(n) \/ \E third \in batch : third.n = n
        BY <1>5, <1>10, <2>2, <3>4 DEF StreamInv, GapInv
      <4> QED BY <1>1, <1>2, <1>8, <1>12, <2>2, <4>1
    <3> QED BY <1>8, <3>1, <3>2, <3>3, <3>4 DEF GapInv
  <2> QED BY <2>1, <2>2
<1>14. ASSUME CountsAll, client = "connected" PROVE  line.n = counter /\ counter >= 1 /\ last <= counter
  <2>1. counter >= 1 /\ last <= counter /\ \A n \in counter..line.n : \E other \in batch : other.n = n
    BY <1>1, <1>10, <1>14 DEF StreamInv, CountInv
  <2>2. counter \in counter..line.n
    BY <1>3, <1>4
  <2>3. PICK other \in batch : other.n = counter
    BY <2>1, <2>2
  <2> QED BY <1>1, <1>3, <1>4, <2>1, <2>3
<1>15. ASSUME CountsAll, client = "connected" PROVE last' >= last
  BY <1>2, <1>3, <1>14, <1>15
<1>16. CountInv'
  <2> SUFFICES ASSUME CountsAll, client = "connected"
               PROVE  /\ counter' >= 1 /\ last' <= counter'
                      /\ \A other \in batch' : \A n \in counter'..other.n :
                           \E third \in batch' : third.n = n
    BY <1>8, <1>10 DEF CountInv
  <2>1. counter' >= 1 /\ last' <= counter'
    BY <1>1, <1>2, <1>3, <1>14
  <2>2. ASSUME NEW other \in batch', NEW n \in counter'..other.n
        PROVE  \E third \in batch' : third.n = n
    <3>1. other \in batch /\ other.n \in Nat
      BY <1>4, <1>5
    <3>2. n \in counter..other.n /\ n # line.n
      BY <1>1, <1>3, <1>14, <2>2, <3>1
    <3>3. PICK third \in batch : third.n = n
      BY <1>1, <1>10, <3>1, <3>2 DEF StreamInv, CountInv
    <3> QED BY <1>1, <3>2, <3>3
  <2> QED BY <2>1, <2>2
<1> QED BY <1>6, <1>7, <1>9, <1>13, <1>15, <1>16 DEF StreamInv

\* TypeStep: every step keeps the types.
LEMMA TypeStep ==
  ASSUME TypeOK, StreamInv, [Next]_vars
  PROVE  TypeOK'
<1>1. CASE SuiteRunner
  BY <1>1 DEF TypeOK, CacheTypeOK, SuiteRunner, Progress
<1>2. ASSUME NEW k \in Kinds, LogLine(k) PROVE TypeOK'
  <2>1. log' \in Seq(Kinds) /\ Len(log') <= MaxLines
    BY <1>2 DEF TypeOK, LogLine
  <2> QED BY <1>2, <2>1 DEF TypeOK, CacheTypeOK, LogLine
<1>3. ASSUME NEW r \in Resource, CacheExpires(r) \/ OthersRefresh(r) PROVE TypeOK'
  <2>1. View(r, stage) \in 0..3
    BY ViewFacts DEF TypeOK, CacheTypeOK
  <2>2. entry \in [Resource -> [data : 0..3, fresh : BOOLEAN]]
    BY DEF TypeOK, CacheTypeOK
  <2>3. PICK e \in [data : 0..3, fresh : BOOLEAN] : entry' = [entry EXCEPT ![r] = e]
    <3>1. CASE CacheExpires(r)
      <4>1. [entry[r] EXCEPT !.fresh = FALSE] \in [data : 0..3, fresh : BOOLEAN]
        BY <2>2
      <4> QED BY <3>1, <4>1 DEF CacheExpires, Expire
    <3>2. CASE OthersRefresh(r)
      BY <2>1, <3>2 DEF OthersRefresh
    <3> QED BY <1>3, <3>1, <3>2
  <2>4. entry' \in [Resource -> [data : 0..3, fresh : BOOLEAN]]
    BY <2>2, <2>3
  <2> QED BY <1>3, <2>4 DEF TypeOK, CacheTypeOK, CacheExpires, Expire, OthersRefresh
<1>4. CASE Leave \/ Shutdown \/ HandlerCancel \/ CancelCtx
  <2>1. UNCHANGED <<stage, cacheVars, faults, version, log, hnd, subVars, last, got, cut>>
    BY <1>4 DEF Leave, Shutdown, HandlerCancel, CancelCtx
  <2>2. /\ ctx' \in {TRUE, ctx} /\ service' \in {"cancelled", service}
        /\ client' \in {"away", client}
    BY <1>4, Zenon DEF Leave, Shutdown, HandlerCancel, CancelCtx
  <2>3. CacheTypeOK' /\ ctx' \in BOOLEAN
    BY <2>1, <2>2, Zenon DEF TypeOK, CacheTypeOK
  <2> QED BY <2>1, <2>2, <2>3 DEF TypeOK
<1>5. CASE Request
  <2>1. at' \in [Callers -> At] /\ snap' \in [Callers -> 0..3]
    BY <1>5, CallFacts DEF Request
  <2> QED BY <1>5, <2>1 DEF TypeOK, CacheTypeOK, Request, Goto
<1>6. CASE CacheStep
  <2>1. UNCHANGED <<stage, version, log, service, hnd, ctx, subVars, clientVars>>
    BY <1>6, StepFacts
  <2>2. CacheTypeOK'
    BY <1>6, <2>1, StepFacts DEF TypeOK, CacheTypeOK
  <2> QED BY <2>1, <2>2 DEF TypeOK
<1>7. CASE AfterIsFinished
  <2>1. at' \in [Callers -> At] /\ snap' \in [Callers -> 0..3]
    BY <1>7, CallFacts, ReturnFacts DEF AfterIsFinished
  <2> QED BY <1>7, <2>1 DEF TypeOK, CacheTypeOK, AfterIsFinished, Respond, Goto
<1>8. CASE AfterFindJob
  <2>1. at' \in [Callers -> At] /\ snap' \in [Callers -> 0..3]
    BY <1>8, CallFacts, ReturnFacts DEF AfterFindJob
  <2> QED BY <1>8, <2>1 DEF TypeOK, CacheTypeOK, AfterFindJob, Respond, Goto
<1>9. CASE AfterFindPod
  <2>1. at' \in [Callers -> At] /\ snap' \in [Callers -> 0..3]
    BY <1>9, ReturnFacts DEF AfterFindPod
  <2>2. counter' \in Int /\ counter' <= MaxLines + 1 /\ start' \in Int
    BY <1>9 DEF TypeOK, AfterFindPod, NotParsable, StartSubscribe, LastEventID
  <2> QED BY <1>9, <2>1, <2>2 
         DEF TypeOK, CacheTypeOK, AfterFindPod, NotParsable, StartSubscribe, Respond, Goto
<1>10. CASE Poll
  <2>1. batch' \subseteq Line /\ faults' \in 0..MaxFaults
    BY <1>10, PollStep
  <2> QED BY <1>10, <2>1 DEF TypeOK, CacheTypeOK, Poll, SendNext
<1>11. CASE PollFails
  <2>1. at' \in [Callers -> At] /\ snap' \in [Callers -> 0..3] /\ faults' \in 0..MaxFaults
    BY <1>11, CallFacts, FaultFacts DEF PollFails
  <2> QED BY <1>11, <2>1 DEF TypeOK, CacheTypeOK, PollFails
<1>12. CASE AfterPollFails
  <2>1. at' \in [Callers -> At] /\ snap' \in [Callers -> 0..3]
    BY <1>12, ReturnFacts DEF AfterPollFails
  <2> QED BY <1>12, <2>1 DEF TypeOK, CacheTypeOK, AfterPollFails
<1>13. CASE Ping \/ SubscribeCtxDone \/ Reap
  <2>1. /\ UNCHANGED <<stage, cacheVars, faults, version, log, service, hnd, ctx, batch, clientVars>>
        /\ sub' \in {"send", "closed", "none"} /\ out' \in {"ping", out}
        /\ counter' \in {counter, 1} /\ start' \in {start, 1}
    BY <1>13 DEF Ping, SubscribeCtxDone, Reap
  <2>2. CacheTypeOK' /\ ctx' \in BOOLEAN
    BY <2>1, Zenon DEF TypeOK, CacheTypeOK
  <2> QED BY <2>1, <2>2 DEF TypeOK
<1>14. ASSUME NEW line \in batch, WriteLine(line) PROVE TypeOK'
  <2>1. /\ counter' \in Int /\ counter' <= MaxLines + 1 /\ last' \in 0..MaxLines
        /\ got' \subseteq 1..MaxLines /\ cut' \subseteq 1..MaxLines
    BY <1>14, WriteStep
  <2> QED BY <1>14, <2>1 DEF TypeOK, CacheTypeOK, WriteLine, SendNext
<1>15. CASE WriteEvent \/ HandlerClosed \/ HandlerReturns
  <2>1. /\ UNCHANGED <<stage, cacheVars, faults, version, log, service, batch, last, got, cut>>
        /\ hnd' \in {hnd, "idle"} /\ sub' \in {sub, "closed", "loop"} /\ out' \in {out, "none"}
        /\ counter' \in {counter, 1} /\ start' \in {start, 1} /\ client' \in {client, "told", "away"}
    BY <1>15 DEF WriteEvent, HandlerClosed, HandlerReturns, Respond, Goto
  <2>2. ctx' \in {TRUE, ctx}
    BY <1>15, Zenon DEF WriteEvent, HandlerClosed, HandlerReturns
  <2>3. CacheTypeOK' /\ ctx' \in BOOLEAN
    BY <2>1, <2>2, Zenon DEF TypeOK, CacheTypeOK
  <2> QED BY <2>1, <2>3 DEF TypeOK
<1>16. CASE PollPanics
  <2>1. /\ UNCHANGED <<stage, cacheVars, faults, version, log, ctx, out, batch, last, got, cut>>
        /\ service' = "crashed" /\ hnd' = "idle" /\ sub' = "none" /\ counter' = 1 /\ start' = 1
        /\ client' \in {client, "away"}
    BY <1>16 DEF PollPanics, Respond, Goto
  <2>2. CacheTypeOK' /\ ctx' \in BOOLEAN
    BY <2>1, Zenon DEF TypeOK, CacheTypeOK
  <2> QED BY <2>1, <2>2 DEF TypeOK
<1>17. CASE UNCHANGED vars
  BY <1>17 DEF TypeOK, CacheTypeOK, vars
<1> QED
  BY <1>1, <1>2, <1>3, <1>4, <1>5, <1>6, <1>7, <1>8, <1>9, <1>10, <1>11, <1>12, <1>13, <1>14,
     <1>15, <1>16, <1>17 DEF Next, Handler, Subscribe, Tick, Stream, HandlerWrite

\* StreamStep: every step keeps the lines in order and complete.
LEMMA StreamStep ==
  ASSUME TypeOK, PhaseInv, StreamInv, [Next]_vars
  PROVE  StreamInv'
<1>1. CASE UNCHANGED <<version, log, counter, batch, last, got, cut, start, sub, out>>
           /\ (client' = "connected" => client = "connected" \/ sub = "none")
  BY <1>1, StreamFrame DEF Attached, StreamInv, BatchInv
<1>2. ASSUME NEW k \in Kinds, LogLine(k) PROVE StreamInv'
  BY <1>2, LogStep
<1>3. CASE AfterFindPod
  <2>1. sub = "none" /\ batch = {} /\ UNCHANGED <<version, log, batch, last, got, cut>>
    BY <1>3 DEF AfterFindPod, NotParsable, StartSubscribe, PhaseInv, StreamInv, BatchInv
  <2>2. ASSUME NEW id, StartSubscribe(id), id \in LastEventID \/ id = 0 PROVE StreamInv'
    BY <2>1, <2>2, StartStep DEF StartSubscribe
  <2>3. CASE Respond /\ UNCHANGED subVars
    BY <1>1, <2>1, <2>3
  <2> QED BY <1>3, <2>2, <2>3 DEF AfterFindPod, NotParsable
<1>4. CASE Poll
  BY <1>4, PollStep
<1>5. CASE PollFails \/ AfterPollFails \/ Ping \/ Reap
  <2>1. /\ UNCHANGED <<version, log, counter, start, batch, clientVars>>
        /\ sub \in {"loop", "isFinished", "closed"} /\ sub' # "closed"
        /\ sub = "closed" => sub' = "none"
    BY <1>5 DEF PollFails, AfterPollFails, Ping, Reap
  <2>2. batch = {}
    BY <2>1 DEF StreamInv, BatchInv
  <2> QED BY <2>1, <2>2, StreamFrame DEF Attached
<1>6. CASE SubscribeCtxDone
  <2>1. UNCHANGED <<version, log, batch, last, got, cut>> /\ batch = {}
    BY <1>6 DEF SubscribeCtxDone, StreamInv, BatchInv
  <2> QED BY <1>6, <2>1, StartStep DEF SubscribeCtxDone
<1>7. ASSUME NEW line \in batch, WriteLine(line) PROVE StreamInv'
  BY <1>7, WriteStep
<1>8. CASE WriteEvent
  <2>1. /\ UNCHANGED <<version, log, batch, last, got, cut>> /\ batch = {} /\ sub = "send"
        /\ client' = "connected" => client = "connected"
    BY <1>8 DEF WriteEvent, StreamInv, BatchInv
  <2>2. CASE sub' = "closed" /\ counter' = 1
    BY <2>1, <2>2, StartStep
  <2>3. CASE sub' = "loop" /\ UNCHANGED <<counter, start>>
    BY <2>1, <2>3, StreamFrame DEF Attached
  <2> QED BY <1>8, <2>2, <2>3 DEF WriteEvent
<1>9. CASE CacheStep
  BY <1>1, <1>9, StepFacts
<1>10. CASE PollPanics
  <2>1. UNCHANGED <<version, log, batch, last, got, cut>> /\ batch = {}
    BY <1>10 DEF PollPanics, StreamInv, BatchInv
  <2> QED BY <1>10, <2>1, StartStep DEF PollPanics
<1> QED
  BY <1>1, <1>2, <1>3, <1>4, <1>5, <1>6, <1>7, <1>8, <1>9, <1>10
     DEF Next, SuiteRunner, CacheExpires, OthersRefresh, Leave, Shutdown, Request,
         Handler, AfterIsFinished, AfterFindJob, Respond, Subscribe, Tick, Stream,
         HandlerWrite, HandlerClosed, HandlerReturns, HandlerCancel, CancelCtx, vars

\* PollerInit: the invariant holds before the first request.
LEMMA PollerInit == Init => PollerInv
<1> SUFFICES ASSUME Init PROVE PollerInv
  OBVIOUS
<1>1. TypeOK
  <2>1. CacheTypeOK
    BY DEF Init, CacheInit, CacheTypeOK
  <2>2. log \in Seq(Kinds) /\ Len(log) = 0
    BY DEF Init
  <2>3. /\ Len(log) <= MaxLines /\ last \in 0..MaxLines
        /\ counter \in Int /\ counter <= MaxLines + 1 /\ start \in Int
    BY <2>2 DEF Init
  <2> QED BY <2>1, <2>2, <2>3, Zenon DEF Init, TypeOK
<1>2. Len(log) = 0
  BY DEF Init
<1>3. PhaseInv /\ SeenInv /\ ToldTheTruth
  BY DEF Init, CacheInit, PhaseInv, SeenInv, ToldTheTruth
<1>4. OrderInv
  BY DEF Init, CacheInit, OrderInv, View
<1>5. BatchInv /\ GapInv /\ CountInv
  BY <1>2 DEF Init, BatchInv, GapInv, NoGap, CountInv, Attached, Passed
<1> QED BY <1>1, <1>3, <1>4, <1>5 DEF PollerInv

\* PollerStep: the invariant is inductive.
LEMMA PollerStep == PollerInv /\ [Next]_vars => PollerInv'
<1> SUFFICES ASSUME PollerInv, [Next]_vars PROVE PollerInv'
  OBVIOUS
<1>1. TypeOK /\ KnowInv /\ PhaseInv /\ StreamInv
  BY DEF PollerInv, KnowInv, StreamInv
<1>2. TypeOK' /\ StreamInv'
  BY <1>1, TypeStep, StreamStep
<1>3. KnowInv'
  BY <1>1, <1>2, KnowStep
<1> QED BY <1>2, <1>3 DEF PollerInv, KnowInv, StreamInv

-----------------------------------------------------------------------------
(* The theorems.                                                           *)

\* PollerInvariance: the invariant of the log streams, on which the others rest.
THEOREM PollerInvariance == Spec => []PollerInv
BY PollerInit, PollerStep, PTL DEF Spec

\* EndIsTrue: a client of v1 or v1alpha is told that a run has finished only when it
\* has, however old the lists are on which IsFinished decides.
THEOREM EndIsTrue == Spec => []ToldTheTruth
<1>1. PollerInv => ToldTheTruth
  BY DEF PollerInv
<1> QED BY PollerInvariance, <1>1, PTL

\* NothingPassedOver: a client has every line below the last one it received, in v1 whole
\* and in v1alpha at least the part that arrived, however long the log is, however often
\* it reconnects and wherever responses break off (GetFrom, the counter in Subscribe).
THEOREM NothingPassedOver == Spec => []NoGap
<1>1. PollerInv => NoGap
  BY DEF PollerInv, GapInv
<1> QED BY PollerInvariance, <1>1, PTL

\* IDsAscend: the client's ID does not go back, unless v1 has met a line that is no
\* event, or began before the first line (the counter in Subscribe).
THEOREM IDsAscend == Spec => Ascending
<1> DEFINE Step == CountsAll /\ last' # last /\ last # 0 => last' > last
<1>1. PollerInv /\ [Next]_vars => [Step]_vars
  <2> SUFFICES ASSUME PollerInv, Next, CountsAll, last' # last PROVE last' > last
    OBVIOUS
  <2>1. TypeOK /\ StreamInv
    BY DEF PollerInv, StreamInv
  <2>2. PICK line \in batch : WriteLine(line)
    BY StepFacts, <2>1
       DEF Next, SuiteRunner, CacheExpires, OthersRefresh, LogLine, Leave, Shutdown, Request,
           Handler, AfterIsFinished, AfterFindJob, AfterFindPod, Subscribe, Tick, Poll,
           PollPanics, PollFails, AfterPollFails, Ping, SubscribeCtxDone, Reap, Stream, HandlerWrite,
           WriteEvent, HandlerClosed, HandlerReturns, HandlerCancel, CancelCtx
  <2>3. client = "connected"
    BY <2>2 DEF WriteLine
  <2>4. last' >= last /\ last \in 0..MaxLines /\ last' \in 0..MaxLines
    BY <2>1, <2>2, <2>3, WriteStep DEF TypeOK
  <2> QED BY <2>4
<1>2. Spec => [][Step]_vars
  BY PollerInvariance, <1>1, PTL DEF Spec
<1> QED BY <1>2 DEF Ascending
=============================================================================
