------------------------- MODULE EventStreamProofs -------------------------
(***************************************************************************)
(* Proofs about EventStream for every number of connections, every bound   *)
(* and every Last-Event-ID the client may start with: type correctness,    *)
(* that IInv is inductive, and the safety properties that follow.          *)
(***************************************************************************)
EXTENDS EventStreamInv, TLAPS

USE EventStreamAssumption

\* Type correctness of the initial states.
LEMMA InitTypeOK == Init => TypeOK
<1> SUFFICES ASSUME Init PROVE TypeOK
  OBVIOUS
<1>1. /\ out \in [Conns -> EventType] /\ outID \in [Conns -> Nat]
      /\ sub \in [Conns -> SubState] /\ \A c \in Conns : out[c] # "message"
  BY DEF Init, SubState, EventType
<1>2. last \in Int /\ gone \subseteq Nat /\ blind \subseteq Nat
  BY DEF Init
<1>3. log \in Seq(Kind) /\ got \in Seq(Nat) /\ first \in Nat /\ faults \in 0..MaxFaults
  BY DEF Init
<1>4. QED
  BY <1>1, <1>2, <1>3 DEF Init, TypeOK

\* The part of TypeOK about the events that subscribe sends.
SendTypeOK ==
  /\ sub \in [Conns -> SubState]
  /\ out \in [Conns -> EventType]
  /\ outID \in [Conns -> Nat]
  /\ \A c \in Conns : out[c] = "message" => outID[c] > 0

\* Starting to send an event is type correct if the event is.
LEMMA StartSendType ==
  ASSUME TypeOK, NEW c \in Conns, NEW type \in EventType, NEW id \in Nat,
         type = "message" => id > 0, StartSend(c, type, id)
  PROVE  SendTypeOK'
<1>1. "send" \in SubState
  BY DEF SubState
<1>2. QED
  BY <1>1 DEF TypeOK, SendTypeOK, StartSend

\* So is starting to send an error.
LEMMA StartErrorType ==
  ASSUME TypeOK, NEW c \in Conns, NEW type \in ErrorType, StartError(c, type)
  PROVE  SendTypeOK'
<1>1. type \in EventType /\ type # "message"
  BY DEF ErrorType, EventType
<1>2. QED
  BY <1>1, StartSendType, 0 \in Nat DEF StartError

\* So is moving subscribe to another place without sending.
LEMMA GoToType ==
  ASSUME TypeOK, NEW c \in Conns, NEW s \in SubState,
         sub' = [sub EXCEPT ![c] = s], UNCHANGED <<out, outID>>
  PROVE  SendTypeOK'
BY DEF TypeOK, SendTypeOK

\* The faults stay within their bound.
LEMMA FaultType == ASSUME TypeOK, Fault \/ NoFault PROVE faults' \in 0..MaxFaults
BY DEF TypeOK, Fault, NoFault

\* Adding an interval of offsets to a set of offsets.
LEMMA IntervalNat ==
  ASSUME NEW S, S \subseteq Nat, NEW a \in Nat, NEW b \in Int
  PROVE  S \cup a..b \subseteq Nat
OBVIOUS

\* Every step of the specification preserves type correctness.
LEMMA NextTypeOK == TypeOK /\ [Next]_vars => TypeOK'
<1> SUFFICES ASSUME TypeOK, [Next]_vars PROVE TypeOK'
  OBVIOUS
<1> USE DEF TypeOK
<1>1. ASSUME NEW k \in Kind, Publish(k) PROVE TypeOK'
  BY <1>1, SMTT(30) DEF Publish, hndVars, subVars, consVars, clientVars, ghostVars
<1>2. CASE Retention
  BY <1>2 DEF Retention, hndVars, subVars, consVars, clientVars, ghostVars
<1>3. CASE Disconnect
  BY <1>3, SMTT(30) DEF Disconnect, Fault, streamVars, subVars, consVars, ghostVars
<1>4. CASE Shutdown
  BY <1>4 DEF Shutdown, streamVars, hndVars, subVars, consVars, clientVars, ghostVars
<1>5. ASSUME NEW c \in Conns, GetEvents(c) PROVE TypeOK'
  BY <1>5, SMTT(30) DEF GetEvents, ParseLastEventID, NoFault, SubState, streamVars,
                        consVars, ghostVars
<1>6. ASSUME NEW c \in Conns, GetEventsUnavailable(c) PROVE TypeOK'
  BY <1>6, SMTT(30) DEF GetEventsUnavailable, Fault, NoFault, streamVars, hndVars, subVars,
              consVars, clientVars, ghostVars
<1>7. ASSUME NEW c \in Conns, CancelCtx(c) PROVE TypeOK'
  BY <1>7 DEF CancelCtx, streamVars, subVars, consVars, clientVars, ghostVars
<1>8. ASSUME NEW c \in Conns, HandlerWrite(c) PROVE TypeOK'
  <2>1. /\ out' \in [Conns -> EventType] /\ outID' \in [Conns -> Nat]
        /\ sub' \in [Conns -> SubState]
        /\ \A d \in Conns : out'[d] = "message" => outID'[d] > 0
        /\ lastID' \in [Conns -> Nat]
    BY <1>8 DEF HandlerWrite, AfterSend, NothingToSend, EventType, SubState
  <2>2. /\ client' \in {"away", "connected", "failed", "released"}
        /\ cur' \in Conns \cup {NoConn}
    BY <1>8 DEF HandlerWrite, ClientReads, clientVars
  <2>3. last' \in Int /\ got' \in Seq(Nat)
    <3>1. CASE UNCHANGED clientVars
      BY <3>1 DEF clientVars
    <3>2. CASE ClientReads(out[c], outID[c])
      <4>1. last' \in Int
        BY <3>2 DEF ClientReads
      <4>2. CASE out[c] = "message"
        <5>1. outID[c] \in Nat /\ outID[c] > 0
          BY <4>2
        <5>2. outID[c] - 1 \in Nat
          BY <5>1
        <5>3. got' = Append(got, outID[c] - 1)
          BY <3>2, <4>2 DEF ClientReads
        <5>4. got \in Seq(Nat)
          OBVIOUS
        <5>5. QED
          BY <4>1, <5>2, <5>3, <5>4
      <4>3. CASE out[c] # "message"
        BY <3>2, <4>1, <4>3 DEF ClientReads
      <4>4. QED
        BY <4>2, <4>3
    <3>3. QED
      BY <1>8, <3>1, <3>2 DEF HandlerWrite
  <2>4. /\ hnd' \in [Conns -> {"idle", "serving", "blocked", "done"}]
        /\ stalled' \subseteq Conns
    BY <1>8 DEF HandlerWrite, hndVars
  <2>5. ctx' \in [Conns -> BOOLEAN]
    BY <1>8, Zenon DEF HandlerWrite, hndVars
  <2>6. QED
    BY <1>8, <2>1, <2>2, <2>3, <2>4, <2>5 DEF HandlerWrite, streamVars, consVars, ghostVars
<1>9. ASSUME NEW c \in Conns, HandlerCtxDone(c) PROVE TypeOK'
  BY <1>9 DEF HandlerCtxDone, ClientSeesEnd, streamVars, subVars, consVars, ghostVars
<1>10. ASSUME NEW c \in Conns, HandlerReceiverClosed(c) PROVE TypeOK'
  BY <1>10 DEF HandlerReceiverClosed, ClientSeesEnd, streamVars, subVars, consVars, ghostVars
<1>11. ASSUME NEW c \in Conns, Reap(c) PROVE TypeOK'
  BY <1>11 DEF Reap, SubState, streamVars, clientVars, ghostVars
<1>12. ASSUME NEW c \in Conns, SubscribeResume(c) PROVE TypeOK'
  <2>1. StartError(c, "giveUp") \/ StartError(c, "retry") => SendTypeOK'
    BY StartErrorType DEF ErrorType
  <2>2. sub' = [sub EXCEPT ![c] = "consume"] /\ UNCHANGED <<out, outID>> => SendTypeOK'
    BY GoToType, "consume" \in SubState DEF SubState
  <2>3. SendTypeOK'
    BY <1>12, <2>1, <2>2 DEF SubscribeResume
  <2>4. faults' \in 0..MaxFaults
    BY <1>12, FaultType DEF SubscribeResume
  <2>5. QED
    BY <1>12, <2>3, <2>4
    DEF SubscribeResume, SendTypeOK, streamVars, hndVars, consVars, clientVars, ghostVars
<1>13. ASSUME NEW c \in Conns, SubscribeConsume(c) PROVE TypeOK'
  <2>1. SendTypeOK'
    <3>1. CASE StartError(c, "retry")
      BY <3>1, StartErrorType DEF ErrorType
    <3>2. ASSUME NEW s \in {"recheck", "loop"},
                 sub' = [sub EXCEPT ![c] = s], UNCHANGED <<out, outID>>
          PROVE  SendTypeOK'
      BY <3>2, GoToType, s \in SubState DEF SubState
    <3>3. QED
      BY <1>13, <3>1, <3>2 DEF SubscribeConsume
  <2>2. faults' \in 0..MaxFaults
    BY <1>13, FaultType DEF SubscribeConsume
  <2>3. /\ cons' \in [Conns -> {"none", "ready", "sending", "closed"}]
        /\ next' \in [Conns -> Nat] /\ pos' \in [Conns -> Nat]
    <3>1. AttachAt(c) \in Nat
      BY DEF AttachAt, Larger
    <3>2. CASE UNCHANGED <<cons, next, pos>>
      BY <3>2
    <3>3. CASE /\ cons' = [cons EXCEPT ![c] = "ready"]
               /\ next' = [next EXCEPT ![c] = AttachAt(c)]
               /\ pos' = [pos EXCEPT ![c] = lastID[c]]
      BY <3>1, <3>3
    <3>4. QED
      BY <1>13, <3>2, <3>3 DEF SubscribeConsume
  <2>4. gone' \subseteq Nat
    <3>1. gone \cup 0..(first - 1) \subseteq Nat
      BY IntervalNat, 0 \in Nat, first - 1 \in Int
    <3>2. gone' = gone \/ gone' = gone \cup 0..(first - 1)
      BY <1>13 DEF SubscribeConsume
    <3>3. QED
      BY <3>1, <3>2
  <2>5. QED
    BY <1>13, <2>1, <2>2, <2>3, <2>4
    DEF SubscribeConsume, SendTypeOK, streamVars, hndVars, clientVars
<1>14. ASSUME NEW c \in Conns, SubscribeRecheck(c) PROVE TypeOK'
  <2>1. SendTypeOK'
    <3>1. CASE StartError(c, "giveUp")
      BY <3>1, StartErrorType DEF ErrorType
    <3>2. CASE sub' = [sub EXCEPT ![c] = "loop"] /\ UNCHANGED <<out, outID>>
      BY <3>2, GoToType, "loop" \in SubState DEF SubState
    <3>3. QED
      BY <1>14, <3>1, <3>2 DEF SubscribeRecheck
  <2>2. faults' \in 0..MaxFaults
    BY <1>14, FaultType DEF SubscribeRecheck
  <2>3. blind' \subseteq Nat
    <3>1. blind \cup lastID[c]..(first - 1) \subseteq Nat
      <4>1. lastID[c] \in Nat /\ first - 1 \in Int /\ blind \subseteq Nat
        OBVIOUS
      <4>2. QED
        BY ONLY <4>1, IntervalNat
    <3>2. blind' = blind \/ blind' = blind \cup lastID[c]..(first - 1)
      BY <1>14 DEF SubscribeRecheck
    <3>3. QED
      BY <3>1, <3>2
  <2>4. QED
    BY <1>14, <2>1, <2>2, <2>3
    DEF SubscribeRecheck, SendTypeOK, streamVars, hndVars, consVars, clientVars
<1>15. ASSUME NEW c \in Conns, SubscribePing(c) PROVE TypeOK'
  BY <1>15 DEF SubscribePing, PingID, StartSend, EventType, Larger, SubState,
     streamVars, hndVars, consVars, clientVars, ghostVars
<1>16. ASSUME NEW c \in Conns, SubscribeClosed(c) PROVE TypeOK'
  <2>1. StartError(c, "retry") => SendTypeOK'
    BY StartErrorType DEF ErrorType
  <2>2. sub' = [sub EXCEPT ![c] = "exit"] /\ UNCHANGED <<out, outID>> => SendTypeOK'
    BY GoToType, "exit" \in SubState DEF SubState
  <2>3. SendTypeOK'
    BY <1>16, <2>1, <2>2 DEF SubscribeClosed
  <2>4. QED
    BY <1>16, <2>3
    DEF SubscribeClosed, SendTypeOK, streamVars, hndVars, clientVars, ghostVars
<1>17. ASSUME NEW c \in Conns, SubscribeReceive(c) PROVE TypeOK'
  <2>1. StartSend(c, "message", pos[c] + 1) => SendTypeOK'
    <3>1. "message" \in EventType /\ pos[c] + 1 \in Nat /\ pos[c] + 1 > 0
      BY DEF EventType
    <3>2. QED
      BY <3>1, StartSendType
  <2>2. UNCHANGED <<sub, out, outID>> => SendTypeOK'
    BY DEF SendTypeOK
  <2>3. SendTypeOK'
    BY <1>17, <2>1, <2>2 DEF SubscribeReceive
  <2>4. QED
    BY <1>17, <2>3
    DEF SubscribeReceive, SendTypeOK, streamVars, hndVars, clientVars, ghostVars
<1>18. ASSUME NEW c \in Conns, SubscribeCtxDone(c) PROVE TypeOK'
  BY <1>18 DEF SubscribeCtxDone, NothingToSend, EventType, SubState,
     streamVars, hndVars, consVars, clientVars, ghostVars
<1>19. ASSUME NEW c \in Conns, SubscribeExit(c) PROVE TypeOK'
  BY <1>19 DEF SubscribeExit, SubState, streamVars, hndVars, clientVars, ghostVars
<1>20. ASSUME NEW c \in Conns, NEW n \in 0..(MaxLog - 1), HandleMessage(c, n) PROVE TypeOK'
  <2>1. next' \in [Conns -> Nat] /\ pos' \in [Conns -> Nat]
    BY <1>20 DEF HandleMessage
  <2>2. cons' \in [Conns -> {"none", "ready", "sending", "closed"}]
    BY <1>20 DEF HandleMessage
  <2>3. gone' \subseteq Nat
    <3>1. gone \cup next[c]..(first - 1) \subseteq Nat
      <4>1. next[c] \in Nat /\ first - 1 \in Int /\ gone \subseteq Nat
        OBVIOUS
      <4>2. QED
        BY ONLY <4>1, IntervalNat
    <3>2. gone' = gone \/ gone' = gone \cup next[c]..(first - 1)
      BY <1>20 DEF HandleMessage
    <3>3. QED
      BY <3>1, <3>2
  <2>4. QED
    BY <1>20, <2>1, <2>2, <2>3 DEF HandleMessage, streamVars, hndVars, subVars, clientVars
<1>21. ASSUME NEW c \in Conns, HandleMessageCtxDone(c) PROVE TypeOK'
  BY <1>21 DEF HandleMessageCtxDone, streamVars, hndVars, subVars, clientVars, ghostVars
<1>22. ASSUME NEW c \in Conns, NotifyClose(c) PROVE TypeOK'
  BY <1>22, SMTT(30) DEF NotifyClose, Fault, streamVars, hndVars, subVars, clientVars, ghostVars
<1>23. ASSUME NEW c \in Conns, HandlerWriteFails(c) \/ Drop(c) PROVE TypeOK'
  <2>1. ctx' \in [Conns -> BOOLEAN]
    BY <1>23, Zenon DEF HandlerWriteFails, Drop
  <2>2. hnd' \in [Conns -> {"idle", "serving", "blocked", "done"}] /\ stalled' \subseteq Conns
    BY <1>23 DEF HandlerWriteFails, Drop
  <2>3. QED
    BY <1>23, <2>1, <2>2 DEF HandlerWriteFails, Drop, streamVars, subVars, consVars,
                             clientVars, ghostVars
<1>24. CASE UNCHANGED vars
  BY <1>24 DEF vars, streamVars, hndVars, subVars, consVars, clientVars, ghostVars
<1>25. QED
  BY <1>1, <1>2, <1>3, <1>4, <1>5, <1>6, <1>7, <1>8, <1>9, <1>10, <1>11, <1>12, <1>13,
     <1>14, <1>15, <1>16, <1>17, <1>18, <1>19, <1>20, <1>21, <1>22, <1>23, <1>24 DEF Next

\* Type correctness, for every number of connections and every bound.
THEOREM TypeCorrect == Spec => []TypeOK
BY InitTypeOK, NextTypeOK, PTL DEF Spec

-----------------------------------------------------------------------------
(* IInv is an inductive invariant.                                         *)

\* The client's connection stays served while it has one, and what is not in use
\* has neither goroutine nor consumer.
LEMMA NextConnections ==
  ASSUME TypeOK, Connections, SendsSomething, Next PROVE Connections' /\ SendsSomething'
<1> USE DEF TypeOK, Connections, SendsSomething
<1>1. ASSUME NEW k \in Kind, Publish(k) PROVE Connections' /\ SendsSomething'
  BY <1>1 DEF Publish, hndVars, subVars, consVars, clientVars, ghostVars
<1>2. CASE Retention
  BY <1>2 DEF Retention, hndVars, subVars, consVars, clientVars, ghostVars
<1>3. CASE Disconnect
  BY <1>3 DEF Disconnect, Fault, streamVars, hndVars, subVars, consVars, ghostVars
<1>4. CASE Shutdown
  BY <1>4 DEF Shutdown, streamVars, hndVars, subVars, consVars, clientVars, ghostVars
<1>5. ASSUME NEW c \in Conns, GetEvents(c) PROVE Connections' /\ SendsSomething'
  BY <1>5 DEF GetEvents, streamVars, consVars, ghostVars
<1>6. ASSUME NEW c \in Conns, GetEventsUnavailable(c) PROVE Connections' /\ SendsSomething'
  BY <1>6 DEF GetEventsUnavailable, streamVars, hndVars, subVars,
              consVars, clientVars, ghostVars
<1>7. ASSUME NEW c \in Conns, CancelCtx(c) PROVE Connections' /\ SendsSomething'
  BY <1>7 DEF CancelCtx, streamVars, subVars, consVars, clientVars, ghostVars
<1>8. ASSUME NEW c \in Conns, HandlerWrite(c) PROVE Connections' /\ SendsSomething'
  <2>1. PICK s \in {"exit", "loop"} : sub' = [sub EXCEPT ![c] = s]
    BY <1>8 DEF HandlerWrite, AfterSend
  <2>2. UNCHANGED <<client, cur>> \/ (cur = c /\ cur' = NoConn /\ client' # "connected")
    <3>1. CASE ClientReads(out[c], outID[c]) /\ cur = c
      BY <3>1 DEF ClientReads, ErrorType
    <3>2. CASE UNCHANGED clientVars
      BY <3>2 DEF clientVars
    <3>3. QED
      BY <1>8, <3>1, <3>2 DEF HandlerWrite
  <2>3. \/ UNCHANGED hnd
        \/ /\ cur # c /\ UNCHANGED <<client, cur>>
           /\ \E h \in {"done", "blocked"} : hnd' = [hnd EXCEPT ![c] = h]
    BY <1>8 DEF HandlerWrite, hndVars, clientVars
  <2>4. /\ cons' = cons /\ hnd[c] = "serving"
        /\ out' = [out EXCEPT ![c] = "none"] /\ outID' = [outID EXCEPT ![c] = 0]
    BY <1>8 DEF HandlerWrite, AfterSend, NothingToSend, consVars
  <2>5. Connections'
    BY <1>8, <2>1, <2>2, <2>3, <2>4, SMTT(30) DEF HandlerWrite
  <2>6. SendsSomething'
    BY <2>1, <2>4
  <2>7. QED
    BY <2>5, <2>6
<1>9. ASSUME NEW c \in Conns, HandlerCtxDone(c) PROVE Connections' /\ SendsSomething'
  BY <1>9 DEF HandlerCtxDone, ClientSeesEnd, streamVars, subVars, consVars, ghostVars
<1>10. ASSUME NEW c \in Conns, HandlerReceiverClosed(c) PROVE Connections' /\ SendsSomething'
  BY <1>10 DEF HandlerReceiverClosed, ClientSeesEnd, streamVars, subVars, consVars, ghostVars
<1>11. ASSUME NEW c \in Conns, Reap(c) PROVE Connections' /\ SendsSomething'
  BY <1>11 DEF Reap, streamVars, clientVars, ghostVars
<1>12. ASSUME NEW c \in Conns, SubscribeResume(c) PROVE Connections' /\ SendsSomething'
  BY <1>12, ZenonT(60) DEF SubscribeResume, StartError, StartSend, hndVars, consVars, clientVars
<1>13. ASSUME NEW c \in Conns, SubscribeConsume(c) PROVE Connections' /\ SendsSomething'
  BY <1>13, ZenonT(60) DEF SubscribeConsume, StartError, StartSend, hndVars, clientVars
<1>14. ASSUME NEW c \in Conns, SubscribeRecheck(c) PROVE Connections' /\ SendsSomething'
  BY <1>14, ZenonT(60) DEF SubscribeRecheck, StartError, StartSend, hndVars, consVars, clientVars
<1>15. ASSUME NEW c \in Conns, SubscribePing(c) PROVE Connections' /\ SendsSomething'
  BY <1>15 DEF SubscribePing, StartSend, ErrorType, hndVars, consVars, clientVars
<1>16. ASSUME NEW c \in Conns, SubscribeClosed(c) PROVE Connections' /\ SendsSomething'
  BY <1>16, ZenonT(60) DEF SubscribeClosed, StartError, StartSend, hndVars, clientVars
<1>17. ASSUME NEW c \in Conns, SubscribeReceive(c) PROVE Connections' /\ SendsSomething'
  BY <1>17, ZenonT(60) DEF SubscribeReceive, StartSend, ErrorType, hndVars, clientVars
<1>18. ASSUME NEW c \in Conns, SubscribeCtxDone(c) PROVE Connections' /\ SendsSomething'
  BY <1>18 DEF SubscribeCtxDone, NothingToSend, hndVars, consVars, clientVars
<1>19. ASSUME NEW c \in Conns, SubscribeExit(c) PROVE Connections' /\ SendsSomething'
  BY <1>19 DEF SubscribeExit, hndVars, clientVars
<1>20. ASSUME NEW c \in Conns, NEW n \in 0..(MaxLog - 1), HandleMessage(c, n)
       PROVE Connections' /\ SendsSomething'
  BY <1>20 DEF HandleMessage, hndVars, subVars, clientVars
<1>21. ASSUME NEW c \in Conns, HandleMessageCtxDone(c) PROVE Connections' /\ SendsSomething'
  BY <1>21 DEF HandleMessageCtxDone, hndVars, subVars, clientVars
<1>22. ASSUME NEW c \in Conns, NotifyClose(c) PROVE Connections' /\ SendsSomething'
  BY <1>22 DEF NotifyClose, Fault, hndVars, subVars, clientVars
<1>23. ASSUME NEW c \in Conns, HandlerWriteFails(c) \/ Drop(c)
       PROVE Connections' /\ SendsSomething'
  BY <1>23, SMTT(30) DEF HandlerWriteFails, Drop, subVars, consVars, clientVars
<1>24. QED
  BY <1>1, <1>2, <1>3, <1>4, <1>5, <1>6, <1>7, <1>8, <1>9, <1>10, <1>11, <1>12, <1>13,
     <1>14, <1>15, <1>16, <1>17, <1>18, <1>19, <1>20, <1>21, <1>22, <1>23 DEF Next

-----------------------------------------------------------------------------
(* The two parts of IInv that take the work: what holds of the client's    *)
(* connection, and what holds of the client.                               *)

Safe(c) == ~ctx[c] => Refusal(c) /\ Following(c) /\ InStep(c)

Passed == Retained /\ Received /\ NoSkip /\ InOrder /\ GivesUpOnlyWhenLost

\* The parts of IInv that are left to prove.
Good == Passed /\ \A c \in Conns : cur = c => Safe(c)

\* IInv is TypeOK, Connections, SendsSomething and Good.
LEMMA Parts == IInv <=> TypeOK /\ Connections /\ SendsSomething /\ Good
BY DEF IInv, Good, Safe, Passed

\* A step that changes nothing that Safe(c) is about.
Quiet(c) ==
  /\ sub'[c] = sub[c] /\ out'[c] = out[c] /\ outID'[c] = outID[c] /\ lastID'[c] = lastID[c]
  /\ cons'[c] = cons[c] /\ next'[c] = next[c] /\ pos'[c] = pos[c] /\ ctx'[c] = ctx[c]
  /\ UNCHANGED <<log, first, last, got, gone, blind>>

\* A quiet step leaves a connection safe.
LEMMA QuietSafe == ASSUME NEW c \in Conns, Safe(c), Quiet(c) PROVE Safe(c)'
BY DEF Quiet, Safe, Refusal, Following, InStep, Sending, Accounted, IsEvent, Place

\* What the client has received is not changed by other steps.
LEMMA SamePassed ==
  ASSUME Passed, UNCHANGED <<log, first, last, got>>, gone \subseteq gone',
         blind \subseteq blind', client' = client \/ client' # "failed"
  PROVE  Passed'
BY DEF Passed, Retained, Received, NoSkip, InOrder, GivesUpOnlyWhenLost, IsEvent

\* A step that is quiet on the client's connection, or takes it away.
LEMMA QuietGood ==
  ASSUME Good, UNCHANGED <<log, first, last, got, gone, blind>>,
         client' = client \/ client' # "failed",
         cur' \in Conns => cur' = cur /\ Quiet(cur)
  PROVE  Good'
<1>1. Passed'
  BY SamePassed DEF Good
<1>2. ASSUME NEW c \in Conns, cur' = c PROVE Safe(c)'
  BY <1>2, QuietSafe DEF Good
<1>3. QED
  BY <1>1, <1>2 DEF Good

-----------------------------------------------------------------------------
(* The stream.                                                             *)

\* A message is published: below the consumer's place nothing changes.
LEMMA PublishGood == ASSUME IInv, NEW k \in Kind, Publish(k) PROVE Good'
<1>1. /\ TypeOK /\ Passed
      /\ \A c \in Conns : cur = c => Safe(c)
  BY Parts DEF Good
<1>2. /\ Len(log) \in Nat /\ Len(log') = Len(log) + 1
      /\ \A o \in Nat : o < Len(log) => log'[o + 1] = log[o + 1]
  BY <1>1 DEF TypeOK, Publish
<1>3. \A o \in Nat : o < Len(log) => (IsEvent(o)' <=> IsEvent(o))
  BY <1>2 DEF IsEvent
<1>4. \A o \in Nat : IsEvent(o) => o < Len(log) /\ IsEvent(o)'
  BY <1>3 DEF IsEvent
<1>5. UNCHANGED <<first, hnd, ctx, sub, out, outID, lastID, cons, next, pos,
                  client, cur, last, got, gone, blind>>
  BY DEF Publish, hndVars, subVars, consVars, clientVars, ghostVars
<1>6. Passed'
  <2>1. Retained' /\ InOrder' /\ GivesUpOnlyWhenLost'
    BY <1>1, <1>2, <1>5 DEF Passed, Retained, InOrder, GivesUpOnlyWhenLost, TypeOK
  <2>2. Received'
    BY <1>1, <1>2, <1>5 DEF Passed, Received, TypeOK
  <2>3. NoSkip'
    <3>1. SUFFICES ASSUME NEW o \in 0..(last - 1), IsEvent(o)'
                   PROVE  o \in Range(got) \cup gone \cup blind
      BY <1>5 DEF NoSkip
    <3>2. CASE o < Len(log)
      BY <1>1, <1>3, <3>1, <3>2 DEF Passed, NoSkip
    <3>3. CASE o >= Len(log)
      BY <1>1, <3>3 DEF Passed, Received
    <3>4. QED
      BY <1>2, <3>2, <3>3
  <2>4. QED
    BY <2>1, <2>2, <2>3 DEF Passed
<1>7. ASSUME NEW c \in Conns, cur' = c PROVE Safe(c)'
  <2>1. Safe(c)
    BY <1>1, <1>5, <1>7
  <2>2. Refusal(c) => Refusal(c)'
    BY <1>5 DEF Refusal, Sending
  <2>3. ASSUME ~ctx[c] PROVE InStep(c)'
    <3>1. InStep(c)
      BY <2>1, <2>3 DEF Safe
    <3>2. Sending(c, "message") => IsEvent(outID[c] - 1)'
      <4>1. Sending(c, "message") => IsEvent(outID[c] - 1) /\ outID[c] - 1 \in Nat
        BY <3>1, <1>1 DEF InStep, Sending, TypeOK
      <4>2. QED
        BY <4>1, <1>2, <1>5 DEF IsEvent
    <3>3. QED
      BY <3>1, <3>2, <1>5, <1>2, <1>1 DEF InStep, Sending, Place, TypeOK
  <2>4. ASSUME ~ctx[c] PROVE Following(c)'
    <3>1. Following(c)
      BY <2>1, <2>4 DEF Safe
    <3>2. SUFFICES ASSUME sub[c] \in {"recheck", "loop"}
                            \/ Sending(c, "message") \/ Sending(c, "ping")
                   PROVE  Following(c)'
      BY <1>5 DEF Following, Sending
    <3>3. next[c] \in Nat /\ pos[c] \in Nat /\ Place \in Nat
      BY <1>1 DEF TypeOK, Place, ParseLastEventID
    <3>4. /\ cons[c] \in {"ready", "sending"}
          /\ Place <= next[c] /\ pos[c] <= next[c]
          /\ next[c] <= Len(log) \/ next[c] = Place
          /\ pos[c] <= Place \/ pos[c] < Len(log)
          /\ cons[c] = "sending" =>
               /\ pos[c] + 1 = next[c] /\ pos[c] >= Place
               /\ pos[c] < Len(log) /\ log[pos[c] + 1] # "withheld"
          /\ \A o \in Place..(next[c] - 1) : IsEvent(o) => Accounted(c, o)
      BY <3>1, <3>2 DEF Following
    <3>5. \A o \in Place..(next[c] - 1) : IsEvent(o)' => Accounted(c, o)'
      BY <3>4, <3>3, <1>3, <1>2, <1>5 DEF Accounted, Sending
    <3>6. QED
      BY <3>4, <3>5, <3>3, <1>2, <1>5 DEF Following, Place
  <2>5. QED
    BY <2>1, <2>2, <2>3, <2>4, <1>5 DEF Safe
<1>8. QED
  BY <1>6, <1>7 DEF Good

\* A message expires: the client's place may be lost, and nothing else changes.
LEMMA RetentionGood == ASSUME IInv, Retention PROVE Good'
<1>1. /\ TypeOK /\ Passed
      /\ \A c \in Conns : cur = c => Safe(c)
  BY Parts DEF Good
<1>2. /\ first \in Nat /\ first' = first + 1 /\ first' < Len(log) /\ last \in Int
      /\ Len(log) \in Nat
  BY <1>1 DEF Retention, TypeOK
<1>3. UNCHANGED <<log, hnd, ctx, sub, out, outID, lastID, cons, next, pos,
                  client, cur, last, got, gone, blind>>
  BY DEF Retention, hndVars, subVars, consVars, clientVars, ghostVars
<1>4. Passed'
  BY <1>1, <1>2, <1>3
  DEF Passed, Retained, Received, NoSkip, InOrder, GivesUpOnlyWhenLost, IsEvent
<1>5. ASSUME NEW c \in Conns, cur' = c PROVE Safe(c)'
  <2>1. Safe(c)
    BY <1>1, <1>3, <1>5
  <2>2. Refusal(c) => Refusal(c)'
    BY <1>2, <1>3 DEF Refusal, Sending
  <2>3. InStep(c) => InStep(c)'
    BY <1>3 DEF InStep, Sending, Place, IsEvent
  <2>4. \A o \in Nat : Accounted(c, o) => Accounted(c, o)'
    BY <1>2, <1>3 DEF Accounted, Sending
  <2>5. Place \in Nat /\ next[c] \in Nat
    BY <1>1 DEF TypeOK, Place, ParseLastEventID
  <2>6. Following(c) => Following(c)'
    BY <1>3, <2>4, <2>5 DEF Following, Sending, Place, IsEvent
  <2>7. QED
    BY <2>1, <2>2, <2>3, <2>6, <1>3 DEF Safe
<1>6. QED
  BY <1>4, <1>5 DEF Good

-----------------------------------------------------------------------------
(* The client's connections and GetEvents.                                 *)

\* The steps that leave the client's connection as it is, or take it away.
LEMMA LeaveGood ==
  ASSUME IInv,
         \/ Disconnect \/ Shutdown
         \/ \E c \in Conns : \/ GetEventsUnavailable(c) \/ HandlerCtxDone(c)
                             \/ HandlerReceiverClosed(c) \/ Reap(c) \/ NotifyClose(c)
                             \/ HandlerWriteFails(c) \/ Drop(c)
  PROVE  Good'
<1>1. Good /\ TypeOK /\ Connections
  BY Parts
<1>2. UNCHANGED <<log, first, last, got, gone, blind>>
  BY DEF Disconnect, Shutdown, GetEventsUnavailable, HandlerCtxDone, HandlerReceiverClosed,
     Reap, NotifyClose, HandlerWriteFails, Drop, ClientSeesEnd, streamVars, clientVars, ghostVars
<1>3. client' = client \/ client' # "failed"
  BY DEF Disconnect, Shutdown, GetEventsUnavailable, HandlerCtxDone, HandlerReceiverClosed,
     Reap, NotifyClose, HandlerWriteFails, Drop, ClientSeesEnd, clientVars
<1>4. cur' \in Conns => cur' = cur
  BY DEF Disconnect, Shutdown, GetEventsUnavailable, HandlerCtxDone, HandlerReceiverClosed,
     Reap, NotifyClose, HandlerWriteFails, Drop, ClientSeesEnd, clientVars
<1>5. ASSUME NEW d \in Conns, cur = d, cur' = d PROVE Quiet(d)
  <2>1. CASE Disconnect \/ Shutdown
    BY <1>2, <1>5, <2>1
    DEF Disconnect, Shutdown, Quiet, hndVars, subVars, consVars
  <2>2. ASSUME NEW c \in Conns, GetEventsUnavailable(c) \/ NotifyClose(c) PROVE Quiet(d)
    BY <1>2, <2>2 DEF GetEventsUnavailable, NotifyClose, Quiet, hndVars, subVars, consVars
  <2>3. ASSUME NEW c \in Conns, HandlerCtxDone(c) \/ HandlerReceiverClosed(c)
        PROVE  Quiet(d)
    <3>1. c # d
      BY <1>5, <2>3 DEF HandlerCtxDone, HandlerReceiverClosed, ClientSeesEnd
    <3>2. QED
      BY <1>1, <1>2, <2>3, <3>1
      DEF HandlerCtxDone, HandlerReceiverClosed, Quiet, TypeOK, subVars, consVars
  <2>4. ASSUME NEW c \in Conns, Reap(c) PROVE Quiet(d)
    <3>1. c # d
      BY <1>1, <1>5, <2>4 DEF Reap, Connections
    <3>2. QED
      BY <1>1, <1>2, <2>4, <3>1 DEF Reap, Quiet, TypeOK
  <2>5. ASSUME NEW c \in Conns, HandlerWriteFails(c) \/ Drop(c) PROVE Quiet(d)
    <3>1. ctx'[d] = ctx[d]
      BY <1>1, <1>5, <2>5 DEF HandlerWriteFails, Drop, TypeOK, Connections
    <3>2. QED
      BY <1>2, <2>5, <3>1 DEF HandlerWriteFails, Drop, Quiet, subVars, consVars
  <2>6. QED
    BY <2>1, <2>2, <2>3, <2>4, <2>5
<1>6. QED
  BY <1>1, <1>2, <1>3, <1>4, <1>5, QuietGood

\* A context that is done asks nothing of its connection.
LEMMA CancelCtxGood == ASSUME IInv, NEW c \in Conns, CancelCtx(c) PROVE Good'
<1>1. Good /\ TypeOK
  BY Parts
<1>2. UNCHANGED <<log, first, sub, out, outID, lastID, cons, next, pos, client, cur,
                  last, got, gone, blind>>
  BY DEF CancelCtx, streamVars, subVars, consVars, clientVars, ghostVars
<1>3. CASE cur = c
  <2>1. ctx'[c]
    BY <1>1 DEF CancelCtx, TypeOK
  <2>2. Passed'
    BY <1>1, <1>2, SamePassed DEF Good
  <2>3. Safe(c)'
    BY <2>1 DEF Safe
  <2>4. QED
    BY <1>2, <1>3, <2>2, <2>3 DEF Good
<1>4. CASE cur # c
  <2>1. cur \in Conns => Quiet(cur)
    BY <1>1, <1>2, <1>4 DEF CancelCtx, Quiet, TypeOK
  <2>2. QED
    BY <1>1, <1>2, <2>1, QuietGood
<1>5. QED
  BY <1>3, <1>4

\* A new connection starts at the client's place.
LEMMA GetEventsGood == ASSUME IInv, NEW c \in Conns, GetEvents(c) PROVE Good'
<1>1. Good /\ TypeOK
  BY Parts
<1>2. /\ UNCHANGED <<log, first, last, got, gone, blind>>
      /\ client' = "connected" /\ cur' = c
  BY DEF GetEvents, streamVars, ghostVars
<1>3. Passed'
  BY <1>1, <1>2, SamePassed DEF Good
<1>4. sub'[c] = "resume" /\ lastID'[c] = Place /\ Place' = Place
  BY <1>1, <1>2 DEF GetEvents, TypeOK, Place
<1>5. Safe(c)'
  BY <1>4 DEF Safe, Refusal, Following, InStep, Sending
<1>6. QED
  BY <1>2, <1>3, <1>5 DEF Good

\* What IInv says of the client's connection while an event is under way on it.
LEMMA UnderWay ==
  ASSUME IInv, NEW c \in Conns, cur = c, ~ctx[c],
         sub[c] \in {"recheck", "loop"} \/ Sending(c, "message") \/ Sending(c, "ping")
  PROVE  /\ InStep(c)
         /\ cons[c] \in {"ready", "sending"}
         /\ Place <= next[c] /\ pos[c] <= next[c]
         /\ next[c] <= Len(log) \/ next[c] = Place
         /\ pos[c] <= Place \/ pos[c] < Len(log)
         /\ cons[c] = "sending" =>
              /\ pos[c] + 1 = next[c] /\ pos[c] >= Place
              /\ pos[c] < Len(log) /\ log[pos[c] + 1] # "withheld"
         /\ \A o \in Place..(next[c] - 1) : IsEvent(o) => Accounted(c, o)
<1>1. Safe(c)
  BY Parts DEF Good
<1>2. QED
  BY <1>1 DEF Safe, Following

\* Numbers are numbers.
LEMMA Numbers ==
  ASSUME TypeOK, NEW c \in Conns
  PROVE  /\ next[c] \in Nat /\ pos[c] \in Nat /\ outID[c] \in Nat /\ lastID[c] \in Nat
         /\ Place \in Nat /\ last \in Int /\ first \in Nat /\ Len(log) \in Nat
         /\ Place >= last /\ (Place = last \/ Place = 0)
         /\ got \in Seq(Nat)
BY DEF TypeOK, Place, ParseLastEventID

\* The client receives a message: all that lay between its place and the message
\* is accounted for.
LEMMA WriteMessageGood ==
  ASSUME IInv, NEW c \in Conns, HandlerWrite(c), cur = c, out[c] = "message" PROVE Good'
<1>1. TypeOK /\ Connections /\ Passed /\ Sending(c, "message") /\ ~ctx[c]
  BY Parts DEF Good, HandlerWrite, Sending
<1>2. /\ InStep(c)
      /\ cons[c] \in {"ready", "sending"}
      /\ Place <= next[c] /\ pos[c] <= next[c]
      /\ next[c] <= Len(log) \/ next[c] = Place
      /\ pos[c] <= Place \/ pos[c] < Len(log)
      /\ cons[c] = "sending" =>
           /\ pos[c] + 1 = next[c] /\ pos[c] >= Place
           /\ pos[c] < Len(log) /\ log[pos[c] + 1] # "withheld"
      /\ \A o \in Place..(next[c] - 1) : IsEvent(o) => Accounted(c, o)
  BY <1>1, UnderWay
<1>3. /\ outID[c] > Place /\ outID[c] <= next[c] /\ IsEvent(outID[c] - 1)
      /\ cons[c] = "sending" => pos[c] >= outID[c]
  BY <1>1, <1>2 DEF InStep
<1>4. /\ next[c] \in Nat /\ pos[c] \in Nat /\ outID[c] \in Nat /\ lastID[c] \in Nat
      /\ Place \in Nat /\ last \in Int /\ first \in Nat /\ Len(log) \in Nat
      /\ Place >= last /\ (Place = last \/ Place = 0)
      /\ got \in Seq(Nat)
  BY <1>1, Numbers
<1>5. /\ last' = outID[c] /\ got' = Append(got, outID[c] - 1)
      /\ client' = client /\ cur' = c
  BY <1>1, <1>3, <1>4 DEF HandlerWrite, ClientReads, ErrorType
<1>6. UNCHANGED <<log, first, ctx, cons, next, pos, gone, blind>>
  BY DEF HandlerWrite, streamVars, hndVars, consVars, ghostVars
<1>7. sub'[c] = "loop" /\ lastID'[c] = outID[c] /\ Place' = outID[c]
  BY <1>1, <1>3, <1>4, <1>5
  DEF HandlerWrite, AfterSend, ErrorType, TypeOK, Place, ParseLastEventID
<1>8. outID[c] <= Len(log)
  BY <1>3, <1>4 DEF IsEvent
<1>9. Passed'
  <2>1. Retained' /\ GivesUpOnlyWhenLost'
    BY <1>1, <1>5, <1>6 DEF Passed, Retained, GivesUpOnlyWhenLost, Connections
  <2>2. /\ Len(got') = Len(got) + 1 /\ got'[Len(got) + 1] = outID[c] - 1
        /\ \A i \in 1..Len(got) : got'[i] = got[i]
        /\ Len(got) \in Nat /\ \A i \in 1..Len(got) : got[i] \in Nat
        /\ DOMAIN got = 1..Len(got) /\ DOMAIN got' = 1..(Len(got) + 1)
    BY <1>4, <1>5, SMTT(30)
  <2>3. \A i \in 1..Len(got) : got[i] < last /\ got[i] < Len(log)
    BY <1>1 DEF Passed, Received
  <2>4. Received'
    BY <2>2, <2>3, <1>3, <1>4, <1>5, <1>6, <1>8 DEF Received
  <2>5. InOrder'
    <3>1. \A i, j \in 1..Len(got) : i < j => got[i] < got[j]
      BY <1>1 DEF Passed, InOrder
    <3>2. \A i \in 1..Len(got) : got[i] < outID[c] - 1
      BY <2>2, <2>3, <1>3, <1>4
    <3>3. QED
      BY <2>2, <3>1, <3>2 DEF InOrder
  <2>6. NoSkip'
    <3>1. SUFFICES ASSUME NEW o \in 0..(outID[c] - 1), IsEvent(o)
                   PROVE  o \in Range(got') \cup gone \cup blind
      BY <1>5, <1>6 DEF NoSkip, IsEvent
    <3>2. Range(got) \subseteq Range(got')
      BY <2>2 DEF Range
    <3>3. CASE o < last
      BY <1>1, <1>4, <3>1, <3>2, <3>3 DEF Passed, NoSkip
    <3>4. CASE o >= last
      <4>1. o \in Place..(next[c] - 1)
        BY <1>3, <1>4, <3>1, <3>4
      <4>2. Accounted(c, o)
        BY <1>2, <3>1, <4>1
      <4>3. o \in gone \cup blind \/ o = outID[c] - 1
        BY <1>1, <1>3, <1>4, <3>1, <4>2 DEF Accounted, Sending
      <4>4. outID[c] - 1 \in Range(got')
        BY <2>2 DEF Range
      <4>5. QED
        BY <4>3, <4>4
    <3>5. QED
      BY <1>4, <3>3, <3>4
  <2>7. QED
    BY <2>1, <2>4, <2>5, <2>6 DEF Passed
<1>10. Safe(c)'
  <2>1. Refusal(c)' /\ InStep(c)'
    BY <1>7 DEF Refusal, InStep, Sending
  <2>2. \A o \in outID[c]..(next[c] - 1) : IsEvent(o) => Accounted(c, o)'
    BY <1>1, <1>2, <1>3, <1>4, <1>6, SMTT(30) DEF Accounted, Sending
  <2>3. Following(c)'
    BY <1>2, <1>3, <1>4, <1>6, <1>7, <2>2 DEF Following, IsEvent
  <2>4. QED
    BY <2>1, <2>3 DEF Safe
<1>11. QED
  BY <1>5, <1>9, <1>10 DEF Good

\* The client receives a ping with an ID, which moves its place up to the message
\* that was dispatched last and no further.
LEMMA WritePingGood ==
  ASSUME IInv, NEW c \in Conns, HandlerWrite(c), cur = c, out[c] = "ping", outID[c] # 0
  PROVE  Good'
<1>1. TypeOK /\ Connections /\ Passed /\ Sending(c, "ping") /\ ~ctx[c]
  BY Parts DEF Good, HandlerWrite, Sending
<1>2. /\ InStep(c)
      /\ cons[c] \in {"ready", "sending"}
      /\ Place <= next[c] /\ pos[c] <= next[c]
      /\ next[c] <= Len(log) \/ next[c] = Place
      /\ pos[c] <= Place \/ pos[c] < Len(log)
      /\ cons[c] = "sending" =>
           /\ pos[c] + 1 = next[c] /\ pos[c] >= Place
           /\ pos[c] < Len(log) /\ log[pos[c] + 1] # "withheld"
      /\ \A o \in Place..(next[c] - 1) : IsEvent(o) => Accounted(c, o)
  BY <1>1, UnderWay
<1>3. /\ outID[c] = lastID[c] /\ outID[c] > Place
      /\ outID[c] <= pos[c] /\ outID[c] <= Len(log)
  BY <1>1, <1>2 DEF InStep
<1>4. /\ next[c] \in Nat /\ pos[c] \in Nat /\ outID[c] \in Nat /\ lastID[c] \in Nat
      /\ Place \in Nat /\ last \in Int /\ first \in Nat /\ Len(log) \in Nat
      /\ Place >= last /\ (Place = last \/ Place = 0)
      /\ got \in Seq(Nat)
  BY <1>1, Numbers
<1>5. /\ last' = outID[c] /\ got' = got
      /\ client' = client /\ cur' = c
  BY <1>1 DEF HandlerWrite, ClientReads, ErrorType
<1>6. UNCHANGED <<log, first, ctx, cons, next, pos, gone, blind>>
  BY DEF HandlerWrite, streamVars, hndVars, consVars, ghostVars
<1>7. sub'[c] = "loop" /\ lastID'[c] = outID[c] /\ Place' = outID[c]
  BY <1>1, <1>3, <1>4, <1>5
  DEF HandlerWrite, AfterSend, ErrorType, TypeOK, Place, ParseLastEventID
<1>8. Passed'
  <2>1. Retained' /\ GivesUpOnlyWhenLost' /\ InOrder'
    BY <1>1, <1>5, <1>6 DEF Passed, Retained, GivesUpOnlyWhenLost, Connections, InOrder
  <2>2. Received'
    <3>1. \A i \in 1..Len(got) : got[i] \in Nat /\ got[i] < last /\ got[i] < Len(log)
      BY <1>1, <1>4 DEF Passed, Received
    <3>2. QED
      BY <3>1, <1>3, <1>4, <1>5, <1>6 DEF Received
  <2>3. NoSkip'
    <3>1. SUFFICES ASSUME NEW o \in 0..(outID[c] - 1), IsEvent(o)
                   PROVE  o \in Range(got) \cup gone \cup blind
      BY <1>5, <1>6 DEF NoSkip, IsEvent
    <3>2. CASE o < last
      BY <1>1, <1>4, <3>1, <3>2 DEF Passed, NoSkip
    <3>3. CASE o >= last
      <4>1. o \in Place..(next[c] - 1)
        BY <1>2, <1>3, <1>4, <3>1, <3>3
      <4>2. Accounted(c, o)
        BY <1>2, <3>1, <4>1
      <4>3. QED
        BY <1>1, <1>3, <1>4, <3>1, <4>2 DEF Accounted, Sending
    <3>4. QED
      BY <1>4, <3>2, <3>3
  <2>4. QED
    BY <2>1, <2>2, <2>3 DEF Passed
<1>9. Safe(c)'
  <2>1. Refusal(c)' /\ InStep(c)'
    BY <1>7 DEF Refusal, InStep, Sending
  <2>2. \A o \in outID[c]..(next[c] - 1) : IsEvent(o) => Accounted(c, o)'
    BY <1>1, <1>2, <1>3, <1>4, <1>6 DEF Accounted, Sending
  <2>3. Following(c)'
    BY <1>2, <1>3, <1>4, <1>6, <1>7, <2>2 DEF Following, IsEvent
  <2>4. QED
    BY <2>1, <2>3 DEF Safe
<1>10. QED
  BY <1>5, <1>8, <1>9 DEF Good

\* A ping without an ID leaves the client where it is.
LEMMA WriteBarePingGood ==
  ASSUME IInv, NEW c \in Conns, HandlerWrite(c), cur = c, out[c] = "ping", outID[c] = 0
  PROVE  Good'
<1>1. TypeOK /\ Passed /\ Sending(c, "ping") /\ ~ctx[c]
  BY Parts DEF Good, HandlerWrite, Sending
<1>2. /\ InStep(c)
      /\ cons[c] \in {"ready", "sending"}
      /\ Place <= next[c] /\ pos[c] <= next[c]
      /\ next[c] <= Len(log) \/ next[c] = Place
      /\ pos[c] <= Place \/ pos[c] < Len(log)
      /\ cons[c] = "sending" =>
           /\ pos[c] + 1 = next[c] /\ pos[c] >= Place
           /\ pos[c] < Len(log) /\ log[pos[c] + 1] # "withheld"
      /\ \A o \in Place..(next[c] - 1) : IsEvent(o) => Accounted(c, o)
  BY <1>1, UnderWay
<1>3. Place \in Nat /\ lastID[c] = Place
  BY <1>1, <1>2, Numbers DEF InStep
<1>4. UNCHANGED <<log, first, ctx, cons, next, pos, client, last, got, gone, blind>>
      /\ cur' = c
  BY <1>1 DEF HandlerWrite, ClientReads, ErrorType, streamVars, hndVars, consVars, ghostVars
<1>5. sub'[c] = "loop" /\ lastID'[c] = Place /\ Place' = Place
  BY <1>1, <1>3, <1>4 DEF HandlerWrite, AfterSend, ErrorType, TypeOK, Place
<1>6. Passed'
  BY <1>1, <1>4, SamePassed
<1>7. Safe(c)'
  <2>1. Refusal(c)' /\ InStep(c)'
    BY <1>5 DEF Refusal, InStep, Sending
  <2>2. \A o \in Place..(next[c] - 1) : IsEvent(o) => Accounted(c, o)'
    BY <1>1, <1>2, <1>4 DEF Accounted, Sending
  <2>3. Following(c)'
    BY <1>2, <1>4, <1>5, <2>2 DEF Following, IsEvent
  <2>4. QED
    BY <2>1, <2>3 DEF Safe
<1>8. QED
  BY <1>4, <1>6, <1>7 DEF Good

\* An error ends the connection. The client gives up only if its place is lost.
LEMMA WriteErrorGood ==
  ASSUME IInv, NEW c \in Conns, HandlerWrite(c), cur = c, out[c] \in ErrorType PROVE Good'
<1>1. TypeOK /\ Passed /\ Safe(c) /\ SendsSomething /\ sub[c] = "send" /\ ~ctx[c]
  BY Parts DEF Good, HandlerWrite
<1>2. UNCHANGED <<log, first, last, got, gone, blind>> /\ cur' = NoConn
  BY <1>1
  DEF HandlerWrite, ClientReads, ErrorType, SendsSomething, streamVars, ghostVars
<1>3. client' = "away" \/ (client' = "failed" /\ out[c] = "giveUp")
  BY DEF HandlerWrite, ClientReads, ErrorType
<1>4. Passed'
  <2>1. GivesUpOnlyWhenLost'
    BY <1>1, <1>2, <1>3 DEF Safe, Refusal, Sending, GivesUpOnlyWhenLost
  <2>2. QED
    BY <1>1, <1>2, <2>1 DEF Passed, Retained, Received, NoSkip, InOrder, IsEvent
<1>5. QED
  BY <1>2, <1>4 DEF Good

\* An event that is written reaches the client, or nobody.
LEMMA HandlerWriteGood == ASSUME IInv, NEW c \in Conns, HandlerWrite(c) PROVE Good'
<1>1. Good /\ TypeOK /\ SendsSomething
  BY Parts
<1>2. CASE cur = c
  <2>1. out[c] \in EventType /\ out[c] # "none"
    BY <1>1 DEF TypeOK, SendsSomething, HandlerWrite
  <2>2. out[c] = "message" \/ out[c] = "ping" \/ out[c] \in ErrorType
    BY <2>1 DEF EventType, ErrorType
  <2>3. QED
    BY <1>2, <2>2, WriteMessageGood, WritePingGood, WriteBarePingGood, WriteErrorGood
<1>3. CASE cur # c
  <2>1. UNCHANGED <<log, first, client, cur, last, got, gone, blind>>
    BY <1>3 DEF HandlerWrite, streamVars, clientVars, ghostVars
  <2>2. cur \in Conns => Quiet(cur)
    BY <1>1, <1>3, <2>1
    DEF HandlerWrite, AfterSend, NothingToSend, Quiet, TypeOK, hndVars, consVars
  <2>3. QED
    BY <1>1, <2>1, <2>2, QuietGood
<1>4. QED
  BY <1>2, <1>3

-----------------------------------------------------------------------------
(* subscribe and the consumer.                                             *)

\* A connection that is not the client's does not disturb it.
LEMMA ElsewhereGood ==
  ASSUME IInv, NEW c \in Conns, cur # c,
         \/ SubscribeResume(c) \/ SubscribeConsume(c) \/ SubscribeRecheck(c)
         \/ SubscribePing(c) \/ SubscribeClosed(c) \/ SubscribeReceive(c)
         \/ SubscribeCtxDone(c) \/ SubscribeExit(c) \/ HandleMessageCtxDone(c)
         \/ \E n \in 0..(MaxLog - 1) : HandleMessage(c, n)
  PROVE  Good'
<1>1. Good /\ TypeOK
  BY Parts
<1>2. UNCHANGED <<log, first, client, cur, last, got, gone, blind, ctx>>
  BY DEF SubscribeResume, SubscribeConsume, SubscribeRecheck, SubscribePing, SubscribeClosed,
     SubscribeReceive, SubscribeCtxDone, SubscribeExit, HandleMessageCtxDone, HandleMessage,
     streamVars, hndVars, clientVars, ghostVars
<1>3. ASSUME NEW d \in Conns, d # c
      PROVE  /\ sub'[d] = sub[d] /\ out'[d] = out[d] /\ outID'[d] = outID[d]
             /\ lastID'[d] = lastID[d]
  BY <1>1, <1>3, SMTT(30)
  DEF SubscribeResume, SubscribeConsume, SubscribeRecheck, SubscribePing, SubscribeClosed,
      SubscribeReceive, SubscribeCtxDone, SubscribeExit, HandleMessageCtxDone, HandleMessage,
      StartError, StartSend, NothingToSend, TypeOK, subVars
<1>4. ASSUME NEW d \in Conns, d # c
      PROVE  cons'[d] = cons[d] /\ next'[d] = next[d] /\ pos'[d] = pos[d]
  BY <1>1, <1>4, SMTT(30)
  DEF SubscribeResume, SubscribeConsume, SubscribeRecheck, SubscribePing, SubscribeClosed,
      SubscribeReceive, SubscribeCtxDone, SubscribeExit, HandleMessageCtxDone, HandleMessage,
      TypeOK, consVars
<1>5. cur \in Conns => Quiet(cur)
  BY <1>2, <1>3, <1>4 DEF Quiet
<1>6. QED
  BY <1>1, <1>2, <1>5, QuietGood

\* A step of the client's own connection that leaves the client alone keeps Good
\* if it keeps Safe.
LEMMA OwnGood ==
  ASSUME Good, NEW c \in Conns, cur = c, Safe(c)',
         UNCHANGED <<log, first, client, cur, last, got>>,
         gone \subseteq gone', blind \subseteq blind'
  PROVE  Good'
<1>1. Passed'
  BY SamePassed DEF Good
<1>2. QED
  BY <1>1 DEF Good

\* A goroutine on its way out, or at an error to be retried, promises nothing.
LEMMA EndingSafe ==
  ASSUME NEW c \in Conns,
         \/ sub'[c] \in {"exit", "done"}
         \/ sub'[c] = "send" /\ out'[c] = "retry"
         \/ ctx'[c]
  PROVE  Safe(c)'
BY DEF Safe, Refusal, Following, InStep, Sending

\* The first check.
LEMMA ResumeGood == ASSUME IInv, NEW c \in Conns, SubscribeResume(c) PROVE Good'
<1>1. Good /\ TypeOK /\ Passed
  BY Parts DEF Good
<1>2. CASE cur # c
  BY <1>2, ElsewhereGood
<1>3. CASE cur = c
  <2>1. UNCHANGED <<log, first, client, cur, last, got, gone, blind, ctx, lastID>>
    BY DEF SubscribeResume, streamVars, hndVars, clientVars, ghostVars
  <2>2. SUFFICES ASSUME ~ctx[c] PROVE Safe(c)'
    BY <1>1, <1>3, <2>1, OwnGood, EndingSafe
  <2>3. lastID[c] = Place /\ Place' = Place
    BY <1>1, <1>3, <2>1, <2>2 DEF Good, Safe, InStep, SubscribeResume, Place
  <2>4. CASE sub' = [sub EXCEPT ![c] = "consume"]
    <3>1. sub'[c] = "consume"
      BY <1>1, <2>4 DEF TypeOK
    <3>2. QED
      BY <2>1, <2>3, <3>1 DEF Safe, Refusal, Following, InStep, Sending
  <2>5. CASE ~Resumable(c) /\ StartError(c, "giveUp")
    <3>1. sub'[c] = "send" /\ out'[c] = "giveUp"
      BY <1>1, <2>5 DEF TypeOK, StartError, StartSend
    <3>2. got = <<>> \/ first > last
      <4>1. Len(log) = 0 \/ first > Place
        BY <1>1, <2>3, <2>5, Numbers DEF Resumable
      <4>2. CASE Len(log) = 0
        <5>1. \A i \in 1..Len(got) : got[i] \in Nat /\ got[i] < 0
          BY <1>1, <4>2 DEF Passed, Received, TypeOK
        <5>2. Len(got) \in Nat /\ (Len(got) # 0 => 1 \in 1..Len(got))
          BY <1>1 DEF TypeOK
        <5>3. Len(got) = 0
          BY <5>1, <5>2
        <5>4. QED
          BY <1>1, <5>3 DEF TypeOK
      <4>3. CASE first > Place
        BY <1>1, <4>3, Numbers
      <4>4. QED
        BY <4>1, <4>2, <4>3
    <3>3. QED
      BY <2>1, <3>1, <3>2 DEF Safe, Refusal, Following, InStep, Sending
  <2>6. CASE StartError(c, "retry")
    <3>1. sub'[c] = "send" /\ out'[c] = "retry"
      BY <1>1, <2>6 DEF TypeOK, StartError, StartSend
    <3>2. QED
      BY <3>1, EndingSafe
  <2>7. QED
    BY <2>4, <2>5, <2>6 DEF SubscribeResume
<1>4. QED
  BY <1>2, <1>3

\* Attaching: what expired below the consumer's first offset is to be found by the
\* second check, or was never for a client that starts from the beginning.
LEMMA ConsumeGood == ASSUME IInv, NEW c \in Conns, SubscribeConsume(c) PROVE Good'
<1>1. Good /\ TypeOK /\ Retained
  BY Parts DEF Good, Passed
<1>2. CASE cur # c
  BY <1>2, ElsewhereGood
<1>3. CASE cur = c
  <2>1. UNCHANGED <<log, first, client, cur, last, got, blind, ctx, lastID>>
    BY DEF SubscribeConsume, streamVars, hndVars, clientVars
  <2>2. gone \subseteq gone'
    BY DEF SubscribeConsume
  <2>3. SUFFICES ASSUME ~ctx[c] PROVE Safe(c)'
    BY <1>1, <1>3, <2>1, <2>2, OwnGood, EndingSafe
  <2>4. lastID[c] = Place /\ Place' = Place
    BY <1>1, <1>3, <2>1, <2>3 DEF Good, Safe, InStep, SubscribeConsume, Place
  <2>5. Place \in Nat /\ first \in Nat /\ Len(log) \in Nat
    BY <1>1, Numbers
  <2>6. CASE StartError(c, "retry")
    <3>1. sub'[c] = "send" /\ out'[c] = "retry"
      BY <1>1, <2>6 DEF TypeOK, StartError, StartSend
    <3>2. QED
      BY <3>1, EndingSafe
  <2>7. CASE ~StartError(c, "retry")
    <3>1. /\ sub'[c] = IF Place > 0 THEN "recheck" ELSE "loop"
          /\ cons'[c] = "ready" /\ next'[c] = Larger(Place, first) /\ pos'[c] = Place
          /\ Place = 0 => gone' = gone \cup 0..(first - 1)
      BY <1>1, <1>3, <2>4, <2>7 DEF SubscribeConsume, AttachAt, TypeOK
    <3>2. /\ next'[c] \in Nat /\ Place <= next'[c]
          /\ next'[c] <= Len(log) \/ next'[c] = Place
          /\ \A o \in Place..(next'[c] - 1) : o < first
      BY <1>1, <2>5, <3>1 DEF Larger, Retained
    <3>3. \A o \in Place..(next'[c] - 1) : Accounted(c, o)'
      BY <2>1, <2>5, <3>1, <3>2 DEF Accounted
    <3>4. Following(c)'
      BY <2>1, <2>4, <2>5, <3>1, <3>2, <3>3 DEF Following
    <3>5. Refusal(c)' /\ InStep(c)'
      BY <2>1, <2>4, <3>1 DEF Refusal, InStep, Sending
    <3>6. QED
      BY <3>4, <3>5 DEF Safe
  <2>8. QED
    BY <2>6, <2>7
<1>4. QED
  BY <1>2, <1>3

\* The second check.
LEMMA RecheckGood == ASSUME IInv, NEW c \in Conns, SubscribeRecheck(c) PROVE Good'
<1>1. Good /\ TypeOK
  BY Parts
<1>2. CASE cur # c
  BY <1>2, ElsewhereGood
<1>3. CASE cur = c
  <2>1. UNCHANGED <<log, first, client, cur, last, got, gone, ctx, lastID, cons, next, pos>>
    BY DEF SubscribeRecheck, streamVars, hndVars, clientVars, consVars
  <2>2. blind \subseteq blind'
    BY DEF SubscribeRecheck
  <2>3. SUFFICES ASSUME ~ctx[c] PROVE Safe(c)'
    BY <1>1, <1>3, <2>1, <2>2, OwnGood, EndingSafe
  <2>4. /\ InStep(c)
        /\ cons[c] \in {"ready", "sending"}
        /\ Place <= next[c] /\ pos[c] <= next[c]
        /\ next[c] <= Len(log) \/ next[c] = Place
        /\ pos[c] <= Place \/ pos[c] < Len(log)
        /\ cons[c] = "sending" =>
             /\ pos[c] + 1 = next[c] /\ pos[c] >= Place
             /\ pos[c] < Len(log) /\ log[pos[c] + 1] # "withheld"
        /\ \A o \in Place..(next[c] - 1) : IsEvent(o) => Accounted(c, o)
    BY <1>3, <2>3, UnderWay DEF SubscribeRecheck
  <2>5. lastID[c] = Place /\ Place' = Place /\ sub[c] = "recheck"
    BY <2>1, <2>4 DEF InStep, SubscribeRecheck, Place
  <2>6. Place \in Nat /\ first \in Nat /\ last \in Int /\ Place >= last /\ next[c] \in Nat
    BY <1>1, Numbers
  <2>7. CASE first > lastID[c] /\ StartError(c, "giveUp")
    <3>1. sub'[c] = "send" /\ out'[c] = "giveUp"
      BY <1>1, <2>7 DEF TypeOK, StartError, StartSend
    <3>2. first > last
      BY <2>5, <2>6, <2>7
    <3>3. QED
      BY <2>1, <3>1, <3>2 DEF Safe, Refusal, Following, InStep, Sending
  <2>8. CASE ~(first > lastID[c] /\ StartError(c, "giveUp"))
    <3>1. /\ sub'[c] = "loop"
          /\ \A o \in Place..(first - 1) : o \in blind'
      <4>1. /\ sub' = [sub EXCEPT ![c] = "loop"]
            /\ first <= lastID[c] \/ blind' = blind \cup lastID[c]..(first - 1)
        BY <1>3, <2>8 DEF SubscribeRecheck
      <4>2. sub'[c] = "loop"
        BY <1>1, <4>1 DEF TypeOK
      <4>3. QED
        BY <2>5, <2>6, <4>1, <4>2
    <3>2. \A o \in Place..(next[c] - 1) : IsEvent(o) => Accounted(c, o)'
      BY <2>1, <2>2, <2>4, <2>5, <2>6, <3>1 DEF Accounted, Sending
    <3>3. Following(c)'
      BY <2>1, <2>4, <2>5, <3>1, <3>2 DEF Following, IsEvent
    <3>4. Refusal(c)' /\ InStep(c)'
      BY <2>1, <2>5, <3>1 DEF Refusal, InStep, Sending
    <3>5. QED
      BY <3>3, <3>4 DEF Safe
  <2>9. QED
    BY <2>7, <2>8
<1>4. QED
  BY <1>2, <1>3

\* A ping: its ID is at most the offset of the message dispatched last.
LEMMA PingGood == ASSUME IInv, NEW c \in Conns, SubscribePing(c) PROVE Good'
<1>1. Good /\ TypeOK
  BY Parts
<1>2. CASE cur # c
  BY <1>2, ElsewhereGood
<1>3. CASE cur = c
  <2>1. UNCHANGED <<log, first, client, cur, last, got, gone, blind, ctx, cons, next, pos>>
    BY DEF SubscribePing, streamVars, hndVars, clientVars, consVars, ghostVars
  <2>2. SUFFICES ASSUME ~ctx[c] PROVE Safe(c)'
    BY <1>1, <1>3, <2>1, OwnGood, EndingSafe
  <2>3. /\ InStep(c)
        /\ cons[c] \in {"ready", "sending"}
        /\ Place <= next[c] /\ pos[c] <= next[c]
        /\ next[c] <= Len(log) \/ next[c] = Place
        /\ pos[c] <= Place \/ pos[c] < Len(log)
        /\ cons[c] = "sending" =>
             /\ pos[c] + 1 = next[c] /\ pos[c] >= Place
             /\ pos[c] < Len(log) /\ log[pos[c] + 1] # "withheld"
        /\ \A o \in Place..(next[c] - 1) : IsEvent(o) => Accounted(c, o)
    BY <1>3, <2>2, UnderWay DEF SubscribePing
  <2>4. lastID[c] = Place /\ Place' = Place /\ sub[c] = "loop"
    BY <2>1, <2>3 DEF InStep, SubscribePing, Place
  <2>5. Place \in Nat /\ Len(log) \in Nat /\ next[c] \in Nat /\ pos[c] \in Nat
    BY <1>1, Numbers
  <2>6. /\ sub'[c] = "send" /\ out'[c] = "ping"
        /\ outID'[c] = IF pos[c] > Place THEN pos[c] ELSE 0
        /\ lastID'[c] = IF pos[c] > Place THEN pos[c] ELSE Place
    BY <1>1, <2>4 DEF SubscribePing, StartSend, PingID, Larger, TypeOK
  <2>7. \A o \in Place..(next[c] - 1) : IsEvent(o) => Accounted(c, o)'
    BY <2>1, <2>3, <2>4 DEF Accounted, Sending
  <2>8. Following(c)'
    BY <2>1, <2>3, <2>4, <2>6, <2>7 DEF Following, Sending, IsEvent
  <2>9. Refusal(c)' /\ InStep(c)'
    BY <2>1, <2>3, <2>4, <2>5, <2>6 DEF Refusal, InStep, Sending
  <2>10. QED
    BY <2>8, <2>9 DEF Safe
<1>4. QED
  BY <1>2, <1>3

\* The message the callback is sending becomes the event subscribe is sending.
LEMMA ReceiveGood == ASSUME IInv, NEW c \in Conns, SubscribeReceive(c) PROVE Good'
<1>1. Good /\ TypeOK
  BY Parts
<1>2. CASE cur # c
  BY <1>2, ElsewhereGood
<1>3. CASE cur = c
  <2>1. UNCHANGED <<log, first, client, cur, last, got, gone, blind, ctx, lastID, next, pos>>
    BY DEF SubscribeReceive, streamVars, hndVars, clientVars, ghostVars
  <2>2. ~ctx[c] /\ sub[c] = "loop" /\ cons[c] = "sending" /\ cons'[c] = "ready"
    BY <1>1 DEF SubscribeReceive, TypeOK
  <2>3. SUFFICES Safe(c)'
    BY <1>1, <1>3, <2>1, OwnGood
  <2>4. /\ InStep(c)
        /\ Place <= next[c] /\ pos[c] <= next[c]
        /\ next[c] <= Len(log) \/ next[c] = Place
        /\ pos[c] <= Place \/ pos[c] < Len(log)
        /\ pos[c] + 1 = next[c] /\ pos[c] >= Place
        /\ pos[c] < Len(log) /\ log[pos[c] + 1] # "withheld"
        /\ \A o \in Place..(next[c] - 1) : IsEvent(o) => Accounted(c, o)
    BY <1>3, <2>2, UnderWay
  <2>5. lastID[c] = Place /\ Place' = Place
    BY <2>1, <2>2, <2>4 DEF InStep, Place
  <2>6. Place \in Nat /\ Len(log) \in Nat /\ next[c] \in Nat /\ pos[c] \in Nat
    BY <1>1, Numbers
  <2>7. CASE WellFormed(pos[c])
    <3>1. sub'[c] = "send" /\ out'[c] = "message" /\ outID'[c] = pos[c] + 1
      BY <1>1, <2>7 DEF SubscribeReceive, StartSend, TypeOK
    <3>2. log[pos[c] + 1] = "event"
      BY <1>1, <2>4, <2>6, <2>7 DEF WellFormed, TypeOK, Kind
    <3>3. \A o \in Place..(next[c] - 1) : IsEvent(o) => Accounted(c, o)'
      BY <2>1, <2>2, <2>4, <2>6, <3>1 DEF Accounted, Sending
    <3>4. Following(c)'
      BY <2>1, <2>2, <2>4, <2>5, <3>1, <3>3 DEF Following, IsEvent
    <3>5. Refusal(c)' /\ InStep(c)'
      BY <2>1, <2>2, <2>4, <2>5, <2>6, <3>1, <3>2 DEF Refusal, InStep, Sending, IsEvent
    <3>6. QED
      BY <3>4, <3>5 DEF Safe
  <2>8. CASE ~WellFormed(pos[c])
    <3>1. sub'[c] = "loop" /\ out' = out /\ outID' = outID
      BY <2>2, <2>8 DEF SubscribeReceive
    <3>2. \A o \in Place..(next[c] - 1) : IsEvent(o) => Accounted(c, o)'
      BY <2>1, <2>2, <2>4, <2>6, <2>8, <3>1 DEF Accounted, Sending, WellFormed, IsEvent
    <3>3. Following(c)'
      BY <2>1, <2>2, <2>4, <2>5, <3>1, <3>2 DEF Following, IsEvent
    <3>4. Refusal(c)' /\ InStep(c)'
      BY <2>1, <2>5, <3>1 DEF Refusal, InStep, Sending
    <3>5. QED
      BY <3>3, <3>4 DEF Safe
  <2>9. QED
    BY <2>7, <2>8
<1>4. QED
  BY <1>2, <1>3

\* The steps with which subscribe and the callback come to an end.
LEMMA EndGood ==
  ASSUME IInv, NEW c \in Conns,
         \/ SubscribeClosed(c) \/ SubscribeCtxDone(c) \/ SubscribeExit(c)
         \/ HandleMessageCtxDone(c)
  PROVE  Good'
<1>1. Good /\ TypeOK
  BY Parts
<1>2. CASE cur # c
  BY <1>2, ElsewhereGood
<1>3. CASE cur = c
  <2>1. UNCHANGED <<log, first, client, cur, last, got, gone, blind, ctx>>
    BY DEF SubscribeClosed, SubscribeCtxDone, SubscribeExit, HandleMessageCtxDone,
       streamVars, hndVars, clientVars, ghostVars
  <2>2. \/ sub'[c] \in {"exit", "done"}
        \/ sub'[c] = "send" /\ out'[c] = "retry"
        \/ ctx[c]
    BY <1>1 DEF SubscribeClosed, SubscribeCtxDone, SubscribeExit, HandleMessageCtxDone,
       StartError, StartSend, TypeOK
  <2>3. Safe(c)'
    BY <2>1, <2>2, EndingSafe
  <2>4. QED
    BY <1>1, <1>3, <2>1, <2>3, OwnGood
<1>4. QED
  BY <1>2, <1>3

\* The consumer dispatches a message: what it skips is withheld, or expired.
LEMMA HandleMessageGood ==
  ASSUME IInv, NEW c \in Conns, NEW n \in 0..(MaxLog - 1), HandleMessage(c, n) PROVE Good'
<1>1. Good /\ TypeOK
  BY Parts
<1>2. CASE cur # c
  BY <1>2, ElsewhereGood
<1>3. CASE cur = c
  <2>1. UNCHANGED <<log, first, client, cur, last, got, blind, ctx, sub, out, outID, lastID>>
    BY DEF HandleMessage, streamVars, hndVars, clientVars, subVars
  <2>2. gone' = gone \cup next[c]..(first - 1)
    BY <1>3 DEF HandleMessage
  <2>3. SUFFICES ASSUME ~ctx[c] PROVE Safe(c)'
    BY <1>1, <1>3, <2>1, <2>2, OwnGood, EndingSafe
  <2>4. Safe(c) /\ Refusal(c) /\ Following(c) /\ InStep(c)
    BY <1>1, <1>3, <2>3 DEF Good, Safe
  <2>5. /\ Place \in Nat /\ Len(log) \in Nat /\ next[c] \in Nat /\ pos[c] \in Nat
        /\ first \in Nat /\ n \in Nat /\ outID[c] \in Nat /\ Place' = Place
    BY <1>1, <2>1, Numbers DEF Place
  <2>6. /\ cons[c] = "ready" /\ n < Len(log) /\ n >= next[c] /\ n >= first
        /\ \A o \in next[c]..(n - 1) : o >= first => log[o + 1] = "withheld"
    BY <2>5 DEF HandleMessage, Larger
  <2>7. /\ next'[c] = n + 1 /\ pos'[c] = n
        /\ cons'[c] = IF log[n + 1] = "withheld" THEN "ready" ELSE "sending"
    BY <1>1 DEF HandleMessage, TypeOK
  <2>8. Refusal(c)'
    BY <2>1, <2>4 DEF Refusal, Sending
  <2>9. ASSUME sub[c] \in {"recheck", "loop"} \/ Sending(c, "message") \/ Sending(c, "ping")
        PROVE  Following(c)' /\ InStep(c)'
    <3>1. /\ Place <= next[c] /\ pos[c] <= next[c]
          /\ \A o \in Place..(next[c] - 1) : IsEvent(o) => Accounted(c, o)
      BY <2>4, <2>9 DEF Following
    <3>2. \A o \in Place..n : IsEvent(o) => Accounted(c, o)'
      <4>1. SUFFICES ASSUME NEW o \in Place..n, IsEvent(o) PROVE Accounted(c, o)'
        OBVIOUS
      <4>2. CASE o < next[c]
        BY <2>1, <2>2, <2>5, <2>6, <3>1, <4>1, <4>2 DEF Accounted, Sending
      <4>3. CASE o >= next[c] /\ o < first
        BY <2>2, <2>5, <4>1, <4>3 DEF Accounted
      <4>4. CASE o >= next[c] /\ o >= first
        <5>1. o = n /\ cons'[c] = "sending"
          BY <2>5, <2>6, <2>7, <4>1, <4>4, SMTT(30) DEF IsEvent
        <5>2. QED
          BY <2>7, <5>1 DEF Accounted
      <4>5. QED
        BY <2>5, <4>2, <4>3, <4>4
    <3>3. Following(c)'
      BY <2>1, <2>5, <2>6, <2>7, <3>1, <3>2 DEF Following, IsEvent
    <3>4. InStep(c)'
      <4>1. sub[c] \in {"resume", "consume", "recheck", "loop"} => lastID[c] = Place
        BY <2>4 DEF InStep
      <4>2. Sending(c, "message") =>
              /\ lastID[c] = Place /\ outID[c] > Place /\ outID[c] <= next[c]
              /\ IsEvent(outID[c] - 1)
        BY <2>4 DEF InStep
      <4>3. Sending(c, "ping") =>
              \/ outID[c] = 0 /\ lastID[c] = Place
              \/ /\ outID[c] = lastID[c] /\ outID[c] > Place
                 /\ outID[c] <= n /\ outID[c] <= Len(log)
        BY <2>4, <2>5, <2>6, <3>1 DEF InStep
      <4>4. QED
        BY <2>1, <2>5, <2>6, <2>7, <4>1, <4>2, <4>3 DEF InStep, Sending, IsEvent
    <3>5. QED
      BY <3>3, <3>4
  <2>10. ASSUME ~(sub[c] \in {"recheck", "loop"}
                  \/ Sending(c, "message") \/ Sending(c, "ping"))
         PROVE  Following(c)' /\ InStep(c)'
    BY <2>1, <2>4, <2>5, <2>10 DEF Following, InStep, Sending
  <2>11. QED
    BY <2>8, <2>9, <2>10 DEF Safe
<1>4. QED
  BY <1>2, <1>3

-----------------------------------------------------------------------------
(* The theorems.                                                           *)

\* In the initial states nobody is connected and nothing has been published.
LEMMA InitIInv == Init => IInv
<1> SUFFICES ASSUME Init PROVE IInv
  OBVIOUS
<1>1. TypeOK
  BY InitTypeOK
<1>2. Connections /\ SendsSomething
  BY DEF Init, Connections, SendsSomething
<1>3. Len(log) = 0 /\ Len(got) = 0 /\ client = "away"
  BY DEF Init
<1>4. Retained /\ InOrder /\ GivesUpOnlyWhenLost
  BY <1>3 DEF Init, Retained, InOrder, GivesUpOnlyWhenLost
<1>5. Received
  BY <1>3 DEF Init, Received
<1>6. NoSkip
  BY <1>3 DEF Init, NoSkip, IsEvent
<1>7. cur \notin Conns
  BY DEF Init
<1>8. QED
  BY <1>1, <1>2, <1>4, <1>5, <1>6, <1>7 DEF IInv

\* Every step preserves IInv.
LEMMA NextIInv == IInv /\ [Next]_vars => IInv'
<1> SUFFICES ASSUME IInv, [Next]_vars PROVE IInv'
  OBVIOUS
<1>1. CASE UNCHANGED vars
  <2>1. UNCHANGED <<log, first, hnd, ctx, sub, out, outID, lastID, cons, next, pos,
                    client, cur, last, got, gone, blind>>
    BY <1>1 DEF vars, streamVars, hndVars, subVars, consVars, clientVars, ghostVars
  <2>2. TypeOK'
    BY NextTypeOK DEF IInv
  <2>3. Connections' /\ SendsSomething'
    <3>1. Connections /\ SendsSomething
      BY DEF IInv
    <3>2. QED
      BY <2>1, <3>1 DEF Connections, SendsSomething
  <2>4. Good'
    BY <2>1, Parts, QuietGood DEF Quiet
  <2>5. QED
    BY <2>2, <2>3, <2>4 DEF IInv, Good, Safe, Passed
<1>2. CASE Next
  <2>1. TypeOK'
    BY NextTypeOK DEF IInv
  <2>2. Connections' /\ SendsSomething'
    BY <1>2, NextConnections DEF IInv
  <2>3. Good'
    <3>1. CASE \E k \in Kind : Publish(k)
      BY <3>1, PublishGood
    <3>2. CASE Retention
      BY <3>2, RetentionGood
    <3>3. CASE Disconnect \/ Shutdown
      BY <3>3, LeaveGood
    <3>4. ASSUME NEW c \in Conns, GetEvents(c) \/ CancelCtx(c) \/ HandlerWrite(c) PROVE Good'
      BY <3>4, GetEventsGood, CancelCtxGood, HandlerWriteGood
    <3>5. ASSUME NEW c \in Conns,
                 \/ GetEventsUnavailable(c) \/ HandlerCtxDone(c)
                 \/ HandlerReceiverClosed(c) \/ Reap(c) \/ NotifyClose(c)
                 \/ HandlerWriteFails(c) \/ Drop(c)
          PROVE  Good'
      BY <3>5, LeaveGood
    <3>6. ASSUME NEW c \in Conns,
                 SubscribeResume(c) \/ SubscribeConsume(c) \/ SubscribeRecheck(c)
          PROVE  Good'
      BY <3>6, ResumeGood, ConsumeGood, RecheckGood
    <3>7. ASSUME NEW c \in Conns, SubscribePing(c) \/ SubscribeReceive(c) PROVE Good'
      BY <3>7, PingGood, ReceiveGood
    <3>8. ASSUME NEW c \in Conns,
                 \/ SubscribeClosed(c) \/ SubscribeCtxDone(c) \/ SubscribeExit(c)
                 \/ HandleMessageCtxDone(c)
          PROVE  Good'
      BY <3>8, EndGood
    <3>9. ASSUME NEW c \in Conns, NEW n \in 0..(MaxLog - 1), HandleMessage(c, n) PROVE Good'
      BY <3>9, HandleMessageGood
    <3>10. QED
      BY <1>2, <3>1, <3>2, <3>3, <3>4, <3>5, <3>6, <3>7, <3>8, <3>9 DEF Next
  <2>4. QED
    BY <2>1, <2>2, <2>3 DEF IInv, Good, Safe, Passed
<1>3. QED
  BY <1>1, <1>2

\* The inductive invariant of the event stream.
THEOREM Invariance == Spec => []IInv
BY InitIInv, NextIInv, PTL DEF Spec

\* The client's Last-Event-ID never moves past an event it could have received and
\* did not, for every number of connections, every log and every number of faults.
THEOREM NothingSkipped == Spec => []NoSkip
<1>1. IInv => NoSkip
  BY DEF IInv
<1>2. QED
  BY Invariance, <1>1, PTL

\* Across all its connections the client receives every message at most once, and
\* in stream order.
THEOREM OnceInOrder == Spec => []InOrder
<1>1. IInv => InOrder
  BY DEF IInv
<1>2. QED
  BY Invariance, <1>1, PTL

\* A client that has received events is told to give up only if the message it
\* would resume from has expired.
THEOREM RefusedOnlyWhenLost == Spec => []GivesUpOnlyWhenLost
<1>1. IInv => GivesUpOnlyWhenLost
  BY DEF IInv
<1>2. QED
  BY Invariance, <1>1, PTL
=============================================================================
