----------------------- MODULE EventStreamRefinement ------------------------
(***************************************************************************)
(* EventStream implements ResumableDelivery, for every set of connections, *)
(* every log and every number of faults: handlers, goroutines, consumers,  *)
(* pings, broken connections and shutdowns are steps of the promise to the *)
(* client, or none at all.                                                 *)
(***************************************************************************)
EXTENDS EventStreamProofs

\* What the client is not to receive any more lies below its place, or has expired.
Excused == \A o \in gone \cup blind : o < last \/ o < first

-----------------------------------------------------------------------------
(* The client's steps.                                                     *)

\* The variables of the promise.
PromiseVars == <<log, first, client, last, got>>

\* Unheard: a step that changes none of them is a step of no one.
LEMMA Unheard ==
  ASSUME UNCHANGED PromiseVars PROVE [Promise!Next]_(Promise!vars)
BY DEF PromiseVars, Promise!vars

\* StillFollowing: losing and regaining a connection is not noticed either.
LEMMA StillFollowing ==
  ASSUME UNCHANGED <<log, first, last, got>>,
         client \in {"away", "connected"}, client' \in {"away", "connected"}
  PROVE  [Promise!Next]_(Promise!vars)
BY DEF Promise!vars

\* OutsteppedID: the ID of an event under way lies ahead of the client, and what the
\* client passes with it has expired (Following, InStep).
LEMMA OutsteppedID ==
  ASSUME IInv, Excused, NEW c \in Conns, cur = c, ~ctx[c], sub[c] = "send",
         out[c] = "message" \/ (out[c] = "ping" /\ outID[c] # 0)
  PROVE  /\ outID[c] \in Nat /\ outID[c] > last /\ outID[c] > 0 /\ outID[c] <= Len(log)
         /\ out[c] = "message" => IsEvent(outID[c] - 1) /\ outID[c] - 1 >= last
         /\ \A o \in 0..(outID[c] - 1) :
              o >= last /\ IsEvent(o) /\ (out[c] = "message" => o # outID[c] - 1) => o < first
<1>1. TypeOK /\ (Sending(c, "message") \/ Sending(c, "ping"))
  BY Parts DEF Sending
<1>2. /\ InStep(c) /\ cons[c] \in {"ready", "sending"}
      /\ Place <= next[c] /\ pos[c] <= next[c]
      /\ \A o \in Place..(next[c] - 1) : IsEvent(o) => Accounted(c, o)
  BY <1>1, UnderWay
<1>3. /\ next[c] \in Nat /\ pos[c] \in Nat /\ outID[c] \in Nat
      /\ Place \in Nat /\ last \in Int /\ first \in Nat /\ Len(log) \in Nat
      /\ Place >= last /\ (Place = last \/ Place = 0)
  BY <1>1, Numbers
<1>4. /\ outID[c] > Place /\ outID[c] <= next[c]
      /\ out[c] = "message" => IsEvent(outID[c] - 1)
      /\ out[c] = "ping" => outID[c] <= pos[c] /\ outID[c] <= Len(log)
      /\ cons[c] = "sending" => pos[c] >= outID[c]
  BY <1>1, <1>2, <1>3 DEF InStep, Sending
<1>5. outID[c] <= Len(log)
  BY <1>3, <1>4 DEF IsEvent
<1>6. ASSUME NEW o \in 0..(outID[c] - 1), o >= last, IsEvent(o),
             out[c] = "message" => o # outID[c] - 1
      PROVE  o < first
  <2>1. o \in Place..(next[c] - 1) /\ o < outID[c] /\ o \in Nat
    BY <1>3, <1>4, <1>6
  <2>2. Accounted(c, o)
    BY <1>2, <1>6, <2>1
  <2>3. o \in gone \cup blind
    BY <1>3, <1>4, <1>6, <2>1, <2>2 DEF Accounted, Sending
  <2> QED BY <1>3, <1>6, <2>1, <2>3 DEF Excused
<1> QED BY <1>3, <1>4, <1>5, <1>6

\* WriteImplements: what the client reads from its connection is an event that is due,
\* news that nothing is due below an offset, or an error it was promised (HandlerWrite).
LEMMA WriteImplements ==
  ASSUME IInv, Excused, NEW c \in Conns, HandlerWrite(c)
  PROVE  [Promise!Next]_(Promise!vars)
<1>1. /\ TypeOK /\ Connections /\ SendsSomething /\ sub[c] = "send" /\ ~ctx[c]
      /\ UNCHANGED <<log, first>>
  BY Parts DEF HandlerWrite, streamVars
<1>2. CASE cur # c
  BY <1>1, <1>2, Unheard DEF HandlerWrite, clientVars, PromiseVars
<1>3. CASE cur = c
  <2>0. client = "connected" /\ out[c] \in EventType /\ out[c] # "none"
    BY <1>1, <1>3 DEF Connections, TypeOK, SendsSomething
  <2>1. ClientReads(out[c], outID[c])
    BY <1>3 DEF HandlerWrite
  <2>2. CASE out[c] = "message"
    <3>1. /\ outID[c] \in Nat /\ outID[c] > last /\ outID[c] > 0 /\ outID[c] <= Len(log)
          /\ IsEvent(outID[c] - 1) /\ outID[c] - 1 >= last
          /\ \A o \in 0..(outID[c] - 1) :
                o >= last /\ IsEvent(o) /\ o # outID[c] - 1 => o < first
      BY <1>1, <1>3, <2>2, OutsteppedID
    <3>2. /\ last' = outID[c] /\ got' = Append(got, outID[c] - 1)
          /\ client' = client
      BY <2>1, <2>2, <3>1 DEF ClientReads
    <3>3. Len(log) \in Nat
      BY <1>1 DEF TypeOK
    <3> DEFINE o == outID[c] - 1
    <3>4. o \in 0..(Len(log) - 1) /\ o + 1 = outID[c]
      BY <3>1, <3>3
    <3>5. Promise!NothingBefore(o)
      BY <3>1, <3>3, <3>4 DEF Promise!NothingBefore, IsEvent
    <3>6. Promise!Receive(o)
      BY <1>1, <2>0, <3>1, <3>2, <3>4, <3>5 DEF Promise!Receive, IsEvent
    <3> QED BY <3>4, <3>6 DEF Promise!Next
  <2>3. CASE out[c] = "ping" /\ outID[c] # 0
    <3>1. /\ outID[c] \in Nat /\ outID[c] > last /\ outID[c] <= Len(log)
          /\ \A o \in 0..(outID[c] - 1) : o >= last /\ IsEvent(o) => o < first
      BY <1>1, <1>3, <2>3, OutsteppedID
    <3>2. last' = outID[c] /\ got' = got /\ client' = client
      BY <2>1, <2>3 DEF ClientReads
    <3>3. Len(log) \in Nat
      BY <1>1 DEF TypeOK
    <3>4. outID[c] \in 0..Len(log)
      BY <3>1, <3>3
    <3>5. Promise!NothingBefore(outID[c])
      BY <3>1 DEF Promise!NothingBefore, IsEvent
    <3>6. Promise!Advance(outID[c])
      BY <1>1, <2>0, <3>1, <3>2, <3>5 DEF Promise!Advance
    <3> QED BY <3>4, <3>6 DEF Promise!Next
  <2>4. CASE out[c] = "ping" /\ outID[c] = 0
    BY <1>1, <2>1, <2>4, Unheard DEF ClientReads, PromiseVars
  <2>5. CASE out[c] = "retry"
    <3>1. outID[c] = 0
      BY <1>1, <2>5 DEF SendsSomething, ErrorType
    <3> QED BY <1>1, <2>0, <2>1, <2>5, <3>1, StillFollowing DEF ClientReads
  <2>6. CASE out[c] = "giveUp"
    <3>1. outID[c] = 0
      BY <1>1, <2>6 DEF SendsSomething, ErrorType
    <3>2. got = <<>> \/ first > last
      BY <1>1, <1>3, <2>6 DEF IInv, Refusal, Sending
    <3>3. UNCHANGED <<last, got>> /\ client' = "failed"
      BY <2>1, <2>6, <3>1 DEF ClientReads
    <3>4. Promise!GiveUp
      BY <1>1, <2>0, <3>2, <3>3 DEF Promise!GiveUp
    <3> QED BY <3>4 DEF Promise!Next
  <2> QED BY <2>0, <2>2, <2>3, <2>4, <2>5, <2>6 DEF EventType
<1> QED BY <1>2, <1>3

\* EndImplements: the end of a response releases the client or leaves it following.
LEMMA EndImplements ==
  ASSUME IInv, NEW c \in Conns, NEW clean \in BOOLEAN, ClientSeesEnd(c, clean),
         UNCHANGED <<log, first>>
  PROVE  [Promise!Next]_(Promise!vars)
<1>1. UNCHANGED <<last, got>> /\ (cur = c => client = "connected")
  BY DEF ClientSeesEnd, IInv, Connections
<1>2. CASE cur # c
  BY <1>1, <1>2, Unheard DEF ClientSeesEnd, PromiseVars
<1>3. CASE cur = c /\ clean
  <2>1. Promise!Release
    BY <1>1, <1>3 DEF ClientSeesEnd, Promise!Release
  <2> QED BY <2>1 DEF Promise!Next
<1>4. CASE cur = c /\ ~clean
  BY <1>1, <1>4, StillFollowing DEF ClientSeesEnd
<1> QED BY <1>2, <1>3, <1>4

\* QuietImplements: the other steps change nothing for the client.
LEMMA QuietImplements ==
  ASSUME NEW c \in Conns,
         \/ GetEventsUnavailable(c) \/ CancelCtx(c) \/ Reap(c)
         \/ SubscribeResume(c) \/ SubscribeConsume(c) \/ SubscribeRecheck(c)
         \/ SubscribePing(c) \/ SubscribeClosed(c) \/ SubscribeReceive(c)
         \/ SubscribeCtxDone(c) \/ SubscribeExit(c) \/ HandleMessageCtxDone(c)
         \/ NotifyClose(c) \/ \E n \in 0..(MaxLog - 1) : HandleMessage(c, n)
         \/ HandlerWriteFails(c) \/ Drop(c)
  PROVE  UNCHANGED PromiseVars
BY DEF PromiseVars, streamVars, clientVars, GetEventsUnavailable, CancelCtx, Reap,
       SubscribeResume, SubscribeConsume, SubscribeRecheck, SubscribePing, SubscribeClosed,
       SubscribeReceive, SubscribeCtxDone, SubscribeExit, HandleMessageCtxDone, NotifyClose,
       HandleMessage, HandlerWriteFails, Drop

\* StepImplements: every step is one of the promise, or none.
LEMMA StepImplements == IInv /\ Excused /\ [Next]_vars => [Promise!Next]_(Promise!vars)
<1> SUFFICES ASSUME IInv, Excused, [Next]_vars PROVE [Promise!Next]_(Promise!vars)
  OBVIOUS
<1>0. TypeOK
  BY DEF IInv
<1>1. ASSUME NEW k \in Kind, Publish(k) PROVE [Promise!Next]_(Promise!vars)
  <2>1. Promise!Publish
    BY <1>1 DEF Publish, Promise!Publish, clientVars
  <2> QED BY <2>1 DEF Promise!Next
<1>2. CASE Retention
  <2>1. Promise!Expire
    BY <1>2 DEF Retention, Promise!Expire, clientVars
  <2> QED BY <2>1 DEF Promise!Next
<1>3. CASE Disconnect
  BY <1>3, StillFollowing DEF Disconnect, streamVars
<1>4. CASE Shutdown
  BY <1>4, Unheard DEF Shutdown, streamVars, clientVars, PromiseVars
<1>5. ASSUME NEW c \in Conns, GetEvents(c) PROVE [Promise!Next]_(Promise!vars)
  BY <1>5, StillFollowing DEF GetEvents, streamVars
<1>6. ASSUME NEW c \in Conns, HandlerWrite(c) PROVE [Promise!Next]_(Promise!vars)
  BY <1>6, WriteImplements
<1>7. ASSUME NEW c \in Conns, HandlerCtxDone(c) PROVE [Promise!Next]_(Promise!vars)
  BY <1>0, <1>7, EndImplements DEF HandlerCtxDone, streamVars, TypeOK
<1>8. ASSUME NEW c \in Conns, HandlerReceiverClosed(c) PROVE [Promise!Next]_(Promise!vars)
  BY <1>8, EndImplements DEF HandlerReceiverClosed, streamVars
<1>9. CASE UNCHANGED vars
  BY <1>9, Unheard DEF vars, streamVars, clientVars, PromiseVars
<1> QED
  BY <1>1, <1>2, <1>3, <1>4, <1>5, <1>6, <1>7, <1>8, <1>9, QuietImplements, Unheard DEF Next

\* ExcusedStep: the client's place and the start of the log never move back, and nothing
\* is excused but what has expired.
LEMMA ExcusedStep == IInv /\ Excused /\ [Next]_vars => Excused'
<1> SUFFICES ASSUME IInv, Excused, [Next]_vars PROVE Excused'
  OBVIOUS
<1>0. TypeOK
  BY DEF IInv
<1>1. ASSUME last' >= last, last' \in Int, first' >= first, first' \in Nat,
             \A o \in gone' \cup blind' : o \in gone \cup blind \/ (o \in Nat /\ o < first)
      PROVE  Excused'
  <2> SUFFICES ASSUME NEW o \in gone' \cup blind' PROVE o < last' \/ o < first'
    BY DEF Excused
  <2>1. o \in Nat /\ (o < last \/ o < first)
    BY <1>0, <1>1 DEF Excused, TypeOK
  <2> QED BY <1>0, <1>1, <2>1 DEF TypeOK
<1>2. ASSUME UNCHANGED <<last, gone, blind>>, first' = first \/ first' = first + 1
      PROVE  Excused'
  <2>1. last' >= last /\ last' \in Int /\ first' >= first /\ first' \in Nat
    BY <1>0, <1>2 DEF TypeOK
  <2> QED BY <1>1, <1>2, <2>1
<1>3. ASSUME NEW c \in Conns, HandlerWrite(c) PROVE Excused'
  <2>1. UNCHANGED <<first, gone, blind>> /\ sub[c] = "send" /\ ~ctx[c]
    BY <1>3 DEF HandlerWrite, streamVars, ghostVars
  <2>2. CASE last' = last
    BY <1>2, <2>1, <2>2
  <2>3. CASE last' # last
    <3>1. cur = c /\ last' = outID[c] /\ outID[c] # 0
      BY <1>3, <2>3 DEF HandlerWrite, ClientReads, clientVars
    <3>2. out[c] = "message" \/ out[c] = "ping"
      BY <2>1, <3>1 DEF IInv, SendsSomething, TypeOK, EventType, ErrorType
    <3>3. outID[c] \in Nat /\ outID[c] > last
      BY <2>1, <3>1, <3>2, OutsteppedID
    <3>4. last' >= last /\ last' \in Int /\ first' >= first /\ first' \in Nat
      BY <1>0, <2>1, <3>1, <3>3 DEF TypeOK
    <3> QED BY <1>1, <2>1, <3>4
  <2> QED BY <2>2, <2>3
<1>4. ASSUME NEW c \in Conns,
             \/ SubscribeConsume(c) \/ SubscribeRecheck(c)
             \/ \E n \in 0..(MaxLog - 1) : HandleMessage(c, n)
      PROVE  Excused'
  <2>1. UNCHANGED <<last, first>>
    BY <1>4 DEF SubscribeConsume, SubscribeRecheck, HandleMessage, streamVars, clientVars
  <2>2. first \in Nat /\ next[c] \in Nat /\ lastID[c] \in Nat
    BY <1>0 DEF TypeOK
  <2>3. \A a \in Nat : \A o \in a..(first - 1) : o \in Nat /\ o < first
    BY <2>2
  <2>4. gone' \subseteq gone \cup 0..(first - 1) \cup next[c]..(first - 1)
    BY <1>4 DEF SubscribeConsume, SubscribeRecheck, HandleMessage
  <2>5. blind' \subseteq blind \cup lastID[c]..(first - 1)
    BY <1>4 DEF SubscribeConsume, SubscribeRecheck, HandleMessage
  <2>6. last' >= last /\ last' \in Int /\ first' >= first /\ first' \in Nat
    BY <1>0, <2>1 DEF TypeOK
  <2> QED BY <1>1, <2>2, <2>3, <2>4, <2>5, <2>6
<1>5. ASSUME NEW c \in Conns,
             \/ GetEvents(c) \/ GetEventsUnavailable(c) \/ CancelCtx(c) \/ Reap(c)
             \/ HandlerCtxDone(c) \/ HandlerReceiverClosed(c) \/ SubscribeResume(c)
             \/ SubscribePing(c) \/ SubscribeClosed(c) \/ SubscribeReceive(c)
             \/ SubscribeCtxDone(c) \/ SubscribeExit(c) \/ HandleMessageCtxDone(c)
             \/ NotifyClose(c) \/ HandlerWriteFails(c) \/ Drop(c)
      PROVE  UNCHANGED <<last, gone, blind, first>>
  BY <1>5 DEF streamVars, clientVars, ghostVars, GetEvents, GetEventsUnavailable, CancelCtx,
     Reap, HandlerCtxDone, HandlerReceiverClosed, ClientSeesEnd, SubscribeResume,
     SubscribePing, SubscribeClosed, SubscribeReceive, SubscribeCtxDone, SubscribeExit,
     HandleMessageCtxDone, NotifyClose, HandlerWriteFails, Drop
<1>6. ASSUME \/ \E k \in Kind : Publish(k)
             \/ Retention \/ Disconnect \/ Shutdown \/ UNCHANGED vars
      PROVE  UNCHANGED <<last, gone, blind>> /\ (first' = first \/ first' = first + 1)
  BY <1>6 DEF Publish, Retention, Disconnect, Shutdown, vars, streamVars, clientVars,
              ghostVars
<1> QED BY <1>2, <1>3, <1>4, <1>5, <1>6 DEF Next

\* KeepsItsPromise: the event stream implements ResumableDelivery. Whatever connections,
\* goroutines, pings, retention and shutdowns do, the client receives every event once and
\* in order and passes over none that has not expired (Implements).
THEOREM KeepsItsPromise == Spec => Implements
<1>1. Init => Promise!Init
  <2> SUFFICES ASSUME Init PROVE Promise!Init
    OBVIOUS
  <2>1. last \in Int
    BY EventStreamAssumption DEF Init
  <2> QED BY <2>1 DEF Init, Promise!Init
<1>2. Init => Excused
  <2> SUFFICES ASSUME Init, NEW o \in gone \cup blind PROVE o < last
    BY DEF Excused
  <2> QED BY EventStreamAssumption DEF Init
<1> QED
  BY <1>1, <1>2, Invariance, ExcusedStep, StepImplements, PTL
     DEF Spec, Implements, Promise!Spec
=============================================================================
