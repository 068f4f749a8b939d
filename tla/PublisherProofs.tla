--------------------------- MODULE PublisherProofs ---------------------------
(***************************************************************************)
(* Proofs about the publisher of log messages, for every set of            *)
(* goroutines, every number of connections and every pattern of faults:    *)
(* type correctness, that a message is reported as published only when the *)
(* broker has acknowledged it, that at most one message of a channel is    *)
(* outstanding, and that a nil channel is not used; the last three until a *)
(* setup of the connection overlaps a tryPublish.                          *)
(***************************************************************************)
EXTENDS Publisher, TLAPS

-----------------------------------------------------------------------------
(* The inductive invariant.                                                *)

Setup == {"dial", "open", "confirm", "register"}
Body == {"check", "drain", "draining", "send", "mark", "await", "awaiting", "leave"}

\* A goroutine that has ensured the connection, and no setup has begun since.
Current(t) == t \notin outdated /\ pc[t] \in {"lock"} \cup Body

\* The connection is set up, or was when a goroutine that is still current looked.
Sound == connMu = {} /\ (Connected \/ \E t \in Goroutines : Current(t))

\* Nothing is on the way between a channel and the broker.
Empty(g) == inflight[g] = <<>> /\ queued[g] = <<>>

\* All that is on the way concerns the message of t.
Own(t, g) == /\ \A i \in 1..Len(inflight[g]) : inflight[g][i] = t
             /\ \A i \in 1..Len(queued[g]) : queued[g][i][1] = t

\* The mutexes are held exactly in a setup and in the body of tryPublish.
MutexInv ==
  \A t \in Goroutines : /\ pc[t] \in Setup <=> t \in connMu
                        /\ pc[t] \in Body <=> t \in publishMu

\* A setup makes everybody else outdated, and leaves either a connection that is
\* ready for publishing or one that is not taken for it.
Ready == channel # 0 /\ confirmations = channel
SetupInv ==
  /\ \A u \in connMu : outdated = Goroutines \ {u}
  /\ Sound => Ready
  /\ conn <= gen /\ channel <= gen
  /\ \A u \in Goroutines : /\ pc[u] = "open" => conn # 0
                           /\ pc[u] \in {"confirm", "register"} => conn # 0 /\ channel = conn

\* The library: nothing is on the way on a connection that has not been made, nothing
\* unconfirmed on a channel that is closed, and an ack has been given by the broker.
LibraryInv ==
  \A g \in Gen :
    /\ g > gen => Empty(g)
    /\ ~chanOpen[g] => inflight[g] = <<>>
    /\ \A i \in 1..Len(queued[g]) : queued[g][i][2] => queued[g][i][1] \in stored

\* A channel carries at most one message at a time.
SingleInv == \A g \in Gen : Len(inflight[g]) + Len(queued[g]) <= 1

\* A channel that has just been opened carries none.
OpenedInv ==
  \A u \in Goroutines : /\ pc[u] = "open" => Empty(conn)
                        /\ pc[u] \in {"confirm", "register"} => Empty(channel)

\* hasOutstanding, or the goroutine that is about to set it, tells whether the channel
\* carries one; a goroutine that is outdated and may reset it does so in time.
OutstandingInv ==
  Sound =>
    /\ ~Empty(channel) /\ ~hasOutstanding
         => \E t \in Goroutines \ outdated : pc[t] = "mark"
    /\ \A t \in outdated : pc[t] \in {"draining", "awaiting"} => Empty(channel)

\* What a current goroutine knows of the channel in the course of tryPublish.
BodyInv ==
  \A t \in Goroutines \ outdated :
    /\ pc[t] = "send" => Empty(channel)
    /\ pc[t] \in {"mark", "await"} => Own(t, channel)
    /\ pc[t] \in {"draining", "awaiting"} => selConf[t] = channel

\* The confirmation that a goroutine awaits is that of its own message.
AwaitInv ==
  \A t \in Goroutines : pc[t] = "awaiting" /\ selConf[t] # 0 => Own(t, selConf[t])

StructInv == MutexInv /\ SetupInv /\ LibraryInv
MessageInv == SingleInv /\ OpenedInv /\ OutstandingInv /\ BodyInv /\ AwaitInv
MI == overlap \/ MessageInv

-----------------------------------------------------------------------------
(* Type correctness.                                                       *)

USE DEF fields, mutexes, local, selects, library, broker

\* GenFacts: connections are numbered from 1, and 0 is none of them.
LEMMA GenFacts ==
  /\ GenOrNil = Gen \cup {0} /\ 0 \notin Gen /\ Gen \subseteq Nat
  /\ \A g \in GenOrNil : g # 0 => g \in Gen
  /\ \A g \in GenOrNil : g < MaxGen => g + 1 \in Gen
BY PublisherAssumption DEF Gen, GenOrNil

\* FaultType: the count of faults stays within its bound (Fault).
LEMMA FaultType ==
  ASSUME TypeOK, NEW kind, Fault(kind) PROVE faults' \in 0..MaxFaults
BY PublisherAssumption DEF TypeOK, Fault

\* GoToType: the label of a goroutine stays one (GoTo).
LEMMA GoToType ==
  ASSUME TypeOK, NEW t \in Goroutines, NEW label \in PC, GoTo(t, label)
  PROVE  /\ pc' \in [Goroutines -> PC] /\ pc'[t] = label
         /\ \A u \in Goroutines \ {t} : pc'[u] = pc[u]
BY DEF TypeOK, GoTo

\* CloseConnType: what the closing of a connection leaves has the right type
\* (CloseConn).
LEMMA CloseConnType ==
  ASSUME TypeOK, NEW g \in GenOrNil, CloseConn(g)
  PROVE  /\ connOpen' \in [Gen -> BOOLEAN] /\ chanOpen' \in [Gen -> BOOLEAN]
         /\ inflight' \in [Gen -> Seq(Goroutines)]
<1>0. <<>> \in Seq(Goroutines)
  OBVIOUS
<1>1. connOpen' \in [Gen -> BOOLEAN] /\ chanOpen' \in [Gen -> BOOLEAN]
  BY Zenon DEF TypeOK, CloseConn
<1>2. inflight' \in [Gen -> Seq(Goroutines)]
  BY <1>0, Zenon DEF TypeOK, CloseConn
<1> QED BY <1>1, <1>2

\* TypeStep: every step keeps the types.
LEMMA TypeStep == TypeOK /\ [Next]_vars => TypeOK'
<1> SUFFICES ASSUME TypeOK, [Next]_vars PROVE TypeOK'
  OBVIOUS
<1> USE GenFacts
<1>1. ASSUME NEW t \in Goroutines, Retry(t) PROVE TypeOK'
  BY <1>1, ZenonT(60) DEF TypeOK, Retry, GoTo, PC, Result
<1>2. ASSUME NEW t \in Goroutines, Cancel(t) PROVE TypeOK'
  <2>1. cancelled' \in [Goroutines -> BOOLEAN]
    BY <1>2, Zenon DEF TypeOK, Cancel
  <2> QED BY <1>2, <2>1, FaultType DEF TypeOK, Cancel
<1>3. ASSUME NEW t \in Goroutines, EnsureConnection(t) PROVE TypeOK'
  <2>1. /\ connOpen' \in [Gen -> BOOLEAN] /\ chanOpen' \in [Gen -> BOOLEAN]
        /\ inflight' \in [Gen -> Seq(Goroutines)]
    BY <1>3, CloseConnType DEF TypeOK, EnsureConnection
  <2> QED BY <1>3, <2>1 DEF TypeOK, EnsureConnection, GoTo, PC
<1>4. ASSUME NEW t \in Goroutines, Dial(t) PROVE TypeOK'
  <2>1. connOpen' \in [Gen -> BOOLEAN]
    BY <1>4, Zenon DEF TypeOK, Dial
  <2>2. faults' \in 0..MaxFaults
    BY <1>4, FaultType DEF TypeOK, Dial
  <2>3. gen' \in GenOrNil /\ conn' \in GenOrNil /\ connClosures' \in GenOrNil
    BY <1>4 DEF TypeOK, Dial
  <2> QED BY <1>4, <2>1, <2>2, <2>3 DEF TypeOK, Dial, SetupFails, GoTo, PC
<1>5. ASSUME NEW t \in Goroutines, OpenChannel(t) PROVE TypeOK'
  <2>1. chanOpen' \in [Gen -> BOOLEAN]
    BY <1>5, Zenon DEF TypeOK, OpenChannel
  <2>2. faults' \in 0..MaxFaults
    BY <1>5, FaultType DEF TypeOK, OpenChannel
  <2> QED BY <1>5, <2>1, <2>2 DEF TypeOK, OpenChannel, SetupFails, GoTo, PC
<1>6. ASSUME NEW t \in Goroutines, Confirm(t) PROVE TypeOK'
  <2>1. confirming' \in [Gen -> BOOLEAN]
    BY <1>6, Zenon DEF TypeOK, Confirm
  <2>2. faults' \in 0..MaxFaults
    BY <1>6, FaultType DEF TypeOK, Confirm
  <2>3. /\ connOpen' \in [Gen -> BOOLEAN] /\ chanOpen' \in [Gen -> BOOLEAN]
        /\ inflight' \in [Gen -> Seq(Goroutines)]
    BY <1>6, CloseConnType DEF TypeOK, Confirm
  <2> QED BY <1>6, <2>1, <2>2, <2>3, ZenonT(60) DEF TypeOK, Confirm, SetupFails, GoTo, PC
<1>7. ASSUME NEW t \in Goroutines, Register(t) PROVE TypeOK'
  <2>1. listening' \in [Gen -> BOOLEAN] /\ hasOutstanding' \in BOOLEAN
    BY <1>7, Zenon DEF TypeOK, Register
  <2> QED BY <1>7, <2>1 DEF TypeOK, Register, GoTo, PC
<1>8. ASSUME NEW t \in Goroutines, Lock(t) PROVE TypeOK'
  BY <1>8 DEF TypeOK, Lock, GoTo, PC
<1>9. ASSUME NEW t \in Goroutines, CheckOutstanding(t) PROVE TypeOK'
  BY <1>9 DEF TypeOK, CheckOutstanding, GoTo, PC
<1>10. ASSUME NEW t \in Goroutines, Send(t) PROVE TypeOK'
  <2>0. channel \in Gen => Append(inflight[channel], t) \in Seq(Goroutines)
    BY DEF TypeOK
  <2>1. inflight' \in [Gen -> Seq(Goroutines)]
    BY <1>10, <2>0, Zenon DEF TypeOK, Send
  <2>2. overlap' \in BOOLEAN
    BY <1>10, Zenon DEF TypeOK, Send, UseFields
  <2> QED BY <1>10, <2>1, <2>2, ZenonT(60) DEF TypeOK, Send, Leave, GoTo, PC, Result
<1>11. ASSUME NEW t \in Goroutines, MarkOutstanding(t) PROVE TypeOK'
  BY <1>11 DEF TypeOK, MarkOutstanding, GoTo, PC
<1>12. ASSUME NEW t \in Goroutines, AwaitConfirmation(t) PROVE TypeOK'
  <2>1. overlap' \in BOOLEAN
    BY <1>12, Zenon DEF TypeOK, AwaitConfirmation, UseFields
  <2> QED BY <1>12, <2>1 DEF TypeOK, AwaitConfirmation, GoTo, PC
<1>13. ASSUME NEW t \in Goroutines, AwaitFails(t) PROVE TypeOK'
  BY <1>13 DEF TypeOK, AwaitFails, Leave, GoTo, PC, Result
<1>14. ASSUME NEW t \in Goroutines, AwaitConfirmed(t) PROVE TypeOK'
  <2>0. \A g \in Gen : queued[g] # <<>> => Tail(queued[g]) \in Seq(Confirmation)
    BY DEF TypeOK
  <2>1. selConf[t] \in Gen
    BY <1>14 DEF TypeOK, AwaitConfirmed
  <2>2. queued' \in [Gen -> Seq(Confirmation)]
    BY <1>14, <2>0, <2>1, ZenonT(60) DEF TypeOK, AwaitConfirmed
  <2> QED BY <1>14, <2>2, ZenonT(60) DEF TypeOK, AwaitConfirmed, Leave, GoTo, PC, Result
<1>15. ASSUME NEW t \in Goroutines, TryPublishReturns(t) PROVE TypeOK'
  <2>1. /\ connOpen' \in [Gen -> BOOLEAN] /\ chanOpen' \in [Gen -> BOOLEAN]
        /\ inflight' \in [Gen -> Seq(Goroutines)]
    BY <1>15, CloseConnType DEF TypeOK, TryPublishReturns
  <2>2. timedOut' \in [Goroutines -> BOOLEAN]
    BY <1>15, Zenon DEF TypeOK, TryPublishReturns
  <2> QED BY <1>15, <2>1, <2>2 DEF TypeOK, TryPublishReturns, GoTo, PC
<1>16. ASSUME NEW t \in Goroutines, Timeout(t) PROVE TypeOK'
  <2>1. timedOut' \in [Goroutines -> BOOLEAN]
    BY <1>16, Zenon DEF TypeOK, Timeout
  <2> QED BY <1>16, <2>1 DEF TypeOK, Timeout
<1>17. CASE Close
  <2>1. /\ connOpen' \in [Gen -> BOOLEAN] /\ chanOpen' \in [Gen -> BOOLEAN]
        /\ inflight' \in [Gen -> Seq(Goroutines)]
    BY <1>17, CloseConnType DEF TypeOK, Close
  <2> QED BY <1>17, <2>1, FaultType DEF TypeOK, Close
<1>18. ASSUME NEW g \in Gen, ConnectionLost(g) PROVE TypeOK'
  <2>1. /\ connOpen' \in [Gen -> BOOLEAN] /\ chanOpen' \in [Gen -> BOOLEAN]
        /\ inflight' \in [Gen -> Seq(Goroutines)]
    BY <1>18, CloseConnType DEF TypeOK, ConnectionLost
  <2> QED BY <1>18, <2>1, FaultType DEF TypeOK, ConnectionLost
<1>19. ASSUME NEW g \in Gen, ChannelClosed(g) PROVE TypeOK'
  <2>1. chanOpen' \in [Gen -> BOOLEAN]
    BY <1>19, Zenon DEF TypeOK, ChannelClosed
  <2>2. <<>> \in Seq(Goroutines)
    OBVIOUS
  <2>3. inflight' \in [Gen -> Seq(Goroutines)]
    BY <1>19, <2>2, Zenon DEF TypeOK, ChannelClosed
  <2> QED BY <1>19, <2>1, <2>3, FaultType DEF TypeOK, ChannelClosed
<1>20. ASSUME NEW g \in Gen, NEW ack \in BOOLEAN, BrokerConfirms(g, ack) PROVE TypeOK'
  <2>1. Head(inflight[g]) \in Goroutines /\ Tail(inflight[g]) \in Seq(Goroutines)
    BY <1>20 DEF TypeOK, BrokerConfirms
  <2>2. inflight' \in [Gen -> Seq(Goroutines)] /\ stored' \subseteq Goroutines
    BY <1>20, <2>1 DEF TypeOK, BrokerConfirms
  <2>3. <<Head(inflight[g]), ack>> \in Confirmation
    BY <2>1 DEF Confirmation
  <2>4. queued' \in [Gen -> Seq(Confirmation)]
    BY <1>20, <2>3 DEF TypeOK, BrokerConfirms
  <2>5. faults' \in 0..MaxFaults
    BY <1>20, FaultType DEF TypeOK, BrokerConfirms
  <2> QED BY <1>20, <2>2, <2>4, <2>5 DEF TypeOK, BrokerConfirms
<1>21. CASE UNCHANGED vars
  BY <1>21 DEF TypeOK, vars
<1> QED
  BY <1>1, <1>2, <1>3, <1>4, <1>5, <1>6, <1>7, <1>8, <1>9, <1>10, <1>11, <1>12, <1>13,
     <1>14, <1>15, <1>16, <1>17, <1>18, <1>19, <1>20, <1>21 DEF Next, Finished

\* TypeInit: the types hold initially.
LEMMA TypeInit == Init => TypeOK
<1> SUFFICES ASSUME Init PROVE TypeOK
  OBVIOUS
<1>1. <<>> \in Seq(Goroutines) /\ <<>> \in Seq(Confirmation)
  OBVIOUS
<1>2. inflight \in [Gen -> Seq(Goroutines)] /\ queued \in [Gen -> Seq(Confirmation)]
  BY <1>1, Zenon DEF Init
<1>3. 0 \in 0..MaxFaults
  BY PublisherAssumption
<1> QED BY <1>2, <1>3, GenFacts, Zenon DEF Init, TypeOK, PC, Result

\* TypeCorrect: every variable of the publisher keeps its type, and each mutex has
\* at most one holder.
THEOREM TypeCorrect == Spec => []TypeOK
BY TypeInit, TypeStep, PTL DEF Spec

-----------------------------------------------------------------------------
(* The mutexes, the setup and the library.                                 *)

\* MutexStep: every step keeps the mutexes with the labels that need them.
LEMMA MutexStep == TypeOK /\ MutexInv /\ [Next]_vars => MutexInv'
<1> SUFFICES ASSUME TypeOK, MutexInv, [Next]_vars PROVE MutexInv'
  OBVIOUS
<1> USE DEF MutexInv, Setup, Body, GoTo
<1>1. ASSUME NEW t \in Goroutines, Retry(t) PROVE MutexInv'
  BY <1>1 DEF TypeOK, Retry
<1>2. ASSUME NEW t \in Goroutines, EnsureConnection(t) PROVE MutexInv'
  BY <1>2 DEF TypeOK, EnsureConnection
<1>3. ASSUME NEW t \in Goroutines, Dial(t) PROVE MutexInv'
  BY <1>3 DEF TypeOK, Dial, SetupFails
<1>4. ASSUME NEW t \in Goroutines, OpenChannel(t) PROVE MutexInv'
  BY <1>4 DEF TypeOK, OpenChannel, SetupFails
<1>5. ASSUME NEW t \in Goroutines, Confirm(t) PROVE MutexInv'
  BY <1>5 DEF TypeOK, Confirm, SetupFails
<1>6. ASSUME NEW t \in Goroutines, Register(t) PROVE MutexInv'
  BY <1>6 DEF TypeOK, Register
<1>7. ASSUME NEW t \in Goroutines, Lock(t) PROVE MutexInv'
  BY <1>7 DEF TypeOK, Lock
<1>8. ASSUME NEW t \in Goroutines, CheckOutstanding(t) PROVE MutexInv'
  BY <1>8 DEF TypeOK, CheckOutstanding
<1>9. ASSUME NEW t \in Goroutines, Send(t) PROVE MutexInv'
  BY <1>9 DEF TypeOK, Send, Leave
<1>10. ASSUME NEW t \in Goroutines, MarkOutstanding(t) PROVE MutexInv'
  BY <1>10 DEF TypeOK, MarkOutstanding
<1>11. ASSUME NEW t \in Goroutines, AwaitConfirmation(t) PROVE MutexInv'
  BY <1>11 DEF TypeOK, AwaitConfirmation
<1>12. ASSUME NEW t \in Goroutines, AwaitFails(t) PROVE MutexInv'
  BY <1>12 DEF TypeOK, AwaitFails, Leave
<1>13. ASSUME NEW t \in Goroutines, AwaitConfirmed(t) PROVE MutexInv'
  BY <1>13, ZenonT(60) DEF TypeOK, AwaitConfirmed, Leave
<1>14. ASSUME NEW t \in Goroutines, TryPublishReturns(t) PROVE MutexInv'
  BY <1>14 DEF TypeOK, TryPublishReturns
<1>15. ASSUME UNCHANGED <<pc, connMu, publishMu>> PROVE MutexInv'
  BY <1>15
<1>16. ASSUME NEW t \in Goroutines, Cancel(t) \/ Timeout(t) PROVE MutexInv'
  BY <1>15, <1>16 DEF Cancel, Timeout
<1>17. ASSUME \/ Close
              \/ \E g \in Gen : \/ ConnectionLost(g) \/ ChannelClosed(g)
                               \/ \E ack \in BOOLEAN : BrokerConfirms(g, ack)
       PROVE  MutexInv'
  BY <1>15, <1>17 DEF Close, ConnectionLost, ChannelClosed, BrokerConfirms
<1>18. CASE UNCHANGED vars
  BY <1>15, <1>18 DEF vars
<1> QED
  BY <1>1, <1>2, <1>3, <1>4, <1>5, <1>6, <1>7, <1>8, <1>9, <1>10, <1>11, <1>12, <1>13,
     <1>14, <1>16, <1>17, <1>18 DEF Next, Finished

\* OneHolder: one goroutine at a time is in a setup, and one in the body of tryPublish.
LEMMA OneHolder ==
  ASSUME TypeOK, MutexInv, NEW t \in Goroutines, NEW u \in Goroutines
  PROVE  /\ pc[t] \in Setup /\ pc[u] \in Setup => t = u
         /\ pc[t] \in Body /\ pc[u] \in Body => t = u
         /\ pc[t] \in Setup => connMu = {t}
         /\ connMu = {} => pc[t] \notin Setup
BY DEF TypeOK, MutexInv

\* SetupAlone: in a setup nobody is current, and the connection it makes exists.
LEMMA SetupAlone ==
  ASSUME TypeOK, MutexInv, SetupInv, NEW t \in Goroutines, pc[t] \in Setup
  PROVE  connMu = {t} /\ outdated = Goroutines \ {t}
BY OneHolder DEF TypeOK, SetupInv

\* CurrentFacts: a current goroutine finds a connection that was ready.
LEMMA CurrentFacts ==
  ASSUME TypeOK, MutexInv, SetupInv, NEW t \in Goroutines, Current(t)
  PROVE  connMu = {} /\ Sound /\ Ready /\ channel \in Gen
<1>1. connMu = {}
  <2> SUFFICES ASSUME NEW u \in connMu PROVE FALSE
    OBVIOUS
  <2>1. u \in Goroutines /\ pc[u] \in Setup /\ u = t
    BY DEF TypeOK, MutexInv, SetupInv, Current
  <2> QED BY <2>1 DEF Current, Setup, Body
<1>2. Sound /\ Ready
  BY <1>1 DEF Sound, SetupInv
<1> QED BY <1>1, <1>2, GenFacts DEF Ready, TypeOK

\* The steps that leave the fields of the connection alone.
Outside(t) ==
  \/ Retry(t) \/ Cancel(t) \/ Lock(t) \/ CheckOutstanding(t) \/ Send(t)
  \/ MarkOutstanding(t) \/ AwaitConfirmation(t) \/ AwaitFails(t) \/ AwaitConfirmed(t)
  \/ TryPublishReturns(t) \/ Timeout(t)
Environment ==
  \/ Close
  \/ \E g \in Gen : \/ ConnectionLost(g) \/ ChannelClosed(g)
                    \/ \E ack \in BOOLEAN : BrokerConfirms(g, ack)

\* CloseConnShuts: closing a connection opens none, and what is on the way elsewhere
\* stays (CloseConn).
LEMMA CloseConnShuts ==
  ASSUME TypeOK, NEW g \in GenOrNil, CloseConn(g)
  PROVE  /\ \A h \in Gen : connOpen'[h] => connOpen[h]
         /\ \A h \in Gen : chanOpen'[h] => chanOpen[h]
         /\ \A h \in Gen : \/ inflight'[h] = inflight[h] /\ (chanOpen'[h] <=> chanOpen[h])
                           \/ inflight'[h] = <<>>
         /\ g # 0 => ~connOpen'[g]
BY GenFacts DEF TypeOK, CloseConn

\* SoundFrame: a connection is not taken for one that is set up because it is closed
\* or because a goroutine is done with it.
LEMMA SoundFrame ==
  ASSUME TypeOK, UNCHANGED <<conn, channel, connMu>>,
         \A h \in Gen : connOpen'[h] => connOpen[h],
         \A u \in Goroutines : Current(u)' => Current(u) \/ Connected
  PROVE  Sound' => Sound
<1>1. Connected' => Connected
  BY GenFacts DEF TypeOK, Connected
<1> QED BY <1>1 DEF Sound

\* OutsideFacts: the steps outside a setup do not make the connection sound.
LEMMA OutsideFacts ==
  ASSUME TypeOK, NEW t \in Goroutines, Outside(t)
  PROVE  /\ UNCHANGED <<fields, connMu, gen, outdated>>
         /\ Sound' => Sound
         /\ \A u \in Goroutines : pc'[u] \in Setup => pc'[u] = pc[u]
<1>1. UNCHANGED <<fields, connMu, gen, outdated>>
  BY DEF Outside, Retry, Cancel, Lock, CheckOutstanding, Send, MarkOutstanding,
         AwaitConfirmation, AwaitFails, AwaitConfirmed, TryPublishReturns, Timeout
<1>2. \A h \in Gen : connOpen'[h] => connOpen[h]
  BY CloseConnShuts DEF TypeOK, Outside, Retry, Cancel, Lock, CheckOutstanding, Send,
     MarkOutstanding, AwaitConfirmation, AwaitFails, AwaitConfirmed, TryPublishReturns,
     Timeout
<1>3. /\ \A u \in Goroutines \ {t} : pc'[u] = pc[u]
      /\ \/ pc'[t] = pc[t]
         \/ /\ pc'[t] \notin Setup
            /\ pc'[t] \in {"lock"} \cup Body => pc[t] \in {"lock"} \cup Body
  BY DEF TypeOK, Setup, Body, Outside, Retry, Cancel, Lock, CheckOutstanding, Send,
         MarkOutstanding, AwaitConfirmation, AwaitFails, AwaitConfirmed,
         TryPublishReturns, Timeout, Leave, GoTo
<1>4. \A u \in Goroutines : Current(u)' => Current(u)
  BY <1>1, <1>3 DEF Current
<1>5. Sound' => Sound
  BY <1>1, <1>2, <1>4, SoundFrame
<1> QED BY <1>1, <1>3, <1>5

\* EnvironmentFacts: nor do those of Close, the library and the broker.
LEMMA EnvironmentFacts ==
  ASSUME TypeOK, Environment
  PROVE  /\ UNCHANGED <<fields, hasOutstanding, mutexes, local, selects, gen, outdated,
                        overlap>>
         /\ Sound' => Sound
<1>1. UNCHANGED <<fields, hasOutstanding, mutexes, local, selects, gen, outdated, overlap>>
  BY DEF Environment, Close, ConnectionLost, ChannelClosed, BrokerConfirms
<1>2. \A h \in Gen : connOpen'[h] => connOpen[h]
  BY CloseConnShuts, GenFacts
     DEF TypeOK, Environment, Close, ConnectionLost, ChannelClosed, BrokerConfirms
<1>3. Sound' => Sound
  BY <1>1, <1>2, SoundFrame DEF Current
<1> QED BY <1>1, <1>3

\* SetupFrame: such steps keep what is known of the setup.
LEMMA SetupFrame ==
  ASSUME SetupInv, UNCHANGED <<fields, connMu, gen>>, Sound' => Sound,
         connMu = {} \/ UNCHANGED outdated,
         \A u \in Goroutines : pc'[u] \in Setup => pc'[u] = pc[u]
  PROVE  SetupInv'
<1>1. Sound' => Ready'
  BY DEF SetupInv, Ready
<1>2. \A u \in connMu' : outdated' = Goroutines \ {u}
  BY DEF SetupInv
<1> QED BY <1>1, <1>2 DEF SetupInv, Setup

\* EnsureFacts: ensureConnection either finds the connection sound, or begins a setup.
LEMMA EnsureFacts ==
  ASSUME TypeOK, MutexInv, NEW t \in Goroutines, EnsureConnection(t)
  PROVE  /\ connMu = {} /\ UNCHANGED <<fields, gen>>
         /\ \/ /\ UNCHANGED <<connMu, broker>>
               /\ pc'[t] = "lock" /\ outdated' = outdated \ {t} /\ (Sound' => Sound)
            \/ /\ connMu' = {t} /\ ~Sound' /\ CloseConn(conn)
               /\ pc'[t] = "dial" /\ outdated' = Goroutines \ {t}
<1>1. connMu = {} /\ UNCHANGED <<fields, gen>>
  BY DEF EnsureConnection
<1>2. CASE Connected
  <2>1. /\ UNCHANGED <<connMu, connOpen, broker>> /\ outdated' = outdated \ {t}
        /\ pc'[t] = "lock" /\ \A u \in Goroutines \ {t} : pc'[u] = pc[u]
    BY <1>2 DEF TypeOK, EnsureConnection, GoTo
  <2>2. Sound' => Sound
    BY <1>1, <1>2, <2>1, SoundFrame
  <2> QED BY <1>1, <2>1, <2>2
<1>3. CASE ~Connected
  BY <1>1, <1>3 DEF TypeOK, EnsureConnection, GoTo, Sound
<1> QED BY <1>2, <1>3

\* SetupFacts: a setup is not taken for done before it is, nor when it fails.
LEMMA SetupFacts ==
  ASSUME TypeOK, MutexInv, SetupInv, NEW t \in Goroutines,
         Dial(t) \/ OpenChannel(t) \/ Confirm(t)
  PROVE  ~Sound' /\ UNCHANGED outdated /\ outdated = Goroutines \ {t}
<1>1. pc[t] \in Setup /\ UNCHANGED outdated
  BY DEF Dial, OpenChannel, Confirm, Setup
<1>2. connMu = {t} /\ outdated = Goroutines \ {t}
  BY <1>1, SetupAlone
<1>3. /\ \/ UNCHANGED connMu
         \/ pc'[t] = "retry" /\ ~Connected'
  <2>1. CASE Dial(t)
    BY <2>1 DEF TypeOK, Dial, SetupFails, GoTo, Connected
  <2>2. CASE OpenChannel(t)
    BY <2>2 DEF TypeOK, OpenChannel, SetupFails, GoTo, Connected
  <2>3. CASE Confirm(t)
    <3>1. conn # 0 /\ conn \in GenOrNil
      BY <2>3 DEF TypeOK, Confirm, SetupInv
    <3> QED BY <2>3, <3>1, CloseConnShuts DEF TypeOK, Confirm, SetupFails, GoTo, Connected
  <2> QED BY <2>1, <2>2, <2>3
<1>4. CASE pc'[t] = "retry" /\ ~Connected'
  <2>1. \A u \in Goroutines : ~Current(u)'
    BY <1>1, <1>2, <1>4 DEF Current, Body
  <2> QED BY <1>1, <1>2, <1>4, <2>1 DEF Sound
<1> QED BY <1>1, <1>2, <1>3, <1>4 DEF Sound

\* SetupStep: every step keeps what is known of the setup.
LEMMA SetupStep == TypeOK /\ MutexInv /\ SetupInv /\ [Next]_vars => SetupInv'
<1> SUFFICES ASSUME TypeOK, MutexInv, SetupInv, [Next]_vars PROVE SetupInv'
  OBVIOUS
<1>1. ASSUME NEW t \in Goroutines, Outside(t) PROVE SetupInv'
  BY <1>1, OutsideFacts, SetupFrame
<1>2. CASE Environment
  BY <1>2, EnvironmentFacts, SetupFrame
<1>3. ASSUME NEW t \in Goroutines, EnsureConnection(t) PROVE SetupInv'
  <2>1. \A u \in Goroutines \ {t} : pc'[u] = pc[u]
    BY <1>3 DEF TypeOK, EnsureConnection, GoTo
  <2>2. CASE UNCHANGED connMu /\ pc'[t] = "lock" /\ (Sound' => Sound)
    BY <1>3, <2>1, <2>2, EnsureFacts, SetupFrame DEF Setup
  <2>3. CASE connMu' = {t} /\ ~Sound' /\ pc'[t] = "dial" /\ outdated' = Goroutines \ {t}
    <3>1. \A u \in Goroutines : pc'[u] \notin {"open", "confirm", "register"}
      BY <1>3, <2>1, <2>3, EnsureFacts, OneHolder DEF Setup
    <3> QED BY <1>3, <2>3, <3>1, EnsureFacts DEF SetupInv
  <2> QED BY <1>3, <2>2, <2>3, EnsureFacts
<1>4. ASSUME NEW t \in Goroutines, pc[t] \in Setup,
             ~Sound', UNCHANGED outdated, connMu' \subseteq connMu,
             \A u \in Goroutines \ {t} : pc'[u] = pc[u],
             conn' <= gen' /\ channel' <= gen',
             pc'[t] = "open" => conn' # 0,
             pc'[t] \in {"confirm", "register"} => conn' # 0 /\ channel' = conn'
      PROVE  SetupInv'
  <2>1. \A u \in Goroutines \ {t} : pc[u] \notin Setup
    BY <1>4, OneHolder
  <2> QED BY <1>4, <2>1 DEF SetupInv, Setup
<1>5. ASSUME NEW t \in Goroutines, Dial(t) PROVE SetupInv'
  <2>1. conn' <= gen' /\ channel' <= gen' /\ (pc'[t] = "open" => conn' # 0)
    BY <1>5, GenFacts DEF TypeOK, SetupInv, Dial, SetupFails, GoTo
  <2>2. /\ pc[t] \in Setup /\ connMu' \subseteq connMu
        /\ pc'[t] \notin {"confirm", "register"}
        /\ \A u \in Goroutines \ {t} : pc'[u] = pc[u]
    BY <1>5 DEF TypeOK, Dial, SetupFails, GoTo, Setup
  <2> QED BY <1>4, <1>5, <2>1, <2>2, SetupFacts
<1>6. ASSUME NEW t \in Goroutines, OpenChannel(t) PROVE SetupInv'
  <2>1. conn' <= gen' /\ channel' <= gen'
    BY <1>6, GenFacts DEF TypeOK, SetupInv, OpenChannel
  <2>2. /\ pc[t] \in Setup /\ connMu' \subseteq connMu
        /\ pc'[t] # "open"
        /\ pc'[t] \in {"confirm", "register"} => conn' # 0 /\ channel' = conn'
        /\ \A u \in Goroutines \ {t} : pc'[u] = pc[u]
    BY <1>6 DEF TypeOK, SetupInv, OpenChannel, SetupFails, GoTo, Setup
  <2> QED BY <1>4, <1>6, <2>1, <2>2, SetupFacts
<1>7. ASSUME NEW t \in Goroutines, Confirm(t) PROVE SetupInv'
  <2>1. conn' <= gen' /\ channel' <= gen'
    BY <1>7 DEF SetupInv, Confirm
  <2>2. /\ pc[t] \in Setup /\ connMu' \subseteq connMu
        /\ pc'[t] # "open" /\ conn' # 0 /\ channel' = conn'
        /\ \A u \in Goroutines \ {t} : pc'[u] = pc[u]
    BY <1>7 DEF TypeOK, SetupInv, Confirm, SetupFails, GoTo, Setup
  <2> QED BY <1>4, <1>7, <2>1, <2>2, SetupFacts
<1>8. ASSUME NEW t \in Goroutines, Register(t) PROVE SetupInv'
  <2>1. /\ pc[t] \in Setup /\ connMu' = {} /\ UNCHANGED <<conn, channel, gen>>
        /\ Ready' /\ pc'[t] = "lock"
        /\ \A u \in Goroutines \ {t} : pc'[u] = pc[u]
    BY <1>8 DEF TypeOK, SetupInv, Register, GoTo, Setup, Ready
  <2>2. \A u \in Goroutines : pc'[u] \notin Setup
    BY <2>1, OneHolder DEF Setup
  <2> QED BY <2>1, <2>2 DEF SetupInv, Setup
<1>9. CASE UNCHANGED vars
  <2>1. Sound' => Sound
    BY <1>9 DEF vars, Sound, Connected, Current
  <2> QED BY <1>9, <2>1, SetupFrame DEF vars
<1> QED
  BY <1>1, <1>2, <1>3, <1>5, <1>6, <1>7, <1>8, <1>9
     DEF Next, Finished, Outside, Environment

\* SeqFacts: what the library's queues rely on.
LEMMA SeqFacts ==
  ASSUME NEW S, NEW s \in Seq(S)
  PROVE  /\ Len(s) \in Nat /\ (Len(s) = 0 <=> s = <<>>)
         /\ s # <<>> => /\ 1 \in 1..Len(s) /\ Head(s) = s[1]
                        /\ Tail(s) \in Seq(S) /\ Len(Tail(s)) = Len(s) - 1
                        /\ \A i \in 1..Len(Tail(s)) : i + 1 \in 1..Len(s) /\ Tail(s)[i] = s[i + 1]
OBVIOUS

\* LibraryFrame: closing channels and making connections keeps LibraryInv.
LEMMA LibraryFrame ==
  ASSUME TypeOK, LibraryInv, UNCHANGED <<queued, stored>>, gen' \in GenOrNil, gen <= gen',
         \A h \in Gen : \/ inflight'[h] = inflight[h] /\ (chanOpen[h] => chanOpen'[h])
                        \/ inflight'[h] = <<>>
  PROVE  LibraryInv'
<1> SUFFICES ASSUME NEW h \in Gen
             PROVE  /\ h > gen' => Empty(h)'
                    /\ ~chanOpen'[h] => inflight'[h] = <<>>
                    /\ \A i \in 1..Len(queued'[h]) :
                          queued'[h][i][2] => queued'[h][i][1] \in stored'
  BY DEF LibraryInv
<1>1. h > gen' => h > gen
  BY GenFacts DEF TypeOK
<1> QED BY <1>1 DEF LibraryInv, Empty

\* ConfirmFacts: a step that receives a confirmation (AwaitConfirmed).
LEMMA ConfirmFacts ==
  ASSUME TypeOK, NEW t \in Goroutines, AwaitConfirmed(t)
  PROVE  /\ selConf[t] \in Gen /\ UNCHANGED inflight
         /\ \A h \in Gen \ {selConf[t]} : queued'[h] = queued[h]
         /\ \/ queued[selConf[t]] # <<>> /\ queued'[selConf[t]] = Tail(queued[selConf[t]])
            \/ /\ queued[selConf[t]] = <<>> /\ queued'[selConf[t]] = <<>>
               /\ ~chanOpen[selConf[t]]
<1>1. selConf[t] \in Gen /\ UNCHANGED inflight
  BY GenFacts DEF TypeOK, AwaitConfirmed
<1> QED BY <1>1 DEF TypeOK, AwaitConfirmed

\* BrokerFacts: a step of the broker that confirms a message (BrokerConfirms).
LEMMA BrokerFacts ==
  ASSUME TypeOK, NEW g \in Gen, NEW ack \in BOOLEAN, BrokerConfirms(g, ack)
  PROVE  /\ \A h \in Gen \ {g} : inflight'[h] = inflight[h] /\ queued'[h] = queued[h]
         /\ inflight[g] # <<>> /\ inflight'[g] = Tail(inflight[g])
         /\ \/ queued'[g] = queued[g]
            \/ queued[g] = <<>> /\ queued'[g] = <<<<Head(inflight[g]), ack>>>>
         /\ stored \subseteq stored' /\ (ack => Head(inflight[g]) \in stored')
         /\ UNCHANGED <<chanOpen, gen>>
BY DEF TypeOK, BrokerConfirms

\* LibraryStep: every step keeps what is known of the library and the broker.
LEMMA LibraryStep ==
  TypeOK /\ MutexInv /\ SetupInv /\ LibraryInv /\ [Next]_vars => LibraryInv'
<1> SUFFICES ASSUME TypeOK, MutexInv, SetupInv, LibraryInv, [Next]_vars PROVE LibraryInv'
  OBVIOUS
<1> USE GenFacts
<1>0. gen \in GenOrNil /\ gen <= gen
  BY DEF TypeOK
<1>1. ASSUME UNCHANGED <<queued, stored, inflight, chanOpen, gen>> PROVE LibraryInv'
  BY <1>0, <1>1, LibraryFrame
<1>2. ASSUME UNCHANGED <<queued, stored, gen>>, NEW g \in GenOrNil, CloseConn(g)
      PROVE  LibraryInv'
  <2>1. \A h \in Gen : \/ inflight'[h] = inflight[h] /\ (chanOpen[h] => chanOpen'[h])
                       \/ inflight'[h] = <<>>
    BY <1>2, CloseConnShuts
  <2> QED BY <1>0, <1>2, <2>1, LibraryFrame
<1>3. ASSUME NEW t \in Goroutines, EnsureConnection(t) PROVE LibraryInv'
  BY <1>1, <1>2, <1>3 DEF EnsureConnection, TypeOK
<1>4. ASSUME NEW t \in Goroutines, Dial(t) PROVE LibraryInv'
  <2>1. UNCHANGED <<queued, stored, inflight, chanOpen>>
    BY <1>4 DEF Dial
  <2>2. gen' \in GenOrNil /\ gen <= gen'
    BY <1>4 DEF Dial, TypeOK
  <2> QED BY <2>1, <2>2, LibraryFrame
<1>5. ASSUME NEW t \in Goroutines, OpenChannel(t) PROVE LibraryInv'
  <2>1. UNCHANGED <<queued, stored, inflight, gen>> /\ \A h \in Gen : chanOpen[h] => chanOpen'[h]
    BY <1>5, ZenonT(60) DEF OpenChannel, TypeOK
  <2> QED BY <1>0, <2>1, LibraryFrame
<1>6. ASSUME NEW t \in Goroutines, Confirm(t) PROVE LibraryInv'
  BY <1>1, <1>2, <1>6 DEF Confirm, TypeOK
<1>7. ASSUME NEW t \in Goroutines, Send(t) PROVE LibraryInv'
  <2>1. CASE UNCHANGED inflight
    BY <1>1, <1>7, <2>1 DEF Send
  <2>2. CASE ~UNCHANGED inflight
    <3>1. /\ channel \in Gen /\ chanOpen[channel]
          /\ \A h \in Gen \ {channel} : inflight'[h] = inflight[h]
          /\ UNCHANGED <<queued, stored, chanOpen, gen>>
      BY <1>7, <2>2 DEF Send, TypeOK
    <3>2. ~(channel > gen)
      BY <3>1 DEF SetupInv, TypeOK
    <3> QED BY <3>1, <3>2 DEF LibraryInv, Empty
  <2> QED BY <2>1, <2>2
<1>8. ASSUME NEW t \in Goroutines, AwaitConfirmed(t) PROVE LibraryInv'
  <2>1. UNCHANGED <<inflight, stored, chanOpen, gen>>
    BY <1>8 DEF AwaitConfirmed
  <2> SUFFICES ASSUME NEW h \in Gen
               PROVE  /\ h > gen => Empty(h)'
                      /\ \A i \in 1..Len(queued'[h]) :
                            queued'[h][i][2] => queued'[h][i][1] \in stored
    BY <2>1 DEF LibraryInv
  <2>2. queued[h] \in Seq(Confirmation)
    BY DEF TypeOK
  <2>3. \/ queued'[h] = queued[h]
        \/ queued[h] # <<>> /\ queued'[h] = Tail(queued[h])
    BY <1>8, ConfirmFacts
  <2>4. \A i \in 1..Len(queued'[h]) : \E j \in 1..Len(queued[h]) : queued'[h][i] = queued[h][j]
    <3>1. CASE queued'[h] = queued[h]
      BY <3>1
    <3>2. CASE queued[h] # <<>> /\ queued'[h] = Tail(queued[h])
      BY <2>2, <3>2, SeqFacts, SMTT(30)
    <3> QED BY <2>3, <3>1, <3>2
  <2> QED BY <2>1, <2>3, <2>4 DEF LibraryInv, Empty
<1>9. ASSUME NEW g \in Gen, NEW ack \in BOOLEAN, BrokerConfirms(g, ack) PROVE LibraryInv'
  <2>1. inflight[g] # <<>> /\ inflight[g] \in Seq(Goroutines)
    BY <1>9, BrokerFacts DEF TypeOK
  <2>2. chanOpen[g] /\ ~(g > gen)
    BY <2>1 DEF LibraryInv, Empty
  <2>3. \A i \in 1..Len(queued'[g]) :
           queued'[g][i][2] => queued'[g][i][1] \in stored'
    <3>1. CASE queued'[g] = queued[g]
      BY <1>9, <3>1, BrokerFacts DEF LibraryInv
    <3>2. CASE queued'[g] = <<<<Head(inflight[g]), ack>>>>
      BY <1>9, <3>2, BrokerFacts
    <3> QED BY <1>9, <3>1, <3>2, BrokerFacts
  <2> QED BY <1>9, <2>2, <2>3, BrokerFacts DEF LibraryInv, Empty
<1>10. ASSUME NEW g \in Gen, ChannelClosed(g) PROVE LibraryInv'
  <2>1. /\ UNCHANGED <<queued, stored, gen>>
        /\ \A h \in Gen : \/ inflight'[h] = inflight[h] /\ (chanOpen[h] => chanOpen'[h])
                          \/ inflight'[h] = <<>>
    BY <1>10 DEF ChannelClosed, TypeOK
  <2> QED BY <1>0, <2>1, LibraryFrame
<1>11. ASSUME NEW t \in Goroutines, TryPublishReturns(t) PROVE LibraryInv'
  BY <1>1, <1>2, <1>11 DEF TryPublishReturns, TypeOK
<1>12. CASE Close \/ \E g \in Gen : ConnectionLost(g)
  BY <1>2, <1>12 DEF Close, ConnectionLost, TypeOK
<1>13. ASSUME NEW t \in Goroutines,
              \/ Retry(t) \/ Cancel(t) \/ Register(t) \/ Lock(t) \/ CheckOutstanding(t)
              \/ MarkOutstanding(t) \/ AwaitConfirmation(t) \/ AwaitFails(t) \/ Timeout(t)
       PROVE  LibraryInv'
  BY <1>1, <1>13 DEF Retry, Cancel, Register, Lock, CheckOutstanding, MarkOutstanding,
                     AwaitConfirmation, AwaitFails, Timeout
<1>14. CASE UNCHANGED vars
  BY <1>1, <1>14 DEF vars
<1> QED
  BY <1>3, <1>4, <1>5, <1>6, <1>7, <1>8, <1>9, <1>10, <1>11, <1>12, <1>13, <1>14
     DEF Next, Finished

\* StructStep: every step keeps what is known of the structure.
LEMMA StructStep == TypeOK /\ StructInv /\ [Next]_vars => StructInv'
BY MutexStep, SetupStep, LibraryStep DEF StructInv

-----------------------------------------------------------------------------
(* The messages, until a setup overlaps a tryPublish.                      *)

\* What is on the way only becomes less, or a message becomes its confirmation.
MovesOn ==
  \A g \in Gen :
    /\ Empty(g) => Empty(g)'
    /\ \A u \in Goroutines : Own(u, g) => Own(u, g)'
    /\ Len(inflight'[g]) + Len(queued'[g]) <= Len(inflight[g]) + Len(queued[g])

\* The labels of which the invariant says something about the messages.
Busy == {"open", "confirm", "register", "send", "mark", "await", "draining", "awaiting"}

\* MovesOnShut: so it is when connections or channels are closed, or nothing happens.
LEMMA MovesOnShut ==
  ASSUME TypeOK, UNCHANGED queued, \A h \in Gen : inflight'[h] \in {inflight[h], <<>>}
  PROVE  MovesOn
<1> SUFFICES ASSUME NEW g \in Gen
             PROVE  /\ Empty(g) => Empty(g)'
                    /\ \A u \in Goroutines : Own(u, g) => Own(u, g)'
                    /\ Len(inflight'[g]) + Len(queued'[g]) <= Len(inflight[g]) + Len(queued[g])
  BY DEF MovesOn
<1>1. Len(inflight[g]) \in Nat /\ Len(queued[g]) \in Nat
  BY SeqFacts DEF TypeOK
<1>2. CASE inflight'[g] = inflight[g]
  BY <1>1, <1>2 DEF Empty, Own
<1>3. CASE inflight'[g] = <<>>
  BY <1>1, <1>3 DEF Empty, Own
<1> QED BY <1>2, <1>3

\* MovesOnConfirmed: and when a confirmation is received.
LEMMA MovesOnConfirmed ==
  ASSUME TypeOK, NEW t \in Goroutines, AwaitConfirmed(t)
  PROVE  MovesOn
<1> SUFFICES ASSUME NEW g \in Gen
             PROVE  /\ Empty(g) => Empty(g)'
                    /\ \A u \in Goroutines : Own(u, g) => Own(u, g)'
                    /\ Len(inflight'[g]) + Len(queued'[g]) <= Len(inflight[g]) + Len(queued[g])
  BY DEF MovesOn
<1>1. Len(inflight[g]) \in Nat /\ Len(queued[g]) \in Nat /\ queued[g] \in Seq(Confirmation)
  BY SeqFacts DEF TypeOK
<1>2. UNCHANGED inflight
  BY ConfirmFacts
<1>3. CASE queued'[g] = queued[g]
  BY <1>1, <1>2, <1>3 DEF Empty, Own
<1>4. CASE queued[g] # <<>> /\ queued'[g] = Tail(queued[g])
  <2>1. Len(queued'[g]) = Len(queued[g]) - 1
    BY <1>1, <1>4, SeqFacts
  <2>2. \A i \in 1..Len(queued'[g]) :
           i + 1 \in 1..Len(queued[g]) /\ queued'[g][i] = queued[g][i + 1]
    BY <1>1, <1>4, SeqFacts
  <2>3. \A u \in Goroutines : Own(u, g) => Own(u, g)'
    BY <1>2, <2>2 DEF Own
  <2> QED BY <1>1, <1>2, <1>4, <2>1, <2>3 DEF Empty
<1> QED BY <1>3, <1>4, ConfirmFacts

\* MovesOnBroker: and when the broker confirms a message.
LEMMA MovesOnBroker ==
  ASSUME TypeOK, NEW b \in Gen, NEW ack \in BOOLEAN, BrokerConfirms(b, ack)
  PROVE  MovesOn
<1> SUFFICES ASSUME NEW g \in Gen
             PROVE  /\ Empty(g) => Empty(g)'
                    /\ \A u \in Goroutines : Own(u, g) => Own(u, g)'
                    /\ Len(inflight'[g]) + Len(queued'[g]) <= Len(inflight[g]) + Len(queued[g])
  BY DEF MovesOn
<1>1. /\ Len(inflight[g]) \in Nat /\ Len(queued[g]) \in Nat
      /\ inflight[g] \in Seq(Goroutines)
  BY SeqFacts DEF TypeOK
<1>2. CASE g # b
  <2>1. inflight'[g] = inflight[g] /\ queued'[g] = queued[g]
    BY <1>2, BrokerFacts
  <2> QED BY <1>1, <2>1 DEF Empty, Own
<1>3. CASE g = b
  <2>1. inflight[g] # <<>> /\ inflight'[g] = Tail(inflight[g])
    BY <1>3, BrokerFacts
  <2>2. /\ Len(inflight'[g]) = Len(inflight[g]) - 1
        /\ \A i \in 1..Len(inflight'[g]) :
             i + 1 \in 1..Len(inflight[g]) /\ inflight'[g][i] = inflight[g][i + 1]
    BY <1>1, <2>1, SeqFacts
  <2>3. 1 \in 1..Len(inflight[g]) /\ Head(inflight[g]) = inflight[g][1]
    BY <1>1, <2>1, SeqFacts
  <2>4. CASE queued'[g] = queued[g]
    <3>1. \A u \in Goroutines : Own(u, g) => Own(u, g)'
      BY <2>2, <2>4 DEF Own
    <3> QED BY <1>1, <2>1, <2>2, <2>4, <3>1 DEF Empty
  <2>5. CASE queued[g] = <<>> /\ queued'[g] = <<<<Head(inflight[g]), ack>>>>
    <3>1. Len(queued'[g]) = 1 /\ Len(queued[g]) = 0 /\ queued'[g][1][1] = inflight[g][1]
      BY <2>3, <2>5
    <3>2. \A u \in Goroutines : Own(u, g) => Own(u, g)'
      BY <2>2, <2>3, <3>1 DEF Own
    <3> QED BY <1>1, <2>1, <2>2, <3>1, <3>2 DEF Empty
  <2> QED BY <1>3, <2>4, <2>5, BrokerFacts
<1> QED BY <1>2, <1>3

\* SingleFrame: as messages move on there is at most one on a channel.
LEMMA SingleFrame == ASSUME TypeOK, TypeOK', SingleInv, MovesOn PROVE SingleInv'
<1> SUFFICES ASSUME NEW g \in Gen PROVE Len(inflight'[g]) + Len(queued'[g]) <= 1
  BY DEF SingleInv
<1>1. inflight[g] \in Seq(Goroutines) /\ inflight'[g] \in Seq(Goroutines)
  BY DEF TypeOK
<1>2. queued[g] \in Seq(Confirmation) /\ queued'[g] \in Seq(Confirmation)
  BY DEF TypeOK
<1>3. /\ Len(inflight[g]) \in Nat /\ Len(inflight'[g]) \in Nat
      /\ Len(queued[g]) \in Nat /\ Len(queued'[g]) \in Nat
  BY <1>1, <1>2, SeqFacts
<1>4. /\ Len(inflight[g]) + Len(queued[g]) <= 1
      /\ Len(inflight'[g]) + Len(queued'[g]) <= Len(inflight[g]) + Len(queued[g])
  BY DEF SingleInv, MovesOn
<1>5. \A a, b, c, d \in Nat : c + d <= a + b /\ a + b <= 1 => c + d <= 1
  OBVIOUS
<1> QED BY <1>3, <1>4, <1>5, Zenon

\* OwnFrame: as messages move on, what is on the way still concerns the same message.
LEMMA OwnFrame ==
  ASSUME TypeOK, MovesOn, NEW t \in Goroutines
  PROVE  /\ UNCHANGED channel /\ channel \in Gen /\ Own(t, channel) => Own(t, channel)'
         /\ UNCHANGED selConf /\ selConf[t] \in Gen /\ Own(t, selConf[t]) => Own(t, selConf[t])'
<1>1. ASSUME NEW g \in Gen, UNCHANGED channel, channel = g, Own(t, g) PROVE Own(t, channel)'
  <2>1. Own(t, g)'
    BY <1>1 DEF MovesOn
  <2> QED BY <1>1, <2>1 DEF Own
<1>2. ASSUME NEW g \in Gen, UNCHANGED selConf, selConf[t] = g, Own(t, g)
      PROVE  Own(t, selConf[t])'
  <2>1. Own(t, g)'
    BY <1>2 DEF MovesOn
  <2> QED BY <1>2, <2>1 DEF Own
<1> QED BY <1>1, <1>2

\* QuietStep: a step by which messages move on, and goroutines at most leave the labels
\* that matter, keeps the invariant.
LEMMA QuietStep ==
  ASSUME TypeOK, TypeOK', StructInv, MessageInv, MovesOn, Sound' => Sound,
         UNCHANGED <<conn, channel, hasOutstanding, selConf>>, outdated' \subseteq outdated,
         \A u \in Goroutines :
           \/ pc'[u] = pc[u] /\ (u \in outdated' <=> u \in outdated)
           \/ pc'[u] \notin Busy /\ pc[u] # "mark"
  PROVE  MessageInv'
<1>1. SingleInv'
  BY SingleFrame DEF MessageInv
<1>2. OpenedInv'
  <2> SUFFICES ASSUME NEW u \in Goroutines
               PROVE  /\ pc'[u] = "open" => Empty(conn)'
                      /\ pc'[u] \in {"confirm", "register"} => Empty(channel)'
    BY DEF OpenedInv
  <2>1. pc'[u] \in {"open", "confirm", "register"} => pc'[u] = pc[u]
    BY DEF Busy
  <2>2. pc[u] = "open" => conn \in Gen /\ Empty(conn)
    BY GenFacts DEF TypeOK, MessageInv, OpenedInv, StructInv, SetupInv
  <2>3. pc[u] \in {"confirm", "register"} => channel \in Gen /\ Empty(channel)
    BY GenFacts DEF TypeOK, MessageInv, OpenedInv, StructInv, SetupInv
  <2> QED BY <2>1, <2>2, <2>3 DEF MovesOn, Empty
<1>3. OutstandingInv'
  <2> SUFFICES ASSUME Sound'
               PROVE  /\ ~Empty(channel)' /\ ~hasOutstanding'
                           => \E t \in Goroutines \ outdated' : pc'[t] = "mark"
                      /\ \A t \in outdated' : pc'[t] \in {"draining", "awaiting"} => Empty(channel)'
    BY DEF OutstandingInv
  <2>1. channel \in Gen
    BY GenFacts DEF TypeOK, StructInv, SetupInv, Ready
  <2>2. Empty(channel) => Empty(channel)'
    BY <2>1 DEF MovesOn, Empty
  <2>3. \A t \in Goroutines \ outdated : pc[t] = "mark" => t \notin outdated' /\ pc'[t] = "mark"
    OBVIOUS
  <2>4. \A t \in outdated' : pc'[t] \in {"draining", "awaiting"} =>
                              t \in outdated /\ pc[t] \in {"draining", "awaiting"}
    BY DEF Busy, TypeOK
  <2> QED BY <2>2, <2>3, <2>4 DEF MessageInv, OutstandingInv
<1>4. BodyInv'
  <2> SUFFICES ASSUME NEW t \in Goroutines \ outdated', pc'[t] \in Busy
               PROVE  /\ pc'[t] = "send" => Empty(channel)'
                      /\ pc'[t] \in {"mark", "await"} => Own(t, channel)'
                      /\ pc'[t] \in {"draining", "awaiting"} => selConf'[t] = channel'
    BY DEF BodyInv, Busy
  <2>1. pc'[t] = pc[t] /\ t \notin outdated
    OBVIOUS
  <2>2. pc[t] \in Body => channel \in Gen
    BY <2>1, CurrentFacts DEF Current, StructInv
  <2>3. pc'[t] = "send" => Empty(channel)'
    BY <2>1, <2>2 DEF MovesOn, Empty, Body, MessageInv, BodyInv
  <2>4. ASSUME pc'[t] \in {"mark", "await"} PROVE Own(t, channel)'
    <3>1. channel \in Gen /\ Own(t, channel)
      BY <2>1, <2>2, <2>4 DEF Body, MessageInv, BodyInv
    <3> QED BY <3>1, OwnFrame
  <2>5. pc'[t] \in {"draining", "awaiting"} => selConf'[t] = channel'
    BY <2>1 DEF MessageInv, BodyInv
  <2> QED BY <2>3, <2>4, <2>5
<1>5. AwaitInv'
  <2> SUFFICES ASSUME NEW t \in Goroutines, pc'[t] = "awaiting", selConf[t] # 0
               PROVE  Own(t, selConf[t])'
    BY DEF AwaitInv
  <2>1. pc[t] = "awaiting" /\ selConf[t] \in Gen
    BY GenFacts DEF TypeOK, Busy
  <2>2. Own(t, selConf[t])
    BY <2>1 DEF MessageInv, AwaitInv
  <2> QED BY <2>1, <2>2, OwnFrame
<1> QED BY <1>1, <1>2, <1>3, <1>4, <1>5 DEF MessageInv

\* SetupMessages: while one goroutine sets the connection up nobody else relies on the
\* messages, and what a late select may receive has not changed.
LEMMA SetupMessages ==
  ASSUME TypeOK, TypeOK', MessageInv, MovesOn, ~Sound', OpenedInv', UNCHANGED selConf,
         NEW t \in Goroutines, outdated' = Goroutines \ {t},
         pc'[t] \in {"dial", "open", "confirm", "register", "retry"},
         \A u \in Goroutines \ {t} : pc'[u] = pc[u]
  PROVE  MessageInv'
<1>1. SingleInv'
  BY SingleFrame DEF MessageInv
<1>2. OutstandingInv' /\ BodyInv'
  BY DEF OutstandingInv, BodyInv
<1>3. AwaitInv'
  <2> SUFFICES ASSUME NEW u \in Goroutines, pc'[u] = "awaiting", selConf[u] # 0
               PROVE  Own(u, selConf[u])'
    BY DEF AwaitInv
  <2>1. pc[u] = "awaiting" /\ selConf[u] \in Gen
    BY GenFacts DEF TypeOK
  <2>2. Own(u, selConf[u])
    BY <2>1 DEF MessageInv, AwaitInv
  <2> QED BY <2>1, <2>2, OwnFrame
<1> QED BY <1>1, <1>2, <1>3 DEF MessageInv

\* EnsureMessages: ensureConnection keeps the invariant of the messages, whether it finds
\* a connection or begins a setup.
LEMMA EnsureMessages ==
  ASSUME TypeOK, TypeOK', StructInv, MessageInv, NEW t \in Goroutines, EnsureConnection(t)
  PROVE  MessageInv'
<1> USE DEF StructInv
<1>1. /\ UNCHANGED <<conn, channel, hasOutstanding, selConf, queued>> /\ pc[t] = "ensure"
      /\ \A u \in Goroutines \ {t} : pc'[u] = pc[u]
  BY DEF TypeOK, EnsureConnection, GoTo
<1>2. CASE /\ UNCHANGED broker /\ pc'[t] = "lock" /\ outdated' = outdated \ {t}
           /\ Sound' => Sound
  <2>1. MovesOn
    BY <1>2, MovesOnShut
  <2> QED BY <1>1, <1>2, <2>1, QuietStep DEF Busy
<1>3. CASE ~Sound' /\ CloseConn(conn) /\ pc'[t] = "dial" /\ outdated' = Goroutines \ {t}
  <2>1. MovesOn
    BY <1>1, <1>3, CloseConnShuts, MovesOnShut DEF TypeOK
  <2>2. \A u \in Goroutines : pc'[u] \notin {"open", "confirm", "register"}
    BY <1>1, <1>3, EnsureFacts, OneHolder DEF Setup
  <2> QED BY <1>1, <1>3, <2>1, <2>2, SetupMessages DEF OpenedInv
<1> QED BY <1>2, <1>3, EnsureFacts

\* DialMessages: a new connection has carried nothing (Dial).
LEMMA DialMessages ==
  ASSUME TypeOK, TypeOK', StructInv, MessageInv, NEW t \in Goroutines, Dial(t)
  PROVE  MessageInv'
<1> USE DEF StructInv
<1>1. /\ UNCHANGED <<selConf, broker, channel>> /\ pc[t] \in Setup
      /\ pc'[t] \in {"open", "retry"} /\ \A u \in Goroutines \ {t} : pc'[u] = pc[u]
      /\ pc'[t] = "open" => gen < MaxGen /\ gen' = gen + 1 /\ conn' = gen'
  BY DEF TypeOK, Dial, SetupFails, GoTo, Setup
<1>2. ~Sound' /\ outdated' = Goroutines \ {t}
  BY SetupFacts
<1>3. \A u \in Goroutines \ {t} : pc'[u] \notin Setup
  BY <1>1, OneHolder
<1>4. ASSUME pc'[t] = "open" PROVE Empty(conn)'
  <2>1. gen + 1 \in Gen /\ gen + 1 > gen
    BY <1>1, <1>4, GenFacts DEF TypeOK
  <2>2. Empty(gen + 1)
    BY <2>1 DEF LibraryInv
  <2> QED BY <1>1, <1>4, <2>2 DEF Empty
<1>5. OpenedInv'
  BY <1>1, <1>3, <1>4 DEF OpenedInv, Setup
<1> QED BY <1>1, <1>2, <1>5, MovesOnShut, SetupMessages

\* OpenMessages: nor has its channel (OpenChannel).
LEMMA OpenMessages ==
  ASSUME TypeOK, TypeOK', StructInv, MessageInv, NEW t \in Goroutines, OpenChannel(t)
  PROVE  MessageInv'
<1> USE DEF StructInv
<1>1. /\ UNCHANGED <<selConf, broker, conn>> /\ pc[t] = "open"
      /\ pc'[t] \in {"confirm", "retry"} /\ \A u \in Goroutines \ {t} : pc'[u] = pc[u]
      /\ pc'[t] = "confirm" => channel' = conn
  BY DEF TypeOK, OpenChannel, SetupFails, GoTo
<1>2. ~Sound' /\ outdated' = Goroutines \ {t}
  BY SetupFacts
<1>3. \A u \in Goroutines \ {t} : pc'[u] \notin Setup
  BY <1>1, OneHolder DEF Setup
<1>4. Empty(conn)
  BY <1>1 DEF MessageInv, OpenedInv
<1>5. OpenedInv'
  BY <1>1, <1>3, <1>4 DEF OpenedInv, Setup, Empty
<1> QED BY <1>1, <1>2, <1>5, MovesOnShut, SetupMessages

\* ConfirmMessages: confirm mode changes nothing on the way (Confirm).
LEMMA ConfirmMessages ==
  ASSUME TypeOK, TypeOK', StructInv, MessageInv, NEW t \in Goroutines, Confirm(t)
  PROVE  MessageInv'
<1> USE DEF StructInv
<1>1. /\ UNCHANGED <<selConf, queued, conn, channel>> /\ pc[t] = "confirm"
      /\ pc'[t] \in {"register", "retry"} /\ \A u \in Goroutines \ {t} : pc'[u] = pc[u]
  BY DEF TypeOK, Confirm, SetupFails, GoTo
<1>2. ~Sound' /\ outdated' = Goroutines \ {t}
  BY SetupFacts
<1>3. \A u \in Goroutines \ {t} : pc'[u] \notin Setup
  BY <1>1, OneHolder DEF Setup
<1>4. Empty(channel) /\ channel \in Gen
  BY <1>1, GenFacts DEF TypeOK, MessageInv, OpenedInv, SetupInv
<1>5. MovesOn
  <2>1. \A h \in Gen : inflight'[h] \in {inflight[h], <<>>}
    BY CloseConnShuts DEF TypeOK, Confirm
  <2> QED BY <1>1, <2>1, MovesOnShut
<1>6. OpenedInv'
  <2>1. Empty(channel)'
    BY <1>1, <1>4, <1>5 DEF MovesOn, Empty
  <2> QED BY <1>1, <1>3, <2>1 DEF OpenedInv, Setup
<1> QED BY <1>1, <1>2, <1>5, <1>6, SetupMessages

\* RegisterMessages: resetting hasOutstanding is right, for the channel is empty (Register).
LEMMA RegisterMessages ==
  ASSUME TypeOK, TypeOK', StructInv, MessageInv, NEW t \in Goroutines, Register(t)
  PROVE  MessageInv'
<1> USE DEF StructInv
<1>1. /\ UNCHANGED <<selConf, broker, conn, channel>> /\ pc[t] = "register"
      /\ pc'[t] = "lock" /\ outdated' = outdated \ {t}
      /\ \A u \in Goroutines \ {t} : pc'[u] = pc[u]
  BY DEF TypeOK, Register, GoTo
<1>2. outdated' = Goroutines \ {t}
  BY <1>1, SetupAlone DEF Setup
<1>3. \A u \in Goroutines : pc'[u] \notin Setup
  BY <1>1, OneHolder DEF Setup
<1>4. Empty(channel)'
  BY <1>1 DEF MessageInv, OpenedInv, Empty
<1>5. SingleInv' /\ OpenedInv' /\ OutstandingInv'
  BY <1>1, <1>3, <1>4 DEF MessageInv, SingleInv, OpenedInv, OutstandingInv, Setup
<1>6. BodyInv'
  BY <1>1, <1>2 DEF BodyInv
<1>7. AwaitInv'
  BY <1>1 DEF MessageInv, AwaitInv, Own
<1> QED BY <1>5, <1>6, <1>7 DEF MessageInv

\* SendMessages: a current goroutine sends on an empty channel (Send).
LEMMA SendMessages ==
  ASSUME TypeOK, TypeOK', StructInv, MessageInv, NEW t \in Goroutines, Send(t), ~overlap'
  PROVE  MessageInv' /\ channel # 0
<1> USE DEF StructInv
<1>1. /\ t \notin outdated /\ pc[t] = "send"
      /\ UNCHANGED <<fields, hasOutstanding, selects, queued, outdated>>
  BY DEF Send, UseFields
<1>2. Current(t) /\ Ready /\ channel \in Gen /\ connMu = {}
  BY <1>1, CurrentFacts DEF Current, Body
<1>3. Empty(channel) /\ channel # 0
  BY <1>1, <1>2, GenFacts DEF MessageInv, BodyInv
<1>4. Sound' => Sound
  BY OutsideFacts DEF Outside
<1>5. \A u \in Goroutines \ {t} : pc'[u] = pc[u]
  BY DEF TypeOK, Send, Leave, GoTo
<1>6. CASE UNCHANGED inflight /\ pc'[t] = "leave"
  <2>1. MovesOn
    BY <1>1, <1>6, MovesOnShut
  <2> QED BY <1>1, <1>3, <1>4, <1>5, <1>6, <2>1, QuietStep DEF Busy
<1>7. CASE /\ pc'[t] = "mark" /\ \A h \in Gen \ {channel} : inflight'[h] = inflight[h]
           /\ inflight'[channel] \in {<<>>, <<t>>}
  <2>1. \A u \in Goroutines \ {t} : pc'[u] \notin Setup \cup Body
    BY <1>1, <1>2, <1>5, OneHolder DEF Body
  <2>2. Len(inflight'[channel]) \in {0, 1} /\ Len(queued'[channel]) = 0
    <3>1. Len(<<>>) = 0 /\ Len(<<t>>) = 1
      OBVIOUS
    <3>2. queued'[channel] = <<>>
      BY <1>1, <1>3 DEF Empty
    <3> QED BY <1>7, <3>1, <3>2, Zenon
  <2>3. SingleInv'
    <3> SUFFICES ASSUME NEW g \in Gen PROVE Len(inflight'[g]) + Len(queued'[g]) <= 1
      BY DEF SingleInv
    <3>1. CASE g = channel
      <4>1. \A a \in {0, 1} : a + 0 <= 1
        OBVIOUS
      <4> QED BY <2>2, <3>1, <4>1, Zenon
    <3>2. CASE g # channel
      BY <1>1, <1>7, <3>2 DEF MessageInv, SingleInv
    <3> QED BY <3>1, <3>2
  <2>4. OpenedInv' /\ AwaitInv'
    BY <1>7, <2>1 DEF OpenedInv, AwaitInv, Setup, Body
  <2>5. OutstandingInv'
    <3>1. \E u \in Goroutines \ outdated' : pc'[u] = "mark"
      BY <1>1, <1>7
    <3>2. \A u \in outdated' : pc'[u] \notin {"draining", "awaiting"}
      BY <1>7, <2>1 DEF Body, TypeOK
    <3> QED BY <3>1, <3>2 DEF OutstandingInv
  <2>6. Own(t, channel)'
    BY <1>1, <1>3, <1>7 DEF Own, Empty
  <2>7. BodyInv'
    BY <1>7, <2>1, <2>6 DEF BodyInv, Body
  <2> QED BY <1>3, <2>3, <2>4, <2>5, <2>7 DEF MessageInv
<1>8. \/ UNCHANGED inflight /\ pc'[t] = "leave"
      \/ /\ pc'[t] = "mark" /\ \A h \in Gen \ {channel} : inflight'[h] = inflight[h]
         /\ inflight'[channel] \in {<<>>, <<t>>}
  <2>1. Append(<<>>, t) = <<t>>
    OBVIOUS
  <2> QED BY <1>2, <1>3, <2>1 DEF TypeOK, Send, Leave, GoTo, Empty
<1> QED BY <1>6, <1>7, <1>8

\* CheckMessages: hasOutstanding is believed only when it is right (CheckOutstanding).
LEMMA CheckMessages ==
  ASSUME TypeOK, TypeOK', StructInv, MessageInv, NEW t \in Goroutines, CheckOutstanding(t)
  PROVE  MessageInv'
<1> USE DEF StructInv
<1>1. /\ UNCHANGED <<fields, hasOutstanding, selects, broker, outdated, connMu>> /\ pc[t] = "check"
      /\ pc'[t] = IF hasOutstanding THEN "drain" ELSE "send"
      /\ \A u \in Goroutines \ {t} : pc'[u] = pc[u]
  BY DEF TypeOK, CheckOutstanding, GoTo
<1>2. Sound' => Sound
  BY OutsideFacts DEF Outside
<1>3. MovesOn
  BY <1>1, MovesOnShut
<1>4. CASE pc'[t] = "drain"
  BY <1>1, <1>2, <1>3, <1>4, QuietStep DEF Busy
<1>5. CASE pc'[t] = "send" /\ ~hasOutstanding
  <2>1. \A u \in Goroutines \ {t} : pc[u] \notin Body
    BY <1>1, OneHolder DEF Body
  <2>2. SingleInv' /\ OpenedInv'
    BY <1>1, <1>5 DEF MessageInv, SingleInv, OpenedInv, Empty
  <2>3. AwaitInv'
    BY <1>1, <1>5, <2>1 DEF AwaitInv, Body
  <2>4. OutstandingInv'
    <3>1. \A u \in Goroutines : pc[u] = "mark" => pc'[u] = "mark"
      BY <1>1
    <3>2. \A u \in Goroutines : pc'[u] \notin {"draining", "awaiting"}
      BY <1>5, <2>1, <1>1 DEF Body
    <3> QED BY <1>1, <1>2, <3>1, <3>2 DEF MessageInv, OutstandingInv, Empty, TypeOK
  <2>5. t \notin outdated => Empty(channel)
    <3> SUFFICES ASSUME t \notin outdated PROVE Empty(channel)
      OBVIOUS
    <3>1. Sound
      BY <1>1, CurrentFacts DEF Current, Body
    <3>2. \A u \in Goroutines : pc[u] # "mark"
      BY <1>1, <2>1 DEF Body
    <3> QED BY <1>5, <3>1, <3>2 DEF MessageInv, OutstandingInv
  <2>6. BodyInv'
    <3>1. \A u \in Goroutines \ {t} : pc'[u] \notin Body
      BY <1>1, <2>1
    <3> QED BY <1>1, <1>5, <2>5, <3>1 DEF BodyInv, Empty, Body
  <2> QED BY <2>2, <2>3, <2>4, <2>6 DEF MessageInv
<1> QED BY <1>1, <1>4, <1>5

\* MarkMessages: hasOutstanding is set for the message that was sent (MarkOutstanding).
LEMMA MarkMessages ==
  ASSUME TypeOK, TypeOK', StructInv, MessageInv, NEW t \in Goroutines, MarkOutstanding(t)
  PROVE  MessageInv'
<1> USE DEF StructInv
<1>1. /\ UNCHANGED <<fields, selects, broker, outdated, connMu>> /\ pc[t] = "mark"
      /\ pc'[t] = "await" /\ hasOutstanding'
      /\ \A u \in Goroutines \ {t} : pc'[u] = pc[u]
  BY DEF TypeOK, MarkOutstanding, GoTo
<1>2. \A u \in Goroutines \ {t} : pc'[u] \notin Body
  BY <1>1, OneHolder DEF Body
<1>3. SingleInv' /\ OpenedInv'
  BY <1>1 DEF MessageInv, SingleInv, OpenedInv, Empty
<1>4. AwaitInv'
  BY <1>1, <1>2 DEF AwaitInv, Body
<1>5. OutstandingInv'
  BY <1>1, <1>2 DEF OutstandingInv, Body, TypeOK
<1>6. t \notin outdated => Own(t, channel)'
  BY <1>1 DEF MessageInv, BodyInv, Own
<1>7. BodyInv'
  BY <1>1, <1>2, <1>6 DEF BodyInv, Body
<1> QED BY <1>3, <1>4, <1>5, <1>7 DEF MessageInv

\* AwaitMessages: a current goroutine selects the confirmations of the channel on which
\* it sends (AwaitConfirmation).
LEMMA AwaitMessages ==
  ASSUME TypeOK, TypeOK', StructInv, MessageInv, NEW t \in Goroutines,
         AwaitConfirmation(t), ~overlap'
  PROVE  MessageInv'
<1> USE DEF StructInv
<1>1. /\ UNCHANGED <<fields, hasOutstanding, broker, outdated, connMu>>
      /\ t \notin outdated /\ pc[t] \in {"drain", "await"}
      /\ pc'[t] = IF pc[t] = "drain" THEN "draining" ELSE "awaiting"
      /\ \A u \in Goroutines \ {t} : pc'[u] = pc[u]
      /\ selConf'[t] = confirmations
  BY DEF TypeOK, AwaitConfirmation, UseFields, GoTo
<1>2. Ready /\ channel \in Gen /\ connMu = {}
  BY <1>1, CurrentFacts DEF Current, Body
<1>3. \A u \in Goroutines \ {t} : pc'[u] \notin Body
  BY <1>1, OneHolder DEF Body
<1>4. Sound' => Sound
  BY OutsideFacts DEF Outside
<1>5. SingleInv' /\ OpenedInv'
  BY <1>1 DEF MessageInv, SingleInv, OpenedInv, Empty
<1>6. OutstandingInv'
  <2>1. \A u \in Goroutines : pc[u] = "mark" => pc'[u] = "mark"
    BY <1>1
  <2>2. \A u \in outdated' : pc'[u] \notin {"draining", "awaiting"}
    BY <1>1, <1>3 DEF Body, TypeOK
  <2> QED BY <1>1, <1>4, <2>1, <2>2 DEF MessageInv, OutstandingInv, Empty
<1>7. selConf'[t] = channel'
  BY <1>1, <1>2 DEF Ready
<1>8. BodyInv'
  BY <1>1, <1>3, <1>7 DEF BodyInv, Body
<1>9. AwaitInv'
  <2>1. pc[t] = "await" => Own(t, channel)
    BY <1>1 DEF MessageInv, BodyInv
  <2>2. pc'[t] = "awaiting" => Own(t, selConf[t])'
    BY <1>1, <1>7, <2>1 DEF Own
  <2> QED BY <1>3, <2>2 DEF AwaitInv, Body
<1> QED BY <1>5, <1>6, <1>8, <1>9 DEF MessageInv

\* ConfirmedMessages: when a confirmation is received nothing is left on the way, so that
\* resetting hasOutstanding is right (AwaitConfirmed).
LEMMA ConfirmedMessages ==
  ASSUME TypeOK, TypeOK', StructInv, MessageInv, NEW t \in Goroutines, AwaitConfirmed(t)
  PROVE  MessageInv'
<1> USE DEF StructInv
<1>1. /\ UNCHANGED <<fields, selects, inflight, outdated, connMu>>
      /\ pc[t] \in {"draining", "awaiting"} /\ pc'[t] \in {"send", "leave"}
      /\ \A u \in Goroutines \ {t} : pc'[u] = pc[u]
  BY DEF TypeOK, AwaitConfirmed, Leave, GoTo
<1>2. MovesOn
  BY MovesOnConfirmed
<1>3. Sound' => Sound
  BY OutsideFacts DEF Outside
<1>4. \A u \in Goroutines \ {t} : pc'[u] \notin Body
  BY <1>1, OneHolder DEF Body
<1>5. Sound => Empty(channel)'
  <2> SUFFICES ASSUME Sound PROVE Empty(channel)'
    OBVIOUS
  <2>0. channel \in Gen
    BY GenFacts DEF TypeOK, SetupInv, Ready
  <2>1. CASE t \in outdated
    <3>1. Empty(channel)
      BY <1>1, <2>1 DEF MessageInv, OutstandingInv
    <3> QED BY <1>1, <1>2, <2>0, <3>1 DEF MovesOn, Empty
  <2>2. CASE t \notin outdated
    <3>1. selConf[t] = channel
      BY <1>1, <2>2 DEF MessageInv, BodyInv
    <3>2. inflight[channel] \in Seq(Goroutines) /\ queued[channel] \in Seq(Confirmation)
      BY <2>0 DEF TypeOK
    <3>3. CASE queued[channel] # <<>> /\ queued'[channel] = Tail(queued[channel])
      <4>1. /\ Len(inflight[channel]) \in Nat /\ Len(queued[channel]) \in Nat
            /\ Len(queued[channel]) # 0
            /\ Tail(queued[channel]) \in Seq(Confirmation)
            /\ Len(Tail(queued[channel])) = Len(queued[channel]) - 1
        BY <3>2, <3>3, SeqFacts
      <4>2. Len(inflight[channel]) + Len(queued[channel]) <= 1
        BY <2>0 DEF MessageInv, SingleInv
      <4>3. Len(inflight[channel]) = 0 /\ Len(Tail(queued[channel])) = 0
        <5>1. \A a, b \in Nat : b # 0 /\ a + b <= 1 => a = 0 /\ b - 1 = 0
          OBVIOUS
        <5> QED BY <4>1, <4>2, <5>1, Zenon
      <4>4. inflight[channel] = <<>> /\ Tail(queued[channel]) = <<>>
        BY <3>2, <4>1, <4>3, SeqFacts
      <4> QED BY <1>1, <3>3, <4>4 DEF Empty
    <3>4. CASE queued'[channel] = <<>> /\ ~chanOpen[channel]
      BY <1>1, <2>0, <3>4 DEF LibraryInv, Empty
    <3> QED BY <3>1, <3>3, <3>4, ConfirmFacts
  <2> QED BY <2>1, <2>2
<1>6. SingleInv'
  BY <1>2, SingleFrame DEF MessageInv
<1>7. OpenedInv'
  <2> SUFFICES ASSUME NEW u \in Goroutines, pc[u] = pc'[u]
               PROVE  /\ pc'[u] = "open" => Empty(conn)'
                      /\ pc'[u] \in {"confirm", "register"} => Empty(channel)'
    BY <1>1 DEF OpenedInv
  <2>1. pc[u] = "open" => conn \in Gen /\ Empty(conn)
    BY GenFacts DEF TypeOK, MessageInv, OpenedInv, SetupInv
  <2>2. pc[u] \in {"confirm", "register"} => channel \in Gen /\ Empty(channel)
    BY GenFacts DEF TypeOK, MessageInv, OpenedInv, SetupInv
  <2> QED BY <1>1, <1>2, <2>1, <2>2 DEF MovesOn, Empty
<1>8. OutstandingInv'
  BY <1>3, <1>5 DEF OutstandingInv
<1>9. BodyInv'
  <2>1. t \notin outdated => Sound
    BY <1>1, CurrentFacts DEF Current, Body
  <2> QED BY <1>1, <1>4, <1>5, <2>1 DEF BodyInv, Body
<1>10. AwaitInv'
  BY <1>1, <1>4 DEF AwaitInv, Body
<1> QED BY <1>6, <1>7, <1>8, <1>9, <1>10 DEF MessageInv

\* MessageStep: every step keeps the invariant of the messages, until an outdated
\* goroutine uses the fields of a setup.
LEMMA MessageStep == TypeOK /\ StructInv /\ MI /\ [Next]_vars => MI'
<1> SUFFICES ASSUME TypeOK, StructInv, MI, [Next]_vars, ~overlap' PROVE MessageInv'
  BY DEF MI
<1>1. TypeOK'
  BY TypeStep
<1>2. ~overlap
  BY ZenonT(60)
     DEF Next, vars, Retry, Cancel, EnsureConnection, Dial, OpenChannel, Confirm, Register,
         Lock, CheckOutstanding, Send, MarkOutstanding, AwaitConfirmation, AwaitFails,
         AwaitConfirmed, TryPublishReturns, Timeout, Close, ConnectionLost, ChannelClosed,
         BrokerConfirms, Finished, UseFields
<1>3. MessageInv
  BY <1>2 DEF MI
<1>4. ASSUME NEW t \in Goroutines,
             \/ Retry(t) \/ Cancel(t) \/ Lock(t) \/ AwaitFails(t) \/ TryPublishReturns(t)
             \/ Timeout(t)
      PROVE  MessageInv'
  <2>1. /\ UNCHANGED <<fields, outdated>> /\ (Sound' => Sound)
    BY <1>4, OutsideFacts DEF Outside
  <2>2. /\ UNCHANGED <<hasOutstanding, selConf, queued>>
        /\ \A h \in Gen : inflight'[h] \in {inflight[h], <<>>}
    BY <1>4, CloseConnShuts
       DEF TypeOK, Retry, Cancel, Lock, AwaitFails, TryPublishReturns, Timeout
  <2>3. \A u \in Goroutines : pc'[u] = pc[u] \/ (pc'[u] \notin Busy /\ pc[u] # "mark")
    BY <1>4 DEF TypeOK, Busy, Retry, Cancel, Lock, AwaitFails, TryPublishReturns, Timeout,
                Leave, GoTo
  <2>4. MovesOn
    BY <2>2, MovesOnShut
  <2> QED BY <1>1, <1>3, <2>1, <2>2, <2>3, <2>4, QuietStep
<1>5. CASE Environment
  <2>1. /\ UNCHANGED <<fields, hasOutstanding, local, selects, outdated>>
        /\ Sound' => Sound
    BY <1>5, EnvironmentFacts
  <2>2. CASE \E g \in Gen, ack \in BOOLEAN : BrokerConfirms(g, ack)
    BY <1>1, <1>3, <2>1, <2>2, MovesOnBroker, QuietStep
  <2>3. CASE Close \/ \E g \in Gen : ConnectionLost(g) \/ ChannelClosed(g)
    <3>1. UNCHANGED queued /\ \A h \in Gen : inflight'[h] \in {inflight[h], <<>>}
      <4>1. ASSUME NEW g \in GenOrNil, CloseConn(g)
            PROVE  \A h \in Gen : inflight'[h] \in {inflight[h], <<>>}
        BY <4>1, CloseConnShuts
      <4>2. CASE Close \/ \E g \in Gen : ConnectionLost(g)
        BY <4>1, <4>2, GenFacts DEF TypeOK, Close, ConnectionLost
      <4>3. CASE \E g \in Gen : ChannelClosed(g)
        BY <4>3 DEF TypeOK, ChannelClosed
      <4> QED BY <2>3, <4>2, <4>3
    <3> QED BY <1>1, <1>3, <2>1, <3>1, MovesOnShut, QuietStep
  <2> QED BY <1>5, <2>2, <2>3 DEF Environment
<1>6. CASE UNCHANGED vars
  <2>1. Sound' => Sound
    BY <1>6 DEF vars, Sound, Connected, Current
  <2> QED BY <1>1, <1>3, <1>6, <2>1, MovesOnShut, QuietStep DEF vars
<1> QED
  BY <1>1, <1>3, <1>4, <1>5, <1>6, EnsureMessages, DialMessages, OpenMessages,
     ConfirmMessages, RegisterMessages, SendMessages, CheckMessages, MarkMessages,
     AwaitMessages, ConfirmedMessages
     DEF Next, Finished, Environment

\* MessagesHold: the invariants hold in every behaviour.
LEMMA MessagesHold == Spec => [](TypeOK /\ StructInv /\ MI)
<1>1. Init => TypeOK /\ StructInv /\ MI
  <2> SUFFICES ASSUME Init PROVE TypeOK /\ StructInv /\ MI
    OBVIOUS
  <2>1. TypeOK
    BY TypeInit
  <2>2. /\ \A g \in Gen : inflight[g] = <<>> /\ queued[g] = <<>>
        /\ \A t \in Goroutines : pc[t] = "retry"
    BY DEF Init
  <2>3. MutexInv
    BY <2>2 DEF Init, MutexInv, Setup, Body
  <2>4. ~Sound
    BY <2>2 DEF Init, Sound, Connected, Current, Body
  <2>5. SetupInv
    BY <2>2, <2>4 DEF Init, SetupInv
  <2>6. Len(<<>>) = 0 /\ 0 + 0 <= 1 /\ \A i : i \notin 1..0
    OBVIOUS
  <2>7. LibraryInv
    BY <2>2, <2>6, Zenon DEF LibraryInv, Empty
  <2>8. SingleInv
    BY <2>2, <2>6, Zenon DEF SingleInv
  <2>9. OpenedInv /\ OutstandingInv /\ BodyInv /\ AwaitInv
    BY <2>2, <2>4 DEF OpenedInv, OutstandingInv, BodyInv, AwaitInv
  <2> QED BY <2>1, <2>3, <2>5, <2>7, <2>8, <2>9 DEF StructInv, MI, MessageInv
<1> QED BY <1>1, TypeStep, StructStep, MessageStep, PTL DEF Spec

-----------------------------------------------------------------------------
(* The theorems.                                                           *)

\* AckIsStored: an ack that a select receives, unless a setup overlapped, is that of
\* the message of its own goroutine, and the broker gave it (AwaitConfirmed).
LEMMA AckIsStored ==
  ASSUME TypeOK, StructInv, MI, NEW t \in Goroutines, AwaitConfirmed(t)
  PROVE  /\ \A u \in Goroutines \ {t} : res'[u] = res[u]
         /\ res'[t] \in {res[t], "error"} \/ (res'[t] = "ok" /\ (overlap \/ t \in stored))
<1> DEFINE g == selConf[t]
<1>1. \A u \in Goroutines \ {t} : res'[u] = res[u]
  BY DEF TypeOK, AwaitConfirmed, Leave
<1>2. g \in Gen /\ g # 0
  BY ConfirmFacts, GenFacts
<1>3. \/ res'[t] \in {res[t], "error"}
      \/ res'[t] = "ok" /\ pc[t] = "awaiting" /\ queued[g] # <<>> /\ Head(queued[g])[2]
  BY DEF TypeOK, AwaitConfirmed, Leave, Accepts
<1>4. ASSUME ~overlap, pc[t] = "awaiting", queued[g] # <<>>, Head(queued[g])[2]
      PROVE  t \in stored
  <2>1. queued[g] \in Seq(Confirmation)
    BY <1>2 DEF TypeOK
  <2>2. 1 \in 1..Len(queued[g]) /\ Head(queued[g]) = queued[g][1]
    BY <1>4, <2>1, SeqFacts
  <2>3. Own(t, g)
    BY <1>2, <1>4 DEF MI, MessageInv, AwaitInv
  <2>4. queued[g][1][1] = t
    BY <2>2, <2>3 DEF Own
  <2>5. queued[g][1][2] => queued[g][1][1] \in stored
    BY <1>2, <2>2 DEF StructInv, LibraryInv
  <2> QED BY <1>4, <2>2, <2>4, <2>5
<1> QED BY <1>1, <1>3, <1>4, Zenon

\* ResultStep: no step makes a result wrong.
LEMMA ResultStep ==
  TypeOK /\ StructInv /\ MI /\ NoFalseAck /\ NoPanic /\ [Next]_vars
    => NoFalseAck' /\ NoPanic'
<1> SUFFICES ASSUME TypeOK, StructInv, MI, NoFalseAck, NoPanic, [Next]_vars
             PROVE  NoFalseAck' /\ NoPanic'
  OBVIOUS
<1>1. overlap => overlap'
  BY ZenonT(60)
     DEF Next, vars, Retry, Cancel, EnsureConnection, Dial, OpenChannel, Confirm, Register,
         Lock, CheckOutstanding, Send, MarkOutstanding, AwaitConfirmation, AwaitFails,
         AwaitConfirmed, TryPublishReturns, Timeout, Close, ConnectionLost, ChannelClosed,
         BrokerConfirms, Finished, UseFields
<1>2. stored \subseteq stored'
  BY BrokerFacts
     DEF Next, vars, Retry, Cancel, EnsureConnection, Dial, OpenChannel, Confirm, Register,
         Lock, CheckOutstanding, Send, MarkOutstanding, AwaitConfirmation, AwaitFails,
         AwaitConfirmed, TryPublishReturns, Timeout, Close, ConnectionLost, ChannelClosed,
         Finished
<1>3. ASSUME UNCHANGED res PROVE NoFalseAck' /\ NoPanic'
  BY <1>1, <1>2, <1>3 DEF NoFalseAck, NoPanic
<1>4. ASSUME NEW t \in Goroutines, \A u \in Goroutines \ {t} : res'[u] = res[u],
             res'[t] = "ok" => overlap' \/ t \in stored',
             res'[t] = "panic" => overlap'
      PROVE  NoFalseAck' /\ NoPanic'
  BY <1>1, <1>2, <1>4 DEF NoFalseAck, NoPanic
<1>5. ASSUME NEW t \in Goroutines, Retry(t) PROVE NoFalseAck' /\ NoPanic'
  BY <1>3, <1>4, <1>5 DEF TypeOK, Retry
<1>6. ASSUME NEW t \in Goroutines, AwaitFails(t) PROVE NoFalseAck' /\ NoPanic'
  BY <1>4, <1>6 DEF TypeOK, AwaitFails, Leave
<1>7. ASSUME NEW t \in Goroutines, Send(t) PROVE NoFalseAck' /\ NoPanic'
  <2>1. channel = 0 => overlap'
    BY <1>7, TypeStep, SendMessages, <1>1 DEF MI
  <2>2. \/ UNCHANGED res
        \/ /\ \A u \in Goroutines \ {t} : res'[u] = res[u]
           /\ res'[t] = "error" \/ (res'[t] = "panic" /\ channel = 0)
    BY <1>7 DEF TypeOK, Send, Leave
  <2> QED BY <1>3, <1>4, <2>1, <2>2
<1>8. ASSUME NEW t \in Goroutines, AwaitConfirmed(t) PROVE NoFalseAck' /\ NoPanic'
  <2>1. /\ \A u \in Goroutines \ {t} : res'[u] = res[u]
        /\ res'[t] \in {res[t], "error"} \/ (res'[t] = "ok" /\ (overlap \/ t \in stored))
    BY <1>8, AckIsStored
  <2>2. /\ res[t] = "ok" => overlap \/ t \in stored
        /\ res[t] = "panic" => overlap
    BY DEF NoFalseAck, NoPanic
  <2> QED BY <1>1, <1>2, <1>4, <2>1, <2>2
<1> QED
  BY <1>3, <1>5, <1>6, <1>7, <1>8
     DEF Next, vars, Cancel, EnsureConnection, Dial, OpenChannel, Confirm, Register, Lock,
         CheckOutstanding, MarkOutstanding, AwaitConfirmation, TryPublishReturns, Timeout,
         Close, ConnectionLost, ChannelClosed, BrokerConfirms, Finished

\* ResultsHold: results are right in every behaviour.
LEMMA ResultsHold == Spec => [](NoFalseAck /\ NoPanic)
<1>1. Init => NoFalseAck /\ NoPanic
  BY DEF Init, NoFalseAck, NoPanic
<1> QED BY <1>1, MessagesHold, ResultStep, PTL DEF Spec

\* NoMessageLost: Publish returns nil only for a message that the broker has acknowledged,
\* for any number of callers, connections and faults, until a setup of the connection
\* overlaps a tryPublish (NoFalseAck).
THEOREM NoMessageLost == Spec => []NoFalseAck
BY ResultsHold, PTL

\* NoNilChannel: until then a nil channel is never used either (NoPanic).
THEOREM NoNilChannel == Spec => []NoPanic
BY ResultsHold, PTL

\* NeverTwoOutstanding: until then the current channel carries at most one message or
\* confirmation, so that the library's reader cannot block (OneOutstanding).
THEOREM NeverTwoOutstanding == Spec => []OneOutstanding
<1>1. TypeOK /\ MI => OneOutstanding
  BY GenFacts DEF TypeOK, MI, MessageInv, SingleInv, OneOutstanding
<1> QED BY <1>1, MessagesHold, PTL
=============================================================================
