----------------------------- MODULE Publisher -----------------------------
(***************************************************************************)
(* The publisher of log messages (internal/rabbitmq/rabbitmq.go): several  *)
(* goroutines publish through one AMQP connection, each waiting for the    *)
(* broker's confirmation of its message and trying again until it has it   *)
(* or its context is cancelled.                                            *)
(*                                                                         *)
(* Two mutexes: connMu guards the setup of the connection (ensureConnec-   *)
(* tion, Close) and publishMu the sending of a message (tryPublish). The   *)
(* fields that a setup assigns are read under publishMu only, so a setup   *)
(* may run in the middle of a tryPublish. Every access to a shared field   *)
(* is a step of its own where another goroutine can tell the difference.   *)
(*                                                                         *)
(* Each goroutine publishes one message, named after it. Connections are   *)
(* numbered; connection g has one channel, also called g, and 0 is nil.    *)
(* The AMQP library and the broker are external.                           *)
(***************************************************************************)
EXTENDS Integers, Sequences

CONSTANTS
  Goroutines,  \* the callers of Publish
  FaultKinds,  \* which faults the broker shows, of AllFaults
  MaxGen,      \* bound on connections; then the broker is unreachable
  MaxFaults    \* bound on faults

AllFaults == {"dial", "open", "confirm", "connection", "channel", "nack",
              "close", "cancel"}

ASSUME PublisherAssumption ==
  /\ FaultKinds \subseteq AllFaults
  /\ MaxGen \in Nat
  /\ MaxFaults \in Nat

Gen == 1..MaxGen
GenOrNil == 0..MaxGen

VARIABLES
  \* The fields of Publisher:
  conn,           \* p.conn
  channel,        \* p.channel
  connClosures,   \* p.connClosures: of this connection
  chanClosures,   \* p.chanClosures: of this channel
  confirmations,  \* p.confirmations: of this channel
  hasOutstanding,
  connMu,         \* the goroutines that hold connMu, at most one
  publishMu,      \* the goroutines that hold publishMu, at most one
  \* Per goroutine:
  pc,
  res,            \* what tryPublish is about to return
  cancelled,      \* the caller's context is done
  timedOut,       \* the 10 s of this tryPublish are over
  selConn, selChan, selConf,  \* the channels its select waits on
  \* The AMQP library and the broker, per connection:
  gen,            \* connections made so far
  connOpen, chanOpen,
  confirming,     \* the channel is in confirm mode
  listening,      \* NotifyPublish has registered confirmations
  inflight,       \* messages the broker has not confirmed, oldest first
  queued,         \* confirmations in the Go channel, which has room for one
  \* Observation:
  stored,         \* messages the broker has acknowledged
  faults,
  outdated,       \* goroutines behind whose back a setup has begun
  overlap         \* such a goroutine has used the fields of the setup

fields  == <<conn, channel, connClosures, chanClosures, confirmations>>
mutexes == <<connMu, publishMu>>
local   == <<pc, res, cancelled, timedOut>>
selects == <<selConn, selChan, selConf>>
library == <<gen, connOpen, chanOpen, confirming, listening>>
broker  == <<inflight, queued, stored>>
vars == <<fields, hasOutstanding, mutexes, local, selects, library, broker,
          faults, outdated, overlap>>

PC == {"retry", "ensure", "dial", "open", "confirm", "register", "lock",
       "check", "drain", "draining", "send", "mark", "await", "awaiting",
       "leave", "done"}
Result == {"none", "ok", "error", "panic", "cancelled"}
\* A confirmation: for which message, and ack or nack.
Confirmation == Goroutines \X BOOLEAN

TypeOK ==
  /\ conn \in GenOrNil /\ channel \in GenOrNil
  /\ connClosures \in GenOrNil /\ chanClosures \in GenOrNil
  /\ confirmations \in GenOrNil
  /\ hasOutstanding \in BOOLEAN
  /\ connMu \subseteq Goroutines /\ \A t, u \in connMu : t = u
  /\ publishMu \subseteq Goroutines /\ \A t, u \in publishMu : t = u
  /\ pc \in [Goroutines -> PC]
  /\ res \in [Goroutines -> Result]
  /\ cancelled \in [Goroutines -> BOOLEAN]
  /\ timedOut \in [Goroutines -> BOOLEAN]
  /\ selConn \in [Goroutines -> GenOrNil]
  /\ selChan \in [Goroutines -> GenOrNil]
  /\ selConf \in [Goroutines -> GenOrNil]
  /\ gen \in GenOrNil
  /\ connOpen \in [Gen -> BOOLEAN] /\ chanOpen \in [Gen -> BOOLEAN]
  /\ confirming \in [Gen -> BOOLEAN] /\ listening \in [Gen -> BOOLEAN]
  /\ inflight \in [Gen -> Seq(Goroutines)]
  /\ queued \in [Gen -> Seq(Confirmation)]
  /\ stored \subseteq Goroutines
  /\ faults \in 0..MaxFaults
  /\ outdated \subseteq Goroutines
  /\ overlap \in BOOLEAN

Init ==
  /\ conn = 0 /\ channel = 0
  /\ connClosures = 0 /\ chanClosures = 0 /\ confirmations = 0
  /\ hasOutstanding = FALSE
  /\ connMu = {} /\ publishMu = {}
  /\ pc = [t \in Goroutines |-> "retry"]
  /\ res = [t \in Goroutines |-> "none"]
  /\ cancelled = [t \in Goroutines |-> FALSE]
  /\ timedOut = [t \in Goroutines |-> FALSE]
  /\ selConn = [t \in Goroutines |-> 0]
  /\ selChan = [t \in Goroutines |-> 0]
  /\ selConf = [t \in Goroutines |-> 0]
  /\ gen = 0
  /\ connOpen = [g \in Gen |-> FALSE] /\ chanOpen = [g \in Gen |-> FALSE]
  /\ confirming = [g \in Gen |-> FALSE] /\ listening = [g \in Gen |-> FALSE]
  /\ inflight = [g \in Gen |-> <<>>] /\ queued = [g \in Gen |-> <<>>]
  /\ stored = {}
  /\ faults = 0
  /\ outdated = {} /\ overlap = FALSE

Fault(kind) == kind \in FaultKinds /\ faults < MaxFaults /\ faults' = faults + 1
GoTo(t, label) == pc' = [pc EXCEPT ![t] = label]

\* Closing a connection closes its channel and every notification channel. What
\* the broker has not confirmed then never is.
CloseConn(g) ==
  /\ connOpen' = IF g = 0 THEN connOpen ELSE [connOpen EXCEPT ![g] = FALSE]
  /\ chanOpen' = IF g = 0 THEN chanOpen ELSE [chanOpen EXCEPT ![g] = FALSE]
  /\ inflight' = IF g = 0 THEN inflight ELSE [inflight EXCEPT ![g] = <<>>]

\* A goroutine uses the fields of a setup.
UseFields(t) == overlap' = (overlap \/ t \in outdated)

-----------------------------------------------------------------------------
(* Publish: the loop of retry.Do. Its backoff ends early if the context is *)
(* cancelled.                                                              *)

\* Mutant: an error is retried whatever the context.
RetryForever(t) ==
  /\ pc[t] = "retry"
  /\ GoTo(t, "ensure")
  /\ UNCHANGED <<fields, hasOutstanding, mutexes, res, cancelled, timedOut, selects,
                 library, broker, faults, outdated, overlap>>

Retry(t) ==
  /\ pc[t] = "retry"
  /\ IF cancelled[t]
     THEN GoTo(t, "done") /\ res' = [res EXCEPT ![t] = "cancelled"]
     ELSE GoTo(t, "ensure") /\ UNCHANGED res
  /\ UNCHANGED <<fields, hasOutstanding, mutexes, cancelled, timedOut, selects,
                 library, broker, faults, outdated, overlap>>

\* The caller's context is cancelled.
Cancel(t) ==
  /\ pc[t] # "done" /\ ~cancelled[t]
  /\ Fault("cancel")
  /\ cancelled' = [cancelled EXCEPT ![t] = TRUE]
  /\ UNCHANGED <<fields, hasOutstanding, mutexes, pc, res, timedOut, selects,
                 library, broker, outdated, overlap>>

-----------------------------------------------------------------------------
(* ensureConnection.                                                       *)

\* Mutant: a channel that could not be opened is not noticed.
ConnectedIgnoresChannel == conn # 0 /\ connOpen[conn]

Connected == conn # 0 /\ channel # 0 /\ connOpen[conn]

EnsureConnection(t) ==
  /\ pc[t] = "ensure" /\ connMu = {}
  /\ \/ /\ Connected
        /\ GoTo(t, "lock")
        /\ outdated' = outdated \ {t}
        /\ UNCHANGED <<connMu, connOpen, chanOpen, inflight>>
     \/ /\ ~Connected
        /\ connMu' = {t}
        /\ CloseConn(conn)
        /\ GoTo(t, "dial")
        /\ outdated' = Goroutines \ {t}
  /\ UNCHANGED <<fields, hasOutstanding, publishMu, res, cancelled, timedOut, selects,
                 gen, confirming, listening, queued, stored, faults, overlap>>

\* A step of the setup fails: ensureConnection and tryPublish return.
SetupFails(t) == connMu' = {} /\ GoTo(t, "retry")

Dial(t) ==
  /\ pc[t] = "dial"
  /\ \/ /\ gen < MaxGen
        /\ gen' = gen + 1
        /\ conn' = gen' /\ connClosures' = gen'
        /\ connOpen' = [connOpen EXCEPT ![gen'] = TRUE]
        /\ GoTo(t, "open")
        /\ UNCHANGED <<connMu, faults>>
     \/ /\ IF gen = MaxGen THEN UNCHANGED faults ELSE Fault("dial")
        /\ conn' = 0
        /\ SetupFails(t)
        /\ UNCHANGED <<gen, connClosures, connOpen>>
  /\ UNCHANGED <<channel, chanClosures, confirmations, hasOutstanding, publishMu, res,
                 cancelled, timedOut, selects, chanOpen, confirming, listening,
                 broker, outdated, overlap>>

OpenChannel(t) ==
  /\ pc[t] = "open"
  /\ \/ /\ connOpen[conn]
        /\ channel' = conn
        /\ chanOpen' = [chanOpen EXCEPT ![conn] = TRUE]
        /\ GoTo(t, "confirm")
        /\ UNCHANGED <<connMu, faults>>
     \/ /\ IF connOpen[conn] THEN Fault("open") ELSE UNCHANGED faults
        /\ channel' = 0
        /\ SetupFails(t)
        /\ UNCHANGED chanOpen
  /\ UNCHANGED <<conn, connClosures, chanClosures, confirmations, hasOutstanding,
                 publishMu, res, cancelled, timedOut, selects, gen, connOpen,
                 confirming, listening, broker, outdated, overlap>>

\* channel.Confirm. If it fails the connection is closed, so that the next
\* ensureConnection does not take it for one that is set up.
Confirm(t) ==
  /\ pc[t] = "confirm"
  /\ \/ /\ chanOpen[channel]
        /\ confirming' = [confirming EXCEPT ![channel] = TRUE]
        /\ GoTo(t, "register")
        /\ UNCHANGED <<connMu, connOpen, chanOpen, inflight, faults>>
     \/ /\ IF chanOpen[channel] THEN Fault("confirm") ELSE UNCHANGED faults
        /\ CloseConn(conn)
        /\ SetupFails(t)
        /\ UNCHANGED confirming
  /\ UNCHANGED <<fields, hasOutstanding, publishMu, res, cancelled, timedOut, selects,
                 gen, listening, queued, stored, outdated, overlap>>

\* hasOutstanding is reset and the notification channels are registered.
Register(t) ==
  /\ pc[t] = "register"
  /\ hasOutstanding' = FALSE
  /\ chanClosures' = channel /\ confirmations' = channel
  /\ listening' = [listening EXCEPT ![channel] = TRUE]
  /\ connMu' = {}
  /\ outdated' = outdated \ {t}
  /\ GoTo(t, "lock")
  /\ UNCHANGED <<conn, channel, connClosures, publishMu, res, cancelled, timedOut,
                 selects, gen, connOpen, chanOpen, confirming, broker, faults, overlap>>

-----------------------------------------------------------------------------
(* tryPublish, once the connection is there.                               *)

\* Mutant: publishing is not serialized.
LockMissing(t) ==
  /\ pc[t] = "lock"
  /\ publishMu' = publishMu \cup {t}
  /\ GoTo(t, "check")
  /\ UNCHANGED <<fields, hasOutstanding, connMu, res, cancelled, timedOut, selects,
                 library, broker, faults, outdated, overlap>>

Lock(t) ==
  /\ pc[t] = "lock" /\ publishMu = {}
  /\ publishMu' = {t}
  /\ GoTo(t, "check")
  /\ UNCHANGED <<fields, hasOutstanding, connMu, res, cancelled, timedOut, selects,
                 library, broker, faults, outdated, overlap>>

\* Is the confirmation of an earlier message still to come?
CheckOutstanding(t) ==
  /\ pc[t] = "check"
  /\ GoTo(t, IF hasOutstanding THEN "drain" ELSE "send")
  /\ UNCHANGED <<fields, hasOutstanding, mutexes, res, cancelled, timedOut, selects,
                 library, broker, faults, outdated, overlap>>

\* The body of tryPublish is over, with this result.
Leave(t, result) == GoTo(t, "leave") /\ res' = [res EXCEPT ![t] = result]

\* channel.Publish: a nil channel panics, a closed one is an error.
Send(t) ==
  /\ pc[t] = "send"
  /\ UseFields(t)
  /\ \/ /\ channel = 0
        /\ Leave(t, "panic") /\ UNCHANGED inflight
     \/ /\ channel # 0 /\ ~chanOpen[channel]
        /\ Leave(t, "error") /\ UNCHANGED inflight
     \/ /\ channel # 0 /\ chanOpen[channel]
        /\ inflight' = IF confirming[channel]
                       THEN [inflight EXCEPT ![channel] = Append(@, t)] ELSE inflight
        /\ GoTo(t, "mark") /\ UNCHANGED res
  /\ UNCHANGED <<fields, hasOutstanding, mutexes, cancelled, timedOut, selects,
                 library, queued, stored, faults, outdated>>

MarkOutstanding(t) ==
  /\ pc[t] = "mark"
  /\ hasOutstanding' = TRUE
  /\ GoTo(t, "await")
  /\ UNCHANGED <<fields, mutexes, res, cancelled, timedOut, selects, library, broker,
                 faults, outdated, overlap>>

\* awaitConfirmation enters its select, which reads the fields once.
AwaitConfirmation(t) ==
  /\ pc[t] \in {"drain", "await"}
  /\ UseFields(t)
  /\ selConn' = [selConn EXCEPT ![t] = connClosures]
  /\ selChan' = [selChan EXCEPT ![t] = chanClosures]
  /\ selConf' = [selConf EXCEPT ![t] = confirmations]
  /\ GoTo(t, IF pc[t] = "drain" THEN "draining" ELSE "awaiting")
  /\ UNCHANGED <<fields, hasOutstanding, mutexes, res, cancelled, timedOut, library,
                 broker, faults, outdated>>

\* The select sees that the connection or the channel is closed, or that the
\* context is done.
AwaitFails(t) ==
  /\ pc[t] \in {"draining", "awaiting"}
  /\ \/ selConn[t] # 0 /\ ~connOpen[selConn[t]]
     \/ selChan[t] # 0 /\ ~chanOpen[selChan[t]]
     \/ timedOut[t] \/ cancelled[t]
  /\ Leave(t, "error")
  /\ UNCHANGED <<fields, hasOutstanding, mutexes, cancelled, timedOut, selects, library,
                 broker, faults, outdated, overlap>>

\* Mutant: a nack is taken for an ack.
AcceptsAny(ack) == TRUE

Accepts(ack) == ack

\* The select receives a confirmation. A closed channel without one gives the
\* zero value, which is not an ack.
AwaitConfirmed(t) ==
  /\ pc[t] \in {"draining", "awaiting"} /\ selConf[t] # 0
  /\ LET g == selConf[t] IN
     \E ack \in BOOLEAN :
       /\ \/ /\ queued[g] # <<>> /\ ack = Head(queued[g])[2]
             /\ queued' = [queued EXCEPT ![g] = Tail(@)]
          \/ /\ queued[g] = <<>> /\ ~chanOpen[g] /\ ack = FALSE
             /\ UNCHANGED queued
       /\ IF pc[t] = "draining"
          THEN GoTo(t, "send") /\ UNCHANGED res
          ELSE Leave(t, IF Accepts(ack) THEN "ok" ELSE "error")
  /\ hasOutstanding' = FALSE
  /\ UNCHANGED <<fields, mutexes, cancelled, timedOut, selects, library, inflight,
                 stored, faults, outdated, overlap>>

\* The deferred calls, CloseOnTimeout and the release of publishMu, and what
\* Publish makes of the result.
TryPublishReturns(t) ==
  /\ pc[t] = "leave"
  /\ \/ /\ timedOut[t] \/ cancelled[t]
        /\ connMu = {}
        /\ CloseConn(conn)
     \/ /\ ~timedOut[t] /\ ~cancelled[t]
        /\ UNCHANGED <<connOpen, chanOpen, inflight>>
  /\ publishMu' = publishMu \ {t}
  /\ timedOut' = [timedOut EXCEPT ![t] = FALSE]
  /\ GoTo(t, IF res[t] = "error" THEN "retry" ELSE "done")
  /\ UNCHANGED <<fields, hasOutstanding, connMu, res, cancelled, selects, gen,
                 confirming, listening, queued, stored, faults, outdated, overlap>>

\* The 10 s of the context are over, whatever the broker has done meanwhile. Nobody
\* looks at the context elsewhere.
Timeout(t) ==
  /\ pc[t] \in {"draining", "awaiting", "leave"} /\ ~timedOut[t]
  /\ timedOut' = [timedOut EXCEPT ![t] = TRUE]
  /\ UNCHANGED <<fields, hasOutstanding, mutexes, pc, res, cancelled, selects, library,
                 broker, faults, outdated, overlap>>

-----------------------------------------------------------------------------
(* Close, the AMQP library and the broker.                                 *)

Close ==
  /\ connMu = {} /\ conn # 0
  /\ Fault("close")
  /\ CloseConn(conn)
  /\ UNCHANGED <<fields, hasOutstanding, mutexes, local, selects, gen, confirming,
                 listening, queued, stored, outdated, overlap>>

ConnectionLost(g) ==
  /\ connOpen[g]
  /\ Fault("connection")
  /\ CloseConn(g)
  /\ UNCHANGED <<fields, hasOutstanding, mutexes, local, selects, gen, confirming,
                 listening, queued, stored, outdated, overlap>>

\* The broker closes the channel and leaves the connection open.
ChannelClosed(g) ==
  /\ chanOpen[g]
  /\ Fault("channel")
  /\ chanOpen' = [chanOpen EXCEPT ![g] = FALSE]
  /\ inflight' = [inflight EXCEPT ![g] = <<>>]
  /\ UNCHANGED <<fields, hasOutstanding, mutexes, local, selects, gen, connOpen,
                 confirming, listening, queued, stored, outdated, overlap>>

\* The broker confirms the oldest message. The library drops the confirmation
\* if nobody listens, and waits while there is no room for it.
BrokerConfirms(g, ack) ==
  /\ inflight[g] # <<>>
  /\ listening[g] => queued[g] = <<>>
  /\ IF ack THEN UNCHANGED faults ELSE Fault("nack")
  /\ inflight' = [inflight EXCEPT ![g] = Tail(@)]
  /\ queued' = IF listening[g]
               THEN [queued EXCEPT ![g] = <<<<Head(inflight[g]), ack>>>>] ELSE queued
  /\ stored' = IF ack THEN stored \cup {Head(inflight[g])} ELSE stored
  /\ UNCHANGED <<fields, hasOutstanding, mutexes, local, selects, library, outdated,
                 overlap>>

-----------------------------------------------------------------------------
\* The steps that wait for a mutex, and the others.
Acquire(t) == EnsureConnection(t) \/ Lock(t) \/ TryPublishReturns(t)
Proceed(t) ==
  \/ Retry(t) \/ Dial(t) \/ OpenChannel(t) \/ Confirm(t) \/ Register(t)
  \/ CheckOutstanding(t) \/ Send(t) \/ MarkOutstanding(t) \/ AwaitConfirmation(t)
  \/ AwaitFails(t) \/ AwaitConfirmed(t)

Finished ==
  /\ \A t \in Goroutines : pc[t] = "done"
  /\ UNCHANGED vars

Next ==
  \/ \E t \in Goroutines :
       \/ Retry(t) \/ Cancel(t) \/ EnsureConnection(t) \/ Dial(t) \/ OpenChannel(t)
       \/ Confirm(t) \/ Register(t) \/ Lock(t) \/ CheckOutstanding(t) \/ Send(t)
       \/ MarkOutstanding(t) \/ AwaitConfirmation(t) \/ AwaitFails(t)
       \/ AwaitConfirmed(t) \/ TryPublishReturns(t) \/ Timeout(t)
  \/ Close
  \/ \E g \in Gen :
       \/ ConnectionLost(g) \/ ChannelClosed(g)
       \/ \E ack \in BOOLEAN : BrokerConfirms(g, ack)
  \/ Finished

Spec == Init /\ [][Next]_vars

\* Goroutines run and timers fire; the broker need not do anything. Go's mutexes
\* hand over to a waiter that starves, hence SF for a step that needs one.
Fairness ==
  \A t \in Goroutines :
    WF_vars(Proceed(t)) /\ SF_vars(Acquire(t)) /\ WF_vars(Timeout(t))

FairSpec == Spec /\ Fairness

-----------------------------------------------------------------------------
(* Properties.                                                             *)

\* NoFalseAck: Publish returns nil only for a message that the broker has
\* acknowledged, unless a setup of the connection overlapped a tryPublish: the
\* drain of old confirmations and hasOutstanding keep messages apart.
NoFalseAck == \A t \in Goroutines : res[t] = "ok" => t \in stored \/ overlap

\* StrictNoFalseAck: what rabbitmq.go:40 says of concurrent callers, without
\* the exception.
StrictNoFalseAck == \A t \in Goroutines : res[t] = "ok" => t \in stored

\* OneOutstanding: at most one message of the current channel is unconfirmed or
\* has its confirmation queued, unless a setup overlapped a tryPublish; a second
\* one could block the library's reader, as rabbitmq.go:180 warns.
OneOutstanding ==
  channel # 0 => overlap \/ Len(inflight[channel]) + Len(queued[channel]) <= 1

\* NoPanic: a nil channel is never used, unless a setup overlapped.
NoPanic == \A t \in Goroutines : res[t] = "panic" => overlap

\* Interruptible: cancelling the context makes Publish return, whatever the
\* broker, the connection and the other goroutines do, even if publishMu is held
\* by one that waits for a confirmation that never comes (rabbitmq.go:65, :170).
Interruptible == \A t \in Goroutines : cancelled[t] ~> pc[t] = "done"
=============================================================================
