---------------------------- MODULE EventStream ----------------------------
(***************************************************************************)
(* The v2alpha event stream: one client that follows the events of a test  *)
(* run over Server-Sent Events, reconnecting with Last-Event-ID, and the   *)
(* server side of each of its connections.                                 *)
(*                                                                         *)
(*   GetEvents   the HTTP handler       pkg/sse/v2alpha/sse.go             *)
(*   subscribe   its goroutine          pkg/sse/v2alpha/sse.go             *)
(*   consumer    the RabbitMQ callback  internal/stream/rabbitmq.go        *)
(*   the stream itself (an append-only log with retention) and the client  *)
(*   are external: they are modelled from how this code uses them.         *)
(*                                                                         *)
(* A rendezvous on an unbuffered Go channel is one action of both sides.   *)
(* Writing an event and the client reading it is one action too: an event  *)
(* that is lost on the way is an event written after the connection broke. *)
(* A client that keeps its connection and does not read from it any more   *)
(* (it hangs, or the network swallows what it is sent) is away as well; as *)
(* long as the server is not told, the connection is stalled, and a write  *)
(* to it may block.                                                        *)
(***************************************************************************)
EXTENDS Integers, Sequences, Functions

CONSTANTS
  Conns,       \* the connections that may be open on the server at once
  NoConn,      \* "the client has no connection"
  InitialIDs,  \* what the client may send as Last-Event-ID the first time
  MaxLog,      \* bound on the messages published
  MaxFaults    \* bound on broken connections and failed broker operations

ASSUME EventStreamAssumption ==
  /\ NoConn \notin Conns
  /\ InitialIDs \subseteq Int /\ InitialIDs # {}
  /\ MaxLog \in Nat
  /\ MaxFaults \in Nat

\* What becomes of a message that is consumed: it is sent as an event; it is
\* withheld (postFilter rejects it, or it holds no data); or it is invalid
\* (it does not parse, or does not match the schema) and is dropped.
Kind == {"event", "withheld", "invalid"}

VARIABLES
  log,       \* the stream: the message at offset o is log[o + 1]
  first,     \* offset of the first message retained
  shutdown,  \* h.ctx is cancelled: the service is shutting down
  faults,    \* faults so far, at most MaxFaults
  \* Per connection: the handler GetEvents ...
  hnd,       \* "idle", "serving", "blocked" (in a write) or "done"
  ctx,       \* ctx of GetEvents is done
  stalled,   \* the connections that are open and that nobody reads from
  \* ... the goroutine subscribe ...
  sub,       \* where it is; "send" is blocked in a send on ch
  out,       \* the type of the event it is sending
  outID,     \* the ID of the event it is sending, 0 for none
  lastID,    \* its variable lastID
  \* ... and the stream consumer.
  cons,      \* "none", "ready", "sending" (callback blocked) or "closed"
  next,      \* the next offset the consumer reads
  pos,       \* Position()
  closed,    \* the broker's close has reached the channel closed
  \* The client:
  client,    \* "away", "connected", "failed" or "released"
  cur,       \* its connection
  last,      \* the last event ID it has seen, sent as Last-Event-ID
  got,       \* offsets of the messages it has received, in order
  gone,      \* offsets the client was never to receive: see below
  blind      \* offsets skipped because the second check had no answer

streamVars == <<log, first>>
hndVars    == <<hnd, ctx, stalled>>
subVars    == <<sub, out, outID, lastID>>
consVars   == <<cons, next, pos, closed>>
clientVars == <<client, cur, last, got>>
ghostVars  == <<gone, blind>>
vars == <<streamVars, shutdown, faults, hndVars, subVars, consVars,
          clientVars, ghostVars>>

SubState == {"none", "resume", "consume", "recheck", "loop", "send",
             "exit", "done"}
\* An error event says whether the client may retry: "retry" or "giveUp".
ErrorType == {"retry", "giveUp"}
EventType == {"none", "message", "ping", "retry", "giveUp"}

TypeOK ==
  /\ log \in Seq(Kind)
  /\ first \in Nat
  /\ shutdown \in BOOLEAN
  /\ faults \in 0..MaxFaults
  /\ hnd \in [Conns -> {"idle", "serving", "blocked", "done"}]
  /\ ctx \in [Conns -> BOOLEAN]
  /\ stalled \subseteq Conns
  /\ sub \in [Conns -> SubState]
  /\ out \in [Conns -> EventType]
  /\ outID \in [Conns -> Nat]
  /\ \A c \in Conns : out[c] = "message" => outID[c] > 0
  /\ lastID \in [Conns -> Nat]
  /\ cons \in [Conns -> {"none", "ready", "sending", "closed"}]
  /\ next \in [Conns -> Nat]
  /\ pos \in [Conns -> Nat]
  /\ closed \in [Conns -> BOOLEAN]
  /\ client \in {"away", "connected", "failed", "released"}
  /\ cur \in Conns \cup {NoConn}
  /\ last \in Int
  /\ got \in Seq(Nat)
  /\ gone \subseteq Nat
  /\ blind \subseteq Nat

Init ==
  /\ log = <<>> /\ first = 0
  /\ shutdown = FALSE /\ faults = 0
  /\ hnd = [c \in Conns |-> "idle"] /\ ctx = [c \in Conns |-> FALSE]
  /\ stalled = {}
  /\ sub = [c \in Conns |-> "none"] /\ out = [c \in Conns |-> "none"]
  /\ outID = [c \in Conns |-> 0] /\ lastID = [c \in Conns |-> 0]
  /\ cons = [c \in Conns |-> "none"] /\ closed = [c \in Conns |-> FALSE]
  /\ next = [c \in Conns |-> 0] /\ pos = [c \in Conns |-> 0]
  /\ client = "away" /\ cur = NoConn
  /\ last \in InitialIDs
  /\ got = <<>>
  /\ gone = 0..(last - 1)   \* the client says that it has these already
  /\ blind = {}

Fault == faults < MaxFaults /\ faults' = faults + 1
NoFault == UNCHANGED faults

Larger(a, b) == IF a > b THEN a ELSE b
IsEvent(o) == o < Len(log) /\ log[o + 1] = "event"

-----------------------------------------------------------------------------
(* The stream. Retention never removes the segment that is written to.     *)

Publish(k) ==
  /\ Len(log) < MaxLog
  /\ log' = Append(log, k)
  /\ UNCHANGED <<first, shutdown, faults, hndVars, subVars, consVars,
                 clientVars, ghostVars>>

Retention ==
  /\ first + 1 < Len(log)
  /\ first' = first + 1
  /\ UNCHANGED <<log, shutdown, faults, hndVars, subVars, consVars,
                 clientVars, ghostVars>>

-----------------------------------------------------------------------------
(* The client's side of a connection.                                      *)

\* The connection breaks or the client closes it, or it stalls.
Disconnect ==
  /\ client = "connected" /\ cur \in Conns
  /\ Fault
  /\ client' = "away" /\ cur' = NoConn
  /\ stalled' \in {stalled, stalled \cup {cur}}
  /\ UNCHANGED <<streamVars, shutdown, hnd, ctx, subVars, consVars,
                 last, got, ghostVars>>

\* A stalled connection is closed after all, by the client or by TCP.
Drop(c) ==
  /\ c \in stalled
  /\ stalled' = stalled \ {c}
  /\ UNCHANGED <<streamVars, shutdown, faults, hnd, ctx, subVars, consVars, clientVars,
                 ghostVars>>

\* The client reads an event: an ID of 0 is not on the wire, a retryable
\* error makes it reconnect and any other error makes it give up.
ClientReads(type, id) ==
  /\ last' = IF id # 0 THEN id ELSE last
  /\ got' = IF type = "message" THEN Append(got, id - 1) ELSE got
  /\ client' = CASE type = "retry" -> "away"
                 [] type = "giveUp" -> "failed"
                 [] OTHER -> client
  /\ cur' = IF type \in ErrorType THEN NoConn ELSE cur

\* The response on connection c is over. A response that ends cleanly
\* releases the client; one that is aborted makes it reconnect.
ClientSeesEnd(c, clean) ==
  /\ client' = IF cur = c THEN (IF clean THEN "released" ELSE "away") ELSE client
  /\ cur' = IF cur = c THEN NoConn ELSE cur
  /\ UNCHANGED <<last, got>>

-----------------------------------------------------------------------------
(* GetEvents.                                                              *)

\* Mutant: a negative header is used as it is.
ParseLastEventIDUnchecked(header) == header

\* A header that does not parse, or is negative, means "from the start".
ParseLastEventID(header) == IF header < 0 THEN 0 ELSE header

\* The request of an "away" client is accepted on connection c.
GetEvents(c) ==
  /\ client = "away" /\ hnd[c] = "idle"
  /\ ~shutdown
  /\ client' = "connected" /\ cur' = c
  /\ hnd' = [hnd EXCEPT ![c] = "serving"]
  /\ sub' = [sub EXCEPT ![c] = "resume"]
  /\ lastID' = [lastID EXCEPT ![c] = ParseLastEventID(last)]
  /\ NoFault
  /\ UNCHANGED <<streamVars, shutdown, ctx, stalled, out, outID, consVars, last, got, ghostVars>>

\* 503: the service is shutting down, or NewStream fails. The client stays away.
GetEventsUnavailable(c) ==
  /\ client = "away" /\ hnd[c] = "idle"
  /\ IF shutdown THEN NoFault ELSE Fault
  /\ UNCHANGED <<streamVars, shutdown, hndVars, subVars, consVars,
                 clientVars, ghostVars>>

\* Mutant: the context does not follow h.ctx.
CancelCtxClientOnly(c) ==
  /\ hnd[c] \in {"serving", "blocked"} /\ ~ctx[c]
  /\ cur # c /\ c \notin stalled
  /\ ctx' = [ctx EXCEPT ![c] = TRUE]
  /\ UNCHANGED <<streamVars, shutdown, faults, hnd, stalled, subVars, consVars,
                 clientVars, ghostVars>>

\* The request's context is cancelled when the connection is closed, and AfterFunc
\* cancels it some time after h.ctx is.
CancelCtx(c) ==
  /\ hnd[c] \in {"serving", "blocked"} /\ ~ctx[c]
  /\ (cur # c /\ c \notin stalled) \/ shutdown
  /\ ctx' = [ctx EXCEPT ![c] = TRUE]
  /\ UNCHANGED <<streamVars, shutdown, faults, hnd, stalled, subVars, consVars,
                 clientVars, ghostVars>>

NothingToSend(c) ==
  /\ out' = [out EXCEPT ![c] = "none"]
  /\ outID' = [outID EXCEPT ![c] = 0]

\* Where subscribe continues once its send on ch has completed.
AfterSend(c) ==
  /\ NothingToSend(c)
  /\ sub' = [sub EXCEPT ![c] = IF out[c] \in ErrorType THEN "exit" ELSE "loop"]
  /\ lastID' = [lastID EXCEPT ![c] = IF out[c] = "message" THEN outID[c] ELSE lastID[c]]

\* The handler receives an event from subscribe and writes it. Once ctx is
\* done neither side of the channel waits in its select any more, so no event
\* passes. A write to a broken connection may fail, which ends the handler. One
\* to a stalled connection succeeds while there is room in its buffers, and then
\* it blocks: the server has no write timeout.
HandlerWrite(c) ==
  /\ hnd[c] = "serving" /\ sub[c] = "send" /\ ~ctx[c]
  /\ AfterSend(c)
  /\ \/ /\ cur = c
        /\ ClientReads(out[c], outID[c])
        /\ UNCHANGED hndVars
     \/ /\ cur # c
        /\ UNCHANGED <<hndVars, clientVars>>
     \/ /\ cur # c /\ c \notin stalled
        /\ hnd' = [hnd EXCEPT ![c] = "done"]
        /\ ctx' = [ctx EXCEPT ![c] = TRUE]
        /\ UNCHANGED <<stalled, clientVars>>
     \/ /\ cur # c /\ c \in stalled
        /\ hnd' = [hnd EXCEPT ![c] = "blocked"]
        /\ UNCHANGED <<ctx, stalled, clientVars>>
  /\ UNCHANGED <<streamVars, shutdown, faults, consVars, ghostVars>>

\* The write fails when the connection is closed. Until then the handler does not
\* look at its context.
HandlerWriteFails(c) ==
  /\ hnd[c] = "blocked" /\ c \notin stalled
  /\ hnd' = [hnd EXCEPT ![c] = "done"]
  /\ ctx' = [ctx EXCEPT ![c] = TRUE]
  /\ UNCHANGED <<streamVars, shutdown, faults, stalled, subVars, consVars, clientVars,
                 ghostVars>>

\* The select sees ctx.Done: abort the response when shutting down.
HandlerCtxDone(c) ==
  /\ hnd[c] = "serving" /\ ctx[c]
  /\ hnd' = [hnd EXCEPT ![c] = "done"]
  /\ ClientSeesEnd(c, ~shutdown)
  /\ UNCHANGED <<streamVars, shutdown, faults, ctx, stalled, subVars, consVars, ghostVars>>

\* The select sees that receiver is closed: return, which ends the response.
HandlerReceiverClosed(c) ==
  /\ hnd[c] = "serving" /\ sub[c] = "done"
  /\ hnd' = [hnd EXCEPT ![c] = "done"]
  /\ ctx' = [ctx EXCEPT ![c] = TRUE]
  /\ ClientSeesEnd(c, TRUE)
  /\ UNCHANGED <<streamVars, shutdown, faults, stalled, subVars, consVars, ghostVars>>

\* The service starts to shut down (OnShutdown in cmd/sse/main.go).
Shutdown ==
  /\ ~shutdown
  /\ shutdown' = TRUE
  /\ UNCHANGED <<streamVars, faults, hndVars, subVars, consVars, clientVars,
                 ghostVars>>

\* Nothing is left of a connection once both goroutines have returned.
Reap(c) ==
  /\ hnd[c] = "done" /\ sub[c] = "done"
  /\ hnd' = [hnd EXCEPT ![c] = "idle"] /\ ctx' = [ctx EXCEPT ![c] = FALSE]
  /\ stalled' = stalled \ {c}
  /\ sub' = [sub EXCEPT ![c] = "none"]
  /\ cons' = [cons EXCEPT ![c] = "none"]
  /\ UNCHANGED <<streamVars, shutdown, faults, out, outID, lastID, next, pos, closed,
                 clientVars, ghostVars>>

-----------------------------------------------------------------------------
(* subscribe.                                                              *)

\* Mutant: the boundary of the comparison is off by one.
ResumableOffByOne(c) == lastID[c] = 0 \/ (Len(log) > 0 /\ first < lastID[c])

\* resumeOffset: the client can resume after lastID. It cannot if the stream
\* is empty or if the message at offset lastID has expired.
Resumable(c) == lastID[c] = 0 \/ (Len(log) > 0 /\ first <= lastID[c])

\* subscribe enters a select that sends an event on ch.
StartSend(c, type, id) ==
  /\ sub' = [sub EXCEPT ![c] = "send"]
  /\ out' = [out EXCEPT ![c] = type]
  /\ outID' = [outID EXCEPT ![c] = id]

\* sendError: subscribe sends an error event and returns.
StartError(c, type) == StartSend(c, type, 0)

SubscribeResume(c) ==
  /\ sub[c] = "resume"
  /\ \/ /\ Resumable(c)
        /\ sub' = [sub EXCEPT ![c] = "consume"] /\ UNCHANGED <<out, outID>>
        /\ NoFault
     \/ /\ ~Resumable(c)
        /\ StartError(c, "giveUp")
        /\ NoFault
     \/ /\ lastID[c] > 0
        /\ StartError(c, "retry")
        /\ Fault
  /\ UNCHANGED <<streamVars, shutdown, hndVars, lastID, consVars, clientVars,
                 ghostVars>>

\* Mutant: the ID is taken for the offset of the event that has it.
AttachAtOneEarly(c) == Larger(lastID[c] - 1, first)

\* WithOffset: where the broker attaches the consumer. OffsetFirst is 0 here.
AttachAt(c) == Larger(lastID[c], first)

\* Consume: the consumer is attached at the requested offset, or at the first
\* one retained if that is larger. A client that starts from the beginning
\* never receives what expired before (gone).
SubscribeConsume(c) ==
  /\ sub[c] = "consume"
  /\ \/ /\ sub' = [sub EXCEPT ![c] = IF lastID[c] > 0 THEN "recheck" ELSE "loop"]
        /\ cons' = [cons EXCEPT ![c] = "ready"]
        /\ next' = [next EXCEPT ![c] = AttachAt(c)]
        /\ pos' = [pos EXCEPT ![c] = lastID[c]]
        /\ gone' = IF cur = c /\ lastID[c] = 0 THEN gone \cup 0..(first - 1) ELSE gone
        /\ UNCHANGED <<out, outID>>
        /\ NoFault
     \/ /\ StartError(c, "retry")
        /\ Fault
        /\ UNCHANGED <<cons, next, pos, gone>>
  /\ UNCHANGED <<streamVars, shutdown, hndVars, lastID, closed, clientVars, blind>>

\* Mutant: the second check is missing.
SubscribeRecheckMissing(c) ==
  /\ sub[c] = "recheck"
  /\ sub' = [sub EXCEPT ![c] = "loop"] /\ UNCHANGED <<out, outID>>
  /\ NoFault
  /\ UNCHANGED <<streamVars, shutdown, hndVars, lastID, consVars, clientVars, ghostVars>>

\* The second check. Only reasonExpired is acted on: a query that fails lets
\* the subscription go on, whatever has expired in between (blind).
SubscribeRecheck(c) ==
  /\ sub[c] = "recheck"
  /\ \/ /\ first > lastID[c]
        /\ StartError(c, "giveUp")
        /\ NoFault
        /\ UNCHANGED blind
     \/ /\ first <= lastID[c]
        /\ sub' = [sub EXCEPT ![c] = "loop"] /\ UNCHANGED <<out, outID>>
        /\ NoFault
        /\ UNCHANGED blind
     \/ /\ sub' = [sub EXCEPT ![c] = "loop"] /\ UNCHANGED <<out, outID>>
        /\ Fault
        /\ blind' = IF cur = c THEN blind \cup lastID[c]..(first - 1) ELSE blind
  /\ UNCHANGED <<streamVars, shutdown, hndVars, lastID, consVars, clientVars, gone>>

\* Mutant: the position is taken for the ID of the message dispatched last.
PingIDAhead(c) == IF pos[c] + 1 > lastID[c] THEN pos[c] + 1 ELSE 0

\* A ping carries the position if that is ahead of the last ID sent.
PingID(c) == IF pos[c] > lastID[c] THEN pos[c] ELSE 0

\* The ping ticker fires.
SubscribePing(c) ==
  /\ sub[c] = "loop"
  /\ StartSend(c, "ping", PingID(c))
  /\ lastID' = [lastID EXCEPT ![c] = Larger(pos[c], lastID[c])]
  /\ UNCHANGED <<streamVars, shutdown, faults, hndVars, consVars, clientVars,
                 ghostVars>>

\* Mutant: the subscription goes on without its consumer.
SubscribeClosedIgnored(c) ==
  /\ sub[c] = "loop" /\ closed[c]
  /\ closed' = [closed EXCEPT ![c] = FALSE]
  /\ cons' = [cons EXCEPT ![c] = "closed"]
  /\ UNCHANGED <<streamVars, shutdown, faults, hndVars, subVars, next, pos,
                 clientVars, ghostVars>>

\* The channel closed holds the broker's error.
SubscribeClosed(c) ==
  /\ sub[c] = "loop" /\ closed[c]
  /\ IF ctx[c] THEN sub' = [sub EXCEPT ![c] = "exit"] /\ UNCHANGED <<out, outID>>
               ELSE StartError(c, "retry")
  /\ closed' = [closed EXCEPT ![c] = FALSE]
  /\ cons' = [cons EXCEPT ![c] = "closed"]
  /\ UNCHANGED <<streamVars, shutdown, faults, hndVars, lastID, next, pos,
                 clientVars, ghostVars>>

\* Mutant: events are not validated.
WellFormedAlways(o) == TRUE

\* The message at offset o parses and matches the schema of the protocol.
WellFormed(o) == log[o + 1] # "invalid"

\* subscribe receives from consumeCh the message the callback is sending. As
\* in HandlerWrite, nothing passes once the context is done.
SubscribeReceive(c) ==
  /\ sub[c] = "loop" /\ cons[c] = "sending" /\ ~ctx[c]
  /\ cons' = [cons EXCEPT ![c] = "ready"]
  /\ IF WellFormed(pos[c])
     THEN StartSend(c, "message", pos[c] + 1)
     ELSE UNCHANGED <<sub, out, outID>>
  /\ UNCHANGED <<streamVars, shutdown, faults, hndVars, lastID, next, pos,
                 closed, clientVars, ghostVars>>

\* Mutant: the sends on ch do not watch the context.
SubscribeCtxDoneLoopOnly(c) ==
  /\ sub[c] = "loop" /\ ctx[c]
  /\ sub' = [sub EXCEPT ![c] = "exit"]
  /\ NothingToSend(c)
  /\ UNCHANGED <<streamVars, shutdown, faults, hndVars, lastID, consVars,
                 clientVars, ghostVars>>

\* A select of subscribe sees ctx.Done.
SubscribeCtxDone(c) ==
  /\ sub[c] \in {"loop", "send"} /\ ctx[c]
  /\ sub' = [sub EXCEPT ![c] = "exit"]
  /\ NothingToSend(c)
  /\ UNCHANGED <<streamVars, shutdown, faults, hndVars, lastID, consVars,
                 clientVars, ghostVars>>

\* The deferred calls: streamer.Close, cancel and close(ch). The goroutine's
\* variables and its consumer are gone.
SubscribeExit(c) ==
  /\ sub[c] = "exit"
  /\ sub' = [sub EXCEPT ![c] = "done"]
  /\ lastID' = [lastID EXCEPT ![c] = 0]
  /\ cons' = [cons EXCEPT ![c] = "closed"] /\ closed' = [closed EXCEPT ![c] = FALSE]
  /\ next' = [next EXCEPT ![c] = 0] /\ pos' = [pos EXCEPT ![c] = 0]
  /\ UNCHANGED <<streamVars, shutdown, faults, hndVars, out, outID, clientVars, ghostVars>>

-----------------------------------------------------------------------------
(* The stream consumer of a connection.                                    *)

\* The client library dispatches the message at offset n. It has skipped only
\* messages that the broker's own filter held back and messages that expired
\* before a slow consumer came to read them (gone). handleMessage returns at
\* once for a message that is withheld.
HandleMessage(c, n) ==
  /\ cons[c] = "ready" /\ ~closed[c]
  /\ n < Len(log) /\ n >= Larger(next[c], first)
  /\ \A o \in Larger(next[c], first)..(n - 1) : log[o + 1] = "withheld"
  /\ next' = [next EXCEPT ![c] = n + 1]
  /\ pos' = [pos EXCEPT ![c] = n]
  /\ cons' = [cons EXCEPT ![c] = IF log[n + 1] = "withheld" THEN "ready" ELSE "sending"]
  /\ gone' = IF cur = c THEN gone \cup next[c]..(first - 1) ELSE gone
  /\ UNCHANGED <<streamVars, shutdown, faults, hndVars, subVars, closed,
                 clientVars, blind>>

\* The callback gives up its send because the context is done.
HandleMessageCtxDone(c) ==
  /\ cons[c] = "sending" /\ ctx[c]
  /\ cons' = [cons EXCEPT ![c] = "ready"]
  /\ UNCHANGED <<streamVars, shutdown, faults, hndVars, subVars, next, pos,
                 closed, clientVars, ghostVars>>

\* The broker closes the consumer and notifyClose forwards it.
NotifyClose(c) ==
  /\ cons[c] \in {"ready", "sending"} /\ ~closed[c] /\ ~ctx[c]
  /\ Fault
  /\ closed' = [closed EXCEPT ![c] = TRUE]
  /\ UNCHANGED <<streamVars, shutdown, hndVars, subVars, cons, next, pos,
                 clientVars, ghostVars>>

-----------------------------------------------------------------------------
Handler(c) ==
  HandlerWrite(c) \/ HandlerWriteFails(c) \/ HandlerCtxDone(c) \/ HandlerReceiverClosed(c)

SubscribeStart(c) == SubscribeResume(c) \/ SubscribeConsume(c) \/ SubscribeRecheck(c)

Consumer(c) == (\E n \in 0..(MaxLog - 1) : HandleMessage(c, n)) \/ HandleMessageCtxDone(c)

Next ==
  \/ \E k \in Kind : Publish(k)
  \/ Retention
  \/ Disconnect
  \/ Shutdown
  \/ \E c \in Conns :
       \/ GetEvents(c) \/ GetEventsUnavailable(c) \/ CancelCtx(c)
       \/ HandlerWrite(c) \/ HandlerWriteFails(c) \/ HandlerCtxDone(c)
       \/ HandlerReceiverClosed(c) \/ Drop(c) \/ Reap(c)
       \/ SubscribeResume(c) \/ SubscribeConsume(c) \/ SubscribeRecheck(c)
       \/ SubscribePing(c) \/ SubscribeClosed(c) \/ SubscribeReceive(c)
       \/ SubscribeCtxDone(c) \/ SubscribeExit(c)
       \/ \E n \in 0..(MaxLog - 1) : HandleMessage(c, n)
       \/ HandleMessageCtxDone(c)
       \/ NotifyClose(c)

Spec == Init /\ [][Next]_vars

\* Every goroutine that can run eventually runs. The select of subscribe picks
\* at random among the ready cases and pings are seconds apart, so a case that
\* is ready again and again is taken (SF). The client always reconnects.
\* Publishing, retention, faults, pings, the shutdown and the end of a stalled
\* connection are not fair.
Fairness ==
  /\ WF_vars(\E c \in Conns : GetEvents(c))
  /\ \A c \in Conns :
       /\ WF_vars(CancelCtx(c))
       /\ WF_vars(Handler(c))
       /\ WF_vars(Reap(c))
       /\ WF_vars(SubscribeStart(c))
       /\ WF_vars(SubscribeCtxDone(c) \/ SubscribeExit(c))
       /\ WF_vars(Consumer(c))
       /\ SF_vars(SubscribeReceive(c))
       /\ SF_vars(SubscribeClosed(c))

FairSpec == Spec /\ Fairness

-----------------------------------------------------------------------------
(* Properties.                                                             *)

\* NoSkip: the client's Last-Event-ID never moves past an event the client did
\* not receive, however connections, pings, retention and shutdowns interleave.
\* Excepted are the events it was never to receive (gone: expired before its
\* first connection, or while its consumer lagged behind) and those that
\* expired before an attach whose second check had no answer (blind).
\* About resumeOffset, the ping IDs and handleMessage.
NoSkip ==
  \A o \in 0..(last - 1) : IsEvent(o) => o \in Range(got) \cup gone \cup blind

\* InOrder: across all its connections the client receives every message at
\* most once and in stream order; a resumed stream neither repeats the event
\* the client acknowledged nor one that an older connection delivered.
InOrder ==
  \A i, j \in 1..Len(got) : i < j => got[i] < got[j]

\* GivesUpOnlyWhenLost: a client that has received events is told not to retry
\* only if the message it would resume from has really expired: no transient
\* broker failure and no boundary case of resumeOffset makes it give up.
GivesUpOnlyWhenLost ==
  client = "failed" /\ got # <<>> => first > last

\* Implements: seen from the client, the connections, goroutines and consumers
\* of this module do what ResumableDelivery promises.
Promise == INSTANCE ResumableDelivery
  WITH state <- IF client \in {"away", "connected"} THEN "following" ELSE client
Implements == Promise!Spec

\* ShutdownAborts: the comment at sse.go:312 says that a stream is aborted
\* rather than ended when the service shuts down, because a client does not
\* reconnect after a cleanly ended stream. A client that was sent no error is
\* then never released.
ShutdownAborts == client # "released"

\* Drains: a shutdown ends every handler, whatever the stream, the subscriber and
\* the client are doing, except one that is blocked in a write to a connection from
\* which nobody reads: that one holds the shutdown up until the server gives up
\* after a minute (GetEvents, cmd/sse/main.go).
Drains ==
  \A c \in Conns :
    (shutdown /\ hnd[c] \in {"serving", "blocked"}) ~>
      (hnd[c] \notin {"serving", "blocked"} \/ (hnd[c] = "blocked" /\ c \in stalled))

\* NoLeak: the goroutine and the consumer of a connection end after it has been
\* closed: neither stays blocked in a send to somebody who has left.
NoLeak ==
  \A c \in Conns :
    (sub[c] # "none" /\ cur # c /\ c \notin stalled) ~> (sub[c] = "none")

\* EventuallyDelivered: an event that the client has not passed reaches it,
\* across broken connections and broker failures, unless it expires, the
\* client was told to give up, or the service shuts down.
EventuallyDelivered ==
  \A o \in 0..(MaxLog - 1) :
    (IsEvent(o) /\ o >= last) ~>
      (o \in Range(got) \/ o < first \/ client \in {"failed", "released"} \/ shutdown)
=============================================================================
