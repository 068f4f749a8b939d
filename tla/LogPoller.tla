----------------------------- MODULE LogPoller ------------------------------
(***************************************************************************)
(* The log streams of SSE v1 and v1alpha (pkg/sse/v1/sse.go and            *)
(* pkg/sse/v1alpha/sse.go) on top of the Kubernetes cache: GetEvents with  *)
(* its goroutine Subscribe, which polls the log listener of a suite runner *)
(* until the cache says that the run is finished.                          *)
(*                                                                         *)
(* One client follows the log, one connection at a time. What the other    *)
(* requests do to the cache (GetEvent among them, whose way to the log     *)
(* listener is the same) is one action; CacheReads has them in detail. The *)
(* client and the suite runner with its log listener are external. A line  *)
(* of the log is "ok", "bad" (no event can be made of it) or "long" (over  *)
(* the 64 KiB at which a bufio.Scanner stops).                             *)
(***************************************************************************)
EXTENDS KubeCache

CONSTANTS
  Versions,    \* which of the two services are looked at
  Kinds,       \* kinds of lines
  FirstIDs,    \* numbers that a client without any event may give as Last-Event-ID
  MaxLines     \* bound on the log

ASSUME LogPollerAssumption ==
  /\ Callers = {"events"}
  /\ Versions \subseteq {"v1", "v1alpha"} /\ Kinds \subseteq {"ok", "bad", "long"}
  /\ FirstIDs \subseteq {id \in Int : id <= 1}
  /\ MaxLines \in Nat /\ MaxFaults \in Nat

VARIABLES
  version,     \* the service the client uses
  log,         \* lines the log listener has
  service,     \* "up", "cancelled" (h.ctx is done) or "crashed"
  hnd,         \* GetEvents: see HandlerState
  \* The connection of the client.
  ctx,         \* its context is done
  sub,         \* Subscribe: "none", "loop", "isFinished", "send" or "closed"
  out,         \* event it is sending: "none", "ping", "shutdown" or "line"
  counter,     \* its counter
  start,       \* the value with which the counter began
  batch,       \* lines of the last response it has yet to send, in their order
  \* The client.
  client,      \* "away", "connected" or "told" that the run has finished
  last,        \* ID of the last event it received, 0 for none
  got,         \* lines it has received whole
  cut          \* lines of which it has received a part as the line

subVars == <<sub, out, counter, start, batch>>
clientVars == <<client, last, got, cut>>
vars == <<stage, cacheVars, faults, version, log, service, hnd, ctx, subVars, clientVars>>

HandlerState == {"idle", "isFinished", "findJob", "findPod", "serving"}

Line == [n : 1..MaxLines, whole : BOOLEAN]

TypeOK ==
  /\ CacheTypeOK
  /\ version \in Versions
  /\ log \in Seq(Kinds) /\ Len(log) <= MaxLines
  /\ service \in {"up", "cancelled", "crashed"}
  /\ hnd \in HandlerState
  /\ ctx \in BOOLEAN
  /\ sub \in {"none", "loop", "isFinished", "send", "closed"}
  /\ out \in {"none", "ping", "shutdown", "line"}
  /\ counter \in Int /\ counter <= MaxLines + 1 /\ start \in Int
  /\ batch \subseteq Line
  /\ client \in {"away", "connected", "told"}
  /\ last \in 0..MaxLines
  /\ got \subseteq 1..MaxLines /\ cut \subseteq 1..MaxLines

Init ==
  /\ CacheInit
  /\ version \in Versions
  /\ log = <<>> /\ service = "up"
  /\ hnd = "idle"
  /\ ctx = FALSE
  /\ sub = "none" /\ out = "none" /\ counter = 1 /\ start = 1 /\ batch = {}
  /\ client = "away" /\ last = 0 /\ got = {} /\ cut = {}

-----------------------------------------------------------------------------
(* External: the suite runner, and the client's side of the connection.    *)

Listening == stage = Up

\* To v1alpha, which makes an event of any line, a "bad" one is like others.
LogLine(k) ==
  /\ Listening /\ Len(log) < MaxLines
  /\ version = "v1alpha" => k # "bad"
  /\ log' = Append(log, k)
  /\ UNCHANGED <<stage, cacheVars, faults, version, service, hnd, ctx, subVars, clientVars>>

SuiteRunner ==
  /\ Progress
  /\ UNCHANGED <<version, log, service, hnd, ctx, subVars, clientVars>>

CacheExpires(r) ==
  /\ Expire(r)
  /\ UNCHANGED <<version, log, service, hnd, ctx, subVars, clientVars>>

\* Another request has refreshed a list.
OthersRefresh(r) ==
  /\ service # "crashed" /\ ~entry[r].fresh /\ mutex[r] = Free
  /\ entry' = [entry EXCEPT ![r] = [data |-> View(r, stage), fresh |-> TRUE]]
  /\ UNCHANGED <<stage, mutex, at, snap, faults, version, log, service, hnd, ctx, subVars,
                 clientVars>>

Leave ==
  /\ client = "connected"
  /\ client' = "away"
  /\ UNCHANGED <<stage, cacheVars, faults, version, log, service, hnd, ctx, subVars,
                 last, got, cut>>

-----------------------------------------------------------------------------
(* The handlers up to the stream.                                          *)

me == "events"
Serving == hnd = "serving"
Goto(to) == hnd' = to

\* The context given to the cache is that of the request, except that Subscribe
\* gives one that is never done.
CacheCtxDone == sub = "none" /\ ctx

\* A request arrives. The client has one connection at a time, and the last one
\* has left nothing behind.
Request ==
  /\ service = "up" /\ hnd = "idle" /\ client = "away" /\ sub = "none"
  /\ client' = "connected" /\ ctx' = FALSE
  /\ Goto("isFinished") /\ Call(me, "jobs")
  /\ UNCHANGED <<stage, entry, mutex, faults, version, log, service, subVars, last, got, cut>>

\* A step of getAllJobs or getAllPods.
CacheStep ==
  /\ GetAll(me, IF hnd = "findPod" THEN "pods" ELSE "jobs", CacheCtxDone)
  /\ UNCHANGED <<version, log, service, hnd, ctx, subVars, clientVars>>

\* The handler answers and returns; for the client its response has ended.
Respond ==
  /\ Goto("idle")
  /\ client' = IF client = "connected" THEN "away" ELSE client

\* IsFinished has returned: 404, or go on to the address of the log listener.
AfterIsFinished ==
  /\ hnd = "isFinished" /\ Returned(me)
  /\ IF IsFinished(me)
     THEN Respond /\ Return(me)
     ELSE Goto("findJob") /\ Call(me, "jobs") /\ UNCHANGED client
  /\ UNCHANGED <<stage, entry, mutex, faults, version, log, service, ctx, subVars,
                 last, got, cut>>

AfterFindJob ==
  /\ hnd = "findJob" /\ Returned(me)
  /\ IF JobFound(me)
     THEN Goto("findPod") /\ Call(me, "pods") /\ UNCHANGED client
     ELSE Respond /\ Return(me)
  /\ UNCHANGED <<stage, entry, mutex, faults, version, log, service, ctx, subVars,
                 last, got, cut>>

\* Mutant: the header is not looked at.
LastEventIDIgnored == {1}

\* Without a Last-Event-ID the counter is 1. A client that has received events
\* sends the ID of the last one, or of the one it wants next.
LastEventID == IF last = 0 THEN FirstIDs ELSE {last, last + 1}

\* GetEvents starts Subscribe, and streams.
StartSubscribe(id) ==
  /\ Goto("serving")
  /\ sub' = "loop" /\ counter' = id /\ start' = id
  /\ UNCHANGED <<client, out, batch>>

\* The header is no number, which no event has as its ID: v1 goes on with the 0 that
\* Atoi returns, v1alpha answers 400.
NotParsable ==
  /\ last = 0
  /\ IF version = "v1" THEN StartSubscribe(0) ELSE Respond /\ UNCHANGED subVars

\* The address is known, or the answer is 404.
AfterFindPod ==
  /\ hnd = "findPod" /\ Returned(me)
  /\ Return(me)
  /\ IF IPFound(me)
     THEN NotParsable \/ \E id \in LastEventID : StartSubscribe(id)
     ELSE Respond /\ UNCHANGED subVars
  /\ UNCHANGED <<stage, entry, mutex, faults, version, log, service, ctx,
                 last, got, cut>>

-----------------------------------------------------------------------------
(* Subscribe.                                                              *)

\* The scanner stops at a line that is too long for it.
Readable == {n \in 1..Len(log) : \A m \in 1..n : log[m] # "long"}

\* The lines of a response from the given one on, or from the first. When the
\* connection breaks in the middle of line to + 1, the scanner returns the part of it
\* that has arrived and no error.
Lines(from, to, broken) ==
  {[n |-> i, whole |-> TRUE] : i \in {j \in 1..to : j >= from}}
  \cup (IF broken THEN {[n |-> to + 1, whole |-> FALSE]} ELSE {})

\* Mutant: what cannot be parsed is sent all the same.
NewAlways(line) == TRUE

\* events.New makes an event of a line.
New(line) == line.whole /\ log[line.n] # "bad"

\* GetFrom of v1: the listener sends the lines from counter on; what is not an
\* event is left out.
FromV1(to, broken) == {line \in Lines(counter, to, broken) : New(line)}

\* len(messages) in v1alpha, where the last one may be a part.
Messages(to, broken) == IF broken THEN to + 1 ELSE to

\* Mutant: the comparison is off by two.
FromV1alphaLate(to, broken) ==
  IF Messages(to, broken) > counter
  THEN {line \in Lines(1, to, broken) : line.n >= counter} ELSE {}

\* GetFrom of v1alpha gets all lines and Subscribe drops counter - 1 of them.
FromV1alpha(to, broken) ==
  IF Messages(to, broken) >= counter - 1
  THEN {line \in Lines(1, to, broken) : line.n >= counter} ELSE {}

NewEvents(to, broken) ==
  IF version = "v1" THEN FromV1(to, broken) ELSE FromV1alpha(to, broken)

\* The for loop over the events: the next one is sent, or the select is next.
SendNext(events) ==
  /\ batch' = events
  /\ out' = IF events = {} THEN "none" ELSE "line"
  /\ sub' = IF events = {} THEN "loop" ELSE "send"

\* v1alpha slices the messages from counter - 1 on, which panics below 0.
SlicePanics == version = "v1alpha" /\ counter < 1

\* The tick, when the log listener answers. The answer may break off.
Poll ==
  /\ sub = "loop" /\ Listening /\ ~ctx /\ ~SlicePanics
  /\ \E to \in Readable \cup {0} :
       \/ /\ to + 1 \notin Readable
          /\ SendNext(NewEvents(to, FALSE)) /\ NoFault
       \/ /\ to + 1 \in Readable /\ (version = "v1" => to + 1 >= counter)
          /\ SendNext(NewEvents(to, TRUE)) /\ Fault
  /\ UNCHANGED <<stage, cacheVars, version, log, service, hnd, ctx, counter, start,
                 clientVars>>

\* The panic of a goroutine ends the process, and all connections with it.
PollPanics ==
  /\ sub = "loop" /\ Listening /\ ~ctx /\ SlicePanics
  /\ service' = "crashed" /\ Respond
  /\ sub' = "none" /\ counter' = 1 /\ start' = 1
  /\ UNCHANGED <<stage, cacheVars, faults, version, log, ctx, out, batch, last, got, cut>>

\* The tick, when it does not: Subscribe asks whether the run is finished.
PollFails ==
  /\ sub = "loop"
  /\ IF Listening /\ ~ctx THEN Fault ELSE NoFault
  /\ Call(me, "jobs")
  /\ sub' = "isFinished"
  /\ UNCHANGED <<stage, entry, mutex, version, log, service, hnd, ctx, out,
                 counter, start, batch, clientVars>>

AfterPollFails ==
  /\ sub = "isFinished" /\ Returned(me)
  /\ IF IsFinished(me)
     THEN sub' = "send" /\ out' = "shutdown"
     ELSE sub' = "loop" /\ UNCHANGED out
  /\ Return(me)
  /\ UNCHANGED <<stage, entry, mutex, faults, version, log, service, hnd, ctx,
                 counter, start, batch, clientVars>>

Ping ==
  /\ sub = "loop"
  /\ sub' = "send" /\ out' = "ping"
  /\ UNCHANGED <<stage, cacheVars, faults, version, log, service, hnd, ctx, counter, start,
                 batch, clientVars>>

\* Client lost: Subscribe returns and closes the channel.
SubscribeCtxDone ==
  /\ sub = "loop" /\ ctx
  /\ sub' = "closed" /\ counter' = 1 /\ start' = 1
  /\ UNCHANGED <<stage, cacheVars, faults, version, log, service, hnd, ctx, out, batch,
                 clientVars>>

\* Nothing is left of Subscribe once the handler has returned, too.
Reap ==
  /\ sub = "closed" /\ hnd = "idle"
  /\ sub' = "none"
  /\ UNCHANGED <<stage, cacheVars, faults, version, log, service, hnd, ctx, out, counter,
                 start, batch, clientVars>>

-----------------------------------------------------------------------------
(* The handler's loop.                                                     *)

\* A line passes from Subscribe, which counts it, to the handler, which writes it to
\* the client. A failed write is logged.
WriteLine(line) ==
  /\ Serving /\ sub = "send" /\ out = "line"
  /\ \A other \in batch : line.n <= other.n
  /\ counter' = counter + 1
  /\ SendNext(batch \ {line})
  /\ IF client = "connected"
     THEN /\ last' = line.n
          /\ got' = IF line.whole THEN got \cup {line.n} ELSE got
          /\ cut' = IF line.whole THEN cut ELSE cut \cup {line.n}
     ELSE UNCHANGED <<last, got, cut>>
  /\ UNCHANGED <<stage, cacheVars, faults, version, log, service, hnd, ctx, start, client>>

\* v1alpha takes a shutdown event as the order to break the connection.
ForceKillConnection == version = "v1alpha" /\ out = "shutdown"

\* So does a ping or a shutdown event; a client that is told that the run has finished
\* closes the connection. After a shutdown event v1 goes on, while in v1alpha
\* Subscribe returns and the handler breaks the connection and returns.
WriteEvent ==
  /\ Serving /\ sub = "send" /\ out \in {"ping", "shutdown"}
  /\ out' = "none"
  /\ client' = IF client = "connected" /\ out = "shutdown" THEN "told" ELSE client
  /\ IF ForceKillConnection
     THEN sub' = "closed" /\ counter' = 1 /\ start' = 1 /\ Goto("idle") /\ ctx' = TRUE
     ELSE sub' = "loop" /\ UNCHANGED <<counter, start, hnd, ctx>>
  /\ UNCHANGED <<stage, cacheVars, faults, version, log, service, batch, last, got, cut>>

HandlerWrite == (\E line \in batch : WriteLine(line)) \/ WriteEvent

\* v1 returns when Subscribe has closed the channel.
HandlerClosed ==
  /\ version = "v1" /\ Serving /\ sub = "closed"
  /\ Respond
  /\ UNCHANGED <<stage, cacheVars, faults, version, log, service, ctx, subVars, last, got, cut>>

\* v1alpha returns as soon as it sees that a context is done, which cancels the
\* one it gave to Subscribe.
HandlerReturns ==
  /\ version = "v1alpha" /\ Serving
  /\ ctx \/ service = "cancelled"
  /\ Respond /\ ctx' = TRUE
  /\ UNCHANGED <<stage, cacheVars, faults, version, log, service, subVars, last, got, cut>>

\* The request's context is done some time after the client has gone.
CancelCtx ==
  /\ hnd # "idle" /\ ~ctx /\ client # "connected"
  /\ ctx' = TRUE
  /\ UNCHANGED <<stage, cacheVars, faults, version, log, service, hnd, subVars, clientVars>>

\* Mutant: the handler does not pass the end of h.ctx on.
HandlerCancelNever == FALSE /\ UNCHANGED vars

\* v1 sees that h.ctx is done and cancels the context of Subscribe.
HandlerCancel ==
  /\ version = "v1" /\ Serving /\ service = "cancelled" /\ ~ctx
  /\ ctx' = TRUE
  /\ UNCHANGED <<stage, cacheVars, faults, version, log, service, hnd, subVars, clientVars>>

\* cmd/sse/main.go: the web server is shut down, which ends when no request is
\* left or after a minute; then Close cancels h.ctx. During the minute streams go
\* on as before and no request arrives.
Shutdown ==
  /\ service = "up" /\ service' = "cancelled"
  /\ UNCHANGED <<stage, cacheVars, faults, version, log, hnd, ctx, subVars, clientVars>>

-----------------------------------------------------------------------------
Handler == AfterIsFinished \/ AfterFindJob \/ AfterFindPod
Tick == Poll \/ PollPanics \/ PollFails
Subscribe == Ping \/ SubscribeCtxDone \/ Tick \/ AfterPollFails \/ Reap
Stream == HandlerWrite \/ HandlerClosed \/ HandlerReturns \/ HandlerCancel \/ CancelCtx

Next ==
  \/ SuiteRunner \/ (\E k \in Kinds : LogLine(k))
  \/ (\E r \in Resource : CacheExpires(r) \/ OthersRefresh(r))
  \/ Leave \/ Shutdown
  \/ Request \/ CacheStep \/ Handler
  \/ Subscribe \/ Stream

Spec == Init /\ [][Next]_vars

\* Goroutines run, time passes, and Kubernetes answers. A select takes a case that
\* is ready again and again.
Fairness ==
  /\ \A r \in Resource : WF_vars(CacheExpires(r))
  /\ WF_vars(Handler) /\ WF_vars(CacheStep)
  /\ SF_vars(Tick) /\ SF_vars(SubscribeCtxDone) /\ WF_vars(AfterPollFails \/ Reap)
  /\ WF_vars(HandlerWrite \/ HandlerClosed) /\ WF_vars(HandlerReturns \/ HandlerCancel)
  /\ WF_vars(CancelCtx)

FairSpec == Spec /\ Fairness

-----------------------------------------------------------------------------
(* Properties.                                                             *)

\* A line that the client should have: v1 sends what is an event, v1alpha all.
Sendable(n) == n \in Readable /\ (version = "v1" => log[n] = "ok")

\* What the service will not send again: lines that the client has whole and, in
\* v1alpha alone, lines that broke off on the way from the log listener.
Passed(n) == n \in got \/ (version = "v1alpha" /\ n \in cut)

\* No line is passed over: of the lines below the last one it received the client
\* has all, however often it reconnects and however responses break off; in v1
\* whole, in v1alpha perhaps the part of it that GetFrom got (GetFrom, and the counter
\* in Subscribe).
NoGap == \A n \in 1..(last - 1) : Sendable(n) => Passed(n)

\* On one connection the client's ID never goes back, with two exceptions in v1. It
\* does not count a line of which it can make no event, and repeats as many events; and
\* a counter that began below 1 lags by as much (counter in Subscribe).
CountsAll == start >= 1 /\ (version = "v1" => \A n \in 1..Len(log) : log[n] # "bad")
Ascending == [][CountsAll /\ last' # last /\ last # 0 => last' > last]_vars

\* The client is told that the run has finished only when it has, although the
\* cache may be older than the job and a job that is not found counts as finished.
ToldTheTruth == client = "told" \/ out = "shutdown" => stage >= Finished

\* A client that stays connected is told that the run has finished (PollFails,
\* IsFinished), in spite of errors and a cache that lags.
Told == []<>~(stage >= Finished /\ client = "connected")

\* The client gets every line that can be read, while it, the service and the log
\* listener stay. In v1 a response that breaks off, or an error, is made up for; in
\* v1alpha an error is, while the line in which a response broke off is not sent again
\* and is excepted by Passed (Subscribe, GetFrom).
Behind == client = "connected" /\ Listening /\ service = "up"
            /\ \E n \in 1..Len(log) : Sendable(n) /\ ~Passed(n)
Delivered == []<>~Behind

\* When the client has gone or h.ctx is done the handler returns, and in v1 the
\* goroutine Subscribe ends as well (GetEvents). That a write to a client that has
\* stopped reading does not block for ever is assumed.
Held == /\ Serving \/ (version = "v1" /\ sub # "none")
        /\ client # "connected" \/ service = "cancelled"
Released == []<>~Held
=============================================================================
