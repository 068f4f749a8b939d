--------------------------- MODULE EventStreamInv ---------------------------
(***************************************************************************)
(* The inductive invariant behind NoSkip, InOrder and GivesUpOnlyWhenLost  *)
(* of EventStream. Its heart is Following: on the client's own connection, *)
(* as long as its context is not done, every event between the client's    *)
(* place in the stream and the consumer's is accounted for: it was never   *)
(* to be received, it is the message the callback is sending, or it is the *)
(* event that subscribe is sending.                                        *)
(***************************************************************************)
EXTENDS EventStream

\* The client's place in the stream.
Place == ParseLastEventID(last)

\* A connection that is not in use has no goroutine and no consumer, and the
\* client is connected exactly when it has a connection, which is served.
Connections ==
  /\ \A c \in Conns : hnd[c] = "idle" => sub[c] = "none"
  /\ \A c \in Conns : sub[c] \in {"none", "resume", "consume"} => cons[c] = "none"
  /\ client = "connected" <=> cur \in Conns
  /\ cur \in Conns => hnd[cur] = "serving"

\* Only a stream that was never written to is empty.
Retained == first = 0 \/ first < Len(log)

\* What the client has received lies below its place and in the stream; what
\* lies below its place and is not yet in the stream it will not receive.
Received ==
  /\ \A i \in 1..Len(got) : got[i] < last /\ got[i] < Len(log)
  /\ \A o \in 0..(last - 1) : o >= Len(log) => o \in gone

Sending(c, type) == sub[c] = "send" /\ out[c] = type

Accounted(c, o) ==
  \/ o \in gone \cup blind
  \/ cons[c] = "sending" /\ o = pos[c]
  \/ Sending(c, "message") /\ o = outID[c] - 1
  \/ sub[c] = "recheck" /\ o < first

\* The consumer of the client's connection and what is under way from it.
Following(c) ==
  sub[c] \in {"recheck", "loop"} \/ Sending(c, "message") \/ Sending(c, "ping") =>
    /\ cons[c] \in {"ready", "sending"}
    /\ Place <= next[c] /\ pos[c] <= next[c]
    /\ next[c] <= Len(log) \/ next[c] = Place
    /\ pos[c] <= Place \/ pos[c] < Len(log)
    /\ cons[c] = "sending" =>
         /\ pos[c] + 1 = next[c] /\ pos[c] >= Place
         /\ pos[c] < Len(log) /\ log[pos[c] + 1] # "withheld"
    /\ \A o \in Place..(next[c] - 1) : IsEvent(o) => Accounted(c, o)

\* The server's lastID is the client's place, up to the event under way.
InStep(c) ==
  /\ sub[c] \in {"resume", "consume", "recheck", "loop"} => lastID[c] = Place
  /\ Sending(c, "message") =>
       /\ lastID[c] = Place
       /\ outID[c] > Place /\ outID[c] <= next[c] /\ IsEvent(outID[c] - 1)
       /\ cons[c] = "sending" => pos[c] >= outID[c]
  /\ Sending(c, "ping") =>
       \/ outID[c] = 0 /\ lastID[c] = Place
       \/ /\ outID[c] = lastID[c] /\ outID[c] > Place
          /\ outID[c] <= pos[c] /\ outID[c] <= Len(log)

\* An error that is not to be retried is under way only if the place expired.
Refusal(c) ==
  Sending(c, "giveUp") => got = <<>> \/ first > last

\* A send is of some event, and an error has no ID.
SendsSomething ==
  \A c \in Conns : sub[c] = "send" =>
    out[c] # "none" /\ (out[c] \in ErrorType => outID[c] = 0)

IInv ==
  /\ TypeOK
  /\ Connections
  /\ Retained
  /\ Received
  /\ SendsSomething
  /\ cur \in Conns /\ ~ctx[cur] => Refusal(cur) /\ Following(cur) /\ InStep(cur)
  /\ NoSkip
  /\ InOrder
  /\ GivesUpOnlyWhenLost
=============================================================================
