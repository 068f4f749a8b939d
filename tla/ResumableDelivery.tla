------------------------- MODULE ResumableDelivery -------------------------
(***************************************************************************)
(* What the v2alpha event stream promises to a client that resumes with    *)
(* Last-Event-ID, without servers or connections: the client walks through *)
(* a log that grows at one end and expires at the other. It receives every *)
(* event once, in order, and passes over an event only if that event has   *)
(* expired. It is told to give up only if the place to resume from has     *)
(* expired, or was never one of this log.                                  *)
(***************************************************************************)
EXTENDS Integers, Sequences

CONSTANT Kind          \* the kinds of messages; the client is to get "event"s

VARIABLES log, first,  \* the log, and the offset of its first message
          state,       \* "following", "failed" or "released"
          last,        \* the client's Last-Event-ID: the offset to read next
          got          \* the offsets of the events the client has received

vars == <<log, first, state, last, got>>

\* Every event from the client's place up to, but not including, offset n
\* has expired.
NothingBefore(n) ==
  \A o \in 0..(n - 1) : o >= last /\ o < Len(log) /\ log[o + 1] = "event" => o < first

Init ==
  /\ log = <<>> /\ first = 0
  /\ state = "following"
  /\ last \in Int /\ got = <<>>

Publish ==
  /\ \E k \in Kind : log' = Append(log, k)
  /\ UNCHANGED <<first, state, last, got>>

Expire ==
  /\ first' = first + 1 /\ first' < Len(log)
  /\ UNCHANGED <<log, state, last, got>>

\* The client receives the event at offset o.
Receive(o) ==
  /\ state = "following"
  /\ o >= last /\ o < Len(log) /\ log[o + 1] = "event"
  /\ NothingBefore(o)
  /\ last' = o + 1 /\ got' = Append(got, o)
  /\ UNCHANGED <<log, first, state>>

\* The client learns that there is nothing for it below offset n.
Advance(n) ==
  /\ state = "following"
  /\ n > last
  /\ NothingBefore(n)
  /\ last' = n
  /\ UNCHANGED <<log, first, state, got>>

GiveUp ==
  /\ state = "following"
  /\ first > last \/ got = <<>>
  /\ state' = "failed"
  /\ UNCHANGED <<log, first, last, got>>

Release ==
  /\ state = "following"
  /\ state' = "released"
  /\ UNCHANGED <<log, first, last, got>>

Next ==
  \/ Publish \/ Expire \/ GiveUp \/ Release
  \/ \E o \in 0..(Len(log) - 1) : Receive(o)
  \/ \E n \in 0..Len(log) : Advance(n)

Spec == Init /\ [][Next]_vars
=============================================================================
