--------------------------- MODULE MCEventStream ---------------------------
(* Values of the constants of EventStream for TLC. A client starts anew,   *)
(* with a malformed Last-Event-ID, or with one from an earlier life of the *)
(* stream.                                                                 *)
EXTENDS EventStreamInv

MCInitialIDs == {-1, 0, 1}
=============================================================================
