---------------------------- MODULE MCPublisher ----------------------------
(* Values of the constants of Publisher for TLC.                           *)
EXTENDS Publisher
=============================================================================
