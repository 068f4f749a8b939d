-------------------------- MODULE MCExecutionSpace --------------------------
(* Values of the constants of ExecutionSpace for TLC.                      *)
EXTENDS ExecutionSpace
=============================================================================
