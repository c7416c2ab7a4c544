----------------------------- MODULE MCTaskRun -----------------------------
(***************************************************************************)
(* A small task for TLC: two Cases, one resource, at most two interrupts.  *)
(***************************************************************************)
EXTENDS TaskRunProperties
=============================================================================
