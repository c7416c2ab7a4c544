--------------------------- MODULE MCSandboxScope ---------------------------
(***************************************************************************)
(* A small scope for TLC: two executions of the sandbox.                   *)
(***************************************************************************)
EXTENDS SandboxScope
=============================================================================
