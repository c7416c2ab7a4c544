---------------------------- MODULE MCAsyncEngine ----------------------------
(***************************************************************************)
(* A small engine for TLC.                                                 *)
(***************************************************************************)
EXTENDS AsyncEngine
=============================================================================
