--------------------------- MODULE MCRunProgress ---------------------------
(***************************************************************************)
(* A small run for TLC: the second Case of each task writes records longer *)
(* than the line limit.                                                    *)
(***************************************************************************)
EXTENDS RunProgressProperties
=============================================================================
