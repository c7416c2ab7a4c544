----------------------------- MODULE MCMonitors -----------------------------
(***************************************************************************)
(* Small monitors for TLC: two series, so that one may appear or vanish    *)
(* while the other stays.                                                  *)
(***************************************************************************)
EXTENDS MonitorsProperties
=============================================================================
