---------------------------- MODULE MCRunControl ----------------------------
(***************************************************************************)
(* RunControl with a few commands for TLC.                                 *)
(***************************************************************************)
EXTENDS RunControl
=============================================================================
