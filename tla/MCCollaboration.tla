--------------------------- MODULE MCCollaboration --------------------------
(***************************************************************************)
(* Collaboration with one revision and few faults for TLC.                 *)
(***************************************************************************)
EXTENDS Collaboration
=============================================================================
