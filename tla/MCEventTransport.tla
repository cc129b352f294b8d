-------------------------- MODULE MCEventTransport --------------------------
(***************************************************************************)
(* EventTransport with few events, faults and messages for TLC.            *)
(***************************************************************************)
EXTENDS EventTransport
=============================================================================
