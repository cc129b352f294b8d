-------------------------- MODULE MCProcessRunner --------------------------
(***************************************************************************)
(* ProcessRunner with two jobs for TLC.                                    *)
(***************************************************************************)
EXTENDS ProcessRunner
=============================================================================
