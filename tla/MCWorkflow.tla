----------------------------- MODULE MCWorkflow -----------------------------
(***************************************************************************)
(* Workflow on small limits for TLC.                                       *)
(***************************************************************************)
EXTENDS WorkflowProperties
=============================================================================
