----------------------------- MODULE MCWorktrees ----------------------------
(***************************************************************************)
(* Worktrees with one revision and two cleanups for TLC.                   *)
(***************************************************************************)
EXTENDS Worktrees
=============================================================================
