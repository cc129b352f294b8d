--------------------------- MODULE MCDeliverables ---------------------------
(***************************************************************************)
(* Deliverables, and with it RunSetup, with two slots for TLC.  The slots  *)
(* are interchangeable.                                                    *)
(***************************************************************************)
EXTENDS Deliverables, TLC

SlotSymmetry == Permutations(Slots)
=============================================================================
