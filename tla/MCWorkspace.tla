----------------------------- MODULE MCWorkspace -----------------------------
(* The slots of requests are interchangeable, and every run checks safety.  *)
EXTENDS Workspace, TLC

SlotSymmetry == Permutations(Slots)
==============================================================================
