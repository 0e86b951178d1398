---------------------------- MODULE MCEngineGate ----------------------------
(* EngineGate for TLC: interchangeable launches. *)
EXTENDS EngineGate, TLC

SlotSymmetry == Permutations(Slot)
=============================================================================
