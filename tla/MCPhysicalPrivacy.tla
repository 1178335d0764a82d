-------------------------- MODULE MCPhysicalPrivacy -------------------------
(***************************************************************************)
(* PhysicalPrivacy for TLC: callers are interchangeable in the safety run. *)
(***************************************************************************)
EXTENDS PhysicalPrivacy, TLC

Symmetry == Permutations(Callers)
=============================================================================
