------------------------------- MODULE MCCollab -------------------------------
(* A small instance of Collab for TLC. *)
EXTENDS Collab, TLC

Symmetry == Permutations(Pages)
=============================================================================
