----------------------------- MODULE MCWorkspace -----------------------------
(* A small instance of Workspace for TLC. *)
EXTENDS Workspace, TLC

RequestSymmetry == Permutations(Requests)
UserSymmetry == Permutations(Users)
Symmetry == RequestSymmetry \cup UserSymmetry
=============================================================================
