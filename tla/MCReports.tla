------------------------------ MODULE MCReports ------------------------------
(* A small instance of Reports for TLC. *)
EXTENDS Reports, TLC

RequestSymmetry == Permutations(Requests)
=============================================================================
