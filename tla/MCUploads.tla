------------------------------ MODULE MCUploads ------------------------------
(* Small instances of Uploads for TLC. *)
EXTENDS Uploads, TLC

Symmetry == Permutations(Requests) \cup Permutations(Sweepers)
==============================================================================
