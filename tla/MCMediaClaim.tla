---------------------------- MODULE MCMediaClaim ----------------------------
(* Small instances of MediaClaim for TLC. *)
EXTENDS MediaClaim, TLC

WorkerSymmetry == Permutations(Workers)
=============================================================================
