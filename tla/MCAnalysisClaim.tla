--------------------------- MODULE MCAnalysisClaim ---------------------------
(* Small instances of AnalysisClaim for TLC, with the choice of frames that comes before
   the analysis. *)
EXTENDS AnalysisClaim, TLC

WorkerSymmetry == Permutations(Workers)
==============================================================================
