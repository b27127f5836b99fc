------------------------- MODULE MCAnalysisPipeline -------------------------
(* A small instance for TLC; no symmetry, for its run checks liveness.       *)
EXTENDS AnalysisPipeline
=============================================================================
