--------------------------- MODULE MC_PipelineRun ---------------------------
(* Small instances of PipelineRun. *)
EXTENDS PipelineRun, TLC

\* The candidates are interchangeable.
Symmetry == Permutations(Candidates)
=============================================================================
