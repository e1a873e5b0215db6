--------------------------- MODULE MC_ScoringTask ---------------------------
(***************************************************************************)
(* Instances of ScoringTask for TLC.                                       *)
(***************************************************************************)
EXTENDS ScoringTask, TLC

\* Tasks, workers and request slots are interchangeable.
Symmetry == Permutations(Tasks) \cup Permutations(Workers) \cup Permutations(Requests)
=============================================================================
