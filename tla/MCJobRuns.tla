------------------------------ MODULE MCJobRuns ------------------------------
(* Instances of JobRuns for TLC.                                            *)
EXTENDS JobRuns, TLC

\* Runs, dispatchers and workers are interchangeable: safety only.
Symmetry ==
  Permutations(Runs) \cup Permutations(Dispatchers) \cup Permutations(Workers)

==============================================================================
