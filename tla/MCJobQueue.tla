----------------------------- MODULE MCJobQueue -----------------------------
(* Instances of JobQueue for TLC.                                          *)
EXTENDS JobQueue, TLC

\* jobs and workers are interchangeable where no liveness is checked
Symmetry == Permutations(Jobs) \cup Permutations(Workers)
=============================================================================
