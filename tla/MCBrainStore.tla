----------------------------- MODULE MCBrainStore ---------------------------
(* Instances of BrainStore for TLC.                                        *)
EXTENDS BrainStore, TLC

Interchangeable == Permutations(Writers) \cup Permutations(Records)
=============================================================================
