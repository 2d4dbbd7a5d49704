----------------------------- MODULE MCAdmission ----------------------------
(* Instances of Admission for TLC.                                         *)
EXTENDS Admission, TLC

CONSTANTS u1, t1, t2, w1, w2, j1, j2, j3
MCUsers == {u1}
MCThreads == {t1, t2}
MCOneThread == {t1}
MCWorkers == {w1, w2}
MCJobs == {j1, j2, j3}
MCQuota == [runs |-> 2, seconds |-> 2]
Interchangeable ==
  Permutations(MCThreads) \cup Permutations(MCWorkers) \cup Permutations(MCJobs)
=============================================================================
