----------------------------- MODULE MCScheduler -----------------------------
(* Small instances of Scheduler for TLC. *)
EXTENDS Scheduler, TLC

CONSTANTS c, mon, w1, w2, j1, j2, j3, j4, none, nojob

OneWorker == {w1}
TwoWorkers == {w1, w2}
OneJob == {j1}
TwoJobs == {j1, j2}
ThreeJobs == {j1, j2, j3}
LastJob == {j4}
FourJobs == {j1, j2, j3, j4}
AllWaitedFor == {}
=============================================================================
