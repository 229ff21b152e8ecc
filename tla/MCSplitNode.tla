----------------------------- MODULE MCSplitNode -----------------------------
(* Small instances of SplitNode for TLC. *)
EXTENDS SplitNode, TLC

CONSTANTS mast, w1, w2, h, none

NullWindowScoresSet == {-1, 0, 1, 2}
OneWorker == {w1}
TwoWorkers == {w1, w2}
OneHelper == {h}
SlavesOnly == Slaves
Nobody == {}
FewScoresSet == {-2, 0, 1, 2}
MinusOne == -1
MinusTwo == -2

(* The order of the registry's stack is not modelled: workers are alike. *)
WorkersAlike == Permutations(Workers)
=============================================================================
