----------------------------- MODULE MCNodeTree -----------------------------
(* A small tree for TLC. *)
EXTENDS NodeTree, TLC

CONSTANTS mast, w1, w2

TwoWorkers == {w1, w2}
WorkersAlike == Permutations(TwoWorkers)
=============================================================================
