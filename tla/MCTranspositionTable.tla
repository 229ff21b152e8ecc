------------------------ MODULE MCTranspositionTable ------------------------
(* Small instances of TranspositionTable for TLC. *)
EXTENDS TranspositionTable, TLC, FiniteSets

CONSTANTS t1, t2, h1, h2, h3, x, y, z, none

TwoThreads == {t1, t2}

(* Two positions share a slot, a third has one of its own. *)
ThreeHashes == {h1, h2, h3}
SlotsOfThree == h1 :> 1 @@ h2 :> 1 @@ h3 :> 2

E(h, d, a, v) ==
  "hash" :> h @@ "depth" :> d @@ "score" :> v @@ "best_move" :> v @@ "age" :> a
  @@ "node" :> v

(* A deeper and a later entry of one position, one of each other position.  *)
FourEntries == { E(h1, 1, 0, x), E(h1, 0, 1, y), E(h2, 0, 0, z), E(h3, 0, 0, z) }
=============================================================================
