----------------------------- MODULE MCAlphaBeta -----------------------------
(* Small games for TLC. *)
EXTENDS AlphaBeta

To(p) == [to |-> p, capture |-> FALSE]
Takes(p) == [to |-> p, capture |-> TRUE]

(* Three plies without transpositions, and a recapture beyond the horizon.   *)
(* What the table returns was stored by an earlier search of the same node. *)
TreePositions == 1..10
Tree == << <<To(2), To(3)>>,
           <<To(4)>>,
           <<To(5), To(6)>>,
           <<>>,
           <<To(7), Takes(8)>>,
           <<To(9)>>,
           <<>>, <<Takes(10)>>,
           <<>>, <<>> >>

(* With these, the scout of 3 can fail high below the value of 3: 2 is worth *)
(* -1, the capture on 8 is worth 0 and 7 is worth 1.                        *)
Binary == {-1, 0}
JustRoot == {1}
=============================================================================
