----------------------------- MODULE MCSession -----------------------------
(* Two positions one move apart, two lines, and any three keys, one of them  *)
(* perhaps the one that closes the screen.                                  *)
EXTENDS Session

CONSTANTS p1, p2

MCPositions == {p1, p2}
MCReplies == [p \in MCPositions |-> MCPositions \ {p}]
=============================================================================
