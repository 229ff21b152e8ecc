------------------------------- MODULE Board -------------------------------
(***************************************************************************)
(* The board as the engine sees it: bitboards are sets of squares, and the  *)
(* shift macros, attack tables and fills of move_gen.hpp, initializer.cpp   *)
(* and fill.cpp are operators on them.  Squares count from a1 along the     *)
(* ranks, as in types.hpp.                                                  *)
(***************************************************************************)
EXTENDS Integers, FiniteSets

Squares == 0 .. 63
File(s) == s % 8
Rank(s) == s \div 8
OnRank(r) == 8 * r .. 8 * r + 7

Colors == {"white", "black"}
OPP(c) == IF c = "white" THEN "black" ELSE "white"
PieceKinds == {"rook", "bishop", "knight", "king", "queen", "pawn"}
NONE == "none"

Xor(a, b) == (a \ b) \cup (b \ a)

(* The square a bitboard of one square stands for (Index).                  *)
Index(bb) == CHOOSE s \in bb : TRUE

-----------------------------------------------------------------------------
(* Shifts: the MOVE_ macros mask the squares that wrap around an edge.      *)
Shift(bb, df, dr) ==
  { s + 8 * dr + df : s \in { t \in bb : File(t) + df \in 0 .. 7 /\ Rank(t) + dr \in 0 .. 7 } }

Forward(c) == IF c = "white" THEN 1 ELSE -1
HomeRank(c) == IF c = "white" THEN OnRank(0) ELSE OnRank(7)
PawnRank(c) == IF c = "white" THEN OnRank(1) ELSE OnRank(6)
BeforePromotion(c) == PawnRank(OPP(c))

East == 1
West == -1

PushPawn(c, bb) == Shift(bb, 0, Forward(c))
DoublePushPawn(c, bb, empty) ==
  PushPawn(c, PushPawn(c, bb \cap PawnRank(c)) \cap empty) \cap empty
PawnTargets(c, compass, bb) == Shift(bb, compass, Forward(c))

KingSteps == (-1 .. 1) \X (-1 .. 1) \ {<<0, 0>>}
KnightSteps == { d \in (-2 .. 2) \X (-2 .. 2) : d[1] * d[1] + d[2] * d[2] = 5 }
Steps(bb, ds) == UNION { Shift(bb, d[1], d[2]) : d \in ds }
KingAttacks(bb) == Steps(bb, KingSteps)
KnightAttacks(bb) == Steps(bb, KnightSteps)

-----------------------------------------------------------------------------
(* Lines.  A slider reaches the squares of its lines with nothing between.  *)
Abs(n) == IF n < 0 THEN -n ELSE n
Sign(n) == IF n < 0 THEN -1 ELSE IF n > 0 THEN 1 ELSE 0

RookLine(a, b) == a # b /\ (File(a) = File(b) \/ Rank(a) = Rank(b))
BishopLine(a, b) == a # b /\ Abs(File(a) - File(b)) = Abs(Rank(a) - Rank(b))

(* kAttackMaps[ROOK] and [BISHOP]: the lines of an empty board.             *)
RookMap == [a \in Squares |-> { b \in Squares : RookLine(a, b) }]
BishopMap == [a \in Squares |-> { b \in Squares : BishopLine(a, b) }]

(* kCheckBetween: the squares strictly between two squares of a line.       *)
Between ==
  [a \in Squares |-> [b \in Squares |->
    IF RookLine(a, b) \/ BishopLine(a, b)
    THEN LET step == 8 * Sign(Rank(b) - Rank(a)) + Sign(File(b) - File(a))
         IN { a + k * step :
                k \in 1 .. (IF Rank(a) = Rank(b) THEN Abs(File(a) - File(b))
                                                 ELSE Abs(Rank(a) - Rank(b))) - 1 }
    ELSE {}]]

Slides(map, occupied, s) == { t \in map[s] : Between[s][t] \cap occupied = {} }

RookAttacks(occupied, s) == Slides(RookMap, occupied, s)
BishopAttacks(occupied, s) == Slides(BishopMap, occupied, s)

(* The attacks through the first own blockers.                              *)
XRayAttacks(map, attacks, occupied, blockers, s) ==
  Xor(attacks, Slides(map, Xor(occupied, blockers \cap attacks), s))

=============================================================================
