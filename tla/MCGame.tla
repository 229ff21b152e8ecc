------------------------------- MODULE MCGame -------------------------------
(* Positions to start from, each for what can happen within a few moves of  *)
(* it.  A square is written as file and rank: 52 is e2.                     *)
EXTENDS Colours, TLC

Sq(n) == 8 * ((n % 10) - 1) + ((n \div 10) - 1)
Army(c, k, at) == [s \in { Sq(n) : n \in at } |-> <<k, c>>]
W(k, at) == Army("white", k, at)
B(k, at) == Army("black", k, at)

Fen(placement, turn, rights) ==
  [placement |-> placement, turn |-> turn, rights |-> rights, en_passant |-> {},
   halfmove |-> 0, fullmove |-> 1]

(* 8/2p5/3p4/KP5r/1R3p1k/8/4P1P1/8 b - - 0 1: pins, and en passant along the *)
(* rank of a king, for both sides.                                          *)
EnPassantPin == Fen(
  W("king", {15}) @@ W("rook", {24}) @@ W("pawn", {25, 52, 72})
  @@ B("king", {84}) @@ B("rook", {85}) @@ B("pawn", {37, 46, 64}), "black", {})

(* 8/8/8/3k4/1p6/8/PKP1B3/8 w - - 0 1: a double push that gives check, which *)
(* taking the pawn en passant answers.                                      *)
EnPassantCheck == Fen(
  W("king", {22}) @@ W("bishop", {52}) @@ W("pawn", {12, 32})
  @@ B("king", {45}) @@ B("pawn", {24}), "white", {})

(* r3k2r/1p6/8/8/6n1/8/8/R3K2R w KQkq - 0 1: castling on both sides, checks  *)
(* by a knight, rooks that face rooks in the corners, a push to b5.         *)
Castling == Fen(
  W("king", {51}) @@ W("rook", {11, 81})
  @@ B("king", {58}) @@ B("rook", {18, 88}) @@ B("knight", {74}) @@ B("pawn", {27}),
  "white", Rights)

(* n1n1k3/1P6/8/b7/4q3/2P5/3Q2p1/4K3 w - - 0 1: promotion by push and by     *)
(* capture, pins on a diagonal and on a file.                               *)
Promoting == Fen(
  W("king", {51}) @@ W("queen", {42}) @@ W("pawn", {27, 33})
  @@ B("king", {58}) @@ B("queen", {54}) @@ B("bishop", {15}) @@ B("knight", {18, 38})
  @@ B("pawn", {72}), "white", {})

(* The position of position_test.cpp and perft_test.cpp, black to move.      *)
Crowded == Fen(
  W("king", {51}) @@ W("queen", {63}) @@ W("rook", {11, 81}) @@ W("bishop", {42, 52})
  @@ W("knight", {33, 55}) @@ W("pawn", {12, 22, 32, 45, 54, 62, 72, 82})
  @@ B("king", {58}) @@ B("queen", {57}) @@ B("rook", {18, 88}) @@ B("bishop", {16, 77})
  @@ B("knight", {26, 66}) @@ B("pawn", {17, 24, 37, 47, 56, 67, 76, 83}), "black", Rights)

MCStarts == {EnPassantPin, EnPassantCheck, Castling, Promoting, Crowded}
FenStarts == {Castling}

-----------------------------------------------------------------------------
(* The positions of evaluation_test.cpp, lines 93 to 151, and the scores it  *)
(* expects.                                                                 *)
StartPosition == FromFen(Fen(
  W("king", {51}) @@ W("queen", {41}) @@ W("rook", {11, 81}) @@ W("bishop", {31, 61}) @@
  W("knight", {21, 71}) @@ W("pawn", {12, 22, 32, 42, 52, 62, 72, 82}) @@ B("king",
  {58}) @@ B("queen", {48}) @@ B("rook", {18, 88}) @@ B("bishop", {38, 68}) @@
  B("knight", {28, 78}) @@ B("pawn", {17, 27, 37, 47, 57, 67, 77, 87}), "white", {}))
PassersTested == FromFen(Fen(
  W("king", {71}) @@ W("rook", {23, 41}) @@ W("bishop", {72}) @@ W("knight", {33}) @@
  W("pawn", {44, 55, 62, 73, 82}) @@ B("king", {78}) @@ B("rook", {24, 68}) @@
  B("bishop", {47, 57}) @@ B("pawn", {34, 36, 53, 56, 77, 87}), "white", {}))
KingsTested == FromFen(Fen(
  W("king", {71}) @@ W("queen", {85}) @@ W("rook", {31, 41}) @@ W("bishop", {72}) @@
  W("knight", {52}) @@ W("pawn", {23, 44, 55, 62, 73, 82}) @@ B("king", {78}) @@
  B("queen", {12}) @@ B("rook", {28, 68}) @@ B("bishop", {47, 57}) @@ B("pawn", {25, 34,
  36, 56, 65, 77, 87}), "white", {}))
KingsTestedBlack == FromFen(Fen(
  W("king", {82}) @@ W("queen", {32}) @@ W("rook", {12, 52}) @@ W("bishop", {72}) @@
  W("knight", {53}) @@ W("pawn", {14, 33, 34, 45, 62, 73, 84}) @@ B("king", {88}) @@
  B("queen", {85}) @@ B("rook", {68, 77}) @@ B("bishop", {47, 57}) @@ B("pawn", {15, 26,
  37, 55, 87}), "white", {}))
ScoreTested == FromFen(Fen(
  W("king", {71}) @@ W("queen", {41}) @@ W("rook", {11, 61}) @@ W("bishop", {14, 24}) @@
  W("knight", {63, 86}) @@ W("pawn", {12, 17, 25, 34, 42, 54, 72, 82}) @@ B("king",
  {58}) @@ B("queen", {13}) @@ B("rook", {18, 88}) @@ B("bishop", {26, 76}) @@
  B("knight", {15, 66}) @@ B("pawn", {22, 27, 37, 47, 67, 77, 87}), "white", {}))

BackwardAt(white, black) ==
  BackwardPawns("white", { Sq(n) : n \in white }, { Sq(n) : n \in black })[1]

ASSUME EvaluationTest ==
  /\ Evaluate(StartPosition) = 20 /\ Evaluate(KingsTested) = -242 /\ Evaluate(ScoreTested) = 224
  /\ EvalPassedPawns(PassersTested) = <<-28, -56>>
  /\ EvalKingPosition(KingsTested) = -117 /\ EvalKingPosition(KingsTestedBlack) = -296
  /\ BackwardAt({16, 36, 24}, {}) = 1 /\ BackwardAt({36, 15, 24}, {}) = 0
  /\ BackwardAt({36, 15, 24}, {25}) = 1 /\ BackwardAt({15, 24}, {35}) = 1
  /\ BackwardAt({15, 24}, {36}) = 1 /\ BackwardAt({15, 25}, {36}) = 0
  /\ BackwardAt({14, 22}, {}) = 0 /\ BackwardAt({14, 24, 22}, {}) = 1
  /\ BackwardAt({14, 22}, {35}) = 1
=============================================================================
