----------------------------- MODULE Evaluation -----------------------------
(***************************************************************************)
(* The static evaluation (evaluation.cpp): terms of one position, each      *)
(* White's minus Black's, weighed for the opening and for the endgame and   *)
(* tapered between them.  Floats hold whole numbers wherever they are       *)
(* added; those that do not are truncated where the code truncates.         *)
(***************************************************************************)
EXTENDS Position
LOCAL INSTANCE FiniteSetsExt

(* <<opening, endgame>>, as the rows of kWeights.                           *)
Weigh(n, weight) == <<n * weight[1], n * weight[2]>>
a ++ b == <<a[1] + b[1], a[2] + b[2]>>
Minus(a) == Weigh(-1, a)
Both(n) == <<n, n>>

kWeights ==
  [rook |-> <<500, 500>>, bishop |-> <<325, 325>>, knight |-> <<325, 325>>,
   king |-> <<2000, 2000>>, queen |-> <<975, 975>>, pawn |-> <<70, 90>>,
   bishop_pair |-> <<50, 50>>, doubled |-> <<10, 20>>,
   isolated |-> <<10, 20>>, isolated_open |-> <<20, 20>>,
   backward |-> <<8, 10>>, backward_open |-> <<16, 10>>, tempo |-> <<20, 10>>,
   knight_mobility |-> <<4, 4>>, bishop_mobility |-> <<5, 5>>, rook_mobility |-> <<2, 4>>,
   closed |-> <<-10, -10>>,
   semi_open |-> <<0, 0>>, semi_open_adj |-> <<10, 0>>, semi_open_same |-> <<20, 0>>,
   open |-> <<10, 10>>, open_adj |-> <<20, 10>>, open_same |-> <<30, 10>>,
   rook_7th |-> <<20, 40>>, queen_7th |-> <<10, 20>>]

Truncate(n, d) == Sign(n) * (Abs(n) \div d)
Count(S, Good(_)) == Cardinality({ s \in S : Good(s) })

(* Of a term, White less Black.                                             *)
Balance(term(_)) == term("white") - term("black")

-----------------------------------------------------------------------------
(* Fills: NorthFill for White and SouthFill for Black, from the squares of  *)
(* bb on; FileFill both ways.                                               *)
FrontFill(c, bb) ==
  { t \in Squares : \E s \in bb : File(s) = File(t) /\ Forward(c) * (Rank(t) - Rank(s)) >= 0 }
FileFill(bb) == { t \in Squares : \E s \in bb : File(s) = File(t) }
Beside(bb) == Shift(bb, West, 0) \cup Shift(bb, East, 0)
Targets(c, bb) == PawnTargets(c, East, bb) \cup PawnTargets(c, West, bb)

(* RankMask of the index of a bitboard: of no square it is the first rank.  *)
RankMask(bb) == IF bb = {} THEN OnRank(0) ELSE OnRank(Rank(Index(bb)))

AttackMap(p, c) ==
  LET of(k) == p.pieces[c][k]
  IN Targets(c, of("pawn")) \cup KnightAttacks(of("knight")) \cup KingAttacks(of("king"))
     \cup (UNION { BishopAttacks(p.occupied_sqs, s) : s \in of("queen") \cup of("bishop") })
     \cup (UNION { RookAttacks(p.occupied_sqs, s) : s \in of("queen") \cup of("rook") })

Phase(p) ==
  LET sum(k) == Cardinality(p.pieces["white"][k]) + Cardinality(p.pieces["black"][k])
      score == 24 - 4 * sum("queen") - 2 * sum("rook") - sum("bishop") - sum("knight")
  IN Truncate(score * 256 + 12, 24)

-----------------------------------------------------------------------------
EvalMaterials(p) ==
  LET number(k) == Balance(LAMBDA c : Cardinality(p.pieces[c][k]))
      light(s) == (File(s) + Rank(s)) % 2 = 1
      pair(c) == IF \E s, t \in p.pieces[c]["bishop"] : light(s) /\ ~light(t) THEN 1 ELSE 0
  IN Weigh(number("pawn"), kWeights.pawn) ++ Weigh(number("king"), kWeights.king)
     ++ Weigh(number("queen"), kWeights.queen) ++ Weigh(number("rook"), kWeights.rook)
     ++ Weigh(number("bishop"), kWeights.bishop) ++ Weigh(number("knight"), kWeights.knight)
     ++ Weigh(Balance(pair), kWeights.bishop_pair)

SquaresFrom(p, k, s) ==
  CASE k = "rook" -> RookAttacks(p.occupied_sqs, s)
    [] k = "bishop" -> BishopAttacks(p.occupied_sqs, s)
    [] k = "knight" -> KnightAttacks({s})

(* The squares a piece may go to, less what is normal for its kind.         *)
Mobility(p, c, k, normal) ==
  MapThenSumSet(LAMBDA s : Cardinality(SquaresFrom(p, k, s) \ Occupancy(p.pieces, c)) - normal,
                p.pieces[c][k])

EvalMobility(p) ==
  Weigh(Balance(LAMBDA c : Mobility(p, c, "rook", 7)), kWeights.rook_mobility)
  ++ Weigh(Balance(LAMBDA c : Mobility(p, c, "bishop", 6)), kWeights.bishop_mobility)
  ++ Weigh(Balance(LAMBDA c : Mobility(p, c, "knight", 4)), kWeights.knight_mobility)

(* Rooks by the pawns on their file; on files without own pawns it counts    *)
(* whether the enemy king is on the file or beside it.                       *)
ClosedFiles(p, c) == { s \in p.pieces[c]["rook"] : FileFill({s}) \cap p.pieces[c]["pawn"] # {} }
SemiOpenFiles(p, c) ==
  { s \in p.pieces[c]["rook"] \ ClosedFiles(p, c) : FileFill({s}) \cap p.pieces[OPP(c)]["pawn"] # {} }
OpenFiles(p, c) == p.pieces[c]["rook"] \ (ClosedFiles(p, c) \cup SemiOpenFiles(p, c))

(* Bug: both sides look at White's king.                                    *)
WhiteKingFile(p, c) == File(Index(p.pieces["white"]["king"]))
EnemyKingFile(p, c) == File(Index(p.pieces[OPP(c)]["king"]))

EvalOpenFile(p) ==
  LET king(c) == EnemyKingFile(p, c)
      all(files(_, _)) == Balance(LAMBDA c : Cardinality(files(p, c)))
      adj(files(_, _)) ==
        Balance(LAMBDA c : Count(files(p, c), LAMBDA s : Abs(File(s) - king(c)) = 1))
      same(files(_, _)) == Balance(LAMBDA c : Count(files(p, c), LAMBDA s : File(s) = king(c)))
  IN Weigh(all(ClosedFiles), kWeights.closed)
     ++ Weigh(all(SemiOpenFiles), kWeights.semi_open)
     ++ Weigh(adj(SemiOpenFiles), kWeights.semi_open_adj)
     ++ Weigh(same(SemiOpenFiles), kWeights.semi_open_same)
     ++ Weigh(all(OpenFiles), kWeights.open)
     ++ Weigh(adj(OpenFiles), kWeights.open_adj)
     ++ Weigh(same(OpenFiles), kWeights.open_same)

(* Whether there is a piece beside pawns on the rank, not how many.          *)
Rank7(p, c, k) ==
  LET rank == PawnRank(OPP(c))
  IN IF p.pieces[OPP(c)]["pawn"] \cap rank # {} /\ p.pieces[c][k] \cap rank # {} THEN 1 ELSE 0

EvalRank7(p) ==
  Weigh(Balance(LAMBDA c : Rank7(p, c, "rook")), kWeights.rook_7th)
  ++ Weigh(Balance(LAMBDA c : Rank7(p, c, "queen")), kWeights.queen_7th)

(* How near the queens are to the enemy king.                               *)
KingDistance(p, c) ==
  LET king == Index(p.pieces[OPP(c)]["king"])
  IN MapThenSumSet(LAMBDA s : 10 - Abs(File(s) - File(king)) - Abs(Rank(s) - Rank(king)),
                   p.pieces[c]["queen"])

EvalPieces(p) ==
  EvalMobility(p) ++ EvalOpenFile(p) ++ EvalRank7(p)
  ++ Both(Balance(LAMBDA c : KingDistance(p, c)))

-----------------------------------------------------------------------------
(* The loops over pawns take squares out of the set they test, so what they  *)
(* count depends on the order.                                              *)
RECURSIVE DoublePawns(_, _), IsolatedPawns(_, _, _)

(* From the highest square down, whichever the side.  The fill holds the     *)
(* pawn itself, and Black's runs away from the pawns still to come.          *)
DoublePawns(c, pawns) ==
  IF pawns = {} THEN 0
  ELSE LET highest == CHOOSE s \in pawns : \A t \in pawns : s >= t
           targets == FrontFill(OPP(c), {highest}) \cap pawns
       IN (IF targets # {} THEN 1 ELSE 0) + DoublePawns(c, pawns \ ({highest} \cup targets))

(* From the lowest square up; the neighbours of a pawn leave with it.  The   *)
(* isolated ones, and the squares before them.                              *)
IsolatedPawns(c, pawns, empty) ==
  IF pawns = {} THEN <<0, 0>>
  ELSE LET lowest == CHOOSE s \in pawns : \A t \in pawns : s <= t
           targets == FileFill(Beside({lowest})) \cap pawns
           open == PushPawn(c, {lowest}) \cap empty # {}
       IN (IF targets # {} THEN <<0, 0>> ELSE <<1, IF open THEN 1 ELSE 0>>)
          ++ IsolatedPawns(c, pawns \ ({lowest} \cup targets), empty)

(* left holds the pawns the loop has not passed, bb among them.             *)
Backward(c, bb, left, enemy, pawns) ==
  LET push == PushPawn(c, bb)
      double == PushPawn(c, push)
      triple == PushPawn(c, double)
      ahead == RankMask(push) \cup RankMask(double)
      home == bb \cap PawnRank(c) # {}
      fill(compass) == FrontFill(c, Shift(push, compass, 0))
      guarded(compass, ranks) == fill(compass) \cap ranks \cap enemy # {}
      supports(compass) == PawnTargets(c, compass, bb) \cap left # {}
      blocked == push \cap pawns # {}
  IN \/ home /\ (push \cup double) \cap pawns # {}
     \/ home /\ \E compass \in {West, East} : guarded(compass, ahead \cup RankMask(triple))
     \/ supports(East) /\ (guarded(West, ahead) \/ blocked)
     \/ supports(West) /\ (guarded(East, ahead) \/ blocked)
     \/ /\ RankMask(push) \cap pawns = {}
        /\ fill(West) \cap pawns # {} /\ fill(East) \cap pawns # {}

BackwardPawns(c, side, enemy) ==
  LET pawns == side \cup enemy
      backward == { s \in side : Backward(c, {s}, { t \in side : t >= s }, enemy, pawns) }
  IN <<Cardinality(backward), Count(backward, LAMBDA s : PushPawn(c, {s}) \ pawns # {})>>

EvalPawnStructure(p) ==
  LET pawns(c) == p.pieces[c]["pawn"]
      empty == Squares \ (pawns("white") \cup pawns("black"))
      isolated(c) == IsolatedPawns(c, pawns(c), empty)
      backward(c) == BackwardPawns(c, pawns(c), pawns(OPP(c)))
      part(f(_), i) == Balance(LAMBDA c : f(c)[i])
  IN Weigh(Balance(LAMBDA c : DoublePawns(c, pawns(c))), kWeights.doubled)
     ++ Weigh(part(isolated, 1), kWeights.isolated)
     ++ Weigh(part(backward, 1), kWeights.backward)
     ++ Weigh(part(isolated, 2), kWeights.isolated_open)
     ++ Weigh(part(backward, 2), kWeights.backward_open)

(* PP_BONUS, in tenths, of the rank counted from 1 for White and from 8 for  *)
(* Black's edge, where 8 is 0.                                              *)
Bonus(c, s) ==
  <<0, 0, 0, 1, 3, 6, 10, 0>>[1 + Abs(Rank(s) + 1 - (IF c = "white" THEN 0 ELSE 8))]

PassedPawns(p, c) ==
  LET own == p.pieces[c]["pawn"]
      enemy == p.pieces[OPP(c)]["pawn"]
      front(bb) == FrontFill(c, bb) \ bb
      passed == { s \in own : /\ front({s}) \cap (own \cup enemy) = {}
                              /\ front(Beside({s})) \cap enemy = {} }
      free(s) == PushPawn(c, {s}) \ (p.occupied_sqs \cup AttackMap(p, OPP(c))) # {}
  IN <<MapThenSumSet(LAMBDA s : 10 + 6 * Bonus(c, s), passed),
       MapThenSumSet(LAMBDA s : 20 + (IF free(s) THEN 18 ELSE 12) * Bonus(c, s), passed)>>

EvalPassedPawns(p) == PassedPawns(p, "white") ++ Minus(PassedPawns(p, "black"))

-----------------------------------------------------------------------------
(* The king's shelter, the pawns that storm it, and the pieces near the      *)
(* enemy king: knights of the enemy, the others of the king's own side.      *)

(* The rank of a square as its side counts it, from 1.                      *)
OwnRank(c, s) == IF c = "white" THEN Rank(s) + 1 ELSE 8 - Rank(s)

ShelterPenalty(p, c) ==
  LET king == p.pieces[c]["king"]
      kingFile == FrontFill(c, king)
      shelter == PushPawn(c, king) \cup Targets(c, king)
      pawns == FrontFill(c, shelter) \cap p.pieces[c]["pawn"]
      weight(s) == IF s \in kingFile THEN 2 ELSE 1
      distance(s) == 8 - OwnRank(c, s)
      penalty == MapThenSumSet(LAMBDA s : (36 - distance(s) * distance(s)) * weight(s), pawns)
                 + MapThenSumSet(LAMBDA s : 36 * weight(s), shelter \ FileFill(pawns))
  IN IF penalty = 0 THEN -11 ELSE penalty

Storm(c, s) == CASE OwnRank(c, s) = 3 -> 60 [] OwnRank(c, s) = 4 -> 30
                 [] OwnRank(c, s) = 5 -> 10 [] OTHER -> 0

StormPenalty(p, c) ==
  LET king == p.pieces[c]["king"]
      files == FrontFill(c, PushPawn(c, king) \cup Targets(c, king))
  IN MapThenSumSet(LAMBDA s : Storm(c, s), files \cap p.pieces[OPP(c)]["pawn"])

AttackersScore(p, c) ==
  LET own == p.pieces[c]
      adjacent == KingAttacks(p.pieces[OPP(c)]["king"])
      near == adjacent \cup KingAttacks(adjacent)
      knights == { s \in p.pieces[OPP(c)]["knight"] : KnightAttacks({s}) \cap near # {} }
      diagonal == { s \in own["bishop"] \cup own["queen"] :
                      \/ BishopMap[s] \cap adjacent # {}
                      \/ BishopAttacks(p.occupied_sqs, s) \cap near # {} }
      straight == { s \in own["rook"] \cup own["queen"] :
                      \/ RookMap[s] \cap adjacent # {}
                      \/ RookAttacks(p.occupied_sqs, s) \cap near # {} }
      value == Cardinality(knights)
               + Cardinality(diagonal \cap own["bishop"]) + 4 * Cardinality(diagonal \cap own["queen"])
               + 2 * Cardinality(straight \cap own["rook"]) + 4 * Cardinality(straight \cap own["queen"])
      hundredths == <<0, 0, 50, 75, 88, 94, 97, 99>>
  IN (20 * value * hundredths[1 + Cardinality(knights \cup diagonal \cup straight)]) \div 100

(* Without an enemy queen and another officer there is nothing to fear.      *)
KingPosition(p, c) ==
  LET enemy == p.pieces[OPP(c)]
  IN IF enemy["queen"] = {} \/ enemy["bishop"] \cup enemy["knight"] \cup enemy["rook"] = {} THEN 0
     ELSE ShelterPenalty(p, c) + StormPenalty(p, c) - AttackersScore(p, c)

EvalKingPosition(p) == -Balance(LAMBDA c : KingPosition(p, c))

(* From White's side, whoever moves.                                        *)
Evaluate(p) ==
  LET terms == Weigh(IF p.turn = "white" THEN 1 ELSE -1, kWeights.tempo)
               ++ EvalMaterials(p) ++ EvalPieces(p) ++ Minus(EvalPawnStructure(p))
               ++ <<EvalKingPosition(p), 0>> ++ EvalPassedPawns(p)
      phase == Phase(p)
  IN Truncate(terms[1] * (256 - phase) + terms[2] * phase, 256)

=============================================================================
