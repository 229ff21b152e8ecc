------------------------------- MODULE Rules -------------------------------
(***************************************************************************)
(* The rules of chess, as the reference GenerateMoves is compared with:     *)
(* what a piece may do by itself, and that no move may leave the own king   *)
(* attacked.  Nothing here uses masks, pins, the squares banned for the     *)
(* king, the mailbox or the rights and the en passant square the position   *)
(* keeps: those are given.                                                  *)
(***************************************************************************)
EXTENDS MoveGen

OccupiedBy(pieces) == Occupancy(pieces, "white") \cup Occupancy(pieces, "black")

(* The squares a piece on s attacks.                                        *)
Reach(pieces, k, c, s) ==
  CASE k = "king"   -> KingAttacks({s})
    [] k = "knight" -> KnightAttacks({s})
    [] k = "rook"   -> RookAttacks(OccupiedBy(pieces), s)
    [] k = "bishop" -> BishopAttacks(OccupiedBy(pieces), s)
    [] k = "queen"  -> RookAttacks(OccupiedBy(pieces), s) \cup BishopAttacks(OccupiedBy(pieces), s)
    [] k = "pawn"   -> PawnTargets(c, East, {s}) \cup PawnTargets(c, West, {s})

Attacked(pieces, by, s) ==
  \E k \in PieceKinds : \E t \in pieces[by][k] : s \in Reach(pieces, k, by, t)

InCheck(pieces, c) == Attacked(pieces, OPP(c), Index(pieces[c]["king"]))

(* Where the pieces stand after a move.  The castling rook is left where it *)
(* was: it never uncovers the king.                                         *)
Moved(pieces, c, m) ==
  LET taken == IF Is(m, "EN_PASSANT") THEN {8 * Rank(m.from) + File(m.to)} ELSE {m.to}
      become == IF m.promoted = NONE THEN m.piece ELSE m.promoted
  IN [d \in Colors |-> [k \in PieceKinds |->
        IF d = OPP(c) THEN pieces[d][k] \ taken
        ELSE (pieces[d][k] \ {m.from}) \cup (IF k = become THEN {m.to} ELSE {})]]

To(p, s, k, t) ==
  [Quiet(s, t, k) EXCEPT
     !.captured = PieceOn(p.pieces, t),
     !.flags = IF t \in Occupancy(p.pieces, OPP(p.turn)) THEN {"CAPTURE"} ELSE {}]

PawnMoves(p, s, enPassant) ==
  LET empty == Squares \ OccupiedBy(p.pieces)
      step == PushPawn(p.turn, {s}) \cap empty
      leap == IF s \in PawnRank(p.turn) THEN PushPawn(p.turn, step) \cap empty ELSE {}
      takes == Reach(p.pieces, "pawn", p.turn, s) \cap Occupancy(p.pieces, OPP(p.turn))
      plain == { To(p, s, "pawn", t) : t \in step \cup leap \cup takes }
      promoting == { m \in plain : m.to \in HomeRank(OPP(p.turn)) }
  IN (plain \ promoting)
     \cup { [m EXCEPT !.promoted = k, !.flags = @ \cup {"PROMOTION"}] :
              m \in promoting, k \in Promotable }
     \cup { Flagged(s, t, "pawn", "EN_PASSANT") :
              t \in Reach(p.pieces, "pawn", p.turn, s) \cap enPassant }

(* The king goes two squares towards a rook that has its right, over empty  *)
(* squares, and neither starts on nor passes an attacked one.               *)
CastlingMoves(p, rights) ==
  LET king == Index(Own(p, "king"))
      may(right, rook, passed) ==
        /\ right \in rights
        /\ Between[king][rook] \cap OccupiedBy(p.pieces) = {}
        /\ \A s \in {king, passed} : ~Attacked(p.pieces, OPP(p.turn), s)
  IN { Flagged(king, king + 2, "king", "CASTLE_KING_SIDE") :
         s \in { t \in {KingRook(p.turn)} : may(KingSide(p.turn), t, king + 1) } }
     \cup { Flagged(king, king - 2, "king", "CASTLE_QUEEN_SIDE") :
              s \in { t \in {QueenRook(p.turn)} : may(QueenSide(p.turn), t, king - 1) } }

PieceMoves(p, s, k) ==
  { To(p, s, k, t) : t \in Reach(p.pieces, k, p.turn, s) \ Occupancy(p.pieces, p.turn) }

RulesMoves(p, rights, enPassant) ==
  { m \in CastlingMoves(p, rights)
          \cup (UNION { PawnMoves(p, s, enPassant) : s \in Own(p, "pawn") })
          \cup (UNION { UNION { PieceMoves(p, s, k) : s \in Own(p, k) } : k \in PieceKinds \ {"pawn"} }) :
      ~InCheck(Moved(p.pieces, p.turn, m), p.turn) }

=============================================================================
