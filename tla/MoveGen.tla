------------------------------ MODULE MoveGen ------------------------------
(***************************************************************************)
(* GenerateMoves (move_gen.cpp): the legal moves of a position, from masks  *)
(* of the squares that answer a check and of the lines pieces are pinned    *)
(* to.  The mailbox names what is captured.  Each part of the move list is  *)
(* an operator of its own.                                                  *)
(***************************************************************************)
EXTENDS Position

Universe == Squares

OwnBB(p) == Occupancy(p.pieces, p.turn)
EnemyBB(p) == Occupancy(p.pieces, OPP(p.turn)) \ Enemy(p, "king")
Empty(p) == Squares \ p.occupied_sqs
KingSquare(p) == Index(Own(p, "king"))
RookQueen(p) == Enemy(p, "rook") \cup Enemy(p, "queen")
BishopQueen(p) == Enemy(p, "bishop") \cup Enemy(p, "queen")

-----------------------------------------------------------------------------
(* The squares a move that is not the king's must go to: all of them        *)
(* without a check, none against two checks.                                *)

PawnOrKnightMask(p) ==
  LET king == Own(p, "king")
      opp == OPP(p.turn)
      knights == KnightAttacks(king) \cap Enemy(p, "knight")
  IN IF knights # {} THEN knights
     ELSE IF PawnTargets(opp, East, Enemy(p, "pawn")) \cap king # {}
          THEN PawnTargets(p.turn, West, king)
     ELSE IF PawnTargets(opp, West, Enemy(p, "pawn")) \cap king # {}
          THEN PawnTargets(p.turn, East, king)
     ELSE Universe

CheckMask(p) ==
  LET king == KingSquare(p)
      sliders == (BishopAttacks(p.occupied_sqs, king) \cap BishopQueen(p))
                 \cup (RookAttacks(p.occupied_sqs, king) \cap RookQueen(p))
      others == PawnOrKnightMask(p)
  IN IF sliders = {} THEN others
     ELSE IF others # Universe \/ Cardinality(sliders) > 1 THEN {}
     ELSE Between[king][Index(sliders)] \cup sliders

(* The lines between the king and the sliders that one own piece holds.     *)
Pins(p, map, sliders) ==
  LET king == KingSquare(p)
      attacks == Slides(map, p.occupied_sqs, king)
      xray == XRayAttacks(map, attacks, p.occupied_sqs, OwnBB(p), king)
  IN UNION { Between[king][s] \cup {s} : s \in xray \cap sliders }

PinHV(p) == Pins(p, RookMap, RookQueen(p))
PinDiag(p) == Pins(p, BishopMap, BishopQueen(p))

-----------------------------------------------------------------------------
(* captured and promoted are unset, and never read, without their flags.    *)
Quiet(from, to, piece) ==
  [from |-> from, to |-> to, piece |-> piece, captured |-> NONE, promoted |-> NONE, flags |-> {}]
Flagged(from, to, piece, flag) == [Quiet(from, to, piece) EXCEPT !.flags = {flag}]
Taking(p, from, to, piece) ==
  [Quiet(from, to, piece) EXCEPT !.captured = p.mailbox[to], !.flags = {"CAPTURE"}]

(* AddMovesToList.                                                          *)
ListMoves(p, from, targets, piece) ==
  { IF to \in EnemyBB(p) THEN Taking(p, from, to, piece) ELSE Quiet(from, to, piece) : to \in targets }

KingMoves(p) ==
  ListMoves(p, KingSquare(p),
            (KingAttacks(Own(p, "king")) \cap (EnemyBB(p) \cup Empty(p))) \ p.king_ban, "king")

(* Pawns that go to a square of allowed; those on a line of pin stay on it. *)
(* A pawn that came from an east target came from its west.                 *)
Pushes(p, pawns, allowed, pin) ==
  LET targets(ps) == PushPawn(p.turn, ps) \cap allowed
  IN targets(pawns \ pin) \cup (targets(pawns \cap pin) \cap pin)

DoublePushes(p, pawns, allowed, pin) ==
  LET targets(ps) == DoublePushPawn(p.turn, ps, Empty(p)) \cap allowed
  IN targets(pawns \ pin) \cup (targets(pawns \cap pin) \cap pin)

Attacks(p, pawns, compass, allowed, pin) ==
  LET targets(ps) == PawnTargets(p.turn, compass, ps) \cap allowed
  IN targets(pawns \ pin) \cup (targets(pawns \cap pin) \cap pin)

Pushable(p) == Own(p, "pawn") \ PinDiag(p)
Attackable(p) == Own(p, "pawn") \ PinHV(p)
Behind(p, to, compass) == to - 8 * Forward(p.turn) - compass

PawnPushes(p, check) ==
  LET pawns == Pushable(p) \ BeforePromotion(p.turn)
  IN { Quiet(Behind(p, to, 0), to, "pawn") :
         to \in Pushes(p, pawns, Empty(p) \cap check, PinHV(p)) }
     \cup { Quiet(Behind(p, to, 0) - 8 * Forward(p.turn), to, "pawn") :
              to \in DoublePushes(p, pawns, check, PinHV(p)) }

PawnCaptures(p, check) ==
  LET pawns == Attackable(p) \ BeforePromotion(p.turn)
  IN UNION { { Taking(p, Behind(p, to, compass), to, "pawn") :
                 to \in Attacks(p, pawns, compass, EnemyBB(p) \cap check, PinDiag(p)) }
             : compass \in {East, West} }

EnPassantMask(p, check) ==
  IF check # Universe /\ p.en_passant_target \cap check # {}
  THEN p.en_passant_sq ELSE p.en_passant_sq \cap check

EnPassants(p, check) ==
  LET pawns == Attackable(p) \ BeforePromotion(p.turn)
  IN UNION { { Flagged(Behind(p, to, compass), to, "pawn", "EN_PASSANT") :
                 to \in Attacks(p, pawns, compass, EnPassantMask(p, check), PinDiag(p)) }
             : compass \in {East, West} }

(* Knights, bishops, rooks and queens: free ones anywhere, pinned sliders   *)
(* along their line.                                                        *)
Officers(p, check) ==
  LET hv == PinHV(p)
      diag == PinDiag(p)
      movable == (EnemyBB(p) \cup Empty(p)) \cap check
      rook(s) == RookAttacks(p.occupied_sqs, s) \cap movable
      bishop(s) == BishopAttacks(p.occupied_sqs, s) \cap movable
  IN (UNION { ListMoves(p, s, KnightAttacks({s}) \cap movable, "knight") :
               s \in Own(p, "knight") \ (hv \cup diag) })
     \cup (UNION { ListMoves(p, s, bishop(s), "bishop") : s \in Own(p, "bishop") \ (hv \cup diag) })
     \cup (UNION { ListMoves(p, s, bishop(s) \cap diag, "bishop") :
                    s \in (Own(p, "bishop") \ hv) \cap diag })
     \cup (UNION { ListMoves(p, s, rook(s), "rook") : s \in Own(p, "rook") \ (hv \cup diag) })
     \cup (UNION { ListMoves(p, s, rook(s) \cap hv, "rook") :
                    s \in (Own(p, "rook") \ diag) \cap hv })
     \cup (UNION { ListMoves(p, s, bishop(s) \cap diag, "queen") : s \in Own(p, "queen") \cap diag })
     \cup (UNION { ListMoves(p, s, rook(s) \cap hv, "queen") : s \in Own(p, "queen") \cap hv })
     \cup (UNION { ListMoves(p, s, rook(s) \cup bishop(s), "queen") :
                    s \in Own(p, "queen") \ (hv \cup diag) })

KingSidePath == { s \in Squares : File(s) \in {5, 6} }
QueenSidePath == { s \in Squares : File(s) \in {2, 3} }

PathSafe(p, path) == path \cap HomeRank(p.turn) \cap p.king_ban = {}

Castles(p, check) ==
  LET rank == HomeRank(p.turn)
      king == Own(p, "king") \cap rank
      kingRook == Own(p, "rook") \cap {KingRook(p.turn)}
      queenRook == Own(p, "rook") \cap {QueenRook(p.turn)}
      rightOccupied == Xor(Xor(p.occupied_sqs, kingRook), king) \cap KingSideFiles \cap rank
      leftOccupied == Xor(p.occupied_sqs, queenRook) \cap QueenSideFiles \cap rank
      castle(flag, shift) ==
        { Flagged(k, k + shift, "king", flag) : k \in king }
  IN (IF /\ check = Universe /\ KingSide(p.turn) \in p.castling_rights
         /\ kingRook # {} /\ rightOccupied = {} /\ PathSafe(p, KingSidePath)
      THEN castle("CASTLE_KING_SIDE", 2) ELSE {})
     \cup
     (IF /\ check = Universe /\ QueenSide(p.turn) \in p.castling_rights
         /\ queenRook # {} /\ leftOccupied = {} /\ PathSafe(p, QueenSidePath)
      THEN castle("CASTLE_QUEEN_SIDE", -2) ELSE {})

Promotable == {"queen", "rook", "bishop", "knight"}

PromotedTo(m, kind) == [m EXCEPT !.promoted = kind, !.flags = @ \cup {"PROMOTION"}]
Promoted(moves) == { PromotedTo(m, kind) : m \in moves, kind \in Promotable }

Promotions(p, check) ==
  LET push == Pushable(p) \cap BeforePromotion(p.turn)
      attack == Attackable(p) \cap BeforePromotion(p.turn)
      plain == { Quiet(Behind(p, to, 0), to, "pawn") :
                   to \in Pushes(p, push, Empty(p) \cap check, PinHV(p)) }
      taking == UNION { { Taking(p, Behind(p, to, compass), to, "pawn") :
                            to \in Attacks(p, attack, compass, EnemyBB(p) \cap check, PinDiag(p)) }
                        : compass \in {East, West} }
  IN Promoted(plain \cup taking)

(* Against two checks only the king moves.                                  *)
GenerateMoves(p) ==
  LET check == CheckMask(p)
  IN KingMoves(p) \cup
     (IF check = {} THEN {}
      ELSE PawnPushes(p, check) \cup PawnCaptures(p, check) \cup EnPassants(p, check)
           \cup Officers(p, check) \cup Castles(p, check) \cup Promotions(p, check))

-----------------------------------------------------------------------------
(* DeduceMove (utils.cpp): the move between two squares of the board, as the *)
(* analysis board rebuilds it from what the engine prints.                   *)

(* Bug: a capture is not told from a quiet move.                            *)
DeduceQuiet(p, from, to) == Quiet(from, to, p.mailbox[from])

DeduceMove(p, from, to) ==
  LET piece == p.mailbox[from]
      king == piece = "king" /\ from \in {4, 60}
  IN [Quiet(from, to, piece) EXCEPT
        !.captured = p.mailbox[to],
        !.flags = { f \in {"CAPTURE", "EN_PASSANT", "CASTLE_KING_SIDE", "CASTLE_QUEEN_SIDE"} :
                      \/ f = "CAPTURE" /\ p.mailbox[to] # NONE
                      \/ f = "EN_PASSANT" /\ to \in p.en_passant_sq
                      \/ f = "CASTLE_QUEEN_SIDE" /\ king /\ to \in {2, 58}
                      \/ f = "CASTLE_KING_SIDE" /\ king /\ to \in {6, 62} }]

=============================================================================
