------------------------------ MODULE Position ------------------------------
(***************************************************************************)
(* A chess position (position.cpp, hash.cpp, fen.cpp): the bitboards with   *)
(* everything that is kept beside them incrementally - the mailbox, the     *)
(* squares the king may not enter, the en passant square, the castling      *)
(* rights and the Zobrist hash - and the stack Undo takes the old values    *)
(* from.  Exclusive or of random keys is the symmetric difference of sets   *)
(* of keys, so two hashes are equal when they stand for the same keys.      *)
(***************************************************************************)
EXTENDS Board, Sequences

(* The bit of each castling right.                                          *)
KingSide(c) == IF c = "white" THEN 0 ELSE 2
QueenSide(c) == IF c = "white" THEN 1 ELSE 3
Rights == 0 .. 3

KingRook(c) == IF c = "white" THEN 7 ELSE 63
QueenRook(c) == IF c = "white" THEN 0 ELSE 56
KingSideFiles == { s \in Squares : File(s) >= 4 }
QueenSideFiles == Squares \ KingSideFiles

(* The keys of kZobrist.                                                    *)
PieceKey(s, c, k) == <<"piece", k, c, s>>
CastlingKey(i) == <<"castling", NONE, NONE, i>>
EnPassantKey(s) == <<"ep", NONE, NONE, File(s)>>
ColorKey == <<"color", NONE, NONE, 0>>

Moves == [from : Squares, to : Squares, piece : PieceKinds,
          captured : PieceKinds \cup {NONE}, promoted : PieceKinds \cup {NONE},
          flags : SUBSET {"CAPTURE", "EN_PASSANT", "CASTLE_KING_SIDE",
                          "CASTLE_QUEEN_SIDE", "PROMOTION"}]

Is(m, flag) == flag \in m.flags

-----------------------------------------------------------------------------
(* UpdateInternals: what every change of the bitboards derives from them.   *)

Own(p, k) == p.pieces[p.turn][k]
Enemy(p, k) == p.pieces[OPP(p.turn)][k]
Occupancy(pieces, c) == UNION { pieces[c][k] : k \in PieceKinds }

UpdateOccupiedSqs(p) ==
  [p EXCEPT !.occupied_sqs = Occupancy(p.pieces, "white") \cup Occupancy(p.pieces, "black")]

(* The squares the enemy attacks, seen through the own king.                *)
UpdateKingBan(p) ==
  LET blockers == p.occupied_sqs \ Own(p, "king")
      opp == OPP(p.turn)
  IN [p EXCEPT !.king_ban =
        KingAttacks(Enemy(p, "king")) \cup KnightAttacks(Enemy(p, "knight"))
        \cup (UNION { BishopAttacks(blockers, s) : s \in Enemy(p, "bishop") \cup Enemy(p, "queen") })
        \cup (UNION { RookAttacks(blockers, s) : s \in Enemy(p, "rook") \cup Enemy(p, "queen") })
        \cup PawnTargets(opp, East, Enemy(p, "pawn"))
        \cup PawnTargets(opp, West, Enemy(p, "pawn"))]

(* Bug: the pawns that leave the rank are not looked behind.                *)
NeverExposes(p, target) == FALSE

(* One of the pawns beside the target and the target gone, a rook or queen  *)
(* gives check.                                                             *)
Exposes(p, target) ==
  LET rookQueen == Enemy(p, "rook") \cup Enemy(p, "queen")
      rank == OnRank(Rank(Index(target)))
      king == Own(p, "king")
  IN /\ target # {} /\ rank \cap king # {} /\ rank \cap rookQueen # {}
     /\ rank \cap Own(p, "pawn") # {}
     /\ \E compass \in {East, West} :
          LET pawns == PawnTargets(OPP(p.turn), compass, p.en_passant_sq) \cap Own(p, "pawn")
          IN /\ pawns # {}
             /\ RookAttacks(p.occupied_sqs \ (target \cup pawns), Index(king)) \cap rookQueen # {}

UpdateEnPassantSq(p) ==
  LET target == (PushPawn("white", p.en_passant_sq) \cap OnRank(3))
                \cup (PushPawn("black", p.en_passant_sq) \cap OnRank(4))
  IN [p EXCEPT !.en_passant_target = target,
               !.en_passant_sq = IF Exposes(p, target) THEN {} ELSE p.en_passant_sq]

PieceOn(pieces, s) ==
  IF \E c \in Colors, k \in PieceKinds : s \in pieces[c][k]
  THEN CHOOSE k \in PieceKinds : \E c \in Colors : s \in pieces[c][k]
  ELSE NONE

UpdateMailbox(p) == [p EXCEPT !.mailbox = [s \in Squares |-> PieceOn(p.pieces, s)]]

UpdateInternals(p) == UpdateMailbox(UpdateEnPassantSq(UpdateKingBan(UpdateOccupiedSqs(p))))

-----------------------------------------------------------------------------
(* FEN.  A FEN is a record of its six fields; ToFen prints them and ApplyFen *)
(* reads them, computing the hash from nothing.                             *)

ToFen(p) ==
  [placement |-> [s \in p.occupied_sqs |->
                    <<p.mailbox[s], IF s \in p.pieces["white"][p.mailbox[s]] THEN "white" ELSE "black">>],
   turn |-> p.turn, rights |-> p.castling_rights, en_passant |-> p.en_passant_sq,
   halfmove |-> p.halfmove_clock, fullmove |-> p.fullmove_counter]

ScratchHash(placement, turn, rights, en_passant) ==
  { PieceKey(s, placement[s][2], placement[s][1]) : s \in DOMAIN placement }
  \cup { CastlingKey(i) : i \in rights } \cup { EnPassantKey(s) : s \in en_passant }
  \cup (IF turn = "black" THEN {ColorKey} ELSE {})

(* A b is the black side to move in whatever field it stands: also as the   *)
(* file of the en passant square.                                           *)
ReadTurn(fen) == IF \E s \in fen.en_passant : File(s) = 1 THEN "black" ELSE fen.turn

FromFen(fen) ==
  UpdateInternals(
    [turn |-> ReadTurn(fen),
     pieces |-> [c \in Colors |-> [k \in PieceKinds |->
                   { s \in DOMAIN fen.placement : fen.placement[s] = <<k, c>> }]],
     occupied_sqs |-> {}, king_ban |-> {},
     en_passant_sq |-> fen.en_passant, en_passant_target |-> {},
     castling_rights |-> fen.rights,
     halfmove_clock |-> fen.halfmove, fullmove_counter |-> fen.fullmove,
     mailbox |-> [s \in Squares |-> NONE],
     hash |-> ScratchHash(fen.placement, ReadTurn(fen), fen.rights, fen.en_passant)])

-----------------------------------------------------------------------------
(* Make, one step of it after the other; q is the position so far, c the    *)
(* side that moves.                                                         *)

MovePiece(q, m, c) ==
  [q EXCEPT !.pieces[c][m.piece] = Xor(@, {m.from, m.to}),
            !.hash = Xor(@, {ColorKey, PieceKey(m.from, c, m.piece), PieceKey(m.to, c, m.piece)})]

Capture(q, m, c) ==
  IF Is(m, "CAPTURE")
  THEN [q EXCEPT !.pieces[OPP(c)][m.captured] = Xor(@, {m.to}),
                 !.hash = Xor(@, {PieceKey(m.to, OPP(c), m.captured)})]
  ELSE q

(* The rook of the half of the rank the king castled to.                    *)
CastlingRook(q, s, c, files) == q.pieces[c]["rook"] \cap OnRank(Rank(s)) \cap files

MoveRook(q, c, rook, shift) ==
  LET new == Shift(rook, shift, 0)
  IN [q EXCEPT !.pieces[c]["rook"] = Xor(@, rook \cup new),
               !.hash = Xor(@, { PieceKey(s, c, "rook") : s \in rook \cup new })]

Castle(q, m, c) ==
  CASE Is(m, "CASTLE_KING_SIDE") -> MoveRook(q, c, CastlingRook(q, m.to, c, KingSideFiles), -2)
    [] Is(m, "CASTLE_QUEEN_SIDE") -> MoveRook(q, c, CastlingRook(q, m.to, c, QueenSideFiles), 3)
    [] OTHER -> q

(* Both rights take the key of the queen side out of the hash.              *)
LoseRight(q, c, right) ==
  IF right \in q.castling_rights
  THEN [q EXCEPT !.castling_rights = @ \ {right}, !.hash = Xor(@, {CastlingKey(QueenSide(c))})]
  ELSE q

LosesQueenSide(m, c) == m.piece = "king" \/ (m.piece = "rook" /\ m.from = QueenRook(c))
LosesKingSide(m, c) == m.piece = "king" \/ (m.piece = "rook" /\ m.from = KingRook(c))

UpdateRights(q, m, c) ==
  LET queen == IF LosesQueenSide(m, c) THEN LoseRight(q, c, QueenSide(c)) ELSE q
  IN IF LosesKingSide(m, c) THEN LoseRight(queen, c, KingSide(c)) ELSE queen

TakeEnPassant(q, m, c) ==
  IF Is(m, "EN_PASSANT")
  THEN LET s == Index(q.en_passant_target)
       IN [q EXCEPT !.pieces[OPP(c)]["pawn"] = Xor(@, {s}),
                    !.hash = Xor(@, {PieceKey(s, OPP(c), "pawn"), EnPassantKey(s)})]
  ELSE q

(* Bug: the hash keeps the pawn on the last rank.                           *)
PromoteKeepingKey(q, m, c) ==
  IF Is(m, "PROMOTION")
  THEN [q EXCEPT !.pieces[c]["pawn"] = Xor(@, {m.to}),
                 !.pieces[c][m.promoted] = Xor(@, {m.to}),
                 !.hash = Xor(@, {PieceKey(m.to, c, m.promoted)})]
  ELSE q

Promote(q, m, c) ==
  IF Is(m, "PROMOTION")
  THEN [q EXCEPT !.pieces[c]["pawn"] = Xor(@, {m.to}),
                 !.pieces[c][m.promoted] = Xor(@, {m.to}),
                 !.hash = Xor(@, {PieceKey(m.to, c, "pawn"), PieceKey(m.to, c, m.promoted)})]
  ELSE q

IsDoublePush(m) ==
  /\ m.piece = "pawn" /\ m.from \in OnRank(1) \cup OnRank(6)
  /\ m.to \in OnRank(3) \cup OnRank(4)

(* Bug: an en passant square outlives the move after the double push.       *)
PassTurnKeepingSquare(q, m, c) ==
  [q EXCEPT !.turn = OPP(c), !.en_passant_sq = IF IsDoublePush(m) THEN PushPawn(c, {m.from}) ELSE @]

PassTurn(q, m, c) ==
  LET en_passant == IF IsDoublePush(m) THEN PushPawn(c, {m.from}) ELSE {}
      old == { EnPassantKey(s) : s \in q.en_passant_sq }
      new == { EnPassantKey(s) : s \in en_passant }
  IN [q EXCEPT !.turn = OPP(c), !.en_passant_sq = en_passant, !.hash = Xor(Xor(@, old), new)]

Resets(m) == m.piece = "pawn" \/ Is(m, "CAPTURE") \/ Is(m, "EN_PASSANT")

Tick(q, m, c) ==
  [q EXCEPT !.halfmove_clock = IF Resets(m) THEN 0 ELSE (@ + 1) % 256,
            !.fullmove_counter = IF c = "black" THEN @ + 1 ELSE @]

Make(p, m) ==
  LET c == p.turn
      taken == TakeEnPassant(UpdateRights(Castle(Capture(MovePiece(p, m, c), m, c), m, c), m, c), m, c)
  IN UpdateInternals(Tick(PassTurn(Promote(taken, m, c), m, c), m, c))

-----------------------------------------------------------------------------
(* Undo takes back from a State what the bitboards do not say, and repairs  *)
(* bitboards and mailbox square by square; the square a piece came to keeps *)
(* its piece in the mailbox, unless something was captured there.           *)

State(p) ==
  [king_ban |-> p.king_ban, occupied_sqs |-> p.occupied_sqs,
   en_passant_sq |-> p.en_passant_sq, en_passant_target |-> p.en_passant_target,
   castling_rights |-> p.castling_rights, halfmove_clock |-> p.halfmove_clock, hash |-> p.hash]

Apply(p, state) == [f \in DOMAIN p |-> IF f \in DOMAIN state THEN state[f] ELSE p[f]]

UnmovePiece(q, m, c) ==
  [q EXCEPT !.pieces[c][m.piece] = Xor(@, {m.to}) \cup {m.from}, !.mailbox[m.from] = m.piece]

Unpromote(q, m, c) ==
  IF Is(m, "PROMOTION")
  THEN [q EXCEPT !.pieces[c][m.piece] = Xor(@, {m.to}), !.pieces[c][m.promoted] = Xor(@, {m.to}),
                 !.mailbox[m.to] = NONE]
  ELSE q

(* Bug: the captured piece is not put back into the mailbox.                *)
UncaptureBoardOnly(q, m, c) ==
  IF Is(m, "CAPTURE")
  THEN [q EXCEPT !.pieces[OPP(c)][m.captured] = @ \cup {m.to}]
  ELSE q

Uncapture(q, m, c) ==
  IF Is(m, "CAPTURE")
  THEN [q EXCEPT !.pieces[OPP(c)][m.captured] = @ \cup {m.to}, !.mailbox[m.to] = m.captured]
  ELSE q

UnmoveRook(q, c, rook, shift) ==
  LET old == Shift(rook, shift, 0)
  IN [q EXCEPT !.pieces[c]["rook"] = Xor(@, rook \cup old),
               !.mailbox = [s \in Squares |-> IF s \in rook THEN NONE
                                              ELSE IF s \in old THEN "rook" ELSE @[s]]]

Uncastle(q, m, c) ==
  CASE Is(m, "CASTLE_KING_SIDE") -> UnmoveRook(q, c, CastlingRook(q, m.from, c, KingSideFiles), 2)
    [] Is(m, "CASTLE_QUEEN_SIDE") -> UnmoveRook(q, c, CastlingRook(q, m.from, c, QueenSideFiles), -3)
    [] OTHER -> q

UntakeEnPassant(q, m, c) ==
  IF Is(m, "EN_PASSANT")
  THEN [q EXCEPT !.pieces[OPP(c)]["pawn"] = @ \cup q.en_passant_target,
                 !.mailbox[Index(q.en_passant_target)] = "pawn"]
  ELSE q

Undo(p, m, state) ==
  LET c == OPP(p.turn)
      moved == Uncapture(Unpromote(UnmovePiece(Apply(p, state), m, c), m, c), m, c)
      board == UntakeEnPassant(Uncastle(moved, m, c), m, c)
  IN [board EXCEPT !.turn = c, !.fullmove_counter = IF c = "black" THEN @ - 1 ELSE @]

=============================================================================
