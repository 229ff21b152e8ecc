-------------------------------- MODULE Game --------------------------------
(***************************************************************************)
(* A game on one Position object: Make of a generated move and Undo of the  *)
(* last one, in any order, as the search, perft and the analysis board do.  *)
(***************************************************************************)
EXTENDS Rules

CONSTANTS
  Starts,   \* the FENs games start from
  MaxPly    \* bound: how many moves are on the stack

KingHome(c) == IF c = "white" THEN 4 ELSE 60

(* FENs of positions: each side has one king, a right its king at home, and *)
(* an en passant square the pawn that just passed it.  Not those with the   *)
(* b file before a white move, which FromFen reads as black to move.        *)
Denotes(fen) ==
  LET board == fen.placement
      At(s, k, c) == s \in DOMAIN board /\ board[s] = <<k, c>>
  IN /\ DOMAIN board \subseteq Squares /\ \A s \in DOMAIN board : board[s] \in PieceKinds \X Colors
     /\ \A c \in Colors : \E s \in Squares : \A t \in Squares : At(t, "king", c) <=> t = s
     /\ fen.turn \in Colors /\ fen.halfmove \in Nat /\ fen.fullmove \in Nat
     /\ fen.rights \subseteq Rights
     /\ \A c \in Colors : fen.rights \cap {KingSide(c), QueenSide(c)} # {} => At(KingHome(c), "king", c)
     /\ fen.en_passant \subseteq Squares \ DOMAIN board /\ ReadTurn(fen) = fen.turn
     /\ \A s \in fen.en_passant :
          /\ fen.en_passant = {s} /\ s \in OnRank(IF fen.turn = "white" THEN 5 ELSE 2)
          /\ At(s - 8 * Forward(fen.turn), "pawn", OPP(fen.turn))

(* The boards with the pawn on t back where its double push began.          *)
Origin(p, t) == t + 16 * Forward(p.turn)
Before(p, t) == [p.pieces EXCEPT ![OPP(p.turn)]["pawn"] = (@ \ {t}) \cup {Origin(p, t)}]

(* A knight or a pawn, which nothing can block, attacks the king from s.    *)
Leapers == {"knight", "pawn"}
LeapsAtKing(p, k, s) == s \in Enemy(p, k) /\ KingSquare(p) \in Reach(p.pieces, k, OPP(p.turn), s)

(* What GenerateMoves counts on and a FEN may get wrong: the side that      *)
(* moved is not in check, one leaper at most gives check, and if a pawn     *)
(* just passed a square, the king was not attacked before it did.           *)
Lawful(p) ==
  /\ ~InCheck(p.pieces, OPP(p.turn))
  /\ \A j, k \in Leapers : \A s, t \in Squares :
       LeapsAtKing(p, j, s) /\ LeapsAtKing(p, k, t) => s = t
  /\ \A t \in p.en_passant_target : ~InCheck(Before(p, t), p.turn)

(* A right to castle comes with its rook in the corner.                     *)
RooksHome(p) ==
  \A c \in Colors : /\ KingSide(c) \in p.castling_rights => KingRook(c) \in p.pieces[c]["rook"]
                    /\ QueenSide(c) \in p.castling_rights => QueenRook(c) \in p.pieces[c]["rook"]

ASSUME GameAssumption == MaxPly \in Nat /\ \A fen \in Starts : Denotes(fen)
ASSUME StartsLawful == \A fen \in Starts : Lawful(FromFen(fen)) /\ RooksHome(FromFen(fen))

VARIABLES
  pos,
  history,  \* history_ of pos
  line,     \* the moves made and not undone
  seen      \* per move of line: the position it was made in, without stale mailbox squares

vars == <<pos, history, line, seen>>

Visible(p) == [p EXCEPT !.mailbox = [s \in p.occupied_sqs |-> p.mailbox[s]]]

Init ==
  /\ pos \in { FromFen(fen) : fen \in Starts }
  /\ history = <<>> /\ line = <<>> /\ seen = <<>>

MakeMove(m) ==
  /\ Len(line) < MaxPly
  /\ pos' = Make(pos, m)
  /\ history' = Append(history, State(pos))
  /\ line' = Append(line, m)
  /\ seen' = Append(seen, Visible(pos))

Front(s) == SubSeq(s, 1, Len(s) - 1)

UndoMove ==
  /\ line # <<>>
  /\ pos' = Undo(pos, line[Len(line)], history[Len(history)])
  /\ history' = Front(history) /\ line' = Front(line) /\ seen' = Front(seen)

Next == UndoMove \/ \E m \in GenerateMoves(pos) : MakeMove(m)

Spec == Init /\ [][Next]_vars

-----------------------------------------------------------------------------
(* What the rules say of rights and en passant, from the game alone.        *)

Start == IF seen = <<>> THEN Visible(pos) ELSE seen[1]
Plies == DOMAIN line

Mover(i) == seen[i].turn
Corner(c, right) == IF right = KingSide(c) THEN KingRook(c) ELSE QueenRook(c)

MovedAway(c, right) ==
  \E i \in Plies : Mover(i) = c /\ (line[i].piece = "king" \/ line[i].from = Corner(c, right))
Taken(c, right) == \E i \in Plies : Mover(i) # c /\ line[i].to = Corner(c, right)

RulesRights ==
  { right \in Start.castling_rights :
      \A c \in Colors : right \in {KingSide(c), QueenSide(c)} =>
                          ~MovedAway(c, right) /\ ~Taken(c, right) }

RulesEnPassant ==
  IF line = <<>> THEN Start.en_passant_sq
  ELSE LET m == line[Len(line)]
       IN IF m.piece = "pawn" /\ Abs(m.to - m.from) = 16 THEN {(m.from + m.to) \div 2} ELSE {}

-----------------------------------------------------------------------------
(* The bitboards are disjoint, each side has one king, and everything        *)
(* derived agrees with them: occupied squares, the mailbox on every occupied *)
(* square, and an en passant target that holds a pawn of the side that moved. *)
TypeOK ==
  /\ pos.turn \in Colors /\ line \in Seq(Moves)
  /\ \A c \in Colors : Cardinality(pos.pieces[c]["king"]) = 1
  /\ Cardinality(pos.occupied_sqs) =
       Cardinality({ x \in Colors \X PieceKinds \X Squares : x[3] \in pos.pieces[x[1]][x[2]] })
  /\ \A c \in Colors, k \in PieceKinds : \A s \in pos.pieces[c][k] :
       s \in pos.occupied_sqs /\ pos.mailbox[s] = k
  /\ pos.en_passant_target \subseteq Enemy(pos, "pawn")
  /\ Len(history) = Len(line) /\ Len(seen) = Len(line)

(* Castling with a rook that came to the corner after its owner was taken:   *)
(* Make forgets a right only when its own king or rook moves.                *)
Lapsed(m) ==
  \/ Is(m, "CASTLE_KING_SIDE") /\ Taken(pos.turn, KingSide(pos.turn))
  \/ Is(m, "CASTLE_QUEEN_SIDE") /\ Taken(pos.turn, QueenSide(pos.turn))

(* GenerateMoves returns the moves the rules allow, each as a move that says *)
(* what it takes, in every position a game reaches by Make and Undo: through *)
(* pins, checks and double checks, castling, promotion and en passant that   *)
(* would uncover the king along the rank.                                    *)
MovesLegal ==
  { m \in GenerateMoves(pos) : ~Lapsed(m) } = RulesMoves(pos, RulesRights, RulesEnPassant)

(* Undo brings back everything the move changed, bitboards, rights, clocks,  *)
(* en passant, hash and the mailbox on every occupied square, although most  *)
(* of it is repaired and only part of it comes from the stack.               *)
UndoRestores ==
  [][Len(line') < Len(line) => Visible(pos') = seen[Len(line)]]_vars

(* White is to move after a double push on the b file.                       *)
PrintsB == pos.turn = "white" /\ \E s \in pos.en_passant_sq : File(s) = 1

(* What a FEN tells: not the pawn beside an en passant square that is empty. *)
Told(p) ==
  [Visible(p) EXCEPT !.hash = { x \in @ : x[1] \in {"piece", "color"} },
                     !.en_passant_target = IF p.en_passant_sq = {} THEN {} ELSE @]

(* The position read back from its own FEN is the same position: what is     *)
(* kept incrementally is what ApplyFen computes from nothing.  Of the hash,  *)
(* the part for the pieces and the side to move; not after a double push on  *)
(* the b file, see FenExact.                                                 *)
FenRoundTrips == PrintsB \/ Told(FromFen(ToFen(pos))) = Told(pos)

(* A FEN that is read and printed again is the same FEN, as fen_test.cpp     *)
(* asserts of the start position: violated, the b of the en passant square   *)
(* is read as the side to move.                                              *)
FenExact == ToFen(FromFen(ToFen(pos))) = ToFen(pos)

(* Undo leaves the piece in the mailbox on the square it came to.            *)
Stale(s) == s \notin pos.occupied_sqs /\ pos.mailbox[s] # NONE

(* The move the analysis board deduces from the two squares of a legal move  *)
(* is that move.  Not for promotions, whose piece it does not know; not for  *)
(* a piece other than a pawn that goes to the en passant square, which it    *)
(* takes for an en passant capture; and not to a stale square, which it      *)
(* takes for a capture.                                                      *)
Deduced ==
  \A m \in GenerateMoves(pos) :
    /\ m.promoted = NONE
    /\ m.to \in pos.en_passant_sq => m.piece = "pawn"
    /\ ~Stale(m.to)
    => DeduceMove(pos, m.from, m.to) = m
=============================================================================
