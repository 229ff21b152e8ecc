------------------------------ MODULE GameProofs ------------------------------
(***************************************************************************)
(* Proofs about Game, for every set of starting FENs and every stack.       *)
(*                                                                         *)
(* The inductive invariant is IInv: the position is Good - its bitboards    *)
(* are disjoint with one king a side, and mailbox, occupied squares, banned *)
(* squares, en passant target, rights and hash agree with them - and the    *)
(* stack is linked: every move of it was made, as a Plausible move, in a    *)
(* Good position that looked as the move remembers, and what it led to      *)
(* looks as the next one remembers.                                         *)
(*                                                                         *)
(*   Generated  what GenerateMoves returns in a Good position is Plausible  *)
(*   MakeGood   Make of a Plausible move keeps a position Good              *)
(*   UndoGood   Undo of it gives back the Good position it was made in      *)
(*   InitGood   FromFen of a FEN that denotes a position is Good            *)
(*                                                                         *)
(* Make and Undo are proved one step of the code after the other, each step *)
(* on any record that has the fields of a position (Raw, Board), and then   *)
(* composed: Replaces and TakenBack say what all of them do to the boards.  *)
(***************************************************************************)
EXTENDS Game, FiniteSetTheorems, FunctionTheorems, TLAPS

(* What pieces of a position are: a bitboard for each colour and kind.      *)
Boards == [Colors -> [PieceKinds -> SUBSET Squares]]

(* p has the fields of a position and no others.                            *)
Record(p) ==
  p = [turn |-> p.turn, pieces |-> p.pieces, occupied_sqs |-> p.occupied_sqs,
       king_ban |-> p.king_ban, en_passant_sq |-> p.en_passant_sq,
       en_passant_target |-> p.en_passant_target, castling_rights |-> p.castling_rights,
       halfmove_clock |-> p.halfmove_clock, fullmove_counter |-> p.fullmove_counter,
       mailbox |-> p.mailbox, hash |-> p.hash]

(* One bitboard of B replaced, as an assignment to pieces_[c][k] does.      *)
Put(B, c, k, E) == [B EXCEPT ![c] = [B[c] EXCEPT ![k] = E]]

(* A step that changes boards, hash and rights alone.                       *)
Kept(q, r) ==
  /\ r.turn = q.turn /\ r.occupied_sqs = q.occupied_sqs /\ r.king_ban = q.king_ban
  /\ r.en_passant_sq = q.en_passant_sq /\ r.en_passant_target = q.en_passant_target
  /\ r.halfmove_clock = q.halfmove_clock /\ r.fullmove_counter = q.fullmove_counter
  /\ r.mailbox = q.mailbox

(* A key of kZobrist for a piece on a square.                               *)
IsPieceKey(x) == \E d \in Colors, k \in PieceKinds, s \in Squares : x = PieceKey(s, d, k)

(* The hash holds the keys of the pieces that stand on the board, and of    *)
(* the part a FEN tells no others but the side's.                           *)
Keyed(q) ==
  /\ \A d \in Colors, k \in PieceKinds, s \in Squares :
       PieceKey(s, d, k) \in q.hash <=> s \in q.pieces[d][k]
  /\ \A x \in q.hash : x[1] \in {"piece", "color"} => x = ColorKey \/ IsPieceKey(x)

(* The key of the side to move is in the hash.                              *)
Turns(q) == ColorKey \in q.hash

(* What holds between the steps of Make: the fields, the boards, and the    *)
(* hash of the pieces.                                                      *)
Raw(q) == Record(q) /\ q.pieces \in Boards /\ Keyed(q)

-----------------------------------------------------------------------------
(* The two colours are each other's opponent.                               *)
LEMMA OppIs ==
  ASSUME NEW c \in Colors
  PROVE  OPP(c) \in Colors /\ OPP(c) # c /\ OPP(OPP(c)) = c /\ \A d \in Colors : d = c \/ d = OPP(c)
  BY DEF OPP, Colors

(* Replacing one bitboard gives boards, and changes that one only.          *)
LEMMA PutIs ==
  ASSUME NEW B \in Boards, NEW c \in Colors, NEW k \in PieceKinds, NEW E \in SUBSET Squares
  PROVE  /\ Put(B, c, k, E) \in Boards /\ Put(B, c, k, E)[c][k] = E
         /\ \A d \in Colors, j \in PieceKinds : d # c \/ j # k => Put(B, c, k, E)[d][j] = B[d][j]
  BY DEF Boards, Put

(* Flipping squares of a bitboard gives a bitboard.                         *)
LEMMA XorIn ==
  ASSUME NEW S, NEW a \in SUBSET S, NEW b \in SUBSET S
  PROVE  Xor(a, b) \in SUBSET S
  BY DEF Xor

(* Keys of kZobrist differ for different squares, colours and kinds.        *)
LEMMA KeysDiffer ==
  ASSUME NEW s, NEW c, NEW k
  PROVE  /\ PieceKey(s, c, k) # ColorKey
         /\ \A t, d, j : PieceKey(s, c, k) = PieceKey(t, d, j) => s = t /\ c = d /\ k = j
  BY DEF PieceKey, ColorKey

(* The hash stays that of the pieces when the keys flipped are those of the *)
(* squares that changed.                                                    *)
LEMMA KeyedKept ==
  ASSUME NEW q, NEW r, NEW K, Keyed(q), r.hash = Xor(q.hash, K),
         \A d \in Colors, k \in PieceKinds, s \in Squares :
           PieceKey(s, d, k) \in K <=> ~(s \in q.pieces[d][k] <=> s \in r.pieces[d][k]),
         \A x \in K : x[1] \in {"piece", "color"} => x = ColorKey \/ IsPieceKey(x)
  PROVE  Keyed(r) /\ (Turns(r) <=> ~(Turns(q) <=> ColorKey \in K))
  BY Zenon DEF Keyed, Turns, Xor

(* A bitboard and its keys change together.                                 *)
Toggles(q, r, c, k, S, K) ==
  r.pieces = Put(q.pieces, c, k, Xor(q.pieces[c][k], S)) /\ r.hash = Xor(q.hash, K)

(* K holds the keys of the squares S of one bitboard, maybe with the side's *)
(* key.                                                                     *)
Marks(K, c, k, S) ==
  /\ \A d \in Colors, j \in PieceKinds, s \in Squares :
       PieceKey(s, d, j) \in K <=> d = c /\ j = k /\ s \in S
  /\ \A x \in K : x[1] \in {"piece", "color"} => x = ColorKey \/ IsPieceKey(x)

(* Every step of Make that flips squares of one bitboard and their keys     *)
(* keeps the hash that of the pieces.                                       *)
LEMMA OneBoard ==
  ASSUME NEW q, Raw(q), NEW c \in Colors, NEW k \in PieceKinds, NEW S \in SUBSET Squares, NEW K,
         NEW r, Record(r), Marks(K, c, k, S), Toggles(q, r, c, k, S, K)
  PROVE  Raw(r) /\ (Turns(r) <=> ~(Turns(q) <=> ColorKey \in K))
  <1>1. PICK E : E = Xor(q.pieces[c][k], S)
    OBVIOUS
  <1>q. q.pieces \in Boards /\ Keyed(q)
    BY DEF Raw
  <1>5. E \in SUBSET Squares
    BY <1>1, <1>q, XorIn DEF Boards
  <1>6. /\ r.pieces \in Boards /\ r.pieces[c][k] = E
        /\ \A d \in Colors, j \in PieceKinds : d # c \/ j # k => r.pieces[d][j] = q.pieces[d][j]
    BY <1>1, <1>5, <1>q, PutIs DEF Toggles
  <1>7. \A d \in Colors, j \in PieceKinds, s \in Squares :
          PieceKey(s, d, j) \in K <=> ~(s \in q.pieces[d][j] <=> s \in r.pieces[d][j])
    <2> SUFFICES ASSUME NEW d \in Colors, NEW j \in PieceKinds, NEW s \in Squares
                 PROVE  PieceKey(s, d, j) \in K <=> ~(s \in q.pieces[d][j] <=> s \in r.pieces[d][j])
      OBVIOUS
    <2>1. PieceKey(s, d, j) \in K <=> d = c /\ j = k /\ s \in S
      BY DEF Marks
    <2>2. CASE d = c /\ j = k
      BY <2>1, <2>2, <1>1, <1>6 DEF Xor
    <2>3. CASE ~(d = c /\ j = k)
      BY <2>1, <2>3, <1>6
    <2> QED BY <2>2, <2>3
  <1>10. Keyed(r) /\ (Turns(r) <=> ~(Turns(q) <=> ColorKey \in K))
    BY <1>7, <1>q, KeyedKept, Zenon DEF Marks, Toggles
  <1> QED BY <1>6, <1>10 DEF Raw

(* The keys of the squares of one bitboard mark them.                       *)
LEMMA MarksOne ==
  ASSUME NEW c \in Colors, NEW k \in PieceKinds, NEW S \in SUBSET Squares, NEW K,
         \A x : x \in K <=> \E s \in S : x = PieceKey(s, c, k)
  PROVE  Marks(K, c, k, S) /\ ColorKey \notin K
  BY KeysDiffer DEF Marks, IsPieceKey

(* The fields of a move.                                                    *)
LEMMA MoveIs ==
  ASSUME NEW m \in Moves
  PROVE  /\ m.from \in Squares /\ m.to \in Squares /\ m.piece \in PieceKinds
         /\ m.captured \in PieceKinds \cup {NONE} /\ m.promoted \in PieceKinds \cup {NONE}
         /\ m.flags \in SUBSET {"CAPTURE", "EN_PASSANT", "CASTLE_KING_SIDE",
                                "CASTLE_QUEEN_SIDE", "PROMOTION"}
         /\ m = [from |-> m.from, to |-> m.to, piece |-> m.piece, captured |-> m.captured,
                 promoted |-> m.promoted, flags |-> m.flags]
  BY DEF Moves

(* The keys of rights, en passant files and the side are not keys of        *)
(* pieces.                                                                  *)
LEMMA ColorOnly ==
  /\ ~IsPieceKey(ColorKey)
  /\ \A s : ~IsPieceKey(EnPassantKey(s)) /\ EnPassantKey(s)[1] = "ep"
  /\ \A i : ~IsPieceKey(CastlingKey(i)) /\ CastlingKey(i)[1] = "castling"
  /\ \A s : EnPassantKey(s) # ColorKey
  /\ \A i : CastlingKey(i) # ColorKey
  BY DEF IsPieceKey, ColorKey, PieceKey, EnPassantKey, CastlingKey

(* Make's first step: the piece leaves from for to, and the side's key      *)
(* flips.                                                                   *)
LEMMA MovePieceIs ==
  ASSUME NEW q, Raw(q), NEW m \in Moves, NEW c \in Colors, NEW r, r = MovePiece(q, m, c)
  PROVE  /\ Raw(r) /\ Kept(q, r) /\ r.castling_rights = q.castling_rights
         /\ r.pieces = Put(q.pieces, c, m.piece, Xor(q.pieces[c][m.piece], {m.from, m.to}))
         /\ Turns(r) <=> ~Turns(q)
  <1>1. PICK k, S, K, P, H :
          /\ k = m.piece /\ S = {m.from, m.to}
          /\ K = {ColorKey, PieceKey(m.from, c, m.piece), PieceKey(m.to, c, m.piece)}
          /\ P = Put(q.pieces, c, k, Xor(q.pieces[c][k], S)) /\ H = Xor(q.hash, K)
    OBVIOUS
  <1>2. r = [q EXCEPT !.pieces = P, !.hash = H]
    BY <1>1 DEF MovePiece, Put
  <1>3. /\ Record(r) /\ Kept(q, r) /\ r.castling_rights = q.castling_rights
        /\ r.hash = H /\ r.pieces = P
    BY <1>2 DEF Raw, Record, Kept
  <1>4. k \in PieceKinds /\ S \in SUBSET Squares /\ Marks(K, c, k, S) /\ ColorKey \in K
    BY <1>1, MoveIs, KeysDiffer DEF Marks, IsPieceKey
  <1>5. Toggles(q, r, c, k, S, K)
    BY <1>1, <1>3 DEF Toggles
  <1> QED BY <1>1, <1>3, <1>4, <1>5, OneBoard

(* Make's second step flips the captured piece's square.                    *)
LEMMA CaptureIs ==
  ASSUME NEW q, Raw(q), NEW m \in Moves, NEW c \in Colors, Is(m, "CAPTURE") => m.captured \in PieceKinds,
         NEW r, r = Capture(q, m, c)
  PROVE  /\ Raw(r) /\ Kept(q, r) /\ r.castling_rights = q.castling_rights
         /\ r.pieces = IF Is(m, "CAPTURE")
                       THEN Put(q.pieces, OPP(c), m.captured, Xor(q.pieces[OPP(c)][m.captured], {m.to}))
                       ELSE q.pieces
         /\ Turns(r) <=> Turns(q)
  <1>a. CASE ~Is(m, "CAPTURE")
    BY <1>a DEF Capture, Kept
  <1>b. CASE Is(m, "CAPTURE")
    <2>1. PICK o, k, S, K, P, H :
            /\ o = OPP(c) /\ k = m.captured /\ S = {m.to} /\ K = {PieceKey(m.to, o, k)}
            /\ P = Put(q.pieces, o, k, Xor(q.pieces[o][k], S)) /\ H = Xor(q.hash, K)
      OBVIOUS
    <2>2. r = [q EXCEPT !.pieces = P, !.hash = H]
      BY <1>b, <2>1 DEF Capture, Put
    <2>3. /\ Record(r) /\ Kept(q, r) /\ r.castling_rights = q.castling_rights
          /\ r.hash = H /\ r.pieces = P
      BY <2>2 DEF Raw, Record, Kept
    <2>4. o \in Colors /\ k \in PieceKinds /\ S \in SUBSET Squares
      BY <1>b, <2>1, MoveIs, OppIs
    <2>5. Marks(K, o, k, S) /\ ColorKey \notin K
      BY <2>1, <2>4, MarksOne
    <2>6. Toggles(q, r, o, k, S, K)
      BY <2>1, <2>3 DEF Toggles
    <2> QED BY <1>b, <2>1, <2>3, <2>4, <2>5, <2>6, OneBoard
  <1> QED BY <1>a, <1>b

(* Castling flips the rook's old and new square.                            *)
LEMMA MoveRookIs ==
  ASSUME NEW q, Raw(q), NEW c \in Colors, NEW rook \in SUBSET Squares, NEW shift,
         Shift(rook, shift, 0) \in SUBSET Squares, NEW r, r = MoveRook(q, c, rook, shift)
  PROVE  /\ Raw(r) /\ Kept(q, r) /\ r.castling_rights = q.castling_rights
         /\ r.pieces = Put(q.pieces, c, "rook",
                           Xor(q.pieces[c]["rook"], rook \cup Shift(rook, shift, 0)))
         /\ Turns(r) <=> Turns(q)
  <1>1. PICK k, S, K, P, H :
          /\ k = "rook" /\ S = rook \cup Shift(rook, shift, 0)
          /\ K = { PieceKey(s, c, k) : s \in S }
          /\ P = Put(q.pieces, c, k, Xor(q.pieces[c][k], S)) /\ H = Xor(q.hash, K)
    OBVIOUS
  <1>2. r = [q EXCEPT !.pieces = P, !.hash = H]
    BY <1>1 DEF MoveRook, Put
  <1>3. /\ Record(r) /\ Kept(q, r) /\ r.castling_rights = q.castling_rights
        /\ r.hash = H /\ r.pieces = P
    BY <1>2 DEF Raw, Record, Kept
  <1>4. k \in PieceKinds /\ S \in SUBSET Squares
    BY <1>1 DEF PieceKinds
  <1>5. Marks(K, c, k, S) /\ ColorKey \notin K
    BY <1>1, <1>4, MarksOne
  <1>6. Toggles(q, r, c, k, S, K)
    BY <1>1, <1>3 DEF Toggles
  <1> QED BY <1>1, <1>3, <1>4, <1>5, <1>6, OneBoard

(* Losing a right changes the rights and the hash of the rights only.       *)
LEMMA LoseRightIs ==
  ASSUME NEW q, Raw(q), NEW c \in Colors, NEW right, NEW r, r = LoseRight(q, c, right)
  PROVE  /\ Raw(r) /\ Kept(q, r) /\ r.castling_rights = q.castling_rights \ {right}
         /\ r.pieces = q.pieces /\ (Turns(r) <=> Turns(q))
  <1>a. CASE right \notin q.castling_rights
    BY <1>a DEF LoseRight, Kept
  <1>b. CASE right \in q.castling_rights
    <2>1. PICK R, K, H : /\ R = q.castling_rights \ {right} /\ K = {CastlingKey(QueenSide(c))}
                         /\ H = Xor(q.hash, K)
      OBVIOUS
    <2>2. r = [q EXCEPT !.castling_rights = R, !.hash = H]
      BY <1>b, <2>1 DEF LoseRight
    <2>3. Record(r) /\ Kept(q, r) /\ r.castling_rights = R /\ r.hash = H /\ r.pieces = q.pieces
      BY <2>2 DEF Raw, Record, Kept
    <2>4. Keyed(r) /\ (Turns(r) <=> ~(Turns(q) <=> ColorKey \in K))
      <3>1. \A x \in K : ~IsPieceKey(x) /\ x[1] \notin {"piece", "color"} /\ x # ColorKey
        BY <2>1, ColorOnly
      <3>2. \A d \in Colors, k \in PieceKinds, s \in Squares : PieceKey(s, d, k) \notin K
        BY <3>1 DEF IsPieceKey
      <3> QED BY <2>1, <2>3, <3>1, <3>2, KeyedKept, Zenon DEF Raw
    <2>5. ColorKey \notin K
      BY <2>1, ColorOnly
    <2> QED BY <2>1, <2>3, <2>4, <2>5 DEF Raw
  <1> QED BY <1>a, <1>b

(* The rights a move of c loses: by a king's or a corner rook's move.       *)
Forgotten(m, c) ==
  (IF LosesQueenSide(m, c) THEN {QueenSide(c)} ELSE {})
  \cup (IF LosesKingSide(m, c) THEN {KingSide(c)} ELSE {})

(* Make never gains a right, and a king's move loses both of its side.      *)
LEMMA UpdateRightsIs ==
  ASSUME NEW q, Raw(q), NEW m, NEW c \in Colors, NEW r, r = UpdateRights(q, m, c)
  PROVE  /\ Raw(r) /\ Kept(q, r) /\ r.pieces = q.pieces /\ (Turns(r) <=> Turns(q))
         /\ r.castling_rights = q.castling_rights \ Forgotten(m, c)
         /\ m.piece = "king" => r.castling_rights \cap {KingSide(c), QueenSide(c)} = {}
  <1>1. PICK a : a = IF LosesQueenSide(m, c) THEN LoseRight(q, c, QueenSide(c)) ELSE q
    OBVIOUS
  <1>2. /\ Raw(a) /\ Kept(q, a) /\ a.pieces = q.pieces /\ (Turns(a) <=> Turns(q))
        /\ a.castling_rights =
             q.castling_rights \ (IF LosesQueenSide(m, c) THEN {QueenSide(c)} ELSE {})
    <2>1. CASE LosesQueenSide(m, c)
      BY <1>1, <2>1, LoseRightIs
    <2>2. CASE ~LosesQueenSide(m, c)
      BY <1>1, <2>2 DEF LosesQueenSide, Kept
    <2> QED BY <2>1, <2>2
  <1>3. r = IF LosesKingSide(m, c) THEN LoseRight(a, c, KingSide(c)) ELSE a
    BY <1>1 DEF UpdateRights
  <1>4. /\ Raw(r) /\ Kept(a, r) /\ r.pieces = a.pieces /\ (Turns(r) <=> Turns(a))
        /\ r.castling_rights =
             a.castling_rights \ (IF LosesKingSide(m, c) THEN {KingSide(c)} ELSE {})
    <2>1. CASE LosesKingSide(m, c)
      BY <1>2, <1>3, <2>1, LoseRightIs
    <2>2. CASE ~LosesKingSide(m, c)
      BY <1>2, <1>3, <2>2 DEF LosesKingSide, Kept
    <2> QED BY <2>1, <2>2
  <1>5. r.castling_rights = q.castling_rights \ Forgotten(m, c)
    BY <1>2, <1>4 DEF Forgotten
  <1>6. m.piece = "king" => Forgotten(m, c) = {KingSide(c), QueenSide(c)}
    BY DEF Forgotten, LosesKingSide, LosesQueenSide
  <1> QED BY <1>2, <1>4, <1>5, <1>6 DEF Kept

(* An en passant capture flips the pawn on the target.                      *)
LEMMA TakeEnPassantIs ==
  ASSUME NEW q, Raw(q), NEW m, NEW c \in Colors, NEW r, r = TakeEnPassant(q, m, c),
         Is(m, "EN_PASSANT") => \E t \in Squares : q.en_passant_target = {t}
  PROVE  /\ Raw(r) /\ Kept(q, r) /\ r.castling_rights = q.castling_rights
         /\ r.pieces = IF Is(m, "EN_PASSANT")
                       THEN Put(q.pieces, OPP(c), "pawn",
                                Xor(q.pieces[OPP(c)]["pawn"], q.en_passant_target))
                       ELSE q.pieces
         /\ Turns(r) <=> Turns(q)
  <1>a. CASE ~Is(m, "EN_PASSANT")
    BY <1>a DEF TakeEnPassant, Kept
  <1>b. CASE Is(m, "EN_PASSANT")
    <2>1. PICK t \in Squares : q.en_passant_target = {t}
      BY <1>b
    <2>2. Index(q.en_passant_target) = t
      BY <2>1 DEF Index
    <2>3. PICK o, k, S, K, P, H :
            /\ o = OPP(c) /\ k = "pawn" /\ S = {t}
            /\ K = {PieceKey(t, o, k), EnPassantKey(t)}
            /\ P = Put(q.pieces, o, k, Xor(q.pieces[o][k], S)) /\ H = Xor(q.hash, K)
      OBVIOUS
    <2>4. r = [q EXCEPT !.pieces = P, !.hash = H]
      BY <1>b, <2>2, <2>3 DEF TakeEnPassant, Put
    <2>5. /\ Record(r) /\ Kept(q, r) /\ r.castling_rights = q.castling_rights
          /\ r.hash = H /\ r.pieces = P
      BY <2>4 DEF Raw, Record, Kept
    <2>6. o \in Colors /\ k \in PieceKinds /\ S \in SUBSET Squares
      BY <2>3, OppIs DEF PieceKinds
    <2>7. Marks(K, o, k, S) /\ ColorKey \notin K
      BY <2>3, <2>6, KeysDiffer, ColorOnly DEF Marks, IsPieceKey
    <2>8. Toggles(q, r, o, k, S, K)
      BY <2>3, <2>5 DEF Toggles
    <2> QED BY <1>b, <2>1, <2>3, <2>5, <2>6, <2>7, <2>8, OneBoard
  <1> QED BY <1>a, <1>b

(* A promotion flips the last square for the pawn and for the new piece.    *)
LEMMA PromoteIs ==
  ASSUME NEW q, Raw(q), NEW m \in Moves, NEW c \in Colors, NEW r, r = Promote(q, m, c),
         Is(m, "PROMOTION") => m.promoted \in PieceKinds \ {"pawn"}
  PROVE  /\ Raw(r) /\ Kept(q, r) /\ r.castling_rights = q.castling_rights
         /\ r.pieces =
              IF Is(m, "PROMOTION")
              THEN Put(Put(q.pieces, c, "pawn", Xor(q.pieces[c]["pawn"], {m.to})),
                       c, m.promoted, Xor(q.pieces[c][m.promoted], {m.to}))
              ELSE q.pieces
         /\ Turns(r) <=> Turns(q)
  <1>a. CASE ~Is(m, "PROMOTION")
    BY <1>a DEF Promote, Kept
  <1>b. CASE Is(m, "PROMOTION")
    <2>1. PICK k, j, S, K, L :
            /\ k = "pawn" /\ j = m.promoted /\ S = {m.to}
            /\ K = {PieceKey(m.to, c, k)} /\ L = {PieceKey(m.to, c, j)}
      OBVIOUS
    <2>2. PICK P, H : P = Put(q.pieces, c, k, Xor(q.pieces[c][k], S)) /\ H = Xor(q.hash, K)
      OBVIOUS
    <2>3. PICK a : a = [q EXCEPT !.pieces = P, !.hash = H]
      OBVIOUS
    <2>4. /\ Record(a) /\ Kept(q, a) /\ a.castling_rights = q.castling_rights
          /\ a.hash = H /\ a.pieces = P
      BY <2>3 DEF Raw, Record, Kept
    <2>5. k \in PieceKinds /\ j \in PieceKinds /\ j # k /\ S \in SUBSET Squares
      BY <1>b, <2>1, MoveIs DEF PieceKinds
    <2>6. Marks(K, c, k, S) /\ Marks(L, c, j, S) /\ ColorKey \notin K /\ ColorKey \notin L
      <3>1. Marks(K, c, k, S) /\ ColorKey \notin K
        BY <2>1, <2>5, MarksOne
      <3>2. Marks(L, c, j, S) /\ ColorKey \notin L
        BY <2>1, <2>5, MarksOne
      <3> QED BY <3>1, <3>2
    <2>7. Toggles(q, a, c, k, S, K)
      BY <2>2, <2>4 DEF Toggles
    <2>8. Raw(a) /\ (Turns(a) <=> Turns(q))
      BY <2>4, <2>5, <2>6, <2>7, OneBoard
    <2>9. a.pieces[c][j] = q.pieces[c][j]
      <3>1. q.pieces \in Boards /\ Xor(q.pieces[c][k], S) \in SUBSET Squares
        BY <2>5, XorIn DEF Raw, Boards
      <3> QED BY <2>2, <2>4, <2>5, <3>1, PutIs
    <2>10. PICK Q, G : Q = Put(P, c, j, Xor(q.pieces[c][j], S)) /\ G = Xor(H, L)
      OBVIOUS
    <2>11. G = Xor(q.hash, {PieceKey(m.to, c, "pawn"), PieceKey(m.to, c, m.promoted)})
      <3>1. PieceKey(m.to, c, k) # PieceKey(m.to, c, j)
        BY <2>5, KeysDiffer
      <3> QED BY <2>1, <2>2, <2>10, <3>1 DEF Xor
    <2>12. r = [q EXCEPT !.pieces = Q, !.hash = G]
      BY <1>b, <2>1, <2>2, <2>5, <2>10, <2>11 DEF Promote, Put, Raw, Boards
    <2>13. /\ Record(r) /\ Kept(q, r) /\ r.castling_rights = q.castling_rights
           /\ r.hash = G /\ r.pieces = Q
      BY <2>12 DEF Raw, Record, Kept
    <2>14. Toggles(a, r, c, j, S, L)
      BY <2>4, <2>9, <2>10, <2>13 DEF Toggles
    <2>15. Raw(r) /\ (Turns(r) <=> Turns(a))
      BY <2>5, <2>6, <2>8, <2>13, <2>14, OneBoard
    <2> QED BY <1>b, <2>1, <2>2, <2>8, <2>10, <2>13, <2>15
  <1> QED BY <1>a, <1>b

(* The en passant square a move leaves behind.                              *)
Skipped(c, m) == IF IsDoublePush(m) THEN PushPawn(c, {m.from}) ELSE {}

(* Make passes the turn and notes the square a double push skipped.         *)
LEMMA PassTurnIs ==
  ASSUME NEW q, Raw(q), NEW m, NEW c \in Colors, NEW r, r = PassTurn(q, m, c)
  PROVE  /\ Raw(r) /\ r.pieces = q.pieces /\ r.castling_rights = q.castling_rights
         /\ r.fullmove_counter = q.fullmove_counter /\ r.halfmove_clock = q.halfmove_clock
         /\ r.turn = OPP(c)
         /\ r.en_passant_sq = Skipped(c, m)
         /\ Turns(r) <=> Turns(q)
  <1>1. PICK e, K, L, G, H :
          /\ e = Skipped(c, m)
          /\ K = { EnPassantKey(s) : s \in q.en_passant_sq } /\ L = { EnPassantKey(s) : s \in e }
          /\ G = Xor(q.hash, K) /\ H = Xor(G, L)
    OBVIOUS
  <1>2. r = [q EXCEPT !.turn = OPP(c), !.en_passant_sq = e, !.hash = H]
    BY <1>1 DEF PassTurn, Skipped
  <1>3. /\ Record(r) /\ r.pieces = q.pieces /\ r.castling_rights = q.castling_rights
        /\ r.fullmove_counter = q.fullmove_counter /\ r.halfmove_clock = q.halfmove_clock
        /\ r.turn = OPP(c) /\ r.en_passant_sq = e /\ r.hash = H
    BY <1>2 DEF Raw, Record
  <1>4. \A x \in K \cup L : ~IsPieceKey(x) /\ x[1] \notin {"piece", "color"} /\ x # ColorKey
    BY <1>1, ColorOnly
  <1>5. PICK M : M = Xor(K, L)
    OBVIOUS
  <1>6. r.hash = Xor(q.hash, M) /\ M \in SUBSET (K \cup L)
    BY <1>1, <1>3, <1>5 DEF Xor
  <1>7. \A d \in Colors, k \in PieceKinds, s \in Squares : PieceKey(s, d, k) \notin M
    BY <1>4, <1>6 DEF IsPieceKey
  <1>8. ColorKey \notin M /\ \A x \in M : x[1] \notin {"piece", "color"}
    BY <1>4, <1>6
  <1>9. Keyed(r) /\ (Turns(r) <=> Turns(q))
    BY <1>3, <1>6, <1>7, <1>8, KeyedKept, Zenon DEF Raw
  <1> QED BY <1>1, <1>3, <1>9 DEF Raw

(* Make's clocks change neither boards nor hash.                            *)
LEMMA TickIs ==
  ASSUME NEW q, Raw(q), NEW m, NEW c \in Colors, NEW r, r = Tick(q, m, c)
  PROVE  /\ Raw(r) /\ r.pieces = q.pieces /\ r.castling_rights = q.castling_rights
         /\ r.fullmove_counter = (IF c = "black" THEN q.fullmove_counter + 1 ELSE q.fullmove_counter)
         /\ r.turn = q.turn /\ r.en_passant_sq = q.en_passant_sq /\ r.hash = q.hash
  <1>1. PICK h, f :
          /\ h = (IF Resets(m) THEN 0 ELSE (q.halfmove_clock + 1) % 256)
          /\ f = (IF c = "black" THEN q.fullmove_counter + 1 ELSE q.fullmove_counter)
    OBVIOUS
  <1>2. r = [q EXCEPT !.halfmove_clock = h, !.fullmove_counter = f]
    BY <1>1 DEF Tick
  <1>3. /\ Record(r) /\ r.pieces = q.pieces /\ r.castling_rights = q.castling_rights
        /\ r.fullmove_counter = f
        /\ r.turn = q.turn /\ r.en_passant_sq = q.en_passant_sq /\ r.hash = q.hash
    BY <1>2 DEF Raw, Record
  <1> QED BY <1>1, <1>3 DEF Raw, Keyed

(* The squares UpdateKingBan keeps the king from.                           *)
Ban(p) == UpdateKingBan(p).king_ban
(* Where the pawn stands that just passed the squares of e.                 *)
Target(e) == (PushPawn("white", e) \cap OnRank(3)) \cup (PushPawn("black", e) \cap OnRank(4))

(* The banned squares as a function of turn, boards and occupied squares.   *)
BanOf(turn, pieces, occupied) ==
  LET enemy == pieces[OPP(turn)]
      blockers == occupied \ pieces[turn]["king"]
  IN KingAttacks(enemy["king"]) \cup KnightAttacks(enemy["knight"])
     \cup (UNION { BishopAttacks(blockers, s) : s \in enemy["bishop"] \cup enemy["queen"] })
     \cup (UNION { RookAttacks(blockers, s) : s \in enemy["rook"] \cup enemy["queen"] })
     \cup PawnTargets(OPP(turn), East, enemy["pawn"])
     \cup PawnTargets(OPP(turn), West, enemy["pawn"])

(* The banned squares depend on turn, boards and occupied squares only.     *)
LEMMA BanIs ==
  ASSUME NEW p, Record(p)
  PROVE  Ban(p) = BanOf(p.turn, p.pieces, p.occupied_sqs)
  BY DEF Ban, UpdateKingBan, Record, BanOf, Own, Enemy

(* The square sq is noted unless a capture on it exposes the king.          *)
Notes(r, sq) ==
  \E b : /\ b.turn = r.turn /\ b.pieces = r.pieces /\ b.occupied_sqs = r.occupied_sqs
         /\ b.en_passant_sq = sq
         /\ ~Exposes(b, r.en_passant_target) => r.en_passant_sq = sq

(* UpdateInternals leaves boards, rights, clocks, turn and hash, and        *)
(* derives the rest from them; it drops the en passant square only if a     *)
(* capture would expose the king.                                           *)
LEMMA UpdateInternalsIs ==
  ASSUME NEW q, Record(q), NEW r, r = UpdateInternals(q)
  PROVE  /\ Record(r) /\ r.pieces = q.pieces /\ r.castling_rights = q.castling_rights
         /\ r.fullmove_counter = q.fullmove_counter /\ r.halfmove_clock = q.halfmove_clock
         /\ r.turn = q.turn /\ r.hash = q.hash
         /\ r.occupied_sqs = Occupancy(q.pieces, "white") \cup Occupancy(q.pieces, "black")
         /\ r.mailbox = [s \in Squares |-> PieceOn(q.pieces, s)]
         /\ r.en_passant_target = Target(q.en_passant_sq)
         /\ r.en_passant_sq \in {q.en_passant_sq, {}}
         /\ r.king_ban = Ban(r)
         /\ r.en_passant_sq # {} => ~Exposes(r, r.en_passant_target)
         /\ \E b : /\ b.turn = r.turn /\ b.pieces = r.pieces /\ b.occupied_sqs = r.occupied_sqs
                   /\ b.en_passant_sq = q.en_passant_sq
                   /\ ~Exposes(b, r.en_passant_target) => r.en_passant_sq = q.en_passant_sq
  <1>1. PICK a : a = UpdateOccupiedSqs(q)
    OBVIOUS
  <1>2. /\ Record(a) /\ a.pieces = q.pieces /\ a.castling_rights = q.castling_rights
        /\ a.fullmove_counter = q.fullmove_counter /\ a.halfmove_clock = q.halfmove_clock
        /\ a.turn = q.turn /\ a.hash = q.hash /\ a.en_passant_sq = q.en_passant_sq
        /\ a.occupied_sqs = Occupancy(q.pieces, "white") \cup Occupancy(q.pieces, "black")
    <2>1. PICK o : o = Occupancy(q.pieces, "white") \cup Occupancy(q.pieces, "black")
      OBVIOUS
    <2>2. a = [q EXCEPT !.occupied_sqs = o]
      BY <1>1, <2>1 DEF UpdateOccupiedSqs
    <2> QED BY <2>1, <2>2 DEF Record
  <1>3. PICK b : b = UpdateKingBan(a)
    OBVIOUS
  <1>4. /\ Record(b) /\ b.pieces = q.pieces /\ b.castling_rights = q.castling_rights
        /\ b.fullmove_counter = q.fullmove_counter /\ b.halfmove_clock = q.halfmove_clock
        /\ b.turn = q.turn /\ b.hash = q.hash /\ b.en_passant_sq = q.en_passant_sq
        /\ b.occupied_sqs = a.occupied_sqs /\ b.king_ban = Ban(a)
    <2>1. PICK k : b = [a EXCEPT !.king_ban = k]
      BY <1>3, Zenon DEF UpdateKingBan
    <2>2. /\ Record(b) /\ b.pieces = q.pieces /\ b.castling_rights = q.castling_rights
          /\ b.fullmove_counter = q.fullmove_counter /\ b.halfmove_clock = q.halfmove_clock
          /\ b.turn = q.turn /\ b.hash = q.hash /\ b.en_passant_sq = q.en_passant_sq
          /\ b.occupied_sqs = a.occupied_sqs
      BY <1>2, <2>1 DEF Record
    <2>3. b.king_ban = Ban(a)
      BY <1>3 DEF Ban
    <2> QED BY <2>2, <2>3
  <1>5. PICK d : d = UpdateEnPassantSq(b)
    OBVIOUS
  <1>6. PICK t, e :
          /\ t = Target(b.en_passant_sq)
          /\ e = IF Exposes(b, t) THEN {} ELSE b.en_passant_sq
    OBVIOUS
  <1>7. d = [b EXCEPT !.en_passant_target = t, !.en_passant_sq = e]
    BY <1>5, <1>6 DEF UpdateEnPassantSq, Target
  <1>8. /\ Record(d) /\ d.pieces = q.pieces /\ d.castling_rights = q.castling_rights
        /\ d.fullmove_counter = q.fullmove_counter /\ d.halfmove_clock = q.halfmove_clock
        /\ d.turn = q.turn /\ d.hash = q.hash /\ d.occupied_sqs = a.occupied_sqs
        /\ d.king_ban = b.king_ban /\ d.en_passant_target = t /\ d.en_passant_sq = e
    BY <1>4, <1>7 DEF Record
  <1>9. PICK M : M = [s \in Squares |-> PieceOn(d.pieces, s)]
    OBVIOUS
  <1>10. r = [d EXCEPT !.mailbox = M]
    BY <1>1, <1>3, <1>5, <1>9 DEF UpdateInternals, UpdateMailbox
  <1>11. /\ Record(r) /\ r.pieces = q.pieces /\ r.castling_rights = q.castling_rights
         /\ r.fullmove_counter = q.fullmove_counter /\ r.halfmove_clock = q.halfmove_clock
         /\ r.turn = q.turn /\ r.hash = q.hash /\ r.occupied_sqs = a.occupied_sqs
         /\ r.king_ban = b.king_ban /\ r.en_passant_target = t /\ r.en_passant_sq = e
         /\ r.mailbox = M
    BY <1>8, <1>10 DEF Record
  <1>12. r.king_ban = Ban(r)
    <2>1. Ban(a) = Ban(r)
      BY <1>2, <1>11, BanIs
    <2> QED BY <1>4, <1>11, <2>1
  <1>13. e # {} => ~Exposes(r, t)
    <2> SUFFICES ASSUME e # {} PROVE ~Exposes(r, t)
      OBVIOUS
    <2>1. ~Exposes(b, t) /\ e = b.en_passant_sq
      BY <1>6
    <2>2. b.turn = r.turn /\ b.pieces = r.pieces /\ b.occupied_sqs = r.occupied_sqs
          /\ b.en_passant_sq = r.en_passant_sq
      BY <1>4, <1>11, <2>1
    <2>3. \A k : Own(b, k) = Own(r, k) /\ Enemy(b, k) = Enemy(r, k)
      BY <2>2 DEF Own, Enemy
    <2> QED BY <2>1, <2>2, <2>3 DEF Exposes
  <1>14. \E x : /\ x.turn = r.turn /\ x.pieces = r.pieces /\ x.occupied_sqs = r.occupied_sqs
                /\ x.en_passant_sq = q.en_passant_sq
                /\ ~Exposes(x, r.en_passant_target) => r.en_passant_sq = q.en_passant_sq
    <2>1. /\ b.turn = r.turn /\ b.pieces = r.pieces /\ b.occupied_sqs = r.occupied_sqs
          /\ b.en_passant_sq = q.en_passant_sq
          /\ ~Exposes(b, r.en_passant_target) => r.en_passant_sq = q.en_passant_sq
      BY <1>2, <1>4, <1>6, <1>11
    <2> QED BY <2>1
  <1> QED BY <1>2, <1>4, <1>6, <1>9, <1>11, <1>8, <1>12, <1>13, <1>14

-----------------------------------------------------------------------------
(* No square holds two pieces.                                              *)
Disjoint(B) ==
  \A c, d \in Colors, j, k \in PieceKinds, s \in Squares :
    s \in B[c][j] /\ s \in B[d][k] => c = d /\ j = k

(* Each side has one king.                                                  *)
OneKing(B) == \A c \in Colors : \E s \in Squares : B[c]["king"] = {s}

(* Whoever has a right to castle has the king at home.                      *)
RightsAtHome(p) ==
  /\ p.castling_rights \subseteq Rights
  /\ \A c \in Colors :
       p.castling_rights \cap {KingSide(c), QueenSide(c)} # {} => KingHome(c) \in p.pieces[c]["king"]

(* An en passant target is a pawn of the side that moved, behind an empty   *)
(* square; the square itself is either noted or dropped.                    *)
JustPassed(p) ==
  \/ p.en_passant_sq = {} /\ p.en_passant_target = {}
  \/ \E s \in Squares :
       /\ s \notin p.occupied_sqs /\ p.en_passant_sq \in {{s}, {}}
       /\ p.en_passant_target = {s - 8 * Forward(p.turn)}
       /\ s - 8 * Forward(p.turn) \in Enemy(p, "pawn")

(* The mailbox names the piece on every square that has one.                *)
Mailed(p) ==
  /\ p.mailbox \in [Squares -> PieceKinds \cup {NONE}]
  /\ \A c \in Colors, k \in PieceKinds : \A s \in p.pieces[c][k] : p.mailbox[s] = k

(* Occupied squares, banned squares and en passant target are what          *)
(* UpdateInternals computes.                                                *)
Derived(p) ==
  /\ p.occupied_sqs = Occupancy(p.pieces, "white") \cup Occupancy(p.pieces, "black")
  /\ p.king_ban = Ban(p)
  /\ p.en_passant_sq # {} =>
       p.en_passant_target = Target(p.en_passant_sq) /\ ~Exposes(p, p.en_passant_target)

(* The position is consistent: the conjuncts are those the properties of    *)
(* Game need, and those that make them inductive.                           *)
Good(p) ==
  /\ Raw(p) /\ p.turn \in Colors /\ (Turns(p) <=> p.turn = "black") /\ p.fullmove_counter \in Int
  /\ Disjoint(p.pieces) /\ OneKing(p.pieces)
  /\ RightsAtHome(p) /\ JustPassed(p) /\ Mailed(p) /\ Derived(p)

(* The move says what it takes: a piece of the enemy other than the king,   *)
(* or nothing from an empty square.                                         *)
Takes(p, m) ==
  IF Is(m, "CAPTURE")
  THEN m.captured \in PieceKinds \ {"king"} /\ m.to \in Enemy(p, m.captured)
  ELSE m.captured = NONE /\ m.to \notin p.occupied_sqs

(* A promotion, and no other move, says what the pawn becomes.              *)
Promotes(m) ==
  IF Is(m, "PROMOTION") THEN m.piece = "pawn" /\ m.promoted \in Promotable ELSE m.promoted = NONE

(* A double push skips an empty square of the file, and a pawn's move to    *)
(* the en passant square is an en passant capture.                          *)
Passes(p, m) ==
  m.piece = "pawn" =>
    /\ IsDoublePush(m) => /\ ~Is(m, "PROMOTION")
                          /\ m.from + 8 * Forward(p.turn) \in Squares \ p.occupied_sqs
                          /\ m.to = m.from + 16 * Forward(p.turn)
                          /\ Target({m.from + 8 * Forward(p.turn)}) = {m.to}
                          /\ PushPawn(p.turn, {m.from}) = {m.from + 8 * Forward(p.turn)}
    /\ Is(m, "EN_PASSANT") <=> m.to \in p.en_passant_sq

(* A move with the flag castles by its right: from home, with the rook in   *)
(* the corner.                                                              *)
CastlesTo(p, m, flag, right, corner, to) ==
  Is(m, flag) =>
    /\ m.piece = "king" /\ m.flags = {flag} /\ right \in p.castling_rights
    /\ m.from = KingHome(p.turn) /\ m.to = to /\ corner \in Own(p, "rook")

(* The squares between king and rook are empty.                             *)
CastlesAllowed(p, m) ==
  LET c == p.turn
      home == KingHome(c)
  IN /\ CastlesTo(p, m, "CASTLE_KING_SIDE", KingSide(c), KingRook(c), home + 2)
     /\ CastlesTo(p, m, "CASTLE_QUEEN_SIDE", QueenSide(c), QueenRook(c), home - 2)
     /\ Is(m, "CASTLE_KING_SIDE") => {home + 1, home + 2} \cap p.occupied_sqs = {}
     /\ Is(m, "CASTLE_QUEEN_SIDE") => {home - 1, home - 2, home - 3} \cap p.occupied_sqs = {}

(* What Make and Undo rely on of a move. A legal move is plausible; a       *)
(* plausible one may leave the king in check.                               *)
Plausible(p, m) ==
  /\ m \in Moves /\ m.from \in Own(p, m.piece) /\ \A k \in PieceKinds : m.to \notin Own(p, k)
  /\ Takes(p, m) /\ Promotes(m) /\ Passes(p, m) /\ CastlesAllowed(p, m)
  /\ Is(m, "EN_PASSANT") => m.piece = "pawn" /\ m.flags = {"EN_PASSANT"}

(* Occupancy is the union over the kinds.                                   *)
LEMMA Occupied ==
  ASSUME NEW B, NEW c, NEW s
  PROVE  s \in Occupancy(B, c) <=> \E k \in PieceKinds : s \in B[c][k]
  BY DEF Occupancy

(* A square is occupied when a piece stands on it.                          *)
LEMMA OccupiedSqs ==
  ASSUME NEW p, Derived(p), NEW s
  PROVE  s \in p.occupied_sqs <=> \E c \in Colors, k \in PieceKinds : s \in p.pieces[c][k]
  BY Occupied DEF Derived, Colors

(* The board D is B with the squares of S flipped on one bitboard.          *)
Flipped(B, c, k, S, D) ==
  \A d \in Colors, j \in PieceKinds, s \in Squares :
    s \in D[d][j] <=> IF d = c /\ j = k THEN ~(s \in B[d][j] <=> s \in S) ELSE s \in B[d][j]

(* An exclusive or on one bitboard flips its squares and no others.         *)
LEMMA PutXor ==
  ASSUME NEW B \in Boards, NEW c \in Colors, NEW k \in PieceKinds, NEW S \in SUBSET Squares,
         NEW D, D = Put(B, c, k, Xor(B[c][k], S))
  PROVE  D \in Boards /\ Flipped(B, c, k, S, D)
  <1>1. PICK E : E = Xor(B[c][k], S)
    OBVIOUS
  <1>2. E \in SUBSET Squares
    BY <1>1, XorIn DEF Boards
  <1>3. /\ D \in Boards /\ D[c][k] = E
        /\ \A d \in Colors, j \in PieceKinds : d # c \/ j # k => D[d][j] = B[d][j]
    BY <1>1, <1>2, PutIs
  <1>4. ASSUME NEW d \in Colors, NEW j \in PieceKinds, NEW s \in Squares
        PROVE  s \in D[d][j] <=> IF d = c /\ j = k THEN ~(s \in B[d][j] <=> s \in S) ELSE s \in B[d][j]
    <2>1. CASE d = c /\ j = k
      BY <2>1, <1>1, <1>3 DEF Xor
    <2>2. CASE ~(d = c /\ j = k)
      BY <2>2, <1>3
    <2> QED BY <2>1, <2>2
  <1> QED BY <1>3, <1>4 DEF Flipped

(* The rank the pieces of a side start from.                                *)
Home(c) == KingHome(c) - 4 .. KingHome(c) + 3

(* Where kings and rooks castle from.                                       *)
LEMMA Corners ==
  ASSUME NEW c \in Colors
  PROVE  /\ KingHome(c) \in {4, 60} /\ KingRook(c) = KingHome(c) + 3 /\ QueenRook(c) = KingHome(c) - 4
         /\ Home(c) \subseteq Squares
         /\ \A n \in -4 .. 3 : KingHome(c) + n \in Home(c)
  BY DEF KingRook, QueenRook, KingHome, Home, Squares, Colors

(* The squares of a home rank lie on it, and the half boards cut it between *)
(* d and e.                                                                 *)
LEMMA HomeIs ==
  ASSUME NEW c \in Colors, NEW s \in Home(c)
  PROVE  /\ Rank(s) = Rank(KingHome(c)) /\ OnRank(Rank(s)) = Home(c) /\ HomeRank(c) = Home(c)
         /\ s \in KingSideFiles <=> s \in KingHome(c) .. KingHome(c) + 3
         /\ s \in QueenSideFiles <=> s \in KingHome(c) - 4 .. KingHome(c) - 1
  <1>1. /\ s \in Squares
        /\ IF c = "white" THEN s \in 0 .. 7 /\ KingHome(c) = 4 ELSE s \in 56 .. 63 /\ KingHome(c) = 60
    BY DEF KingHome, Home, Squares, Colors
  <1>2. Rank(s) = (IF c = "white" THEN 0 ELSE 7) /\ Rank(KingHome(c)) = (IF c = "white" THEN 0 ELSE 7)
    BY <1>1 DEF Rank
  <1>3. OnRank(Rank(s)) = Home(c) /\ HomeRank(c) = Home(c)
    <2>1. OnRank(0) = 0 .. 7 /\ OnRank(7) = 56 .. 63
      BY DEF OnRank
    <2>2. Home(c) = IF c = "white" THEN 0 .. 7 ELSE 56 .. 63
      <3>1. CASE c = "white"
        BY <3>1 DEF Home, KingHome
      <3>2. CASE c = "black"
        BY <3>2 DEF Home, KingHome
      <3> QED BY <3>1, <3>2 DEF Colors
    <2> QED BY <1>2, <2>1, <2>2 DEF HomeRank
  <1>4. s \in KingSideFiles <=> s \in KingHome(c) .. KingHome(c) + 3
    BY <1>1 DEF KingSideFiles, File
  <1>5. s \in QueenSideFiles <=> s \in KingHome(c) - 4 .. KingHome(c) - 1
    <2>1. s \in QueenSideFiles <=> s \notin KingHome(c) .. KingHome(c) + 3
      BY <1>1, <1>4 DEF QueenSideFiles
    <2> QED BY <1>1, <2>1
  <1> QED BY <1>2, <1>3, <1>4, <1>5

(* The squares castling uses, by name.                                      *)
LEMMA HomeSquares ==
  ASSUME NEW c \in Colors
  PROVE  /\ KingHome(c) + 1 \in Home(c) /\ KingHome(c) + 2 \in Home(c) /\ KingRook(c) \in Home(c)
         /\ KingHome(c) - 1 \in Home(c) /\ KingHome(c) - 2 \in Home(c) /\ KingHome(c) - 3 \in Home(c)
         /\ QueenRook(c) \in Home(c) /\ KingHome(c) \in Home(c) /\ Home(c) \subseteq Squares
         /\ KingRook(c) \in KingSideFiles /\ QueenRook(c) \in QueenSideFiles
         /\ \A s \in Home(c) : s \in KingSideFiles /\ s # KingRook(c) =>
              s \in {KingHome(c), KingHome(c) + 1, KingHome(c) + 2}
         /\ \A s \in Home(c) : s \in QueenSideFiles /\ s # QueenRook(c) =>
              s \in {KingHome(c) - 1, KingHome(c) - 2, KingHome(c) - 3}
  <1>1. Home(c) = IF c = "white" THEN 0 .. 7 ELSE 56 .. 63
    <2>1. CASE c = "white"
      BY <2>1 DEF Home, KingHome
    <2>2. CASE c = "black"
      BY <2>2 DEF Home, KingHome
    <2> QED BY <2>1, <2>2 DEF Colors
  <1>2. /\ KingHome(c) = IF c = "white" THEN 4 ELSE 60
        /\ KingRook(c) = IF c = "white" THEN 7 ELSE 63
        /\ QueenRook(c) = IF c = "white" THEN 0 ELSE 56
    BY DEF KingHome, KingRook, QueenRook
  <1>4. Home(c) \subseteq Squares
    BY <1>1 DEF Squares
  <1>5. PICK h : h = KingHome(c)
    OBVIOUS
  <1>6. h \in {4, 60} /\ KingRook(c) = h + 3 /\ QueenRook(c) = h - 4 /\ Home(c) = h - 4 .. h + 3
    BY <1>2, <1>5 DEF Home
  <1>3. \A s \in Home(c) :
          /\ s \in KingSideFiles <=> s \in h .. h + 3
          /\ s \in QueenSideFiles <=> s \in h - 4 .. h - 1
    BY <1>5, HomeIs
  <1>7. /\ h + 1 \in Home(c) /\ h + 2 \in Home(c) /\ KingRook(c) \in Home(c)
        /\ h - 1 \in Home(c) /\ h - 2 \in Home(c) /\ h - 3 \in Home(c)
        /\ QueenRook(c) \in Home(c) /\ h \in Home(c)
    BY <1>6
  <1>8. KingRook(c) \in KingSideFiles /\ QueenRook(c) \in QueenSideFiles
    <2>1. KingRook(c) \in h .. h + 3 /\ QueenRook(c) \in h - 4 .. h - 1
      BY <1>6
    <2> QED BY <1>3, <1>7, <2>1
  <1>9. \A s \in Home(c) : s \in KingSideFiles /\ s # KingRook(c) => s \in {h, h + 1, h + 2}
    BY <1>3, <1>6
  <1>10. \A s \in Home(c) : s \in QueenSideFiles /\ s # QueenRook(c) => s \in {h - 1, h - 2, h - 3}
    <2> SUFFICES ASSUME NEW s \in Home(c), s \in QueenSideFiles, s # QueenRook(c)
                 PROVE  s \in {h - 1, h - 2, h - 3}
      OBVIOUS
    <2>1. s \in h - 4 .. h - 1
      BY <1>3
    <2> QED BY <1>6, <2>1
  <1> QED BY <1>4, <1>5, <1>7, <1>8, <1>9, <1>10

(* The shifts of Make and Undo carry the rook between its corner and the    *)
(* square beside the king.                                                  *)
LEMMA RookShifts ==
  ASSUME NEW c \in Colors
  PROVE  /\ Shift({KingRook(c)}, -2, 0) = {KingHome(c) + 1}
         /\ Shift({KingHome(c) + 1}, 2, 0) = {KingRook(c)}
         /\ Shift({QueenRook(c)}, 3, 0) = {KingHome(c) - 1}
         /\ Shift({KingHome(c) - 1}, -3, 0) = {QueenRook(c)}
  BY DEF KingRook, QueenRook, KingHome, Rank, File, Shift, Colors

(* The rooks of c stand where they do in p.                                 *)
SameRooks(q, p, c) == \A s \in Squares : s \in q.pieces[c]["rook"] <=> s \in p.pieces[c]["rook"]

(* Castling king side, CastlingRook finds the rook of the corner and no     *)
(* other.                                                                   *)
LEMMA RookKingSide ==
  ASSUME NEW p, NEW m, Good(p), Plausible(p, m), Is(m, "CASTLE_KING_SIDE"), NEW c, c = p.turn,
         NEW q, SameRooks(q, p, c)
  PROVE  CastlingRook(q, m.to, c, KingSideFiles) = {KingRook(c)}
  <1>1. /\ m.from = KingHome(c) /\ m.piece = "king"
        /\ m.to = KingHome(c) + 2 /\ KingRook(c) \in p.pieces[c]["rook"]
        /\ KingHome(c) + 1 \notin p.occupied_sqs /\ KingHome(c) + 2 \notin p.occupied_sqs
        /\ KingHome(c) \in p.pieces[c]["king"]
    BY DEF Plausible, CastlesAllowed, CastlesTo, Own
  <1>2. c \in Colors
    BY DEF Good
  <1>3. Home(c) \subseteq Squares /\ m.to \in Home(c)
        /\ KingRook(c) \in Home(c) /\ KingRook(c) \in KingSideFiles
    BY <1>1, <1>2, HomeSquares
  <1>4. ASSUME NEW u \in Home(c), u \in KingSideFiles, u # KingRook(c)
        PROVE  u \notin q.pieces[c]["rook"]
    <2>1. u \in {KingHome(c), KingHome(c) + 1, KingHome(c) + 2}
      BY <1>2, <1>4, HomeSquares
    <2>2. u \in p.pieces[c]["rook"] => u \in p.occupied_sqs
      BY <1>2, OccupiedSqs DEF Good, PieceKinds
    <2>3. u = KingHome(c) => u \notin p.pieces[c]["rook"]
      BY <1>1, <1>2, <1>3 DEF Good, Disjoint, PieceKinds
    <2> QED BY <1>1, <1>3, <2>1, <2>2, <2>3 DEF SameRooks
  <1>5. KingRook(c) \in q.pieces[c]["rook"]
    BY <1>1, <1>3 DEF SameRooks
  <1>6. OnRank(Rank(m.to)) = Home(c)
    BY <1>2, <1>3, HomeIs
  <1> QED BY <1>3, <1>4, <1>5, <1>6 DEF CastlingRook

(* Castling queen side, CastlingRook finds the rook of the corner and no    *)
(* other.                                                                   *)
LEMMA RookQueenSide ==
  ASSUME NEW p, NEW m, Good(p), Plausible(p, m), Is(m, "CASTLE_QUEEN_SIDE"), NEW c, c = p.turn,
         NEW q, SameRooks(q, p, c)
  PROVE  CastlingRook(q, m.to, c, QueenSideFiles) = {QueenRook(c)}
  <1>1. /\ m.to = KingHome(c) - 2 /\ QueenRook(c) \in p.pieces[c]["rook"]
        /\ KingHome(c) - 1 \notin p.occupied_sqs /\ KingHome(c) - 2 \notin p.occupied_sqs
        /\ KingHome(c) - 3 \notin p.occupied_sqs
    BY DEF Plausible, CastlesAllowed, CastlesTo, Own
  <1>2. c \in Colors
    BY DEF Good
  <1>3. Home(c) \subseteq Squares /\ m.to \in Home(c)
        /\ QueenRook(c) \in Home(c) /\ QueenRook(c) \in QueenSideFiles
    BY <1>1, <1>2, HomeSquares
  <1>4. ASSUME NEW u \in Home(c), u \in QueenSideFiles, u # QueenRook(c)
        PROVE  u \notin q.pieces[c]["rook"]
    <2>1. u \in {KingHome(c) - 1, KingHome(c) - 2, KingHome(c) - 3}
      BY <1>2, <1>4, HomeSquares
    <2>2. u \in p.pieces[c]["rook"] => u \in p.occupied_sqs
      BY <1>2, OccupiedSqs DEF Good, PieceKinds
    <2> QED BY <1>1, <1>3, <2>1, <2>2 DEF SameRooks
  <1>5. QueenRook(c) \in q.pieces[c]["rook"]
    BY <1>1, <1>3 DEF SameRooks
  <1>6. OnRank(Rank(m.to)) = Home(c)
    BY <1>2, <1>3, HomeIs
  <1> QED BY <1>3, <1>4, <1>5, <1>6 DEF CastlingRook

(* The piece k of d leaves s with the move m.                               *)
Lifted(p, m, d, k, s) ==
  \/ d = p.turn /\ k = m.piece /\ s = m.from
  \/ Is(m, "CAPTURE") /\ d = OPP(p.turn) /\ k = m.captured /\ s = m.to
  \/ Is(m, "EN_PASSANT") /\ d = OPP(p.turn) /\ k = "pawn" /\ s \in p.en_passant_target
  \/ Is(m, "CASTLE_KING_SIDE") /\ d = p.turn /\ k = "rook" /\ s = KingRook(p.turn)
  \/ Is(m, "CASTLE_QUEEN_SIDE") /\ d = p.turn /\ k = "rook" /\ s = QueenRook(p.turn)

(* The piece k of d comes to s with the move m.                             *)
Dropped(p, m, d, k, s) ==
  \/ d = p.turn /\ s = m.to /\ k = (IF Is(m, "PROMOTION") THEN m.promoted ELSE m.piece)
  \/ Is(m, "CASTLE_KING_SIDE") /\ d = p.turn /\ k = "rook" /\ s = KingHome(p.turn) + 1
  \/ Is(m, "CASTLE_QUEEN_SIDE") /\ d = p.turn /\ k = "rook" /\ s = KingHome(p.turn) - 1

(* The board D after the move m in p: every piece stays that is not lifted, *)
(* and those dropped are added.                                             *)
Replaces(p, m, D) ==
  \A d \in Colors, k \in PieceKinds, s \in Squares :
    s \in D[d][k] <=> (s \in p.pieces[d][k] /\ ~Lifted(p, m, d, k, s)) \/ Dropped(p, m, d, k, s)

(* Make's castling moves the corner's rook beside the king, and nothing     *)
(* else.                                                                    *)
LEMMA CastleIs ==
  ASSUME NEW q, Raw(q), NEW m \in Moves, NEW c \in Colors, NEW r, r = Castle(q, m, c),
         ~(Is(m, "CASTLE_KING_SIDE") /\ Is(m, "CASTLE_QUEEN_SIDE")),
         Is(m, "CASTLE_KING_SIDE") => CastlingRook(q, m.to, c, KingSideFiles) = {KingRook(c)},
         Is(m, "CASTLE_QUEEN_SIDE") => CastlingRook(q, m.to, c, QueenSideFiles) = {QueenRook(c)}
  PROVE  /\ Raw(r) /\ Kept(q, r) /\ r.castling_rights = q.castling_rights
         /\ Turns(r) <=> Turns(q)
         /\ Is(m, "CASTLE_KING_SIDE") =>
              r.pieces = Put(q.pieces, c, "rook",
                             Xor(q.pieces[c]["rook"], {KingRook(c), KingHome(c) + 1}))
         /\ Is(m, "CASTLE_QUEEN_SIDE") =>
              r.pieces = Put(q.pieces, c, "rook",
                             Xor(q.pieces[c]["rook"], {QueenRook(c), KingHome(c) - 1}))
         /\ ~Is(m, "CASTLE_KING_SIDE") /\ ~Is(m, "CASTLE_QUEEN_SIDE") => r.pieces = q.pieces
  <1>1. CASE Is(m, "CASTLE_KING_SIDE")
    <2>1. PICK rook, n, new : rook = {KingRook(c)} /\ n = -2 /\ new = Shift(rook, n, 0)
      OBVIOUS
    <2>2. new = {KingHome(c) + 1} /\ rook \in SUBSET Squares /\ new \in SUBSET Squares
      <3>1. KingHome(c) + 1 \in Squares /\ KingHome(c) + 3 \in Squares
        BY Corners
      <3>2. new = {KingHome(c) + 1}
        BY <2>1, RookShifts
      <3>3. rook \in SUBSET Squares
        BY <2>1, <3>1, Corners
      <3> QED BY <3>1, <3>2, <3>3
    <2>3. r = MoveRook(q, c, rook, n)
      BY <1>1, <2>1 DEF Castle
    <2>4. rook \cup new = {KingRook(c), KingHome(c) + 1}
      BY <2>1, <2>2
    <2>5. /\ Raw(r) /\ Kept(q, r) /\ r.castling_rights = q.castling_rights
          /\ r.pieces = Put(q.pieces, c, "rook", Xor(q.pieces[c]["rook"], rook \cup new))
          /\ Turns(r) <=> Turns(q)
      BY <2>1, <2>2, <2>3, MoveRookIs
    <2> QED BY <1>1, <2>4, <2>5
  <1>2. CASE Is(m, "CASTLE_QUEEN_SIDE")
    <2>1. PICK rook, n, new : rook = {QueenRook(c)} /\ n = 3 /\ new = Shift(rook, n, 0)
      OBVIOUS
    <2>2. new = {KingHome(c) - 1} /\ rook \in SUBSET Squares /\ new \in SUBSET Squares
      <3>1. KingHome(c) - 1 \in Squares /\ KingHome(c) - 4 \in Squares
        BY Corners
      <3>2. new = {KingHome(c) - 1}
        BY <2>1, RookShifts
      <3>3. rook \in SUBSET Squares
        BY <2>1, <3>1, Corners
      <3> QED BY <3>1, <3>2, <3>3
    <2>3. r = MoveRook(q, c, rook, n)
      BY <1>2, <2>1 DEF Castle
    <2>4. rook \cup new = {QueenRook(c), KingHome(c) - 1}
      BY <2>1, <2>2
    <2>5. /\ Raw(r) /\ Kept(q, r) /\ r.castling_rights = q.castling_rights
          /\ r.pieces = Put(q.pieces, c, "rook", Xor(q.pieces[c]["rook"], rook \cup new))
          /\ Turns(r) <=> Turns(q)
      BY <2>1, <2>2, <2>3, MoveRookIs
    <2> QED BY <1>2, <2>4, <2>5
  <1>3. CASE ~Is(m, "CASTLE_KING_SIDE") /\ ~Is(m, "CASTLE_QUEEN_SIDE")
    BY <1>3 DEF Castle, Kept
  <1> QED BY <1>1, <1>2, <1>3

(* All of Make: what becomes of the board and of every field that is kept   *)
(* beside it.                                                               *)
LEMMA MakeIs ==
  ASSUME NEW p, NEW m, Good(p), Plausible(p, m), NEW r, r = Make(p, m)
  PROVE  /\ Raw(r) /\ r.turn = OPP(p.turn) /\ (Turns(r) <=> ~Turns(p))
         /\ r.fullmove_counter =
              (IF p.turn = "black" THEN p.fullmove_counter + 1 ELSE p.fullmove_counter)
         /\ r.castling_rights = p.castling_rights \ Forgotten(m, p.turn)
         /\ m.piece = "king" => r.castling_rights \cap {KingSide(p.turn), QueenSide(p.turn)} = {}
         /\ r.mailbox = [s \in Squares |-> PieceOn(r.pieces, s)]
         /\ Derived(r)
         /\ r.en_passant_sq \in {Skipped(p.turn, m), {}}
         /\ r.en_passant_target = Target(Skipped(p.turn, m))
         /\ Notes(r, Skipped(p.turn, m))
         /\ Replaces(p, m, r.pieces)
  <1>0. PICK c : c = p.turn
    OBVIOUS
  <1>1. PICK q1 : q1 = MovePiece(p, m, c)
    OBVIOUS
  <1>2. PICK q2 : q2 = Capture(q1, m, c)
    OBVIOUS
  <1>3. PICK q3 : q3 = Castle(q2, m, c)
    OBVIOUS
  <1>4. PICK q4 : q4 = UpdateRights(q3, m, c)
    OBVIOUS
  <1>5. PICK q5 : q5 = TakeEnPassant(q4, m, c)
    OBVIOUS
  <1>6. PICK q6 : q6 = Promote(q5, m, c)
    OBVIOUS
  <1>7. PICK q7 : q7 = PassTurn(q6, m, c)
    OBVIOUS
  <1>8. PICK q8 : q8 = Tick(q7, m, c)
    OBVIOUS
  <1>9. r = UpdateInternals(q8)
    BY <1>0, <1>1, <1>2, <1>3, <1>4, <1>5, <1>6, <1>7, <1>8 DEF Make
  <1>10. c \in Colors /\ m \in Moves /\ Raw(p) /\ OPP(c) \in Colors /\ OPP(c) # c
    BY <1>0, OppIs DEF Good, Plausible
  <1>11. /\ m.from \in Squares /\ m.to \in Squares /\ m.piece \in PieceKinds
         /\ Is(m, "CAPTURE") => m.captured \in PieceKinds
         /\ Is(m, "PROMOTION") => m.promoted \in PieceKinds \ {"pawn"}
    BY <1>10, MoveIs DEF Plausible, Takes, Promotes, Promotable, PieceKinds
  <1>z. p.pieces \in Boards
    BY <1>10 DEF Raw
  <1>c. /\ Raw(q1) /\ Kept(p, q1) /\ q1.castling_rights = p.castling_rights /\ (Turns(q1) <=> ~Turns(p))
        /\ q1.pieces = Put(p.pieces, c, m.piece, Xor(p.pieces[c][m.piece], {m.from, m.to}))
    BY <1>1, <1>10, MovePieceIs
  <1>d. /\ Raw(q2) /\ Kept(q1, q2) /\ q2.castling_rights = q1.castling_rights /\ (Turns(q2) <=> Turns(q1))
        /\ q2.pieces = IF Is(m, "CAPTURE")
                       THEN Put(q1.pieces, OPP(c), m.captured, Xor(q1.pieces[OPP(c)][m.captured], {m.to}))
                       ELSE q1.pieces
    <2>1. Raw(q1) /\ (Is(m, "CAPTURE") => m.captured \in PieceKinds)
      BY <1>11, <1>c
    <2> QED BY <2>1, <1>2, <1>10, CaptureIs
  <1>e. Flipped(p.pieces, c, m.piece, {m.from, m.to}, q1.pieces)
    <2>1. {m.from, m.to} \in SUBSET Squares
      BY <1>11
    <2> QED BY <1>c, <1>z, <1>10, <1>11, <2>1, PutXor
  <1>f. IF Is(m, "CAPTURE") THEN Flipped(q1.pieces, OPP(c), m.captured, {m.to}, q2.pieces)
                            ELSE q2.pieces = q1.pieces
    <2>1. {m.to} \in SUBSET Squares /\ q1.pieces \in Boards
      BY <1>11, <1>c DEF Raw
    <2>2. CASE Is(m, "CAPTURE")
      <3>1. q2.pieces = Put(q1.pieces, OPP(c), m.captured, Xor(q1.pieces[OPP(c)][m.captured], {m.to}))
        BY <1>d, <2>2
      <3> QED BY <3>1, <2>1, <2>2, <1>10, <1>11, PutXor
    <2> QED BY <1>d, <2>2
  <1>g. /\ Is(m, "CASTLE_KING_SIDE") => CastlingRook(q2, m.to, c, KingSideFiles) = {KingRook(c)}
        /\ Is(m, "CASTLE_QUEEN_SIDE") => CastlingRook(q2, m.to, c, QueenSideFiles) = {QueenRook(c)}
        /\ ~(Is(m, "CASTLE_KING_SIDE") /\ Is(m, "CASTLE_QUEEN_SIDE"))
    <2>1. ASSUME m.piece = "king", ~Is(m, "CAPTURE")
          PROVE  \A s \in Squares : s \in q2.pieces[c]["rook"] <=> s \in p.pieces[c]["rook"]
      BY <2>1, <1>10, <1>e, <1>f DEF Flipped, PieceKinds
    <2>2. CASE Is(m, "CASTLE_KING_SIDE")
      <3>1. m.flags = {"CASTLE_KING_SIDE"} /\ m.piece = "king"
        BY <2>2 DEF Plausible, CastlesAllowed, CastlesTo
      <3>2. SameRooks(q2, p, c)
        BY <2>1, <3>1 DEF Is, SameRooks
      <3>3. CastlingRook(q2, m.to, c, KingSideFiles) = {KingRook(c)}
        BY <1>0, <2>2, <3>2, RookKingSide
      <3> QED BY <3>1, <3>3 DEF Is
    <2>3. CASE Is(m, "CASTLE_QUEEN_SIDE")
      <3>1. m.flags = {"CASTLE_QUEEN_SIDE"} /\ m.piece = "king"
        BY <2>3 DEF Plausible, CastlesAllowed, CastlesTo
      <3>2. SameRooks(q2, p, c)
        BY <2>1, <3>1 DEF Is, SameRooks
      <3>3. CastlingRook(q2, m.to, c, QueenSideFiles) = {QueenRook(c)}
        BY <1>0, <2>3, <3>2, RookQueenSide
      <3> QED BY <3>1, <3>3 DEF Is
    <2> QED BY <2>2, <2>3
  <1>h. /\ Raw(q3) /\ Kept(q2, q3) /\ q3.castling_rights = q2.castling_rights /\ (Turns(q3) <=> Turns(q2))
        /\ Is(m, "CASTLE_KING_SIDE") =>
             Flipped(q2.pieces, c, "rook", {KingRook(c), KingHome(c) + 1}, q3.pieces)
        /\ Is(m, "CASTLE_QUEEN_SIDE") =>
             Flipped(q2.pieces, c, "rook", {QueenRook(c), KingHome(c) - 1}, q3.pieces)
        /\ ~Is(m, "CASTLE_KING_SIDE") /\ ~Is(m, "CASTLE_QUEEN_SIDE") => q3.pieces = q2.pieces
    <2>1. /\ Raw(q3) /\ Kept(q2, q3) /\ q3.castling_rights = q2.castling_rights /\ (Turns(q3) <=> Turns(q2))
          /\ Is(m, "CASTLE_KING_SIDE") =>
               q3.pieces = Put(q2.pieces, c, "rook",
                               Xor(q2.pieces[c]["rook"], {KingRook(c), KingHome(c) + 1}))
          /\ Is(m, "CASTLE_QUEEN_SIDE") =>
               q3.pieces = Put(q2.pieces, c, "rook",
                               Xor(q2.pieces[c]["rook"], {QueenRook(c), KingHome(c) - 1}))
          /\ ~Is(m, "CASTLE_KING_SIDE") /\ ~Is(m, "CASTLE_QUEEN_SIDE") => q3.pieces = q2.pieces
      <3>1. Raw(q2)
        BY <1>d
      <3> QED BY <3>1, <1>3, <1>10, <1>g, CastleIs
    <2>2. /\ {KingRook(c), KingHome(c) + 1} \in SUBSET Squares
          /\ {QueenRook(c), KingHome(c) - 1} \in SUBSET Squares
      BY <1>10, HomeSquares
    <2>3. q2.pieces \in Boards /\ "rook" \in PieceKinds
      BY <1>d DEF Raw, PieceKinds
    <2> QED BY <2>1, <2>2, <2>3, <1>10, PutXor
  <1>i. /\ Raw(q4) /\ Kept(q3, q4) /\ q4.pieces = q3.pieces /\ (Turns(q4) <=> Turns(q3))
        /\ q4.castling_rights = q3.castling_rights \ Forgotten(m, c)
        /\ m.piece = "king" => q4.castling_rights \cap {KingSide(c), QueenSide(c)} = {}
    BY <1>4, <1>10, <1>h, UpdateRightsIs
  <1>j. /\ q4.en_passant_target = p.en_passant_target /\ q4.fullmove_counter = p.fullmove_counter
    BY <1>c, <1>d, <1>h, <1>i DEF Kept
  <1>k. Is(m, "EN_PASSANT") => \E t \in Squares : p.en_passant_target = {t}
    <2> SUFFICES ASSUME Is(m, "EN_PASSANT") PROVE \E t \in Squares : p.en_passant_target = {t}
      OBVIOUS
    <2>1. m.to \in p.en_passant_sq
      BY DEF Plausible, Passes
    <2>2. PICK s \in Squares : /\ p.en_passant_target = {s - 8 * Forward(p.turn)}
                              /\ s - 8 * Forward(p.turn) \in Enemy(p, "pawn")
      BY <2>1 DEF Good, JustPassed
    <2>3. Enemy(p, "pawn") \subseteq Squares
      BY <1>0, <1>10, <1>z DEF Boards, Enemy, PieceKinds
    <2> QED BY <2>2, <2>3
  <1>l. /\ Raw(q5) /\ Kept(q4, q5) /\ q5.castling_rights = q4.castling_rights /\ (Turns(q5) <=> Turns(q4))
        /\ q5.pieces = IF Is(m, "EN_PASSANT")
                       THEN Put(q4.pieces, OPP(c), "pawn",
                                Xor(q4.pieces[OPP(c)]["pawn"], q4.en_passant_target))
                       ELSE q4.pieces
    BY <1>5, <1>10, <1>i, <1>j, <1>k, TakeEnPassantIs
  <1>m. IF Is(m, "EN_PASSANT") THEN Flipped(q4.pieces, OPP(c), "pawn", p.en_passant_target, q5.pieces)
                               ELSE q5.pieces = q4.pieces
    <2>1. Is(m, "EN_PASSANT") => p.en_passant_target \in SUBSET Squares
      BY <1>k
    <2>2. q4.pieces \in Boards /\ "pawn" \in PieceKinds
      BY <1>i DEF Raw, PieceKinds
    <2>3. CASE Is(m, "EN_PASSANT")
      <3>1. q5.pieces = Put(q4.pieces, OPP(c), "pawn",
                            Xor(q4.pieces[OPP(c)]["pawn"], p.en_passant_target))
        BY <1>j, <1>l, <2>3
      <3> QED BY <3>1, <2>1, <2>2, <2>3, <1>10, PutXor
    <2> QED BY <1>l, <2>3
  <1>n. /\ Raw(q6) /\ Kept(q5, q6) /\ q6.castling_rights = q5.castling_rights /\ (Turns(q6) <=> Turns(q5))
        /\ q6.pieces =
              IF Is(m, "PROMOTION")
              THEN Put(Put(q5.pieces, c, "pawn", Xor(q5.pieces[c]["pawn"], {m.to})),
                       c, m.promoted, Xor(q5.pieces[c][m.promoted], {m.to}))
              ELSE q5.pieces
    BY <1>6, <1>10, <1>11, <1>l, PromoteIs
  <1>o. IF Is(m, "PROMOTION")
        THEN \E D : Flipped(q5.pieces, c, "pawn", {m.to}, D) /\ Flipped(D, c, m.promoted, {m.to}, q6.pieces)
        ELSE q6.pieces = q5.pieces
    <2>1. CASE Is(m, "PROMOTION")
      <3>1. PICK D : D = Put(q5.pieces, c, "pawn", Xor(q5.pieces[c]["pawn"], {m.to}))
        OBVIOUS
      <3>2. {m.to} \in SUBSET Squares /\ q5.pieces \in Boards /\ "pawn" \in PieceKinds
        BY <1>11, <1>l DEF Raw, PieceKinds
      <3>3. D \in Boards /\ Flipped(q5.pieces, c, "pawn", {m.to}, D)
        BY <3>1, <3>2, <1>10, PutXor
      <3>4. D[c][m.promoted] = q5.pieces[c][m.promoted]
        <4>0. PICK E : E = Xor(q5.pieces[c]["pawn"], {m.to})
          OBVIOUS
        <4>1. E \in SUBSET Squares
          BY <3>2, <4>0, <1>10, XorIn DEF Boards
        <4>2. PICK j \in PieceKinds : j = m.promoted /\ j # "pawn"
          BY <2>1, <1>11
        <4>3. D = Put(q5.pieces, c, "pawn", E)
          BY <3>1, <4>0
        <4>4. \A d \in Colors, k \in PieceKinds : d # c \/ k # "pawn" => D[d][k] = q5.pieces[d][k]
          BY <3>2, <4>1, <4>3, <1>10, PutIs
        <4> QED BY <4>2, <4>4, <1>10
      <3>5. q6.pieces = Put(D, c, m.promoted, Xor(D[c][m.promoted], {m.to}))
        BY <1>n, <2>1, <3>1, <3>4
      <3>6. Flipped(D, c, m.promoted, {m.to}, q6.pieces)
        BY <2>1, <3>2, <3>3, <3>5, <1>10, <1>11, PutXor
      <3> QED BY <2>1, <3>3, <3>6
    <2> QED BY <2>1, <1>n
  <1>p. /\ Raw(q7) /\ q7.pieces = q6.pieces /\ q7.castling_rights = q6.castling_rights
        /\ q7.fullmove_counter = q6.fullmove_counter /\ q7.turn = OPP(c)
        /\ q7.en_passant_sq = Skipped(c, m)
        /\ (Turns(q7) <=> Turns(q6))
    BY <1>7, <1>10, <1>n, PassTurnIs
  <1>q. /\ Raw(q8) /\ q8.pieces = q7.pieces /\ q8.castling_rights = q7.castling_rights
        /\ q8.fullmove_counter = (IF c = "black" THEN q7.fullmove_counter + 1 ELSE q7.fullmove_counter)
        /\ q8.turn = q7.turn /\ q8.en_passant_sq = q7.en_passant_sq /\ q8.hash = q7.hash
    BY <1>8, <1>10, <1>p, TickIs
  <1>r. /\ Record(r) /\ r.pieces = q8.pieces /\ r.castling_rights = q8.castling_rights
        /\ r.fullmove_counter = q8.fullmove_counter /\ r.turn = q8.turn /\ r.hash = q8.hash
        /\ r.occupied_sqs = Occupancy(q8.pieces, "white") \cup Occupancy(q8.pieces, "black")
        /\ r.mailbox = [s \in Squares |-> PieceOn(q8.pieces, s)]
        /\ r.en_passant_target = Target(q8.en_passant_sq)
        /\ r.en_passant_sq \in {q8.en_passant_sq, {}}
        /\ r.king_ban = Ban(r)
        /\ r.en_passant_sq # {} => ~Exposes(r, r.en_passant_target)
    BY <1>9, <1>q, UpdateInternalsIs DEF Raw
  <1>s. Replaces(p, m, r.pieces)
    <2>1. r.pieces = q6.pieces /\ q4.pieces = q3.pieces
      BY <1>i, <1>p, <1>q, <1>r
    <2>2. m.from \in p.pieces[c][m.piece] /\ \A k \in PieceKinds : m.to \notin p.pieces[c][k]
      BY <1>0 DEF Plausible, Own
    <2>3. Is(m, "CAPTURE") => m.to \in p.pieces[OPP(c)][m.captured]
      BY <1>0 DEF Plausible, Takes, Enemy
    <2> SUFFICES ASSUME NEW d \in Colors, NEW k \in PieceKinds, NEW s \in Squares
                 PROVE  s \in r.pieces[d][k] <=>
                          (s \in p.pieces[d][k] /\ ~Lifted(p, m, d, k, s)) \/ Dropped(p, m, d, k, s)
      BY DEF Replaces
    <2>4. s \in q2.pieces[d][k] <=>
            \/ s \in p.pieces[d][k] /\ ~(d = c /\ k = m.piece /\ s = m.from)
               /\ ~(Is(m, "CAPTURE") /\ d = OPP(c) /\ k = m.captured /\ s = m.to)
            \/ d = c /\ k = m.piece /\ s = m.to
      <3>1. s \in q1.pieces[d][k] <=>
              \/ s \in p.pieces[d][k] /\ ~(d = c /\ k = m.piece /\ s = m.from)
              \/ d = c /\ k = m.piece /\ s = m.to
        BY <1>e, <1>11, <2>2 DEF Flipped
      <3>2. CASE ~Is(m, "CAPTURE")
        BY <3>1, <3>2, <1>f
      <3>3. CASE Is(m, "CAPTURE")
        <4>1. s \in q2.pieces[d][k] <=>
                IF d = OPP(c) /\ k = m.captured THEN ~(s \in q1.pieces[d][k] <=> s = m.to)
                                               ELSE s \in q1.pieces[d][k]
          BY <3>3, <1>f DEF Flipped
        <4> QED BY <3>1, <3>3, <4>1, <2>3, <1>10
      <3> QED BY <3>2, <3>3
    <2>5. CASE Is(m, "CASTLE_KING_SIDE")
      <3>1. /\ m.flags = {"CASTLE_KING_SIDE"} /\ m.piece = "king"
            /\ KingRook(c) \in p.pieces[c]["rook"] /\ KingHome(c) + 1 \notin p.occupied_sqs
        BY <1>0, <2>5 DEF Plausible, CastlesAllowed, CastlesTo, Own
      <3>2. KingHome(c) + 1 \in Squares /\ KingHome(c) + 1 \notin p.pieces[c]["rook"]
        BY <1>10, <3>1, OccupiedSqs, HomeSquares DEF Good, PieceKinds
      <3>3. s \in r.pieces[d][k] <=>
              IF d = c /\ k = "rook" THEN ~(s \in q2.pieces[d][k] <=> s \in {KingRook(c), KingHome(c) + 1})
                                     ELSE s \in q2.pieces[d][k]
        BY <1>h, <1>m, <1>o, <2>1, <2>5, <3>1 DEF Is, Flipped
      <3>4. /\ Lifted(p, m, d, k, s) <=>
                 \/ d = c /\ k = m.piece /\ s = m.from
                 \/ d = c /\ k = "rook" /\ s = KingRook(c)
            /\ Dropped(p, m, d, k, s) <=>
                 \/ d = c /\ k = m.piece /\ s = m.to
                 \/ d = c /\ k = "rook" /\ s = KingHome(c) + 1
        BY <1>0, <3>1 DEF Is, Lifted, Dropped
      <3>5. ~Is(m, "CAPTURE")
        BY <3>1 DEF Is
      <3> QED BY <2>4, <3>1, <3>2, <3>3, <3>4, <3>5
    <2>6. CASE Is(m, "CASTLE_QUEEN_SIDE")
      <3>1. /\ m.flags = {"CASTLE_QUEEN_SIDE"} /\ m.piece = "king"
            /\ QueenRook(c) \in p.pieces[c]["rook"] /\ KingHome(c) - 1 \notin p.occupied_sqs
        BY <1>0, <2>6 DEF Plausible, CastlesAllowed, CastlesTo, Own
      <3>2. KingHome(c) - 1 \in Squares /\ KingHome(c) - 1 \notin p.pieces[c]["rook"]
        BY <1>10, <3>1, OccupiedSqs, HomeSquares DEF Good, PieceKinds
      <3>3. s \in r.pieces[d][k] <=>
              IF d = c /\ k = "rook" THEN ~(s \in q2.pieces[d][k] <=> s \in {QueenRook(c), KingHome(c) - 1})
                                     ELSE s \in q2.pieces[d][k]
        BY <1>h, <1>m, <1>o, <2>1, <2>6, <3>1 DEF Is, Flipped
      <3>4. /\ Lifted(p, m, d, k, s) <=>
                 \/ d = c /\ k = m.piece /\ s = m.from
                 \/ d = c /\ k = "rook" /\ s = QueenRook(c)
            /\ Dropped(p, m, d, k, s) <=>
                 \/ d = c /\ k = m.piece /\ s = m.to
                 \/ d = c /\ k = "rook" /\ s = KingHome(c) - 1
        BY <1>0, <3>1 DEF Is, Lifted, Dropped
      <3>5. ~Is(m, "CAPTURE")
        BY <3>1 DEF Is
      <3> QED BY <2>4, <3>1, <3>2, <3>3, <3>4, <3>5
    <2>7. CASE Is(m, "EN_PASSANT")
      <3>1. m.flags = {"EN_PASSANT"} /\ m.piece = "pawn"
        BY <2>7 DEF Plausible
      <3>2. p.en_passant_target \subseteq p.pieces[OPP(c)]["pawn"]
        BY <1>0 DEF Good, JustPassed, Enemy
      <3>3. s \in r.pieces[d][k] <=>
              IF d = OPP(c) /\ k = "pawn" THEN ~(s \in q2.pieces[d][k] <=> s \in p.en_passant_target)
                                          ELSE s \in q2.pieces[d][k]
        BY <1>h, <1>m, <1>o, <2>1, <2>7, <3>1 DEF Is, Flipped
      <3>4. /\ Lifted(p, m, d, k, s) <=>
                 \/ d = c /\ k = m.piece /\ s = m.from
                 \/ d = OPP(c) /\ k = "pawn" /\ s \in p.en_passant_target
            /\ Dropped(p, m, d, k, s) <=> d = c /\ k = m.piece /\ s = m.to
        BY <1>0, <3>1 DEF Is, Lifted, Dropped
      <3>5. ~Is(m, "CAPTURE")
        BY <3>1 DEF Is
      <3> QED BY <1>10, <2>4, <3>1, <3>2, <3>3, <3>4, <3>5
    <2>8. CASE ~Is(m, "CASTLE_KING_SIDE") /\ ~Is(m, "CASTLE_QUEEN_SIDE") /\ ~Is(m, "EN_PASSANT")
      <3>1. q5.pieces = q2.pieces
        BY <1>h, <1>m, <2>1, <2>8
      <3>2. Lifted(p, m, d, k, s) <=>
              \/ d = c /\ k = m.piece /\ s = m.from
              \/ Is(m, "CAPTURE") /\ d = OPP(c) /\ k = m.captured /\ s = m.to
        BY <1>0, <2>8 DEF Lifted
      <3>3. CASE ~Is(m, "PROMOTION")
        <4>1. Dropped(p, m, d, k, s) <=> d = c /\ k = m.piece /\ s = m.to
          BY <1>0, <2>8, <3>3 DEF Dropped
        <4> QED BY <1>o, <2>1, <2>4, <3>1, <3>2, <3>3, <4>1
      <3>4. CASE Is(m, "PROMOTION")
        <4>1. Dropped(p, m, d, k, s) <=> d = c /\ k = m.promoted /\ s = m.to
          BY <1>0, <2>8, <3>4 DEF Dropped
        <4>2. m.piece = "pawn" /\ m.promoted # "pawn" /\ m.promoted \in PieceKinds
          BY <1>11, <3>4 DEF Plausible, Promotes
        <4>3. PICK D : Flipped(q5.pieces, c, "pawn", {m.to}, D) /\ Flipped(D, c, m.promoted, {m.to}, q6.pieces)
          BY <1>o, <3>4
        <4>4. s \in D[d][k] <=> IF d = c /\ k = "pawn" THEN ~(s \in q2.pieces[d][k] <=> s = m.to)
                                                     ELSE s \in q2.pieces[d][k]
          BY <3>1, <4>3 DEF Flipped
        <4>5. s \in r.pieces[d][k] <=> IF d = c /\ k = m.promoted THEN ~(s \in D[d][k] <=> s = m.to)
                                                                  ELSE s \in D[d][k]
          BY <2>1, <4>3 DEF Flipped
        <4>6. d = c /\ s = m.to => s \notin p.pieces[d][k]
          BY <2>2
        <4> QED BY <1>10, <2>4, <3>2, <4>1, <4>2, <4>4, <4>5, <4>6
      <3> QED BY <3>3, <3>4
    <2> QED BY <2>5, <2>6, <2>7, <2>8
  <1>t. Raw(r) /\ (Turns(r) <=> Turns(q8))
    BY <1>q, <1>r DEF Raw, Keyed, Turns
  <1>u. Derived(r)
    BY <1>r DEF Derived
  <1>v. q6.fullmove_counter = p.fullmove_counter
    BY <1>j, <1>l, <1>n DEF Kept
  <1>w. Turns(q8) <=> ~Turns(p)
    BY <1>c, <1>d, <1>h, <1>i, <1>l, <1>n, <1>p, <1>q DEF Turns
  <1>x. r.castling_rights = q4.castling_rights /\ q3.castling_rights = p.castling_rights
    BY <1>c, <1>d, <1>h, <1>l, <1>n, <1>p, <1>q, <1>r
  <1>y. Notes(r, Skipped(c, m))
    <2>1. Record(q8)
      BY <1>q DEF Raw
    <2>2. \E b : /\ b.turn = r.turn /\ b.pieces = r.pieces /\ b.occupied_sqs = r.occupied_sqs
                 /\ b.en_passant_sq = q8.en_passant_sq
                 /\ ~Exposes(b, r.en_passant_target) => r.en_passant_sq = q8.en_passant_sq
      BY <1>9, <2>1, UpdateInternalsIs
    <2>3. q8.en_passant_sq = Skipped(c, m)
      BY <1>p, <1>q
    <2> QED BY <2>2, <2>3 DEF Notes
  <1> QED BY <1>0, <1>i, <1>p, <1>q, <1>r, <1>s, <1>t, <1>u, <1>v, <1>w, <1>x, <1>y

(* On disjoint boards PieceOn finds the piece.                              *)
LEMMA PieceOnIs ==
  ASSUME NEW B \in Boards, Disjoint(B), NEW c \in Colors, NEW k \in PieceKinds, NEW s \in B[c][k]
  PROVE  PieceOn(B, s) = k
  <1>1. s \in Squares
    BY DEF Boards
  <1>2. \A j \in PieceKinds : (\E d \in Colors : s \in B[d][j]) <=> j = k
    BY <1>1 DEF Disjoint
  <1> QED BY <1>2 DEF PieceOn

(* PieceOn finds a kind or none.                                            *)
LEMMA PieceOnIn ==
  ASSUME NEW B, NEW s
  PROVE  PieceOn(B, s) \in PieceKinds \cup {NONE}
  <1>1. CASE \E c \in Colors, k \in PieceKinds : s \in B[c][k]
    <2>1. \E k \in PieceKinds : \E c \in Colors : s \in B[c][k]
      BY <1>1
    <2> QED BY <1>1, <2>1 DEF PieceOn
  <1>2. CASE ~\E c \in Colors, k \in PieceKinds : s \in B[c][k]
    BY <1>2 DEF PieceOn
  <1> QED BY <1>1, <1>2

(* Make of a plausible move puts no two pieces on a square.                 *)
LEMMA MakeDisjoint ==
  ASSUME NEW p, NEW m, Good(p), Plausible(p, m), NEW D, Replaces(p, m, D)
  PROVE  Disjoint(D)
  <1>0. PICK c : c = p.turn
    OBVIOUS
  <1>1. /\ c \in Colors /\ Disjoint(p.pieces) /\ OPP(c) # c
        /\ \A k \in PieceKinds : m.to \notin p.pieces[c][k]
        /\ Is(m, "CAPTURE") => m.to \in p.pieces[OPP(c)][m.captured] /\ m.captured \in PieceKinds
    BY <1>0, OppIs DEF Good, Plausible, Takes, Own, Enemy
  <1>2. ASSUME NEW d \in Colors, NEW k \in PieceKinds, NEW s \in Squares,
               Dropped(p, m, d, k, s), NEW e \in Colors, NEW j \in PieceKinds, s \in p.pieces[e][j]
        PROVE  Lifted(p, m, e, j, s)
    <2>1. s \in p.occupied_sqs
      BY <1>2, OccupiedSqs DEF Good
    <2>2. s = m.to
      BY <1>0, <1>2, <2>1 DEF Dropped, Plausible, CastlesAllowed
    <2>3. Is(m, "CAPTURE")
      BY <2>1, <2>2 DEF Plausible, Takes
    <2>4. e = OPP(c) /\ j = m.captured
      BY <1>1, <1>2, <2>2, <2>3, OppIs DEF Disjoint
    <2> QED BY <1>0, <2>2, <2>3, <2>4 DEF Lifted
  <1>3. ASSUME NEW d \in Colors, NEW k \in PieceKinds, NEW s \in Squares, Dropped(p, m, d, k, s),
               NEW e \in Colors, NEW j \in PieceKinds, Dropped(p, m, e, j, s)
        PROVE  d = e /\ k = j
    <2>1. KingHome(c) \in Int
      BY Corners, <1>1
    <2>2. Is(m, "CASTLE_KING_SIDE") => m.to # KingHome(c) + 1
      BY <1>0, <2>1 DEF Plausible, CastlesAllowed, CastlesTo
    <2>3. Is(m, "CASTLE_QUEEN_SIDE") => m.to # KingHome(c) - 1
      BY <1>0, <2>1 DEF Plausible, CastlesAllowed, CastlesTo
    <2> QED BY <1>0, <1>3, <2>2, <2>3 DEF Dropped
  <1> SUFFICES ASSUME NEW d \in Colors, NEW e \in Colors, NEW j \in PieceKinds, NEW k \in PieceKinds,
                      NEW s \in Squares, s \in D[d][j], s \in D[e][k]
               PROVE  d = e /\ j = k
    BY DEF Disjoint
  <1>4. /\ (s \in p.pieces[d][j] /\ ~Lifted(p, m, d, j, s)) \/ Dropped(p, m, d, j, s)
        /\ (s \in p.pieces[e][k] /\ ~Lifted(p, m, e, k, s)) \/ Dropped(p, m, e, k, s)
    BY DEF Replaces
  <1>5. CASE Dropped(p, m, d, j, s) /\ Dropped(p, m, e, k, s)
    BY <1>3, <1>5
  <1>6. CASE ~Dropped(p, m, d, j, s) /\ ~Dropped(p, m, e, k, s)
    BY <1>1, <1>4, <1>6 DEF Disjoint
  <1>7. CASE Dropped(p, m, d, j, s) /\ ~Dropped(p, m, e, k, s)
    BY <1>2, <1>4, <1>7
  <1>8. CASE ~Dropped(p, m, d, j, s) /\ Dropped(p, m, e, k, s)
    BY <1>2, <1>4, <1>8
  <1> QED BY <1>5, <1>6, <1>7, <1>8

(* Make of a plausible move leaves each side one king, the other's where it *)
(* was.                                                                     *)
LEMMA MakeKings ==
  ASSUME NEW p, NEW m, Good(p), Plausible(p, m), NEW D \in Boards, Replaces(p, m, D)
  PROVE  /\ OneKing(D)
         /\ \A d \in Colors : (m.piece = "king" => d # p.turn) => D[d]["king"] = p.pieces[d]["king"]
  <1>0. PICK c : c = p.turn
    OBVIOUS
  <1>1. c \in Colors /\ m.from \in p.pieces[c][m.piece] /\ p.pieces \in Boards /\ "king" \in PieceKinds
    BY <1>0 DEF Good, Plausible, Raw, Own, PieceKinds
  <1>2. /\ Is(m, "CAPTURE") => m.captured # "king"
        /\ Is(m, "PROMOTION") => m.piece = "pawn" /\ m.promoted # "king"
    BY DEF Plausible, Takes, Promotes, Promotable
  <1>3. ASSUME NEW d \in Colors, NEW s \in Squares
        PROVE  /\ Lifted(p, m, d, "king", s) <=> d = c /\ m.piece = "king" /\ s = m.from
               /\ Dropped(p, m, d, "king", s) <=> d = c /\ m.piece = "king" /\ s = m.to
    BY <1>0, <1>2 DEF Lifted, Dropped
  <1>4. ASSUME NEW d \in Colors, NEW s \in Squares
        PROVE  s \in D[d]["king"] <=>
                 \/ s \in p.pieces[d]["king"] /\ ~(d = c /\ m.piece = "king" /\ s = m.from)
                 \/ d = c /\ m.piece = "king" /\ s = m.to
    BY <1>1, <1>3 DEF Replaces
  <1>5. ASSUME NEW d \in Colors, m.piece = "king" => d # c
        PROVE  D[d]["king"] = p.pieces[d]["king"]
    <2>1. D[d]["king"] \in SUBSET Squares /\ p.pieces[d]["king"] \in SUBSET Squares
      BY <1>1 DEF Boards
    <2>2. \A s \in Squares : s \in D[d]["king"] <=> s \in p.pieces[d]["king"]
      BY <1>4, <1>5
    <2> QED BY <2>1, <2>2
  <1>6. ASSUME NEW d \in Colors PROVE \E s \in Squares : D[d]["king"] = {s}
    <2>1. PICK t \in Squares : p.pieces[d]["king"] = {t}
      BY DEF Good, OneKing
    <2>2. CASE m.piece = "king" /\ d = c
      <3>1. m.from = t /\ m.to \in Squares
        BY <1>1, <2>1, <2>2, MoveIs DEF Plausible
      <3>2. \A s \in Squares : s \in D[d]["king"] <=> s = m.to
        BY <1>4, <2>1, <2>2, <3>1
      <3>3. D[d]["king"] \in SUBSET Squares
        BY <1>1 DEF Boards
      <3> QED BY <3>1, <3>2, <3>3
    <2>3. CASE ~(m.piece = "king" /\ d = c)
      BY <1>5, <2>1, <2>3
    <2> QED BY <2>2, <2>3
  <1> QED BY <1>0, <1>5, <1>6 DEF OneKing

(* After Make the en passant target is a pawn of the side that moved.       *)
LEMMA MakePasses ==
  ASSUME NEW p, NEW m, Good(p), Plausible(p, m), NEW r, r.turn = OPP(p.turn), Derived(r),
         r.en_passant_sq \in {Skipped(p.turn, m), {}}, r.en_passant_target = Target(Skipped(p.turn, m)),
         Replaces(p, m, r.pieces)
  PROVE  JustPassed(r)
  <1>0. PICK c : c = p.turn
    OBVIOUS
  <1>c. c \in Colors /\ OPP(OPP(c)) = c /\ Forward(OPP(c)) = -Forward(c) /\ Forward(c) \in {1, -1}
    BY <1>0, OppIs DEF Good, Forward, OPP, Colors
  <1>1. CASE ~IsDoublePush(m)
    <2>1. Skipped(c, m) = {}
      BY <1>1 DEF Skipped
    <2>2. Target({}) = {}
      BY DEF Target, PushPawn, Shift
    <2> QED BY <1>0, <2>1, <2>2 DEF JustPassed
  <1>2. CASE IsDoublePush(m)
    <2>1. m.piece = "pawn"
      BY <1>2 DEF IsDoublePush
    <2>2. PICK s : s = m.from + 8 * Forward(c)
      OBVIOUS
    <2>3. /\ s \in Squares \ p.occupied_sqs /\ m.to = m.from + 16 * Forward(c)
          /\ Target({s}) = {m.to} /\ PushPawn(c, {m.from}) = {s}
      BY <1>0, <1>2, <2>1, <2>2 DEF Plausible, Passes
    <2>4. Skipped(c, m) = {s}
      BY <1>2, <2>3 DEF Skipped
    <2>5. m.from \in Squares /\ m.to \in Squares
      BY MoveIs DEF Plausible
    <2>6. m.to = s - 8 * Forward(r.turn)
      BY <1>0, <1>c, <2>2, <2>3, <2>5 DEF Squares
    <2>7. ~Is(m, "PROMOTION") /\ ~Is(m, "CASTLE_KING_SIDE") /\ ~Is(m, "CASTLE_QUEEN_SIDE")
      BY <1>2, <2>1 DEF Plausible, Passes, CastlesAllowed, CastlesTo
    <2>8. m.to \in Enemy(r, "pawn")
      <3>1. Dropped(p, m, c, "pawn", m.to)
        BY <1>0, <2>1, <2>7 DEF Dropped
      <3> QED BY <1>0, <1>c, <2>5, <3>1 DEF Replaces, Enemy, PieceKinds
    <2>9. s \notin r.occupied_sqs
      <3>1. \A d \in Colors, k \in PieceKinds : s \notin p.pieces[d][k]
        BY <2>3, OccupiedSqs DEF Good
      <3>2. s # m.to
        BY <1>c, <2>2, <2>3, <2>5 DEF Squares
      <3>3. \A d \in Colors, k \in PieceKinds : ~Dropped(p, m, d, k, s)
        BY <2>7, <3>2 DEF Dropped
      <3>4. \A d \in Colors, k \in PieceKinds : s \notin r.pieces[d][k]
        BY <2>3, <3>1, <3>3 DEF Replaces
      <3> QED BY <3>4, OccupiedSqs
    <2> QED BY <1>0, <2>3, <2>4, <2>6, <2>8, <2>9 DEF JustPassed
  <1> QED BY <1>1, <1>2

(* Make of a plausible move leads from a good position to a good one.       *)
LEMMA MakeGood ==
  ASSUME NEW p, NEW m, Good(p), Plausible(p, m), NEW r, r = Make(p, m)
  PROVE  Good(r)
  <1>1. /\ Raw(r) /\ r.turn = OPP(p.turn) /\ (Turns(r) <=> ~Turns(p))
        /\ r.fullmove_counter =
             (IF p.turn = "black" THEN p.fullmove_counter + 1 ELSE p.fullmove_counter)
        /\ r.castling_rights \subseteq p.castling_rights
        /\ m.piece = "king" => r.castling_rights \cap {KingSide(p.turn), QueenSide(p.turn)} = {}
        /\ r.mailbox = [s \in Squares |-> PieceOn(r.pieces, s)]
        /\ Derived(r)
        /\ r.en_passant_sq \in {Skipped(p.turn, m), {}}
        /\ r.en_passant_target = Target(Skipped(p.turn, m))
        /\ Replaces(p, m, r.pieces)
    BY MakeIs
  <1>2. r.turn \in Colors /\ (Turns(r) <=> r.turn = "black") /\ r.fullmove_counter \in Int
    BY <1>1 DEF Good, OPP, Colors
  <1>3. Disjoint(r.pieces)
    BY <1>1, MakeDisjoint
  <1>4. r.pieces \in Boards
    BY <1>1 DEF Raw
  <1>5. /\ OneKing(r.pieces)
        /\ \A d \in Colors :
             (m.piece = "king" => d # p.turn) => r.pieces[d]["king"] = p.pieces[d]["king"]
    BY <1>1, <1>4, MakeKings
  <1>6. RightsAtHome(r)
    <2>1. ASSUME NEW d \in Colors, r.castling_rights \cap {KingSide(d), QueenSide(d)} # {}
          PROVE  KingHome(d) \in r.pieces[d]["king"]
      <3>1. m.piece = "king" => d # p.turn
        BY <1>1, <2>1
      <3>2. KingHome(d) \in p.pieces[d]["king"]
        BY <1>1, <2>1 DEF Good, RightsAtHome
      <3> QED BY <1>5, <3>1, <3>2
    <2>2. r.castling_rights \subseteq Rights
      BY <1>1 DEF Good, RightsAtHome
    <2> QED BY <2>1, <2>2 DEF RightsAtHome
  <1>7. JustPassed(r)
    BY <1>1, MakePasses
  <1>8. Mailed(r)
    <2>1. r.mailbox \in [Squares -> PieceKinds \cup {NONE}]
      BY <1>1, PieceOnIn
    <2>2. ASSUME NEW c \in Colors, NEW k \in PieceKinds, NEW s \in r.pieces[c][k] PROVE r.mailbox[s] = k
      BY <1>1, <1>3, <1>4, PieceOnIs DEF Boards
    <2> QED BY <2>1, <2>2 DEF Mailed
  <1> QED BY <1>1, <1>2, <1>3, <1>5, <1>6, <1>7, <1>8 DEF Good

-----------------------------------------------------------------------------
(* q and r agree in all but boards and mailbox.                             *)
SameButBoard(q, r) ==
  /\ r.turn = q.turn /\ r.occupied_sqs = q.occupied_sqs /\ r.king_ban = q.king_ban
  /\ r.en_passant_sq = q.en_passant_sq /\ r.en_passant_target = q.en_passant_target
  /\ r.castling_rights = q.castling_rights /\ r.halfmove_clock = q.halfmove_clock
  /\ r.fullmove_counter = q.fullmove_counter /\ r.hash = q.hash

(* A mailbox names a kind or none for every square.                         *)
Mailboxes == [Squares -> PieceKinds \cup {NONE}]

(* What holds between the steps of Undo.                                    *)
Board(q) == Record(q) /\ q.pieces \in Boards /\ q.mailbox \in Mailboxes

(* The board D is B with one bitboard that holds the squares of E.          *)
Reset(B, c, k, E, D) ==
  \A d \in Colors, j \in PieceKinds, s \in Squares :
    s \in D[d][j] <=> IF d = c /\ j = k THEN s \in E ELSE s \in B[d][j]

(* An assignment to one bitboard resets it.                                 *)
LEMMA PutReset ==
  ASSUME NEW B \in Boards, NEW c \in Colors, NEW k \in PieceKinds, NEW E \in SUBSET Squares,
         NEW D, D = Put(B, c, k, E)
  PROVE  D \in Boards /\ Reset(B, c, k, E, D)
  <1>1. /\ D \in Boards /\ D[c][k] = E
        /\ \A d \in Colors, j \in PieceKinds : d # c \/ j # k => D[d][j] = B[d][j]
    BY PutIs
  <1> QED BY <1>1 DEF Reset

(* The mailbox N is M with k on s.                                          *)
Stamped(M, s, k, N) == N = [M EXCEPT ![s] = k]

(* Undo's first step: the piece goes back, on the board and in the mailbox, *)
(* which keeps it on the square it came to.                                 *)
LEMMA UnmovePieceIs ==
  ASSUME NEW q, Board(q), NEW m \in Moves, NEW c \in Colors, NEW r, r = UnmovePiece(q, m, c)
  PROVE  /\ Board(r) /\ SameButBoard(q, r)
         /\ Reset(q.pieces, c, m.piece, Xor(q.pieces[c][m.piece], {m.to}) \cup {m.from}, r.pieces)
         /\ Stamped(q.mailbox, m.from, m.piece, r.mailbox)
  <1>1. PICK k, E, P, M :
          /\ k = m.piece /\ E = Xor(q.pieces[c][k], {m.to}) \cup {m.from}
          /\ P = Put(q.pieces, c, k, E) /\ M = [q.mailbox EXCEPT ![m.from] = m.piece]
    OBVIOUS
  <1>2. r = [q EXCEPT !.pieces = P, !.mailbox = M]
    BY <1>1 DEF UnmovePiece, Put
  <1>3. Record(r) /\ SameButBoard(q, r) /\ r.pieces = P /\ r.mailbox = M
    BY <1>2 DEF Board, Record, SameButBoard
  <1>4. k \in PieceKinds /\ E \in SUBSET Squares /\ q.pieces \in Boards
    BY <1>1, MoveIs DEF Board, Boards, Xor
  <1>5. P \in Boards /\ Reset(q.pieces, c, k, E, P)
    BY <1>1, <1>4, PutReset
  <1>6. M \in Mailboxes
    BY <1>1, MoveIs DEF Board, Mailboxes
  <1> QED BY <1>1, <1>3, <1>5, <1>6 DEF Board, Stamped

(* Undo of a promotion takes the new piece away from the last square.       *)
LEMMA UnpromoteIs ==
  ASSUME NEW q, Board(q), NEW m \in Moves, NEW c \in Colors, NEW r, r = Unpromote(q, m, c),
         Is(m, "PROMOTION") => m.promoted \in PieceKinds /\ m.promoted # m.piece
  PROVE  /\ Board(r) /\ SameButBoard(q, r)
         /\ Is(m, "PROMOTION") =>
              /\ \E D : /\ Reset(q.pieces, c, m.piece, Xor(q.pieces[c][m.piece], {m.to}), D)
                        /\ Reset(D, c, m.promoted, Xor(q.pieces[c][m.promoted], {m.to}), r.pieces)
              /\ Stamped(q.mailbox, m.to, NONE, r.mailbox)
         /\ ~Is(m, "PROMOTION") => r.pieces = q.pieces /\ r.mailbox = q.mailbox
  <1>a. CASE ~Is(m, "PROMOTION")
    BY <1>a DEF Unpromote, SameButBoard
  <1>b. CASE Is(m, "PROMOTION")
    <2>1. PICK k, j, E, F, D, P, M :
            /\ k = m.piece /\ j = m.promoted
            /\ E = Xor(q.pieces[c][k], {m.to}) /\ F = Xor(q.pieces[c][j], {m.to})
            /\ D = Put(q.pieces, c, k, E) /\ P = Put(D, c, j, F)
            /\ M = [q.mailbox EXCEPT ![m.to] = NONE]
      OBVIOUS
    <2>2. /\ k \in PieceKinds /\ j \in PieceKinds /\ j # k
          /\ E \in SUBSET Squares /\ F \in SUBSET Squares /\ q.pieces \in Boards
      <3>1. k \in PieceKinds /\ j \in PieceKinds /\ j # k /\ q.pieces \in Boards /\ m.to \in Squares
        BY <1>b, <2>1, MoveIs DEF Board
      <3> QED BY <2>1, <3>1 DEF Boards, Xor
    <2>3. r = [q EXCEPT !.pieces = P, !.mailbox = M]
      BY <1>b, <2>1, <2>2 DEF Unpromote, Put, Boards
    <2>4. Record(r) /\ SameButBoard(q, r) /\ r.pieces = P /\ r.mailbox = M
      BY <2>3 DEF Board, Record, SameButBoard
    <2>5. D \in Boards /\ Reset(q.pieces, c, k, E, D)
      BY <2>1, <2>2, PutReset
    <2>6. P \in Boards /\ Reset(D, c, j, F, P)
      BY <2>1, <2>2, <2>5, PutReset
    <2>7. M \in Mailboxes
      BY <2>1, MoveIs DEF Board, Mailboxes
    <2> QED BY <1>b, <2>1, <2>4, <2>5, <2>6, <2>7 DEF Board, Stamped
  <1> QED BY <1>a, <1>b

(* Undo of a capture puts the captured piece back.                          *)
LEMMA UncaptureIs ==
  ASSUME NEW q, Board(q), NEW m \in Moves, NEW c \in Colors, NEW r, r = Uncapture(q, m, c),
         Is(m, "CAPTURE") => m.captured \in PieceKinds
  PROVE  /\ Board(r) /\ SameButBoard(q, r)
         /\ Is(m, "CAPTURE") =>
              /\ Reset(q.pieces, OPP(c), m.captured, q.pieces[OPP(c)][m.captured] \cup {m.to}, r.pieces)
              /\ Stamped(q.mailbox, m.to, m.captured, r.mailbox)
         /\ ~Is(m, "CAPTURE") => r.pieces = q.pieces /\ r.mailbox = q.mailbox
  <1>a. CASE ~Is(m, "CAPTURE")
    BY <1>a DEF Uncapture, SameButBoard
  <1>b. CASE Is(m, "CAPTURE")
    <2>1. PICK o, k, E, P, M :
            /\ o = OPP(c) /\ k = m.captured /\ E = q.pieces[o][k] \cup {m.to}
            /\ P = Put(q.pieces, o, k, E) /\ M = [q.mailbox EXCEPT ![m.to] = m.captured]
      OBVIOUS
    <2>2. o \in Colors /\ k \in PieceKinds /\ E \in SUBSET Squares /\ q.pieces \in Boards
      <3>1. o \in Colors /\ k \in PieceKinds /\ q.pieces \in Boards /\ m.to \in Squares
        BY <1>b, <2>1, MoveIs, OppIs DEF Board
      <3> QED BY <2>1, <3>1 DEF Boards
    <2>3. r = [q EXCEPT !.pieces = P, !.mailbox = M]
      BY <1>b, <2>1 DEF Uncapture, Put
    <2>4. Record(r) /\ SameButBoard(q, r) /\ r.pieces = P /\ r.mailbox = M
      BY <2>3 DEF Board, Record, SameButBoard
    <2>5. P \in Boards /\ Reset(q.pieces, o, k, E, P)
      BY <2>1, <2>2, PutReset
    <2>6. M \in Mailboxes
      BY <1>b, <2>1, MoveIs DEF Board, Mailboxes
    <2> QED BY <1>b, <2>1, <2>4, <2>5, <2>6 DEF Board, Stamped
  <1> QED BY <1>a, <1>b

(* The rook on s goes back to t in the mailbox.                             *)
RookMailed(M, s, t, N) ==
  \A u \in Squares : N[u] = IF u = s THEN NONE ELSE IF u = t THEN "rook" ELSE M[u]

(* Undo of castling puts the rook back, on the board and in the mailbox.    *)
LEMMA UnmoveRookIs ==
  ASSUME NEW q, Board(q), NEW c \in Colors, NEW s \in Squares, NEW t \in Squares, NEW shift,
         Shift({s}, shift, 0) = {t}, NEW r, r = UnmoveRook(q, c, {s}, shift)
  PROVE  /\ Board(r) /\ SameButBoard(q, r)
         /\ Reset(q.pieces, c, "rook", Xor(q.pieces[c]["rook"], {s, t}), r.pieces)
         /\ RookMailed(q.mailbox, s, t, r.mailbox)
  <1>1. PICK k, E, P, M :
          /\ k = "rook" /\ E = Xor(q.pieces[c][k], {s, t}) /\ P = Put(q.pieces, c, k, E)
          /\ M = [u \in Squares |-> IF u = s THEN NONE ELSE IF u = t THEN "rook" ELSE q.mailbox[u]]
    OBVIOUS
  <1>2. {s} \cup Shift({s}, shift, 0) = {s, t}
    OBVIOUS
  <1>3. M = [u \in Squares |-> IF u \in {s} THEN NONE
                               ELSE IF u \in Shift({s}, shift, 0) THEN "rook" ELSE q.mailbox[u]]
    BY <1>1
  <1>4. r = [q EXCEPT !.pieces = P, !.mailbox = M]
    BY <1>1, <1>2, <1>3 DEF UnmoveRook, Put
  <1>5. Record(r) /\ SameButBoard(q, r) /\ r.pieces = P /\ r.mailbox = M
    BY <1>4 DEF Board, Record, SameButBoard
  <1>6. k \in PieceKinds /\ E \in SUBSET Squares /\ q.pieces \in Boards
    BY <1>1 DEF Board, Boards, Xor, PieceKinds
  <1>7. P \in Boards /\ Reset(q.pieces, c, k, E, P)
    BY <1>1, <1>6, PutReset
  <1>8. M \in Mailboxes
    BY <1>1 DEF Board, Mailboxes, PieceKinds
  <1> QED BY <1>1, <1>5, <1>7, <1>8 DEF Board, RookMailed

(* Undo of an en passant capture puts the pawn back on the target.          *)
LEMMA UntakeEnPassantIs ==
  ASSUME NEW q, Board(q), NEW m, NEW c \in Colors, NEW r, r = UntakeEnPassant(q, m, c),
         Is(m, "EN_PASSANT") => \E t \in Squares : q.en_passant_target = {t}
  PROVE  /\ Board(r) /\ SameButBoard(q, r)
         /\ Is(m, "EN_PASSANT") =>
              /\ Reset(q.pieces, OPP(c), "pawn",
                       q.pieces[OPP(c)]["pawn"] \cup q.en_passant_target, r.pieces)
              /\ Stamped(q.mailbox, Index(q.en_passant_target), "pawn", r.mailbox)
         /\ ~Is(m, "EN_PASSANT") => r.pieces = q.pieces /\ r.mailbox = q.mailbox
  <1>a. CASE ~Is(m, "EN_PASSANT")
    BY <1>a DEF UntakeEnPassant, SameButBoard
  <1>b. CASE Is(m, "EN_PASSANT")
    <2>1. PICK o, k, E, P, M :
            /\ o = OPP(c) /\ k = "pawn" /\ E = q.pieces[o][k] \cup q.en_passant_target
            /\ P = Put(q.pieces, o, k, E)
            /\ M = [q.mailbox EXCEPT ![Index(q.en_passant_target)] = "pawn"]
      OBVIOUS
    <2>2. o \in Colors /\ k \in PieceKinds /\ E \in SUBSET Squares /\ q.pieces \in Boards
      <3>1. o \in Colors /\ k \in PieceKinds /\ q.pieces \in Boards
        BY <2>1, OppIs DEF Board, PieceKinds
      <3> QED BY <1>b, <2>1, <3>1 DEF Boards
    <2>3. r = [q EXCEPT !.pieces = P, !.mailbox = M]
      BY <1>b, <2>1 DEF UntakeEnPassant, Put
    <2>4. Record(r) /\ SameButBoard(q, r) /\ r.pieces = P /\ r.mailbox = M
      BY <2>3 DEF Board, Record, SameButBoard
    <2>5. P \in Boards /\ Reset(q.pieces, o, k, E, P)
      BY <2>1, <2>2, PutReset
    <2>6. M \in Mailboxes
      BY <2>1 DEF Board, Mailboxes, PieceKinds
    <2> QED BY <1>b, <2>1, <2>4, <2>5, <2>6 DEF Board, Stamped
  <1> QED BY <1>a, <1>b

(* Undo of castling, for the rooks CastlingRook finds on the half ranks.    *)
LEMMA UncastleIs ==
  ASSUME NEW q, Board(q), NEW m \in Moves, NEW c \in Colors, NEW r, r = Uncastle(q, m, c),
         ~(Is(m, "CASTLE_KING_SIDE") /\ Is(m, "CASTLE_QUEEN_SIDE")),
         Is(m, "CASTLE_KING_SIDE") => CastlingRook(q, m.from, c, KingSideFiles) = {KingHome(c) + 1},
         Is(m, "CASTLE_QUEEN_SIDE") => CastlingRook(q, m.from, c, QueenSideFiles) = {KingHome(c) - 1}
  PROVE  /\ Board(r) /\ SameButBoard(q, r)
         /\ Is(m, "CASTLE_KING_SIDE") =>
              /\ Reset(q.pieces, c, "rook",
                       Xor(q.pieces[c]["rook"], {KingHome(c) + 1, KingRook(c)}), r.pieces)
              /\ RookMailed(q.mailbox, KingHome(c) + 1, KingRook(c), r.mailbox)
         /\ Is(m, "CASTLE_QUEEN_SIDE") =>
              /\ Reset(q.pieces, c, "rook",
                       Xor(q.pieces[c]["rook"], {KingHome(c) - 1, QueenRook(c)}), r.pieces)
              /\ RookMailed(q.mailbox, KingHome(c) - 1, QueenRook(c), r.mailbox)
         /\ ~Is(m, "CASTLE_KING_SIDE") /\ ~Is(m, "CASTLE_QUEEN_SIDE") =>
              r.pieces = q.pieces /\ r.mailbox = q.mailbox
  <1>0. /\ KingHome(c) + 1 \in Squares /\ KingRook(c) \in Squares
        /\ KingHome(c) - 1 \in Squares /\ QueenRook(c) \in Squares
    BY HomeSquares
  <1>1. CASE Is(m, "CASTLE_KING_SIDE")
    <2>1. PICK s, t, n : s = KingHome(c) + 1 /\ t = KingRook(c) /\ n = 2
      OBVIOUS
    <2>2. s \in Squares /\ t \in Squares /\ Shift({s}, n, 0) = {t}
      BY <1>0, <2>1, RookShifts
    <2>3. r = UnmoveRook(q, c, {s}, n)
      BY <1>1, <2>1 DEF Uncastle
    <2>4. /\ Board(r) /\ SameButBoard(q, r)
          /\ Reset(q.pieces, c, "rook", Xor(q.pieces[c]["rook"], {s, t}), r.pieces)
          /\ RookMailed(q.mailbox, s, t, r.mailbox)
      BY <2>2, <2>3, UnmoveRookIs
    <2> QED BY <1>1, <2>1, <2>4
  <1>2. CASE Is(m, "CASTLE_QUEEN_SIDE")
    <2>1. PICK s, t, n : s = KingHome(c) - 1 /\ t = QueenRook(c) /\ n = -3
      OBVIOUS
    <2>2. s \in Squares /\ t \in Squares /\ Shift({s}, n, 0) = {t}
      BY <1>0, <2>1, RookShifts
    <2>3. r = UnmoveRook(q, c, {s}, n)
      BY <1>2, <2>1 DEF Uncastle
    <2>4. /\ Board(r) /\ SameButBoard(q, r)
          /\ Reset(q.pieces, c, "rook", Xor(q.pieces[c]["rook"], {s, t}), r.pieces)
          /\ RookMailed(q.mailbox, s, t, r.mailbox)
      BY <2>2, <2>3, UnmoveRookIs
    <2> QED BY <1>2, <2>1, <2>4
  <1>3. CASE ~Is(m, "CASTLE_KING_SIDE") /\ ~Is(m, "CASTLE_QUEEN_SIDE")
    BY <1>3 DEF Uncastle, SameButBoard
  <1> QED BY <1>1, <1>2, <1>3

(* The only rook on the king's half of the home rank stands beside the      *)
(* king's home once the move is made.                                       *)
LEMMA RookBesideKing ==
  ASSUME NEW p, NEW m, Good(p), Plausible(p, m), NEW c, c = p.turn, NEW D, Replaces(p, m, D),
         NEW q, SameRooks(q, [pieces |-> D], c)
  PROVE  /\ Is(m, "CASTLE_KING_SIDE") =>
              CastlingRook(q, m.from, c, KingSideFiles) = {KingHome(c) + 1}
         /\ Is(m, "CASTLE_QUEEN_SIDE") =>
              CastlingRook(q, m.from, c, QueenSideFiles) = {KingHome(c) - 1}
  <1>0. c \in Colors /\ SameRooks(p, p, c)
    BY DEF Good, SameRooks
  <1>h. /\ KingHome(c) \in Home(c) /\ Home(c) \subseteq Squares
        /\ OnRank(Rank(KingHome(c))) = Home(c)
    BY <1>0, HomeSquares, HomeIs
  <1>1. CASE Is(m, "CASTLE_KING_SIDE")
    <2>1. CastlingRook(p, m.to, c, KingSideFiles) = {KingRook(c)}
      BY <1>0, <1>1, RookKingSide
    <2>2. /\ m.flags = {"CASTLE_KING_SIDE"} /\ m.piece = "king" /\ m.from = KingHome(c)
          /\ m.to = KingHome(c) + 2
      BY <1>1 DEF Plausible, CastlesAllowed, CastlesTo
    <2>3. OnRank(Rank(m.to)) = Home(c)
      BY <1>0, <2>2, HomeSquares, HomeIs
    <2>4. \A s \in Home(c) : s \in KingSideFiles => (s \in p.pieces[c]["rook"] <=> s = KingRook(c))
      BY <2>1, <2>3 DEF CastlingRook
    <2>5. \A s \in Squares :
            s \in q.pieces[c]["rook"] <=>
              (s \in p.pieces[c]["rook"] /\ s # KingRook(c)) \/ s = KingHome(c) + 1
      <3> SUFFICES ASSUME NEW s \in Squares
                   PROVE  s \in q.pieces[c]["rook"] <=>
                            (s \in p.pieces[c]["rook"] /\ s # KingRook(c)) \/ s = KingHome(c) + 1
        OBVIOUS
      <3>1. s \in q.pieces[c]["rook"] <=> s \in D[c]["rook"]
        BY DEF SameRooks
      <3>2. s \in D[c]["rook"] <=>
              (s \in p.pieces[c]["rook"] /\ ~Lifted(p, m, c, "rook", s)) \/ Dropped(p, m, c, "rook", s)
        BY <1>0 DEF Replaces, PieceKinds
      <3>3. Lifted(p, m, c, "rook", s) <=> s = KingRook(c)
        BY <1>0, <2>2, OppIs DEF Lifted, Is
      <3>4. Dropped(p, m, c, "rook", s) <=> s = KingHome(c) + 1
        BY <2>2 DEF Dropped, Is
      <3> QED BY <3>1, <3>2, <3>3, <3>4
    <2>6. KingHome(c) + 1 \in Home(c) /\ KingHome(c) + 1 \in KingSideFiles
      <3>1. KingHome(c) + 1 \in KingHome(c) .. KingHome(c) + 3
        BY <1>0, Corners
      <3> QED BY <1>0, <3>1, HomeSquares, HomeIs
    <2>7. CastlingRook(q, m.from, c, KingSideFiles) = {KingHome(c) + 1}
      <3>1. \A s \in Home(c) :
              s \in KingSideFiles => (s \in q.pieces[c]["rook"] <=> s = KingHome(c) + 1)
        BY <1>h, <2>4, <2>5
      <3>2. q.pieces[c]["rook"] \cap Home(c) \cap KingSideFiles = {KingHome(c) + 1}
        BY <2>6, <3>1
      <3> QED BY <1>h, <2>2, <3>2 DEF CastlingRook
    <2> QED BY <1>1, <2>2, <2>7 DEF Is
  <1>2. CASE Is(m, "CASTLE_QUEEN_SIDE")
    <2>1. CastlingRook(p, m.to, c, QueenSideFiles) = {QueenRook(c)}
      BY <1>0, <1>2, RookQueenSide
    <2>2. /\ m.flags = {"CASTLE_QUEEN_SIDE"} /\ m.piece = "king" /\ m.from = KingHome(c)
          /\ m.to = KingHome(c) - 2
      BY <1>2 DEF Plausible, CastlesAllowed, CastlesTo
    <2>3. OnRank(Rank(m.to)) = Home(c)
      BY <1>0, <2>2, HomeSquares, HomeIs
    <2>4. \A s \in Home(c) : s \in QueenSideFiles => (s \in p.pieces[c]["rook"] <=> s = QueenRook(c))
      BY <2>1, <2>3 DEF CastlingRook
    <2>5. \A s \in Squares :
            s \in q.pieces[c]["rook"] <=>
              (s \in p.pieces[c]["rook"] /\ s # QueenRook(c)) \/ s = KingHome(c) - 1
      <3> SUFFICES ASSUME NEW s \in Squares
                   PROVE  s \in q.pieces[c]["rook"] <=>
                            (s \in p.pieces[c]["rook"] /\ s # QueenRook(c)) \/ s = KingHome(c) - 1
        OBVIOUS
      <3>1. s \in q.pieces[c]["rook"] <=> s \in D[c]["rook"]
        BY DEF SameRooks
      <3>2. s \in D[c]["rook"] <=>
              (s \in p.pieces[c]["rook"] /\ ~Lifted(p, m, c, "rook", s)) \/ Dropped(p, m, c, "rook", s)
        BY <1>0 DEF Replaces, PieceKinds
      <3>3. Lifted(p, m, c, "rook", s) <=> s = QueenRook(c)
        BY <1>0, <2>2, OppIs DEF Lifted, Is
      <3>4. Dropped(p, m, c, "rook", s) <=> s = KingHome(c) - 1
        BY <2>2 DEF Dropped, Is
      <3> QED BY <3>1, <3>2, <3>3, <3>4
    <2>6. KingHome(c) - 1 \in Home(c) /\ KingHome(c) - 1 \in QueenSideFiles
      <3>1. KingHome(c) - 1 \in KingHome(c) - 4 .. KingHome(c) - 1
        BY <1>0, Corners
      <3> QED BY <1>0, <3>1, HomeSquares, HomeIs
    <2>7. CastlingRook(q, m.from, c, QueenSideFiles) = {KingHome(c) - 1}
      <3>1. \A s \in Home(c) :
              s \in QueenSideFiles => (s \in q.pieces[c]["rook"] <=> s = KingHome(c) - 1)
        BY <1>h, <2>4, <2>5
      <3>2. q.pieces[c]["rook"] \cap Home(c) \cap QueenSideFiles = {KingHome(c) - 1}
        BY <2>6, <3>1
      <3> QED BY <1>h, <2>2, <3>2 DEF CastlingRook
    <2> QED BY <1>2, <2>2, <2>7 DEF Is
  <1> QED BY <1>1, <1>2

-----------------------------------------------------------------------------
(* Apply takes from the State what it holds, and leaves turn, boards,       *)
(* mailbox and the move counter.                                            *)
LEMMA ApplyIs ==
  ASSUME NEW p, NEW q, Record(p), Record(q), NEW r, r = Apply(q, State(p))
  PROVE  /\ Record(r) /\ r.turn = q.turn /\ r.pieces = q.pieces /\ r.mailbox = q.mailbox
         /\ r.fullmove_counter = q.fullmove_counter
         /\ r.king_ban = p.king_ban /\ r.occupied_sqs = p.occupied_sqs
         /\ r.en_passant_sq = p.en_passant_sq /\ r.en_passant_target = p.en_passant_target
         /\ r.castling_rights = p.castling_rights /\ r.halfmove_clock = p.halfmove_clock
         /\ r.hash = p.hash
  BY DEF Apply, State, Record

(* Two positions that differ at most in the mailbox.                        *)
Alike(p, q) == SameButBoard(p, q) /\ q.pieces = p.pieces

(* Positions that look the same differ at most in stale mailbox squares.    *)
LEMMA VisibleAlike ==
  ASSUME NEW p, NEW q, Record(p), Record(q), Visible(p) = Visible(q)
  PROVE  Alike(p, q) /\ \A s \in p.occupied_sqs : p.mailbox[s] = q.mailbox[s]
  BY DEF Record, Visible, Alike, SameButBoard

(* Positions that differ at most in stale mailbox squares look the same.    *)
LEMMA AlikeVisible ==
  ASSUME NEW p, NEW q, Record(p), Record(q), Alike(p, q),
         \A s \in p.occupied_sqs : p.mailbox[s] = q.mailbox[s]
  PROVE  Visible(p) = Visible(q)
  <1>1. PICK M : M = [s \in p.occupied_sqs |-> p.mailbox[s]]
    OBVIOUS
  <1>2. Visible(p) = [p EXCEPT !.mailbox = M]
    BY <1>1 DEF Visible
  <1>3. M = [s \in q.occupied_sqs |-> q.mailbox[s]]
    BY <1>1 DEF Alike, SameButBoard
  <1>4. Visible(q) = [q EXCEPT !.mailbox = M]
    BY <1>3 DEF Visible
  <1> QED BY <1>2, <1>4 DEF Record, Alike, SameButBoard

(* Whether an en passant capture exposes the king depends on turn, boards,  *)
(* occupied squares and en passant square only.                             *)
LEMMA ExposesAlike ==
  ASSUME NEW p, NEW q, p.turn = q.turn, p.pieces = q.pieces, p.occupied_sqs = q.occupied_sqs,
         p.en_passant_sq = q.en_passant_sq, NEW target, ~Exposes(p, target)
  PROVE  ~Exposes(q, target)
  <1>1. \A k : Own(p, k) = Own(q, k) /\ Enemy(p, k) = Enemy(q, k)
    BY DEF Own, Enemy
  <1> QED BY <1>1 DEF Exposes

(* A good position is good with another mailbox that names its pieces.      *)
LEMMA GoodAlike ==
  ASSUME NEW p, NEW q, Good(p), Record(q), Alike(p, q), Mailed(q)
  PROVE  Good(q) /\ Visible(q) = Visible(p)
  <1>1. /\ q.turn = p.turn /\ q.pieces = p.pieces /\ q.occupied_sqs = p.occupied_sqs
        /\ q.king_ban = p.king_ban /\ q.en_passant_sq = p.en_passant_sq
        /\ q.en_passant_target = p.en_passant_target /\ q.castling_rights = p.castling_rights
        /\ q.fullmove_counter = p.fullmove_counter /\ q.hash = p.hash
    BY DEF Alike, SameButBoard
  <1>2. \A k : Own(q, k) = Own(p, k) /\ Enemy(q, k) = Enemy(p, k)
    BY <1>1 DEF Own, Enemy
  <1>3. Record(p)
    BY DEF Good, Raw
  <1>4. Raw(q) /\ (Turns(q) <=> Turns(p))
    BY <1>1 DEF Good, Raw, Keyed, Turns
  <1>5. Derived(q)
    <2>1. Ban(q) = Ban(p)
      BY <1>1, <1>3, BanIs
    <2>2. ~Exposes(p, p.en_passant_target) => ~Exposes(q, q.en_passant_target)
      BY <1>1, ExposesAlike
    <2> QED BY <1>1, <2>1, <2>2 DEF Good, Derived
  <1>6. RightsAtHome(q) /\ JustPassed(q)
    BY <1>1, <1>2 DEF Good, RightsAtHome, JustPassed
  <1>7. Good(q)
    BY <1>1, <1>4, <1>5, <1>6 DEF Good
  <1>8. ASSUME NEW s \in p.occupied_sqs PROVE p.mailbox[s] = q.mailbox[s]
    <2>1. PICK c \in Colors, k \in PieceKinds : s \in p.pieces[c][k]
      BY OccupiedSqs DEF Good
    <2> QED BY <1>1, <2>1 DEF Good, Mailed
  <1> QED BY <1>3, <1>7, <1>8, AlikeVisible

-----------------------------------------------------------------------------
(* The board D is B with the moved piece back on from, and nothing of its   *)
(* side on to.                                                              *)
UndoesOne(B, c, m, D) ==
  \A d \in Colors, k \in PieceKinds, s \in Squares :
    s \in D[d][k] <=>
      IF d = c /\ s = m.from /\ k = m.piece THEN TRUE
      ELSE IF d = c /\ s = m.to THEN FALSE ELSE s \in B[d][k]

(* Unmoving the piece and unpromoting it together bring the piece that      *)
(* moved back.                                                              *)
LEMMA UnpromotedIs ==
  ASSUME NEW B, NEW c \in Colors, NEW m \in Moves, m.from # m.to, Disjoint(B), NEW A, NEW D, Promotes(m),
         m.to \in B[c][IF Is(m, "PROMOTION") THEN m.promoted ELSE m.piece],
         Reset(B, c, m.piece, Xor(B[c][m.piece], {m.to}) \cup {m.from}, A),
         ~Is(m, "PROMOTION") => D = A,
         Is(m, "PROMOTION") =>
           \E E : /\ Reset(A, c, m.piece, Xor(A[c][m.piece], {m.to}), E)
                  /\ Reset(E, c, m.promoted, Xor(A[c][m.promoted], {m.to}), D)
  PROVE  UndoesOne(B, c, m, D)
  <1> SUFFICES ASSUME NEW d \in Colors, NEW k \in PieceKinds, NEW s \in Squares
               PROVE  s \in D[d][k] <=>
                        IF d = c /\ s = m.from /\ k = m.piece THEN TRUE
                        ELSE IF d = c /\ s = m.to THEN FALSE ELSE s \in B[d][k]
    BY DEF UndoesOne
  <1>1. m.piece \in PieceKinds /\ m.from \in Squares /\ m.to \in Squares
    BY MoveIs
  <1>2. \A j \in PieceKinds, t \in Squares :
          t \in A[d][j] <=> IF d = c /\ j = m.piece
                            THEN t = m.from \/ ~(t \in B[d][j] <=> t = m.to) ELSE t \in B[d][j]
    BY DEF Reset, Xor
  <1>3. CASE ~Is(m, "PROMOTION")
    <2>1. m.to \in B[c][m.piece] /\ D = A
      BY <1>3
    <2>2. s = m.to /\ d = c => (s \in B[d][k] <=> k = m.piece)
      BY <1>1, <2>1 DEF Disjoint
    <2> QED BY <1>1, <1>2, <2>1, <2>2
  <1>4. CASE Is(m, "PROMOTION")
    <2>1. m.piece = "pawn" /\ m.promoted \in PieceKinds /\ m.promoted # m.piece /\ m.to \in B[c][m.promoted]
      BY <1>4 DEF Promotes, Promotable, PieceKinds
    <2>2. s = m.to /\ d = c => (s \in B[d][k] <=> k = m.promoted)
      BY <1>1, <2>1 DEF Disjoint
    <2>3. PICK E : /\ Reset(A, c, m.piece, Xor(A[c][m.piece], {m.to}), E)
                   /\ Reset(E, c, m.promoted, Xor(A[c][m.promoted], {m.to}), D)
      BY <1>4
    <2>4. s \in E[d][k] <=> IF d = c /\ k = m.piece THEN ~(s \in A[d][k] <=> s = m.to) ELSE s \in A[d][k]
      BY <2>3 DEF Reset, Xor
    <2>5. s \in D[d][k] <=> IF d = c /\ k = m.promoted THEN ~(s \in A[d][k] <=> s = m.to) ELSE s \in E[d][k]
      BY <2>3 DEF Reset, Xor
    <2>6. s \in A[d][k] <=> IF d = c /\ k = m.piece
                            THEN s = m.from \/ ~(s \in B[d][k] <=> s = m.to) ELSE s \in B[d][k]
      BY <1>2
    <2> QED BY <1>1, <2>1, <2>2, <2>4, <2>5, <2>6
  <1> QED BY <1>3, <1>4

(* What a plausible move says of its squares and pieces.                    *)
LEMMA PlausibleIs ==
  ASSUME NEW p, NEW m, Good(p), Plausible(p, m), NEW c, c = p.turn
  PROVE  /\ m \in Moves /\ m.from \in Squares /\ m.to \in Squares /\ m.piece \in PieceKinds
         /\ c \in Colors /\ OPP(c) \in Colors /\ OPP(c) # c /\ m.from # m.to
         /\ m.from \in p.pieces[c][m.piece] /\ \A k \in PieceKinds : m.to \notin p.pieces[c][k]
         /\ Is(m, "CAPTURE") => m.captured \in PieceKinds /\ m.to \in p.pieces[OPP(c)][m.captured]
         /\ ~Is(m, "CAPTURE") => m.to \notin p.occupied_sqs
         /\ Is(m, "PROMOTION") => m.promoted \in PieceKinds \ {"pawn"} /\ m.piece = "pawn"
         /\ Is(m, "EN_PASSANT") => m.piece = "pawn" /\ m.flags = {"EN_PASSANT"}
         /\ Is(m, "CASTLE_KING_SIDE") =>
              /\ m.flags = {"CASTLE_KING_SIDE"} /\ m.piece = "king"
              /\ m.from = KingHome(c) /\ m.to = KingHome(c) + 2 /\ KingRook(c) \in p.pieces[c]["rook"]
              /\ KingHome(c) + 1 \notin p.occupied_sqs /\ KingHome(c) + 2 \notin p.occupied_sqs
         /\ Is(m, "CASTLE_QUEEN_SIDE") =>
              /\ m.flags = {"CASTLE_QUEEN_SIDE"} /\ m.piece = "king"
              /\ m.from = KingHome(c) /\ m.to = KingHome(c) - 2 /\ QueenRook(c) \in p.pieces[c]["rook"]
              /\ KingHome(c) - 1 \notin p.occupied_sqs /\ KingHome(c) - 2 \notin p.occupied_sqs
              /\ KingHome(c) - 3 \notin p.occupied_sqs
  <1>1. /\ m \in Moves /\ m.from \in Squares /\ m.to \in Squares /\ m.piece \in PieceKinds
        /\ c \in Colors /\ OPP(c) \in Colors /\ OPP(c) # c
    BY MoveIs, OppIs DEF Good, Plausible
  <1>2. /\ m.from \in p.pieces[c][m.piece] /\ \A k \in PieceKinds : m.to \notin p.pieces[c][k]
    BY DEF Plausible, Own
  <1>3. /\ Is(m, "CAPTURE") => m.captured \in PieceKinds /\ m.to \in p.pieces[OPP(c)][m.captured]
        /\ ~Is(m, "CAPTURE") => m.to \notin p.occupied_sqs
    BY DEF Plausible, Takes, Enemy
  <1>4. Is(m, "PROMOTION") => m.promoted \in PieceKinds \ {"pawn"} /\ m.piece = "pawn"
    BY DEF Plausible, Promotes, Promotable, PieceKinds
  <1>5. Is(m, "EN_PASSANT") => m.piece = "pawn" /\ m.flags = {"EN_PASSANT"}
    BY DEF Plausible
  <1>6. Is(m, "CASTLE_KING_SIDE") =>
              /\ m.flags = {"CASTLE_KING_SIDE"} /\ m.piece = "king"
              /\ m.from = KingHome(c) /\ m.to = KingHome(c) + 2 /\ KingRook(c) \in p.pieces[c]["rook"]
              /\ KingHome(c) + 1 \notin p.occupied_sqs /\ KingHome(c) + 2 \notin p.occupied_sqs
    BY DEF Plausible, CastlesAllowed, CastlesTo, Own
  <1>7. Is(m, "CASTLE_QUEEN_SIDE") =>
              /\ m.flags = {"CASTLE_QUEEN_SIDE"} /\ m.piece = "king"
              /\ m.from = KingHome(c) /\ m.to = KingHome(c) - 2 /\ QueenRook(c) \in p.pieces[c]["rook"]
              /\ KingHome(c) - 1 \notin p.occupied_sqs /\ KingHome(c) - 2 \notin p.occupied_sqs
              /\ KingHome(c) - 3 \notin p.occupied_sqs
    BY DEF Plausible, CastlesAllowed, CastlesTo, Own
  <1> QED BY <1>1, <1>2, <1>3, <1>4, <1>5, <1>6, <1>7

(* The board D is that of p again.                                          *)
TakenBack(p, m, D) ==
  \A d \in Colors, k \in PieceKinds, s \in Squares : s \in D[d][k] <=> s \in p.pieces[d][k]

(* An en passant capture has one target, a pawn of the enemy.               *)
LEMMA EnPassantTarget ==
  ASSUME NEW p, NEW m, Good(p), Plausible(p, m), Is(m, "EN_PASSANT"), NEW c, c = p.turn
  PROVE  \E t \in Squares : p.en_passant_target = {t} /\ t \in p.pieces[OPP(c)]["pawn"]
  <1>1. m.to \in p.en_passant_sq
    BY DEF Plausible, Passes
  <1>2. PICK s \in Squares : /\ p.en_passant_target = {s - 8 * Forward(p.turn)}
                            /\ s - 8 * Forward(p.turn) \in Enemy(p, "pawn")
    BY <1>1 DEF Good, JustPassed
  <1>3. Enemy(p, "pawn") \subseteq Squares
    BY OppIs DEF Good, Raw, Boards, Enemy, PieceKinds
  <1> QED BY <1>2, <1>3 DEF Enemy

(* The steps of Undo, one after the other, bring back every bitboard.       *)
LEMMA UndoPieces ==
  ASSUME NEW p, NEW m, Good(p), Plausible(p, m), NEW c, c = p.turn,
         NEW B, Replaces(p, m, B), NEW A2, UndoesOne(B, c, m, A2),
         NEW A3, NEW A4, NEW A5,
         Is(m, "CAPTURE") => Reset(A2, OPP(c), m.captured, A2[OPP(c)][m.captured] \cup {m.to}, A3),
         ~Is(m, "CAPTURE") => A3 = A2,
         Is(m, "CASTLE_KING_SIDE") =>
           Reset(A3, c, "rook", Xor(A3[c]["rook"], {KingHome(c) + 1, KingRook(c)}), A4),
         Is(m, "CASTLE_QUEEN_SIDE") =>
           Reset(A3, c, "rook", Xor(A3[c]["rook"], {KingHome(c) - 1, QueenRook(c)}), A4),
         ~Is(m, "CASTLE_KING_SIDE") /\ ~Is(m, "CASTLE_QUEEN_SIDE") => A4 = A3,
         Is(m, "EN_PASSANT") =>
           Reset(A4, OPP(c), "pawn", A4[OPP(c)]["pawn"] \cup p.en_passant_target, A5),
         ~Is(m, "EN_PASSANT") => A5 = A4
  PROVE  TakenBack(p, m, A5)
  <1> SUFFICES ASSUME NEW d \in Colors, NEW k \in PieceKinds, NEW s \in Squares
               PROVE  s \in A5[d][k] <=> s \in p.pieces[d][k]
    BY DEF TakenBack
  <1>1. /\ m.from \in Squares /\ m.to \in Squares /\ m.piece \in PieceKinds
        /\ c \in Colors /\ OPP(c) \in Colors /\ OPP(c) # c /\ m.from # m.to
        /\ m.from \in p.pieces[c][m.piece] /\ \A j \in PieceKinds : m.to \notin p.pieces[c][j]
        /\ Is(m, "CAPTURE") => m.captured \in PieceKinds /\ m.to \in p.pieces[OPP(c)][m.captured]
    BY PlausibleIs
  <1>2. s \in B[d][k] <=> (s \in p.pieces[d][k] /\ ~Lifted(p, m, d, k, s)) \/ Dropped(p, m, d, k, s)
    BY DEF Replaces
  <1>3. s \in A2[d][k] <=>
          IF d = c /\ s = m.from /\ k = m.piece THEN TRUE
          ELSE IF d = c /\ s = m.to THEN FALSE ELSE s \in B[d][k]
    BY DEF UndoesOne
  <1>4. s \in A3[d][k] <=> (Is(m, "CAPTURE") /\ d = OPP(c) /\ k = m.captured /\ s = m.to) \/ s \in A2[d][k]
    BY DEF Reset
  <1>5. CASE Is(m, "CASTLE_KING_SIDE")
    <2>1. PICK b, g : b = KingHome(c) + 1 /\ g = KingRook(c)
      OBVIOUS
    <2>2. /\ m.flags = {"CASTLE_KING_SIDE"} /\ m.piece = "king" /\ g \in p.pieces[c]["rook"]
          /\ b \in Squares /\ b \notin p.pieces[c]["rook"] /\ b # g /\ b # m.to /\ g # m.to /\ g # m.from
      <3>1. /\ m.flags = {"CASTLE_KING_SIDE"} /\ m.piece = "king" /\ g \in p.pieces[c]["rook"]
            /\ m.from = KingHome(c) /\ m.to = KingHome(c) + 2 /\ b \notin p.occupied_sqs
        BY <1>5, <2>1, PlausibleIs
      <3>2. b \in Squares /\ KingHome(c) \in Int /\ g = KingHome(c) + 3
        BY <1>1, <2>1, HomeSquares, Corners
      <3>3. b \notin p.pieces[c]["rook"]
        BY <1>1, <3>1, OccupiedSqs DEF Good, PieceKinds
      <3> QED BY <2>1, <3>1, <3>2, <3>3
    <2>3. ~Is(m, "CAPTURE") /\ ~Is(m, "EN_PASSANT") /\ ~Is(m, "PROMOTION") /\ ~Is(m, "CASTLE_QUEEN_SIDE")
      BY <2>2 DEF Is
    <2>4. s \in A5[d][k] <=> IF d = c /\ k = "rook" THEN ~(s \in A3[d][k] <=> s = b \/ s = g)
                                                   ELSE s \in A3[d][k]
      BY <1>5, <2>1, <2>3 DEF Reset, Xor
    <2>5. Lifted(p, m, d, k, s) <=>
            (d = c /\ k = "king" /\ s = m.from) \/ (d = c /\ k = "rook" /\ s = g)
      BY <1>5, <2>1, <2>2, <2>3 DEF Lifted
    <2>6. Dropped(p, m, d, k, s) <=>
            (d = c /\ k = "king" /\ s = m.to) \/ (d = c /\ k = "rook" /\ s = b)
      BY <1>5, <2>1, <2>2, <2>3 DEF Dropped
    <2> QED BY <1>1, <1>2, <1>3, <1>4, <2>2, <2>3, <2>4, <2>5, <2>6
  <1>6. CASE Is(m, "CASTLE_QUEEN_SIDE")
    <2>1. PICK b, g : b = KingHome(c) - 1 /\ g = QueenRook(c)
      OBVIOUS
    <2>2. /\ m.flags = {"CASTLE_QUEEN_SIDE"} /\ m.piece = "king" /\ g \in p.pieces[c]["rook"]
          /\ b \in Squares /\ b \notin p.pieces[c]["rook"] /\ b # g /\ b # m.to /\ g # m.to /\ g # m.from
      <3>1. /\ m.flags = {"CASTLE_QUEEN_SIDE"} /\ m.piece = "king" /\ g \in p.pieces[c]["rook"]
            /\ m.from = KingHome(c) /\ m.to = KingHome(c) - 2 /\ b \notin p.occupied_sqs
        BY <1>6, <2>1, PlausibleIs
      <3>2. b \in Squares /\ KingHome(c) \in Int /\ g = KingHome(c) - 4
        BY <1>1, <2>1, HomeSquares, Corners
      <3>3. b \notin p.pieces[c]["rook"]
        BY <1>1, <3>1, OccupiedSqs DEF Good, PieceKinds
      <3> QED BY <2>1, <3>1, <3>2, <3>3
    <2>3. ~Is(m, "CAPTURE") /\ ~Is(m, "EN_PASSANT") /\ ~Is(m, "PROMOTION") /\ ~Is(m, "CASTLE_KING_SIDE")
      BY <2>2 DEF Is
    <2>4. s \in A5[d][k] <=> IF d = c /\ k = "rook" THEN ~(s \in A3[d][k] <=> s = b \/ s = g)
                                                   ELSE s \in A3[d][k]
      BY <1>6, <2>1, <2>3 DEF Reset, Xor
    <2>5. Lifted(p, m, d, k, s) <=>
            (d = c /\ k = "king" /\ s = m.from) \/ (d = c /\ k = "rook" /\ s = g)
      BY <1>6, <2>1, <2>2, <2>3 DEF Lifted
    <2>6. Dropped(p, m, d, k, s) <=>
            (d = c /\ k = "king" /\ s = m.to) \/ (d = c /\ k = "rook" /\ s = b)
      BY <1>6, <2>1, <2>2, <2>3 DEF Dropped
    <2> QED BY <1>1, <1>2, <1>3, <1>4, <2>2, <2>3, <2>4, <2>5, <2>6
  <1>7. CASE Is(m, "EN_PASSANT")
    <2>1. m.flags = {"EN_PASSANT"}
      BY <1>7, PlausibleIs
    <2>2. PICK t \in Squares : p.en_passant_target = {t} /\ t \in p.pieces[OPP(c)]["pawn"]
      BY <1>7, EnPassantTarget
    <2>3. ~Is(m, "CAPTURE") /\ ~Is(m, "CASTLE_QUEEN_SIDE") /\ ~Is(m, "PROMOTION") /\ ~Is(m, "CASTLE_KING_SIDE")
      BY <2>1 DEF Is
    <2>4. s \in A5[d][k] <=> (d = OPP(c) /\ k = "pawn" /\ s = t) \/ s \in A3[d][k]
      BY <1>7, <2>2, <2>3 DEF Reset
    <2>5. Lifted(p, m, d, k, s) <=>
            (d = c /\ k = m.piece /\ s = m.from) \/ (d = OPP(c) /\ k = "pawn" /\ s = t)
      BY <1>7, <2>2, <2>3 DEF Lifted
    <2>6. Dropped(p, m, d, k, s) <=> d = c /\ k = m.piece /\ s = m.to
      BY <2>3 DEF Dropped
    <2> QED BY <1>1, <1>2, <1>3, <1>4, <2>2, <2>3, <2>4, <2>5, <2>6
  <1>8. CASE ~Is(m, "CASTLE_KING_SIDE") /\ ~Is(m, "CASTLE_QUEEN_SIDE") /\ ~Is(m, "EN_PASSANT")
    <2>1. A5 = A3
      BY <1>8
    <2>2. Lifted(p, m, d, k, s) <=>
            \/ d = c /\ k = m.piece /\ s = m.from
            \/ Is(m, "CAPTURE") /\ d = OPP(c) /\ k = m.captured /\ s = m.to
      BY <1>8 DEF Lifted
    <2>3. Dropped(p, m, d, k, s) <=> d = c /\ s = m.to /\ k = (IF Is(m, "PROMOTION") THEN m.promoted ELSE m.piece)
      BY <1>8 DEF Dropped
    <2> QED BY <1>1, <1>2, <1>3, <1>4, <2>1, <2>2, <2>3
  <1> QED BY <1>5, <1>6, <1>7, <1>8

(* What the steps of Undo do to the mailbox.                                *)
Restamped(p, m, c, M0, M1, M2, M3, M4, M5) ==
  /\ Stamped(M0, m.from, m.piece, M1)
  /\ IF Is(m, "PROMOTION") THEN Stamped(M1, m.to, NONE, M2) ELSE M2 = M1
  /\ IF Is(m, "CAPTURE") THEN Stamped(M2, m.to, m.captured, M3) ELSE M3 = M2
  /\ Is(m, "CASTLE_KING_SIDE") => RookMailed(M3, KingHome(c) + 1, KingRook(c), M4)
  /\ Is(m, "CASTLE_QUEEN_SIDE") => RookMailed(M3, KingHome(c) - 1, QueenRook(c), M4)
  /\ ~Is(m, "CASTLE_KING_SIDE") /\ ~Is(m, "CASTLE_QUEEN_SIDE") => M4 = M3
  /\ IF Is(m, "EN_PASSANT") THEN Stamped(M4, Index(p.en_passant_target), "pawn", M5) ELSE M5 = M4

(* The mailbox says what stands on the squares of the board.                *)
Names(M, B) == \A d \in Colors, k \in PieceKinds : \A s \in B[d][k] : M[s] = k

(* After the steps of Undo the mailbox names every piece of the board that  *)
(* is back.                                                                 *)
LEMMA UndoMailbox ==
  ASSUME NEW p, NEW m, Good(p), Plausible(p, m), NEW c, c = p.turn,
         NEW B, Replaces(p, m, B), NEW M0, NEW M1, NEW M2, NEW M3, NEW M4, NEW M5,
         M0 \in Mailboxes, M1 \in Mailboxes, M2 \in Mailboxes, M3 \in Mailboxes, M4 \in Mailboxes,
         Names(M0, B),
         Restamped(p, m, c, M0, M1, M2, M3, M4, M5)
  PROVE  Names(M5, p.pieces)
  <1> SUFFICES ASSUME NEW d \in Colors, NEW k \in PieceKinds, NEW s \in p.pieces[d][k]
               PROVE  M5[s] = k
    BY DEF Names
  <1>1. /\ m.from \in Squares /\ m.to \in Squares /\ m.piece \in PieceKinds
        /\ c \in Colors /\ OPP(c) \in Colors /\ OPP(c) # c /\ m.from # m.to
        /\ m.from \in p.pieces[c][m.piece] /\ \A j \in PieceKinds : m.to \notin p.pieces[c][j]
        /\ Is(m, "CAPTURE") => m.captured \in PieceKinds /\ m.to \in p.pieces[OPP(c)][m.captured]
        /\ ~Is(m, "CAPTURE") => m.to \notin p.occupied_sqs
    BY PlausibleIs
  <1>2. s \in Squares /\ s \in p.occupied_sqs
    <2>1. s \in p.occupied_sqs
      BY OccupiedSqs DEF Good
    <2> QED BY <2>1 DEF Good, Raw, Boards
  <1>d. \A e \in Colors, j \in PieceKinds : s \in p.pieces[e][j] => e = d /\ j = k
    BY <1>2 DEF Good, Disjoint
  <1>3. ~Lifted(p, m, d, k, s) => M0[s] = k
    BY <1>2 DEF Replaces, Names
  <1>4. M3[s] = IF Is(m, "CAPTURE") /\ s = m.to THEN m.captured
                ELSE IF Is(m, "PROMOTION") /\ s = m.to THEN NONE
                ELSE IF s = m.from THEN m.piece ELSE M0[s]
    BY <1>1, <1>2 DEF Mailboxes, Stamped, Restamped
  <1>5. s = m.to => Is(m, "CAPTURE") /\ k = m.captured
    BY <1>1, <1>2, <1>d
  <1>6. s = m.from => k = m.piece
    BY <1>1, <1>d
  <1>7. CASE Is(m, "CASTLE_KING_SIDE")
    <2>1. PICK b, g : b = KingHome(c) + 1 /\ g = KingRook(c)
      OBVIOUS
    <2>2. /\ m.flags = {"CASTLE_KING_SIDE"} /\ m.piece = "king" /\ g \in p.pieces[c]["rook"]
          /\ b \notin p.occupied_sqs
      BY <1>7, <2>1, PlausibleIs
    <2>3. ~Is(m, "CAPTURE") /\ ~Is(m, "EN_PASSANT") /\ ~Is(m, "PROMOTION")
      BY <2>2 DEF Is
    <2>4. M5[s] = IF s = b THEN NONE ELSE IF s = g THEN "rook" ELSE M3[s]
      BY <1>2, <1>7, <2>1, <2>3 DEF RookMailed, Restamped
    <2>5. s # b
      BY <1>2, <2>2
    <2>6. s = g => k = "rook"
      BY <1>1, <1>d, <2>2 DEF PieceKinds
    <2>7. s # g /\ s # m.from => ~Lifted(p, m, d, k, s)
      BY <1>7, <2>1, <2>2 DEF Lifted, Is
    <2> QED BY <1>3, <1>4, <1>5, <1>6, <2>3, <2>4, <2>5, <2>6, <2>7
  <1>8. CASE Is(m, "CASTLE_QUEEN_SIDE")
    <2>1. PICK b, g : b = KingHome(c) - 1 /\ g = QueenRook(c)
      OBVIOUS
    <2>2. /\ m.flags = {"CASTLE_QUEEN_SIDE"} /\ m.piece = "king" /\ g \in p.pieces[c]["rook"]
          /\ b \notin p.occupied_sqs
      BY <1>8, <2>1, PlausibleIs
    <2>3. ~Is(m, "CAPTURE") /\ ~Is(m, "EN_PASSANT") /\ ~Is(m, "PROMOTION")
      BY <2>2 DEF Is
    <2>4. M5[s] = IF s = b THEN NONE ELSE IF s = g THEN "rook" ELSE M3[s]
      BY <1>2, <1>8, <2>1, <2>3 DEF RookMailed, Restamped
    <2>5. s # b
      BY <1>2, <2>2
    <2>6. s = g => k = "rook"
      BY <1>1, <1>d, <2>2 DEF PieceKinds
    <2>7. s # g /\ s # m.from => ~Lifted(p, m, d, k, s)
      BY <1>8, <2>1, <2>2 DEF Lifted, Is
    <2> QED BY <1>3, <1>4, <1>5, <1>6, <2>3, <2>4, <2>5, <2>6, <2>7
  <1>9. CASE Is(m, "EN_PASSANT")
    <2>1. m.flags = {"EN_PASSANT"}
      BY <1>9, PlausibleIs
    <2>2. PICK t \in Squares : p.en_passant_target = {t} /\ t \in p.pieces[OPP(c)]["pawn"]
      BY <1>9, EnPassantTarget
    <2>3. ~Is(m, "CAPTURE") /\ ~Is(m, "CASTLE_QUEEN_SIDE") /\ ~Is(m, "PROMOTION") /\ ~Is(m, "CASTLE_KING_SIDE")
      BY <2>1 DEF Is
    <2>4. Index(p.en_passant_target) = t
      BY <2>2 DEF Index
    <2>5. M5[s] = IF s = t THEN "pawn" ELSE M3[s]
      <3>1. M4 = M3
        BY <2>3 DEF Restamped
      <3>2. Stamped(M3, t, "pawn", M5)
        BY <1>9, <2>4, <3>1 DEF Restamped
      <3> QED BY <1>2, <3>2 DEF Mailboxes, Stamped
    <2>6. s = t => k = "pawn"
      BY <1>1, <1>d, <2>2 DEF PieceKinds
    <2>7. s # t /\ s # m.from => ~Lifted(p, m, d, k, s)
      BY <2>2, <2>3 DEF Lifted
    <2> QED BY <1>3, <1>4, <1>5, <1>6, <2>3, <2>5, <2>6, <2>7
  <1>10. CASE ~Is(m, "CASTLE_KING_SIDE") /\ ~Is(m, "CASTLE_QUEEN_SIDE") /\ ~Is(m, "EN_PASSANT")
    <2>1. M5 = M3
      BY <1>10 DEF Restamped
    <2>2. s # m.to /\ s # m.from => ~Lifted(p, m, d, k, s)
      BY <1>10 DEF Lifted
    <2> QED BY <1>3, <1>4, <1>5, <1>6, <2>1, <2>2
  <1> QED BY <1>7, <1>8, <1>9, <1>10

(* Boards with the same squares are the same.                               *)
LEMMA BoardsEqual ==
  ASSUME NEW B \in Boards, NEW D \in Boards,
         \A d \in Colors, k \in PieceKinds, s \in Squares : s \in D[d][k] <=> s \in B[d][k]
  PROVE  D = B
  <1>1. ASSUME NEW d \in Colors, NEW k \in PieceKinds PROVE D[d][k] = B[d][k]
    <2>1. D[d][k] \in SUBSET Squares /\ B[d][k] \in SUBSET Squares
      BY DEF Boards
    <2> QED BY <2>1
  <1>2. ASSUME NEW d \in Colors PROVE D[d] = B[d]
    BY <1>1 DEF Boards
  <1> QED BY <1>2 DEF Boards

(* Steps that change boards and mailbox alone, one after the other.         *)
LEMMA SameTwice ==
  ASSUME NEW q, NEW r, NEW t, SameButBoard(q, r), SameButBoard(r, t)
  PROVE  SameButBoard(q, t)
  BY DEF SameButBoard

(* Undo brings a good position back: whatever position looks like the one   *)
(* the move led to, taking the move back gives a good position that looks   *)
(* like the one it was made in.                                             *)
LEMMA UndoGood ==
  ASSUME NEW p, NEW m, Good(p), Plausible(p, m),
         NEW q, Good(q), Visible(q) = Visible(Make(p, m)), NEW x, x = Undo(q, m, State(p))
  PROVE  Good(x) /\ Visible(x) = Visible(p)
  <1>0. PICK c, r, B, M0 : c = p.turn /\ r = Make(p, m) /\ B = q.pieces /\ M0 = q.mailbox
    OBVIOUS
  <1>1. /\ m \in Moves /\ m.from \in Squares /\ m.to \in Squares /\ m.piece \in PieceKinds
        /\ c \in Colors /\ OPP(c) \in Colors /\ OPP(c) # c /\ m.from # m.to
        /\ Is(m, "CAPTURE") => m.captured \in PieceKinds
        /\ Is(m, "PROMOTION") => m.promoted \in PieceKinds /\ m.promoted # m.piece
        /\ ~(Is(m, "CASTLE_KING_SIDE") /\ Is(m, "CASTLE_QUEEN_SIDE"))
    <2>1. Is(m, "CASTLE_KING_SIDE") => m.flags = {"CASTLE_KING_SIDE"}
      BY <1>0, PlausibleIs
    <2>2. ~(Is(m, "CASTLE_KING_SIDE") /\ Is(m, "CASTLE_QUEEN_SIDE"))
      BY <2>1 DEF Is
    <2> QED BY <1>0, <2>2, PlausibleIs
  <1>2. /\ r.turn = OPP(c) /\ Replaces(p, m, r.pieces) /\ Record(r)
        /\ r.fullmove_counter = (IF c = "black" THEN p.fullmove_counter + 1 ELSE p.fullmove_counter)
    BY ZenonT(30), <1>0, MakeIs DEF Raw
  <1>3. Record(p) /\ Record(q) /\ q.pieces \in Boards /\ p.pieces \in Boards /\ Mailed(q)
        /\ Disjoint(B) /\ p.fullmove_counter \in Int
    BY <1>0 DEF Good, Raw
  <1>4. /\ q.turn = OPP(c) /\ Replaces(p, m, B)
        /\ q.fullmove_counter = (IF c = "black" THEN p.fullmove_counter + 1 ELSE p.fullmove_counter)
    <2>1. Alike(q, r)
      BY <1>0, <1>2, <1>3, VisibleAlike
    <2> QED BY <1>0, <1>2, <2>1 DEF Alike, SameButBoard
  <1>5. M0 \in Mailboxes /\ Names(M0, B)
    BY <1>0, <1>3 DEF Mailed, Mailboxes, Names
  <1>6. PICK a0 : a0 = Apply(q, State(p))
    OBVIOUS
  <1>7. PICK a1 : a1 = UnmovePiece(a0, m, c)
    OBVIOUS
  <1>8. PICK a2 : a2 = Unpromote(a1, m, c)
    OBVIOUS
  <1>9. PICK a3 : a3 = Uncapture(a2, m, c)
    OBVIOUS
  <1>10. PICK a4 : a4 = Uncastle(a3, m, c)
    OBVIOUS
  <1>11. PICK a5 : a5 = UntakeEnPassant(a4, m, c)
    OBVIOUS
  <1>12. PICK f : f = (IF c = "black" THEN a5.fullmove_counter - 1 ELSE a5.fullmove_counter)
    OBVIOUS
  <1>13. x = [a5 EXCEPT !.turn = c, !.fullmove_counter = f]
    <2>1. OPP(q.turn) = c
      BY <1>1, <1>4, OppIs
    <2> QED BY <1>6, <1>7, <1>8, <1>9, <1>10, <1>11, <1>12, <2>1 DEF Undo
  <1>b0. /\ Board(a0) /\ a0.pieces = B /\ a0.mailbox = M0
         /\ a0.fullmove_counter = q.fullmove_counter
         /\ a0.king_ban = p.king_ban /\ a0.occupied_sqs = p.occupied_sqs
         /\ a0.en_passant_sq = p.en_passant_sq /\ a0.en_passant_target = p.en_passant_target
         /\ a0.castling_rights = p.castling_rights /\ a0.halfmove_clock = p.halfmove_clock
         /\ a0.hash = p.hash
    BY <1>0, <1>3, <1>5, <1>6, ApplyIs DEF Board
  <1>b1. /\ Board(a1) /\ SameButBoard(a0, a1)
         /\ Reset(B, c, m.piece, Xor(B[c][m.piece], {m.to}) \cup {m.from}, a1.pieces)
         /\ Stamped(M0, m.from, m.piece, a1.mailbox)
    <2>1. Board(a0)
      BY <1>b0
    <2>2. /\ Board(a1) /\ SameButBoard(a0, a1)
          /\ Reset(a0.pieces, c, m.piece, Xor(a0.pieces[c][m.piece], {m.to}) \cup {m.from}, a1.pieces)
          /\ Stamped(a0.mailbox, m.from, m.piece, a1.mailbox)
      BY <1>1, <1>7, <2>1, UnmovePieceIs
    <2> QED BY <1>b0, <2>2
  <1>b2. /\ Board(a2) /\ SameButBoard(a1, a2)
         /\ Is(m, "PROMOTION") =>
              /\ \E D : /\ Reset(a1.pieces, c, m.piece, Xor(a1.pieces[c][m.piece], {m.to}), D)
                        /\ Reset(D, c, m.promoted, Xor(a1.pieces[c][m.promoted], {m.to}), a2.pieces)
              /\ Stamped(a1.mailbox, m.to, NONE, a2.mailbox)
         /\ ~Is(m, "PROMOTION") => a2.pieces = a1.pieces /\ a2.mailbox = a1.mailbox
    <2>1. Board(a1) /\ (Is(m, "PROMOTION") => m.promoted \in PieceKinds /\ m.promoted # m.piece)
      BY <1>1, <1>b1
    <2> QED BY <1>1, <1>8, <2>1, UnpromoteIs
  <1>b3. /\ Board(a3) /\ SameButBoard(a2, a3)
         /\ Is(m, "CAPTURE") =>
              /\ Reset(a2.pieces, OPP(c), m.captured, a2.pieces[OPP(c)][m.captured] \cup {m.to}, a3.pieces)
              /\ Stamped(a2.mailbox, m.to, m.captured, a3.mailbox)
         /\ ~Is(m, "CAPTURE") => a3.pieces = a2.pieces /\ a3.mailbox = a2.mailbox
    <2>1. Board(a2)
      BY <1>b2
    <2> QED BY <1>1, <1>9, <2>1, UncaptureIs
  <1>14. UndoesOne(B, c, m, a2.pieces)
    <2>1. m.to \in B[c][IF Is(m, "PROMOTION") THEN m.promoted ELSE m.piece]
      BY <1>0, <1>1, <1>4 DEF Replaces, Dropped
    <2>2. Promotes(m)
      BY DEF Plausible
    <2> QED BY <1>1, <1>3, <1>b1, <1>b2, <2>1, <2>2, UnpromotedIs
  <1>15. /\ Is(m, "CASTLE_KING_SIDE") =>
              CastlingRook(a3, m.from, c, KingSideFiles) = {KingHome(c) + 1}
         /\ Is(m, "CASTLE_QUEEN_SIDE") =>
              CastlingRook(a3, m.from, c, QueenSideFiles) = {KingHome(c) - 1}
    <2> SUFFICES ASSUME Is(m, "CASTLE_KING_SIDE") \/ Is(m, "CASTLE_QUEEN_SIDE")
                 PROVE  SameRooks(a3, [pieces |-> B], c)
      BY <1>0, <1>4, RookBesideKing
    <2>1. m.piece = "king" /\ ~Is(m, "CAPTURE")
      <3>1. m.flags = {"CASTLE_KING_SIDE"} \/ m.flags = {"CASTLE_QUEEN_SIDE"}
        BY <1>0, PlausibleIs
      <3> QED BY <1>0, <3>1, PlausibleIs DEF Is
    <2>2. m.to \in B[c]["king"]
      <3>1. ~Is(m, "PROMOTION")
        BY <1>0, <2>1, PlausibleIs
      <3> QED BY <1>0, <1>1, <1>4, <2>1, <3>1 DEF Replaces, Dropped
    <2>3. ASSUME NEW s \in Squares PROVE s \in a3.pieces[c]["rook"] <=> s \in B[c]["rook"]
      <3>1. s \in a3.pieces[c]["rook"] <=> IF s = m.to THEN FALSE ELSE s \in B[c]["rook"]
        BY <1>1, <1>14, <1>b3, <2>1 DEF UndoesOne, PieceKinds
      <3>2. m.to \notin B[c]["rook"]
        BY <1>1, <1>3, <2>2 DEF Disjoint, PieceKinds
      <3> QED BY <3>1, <3>2
    <2> QED BY <2>3 DEF SameRooks
  <1>b4. /\ Board(a4) /\ SameButBoard(a3, a4)
         /\ Is(m, "CASTLE_KING_SIDE") =>
              /\ Reset(a3.pieces, c, "rook",
                       Xor(a3.pieces[c]["rook"], {KingHome(c) + 1, KingRook(c)}), a4.pieces)
              /\ RookMailed(a3.mailbox, KingHome(c) + 1, KingRook(c), a4.mailbox)
         /\ Is(m, "CASTLE_QUEEN_SIDE") =>
              /\ Reset(a3.pieces, c, "rook",
                       Xor(a3.pieces[c]["rook"], {KingHome(c) - 1, QueenRook(c)}), a4.pieces)
              /\ RookMailed(a3.mailbox, KingHome(c) - 1, QueenRook(c), a4.mailbox)
         /\ ~Is(m, "CASTLE_KING_SIDE") /\ ~Is(m, "CASTLE_QUEEN_SIDE") =>
              a4.pieces = a3.pieces /\ a4.mailbox = a3.mailbox
    <2>1. Board(a3) /\ c \in Colors /\ m \in Moves
      BY <1>1, <1>b3
    <2>2. ~(Is(m, "CASTLE_KING_SIDE") /\ Is(m, "CASTLE_QUEEN_SIDE"))
      BY <1>1
    <2> QED BY <1>10, <1>15, <2>1, <2>2, UncastleIs
  <1>16. SameButBoard(a0, a4)
    <2>1. SameButBoard(a0, a2)
      BY <1>b1, <1>b2, SameTwice
    <2>2. SameButBoard(a2, a4)
      BY <1>b3, <1>b4, SameTwice
    <2> QED BY <2>1, <2>2, SameTwice
  <1>17. a4.en_passant_target = p.en_passant_target
    BY <1>16, <1>b0 DEF SameButBoard
  <1>b5. /\ Board(a5) /\ SameButBoard(a4, a5)
         /\ Is(m, "EN_PASSANT") =>
              /\ Reset(a4.pieces, OPP(c), "pawn",
                       a4.pieces[OPP(c)]["pawn"] \cup p.en_passant_target, a5.pieces)
              /\ Stamped(a4.mailbox, Index(p.en_passant_target), "pawn", a5.mailbox)
         /\ ~Is(m, "EN_PASSANT") => a5.pieces = a4.pieces /\ a5.mailbox = a4.mailbox
    <2>1. Is(m, "EN_PASSANT") => \E t \in Squares : a4.en_passant_target = {t}
      BY <1>0, <1>17, EnPassantTarget
    <2>2. /\ Board(a5) /\ SameButBoard(a4, a5)
          /\ Is(m, "EN_PASSANT") =>
               /\ Reset(a4.pieces, OPP(c), "pawn",
                        a4.pieces[OPP(c)]["pawn"] \cup a4.en_passant_target, a5.pieces)
               /\ Stamped(a4.mailbox, Index(a4.en_passant_target), "pawn", a5.mailbox)
          /\ ~Is(m, "EN_PASSANT") => a5.pieces = a4.pieces /\ a5.mailbox = a4.mailbox
      <3>1. c \in Colors /\ Board(a4)
        BY <1>1, <1>b4
      <3> QED BY <1>11, <2>1, <3>1, UntakeEnPassantIs
    <2> QED BY <1>17, <2>2
  <1>18. a5.pieces = p.pieces
    <2>1. PICK A2, A3, A4, A5 : /\ A2 = a2.pieces /\ A3 = a3.pieces /\ A4 = a4.pieces /\ A5 = a5.pieces
      OBVIOUS
    <2>2. TakenBack(p, m, A5)
      BY <1>0, <1>4, <1>14, <1>b3, <1>b4, <1>b5, <2>1, UndoPieces
    <2> QED BY <1>3, <1>b5, <2>1, <2>2, BoardsEqual DEF TakenBack, Board
  <1>19. Names(a5.mailbox, p.pieces)
    <2>1. PICK M1, M2, M3, M4, M5 :
            M1 = a1.mailbox /\ M2 = a2.mailbox /\ M3 = a3.mailbox /\ M4 = a4.mailbox /\ M5 = a5.mailbox
      OBVIOUS
    <2>2. M1 \in Mailboxes /\ M2 \in Mailboxes /\ M3 \in Mailboxes /\ M4 \in Mailboxes
      BY <1>b1, <1>b2, <1>b3, <1>b4, <2>1 DEF Board
    <2>3. Names(M5, p.pieces)
      <3>1. Restamped(p, m, c, M0, M1, M2, M3, M4, M5)
        BY <1>b1, <1>b2, <1>b3, <1>b4, <1>b5, <2>1 DEF Restamped
      <3> QED BY <1>0, <1>4, <1>5, <2>2, <3>1, UndoMailbox
    <2> QED BY <2>1, <2>3
  <1>20. /\ Record(x) /\ x.turn = c /\ x.fullmove_counter = f /\ x.pieces = a5.pieces
         /\ x.mailbox = a5.mailbox /\ x.king_ban = a5.king_ban /\ x.occupied_sqs = a5.occupied_sqs
         /\ x.en_passant_sq = a5.en_passant_sq /\ x.en_passant_target = a5.en_passant_target
         /\ x.castling_rights = a5.castling_rights /\ x.halfmove_clock = a5.halfmove_clock
         /\ x.hash = a5.hash
    BY <1>13, <1>b5 DEF Board, Record
  <1>21. SameButBoard(a0, a5)
    BY <1>16, <1>b5, SameTwice
  <1>22. x.fullmove_counter = p.fullmove_counter
    BY <1>3, <1>4, <1>12, <1>20, <1>21, <1>b0 DEF SameButBoard
  <1>23. Alike(p, x)
    BY <1>0, <1>18, <1>20, <1>21, <1>22, <1>b0 DEF Alike, SameButBoard
  <1>24. Mailed(x)
    BY <1>18, <1>19, <1>20, <1>b5 DEF Mailed, Board, Mailboxes, Names
  <1> QED BY <1>20, <1>23, <1>24, GoodAlike

-----------------------------------------------------------------------------
(* A square by its rank and file.                                           *)
LEMMA SquareIs ==
  ASSUME NEW s \in Squares
  PROVE  s = 8 * Rank(s) + File(s) /\ Rank(s) \in 0 .. 7 /\ File(s) \in 0 .. 7
  BY DEF Squares, Rank, File

(* The square of a rank and file.                                           *)
LEMMA SquareAt ==
  ASSUME NEW r \in 0 .. 7, NEW f \in 0 .. 7
  PROVE  8 * r + f \in Squares /\ Rank(8 * r + f) = r /\ File(8 * r + f) = f
  BY DEF Squares, Rank, File

(* The squares on a rank.                                                   *)
LEMMA OnRankIs ==
  ASSUME NEW r \in 0 .. 7, NEW s
  PROVE  s \in OnRank(r) <=> s \in Squares /\ Rank(s) = r
  <1>1. CASE s \in Squares
    BY <1>1, SquareIs DEF OnRank, Squares
  <1>2. CASE s \notin Squares
    BY <1>2 DEF OnRank, Squares
  <1> QED BY <1>1, <1>2

(* A square of a shifted bitboard comes from one of the bitboard, on the    *)
(* rank and file the shift says.                                            *)
LEMMA ShiftHas ==
  ASSUME NEW bb \in SUBSET Squares, NEW df \in Int, NEW dr \in Int, NEW t \in Shift(bb, df, dr)
  PROVE  /\ t \in Squares /\ t - 8 * dr - df \in bb
         /\ Rank(t) = Rank(t - 8 * dr - df) + dr /\ File(t) = File(t - 8 * dr - df) + df
  <1>1. PICK s \in bb : t = s + 8 * dr + df /\ File(s) + df \in 0 .. 7 /\ Rank(s) + dr \in 0 .. 7
    BY DEF Shift
  <1>2. s \in Squares /\ s \in Int
    BY <1>1 DEF Squares
  <1>3. PICK r : r = Rank(s) + dr
    OBVIOUS
  <1>4. PICK f : f = File(s) + df
    OBVIOUS
  <1>5. t = 8 * r + f
    <2>1. PICK R, F : R = Rank(s) /\ F = File(s)
      OBVIOUS
    <2>2. s = 8 * R + F /\ R \in Int /\ F \in Int
      BY <1>2, <2>1, SquareIs
    <2> QED BY <1>1, <1>3, <1>4, <2>1, <2>2
  <1>6. t \in Squares /\ Rank(t) = r /\ File(t) = f
    BY <1>1, <1>3, <1>4, <1>5, SquareAt
  <1>7. t - 8 * dr - df = s
    BY <1>1, <1>2
  <1> QED BY <1>1, <1>3, <1>4, <1>6, <1>7

(* Which way pawns go.                                                      *)
LEMMA ForwardIs ==
  ASSUME NEW c \in Colors
  PROVE  Forward(c) \in {1, -1} /\ Forward(c) \in Int
  BY DEF Forward

(* One step of a pawn, straight on (0) or to a side, is not a double push.  *)
LEMMA PawnStep ==
  ASSUME NEW c \in Colors, NEW bb \in SUBSET Squares, NEW n \in {-1, 0, 1},
         NEW t \in Shift(bb, n, Forward(c)), NEW s, s = t - 8 * Forward(c) - n
  PROVE  /\ s \in bb /\ t \in Squares /\ Rank(t) = Rank(s) + Forward(c)
         /\ \A m : m.from = s /\ m.to = t => ~IsDoublePush(m)
  <1>1. PICK f : f = Forward(c)
    OBVIOUS
  <1>2. f \in {1, -1} /\ f \in Int /\ n \in Int
    BY <1>1, ForwardIs
  <1>3. s \in bb /\ t \in Squares /\ Rank(t) = Rank(s) + f
    BY <1>1, <1>2, ShiftHas
  <1>4. s \in Squares /\ Rank(s) \in 0 .. 7
    BY <1>3, SquareIs
  <1>5. ASSUME NEW m, m.from = s, m.to = t PROVE ~IsDoublePush(m)
    <2>1. IsDoublePush(m) => Rank(s) \in {1, 6} /\ Rank(t) \in {3, 4}
      BY <1>5, OnRankIs DEF IsDoublePush
    <2> QED BY <1>2, <1>3, <1>4, <2>1
  <1> QED BY <1>1, <1>3, <1>5

(* A pawn that does not stand on its last rank is pushed to the square      *)
(* ahead.                                                                   *)
LEMMA PushOne ==
  ASSUME NEW c \in Colors, NEW s \in Squares, Rank(s) + Forward(c) \in 0 .. 7
  PROVE  PushPawn(c, {s}) = {s + 8 * Forward(c)}
  <1>1. File(s) + 0 \in 0 .. 7
    BY SquareIs
  <1>2. s + 8 * Forward(c) + 0 = s + 8 * Forward(c)
    BY ForwardIs DEF Squares
  <1> QED BY <1>1, <1>2 DEF PushPawn, Shift

(* The pawn of bb that goes to t in two steps, over u.                      *)
Leaps(c, bb, empty, t) ==
  \E s \in bb, u \in empty :
    /\ t \in Squares /\ t \in empty /\ u = t - 8 * Forward(c) /\ s = u - 8 * Forward(c)
    /\ u = s + 8 * Forward(c) /\ t = s + 16 * Forward(c)
    /\ PushPawn(c, {s}) = {u} /\ Target({u}) = {t}

(* A double push crosses an empty square, which points back to the pawn.    *)
LEMMA TwoSteps ==
  ASSUME NEW c \in Colors, NEW bb \in SUBSET Squares, NEW empty \in SUBSET Squares,
         NEW t \in DoublePushPawn(c, bb, empty)
  PROVE  Leaps(c, bb, empty, t)
  <1>0. PICK s : s = t - 16 * Forward(c)
    OBVIOUS
  <1>1. PICK f : f = Forward(c)
    OBVIOUS
  <1>2. f \in {1, -1} /\ f \in Int /\ OPP(c) \in Colors /\ Forward(OPP(c)) = -f
    BY <1>1, ForwardIs, OppIs DEF Forward, Colors, OPP
  <1>3. PICK b1, b2 : b1 = bb \cap PawnRank(c) /\ b2 = PushPawn(c, b1) \cap empty
    OBVIOUS
  <1>4. b1 \in SUBSET Squares /\ b2 \in SUBSET Squares
    BY <1>3
  <1>5. t \in Shift(b2, 0, f) /\ t \in empty
    BY <1>1, <1>3 DEF DoublePushPawn, PushPawn
  <1>6. PICK u : u = t - 8 * f - 0
    OBVIOUS
  <1>7. t \in Squares /\ u \in b2 /\ Rank(t) = Rank(u) + f
    BY <1>2, <1>4, <1>5, <1>6, ShiftHas
  <1>8. u \in Shift(b1, 0, f) /\ u \in empty
    BY <1>1, <1>3, <1>7 DEF PushPawn
  <1>9. PICK v : v = u - 8 * f - 0
    OBVIOUS
  <1>10. u \in Squares /\ v \in b1 /\ Rank(u) = Rank(v) + f
    BY <1>2, <1>4, <1>8, <1>9, ShiftHas
  <1>11. t \in Int /\ u \in Int /\ v \in Int /\ v \in Squares
    BY <1>3, <1>7, <1>10 DEF Squares
  <1>12. u = t - 8 * f /\ v = s /\ s + 8 * f = u /\ t = s + 16 * f /\ u + 8 * f = t
    BY <1>0, <1>1, <1>2, <1>6, <1>9, <1>11
  <1>13. Rank(v) = IF c = "white" THEN 1 ELSE 6
    BY <1>3, <1>10, OnRankIs DEF PawnRank
  <1>14. f = IF c = "white" THEN 1 ELSE -1
    BY <1>1 DEF Forward
  <1>15. PushPawn(c, {s}) = {s + 8 * f}
    <2>1. s \in Squares /\ Rank(s) + Forward(c) \in 0 .. 7
      BY <1>1, <1>11, <1>12, <1>13, <1>14
    <2> QED BY <1>1, <2>1, PushOne
  <1>16. Rank(u) = (IF c = "white" THEN 2 ELSE 5) /\ Rank(t) = (IF c = "white" THEN 3 ELSE 4)
    BY <1>7, <1>10, <1>13, <1>14
  <1>17. PushPawn(c, {u}) = {t} /\ PushPawn(OPP(c), {u}) = {v}
    <2>1. PushPawn(c, {u}) = {u + 8 * f}
      <3>1. u \in Squares /\ Rank(u) + Forward(c) \in 0 .. 7
        BY <1>1, <1>10, <1>14, <1>16
      <3> QED BY <1>1, <3>1, PushOne
    <2>2. PushPawn(OPP(c), {u}) = {u + 8 * (-f)}
      <3>1. u \in Squares /\ Rank(u) + Forward(OPP(c)) \in 0 .. 7
        BY <1>2, <1>10, <1>14, <1>16
      <3> QED BY <1>2, <3>1, PushOne
    <2>3. u + 8 * (-f) = v
      BY <1>2, <1>9, <1>11
    <2> QED BY <2>1, <2>2, <2>3, <1>12
  <1>18. Target({u}) = {t}
    <2>1. CASE c = "white"
      <3>1. PushPawn("white", {u}) = {t} /\ PushPawn("black", {u}) = {v}
        BY <1>17, <2>1 DEF OPP
      <3>2. t \in OnRank(3) /\ v \notin OnRank(4)
        BY <1>7, <1>13, <1>16, <2>1, OnRankIs
      <3> QED BY <3>1, <3>2 DEF Target
    <2>2. CASE c = "black"
      <3>1. PushPawn("black", {u}) = {t} /\ PushPawn("white", {u}) = {v}
        BY <1>17, <2>2 DEF OPP
      <3>2. t \in OnRank(4) /\ v \notin OnRank(3)
        BY <1>7, <1>13, <1>16, <2>2, OnRankIs
      <3> QED BY <3>1, <3>2 DEF Target
    <2> QED BY <2>1, <2>2 DEF Colors
  <1>19. u = t - 8 * f /\ s = u - 8 * f
    BY <1>2, <1>9, <1>11, <1>12
  <1>20. /\ s \in bb /\ u \in empty /\ t \in Squares /\ t \in empty
         /\ u = t - 8 * Forward(c) /\ s = u - 8 * Forward(c)
         /\ u = s + 8 * Forward(c) /\ t = s + 16 * Forward(c)
         /\ PushPawn(c, {s}) = {u} /\ Target({u}) = {t}
    BY <1>1, <1>3, <1>5, <1>7, <1>8, <1>10, <1>12, <1>15, <1>18, <1>19
  <1> QED BY <1>20 DEF Leaps

-----------------------------------------------------------------------------
(* The empty squares.                                                       *)
LEMMA EmptyIs ==
  ASSUME NEW p, Good(p), NEW t \in Empty(p)
  PROVE  t \in Squares /\ t \notin p.occupied_sqs /\ \A k \in PieceKinds : t \notin Own(p, k)
  <1>1. t \in Squares /\ t \notin p.occupied_sqs
    BY DEF Empty
  <1> QED BY <1>1, OccupiedSqs DEF Good, Own

(* The squares of the enemy that may be taken, and how the mailbox names    *)
(* them.                                                                    *)
LEMMA EnemyIs ==
  ASSUME NEW p, Good(p), NEW t \in EnemyBB(p)
  PROVE  /\ t \in Squares /\ t \in p.occupied_sqs /\ \A k \in PieceKinds : t \notin Own(p, k)
         /\ p.mailbox[t] \in PieceKinds \ {"king"} /\ t \in Enemy(p, p.mailbox[t])
         /\ t \notin Empty(p)
  <1>1. PICK c, o : c = p.turn /\ o = OPP(c)
    OBVIOUS
  <1>2. c \in Colors /\ o \in Colors /\ o # c /\ p.pieces \in Boards /\ Disjoint(p.pieces)
    BY <1>1, OppIs DEF Good, Raw
  <1>3. PICK k \in PieceKinds : t \in p.pieces[o][k]
    BY <1>1, Occupied DEF EnemyBB
  <1>4. t \notin p.pieces[o]["king"]
    BY <1>1 DEF EnemyBB, Enemy
  <1>5. t \in Squares /\ k # "king"
    BY <1>2, <1>3, <1>4 DEF Boards
  <1>6. p.mailbox[t] = k
    BY <1>2, <1>3 DEF Good, Mailed
  <1>7. t \in p.occupied_sqs
    BY <1>2, <1>3, OccupiedSqs DEF Good
  <1>8. \A j \in PieceKinds : t \notin p.pieces[c][j]
    BY <1>2, <1>3, <1>5 DEF Disjoint
  <1>9. t \notin Empty(p)
    BY <1>7 DEF Empty
  <1> QED BY <1>1, <1>3, <1>5, <1>6, <1>7, <1>8, <1>9 DEF Own, Enemy

(* The en passant square is empty, and the enemy's pawn stands behind it.   *)
LEMMA PassedSquare ==
  ASSUME NEW p, Good(p), NEW s \in p.en_passant_sq
  PROVE  /\ s \in Squares /\ s \notin p.occupied_sqs
         /\ s - 8 * Forward(p.turn) \in p.occupied_sqs
         /\ \A k \in PieceKinds : s - 8 * Forward(p.turn) \notin Own(p, k) /\ s \notin Own(p, k)
  <1>1. PICK c, o : c = p.turn /\ o = OPP(c)
    OBVIOUS
  <1>2. c \in Colors /\ o \in Colors /\ o # c /\ p.pieces \in Boards /\ Disjoint(p.pieces)
    BY <1>1, OppIs DEF Good, Raw
  <1>3. PICK u : u = s - 8 * Forward(p.turn)
    OBVIOUS
  <1>4. s \in Squares /\ s \notin p.occupied_sqs /\ u \in p.pieces[o]["pawn"]
    BY <1>1, <1>3 DEF Good, JustPassed, Enemy
  <1>5. "pawn" \in PieceKinds /\ u \in Squares
    BY <1>2, <1>4 DEF Boards, PieceKinds
  <1>6. u \in p.occupied_sqs
    BY <1>2, <1>4, <1>5, OccupiedSqs DEF Good
  <1>7. \A k \in PieceKinds : u \notin p.pieces[c][k]
    BY <1>2, <1>4, <1>5 DEF Disjoint
  <1>8. \A k \in PieceKinds : s \notin p.pieces[c][k]
    BY <1>2, <1>4, OccupiedSqs DEF Good
  <1> QED BY <1>1, <1>3, <1>4, <1>6, <1>7, <1>8 DEF Own

(* A king's move is one step unless it castles.                             *)
StepsOrCastles(m) ==
  m.piece = "king" /\ ~Is(m, "CASTLE_KING_SIDE") /\ ~Is(m, "CASTLE_QUEEN_SIDE") =>
    m.to \in KingAttacks({m.from})

(* A quiet move or a capture by a piece other than a pawn is plausible.     *)
LEMMA PieceFits ==
  ASSUME NEW p, Good(p), NEW k \in PieceKinds \ {"pawn"}, NEW s \in Own(p, k),
         NEW t \in EnemyBB(p) \cup Empty(p),
         NEW m, m = IF t \in EnemyBB(p) THEN Taking(p, s, t, k) ELSE Quiet(s, t, k)
  PROVE  Plausible(p, m) /\ m.piece = k /\ m.from = s /\ m.to = t
  <1>1. s \in Squares /\ t \in Squares
    BY EmptyIs, EnemyIs DEF Good, Raw, Boards, Own
  <1>2. CASE t \in EnemyBB(p)
    <2>1. PICK j : j = p.mailbox[t]
      OBVIOUS
    <2>2. /\ j \in PieceKinds \ {"king"} /\ t \in Enemy(p, j)
          /\ \A i \in PieceKinds : t \notin Own(p, i)
      BY <1>2, <2>1, EnemyIs
    <2>3. m = [from |-> s, to |-> t, piece |-> k, captured |-> j, promoted |-> NONE, flags |-> {"CAPTURE"}]
      BY <1>2, <2>1 DEF Taking, Quiet
    <2>4. m \in Moves
      BY <1>1, <2>2, <2>3 DEF Moves
    <2>5. Takes(p, m) /\ Promotes(m) /\ Passes(p, m) /\ CastlesAllowed(p, m)
      BY <2>2, <2>3 DEF Takes, Promotes, Passes, CastlesAllowed, CastlesTo, Is
    <2>6. ~Is(m, "EN_PASSANT")
      BY <2>3 DEF Is
    <2> QED BY <2>2, <2>3, <2>4, <2>5, <2>6 DEF Plausible
  <1>3. CASE t \notin EnemyBB(p)
    <2>1. t \notin p.occupied_sqs /\ \A i \in PieceKinds : t \notin Own(p, i)
      BY <1>3, EmptyIs
    <2>2. m = [from |-> s, to |-> t, piece |-> k, captured |-> NONE, promoted |-> NONE, flags |-> {}]
      BY <1>3 DEF Quiet
    <2>3. m \in Moves
      BY <1>1, <2>2 DEF Moves
    <2>4. Takes(p, m) /\ Promotes(m) /\ Passes(p, m) /\ CastlesAllowed(p, m)
      BY <2>1, <2>2 DEF Takes, Promotes, Passes, CastlesAllowed, CastlesTo, Is
    <2>5. ~Is(m, "EN_PASSANT")
      BY <2>2 DEF Is
    <2> QED BY <2>1, <2>2, <2>3, <2>4, <2>5 DEF Plausible
  <1> QED BY <1>2, <1>3

(* So are the moves ListMoves makes of a set of squares.                    *)
LEMMA ListFits ==
  ASSUME NEW p, Good(p), NEW k \in PieceKinds \ {"pawn"}, NEW s \in Own(p, k),
         NEW T \in SUBSET (EnemyBB(p) \cup Empty(p)), NEW m \in ListMoves(p, s, T, k)
  PROVE  Plausible(p, m) /\ m.piece = k /\ m.from = s /\ m.to \in T
  <1>1. PICK t \in T : m = IF t \in EnemyBB(p) THEN Taking(p, s, t, k) ELSE Quiet(s, t, k)
    BY DEF ListMoves
  <1> QED BY <1>1, PieceFits

(* A pawn's move other than en passant is plausible if it leads to an empty *)
(* square or an enemy, and says so.                                         *)
LEMMA PawnFits ==
  ASSUME NEW p, Good(p), NEW s \in Own(p, "pawn"), NEW t \in EnemyBB(p) \cup Empty(p),
         t \notin p.en_passant_sq, NEW m, m.piece = "pawn", m.from = s, m.to = t, m \in Moves,
         m.flags \subseteq {"CAPTURE", "PROMOTION"},
         Is(m, "CAPTURE") <=> t \in EnemyBB(p),
         m.captured = IF t \in EnemyBB(p) THEN p.mailbox[t] ELSE NONE,
         Promotes(m),
         IsDoublePush(m) =>
           /\ ~Is(m, "PROMOTION")
           /\ m.from + 8 * Forward(p.turn) \in Squares \ p.occupied_sqs
           /\ m.to = m.from + 16 * Forward(p.turn)
           /\ Target({m.from + 8 * Forward(p.turn)}) = {m.to}
           /\ PushPawn(p.turn, {m.from}) = {m.from + 8 * Forward(p.turn)}
  PROVE  Plausible(p, m)
  <1>1. \A i \in PieceKinds : t \notin Own(p, i)
    BY EmptyIs, EnemyIs
  <1>2. Takes(p, m)
    BY EmptyIs, EnemyIs DEF Takes
  <1>3. ~Is(m, "EN_PASSANT") /\ ~Is(m, "CASTLE_KING_SIDE") /\ ~Is(m, "CASTLE_QUEEN_SIDE")
    BY DEF Is
  <1>4. Passes(p, m)
    BY <1>3 DEF Passes
  <1>5. CastlesAllowed(p, m)
    BY <1>3 DEF CastlesAllowed, CastlesTo
  <1> QED BY <1>1, <1>2, <1>3, <1>4, <1>5 DEF Plausible

(* The own pieces of a good position stand on squares.                      *)
LEMMA OwnIs ==
  ASSUME NEW p, Good(p), NEW k \in PieceKinds
  PROVE  Own(p, k) \in SUBSET Squares /\ p.turn \in Colors
  BY DEF Good, Raw, Boards, Own

(* The own king's square.                                                   *)
LEMMA OneOwnKing ==
  ASSUME NEW p, Good(p)
  PROVE  \E h \in Squares : Own(p, "king") = {h} /\ KingSquare(p) = h
  <1>1. PICK h \in Squares : p.pieces[p.turn]["king"] = {h}
    BY DEF Good, OneKing
  <1> QED BY <1>1 DEF Own, KingSquare, Index

(* What KingMoves lists is plausible, and one step.                         *)
LEMMA KingFits ==
  ASSUME NEW p, Good(p), NEW m \in KingMoves(p)
  PROVE  Plausible(p, m) /\ StepsOrCastles(m)
  <1>1. PICK h \in Squares : Own(p, "king") = {h} /\ KingSquare(p) = h
    BY OneOwnKing
  <1>2. PICK T : T = (KingAttacks(Own(p, "king")) \cap (EnemyBB(p) \cup Empty(p))) \ p.king_ban
    OBVIOUS
  <1>3. m \in ListMoves(p, h, T, "king")
    BY <1>1, <1>2 DEF KingMoves
  <1>4. /\ T \in SUBSET (EnemyBB(p) \cup Empty(p)) /\ h \in Own(p, "king")
        /\ "king" \in PieceKinds \ {"pawn"}
    BY <1>1, <1>2 DEF PieceKinds
  <1>5. Plausible(p, m) /\ m.piece = "king" /\ m.from = h /\ m.to \in T
    BY <1>3, <1>4, ListFits
  <1>6. m.to \in KingAttacks({m.from})
    BY <1>1, <1>2, <1>5
  <1> QED BY <1>5, <1>6 DEF StepsOrCastles

(* A push comes from a pawn that may be pushed.                             *)
LEMMA PushesFrom ==
  ASSUME NEW p, NEW pawns, NEW allowed, NEW pin, NEW t \in Pushes(p, pawns, allowed, pin)
  PROVE  t \in allowed /\ \E ps \in SUBSET pawns : t \in Shift(ps, 0, Forward(p.turn))
  <1>1. pawns \ pin \in SUBSET pawns /\ pawns \cap pin \in SUBSET pawns
    OBVIOUS
  <1> QED BY <1>1 DEF Pushes, PushPawn

(* A double push comes from a pawn that may be pushed, over an empty        *)
(* square.                                                                  *)
LEMMA DoublePushesFrom ==
  ASSUME NEW p, NEW pawns, NEW allowed, NEW pin, NEW t \in DoublePushes(p, pawns, allowed, pin)
  PROVE  \E ps \in SUBSET pawns : t \in DoublePushPawn(p.turn, ps, Empty(p))
  <1>1. pawns \ pin \in SUBSET pawns /\ pawns \cap pin \in SUBSET pawns
    OBVIOUS
  <1> QED BY <1>1 DEF DoublePushes

(* A pawn's capture comes from a pawn that may capture.                     *)
LEMMA AttacksFrom ==
  ASSUME NEW p, NEW pawns, NEW compass, NEW allowed, NEW pin,
         NEW t \in Attacks(p, pawns, compass, allowed, pin)
  PROVE  t \in allowed /\ \E ps \in SUBSET pawns : t \in Shift(ps, compass, Forward(p.turn))
  <1>1. pawns \ pin \in SUBSET pawns /\ pawns \cap pin \in SUBSET pawns
    OBVIOUS
  <1> QED BY <1>1 DEF Attacks, PawnTargets

(* A pawn is not pushed to the en passant square: the enemy's pawn stands   *)
(* behind it.                                                               *)
LEMMA NotBehind ==
  ASSUME NEW p, Good(p), NEW t, t - 8 * Forward(p.turn) \in Own(p, "pawn") \cup Empty(p)
  PROVE  t \notin p.en_passant_sq
  <1>1. "pawn" \in PieceKinds
    BY DEF PieceKinds
  <1> QED BY <1>1, PassedSquare, EmptyIs

(* A push leads from a pawn of the side to an empty square, not the en      *)
(* passant square.                                                          *)
LEMMA PushFits ==
  ASSUME NEW p, Good(p), NEW check, NEW pawns \in SUBSET Own(p, "pawn"), NEW pin,
         NEW t \in Pushes(p, pawns, Empty(p) \cap check, pin), NEW s, s = Behind(p, t, 0)
  PROVE  /\ s \in Own(p, "pawn") /\ s \in Squares /\ t \in Squares /\ t \in Empty(p)
         /\ t \notin EnemyBB(p) /\ t \notin p.en_passant_sq
         /\ \A m : m.from = s /\ m.to = t => ~IsDoublePush(m)
  <1>1. PICK c : c = p.turn
    OBVIOUS
  <1>2. c \in Colors /\ Own(p, "pawn") \in SUBSET Squares
    BY <1>1, OwnIs DEF PieceKinds
  <1>3. t \in Empty(p) /\ \E ps \in SUBSET pawns : t \in Shift(ps, 0, Forward(c))
    BY <1>1, PushesFrom
  <1>4. PICK ps \in SUBSET pawns : t \in Shift(ps, 0, Forward(c))
    BY <1>3
  <1>5. s = t - 8 * Forward(c) - 0 /\ ps \in SUBSET Squares
    BY <1>1, <1>2 DEF Behind
  <1>6. /\ s \in ps /\ t \in Squares
        /\ \A m : m.from = s /\ m.to = t => ~IsDoublePush(m)
    BY <1>2, <1>4, <1>5, PawnStep
  <1>7. t - 8 * Forward(p.turn) = s
    BY <1>1, <1>2, <1>5, <1>6, ForwardIs DEF Squares
  <1>8. t \notin p.en_passant_sq
    BY <1>6, <1>7, NotBehind
  <1>9. t \notin EnemyBB(p)
    BY <1>3, EnemyIs
  <1> QED BY <1>2, <1>3, <1>5, <1>6, <1>8, <1>9

(* A pawn's capture leads from a pawn of the side to an enemy that may be   *)
(* taken.                                                                   *)
LEMMA AttackFits ==
  ASSUME NEW p, Good(p), NEW allowed, NEW pawns \in SUBSET Own(p, "pawn"), NEW pin,
         NEW compass \in {East, West},
         NEW t \in Attacks(p, pawns, compass, allowed, pin), NEW s, s = Behind(p, t, compass)
  PROVE  /\ s \in Own(p, "pawn") /\ s \in Squares /\ t \in Squares /\ t \in allowed
         /\ \A m : m.from = s /\ m.to = t => ~IsDoublePush(m)
  <1>1. PICK c, n : c = p.turn /\ n = compass
    OBVIOUS
  <1>2. c \in Colors /\ Own(p, "pawn") \in SUBSET Squares /\ n \in {-1, 0, 1}
    BY <1>1, OwnIs DEF PieceKinds, East, West
  <1>3. t \in allowed /\ \E ps \in SUBSET pawns : t \in Shift(ps, n, Forward(c))
    BY <1>1, AttacksFrom
  <1>4. PICK ps \in SUBSET pawns : t \in Shift(ps, n, Forward(c))
    BY <1>3
  <1>5. s = t - 8 * Forward(c) - n /\ ps \in SUBSET Squares
    BY <1>1, <1>2 DEF Behind
  <1>6. /\ s \in ps /\ t \in Squares
        /\ \A m : m.from = s /\ m.to = t => ~IsDoublePush(m)
    BY <1>2, <1>4, <1>5, PawnStep
  <1> QED BY <1>2, <1>3, <1>5, <1>6

(* What PawnPushes lists is plausible.                                      *)
LEMMA PawnPushFits ==
  ASSUME NEW p, Good(p), NEW check, NEW m \in PawnPushes(p, check)
  PROVE  Plausible(p, m) /\ m.piece = "pawn"
  <1>1. PICK pawns : pawns = Pushable(p) \ BeforePromotion(p.turn)
    OBVIOUS
  <1>2. pawns \in SUBSET Own(p, "pawn")
    BY <1>1 DEF Pushable
  <1>3. CASE \E t \in Pushes(p, pawns, Empty(p) \cap check, PinHV(p)) : m = Quiet(Behind(p, t, 0), t, "pawn")
    <2>1. PICK t \in Pushes(p, pawns, Empty(p) \cap check, PinHV(p)) : m = Quiet(Behind(p, t, 0), t, "pawn")
      BY <1>3
    <2>2. PICK s : s = Behind(p, t, 0)
      OBVIOUS
    <2>3. /\ s \in Own(p, "pawn") /\ s \in Squares /\ t \in Squares /\ t \in Empty(p)
          /\ t \notin EnemyBB(p) /\ t \notin p.en_passant_sq
          /\ \A n : n.from = s /\ n.to = t => ~IsDoublePush(n)
      BY <1>2, <2>2, PushFits
    <2>4. m = [from |-> s, to |-> t, piece |-> "pawn", captured |-> NONE, promoted |-> NONE, flags |-> {}]
      BY <2>1, <2>2 DEF Quiet
    <2>5. m \in Moves /\ Promotes(m) /\ ~IsDoublePush(m) /\ ~Is(m, "CAPTURE")
      BY <2>3, <2>4 DEF Moves, Promotes, Is, PieceKinds
    <2> QED BY <2>3, <2>4, <2>5, PawnFits
  <1>4. CASE \E t \in DoublePushes(p, pawns, check, PinHV(p)) :
               m = Quiet(Behind(p, t, 0) - 8 * Forward(p.turn), t, "pawn")
    <2>1. PICK t \in DoublePushes(p, pawns, check, PinHV(p)) :
            m = Quiet(Behind(p, t, 0) - 8 * Forward(p.turn), t, "pawn")
      BY <1>4
    <2>2. PICK s : s = Behind(p, t, 0) - 8 * Forward(p.turn)
      OBVIOUS
    <2>3. PICK ps \in SUBSET pawns : t \in DoublePushPawn(p.turn, ps, Empty(p))
      BY DoublePushesFrom
    <2>4. /\ Own(p, "pawn") \in SUBSET Squares /\ p.turn \in Colors
      BY OwnIs DEF PieceKinds
    <2>5. /\ s \in ps /\ t \in Squares /\ t \in Empty(p) /\ t - 8 * Forward(p.turn) \in Empty(p)
          /\ s + 8 * Forward(p.turn) = t - 8 * Forward(p.turn) /\ t = s + 16 * Forward(p.turn)
          /\ PushPawn(p.turn, {s}) = {s + 8 * Forward(p.turn)}
          /\ Target({s + 8 * Forward(p.turn)}) = {t}
      <3>1. s = t - 8 * Forward(p.turn) - 0 - 8 * Forward(p.turn)
        BY <2>2 DEF Behind
      <3>2. Empty(p) \in SUBSET Squares /\ ps \in SUBSET Squares
        BY <1>2, <2>3, <2>4 DEF Empty
      <3>3. PICK v \in ps, u \in Empty(p) :
              /\ t \in Squares /\ t \in Empty(p) /\ u = t - 8 * Forward(p.turn)
              /\ v = u - 8 * Forward(p.turn)
              /\ u = v + 8 * Forward(p.turn) /\ t = v + 16 * Forward(p.turn)
              /\ PushPawn(p.turn, {v}) = {u} /\ Target({u}) = {t}
        <4>1. PICK c, e : c = p.turn /\ e = Empty(p)
          OBVIOUS
        <4>2. c \in Colors /\ ps \in SUBSET Squares /\ e \in SUBSET Squares
          BY <2>4, <3>2, <4>1
        <4>3. t \in DoublePushPawn(c, ps, e)
          BY <2>3, <4>1
        <4>4. Leaps(c, ps, e, t)
          BY <4>2, <4>3, TwoSteps
        <4> QED BY <4>1, <4>4 DEF Leaps
      <3>4. v = s
        BY <2>4, <3>1, <3>3, ForwardIs DEF Squares
      <3> QED BY <3>3, <3>4
    <2>6. s \in Own(p, "pawn") /\ s \in Squares
      BY <1>2, <2>3, <2>4, <2>5
    <2>7. m = [from |-> s, to |-> t, piece |-> "pawn", captured |-> NONE, promoted |-> NONE, flags |-> {}]
      BY <2>1, <2>2 DEF Quiet
    <2>8. m \in Moves /\ Promotes(m) /\ ~Is(m, "PROMOTION") /\ ~Is(m, "CAPTURE")
      BY <2>5, <2>6, <2>7 DEF Moves, Promotes, Is, PieceKinds
    <2>9. t \notin p.en_passant_sq /\ t \notin EnemyBB(p)
      BY <2>5, NotBehind, EnemyIs
    <2>10. m.from + 8 * Forward(p.turn) \in Squares \ p.occupied_sqs
      BY <2>5, <2>7, EmptyIs
    <2> QED BY <2>5, <2>6, <2>7, <2>8, <2>9, <2>10, PawnFits
  <1> QED BY <1>1, <1>3, <1>4 DEF PawnPushes

(* What PawnCaptures lists is plausible.                                    *)
LEMMA PawnCaptureFits ==
  ASSUME NEW p, Good(p), NEW check, NEW m \in PawnCaptures(p, check)
  PROVE  Plausible(p, m) /\ m.piece = "pawn"
  <1>1. PICK pawns : pawns = Attackable(p) \ BeforePromotion(p.turn)
    OBVIOUS
  <1>2. pawns \in SUBSET Own(p, "pawn")
    BY <1>1 DEF Attackable
  <1>3. PICK compass \in {East, West} :
          m \in { Taking(p, Behind(p, t, compass), t, "pawn") :
                    t \in Attacks(p, pawns, compass, EnemyBB(p) \cap check, PinDiag(p)) }
    BY <1>1 DEF PawnCaptures
  <1>4. PICK t \in Attacks(p, pawns, compass, EnemyBB(p) \cap check, PinDiag(p)) :
          m = Taking(p, Behind(p, t, compass), t, "pawn")
    BY <1>3
  <1>5. PICK s, k : s = Behind(p, t, compass) /\ k = p.mailbox[t]
    OBVIOUS
  <1>6. /\ s \in Own(p, "pawn") /\ s \in Squares /\ t \in Squares /\ t \in EnemyBB(p) \cap check
        /\ \A n : n.from = s /\ n.to = t => ~IsDoublePush(n)
    BY <1>2, <1>5, AttackFits
  <1>7. m = [from |-> s, to |-> t, piece |-> "pawn", captured |-> k, promoted |-> NONE, flags |-> {"CAPTURE"}]
    BY <1>4, <1>5 DEF Taking, Quiet
  <1>8. k \in PieceKinds /\ t \in p.occupied_sqs
    BY <1>5, <1>6, EnemyIs
  <1>9. m \in Moves /\ Promotes(m) /\ Is(m, "CAPTURE") /\ ~IsDoublePush(m)
    BY <1>6, <1>7, <1>8 DEF Moves, Promotes, Is, PieceKinds
  <1>10. t \notin p.en_passant_sq
    BY <1>8, PassedSquare
  <1>11. m.flags \subseteq {"CAPTURE", "PROMOTION"} /\ m.captured = k
    BY <1>7
  <1> QED BY <1>5, <1>6, <1>7, <1>9, <1>10, <1>11, PawnFits

(* What EnPassants lists is plausible: the square is noted and the move is  *)
(* to it.                                                                   *)
LEMMA EnPassantFits ==
  ASSUME NEW p, Good(p), NEW check, NEW m \in EnPassants(p, check)
  PROVE  Plausible(p, m) /\ m.piece = "pawn"
  <1>1. PICK pawns : pawns = Attackable(p) \ BeforePromotion(p.turn)
    OBVIOUS
  <1>2. pawns \in SUBSET Own(p, "pawn")
    BY <1>1 DEF Attackable
  <1>3. PICK compass \in {East, West} :
          m \in { Flagged(Behind(p, t, compass), t, "pawn", "EN_PASSANT") :
                    t \in Attacks(p, pawns, compass, EnPassantMask(p, check), PinDiag(p)) }
    BY <1>1 DEF EnPassants
  <1>4. PICK t \in Attacks(p, pawns, compass, EnPassantMask(p, check), PinDiag(p)) :
          m = Flagged(Behind(p, t, compass), t, "pawn", "EN_PASSANT")
    BY <1>3
  <1>5. PICK s : s = Behind(p, t, compass)
    OBVIOUS
  <1>6. /\ s \in Own(p, "pawn") /\ s \in Squares /\ t \in Squares /\ t \in EnPassantMask(p, check)
        /\ \A n : n.from = s /\ n.to = t => ~IsDoublePush(n)
    BY <1>2, <1>5, AttackFits
  <1>7. m = [from |-> s, to |-> t, piece |-> "pawn", captured |-> NONE, promoted |-> NONE,
             flags |-> {"EN_PASSANT"}]
    BY <1>4, <1>5 DEF Flagged, Quiet
  <1>8. t \in p.en_passant_sq
    BY <1>6 DEF EnPassantMask
  <1>9. t \notin p.occupied_sqs /\ \A k \in PieceKinds : t \notin Own(p, k)
    BY <1>8, PassedSquare
  <1>10. m \in Moves /\ Promotes(m) /\ Is(m, "EN_PASSANT") /\ ~Is(m, "CAPTURE") /\ ~IsDoublePush(m)
    BY <1>6, <1>7 DEF Moves, Promotes, Is, PieceKinds
  <1>11. ~Is(m, "CASTLE_KING_SIDE") /\ ~Is(m, "CASTLE_QUEEN_SIDE")
    BY <1>7 DEF Is
  <1>12. Takes(p, m) /\ Passes(p, m) /\ CastlesAllowed(p, m)
    BY <1>7, <1>8, <1>9, <1>10, <1>11 DEF Takes, Passes, CastlesAllowed, CastlesTo
  <1> QED BY <1>6, <1>7, <1>9, <1>10, <1>12 DEF Plausible

(* The lists of the knights, bishops, rooks and queens, pinned or not, are  *)
(* of squares empty or of an enemy.                                         *)
LEMMA OfficerLists ==
  ASSUME NEW p, NEW check, NEW m \in Officers(p, check)
  PROVE  \E k \in {"knight", "bishop", "rook", "queen"} : \E s \in Own(p, k) :
           \E T \in SUBSET (EnemyBB(p) \cup Empty(p)) : m \in ListMoves(p, s, T, k)
  <1> DEFINE hv == PinHV(p)
             diag == PinDiag(p)
             movable == (EnemyBB(p) \cup Empty(p)) \cap check
             rook(s) == RookAttacks(p.occupied_sqs, s) \cap movable
             bishop(s) == BishopAttacks(p.occupied_sqs, s) \cap movable
  <1> DEFINE A1 == UNION { ListMoves(p, s, KnightAttacks({s}) \cap movable, "knight") :
                         s \in Own(p, "knight") \ (hv \cup diag) }
             A2 == UNION { ListMoves(p, s, bishop(s), "bishop") : s \in Own(p, "bishop") \ (hv \cup diag) }
             A3 == UNION { ListMoves(p, s, bishop(s) \cap diag, "bishop") :
                         s \in (Own(p, "bishop") \ hv) \cap diag }
             A4 == UNION { ListMoves(p, s, rook(s), "rook") : s \in Own(p, "rook") \ (hv \cup diag) }
             A5 == UNION { ListMoves(p, s, rook(s) \cap hv, "rook") : s \in (Own(p, "rook") \ diag) \cap hv }
             A6 == UNION { ListMoves(p, s, bishop(s) \cap diag, "queen") : s \in Own(p, "queen") \cap diag }
             A7 == UNION { ListMoves(p, s, rook(s) \cap hv, "queen") : s \in Own(p, "queen") \cap hv }
             A8 == UNION { ListMoves(p, s, rook(s) \cup bishop(s), "queen") :
                         s \in Own(p, "queen") \ (hv \cup diag) }
  <1>0. Officers(p, check) = A1 \cup A2 \cup A3 \cup A4 \cup A5 \cup A6 \cup A7 \cup A8
    BY Zenon DEF Officers
  <1>2. \A s : /\ KnightAttacks({s}) \cap movable \in SUBSET (EnemyBB(p) \cup Empty(p))
               /\ bishop(s) \in SUBSET (EnemyBB(p) \cup Empty(p))
               /\ bishop(s) \cap diag \in SUBSET (EnemyBB(p) \cup Empty(p))
               /\ rook(s) \in SUBSET (EnemyBB(p) \cup Empty(p))
               /\ rook(s) \cap hv \in SUBSET (EnemyBB(p) \cup Empty(p))
               /\ rook(s) \cup bishop(s) \in SUBSET (EnemyBB(p) \cup Empty(p))
    OBVIOUS
  <1>1. \/ m \in A1 \/ m \in A2 \/ m \in A3 \/ m \in A4 \/ m \in A5 \/ m \in A6 \/ m \in A7 \/ m \in A8
    <2> HIDE DEF A1, A2, A3, A4, A5, A6, A7, A8
    <2> QED BY <1>0
  <1> HIDE DEF hv, diag, movable, rook, bishop
  <1>3. \/ \E s \in Own(p, "knight") : m \in ListMoves(p, s, KnightAttacks({s}) \cap movable, "knight")
        \/ \E s \in Own(p, "bishop") : m \in ListMoves(p, s, bishop(s), "bishop")
        \/ \E s \in Own(p, "bishop") : m \in ListMoves(p, s, bishop(s) \cap diag, "bishop")
        \/ \E s \in Own(p, "rook") : m \in ListMoves(p, s, rook(s), "rook")
        \/ \E s \in Own(p, "rook") : m \in ListMoves(p, s, rook(s) \cap hv, "rook")
        \/ \E s \in Own(p, "queen") : m \in ListMoves(p, s, bishop(s) \cap diag, "queen")
        \/ \E s \in Own(p, "queen") : m \in ListMoves(p, s, rook(s) \cap hv, "queen")
        \/ \E s \in Own(p, "queen") : m \in ListMoves(p, s, rook(s) \cup bishop(s), "queen")
    BY <1>1
  <1> QED BY <1>2, <1>3

(* What Officers lists is plausible.                                        *)
LEMMA OfficerFits ==
  ASSUME NEW p, Good(p), NEW check, NEW m \in Officers(p, check)
  PROVE  Plausible(p, m) /\ m.piece # "king"
  <1>1. PICK M : M = EnemyBB(p) \cup Empty(p)
    OBVIOUS
  <1>2. PICK k \in {"knight", "bishop", "rook", "queen"} :
          \E s \in Own(p, k) : \E T \in SUBSET M : m \in ListMoves(p, s, T, k)
    BY <1>1, OfficerLists
  <1>3. PICK s \in Own(p, k), T \in SUBSET M : m \in ListMoves(p, s, T, k)
    BY <1>2
  <1>4. k \in PieceKinds \ {"pawn"} /\ k # "king"
    BY DEF PieceKinds
  <1> QED BY <1>1, <1>3, <1>4, ListFits

(* What Castles lists is plausible: the right is held, the rook in the      *)
(* corner and the way empty.                                                *)
LEMMA CastleFits ==
  ASSUME NEW p, Good(p), NEW check, NEW m \in Castles(p, check)
  PROVE  Plausible(p, m) /\ StepsOrCastles(m)
  <1>1. PICK c, home, K, rank, king, kingRook, queenRook :
          /\ c = p.turn /\ home = KingHome(c) /\ K = Own(p, "king") /\ rank = HomeRank(c)
          /\ king = K \cap rank
          /\ kingRook = Own(p, "rook") \cap {KingRook(c)}
          /\ queenRook = Own(p, "rook") \cap {QueenRook(c)}
    OBVIOUS
  <1>2. c \in Colors /\ "king" \in PieceKinds /\ "rook" \in PieceKinds
    BY <1>1 DEF Good, PieceKinds
  <1>3. PICK h \in Squares : K = {h}
    BY <1>1, OneOwnKing
  <1>4. home \in Int /\ rank = Home(c) /\ home \in Squares
    <2>1. home \in Home(c) /\ Home(c) \subseteq Squares
      BY <1>1, <1>2, HomeSquares
    <2> QED BY <1>1, <1>2, <2>1, HomeIs, Corners
  <1>5. \/ /\ KingSide(c) \in p.castling_rights /\ kingRook # {}
           /\ Xor(Xor(p.occupied_sqs, kingRook), king) \cap KingSideFiles \cap rank = {}
           /\ m \in { Flagged(k, k + 2, "king", "CASTLE_KING_SIDE") : k \in king }
        \/ /\ QueenSide(c) \in p.castling_rights /\ queenRook # {}
           /\ Xor(p.occupied_sqs, queenRook) \cap QueenSideFiles \cap rank = {}
           /\ m \in { Flagged(k, k + -2, "king", "CASTLE_QUEEN_SIDE") : k \in king }
    BY <1>1 DEF Castles
  <1>6. ASSUME p.castling_rights \cap {KingSide(c), QueenSide(c)} # {} PROVE h = home
    BY <1>1, <1>2, <1>3, <1>6 DEF Good, RightsAtHome, Own
  <1>7. ASSUME NEW t \in Squares, t \notin p.occupied_sqs
        PROVE  \A k \in PieceKinds : t \notin Own(p, k)
    BY <1>1, <1>2, <1>7, OccupiedSqs DEF Good, Own
  <1>8. CASE /\ KingSide(c) \in p.castling_rights /\ kingRook # {}
             /\ Xor(Xor(p.occupied_sqs, kingRook), king) \cap KingSideFiles \cap rank = {}
             /\ m \in { Flagged(k, k + 2, "king", "CASTLE_KING_SIDE") : k \in king }
    <2>1. h = home /\ KingRook(c) \in Own(p, "rook")
      BY <1>1, <1>6, <1>8
    <2>2. m = Flagged(home, home + 2, "king", "CASTLE_KING_SIDE")
      BY <1>1, <1>3, <1>8, <2>1
    <2>3. m = [from |-> home, to |-> home + 2, piece |-> "king", captured |-> NONE, promoted |-> NONE,
               flags |-> {"CASTLE_KING_SIDE"}]
      BY <2>2 DEF Flagged, Quiet
    <2>4. /\ home + 1 \in Squares /\ home + 2 \in Squares
          /\ home + 1 \in rank /\ home + 2 \in rank
          /\ home + 1 \in KingSideFiles /\ home + 2 \in KingSideFiles
          /\ home + 1 \notin {home, KingRook(c)} /\ home + 2 \notin {home, KingRook(c)}
      <3>1. home + 1 \in Home(c) /\ home + 2 \in Home(c) /\ Home(c) \subseteq Squares
        BY <1>1, <1>2, HomeSquares
      <3>2. home + 1 \in home .. home + 3 /\ home + 2 \in home .. home + 3 /\ KingRook(c) = home + 3
        BY <1>1, <1>2, <1>4, Corners
      <3>3. home + 1 \in KingSideFiles /\ home + 2 \in KingSideFiles
        BY <1>1, <1>2, <3>1, <3>2, HomeIs
      <3> QED BY <1>4, <3>1, <3>2, <3>3
    <2>5. ASSUME NEW s \in {home + 1, home + 2} PROVE s \notin p.occupied_sqs
      <3>1. s \notin king /\ s \notin kingRook /\ s \in KingSideFiles \cap rank
        BY <1>1, <1>3, <2>1, <2>4
      <3> QED BY <1>8, <3>1 DEF Xor
    <2>6. m \in Moves
      BY <1>4, <2>3, <2>4 DEF Moves, PieceKinds
    <2>7. m.from \in Own(p, m.piece) /\ \A k \in PieceKinds : m.to \notin Own(p, k)
      BY <1>1, <1>3, <1>7, <2>1, <2>3, <2>4, <2>5
    <2>8. Takes(p, m) /\ Promotes(m) /\ Passes(p, m)
      BY <2>3, <2>5 DEF Takes, Promotes, Passes, Is
    <2>9. CastlesAllowed(p, m)
      BY <1>1, <1>8, <2>1, <2>3, <2>5 DEF CastlesAllowed, CastlesTo, Is
    <2>10. ~Is(m, "EN_PASSANT") /\ Is(m, "CASTLE_KING_SIDE")
      BY <2>3 DEF Is
    <2> QED BY <2>6, <2>7, <2>8, <2>9, <2>10 DEF Plausible, StepsOrCastles
  <1>9. CASE /\ QueenSide(c) \in p.castling_rights /\ queenRook # {}
             /\ Xor(p.occupied_sqs, queenRook) \cap QueenSideFiles \cap rank = {}
             /\ m \in { Flagged(k, k + -2, "king", "CASTLE_QUEEN_SIDE") : k \in king }
    <2>1. h = home /\ QueenRook(c) \in Own(p, "rook")
      BY <1>1, <1>6, <1>9
    <2>2. m = Flagged(home, home - 2, "king", "CASTLE_QUEEN_SIDE")
      <3>1. home + -2 = home - 2
        BY <1>4
      <3> QED BY <1>1, <1>3, <1>9, <2>1, <3>1
    <2>3. m = [from |-> home, to |-> home - 2, piece |-> "king", captured |-> NONE, promoted |-> NONE,
               flags |-> {"CASTLE_QUEEN_SIDE"}]
      BY <2>2 DEF Flagged, Quiet
    <2>4. /\ home - 2 \in Squares
          /\ \A s \in {home - 1, home - 2, home - 3} : s \in rank /\ s \in QueenSideFiles /\ s # QueenRook(c)
      <3>1. /\ home - 1 \in Home(c) /\ home - 2 \in Home(c) /\ home - 3 \in Home(c)
            /\ Home(c) \subseteq Squares
        BY <1>1, <1>2, HomeSquares
      <3>2. /\ home - 1 \in home - 4 .. home - 1 /\ home - 2 \in home - 4 .. home - 1
            /\ home - 3 \in home - 4 .. home - 1 /\ QueenRook(c) = home - 4
        BY <1>1, <1>2, <1>4, Corners
      <3>3. home - 1 \in QueenSideFiles /\ home - 2 \in QueenSideFiles /\ home - 3 \in QueenSideFiles
        BY <1>1, <1>2, <3>1, <3>2, HomeIs
      <3> QED BY <1>4, <3>1, <3>2, <3>3
    <2>5. ASSUME NEW s \in {home - 1, home - 2, home - 3} PROVE s \notin p.occupied_sqs
      <3>1. s \notin queenRook /\ s \in QueenSideFiles \cap rank
        BY <1>1, <2>4
      <3> QED BY <1>9, <3>1 DEF Xor
    <2>6. m \in Moves
      BY <1>4, <2>3, <2>4 DEF Moves, PieceKinds
    <2>7. m.from \in Own(p, m.piece) /\ \A k \in PieceKinds : m.to \notin Own(p, k)
      BY <1>1, <1>3, <1>7, <2>1, <2>3, <2>4, <2>5
    <2>8. Takes(p, m) /\ Promotes(m) /\ Passes(p, m)
      BY <2>3, <2>5 DEF Takes, Promotes, Passes, Is
    <2>9. CastlesAllowed(p, m)
      BY <1>1, <1>9, <2>1, <2>3, <2>5 DEF CastlesAllowed, CastlesTo, Is
    <2>10. ~Is(m, "EN_PASSANT") /\ Is(m, "CASTLE_QUEEN_SIDE")
      BY <2>3 DEF Is
    <2> QED BY <2>6, <2>7, <2>8, <2>9, <2>10 DEF Plausible, StepsOrCastles
  <1> QED BY <1>5, <1>8, <1>9

(* What Promotions lists is plausible.                                      *)
LEMMA PromotionFits ==
  ASSUME NEW p, Good(p), NEW check, NEW m \in Promotions(p, check)
  PROVE  Plausible(p, m) /\ m.piece = "pawn"
  <1>1. PICK push, attack :
          /\ push = Pushable(p) \cap BeforePromotion(p.turn)
          /\ attack = Attackable(p) \cap BeforePromotion(p.turn)
    OBVIOUS
  <1>2. push \in SUBSET Own(p, "pawn") /\ attack \in SUBSET Own(p, "pawn")
    BY <1>1 DEF Pushable, Attackable
  <1> DEFINE plain == { Quiet(Behind(p, t, 0), t, "pawn") :
                          t \in Pushes(p, Pushable(p) \cap BeforePromotion(p.turn),
                                       Empty(p) \cap check, PinHV(p)) }
             taking == UNION { { Taking(p, Behind(p, t, compass), t, "pawn") :
                                   t \in Attacks(p, Attackable(p) \cap BeforePromotion(p.turn), compass,
                                                 EnemyBB(p) \cap check, PinDiag(p)) }
                               : compass \in {East, West} }
  <1>3. m \in Promoted(plain \cup taking)
    BY DEF Promotions
  <1>4. PICK n \in plain \cup taking, k \in Promotable :
          m = PromotedTo(n, k)
    <2> HIDE DEF plain, taking
    <2> QED BY <1>3 DEF Promoted
  <1>k. k \in PieceKinds /\ k # NONE
    BY DEF Promotable, PieceKinds, NONE
  <1>5. CASE n \in plain
    <2>1. PICK t \in Pushes(p, push, Empty(p) \cap check, PinHV(p)) : n = Quiet(Behind(p, t, 0), t, "pawn")
      BY <1>1, <1>5
    <2>2. PICK s : s = Behind(p, t, 0)
      OBVIOUS
    <2>3. /\ s \in Own(p, "pawn") /\ s \in Squares /\ t \in Squares /\ t \in Empty(p)
          /\ t \notin EnemyBB(p) /\ t \notin p.en_passant_sq
          /\ \A i : i.from = s /\ i.to = t => ~IsDoublePush(i)
      BY <1>2, <2>2, PushFits
    <2>4. m = [from |-> s, to |-> t, piece |-> "pawn", captured |-> NONE, promoted |-> k,
               flags |-> {"PROMOTION"}]
      BY <1>4, <2>1, <2>2 DEF PromotedTo, Quiet
    <2>5. m \in Moves /\ Promotes(m) /\ ~IsDoublePush(m) /\ ~Is(m, "CAPTURE")
      BY <1>k, <2>3, <2>4 DEF Moves, Promotes, Is, PieceKinds
    <2>6. m.flags \subseteq {"CAPTURE", "PROMOTION"}
      BY <2>4
    <2> QED BY <2>3, <2>4, <2>5, <2>6, PawnFits
  <1>6. CASE n \in taking
    <2>0. PICK compass \in {East, West} :
            n \in { Taking(p, Behind(p, t, compass), t, "pawn") :
                      t \in Attacks(p, attack, compass, EnemyBB(p) \cap check, PinDiag(p)) }
      BY <1>1, <1>6
    <2>1. PICK t \in Attacks(p, attack, compass, EnemyBB(p) \cap check, PinDiag(p)) :
            n = Taking(p, Behind(p, t, compass), t, "pawn")
      BY <2>0
    <2>2. PICK s, j : s = Behind(p, t, compass) /\ j = p.mailbox[t]
      OBVIOUS
    <2>3. /\ s \in Own(p, "pawn") /\ s \in Squares /\ t \in Squares /\ t \in EnemyBB(p) \cap check
          /\ \A i : i.from = s /\ i.to = t => ~IsDoublePush(i)
      BY <1>2, <2>2, AttackFits
    <2>4. m = [from |-> s, to |-> t, piece |-> "pawn", captured |-> j, promoted |-> k,
               flags |-> {"CAPTURE", "PROMOTION"}]
      <3>1. {"CAPTURE"} \cup {"PROMOTION"} = {"CAPTURE", "PROMOTION"}
        OBVIOUS
      <3> QED BY <1>4, <2>1, <2>2, <3>1 DEF PromotedTo, Taking, Quiet
    <2>5. j \in PieceKinds /\ t \in p.occupied_sqs
      BY <2>2, <2>3, EnemyIs
    <2>6. m \in Moves /\ Promotes(m) /\ Is(m, "CAPTURE") /\ ~IsDoublePush(m)
      BY <1>k, <2>3, <2>4, <2>5 DEF Moves, Promotes, Is, PieceKinds
    <2>7. t \notin p.en_passant_sq
      BY <2>5, PassedSquare
    <2>8. m.flags \subseteq {"CAPTURE", "PROMOTION"} /\ m.captured = j
      BY <2>4
    <2> QED BY <2>2, <2>3, <2>4, <2>6, <2>7, <2>8, PawnFits
  <1> QED BY <1>4, <1>5, <1>6

(* Every move GenerateMoves returns in a good position is plausible: it     *)
(* starts from the piece it names, names what it takes, and castles only    *)
(* from home.                                                               *)
LEMMA Generated ==
  ASSUME NEW p, Good(p), NEW m \in GenerateMoves(p)
  PROVE  Plausible(p, m) /\ StepsOrCastles(m)
  <1>1. PICK check : \/ m \in KingMoves(p) \/ m \in PawnPushes(p, check) \/ m \in PawnCaptures(p, check)
                     \/ m \in EnPassants(p, check) \/ m \in Officers(p, check)
                     \/ m \in Castles(p, check) \/ m \in Promotions(p, check)
    BY DEF GenerateMoves
  <1>2. m.piece = "pawn" => StepsOrCastles(m)
    BY DEF StepsOrCastles
  <1>3. m.piece # "king" => StepsOrCastles(m)
    BY DEF StepsOrCastles
  <1> QED BY <1>1, <1>2, <1>3, KingFits, PawnPushFits, PawnCaptureFits, EnPassantFits, OfficerFits,
             CastleFits, PromotionFits

-----------------------------------------------------------------------------
(* The boards a FEN's placement says.                                       *)
Placed(fen) ==
  [c \in Colors |-> [k \in PieceKinds |->
    { s \in DOMAIN fen.placement : fen.placement[s] = <<k, c>> }]]

(* A placement of pieces on squares.                                        *)
OnBoard(fen) ==
  /\ DOMAIN fen.placement \subseteq Squares
  /\ \A s \in DOMAIN fen.placement : fen.placement[s] \in PieceKinds \X Colors
  /\ ReadTurn(fen) \in Colors

(* The hash ApplyFen computes from nothing is that of the pieces and the    *)
(* side to move.                                                            *)
LEMMA ScratchKeyed ==
  ASSUME NEW fen, OnBoard(fen), NEW turn, NEW q, q.pieces = Placed(fen),
         q.hash = ScratchHash(fen.placement, turn, fen.rights, fen.en_passant)
  PROVE  Keyed(q) /\ (Turns(q) <=> turn = "black")
  <1>1. \A x : x \in q.hash <=>
          \/ \E s \in DOMAIN fen.placement :
               x = PieceKey(s, fen.placement[s][2], fen.placement[s][1])
          \/ \E i \in fen.rights : x = CastlingKey(i)
          \/ \E s \in fen.en_passant : x = EnPassantKey(s)
          \/ turn = "black" /\ x = ColorKey
    BY DEF ScratchHash
  <1>2. \A s \in DOMAIN fen.placement :
          /\ s \in Squares /\ fen.placement[s][1] \in PieceKinds /\ fen.placement[s][2] \in Colors
          /\ fen.placement[s] = <<fen.placement[s][1], fen.placement[s][2]>>
    BY DEF OnBoard
  <1>3. ASSUME NEW d \in Colors, NEW k \in PieceKinds, NEW s \in Squares
        PROVE  PieceKey(s, d, k) \in q.hash <=> s \in q.pieces[d][k]
    <2>1. s \in q.pieces[d][k] <=> s \in DOMAIN fen.placement /\ fen.placement[s] = <<k, d>>
      BY DEF Placed
    <2>2. PieceKey(s, d, k) \in q.hash <=>
            \E t \in DOMAIN fen.placement :
              PieceKey(s, d, k) = PieceKey(t, fen.placement[t][2], fen.placement[t][1])
      BY <1>1, ColorOnly, KeysDiffer DEF IsPieceKey
    <2>3. ASSUME NEW t \in DOMAIN fen.placement,
                 PieceKey(s, d, k) = PieceKey(t, fen.placement[t][2], fen.placement[t][1])
          PROVE  t = s /\ fen.placement[s] = <<k, d>>
      BY <1>2, <2>3, KeysDiffer
    <2> QED BY <2>1, <2>2, <2>3
  <1>4. ASSUME NEW x \in q.hash, x[1] \in {"piece", "color"} PROVE x = ColorKey \/ IsPieceKey(x)
    BY <1>1, <1>2, <1>4, ColorOnly DEF IsPieceKey
  <1>5. ColorKey \in q.hash <=> turn = "black"
    BY <1>1, ColorOnly, KeysDiffer
  <1> QED BY <1>3, <1>4, <1>5 DEF Keyed, Turns

(* The position a FEN is read as.                                           *)
LEMMA FromFenIs ==
  ASSUME NEW fen, OnBoard(fen), NEW r, r = FromFen(fen)
  PROVE  /\ Raw(r) /\ r.turn = ReadTurn(fen) /\ (Turns(r) <=> r.turn = "black")
         /\ r.pieces = Placed(fen) /\ r.castling_rights = fen.rights
         /\ r.halfmove_clock = fen.halfmove /\ r.fullmove_counter = fen.fullmove
         /\ r.mailbox = [s \in Squares |-> PieceOn(r.pieces, s)] /\ Derived(r)
         /\ r.en_passant_sq \in {fen.en_passant, {}} /\ r.en_passant_target = Target(fen.en_passant)
         /\ \E b : /\ b.turn = r.turn /\ b.pieces = r.pieces /\ b.occupied_sqs = r.occupied_sqs
                   /\ b.en_passant_sq = fen.en_passant
                   /\ ~Exposes(b, r.en_passant_target) => r.en_passant_sq = fen.en_passant
  <1>1. PICK turn, pieces, mailbox, hash, q :
          /\ turn = ReadTurn(fen) /\ pieces = Placed(fen) /\ mailbox = [s \in Squares |-> NONE]
          /\ hash = ScratchHash(fen.placement, turn, fen.rights, fen.en_passant)
          /\ q = [turn |-> turn, pieces |-> pieces, occupied_sqs |-> {}, king_ban |-> {},
                  en_passant_sq |-> fen.en_passant, en_passant_target |-> {},
                  castling_rights |-> fen.rights,
                  halfmove_clock |-> fen.halfmove, fullmove_counter |-> fen.fullmove,
                  mailbox |-> mailbox, hash |-> hash]
    OBVIOUS
  <1>2. r = UpdateInternals(q)
    BY <1>1, Zenon DEF FromFen, Placed
  <1>3. /\ Record(q) /\ q.turn = turn /\ q.pieces = pieces /\ q.en_passant_sq = fen.en_passant
        /\ q.castling_rights = fen.rights /\ q.halfmove_clock = fen.halfmove
        /\ q.fullmove_counter = fen.fullmove /\ q.hash = hash
    BY <1>1 DEF Record
  <1>4. Keyed(q) /\ (Turns(q) <=> turn = "black")
    BY <1>1, <1>3, ScratchKeyed
  <1>5. pieces \in Boards
    BY <1>1 DEF Placed, Boards, OnBoard
  <1>6. /\ Record(r) /\ r.pieces = q.pieces /\ r.castling_rights = q.castling_rights
        /\ r.fullmove_counter = q.fullmove_counter /\ r.halfmove_clock = q.halfmove_clock
        /\ r.turn = q.turn /\ r.hash = q.hash
        /\ r.occupied_sqs = Occupancy(q.pieces, "white") \cup Occupancy(q.pieces, "black")
        /\ r.mailbox = [s \in Squares |-> PieceOn(q.pieces, s)]
        /\ r.en_passant_target = Target(q.en_passant_sq)
        /\ r.en_passant_sq \in {q.en_passant_sq, {}}
        /\ r.king_ban = Ban(r)
        /\ r.en_passant_sq # {} => ~Exposes(r, r.en_passant_target)
        /\ \E b : /\ b.turn = r.turn /\ b.pieces = r.pieces /\ b.occupied_sqs = r.occupied_sqs
                  /\ b.en_passant_sq = q.en_passant_sq
                  /\ ~Exposes(b, r.en_passant_target) => r.en_passant_sq = q.en_passant_sq
    BY <1>2, <1>3, UpdateInternalsIs
  <1>7. Keyed(r) /\ (Turns(r) <=> Turns(q))
    BY <1>4, <1>6 DEF Keyed, Turns
  <1>8. Derived(r)
    BY <1>6 DEF Derived
  <1> QED BY <1>1, <1>3, <1>4, <1>5, <1>6, <1>7, <1>8 DEF Raw

(* A placement has one piece a square.                                      *)
LEMMA PlacedDisjoint ==
  ASSUME NEW fen, OnBoard(fen)
  PROVE  Disjoint(Placed(fen))
  BY DEF Disjoint, Placed

(* UpdateMailbox names every piece.                                         *)
LEMMA MailedFromBoards ==
  ASSUME NEW r, r.pieces \in Boards, Disjoint(r.pieces),
         r.mailbox = [s \in Squares |-> PieceOn(r.pieces, s)]
  PROVE  Mailed(r)
  <1>1. r.mailbox \in [Squares -> PieceKinds \cup {NONE}]
    BY PieceOnIn
  <1>2. ASSUME NEW c \in Colors, NEW k \in PieceKinds, NEW s \in r.pieces[c][k] PROVE r.mailbox[s] = k
    BY PieceOnIs DEF Boards
  <1> QED BY <1>1, <1>2 DEF Mailed

(* The target of an en passant square on its rank.                          *)
LEMMA TargetBehind ==
  ASSUME NEW c \in Colors, NEW s \in OnRank(IF c = "white" THEN 5 ELSE 2)
  PROVE  s \in Squares /\ Target({s}) = {s - 8 * Forward(c)}
  <1>1. s \in Int /\ (IF c = "white" THEN s \in 40 .. 47 ELSE s \in 16 .. 23)
    BY DEF OnRank, Colors
  <1>2. s \in Squares
    BY <1>1 DEF Squares
  <1>3. Rank(s) = (IF c = "white" THEN 5 ELSE 2) /\ File(s) \in 0 .. 7
    BY <1>1 DEF Rank, File
  <1>4. Forward("white") = 1 /\ Forward("black") = -1 /\ "white" \in Colors /\ "black" \in Colors
    BY DEF Forward, Colors
  <1>5. Rank(s) + 1 \in 0 .. 7 /\ Rank(s) - 1 \in 0 .. 7
    BY <1>3
  <1>6. PushPawn("white", {s}) = {s + 8} /\ PushPawn("black", {s}) = {s - 8}
    <2>1. /\ PushPawn("white", {s}) = {s + 8 * Forward("white")}
          /\ PushPawn("black", {s}) = {s + 8 * Forward("black")}
      BY <1>2, <1>4, <1>5, PushOne
    <2> QED BY <1>1, <1>4, <2>1
  <1> QED BY <1>1, <1>2, <1>6 DEF Target, Forward, OnRank

(* A FEN that denotes a position is read as a good one.                     *)
LEMMA InitGood ==
  ASSUME NEW fen, Denotes(fen), NEW r, r = FromFen(fen)
  PROVE  Good(r)
  <1>1. PICK board : board = fen.placement
    OBVIOUS
  <1>2. /\ DOMAIN board \subseteq Squares /\ \A s \in DOMAIN board : board[s] \in PieceKinds \X Colors
        /\ fen.turn \in Colors /\ fen.halfmove \in Nat /\ fen.fullmove \in Nat
        /\ fen.rights \subseteq Rights
        /\ fen.en_passant \subseteq Squares \ DOMAIN board /\ ReadTurn(fen) = fen.turn
    BY <1>1 DEF Denotes
  <1>3. OnBoard(fen)
    BY <1>1, <1>2 DEF OnBoard
  <1>4. /\ Raw(r) /\ r.turn = fen.turn /\ (Turns(r) <=> r.turn = "black")
        /\ r.pieces = Placed(fen) /\ r.castling_rights = fen.rights
        /\ r.fullmove_counter = fen.fullmove
        /\ r.mailbox = [s \in Squares |-> PieceOn(r.pieces, s)] /\ Derived(r)
        /\ r.en_passant_sq \in {fen.en_passant, {}} /\ r.en_passant_target = Target(fen.en_passant)
    BY <1>2, <1>3, FromFenIs
  <1>5. \A c \in Colors, k \in PieceKinds : \A s : s \in r.pieces[c][k] <=> s \in DOMAIN board /\ board[s] = <<k, c>>
    BY <1>1, <1>4 DEF Placed
  <1>6. Disjoint(r.pieces)
    BY <1>3, <1>4, PlacedDisjoint
  <1>7. OneKing(r.pieces)
    <2> SUFFICES ASSUME NEW c \in Colors PROVE \E s \in Squares : r.pieces[c]["king"] = {s}
      BY DEF OneKing
    <2>1. PICK s \in Squares : \A t \in Squares : t \in DOMAIN board /\ board[t] = <<"king", c>> <=> t = s
      BY <1>1 DEF Denotes
    <2>2. \A t : t \in r.pieces[c]["king"] <=> t \in DOMAIN board /\ board[t] = <<"king", c>>
      BY <1>5 DEF PieceKinds
    <2>3. r.pieces[c]["king"] = {s}
      BY <1>2, <2>1, <2>2
    <2> QED BY <2>3
  <1>8. RightsAtHome(r)
    <2>1. ASSUME NEW c \in Colors, r.castling_rights \cap {KingSide(c), QueenSide(c)} # {}
          PROVE  KingHome(c) \in r.pieces[c]["king"]
      <3>1. KingHome(c) \in DOMAIN board /\ board[KingHome(c)] = <<"king", c>>
        BY <1>1, <1>4, <2>1 DEF Denotes
      <3> QED BY <1>5, <3>1 DEF PieceKinds
    <2> QED BY <1>2, <1>4, <2>1 DEF RightsAtHome
  <1>9. Mailed(r)
    BY <1>4, <1>6, MailedFromBoards DEF Raw
  <1>10. JustPassed(r)
    <2>1. CASE fen.en_passant = {}
      <3>1. Target({}) = {}
        BY DEF Target, PushPawn, Shift
      <3> QED BY <1>4, <2>1, <3>1 DEF JustPassed
    <2>2. ASSUME NEW s \in fen.en_passant PROVE JustPassed(r)
      <3>1. /\ fen.en_passant = {s} /\ s \in OnRank(IF fen.turn = "white" THEN 5 ELSE 2)
            /\ s - 8 * Forward(fen.turn) \in DOMAIN board
            /\ board[s - 8 * Forward(fen.turn)] = <<"pawn", OPP(fen.turn)>>
        BY <1>1 DEF Denotes
      <3>2. s \in Squares /\ Target({s}) = {s - 8 * Forward(fen.turn)}
        BY <1>2, <3>1, TargetBehind
      <3>3. s - 8 * Forward(fen.turn) \in Enemy(r, "pawn")
        BY <1>2, <1>4, <1>5, <3>1, OppIs DEF Enemy, PieceKinds
      <3>4. s \notin r.occupied_sqs
        BY <1>2, <1>4, <1>5, OccupiedSqs
      <3> QED BY <1>4, <3>1, <3>2, <3>3, <3>4 DEF JustPassed
    <2> QED BY <2>1, <2>2
  <1> QED BY <1>2, <1>4, <1>6, <1>7, <1>8, <1>9, <1>10 DEF Good

-----------------------------------------------------------------------------
(* What the position looked like after the i-th move of the stack.          *)
After(i) == IF i = Len(line) THEN Visible(pos) ELSE seen[i + 1]

(* The move was made, plausibly, in a good position that looked like before *)
(* and left state on history_, and led to what looked like after.           *)
Linked(m, before, state, after) ==
  \E p : /\ Good(p) /\ Plausible(p, m)
         /\ before = Visible(p) /\ state = State(p) /\ after = Visible(Make(p, m))

(* Every move on the stack is linked to the next.                           *)
Links == \A i \in 1 .. Len(line) : Linked(line[i], seen[i], history[i], After(i))

(* The three stacks are of one length.                                      *)
Stacks ==
  /\ line \in Seq(Moves) /\ (\E S : history \in Seq(S)) /\ (\E S : seen \in Seq(S))
  /\ Len(history) = Len(line) /\ Len(seen) = Len(line)

(* The inductive invariant: the position is good, and so was every position *)
(* below it on the stack.                                                   *)
IInv == Good(pos) /\ Stacks /\ Links

(* A sequence with one more element.                                        *)
LEMMA Pushed ==
  ASSUME NEW S, NEW s \in Seq(S), NEW x, NEW t, t = Append(s, x)
  PROVE  /\ t \in Seq(S \cup {x}) /\ Len(t) = Len(s) + 1 /\ t[Len(s) + 1] = x
         /\ \A i \in 1 .. Len(s) : t[i] = s[i]
  <1>1. s \in Seq(S \cup {x})
    OBVIOUS
  <1> QED BY <1>1

(* A sequence without its last element.                                     *)
LEMMA Popped ==
  ASSUME NEW S, NEW s \in Seq(S), s # <<>>, NEW t, t = Front(s)
  PROVE  /\ t \in Seq(S) /\ Len(t) = Len(s) - 1 /\ Len(s) \in Nat /\ Len(s) > 0
         /\ \A i \in 1 .. Len(t) : t[i] = s[i]
  <1>1. Len(s) \in Nat /\ Len(s) > 0
    OBVIOUS
  <1>2. PICK n : n = Len(s) - 1
    OBVIOUS
  <1>3. t = SubSeq(s, 1, n) /\ n \in Nat /\ n <= Len(s)
    BY <1>1, <1>2 DEF Front
  <1>4. t \in Seq(S) /\ Len(t) = n /\ \A i \in 1 .. n : t[i] = s[i]
    BY <1>1, <1>3
  <1> QED BY <1>1, <1>2, <1>4

(* The invariant holds of the positions games start from.                   *)
LEMMA InitInv == Init => IInv
  <1> SUFFICES ASSUME Init PROVE IInv
    OBVIOUS
  <1>1. Good(pos)
    BY GameAssumption, InitGood DEF Init
  <1>2. Stacks /\ Len(line) = 0
    BY DEF Init, Stacks
  <1> QED BY <1>1, <1>2 DEF IInv, Links

(* Make of a generated move keeps the invariant.                            *)
LEMMA MakeInv ==
  ASSUME IInv, NEW m \in GenerateMoves(pos), MakeMove(m)
  PROVE  IInv'
  <1>1. Good(pos) /\ Plausible(pos, m)
    BY Generated DEF IInv
  <1>2. Good(pos')
    BY <1>1, MakeGood DEF MakeMove
  <1>3. /\ line \in Seq(Moves) /\ Len(history) = Len(line) /\ Len(seen) = Len(line)
        /\ line' = Append(line, m) /\ history' = Append(history, State(pos))
        /\ seen' = Append(seen, Visible(pos)) /\ m \in Moves /\ Len(line) \in Nat
    BY <1>1 DEF IInv, Stacks, MakeMove, Plausible
  <1>4. PICK S : history \in Seq(S)
    BY DEF IInv, Stacks
  <1>5. PICK V : seen \in Seq(V)
    BY DEF IInv, Stacks
  <1>6. /\ line' \in Seq(Moves \cup {m}) /\ Len(line') = Len(line) + 1 /\ line'[Len(line) + 1] = m
        /\ \A i \in 1 .. Len(line) : line'[i] = line[i]
    BY <1>3, Pushed
  <1>7. /\ history' \in Seq(S \cup {State(pos)}) /\ Len(history') = Len(line) + 1
        /\ history'[Len(line) + 1] = State(pos)
        /\ \A i \in 1 .. Len(line) : history'[i] = history[i]
    BY <1>3, <1>4, Pushed
  <1>8. /\ seen' \in Seq(V \cup {Visible(pos)}) /\ Len(seen') = Len(line) + 1
        /\ seen'[Len(line) + 1] = Visible(pos)
        /\ \A i \in 1 .. Len(line) : seen'[i] = seen[i]
    BY <1>3, <1>5, Pushed
  <1>9. Stacks'
    <2>1. Moves \cup {m} = Moves
      BY <1>3
    <2> QED BY <1>6, <1>7, <1>8, <2>1 DEF Stacks
  <1>10. ASSUME NEW i \in 1 .. Len(line) PROVE Linked(line'[i], seen'[i], history'[i], After(i)')
    <2>1. Linked(line[i], seen[i], history[i], After(i))
      BY DEF IInv, Links
    <2>2. After(i)' = After(i)
      <3>1. CASE i = Len(line)
        <4>1. After(i) = Visible(pos) /\ After(i)' = seen'[Len(line) + 1]
          BY <1>3, <1>6, <3>1 DEF After
        <4> QED BY <1>8, <4>1
      <3>2. CASE i # Len(line)
        <4>1. After(i) = seen[i + 1] /\ After(i)' = seen'[i + 1] /\ i + 1 \in 1 .. Len(line)
          BY <1>3, <1>6, <3>2 DEF After
        <4> QED BY <1>8, <4>1
      <3> QED BY <3>1, <3>2
    <2> QED BY <1>6, <1>7, <1>8, <2>1, <2>2
  <1>11. ASSUME NEW i, i = Len(line) + 1 PROVE Linked(line'[i], seen'[i], history'[i], After(i)')
    <2>1. After(i)' = Visible(Make(pos, m))
      BY <1>6, <1>11 DEF After, MakeMove, Visible
    <2> QED BY <1>1, <1>6, <1>7, <1>8, <1>11, <2>1 DEF Linked
  <1>12. Links'
    <2> SUFFICES ASSUME NEW i \in 1 .. Len(line') PROVE Linked(line[i], seen[i], history[i], After(i))'
      BY DEF Links
    <2>1. i \in 1 .. Len(line) \/ i = Len(line) + 1
      BY <1>3, <1>6
    <2> QED BY <1>10, <1>11, <2>1
  <1> QED BY <1>2, <1>9, <1>12 DEF IInv

(* Undo of the last move keeps the invariant, and gives back what the move  *)
(* remembers.                                                               *)
LEMMA UndoInv ==
  ASSUME IInv, UndoMove
  PROVE  IInv' /\ Visible(pos') = seen[Len(line)] /\ Len(line') = Len(line) - 1
  <1>1. PICK n : n = Len(line)
    OBVIOUS
  <1>2. /\ line \in Seq(Moves) /\ line # <<>> /\ Len(history) = n /\ Len(seen) = n
        /\ pos' = Undo(pos, line[n], history[n])
        /\ line' = Front(line) /\ history' = Front(history) /\ seen' = Front(seen)
    BY <1>1 DEF IInv, Stacks, UndoMove
  <1>3. PICK S : history \in Seq(S)
    BY DEF IInv, Stacks
  <1>4. PICK V : seen \in Seq(V)
    BY DEF IInv, Stacks
  <1>5. /\ line' \in Seq(Moves) /\ Len(line') = n - 1 /\ n \in Nat /\ n > 0
        /\ \A i \in 1 .. n - 1 : line'[i] = line[i]
    BY <1>1, <1>2, Popped
  <1>6. history # <<>> /\ seen # <<>>
    BY <1>2, <1>5
  <1>7. /\ history' \in Seq(S) /\ Len(history') = n - 1
        /\ \A i \in 1 .. n - 1 : history'[i] = history[i]
    BY <1>2, <1>3, <1>6, Popped
  <1>8. /\ seen' \in Seq(V) /\ Len(seen') = n - 1
        /\ \A i \in 1 .. n - 1 : seen'[i] = seen[i]
    BY <1>2, <1>4, <1>6, Popped
  <1>9. Linked(line[n], seen[n], history[n], Visible(pos))
    <2>1. n \in 1 .. Len(line) /\ After(n) = Visible(pos)
      BY <1>1, <1>5 DEF After
    <2> QED BY <2>1 DEF IInv, Links
  <1>10. Good(pos') /\ Visible(pos') = seen[n]
    <2>1. PICK p : /\ Good(p) /\ Plausible(p, line[n]) /\ seen[n] = Visible(p) /\ history[n] = State(p)
                   /\ Visible(pos) = Visible(Make(p, line[n]))
      BY <1>9 DEF Linked
    <2>2. Good(pos)
      BY DEF IInv
    <2>3. pos' = Undo(pos, line[n], State(p))
      BY <1>2, <2>1
    <2> QED BY <2>1, <2>2, <2>3, UndoGood
  <1>11. Stacks'
    BY <1>5, <1>7, <1>8 DEF Stacks
  <1>12. Links'
    <2> SUFFICES ASSUME NEW i \in 1 .. n - 1 PROVE Linked(line[i], seen[i], history[i], After(i))'
      BY <1>5 DEF Links
    <2>1. Linked(line[i], seen[i], history[i], After(i))
      BY <1>1, <1>5 DEF IInv, Links
    <2>2. After(i) = seen[i + 1]
      BY <1>1, <1>5 DEF After
    <2>3. After(i)' = After(i)
      <3>1. CASE i = n - 1
        <4>1. After(i)' = Visible(pos)'
          BY <1>5, <3>1 DEF After
        <4> QED BY <1>5, <1>10, <2>2, <3>1, <4>1
      <3>2. CASE i # n - 1
        <4>1. After(i)' = seen'[i + 1] /\ i + 1 \in 1 .. n - 1
          BY <1>5, <3>2 DEF After
        <4> QED BY <1>8, <2>2, <4>1
      <3> QED BY <3>1, <3>2
    <2> QED BY <1>5, <1>7, <1>8, <2>1, <2>3
  <1> QED BY <1>1, <1>5, <1>10, <1>11, <1>12 DEF IInv

(* Every step keeps the invariant.                                          *)
LEMMA NextInv == IInv /\ [Next]_vars => IInv'
  <1> SUFFICES ASSUME IInv, [Next]_vars PROVE IInv'
    OBVIOUS
  <1>1. CASE UndoMove
    BY <1>1, UndoInv
  <1>2. ASSUME NEW m \in GenerateMoves(pos), MakeMove(m) PROVE IInv'
    BY <1>2, MakeInv
  <1>3. CASE UNCHANGED vars
    BY <1>3 DEF vars, IInv, Stacks, Links, After, Visible
  <1> QED BY <1>1, <1>2, <1>3 DEF Next

(* In every game of Make and Undo, of whatever length and from whatever     *)
(* position a FEN denotes, the position stays good: bitboards disjoint, one *)
(* king a side, and mailbox, occupied and banned squares, en passant        *)
(* target, rights and hash in step with them (Position::Make,               *)
(* Position::Undo).                                                         *)
THEOREM Inductive == Spec => []IInv
  BY InitInv, NextInv, PTL DEF Spec

(* Position::Undo restores everything the move changed - bitboards, rights, *)
(* clocks, en passant, hash, and the mailbox on every occupied square -     *)
(* however deep the stack is.                                               *)
THEOREM UndoIsExact == Spec => UndoRestores
  <1>1. ASSUME IInv, [Next]_vars
        PROVE  [Len(line') < Len(line) => Visible(pos') = seen[Len(line)]]_vars
    <2>1. CASE UndoMove
      BY <1>1, <2>1, UndoInv
    <2>2. ASSUME NEW m \in GenerateMoves(pos), MakeMove(m) PROVE Len(line') = Len(line) + 1 /\ Len(line) \in Nat
      BY <1>1, <2>2 DEF MakeMove, IInv, Stacks
    <2>3. CASE UNCHANGED vars
      BY <2>3
    <2> QED BY <1>1, <2>1, <2>2, <2>3 DEF Next
  <1> QED BY <1>1, Inductive, PTL DEF Spec, UndoRestores

-----------------------------------------------------------------------------
(* The pieces on the board, one by one.                                     *)
Standing(B) == { x \in Colors \X PieceKinds \X Squares : x[3] \in B[x[1]][x[2]] }

(* As many squares are occupied as pieces stand on the board.               *)
LEMMA OneEach ==
  ASSUME NEW p, Good(p)
  PROVE  Cardinality(p.occupied_sqs) = Cardinality(Standing(p.pieces))
  <1>1. PICK S, T : S = p.occupied_sqs /\ T = Standing(p.pieces)
    OBVIOUS
  <1>2. /\ \A s : s \in S <=> \E c \in Colors, k \in PieceKinds : s \in p.pieces[c][k]
        /\ \A c \in Colors, k \in PieceKinds : p.pieces[c][k] \subseteq Squares
    BY <1>1, OccupiedSqs DEF Good, Raw, Boards
  <1>3. \A x : x \in T <=> \E c \in Colors, k \in PieceKinds : \E s \in p.pieces[c][k] : x = <<c, k, s>>
    BY <1>1, <1>2 DEF Standing
  <1>4. ASSUME NEW s \in S PROVE \E x \in T : x[3] = s
    <2>1. PICK c \in Colors, k \in PieceKinds : s \in p.pieces[c][k]
      BY <1>2
    <2>2. <<c, k, s>> \in T /\ <<c, k, s>>[3] = s
      BY <1>3, <2>1
    <2> QED BY <2>2
  <1>5. \A x, y \in T : x[3] = y[3] => x = y
    BY <1>2, <1>3 DEF Good, Disjoint
  <1>6. \A x \in T : x[3] \in S
    BY <1>2, <1>3
  <1>7. PICK F : F = [s \in S |-> CHOOSE x \in T : x[3] = s]
    OBVIOUS
  <1>8. \A s \in S : F[s] \in T /\ F[s][3] = s
    BY <1>4, <1>7
  <1>9. F \in [S -> T] /\ \A x \in T : F[x[3]] = x
    BY <1>5, <1>6, <1>7, <1>8
  <1>10. F \in Injection(S, T)
    BY <1>8, <1>9 DEF Injection, IsInjective
  <1>11. F \in Surjection(S, T)
    BY <1>6, <1>9 DEF Surjection
  <1>12. ExistsBijection(S, T)
    BY <1>10, <1>11 DEF Bijection, ExistsBijection
  <1>13. IsFiniteSet(S)
    <2>1. S \in SUBSET Squares
      BY <1>2
    <2>2. IsFiniteSet(Squares)
      <3>1. IsFiniteSet(0 .. 63)
        BY 0 \in Int, 63 \in Int, FS_Interval, Zenon
      <3> QED BY <3>1 DEF Squares
    <2> QED BY <2>1, <2>2, FS_Subset
  <1> QED BY <1>1, <1>12, <1>13, FS_Bijection

(* The bitboards stay disjoint, with one king a side, and what is derived   *)
(* from them agrees with them.                                              *)
THEOREM TypeCorrect == Spec => []TypeOK
  <1>1. ASSUME IInv PROVE TypeOK
    <2>1. Good(pos) /\ line \in Seq(Moves) /\ Len(history) = Len(line) /\ Len(seen) = Len(line)
      BY <1>1 DEF IInv, Stacks
    <2>2. ASSUME NEW c \in Colors PROVE Cardinality(pos.pieces[c]["king"]) = 1
      BY <2>1, FS_Singleton DEF Good, OneKing
    <2>3. Cardinality(pos.occupied_sqs) = Cardinality(Standing(pos.pieces))
      BY <2>1, OneEach
    <2>4. ASSUME NEW c \in Colors, NEW k \in PieceKinds, NEW s \in pos.pieces[c][k]
          PROVE  s \in pos.occupied_sqs /\ pos.mailbox[s] = k
      BY <2>1, OccupiedSqs DEF Good, Mailed
    <2>5. pos.en_passant_target \subseteq Enemy(pos, "pawn")
      BY <2>1 DEF Good, JustPassed
    <2>6. pos.turn \in Colors
      BY <2>1 DEF Good
    <2> QED BY <2>1, <2>2, <2>3, <2>4, <2>5, <2>6 DEF TypeOK, Standing
  <1> QED BY <1>1, Inductive, PTL

-----------------------------------------------------------------------------
(* A king attacks the squares one step away.                                *)
LEMMA KingNear ==
  ASSUME NEW s \in Squares, NEW t \in KingAttacks({s})
  PROVE  \E x \in -1 .. 1, y \in -1 .. 1 : t = s + 8 * y + x
  <1>1. PICK d \in KingSteps : t \in Shift({s}, d[1], d[2])
    BY DEF KingAttacks, Steps
  <1>2. d[1] \in -1 .. 1 /\ d[2] \in -1 .. 1
    BY <1>1 DEF KingSteps
  <1>3. t = s + 8 * d[2] + d[1]
    BY <1>1 DEF Shift
  <1> QED BY <1>2, <1>3

(* No step of a king from e1 or e8 leads to a square it castles to.         *)
LEMMA CastlesFar ==
  ASSUME NEW s \in {4, 60}, NEW t \in KingAttacks({s})
  PROVE  t \notin {2, 58, 6, 62}
  <1>1. s \in Squares
    BY DEF Squares
  <1>2. PICK x \in -1 .. 1, y \in -1 .. 1 : t = s + 8 * y + x
    BY <1>1, KingNear
  <1> QED BY <1>2

(* The flags DeduceMove sets.                                               *)
DeducedFlags(F, p, from, to, piece) ==
  \A f : f \in F <=>
    /\ f \in {"CAPTURE", "EN_PASSANT", "CASTLE_KING_SIDE", "CASTLE_QUEEN_SIDE"}
    /\ \/ f = "CAPTURE" /\ p.mailbox[to] # NONE
       \/ f = "EN_PASSANT" /\ to \in p.en_passant_sq
       \/ f = "CASTLE_QUEEN_SIDE" /\ piece = "king" /\ from \in {4, 60} /\ to \in {2, 58}
       \/ f = "CASTLE_KING_SIDE" /\ piece = "king" /\ from \in {4, 60} /\ to \in {6, 62}

(* The move DeduceMove builds.                                              *)
LEMMA DeduceIs ==
  ASSUME NEW p, NEW from, NEW to, NEW F, DeducedFlags(F, p, from, to, p.mailbox[from])
  PROVE  DeduceMove(p, from, to) =
           [from |-> from, to |-> to, piece |-> p.mailbox[from], captured |-> p.mailbox[to],
            promoted |-> NONE, flags |-> F]
  <1> DEFINE G == { f \in {"CAPTURE", "EN_PASSANT", "CASTLE_KING_SIDE", "CASTLE_QUEEN_SIDE"} :
                      \/ f = "CAPTURE" /\ p.mailbox[to] # NONE
                      \/ f = "EN_PASSANT" /\ to \in p.en_passant_sq
                      \/ f = "CASTLE_QUEEN_SIDE" /\ (p.mailbox[from] = "king" /\ from \in {4, 60})
                         /\ to \in {2, 58}
                      \/ f = "CASTLE_KING_SIDE" /\ (p.mailbox[from] = "king" /\ from \in {4, 60})
                         /\ to \in {6, 62} }
  <1>2. G = F
    BY DEF DeducedFlags
  <1>3. DeduceMove(p, from, to) =
          [Quiet(from, to, p.mailbox[from]) EXCEPT !.captured = p.mailbox[to], !.flags = G]
    BY Zenon DEF DeduceMove
  <1> HIDE DEF G
  <1> QED BY <1>2, <1>3 DEF Quiet

(* From the squares of a plausible move in a good position DeduceMove       *)
(* rebuilds the move, unless it promotes, goes to a stale square of the     *)
(* mailbox, or is a piece's move to the en passant square.                  *)
LEMMA DeduceExact ==
  ASSUME NEW p, Good(p), NEW m, Plausible(p, m), StepsOrCastles(m), m.promoted = NONE,
         m.to \in p.en_passant_sq => m.piece = "pawn",
         m.to \notin p.occupied_sqs => p.mailbox[m.to] = NONE
  PROVE  DeduceMove(p, m.from, m.to) = m
  <1>1. /\ m.from \in Squares /\ m.to \in Squares /\ m.piece \in PieceKinds
        /\ m.flags \in SUBSET {"CAPTURE", "EN_PASSANT", "CASTLE_KING_SIDE",
                               "CASTLE_QUEEN_SIDE", "PROMOTION"}
        /\ m = [from |-> m.from, to |-> m.to, piece |-> m.piece, captured |-> m.captured,
                promoted |-> m.promoted, flags |-> m.flags]
    BY MoveIs DEF Plausible
  <1>t. p.turn \in Colors /\ OPP(p.turn) \in Colors
    BY OppIs DEF Good
  <1>2. p.mailbox[m.from] = m.piece
    BY <1>1, <1>t DEF Plausible, Own, Good, Mailed
  <1>3. p.mailbox[m.to] = m.captured /\ ("CAPTURE" \in m.flags <=> m.captured # NONE)
    <2>1. CASE Is(m, "CAPTURE")
      <3>1. m.captured \in PieceKinds /\ m.to \in p.pieces[OPP(p.turn)][m.captured]
        BY <2>1 DEF Plausible, Takes, Enemy
      <3>2. p.mailbox[m.to] = m.captured
        BY <1>t, <3>1 DEF Good, Mailed
      <3> QED BY <2>1, <3>1, <3>2 DEF Is, PieceKinds, NONE
    <2>2. CASE ~Is(m, "CAPTURE")
      BY <2>2 DEF Plausible, Takes, Is
    <2> QED BY <2>1, <2>2
  <1>4. "PROMOTION" \notin m.flags
    BY DEF Plausible, Promotes, Is, Promotable, NONE
  <1>5. "EN_PASSANT" \in m.flags <=> m.to \in p.en_passant_sq
    BY DEF Plausible, Passes, Is
  <1>6. PICK home : home = KingHome(p.turn)
    OBVIOUS
  <1>7. home \in {4, 60}
    BY <1>t, <1>6, Corners
  <1>8. /\ Is(m, "CASTLE_KING_SIDE") =>
             m.piece = "king" /\ m.flags = {"CASTLE_KING_SIDE"} /\ m.from = home /\ m.to = home + 2
        /\ Is(m, "CASTLE_QUEEN_SIDE") =>
             m.piece = "king" /\ m.flags = {"CASTLE_QUEEN_SIDE"} /\ m.from = home /\ m.to = home - 2
    BY <1>6 DEF Plausible, CastlesAllowed, CastlesTo
  <1>9. ASSUME m.piece = "king", m.from \in {4, 60}, m.to \in {2, 58, 6, 62}
        PROVE  Is(m, "CASTLE_KING_SIDE") \/ Is(m, "CASTLE_QUEEN_SIDE")
    BY <1>9, CastlesFar DEF StepsOrCastles
  <1>10. "CASTLE_QUEEN_SIDE" \in m.flags <=> m.piece = "king" /\ m.from \in {4, 60} /\ m.to \in {2, 58}
    BY <1>7, <1>8, <1>9 DEF Is
  <1>11. "CASTLE_KING_SIDE" \in m.flags <=> m.piece = "king" /\ m.from \in {4, 60} /\ m.to \in {6, 62}
    BY <1>7, <1>8, <1>9 DEF Is
  <1>12. DeducedFlags(m.flags, p, m.from, m.to, p.mailbox[m.from])
    BY <1>1, <1>2, <1>3, <1>4, <1>5, <1>10, <1>11 DEF DeducedFlags
  <1>13. PICK from, to, F : from = m.from /\ to = m.to /\ F = m.flags
    OBVIOUS
  <1>14. DeduceMove(p, from, to) =
           [from |-> from, to |-> to, piece |-> p.mailbox[from], captured |-> p.mailbox[to],
            promoted |-> NONE, flags |-> F]
    <2>1. DeducedFlags(F, p, from, to, p.mailbox[from])
      BY <1>12, <1>13
    <2> QED BY <2>1, DeduceIs, Zenon
  <1> QED BY <1>1, <1>2, <1>3, <1>13, <1>14

(* DeduceMove rebuilds every legal move of every position a game reaches    *)
(* from its two squares, but for the exceptions Deduced names (utils.cpp).  *)
THEOREM Deduces == Spec => []Deduced
  <1>1. ASSUME IInv PROVE Deduced
    <2>1. Good(pos)
      BY <1>1 DEF IInv
    <2>2. ASSUME NEW m \in GenerateMoves(pos), m.promoted = NONE,
                 m.to \in pos.en_passant_sq => m.piece = "pawn", ~Stale(m.to)
          PROVE  DeduceMove(pos, m.from, m.to) = m
      <3>1. Plausible(pos, m) /\ StepsOrCastles(m)
        BY <2>1, Generated
      <3>2. m.to \notin pos.occupied_sqs => pos.mailbox[m.to] = NONE
        BY <2>2 DEF Stale
      <3> QED BY <2>1, <2>2, <3>1, <3>2, DeduceExact
    <2> QED BY <2>2 DEF Deduced
  <1> QED BY <1>1, Inductive, PTL

-----------------------------------------------------------------------------
(* A key for a piece or for the side to move.                               *)
Described(x) == x[1] \in {"piece", "color"}

(* The fields of what a FEN tells.                                          *)
LEMMA ToldIs ==
  ASSUME NEW p, Record(p), NEW M, M = [s \in p.occupied_sqs |-> p.mailbox[s]],
         NEW H, H = { x \in p.hash : Described(x) },
         NEW T, T = IF p.en_passant_sq = {} THEN {} ELSE p.en_passant_target
  PROVE  Told(p) = [turn |-> p.turn, pieces |-> p.pieces, occupied_sqs |-> p.occupied_sqs,
                    king_ban |-> p.king_ban, en_passant_sq |-> p.en_passant_sq,
                    en_passant_target |-> T, castling_rights |-> p.castling_rights,
                    halfmove_clock |-> p.halfmove_clock, fullmove_counter |-> p.fullmove_counter,
                    mailbox |-> M, hash |-> H]
  <1>1. PICK v : v = [p EXCEPT !.mailbox = M]
    OBVIOUS
  <1>2. v = Visible(p)
    BY <1>1 DEF Visible
  <1>3. v.hash = p.hash /\ v.en_passant_target = p.en_passant_target
    BY <1>1 DEF Record
  <1>4. Told(p) = [v EXCEPT !.hash = H, !.en_passant_target = T]
    <2>1. H = { x \in v.hash : x[1] \in {"piece", "color"} }
      BY <1>3 DEF Described
    <2>2. Told(p) = [v EXCEPT !.hash = { x \in @ : x[1] \in {"piece", "color"} },
                              !.en_passant_target = IF p.en_passant_sq = {} THEN {} ELSE @]
      BY <1>2, Zenon DEF Told
    <2> QED BY <1>1, <1>3, <2>1, <2>2 DEF Record
  <1> QED BY <1>1, <1>4 DEF Record

(* Positions with the same boards and turn have the same keys for them.     *)
LEMMA SameKeys ==
  ASSUME NEW p, NEW q, Keyed(p), Keyed(q), p.pieces = q.pieces, Turns(p) <=> Turns(q)
  PROVE  { x \in p.hash : Described(x) } = { x \in q.hash : Described(x) }
  <1>1. \A x : IsPieceKey(x) \/ x = ColorKey => (x \in p.hash <=> x \in q.hash)
    BY DEF Keyed, Turns, IsPieceKey
  <1>2. \A x : x \in p.hash /\ Described(x) => IsPieceKey(x) \/ x = ColorKey
    BY DEF Keyed, Described
  <1>3. \A x : x \in q.hash /\ Described(x) => IsPieceKey(x) \/ x = ColorKey
    BY DEF Keyed, Described
  <1> QED BY <1>1, <1>2, <1>3

(* The FEN ToFen prints describes the boards, and reads as the side to move *)
(* unless the en passant square is on the b file with white to move.        *)
LEMMA ToFenPlaces ==
  ASSUME NEW p, Good(p), p.turn = "white" => \A s \in p.en_passant_sq : File(s) # 1,
         NEW fen, fen = ToFen(p)
  PROVE  /\ OnBoard(fen) /\ ReadTurn(fen) = p.turn /\ Placed(fen) = p.pieces
         /\ fen.rights = p.castling_rights /\ fen.en_passant = p.en_passant_sq
         /\ fen.halfmove = p.halfmove_clock /\ fen.fullmove = p.fullmove_counter
  <1>1. PICK board : board = [s \in p.occupied_sqs |->
               <<p.mailbox[s], IF s \in p.pieces["white"][p.mailbox[s]] THEN "white" ELSE "black">>]
    OBVIOUS
  <1>2. /\ fen.placement = board /\ fen.turn = p.turn /\ fen.rights = p.castling_rights
        /\ fen.en_passant = p.en_passant_sq
        /\ fen.halfmove = p.halfmove_clock /\ fen.fullmove = p.fullmove_counter
    BY <1>1 DEF ToFen
  <1>3. p.turn \in Colors /\ p.pieces \in Boards
    BY DEF Good, Raw
  <1>4. ReadTurn(fen) = p.turn
    BY <1>2, <1>3 DEF ReadTurn, Colors
  <1>5. /\ \A s : s \in p.occupied_sqs <=> \E c \in Colors, k \in PieceKinds : s \in p.pieces[c][k]
        /\ \A c \in Colors, k \in PieceKinds : \A s \in p.pieces[c][k] : s \in Squares /\ p.mailbox[s] = k
        /\ \A k \in PieceKinds : \A s : ~(s \in p.pieces["white"][k] /\ s \in p.pieces["black"][k])
    <2>1. \A c \in Colors, k \in PieceKinds : \A s \in p.pieces[c][k] : s \in Squares /\ p.mailbox[s] = k
      BY <1>3 DEF Good, Mailed, Boards
    <2>2. \A k \in PieceKinds : \A s : ~(s \in p.pieces["white"][k] /\ s \in p.pieces["black"][k])
      BY <2>1 DEF Good, Disjoint, Colors
    <2> QED BY <2>1, <2>2, OccupiedSqs DEF Good
  <1>6. DOMAIN board = p.occupied_sqs /\ p.occupied_sqs \subseteq Squares
    BY <1>1, <1>5
  <1>7. ASSUME NEW c \in Colors, NEW k \in PieceKinds, NEW s \in p.pieces[c][k] PROVE board[s] = <<k, c>>
    <2>1. s \in p.occupied_sqs /\ p.mailbox[s] = k
      BY <1>5
    <2>2. (IF s \in p.pieces["white"][k] THEN "white" ELSE "black") = c
      BY <1>5 DEF Colors
    <2> QED BY <1>1, <2>1, <2>2
  <1>8. ASSUME NEW s \in p.occupied_sqs
        PROVE  \E c \in Colors, k \in PieceKinds : s \in p.pieces[c][k] /\ board[s] = <<k, c>>
    BY <1>5, <1>7
  <1>9. OnBoard(fen)
    BY <1>2, <1>3, <1>4, <1>6, <1>8 DEF OnBoard
  <1>10. ASSUME NEW c \in Colors, NEW k \in PieceKinds
         PROVE  { s \in DOMAIN board : board[s] = <<k, c>> } = p.pieces[c][k]
    <2>1. \A s \in p.pieces[c][k] : s \in DOMAIN board /\ board[s] = <<k, c>>
      BY <1>5, <1>6, <1>7
    <2>2. ASSUME NEW s \in DOMAIN board, board[s] = <<k, c>> PROVE s \in p.pieces[c][k]
      BY <1>6, <1>8, <2>2
    <2> QED BY <2>1, <2>2
  <1>11. Placed(fen) = p.pieces
    <2>1. Placed(fen) = [c \in Colors |-> [k \in PieceKinds |-> p.pieces[c][k]]]
      BY <1>2, <1>10 DEF Placed
    <2> QED BY <1>3, <2>1 DEF Boards
  <1> QED BY <1>2, <1>4, <1>9, <1>11

(* A good position read back from its own FEN is the same position.         *)
LEMMA RoundTrip ==
  ASSUME NEW p, Good(p), p.turn = "white" => \A s \in p.en_passant_sq : File(s) # 1
  PROVE  Told(FromFen(ToFen(p))) = Told(p)
  <1>1. PICK fen, r : fen = ToFen(p) /\ r = FromFen(fen)
    OBVIOUS
  <1>2. /\ OnBoard(fen) /\ ReadTurn(fen) = p.turn /\ Placed(fen) = p.pieces
        /\ fen.rights = p.castling_rights /\ fen.en_passant = p.en_passant_sq
        /\ fen.halfmove = p.halfmove_clock /\ fen.fullmove = p.fullmove_counter
    BY <1>1, ToFenPlaces
  <1>3. /\ Raw(r) /\ r.turn = p.turn /\ (Turns(r) <=> r.turn = "black")
        /\ r.pieces = p.pieces /\ r.castling_rights = p.castling_rights
        /\ r.halfmove_clock = p.halfmove_clock /\ r.fullmove_counter = p.fullmove_counter
        /\ r.mailbox = [s \in Squares |-> PieceOn(r.pieces, s)] /\ Derived(r)
        /\ r.en_passant_sq \in {p.en_passant_sq, {}} /\ r.en_passant_target = Target(p.en_passant_sq)
        /\ \E b : /\ b.turn = p.turn /\ b.pieces = p.pieces /\ b.occupied_sqs = r.occupied_sqs
                  /\ b.en_passant_sq = p.en_passant_sq
                  /\ ~Exposes(b, r.en_passant_target) => r.en_passant_sq = p.en_passant_sq
    BY <1>1, <1>2, FromFenIs
  <1>4. r.occupied_sqs = p.occupied_sqs
    BY <1>3 DEF Good, Derived
  <1>5. r.king_ban = p.king_ban
    <2>1. Record(p) /\ Record(r) /\ p.king_ban = Ban(p) /\ r.king_ban = Ban(r)
      BY <1>3 DEF Good, Raw, Derived
    <2> QED BY <1>3, <1>4, <2>1, BanIs
  <1>6. r.en_passant_sq = p.en_passant_sq
    <2>1. CASE p.en_passant_sq = {}
      BY <1>3, <2>1
    <2>2. CASE p.en_passant_sq # {}
      <3>1. ~Exposes(p, r.en_passant_target)
        BY <1>3, <2>2 DEF Good, Derived
      <3>t. PICK t : t = r.en_passant_target
        OBVIOUS
      <3>2. PICK b : /\ b.turn = p.turn /\ b.pieces = p.pieces /\ b.occupied_sqs = r.occupied_sqs
                     /\ b.en_passant_sq = p.en_passant_sq
                     /\ ~Exposes(b, r.en_passant_target) => r.en_passant_sq = p.en_passant_sq
        BY <1>3, Zenon
      <3>3. ~Exposes(b, t)
        BY <1>4, <3>t, <3>1, <3>2, ExposesAlike
      <3> QED BY <3>t, <3>2, <3>3
    <2> QED BY <2>1, <2>2
  <1>7. PICK T : T = IF p.en_passant_sq = {} THEN {} ELSE p.en_passant_target
    OBVIOUS
  <1>8. T = IF r.en_passant_sq = {} THEN {} ELSE r.en_passant_target
    BY <1>3, <1>6, <1>7 DEF Good, Derived
  <1>9. PICK M : M = [s \in p.occupied_sqs |-> p.mailbox[s]]
    OBVIOUS
  <1>10. M = [s \in r.occupied_sqs |-> r.mailbox[s]]
    <2>1. ASSUME NEW s \in p.occupied_sqs PROVE r.mailbox[s] = p.mailbox[s]
      <3>1. PICK c \in Colors, k \in PieceKinds : s \in p.pieces[c][k]
        BY OccupiedSqs DEF Good
      <3>2. r.mailbox[s] = k
        <4>1. Mailed(r)
          BY <1>3, MailedFromBoards DEF Raw, Good
        <4> QED BY <1>3, <3>1, <4>1 DEF Mailed
      <3>3. p.mailbox[s] = k
        BY <3>1 DEF Good, Mailed
      <3> QED BY <3>2, <3>3
    <2> QED BY <1>4, <1>9, <2>1
  <1>11. PICK H : H = { x \in p.hash : Described(x) }
    OBVIOUS
  <1>12. H = { x \in r.hash : Described(x) }
    <2>1. Keyed(p) /\ Keyed(r) /\ (Turns(p) <=> Turns(r))
      BY <1>3 DEF Good, Raw
    <2> QED BY <1>3, <1>11, <2>1, SameKeys
  <1>13. Record(p) /\ Record(r)
    BY <1>3 DEF Good, Raw
  <1>14. Told(p) = [turn |-> p.turn, pieces |-> p.pieces, occupied_sqs |-> p.occupied_sqs,
                    king_ban |-> p.king_ban, en_passant_sq |-> p.en_passant_sq,
                    en_passant_target |-> T, castling_rights |-> p.castling_rights,
                    halfmove_clock |-> p.halfmove_clock, fullmove_counter |-> p.fullmove_counter,
                    mailbox |-> M, hash |-> H]
    BY <1>7, <1>9, <1>11, <1>13, ToldIs
  <1>15. Told(r) = [turn |-> r.turn, pieces |-> r.pieces, occupied_sqs |-> r.occupied_sqs,
                    king_ban |-> r.king_ban, en_passant_sq |-> r.en_passant_sq,
                    en_passant_target |-> T, castling_rights |-> r.castling_rights,
                    halfmove_clock |-> r.halfmove_clock, fullmove_counter |-> r.fullmove_counter,
                    mailbox |-> M, hash |-> H]
    BY <1>8, <1>10, <1>12, <1>13, ToldIs
  <1> QED BY <1>1, <1>3, <1>4, <1>5, <1>6, <1>14, <1>15

(* In every position a game reaches, what Make and Undo keep incrementally  *)
(* is what ApplyFen computes from nothing of the FEN of the position:       *)
(* occupied and banned squares, the en passant square, the mailbox, and the *)
(* hash of pieces and side (fen.cpp, hash.cpp).                             *)
THEOREM RoundTrips == Spec => []FenRoundTrips
  <1>1. ASSUME IInv PROVE FenRoundTrips
    <2>1. Good(pos)
      BY <1>1 DEF IInv
    <2> QED BY <2>1, RoundTrip DEF FenRoundTrips, PrintsB
  <1> QED BY <1>1, Inductive, PTL

=============================================================================
