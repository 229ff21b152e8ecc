---------------------------- MODULE LegalityProofs ----------------------------
(***************************************************************************)
(* GenerateMoves returns exactly the moves the rules of chess allow, in     *)
(* every position of every game from every lawful start (move_gen.cpp,      *)
(* bit_board.cpp, position.cpp).                                            *)
(*                                                                         *)
(* The argument is about one position first, of any pieces on any squares.  *)
(* Lines and steps are turned into ranks and files (Strictly, Stepping,     *)
(* ShiftIs); attacks into Hits, a leap or a line with nothing between.  A   *)
(* king is safe after a move just when the move leads into CheckMask and    *)
(* leaves no pin (MaskIs, SafeSplits, FreeTo), which is what the pin masks  *)
(* test (PinFits, LinePinFits), and the king's own steps avoid king_ban     *)
(* (BannedIs).  From these, list by list:                                   *)
(*                                                                         *)
(*   OfficersExact, KingExact, PawnsExact, EnPassantExact, CastleExact      *)
(*   MovesExact  the whole list, in a good and Lawful position              *)
(*                                                                         *)
(* Then about games: Make of a listed move keeps a position Lawful          *)
(* (MakeLawful), with the en passant square (MakeSettled) and the rights    *)
(* (RightsStep) of the rules; LInv says so of every position on the stack.  *)
(***************************************************************************)
EXTENDS GameProofs

-----------------------------------------------------------------------------
(* Lines in ranks and files: (ra, fa) and (rb, fb) are of one file or rank, *)
(* or of one diagonal, and (rx, fx) is strictly between them.               *)
Mid(u, v, w) == (u < w /\ w < v) \/ (v < w /\ w < u)
Straight(ra, fa, rb, fb) == (ra = rb /\ fa # fb) \/ (fa = fb /\ ra # rb)
Diagonal(ra, fa, rb, fb) == ra # rb /\ (ra - fa = rb - fb \/ ra + fa = rb + fb)
Strictly(ra, fa, rb, fb, rx, fx) ==
  \/ ra = rb /\ rx = ra /\ Mid(fa, fb, fx)
  \/ fa = fb /\ fx = fa /\ Mid(ra, rb, rx)
  \/ ra - fa = rb - fb /\ rx - fx = ra - fa /\ Mid(ra, rb, rx)
  \/ ra + fa = rb + fb /\ rx + fx = ra + fa /\ Mid(ra, rb, rx)

(* Squares with the same rank and file are the same.                        *)
LEMMA SameSquare ==
  ASSUME NEW s \in Squares, NEW t \in Squares, Rank(s) = Rank(t), File(s) = File(t)
  PROVE  s = t
  BY SquareIs

(* Lines by ranks and files.                                                *)
LEMMA LineIs ==
  ASSUME NEW a \in Squares, NEW b \in Squares
  PROVE  /\ RookLine(a, b) <=> Straight(Rank(a), File(a), Rank(b), File(b))
         /\ BishopLine(a, b) <=> Diagonal(Rank(a), File(a), Rank(b), File(b))
  <1>1. PICK ra, fa, rb, fb : ra = Rank(a) /\ fa = File(a) /\ rb = Rank(b) /\ fb = File(b)
    OBVIOUS
  <1>2. ra \in 0 .. 7 /\ fa \in 0 .. 7 /\ rb \in 0 .. 7 /\ fb \in 0 .. 7
    BY <1>1, SquareIs
  <1>3. a = b <=> ra = rb /\ fa = fb
    BY <1>1, SameSquare
  <1>4. RookLine(a, b) <=> a # b /\ (fa = fb \/ ra = rb)
    BY <1>1 DEF RookLine
  <1>5. BishopLine(a, b) <=> a # b /\ Abs(fa - fb) = Abs(ra - rb)
    BY <1>1 DEF BishopLine
  <1>6. Abs(fa - fb) = Abs(ra - rb) <=> (ra - fa = rb - fb \/ ra + fa = rb + fb)
    BY <1>2 DEF Abs
  <1>7. RookLine(a, b) <=> Straight(ra, fa, rb, fb)
    BY <1>3, <1>4 DEF Straight
  <1>8. BishopLine(a, b) <=> Diagonal(ra, fa, rb, fb)
    BY <1>2, <1>3, <1>5, <1>6 DEF Diagonal
  <1> QED BY <1>1, <1>7, <1>8

(* The k-th square from (r, f) in a direction.                              *)
LEMMA Walked ==
  ASSUME NEW r \in 0 .. 7, NEW f \in 0 .. 7, NEW sr \in {-1, 0, 1}, NEW sf \in {-1, 0, 1}, NEW k \in 0 .. 7,
         NEW x, x = 8 * r + f + k * (8 * sr + sf), r + k * sr \in 0 .. 7, f + k * sf \in 0 .. 7
  PROVE  x \in Squares /\ Rank(x) = r + k * sr /\ File(x) = f + k * sf
  <1>1. PICK R, F : R = r + k * sr /\ F = f + k * sf
    OBVIOUS
  <1>2. x = 8 * R + F
    <2>1. CASE sr = -1
      BY <1>1, <2>1
    <2>2. CASE sr = 0
      BY <1>1, <2>2
    <2>3. CASE sr = 1
      BY <1>1, <2>3
    <2> QED BY <2>1, <2>2, <2>3
  <1> QED BY <1>1, <1>2, SquareAt

(* The squares k steps on from a towards b, for k less than the distance n, *)
(* are those strictly between.                                              *)
Stepping(ra, fa, rb, fb, sr, sf, n) ==
  /\ sr \in {-1, 0, 1} /\ sf \in {-1, 0, 1} /\ n \in 1 .. 7
  /\ \A k \in 1 .. n - 1 :
       /\ ra + k * sr \in 0 .. 7 /\ fa + k * sf \in 0 .. 7
       /\ Strictly(ra, fa, rb, fb, ra + k * sr, fa + k * sf)
  /\ \A rx \in 0 .. 7, fx \in 0 .. 7 :
       Strictly(ra, fa, rb, fb, rx, fx) =>
         \E k \in 1 .. n - 1 : rx = ra + k * sr /\ fx = fa + k * sf

(* A walk from a towards b passes the squares strictly between.             *)
LEMMA StepsBetween ==
  ASSUME NEW ra \in 0 .. 7, NEW fa \in 0 .. 7, NEW rb \in 0 .. 7, NEW fb \in 0 .. 7,
         Straight(ra, fa, rb, fb) \/ Diagonal(ra, fa, rb, fb),
         NEW sr, NEW sf, sr = Sign(rb - ra), sf = Sign(fb - fa),
         NEW n, n = IF ra = rb THEN Abs(fa - fb) ELSE Abs(ra - rb)
  PROVE  Stepping(ra, fa, rb, fb, sr, sf, n)
  <1>1. sr \in {-1, 0, 1} /\ sf \in {-1, 0, 1}
    BY DEF Sign
  <1>2. n \in 1 .. 7
    BY DEF Abs, Straight, Diagonal
  <1>3. /\ (sr = 0 <=> ra = rb) /\ (sr = 1 <=> ra < rb) /\ (sr = -1 <=> ra > rb)
        /\ (sf = 0 <=> fa = fb) /\ (sf = 1 <=> fa < fb) /\ (sf = -1 <=> fa > fb)
    BY DEF Sign
  <1>4. /\ ra = rb => fb = fa + n * sf
        /\ fa = fb => rb = ra + n * sr
        /\ ra # rb /\ fa # fb => rb = ra + n * sr /\ fb = fa + n * sf
    BY <1>2, <1>3 DEF Abs, Straight, Diagonal
  <1>5. \A k \in Int : /\ k * sr = IF ra = rb THEN 0 ELSE IF ra < rb THEN k ELSE -k
                      /\ k * sf = IF fa = fb THEN 0 ELSE IF fa < fb THEN k ELSE -k
    <2>1. \A k \in Int : k * 0 = 0 /\ k * 1 = k /\ k * (-1) = -k
      OBVIOUS
    <2>2. sr = (IF ra = rb THEN 0 ELSE IF ra < rb THEN 1 ELSE -1) /\ sf = (IF fa = fb THEN 0 ELSE IF fa < fb THEN 1 ELSE -1)
      BY DEF Sign
    <2>3. \A k \in Int : k * sr = IF ra = rb THEN 0 ELSE IF ra < rb THEN k ELSE -k
      <3>1. CASE ra = rb
        BY <2>1, <2>2, <3>1
      <3>2. CASE ra < rb
        BY <2>1, <2>2, <3>2
      <3>3. CASE rb < ra
        BY <2>1, <2>2, <3>3
      <3> QED BY <3>1, <3>2, <3>3
    <2>4. \A k \in Int : k * sf = IF fa = fb THEN 0 ELSE IF fa < fb THEN k ELSE -k
      <3>1. CASE fa = fb
        BY <2>1, <2>2, <3>1
      <3>2. CASE fa < fb
        BY <2>1, <2>2, <3>2
      <3>3. CASE fb < fa
        BY <2>1, <2>2, <3>3
      <3> QED BY <3>1, <3>2, <3>3
    <2> QED BY <2>3, <2>4
  <1>6. ASSUME NEW k \in 1 .. n - 1
        PROVE  /\ ra + k * sr \in 0 .. 7 /\ fa + k * sf \in 0 .. 7
               /\ Strictly(ra, fa, rb, fb, ra + k * sr, fa + k * sf)
    <2>1. PICK R, F : R = k * sr /\ F = k * sf
      OBVIOUS
    <2>2. /\ R = IF ra = rb THEN 0 ELSE IF ra < rb THEN k ELSE -k
          /\ F = IF fa = fb THEN 0 ELSE IF fa < fb THEN k ELSE -k
      BY <1>2, <1>5, <2>1
    <2>3. ra + R \in 0 .. 7 /\ fa + F \in 0 .. 7
      BY <1>2, <2>2 DEF Straight, Diagonal, Abs
    <2>4. Strictly(ra, fa, rb, fb, ra + R, fa + F)
      <3>1. CASE Straight(ra, fa, rb, fb)
        BY <1>2, <2>2, <3>1 DEF Straight, Abs, Strictly, Mid
      <3>2. CASE Diagonal(ra, fa, rb, fb)
        BY <1>2, <2>2, <3>2 DEF Diagonal, Abs, Strictly, Mid
      <3> QED BY <3>1, <3>2
    <2> QED BY <2>1, <2>3, <2>4
  <1>7. ASSUME NEW rx \in 0 .. 7, NEW fx \in 0 .. 7, Strictly(ra, fa, rb, fb, rx, fx)
        PROVE  \E k \in 1 .. n - 1 : rx = ra + k * sr /\ fx = fa + k * sf
    <2>1. PICK k : k = IF ra = rb THEN Abs(fa - fx) ELSE Abs(ra - rx)
      OBVIOUS
    <2>2. k \in 1 .. n - 1
      BY <1>7, <2>1 DEF Abs, Strictly, Mid, Straight, Diagonal
    <2>3. PICK R, F : R = k * sr /\ F = k * sf
      OBVIOUS
    <2>4. /\ R = IF ra = rb THEN 0 ELSE IF ra < rb THEN k ELSE -k
          /\ F = IF fa = fb THEN 0 ELSE IF fa < fb THEN k ELSE -k
      BY <1>2, <1>5, <2>2, <2>3
    <2>5. rx = ra + R /\ fx = fa + F
      BY <1>7, <2>1, <2>4 DEF Strictly, Mid, Abs
    <2> QED BY <2>2, <2>3, <2>5
  <1> QED BY <1>1, <1>2, <1>6, <1>7 DEF Stepping

(* What kCheckBetween holds, in ranks and files.                            *)
LEMMA BetweenIs ==
  ASSUME NEW a \in Squares, NEW b \in Squares, NEW x
  PROVE  x \in Between[a][b] <=>
           x \in Squares /\ Strictly(Rank(a), File(a), Rank(b), File(b), Rank(x), File(x))
  <1>1. PICK ra, fa, rb, fb : ra = Rank(a) /\ fa = File(a) /\ rb = Rank(b) /\ fb = File(b)
    OBVIOUS
  <1>2. ra \in 0 .. 7 /\ fa \in 0 .. 7 /\ rb \in 0 .. 7 /\ fb \in 0 .. 7 /\ a = 8 * ra + fa
    BY <1>1, SquareIs
  <1>3. CASE ~(RookLine(a, b) \/ BishopLine(a, b))
    <2>1. Between[a][b] = {}
      BY <1>3 DEF Between
    <2>2. ~Straight(ra, fa, rb, fb) /\ ~Diagonal(ra, fa, rb, fb)
      BY <1>1, <1>3, LineIs
    <2>3. ASSUME NEW rx \in 0 .. 7, NEW fx \in 0 .. 7 PROVE ~Strictly(ra, fa, rb, fb, rx, fx)
      BY <1>2, <2>2, <2>3 DEF Strictly, Straight, Diagonal, Mid
    <2> QED BY <1>1, <2>1, <2>3, SquareIs
  <1>4. CASE RookLine(a, b) \/ BishopLine(a, b)
    <2>1. Straight(ra, fa, rb, fb) \/ Diagonal(ra, fa, rb, fb)
      BY <1>1, <1>4, LineIs
    <2>2. PICK sr, sf, n : /\ sr = Sign(rb - ra) /\ sf = Sign(fb - fa)
                           /\ n = IF ra = rb THEN Abs(fa - fb) ELSE Abs(ra - rb)
      OBVIOUS
    <2>3. Stepping(ra, fa, rb, fb, sr, sf, n)
      BY <1>2, <2>1, <2>2, StepsBetween
    <2>4. Between[a][b] = { a + k * (8 * sr + sf) : k \in 1 .. n - 1 }
      <3>1. Between[a][b] =
              { a + k * (8 * Sign(Rank(b) - Rank(a)) + Sign(File(b) - File(a))) :
                  k \in 1 .. (IF Rank(a) = Rank(b) THEN Abs(File(a) - File(b))
                                                   ELSE Abs(Rank(a) - Rank(b))) - 1 }
        BY <1>4 DEF Between
      <3>2. /\ Sign(Rank(b) - Rank(a)) = sr /\ Sign(File(b) - File(a)) = sf
            /\ (IF Rank(a) = Rank(b) THEN Abs(File(a) - File(b)) ELSE Abs(Rank(a) - Rank(b))) = n
        BY <1>1, <2>2
      <3> QED BY <3>1, <3>2
    <2>5. ASSUME NEW k \in 1 .. n - 1, x = a + k * (8 * sr + sf)
          PROVE  x \in Squares /\ Strictly(ra, fa, rb, fb, Rank(x), File(x))
      <3>1. k \in 0 .. 7 /\ ra + k * sr \in 0 .. 7 /\ fa + k * sf \in 0 .. 7
        BY <2>3 DEF Stepping
      <3>2. x \in Squares /\ Rank(x) = ra + k * sr /\ File(x) = fa + k * sf
        BY <1>2, <2>3, <2>5, <3>1, Walked DEF Stepping
      <3> QED BY <2>3, <3>2 DEF Stepping
    <2>6. ASSUME x \in Squares, Strictly(ra, fa, rb, fb, Rank(x), File(x))
          PROVE  \E k \in 1 .. n - 1 : x = a + k * (8 * sr + sf)
      <3>1. Rank(x) \in 0 .. 7 /\ File(x) \in 0 .. 7 /\ x = 8 * Rank(x) + File(x)
        BY <2>6, SquareIs
      <3>2. PICK k \in 1 .. n - 1 : Rank(x) = ra + k * sr /\ File(x) = fa + k * sf
        BY <2>3, <2>6, <3>1 DEF Stepping
      <3>3. x = a + k * (8 * sr + sf)
        <4>1. CASE sr = -1
          BY <1>2, <2>3, <3>1, <3>2, <4>1 DEF Stepping
        <4>2. CASE sr = 0
          BY <1>2, <2>3, <3>1, <3>2, <4>2 DEF Stepping
        <4>3. CASE sr = 1
          BY <1>2, <2>3, <3>1, <3>2, <4>3 DEF Stepping
        <4> QED BY <2>3, <4>1, <4>2, <4>3 DEF Stepping
      <3> QED BY <3>3
    <2> QED BY <1>1, <2>4, <2>5, <2>6
  <1> QED BY <1>3, <1>4

-----------------------------------------------------------------------------
(* The squares from a, which does not count, to b, which does.              *)
Seg(a, b) == Between[a][b] \cup {b}

(* Lines and the squares between have no direction.                         *)
LEMMA LinesTurn ==
  ASSUME NEW a \in Squares, NEW b \in Squares
  PROVE  /\ RookLine(a, b) <=> RookLine(b, a)
         /\ BishopLine(a, b) <=> BishopLine(b, a)
         /\ ~(RookLine(a, b) /\ BishopLine(a, b))
         /\ RookLine(a, b) \/ BishopLine(a, b) => a # b
         /\ Between[a][b] = Between[b][a]
         /\ Between[a][b] \subseteq Squares
  <1>1. /\ RookLine(a, b) <=> RookLine(b, a)
        /\ BishopLine(a, b) <=> BishopLine(b, a)
        /\ ~(RookLine(a, b) /\ BishopLine(a, b))
    BY LineIs, SquareIs DEF Straight, Diagonal
  <1>2. RookLine(a, b) \/ BishopLine(a, b) => a # b
    BY DEF RookLine, BishopLine
  <1>3. ASSUME NEW x PROVE x \in Between[a][b] <=> x \in Between[b][a]
    <2>1. x \in Between[a][b] <=>
            x \in Squares /\ Strictly(Rank(a), File(a), Rank(b), File(b), Rank(x), File(x))
      BY BetweenIs
    <2>2. x \in Between[b][a] <=>
            x \in Squares /\ Strictly(Rank(b), File(b), Rank(a), File(a), Rank(x), File(x))
      BY BetweenIs
    <2>3. x \in Squares =>
            (Strictly(Rank(b), File(b), Rank(a), File(a), Rank(x), File(x)) <=>
             Strictly(Rank(a), File(a), Rank(b), File(b), Rank(x), File(x)))
      BY SquareIs DEF Strictly, Mid
    <2> QED BY <2>1, <2>2, <2>3
  <1>4. Between[a][b] \subseteq Squares
    BY BetweenIs
  <1> QED BY <1>1, <1>2, <1>3, <1>4

(* A square between two of a line is on the same line with both.            *)
LEMMA BetweenOn ==
  ASSUME NEW a \in Squares, NEW b \in Squares, NEW x \in Between[a][b]
  PROVE  /\ x \in Squares /\ x # a /\ x # b
         /\ RookLine(a, b) \/ BishopLine(a, b)
         /\ RookLine(a, b) => RookLine(a, x) /\ RookLine(x, b)
         /\ BishopLine(a, b) => BishopLine(a, x) /\ BishopLine(x, b)
         /\ b \notin Between[a][x]
         /\ \A y : y \in Between[a][b] <=> y \in Between[a][x] \/ y = x \/ y \in Between[x][b]
  <1>0. PICK ra, fa, rb, fb, rx, fx :
          /\ ra = Rank(a) /\ fa = File(a) /\ rb = Rank(b) /\ fb = File(b) /\ rx = Rank(x) /\ fx = File(x)
    OBVIOUS
  <1>1. x \in Squares /\ Strictly(ra, fa, rb, fb, rx, fx)
    BY <1>0, BetweenIs
  <1>2. /\ ra \in 0 .. 7 /\ fa \in 0 .. 7 /\ rb \in 0 .. 7 /\ fb \in 0 .. 7 /\ rx \in 0 .. 7 /\ fx \in 0 .. 7
    BY <1>0, <1>1, SquareIs
  <1>3. x # a /\ x # b
    BY <1>0, <1>1, <1>2 DEF Strictly, Mid
  <1>4. Straight(ra, fa, rb, fb) \/ Diagonal(ra, fa, rb, fb)
    BY <1>1, <1>2 DEF Strictly, Mid, Straight, Diagonal
  <1>5. Straight(ra, fa, rb, fb) => Straight(ra, fa, rx, fx) /\ Straight(rx, fx, rb, fb)
    BY <1>1, <1>2 DEF Strictly, Mid, Straight
  <1>6. Diagonal(ra, fa, rb, fb) => Diagonal(ra, fa, rx, fx) /\ Diagonal(rx, fx, rb, fb)
    BY <1>1, <1>2 DEF Strictly, Mid, Diagonal
  <1>7. /\ RookLine(a, b) <=> Straight(ra, fa, rb, fb)
        /\ BishopLine(a, b) <=> Diagonal(ra, fa, rb, fb)
        /\ RookLine(a, x) <=> Straight(ra, fa, rx, fx)
        /\ BishopLine(a, x) <=> Diagonal(ra, fa, rx, fx)
        /\ RookLine(x, b) <=> Straight(rx, fx, rb, fb)
        /\ BishopLine(x, b) <=> Diagonal(rx, fx, rb, fb)
    BY <1>0, <1>1, LineIs
  <1>8. b \notin Between[a][x]
    <2>1. ~Strictly(ra, fa, rx, fx, rb, fb)
      BY <1>1, <1>2 DEF Strictly, Mid
    <2> QED BY <1>0, <1>1, <2>1, BetweenIs
  <1>9. ASSUME NEW y \in Squares
        PROVE  y \in Between[a][b] <=> y \in Between[a][x] \/ y = x \/ y \in Between[x][b]
    <2>0. PICK ry, fy : ry = Rank(y) /\ fy = File(y)
      OBVIOUS
    <2>1. ry \in 0 .. 7 /\ fy \in 0 .. 7
      BY <2>0, SquareIs
    <2>2. y = x <=> ry = rx /\ fy = fx
      BY <1>0, <1>1, <2>0, SameSquare
    <2>3. /\ y \in Between[a][b] <=> Strictly(ra, fa, rb, fb, ry, fy)
          /\ y \in Between[a][x] <=> Strictly(ra, fa, rx, fx, ry, fy)
          /\ y \in Between[x][b] <=> Strictly(rx, fx, rb, fb, ry, fy)
      BY <1>0, <1>1, <2>0, BetweenIs
    <2>4. Strictly(ra, fa, rb, fb, ry, fy) <=>
            \/ Strictly(ra, fa, rx, fx, ry, fy) \/ (ry = rx /\ fy = fx)
            \/ Strictly(rx, fx, rb, fb, ry, fy)
      BY <1>1, <1>2, <2>1 DEF Strictly, Mid
    <2> QED BY <2>2, <2>3, <2>4
  <1>10. Between[a][b] \subseteq Squares /\ Between[a][x] \subseteq Squares /\ Between[x][b] \subseteq Squares
    BY <1>1, LinesTurn
  <1> QED BY <1>1, <1>3, <1>4, <1>5, <1>6, <1>7, <1>8, <1>9, <1>10

(* Two squares of which each is seen from a through x are one behind the    *)
(* other.                                                                   *)
LEMMA Meet ==
  ASSUME NEW a \in Squares, NEW b \in Squares, NEW c \in Squares,
         RookLine(a, b) \/ BishopLine(a, b), RookLine(a, c) \/ BishopLine(a, c),
         NEW x, x \in Seg(a, b), x \in Seg(a, c)
  PROVE  b = c \/ b \in Between[a][c] \/ c \in Between[a][b]
  <1>0. PICK ra, fa, rb, fb, rc, fc, rx, fx :
          /\ ra = Rank(a) /\ fa = File(a) /\ rb = Rank(b) /\ fb = File(b)
          /\ rc = Rank(c) /\ fc = File(c) /\ rx = Rank(x) /\ fx = File(x)
    OBVIOUS
  <1>1. /\ x \in Squares
        /\ Strictly(ra, fa, rb, fb, rx, fx) \/ (rx = rb /\ fx = fb)
        /\ Strictly(ra, fa, rc, fc, rx, fx) \/ (rx = rc /\ fx = fc)
    BY <1>0, BetweenIs DEF Seg
  <1>2. /\ ra \in 0 .. 7 /\ fa \in 0 .. 7 /\ rb \in 0 .. 7 /\ fb \in 0 .. 7
        /\ rc \in 0 .. 7 /\ fc \in 0 .. 7 /\ rx \in 0 .. 7 /\ fx \in 0 .. 7
    BY <1>0, <1>1, SquareIs
  <1>3. /\ Straight(ra, fa, rb, fb) \/ Diagonal(ra, fa, rb, fb)
        /\ Straight(ra, fa, rc, fc) \/ Diagonal(ra, fa, rc, fc)
    BY <1>0, LineIs
  <1>4. /\ b = c <=> rb = rc /\ fb = fc
        /\ b \in Between[a][c] <=> Strictly(ra, fa, rc, fc, rb, fb)
        /\ c \in Between[a][b] <=> Strictly(ra, fa, rb, fb, rc, fc)
    BY <1>0, SameSquare, BetweenIs
  <1>5. \/ rb = rc /\ fb = fc
        \/ Strictly(ra, fa, rc, fc, rb, fb)
        \/ Strictly(ra, fa, rb, fb, rc, fc)
    BY <1>1, <1>2, <1>3 DEF Strictly, Mid, Straight, Diagonal
  <1> QED BY <1>4, <1>5

(* Two squares on the way from a to b are on the line of a and b, and what  *)
(* is between them is between a and b.                                      *)
LEMMA SameWay ==
  ASSUME NEW a \in Squares, NEW b \in Squares, NEW s \in Seg(a, b), NEW t \in Seg(a, b), s # t,
         RookLine(a, b) \/ BishopLine(a, b)
  PROVE  /\ s \in Squares /\ t \in Squares
         /\ RookLine(a, b) => RookLine(s, t) /\ ~BishopLine(s, t)
         /\ BishopLine(a, b) => BishopLine(s, t) /\ ~RookLine(s, t)
         /\ Between[s][t] \subseteq Between[a][b]
         /\ s \in Between[a][t] \/ t \in Between[a][s]
  <1>0. PICK ra, fa, rb, fb, rs, fs, rt, ft :
          /\ ra = Rank(a) /\ fa = File(a) /\ rb = Rank(b) /\ fb = File(b)
          /\ rs = Rank(s) /\ fs = File(s) /\ rt = Rank(t) /\ ft = File(t)
    OBVIOUS
  <1>1. /\ s \in Squares /\ t \in Squares
        /\ Strictly(ra, fa, rb, fb, rs, fs) \/ (rs = rb /\ fs = fb)
        /\ Strictly(ra, fa, rb, fb, rt, ft) \/ (rt = rb /\ ft = fb)
    BY <1>0, BetweenIs DEF Seg
  <1>2. /\ ra \in 0 .. 7 /\ fa \in 0 .. 7 /\ rb \in 0 .. 7 /\ fb \in 0 .. 7
        /\ rs \in 0 .. 7 /\ fs \in 0 .. 7 /\ rt \in 0 .. 7 /\ ft \in 0 .. 7
    BY <1>0, <1>1, SquareIs
  <1>3. ~(rs = rt /\ fs = ft)
    BY <1>0, <1>1, SameSquare
  <1>4. Straight(ra, fa, rb, fb) \/ Diagonal(ra, fa, rb, fb)
    BY <1>0, LineIs
  <1>5. /\ Straight(ra, fa, rb, fb) => Straight(rs, fs, rt, ft)
        /\ Diagonal(ra, fa, rb, fb) => Diagonal(rs, fs, rt, ft)
        /\ Strictly(ra, fa, rt, ft, rs, fs) \/ Strictly(ra, fa, rs, fs, rt, ft)
    BY <1>1, <1>2, <1>3, <1>4 DEF Strictly, Mid, Straight, Diagonal
  <1>6. /\ RookLine(a, b) <=> Straight(ra, fa, rb, fb)
        /\ BishopLine(a, b) <=> Diagonal(ra, fa, rb, fb)
        /\ RookLine(s, t) <=> Straight(rs, fs, rt, ft)
        /\ BishopLine(s, t) <=> Diagonal(rs, fs, rt, ft)
        /\ ~(RookLine(s, t) /\ BishopLine(s, t))
    BY <1>0, <1>1, LineIs, LinesTurn
  <1>7. s \in Between[a][t] \/ t \in Between[a][s]
    BY <1>0, <1>1, <1>5, BetweenIs
  <1>8. ASSUME NEW y \in Between[s][t] PROVE y \in Between[a][b]
    <2>0. PICK ry, fy : ry = Rank(y) /\ fy = File(y)
      OBVIOUS
    <2>1. y \in Squares /\ Strictly(rs, fs, rt, ft, ry, fy)
      BY <1>0, <1>1, <2>0, BetweenIs
    <2>2. ry \in 0 .. 7 /\ fy \in 0 .. 7
      BY <2>0, <2>1, SquareIs
    <2>3. Strictly(ra, fa, rb, fb, ry, fy)
      BY <1>1, <1>2, <1>3, <1>4, <2>1, <2>2 DEF Strictly, Mid, Straight, Diagonal
    <2> QED BY <1>0, <2>0, <2>1, <2>3, BetweenIs
  <1> QED BY <1>1, <1>5, <1>6, <1>7, <1>8

(* From s, between a and b, a step along the kind of line of a and b to a   *)
(* square of another such line through a stays between, or passes b or a.   *)
LEMMA PinnedMove ==
  ASSUME NEW a \in Squares, NEW b \in Squares, NEW c \in Squares,
         NEW s \in Between[a][b], NEW t \in Seg(a, c), t \in Squares,
         \/ RookLine(a, b) /\ RookLine(a, c) /\ RookLine(s, t)
         \/ BishopLine(a, b) /\ BishopLine(a, c) /\ BishopLine(s, t)
  PROVE  t \in Seg(a, b) \/ b \in Between[s][t] \/ a \in Between[s][t]
  <1>0. PICK ra, fa, rb, fb, rc, fc, rs, fs, rt, ft :
          /\ ra = Rank(a) /\ fa = File(a) /\ rb = Rank(b) /\ fb = File(b) /\ rc = Rank(c) /\ fc = File(c)
          /\ rs = Rank(s) /\ fs = File(s) /\ rt = Rank(t) /\ ft = File(t)
    OBVIOUS
  <1>1. /\ s \in Squares /\ Strictly(ra, fa, rb, fb, rs, fs)
        /\ Strictly(ra, fa, rc, fc, rt, ft) \/ (rt = rc /\ ft = fc)
    BY <1>0, BetweenIs DEF Seg
  <1>2. /\ ra \in 0 .. 7 /\ fa \in 0 .. 7 /\ rb \in 0 .. 7 /\ fb \in 0 .. 7 /\ rc \in 0 .. 7 /\ fc \in 0 .. 7
        /\ rs \in 0 .. 7 /\ fs \in 0 .. 7 /\ rt \in 0 .. 7 /\ ft \in 0 .. 7
    BY <1>0, <1>1, SquareIs
  <1>3. \/ Straight(ra, fa, rb, fb) /\ Straight(ra, fa, rc, fc) /\ Straight(rs, fs, rt, ft)
        \/ Diagonal(ra, fa, rb, fb) /\ Diagonal(ra, fa, rc, fc) /\ Diagonal(rs, fs, rt, ft)
    BY <1>0, <1>1, LineIs
  <1>4. /\ t = b <=> rt = rb /\ ft = fb
        /\ t \in Between[a][b] <=> Strictly(ra, fa, rb, fb, rt, ft)
        /\ b \in Between[s][t] <=> Strictly(rs, fs, rt, ft, rb, fb)
        /\ a \in Between[s][t] <=> Strictly(rs, fs, rt, ft, ra, fa)
    BY <1>0, <1>1, SameSquare, BetweenIs
  <1>5. CASE Straight(ra, fa, rb, fb) /\ Straight(ra, fa, rc, fc) /\ Straight(rs, fs, rt, ft)
    <2>1. \/ rt = rb /\ ft = fb
          \/ Strictly(ra, fa, rb, fb, rt, ft)
          \/ Strictly(rs, fs, rt, ft, rb, fb)
          \/ Strictly(rs, fs, rt, ft, ra, fa)
      BY <1>1, <1>2, <1>5 DEF Strictly, Mid, Straight
    <2> QED BY <1>4, <2>1 DEF Seg
  <1>6. CASE Diagonal(ra, fa, rb, fb) /\ Diagonal(ra, fa, rc, fc) /\ Diagonal(rs, fs, rt, ft)
    <2>1. \/ rt = rb /\ ft = fb
          \/ Strictly(ra, fa, rb, fb, rt, ft)
          \/ Strictly(rs, fs, rt, ft, rb, fb)
          \/ Strictly(rs, fs, rt, ft, ra, fa)
      BY <1>1, <1>2, <1>6 DEF Strictly, Mid, Diagonal
    <2> QED BY <1>4, <2>1 DEF Seg
  <1> QED BY <1>3, <1>5, <1>6

-----------------------------------------------------------------------------
(* What a shift holds.                                                      *)
LEMMA ShiftIs ==
  ASSUME NEW bb \in SUBSET Squares, NEW df \in -2 .. 3, NEW dr \in -2 .. 2, NEW t
  PROVE  t \in Shift(bb, df, dr) <=>
           t \in Squares /\ \E s \in bb : File(t) = File(s) + df /\ Rank(t) = Rank(s) + dr
  <1>1. ASSUME t \in Shift(bb, df, dr)
        PROVE  t \in Squares /\ \E s \in bb : File(t) = File(s) + df /\ Rank(t) = Rank(s) + dr
    <2>1. /\ t \in Squares /\ t - 8 * dr - df \in bb
          /\ Rank(t) = Rank(t - 8 * dr - df) + dr /\ File(t) = File(t - 8 * dr - df) + df
      BY <1>1, ShiftHas
    <2> QED BY <2>1
  <1>2. ASSUME t \in Squares, NEW s \in bb, File(t) = File(s) + df, Rank(t) = Rank(s) + dr
        PROVE  t \in Shift(bb, df, dr)
    <2>1. s \in Squares
      OBVIOUS
    <2>2. t = 8 * Rank(t) + File(t) /\ s = 8 * Rank(s) + File(s) /\ Rank(t) \in 0 .. 7 /\ File(t) \in 0 .. 7
          /\ Rank(s) \in 0 .. 7 /\ File(s) \in 0 .. 7
      BY <1>2, <2>1, SquareIs
    <2>3. t = s + 8 * dr + df
      BY <1>2, <2>2
    <2>4. File(s) + df \in 0 .. 7 /\ Rank(s) + dr \in 0 .. 7
      BY <1>2, <2>2
    <2> QED BY <2>3, <2>4 DEF Shift
  <1> QED BY <1>1, <1>2

(* A shift of one square.                                                   *)
LEMMA ShiftOne ==
  ASSUME NEW s \in Squares, NEW df \in -2 .. 3, NEW dr \in -2 .. 2, NEW t
  PROVE  t \in Shift({s}, df, dr) <=> t \in Squares /\ File(t) = File(s) + df /\ Rank(t) = Rank(s) + dr
  <1>1. {s} \in SUBSET Squares
    OBVIOUS
  <1> QED BY <1>1, ShiftIs

(* The jump of a knight and the step of a king, by ranks and files.         *)
KnightApart(s, t) ==
  \/ Abs(Rank(s) - Rank(t)) = 1 /\ Abs(File(s) - File(t)) = 2
  \/ Abs(Rank(s) - Rank(t)) = 2 /\ Abs(File(s) - File(t)) = 1
KingApart(s, t) == s # t /\ Abs(Rank(s) - Rank(t)) \in {0, 1} /\ Abs(File(s) - File(t)) \in {0, 1}

(* The knight's steps: one and two squares, in any direction.               *)
LEMMA KnightStepsAre ==
  ASSUME NEW x, NEW y
  PROVE  <<x, y>> \in KnightSteps <=> \/ x \in {1, -1} /\ y \in {2, -2}
                                      \/ x \in {2, -2} /\ y \in {1, -1}
  <1>1. <<x, y>> \in KnightSteps <=> x \in -2 .. 2 /\ y \in -2 .. 2 /\ x * x + y * y = 5
    BY DEF KnightSteps
  <1>2. \A n \in -2 .. 2 : \/ n = 0 /\ n * n = 0
                           \/ n \in {1, -1} /\ n * n = 1
                           \/ n \in {2, -2} /\ n * n = 4
    <2> TAKE n \in -2 .. 2
    <2>1. n \in {-2, -1, 0, 1, 2}
      OBVIOUS
    <2>2. (-2) * (-2) = 4 /\ (-1) * (-1) = 1 /\ 0 * 0 = 0 /\ 1 * 1 = 1 /\ 2 * 2 = 4
      OBVIOUS
    <2> QED BY <2>1, <2>2
  <1>3. ASSUME x \in -2 .. 2, y \in -2 .. 2
        PROVE  x * x + y * y = 5 <=> \/ x \in {1, -1} /\ y \in {2, -2}
                                     \/ x \in {2, -2} /\ y \in {1, -1}
    <2>1. PICK X, Y : X = x * x /\ Y = y * y
      OBVIOUS
    <2>2. /\ (x = 0 /\ X = 0) \/ (x \in {1, -1} /\ X = 1) \/ (x \in {2, -2} /\ X = 4)
          /\ (y = 0 /\ Y = 0) \/ (y \in {1, -1} /\ Y = 1) \/ (y \in {2, -2} /\ Y = 4)
      BY <1>2, <1>3, <2>1
    <2>3. X + Y = 5 <=> \/ x \in {1, -1} /\ y \in {2, -2}
                        \/ x \in {2, -2} /\ y \in {1, -1}
      BY <2>2
    <2> QED BY <2>1, <2>3
  <1> QED BY <1>1, <1>3

(* The attacks of kings and knights on any squares are those from each.     *)
LEMMA JumpsAre ==
  ASSUME NEW bb \in SUBSET Squares, NEW t
  PROVE  /\ t \in KnightAttacks(bb) <=> t \in Squares /\ \E s \in bb : KnightApart(s, t)
         /\ t \in KingAttacks(bb) <=> t \in Squares /\ \E s \in bb : KingApart(s, t)
  <1>1. t \in KnightAttacks(bb) <=> \E d \in KnightSteps : t \in Shift(bb, d[1], d[2])
    BY DEF KnightAttacks, Steps
  <1>2. t \in KingAttacks(bb) <=> \E d \in KingSteps : t \in Shift(bb, d[1], d[2])
    BY DEF KingAttacks, Steps
  <1>3. \A s \in bb : s \in Squares /\ Rank(s) \in 0 .. 7 /\ File(s) \in 0 .. 7
    BY SquareIs
  <1>4. t \in Squares => Rank(t) \in 0 .. 7 /\ File(t) \in 0 .. 7
    BY SquareIs
  <1>5. ASSUME t \in KnightAttacks(bb) PROVE t \in Squares /\ \E s \in bb : KnightApart(s, t)
    <2>1. PICK d \in KnightSteps : t \in Shift(bb, d[1], d[2])
      BY <1>1, <1>5
    <2>2. PICK x, y : d = <<x, y>> /\ x \in -2 .. 2 /\ y \in -2 .. 2
      BY <2>1 DEF KnightSteps
    <2>3. x \in -2 .. 3 /\ d[1] = x /\ d[2] = y
      BY <2>2
    <2>4. t \in Squares /\ \E s \in bb : File(t) = File(s) + x /\ Rank(t) = Rank(s) + y
      BY <2>1, <2>2, <2>3, ShiftIs
    <2>5. PICK s \in bb : File(t) = File(s) + x /\ Rank(t) = Rank(s) + y
      BY <2>4
    <2>6. \/ x \in {1, -1} /\ y \in {2, -2}
          \/ x \in {2, -2} /\ y \in {1, -1}
      BY <2>1, <2>2, KnightStepsAre
    <2>7. KnightApart(s, t)
      BY <1>3, <1>4, <2>4, <2>5, <2>6 DEF KnightApart, Abs
    <2> QED BY <2>4, <2>7
  <1>6. ASSUME t \in Squares, NEW s \in bb, KnightApart(s, t) PROVE t \in KnightAttacks(bb)
    <2>1. PICK x, y : x = File(t) - File(s) /\ y = Rank(t) - Rank(s)
      OBVIOUS
    <2>2. \/ x \in {1, -1} /\ y \in {2, -2}
          \/ x \in {2, -2} /\ y \in {1, -1}
      BY <1>3, <1>4, <1>6, <2>1 DEF KnightApart, Abs
    <2>3. <<x, y>> \in KnightSteps
      BY <2>2, KnightStepsAre
    <2>4. x \in -2 .. 3 /\ y \in -2 .. 2
      BY <2>2
    <2>5. File(t) = File(s) + x /\ Rank(t) = Rank(s) + y
      BY <1>3, <1>4, <1>6, <2>1
    <2>6. t \in Shift(bb, x, y)
      BY <1>6, <2>4, <2>5, ShiftIs
    <2>7. t \in Shift(bb, <<x, y>>[1], <<x, y>>[2])
      BY <2>6
    <2> QED BY <1>1, <2>3, <2>7
  <1>7. ASSUME t \in KingAttacks(bb) PROVE t \in Squares /\ \E s \in bb : KingApart(s, t)
    <2>1. PICK d \in KingSteps : t \in Shift(bb, d[1], d[2])
      BY <1>2, <1>7
    <2>2. PICK x, y : d = <<x, y>> /\ x \in -1 .. 1 /\ y \in -1 .. 1 /\ ~(x = 0 /\ y = 0)
      BY <2>1 DEF KingSteps
    <2>3. x \in -2 .. 3 /\ y \in -2 .. 2 /\ d[1] = x /\ d[2] = y
      BY <2>2
    <2>4. t \in Squares /\ \E s \in bb : File(t) = File(s) + x /\ Rank(t) = Rank(s) + y
      BY <2>1, <2>3, ShiftIs
    <2>5. PICK s \in bb : File(t) = File(s) + x /\ Rank(t) = Rank(s) + y
      BY <2>4
    <2>6. s # t
      BY <1>3, <1>4, <2>2, <2>4, <2>5
    <2>7. KingApart(s, t)
      BY <1>3, <1>4, <2>2, <2>4, <2>5, <2>6 DEF KingApart, Abs
    <2> QED BY <2>4, <2>7
  <1>8. ASSUME t \in Squares, NEW s \in bb, KingApart(s, t) PROVE t \in KingAttacks(bb)
    <2>1. PICK x, y : x = File(t) - File(s) /\ y = Rank(t) - Rank(s)
      OBVIOUS
    <2>2. x \in -1 .. 1 /\ y \in -1 .. 1
      BY <1>3, <1>4, <1>8, <2>1 DEF KingApart, Abs
    <2>3. ~(x = 0 /\ y = 0)
      <3> SUFFICES ASSUME x = 0 /\ y = 0 PROVE FALSE
        OBVIOUS
      <3>1. Rank(t) = Rank(s) /\ File(t) = File(s)
        BY <1>3, <1>4, <1>8, <2>1
      <3>2. s = t
        BY <1>3, <1>8, <3>1, SameSquare
      <3> QED BY <1>8, <3>2 DEF KingApart
    <2>4. <<x, y>> \in KingSteps
      BY <2>2, <2>3 DEF KingSteps
    <2>5. x \in -2 .. 3 /\ y \in -2 .. 2 /\ File(t) = File(s) + x /\ Rank(t) = Rank(s) + y
      BY <1>3, <1>4, <1>8, <2>1, <2>2
    <2>6. t \in Shift(bb, x, y)
      BY <1>8, <2>5, ShiftIs
    <2>7. t \in Shift(bb, <<x, y>>[1], <<x, y>>[2])
      BY <2>6
    <2> QED BY <1>2, <2>4, <2>7
  <1> QED BY <1>5, <1>6, <1>7, <1>8

(* A square ahead of a pawn, and one it attacks.                            *)
Ahead(c, s, t) == File(t) = File(s) /\ Rank(t) = Rank(s) + Forward(c)
Aslant(c, s, t) == Abs(File(t) - File(s)) = 1 /\ Rank(t) = Rank(s) + Forward(c)

(* Pushes and captures of pawns, by ranks and files.                        *)
LEMMA PawnStepsAre ==
  ASSUME NEW bb \in SUBSET Squares, NEW c \in Colors, NEW t
  PROVE  /\ t \in PushPawn(c, bb) <=> t \in Squares /\ \E s \in bb : Ahead(c, s, t)
         /\ \A compass \in {East, West} :
              t \in PawnTargets(c, compass, bb) <=>
                t \in Squares /\ \E s \in bb : File(t) = File(s) + compass /\ Rank(t) = Rank(s) + Forward(c)
         /\ t \in PawnTargets(c, East, bb) \cup PawnTargets(c, West, bb) <=>
              t \in Squares /\ \E s \in bb : Aslant(c, s, t)
  <1>1. Forward(c) \in -2 .. 2 /\ East \in -2 .. 3 /\ West \in -2 .. 3 /\ 0 \in -2 .. 3
    BY DEF Forward, East, West
  <1>2. t \in PushPawn(c, bb) <=> t \in Squares /\ \E s \in bb : File(t) = File(s) + 0 /\ Rank(t) = Rank(s) + Forward(c)
    BY <1>1, ShiftIs DEF PushPawn
  <1>3. \A s \in bb : Rank(s) \in 0 .. 7 /\ File(s) \in 0 .. 7
    BY SquareIs
  <1>4. t \in Squares => Rank(t) \in 0 .. 7 /\ File(t) \in 0 .. 7
    BY SquareIs
  <1>5. t \in PushPawn(c, bb) <=> t \in Squares /\ \E s \in bb : Ahead(c, s, t)
    BY <1>2, <1>3 DEF Ahead
  <1>6. ASSUME NEW compass \in {East, West}
        PROVE  t \in PawnTargets(c, compass, bb) <=>
                t \in Squares /\ \E s \in bb : File(t) = File(s) + compass /\ Rank(t) = Rank(s) + Forward(c)
    <2>1. compass \in -2 .. 3
      BY <1>1, <1>6
    <2> QED BY <1>1, <2>1, ShiftIs DEF PawnTargets
  <1>7. \A s \in bb : t \in Squares =>
          (Abs(File(t) - File(s)) = 1 <=> File(t) = File(s) + East \/ File(t) = File(s) + West)
    BY <1>3, <1>4 DEF Abs, East, West
  <1>8. t \in PawnTargets(c, East, bb) \cup PawnTargets(c, West, bb) <=>
              t \in Squares /\ \E s \in bb : Aslant(c, s, t)
    BY <1>6, <1>7 DEF Aslant
  <1> QED BY <1>5, <1>6, <1>8

(* The squares pawns attack to one side.                                    *)
LEMMA TargetsAre ==
  ASSUME NEW bb \in SUBSET Squares, NEW c \in Colors, NEW compass \in {East, West}, NEW t
  PROVE  t \in PawnTargets(c, compass, bb) <=>
           t \in Squares /\ \E s \in bb : File(t) = File(s) + compass /\ Rank(t) = Rank(s) + Forward(c)
  BY ZenonT(30), PawnStepsAre

-----------------------------------------------------------------------------
(* What a piece attacks over any board, and along which lines it slides.    *)
Jumps(k, c, s, t) ==
  \/ k = "king" /\ KingApart(s, t)
  \/ k = "knight" /\ KnightApart(s, t)
  \/ k = "pawn" /\ Aslant(c, s, t)
Lined(k, s, t) ==
  \/ k \in {"rook", "queen"} /\ RookLine(s, t)
  \/ k \in {"bishop", "queen"} /\ BishopLine(s, t)
Hits(k, c, s, t, O) == Jumps(k, c, s, t) \/ (Lined(k, s, t) /\ Between[s][t] \cap O = {})

(* The squares a slider reaches.                                            *)
LEMMA SlidesAre ==
  ASSUME NEW s \in Squares, NEW O, NEW t
  PROVE  /\ t \in RookAttacks(O, s) <=> t \in Squares /\ RookLine(s, t) /\ Between[s][t] \cap O = {}
         /\ t \in BishopAttacks(O, s) <=> t \in Squares /\ BishopLine(s, t) /\ Between[s][t] \cap O = {}
         /\ t \in RookMap[s] <=> t \in Squares /\ RookLine(s, t)
         /\ t \in BishopMap[s] <=> t \in Squares /\ BishopLine(s, t)
  <1>1. t \in RookMap[s] <=> t \in Squares /\ RookLine(s, t)
    BY DEF RookMap
  <1>2. t \in BishopMap[s] <=> t \in Squares /\ BishopLine(s, t)
    BY DEF BishopMap
  <1> QED BY <1>1, <1>2 DEF RookAttacks, BishopAttacks, Slides

(* What Reach holds.                                                        *)
LEMMA ReachIs ==
  ASSUME NEW B, NEW k \in PieceKinds, NEW c \in Colors, NEW s \in Squares, NEW t
  PROVE  t \in Reach(B, k, c, s) <=> t \in Squares /\ Hits(k, c, s, t, OccupiedBy(B))
  <1>0. PICK O : O = OccupiedBy(B)
    OBVIOUS
  <1>1. {s} \in SUBSET Squares
    OBVIOUS
  <1>2. /\ t \in KnightAttacks({s}) <=> t \in Squares /\ KnightApart(s, t)
        /\ t \in KingAttacks({s}) <=> t \in Squares /\ KingApart(s, t)
        /\ t \in PawnTargets(c, East, {s}) \cup PawnTargets(c, West, {s}) <=> t \in Squares /\ Aslant(c, s, t)
    BY <1>1, JumpsAre, PawnStepsAre
  <1>3. /\ t \in RookAttacks(O, s) <=> t \in Squares /\ RookLine(s, t) /\ Between[s][t] \cap O = {}
        /\ t \in BishopAttacks(O, s) <=> t \in Squares /\ BishopLine(s, t) /\ Between[s][t] \cap O = {}
    BY SlidesAre
  <1>4. CASE k = "king"
    <2>1. Reach(B, k, c, s) = KingAttacks({s})
      BY <1>4 DEF Reach
    <2>2. Hits(k, c, s, t, O) <=> KingApart(s, t)
      BY <1>4 DEF Hits, Jumps, Lined
    <2> QED BY <1>0, <1>2, <2>1, <2>2
  <1>5. CASE k = "knight"
    <2>1. Reach(B, k, c, s) = KnightAttacks({s})
      BY <1>5 DEF Reach
    <2>2. Hits(k, c, s, t, O) <=> KnightApart(s, t)
      BY <1>5 DEF Hits, Jumps, Lined
    <2> QED BY <1>0, <1>2, <2>1, <2>2
  <1>6. CASE k = "pawn"
    <2>1. Reach(B, k, c, s) = PawnTargets(c, East, {s}) \cup PawnTargets(c, West, {s})
      BY <1>6 DEF Reach
    <2>2. Hits(k, c, s, t, O) <=> Aslant(c, s, t)
      BY <1>6 DEF Hits, Jumps, Lined
    <2> QED BY <1>0, <1>2, <2>1, <2>2
  <1>7. CASE k = "rook"
    <2>1. Reach(B, k, c, s) = RookAttacks(O, s)
      BY <1>0, <1>7 DEF Reach
    <2>2. Hits(k, c, s, t, O) <=> RookLine(s, t) /\ Between[s][t] \cap O = {}
      BY <1>7 DEF Hits, Jumps, Lined
    <2> QED BY <1>0, <1>3, <2>1, <2>2
  <1>8. CASE k = "bishop"
    <2>1. Reach(B, k, c, s) = BishopAttacks(O, s)
      BY <1>0, <1>8 DEF Reach
    <2>2. Hits(k, c, s, t, O) <=> BishopLine(s, t) /\ Between[s][t] \cap O = {}
      BY <1>8 DEF Hits, Jumps, Lined
    <2> QED BY <1>0, <1>3, <2>1, <2>2
  <1>9. CASE k = "queen"
    <2>1. Reach(B, k, c, s) = RookAttacks(O, s) \cup BishopAttacks(O, s)
      BY <1>0, <1>9 DEF Reach
    <2>2. Hits(k, c, s, t, O) <=> (RookLine(s, t) \/ BishopLine(s, t)) /\ Between[s][t] \cap O = {}
      BY <1>9 DEF Hits, Jumps, Lined
    <2> QED BY <1>0, <1>3, <2>1, <2>2
  <1> QED BY <1>4, <1>5, <1>6, <1>7, <1>8, <1>9 DEF PieceKinds

(* Attacks by jumps and along lines go both ways; a pawn's is one of the    *)
(* other colour back.                                                       *)
LEMMA HitsTurn ==
  ASSUME NEW k, NEW c \in Colors, NEW s \in Squares, NEW t \in Squares
  PROVE  /\ Lined(k, s, t) <=> Lined(k, t, s)
         /\ Jumps(k, c, s, t) <=> Jumps(k, OPP(c), t, s)
         /\ Jumps(k, c, s, t) \/ Lined(k, s, t) => s # t
  <1>1. Rank(s) \in 0 .. 7 /\ File(s) \in 0 .. 7 /\ Rank(t) \in 0 .. 7 /\ File(t) \in 0 .. 7
    BY SquareIs
  <1>2. Lined(k, s, t) <=> Lined(k, t, s)
    BY LinesTurn DEF Lined
  <1>3. KingApart(s, t) <=> KingApart(t, s)
    BY <1>1 DEF KingApart, Abs
  <1>4. KnightApart(s, t) <=> KnightApart(t, s)
    BY <1>1 DEF KnightApart, Abs
  <1>5. Aslant(c, s, t) <=> Aslant(OPP(c), t, s)
    BY <1>1 DEF Aslant, Abs, Forward, OPP, Colors
  <1>6. Lined(k, s, t) => s # t
    BY LinesTurn DEF Lined
  <1>7. Jumps(k, c, s, t) => s # t
    BY <1>1 DEF Jumps, KingApart, KnightApart, Aslant, Abs
  <1> QED BY <1>2, <1>3, <1>4, <1>5, <1>6, <1>7 DEF Jumps

(* A knight leaves every line through its square; a pawn takes along a      *)
(* diagonal and is pushed along a file, with nothing between.               *)
LEMMA StepLines ==
  ASSUME NEW s \in Squares, NEW t \in Squares, NEW c \in Colors
  PROVE  /\ KnightApart(s, t) => ~RookLine(s, t) /\ ~BishopLine(s, t)
         /\ Aslant(c, s, t) => BishopLine(s, t) /\ ~RookLine(s, t) /\ Between[s][t] = {}
         /\ Ahead(c, s, t) => RookLine(s, t) /\ ~BishopLine(s, t) /\ Between[s][t] = {}
         /\ KingApart(s, t) => Between[s][t] = {}
         /\ \A x \in Squares : Ahead(c, s, x) /\ Ahead(c, x, t) =>
              RookLine(s, t) /\ ~BishopLine(s, t) /\ Between[s][t] = {x}
  <1>0. PICK rs, fs, rt, ft, d : rs = Rank(s) /\ fs = File(s) /\ rt = Rank(t) /\ ft = File(t) /\ d = Forward(c)
    OBVIOUS
  <1>1. rs \in 0 .. 7 /\ fs \in 0 .. 7 /\ rt \in 0 .. 7 /\ ft \in 0 .. 7 /\ d \in {1, -1}
    BY <1>0, SquareIs, ForwardIs
  <1>2. /\ RookLine(s, t) <=> Straight(rs, fs, rt, ft)
        /\ BishopLine(s, t) <=> Diagonal(rs, fs, rt, ft)
    BY <1>0, LineIs
  <1>3. KnightApart(s, t) => ~RookLine(s, t) /\ ~BishopLine(s, t)
    BY <1>0, <1>1, <1>2 DEF KnightApart, Abs, Straight, Diagonal
  <1>4. Aslant(c, s, t) => BishopLine(s, t) /\ ~RookLine(s, t)
    BY <1>0, <1>1, <1>2 DEF Aslant, Abs, Straight, Diagonal
  <1>5. Ahead(c, s, t) => RookLine(s, t) /\ ~BishopLine(s, t)
    BY <1>0, <1>1, <1>2 DEF Ahead, Straight, Diagonal
  <1>6. ASSUME NEW y \in Between[s][t], Aslant(c, s, t) \/ Ahead(c, s, t) \/ KingApart(s, t)
        PROVE  FALSE
    <2>1. y \in Squares /\ Strictly(rs, fs, rt, ft, Rank(y), File(y))
      BY <1>0, BetweenIs
    <2>2. Rank(y) \in 0 .. 7 /\ File(y) \in 0 .. 7
      BY <2>1, SquareIs
    <2>3. /\ rs - rt \in {-1, 0, 1}
          /\ fs - ft \in {-1, 0, 1}
      BY <1>0, <1>1, <1>6 DEF Aslant, Ahead, KingApart, Abs
    <2> QED BY <1>1, <2>1, <2>2, <2>3 DEF Strictly, Mid
  <1>7. ASSUME NEW x \in Squares, Ahead(c, s, x), Ahead(c, x, t)
        PROVE  RookLine(s, t) /\ ~BishopLine(s, t) /\ Between[s][t] = {x}
    <2>0. PICK rx, fx : rx = Rank(x) /\ fx = File(x)
      OBVIOUS
    <2>1. rx \in 0 .. 7 /\ fx \in 0 .. 7 /\ fx = fs /\ rx = rs + d /\ ft = fs /\ rt = rx + d
      BY <1>0, <1>7, <2>0, SquareIs DEF Ahead
    <2>2. RookLine(s, t) /\ ~BishopLine(s, t)
      BY <1>1, <1>2, <2>1 DEF Straight, Diagonal
    <2>3. ASSUME NEW y PROVE y \in Between[s][t] <=> y = x
      <3>1. y \in Between[s][t] <=> y \in Squares /\ Strictly(rs, fs, rt, ft, Rank(y), File(y))
        BY <1>0, BetweenIs
      <3>2. y \in Squares => Rank(y) \in 0 .. 7 /\ File(y) \in 0 .. 7
        BY SquareIs
      <3>3. y \in Squares => (y = x <=> Rank(y) = rx /\ File(y) = fx)
        BY <2>0, SameSquare
      <3>4. y \in Squares => (Strictly(rs, fs, rt, ft, Rank(y), File(y)) <=> Rank(y) = rx /\ File(y) = fx)
        BY <1>1, <2>1, <3>2 DEF Strictly, Mid
      <3> QED BY <3>1, <3>3, <3>4
    <2> QED BY <2>2, <2>3
  <1> QED BY <1>3, <1>4, <1>5, <1>6, <1>7

-----------------------------------------------------------------------------
(* Whether a square is attacked, and whether a king is.                     *)
LEMMA AttackedIs ==
  ASSUME NEW B \in Boards, NEW o \in Colors, NEW x \in Squares
  PROVE  Attacked(B, o, x) <=>
           \E k \in PieceKinds : \E u \in B[o][k] : u \in Squares /\ Hits(k, o, u, x, OccupiedBy(B))
  <1>1. \A k \in PieceKinds : B[o][k] \subseteq Squares
    BY DEF Boards
  <1>2. \A k \in PieceKinds : \A u \in B[o][k] :
          x \in Reach(B, k, o, u) <=> Hits(k, o, u, x, OccupiedBy(B))
    BY <1>1, ReachIs
  <1> QED BY <1>1, <1>2 DEF Attacked

(* A king is in check when an enemy piece hits its square.                  *)
LEMMA InCheckIs ==
  ASSUME NEW B \in Boards, NEW c \in Colors, NEW K \in Squares, B[c]["king"] = {K}
  PROVE  InCheck(B, c) <=>
           \E k \in PieceKinds : \E u \in B[OPP(c)][k] :
             u \in Squares /\ Hits(k, OPP(c), u, K, OccupiedBy(B))
  <1>1. Index(B[c]["king"]) = K
    BY DEF Index
  <1>2. OPP(c) \in Colors
    BY OppIs
  <1> QED BY <1>1, <1>2, AttackedIs DEF InCheck

-----------------------------------------------------------------------------
(* What a move takes off the board besides its own piece, and what the      *)
(* piece becomes.                                                           *)
Rid(m) == IF Is(m, "EN_PASSANT") THEN {8 * Rank(m.from) + File(m.to)} ELSE {m.to}
Becomes(m) == IF m.promoted = NONE THEN m.piece ELSE m.promoted

(* The move takes one own piece from its square and no other.               *)
Lifts(p, m) ==
  /\ m.piece \in PieceKinds /\ m.from \in Own(p, m.piece) /\ m.to \in Squares
  /\ Becomes(m) \in PieceKinds /\ (Becomes(m) = "king" <=> m.piece = "king")
  /\ \A k \in PieceKinds : Own(p, k) \cap Rid(m) = {}

(* D is the board after the move.                                           *)
Results(p, m, c, D) ==
  /\ D \in Boards /\ c \in Colors /\ OPP(c) \in Colors /\ OPP(c) # c
  /\ \A k \in PieceKinds : D[OPP(c)][k] = Enemy(p, k) \ Rid(m)
  /\ D[c]["king"] = IF m.piece = "king" THEN {m.to} ELSE Own(p, "king")
  /\ OccupiedBy(D) = (p.occupied_sqs \ ({m.from} \cup Rid(m))) \cup {m.to}

(* What Moved, the move of the rules, does to the boards.                   *)
LEMMA MovedIs ==
  ASSUME NEW p, Good(p), NEW m, Lifts(p, m), NEW c, c = p.turn
  PROVE  Results(p, m, c, Moved(p.pieces, c, m))
  <1>0. PICK D : D = Moved(p.pieces, c, m)
    OBVIOUS
  <1>1. c \in Colors /\ OPP(c) \in Colors /\ OPP(c) # c /\ \A d \in Colors : d = c \/ d = OPP(c)
    BY OppIs DEF Good
  <1>2. /\ p.pieces \in Boards /\ Disjoint(p.pieces) /\ OneKing(p.pieces) /\ Derived(p)
    BY DEF Good, Raw
  <1>3. PICK b, R : b = Becomes(m) /\ R = Rid(m)
    OBVIOUS
  <1>4. D = [d \in Colors |-> [k \in PieceKinds |->
               IF d = OPP(c) THEN p.pieces[d][k] \ R
               ELSE (p.pieces[d][k] \ {m.from}) \cup (IF k = b THEN {m.to} ELSE {})]]
    BY <1>0, <1>3 DEF Moved, Rid, Becomes
  <1>5. ASSUME NEW k \in PieceKinds
        PROVE  /\ D[OPP(c)][k] = Enemy(p, k) \ R
               /\ D[c][k] = (Own(p, k) \ {m.from}) \cup (IF k = b THEN {m.to} ELSE {})
    BY <1>1, <1>4 DEF Own, Enemy
  <1>6. /\ \A d \in Colors, k \in PieceKinds : p.pieces[d][k] \subseteq Squares
        /\ m.to \in Squares /\ b \in PieceKinds
    BY <1>2, <1>3 DEF Boards, Lifts
  <1>7. D \in Boards
    <2>1. \A d \in Colors, k \in PieceKinds :
            (IF d = OPP(c) THEN p.pieces[d][k] \ R
             ELSE (p.pieces[d][k] \ {m.from}) \cup (IF k = b THEN {m.to} ELSE {})) \in SUBSET Squares
      BY <1>6
    <2> QED BY <1>4, <2>1 DEF Boards
  <1>8. D[c]["king"] = IF m.piece = "king" THEN {m.to} ELSE Own(p, "king")
    <2>1. "king" \in PieceKinds
      BY DEF PieceKinds
    <2>2. D[c]["king"] = (Own(p, "king") \ {m.from}) \cup (IF "king" = b THEN {m.to} ELSE {})
      BY <1>5, <2>1
    <2>3. CASE m.piece = "king"
      <3>1. b = "king" /\ m.from \in Own(p, "king")
        BY <1>3, <2>3 DEF Lifts
      <3>2. Own(p, "king") = {m.from}
        BY <1>1, <1>2, <3>1 DEF OneKing, Own
      <3> QED BY <2>2, <2>3, <3>1, <3>2
    <2>4. CASE m.piece # "king"
      <3>1. b # "king" /\ m.from \in Own(p, m.piece) /\ m.piece \in PieceKinds
        BY <1>3, <2>4 DEF Lifts
      <3>2. m.from \notin Own(p, "king")
        BY <1>1, <1>2, <1>6, <2>1, <2>4, <3>1 DEF Disjoint, Own
      <3> QED BY <2>2, <2>4, <3>1, <3>2
    <2> QED BY <2>3, <2>4
  <1>9. ASSUME NEW x PROVE x \in OccupiedBy(D) <=> x \in (p.occupied_sqs \ ({m.from} \cup R)) \cup {m.to}
    <2>1. x \in OccupiedBy(D) <=> \E d \in Colors, k \in PieceKinds : x \in D[d][k]
      BY Occupied DEF OccupiedBy, Colors
    <2>2. x \in OccupiedBy(D) <=> \E k \in PieceKinds : x \in D[c][k] \/ x \in D[OPP(c)][k]
      BY <1>1, <2>1
    <2>3. x \in p.occupied_sqs <=> \E k \in PieceKinds : x \in Own(p, k) \/ x \in Enemy(p, k)
      BY <1>1, <1>2, OccupiedSqs DEF Own, Enemy
    <2>4. m.from \in Own(p, m.piece) /\ m.piece \in PieceKinds
      BY DEF Lifts
    <2>5. \A k \in PieceKinds : m.from \notin Enemy(p, k)
      BY <1>1, <1>2, <1>6, <2>4 DEF Disjoint, Own, Enemy
    <2>6. \A k \in PieceKinds : Own(p, k) \cap R = {}
      BY <1>3 DEF Lifts
    <2> QED BY <1>5, <1>6, <2>2, <2>3, <2>4, <2>5, <2>6
  <1> QED BY <1>0, <1>1, <1>3, <1>5, <1>7, <1>8, <1>9 DEF Results

-----------------------------------------------------------------------------
(* The pieces that attack the king whatever stands between, those on a line *)
(* with it, and what stands between.                                        *)
Jumper(p, u) == \E k \in PieceKinds : u \in Enemy(p, k) /\ Jumps(k, OPP(p.turn), u, KingSquare(p))
Slider(p, u) == \E k \in PieceKinds : u \in Enemy(p, k) /\ Lined(k, u, KingSquare(p))
Way(p, u) == Seg(KingSquare(p), u)
Screen(p, u) == Between[KingSquare(p)][u] \cap p.occupied_sqs

(* A move from s to t takes every piece that jumps at the king, and stays   *)
(* on the way of, or takes, every slider with nothing else between.         *)
Safe(p, s, t) ==
  /\ \A u \in Squares : Jumper(p, u) => u = t
  /\ \A u \in Squares : Slider(p, u) /\ Screen(p, u) \subseteq {s} => t \in Way(p, u)

(* Pieces of a good position.                                               *)
LEMMA PiecesAre ==
  ASSUME NEW p, Good(p)
  PROVE  /\ p.turn \in Colors /\ OPP(p.turn) \in Colors /\ OPP(p.turn) # p.turn
         /\ p.pieces \in Boards
         /\ \A k \in PieceKinds : Own(p, k) \subseteq Squares /\ Enemy(p, k) \subseteq Squares
         /\ \A j, k \in PieceKinds : \A s : ~(s \in Own(p, j) /\ s \in Enemy(p, k))
         /\ \A j, k \in PieceKinds : \A s : s \in Own(p, j) /\ s \in Own(p, k) => j = k
         /\ \A j, k \in PieceKinds : \A s : s \in Enemy(p, j) /\ s \in Enemy(p, k) => j = k
         /\ \A s : s \in p.occupied_sqs <=> \E k \in PieceKinds : s \in Own(p, k) \/ s \in Enemy(p, k)
         /\ p.occupied_sqs = OccupiedBy(p.pieces) /\ p.occupied_sqs \subseteq Squares
         /\ KingSquare(p) \in Squares /\ Own(p, "king") = {KingSquare(p)}
         /\ KingSquare(p) \in p.occupied_sqs
         /\ \E h \in Squares : Enemy(p, "king") = {h}
  <1>1. p.turn \in Colors /\ OPP(p.turn) \in Colors /\ OPP(p.turn) # p.turn
        /\ \A d \in Colors : d = p.turn \/ d = OPP(p.turn)
    BY OppIs DEF Good
  <1>2. p.pieces \in Boards /\ Disjoint(p.pieces) /\ OneKing(p.pieces) /\ Derived(p)
    BY DEF Good, Raw
  <1>3. \A k \in PieceKinds : Own(p, k) \subseteq Squares /\ Enemy(p, k) \subseteq Squares
    BY <1>1, <1>2 DEF Boards, Own, Enemy
  <1>4. /\ \A j, k \in PieceKinds : \A s : ~(s \in Own(p, j) /\ s \in Enemy(p, k))
        /\ \A j, k \in PieceKinds : \A s : s \in Own(p, j) /\ s \in Own(p, k) => j = k
        /\ \A j, k \in PieceKinds : \A s : s \in Enemy(p, j) /\ s \in Enemy(p, k) => j = k
    <2>1. \A j, k \in PieceKinds, s \in Squares : ~(s \in Own(p, j) /\ s \in Enemy(p, k))
      BY <1>1, <1>2 DEF Disjoint, Own, Enemy
    <2>2. \A j, k \in PieceKinds, s \in Squares : s \in Own(p, j) /\ s \in Own(p, k) => j = k
      BY <1>1, <1>2 DEF Disjoint, Own
    <2>3. \A j, k \in PieceKinds, s \in Squares : s \in Enemy(p, j) /\ s \in Enemy(p, k) => j = k
      BY <1>1, <1>2 DEF Disjoint, Enemy
    <2> QED BY <1>3, <2>1, <2>2, <2>3
  <1>5. \A s : s \in p.occupied_sqs <=> \E k \in PieceKinds : s \in Own(p, k) \/ s \in Enemy(p, k)
    BY <1>1, <1>2, OccupiedSqs DEF Own, Enemy
  <1>6. p.occupied_sqs = OccupiedBy(p.pieces)
    BY <1>2 DEF Derived, OccupiedBy
  <1>7. KingSquare(p) \in Squares /\ Own(p, "king") = {KingSquare(p)}
    BY OneOwnKing
  <1>8. KingSquare(p) \in p.occupied_sqs
    BY <1>5, <1>7 DEF PieceKinds
  <1>9. \E h \in Squares : Enemy(p, "king") = {h}
    BY <1>1, <1>2 DEF OneKing, Enemy
  <1> QED BY <1>1, <1>2, <1>3, <1>4, <1>5, <1>6, <1>7, <1>8, <1>9

(* The king is attacked when a piece jumps at it, or slides at it with      *)
(* nothing between.                                                         *)
LEMMA CheckIs ==
  ASSUME NEW p, Good(p)
  PROVE  InCheck(p.pieces, p.turn) <=>
           \E u \in Squares : Jumper(p, u) \/ (Slider(p, u) /\ Screen(p, u) = {})
  <1>0. PICK K, c, o : K = KingSquare(p) /\ c = p.turn /\ o = OPP(c)
    OBVIOUS
  <1>1. /\ K \in Squares /\ p.pieces[c]["king"] = {K} /\ c \in Colors /\ o \in Colors
        /\ p.pieces \in Boards /\ p.occupied_sqs = OccupiedBy(p.pieces)
        /\ \A k \in PieceKinds : Enemy(p, k) \subseteq Squares /\ Enemy(p, k) = p.pieces[o][k]
    BY <1>0, PiecesAre DEF Own, Enemy
  <1>2. InCheck(p.pieces, c) <=>
           \E k \in PieceKinds : \E u \in p.pieces[o][k] :
             u \in Squares /\ Hits(k, o, u, K, OccupiedBy(p.pieces))
    BY <1>0, <1>1, InCheckIs
  <1>3. \A k \in PieceKinds : \A u \in Squares :
          Hits(k, o, u, K, OccupiedBy(p.pieces)) <=>
            Jumps(k, o, u, K) \/ (Lined(k, u, K) /\ Screen(p, u) = {})
    <2> TAKE k \in PieceKinds
    <2> TAKE u \in Squares
    <2>1. Between[u][K] = Between[K][u]
      BY <1>1, LinesTurn
    <2> QED BY <1>0, <1>1, <2>1 DEF Hits, Screen
  <1> QED BY <1>0, <1>1, <1>2, <1>3 DEF Jumper, Slider

(* A move of another piece than the king, not en passant, leaves the king   *)
(* attacked exactly when it is not safe.                                    *)
LEMMA SafeIs ==
  ASSUME NEW p, Good(p), NEW m, Lifts(p, m), m.piece # "king", ~Is(m, "EN_PASSANT"), NEW c, c = p.turn
  PROVE  InCheck(Moved(p.pieces, c, m), c) <=> ~Safe(p, m.from, m.to)
  <1>0. PICK K, o, D, s, t : K = KingSquare(p) /\ o = OPP(c) /\ D = Moved(p.pieces, c, m) /\ s = m.from /\ t = m.to
    OBVIOUS
  <1>1. /\ K \in Squares /\ Own(p, "king") = {K} /\ c \in Colors /\ o \in Colors
        /\ \A k \in PieceKinds : Enemy(p, k) \subseteq Squares
    BY <1>0, PiecesAre
  <1>2. Rid(m) = {t} /\ t \in Squares
    BY <1>0 DEF Rid, Lifts
  <1>3. /\ D \in Boards /\ D[c]["king"] = {K}
        /\ \A k \in PieceKinds : D[o][k] = Enemy(p, k) \ {t}
        /\ OccupiedBy(D) = (p.occupied_sqs \ ({s} \cup {t})) \cup {t}
    <2>1. /\ D \in Boards
          /\ \A k \in PieceKinds : D[OPP(c)][k] = Enemy(p, k) \ Rid(m)
          /\ D[c]["king"] = IF m.piece = "king" THEN {m.to} ELSE Own(p, "king")
          /\ OccupiedBy(D) = (p.occupied_sqs \ ({m.from} \cup Rid(m))) \cup {m.to}
      <3>1. Results(p, m, c, D)
        BY <1>0, MovedIs
      <3> QED BY <3>1 DEF Results
    <2>2. D[c]["king"] = {K}
      BY <1>1, <2>1
    <2>3. \A k \in PieceKinds : D[o][k] = Enemy(p, k) \ {t}
      BY <1>0, <1>2, <2>1
    <2>4. OccupiedBy(D) = (p.occupied_sqs \ ({s} \cup {t})) \cup {t}
      BY <1>0, <1>2, <2>1
    <2> QED BY <2>1, <2>2, <2>3, <2>4
  <1>4. InCheck(D, c) <=>
          \E k \in PieceKinds : \E u \in D[o][k] : u \in Squares /\ Hits(k, o, u, K, OccupiedBy(D))
    BY <1>0, <1>1, <1>3, InCheckIs
  <1>5. ASSUME NEW k \in PieceKinds, NEW u \in Squares
        PROVE  Hits(k, o, u, K, OccupiedBy(D)) <=>
                 \/ Jumps(k, o, u, K)
                 \/ Lined(k, u, K) /\ Screen(p, u) \subseteq {s} /\ t \notin Between[K][u]
    <2>1. Between[u][K] = Between[K][u]
      BY <1>1, LinesTurn
    <2>2. Between[K][u] \cap OccupiedBy(D) = {} <=> Screen(p, u) \subseteq {s} /\ t \notin Between[K][u]
      BY <1>0, <1>3 DEF Screen
    <2> QED BY <2>1, <2>2 DEF Hits
  <1>6. InCheck(D, c) <=>
          \E u \in Squares : /\ u # t
                             /\ \/ Jumper(p, u)
                                \/ Slider(p, u) /\ Screen(p, u) \subseteq {s} /\ t \notin Between[K][u]
    <2>1. ASSUME NEW k \in PieceKinds, NEW u \in D[o][k], u \in Squares, Hits(k, o, u, K, OccupiedBy(D))
          PROVE  /\ u # t
                 /\ \/ Jumper(p, u)
                    \/ Slider(p, u) /\ Screen(p, u) \subseteq {s} /\ t \notin Between[K][u]
      BY <1>0, <1>3, <1>5, <2>1 DEF Jumper, Slider
    <2>2. ASSUME NEW u \in Squares, u # t, Jumper(p, u)
          PROVE  \E k \in PieceKinds : u \in D[o][k] /\ Hits(k, o, u, K, OccupiedBy(D))
      BY ZenonT(30), <1>0, <1>3, <1>5, <2>2 DEF Jumper
    <2>3. ASSUME NEW u \in Squares, u # t, Slider(p, u), Screen(p, u) \subseteq {s}, t \notin Between[K][u]
          PROVE  \E k \in PieceKinds : u \in D[o][k] /\ Hits(k, o, u, K, OccupiedBy(D))
      BY ZenonT(30), <1>0, <1>3, <1>5, <2>3 DEF Slider
    <2> QED BY <1>4, <2>1, <2>2, <2>3
  <1> QED BY <1>0, <1>6 DEF Safe, Way, Seg

-----------------------------------------------------------------------------
(* In a lawful position no own piece attacks the enemy king, the enemy king *)
(* does not jump at the own one, and at most one enemy piece does.          *)
LEMMA EnemyKingSafe ==
  ASSUME NEW p, Good(p), Lawful(p), NEW h \in Enemy(p, "king")
  PROVE  \A k \in PieceKinds : \A s \in Own(p, k) : ~Hits(k, p.turn, s, h, p.occupied_sqs)
  <1>0. PICK c, o : c = p.turn /\ o = OPP(c)
    OBVIOUS
  <1>1. /\ c \in Colors /\ o \in Colors /\ p.pieces \in Boards /\ p.occupied_sqs = OccupiedBy(p.pieces)
        /\ h \in Squares /\ p.pieces[o]["king"] = {h} /\ OPP(o) = c
        /\ \A k \in PieceKinds : Own(p, k) \subseteq Squares /\ Own(p, k) = p.pieces[c][k]
    <2>1. \E g \in Squares : Enemy(p, "king") = {g}
      BY PiecesAre
    <2> QED BY <1>0, <2>1, PiecesAre, OppIs DEF Own, Enemy
  <1>2. ~InCheck(p.pieces, o)
    BY <1>0 DEF Lawful
  <1>3. InCheck(p.pieces, o) <=>
           \E k \in PieceKinds : \E u \in p.pieces[OPP(o)][k] :
             u \in Squares /\ Hits(k, OPP(o), u, h, OccupiedBy(p.pieces))
    BY <1>1, InCheckIs
  <1> QED BY <1>0, <1>1, <1>2, <1>3

(* A knight or a pawn jumps at the king from u.                             *)
JumpsFrom(p, u) ==
  \/ u \in Enemy(p, "knight") /\ KnightApart(KingSquare(p), u)
  \/ u \in Enemy(p, "pawn") /\ Aslant(OPP(p.turn), u, KingSquare(p))

(* In a lawful position a knight or a pawn alone jumps at the king, and at  *)
(* most one of them does.                                                   *)
LEMMA Jumpers ==
  ASSUME NEW p, Good(p), Lawful(p)
  PROVE  /\ \A u \in Squares : Jumper(p, u) <=> JumpsFrom(p, u)
         /\ \A u, w \in Squares : Jumper(p, u) /\ Jumper(p, w) => u = w
  <1>0. PICK K, c, o : K = KingSquare(p) /\ c = p.turn /\ o = OPP(c)
    OBVIOUS
  <1>1. /\ K \in Squares /\ c \in Colors /\ o \in Colors /\ Own(p, "king") = {K}
        /\ \E h \in Squares : Enemy(p, "king") = {h}
        /\ "king" \in PieceKinds /\ "knight" \in PieceKinds /\ "pawn" \in PieceKinds
    BY <1>0, PiecesAre DEF PieceKinds
  <1>2. PICK h \in Squares : Enemy(p, "king") = {h}
    BY <1>1
  <1>3. ~KingApart(h, K)
    <2>1. ~Hits("king", c, K, h, p.occupied_sqs)
      BY <1>0, <1>1, <1>2, EnemyKingSafe
    <2>2. ~Jumps("king", c, K, h)
      BY <2>1 DEF Hits
    <2>3. ~Jumps("king", o, h, K)
      BY <1>0, <1>1, <2>2, HitsTurn
    <2> QED BY <2>3 DEF Jumps
  <1>4. ASSUME NEW u \in Squares PROVE KnightApart(u, K) <=> KnightApart(K, u)
    <2>1. Jumps("knight", c, u, K) <=> Jumps("knight", o, K, u)
      BY <1>0, <1>1, HitsTurn
    <2> QED BY <2>1 DEF Jumps
  <1>5. ASSUME NEW u \in Squares PROVE Jumper(p, u) <=> JumpsFrom(p, u)
    <2>1. ASSUME NEW k \in PieceKinds, u \in Enemy(p, k), Jumps(k, o, u, K) PROVE JumpsFrom(p, u)
      <3>1. k # "king"
        BY <1>2, <1>3, <2>1 DEF Jumps
      <3> QED BY <1>0, <1>4, <2>1, <3>1 DEF Jumps, JumpsFrom
    <2>2. ASSUME JumpsFrom(p, u) PROVE \E k \in PieceKinds : u \in Enemy(p, k) /\ Jumps(k, o, u, K)
      BY <1>0, <1>1, <1>4, <2>2 DEF Jumps, JumpsFrom
    <2> QED BY <1>0, <2>1, <2>2 DEF Jumper
  <1>6. ASSUME NEW u \in Squares, JumpsFrom(p, u)
        PROVE  \E k \in Leapers : LeapsAtKing(p, k, u)
    <2>1. PICK k \in Leapers : u \in Enemy(p, k) /\ Jumps(k, o, u, K)
      BY <1>0, <1>4, <1>6 DEF JumpsFrom, Leapers, Jumps
    <2>2. k \in PieceKinds
      BY <2>1 DEF Leapers, PieceKinds
    <2>3. K \in Reach(p.pieces, k, o, u)
      BY <1>1, <2>1, <2>2, ReachIs DEF Hits
    <2> QED BY <1>0, <2>1, <2>3 DEF LeapsAtKing
  <1>7. ASSUME NEW u \in Squares, NEW w \in Squares, Jumper(p, u), Jumper(p, w) PROVE u = w
    BY <1>5, <1>6, <1>7 DEF Lawful
  <1> QED BY <1>5, <1>7

(* The mask of the pieces that jump.                                        *)
LEMMA JumpMask ==
  ASSUME NEW p, Good(p), Lawful(p)
  PROVE  /\ \A u \in Squares : Jumper(p, u) => PawnOrKnightMask(p) = {u}
         /\ (\A u \in Squares : ~Jumper(p, u)) => PawnOrKnightMask(p) = Universe
  <1>0. PICK K, c, o, king, knights :
          /\ K = KingSquare(p) /\ c = p.turn /\ o = OPP(c) /\ king = Own(p, "king")
          /\ knights = KnightAttacks(king) \cap Enemy(p, "knight")
    OBVIOUS
  <1>1. /\ K \in Squares /\ c \in Colors /\ o \in Colors /\ king = {K}
        /\ \A k \in PieceKinds : Enemy(p, k) \subseteq Squares
        /\ "king" \in PieceKinds /\ "knight" \in PieceKinds /\ "pawn" \in PieceKinds
        /\ \A u : ~(u \in Enemy(p, "knight") /\ u \in Enemy(p, "pawn"))
    <2>1. "knight" \in PieceKinds /\ "pawn" \in PieceKinds /\ "knight" # "pawn"
      BY DEF PieceKinds
    <2>2. \A u : ~(u \in Enemy(p, "knight") /\ u \in Enemy(p, "pawn"))
      BY <2>1, PiecesAre
    <2> QED BY <1>0, <2>1, <2>2, PiecesAre DEF PieceKinds
  <1>2. /\ \A u \in Squares : Jumper(p, u) <=> JumpsFrom(p, u)
        /\ \A u, w \in Squares : Jumper(p, u) /\ Jumper(p, w) => u = w
    BY Jumpers
  <1>3. \A u : u \in knights <=> u \in Squares /\ u \in Enemy(p, "knight") /\ KnightApart(K, u)
    <2>1. king \in SUBSET Squares
      BY <1>1
    <2> QED BY <1>0, <1>1, <2>1, JumpsAre
  <1>4. ASSUME NEW compass \in {East, West}, NEW back \in {East, West}, compass + back = 0
        PROVE  /\ PawnTargets(o, compass, Enemy(p, "pawn")) \cap king # {} =>
                    \E u \in Squares : JumpsFrom(p, u) /\ PawnTargets(c, back, king) = {u}
               /\ \A u \in Enemy(p, "pawn") : File(K) = File(u) + compass /\ Rank(K) = Rank(u) + Forward(o) =>
                    PawnTargets(o, compass, Enemy(p, "pawn")) \cap king # {}
    <2>1. \A t : t \in PawnTargets(o, compass, Enemy(p, "pawn")) <=>
            t \in Squares /\ \E u \in Enemy(p, "pawn") : File(t) = File(u) + compass /\ Rank(t) = Rank(u) + Forward(o)
      <3>1. Enemy(p, "pawn") \in SUBSET Squares
        BY <1>1
      <3> QED BY <1>1, <1>4, <3>1, TargetsAre
    <2>2. \A t : t \in PawnTargets(c, back, king) <=>
            t \in Squares /\ File(t) = File(K) + back /\ Rank(t) = Rank(K) + Forward(c)
      <3>1. king \in SUBSET Squares
        BY <1>1
      <3>2. \A t : t \in PawnTargets(c, back, king) <=>
              t \in Squares /\ \E s \in king : File(t) = File(s) + back /\ Rank(t) = Rank(s) + Forward(c)
        BY <1>1, <1>4, <3>1, TargetsAre
      <3> QED BY <1>1, <3>2
    <2>3. Forward(c) = -Forward(o) /\ Forward(o) \in {1, -1} /\ compass \in {1, -1} /\ back \in {1, -1}
      BY <1>0, <1>1, <1>4 DEF Forward, OPP, Colors, East, West
    <2>4. ASSUME NEW u \in Enemy(p, "pawn"), File(K) = File(u) + compass, Rank(K) = Rank(u) + Forward(o)
          PROVE  JumpsFrom(p, u) /\ PawnTargets(c, back, king) = {u}
      <3>1. /\ u \in Squares /\ Rank(u) \in 0 .. 7 /\ File(u) \in 0 .. 7
            /\ Rank(K) \in 0 .. 7 /\ File(K) \in 0 .. 7
        BY <1>1, SquareIs
      <3>2. Aslant(o, u, K)
        BY <2>3, <2>4, <3>1 DEF Aslant, Abs
      <3>3. ASSUME NEW t \in Squares
            PROVE  File(t) = File(K) + back /\ Rank(t) = Rank(K) + Forward(c) <=> t = u
        <4>1. Rank(t) \in 0 .. 7 /\ File(t) \in 0 .. 7
          BY SquareIs
        <4>2. File(t) = File(K) + back /\ Rank(t) = Rank(K) + Forward(c) <=> File(t) = File(u) /\ Rank(t) = Rank(u)
          BY <1>4, <2>3, <2>4, <3>1, <4>1
        <4> QED BY <3>1, <4>2, SameSquare
      <3> QED BY <1>0, <2>2, <2>4, <3>1, <3>2, <3>3 DEF JumpsFrom
    <2>5. Enemy(p, "pawn") \subseteq Squares
      BY <1>1
    <2>6. ASSUME PawnTargets(o, compass, Enemy(p, "pawn")) \cap king # {}
          PROVE  \E u \in Squares : JumpsFrom(p, u) /\ PawnTargets(c, back, king) = {u}
      <3>1. K \in PawnTargets(o, compass, Enemy(p, "pawn"))
        BY <1>1, <2>6
      <3>2. PICK u \in Enemy(p, "pawn") : File(K) = File(u) + compass /\ Rank(K) = Rank(u) + Forward(o)
        BY <2>1, <3>1
      <3> QED BY <2>4, <2>5, <3>2
    <2>7. ASSUME NEW u \in Enemy(p, "pawn"), File(K) = File(u) + compass /\ Rank(K) = Rank(u) + Forward(o)
          PROVE  PawnTargets(o, compass, Enemy(p, "pawn")) \cap king # {}
      BY <1>1, <2>1, <2>7
    <2> QED BY <2>6, <2>7
  <1>5. East \in {East, West} /\ West \in {East, West} /\ East + West = 0 /\ West + East = 0
    BY DEF East, West
  <1>6. PawnOrKnightMask(p) =
          IF knights # {} THEN knights
          ELSE IF PawnTargets(o, East, Enemy(p, "pawn")) \cap king # {} THEN PawnTargets(c, West, king)
          ELSE IF PawnTargets(o, West, Enemy(p, "pawn")) \cap king # {} THEN PawnTargets(c, East, king)
          ELSE Universe
    BY <1>0 DEF PawnOrKnightMask
  <1>7. ASSUME NEW u \in Squares, JumpsFrom(p, u) PROVE PawnOrKnightMask(p) = {u}
    <2>1. \A w \in Squares : JumpsFrom(p, w) => w = u
      BY <1>2, <1>7
    <2>2. CASE knights # {}
      <3>1. \A w \in knights : w \in Squares /\ JumpsFrom(p, w)
        BY <1>0, <1>3 DEF JumpsFrom
      <3>2. knights = {u}
        BY <2>1, <2>2, <3>1
      <3> QED BY <1>6, <2>2, <3>2
    <2>3. CASE knights = {}
      <3>1. u \in Enemy(p, "pawn") /\ Aslant(o, u, K)
        BY <1>0, <1>3, <1>7, <2>3 DEF JumpsFrom
      <3>2. CASE PawnTargets(o, East, Enemy(p, "pawn")) \cap king # {}
        <4>1. \E w \in Squares : JumpsFrom(p, w) /\ PawnTargets(c, West, king) = {w}
          BY <1>4, <1>5, <3>2
        <4> QED BY <1>6, <2>1, <2>3, <3>2, <4>1
      <3>3. CASE ~(PawnTargets(o, East, Enemy(p, "pawn")) \cap king # {})
        <4>1. File(K) # File(u) + East
          BY <1>4, <1>5, <3>1, <3>3 DEF Aslant
        <4>2. File(K) = File(u) + West /\ Rank(K) = Rank(u) + Forward(o)
          BY <1>1, <3>1, <4>1, SquareIs DEF Aslant, Abs, East, West
        <4>3. PawnTargets(o, West, Enemy(p, "pawn")) \cap king # {}
          BY <1>4, <1>5, <3>1, <4>2
        <4>4. \E w \in Squares : JumpsFrom(p, w) /\ PawnTargets(c, East, king) = {w}
          BY <1>4, <1>5, <4>3
        <4> QED BY <1>6, <2>1, <2>3, <3>3, <4>3, <4>4
      <3> QED BY <3>2, <3>3
    <2> QED BY <2>2, <2>3
  <1>8. ASSUME \A u \in Squares : ~JumpsFrom(p, u) PROVE PawnOrKnightMask(p) = Universe
    <2>1. knights = {}
      BY <1>0, <1>3, <1>8 DEF JumpsFrom
    <2>2. /\ ~(PawnTargets(o, East, Enemy(p, "pawn")) \cap king # {})
          /\ ~(PawnTargets(o, West, Enemy(p, "pawn")) \cap king # {})
      BY <1>4, <1>5, <1>8
    <2> QED BY <1>6, <2>1, <2>2
  <1> QED BY <1>2, <1>7, <1>8

(* The sliders that give check.                                             *)
LEMMA SlidersAre ==
  ASSUME NEW p, Good(p), NEW u
  PROVE  u \in (BishopAttacks(p.occupied_sqs, KingSquare(p)) \cap BishopQueen(p))
               \cup (RookAttacks(p.occupied_sqs, KingSquare(p)) \cap RookQueen(p))
         <=> u \in Squares /\ Slider(p, u) /\ Screen(p, u) = {}
  <1>0. PICK K, O : K = KingSquare(p) /\ O = p.occupied_sqs
    OBVIOUS
  <1>1. K \in Squares /\ \A k \in PieceKinds : Enemy(p, k) \subseteq Squares
    BY <1>0, PiecesAre
  <1>2. /\ u \in RookAttacks(O, K) <=> u \in Squares /\ RookLine(K, u) /\ Between[K][u] \cap O = {}
        /\ u \in BishopAttacks(O, K) <=> u \in Squares /\ BishopLine(K, u) /\ Between[K][u] \cap O = {}
    BY <1>1, SlidesAre
  <1>3. u \in Squares => (Slider(p, u) <=> \/ u \in RookQueen(p) /\ RookLine(K, u)
                                           \/ u \in BishopQueen(p) /\ BishopLine(K, u))
    <2> SUFFICES ASSUME u \in Squares
                 PROVE  Slider(p, u) <=> \/ u \in RookQueen(p) /\ RookLine(K, u)
                                         \/ u \in BishopQueen(p) /\ BishopLine(K, u)
      OBVIOUS
    <2>1. (RookLine(K, u) <=> RookLine(u, K)) /\ (BishopLine(K, u) <=> BishopLine(u, K))
      BY <1>1, LinesTurn
    <2> QED BY <1>0, <2>1 DEF Slider, Lined, RookQueen, BishopQueen, PieceKinds
  <1> QED BY <1>0, <1>2, <1>3 DEF Screen

(* A subset of the board has more than one square, or is empty, or is one.  *)
LEMMA OneOrMore ==
  ASSUME NEW S \in SUBSET Squares, S # {}
  PROVE  IF Cardinality(S) > 1 THEN \E u, w \in S : u # w ELSE \E u \in S : S = {u} /\ Index(S) = u
  <1>1. IsFiniteSet(S)
    <2>1. IsFiniteSet(Squares)
      <3>1. IsFiniteSet(0 .. 63)
        BY 0 \in Int, 63 \in Int, FS_Interval, Zenon
      <3> QED BY <3>1 DEF Squares
    <2> QED BY <2>1, FS_Subset
  <1>2. PICK u \in S : TRUE
    OBVIOUS
  <1>3. CASE S = {u}
    <2>1. Cardinality(S) = 1
      BY <1>3, FS_Singleton
    <2> QED BY <1>2, <1>3, <2>1 DEF Index
  <1>4. CASE S # {u}
    <2>1. PICK w \in S : w # u
      BY <1>2, <1>4
    <2>2. IsFiniteSet(S \ {u}) /\ Cardinality(S \ {u}) = Cardinality(S) - 1
      BY <1>1, <1>2, FS_RemoveElement
    <2>3. Cardinality(S \ {u}) \in Nat /\ Cardinality(S \ {u}) # 0
      BY <2>1, <2>2, FS_EmptySet, FS_CardinalityType
    <2>4. Cardinality(S) \in Nat
      BY <1>1, FS_CardinalityType
    <2>5. Cardinality(S) > 1
      BY <2>2, <2>3, <2>4
    <2> QED BY <1>2, <2>1, <2>5
  <1> QED BY <1>3, <1>4

(* Two sliders with nothing between and a square on both ways are one.      *)
LEMMA WaysMeet ==
  ASSUME NEW p, Good(p), NEW u \in Squares, NEW w \in Squares, Slider(p, u), Slider(p, w),
         u \notin Screen(p, w), w \notin Screen(p, u), NEW t, t \in Way(p, u), t \in Way(p, w)
  PROVE  u = w
  <1>0. PICK K : K = KingSquare(p)
    OBVIOUS
  <1>1. K \in Squares /\ u \in p.occupied_sqs /\ w \in p.occupied_sqs
    BY <1>0, PiecesAre DEF Slider
  <1>2. /\ RookLine(K, u) \/ BishopLine(K, u)
        /\ RookLine(K, w) \/ BishopLine(K, w)
    BY <1>0, <1>1, LinesTurn DEF Slider, Lined
  <1>3. u = w \/ u \in Between[K][w] \/ w \in Between[K][u]
    BY <1>0, <1>1, <1>2, Meet DEF Way
  <1> QED BY <1>0, <1>1, <1>3 DEF Screen

(* CheckMask: the squares that answer every check.                          *)
LEMMA MaskIs ==
  ASSUME NEW p, Good(p), Lawful(p), NEW t \in Squares
  PROVE  t \in CheckMask(p) <=>
           /\ \A u \in Squares : Jumper(p, u) => u = t
           /\ \A u \in Squares : Slider(p, u) /\ Screen(p, u) = {} => t \in Way(p, u)
  <1>0. PICK K, sliders, others :
          /\ K = KingSquare(p) /\ others = PawnOrKnightMask(p)
          /\ sliders = (BishopAttacks(p.occupied_sqs, KingSquare(p)) \cap BishopQueen(p))
                       \cup (RookAttacks(p.occupied_sqs, KingSquare(p)) \cap RookQueen(p))
    OBVIOUS
  <1>1. CheckMask(p) = IF sliders = {} THEN others
                       ELSE IF others # Universe \/ Cardinality(sliders) > 1 THEN {}
                       ELSE Between[K][Index(sliders)] \cup sliders
    BY <1>0 DEF CheckMask
  <1>2. \A u : u \in sliders <=> u \in Squares /\ Slider(p, u) /\ Screen(p, u) = {}
    BY <1>0, SlidersAre
  <1>3. /\ \A u \in Squares : Jumper(p, u) => others = {u}
        /\ (\A u \in Squares : ~Jumper(p, u)) => others = Universe
    BY <1>0, JumpMask
  <1>4. \A u, w \in sliders : t \in Way(p, u) /\ t \in Way(p, w) => u = w
    BY <1>2, WaysMeet
  <1>5. CASE sliders = {}
    BY <1>1, <1>2, <1>3, <1>5 DEF Universe
  <1>6. CASE sliders # {} /\ others # Universe
    <2>1. PICK u \in Squares : Jumper(p, u)
      BY <1>3, <1>6
    <2>2. PICK w \in sliders : TRUE
      BY <1>6
    <2>3. u \in p.occupied_sqs
      <3>1. u \in p.occupied_sqs <=> \E k \in PieceKinds : u \in Own(p, k) \/ u \in Enemy(p, k)
        BY PiecesAre
      <3> QED BY <2>1, <3>1 DEF Jumper
    <2>4. u # w
      <3>1. \A j, k \in PieceKinds : u \in Enemy(p, j) /\ u \in Enemy(p, k) => j = k
        BY PiecesAre
      <3> QED BY <1>2, <2>1, <2>2, <3>1 DEF Jumper, Slider, Jumps, Lined
    <2>5. u \notin Way(p, w)
      BY <1>2, <2>2, <2>3, <2>4 DEF Way, Seg, Screen
    <2> QED BY <1>1, <1>2, <1>6, <2>1, <2>2, <2>5
  <1>7. CASE sliders # {} /\ others = Universe /\ Cardinality(sliders) > 1
    <2>1. sliders \in SUBSET Squares
      BY <1>2
    <2>2. \E u, w \in sliders : u # w
      BY <1>7, <2>1, OneOrMore
    <2> QED BY <1>1, <1>2, <1>4, <1>7, <2>2
  <1>8. CASE sliders # {} /\ others = Universe /\ ~(Cardinality(sliders) > 1)
    <2>1. sliders \in SUBSET Squares
      BY <1>2
    <2>2. PICK u \in sliders : sliders = {u} /\ Index(sliders) = u
      BY <1>8, <2>1, OneOrMore
    <2>3. t \in CheckMask(p) <=> t \in Way(p, u)
      BY <1>0, <1>1, <1>8, <2>2 DEF Way, Seg
    <2>4. ~\E w \in Squares : Jumper(p, w)
      <3> SUFFICES ASSUME NEW w \in Squares, Jumper(p, w) PROVE FALSE
        OBVIOUS
      <3>1. Universe = {w}
        BY <1>3, <1>8
      <3>2. 0 \in Universe /\ 1 \in Universe
        BY DEF Universe, Squares
      <3> QED BY <3>1, <3>2
    <2> QED BY <1>2, <2>2, <2>3, <2>4
  <1> QED BY <1>5, <1>6, <1>7, <1>8

-----------------------------------------------------------------------------
(* Squares on a line of one of the two kinds.                               *)
LEMMA MapIs ==
  ASSUME NEW map \in {RookMap, BishopMap}, NEW a \in Squares, NEW b
  PROVE  /\ b \in map[a] => b \in Squares /\ (RookLine(a, b) \/ BishopLine(a, b))
         /\ b \in map[a] => \A x \in Between[a][b] : x \in map[a]
  <1>1. \A y : /\ y \in RookMap[a] <=> y \in Squares /\ RookLine(a, y)
               /\ y \in BishopMap[a] <=> y \in Squares /\ BishopLine(a, y)
    BY SlidesAre
  <1>2. ASSUME b \in Squares, NEW x \in Between[a][b]
        PROVE  x \in Squares /\ (RookLine(a, b) => RookLine(a, x)) /\ (BishopLine(a, b) => BishopLine(a, x))
    BY <1>2, BetweenOn
  <1> QED BY <1>1, <1>2

(* A slider sees the king but for one own piece, and t is on its way.       *)
OnPin(p, map, sliders, t) ==
  \E u \in sliders : u \in map[KingSquare(p)] /\ t \in Way(p, u) /\ \E b \in OwnBB(p) : Screen(p, u) = {b}

(* The pin lines of one kind: the ways of the sliders that see the king but *)
(* for one own piece.                                                       *)
LEMMA PinsAre ==
  ASSUME NEW p, Good(p), NEW map \in {RookMap, BishopMap}, NEW sliders,
         \A u \in sliders : \E k \in PieceKinds : u \in Enemy(p, k), NEW t
  PROVE  t \in Pins(p, map, sliders) <=> OnPin(p, map, sliders, t)
  <1>0. PICK K, O, own, attacks, xray :
          /\ K = KingSquare(p) /\ O = p.occupied_sqs /\ own = OwnBB(p) /\ attacks = Slides(map, O, K)
          /\ xray = XRayAttacks(map, attacks, O, own, K)
    OBVIOUS
  <1>1. /\ K \in Squares /\ O \subseteq Squares /\ own \subseteq O
        /\ \A u \in sliders : u \in Squares /\ u \in O /\ u \notin own
    <2>1. \A x : x \in own <=> \E k \in PieceKinds : x \in Own(p, k)
      BY <1>0, Occupied DEF OwnBB, Own
    <2> QED BY <1>0, <2>1, PiecesAre
  <1>2. t \in Pins(p, map, sliders) <=> \E u \in xray \cap sliders : t \in Way(p, u)
    BY <1>0 DEF Pins, Way, Seg
  <1>3. \A u : u \in attacks <=> u \in map[K] /\ Between[K][u] \cap O = {}
    BY <1>0 DEF Slides
  <1>4. Xor(O, own \cap attacks) = O \ (own \cap attacks)
    BY <1>1 DEF Xor
  <1>5. \A u : u \in xray <=> u \in map[K] /\ ~(Between[K][u] \cap O = {} <=> Between[K][u] \cap (O \ (own \cap attacks)) = {})
    BY <1>0, <1>3, <1>4 DEF XRayAttacks, Slides, Xor
  <1>6. ASSUME NEW u \in sliders, u \in map[K]
        PROVE  u \in xray <=> \E b \in own : Screen(p, u) = {b}
    <2>0. /\ u \in Squares /\ (RookLine(K, u) \/ BishopLine(K, u))
          /\ \A x \in Between[K][u] : x \in map[K] /\ x \in Squares
      <3>1. u \in Squares /\ Between[K][u] \subseteq Squares
        BY <1>1, <1>6, MapIs, LinesTurn
      <3> QED BY <1>1, <1>6, <3>1, MapIs
    <2>1. Screen(p, u) = Between[K][u] \cap O
      BY <1>0 DEF Screen
    <2>2. ASSUME NEW b \in own, Screen(p, u) = {b} PROVE u \in xray
      <3>1. b \in Between[K][u] /\ b \in O
        BY <2>1, <2>2
      <3>2. Between[K][b] \subseteq Between[K][u] /\ b \notin Between[K][b]
        BY <1>1, <2>0, <3>1, BetweenOn
      <3>3. Between[K][b] \cap O = {}
        BY <2>1, <2>2, <3>2
      <3>4. b \in attacks
        BY <1>3, <2>0, <3>1, <3>3
      <3>5. Between[K][u] \cap (O \ (own \cap attacks)) = {}
        BY <2>1, <2>2, <3>4
      <3> QED BY <1>5, <1>6, <3>1, <3>5
    <2>3. ASSUME u \in xray PROVE \E b \in own : Screen(p, u) = {b}
      <3>1. Between[K][u] \cap O # {} /\ \A x \in Between[K][u] \cap O : x \in own /\ x \in attacks
        BY <1>5, <2>3
      <3>2. PICK b \in Between[K][u] \cap O : TRUE
        BY <3>1
      <3>3. ASSUME NEW x \in Between[K][u] \cap O PROVE x = b
        <4>1. Between[K][x] \cap O = {} /\ Between[K][b] \cap O = {}
          BY <1>3, <3>1, <3>2, <3>3
        <4>2. x = b \/ x \in Between[K][b] \/ b \in Between[K][x]
          <5>1. x \in Seg(K, u) /\ b \in Seg(K, u)
            BY <3>2, <3>3 DEF Seg
          <5> QED BY <1>1, <2>0, <5>1, SameWay
        <4> QED BY <3>2, <3>3, <4>1, <4>2
      <3> QED BY <2>1, <3>1, <3>2, <3>3
    <2> QED BY <2>2, <2>3
  <1>7. \A u \in xray : u \in map[K]
    BY <1>5
  <1> QED BY <1>0, <1>2, <1>6, <1>7 DEF OnPin

(* No slider that sees the king but for s stops the move from s to t.       *)
FreeTo(p, s, t) ==
  \A u \in Squares : Slider(p, u) /\ Screen(p, u) = {s} => t \in Way(p, u)

(* A move is safe when it answers the checks and leaves no pin.             *)
LEMMA SafeSplits ==
  ASSUME NEW p, Good(p), Lawful(p), NEW s, NEW t \in Squares
  PROVE  Safe(p, s, t) <=> t \in CheckMask(p) /\ FreeTo(p, s, t)
  <1>1. \A u : Screen(p, u) \subseteq {s} <=> Screen(p, u) = {} \/ Screen(p, u) = {s}
    OBVIOUS
  <1> QED BY <1>1, MaskIs DEF Safe, FreeTo

(* One kind of lines with its sliders.                                      *)
Kind(p, map, sliders) ==
  \/ map = RookMap /\ sliders = RookQueen(p)
  \/ map = BishopMap /\ sliders = BishopQueen(p)

(* The sliders of a kind are enemy pieces that see along its lines.         *)
LEMMA KindIs ==
  ASSUME NEW p, Good(p), NEW map, NEW sliders, Kind(p, map, sliders)
  PROVE  /\ map \in {RookMap, BishopMap}
         /\ \A u \in sliders : u \in Squares /\ u \in p.occupied_sqs /\ \E k \in PieceKinds : u \in Enemy(p, k)
         /\ \A u \in sliders : u \in map[KingSquare(p)] => Slider(p, u)
  <1>1. \A u \in sliders : \E k \in PieceKinds : u \in Enemy(p, k)
    BY DEF Kind, RookQueen, BishopQueen, PieceKinds
  <1>2. \A u \in sliders : u \in Squares /\ u \in p.occupied_sqs
    BY <1>1, PiecesAre
  <1>3. ASSUME NEW u \in sliders, u \in map[KingSquare(p)] PROVE Slider(p, u)
    <2>1. KingSquare(p) \in Squares
      BY PiecesAre
    <2>2. \/ map = RookMap /\ RookLine(KingSquare(p), u) /\ sliders = RookQueen(p)
          \/ map = BishopMap /\ BishopLine(KingSquare(p), u) /\ sliders = BishopQueen(p)
      <3>1. /\ u \in RookMap[KingSquare(p)] <=> u \in Squares /\ RookLine(KingSquare(p), u)
            /\ u \in BishopMap[KingSquare(p)] <=> u \in Squares /\ BishopLine(KingSquare(p), u)
        BY <2>1, SlidesAre
      <3> QED BY <1>3, <3>1 DEF Kind
    <2>3. \/ map = RookMap /\ RookLine(u, KingSquare(p)) /\ sliders = RookQueen(p)
          \/ map = BishopMap /\ BishopLine(u, KingSquare(p)) /\ sliders = BishopQueen(p)
      BY <1>2, <1>3, <2>1, <2>2, LinesTurn
    <2> QED BY <2>3 DEF Slider, Lined, RookQueen, BishopQueen, PieceKinds
  <1> QED BY <1>1, <1>2, <1>3 DEF Kind

(* A slider on a line with the king is of one of the kinds.                 *)
LEMMA SliderKind ==
  ASSUME NEW p, Good(p), NEW u \in Squares, Slider(p, u)
  PROVE  \/ u \in RookQueen(p) /\ u \in RookMap[KingSquare(p)]
         \/ u \in BishopQueen(p) /\ u \in BishopMap[KingSquare(p)]
  <1>1. KingSquare(p) \in Squares
    BY PiecesAre
  <1>2. (RookLine(u, KingSquare(p)) => u \in RookMap[KingSquare(p)])
        /\ (BishopLine(u, KingSquare(p)) => u \in BishopMap[KingSquare(p)])
    BY <1>1, LinesTurn, SlidesAre
  <1> QED BY <1>2 DEF Slider, Lined, RookQueen, BishopQueen

(* An own piece is on a pin line when a slider of the kind sees the king    *)
(* but for it.                                                              *)
LEMMA OwnPinned ==
  ASSUME NEW p, Good(p), NEW map, NEW sliders, Kind(p, map, sliders), NEW s \in OwnBB(p)
  PROVE  s \in Pins(p, map, sliders) <=>
           \E u \in sliders : u \in map[KingSquare(p)] /\ Screen(p, u) = {s}
  <1>1. /\ map \in {RookMap, BishopMap}
        /\ \A u \in sliders : u \in Squares /\ u \in p.occupied_sqs /\ \E k \in PieceKinds : u \in Enemy(p, k)
    BY KindIs
  <1>2. s \in Pins(p, map, sliders) <=> OnPin(p, map, sliders, s)
    <2>1. \A u \in sliders : \E k \in PieceKinds : u \in Enemy(p, k)
      BY <1>1
    <2> QED BY <1>1, <2>1, PinsAre
  <1>3. s \in p.occupied_sqs /\ \A u \in sliders : u # s
    <2>1. \E k \in PieceKinds : s \in Own(p, k)
      BY Occupied DEF OwnBB, Own
    <2> QED BY <1>1, <2>1, PiecesAre
  <1>4. \A u \in sliders : s \in Way(p, u) <=> s \in Screen(p, u)
    BY <1>3 DEF Way, Seg, Screen
  <1> QED BY <1>2, <1>4 DEF OnPin

(* A piece that is on no pin line may go anywhere.                          *)
LEMMA Unpinned ==
  ASSUME NEW p, Good(p), NEW s \in OwnBB(p), s \notin PinHV(p), s \notin PinDiag(p), NEW t
  PROVE  FreeTo(p, s, t)
  <1>1. ASSUME NEW u \in Squares, Slider(p, u), Screen(p, u) = {s} PROVE FALSE
    BY <1>1, SliderKind, OwnPinned DEF Kind, PinHV, PinDiag
  <1> QED BY <1>1 DEF FreeTo

(* A piece on a pin line of one kind may go along that kind of line only,   *)
(* to the squares of the pin lines of the kind.                             *)
LEMMA Pinned ==
  ASSUME NEW p, Good(p), NEW map, NEW sliders, Kind(p, map, sliders), NEW s \in OwnBB(p),
         s \in Pins(p, map, sliders), NEW t \in Squares, t # s
  PROVE  /\ FreeTo(p, s, t) => t \in map[s] /\ t \in Pins(p, map, sliders)
         /\ t \in map[s] /\ Between[s][t] \cap p.occupied_sqs = {} /\ t \in Pins(p, map, sliders) =>
              FreeTo(p, s, t)
  <1>0. PICK K : K = KingSquare(p)
    OBVIOUS
  <1>1. /\ map \in {RookMap, BishopMap} /\ K \in Squares /\ K \in p.occupied_sqs
        /\ \A u \in sliders : u \in Squares /\ u \in p.occupied_sqs /\ \E k \in PieceKinds : u \in Enemy(p, k)
        /\ \A u \in sliders : u \in map[K] => Slider(p, u)
    BY <1>0, KindIs, PiecesAre
  <1>2. PICK u \in sliders : u \in map[K] /\ Screen(p, u) = {s}
    BY <1>0, OwnPinned
  <1>3. t \in Pins(p, map, sliders) <=> OnPin(p, map, sliders, t)
    <2>1. \A w \in sliders : \E k \in PieceKinds : w \in Enemy(p, k)
      BY <1>1
    <2> QED BY <1>0, <1>1, <2>1, PinsAre
  <1>4. u \in Squares /\ Slider(p, u) /\ u \in p.occupied_sqs /\ s \in Between[K][u] /\ s \in Squares
    <2>1. u \in Squares /\ Slider(p, u) /\ u \in p.occupied_sqs /\ s \in Between[K][u]
      BY <1>0, <1>1, <1>2 DEF Screen
    <2> QED BY <1>1, <2>1, BetweenOn
  <1>5. RookLine(K, u) \/ BishopLine(K, u)
    BY <1>1, <1>2, MapIs
  <1>6. ASSUME FreeTo(p, s, t) PROVE t \in map[s] /\ t \in Pins(p, map, sliders)
    <2>1. t \in Way(p, u)
      BY <1>2, <1>4, <1>6 DEF FreeTo
    <2>2. t \in Pins(p, map, sliders)
      BY <1>0, <1>2, <1>3, <2>1 DEF OnPin
    <2>3. s \in Seg(K, u) /\ t \in Seg(K, u)
      BY <1>0, <1>4, <2>1 DEF Way, Seg
    <2>4. (RookLine(K, u) => RookLine(s, t)) /\ (BishopLine(K, u) => BishopLine(s, t))
      BY <1>1, <1>4, <1>5, <2>3, SameWay
    <2>5. t \in map[s]
      <3>1. \/ map = RookMap /\ RookLine(K, u)
            \/ map = BishopMap /\ BishopLine(K, u)
        BY <1>1, <1>2, SlidesAre
      <3> QED BY <1>4, <2>4, <3>1, SlidesAre
    <2> QED BY <2>2, <2>5
  <1>7. ASSUME t \in map[s], Between[s][t] \cap p.occupied_sqs = {}, t \in Pins(p, map, sliders)
        PROVE  FreeTo(p, s, t)
    <2>1. PICK w \in sliders : w \in map[K] /\ t \in Way(p, w)
      BY <1>0, <1>3, <1>7 DEF OnPin
    <2>2. \/ RookLine(K, u) /\ RookLine(K, w) /\ RookLine(s, t)
          \/ BishopLine(K, u) /\ BishopLine(K, w) /\ BishopLine(s, t)
      BY <1>1, <1>2, <1>4, <1>7, <2>1, SlidesAre
    <2>3. t \in Seg(K, u) \/ u \in Between[s][t] \/ K \in Between[s][t]
      <3>1. w \in Squares /\ t \in Seg(K, w)
        BY <1>0, <1>1, <2>1 DEF Way
      <3> QED BY <1>1, <1>4, <2>2, <3>1, PinnedMove
    <2>4. t \in Way(p, u)
      BY <1>0, <1>1, <1>4, <1>7, <2>3 DEF Way
    <2>5. ASSUME NEW v \in Squares, Slider(p, v), Screen(p, v) = {s} PROVE v = u
      <3>1. s \in Way(p, v) /\ s \in Way(p, u)
        BY <1>2, <2>5 DEF Way, Seg, Screen
      <3>2. u # s /\ v # s
        <4>1. \A j, k \in PieceKinds : \A x : ~(x \in Own(p, j) /\ x \in Enemy(p, k))
          BY PiecesAre
        <4>2. \E k \in PieceKinds : s \in Own(p, k)
          BY Occupied DEF OwnBB, Own
        <4> QED BY <1>1, <2>5, <4>1, <4>2 DEF Slider
      <3> QED BY <1>2, <1>4, <2>5, <3>1, <3>2, WaysMeet
    <2> QED BY <2>4, <2>5 DEF FreeTo
  <1> QED BY <1>6, <1>7

(* No piece is pinned both ways.                                            *)
LEMMA PinnedOnce ==
  ASSUME NEW p, Good(p), NEW s \in OwnBB(p), s \in PinHV(p)
  PROVE  s \notin PinDiag(p)
  <1>0. PICK K : K = KingSquare(p)
    OBVIOUS
  <1>1. Kind(p, RookMap, RookQueen(p)) /\ Kind(p, BishopMap, BishopQueen(p))
    BY DEF Kind
  <1>2. SUFFICES ASSUME s \in PinDiag(p) PROVE FALSE
    OBVIOUS
  <1>3. PICK u \in RookQueen(p) : u \in RookMap[K] /\ Screen(p, u) = {s}
    BY <1>0, <1>1, OwnPinned DEF PinHV
  <1>4. PICK w \in BishopQueen(p) : w \in BishopMap[K] /\ Screen(p, w) = {s}
    BY <1>0, <1>1, <1>2, OwnPinned DEF PinDiag
  <1>5. K \in Squares /\ u \in Squares /\ Slider(p, u) /\ w \in Squares /\ Slider(p, w)
    BY <1>0, <1>1, <1>3, <1>4, KindIs, PiecesAre
  <1>6. s \in Way(p, w) /\ s \in Way(p, u)
    BY <1>3, <1>4 DEF Way, Seg, Screen
  <1>7. u # s /\ w # s
    <2>1. \A j, k \in PieceKinds : \A x : ~(x \in Own(p, j) /\ x \in Enemy(p, k))
      BY PiecesAre
    <2>2. \E k \in PieceKinds : s \in Own(p, k)
      BY Occupied DEF OwnBB, Own
    <2> QED BY <1>5, <2>1, <2>2 DEF Slider
  <1>8. u = w
    BY <1>3, <1>4, <1>5, <1>6, <1>7, WaysMeet
  <1>9. RookLine(K, u) /\ BishopLine(K, u)
    BY <1>3, <1>4, <1>5, <1>8, SlidesAre
  <1> QED BY <1>5, <1>9, LinesTurn

-----------------------------------------------------------------------------
(* A move of the lists that are no pawn's: taking when an enemy stands      *)
(* there, quiet otherwise.                                                  *)
Listed(p, s, t, k) == IF t \in EnemyBB(p) THEN Taking(p, s, t, k) ELSE Quiet(s, t, k)

(* The squares a move may lead to.                                          *)
Free(p) == EnemyBB(p) \cup Empty(p)

(* A move may lead to any square but one of an own piece or the enemy king. *)
LEMMA FreeIs ==
  ASSUME NEW p, Good(p), NEW t
  PROVE  t \in Free(p) <=> /\ t \in Squares /\ t \notin Occupancy(p.pieces, p.turn)
                           /\ t \notin Enemy(p, "king")
  <1>1. /\ t \in p.occupied_sqs <=> \E k \in PieceKinds : t \in Own(p, k) \/ t \in Enemy(p, k)
        /\ \A j, k \in PieceKinds : ~(t \in Own(p, j) /\ t \in Enemy(p, k))
        /\ \A k \in PieceKinds : t \in Enemy(p, k) => t \in Squares
    BY PiecesAre
  <1>2. /\ t \in Occupancy(p.pieces, p.turn) <=> \E k \in PieceKinds : t \in Own(p, k)
        /\ t \in Occupancy(p.pieces, OPP(p.turn)) <=> \E k \in PieceKinds : t \in Enemy(p, k)
    BY Occupied DEF Own, Enemy
  <1>3. "king" \in PieceKinds
    BY DEF PieceKinds
  <1> QED BY <1>1, <1>2, <1>3 DEF Free, EnemyBB, Empty

(* What the generator lists is what the rules list: the mailbox names what  *)
(* stands on the square.                                                    *)
LEMMA ToIs ==
  ASSUME NEW p, Good(p), NEW k, NEW s, NEW t \in Free(p)
  PROVE  Listed(p, s, t, k) = To(p, s, k, t)
  <1>1. p.pieces \in Boards /\ Disjoint(p.pieces) /\ OPP(p.turn) \in Colors /\ Derived(p)
    BY PiecesAre DEF Good
  <1>2. CASE t \in EnemyBB(p)
    <2>1. p.mailbox[t] \in PieceKinds \ {"king"} /\ t \in Enemy(p, p.mailbox[t])
      BY <1>2, EnemyIs
    <2>2. PICK j : j = p.mailbox[t]
      OBVIOUS
    <2>3. PieceOn(p.pieces, t) = j
      BY <1>1, <2>1, <2>2, PieceOnIs DEF Enemy
    <2>4. t \in Occupancy(p.pieces, OPP(p.turn))
      BY <1>2 DEF EnemyBB
    <2> QED BY <1>2, <2>2, <2>3, <2>4 DEF Listed, To, Taking, Quiet
  <1>3. CASE t \notin EnemyBB(p)
    <2>1. t \in Squares /\ t \notin p.occupied_sqs
      BY <1>3 DEF Free, Empty
    <2>2. \A c \in Colors, j \in PieceKinds : t \notin p.pieces[c][j]
      BY <1>1, <2>1, OccupiedSqs
    <2>3. PieceOn(p.pieces, t) = NONE /\ t \notin Occupancy(p.pieces, OPP(p.turn))
      BY <1>1, <2>2, Occupied DEF PieceOn
    <2>4. To(p, s, k, t) = [Quiet(s, t, k) EXCEPT !.captured = NONE, !.flags = {}]
      BY <2>3 DEF To
    <2> QED BY <1>3, <2>4 DEF Listed, Quiet
  <1> QED BY <1>2, <1>3

(* An own piece never reaches the enemy king.                               *)
LEMMA ReachFree ==
  ASSUME NEW p, Good(p), Lawful(p), NEW k \in PieceKinds, NEW s \in Own(p, k), NEW t
  PROVE  t \in Reach(p.pieces, k, p.turn, s) \ Occupancy(p.pieces, p.turn) <=>
           t \in Free(p) /\ Hits(k, p.turn, s, t, p.occupied_sqs)
  <1>1. s \in Squares /\ p.turn \in Colors /\ p.occupied_sqs = OccupiedBy(p.pieces)
    BY PiecesAre
  <1>2. t \in Reach(p.pieces, k, p.turn, s) <=> t \in Squares /\ Hits(k, p.turn, s, t, p.occupied_sqs)
    BY <1>1, ReachIs
  <1>3. t \in Enemy(p, "king") => ~Hits(k, p.turn, s, t, p.occupied_sqs)
    BY EnemyKingSafe
  <1> QED BY <1>2, <1>3, FreeIs

-----------------------------------------------------------------------------
(* Where a pin lets knights, bishops, rooks and queens go.                  *)
Pinless(p, s) == s \notin PinHV(p) \cup PinDiag(p)
PinOK(p, k, s, t) ==
  \/ Pinless(p, s)
  \/ k = "bishop" /\ s \notin PinHV(p) /\ s \in PinDiag(p) /\ t \in PinDiag(p)
  \/ k = "rook" /\ s \notin PinDiag(p) /\ s \in PinHV(p) /\ t \in PinHV(p)
  \/ k = "queen" /\ s \in PinDiag(p) /\ BishopLine(s, t) /\ t \in PinDiag(p)
  \/ k = "queen" /\ s \in PinHV(p) /\ RookLine(s, t) /\ t \in PinHV(p)

OfficerKinds == {"knight", "bishop", "rook", "queen"}

(* m takes a piece of kind k from s to t as Officers lets it.               *)
OfficerMove(p, check, m, k, s, t) ==
  /\ s \in Own(p, k) /\ t \in Free(p) /\ t \in check
  /\ Hits(k, p.turn, s, t, p.occupied_sqs) /\ PinOK(p, k, s, t)
  /\ m = Listed(p, s, t, k)

(* What Officers lists, one move at a time.                                 *)
LEMMA OfficersAre ==
  ASSUME NEW p, Good(p), NEW check, NEW m
  PROVE  m \in Officers(p, check) <=>
           \E k \in OfficerKinds : \E s, t \in Squares : OfficerMove(p, check, m, k, s, t)
  <1> DEFINE hv == PinHV(p)
             diag == PinDiag(p)
             movable == (EnemyBB(p) \cup Empty(p)) \cap check
             rook(s) == RookAttacks(p.occupied_sqs, s) \cap movable
             bishop(s) == BishopAttacks(p.occupied_sqs, s) \cap movable
  <1> DEFINE A1 == UNION { ListMoves(p, s, KnightAttacks({s}) \cap movable, "knight") :
                         s \in Own(p, "knight") \ (hv \cup diag) }
             A2 == UNION { ListMoves(p, s, bishop(s), "bishop") : s \in Own(p, "bishop") \ (hv \cup diag) }
             A3 == UNION { ListMoves(p, s, bishop(s) \cap diag, "bishop") :
                         s \in (Own(p, "bishop") \ hv) \cap diag }
             A4 == UNION { ListMoves(p, s, rook(s), "rook") : s \in Own(p, "rook") \ (hv \cup diag) }
             A5 == UNION { ListMoves(p, s, rook(s) \cap hv, "rook") : s \in (Own(p, "rook") \ diag) \cap hv }
             A6 == UNION { ListMoves(p, s, bishop(s) \cap diag, "queen") : s \in Own(p, "queen") \cap diag }
             A7 == UNION { ListMoves(p, s, rook(s) \cap hv, "queen") : s \in Own(p, "queen") \cap hv }
             A8 == UNION { ListMoves(p, s, rook(s) \cup bishop(s), "queen") :
                         s \in Own(p, "queen") \ (hv \cup diag) }
             On(k, s, T) == s \in Own(p, k) /\ m \in ListMoves(p, s, T, k)
  <1>0. Officers(p, check) = A1 \cup A2 \cup A3 \cup A4 \cup A5 \cup A6 \cup A7 \cup A8
    BY Zenon DEF Officers
  <1>1. m \in Officers(p, check) <=>
          \/ m \in A1 \/ m \in A2 \/ m \in A3 \/ m \in A4 \/ m \in A5 \/ m \in A6 \/ m \in A7 \/ m \in A8
    <2> HIDE DEF A1, A2, A3, A4, A5, A6, A7, A8
    <2> QED BY <1>0
  <1>2. \A k, s, T : m \in ListMoves(p, s, T, k) <=> \E t \in T : m = Listed(p, s, t, k)
    BY DEF ListMoves, Listed
  <1>3. \A s \in Squares : \A t :
          /\ t \in KnightAttacks({s}) <=> t \in Squares /\ Hits("knight", p.turn, s, t, p.occupied_sqs)
          /\ t \in rook(s) <=> t \in Squares /\ RookLine(s, t) /\ Between[s][t] \cap p.occupied_sqs = {}
                                 /\ t \in movable
          /\ t \in bishop(s) <=> t \in Squares /\ BishopLine(s, t) /\ Between[s][t] \cap p.occupied_sqs = {}
                                 /\ t \in movable
    <2> TAKE s \in Squares
    <2> TAKE t
    <2>1. t \in KnightAttacks({s}) <=> t \in Squares /\ KnightApart(s, t)
      BY JumpsAre
    <2>2. t \in KnightAttacks({s}) <=> t \in Squares /\ Hits("knight", p.turn, s, t, p.occupied_sqs)
      BY <2>1 DEF Hits, Jumps, Lined
    <2> QED BY <2>2, SlidesAre
  <1>4. \A s, t :
          /\ Hits("rook", p.turn, s, t, p.occupied_sqs) <=>
               RookLine(s, t) /\ Between[s][t] \cap p.occupied_sqs = {}
          /\ Hits("bishop", p.turn, s, t, p.occupied_sqs) <=>
               BishopLine(s, t) /\ Between[s][t] \cap p.occupied_sqs = {}
          /\ Hits("queen", p.turn, s, t, p.occupied_sqs) <=>
               (RookLine(s, t) \/ BishopLine(s, t)) /\ Between[s][t] \cap p.occupied_sqs = {}
    BY DEF Hits, Jumps, Lined
  <1>5. \A t : t \in movable <=> t \in Free(p) /\ t \in check
    BY DEF Free
  <1>6. \A k \in OfficerKinds : Own(p, k) \subseteq Squares
    BY PiecesAre DEF PieceKinds, OfficerKinds
  <1>7. /\ m \in A1 <=> \E s \in Own(p, "knight") \ (hv \cup diag) :
                          m \in ListMoves(p, s, KnightAttacks({s}) \cap movable, "knight")
        /\ m \in A2 <=> \E s \in Own(p, "bishop") \ (hv \cup diag) : m \in ListMoves(p, s, bishop(s), "bishop")
        /\ m \in A3 <=> \E s \in (Own(p, "bishop") \ hv) \cap diag :
                          m \in ListMoves(p, s, bishop(s) \cap diag, "bishop")
        /\ m \in A4 <=> \E s \in Own(p, "rook") \ (hv \cup diag) : m \in ListMoves(p, s, rook(s), "rook")
        /\ m \in A5 <=> \E s \in (Own(p, "rook") \ diag) \cap hv : m \in ListMoves(p, s, rook(s) \cap hv, "rook")
        /\ m \in A6 <=> \E s \in Own(p, "queen") \cap diag : m \in ListMoves(p, s, bishop(s) \cap diag, "queen")
        /\ m \in A7 <=> \E s \in Own(p, "queen") \cap hv : m \in ListMoves(p, s, rook(s) \cap hv, "queen")
        /\ m \in A8 <=> \E s \in Own(p, "queen") \ (hv \cup diag) :
                          m \in ListMoves(p, s, rook(s) \cup bishop(s), "queen")
    <2> HIDE DEF hv, diag, movable, rook, bishop
    <2> QED OBVIOUS
  <1> HIDE DEF hv, diag, movable, rook, bishop, A1, A2, A3, A4, A5, A6, A7, A8
  <1> DEFINE Moves4(k) == \E s, t \in Squares : OfficerMove(p, check, m, k, s, t)
  <1>8. m \in A1 <=> Moves4("knight")
    <2>1. \A s, t : PinOK(p, "knight", s, t) <=> s \notin hv \cup diag
      BY DEF PinOK, Pinless, hv, diag
    <2>2. \A s \in Own(p, "knight") : s \in Squares
      BY <1>6 DEF OfficerKinds
    <2>3. m \in A1 <=> \E s \in Own(p, "knight") \ (hv \cup diag) : \E t \in KnightAttacks({s}) \cap movable :
                         m = Listed(p, s, t, "knight")
      BY <1>2, <1>7
    <2> QED BY <1>3, <1>5, <2>1, <2>2, <2>3 DEF OfficerMove
  <1>9. m \in A2 \/ m \in A3 <=> Moves4("bishop")
    <2>1. \A s, t : PinOK(p, "bishop", s, t) <=>
                      s \notin hv \cup diag \/ (s \notin hv /\ s \in diag /\ t \in diag)
      BY DEF PinOK, Pinless, hv, diag
    <2>2. \A s \in Own(p, "bishop") : s \in Squares
      BY <1>6 DEF OfficerKinds
    <2>3. m \in A2 <=> \E s \in Own(p, "bishop") \ (hv \cup diag) : \E t \in bishop(s) : m = Listed(p, s, t, "bishop")
      BY <1>2, <1>7
    <2>4. m \in A3 <=> \E s \in (Own(p, "bishop") \ hv) \cap diag : \E t \in bishop(s) \cap diag :
                         m = Listed(p, s, t, "bishop")
      BY <1>2, <1>7
    <2> QED BY <1>3, <1>4, <1>5, <2>1, <2>2, <2>3, <2>4 DEF OfficerMove
  <1>10. m \in A4 \/ m \in A5 <=> Moves4("rook")
    <2>1. \A s, t : PinOK(p, "rook", s, t) <=>
                      s \notin hv \cup diag \/ (s \notin diag /\ s \in hv /\ t \in hv)
      BY DEF PinOK, Pinless, hv, diag
    <2>2. \A s \in Own(p, "rook") : s \in Squares
      BY <1>6 DEF OfficerKinds
    <2>3. m \in A4 <=> \E s \in Own(p, "rook") \ (hv \cup diag) : \E t \in rook(s) : m = Listed(p, s, t, "rook")
      BY <1>2, <1>7
    <2>4. m \in A5 <=> \E s \in (Own(p, "rook") \ diag) \cap hv : \E t \in rook(s) \cap hv :
                         m = Listed(p, s, t, "rook")
      BY <1>2, <1>7
    <2> QED BY <1>3, <1>4, <1>5, <2>1, <2>2, <2>3, <2>4 DEF OfficerMove
  <1>11. m \in A6 \/ m \in A7 \/ m \in A8 <=> Moves4("queen")
    <2>1. \A s, t : PinOK(p, "queen", s, t) <=>
                      \/ s \notin hv \cup diag
                      \/ s \in diag /\ BishopLine(s, t) /\ t \in diag
                      \/ s \in hv /\ RookLine(s, t) /\ t \in hv
      BY DEF PinOK, Pinless, hv, diag
    <2>2. \A s \in Own(p, "queen") : s \in Squares
      BY <1>6 DEF OfficerKinds
    <2>3. m \in A6 <=> \E s \in Own(p, "queen") \cap diag : \E t \in bishop(s) \cap diag : m = Listed(p, s, t, "queen")
      BY <1>2, <1>7
    <2>4. m \in A7 <=> \E s \in Own(p, "queen") \cap hv : \E t \in rook(s) \cap hv : m = Listed(p, s, t, "queen")
      BY <1>2, <1>7
    <2>5. m \in A8 <=> \E s \in Own(p, "queen") \ (hv \cup diag) : \E t \in rook(s) \cup bishop(s) :
                         m = Listed(p, s, t, "queen")
      BY <1>2, <1>7
    <2> QED BY <1>3, <1>4, <1>5, <2>1, <2>2, <2>3, <2>4, <2>5 DEF OfficerMove
  <1>12. m \in Officers(p, check) <=> \E k \in OfficerKinds : Moves4(k)
    <2> HIDE DEF Moves4
    <2> QED BY <1>1, <1>8, <1>9, <1>10, <1>11 DEF OfficerKinds
  <1> QED BY <1>12

(* The pin lines let an officer go where no slider behind it stops it.      *)
LEMMA PinFits ==
  ASSUME NEW p, Good(p), NEW k \in OfficerKinds, NEW s \in Own(p, k), NEW t \in Squares,
         Hits(k, p.turn, s, t, p.occupied_sqs)
  PROVE  PinOK(p, k, s, t) <=> FreeTo(p, s, t)
  <1>1. s \in OwnBB(p) /\ s \in Squares /\ k \in PieceKinds
    <2>1. k \in PieceKinds
      BY DEF OfficerKinds, PieceKinds
    <2>2. s \in OwnBB(p)
      BY <2>1, Occupied DEF OwnBB, Own
    <2> QED BY <2>1, <2>2, PiecesAre
  <1>2. s # t
    BY <1>1, PiecesAre, HitsTurn DEF Hits
  <1>3. /\ t \in RookMap[s] <=> RookLine(s, t)
        /\ t \in BishopMap[s] <=> BishopLine(s, t)
    BY <1>1, SlidesAre
  <1>4. /\ ~(RookLine(s, t) /\ BishopLine(s, t))
        /\ KnightApart(s, t) => ~RookLine(s, t) /\ ~BishopLine(s, t)
    BY <1>1, LinesTurn, PiecesAre, StepLines
  <1>5. /\ k = "knight" => KnightApart(s, t)
        /\ k = "rook" => RookLine(s, t)
        /\ k = "bishop" => BishopLine(s, t)
        /\ k # "knight" => Between[s][t] \cap p.occupied_sqs = {}
    BY DEF Hits, Jumps, Lined, OfficerKinds
  <1>6. CASE Pinless(p, s)
    <2>1. FreeTo(p, s, t)
      BY <1>1, <1>6, Unpinned DEF Pinless
    <2> QED BY <1>6, <2>1 DEF PinOK
  <1>7. CASE s \in PinHV(p)
    <2>1. s \notin PinDiag(p)
      BY <1>1, <1>7, PinnedOnce
    <2>2. Kind(p, RookMap, RookQueen(p)) /\ PinHV(p) = Pins(p, RookMap, RookQueen(p))
      BY DEF Kind, PinHV
    <2>3. /\ FreeTo(p, s, t) => t \in RookMap[s] /\ t \in PinHV(p)
          /\ t \in RookMap[s] /\ Between[s][t] \cap p.occupied_sqs = {} /\ t \in PinHV(p) => FreeTo(p, s, t)
      <3>1. s \in Pins(p, RookMap, RookQueen(p))
        BY <1>7, <2>2
      <3>2. /\ FreeTo(p, s, t) => t \in RookMap[s] /\ t \in Pins(p, RookMap, RookQueen(p))
            /\ t \in RookMap[s] /\ Between[s][t] \cap p.occupied_sqs = {} /\ t \in Pins(p, RookMap, RookQueen(p)) =>
                 FreeTo(p, s, t)
        BY <1>1, <1>2, <2>2, <3>1, Pinned
      <3> QED BY <2>2, <3>2
    <2> QED BY <1>3, <1>4, <1>5, <1>7, <2>1, <2>3 DEF PinOK, Pinless, OfficerKinds
  <1>8. CASE s \in PinDiag(p)
    <2>1. s \notin PinHV(p)
      BY <1>1, <1>8, PinnedOnce
    <2>2. Kind(p, BishopMap, BishopQueen(p)) /\ PinDiag(p) = Pins(p, BishopMap, BishopQueen(p))
      BY DEF Kind, PinDiag
    <2>3. /\ FreeTo(p, s, t) => t \in BishopMap[s] /\ t \in PinDiag(p)
          /\ t \in BishopMap[s] /\ Between[s][t] \cap p.occupied_sqs = {} /\ t \in PinDiag(p) => FreeTo(p, s, t)
      <3>1. s \in Pins(p, BishopMap, BishopQueen(p))
        BY <1>8, <2>2
      <3>2. /\ FreeTo(p, s, t) => t \in BishopMap[s] /\ t \in Pins(p, BishopMap, BishopQueen(p))
            /\ t \in BishopMap[s] /\ Between[s][t] \cap p.occupied_sqs = {} /\ t \in Pins(p, BishopMap, BishopQueen(p)) =>
                 FreeTo(p, s, t)
        BY <1>1, <1>2, <2>2, <3>1, Pinned
      <3> QED BY <2>2, <3>2
    <2> QED BY <1>3, <1>4, <1>5, <1>8, <2>1, <2>3 DEF PinOK, Pinless, OfficerKinds
  <1> QED BY <1>6, <1>7, <1>8 DEF Pinless

(* A move that goes to a free square and takes what stands there lifts one  *)
(* piece, and is no en passant capture.                                     *)
LEMMA ToLifts ==
  ASSUME NEW p, Good(p), NEW k \in PieceKinds, NEW s \in Own(p, k), NEW t \in Free(p),
         NEW m, m = To(p, s, k, t)
  PROVE  /\ Lifts(p, m) /\ ~Is(m, "EN_PASSANT") /\ m.piece = k /\ m.from = s /\ m.to = t
         /\ m.promoted = NONE /\ ~Is(m, "PROMOTION")
         /\ ~Is(m, "CASTLE_KING_SIDE") /\ ~Is(m, "CASTLE_QUEEN_SIDE")
  <1>1. /\ m.piece = k /\ m.from = s /\ m.to = t /\ m.promoted = NONE
        /\ m.flags \in {{"CAPTURE"}, {}}
    BY DEF To, Quiet
  <1>2. Becomes(m) = k
    BY <1>1 DEF Becomes
  <1>3. Rid(m) = {t}
    BY <1>1 DEF Rid, Is
  <1>4. t \in Squares /\ t \notin Occupancy(p.pieces, p.turn)
    BY FreeIs
  <1>5. \A j \in PieceKinds : t \notin Own(p, j)
    BY <1>4, Occupied DEF Own
  <1> QED BY <1>1, <1>2, <1>3, <1>4, <1>5 DEF Lifts, Is

(* Officers lists the moves of knights, bishops, rooks and queens that the  *)
(* rules allow: check mask and pin lines leave out exactly the moves after  *)
(* which the king is attacked.                                              *)
LEMMA OfficersExact ==
  ASSUME NEW p, Good(p), Lawful(p), NEW m
  PROVE  m \in Officers(p, CheckMask(p)) <=>
           \E k \in OfficerKinds : \E s \in Own(p, k) :
             m \in PieceMoves(p, s, k) /\ ~InCheck(Moved(p.pieces, p.turn, m), p.turn)
  <1>1. m \in Officers(p, CheckMask(p)) <=>
           \E k \in OfficerKinds : \E s, t \in Squares : OfficerMove(p, CheckMask(p), m, k, s, t)
    BY OfficersAre
  <1>2. OfficerKinds \subseteq PieceKinds /\ "king" \notin OfficerKinds
    BY DEF OfficerKinds, PieceKinds
  <1>3. ASSUME NEW k \in OfficerKinds, NEW s \in Own(p, k), NEW t, m = To(p, s, k, t), t \in Free(p),
               Hits(k, p.turn, s, t, p.occupied_sqs)
        PROVE  t \in CheckMask(p) /\ PinOK(p, k, s, t) <=> ~InCheck(Moved(p.pieces, p.turn, m), p.turn)
    <2>1. t \in Squares /\ k \in PieceKinds /\ k # "king"
      BY <1>2, <1>3, FreeIs
    <2>2. PinOK(p, k, s, t) <=> FreeTo(p, s, t)
      BY <1>3, <2>1, PinFits
    <2>3. Safe(p, s, t) <=> t \in CheckMask(p) /\ FreeTo(p, s, t)
      BY <2>1, SafeSplits
    <2>4. Lifts(p, m) /\ ~Is(m, "EN_PASSANT") /\ m.piece = k /\ m.from = s /\ m.to = t
      BY <1>3, <2>1, ToLifts
    <2>5. InCheck(Moved(p.pieces, p.turn, m), p.turn) <=> ~Safe(p, m.from, m.to)
      BY <2>1, <2>4, SafeIs
    <2> QED BY <2>2, <2>3, <2>4, <2>5
  <1>4. ASSUME NEW k \in OfficerKinds, NEW s, NEW t
        PROVE  OfficerMove(p, CheckMask(p), m, k, s, t) <=>
                 /\ s \in Own(p, k) /\ t \in Reach(p.pieces, k, p.turn, s) \ Occupancy(p.pieces, p.turn)
                 /\ m = To(p, s, k, t) /\ ~InCheck(Moved(p.pieces, p.turn, m), p.turn)
    <2>1. k \in PieceKinds
      BY <1>2
    <2>2. s \in Own(p, k) =>
            (t \in Reach(p.pieces, k, p.turn, s) \ Occupancy(p.pieces, p.turn) <=>
             t \in Free(p) /\ Hits(k, p.turn, s, t, p.occupied_sqs))
      BY <2>1, ReachFree
    <2>3. t \in Free(p) => Listed(p, s, t, k) = To(p, s, k, t)
      BY ToIs
    <2> QED BY <1>3, <2>2, <2>3 DEF OfficerMove
  <1>5. ASSUME NEW k \in OfficerKinds, NEW s \in Own(p, k)
        PROVE  /\ s \in Squares
               /\ m \in PieceMoves(p, s, k) <=>
                    \E t \in Squares : /\ t \in Reach(p.pieces, k, p.turn, s) \ Occupancy(p.pieces, p.turn)
                                       /\ m = To(p, s, k, t)
    <2>1. s \in Squares /\ k \in PieceKinds
      BY <1>2, <1>5, PiecesAre
    <2>2. \A t : t \in Reach(p.pieces, k, p.turn, s) \ Occupancy(p.pieces, p.turn) => t \in Squares
      BY <2>1, ReachFree, FreeIs
    <2> QED BY <2>1, <2>2 DEF PieceMoves
  <1>6. ASSUME NEW k \in OfficerKinds
        PROVE  (\E s, t \in Squares : OfficerMove(p, CheckMask(p), m, k, s, t)) <=>
               \E s \in Own(p, k) :
                 m \in PieceMoves(p, s, k) /\ ~InCheck(Moved(p.pieces, p.turn, m), p.turn)
    <2>1. \A s \in Own(p, k) : s \in Squares
      BY <1>5
    <2>2. \A s, t : OfficerMove(p, CheckMask(p), m, k, s, t) <=>
                 /\ s \in Own(p, k) /\ t \in Reach(p.pieces, k, p.turn, s) \ Occupancy(p.pieces, p.turn)
                 /\ m = To(p, s, k, t) /\ ~InCheck(Moved(p.pieces, p.turn, m), p.turn)
      BY <1>4
    <2> QED BY <1>5, <2>1, <2>2
  <1> QED BY <1>1, <1>6

-----------------------------------------------------------------------------
(* The squares banned for the king are those the enemy attacks when the     *)
(* king is not there.                                                       *)
LEMMA BannedIs ==
  ASSUME NEW p, Good(p), NEW x \in Squares
  PROVE  x \in p.king_ban <=>
           \E k \in PieceKinds : \E u \in Enemy(p, k) :
             Hits(k, OPP(p.turn), u, x, p.occupied_sqs \ Own(p, "king"))
  <1>0. PICK o, O : o = OPP(p.turn) /\ O = p.occupied_sqs \ Own(p, "king")
    OBVIOUS
  <1>1. o \in Colors /\ \A k \in PieceKinds : Enemy(p, k) \in SUBSET Squares
    BY <1>0, PiecesAre
  <1>2. p.king_ban = BanOf(p.turn, p.pieces, p.occupied_sqs)
    BY BanIs DEF Good, Raw, Derived
  <1> DEFINE bishops == Enemy(p, "bishop") \cup Enemy(p, "queen")
             rooks == Enemy(p, "rook") \cup Enemy(p, "queen")
  <1>3. p.king_ban = KingAttacks(Enemy(p, "king")) \cup KnightAttacks(Enemy(p, "knight"))
                     \cup (UNION { BishopAttacks(O, s) : s \in bishops })
                     \cup (UNION { RookAttacks(O, s) : s \in rooks })
                     \cup PawnTargets(o, East, Enemy(p, "pawn"))
                     \cup PawnTargets(o, West, Enemy(p, "pawn"))
    BY <1>0, <1>2 DEF BanOf, Own, Enemy
  <1>4. {"king", "knight", "bishop", "rook", "queen", "pawn"} = PieceKinds
    BY DEF PieceKinds
  <1>5. x \in KingAttacks(Enemy(p, "king")) <=> \E u \in Enemy(p, "king") : Hits("king", o, u, x, O)
    BY <1>1, <1>4, JumpsAre DEF Hits, Jumps, Lined
  <1>6. x \in KnightAttacks(Enemy(p, "knight")) <=> \E u \in Enemy(p, "knight") : Hits("knight", o, u, x, O)
    BY <1>1, <1>4, JumpsAre DEF Hits, Jumps, Lined
  <1>7. x \in PawnTargets(o, East, Enemy(p, "pawn")) \cup PawnTargets(o, West, Enemy(p, "pawn")) <=>
          \E u \in Enemy(p, "pawn") : Hits("pawn", o, u, x, O)
    BY <1>1, <1>4, PawnStepsAre DEF Hits, Jumps, Lined
  <1>8. \A u \in Squares : /\ x \in RookAttacks(O, u) <=> RookLine(u, x) /\ Between[u][x] \cap O = {}
                           /\ x \in BishopAttacks(O, u) <=> BishopLine(u, x) /\ Between[u][x] \cap O = {}
    BY SlidesAre
  <1>9. (\E u \in bishops : x \in BishopAttacks(O, u)) \/ (\E u \in rooks : x \in RookAttacks(O, u)) <=>
          \E k \in {"rook", "bishop", "queen"} : \E u \in Enemy(p, k) : Hits(k, o, u, x, O)
    <2>1. \A k \in {"rook", "bishop", "queen"} : \A u \in Enemy(p, k) : u \in Squares
      BY <1>1, <1>4
    <2>2. ASSUME NEW u \in Squares
          PROVE  /\ Hits("rook", o, u, x, O) <=> x \in RookAttacks(O, u)
                 /\ Hits("bishop", o, u, x, O) <=> x \in BishopAttacks(O, u)
                 /\ Hits("queen", o, u, x, O) <=> x \in RookAttacks(O, u) \/ x \in BishopAttacks(O, u)
      BY <1>8 DEF Hits, Jumps, Lined
    <2> QED BY <2>1, <2>2
  <1>10. x \in p.king_ban <=>
          \/ x \in KingAttacks(Enemy(p, "king")) \/ x \in KnightAttacks(Enemy(p, "knight"))
          \/ (\E u \in bishops : x \in BishopAttacks(O, u)) \/ (\E u \in rooks : x \in RookAttacks(O, u))
          \/ x \in PawnTargets(o, East, Enemy(p, "pawn")) \cup PawnTargets(o, West, Enemy(p, "pawn"))
    <2> HIDE DEF bishops, rooks
    <2> QED BY <1>3
  <1> HIDE DEF bishops, rooks
  <1>11. x \in p.king_ban <=> \E k \in PieceKinds : \E u \in Enemy(p, k) : Hits(k, o, u, x, O)
    BY <1>4, <1>5, <1>6, <1>7, <1>9, <1>10
  <1> QED BY <1>0, <1>11

(* A step of the king leaves it attacked exactly on a banned square.        *)
LEMMA KingStepIs ==
  ASSUME NEW p, Good(p), NEW m, Lifts(p, m), m.piece = "king", ~Is(m, "EN_PASSANT"), NEW c, c = p.turn
  PROVE  InCheck(Moved(p.pieces, c, m), c) <=> m.to \in p.king_ban
  <1>0. PICK K, o, D, t : K = KingSquare(p) /\ o = OPP(c) /\ D = Moved(p.pieces, c, m) /\ t = m.to
    OBVIOUS
  <1>1. /\ K \in Squares /\ Own(p, "king") = {K} /\ c \in Colors /\ o \in Colors
        /\ \A k \in PieceKinds : Enemy(p, k) \subseteq Squares
    BY <1>0, PiecesAre
  <1>2. Rid(m) = {t} /\ t \in Squares /\ m.from = K
    BY <1>0, <1>1 DEF Rid, Lifts
  <1>3. /\ D \in Boards /\ D[c]["king"] = {t}
        /\ \A k \in PieceKinds : D[o][k] = Enemy(p, k) \ {t}
        /\ OccupiedBy(D) = (p.occupied_sqs \ ({K} \cup {t})) \cup {t}
    <2>1. /\ D \in Boards
          /\ \A k \in PieceKinds : D[OPP(c)][k] = Enemy(p, k) \ Rid(m)
          /\ D[c]["king"] = IF m.piece = "king" THEN {m.to} ELSE Own(p, "king")
          /\ OccupiedBy(D) = (p.occupied_sqs \ ({m.from} \cup Rid(m))) \cup {m.to}
      <3>1. Results(p, m, c, D)
        BY <1>0, MovedIs
      <3> QED BY <3>1 DEF Results
    <2>2. D[c]["king"] = {t}
      BY <1>0, <2>1
    <2>3. \A k \in PieceKinds : D[o][k] = Enemy(p, k) \ {t}
      BY <1>0, <1>2, <2>1
    <2>4. OccupiedBy(D) = (p.occupied_sqs \ ({K} \cup {t})) \cup {t}
      BY <1>0, <1>2, <2>1
    <2> QED BY <2>1, <2>2, <2>3, <2>4
  <1>4. InCheck(D, c) <=>
          \E k \in PieceKinds : \E u \in D[o][k] : u \in Squares /\ Hits(k, o, u, t, OccupiedBy(D))
    BY <1>0, <1>1, <1>2, <1>3, InCheckIs
  <1>5. ASSUME NEW k \in PieceKinds, NEW u \in Squares
        PROVE  /\ Hits(k, o, u, t, OccupiedBy(D)) <=> Hits(k, o, u, t, p.occupied_sqs \ {K})
               /\ ~Hits(k, o, t, t, p.occupied_sqs \ {K})
    <2>1. \A x \in Between[u][t] : x # t
      BY <1>2, BetweenOn
    <2>2. Between[u][t] \cap OccupiedBy(D) = Between[u][t] \cap (p.occupied_sqs \ {K})
      BY <1>3, <2>1
    <2>3. ~Hits(k, o, t, t, p.occupied_sqs \ {K})
      BY <1>1, <1>2, HitsTurn DEF Hits
    <2> QED BY <2>2, <2>3 DEF Hits
  <1>6. t \in p.king_ban <=>
          \E k \in PieceKinds : \E u \in Enemy(p, k) : Hits(k, o, u, t, p.occupied_sqs \ {K})
    BY <1>0, <1>1, <1>2, BannedIs
  <1>7. ASSUME NEW k \in PieceKinds
        PROVE  (\E u \in D[o][k] : u \in Squares /\ Hits(k, o, u, t, OccupiedBy(D))) <=>
                 \E u \in Enemy(p, k) : Hits(k, o, u, t, p.occupied_sqs \ {K})
    <2>1. D[o][k] = Enemy(p, k) \ {t} /\ Enemy(p, k) \subseteq Squares
      BY <1>1, <1>3
    <2>2. \A u \in Squares : /\ Hits(k, o, u, t, OccupiedBy(D)) <=> Hits(k, o, u, t, p.occupied_sqs \ {K})
                             /\ ~Hits(k, o, t, t, p.occupied_sqs \ {K})
      BY <1>5
    <2> QED BY <2>1, <2>2
  <1>8. InCheck(D, c) <=> t \in p.king_ban
    BY <1>4, <1>6, <1>7
  <1> QED BY <1>0, <1>8

(* KingMoves lists the steps of the king the rules allow.                   *)
LEMMA KingExact ==
  ASSUME NEW p, Good(p), Lawful(p), NEW m
  PROVE  m \in KingMoves(p) <=>
           \E s \in Own(p, "king") :
             m \in PieceMoves(p, s, "king") /\ ~InCheck(Moved(p.pieces, p.turn, m), p.turn)
  <1>0. PICK K : K = KingSquare(p)
    OBVIOUS
  <1>1. K \in Squares /\ Own(p, "king") = {K} /\ "king" \in PieceKinds
    BY <1>0, PiecesAre DEF PieceKinds
  <1>2. PICK T : T = (KingAttacks(Own(p, "king")) \cap (EnemyBB(p) \cup Empty(p))) \ p.king_ban
    OBVIOUS
  <1>3. m \in KingMoves(p) <=> \E t \in T : m = Listed(p, K, t, "king")
    BY <1>0, <1>2 DEF KingMoves, ListMoves, Listed
  <1>4. \A t : t \in T <=> t \in KingAttacks({K}) /\ t \in Free(p) /\ t \notin p.king_ban
    BY <1>1, <1>2 DEF Free
  <1>5. \A t : t \in Reach(p.pieces, "king", p.turn, K) <=> t \in KingAttacks({K})
    BY DEF Reach
  <1>6. \A t : t \in Reach(p.pieces, "king", p.turn, K) \ Occupancy(p.pieces, p.turn) <=>
                 t \in Free(p) /\ Hits("king", p.turn, K, t, p.occupied_sqs)
    BY <1>1, ReachFree
  <1>7. \A t : t \in Reach(p.pieces, "king", p.turn, K) \ Occupancy(p.pieces, p.turn) <=>
                 t \in Free(p) /\ t \in KingAttacks({K})
    <2>1. \A t : t \in Free(p) => t \notin Occupancy(p.pieces, p.turn)
      BY FreeIs
    <2> QED BY <1>5, <1>6, <2>1
  <1>8. ASSUME NEW t \in Free(p), m = To(p, K, "king", t)
        PROVE  InCheck(Moved(p.pieces, p.turn, m), p.turn) <=> t \in p.king_ban
    <2>1. Lifts(p, m) /\ ~Is(m, "EN_PASSANT") /\ m.piece = "king" /\ m.from = K /\ m.to = t
      BY <1>1, <1>8, ToLifts
    <2> QED BY <2>1, KingStepIs
  <1>9. m \in KingMoves(p) <=> \E t \in T : m = To(p, K, "king", t)
    BY <1>3, <1>4, ToIs
  <1>10. m \in PieceMoves(p, K, "king") <=>
           \E t : t \in Free(p) /\ t \in KingAttacks({K}) /\ m = To(p, K, "king", t)
    BY <1>7 DEF PieceMoves
  <1> QED BY <1>1, <1>4, <1>8, <1>9, <1>10

-----------------------------------------------------------------------------
(* A pin lets a piece move along its line only, seen from the piece.        *)
LinePin(p, s, t) ==
  IF BishopLine(s, t)
  THEN s \notin PinHV(p) /\ (s \in PinDiag(p) => t \in PinDiag(p))
  ELSE s \notin PinDiag(p) /\ (s \in PinHV(p) => t \in PinHV(p))

(* The pin a move along its line respects stops it just when a slider that  *)
(* sees the king but for the piece would.                                   *)
LEMMA LinePinFits ==
  ASSUME NEW p, Good(p), NEW s \in OwnBB(p), s \in Squares, NEW t \in Squares,
         RookLine(s, t) \/ BishopLine(s, t), Between[s][t] \cap p.occupied_sqs = {}
  PROVE  LinePin(p, s, t) <=> FreeTo(p, s, t)
  <1>1. s # t /\ ~(RookLine(s, t) /\ BishopLine(s, t))
    BY LinesTurn
  <1>2. /\ t \in RookMap[s] <=> RookLine(s, t)
        /\ t \in BishopMap[s] <=> BishopLine(s, t)
    BY SlidesAre
  <1>3. CASE s \notin PinHV(p) /\ s \notin PinDiag(p)
    BY <1>3, Unpinned DEF LinePin
  <1>4. CASE s \in PinHV(p)
    <2>1. s \notin PinDiag(p)
      BY <1>4, PinnedOnce
    <2>2. Kind(p, RookMap, RookQueen(p)) /\ PinHV(p) = Pins(p, RookMap, RookQueen(p))
      BY DEF Kind, PinHV
    <2>3. s \in Pins(p, RookMap, RookQueen(p))
      BY <1>4, <2>2
    <2>4. /\ FreeTo(p, s, t) => t \in RookMap[s] /\ t \in Pins(p, RookMap, RookQueen(p))
          /\ t \in RookMap[s] /\ Between[s][t] \cap p.occupied_sqs = {} /\ t \in Pins(p, RookMap, RookQueen(p)) =>
               FreeTo(p, s, t)
      BY <1>1, <2>2, <2>3, Pinned
    <2> QED BY <1>1, <1>2, <1>4, <2>1, <2>2, <2>4 DEF LinePin
  <1>5. CASE s \in PinDiag(p)
    <2>1. s \notin PinHV(p)
      BY <1>5, PinnedOnce
    <2>2. Kind(p, BishopMap, BishopQueen(p)) /\ PinDiag(p) = Pins(p, BishopMap, BishopQueen(p))
      BY DEF Kind, PinDiag
    <2>3. s \in Pins(p, BishopMap, BishopQueen(p))
      BY <1>5, <2>2
    <2>4. /\ FreeTo(p, s, t) => t \in BishopMap[s] /\ t \in Pins(p, BishopMap, BishopQueen(p))
          /\ t \in BishopMap[s] /\ Between[s][t] \cap p.occupied_sqs = {} /\ t \in Pins(p, BishopMap, BishopQueen(p)) =>
               FreeTo(p, s, t)
      BY <1>1, <2>2, <2>3, Pinned
    <2> QED BY <1>1, <1>2, <1>5, <2>1, <2>2, <2>4 DEF LinePin
  <1> QED BY <1>3, <1>4, <1>5

-----------------------------------------------------------------------------
(* Where pawns go: one step or, from the second rank, two, and to the side  *)
(* where they take.                                                         *)
Leap(p, s, t) ==
  /\ s \in PawnRank(p.turn) /\ t \in Empty(p)
  /\ \E x \in Empty(p) : Ahead(p.turn, s, x) /\ Ahead(p.turn, x, t)
PawnGoes(p, s, t) ==
  \/ Ahead(p.turn, s, t) /\ t \in Empty(p)
  \/ Leap(p, s, t)
  \/ Aslant(p.turn, s, t) /\ t \in EnemyBB(p)

(* The square a pawn came from.                                             *)
LEMMA CameFrom ==
  ASSUME NEW c \in Colors, NEW s \in Squares, NEW t \in Squares, NEW n \in {-1, 0, 1},
         File(t) = File(s) + n, Rank(t) = Rank(s) + Forward(c)
  PROVE  s = t - 8 * Forward(c) - n
  <1>1. Forward(c) \in {1, -1}
    BY ForwardIs
  <1>2. s = 8 * Rank(s) + File(s) /\ t = 8 * Rank(t) + File(t) /\ Rank(s) \in Int /\ File(s) \in Int
    BY SquareIs
  <1> QED BY <1>1, <1>2

(* A pawn of pawns goes to t, and stays on pin if it is on it.              *)
StepsTo(p, pawns, pin, t) == \E s \in pawns : Ahead(p.turn, s, t) /\ (s \in pin => t \in pin)
LeapsTo(p, pawns, pin, t) == \E s \in pawns : Leap(p, s, t) /\ (s \in pin => t \in pin)
TakesTo(p, pawns, compass, pin, t) ==
  \E s \in pawns : /\ File(t) = File(s) + compass /\ Rank(t) = Rank(s) + Forward(p.turn)
                   /\ s \in pin => t \in pin

(* The squares pawns go to when pushed, once or twice, and when they take.  *)
LEMMA PushesAre ==
  ASSUME NEW p, p.turn \in Colors, NEW pawns \in SUBSET Squares, NEW allowed, NEW pin, NEW t
  PROVE  /\ t \in Pushes(p, pawns, allowed, pin) <=> t \in Squares /\ t \in allowed /\ StepsTo(p, pawns, pin, t)
         /\ t \in DoublePushes(p, pawns, allowed, pin) <=>
              t \in Squares /\ t \in allowed /\ LeapsTo(p, pawns, pin, t)
         /\ \A compass \in {East, West} :
              t \in Attacks(p, pawns, compass, allowed, pin) <=>
                t \in Squares /\ t \in allowed /\ TakesTo(p, pawns, compass, pin, t)
  <1>1. PICK free, held : free = pawns \ pin /\ held = pawns \cap pin
    OBVIOUS
  <1>2. free \in SUBSET Squares /\ held \in SUBSET Squares
    BY <1>1
  <1>3. \A ps \in {free, held} : t \in PushPawn(p.turn, ps) <=> t \in Squares /\ \E s \in ps : Ahead(p.turn, s, t)
    BY <1>2, PawnStepsAre
  <1>4. ASSUME NEW compass \in {East, West}
        PROVE  \A ps \in {free, held} : t \in PawnTargets(p.turn, compass, ps) <=>
                 t \in Squares /\ \E s \in ps : File(t) = File(s) + compass /\ Rank(t) = Rank(s) + Forward(p.turn)
    <2> TAKE ps \in {free, held}
    <2>1. ps \in SUBSET Squares
      BY <1>2
    <2> QED BY <1>4, <2>1, TargetsAre
  <1>5. \A ps \in {free, held} : t \in DoublePushPawn(p.turn, ps, Empty(p)) <=>
          t \in Squares /\ \E s \in ps : Leap(p, s, t)
    <2> TAKE ps \in {free, held}
    <2>1. PICK once, from, E : E = Empty(p) /\ from = ps \cap PawnRank(p.turn) /\ once = PushPawn(p.turn, from) \cap E
      OBVIOUS
    <2>2. E \in SUBSET Squares /\ from \in SUBSET Squares /\ once \in SUBSET Squares
      BY <1>2, <2>1 DEF Empty
    <2>3. \A x : x \in once <=> x \in E /\ \E s \in from : Ahead(p.turn, s, x)
      BY <2>1, <2>2, PawnStepsAre
    <2>4. t \in PushPawn(p.turn, once) <=> t \in Squares /\ \E x \in once : Ahead(p.turn, x, t)
      BY <2>2, PawnStepsAre
    <2>5. t \in DoublePushPawn(p.turn, ps, E) <=> t \in E /\ t \in PushPawn(p.turn, once)
      BY <2>1 DEF DoublePushPawn
    <2> QED BY <2>1, <2>2, <2>3, <2>4, <2>5 DEF Leap
  <1>6. t \in Pushes(p, pawns, allowed, pin) <=>
          t \in allowed /\ (t \in PushPawn(p.turn, free) \/ (t \in PushPawn(p.turn, held) /\ t \in pin))
    BY <1>1 DEF Pushes
  <1>7. t \in DoublePushes(p, pawns, allowed, pin) <=>
          t \in allowed /\ (t \in DoublePushPawn(p.turn, free, Empty(p))
                            \/ (t \in DoublePushPawn(p.turn, held, Empty(p)) /\ t \in pin))
    BY <1>1 DEF DoublePushes
  <1>8. \A compass \in {East, West} : t \in Attacks(p, pawns, compass, allowed, pin) <=>
          t \in allowed /\ (t \in PawnTargets(p.turn, compass, free)
                            \/ (t \in PawnTargets(p.turn, compass, held) /\ t \in pin))
    BY <1>1 DEF Attacks
  <1>9. /\ \A s : s \in free <=> s \in pawns /\ s \notin pin
        /\ \A s : s \in held <=> s \in pawns /\ s \in pin
    BY <1>1
  <1>10. t \in Pushes(p, pawns, allowed, pin) <=> t \in Squares /\ t \in allowed /\ StepsTo(p, pawns, pin, t)
    BY <1>3, <1>6, <1>9 DEF StepsTo
  <1>11. t \in DoublePushes(p, pawns, allowed, pin) <=> t \in Squares /\ t \in allowed /\ LeapsTo(p, pawns, pin, t)
    BY <1>5, <1>7, <1>9 DEF LeapsTo
  <1>12. ASSUME NEW compass \in {East, West}
         PROVE  t \in Attacks(p, pawns, compass, allowed, pin) <=>
                  t \in Squares /\ t \in allowed /\ TakesTo(p, pawns, compass, pin, t)
    <2>1. /\ t \in PawnTargets(p.turn, compass, free) <=> t \in Squares /\
               \E s \in free : File(t) = File(s) + compass /\ Rank(t) = Rank(s) + Forward(p.turn)
          /\ t \in PawnTargets(p.turn, compass, held) <=> t \in Squares /\
               \E s \in held : File(t) = File(s) + compass /\ Rank(t) = Rank(s) + Forward(p.turn)
      BY <1>4
    <2>2. t \in Attacks(p, pawns, compass, allowed, pin) <=>
          t \in allowed /\ (t \in PawnTargets(p.turn, compass, free)
                            \/ (t \in PawnTargets(p.turn, compass, held) /\ t \in pin))
      BY <1>8
    <2> QED BY <1>9, <2>1, <2>2 DEF TakesTo
  <1> QED BY <1>10, <1>11, <1>12

(* What a pawn's way is: a file or a diagonal, with nothing between.        *)
LEMMA PawnWay ==
  ASSUME NEW p, Good(p), NEW s \in Own(p, "pawn"), NEW t, PawnGoes(p, s, t)
  PROVE  /\ s \in Squares /\ s \in OwnBB(p) /\ t \in Squares /\ t \in Free(p)
         /\ Between[s][t] \cap p.occupied_sqs = {}
         /\ IF t \in EnemyBB(p) THEN BishopLine(s, t) ELSE RookLine(s, t) /\ ~BishopLine(s, t)
         /\ t \in EnemyBB(p) <=> Aslant(p.turn, s, t)
         /\ ~(t \in EnemyBB(p) /\ t \in Empty(p))
  <1>1. "pawn" \in PieceKinds /\ p.turn \in Colors
    BY PiecesAre DEF PieceKinds
  <1>2. s \in Squares /\ s \in OwnBB(p)
    <2>1. s \in OwnBB(p)
      BY <1>1, Occupied DEF OwnBB, Own
    <2> QED BY <1>1, <2>1, PiecesAre
  <1>3. t \in Free(p) /\ t \in Squares
    BY FreeIs DEF PawnGoes, Leap, Free
  <1>4. ~(t \in EnemyBB(p) /\ t \in Empty(p))
    BY EnemyIs
  <1>5. CASE Ahead(p.turn, s, t) /\ t \in Empty(p)
    <2>1. RookLine(s, t) /\ ~BishopLine(s, t) /\ Between[s][t] = {}
      BY <1>1, <1>2, <1>3, <1>5, StepLines
    <2>2. ~Aslant(p.turn, s, t)
      BY <1>1, <1>2, <1>3, <2>1, StepLines
    <2> QED BY <1>2, <1>3, <1>4, <1>5, <2>1, <2>2
  <1>6. CASE Leap(p, s, t)
    <2>1. PICK x \in Empty(p) : Ahead(p.turn, s, x) /\ Ahead(p.turn, x, t)
      BY <1>6 DEF Leap
    <2>2. x \in Squares /\ x \notin p.occupied_sqs /\ t \in Empty(p)
      BY <1>6 DEF Empty, Leap
    <2>3. RookLine(s, t) /\ ~BishopLine(s, t) /\ Between[s][t] = {x}
      BY <1>1, <1>2, <1>3, <2>1, <2>2, StepLines
    <2>4. ~Aslant(p.turn, s, t)
      BY <1>1, <1>2, <1>3, <2>3, StepLines
    <2> QED BY <1>2, <1>3, <1>4, <2>2, <2>3, <2>4
  <1>7. CASE Aslant(p.turn, s, t) /\ t \in EnemyBB(p)
    <2>1. BishopLine(s, t) /\ Between[s][t] = {}
      BY <1>1, <1>2, <1>3, <1>7, StepLines
    <2> QED BY <1>2, <1>3, <1>4, <1>7, <2>1
  <1> QED BY <1>5, <1>6, <1>7 DEF PawnGoes

-----------------------------------------------------------------------------
(* A pawn's move as the generator lets it: from one of the pawns, by one of *)
(* the ways.                                                                *)
PawnMove(p, check, m, s, t) ==
  t \in check /\ LinePin(p, s, t) /\ m = To(p, s, "pawn", t)

(* The pushes, one move at a time.                                          *)
LEMMA PushList ==
  ASSUME NEW p, Good(p), NEW pawns, pawns \subseteq Pushable(p), NEW check, NEW m
  PROVE  m \in { Quiet(Behind(p, to, 0), to, "pawn") :
                   to \in Pushes(p, pawns, Empty(p) \cap check, PinHV(p)) } <=>
         \E s \in pawns : \E t \in Squares :
           Ahead(p.turn, s, t) /\ t \in Empty(p) /\ PawnMove(p, check, m, s, t)
  <1>1. /\ p.turn \in Colors /\ pawns \in SUBSET Squares
        /\ \A s \in pawns : s \in Own(p, "pawn") /\ s \notin PinDiag(p)
    BY PiecesAre DEF Pushable, PieceKinds
  <1>2. \A t : t \in Pushes(p, pawns, Empty(p) \cap check, PinHV(p)) <=>
              t \in Squares /\ t \in Empty(p) \cap check /\ StepsTo(p, pawns, PinHV(p), t)
    BY <1>1, PushesAre
  <1>3. ASSUME NEW s \in pawns, NEW t \in Squares, Ahead(p.turn, s, t), t \in Empty(p)
        PROVE  /\ s = Behind(p, t, 0) /\ Quiet(s, t, "pawn") = To(p, s, "pawn", t)
               /\ LinePin(p, s, t) <=> (s \in PinHV(p) => t \in PinHV(p))
    <2>1. PawnGoes(p, s, t) /\ s \in Own(p, "pawn") /\ s \in Squares
      BY <1>1, <1>3 DEF PawnGoes
    <2>2. t \in Free(p) /\ t \notin EnemyBB(p) /\ ~BishopLine(s, t)
      BY <1>3, <2>1, PawnWay
    <2>3. Listed(p, s, t, "pawn") = To(p, s, "pawn", t)
      BY <2>2, ToIs
    <2>4. File(t) = File(s) + 0 /\ Rank(t) = Rank(s) + Forward(p.turn)
      BY <1>3, <2>1, SquareIs DEF Ahead
    <2>5. s = Behind(p, t, 0)
      BY <1>1, <2>1, <2>4, CameFrom DEF Behind
    <2> QED BY <1>1, <2>2, <2>3, <2>5 DEF Listed, LinePin
  <1> QED BY <1>2, <1>3 DEF PawnMove, StepsTo

(* The double pushes, one move at a time.                                   *)
LEMMA DoubleList ==
  ASSUME NEW p, Good(p), NEW pawns, pawns \subseteq Pushable(p), NEW check, NEW m
  PROVE  m \in { Quiet(Behind(p, to, 0) - 8 * Forward(p.turn), to, "pawn") :
                   to \in DoublePushes(p, pawns, check, PinHV(p)) } <=>
         \E s \in pawns : \E t \in Squares : Leap(p, s, t) /\ PawnMove(p, check, m, s, t)
  <1>1. /\ p.turn \in Colors /\ pawns \in SUBSET Squares
        /\ \A s \in pawns : s \in Own(p, "pawn") /\ s \notin PinDiag(p)
    BY PiecesAre DEF Pushable, PieceKinds
  <1>2. \A t : t \in DoublePushes(p, pawns, check, PinHV(p)) <=>
              t \in Squares /\ t \in check /\ LeapsTo(p, pawns, PinHV(p), t)
    BY <1>1, PushesAre
  <1>3. ASSUME NEW s \in pawns, NEW t \in Squares, Leap(p, s, t)
        PROVE  /\ s = Behind(p, t, 0) - 8 * Forward(p.turn) /\ Quiet(s, t, "pawn") = To(p, s, "pawn", t)
               /\ LinePin(p, s, t) <=> (s \in PinHV(p) => t \in PinHV(p))
    <2>1. PawnGoes(p, s, t) /\ s \in Own(p, "pawn") /\ s \in Squares /\ t \in Empty(p)
      BY <1>1, <1>3 DEF PawnGoes, Leap
    <2>2. t \in Free(p) /\ t \notin EnemyBB(p) /\ ~BishopLine(s, t)
      BY <2>1, PawnWay
    <2>3. Listed(p, s, t, "pawn") = To(p, s, "pawn", t)
      BY <2>2, ToIs
    <2>4. PICK x \in Empty(p) : Ahead(p.turn, s, x) /\ Ahead(p.turn, x, t)
      BY <1>3 DEF Leap
    <2>5. x \in Squares /\ File(x) \in Int /\ File(s) \in Int
      BY <2>1, SquareIs DEF Empty
    <2>6. /\ File(x) = File(s) + 0 /\ Rank(x) = Rank(s) + Forward(p.turn)
          /\ File(t) = File(x) + 0 /\ Rank(t) = Rank(x) + Forward(p.turn)
      BY <2>4, <2>5 DEF Ahead
    <2>7. s = x - 8 * Forward(p.turn) - 0 /\ x = t - 8 * Forward(p.turn) - 0
      BY <1>1, <2>1, <2>5, <2>6, CameFrom
    <2>8. x - 0 = x /\ Forward(p.turn) \in Int /\ x \in Int
      BY <1>1, <2>5, ForwardIs DEF Squares
    <2>9. s = Behind(p, t, 0) - 8 * Forward(p.turn)
      BY <2>7, <2>8 DEF Behind
    <2> QED BY <1>1, <2>2, <2>3, <2>9 DEF Listed, LinePin
  <1> QED BY <1>2, <1>3 DEF PawnMove, LeapsTo

(* The captures of pawns, one move at a time.                               *)
LEMMA TakeList ==
  ASSUME NEW p, Good(p), NEW pawns, pawns \subseteq Attackable(p), NEW check, NEW m
  PROVE  m \in UNION { { Taking(p, Behind(p, to, compass), to, "pawn") :
                           to \in Attacks(p, pawns, compass, EnemyBB(p) \cap check, PinDiag(p)) }
                       : compass \in {East, West} } <=>
         \E s \in pawns : \E t \in Squares :
           Aslant(p.turn, s, t) /\ t \in EnemyBB(p) /\ PawnMove(p, check, m, s, t)
  <1>1. /\ p.turn \in Colors /\ pawns \in SUBSET Squares
        /\ \A s \in pawns : s \in Own(p, "pawn") /\ s \notin PinHV(p) /\ s \in Squares
    BY PiecesAre DEF Attackable, PieceKinds
  <1>2. \A compass \in {East, West} : \A t :
          t \in Attacks(p, pawns, compass, EnemyBB(p) \cap check, PinDiag(p)) <=>
                t \in Squares /\ t \in EnemyBB(p) \cap check /\ TakesTo(p, pawns, compass, PinDiag(p), t)
    BY <1>1, PushesAre
  <1>3. ASSUME NEW s \in pawns, NEW t \in Squares
        PROVE  Aslant(p.turn, s, t) <=>
                 \E compass \in {East, West} : File(t) = File(s) + compass /\ Rank(t) = Rank(s) + Forward(p.turn)
    <2>1. File(s) \in Int /\ File(t) \in Int
      BY <1>1, SquareIs
    <2> QED BY <2>1 DEF Aslant, Abs, East, West
  <1>4. ASSUME NEW compass \in {East, West}, NEW s \in pawns, NEW t \in Squares, t \in EnemyBB(p),
               File(t) = File(s) + compass, Rank(t) = Rank(s) + Forward(p.turn)
        PROVE  /\ s = Behind(p, t, compass) /\ Taking(p, s, t, "pawn") = To(p, s, "pawn", t)
               /\ LinePin(p, s, t) <=> (s \in PinDiag(p) => t \in PinDiag(p))
    <2>1. PawnGoes(p, s, t) /\ s \in Own(p, "pawn") /\ s \in Squares
      BY <1>1, <1>3, <1>4 DEF PawnGoes
    <2>2. t \in Free(p) /\ BishopLine(s, t)
      BY <1>4, <2>1, PawnWay
    <2>3. Listed(p, s, t, "pawn") = To(p, s, "pawn", t)
      BY <2>2, ToIs
    <2>4. compass \in {-1, 0, 1}
      BY DEF East, West
    <2>5. s = Behind(p, t, compass)
      BY <1>1, <1>4, <2>1, <2>4, CameFrom DEF Behind
    <2> QED BY <1>1, <1>4, <2>2, <2>3, <2>5 DEF Listed, LinePin
  <1>5. m \in UNION { { Taking(p, Behind(p, to, compass), to, "pawn") :
                           to \in Attacks(p, pawns, compass, EnemyBB(p) \cap check, PinDiag(p)) }
                       : compass \in {East, West} } <=>
        \E compass \in {East, West} : \E t \in Attacks(p, pawns, compass, EnemyBB(p) \cap check, PinDiag(p)) :
          m = Taking(p, Behind(p, t, compass), t, "pawn")
    OBVIOUS
  <1>6. (\E compass \in {East, West} : \E t \in Attacks(p, pawns, compass, EnemyBB(p) \cap check, PinDiag(p)) :
          m = Taking(p, Behind(p, t, compass), t, "pawn"))
        <=> \E compass \in {East, West} : \E s \in pawns : \E t \in Squares :
              /\ File(t) = File(s) + compass /\ Rank(t) = Rank(s) + Forward(p.turn)
              /\ t \in EnemyBB(p) /\ PawnMove(p, check, m, s, t)
    <2>1. ASSUME NEW compass \in {East, West}, NEW t \in Attacks(p, pawns, compass, EnemyBB(p) \cap check, PinDiag(p)),
                 m = Taking(p, Behind(p, t, compass), t, "pawn")
          PROVE  \E s \in pawns : /\ t \in Squares /\ File(t) = File(s) + compass /\ Rank(t) = Rank(s) + Forward(p.turn)
                                  /\ t \in EnemyBB(p) /\ PawnMove(p, check, m, s, t)
      <3>1. t \in Squares /\ t \in EnemyBB(p) /\ t \in check /\ TakesTo(p, pawns, compass, PinDiag(p), t)
        BY <1>2
      <3>2. PICK s \in pawns : /\ File(t) = File(s) + compass /\ Rank(t) = Rank(s) + Forward(p.turn)
                               /\ s \in PinDiag(p) => t \in PinDiag(p)
        BY <3>1 DEF TakesTo
      <3> QED BY <1>4, <2>1, <3>1, <3>2 DEF PawnMove
    <2>2. ASSUME NEW compass \in {East, West}, NEW s \in pawns, NEW t \in Squares,
                 File(t) = File(s) + compass, Rank(t) = Rank(s) + Forward(p.turn),
                 t \in EnemyBB(p), PawnMove(p, check, m, s, t)
          PROVE  /\ t \in Attacks(p, pawns, compass, EnemyBB(p) \cap check, PinDiag(p))
                 /\ m = Taking(p, Behind(p, t, compass), t, "pawn")
      <3>1. s = Behind(p, t, compass) /\ Taking(p, s, t, "pawn") = To(p, s, "pawn", t)
            /\ (s \in PinDiag(p) => t \in PinDiag(p))
        BY <1>4, <2>2 DEF PawnMove
      <3>2. TakesTo(p, pawns, compass, PinDiag(p), t)
        BY <2>2, <3>1 DEF TakesTo
      <3> QED BY <1>2, <2>2, <3>1, <3>2 DEF PawnMove
    <2> QED BY <2>1, <2>2
  <1>7. (\E compass \in {East, West} : \E s \in pawns : \E t \in Squares :
              /\ File(t) = File(s) + compass /\ Rank(t) = Rank(s) + Forward(p.turn)
              /\ t \in EnemyBB(p) /\ PawnMove(p, check, m, s, t))
        <=> \E s \in pawns : \E t \in Squares :
              Aslant(p.turn, s, t) /\ t \in EnemyBB(p) /\ PawnMove(p, check, m, s, t)
    BY <1>3
  <1> QED BY <1>5, <1>6, <1>7

(* The pawns that are one step from promotion, by where they go.            *)
LEMMA LastStep ==
  ASSUME NEW p, Good(p), NEW s \in Own(p, "pawn"), NEW t, PawnGoes(p, s, t)
  PROVE  /\ s \in BeforePromotion(p.turn) <=> t \in HomeRank(OPP(p.turn))
         /\ Leap(p, s, t) => s \notin BeforePromotion(p.turn)
  <1>0. PICK c : c = p.turn
    OBVIOUS
  <1>1. s \in Squares /\ t \in Squares /\ c \in Colors
    BY <1>0, PiecesAre, PawnWay
  <1>2. /\ s \in BeforePromotion(c) <=> Rank(s) = IF c = "white" THEN 6 ELSE 1
        /\ s \in PawnRank(c) <=> Rank(s) = IF c = "white" THEN 1 ELSE 6
        /\ t \in HomeRank(OPP(c)) <=> Rank(t) = IF c = "white" THEN 7 ELSE 0
    <2>1. \A r \in 0 .. 7 : (s \in OnRank(r) <=> Rank(s) = r) /\ (t \in OnRank(r) <=> Rank(t) = r)
      BY <1>1, OnRankIs
    <2>2. 0 \in 0 .. 7 /\ 1 \in 0 .. 7 /\ 6 \in 0 .. 7 /\ 7 \in 0 .. 7
      OBVIOUS
    <2> QED BY <1>1, <2>1, <2>2 DEF BeforePromotion, PawnRank, HomeRank, OPP, Colors
  <1>3. Rank(s) \in 0 .. 7 /\ Rank(t) \in 0 .. 7
    BY <1>1, SquareIs
  <1>4. Leap(p, s, t) => s \in PawnRank(c) /\ Rank(t) = Rank(s) + 2 * Forward(c)
    <2> SUFFICES ASSUME Leap(p, s, t) PROVE s \in PawnRank(c) /\ Rank(t) = Rank(s) + 2 * Forward(c)
      OBVIOUS
    <2>1. PICK x \in Empty(p) : Ahead(c, s, x) /\ Ahead(c, x, t)
      BY <1>0 DEF Leap
    <2>2. Forward(c) \in Int
      BY <1>1, ForwardIs
    <2>3. Rank(x) = Rank(s) + Forward(c) /\ Rank(t) = Rank(x) + Forward(c)
      BY <2>1 DEF Ahead
    <2> QED BY <1>0, <1>3, <2>2, <2>3 DEF Leap
  <1>5. ~Leap(p, s, t) => Rank(t) = Rank(s) + Forward(c)
    BY <1>0 DEF PawnGoes, Ahead, Aslant
  <1>6. Forward(c) = IF c = "white" THEN 1 ELSE -1
    BY DEF Forward
  <1> QED BY <1>0, <1>1, <1>2, <1>3, <1>4, <1>5, <1>6 DEF Colors

-----------------------------------------------------------------------------
(* The moves of one pawn by the rules: plain ones, promotions and captures  *)
(* en passant.                                                              *)
LEMMA PawnMovesAre ==
  ASSUME NEW p, Good(p), Lawful(p), NEW s \in Own(p, "pawn"), NEW ep, NEW m
  PROVE  m \in PawnMoves(p, s, ep) <=>
           \/ s \notin BeforePromotion(p.turn) /\ \E t : PawnGoes(p, s, t) /\ m = To(p, s, "pawn", t)
           \/ /\ s \in BeforePromotion(p.turn)
              /\ \E t, kind : /\ kind \in Promotable /\ PawnGoes(p, s, t)
                              /\ m = PromotedTo(To(p, s, "pawn", t), kind)
           \/ \E t \in ep : t \in Squares /\ Aslant(p.turn, s, t) /\ m = Flagged(s, t, "pawn", "EN_PASSANT")
  <1>0. PICK c, E, step, leap, takes, all, plain, promoting :
          /\ c = p.turn /\ E = Squares \ OccupiedBy(p.pieces)
          /\ step = PushPawn(c, {s}) \cap E
          /\ leap = (IF s \in PawnRank(c) THEN PushPawn(c, step) \cap E ELSE {})
          /\ takes = Reach(p.pieces, "pawn", c, s) \cap Occupancy(p.pieces, OPP(c))
          /\ all = step \cup leap \cup takes
          /\ plain = { To(p, s, "pawn", t) : t \in all }
          /\ promoting = { n \in plain : n.to \in HomeRank(OPP(c)) }
    OBVIOUS
  <1>1. /\ c \in Colors /\ E = Empty(p) /\ "pawn" \in PieceKinds
        /\ s \in Squares /\ E \in SUBSET Squares /\ step \in SUBSET Squares
    <2>1. p.occupied_sqs = OccupiedBy(p.pieces) /\ p.turn \in Colors
      BY PiecesAre
    <2>2. "pawn" \in PieceKinds
      BY DEF PieceKinds
    <2> QED BY <1>0, <2>1, <2>2, PiecesAre DEF Empty
  <1>2. \A t : t \in step <=> Ahead(c, s, t) /\ t \in Empty(p)
    <2>1. {s} \in SUBSET Squares
      BY <1>1
    <2>2. \A t : t \in PushPawn(c, {s}) <=> t \in Squares /\ \E u \in {s} : Ahead(c, u, t)
      BY <1>1, <2>1, PawnStepsAre
    <2> QED BY <1>0, <1>1, <2>2
  <1>3. \A t : t \in leap <=> Leap(p, s, t)
    <2>1. \A t : t \in PushPawn(c, step) <=> t \in Squares /\ \E u \in step : Ahead(c, u, t)
      BY <1>1, PawnStepsAre
    <2> QED BY <1>0, <1>1, <1>2, <2>1 DEF Leap
  <1>4. \A t : t \in takes <=> Aslant(c, s, t) /\ t \in EnemyBB(p)
    <2>1. \A t : t \in Reach(p.pieces, "pawn", c, s) <=> t \in Squares /\ Hits("pawn", c, s, t, OccupiedBy(p.pieces))
      BY <1>1, ReachIs
    <2>2. \A t : Hits("pawn", c, s, t, p.occupied_sqs) <=> Aslant(c, s, t)
      BY DEF Hits, Jumps, Lined
    <2>3. \A t : t \in Enemy(p, "king") => ~Aslant(c, s, t)
      BY <1>0, <1>1, <2>2, EnemyKingSafe
    <2>4. \A t : t \in EnemyBB(p) <=> t \in Occupancy(p.pieces, OPP(c)) /\ t \notin Enemy(p, "king")
      BY <1>0 DEF EnemyBB
    <2>5. \A t : t \in EnemyBB(p) => t \in Squares
      BY EnemyIs
    <2>6. \A t : Hits("pawn", c, s, t, OccupiedBy(p.pieces)) <=> Aslant(c, s, t)
      BY DEF Hits, Jumps, Lined
    <2> QED BY <1>0, <2>1, <2>3, <2>4, <2>5, <2>6
  <1>5. \A t : t \in all <=> PawnGoes(p, s, t)
    BY <1>0, <1>2, <1>3, <1>4 DEF PawnGoes
  <1>6. \A n : n \in plain <=> \E t : PawnGoes(p, s, t) /\ n = To(p, s, "pawn", t)
    BY <1>0, <1>5
  <1>7. \A t : To(p, s, "pawn", t).to = t
    BY DEF To, Quiet
  <1>8. \A n : n \in promoting <=> s \in BeforePromotion(c) /\ n \in plain
    <2>1. \A t : PawnGoes(p, s, t) => (s \in BeforePromotion(c) <=> t \in HomeRank(OPP(c)))
      BY <1>0, LastStep
    <2> TAKE n
    <2>2. n \in promoting <=> n \in plain /\ n.to \in HomeRank(OPP(c))
      BY <1>0
    <2>3. n \in plain => \E t : PawnGoes(p, s, t) /\ n.to = t
      BY <1>6, <1>7
    <2> QED BY <2>1, <2>2, <2>3
  <1>9. \A t : t \in Reach(p.pieces, "pawn", c, s) <=> t \in Squares /\ Aslant(c, s, t)
    <2>1. \A t : t \in Reach(p.pieces, "pawn", c, s) <=> t \in Squares /\ Hits("pawn", c, s, t, OccupiedBy(p.pieces))
      BY <1>1, ReachIs
    <2> QED BY <2>1 DEF Hits, Jumps, Lined
  <1>10. PawnMoves(p, s, ep) =
           (plain \ promoting)
           \cup { PromotedTo(n, k) : n \in promoting, k \in Promotable }
           \cup { Flagged(s, t, "pawn", "EN_PASSANT") : t \in Reach(p.pieces, "pawn", c, s) \cap ep }
    BY <1>0 DEF PawnMoves, PromotedTo
  <1>11. m \in PawnMoves(p, s, ep) <=>
           \/ m \in plain /\ m \notin promoting
           \/ \E n \in promoting, k \in Promotable : m = PromotedTo(n, k)
           \/ \E t \in Reach(p.pieces, "pawn", c, s) \cap ep : m = Flagged(s, t, "pawn", "EN_PASSANT")
    BY <1>10
  <1>12. m \in plain /\ m \notin promoting <=>
           s \notin BeforePromotion(c) /\ \E t : PawnGoes(p, s, t) /\ m = To(p, s, "pawn", t)
    BY <1>6, <1>8
  <1>13. (\E n \in promoting, k \in Promotable : m = PromotedTo(n, k)) <=>
           /\ s \in BeforePromotion(c)
           /\ \E t, kind : /\ kind \in Promotable /\ PawnGoes(p, s, t)
                           /\ m = PromotedTo(To(p, s, "pawn", t), kind)
    BY <1>6, <1>8
  <1> QED BY <1>0, <1>9, <1>11, <1>12, <1>13

(* The plain moves the generator lists: not from the last rank but one.     *)
LEMMA PlainAre ==
  ASSUME NEW p, Good(p), NEW check, NEW m
  PROVE  m \in PawnPushes(p, check) \cup PawnCaptures(p, check) <=>
           \E s \in Own(p, "pawn") : \E t \in Squares :
             s \notin BeforePromotion(p.turn) /\ PawnGoes(p, s, t) /\ PawnMove(p, check, m, s, t)
  <1>0. PICK BP, push, take : /\ BP = BeforePromotion(p.turn)
                              /\ push = Pushable(p) \ BP /\ take = Attackable(p) \ BP
    OBVIOUS
  <1> DEFINE A1 == { Quiet(Behind(p, to, 0), to, "pawn") : to \in Pushes(p, push, Empty(p) \cap check, PinHV(p)) }
             A2 == { Quiet(Behind(p, to, 0) - 8 * Forward(p.turn), to, "pawn") :
                       to \in DoublePushes(p, push, check, PinHV(p)) }
             A3 == UNION { { Taking(p, Behind(p, to, compass), to, "pawn") :
                               to \in Attacks(p, take, compass, EnemyBB(p) \cap check, PinDiag(p)) }
                           : compass \in {East, West} }
  <1>1. m \in PawnPushes(p, check) \cup PawnCaptures(p, check) <=> m \in A1 \/ m \in A2 \/ m \in A3
    <2>1. PawnPushes(p, check) = A1 \cup A2
      BY <1>0 DEF PawnPushes
    <2>2. PawnCaptures(p, check) = A3
      BY <1>0 DEF PawnCaptures
    <2> HIDE DEF A1, A2, A3
    <2> QED BY <2>1, <2>2
  <1>2. push \subseteq Pushable(p) /\ take \subseteq Attackable(p)
    BY <1>0
  <1>3. m \in A1 <=> \E s \in push : \E t \in Squares :
           Ahead(p.turn, s, t) /\ t \in Empty(p) /\ PawnMove(p, check, m, s, t)
    BY <1>2, PushList
  <1>4. m \in A2 <=> \E s \in push : \E t \in Squares : Leap(p, s, t) /\ PawnMove(p, check, m, s, t)
    BY <1>2, DoubleList
  <1>5. m \in A3 <=> \E s \in take : \E t \in Squares :
           Aslant(p.turn, s, t) /\ t \in EnemyBB(p) /\ PawnMove(p, check, m, s, t)
    BY <1>2, TakeList
  <1> HIDE DEF A1, A2, A3
  <1>6. ASSUME NEW s \in Own(p, "pawn"), NEW t, PawnGoes(p, s, t), LinePin(p, s, t)
        PROVE  IF t \in EnemyBB(p) THEN s \in Attackable(p) ELSE s \in Pushable(p)
    BY <1>6, PawnWay DEF LinePin, Attackable, Pushable
  <1>7. ASSUME NEW s \in Own(p, "pawn"), NEW t, PawnGoes(p, s, t)
        PROVE  /\ t \in EnemyBB(p) <=> Aslant(p.turn, s, t)
               /\ ~(t \in EnemyBB(p) /\ t \in Empty(p))
    BY <1>7, PawnWay
  <1>8. (\A s \in push : s \in Own(p, "pawn") /\ s \notin BP) /\ (\A s \in take : s \in Own(p, "pawn") /\ s \notin BP)
    BY <1>0 DEF Attackable, Pushable
  <1>9. ASSUME NEW s \in Own(p, "pawn"), NEW t \in Squares, s \notin BP, PawnGoes(p, s, t), PawnMove(p, check, m, s, t)
        PROVE  m \in A1 \/ m \in A2 \/ m \in A3
    <2>1. IF t \in EnemyBB(p) THEN s \in take ELSE s \in push
      BY <1>0, <1>6, <1>9 DEF PawnMove
    <2>2. CASE t \in EnemyBB(p)
      BY <1>5, <1>7, <1>9, <2>1, <2>2
    <2>3. CASE t \notin EnemyBB(p)
      BY <1>3, <1>4, <1>7, <1>9, <2>1, <2>3 DEF PawnGoes
    <2> QED BY <2>2, <2>3
  <1>10. ASSUME m \in A1 \/ m \in A2 \/ m \in A3
         PROVE  \E s \in Own(p, "pawn") : \E t \in Squares :
                  s \notin BP /\ PawnGoes(p, s, t) /\ PawnMove(p, check, m, s, t)
    BY <1>3, <1>4, <1>5, <1>8, <1>10 DEF PawnGoes
  <1> QED BY <1>0, <1>1, <1>9, <1>10

(* The promotions the generator lists.                                      *)
LEMMA PromotionsAre ==
  ASSUME NEW p, Good(p), NEW check, NEW m
  PROVE  m \in Promotions(p, check) <=>
           \E s \in Own(p, "pawn") : \E t \in Squares : \E n : \E kind \in Promotable :
             /\ s \in BeforePromotion(p.turn) /\ PawnGoes(p, s, t) /\ PawnMove(p, check, n, s, t)
             /\ m = PromotedTo(n, kind)
  <1>0. PICK BP, push, take : /\ BP = BeforePromotion(p.turn)
                              /\ push = Pushable(p) \cap BP /\ take = Attackable(p) \cap BP
    OBVIOUS
  <1> DEFINE A1 == { Quiet(Behind(p, to, 0), to, "pawn") : to \in Pushes(p, push, Empty(p) \cap check, PinHV(p)) }
             A3 == UNION { { Taking(p, Behind(p, to, compass), to, "pawn") :
                               to \in Attacks(p, take, compass, EnemyBB(p) \cap check, PinDiag(p)) }
                           : compass \in {East, West} }
  <1>1. m \in Promotions(p, check) <=> \E n : \E kind \in Promotable : (n \in A1 \/ n \in A3) /\ m = PromotedTo(n, kind)
    <2>1. Promotions(p, check) = Promoted(A1 \cup A3)
      BY <1>0 DEF Promotions
    <2> HIDE DEF A1, A3
    <2> QED BY <2>1 DEF Promoted
  <1>2. push \subseteq Pushable(p) /\ take \subseteq Attackable(p)
    BY <1>0
  <1>3. \A n : n \in A1 <=> \E s \in push : \E t \in Squares :
           Ahead(p.turn, s, t) /\ t \in Empty(p) /\ PawnMove(p, check, n, s, t)
    BY <1>2, PushList
  <1>5. \A n : n \in A3 <=> \E s \in take : \E t \in Squares :
           Aslant(p.turn, s, t) /\ t \in EnemyBB(p) /\ PawnMove(p, check, n, s, t)
    BY <1>2, TakeList
  <1> HIDE DEF A1, A3
  <1>6. ASSUME NEW s \in Own(p, "pawn"), NEW t, PawnGoes(p, s, t), LinePin(p, s, t)
        PROVE  IF t \in EnemyBB(p) THEN s \in Attackable(p) ELSE s \in Pushable(p)
    BY <1>6, PawnWay DEF LinePin, Attackable, Pushable
  <1>7. ASSUME NEW s \in Own(p, "pawn"), NEW t, PawnGoes(p, s, t)
        PROVE  /\ t \in EnemyBB(p) <=> Aslant(p.turn, s, t)
               /\ Leap(p, s, t) => s \notin BP
    BY <1>0, <1>7, PawnWay, LastStep
  <1>8. (\A s \in push : s \in Own(p, "pawn") /\ s \in BP) /\ (\A s \in take : s \in Own(p, "pawn") /\ s \in BP)
    BY <1>0 DEF Attackable, Pushable
  <1>9. ASSUME NEW n, NEW s \in Own(p, "pawn"), NEW t \in Squares, s \in BP, PawnGoes(p, s, t), PawnMove(p, check, n, s, t)
        PROVE  n \in A1 \/ n \in A3
    <2>1. IF t \in EnemyBB(p) THEN s \in take ELSE s \in push
      BY <1>0, <1>6, <1>9 DEF PawnMove
    <2>2. CASE t \in EnemyBB(p)
      BY <1>5, <1>7, <1>9, <2>1, <2>2
    <2>3. CASE t \notin EnemyBB(p)
      BY <1>3, <1>7, <1>9, <2>1, <2>3 DEF PawnGoes
    <2> QED BY <2>2, <2>3
  <1>10. ASSUME NEW n, n \in A1 \/ n \in A3
         PROVE  \E s \in Own(p, "pawn") : \E t \in Squares :
                  s \in BP /\ PawnGoes(p, s, t) /\ PawnMove(p, check, n, s, t)
    BY <1>3, <1>5, <1>8, <1>10 DEF PawnGoes
  <1> QED BY <1>0, <1>1, <1>9, <1>10

(* A promotion differs in two fields.                                       *)
LEMMA PromotedIs ==
  ASSUME NEW p, NEW s, NEW t, NEW n, n = To(p, s, "pawn", t), NEW kind, NEW m, m = PromotedTo(n, kind)
  PROVE  m.piece = "pawn" /\ m.from = s /\ m.to = t /\ m.promoted = kind /\ m.flags = n.flags \cup {"PROMOTION"}
  <1>1. PICK j, F, G : /\ j = PieceOn(p.pieces, t)
                       /\ F = (IF t \in Occupancy(p.pieces, OPP(p.turn)) THEN {"CAPTURE"} ELSE {})
                       /\ G = F \cup {"PROMOTION"}
    OBVIOUS
  <1>2. n = [from |-> s, to |-> t, piece |-> "pawn", captured |-> j, promoted |-> NONE, flags |-> F]
    BY <1>1 DEF To, Quiet
  <1>3. n.flags = F
    BY <1>2
  <1>4. m = [n EXCEPT !.promoted = kind, !.flags = G]
    BY <1>1, <1>3 DEF PromotedTo
  <1>5. /\ m.piece = n.piece /\ m.from = n.from /\ m.to = n.to /\ m.promoted = kind /\ m.flags = G
    BY <1>2, <1>4
  <1> QED BY <1>1, <1>2, <1>3, <1>5

(* What mask and pin lines let a pawn do is what leaves the king safe,      *)
(* whatever the pawn becomes.                                               *)
LEMMA PawnSafe ==
  ASSUME NEW p, Good(p), Lawful(p), NEW s \in Own(p, "pawn"), NEW t, PawnGoes(p, s, t),
         NEW n, n = To(p, s, "pawn", t), NEW m, m = n \/ \E kind \in Promotable : m = PromotedTo(n, kind)
  PROVE  PawnMove(p, CheckMask(p), n, s, t) <=> ~InCheck(Moved(p.pieces, p.turn, m), p.turn)
  <1>1. /\ s \in Squares /\ s \in OwnBB(p) /\ t \in Squares /\ t \in Free(p)
        /\ Between[s][t] \cap p.occupied_sqs = {} /\ (RookLine(s, t) \/ BishopLine(s, t))
    BY PawnWay
  <1>2. LinePin(p, s, t) <=> FreeTo(p, s, t)
    BY <1>1, LinePinFits
  <1>3. Safe(p, s, t) <=> t \in CheckMask(p) /\ FreeTo(p, s, t)
    BY <1>1, SafeSplits
  <1>4. "pawn" \in PieceKinds /\ "pawn" # "king" /\ Promotable \subseteq PieceKinds /\ "king" \notin Promotable
        /\ NONE \notin Promotable
    BY DEF PieceKinds, Promotable, NONE
  <1>5. Lifts(p, n) /\ ~Is(n, "EN_PASSANT") /\ n.piece = "pawn" /\ n.from = s /\ n.to = t /\ n.promoted = NONE
    BY <1>1, <1>4, ToLifts
  <1>6. /\ Lifts(p, m) /\ ~Is(m, "EN_PASSANT") /\ m.piece = "pawn" /\ m.from = s /\ m.to = t
    <2>1. CASE m = n
      BY <1>5, <2>1
    <2>2. CASE \E kind \in Promotable : m = PromotedTo(n, kind)
      <3>1. PICK kind \in Promotable : m = PromotedTo(n, kind)
        BY <2>2
      <3>4. m.piece = "pawn" /\ m.from = s /\ m.to = t /\ m.promoted = kind /\ m.flags = n.flags \cup {"PROMOTION"}
        BY <3>1, PromotedIs
      <3>5. ~Is(m, "EN_PASSANT")
        BY <1>5, <3>4 DEF Is
      <3>6. Becomes(m) = kind /\ Rid(m) = Rid(n)
        BY <1>4, <1>5, <3>4, <3>5 DEF Becomes, Rid
      <3> QED BY <1>4, <1>5, <3>4, <3>5, <3>6 DEF Lifts
    <2> QED BY <2>1, <2>2
  <1>7. InCheck(Moved(p.pieces, p.turn, m), p.turn) <=> ~Safe(p, s, t)
    BY <1>4, <1>6, SafeIs
  <1> QED BY <1>2, <1>3, <1>7 DEF PawnMove

(* The pawns' moves other than en passant are those the rules allow.        *)
LEMMA PawnsExact ==
  ASSUME NEW p, Good(p), Lawful(p), NEW m
  PROVE  m \in PawnPushes(p, CheckMask(p)) \cup PawnCaptures(p, CheckMask(p)) \cup Promotions(p, CheckMask(p)) <=>
           \E s \in Own(p, "pawn") :
             m \in PawnMoves(p, s, {}) /\ ~InCheck(Moved(p.pieces, p.turn, m), p.turn)
  <1>0. PICK check, BP : check = CheckMask(p) /\ BP = BeforePromotion(p.turn)
    OBVIOUS
  <1>1. m \in PawnPushes(p, check) \cup PawnCaptures(p, check) <=>
           \E s \in Own(p, "pawn") : \E t \in Squares :
             s \notin BP /\ PawnGoes(p, s, t) /\ PawnMove(p, check, m, s, t)
    BY <1>0, PlainAre
  <1>2. m \in Promotions(p, check) <=>
           \E s \in Own(p, "pawn") : \E t \in Squares : \E n : \E kind \in Promotable :
             /\ s \in BP /\ PawnGoes(p, s, t) /\ PawnMove(p, check, n, s, t)
             /\ m = PromotedTo(n, kind)
    BY <1>0, PromotionsAre
  <1>3. ASSUME NEW s \in Own(p, "pawn")
        PROVE  m \in PawnMoves(p, s, {}) <=>
           \/ s \notin BP /\ \E t : PawnGoes(p, s, t) /\ m = To(p, s, "pawn", t)
           \/ /\ s \in BP
              /\ \E t, kind : /\ kind \in Promotable /\ PawnGoes(p, s, t)
                              /\ m = PromotedTo(To(p, s, "pawn", t), kind)
    BY <1>0, PawnMovesAre
  <1>4. ASSUME NEW s \in Own(p, "pawn"), NEW t, PawnGoes(p, s, t), m = To(p, s, "pawn", t)
        PROVE  PawnMove(p, check, m, s, t) <=> ~InCheck(Moved(p.pieces, p.turn, m), p.turn)
    BY <1>0, <1>4, PawnSafe
  <1>5. ASSUME NEW s \in Own(p, "pawn"), NEW t, PawnGoes(p, s, t), NEW n, n = To(p, s, "pawn", t),
               NEW kind \in Promotable, m = PromotedTo(n, kind)
        PROVE  PawnMove(p, check, n, s, t) <=> ~InCheck(Moved(p.pieces, p.turn, m), p.turn)
    BY <1>0, <1>5, PawnSafe
  <1>6. \A s \in Own(p, "pawn") : \A t : PawnGoes(p, s, t) => t \in Squares
    BY PawnWay
  <1>7. (\E s \in Own(p, "pawn") : \E t \in Squares :
             s \notin BP /\ PawnGoes(p, s, t) /\ PawnMove(p, check, m, s, t)) <=>
        (\E s \in Own(p, "pawn") : \E t :
             /\ s \notin BP /\ PawnGoes(p, s, t) /\ m = To(p, s, "pawn", t)
             /\ ~InCheck(Moved(p.pieces, p.turn, m), p.turn))
    BY <1>4, <1>6 DEF PawnMove
  <1>8. (\E s \in Own(p, "pawn") : \E t \in Squares : \E n : \E kind \in Promotable :
             /\ s \in BP /\ PawnGoes(p, s, t) /\ PawnMove(p, check, n, s, t)
             /\ m = PromotedTo(n, kind)) <=>
        (\E s \in Own(p, "pawn") : \E t : \E kind \in Promotable :
             /\ s \in BP /\ PawnGoes(p, s, t) /\ m = PromotedTo(To(p, s, "pawn", t), kind)
             /\ ~InCheck(Moved(p.pieces, p.turn, m), p.turn))
    BY <1>5, <1>6 DEF PawnMove
  <1> QED BY <1>0, <1>1, <1>2, <1>3, <1>7, <1>8

-----------------------------------------------------------------------------
(* En passant.  Taking the pawn on T, which passed t, with a pawn of the    *)
(* side uncovers a rook or queen on the king's rank.                        *)
Uncovers(p, T, s, u) ==
  /\ RookLine(KingSquare(p), u)
  /\ Between[KingSquare(p)][u] \cap (p.occupied_sqs \ ({T} \cup {s})) = {}
Exposed(p, t, T) ==
  /\ Rank(KingSquare(p)) = Rank(T) /\ \E w \in RookQueen(p) : Rank(w) = Rank(T)
  /\ \E s \in Own(p, "pawn") : Aslant(p.turn, s, t) /\ \E u \in RookQueen(p) : Uncovers(p, T, s, u)

(* The pawn on T just passed t, which is noted unless taking it uncovers    *)
(* the king.                                                                *)
Passed(p, t, T) ==
  /\ t \in Squares /\ T \in Squares /\ t \notin p.occupied_sqs /\ T \in Enemy(p, "pawn")
  /\ Ahead(p.turn, T, t) /\ Rank(t) = (IF p.turn = "white" THEN 5 ELSE 2)
  /\ p.en_passant_target = {T}
  /\ p.en_passant_sq = IF Exposed(p, t, T) THEN {} ELSE {t}

(* What UpdateEnPassantSq tests.                                            *)
LEMMA ExposesIs ==
  ASSUME NEW p, Good(p), NEW t \in Squares, NEW T \in Squares, Ahead(p.turn, T, t),
         NEW b, b.turn = p.turn, b.pieces = p.pieces, b.occupied_sqs = p.occupied_sqs,
         b.en_passant_sq = {t}
  PROVE  Exposes(b, {T}) <=> Exposed(p, t, T)
  <1>0. PICK K, c, o, R, Q, O : /\ K = KingSquare(p) /\ c = p.turn /\ o = OPP(c) /\ R = OnRank(Rank(T))
                                /\ Q = RookQueen(p) /\ O = p.occupied_sqs
    OBVIOUS
  <1>1. /\ K \in Squares /\ Own(p, "king") = {K} /\ c \in Colors /\ o \in Colors
        /\ \A k \in PieceKinds : Own(p, k) \subseteq Squares /\ Enemy(p, k) \subseteq Squares
    BY <1>0, PiecesAre
  <1>2. /\ Q \subseteq Squares /\ Own(p, "pawn") \subseteq Squares
        /\ Q = Enemy(p, "rook") \cup Enemy(p, "queen")
    BY <1>0, <1>1 DEF RookQueen, PieceKinds
  <1>3. \A x \in Squares : x \in R <=> Rank(x) = Rank(T)
    <2>1. Rank(T) \in 0 .. 7
      BY SquareIs
    <2> QED BY <1>0, <2>1, OnRankIs
  <1>4. Index({T}) = T /\ Index({K}) = K /\ {T} # {}
    BY DEF Index
  <1>5. /\ Own(b, "king") = {K} /\ Own(b, "pawn") = Own(p, "pawn")
        /\ Enemy(b, "rook") \cup Enemy(b, "queen") = Q
    BY <1>0, <1>1, <1>2 DEF Own, Enemy
  <1>6. PICK P : P = [compass \in {East, West} |-> PawnTargets(o, compass, {t}) \cap Own(p, "pawn")]
    OBVIOUS
  <1>7. Exposes(b, {T}) <=>
          /\ R \cap {K} # {} /\ R \cap Q # {} /\ R \cap Own(p, "pawn") # {}
          /\ \E compass \in {East, West} :
               P[compass] # {} /\ RookAttacks(O \ ({T} \cup P[compass]), K) \cap Q # {}
    BY <1>0, <1>4, <1>5, <1>6 DEF Exposes
  <1>8. \A compass \in {East, West} : \A s :
          s \in P[compass] <=> /\ s \in Own(p, "pawn") /\ File(s) = File(t) + compass
                               /\ Rank(s) = Rank(t) + Forward(o)
    <2> TAKE compass \in {East, West}
    <2> TAKE s
    <2>1. s \in PawnTargets(o, compass, {t}) <=>
            s \in Squares /\ \E x \in {t} : File(s) = File(x) + compass /\ Rank(s) = Rank(x) + Forward(o)
      BY <1>1, TargetsAre
    <2> QED BY <1>2, <1>6, <2>1
  <1>9. Forward(o) = -Forward(c) /\ Forward(c) \in {1, -1}
    BY <1>0, <1>1 DEF Forward, OPP, Colors
  <1>10. \A s \in Own(p, "pawn") : Aslant(c, s, t) <=> \E compass \in {East, West} : s \in P[compass]
    <2> TAKE s \in Own(p, "pawn")
    <2>1. /\ File(s) \in 0 .. 7 /\ File(t) \in 0 .. 7 /\ Rank(s) \in 0 .. 7 /\ Rank(t) \in 0 .. 7
      BY <1>2, SquareIs
    <2> QED BY <1>8, <1>9, <2>1 DEF Aslant, Abs, East, West
  <1>11. \A compass \in {East, West} : \A s \in P[compass] : P[compass] = {s}
    <2> TAKE compass \in {East, West}
    <2> TAKE s \in P[compass]
    <2>1. \A x \in P[compass] : x = s
      <3>1. \A x \in P[compass] : x \in Squares /\ File(x) = File(t) + compass /\ Rank(x) = Rank(t) + Forward(o)
        BY <1>2, <1>8
      <3> QED BY <3>1, SameSquare
    <2> QED BY <2>1
  <1>12. \A S : RookAttacks(O \ ({T} \cup S), K) \cap Q # {} <=>
                \E u \in Q : RookLine(K, u) /\ Between[K][u] \cap (O \ ({T} \cup S)) = {}
    <2> TAKE S
    <2>1. \A u : u \in RookAttacks(O \ ({T} \cup S), K) <=>
                   u \in Squares /\ RookLine(K, u) /\ Between[K][u] \cap (O \ ({T} \cup S)) = {}
      BY <1>1, SlidesAre
    <2> QED BY <1>2, <2>1
  <1>13. (\E compass \in {East, West} : P[compass] # {} /\ RookAttacks(O \ ({T} \cup P[compass]), K) \cap Q # {})
         <=> \E s \in Own(p, "pawn") : Aslant(c, s, t) /\ \E u \in Q : Uncovers(p, T, s, u)
    <2>1. ASSUME NEW compass \in {East, West}, P[compass] # {}, RookAttacks(O \ ({T} \cup P[compass]), K) \cap Q # {}
          PROVE  \E s \in Own(p, "pawn") : Aslant(c, s, t) /\ \E u \in Q : Uncovers(p, T, s, u)
      <3>1. PICK s : s \in P[compass]
        BY <2>1
      <3>2. P[compass] = {s} /\ s \in Own(p, "pawn") /\ Aslant(c, s, t)
        BY <1>8, <1>10, <1>11, <3>1
      <3>3. \E u \in Q : RookLine(K, u) /\ Between[K][u] \cap (O \ ({T} \cup {s})) = {}
        BY <1>12, <2>1, <3>2
      <3> QED BY <1>0, <3>2, <3>3 DEF Uncovers
    <2>2. ASSUME NEW s \in Own(p, "pawn"), Aslant(c, s, t), NEW u \in Q, Uncovers(p, T, s, u)
          PROVE  \E compass \in {East, West} :
                   P[compass] # {} /\ RookAttacks(O \ ({T} \cup P[compass]), K) \cap Q # {}
      <3>1. PICK compass \in {East, West} : s \in P[compass]
        BY <1>10, <2>2
      <3>2. P[compass] = {s}
        BY <1>11, <3>1
      <3>3. RookAttacks(O \ ({T} \cup {s}), K) \cap Q # {}
        BY <1>0, <1>12, <2>2 DEF Uncovers
      <3> QED BY <3>1, <3>2, <3>3
    <2> QED BY <2>1, <2>2
  <1>14. \A s \in Own(p, "pawn") : Aslant(c, s, t) => s \in R
    <2> TAKE s \in Own(p, "pawn")
    <2>1. Rank(s) \in 0 .. 7 /\ Rank(t) \in 0 .. 7 /\ Rank(T) \in 0 .. 7
      BY <1>2, SquareIs
    <2> QED BY <1>0, <1>2, <1>3, <1>9, <2>1 DEF Aslant, Ahead
  <1>15. (R \cap {K} # {} <=> Rank(K) = Rank(T)) /\ (R \cap Q # {} <=> \E w \in Q : Rank(w) = Rank(T))
    BY <1>1, <1>2, <1>3
  <1> QED BY <1>0, <1>7, <1>13, <1>14, <1>15 DEF Exposed

(* Ranks and files around a pawn that just passed.                          *)
LEMMA PassedAt ==
  ASSUME NEW p, Good(p), NEW t, NEW T, Passed(p, t, T)
  PROVE  /\ Origin(p, T) \in Squares /\ File(Origin(p, T)) = File(t) /\ File(T) = File(t)
         /\ Rank(Origin(p, T)) = Rank(t) + Forward(p.turn) /\ Rank(T) = Rank(t) - Forward(p.turn)
         /\ Forward(p.turn) \in {1, -1} /\ T = t - 8 * Forward(p.turn)
         /\ T \in p.occupied_sqs /\ T # t
  <1>1. p.turn \in Colors /\ t \in Squares /\ T \in Squares /\ Forward(p.turn) \in {1, -1}
    BY PiecesAre, ForwardIs DEF Passed
  <1>2. /\ t = 8 * Rank(t) + File(t) /\ T = 8 * Rank(T) + File(T)
        /\ File(t) \in 0 .. 7 /\ Rank(t) \in 0 .. 7 /\ Rank(T) \in 0 .. 7
    BY <1>1, SquareIs
  <1>3. File(T) = File(t) /\ Rank(T) = Rank(t) - Forward(p.turn) /\ T = t - 8 * Forward(p.turn)
    BY <1>1, <1>2 DEF Passed, Ahead
  <1>4. Rank(t) + Forward(p.turn) \in 0 .. 7
    BY <1>1 DEF Passed, Forward, Colors
  <1>5. PICK r, f : r = Rank(t) + Forward(p.turn) /\ f = File(t)
    OBVIOUS
  <1>6. Origin(p, T) = 8 * r + f
    <2>1. PICK F, q : F = Forward(p.turn) /\ q = Rank(t)
      OBVIOUS
    <2>2. F \in {1, -1} /\ q \in 0 .. 7 /\ f \in 0 .. 7 /\ r = q + F /\ T = t - 8 * F /\ t = 8 * q + f
      BY <1>1, <1>2, <1>3, <1>5, <2>1
    <2>3. T + 16 * F = 8 * r + f
      BY <2>2
    <2> QED BY <2>1, <2>3 DEF Origin
  <1>7. Origin(p, T) \in Squares /\ Rank(Origin(p, T)) = r /\ File(Origin(p, T)) = f
    BY <1>2, <1>4, <1>5, <1>6, SquareAt
  <1>8. T \in p.occupied_sqs
    <2>1. \A x : x \in p.occupied_sqs <=> \E k \in PieceKinds : x \in Own(p, k) \/ x \in Enemy(p, k)
      BY PiecesAre
    <2>2. T \in Enemy(p, "pawn") /\ "pawn" \in PieceKinds
      BY DEF Passed, PieceKinds
    <2> QED BY <2>1, <2>2
  <1>9. T # t
    BY <1>8 DEF Passed
  <1>10. /\ Origin(p, T) \in Squares /\ File(Origin(p, T)) = File(t)
         /\ Rank(Origin(p, T)) = Rank(t) + Forward(p.turn)
    BY <1>5, <1>7
  <1> QED BY <1>1, <1>3, <1>8, <1>9, <1>10

(* With the pawn back where it came from the king was not attacked: no      *)
(* piece but that pawn jumps at it, and something stood between it and      *)
(* every slider.                                                            *)
LEMMA BeforePassed ==
  ASSUME NEW p, Good(p), Lawful(p), NEW t, NEW T, Passed(p, t, T), NEW u \in Squares
  PROVE  /\ Jumper(p, u) => u = T
         /\ Slider(p, u) => /\ u # T /\ u # t
                            /\ \/ Origin(p, T) \in Between[KingSquare(p)][u]
                               \/ \E x \in Screen(p, u) : x # T
  <1>0. PICK K, c, o, S, B : /\ K = KingSquare(p) /\ c = p.turn /\ o = OPP(c) /\ S = Origin(p, T)
                             /\ B = Before(p, T)
    OBVIOUS
  <1>1. /\ K \in Squares /\ Own(p, "king") = {K} /\ c \in Colors /\ o \in Colors /\ o # c
        /\ p.pieces \in Boards
        /\ \A k \in PieceKinds : Own(p, k) \subseteq Squares /\ Enemy(p, k) \subseteq Squares
        /\ \A x : x \in p.occupied_sqs <=> \E k \in PieceKinds : x \in Own(p, k) \/ x \in Enemy(p, k)
    BY <1>0, PiecesAre
  <1>2. S \in Squares /\ T \in p.occupied_sqs
    BY <1>0, PassedAt
  <1>3. /\ T \in Squares /\ t \notin p.occupied_sqs /\ T \in Enemy(p, "pawn") /\ p.en_passant_target = {T}
    BY DEF Passed
  <1>4. ~InCheck(B, c)
    BY <1>0, <1>3 DEF Lawful
  <1>5. /\ B \in Boards /\ B[c]["king"] = {K} /\ \A k \in PieceKinds : B[c][k] = Own(p, k)
        /\ \A k \in PieceKinds \ {"pawn"} : B[o][k] = Enemy(p, k)
        /\ B[o]["pawn"] = (Enemy(p, "pawn") \ {T}) \cup {S}
    <2>1. PICK E : E = (Enemy(p, "pawn") \ {T}) \cup {S}
      OBVIOUS
    <2>2. B = Put(p.pieces, o, "pawn", E)
      BY <1>0, <2>1 DEF Before, Put, Enemy
    <2>3. "pawn" \in PieceKinds /\ "king" \in PieceKinds /\ E \in SUBSET Squares
      BY <1>1, <1>2, <2>1 DEF PieceKinds
    <2>4. /\ B \in Boards /\ B[o]["pawn"] = E
          /\ \A d \in Colors, j \in PieceKinds : d # o \/ j # "pawn" => B[d][j] = p.pieces[d][j]
      BY <1>1, <2>2, <2>3, PutIs
    <2> QED BY <1>0, <1>1, <2>1, <2>3, <2>4 DEF Own, Enemy
  <1>6. ASSUME NEW k \in PieceKinds, NEW x \in Squares, x \in B[o][k]
        PROVE  ~Hits(k, o, x, K, OccupiedBy(B))
    <2>1. InCheck(B, c) <=>
           \E j \in PieceKinds : \E w \in B[OPP(c)][j] :
             w \in Squares /\ Hits(j, OPP(c), w, K, OccupiedBy(B))
      BY <1>1, <1>5, InCheckIs
    <2> QED BY <1>0, <1>4, <1>6, <2>1
  <1>7. \A x : x \in OccupiedBy(B) => x = S \/ (x \in p.occupied_sqs /\ x # T)
    <2> TAKE x
    <2> SUFFICES ASSUME x \in OccupiedBy(B) PROVE x = S \/ (x \in p.occupied_sqs /\ x # T)
      OBVIOUS
    <2>1. PICK d \in Colors, k \in PieceKinds : x \in B[d][k]
      BY Occupied DEF OccupiedBy, Colors
    <2>2. \A j \in PieceKinds : ~(T \in Own(p, j)) /\ (T \in Enemy(p, j) => j = "pawn")
      <3>1. "pawn" \in PieceKinds
        BY DEF PieceKinds
      <3>2. /\ \A i, j \in PieceKinds : \A y : ~(y \in Own(p, i) /\ y \in Enemy(p, j))
            /\ \A i, j \in PieceKinds : \A y : y \in Enemy(p, i) /\ y \in Enemy(p, j) => i = j
        BY PiecesAre
      <3> QED BY <1>3, <3>1, <3>2
    <2>3. CASE d = c
      BY <1>1, <1>5, <2>1, <2>2, <2>3
    <2>4. CASE d = o /\ k # "pawn"
      BY <1>1, <1>5, <2>1, <2>2, <2>4
    <2>5. CASE d = o /\ k = "pawn"
      BY <1>1, <1>5, <2>1, <2>5
    <2>6. d = c \/ d = o
      BY <1>0, <1>1, <2>1, OppIs
    <2> QED BY <2>3, <2>4, <2>5, <2>6
  <1>8. Jumper(p, u) => u = T
    <2> SUFFICES ASSUME Jumper(p, u), u # T PROVE FALSE
      OBVIOUS
    <2>1. PICK k \in PieceKinds : u \in Enemy(p, k) /\ Jumps(k, o, u, K)
      BY <1>0 DEF Jumper
    <2>2. u \in B[o][k]
      BY <1>5, <2>1
    <2> QED BY <1>6, <2>1, <2>2 DEF Hits
  <1>9. ASSUME Slider(p, u)
        PROVE  /\ u # T /\ u # t
               /\ S \in Between[K][u] \/ \E x \in Screen(p, u) : x # T
    <2>1. PICK k \in PieceKinds : u \in Enemy(p, k) /\ Lined(k, u, K)
      BY <1>0, <1>9 DEF Slider
    <2>2. k # "pawn" /\ "pawn" \in PieceKinds
      BY <2>1 DEF Lined, PieceKinds
    <2>3. u # T /\ u # t
      <3>1. \A i, j \in PieceKinds : \A x : x \in Enemy(p, i) /\ x \in Enemy(p, j) => i = j
        BY PiecesAre
      <3> QED BY <1>1, <1>3, <2>1, <2>2, <3>1
    <2>4. u \in B[o][k]
      BY <1>5, <2>1, <2>2
    <2>5. Between[u][K] \cap OccupiedBy(B) # {}
      BY <1>6, <2>1, <2>4 DEF Hits
    <2>6. Between[u][K] = Between[K][u]
      BY <1>1, LinesTurn
    <2>7. PICK x : x \in Between[K][u] /\ x \in OccupiedBy(B)
      BY <2>5, <2>6
    <2> QED BY <1>0, <1>7, <2>3, <2>7 DEF Screen
  <1> QED BY <1>0, <1>8, <1>9

(* A line that holds the square the passing pawn came from and the one it   *)
(* went to holds the one it passed, and is its file.                        *)
LEMMA PassedLine ==
  ASSUME NEW p, Good(p), NEW t, NEW T, Passed(p, t, T), NEW K \in Squares, NEW u \in Squares
  PROVE  /\ Origin(p, T) \in Between[K][u] /\ T \in Between[K][u] => t \in Between[K][u]
         /\ Origin(p, T) \in Between[K][u] /\ t \in Between[K][u] => File(K) = File(t)
  <1>0. PICK F, S, rK, fK, ru, fu, r, f :
          /\ F = Forward(p.turn) /\ S = Origin(p, T)
          /\ rK = Rank(K) /\ fK = File(K) /\ ru = Rank(u) /\ fu = File(u) /\ r = Rank(t) /\ f = File(t)
    OBVIOUS
  <1>1. /\ S \in Squares /\ t \in Squares /\ T \in Squares /\ F \in {1, -1}
        /\ Rank(S) = r + F /\ File(S) = f /\ Rank(T) = r - F /\ File(T) = f
    BY <1>0, PassedAt DEF Passed
  <1>2. /\ S \in Between[K][u] <=> Strictly(rK, fK, ru, fu, r + F, f)
        /\ T \in Between[K][u] <=> Strictly(rK, fK, ru, fu, r - F, f)
        /\ t \in Between[K][u] <=> Strictly(rK, fK, ru, fu, r, f)
    BY <1>0, <1>1, BetweenIs
  <1>3. /\ rK \in 0 .. 7 /\ fK \in 0 .. 7 /\ ru \in 0 .. 7 /\ fu \in 0 .. 7 /\ r \in 0 .. 7 /\ f \in 0 .. 7
    BY <1>0, <1>1, SquareIs
  <1>4. Strictly(rK, fK, ru, fu, r + F, f) /\ Strictly(rK, fK, ru, fu, r - F, f) => Strictly(rK, fK, ru, fu, r, f)
    BY <1>1, <1>3, SMTT(60) DEF Strictly, Mid
  <1>5. Strictly(rK, fK, ru, fu, r + F, f) /\ Strictly(rK, fK, ru, fu, r, f) => fK = f
    BY <1>1, <1>3, SMTT(60) DEF Strictly, Mid
  <1> QED BY <1>0, <1>2, <1>4, <1>5

(* A line that holds two squares of a rank is that rank.                    *)
LEMMA SameRankLine ==
  ASSUME NEW K \in Squares, NEW u \in Squares, NEW s \in Between[K][u], NEW t \in Between[K][u],
         s # t, Rank(s) = Rank(t)
  PROVE  RookLine(K, u) /\ Rank(K) = Rank(t) /\ Rank(u) = Rank(t)
  <1>0. PICK rK, fK, ru, fu, r, f, g :
          /\ rK = Rank(K) /\ fK = File(K) /\ ru = Rank(u) /\ fu = File(u)
          /\ r = Rank(t) /\ f = File(t) /\ g = File(s)
    OBVIOUS
  <1>1. s \in Squares /\ t \in Squares
    BY BetweenOn
  <1>2. Strictly(rK, fK, ru, fu, r, f) /\ Strictly(rK, fK, ru, fu, r, g)
    BY <1>0, <1>1, BetweenIs
  <1>3. /\ rK \in 0 .. 7 /\ fK \in 0 .. 7 /\ ru \in 0 .. 7 /\ fu \in 0 .. 7
        /\ r \in 0 .. 7 /\ f \in 0 .. 7 /\ g \in 0 .. 7
    BY <1>0, <1>1, SquareIs
  <1>4. f # g
    BY <1>0, <1>1, SameSquare
  <1>5. rK = r /\ ru = r /\ fK # fu
    BY <1>2, <1>3, <1>4, SMTT(60) DEF Strictly, Mid
  <1> QED BY <1>0, <1>5, LineIs DEF Straight

(* A pawn that just passed and now gives check is not on the king's file.   *)
LEMMA PassedJumps ==
  ASSUME NEW p, Good(p), Lawful(p), NEW t, NEW T, Passed(p, t, T), Jumper(p, T)
  PROVE  File(KingSquare(p)) # File(t)
  <1>1. KingSquare(p) \in Squares /\ \A i, j \in PieceKinds : \A x : x \in Enemy(p, i) /\ x \in Enemy(p, j) => i = j
    BY PiecesAre
  <1>2. T \in Squares /\ T \in Enemy(p, "pawn") /\ File(T) = File(t)
    BY PassedAt DEF Passed
  <1>3. JumpsFrom(p, T)
    BY <1>2, Jumpers
  <1>4. Aslant(OPP(p.turn), T, KingSquare(p))
    <2>1. "pawn" \in PieceKinds /\ "knight" \in PieceKinds /\ "pawn" # "knight"
      BY DEF PieceKinds
    <2> QED BY <1>1, <1>2, <1>3, <2>1 DEF JumpsFrom
  <1>5. File(KingSquare(p)) \in Int /\ File(T) \in Int
    BY <1>1, <1>2, SquareIs
  <1> QED BY <1>2, <1>4, <1>5 DEF Aslant, Abs

(* The king is safe after an en passant capture from s.                     *)
SafePassing(p, t, T, s) ==
  \A u \in Squares : /\ Jumper(p, u) => u = T
                     /\ Slider(p, u) /\ Screen(p, u) \subseteq {s, T} => u = T \/ t \in Between[KingSquare(p)][u]

(* The fields of an en passant capture.                                     *)
LEMMA PassingIs ==
  ASSUME NEW s, NEW t, NEW m, m = Flagged(s, t, "pawn", "EN_PASSANT")
  PROVE  /\ m.from = s /\ m.to = t /\ m.piece = "pawn" /\ m.captured = NONE /\ m.promoted = NONE
         /\ m.flags = {"EN_PASSANT"}
  BY DEF Flagged, Quiet

(* An en passant capture leaves the king in check unless it is safe.        *)
LEMMA PassingCheck ==
  ASSUME NEW p, Good(p), NEW t, NEW T, Passed(p, t, T), NEW s \in Own(p, "pawn"), Aslant(p.turn, s, t),
         NEW m, m = Flagged(s, t, "pawn", "EN_PASSANT"), NEW c, c = p.turn
  PROVE  InCheck(Moved(p.pieces, c, m), c) <=> ~SafePassing(p, t, T, s)
  <1>0. PICK K, o, D : K = KingSquare(p) /\ o = OPP(c) /\ D = Moved(p.pieces, c, m)
    OBVIOUS
  <1>1. /\ K \in Squares /\ Own(p, "king") = {K} /\ c \in Colors /\ o \in Colors
        /\ \A k \in PieceKinds : Enemy(p, k) \subseteq Squares /\ Own(p, k) \subseteq Squares
    BY <1>0, PiecesAre
  <1>2. /\ m.from = s /\ m.to = t /\ m.piece = "pawn" /\ m.promoted = NONE /\ Is(m, "EN_PASSANT")
    BY PassingIs DEF Is
  <1>3. "pawn" \in PieceKinds /\ "pawn" # "king"
    BY DEF PieceKinds
  <1>4. /\ s \in Squares /\ t \in Squares /\ T \in Squares /\ T \in Enemy(p, "pawn") /\ t \notin p.occupied_sqs
    BY <1>1, <1>3 DEF Passed
  <1>5. 8 * Rank(s) + File(t) = T
    <2>1. /\ File(T) = File(t) /\ Rank(T) = Rank(t) - Forward(c) /\ Forward(c) \in {1, -1}
      BY PassedAt
    <2>2. Rank(t) = Rank(s) + Forward(c)
      BY DEF Aslant
    <2>3. T = 8 * Rank(T) + File(T) /\ Rank(s) \in Int /\ Rank(t) \in Int
      BY <1>4, SquareIs
    <2>4. Rank(T) = Rank(s)
      BY <2>1, <2>2, <2>3
    <2> QED BY <2>1, <2>3, <2>4
  <1>6. Rid(m) = {T} /\ Becomes(m) = "pawn"
    BY <1>2, <1>5 DEF Rid, Becomes
  <1>7. Lifts(p, m)
    <2>1. \A k \in PieceKinds : Own(p, k) \cap Rid(m) = {}
      <3>1. \A j, k \in PieceKinds : \A x : ~(x \in Own(p, j) /\ x \in Enemy(p, k))
        BY PiecesAre
      <3> QED BY <1>3, <1>4, <1>6, <3>1
    <2> QED BY <1>2, <1>3, <1>4, <1>6, <2>1 DEF Lifts
  <1>8. /\ D \in Boards /\ D[c]["king"] = {K}
        /\ \A k \in PieceKinds : D[o][k] = Enemy(p, k) \ {T}
        /\ OccupiedBy(D) = (p.occupied_sqs \ ({s} \cup {T})) \cup {t}
    <2>1. /\ D \in Boards
          /\ \A k \in PieceKinds : D[OPP(c)][k] = Enemy(p, k) \ Rid(m)
          /\ D[c]["king"] = IF m.piece = "king" THEN {m.to} ELSE Own(p, "king")
          /\ OccupiedBy(D) = (p.occupied_sqs \ ({m.from} \cup Rid(m))) \cup {m.to}
      <3>1. Results(p, m, c, D)
        BY <1>0, <1>7, MovedIs
      <3> QED BY <3>1 DEF Results
    <2>2. D[c]["king"] = {K}
      BY <1>1, <1>2, <1>3, <2>1
    <2>3. \A k \in PieceKinds : D[o][k] = Enemy(p, k) \ {T}
      BY <1>0, <1>6, <2>1
    <2>4. OccupiedBy(D) = (p.occupied_sqs \ ({s} \cup {T})) \cup {t}
      BY <1>2, <1>6, <2>1
    <2> QED BY <2>1, <2>2, <2>3, <2>4
  <1>9. InCheck(D, c) <=>
          \E k \in PieceKinds : \E u \in D[o][k] : u \in Squares /\ Hits(k, o, u, K, OccupiedBy(D))
    BY <1>0, <1>1, <1>8, InCheckIs
  <1>10. ASSUME NEW k \in PieceKinds, NEW u \in Squares
         PROVE  Hits(k, o, u, K, OccupiedBy(D)) <=>
                  \/ Jumps(k, o, u, K)
                  \/ Lined(k, u, K) /\ Screen(p, u) \subseteq {s, T} /\ t \notin Between[K][u]
    <2>1. Between[u][K] = Between[K][u]
      BY <1>1, LinesTurn
    <2>2. Between[K][u] \cap OccupiedBy(D) = {} <=> Screen(p, u) \subseteq {s, T} /\ t \notin Between[K][u]
      BY <1>0, <1>8 DEF Screen
    <2> QED BY <2>1, <2>2 DEF Hits
  <1>11. ASSUME NEW k \in PieceKinds, NEW u \in D[o][k], u \in Squares, Hits(k, o, u, K, OccupiedBy(D))
         PROVE  /\ u # T
                /\ \/ Jumper(p, u)
                   \/ Slider(p, u) /\ Screen(p, u) \subseteq {s, T} /\ t \notin Between[K][u]
    BY <1>0, <1>8, <1>10, <1>11 DEF Jumper, Slider
  <1>12. ASSUME NEW u \in Squares, u # T, Jumper(p, u)
         PROVE  \E k \in PieceKinds : u \in D[o][k] /\ Hits(k, o, u, K, OccupiedBy(D))
    BY <1>0, <1>8, <1>10, <1>12 DEF Jumper
  <1>13. ASSUME NEW u \in Squares, u # T, Slider(p, u), Screen(p, u) \subseteq {s, T}, t \notin Between[K][u]
         PROVE  \E k \in PieceKinds : u \in D[o][k] /\ Hits(k, o, u, K, OccupiedBy(D))
    BY <1>0, <1>8, <1>10, <1>13 DEF Slider
  <1>14. InCheck(D, c) <=>
           \E u \in Squares : /\ u # T
                              /\ \/ Jumper(p, u)
                                 \/ Slider(p, u) /\ Screen(p, u) \subseteq {s, T} /\ t \notin Between[K][u]
    BY <1>9, <1>11, <1>12, <1>13
  <1> QED BY <1>0, <1>14 DEF SafePassing

(* The squares where a pawn takes en passant, and the pawns that may.       *)
LEMMA PassingsAre ==
  ASSUME NEW p, Good(p), NEW t, NEW T, Passed(p, t, T), NEW check, NEW m
  PROVE  m \in EnPassants(p, check) <=>
           /\ p.en_passant_sq = {t}
           /\ t \in check \/ (check # Universe /\ T \in check)
           /\ \E s \in Own(p, "pawn") : /\ Aslant(p.turn, s, t) /\ LinePin(p, s, t)
                                        /\ m = Flagged(s, t, "pawn", "EN_PASSANT")
  <1>0. PICK M, pawns, pin, c : /\ M = EnPassantMask(p, check) /\ pin = PinDiag(p) /\ c = p.turn
                                /\ pawns = Attackable(p) \ BeforePromotion(p.turn)
    OBVIOUS
  <1>1. /\ c \in Colors /\ pawns \in SUBSET Squares /\ Own(p, "pawn") \subseteq Squares
        /\ \A s \in pawns : s \in Own(p, "pawn") /\ s \notin PinHV(p) /\ s \in Squares
    BY <1>0, PiecesAre DEF Attackable, PieceKinds
  <1>2. t \in Squares /\ p.en_passant_target = {T} /\ p.en_passant_sq \in {{t}, {}}
    BY DEF Passed
  <1>3. M = IF p.en_passant_sq = {t} /\ (t \in check \/ (check # Universe /\ T \in check)) THEN {t} ELSE {}
    BY <1>0, <1>2 DEF EnPassantMask
  <1>4. m \in EnPassants(p, check) <=>
          \E compass \in {East, West} : \E x \in Attacks(p, pawns, compass, M, pin) :
             m = Flagged(Behind(p, x, compass), x, "pawn", "EN_PASSANT")
    BY <1>0 DEF EnPassants
  <1>5. \A compass \in {East, West} : \A x :
          x \in Attacks(p, pawns, compass, M, pin) <=> x \in Squares /\ x \in M /\ TakesTo(p, pawns, compass, pin, x)
    BY <1>0, <1>1, PushesAre
  <1>6. ASSUME NEW s \in Squares
        PROVE  Aslant(c, s, t) <=>
                 \E compass \in {East, West} : File(t) = File(s) + compass /\ Rank(t) = Rank(s) + Forward(c)
    <2>1. File(s) \in Int /\ File(t) \in Int
      BY <1>2, SquareIs
    <2> QED BY <2>1 DEF Aslant, Abs, East, West
  <1>7. ASSUME NEW compass \in {East, West}, NEW s \in Squares,
               File(t) = File(s) + compass, Rank(t) = Rank(s) + Forward(c)
        PROVE  s = Behind(p, t, compass)
    <2>1. compass \in {-1, 0, 1}
      BY DEF East, West
    <2> QED BY <1>0, <1>1, <1>2, <1>7, <2>1, CameFrom DEF Behind
  <1>8. ASSUME NEW s \in Own(p, "pawn"), Aslant(c, s, t)
        PROVE  LinePin(p, s, t) /\ s \notin BeforePromotion(c) <=> s \in pawns /\ (s \in pin => t \in pin)
    <2>1. BishopLine(s, t)
      BY <1>1, <1>2, <1>8, StepLines
    <2> QED BY <1>0, <2>1 DEF LinePin, Attackable
  <1>9. ASSUME NEW s \in Own(p, "pawn"), Aslant(c, s, t)
        PROVE  s \notin BeforePromotion(c)
    <2>1. \A r \in 0 .. 7 : s \in OnRank(r) <=> Rank(s) = r
      BY <1>1, OnRankIs
    <2>2. 1 \in 0 .. 7 /\ 6 \in 0 .. 7 /\ Rank(s) \in 0 .. 7
      BY <1>1, SquareIs
    <2>3. Rank(t) = (IF c = "white" THEN 5 ELSE 2) /\ Rank(t) = Rank(s) + Forward(c)
      BY <1>0, <1>9 DEF Passed, Aslant
    <2> QED BY <1>1, <2>1, <2>2, <2>3 DEF BeforePromotion, PawnRank, OPP, Colors, Forward
  <1>10. ASSUME m \in EnPassants(p, check)
         PROVE  /\ t \in M
                /\ \E s \in Own(p, "pawn") : /\ Aslant(c, s, t) /\ LinePin(p, s, t)
                                             /\ m = Flagged(s, t, "pawn", "EN_PASSANT")
    <2>1. PICK compass \in {East, West} : \E x \in Attacks(p, pawns, compass, M, pin) :
             m = Flagged(Behind(p, x, compass), x, "pawn", "EN_PASSANT")
      BY <1>4, <1>10
    <2>2. t \in M /\ TakesTo(p, pawns, compass, pin, t) /\ m = Flagged(Behind(p, t, compass), t, "pawn", "EN_PASSANT")
      BY <1>3, <1>5, <2>1
    <2>3. PICK s \in pawns : /\ File(t) = File(s) + compass /\ Rank(t) = Rank(s) + Forward(c)
                             /\ s \in pin => t \in pin
      BY <1>0, <2>2 DEF TakesTo
    <2>4. Aslant(c, s, t) /\ s = Behind(p, t, compass)
      BY <1>1, <1>6, <1>7, <2>3
    <2> QED BY <1>1, <1>8, <2>2, <2>3, <2>4
  <1>11. ASSUME t \in M, NEW s \in Own(p, "pawn"), Aslant(c, s, t), LinePin(p, s, t),
                m = Flagged(s, t, "pawn", "EN_PASSANT")
         PROVE  m \in EnPassants(p, check)
    <2>1. s \in pawns /\ (s \in pin => t \in pin)
      BY <1>8, <1>9, <1>11
    <2>2. PICK compass \in {East, West} : File(t) = File(s) + compass /\ Rank(t) = Rank(s) + Forward(c)
      BY <1>1, <1>6, <1>11
    <2>3. s = Behind(p, t, compass)
      BY <1>1, <1>7, <2>2
    <2>4. TakesTo(p, pawns, compass, pin, t)
      BY <1>0, <2>1, <2>2 DEF TakesTo
    <2> QED BY <1>2, <1>4, <1>5, <1>11, <2>3, <2>4
  <1> QED BY <1>0, <1>3, <1>10, <1>11

(* What the generator asks of an en passant capture from s.                 *)
MayPass(p, t, T, s) ==
  /\ p.en_passant_sq = {t}
  /\ t \in CheckMask(p) \/ (CheckMask(p) # Universe /\ T \in CheckMask(p))
  /\ LinePin(p, s, t)

(* A listed en passant capture leaves the king safe.                        *)
LEMMA PassingListed ==
  ASSUME NEW p, Good(p), Lawful(p), NEW t, NEW T, Passed(p, t, T), NEW s \in Own(p, "pawn"),
         Aslant(p.turn, s, t), MayPass(p, t, T, s)
  PROVE  SafePassing(p, t, T, s)
  <1>0. PICK K, S : K = KingSquare(p) /\ S = Origin(p, T)
    OBVIOUS
  <1>1. /\ K \in Squares /\ s \in Squares /\ t \in Squares /\ T \in Squares /\ s \in OwnBB(p)
        /\ T \in p.occupied_sqs /\ s \in p.occupied_sqs /\ t \notin p.occupied_sqs /\ T \in Enemy(p, "pawn")
    <2>1. /\ \A k \in PieceKinds : Own(p, k) \subseteq Squares
          /\ \A x : x \in p.occupied_sqs <=> \E k \in PieceKinds : x \in Own(p, k) \/ x \in Enemy(p, k)
      BY PiecesAre
    <2>2. "pawn" \in PieceKinds
      BY DEF PieceKinds
    <2>3. s \in OwnBB(p)
      BY <2>2, Occupied DEF OwnBB, Own
    <2> QED BY <1>0, <2>1, <2>2, <2>3, PiecesAre, PassedAt DEF Passed
  <1>2. T # s /\ T # t /\ Rank(T) = Rank(s)
    <2>1. \A j, k \in PieceKinds : \A x : ~(x \in Own(p, j) /\ x \in Enemy(p, k))
      BY PiecesAre
    <2>2. "pawn" \in PieceKinds
      BY DEF PieceKinds
    <2>3. Rank(t) = Rank(s) + Forward(p.turn) /\ Rank(T) = Rank(t) - Forward(p.turn)
      BY PassedAt DEF Aslant
    <2>4. Forward(p.turn) \in Int /\ Rank(s) \in Int /\ Rank(t) \in Int
      BY <1>1, SquareIs, PassedAt
    <2> QED BY <1>1, <2>1, <2>2, <2>3, <2>4
  <1>3. FreeTo(p, s, t)
    <2>1. BishopLine(s, t) /\ Between[s][t] = {}
      BY <1>1, PiecesAre, StepLines
    <2> QED BY <1>1, <2>1, LinePinFits DEF MayPass
  <1>4. ASSUME NEW u \in Squares, Slider(p, u), Screen(p, u) \subseteq {s, T}, t \notin Between[K][u]
        PROVE  FALSE
    <2>1. u # T /\ u # t /\ (S \in Between[K][u] \/ \E x \in Screen(p, u) : x # T)
      BY <1>0, <1>4, BeforePassed
    <2>2. t \notin Way(p, u)
      BY <1>0, <1>4, <2>1 DEF Way, Seg
    <2>3. Screen(p, u) # {s}
      BY <1>3, <1>4, <2>2 DEF FreeTo
    <2>4. CASE T \in Between[K][u] /\ s \in Screen(p, u)
      <3>1. s \in Between[K][u]
        BY <1>0, <2>4 DEF Screen
      <3>2. RookLine(K, u) /\ Rank(K) = Rank(T) /\ Rank(u) = Rank(T)
        BY <1>1, <1>2, <1>4, <2>4, <3>1, SameRankLine
      <3>3. u \in RookQueen(p)
        <4>1. ~BishopLine(K, u)
          BY <1>1, <1>4, <3>2, LinesTurn
        <4> QED BY <1>0, <1>1, <1>4, <4>1, SliderKind, SlidesAre
      <3>4. Uncovers(p, T, s, u)
        <4>1. Between[K][u] \cap (p.occupied_sqs \ ({T} \cup {s})) = {}
          BY <1>0, <1>4 DEF Screen
        <4> QED BY <1>0, <3>2, <4>1 DEF Uncovers
      <3>5. Exposed(p, t, T)
        BY <1>0, <3>2, <3>3, <3>4 DEF Exposed
      <3> QED BY <3>5 DEF Passed, MayPass
    <2>5. CASE S \in Between[K][u] /\ T \notin Between[K][u]
      <3>1. Screen(p, u) = {}
        BY <1>0, <1>4, <2>3, <2>5 DEF Screen
      <3>2. \A x \in Squares : x \in CheckMask(p) => x \in Way(p, u)
        BY <1>4, <3>1, MaskIs
      <3>3. T \notin Way(p, u)
        BY <1>0, <2>1, <2>5 DEF Way, Seg
      <3> QED BY <1>1, <2>2, <3>2, <3>3 DEF MayPass
    <2>6. CASE S \in Between[K][u] /\ T \in Between[K][u]
      BY <1>0, <1>1, <1>4, <2>6, PassedLine
    <2>7. CASE (\E x \in Screen(p, u) : x # T) /\ T \notin Between[K][u]
      BY <1>0, <1>4, <2>3, <2>7 DEF Screen
    <2>8. CASE (\E x \in Screen(p, u) : x # T) /\ T \in Between[K][u]
      BY <1>4, <2>4, <2>8
    <2> QED BY <2>1, <2>5, <2>6, <2>7, <2>8
  <1>5. \A u \in Squares : Jumper(p, u) => u = T
    BY BeforePassed
  <1> QED BY <1>0, <1>4, <1>5 DEF SafePassing

(* A rook or queen that would give check with the passing pawn and one      *)
(* beside it gone, would give check after any en passant capture.           *)
LEMMA ExposedUnsafe ==
  ASSUME NEW p, Good(p), NEW t, NEW T, Passed(p, t, T), Exposed(p, t, T),
         NEW s \in Own(p, "pawn"), Aslant(p.turn, s, t)
  PROVE  ~SafePassing(p, t, T, s)
  <1>0. PICK K : K = KingSquare(p)
    OBVIOUS
  <1>1. PICK q \in Own(p, "pawn"), u \in RookQueen(p) : Aslant(p.turn, q, t) /\ Uncovers(p, T, q, u)
    BY DEF Exposed
  <1>2. Rank(K) = Rank(T)
    BY <1>0 DEF Exposed
  <1>3. /\ K \in Squares /\ s \in Squares /\ q \in Squares /\ t \in Squares /\ T \in Squares /\ u \in Squares
        /\ T \in p.occupied_sqs /\ s \in p.occupied_sqs
        /\ \E k \in PieceKinds : u \in Enemy(p, k) /\ k \in {"rook", "queen"}
    <2>1. /\ \A k \in PieceKinds : Own(p, k) \subseteq Squares /\ Enemy(p, k) \subseteq Squares
          /\ \A x : x \in p.occupied_sqs <=> \E k \in PieceKinds : x \in Own(p, k) \/ x \in Enemy(p, k)
      BY PiecesAre
    <2>2. "pawn" \in PieceKinds /\ "rook" \in PieceKinds /\ "queen" \in PieceKinds
      BY DEF PieceKinds
    <2>3. \E k \in PieceKinds : u \in Enemy(p, k) /\ k \in {"rook", "queen"}
      BY <2>2 DEF RookQueen
    <2> QED BY <1>0, <2>1, <2>2, <2>3, PiecesAre, PassedAt DEF Passed
  <1>4. u # T /\ u # s /\ u # q /\ K # T /\ K # s /\ K # q /\ s # T
    <2>1. /\ \A j, k \in PieceKinds : \A x : ~(x \in Own(p, j) /\ x \in Enemy(p, k))
          /\ \A j, k \in PieceKinds : \A x : x \in Own(p, j) /\ x \in Own(p, k) => j = k
          /\ \A j, k \in PieceKinds : \A x : x \in Enemy(p, j) /\ x \in Enemy(p, k) => j = k
          /\ K \in Own(p, "king")
      BY <1>0, PiecesAre
    <2>2. "pawn" \in PieceKinds /\ "king" \in PieceKinds /\ "pawn" # "king"
      BY DEF PieceKinds
    <2>3. T \in Enemy(p, "pawn")
      BY DEF Passed
    <2> QED BY <1>1, <1>3, <2>1, <2>2, <2>3
  <1>5. RookLine(K, u) /\ Between[K][u] \cap (p.occupied_sqs \ ({T} \cup {q})) = {}
    BY <1>0, <1>1 DEF Uncovers
  <1>6. Slider(p, u)
    <2>1. RookLine(u, K)
      BY <1>3, <1>5, LinesTurn
    <2> QED BY <1>0, <1>3, <2>1 DEF Slider, Lined
  <1>7. PICK rT, f, fK, ru, fu, g, h :
          /\ rT = Rank(T) /\ f = File(T) /\ fK = File(K) /\ ru = Rank(u) /\ fu = File(u)
          /\ g = File(s) /\ h = File(q)
    OBVIOUS
  <1>8. PICK F : F = Forward(p.turn)
    OBVIOUS
  <1>9. /\ F \in {1, -1} /\ Rank(t) = rT + F /\ File(t) = f
        /\ Rank(s) = rT /\ Rank(q) = rT /\ g \in {f - 1, f + 1} /\ h \in {f - 1, f + 1}
    <2>1. /\ Rank(T) = Rank(t) - F /\ F \in {1, -1} /\ File(T) = File(t)
      BY <1>8, PassedAt
    <2>2. /\ Rank(t) = Rank(s) + F /\ Rank(t) = Rank(q) + F
          /\ Abs(File(t) - File(s)) = 1 /\ Abs(File(t) - File(q)) = 1
      BY <1>1, <1>8 DEF Aslant
    <2>3. /\ Rank(t) \in 0 .. 7 /\ Rank(s) \in 0 .. 7 /\ Rank(q) \in 0 .. 7
          /\ File(t) \in 0 .. 7 /\ File(s) \in 0 .. 7 /\ File(q) \in 0 .. 7
      BY <1>3, SquareIs
    <2> QED BY <1>7, <2>1, <2>2, <2>3 DEF Abs
  <1>10. /\ rT \in 0 .. 7 /\ f \in 0 .. 7 /\ fK \in 0 .. 7 /\ ru \in 0 .. 7 /\ fu \in 0 .. 7
         /\ g \in 0 .. 7 /\ h \in 0 .. 7
    BY <1>3, <1>7, SquareIs
  <1>11. /\ \A x \in {q, s, T} : x \in Between[K][u] <=> Strictly(rT, fK, ru, fu, rT, File(x))
         /\ t \in Between[K][u] <=> Strictly(rT, fK, ru, fu, rT + F, f)
    <2>1. ASSUME NEW x \in Squares
          PROVE  x \in Between[K][u] <=> Strictly(rT, fK, ru, fu, Rank(x), File(x))
      BY <1>2, <1>3, <1>7, BetweenIs
    <2>2. \A x \in {q, s, T} : x \in Squares /\ Rank(x) = rT
      BY <1>3, <1>7, <1>9
    <2> QED BY <1>3, <1>9, <2>1, <2>2
  <1>12. fK # f /\ fK # g /\ fK # h /\ Straight(rT, fK, ru, fu)
    <2>1. RookLine(K, u) <=> Straight(rT, fK, ru, fu)
      BY <1>2, <1>3, <1>7, LineIs
    <2> QED BY <1>2, <1>3, <1>4, <1>5, <1>7, <1>9, <2>1, SameSquare
  <1>13. ru = rT => fu # f /\ fu # g /\ fu # h
    BY <1>3, <1>4, <1>7, <1>9, SameSquare
  <1>14. t \notin Between[K][u]
    <2>1. ~Strictly(rT, fK, ru, fu, rT + F, f)
      BY <1>9, <1>10, <1>12, SMTT(60) DEF Strictly, Mid, Straight
    <2> QED BY <1>11, <2>1
  <1>15. q \in Between[K][u] => q = s
    <2> SUFFICES ASSUME q \in Between[K][u], q # s PROVE FALSE
      OBVIOUS
    <2>1. Strictly(rT, fK, ru, fu, rT, h) /\ g # h
      BY <1>3, <1>7, <1>9, <1>11, SameSquare
    <2>2. Strictly(rT, fK, ru, fu, rT, g)
      BY <1>9, <1>10, <1>12, <1>13, <2>1, SMTT(60) DEF Strictly, Mid, Straight
    <2>3. s \in Between[K][u]
      BY <1>7, <1>11, <2>2
    <2> QED BY <1>3, <1>4, <1>5, <2>3
  <1>16. Screen(p, u) \subseteq {s, T}
    BY <1>0, <1>5, <1>15 DEF Screen
  <1> QED BY <1>0, <1>3, <1>4, <1>6, <1>14, <1>16 DEF SafePassing

(* An en passant capture that leaves the king safe is listed.               *)
LEMMA PassingUnlisted ==
  ASSUME NEW p, Good(p), Lawful(p), NEW t, NEW T, Passed(p, t, T), NEW s \in Own(p, "pawn"),
         Aslant(p.turn, s, t), SafePassing(p, t, T, s)
  PROVE  MayPass(p, t, T, s)
  <1>0. PICK K, S : K = KingSquare(p) /\ S = Origin(p, T)
    OBVIOUS
  <1>1. K \in Squares /\ s \in Squares /\ t \in Squares /\ T \in Squares /\ s \in OwnBB(p)
    <2>1. "pawn" \in PieceKinds
      BY DEF PieceKinds
    <2>2. s \in OwnBB(p)
      BY <2>1, Occupied DEF OwnBB, Own
    <2> QED BY <1>0, <2>1, <2>2, PiecesAre DEF Passed
  <1>2. p.en_passant_sq = {t}
    BY ExposedUnsafe DEF Passed
  <1>3. \A u \in Squares : Slider(p, u) /\ Screen(p, u) \subseteq {s, T} => t \in Between[K][u]
    BY <1>0, BeforePassed DEF SafePassing
  <1>4. FreeTo(p, s, t)
    <2> SUFFICES ASSUME NEW u \in Squares, Slider(p, u), Screen(p, u) = {s} PROVE t \in Way(p, u)
      BY DEF FreeTo
    <2> QED BY <1>0, <1>3 DEF Way, Seg
  <1>5. LinePin(p, s, t)
    <2>1. BishopLine(s, t) /\ Between[s][t] = {}
      BY <1>1, PiecesAre, StepLines
    <2> QED BY <1>1, <1>4, <2>1, LinePinFits
  <1>6. CASE \A u \in Squares : ~Jumper(p, u)
    <2>1. \A u \in Squares : Slider(p, u) /\ Screen(p, u) = {} => t \in Way(p, u)
      BY <1>0, <1>3 DEF Way, Seg
    <2>2. t \in CheckMask(p)
      BY <1>1, <1>6, <2>1, MaskIs
    <2> QED BY <1>2, <1>5, <2>2 DEF MayPass
  <1>7. CASE \E u \in Squares : Jumper(p, u)
    <2>1. Jumper(p, T) /\ \A u \in Squares : Jumper(p, u) => u = T
      BY <1>7, BeforePassed
    <2>2. File(K) # File(t)
      BY <1>0, <2>1, PassedJumps
    <2>3. ASSUME NEW u \in Squares, Slider(p, u), Screen(p, u) = {}
          PROVE  FALSE
      <3>1. t \in Between[K][u]
        BY <1>3, <2>3
      <3>2. S \in Between[K][u]
        BY <1>0, <2>3, BeforePassed
      <3> QED BY <1>0, <1>1, <2>2, <2>3, <3>1, <3>2, PassedLine
    <2>4. T \in CheckMask(p)
      BY <1>1, <2>1, <2>3, MaskIs
    <2>5. t \notin CheckMask(p)
      <3>1. t \in CheckMask(p) => \A u \in Squares : Jumper(p, u) => u = t
        BY <1>1, MaskIs
      <3> QED BY <1>1, <2>1, <3>1, PassedAt
    <2> QED BY <1>1, <1>2, <1>5, <2>4, <2>5 DEF MayPass, Universe
  <1> QED BY <1>6, <1>7

(* The en passant captures listed are those the rules allow on the square   *)
(* the pawn passed, noted or not.                                           *)
LEMMA EnPassantExact ==
  ASSUME NEW p, Good(p), Lawful(p), NEW t, NEW T, Passed(p, t, T), NEW m
  PROVE  m \in EnPassants(p, CheckMask(p)) <=>
           \E s \in Own(p, "pawn") :
             /\ Aslant(p.turn, s, t) /\ m = Flagged(s, t, "pawn", "EN_PASSANT")
             /\ ~InCheck(Moved(p.pieces, p.turn, m), p.turn)
  <1>1. ASSUME NEW s \in Own(p, "pawn"), Aslant(p.turn, s, t), m = Flagged(s, t, "pawn", "EN_PASSANT")
        PROVE  MayPass(p, t, T, s) <=> ~InCheck(Moved(p.pieces, p.turn, m), p.turn)
    <2>1. InCheck(Moved(p.pieces, p.turn, m), p.turn) <=> ~SafePassing(p, t, T, s)
      BY <1>1, PassingCheck
    <2> QED BY <1>1, <2>1, PassingListed, PassingUnlisted
  <1>2. m \in EnPassants(p, CheckMask(p)) <=>
          \E s \in Own(p, "pawn") : /\ Aslant(p.turn, s, t) /\ MayPass(p, t, T, s)
                                    /\ m = Flagged(s, t, "pawn", "EN_PASSANT")
    BY PassingsAre DEF MayPass
  <1> QED BY <1>1, <1>2

-----------------------------------------------------------------------------
(* Castling.  The squares between the king at home and its rooks, and those *)
(* the paths of GenerateMoves cut from the home rank.                       *)
LEMMA HomeLines ==
  ASSUME NEW c \in Colors, NEW h, h = KingHome(c)
  PROVE  /\ Between[h][KingRook(c)] = {h + 1, h + 2}
         /\ Between[h][QueenRook(c)] = {h - 1, h - 2, h - 3}
         /\ KingSidePath \cap HomeRank(c) = {h + 1, h + 2}
         /\ QueenSidePath \cap HomeRank(c) = {h - 1, h - 2}
  <1>1. /\ h \in Squares /\ KingRook(c) \in Squares /\ QueenRook(c) \in Squares
        /\ h \in {4, 60} /\ KingRook(c) = h + 3 /\ QueenRook(c) = h - 4
    BY Corners, HomeSquares
  <1>2. HomeRank(c) = h - 4 .. h + 3
    <2>1. h \in Home(c)
      BY HomeSquares
    <2> QED BY <2>1, HomeIs DEF Home
  <1>3. \A x \in h - 4 .. h + 3 : x \in Squares /\ Rank(x) = Rank(h) /\ File(x) = x - h + 4
    BY <1>1 DEF Squares, Rank, File
  <1>4. \A x \in Squares : Rank(x) = Rank(h) => x \in h - 4 .. h + 3
    BY <1>1 DEF Squares, Rank
  <1>5. /\ Rank(KingRook(c)) = Rank(h) /\ File(KingRook(c)) = 7 /\ File(h) = 4
        /\ Rank(QueenRook(c)) = Rank(h) /\ File(QueenRook(c)) = 0
    <2>1. h \in h - 4 .. h + 3 /\ h + 3 \in h - 4 .. h + 3 /\ h - 4 \in h - 4 .. h + 3
      BY <1>1
    <2> QED BY <1>1, <1>3, <2>1
  <1>6. ASSUME NEW r \in Squares, Rank(r) = Rank(h), NEW f, f = File(r), f \in {0, 7}, NEW x
        PROVE  x \in Between[h][r] <=> x \in h - 4 .. h + 3 /\ Mid(4, f, x - h + 4)
    <2>1. x \in Between[h][r] <=>
            x \in Squares /\ Strictly(Rank(h), 4, Rank(h), f, Rank(x), File(x))
      BY <1>1, <1>5, <1>6, BetweenIs
    <2>2. ASSUME x \in Squares
          PROVE  Strictly(Rank(h), 4, Rank(h), f, Rank(x), File(x)) <=>
                   Rank(x) = Rank(h) /\ Mid(4, f, File(x))
      <3>1. Rank(h) \in 0 .. 7 /\ Rank(x) \in 0 .. 7 /\ File(x) \in 0 .. 7
        BY <1>1, <2>2, SquareIs
      <3> QED BY <1>6, <3>1 DEF Strictly, Mid
    <2> QED BY <1>3, <1>4, <2>1, <2>2
  <1>7. Between[h][KingRook(c)] = {h + 1, h + 2}
    <2>1. \A x : x \in Between[h][KingRook(c)] <=> x \in h - 4 .. h + 3 /\ Mid(4, 7, x - h + 4)
      BY <1>1, <1>5, <1>6
    <2>2. \A x : x \in Between[h][KingRook(c)] <=> x \in {h + 1, h + 2}
      BY <1>1, <2>1 DEF Mid
    <2> QED BY <2>2
  <1>8. Between[h][QueenRook(c)] = {h - 1, h - 2, h - 3}
    <2>1. \A x : x \in Between[h][QueenRook(c)] <=> x \in h - 4 .. h + 3 /\ Mid(4, 0, x - h + 4)
      BY <1>1, <1>5, <1>6
    <2>2. \A x : x \in Between[h][QueenRook(c)] <=> x \in {h - 1, h - 2, h - 3}
      BY <1>1, <2>1 DEF Mid
    <2> QED BY <2>2
  <1>9. KingSidePath \cap HomeRank(c) = {h + 1, h + 2}
    <2>1. \A x : x \in KingSidePath \cap HomeRank(c) <=> x \in h - 4 .. h + 3 /\ x - h + 4 \in {5, 6}
      BY <1>2, <1>3 DEF KingSidePath
    <2> QED BY <1>1, <2>1
  <1>10. QueenSidePath \cap HomeRank(c) = {h - 1, h - 2}
    <2>1. \A x : x \in QueenSidePath \cap HomeRank(c) <=> x \in h - 4 .. h + 3 /\ x - h + 4 \in {2, 3}
      BY <1>2, <1>3 DEF QueenSidePath
    <2> QED BY <1>1, <2>1
  <1> QED BY <1>7, <1>8, <1>9, <1>10

(* The castling moves: what they need of the squares of the home rank.      *)
ShortWay(p) == LET h == KingHome(p.turn) IN {h + 1, h + 2} \cap (p.occupied_sqs \cup p.king_ban) = {}
LongWay(p) ==
  LET h == KingHome(p.turn)
  IN {h - 1, h - 2, h - 3} \cap p.occupied_sqs = {} /\ {h - 1, h - 2} \cap p.king_ban = {}
ShortCastle(p) == Flagged(KingHome(p.turn), KingHome(p.turn) + 2, "king", "CASTLE_KING_SIDE")
LongCastle(p) == Flagged(KingHome(p.turn), KingHome(p.turn) - 2, "king", "CASTLE_QUEEN_SIDE")

(* What Castles lists.                                                      *)
LEMMA CastlesAre ==
  ASSUME NEW p, Good(p), NEW check, NEW m
  PROVE  m \in Castles(p, check) <=>
           \/ /\ check = Universe /\ KingSide(p.turn) \in p.castling_rights
              /\ KingRook(p.turn) \in Own(p, "rook") /\ ShortWay(p) /\ m = ShortCastle(p)
           \/ /\ check = Universe /\ QueenSide(p.turn) \in p.castling_rights
              /\ QueenRook(p.turn) \in Own(p, "rook") /\ LongWay(p) /\ m = LongCastle(p)
  <1>0. PICK c, h, O, king, kingRook, queenRook, right, left :
          /\ c = p.turn /\ h = KingHome(c) /\ O = p.occupied_sqs /\ king = Own(p, "king") \cap HomeRank(c)
          /\ kingRook = Own(p, "rook") \cap {KingRook(c)}
          /\ queenRook = Own(p, "rook") \cap {QueenRook(c)}
          /\ right = Xor(Xor(O, kingRook), king) \cap KingSideFiles \cap HomeRank(c)
          /\ left = Xor(O, queenRook) \cap QueenSideFiles \cap HomeRank(c)
    OBVIOUS
  <1>1. /\ c \in Colors /\ "king" \in PieceKinds /\ "rook" \in PieceKinds
        /\ \A k \in PieceKinds : Own(p, k) \subseteq O
    <2>1. \A s : s \in O <=> \E k \in PieceKinds : s \in Own(p, k) \/ s \in Enemy(p, k)
      BY <1>0, PiecesAre
    <2> QED BY <1>0, <2>1, PiecesAre DEF PieceKinds
  <1>2. m \in Castles(p, check) <=>
          \/ /\ check = Universe /\ KingSide(c) \in p.castling_rights /\ kingRook # {} /\ right = {}
             /\ PathSafe(p, KingSidePath) /\ m \in { Flagged(k, k + 2, "king", "CASTLE_KING_SIDE") : k \in king }
          \/ /\ check = Universe /\ QueenSide(c) \in p.castling_rights /\ queenRook # {} /\ left = {}
             /\ PathSafe(p, QueenSidePath) /\ m \in { Flagged(k, k + -2, "king", "CASTLE_QUEEN_SIDE") : k \in king }
    BY <1>0 DEF Castles
  <1>3. /\ h \in {4, 60} /\ HomeRank(c) = Home(c) /\ h \in Home(c) /\ KingRook(c) = h + 3 /\ QueenRook(c) = h - 4
    BY <1>0, <1>1, Corners, HomeSquares, HomeIs
  <1>4. \A x : /\ x \in KingSideFiles /\ x \in HomeRank(c) <=> x \in {h, h + 1, h + 2, h + 3}
               /\ x \in QueenSideFiles /\ x \in HomeRank(c) <=> x \in {h - 1, h - 2, h - 3, h - 4}
    <2> TAKE x
    <2>1. x \in Home(c) => /\ x \in KingSideFiles <=> x \in h .. h + 3
                           /\ x \in QueenSideFiles <=> x \in h - 4 .. h - 1
      BY <1>0, <1>1, HomeIs
    <2>2. x \in h .. h + 3 <=> x \in {h, h + 1, h + 2, h + 3}
      BY <1>3
    <2>3. x \in h - 4 .. h - 1 <=> x \in {h - 1, h - 2, h - 3, h - 4}
      BY <1>3
    <2>4. (x \in h .. h + 3 => x \in Home(c)) /\ (x \in h - 4 .. h - 1 => x \in Home(c))
      BY <1>0, <1>3 DEF Home
    <2> QED BY <1>3, <2>1, <2>2, <2>3, <2>4
  <1>5. PathSafe(p, KingSidePath) <=> {h + 1, h + 2} \cap p.king_ban = {}
    BY <1>0, <1>1, HomeLines DEF PathSafe
  <1>6. PathSafe(p, QueenSidePath) <=> {h - 1, h - 2} \cap p.king_ban = {}
    BY <1>0, <1>1, HomeLines DEF PathSafe
  <1>7. ASSUME KingSide(c) \in p.castling_rights \/ QueenSide(c) \in p.castling_rights
        PROVE  king = {h} /\ h \in O
    <2>1. h \in Own(p, "king")
      BY <1>0, <1>1, <1>7 DEF Good, RightsAtHome, Own
    <2>2. Own(p, "king") = {h}
      BY <2>1, PiecesAre
    <2> QED BY <1>0, <1>1, <1>3, <2>1, <2>2
  <1>8. ASSUME KingRook(c) \in Own(p, "rook"), king = {h}, h \in O
        PROVE  right = {} <=> {h + 1, h + 2} \cap O = {}
    <2>1. kingRook = {h + 3} /\ h + 3 \in O
      BY <1>0, <1>1, <1>3, <1>8
    <2>2. \A x : x \in right <=> x \in O /\ x \in {h, h + 1, h + 2, h + 3} /\ x # h /\ x # h + 3
      <3>1. \A x : x \in Xor(Xor(O, kingRook), king) <=> x \in O /\ x # h /\ x # h + 3
        BY <1>3, <1>8, <2>1 DEF Xor
      <3> QED BY <1>0, <1>4, <3>1
    <2>3. h + 1 # h /\ h + 1 # h + 3 /\ h + 2 # h /\ h + 2 # h + 3
      BY <1>3
    <2> QED BY <2>2, <2>3
  <1>9. ASSUME QueenRook(c) \in Own(p, "rook")
        PROVE  left = {} <=> {h - 1, h - 2, h - 3} \cap O = {}
    <2>1. queenRook = {h - 4} /\ h - 4 \in O
      BY <1>0, <1>1, <1>3, <1>9
    <2>2. \A x : x \in left <=> x \in O /\ x \in {h - 1, h - 2, h - 3, h - 4} /\ x # h - 4
      <3>1. \A x : x \in Xor(O, queenRook) <=> x \in O /\ x # h - 4
        BY <2>1 DEF Xor
      <3> QED BY <1>0, <1>4, <3>1
    <2>3. h - 1 # h - 4 /\ h - 2 # h - 4 /\ h - 3 # h - 4
      BY <1>3
    <2> QED BY <2>2, <2>3
  <1>10. kingRook # {} <=> KingRook(c) \in Own(p, "rook")
    BY <1>0
  <1>11. queenRook # {} <=> QueenRook(c) \in Own(p, "rook")
    BY <1>0
  <1>12. king = {h} => /\ m \in { Flagged(k, k + 2, "king", "CASTLE_KING_SIDE") : k \in king } <=> m = ShortCastle(p)
                       /\ m \in { Flagged(k, k + -2, "king", "CASTLE_QUEEN_SIDE") : k \in king } <=> m = LongCastle(p)
    <2>1. h + -2 = h - 2
      BY <1>3
    <2> QED BY <1>0, <2>1 DEF ShortCastle, LongCastle
  <1>13. ShortWay(p) <=> {h + 1, h + 2} \cap O = {} /\ {h + 1, h + 2} \cap p.king_ban = {}
    BY <1>0 DEF ShortWay
  <1>14. LongWay(p) <=> {h - 1, h - 2, h - 3} \cap O = {} /\ {h - 1, h - 2} \cap p.king_ban = {}
    BY <1>0 DEF LongWay
  <1>15. (/\ check = Universe /\ KingSide(c) \in p.castling_rights /\ kingRook # {} /\ right = {}
          /\ PathSafe(p, KingSidePath) /\ m \in { Flagged(k, k + 2, "king", "CASTLE_KING_SIDE") : k \in king }) <=>
         (/\ check = Universe /\ KingSide(c) \in p.castling_rights
          /\ KingRook(c) \in Own(p, "rook") /\ ShortWay(p) /\ m = ShortCastle(p))
    BY <1>5, <1>7, <1>8, <1>10, <1>12, <1>13
  <1>16. (/\ check = Universe /\ QueenSide(c) \in p.castling_rights /\ queenRook # {} /\ left = {}
          /\ PathSafe(p, QueenSidePath) /\ m \in { Flagged(k, k + -2, "king", "CASTLE_QUEEN_SIDE") : k \in king }) <=>
         (/\ check = Universe /\ QueenSide(c) \in p.castling_rights
          /\ QueenRook(c) \in Own(p, "rook") /\ LongWay(p) /\ m = LongCastle(p))
    BY <1>6, <1>7, <1>9, <1>11, <1>12, <1>14
  <1> QED BY <1>0, <1>2, <1>15, <1>16

(* Without a check, and only then, any square will do.                      *)
LEMMA NoCheckMask ==
  ASSUME NEW p, Good(p), Lawful(p)
  PROVE  CheckMask(p) = Universe <=> ~InCheck(p.pieces, p.turn)
  <1>0. PICK K, others, sliders :
          /\ K = KingSquare(p) /\ others = PawnOrKnightMask(p)
          /\ sliders = (BishopAttacks(p.occupied_sqs, K) \cap BishopQueen(p))
                       \cup (RookAttacks(p.occupied_sqs, K) \cap RookQueen(p))
    OBVIOUS
  <1>1. InCheck(p.pieces, p.turn) <=> \E u \in Squares : Jumper(p, u) \/ (Slider(p, u) /\ Screen(p, u) = {})
    BY CheckIs
  <1>2. ASSUME ~InCheck(p.pieces, p.turn) PROVE CheckMask(p) = Universe
    <2>1. sliders = {}
      <3>1. \A u : u \in sliders <=> u \in Squares /\ Slider(p, u) /\ Screen(p, u) = {}
        BY <1>0, SlidersAre
      <3> QED BY <1>1, <1>2, <3>1
    <2>2. others = Universe
      BY <1>0, <1>1, <1>2, JumpMask
    <2> QED BY <1>0, <2>1, <2>2 DEF CheckMask
  <1>3. ASSUME NEW u \in Squares, Jumper(p, u) PROVE CheckMask(p) # Universe
    <2>1. PICK t \in Squares : t # u
      <3>1. 0 \in Squares /\ 1 \in Squares
        BY DEF Squares
      <3> QED BY <3>1
    <2>2. t \notin CheckMask(p)
      BY <1>3, <2>1, MaskIs
    <2> QED BY <2>1, <2>2 DEF Universe
  <1>4. ASSUME NEW u \in Squares, Slider(p, u), Screen(p, u) = {} PROVE CheckMask(p) # Universe
    <2>1. K \in Squares
      BY <1>0, PiecesAre
    <2>2. u # K
      BY <1>0, <1>4, <2>1, HitsTurn, PiecesAre DEF Slider
    <2>3. K \notin Way(p, u)
      BY <1>0, <1>4, <2>1, <2>2, BetweenOn DEF Way, Seg
    <2>4. K \notin CheckMask(p)
      BY <1>4, <2>1, <2>3, MaskIs
    <2> QED BY <2>1, <2>4 DEF Universe
  <1> QED BY <1>1, <1>2, <1>3, <1>4

(* Without a check the king standing there hides no attack: the squares     *)
(* banned for it are those the enemy attacks.                               *)
LEMMA BannedUnchecked ==
  ASSUME NEW p, Good(p), ~InCheck(p.pieces, p.turn), NEW x \in Squares
  PROVE  x \in p.king_ban <=> Attacked(p.pieces, OPP(p.turn), x)
  <1>0. PICK K, o, O : K = KingSquare(p) /\ o = OPP(p.turn) /\ O = p.occupied_sqs
    OBVIOUS
  <1>1. /\ K \in Squares /\ p.turn \in Colors /\ o \in Colors /\ Own(p, "king") = {K} /\ p.pieces \in Boards
        /\ O = OccupiedBy(p.pieces) /\ \A k \in PieceKinds : Enemy(p, k) \subseteq Squares
    BY <1>0, PiecesAre
  <1>2. x \in p.king_ban <=> \E k \in PieceKinds : \E u \in Enemy(p, k) : Hits(k, o, u, x, O \ {K})
    BY <1>0, <1>1, BannedIs
  <1>3. Attacked(p.pieces, o, x) <=>
          \E k \in PieceKinds : \E u \in Enemy(p, k) : u \in Squares /\ Hits(k, o, u, x, O)
    BY <1>0, <1>1, AttackedIs DEF Enemy
  <1>4. ~\E k \in PieceKinds : \E u \in Enemy(p, k) : u \in Squares /\ Hits(k, o, u, K, O)
    <2>1. p.pieces[p.turn]["king"] = {K}
      BY <1>1 DEF Own
    <2> QED BY <1>0, <1>1, <2>1, InCheckIs DEF Enemy
  <1>5. ASSUME NEW k \in PieceKinds, NEW u \in Enemy(p, k)
        PROVE  Hits(k, o, u, x, O \ {K}) <=> Hits(k, o, u, x, O)
    <2>0. u \in Squares
      BY <1>1
    <2>1. ASSUME Lined(k, u, x), Between[u][x] \cap (O \ {K}) = {}, K \in Between[u][x] PROVE FALSE
      <3>1. /\ RookLine(u, x) => RookLine(u, K)
            /\ BishopLine(u, x) => BishopLine(u, K)
            /\ \A y \in Between[u][K] : y \in Between[u][x]
        BY <1>1, <2>0, <2>1, BetweenOn
      <3>2. \A y \in Between[u][K] : y # K
        BY <1>1, <2>0, BetweenOn
      <3>3. Lined(k, u, K)
        BY <2>1, <3>1 DEF Lined
      <3>4. Between[u][K] \cap O = {}
        BY <2>1, <3>1, <3>2
      <3> QED BY <1>4, <2>0, <3>3, <3>4 DEF Hits
    <2> QED BY <2>1 DEF Hits
  <1> QED BY <1>0, <1>1, <1>2, <1>3, <1>5

(* Rights that hold: the position has them, with the rook in the corner.    *)
RightsFit(p, rights) ==
  /\ KingSide(p.turn) \in rights =>
       KingSide(p.turn) \in p.castling_rights /\ KingRook(p.turn) \in Own(p, "rook")
  /\ QueenSide(p.turn) \in rights =>
       QueenSide(p.turn) \in p.castling_rights /\ QueenRook(p.turn) \in Own(p, "rook")

(* The king two squares on from home is attacked when the square is banned. *)
LEMMA CastleLifts ==
  ASSUME NEW p, Good(p), NEW h, KingSquare(p) = h, NEW t \in Squares, t \notin p.occupied_sqs,
         NEW flag \in {"CASTLE_KING_SIDE", "CASTLE_QUEEN_SIDE"}, NEW m, m = Flagged(h, t, "king", flag)
  PROVE  InCheck(Moved(p.pieces, p.turn, m), p.turn) <=> t \in p.king_ban
  <1>1. /\ m.piece = "king" /\ m.from = h /\ m.to = t /\ m.promoted = NONE /\ m.flags = {flag}
    BY DEF Flagged, Quiet
  <1>2. ~Is(m, "EN_PASSANT") /\ Rid(m) = {t} /\ Becomes(m) = "king"
    BY <1>1 DEF Is, Rid, Becomes
  <1>3. "king" \in PieceKinds /\ h \in Own(p, "king")
    BY PiecesAre DEF PieceKinds
  <1>4. \A k \in PieceKinds : Own(p, k) \cap {t} = {}
    BY PiecesAre
  <1>5. Lifts(p, m)
    BY <1>1, <1>2, <1>3, <1>4 DEF Lifts
  <1> QED BY <1>1, <1>2, <1>5, KingStepIs

(* What the rules list for the two castling moves.                          *)
MayCastle(p, king, right, rook, passed, rights) ==
  /\ right \in rights
  /\ Between[king][rook] \cap OccupiedBy(p.pieces) = {}
  /\ \A s \in {king, passed} : ~Attacked(p.pieces, OPP(p.turn), s)

(* What the rules list for castling, one move at a time.                    *)
LEMMA CastlingMovesAre ==
  ASSUME NEW p, NEW rights, NEW m, NEW king, king = KingSquare(p)
  PROVE  m \in CastlingMoves(p, rights) <=>
           \/ /\ MayCastle(p, king, KingSide(p.turn), KingRook(p.turn), king + 1, rights)
              /\ m = Flagged(king, king + 2, "king", "CASTLE_KING_SIDE")
           \/ /\ MayCastle(p, king, QueenSide(p.turn), QueenRook(p.turn), king - 1, rights)
              /\ m = Flagged(king, king - 2, "king", "CASTLE_QUEEN_SIDE")
  BY DEF CastlingMoves, MayCastle, KingSquare

(* Castles lists the castling moves the rules allow, among those whose      *)
(* right the rules grant.                                                   *)
LEMMA CastleExact ==
  ASSUME NEW p, Good(p), Lawful(p), NEW rights, RightsFit(p, rights), NEW m
  PROVE  m \in CastlingMoves(p, rights) /\ ~InCheck(Moved(p.pieces, p.turn, m), p.turn) <=>
           /\ m \in Castles(p, CheckMask(p))
           /\ \/ Is(m, "CASTLE_KING_SIDE") /\ KingSide(p.turn) \in rights
              \/ Is(m, "CASTLE_QUEEN_SIDE") /\ QueenSide(p.turn) \in rights
  <1>0. PICK c, h, O, K : c = p.turn /\ h = KingHome(c) /\ O = p.occupied_sqs /\ K = KingSquare(p)
    OBVIOUS
  <1>1. /\ c \in Colors /\ O = OccupiedBy(p.pieces) /\ K \in Squares /\ Own(p, "king") = {K}
    BY <1>0, PiecesAre
  <1>2. h \in {4, 60} /\ KingRook(c) = h + 3 /\ QueenRook(c) = h - 4
    BY <1>0, <1>1, Corners, HomeSquares
  <1>3. /\ h \in Squares /\ h + 1 \in Squares /\ h + 2 \in Squares /\ h - 1 \in Squares /\ h - 2 \in Squares
    BY <1>2 DEF Squares
  <1>4. /\ Between[h][KingRook(c)] = {h + 1, h + 2} /\ Between[h][QueenRook(c)] = {h - 1, h - 2, h - 3}
    BY <1>0, <1>1, HomeLines
  <1>5. ASSUME KingSide(c) \in p.castling_rights \/ QueenSide(c) \in p.castling_rights PROVE K = h
    <2>1. h \in Own(p, "king")
      BY <1>0, <1>5 DEF Good, RightsAtHome, Own
    <2> QED BY <1>1, <2>1
  <1>6. /\ KingSide(c) \in rights => KingSide(c) \in p.castling_rights /\ KingRook(c) \in Own(p, "rook")
        /\ QueenSide(c) \in rights => QueenSide(c) \in p.castling_rights /\ QueenRook(c) \in Own(p, "rook")
    BY <1>0 DEF RightsFit
  <1>7. InCheck(p.pieces, c) <=> Attacked(p.pieces, OPP(c), K)
    BY <1>0 DEF InCheck, KingSquare, Own
  <1>8. CheckMask(p) = Universe <=> ~InCheck(p.pieces, c)
    BY <1>0, NoCheckMask
  <1>9. ~InCheck(p.pieces, c) => /\ h + 1 \in p.king_ban <=> Attacked(p.pieces, OPP(c), h + 1)
                                 /\ h - 1 \in p.king_ban <=> Attacked(p.pieces, OPP(c), h - 1)
    BY <1>0, <1>3, BannedUnchecked
  <1>10. PICK short, long : short = ShortCastle(p) /\ long = LongCastle(p)
    OBVIOUS
  <1>11. /\ short = Flagged(h, h + 2, "king", "CASTLE_KING_SIDE")
         /\ long = Flagged(h, h - 2, "king", "CASTLE_QUEEN_SIDE")
    BY <1>0, <1>10 DEF ShortCastle, LongCastle
  <1>12. /\ Is(short, "CASTLE_KING_SIDE") /\ ~Is(short, "CASTLE_QUEEN_SIDE")
         /\ Is(long, "CASTLE_QUEEN_SIDE") /\ ~Is(long, "CASTLE_KING_SIDE")
    BY <1>11 DEF Is, Flagged, Quiet
  <1>13. /\ ShortWay(p) <=> {h + 1, h + 2} \cap O = {} /\ h + 1 \notin p.king_ban /\ h + 2 \notin p.king_ban
         /\ LongWay(p) <=> {h - 1, h - 2, h - 3} \cap O = {} /\ h - 1 \notin p.king_ban /\ h - 2 \notin p.king_ban
    BY <1>0 DEF ShortWay, LongWay
  <1>14. ASSUME K = h, {h + 1, h + 2} \cap O = {}
         PROVE  InCheck(Moved(p.pieces, c, short), c) <=> h + 2 \in p.king_ban
    BY <1>0, <1>3, <1>11, <1>14, CastleLifts
  <1>15. ASSUME K = h, {h - 1, h - 2, h - 3} \cap O = {}
         PROVE  InCheck(Moved(p.pieces, c, long), c) <=> h - 2 \in p.king_ban
    BY ZenonT(30), <1>0, <1>3, <1>11, <1>15, CastleLifts
  <1>16. m \in CastlingMoves(p, rights) <=>
           \/ /\ MayCastle(p, K, KingSide(c), KingRook(c), K + 1, rights)
              /\ m = Flagged(K, K + 2, "king", "CASTLE_KING_SIDE")
           \/ /\ MayCastle(p, K, QueenSide(c), QueenRook(c), K - 1, rights)
              /\ m = Flagged(K, K - 2, "king", "CASTLE_QUEEN_SIDE")
    BY <1>0, CastlingMovesAre
  <1>17. m \in Castles(p, CheckMask(p)) <=>
           \/ /\ ~InCheck(p.pieces, c) /\ KingSide(c) \in p.castling_rights
              /\ KingRook(c) \in Own(p, "rook") /\ ShortWay(p) /\ m = short
           \/ /\ ~InCheck(p.pieces, c) /\ QueenSide(c) \in p.castling_rights
              /\ QueenRook(c) \in Own(p, "rook") /\ LongWay(p) /\ m = long
    BY <1>0, <1>8, <1>10, CastlesAre
  <1>18. ASSUME KingSide(c) \in rights
         PROVE  MayCastle(p, K, KingSide(c), KingRook(c), K + 1, rights) /\ ~InCheck(Moved(p.pieces, c, short), c)
                  <=> ~InCheck(p.pieces, c) /\ ShortWay(p)
    <2>1. K = h
      BY <1>5, <1>6, <1>18
    <2>2. MayCastle(p, K, KingSide(c), KingRook(c), K + 1, rights) <=>
            {h + 1, h + 2} \cap O = {} /\ ~Attacked(p.pieces, OPP(c), h) /\ ~Attacked(p.pieces, OPP(c), h + 1)
      BY <1>0, <1>1, <1>4, <1>18, <2>1 DEF MayCastle
    <2> QED BY <1>7, <1>9, <1>13, <1>14, <2>1, <2>2
  <1>19. ASSUME QueenSide(c) \in rights
         PROVE  MayCastle(p, K, QueenSide(c), QueenRook(c), K - 1, rights) /\ ~InCheck(Moved(p.pieces, c, long), c)
                  <=> ~InCheck(p.pieces, c) /\ LongWay(p)
    <2>1. K = h
      BY <1>5, <1>6, <1>19
    <2>2. MayCastle(p, K, QueenSide(c), QueenRook(c), K - 1, rights) <=>
            {h - 1, h - 2, h - 3} \cap O = {} /\ ~Attacked(p.pieces, OPP(c), h) /\ ~Attacked(p.pieces, OPP(c), h - 1)
      BY <1>0, <1>1, <1>4, <1>19, <2>1 DEF MayCastle
    <2> QED BY <1>7, <1>9, <1>13, <1>15, <2>1, <2>2
  <1>20. ASSUME KingSide(c) \in rights PROVE Flagged(K, K + 2, "king", "CASTLE_KING_SIDE") = short
    BY <1>5, <1>6, <1>11, <1>20
  <1>21. ASSUME QueenSide(c) \in rights PROVE Flagged(K, K - 2, "king", "CASTLE_QUEEN_SIDE") = long
    BY <1>5, <1>6, <1>11, <1>21
  <1>22. /\ MayCastle(p, K, KingSide(c), KingRook(c), K + 1, rights) => KingSide(c) \in rights
         /\ MayCastle(p, K, QueenSide(c), QueenRook(c), K - 1, rights) => QueenSide(c) \in rights
    BY DEF MayCastle
  <1> QED BY <1>0, <1>6, <1>12, <1>16, <1>17, <1>18, <1>19, <1>20, <1>21, <1>22

-----------------------------------------------------------------------------
(* All of GenerateMoves.  The en passant square the rules know of is none,  *)
(* or the one the last pawn passed, noted or not.                           *)
Settled(p, ep) ==
  \/ ep = {} /\ p.en_passant_sq = {}
  \/ \E t, T : ep = {t} /\ Passed(p, t, T)

(* The castling moves are those of the rights the rules grant.              *)
Granted(p, rights, m) ==
  /\ Is(m, "CASTLE_KING_SIDE") => KingSide(p.turn) \in rights
  /\ Is(m, "CASTLE_QUEEN_SIDE") => QueenSide(p.turn) \in rights

(* A move with a flag.                                                      *)
LEMMA FlaggedIs ==
  ASSUME NEW s, NEW t, NEW k, NEW flag, NEW m, m = Flagged(s, t, k, flag)
  PROVE  m.from = s /\ m.to = t /\ m.piece = k /\ m.flags = {flag}
  BY DEF Flagged, Quiet

(* Only castling moves castle.                                              *)
Castling(m) == Is(m, "CASTLE_KING_SIDE") \/ Is(m, "CASTLE_QUEEN_SIDE")

(* A move To builds castles no more than the piece does.                    *)
LEMMA ToFlags ==
  ASSUME NEW p, NEW s, NEW k, NEW t, NEW m, m = To(p, s, k, t)
  PROVE  m.flags \subseteq {"CAPTURE"}
  BY DEF To, Quiet

(* No move of the rules but castling castles.                               *)
LEMMA OnlyCastles ==
  ASSUME NEW p, Good(p), Lawful(p), NEW m
  PROVE  /\ \A s, k : m \in PieceMoves(p, s, k) => ~Castling(m)
         /\ \A ep : \A s \in Own(p, "pawn") : m \in PawnMoves(p, s, ep) => ~Castling(m)
  <1>1. ASSUME NEW s, NEW k, m \in PieceMoves(p, s, k) PROVE ~Castling(m)
    <2>1. PICK t : m = To(p, s, k, t)
      BY <1>1 DEF PieceMoves
    <2> QED BY <2>1, ToFlags DEF Castling, Is
  <1>2. ASSUME NEW ep, NEW s \in Own(p, "pawn"), m \in PawnMoves(p, s, ep) PROVE ~Castling(m)
    <2>1. \/ \E t : m = To(p, s, "pawn", t)
          \/ \E t, kind : m = PromotedTo(To(p, s, "pawn", t), kind)
          \/ \E t : m = Flagged(s, t, "pawn", "EN_PASSANT")
      BY <1>2, PawnMovesAre
    <2>2. ASSUME NEW t, m = To(p, s, "pawn", t) PROVE ~Castling(m)
      BY <2>2, ToFlags DEF Castling, Is
    <2>3. ASSUME NEW t, NEW kind, m = PromotedTo(To(p, s, "pawn", t), kind) PROVE ~Castling(m)
      <3>1. PICK n : n = To(p, s, "pawn", t)
        OBVIOUS
      <3>2. m.flags = n.flags \cup {"PROMOTION"}
        BY <2>3, <3>1, PromotedIs
      <3>3. n.flags \subseteq {"CAPTURE"}
        BY <3>1, ToFlags
      <3> QED BY <3>2, <3>3 DEF Castling, Is
    <2>4. ASSUME NEW t, m = Flagged(s, t, "pawn", "EN_PASSANT") PROVE ~Castling(m)
      BY <2>4, FlaggedIs DEF Castling, Is
    <2> QED BY <2>1, <2>2, <2>3, <2>4
  <1> QED BY <1>1, <1>2

(* The parts of the list GenerateMoves adds when the mask is not empty: it  *)
(* adds nothing against two checks, where they would be empty anyhow.       *)
LEMMA GeneratedParts ==
  ASSUME NEW p, Good(p), Lawful(p), NEW ep, Settled(p, ep), NEW check, check = CheckMask(p), NEW m
  PROVE  m \in GenerateMoves(p) <=>
           \/ m \in KingMoves(p) \/ m \in Officers(p, check) \/ m \in Castles(p, check)
           \/ m \in PawnPushes(p, check) \cup PawnCaptures(p, check) \cup Promotions(p, check)
           \/ m \in EnPassants(p, check)
  <1>1. m \in Officers(p, check) => check # {}
    BY OfficersAre DEF OfficerMove
  <1>2. m \in Castles(p, check) => check # {}
    <2>1. 0 \in Universe
      BY DEF Universe, Squares
    <2>2. m \in Castles(p, check) => check = Universe
      BY CastlesAre
    <2> QED BY <2>1, <2>2
  <1>3. m \in PawnPushes(p, check) \cup PawnCaptures(p, check) => check # {}
    BY PlainAre DEF PawnMove
  <1>4. m \in Promotions(p, check) => check # {}
    BY PromotionsAre DEF PawnMove
  <1>5. m \in EnPassants(p, check) => check # {}
    <2>1. CASE p.en_passant_sq = {}
      <3>1. EnPassantMask(p, check) = {}
        BY <2>1 DEF EnPassantMask
      <3>2. \A pawns, compass : Attacks(p, pawns, compass, EnPassantMask(p, check), PinDiag(p)) = {}
        BY <3>1, AttacksFrom
      <3> QED BY <3>2 DEF EnPassants
    <2>2. ASSUME NEW t, NEW T, Passed(p, t, T) PROVE m \in EnPassants(p, check) => check # {}
      <3>1. m \in EnPassants(p, check) => t \in check \/ (check # Universe /\ T \in check)
        BY <2>2, PassingsAre
      <3> QED BY <3>1
    <2> QED BY <2>1, <2>2 DEF Settled
  <1> QED BY <1>1, <1>2, <1>3, <1>4, <1>5 DEF GenerateMoves

(* The pawns' moves by the rules are those without en passant and those     *)
(* with it.                                                                 *)
LEMMA PawnMovesSplit ==
  ASSUME NEW p, Good(p), Lawful(p), NEW s \in Own(p, "pawn"), NEW ep, NEW m
  PROVE  m \in PawnMoves(p, s, ep) <=>
           \/ m \in PawnMoves(p, s, {})
           \/ \E t \in ep : t \in Squares /\ Aslant(p.turn, s, t) /\ m = Flagged(s, t, "pawn", "EN_PASSANT")
  BY PawnMovesAre

(* EnPassants lists the en passant captures the rules allow.                *)
LEMMA PassingsExact ==
  ASSUME NEW p, Good(p), Lawful(p), NEW ep, Settled(p, ep), NEW m
  PROVE  m \in EnPassants(p, CheckMask(p)) <=>
           \E s \in Own(p, "pawn") :
             /\ \E t \in ep : t \in Squares /\ Aslant(p.turn, s, t) /\ m = Flagged(s, t, "pawn", "EN_PASSANT")
             /\ ~InCheck(Moved(p.pieces, p.turn, m), p.turn)
  <1>1. CASE ep = {} /\ p.en_passant_sq = {}
    <2>1. EnPassantMask(p, CheckMask(p)) = {}
      BY <1>1 DEF EnPassantMask
    <2>2. \A pawns, compass :
            Attacks(p, pawns, compass, EnPassantMask(p, CheckMask(p)), PinDiag(p)) = {}
      BY <2>1, AttacksFrom
    <2> QED BY <1>1, <2>2 DEF EnPassants
  <1>2. ASSUME NEW t, NEW T, ep = {t}, Passed(p, t, T)
        PROVE  m \in EnPassants(p, CheckMask(p)) <=>
                 \E s \in Own(p, "pawn") :
                   /\ \E u \in ep : u \in Squares /\ Aslant(p.turn, s, u) /\ m = Flagged(s, u, "pawn", "EN_PASSANT")
                   /\ ~InCheck(Moved(p.pieces, p.turn, m), p.turn)
    <2>1. t \in Squares
      BY <1>2 DEF Passed
    <2>2. m \in EnPassants(p, CheckMask(p)) <=>
            \E s \in Own(p, "pawn") :
              /\ Aslant(p.turn, s, t) /\ m = Flagged(s, t, "pawn", "EN_PASSANT")
              /\ ~InCheck(Moved(p.pieces, p.turn, m), p.turn)
      BY <1>2, EnPassantExact
    <2> QED BY <1>2, <2>1, <2>2
  <1> QED BY <1>1, <1>2 DEF Settled

(* GenerateMoves returns exactly the legal moves: in a lawful position,     *)
(* through checks, double checks, pins, castling, promotion and en passant, *)
(* masks and pin lines and the squares banned for the king leave out every  *)
(* move after which the king is attacked, and no other.                     *)
THEOREM MovesExact ==
  ASSUME NEW p, Good(p), Lawful(p), NEW rights, RightsFit(p, rights), NEW ep, Settled(p, ep), NEW m
  PROVE  m \in GenerateMoves(p) /\ Granted(p, rights, m) <=> m \in RulesMoves(p, rights, ep)
  <1> DEFINE Fine == ~InCheck(Moved(p.pieces, p.turn, m), p.turn)
             check == CheckMask(p)
             pawns == PawnPushes(p, check) \cup PawnCaptures(p, check) \cup Promotions(p, check)
             passing(s) == \E t \in ep : /\ t \in Squares /\ Aslant(p.turn, s, t)
                                         /\ m = Flagged(s, t, "pawn", "EN_PASSANT")
  <1> HIDE DEF Fine
  <1>1. m \in KingMoves(p) <=> \E s \in Own(p, "king") : m \in PieceMoves(p, s, "king") /\ Fine
    BY KingExact DEF Fine
  <1>2. m \in Officers(p, check) <=>
          \E k \in OfficerKinds : \E s \in Own(p, k) : m \in PieceMoves(p, s, k) /\ Fine
    BY OfficersExact DEF Fine
  <1>3. m \in pawns <=> \E s \in Own(p, "pawn") : m \in PawnMoves(p, s, {}) /\ Fine
    BY PawnsExact DEF Fine
  <1>4. m \in EnPassants(p, check) <=> \E s \in Own(p, "pawn") : passing(s) /\ Fine
    BY PassingsExact DEF Fine
  <1>5. m \in CastlingMoves(p, rights) /\ Fine <=>
          /\ m \in Castles(p, check)
          /\ \/ Is(m, "CASTLE_KING_SIDE") /\ KingSide(p.turn) \in rights
             \/ Is(m, "CASTLE_QUEEN_SIDE") /\ QueenSide(p.turn) \in rights
    BY CastleExact DEF Fine
  <1>6. m \in Castles(p, check) => \/ Is(m, "CASTLE_KING_SIDE") /\ ~Is(m, "CASTLE_QUEEN_SIDE")
                                   \/ Is(m, "CASTLE_QUEEN_SIDE") /\ ~Is(m, "CASTLE_KING_SIDE")
    <2>1. m \in Castles(p, check) => m = ShortCastle(p) \/ m = LongCastle(p)
      BY CastlesAre
    <2>2. /\ m = ShortCastle(p) => m.flags = {"CASTLE_KING_SIDE"}
          /\ m = LongCastle(p) => m.flags = {"CASTLE_QUEEN_SIDE"}
      BY FlaggedIs DEF ShortCastle, LongCastle
    <2> QED BY <2>1, <2>2 DEF Is
  <1>7. m \in GenerateMoves(p) <=>
          \/ m \in KingMoves(p) \/ m \in Officers(p, check) \/ m \in Castles(p, check)
          \/ m \in pawns \/ m \in EnPassants(p, check)
    BY GeneratedParts
  <1>8. \A s \in Own(p, "pawn") : m \in PawnMoves(p, s, ep) <=> m \in PawnMoves(p, s, {}) \/ passing(s)
    BY PawnMovesSplit
  <1>9. /\ \A s, k : m \in PieceMoves(p, s, k) => Granted(p, rights, m)
        /\ \A s \in Own(p, "pawn") : m \in PawnMoves(p, s, ep) => Granted(p, rights, m)
    BY OnlyCastles DEF Castling, Granted
  <1> HIDE DEF pawns, passing, check
  <1>10. PieceKinds \ {"pawn"} = OfficerKinds \cup {"king"}
    BY DEF PieceKinds, OfficerKinds
  <1>11. m \in RulesMoves(p, rights, ep) <=>
           /\ Fine
           /\ \/ m \in CastlingMoves(p, rights)
              \/ \E s \in Own(p, "pawn") : m \in PawnMoves(p, s, ep)
              \/ \E k \in OfficerKinds \cup {"king"} : \E s \in Own(p, k) : m \in PieceMoves(p, s, k)
    BY <1>10 DEF RulesMoves, Fine
  <1>12. m \in Castles(p, check) =>
           (Granted(p, rights, m) <=>
              \/ Is(m, "CASTLE_KING_SIDE") /\ KingSide(p.turn) \in rights
              \/ Is(m, "CASTLE_QUEEN_SIDE") /\ QueenSide(p.turn) \in rights)
    BY <1>6 DEF Granted
  <1>13. m \in CastlingMoves(p, rights) /\ Fine <=> m \in Castles(p, check) /\ Granted(p, rights, m)
    BY <1>5, <1>12
  <1>14. (\E s \in Own(p, "pawn") : m \in PawnMoves(p, s, ep)) /\ Fine <=>
           (m \in pawns \/ m \in EnPassants(p, check)) /\ Granted(p, rights, m)
    BY <1>3, <1>4, <1>8, <1>9
  <1>15. (\E k \in OfficerKinds \cup {"king"} : \E s \in Own(p, k) : m \in PieceMoves(p, s, k)) /\ Fine <=>
           (m \in KingMoves(p) \/ m \in Officers(p, check)) /\ Granted(p, rights, m)
    BY <1>1, <1>2, <1>9
  <1> QED BY <1>7, <1>11, <1>13, <1>14, <1>15

-----------------------------------------------------------------------------
(* What a generated move leads to.  The rights whose rook is in the corner. *)
CornerRights(p) ==
  { right \in p.castling_rights :
      /\ right = KingSide(p.turn) => KingRook(p.turn) \in Own(p, "rook")
      /\ right = QueenSide(p.turn) => QueenRook(p.turn) \in Own(p, "rook") }

(* A generated move does not leave the own king in check.                   *)
LEMMA GeneratedSafe ==
  ASSUME NEW p, Good(p), Lawful(p), NEW ep, Settled(p, ep), NEW m \in GenerateMoves(p)
  PROVE  ~InCheck(Moved(p.pieces, p.turn, m), p.turn)
  <1>1. RightsFit(p, CornerRights(p))
    BY DEF RightsFit, CornerRights
  <1>2. Granted(p, CornerRights(p), m)
    <2>1. Plausible(p, m)
      BY Generated
    <2>2. /\ Is(m, "CASTLE_KING_SIDE") =>
               KingSide(p.turn) \in p.castling_rights /\ KingRook(p.turn) \in Own(p, "rook")
          /\ Is(m, "CASTLE_QUEEN_SIDE") =>
               QueenSide(p.turn) \in p.castling_rights /\ QueenRook(p.turn) \in Own(p, "rook")
      BY <2>1 DEF Plausible, CastlesAllowed, CastlesTo
    <2>3. KingSide(p.turn) # QueenSide(p.turn)
      BY DEF KingSide, QueenSide
    <2> QED BY <2>2, <2>3 DEF Granted, CornerRights
  <1>3. m \in RulesMoves(p, CornerRights(p), ep)
    BY <1>1, <1>2, MovesExact
  <1> QED BY <1>3 DEF RulesMoves

(* A pawn's step or capture is no double push, and the leap is.             *)
LEMMA StepLength ==
  ASSUME NEW c \in Colors, NEW s \in Squares, NEW t \in Squares, NEW m,
         m.piece = "pawn", m.from = s, m.to = t
  PROVE  /\ Ahead(c, s, t) \/ Aslant(c, s, t) => ~IsDoublePush(m) /\ Abs(t - s) # 16
         /\ \A x \in Squares : s \in PawnRank(c) /\ Ahead(c, s, x) /\ Ahead(c, x, t) =>
              IsDoublePush(m) /\ Abs(t - s) = 16
  <1>1. PICK rs, fs, rt, ft, F :
          rs = Rank(s) /\ fs = File(s) /\ rt = Rank(t) /\ ft = File(t) /\ F = Forward(c)
    OBVIOUS
  <1>2. /\ s = 8 * rs + fs /\ t = 8 * rt + ft /\ rs \in 0 .. 7 /\ fs \in 0 .. 7 /\ rt \in 0 .. 7 /\ ft \in 0 .. 7
    BY <1>1, SquareIs
  <1>3. F \in {1, -1} /\ (F = 1 <=> c = "white")
    BY <1>1 DEF Forward, Colors
  <1>4. IsDoublePush(m) <=> rs \in {1, 6} /\ rt \in {3, 4}
    <2>1. \A x \in Squares : \A r \in 0 .. 7 : x \in OnRank(r) <=> Rank(x) = r
      BY OnRankIs
    <2> QED BY <1>1, <2>1 DEF IsDoublePush
  <1>5. ASSUME Ahead(c, s, t) \/ Aslant(c, s, t) PROVE ~IsDoublePush(m) /\ Abs(t - s) # 16
    <2>1. rt = rs + F /\ ft - fs \in {-1, 0, 1}
      BY <1>1, <1>2, <1>5 DEF Ahead, Aslant, Abs
    <2>2. t - s = 8 * F + (ft - fs)
      BY <1>2, <1>3, <2>1
    <2>3. Abs(t - s) # 16
      BY <1>2, <1>3, <2>1, <2>2 DEF Abs
    <2> QED BY <1>2, <1>3, <1>4, <2>1, <2>3
  <1>6. ASSUME NEW x \in Squares, s \in PawnRank(c), Ahead(c, s, x), Ahead(c, x, t)
        PROVE  IsDoublePush(m) /\ Abs(t - s) = 16
    <2>1. rt = rs + F + F /\ ft = fs
      BY <1>1, <1>6 DEF Ahead
    <2>2. rs = IF c = "white" THEN 1 ELSE 6
      <3>1. s \in OnRank(IF c = "white" THEN 1 ELSE 6)
        BY <1>6 DEF PawnRank
      <3> QED BY <1>1, <3>1, OnRankIs
    <2>3. t - s = 16 * F
      BY <1>2, <1>3, <2>1
    <2>4. Abs(t - s) = 16
      BY <1>3, <2>3 DEF Abs
    <2> QED BY <1>3, <1>4, <2>1, <2>2, <2>4
  <1> QED BY <1>5, <1>6

(* A plain move.                                                            *)
LEMMA ToFields ==
  ASSUME NEW p, NEW s, NEW k, NEW t, NEW m, m = To(p, s, k, t)
  PROVE  /\ m.from = s /\ m.to = t /\ m.piece = k
         /\ m.flags = IF t \in Occupancy(p.pieces, OPP(p.turn)) THEN {"CAPTURE"} ELSE {}
  BY DEF To, Quiet

(* How a pawn's move on the list goes.                                      *)
PawnWays(p, m) ==
  /\ m.from \in Own(p, "pawn") /\ m.to \in Squares
  /\ \/ Leap(p, m.from, m.to) /\ m = To(p, m.from, "pawn", m.to)
     \/ Ahead(p.turn, m.from, m.to) /\ ~Is(m, "EN_PASSANT")
     \/ Aslant(p.turn, m.from, m.to)

(* Every pawn's move on the list goes one of these ways.                    *)
LEMMA PawnListed ==
  ASSUME NEW p, Good(p), Lawful(p), NEW ep, Settled(p, ep), NEW m \in GenerateMoves(p), m.piece = "pawn"
  PROVE  PawnWays(p, m)
  <1>1. m \notin KingMoves(p)
    <2>1. m \in KingMoves(p) => \E s : m \in PieceMoves(p, s, "king")
      BY KingExact
    <2> QED BY <2>1, ToFields DEF PieceMoves
  <1>2. m \notin Officers(p, CheckMask(p))
    <2>1. m \in Officers(p, CheckMask(p)) => \E k \in OfficerKinds : \E s : m \in PieceMoves(p, s, k)
      BY OfficersExact
    <2> QED BY <2>1, ToFields DEF PieceMoves, OfficerKinds
  <1>3. m \notin Castles(p, CheckMask(p))
    <2>1. m \in Castles(p, CheckMask(p)) => m = ShortCastle(p) \/ m = LongCastle(p)
      BY CastlesAre
    <2> QED BY <2>1, FlaggedIs DEF ShortCastle, LongCastle
  <1>4. \/ \E s \in Own(p, "pawn") : m \in PawnMoves(p, s, {})
        \/ \E s \in Own(p, "pawn") : \E t \in ep :
             t \in Squares /\ Aslant(p.turn, s, t) /\ m = Flagged(s, t, "pawn", "EN_PASSANT")
    <2>1. \/ m \in PawnPushes(p, CheckMask(p)) \cup PawnCaptures(p, CheckMask(p)) \cup Promotions(p, CheckMask(p))
          \/ m \in EnPassants(p, CheckMask(p))
      BY <1>1, <1>2, <1>3, GeneratedParts
    <2> QED BY <2>1, PawnsExact, PassingsExact
  <1>5. ASSUME NEW s \in Own(p, "pawn"), NEW t, t \in Squares, Aslant(p.turn, s, t),
               m = Flagged(s, t, "pawn", "EN_PASSANT")
        PROVE  PawnWays(p, m)
    BY <1>5, FlaggedIs DEF PawnWays
  <1>6. ASSUME NEW s \in Own(p, "pawn"), NEW t, PawnGoes(p, s, t), m = To(p, s, "pawn", t)
        PROVE  PawnWays(p, m)
    <2>1. m.from = s /\ m.to = t /\ t \in Squares
      BY <1>6, ToFields, PawnWay
    <2>2. ~Is(m, "EN_PASSANT")
      BY <1>6, ToFlags DEF Is
    <2> QED BY <1>6, <2>1, <2>2 DEF PawnWays, PawnGoes
  <1>7. ASSUME NEW s \in Own(p, "pawn"), NEW t, NEW kind, s \in BeforePromotion(p.turn), PawnGoes(p, s, t),
               m = PromotedTo(To(p, s, "pawn", t), kind)
        PROVE  PawnWays(p, m)
    <2>1. PICK n : n = To(p, s, "pawn", t)
      OBVIOUS
    <2>2. m.from = s /\ m.to = t /\ t \in Squares /\ m.flags = n.flags \cup {"PROMOTION"}
      BY <1>7, <2>1, PromotedIs, PawnWay
    <2>3. ~Leap(p, s, t)
      BY <1>7, LastStep
    <2>4. ~Is(m, "EN_PASSANT")
      BY <2>1, <2>2, ToFlags DEF Is
    <2> QED BY <1>7, <2>2, <2>3, <2>4 DEF PawnWays, PawnGoes
  <1>8. ASSUME NEW s \in Own(p, "pawn"), m \in PawnMoves(p, s, {}) PROVE PawnWays(p, m)
    <2>1. \/ \E t : PawnGoes(p, s, t) /\ m = To(p, s, "pawn", t)
          \/ /\ s \in BeforePromotion(p.turn)
             /\ \E t, kind : PawnGoes(p, s, t) /\ m = PromotedTo(To(p, s, "pawn", t), kind)
      BY <1>8, PawnMovesAre
    <2> QED BY <1>6, <1>7, <2>1
  <1> QED BY <1>4, <1>5, <1>8

(* A listed move is a double push when it is a pawn's over sixteen squares; *)
(* then it takes nothing.                                                   *)
LEMMA DoublePushIs ==
  ASSUME NEW p, Good(p), Lawful(p), NEW ep, Settled(p, ep), NEW m \in GenerateMoves(p)
  PROVE  /\ IsDoublePush(m) <=> m.piece = "pawn" /\ Abs(m.to - m.from) = 16
         /\ IsDoublePush(m) => m.flags = {} /\ m.to \notin p.occupied_sqs
  <1>1. CASE m.piece # "pawn"
    BY <1>1 DEF IsDoublePush
  <1>2. CASE m.piece = "pawn"
    <2>1. PawnWays(p, m)
      BY <1>2, PawnListed
    <2>2. PICK s, t : s = m.from /\ t = m.to
      OBVIOUS
    <2>3. p.turn \in Colors /\ s \in Squares /\ t \in Squares
      BY <2>1, <2>2, OwnIs DEF PawnWays, PieceKinds
    <2>4. CASE Ahead(p.turn, s, t) \/ Aslant(p.turn, s, t)
      <3>1. ~IsDoublePush(m) /\ Abs(t - s) # 16
        BY <1>2, <2>2, <2>3, <2>4, StepLength
      <3> QED BY <2>2, <3>1
    <2>5. CASE Leap(p, s, t) /\ m = To(p, s, "pawn", t)
      <3>1. s \in PawnRank(p.turn) /\ \E x \in Squares : Ahead(p.turn, s, x) /\ Ahead(p.turn, x, t)
        BY <2>5 DEF Leap, Empty
      <3>2. IsDoublePush(m) /\ Abs(t - s) = 16
        BY <1>2, <2>2, <2>3, <3>1, StepLength
      <3>3. t \notin p.occupied_sqs
        BY <2>5 DEF Leap, Empty
      <3>4. t \notin Occupancy(p.pieces, OPP(p.turn))
        <4>1. \A k \in PieceKinds : t \notin Enemy(p, k)
          BY <3>3, PiecesAre
        <4> QED BY <4>1, Occupied DEF Enemy
      <3>5. m.flags = {}
        BY <2>5, <3>4, ToFields
      <3> QED BY <1>2, <2>2, <3>2, <3>3, <3>5
    <2> QED BY <2>1, <2>2, <2>4, <2>5 DEF PawnWays
  <1> QED BY <1>1, <1>2

(* What an en passant capture takes off the board is the target.            *)
LEMMA PassingRid ==
  ASSUME NEW p, Good(p), Lawful(p), NEW ep, Settled(p, ep), NEW m \in GenerateMoves(p), Is(m, "EN_PASSANT")
  PROVE  p.en_passant_target = Rid(m)
  <1>1. Plausible(p, m) /\ m.piece = "pawn" /\ m.to \in p.en_passant_sq
    BY Generated DEF Plausible, Passes
  <1>2. PawnWays(p, m)
    BY <1>1, PawnListed
  <1>3. ~(Leap(p, m.from, m.to) /\ m = To(p, m.from, "pawn", m.to))
    <2>1. m = To(p, m.from, "pawn", m.to) => m.flags \subseteq {"CAPTURE"}
      BY ToFlags
    <2> QED BY <2>1 DEF Is
  <1>4. Aslant(p.turn, m.from, m.to) /\ m.from \in Squares /\ m.to \in Squares /\ p.turn \in Colors
    BY <1>2, <1>3, OwnIs DEF PawnWays, PieceKinds
  <1>5. p.en_passant_target = {m.to - 8 * Forward(p.turn)}
    BY <1>1 DEF Good, JustPassed
  <1>6. m.to - 8 * Forward(p.turn) = 8 * Rank(m.from) + File(m.to)
    <2>1. PICK F : F = Forward(p.turn) /\ F \in {1, -1}
      BY <1>4, ForwardIs
    <2>2. m.to = 8 * Rank(m.to) + File(m.to) /\ Rank(m.to) \in 0 .. 7 /\ Rank(m.from) \in 0 .. 7 /\ File(m.to) \in 0 .. 7
      BY <1>4, SquareIs
    <2>3. Rank(m.to) = Rank(m.from) + F
      BY <1>4, <2>1 DEF Aslant
    <2> QED BY <2>1, <2>2, <2>3
  <1> QED BY <1>5, <1>6 DEF Rid

(* A plausible move takes one own piece from its square and no other.       *)
LEMMA PlausibleLifts ==
  ASSUME NEW p, Good(p), NEW m, Plausible(p, m), Is(m, "EN_PASSANT") => p.en_passant_target = Rid(m)
  PROVE  Lifts(p, m)
  <1>1. /\ m \in Moves /\ m.from \in Own(p, m.piece) /\ \A k \in PieceKinds : m.to \notin Own(p, k)
        /\ m.piece \in PieceKinds /\ m.to \in Squares
    BY MoveIs DEF Plausible
  <1>2. Becomes(m) \in PieceKinds /\ (Becomes(m) = "king" <=> m.piece = "king")
    BY <1>1 DEF Plausible, Promotes, Promotable, Becomes, PieceKinds, NONE
  <1>3. ASSUME NEW k \in PieceKinds PROVE Own(p, k) \cap Rid(m) = {}
    <2>1. CASE ~Is(m, "EN_PASSANT")
      BY <1>1, <2>1 DEF Rid
    <2>2. CASE Is(m, "EN_PASSANT")
      <3>1. p.en_passant_target \subseteq Enemy(p, "pawn")
        BY DEF Good, JustPassed
      <3>2. \A x : ~(x \in Own(p, k) /\ x \in Enemy(p, "pawn"))
        BY PiecesAre DEF PieceKinds
      <3> QED BY <2>2, <3>1, <3>2
    <2> QED BY <2>1, <2>2
  <1> QED BY <1>1, <1>2, <1>3 DEF Lifts

(* Nothing stands beyond the corner a king castles towards.                 *)
LEMMA CornerLast ==
  ASSUME NEW c \in Colors, NEW u \in Squares, NEW h, h = KingHome(c)
  PROVE  KingRook(c) \notin Between[u][h + 2] /\ QueenRook(c) \notin Between[u][h - 2]
  <1>1. h \in {4, 60} /\ KingRook(c) = h + 3 /\ QueenRook(c) = h - 4
    BY Corners
  <1>2. /\ h + 2 \in Squares /\ h - 2 \in Squares /\ h + 3 \in Squares /\ h - 4 \in Squares
        /\ Rank(h + 2) = Rank(h + 3) /\ File(h + 2) = 6 /\ File(h + 3) = 7
        /\ Rank(h - 2) = Rank(h - 4) /\ File(h - 2) = 2 /\ File(h - 4) = 0
    BY <1>1 DEF Squares, Rank, File
  <1>3. PICK ru, fu : ru = Rank(u) /\ fu = File(u) /\ ru \in 0 .. 7 /\ fu \in 0 .. 7
    BY SquareIs
  <1>4. ASSUME h + 3 \in Between[u][h + 2] PROVE FALSE
    <2>1. PICK r : r = Rank(h + 2) /\ r \in 0 .. 7
      BY <1>2, SquareIs
    <2>2. Strictly(ru, fu, r, 6, r, 7)
      BY <1>2, <1>3, <1>4, <2>1, BetweenIs
    <2> QED BY <1>3, <2>1, <2>2 DEF Strictly, Mid
  <1>5. ASSUME h - 4 \in Between[u][h - 2] PROVE FALSE
    <2>1. PICK r : r = Rank(h - 2) /\ r \in 0 .. 7
      BY <1>2, SquareIs
    <2>2. Strictly(ru, fu, r, 2, r, 0)
      BY <1>2, <1>3, <1>5, <2>1, BetweenIs
    <2> QED BY <1>3, <2>1, <2>2 DEF Strictly, Mid
  <1> QED BY <1>1, <1>4, <1>5

(* Two boards with the king of c on one square, to which more lines are     *)
(* open on D0 than on D.                                                    *)
Uncovered(D, D0, c) ==
  \E K \in Squares : /\ D[c]["king"] = {K} /\ D0[c]["king"] = {K}
                     /\ \A u \in Squares : Between[u][K] \cap OccupiedBy(D) = {} =>
                                             Between[u][K] \cap OccupiedBy(D0) = {}

(* The boards Make leads to differ from Moved's by the castling rook only,  *)
(* which uncovers nothing.                                                  *)
LEMMA MadeBoards ==
  ASSUME NEW p, Good(p), NEW m, Plausible(p, m), Is(m, "EN_PASSANT") => p.en_passant_target = Rid(m),
         NEW D \in Boards, Replaces(p, m, D), NEW c, c = p.turn, NEW D0, Results(p, m, c, D0)
  PROVE  /\ \A k \in PieceKinds : D[OPP(c)][k] = D0[OPP(c)][k]
         /\ Uncovered(D, D0, c)
  <1>0. PICK o, O : o = OPP(c) /\ O = p.occupied_sqs
    OBVIOUS
  <1>1. /\ m \in Moves /\ m.from \in Squares /\ m.to \in Squares /\ m.piece \in PieceKinds
        /\ c \in Colors /\ o \in Colors /\ o # c
        /\ m.from \in p.pieces[c][m.piece] /\ \A k \in PieceKinds : m.to \notin p.pieces[c][k]
        /\ Is(m, "CAPTURE") => m.captured \in PieceKinds /\ m.to \in p.pieces[o][m.captured]
        /\ ~Is(m, "CAPTURE") => m.to \notin p.occupied_sqs
        /\ Is(m, "EN_PASSANT") => m.piece = "pawn" /\ m.flags = {"EN_PASSANT"}
    BY <1>0, PlausibleIs
  <1>2. /\ \A k \in PieceKinds : D0[o][k] = Enemy(p, k) \ Rid(m)
        /\ D0[c]["king"] = (IF m.piece = "king" THEN {m.to} ELSE Own(p, "king"))
        /\ OccupiedBy(D0) = (O \ ({m.from} \cup Rid(m))) \cup {m.to}
    BY <1>0 DEF Results
  <1>3. /\ \A d \in Colors, k \in PieceKinds, s \in Squares :
             s \in D[d][k] <=> (s \in p.pieces[d][k] /\ ~Lifted(p, m, d, k, s)) \/ Dropped(p, m, d, k, s)
        /\ \A k \in PieceKinds : D[o][k] \subseteq Squares /\ Enemy(p, k) \subseteq Squares
        /\ \A k \in PieceKinds : Enemy(p, k) = p.pieces[o][k] /\ Own(p, k) = p.pieces[c][k]
    <2>1. \A k \in PieceKinds : D[o][k] \subseteq Squares
      BY <1>1 DEF Boards
    <2> QED BY <1>0, <2>1, PiecesAre DEF Replaces, Enemy, Own
  <1>4. ASSUME NEW k \in PieceKinds PROVE D[o][k] = D0[o][k]
    <2>1. \A s : ~Dropped(p, m, o, k, s)
      BY <1>0, <1>1 DEF Dropped
    <2>2. \A s : Lifted(p, m, o, k, s) <=>
                   \/ Is(m, "CAPTURE") /\ k = m.captured /\ s = m.to
                   \/ Is(m, "EN_PASSANT") /\ k = "pawn" /\ s \in p.en_passant_target
      BY <1>0, <1>1 DEF Lifted
    <2>3. CASE Is(m, "EN_PASSANT")
      <3>1. ~Is(m, "CAPTURE")
        BY <1>1, <2>3 DEF Is
      <3>2. p.en_passant_target = Rid(m) /\ p.en_passant_target \subseteq Enemy(p, "pawn")
        BY <2>3 DEF Good, JustPassed
      <3>3. \A s : s \in Enemy(p, k) /\ s \in p.en_passant_target => k = "pawn"
        BY <3>2, PiecesAre DEF PieceKinds
      <3>4. \A s : Lifted(p, m, o, k, s) /\ s \in Enemy(p, k) <=> s \in Rid(m) /\ s \in Enemy(p, k)
        BY <2>2, <2>3, <3>1, <3>2, <3>3
      <3>5. \A s \in Squares : s \in D[o][k] <=> s \in Enemy(p, k) /\ s \notin Rid(m)
        BY <1>1, <1>3, <2>1, <3>4
      <3> QED BY <1>2, <1>3, <3>5
    <2>4. CASE ~Is(m, "EN_PASSANT")
      <3>1. Rid(m) = {m.to}
        BY <2>4 DEF Rid
      <3>2. m.to \in Enemy(p, k) => Is(m, "CAPTURE") /\ k = m.captured
        <4>1. m.to \in Enemy(p, k) => m.to \in O
          BY <1>0, PiecesAre
        <4>2. m.to \in Enemy(p, k) /\ Is(m, "CAPTURE") => k = m.captured
          BY <1>1, <1>3, PiecesAre
        <4> QED BY <1>0, <1>1, <4>1, <4>2
      <3>3. \A s \in Squares : s \in D[o][k] <=> s \in Enemy(p, k) /\ s # m.to
        BY <1>1, <1>3, <2>1, <2>2, <2>4, <3>2
      <3> QED BY <1>2, <1>3, <3>1, <3>3
    <2> QED BY <2>3, <2>4
  <1>5. PICK K \in Squares : D[c]["king"] = {K} /\ D0[c]["king"] = {K} /\ (m.piece = "king" => K = m.to)
    <2>1. OneKing(D) /\ ((m.piece = "king" => c # p.turn) => D[c]["king"] = p.pieces[c]["king"])
      BY <1>1, MakeKings
    <2>2. CASE m.piece = "king"
      <3>1. ~Is(m, "PROMOTION")
        BY <2>2 DEF Plausible, Promotes
      <3>2. m.to \in D[c]["king"]
        BY <1>1, <1>3, <2>2, <3>1 DEF Dropped
      <3>3. PICK s \in Squares : D[c]["king"] = {s}
        BY <1>1, <2>1 DEF OneKing
      <3> QED BY <1>1, <1>2, <2>2, <3>2, <3>3
    <2>3. CASE m.piece # "king"
      <3>1. PICK s \in Squares : D[c]["king"] = {s}
        BY <1>1, <2>1 DEF OneKing
      <3>2. D[c]["king"] = Own(p, "king")
        BY <2>1, <2>3 DEF Own
      <3> QED BY <1>2, <2>3, <3>1, <3>2
    <2> QED BY <2>2, <2>3
  <1>6. ASSUME NEW u \in Squares, Between[u][K] \cap OccupiedBy(D) = {}, NEW y \in Between[u][K], y \in OccupiedBy(D0)
        PROVE  FALSE
    <2>1. y \in Squares
      BY <1>6, LinesTurn
    <2>2. \A d \in Colors, k \in PieceKinds : y \in D[d][k] => y \in OccupiedBy(D)
      BY Occupied DEF OccupiedBy, Colors
    <2>3. y # m.to
      <3>1. PICK k \in PieceKinds : k = (IF Is(m, "PROMOTION") THEN m.promoted ELSE m.piece)
        BY <1>1 DEF Plausible, Promotes, Promotable, PieceKinds
      <3>2. m.to \in D[c][k]
        BY <1>1, <1>3, <3>1 DEF Dropped
      <3> QED BY <1>1, <1>6, <2>2, <3>2
    <2>4. y \in O /\ y # m.from /\ y \notin Rid(m)
      BY <1>2, <1>6, <2>3
    <2>5. PICK d \in Colors, k \in PieceKinds : y \in p.pieces[d][k]
      BY <1>0, <2>4, OccupiedSqs DEF Good
    <2>6. Lifted(p, m, d, k, y)
      BY <1>3, <1>6, <2>1, <2>2, <2>5
    <2>7. /\ ~(d = p.turn /\ k = m.piece /\ y = m.from)
          /\ ~(Is(m, "CAPTURE") /\ d = OPP(p.turn) /\ k = m.captured /\ y = m.to)
          /\ ~(Is(m, "EN_PASSANT") /\ d = OPP(p.turn) /\ k = "pawn" /\ y \in p.en_passant_target)
      BY <2>3, <2>4
    <2>8. \/ Is(m, "CASTLE_KING_SIDE") /\ y = KingRook(c)
          \/ Is(m, "CASTLE_QUEEN_SIDE") /\ y = QueenRook(c)
      BY <2>6, <2>7 DEF Lifted
    <2>9. /\ Is(m, "CASTLE_KING_SIDE") => K = KingHome(c) + 2
          /\ Is(m, "CASTLE_QUEEN_SIDE") => K = KingHome(c) - 2
      BY <1>5, PlausibleIs
    <2> QED BY <1>1, <1>6, <2>8, <2>9, CornerLast
  <1>7. Uncovered(D, D0, c)
    BY <1>5, <1>6 DEF Uncovered
  <1> QED BY <1>0, <1>4, <1>7

(* Make leaves the own king safe when Moved does.                           *)
LEMMA MadeSafe ==
  ASSUME NEW p, Good(p), NEW m, Plausible(p, m), Is(m, "EN_PASSANT") => p.en_passant_target = Rid(m),
         ~InCheck(Moved(p.pieces, p.turn, m), p.turn), NEW D \in Boards, Replaces(p, m, D)
  PROVE  ~InCheck(D, p.turn)
  <1>0. PICK c, o, D0 : c = p.turn /\ o = OPP(c) /\ D0 = Moved(p.pieces, c, m)
    OBVIOUS
  <1>1. Results(p, m, c, D0)
    BY <1>0, PlausibleLifts, MovedIs
  <1>2. D0 \in Boards /\ c \in Colors /\ o \in Colors
    BY <1>0, <1>1 DEF Results
  <1>3. \A k \in PieceKinds : D[o][k] = D0[o][k]
    BY <1>0, <1>1, MadeBoards
  <1>4. PICK K \in Squares : /\ D[c]["king"] = {K} /\ D0[c]["king"] = {K}
                             /\ \A u \in Squares : Between[u][K] \cap OccupiedBy(D) = {} =>
                                                     Between[u][K] \cap OccupiedBy(D0) = {}
    <2>1. Uncovered(D, D0, c)
      BY <1>0, <1>1, MadeBoards
    <2> QED BY <2>1 DEF Uncovered
  <1>5. InCheck(D, c) <=> \E k \in PieceKinds : \E u \in D[o][k] : u \in Squares /\ Hits(k, o, u, K, OccupiedBy(D))
    BY <1>0, <1>2, <1>4, InCheckIs
  <1>6. InCheck(D0, c) <=> \E k \in PieceKinds : \E u \in D0[o][k] : u \in Squares /\ Hits(k, o, u, K, OccupiedBy(D0))
    BY <1>0, <1>2, <1>4, InCheckIs
  <1>7. \A k \in PieceKinds : \A u \in Squares : Hits(k, o, u, K, OccupiedBy(D)) => Hits(k, o, u, K, OccupiedBy(D0))
    BY <1>4 DEF Hits
  <1> QED BY <1>0, <1>3, <1>5, <1>6, <1>7

-----------------------------------------------------------------------------
(* What Make of a listed move leads to.  A leaper that attacks the king     *)
(* then is the piece that moved: it uncovers no other.                      *)
LEMMA MadeLeaper ==
  ASSUME NEW p, Good(p), Lawful(p), NEW m, Plausible(p, m), NEW r, Good(r), r.turn = OPP(p.turn),
         Replaces(p, m, r.pieces), NEW k \in Leapers, NEW s \in Squares, LeapsAtKing(r, k, s)
  PROVE  s = m.to
  <1>0. PICK c, o, K : c = p.turn /\ o = OPP(c) /\ K = KingSquare(r)
    OBVIOUS
  <1>1. /\ c \in Colors /\ o \in Colors /\ o # c /\ OPP(o) = c /\ K \in Squares
        /\ p.pieces \in Boards /\ r.pieces \in Boards /\ k \in PieceKinds
    BY <1>0, PiecesAre, OppIs DEF Leapers, PieceKinds
  <1>2. s \in r.pieces[c][k] /\ K \in Reach(r.pieces, k, c, s)
    BY <1>0, <1>1 DEF LeapsAtKing, Enemy
  <1>3. Jumps(k, c, s, K)
    <2>1. Hits(k, c, s, K, OccupiedBy(r.pieces))
      BY <1>1, <1>2, ReachIs
    <2> QED BY <2>1 DEF Hits, Lined, Leapers
  <1>4. p.pieces[o]["king"] = {K}
    <2>1. Own(r, "king") = {K}
      BY <1>0, PiecesAre
    <2>2. r.pieces[o]["king"] = p.pieces[o]["king"]
      BY <1>0, <1>1, MakeKings
    <2> QED BY <1>0, <2>1, <2>2 DEF Own
  <1>5. s \notin p.pieces[c][k]
    <2>1. ~InCheck(p.pieces, o)
      BY <1>0 DEF Lawful
    <2>2. InCheck(p.pieces, o) <=>
             \E j \in PieceKinds : \E u \in p.pieces[OPP(o)][j] :
               u \in Squares /\ Hits(j, OPP(o), u, K, OccupiedBy(p.pieces))
      BY <1>1, <1>4, InCheckIs
    <2>3. Hits(k, c, s, K, OccupiedBy(p.pieces))
      BY <1>3 DEF Hits
    <2> QED BY <1>1, <2>1, <2>2, <2>3
  <1>6. Dropped(p, m, c, k, s)
    BY <1>1, <1>2, <1>5 DEF Replaces
  <1> QED BY <1>0, <1>6 DEF Dropped, Leapers

(* A double push passes the square between, and took its pawn from where    *)
(* the rules of en passant look for it.                                     *)
LEMMA PushPasses ==
  ASSUME NEW p, Good(p), NEW m, Plausible(p, m), IsDoublePush(m), NEW r, r = Make(p, m),
         NEW s, s = m.from + 8 * Forward(p.turn)
  PROVE  /\ Passed(r, s, m.to) /\ Origin(r, m.to) = m.from /\ s = (m.from + m.to) \div 2
         /\ r.en_passant_target = {m.to}
  <1>0. PICK c, o, F, T : c = p.turn /\ o = OPP(c) /\ F = Forward(c) /\ T = m.to
    OBVIOUS
  <1>1. Good(r)
    BY MakeGood
  <1>2. /\ r.turn = o /\ Derived(r) /\ r.en_passant_sq \in {Skipped(c, m), {}}
        /\ r.en_passant_target = Target(Skipped(c, m)) /\ Notes(r, Skipped(c, m))
    BY <1>0, MakeIs
  <1>3. /\ c \in Colors /\ o \in Colors /\ F \in {1, -1} /\ (F = 1 <=> c = "white")
        /\ Forward(o) = -F /\ (o = "white" <=> c = "black")
    BY <1>0, PiecesAre DEF Forward, OPP, Colors
  <1>4. m.from \in Squares /\ T \in Squares /\ m.piece = "pawn"
    BY <1>0, MoveIs DEF Plausible, IsDoublePush
  <1>5. /\ s \in Squares /\ T = m.from + 16 * F /\ Target({s}) = {T} /\ PushPawn(c, {m.from}) = {s}
    BY <1>0, <1>4 DEF Plausible, Passes
  <1>6. Skipped(c, m) = {s} /\ r.en_passant_target = {T}
    BY <1>2, <1>5 DEF Skipped
  <1>7. s = (m.from + T) \div 2 /\ Origin(r, T) = m.from /\ s = T + 8 * Forward(o)
    <2>1. PICK f : f = m.from /\ f \in Int
      BY <1>4 DEF Squares
    <2>2. s = f + 8 * F /\ T = f + 16 * F
      BY <1>0, <1>5, <2>1
    <2>3. (f + T) \div 2 = f + 8 * F
      BY <1>3, <2>1, <2>2
    <2>4. T + 16 * (-F) = f /\ T + 8 * (-F) = s
      BY <1>3, <2>1, <2>2
    <2> QED BY <1>2, <1>3, <2>1, <2>2, <2>3, <2>4 DEF Origin
  <1>8. s \notin r.occupied_sqs /\ T \in Enemy(r, "pawn")
    <2>1. PICK x \in Squares : /\ x \notin r.occupied_sqs /\ r.en_passant_target = {x - 8 * Forward(r.turn)}
                               /\ x - 8 * Forward(r.turn) \in Enemy(r, "pawn")
      BY <1>1, <1>6 DEF Good, JustPassed
    <2>2. T = x - 8 * Forward(o)
      BY <1>2, <1>6, <2>1
    <2>3. x = s
      <3>1. x \in Int /\ T \in Int
        BY <1>4 DEF Squares
      <3> QED BY <1>3, <1>7, <2>2, <3>1
    <2> QED BY <1>2, <2>1, <2>2, <2>3
  <1>9. Ahead(o, T, s) /\ Rank(s) = (IF o = "white" THEN 5 ELSE 2)
    <2>1. PICK rf, ff, rs, fs, rt, ft :
            rf = Rank(m.from) /\ ff = File(m.from) /\ rs = Rank(s) /\ fs = File(s) /\ rt = Rank(T) /\ ft = File(T)
      OBVIOUS
    <2>2. /\ m.from = 8 * rf + ff /\ s = 8 * rs + fs /\ T = 8 * rt + ft
          /\ rf \in 0 .. 7 /\ ff \in 0 .. 7 /\ rs \in 0 .. 7 /\ fs \in 0 .. 7 /\ rt \in 0 .. 7 /\ ft \in 0 .. 7
      BY <1>4, <1>5, <2>1, SquareIs
    <2>3. rf \in {1, 6} /\ rt \in {3, 4}
      <3>1. \A x \in Squares : \A rank \in 0 .. 7 : x \in OnRank(rank) <=> Rank(x) = rank
        BY OnRankIs
      <3> QED BY <1>0, <1>4, <2>1, <3>1 DEF IsDoublePush
    <2>4. rt = rf + 2 * F /\ rs = rf + F /\ fs = ff /\ ft = ff
      <3>1. s = m.from + 8 * F /\ T = m.from + 16 * F
        BY <1>0, <1>5
      <3>2. 8 * rs + fs = 8 * rf + ff + 8 * F /\ 8 * rt + ft = 8 * rf + ff + 16 * F
        BY <2>2, <3>1
      <3>3. rs = rf + F /\ fs = ff
        BY <1>3, <2>2, <3>2
      <3>4. rt = rf + 2 * F /\ ft = ff
        BY <1>3, <2>2, <3>2
      <3> QED BY <3>3, <3>4
    <2>5. rs = (IF o = "white" THEN 5 ELSE 2) /\ rs = rt - F
      BY <1>3, <2>2, <2>3, <2>4 DEF Colors
    <2> QED BY <1>3, <2>1, <2>2, <2>4, <2>5 DEF Ahead
  <1>10. ASSUME NEW b, b.turn = r.turn, b.pieces = r.pieces, b.occupied_sqs = r.occupied_sqs, b.en_passant_sq = {s}
         PROVE  Exposes(b, {T}) <=> Exposed(r, s, T)
    BY <1>1, <1>2, <1>4, <1>5, <1>9, <1>10, ExposesIs
  <1>11. r.en_passant_sq = IF Exposed(r, s, T) THEN {} ELSE {s}
    <2>1. CASE Exposed(r, s, T)
      <3>1. r.en_passant_sq = {s} => Exposes(r, {T})
        BY <1>10, <2>1
      <3>2. r.en_passant_sq # {} => ~Exposes(r, {T})
        BY <1>2, <1>6 DEF Derived
      <3> QED BY <1>2, <1>6, <2>1, <3>1, <3>2
    <2>2. CASE ~Exposed(r, s, T)
      <3>1. PICK b : /\ b.turn = r.turn /\ b.pieces = r.pieces /\ b.occupied_sqs = r.occupied_sqs
                     /\ b.en_passant_sq = {s}
                     /\ ~Exposes(b, r.en_passant_target) => r.en_passant_sq = {s}
        <4>1. Notes(r, {s})
          BY <1>2, <1>6
        <4> QED BY <4>1, Zenon DEF Notes
      <3>2. ~Exposes(b, {T})
        BY <1>10, <2>2, <3>1
      <3>3. ~Exposes(b, r.en_passant_target)
        BY <1>6, <3>2
      <3>4. r.en_passant_sq = {s}
        BY <3>1, <3>3
      <3> QED BY <2>2, <3>4
    <2> QED BY <2>1, <2>2
  <1> QED BY <1>0, <1>2, <1>4, <1>5, <1>6, <1>7, <1>8, <1>9, <1>11 DEF Passed

(* Make of a listed move keeps a position lawful: the side that moved is    *)
(* not in check, the piece that moved is the only leaper that attacks the   *)
(* king, and before a double push the king to attack was not attacked.      *)
LEMMA MakeLawful ==
  ASSUME NEW p, Good(p), Lawful(p), NEW ep, Settled(p, ep), NEW m \in GenerateMoves(p),
         NEW r, r = Make(p, m)
  PROVE  Lawful(r)
  <1>0. PICK c, o : c = p.turn /\ o = OPP(c)
    OBVIOUS
  <1>1. /\ Plausible(p, m) /\ Good(r) /\ r.turn = o /\ Replaces(p, m, r.pieces)
        /\ r.pieces \in Boards /\ p.pieces \in Boards
        /\ r.en_passant_target = Target(Skipped(c, m))
        /\ c \in Colors /\ o \in Colors /\ o # c /\ OPP(o) = c
    <2>1. Plausible(p, m)
      BY Generated
    <2>2. Good(r)
      BY <2>1, MakeGood
    <2>3. r.turn = o /\ Replaces(p, m, r.pieces) /\ r.en_passant_target = Target(Skipped(c, m))
      BY <1>0, <2>1, MakeIs
    <2> QED BY <1>0, <2>1, <2>2, <2>3, PiecesAre, OppIs
  <1>2. ~InCheck(r.pieces, OPP(r.turn))
    <2>1. ~InCheck(Moved(p.pieces, p.turn, m), p.turn)
      BY GeneratedSafe
    <2>2. Is(m, "EN_PASSANT") => p.en_passant_target = Rid(m)
      BY PassingRid
    <2> QED BY <1>0, <1>1, <2>1, <2>2, MadeSafe
  <1>3. ASSUME NEW j \in Leapers, NEW k \in Leapers, NEW s \in Squares, NEW t \in Squares,
               LeapsAtKing(r, j, s), LeapsAtKing(r, k, t)
        PROVE  s = t
    <2>1. s = m.to
      BY <1>0, <1>1, <1>3, MadeLeaper
    <2>2. t = m.to
      BY <1>0, <1>1, <1>3, MadeLeaper
    <2> QED BY <2>1, <2>2
  <1>4. CASE ~IsDoublePush(m)
    <2>1. r.en_passant_target = {}
      <3>1. Target({}) = {}
        BY DEF Target, PushPawn, Shift
      <3> QED BY <1>1, <1>4, <3>1 DEF Skipped
    <2> QED BY <1>2, <1>3, <2>1 DEF Lawful
  <1>5. CASE IsDoublePush(m)
    <2>1. r.en_passant_target = {m.to} /\ Origin(r, m.to) = m.from
      BY <1>1, <1>5, PushPasses
    <2>2. PICK B : B = Before(r, m.to)
      OBVIOUS
    <2>3. /\ m.from \in p.pieces[c]["pawn"] /\ m.flags = {} /\ m.to \notin p.occupied_sqs /\ m.piece = "pawn"
          /\ m.from \in Squares /\ m.to \in Squares /\ "pawn" \in PieceKinds
      BY <1>0, <1>1, <1>5, DoublePushIs, MoveIs DEF Plausible, Own, IsDoublePush, PieceKinds
    <2>4. B \in Boards /\ B[c]["pawn"] = (r.pieces[c]["pawn"] \ {m.to}) \cup {m.from}
          /\ \A d \in Colors, k \in PieceKinds : d # c \/ k # "pawn" => B[d][k] = r.pieces[d][k]
      <3>1. PICK E : E = (r.pieces[c]["pawn"] \ {m.to}) \cup {m.from}
        OBVIOUS
      <3>2. E \in SUBSET Squares
        BY <1>1, <2>3, <3>1 DEF Boards
      <3>3. B = Put(r.pieces, c, "pawn", E)
        BY <1>1, <2>1, <2>2, <3>1 DEF Before, Put, Boards
      <3> QED BY <1>1, <2>3, <3>1, <3>2, <3>3, PutIs
    <2>5. /\ \A d \in Colors, k \in PieceKinds : \A s : Lifted(p, m, d, k, s) <=> d = c /\ k = "pawn" /\ s = m.from
          /\ \A d \in Colors, k \in PieceKinds : \A s : Dropped(p, m, d, k, s) <=> d = c /\ k = "pawn" /\ s = m.to
      BY <1>0, <2>3 DEF Lifted, Dropped, Is
    <2>6. \A d \in Colors, k \in PieceKinds : m.to \notin p.pieces[d][k]
      BY <2>3, OccupiedSqs DEF Good
    <2>7. ASSUME NEW d \in Colors, NEW k \in PieceKinds, NEW s \in Squares
          PROVE  s \in B[d][k] <=> s \in p.pieces[d][k]
      <3>1. s \in r.pieces[d][k] <=> (s \in p.pieces[d][k] /\ ~Lifted(p, m, d, k, s)) \/ Dropped(p, m, d, k, s)
        BY <1>1 DEF Replaces
      <3>2. s \in r.pieces[d][k] <=>
              (s \in p.pieces[d][k] /\ ~(d = c /\ k = "pawn" /\ s = m.from)) \/ (d = c /\ k = "pawn" /\ s = m.to)
        BY <2>5, <3>1
      <3>3. CASE d = c /\ k = "pawn"
        BY <2>3, <2>4, <2>6, <3>2, <3>3
      <3>4. CASE ~(d = c /\ k = "pawn")
        BY <2>4, <3>2, <3>4
      <3> QED BY <3>3, <3>4
    <2>8. B = p.pieces
      BY <1>1, <2>4, <2>7, BoardsEqual
    <2>9. ~InCheck(B, r.turn)
      BY <1>0, <1>1, <2>8 DEF Lawful
    <2> QED BY <1>2, <1>3, <2>1, <2>2, <2>9 DEF Lawful
  <1> QED BY <1>4, <1>5

(* The en passant square the rules know of after a move.                    *)
Passing(m) ==
  IF m.piece = "pawn" /\ Abs(m.to - m.from) = 16 THEN {(m.from + m.to) \div 2} ELSE {}

(* Make of a listed move notes the en passant square of the rules, or drops *)
(* it for the king the capture would uncover.                               *)
LEMMA MakeSettled ==
  ASSUME NEW p, Good(p), Lawful(p), NEW ep, Settled(p, ep), NEW m \in GenerateMoves(p),
         NEW r, r = Make(p, m)
  PROVE  Settled(r, Passing(m))
  <1>1. Plausible(p, m)
    BY Generated
  <1>2. IsDoublePush(m) <=> m.piece = "pawn" /\ Abs(m.to - m.from) = 16
    BY DoublePushIs
  <1>3. CASE ~IsDoublePush(m)
    <2>1. Skipped(p.turn, m) = {}
      BY <1>3 DEF Skipped
    <2>2. r.en_passant_sq \in {Skipped(p.turn, m), {}}
      BY <1>1, MakeIs
    <2>3. Passing(m) = {}
      BY <1>2, <1>3 DEF Passing
    <2> QED BY <2>1, <2>2, <2>3 DEF Settled
  <1>4. CASE IsDoublePush(m)
    <2>1. PICK s : s = m.from + 8 * Forward(p.turn)
      OBVIOUS
    <2>2. Passed(r, s, m.to) /\ s = (m.from + m.to) \div 2
      BY <1>1, <1>4, <2>1, PushPasses
    <2>3. Passing(m) = {s}
      BY <1>2, <1>4, <2>2 DEF Passing
    <2> QED BY <2>2, <2>3 DEF Settled
  <1> QED BY <1>3, <1>4

(* A right to castle with the rook of this corner finds the rook in it; a   *)
(* move takes the king or a piece away from it, or takes what stands there. *)
RookHome(p, c, right) == right \in p.castling_rights => Corner(c, right) \in p.pieces[c]["rook"]
LeavesCorner(p, m, c, right) == p.turn = c /\ (m.piece = "king" \/ m.from = Corner(c, right))
TakesCorner(p, m, c, right) == p.turn # c /\ m.to = Corner(c, right)

(* Make forgets a right when its owner moves the king or leaves the corner, *)
(* and a rook with a right stays in its corner unless it is taken there.    *)
LEMMA RightsStep ==
  ASSUME NEW p, Good(p), NEW m, Plausible(p, m), NEW r, r = Make(p, m),
         NEW c \in Colors, NEW right \in {KingSide(c), QueenSide(c)},
         RookHome(p, c, right), ~TakesCorner(p, m, c, right)
  PROVE  /\ right \in r.castling_rights <=> right \in p.castling_rights /\ ~LeavesCorner(p, m, c, right)
         /\ RookHome(r, c, right)
  <1>0. PICK corner : corner = Corner(c, right)
    OBVIOUS
  <1>1. r.castling_rights = p.castling_rights \ Forgotten(m, p.turn) /\ Replaces(p, m, r.pieces)
    BY MakeIs
  <1>2. /\ p.turn \in Colors /\ m.from \in p.pieces[p.turn][m.piece] /\ m.piece \in PieceKinds
        /\ m.from \in Squares /\ m.to \in Squares /\ Disjoint(p.pieces) /\ "rook" \in PieceKinds
    BY MoveIs DEF Good, Plausible, Own, PieceKinds
  <1>3. corner \in Squares
    BY <1>0, Corners DEF Corner, KingRook, QueenRook, Squares
  <1>4. /\ KingSide(c) # QueenSide(c)
        /\ \A d \in Colors : right \in {KingSide(d), QueenSide(d)} => d = c
    BY DEF KingSide, QueenSide, Colors
  <1>5. ASSUME right \in p.castling_rights PROVE right \in Forgotten(m, p.turn) <=> LeavesCorner(p, m, c, right)
    <2>1. corner \in p.pieces[c]["rook"]
      BY <1>0, <1>5 DEF RookHome
    <2>2. CASE p.turn # c
      <3>1. right \notin {KingSide(p.turn), QueenSide(p.turn)}
        BY <1>2, <1>4, <2>2
      <3> QED BY <2>2, <3>1 DEF Forgotten, LeavesCorner
    <2>3. CASE p.turn = c
      <3>1. m.from = corner => m.piece = "rook"
        BY <1>2, <1>3, <2>1, <2>3 DEF Disjoint
      <3>2. right = KingSide(c) => corner = KingRook(c)
        BY <1>0 DEF Corner
      <3>3. right = QueenSide(c) => corner = QueenRook(c)
        BY <1>0, <1>4 DEF Corner
      <3>4. CASE right = KingSide(c)
        BY <1>0, <1>4, <2>3, <3>1, <3>2, <3>4 DEF Forgotten, LeavesCorner, LosesKingSide, LosesQueenSide
      <3>5. CASE right = QueenSide(c)
        BY <1>0, <1>4, <2>3, <3>1, <3>3, <3>5 DEF Forgotten, LeavesCorner, LosesKingSide, LosesQueenSide
      <3> QED BY <3>4, <3>5
    <2> QED BY <2>2, <2>3
  <1>6. ASSUME right \in r.castling_rights PROVE corner \in r.pieces[c]["rook"]
    <2>1. right \in p.castling_rights /\ ~LeavesCorner(p, m, c, right)
      BY <1>1, <1>5, <1>6
    <2>2. corner \in p.pieces[c]["rook"]
      BY <1>0, <2>1 DEF RookHome
    <2>3. ~(Is(m, "CASTLE_KING_SIDE") /\ c = p.turn) /\ ~(Is(m, "CASTLE_QUEEN_SIDE") /\ c = p.turn)
      BY <2>1 DEF LeavesCorner, Plausible, CastlesAllowed, CastlesTo
    <2>4. ~(c = p.turn /\ corner = m.from) /\ ~(c = OPP(p.turn) /\ corner = m.to)
      BY <1>0, <1>2, <2>1, OppIs DEF LeavesCorner, TakesCorner
    <2>5. ~Lifted(p, m, c, "rook", corner)
      BY <2>3, <2>4 DEF Lifted
    <2> QED BY <1>1, <1>2, <1>3, <2>2, <2>5 DEF Replaces
  <1> QED BY <1>0, <1>1, <1>5, <1>6 DEF RookHome

(* What Lawful, Settled and the rights read of a position is what Visible   *)
(* shows of it.                                                             *)
Shows(p, v) ==
  /\ v.turn = p.turn /\ v.pieces = p.pieces /\ v.occupied_sqs = p.occupied_sqs
  /\ v.en_passant_sq = p.en_passant_sq /\ v.en_passant_target = p.en_passant_target
  /\ v.castling_rights = p.castling_rights

(* Visible shows it.                                                        *)
LEMMA VisibleShows ==
  ASSUME NEW p, Good(p)
  PROVE  Shows(p, Visible(p))
  <1>1. PICK M : M = [s \in p.occupied_sqs |-> p.mailbox[s]]
    OBVIOUS
  <1>2. Visible(p) = [p EXCEPT !.mailbox = M]
    BY <1>1 DEF Visible
  <1>3. Record(p)
    BY DEF Good, Raw
  <1> QED BY <1>2, <1>3 DEF Shows, Record

(* Positions that show the same are lawful and settled alike.               *)
LEMMA ShownAlike ==
  ASSUME NEW p, NEW v, Shows(p, v)
  PROVE  /\ Lawful(p) <=> Lawful(v)
         /\ \A ep : Settled(p, ep) <=> Settled(v, ep)
  <1>1. /\ v.turn = p.turn /\ v.pieces = p.pieces /\ v.occupied_sqs = p.occupied_sqs
        /\ v.en_passant_sq = p.en_passant_sq /\ v.en_passant_target = p.en_passant_target
    BY DEF Shows
  <1>2. (\A k : Own(p, k) = Own(v, k) /\ Enemy(p, k) = Enemy(v, k)) /\ KingSquare(p) = KingSquare(v)
    BY <1>1 DEF Own, Enemy, KingSquare
  <1>3. \A t : Before(p, t) = Before(v, t)
    BY <1>1 DEF Before, Origin
  <1>4. \A k, s : LeapsAtKing(p, k, s) <=> LeapsAtKing(v, k, s)
    BY <1>1, <1>2 DEF LeapsAtKing
  <1>5. Lawful(p) <=> Lawful(v)
    BY <1>1, <1>3, <1>4 DEF Lawful
  <1>6. RookQueen(p) = RookQueen(v)
    BY <1>2 DEF RookQueen
  <1>7. \A T, s, u : Uncovers(p, T, s, u) <=> Uncovers(v, T, s, u)
    BY <1>1, <1>2 DEF Uncovers
  <1>8. \A t, T : Exposed(p, t, T) <=> Exposed(v, t, T)
    BY <1>1, <1>2, <1>6, <1>7 DEF Exposed
  <1>9. \A t, T : Passed(p, t, T) <=> Passed(v, t, T)
    BY <1>1, <1>2, <1>8 DEF Passed
  <1>10. \A ep : Settled(p, ep) <=> Settled(v, ep)
    BY <1>1, <1>9 DEF Settled
  <1> QED BY <1>5, <1>10

-----------------------------------------------------------------------------
(* The moves among the first i of the stack that took the king or the rook  *)
(* away, and those that took what stood in the corner.                      *)
MovedBy(i, c, right) == \E j \in 1 .. i : LeavesCorner(seen[j], line[j], c, right)
TakenBy(i, c, right) == \E j \in 1 .. i : TakesCorner(seen[j], line[j], c, right)

(* The rights Make kept are those of the rules, but for a corner whose      *)
(* piece was taken.                                                         *)
RightsHold(i) ==
  \A c \in Colors : \A right \in {KingSide(c), QueenSide(c)} :
    ~TakenBy(i, c, right) =>
      /\ right \in After(i).castling_rights <=>
           right \in After(0).castling_rights /\ ~MovedBy(i, c, right)
      /\ RookHome(After(i), c, right)

(* The en passant square of the rules after i moves.                        *)
Known(i) == IF i = 0 THEN After(0).en_passant_sq ELSE Passing(line[i])

(* After i moves of the stack the position is lawful and keeps the en       *)
(* passant square and the rights of the rules.                              *)
Sound(i) == Lawful(After(i)) /\ Settled(After(i), Known(i)) /\ RightsHold(i)

(* The inductive invariant of legality: all positions of the game are sound.*)
LInv == IInv /\ \A i \in 0 .. Len(line) : Sound(i)

(* The position is what was seen after the last move.                       *)
LEMMA AfterLast ==
  ASSUME IInv, NEW n, n = Len(line)
  PROVE  n \in Nat /\ After(n) = Visible(pos) /\ Shows(pos, After(n))
  <1>1. n \in Nat /\ After(n) = Visible(pos)
    BY DEF IInv, Stacks, After
  <1> QED BY <1>1, VisibleShows DEF IInv

(* A position read from a FEN remembers the en passant square of the FEN,   *)
(* or dropped it for the king the capture would uncover.                    *)
LEMMA InitSettled ==
  ASSUME NEW fen, Denotes(fen), NEW r, r = FromFen(fen)
  PROVE  Settled(r, r.en_passant_sq)
  <1>1. Good(r)
    BY InitGood
  <1>2. OnBoard(fen) /\ ReadTurn(fen) = fen.turn
    BY DEF Denotes, OnBoard
  <1>3. /\ r.turn = fen.turn /\ Derived(r) /\ r.turn \in Colors
        /\ r.en_passant_sq \in {fen.en_passant, {}} /\ r.en_passant_target = Target(fen.en_passant)
    BY <1>1, <1>2, FromFenIs DEF Good
  <1>4. CASE r.en_passant_sq = {}
    BY <1>4 DEF Settled
  <1>5. CASE r.en_passant_sq # {}
    <2>1. PICK s : s \in fen.en_passant
      BY <1>3, <1>5
    <2>2. /\ fen.en_passant = {s} /\ s \in OnRank(IF fen.turn = "white" THEN 5 ELSE 2)
      BY <2>1 DEF Denotes
    <2>3. r.en_passant_sq = {s}
      BY <1>3, <1>5, <2>2
    <2>4. PICK T, F : F = Forward(r.turn) /\ T = s - 8 * F
      OBVIOUS
    <2>5. r.en_passant_target = {T} /\ s \in Squares
      BY <1>3, <2>2, <2>4, TargetBehind
    <2>6. s \notin r.occupied_sqs /\ T \in Enemy(r, "pawn") /\ T \in Squares
      <3>1. PICK x \in Squares : x \notin r.occupied_sqs /\ r.en_passant_sq \in {{x}, {}}
                                 /\ r.en_passant_target = {x - 8 * Forward(r.turn)}
                                 /\ x - 8 * Forward(r.turn) \in Enemy(r, "pawn")
        BY <1>1, <1>5 DEF Good, JustPassed
      <3>2. x = s
        BY <2>3, <3>1
      <3>3. Enemy(r, "pawn") \subseteq Squares
        BY <1>1, PiecesAre DEF PieceKinds
      <3> QED BY <2>4, <3>1, <3>2, <3>3
    <2>7. Rank(s) = IF r.turn = "white" THEN 5 ELSE 2
      <3>1. PICK rank : rank = IF r.turn = "white" THEN 5 ELSE 2
        OBVIOUS
      <3>2. s \in OnRank(rank) /\ rank \in 0 .. 7
        BY <1>3, <2>2, <3>1
      <3> QED BY <3>1, <3>2, OnRankIs
    <2>8. Ahead(r.turn, T, s)
      <3>1. PICK rs, fs, rt, ft : rs = Rank(s) /\ fs = File(s) /\ rt = Rank(T) /\ ft = File(T)
        OBVIOUS
      <3>2. s = 8 * rs + fs /\ T = 8 * rt + ft /\ rs \in 0 .. 7 /\ fs \in 0 .. 7 /\ rt \in 0 .. 7 /\ ft \in 0 .. 7
        BY <2>5, <2>6, <3>1, SquareIs
      <3>3. F \in {1, -1}
        BY <1>3, <2>4, ForwardIs
      <3>4. 8 * rt + ft = 8 * rs + fs - 8 * F
        BY <2>4, <3>2, <3>3
      <3>5. ft = fs /\ rs = rt + F
        <4>1. CASE F = 1
          BY <3>2, <3>4, <4>1
        <4>2. CASE F = -1
          BY <3>2, <3>4, <4>2
        <4> QED BY <3>3, <4>1, <4>2
      <3> QED BY <2>4, <3>1, <3>5 DEF Ahead
    <2>9. ~Exposed(r, s, T)
      <3>1. ~Exposes(r, {T})
        BY <1>3, <1>5, <2>5 DEF Derived
      <3> QED BY <1>1, <2>3, <2>5, <2>6, <2>8, <3>1, ExposesIs
    <2>10. Passed(r, s, T)
      BY <2>3, <2>5, <2>6, <2>7, <2>8, <2>9 DEF Passed
    <2> QED BY <2>3, <2>10 DEF Settled
  <1> QED BY <1>4, <1>5

(* The positions games start from are sound.                                *)
LEMMA InitLegal == Init => LInv
  <1> SUFFICES ASSUME Init PROVE LInv
    OBVIOUS
  <1>1. IInv /\ Len(line) = 0
    BY InitInv DEF Init
  <1>2. PICK fen \in Starts : pos = FromFen(fen)
    BY DEF Init
  <1>3. Denotes(fen) /\ Lawful(pos) /\ RooksHome(pos)
    BY <1>2, GameAssumption, StartsLawful
  <1>4. Shows(pos, After(0))
    BY <1>1, AfterLast
  <1>5. Settled(pos, pos.en_passant_sq)
    BY <1>2, <1>3, InitSettled
  <1>6. Lawful(After(0)) /\ Settled(After(0), Known(0))
    <2>1. Known(0) = pos.en_passant_sq
      BY <1>4 DEF Known, Shows
    <2> QED BY <1>3, <1>4, <1>5, <2>1, ShownAlike
  <1>7. RightsHold(0)
    <2>1. \A c, right : ~MovedBy(0, c, right)
      BY DEF MovedBy
    <2>2. \A c \in Colors : \A right \in {KingSide(c), QueenSide(c)} : RookHome(After(0), c, right)
      BY <1>3, <1>4 DEF RooksHome, RookHome, Shows, Corner
    <2> QED BY <2>1, <2>2 DEF RightsHold
  <1>8. \A i \in 0 .. Len(line) : i = 0
    BY <1>1
  <1> QED BY <1>1, <1>6, <1>7, <1>8 DEF LInv, Sound

(* What Make of a move does to the stack.                                   *)
Stacked(m) ==
  /\ Len(line') = Len(line) + 1
  /\ line'[Len(line) + 1] = m /\ seen'[Len(line) + 1] = Visible(pos)
  /\ \A i \in 1 .. Len(line) : line'[i] = line[i] /\ seen'[i] = seen[i]

(* MakeMove puts the move and the position it was made in on the stack.     *)
LEMMA MakePushes ==
  ASSUME IInv, NEW m, MakeMove(m)
  PROVE  Stacked(m)
  <1>1. /\ line \in Seq(Moves) /\ Len(seen) = Len(line)
        /\ line' = Append(line, m) /\ seen' = Append(seen, Visible(pos))
    BY DEF IInv, Stacks, MakeMove
  <1>2. PICK V : seen \in Seq(V)
    BY DEF IInv, Stacks
  <1>3. Len(line') = Len(line) + 1 /\ line'[Len(line) + 1] = m /\ \A i \in 1 .. Len(line) : line'[i] = line[i]
    BY <1>1, Pushed
  <1>4. seen'[Len(line) + 1] = Visible(pos) /\ \A i \in 1 .. Len(line) : seen'[i] = seen[i]
    BY <1>1, <1>2, Pushed
  <1> QED BY <1>3, <1>4 DEF Stacked

(* What is below the top of two stacks is the same.                         *)
SameBelow(n) ==
  /\ \A i \in 1 .. n : line'[i] = line[i] /\ seen'[i] = seen[i]
  /\ \A i \in 0 .. n : After(i)' = After(i)

(* A position stays sound while the stack below it stays as it is.          *)
LEMMA SoundStays ==
  ASSUME NEW n \in Nat, SameBelow(n), NEW i \in 0 .. n, Sound(i)
  PROVE  Sound(i)'
  <1>1. After(i)' = After(i) /\ After(0)' = After(0)
    BY DEF SameBelow
  <1>2. \A j \in 1 .. i : line'[j] = line[j] /\ seen'[j] = seen[j]
    BY DEF SameBelow
  <1>3. Known(i)' = Known(i)
    BY <1>1, <1>2 DEF Known
  <1>4. ASSUME NEW c, NEW right
        PROVE  (MovedBy(i, c, right)' <=> MovedBy(i, c, right)) /\ (TakenBy(i, c, right)' <=> TakenBy(i, c, right))
    BY <1>2 DEF MovedBy, TakenBy
  <1>5. RightsHold(i)'
    BY <1>1, <1>4 DEF Sound, RightsHold
  <1> QED BY <1>1, <1>3, <1>5 DEF Sound

(* Make of a listed move keeps the game sound.                              *)
LEMMA MakeLegal ==
  ASSUME LInv, NEW m \in GenerateMoves(pos), MakeMove(m)
  PROVE  LInv'
  <1>1. IInv /\ IInv'
    BY MakeInv DEF LInv
  <1>2. PICK n : n = Len(line)
    OBVIOUS
  <1>3. /\ n \in Nat /\ After(n) = Visible(pos) /\ Shows(pos, After(n)) /\ Sound(n)
        /\ Len(line') = n + 1 /\ line'[n + 1] = m /\ seen'[n + 1] = Visible(pos)
        /\ \A i \in 1 .. n : line'[i] = line[i] /\ seen'[i] = seen[i]
    <2>1. n \in Nat /\ After(n) = Visible(pos) /\ Shows(pos, After(n))
      BY <1>1, <1>2, AfterLast
    <2>2. Sound(n)
      BY <1>2, <2>1 DEF LInv
    <2>3. Stacked(m)
      BY <1>1, MakePushes
    <2> QED BY <1>2, <2>1, <2>2, <2>3 DEF Stacked
  <1>4. PICK p, r : p = pos /\ r = Make(pos, m)
    OBVIOUS
  <1>5. /\ Good(p) /\ Lawful(p) /\ Settled(p, Known(n)) /\ m \in GenerateMoves(p)
        /\ Good(r) /\ Plausible(p, m) /\ r = Make(p, m)
    <2>1. Good(p) /\ Lawful(p) /\ Settled(p, Known(n))
      BY <1>1, <1>3, <1>4, ShownAlike DEF IInv, Sound
    <2> QED BY <1>4, <2>1, Generated, MakeGood
  <1>6. After(n + 1)' = Visible(r) /\ Shows(r, After(n + 1)')
    <2>1. After(n + 1)' = Visible(pos')
      BY <1>3 DEF After, Visible
    <2> QED BY <1>4, <1>5, <2>1, VisibleShows DEF MakeMove
  <1>7. SameBelow(n)
    <2>1. ASSUME NEW i \in 0 .. n PROVE After(i)' = After(i)
      <3>1. CASE i = n
        <4>1. After(i)' = seen'[n + 1]
          BY <1>3, <3>1 DEF After
        <4> QED BY <1>3, <3>1, <4>1
      <3>2. CASE i # n
        <4>1. After(i) = seen[i + 1] /\ After(i)' = seen'[i + 1] /\ i + 1 \in 1 .. n
          BY <1>2, <1>3, <3>2 DEF After
        <4> QED BY <1>3, <4>1
      <3> QED BY <3>1, <3>2
    <2> QED BY <1>3, <2>1 DEF SameBelow
  <1>8. ASSUME NEW i \in 0 .. n PROVE Sound(i)'
    <2>1. Sound(i)
      BY <1>2 DEF LInv
    <2> QED BY <1>3, <1>7, <2>1, SoundStays
  <1>9. Lawful(After(n + 1)') /\ Settled(After(n + 1)', Known(n + 1)')
    <2>1. Known(n + 1)' = Passing(m)
      BY <1>3 DEF Known
    <2>2. Lawful(r)
      BY <1>5, MakeLawful
    <2>3. Settled(r, Passing(m))
      BY <1>5, MakeSettled
    <2> QED BY <1>6, <2>1, <2>2, <2>3, ShownAlike
  <1>10. RightsHold(n + 1)'
    <2> SUFFICES ASSUME NEW c \in Colors, NEW right \in {KingSide(c), QueenSide(c)}, ~TakenBy(n + 1, c, right)'
                 PROVE  /\ right \in After(n + 1)'.castling_rights <=>
                             right \in After(0)'.castling_rights /\ ~MovedBy(n + 1, c, right)'
                        /\ RookHome(After(n + 1)', c, right)
      BY DEF RightsHold
    <2>1. \A j : j \in 1 .. n + 1 <=> j \in 1 .. n \/ j = n + 1
      BY <1>3
    <2>2. /\ LeavesCorner(Visible(p), m, c, right) <=> LeavesCorner(p, m, c, right)
          /\ TakesCorner(Visible(p), m, c, right) <=> TakesCorner(p, m, c, right)
      BY <1>5, VisibleShows DEF Shows, LeavesCorner, TakesCorner
    <2>3. /\ MovedBy(n + 1, c, right)' <=> MovedBy(n, c, right) \/ LeavesCorner(p, m, c, right)
          /\ TakenBy(n + 1, c, right)' <=> TakenBy(n, c, right) \/ TakesCorner(p, m, c, right)
      BY <1>3, <1>4, <2>1, <2>2 DEF MovedBy, TakenBy
    <2>4. /\ right \in After(n).castling_rights <=>
               right \in After(0).castling_rights /\ ~MovedBy(n, c, right)
          /\ RookHome(After(n), c, right)
      BY <1>3, <2>3 DEF Sound, RightsHold
    <2>5. p.castling_rights = After(n).castling_rights /\ RookHome(p, c, right)
      BY <1>3, <1>4, <2>4 DEF Shows, RookHome
    <2>6. /\ right \in r.castling_rights <=> right \in p.castling_rights /\ ~LeavesCorner(p, m, c, right)
          /\ RookHome(r, c, right)
      BY <1>5, <2>3, <2>5, RightsStep
    <2>7. After(n + 1)'.castling_rights = r.castling_rights /\ RookHome(After(n + 1)', c, right)
      BY <1>6, <2>6 DEF Shows, RookHome
    <2>8. After(0)' = After(0)
      BY <1>3, <1>7 DEF SameBelow
    <2> QED BY <2>3, <2>4, <2>5, <2>6, <2>7, <2>8
  <1>11. Sound(n + 1)'
    BY <1>9, <1>10 DEF Sound
  <1>12. \A i \in 0 .. Len(line') : i \in 0 .. n \/ i = n + 1
    BY <1>3
  <1> QED BY <1>1, <1>8, <1>11, <1>12 DEF LInv

(* Undo goes back to a sound position.                                      *)
LEMMA UndoLegal ==
  ASSUME LInv, UndoMove
  PROVE  LInv'
  <1>1. IInv /\ IInv' /\ Visible(pos') = seen[Len(line)] /\ Len(line') = Len(line) - 1
    BY UndoInv DEF LInv
  <1>2. PICK n : n = Len(line) - 1
    OBVIOUS
  <1>3. /\ line \in Seq(Moves) /\ line # <<>> /\ Len(seen) = Len(line)
        /\ line' = Front(line) /\ seen' = Front(seen)
    BY <1>1 DEF IInv, Stacks, UndoMove
  <1>4. PICK V : seen \in Seq(V)
    BY <1>1 DEF IInv, Stacks
  <1>5. n \in Nat /\ Len(line) = n + 1 /\ Len(line') = n /\ \A i \in 1 .. n : line'[i] = line[i]
    BY <1>1, <1>2, <1>3, Popped
  <1>6. \A i \in 1 .. n : seen'[i] = seen[i]
    <2>1. seen # <<>>
      BY <1>3, <1>5
    <2>2. Len(seen') = n
      BY <1>3, <1>4, <1>5, <2>1, Popped
    <2> QED BY <1>3, <1>4, <2>1, <2>2, Popped
  <1>7. SameBelow(n)
    <2>1. ASSUME NEW i \in 0 .. n PROVE After(i)' = After(i)
      <3>1. After(i) = seen[i + 1]
        BY <1>5 DEF After
      <3>2. CASE i = n
        <4>1. After(i)' = Visible(pos)'
          BY <1>5, <3>2 DEF After
        <4> QED BY <1>1, <1>5, <3>1, <3>2, <4>1
      <3>3. CASE i # n
        <4>1. After(i)' = seen'[i + 1] /\ i + 1 \in 1 .. n
          BY <1>5, <3>3 DEF After
        <4> QED BY <1>6, <3>1, <4>1
      <3> QED BY <3>2, <3>3
    <2> QED BY <1>5, <1>6, <2>1 DEF SameBelow
  <1>8. ASSUME NEW i \in 0 .. Len(line') PROVE Sound(i)'
    <2>1. Sound(i)
      BY <1>5 DEF LInv
    <2> QED BY <1>5, <1>7, <2>1, SoundStays
  <1> QED BY <1>1, <1>8 DEF LInv

(* Every position of every game is lawful and keeps the en passant square   *)
(* and, but for captured rooks, the rights of the rules.                    *)
THEOREM Lasting == Spec => []LInv
  <1>1. ASSUME LInv, [Next]_vars PROVE LInv'
    <2>1. CASE UndoMove
      BY <1>1, <2>1, UndoLegal
    <2>2. ASSUME NEW m \in GenerateMoves(pos), MakeMove(m) PROVE LInv'
      BY <1>1, <2>2, MakeLegal
    <2>3. CASE UNCHANGED vars
      <3>1. IInv'
        BY <1>1, NextInv DEF LInv
      <3>2. pos' = pos /\ line' = line /\ seen' = seen
        BY <2>3 DEF vars
      <3>3. PICK n : n = Len(line) /\ n \in Nat
        BY <1>1 DEF LInv, IInv, Stacks
      <3>4. SameBelow(n)
        BY <3>2 DEF SameBelow, After, Visible
      <3>5. ASSUME NEW i \in 0 .. n PROVE Sound(i)'
        BY <1>1, <3>3, <3>4, SoundStays DEF LInv
      <3> QED BY <3>1, <3>2, <3>3, <3>5 DEF LInv
    <2> QED BY <1>1, <2>1, <2>2, <2>3 DEF Next
  <1> QED BY <1>1, InitLegal, PTL DEF Spec

-----------------------------------------------------------------------------
(* The rights of the rules are those of the position with their rook in the *)
(* corner, and a listed castling move has one unless it lapsed.             *)
LEMMA RulesRightsAre ==
  ASSUME LInv
  PROVE  /\ RightsFit(pos, RulesRights)
         /\ \A m \in GenerateMoves(pos) : Granted(pos, RulesRights, m) <=> ~Lapsed(m)
  <1>1. PICK n, c : n = Len(line) /\ c = pos.turn
    OBVIOUS
  <1>2. /\ n \in Nat /\ Good(pos) /\ Shows(pos, After(n)) /\ Sound(n) /\ Sound(0)
        /\ Plies = 1 .. n /\ c \in Colors
    <2>1. n \in Nat /\ Shows(pos, After(n))
      BY <1>1, AfterLast DEF LInv
    <2>2. Plies = 1 .. n
      BY <1>1 DEF LInv, IInv, Stacks, Plies
    <2> QED BY <1>1, <2>1, <2>2 DEF LInv, IInv, Good
  <1>3. Start.castling_rights = After(0).castling_rights
    <2>1. Len(seen) = n /\ \E S : seen \in Seq(S)
      BY <1>1 DEF LInv, IInv, Stacks
    <2>2. Start = After(0)
      BY <1>1, <1>2, <2>1 DEF Start, After
    <2> QED BY <2>2
  <1>4. ASSUME NEW d, NEW right
        PROVE  (MovedAway(d, right) <=> MovedBy(n, d, right)) /\ (Taken(d, right) <=> TakenBy(n, d, right))
    BY <1>2 DEF MovedAway, Taken, MovedBy, TakenBy, LeavesCorner, TakesCorner, Mover
  <1>5. ASSUME NEW right \in {KingSide(c), QueenSide(c)}
        PROVE  /\ right \in RulesRights <=> right \in pos.castling_rights /\ ~Taken(c, right)
               /\ right \in RulesRights => Corner(c, right) \in Own(pos, "rook")
    <2>1. \A d \in Colors : right \in {KingSide(d), QueenSide(d)} => d = c
      BY <1>2 DEF KingSide, QueenSide, Colors
    <2>2. right \in RulesRights <=>
            right \in After(0).castling_rights /\ ~MovedBy(n, c, right) /\ ~TakenBy(n, c, right)
      BY <1>2, <1>3, <1>4, <2>1 DEF RulesRights
    <2>3. ~TakenBy(n, c, right) =>
            /\ right \in After(n).castling_rights <=>
                 right \in After(0).castling_rights /\ ~MovedBy(n, c, right)
            /\ RookHome(After(n), c, right)
      BY <1>2 DEF Sound, RightsHold
    <2>4. /\ After(n).castling_rights = pos.castling_rights
          /\ RookHome(After(n), c, right) => RookHome(pos, c, right)
      BY <1>2 DEF Shows, RookHome
    <2>5. right \in RulesRights <=> right \in pos.castling_rights /\ ~Taken(c, right)
      BY <1>4, <2>2, <2>3, <2>4
    <2>6. right \in RulesRights => Corner(c, right) \in Own(pos, "rook")
      BY <1>1, <2>2, <2>3, <2>4, <2>5 DEF RookHome, Own
    <2> QED BY <2>5, <2>6
  <1>6. Corner(c, KingSide(c)) = KingRook(c) /\ Corner(c, QueenSide(c)) = QueenRook(c)
    BY DEF Corner, KingSide, QueenSide
  <1>7. RightsFit(pos, RulesRights)
    BY <1>1, <1>5, <1>6 DEF RightsFit
  <1>8. ASSUME NEW m \in GenerateMoves(pos) PROVE Granted(pos, RulesRights, m) <=> ~Lapsed(m)
    <2>1. Plausible(pos, m)
      BY <1>2, Generated
    <2>2. /\ Is(m, "CASTLE_KING_SIDE") => KingSide(c) \in pos.castling_rights
          /\ Is(m, "CASTLE_QUEEN_SIDE") => QueenSide(c) \in pos.castling_rights
      BY <1>1, <2>1 DEF Plausible, CastlesAllowed, CastlesTo
    <2> QED BY <1>1, <1>5, <2>2 DEF Granted, Lapsed
  <1> QED BY <1>7, <1>8

(* GenerateMoves returns exactly the moves the rules allow in every         *)
(* position of every game of Make and Undo, from whatever lawful start,     *)
(* with the rights and the en passant square the rules derive from the      *)
(* moves of the game (move_gen.cpp, position.cpp); but for castling with a  *)
(* rook that came to the corner after the one there was taken.              *)
THEOREM Legal == Spec => []MovesLegal
  <1>1. ASSUME LInv PROVE MovesLegal
    <2>1. PICK n : n = Len(line)
      OBVIOUS
    <2>2. n \in Nat /\ Good(pos) /\ Shows(pos, After(n)) /\ Sound(n)
      <3>1. n \in Nat /\ Shows(pos, After(n))
        BY <1>1, <2>1, AfterLast DEF LInv
      <3> QED BY <1>1, <2>1, <3>1 DEF LInv, IInv
    <2>3. Lawful(pos) /\ Settled(pos, Known(n))
      BY <2>2, ShownAlike DEF Sound
    <2>4. Known(n) = RulesEnPassant
      <3>1. line \in Seq(Moves) /\ Len(seen) = n /\ (\E S : seen \in Seq(S))
        BY <1>1, <2>1 DEF LInv, IInv, Stacks
      <3>2. CASE n = 0
        <4>0. ASSUME NEW S, NEW s \in Seq(S), Len(s) = 0 PROVE s = <<>>
          BY <4>0
        <4>1. line = <<>> /\ seen = <<>>
          <5>1. line = <<>>
            BY <2>1, <3>1, <3>2, <4>0
          <5>2. PICK S : seen \in Seq(S)
            BY <3>1
          <5> QED BY <3>1, <3>2, <4>0, <5>1, <5>2
        <4>2. After(0) = Visible(pos)
          BY <2>1, <3>2 DEF After
        <4>3. Known(0) = Visible(pos).en_passant_sq
          BY <4>2 DEF Known
        <4> QED BY <3>2, <4>1, <4>3 DEF RulesEnPassant, Start
      <3>3. CASE n # 0
        <4>1. line # <<>>
          BY <2>1, <3>3
        <4> QED BY <2>1, <3>3, <4>1 DEF Known, RulesEnPassant, Passing
      <3> QED BY <3>2, <3>3
    <2>5. PICK rights, ep : rights = RulesRights /\ ep = RulesEnPassant
      OBVIOUS
    <2>6. /\ RightsFit(pos, rights) /\ Settled(pos, ep)
          /\ \A m \in GenerateMoves(pos) : Granted(pos, rights, m) <=> ~Lapsed(m)
      BY <1>1, <2>3, <2>4, <2>5, RulesRightsAre
    <2>7. ASSUME NEW m PROVE m \in GenerateMoves(pos) /\ Granted(pos, rights, m) <=> m \in RulesMoves(pos, rights, ep)
      BY <2>2, <2>3, <2>6, MovesExact
    <2>8. \A m : m \in RulesMoves(pos, rights, ep) <=> m \in GenerateMoves(pos) /\ ~Lapsed(m)
      BY <2>6, <2>7
    <2> QED BY <2>5, <2>8 DEF MovesLegal
  <1> QED BY <1>1, Lasting, PTL
=============================================================================
