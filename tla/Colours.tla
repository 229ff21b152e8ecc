------------------------------ MODULE Colours ------------------------------
(***************************************************************************)
(* The evaluation on the positions of a game.                               *)
(***************************************************************************)
EXTENDS Game, Evaluation

(* The position with the colours, and with them the ends of the board, the  *)
(* other way round.                                                         *)
Swapped(p) ==
  LET flip(bb) == { 8 * (7 - Rank(s)) + File(s) : s \in bb }
  IN [p EXCEPT !.turn = OPP(@), !.occupied_sqs = flip(@),
               !.pieces = [c \in Colors |-> [k \in PieceKinds |-> flip(p.pieces[OPP(c)][k])]]]

(* The terms written once for each side say the same of both: with the       *)
(* colours swapped they change their sign.  Not the pawn structure, whose    *)
(* loops run up the board for one side and down it for the other, and not    *)
(* the passed pawns, whose bonus counts ranks from 1 and from 8.             *)
ColoursAlike ==
  LET q == Swapped(pos)
  IN /\ EvalMaterials(q) = Minus(EvalMaterials(pos))
     /\ EvalPieces(q) = Minus(EvalPieces(pos))
     /\ EvalKingPosition(q) = -EvalKingPosition(pos)
=============================================================================
