------------------------------ MODULE AlphaBeta ------------------------------
(***************************************************************************)
(* The sequential search (search.cpp with node splitting off): iterative    *)
(* deepening over a principal variation search with null windows, re-       *)
(* searches and a quiescence search at the leaves, with the transposition   *)
(* table it consults at every node.  A position is a node of a finite game; *)
(* its static evaluations are chosen in Init.  The definitions are          *)
(* recursive, so this module is for TLC only.                               *)
(***************************************************************************)
EXTENDS Integers, Sequences, FiniteSets

CONSTANTS
  Positions, Root,
  Replies,     \* the moves of each position, as generated: [to, capture]
  Evals,       \* what the static evaluation may return
  MaxScore,    \* MAX_SCORE; MIN_SCORE is its negation
  MaxDepth,    \* MAX_DEPTH of the iterative deepening
  Remembered   \* positions whose table entry nothing else overwrites

ASSUME GameAssumption ==
  /\ Root \in Positions /\ Remembered \subseteq Positions
  /\ DOMAIN Replies = Positions /\ MaxDepth \in Nat
  /\ \A e \in Evals : -MaxScore < e /\ e < MaxScore

VARIABLES
  eval,   \* what Evaluate returns at each position, taken for the side to move
  depth,  \* Search::depth_, the iterations done
  tt,     \* the transposition table
  score   \* what the last iteration returned

vars == <<eval, depth, tt, score>>

Higher(a, b) == IF a > b THEN a ELSE b
MinScore == -MaxScore

-----------------------------------------------------------------------------
(* The transposition table, without collisions between the remembered       *)
(* positions (TranspositionTable models slots, ages and locks).             *)

Missing == [depth |-> -1, score |-> 0, node |-> "NONE"]

Add(table, p, d, s, type) ==
  IF p \notin Remembered \/ table[p].depth > d THEN table
  ELSE [table EXCEPT ![p] = [depth |-> d, score |-> s, node |-> type]]

(* TT::CutOff: a deep enough entry's score is copied into node.best_score,  *)
(* whether or not it then cuts.                                             *)
CutOff(table, p, d, alpha, beta) ==
  LET entry == table[p]
  IN IF entry.depth < d THEN [cut |-> FALSE, score |-> MinScore]
     ELSE [cut |-> \/ entry.node = "PV"
                   \/ entry.node = "CUT" /\ entry.score >= beta
                   \/ entry.node = "ALL" /\ entry.score < alpha,
           score |-> entry.score]

-----------------------------------------------------------------------------
(* Captures first; the order by piece value within a class is not modelled. *)
OrderMoves(moves) ==
  SelectSeq(moves, LAMBDA m : m.capture) \o SelectSeq(moves, LAMBDA m : ~m.capture)

RECURSIVE Quiesce(_, _, _), TryCaptures(_, _, _, _, _)

(* Search::Quiesce: stand pat, then the captures.                           *)
Quiesce(p, alpha, beta) ==
  IF eval[p] >= beta THEN eval[p]
  ELSE TryCaptures(p, OrderMoves(Replies[p]), eval[p], Higher(alpha, eval[p]), beta)

TryCaptures(p, moves, best, alpha, beta) ==
  IF moves = <<>> \/ ~Head(moves).capture THEN best
  ELSE LET s == -Quiesce(Head(moves).to, -beta, -alpha)
       IN IF s >= beta THEN s
          ELSE TryCaptures(p, Tail(moves), Higher(best, s), Higher(alpha, s), beta)

-----------------------------------------------------------------------------
(* The template argument of the null-window searches below a node of type T. *)
NNT(T) == IF T = "CUT" THEN "ALL" ELSE "CUT"

(* Bug: a null-window score on the edge of the window is not re-searched.   *)
InWindowShort(alpha, s, beta) == alpha + 1 < s /\ s < beta
InWindow(alpha, s, beta) == alpha < s /\ s < beta

(* Node::Update.                                                            *)
Update(node, s) ==
  IF s > node.best
  THEN [node EXCEPT !.best = s, !.alpha = Higher(node.alpha, s)]
  ELSE node

RECURSIVE SearchNode(_, _, _, _, _, _), NextMoves(_, _, _, _, _)

(* Bug: the null window is above alpha + 1.                                 *)
NullWindowHigh(T, p, alpha, d, table) == SearchNode(T, p, -alpha - 2, -alpha - 1, d, table)

(* NW_Search, which is only called with the state RUNNING here.             *)
NullWindow(T, p, alpha, d, table) == SearchNode(T, p, -alpha - 1, -alpha, d, table)

FirstMove(T, p, node, beta, d) ==
  LET r == IF T = "PV" THEN SearchNode(T, p, -beta, -node.alpha, d, node.tt)
                       ELSE NullWindow(NNT(T), p, node.alpha, d, node.tt)
  IN Update([node EXCEPT !.tt = r.tt], -r.score)

(* The loop over NextMove: a null-window search, and the re-search.         *)
NextMoves(T, moves, node, beta, d) ==
  IF moves = <<>> \/ node.alpha >= beta THEN node
  ELSE LET p == Head(moves).to
           nw == NullWindow(NNT(T), p, node.alpha, d, node.tt)
           r == IF InWindow(node.alpha, -nw.score, beta)
                THEN SearchNode("PV", p, -beta, -node.alpha, d, nw.tt)
                ELSE nw
       IN NextMoves(T, Tail(moves), Update([node EXCEPT !.tt = r.tt], -r.score), beta, d)

(* Search::search<T>: the score and the table it leaves.                    *)
SearchNode(T, p, alpha, beta, d, table) ==
  LET hit   == CutOff(table, p, d, alpha, beta)
      moves == OrderMoves(Replies[p])
      node  == [alpha |-> alpha, best |-> hit.score, tt |-> table]
      done  == IF moves = <<>>
               THEN [node EXCEPT !.best = Quiesce(p, alpha, beta)]
               ELSE NextMoves(T, Tail(moves),
                              FirstMove(T, Head(moves).to, node, beta, d - 1),
                              beta, d - 1)
  IN CASE d = 0          -> [score |-> Quiesce(p, alpha, beta), tt |-> table]
       [] d > 0 /\ hit.cut -> [score |-> hit.score, tt |-> table]
       [] OTHER          -> [score |-> done.best,
                             tt |-> Add(done.tt, p, d, done.best, T)]

-----------------------------------------------------------------------------
Init ==
  /\ eval \in [Positions -> Evals]
  /\ depth = 0 /\ score = MinScore
  /\ tt = [p \in Positions |-> Missing]

(* Bug: one iteration too many.                                             *)
MoreDepthPastEnd == depth <= MaxDepth
MoreDepth == depth < MaxDepth

(* An iteration of Search::Run.                                             *)
Deepen ==
  /\ MoreDepth
  /\ LET r == SearchNode("PV", Root, MinScore, MaxScore, depth + 1, tt)
     IN score' = r.score /\ tt' = r.tt
  /\ depth' = depth + 1
  /\ UNCHANGED eval

Finished == depth = MaxDepth /\ UNCHANGED vars

Next == Deepen \/ Finished

Spec == Init /\ [][Next]_vars

-----------------------------------------------------------------------------
(* The reference: what the moves of a game are worth.                       *)

BestOf(S) == CHOOSE x \in S : \A y \in S : x >= y

RECURSIVE QuietValue(_), Minimax(_, _)

QuietValue(p) ==
  BestOf({eval[p]} \cup
         { -QuietValue(Replies[p][i].to) : i \in { i \in DOMAIN Replies[p] : Replies[p][i].capture } })

Minimax(p, d) ==
  IF d = 0 \/ Replies[p] = <<>> THEN QuietValue(p)
  ELSE BestOf({ -Minimax(Replies[p][i].to, d - 1) : i \in DOMAIN Replies[p] })

(* The variables keep their types.                                          *)
TypeOK ==
  /\ eval \in [Positions -> Evals] /\ depth \in 0..MaxDepth
  /\ score \in MinScore..MaxScore
  /\ tt \in [Positions -> [depth : -1..MaxDepth, score : MinScore..MaxScore,
                           node : {"PV", "CUT", "ALL", "NONE"}]]

(* The pruning is sound: each iteration returns the full game value.        *)
RootExact == depth > 0 => score = Minimax(Root, depth)

(* What every caller relies on, in the null-window scout, the re-search and *)
(* the slaves alike: the score of a node bounds its value from the side of  *)
(* the window it falls out on, and is its value inside the window.  (Every  *)
(* window of a fresh table; later states have the same evaluations.)        *)
Honest(s, v, alpha, beta) ==
  /\ s <= alpha => v <= s
  /\ s >= beta => v >= s
  /\ alpha < s /\ s < beta => s = v

FailSoft ==
  depth = 0 => \A p \in Positions, d \in 0..MaxDepth, alpha \in MinScore..MaxScore - 1 :
    /\ \A beta \in alpha + 1..MaxScore :
         Honest(SearchNode("PV", p, alpha, beta, d, tt).score, Minimax(p, d), alpha, beta)
    /\ \A T \in {"CUT", "ALL"} :
         Honest(SearchNode(T, p, alpha, alpha + 1, d, tt).score, Minimax(p, d), alpha, alpha + 1)

=============================================================================
