------------------------------ MODULE MCModal ------------------------------
(* Small instances of Modal for TLC. *)
EXTENDS Modal

CONSTANTS leave, settings, start, none, nop

FourSides == {<<"q">>, <<"s">>, <<"r">>, <<"r", "r">>}
Functions3 == {leave, settings, start}
ThreeLetters == {"q", "s", "r"}

Set(modes, lhs, rhs) == [op |-> "set", modes |-> modes, lhs |-> lhs, rhs |-> rhs]
Del(modes, lhs) == [op |-> "del", modes |-> modes, lhs |-> lhs]

(* The keys of the analysis screen, one of each kind, and a sequence of two. *)
ScreenCalls ==
  << Set({NORMAL, VISUAL}, <<"q">>, leave), Set({NORMAL}, <<"s">>, settings),
     Set({NORMAL}, <<"r">>, start) >>
LongCalls == << Set({NORMAL}, <<"q">>, leave), Set({NORMAL, VISUAL}, <<"r", "r">>, start) >>

(* Every list of up to three calls that bind and unbind one sequence, or a  *)
(* second one of the same block.                                            *)
SomeCalls ==
  {Set(ms, <<"r">>, f) : ms \in {{NORMAL}, {VISUAL}, {NORMAL, VISUAL}, {NORMAL, INTERACT}},
                         f \in {leave, start, nop}}
  \cup {Del(ms, <<"r">>) : ms \in {{NORMAL}, {VISUAL}, {NORMAL, VISUAL}}}
  \cup {Set({NORMAL}, <<"r", "r">>, settings), Set({INTERACT}, <<"r">>, settings)}

ScriptsSet ==
  {[calls |-> ScreenCalls, keys |-> 3, reports |-> 0],
   [calls |-> ScreenCalls, keys |-> 2, reports |-> 1],
   [calls |-> LongCalls, keys |-> 3, reports |-> 0]}
  \cup {[calls |-> cs, keys |-> 0, reports |-> 0] : cs \in BoundedSeq(SomeCalls, 3)}
=============================================================================
