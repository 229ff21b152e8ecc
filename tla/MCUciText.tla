----------------------------- MODULE MCUciText -----------------------------
(* Small commands and lines for UciText. *)
EXTENDS UciText

e4 == W("e2e4")
d4 == W("d2d4")
MoveLists == {<<>>, <<e4>>, <<e4, d4>>}
Small == {-1, 0, 1, 2}

(* All but some of the numbers have their first value. *)
Numbers(names, first, few) == {[a \in names |-> IF a \in DOMAIN f THEN f[a] ELSE first[a]] :
                                 f \in UNION {[S -> Small] : S \in few}}

Inputs == {Input(t) : t \in GuiInputs \cup EngineInputs}
Switches == {[kind |-> "debug", value |-> v] : v \in {"on", "off"}}
            \cup [kind : {"copyprotection", "registration"}, value : Statuses]
Ids == [kind : {"id"}, type : {"name", "author"},
        value : {<<W("Chesstillo")>>, <<W("Stockfish"), N(2)>>, <<W("info"), W("string")>>}]
BestMoves == [kind : {"bestmove"}, move : {e4}, ponder : {<<>>, <<d4>>}]
Literals == {Unset, Text(<<e4>>), Text(<<W("a"), W("b")>>), Text(<<N(2)>>), Number(1), Number(-1),
             Number(MaxInt + 1), Number(-MaxInt - 1), Bool(TRUE), Bool(FALSE)}
SetOptions == [kind : {"setoption"}, id : {<<W("Hash")>>, <<W("Clear"), W("Hash")>>}, value : Literals]
Registers == [kind : {"register"}, later : BOOLEAN,
              name : {<<>>, <<W("Ann")>>, <<W("Ann"), Space, W("Lee")>>}, code : {<<>>, <<W("x1")>>}]
Fens == {Words(<<"startpos">>), Words(<<"other">>), <<W("8/8"), W("w"), W("-"), N(0), N(1)>>,
         <<W("8/8"), W("moves")>>, <<N(3), W("w")>>, <<W("8/8"), W("go")>>}
Positions == [kind : {"position"}, input : Fens, moves : MoveLists]
Gos == [kind : {"go"}, ponder : BOOLEAN, infinite : BOOLEAN,
        searchmoves : MoveLists \cup {<<W("depth")>>, <<e4, W("ponder")>>},
        num : Numbers(GoNumbers, NoGo.num,
                {{"wsec", "bsec", "winc"}, {"binc", "movestogo"}, {"depth", "nodes"}, {"mate", "movetime"}})]
Scores == [type : {"cp", "mate"}, value : {-1, 0, 2}, lowerbound : BOOLEAN, upperbound : BOOLEAN]
Lists(S) == {<<>>} \cup {<<x>> : x \in S}
SomeNumbers == Numbers(InfoNumbers, NoInfo.num, {{"depth"}, {"currmovenumber", "cpuload"}})
Infos ==
  {[NoInfo EXCEPT !.num = f] : f \in SomeNumbers}
  \cup [kind : {"info"}, score : Lists(Scores), currmove : Lists({e4}),
        num : {NoInfo.num, [NoInfo.num EXCEPT !["nodes"] = 2]},
        moves : [InfoMoves -> {<<>>, <<e4, d4>>}],
        currline : Lists([cpunr : {1, 2}, moves : {<<>>, <<d4>>}]),
        string : {<<>>, <<W("pv"), N(1)>>}]
Options == [kind : {"option"}, id : {<<W("Hash")>>, <<W("Skill"), W("Level")>>, <<W("Level"), N(2)>>},
            type : OptionTypes, def : Literals, min : {-1, 0, 1}, max : {0, 2, MaxInt + 1},
            vars : {<<>>, <<W("A"), W("B")>>}]

(* Lines of a few words after the first, out of the words it knows. *)
Common == {e4, N(1), W("stop")}
LinesOf(firsts, words, length) ==
  {<<W(first)>> \o l : first \in firsts, l \in BoundedSeq(Common \cup {W(t) : t \in words}, length)}
LineSet ==
  {<<W("Hello")>>}
  \cup LinesOf({"uci", "debug", "id", "copyprotection"}, {"on", "name", "ok"}, 2)
  \cup LinesOf({"position"}, {"startpos", "fen", "moves"}, 4)
  \cup LinesOf({"go"}, {"depth", "searchmoves", "ponder"}, 4)
  \cup LinesOf({"setoption"}, {"name", "value", "true"}, 4)
  \cup LinesOf({"register"}, {"later", "name", "code"}, 4)
  \cup LinesOf({"bestmove"}, {"ponder"}, 4)
  \cup LinesOf({"info"}, {"depth", "pv", "score", "cp", "lowerbound"}, 4)
  \cup LinesOf({"info"}, {"currmovenumber", "currmove", "currline", "string"}, 3)
  \cup LinesOf({"option"}, {"name", "type", "default", "max"}, 3)
  \cup LinesOf({"option"}, {"var", "min", "true"}, 3)
  \cup {Words(<<"option", "type", t>>) \o l : t \in OptionTypes,
          l \in BoundedSeq({e4, N(1), W("true"), W("default"), W("var")}, 3)}

(* What those lines say is said, too. *)
CommandSet ==
  Inputs \cup Switches \cup Ids \cup BestMoves \cup SetOptions \cup Registers \cup Positions \cup Gos
  \cup Infos \cup Options
  \cup {c \in {Parse(l, <<>>) : l \in LineSet} : c \notin {Error, Undefined}}
=============================================================================
