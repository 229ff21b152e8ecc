------------------------------ MODULE UciText ------------------------------
(***************************************************************************)
(* The text of the Universal Chess Interface (uci/src): how commands are   *)
(* printed, scanned and parsed again, and the two ends that exchange them  *)
(* line by line: the client of an engine process (uci::Engine) and the     *)
(* side of an engine (uci::Link).                                          *)
(*                                                                         *)
(* A line is the sequence of its lexemes: words, and numbers by their      *)
(* value; the spaces between them tell nothing.  A command's text values   *)
(* (names, a FEN, moves) are sequences of lexemes too.                     *)
(***************************************************************************)
EXTENDS SequencesExt, Integers

CONSTANTS
  Commands,  \* what the programs at both ends send
  Lines,     \* what another program at one of the ends prints
  MaxInt     \* the largest int

ASSUME MaxIntAssumption == MaxInt \in Nat

W(text) == [text |-> text, n |-> 0]
N(n) == [text |-> "#", n |-> n]
Space == W(" ")
EndOfLine == W("EOL")

GuiInputs == {"uci", "isready", "ucinewgame", "stop", "ponderhit", "quit"}
EngineInputs == {"uciok", "readyok"}
GuiWords == GuiInputs \cup {"debug", "setoption", "register", "position", "go"}
EngineWords ==
  EngineInputs \cup {"id", "bestmove", "copyprotection", "registration", "info", "option"}

(* An int goes down to -MaxInt - 1; a larger number is cut to its low bits.  *)
Fits(n) == -MaxInt - 1 <= n /\ n <= MaxInt
ToInt(n) == ((n + MaxInt + 1) % (2 * MaxInt + 2)) - (MaxInt + 1)

(* The types the scanner gives: a keyword is a type of its own, and a number *)
(* that std::stoi refuses a word.                                            *)
TypeOf(lexeme) ==
  CASE lexeme.text = "#" -> IF Fits(lexeme.n) THEN "NUMBER" ELSE "WORD"
    [] lexeme.text \in {"true", "false"} -> "BOOLEAN"
    [] lexeme.text \in GuiWords \cup EngineWords -> lexeme.text
    [] OTHER -> "WORD"

IsFeedback(lexeme) == lexeme.text \in EngineWords

(* Values of the variant Literal; an empty text is what it holds at first. *)
Text(words) == [is |-> "text", words |-> words, n |-> 0]
Number(n) == [is |-> "int", words |-> <<>>, n |-> n]
Bool(b) == [is |-> "bool", words |-> <<>>, n |-> IF b THEN 1 ELSE 0]
Unset == Text(<<>>)

Error == [kind |-> "error"]          \* a ParseError
Undefined == [kind |-> "undefined"]  \* tokens_ was read past its end, or a
                                     \* member before it was written

(* Consume, when the next token is not of the type: its message quotes that *)
(* token, also when there is none.                                          *)
Refuse(ts) == IF ts = <<>> THEN Undefined ELSE Error
Is(ts, type) == ts # <<>> /\ TypeOf(ts[1]) = type
IsWord(ts, words) == Is(ts, "WORD") /\ ts[1].text \in words

(* How many tokens there are before the first that is no word or in stops. *)
WordsBefore(ts, stops) ==
  CHOOSE k \in 0 .. Len(ts) :
    /\ \A i \in 1 .. k : TypeOf(ts[i]) = "WORD" /\ ts[i].text \notin stops
    /\ k < Len(ts) => TypeOf(ts[k + 1]) # "WORD" \/ ts[k + 1].text \in stops
Drop(ts, k) == SubSeq(ts, k + 1, Len(ts))
Words(texts) == [i \in DOMAIN texts |-> W(texts[i])]

----------------------------------------------------------------------------
(* Commands of one or two words. *)
Input(text) == [kind |-> "input", input |-> text]

ParseSwitch(kind, ts, values) ==
  IF ~Is(ts, "WORD") THEN Refuse(ts)
  ELSE IF ts[1].text \notin values \/ Len(ts) > 1 THEN Error
  ELSE [kind |-> kind, value |-> ts[1].text]

Statuses == {"checking", "ok", "error"}
ParseDebug(ts) == ParseSwitch("debug", ts, {"on", "off"})
ParseCopyProtection(ts) == ParseSwitch("copyprotection", ts, Statuses)
ParseRegistration(ts) == ParseSwitch("registration", ts, Statuses)
PrintSwitch(c) == Words(<<c.kind, c.value>>)

(* bestmove <move> [ponder <move>] *)
ParseBestMove(ts) ==
  IF ~Is(ts, "WORD") THEN Refuse(ts)
  ELSE IF Len(ts) = 1 THEN [kind |-> "bestmove", move |-> ts[1], ponder |-> <<>>]
  ELSE IF ~IsWord(Drop(ts, 1), {"ponder"}) THEN Error
  ELSE IF ~Is(Drop(ts, 2), "WORD") THEN Refuse(Drop(ts, 2))
  ELSE IF Len(ts) > 3 THEN Error
  ELSE [kind |-> "bestmove", move |-> ts[1], ponder |-> <<ts[3]>>]
PrintBestMove(c) ==
  <<W("bestmove"), c.move>> \o (IF c.ponder = <<>> THEN <<>> ELSE <<W("ponder")>> \o c.ponder)

(* id: the rest of the line as it stands is the value, its end included. *)
ParseID(ts, end) ==
  IF ~Is(ts, "WORD") THEN Refuse(ts)
  ELSE IF ts[1].text \notin {"name", "author"} THEN Error
  ELSE IF Len(ts) = 1 THEN Undefined
  ELSE [kind |-> "id", type |-> ts[1].text, value |-> Tail(ts) \o end]
PrintID(c) == Words(<<"id", c.type>>) \o c.value

----------------------------------------------------------------------------
(* setoption: read with "name", one word long; the value is one token, and *)
(* what follows it is dropped. A keyword for value makes an error that is   *)
(* not thrown.                                                              *)
ValueOf(lexeme) ==
  CASE TypeOf(lexeme) = "NUMBER" -> Number(lexeme.n)
    [] TypeOf(lexeme) = "BOOLEAN" -> Bool(lexeme.text = "true")
    [] TypeOf(lexeme) = "WORD" -> Text(<<lexeme>>)
    [] OTHER -> Unset

ParseSetOption(ts) ==
  LET id == Drop(ts, 1)
      rest == Drop(ts, 2)
      With(v) == [kind |-> "setoption", id |-> <<id[1]>>, value |-> v]
  IN IF ~Is(ts, "WORD") THEN Refuse(ts)
     ELSE IF ts[1].text # "name" THEN Error
     ELSE IF ~Is(id, "WORD") THEN Refuse(id)
     ELSE IF rest = <<>> THEN With(Unset)
     ELSE IF ~IsWord(rest, {"value"}) \/ Len(rest) = 1 THEN Error
     ELSE With(ValueOf(rest[2]))

(* Printed with "id", a bool as 0 or 1. *)
PrintSetOption(c) ==
  Words(<<"setoption", "id">>) \o c.id
    \o (IF c.value = Unset THEN <<>>
        ELSE <<W("value")>> \o (IF c.value.is = "text" THEN c.value.words ELSE <<N(c.value.n)>>))

----------------------------------------------------------------------------
(* register: a name is its words with a space after each; maybe_return takes *)
(* the last character off, every time it is reached.                         *)
Chop(name) ==
  IF name = <<>> THEN <<>>
  ELSE IF Last(name) = Space \/ Len(Last(name).text) = 1 THEN Front(name)
  ELSE Append(Front(name), W(SubSeq(Last(name).text, 1, Len(Last(name).text) - 1)))
Glue(name, word) ==
  IF name = <<>> \/ Last(name) = Space THEN Append(name, word)
  ELSE Append(Front(name), W(Last(name).text \o word.text))

RECURSIVE RegisterAttr(_, _), RegisterName(_, _), RegisterMore(_, _)
RegisterCode(c, ts) ==
  IF ~Is(ts, "WORD") THEN Refuse(ts) ELSE RegisterMore([c EXCEPT !.code = <<ts[1]>>], Tail(ts))
RegisterName(c, ts) ==
  IF ~Is(ts, "WORD") THEN RegisterMore(c, ts)
  ELSE IF ts[1].text = "code" THEN RegisterCode(c, Tail(ts))
  ELSE RegisterName([c EXCEPT !.name = Append(Glue(@, ts[1]), Space)], Tail(ts))
RegisterMore(c, ts) ==
  LET d == [c EXCEPT !.name = Chop(@)] IN IF ts = <<>> THEN d ELSE RegisterAttr(d, ts)
RegisterAttr(c, ts) ==
  IF ~Is(ts, "WORD") THEN Refuse(ts)
  ELSE CASE ts[1].text = "name" -> RegisterName(c, Tail(ts))
         [] ts[1].text = "code" -> RegisterCode(c, Tail(ts))
         [] OTHER -> Error

Register(later, name, code) == [kind |-> "register", later |-> later, name |-> name, code |-> code]
ParseRegister(ts) ==
  IF IsWord(ts, {"later"})
  THEN IF Len(ts) > 1 THEN Error ELSE Register(TRUE, <<>>, <<>>)
  ELSE RegisterAttr(Register(FALSE, <<>>, <<>>), ts)

(* Printed without a space between the name and "code". *)
PrintRegister(c) ==
  IF c.later THEN Words(<<"register", "later">>)
  ELSE Words(<<"register", "name">>)
         \o SelectSeq(Glue(c.name, W("code")), LAMBDA l : l # Space) \o c.code

----------------------------------------------------------------------------
(* position: any first word but fen stands for the position itself. *)
Position(input, moves) == [kind |-> "position", input |-> input, moves |-> moves]

PositionMoves(input, ts) ==
  IF \A i \in DOMAIN ts : TypeOf(ts[i]) = "WORD" THEN Position(input, ts) ELSE Error
ParseFen(ts) ==
  LET more == Tail(ts)
      IsField(i) == Is(<<more[i]>>, "NUMBER") \/ (Is(<<more[i]>>, "WORD") /\ more[i].text # "moves")
      k == CHOOSE k \in 0 .. Len(more) :
             (\A i \in 1 .. k : IsField(i)) /\ (k < Len(more) => ~IsField(k + 1))
      rest == Drop(more, k)
  IN IF ~Is(ts, "WORD") THEN Refuse(ts)
     ELSE IF rest = <<>> THEN Position(ts, <<>>)
     ELSE IF ~IsWord(rest, {"moves"}) THEN Error
     ELSE PositionMoves(SubSeq(ts, 1, k + 1), Tail(rest))
ParsePosition(ts) ==
  IF ~Is(ts, "WORD") THEN Refuse(ts)
  ELSE IF ts[1].text = "fen" THEN ParseFen(Tail(ts))
  ELSE IF Len(ts) = 1 THEN Position(ts, <<>>)
  ELSE IF ~IsWord(Tail(ts), {"moves"}) THEN Error
  ELSE PositionMoves(<<ts[1]>>, Drop(ts, 2))
PrintPosition(c) ==
  <<W("position")>> \o (IF c.input = Words(<<"startpos">>) THEN <<>> ELSE <<W("fen")>>) \o c.input
    \o (IF c.moves = <<>> THEN <<>> ELSE <<W("moves")>> \o c.moves)

----------------------------------------------------------------------------
(* go: its numbers by name, in the order they are printed in. *)
GoOrder == <<"wsec", "bsec", "winc", "binc", "movestogo", "depth", "nodes", "mate", "movetime">>
GoNumbers == Range(GoOrder)
NoGo == [kind |-> "go", ponder |-> FALSE, infinite |-> FALSE, searchmoves |-> <<>>,
         num |-> [a \in GoNumbers |-> IF a \in {"wsec", "bsec"} THEN -1 ELSE 0]]

RECURSIVE ParseGo(_, _)
ParseGo(c, ts) ==
  IF ts = <<>> THEN c
  ELSE IF ~Is(ts, "WORD") THEN Error
  ELSE LET rest == Tail(ts)
           k == WordsBefore(rest, GoNumbers)
       IN CASE ts[1].text = "ponder" -> ParseGo([c EXCEPT !.ponder = TRUE], rest)
            [] ts[1].text = "infinite" -> ParseGo([c EXCEPT !.infinite = TRUE], rest)
            [] ts[1].text = "searchmoves" ->
                 ParseGo([c EXCEPT !.searchmoves = @ \o SubSeq(rest, 1, k)], Drop(rest, k))
            [] ts[1].text \in GoNumbers ->
                 IF Is(rest, "NUMBER")
                 THEN ParseGo([c EXCEPT !.num[ts[1].text] = rest[1].n], Tail(rest))
                 ELSE Refuse(rest)
            [] OTHER -> Error

(* The numbers of num that are printed: the positive ones, wsec and bsec if *)
(* they are not negative.                                                   *)
Shown(a, num) == num[a] > 0 \/ (a \in {"wsec", "bsec"} /\ num[a] = 0)
PrintNumbers(order, num) ==
  FlattenSeq([i \in DOMAIN order |->
                IF Shown(order[i], num) THEN <<W(order[i]), N(num[order[i]])>> ELSE <<>>])
Marked(word, list) == IF list = <<>> THEN <<>> ELSE <<W(word)>> \o list

(* Mutant: the moves are printed before infinite. *)
PrintGoMovesFirst(c) ==
  <<W("go")>> \o (IF c.ponder THEN <<W("ponder")>> ELSE <<>>) \o PrintNumbers(GoOrder, c.num)
    \o Marked("searchmoves", c.searchmoves) \o (IF c.infinite THEN <<W("infinite")>> ELSE <<>>)

PrintGo(c) ==
  <<W("go")>> \o (IF c.ponder THEN <<W("ponder")>> ELSE <<>>) \o PrintNumbers(GoOrder, c.num)
    \o (IF c.infinite THEN <<W("infinite")>> ELSE <<>>) \o Marked("searchmoves", c.searchmoves)

----------------------------------------------------------------------------
(* info: its numbers by name, the score and the line of a processor.  Score  *)
(* and Currline are null, <<>>, or one record.                               *)
InfoOrder == <<"depth", "seldepth", "time", "nodes", "multipv", "currmovenumber", "hashfull",
               "nps", "tbhits", "sbhits", "cpuload">>
InfoNumbers == Range(InfoOrder)
InfoMoves == {"pv", "refutation"}
InfoAttrs == InfoNumbers \cup InfoMoves \cup {"score", "currmove", "string", "currline"}
NoInfo == [kind |-> "info", num |-> [a \in InfoNumbers |-> 0], score |-> <<>>,
           moves |-> [a \in InfoMoves |-> <<>>], currmove |-> <<>>, currline |-> <<>>,
           string |-> <<>>]

(* The moves up to the next attribute (CONSUME_MOVES), refused at one that is *)
(* no word.                                                                   *)
MovesEnd(ts) == WordsBefore(ts, InfoAttrs)
MovesRefused(ts) == MovesEnd(ts) < Len(ts) /\ ~IsWord(Drop(ts, MovesEnd(ts)), InfoAttrs)

(* A score of a type that is neither cp nor mate has neither type nor value; *)
(* of the two bounds one is read.                                            *)
ScoreLength(ts) == IF IsWord(ts, {"cp", "mate"}) THEN 2 ELSE 1
BoundAt(ts) == LET rest == Drop(ts, ScoreLength(ts)) IN
  IF IsWord(rest, {"lowerbound", "upperbound"}) THEN rest[1].text ELSE "none"
ScoreOf(ts) ==
  [type |-> IF ScoreLength(ts) = 2 THEN ts[1].text ELSE "unset",
   value |-> IF ScoreLength(ts) = 2 THEN ts[2].n ELSE 0,
   lowerbound |-> BoundAt(ts) = "lowerbound", upperbound |-> BoundAt(ts) = "upperbound"]

(* What follows the token of one attribute; end is what ends the line's text. *)
RECURSIVE ParseInfo(_, _, _)
InfoMore(c, ts, end) == IF ts = <<>> THEN c ELSE ParseInfo(c, ts, end)
InfoScore(c, ts, end) ==
  IF ~Is(ts, "WORD") THEN Refuse(ts)
  ELSE IF ScoreLength(ts) = 2 /\ ~Is(Tail(ts), "NUMBER") THEN Refuse(Tail(ts))
  ELSE InfoMore([c EXCEPT !.score = <<ScoreOf(ts)>>],
                Drop(ts, ScoreLength(ts) + (IF BoundAt(ts) = "none" THEN 0 ELSE 1)), end)
InfoCurrline(c, ts, end) ==
  IF ~Is(ts, "NUMBER") THEN Refuse(ts)
  ELSE IF ts[1].n < 1 \/ MovesRefused(Tail(ts)) THEN Error
  ELSE InfoMore([c EXCEPT !.currline =
                   <<[cpunr |-> ts[1].n, moves |-> SubSeq(Tail(ts), 1, MovesEnd(Tail(ts)))]>>],
                Drop(Tail(ts), MovesEnd(Tail(ts))), end)
InfoNumber(c, a, ts, end) ==
  IF ~Is(ts, "NUMBER") THEN Refuse(ts)
  ELSE IF a = "currmovenumber" /\ ts[1].n < 1 THEN Error
  ELSE InfoMore([c EXCEPT !.num[a] = ts[1].n], Tail(ts), end)
ParseInfo(c, ts, end) ==
  IF ~Is(ts, "WORD") THEN Refuse(ts)
  ELSE LET a == ts[1].text
           rest == Tail(ts)
       IN CASE a \in InfoNumbers -> InfoNumber(c, a, rest, end)
            [] a \in InfoMoves ->
                 IF MovesRefused(rest) THEN Error
                 ELSE InfoMore([c EXCEPT !.moves[a] = @ \o SubSeq(rest, 1, MovesEnd(rest))],
                               Drop(rest, MovesEnd(rest)), end)
            [] a = "score" -> InfoScore(c, rest, end)
            [] a = "currline" -> InfoCurrline(c, rest, end)
            [] a = "currmove" -> IF Is(rest, "WORD")
                                 THEN InfoMore([c EXCEPT !.currmove = <<rest[1]>>], Tail(rest), end)
                                 ELSE Refuse(rest)
            [] a = "string" -> IF rest = <<>> THEN Undefined
                               ELSE [c EXCEPT !.string = rest \o end]
            [] OTHER -> Error

(* The number of the processor is left out if it is the first. *)
PrintScore(s) ==
  <<W(s.type), N(s.value)>>
    \o (IF s.lowerbound THEN <<W("lowerbound")>>
        ELSE IF s.upperbound THEN <<W("upperbound")>> ELSE <<>>)
PrintCurrline(l) == (IF l.cpunr > 1 THEN <<N(l.cpunr)>> ELSE <<>>) \o l.moves
PrintInfo(c) ==
  <<W("info")>> \o PrintNumbers(InfoOrder, c.num) \o Marked("currmove", c.currmove)
    \o Marked("string", c.string) \o Marked("pv", c.moves["pv"])
    \o Marked("refutation", c.moves["refutation"])
    \o (IF c.score = <<>> THEN <<>> ELSE <<W("score")>> \o PrintScore(c.score[1]))
    \o (IF c.currline = <<>> THEN <<>> ELSE <<W("currline")>> \o PrintCurrline(c.currline[1]))

----------------------------------------------------------------------------
(* option: its parts in any order, but a default is read by the type that is *)
(* known by then, which make_unique made check, the first.                   *)
OptionAttrs == {"name", "type", "default", "var", "min", "max"}
OptionTypes == {"check", "spin", "combo", "button", "string"}
NoOption == [kind |-> "option", id |-> <<>>, type |-> "check", def |-> Unset,
             min |-> 0, max |-> 0, vars |-> <<>>]

DefaultType(type) == CASE type = "spin" -> "NUMBER" [] type = "check" -> "BOOLEAN" [] OTHER -> "WORD"

RECURSIVE ParseOption(_, _)
OptionMore(c, ts) == IF ts = <<>> THEN c ELSE ParseOption(c, ts)
OptionName(c, ts) ==
  IF ~Is(ts, "WORD") THEN Refuse(ts)
  ELSE LET k == 1 + WordsBefore(Tail(ts), OptionAttrs)
       IN OptionMore([c EXCEPT !.id = SubSeq(ts, 1, k)], Drop(ts, k))
OptionDefault(c, ts) ==
  IF ts = <<>> THEN c
  ELSE IF c.type = "button" \/ ~Is(ts, DefaultType(c.type)) THEN Error
  ELSE OptionMore([c EXCEPT !.def = ValueOf(ts[1])], Tail(ts))
ParseOption(c, ts) ==
  IF ~Is(ts, "WORD") THEN Refuse(ts)
  ELSE LET a == ts[1].text
           rest == Tail(ts)
       IN CASE a = "name" -> OptionName(c, rest)
            [] a = "default" -> OptionDefault(c, rest)
            [] a = "type" -> IF ~Is(rest, "WORD") THEN Refuse(rest)
                             ELSE IF rest[1].text \notin OptionTypes THEN Error
                             ELSE OptionMore([c EXCEPT !.type = rest[1].text], Tail(rest))
            [] a = "var" -> IF ~Is(rest, "WORD") THEN Refuse(rest)
                            ELSE OptionMore([c EXCEPT !.vars = Append(@, rest[1])], Tail(rest))
            [] a \in {"min", "max"} ->
                 IF ~Is(rest, "NUMBER") THEN Refuse(rest)
                 ELSE OptionMore(IF a = "min" THEN [c EXCEPT !.min = rest[1].n]
                                 ELSE [c EXCEPT !.max = rest[1].n], Tail(rest))
            [] OTHER -> Error

(* A default is printed if it has the alternative of the type: a number as *)
(* an int, though it is kept wider, and a text also when empty.            *)
PrintDefault(c) ==
  CASE c.type = "check" /\ c.def.is = "bool" ->
         <<W("default"), W(IF c.def.n = 1 THEN "true" ELSE "false")>>
    [] c.type = "spin" /\ c.def.is = "int" -> <<W("default"), N(ToInt(c.def.n))>>
    [] c.type \in {"combo", "string"} /\ c.def.is = "text" -> <<W("default")>> \o c.def.words
    [] OTHER -> <<>>
PrintOption(c) ==
  Words(<<"option", "name">>) \o c.id \o Words(<<"type", c.type>>) \o PrintDefault(c)
    \o (IF c.min > 0 THEN <<W("min"), N(c.min)>> ELSE <<>>)
    \o (IF c.max > 0 THEN <<W("max"), N(c.max)>> ELSE <<>>)
    \o FlattenSeq([i \in DOMAIN c.vars |-> <<W("var"), c.vars[i]>>])

----------------------------------------------------------------------------
(* Parser::Parse; nothing may be left of the line. *)
Parse(line, end) ==
  LET ts == Tail(line)
      first == line[1].text
  IN CASE first \in GuiInputs \cup EngineInputs -> IF ts = <<>> THEN Input(first) ELSE Error
       [] first = "debug" -> ParseDebug(ts)
       [] first = "position" -> ParsePosition(ts)
       [] first = "go" -> ParseGo(NoGo, ts)
       [] first = "setoption" -> ParseSetOption(ts)
       [] first = "register" -> ParseRegister(ts)
       [] first = "id" -> ParseID(ts, end)
       [] first = "bestmove" -> ParseBestMove(ts)
       [] first = "copyprotection" -> ParseCopyProtection(ts)
       [] first = "registration" -> ParseRegistration(ts)
       [] first = "info" -> ParseInfo(NoInfo, ts, end)
       [] first = "option" -> ParseOption(NoOption, ts)
       [] OTHER -> Error

(* Command::ToString *)
Printed(c) ==
  CASE c.kind = "input" -> <<W(c.input)>>
    [] c.kind \in {"debug", "copyprotection", "registration"} -> PrintSwitch(c)
    [] c.kind = "position" -> PrintPosition(c)
    [] c.kind = "go" -> PrintGo(c)
    [] c.kind = "setoption" -> PrintSetOption(c)
    [] c.kind = "register" -> PrintRegister(c)
    [] c.kind = "id" -> PrintID(c)
    [] c.kind = "bestmove" -> PrintBestMove(c)
    [] c.kind = "info" -> PrintInfo(c)
    [] c.kind = "option" -> PrintOption(c)

(* Whom a command is for: Engine's and Link's Visit functions. *)
ForEngine(c) ==
  \/ c.kind \in {"debug", "position", "go", "setoption", "register"}
  \/ c.kind = "input" /\ c.input \in GuiInputs

----------------------------------------------------------------------------
(* The two ends.  One line is on its way at a time: what one end prints does *)
(* not depend on what it has read.                                           *)
VARIABLES
  line,     \* the line on its way: to whom, and the command it prints, if any
  sent,     \* the command of the line read last
  heard,    \* what the reader made of it
  hops,     \* how often the line was passed on since somebody spoke (history)
  quit      \* Link's quit_

vars == <<line, sent, heard, hops, quit>>

Nobody == "nobody"
Nothing == [kind |-> "nothing"]
NoLine == [to |-> Nobody, lexemes |-> <<>>, command |-> Nothing]
LineOf(to, c) == [to |-> to, lexemes |-> Printed(c), command |-> c]
(* A message, "Error at ...", is no command. *)
Message == [to |-> "ui", lexemes |-> <<W("Error")>>, command |-> Nothing]

Init == line = NoLine /\ sent = Nothing /\ heard = Nothing /\ hops = 0 /\ quit = FALSE

Idle == line = NoLine /\ heard = Nothing /\ ~quit

(* Engine::Send, by the UI: a command for the engine is written to it, any *)
(* other goes straight to the UI again.                                    *)
EngineSend(c) ==
  /\ line' = IF ForEngine(c) THEN LineOf("engine", c) ELSE NoLine
  /\ UNCHANGED <<sent, heard, hops, quit>>

(* Link::Send, by the engine: a command for the engine is handled at once. *)
LinkSend(c) ==
  /\ line' = IF ForEngine(c) THEN NoLine ELSE LineOf("ui", c)
  /\ quit' = (c = Input("quit"))
  /\ UNCHANGED <<sent, heard, hops>>

(* A program that is neither of the two prints a line. *)
OtherPrints(to, lexemes) ==
  /\ line' = [to |-> to, lexemes |-> lexemes, command |-> Nothing]
  /\ UNCHANGED <<sent, heard, hops, quit>>

(* Link::Loop: a word of engines is refused unparsed, an error is answered; *)
(* after quit the loop reads no more.                                       *)
LinkReads ==
  /\ line.to = "engine" /\ ~quit
  /\ LET c == IF IsFeedback(line.lexemes[1]) THEN Error ELSE Parse(line.lexemes, <<>>)
     IN /\ heard' = c
        /\ quit' = (c = Input("quit"))
        /\ line' = IF c = Error THEN Message ELSE NoLine
  /\ sent' = line.command /\ hops' = hops + 1

(* Engine::Loop, with the line's end: an error is dropped, a command for    *)
(* engines is written back to the engine, any other handed to the UI.       *)
EngineReads ==
  /\ line.to = "ui"
  /\ LET c == Parse(line.lexemes, <<EndOfLine>>)
     IN /\ heard' = c
        /\ line' = IF c \notin {Error, Undefined} /\ ForEngine(c) THEN LineOf("engine", c)
                   ELSE NoLine
  /\ sent' = line.command /\ hops' = hops + 1 /\ UNCHANGED quit

(* The next exchange; only the histories change. *)
NextExchange ==
  /\ line = NoLine /\ heard # Nothing
  /\ sent' = Nothing /\ heard' = Nothing /\ hops' = 0
  /\ UNCHANGED <<line, quit>>

Next ==
  \/ Idle /\ \E c \in Commands : EngineSend(c) \/ LinkSend(c)
  \/ Idle /\ \E to \in {"engine", "ui"}, l \in Lines : OtherPrints(to, l)
  \/ LinkReads \/ EngineReads \/ NextExchange

Spec == Init /\ [][Next]_vars

----------------------------------------------------------------------------
(* What of a command its text keeps. *)
Kept(c, end) ==
  CASE c.kind = "go" -> [c EXCEPT !.num = [a \in GoNumbers |->
                            IF Shown(a, c.num) THEN c.num[a] ELSE NoGo.num[a]]]
    [] c.kind = "info" ->
         [c EXCEPT !.num = [a \in InfoNumbers |-> IF c.num[a] > 0 THEN c.num[a] ELSE 0],
                   !.string = IF @ = <<>> THEN @ ELSE @ \o end,
                   !.score = IF @ # <<>> /\ @[1].lowerbound
                             THEN <<[@[1] EXCEPT !.upperbound = FALSE]>> ELSE @]
    [] c.kind = "option" ->
         [c EXCEPT !.min = IF @ > 0 THEN @ ELSE 0, !.max = IF @ > 0 THEN @ ELSE 0,
                   !.def = IF PrintDefault(c) = <<>> THEN Unset ELSE @]
    [] c.kind = "id" -> [c EXCEPT !.value = @ \o end]
    [] c.kind = "register" -> IF c.later THEN Register(TRUE, <<>>, <<>>) ELSE c
    [] OTHER -> c

AreWords(ts, but) == \A i \in DOMAIN ts : Is(<<ts[i]>>, "WORD") /\ ts[i].text \notin but

(* The commands whose text keeps the rest. *)
PlainInfo(c) ==
  /\ Len(PrintInfo(c)) > 1
  /\ c.string # <<>> => c.moves["pv"] = <<>> /\ c.moves["refutation"] = <<>>
                        /\ c.score = <<>> /\ c.currline = <<>>
  /\ \A i \in DOMAIN c.score : c.score[i].type # "unset"
  /\ \A i \in DOMAIN c.currline : c.currline[i].cpunr > 1
PlainOption(c) ==
  /\ c.type \in {"combo", "string"} /\ c.def = Unset => c.max <= 0 /\ c.min <= 0 /\ c.vars = <<>>
  /\ Fits(c.min) /\ Fits(c.max) /\ (c.type = "spin" => Fits(c.def.n))
  /\ c.def.is = "text" /\ c.type \in {"combo", "string"} =>
       Len(c.def.words) <= 1 /\ AreWords(c.def.words, {})
  /\ c.id # <<>> /\ AreWords(<<c.id[1]>>, {}) /\ AreWords(Tail(c.id), OptionAttrs)
PlainPosition(c) ==
  /\ c.input # <<>> /\ Is(c.input, "WORD")
  /\ \A i \in 2 .. Len(c.input) :
       Is(<<c.input[i]>>, "NUMBER") \/ AreWords(<<c.input[i]>>, {"moves"})
Plain(c) ==
  CASE c.kind = "setoption" -> FALSE
    [] c.kind = "register" -> c.later \/ (c.name = <<>> /\ c.code # <<>>)
    [] c.kind = "info" -> PlainInfo(c)
    [] c.kind = "option" -> PlainOption(c)
    [] c.kind = "position" -> PlainPosition(c)
    [] c.kind = "go" -> AreWords(c.searchmoves, GoNumbers)
    [] OTHER -> TRUE

(* A command that one end prints is the command the other end reads, but for *)
(* what Kept names, exactly if it is plain; and no line goes to and fro: the *)
(* answer to a line is not answered, and only another program's line can be  *)
(* written back (ToString and Parser of each command, Engine::Loop, Link::Loop).           *)
ReadsBack ==
  /\ sent # Nothing =>
       LET kept == Kept(sent, IF ForEngine(sent) THEN <<>> ELSE <<EndOfLine>>)
       IN (heard.kind = sent.kind /\ heard = kept) <=> Plain(sent)
  /\ hops <= 3 /\ (hops > 0 /\ line.to = "engine" => sent = Nothing)
=============================================================================
