------------------------------- MODULE Session -------------------------------
(***************************************************************************)
(* An analysis session: the Analyze screen (analyze.cpp), the uci::Engine   *)
(* that owns the engine's process (uci/src/engine.cpp) and that process.    *)
(* Three threads of the program share the screen's state:                   *)
(*   - the UI thread constructs the screen, handles keys and destroys it;   *)
(*   - InitEngine, a thread of its own, performs the UCI handshake;         *)
(*   - the reader, Engine::Loop, parses the engine's output and calls the   *)
(*     screen's handlers.                                                   *)
(* The process is external: an engine that follows the UCI protocol.        *)
(* Positions stand for boards and for the FEN strings that denote them.     *)
(* running_, fen_ and position_ are written by the UI thread alone, so a    *)
(* handler changes them in one step and then sends its commands one by one. *)
(* The two other threads run before the screen is complete and after it has *)
(* begun to go: engine_options_ is a member of Analyze, whose base View      *)
(* owns Main, and so is constructed after Main and destroyed before it; and *)
(* Main's own members are destroyed while the reader still runs.            *)
(***************************************************************************)
EXTENDS Naturals, Sequences, FiniteSets

CONSTANTS
  Positions, StartPos,
  Replies,    \* the positions one legal move away from each position
  Lines,      \* the largest MultiPV value the screen asks for
  MaxKeys,    \* bound: how many keys the user presses, with the one that closes
  MaxUnread   \* bound: how many info lines the engine is ahead of the reader

ASSUME SessionAssumption ==
  /\ StartPos \in Positions /\ Replies \in [Positions -> SUBSET Positions]
  /\ Lines \in Nat \ {0} /\ MaxKeys \in Nat /\ MaxUnread \in Nat \ {0}

VARIABLES
  \* Analyze
  position, fen, running, attrs,
  pvs,         \* per line: what was searched and the board it is shown on
  options,     \* the ids in engine_options_; Misused for ever if it was
  mutex,
  \* threads
  pc,          \* of the UI thread, InitEngine and the reader
  sending,     \* the commands the UI thread and InitEngine still have to send
  \* uci::Engine and the process
  toEngine, fromEngine,
  alive,
  \* the external engine
  engine,      \* [position, searching, lines]
  \* history
  edited,      \* fen_ was edited since it last was the board's
  disturbed,   \* a command of the UI thread reached a searching engine
  keys

analyzeVars == <<position, fen, running, options>>
sharedVars  == <<attrs, pvs, mutex>>
pipeVars    == <<toEngine, fromEngine, alive>>
historyVars == <<edited, keys>>
vars == <<analyzeVars, sharedVars, pc, sending, pipeVars, engine, historyVars, disturbed>>

UI == "ui"
InitEngine == "init"
Reader == "reader"
Free == "free"
Threads == {UI, InitEngine, Reader}

NoLine == [searched |-> "none", shown |-> "none"]
OptionIds == {"MultiPV", "Clear Hash"}
Misused == "misused"   \* engine_options_ was used while it did not exist

Command(c, p, n, t) == [cmd |-> c, position |-> p, value |-> n, by |-> t]
Plain(c, t) == Command(c, StartPos, 0, t)
Output(k, p, n) == [kind |-> k, position |-> p, value |-> n]

Goto(t, label) == pc' = [pc EXCEPT ![t] = label]

(* When engine_options_ exists, and when the members of Main that are        *)
(* declared after engine_ (pvs_, cv_, mutex_ and others) exist no more.     *)
MembersGone == pc[UI] \in {"terminate", "joinReader", "exited"}
OptionsExist == ~MembersGone /\ pc[UI] \notin {"construct", "constructOptions", "join"}

(* What a thread that uses an object outside its lifetime does is undefined: *)
(* it ends the program, or it never comes back, or it goes on, with any     *)
(* answer the object gives.  This is the first two; the actions below have  *)
(* the third.                                                               *)
Strands(t) == \E label \in {"failed", "stuck"} : Goto(t, label)

(* The screen is under construction: engine_ (the process and the reader)   *)
(* and thread_ exist, the members declared after them do not.               *)
Init ==
  /\ position = StartPos /\ fen = StartPos /\ running = FALSE
  /\ attrs = {} /\ options = {} /\ mutex = Free
  /\ pvs = [k \in 1 .. Lines |-> NoLine]
  /\ pc = [t \in Threads |-> CASE t = UI -> "construct"
                               [] t = InitEngine -> "uci"
                               [] t = Reader -> "read"]
  /\ sending = [t \in {UI, InitEngine} |-> <<>>]
  /\ toEngine = <<>> /\ fromEngine = <<>> /\ alive = TRUE
  /\ engine = [position |-> StartPos, searching |-> FALSE, lines |-> 1]
  /\ edited = FALSE /\ disturbed = FALSE /\ keys = 0

-----------------------------------------------------------------------------
(* InitEngine.  wait_for has no predicate, so it may return at any time:    *)
(* notified, after ten seconds, or spuriously; cv_, declared after thread_, *)
(* may not even exist when the wait begins.                                 *)

InitSendsUci ==
  /\ pc[InitEngine] = "uci" /\ mutex = Free
  /\ toEngine' = Append(toEngine, Plain("uci", InitEngine))
  /\ Goto(InitEngine, "wait")
  /\ UNCHANGED <<analyzeVars, sharedVars, sending, fromEngine, alive, engine,
                 historyVars, disturbed>>

(* Bug: the options are read without a look at the handshake.               *)
RespondedUnchecked == TRUE
Responded == "UCI" \in attrs

(* "engine didn't respond": the exception leaves the thread and ends the    *)
(* program.                                                                 *)
InitFails ==
  /\ mutex = Free
  /\ \/ pc[InitEngine] = "wait" /\ ~Responded
     \/ pc[InitEngine] = "waitReady" /\ "READY" \notin attrs
  /\ Goto(InitEngine, "failed")
  /\ UNCHANGED <<analyzeVars, sharedVars, sending, pipeVars, engine, historyVars, disturbed>>

(* Of the options it sets, MultiPV is the one the session depends on.       *)
TouchOptions == options' = options \cup IF OptionsExist THEN {} ELSE {Misused}

InitReadsOptions ==
  /\ pc[InitEngine] = "wait" /\ mutex = Free /\ Responded
  /\ TouchOptions
  /\ mutex' = InitEngine
  /\ \E contains \in IF OptionsExist THEN {"MultiPV" \in options} ELSE BOOLEAN :
       sending' = [sending EXCEPT ![InitEngine] =
         IF contains THEN <<Command("setoption", StartPos, Lines, InitEngine)>> ELSE <<>>]
  /\ Goto(InitEngine, "options")
  /\ UNCHANGED <<position, fen, running, attrs, pvs, pipeVars, engine, historyVars, disturbed>>

(* SetAndSendOption stores the value in engine_options_ and sends it.       *)
InitSendsOption ==
  /\ pc[InitEngine] = "options" /\ sending[InitEngine] # <<>>
  /\ TouchOptions
  /\ toEngine' = Append(toEngine, Head(sending[InitEngine]))
  /\ sending' = [sending EXCEPT ![InitEngine] = Tail(@)]
  /\ UNCHANGED <<position, fen, running, sharedVars, pc, fromEngine, alive, engine,
                 historyVars, disturbed>>

(* The last look at engine_options_, for Clear Hash, comes before isready.  *)
InitSendsIsReady ==
  /\ pc[InitEngine] = "options" /\ sending[InitEngine] = <<>>
  /\ TouchOptions
  /\ toEngine' = Append(toEngine, Plain("isready", InitEngine))
  /\ mutex' = Free
  /\ Goto(InitEngine, "waitReady")
  /\ UNCHANGED <<position, fen, running, attrs, pvs, sending, fromEngine, alive, engine,
                 historyVars, disturbed>>

(* InitEngine holds mutex_ while it uses engine_options_.                   *)
InitStrands ==
  /\ ~OptionsExist
  /\ pc[InitEngine] = "options" \/ (pc[InitEngine] = "wait" /\ mutex = Free /\ Responded)
  /\ TouchOptions
  /\ mutex' = InitEngine
  /\ Strands(InitEngine)
  /\ UNCHANGED <<position, fen, running, attrs, pvs, sending, pipeVars, engine,
                 historyVars, disturbed>>

InitSendsNewGame ==
  /\ pc[InitEngine] = "waitReady" /\ mutex = Free /\ "READY" \in attrs
  /\ toEngine' = Append(toEngine, Plain("ucinewgame", InitEngine))
  /\ Goto(InitEngine, "done")
  /\ UNCHANGED <<analyzeVars, sharedVars, sending, fromEngine, alive, engine,
                 historyVars, disturbed>>

-----------------------------------------------------------------------------
(* The reader.                                                              *)

(* Bug: the line keeps the board of the line before it.                     *)
ShowLineOnOldBoard(k, p) ==
  pvs' = [pvs EXCEPT ![k] = [searched |-> p,
            shown |-> IF pvs[k] = NoLine THEN position ELSE pvs[k].shown]]

(* Handle(Info): the moves are applied to the board as it is now.           *)
ShowLine(k, p) == pvs' = [pvs EXCEPT ![k] = [searched |-> p, shown |-> position]]

(* Once mutex_ and pvs_ are gone, a line is written nowhere.                *)
HandleInfo ==
  /\ pc[Reader] = "read" /\ fromEngine # <<>> /\ Head(fromEngine).kind = "info"
  /\ mutex = Free
  /\ IF MembersGone THEN UNCHANGED pvs
     ELSE ShowLine(Head(fromEngine).value, Head(fromEngine).position)
  /\ fromEngine' = Tail(fromEngine)
  /\ UNCHANGED <<analyzeVars, attrs, mutex, pc, sending, toEngine, alive,
                 engine, historyVars, disturbed>>

(* Handle(Input) and Handle(Option) take no lock; bestmove is ignored.      *)
Stored(o) == IF OptionsExist THEN o ELSE Misused

HandleReply ==
  /\ pc[Reader] = "read" /\ fromEngine # <<>> /\ Head(fromEngine).kind # "info"
  /\ LET kind == Head(fromEngine).kind
     IN /\ attrs' = attrs \cup { a \in {"UCI", "READY"} :
                        \/ a = "UCI" /\ kind = "uciok"
                        \/ a = "READY" /\ kind = "readyok" }
        /\ options' = options \cup { Stored(o) : o \in {kind} \cap OptionIds }
        /\ Goto(Reader, IF kind \in {"uciok", "readyok"} THEN "notify" ELSE "read")
  /\ fromEngine' = Tail(fromEngine)
  /\ UNCHANGED <<position, fen, running, pvs, mutex, sending, toEngine,
                 alive, engine, historyVars, disturbed>>

(* cv_.notify_all: InitEngine needs no notification to have gone on.        *)
Notify ==
  /\ pc[Reader] = "notify"
  /\ Goto(Reader, "read")
  /\ UNCHANGED <<analyzeVars, sharedVars, sending, pipeVars, engine, historyVars, disturbed>>

ReaderStrands ==
  /\ \/ pc[Reader] = "notify" /\ MembersGone
     \/ /\ pc[Reader] = "read" /\ fromEngine # <<>>
        /\ \/ Head(fromEngine).kind = "info" /\ MembersGone
           \/ Head(fromEngine).kind \in OptionIds /\ ~OptionsExist
  /\ Strands(Reader)
  /\ UNCHANGED <<analyzeVars, sharedVars, sending, pipeVars, engine, historyVars, disturbed>>

(* The pipe is closed, or ~Engine has set stop_.                            *)
ReaderExits ==
  /\ pc[Reader] = "read" /\ ~alive
  /\ Goto(Reader, "exited")
  /\ UNCHANGED <<analyzeVars, sharedVars, sending, pipeVars, engine, historyVars, disturbed>>

-----------------------------------------------------------------------------
(* The UI thread.                                                           *)

(* The rest of Main's constructor sets engine_attrs_ to 0; then Analyze,     *)
(* whose base View took Main, constructs engine_options_.                   *)
ConstructOptions ==
  /\ pc[UI] = "constructOptions"
  /\ options' = options \cap {Misused}
  /\ Goto(UI, "idle")
  /\ UNCHANGED <<position, fen, running, sharedVars, sending, pipeVars, engine,
                 historyVars, disturbed>>

Construct ==
  /\ pc[UI] = "construct"
  /\ attrs' = {}
  /\ Goto(UI, "constructOptions")
  /\ UNCHANGED <<analyzeVars, pvs, mutex, sending, pipeVars, engine, historyVars, disturbed>>

(* A handler that has nothing more to send returns, and with it the lock it *)
(* may hold.                                                                *)
Return ==
  /\ Goto(UI, "idle")
  /\ mutex' = IF mutex = UI THEN Free ELSE mutex

SendNext ==
  /\ pc[UI] = "sending" /\ sending[UI] # <<>>
  /\ toEngine' = Append(toEngine, Head(sending[UI]))
  /\ sending' = [sending EXCEPT ![UI] = Tail(@)]
  /\ IF Len(sending[UI]) = 1 THEN Return ELSE UNCHANGED <<pc, mutex>>
  /\ UNCHANGED <<analyzeVars, attrs, pvs, fromEngine, alive, engine,
                 historyVars, disturbed>>

SendNothing ==
  /\ pc[UI] = "sending" /\ sending[UI] = <<>>
  /\ Return
  /\ UNCHANGED <<analyzeVars, attrs, pvs, sending, pipeVars, engine, historyVars, disturbed>>

Key == pc[UI] = "idle" /\ keys < MaxKeys /\ keys' = keys + 1

(* What Start and Stop send; both leave running_ to their callers here.     *)
StartCommands(p) == <<Command("position", p, 0, UI), Plain("go", UI)>>
StopCommands == IF running THEN <<Plain("stop", UI)>> ELSE <<>>

(* Bug: Start does not ask whether the engine runs.                         *)
MayStartTwice == "UCI" \in attrs
MayStart == ~running /\ "UCI" \in attrs

Start ==
  /\ Key /\ MayStart
  /\ running' = TRUE
  /\ sending' = [sending EXCEPT ![UI] = StartCommands(fen)]
  /\ Goto(UI, "sending")
  /\ UNCHANGED <<position, fen, options, sharedVars, pipeVars, engine, edited, disturbed>>

Stop ==
  /\ Key /\ running
  /\ running' = FALSE
  /\ sending' = [sending EXCEPT ![UI] = StopCommands]
  /\ Goto(UI, "sending")
  /\ UNCHANGED <<position, fen, options, sharedVars, pipeVars, engine, edited, disturbed>>

ClearHash ==
  /\ Key
  /\ sending' = [sending EXCEPT ![UI] = <<Plain("clearhash", UI)>>]
  /\ Goto(UI, "sending")
  /\ UNCHANGED <<analyzeVars, sharedVars, pipeVars, engine, edited, disturbed>>

(* The FEN field writes through to fen_ before Enter is pressed.            *)
EditFen(p) ==
  /\ Key /\ p # fen
  /\ fen' = p /\ edited' = TRUE
  /\ UNCHANGED <<position, running, options, sharedVars, pc, sending, pipeVars,
                 engine, disturbed>>

(* Bug: the search is started again with the FEN it had.                    *)
RestartWithOld(p) == IF running THEN StartCommands(fen) ELSE <<>>
Restart(p) == IF running THEN StartCommands(p) ELSE <<>>

OnFenChange ==
  /\ Key /\ mutex = Free
  /\ mutex' = UI
  /\ position' = fen /\ edited' = FALSE
  /\ sending' = [sending EXCEPT ![UI] =
       StopCommands \o <<Plain("ucinewgame", UI)>> \o Restart(fen)]
  /\ Goto(UI, "sending")
  /\ UNCHANGED <<fen, running, options, attrs, pvs, pipeVars, engine, disturbed>>

(* MaybeMove with a legal move between the two squares.                     *)
MaybeMove(p) ==
  /\ Key /\ mutex = Free
  /\ mutex' = UI
  /\ position' = p /\ fen' = p /\ edited' = FALSE
  /\ sending' = [sending EXCEPT ![UI] = StopCommands \o Restart(p)]
  /\ Goto(UI, "sending")
  /\ UNCHANGED <<running, options, attrs, pvs, pipeVars, engine, disturbed>>

(* The settings offer the engine's options.  A new MultiPV value takes the  *)
(* lines above it off the screen; the analysis stays stopped.               *)
OnChange(n) ==
  /\ Key /\ "MultiPV" \in options
  /\ running' = FALSE
  /\ sending' = [sending EXCEPT ![UI] =
       StopCommands \o <<Command("setoption", StartPos, n, UI)>>]
  /\ Goto(UI, "stopping")
  /\ UNCHANGED <<position, fen, options, sharedVars, pipeVars, engine, edited, disturbed>>

OnChangeStops ==
  /\ pc[UI] = "stopping" /\ Len(sending[UI]) = 2
  /\ toEngine' = Append(toEngine, Head(sending[UI]))
  /\ sending' = [sending EXCEPT ![UI] = Tail(@)]
  /\ UNCHANGED <<analyzeVars, sharedVars, pc, fromEngine, alive, engine,
                 historyVars, disturbed>>

Above(n) == { k \in n + 1 .. Lines : \A i \in n + 1 .. k : pvs[i] # NoLine }

(* Bug: Unset clears the moves of a line and leaves its id.                 *)
UnsetMovesOnly(n) ==
  pvs' = [k \in 1 .. Lines |-> IF k \in Above(n) THEN [pvs[k] EXCEPT !.searched = "none"] ELSE pvs[k]]
Unset(n) == pvs' = [k \in 1 .. Lines |-> IF k \in Above(n) THEN NoLine ELSE pvs[k]]

OnChangeUnsets ==
  /\ pc[UI] = "stopping" /\ Len(sending[UI]) = 1 /\ mutex = Free
  /\ Unset(Head(sending[UI]).value)
  /\ Goto(UI, "sending")
  /\ UNCHANGED <<analyzeVars, attrs, mutex, sending, pipeVars, engine,
                 historyVars, disturbed>>

(* The screen is destroyed from the outside in: engine_options_ goes, then   *)
(* View and with it Main, which joins InitEngine and only then loses its    *)
(* members one after the other, up to engine_; ~Engine terminates the       *)
(* process and joins the reader.                                            *)
Close ==
  /\ Key
  /\ Goto(UI, "join")
  /\ UNCHANGED <<analyzeVars, sharedVars, sending, pipeVars, engine, edited, disturbed>>

DestroyMembers ==
  /\ pc[UI] = "join" /\ pc[InitEngine] = "done"
  /\ Goto(UI, "terminate")
  /\ UNCHANGED <<analyzeVars, sharedVars, sending, pipeVars, engine, historyVars, disturbed>>

(* Bug: the reader is joined while the process it reads from still runs.    *)
LeftAlive == alive
Terminated == FALSE

Terminate ==
  /\ pc[UI] = "terminate"
  /\ alive' = Terminated
  /\ Goto(UI, "joinReader")
  /\ UNCHANGED <<analyzeVars, sharedVars, sending, toEngine, fromEngine, engine,
                 historyVars, disturbed>>

JoinReader ==
  /\ pc[UI] = "joinReader" /\ pc[Reader] = "exited"
  /\ Goto(UI, "exited")
  /\ UNCHANGED <<analyzeVars, sharedVars, sending, pipeVars, engine, historyVars, disturbed>>

-----------------------------------------------------------------------------
(* The external engine: a process that follows the UCI protocol, and stays  *)
(* in its search until it is stopped or has searched enough.                *)

Answer(c) ==
  CASE c.cmd = "uci"     -> <<Output("MultiPV", StartPos, 0),
                              Output("Clear Hash", StartPos, 0),
                              Output("uciok", StartPos, 0)>>
    [] c.cmd = "isready" -> <<Output("readyok", StartPos, 0)>>
    [] c.cmd = "stop" /\ engine.searching -> <<Output("bestmove", StartPos, 0)>>
    [] OTHER -> <<>>

Disturbing == {"position", "go", "ucinewgame", "setoption"}

(* What the engine makes of a setoption line.  The client prints it with    *)
(* id in the place of name (setoption.cpp:66), so the engine may as well    *)
(* not understand it.                                                       *)
LinesAfter(c) ==
  {engine.lines} \cup IF c.cmd = "setoption" THEN {c.value} ELSE {}

EngineReads ==
  /\ alive /\ toEngine # <<>>
  /\ LET c == Head(toEngine)
     IN /\ \E n \in LinesAfter(c) :
             engine' = [position  |-> IF c.cmd = "position" THEN c.position ELSE engine.position,
                        lines     |-> n,
                        searching |-> c.cmd = "go" \/ (engine.searching /\ c.cmd # "stop")]
        /\ fromEngine' = fromEngine \o Answer(c)
        /\ disturbed' = (disturbed \/ (c.by = UI /\ engine.searching /\ c.cmd \in Disturbing))
  /\ toEngine' = Tail(toEngine)
  /\ UNCHANGED <<analyzeVars, sharedVars, pc, sending, alive, historyVars>>

Unread == Cardinality({i \in DOMAIN fromEngine : fromEngine[i].kind = "info"})

EngineInfo(k) ==
  /\ alive /\ engine.searching /\ k <= engine.lines /\ Unread < MaxUnread
  /\ fromEngine' = Append(fromEngine, Output("info", engine.position, k))
  /\ UNCHANGED <<analyzeVars, sharedVars, pc, sending, toEngine, alive,
                 engine, historyVars, disturbed>>

EngineFinishes ==
  /\ alive /\ engine.searching
  /\ engine' = [engine EXCEPT !.searching = FALSE]
  /\ fromEngine' = Append(fromEngine, Output("bestmove", StartPos, 0))
  /\ UNCHANGED <<analyzeVars, sharedVars, pc, sending, toEngine, alive,
                 historyVars, disturbed>>

-----------------------------------------------------------------------------
InitStep == \/ InitSendsUci \/ InitReadsOptions \/ InitSendsOption
            \/ InitSendsIsReady \/ InitSendsNewGame \/ InitStrands
ReaderStep == HandleInfo \/ HandleReply \/ Notify \/ ReaderExits \/ ReaderStrands
HandlerStep == \/ Construct \/ ConstructOptions \/ SendNext \/ SendNothing
               \/ OnChangeStops \/ OnChangeUnsets
KeyStep == \/ Start \/ Stop \/ ClearHash \/ OnFenChange
           \/ \E p \in Positions : EditFen(p)
           \/ \E p \in Replies[position] : MaybeMove(p)
           \/ \E n \in 1 .. Lines : OnChange(n)
ClosingStep == DestroyMembers \/ Terminate \/ JoinReader

(* The exception InitEngine lets escape ends the program, and so may the     *)
(* use of a destroyed object; it may also keep a thread for ever.           *)
Crashed == \E t \in {InitEngine, Reader} : pc[t] = "failed"
Stuck == \E t \in {InitEngine, Reader} : pc[t] = "stuck"
Ended == Crashed \/ pc[UI] = "exited"
NoMoreKeys == pc[UI] = "idle" /\ keys = MaxKeys

Next ==
  \/ /\ ~Crashed
     /\ \/ InitStep \/ InitFails \/ ReaderStep
        \/ HandlerStep \/ KeyStep \/ Close \/ ClosingStep
        \/ EngineReads \/ EngineFinishes
        \/ \E k \in 1 .. Lines : EngineInfo(k)
  \/ (Ended \/ Stuck \/ NoMoreKeys) /\ UNCHANGED vars

Spec == Init /\ [][Next]_vars

(* A runnable thread and the engine's process run; the user need not press  *)
(* a key; an engine that searches reports every line it was asked for again *)
(* and again, and need not finish.                                          *)
Fairness ==
  /\ WF_vars(~Crashed /\ (InitStep \/ InitFails))
  /\ WF_vars(~Crashed /\ ReaderStep)
  /\ WF_vars(~Crashed /\ (HandlerStep \/ ClosingStep))
  /\ WF_vars(~Crashed /\ EngineReads)
  /\ \A k \in 1 .. Lines : SF_vars(~Crashed /\ EngineInfo(k))

FairSpec == Spec /\ Fairness

-----------------------------------------------------------------------------
(* Every variable keeps its type, and the mutex has the holder the threads'  *)
(* program counters say: InitEngine from the end of its first wait to the    *)
(* start of its second, or for ever if it got stuck there, the UI thread     *)
(* only inside a handler.                                                    *)
TypeOK ==
  /\ position \in Positions /\ fen \in Positions /\ running \in BOOLEAN
  /\ attrs \subseteq {"UCI", "READY"} /\ options \subseteq OptionIds \cup {Misused}
  /\ \A k \in 1 .. Lines : \/ pvs[k] = NoLine
                           \/ pvs[k] \in [searched : Positions, shown : Positions]
  /\ mutex \in {Free, UI, InitEngine}
  /\ mutex = InitEngine => pc[InitEngine] \in {"options", "stuck", "failed"}
  /\ pc[InitEngine] \in {"options", "stuck"} => mutex = InitEngine
  /\ mutex = UI => pc[UI] = "sending"
  /\ pc[UI] \in {"construct", "constructOptions", "idle", "stopping", "sending", "join",
                 "terminate", "joinReader", "exited"}
  /\ pc[InitEngine] \in {"uci", "wait", "options", "waitReady", "done", "stuck", "failed"}
  /\ pc[Reader] \in {"read", "notify", "exited", "stuck", "failed"}
  /\ engine \in [position : Positions, searching : BOOLEAN, lines : 1 .. Lines]
  /\ Unread <= MaxUnread /\ keys <= MaxKeys

Settled == pc[UI] = "idle" /\ toEngine = <<>>

(* Once every command sent has been read, an engine that searches was        *)
(* started by the user, not stopped since, and searches the position on the  *)
(* board, unless the FEN field was edited and not entered: whatever order    *)
(* moves, FENs, starts and stops came in and whatever the handshake did.     *)
EngineFollows ==
  (Settled /\ alive /\ engine.searching) =>
    running /\ (edited \/ engine.position = position)

(* Start, OnFenChange, MaybeMove and OnChange never reach an engine that is  *)
(* still searching: UCI leaves what it does then open.                       *)
ToldWhenIdle == ~disturbed

(* Once InitEngine is past its first wait, every option the engine declared  *)
(* is in engine_options_, and none is still to come: the options are written *)
(* without the mutex, and only the order of the engine's output makes        *)
(* reading them sound, and closing the screen later safe from the reader.    *)
(* What is in engine_options_ is not claimed if a thread used it while it    *)
(* did not exist (Misused): if the engine answered before the screen was     *)
(* constructed, or the user closed it before InitEngine sent isready.        *)
OptionsKnown ==
  pc[InitEngine] \in {"options", "waitReady", "done"} =>
    /\ Misused \notin options => options = OptionIds
    /\ \A i \in DOMAIN fromEngine : fromEngine[i].kind \notin OptionIds

Steady == ~Crashed /\ ~Stuck /\ engine.searching /\ running /\ ~edited /\ pc[UI] = "idle"

(* While an analysis goes on undisturbed, stale info lines that were in the  *)
(* pipe when the board changed are replaced: every line the engine reports   *)
(* ends up about the board, and shown on that board.  Not claimed if an      *)
(* engine_options_ that did not exist yet keeps InitEngine, with the mutex.  *)
FreshLines ==
  <>[]Steady => <>[](\A k \in 1 .. engine.lines :
                       pvs[k] = [searched |-> position, shown |-> position])

(* Nothing is under way: the handshake is over, the engine has read and      *)
(* answered everything and does not search, and the reader has read it all.  *)
AllRead ==
  /\ pc[InitEngine] = "done" /\ pc[Reader] = "read"
  /\ toEngine = <<>> /\ fromEngine = <<>> /\ ~engine.searching

(* Closing the screen ends, unless a thread is kept by an object that was    *)
(* destroyed under it: the UI thread joins InitEngine and the reader, and    *)
(* neither waits for it or for the mutex for ever.  Closed while nothing is  *)
(* under way, the screen is left in good order: no destroyed object is used  *)
(* that might end the program or keep a thread.                              *)
SessionEnds ==
  /\ (pc[UI] = "join") ~> (Ended \/ Stuck)
  /\ (pc[UI] = "join" /\ AllRead) ~> (pc[UI] = "exited")
=============================================================================
