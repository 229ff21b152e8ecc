# Chesstillo in TLA+

A verification project for chesstillo: a chess engine with a parallel search (`engine/`), a library that
talks UCI to engine processes (`uci/`), and a terminal user interface for analysis (`tui/`). The modules
are translated from the C++ source, TLC checks them on small instances, and TLAPS proves the theorems of
the proof modules for every value of the constants.

`PROJECT.json` lists the components, the runs with their properties, the map from definitions to source
lines, the findings, the hazards and the theorems.

## 1. The system

| Component | State it keeps | Operations | Talks to |
|---|---|---|---|
| Node search (`node.cpp`, `worker.cpp`, `search.cpp`) | per node: window, best score and move, move cursor, slaves, waiting/helping, stop point; per search: state, children | FirstMove, NextMove, Update, Split, GetHelper, WaitSlaves; Worker::Assign, Search, the worker loop; StopAll | worker registry, table, position |
| Worker registry | a stack of idle workers | GetIdleWorker, PutIdleWorker | node search |
| Sequential search (`search.cpp`) | depth, the node's window | Run (iterative deepening), search, NW_Search, Quiesce, OrderMoves | table, evaluation, move generator |
| Transposition table (`transposition.cpp`) | entries of six fields, a spin lock each | Add, Probe, CutOff, Clear, Resize | shared by all search threads |
| Job scheduler (`scheduler.cpp`) | pending jobs, free queue, busy set, per worker a job and two flags | Init, Dispatch, Run, MakeAvailable, Monitor, Status::Wait, Stop | threaded perft is its client |
| Position (`position.cpp`, `hash.cpp`, `fen.cpp`) | bitboards, mailbox, banned squares, en passant square and target, rights, clocks, hash, history | Make, Undo, ApplyFen, ToFen | every search, perft, the board of the UI |
| Move generation (`move_gen.cpp`) | none | GenerateMoves, CheckMask, PinMask, DeduceMove | position |
| UCI client (`uci/src/engine.cpp`, `link.cpp`) | a child process, two pipes, a reader thread | Send, Loop, the destructor | the analysis screen is its handler |
| Analysis screen (`analyze.cpp`) | board, FEN field, running flag, lines, engine options and attributes, a mutex and a condition variable | handshake thread, handlers of info/option/uciok/readyok, keys | UCI client, board widget |
| Modal views and mappings (`modal_view.cpp`, `view.cpp`, `mapping.cpp`) | mode and mode before, key buffer, table of mappings in blocks, prompt, modal, focus history, a thread that waits out a timeout | OnEvent, MaybeApplyKeymap, Loop, ShowModal, HideModal, ShowPrompt, SetKeymap, DelKeymap, the destructor | every screen is one; the analysis screen binds q, s, r and others |
| Evaluation (`evaluation.cpp`) | none | Evaluate and its terms | position; the quiescence search |
| UCI text (`scanner.cpp`, `parser.cpp`, `command/*`, `link.cpp`) | none, but for Link's `quit_` | the scanner's types, Parse and ToString of the 14 commands, what each end does with a line | both sides of the pipe |
| Engine executable, tablebases, widgets, configuration, `nn/` | small or none | | |

What is hard here:

- **Interleavings.** Up to `threads` searches share one `Node` that lives on one of their stacks. Some of
  its fields are read without its mutex; slaves remove themselves while the master waits; the waiting
  master may be lent out to search for one of its own slaves.
- **Stops.** A cut-off must reach everybody who searches below the node, and nobody else; the flag is one
  field per search, not per node, and is copied and reset without one lock around both.
- **Lost wake-ups and lock order.** The pool takes its two kinds of mutex in both orders.
- **Torn and stale entries** of a table that all threads write without a common lock.
- **State kept twice.** The mailbox, the banned squares and the hash repeat what the bitboards say; Undo
  repairs some of it and takes the rest from a stack.
- **A timeout racing the keys.** A key sequence that is complete runs its callback on one thread and is forgotten
  by another; the event that forgets it is queued behind whatever was typed.
- **A mapping that is two.** SetKeymap and DelKeymap find entries by block, mode set and sequence and stop at the
  first; entries are split and joined as modes come and go.
- **Text that is written by one hand and read by another.** Each UCI command has a printer and a parser that
  nothing holds together.
- **Callbacks from a reader thread** into a screen whose constructor, key handlers and destructor run on
  another, and an engine whose output lags behind the board.

## 2. Modules

| Module | Models | State and actions |
|---|---|---|
| `SplitNode` | one node of the parallel search with its master, the workers and helpers it is split to | the variables are the fields of `Node`, `Search` and `Worker`; a step is one critical section or one unlocked access to a field that another thread writes |
| `NodeTree` | the nodes of a whole search and the threads that search, split and help there, with GetHelper along the chain of parents | a stack of frames for each thread: a Node in `Search::search`, or a Search in `Run` or `Worker::Search`; a pointer is a thread and a place on its stack |
| `Scheduler` | the thread pool with `ThreadedPerft` as client | mutexes are variables with an owner, since they are held across calls; a condition wait is a guard |
| `AtomicTable` | what the table promises: Add and Probe at one instant | abstract specification |
| `TranspositionTable` | Add, Probe and Clear field by field under spin locks | refines `AtomicTable` through `Abstract == INSTANCE AtomicTable WITH ...`: an Add takes effect when it decides, a Probe when it compares |
| `AlphaBeta` | iterative deepening, search, NW_Search, Quiesce and CutOff on a finite game whose evaluations Init chooses | one action per iteration; recursive operators, so TLC only |
| `Board`, `Position`, `MoveGen` | bitboards as sets of squares, Make, Undo, FEN, hashing, GenerateMoves and DeduceMove | operators |
| `Evaluation` | Evaluate, term by term, with the order of its loops | operators |
| `Rules` | the rules of chess, stated without masks, pins or mailbox: the reference | operators |
| `Game` | a game on one Position object, Make and Undo in any order | `pos`, `history`, the line and what was seen before each move |
| `Colours` | the evaluation on the positions of a game; extends `Game` and `Evaluation` | `Swapped`, the position with the colours exchanged |
| `Session` | the analysis screen, the UCI client and the engine's process | three threads with program counters, two pipes as sequences, the engine as an environment that follows UCI; the screen is constructed and destroyed in steps, while the other threads run |
| `Mapping` | the table of key mappings (`mapping.cpp`): SetKeymap, DelKeymap, the look-up of a sequence in a mode | operators on a function from blocks to sequences of entries |
| `Modal` | a view with modes from its construction to its destruction; extends `Mapping` | the screen's thread and the view's thread with program counters, the screen's queue of tasks; what is bound, and in which order, comes from a list of calls |
| `UciText` | the text of UCI: each command's parser and printer, and the two ends that exchange lines (`uci::Engine`, `uci::Link`) | operators per command; the line in the pipe, what was sent and heard |
| `SplitNodeProofs`, `NodeTreeProofs`, `SchedulerProofs`, `TranspositionTableProofs`, `SessionProofs`, `GameProofs`, `LegalityProofs`, `ModalProofs` | theorems | |
| `MC*` | constants for TLC | |

How they compose: `SplitNode` assumes of a move's own search the fail-soft contract that `AlphaBeta` checks
as `FailSoft`, and of the table that Add and Probe are atomic, which `TranspositionTable` shows. `NodeTree` puts many
nodes together: what `SplitNode` takes from its surroundings (a stop from an enclosing node, a slave that asks the
waiting master, an inner node that is cut off) are steps of other nodes there. In turn it merges steps that `SplitNode`
has apart (taking a worker, Clone and AddSlave; Detach and RemoveSlave), leaves out scores and re-searches, and has one
iteration of Run. `AlphaBeta`
assumes that moves and evaluations are given, `Game` checks the moves. `Session` takes a position to be a
value and a legal move to be a step between values, and that a command arrives as the command that was sent:
`ReadsBack` of `UciText` says for which commands that is so. `Modal` runs the callbacks that `Session` has as the
keys of its screen.

What is abstracted: scores are small integers, the move list of a node is `1 .. MoveCount` with a minimax
value each, Zobrist keys are distinct names and a hash is the set of the names in it (exclusive or is
symmetric difference, so collisions of random numbers are left out), sliding attacks of the magic tables and
the fills are the squares with nothing in between, a FEN is a record of its six fields, and commands of UCI are
records. In `UciText` a line is the sequence of its words and numbers, and a message is an error or none, without
its column. In `NodeTree` a field that is read without its mutex has its value of that moment. In `Modal` a key is a model value, and the left side of a mapping a sequence of keys, as it is once
ReplaceTermcodes is through with it. FTXUI's screen is external: a queue of tasks that its loop runs one at a time,
which takes no more once the loop is to end. Handling an event is two steps, up to the end of the callback and
what follows it, because the callback may outlast the timeout. `Position` does not show the assignments to the
mailbox within Make, because UpdateMailbox writes it anew at the end of Make; those of Undo are modelled, nothing
rewrites them there.

## 3. Runs

| Run | Question | Bounds and why they are enough |
|---|---|---|
| `split` | Is the result of a node split to several workers an alpha-beta result, with moves and workers handed out once? | null window, four moves, two workers (symmetric), one stop from outside: the eldest move, two slaves' and the master's own run at once, and a stop can fall anywhere |
| `wait` | Does the node outlive its slaves, does the wait end, do workers come back? | PV node, one worker, one helper, one slave at a time, one inner cut-off, one request for help, one stop |
| `tree` | Do masters that help each other's nodes, each with its own mutex held, ever tangle? | five nodes on four levels, three moves each, three threads, slaves on every level, the middle nodes may be cut off: with four nodes or three levels no two masters help at once, and no thread that helps waits for a mutex; 1,065,165 states |
| `pool` | Is `busy_` exact, is no job lost or run twice, does everything end? | two workers, four jobs: more jobs than workers, so that jobs are pending while workers come free; one job is not waited for |
| `delete` | finding | one worker, one job |
| `table` | Is the table linearizable? | two threads, three positions in two slots, four entries: both the same and different positions meet in a slot |
| `search` | Is pruning sound, for every window and every depth? | every evaluation with two values of a tree of ten positions, three plies, with a capture and a recapture behind the horizon; the values are such that a null window can fail high below the value of its move |
| `game` | Are the generated moves the legal ones, does Undo restore, is the incremental state exact, does the evaluation treat the colours alike? | five positions, two plies and back in every order, 8732 states: pins on lines and diagonals, en passant along either king's rank, a check answered en passant, castling both ways and past attacked squares, promotion by push and capture, the crowded test position |
| `fen` | finding | one position, two plies |
| `session` | Does the engine follow the board, whatever is pressed when? | three keys, two positions, two lines, one unread info line: start, move or FEN, stop in any order around the handshake, and the screen closed after any of them or at once; the key that closes is one of the three; 905,540 states |
| `modal` | Does the last call for a key win, does a sequence run its callback once, is the focus on what is shown, and can the view be left? | the bindings of the analysis screen, or a mapping of two keys beside one of a single key, with up to three keys typed and one piece of news: enough for a key and a clear to cross, for the prompt and the modal to be shown together, and for Quit at every place of the timeout thread; every list of up to three of 17 calls about one sequence: an entry can be split and met again; 542,960 states |
| `uci` | Is what one end prints what the other reads, and does no line go to and fro? | some twenty thousand commands, each with every combination of two or three of its values around zero and the largest int, and twenty thousand lines of up to six words, wrong ones as well; 46,180 states |

Deadlock is checked in every run but `modal` and `uci`: a view whose keys are typed waits for more, and Link
reads nothing after `quit`. Where the other systems may stop the modules have an explicit action
(`Terminated`, `Ended`) whose guard says that all threads are where they belong. The counters that the
modules bound are named in their CONSTANTS (`MaxInnerCuts`, `MaxParentStops`, `MaxHelps`, `MaxPly`, `MaxKeys`,
`MaxUnread`, `MaxDepth`; in `Modal` each of `Scripts` has its number of `keys` and `reports`). In
the `search` run (`MCAlphaBeta_exact.cfg`) the table keeps the entry of the root only (`Remembered`), see the
remark on CutOff below.

What the passing runs check beside the types:

- `ResultSound`, `BestConsistent`, `StopPointEnds`: what a split node stores bounds every move from above when
  it is below beta and is attained when it is above alpha; a stop ordered at a node ends with the node.
- `MoveExclusive`, `RegistrySound`, `AssertionsHold`, `NodeOutlivesSlaves`, `HelpConsistent`, `NodeEnds`: the
  protocol between master, slaves and registry. `NodeEnds` has every worker back in the registry as well.
- `Untangled`, and the last conjunct of `NodeTree`'s `TypeOK`: a master is given help only below the node it waits at,
  no threads all wait for mutexes held among themselves, and `slaves_` has exactly who serves a node, over all nodes
  that are open. No step of `NodeTree` leads back to a state that was, so its deadlock check says that every search
  comes to its end.
- `BusyExact` (and no worker idles while a job is pending), `JobHeldOnce` (and a job that was waited for has run),
  `WaitReturns`, `ShutsDown`: the pool.
- `Linearizable`, `Deepens`: the table.
- `RootExact`, `FailSoft`: the sequential search against minimax.
- `MovesLegal`: GenerateMoves is the set of legal moves, with what each captures. Rights and en passant of the
  rules are derived from the moves of the game, not taken from the position. Castling with a rook that came to
  a corner whose rook was taken is left out by name (`Lapsed`), see below.
- `UndoRestores`, `FenRoundTrips`, `Deduced`: state kept twice agrees with itself. The exceptions are named
  in the definitions.
- `ColoursAlike`: the terms of the evaluation that are written once for White and once for Black (material,
  mobility, files, the seventh rank, the king) change their sign when the colours are swapped. The pawn
  structure and the passed pawns do not, see below. `EvaluationTest`, an assumption of `MCGame`, evaluates the
  positions of `evaluation_test.cpp` and compares every score the test expects.
- `EngineFollows`, `ToldWhenIdle`, `OptionsKnown`, `FreshLines`, `SessionEnds`: the analysis screen. Each says what it
  leaves out of the time in which the screen's members do not exist: `OptionsKnown` claims nothing of what is in
  `engine_options_` once a thread used it outside its lifetime (`Misused`), only that no option is still to come;
  `FreshLines` and the first part of `SessionEnds` except a thread that such a use keeps for ever (`Stuck`), and a
  program that it ends is `Ended`. The second part of `SessionEnds` has no exception: closed while nothing is under
  way (`AllRead`), the screen is destroyed and the program goes on.
- `LastCallWins`, `ActsOnce`, `QuitEnds`: the view with modes. Each names the case in which the code does
  otherwise: `mixed` (a call that joins INTERACT with another mode, or meets two entries of its sequence), `early`
  (an event between a callback and the clearing of the buffer), `orphaned` (the thread waits on the condition
  variable before that is constructed). The last conjunct of `Modal`'s `TypeOK` says where the focus is: the modal,
  the prompt and the main content push and pop the same history.
- `ReadsBack`: a command that is printed is the command that is read, if and only if it is `Plain`, where `Kept`
  says what the text keeps of it. Both definitions are the list of what the text loses.

### Fairness

- `SplitNode`: weak fairness of the master and of each slave. These are threads of the operating system whose
  steps are never disabled and re-enabled by others for ever: the critical sections are short, and the only
  long one (`help_->Search()`) is a step of the holder. A stop that an enclosing node has begun reaches the
  children. No fairness makes an enclosing node stop this one.
- `Scheduler`: weak fairness of the client, the monitor and each worker; a callback returns. Nothing is assumed
  of the optimiser: `WaitReturns` allows the client to end in the loop that a build makes of unsynchronised
  reads (`Spin`).
- `Session`: weak fairness of the three threads and of the process' reading of its input. Strong fairness that a
  searching engine reports each line again and again, because the pipe is at times full. None for the user, and
  none for the engine to finish.
- `Modal`: weak fairness of the construction, the screen's loop, the second half of an event, the destruction and
  the view's thread: each is one thread at one place in its code. Nobody has to type, so `QuitEnds` starts from a
  `Quit` that ran.
- `NodeTree`, `TranspositionTable`, `AlphaBeta`, `Game`, `UciText`: safety only.

### Findings

1. `delete`: `Status::Wait` may return between the two assignments of `Execute`, and the caller's `delete` comes
   before the second (`scheduler.hpp:36`).
2. `fen`: the b of an en passant square on the b file is read as the side to move (`fen.cpp:58`).

Further behaviour met while modelling, kept in the models or named in a property rather than shown by a run:

- A slave's PV re-search stores the child's score without negating it (`worker.cpp:95`), as the master's does
  (`search.cpp:153`). `ResultSound` is checked for null windows, where no score is inside the window, and fails in a PV
  node split to one worker with three moves. `wait` has a PV node and checks what survives.
- A slave that starts while an inner node of the master's own search is being cut off copies a stop that is not
  meant for it and drops its move (`worker.cpp:81`). `InnerCutters` says whose inner nodes may cut off: with the
  master among them `ResultSound` fails, the runs have the slaves only.
- A helper searches the same `Move` as the master that called it (`node.cpp:171`), and both write its `score`
  (`search.cpp:142`, `worker.cpp:90`). When another slave reaches beta the master is stopped at once and the helper is not:
  the stopped master may write a meaningless score into the move after the helper's own search has ended and before the
  helper reports it. With one worker, one helper and four moves `ResultSound` fails that way (`split` has no
  helper); what is stored then is a score at or above beta that no move attains.
- CutOff copies a bound into the node it does not cut, and the bound is stored as exact (`transposition.cpp:90`).
  With a table that forgets nothing a later iteration takes such an entry for the value of its position, and
  `RootExact` fails; the run therefore has a table that keeps the root (`Remembered`).
- Make takes the key of the queen side's right out of the hash when the king side's is lost, and twice when the
  king moves with both (`position.cpp:229`); an en passant capture takes the key of the file out twice
  (`position.cpp:243` and `265`); UpdateEnPassantSq may clear the square after it was hashed. `FenRoundTrips`
  therefore compares the keys of pieces and side to move only. That Undo restores the hash is checked whole.
- A right is kept when the rook is taken in its corner (`position.cpp:217`), so another rook that gets there may
  castle.
- Undo leaves the moved piece in the mailbox on the square it came to (`position.cpp:304`). GenerateMoves never
  reads such a square; DeduceMove would.
- DeduceMove flags any piece's move to the en passant square as an en passant capture and never promotes
  (`utils.cpp:62`).
- Evaluate counts for White whoever is to move (`evaluation.cpp:120`), and Quiesce takes the value for the side to
  move (`search.cpp:208`). `AlphaBeta` takes any values for what Evaluate returns: `RootExact` and `FailSoft` say
  that the search finds the minimax of these values, not that they mean the same to both sides.
- A pawn alone on its file is a doubled pawn: once per file for White, once per pawn for Black
  (`evaluation.cpp:500`). The loop over isolated pawns takes the neighbours of a pawn away before it looks at
  them, and the loop over backward pawns asks for supporting pawns among those it has not passed, which for Black
  never are where the support would come from (`evaluation.cpp:525`, `587`). The bonus of a passed pawn counts
  White's ranks from 1 and Black's from 8 down, where White's 7 has none (`evaluation.cpp:845`).
- `OrderMove` is no strict order: of two captures that gain the same each goes before the other
  (`search.cpp:270`); `AlphaBeta` takes the order within captures as given.
- The engine's options are dropped when the engine answers before `engine_options_` is constructed
  (`analyze.hpp:37`), and attributes it set are reset by the rest of Main's constructor. As the map does not exist,
  using it may also crash the program or keep the thread.
- Closing the screen destroys what other threads use. `engine_options_` is a member of `Analyze` (`analyze.hpp:38`)
  and goes before its base `View` destroys `Main`, so before `~Main` joins InitEngine (`analyze.cpp:81`): closed during
  the handshake, InitEngine reads and writes a dead map (`analyze.cpp:259-301`) with `mutex_` held, and the reader
  may put options into it (`analyze.cpp:456`). After the join `pvs_`, `cv_`, `mutex_` and the engine's name
  (`analyze.hpp:66-97`, declared after `engine_`) go before `~Engine` stops the reader (`engine.cpp:29-37`): an
  info line that is read in between locks a dead mutex and is written into dead lines, a reply notifies a dead `cv_`.
  In the model such a use has any of three outcomes: the program ends (`failed`), the thread never comes back
  (`stuck`, InitEngine with the mutex), or it goes on with whatever the object answers and writes nowhere. Memory
  that belongs to something else by then is not modelled.
- The screen sends `Clear Hash` to a searching engine (`analyze.cpp:498`), shows on the status bar what it starts
  earlier than it says (`analyze.cpp:484`), and a FEN that was typed but not entered is what the engine analyses
  (`EngineFollows` has `edited`). Lines of a higher MultiPV stay on the screen when it is lowered.
- SetKeymap returns at the first entry it changes and DelKeymap at the first it reduces, so a sequence that has two
  entries keeps one of them; INTERACT has a block of its own, and a call that names it together with another mode
  puts both in the other block, where INTERACT does not look (`mapping.cpp:76`). `MAP_HASH` takes the first
  character as a signed one (`mapping.cpp:106`).
- A key that comes between a callback and the clearing of the buffer is appended to the sequence that has run, and
  is forgotten with it; a piece of news in that time runs the callback again, where `view_test.cpp:52-69` expects
  one run per sequence. `ActsOnce` names the case (`early`).
- `thread_` is declared before `cv_` and started in the initialiser list (`modal_view.hpp:62`). If it waits before
  `cv_` is constructed it may never be notified, and the destructor then joins it for ever (`orphaned`).
- `setoption` is printed with `id`, and read with `name` (`setoption.cpp:66` and `23`, `parser_test.cpp:232`), so no
  setoption of this library is read by it. Its value is one token, a bool is printed as 0 or 1, and an error about
  a keyword as its value is made but not thrown (`setoption.cpp:58`).
- `register` glues a name to the word `code` (`register.cpp:100`). `info string` swallows the rest of the line
  (`info.cpp:327`), a `currline` of cpu 1 is printed without its number, and a score without a type reads a member
  that nothing has written (`info.cpp:142`). `option` prints an empty default as nothing, so that the next word is
  read for it, reads a default before the type as that of a check, and loses a negative `min` or `max`. It cuts the
  default of a spin to an `int` (`option.cpp:169`), so that one beyond comes back as another number, where a `min` or
  `max` beyond comes back as a word and is refused (`ToInt`, `Fits`).
- `go` has `wsec` and `bsec` where UCI has `wtime` and `btime`, at both ends.
- Consume at the end of a line quotes a token that is not there (`parser.cpp:98`); the parsers of `id` and of
  `info` read past the end as well (`id.cpp:25`, `info.cpp:243`). `UciText` makes the result `Undefined`.
- The scanner keeps a reference to the `string_view` it is given, which is a temporary at its callers
  (`scanner.hpp`); the text outlives it, and the model takes it to be read.

## 4. Proofs

The proof modules hold for every value of the constants that meets the assumptions of their modules
(`ThreadsAssumption`, `WindowAssumption`, `BoundsAssumption`, `TreeAssumption`, `PoolAssumption`, `TableAssumption`,
`SidesAssumption`, `NopAssumption`, `LettersAssumption`, `CallbacksAssumption`, `ScriptsAssumption`, `SessionAssumption`,
`GameAssumption`, `StartsLawful`), so for any number of threads, moves, nodes, slots, entries, positions and lines, any keys, callbacks and
lists of calls, and a game from any positions and of any length. TLC evaluates the assumptions in every run that extends the modules.

**`SplitNodeProofs`**, first part. No invariant of the node is inductive alone. `NodeOutlivesSlaves`, say, is about a
master that has stopped waiting, and depends on where every slave is when it does. The strengthening `IInv`
says, for each place a thread may be in its code, whether it is in `slaves_`, in `children_`, assigned, or
held locked by the master (`Registered`); what the master has in its hand and on the registry's stack
(`Hand`); that a thread that searches has a move (`HasMove`); that a helped slave stays in its sub-search
(`HelpInv`); that no window starts below the node's (`AboveAlpha`). One lemma per action shows that it keeps
`IInv`, `StepIInv` collects them, and `Inductive` is `Spec => []IInv`. From it follow `TypeCorrect`,
`NodeLifetime`, `Assertions`, `Registry`, `Cursor` and `HelpWhileWaiting`.

The second part of the module builds on that `IInv`. `HandsInv` says who holds which move (`Holds`: from the moment
`NextMove` hands it out until its score is reported), that only moves in front of the cursor were handed out
(`HandedOutInv`) and each to one thread but for the master and its helper (`Exclusive`), that alpha, best score and best
move agree (`BestInv`), and which stop the master's state stands for (`StopInv`). It is inductive in every node and
gives `MovesExclusive`, `StopPointsEnd` and `BestIsConsistent`. `ResultIsSound` needs `ResultInv`: as long as the search
is `Live` (not stopped, no cut-off yet) every slave runs or waits for an inner cut-off to end (`SlavesRun`), every
score about to be reported keeps the fail-soft contract with the alpha of now, which is at least the one it was searched with
(`Contracts`), and every move is in front of the cursor, held by a thread, or bounded by the best score
(`Accounted`). When the result is stored nobody holds a move and the cursor is at the end, so all moves are bounded. The
theorem is about `NullWindowNode`, and each of its three hypotheses is a thing the code gets wrong otherwise: a slave's
re-search in a PV node loses the sign, a slave that starts while an inner node of the master's is
cut off takes the copied flag for a stop and drops its move, and a helper searches the same `Move` as the master, whose
score field the master's stopped search may overwrite before the helper reports it (see Findings).

**`NodeTreeProofs`.** A master that helps holds its node's mutex, so what must not happen is that masters wait for one
another in a circle. Nothing in the state forbids it directly. `IInv` says how the stacks are built (`Links`: above a
master that helps, and at the bottom, is a Search; each Node is in the Search below it, and its parent is the Node below or
the one that Search serves), where a frame that is not on top is in its code (`Places`), that a master is called and a
`GetHelper` has climbed only along the chain of parents (`Targets`; `Above` is a least fixed point, because the chain runs
over many stacks), that `slaves_` is who serves the node or is called to it (`SlavesInv`), and, as the key to it, that the
nodes whose masters help can be numbered in the order of the calls (`Order`): what a thread serves, is called to or
is about to lock was called later than all that help on its own stack. A call gives its master the highest
number, which is right because it is a node that no other thread helps at yet. `Untangled` follows: threads that all waited for each
other would want nodes with ever higher numbers. That a called master still has a slave (`HasSlaves`), so that it does not
end its node while it is called, needs `Targets`: the chain from the node it is called to leads over one of its slaves. Each action
replaces, pushes or pops a frame; one lemma for each kind (`NodeStep`, `SearchStep`, `OpenStep`, `PopKeepsRest`) carries
the conjuncts that do not depend on which action it is. `TypeCorrect` (the raw pointers between the
stacks) and `NeverTangled` are the results, for any number of threads, nodes and levels.

**`SchedulerProofs`.** `IInv` says for each worker in which one place it is (`OnePlace`: about to get a job, with one, on
its way to the free queue, in it), that `busy_` is the set of those that are in one (`BusyInv`), in whose hands each job is
(`OneHand`, `HeldOnce`), how far it has come for the place of its worker in `Execute` (`Progress`, `Executing`), and that a
job is queued only while no worker idles (`QueueOnlyWhenBusy`). `BusyIsExact` and `JobsHeldOnce` follow; `RunOverwritesNothing` is the
action property that Run, which assigns `job_` blindly, relies on.

**`TranspositionTableProofs`.** `IInv` adds to the types and `Locked` that a thread that writes has written
exactly the fields before `next`, and a thread that reads has copied exactly those (`WriteInv`, `ReadInv`).
`Refinement` shows `Spec => Linearizable`: each action maps to the atomic action or to a stutter, because only
the thread that holds the slot's lock changes it. `DepthGrows` follows from the refinement and a second
invariant on whole entries.

**`ModalProofs`.** `IInv` is the types, and `FocusInv` in place of `FocusRight`: it gives `children_` and
`focus_history_` in full for each combination of prompt and modal, from which the focus follows (`TypeCorrect`).
`LastCallWins` is proved from `TablesAgree`: in the block of a sequence exactly one entry answers in a mode
(`Only`), and it has what the last call said (`Said`). A call that replaces, splits or removes an entry moves the
modes from one entry to another and leaves all other sequences alone (`Transfer`, `TableStep`); the first entry
that is hit exists as the least of a set of numbers. `ActsOnce` needs `ActsInv`: while nothing is `early`,
either a clearing is due and no key has come since the last callback, or the buffer is the word that was typed since
and runs nothing yet. It
rests on `TablesAgree`, because what runs is what the table says.

**`SessionProofs`.** What the engine will do is not in its state but in the commands it has yet to read, and a UI handler
sends its commands one by one. So `SearchInv` is about `Due`, the pipe followed by what the UI thread still holds back:
nothing in it that disturbs comes while the engine searches (`Orderly`), it leaves the engine quiet unless the screen
says it runs (`Quiet`), and its last position is the board's unless a FEN is being edited (`AimsAt`). A key appends to `Due`,
sending leaves it as it is, the engine takes its first, and InitEngine puts a command in the middle of it, between what
is in the pipe and what the handler holds back; the lemmas `SendsOne`, `SentNext`, `ReadsOne` and `InitSendsOne` are these four
steps. With nothing left to read `Due` is empty and `EngineFollows` remains; `ToldWhenIdle` is a part of it.
`OptionsKnown` rests on two parts. `OptionsInv` says that before an unread uciok every option is known or comes earlier in the
pipe, unless `engine_options_` was used while it did not exist; the steps outside its lifetime are those that set
`Misused`, so nothing else of the construction and the destruction need be followed. `UciInv` says that uci is sent once: until
it is read, and while InitEngine has not sent it, the reader has seen no uciok and the pipe holds no option; after an unread
uciok none follows (`OptionsFirst`), and once uciok was read none is left (`HasKind`). So the reader is through with
`engine_options_` when InitEngine gets past its first wait, before anybody can close the screen in good order. That the engine has the last word on what `Due` comes to
needs no fairness: it may finish a search by itself at any time.

**`GameProofs`.** `TypeOK` and `UndoRestores` are not inductive: `Undo` repairs most of what `Make` did from the move alone,
and is right only because of what else holds. `IInv` says that the position is `Good`: each square is in at most one
bitboard, each side has one king, occupied squares, mailbox, `king_ban_` and the hash's piece keys follow from
the bitboards (`Derived`, `Mailed`, `Keyed`), a right is there only with the king at home (`RightsAtHome`), and the en
passant target is the pawn that has just passed the square (`JustPassed`). Of the stack it says that each of its moves was made in a
`Good` position that looked as `seen` has it, and led to what the next move was made in (`Links`). The argument has four
parts. `Generated`: what `GenerateMoves` returns in a `Good` position is `Plausible`. A plausible move is of a piece of the side to
move, does not land on its own or on a king, says what it captures, and castles or takes en passant only where that can
be; it need not be legal, so nothing about pins or checks has to be proved. `MakeGood`: `Make` of a
plausible move keeps a position `Good`. `UndoGood`: `Undo` of it gives the position it was made in, but for stale
mailbox squares. `InitGood`: `FromFen` of a FEN that denotes a position is `Good`. `Make` and `Undo` are proved step by step as
the code has them, and composed. Results: `TypeCorrect`; `UndoIsExact`, however deep the stack; `Deduces`,
for every generated move and not just the sampled ones; `RoundTrips`, that all that is kept incrementally is what `ApplyFen`
computes from nothing.
`GameAssumption` asks of a starting FEN what a position of the game has: one king a side, rights with the king at home
(nothing of the rook), and an en passant square with the pawn that passed it. It leaves out the b file before a move of
white, which the code misreads (see Findings).

**`LegalityProofs`.** `Legal` is `MovesLegal`: what `GenerateMoves` finds with masks is what the rules find by making
each move and looking whether the king is attacked. It has two halves.

The first is about one position, of any pieces on any squares (`MovesExact`). Fills and the tables of lines and steps are
turned into ranks and files, where the solver can count; every attack then is a leap, or a line with nothing between
(`Hits`). `SafeSplits` says when a move that is not the king's leaves it unattacked: it goes to a square of `CheckMask`
(`MaskIs`), and no slider sees the king through the square that was left alone, unless the move stays on that line.
`PinFits` and `LinePinFits` show that this is what the pin masks ask of each piece. A step of the king
is safe when its target is not in `king_ban_`, which was computed without the king on the board (`BannedIs`,
`KingStepIs`); en passant takes two pawns off the rank at once and is decided by `Exposes` (`EnPassantExact`). So each list is
exact (`OfficersExact`, `KingExact`, `PawnsExact`, `EnPassantExact`, `CastleExact`).

This holds in a position that is `Good` and `Lawful`. `Lawful` is what the generator counts on and no code tests, in three parts.
The side that has just moved is not in check (else the rules would take its king, which `GenerateMoves` never does). At most one knight or
pawn gives check: `CheckMask` is the square of a leaper that attacks the king, and with knights on b3 and c2 against a king on a1 a
rook that takes one of them is generated, though the other still gives check. Before a double push its king was not attacked: with a king on
a1, a bishop on h8 and black's e7-e5 just played between them, f5xe6 en passant is generated, though it opens the diagonal, because
`UpdateEnPassantSq` looks along the rank only. TLC gives these differences when `MovesExact` is evaluated on such positions, so no
part can be dropped. No game reaches one of them. A FEN may describe them, and `ApplyFen` takes it as it is; so
`StartsLawful` asks of the starting positions that they are lawful, and that a right to castle has its rook in the corner.

The second half is that they have: `Lasting`. `LInv` says of the position and of each on the stack that it is
lawful, has the en passant square of the rules (`Settled`), and has their rights as long as the rook was not taken
(`RightsHold`). `MakeLawful`: after a legal move the side that moved is not in check, because it was legal; two leapers cannot
check at once, because one move brings one piece, opens lines for sliders only, and none checked before; before a double push the king was
not attacked, because the position before was lawful. `MakeSettled` and `RightsStep` are the other parts. An
Undo needs nothing new: what it goes back to was on the stack. `MovesLegal` then is `MovesExact` with the rights and the en passant
square that the rules derive from the line; castling with a rook that came to the corner later (`Lapsed`) is left out on both sides.

Model-checked only: liveness under fairness (`NodeEnds`, `WaitReturns`, `ShutsDown`,
`FreshLines`, `SessionEnds`, `QuitEnds`), which the prover does not treat; `AlphaBeta`, whose definitions are
recursive; `ReadsBack`, whose parsers are recursive operators; `ColoursAlike`, because `Evaluation` has
recursive operators (it is in a module of its own, `Colours`, for that reason). That `NodeTree` has
no deadlock is TLC's too (ENABLED); `NeverTangled` is the part of it that a proof reaches.

## 5. Not modelled, and why

- Tablebases: vendored code. `nn/`: training scripts. Widgets,
  home screen, theme, fonts, configuration: layout and file reading.
- The engine executable's own UCI handler and options: `Session` is about any UCI engine.
- The characters of a UCI line and of a FEN, but for the one that matters; the wording of messages.
- Resize of the table: arithmetic on its size.
- SetPieceAt and UnsetPieceAt, a failed spawn of the engine, a broken pipe.
- In `Session`: id lines and the engine's name, the options InitEngine sets beside MultiPV, and the redraw that a handler asks
  of FTXUI's active screen (`analyze.cpp:338`, `429`), which has to be there.
- Of the views: ReplaceTermcodes (the notation of keys), and `child_modal_view_`, which no view of the program sets.

## 6. Plan

Done in this order, the most concurrent first: `SplitNode`, its proofs, `Scheduler`, `TranspositionTable`,
its proofs, `AlphaBeta`, `Session`, `Position` and its game, `Evaluation`, `Mapping` and `Modal`, their proofs,
`UciText`, `NodeTree`, the proofs of `Scheduler`, of the result of a node, of `NodeTree`, of `Session`, of the game and of the legal moves. Next:

1. Pure operators against their reference: the size arithmetic of Resize (`transposition.cpp:27`), move ordering.
2. The engine executable and its settings as the peer of `Session`.
3. Proofs: `ColoursAlike`, which needs the loops of `Evaluate` as functions instead of recursive operators.
