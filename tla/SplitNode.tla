------------------------------ MODULE SplitNode ------------------------------
(***************************************************************************)
(* One node of the parallel alpha-beta search shared by its owner (the     *)
(* "master": the thread whose stack holds the Node) and the workers it is   *)
(* split to.  The module covers Node (node.cpp), Worker and WorkerRegistry  *)
(* (worker.cpp), the move loop of Search::search (search.cpp:117-174) and   *)
(* the stop propagation of Search.                                          *)
(*                                                                          *)
(* A step is one section under the node's mutex, or one unlocked access to  *)
(* a field that another thread writes.  What a move's own sub-search does   *)
(* is reduced to the fail-soft alpha-beta contract: a bound on the move's   *)
(* value when the searching thread is RUNNING at its end, any score when it *)
(* was stopped.                                                             *)
(***************************************************************************)
EXTENDS Integers, FiniteSets

CONSTANTS
  Master,           \* the thread that owns the node
  Workers,          \* the threads of the WorkerRegistry
  Helpers,          \* masters of enclosing nodes that may wait and help
  NoOne,            \* no thread
  MoveCount,        \* length of the move list
  MoveValues,       \* the minimax values a move may have
  Scores,           \* what an aborted sub-search may return
  MinScore,         \* MIN_SCORE, the score of a node nothing was searched in
  Alpha, Beta,      \* the window the node is searched with
  IsPV,             \* node.type = NodeType::PV
  Splittable,       \* allow_node_splitting and depth >= SPLIT_MIN_DEPTH
  SplitMaxSlaves,   \* SPLIT_MAX_SLAVES
  InnerCutters,     \* threads whose own sub-search may be cut off by a slave
  MaxInnerCuts,     \* bound: how often that happens
  MaxParentStops,   \* bound: how often an enclosing node stops this search
  MaxHelps          \* bound: how often a slave asks the waiting master to help

Slaves  == Workers \cup Helpers
Threads == {Master} \cup Slaves
Moves   == 1 .. MoveCount
State   == {"RUNNING", "STOP_PARALLEL", "END"}

ASSUME ThreadsAssumption ==
  /\ Master \notin Slaves /\ NoOne \notin Threads
  /\ Workers \cap Helpers = {} /\ IsFiniteSet(Slaves)
ASSUME WindowAssumption ==
  /\ MoveCount \in Nat \ {0} /\ SplitMaxSlaves \in Nat
  /\ Alpha \in Int /\ Beta \in Int /\ Alpha < Beta
  /\ Scores \subseteq Int /\ MoveValues \subseteq Scores
  /\ MinScore \in Scores /\ MinScore <= Alpha
  /\ IsPV \in BOOLEAN /\ (~IsPV => Beta = Alpha + 1)
  /\ Splittable \in BOOLEAN
ASSUME BoundsAssumption ==
  /\ InnerCutters \subseteq Threads
  /\ MaxInnerCuts \in Nat /\ MaxParentStops \in Nat /\ MaxHelps \in Nat

VARIABLES
  value,       \* the minimax value of each move (what the search computes)
  \* Node
  alpha, bestScore, bestMove,
  nextMove,    \* move_: 0 for nullptr, else the last move handed out
  todo,        \* moves_todo_
  movesDone,   \* moves_done_ # 0, all that Split asks of it
  slaves,      \* slaves_
  stopPoint, waiting, helping,
  score,       \* Move::score, shared by everyone who holds the move
  \* Search objects
  state,
  children,    \* children_ of the master's Search
  spin,        \* spin_ of the master's Search, held by an outer StopAll
  \* threads
  pc,
  move,        \* the move a thread works on, 0 for nullptr
  base,        \* the alpha a thread read for its current search
  seen,        \* the master's state as a slave read it (worker.cpp:81)
  assigned,    \* node_ # nullptr
  hand,        \* the worker the master is assigning
  idle,        \* the registry's stack of idle workers (its order is not kept)
  \* the surroundings
  innerCut,    \* threads whose inner node has an open stop point
  helpee,      \* the slave whose inner node the waiting master helps
  innerCuts, parentStops, helps

nodeVars   == <<alpha, bestScore, bestMove, nextMove, todo, movesDone>>
slaveVars  == <<slaves, children>>
waitVars   == <<stopPoint, waiting, helping, helpee>>
threadVars == <<move, base, seen>>
poolVars   == <<assigned, hand, idle>>
envVars    == <<innerCut, innerCuts, parentStops, helps, spin>>
nodeAll    == <<value, nodeVars, slaveVars, waitVars>>
vars == <<nodeAll, score, state, pc, threadVars, poolVars, envVars>>

OnlyPcChanges == UNCHANGED <<nodeAll, score, state, threadVars, poolVars, envVars>>
OutsideOnly == UNCHANGED <<nodeAll, score, pc, threadVars, poolVars>>

-----------------------------------------------------------------------------
(* The fail-soft contract of a sub-search: r is what the node learns of a   *)
(* move of value v searched with the window (a, b).  An empty window, which *)
(* FirstMove asserts away, promises nothing.                                *)

WindowScores(v, a, b) ==
  { r \in Scores : a < b => /\ r < b => v <= r
                            /\ r > a => r <= v }

NullWindowScores(v, a) == WindowScores(v, a, a + 1)

(* Threads inside a sub-search. *)
Searching == { t \in Threads : pc[t] \in {"firstSearch", "nullWindow", "reSearch"} }

MutexAlwaysFree == TRUE  \* bug: the mutex is given up while the master helps

(* The master keeps the node's mutex while it helps (node.cpp:117-126). *)
MutexFree == pc[Master] \notin {"help", "helped"}

Goto(t, label) == pc' = [pc EXCEPT ![t] = label]

(* Search::StopAll(STOP_PARALLEL) on each search of S. *)
StopAll(S) == [t \in Threads |-> IF t \in S THEN "STOP_PARALLEL" ELSE state[t]]

Init ==
  /\ value \in [Moves -> MoveValues]
  /\ alpha = Alpha /\ bestScore = MinScore /\ bestMove = 0
  /\ nextMove = 0 /\ todo = 0 /\ movesDone = FALSE
  /\ slaves = {} /\ children = {}
  /\ stopPoint = FALSE /\ waiting = FALSE /\ helping = FALSE
  /\ score = [m \in Moves |-> MinScore]
  /\ state = [t \in Threads |-> IF t = Master THEN "RUNNING" ELSE "END"]
  /\ pc = [t \in Threads |-> IF t = Master THEN "first" ELSE "parked"]
  /\ move = [t \in Threads |-> 0]
  /\ base = [t \in Threads |-> Alpha]
  /\ seen = [s \in Slaves |-> "END"]
  /\ assigned = [s \in Slaves |-> FALSE]
  /\ hand = NoOne /\ idle = Workers
  /\ innerCut = {} /\ helpee = NoOne /\ spin = FALSE
  /\ innerCuts = 0 /\ parentStops = 0 /\ helps = 0

-----------------------------------------------------------------------------
(* The master's move loop.                                                  *)

ResetCursor ==
  /\ nextMove' = 1 /\ todo' = MoveCount /\ movesDone' = FALSE
  /\ UNCHANGED <<value, alpha, bestScore, bestMove, slaveVars, waitVars, score,
                 state, seen, poolVars, envVars>>

FirstMove ==
  /\ pc[Master] = "first" /\ state[Master] = "RUNNING"
  /\ ResetCursor
  /\ move' = [move EXCEPT ![Master] = 1]
  /\ base' = [base EXCEPT ![Master] = alpha]
  /\ Goto(Master, "firstSearch")

FirstMoveStopped ==
  /\ pc[Master] = "first" /\ state[Master] # "RUNNING"
  /\ ResetCursor
  /\ Goto(Master, "next")
  /\ UNCHANGED <<move, base>>

(* The first move is searched alone: with the node's window in a PV node,   *)
(* with a null window otherwise (search.cpp:123-128).                       *)
FirstSearchReturns ==
  /\ pc[Master] = "firstSearch" /\ Master \notin innerCut
  /\ \E r \in IF state[Master] # "RUNNING" THEN Scores
              ELSE IF IsPV THEN WindowScores(value[1], base[Master], Beta)
              ELSE NullWindowScores(value[1], base[Master]) :
       score' = [score EXCEPT ![1] = r]
  /\ Goto(Master, "update")
  /\ UNCHANGED <<nodeAll, state, threadVars, poolVars, envVars>>

(* Bugs the runs must catch: a stopped search's score counts; alpha follows *)
(* a score that does not improve the node.                                  *)
ImprovesWhenStopped(t) == score[move[t]] > bestScore
RaisedByAnyScore(t) == IF score[move[t]] > alpha THEN score[move[t]] ELSE alpha

(* A thread's score counts if its search was not stopped (node.cpp:68,      *)
(* worker.cpp:106), and then raises alpha.                                  *)
Improves(t) == state[t] = "RUNNING" /\ score[move[t]] > bestScore

RaisedAlpha(t) ==
  IF Improves(t) /\ score[move[t]] > alpha THEN score[move[t]] ELSE alpha

TakeScore(t) ==
  /\ bestScore' = IF Improves(t) THEN score[move[t]] ELSE bestScore
  /\ bestMove' = IF Improves(t) THEN move[t] ELSE bestMove
  /\ alpha' = RaisedAlpha(t)

Update ==
  /\ pc[Master] = "update"
  /\ TakeScore(Master)
  /\ state' = IF RaisedAlpha(Master) >= Beta THEN StopAll(slaves) ELSE state
  /\ movesDone' = TRUE
  /\ Goto(Master, "next")
  /\ UNCHANGED <<value, nextMove, todo, slaveVars, waitVars, score, threadVars,
                 poolVars, envVars>>

(* Bugs: moves_todo_ is counted down without a move; the cursor stays.      *)
CanHandOutWithoutMove(a, st) == a < Beta /\ st = "RUNNING"
HandedOutAgain(a, st) ==
  IF nextMove # 0 /\ a < Beta /\ st = "RUNNING" /\ todo # 1 THEN nextMove ELSE 0

(* NextMoveLockless with the node's alpha at a and the master's state at st *)
CanHandOut(a, st) == nextMove # 0 /\ a < Beta /\ st = "RUNNING"

HandedOut(a, st) ==
  IF CanHandOut(a, st) /\ todo # 1 THEN nextMove + 1 ELSE 0

NextMoveLockless(a, st) ==
  IF CanHandOut(a, st)
  THEN /\ movesDone' = TRUE /\ todo' = todo - 1
       /\ nextMove' = HandedOut(a, st)
  ELSE UNCHANGED <<movesDone, todo, nextMove>>

NextMove ==
  LET m == HandedOut(alpha, state[Master])
  IN /\ pc[Master] = "next"
     /\ NextMoveLockless(alpha, state[Master])
     /\ move' = [move EXCEPT ![Master] = m]
     /\ Goto(Master, IF m = 0 THEN "wait" ELSE "readAlpha")
     /\ UNCHANGED <<value, alpha, bestScore, bestMove, slaveVars, waitVars,
                    score, state, base, seen, poolVars, envVars>>

(* const int alpha = node.alpha, without the mutex (search.cpp:138). *)
ReadAlpha ==
  /\ pc[Master] = "readAlpha"
  /\ base' = [base EXCEPT ![Master] = alpha]
  /\ Goto(Master, "split")
  /\ UNCHANGED <<nodeAll, score, state, move, seen, poolVars, envVars>>

(* Bug: a worker is used but left on the stack.                             *)
GetIdleWorkerPeek(s) == s \in idle /\ idle' = idle

(* The unlocked test of Node::Split. *)
SplitAllowed ==
  Splittable /\ movesDone /\ todo > 1 /\ Cardinality(slaves) < SplitMaxSlaves

(* GetHelper finds an enclosing node whose master waits, or GetIdleWorker   *)
(* pops one: the master now holds the worker and assigns it.                *)
GetHelper(s) == s \in Helpers /\ pc[s] = "parked" /\ UNCHANGED idle
GetIdleWorker(s) == s \in idle /\ idle' = idle \ {s}

TakeSlave(s) ==
  /\ pc[Master] = "split" /\ SplitAllowed
  /\ GetHelper(s) \/ GetIdleWorker(s)
  /\ hand' = s
  /\ Goto(Master, "assign")
  /\ UNCHANGED <<nodeAll, score, state, threadVars, assigned, envVars>>

NoSplit ==
  /\ pc[Master] = "split" /\ (~SplitAllowed \/ idle = {})
  /\ Goto(Master, "nullWindow")
  /\ OnlyPcChanges

(* Worker::Assign up to AddChild.  The worker's mutex is free only once its *)
(* thread is parked; AddChild needs the spin lock of the master's Search.   *)
Assign ==
  /\ pc[Master] = "assign" /\ pc[hand] = "parked" /\ ~spin
  /\ assigned' = [assigned EXCEPT ![hand] = TRUE]
  /\ move' = [move EXCEPT ![hand] = move[Master]]
  /\ state' = [state EXCEPT ![hand] = "END"]
  /\ children' = children \cup {hand}
  /\ pc' = [pc EXCEPT ![Master] = "addSlave", ![hand] = "locked"]
  /\ UNCHANGED <<value, nodeVars, slaves, waitVars, score, base, seen, hand,
                 idle, envVars>>

(* AddSlave, then the worker's mutex is released and its thread notified.   *)
(* With a pool worker Split returns true; with a helper it falls through to *)
(* false, and the master searches the move as well (node.cpp:171-179).      *)
AddSlave ==
  /\ pc[Master] = "addSlave"
  /\ slaves' = slaves \cup {hand}
  /\ pc' = [pc EXCEPT ![Master] = IF hand \in Helpers THEN "nullWindow" ELSE "next",
                      ![hand] = "start"]
  /\ hand' = NoOne
  /\ UNCHANGED <<value, nodeVars, children, waitVars, score, state, threadVars,
                 assigned, idle, envVars>>

-----------------------------------------------------------------------------
(* Steps that the master and the slaves take on a move (search.cpp:146-157, *)
(* worker.cpp:90-101).                                                      *)

NullWindowReturns(t) ==
  /\ pc[t] = "nullWindow" /\ t \notin innerCut /\ helpee # t
  /\ \E r \in IF state[t] = "RUNNING"
              THEN NullWindowScores(value[move[t]], base[t]) ELSE Scores :
       score' = [score EXCEPT ![move[t]] = r]
  /\ Goto(t, "compare")
  /\ UNCHANGED <<nodeAll, state, threadVars, poolVars, envVars>>

(* A score inside the window is searched again, the master's with the alpha *)
(* it read, a slave's with the node's alpha read anew and without the mutex *)
(* (worker.cpp:94-95).                                                      *)
InWindow(t) == base[t] < score[move[t]] /\ score[move[t]] < Beta

ReSearch(t) ==
  /\ pc[t] = "compare" /\ InWindow(t)
  /\ base' = [base EXCEPT ![t] = IF t = Master THEN base[t] ELSE alpha]
  /\ Goto(t, "reSearch")
  /\ UNCHANGED <<nodeAll, score, state, move, seen, poolVars, envVars>>

KeepScore(t) ==
  /\ pc[t] = "compare" /\ ~InWindow(t)
  /\ Goto(t, IF t = Master THEN "update" ELSE "report")
  /\ OnlyPcChanges

(* The sub-search scores the position for the other side.  The master turns *)
(* the sign (search.cpp:153-154), a slave does not (worker.cpp:95-96).      *)
ReSearchScore(t, r) == IF t = Master THEN r ELSE -r

ReSearchReturns(t) ==
  /\ pc[t] = "reSearch" /\ t \notin innerCut /\ helpee # t
  /\ \E r \in IF state[t] = "RUNNING"
              THEN WindowScores(value[move[t]], base[t], Beta) ELSE Scores :
       score' = [score EXCEPT ![move[t]] = ReSearchScore(t, r)]
  /\ Goto(t, IF t = Master THEN "update" ELSE "report")
  /\ UNCHANGED <<nodeAll, state, threadVars, poolVars, envVars>>

-----------------------------------------------------------------------------
(* Worker::Search, by a pool worker's thread or by a helper.                *)

(* search_.SetState(node_->search->state): a read, then a write.            *)
ReadMasterState(s) ==
  /\ pc[s] = "start"
  /\ seen' = [seen EXCEPT ![s] = state[Master]]
  /\ Goto(s, "setState")
  /\ UNCHANGED <<nodeAll, score, state, move, base, poolVars, envVars>>

SetState(s) ==
  /\ pc[s] = "setState"
  /\ state' = [state EXCEPT ![s] = seen[s]]
  /\ Goto(s, "loop")
  /\ UNCHANGED <<nodeAll, score, threadVars, poolVars, envVars>>

(* The head of the slave's loop; NW_Search tests the state once more.       *)
MayStart(s) == move[s] # 0 /\ state[s] = "RUNNING" /\ alpha < Beta

StartMove(s) ==
  /\ pc[s] = "loop" /\ MayStart(s)
  /\ base' = [base EXCEPT ![s] = alpha]
  /\ Goto(s, "nullWindow")
  /\ UNCHANGED <<nodeAll, score, state, move, seen, poolVars, envVars>>

EndLoop(s) ==
  /\ pc[s] = "loop" /\ ~MayStart(s)
  /\ Goto(s, "detach")
  /\ OnlyPcChanges

(* The slave's locked section (worker.cpp:104-124).                         *)
Report(s) ==
  LET cutoff == /\ Improves(s) /\ score[move[s]] > alpha
                /\ score[move[s]] >= Beta /\ state[Master] = "RUNNING"
      masterState == IF cutoff THEN "STOP_PARALLEL" ELSE state[Master]
  IN /\ pc[s] = "report" /\ MutexFree
     /\ TakeScore(s)
     /\ stopPoint' = (stopPoint \/ cutoff)
     /\ state' = [state EXCEPT ![Master] = masterState]
     /\ NextMoveLockless(RaisedAlpha(s), masterState)
     /\ move' = [move EXCEPT ![s] = HandedOut(RaisedAlpha(s), masterState)]
     /\ Goto(s, "loop")
     /\ UNCHANGED <<value, slaveVars, waiting, helping, helpee, score, base,
                    seen, poolVars, envVars>>

(* SetState(END) and Detach; nobody reads the slave's state in between.     *)
Detach(s) ==
  /\ pc[s] = "detach" /\ ~spin
  /\ state' = [state EXCEPT ![s] = "END"]
  /\ children' = children \ {s}
  /\ Goto(s, "remove")
  /\ UNCHANGED <<value, nodeVars, slaves, waitVars, score, threadVars,
                 poolVars, envVars>>

RemoveSlave(s) ==
  /\ pc[s] = "remove" /\ MutexFree
  /\ slaves' = slaves \ {s}
  /\ Goto(s, "leave")
  /\ UNCHANGED <<value, nodeVars, children, waitVars, score, state, threadVars,
                 poolVars, envVars>>

(* Bug: node_ keeps pointing at the node that ended.                        *)
ClearNodeForgotten(s) == UNCHANGED assigned

ClearNode(s) == assigned' = [assigned EXCEPT ![s] = FALSE]
PutIdleWorker(s) == idle' = idle \cup ({s} \cap Workers)

(* node_ = nullptr; a pool worker then puts itself back on the stack, still *)
(* holding its own mutex, a helper is deleted.                              *)
Leave(s) ==
  /\ pc[s] = "leave"
  /\ ClearNode(s)
  /\ move' = [move EXCEPT ![s] = 0]
  /\ base' = [base EXCEPT ![s] = Alpha]
  /\ seen' = [seen EXCEPT ![s] = "END"]
  /\ PutIdleWorker(s)
  /\ Goto(s, IF s \in Workers THEN "parking" ELSE "parked")
  /\ UNCHANGED <<nodeAll, score, state, hand, envVars>>

(* cv_.wait releases the worker's mutex (worker.cpp:140).                   *)
Park(s) ==
  /\ pc[s] = "parking"
  /\ Goto(s, "parked")
  /\ OnlyPcChanges

-----------------------------------------------------------------------------
(* Node::WaitSlaves.                                                        *)

(* Bugs: the stop stays; the wait ends without its predicate; helping_ is   *)
(* not cleared.                                                             *)
LeaveWaitStopped == UNCHANGED <<stopPoint, state>> /\ Goto(Master, "store")
NobodyLeftUnchecked == ~helping
StopHelpingForgotten == UNCHANGED helping

(* Its end: a stop this node's slave ordered is taken back.                 *)
LeaveWait ==
  /\ IF state[Master] = "STOP_PARALLEL" /\ stopPoint
     THEN stopPoint' = FALSE /\ state' = [state EXCEPT ![Master] = "RUNNING"]
     ELSE UNCHANGED <<stopPoint, state>>
  /\ Goto(Master, "store")

NothingToWaitFor ==
  /\ pc[Master] = "wait" /\ slaves = {}
  /\ LeaveWait
  /\ UNCHANGED <<value, nodeVars, slaveVars, waiting, helping, helpee, score,
                 threadVars, poolVars, envVars>>

StartWaiting ==
  /\ pc[Master] = "wait" /\ slaves # {}
  /\ state' = IF alpha >= Beta \/ state[Master] # "RUNNING"
              THEN StopAll(slaves) ELSE state
  /\ waiting' = TRUE
  /\ Goto(Master, "sleep")
  /\ UNCHANGED <<value, nodeVars, slaveVars, stopPoint, helping, helpee, score,
                 threadVars, poolVars, envVars>>

NobodyLeft == slaves = {} /\ ~helping

WakeUp ==
  /\ pc[Master] = "sleep" /\ NobodyLeft
  /\ waiting' = FALSE
  /\ LeaveWait
  /\ UNCHANGED <<value, nodeVars, slaveVars, helping, helpee, score,
                 threadVars, poolVars, envVars>>

(* A slave that splits an inner node finds this master waiting: GetHelper.  *)
AskHelp(s) ==
  /\ s \in Searching \cap Slaves /\ s \notin innerCut
  /\ helps < MaxHelps
  /\ MutexFree /\ slaves # {} /\ waiting /\ ~helping
  /\ helping' = TRUE /\ helpee' = s /\ helps' = helps + 1
  /\ UNCHANGED <<value, nodeVars, slaveVars, stopPoint, waiting, score, state,
                 pc, threadVars, poolVars, innerCut, innerCuts, parentStops,
                 spin>>

(* The master wakes to help_->Search(); once it is done the inner node is   *)
(* free of this helper, and the slave may return before help_ is deleted.   *)
Help ==
  /\ pc[Master] = "sleep" /\ helping
  /\ Goto(Master, "help")
  /\ OnlyPcChanges

HelpSearched ==
  /\ pc[Master] = "help"
  /\ helpee' = NoOne
  /\ Goto(Master, "helped")
  /\ UNCHANGED <<value, nodeVars, slaveVars, stopPoint, waiting, helping,
                 score, state, threadVars, poolVars, envVars>>

(* delete help_, and the while loop once more: waiting_ keeps its value if  *)
(* the slaves are gone.                                                     *)
StopHelping == helping' = FALSE

HelpEnds ==
  /\ pc[Master] = "helped"
  /\ StopHelping
  /\ IF slaves = {}
     THEN LeaveWait /\ UNCHANGED waiting
     ELSE /\ waiting' = TRUE /\ Goto(Master, "sleep")
          /\ UNCHANGED <<stopPoint, state>>
  /\ UNCHANGED <<value, nodeVars, slaveVars, helpee, score, threadVars,
                 poolVars, envVars>>

(* The result reaches the transposition table only if the search was not    *)
(* stopped (search.cpp:167-173); then the Node's storage is gone.           *)
Store ==
  /\ pc[Master] = "store"
  /\ Goto(Master, IF state[Master] = "RUNNING" THEN "stored" ELSE "aborted")
  /\ OnlyPcChanges

-----------------------------------------------------------------------------
(* The surroundings: enclosing nodes, and nodes inside a thread's sub-search *)

Final == {"stored", "aborted"}

(* An enclosing node stops the master's Search, then, still holding its     *)
(* spin lock, the Searches below it.                                        *)
ParentStop ==
  /\ pc[Master] \notin Final /\ parentStops < MaxParentStops /\ ~spin
  /\ state' = [state EXCEPT ![Master] = "STOP_PARALLEL"]
  /\ spin' = TRUE /\ parentStops' = parentStops + 1
  /\ OutsideOnly /\ UNCHANGED <<innerCut, innerCuts, helps>>

ParentStopsChildren ==
  /\ spin
  /\ state' = StopAll(children)
  /\ spin' = FALSE
  /\ OutsideOnly /\ UNCHANGED <<innerCut, innerCuts, parentStops, helps>>

(* A slave of an inner node of thread t cuts it off (worker.cpp:116-119) ... *)
InnerCut(t) ==
  /\ t \in Searching \cap InnerCutters /\ t \notin innerCut /\ helpee # t
  /\ innerCuts < MaxInnerCuts /\ state[t] = "RUNNING"
  /\ state' = [state EXCEPT ![t] = "STOP_PARALLEL"]
  /\ innerCut' = innerCut \cup {t} /\ innerCuts' = innerCuts + 1
  /\ OutsideOnly /\ UNCHANGED <<parentStops, helps, spin>>

(* ... and t takes the stop back at the end of that node (node.cpp:133-136). *)
InnerResume(t) ==
  /\ t \in innerCut
  /\ state' = [state EXCEPT ![t] = IF @ = "STOP_PARALLEL" THEN "RUNNING" ELSE @]
  /\ innerCut' = innerCut \ {t}
  /\ OutsideOnly /\ UNCHANGED <<innerCuts, parentStops, helps, spin>>

-----------------------------------------------------------------------------
MasterStep ==
  \/ FirstMove \/ FirstMoveStopped \/ FirstSearchReturns \/ Update \/ NextMove
  \/ ReadAlpha \/ NoSplit \/ (\E s \in Slaves : TakeSlave(s)) \/ Assign \/ AddSlave
  \/ NullWindowReturns(Master) \/ ReSearch(Master) \/ KeepScore(Master)
  \/ ReSearchReturns(Master) \/ NothingToWaitFor \/ StartWaiting \/ WakeUp
  \/ Help \/ HelpSearched \/ HelpEnds \/ Store

SlaveStep(s) ==
  \/ ReadMasterState(s) \/ SetState(s) \/ StartMove(s) \/ EndLoop(s)
  \/ NullWindowReturns(s) \/ ReSearch(s) \/ KeepScore(s) \/ ReSearchReturns(s)
  \/ Report(s) \/ Detach(s) \/ RemoveSlave(s) \/ Leave(s) \/ Park(s)

Surroundings ==
  \/ ParentStop \/ ParentStopsChildren
  \/ \E s \in Slaves : AskHelp(s)
  \/ \E t \in Threads : InnerCut(t) \/ InnerResume(t)

(* The node is gone and every slave is back where it waits for work.        *)
Terminated ==
  /\ pc[Master] \in Final /\ ~spin
  /\ \A s \in Slaves : pc[s] = "parked"
  /\ UNCHANGED vars

Next ==
  \/ MasterStep
  \/ \E s \in Slaves : SlaveStep(s)
  \/ Surroundings
  \/ Terminated

Spec == Init /\ [][Next]_vars

(* Threads are scheduled, sub-searches end, a stop that was begun reaches   *)
(* the children; nothing forces an enclosing node to stop this one.         *)
Fairness ==
  /\ WF_vars(MasterStep)
  /\ \A s \in Slaves : WF_vars(SlaveStep(s))
  /\ WF_vars(ParentStopsChildren)
  /\ \A t \in Threads : WF_vars(InnerResume(t))

FairSpec == Spec /\ Fairness

-----------------------------------------------------------------------------
(* What must hold.                                                          *)

MasterPC == {"first", "firstSearch", "update", "next", "readAlpha", "split",
             "assign", "addSlave", "nullWindow", "compare", "reSearch", "wait",
             "sleep", "help", "helped", "store", "stored", "aborted"}

(* Where a slave holds its node: still to be removed from slaves_ ...       *)
BusyPC == {"start", "setState", "loop", "nullWindow", "compare", "reSearch",
           "report", "detach", "remove"}
SlavePC == BusyPC \cup {"parked", "locked", "leave", "parking"}

NodeTypeOK ==
  /\ value \in [Moves -> MoveValues] /\ score \in [Moves -> Int]
  /\ alpha \in Int /\ bestScore \in Int /\ bestMove \in 0 .. MoveCount
  /\ nextMove \in 0 .. MoveCount /\ todo \in 0 .. MoveCount
  /\ movesDone \in BOOLEAN
  /\ slaves \subseteq Slaves /\ children \subseteq Slaves
  /\ stopPoint \in BOOLEAN /\ waiting \in BOOLEAN /\ helping \in BOOLEAN

ThreadTypeOK ==
  /\ pc \in [Threads -> MasterPC \cup SlavePC]
  /\ pc[Master] \in MasterPC /\ \A s \in Slaves : pc[s] \in SlavePC
  /\ state \in [Threads -> State] /\ spin \in BOOLEAN
  /\ move \in [Threads -> 0 .. MoveCount]
  /\ base \in [Threads -> Int] /\ seen \in [Slaves -> State]

PoolTypeOK ==
  /\ assigned \in [Slaves -> BOOLEAN] /\ hand \in Slaves \cup {NoOne}
  /\ idle \subseteq Workers
  /\ innerCut \subseteq Threads /\ helpee \in Slaves \cup {NoOne}
  /\ innerCuts \in 0 .. MaxInnerCuts /\ parentStops \in 0 .. MaxParentStops
  /\ helps \in 0 .. MaxHelps

(* Every variable has its type.                                             *)
TypeOK == NodeTypeOK /\ ThreadTypeOK /\ PoolTypeOK

(* The Node lives on the master's stack.  Once the master is past           *)
(* WaitSlaves no slave may be registered with it, or be about to lock its   *)
(* mutex or read its fields (node.cpp:112, worker.cpp:127-134).             *)
NodeOutlivesSlaves ==
  pc[Master] \in {"store"} \cup Final =>
    /\ slaves = {} /\ children = {}
    /\ \A s \in Slaves : pc[s] \in {"parked", "leave", "parking"}

(* The assertions of node.cpp:96-98 and search.cpp:60-62 (a slave is there  *)
(* exactly once when it is removed), worker.cpp:65 (an assigned worker is   *)
(* free), node.cpp:115 (no one helps when the wait starts) and worker.cpp:98 *)
(* (only a PV node re-searches) never fail.                                 *)
AssertionsHold ==
  /\ \A s \in Slaves : /\ pc[s] = "remove" => s \in slaves
                       /\ pc[s] = "detach" => s \in children
                       /\ pc[s] = "reSearch" => IsPV
  /\ pc[Master] = "assign" /\ pc[hand] = "parked" => ~assigned[hand]
  /\ pc[Master] = "wait" => ~helping

(* A worker is on the registry's stack exactly when nobody holds or uses    *)
(* it, so the stack never overflows and a worker is never handed out twice  *)
(* (worker.cpp:29-39).                                                      *)
RegistrySound ==
  \A w \in Workers :
    w \in idle <=> w # hand /\ ~assigned[w] /\ pc[w] \in {"parked", "parking"}

(* Nobody searches a move that another thread searches, except that the     *)
(* master keeps searching the move it gave to a helper (node.cpp:171).      *)
MoveExclusive ==
  \A s, t \in Threads :
    s # t /\ {s, t} \subseteq Searching /\ move[s] = move[t] =>
      {s, t} \cap Helpers # {}

(* move_ and moves_todo_ advance together: the cursor stays in the list and *)
(* moves_todo_, a std::size_t, never wraps (node.cpp:52-63).                *)
CursorInList ==
  nextMove # 0 => todo > 0 /\ nextMove = MoveCount - todo + 1

(* The result that reaches the transposition table is the alpha-beta result *)
(* of the node: below beta it bounds every move from above, above alpha     *)
(* some move attains it (search.cpp:117-173).                               *)
ResultSound ==
  pc[Master] = "stored" =>
    /\ bestScore < Beta => \A m \in Moves : value[m] <= bestScore
    /\ bestScore > Alpha => \E m \in Moves : bestScore <= value[m]

(* alpha, best_score and best_move are written together by whoever improves *)
(* the node: alpha is the better of the window's alpha and the best score,  *)
(* and the best move's own score is the best score (node.cpp:68-76,         *)
(* worker.cpp:106-114).                                                     *)
BestConsistent ==
  /\ alpha = IF bestScore > Alpha THEN bestScore ELSE Alpha
  /\ bestMove = 0 <=> bestScore = MinScore
  /\ bestMove # 0 /\ Helpers = {} => score[bestMove] = bestScore

(* A stop that a slave ordered at this node ends with this node: without a  *)
(* stop from outside the master leaves it RUNNING and its result is kept.   *)
StopPointEnds ==
  /\ pc[Master] \in {"store"} \cup Final => ~stopPoint
  /\ parentStops = 0 => pc[Master] # "aborted"

(* While the master helps, it holds the node's mutex and the slave it helps *)
(* is still registered, so the wait goes on and waiting_ is false once the  *)
(* wait is over (node.cpp:112-130).                                         *)
HelpConsistent ==
  /\ helping => pc[Master] \in {"sleep", "help", "helped"} /\ slaves # {}
  /\ helpee # NoOne => helping /\ helpee \in slaves
  /\ waiting <=> pc[Master] \in {"sleep", "help", "helped"}

(* Every search of the node comes to an end, and every worker gets back to  *)
(* the registry: no lost wake-up, nobody waits for ever (node.cpp:112-130,  *)
(* worker.cpp:127-149).                                                     *)
NodeEnds ==
  /\ <>(pc[Master] \in Final)
  /\ []<>(idle = Workers /\ \A s \in Slaves : pc[s] = "parked")
=============================================================================
