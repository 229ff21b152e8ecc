------------------------------ MODULE NodeTree ------------------------------
(***************************************************************************)
(* The whole parallel search: the nodes that a search has open, each on the *)
(* stack of the thread that owns it, down the tree that the moves span, and *)
(* the threads that help each other there (node.cpp, worker.cpp and the     *)
(* loop of Search::search).  SplitNode has one node in full detail; this    *)
(* module has what only several can show: GetHelper climbs the chain of     *)
(* parents and locks a node it found waiting, and a waiting master helps    *)
(* with its node's mutex held.                                              *)
(*                                                                          *)
(* A thread's stack holds two kinds of frames: a Node in Search::search,    *)
(* and a Search that runs, in Search::Run for the first thread and in       *)
(* Worker::Search for a slave.  A frame is known by its thread and place.   *)
(* Scores are left out: a move may raise alpha to beta, or not.  A re-search *)
(* is one more sub-search of the same move and left out.  Whether a         *)
(* sub-search opens a node of its own or ends in the table, in Quiesce or   *)
(* in a list without moves is not determined.  A field that is read without *)
(* the mutex has its value of that moment.                                  *)
(***************************************************************************)
EXTENDS Sequences, FiniteSets, Integers

CONSTANTS
  Main,            \* the thread that calls Search::Run
  Workers,         \* the threads of the WorkerRegistry
  Depth,           \* the depth of the root; a sub-search of depth 0 is Quiesce
  MoveCount,       \* the moves of a node
  SplitMinDepth, SplitMaxSlaves,  \* SPLIT_MIN_DEPTH, SPLIT_MAX_SLAVES
  CutDepths,       \* bound: the depths of the nodes that a move may cut off
  MaxNodes         \* bound: how many nodes are opened

Threads == {Main} \cup Workers

ASSUME TreeAssumption ==
  /\ Main \notin Workers /\ IsFiniteSet(Workers)
  /\ {Depth, MoveCount, SplitMaxSlaves, MaxNodes} \subseteq Nat \ {0}
  /\ SplitMinDepth \in Nat

VARIABLES
  stack,  \* the frames of each thread
  idle,   \* the registry's stack of idle workers (its order is not kept)
  opened  \* nodes opened so far, for the bound

vars == <<stack, idle, opened>>

Nil == <<>>
State == {"RUNNING", "STOP_PARALLEL", "END"}

(* A Search in Run or in Worker::Search, with node_ and move_. *)
Searching(pc, state, node) ==
  [kind |-> "search", pc |-> pc, state |-> state, node |-> node, move |-> node # Nil]

(* A Node: cut is alpha >= beta, help the node of help_ until the master    *)
(* wakes, and asks the master that GetHelper has come to.                   *)
NewNode(search, depth, parent) ==
  [kind |-> "node", pc |-> "first", search |-> search, depth |-> depth, parent |-> parent,
   cut |-> FALSE, todo |-> 0, move |-> FALSE, slaves |-> {}, stop_point |-> FALSE,
   waiting |-> FALSE, helping |-> FALSE, help |-> Nil, asks |-> Nil]

Frame(id) == stack[id[1]][id[2]]
Ids == UNION {{<<t, i>> : i \in DOMAIN stack[t]} : t \in Threads}
Top(t) == <<t, Len(stack[t])>>
At(t, kind, pc) ==
  stack[t] # <<>> /\ Frame(Top(t)).kind = kind /\ Frame(Top(t)).pc = pc

With(id, frame) == [stack EXCEPT ![id[1]][id[2]] = frame]
Gone(t, pc) == [stack EXCEPT ![t][Len(stack[t])].pc = pc]
Goto(t, pc) == stack' = Gone(t, pc)
Popped(frames) == SubSeq(frames, 1, Len(frames) - 1)
Pushed(frames, t, frame) == [frames EXCEPT ![t] = Append(@, frame)]

(* Whether the Search of a node runs. *)
Running(id) == Frame(Frame(id).search).state = "RUNNING"

(* A master that helps holds the mutex of its node (node.cpp:117-126). *)
Held(node) == Frame(node).pc = "help"

(* Search::StopAll on some Searches: they and all their children, that is   *)
(* those which serve a node of theirs.                                      *)
Children(S) ==
  {id \in Ids : /\ Frame(id).kind = "search" /\ Frame(id).node # Nil
                /\ Frame(Frame(id).node).search \in S}
Below(S) ==
  LET reach[k \in 0 .. Depth] == IF k = 0 THEN S ELSE reach[k - 1] \cup Children(reach[k - 1])
  IN reach[Depth]
StopAll(frames, S) ==
  LET below == Below(S)
  IN [t \in Threads |-> [i \in DOMAIN frames[t] |->
        IF <<t, i>> \in below /\ frames[t][i].kind = "search"
        THEN [frames[t][i] EXCEPT !.state = "STOP_PARALLEL"] ELSE frames[t][i]]]

Init ==
  /\ stack = [t \in Threads |-> IF t = Main THEN <<Searching("run", "RUNNING", Nil)>> ELSE <<>>]
  /\ idle = Workers /\ opened = 0

----------------------------------------------------------------------------
(* Sub-searches. *)

(* Search::Run, one iteration of it. *)
Run ==
  /\ At(Main, "search", "run")
  /\ stack' = Pushed(Gone(Main, "ran"), Main, NewNode(<<Main, 1>>, Depth, Nil))
  /\ opened' = 1 /\ UNCHANGED idle

(* The sub-search of a move opens a node, or else returns without one.  A   *)
(* node that a stopped search opens ends at once, and is none here.         *)
Open(t, search, node, then) ==
  /\ Frame(node).depth > 1 /\ opened < MaxNodes
  /\ Frame(search).state = "RUNNING"
  /\ stack' = Pushed(Gone(t, then), t, NewNode(search, Frame(node).depth - 1, node))
  /\ opened' = opened + 1 /\ UNCHANGED idle

----------------------------------------------------------------------------
(* The loop of Search::search by the owner t of the node on top. *)

FirstMove(t) ==
  /\ At(t, "node", "first")
  /\ stack' = [stack EXCEPT ![t][Len(stack[t])] =
       [@ EXCEPT !.todo = MoveCount, !.move = TRUE,
                 !.pc = IF Running(Top(t)) THEN "search" ELSE "next"]]
  /\ UNCHANGED <<idle, opened>>

SearchMove(t) ==
  /\ At(t, "node", "search")
  /\ Open(t, Frame(Top(t)).search, Top(t), "update")

(* Whether a move's score may reach beta. *)
MayCut(node) == IF node.depth \in CutDepths THEN {TRUE} ELSE {}

(* The sub-search has returned, at once or from a node. A move that reaches *)
(* beta stops the slaves, a later one stops them again.                     *)
Update(t) ==
  LET node == Frame(Top(t))
  IN /\ At(t, "node", "search") \/ At(t, "node", "update")
     /\ \E cut \in {node.cut} \cup (IF Running(Top(t)) THEN MayCut(node) ELSE {}) :
          LET frames == With(Top(t), [node EXCEPT !.cut = cut, !.pc = "next"])
          IN stack' = IF cut THEN StopAll(frames, node.slaves) ELSE frames
     /\ UNCHANGED <<idle, opened>>

(* NextMoveLockless: whether it hands out a move, and the node after that. *)
Advances(node, running) == node.move /\ ~node.cut /\ running
HandsOut(node, running) == Advances(node, running) /\ node.todo > 1
Advanced(node, running) ==
  IF Advances(node, running) THEN [node EXCEPT !.todo = @ - 1, !.move = node.todo > 1] ELSE node

NextMove(t) ==
  LET node == Frame(Top(t))
      to == IF HandsOut(node, Running(Top(t))) THEN "split" ELSE "wait"
  IN /\ At(t, "node", "next")
     /\ stack' = With(Top(t), [Advanced(node, Running(Top(t))) EXCEPT !.pc = to])
     /\ UNCHANGED <<idle, opened>>

----------------------------------------------------------------------------
(* Node::Split. Its test and those of GetHelper are not under a mutex;      *)
(* moves_done_ is never 0 once NextMove was called.                         *)

Split(t) ==
  LET node == Frame(Top(t))
      allowed == /\ node.depth >= SplitMinDepth /\ node.todo > 1
                 /\ Cardinality(node.slaves) < SplitMaxSlaves
  IN /\ At(t, "node", "split")
     /\ stack' = With(Top(t), IF allowed THEN [node EXCEPT !.pc = "ask", !.asks = node.parent]
                              ELSE [node EXCEPT !.pc = "search"])
     /\ UNCHANGED <<idle, opened>>

(* Mutant: a master that helps already is asked as well. *)
SeemsFreeIfItWaits(master) == master.waiting

SeemsFree(master) == master.waiting /\ ~master.helping

(* GetHelper up to the lock, or up to the parent. *)
Ask(t) ==
  LET node == Frame(Top(t))
  IN /\ At(t, "node", "ask")
     /\ stack' = With(Top(t),
          IF node.asks = Nil THEN [node EXCEPT !.pc = "pool"]
          ELSE IF SeemsFree(Frame(node.asks)) THEN [node EXCEPT !.pc = "lock"]
          ELSE [node EXCEPT !.asks = Frame(node.asks).parent])
     /\ UNCHANGED <<idle, opened>>

(* Mutant: helping_ is not read again under the mutex. *)
StillWaits(master) == master.slaves # {} /\ master.waiting

CanHelp(master) == master.slaves # {} /\ master.waiting /\ ~master.helping

(* Under the master's mutex: a helper is assigned, which is a slave of the  *)
(* node from then on. Split returns false all the same, and t searches the  *)
(* move too. The helper's Search will be the frame above the master's node. *)
GetHelper(t) ==
  LET node == Frame(Top(t))
      asks == node.asks
      helper == <<asks[1], asks[2] + 1>>
      assigned == [node EXCEPT !.pc = "search", !.asks = Nil, !.slaves = @ \cup {helper}]
  IN /\ At(t, "node", "lock") /\ ~Held(asks)
     /\ stack' = IF CanHelp(Frame(asks))
                 THEN [With(Top(t), assigned) EXCEPT ![asks[1]][asks[2]].helping = TRUE,
                                                    ![asks[1]][asks[2]].help = Top(t)]
                 ELSE With(Top(t), [node EXCEPT !.pc = "pool", !.asks = Nil])
     /\ UNCHANGED <<idle, opened>>

(* GetIdleWorker, and Assign of the worker. *)
GetIdleWorker(t) ==
  LET node == Frame(Top(t))
  IN /\ At(t, "node", "pool")
     /\ \/ \E w \in idle :
             /\ LET frames == With(Top(t), [node EXCEPT !.pc = "next", !.slaves = @ \cup {<<w, 1>>}])
                IN stack' = Pushed(frames, w, Searching("begin", "END", Top(t)))
             /\ idle' = idle \ {w}
        \/ idle = {} /\ Goto(t, "search") /\ UNCHANGED idle
     /\ UNCHANGED opened

----------------------------------------------------------------------------
(* Node::WaitSlaves. *)

(* Its end, and that of the node: a stop that a slave ordered is taken back. *)
(* The table's Add is of no matter here.                                    *)
Ended(frames, t) ==
  LET k == Len(frames[t])
      node == frames[t][k]
      master == node.search[2]
      resumes == frames[t][master].state = "STOP_PARALLEL" /\ node.stop_point
      popped == [frames EXCEPT ![t] = Popped(@)]
  IN IF resumes THEN [popped EXCEPT ![t][master].state = "RUNNING"] ELSE popped

WaitSlaves(t) ==
  LET node == Frame(Top(t))
      frames == With(Top(t), [node EXCEPT !.waiting = TRUE, !.pc = "sleep"])
  IN /\ At(t, "node", "wait")
     /\ stack' = IF node.slaves = {} THEN Ended(stack, t)
                 ELSE IF node.cut \/ ~Running(Top(t)) THEN StopAll(frames, node.slaves)
                 ELSE frames
     /\ UNCHANGED <<idle, opened>>

(* Woken because nobody is left. *)
WakeUp(t) ==
  LET node == Frame(Top(t))
  IN /\ At(t, "node", "sleep") /\ node.slaves = {} /\ ~node.helping
     /\ stack' = Ended(stack, t)
     /\ UNCHANGED <<idle, opened>>

(* Woken to help: help_->Search() with the mutex held. *)
Help(t) ==
  LET node == Frame(Top(t))
  IN /\ At(t, "node", "sleep") /\ node.helping
     /\ stack' = Pushed(With(Top(t), [node EXCEPT !.pc = "help", !.help = Nil]),
                        t, Searching("begin", "END", node.help))
     /\ UNCHANGED <<idle, opened>>

(* delete help_, and the while loop once more; waiting_ keeps its value. *)
HelpEnds(t) ==
  LET node == Frame(Top(t))
      frames == With(Top(t), [node EXCEPT !.helping = FALSE, !.pc = "sleep"])
  IN /\ At(t, "node", "help")
     /\ stack' = IF node.slaves = {} THEN Ended(frames, t) ELSE frames
     /\ UNCHANGED <<idle, opened>>

----------------------------------------------------------------------------
(* Worker::Search, by a worker or by a master that helps. *)

Begin(t) ==
  LET frame == Frame(Top(t))
  IN /\ At(t, "search", "begin")
     /\ stack' = With(Top(t), [frame EXCEPT !.pc = "loop",
                                            !.state = Frame(Frame(frame.node).search).state])
     /\ UNCHANGED <<idle, opened>>

(* The head of the loop, with alpha read without the mutex. *)
Loop(t) ==
  LET frame == Frame(Top(t))
  IN /\ At(t, "search", "loop")
     /\ IF frame.move /\ frame.state = "RUNNING" /\ ~Frame(frame.node).cut
        THEN \/ Open(t, Top(t), frame.node, "report")
             \/ Goto(t, "report") /\ UNCHANGED <<idle, opened>>
        ELSE Goto(t, "remove") /\ UNCHANGED <<idle, opened>>

(* The locked section: the score may cut the node, and then stops its       *)
(* master's Search; the next move.                                          *)
Report(t) ==
  LET frame == Frame(Top(t))
      id == frame.node
      node == Frame(id)
      master == node.search
  IN /\ At(t, "search", "report") /\ ~Held(id)
     /\ \E cuts \in {FALSE} \cup (IF frame.state = "RUNNING" /\ ~node.cut THEN MayCut(node) ELSE {}) :
          LET stops == cuts /\ Running(id)
              after == [node EXCEPT !.cut = @ \/ cuts, !.stop_point = @ \/ stops]
              running == Running(id) /\ ~stops
          IN stack' = [stack EXCEPT
               ![t][Len(stack[t])] = [@ EXCEPT !.pc = "loop", !.move = HandsOut(after, running)],
               ![id[1]][id[2]] = Advanced(after, running),
               ![master[1]][master[2]].state =
                 IF stops THEN "STOP_PARALLEL" ELSE Frame(master).state]
     /\ UNCHANGED <<idle, opened>>

(* Detach and RemoveSlave; the Search of a helper is deleted then. *)
RemoveSlave(t) ==
  LET id == Frame(Top(t)).node
      frames == [stack EXCEPT ![id[1]][id[2]].slaves = @ \ {Top(t)}]
  IN /\ At(t, "search", "remove") /\ ~Held(id)
     /\ stack' = [frames EXCEPT ![t] = Popped(@)]
     /\ UNCHANGED <<idle, opened>>

PutIdleWorker(w) ==
  /\ stack[w] = <<>> /\ w \notin idle
  /\ idle' = idle \cup {w} /\ UNCHANGED <<stack, opened>>

----------------------------------------------------------------------------
Step(t) ==
  \/ t = Main /\ Run
  \/ FirstMove(t) \/ SearchMove(t) \/ Update(t) \/ NextMove(t)
  \/ Split(t) \/ Ask(t) \/ GetHelper(t) \/ GetIdleWorker(t)
  \/ WaitSlaves(t) \/ WakeUp(t) \/ Help(t) \/ HelpEnds(t)
  \/ Begin(t) \/ Loop(t) \/ Report(t) \/ RemoveSlave(t)
  \/ t \in Workers /\ PutIdleWorker(t)

Finished == At(Main, "search", "ran") /\ Len(stack[Main]) = 1 /\ idle = Workers

Terminated == Finished /\ UNCHANGED vars

(* No step goes back to a state that was, so the search ends if it never is *)
(* stuck: what else would be a liveness property is the lack of a deadlock. *)
Next == (\E t \in Threads : Step(t)) \/ Terminated

Spec == Init /\ [][Next]_vars

----------------------------------------------------------------------------
IsA(kind, id) ==
  id # Nil /\ id[2] \in DOMAIN stack[id[1]] /\ Frame(id).kind = kind
NodeIds == {id \in Ids : IsA("node", id)}

FrameTyped(id) ==
  LET f == Frame(id)
  IN \/ /\ f.kind = "search" /\ f.pc \in {"run", "ran", "begin", "loop", "report", "remove"}
        /\ f.state \in State /\ f.move \in BOOLEAN
        /\ IF id = <<Main, 1>> THEN f.node = Nil ELSE IsA("node", f.node)
     \/ /\ f.kind = "node" /\ f.todo \in 0 .. MoveCount
        /\ f.pc \in {"first", "search", "update", "next", "split", "ask", "lock", "pool", "wait",
                     "sleep", "help"}
        /\ {f.cut, f.move, f.stop_point, f.waiting, f.helping} \subseteq BOOLEAN
        /\ f.help = Nil \/ IsA("node", f.help)
        /\ f.asks = Nil \/ IsA("node", f.asks)

(* The Search that helps at a node, and the node it is called for or        *)
(* searches, until it is done: the master may not have woken yet.           *)
HelperOf(id) == <<id[1], id[2] + 1>>
Called(id) == Frame(id).helping /\ Frame(id).pc = "sleep"
Helped(id) ==
  CASE Called(id) -> {Frame(id).help}
    [] ~Called(id) /\ IsA("search", HelperOf(id)) -> {Frame(HelperOf(id)).node}
    [] OTHER -> {}

(* The frames have their types, and what they point to is there: a node's   *)
(* parent is an open node one deeper; slaves_ has each Search that serves   *)
(* the node and each helper that was called for it, and no other, however   *)
(* deep the threads are in one another's nodes (Node and Worker keep raw    *)
(* pointers to frames on other threads' stacks).                            *)
TypeOK ==
  /\ idle \subseteq Workers /\ opened \in 0 .. MaxNodes
  /\ \A id \in Ids : FrameTyped(id)
  /\ LET nodes == NodeIds
         called == {<<HelperOf(m), Frame(m).help>> : m \in {m \in nodes : Called(m)}}
         serving == called \cup {<<s, Frame(s).node>> : s \in Ids \ nodes}
     IN \A id \in nodes :
          LET node == Frame(id)
          IN /\ IsA("search", node.search) /\ node.search[1] = id[1]
             /\ IF node.parent = Nil THEN node.depth = Depth
                ELSE IsA("node", node.parent) /\ Frame(node.parent).depth = node.depth + 1
             /\ node.slaves = {pair[1] : pair \in {p \in serving : p[2] = id}}

(* The nodes of the chain of parents of a node: the least set of nodes that *)
(* has its parent and the parents of all that are in it.                    *)
Parents(S) == {Frame(n).parent : n \in S} \ {Nil}
Above(id) ==
  {n \in NodeIds : \A C \in SUBSET NodeIds : Parents({id} \cup C) \subseteq C => n \in C}

(* The node whose mutex a thread is about to lock, if not its own. *)
Wants(t) ==
  IF stack[t] = <<>> THEN Nil
  ELSE IF At(t, "node", "lock") THEN Frame(Top(t)).asks
  ELSE IF At(t, "search", "report") \/ At(t, "search", "remove") THEN Frame(Top(t)).node
  ELSE Nil
Blocked(t) == Wants(t) # Nil /\ Held(Wants(t))

(* A master that waits is only given help below the node it waits at, where *)
(* its own slaves are held up; and though it helps with its mutex held and  *)
(* GetHelper locks what it found free a moment before, there are never      *)
(* threads that all wait for mutexes held among themselves                  *)
(* (Node::WaitSlaves, Node::GetHelper).                                     *)
Untangled ==
  /\ \A id \in NodeIds : Frame(id).helping =>
       Frame(id).slaves # {} /\ \A n \in Helped(id) : id \in Above(n)
  /\ \A S \in (SUBSET Threads) \ {{}} : \E t \in S : Blocked(t) => Wants(t)[1] \notin S
=============================================================================
