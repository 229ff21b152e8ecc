--------------------------- MODULE SplitNodeProofs ---------------------------
(***************************************************************************)
(* Proofs about SplitNode, for any number of workers and helpers, any move *)
(* list and window, and any number of stops from outside.  The first part   *)
(* is about who works on the node and who waits for whom, with IInv; the    *)
(* second rests on IInv and is about what the node computes: who holds      *)
(* which move, what the best move and a stop mean, and that the result is   *)
(* an alpha-beta result.                                                    *)
(***************************************************************************)
EXTENDS SplitNode, TLAPS

(* Who searches, or reports on, a move has one. *)
MasterHasMove == {"firstSearch", "update", "readAlpha", "split", "assign",
                  "addSlave", "nullWindow", "compare", "reSearch"}
SlaveHasMove  == {"nullWindow", "compare", "reSearch", "report"}

HasMove ==
  /\ pc[Master] \in MasterHasMove => move[Master] # 0
  /\ \A s \in Slaves : pc[s] \in SlaveHasMove => move[s] # 0

(* Where a slave is tells where it is registered. *)
Registered ==
  \A s \in Slaves :
    /\ s \in slaves <=> pc[s] \in BusyPC
    /\ s \in children <=> pc[s] \in (BusyPC \ {"remove"}) \cup {"locked"}
    /\ assigned[s] <=> pc[s] \in BusyPC \cup {"locked", "leave"}
    /\ pc[s] = "locked" <=> hand = s /\ pc[Master] = "addSlave"

(* The worker in the master's hand. *)
Hand ==
  /\ hand # NoOne <=> pc[Master] \in {"assign", "addSlave"}
  /\ pc[Master] = "assign" => pc[hand] \in {"parked", "parking"}
  /\ \A w \in Workers :
       w \in idle <=> w # hand /\ pc[w] \in {"parked", "parking"}

(* No slave is left once the master has stopped waiting. *)
NoneLeft == pc[Master] \in {"store"} \cup Final => slaves = {}

(* While the master is to help, the slave it helps stays in its sub-search  *)
(* until help_->Search() is done; from then on the mutex is the master's.   *)
HelpInv ==
  /\ helpee # NoOne <=> helping /\ pc[Master] # "helped"
  /\ helpee # NoOne => pc[helpee] \in {"nullWindow", "reSearch"}
  /\ pc[Master] \in {"help", "helped"} => helping

(* No search starts below the window's alpha. *)
AboveAlpha ==
  /\ alpha >= Alpha
  /\ \A t \in Threads : base[t] >= Alpha
  /\ \A t \in Threads : pc[t] = "reSearch" => IsPV

IInv == /\ TypeOK /\ CursorInList /\ HasMove /\ Registered /\ Hand /\ NoneLeft
        /\ HelpConsistent /\ HelpInv /\ AboveAlpha

-----------------------------------------------------------------------------
USE ThreadsAssumption, WindowAssumption, BoundsAssumption
  DEF Slaves, Threads, Moves, State, MasterPC, BusyPC, SlavePC, Final, Goto,
      nodeVars, slaveVars, waitVars, threadVars, poolVars, envVars, nodeAll,
      OnlyPcChanges, OutsideOnly

LEMMA FirstMoveKeeps == IInv /\ FirstMove => IInv'
<1> SUFFICES ASSUME IInv, FirstMove PROVE IInv'
  OBVIOUS
<1> USE DEF IInv
<1>1. NodeTypeOK'
  <2>1. nextMove' \in 0 .. MoveCount /\ todo' \in 0 .. MoveCount
    BY DEF FirstMove, ResetCursor
  <2>2. movesDone' \in BOOLEAN
    BY DEF FirstMove, ResetCursor
  <2> QED
    BY <2>1, <2>2 DEF FirstMove, ResetCursor, TypeOK, NodeTypeOK
<1>2. ThreadTypeOK'
  BY DEF FirstMove, ResetCursor, TypeOK, NodeTypeOK, ThreadTypeOK, PoolTypeOK,
         CursorInList
<1>3. PoolTypeOK'
  BY DEF FirstMove, ResetCursor, TypeOK, ThreadTypeOK, PoolTypeOK
<1>4. (CursorInList /\ HasMove /\ AboveAlpha)'
  BY DEF FirstMove, ResetCursor, TypeOK, NodeTypeOK, ThreadTypeOK,
         CursorInList, HasMove, AboveAlpha, MasterHasMove, SlaveHasMove
<1>5. (Registered /\ Hand)'
  BY DEF FirstMove, ResetCursor, TypeOK, NodeTypeOK, ThreadTypeOK, PoolTypeOK,
         Registered, Hand
<1>6. (NoneLeft /\ HelpConsistent /\ HelpInv)'
  BY DEF FirstMove, ResetCursor, TypeOK, NodeTypeOK, ThreadTypeOK, PoolTypeOK,
         NoneLeft, HelpConsistent, HelpInv, Registered, MutexFree, Searching
<1> QED
  BY <1>1, <1>2, <1>3, <1>4, <1>5, <1>6 DEF TypeOK

LEMMA FirstMoveStoppedKeeps == IInv /\ FirstMoveStopped => IInv'
<1> SUFFICES ASSUME IInv, FirstMoveStopped PROVE IInv'
  OBVIOUS
<1> USE DEF IInv
<1>1. NodeTypeOK'
  <2>1. nextMove' \in 0 .. MoveCount /\ todo' \in 0 .. MoveCount
    BY DEF FirstMoveStopped, ResetCursor
  <2>2. movesDone' \in BOOLEAN
    BY DEF FirstMoveStopped, ResetCursor
  <2> QED
    BY <2>1, <2>2 DEF FirstMoveStopped, ResetCursor, TypeOK, NodeTypeOK
<1>2. ThreadTypeOK'
  BY DEF FirstMoveStopped, ResetCursor, TypeOK, NodeTypeOK, ThreadTypeOK,
         PoolTypeOK, CursorInList
<1>3. PoolTypeOK'
  BY DEF FirstMoveStopped, ResetCursor, TypeOK, ThreadTypeOK, PoolTypeOK
<1>4. (CursorInList /\ HasMove /\ AboveAlpha)'
  BY DEF FirstMoveStopped, ResetCursor, TypeOK, NodeTypeOK, ThreadTypeOK,
         CursorInList, HasMove, AboveAlpha, MasterHasMove, SlaveHasMove
<1>5. (Registered /\ Hand)'
  BY DEF FirstMoveStopped, ResetCursor, TypeOK, NodeTypeOK, ThreadTypeOK,
         PoolTypeOK, Registered, Hand
<1>6. (NoneLeft /\ HelpConsistent /\ HelpInv)'
  BY DEF FirstMoveStopped, ResetCursor, TypeOK, NodeTypeOK, ThreadTypeOK,
         PoolTypeOK, NoneLeft, HelpConsistent, HelpInv, Registered, MutexFree,
         Searching
<1> QED
  BY <1>1, <1>2, <1>3, <1>4, <1>5, <1>6 DEF TypeOK

LEMMA FirstSearchReturnsKeeps == IInv /\ FirstSearchReturns => IInv'
<1> SUFFICES ASSUME IInv, FirstSearchReturns PROVE IInv'
  OBVIOUS
<1> USE DEF IInv
<1>1. NodeTypeOK'
  BY DEF FirstSearchReturns, WindowScores, NullWindowScores, TypeOK,
         NodeTypeOK, ThreadTypeOK, CursorInList, HasMove, MasterHasMove,
         SlaveHasMove
<1>2. ThreadTypeOK'
  BY DEF FirstSearchReturns, WindowScores, NullWindowScores, TypeOK,
         NodeTypeOK, ThreadTypeOK, PoolTypeOK, CursorInList
<1>3. PoolTypeOK'
  BY DEF FirstSearchReturns, WindowScores, NullWindowScores, TypeOK,
         ThreadTypeOK, PoolTypeOK
<1>4. (CursorInList /\ HasMove /\ AboveAlpha)'
  BY DEF FirstSearchReturns, WindowScores, NullWindowScores, TypeOK,
         NodeTypeOK, ThreadTypeOK, CursorInList, HasMove, AboveAlpha,
         MasterHasMove, SlaveHasMove
<1>5. (Registered /\ Hand)'
  BY DEF FirstSearchReturns, WindowScores, NullWindowScores, TypeOK,
         NodeTypeOK, ThreadTypeOK, PoolTypeOK, Registered, Hand
<1>6. (NoneLeft /\ HelpConsistent /\ HelpInv)'
  BY DEF FirstSearchReturns, WindowScores, NullWindowScores, TypeOK,
         NodeTypeOK, ThreadTypeOK, PoolTypeOK, NoneLeft, HelpConsistent,
         HelpInv, Registered, MutexFree, Searching
<1> QED
  BY <1>1, <1>2, <1>3, <1>4, <1>5, <1>6 DEF TypeOK

LEMMA UpdateKeeps == IInv /\ Update => IInv'
BY DEF Update, StopAll, TakeScore, Improves, RaisedAlpha, IInv, TypeOK,
       NodeTypeOK, ThreadTypeOK, PoolTypeOK, CursorInList, HasMove,
       Registered, Hand, NoneLeft, HelpConsistent, HelpInv, AboveAlpha,
       MasterHasMove, SlaveHasMove

LEMMA NextMoveKeeps == IInv /\ NextMove => IInv'
<1> SUFFICES ASSUME IInv, NextMove PROVE IInv'
  OBVIOUS
<1> USE DEF IInv
<1>1. NodeTypeOK'
  <2>1. CASE CanHandOut(alpha, state[Master])
    BY <2>1 DEF NextMove, NextMoveLockless, HandedOut, CanHandOut, TypeOK,
           NodeTypeOK, ThreadTypeOK, CursorInList, HasMove, MasterHasMove,
           SlaveHasMove
  <2>2. CASE ~(CanHandOut(alpha, state[Master]))
    BY <2>2 DEF NextMove, NextMoveLockless, HandedOut, CanHandOut, TypeOK,
           NodeTypeOK, ThreadTypeOK, CursorInList, HasMove, MasterHasMove,
           SlaveHasMove
  <2> QED BY <2>1, <2>2
<1>2. ThreadTypeOK'
  <2>1. CASE CanHandOut(alpha, state[Master])
    BY <2>1 DEF NextMove, NextMoveLockless, HandedOut, CanHandOut, TypeOK,
           NodeTypeOK, ThreadTypeOK, PoolTypeOK, CursorInList
  <2>2. CASE ~(CanHandOut(alpha, state[Master]))
    BY <2>2 DEF NextMove, NextMoveLockless, HandedOut, CanHandOut, TypeOK,
           NodeTypeOK, ThreadTypeOK, PoolTypeOK, CursorInList
  <2> QED BY <2>1, <2>2
<1>3. PoolTypeOK'
  <2>1. CASE CanHandOut(alpha, state[Master])
    BY <2>1 DEF NextMove, NextMoveLockless, HandedOut, CanHandOut, TypeOK,
           ThreadTypeOK, PoolTypeOK
  <2>2. CASE ~(CanHandOut(alpha, state[Master]))
    BY <2>2 DEF NextMove, NextMoveLockless, HandedOut, CanHandOut, TypeOK,
           ThreadTypeOK, PoolTypeOK
  <2> QED BY <2>1, <2>2
<1>4. (CursorInList /\ HasMove /\ AboveAlpha)'
  <2>1. CASE CanHandOut(alpha, state[Master])
    BY <2>1 DEF NextMove, NextMoveLockless, HandedOut, CanHandOut, TypeOK,
           NodeTypeOK, ThreadTypeOK, CursorInList, HasMove, AboveAlpha,
           MasterHasMove, SlaveHasMove
  <2>2. CASE ~(CanHandOut(alpha, state[Master]))
    BY <2>2 DEF NextMove, NextMoveLockless, HandedOut, CanHandOut, TypeOK,
           NodeTypeOK, ThreadTypeOK, CursorInList, HasMove, AboveAlpha,
           MasterHasMove, SlaveHasMove
  <2> QED BY <2>1, <2>2
<1>5. (Registered /\ Hand)'
  <2>1. CASE CanHandOut(alpha, state[Master])
    BY <2>1 DEF NextMove, NextMoveLockless, HandedOut, CanHandOut, TypeOK,
           NodeTypeOK, ThreadTypeOK, PoolTypeOK, Registered, Hand
  <2>2. CASE ~(CanHandOut(alpha, state[Master]))
    BY <2>2 DEF NextMove, NextMoveLockless, HandedOut, CanHandOut, TypeOK,
           NodeTypeOK, ThreadTypeOK, PoolTypeOK, Registered, Hand
  <2> QED BY <2>1, <2>2
<1>6. (NoneLeft /\ HelpConsistent /\ HelpInv)'
  <2>1. CASE CanHandOut(alpha, state[Master])
    BY <2>1 DEF NextMove, NextMoveLockless, HandedOut, CanHandOut, TypeOK,
           NodeTypeOK, ThreadTypeOK, PoolTypeOK, NoneLeft, HelpConsistent,
           HelpInv, Registered, MutexFree, Searching
  <2>2. CASE ~(CanHandOut(alpha, state[Master]))
    BY <2>2 DEF NextMove, NextMoveLockless, HandedOut, CanHandOut, TypeOK,
           NodeTypeOK, ThreadTypeOK, PoolTypeOK, NoneLeft, HelpConsistent,
           HelpInv, Registered, MutexFree, Searching
  <2> QED BY <2>1, <2>2
<1> QED
  BY <1>1, <1>2, <1>3, <1>4, <1>5, <1>6 DEF TypeOK

LEMMA ReadAlphaKeeps == IInv /\ ReadAlpha => IInv'
BY DEF ReadAlpha, IInv, TypeOK, NodeTypeOK, ThreadTypeOK, PoolTypeOK,
       CursorInList, HasMove, Registered, Hand, NoneLeft, HelpConsistent,
       HelpInv, AboveAlpha, MasterHasMove, SlaveHasMove

LEMMA NoSplitKeeps == IInv /\ NoSplit => IInv'
BY DEF NoSplit, IInv, TypeOK, NodeTypeOK, ThreadTypeOK, PoolTypeOK,
       CursorInList, HasMove, Registered, Hand, NoneLeft, HelpConsistent,
       HelpInv, AboveAlpha, MasterHasMove, SlaveHasMove

LEMMA AssignKeeps == IInv /\ Assign => IInv'
<1> SUFFICES ASSUME IInv, Assign PROVE IInv'
  OBVIOUS
<1> USE DEF IInv
<1>1. NodeTypeOK'
  <2>1. hand \in Slaves
    BY DEF Assign, TypeOK, PoolTypeOK, Hand
  <2> QED
    BY <2>1 DEF Assign, TypeOK, NodeTypeOK
<1>2. ThreadTypeOK'
  BY DEF Assign, TypeOK, NodeTypeOK, ThreadTypeOK, PoolTypeOK, CursorInList
<1>3. PoolTypeOK'
  BY DEF Assign, TypeOK, ThreadTypeOK, PoolTypeOK
<1>4. (CursorInList /\ HasMove /\ AboveAlpha)'
  BY DEF Assign, TypeOK, NodeTypeOK, ThreadTypeOK, CursorInList, HasMove,
         AboveAlpha, MasterHasMove, SlaveHasMove
<1>5. (Registered /\ Hand)'
  BY DEF Assign, TypeOK, NodeTypeOK, ThreadTypeOK, PoolTypeOK, Registered,
         Hand
<1>6. (NoneLeft /\ HelpConsistent /\ HelpInv)'
  BY DEF Assign, TypeOK, NodeTypeOK, ThreadTypeOK, PoolTypeOK, NoneLeft,
         HelpConsistent, HelpInv, Registered, MutexFree, Searching
<1> QED
  BY <1>1, <1>2, <1>3, <1>4, <1>5, <1>6 DEF TypeOK

LEMMA AddSlaveKeeps == IInv /\ AddSlave => IInv'
BY SMTT(30) DEF AddSlave, IInv, TypeOK, NodeTypeOK, ThreadTypeOK, PoolTypeOK,
       CursorInList, HasMove, Registered, Hand, NoneLeft, HelpConsistent,
       HelpInv, AboveAlpha, MasterHasMove, SlaveHasMove

LEMMA NothingToWaitForKeeps == IInv /\ NothingToWaitFor => IInv'
<1> SUFFICES ASSUME IInv, NothingToWaitFor PROVE IInv'
  OBVIOUS
<1> USE DEF IInv
<1>1. NodeTypeOK'
  BY DEF NothingToWaitFor, LeaveWait, TypeOK, NodeTypeOK, ThreadTypeOK,
         CursorInList, HasMove, MasterHasMove, SlaveHasMove
<1>2. ThreadTypeOK'
  BY DEF NothingToWaitFor, LeaveWait, TypeOK, NodeTypeOK, ThreadTypeOK,
         PoolTypeOK, CursorInList
<1>3. PoolTypeOK'
  BY DEF NothingToWaitFor, LeaveWait, TypeOK, ThreadTypeOK, PoolTypeOK
<1>4. (CursorInList /\ HasMove /\ AboveAlpha)'
  BY DEF NothingToWaitFor, LeaveWait, TypeOK, NodeTypeOK, ThreadTypeOK,
         CursorInList, HasMove, AboveAlpha, MasterHasMove, SlaveHasMove
<1>5. (Registered /\ Hand)'
  BY DEF NothingToWaitFor, LeaveWait, TypeOK, NodeTypeOK, ThreadTypeOK,
         PoolTypeOK, Registered, Hand
<1>6. (NoneLeft /\ HelpConsistent /\ HelpInv)'
  BY DEF NothingToWaitFor, LeaveWait, TypeOK, NodeTypeOK, ThreadTypeOK,
         PoolTypeOK, NoneLeft, HelpConsistent, HelpInv, Registered, MutexFree,
         Searching
<1> QED
  BY <1>1, <1>2, <1>3, <1>4, <1>5, <1>6 DEF TypeOK

LEMMA StartWaitingKeeps == IInv /\ StartWaiting => IInv'
BY DEF StartWaiting, StopAll, IInv, TypeOK, NodeTypeOK, ThreadTypeOK,
       PoolTypeOK, CursorInList, HasMove, Registered, Hand, NoneLeft,
       HelpConsistent, HelpInv, AboveAlpha, MasterHasMove, SlaveHasMove

LEMMA WakeUpKeeps == IInv /\ WakeUp => IInv'
<1> SUFFICES ASSUME IInv, WakeUp PROVE IInv'
  OBVIOUS
<1> USE DEF IInv
<1>1. NodeTypeOK'
  BY DEF WakeUp, LeaveWait, NobodyLeft, TypeOK, NodeTypeOK, ThreadTypeOK,
         CursorInList, HasMove, MasterHasMove, SlaveHasMove
<1>2. ThreadTypeOK'
  BY DEF WakeUp, LeaveWait, NobodyLeft, TypeOK, NodeTypeOK, ThreadTypeOK,
         PoolTypeOK, CursorInList
<1>3. PoolTypeOK'
  BY DEF WakeUp, LeaveWait, NobodyLeft, TypeOK, ThreadTypeOK, PoolTypeOK
<1>4. (CursorInList /\ HasMove /\ AboveAlpha)'
  BY DEF WakeUp, LeaveWait, NobodyLeft, TypeOK, NodeTypeOK, ThreadTypeOK,
         CursorInList, HasMove, AboveAlpha, MasterHasMove, SlaveHasMove
<1>5. (Registered /\ Hand)'
  BY DEF WakeUp, LeaveWait, NobodyLeft, TypeOK, NodeTypeOK, ThreadTypeOK,
         PoolTypeOK, Registered, Hand
<1>6. (NoneLeft /\ HelpConsistent /\ HelpInv)'
  BY DEF WakeUp, LeaveWait, NobodyLeft, TypeOK, NodeTypeOK, ThreadTypeOK,
         PoolTypeOK, NoneLeft, HelpConsistent, HelpInv, Registered, MutexFree,
         Searching
<1> QED
  BY <1>1, <1>2, <1>3, <1>4, <1>5, <1>6 DEF TypeOK

LEMMA HelpKeeps == IInv /\ Help => IInv'
BY DEF Help, IInv, TypeOK, NodeTypeOK, ThreadTypeOK, PoolTypeOK, CursorInList,
       HasMove, Registered, Hand, NoneLeft, HelpConsistent, HelpInv,
       AboveAlpha, MasterHasMove, SlaveHasMove

LEMMA HelpSearchedKeeps == IInv /\ HelpSearched => IInv'
BY DEF HelpSearched, IInv, TypeOK, NodeTypeOK, ThreadTypeOK, PoolTypeOK,
       CursorInList, HasMove, Registered, Hand, NoneLeft, HelpConsistent,
       HelpInv, AboveAlpha, MasterHasMove, SlaveHasMove

LEMMA HelpEndsKeeps == IInv /\ HelpEnds => IInv'
<1> SUFFICES ASSUME IInv, HelpEnds PROVE IInv'
  OBVIOUS
<1> USE DEF IInv
<1>1. NodeTypeOK'
  BY DEF HelpEnds, LeaveWait, StopHelping, TypeOK, NodeTypeOK, ThreadTypeOK,
         CursorInList, HasMove, MasterHasMove, SlaveHasMove
<1>2. ThreadTypeOK'
  BY DEF HelpEnds, LeaveWait, StopHelping, TypeOK, NodeTypeOK, ThreadTypeOK,
         PoolTypeOK, CursorInList
<1>3. PoolTypeOK'
  BY DEF HelpEnds, LeaveWait, StopHelping, TypeOK, ThreadTypeOK, PoolTypeOK
<1>4. (CursorInList /\ HasMove /\ AboveAlpha)'
  BY DEF HelpEnds, LeaveWait, StopHelping, TypeOK, NodeTypeOK, ThreadTypeOK,
         CursorInList, HasMove, AboveAlpha, MasterHasMove, SlaveHasMove
<1>5. (Registered /\ Hand)'
  <2>1. \/ pc' = [pc EXCEPT ![Master] = "store"]
        \/ pc' = [pc EXCEPT ![Master] = "sleep"]
    BY DEF HelpEnds, LeaveWait
  <2> QED
    BY <2>1 DEF HelpEnds, TypeOK, ThreadTypeOK, PoolTypeOK, Registered, Hand
<1>6. (NoneLeft /\ HelpConsistent /\ HelpInv)'
  <2>1. NoneLeft'
    BY DEF HelpEnds, LeaveWait, TypeOK, ThreadTypeOK, NoneLeft
  <2>2. (HelpConsistent /\ HelpInv)'
    BY DEF HelpEnds, LeaveWait, StopHelping, TypeOK, NodeTypeOK, ThreadTypeOK,
           PoolTypeOK, HelpConsistent, HelpInv
  <2> QED BY <2>1, <2>2
<1> QED
  BY <1>1, <1>2, <1>3, <1>4, <1>5, <1>6 DEF TypeOK

LEMMA StoreKeeps == IInv /\ Store => IInv'
BY DEF Store, IInv, TypeOK, NodeTypeOK, ThreadTypeOK, PoolTypeOK,
       CursorInList, HasMove, Registered, Hand, NoneLeft, HelpConsistent,
       HelpInv, AboveAlpha, MasterHasMove, SlaveHasMove

LEMMA ParentStopKeeps == IInv /\ ParentStop => IInv'
BY DEF ParentStop, IInv, TypeOK, NodeTypeOK, ThreadTypeOK, PoolTypeOK,
       CursorInList, HasMove, Registered, Hand, NoneLeft, HelpConsistent,
       HelpInv, AboveAlpha, MasterHasMove, SlaveHasMove

LEMMA ParentStopsChildrenKeeps == IInv /\ ParentStopsChildren => IInv'
<1> SUFFICES ASSUME IInv, ParentStopsChildren PROVE IInv'
  OBVIOUS
<1> USE DEF IInv
<1>1. NodeTypeOK'
  BY DEF ParentStopsChildren, StopAll, TypeOK, NodeTypeOK, ThreadTypeOK,
         CursorInList, HasMove, MasterHasMove, SlaveHasMove
<1>2. ThreadTypeOK'
  BY DEF ParentStopsChildren, StopAll, TypeOK, NodeTypeOK, ThreadTypeOK,
         PoolTypeOK, CursorInList
<1>3. PoolTypeOK'
  BY DEF ParentStopsChildren, StopAll, TypeOK, ThreadTypeOK, PoolTypeOK
<1>4. (CursorInList /\ HasMove /\ AboveAlpha)'
  BY DEF ParentStopsChildren, StopAll, TypeOK, NodeTypeOK, ThreadTypeOK,
         CursorInList, HasMove, AboveAlpha, MasterHasMove, SlaveHasMove
<1>5. (Registered /\ Hand)'
  BY DEF ParentStopsChildren, StopAll, TypeOK, NodeTypeOK, ThreadTypeOK,
         PoolTypeOK, Registered, Hand
<1>6. (NoneLeft /\ HelpConsistent /\ HelpInv)'
  BY DEF ParentStopsChildren, StopAll, TypeOK, NodeTypeOK, ThreadTypeOK,
         PoolTypeOK, NoneLeft, HelpConsistent, HelpInv, Registered, MutexFree,
         Searching
<1> QED
  BY <1>1, <1>2, <1>3, <1>4, <1>5, <1>6 DEF TypeOK

LEMMA TakeSlaveKeeps ==
  ASSUME NEW s \in Slaves
  PROVE  IInv /\ TakeSlave(s) => IInv'
BY SMTT(30) DEF TakeSlave, SplitAllowed, GetHelper, GetIdleWorker, IInv, TypeOK,
       NodeTypeOK, ThreadTypeOK, PoolTypeOK, CursorInList, HasMove,
       Registered, Hand, NoneLeft, HelpConsistent, HelpInv, AboveAlpha,
       MasterHasMove, SlaveHasMove

LEMMA ReadMasterStateKeeps ==
  ASSUME NEW s \in Slaves
  PROVE  IInv /\ ReadMasterState(s) => IInv'
BY DEF ReadMasterState, IInv, TypeOK, NodeTypeOK, ThreadTypeOK, PoolTypeOK,
       CursorInList, HasMove, Registered, Hand, NoneLeft, HelpConsistent,
       HelpInv, AboveAlpha, MasterHasMove, SlaveHasMove

LEMMA SetStateKeeps ==
  ASSUME NEW s \in Slaves
  PROVE  IInv /\ SetState(s) => IInv'
BY DEF SetState, IInv, TypeOK, NodeTypeOK, ThreadTypeOK, PoolTypeOK,
       CursorInList, HasMove, Registered, Hand, NoneLeft, HelpConsistent,
       HelpInv, AboveAlpha, MasterHasMove, SlaveHasMove

LEMMA StartMoveKeeps ==
  ASSUME NEW s \in Slaves
  PROVE  IInv /\ StartMove(s) => IInv'
BY SMTT(30) DEF StartMove, MayStart, IInv, TypeOK, NodeTypeOK, ThreadTypeOK,
       PoolTypeOK, CursorInList, HasMove, Registered, Hand, NoneLeft,
       HelpConsistent, HelpInv, AboveAlpha, MasterHasMove, SlaveHasMove

LEMMA EndLoopKeeps ==
  ASSUME NEW s \in Slaves
  PROVE  IInv /\ EndLoop(s) => IInv'
BY DEF EndLoop, MayStart, IInv, TypeOK, NodeTypeOK, ThreadTypeOK, PoolTypeOK,
       CursorInList, HasMove, Registered, Hand, NoneLeft, HelpConsistent,
       HelpInv, AboveAlpha, MasterHasMove, SlaveHasMove

LEMMA ReportKeeps ==
  ASSUME NEW s \in Slaves
  PROVE  IInv /\ Report(s) => IInv'
<1> SUFFICES ASSUME IInv, Report(s) PROVE IInv'
  OBVIOUS
<1> USE DEF IInv
<1>1. NodeTypeOK'
  <2>1. score[move[s]] \in Int
    BY DEF Report, TypeOK, NodeTypeOK, ThreadTypeOK, HasMove, SlaveHasMove
  <2>2. alpha' \in Int /\ bestScore' \in Int
    BY <2>1 DEF Report, TakeScore, Improves, RaisedAlpha, TypeOK, NodeTypeOK
  <2>3. nextMove' \in 0 .. MoveCount /\ todo' \in 0 .. MoveCount
    BY DEF Report, NextMoveLockless, HandedOut, CanHandOut, TypeOK, NodeTypeOK,
           CursorInList
  <2>4. movesDone' \in BOOLEAN
    BY DEF Report, NextMoveLockless, TypeOK, NodeTypeOK
  <2> QED
    BY <2>2, <2>3, <2>4 DEF Report, TakeScore, TypeOK, NodeTypeOK, ThreadTypeOK
<1>2. ThreadTypeOK'
  BY SMTT(30) DEF Report, TakeScore, Improves, RaisedAlpha, NextMoveLockless,
         HandedOut, CanHandOut, MutexFree, TypeOK, NodeTypeOK, ThreadTypeOK,
         PoolTypeOK, CursorInList
<1>3. PoolTypeOK'
  BY DEF Report, TakeScore, Improves, RaisedAlpha, NextMoveLockless,
         HandedOut, CanHandOut, MutexFree, TypeOK, ThreadTypeOK, PoolTypeOK
<1>4. (CursorInList /\ HasMove /\ AboveAlpha)'
  <2>1. CursorInList'
    BY DEF Report, NextMoveLockless, HandedOut, CanHandOut, TypeOK, NodeTypeOK,
           CursorInList
  <2>2. HasMove'
    BY DEF Report, TypeOK, ThreadTypeOK, HasMove, MasterHasMove, SlaveHasMove
  <2>3. score[move[s]] \in Int
    BY DEF Report, TypeOK, NodeTypeOK, ThreadTypeOK, HasMove, SlaveHasMove
  <2>4. AboveAlpha'
    BY <2>3 DEF Report, TakeScore, RaisedAlpha, TypeOK, NodeTypeOK, ThreadTypeOK,
           AboveAlpha
  <2> QED
    BY <2>1, <2>2, <2>4
<1>5. (Registered /\ Hand)'
  BY DEF Report, TakeScore, Improves, RaisedAlpha, NextMoveLockless,
         HandedOut, CanHandOut, MutexFree, TypeOK, NodeTypeOK, ThreadTypeOK,
         PoolTypeOK, Registered, Hand
<1>6. (NoneLeft /\ HelpConsistent /\ HelpInv)'
  BY DEF Report, TakeScore, Improves, RaisedAlpha, NextMoveLockless,
         HandedOut, CanHandOut, MutexFree, TypeOK, NodeTypeOK, ThreadTypeOK,
         PoolTypeOK, NoneLeft, HelpConsistent, HelpInv, Registered, Searching
<1> QED
  BY <1>1, <1>2, <1>3, <1>4, <1>5, <1>6 DEF TypeOK

LEMMA DetachKeeps ==
  ASSUME NEW s \in Slaves
  PROVE  IInv /\ Detach(s) => IInv'
BY DEF Detach, IInv, TypeOK, NodeTypeOK, ThreadTypeOK, PoolTypeOK,
       CursorInList, HasMove, Registered, Hand, NoneLeft, HelpConsistent,
       HelpInv, AboveAlpha, MasterHasMove, SlaveHasMove

LEMMA RemoveSlaveKeeps ==
  ASSUME NEW s \in Slaves
  PROVE  IInv /\ RemoveSlave(s) => IInv'
BY DEF RemoveSlave, MutexFree, IInv, TypeOK, NodeTypeOK, ThreadTypeOK,
       PoolTypeOK, CursorInList, HasMove, Registered, Hand, NoneLeft,
       HelpConsistent, HelpInv, AboveAlpha, MasterHasMove, SlaveHasMove

LEMMA LeaveKeeps ==
  ASSUME NEW s \in Slaves
  PROVE  IInv /\ Leave(s) => IInv'
<1> SUFFICES ASSUME IInv, Leave(s) PROVE IInv'
  OBVIOUS
<1> USE DEF IInv
<1>1. NodeTypeOK'
  BY DEF Leave, ClearNode, PutIdleWorker, TypeOK, NodeTypeOK, ThreadTypeOK, CursorInList,
         HasMove, MasterHasMove, SlaveHasMove
<1>2. ThreadTypeOK'
  BY DEF Leave, ClearNode, PutIdleWorker, TypeOK, NodeTypeOK, ThreadTypeOK, PoolTypeOK,
         CursorInList
<1>3. PoolTypeOK'
  BY DEF Leave, ClearNode, PutIdleWorker, TypeOK, ThreadTypeOK, PoolTypeOK
<1>4. (CursorInList /\ HasMove /\ AboveAlpha)'
  BY DEF Leave, ClearNode, PutIdleWorker, TypeOK, NodeTypeOK, ThreadTypeOK, CursorInList,
         HasMove, AboveAlpha, MasterHasMove, SlaveHasMove
<1>5. (Registered /\ Hand)'
  <2>1. Registered'
    BY DEF Leave, ClearNode, TypeOK, NodeTypeOK, ThreadTypeOK, PoolTypeOK, Registered
  <2>2. Hand'
    BY DEF Leave, PutIdleWorker, TypeOK, ThreadTypeOK, PoolTypeOK, Registered, Hand
  <2> QED BY <2>1, <2>2
<1>6. (NoneLeft /\ HelpConsistent /\ HelpInv)'
  BY DEF Leave, ClearNode, PutIdleWorker, TypeOK, NodeTypeOK, ThreadTypeOK, PoolTypeOK,
         NoneLeft, HelpConsistent, HelpInv, Registered, MutexFree, Searching
<1> QED
  BY <1>1, <1>2, <1>3, <1>4, <1>5, <1>6 DEF TypeOK

LEMMA ParkKeeps ==
  ASSUME NEW s \in Slaves
  PROVE  IInv /\ Park(s) => IInv'
BY DEF Park, IInv, TypeOK, NodeTypeOK, ThreadTypeOK, PoolTypeOK, CursorInList,
       HasMove, Registered, Hand, NoneLeft, HelpConsistent, HelpInv,
       AboveAlpha, MasterHasMove, SlaveHasMove

LEMMA AskHelpKeeps ==
  ASSUME NEW s \in Slaves
  PROVE  IInv /\ AskHelp(s) => IInv'
<1> SUFFICES ASSUME IInv, AskHelp(s) PROVE IInv'
  OBVIOUS
<1> USE DEF IInv
<1>1. NodeTypeOK'
  BY DEF AskHelp, MutexFree, Searching, TypeOK, NodeTypeOK, ThreadTypeOK,
         CursorInList, HasMove, MasterHasMove, SlaveHasMove
<1>2. ThreadTypeOK'
  BY DEF AskHelp, MutexFree, Searching, TypeOK, NodeTypeOK, ThreadTypeOK,
         PoolTypeOK, CursorInList
<1>3. PoolTypeOK'
  BY DEF AskHelp, MutexFree, Searching, TypeOK, ThreadTypeOK, PoolTypeOK
<1>4. (CursorInList /\ HasMove /\ AboveAlpha)'
  BY DEF AskHelp, MutexFree, Searching, TypeOK, NodeTypeOK, ThreadTypeOK,
         CursorInList, HasMove, AboveAlpha, MasterHasMove, SlaveHasMove
<1>5. (Registered /\ Hand)'
  BY DEF AskHelp, MutexFree, Searching, TypeOK, NodeTypeOK, ThreadTypeOK,
         PoolTypeOK, Registered, Hand
<1>6. (NoneLeft /\ HelpConsistent /\ HelpInv)'
  BY DEF AskHelp, MutexFree, Searching, TypeOK, NodeTypeOK, ThreadTypeOK,
         PoolTypeOK, NoneLeft, HelpConsistent, HelpInv, Registered
<1> QED
  BY <1>1, <1>2, <1>3, <1>4, <1>5, <1>6 DEF TypeOK

LEMMA NullWindowReturnsKeeps ==
  ASSUME NEW t \in Threads
  PROVE  IInv /\ NullWindowReturns(t) => IInv'
BY SMTT(30) DEF NullWindowReturns, WindowScores, NullWindowScores, IInv, TypeOK,
       NodeTypeOK, ThreadTypeOK, PoolTypeOK, CursorInList, HasMove,
       Registered, Hand, NoneLeft, HelpConsistent, HelpInv, AboveAlpha,
       MasterHasMove, SlaveHasMove

LEMMA ReSearchKeeps ==
  ASSUME NEW t \in Threads
  PROVE  IInv /\ ReSearch(t) => IInv'
BY SMTT(30) DEF ReSearch, InWindow, IInv, TypeOK, NodeTypeOK, ThreadTypeOK, PoolTypeOK,
       CursorInList, HasMove, Registered, Hand, NoneLeft, HelpConsistent,
       HelpInv, AboveAlpha, MasterHasMove, SlaveHasMove

LEMMA KeepScoreKeeps ==
  ASSUME NEW t \in Threads
  PROVE  IInv /\ KeepScore(t) => IInv'
BY SMTT(30) DEF KeepScore, InWindow, IInv, TypeOK, NodeTypeOK, ThreadTypeOK,
       PoolTypeOK, CursorInList, HasMove, Registered, Hand, NoneLeft,
       HelpConsistent, HelpInv, AboveAlpha, MasterHasMove, SlaveHasMove

LEMMA ReSearchReturnsKeeps ==
  ASSUME NEW t \in Threads
  PROVE  IInv /\ ReSearchReturns(t) => IInv'
BY SMTT(30) DEF ReSearchReturns, WindowScores, ReSearchScore, IInv, TypeOK, NodeTypeOK,
       ThreadTypeOK, PoolTypeOK, CursorInList, HasMove, Registered, Hand,
       NoneLeft, HelpConsistent, HelpInv, AboveAlpha, MasterHasMove,
       SlaveHasMove

LEMMA InnerCutKeeps ==
  ASSUME NEW t \in Threads
  PROVE  IInv /\ InnerCut(t) => IInv'
BY DEF InnerCut, Searching, IInv, TypeOK, NodeTypeOK, ThreadTypeOK,
       PoolTypeOK, CursorInList, HasMove, Registered, Hand, NoneLeft,
       HelpConsistent, HelpInv, AboveAlpha, MasterHasMove, SlaveHasMove

LEMMA InnerResumeKeeps ==
  ASSUME NEW t \in Threads
  PROVE  IInv /\ InnerResume(t) => IInv'
BY DEF InnerResume, IInv, TypeOK, NodeTypeOK, ThreadTypeOK, PoolTypeOK,
       CursorInList, HasMove, Registered, Hand, NoneLeft, HelpConsistent,
       HelpInv, AboveAlpha, MasterHasMove, SlaveHasMove

LEMMA UnchangedKeeps == IInv /\ UNCHANGED vars => IInv'
BY DEF IInv, vars, TypeOK, NodeTypeOK, ThreadTypeOK, PoolTypeOK, CursorInList,
       HasMove, Registered, Hand, NoneLeft, HelpConsistent, HelpInv, AboveAlpha

LEMMA InitIInv == Init => IInv
<1> SUFFICES ASSUME Init PROVE IInv
  OBVIOUS
<1>1. TypeOK
  <2>a. MinScore \in Int /\ 0 \in 0 .. MoveCount
    OBVIOUS
  <2>b. movesDone \in BOOLEAN /\ stopPoint \in BOOLEAN /\ waiting \in BOOLEAN
        /\ helping \in BOOLEAN /\ spin \in BOOLEAN
    BY DEF Init
  <2>1. NodeTypeOK
    BY <2>a, <2>b DEF Init, NodeTypeOK
  <2>c. /\ pc \in [Threads -> MasterPC \cup SlavePC]
        /\ pc[Master] \in MasterPC /\ \A s \in Slaves : pc[s] \in SlavePC
    BY DEF Init
  <2>d. state \in [Threads -> State] /\ seen \in [Slaves -> State]
    BY DEF Init
  <2>e. move \in [Threads -> 0 .. MoveCount] /\ base \in [Threads -> Int]
    BY <2>a DEF Init
  <2>2. ThreadTypeOK
    BY <2>b, <2>c, <2>d, <2>e DEF ThreadTypeOK
  <2>3. PoolTypeOK
    BY DEF Init, PoolTypeOK
  <2> QED
    BY <2>1, <2>2, <2>3 DEF TypeOK
<1>2. CursorInList /\ HasMove /\ NoneLeft /\ HelpConsistent /\ HelpInv /\ AboveAlpha
  BY DEF Init, CursorInList, HasMove, MasterHasMove, SlaveHasMove, NoneLeft,
         HelpConsistent, HelpInv, AboveAlpha
<1>3. Registered /\ Hand
  BY DEF Init, Registered, Hand
<1> QED
  BY <1>1, <1>2, <1>3 DEF IInv

LEMMA StepIInv == IInv /\ [Next]_vars => IInv'
<1> SUFFICES ASSUME IInv, [Next]_vars PROVE IInv'
  OBVIOUS
<1>1. CASE MasterStep
  BY <1>1, FirstMoveKeeps, FirstMoveStoppedKeeps, FirstSearchReturnsKeeps,
         UpdateKeeps, NextMoveKeeps, ReadAlphaKeeps, NoSplitKeeps,
         AssignKeeps, AddSlaveKeeps, NothingToWaitForKeeps, StartWaitingKeeps,
         WakeUpKeeps, HelpKeeps, HelpSearchedKeeps, HelpEndsKeeps, StoreKeeps,
         TakeSlaveKeeps, NullWindowReturnsKeeps, ReSearchKeeps,
         KeepScoreKeeps, ReSearchReturnsKeeps DEF MasterStep
<1>2. ASSUME NEW s \in Slaves, SlaveStep(s) PROVE IInv'
  BY <1>2, ReadMasterStateKeeps, SetStateKeeps, StartMoveKeeps, EndLoopKeeps,
         ReportKeeps, DetachKeeps, RemoveSlaveKeeps, LeaveKeeps, ParkKeeps,
         NullWindowReturnsKeeps, ReSearchKeeps, KeepScoreKeeps,
         ReSearchReturnsKeeps DEF SlaveStep
<1>3. CASE Surroundings
  BY <1>3, ParentStopKeeps, ParentStopsChildrenKeeps, AskHelpKeeps, InnerCutKeeps,
     InnerResumeKeeps DEF Surroundings
<1>4. CASE UNCHANGED vars
  BY <1>4, UnchangedKeeps
<1> QED
  BY <1>1, <1>2, <1>3, <1>4 DEF Next, Terminated

(* The inductive invariant holds in every reachable state. *)
THEOREM Inductive == Spec => []IInv
BY InitIInv, StepIInv, PTL DEF Spec

(* Every variable keeps its type. *)
THEOREM TypeCorrect == Spec => []TypeOK
<1>1. IInv => TypeOK
  BY DEF IInv
<1> QED
  BY <1>1, Inductive, PTL

(* The node outlives its slaves: when the master leaves WaitSlaves nobody   *)
(* can touch the node any more (node.cpp:112, worker.cpp:127-134).          *)
THEOREM NodeLifetime == Spec => []NodeOutlivesSlaves
<1>1. IInv => NodeOutlivesSlaves
  BY DEF IInv, TypeOK, ThreadTypeOK, NodeTypeOK, Registered, Hand, NoneLeft, NodeOutlivesSlaves
<1> QED
  BY <1>1, Inductive, PTL

(* The assertions about slaves, children, assignment and help never fail.   *)
THEOREM Assertions == Spec => []AssertionsHold
<1>1. IInv => AssertionsHold
  BY DEF IInv, TypeOK, ThreadTypeOK, PoolTypeOK, Registered, Hand, HelpConsistent,
         AboveAlpha, AssertionsHold
<1> QED
  BY <1>1, Inductive, PTL

(* The registry's stack holds each free worker once, and no other.          *)
THEOREM Registry == Spec => []RegistrySound
<1>1. IInv => RegistrySound
  BY DEF IInv, TypeOK, ThreadTypeOK, PoolTypeOK, Registered, Hand, RegistrySound
<1> QED
  BY <1>1, Inductive, PTL

(* The move cursor stays in the list and moves_todo_ does not wrap.         *)
THEOREM Cursor == Spec => []CursorInList
<1>1. IInv => CursorInList
  BY DEF IInv
<1> QED
  BY <1>1, Inductive, PTL

(* The wait of a helping master goes on.                                    *)
THEOREM HelpWhileWaiting == Spec => []HelpConsistent
<1>1. IInv => HelpConsistent
  BY DEF IInv
<1> QED
  BY <1>1, Inductive, PTL

-----------------------------------------------------------------------------
(* Who holds the move it has, to search it or to hand it to a slave.  The   *)
(* master keeps the move that it gives to a helper.                         *)
MasterHolds == {"firstSearch", "update", "readAlpha", "split", "assign",
                "nullWindow", "compare", "reSearch"}
SlaveHolds  == {"locked", "start", "setState", "loop", "nullWindow", "compare",
                "reSearch", "report"}
Holds(t) ==
  IF t = Master THEN \/ pc[Master] \in MasterHolds
                     \/ pc[Master] = "addSlave" /\ hand \in Helpers
  ELSE pc[t] \in SlaveHolds /\ move[t] # 0

(* Only moves in front of the cursor were handed out.                       *)
HandedOutInv ==
  /\ pc[Master] = "first" => bestMove = 0 /\ \A s \in Slaves : pc[s] = "parked"
  /\ \A t \in Threads : Holds(t) => nextMove = 0 \/ move[t] <= nextMove
  /\ nextMove # 0 => bestMove <= nextMove
  /\ pc[Master] = "firstSearch" => move[Master] = 1
  /\ pc[Master] = "addSlave" => move[hand] = move[Master]

Exclusive ==
  \A s, t \in Threads :
    s # t /\ Holds(s) /\ Holds(t) /\ move[s] = move[t] => {s, t} \cap Helpers # {}

(* The best move and its score; without helpers nobody searches it again.   *)
BestInv ==
  /\ alpha = IF bestScore > Alpha THEN bestScore ELSE Alpha
  /\ bestScore >= MinScore /\ (bestMove = 0 <=> bestScore = MinScore)
  /\ Helpers = {} /\ bestMove # 0 =>
       /\ score[bestMove] = bestScore
       /\ \A t \in Threads : Holds(t) => move[t] # bestMove

(* Why the master's search is stopped: a slave's cut-off here, one at an    *)
(* inner node, or an enclosing node.                                        *)
StopInv ==
  /\ state[Master] \in {"RUNNING", "STOP_PARALLEL"}
  /\ innerCut \subseteq Searching
  /\ stopPoint => /\ state[Master] = "STOP_PARALLEL" /\ Master \notin innerCut
                  /\ pc[Master] \notin {"store"} \cup Final
  /\ Master \in innerCut => state[Master] = "STOP_PARALLEL"
  /\ parentStops = 0 =>
       /\ ~spin /\ pc[Master] # "aborted"
       /\ state[Master] = "STOP_PARALLEL" => stopPoint \/ Master \in innerCut

HandsInv == HandedOutInv /\ Exclusive /\ BestInv /\ StopInv

-----------------------------------------------------------------------------
USE ThreadsAssumption, WindowAssumption, BoundsAssumption
  DEF Slaves, Threads, Moves, State, MasterPC, BusyPC, SlavePC, Final, Goto,
      nodeVars, slaveVars, waitVars, threadVars, poolVars, envVars, nodeAll,
      OnlyPcChanges, OutsideOnly

(* A step that gives nobody a move keeps the moves apart.                   *)
LEMMA SameHands ==
  ASSUME Exclusive,
         \A t \in Threads : Holds(t)' => Holds(t) /\ move'[t] = move[t]
  PROVE  Exclusive'
  BY DEF Exclusive

(* What the slave's locked section does to the cursor and to the hands.     *)
LEMMA ReportHands ==
  ASSUME IInv, NEW s \in Slaves, Report(s)
  PROVE  /\ \/ move'[s] = 0 /\ nextMove' \in {nextMove, 0}
            \/ nextMove # 0 /\ move'[s] = nextMove + 1 /\ nextMove' = move'[s]
         /\ Holds(s) /\ (Holds(s)' <=> move'[s] # 0)
         /\ \A t \in Threads \ {s} :
              (Holds(t)' <=> Holds(t)) /\ move'[t] = move[t] /\ pc'[t] = pc[t]
  <1> USE DEF IInv, Report, TypeOK, NodeTypeOK, ThreadTypeOK
  <1>1. \/ move'[s] = 0 /\ nextMove' \in {nextMove, 0}
        \/ nextMove # 0 /\ move'[s] = nextMove + 1 /\ nextMove' = move'[s]
    BY DEF NextMoveLockless, HandedOut, CanHandOut
  <1>2. pc'[s] = "loop" /\ \A t \in Threads \ {s} : pc'[t] = pc[t] /\ move'[t] = move[t]
    OBVIOUS
  <1>3. Holds(s) /\ (Holds(s)' <=> move'[s] # 0)
    BY <1>2 DEF Holds, SlaveHolds, HasMove, SlaveHasMove
  <1>4. \A t \in Threads \ {s} : Holds(t)' <=> Holds(t)
    BY <1>2 DEF Holds, MasterHolds, SlaveHolds
  <1> QED BY <1>1, <1>2, <1>3, <1>4

(* The cursor ends behind the last move.                                    *)
LEMMA CursorEnds ==
  ASSUME IInv, NEW s \in Slaves, Report(s), nextMove' = 0
  PROVE  nextMove \in {0, MoveCount}
  BY DEF IInv, Report, TypeOK, NodeTypeOK, NextMoveLockless, HandedOut, CanHandOut,
         CursorInList

(* A score is reported for a move.                                          *)
LEMMA ScoresOfMoves ==
  ASSUME IInv
  PROVE  /\ \A m \in Moves : score[m] \in Int /\ value[m] \in Int
         /\ \A t \in Threads :
              pc[t] \in {"compare", "report", "update"} => move[t] \in Moves
  <1> USE DEF IInv, TypeOK, NodeTypeOK, ThreadTypeOK
  <1>1. \A m \in Moves : score[m] \in Int /\ value[m] \in Int
    OBVIOUS
  <1>2. pc[Master] \in {"compare", "report", "update"} => move[Master] \in Moves
    BY DEF HasMove, MasterHasMove
  <1>3. ASSUME NEW s \in Slaves, pc[s] \in {"compare", "report", "update"}
        PROVE  move[s] \in Moves
    <2>1. pc[s] \in SlavePC /\ move[s] \in 0 .. MoveCount
      OBVIOUS
    <2>2. move[s] # 0
      BY <1>3, <2>1 DEF HasMove, SlaveHasMove
    <2> QED BY <2>1, <2>2
  <1> QED BY <1>1, <1>2, <1>3

-----------------------------------------------------------------------------
(* Every action keeps HandsInv, one lemma per action: the steps are the     *)
(* conjuncts of HandsInv.                                                   *)
LEMMA FirstMoveKeepsHands ==
  ASSUME IInv, HandsInv, FirstMove
  PROVE  HandsInv'
  <1> USE DEF IInv, HandsInv, FirstMove, ResetCursor, TypeOK, NodeTypeOK,
         ThreadTypeOK, PoolTypeOK
  <1>1. HandedOutInv'
    BY DEF HandedOutInv, Holds, MasterHolds, SlaveHolds, Registered, Hand,
           CursorInList, HasMove, MasterHasMove, SlaveHasMove
  <1>2. Exclusive'
    BY DEF HandedOutInv, Exclusive, Holds, MasterHolds, SlaveHolds, Registered,
           Hand, CursorInList, HasMove, MasterHasMove, SlaveHasMove
  <1>3. BestInv'
    BY DEF HandedOutInv, Exclusive, BestInv, Holds, MasterHolds, SlaveHolds,
           CursorInList, HasMove, MasterHasMove, SlaveHasMove
  <1>4. StopInv'
    BY DEF StopInv, Searching, Registered, NoneLeft
  <1> QED BY <1>1, <1>2, <1>3, <1>4

LEMMA FirstMoveStoppedKeepsHands ==
  ASSUME IInv, HandsInv, FirstMoveStopped
  PROVE  HandsInv'
  <1> USE DEF IInv, HandsInv, FirstMoveStopped, ResetCursor, TypeOK, NodeTypeOK,
         ThreadTypeOK, PoolTypeOK
  <1>1. HandedOutInv'
    BY DEF HandedOutInv, Holds, MasterHolds, SlaveHolds, Registered, Hand,
           CursorInList, HasMove, MasterHasMove, SlaveHasMove
  <1>2. Exclusive'
    <2>1. \A t \in Threads : Holds(t)' => Holds(t) /\ move'[t] = move[t]
      BY DEF Holds, MasterHolds, SlaveHolds, Registered, Hand
    <2> QED BY <2>1, SameHands
  <1>3. BestInv'
    BY DEF HandedOutInv, Exclusive, BestInv, Holds, MasterHolds, SlaveHolds,
           CursorInList, HasMove, MasterHasMove, SlaveHasMove
  <1>4. StopInv'
    BY DEF StopInv, Searching, Registered, NoneLeft
  <1> QED BY <1>1, <1>2, <1>3, <1>4

LEMMA FirstSearchReturnsKeepsHands ==
  ASSUME IInv, HandsInv, FirstSearchReturns
  PROVE  HandsInv'
  <1> USE DEF IInv, HandsInv, FirstSearchReturns, WindowScores,
         NullWindowScores, TypeOK, NodeTypeOK, ThreadTypeOK, PoolTypeOK
  <1>1. HandedOutInv'
    BY DEF HandedOutInv, Holds, MasterHolds, SlaveHolds, Registered, Hand,
           CursorInList, HasMove, MasterHasMove, SlaveHasMove
  <1>2. Exclusive'
    <2>1. \A u \in Threads : Holds(u)' => Holds(u) /\ move'[u] = move[u]
      BY DEF Holds, MasterHolds, SlaveHolds, Registered, Hand
    <2> QED BY <2>1, SameHands
  <1>3. BestInv'
    <2>1. \A t \in Threads : Holds(t)' <=> Holds(t)
      BY DEF Holds, MasterHolds, SlaveHolds
    <2>2. Holds(Master) /\ move[Master] = 1
      BY DEF Holds, MasterHolds, HandedOutInv
    <2> QED BY <2>1, <2>2 DEF BestInv
  <1>4. StopInv'
    BY DEF StopInv, Searching, Registered, NoneLeft
  <1> QED BY <1>1, <1>2, <1>3, <1>4

LEMMA UpdateKeepsHands ==
  ASSUME IInv, HandsInv, Update
  PROVE  HandsInv'
  <1> USE DEF IInv, HandsInv, Update, TakeScore, RaisedAlpha, Improves, StopAll,
         TypeOK, NodeTypeOK, ThreadTypeOK, PoolTypeOK
  <1>1. HandedOutInv'
    BY DEF HandedOutInv, Holds, MasterHolds, SlaveHolds, Registered, Hand,
           CursorInList, HasMove, MasterHasMove, SlaveHasMove
  <1>2. Exclusive'
    <2>1. \A t \in Threads : Holds(t)' => Holds(t) /\ move'[t] = move[t]
      BY DEF Holds, MasterHolds, SlaveHolds, Registered, Hand
    <2> QED BY <2>1, SameHands
  <1>3. BestInv'
    BY SMTT(30) DEF HandedOutInv, Exclusive, BestInv, Holds, MasterHolds, SlaveHolds,
           CursorInList, HasMove, MasterHasMove, SlaveHasMove
  <1>4. StopInv'
    BY DEF StopInv, Searching, Registered, NoneLeft
  <1> QED BY <1>1, <1>2, <1>3, <1>4

LEMMA NextMoveKeepsHands ==
  ASSUME IInv, HandsInv, NextMove
  PROVE  HandsInv'
  <1> USE DEF IInv, HandsInv, NextMove, NextMoveLockless, HandedOut, CanHandOut,
         TypeOK, NodeTypeOK, ThreadTypeOK, PoolTypeOK
  <1>1. HandedOutInv'
    BY DEF HandedOutInv, Holds, MasterHolds, SlaveHolds, Registered, Hand,
           CursorInList, HasMove, MasterHasMove, SlaveHasMove
  <1>2. Exclusive'
    <2>1. \A t \in Slaves : (Holds(t)' <=> Holds(t)) /\ move'[t] = move[t]
      BY DEF Holds, SlaveHolds
    <2>2. Holds(Master)' => nextMove # 0 /\ move'[Master] = nextMove + 1
      BY DEF Holds, MasterHolds
    <2>3. \A t \in Slaves : Holds(t) /\ nextMove # 0 => move[t] <= nextMove
      BY DEF HandedOutInv
    <2>4. \A t \in Slaves : move[t] \in Nat /\ nextMove \in Nat
      OBVIOUS
    <2>5. \A t \in Slaves : Holds(t)' /\ Holds(Master)' => move'[t] # move'[Master]
      BY <2>1, <2>2, <2>3, <2>4
    <2> QED BY SMTT(30), <2>1, <2>5 DEF Exclusive
  <1>3. BestInv'
    BY DEF HandedOutInv, Exclusive, BestInv, Holds, MasterHolds, SlaveHolds,
           CursorInList, HasMove, MasterHasMove, SlaveHasMove
  <1>4. StopInv'
    BY DEF StopInv, Searching, Registered, NoneLeft
  <1> QED BY <1>1, <1>2, <1>3, <1>4

LEMMA ReadAlphaKeepsHands ==
  ASSUME IInv, HandsInv, ReadAlpha
  PROVE  HandsInv'
  <1> USE DEF IInv, HandsInv, ReadAlpha, TypeOK, NodeTypeOK, ThreadTypeOK,
         PoolTypeOK
  <1>1. HandedOutInv'
    BY DEF HandedOutInv, Holds, MasterHolds, SlaveHolds, Registered, Hand,
           CursorInList, HasMove, MasterHasMove, SlaveHasMove
  <1>2. Exclusive'
    <2>1. \A u \in Threads : Holds(u)' => Holds(u) /\ move'[u] = move[u]
      BY DEF Holds, MasterHolds, SlaveHolds, Registered, Hand
    <2> QED BY <2>1, SameHands
  <1>3. BestInv'
    BY DEF HandedOutInv, Exclusive, BestInv, Holds, MasterHolds, SlaveHolds,
           CursorInList, HasMove, MasterHasMove, SlaveHasMove
  <1>4. StopInv'
    BY DEF StopInv, Searching, Registered, NoneLeft
  <1> QED BY <1>1, <1>2, <1>3, <1>4

LEMMA NoSplitKeepsHands ==
  ASSUME IInv, HandsInv, NoSplit
  PROVE  HandsInv'
  <1> USE DEF IInv, HandsInv, NoSplit, TypeOK, NodeTypeOK, ThreadTypeOK,
         PoolTypeOK
  <1>1. HandedOutInv'
    BY DEF HandedOutInv, Holds, MasterHolds, SlaveHolds, Registered, Hand,
           CursorInList, HasMove, MasterHasMove, SlaveHasMove
  <1>2. Exclusive'
    <2>1. \A t \in Threads : Holds(t)' => Holds(t) /\ move'[t] = move[t]
      BY DEF Holds, MasterHolds, SlaveHolds, Registered, Hand
    <2> QED BY <2>1, SameHands
  <1>3. BestInv'
    BY DEF HandedOutInv, Exclusive, BestInv, Holds, MasterHolds, SlaveHolds,
           CursorInList, HasMove, MasterHasMove, SlaveHasMove
  <1>4. StopInv'
    BY DEF StopInv, Searching, Registered, NoneLeft
  <1> QED BY <1>1, <1>2, <1>3, <1>4

LEMMA AssignKeepsHands ==
  ASSUME IInv, HandsInv, Assign
  PROVE  HandsInv'
  <1> USE DEF IInv, HandsInv, Assign, TypeOK, NodeTypeOK, ThreadTypeOK,
         PoolTypeOK
  <1>1. HandedOutInv'
    BY DEF HandedOutInv, Holds, MasterHolds, SlaveHolds, Registered, Hand,
           CursorInList, HasMove, MasterHasMove, SlaveHasMove
  <1>2. Exclusive'
    BY SMTT(30) DEF HandedOutInv, Exclusive, Holds, MasterHolds, SlaveHolds, Registered,
           Hand, CursorInList, HasMove, MasterHasMove, SlaveHasMove
  <1>3. BestInv'
    BY DEF HandedOutInv, Exclusive, BestInv, Holds, MasterHolds, SlaveHolds,
           CursorInList, HasMove, MasterHasMove, SlaveHasMove
  <1>4. StopInv'
    BY DEF StopInv, Searching, Registered, NoneLeft
  <1> QED BY <1>1, <1>2, <1>3, <1>4

LEMMA AddSlaveKeepsHands ==
  ASSUME IInv, HandsInv, AddSlave
  PROVE  HandsInv'
  <1> USE DEF IInv, HandsInv, AddSlave, TypeOK, NodeTypeOK, ThreadTypeOK,
         PoolTypeOK
  <1>1. HandedOutInv'
    BY DEF HandedOutInv, Holds, MasterHolds, SlaveHolds, Registered, Hand,
           CursorInList, HasMove, MasterHasMove, SlaveHasMove
  <1>2. Exclusive'
    <2>1. pc[hand] = "locked" /\ hand \in Slaves /\ move[hand] = move[Master]
      BY DEF HandedOutInv, Registered, Hand
    <2>2. \A t \in Slaves : Holds(t)' => Holds(t)
      BY <2>1 DEF Holds, SlaveHolds
    <2>3. Holds(Master)' => Holds(Master)
      BY DEF Holds, MasterHolds
    <2>4. \A t \in Threads : Holds(t)' => Holds(t) /\ move'[t] = move[t]
      BY <2>2, <2>3
    <2> QED BY <2>4, SameHands
  <1>3. BestInv'
    <2>1. \A t \in Threads : Holds(t)' => Holds(t) /\ move'[t] = move[t]
      BY DEF Holds, MasterHolds, SlaveHolds, Registered, Hand
    <2> QED BY <2>1 DEF BestInv
  <1>4. StopInv'
    BY DEF StopInv, Searching, Registered, NoneLeft
  <1> QED BY <1>1, <1>2, <1>3, <1>4

LEMMA NothingToWaitForKeepsHands ==
  ASSUME IInv, HandsInv, NothingToWaitFor
  PROVE  HandsInv'
  <1> USE DEF IInv, HandsInv, NothingToWaitFor, LeaveWait, TypeOK, NodeTypeOK,
         ThreadTypeOK, PoolTypeOK
  <1>1. HandedOutInv'
    BY DEF HandedOutInv, Holds, MasterHolds, SlaveHolds, Registered, Hand,
           CursorInList, HasMove, MasterHasMove, SlaveHasMove
  <1>2. Exclusive'
    <2>1. \A t \in Threads : Holds(t)' => Holds(t) /\ move'[t] = move[t]
      BY DEF Holds, MasterHolds, SlaveHolds, Registered, Hand
    <2> QED BY <2>1, SameHands
  <1>3. BestInv'
    BY DEF HandedOutInv, Exclusive, BestInv, Holds, MasterHolds, SlaveHolds,
           CursorInList, HasMove, MasterHasMove, SlaveHasMove
  <1>4. StopInv'
    BY DEF StopInv, Searching, Registered, NoneLeft
  <1> QED BY <1>1, <1>2, <1>3, <1>4

LEMMA StartWaitingKeepsHands ==
  ASSUME IInv, HandsInv, StartWaiting
  PROVE  HandsInv'
  <1> USE DEF IInv, HandsInv, StartWaiting, StopAll, TypeOK, NodeTypeOK,
         ThreadTypeOK, PoolTypeOK
  <1>1. HandedOutInv'
    BY DEF HandedOutInv, Holds, MasterHolds, SlaveHolds, Registered, Hand,
           CursorInList, HasMove, MasterHasMove, SlaveHasMove
  <1>2. Exclusive'
    <2>1. \A u \in Threads : Holds(u)' => Holds(u) /\ move'[u] = move[u]
      BY DEF Holds, MasterHolds, SlaveHolds, Registered, Hand
    <2> QED BY <2>1, SameHands
  <1>3. BestInv'
    BY DEF HandedOutInv, Exclusive, BestInv, Holds, MasterHolds, SlaveHolds,
           CursorInList, HasMove, MasterHasMove, SlaveHasMove
  <1>4. StopInv'
    BY DEF StopInv, Searching, Registered, NoneLeft
  <1> QED BY <1>1, <1>2, <1>3, <1>4

LEMMA WakeUpKeepsHands ==
  ASSUME IInv, HandsInv, WakeUp
  PROVE  HandsInv'
  <1> USE DEF IInv, HandsInv, WakeUp, LeaveWait, NobodyLeft, TypeOK, NodeTypeOK,
         ThreadTypeOK, PoolTypeOK
  <1>1. HandedOutInv'
    BY DEF HandedOutInv, Holds, MasterHolds, SlaveHolds, Registered, Hand,
           CursorInList, HasMove, MasterHasMove, SlaveHasMove
  <1>2. Exclusive'
    <2>1. \A t \in Threads : Holds(t)' => Holds(t) /\ move'[t] = move[t]
      BY DEF Holds, MasterHolds, SlaveHolds, Registered, Hand
    <2> QED BY <2>1, SameHands
  <1>3. BestInv'
    BY DEF HandedOutInv, Exclusive, BestInv, Holds, MasterHolds, SlaveHolds,
           CursorInList, HasMove, MasterHasMove, SlaveHasMove
  <1>4. StopInv'
    BY DEF StopInv, Searching, Registered, NoneLeft
  <1> QED BY <1>1, <1>2, <1>3, <1>4

LEMMA HelpKeepsHands ==
  ASSUME IInv, HandsInv, Help
  PROVE  HandsInv'
  <1> USE DEF IInv, HandsInv, Help, TypeOK, NodeTypeOK, ThreadTypeOK, PoolTypeOK
  <1>1. HandedOutInv'
    BY DEF HandedOutInv, Holds, MasterHolds, SlaveHolds, Registered, Hand,
           CursorInList, HasMove, MasterHasMove, SlaveHasMove
  <1>2. Exclusive'
    <2>1. \A t \in Threads : Holds(t)' => Holds(t) /\ move'[t] = move[t]
      BY DEF Holds, MasterHolds, SlaveHolds, Registered, Hand
    <2> QED BY <2>1, SameHands
  <1>3. BestInv'
    BY DEF HandedOutInv, Exclusive, BestInv, Holds, MasterHolds, SlaveHolds,
           CursorInList, HasMove, MasterHasMove, SlaveHasMove
  <1>4. StopInv'
    BY DEF StopInv, Searching, Registered, NoneLeft
  <1> QED BY <1>1, <1>2, <1>3, <1>4

LEMMA HelpSearchedKeepsHands ==
  ASSUME IInv, HandsInv, HelpSearched
  PROVE  HandsInv'
  <1> USE DEF IInv, HandsInv, HelpSearched, TypeOK, NodeTypeOK, ThreadTypeOK,
         PoolTypeOK
  <1>1. HandedOutInv'
    BY DEF HandedOutInv, Holds, MasterHolds, SlaveHolds, Registered, Hand,
           CursorInList, HasMove, MasterHasMove, SlaveHasMove
  <1>2. Exclusive'
    <2>1. \A t \in Threads : Holds(t)' => Holds(t) /\ move'[t] = move[t]
      BY DEF Holds, MasterHolds, SlaveHolds, Registered, Hand
    <2> QED BY <2>1, SameHands
  <1>3. BestInv'
    BY DEF HandedOutInv, Exclusive, BestInv, Holds, MasterHolds, SlaveHolds,
           CursorInList, HasMove, MasterHasMove, SlaveHasMove
  <1>4. StopInv'
    BY DEF StopInv, Searching, Registered, NoneLeft
  <1> QED BY <1>1, <1>2, <1>3, <1>4

LEMMA HelpEndsKeepsHands ==
  ASSUME IInv, HandsInv, HelpEnds
  PROVE  HandsInv'
  <1> USE DEF IInv, HandsInv, HelpEnds, LeaveWait, StopHelping, TypeOK,
         NodeTypeOK, ThreadTypeOK, PoolTypeOK
  <1>1. HandedOutInv'
    BY DEF HandedOutInv, Holds, MasterHolds, SlaveHolds, Registered, Hand,
           CursorInList, HasMove, MasterHasMove, SlaveHasMove
  <1>2. Exclusive'
    <2>1. \A u \in Threads : Holds(u)' => Holds(u) /\ move'[u] = move[u]
      BY DEF Holds, MasterHolds, SlaveHolds, Registered, Hand
    <2> QED BY <2>1, SameHands
  <1>3. BestInv'
    BY DEF HandedOutInv, Exclusive, BestInv, Holds, MasterHolds, SlaveHolds,
           CursorInList, HasMove, MasterHasMove, SlaveHasMove
  <1>4. StopInv'
    BY DEF StopInv, Searching, Registered, NoneLeft
  <1> QED BY <1>1, <1>2, <1>3, <1>4

LEMMA StoreKeepsHands ==
  ASSUME IInv, HandsInv, Store
  PROVE  HandsInv'
  <1> USE DEF IInv, HandsInv, Store, TypeOK, NodeTypeOK, ThreadTypeOK,
         PoolTypeOK
  <1>1. HandedOutInv'
    BY DEF HandedOutInv, Holds, MasterHolds, SlaveHolds, Registered, Hand,
           CursorInList, HasMove, MasterHasMove, SlaveHasMove
  <1>2. Exclusive'
    <2>1. \A t \in Threads : Holds(t)' => Holds(t) /\ move'[t] = move[t]
      BY DEF Holds, MasterHolds, SlaveHolds, Registered, Hand
    <2> QED BY <2>1, SameHands
  <1>3. BestInv'
    BY DEF HandedOutInv, Exclusive, BestInv, Holds, MasterHolds, SlaveHolds,
           CursorInList, HasMove, MasterHasMove, SlaveHasMove
  <1>4. StopInv'
    BY DEF StopInv, Searching, Registered, NoneLeft
  <1> QED BY <1>1, <1>2, <1>3, <1>4

LEMMA ParentStopKeepsHands ==
  ASSUME IInv, HandsInv, ParentStop
  PROVE  HandsInv'
  <1> USE DEF IInv, HandsInv, ParentStop, TypeOK, NodeTypeOK, ThreadTypeOK,
         PoolTypeOK
  <1>1. HandedOutInv'
    BY DEF HandedOutInv, Holds, MasterHolds, SlaveHolds, Registered, Hand,
           CursorInList, HasMove, MasterHasMove, SlaveHasMove
  <1>2. Exclusive'
    <2>1. \A u \in Threads : Holds(u)' => Holds(u) /\ move'[u] = move[u]
      BY DEF Holds, MasterHolds, SlaveHolds, Registered, Hand
    <2> QED BY <2>1, SameHands
  <1>3. BestInv'
    BY DEF HandedOutInv, Exclusive, BestInv, Holds, MasterHolds, SlaveHolds,
           CursorInList, HasMove, MasterHasMove, SlaveHasMove
  <1>4. StopInv'
    BY DEF StopInv, Searching, Registered, NoneLeft
  <1> QED BY <1>1, <1>2, <1>3, <1>4

LEMMA ParentStopsChildrenKeepsHands ==
  ASSUME IInv, HandsInv, ParentStopsChildren
  PROVE  HandsInv'
  <1> USE DEF IInv, HandsInv, ParentStopsChildren, StopAll, TypeOK, NodeTypeOK,
         ThreadTypeOK, PoolTypeOK
  <1>1. HandedOutInv'
    BY DEF HandedOutInv, Holds, MasterHolds, SlaveHolds, Registered, Hand,
           CursorInList, HasMove, MasterHasMove, SlaveHasMove
  <1>2. Exclusive'
    <2>1. \A t \in Threads : Holds(t)' => Holds(t) /\ move'[t] = move[t]
      BY DEF Holds, MasterHolds, SlaveHolds, Registered, Hand
    <2> QED BY <2>1, SameHands
  <1>3. BestInv'
    BY DEF HandedOutInv, Exclusive, BestInv, Holds, MasterHolds, SlaveHolds,
           CursorInList, HasMove, MasterHasMove, SlaveHasMove
  <1>4. StopInv'
    BY DEF StopInv, Searching, Registered, NoneLeft
  <1> QED BY <1>1, <1>2, <1>3, <1>4

LEMMA TakeSlaveKeepsHands ==
  ASSUME IInv, HandsInv, NEW s \in Slaves, TakeSlave(s)
  PROVE  HandsInv'
  <1> USE DEF IInv, HandsInv, TakeSlave, GetHelper, GetIdleWorker, TypeOK,
         NodeTypeOK, ThreadTypeOK, PoolTypeOK
  <1>1. HandedOutInv'
    BY DEF HandedOutInv, Holds, MasterHolds, SlaveHolds, Registered, Hand,
           CursorInList, HasMove, MasterHasMove, SlaveHasMove
  <1>2. Exclusive'
    <2>1. \A u \in Threads : Holds(u)' => Holds(u) /\ move'[u] = move[u]
      BY DEF Holds, MasterHolds, SlaveHolds, Registered, Hand
    <2> QED BY <2>1, SameHands
  <1>3. BestInv'
    BY DEF HandedOutInv, Exclusive, BestInv, Holds, MasterHolds, SlaveHolds,
           CursorInList, HasMove, MasterHasMove, SlaveHasMove
  <1>4. StopInv'
    BY DEF StopInv, Searching, Registered, NoneLeft
  <1> QED BY <1>1, <1>2, <1>3, <1>4

LEMMA ReadMasterStateKeepsHands ==
  ASSUME IInv, HandsInv, NEW s \in Slaves, ReadMasterState(s)
  PROVE  HandsInv'
  <1> USE DEF IInv, HandsInv, ReadMasterState, TypeOK, NodeTypeOK, ThreadTypeOK,
         PoolTypeOK
  <1>1. HandedOutInv'
    BY DEF HandedOutInv, Holds, MasterHolds, SlaveHolds, Registered, Hand,
           CursorInList, HasMove, MasterHasMove, SlaveHasMove
  <1>2. Exclusive'
    <2>1. \A u \in Threads : Holds(u)' => Holds(u) /\ move'[u] = move[u]
      BY DEF Holds, MasterHolds, SlaveHolds, Registered, Hand
    <2> QED BY <2>1, SameHands
  <1>3. BestInv'
    BY DEF HandedOutInv, Exclusive, BestInv, Holds, MasterHolds, SlaveHolds,
           CursorInList, HasMove, MasterHasMove, SlaveHasMove
  <1>4. StopInv'
    BY DEF StopInv, Searching, Registered, NoneLeft
  <1> QED BY <1>1, <1>2, <1>3, <1>4

LEMMA SetStateKeepsHands ==
  ASSUME IInv, HandsInv, NEW s \in Slaves, SetState(s)
  PROVE  HandsInv'
  <1> USE DEF IInv, HandsInv, SetState, TypeOK, NodeTypeOK, ThreadTypeOK,
         PoolTypeOK
  <1>1. HandedOutInv'
    BY DEF HandedOutInv, Holds, MasterHolds, SlaveHolds, Registered, Hand,
           CursorInList, HasMove, MasterHasMove, SlaveHasMove
  <1>2. Exclusive'
    <2>1. \A u \in Threads : Holds(u)' => Holds(u) /\ move'[u] = move[u]
      BY DEF Holds, MasterHolds, SlaveHolds, Registered, Hand
    <2> QED BY <2>1, SameHands
  <1>3. BestInv'
    BY DEF HandedOutInv, Exclusive, BestInv, Holds, MasterHolds, SlaveHolds,
           CursorInList, HasMove, MasterHasMove, SlaveHasMove
  <1>4. StopInv'
    BY DEF StopInv, Searching, Registered, NoneLeft
  <1> QED BY <1>1, <1>2, <1>3, <1>4

LEMMA StartMoveKeepsHands ==
  ASSUME IInv, HandsInv, NEW s \in Slaves, StartMove(s)
  PROVE  HandsInv'
  <1> USE DEF IInv, HandsInv, StartMove, MayStart, TypeOK, NodeTypeOK,
         ThreadTypeOK, PoolTypeOK
  <1>1. HandedOutInv'
    BY DEF HandedOutInv, Holds, MasterHolds, SlaveHolds, Registered, Hand,
           CursorInList, HasMove, MasterHasMove, SlaveHasMove
  <1>2. Exclusive'
    <2>1. \A u \in Threads : Holds(u)' => Holds(u) /\ move'[u] = move[u]
      BY DEF Holds, MasterHolds, SlaveHolds, Registered, Hand
    <2> QED BY <2>1, SameHands
  <1>3. BestInv'
    BY DEF HandedOutInv, Exclusive, BestInv, Holds, MasterHolds, SlaveHolds,
           CursorInList, HasMove, MasterHasMove, SlaveHasMove
  <1>4. StopInv'
    BY DEF StopInv, Searching, Registered, NoneLeft
  <1> QED BY <1>1, <1>2, <1>3, <1>4

LEMMA EndLoopKeepsHands ==
  ASSUME IInv, HandsInv, NEW s \in Slaves, EndLoop(s)
  PROVE  HandsInv'
  <1> USE DEF IInv, HandsInv, EndLoop, MayStart, TypeOK, NodeTypeOK,
         ThreadTypeOK, PoolTypeOK
  <1>1. HandedOutInv'
    BY DEF HandedOutInv, Holds, MasterHolds, SlaveHolds, Registered, Hand,
           CursorInList, HasMove, MasterHasMove, SlaveHasMove
  <1>2. Exclusive'
    <2>1. \A t \in Threads : Holds(t)' => Holds(t) /\ move'[t] = move[t]
      BY DEF Holds, MasterHolds, SlaveHolds, Registered, Hand
    <2> QED BY <2>1, SameHands
  <1>3. BestInv'
    BY DEF HandedOutInv, Exclusive, BestInv, Holds, MasterHolds, SlaveHolds,
           CursorInList, HasMove, MasterHasMove, SlaveHasMove
  <1>4. StopInv'
    BY DEF StopInv, Searching, Registered, NoneLeft
  <1> QED BY <1>1, <1>2, <1>3, <1>4

LEMMA ReportKeepsHands ==
  ASSUME IInv, HandsInv, NEW s \in Slaves, Report(s)
  PROVE  HandsInv'
  <1> USE DEF IInv, HandsInv, Report, TakeScore, RaisedAlpha, Improves,
         NextMoveLockless, HandedOut, CanHandOut, MutexFree, TypeOK, NodeTypeOK,
         ThreadTypeOK, PoolTypeOK
  <1>1. HandedOutInv'
    <2>1. bestMove' \in {bestMove, move[s]}
      BY DEF TakeScore
    <2>2. nextMove # 0 => move[s] <= nextMove
      BY ReportHands DEF HandedOutInv
    <2>3. pc[Master] # "first" /\ pc'[Master] = pc[Master] /\ hand' = hand
      BY ReportHands DEF HandedOutInv
    <2>4. pc[Master] = "addSlave" => hand \in Slaves \ {s}
      BY DEF Registered, Hand
    <2>9. nextMove' \in {nextMove, 0} \/ (nextMove # 0 /\ nextMove' = nextMove + 1)
      BY DEF NextMoveLockless, HandedOut, CanHandOut
    <2> HIDE DEF Report
    <2>5. ASSUME NEW t \in Threads, Holds(t)'
          PROVE  nextMove' = 0 \/ move'[t] <= nextMove'
      <3>1. CASE t = s
        BY <3>1, <2>5, ReportHands
      <3>2. CASE t # s
        <4>1. Holds(t) /\ move'[t] = move[t]
          BY <3>2, <2>5, ReportHands
        <4>2. nextMove = 0 \/ move[t] <= nextMove
          BY <4>1 DEF HandedOutInv
        <4>3. move[t] \in Nat /\ nextMove \in Nat
          OBVIOUS
        <4> QED BY <4>1, <4>2, <4>3, <2>9
      <3> QED BY <3>1, <3>2
    <2>6. nextMove' # 0 => bestMove' <= nextMove'
      BY <2>1, <2>2, ReportHands DEF HandedOutInv
    <2>7. pc'[Master] = "addSlave" => move'[hand'] = move'[Master]
      BY <2>3, <2>4, ReportHands DEF HandedOutInv
    <2>8. pc'[Master] = "firstSearch" => move'[Master] = 1
      BY <2>3, ReportHands DEF HandedOutInv
    <2> QED BY <2>3, <2>5, <2>6, <2>7, <2>8 DEF HandedOutInv
  <1>2. Exclusive'
    <2> HIDE DEF Report
    <2>1. ASSUME NEW t \in Threads \ {s}, Holds(t)', Holds(s)'
          PROVE  move'[t] # move'[s]
      <3>1. Holds(t) /\ move'[t] = move[t] /\ nextMove # 0 /\ move'[s] = nextMove + 1
        BY <2>1, ReportHands
      <3>2. move[t] <= nextMove /\ move[t] \in Nat /\ nextMove \in Nat
        BY <3>1 DEF HandedOutInv
      <3> QED BY <3>1, <3>2
    <2>2. \A t, u \in Threads \ {s} :
            Holds(t)' /\ Holds(u)' /\ t # u /\ move'[t] = move'[u] =>
              {t, u} \cap Helpers # {}
      BY ReportHands DEF Exclusive
    <2> HIDE DEF IInv, HandsInv, TypeOK
    <2> QED BY <2>1, <2>2 DEF Exclusive
  <1>3. BestInv'
    <2>1. move[s] # 0 /\ score[move[s]] \in Int /\ score' = score
      BY DEF HasMove, SlaveHasMove
    <2>2. /\ alpha' = IF bestScore' > Alpha THEN bestScore' ELSE Alpha
          /\ bestScore' >= MinScore /\ (bestMove' = 0 <=> bestScore' = MinScore)
          /\ Helpers = {} /\ bestMove' # 0 => score[bestMove'] = bestScore'
      BY SMTT(30), <2>1 DEF BestInv, TakeScore, RaisedAlpha, Improves
    <2>3. ASSUME Helpers = {}, NEW t \in Threads, Holds(t)', bestMove' # 0
          PROVE  move'[t] # bestMove'
      <3>1. CASE bestMove' = bestMove
        <4> HIDE DEF Report
        <4>1. /\ t = s => nextMove # 0 /\ move'[s] = nextMove + 1
              /\ t # s => Holds(t) /\ move'[t] = move[t]
          <5> HIDE DEF HandsInv, Report, IInv, TypeOK, NodeTypeOK, ThreadTypeOK, PoolTypeOK
          <5> QED BY <2>3, ReportHands
        <4>2. /\ nextMove # 0 => bestMove <= nextMove
              /\ nextMove \in Nat /\ bestMove \in Nat
          BY DEF HandedOutInv
        <4>3. Holds(t) => move[t] # bestMove
          <5> HIDE DEF Report, IInv, TypeOK, NodeTypeOK, ThreadTypeOK, PoolTypeOK
          <5> QED BY <3>1, <2>3 DEF BestInv
        <4> HIDE DEF HandsInv, Report, IInv, TypeOK, NodeTypeOK, ThreadTypeOK, PoolTypeOK
        <4> QED BY <3>1, <4>1, <4>2, <4>3
      <3>2. CASE bestMove' = move[s]
        <4> HIDE DEF Report
        <4>1. CASE t = s
          BY <4>1, <3>2, <2>3, ReportHands DEF HandedOutInv
        <4>2. CASE t # s
          BY <4>2, <3>2, <2>3, ReportHands DEF Exclusive
        <4> QED BY <4>1, <4>2
      <3> QED BY <3>1, <3>2 DEF TakeScore
    <2> QED BY <2>1, <2>2, <2>3 DEF BestInv
  <1>4. StopInv'
    BY DEF StopInv, Searching, Registered, NoneLeft
  <1> QED BY <1>1, <1>2, <1>3, <1>4

LEMMA DetachKeepsHands ==
  ASSUME IInv, HandsInv, NEW s \in Slaves, Detach(s)
  PROVE  HandsInv'
  <1> USE DEF IInv, HandsInv, Detach, TypeOK, NodeTypeOK, ThreadTypeOK,
         PoolTypeOK
  <1>1. HandedOutInv'
    BY DEF HandedOutInv, Holds, MasterHolds, SlaveHolds, Registered, Hand,
           CursorInList, HasMove, MasterHasMove, SlaveHasMove
  <1>2. Exclusive'
    <2>1. \A t \in Threads : Holds(t)' => Holds(t) /\ move'[t] = move[t]
      BY DEF Holds, MasterHolds, SlaveHolds, Registered, Hand
    <2> QED BY <2>1, SameHands
  <1>3. BestInv'
    BY DEF HandedOutInv, Exclusive, BestInv, Holds, MasterHolds, SlaveHolds,
           CursorInList, HasMove, MasterHasMove, SlaveHasMove
  <1>4. StopInv'
    BY DEF StopInv, Searching, Registered, NoneLeft
  <1> QED BY <1>1, <1>2, <1>3, <1>4

LEMMA RemoveSlaveKeepsHands ==
  ASSUME IInv, HandsInv, NEW s \in Slaves, RemoveSlave(s)
  PROVE  HandsInv'
  <1> USE DEF IInv, HandsInv, RemoveSlave, TypeOK, NodeTypeOK, ThreadTypeOK,
         PoolTypeOK
  <1>1. HandedOutInv'
    BY DEF HandedOutInv, Holds, MasterHolds, SlaveHolds, Registered, Hand,
           CursorInList, HasMove, MasterHasMove, SlaveHasMove
  <1>2. Exclusive'
    <2>1. \A t \in Threads : Holds(t)' => Holds(t) /\ move'[t] = move[t]
      BY DEF Holds, MasterHolds, SlaveHolds, Registered, Hand
    <2> QED BY <2>1, SameHands
  <1>3. BestInv'
    BY DEF HandedOutInv, Exclusive, BestInv, Holds, MasterHolds, SlaveHolds,
           CursorInList, HasMove, MasterHasMove, SlaveHasMove
  <1>4. StopInv'
    BY DEF StopInv, Searching, Registered, NoneLeft
  <1> QED BY <1>1, <1>2, <1>3, <1>4

LEMMA LeaveKeepsHands ==
  ASSUME IInv, HandsInv, NEW s \in Slaves, Leave(s)
  PROVE  HandsInv'
  <1> USE DEF IInv, HandsInv, Leave, PutIdleWorker, TypeOK, NodeTypeOK,
         ThreadTypeOK, PoolTypeOK
  <1>1. HandedOutInv'
    BY DEF HandedOutInv, Holds, MasterHolds, SlaveHolds, Registered, Hand,
           CursorInList, HasMove, MasterHasMove, SlaveHasMove
  <1>2. Exclusive'
    <2>1. \A u \in Threads : Holds(u)' => Holds(u) /\ move'[u] = move[u]
      BY DEF Holds, MasterHolds, SlaveHolds, Registered, Hand
    <2> QED BY <2>1, SameHands
  <1>3. BestInv'
    BY DEF HandedOutInv, Exclusive, BestInv, Holds, MasterHolds, SlaveHolds,
           CursorInList, HasMove, MasterHasMove, SlaveHasMove
  <1>4. StopInv'
    BY DEF StopInv, Searching, Registered, NoneLeft
  <1> QED BY <1>1, <1>2, <1>3, <1>4

LEMMA ParkKeepsHands ==
  ASSUME IInv, HandsInv, NEW s \in Slaves, Park(s)
  PROVE  HandsInv'
  <1> USE DEF IInv, HandsInv, Park, TypeOK, NodeTypeOK, ThreadTypeOK, PoolTypeOK
  <1>1. HandedOutInv'
    BY DEF HandedOutInv, Holds, MasterHolds, SlaveHolds, Registered, Hand,
           CursorInList, HasMove, MasterHasMove, SlaveHasMove
  <1>2. Exclusive'
    <2>1. \A t \in Threads : Holds(t)' => Holds(t) /\ move'[t] = move[t]
      BY DEF Holds, MasterHolds, SlaveHolds, Registered, Hand
    <2> QED BY <2>1, SameHands
  <1>3. BestInv'
    BY DEF HandedOutInv, Exclusive, BestInv, Holds, MasterHolds, SlaveHolds,
           CursorInList, HasMove, MasterHasMove, SlaveHasMove
  <1>4. StopInv'
    BY DEF StopInv, Searching, Registered, NoneLeft
  <1> QED BY <1>1, <1>2, <1>3, <1>4

LEMMA AskHelpKeepsHands ==
  ASSUME IInv, HandsInv, NEW s \in Slaves, AskHelp(s)
  PROVE  HandsInv'
  <1> USE DEF IInv, HandsInv, AskHelp, TypeOK, NodeTypeOK, ThreadTypeOK,
         PoolTypeOK
  <1>1. HandedOutInv'
    BY DEF HandedOutInv, Holds, MasterHolds, SlaveHolds, Registered, Hand,
           CursorInList, HasMove, MasterHasMove, SlaveHasMove
  <1>2. Exclusive'
    <2>1. \A t \in Threads : Holds(t)' => Holds(t) /\ move'[t] = move[t]
      BY DEF Holds, MasterHolds, SlaveHolds, Registered, Hand
    <2> QED BY <2>1, SameHands
  <1>3. BestInv'
    BY DEF HandedOutInv, Exclusive, BestInv, Holds, MasterHolds, SlaveHolds,
           CursorInList, HasMove, MasterHasMove, SlaveHasMove
  <1>4. StopInv'
    BY DEF StopInv, Searching, Registered, NoneLeft
  <1> QED BY <1>1, <1>2, <1>3, <1>4

LEMMA NullWindowReturnsKeepsHands ==
  ASSUME IInv, HandsInv, NEW t \in Threads, NullWindowReturns(t)
  PROVE  HandsInv'
  <1> USE DEF IInv, HandsInv, NullWindowReturns, WindowScores, NullWindowScores,
         TypeOK, NodeTypeOK, ThreadTypeOK, PoolTypeOK
  <1>1. HandedOutInv'
    BY DEF HandedOutInv, Holds, MasterHolds, SlaveHolds, Registered, Hand,
           CursorInList, HasMove, MasterHasMove, SlaveHasMove
  <1>2. Exclusive'
    <2>1. \A u \in Threads : Holds(u)' => Holds(u) /\ move'[u] = move[u]
      BY DEF Holds, MasterHolds, SlaveHolds, Registered, Hand
    <2> QED BY <2>1, SameHands
  <1>3. BestInv'
    BY DEF HandedOutInv, Exclusive, BestInv, Holds, MasterHolds, SlaveHolds,
           CursorInList, HasMove, MasterHasMove, SlaveHasMove
  <1>4. StopInv'
    BY DEF StopInv, Searching, Registered, NoneLeft
  <1> QED BY <1>1, <1>2, <1>3, <1>4

LEMMA ReSearchKeepsHands ==
  ASSUME IInv, HandsInv, NEW t \in Threads, ReSearch(t)
  PROVE  HandsInv'
  <1> USE DEF IInv, HandsInv, ReSearch, InWindow, TypeOK, NodeTypeOK,
         ThreadTypeOK, PoolTypeOK
  <1>1. HandedOutInv'
    BY DEF HandedOutInv, Holds, MasterHolds, SlaveHolds, Registered, Hand,
           CursorInList, HasMove, MasterHasMove, SlaveHasMove
  <1>2. Exclusive'
    <2>1. \A u \in Threads : Holds(u)' => Holds(u) /\ move'[u] = move[u]
      BY DEF Holds, MasterHolds, SlaveHolds, Registered, Hand
    <2> QED BY <2>1, SameHands
  <1>3. BestInv'
    BY DEF HandedOutInv, Exclusive, BestInv, Holds, MasterHolds, SlaveHolds,
           CursorInList, HasMove, MasterHasMove, SlaveHasMove
  <1>4. StopInv'
    BY DEF StopInv, Searching, Registered, NoneLeft
  <1> QED BY <1>1, <1>2, <1>3, <1>4

LEMMA KeepScoreKeepsHands ==
  ASSUME IInv, HandsInv, NEW t \in Threads, KeepScore(t)
  PROVE  HandsInv'
  <1> USE DEF IInv, HandsInv, KeepScore, InWindow, TypeOK, NodeTypeOK,
         ThreadTypeOK, PoolTypeOK
  <1>1. HandedOutInv'
    BY DEF HandedOutInv, Holds, MasterHolds, SlaveHolds, Registered, Hand,
           CursorInList, HasMove, MasterHasMove, SlaveHasMove
  <1>2. Exclusive'
    <2>1. \A u \in Threads : Holds(u)' => Holds(u) /\ move'[u] = move[u]
      BY DEF Holds, MasterHolds, SlaveHolds, Registered, Hand
    <2> QED BY <2>1, SameHands
  <1>3. BestInv'
    BY DEF HandedOutInv, Exclusive, BestInv, Holds, MasterHolds, SlaveHolds,
           CursorInList, HasMove, MasterHasMove, SlaveHasMove
  <1>4. StopInv'
    BY DEF StopInv, Searching, Registered, NoneLeft
  <1> QED BY <1>1, <1>2, <1>3, <1>4

LEMMA ReSearchReturnsKeepsHands ==
  ASSUME IInv, HandsInv, NEW t \in Threads, ReSearchReturns(t)
  PROVE  HandsInv'
  <1> USE DEF IInv, HandsInv, ReSearchReturns, WindowScores, ReSearchScore,
         TypeOK, NodeTypeOK, ThreadTypeOK, PoolTypeOK
  <1>1. HandedOutInv'
    BY DEF HandedOutInv, Holds, MasterHolds, SlaveHolds, Registered, Hand,
           CursorInList, HasMove, MasterHasMove, SlaveHasMove
  <1>2. Exclusive'
    <2>1. \A u \in Threads : Holds(u)' => Holds(u) /\ move'[u] = move[u]
      BY DEF Holds, MasterHolds, SlaveHolds, Registered, Hand
    <2> QED BY <2>1, SameHands
  <1>3. BestInv'
    BY DEF HandedOutInv, Exclusive, BestInv, Holds, MasterHolds, SlaveHolds,
           CursorInList, HasMove, MasterHasMove, SlaveHasMove
  <1>4. StopInv'
    BY DEF StopInv, Searching, Registered, NoneLeft
  <1> QED BY <1>1, <1>2, <1>3, <1>4

LEMMA InnerCutKeepsHands ==
  ASSUME IInv, HandsInv, NEW t \in Threads, InnerCut(t)
  PROVE  HandsInv'
  <1> USE DEF IInv, HandsInv, InnerCut, TypeOK, NodeTypeOK, ThreadTypeOK,
         PoolTypeOK
  <1>1. HandedOutInv'
    BY DEF HandedOutInv, Holds, MasterHolds, SlaveHolds, Registered, Hand,
           CursorInList, HasMove, MasterHasMove, SlaveHasMove
  <1>2. Exclusive'
    <2>1. \A u \in Threads : Holds(u)' => Holds(u) /\ move'[u] = move[u]
      BY DEF Holds, MasterHolds, SlaveHolds, Registered, Hand
    <2> QED BY <2>1, SameHands
  <1>3. BestInv'
    BY DEF HandedOutInv, Exclusive, BestInv, Holds, MasterHolds, SlaveHolds,
           CursorInList, HasMove, MasterHasMove, SlaveHasMove
  <1>4. StopInv'
    BY DEF StopInv, Searching, Registered, NoneLeft
  <1> QED BY <1>1, <1>2, <1>3, <1>4

LEMMA InnerResumeKeepsHands ==
  ASSUME IInv, HandsInv, NEW t \in Threads, InnerResume(t)
  PROVE  HandsInv'
  <1> USE DEF IInv, HandsInv, InnerResume, TypeOK, NodeTypeOK, ThreadTypeOK,
         PoolTypeOK
  <1>1. HandedOutInv'
    BY DEF HandedOutInv, Holds, MasterHolds, SlaveHolds, Registered, Hand,
           CursorInList, HasMove, MasterHasMove, SlaveHasMove
  <1>2. Exclusive'
    <2>1. \A u \in Threads : Holds(u)' => Holds(u) /\ move'[u] = move[u]
      BY DEF Holds, MasterHolds, SlaveHolds, Registered, Hand
    <2> QED BY <2>1, SameHands
  <1>3. BestInv'
    BY DEF HandedOutInv, Exclusive, BestInv, Holds, MasterHolds, SlaveHolds,
           CursorInList, HasMove, MasterHasMove, SlaveHasMove
  <1>4. StopInv'
    BY DEF StopInv, Searching, Registered, NoneLeft
  <1> QED BY <1>1, <1>2, <1>3, <1>4

(* HandsInv is inductive relative to IInv.                                  *)
LEMMA HandsInitially == Init => HandsInv
  <1> SUFFICES ASSUME Init PROVE HandsInv
    OBVIOUS
  <1>1. \A t \in Threads : ~Holds(t)
    BY DEF Init, Holds, MasterHolds, SlaveHolds
  <1>2. HandedOutInv /\ Exclusive
    BY <1>1 DEF Init, HandedOutInv, Exclusive
  <1>3. BestInv
    BY <1>1 DEF Init, BestInv
  <1>4. StopInv
    BY DEF Init, StopInv
  <1> QED BY <1>2, <1>3, <1>4 DEF HandsInv

LEMMA HandsStep == IInv /\ HandsInv /\ [Next]_vars => HandsInv'
  <1> SUFFICES ASSUME IInv, HandsInv, [Next]_vars PROVE HandsInv'
    OBVIOUS
  <1>1. CASE MasterStep
    BY <1>1, FirstMoveKeepsHands, FirstMoveStoppedKeepsHands,
       FirstSearchReturnsKeepsHands, UpdateKeepsHands, NextMoveKeepsHands,
       ReadAlphaKeepsHands, NoSplitKeepsHands, AssignKeepsHands,
       AddSlaveKeepsHands, NothingToWaitForKeepsHands, StartWaitingKeepsHands,
       WakeUpKeepsHands, HelpKeepsHands, HelpSearchedKeepsHands,
       HelpEndsKeepsHands, StoreKeepsHands, TakeSlaveKeepsHands,
       NullWindowReturnsKeepsHands, ReSearchKeepsHands, KeepScoreKeepsHands,
       ReSearchReturnsKeepsHands DEF MasterStep
  <1>2. ASSUME NEW s \in Slaves, SlaveStep(s) PROVE HandsInv'
    BY <1>2, ReadMasterStateKeepsHands, SetStateKeepsHands, StartMoveKeepsHands,
       EndLoopKeepsHands, ReportKeepsHands, DetachKeepsHands,
       RemoveSlaveKeepsHands, LeaveKeepsHands, ParkKeepsHands,
       NullWindowReturnsKeepsHands, ReSearchKeepsHands, KeepScoreKeepsHands,
       ReSearchReturnsKeepsHands DEF SlaveStep
  <1>3. CASE Surroundings
    BY <1>3, ParentStopKeepsHands, ParentStopsChildrenKeepsHands,
       AskHelpKeepsHands, InnerCutKeepsHands, InnerResumeKeepsHands
    DEF Surroundings
  <1>4. CASE UNCHANGED vars
    BY <1>4 DEF vars, HandsInv, HandedOutInv, Exclusive, BestInv, StopInv, Holds,
                Searching
  <1> QED BY <1>1, <1>2, <1>3, <1>4 DEF Next, Terminated

-----------------------------------------------------------------------------
(* A node of the null-window search: nothing is searched again, by a slave  *)
(* whose sign worker.cpp:95 loses.  Two more hypotheses without which the   *)
(* result may be wrong: no helper, which shares its move's score with the   *)
(* master, whose stopped search may overwrite it; and no cut-off at an      *)
(* inner node of the master's, of which a starting slave would take a copy  *)
(* for a stop and drop its move.                                            *)
NullWindowNode == ~IsPV /\ Helpers = {} /\ Master \notin InnerCutters

(* The result still counts, and no move has improved it to a cut-off.  A    *)
(* search that stopped being Live is never Live again.                      *)
Live == state[Master] = "RUNNING" /\ bestScore < Beta

StopsEndLive ==
  /\ Master \notin innerCut
  /\ stopPoint => bestScore >= Beta
  /\ spin => ~Live
  /\ pc[Master] = "stored" => state[Master] = "RUNNING"

(* As long as it is, its slaves run.                                        *)
SlavesRun ==
  \A s \in Slaves :
    /\ pc[s] = "setState" => seen[s] # "END" /\ (Live => seen[s] = "RUNNING")
    /\ pc[s] \in {"loop", "nullWindow", "compare", "report"} =>
         /\ state[s] # "END"
         /\ Live => state[s] = "RUNNING" \/ s \in innerCut

(* The score that a running thread is about to report keeps the contract    *)
(* with the alpha of now, which only grows.                                 *)
Settled(t) ==
  pc[t] \in {"compare", "report", "update"} /\ state[t] = "RUNNING" =>
    /\ score[move[t]] < Beta => value[move[t]] <= score[move[t]]
    /\ score[move[t]] > alpha => score[move[t]] <= value[move[t]]
Contracts == \A t \in Threads : base[t] <= alpha /\ Settled(t)

BestAttained == bestScore > Alpha => bestMove # 0 /\ bestScore <= value[bestMove]

(* Every move is in front of the cursor, with a thread, or bounded.         *)
Accounted ==
  Live /\ pc[Master] # "first" =>
    \A m \in Moves :
      \/ nextMove # 0 /\ m > nextMove
      \/ \E t \in Threads : Holds(t) /\ move[t] = m
      \/ value[m] <= bestScore

AllHandedOut ==
  Live /\ pc[Master] \in {"wait", "sleep", "help", "helped", "store", "stored"} =>
    nextMove = 0

ResultInv == /\ StopsEndLive /\ SlavesRun /\ Contracts /\ BestAttained /\ Accounted
             /\ AllHandedOut

-----------------------------------------------------------------------------
(* Every action keeps ResultInv in a null-window node, conjunct by conjunct.*)
LEMMA FirstMoveKeepsResult ==
  ASSUME NullWindowNode, IInv, HandsInv, ResultInv, FirstMove
  PROVE  ResultInv'
  <1> USE DEF NullWindowNode, IInv, HandsInv, ResultInv, FirstMove, ResetCursor,
         TypeOK, NodeTypeOK, ThreadTypeOK, PoolTypeOK
  <1>1. StopsEndLive'
    BY DEF StopsEndLive, Live, BestInv, StopInv, Registered, NoneLeft
  <1>2. SlavesRun'
    BY DEF SlavesRun, StopsEndLive, Live, BestInv, Registered, StopInv,
           Searching
  <1>3. Contracts'
    <2>1. \A u \in Threads : base'[u] <= alpha'
      BY DEF Contracts
    <2>2. \A u \in Threads : Settled(u)'
      BY DEF Contracts, Settled
    <2> QED BY <2>1, <2>2 DEF Contracts
  <1>4. BestAttained'
    BY DEF BestAttained, BestInv, Contracts, Settled, HasMove, MasterHasMove,
           SlaveHasMove
  <1>5. Accounted'
    BY DEF Accounted, Live, StopsEndLive, Holds, MasterHolds, SlaveHolds,
           HandedOutInv, CursorInList
  <1>6. AllHandedOut'
    BY DEF AllHandedOut, Live, StopsEndLive, CursorInList
  <1> QED BY <1>1, <1>2, <1>3, <1>4, <1>5, <1>6

LEMMA FirstMoveStoppedKeepsResult ==
  ASSUME NullWindowNode, IInv, HandsInv, ResultInv, FirstMoveStopped
  PROVE  ResultInv'
  <1> USE DEF NullWindowNode, IInv, HandsInv, ResultInv, FirstMoveStopped,
         ResetCursor, TypeOK, NodeTypeOK, ThreadTypeOK, PoolTypeOK
  <1>1. StopsEndLive'
    BY DEF StopsEndLive, Live, BestInv, StopInv, Registered, NoneLeft
  <1>2. SlavesRun'
    BY DEF SlavesRun, StopsEndLive, Live, BestInv, Registered, StopInv,
           Searching
  <1>3. Contracts'
    BY DEF Contracts, Settled, BestInv, AboveAlpha, Exclusive, Holds,
           MasterHolds, SlaveHolds, HasMove, MasterHasMove, SlaveHasMove
  <1>4. BestAttained'
    BY DEF BestAttained, BestInv, Contracts, Settled, HasMove, MasterHasMove,
           SlaveHasMove
  <1>5. Accounted'
    BY DEF Accounted, Live, StopsEndLive, Holds, MasterHolds, SlaveHolds,
           HandedOutInv, CursorInList
  <1>6. AllHandedOut'
    BY DEF AllHandedOut, Live, StopsEndLive, CursorInList
  <1> QED BY <1>1, <1>2, <1>3, <1>4, <1>5, <1>6

LEMMA FirstSearchReturnsKeepsResult ==
  ASSUME NullWindowNode, IInv, HandsInv, ResultInv, FirstSearchReturns
  PROVE  ResultInv'
  <1> USE DEF NullWindowNode, IInv, HandsInv, ResultInv, FirstSearchReturns,
         WindowScores, NullWindowScores, TypeOK, NodeTypeOK, ThreadTypeOK,
         PoolTypeOK
  <1>1. StopsEndLive'
    BY DEF StopsEndLive, Live, BestInv, StopInv, Registered, NoneLeft
  <1>2. SlavesRun'
    BY DEF SlavesRun, StopsEndLive, Live, BestInv, Registered, StopInv,
           Searching
  <1>3. Contracts'
    <2>1. Holds(Master) /\ move[Master] = 1
      BY DEF Holds, MasterHolds, HandedOutInv
    <2>2. Settled(Master)'
      <3>1. state[Master] = "RUNNING" =>
              /\ score'[1] < base[Master] + 1 => value[1] <= score'[1]
              /\ score'[1] > base[Master] => score'[1] <= value[1]
        OBVIOUS
      <3>2. Alpha <= base[Master] /\ base[Master] <= alpha /\ Beta = Alpha + 1
        BY DEF AboveAlpha, Contracts
      <3>3. score'[1] \in Int /\ base[Master] \in Int
        OBVIOUS
      <3> QED BY <2>1, <3>1, <3>2, <3>3 DEF Settled
    <2>3. ASSUME NEW u \in Threads \ {Master} PROVE Settled(u)'
      <3>1. CASE Holds(u)
        <4>1. move[u] # 1
          BY <2>1, <3>1 DEF Exclusive
        <4>2. pc[u] \in {"compare", "report", "update"} => move[u] \in Moves
          BY ScoresOfMoves
        <4>3. pc[u] \in {"compare", "report", "update"} =>
                score'[move[u]] = score[move[u]]
          BY <4>1, <4>2
        <4> QED BY <4>3 DEF Settled, Contracts
      <3>2. CASE ~Holds(u)
        BY <3>2 DEF Settled, Holds, SlaveHolds, HasMove, SlaveHasMove
      <3> QED BY <3>1, <3>2
    <2> QED BY <2>2, <2>3 DEF Contracts
  <1>4. BestAttained'
    BY DEF BestAttained, BestInv, Contracts, Settled, HasMove, MasterHasMove,
           SlaveHasMove
  <1>5. Accounted'
    BY DEF Accounted, Live, StopsEndLive, Holds, MasterHolds, SlaveHolds,
           HandedOutInv, CursorInList
  <1>6. AllHandedOut'
    BY DEF AllHandedOut, Live, StopsEndLive, CursorInList
  <1> QED BY <1>1, <1>2, <1>3, <1>4, <1>5, <1>6

LEMMA UpdateKeepsResult ==
  ASSUME NullWindowNode, IInv, HandsInv, ResultInv, Update
  PROVE  ResultInv'
  <1> USE DEF NullWindowNode, IInv, HandsInv, ResultInv, Update, TakeScore,
         RaisedAlpha, Improves, StopAll, TypeOK, NodeTypeOK, ThreadTypeOK,
         PoolTypeOK
  <1>1. StopsEndLive'
    BY DEF StopsEndLive, Live, BestInv, StopInv, Registered, NoneLeft
  <1>2. SlavesRun'
    BY DEF SlavesRun, StopsEndLive, Live, BestInv, Registered, StopInv,
           Searching
  <1>3. Contracts'
    <2>1. alpha' \in Int /\ alpha <= alpha'
      BY DEF HasMove, SlaveHasMove
    <2>2. ASSUME NEW u \in Threads PROVE base'[u] <= alpha'
      BY <2>1 DEF Contracts
    <2>3. ASSUME NEW u \in Threads PROVE Settled(u)'
      <3>1. CASE u = Master
        BY <3>1 DEF Settled
      <3>2. CASE u # Master /\ pc[u] \in {"compare", "report", "update"}
        <4>1. move'[u] = move[u] /\ pc'[u] = pc[u] /\ score' = score /\ value' = value
          BY <3>2
        <4>2. score[move[u]] \in Int
          BY <3>2, ScoresOfMoves
        <4>3. state'[u] = "RUNNING" => state[u] = "RUNNING"
          OBVIOUS
        <4> HIDE DEF Update
        <4>4. Settled(u) /\ alpha \in Int
          BY DEF Contracts
        <4> QED BY <3>2, <4>1, <4>2, <4>3, <4>4, <2>1 DEF Settled
      <3>3. CASE u # Master /\ pc[u] \notin {"compare", "report", "update"}
        BY <3>3 DEF Settled
      <3> QED BY <3>1, <3>2, <3>3
    <2> QED BY <2>2, <2>3 DEF Contracts
  <1>4. BestAttained'
    BY DEF BestAttained, BestInv, Contracts, Settled, HasMove, MasterHasMove,
           SlaveHasMove
  <1>5. Accounted'
    <2>1. Live' => Live
      BY DEF Live, HasMove, MasterHasMove
    <2>2. /\ move[Master] \in Moves /\ score[move[Master]] \in Int
          /\ \A m \in Moves : value[m] \in Int
      BY ScoresOfMoves
    <2>5. bestScore \in Int /\ bestScore' \in Int /\ bestScore <= bestScore'
      BY <2>2
    <2>3. ASSUME Live' PROVE value[move[Master]] <= bestScore'
      <3>1. score[move[Master]] <= bestScore' /\ bestScore' < Beta
        BY <2>1, <2>2, <2>3 DEF Live
      <3>2. value[move[Master]] <= score[move[Master]]
        BY <2>1, <2>2, <2>3, <2>5, <3>1 DEF Contracts, Settled, Live
      <3> QED BY <2>2, <3>1, <3>2
    <2>4. \A u \in Slaves : Holds(u) => Holds(u)' /\ move'[u] = move[u]
      BY DEF Holds, SlaveHolds
    <2>6. Live' => \A m \in Moves :
            \/ nextMove' # 0 /\ m > nextMove'
            \/ \E t \in Threads : Holds(t)' /\ move'[t] = m
            \/ value'[m] <= bestScore'
      <3>1. ASSUME Live', NEW m \in Moves, value[m] <= bestScore
            PROVE  value[m] <= bestScore'
        BY <2>2, <2>5, <3>1
      <3> QED BY <2>1, <2>3, <2>4, <3>1 DEF Accounted
    <2> QED BY <2>6 DEF Accounted
  <1>6. AllHandedOut'
    BY DEF AllHandedOut, Live, StopsEndLive, CursorInList
  <1> QED BY <1>1, <1>2, <1>3, <1>4, <1>5, <1>6

LEMMA NextMoveKeepsResult ==
  ASSUME NullWindowNode, IInv, HandsInv, ResultInv, NextMove
  PROVE  ResultInv'
  <1> USE DEF NullWindowNode, IInv, HandsInv, ResultInv, NextMove,
         NextMoveLockless, HandedOut, CanHandOut, TypeOK, NodeTypeOK,
         ThreadTypeOK, PoolTypeOK
  <1>1. StopsEndLive'
    BY DEF StopsEndLive, Live, BestInv, StopInv, Registered, NoneLeft
  <1>2. SlavesRun'
    BY DEF SlavesRun, StopsEndLive, Live, BestInv, Registered, StopInv,
           Searching
  <1>3. Contracts'
    BY DEF Contracts, Settled, BestInv, AboveAlpha, Exclusive, Holds,
           MasterHolds, SlaveHolds, HasMove, MasterHasMove, SlaveHasMove
  <1>4. BestAttained'
    BY DEF BestAttained, BestInv, Contracts, Settled, HasMove, MasterHasMove,
           SlaveHasMove
  <1>5. Accounted'
    BY SMTT(30) DEF Accounted, Live, StopsEndLive, Holds, MasterHolds, SlaveHolds,
           HandedOutInv, CursorInList
  <1>6. AllHandedOut'
    <2>1. Live => alpha < Beta
      BY DEF Live, BestInv
    <2> QED BY <2>1 DEF AllHandedOut, Live, CursorInList
  <1> QED BY <1>1, <1>2, <1>3, <1>4, <1>5, <1>6

LEMMA ReadAlphaKeepsResult ==
  ASSUME NullWindowNode, IInv, HandsInv, ResultInv, ReadAlpha
  PROVE  ResultInv'
  <1> USE DEF NullWindowNode, IInv, HandsInv, ResultInv, ReadAlpha, TypeOK,
         NodeTypeOK, ThreadTypeOK, PoolTypeOK
  <1>1. StopsEndLive'
    BY DEF StopsEndLive, Live, BestInv, StopInv, Registered, NoneLeft
  <1>2. SlavesRun'
    BY DEF SlavesRun, StopsEndLive, Live, BestInv, Registered, StopInv,
           Searching
  <1>3. Contracts'
    <2>1. \A u \in Threads : base'[u] <= alpha'
      BY DEF Contracts
    <2>2. \A u \in Threads : Settled(u)'
      BY DEF Contracts, Settled
    <2> QED BY <2>1, <2>2 DEF Contracts
  <1>4. BestAttained'
    BY DEF BestAttained, BestInv, Contracts, Settled, HasMove, MasterHasMove,
           SlaveHasMove
  <1>5. Accounted'
    BY DEF Accounted, Live, StopsEndLive, Holds, MasterHolds, SlaveHolds,
           HandedOutInv, CursorInList
  <1>6. AllHandedOut'
    BY DEF AllHandedOut, Live, StopsEndLive, CursorInList
  <1> QED BY <1>1, <1>2, <1>3, <1>4, <1>5, <1>6

LEMMA NoSplitKeepsResult ==
  ASSUME NullWindowNode, IInv, HandsInv, ResultInv, NoSplit
  PROVE  ResultInv'
  <1> USE DEF NullWindowNode, IInv, HandsInv, ResultInv, NoSplit, TypeOK,
         NodeTypeOK, ThreadTypeOK, PoolTypeOK
  <1>1. StopsEndLive'
    BY DEF StopsEndLive, Live, BestInv, StopInv, Registered, NoneLeft
  <1>2. SlavesRun'
    BY DEF SlavesRun, StopsEndLive, Live, BestInv, Registered, StopInv,
           Searching
  <1>3. Contracts'
    BY DEF Contracts, Settled, BestInv, AboveAlpha, Exclusive, Holds,
           MasterHolds, SlaveHolds, HasMove, MasterHasMove, SlaveHasMove
  <1>4. BestAttained'
    BY DEF BestAttained, BestInv, Contracts, Settled, HasMove, MasterHasMove,
           SlaveHasMove
  <1>5. Accounted'
    BY DEF Accounted, Live, StopsEndLive, Holds, MasterHolds, SlaveHolds,
           HandedOutInv, CursorInList
  <1>6. AllHandedOut'
    BY DEF AllHandedOut, Live, StopsEndLive, CursorInList
  <1> QED BY <1>1, <1>2, <1>3, <1>4, <1>5, <1>6

LEMMA AssignKeepsResult ==
  ASSUME NullWindowNode, IInv, HandsInv, ResultInv, Assign
  PROVE  ResultInv'
  <1> USE DEF NullWindowNode, IInv, HandsInv, ResultInv, Assign, TypeOK,
         NodeTypeOK, ThreadTypeOK, PoolTypeOK
  <1>1. StopsEndLive'
    BY DEF StopsEndLive, Live, BestInv, StopInv, Registered, NoneLeft
  <1>2. SlavesRun'
    BY DEF SlavesRun, StopsEndLive, Live, BestInv, Registered, StopInv,
           Searching
  <1>3. Contracts'
    BY DEF Contracts, Settled, BestInv, AboveAlpha, Exclusive, Holds,
           MasterHolds, SlaveHolds, HasMove, MasterHasMove, SlaveHasMove
  <1>4. BestAttained'
    BY DEF BestAttained, BestInv, Contracts, Settled, HasMove, MasterHasMove,
           SlaveHasMove
  <1>5. Accounted'
    <2>1. hand \in Slaves /\ Holds(hand)' /\ move'[hand] = move[Master]
      BY DEF Hand, Holds, SlaveHolds, HasMove, MasterHasMove
    <2>2. \A u \in Slaves : Holds(u) => Holds(u)' /\ move'[u] = move[u]
      BY DEF Holds, SlaveHolds
    <2> QED BY <2>1, <2>2 DEF Accounted, Live
  <1>6. AllHandedOut'
    BY DEF AllHandedOut, Live, StopsEndLive, CursorInList
  <1> QED BY <1>1, <1>2, <1>3, <1>4, <1>5, <1>6

LEMMA AddSlaveKeepsResult ==
  ASSUME NullWindowNode, IInv, HandsInv, ResultInv, AddSlave
  PROVE  ResultInv'
  <1> USE DEF NullWindowNode, IInv, HandsInv, ResultInv, AddSlave, TypeOK,
         NodeTypeOK, ThreadTypeOK, PoolTypeOK
  <1>1. StopsEndLive'
    BY DEF StopsEndLive, Live, BestInv, StopInv, Registered, NoneLeft
  <1>2. SlavesRun'
    BY DEF SlavesRun, StopsEndLive, Live, BestInv, Registered, StopInv,
           Searching
  <1>3. Contracts'
    BY DEF Contracts, Settled, BestInv, AboveAlpha, Exclusive, Holds,
           MasterHolds, SlaveHolds, HasMove, MasterHasMove, SlaveHasMove
  <1>4. BestAttained'
    BY DEF BestAttained, BestInv, Contracts, Settled, HasMove, MasterHasMove,
           SlaveHasMove
  <1>5. Accounted'
    BY DEF Accounted, Live, StopsEndLive, Holds, MasterHolds, SlaveHolds,
           HandedOutInv, CursorInList
  <1>6. AllHandedOut'
    BY DEF AllHandedOut, Live, StopsEndLive, CursorInList
  <1> QED BY <1>1, <1>2, <1>3, <1>4, <1>5, <1>6

LEMMA NothingToWaitForKeepsResult ==
  ASSUME NullWindowNode, IInv, HandsInv, ResultInv, NothingToWaitFor
  PROVE  ResultInv'
  <1> USE DEF NullWindowNode, IInv, HandsInv, ResultInv, NothingToWaitFor,
         LeaveWait, TypeOK, NodeTypeOK, ThreadTypeOK, PoolTypeOK
  <1>1. StopsEndLive'
    BY DEF StopsEndLive, Live, BestInv, StopInv, Registered, NoneLeft
  <1>2. SlavesRun'
    BY DEF SlavesRun, StopsEndLive, Live, BestInv, Registered, StopInv,
           Searching
  <1>3. Contracts'
    <2>1. \A u \in Threads : base'[u] <= alpha'
      BY DEF Contracts
    <2>2. ASSUME NEW u \in Threads PROVE Settled(u)'
      <3>1. CASE u = Master
        BY <3>1 DEF Settled
      <3>2. CASE u # Master
        <4>1. /\ pc'[u] = pc[u] /\ state'[u] = state[u] /\ move' = move
              /\ score' = score /\ value' = value /\ alpha' = alpha
          BY <3>2
        <4> QED BY <4>1 DEF Contracts, Settled
      <3> QED BY <3>1, <3>2
    <2> QED BY <2>1, <2>2 DEF Contracts
  <1>4. BestAttained'
    BY DEF BestAttained, BestInv, Contracts, Settled, HasMove, MasterHasMove,
           SlaveHasMove
  <1>5. Accounted'
    BY DEF Accounted, Live, StopsEndLive, Holds, MasterHolds, SlaveHolds,
           HandedOutInv, CursorInList
  <1>6. AllHandedOut'
    BY DEF AllHandedOut, Live, StopsEndLive, CursorInList
  <1> QED BY <1>1, <1>2, <1>3, <1>4, <1>5, <1>6

LEMMA StartWaitingKeepsResult ==
  ASSUME NullWindowNode, IInv, HandsInv, ResultInv, StartWaiting
  PROVE  ResultInv'
  <1> USE DEF NullWindowNode, IInv, HandsInv, ResultInv, StartWaiting, StopAll,
         TypeOK, NodeTypeOK, ThreadTypeOK, PoolTypeOK
  <1>1. StopsEndLive'
    BY DEF StopsEndLive, Live, BestInv, StopInv, Registered, NoneLeft
  <1>2. SlavesRun'
    BY DEF SlavesRun, StopsEndLive, Live, BestInv, Registered, StopInv,
           Searching
  <1>3. Contracts'
    BY DEF Contracts, Settled, BestInv, AboveAlpha, Exclusive, Holds,
           MasterHolds, SlaveHolds, HasMove, MasterHasMove, SlaveHasMove
  <1>4. BestAttained'
    BY DEF BestAttained, BestInv, Contracts, Settled, HasMove, MasterHasMove,
           SlaveHasMove
  <1>5. Accounted'
    BY DEF Accounted, Live, StopsEndLive, Holds, MasterHolds, SlaveHolds,
           HandedOutInv, CursorInList
  <1>6. AllHandedOut'
    BY DEF AllHandedOut, Live, StopsEndLive, CursorInList
  <1> QED BY <1>1, <1>2, <1>3, <1>4, <1>5, <1>6

LEMMA WakeUpKeepsResult ==
  ASSUME NullWindowNode, IInv, HandsInv, ResultInv, WakeUp
  PROVE  ResultInv'
  <1> USE DEF NullWindowNode, IInv, HandsInv, ResultInv, WakeUp, LeaveWait,
         NobodyLeft, TypeOK, NodeTypeOK, ThreadTypeOK, PoolTypeOK
  <1>1. StopsEndLive'
    BY DEF StopsEndLive, Live, BestInv, StopInv, Registered, NoneLeft
  <1>2. SlavesRun'
    BY DEF SlavesRun, StopsEndLive, Live, BestInv, Registered, StopInv,
           Searching
  <1>3. Contracts'
    <2>1. \A u \in Threads : base'[u] <= alpha'
      BY DEF Contracts
    <2>2. ASSUME NEW u \in Threads PROVE Settled(u)'
      <3>1. CASE u = Master
        BY <3>1 DEF Settled
      <3>2. CASE u # Master
        <4>1. /\ pc'[u] = pc[u] /\ state'[u] = state[u] /\ move' = move
              /\ score' = score /\ value' = value /\ alpha' = alpha
          BY <3>2
        <4> QED BY <4>1 DEF Contracts, Settled
      <3> QED BY <3>1, <3>2
    <2> QED BY <2>1, <2>2 DEF Contracts
  <1>4. BestAttained'
    BY DEF BestAttained, BestInv, Contracts, Settled, HasMove, MasterHasMove,
           SlaveHasMove
  <1>5. Accounted'
    BY DEF Accounted, Live, StopsEndLive, Holds, MasterHolds, SlaveHolds,
           HandedOutInv, CursorInList
  <1>6. AllHandedOut'
    BY DEF AllHandedOut, Live, StopsEndLive, CursorInList
  <1> QED BY <1>1, <1>2, <1>3, <1>4, <1>5, <1>6

LEMMA HelpKeepsResult ==
  ASSUME NullWindowNode, IInv, HandsInv, ResultInv, Help
  PROVE  ResultInv'
  <1> USE DEF NullWindowNode, IInv, HandsInv, ResultInv, Help, TypeOK,
         NodeTypeOK, ThreadTypeOK, PoolTypeOK
  <1>1. StopsEndLive'
    BY DEF StopsEndLive, Live, BestInv, StopInv, Registered, NoneLeft
  <1>2. SlavesRun'
    BY DEF SlavesRun, StopsEndLive, Live, BestInv, Registered, StopInv,
           Searching
  <1>3. Contracts'
    BY DEF Contracts, Settled, BestInv, AboveAlpha, Exclusive, Holds,
           MasterHolds, SlaveHolds, HasMove, MasterHasMove, SlaveHasMove
  <1>4. BestAttained'
    BY DEF BestAttained, BestInv, Contracts, Settled, HasMove, MasterHasMove,
           SlaveHasMove
  <1>5. Accounted'
    BY DEF Accounted, Live, StopsEndLive, Holds, MasterHolds, SlaveHolds,
           HandedOutInv, CursorInList
  <1>6. AllHandedOut'
    BY DEF AllHandedOut, Live, StopsEndLive, CursorInList
  <1> QED BY <1>1, <1>2, <1>3, <1>4, <1>5, <1>6

LEMMA HelpSearchedKeepsResult ==
  ASSUME NullWindowNode, IInv, HandsInv, ResultInv, HelpSearched
  PROVE  ResultInv'
  <1> USE DEF NullWindowNode, IInv, HandsInv, ResultInv, HelpSearched, TypeOK,
         NodeTypeOK, ThreadTypeOK, PoolTypeOK
  <1>1. StopsEndLive'
    BY DEF StopsEndLive, Live, BestInv, StopInv, Registered, NoneLeft
  <1>2. SlavesRun'
    BY DEF SlavesRun, StopsEndLive, Live, BestInv, Registered, StopInv,
           Searching
  <1>3. Contracts'
    BY DEF Contracts, Settled, BestInv, AboveAlpha, Exclusive, Holds,
           MasterHolds, SlaveHolds, HasMove, MasterHasMove, SlaveHasMove
  <1>4. BestAttained'
    BY DEF BestAttained, BestInv, Contracts, Settled, HasMove, MasterHasMove,
           SlaveHasMove
  <1>5. Accounted'
    BY DEF Accounted, Live, StopsEndLive, Holds, MasterHolds, SlaveHolds,
           HandedOutInv, CursorInList
  <1>6. AllHandedOut'
    BY DEF AllHandedOut, Live, StopsEndLive, CursorInList
  <1> QED BY <1>1, <1>2, <1>3, <1>4, <1>5, <1>6

LEMMA HelpEndsKeepsResult ==
  ASSUME NullWindowNode, IInv, HandsInv, ResultInv, HelpEnds
  PROVE  ResultInv'
  <1> USE DEF NullWindowNode, IInv, HandsInv, ResultInv, HelpEnds, LeaveWait,
         StopHelping, TypeOK, NodeTypeOK, ThreadTypeOK, PoolTypeOK
  <1>1. StopsEndLive'
    BY DEF StopsEndLive, Live, BestInv, StopInv, Registered, NoneLeft
  <1>2. SlavesRun'
    BY DEF SlavesRun, StopsEndLive, Live, BestInv, Registered, StopInv,
           Searching
  <1>3. Contracts'
    <2>1. \A u \in Threads : base'[u] <= alpha'
      BY DEF Contracts
    <2>2. ASSUME NEW u \in Threads PROVE Settled(u)'
      <3>1. CASE u = Master
        BY <3>1 DEF Settled
      <3>2. CASE u # Master
        <4>1. /\ pc'[u] = pc[u] /\ state'[u] = state[u] /\ move' = move
              /\ score' = score /\ value' = value /\ alpha' = alpha
          BY <3>2
        <4> QED BY <4>1 DEF Contracts, Settled
      <3> QED BY <3>1, <3>2
    <2> QED BY <2>1, <2>2 DEF Contracts
  <1>4. BestAttained'
    BY DEF BestAttained, BestInv, Contracts, Settled, HasMove, MasterHasMove,
           SlaveHasMove
  <1>5. Accounted'
    BY DEF Accounted, Live, StopsEndLive, Holds, MasterHolds, SlaveHolds,
           HandedOutInv, CursorInList
  <1>6. AllHandedOut'
    BY DEF AllHandedOut, Live, StopsEndLive, CursorInList
  <1> QED BY <1>1, <1>2, <1>3, <1>4, <1>5, <1>6

LEMMA StoreKeepsResult ==
  ASSUME NullWindowNode, IInv, HandsInv, ResultInv, Store
  PROVE  ResultInv'
  <1> USE DEF NullWindowNode, IInv, HandsInv, ResultInv, Store, TypeOK,
         NodeTypeOK, ThreadTypeOK, PoolTypeOK
  <1>1. StopsEndLive'
    BY DEF StopsEndLive, Live, BestInv, StopInv, Registered, NoneLeft
  <1>2. SlavesRun'
    BY DEF SlavesRun, StopsEndLive, Live, BestInv, Registered, StopInv,
           Searching
  <1>3. Contracts'
    BY DEF Contracts, Settled, BestInv, AboveAlpha, Exclusive, Holds,
           MasterHolds, SlaveHolds, HasMove, MasterHasMove, SlaveHasMove
  <1>4. BestAttained'
    BY DEF BestAttained, BestInv, Contracts, Settled, HasMove, MasterHasMove,
           SlaveHasMove
  <1>5. Accounted'
    BY DEF Accounted, Live, StopsEndLive, Holds, MasterHolds, SlaveHolds,
           HandedOutInv, CursorInList
  <1>6. AllHandedOut'
    BY DEF AllHandedOut, Live, StopsEndLive, CursorInList
  <1> QED BY <1>1, <1>2, <1>3, <1>4, <1>5, <1>6

LEMMA ParentStopKeepsResult ==
  ASSUME NullWindowNode, IInv, HandsInv, ResultInv, ParentStop
  PROVE  ResultInv'
  <1> USE DEF NullWindowNode, IInv, HandsInv, ResultInv, ParentStop, TypeOK,
         NodeTypeOK, ThreadTypeOK, PoolTypeOK
  <1>1. StopsEndLive'
    BY DEF StopsEndLive, Live, BestInv, StopInv, Registered, NoneLeft
  <1>2. SlavesRun'
    BY DEF SlavesRun, StopsEndLive, Live, BestInv, Registered, StopInv,
           Searching
  <1>3. Contracts'
    BY DEF Contracts, Settled, BestInv, AboveAlpha, Exclusive, Holds,
           MasterHolds, SlaveHolds, HasMove, MasterHasMove, SlaveHasMove
  <1>4. BestAttained'
    BY DEF BestAttained, BestInv, Contracts, Settled, HasMove, MasterHasMove,
           SlaveHasMove
  <1>5. Accounted'
    BY DEF Accounted, Live, StopsEndLive, Holds, MasterHolds, SlaveHolds,
           HandedOutInv, CursorInList
  <1>6. AllHandedOut'
    BY DEF AllHandedOut, Live, StopsEndLive, CursorInList
  <1> QED BY <1>1, <1>2, <1>3, <1>4, <1>5, <1>6

LEMMA ParentStopsChildrenKeepsResult ==
  ASSUME NullWindowNode, IInv, HandsInv, ResultInv, ParentStopsChildren
  PROVE  ResultInv'
  <1> USE DEF NullWindowNode, IInv, HandsInv, ResultInv, ParentStopsChildren,
         StopAll, TypeOK, NodeTypeOK, ThreadTypeOK, PoolTypeOK
  <1>1. StopsEndLive'
    BY DEF StopsEndLive, Live, BestInv, StopInv, Registered, NoneLeft
  <1>2. SlavesRun'
    BY DEF SlavesRun, StopsEndLive, Live, BestInv, Registered, StopInv,
           Searching
  <1>3. Contracts'
    BY DEF Contracts, Settled, BestInv, AboveAlpha, Exclusive, Holds,
           MasterHolds, SlaveHolds, HasMove, MasterHasMove, SlaveHasMove
  <1>4. BestAttained'
    BY DEF BestAttained, BestInv, Contracts, Settled, HasMove, MasterHasMove,
           SlaveHasMove
  <1>5. Accounted'
    BY DEF Accounted, Live, StopsEndLive, Holds, MasterHolds, SlaveHolds,
           HandedOutInv, CursorInList
  <1>6. AllHandedOut'
    BY DEF AllHandedOut, Live, StopsEndLive, CursorInList
  <1> QED BY <1>1, <1>2, <1>3, <1>4, <1>5, <1>6

LEMMA TakeSlaveKeepsResult ==
  ASSUME NullWindowNode, IInv, HandsInv, ResultInv,
         NEW s \in Slaves, TakeSlave(s)
  PROVE  ResultInv'
  <1> USE DEF NullWindowNode, IInv, HandsInv, ResultInv, TakeSlave, GetHelper,
         GetIdleWorker, TypeOK, NodeTypeOK, ThreadTypeOK, PoolTypeOK
  <1>1. StopsEndLive'
    BY DEF StopsEndLive, Live, BestInv, StopInv, Registered, NoneLeft
  <1>2. SlavesRun'
    BY DEF SlavesRun, StopsEndLive, Live, BestInv, Registered, StopInv,
           Searching
  <1>3. Contracts'
    BY DEF Contracts, Settled, BestInv, AboveAlpha, Exclusive, Holds,
           MasterHolds, SlaveHolds, HasMove, MasterHasMove, SlaveHasMove
  <1>4. BestAttained'
    BY DEF BestAttained, BestInv, Contracts, Settled, HasMove, MasterHasMove,
           SlaveHasMove
  <1>5. Accounted'
    BY DEF Accounted, Live, StopsEndLive, Holds, MasterHolds, SlaveHolds,
           HandedOutInv, CursorInList
  <1>6. AllHandedOut'
    BY DEF AllHandedOut, Live, StopsEndLive, CursorInList
  <1> QED BY <1>1, <1>2, <1>3, <1>4, <1>5, <1>6

LEMMA ReadMasterStateKeepsResult ==
  ASSUME NullWindowNode, IInv, HandsInv, ResultInv,
         NEW s \in Slaves, ReadMasterState(s)
  PROVE  ResultInv'
  <1> USE DEF NullWindowNode, IInv, HandsInv, ResultInv, ReadMasterState,
         TypeOK, NodeTypeOK, ThreadTypeOK, PoolTypeOK
  <1>1. StopsEndLive'
    BY DEF StopsEndLive, Live, BestInv, StopInv, Registered, NoneLeft
  <1>2. SlavesRun'
    BY DEF SlavesRun, StopsEndLive, Live, BestInv, Registered, StopInv,
           Searching
  <1>3. Contracts'
    BY DEF Contracts, Settled, BestInv, AboveAlpha, Exclusive, Holds,
           MasterHolds, SlaveHolds, HasMove, MasterHasMove, SlaveHasMove
  <1>4. BestAttained'
    BY DEF BestAttained, BestInv, Contracts, Settled, HasMove, MasterHasMove,
           SlaveHasMove
  <1>5. Accounted'
    BY DEF Accounted, Live, StopsEndLive, Holds, MasterHolds, SlaveHolds,
           HandedOutInv, CursorInList
  <1>6. AllHandedOut'
    BY DEF AllHandedOut, Live, StopsEndLive, CursorInList
  <1> QED BY <1>1, <1>2, <1>3, <1>4, <1>5, <1>6

LEMMA SetStateKeepsResult ==
  ASSUME NullWindowNode, IInv, HandsInv, ResultInv,
         NEW s \in Slaves, SetState(s)
  PROVE  ResultInv'
  <1> USE DEF NullWindowNode, IInv, HandsInv, ResultInv, SetState, TypeOK,
         NodeTypeOK, ThreadTypeOK, PoolTypeOK
  <1>1. StopsEndLive'
    BY DEF StopsEndLive, Live, BestInv, StopInv, Registered, NoneLeft
  <1>2. SlavesRun'
    BY DEF SlavesRun, StopsEndLive, Live, BestInv, Registered, StopInv,
           Searching
  <1>3. Contracts'
    BY DEF Contracts, Settled, BestInv, AboveAlpha, Exclusive, Holds,
           MasterHolds, SlaveHolds, HasMove, MasterHasMove, SlaveHasMove
  <1>4. BestAttained'
    BY DEF BestAttained, BestInv, Contracts, Settled, HasMove, MasterHasMove,
           SlaveHasMove
  <1>5. Accounted'
    BY DEF Accounted, Live, StopsEndLive, Holds, MasterHolds, SlaveHolds,
           HandedOutInv, CursorInList
  <1>6. AllHandedOut'
    BY DEF AllHandedOut, Live, StopsEndLive, CursorInList
  <1> QED BY <1>1, <1>2, <1>3, <1>4, <1>5, <1>6

LEMMA StartMoveKeepsResult ==
  ASSUME NullWindowNode, IInv, HandsInv, ResultInv,
         NEW s \in Slaves, StartMove(s)
  PROVE  ResultInv'
  <1> USE DEF NullWindowNode, IInv, HandsInv, ResultInv, StartMove, MayStart,
         TypeOK, NodeTypeOK, ThreadTypeOK, PoolTypeOK
  <1>1. StopsEndLive'
    BY DEF StopsEndLive, Live, BestInv, StopInv, Registered, NoneLeft
  <1>2. SlavesRun'
    BY DEF SlavesRun, StopsEndLive, Live, BestInv, Registered, StopInv,
           Searching
  <1>3. Contracts'
    <2>1. \A u \in Threads : base'[u] <= alpha'
      BY DEF Contracts
    <2>2. \A u \in Threads : Settled(u)'
      BY DEF Contracts, Settled
    <2> QED BY <2>1, <2>2 DEF Contracts
  <1>4. BestAttained'
    BY DEF BestAttained, BestInv, Contracts, Settled, HasMove, MasterHasMove,
           SlaveHasMove
  <1>5. Accounted'
    BY DEF Accounted, Live, StopsEndLive, Holds, MasterHolds, SlaveHolds,
           HandedOutInv, CursorInList
  <1>6. AllHandedOut'
    BY DEF AllHandedOut, Live, StopsEndLive, CursorInList
  <1> QED BY <1>1, <1>2, <1>3, <1>4, <1>5, <1>6

LEMMA EndLoopKeepsResult ==
  ASSUME NullWindowNode, IInv, HandsInv, ResultInv,
         NEW s \in Slaves, EndLoop(s)
  PROVE  ResultInv'
  <1> USE DEF NullWindowNode, IInv, HandsInv, ResultInv, EndLoop, MayStart,
         TypeOK, NodeTypeOK, ThreadTypeOK, PoolTypeOK
  <1>1. StopsEndLive'
    BY DEF StopsEndLive, Live, BestInv, StopInv, Registered, NoneLeft
  <1>2. SlavesRun'
    BY DEF SlavesRun, StopsEndLive, Live, BestInv, Registered, StopInv,
           Searching
  <1>3. Contracts'
    BY DEF Contracts, Settled, BestInv, AboveAlpha, Exclusive, Holds,
           MasterHolds, SlaveHolds, HasMove, MasterHasMove, SlaveHasMove
  <1>4. BestAttained'
    BY DEF BestAttained, BestInv, Contracts, Settled, HasMove, MasterHasMove,
           SlaveHasMove
  <1>5. Accounted'
    <2>1. Live => move[s] = 0
      BY DEF Live, SlavesRun, StopInv, Searching, BestInv
    <2>2. \A u \in Threads : Holds(u) /\ u # s => Holds(u)' /\ move'[u] = move[u]
      BY DEF Holds, MasterHolds, SlaveHolds
    <2>3. Live => \A u \in Threads : Holds(u) => Holds(u)' /\ move'[u] = move[u]
      BY <2>1, <2>2 DEF Holds
    <2> QED BY <2>3 DEF Accounted, Live
  <1>6. AllHandedOut'
    BY DEF AllHandedOut, Live, StopsEndLive, CursorInList
  <1> QED BY <1>1, <1>2, <1>3, <1>4, <1>5, <1>6

LEMMA ReportKeepsResult ==
  ASSUME NullWindowNode, IInv, HandsInv, ResultInv,
         NEW s \in Slaves, Report(s)
  PROVE  ResultInv'
  <1> USE DEF NullWindowNode, IInv, HandsInv, ResultInv, Report, TakeScore,
         RaisedAlpha, Improves, NextMoveLockless, HandedOut, CanHandOut,
         MutexFree, TypeOK, NodeTypeOK, ThreadTypeOK, PoolTypeOK
  <1>1. StopsEndLive'
    BY DEF StopsEndLive, Live, BestInv, StopInv, Registered, NoneLeft
  <1>2. SlavesRun'
    <2>1. Live' => Live
      BY DEF Live, BestInv, HasMove, SlaveHasMove
    <2>2. \A u \in Slaves : state'[u] = state[u]
      OBVIOUS
    <2> QED BY SMTT(30), <2>1, <2>2 DEF SlavesRun
  <1>3. Contracts'
    <2>1. alpha' \in Int /\ alpha <= alpha'
      BY DEF HasMove, SlaveHasMove
    <2>2. ASSUME NEW u \in Threads PROVE base'[u] <= alpha'
      BY <2>1 DEF Contracts
    <2>3. ASSUME NEW u \in Threads PROVE Settled(u)'
      <3>1. CASE u = s
        BY <3>1 DEF Settled
      <3>2. CASE u # s /\ pc[u] \in {"compare", "report", "update"}
        <4>1. move'[u] = move[u] /\ pc'[u] = pc[u] /\ score' = score /\ value' = value
          BY <3>2
        <4>2. score[move[u]] \in Int
          BY <3>2, ScoresOfMoves
        <4>3. state'[u] = "RUNNING" => state[u] = "RUNNING"
          OBVIOUS
        <4> HIDE DEF Report
        <4>4. Settled(u) /\ alpha \in Int
          BY DEF Contracts
        <4> QED BY <3>2, <4>1, <4>2, <4>3, <4>4, <2>1 DEF Settled
      <3>3. CASE u # s /\ pc[u] \notin {"compare", "report", "update"}
        BY <3>3 DEF Settled
      <3> QED BY <3>1, <3>2, <3>3
    <2> QED BY <2>2, <2>3 DEF Contracts
  <1>4. BestAttained'
    BY DEF BestAttained, BestInv, Contracts, Settled, HasMove, MasterHasMove,
           SlaveHasMove
  <1>5. Accounted'
    <2>1. Live' => Live
      BY DEF Live, BestInv, HasMove, SlaveHasMove
    <2>2. /\ move[s] \in Moves /\ score[move[s]] \in Int
          /\ \A m \in Moves : value[m] \in Int
      BY ScoresOfMoves
    <2>8. /\ bestScore \in Int /\ bestScore' \in Int /\ bestScore <= bestScore'
          /\ nextMove \in 0 .. MoveCount
      BY <2>2
    <2>3. Live => state[s] = "RUNNING"
      BY DEF SlavesRun, StopInv, Searching
    <2>4. ASSUME Live' PROVE value[move[s]] <= bestScore'
      <3>1. /\ score[move[s]] <= bestScore' /\ bestScore' < Beta
            /\ bestScore' \in Int
        BY <2>1, <2>2, <2>8, <2>3, <2>4 DEF Live
      <3>2. value[move[s]] <= score[move[s]]
        BY <2>1, <2>2, <2>3, <2>4, <3>1 DEF Contracts, Settled
      <3> QED BY <2>2, <2>8, <3>1, <3>2
    <2>5. ASSUME Live', NEW m \in Moves
          PROVE  \/ nextMove' # 0 /\ m > nextMove'
                 \/ \E t \in Threads : Holds(t)' /\ move'[t] = m
                 \/ value[m] <= bestScore'
      <3>1. pc[Master] # "first"
        BY ReportHands DEF HandedOutInv
      <3> HIDE DEF Report
      <3>2. CASE nextMove # 0 /\ m > nextMove
        <4>1. nextMove' # 0
          BY <2>8, <3>2, CursorEnds
        <4>2. CASE nextMove' = nextMove
          BY <3>2, <4>1, <4>2
        <4>3. CASE nextMove' = nextMove + 1 /\ Holds(s)' /\ move'[s] = nextMove'
          BY <2>2, <2>8, <3>2, <4>1, <4>3
        <4> QED BY <4>1, <4>2, <4>3, ReportHands
      <3>3. CASE \E t \in Threads : Holds(t) /\ move[t] = m
        <4>1. PICK t \in Threads : Holds(t) /\ move[t] = m
          BY <3>3
        <4>2. CASE t = s
          BY <2>4, <2>5, <4>1, <4>2
        <4>3. CASE t # s
          <5> HIDE DEF NullWindowNode, IInv, HandsInv, ResultInv, TypeOK, NodeTypeOK,
                       ThreadTypeOK, PoolTypeOK
          <5>1. Holds(t)' /\ move'[t] = m
            BY <4>1, <4>3, ReportHands
          <5> QED BY <5>1
        <4> QED BY <4>2, <4>3
      <3>4. CASE value[m] <= bestScore
        BY <2>2, <2>8, <3>4
      <3> QED BY <2>1, <2>5, <3>1, <3>2, <3>3, <3>4 DEF Accounted
    <2>6. value' = value
      OBVIOUS
    <2> HIDE DEF Report
    <2> QED BY <2>5, <2>6 DEF Accounted
  <1>6. AllHandedOut'
    BY DEF AllHandedOut, Live, StopsEndLive, CursorInList
  <1> QED BY <1>1, <1>2, <1>3, <1>4, <1>5, <1>6

LEMMA DetachKeepsResult ==
  ASSUME NullWindowNode, IInv, HandsInv, ResultInv,
         NEW s \in Slaves, Detach(s)
  PROVE  ResultInv'
  <1> USE DEF NullWindowNode, IInv, HandsInv, ResultInv, Detach, TypeOK,
         NodeTypeOK, ThreadTypeOK, PoolTypeOK
  <1>1. StopsEndLive'
    BY DEF StopsEndLive, Live, BestInv, StopInv, Registered, NoneLeft
  <1>2. SlavesRun'
    BY DEF SlavesRun, StopsEndLive, Live, BestInv, Registered, StopInv,
           Searching
  <1>3. Contracts'
    BY DEF Contracts, Settled, BestInv, AboveAlpha, Exclusive, Holds,
           MasterHolds, SlaveHolds, HasMove, MasterHasMove, SlaveHasMove
  <1>4. BestAttained'
    BY DEF BestAttained, BestInv, Contracts, Settled, HasMove, MasterHasMove,
           SlaveHasMove
  <1>5. Accounted'
    BY DEF Accounted, Live, StopsEndLive, Holds, MasterHolds, SlaveHolds,
           HandedOutInv, CursorInList
  <1>6. AllHandedOut'
    BY DEF AllHandedOut, Live, StopsEndLive, CursorInList
  <1> QED BY <1>1, <1>2, <1>3, <1>4, <1>5, <1>6

LEMMA RemoveSlaveKeepsResult ==
  ASSUME NullWindowNode, IInv, HandsInv, ResultInv,
         NEW s \in Slaves, RemoveSlave(s)
  PROVE  ResultInv'
  <1> USE DEF NullWindowNode, IInv, HandsInv, ResultInv, RemoveSlave, TypeOK,
         NodeTypeOK, ThreadTypeOK, PoolTypeOK
  <1>1. StopsEndLive'
    BY DEF StopsEndLive, Live, BestInv, StopInv, Registered, NoneLeft
  <1>2. SlavesRun'
    BY DEF SlavesRun, StopsEndLive, Live, BestInv, Registered, StopInv,
           Searching
  <1>3. Contracts'
    BY DEF Contracts, Settled, BestInv, AboveAlpha, Exclusive, Holds,
           MasterHolds, SlaveHolds, HasMove, MasterHasMove, SlaveHasMove
  <1>4. BestAttained'
    BY DEF BestAttained, BestInv, Contracts, Settled, HasMove, MasterHasMove,
           SlaveHasMove
  <1>5. Accounted'
    BY DEF Accounted, Live, StopsEndLive, Holds, MasterHolds, SlaveHolds,
           HandedOutInv, CursorInList
  <1>6. AllHandedOut'
    BY DEF AllHandedOut, Live, StopsEndLive, CursorInList
  <1> QED BY <1>1, <1>2, <1>3, <1>4, <1>5, <1>6

LEMMA LeaveKeepsResult ==
  ASSUME NullWindowNode, IInv, HandsInv, ResultInv,
         NEW s \in Slaves, Leave(s)
  PROVE  ResultInv'
  <1> USE DEF NullWindowNode, IInv, HandsInv, ResultInv, Leave, PutIdleWorker,
         TypeOK, NodeTypeOK, ThreadTypeOK, PoolTypeOK
  <1>1. StopsEndLive'
    BY DEF StopsEndLive, Live, BestInv, StopInv, Registered, NoneLeft
  <1>2. SlavesRun'
    BY DEF SlavesRun, StopsEndLive, Live, BestInv, Registered, StopInv,
           Searching
  <1>3. Contracts'
    BY DEF Contracts, Settled, BestInv, AboveAlpha, Exclusive, Holds,
           MasterHolds, SlaveHolds, HasMove, MasterHasMove, SlaveHasMove
  <1>4. BestAttained'
    BY DEF BestAttained, BestInv, Contracts, Settled, HasMove, MasterHasMove,
           SlaveHasMove
  <1>5. Accounted'
    BY DEF Accounted, Live, StopsEndLive, Holds, MasterHolds, SlaveHolds,
           HandedOutInv, CursorInList
  <1>6. AllHandedOut'
    BY DEF AllHandedOut, Live, StopsEndLive, CursorInList
  <1> QED BY <1>1, <1>2, <1>3, <1>4, <1>5, <1>6

LEMMA ParkKeepsResult ==
  ASSUME NullWindowNode, IInv, HandsInv, ResultInv,
         NEW s \in Slaves, Park(s)
  PROVE  ResultInv'
  <1> USE DEF NullWindowNode, IInv, HandsInv, ResultInv, Park, TypeOK,
         NodeTypeOK, ThreadTypeOK, PoolTypeOK
  <1>1. StopsEndLive'
    BY DEF StopsEndLive, Live, BestInv, StopInv, Registered, NoneLeft
  <1>2. SlavesRun'
    BY DEF SlavesRun, StopsEndLive, Live, BestInv, Registered, StopInv,
           Searching
  <1>3. Contracts'
    BY DEF Contracts, Settled, BestInv, AboveAlpha, Exclusive, Holds,
           MasterHolds, SlaveHolds, HasMove, MasterHasMove, SlaveHasMove
  <1>4. BestAttained'
    BY DEF BestAttained, BestInv, Contracts, Settled, HasMove, MasterHasMove,
           SlaveHasMove
  <1>5. Accounted'
    BY DEF Accounted, Live, StopsEndLive, Holds, MasterHolds, SlaveHolds,
           HandedOutInv, CursorInList
  <1>6. AllHandedOut'
    BY DEF AllHandedOut, Live, StopsEndLive, CursorInList
  <1> QED BY <1>1, <1>2, <1>3, <1>4, <1>5, <1>6

LEMMA AskHelpKeepsResult ==
  ASSUME NullWindowNode, IInv, HandsInv, ResultInv,
         NEW s \in Slaves, AskHelp(s)
  PROVE  ResultInv'
  <1> USE DEF NullWindowNode, IInv, HandsInv, ResultInv, AskHelp, TypeOK,
         NodeTypeOK, ThreadTypeOK, PoolTypeOK
  <1>1. StopsEndLive'
    BY DEF StopsEndLive, Live, BestInv, StopInv, Registered, NoneLeft
  <1>2. SlavesRun'
    BY DEF SlavesRun, StopsEndLive, Live, BestInv, Registered, StopInv,
           Searching
  <1>3. Contracts'
    BY DEF Contracts, Settled, BestInv, AboveAlpha, Exclusive, Holds,
           MasterHolds, SlaveHolds, HasMove, MasterHasMove, SlaveHasMove
  <1>4. BestAttained'
    BY DEF BestAttained, BestInv, Contracts, Settled, HasMove, MasterHasMove,
           SlaveHasMove
  <1>5. Accounted'
    BY DEF Accounted, Live, StopsEndLive, Holds, MasterHolds, SlaveHolds,
           HandedOutInv, CursorInList
  <1>6. AllHandedOut'
    BY DEF AllHandedOut, Live, StopsEndLive, CursorInList
  <1> QED BY <1>1, <1>2, <1>3, <1>4, <1>5, <1>6

LEMMA NullWindowReturnsKeepsResult ==
  ASSUME NullWindowNode, IInv, HandsInv, ResultInv,
         NEW t \in Threads, NullWindowReturns(t)
  PROVE  ResultInv'
  <1> USE DEF NullWindowNode, IInv, HandsInv, ResultInv, NullWindowReturns,
         WindowScores, NullWindowScores, TypeOK, NodeTypeOK, ThreadTypeOK,
         PoolTypeOK
  <1>1. StopsEndLive'
    BY DEF StopsEndLive, Live, BestInv, StopInv, Registered, NoneLeft
  <1>2. SlavesRun'
    BY DEF SlavesRun, StopsEndLive, Live, BestInv, Registered, StopInv,
           Searching
  <1>3. Contracts'
    <2>1. Holds(t) /\ move[t] \in Moves
      BY DEF Holds, MasterHolds, SlaveHolds, HasMove, MasterHasMove, SlaveHasMove
    <2>2. Settled(t)'
      <3>1. state[t] = "RUNNING" =>
              /\ score'[move[t]] < base[t] + 1 => value[move[t]] <= score'[move[t]]
              /\ score'[move[t]] > base[t] => score'[move[t]] <= value[move[t]]
        BY <2>1
      <3>2. Alpha <= base[t] /\ base[t] <= alpha /\ Beta = Alpha + 1
        BY DEF AboveAlpha, Contracts
      <3>3. score'[move[t]] \in Int /\ base[t] \in Int
        BY <2>1
      <3> QED BY <3>1, <3>2, <3>3 DEF Settled
    <2>3. ASSUME NEW u \in Threads \ {t} PROVE Settled(u)'
      <3>1. CASE Holds(u)
        <4>1. move[u] # move[t]
          BY <2>1, <3>1 DEF Exclusive
        <4>2. pc[u] \in {"compare", "report", "update"} => move[u] \in Moves
          BY ScoresOfMoves
        <4>3. pc[u] \in {"compare", "report", "update"} =>
                score'[move[u]] = score[move[u]]
          BY <2>1, <4>1, <4>2
        <4> QED BY <4>3 DEF Settled, Contracts
      <3>2. CASE ~Holds(u)
        BY <3>2 DEF Settled, Holds, MasterHolds, SlaveHolds, HasMove, SlaveHasMove
      <3> QED BY <3>1, <3>2
    <2> QED BY <2>2, <2>3 DEF Contracts
  <1>4. BestAttained'
    BY DEF BestAttained, BestInv, Contracts, Settled, HasMove, MasterHasMove,
           SlaveHasMove
  <1>5. Accounted'
    BY DEF Accounted, Live, StopsEndLive, Holds, MasterHolds, SlaveHolds,
           HandedOutInv, CursorInList
  <1>6. AllHandedOut'
    BY DEF AllHandedOut, Live, StopsEndLive, CursorInList
  <1> QED BY <1>1, <1>2, <1>3, <1>4, <1>5, <1>6

LEMMA ReSearchKeepsResult ==
  ASSUME NullWindowNode, IInv, HandsInv, ResultInv,
         NEW t \in Threads, ReSearch(t)
  PROVE  ResultInv'
  <1> USE DEF NullWindowNode, IInv, HandsInv, ResultInv, ReSearch, InWindow,
         TypeOK, NodeTypeOK, ThreadTypeOK, PoolTypeOK
  <1>1. StopsEndLive'
    BY DEF StopsEndLive, Live, BestInv, StopInv, Registered, NoneLeft
  <1>2. SlavesRun'
    BY DEF SlavesRun, StopsEndLive, Live, BestInv, Registered, StopInv,
           Searching
  <1>3. Contracts'
    BY DEF Contracts, Settled, BestInv, AboveAlpha, Exclusive, Holds,
           MasterHolds, SlaveHolds, HasMove, MasterHasMove, SlaveHasMove
  <1>4. BestAttained'
    BY DEF BestAttained, BestInv, Contracts, Settled, HasMove, MasterHasMove,
           SlaveHasMove
  <1>5. Accounted'
    BY DEF Accounted, Live, StopsEndLive, Holds, MasterHolds, SlaveHolds,
           HandedOutInv, CursorInList
  <1>6. AllHandedOut'
    BY DEF AllHandedOut, Live, StopsEndLive, CursorInList
  <1> QED BY <1>1, <1>2, <1>3, <1>4, <1>5, <1>6

LEMMA KeepScoreKeepsResult ==
  ASSUME NullWindowNode, IInv, HandsInv, ResultInv,
         NEW t \in Threads, KeepScore(t)
  PROVE  ResultInv'
  <1> USE DEF NullWindowNode, IInv, HandsInv, ResultInv, KeepScore, InWindow,
         TypeOK, NodeTypeOK, ThreadTypeOK, PoolTypeOK
  <1>1. StopsEndLive'
    BY DEF StopsEndLive, Live, BestInv, StopInv, Registered, NoneLeft
  <1>2. SlavesRun'
    BY DEF SlavesRun, StopsEndLive, Live, BestInv, Registered, StopInv,
           Searching
  <1>3. Contracts'
    BY DEF Contracts, Settled, BestInv, AboveAlpha, Exclusive, Holds,
           MasterHolds, SlaveHolds, HasMove, MasterHasMove, SlaveHasMove
  <1>4. BestAttained'
    BY DEF BestAttained, BestInv, Contracts, Settled, HasMove, MasterHasMove,
           SlaveHasMove
  <1>5. Accounted'
    BY DEF Accounted, Live, StopsEndLive, Holds, MasterHolds, SlaveHolds,
           HandedOutInv, CursorInList
  <1>6. AllHandedOut'
    BY DEF AllHandedOut, Live, StopsEndLive, CursorInList
  <1> QED BY <1>1, <1>2, <1>3, <1>4, <1>5, <1>6

LEMMA ReSearchReturnsKeepsResult ==
  ASSUME NullWindowNode, IInv, HandsInv, ResultInv,
         NEW t \in Threads, ReSearchReturns(t)
  PROVE  ResultInv'
  <1> USE DEF NullWindowNode, IInv, HandsInv, ResultInv, ReSearchReturns,
         WindowScores, ReSearchScore, TypeOK, NodeTypeOK, ThreadTypeOK,
         PoolTypeOK
  <1>1. StopsEndLive'
    BY DEF StopsEndLive, Live, BestInv, StopInv, Registered, NoneLeft
  <1>2. SlavesRun'
    BY DEF AboveAlpha
  <1>3. Contracts'
    BY DEF Contracts, Settled, BestInv, AboveAlpha, Exclusive, Holds,
           MasterHolds, SlaveHolds, HasMove, MasterHasMove, SlaveHasMove
  <1>4. BestAttained'
    BY DEF BestAttained, BestInv, Contracts, Settled, HasMove, MasterHasMove,
           SlaveHasMove
  <1>5. Accounted'
    BY DEF Accounted, Live, StopsEndLive, Holds, MasterHolds, SlaveHolds,
           HandedOutInv, CursorInList
  <1>6. AllHandedOut'
    BY DEF AllHandedOut, Live, StopsEndLive, CursorInList
  <1> QED BY <1>1, <1>2, <1>3, <1>4, <1>5, <1>6

LEMMA InnerCutKeepsResult ==
  ASSUME NullWindowNode, IInv, HandsInv, ResultInv,
         NEW t \in Threads, InnerCut(t)
  PROVE  ResultInv'
  <1> USE DEF NullWindowNode, IInv, HandsInv, ResultInv, InnerCut, TypeOK,
         NodeTypeOK, ThreadTypeOK, PoolTypeOK
  <1>1. StopsEndLive'
    BY DEF StopsEndLive, Live, BestInv, StopInv, Registered, NoneLeft
  <1>2. SlavesRun'
    BY DEF SlavesRun, StopsEndLive, Live, BestInv, Registered, StopInv,
           Searching
  <1>3. Contracts'
    BY DEF Contracts, Settled, BestInv, AboveAlpha, Exclusive, Holds,
           MasterHolds, SlaveHolds, HasMove, MasterHasMove, SlaveHasMove
  <1>4. BestAttained'
    BY DEF BestAttained, BestInv, Contracts, Settled, HasMove, MasterHasMove,
           SlaveHasMove
  <1>5. Accounted'
    BY DEF Accounted, Live, StopsEndLive, Holds, MasterHolds, SlaveHolds,
           HandedOutInv, CursorInList
  <1>6. AllHandedOut'
    BY DEF AllHandedOut, Live, StopsEndLive, CursorInList
  <1> QED BY <1>1, <1>2, <1>3, <1>4, <1>5, <1>6

LEMMA InnerResumeKeepsResult ==
  ASSUME NullWindowNode, IInv, HandsInv, ResultInv,
         NEW t \in Threads, InnerResume(t)
  PROVE  ResultInv'
  <1> USE DEF NullWindowNode, IInv, HandsInv, ResultInv, InnerResume, TypeOK,
         NodeTypeOK, ThreadTypeOK, PoolTypeOK
  <1>1. StopsEndLive'
    BY DEF StopsEndLive, Live, BestInv, StopInv, Registered, NoneLeft
  <1>2. SlavesRun'
    <2>1. t # Master /\ (Live' => Live)
      BY DEF StopsEndLive, Live
    <2> QED BY <2>1 DEF SlavesRun
  <1>3. Contracts'
    <2>1. \A u \in Threads :
            pc[u] \in {"compare", "report", "update"} => state'[u] = state[u]
      BY DEF StopInv, Searching
    <2> QED BY ZenonT(30), <2>1 DEF Contracts, Settled
  <1>4. BestAttained'
    BY DEF BestAttained, BestInv, Contracts, Settled, HasMove, MasterHasMove,
           SlaveHasMove
  <1>5. Accounted'
    BY DEF Accounted, Live, StopsEndLive, Holds, MasterHolds, SlaveHolds,
           HandedOutInv, CursorInList
  <1>6. AllHandedOut'
    BY DEF AllHandedOut, Live, StopsEndLive, CursorInList
  <1> QED BY <1>1, <1>2, <1>3, <1>4, <1>5, <1>6

-----------------------------------------------------------------------------
(* ResultInv is inductive relative to IInv and HandsInv in such a node.     *)
LEMMA ResultInitially == NullWindowNode /\ Init => ResultInv
  <1> SUFFICES ASSUME NullWindowNode, Init PROVE ResultInv
    OBVIOUS
  <1>1. StopsEndLive /\ SlavesRun
    BY DEF Init, StopsEndLive, SlavesRun
  <1>2. Contracts
    BY DEF Init, Contracts, Settled
  <1>3. BestAttained /\ Accounted /\ AllHandedOut
    BY DEF Init, BestAttained, Accounted, AllHandedOut
  <1> QED BY <1>1, <1>2, <1>3 DEF ResultInv

LEMMA ResultStep ==
  NullWindowNode /\ IInv /\ HandsInv /\ ResultInv /\ [Next]_vars => ResultInv'
  <1> SUFFICES ASSUME NullWindowNode, IInv, HandsInv, ResultInv, [Next]_vars
               PROVE  ResultInv'
    OBVIOUS
  <1>1. CASE MasterStep
    BY <1>1, FirstMoveKeepsResult, FirstMoveStoppedKeepsResult,
       FirstSearchReturnsKeepsResult, UpdateKeepsResult, NextMoveKeepsResult,
       ReadAlphaKeepsResult, NoSplitKeepsResult, AssignKeepsResult,
       AddSlaveKeepsResult, NothingToWaitForKeepsResult, StartWaitingKeepsResult,
       WakeUpKeepsResult, HelpKeepsResult, HelpSearchedKeepsResult,
       HelpEndsKeepsResult, StoreKeepsResult, TakeSlaveKeepsResult,
       NullWindowReturnsKeepsResult, ReSearchKeepsResult, KeepScoreKeepsResult,
       ReSearchReturnsKeepsResult DEF MasterStep
  <1>2. ASSUME NEW s \in Slaves, SlaveStep(s) PROVE ResultInv'
    BY <1>2, ReadMasterStateKeepsResult, SetStateKeepsResult,
       StartMoveKeepsResult, EndLoopKeepsResult, ReportKeepsResult,
       DetachKeepsResult, RemoveSlaveKeepsResult, LeaveKeepsResult,
       ParkKeepsResult, NullWindowReturnsKeepsResult, ReSearchKeepsResult,
       KeepScoreKeepsResult, ReSearchReturnsKeepsResult DEF SlaveStep
  <1>3. CASE Surroundings
    BY <1>3, ParentStopKeepsResult, ParentStopsChildrenKeepsResult,
       AskHelpKeepsResult, InnerCutKeepsResult, InnerResumeKeepsResult
    DEF Surroundings
  <1>4. CASE UNCHANGED vars
    BY <1>4 DEF vars, ResultInv, StopsEndLive, SlavesRun, Contracts, Settled,
                BestAttained, Accounted, AllHandedOut, Live, Holds
  <1> QED BY <1>1, <1>2, <1>3, <1>4 DEF Next, Terminated

-----------------------------------------------------------------------------
(* Who holds which move, what the best move and a stop mean: invariant in   *)
(* every reachable state (node.cpp:52-76, worker.cpp:79-134).               *)
THEOREM HandsAndStops == Spec => []HandsInv
<1>1. Init => HandsInv
  BY HandsInitially
<1>2. IInv /\ HandsInv /\ [Next]_vars => HandsInv'
  BY HandsStep
<1> QED
  BY <1>1, <1>2, Inductive, PTL DEF Spec

(* No move is searched by two threads at once, but for the master's and     *)
(* that of the helper it gave the move to (node.cpp:52-63, 171).            *)
THEOREM MovesExclusive == Spec => []MoveExclusive
<1>1. IInv /\ HandsInv => MoveExclusive
  <2> SUFFICES ASSUME IInv, HandsInv PROVE MoveExclusive
    OBVIOUS
  <2>1. ASSUME NEW t \in Searching PROVE t \in Threads /\ Holds(t)
    <3>1. t \in Threads /\ pc[t] \in {"firstSearch", "nullWindow", "reSearch"}
      BY DEF Searching
    <3>2. CASE t = Master
      BY <3>1, <3>2 DEF Holds, MasterHolds
    <3>3. CASE t \in Slaves
      <4>1. pc[t] \in SlavePC
        BY <3>3 DEF IInv, TypeOK, ThreadTypeOK
      <4>2. pc[t] \in {"nullWindow", "reSearch"} /\ t # Master
        BY <3>1, <3>3, <4>1
      <4>3. move[t] # 0
        BY <3>3, <4>2 DEF IInv, HasMove, SlaveHasMove
      <4> QED BY <3>1, <4>2, <4>3 DEF Holds, SlaveHolds
    <3> QED BY <3>1, <3>2, <3>3
  <2> QED BY <2>1 DEF HandsInv, Exclusive, MoveExclusive
<1> QED
  BY <1>1, Inductive, HandsAndStops, PTL

(* A stop that a slave ordered at this node ends with this node             *)
(* (node.cpp:112-133, worker.cpp:106-125).                                  *)
THEOREM StopPointsEnd == Spec => []StopPointEnds
<1>1. HandsInv => StopPointEnds
  BY DEF HandsInv, StopInv, StopPointEnds
<1> QED
  BY <1>1, HandsAndStops, PTL

(* alpha, best score and best move go together (node.cpp:68-76,             *)
(* worker.cpp:106-114).                                                     *)
THEOREM BestIsConsistent == Spec => []BestConsistent
<1>1. HandsInv => BestConsistent
  BY DEF HandsInv, BestInv, BestConsistent
<1> QED
  BY <1>1, HandsAndStops, PTL

(* Why the stored result is right: nobody holds a move any more, the cursor *)
(* is at the end, so every move is bounded.                                 *)
LEMMA StoredIsSound ==
  ASSUME IInv, HandsInv, ResultInv
  PROVE  ResultSound
  <1> SUFFICES ASSUME pc[Master] = "stored"
               PROVE  /\ bestScore < Beta => \A m \in Moves : value[m] <= bestScore
                      /\ bestScore > Alpha => \E m \in Moves : bestScore <= value[m]
    BY DEF ResultSound
  <1>1. ASSUME bestScore < Beta PROVE \A m \in Moves : value[m] <= bestScore
    <2>1. Live
      BY <1>1 DEF ResultInv, StopsEndLive, Live
    <2>2. nextMove = 0
      BY <2>1 DEF ResultInv, AllHandedOut
    <2>3. slaves = {}
      BY DEF IInv, NoneLeft, Final
    <2>4. \A t \in Threads : ~(Holds(t) /\ move[t] \in Moves)
      <3>1. ~Holds(Master)
        BY DEF Holds, MasterHolds
      <3>2. ASSUME NEW s \in Slaves, Holds(s) PROVE FALSE
        <4>1. s # Master /\ pc[s] \in SlaveHolds
          BY <3>2 DEF Holds
        <4>2. pc[s] = "locked"
          BY <2>3, <4>1 DEF IInv, Registered, SlaveHolds
        <4> QED BY <4>2, <2>3 DEF IInv, Registered, Hand
      <3> QED BY <3>1, <3>2
    <2>5. \A m \in Moves :
            (\E t \in Threads : Holds(t) /\ move[t] = m) \/ value[m] <= bestScore
      BY <2>1, <2>2 DEF ResultInv, Accounted
    <2> QED BY <2>4, <2>5
  <1>2. ASSUME bestScore > Alpha PROVE \E m \in Moves : bestScore <= value[m]
    <2>1. bestMove # 0 /\ bestScore <= value[bestMove]
      BY <1>2 DEF ResultInv, BestAttained
    <2>2. bestMove \in Moves
      BY <2>1 DEF IInv, TypeOK, NodeTypeOK
    <2> QED BY <2>1, <2>2
  <1> QED BY <1>1, <1>2

(* The result of a null-window node that reaches the transposition table is *)
(* the alpha-beta result of the node (search.cpp:117-173).                  *)
THEOREM ResultIsSound == Spec => [](NullWindowNode => ResultSound)
<1> DEFINE RInv == NullWindowNode => ResultInv
<1>1. Init => RInv
  BY ResultInitially
<1>2. IInv /\ HandsInv /\ RInv /\ [Next]_vars => RInv'
  <2> SUFFICES ASSUME IInv, HandsInv, RInv, [Next]_vars, NullWindowNode'
               PROVE  ResultInv'
    OBVIOUS
  <2>1. NullWindowNode
    BY DEF NullWindowNode
  <2> QED BY <2>1, ResultStep
<1>3. IInv /\ HandsInv /\ RInv => (NullWindowNode => ResultSound)
  BY StoredIsSound
<1> HIDE DEF RInv
<1> QED
  BY <1>1, <1>2, <1>3, Inductive, HandsAndStops, PTL DEF Spec
=============================================================================
