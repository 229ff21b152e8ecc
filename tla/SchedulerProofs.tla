--------------------------- MODULE SchedulerProofs ---------------------------
(***************************************************************************)
(* Proofs about Scheduler, for any number of workers and of jobs, waited    *)
(* for or not.                                                              *)
(***************************************************************************)
EXTENDS Scheduler, TLAPS, FiniteSetTheorems

ClientPC == {"init", "awaitMonitor", "dispatch", "run", "wait", "waitOnWorker",
             "spin", "stopWorkers", "joinMonitor", "exited"}
MonitorPC == {"new", "starting", "top", "asleep", "scan", "run", "exited"}
WorkerPC == {"new", "starting", "top", "asleep", "execute", "done", "clear",
             "finish", "offer", "exited"}

(* Every thread is at a place of its own code; the client waits while the   *)
(* monitor starts.                                                          *)
Labels ==
  /\ pc \in [Threads -> ClientPC \cup MonitorPC \cup WorkerPC]
  /\ pc[Client] \in ClientPC /\ pc[Monitor] \in MonitorPC
  /\ \A w \in Workers : pc[w] \in WorkerPC
  /\ pc[Monitor] = "starting" => pc[Client] = "awaitMonitor"

(* Who is about to call Run has a worker and a job for it; the client waits *)
(* for a job, and may know its worker.                                      *)
Given ==
  /\ \A t \in {Client, Monitor} :
       pc[t] = "run" => given[t].worker \in Workers /\ given[t].job \in Jobs
  /\ pc[Client] \in {"wait", "waitOnWorker", "spin"} => given[Client].job \in Jobs

(* A worker works on a job.                                                 *)
AtWork == {"execute", "done", "clear", "finish"}
HasJob == \A w \in Workers : pc[w] \in AtWork => job[w] # NoJob

(* x is in the queue s; no one is in it twice.                              *)
In(x, s) == \E i \in DOMAIN s : s[i] = x
Once(s) == \A i, k \in DOMAIN s : s[i] = s[k] => i = k

(* The places of Places(w), one by one.                                     *)
Gets(t, w) == pc[t] = "run" /\ given[t].worker = w
Holds(w)   == job[w] # NoJob
Offers(w)  == pc[w] = "offer"
Queued(w)  == In(w, free)

(* A worker is in one place at a time, and once in the queue; out of them   *)
(* all it is not busy, unless it was stopped.                               *)
OnePlace ==
  \A w \in Workers :
    /\ Gets(Client, w) =>
         ~Gets(Monitor, w) /\ ~Holds(w) /\ ~Offers(w) /\ ~Queued(w)
    /\ Gets(Monitor, w) => ~Holds(w) /\ ~Offers(w) /\ ~Queued(w)
    /\ Holds(w) => ~Offers(w) /\ ~Queued(w)
    /\ Offers(w) => ~Queued(w)

Occupied(w) ==
  Gets(Client, w) \/ Gets(Monitor, w) \/ Holds(w) \/ Offers(w) \/ Queued(w)
BusyInv ==
  \A w \in Workers :
    /\ Occupied(w) => w \in busy
    /\ w \in busy /\ ~workerStopped[w] => Occupied(w)

(* The hands of Hands(j), one by one.                                       *)
Brings(t, j) == pc[t] = "run" /\ given[t].job = j
Pending(j)   == In(j, pending)
Held(j)      == \E w \in Workers : job[w] = j

OneHand ==
  \A j \in Jobs :
    /\ Brings(Client, j) => ~Brings(Monitor, j) /\ ~Pending(j) /\ ~Held(j)
    /\ Brings(Monitor, j) => ~Pending(j) /\ ~Held(j)
    /\ Pending(j) => ~Held(j)
HeldOnce == \A v, w \in Workers : job[v] # NoJob /\ job[v] = job[w] => v = w

InHand(j) == Brings(Client, j) \/ Brings(Monitor, j) \/ Pending(j) \/ Held(j)

(* How far a job is: ran and done tell where its worker is in Execute.      *)
Fresh(j) == ran[j] = 0 /\ ~done[j]
Progress ==
  \A j \in Jobs :
    /\ j \in todo => ~InHand(j) /\ Fresh(j)
    /\ j \notin todo /\ ~InHand(j) => done[j]
    /\ Brings(Client, j) \/ Brings(Monitor, j) \/ Pending(j) => Fresh(j)
    /\ done[j] => ran[j] = 1
    /\ j \in deleted => done[j]
Executing ==
  \A w \in Workers : job[w] # NoJob =>
    CASE pc[w] \in {"clear", "finish"} -> done[job[w]]
      [] pc[w] = "done" -> ran[job[w]] = 1 /\ ~done[job[w]]
      [] OTHER -> Fresh(job[w])

QueueOnlyWhenBusy == pending # <<>> => Idle = {}

IInv == /\ TypeOK /\ Labels /\ Given /\ HasJob /\ OnePlace /\ Once(free) /\ BusyInv
        /\ OneHand /\ Once(pending) /\ HeldOnce /\ Progress /\ Executing
        /\ QueueOnlyWhenBusy

-----------------------------------------------------------------------------
(* Queues.                                                                  *)

LEMMA NoneInEmpty == \A x : ~In(x, <<>>)
  BY DEF In

LEMMA OnceEmpty == Once(<<>>)
  BY DEF Once

LEMMA InAppend ==
  ASSUME NEW S, NEW s \in Seq(S), NEW e \in S, NEW x
  PROVE  In(x, Append(s, e)) <=> x = e \/ In(x, s)
  <1> DEFINE q == Append(s, e)
  <1>1. /\ q \in Seq(S) /\ Len(q) = Len(s) + 1 /\ Len(s) \in Nat
        /\ q[Len(q)] = e /\ \A i \in 1 .. Len(s) : q[i] = s[i]
    OBVIOUS
  <1>2. DOMAIN q = 1 .. Len(s) + 1 /\ DOMAIN s = 1 .. Len(s)
    BY <1>1
  <1> HIDE DEF q
  <1>3. ASSUME In(x, q) PROVE x = e \/ In(x, s)
    BY <1>1, <1>2, <1>3 DEF In
  <1>4. ASSUME x = e \/ In(x, s) PROVE In(x, q)
    <2>1. CASE x = e
      BY <1>1, <1>2, <2>1 DEF In
    <2>2. CASE In(x, s)
      BY <1>1, <1>2, <2>2 DEF In
    <2> QED BY <1>4, <2>1, <2>2
  <1> QED BY <1>3, <1>4 DEF q

LEMMA OnceAppend ==
  ASSUME NEW S, NEW s \in Seq(S), NEW e \in S, Once(s), ~In(e, s)
  PROVE  Once(Append(s, e))
  BY DEF In, Once

LEMMA InTail ==
  ASSUME NEW S, NEW s \in Seq(S), s # <<>>, Once(s), NEW x
  PROVE  In(x, Tail(s)) <=> In(x, s) /\ x # Head(s)
  <1> DEFINE q == Tail(s)
  <1>1. /\ q \in Seq(S) /\ Len(q) = Len(s) - 1 /\ Len(s) \in Nat \ {0}
        /\ Head(s) = s[1] /\ \A i \in 1 .. Len(s) - 1 : q[i] = s[i + 1]
    OBVIOUS
  <1>2. DOMAIN q = 1 .. Len(s) - 1 /\ DOMAIN s = 1 .. Len(s)
    BY <1>1
  <1> HIDE DEF q
  <1>3. ASSUME In(x, q) PROVE In(x, s) /\ x # Head(s)
    <2>1. PICK i \in 1 .. Len(s) - 1 : q[i] = x
      BY <1>2, <1>3 DEF In
    <2>2. s[i + 1] = x /\ i + 1 \in 1 .. Len(s) /\ i + 1 # 1 /\ 1 \in 1 .. Len(s)
      BY <1>1, <2>1
    <2> QED BY <1>1, <1>2, <2>2 DEF In, Once
  <1>4. ASSUME In(x, s), x # Head(s) PROVE In(x, q)
    <2>1. PICK i \in 1 .. Len(s) : s[i] = x
      BY <1>2, <1>4 DEF In
    <2>2. i - 1 \in 1 .. Len(s) - 1 /\ q[i - 1] = x
      BY <1>1, <1>4, <2>1
    <2> QED BY <1>2, <2>2 DEF In
  <1> QED BY <1>3, <1>4 DEF q

LEMMA OnceTail ==
  ASSUME NEW S, NEW s \in Seq(S), s # <<>>, Once(s)
  PROVE  Once(Tail(s))
  BY DEF Once

LEMMA InHead ==
  ASSUME NEW S, NEW s \in Seq(S), s # <<>>
  PROVE  Head(s) \in S /\ Tail(s) \in Seq(S) /\ In(Head(s), s)
  BY DEF In

-----------------------------------------------------------------------------
(* Locks.                                                                   *)

USE PoolAssumption
  DEF Threads, schedulerVars, workerVars, jobVars, clientVars, vars, Goto, Nothing,
      ClientPC, MonitorPC, WorkerPC

(* The worker w goes to a label and has its own mutex there or not.         *)
Moves(w, label) ==
  /\ pc[w] \notin {"new", "starting"} /\ label \in WorkerPC
  /\ Goto(w, label)
  /\ mutex' = mutex
  /\ workerMutex' \in [Workers -> Workers \cup {NoOne}]
  /\ \A v \in Workers \ {w} : workerMutex'[v] = workerMutex[v]
  /\ workerMutex'[w] = IF label \in AtWork \cup {"offer"} THEN w ELSE NoOne

LEMMA WorkerMoves ==
  ASSUME TypeOK, Labels, NEW w \in Workers, NEW label, Moves(w, label)
  PROVE  /\ mutex' = IF pc'[Monitor] \in {"scan", "run"} THEN Monitor ELSE NoOne
         /\ workerMutex' = [v \in Workers |->
              IF pc'[v] \in {"execute", "done", "clear", "finish", "offer"}
              THEN v ELSE NoOne]
         /\ pc' \in [Threads -> {"init", "awaitMonitor", "dispatch", "run", "wait",
                         "waitOnWorker", "spin", "stopWorkers", "joinMonitor",
                         "exited", "new", "starting", "top", "asleep", "scan",
                         "execute", "done", "clear", "finish", "offer"}]
         /\ Labels'
  <1>1. /\ pc'[Monitor] = pc[Monitor] /\ pc'[Client] = pc[Client] /\ pc'[w] = label
        /\ \A v \in Workers \ {w} : pc'[v] = pc[v]
    BY DEF Moves, TypeOK
  <1>2. \A v \in Workers : workerMutex'[v] =
          IF pc'[v] \in {"execute", "done", "clear", "finish", "offer"} THEN v ELSE NoOne
    BY <1>1 DEF Moves, TypeOK, AtWork
  <1>3. workerMutex' = [v \in Workers |-> workerMutex'[v]]
    BY DEF Moves, TypeOK
  <1>4. Labels'
    BY <1>1 DEF Moves, Labels
  <1>5. pc' \in [Threads -> {"init", "awaitMonitor", "dispatch", "run", "wait",
                         "waitOnWorker", "spin", "stopWorkers", "joinMonitor",
                         "exited", "new", "starting", "top", "asleep", "scan",
                         "execute", "done", "clear", "finish", "offer"}]
    BY DEF Moves, TypeOK
  <1>6. mutex' = IF pc'[Monitor] \in {"scan", "run"} THEN Monitor ELSE NoOne
    BY <1>1 DEF Moves, TypeOK
  <1> HIDE DEF Goto
  <1> QED BY <1>2, <1>3, <1>4, <1>5, <1>6

-----------------------------------------------------------------------------
(* Each action keeps the invariant: the client's, the monitor's, a worker's.*)

LEMMA StartWorkerKeeps ==
  ASSUME IInv, NEW w \in Workers, StartWorker(w)
  PROVE  IInv'
  <1> USE DEF IInv, StartWorker, TypeOK, Labels, Given, HasJob, AtWork
  <1>1. (TypeOK /\ Labels)'
    OBVIOUS
  <1>2. (Given /\ HasJob)'
    OBVIOUS
  <1>3. (OnePlace /\ BusyInv)'
    BY DEF OnePlace, BusyInv, Occupied, Gets, Holds, Offers, Queued
  <1>4. (OneHand /\ HeldOnce)'
    BY DEF OnePlace, Gets, Holds, OneHand, HeldOnce, Progress, InHand, Brings,
           Pending, Held
  <1>5. Progress'
    BY DEF OnePlace, Gets, Holds, OneHand, HeldOnce, Progress, Executing, Fresh,
           InHand, Brings, Pending, Held
  <1>6. Executing'
    BY DEF OnePlace, Gets, Holds, OneHand, HeldOnce, Progress, Executing, Fresh,
           InHand, Brings, Pending, Held
  <1>7. (Once(free) /\ Once(pending) /\ QueueOnlyWhenBusy)'
    BY DEF QueueOnlyWhenBusy, Idle
  <1> QED BY <1>1, <1>2, <1>3, <1>4, <1>5, <1>6, <1>7

LEMMA StartMonitorKeeps ==
  ASSUME IInv, StartMonitor
  PROVE  IInv'
  <1> USE DEF IInv, StartMonitor, TypeOK, Labels, Given, HasJob, AtWork
  <1>1. (TypeOK /\ Labels)'
    OBVIOUS
  <1>2. (Given /\ HasJob)'
    OBVIOUS
  <1>3. (OnePlace /\ BusyInv)'
    BY DEF OnePlace, BusyInv, Occupied, Gets, Holds, Offers, Queued
  <1>4. (OneHand /\ HeldOnce)'
    BY DEF OnePlace, Gets, Holds, OneHand, HeldOnce, Progress, InHand, Brings,
           Pending, Held
  <1>5. Progress'
    BY DEF OnePlace, Gets, Holds, OneHand, HeldOnce, Progress, Executing, Fresh,
           InHand, Brings, Pending, Held
  <1>6. Executing'
    BY DEF OnePlace, Gets, Holds, OneHand, HeldOnce, Progress, Executing, Fresh,
           InHand, Brings, Pending, Held
  <1>7. (Once(free) /\ Once(pending) /\ QueueOnlyWhenBusy)'
    BY DEF QueueOnlyWhenBusy, Idle
  <1> QED BY <1>1, <1>2, <1>3, <1>4, <1>5, <1>6, <1>7

LEMMA DispatchToWorkerKeeps ==
  ASSUME IInv, NEW j \in Jobs, DispatchToWorker(j)
  PROVE  IInv'
  <1> USE DEF IInv, DispatchToWorker, MarkBusy, Idle, TypeOK, Labels, Given,
              HasJob, AtWork
  <1>1. (TypeOK /\ Labels)'
    OBVIOUS
  <1>2. (Given /\ HasJob)'
    OBVIOUS
  <1>3. (OnePlace /\ BusyInv)'
    BY DEF OnePlace, BusyInv, Occupied, Gets, Holds, Offers, Queued
  <1>4. (OneHand /\ HeldOnce)'
    BY DEF OnePlace, Gets, Holds, OneHand, HeldOnce, Progress, InHand, Brings,
           Pending, Held
  <1>5. Progress'
    BY DEF OnePlace, Gets, Holds, OneHand, HeldOnce, Progress, Executing, Fresh,
           InHand, Brings, Pending, Held
  <1>6. Executing'
    BY DEF OnePlace, Gets, Holds, OneHand, HeldOnce, Progress, Executing, Fresh,
           InHand, Brings, Pending, Held
  <1>7. (Once(free) /\ Once(pending) /\ QueueOnlyWhenBusy)'
    BY DEF QueueOnlyWhenBusy, Idle
  <1> QED BY <1>1, <1>2, <1>3, <1>4, <1>5, <1>6, <1>7

LEMMA DispatchToQueueKeeps ==
  ASSUME IInv, NEW j \in Jobs, DispatchToQueue(j)
  PROVE  IInv'
  <1> USE DEF IInv, DispatchToQueue, Idle, TypeOK, Labels, Given, HasJob, AtWork
  <1>1. (TypeOK /\ Labels)'
    OBVIOUS
  <1>2. (Given /\ HasJob)'
    OBVIOUS
  <1>3. (OnePlace /\ BusyInv)'
    BY DEF OnePlace, BusyInv, Occupied, Gets, Holds, Offers, Queued
  <1>4. (OneHand /\ HeldOnce)'
    <2>1. \A i \in Jobs : Pending(i)' <=> i = j \/ Pending(i)
      BY InAppend DEF Pending
    <2>2. ~Pending(j) /\ ~InHand(j) /\ Fresh(j)
      BY DEF Progress, InHand
    <2> QED
      BY <2>1, <2>2 DEF OneHand, HeldOnce, InHand, Brings, Held
  <1>5. Progress'
    <2>1. \A i \in Jobs : Pending(i)' <=> i = j \/ Pending(i)
      BY InAppend DEF Pending
    <2>2. ~Pending(j) /\ ~InHand(j) /\ Fresh(j)
      BY DEF Progress, InHand
    <2> QED
      BY <2>1, <2>2 DEF Progress, InHand, Fresh, Brings, Held
  <1>6. Executing'
    BY DEF OnePlace, Gets, Holds, OneHand, HeldOnce, Progress, Executing, Fresh,
           InHand, Brings, Pending, Held
  <1>7. (Once(free) /\ Once(pending) /\ QueueOnlyWhenBusy)'
    <2>1. ~In(j, pending)
      BY DEF Progress, InHand, Pending
    <2>2. Once(pending')
      BY <2>1, OnceAppend
    <2> QED
      BY <2>2 DEF QueueOnlyWhenBusy, Idle
  <1> QED BY <1>1, <1>2, <1>3, <1>4, <1>5, <1>6, <1>7

LEMMA DispatchRunKeeps ==
  ASSUME IInv, DispatchRun
  PROVE  IInv'
  <1> USE DEF IInv, DispatchRun, Run, TypeOK, Labels, Given, HasJob, AtWork
  <1>1. (TypeOK /\ Labels)'
    OBVIOUS
  <1>2. (Given /\ HasJob)'
    OBVIOUS
  <1>3. (OnePlace /\ BusyInv)'
    BY DEF OnePlace, BusyInv, Occupied, Gets, Holds, Offers, Queued
  <1>4. (OneHand /\ HeldOnce)'
    BY DEF OnePlace, Gets, Holds, OneHand, HeldOnce, Progress, InHand, Brings,
           Pending, Held
  <1>5. Progress'
    BY DEF OnePlace, Gets, Holds, OneHand, HeldOnce, Progress, Executing, Fresh,
           InHand, Brings, Pending, Held
  <1>6. Executing'
    BY DEF OnePlace, Gets, Holds, OneHand, HeldOnce, Progress, Executing, Fresh,
           InHand, Brings, Pending, Held
  <1>7. (Once(free) /\ Once(pending) /\ QueueOnlyWhenBusy)'
    BY DEF QueueOnlyWhenBusy, Idle
  <1> QED BY <1>1, <1>2, <1>3, <1>4, <1>5, <1>6, <1>7

LEMMA StartWaitKeeps ==
  ASSUME IInv, NEW j \in Jobs, StartWait(j)
  PROVE  IInv'
  <1> USE DEF IInv, StartWait, TypeOK, Labels, Given, HasJob, AtWork
  <1>1. (TypeOK /\ Labels)'
    OBVIOUS
  <1>2. (Given /\ HasJob)'
    OBVIOUS
  <1>3. (OnePlace /\ BusyInv)'
    BY DEF OnePlace, BusyInv, Occupied, Gets, Holds, Offers, Queued
  <1>4. (OneHand /\ HeldOnce)'
    BY DEF OnePlace, Gets, Holds, OneHand, HeldOnce, Progress, InHand, Brings,
           Pending, Held
  <1>5. Progress'
    BY DEF OnePlace, Gets, Holds, OneHand, HeldOnce, Progress, Executing, Fresh,
           InHand, Brings, Pending, Held
  <1>6. Executing'
    BY DEF OnePlace, Gets, Holds, OneHand, HeldOnce, Progress, Executing, Fresh,
           InHand, Brings, Pending, Held
  <1>7. (Once(free) /\ Once(pending) /\ QueueOnlyWhenBusy)'
    BY DEF QueueOnlyWhenBusy, Idle
  <1> QED BY <1>1, <1>2, <1>3, <1>4, <1>5, <1>6, <1>7

LEMMA WaitEndsKeeps ==
  ASSUME IInv, WaitEnds
  PROVE  IInv'
  <1> USE DEF IInv, WaitEnds, WaitOver, TypeOK, Labels, Given, HasJob, AtWork
  <1>1. (TypeOK /\ Labels)'
    OBVIOUS
  <1>2. (Given /\ HasJob)'
    OBVIOUS
  <1>3. (OnePlace /\ BusyInv)'
    BY DEF OnePlace, BusyInv, Occupied, Gets, Holds, Offers, Queued
  <1>4. (OneHand /\ HeldOnce)'
    BY DEF OnePlace, Gets, Holds, OneHand, HeldOnce, Progress, InHand, Brings,
           Pending, Held
  <1>5. Progress'
    BY DEF OnePlace, Gets, Holds, OneHand, HeldOnce, Progress, Executing, Fresh,
           InHand, Brings, Pending, Held
  <1>6. Executing'
    BY DEF OnePlace, Gets, Holds, OneHand, HeldOnce, Progress, Executing, Fresh,
           InHand, Brings, Pending, Held
  <1>7. (Once(free) /\ Once(pending) /\ QueueOnlyWhenBusy)'
    BY DEF QueueOnlyWhenBusy, Idle
  <1> QED BY <1>1, <1>2, <1>3, <1>4, <1>5, <1>6, <1>7

LEMMA WaitReadsWorkerKeeps ==
  ASSUME IInv, WaitReadsWorker
  PROVE  IInv'
  <1> USE DEF IInv, WaitReadsWorker, TypeOK, Labels, Given, HasJob, AtWork
  <1>1. (TypeOK /\ Labels)'
    <2>1. LET g == [given[Client] EXCEPT !.worker = workerOf[given[Client].job]]
          IN /\ g \in [worker : Workers \cup {NoOne}, job : Jobs \cup {NoJob}]
             /\ g.job = given[Client].job /\ given' = [given EXCEPT ![Client] = g]
      <3> HIDE DEF Labels, HasJob, AtWork
      <3> QED OBVIOUS
    <2>2. Labels'
      OBVIOUS
    <2> QED BY <2>1, <2>2
  <1>2. (Given /\ HasJob)'
    OBVIOUS
  <1>3. (OnePlace /\ BusyInv)'
    BY DEF OnePlace, BusyInv, Occupied, Gets, Holds, Offers, Queued
  <1>4. (OneHand /\ HeldOnce)'
    BY DEF OnePlace, Gets, Holds, OneHand, HeldOnce, Progress, InHand, Brings,
           Pending, Held
  <1>5. Progress'
    BY DEF OnePlace, Gets, Holds, OneHand, HeldOnce, Progress, Executing, Fresh,
           InHand, Brings, Pending, Held
  <1>6. Executing'
    BY DEF OnePlace, Gets, Holds, OneHand, HeldOnce, Progress, Executing, Fresh,
           InHand, Brings, Pending, Held
  <1>7. (Once(free) /\ Once(pending) /\ QueueOnlyWhenBusy)'
    BY DEF QueueOnlyWhenBusy, Idle
  <1> QED BY <1>1, <1>2, <1>3, <1>4, <1>5, <1>6, <1>7

LEMMA WaitSpinsKeeps ==
  ASSUME IInv, WaitSpins
  PROVE  IInv'
  <1> USE DEF IInv, WaitSpins, TypeOK, Labels, Given, HasJob, AtWork
  <1>1. (TypeOK /\ Labels)'
    OBVIOUS
  <1>2. (Given /\ HasJob)'
    OBVIOUS
  <1>3. (OnePlace /\ BusyInv)'
    BY DEF OnePlace, BusyInv, Occupied, Gets, Holds, Offers, Queued
  <1>4. (OneHand /\ HeldOnce)'
    BY DEF OnePlace, Gets, Holds, OneHand, HeldOnce, Progress, InHand, Brings,
           Pending, Held
  <1>5. Progress'
    BY DEF OnePlace, Gets, Holds, OneHand, HeldOnce, Progress, Executing, Fresh,
           InHand, Brings, Pending, Held
  <1>6. Executing'
    BY DEF OnePlace, Gets, Holds, OneHand, HeldOnce, Progress, Executing, Fresh,
           InHand, Brings, Pending, Held
  <1>7. (Once(free) /\ Once(pending) /\ QueueOnlyWhenBusy)'
    BY DEF QueueOnlyWhenBusy, Idle
  <1> QED BY <1>1, <1>2, <1>3, <1>4, <1>5, <1>6, <1>7

LEMMA WaitOnWorkerKeeps ==
  ASSUME IInv, WaitOnWorker
  PROVE  IInv'
  <1> USE DEF IInv, WaitOnWorker, TypeOK, Labels, Given, HasJob, AtWork
  <1>1. (TypeOK /\ Labels)'
    OBVIOUS
  <1>2. (Given /\ HasJob)'
    OBVIOUS
  <1>3. (OnePlace /\ BusyInv)'
    BY DEF OnePlace, BusyInv, Occupied, Gets, Holds, Offers, Queued
  <1>4. (OneHand /\ HeldOnce)'
    BY DEF OnePlace, Gets, Holds, OneHand, HeldOnce, Progress, InHand, Brings,
           Pending, Held
  <1>5. Progress'
    BY DEF OnePlace, Gets, Holds, OneHand, HeldOnce, Progress, Executing, Fresh,
           InHand, Brings, Pending, Held
  <1>6. Executing'
    BY DEF OnePlace, Gets, Holds, OneHand, HeldOnce, Progress, Executing, Fresh,
           InHand, Brings, Pending, Held
  <1>7. (Once(free) /\ Once(pending) /\ QueueOnlyWhenBusy)'
    BY DEF QueueOnlyWhenBusy, Idle
  <1> QED BY <1>1, <1>2, <1>3, <1>4, <1>5, <1>6, <1>7

LEMMA StartStopKeeps ==
  ASSUME IInv, StartStop
  PROVE  IInv'
  <1> USE DEF IInv, StartStop, TypeOK, Labels, Given, HasJob, AtWork
  <1>1. (TypeOK /\ Labels)'
    OBVIOUS
  <1>2. (Given /\ HasJob)'
    OBVIOUS
  <1>3. (OnePlace /\ BusyInv)'
    BY DEF OnePlace, BusyInv, Occupied, Gets, Holds, Offers, Queued
  <1>4. (OneHand /\ HeldOnce)'
    BY DEF OnePlace, Gets, Holds, OneHand, HeldOnce, Progress, InHand, Brings,
           Pending, Held
  <1>5. Progress'
    BY DEF OnePlace, Gets, Holds, OneHand, HeldOnce, Progress, Executing, Fresh,
           InHand, Brings, Pending, Held
  <1>6. Executing'
    BY DEF OnePlace, Gets, Holds, OneHand, HeldOnce, Progress, Executing, Fresh,
           InHand, Brings, Pending, Held
  <1>7. (Once(free) /\ Once(pending) /\ QueueOnlyWhenBusy)'
    BY DEF QueueOnlyWhenBusy, Idle
  <1> QED BY <1>1, <1>2, <1>3, <1>4, <1>5, <1>6, <1>7

LEMMA StopWorkerKeeps ==
  ASSUME IInv, NEW w \in Workers, StopWorker(w)
  PROVE  IInv'
  <1> USE DEF IInv, StopWorker, TypeOK, Labels, Given, HasJob, AtWork
  <1>1. (TypeOK /\ Labels)'
    OBVIOUS
  <1>2. (Given /\ HasJob)'
    OBVIOUS
  <1>3. (OnePlace /\ BusyInv)'
    BY DEF OnePlace, BusyInv, Occupied, Gets, Holds, Offers, Queued
  <1>4. (OneHand /\ HeldOnce)'
    BY DEF OnePlace, Gets, Holds, OneHand, HeldOnce, Progress, InHand, Brings,
           Pending, Held
  <1>5. Progress'
    BY DEF OnePlace, Gets, Holds, OneHand, HeldOnce, Progress, Executing, Fresh,
           InHand, Brings, Pending, Held
  <1>6. Executing'
    BY DEF OnePlace, Gets, Holds, OneHand, HeldOnce, Progress, Executing, Fresh,
           InHand, Brings, Pending, Held
  <1>7. (Once(free) /\ Once(pending) /\ QueueOnlyWhenBusy)'
    BY DEF QueueOnlyWhenBusy, Idle
  <1> QED BY <1>1, <1>2, <1>3, <1>4, <1>5, <1>6, <1>7

LEMMA StopSchedulerKeeps ==
  ASSUME IInv, StopScheduler
  PROVE  IInv'
  <1> USE DEF IInv, StopScheduler, SetStopped, TypeOK, Labels, Given, HasJob,
              AtWork
  <1>1. (TypeOK /\ Labels)'
    OBVIOUS
  <1>2. (Given /\ HasJob)'
    OBVIOUS
  <1>3. (OnePlace /\ BusyInv)'
    BY DEF OnePlace, BusyInv, Occupied, Gets, Holds, Offers, Queued
  <1>4. (OneHand /\ HeldOnce)'
    BY DEF OnePlace, Gets, Holds, OneHand, HeldOnce, Progress, InHand, Brings,
           Pending, Held
  <1>5. Progress'
    BY DEF OnePlace, Gets, Holds, OneHand, HeldOnce, Progress, Executing, Fresh,
           InHand, Brings, Pending, Held
  <1>6. Executing'
    BY DEF OnePlace, Gets, Holds, OneHand, HeldOnce, Progress, Executing, Fresh,
           InHand, Brings, Pending, Held
  <1>7. (Once(free) /\ Once(pending) /\ QueueOnlyWhenBusy)'
    BY DEF QueueOnlyWhenBusy, Idle
  <1> QED BY <1>1, <1>2, <1>3, <1>4, <1>5, <1>6, <1>7

LEMMA JoinMonitorKeeps ==
  ASSUME IInv, JoinMonitor
  PROVE  IInv'
  <1> USE DEF IInv, JoinMonitor, TypeOK, Labels, Given, HasJob, AtWork
  <1>1. (TypeOK /\ Labels)'
    OBVIOUS
  <1>2. (Given /\ HasJob)'
    OBVIOUS
  <1>3. (OnePlace /\ BusyInv)'
    BY DEF OnePlace, BusyInv, Occupied, Gets, Holds, Offers, Queued
  <1>4. (OneHand /\ HeldOnce)'
    BY DEF OnePlace, Gets, Holds, OneHand, HeldOnce, Progress, InHand, Brings,
           Pending, Held
  <1>5. Progress'
    BY DEF OnePlace, Gets, Holds, OneHand, HeldOnce, Progress, Executing, Fresh,
           InHand, Brings, Pending, Held
  <1>6. Executing'
    BY DEF OnePlace, Gets, Holds, OneHand, HeldOnce, Progress, Executing, Fresh,
           InHand, Brings, Pending, Held
  <1>7. (Once(free) /\ Once(pending) /\ QueueOnlyWhenBusy)'
    BY DEF QueueOnlyWhenBusy, Idle
  <1> QED BY <1>1, <1>2, <1>3, <1>4, <1>5, <1>6, <1>7

LEMMA MonitorReadyKeeps ==
  ASSUME IInv, MonitorReady
  PROVE  IInv'
  <1> USE DEF IInv, MonitorReady, TypeOK, Labels, Given, HasJob, AtWork
  <1>1. (TypeOK /\ Labels)'
    OBVIOUS
  <1>2. (Given /\ HasJob)'
    OBVIOUS
  <1>3. (OnePlace /\ BusyInv)'
    <2>1. \A v \in Workers :
          /\ Gets(Client, v)' <=> Gets(Client, v)
          /\ Gets(Monitor, v)' <=> Gets(Monitor, v)
          /\ Offers(v)' <=> Offers(v)
      BY DEF Gets, Offers
    <2> QED
      BY <2>1 DEF OnePlace, BusyInv, Occupied, Holds, Queued
  <1>4. (OneHand /\ HeldOnce)'
    BY DEF OnePlace, Gets, Holds, OneHand, HeldOnce, Progress, InHand, Brings,
           Pending, Held
  <1>5. Progress'
    <2>1. \A j \in Jobs :
          /\ Brings(Client, j)' <=> Brings(Client, j)
          /\ Brings(Monitor, j)' <=> Brings(Monitor, j)
      BY DEF Brings
    <2> QED
      BY <2>1 DEF Progress, InHand, Fresh, Pending, Held
  <1>6. Executing'
    BY DEF OnePlace, Gets, Holds, OneHand, HeldOnce, Progress, Executing, Fresh,
           InHand, Brings, Pending, Held
  <1>7. (Once(free) /\ Once(pending) /\ QueueOnlyWhenBusy)'
    BY DEF QueueOnlyWhenBusy, Idle
  <1> QED BY <1>1, <1>2, <1>3, <1>4, <1>5, <1>6, <1>7

LEMMA MonitorTopKeeps ==
  ASSUME IInv, MonitorTop
  PROVE  IInv'
  <1> USE DEF IInv, MonitorTop, TypeOK, Labels, Given, HasJob, AtWork
  <1>1. (TypeOK /\ Labels)'
    <2>1. workerMutex' = [v \in Workers |->
            IF pc'[v] \in AtWork \cup {"offer"} THEN v ELSE NoOne]
      OBVIOUS
    <2>2. mutex' = IF pc'[Monitor] \in {"scan", "run"} THEN Monitor ELSE NoOne
      OBVIOUS
    <2>3. Labels'
      <3> HIDE DEF TypeOK
      <3> QED OBVIOUS
    <2> QED BY <2>1, <2>2, <2>3
  <1>2. (Given /\ HasJob)'
    OBVIOUS
  <1>3. (OnePlace /\ BusyInv)'
    BY DEF OnePlace, BusyInv, Occupied, Gets, Holds, Offers, Queued
  <1>4. (OneHand /\ HeldOnce)'
    BY DEF OnePlace, Gets, Holds, OneHand, HeldOnce, Progress, InHand, Brings,
           Pending, Held
  <1>5. Progress'
    BY DEF OnePlace, Gets, Holds, OneHand, HeldOnce, Progress, Executing, Fresh,
           InHand, Brings, Pending, Held
  <1>6. Executing'
    BY DEF OnePlace, Gets, Holds, OneHand, HeldOnce, Progress, Executing, Fresh,
           InHand, Brings, Pending, Held
  <1>7. (Once(free) /\ Once(pending) /\ QueueOnlyWhenBusy)'
    BY DEF QueueOnlyWhenBusy, Idle
  <1> QED BY <1>1, <1>2, <1>3, <1>4, <1>5, <1>6, <1>7

LEMMA MonitorWakeUpKeeps ==
  ASSUME IInv, MonitorWakeUp
  PROVE  IInv'
  <1> USE DEF IInv, MonitorWakeUp, TypeOK, Labels, Given, HasJob, AtWork
  <1>1. (TypeOK /\ Labels)'
    OBVIOUS
  <1>2. (Given /\ HasJob)'
    OBVIOUS
  <1>3. (OnePlace /\ BusyInv)'
    BY DEF OnePlace, BusyInv, Occupied, Gets, Holds, Offers, Queued
  <1>4. (OneHand /\ HeldOnce)'
    BY DEF OnePlace, Gets, Holds, OneHand, HeldOnce, Progress, InHand, Brings,
           Pending, Held
  <1>5. Progress'
    BY DEF OnePlace, Gets, Holds, OneHand, HeldOnce, Progress, Executing, Fresh,
           InHand, Brings, Pending, Held
  <1>6. Executing'
    BY DEF OnePlace, Gets, Holds, OneHand, HeldOnce, Progress, Executing, Fresh,
           InHand, Brings, Pending, Held
  <1>7. (Once(free) /\ Once(pending) /\ QueueOnlyWhenBusy)'
    BY DEF QueueOnlyWhenBusy, Idle
  <1> QED BY <1>1, <1>2, <1>3, <1>4, <1>5, <1>6, <1>7

LEMMA ScanEndsKeeps ==
  ASSUME IInv, ScanEnds
  PROVE  IInv'
  <1> USE DEF IInv, ScanEnds, TypeOK, Labels, Given, HasJob, AtWork
  <1>1. (TypeOK /\ Labels)'
    OBVIOUS
  <1>2. (Given /\ HasJob)'
    OBVIOUS
  <1>3. (OnePlace /\ BusyInv)'
    BY DEF OnePlace, BusyInv, Occupied, Gets, Holds, Offers, Queued
  <1>4. (OneHand /\ HeldOnce)'
    BY DEF OnePlace, Gets, Holds, OneHand, HeldOnce, Progress, InHand, Brings,
           Pending, Held
  <1>5. Progress'
    BY DEF OnePlace, Gets, Holds, OneHand, HeldOnce, Progress, Executing, Fresh,
           InHand, Brings, Pending, Held
  <1>6. Executing'
    BY DEF OnePlace, Gets, Holds, OneHand, HeldOnce, Progress, Executing, Fresh,
           InHand, Brings, Pending, Held
  <1>7. (Once(free) /\ Once(pending) /\ QueueOnlyWhenBusy)'
    BY DEF QueueOnlyWhenBusy, Idle
  <1> QED BY <1>1, <1>2, <1>3, <1>4, <1>5, <1>6, <1>7

LEMMA FreeWorkerIdlesKeeps ==
  ASSUME IInv, FreeWorkerIdles
  PROVE  IInv'
  <1> USE DEF IInv, FreeWorkerIdles, NothingPending, TypeOK, Labels, Given,
              HasJob, AtWork
  <1>1. (TypeOK /\ Labels)'
    OBVIOUS
  <1>2. (Given /\ HasJob)'
    OBVIOUS
  <1>3. (OnePlace /\ BusyInv)'
    <2>1. \A v \in Workers : Queued(v)' <=> Queued(v) /\ v # Head(free)
      BY InTail DEF Queued
    <2>2. Head(free) \in Workers /\ Queued(Head(free))
      BY InHead DEF Queued
    <2> QED
      BY <2>1, <2>2 DEF OnePlace, BusyInv, Occupied, Gets, Holds, Offers, Queued
  <1>4. (OneHand /\ HeldOnce)'
    BY DEF OnePlace, Gets, Holds, OneHand, HeldOnce, Progress, InHand, Brings,
           Pending, Held
  <1>5. Progress'
    BY DEF OnePlace, Gets, Holds, OneHand, HeldOnce, Progress, Executing, Fresh,
           InHand, Brings, Pending, Held
  <1>6. Executing'
    BY DEF OnePlace, Gets, Holds, OneHand, HeldOnce, Progress, Executing, Fresh,
           InHand, Brings, Pending, Held
  <1>7. (Once(free) /\ Once(pending) /\ QueueOnlyWhenBusy)'
    BY OnceTail DEF QueueOnlyWhenBusy, Idle
  <1> QED BY <1>1, <1>2, <1>3, <1>4, <1>5, <1>6, <1>7

LEMMA FreeWorkerGetsJobKeeps ==
  ASSUME IInv, FreeWorkerGetsJob
  PROVE  IInv'
  <1> USE DEF IInv, FreeWorkerGetsJob, NextPending, TypeOK, Labels, Given,
              HasJob, AtWork
  <1>1. (TypeOK /\ Labels)'
    OBVIOUS
  <1>2. (Given /\ HasJob)'
    OBVIOUS
  <1>3. (OnePlace /\ BusyInv)'
    <2>1. \A v \in Workers : Queued(v)' <=> Queued(v) /\ v # Head(free)
      BY InTail DEF Queued
    <2>2. Head(free) \in Workers /\ Queued(Head(free))
      BY InHead DEF Queued
    <2>3. \A v \in Workers :
          /\ Gets(Client, v)' <=> Gets(Client, v)
          /\ Gets(Monitor, v)' <=> v = Head(free)
          /\ ~Gets(Monitor, v)
          /\ Holds(v)' <=> Holds(v)
          /\ Offers(v)' <=> Offers(v)
      BY DEF Gets, Holds, Offers
    <2>4. busy' = busy /\ workerStopped' = workerStopped
      OBVIOUS
    <2> QED
      BY <2>1, <2>2, <2>3, <2>4 DEF OnePlace, BusyInv, Occupied
  <1>4. (OneHand /\ HeldOnce)'
    <2>3. Head(pending) \in Jobs /\ Pending(Head(pending))
      BY InHead DEF Pending
    <2>4. \A j \in Jobs : Pending(j)' <=> Pending(j) /\ j # Head(pending)
      BY InTail DEF Pending
    <2>5. \A j \in Jobs :
          /\ Brings(Client, j)' <=> Brings(Client, j)
          /\ Brings(Monitor, j)' <=> j = Head(pending)
          /\ ~Brings(Monitor, j)
          /\ Held(j)' <=> Held(j)
      BY DEF Brings, Held
    <2> QED
      BY <2>3, <2>4, <2>5 DEF OneHand, HeldOnce
  <1>5. Progress'
    <2>3. Head(pending) \in Jobs /\ Pending(Head(pending))
      BY InHead DEF Pending
    <2>4. \A j \in Jobs : Pending(j)' <=> Pending(j) /\ j # Head(pending)
      BY InTail DEF Pending
    <2>5. \A j \in Jobs :
          /\ Brings(Client, j)' <=> Brings(Client, j)
          /\ Brings(Monitor, j)' <=> j = Head(pending)
          /\ ~Brings(Monitor, j)
          /\ Held(j)' <=> Held(j)
      BY DEF Brings, Held
    <2> QED
      BY <2>3, <2>4, <2>5 DEF OneHand, Progress, InHand, Fresh
  <1>6. Executing'
    BY DEF OnePlace, Gets, Holds, OneHand, HeldOnce, Progress, Executing, Fresh,
           InHand, Brings, Pending, Held
  <1>7. (Once(free) /\ Once(pending) /\ QueueOnlyWhenBusy)'
    <2>1. Once(free')
      BY OnceTail
    <2>2. Once(pending')
      BY OnceTail
    <2> QED BY <2>1, <2>2 DEF QueueOnlyWhenBusy, Idle
  <1> QED BY <1>1, <1>2, <1>3, <1>4, <1>5, <1>6, <1>7

LEMMA MonitorRunKeeps ==
  ASSUME IInv, MonitorRun
  PROVE  IInv'
  <1> USE DEF IInv, MonitorRun, Run, TypeOK, Labels, Given, HasJob, AtWork
  <1>1. (TypeOK /\ Labels)'
    OBVIOUS
  <1>2. (Given /\ HasJob)'
    OBVIOUS
  <1>3. (OnePlace /\ BusyInv)'
    BY DEF OnePlace, BusyInv, Occupied, Gets, Holds, Offers, Queued
  <1>4. (OneHand /\ HeldOnce)'
    BY DEF OnePlace, Gets, Holds, OneHand, HeldOnce, Progress, InHand, Brings,
           Pending, Held
  <1>5. Progress'
    BY DEF OnePlace, Gets, Holds, OneHand, HeldOnce, Progress, Executing, Fresh,
           InHand, Brings, Pending, Held
  <1>6. Executing'
    BY DEF OnePlace, Gets, Holds, OneHand, HeldOnce, Progress, Executing, Fresh,
           InHand, Brings, Pending, Held
  <1>7. (Once(free) /\ Once(pending) /\ QueueOnlyWhenBusy)'
    BY DEF QueueOnlyWhenBusy, Idle
  <1> QED BY <1>1, <1>2, <1>3, <1>4, <1>5, <1>6, <1>7

LEMMA WorkerReadyKeeps ==
  ASSUME IInv, NEW w \in Workers, WorkerReady(w)
  PROVE  IInv'
  <1> USE DEF IInv, WorkerReady, TypeOK, Labels, Given, HasJob, AtWork
  <1>1. (TypeOK /\ Labels)'
    OBVIOUS
  <1>2. (Given /\ HasJob)'
    OBVIOUS
  <1>3. (OnePlace /\ BusyInv)'
    BY DEF OnePlace, BusyInv, Occupied, Gets, Holds, Offers, Queued
  <1>4. (OneHand /\ HeldOnce)'
    BY DEF OnePlace, Gets, Holds, OneHand, HeldOnce, Progress, InHand, Brings,
           Pending, Held
  <1>5. Progress'
    BY DEF OnePlace, Gets, Holds, OneHand, HeldOnce, Progress, Executing, Fresh,
           InHand, Brings, Pending, Held
  <1>6. Executing'
    BY DEF OnePlace, Gets, Holds, OneHand, HeldOnce, Progress, Executing, Fresh,
           InHand, Brings, Pending, Held
  <1>7. (Once(free) /\ Once(pending) /\ QueueOnlyWhenBusy)'
    BY DEF QueueOnlyWhenBusy, Idle
  <1> QED BY <1>1, <1>2, <1>3, <1>4, <1>5, <1>6, <1>7

LEMMA TopKeeps ==
  ASSUME IInv, NEW w \in Workers, Top(w)
  PROVE  IInv'
  <1> USE DEF IInv, Top, Take, TypeOK, Labels, Given, HasJob, AtWork
  <1>1. (TypeOK /\ Labels)'
    <2>1. CASE workerStopped[w]
      <3>1. /\ pc[w] \notin {"new", "starting"}
            /\ Goto(w, "exited") /\ UNCHANGED workerMutex
        BY <2>1
      <3>2. Moves(w, "exited")
        BY <3>1 DEF Moves
      <3> QED BY <3>2, WorkerMoves
    <2>2. CASE ~workerStopped[w] /\ job[w] # NoJob
      <3>1. pc[w] \notin {"new", "starting"} /\ Goto(w, "execute") /\ Take(w)
        BY <2>2
      <3>2. Moves(w, "execute")
        BY <3>1 DEF Moves
      <3> QED BY <3>2, WorkerMoves
    <2>3. CASE ~workerStopped[w] /\ job[w] = NoJob
      <3>1. /\ pc[w] \notin {"new", "starting"}
            /\ Goto(w, "asleep") /\ UNCHANGED workerMutex
        BY <2>3
      <3>2. Moves(w, "asleep")
        BY <3>1 DEF Moves
      <3> QED BY <3>2, WorkerMoves
    <2> QED BY <2>1, <2>2, <2>3
  <1>2. (Given /\ HasJob)'
    OBVIOUS
  <1>3. (OnePlace /\ BusyInv)'
    BY DEF OnePlace, BusyInv, Occupied, Gets, Holds, Offers, Queued
  <1>4. (OneHand /\ HeldOnce)'
    BY DEF OnePlace, Gets, Holds, OneHand, HeldOnce, Progress, InHand, Brings,
           Pending, Held
  <1>5. Progress'
    BY DEF OnePlace, Gets, Holds, OneHand, HeldOnce, Progress, Executing, Fresh,
           InHand, Brings, Pending, Held
  <1>6. Executing'
    BY DEF OnePlace, Gets, Holds, OneHand, HeldOnce, Progress, Executing, Fresh,
           InHand, Brings, Pending, Held
  <1>7. (Once(free) /\ Once(pending) /\ QueueOnlyWhenBusy)'
    BY DEF QueueOnlyWhenBusy, Idle
  <1> QED BY <1>1, <1>2, <1>3, <1>4, <1>5, <1>6, <1>7

LEMMA WakeUpKeeps ==
  ASSUME IInv, NEW w \in Workers, WakeUp(w)
  PROVE  IInv'
  <1> USE DEF IInv, WakeUp, Take, TypeOK, Labels, Given, HasJob, AtWork
  <1>1. (TypeOK /\ Labels)'
    <2>1. CASE job[w] # NoJob
      <3>1. pc[w] \notin {"new", "starting"} /\ Goto(w, "execute") /\ Take(w)
        BY <2>1
      <3>2. Moves(w, "execute")
        BY <3>1 DEF Moves
      <3> QED BY <3>2, WorkerMoves
    <2>2. CASE job[w] = NoJob
      <3>1. /\ pc[w] \notin {"new", "starting"}
            /\ Goto(w, "top") /\ UNCHANGED workerMutex
        BY <2>2
      <3>2. Moves(w, "top")
        BY <3>1 DEF Moves
      <3> QED BY <3>2, WorkerMoves
    <2> QED BY <2>1, <2>2
  <1>2. (Given /\ HasJob)'
    OBVIOUS
  <1>3. (OnePlace /\ BusyInv)'
    BY DEF OnePlace, BusyInv, Occupied, Gets, Holds, Offers, Queued
  <1>4. (OneHand /\ HeldOnce)'
    BY DEF OnePlace, Gets, Holds, OneHand, HeldOnce, Progress, InHand, Brings,
           Pending, Held
  <1>5. Progress'
    BY DEF OnePlace, Gets, Holds, OneHand, HeldOnce, Progress, Executing, Fresh,
           InHand, Brings, Pending, Held
  <1>6. Executing'
    BY DEF OnePlace, Gets, Holds, OneHand, HeldOnce, Progress, Executing, Fresh,
           InHand, Brings, Pending, Held
  <1>7. (Once(free) /\ Once(pending) /\ QueueOnlyWhenBusy)'
    BY DEF QueueOnlyWhenBusy, Idle
  <1> QED BY <1>1, <1>2, <1>3, <1>4, <1>5, <1>6, <1>7

LEMMA CallBackKeeps ==
  ASSUME IInv, NEW w \in Workers, CallBack(w)
  PROVE  IInv'
  <1> USE DEF IInv, CallBack, TypeOK, Labels, Given, HasJob, AtWork
  <1>1. (TypeOK /\ Labels)'
    <2>1. CASE done[job[w]]
      <3>1. Moves(w, "finish")
        BY <2>1 DEF Moves
      <3> QED BY <2>1, <3>1, WorkerMoves
    <2>2. CASE ~done[job[w]]
      <3>1. Moves(w, "done")
        BY <2>2 DEF Moves
      <3>2. ran' \in [Jobs -> Nat]
      OBVIOUS
      <3> QED BY <3>1, <3>2, WorkerMoves
    <2> QED BY <2>1, <2>2
  <1>2. (Given /\ HasJob)'
    OBVIOUS
  <1>3. (OnePlace /\ BusyInv)'
    BY DEF OnePlace, BusyInv, Occupied, Gets, Holds, Offers, Queued
  <1>4. (OneHand /\ HeldOnce)'
    BY DEF OnePlace, Gets, Holds, OneHand, HeldOnce, Progress, InHand, Brings,
           Pending, Held
  <1>5. Progress'
    BY DEF OnePlace, Gets, Holds, OneHand, HeldOnce, Progress, Executing, Fresh,
           InHand, Brings, Pending, Held
  <1>6. Executing'
    BY DEF OnePlace, Gets, Holds, OneHand, HeldOnce, Progress, Executing, Fresh,
           InHand, Brings, Pending, Held
  <1>7. (Once(free) /\ Once(pending) /\ QueueOnlyWhenBusy)'
    BY DEF QueueOnlyWhenBusy, Idle
  <1> QED BY <1>1, <1>2, <1>3, <1>4, <1>5, <1>6, <1>7

LEMMA SetDoneKeeps ==
  ASSUME IInv, NEW w \in Workers, SetDone(w)
  PROVE  IInv'
  <1> USE DEF IInv, SetDone, TypeOK, Labels, Given, HasJob, AtWork
  <1>1. (TypeOK /\ Labels)'
    OBVIOUS
  <1>2. (Given /\ HasJob)'
    OBVIOUS
  <1>3. (OnePlace /\ BusyInv)'
    BY DEF OnePlace, BusyInv, Occupied, Gets, Holds, Offers, Queued
  <1>4. (OneHand /\ HeldOnce)'
    BY DEF OnePlace, Gets, Holds, OneHand, HeldOnce, Progress, InHand, Brings,
           Pending, Held
  <1>5. Progress'
    BY DEF OnePlace, Gets, Holds, OneHand, HeldOnce, Progress, Executing, Fresh,
           InHand, Brings, Pending, Held
  <1>6. Executing'
    BY DEF OnePlace, Gets, Holds, OneHand, HeldOnce, Progress, Executing, Fresh,
           InHand, Brings, Pending, Held
  <1>7. (Once(free) /\ Once(pending) /\ QueueOnlyWhenBusy)'
    BY DEF QueueOnlyWhenBusy, Idle
  <1> QED BY <1>1, <1>2, <1>3, <1>4, <1>5, <1>6, <1>7

LEMMA ClearWorkerKeeps ==
  ASSUME IInv, NEW w \in Workers, ClearWorker(w)
  PROVE  IInv'
  <1> USE DEF IInv, ClearWorker, TypeOK, Labels, Given, HasJob, AtWork
  <1>1. (TypeOK /\ Labels)'
    OBVIOUS
  <1>2. (Given /\ HasJob)'
    OBVIOUS
  <1>3. (OnePlace /\ BusyInv)'
    BY DEF OnePlace, BusyInv, Occupied, Gets, Holds, Offers, Queued
  <1>4. (OneHand /\ HeldOnce)'
    BY DEF OnePlace, Gets, Holds, OneHand, HeldOnce, Progress, InHand, Brings,
           Pending, Held
  <1>5. Progress'
    BY DEF OnePlace, Gets, Holds, OneHand, HeldOnce, Progress, Executing, Fresh,
           InHand, Brings, Pending, Held
  <1>6. Executing'
    BY DEF OnePlace, Gets, Holds, OneHand, HeldOnce, Progress, Executing, Fresh,
           InHand, Brings, Pending, Held
  <1>7. (Once(free) /\ Once(pending) /\ QueueOnlyWhenBusy)'
    BY DEF QueueOnlyWhenBusy, Idle
  <1> QED BY <1>1, <1>2, <1>3, <1>4, <1>5, <1>6, <1>7

LEMMA FinishKeeps ==
  ASSUME IInv, NEW w \in Workers, Finish(w)
  PROVE  IInv'
  <1> USE DEF IInv, Finish, EmptyHand, Release, TypeOK, Labels, Given, HasJob,
              AtWork
  <1>1. (TypeOK /\ Labels)'
    <2>1. CASE workerStopped[w]
      <3>1. pc[w] \notin {"new", "starting"} /\ Goto(w, "top") /\ Release(w)
        BY <2>1
      <3>2. Moves(w, "top")
        BY <3>1 DEF Moves
      <3> QED BY <3>2, WorkerMoves
    <2>2. CASE ~workerStopped[w]
      <3>1. /\ pc[w] \notin {"new", "starting"}
            /\ Goto(w, "offer") /\ UNCHANGED workerMutex
        BY <2>2
      <3>2. Moves(w, "offer")
        BY <3>1 DEF Moves
      <3> QED BY <3>2, WorkerMoves
    <2> QED BY <2>1, <2>2
  <1>2. (Given /\ HasJob)'
    OBVIOUS
  <1>3. (OnePlace /\ BusyInv)'
    BY DEF OnePlace, BusyInv, Occupied, Gets, Holds, Offers, Queued
  <1>4. (OneHand /\ HeldOnce)'
    BY DEF OnePlace, Gets, Holds, OneHand, HeldOnce, Progress, InHand, Brings,
           Pending, Held
  <1>5. Progress'
    BY DEF OnePlace, Gets, Holds, OneHand, HeldOnce, Progress, Executing, Fresh,
           InHand, Brings, Pending, Held
  <1>6. Executing'
    BY DEF OnePlace, Gets, Holds, OneHand, HeldOnce, Progress, Executing, Fresh,
           InHand, Brings, Pending, Held
  <1>7. (Once(free) /\ Once(pending) /\ QueueOnlyWhenBusy)'
    BY DEF QueueOnlyWhenBusy, Idle
  <1> QED BY <1>1, <1>2, <1>3, <1>4, <1>5, <1>6, <1>7

LEMMA OfferKeeps ==
  ASSUME IInv, NEW w \in Workers, Offer(w)
  PROVE  IInv'
  <1> USE DEF IInv, Offer, MakeAvailable, Release, TypeOK, Labels, Given,
              HasJob, AtWork
  <1>1. (TypeOK /\ Labels)'
    <2>1. Moves(w, "top")
      BY DEF Moves
    <2>2. free' \in Seq(Workers)
      OBVIOUS
    <2> QED BY <2>1, <2>2, WorkerMoves
  <1>2. (Given /\ HasJob)'
    OBVIOUS
  <1>3. (OnePlace /\ BusyInv)'
    <2>1. \A v \in Workers : Queued(v)' <=> v = w \/ Queued(v)
      BY InAppend DEF Queued
    <2> QED
      BY <2>1 DEF OnePlace, BusyInv, Occupied, Gets, Holds, Offers, Queued
  <1>4. (OneHand /\ HeldOnce)'
    BY DEF OnePlace, Gets, Holds, OneHand, HeldOnce, Progress, InHand, Brings,
           Pending, Held
  <1>5. Progress'
    BY DEF OnePlace, Gets, Holds, OneHand, HeldOnce, Progress, Executing, Fresh,
           InHand, Brings, Pending, Held
  <1>6. Executing'
    BY DEF OnePlace, Gets, Holds, OneHand, HeldOnce, Progress, Executing, Fresh,
           InHand, Brings, Pending, Held
  <1>7. (Once(free) /\ Once(pending) /\ QueueOnlyWhenBusy)'
    <2>1. ~In(w, free)
      BY DEF OnePlace, Offers, Queued
    <2> QED
      BY <2>1, OnceAppend DEF QueueOnlyWhenBusy, Idle
  <1> QED BY <1>1, <1>2, <1>3, <1>4, <1>5, <1>6, <1>7

-----------------------------------------------------------------------------
(* The invariant holds from the start and every step keeps it.              *)

LEMMA InitIInv == Init => IInv
  <1> SUFFICES ASSUME Init PROVE IInv
    OBVIOUS
  <1> USE DEF Init
  <1>1. TypeOK /\ Labels
    <2>1. \A t \in Threads : pc[t] \in {"init", "new"}
      OBVIOUS
    <2>2. pc[Client] = "init" /\ \A t \in Threads \ {Client} : pc[t] = "new"
      OBVIOUS
    <2>3. pending \in Seq(Jobs) /\ free \in Seq(Workers)
      OBVIOUS
    <2>4. workerMutex = [w \in Workers |->
            IF pc[w] \in {"execute", "done", "clear", "finish", "offer"}
            THEN w ELSE NoOne]
      BY <2>2
    <2>5. pc \in [Threads -> {"init", "new"}]
      OBVIOUS
    <2>6. Labels
      BY <2>2 DEF Labels
    <2>7. mutex = IF pc[Monitor] \in {"scan", "run"} THEN Monitor ELSE NoOne
      BY <2>2
    <2>8. given \in [{Client, Monitor} ->
                     [worker : Workers \cup {NoOne}, job : Jobs \cup {NoJob}]]
      OBVIOUS
    <2>9. TypeOK
      BY <2>3, <2>4, <2>5, <2>7, <2>8 DEF TypeOK
    <2> QED BY <2>6, <2>9
  <1>2. Given /\ HasJob
    BY DEF Given, HasJob, AtWork
  <1>3. \A w \in Workers : ~Occupied(w)
    BY NoneInEmpty DEF Occupied, Gets, Holds, Offers, Queued
  <1>4. OnePlace /\ BusyInv
    BY <1>3 DEF OnePlace, BusyInv, Occupied
  <1>5. \A j \in Jobs : ~InHand(j)
    BY NoneInEmpty DEF InHand, Brings, Pending, Held
  <1>6. OneHand /\ HeldOnce /\ Progress /\ Executing
    BY <1>5 DEF OneHand, HeldOnce, Progress, Executing, Fresh, InHand
  <1>7. Once(free) /\ Once(pending) /\ QueueOnlyWhenBusy
    BY OnceEmpty DEF QueueOnlyWhenBusy
  <1> QED BY <1>1, <1>2, <1>4, <1>6, <1>7 DEF IInv

LEMMA StutterKeeps ==
  ASSUME IInv, UNCHANGED vars
  PROVE  IInv'
  BY DEF IInv, TypeOK, Labels, Given, HasJob, AtWork, OnePlace, BusyInv, Occupied,
         Gets, Holds, Offers, Queued, In, Once, OneHand, HeldOnce, Progress,
         Executing, Fresh, InHand, Brings, Pending, Held, QueueOnlyWhenBusy, Idle

LEMMA StepKeeps == IInv /\ [Next]_vars => IInv'
  <1> SUFFICES ASSUME IInv, [Next]_vars PROVE IInv'
    OBVIOUS
  <1>1. CASE ClientStep
    BY <1>1, StartWorkerKeeps, StartMonitorKeeps, DispatchToWorkerKeeps,
       DispatchToQueueKeeps, StartWaitKeeps, DispatchRunKeeps, WaitEndsKeeps,
       WaitReadsWorkerKeeps, WaitOnWorkerKeeps, StartStopKeeps,
       StopSchedulerKeeps, JoinMonitorKeeps, StopWorkerKeeps DEF ClientStep
  <1>2. CASE MonitorStep
    BY <1>2, MonitorReadyKeeps, MonitorTopKeeps, MonitorWakeUpKeeps, ScanEndsKeeps,
       FreeWorkerIdlesKeeps, FreeWorkerGetsJobKeeps, MonitorRunKeeps DEF MonitorStep
  <1>3. ASSUME NEW w \in Workers, WorkerStep(w) PROVE IInv'
    BY <1>3, WorkerReadyKeeps, TopKeeps, WakeUpKeeps, CallBackKeeps, SetDoneKeeps,
       ClearWorkerKeeps, FinishKeeps, OfferKeeps DEF WorkerStep
  <1>4. CASE WaitSpins
    BY <1>4, WaitSpinsKeeps
  <1>5. CASE UNCHANGED vars
    BY <1>5, StutterKeeps
  <1> HIDE DEF vars
  <1> QED BY <1>1, <1>2, <1>3, <1>4, <1>5 DEF Next, Spin, Terminated

-----------------------------------------------------------------------------
(* The results.                                                             *)

(* The strengthened invariant: places, hands and the progress of each job   *)
(* agree, whatever the threads do (scheduler.cpp:33-232).                   *)
THEOREM Inductive == Spec => []IInv
  BY InitIInv, StepKeeps, PTL DEF Spec

(* Every variable keeps its type, and each mutex is held by the one thread  *)
(* whose place in the code says so (scheduler.cpp:33-70, 189-222).          *)
THEOREM TypeCorrect == Spec => []TypeOK
  BY Inductive, PTL DEF IInv

LEMMA AtMostOne ==
  ASSUME NEW S, \A x, y \in S : x = y
  PROVE  IsFiniteSet(S) /\ Cardinality(S) <= 1 /\ (S # {} => Cardinality(S) = 1)
  <1>1. CASE S = {}
    BY <1>1, FS_EmptySet
  <1>2. CASE S # {}
    <2>1. PICK x \in S : S = {x}
      BY <1>2
    <2>2. IsFiniteSet({x}) /\ Cardinality({x}) = 1
      BY FS_Singleton
    <2> QED BY <2>1, <2>2
  <1> QED BY <1>1, <1>2

(* busy_ tells the truth: a worker that is not in it is in no place, one    *)
(* that is in it and not stopped in exactly one, so Run never writes over a *)
(* job and no worker waits in the free queue twice; and a job is queued     *)
(* only while no worker idles (Scheduler::Dispatch, MakeAvailable,          *)
(* Monitor).                                                                *)
THEOREM BusyIsExact == Spec => []BusyExact
  <1>1. IInv => BusyExact
    <2> SUFFICES ASSUME IInv PROVE BusyExact
      OBVIOUS
    <2> USE DEF IInv
    <2>1. ASSUME NEW w \in Workers
          PROVE  /\ Places(w) # {} <=> Occupied(w)
                 /\ Cardinality(Places(w)) <= 1
                 /\ Places(w) # {} => Cardinality(Places(w)) = 1
      <3>1. Places(w) # {} <=> Occupied(w)
        BY DEF Places, Occupied, Gets, Holds, Offers, Queued, In
      <3>2. \A x, y \in Places(w) : x = y
        BY DEF Places, OnePlace, Gets, Holds, Offers, Queued, In, Once
      <3> QED BY <3>1, <3>2, AtMostOne
    <2> QED BY <2>1, FS_EmptySet DEF BusyExact, BusyInv, QueueOnlyWhenBusy
  <1> QED BY <1>1, Inductive, PTL

(* No job is lost, none is in two hands, none runs twice, and a Status that *)
(* was waited for and deleted has had its callback run                      *)
(* (scheduler.cpp:116-160, 189-222).                                        *)
THEOREM JobsHeldOnce == Spec => []JobHeldOnce
  <1>1. IInv => JobHeldOnce
    <2> SUFFICES ASSUME IInv PROVE JobHeldOnce
      OBVIOUS
    <2> USE DEF IInv
    <2>1. ASSUME NEW j \in Jobs
          PROVE  /\ Hands(j) # {} <=> InHand(j)
                 /\ Cardinality(Hands(j)) <= 1
      <3>1. Hands(j) # {} <=> InHand(j)
        BY DEF Hands, InHand, Brings, Pending, Held, In
      <3>2. \A x, y \in Hands(j) : x = y
        BY DEF Hands, OneHand, HeldOnce, Brings, Pending, Held, In, Once
      <3> QED BY <3>1, <3>2, AtMostOne
    <2>2. \A j \in Jobs : ran[j] \in {0, 1}
      BY DEF Progress, Executing, Fresh, InHand, Held, TypeOK
    <2> QED BY <2>1, <2>2 DEF JobHeldOnce, Progress
  <1> QED BY <1>1, Inductive, PTL

(* Worker::Run assigns job_ without looking at it: it never finds a job     *)
(* there, so no step puts another job in the place of one that is still     *)
(* there (scheduler.cpp:224-232).                                           *)
THEOREM RunOverwritesNothing ==
  Spec => [][\A w \in Workers : job[w] # NoJob => job'[w] \in {job[w], NoJob}]_vars
  <1> DEFINE Kept ==
        \A w \in Workers : job[w] # NoJob => job'[w] \in {job[w], NoJob}
  <1>1. ASSUME IInv, [Next]_vars PROVE [Kept]_vars
    <2> USE <1>1 DEF IInv, TypeOK
    <2>1. ASSUME NEW t \in {Client, Monitor}, pc[t] = "run", Run(t) PROVE Kept
      BY <2>1 DEF Run, Given, OnePlace, Gets, Holds
    <2>2. ASSUME NEW w \in Workers, EmptyHand(w) PROVE Kept
      BY <2>2 DEF EmptyHand
    <2>3. CASE ClientStep
      BY <2>1, <2>3
      DEF ClientStep, StartWorker, StartMonitor, DispatchToWorker, DispatchToQueue,
          StartWait, DispatchRun, WaitEnds, WaitReadsWorker, WaitOnWorker,
          StartStop, StopScheduler, JoinMonitor, StopWorker
    <2>4. CASE MonitorStep
      BY <2>1, <2>4
      DEF MonitorStep, MonitorReady, MonitorTop, MonitorWakeUp, ScanEnds,
          FreeWorkerIdles, FreeWorkerGetsJob, MonitorRun
    <2>5. ASSUME NEW w \in Workers, WorkerStep(w) PROVE Kept
      BY <2>2, <2>5
      DEF WorkerStep, WorkerReady, Top, WakeUp, CallBack, SetDone, ClearWorker,
          Finish, Offer
    <2>6. CASE WaitSpins \/ UNCHANGED vars
      BY <2>6 DEF WaitSpins
    <2> QED BY <1>1, <2>3, <2>4, <2>5, <2>6 DEF Next, Spin, Terminated
  <1> QED BY <1>1, Inductive, PTL DEF Spec
=============================================================================
