------------------------------ MODULE Scheduler ------------------------------
(***************************************************************************)
(* The thread pool behind the parallel perft (scheduler.cpp, scheduler.hpp): *)
(* a client dispatches jobs and waits for them, worker threads execute      *)
(* them, a monitor thread hands pending jobs to workers that became free.   *)
(* The scheduler's mutex and each worker's mutex are modelled by their      *)
(* owners, since threads take one while they hold the other: a worker calls *)
(* MakeAvailable with its own mutex held, the monitor calls Worker::Run     *)
(* with the scheduler's.  A wait on a condition variable is a guard: every  *)
(* change of a waited-for condition is followed by a notify_all.            *)
(***************************************************************************)
EXTENDS Naturals, Sequences, FiniteSets

CONSTANTS
  Workers,    \* the worker threads
  Jobs,       \* the dispatched callbacks; each has one Status
  Abandoned,  \* the jobs the client does not wait for
  Client,     \* the thread that owns the Scheduler
  Monitor,    \* Scheduler::Monitor's thread
  NoOne,      \* no thread, a free mutex
  NoJob       \* nullptr

ASSUME PoolAssumption ==
  /\ Client \notin Workers /\ Monitor \notin Workers /\ Client # Monitor
  /\ NoOne \notin Workers \cup {Client, Monitor} /\ NoJob \notin Jobs
  /\ Abandoned \subseteq Jobs
  /\ IsFiniteSet(Workers) /\ Workers # {}

Threads == Workers \cup {Client, Monitor}

VARIABLES
  \* Scheduler
  mutex, stopped, pending, free, busy,
  \* Worker
  workerMutex, workerStopped, job,
  \* Job
  done, workerOf, deleted,
  ran,      \* how often a job's callback has run
  \* threads
  pc,
  todo,     \* the jobs the client has not dispatched yet
  waitFor,  \* the jobs the client has not waited for yet
  given     \* what the monitor and the client are about to Run: worker, job

schedulerVars == <<mutex, stopped, pending, free, busy>>
workerVars    == <<workerMutex, workerStopped, job>>
jobVars       == <<done, workerOf, deleted, ran>>
clientVars    == <<todo, waitFor>>
vars == <<schedulerVars, workerVars, jobVars, pc, clientVars, given>>

Nothing == [worker |-> NoOne, job |-> NoJob]

Init ==
  /\ mutex = NoOne /\ stopped = FALSE
  /\ pending = <<>> /\ free = <<>> /\ busy = {}
  /\ workerMutex = [w \in Workers |-> NoOne]
  /\ workerStopped = [w \in Workers |-> FALSE]
  /\ job = [w \in Workers |-> NoJob]
  /\ done = [j \in Jobs |-> FALSE] /\ workerOf = [j \in Jobs |-> NoOne]
  /\ deleted = {} /\ ran = [j \in Jobs |-> 0]
  /\ pc = [t \in Threads |-> IF t = Client THEN "init" ELSE "new"]
  /\ todo = Jobs /\ waitFor = Jobs \ Abandoned
  /\ given = [t \in {Client, Monitor} |-> Nothing]

Goto(t, label) == pc' = [pc EXCEPT ![t] = label]

-----------------------------------------------------------------------------
(* Scheduler::Init: each thread is started and awaited in turn, with the    *)
(* scheduler's mutex held until only the monitor is missing.                *)

StartWorker(w) ==
  /\ pc[Client] = "init" /\ pc[w] = "new"
  /\ \A v \in Workers : pc[v] # "starting"
  /\ Goto(w, "starting")
  /\ UNCHANGED <<schedulerVars, workerVars, jobVars, clientVars, given>>

WorkerReady(w) ==
  /\ pc[w] = "starting"
  /\ Goto(w, "top")
  /\ UNCHANGED <<schedulerVars, workerVars, jobVars, clientVars, given>>

StartMonitor ==
  /\ pc[Client] = "init" /\ pc[Monitor] = "new"
  /\ \A w \in Workers : pc[w] \notin {"new", "starting"}
  /\ pc' = [pc EXCEPT ![Client] = "awaitMonitor", ![Monitor] = "starting"]
  /\ UNCHANGED <<schedulerVars, workerVars, jobVars, clientVars, given>>

MonitorReady ==
  /\ pc[Monitor] = "starting"
  /\ pc' = [pc EXCEPT ![Client] = "dispatch", ![Monitor] = "top"]
  /\ UNCHANGED <<schedulerVars, workerVars, jobVars, clientVars, given>>

-----------------------------------------------------------------------------
(* Worker::Run, by the client or the monitor.                               *)

Run(t) ==
  LET w == given[t].worker
      j == given[t].job
  IN /\ workerMutex[w] = NoOne
     /\ job' = [job EXCEPT ![w] = j]
     /\ workerOf' = [workerOf EXCEPT ![j] = w]
     /\ given' = [given EXCEPT ![t] = Nothing]

(* Bug: Dispatch does not mark the worker busy.                             *)
MarkBusyForgotten(w) == busy' = busy

(* The workers Dispatch may choose: find_if takes the first of them.        *)
MarkBusy(w) == busy' = busy \cup {w}
Idle == { w \in Workers : ~workerStopped[w] /\ w \notin busy }

DispatchToWorker(j) ==
  /\ pc[Client] = "dispatch" /\ j \in todo /\ mutex = NoOne
  /\ \E w \in Idle : /\ MarkBusy(w)
                     /\ given' = [given EXCEPT ![Client] = [worker |-> w, job |-> j]]
  /\ todo' = todo \ {j}
  /\ Goto(Client, "run")
  /\ UNCHANGED <<mutex, stopped, pending, free, workerVars, jobVars, waitFor>>

DispatchRun ==
  /\ pc[Client] = "run"
  /\ Run(Client)
  /\ Goto(Client, "dispatch")
  /\ UNCHANGED <<schedulerVars, workerMutex, workerStopped, done, deleted, ran,
                 clientVars>>

DispatchToQueue(j) ==
  /\ pc[Client] = "dispatch" /\ j \in todo /\ mutex = NoOne
  /\ Idle = {}
  /\ pending' = Append(pending, j)
  /\ todo' = todo \ {j}
  /\ UNCHANGED <<mutex, stopped, free, busy, workerVars, jobVars, pc, waitFor, given>>

-----------------------------------------------------------------------------
(* Status::Wait on one job after the other, then delete.                    *)

StartWait(j) ==
  /\ pc[Client] = "dispatch" /\ todo = {} /\ j \in waitFor
  /\ given' = [given EXCEPT ![Client] = [worker |-> NoOne, job |-> j]]
  /\ Goto(Client, "wait")
  /\ UNCHANGED <<schedulerVars, workerVars, jobVars, clientVars>>

WaitOver(j) == done[j]

(* while (!job_.done_), read without a lock; then the caller deletes the    *)
(* Status (perft.cpp:162-165).                                              *)
WaitEnds ==
  /\ pc[Client] = "wait" /\ WaitOver(given[Client].job)
  /\ deleted' = deleted \cup {given[Client].job}
  /\ waitFor' = waitFor \ {given[Client].job}
  /\ given' = [given EXCEPT ![Client] = Nothing]
  /\ Goto(Client, "dispatch")
  /\ UNCHANGED <<schedulerVars, workerVars, done, workerOf, ran, todo>>

(* The job was not done; its worker is read, again without a lock.          *)
WaitReadsWorker ==
  /\ pc[Client] = "wait" /\ ~done[given[Client].job]
  /\ workerOf[given[Client].job] # NoOne
  /\ given' = [given EXCEPT ![Client].worker = workerOf[given[Client].job]]
  /\ Goto(Client, "waitOnWorker")
  /\ UNCHANGED <<schedulerVars, workerVars, jobVars, clientVars>>

(* Without a worker the loop looks again, unless the build has read done_   *)
(* and worker_ for the last time: they are neither volatile nor atomic, and *)
(* gcc -O3, the release option, turns the nullptr path into a jump to       *)
(* itself.                                                                  *)
WaitSpins ==
  /\ pc[Client] = "wait" /\ ~done[given[Client].job]
  /\ workerOf[given[Client].job] = NoOne
  /\ Goto(Client, "spin")
  /\ UNCHANGED <<schedulerVars, workerVars, jobVars, clientVars, given>>

Spin == pc[Client] = "spin" /\ UNCHANGED vars

WaitOnWorker ==
  /\ pc[Client] = "waitOnWorker"
  /\ workerMutex[given[Client].worker] = NoOne /\ done[given[Client].job]
  /\ Goto(Client, "wait")
  /\ UNCHANGED <<schedulerVars, workerVars, jobVars, clientVars, given>>

-----------------------------------------------------------------------------
(* Scheduler::Stop, from the destructor.                                    *)

StartStop ==
  /\ pc[Client] = "dispatch" /\ todo = {} /\ waitFor = {}
  /\ mutex = NoOne
  /\ Goto(Client, "stopWorkers")
  /\ UNCHANGED <<schedulerVars, workerVars, jobVars, clientVars, given>>

(* Worker::Stop up to the join; the worker before it has been joined.       *)
StopWorker(w) ==
  /\ pc[Client] = "stopWorkers"
  /\ ~workerStopped[w] /\ workerMutex[w] = NoOne
  /\ \A v \in Workers : workerStopped[v] => pc[v] = "exited"
  /\ workerStopped' = [workerStopped EXCEPT ![w] = TRUE]
  /\ UNCHANGED <<schedulerVars, workerMutex, job, jobVars, pc, clientVars, given>>

(* Bug: the flag the monitor's wait looks at is not set.                    *)
SetStoppedForgotten == stopped' = stopped
SetStopped == stopped' = TRUE

StopScheduler ==
  /\ pc[Client] = "stopWorkers" /\ mutex = NoOne
  /\ \A w \in Workers : pc[w] = "exited"
  /\ SetStopped
  /\ Goto(Client, "joinMonitor")
  /\ UNCHANGED <<mutex, pending, free, busy, workerVars, jobVars, clientVars, given>>

JoinMonitor ==
  /\ pc[Client] = "joinMonitor" /\ pc[Monitor] = "exited"
  /\ Goto(Client, "exited")
  /\ UNCHANGED <<schedulerVars, workerVars, jobVars, clientVars, given>>

-----------------------------------------------------------------------------
(* Worker::Wait, the worker's thread.  From Top or WakeUp to Offer the      *)
(* worker holds its own mutex.                                              *)

Take(w) == workerMutex' = [workerMutex EXCEPT ![w] = w]

(* Bug: a path that returns with the mutex locked.                          *)
ReleaseForgotten(w) == workerMutex' = workerMutex
Release(w) == workerMutex' = [workerMutex EXCEPT ![w] = NoOne]

Top(w) ==
  /\ pc[w] = "top" /\ workerMutex[w] = NoOne
  /\ \/ workerStopped[w] /\ Goto(w, "exited") /\ UNCHANGED workerMutex
     \/ /\ ~workerStopped[w] /\ job[w] # NoJob
        /\ Goto(w, "execute") /\ Take(w)
     \/ /\ ~workerStopped[w] /\ job[w] = NoJob
        /\ Goto(w, "asleep") /\ UNCHANGED workerMutex
  /\ UNCHANGED <<schedulerVars, workerStopped, job, jobVars, clientVars, given>>

WakeUp(w) ==
  /\ pc[w] = "asleep" /\ workerMutex[w] = NoOne
  /\ \/ job[w] # NoJob /\ Goto(w, "execute") /\ Take(w)
     \/ /\ job[w] = NoJob /\ workerStopped[w]
        /\ Goto(w, "top") /\ UNCHANGED workerMutex
  /\ UNCHANGED <<schedulerVars, workerStopped, job, jobVars, clientVars, given>>

(* Job::Execute: the callback, then done_, then worker_.                    *)
CallBack(w) ==
  /\ pc[w] = "execute"
  /\ IF done[job[w]]
     THEN Goto(w, "finish") /\ UNCHANGED ran
     ELSE Goto(w, "done") /\ ran' = [ran EXCEPT ![job[w]] = @ + 1]
  /\ UNCHANGED <<schedulerVars, workerVars, done, workerOf, deleted, clientVars, given>>

SetDone(w) ==
  /\ pc[w] = "done"
  /\ done' = [done EXCEPT ![job[w]] = TRUE]
  /\ Goto(w, "clear")
  /\ UNCHANGED <<schedulerVars, workerVars, workerOf, deleted, ran, clientVars, given>>

ClearWorker(w) ==
  /\ pc[w] = "clear"
  /\ workerOf' = [workerOf EXCEPT ![job[w]] = NoOne]
  /\ Goto(w, "finish")
  /\ UNCHANGED <<schedulerVars, workerVars, done, deleted, ran, clientVars, given>>

(* Bug: job_ keeps pointing at the job that is done.                        *)
EmptyHandForgotten(w) == job' = job
EmptyHand(w) == job' = [job EXCEPT ![w] = NoJob]

(* A worker that was told to stop during the job does not offer itself.     *)
Finish(w) ==
  /\ pc[w] = "finish"
  /\ EmptyHand(w)
  /\ IF workerStopped[w]
     THEN Goto(w, "top") /\ Release(w)
     ELSE Goto(w, "offer") /\ UNCHANGED workerMutex
  /\ UNCHANGED <<schedulerVars, workerStopped, jobVars, clientVars, given>>

(* Bugs: the worker is not queued; it is queued twice.                      *)
MakeAvailableForgotten(w) == free' = free
MakeAvailableTwice(w) == free' = free \o <<w, w>>
MakeAvailable(w) == free' = Append(free, w)

Offer(w) ==
  /\ pc[w] = "offer" /\ mutex = NoOne
  /\ MakeAvailable(w)
  /\ Release(w) /\ Goto(w, "top")
  /\ UNCHANGED <<mutex, stopped, pending, busy, workerStopped, job, jobVars,
                 clientVars, given>>

-----------------------------------------------------------------------------
(* Scheduler::Monitor.  It holds the scheduler's mutex while it scans.      *)

MonitorTop ==
  /\ pc[Monitor] = "top" /\ mutex = NoOne
  /\ IF stopped THEN Goto(Monitor, "exited") ELSE Goto(Monitor, "asleep")
  /\ UNCHANGED <<schedulerVars, workerVars, jobVars, clientVars, given>>

MonitorWakeUp ==
  /\ pc[Monitor] = "asleep" /\ mutex = NoOne
  /\ free # <<>> \/ stopped
  /\ mutex' = Monitor
  /\ Goto(Monitor, "scan")
  /\ UNCHANGED <<stopped, pending, free, busy, workerVars, jobVars, clientVars, given>>

ScanEnds ==
  /\ pc[Monitor] = "scan" /\ free = <<>>
  /\ mutex' = NoOne
  /\ Goto(Monitor, "top")
  /\ UNCHANGED <<stopped, pending, free, busy, workerVars, jobVars, clientVars, given>>

NothingPending == pending = <<>>

FreeWorkerIdles ==
  /\ pc[Monitor] = "scan" /\ free # <<>> /\ NothingPending
  /\ free' = Tail(free)
  /\ busy' = busy \ {Head(free)}
  /\ UNCHANGED <<mutex, stopped, pending, workerVars, jobVars, pc, clientVars, given>>

(* Bug: the job is copied from the queue and not popped.                    *)
NextPendingKept == pending
NextPending == Tail(pending)

FreeWorkerGetsJob ==
  /\ pc[Monitor] = "scan" /\ free # <<>> /\ pending # <<>>
  /\ free' = Tail(free) /\ pending' = NextPending
  /\ given' = [given EXCEPT ![Monitor] = [worker |-> Head(free), job |-> Head(pending)]]
  /\ Goto(Monitor, "run")
  /\ UNCHANGED <<mutex, stopped, busy, workerVars, jobVars, clientVars>>

MonitorRun ==
  /\ pc[Monitor] = "run"
  /\ Run(Monitor)
  /\ Goto(Monitor, "scan")
  /\ UNCHANGED <<schedulerVars, workerMutex, workerStopped, done, deleted, ran,
                 clientVars>>

-----------------------------------------------------------------------------
WorkerStep(w) ==
  \/ WorkerReady(w) \/ Top(w) \/ WakeUp(w) \/ CallBack(w) \/ SetDone(w)
  \/ ClearWorker(w) \/ Finish(w) \/ Offer(w)

MonitorStep ==
  \/ MonitorReady \/ MonitorTop \/ MonitorWakeUp \/ ScanEnds
  \/ FreeWorkerIdles \/ FreeWorkerGetsJob \/ MonitorRun

ClientStep ==
  \/ \E w \in Workers : StartWorker(w)
  \/ StartMonitor
  \/ \E j \in Jobs : DispatchToWorker(j) \/ DispatchToQueue(j) \/ StartWait(j)
  \/ DispatchRun \/ WaitEnds \/ WaitReadsWorker \/ WaitOnWorker
  \/ StartStop \/ StopScheduler \/ JoinMonitor
  \/ \E w \in Workers : StopWorker(w)

Terminated == (\A t \in Threads : pc[t] = "exited") /\ UNCHANGED vars

Next ==
  \/ ClientStep \/ WaitSpins \/ Spin
  \/ MonitorStep
  \/ \E w \in Workers : WorkerStep(w)
  \/ Terminated

Spec == Init /\ [][Next]_vars

(* The operating system schedules every thread, and a callback returns.     *)
(* Nothing makes a build hoist the reads of Status::Wait.                   *)
Fairness ==
  /\ WF_vars(ClientStep) /\ WF_vars(MonitorStep)
  /\ \A w \in Workers : WF_vars(WorkerStep(w))

FairSpec == Spec /\ Fairness

-----------------------------------------------------------------------------
(* Properties                                                               *)

(* The variables keep their types; the scheduler's mutex is only ever held  *)
(* across steps by the monitor's scan, a worker's by the worker with a job. *)
TypeOK ==
  /\ mutex = IF pc[Monitor] \in {"scan", "run"} THEN Monitor ELSE NoOne
  /\ stopped \in BOOLEAN
  /\ pending \in Seq(Jobs) /\ free \in Seq(Workers) /\ busy \subseteq Workers
  /\ workerMutex = [w \in Workers |->
       IF pc[w] \in {"execute", "done", "clear", "finish", "offer"} THEN w ELSE NoOne]
  /\ workerStopped \in [Workers -> BOOLEAN]
  /\ job \in [Workers -> Jobs \cup {NoJob}]
  /\ done \in [Jobs -> BOOLEAN] /\ workerOf \in [Jobs -> Workers \cup {NoOne}]
  /\ deleted \subseteq Jobs /\ ran \in [Jobs -> Nat]
  /\ pc \in [Threads -> {"init", "awaitMonitor", "dispatch", "run", "wait",
                         "waitOnWorker", "spin", "stopWorkers", "joinMonitor",
                         "exited", "new", "starting", "top", "asleep", "scan",
                         "execute", "done", "clear", "finish", "offer"}]
  /\ todo \subseteq Jobs /\ waitFor \subseteq Jobs
  /\ given \in [{Client, Monitor} ->
                [worker : Workers \cup {NoOne}, job : Jobs \cup {NoJob}]]

(* The places a worker may be on its way through the pool: about to be      *)
(* given a job, holding one, or on its way to or in the free queue.         *)
Places(w) ==
  { t \in {Client, Monitor} : given[t].worker = w /\ pc[t] = "run" }
  \cup { p \in {"holds"} : job[w] # NoJob }
  \cup { p \in {"offers"} : pc[w] = "offer" }
  \cup { i \in DOMAIN free : free[i] = w }

(* busy_ tells the truth: a worker that may still take jobs is in it if and *)
(* only if it is in exactly one of those places, so no thread ever writes   *)
(* job_ over a job that is still there, and no worker is queued twice       *)
(* (which would deadlock the monitor against MakeAvailable).  A job is      *)
(* queued only while every worker is busy, and stays queued only as long:   *)
(* no worker idles while a job is pending.                                  *)
BusyExact ==
  /\ \A w \in Workers :
       /\ w \notin busy => Cardinality(Places(w)) = 0
       /\ w \in busy /\ ~workerStopped[w] => Cardinality(Places(w)) = 1
  /\ pending # <<>> => Idle = {}

(* The hands a job may be in.                                               *)
Hands(j) ==
  { i \in DOMAIN pending : pending[i] = j }
  \cup { t \in {Client, Monitor} : given[t].job = j /\ pc[t] = "run" }
  \cup { w \in Workers : job[w] = j }

(* A job is never lost and never in two hands: it is not dispatched yet, or *)
(* pending (for good, once the pool is stopped), or with one thread, or its *)
(* callback is done.  The callback runs once at most, and a Status whose    *)
(* Wait has returned has had it run.                                        *)
JobHeldOnce ==
  \A j \in Jobs :
    /\ Cardinality(Hands(j)) <= 1
    /\ Hands(j) = {} /\ ~done[j] => j \in todo
    /\ ran[j] <= 1
    /\ j \in deleted => ran[j] = 1

(* No one touches a Status after its owner deleted it.                      *)
NoUseAfterDelete ==
  \A w \in Workers : pc[w] = "clear" => job[w] \notin deleted

(* Every Wait returns: what the client waits for is done in the end, unless *)
(* the build loops without reading it (scheduler.cpp:147-160).              *)
WaitReturns ==
  \A j \in Jobs : (pc[Client] = "wait" /\ given[Client].job = j)
                  ~> (j \in deleted \/ pc[Client] = "spin")

(* The pool can always be shut down: once the client gets there it joins    *)
(* every thread, whatever the workers are doing (scheduler.cpp:72-95).      *)
ShutsDown == pc[Client] = "stopWorkers" ~> \A t \in Threads : pc[t] = "exited"
=============================================================================
