--------------------------- MODULE ThreadManager ---------------------------
(***************************************************************************)
(* vkte::ThreadManager: a fixed pool of worker threads, a linked queue of    *)
(* tasks under one mutex, a condition variable for the workers and one for   *)
(* wait_all.                                                                 *)
(*                                                                           *)
(* A step is a critical section of tasks_mutex or what a thread does between *)
(* two of them.  A thread blocked in a condition variable only goes on after *)
(* a notification (or spuriously) and then checks its predicate again.       *)
(***************************************************************************)
EXTENDS Naturals, Sequences, FiniteSets

CONSTANTS
  Workers,   (* the worker threads                                             *)
  Clients,   (* the threads that call run, wait_all and force_stop             *)
  Tasks,     (* the tasks, each run at most once                               *)
  Null       (* no task                                                        *)

ASSUME ThreadsAssumption ==
  Workers \intersect Clients = {} /\ Clients # {} /\ IsFiniteSet(Workers)
ASSUME NullAssumption == Null \notin Tasks

VARIABLES
  queue,          (* the tasks linked from queue_head                          *)
  queue_tail,     (* the task that the next one is linked to                   *)
  pending_tasks,  (* tasks accepted and neither executed nor dropped           *)
  stopping,
  task,           (* worker -> the task it holds                               *)
  future,         (* task -> state of the future that run returned             *)
  pc              (* thread -> where it is                                     *)

vars == <<queue, queue_tail, pending_tasks, stopping, task, future, pc>>

Threads == Workers \union Clients
Futures == {"none", "pending", "ready", "broken"}
WorkerStates == {"lock", "tasks_wait", "run", "notify", "finish", "release", "exited"}
ClientStates == {"idle", "notify", "wait_lock", "idle_wait", "stop", "notify_all",
                 "join", "destructor_stop", "destructor_notify_all",
                 "destructor_join", "gone"}

Init ==
  /\ queue = <<>>
  /\ queue_tail = Null
  /\ pending_tasks = 0
  /\ stopping = FALSE
  /\ task = [w \in Workers |-> Null]
  /\ future = [t \in Tasks |-> "none"]
  /\ pc = [p \in Threads |-> IF p \in Workers THEN "lock" ELSE "idle"]

Goto(p, label) == pc' = [pc EXCEPT ![p] = label]
Queued == {queue[i] : i \in DOMAIN queue}
Blocked(label) == {p \in Threads : pc[p] = label}

(* Nobody may call the manager once its destructor has been called.          *)
Alive == \A c \in Clients :
  pc[c] \notin {"destructor_stop", "destructor_notify_all", "destructor_join", "gone"}

-----------------------------------------------------------------------------
(* run                                                                      *)

(* Mutant: the task goes in front of the queue.                              *)
LinkedInFront(t) == <<t>> \o queue

(* Linking t behind queue_tail, or as the head when there is none.  A tail   *)
(* that is not in the queue would take the task with it.                     *)
Linked(t) ==
  IF queue_tail = Null THEN <<t>>
  ELSE IF queue # <<>> /\ queue[Len(queue)] = queue_tail THEN Append(queue, t)
  ELSE queue

(* A client, or a task that a worker executes, runs t.                       *)
Run(p, t) ==
  /\ pc[p] = IF p \in Workers THEN "run" ELSE "idle"
  /\ future[t] = "none"
  /\ p \in Clients => Alive
  /\ pending_tasks' = pending_tasks + 1
  /\ queue' = Linked(t)
  /\ queue_tail' = t
  /\ future' = [future EXCEPT ![t] = "pending"]
  /\ Goto(p, "notify")
  /\ UNCHANGED <<stopping, task>>

(* Mutant: nobody is woken.                                                  *)
NotifyNobody(p) ==
  /\ pc[p] = "notify"
  /\ Goto(p, IF p \in Workers THEN "run" ELSE "idle")
  /\ UNCHANGED <<queue, queue_tail, pending_tasks, stopping, task, future>>

(* tasks_cv.notify_one, after the mutex was released: one blocked worker, if *)
(* there is any, gets to check its predicate.                                *)
NotifyOne(p) ==
  /\ pc[p] = "notify"
  /\ LET resumed == [pc EXCEPT ![p] = IF p \in Workers THEN "run" ELSE "idle"]
     IN IF Blocked("tasks_wait") = {} THEN pc' = resumed
        ELSE \E w \in Blocked("tasks_wait") : pc' = [resumed EXCEPT ![w] = "lock"]
  /\ UNCHANGED <<queue, queue_tail, pending_tasks, stopping, task, future>>

-----------------------------------------------------------------------------
(* worker_loop                                                              *)

(* The predicate of the wait does not hold: the worker blocks.               *)
Wait(w) ==
  /\ pc[w] = "lock"
  /\ queue = <<>> /\ ~stopping
  /\ Goto(w, "tasks_wait")
  /\ UNCHANGED <<queue, queue_tail, pending_tasks, stopping, task, future>>

Exit(w) ==
  /\ pc[w] = "lock"
  /\ queue = <<>> /\ stopping
  /\ Goto(w, "exited")
  /\ UNCHANGED <<queue, queue_tail, pending_tasks, stopping, task, future>>

(* Mutant: the task counts as done when it is taken, too.                    *)
TakeCounted(w) ==
  /\ pc[w] = "lock"
  /\ queue # <<>>
  /\ task' = [task EXCEPT ![w] = Head(queue)]
  /\ queue' = Tail(queue)
  /\ queue_tail' = IF Tail(queue) = <<>> THEN Null ELSE queue_tail
  /\ pending_tasks' = pending_tasks - 1
  /\ Goto(w, "run")
  /\ UNCHANGED <<stopping, future>>

Take(w) ==
  /\ pc[w] = "lock"
  /\ queue # <<>>
  /\ task' = [task EXCEPT ![w] = Head(queue)]
  /\ queue' = Tail(queue)
  /\ queue_tail' = IF Tail(queue) = <<>> THEN Null ELSE queue_tail
  /\ Goto(w, "run")
  /\ UNCHANGED <<pending_tasks, stopping, future>>

(* The task returned or threw; either makes its future ready.                *)
Execute(w) ==
  /\ pc[w] = "run"
  /\ future' = [future EXCEPT ![task[w]] = "ready"]
  /\ Goto(w, "finish")
  /\ UNCHANGED <<queue, queue_tail, pending_tasks, stopping, task>>

(* Mutant: only one of them.                                                 *)
GotoAndWakeOne(p, label, blocked, woken) ==
  IF Blocked(blocked) = {} THEN Goto(p, label)
  ELSE \E q \in Blocked(blocked) : pc' = [pc EXCEPT ![p] = label, ![q] = woken]

(* Wakes every thread blocked at a label, beside moving p.                   *)
GotoAndWakeAll(p, label, blocked, woken) ==
  pc' = [q \in Threads |-> IF q = p THEN label
                           ELSE IF pc[q] = blocked THEN woken ELSE pc[q]]

FinishTask(w) ==
  /\ pc[w] = "finish"
  /\ pending_tasks' = pending_tasks - 1
  /\ IF pending_tasks' = 0 THEN GotoAndWakeAll(w, "release", "idle_wait", "wait_lock")
                           ELSE Goto(w, "release")
  /\ UNCHANGED <<queue, queue_tail, stopping, task, future>>

(* The task itself, with what it captured, is destroyed after wait_all may   *)
(* have returned.                                                            *)
ReleaseTask(w) ==
  /\ pc[w] = "release"
  /\ task' = [task EXCEPT ![w] = Null]
  /\ Goto(w, "lock")
  /\ UNCHANGED <<queue, queue_tail, pending_tasks, stopping, future>>

-----------------------------------------------------------------------------
(* wait_all                                                                 *)

WaitAll(c) ==
  /\ pc[c] = "idle" /\ Alive
  /\ Goto(c, "wait_lock")
  /\ UNCHANGED <<queue, queue_tail, pending_tasks, stopping, task, future>>

WaitIdle(c) ==
  /\ pc[c] = "wait_lock"
  /\ pending_tasks # 0
  /\ Goto(c, "idle_wait")
  /\ UNCHANGED <<queue, queue_tail, pending_tasks, stopping, task, future>>

WaitAllReturns(c) ==
  /\ pc[c] = "wait_lock"
  /\ pending_tasks = 0
  /\ Goto(c, "idle")
  /\ UNCHANGED <<queue, queue_tail, pending_tasks, stopping, task, future>>

-----------------------------------------------------------------------------
(* force_stop and the destructor                                            *)

Stopping(c) == pc[c] \in {"stop", "notify_all", "join"}

(* force_stop drops the queued tasks, whose futures get broken promises.  It *)
(* joins the workers, so only one thread may be in it at a time.             *)
ForceStop(c) ==
  /\ pc[c] = "idle" /\ Alive
  /\ \A d \in Clients : ~Stopping(d)
  /\ queue' = <<>>
  /\ queue_tail' = Null
  /\ pending_tasks' = pending_tasks - Len(queue)
  /\ future' = [t \in Tasks |-> IF t \in Queued THEN "broken" ELSE future[t]]
  /\ IF pending_tasks' = 0 THEN GotoAndWakeAll(c, "stop", "idle_wait", "wait_lock")
                           ELSE Goto(c, "stop")
  /\ UNCHANGED <<stopping, task>>

(* ~ThreadManager, when no other thread is in a call anymore.                *)
Destroy(c) ==
  /\ \A d \in Clients : pc[d] = "idle"
  /\ Goto(c, "destructor_stop")
  /\ UNCHANGED <<queue, queue_tail, pending_tasks, stopping, task, future>>

(* stop_and_join                                                             *)
Stop(c) ==
  /\ pc[c] \in {"stop", "destructor_stop"}
  /\ stopping' = TRUE
  /\ Goto(c, IF pc[c] = "stop" THEN "notify_all" ELSE "destructor_notify_all")
  /\ UNCHANGED <<queue, queue_tail, pending_tasks, task, future>>

NotifyAll(c) ==
  /\ pc[c] \in {"notify_all", "destructor_notify_all"}
  /\ GotoAndWakeAll(c, IF pc[c] = "notify_all" THEN "join" ELSE "destructor_join",
                    "tasks_wait", "lock")
  /\ UNCHANGED <<queue, queue_tail, pending_tasks, stopping, task, future>>

Exited == \A w \in Workers : pc[w] = "exited"

Join(c) ==
  /\ pc[c] = "join"
  /\ Exited
  /\ Goto(c, "idle")
  /\ UNCHANGED <<queue, queue_tail, pending_tasks, stopping, task, future>>

(* What is still queued is destroyed with the manager.                       *)
JoinAndDestroy(c) ==
  /\ pc[c] = "destructor_join"
  /\ Exited
  /\ queue' = <<>>
  /\ future' = [t \in Tasks |-> IF t \in Queued THEN "broken" ELSE future[t]]
  /\ pc' = [p \in Threads |-> IF p \in Clients THEN "gone" ELSE pc[p]]
  /\ UNCHANGED <<queue_tail, pending_tasks, stopping, task>>

Gone == \A c \in Clients : pc[c] = "gone"

Destroyed ==
  /\ Gone
  /\ UNCHANGED vars

-----------------------------------------------------------------------------
(* std::condition_variable::wait may return without a notification.          *)
SpuriousWakeup(p) ==
  /\ \/ pc[p] = "tasks_wait" /\ Goto(p, "lock")
     \/ pc[p] = "idle_wait" /\ Goto(p, "wait_lock")
  /\ UNCHANGED <<queue, queue_tail, pending_tasks, stopping, task, future>>

WorkerStep(w) == Wait(w) \/ Exit(w) \/ Take(w) \/ Execute(w) \/ FinishTask(w) \/ ReleaseTask(w)
                   \/ NotifyOne(w)

(* What a client does within a call.                                         *)
ClientStep(c) ==
  NotifyOne(c) \/ WaitIdle(c) \/ WaitAllReturns(c) \/ Stop(c) \/ NotifyAll(c) \/ Join(c)
    \/ JoinAndDestroy(c)

ClientCall(c) == WaitAll(c) \/ ForceStop(c) \/ Destroy(c)

Next ==
  \/ \E p \in Threads, t \in Tasks : Run(p, t)
  \/ \E w \in Workers : WorkerStep(w)
  \/ \E c \in Clients : ClientStep(c) \/ ClientCall(c)
  \/ \E p \in Threads : SpuriousWakeup(p)
  \/ Destroyed

Spec == Init /\ [][Next]_vars

(* Tasks return, every thread that can go on does and gets the mutex.        *)
(* Nobody has to call anything, and no spurious wakeup has to happen.        *)
FairSpec ==
  /\ Spec
  /\ \A w \in Workers : WF_vars(WorkerStep(w))
  /\ \A c \in Clients : WF_vars(ClientStep(c))

-----------------------------------------------------------------------------
(* Types.                                                                   *)

(* Every variable has its type.                                              *)
TypeOK ==
  /\ queue \in Seq(Tasks)
  /\ queue_tail \in Tasks \union {Null}
  /\ pending_tasks \in Nat
  /\ stopping \in BOOLEAN
  /\ task \in [Workers -> Tasks \union {Null}]
  /\ future \in [Tasks -> Futures]
  /\ pc \in [Threads -> WorkerStates \union ClientStates]
  /\ \A w \in Workers : pc[w] \in WorkerStates
  /\ \A c \in Clients : pc[c] \in ClientStates

-----------------------------------------------------------------------------
(* Safety.                                                                  *)

Busy == {w \in Workers : pc[w] \in {"run", "notify", "finish"}}

(* pending_tasks counts the tasks in the queue and in the workers, so that   *)
(* it is 0 exactly when there is nothing left to wait for.                   *)
PendingCount == ~Gone => pending_tasks = Len(queue) + Cardinality(Busy)

(* The moment wait_all decides to return, every task accepted until then has *)
(* been executed or dropped.                                                 *)
WaitAllMeansDone ==
  [][\A c \in Clients : pc[c] = "wait_lock" /\ pc'[c] = "idle" =>
       \A t \in Tasks : future[t] # "pending"]_vars

-----------------------------------------------------------------------------
(* Refinement.                                                              *)

Pool == INSTANCE TaskPool WITH
  WorkerCount <- Cardinality(Workers),
  waiting <- queue,
  started <- {task[w] : w \in {v \in Workers : pc[v] \in {"run", "notify"}}},
  finished <- {t \in Tasks : future[t] = "ready"},
  dropped <- {t \in Tasks : future[t] = "broken"}

(* The pool keeps the promises of TaskPool: tasks start in the order of the  *)
(* run calls, at most once, and are executed or dropped.                     *)
RefinesTaskPool == Pool!Spec

-----------------------------------------------------------------------------
(* Liveness.                                                                *)

(* Every task that is run before the workers are told to stop is executed or *)
(* dropped: no notification is lost, not even by stopping while tasks wait   *)
(* or by a task that runs another one meanwhile.                             *)
TasksSettle ==
  \A t \in Tasks :
    future[t] = "pending" /\ ~stopping ~> future[t] \in {"ready", "broken"}

(* wait_all returns, also when force_stop empties the queue meanwhile, unless*)
(* a client ran a task after the workers had left; and force_stop and the    *)
(* destructor return: every worker gets to exit.                             *)
Stranded == Exited /\ queue # <<>>
CallsEnd ==
  \A c \in Clients :
    /\ pc[c] = "wait_lock" ~> pc[c] = "idle" \/ Stranded
    /\ pc[c] \in {"stop", "destructor_stop"} ~> pc[c] \in {"idle", "gone"}
=============================================================================
