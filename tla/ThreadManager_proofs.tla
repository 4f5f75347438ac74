------------------------ MODULE ThreadManager_proofs ------------------------
(***************************************************************************)
(* Proofs about ThreadManager for any workers, clients and tasks.            *)
(*                                                                           *)
(* That wait_all returns only when every accepted task is done needs to know *)
(* that pending_tasks counts the queued and the taken tasks, that a pending  *)
(* future belongs to one of those, and that queue_tail is the last of the    *)
(* queue, since otherwise run would link a task to nothing that is taken.    *)
(***************************************************************************)
EXTENDS ThreadManager, FiniteSetTheorems, TLAPS

-----------------------------------------------------------------------------
(* The inductive invariant.                                                 *)

Working(w) == pc[w] \in {"run", "notify"}

(* A task whose future is pending waits in the queue or in a worker.         *)
PendingIsSomewhere ==
  \A t \in Tasks : future[t] = "pending" =>
    t \in Queued \/ \E w \in Workers : Working(w) /\ task[w] = t

TailIsLast ==
  IF queue = <<>> THEN queue_tail = Null ELSE queue_tail = queue[Len(queue)]

(* A task is in one place only, and its future is pending while it is there. *)
TasksOnce ==
  /\ \A i, j \in DOMAIN queue : queue[i] = queue[j] => i = j
  /\ \A t \in Queued : future[t] = "pending"
  /\ \A w \in Workers : Working(w) =>
       task[w] \in Tasks /\ task[w] \notin Queued /\ future[task[w]] = "pending"
  /\ \A v, w \in Workers : Working(v) /\ Working(w) /\ task[v] = task[w] => v = w

GoneIsExited == Gone => Exited

IInv ==
  /\ TypeOK
  /\ GoneIsExited
  /\ PendingCount
  /\ ~Gone => PendingIsSomewhere /\ TailIsLast /\ TasksOnce

-----------------------------------------------------------------------------
(* Counting the busy workers.                                               *)

LEMMA BusyFinite ==
  IsFiniteSet(Busy) /\ Cardinality(Busy) \in Nat
<1>1. Busy \subseteq Workers
  BY DEF Busy
<1> QED
  BY <1>1, ThreadsAssumption, FS_Subset, FS_CardinalityType

LEMMA BusyGrows ==
  ASSUME NEW w \in Workers, w \notin Busy, Busy' = Busy \union {w}
  PROVE  Cardinality(Busy') = Cardinality(Busy) + 1
BY BusyFinite, FS_AddElement

LEMMA BusyShrinks ==
  ASSUME NEW w \in Workers, w \in Busy, Busy' = Busy \ {w}
  PROVE  Cardinality(Busy') = Cardinality(Busy) - 1
BY BusyFinite, FS_RemoveElement

LEMMA BusyPositive ==
  ASSUME NEW w \in Workers, w \in Busy
  PROVE  Cardinality(Busy) > 0
BY BusyFinite, FS_EmptySet

-----------------------------------------------------------------------------
(* When the manager is gone, nothing happens anymore.                        *)

LEMMA GoneStays ==
  ASSUME TypeOK, GoneIsExited, Gone, [Next]_vars
  PROVE  UNCHANGED vars
<1>1. /\ \A c \in Clients : pc[c] = "gone"
      /\ \A w \in Workers : pc[w] = "exited"
  BY DEF GoneIsExited, Gone, Exited
<1>2. ASSUME NEW p \in Threads, NEW t \in Tasks, Run(p, t)
      PROVE  FALSE
  BY <1>1, <1>2 DEF Run, Threads
<1>3. ASSUME NEW w \in Workers, WorkerStep(w)
      PROVE  FALSE
  BY <1>1, <1>3 DEF WorkerStep, Wait, Exit, Take, Execute, FinishTask, ReleaseTask, NotifyOne
<1>4. ASSUME NEW c \in Clients, ClientStep(c)
      PROVE  FALSE
  BY <1>1, <1>4 DEF ClientStep, NotifyOne, WaitIdle, WaitAllReturns, Stop, NotifyAll, Join,
     JoinAndDestroy
<1>5. ASSUME NEW c \in Clients, ClientCall(c)
      PROVE  FALSE
  BY <1>1, <1>5 DEF ClientCall, WaitAll, ForceStop, Destroy
<1>6. ASSUME NEW p \in Threads, SpuriousWakeup(p)
      PROVE  FALSE
  BY <1>1, <1>6 DEF SpuriousWakeup, Threads
<1> QED
  BY <1>2, <1>3, <1>4, <1>5, <1>6 DEF Next, Destroyed

-----------------------------------------------------------------------------
(* Steps that move threads, but no task and no working thread.               *)

NoTaskMoves ==
  /\ UNCHANGED <<queue, future>>
  /\ \A w \in Workers : /\ pc'[w] \in {"run", "notify"} <=> Working(w)
                        /\ Working(w) => task'[w] = task[w]

LEMMA QuietStep ==
  ASSUME IInv, ~Gone, TypeOK', ~Gone',
         NoTaskMoves, UNCHANGED <<queue_tail, pending_tasks>>,
         \A w \in Workers : pc'[w] = "finish" <=> pc[w] = "finish"
  PROVE  IInv'
<1>1. Busy' = Busy
  BY DEF Busy, Working, NoTaskMoves
<1>2. PendingCount'
  BY <1>1 DEF IInv, PendingCount, NoTaskMoves
<1>3. PendingIsSomewhere' /\ TailIsLast'
  BY DEF IInv, PendingIsSomewhere, TailIsLast, Queued, Working, NoTaskMoves
<1>4. TasksOnce'
  BY DEF IInv, TasksOnce, Queued, Working, NoTaskMoves
<1> QED
  BY <1>2, <1>3, <1>4 DEF IInv, GoneIsExited

(* Thread p goes to label, and some that were blocked may wake up.           *)
Moves(p, label, blocked, woken) ==
  /\ pc' = [r \in Threads |-> pc'[r]]
  /\ pc'[p] = label
  /\ \A r \in Threads \ {p} : pc'[r] = pc[r] \/ (pc[r] = blocked /\ pc'[r] = woken)

LEMMA GotoMoves ==
  ASSUME TypeOK, NEW p \in Threads, NEW label, Goto(p, label)
  PROVE  Moves(p, label, "tasks_wait", "lock")
BY DEF TypeOK, Goto, Moves

LEMMA WakeAllMoves ==
  ASSUME TypeOK, NEW p \in Threads, NEW label, NEW blocked, NEW woken,
         GotoAndWakeAll(p, label, blocked, woken)
  PROVE  Moves(p, label, blocked, woken)
BY DEF TypeOK, GotoAndWakeAll, Moves

LEMMA NotifyOneMoves ==
  ASSUME TypeOK, NEW p \in Threads, NotifyOne(p)
  PROVE  Moves(p, IF p \in Workers THEN "run" ELSE "idle", "tasks_wait", "lock")
<1> DEFINE to == IF p \in Workers THEN "run" ELSE "idle"
           resumed == [pc EXCEPT ![p] = to]
<1>1. CASE pc' = resumed
  BY <1>1 DEF TypeOK, Moves
<1>2. ASSUME NEW w \in Blocked("tasks_wait"), pc' = [resumed EXCEPT ![w] = "lock"]
      PROVE  Moves(p, to, "tasks_wait", "lock")
  BY <1>2 DEF TypeOK, Moves, Blocked, NotifyOne
<1> QED
  BY <1>1, <1>2 DEF NotifyOne

(* A client that goes to a label of clients other than "gone".               *)
LEMMA ClientMoves ==
  ASSUME IInv, ~Gone, NEW c \in Clients, NEW label \in ClientStates \ {"gone"},
         \/ Moves(c, label, "tasks_wait", "lock")
         \/ Moves(c, label, "idle_wait", "wait_lock"),
         UNCHANGED <<queue, queue_tail, pending_tasks, task, future>>,
         stopping' \in BOOLEAN
  PROVE  IInv' /\ NoTaskMoves
<1>1. TypeOK'
  BY ThreadsAssumption DEF IInv, TypeOK, Threads, Moves, WorkerStates, ClientStates
<1>2. ~Gone'
  BY ThreadsAssumption DEF IInv, TypeOK, Threads, Moves, Gone, WorkerStates, ClientStates
<1>3. NoTaskMoves /\ \A w \in Workers : pc'[w] = "finish" <=> pc[w] = "finish"
  BY ThreadsAssumption DEF IInv, TypeOK, Threads, Moves, Working, ClientStates, NoTaskMoves
<1> QED
  BY <1>1, <1>2, <1>3, QuietStep

(* A worker that goes from one label of its own to another one and stays     *)
(* working, or stays without a task that counts.                             *)
LEMMA WorkerMoves ==
  ASSUME IInv, ~Gone, NEW w \in Workers, NEW label \in WorkerStates,
         Moves(w, label, "tasks_wait", "lock"),
         UNCHANGED <<queue, queue_tail, pending_tasks, stopping, future>>,
         label \in {"run", "notify"} <=> Working(w),
         label = "finish" <=> pc[w] = "finish",
         task' \in [Workers -> Tasks \union {Null}],
         \A v \in Workers : Working(v) => task'[v] = task[v]
  PROVE  IInv' /\ NoTaskMoves
<1>1. TypeOK'
  BY ThreadsAssumption DEF IInv, TypeOK, Threads, Moves, WorkerStates, ClientStates
<1>2. ~Gone'
  BY ThreadsAssumption DEF IInv, TypeOK, Threads, Moves, Gone, WorkerStates, ClientStates
<1>3. NoTaskMoves /\ \A v \in Workers : pc'[v] = "finish" <=> pc[v] = "finish"
  BY ThreadsAssumption DEF IInv, TypeOK, Threads, Moves, Working, ClientStates, NoTaskMoves
<1> QED
  BY <1>1, <1>2, <1>3, QuietStep

LEMMA NotifyOnePreserves ==
  ASSUME IInv, ~Gone, NEW p \in Threads, NotifyOne(p)
  PROVE  IInv' /\ NoTaskMoves
<1>1. Moves(p, IF p \in Workers THEN "run" ELSE "idle", "tasks_wait", "lock")
  BY NotifyOneMoves DEF IInv
<1>2. CASE p \in Workers
  BY <1>1, <1>2, WorkerMoves DEF NotifyOne, Working, WorkerStates, IInv, TypeOK
<1>3. CASE p \in Clients
  BY <1>1, <1>3, ClientMoves, ThreadsAssumption DEF NotifyOne, ClientStates, IInv, TypeOK
<1> QED
  BY <1>2, <1>3 DEF Threads

LEMMA SpuriousWakeupPreserves ==
  ASSUME IInv, ~Gone, NEW p \in Threads, SpuriousWakeup(p)
  PROVE  IInv' /\ NoTaskMoves
<1>1. CASE pc[p] = "tasks_wait"
  <2>1. p \in Workers
    BY <1>1 DEF IInv, TypeOK, Threads, ClientStates
  <2>2. Moves(p, "lock", "tasks_wait", "lock")
    BY <1>1, GotoMoves DEF SpuriousWakeup, IInv
  <2> QED
    BY <1>1, <2>1, <2>2, WorkerMoves DEF SpuriousWakeup, Working, WorkerStates, IInv, TypeOK
<1>2. CASE pc[p] = "idle_wait"
  <2>1. p \in Clients
    BY <1>2 DEF IInv, TypeOK, Threads, WorkerStates
  <2>2. Moves(p, "wait_lock", "tasks_wait", "lock")
    BY <1>2, GotoMoves DEF SpuriousWakeup, IInv
  <2> QED
    BY <2>1, <2>2, ClientMoves DEF SpuriousWakeup, ClientStates, IInv, TypeOK
<1> QED
  BY <1>1, <1>2 DEF SpuriousWakeup

LEMMA QuietWorkerPreserves ==
  ASSUME IInv, ~Gone, NEW w \in Workers, Wait(w) \/ Exit(w) \/ ReleaseTask(w)
  PROVE  IInv' /\ NoTaskMoves
<1>1. CASE Wait(w)
  BY <1>1, GotoMoves, WorkerMoves DEF Wait, Working, WorkerStates, IInv, TypeOK, Threads
<1>2. CASE Exit(w)
  BY <1>2, GotoMoves, WorkerMoves DEF Exit, Working, WorkerStates, IInv, TypeOK, Threads
<1>3. CASE ReleaseTask(w)
  BY <1>3, GotoMoves, WorkerMoves DEF ReleaseTask, Working, WorkerStates, IInv, TypeOK, Threads
<1> QED
  BY <1>1, <1>2, <1>3

LEMMA QuietClientPreserves ==
  ASSUME IInv, ~Gone, NEW c \in Clients,
         WaitAll(c) \/ WaitIdle(c) \/ WaitAllReturns(c) \/ Destroy(c) \/ Stop(c)
           \/ NotifyAll(c) \/ Join(c)
  PROVE  IInv' /\ NoTaskMoves
<1> USE DEF ClientStates, IInv, TypeOK, Threads
<1>1. CASE WaitAll(c)
  BY <1>1, GotoMoves, ClientMoves DEF WaitAll
<1>2. CASE WaitIdle(c)
  BY <1>2, GotoMoves, ClientMoves DEF WaitIdle
<1>3. CASE WaitAllReturns(c)
  BY <1>3, GotoMoves, ClientMoves DEF WaitAllReturns
<1>4. CASE Destroy(c)
  BY <1>4, GotoMoves, ClientMoves DEF Destroy
<1>5. CASE Stop(c)
  BY <1>5, GotoMoves, ClientMoves DEF Stop
<1>6. CASE NotifyAll(c)
  BY <1>6, WakeAllMoves, ClientMoves DEF NotifyAll
<1>7. CASE Join(c)
  BY <1>7, GotoMoves, ClientMoves DEF Join
<1> QED
  BY <1>1, <1>2, <1>3, <1>4, <1>5, <1>6, <1>7

-----------------------------------------------------------------------------
(* Steps that move tasks.                                                   *)

(* Since the tail is the last of the queue, run always links its task.       *)
LEMMA LinkedAppends ==
  ASSUME IInv, ~Gone, NEW t \in Tasks
  PROVE  Linked(t) = Append(queue, t)
BY NullAssumption DEF IInv, TypeOK, TailIsLast, Linked

LEMMA RunPreserves ==
  ASSUME IInv, ~Gone, NEW p \in Threads, NEW t \in Tasks, Run(p, t)
  PROVE  IInv'
<1> USE ThreadsAssumption DEF Threads
<1>1. /\ queue' = Append(queue, t)
      /\ queue_tail' = t
      /\ pending_tasks' = pending_tasks + 1
      /\ future' = [future EXCEPT ![t] = "pending"]
      /\ pc' = [pc EXCEPT ![p] = "notify"]
      /\ UNCHANGED <<stopping, task>>
  BY LinkedAppends DEF Run, Goto
<1>2. TypeOK'
  BY <1>1 DEF IInv, TypeOK, Futures, WorkerStates, ClientStates
<1>3. ~Gone'
  BY <1>1 DEF IInv, TypeOK, Gone
<1>4. Busy' = Busy
  BY <1>1 DEF IInv, TypeOK, Busy, Run
<1>5. PendingCount'
  <2>1. Len(queue') = Len(queue) + 1 /\ Len(queue) \in Nat
    BY <1>1 DEF IInv, TypeOK
  <2> QED
    BY <1>1, <1>4, <2>1, BusyFinite DEF IInv, PendingCount
<1>6. TailIsLast'
  BY <1>1 DEF IInv, TypeOK, TailIsLast
<1>7. Queued' = Queued \union {t}
  <2>1. /\ DOMAIN queue' = DOMAIN queue \union {Len(queue) + 1}
        /\ \A i \in DOMAIN queue : queue'[i] = queue[i]
        /\ queue'[Len(queue) + 1] = t
    BY <1>1 DEF IInv, TypeOK
  <2>2. Queued' \subseteq Queued \union {t}
    BY <2>1 DEF Queued
  <2>3. Queued \subseteq Queued'
    BY <2>1 DEF Queued
  <2>4. t \in Queued'
    BY <2>1 DEF Queued
  <2> QED
    BY <2>2, <2>3, <2>4
<1>8. \A w \in Workers : Working(w)' <=> Working(w)
  BY <1>1 DEF IInv, TypeOK, Working, Run
<1>9. PendingIsSomewhere'
  BY <1>1, <1>7, <1>8 DEF IInv, TypeOK, PendingIsSomewhere
<1>10. TasksOnce'
  <2>1. future[t] = "none" /\ t \notin Queued
    BY DEF Run, IInv, TasksOnce
  <2>2. \A i, j \in DOMAIN queue' : queue'[i] = queue'[j] => i = j
    <3>1. /\ \A i \in DOMAIN queue : queue'[i] = queue[i] /\ queue[i] \in Queued
          /\ queue'[Len(queue) + 1] = t
          /\ DOMAIN queue' = DOMAIN queue \union {Len(queue) + 1}
      BY <1>1 DEF IInv, TypeOK, Queued
    <3> QED
      BY <2>1, <3>1 DEF IInv, TasksOnce
  <2>3. \A u \in Queued' : future'[u] = "pending"
    BY <1>1, <1>7, <2>1 DEF IInv, TypeOK, TasksOnce, Queued
  <2>4. \A w \in Workers : Working(w)' =>
          task'[w] \in Tasks /\ task'[w] \notin Queued' /\ future'[task'[w]] = "pending"
    BY <1>1, <1>7, <1>8, <2>1 DEF IInv, TypeOK, TasksOnce
  <2>5. \A v, w \in Workers : Working(v)' /\ Working(w)' /\ task'[v] = task'[w] => v = w
    BY <1>1, <1>8 DEF IInv, TasksOnce
  <2> QED
    BY <2>2, <2>3, <2>4, <2>5 DEF TasksOnce
<1> QED
  BY <1>2, <1>3, <1>5, <1>6, <1>9, <1>10 DEF IInv, GoneIsExited

(* Taking the head takes it out of the queue, which holds it once.           *)
LEMMA HeadLeaves ==
  ASSUME IInv, ~Gone, queue # <<>>, queue' = Tail(queue)
  PROVE  Queued = Queued' \union {Head(queue)} /\ Head(queue) \notin Queued'
<1>1. /\ DOMAIN queue = 1 .. Len(queue) /\ DOMAIN queue' = 1 .. Len(queue) - 1
      /\ \A i \in DOMAIN queue' : queue'[i] = queue[i + 1]
      /\ Head(queue) = queue[1]
      /\ Len(queue) \in Nat \ {0}
  BY DEF IInv, TypeOK
<1>2. Queued \subseteq Queued' \union {Head(queue)}
  <2> SUFFICES ASSUME NEW i \in DOMAIN queue, i # 1
               PROVE  queue[i] \in Queued'
    BY <1>1 DEF Queued
  <2>1. i - 1 \in DOMAIN queue' /\ queue'[i - 1] = queue[i]
    BY <1>1
  <2> QED
    BY <2>1 DEF Queued
<1>3. Queued' \union {Head(queue)} \subseteq Queued
  <2> SUFFICES ASSUME NEW i \in DOMAIN queue'
               PROVE  queue'[i] \in Queued
    BY <1>1 DEF Queued
  <2>1. i + 1 \in DOMAIN queue /\ queue'[i] = queue[i + 1]
    BY <1>1
  <2> QED
    BY <2>1 DEF Queued
<1>4. Head(queue) \notin Queued'
  <2> SUFFICES ASSUME NEW i \in DOMAIN queue', queue'[i] = Head(queue)
               PROVE  FALSE
    BY DEF Queued
  <2>1. i + 1 \in DOMAIN queue /\ 1 \in DOMAIN queue /\ queue[i + 1] = queue[1] /\ i + 1 # 1
    BY <1>1
  <2> QED
    BY <2>1 DEF IInv, TasksOnce
<1> QED
  BY <1>2, <1>3, <1>4

LEMMA TakePreserves ==
  ASSUME IInv, ~Gone, NEW w \in Workers, Take(w)
  PROVE  IInv'
<1> USE ThreadsAssumption DEF Threads
<1>0. /\ queue # <<>>
      /\ Head(queue) \in Tasks
      /\ pc[w] = "lock"
  BY DEF Take, IInv, TypeOK
<1>1. /\ queue' = Tail(queue)
      /\ queue_tail' = IF Tail(queue) = <<>> THEN Null ELSE queue_tail
      /\ task' = [task EXCEPT ![w] = Head(queue)]
      /\ pc' = [pc EXCEPT ![w] = "run"]
      /\ UNCHANGED <<pending_tasks, stopping, future>>
  BY DEF Take, Goto
<1>2. TypeOK'
  BY <1>0, <1>1 DEF IInv, TypeOK, WorkerStates
<1>3. ~Gone'
  BY <1>1 DEF IInv, TypeOK, Gone
<1>4. PendingCount'
  <2>1. w \notin Busy /\ Busy' = Busy \union {w}
    BY <1>0, <1>1 DEF IInv, TypeOK, Busy
  <2>2. Len(queue') = Len(queue) - 1 /\ Len(queue) \in Nat
    BY <1>0, <1>1 DEF IInv, TypeOK
  <2>3. pending_tasks = Len(queue) + Cardinality(Busy)
    BY DEF IInv, PendingCount
  <2>4. Cardinality(Busy') = Cardinality(Busy) + 1 /\ Cardinality(Busy) \in Nat
    BY <2>1, BusyGrows, BusyFinite
  <2>5. pending_tasks' = Len(queue') + Cardinality(Busy')
    BY <1>1, <2>2, <2>3, <2>4
  <2> QED
    BY <2>5 DEF PendingCount
<1>5. TailIsLast'
  BY <1>0, <1>1 DEF IInv, TypeOK, TailIsLast
<1>6. Queued = Queued' \union {Head(queue)} /\ Head(queue) \notin Queued'
  BY <1>0, <1>1, HeadLeaves
<1>7. Working(w)' /\ task'[w] = Head(queue) /\ ~Working(w)
  BY <1>0, <1>1 DEF IInv, TypeOK, Working
<1>8. \A v \in Workers \ {w} : (Working(v)' <=> Working(v)) /\ task'[v] = task[v]
  BY <1>1 DEF IInv, TypeOK, Working
<1>9. PendingIsSomewhere'
  BY <1>1, <1>6, <1>7, <1>8 DEF IInv, PendingIsSomewhere
<1>10. TasksOnce'
  <2>1. \A i, j \in DOMAIN queue' : queue'[i] = queue'[j] => i = j
    BY <1>0, <1>1 DEF IInv, TypeOK, TasksOnce
  <2>2. \A t \in Queued' : future'[t] = "pending"
    BY <1>1, <1>6 DEF IInv, TasksOnce
  <2>3. \A v \in Workers : Working(v)' =>
          task'[v] \in Tasks /\ task'[v] \notin Queued' /\ future'[task'[v]] = "pending"
    BY <1>0, <1>1, <1>6, <1>7, <1>8 DEF IInv, TasksOnce
  <2>4. \A u, v \in Workers : Working(u)' /\ Working(v)' /\ task'[u] = task'[v] => u = v
    BY <1>6, <1>7, <1>8 DEF IInv, TasksOnce
  <2> QED
    BY <2>1, <2>2, <2>3, <2>4 DEF TasksOnce
<1> QED
  BY <1>2, <1>3, <1>4, <1>5, <1>9, <1>10 DEF IInv, GoneIsExited

LEMMA ExecutePreserves ==
  ASSUME IInv, ~Gone, NEW w \in Workers, Execute(w)
  PROVE  IInv'
<1> USE ThreadsAssumption DEF Threads
<1>1. /\ pc[w] = "run"
      /\ future' = [future EXCEPT ![task[w]] = "ready"]
      /\ pc' = [pc EXCEPT ![w] = "finish"]
      /\ UNCHANGED <<queue, queue_tail, pending_tasks, stopping, task>>
  BY DEF Execute, Goto
<1>2. TypeOK'
  BY <1>1 DEF IInv, TypeOK, Futures, WorkerStates
<1>3. ~Gone'
  BY <1>1 DEF IInv, TypeOK, Gone
<1>4. Busy' = Busy
  BY <1>1 DEF IInv, TypeOK, Busy
<1>5. PendingCount' /\ TailIsLast'
  BY <1>1, <1>4 DEF IInv, PendingCount, TailIsLast
<1>6. PendingIsSomewhere'
  <2> SUFFICES ASSUME NEW t \in Tasks, future'[t] = "pending"
               PROVE  t \in Queued' \/ \E v \in Workers : Working(v)' /\ task'[v] = t
    BY DEF PendingIsSomewhere
  <2>1. future[t] = "pending" /\ task[w] # t
    BY <1>1 DEF IInv, TypeOK
  <2>2. CASE t \in Queued
    BY <1>1, <2>2 DEF Queued
  <2>3. ASSUME NEW v \in Workers, Working(v), task[v] = t
        PROVE  Working(v)' /\ task'[v] = t
    BY <1>1, <2>1, <2>3 DEF IInv, TypeOK, Working
  <2> QED
    BY <2>1, <2>2, <2>3 DEF IInv, PendingIsSomewhere
<1>7. TasksOnce'
  <2>1. Queued' = Queued
    BY <1>1 DEF Queued
  <2>2. Working(w) /\ ~Working(w)'
    BY <1>1 DEF IInv, TypeOK, Working
  <2>3. \A v \in Workers \ {w} : (Working(v)' <=> Working(v)) /\ task'[v] = task[v]
    BY <1>1 DEF IInv, TypeOK, Working
  <2>4. \A t \in Tasks \ {task[w]} : future'[t] = future[t]
    BY <1>1 DEF IInv, TypeOK
  <2>5. \A t \in Queued' : future'[t] = "pending"
    <3>1. task[w] \notin Queued /\ Queued \subseteq Tasks
      BY <2>2 DEF IInv, TypeOK, TasksOnce, Queued
    <3> QED
      BY <2>1, <2>4, <3>1 DEF IInv, TasksOnce
  <2>6. \A v \in Workers : Working(v)' =>
          task'[v] \in Tasks /\ task'[v] \notin Queued' /\ future'[task'[v]] = "pending"
    BY <2>1, <2>2, <2>3, <2>4 DEF IInv, TasksOnce
  <2>7. \A u, v \in Workers : Working(u)' /\ Working(v)' /\ task'[u] = task'[v] => u = v
    BY <2>2, <2>3 DEF IInv, TasksOnce
  <2> QED
    BY <1>1, <2>5, <2>6, <2>7 DEF IInv, TasksOnce
<1> QED
  BY <1>2, <1>3, <1>5, <1>6, <1>7 DEF IInv, GoneIsExited

LEMMA FinishTaskPreserves ==
  ASSUME IInv, ~Gone, NEW w \in Workers, FinishTask(w)
  PROVE  IInv' /\ NoTaskMoves
<1> USE ThreadsAssumption DEF Threads
<1>1. /\ pc[w] = "finish"
      /\ pending_tasks' = pending_tasks - 1
      /\ UNCHANGED <<queue, queue_tail, stopping, task, future>>
  BY DEF FinishTask
<1>2. Moves(w, "release", "idle_wait", "wait_lock")
  <2>1. CASE Goto(w, "release")
    BY <2>1 DEF Goto, Moves, IInv, TypeOK
  <2> QED
    BY <2>1, WakeAllMoves DEF FinishTask, IInv
<1>3. w \in Busy /\ Busy' = Busy \ {w}
  BY <1>1, <1>2 DEF IInv, TypeOK, Busy, Moves, WorkerStates
<1>4. /\ pending_tasks = Len(queue) + Cardinality(Busy)
      /\ Len(queue) \in Nat
      /\ Cardinality(Busy) \in Nat /\ Cardinality(Busy) > 0
      /\ Cardinality(Busy') = Cardinality(Busy) - 1
  <2>1. pending_tasks = Len(queue) + Cardinality(Busy) /\ Len(queue) \in Nat
    BY DEF IInv, TypeOK, PendingCount
  <2>2. Cardinality(Busy') = Cardinality(Busy) - 1
    BY <1>3, BusyShrinks
  <2> QED
    BY <1>3, <2>1, <2>2, BusyFinite, BusyPositive
<1>5. TypeOK'
  <2>1. pending_tasks' \in Nat
    BY <1>1, <1>4
  <2> QED
    BY <1>1, <1>2, <2>1 DEF IInv, TypeOK, Moves, WorkerStates, ClientStates
<1>6. ~Gone'
  BY <1>1, <1>2 DEF IInv, TypeOK, Gone, Moves
<1>7. PendingCount' /\ TailIsLast'
  BY <1>1, <1>4 DEF IInv, PendingCount, TailIsLast
<1>8. PendingIsSomewhere'
  <2>1. \A v \in Workers : Working(v) => Working(v)'
    BY <1>1, <1>2 DEF IInv, TypeOK, Working, Moves, WorkerStates
  <2> QED
    BY <1>1, <2>1 DEF IInv, PendingIsSomewhere, Queued
<1>9. TasksOnce' /\ NoTaskMoves
  <2>1. \A v \in Workers : Working(v)' <=> Working(v)
    BY <1>1, <1>2 DEF IInv, TypeOK, Working, Moves, WorkerStates
  <2>2. NoTaskMoves
    BY <1>1, <2>1 DEF NoTaskMoves, Working
  <2> QED
    BY <1>1, <2>1, <2>2 DEF IInv, TasksOnce, Queued
<1> QED
  BY <1>5, <1>6, <1>7, <1>8, <1>9 DEF IInv, GoneIsExited

LEMMA ForceStopPreserves ==
  ASSUME IInv, ~Gone, NEW c \in Clients, ForceStop(c)
  PROVE  IInv'
<1> USE ThreadsAssumption DEF Threads
<1>1. /\ queue' = <<>> /\ queue_tail' = Null
      /\ pending_tasks' = pending_tasks - Len(queue)
      /\ future' = [t \in Tasks |-> IF t \in Queued THEN "broken" ELSE future[t]]
      /\ pc[c] = "idle"
      /\ UNCHANGED <<stopping, task>>
  BY DEF ForceStop
<1>2. Moves(c, "stop", "idle_wait", "wait_lock")
  <2>1. CASE Goto(c, "stop")
    BY <2>1 DEF Goto, Moves, IInv, TypeOK
  <2> QED
    BY <2>1, WakeAllMoves DEF ForceStop, IInv
<1>3. Busy' = Busy
  BY <1>1, <1>2 DEF IInv, TypeOK, Busy, Moves, WorkerStates
<1>4. pending_tasks' = Cardinality(Busy) /\ Cardinality(Busy) \in Nat
  BY <1>1, BusyFinite DEF IInv, TypeOK, PendingCount
<1>5. TypeOK'
  BY <1>1, <1>2, <1>4 DEF IInv, TypeOK, Moves, Futures, WorkerStates, ClientStates
<1>6. ~Gone'
  BY <1>1, <1>2 DEF IInv, TypeOK, Gone, Moves
<1>7. PendingCount' /\ TailIsLast'
  BY <1>1, <1>3, <1>4 DEF PendingCount, TailIsLast
<1>8. \A v \in Workers : Working(v)' <=> Working(v)
  BY <1>1, <1>2 DEF IInv, TypeOK, Working, Moves, WorkerStates
<1>9. PendingIsSomewhere'
  BY <1>1, <1>8 DEF IInv, PendingIsSomewhere
<1>10. TasksOnce'
  BY <1>1, <1>8 DEF IInv, TasksOnce, Queued
<1> QED
  BY <1>5, <1>6, <1>7, <1>9, <1>10 DEF IInv, GoneIsExited

LEMMA JoinAndDestroyPreserves ==
  ASSUME IInv, ~Gone, NEW c \in Clients, JoinAndDestroy(c)
  PROVE  IInv'
<1> USE ThreadsAssumption DEF Threads
<1>1. TypeOK'
  BY DEF JoinAndDestroy, IInv, TypeOK, Futures, WorkerStates, ClientStates
<1>2. Gone' /\ Exited'
  BY DEF JoinAndDestroy, IInv, TypeOK, Gone, Exited
<1> QED
  BY <1>1, <1>2 DEF IInv, GoneIsExited, PendingCount

-----------------------------------------------------------------------------
(* The invariant and what follows from it.                                  *)

LEMMA InitialInvariant == Init => IInv
<1> SUFFICES ASSUME Init PROVE IInv
  OBVIOUS
<1> USE ThreadsAssumption DEF Init, Threads
<1>1. TypeOK
  <2>1. pc \in [Threads -> WorkerStates \union ClientStates]
    BY DEF WorkerStates, ClientStates
  <2>2. \A w \in Workers : pc[w] \in WorkerStates
    BY DEF WorkerStates
  <2>3. \A c \in Clients : pc[c] \in ClientStates
    BY DEF ClientStates
  <2>4. stopping \in BOOLEAN
    OBVIOUS
  <2> QED
    BY <2>1, <2>2, <2>3, <2>4 DEF TypeOK, Futures
<1>2. ~Gone
  BY DEF Gone
<1>3. Busy = {}
  BY DEF Busy
<1>4. PendingCount
  BY <1>3, FS_EmptySet DEF PendingCount
<1>5. Queued = {} /\ \A w \in Workers : ~Working(w)
  BY DEF Queued, Working
<1> QED
  BY <1>1, <1>2, <1>4, <1>5 DEF IInv, GoneIsExited, PendingIsSomewhere, TailIsLast, TasksOnce

LEMMA InvariantStep == IInv /\ [Next]_vars => IInv'
<1> SUFFICES ASSUME IInv, [Next]_vars
             PROVE  IInv'
  OBVIOUS
<1>1. CASE UNCHANGED vars
  BY <1>1 DEF IInv, TypeOK, GoneIsExited, Gone, Exited, PendingCount, Busy, PendingIsSomewhere,
     TailIsLast, TasksOnce, Working, Queued, vars
<1>2. CASE Gone
  BY <1>1, <1>2, GoneStays DEF IInv
<1>3. ASSUME ~Gone, NEW p \in Threads, NEW t \in Tasks, Run(p, t)
      PROVE  IInv'
  BY <1>3, RunPreserves
<1>4. ASSUME ~Gone, NEW w \in Workers, WorkerStep(w)
      PROVE  IInv'
  BY <1>4, QuietWorkerPreserves, TakePreserves, ExecutePreserves, FinishTaskPreserves,
     NotifyOnePreserves DEF WorkerStep, Threads
<1>5. ASSUME ~Gone, NEW c \in Clients, ClientStep(c)
      PROVE  IInv'
  BY <1>5, QuietClientPreserves, NotifyOnePreserves, JoinAndDestroyPreserves
     DEF ClientStep, Threads
<1>6. ASSUME ~Gone, NEW c \in Clients, ClientCall(c)
      PROVE  IInv'
  BY <1>6, QuietClientPreserves, ForceStopPreserves DEF ClientCall
<1>7. ASSUME ~Gone, NEW p \in Threads, SpuriousWakeup(p)
      PROVE  IInv'
  BY <1>7, SpuriousWakeupPreserves
<1> QED
  BY <1>1, <1>2, <1>3, <1>4, <1>5, <1>6, <1>7 DEF Next, Destroyed

(* The pool keeps its types and never counts below 0 (ThreadManager::run,    *)
(* worker_loop, force_stop).                                                 *)
THEOREM TypesAreKept == Spec => []TypeOK
<1>1. IInv => TypeOK
  BY DEF IInv
<1> QED
  BY <1>1, InitialInvariant, InvariantStep, PTL DEF Spec

(* Until it is destroyed, pending_tasks is the number of tasks in the queue  *)
(* and in the workers, so that it is 0 exactly when nothing is left to wait  *)
(* for (ThreadManager::wait_all).                                            *)
THEOREM PendingTasksCount == Spec => []PendingCount
<1>1. IInv => PendingCount
  BY DEF IInv
<1> QED
  BY <1>1, InitialInvariant, InvariantStep, PTL DEF Spec

(* A caller that waits is only let go by wait_all itself.                    *)
LEMMA OnlyWaitAllReturns ==
  ASSUME IInv, Next, NEW c \in Clients, pc[c] = "wait_lock", pc'[c] = "idle"
  PROVE  pending_tasks = 0 /\ future' = future
<1> USE ThreadsAssumption DEF Threads
<1>1. ASSUME NEW p \in Threads, NEW t \in Tasks, Run(p, t)
      PROVE  FALSE
  BY <1>1 DEF Run, Goto, IInv, TypeOK
<1>2. ASSUME NEW w \in Workers, WorkerStep(w)
      PROVE  FALSE
  BY <1>2 DEF WorkerStep, Wait, Exit, Take, Execute, FinishTask, ReleaseTask, NotifyOne, Goto,
     GotoAndWakeAll, Blocked, IInv, TypeOK
<1>3. ASSUME NEW d \in Clients, ClientStep(d)
      PROVE  WaitAllReturns(c)
  <2>1. CASE NotifyOne(d)
    BY <2>1 DEF NotifyOne, Blocked, IInv, TypeOK
  <2> QED
    BY <1>3, <2>1 DEF ClientStep, WaitIdle, WaitAllReturns, Stop, NotifyAll, Join,
       JoinAndDestroy, Goto, GotoAndWakeAll, IInv, TypeOK
<1>4. ASSUME NEW d \in Clients, ClientCall(d)
      PROVE  FALSE
  BY <1>4 DEF ClientCall, WaitAll, ForceStop, Destroy, Goto, GotoAndWakeAll, IInv, TypeOK
<1>5. ASSUME NEW p \in Threads, SpuriousWakeup(p)
      PROVE  FALSE
  BY <1>5 DEF SpuriousWakeup, Goto, IInv, TypeOK
<1>6. ~Destroyed
  BY DEF Destroyed, vars
<1> QED
  BY <1>1, <1>2, <1>3, <1>4, <1>5, <1>6 DEF Next, WaitAllReturns

LEMMA NothingCountedIsNothingPending ==
  ASSUME IInv, ~Gone, pending_tasks = 0
  PROVE  \A t \in Tasks : future[t] # "pending"
<1>1. Len(queue) = 0 /\ Cardinality(Busy) = 0
  BY BusyFinite DEF IInv, TypeOK, PendingCount
<1>2. queue = <<>> /\ Busy = {}
  BY <1>1, BusyFinite, FS_EmptySet DEF IInv, TypeOK
<1>3. Queued = {} /\ \A w \in Workers : ~Working(w)
  BY <1>2 DEF Queued, Busy, Working
<1> QED
  BY <1>3 DEF IInv, PendingIsSomewhere

(* When wait_all returns, every task accepted before has been executed or    *)
(* dropped (ThreadManager::wait_all).                                        *)
THEOREM WaitAllWaits == Spec => WaitAllMeansDone
<1>1. IInv /\ [Next]_vars =>
        [\A c \in Clients : pc[c] = "wait_lock" /\ pc'[c] = "idle" =>
           \A t \in Tasks : future[t] # "pending"]_vars
  <2> SUFFICES ASSUME IInv, Next, NEW c \in Clients, pc[c] = "wait_lock", pc'[c] = "idle"
               PROVE  \A t \in Tasks : future[t] # "pending"
    OBVIOUS
  <2>1. ~Gone
    BY DEF Gone
  <2> QED
    BY <2>1, OnlyWaitAllReturns, NothingCountedIsNothingPending
<1> QED
  BY <1>1, InitialInvariant, InvariantStep, PTL DEF Spec, WaitAllMeansDone

-----------------------------------------------------------------------------
(* The pool implements TaskPool.                                            *)

Started == {task[w] : w \in {v \in Workers : pc[v] \in {"run", "notify"}}}
Finished == {t \in Tasks : future[t] = "ready"}
Dropped == {t \in Tasks : future[t] = "broken"}

(* A worker that is not working leaves room for another started task.        *)
LEMMA RoomToStart ==
  ASSUME NEW w \in Workers, ~Working(w)
  PROVE  Cardinality(Started) < Cardinality(Workers)
<1> DEFINE Active == {v \in Workers : pc[v] \in {"run", "notify"}}
<1>1. Active \subseteq Workers /\ Active # Workers
  BY DEF Working
<1>2. /\ IsFiniteSet(Active)
      /\ Cardinality(Active) <= Cardinality(Workers)
      /\ Cardinality(Active) # Cardinality(Workers)
  BY <1>1, ThreadsAssumption, FS_Subset
<1>3. [v \in Active |-> task[v]] \in Surjection(Active, Started)
  BY DEF Started, Surjection
<1>4. IsFiniteSet(Started) /\ Cardinality(Started) <= Cardinality(Active)
  <2> HIDE DEF Active
  <2> QED
    BY <1>2, <1>3, FS_Surjection
<1>5. /\ Cardinality(Started) \in Nat
      /\ Cardinality(Active) \in Nat
      /\ Cardinality(Workers) \in Nat
  BY <1>2, <1>4, ThreadsAssumption, FS_CardinalityType
<1> QED
  BY <1>2, <1>4, <1>5

(* Steps that leave the tasks where they are do not show in the pool.        *)
LEMMA NoTaskMovesStutters ==
  ASSUME NoTaskMoves
  PROVE  UNCHANGED <<queue, Started, Finished, Dropped>>
<1>1. Started' = Started
  BY DEF NoTaskMoves, Started, Working
<1> QED
  BY <1>1 DEF NoTaskMoves, Finished, Dropped

LEMMA RunAccepts ==
  ASSUME IInv, ~Gone, NEW p \in Threads, NEW t \in Tasks, Run(p, t)
  PROVE  Pool!Accept(t)
<1>1. queue' = Append(queue, t)
  BY LinkedAppends DEF Run
<1>2. /\ future[t] = "none"
      /\ future' = [future EXCEPT ![t] = "pending"]
      /\ pc' = [pc EXCEPT ![p] = "notify"]
      /\ task' = task
      /\ pc[p] \in {"run", "idle"} /\ (pc[p] = "run" <=> p \in Workers)
  BY DEF Run, Goto
<1>3. \A u \in Tasks \ {t} : future'[u] = future[u]
  BY <1>2 DEF IInv, TypeOK
<1>4. future'[t] = "pending"
  BY <1>2 DEF IInv, TypeOK
<1>5. Finished' = Finished /\ Dropped' = Dropped
  BY <1>2, <1>3, <1>4 DEF Finished, Dropped
<1>6. Started' = Started
  <2>1. \A w \in Workers : pc'[w] \in {"run", "notify"} <=> pc[w] \in {"run", "notify"}
    BY <1>2 DEF IInv, TypeOK, Threads
  <2> QED
    BY <1>2, <2>1 DEF Started
<1>7. t \notin Queued /\ t \notin Started /\ t \notin Finished /\ t \notin Dropped
  BY <1>2 DEF IInv, TasksOnce, Working, Started, Finished, Dropped
<1> QED
  BY <1>1, <1>5, <1>6, <1>7 DEF Pool!Accept, Pool!Accepted, Queued, Started, Finished, Dropped

(* TaskPool counts as this module does.                                      *)
LEMMA SameCount ==
  ASSUME NEW S
  PROVE  Pool!Cardinality(S) = Cardinality(S)
BY DEF Pool!Cardinality, Cardinality

LEMMA TakeBegins ==
  ASSUME IInv, ~Gone, NEW w \in Workers, Take(w)
  PROVE  Pool!Begin
<1>1. /\ queue # <<>> /\ queue' = Tail(queue)
      /\ task' = [task EXCEPT ![w] = Head(queue)]
      /\ pc[w] = "lock" /\ pc' = [pc EXCEPT ![w] = "run"]
      /\ future' = future
  BY DEF Take, Goto
<1>2. Cardinality(Started) < Cardinality(Workers)
  BY <1>1, RoomToStart DEF Working
<1>3. Started' = Started \union {Head(queue)}
  <2>1. pc'[w] = "run" /\ task'[w] = Head(queue)
    BY <1>1 DEF IInv, TypeOK, Threads
  <2>2. \A v \in Workers \ {w} : pc'[v] = pc[v] /\ task'[v] = task[v]
    BY <1>1 DEF IInv, TypeOK, Threads
  <2> QED
    BY <1>1, <2>1, <2>2 DEF Started
<1> QED
  BY <1>1, <1>2, <1>3, SameCount DEF Pool!Begin, Started, Finished, Dropped

LEMMA ExecuteFinishes ==
  ASSUME IInv, ~Gone, NEW w \in Workers, Execute(w)
  PROVE  \E t \in Tasks : Pool!Finish(t)
<1>1. /\ pc[w] = "run" /\ pc' = [pc EXCEPT ![w] = "finish"]
      /\ future' = [future EXCEPT ![task[w]] = "ready"]
      /\ UNCHANGED <<queue, task>>
  BY DEF Execute, Goto
<1>2. Working(w) /\ task[w] \in Tasks /\ future[task[w]] = "pending"
  BY <1>1 DEF IInv, TasksOnce, Working
<1>3. \A v \in Workers : pc'[v] \in {"run", "notify"} <=> v # w /\ Working(v)
  BY <1>1 DEF IInv, TypeOK, Threads, Working
<1>4. \A v \in Workers \ {w} : Working(v) => task[v] # task[w]
  BY <1>2 DEF IInv, TasksOnce
<1>5. task[w] \in Started /\ Started' = Started \ {task[w]}
  BY <1>1, <1>2, <1>3, <1>4 DEF Started, Working
<1>6. /\ future'[task[w]] = "ready"
      /\ \A t \in Tasks \ {task[w]} : future'[t] = future[t]
  BY <1>1, <1>2 DEF IInv, TypeOK
<1>7. Finished' = Finished \union {task[w]} /\ Dropped' = Dropped
  BY <1>2, <1>6 DEF Finished, Dropped
<1> QED
  BY <1>1, <1>2, <1>5, <1>7 DEF Pool!Finish, Started, Finished, Dropped

(* force_stop and the destructor drop what is queued.                        *)
LEMMA DroppedQueue ==
  ASSUME IInv, ~Gone, queue' = <<>>, Started' = Started,
         future' = [t \in Tasks |-> IF t \in Queued THEN "broken" ELSE future[t]]
  PROVE  [Pool!Drop]_<<queue, Started, Finished, Dropped>>
<1>1. Queued \subseteq Tasks /\ \A t \in Queued : future[t] = "pending"
  BY DEF IInv, TypeOK, TasksOnce, Queued
<1>2. Finished' = Finished /\ Dropped' = Dropped \union Queued
  BY <1>1 DEF Finished, Dropped
<1>3. CASE queue = <<>>
  <2>1. Queued = {}
    BY <1>3 DEF Queued
  <2> QED
    BY <1>2, <1>3, <2>1
<1>4. CASE queue # <<>>
  BY <1>2, <1>4 DEF Pool!Drop, Queued, Started, Finished, Dropped
<1> QED
  BY <1>3, <1>4

LEMMA StepMapsToPool ==
  ASSUME IInv, [Next]_vars
  PROVE  [Pool!Next]_<<queue, Started, Finished, Dropped>>
<1>1. CASE UNCHANGED vars
  BY <1>1 DEF vars, Started, Finished, Dropped
<1>2. CASE Gone
  BY <1>1, <1>2, GoneStays DEF IInv
<1>3. ASSUME ~Gone, NEW p \in Threads, NEW t \in Tasks, Run(p, t)
      PROVE  Pool!Next
  BY <1>3, RunAccepts DEF Pool!Next
<1>4. ASSUME ~Gone, NEW w \in Workers, Take(w)
      PROVE  Pool!Next
  BY <1>4, TakeBegins DEF Pool!Next
<1>5. ASSUME ~Gone, NEW w \in Workers, Execute(w)
      PROVE  Pool!Next
  BY <1>5, ExecuteFinishes DEF Pool!Next
<1>6. ASSUME ~Gone, NEW w \in Workers, Wait(w) \/ Exit(w) \/ FinishTask(w) \/ ReleaseTask(w)
      PROVE  UNCHANGED <<queue, Started, Finished, Dropped>>
  BY <1>6, QuietWorkerPreserves, FinishTaskPreserves, NoTaskMovesStutters
<1>7. ASSUME ~Gone, NEW p \in Threads, NotifyOne(p) \/ SpuriousWakeup(p)
      PROVE  UNCHANGED <<queue, Started, Finished, Dropped>>
  BY <1>7, NotifyOnePreserves, SpuriousWakeupPreserves, NoTaskMovesStutters
<1>8. ASSUME ~Gone, NEW c \in Clients, ForceStop(c)
      PROVE  [Pool!Next]_<<queue, Started, Finished, Dropped>>
  <2>1. Started' = Started
    <3>1. Moves(c, "stop", "idle_wait", "wait_lock")
      <4>1. CASE Goto(c, "stop")
        BY <4>1 DEF Goto, Moves, IInv, TypeOK, Threads
      <4> QED
        BY <1>8, <4>1, WakeAllMoves DEF ForceStop, IInv, Threads
    <3>2. \A w \in Workers : pc'[w] \in {"run", "notify"} <=> pc[w] \in {"run", "notify"}
      BY <3>1, ThreadsAssumption DEF Moves, IInv, TypeOK, Threads, WorkerStates
    <3> QED
      BY <1>8, <3>2 DEF ForceStop, Started
  <2>2. [Pool!Drop]_<<queue, Started, Finished, Dropped>>
    BY <1>8, <2>1, DroppedQueue DEF ForceStop
  <2> QED
    BY <2>2 DEF Pool!Next
<1>9. ASSUME ~Gone, NEW c \in Clients, JoinAndDestroy(c)
      PROVE  [Pool!Next]_<<queue, Started, Finished, Dropped>>
  <2>1. Started' = Started
    BY <1>9, ThreadsAssumption DEF JoinAndDestroy, Started, IInv, TypeOK, Threads
  <2>2. [Pool!Drop]_<<queue, Started, Finished, Dropped>>
    BY <1>9, <2>1, DroppedQueue DEF JoinAndDestroy
  <2> QED
    BY <2>2 DEF Pool!Next
<1>10. ASSUME ~Gone, NEW c \in Clients,
              WaitAll(c) \/ WaitIdle(c) \/ WaitAllReturns(c) \/ Destroy(c) \/ Stop(c)
                \/ NotifyAll(c) \/ Join(c)
       PROVE  UNCHANGED <<queue, Started, Finished, Dropped>>
  BY <1>10, QuietClientPreserves, NoTaskMovesStutters
<1> QED
  BY <1>1, <1>2, <1>3, <1>4, <1>5, <1>6, <1>7, <1>8, <1>9, <1>10
     DEF Next, WorkerStep, ClientStep, ClientCall, Destroyed, Threads

(* The pool starts the tasks in the order of the run calls, each at most     *)
(* once and no more at a time than there are workers, and executes or drops  *)
(* them (ThreadManager::run, worker_loop, force_stop, ~ThreadManager).       *)
THEOREM PoolIsImplemented == Spec => RefinesTaskPool
<1>1. Init => Pool!Init
  BY DEF Init, Pool!Init, Threads
<1>2. IInv /\ [Next]_vars => [Pool!Next]_Pool!vars
  <2> SUFFICES ASSUME IInv, [Next]_vars
               PROVE  [Pool!Next]_Pool!vars
    OBVIOUS
  <2> QED
    BY StepMapsToPool DEF Pool!vars, Started, Finished, Dropped
<1> QED
  BY <1>1, <1>2, InitialInvariant, InvariantStep, PTL DEF Spec, Pool!Spec, RefinesTaskPool
=============================================================================
