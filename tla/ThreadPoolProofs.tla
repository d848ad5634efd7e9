-------------------------- MODULE ThreadPoolProofs --------------------------
(***************************************************************************)
(* Proofs about ThreadPool, for any number of workers, callers and tasks:  *)
(* its types, the inductive invariant behind EachTaskOnce, NoLostWakeup    *)
(* and JoinedDrained, that no task starves while fewer are endless than    *)
(* there are workers, that every step goes forward, and the step           *)
(* simulation of the abstract Executor.                                    *)
(***************************************************************************)
EXTENDS ThreadPool, FiniteSetTheorems, TLAPS

(* The parts of the destructor's protocol that the invariant needs.        *)
DtorInv == /\ stop <=> dtor # "none"
           /\ dtor = "joined" => \A w \in Workers : wpc[w] = "returned"

(* The inductive invariant.                                                *)
PoolInv == /\ TypeOK
           /\ DtorInv
           /\ NoSleeperAfterNotifyAll
           /\ ReturnedMeansDrained
           /\ NotifierRuns
           /\ EachTaskOnce
           /\ NoLostWakeup

-----------------------------------------------------------------------------
(* Types.                                                                  *)

(* Every initial state is well typed.                                      *)
LEMMA InitTypeOK == Init => TypeOK
<1> SUFFICES ASSUME Init PROVE TypeOK
  OBVIOUS
<1>1. tasks \in Seq(Tasks)
  BY DEF Init
<1>2. \A w \in Workers : wpc[w] = "running" <=> task[w] # NoTask
  BY DEF Init
<1> QED
  BY <1>1, <1>2 DEF Init, TypeOK, WorkerStates, DtorStates

(* Every step keeps the types; the clause that ties wpc to task is what    *)
(* the worker's loop maintains.                                            *)
LEMMA NextTypeOK == TypeOK /\ [Next]_vars => TypeOK'
<1> SUFFICES ASSUME TypeOK, [Next]_vars PROVE TypeOK'
  OBVIOUS
<1> USE TasksAssumption, ThreadsAssumption
        DEF TypeOK, WorkerStates, DtorStates, Threads, Waiting
<1>1. ASSUME NEW w \in Workers, WorkerWait(w) PROVE TypeOK'
  BY <1>1 DEF WorkerWait
<1>2. ASSUME NEW w \in Workers, WorkerTake(w) PROVE TypeOK'
  <2>1. Head(tasks) \in Tasks /\ Tail(tasks) \in Seq(Tasks)
    BY <1>2 DEF WorkerTake
  <2> QED BY <1>2, <2>1 DEF WorkerTake
<1>3. ASSUME NEW w \in Workers, WorkerReturn(w) PROVE TypeOK'
  BY <1>3 DEF WorkerReturn
<1>4. ASSUME NEW w \in Workers, SpuriousWake(w) PROVE TypeOK'
  BY <1>4 DEF SpuriousWake
<1>5. ASSUME NEW w \in Workers, FinishTask(w) PROVE TypeOK'
  BY <1>5 DEF FinishTask
<1>6. ASSUME NEW c \in Threads, NEW t \in Tasks, EnqueuePush(c, t) PROVE TypeOK'
  BY <1>6 DEF EnqueuePush
<1>7. ASSUME NEW c \in Threads, NEW t \in Tasks, EnqueueRefused(c, t) PROVE TypeOK'
  BY <1>7 DEF EnqueueRefused
<1>8. ASSUME NEW c \in Threads, EnqueueNotify(c) PROVE TypeOK'
  BY <1>8 DEF EnqueueNotify
<1>9. CASE DtorStop
  BY <1>9 DEF DtorStop
<1>10. CASE DtorNotifyAll
  BY <1>10 DEF DtorNotifyAll
<1>11. CASE DtorJoin
  BY <1>11 DEF DtorJoin
<1>12. CASE UNCHANGED vars
  BY <1>12 DEF vars
<1> QED
  BY <1>1, <1>2, <1>3, <1>4, <1>5, <1>6, <1>7, <1>8, <1>9, <1>10, <1>11, <1>12
     DEF Next, WorkerStep, Enqueue, Gone

(* The variables of ThreadPool keep their types.                           *)
THEOREM TypeCorrect == Spec => []TypeOK
<1>1. Init => TypeOK
  BY InitTypeOK
<1>2. TypeOK /\ [Next]_vars => TypeOK'
  BY NextTypeOK
<1> QED
  BY <1>1, <1>2, PTL DEF Spec, SafeSpec

-----------------------------------------------------------------------------
(* The inductive invariant.                                                *)

(* The sets the invariant counts are finite.                               *)
LEMMA FiniteParts ==
    ASSUME TypeOK
    PROVE  /\ IsFiniteSet(Ready) /\ Cardinality(Ready) \in Nat
           /\ IsFiniteSet(notifying) /\ Cardinality(notifying) \in Nat
<1>1. IsFiniteSet(Threads)
  BY ThreadsAssumption, FS_Union DEF Threads
<1>2. IsFiniteSet(Ready)
  BY ThreadsAssumption, FS_Subset DEF Ready
<1>3. IsFiniteSet(notifying)
  BY <1>1, FS_Subset DEF TypeOK
<1> QED
  BY <1>2, <1>3, FS_CardinalityType

(* Appending a task to the queue adds it to the queued ones.               *)
LEMMA QueuedAppend ==
    ASSUME TypeOK, NEW t \in Tasks, tasks' = Append(tasks, t)
    PROVE  Queued' = Queued \cup {t}
<1>1. /\ Len(tasks') = Len(tasks) + 1
      /\ Len(tasks) \in Nat
      /\ tasks'[Len(tasks) + 1] = t
      /\ \A i \in 1..Len(tasks) : tasks'[i] = tasks[i]
  BY DEF TypeOK
<1>2. Queued' \subseteq Queued \cup {t}
  <2> SUFFICES ASSUME NEW i \in 1..(Len(tasks) + 1)
               PROVE  tasks'[i] \in Queued \cup {t}
    BY <1>1 DEF Queued
  <2>1. i \in 1..Len(tasks) \/ i = Len(tasks) + 1
    BY <1>1
  <2> QED BY <1>1, <2>1 DEF Queued
<1>3. Queued \cup {t} \subseteq Queued'
  <2>1. Len(tasks) + 1 \in 1..Len(tasks')
    BY <1>1
  <2>2. t \in Queued'
    BY <1>1, <2>1 DEF Queued
  <2>3. ASSUME NEW i \in 1..Len(tasks) PROVE tasks[i] \in Queued'
    <3>1. i \in 1..Len(tasks')
      BY <1>1
    <3> QED BY <1>1, <3>1 DEF Queued
  <2> QED BY <2>2, <2>3 DEF Queued
<1> QED BY <1>2, <1>3

(* Popping the front of a queue without duplicates removes its head.       *)
LEMMA QueuedTail ==
    ASSUME TypeOK, tasks # <<>>, tasks' = Tail(tasks),
           \A i, j \in 1..Len(tasks) : tasks[i] = tasks[j] => i = j
    PROVE  /\ Queued' = Queued \ {Head(tasks)}
           /\ Head(tasks) \in Queued
           /\ \A i, j \in 1..Len(tasks') : tasks'[i] = tasks'[j] => i = j
<1>1. /\ Len(tasks) \in Nat \ {0}
      /\ Len(tasks') = Len(tasks) - 1
      /\ Head(tasks) = tasks[1]
      /\ \A i \in 1..(Len(tasks) - 1) : tasks'[i] = tasks[i + 1]
  BY DEF TypeOK
<1>2. Head(tasks) \in Queued
  BY <1>1 DEF Queued
<1>3. Queued' \subseteq Queued \ {Head(tasks)}
  <2> SUFFICES ASSUME NEW i \in 1..(Len(tasks) - 1)
               PROVE  tasks'[i] \in Queued \ {Head(tasks)}
    BY <1>1 DEF Queued
  <2>1. i + 1 \in 1..Len(tasks) /\ 1 \in 1..Len(tasks) /\ i + 1 # 1
    BY <1>1
  <2>2. tasks[i + 1] \in Queued /\ tasks[i + 1] # tasks[1]
    BY <2>1 DEF Queued
  <2> QED BY <1>1, <2>2
<1>4. Queued \ {Head(tasks)} \subseteq Queued'
  <2> SUFFICES ASSUME NEW i \in 1..Len(tasks), tasks[i] # tasks[1]
               PROVE  tasks[i] \in Queued'
    BY <1>1 DEF Queued
  <2>1. i - 1 \in 1..(Len(tasks) - 1) /\ (i - 1) + 1 = i
    BY <1>1
  <2> QED BY <1>1, <2>1 DEF Queued
<1>5. ASSUME NEW i \in 1..Len(tasks'), NEW j \in 1..Len(tasks'),
             tasks'[i] = tasks'[j]
      PROVE  i = j
  <2>1. i + 1 \in 1..Len(tasks) /\ j + 1 \in 1..Len(tasks)
    BY <1>1
  <2> QED BY <1>1, <1>5, <2>1
<1> QED BY <1>2, <1>3, <1>4, <1>5

(* Initially nothing is queued, nobody sleeps and no destructor runs.      *)
LEMMA InitPoolInv == Init => PoolInv
<1> SUFFICES ASSUME Init PROVE PoolInv
  OBVIOUS
<1>1. TypeOK
  BY InitTypeOK
<1>2. Queued = {} /\ Running = {} /\ Waiting = {}
  BY DEF Init, Queued, Running, Waiting
<1>3. EachTaskOnce
  BY <1>2 DEF EachTaskOnce, Init
<1> QED
  BY <1>1, <1>2, <1>3
     DEF Init, PoolInv, DtorInv, NoSleeperAfterNotifyAll, ReturnedMeansDrained,
         NotifierRuns, NoLostWakeup

(* The destructor's protocol: after notify_all nobody waits, because a     *)
(* worker that evaluates its predicate after `stop` does not go to sleep.  *)
LEMMA DtorStep ==
    ASSUME PoolInv, [Next]_vars
    PROVE  DtorInv' /\ NoSleeperAfterNotifyAll' /\ ReturnedMeansDrained' /\ NotifierRuns'
<1> DEFINE Goal == DtorInv /\ NoSleeperAfterNotifyAll /\ ReturnedMeansDrained /\ NotifierRuns
<1> USE ThreadsAssumption
    DEF PoolInv, TypeOK, WorkerStates, DtorStates, Threads, Waiting,
        DtorInv, NoSleeperAfterNotifyAll, ReturnedMeansDrained, NotifierRuns
<1>1. ASSUME NEW w \in Workers, WorkerWait(w) PROVE Goal'
  BY <1>1 DEF WorkerWait
<1>2. ASSUME NEW w \in Workers, WorkerTake(w) PROVE Goal'
  BY <1>2 DEF WorkerTake
<1>3. ASSUME NEW w \in Workers, WorkerReturn(w) PROVE Goal'
  BY <1>3 DEF WorkerReturn
<1>4. ASSUME NEW w \in Workers, SpuriousWake(w) PROVE Goal'
  BY <1>4 DEF SpuriousWake
<1>5. ASSUME NEW w \in Workers, FinishTask(w) PROVE Goal'
  BY <1>5 DEF FinishTask
<1>6. ASSUME NEW c \in Threads, NEW t \in Tasks, EnqueuePush(c, t) PROVE Goal'
  BY <1>6 DEF EnqueuePush, CanEnqueue
<1>7. ASSUME NEW c \in Threads, NEW t \in Tasks, EnqueueRefused(c, t) PROVE Goal'
  BY <1>7 DEF EnqueueRefused
<1>8. ASSUME NEW c \in Threads, EnqueueNotify(c) PROVE Goal'
  BY <1>8 DEF EnqueueNotify
<1>9. CASE DtorStop
  BY <1>9 DEF DtorStop
<1>10. CASE DtorNotifyAll
  BY <1>10 DEF DtorNotifyAll
<1>11. CASE DtorJoin
  BY <1>11 DEF DtorJoin
<1>12. CASE UNCHANGED vars
  BY <1>12 DEF vars
<1> QED
  BY <1>1, <1>2, <1>3, <1>4, <1>5, <1>6, <1>7, <1>8, <1>9, <1>10, <1>11, <1>12
     DEF Next, WorkerStep, Enqueue, Gone

(* A step that leaves the queue, the workers' tasks and the books alone    *)
(* leaves every task where it is.                                          *)
LEMMA TasksUnchanged ==
    ASSUME TypeOK, TypeOK', EachTaskOnce, UNCHANGED <<tasks, task, futures, finished>>,
           futures' \cap refused' = {}
    PROVE  EachTaskOnce'
<1>1. Queued' = Queued
  BY DEF Queued
<1>2. Running' = Running
  BY DEF Running, TypeOK
<1> QED BY <1>1, <1>2 DEF EachTaskOnce

(* The tasks that run are the values of `task` other than NoTask.          *)
LEMMA RunningTasks ==
    ASSUME TypeOK
    PROVE  Running = {task[w] : w \in Workers} \ {NoTask}
  BY DEF TypeOK, Running

(* A task moves from the caller to the queue, to one worker, to finished.  *)
LEMMA TasksStep ==
    ASSUME PoolInv, [Next]_vars, TypeOK'
    PROVE  EachTaskOnce'
<1>0. /\ TypeOK /\ EachTaskOnce
      /\ Running = {task[w] : w \in Workers} \ {NoTask}
      /\ Running' = {task'[w] : w \in Workers} \ {NoTask}
  BY RunningTasks DEF PoolInv, TypeOK, Running
<1>1. ASSUME NEW w \in Workers, WorkerWait(w) \/ WorkerReturn(w) \/ SpuriousWake(w)
      PROVE  EachTaskOnce'
  BY <1>0, <1>1, TasksUnchanged
     DEF WorkerWait, WorkerReturn, SpuriousWake, EachTaskOnce
<1>2. ASSUME NEW w \in Workers, WorkerTake(w) PROVE EachTaskOnce'
  <2>1. /\ task[w] = NoTask
        /\ task' = [task EXCEPT ![w] = Head(tasks)]
        /\ tasks # <<>> /\ tasks' = Tail(tasks)
        /\ UNCHANGED <<futures, finished, refused>>
    BY <1>0, <1>2 DEF WorkerTake, TypeOK
  <2>2. /\ Queued' = Queued \ {Head(tasks)}
        /\ Head(tasks) \in Queued
        /\ \A i, j \in 1..Len(tasks') : tasks'[i] = tasks'[j] => i = j
    <3>1. \A i, j \in 1..Len(tasks) : tasks[i] = tasks[j] => i = j
      BY <1>0 DEF EachTaskOnce
    <3> QED BY <1>0, <2>1, <3>1, QueuedTail
  <2>3. Head(tasks) \in Tasks
    BY <1>0, <2>1 DEF TypeOK
  <2>4. Running' = Running \cup {Head(tasks)}
    BY <1>0, <2>1, <2>3, TasksAssumption DEF TypeOK
  <2>5. Head(tasks) \notin Running
    BY <1>0, <2>2 DEF EachTaskOnce
  <2>6. \A u, v \in Workers : task'[u] = task'[v] /\ task'[u] # NoTask => u = v
    <3>1. \A u \in Workers : u # w => task'[u] = task[u] /\ task[u] # Head(tasks)
      BY <1>0, <2>1, <2>3, <2>5, TasksAssumption DEF TypeOK
    <3>2. task'[w] = Head(tasks)
      BY <1>0, <2>1 DEF TypeOK
    <3> QED BY <1>0, <3>1, <3>2 DEF EachTaskOnce
  <2> QED BY <1>0, <2>1, <2>2, <2>4, <2>5, <2>6 DEF EachTaskOnce
<1>3. ASSUME NEW w \in Workers, FinishTask(w) PROVE EachTaskOnce'
  <2>1. /\ task[w] \in Running
        /\ finished' = finished \cup {task[w]}
        /\ task' = [task EXCEPT ![w] = NoTask]
        /\ UNCHANGED <<tasks, futures, refused>>
    BY <1>0, <1>3 DEF FinishTask, TypeOK
  <2>2. Queued' = Queued
    BY <2>1 DEF Queued
  <2>3. \A v \in Workers : v # w => task'[v] = task[v]
    BY <1>0, <2>1 DEF TypeOK
  <2>4. task'[w] = NoTask /\ task[w] # NoTask
    BY <1>0, <2>1 DEF TypeOK
  <2>5. Running' = Running \ {task[w]}
    BY <1>0, <2>3, <2>4 DEF EachTaskOnce
  <2>6. \A u, v \in Workers : task'[u] = task'[v] /\ task'[u] # NoTask => u = v
    BY <1>0, <2>3, <2>4 DEF EachTaskOnce
  <2> QED BY <1>0, <2>1, <2>2, <2>5, <2>6 DEF EachTaskOnce
<1>4. ASSUME NEW c \in Threads, NEW t \in Tasks, EnqueuePush(c, t) PROVE EachTaskOnce'
  <2>1. /\ tasks' = Append(tasks, t) /\ futures' = futures \cup {t}
        /\ t \notin futures /\ t \notin refused
        /\ UNCHANGED <<task, wpc, finished, refused>>
    BY <1>4 DEF EnqueuePush, Fresh
  <2>2. Queued' = Queued \cup {t}
    BY <1>0, <2>1, QueuedAppend
  <2>3. Running' = Running
    BY <2>1 DEF Running
  <2>4. \A i, j \in 1..Len(tasks') : tasks'[i] = tasks'[j] => i = j
    <3>1. /\ Len(tasks') = Len(tasks) + 1 /\ Len(tasks) \in Nat
          /\ tasks'[Len(tasks) + 1] = t
          /\ \A i \in 1..Len(tasks) : tasks'[i] = tasks[i]
      BY <1>0, <2>1 DEF TypeOK
    <3>2. \A i \in 1..Len(tasks) : tasks[i] # t
      BY <1>0, <2>1 DEF EachTaskOnce, Queued
    <3>3. \A i \in 1..Len(tasks') : i \in 1..Len(tasks) \/ i = Len(tasks) + 1
      BY <3>1
    <3> QED BY <1>0, <3>1, <3>2, <3>3 DEF EachTaskOnce
  <2> QED BY <1>0, <2>1, <2>2, <2>3, <2>4 DEF EachTaskOnce
<1>5. ASSUME NEW c \in Threads, NEW t \in Tasks, EnqueueRefused(c, t) PROVE EachTaskOnce'
  BY <1>0, <1>5, TasksUnchanged DEF EnqueueRefused, Fresh, EachTaskOnce
<1>6. ASSUME NEW c \in Threads, EnqueueNotify(c) PROVE EachTaskOnce'
  BY <1>0, <1>6, TasksUnchanged DEF EnqueueNotify, EachTaskOnce
<1>7. ASSUME DtorStop \/ DtorNotifyAll \/ DtorJoin \/ UNCHANGED vars PROVE EachTaskOnce'
  BY <1>0, <1>7, TasksUnchanged
     DEF DtorStop, DtorNotifyAll, DtorJoin, vars, EachTaskOnce
<1> QED
  BY <1>1, <1>2, <1>3, <1>4, <1>5, <1>6, <1>7 DEF Next, WorkerStep, Enqueue, Gone

(* Counting the workers on their way to the queue: one more.               *)
LEMMA ReadyGains ==
    ASSUME TypeOK, NEW w \in Workers, wpc[w] # "ready",
           wpc' = [wpc EXCEPT ![w] = "ready"]
    PROVE  Cardinality(Ready') = Cardinality(Ready) + 1
<1>1. Ready' = Ready \cup {w} /\ w \notin Ready
  BY DEF TypeOK, Ready
<1> QED BY <1>1, FiniteParts, FS_AddElement

(* One less. *)
LEMMA ReadyLoses ==
    ASSUME TypeOK, NEW w \in Workers, NEW pc, pc # "ready", wpc[w] = "ready",
           wpc' = [wpc EXCEPT ![w] = pc]
    PROVE  Cardinality(Ready') = Cardinality(Ready) - 1
<1>1. Ready' = Ready \ {w} /\ w \in Ready
  BY DEF TypeOK, Ready
<1> QED BY <1>1, FiniteParts, FS_RemoveElement

(* No worker can sleep through the arrival of a task.                      *)
LEMMA WakeupStep ==
    ASSUME PoolInv, [Next]_vars, TypeOK'
    PROVE  NoLostWakeup'
<1>0. TypeOK /\ NoLostWakeup /\ Len(tasks) \in Nat
      /\ Cardinality(Ready) \in Nat /\ Cardinality(notifying) \in Nat
      /\ Cardinality(Ready') \in Nat /\ Cardinality(notifying') \in Nat
  <2>1. IsFiniteSet(Threads)
    BY ThreadsAssumption, FS_Union DEF Threads
  <2>2. IsFiniteSet(Ready') /\ IsFiniteSet(notifying')
    BY <2>1, ThreadsAssumption, FS_Subset DEF Ready, TypeOK
  <2> QED BY <2>2, FiniteParts, FS_CardinalityType DEF PoolInv, TypeOK
<1>1. ASSUME NEW w \in Workers, WorkerWait(w) PROVE NoLostWakeup'
  BY <1>0, <1>1 DEF WorkerWait, NoLostWakeup
<1>2. ASSUME NEW w \in Workers, WorkerTake(w) PROVE NoLostWakeup'
  <2>1. Cardinality(Ready') = Cardinality(Ready) - 1
    BY <1>0, <1>2, ReadyLoses DEF WorkerTake
  <2>2. Len(tasks') = Len(tasks) - 1
    BY <1>0, <1>2 DEF WorkerTake, TypeOK
  <2>3. Waiting' = Waiting
    BY <1>0, <1>2 DEF WorkerTake, Waiting, TypeOK
  <2> QED BY <1>0, <1>2, <2>1, <2>2, <2>3 DEF NoLostWakeup, WorkerTake
<1>3. ASSUME NEW w \in Workers, WorkerReturn(w) PROVE NoLostWakeup'
  BY <1>0, <1>3 DEF WorkerReturn, NoLostWakeup
<1>4. ASSUME NEW w \in Workers, SpuriousWake(w) \/ FinishTask(w) PROVE NoLostWakeup'
  <2>1. Cardinality(Ready') = Cardinality(Ready) + 1
    BY <1>0, <1>4, ReadyGains DEF SpuriousWake, FinishTask
  <2>2. Waiting' \subseteq Waiting
    BY <1>0, <1>4 DEF SpuriousWake, FinishTask, Waiting, TypeOK
  <2> QED BY <1>0, <1>4, <2>1, <2>2 DEF NoLostWakeup, SpuriousWake, FinishTask
<1>5. ASSUME NEW c \in Threads, NEW t \in Tasks, EnqueuePush(c, t) PROVE NoLostWakeup'
  <2>1. notifying' = notifying \cup {c} /\ c \notin notifying /\ UNCHANGED wpc
    BY <1>5 DEF EnqueuePush, CanEnqueue
  <2>2. Cardinality(notifying') = Cardinality(notifying) + 1
    BY <1>0, <2>1, FiniteParts, FS_AddElement
  <2>3. Len(tasks') = Len(tasks) + 1
    BY <1>0, <1>5 DEF EnqueuePush, TypeOK
  <2>4. Ready' = Ready /\ Waiting' = Waiting
    BY <2>1 DEF Ready, Waiting
  <2> QED BY <1>0, <2>2, <2>3, <2>4 DEF NoLostWakeup
<1>6. ASSUME NEW c \in Threads, EnqueueNotify(c) PROVE NoLostWakeup'
  <2>1. Cardinality(notifying') = Cardinality(notifying) - 1
    BY <1>0, <1>6, FiniteParts, FS_RemoveElement DEF EnqueueNotify
  <2>2. CASE Waiting = {} /\ UNCHANGED wpc
    BY <2>2 DEF NoLostWakeup, Waiting
  <2>3. CASE \E w \in Waiting : wpc' = [wpc EXCEPT ![w] = "ready"]
    <3>1. PICK w \in Waiting : wpc' = [wpc EXCEPT ![w] = "ready"]
      BY <2>3
    <3>2. Cardinality(Ready') = Cardinality(Ready) + 1
      BY <1>0, <3>1, ReadyGains DEF Waiting
    <3> QED BY <1>0, <1>6, <2>1, <3>1, <3>2 DEF NoLostWakeup, EnqueueNotify
  <2> QED BY <1>6, <2>2, <2>3 DEF EnqueueNotify
<1>7. ASSUME UNCHANGED <<tasks, wpc, notifying>> PROVE NoLostWakeup'
  BY <1>0, <1>7 DEF NoLostWakeup, Ready, Waiting
<1>8. CASE DtorNotifyAll
  <2>1. Waiting' = {}
    BY <1>0, <1>8 DEF DtorNotifyAll, Waiting, TypeOK
  <2> QED BY <2>1 DEF NoLostWakeup
<1> QED
  BY <1>1, <1>2, <1>3, <1>4, <1>5, <1>6, <1>7, <1>8
     DEF Next, WorkerStep, Enqueue, Gone, EnqueueRefused, DtorStop, DtorJoin, vars

(* The invariant is inductive. *)
LEMMA NextPoolInv == PoolInv /\ [Next]_vars => PoolInv'
<1> SUFFICES ASSUME PoolInv, [Next]_vars PROVE PoolInv'
  OBVIOUS
<1>1. TypeOK'
  BY NextTypeOK DEF PoolInv
<1> QED
  BY <1>1, DtorStep, TasksStep, WakeupStep DEF PoolInv

(* It holds in every reachable state. *)
LEMMA PoolInvariant == Spec => []PoolInv
<1>1. Init => PoolInv
  BY InitPoolInv
<1>2. PoolInv /\ [Next]_vars => PoolInv'
  BY NextPoolInv
<1> QED
  BY <1>1, <1>2, PTL DEF Spec, SafeSpec

(* An accepted task is in exactly one place: queued once, running on one   *)
(* worker, or finished; a task whose enqueue threw is in none.             *)
THEOREM TasksAreKept == Spec => []EachTaskOnce
<1>1. PoolInv => EachTaskOnce
  BY DEF PoolInv
<1> QED
  BY <1>1, PoolInvariant, PTL

(* notify_one after the mutex has been released loses no wakeup: a queued  *)
(* task always has a worker or a notification on its way while any worker  *)
(* sleeps.                                                                 *)
THEOREM WakeupsAreKept == Spec => []NoLostWakeup
<1>1. PoolInv => NoLostWakeup
  BY DEF PoolInv
<1> QED
  BY <1>1, PoolInvariant, PTL

(* Once the destructor has joined the workers, every future is fulfilled.  *)
THEOREM DestructorDrains == Spec => []JoinedDrained
<1>1. ASSUME PoolInv PROVE JoinedDrained
  <2> SUFFICES ASSUME dtor = "joined"
               PROVE  futures = finished /\ notifying \cap Workers = {}
    BY DEF JoinedDrained
  <2>1. \A w \in Workers : wpc[w] = "returned"
    BY <1>1 DEF PoolInv, DtorInv
  <2>2. tasks = <<>>
    BY <1>1, <2>1, ThreadsAssumption DEF PoolInv, ReturnedMeansDrained
  <2>3. Queued = {}
    BY <2>2 DEF Queued
  <2>4. Running = {}
    BY <2>1 DEF Running
  <2>5. notifying \cap Workers = {}
    BY <1>1, <2>1 DEF PoolInv, NotifierRuns
  <2> QED BY <1>1, <2>3, <2>4, <2>5 DEF PoolInv, EachTaskOnce
<1> QED
  BY <1>1, PoolInvariant, PTL

-----------------------------------------------------------------------------
(* The pool at work.                                                       *)

(* While a task is queued, somebody is on the way to it: a notification is *)
(* due, a worker goes for the queue, or one runs a task that returns.      *)
QueueIsServed ==
    tasks # <<>> =>
       \/ notifying # {}
       \/ \E w \in Workers : wpc[w] = "ready"
       \/ \E w \in Workers : wpc[w] = "running" /\ task[w] \notin Endless

(* After notify_all every worker is on its way out, or runs a task first.  *)
DestructorGoesOn ==
    dtor = "notified" =>
       \/ \A w \in Workers : wpc[w] = "returned"
       \/ \E w \in Workers : wpc[w] \in {"ready", "running"}

(* As long as fewer tasks are endless than there are workers, no queued    *)
(* task waits for ever for want of a worker: the server has one endless    *)
(* task, the subscriber loop, and needs two workers.  And the destructor   *)
(* waits for nothing but tasks that run.                                   *)
THEOREM NoTaskStarves ==
    ASSUME IsFiniteSet(Endless), Cardinality(Endless) < Cardinality(Workers)
    PROVE  Spec => [](QueueIsServed /\ DestructorGoesOn)
<1>1. ASSUME PoolInv, tasks # <<>>, Ready = {}, notifying = {}
      PROVE  \A w \in Workers : wpc[w] = "running"
  <2>1. Waiting = {}
    <3>1. Cardinality(Ready) = 0 /\ Cardinality(notifying) = 0
      BY <1>1, FS_EmptySet
    <3>2. Len(tasks) \in Nat /\ Len(tasks) # 0
      BY <1>1 DEF PoolInv, TypeOK
    <3>. QED BY <1>1, <3>1, <3>2 DEF PoolInv, NoLostWakeup
  <2>2. \A w \in Workers : wpc[w] # "returned"
    BY <1>1 DEF PoolInv, ReturnedMeansDrained
  <2>. QED BY <1>1, <2>1, <2>2 DEF PoolInv, TypeOK, WorkerStates, Waiting, Ready
<1>2. ASSUME PoolInv PROVE QueueIsServed
  <2>. SUFFICES ASSUME tasks # <<>>, notifying = {}, Ready = {},
                       \A w \in Workers : wpc[w] = "running" => task[w] \in Endless
                PROVE  FALSE
    BY DEF QueueIsServed, Ready
  <2>1. \A w \in Workers : task[w] \in Endless /\ task[w] # NoTask
    BY <1>1, <1>2 DEF PoolInv, TypeOK
  <2>2. task \in [Workers -> Endless]
    BY <1>2, <2>1 DEF PoolInv, TypeOK
  <2>3. PICK v, w \in Workers : v # w /\ task[v] = task[w]
    <3>1. IsFiniteSet(Workers) /\ IsFiniteSet(Endless) /\ Cardinality(Endless) < Cardinality(Workers)
      BY ThreadsAssumption
    <3>. QED BY <2>2, <3>1, FS_PigeonHole, Zenon
  <2>. QED BY <1>2, <2>1, <2>3 DEF PoolInv, EachTaskOnce
<1>3. ASSUME PoolInv PROVE DestructorGoesOn
  BY <1>3 DEF PoolInv, TypeOK, WorkerStates, NoSleeperAfterNotifyAll, Waiting, DestructorGoesOn
<1>. QED BY <1>2, <1>3, PoolInvariant, PTL

-----------------------------------------------------------------------------
(* How far the pool has come.                                              *)

(* The tasks that left the queue, and the steps of the destructor.         *)
Taken == futures \ Queued
Passed == IF dtor = "none" THEN {} ELSE IF dtor = "stopped" THEN {"stopped"}
          ELSE IF dtor = "notified" THEN {"stopped", "notified"}
          ELSE {"stopped", "notified", "joined"}

Ahead == <<futures, refused, Taken, finished, Passed>>

Growing == /\ futures \subseteq futures' /\ refused \subseteq refused'
           /\ Taken \subseteq Taken' /\ finished \subseteq finished'
           /\ Passed \subseteq Passed'

Shrinks(S, T) == T \subseteq S /\ T # S

(* A task or the destructor comes further; else a notification is made;    *)
(* else a worker that was ready goes to sleep or returns.                  *)
Forward ==
    /\ Growing
    /\ \/ Ahead' # Ahead
       \/ Shrinks(notifying, notifying')
       \/ UNCHANGED notifying /\ Shrinks(Ready, Ready')

(* Nothing happens to tasks and destructor. *)
LEMMA AheadSame ==
    ASSUME UNCHANGED <<tasks, dtor, futures, refused, finished>>
    PROVE  Growing
BY DEF Growing, Taken, Queued, Passed

LEMMA WorkerForward ==
    ASSUME PoolInv, NEW w \in Workers, WorkerStep(w) \/ FinishTask(w)
    PROVE  Forward
<1>0. TypeOK /\ EachTaskOnce
  BY DEF PoolInv
<1>1. CASE WorkerWait(w) \/ WorkerReturn(w)
  <2>1. /\ wpc[w] = "ready" /\ wpc'[w] # "ready" /\ \A v \in Workers : v # w => wpc'[v] = wpc[v]
        /\ UNCHANGED <<tasks, notifying, dtor, futures, refused, finished>>
    BY <1>0, <1>1 DEF WorkerWait, WorkerReturn, TypeOK
  <2>2. Shrinks(Ready, Ready')
    BY <2>1 DEF Shrinks, Ready
  <2>. QED BY <2>1, <2>2, AheadSame DEF Forward
<1>2. CASE WorkerTake(w)
  <2>. DEFINE t == Head(tasks)
  <2>1. tasks # <<>> /\ tasks' = Tail(tasks) /\ UNCHANGED <<dtor, futures, refused, finished>>
    BY <1>2 DEF WorkerTake
  <2>2. Queued' = Queued \ {t} /\ t \in Queued
    BY <1>0, <2>1, QueuedTail DEF EachTaskOnce
  <2>. HIDE DEF t
  <2>3. Taken \subseteq Taken' /\ t \in Taken' /\ t \notin Taken
    BY <1>0, <2>1, <2>2 DEF Taken, EachTaskOnce
  <2>4. Growing /\ Ahead' # Ahead
    BY <2>1, <2>3 DEF Growing, Passed, Ahead
  <2>. QED BY <2>4 DEF Forward
<1>3. CASE FinishTask(w)
  <2>1. /\ wpc[w] = "running" /\ finished' = finished \cup {task[w]}
        /\ UNCHANGED <<tasks, dtor, futures, refused>>
    BY <1>3 DEF FinishTask
  <2>2. task[w] \notin finished
    BY <1>0, <2>1 DEF EachTaskOnce, Running
  <2>3. Growing /\ Ahead' # Ahead
    BY <2>1, <2>2 DEF Growing, Taken, Queued, Passed, Ahead
  <2>. QED BY <2>3 DEF Forward
<1>. QED BY <1>1, <1>2, <1>3 DEF WorkerStep

LEMMA EnqueueForward ==
    ASSUME PoolInv, NEW c \in Threads, Enqueue(c)
    PROVE  Forward
<1>0. TypeOK /\ EachTaskOnce
  BY DEF PoolInv
<1>1. ASSUME NEW t \in Tasks, EnqueuePush(c, t) PROVE Forward
  <2>1. /\ t \notin futures /\ futures' = futures \cup {t} /\ tasks' = Append(tasks, t)
        /\ UNCHANGED <<dtor, refused, finished>>
    BY <1>1 DEF EnqueuePush, Fresh
  <2>2. Queued' = Queued \cup {t}
    BY <1>0, <2>1, QueuedAppend
  <2>3. Growing /\ Ahead' # Ahead
    BY <2>1, <2>2 DEF Growing, Taken, Passed, Ahead
  <2>. QED BY <2>3 DEF Forward
<1>2. ASSUME NEW t \in Tasks, EnqueueRefused(c, t) PROVE Forward
  <2>1. /\ t \notin refused /\ refused' = refused \cup {t}
        /\ UNCHANGED <<tasks, dtor, futures, finished>>
    BY <1>2 DEF EnqueueRefused, Fresh
  <2>2. Growing /\ Ahead' # Ahead
    BY <2>1 DEF Growing, Taken, Queued, Passed, Ahead
  <2>. QED BY <2>2 DEF Forward
<1>3. CASE EnqueueNotify(c)
  <2>1. /\ c \in notifying /\ notifying' = notifying \ {c}
        /\ UNCHANGED <<tasks, dtor, futures, refused, finished>>
    BY <1>3 DEF EnqueueNotify
  <2>. QED BY <2>1, AheadSame DEF Forward, Shrinks
<1>. QED BY <1>1, <1>2, <1>3 DEF Enqueue

(* Every step but a spurious wakeup goes forward, so that finitely many    *)
(* tasks take finitely many steps: no task is run twice, put back or left  *)
(* half taken, and a notification wakes at most one worker, once.          *)
THEOREM EveryStepForward == Spec => [][(\E w \in Workers : SpuriousWake(w)) \/ Forward]_vars
<1>1. ASSUME PoolInv, Next, ~Gone PROVE (\E w \in Workers : SpuriousWake(w)) \/ Forward
  <2>1. CASE DtorStop \/ DtorNotifyAll \/ DtorJoin
    <3>1. /\ UNCHANGED <<tasks, futures, refused, finished>>
          /\ \/ dtor = "none" /\ dtor' = "stopped"
             \/ dtor = "stopped" /\ dtor' = "notified"
             \/ dtor = "notified" /\ dtor' = "joined"
      BY <2>1 DEF DtorStop, DtorNotifyAll, DtorJoin
    <3>2. Passed \subseteq Passed' /\ Passed' # Passed
      BY <3>1 DEF Passed
    <3>3. Growing /\ Ahead' # Ahead
      BY <3>1, <3>2 DEF Growing, Taken, Queued, Ahead
    <3>. QED BY <3>3 DEF Forward
  <2>. QED BY <1>1, <2>1, WorkerForward, EnqueueForward DEF Next
<1>2. PoolInv /\ [Next]_vars => [(\E w \in Workers : SpuriousWake(w)) \/ Forward]_vars
  BY <1>1 DEF Gone
<1>. QED BY <1>2, PoolInvariant, PTL DEF Spec, SafeSpec

-----------------------------------------------------------------------------
(* Step simulation of the abstract executor.                               *)

(* An accepted task is known to the executor in the same sense.            *)
LEMMA KnownIsAccepted ==
    ASSUME PoolInv, NEW t \in Tasks
    PROVE  Exec!Known(t) <=> t \in futures
<1>1. Exec!InPending(t) <=> t \in Queued
  BY DEF Exec!InPending, Queued
<1>2. (\E w \in Workers : task[w] = t) <=> t \in Running
  BY RunningTasks, TasksAssumption DEF PoolInv
<1> QED BY <1>1, <1>2 DEF Exec!Known, PoolInv, EachTaskOnce

(* Each critical section of the pool is a step of the executor or changes  *)
(* nothing it can see: tasks are started once each and in the order of     *)
(* their enqueues, and after the destructor has begun none is accepted.    *)
THEOREM ImplementsExecutorSafety == Spec => Exec!SafeSpec
<1>1. Init => Exec!Init
  BY DEF Init, Exec!Init
<1>2. ASSUME PoolInv, [Next]_vars PROVE [Exec!Next]_Exec!vars
  <2> USE DEF Exec!Next
  <2>1. ASSUME NEW w \in Workers, WorkerTake(w) PROVE Exec!Next
    <3>1. task[w] = NoTask
      BY <1>2, <2>1 DEF WorkerTake, PoolInv, TypeOK
    <3>2. Exec!Start(w)
      BY <2>1, <3>1 DEF WorkerTake, Exec!Start
    <3> QED BY <3>2
  <2>2. ASSUME NEW w \in Workers, FinishTask(w) PROVE Exec!Next
    <3>1. task[w] # NoTask
      BY <1>2, <2>2 DEF FinishTask, PoolInv, TypeOK
    <3>2. Exec!Finish(w)
      BY <2>2, <3>1 DEF FinishTask, Exec!Finish
    <3> QED BY <3>2
  <2>3. ASSUME NEW c \in Threads, NEW t \in Tasks, EnqueuePush(c, t) PROVE Exec!Next
    <3>1. ~Exec!Known(t)
      BY <1>2, <2>3, KnownIsAccepted DEF EnqueuePush, Fresh
    <3>2. Exec!Submit(t)
      BY <2>3, <3>1 DEF EnqueuePush, Exec!Submit
    <3> QED BY <3>2
  <2>4. ASSUME DtorStop PROVE Exec!Next
    <3>1. ~stop
      BY <1>2, <2>4 DEF DtorStop, PoolInv, DtorInv
    <3>2. Exec!Close
      BY <2>4, <3>1 DEF DtorStop, Exec!Close
    <3> QED BY <3>2
  <2>5. ASSUME UNCHANGED <<tasks, task, finished, stop>> PROVE UNCHANGED Exec!vars
    BY <2>5 DEF Exec!vars
  <2> QED
    BY <1>2, <2>1, <2>2, <2>3, <2>4, <2>5
       DEF Next, WorkerStep, Enqueue, Gone, vars, WorkerWait, WorkerReturn,
           SpuriousWake, EnqueueRefused, EnqueueNotify, DtorNotifyAll, DtorJoin
<1> QED
  BY <1>1, <1>2, PoolInvariant, PTL DEF Spec, SafeSpec, Exec!SafeSpec
=============================================================================
