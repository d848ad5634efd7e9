----------------------------- MODULE ThreadPool -----------------------------
(***************************************************************************)
(* Core::ThreadPool (src/core/include/ThreadPool.hpp, src/core/src/        *)
(* ThreadPool.cpp): one task queue, one mutex, one condition variable.     *)
(*                                                                         *)
(* One action is one critical section of queue_mutex.  What the code does  *)
(* outside the mutex is an action of its own: running a task, notify_one   *)
(* at the end of enqueue, notify_all and join in the destructor.           *)
(* A waiting thread is in the wait set of `condition`; it leaves it on a   *)
(* notification, or spuriously, and evaluates its predicate again once it  *)
(* has the mutex.                                                          *)
(*                                                                         *)
(* Tasks are enqueued by HTTP threads (Callers), which httplib joins       *)
(* before the destructor runs, and by tasks that are themselves running on *)
(* a worker (the subscriber loop of Application::run), which may still be  *)
(* running then.                                                           *)
(***************************************************************************)
EXTENDS Sequences, FiniteSets, Naturals

CONSTANTS Workers,   \* the threads of the pool
          Callers,   \* threads outside the pool that call enqueue
          Tasks,     \* identities of the tasks
          Endless,   \* tasks that need not return by themselves
          NoTask     \* not a task

ASSUME ThreadsAssumption == /\ IsFiniteSet(Workers)
                            /\ IsFiniteSet(Callers)
                            /\ Workers \cap Callers = {}
                            /\ Workers # {}

ASSUME TasksAssumption == NoTask \notin Tasks

VARIABLES tasks,      \* ThreadPool::tasks, the queue
          stop,       \* ThreadPool::stop
          wpc,        \* worker -> where its thread is
          task,       \* worker -> the local variable `task` of its loop
          notifying,  \* threads in enqueue between unlock and notify_one
          dtor,       \* progress of ~ThreadPool
          futures,    \* tasks for which enqueue returned a future
          finished,   \* tasks that have returned
          refused     \* tasks for which enqueue threw

vars == <<tasks, stop, wpc, task, notifying, dtor, futures, finished, refused>>

Threads == Workers \cup Callers

WorkerStates == {"ready", "waiting", "running", "returned"}

DtorStates == {"none", "stopped", "notified", "joined"}

Ready   == {w \in Workers : wpc[w] = "ready"}
Waiting == {w \in Workers : wpc[w] = "waiting"}

Queued == {tasks[i] : i \in 1..Len(tasks)}

Running == {task[w] : w \in {v \in Workers : wpc[v] = "running"}}

-----------------------------------------------------------------------------
(* The constructor starts every worker; each goes for the mutex first.     *)
Init == /\ tasks = <<>>
        /\ stop = FALSE
        /\ wpc = [w \in Workers |-> "ready"]
        /\ task = [w \in Workers |-> NoTask]
        /\ notifying = {}
        /\ dtor = "none"
        /\ futures = {}
        /\ finished = {}
        /\ refused = {}

-----------------------------------------------------------------------------
(* The worker's loop.                                                      *)

(* condition.wait: the predicate `stop || !tasks.empty()` is false.        *)
WorkerWait(w) ==
    /\ wpc[w] = "ready"
    /\ ~stop /\ tasks = <<>>
    /\ wpc' = [wpc EXCEPT ![w] = "waiting"]
    /\ UNCHANGED <<tasks, stop, task, notifying, dtor, futures, finished, refused>>

(* The worker that takes the newest task instead of the oldest.            *)
WorkerTakeNewest(w) ==
    /\ wpc[w] = "ready"
    /\ tasks # <<>>
    /\ wpc' = [wpc EXCEPT ![w] = "running"]
    /\ task' = [task EXCEPT ![w] = tasks[Len(tasks)]]
    /\ tasks' = SubSeq(tasks, 1, Len(tasks) - 1)
    /\ UNCHANGED <<stop, notifying, dtor, futures, finished, refused>>

(* The worker that reads the front of the queue and forgets to pop it.     *)
WorkerTakeNoPop(w) ==
    /\ wpc[w] = "ready"
    /\ tasks # <<>>
    /\ wpc' = [wpc EXCEPT ![w] = "running"]
    /\ task' = [task EXCEPT ![w] = Head(tasks)]
    /\ UNCHANGED <<tasks, stop, notifying, dtor, futures, finished, refused>>

(* The predicate holds and the queue is not empty: front and pop.          *)
WorkerTake(w) ==
    /\ wpc[w] = "ready"
    /\ tasks # <<>>
    /\ wpc' = [wpc EXCEPT ![w] = "running"]
    /\ task' = [task EXCEPT ![w] = Head(tasks)]
    /\ tasks' = Tail(tasks)
    /\ UNCHANGED <<stop, notifying, dtor, futures, finished, refused>>

(* The worker that returns on `stop` without looking at the queue.         *)
WorkerReturnOnStop(w) ==
    /\ wpc[w] = "ready"
    /\ stop
    /\ wpc' = [wpc EXCEPT ![w] = "returned"]
    /\ UNCHANGED <<tasks, stop, task, notifying, dtor, futures, finished, refused>>

(* The predicate holds because of `stop`, and the queue is empty.          *)
WorkerReturn(w) ==
    /\ wpc[w] = "ready"
    /\ stop /\ tasks = <<>>
    /\ wpc' = [wpc EXCEPT ![w] = "returned"]
    /\ UNCHANGED <<tasks, stop, task, notifying, dtor, futures, finished, refused>>

(* A wakeup of the condition variable that no notification caused.         *)
SpuriousWake(w) ==
    /\ wpc[w] = "waiting"
    /\ wpc' = [wpc EXCEPT ![w] = "ready"]
    /\ UNCHANGED <<tasks, stop, task, notifying, dtor, futures, finished, refused>>

(* The worker that leaves the finished task in its local variable.         *)
FinishTaskKept(w) ==
    /\ wpc[w] = "running"
    /\ w \notin notifying
    /\ finished' = finished \cup {task[w]}
    /\ wpc' = [wpc EXCEPT ![w] = "ready"]
    /\ UNCHANGED <<tasks, stop, task, notifying, dtor, futures, refused>>

(* task() returns.  It is a packaged_task, so an exception thrown by the   *)
(* callable is stored in the future and never reaches the worker's loop.   *)
FinishTask(w) ==
    /\ wpc[w] = "running"
    /\ w \notin notifying
    /\ finished' = finished \cup {task[w]}
    /\ wpc' = [wpc EXCEPT ![w] = "ready"]
    /\ task' = [task EXCEPT ![w] = NoTask]
    /\ UNCHANGED <<tasks, stop, notifying, dtor, futures, refused>>

-----------------------------------------------------------------------------
(* enqueue, called by thread c.                                            *)

CanEnqueue(c) == /\ c \notin notifying
                 /\ \/ c \in Callers /\ dtor = "none"
                    \/ c \in Workers /\ wpc[c] = "running"

Fresh(t) == t \notin futures \cup refused

(* The enqueue that notifies only when it found the queue empty.           *)
EnqueuePushQuiet(c, t) ==
    /\ CanEnqueue(c) /\ Fresh(t)
    /\ ~stop
    /\ tasks' = Append(tasks, t)
    /\ futures' = futures \cup {t}
    /\ notifying' = IF tasks = <<>> THEN notifying \cup {c} ELSE notifying
    /\ UNCHANGED <<stop, wpc, task, dtor, finished, refused>>

(* The critical section of enqueue when the pool is not stopped.           *)
EnqueuePush(c, t) ==
    /\ CanEnqueue(c) /\ Fresh(t)
    /\ ~stop
    /\ tasks' = Append(tasks, t)
    /\ futures' = futures \cup {t}
    /\ notifying' = notifying \cup {c}
    /\ UNCHANGED <<stop, wpc, task, dtor, finished, refused>>

(* enqueue throws "enqueue on stopped ThreadPool".                         *)
EnqueueRefused(c, t) ==
    /\ CanEnqueue(c) /\ Fresh(t)
    /\ stop
    /\ refused' = refused \cup {t}
    /\ UNCHANGED <<tasks, stop, wpc, task, notifying, dtor, futures, finished>>

(* The enqueue that never notifies.                                        *)
EnqueueNotifyNobody(c) ==
    /\ c \in notifying
    /\ notifying' = notifying \ {c}
    /\ UNCHANGED <<tasks, stop, wpc, task, dtor, futures, finished, refused>>

(* condition.notify_one(), without the mutex: one waiting thread if there  *)
(* is any, nobody otherwise.                                               *)
EnqueueNotify(c) ==
    /\ c \in notifying
    /\ notifying' = notifying \ {c}
    /\ \/ Waiting = {} /\ UNCHANGED wpc
       \/ \E w \in Waiting : wpc' = [wpc EXCEPT ![w] = "ready"]
    /\ UNCHANGED <<tasks, stop, task, dtor, futures, finished, refused>>

-----------------------------------------------------------------------------
(* ~ThreadPool.                                                            *)

(* stop = true under the mutex.  No HTTP thread is inside enqueue: httplib *)
(* joined them before Application::run returned.                           *)
DtorStop ==
    /\ dtor = "none"
    /\ notifying \cap Callers = {}
    /\ dtor' = "stopped"
    /\ stop' = TRUE
    /\ UNCHANGED <<tasks, wpc, task, notifying, futures, finished, refused>>

(* The destructor that wakes one worker only.                              *)
DtorNotifyOne ==
    /\ dtor = "stopped"
    /\ dtor' = "notified"
    /\ \/ Waiting = {} /\ UNCHANGED wpc
       \/ \E w \in Waiting : wpc' = [wpc EXCEPT ![w] = "ready"]
    /\ UNCHANGED <<tasks, stop, task, notifying, futures, finished, refused>>

(* condition.notify_all().                                                 *)
DtorNotifyAll ==
    /\ dtor = "stopped"
    /\ dtor' = "notified"
    /\ wpc' = [w \in Workers |-> IF w \in Waiting THEN "ready" ELSE wpc[w]]
    /\ UNCHANGED <<tasks, stop, task, notifying, futures, finished, refused>>

(* Every worker.join() has returned.                                       *)
DtorJoin ==
    /\ dtor = "notified"
    /\ \A w \in Workers : wpc[w] = "returned"
    /\ dtor' = "joined"
    /\ UNCHANGED <<tasks, stop, wpc, task, notifying, futures, finished, refused>>

(* The pool is gone. *)
Gone == dtor = "joined" /\ UNCHANGED vars

-----------------------------------------------------------------------------
WorkerStep(w) == WorkerWait(w) \/ WorkerTake(w) \/ WorkerReturn(w)

Enqueue(c) == \/ \E t \in Tasks : EnqueuePush(c, t) \/ EnqueueRefused(c, t)
              \/ EnqueueNotify(c)

Next == \/ \E w \in Workers : WorkerStep(w) \/ SpuriousWake(w) \/ FinishTask(w)
        \/ \E c \in Threads : Enqueue(c)
        \/ DtorStop \/ DtorNotifyAll \/ DtorJoin
        \/ Gone

(* Every thread that can move is scheduled; a task that is not endless     *)
(* returns.  Nobody has to enqueue anything, and nothing wakes a thread    *)
(* spuriously on demand.                                                   *)
Fairness == /\ \A w \in Workers : /\ WF_vars(WorkerStep(w))
                                  /\ WF_vars(task[w] \notin Endless /\ FinishTask(w))
            /\ \A c \in Threads : WF_vars(EnqueueNotify(c))
            /\ WF_vars(DtorNotifyAll)
            /\ WF_vars(DtorJoin)

SafeSpec == Init /\ [][Next]_vars

Spec == SafeSpec /\ Fairness

-----------------------------------------------------------------------------
(* Types; a worker holds a task exactly while it runs one.                 *)
TypeOK == /\ tasks \in Seq(Tasks)
          /\ stop \in BOOLEAN
          /\ wpc \in [Workers -> WorkerStates]
          /\ task \in [Workers -> Tasks \cup {NoTask}]
          /\ \A w \in Workers : wpc[w] = "running" <=> task[w] # NoTask
          /\ notifying \subseteq Threads
          /\ dtor \in DtorStates
          /\ futures \subseteq Tasks
          /\ finished \subseteq Tasks
          /\ refused \subseteq Tasks

(* Every task whose enqueue returned a future is in exactly one place: in  *)
(* the queue once, on one worker, or finished; a refused one is nowhere.   *)
EachTaskOnce ==
    /\ futures = Queued \cup Running \cup finished
    /\ futures \cap refused = {}
    /\ Queued \cap Running = {}
    /\ finished \cap (Queued \cup Running) = {}
    /\ \A i, j \in 1..Len(tasks) : tasks[i] = tasks[j] => i = j
    /\ \A v, w \in Workers : task[v] = task[w] /\ task[v] # NoTask => v = w

(* The hazard of a notify_one outside the mutex: while a worker sleeps,    *)
(* each queued task has a worker on its way to the queue or a notification *)
(* still to come.                                                          *)
NoLostWakeup ==
    Waiting # {} => Len(tasks) <= Cardinality(Ready) + Cardinality(notifying)

(* Nobody goes to sleep, or stays asleep, behind the destructor's back.    *)
NoSleeperAfterNotifyAll == dtor \in {"notified", "joined"} => Waiting = {}

(* The first worker to return leaves only when there is nothing left to    *)
(* take, and nothing can be added after it.                                *)
ReturnedMeansDrained ==
    (\E w \in Workers : wpc[w] = "returned") => stop /\ tasks = <<>>

(* A worker that is between unlock and notify_one is inside its task.      *)
NotifierRuns == \A w \in notifying \cap Workers : wpc[w] = "running"

(* When ~ThreadPool has joined its threads, every future is fulfilled.     *)
JoinedDrained == dtor = "joined" => futures = finished /\ notifying \cap Workers = {}

(* The pool implements the abstract executor.                              *)
Exec == INSTANCE Executor WITH pending <- tasks, running <- task,
                               done <- finished, closed <- stop

ImplementsExecutor == Exec!Spec

(* Every accepted task that is not endless returns, as long as fewer tasks *)
(* are endless than there are workers (Application::run parks one endless  *)
(* task, the subscriber loop, on the pool).                                *)
EveryTaskEnds ==
    \A t \in Tasks \ Endless : t \in futures ~> t \in finished

(* ~ThreadPool returns, unless an endless task still runs.                 *)
DestructorReturns ==
    dtor = "stopped" ~> (dtor = "joined" \/ Running \cap Endless # {})
=============================================================================
