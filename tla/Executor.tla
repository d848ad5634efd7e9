------------------------------ MODULE Executor ------------------------------
(***************************************************************************)
(* What Core::ThreadPool promises to the code that enqueues work on it,    *)
(* with no mutex, no condition variable and no notification: a task that   *)
(* was accepted is started exactly once, tasks are started in the order in *)
(* which they were accepted, and a closed pool accepts nothing more but    *)
(* still runs what it has.                                                 *)
(*                                                                         *)
(* Workers  the worker threads                                             *)
(* Tasks    the identities of the tasks handed to the pool                 *)
(* Endless  the tasks that need not return by themselves                   *)
(* NoTask   what an idle worker runs                                       *)
(***************************************************************************)
EXTENDS Sequences, Naturals

CONSTANTS Workers, Tasks, Endless, NoTask

VARIABLES pending,   \* accepted tasks not started yet, oldest first
          running,   \* worker -> the task it runs
          done,      \* tasks that have returned
          closed     \* no task is accepted any more

vars == <<pending, running, done, closed>>

InPending(t) == \E i \in 1..Len(pending) : pending[i] = t

Known(t) == \/ InPending(t)
            \/ \E w \in Workers : running[w] = t
            \/ t \in done

Init == /\ pending = <<>>
        /\ running = [w \in Workers |-> NoTask]
        /\ done = {}
        /\ closed = FALSE

(* ThreadPool::enqueue returned a future for t. *)
Submit(t) == /\ ~closed
             /\ ~Known(t)
             /\ pending' = Append(pending, t)
             /\ UNCHANGED <<running, done, closed>>

(* An idle worker starts the oldest accepted task. *)
Start(w) == /\ running[w] = NoTask
            /\ pending # <<>>
            /\ running' = [running EXCEPT ![w] = Head(pending)]
            /\ pending' = Tail(pending)
            /\ UNCHANGED <<done, closed>>

(* The task of worker w returns. *)
Finish(w) == /\ running[w] # NoTask
             /\ done' = done \cup {running[w]}
             /\ running' = [running EXCEPT ![w] = NoTask]
             /\ UNCHANGED <<pending, closed>>

(* The destructor of the pool has begun. *)
Close == /\ ~closed
         /\ closed' = TRUE
         /\ UNCHANGED <<pending, running, done>>

Next == \/ \E t \in Tasks : Submit(t)
        \/ \E w \in Workers : Start(w) \/ Finish(w)
        \/ Close

(* The workers never leave work lying while one of them is idle, and a     *)
(* task that is not endless returns.                                       *)
Fairness == /\ WF_vars(\E w \in Workers : Start(w))
            /\ \A w \in Workers : WF_vars(running[w] \notin Endless /\ Finish(w))

SafeSpec == Init /\ [][Next]_vars

Spec == SafeSpec /\ Fairness
=============================================================================
