------------------------------- MODULE DbPool -------------------------------
(***************************************************************************)
(* The database side of the server: Database::DbPool and DbWorker (src/    *)
(* database/), DbManager::execute and query (src/app/src/DbManager.cpp),   *)
(* and what an operation does with the connection it was given (src/app/   *)
(* src/dbop/).                                                             *)
(*                                                                         *)
(* One action is one critical section of DbPool::m_Mtx, except that        *)
(* acquire keeps the mutex while DbWorker::checkConnection reconnects: the *)
(* thread is then in "check", and every action that needs the mutex waits. *)
(* wait_for is a wait set; a thread leaves it when notified, spuriously,   *)
(* or when its timeout expires, and evaluates the predicate again (execute *)
(* loops on the nullptr of an expired acquire).                            *)
(*                                                                         *)
(* What an operation may throw out of operator() is a parameter.  The two  *)
(* operations of the code catch sql::SQLException themselves, so neither   *)
(* "parameter" nor "lockError" reaches execute with the statements the     *)
(* server builds today (Escapes = {}); execute handles both.               *)
(***************************************************************************)
EXTENDS Sequences, FiniteSets, Naturals

CONSTANTS Threads,       \* threads that call execute or query
          Size,          \* number of connections (DB_NUMBER)
          MaxReconnect,  \* DbWorker::MAX_RECONNECT
          Escapes,       \* exceptions that leave operator()
          MaxOps,        \* bound: operations each thread starts
          MaxRetry       \* bound: nested retries of one operation

ASSUME SizeAssumption == Size \in Nat \ {0}

ASSUME ThreadsAssumption == IsFiniteSet(Threads)

ASSUME BoundsAssumption == /\ MaxReconnect \in Nat
                           /\ MaxOps \in Nat
                           /\ MaxRetry \in Nat

ASSUME EscapesAssumption == Escapes \subseteq {"parameter", "lockError"}

VARIABLES available,  \* slot -> WorkerSlot::is_available
          connected,  \* slot -> DbWorker::m_Connection is not null
          pc,         \* thread -> where it is in execute / query
          held,       \* thread -> `worker` of each active call of execute
          tries,      \* `retry` of the checkConnection in progress
          kind,       \* thread -> the operation it executes
          reply,      \* thread -> what became of the last attempt
          ops,        \* thread -> operations started
          early,      \* a catch branch of execute has returned a worker
          alive       \* the server process has not crashed

vars == <<available, connected, pc, held, tries, kind, reply, ops, early, alive>>

Slots == 1..Size

PCs == {"idle", "acquire", "waiting", "check", "reconnect", "run",
        "catchParameter", "catchLock", "return", "result"}

(* The places at which a call of execute has a worker.                     *)
WorkerPCs == {"check", "reconnect", "run", "catchParameter", "catchLock", "return"}

Kinds == {"write", "query"}   \* DbInsertOp or DbUpdateOp; DbQueryOp

Replies == {"none", "ok", "error", "lockError"}

Holds(t, s) == \E i \in 1..Len(held[t]) : held[t][i] = s

(* The worker of the innermost call of execute. *)
Current(t) == held[t][Len(held[t])]

(* m_Mtx is held across checkConnection. *)
MutexFree == \A t \in Threads : pc[t] \notin {"check", "reconnect"}

Waiting   == {t \in Threads : pc[t] = "waiting"}
Acquiring == {t \in Threads : pc[t] = "acquire"}
Available == {s \in Slots : available[s]}

-----------------------------------------------------------------------------
(* The constructor: each DbWorker has run checkConnection, which may have  *)
(* given up and left m_Connection null.                                    *)
Init == /\ available = [s \in Slots |-> TRUE]
        /\ connected \in [Slots -> BOOLEAN]
        /\ pc = [t \in Threads |-> "idle"]
        /\ held = [t \in Threads |-> <<>>]
        /\ tries = 0
        /\ kind = [t \in Threads |-> "none"]
        /\ reply = [t \in Threads |-> "none"]
        /\ ops = [t \in Threads |-> 0]
        /\ early = FALSE
        /\ alive = TRUE

(* A thread enters DbManager::execute, or query, with an operation.        *)
Begin(t, k) ==
    /\ pc[t] = "idle" /\ ops[t] < MaxOps
    /\ pc' = [pc EXCEPT ![t] = "acquire"]
    /\ kind' = [kind EXCEPT ![t] = k]
    /\ reply' = [reply EXCEPT ![t] = "none"]
    /\ ops' = [ops EXCEPT ![t] = @ + 1]
    /\ UNCHANGED <<available, connected, held, tries, early, alive>>

-----------------------------------------------------------------------------
(* DbPool::acquire.                                                        *)

(* The predicate of wait_for is false. *)
AcquireWait(t) ==
    /\ pc[t] = "acquire" /\ MutexFree
    /\ Available = {}
    /\ pc' = [pc EXCEPT ![t] = "waiting"]
    /\ UNCHANGED <<available, connected, held, tries, kind, reply, ops, early, alive>>

(* A spurious wakeup, or the timeout: wait_for evaluates its predicate     *)
(* once more; when it is false after the timeout, acquire returns nullptr  *)
(* and execute calls it again.                                             *)
WaitEnds(t) ==
    /\ pc[t] = "waiting"
    /\ pc' = [pc EXCEPT ![t] = "acquire"]
    /\ UNCHANGED <<available, connected, held, tries, kind, reply, ops, early, alive>>

(* find_if: the first available slot. *)
FirstAvailable(s) == available[s] /\ \A r \in Slots : available[r] => s <= r

(* The acquire that forgets to mark the slot busy. *)
AcquireSlotUnmarked(t, s) ==
    /\ pc[t] = "acquire" /\ MutexFree
    /\ FirstAvailable(s)
    /\ held' = [held EXCEPT ![t] = Append(@, s)]
    /\ pc' = [pc EXCEPT ![t] = "check"]
    /\ UNCHANGED <<available, connected, tries, kind, reply, ops, early, alive>>

(* The slot is marked busy and its connection is about to be checked.      *)
AcquireSlot(t, s) ==
    /\ pc[t] = "acquire" /\ MutexFree
    /\ FirstAvailable(s)
    /\ available' = [available EXCEPT ![s] = FALSE]
    /\ held' = [held EXCEPT ![t] = Append(@, s)]
    /\ pc' = [pc EXCEPT ![t] = "check"]
    /\ UNCHANGED <<connected, tries, kind, reply, ops, early, alive>>

(* checkConnection: there is a connection and isValid() answers true.      *)
CheckValid(t) ==
    /\ pc[t] = "check"
    /\ connected[Current(t)]
    /\ pc' = [pc EXCEPT ![t] = "run"]
    /\ UNCHANGED <<available, connected, held, tries, kind, reply, ops, early, alive>>

(* There is none, or MySQL has closed it: isValid() is false or throws.    *)
CheckInvalid(t) ==
    /\ pc[t] = "check"
    /\ pc' = [pc EXCEPT ![t] = "reconnect"]
    /\ UNCHANGED <<available, connected, held, tries, kind, reply, ops, early, alive>>

(* connect() succeeds. *)
ReconnectOk(t) ==
    /\ pc[t] = "reconnect" /\ tries < MaxReconnect
    /\ connected' = [connected EXCEPT ![Current(t)] = TRUE]
    /\ pc' = [pc EXCEPT ![t] = "run"]
    /\ tries' = 0
    /\ UNCHANGED <<available, held, kind, reply, ops, early, alive>>

(* The loop that counts one attempt too many.                              *)
ReconnectFailsOnceMore(t) ==
    /\ pc[t] = "reconnect" /\ tries <= MaxReconnect
    /\ connected' = [connected EXCEPT ![Current(t)] = FALSE]
    /\ tries' = tries + 1
    /\ UNCHANGED <<available, pc, held, kind, reply, ops, early, alive>>

(* connect() fails and resets the connection; the thread sleeps a second   *)
(* with the mutex held and tries again.                                    *)
ReconnectFails(t) ==
    /\ pc[t] = "reconnect" /\ tries < MaxReconnect
    /\ connected' = [connected EXCEPT ![Current(t)] = FALSE]
    /\ tries' = tries + 1
    /\ UNCHANGED <<available, pc, held, kind, reply, ops, early, alive>>

(* checkConnection gives up without telling its caller, and acquire        *)
(* returns the worker all the same.                                        *)
ReconnectGivesUp(t) ==
    /\ pc[t] = "reconnect" /\ tries = MaxReconnect
    /\ pc' = [pc EXCEPT ![t] = "run"]
    /\ tries' = 0
    /\ UNCHANGED <<available, connected, held, kind, reply, ops, early, alive>>

-----------------------------------------------------------------------------
(* The operation, and what execute does with its exceptions.               *)

(* The statement runs and is committed, or its result is kept.             *)
RunOk(t) ==
    /\ pc[t] = "run"
    /\ connected[Current(t)]
    /\ reply' = [reply EXCEPT ![t] = "ok"]
    /\ pc' = [pc EXCEPT ![t] = "return"]
    /\ UNCHANGED <<available, connected, held, tries, kind, ops, early, alive>>

(* The execute whose generic catch leaves without returning the worker.    *)
RunErrorLeaves(t) ==
    /\ pc[t] = "run"
    /\ connected[Current(t)]
    /\ reply' = [reply EXCEPT ![t] = "error"]
    /\ held' = [held EXCEPT ![t] = <<>>]
    /\ pc' = [pc EXCEPT ![t] = "idle"]
    /\ UNCHANGED <<available, connected, tries, kind, ops, early, alive>>

(* The server rejects the statement or the connection is stale.  Whether   *)
(* operator() swallows the exception or rollback throws a new one, execute *)
(* has no branch for its code and goes on to its last returnWorker.        *)
RunError(t) ==
    /\ pc[t] = "run"
    /\ connected[Current(t)]
    /\ reply' = [reply EXCEPT ![t] = "error"]
    /\ pc' = [pc EXCEPT ![t] = "return"]
    /\ UNCHANGED <<available, connected, held, tries, kind, ops, early, alive>>

(* The server aborts the statement: 1205, lock wait timeout, or 1213,      *)
(* deadlock.  operator() rolls back and returns normally, unless the       *)
(* exception is one that escapes.                                          *)
RunLockError(t) ==
    /\ pc[t] = "run"
    /\ connected[Current(t)]
    /\ "lockError" \in Escapes => Len(held[t]) <= MaxRetry
    /\ reply' = [reply EXCEPT ![t] = "lockError"]
    /\ pc' = [pc EXCEPT ![t] = IF "lockError" \in Escapes THEN "catchLock" ELSE "return"]
    /\ UNCHANGED <<available, connected, held, tries, kind, ops, early, alive>>

(* setSqlVariables throws a ParameterException. *)
RunParameter(t) ==
    /\ pc[t] = "run"
    /\ connected[Current(t)]
    /\ "parameter" \in Escapes
    /\ reply' = [reply EXCEPT ![t] = "error"]
    /\ pc' = [pc EXCEPT ![t] = "catchParameter"]
    /\ UNCHANGED <<available, connected, held, tries, kind, ops, early, alive>>

(* A null pointer is dereferenced: the process dies, and its memory and    *)
(* connections with it.                                                    *)
Crash == /\ alive' = FALSE
         /\ available' = [s \in Slots |-> TRUE]
         /\ connected' = [s \in Slots |-> FALSE]
         /\ pc' = [t \in Threads |-> "idle"]
         /\ held' = [t \in Threads |-> <<>>]
         /\ tries' = 0
         /\ kind' = [t \in Threads |-> "none"]
         /\ reply' = [t \in Threads |-> "none"]
         /\ UNCHANGED <<ops, early>>

(* operator() calls through the null connection. *)
RunNull(t) ==
    /\ pc[t] = "run"
    /\ ~connected[Current(t)]
    /\ Crash

-----------------------------------------------------------------------------
(* DbPool::returnWorker and its call sites in execute.                     *)

(* The returnWorker that notifies nobody; the new place of t is p.         *)
ReturnWorkerQuiet(t, s, p) ==
    /\ MutexFree
    /\ available' = [available EXCEPT ![s] = TRUE]
    /\ pc' = [pc EXCEPT ![t] = p]

(* The slot becomes available and one waiting thread, if any, is notified. *)
ReturnWorker(t, s, p) ==
    /\ MutexFree
    /\ available' = [available EXCEPT ![s] = TRUE]
    /\ \/ Waiting = {} /\ pc' = [pc EXCEPT ![t] = p]
       \/ \E u \in Waiting : pc' = [pc EXCEPT ![t] = p, ![u] = "acquire"]

(* catch (ParameterException): return the worker, then fall through to the *)
(* last returnWorker of execute.                                           *)
CatchParameter(t) ==
    /\ pc[t] = "catchParameter"
    /\ ReturnWorker(t, Current(t), "return")
    /\ early' = TRUE
    /\ UNCHANGED <<connected, held, tries, kind, reply, ops, alive>>

(* The retry that keeps its worker while it acquires another one.          *)
CatchLockHolding(t) ==
    /\ pc[t] = "catchLock"
    /\ pc' = [pc EXCEPT ![t] = "acquire"]
    /\ early' = TRUE
    /\ UNCHANGED <<available, connected, held, tries, kind, reply, ops, alive>>

(* catch (SQLException) with code 1205 or 1213: return the worker and call *)
(* execute again; this call still has its last returnWorker to do.         *)
CatchLock(t) ==
    /\ pc[t] = "catchLock"
    /\ ReturnWorker(t, Current(t), "acquire")
    /\ early' = TRUE
    /\ UNCHANGED <<connected, held, tries, kind, reply, ops, alive>>

(* Where a thread goes after the last returnWorker of a call of execute:   *)
(* to the end of the call around it, or out of execute.                    *)
AfterReturn(t) == IF Len(held[t]) > 1 THEN "return"
                  ELSE IF kind[t] = "query" THEN "result" ELSE "idle"

(* The operation object and its result are destroyed with the last call.   *)
ForgetOp(t, p) == IF p = "idle"
                  THEN /\ kind' = [kind EXCEPT ![t] = "none"]
                       /\ reply' = [reply EXCEPT ![t] = "none"]
                  ELSE UNCHANGED <<kind, reply>>

(* The last statement of execute. *)
LastReturn(t) ==
    /\ pc[t] = "return"
    /\ ReturnWorker(t, Current(t), AfterReturn(t))
    /\ held' = [held EXCEPT ![t] = SubSeq(@, 1, Len(@) - 1)]
    /\ ForgetOp(t, AfterReturn(t))
    /\ UNCHANGED <<connected, tries, ops, early, alive>>

(* DbQueryOp::getResult reads the rows of m_QueryResult.                   *)
GetResult(t) ==
    /\ pc[t] = "result"
    /\ reply[t] = "ok"
    /\ pc' = [pc EXCEPT ![t] = "idle"]
    /\ ForgetOp(t, "idle")
    /\ UNCHANGED <<available, connected, held, tries, ops, early, alive>>

(* getResult when the query failed: m_QueryResult is null.                 *)
GetNoResult(t) ==
    /\ pc[t] = "result"
    /\ reply[t] # "ok"
    /\ Crash

-----------------------------------------------------------------------------
Acquire(t) == AcquireWait(t) \/ \E s \in Slots : AcquireSlot(t, s)

Check(t) == \/ CheckValid(t) \/ CheckInvalid(t)
            \/ ReconnectOk(t) \/ ReconnectFails(t) \/ ReconnectGivesUp(t)

Run(t) == RunOk(t) \/ RunError(t) \/ RunLockError(t) \/ RunParameter(t) \/ RunNull(t)

Return(t) == CatchParameter(t) \/ CatchLock(t) \/ LastReturn(t)

ThreadStep(t) == Acquire(t) \/ Check(t) \/ Run(t) \/ Return(t)
                 \/ GetResult(t) \/ GetNoResult(t)

(* Every thread has done its operations, or the process is gone.           *)
Over == /\ ~alive \/ \A t \in Threads : pc[t] = "idle" /\ ops[t] = MaxOps
        /\ UNCHANGED vars

Next == \/ /\ alive
           /\ \E t \in Threads : \/ \E k \in Kinds : Begin(t, k)
                                 \/ WaitEnds(t)
                                 \/ ThreadStep(t)
        \/ Over

(* Every thread that can move is scheduled.  Nothing is assumed of         *)
(* WaitEnds: no thread depends on its timeout to get on.                   *)
Fairness == \A t \in Threads : WF_vars(alive /\ ThreadStep(t))

Spec == Init /\ [][Next]_vars /\ Fairness

-----------------------------------------------------------------------------
TypeOK == /\ available \in [Slots -> BOOLEAN]
          /\ connected \in [Slots -> BOOLEAN]
          /\ pc \in [Threads -> PCs]
          /\ held \in [Threads -> Seq(Slots)]
          /\ tries \in 0..MaxReconnect
          /\ kind \in [Threads -> Kinds \cup {"none"}]
          /\ reply \in [Threads -> Replies]
          /\ ops \in [Threads -> 0..MaxOps]
          /\ early \in BOOLEAN
          /\ alive \in BOOLEAN

(* Two threads never use one connection, as long as no catch branch of     *)
(* execute has returned a worker: the return that follows it is a second   *)
(* one, and may free a slot that another thread has acquired in between.   *)
Exclusive ==
    early \/ \A t, u \in Threads, s \in Slots : Holds(t, s) /\ Holds(u, s) => t = u

(* No connection is lost, whatever the operation throws: a slot marked     *)
(* busy is that of the innermost call of some thread, which will return it.*)
NoSlotLost ==
    \A s \in Slots : available[s] \/ \E t \in Threads : pc[t] \in WorkerPCs /\ Current(t) = s

(* No thread sleeps in wait_for while a connection is free for it: each    *)
(* available slot has a thread on its way to take it.                      *)
NoSleepWhileFree ==
    Waiting # {} => Cardinality(Available) <= Cardinality(Acquiring)

(* Every operation comes to an end, or the process has crashed: the mutex  *)
(* is not held for ever and every waiting thread is notified.  The load is *)
(* finite (MaxOps); acquire is not fair, so under an endless one a thread  *)
(* may be overtaken for ever.                                              *)
EveryOpEnds ==
    \A t \in Threads : pc[t] = "acquire" ~> (pc[t] = "idle" \/ ~alive)

-----------------------------------------------------------------------------
(* What the code says and does not do.                                     *)

(* DbPool.cpp:57, "make sure the connection is usable": the thread that    *)
(* acquire hands a worker to finds a connection in it.                     *)
AcquiredIsConnected ==
    \A t \in Threads : pc[t] = "run" => connected[Current(t)]

(* DbManager.cpp:38-39, "release db lock", "retry DB operate": a thread    *)
(* does not leave execute with an operation that MySQL aborted for a lock. *)
LockErrorIsRetried ==
    [][\A t \in Threads : pc[t] = "return" /\ pc'[t] \in {"idle", "result"}
                            => reply[t] # "lockError"]_vars
=============================================================================
