---------------------------- MODULE DbPoolProofs ----------------------------
(***************************************************************************)
(* Proofs about DbPool for any number of threads, connections, reconnect   *)
(* attempts and operations, and for any set of exceptions that an          *)
(* operation lets through: the types, the exclusive use of a connection,   *)
(* that no connection is lost, that no thread sleeps while one is free,    *)
(* that the threads never wait for each other in a cycle, and that every   *)
(* step but the end of a wait leaves them less to do.                      *)
(***************************************************************************)
EXTENDS DbPool, FiniteSetTheorems, TLAPS

(* Before any catch branch has returned a worker, a thread has one exactly *)
(* at these places, and its slot is marked busy.                           *)
OneWorker == \A t \in Threads : IF pc[t] \in WorkerPCs
                                THEN held[t] = <<held[t][1]>> /\ held[t][1] \in Slots
                                ELSE held[t] = <<>>

HeldIsBusy == \A t \in Threads, s \in Slots : Holds(t, s) => ~available[s]

(* The inductive invariant behind Exclusive.                               *)
LeaseInv == early \/ (OneWorker /\ HeldIsBusy /\ Exclusive)

-----------------------------------------------------------------------------
(* Types.                                                                  *)

(* Every initial state is well typed. *)
LEMMA InitTypeOK == Init => TypeOK
<1> SUFFICES ASSUME Init PROVE TypeOK
  OBVIOUS
<1>1. held \in [Threads -> Seq(Slots)]
  BY DEF Init
<1>2. 0 \in 0..MaxReconnect /\ 0 \in 0..MaxOps
  BY BoundsAssumption
<1> QED
  BY <1>1, <1>2 DEF Init, TypeOK, PCs, Kinds, Replies

(* Returning a worker keeps the types of the slots and of the threads.     *)
LEMMA ReturnWorkerTypes ==
    ASSUME TypeOK, NEW t \in Threads, NEW s, NEW p \in PCs, ReturnWorker(t, s, p)
    PROVE  available' \in [Slots -> BOOLEAN] /\ pc' \in [Threads -> PCs]
<1>1. available' \in [Slots -> BOOLEAN]
  BY DEF ReturnWorker, TypeOK
<1>2. pc' \in [Threads -> PCs]
  BY DEF ReturnWorker, TypeOK, PCs
<1> QED BY <1>1, <1>2

(* Every step keeps the types. *)
LEMMA NextTypeOK == TypeOK /\ [Next]_vars => TypeOK'
<1> SUFFICES ASSUME TypeOK, [Next]_vars PROVE TypeOK'
  OBVIOUS
<1>0. 0 \in 0..MaxReconnect
  BY BoundsAssumption
<1>1. ASSUME NEW t \in Threads, NEW k \in Kinds, Begin(t, k) PROVE TypeOK'
  BY <1>1, BoundsAssumption DEF Begin, TypeOK, PCs, Replies
<1>2. ASSUME NEW t \in Threads, WaitEnds(t) \/ AcquireWait(t) PROVE TypeOK'
  BY <1>2 DEF WaitEnds, AcquireWait, TypeOK, PCs
<1>3. ASSUME NEW t \in Threads, NEW s \in Slots, AcquireSlot(t, s) PROVE TypeOK'
  <2>1. held' \in [Threads -> Seq(Slots)]
    <3>1. Append(held[t], s) \in Seq(Slots)
      BY DEF TypeOK
    <3> QED BY <1>3, <3>1 DEF AcquireSlot, TypeOK
  <2> QED BY <1>3, <2>1 DEF AcquireSlot, TypeOK, PCs
<1>4. ASSUME NEW t \in Threads, Check(t) PROVE TypeOK'
  <2>1. CASE CheckValid(t) \/ CheckInvalid(t)
    BY <2>1 DEF CheckValid, CheckInvalid, TypeOK, PCs
  <2>2. CASE ReconnectOk(t) \/ ReconnectGivesUp(t)
    BY <1>0, <2>2 DEF ReconnectOk, ReconnectGivesUp, TypeOK, PCs
  <2>3. CASE ReconnectFails(t)
    <3>1. tries + 1 \in 0..MaxReconnect
      BY <2>3, BoundsAssumption DEF ReconnectFails, TypeOK
    <3> QED BY <2>3, <3>1 DEF ReconnectFails, TypeOK
  <2> QED BY <1>4, <2>1, <2>2, <2>3 DEF Check
<1>5. ASSUME Crash PROVE TypeOK'
  <2>1. held' \in [Threads -> Seq(Slots)]
    BY <1>5 DEF Crash
  <2> QED BY <1>0, <1>5, <2>1 DEF Crash, TypeOK, PCs, Replies
<1>6. ASSUME NEW t \in Threads, Run(t) PROVE TypeOK'
  <2>1. CASE RunNull(t)
    BY <1>5, <2>1 DEF RunNull
  <2>2. CASE RunOk(t) \/ RunError(t) \/ RunLockError(t) \/ RunParameter(t)
    BY <2>2 DEF RunOk, RunError, RunLockError, RunParameter, TypeOK, PCs, Replies
  <2> QED BY <1>6, <2>1, <2>2 DEF Run
<1>7. ASSUME NEW t \in Threads, CatchParameter(t) \/ CatchLock(t) PROVE TypeOK'
  <2>1. "return" \in PCs /\ "acquire" \in PCs
    BY DEF PCs
  <2>2. available' \in [Slots -> BOOLEAN] /\ pc' \in [Threads -> PCs]
    BY <1>7, <2>1, ReturnWorkerTypes DEF CatchParameter, CatchLock
  <2> QED BY <1>7, <2>2 DEF CatchParameter, CatchLock, TypeOK
<1>8. ASSUME NEW t \in Threads, LastReturn(t) PROVE TypeOK'
  <2>1. AfterReturn(t) \in PCs
    BY DEF AfterReturn, PCs
  <2>2. available' \in [Slots -> BOOLEAN] /\ pc' \in [Threads -> PCs]
    BY <1>8, <2>1, ReturnWorkerTypes DEF LastReturn
  <2>3. SubSeq(held[t], 1, Len(held[t]) - 1) \in Seq(Slots)
    BY DEF TypeOK
  <2>4. held' \in [Threads -> Seq(Slots)]
    BY <1>8, <2>3 DEF LastReturn, TypeOK
  <2>5. kind' \in [Threads -> Kinds \cup {"none"}] /\ reply' \in [Threads -> Replies]
    BY <1>8 DEF LastReturn, ForgetOp, TypeOK, Replies
  <2> QED BY <1>8, <2>2, <2>4, <2>5 DEF LastReturn, TypeOK
<1>9. ASSUME NEW t \in Threads, GetResult(t) PROVE TypeOK'
  BY <1>9 DEF GetResult, ForgetOp, TypeOK, PCs, Replies
<1>10. CASE UNCHANGED vars
  BY <1>10 DEF vars, TypeOK
<1> QED
  BY <1>1, <1>2, <1>3, <1>4, <1>5, <1>6, <1>7, <1>8, <1>9, <1>10
     DEF Next, Over, ThreadStep, Acquire, Return, GetNoResult

(* The variables of DbPool keep their types. *)
THEOREM TypeCorrect == Spec => []TypeOK
<1>1. Init => TypeOK
  BY InitTypeOK
<1>2. TypeOK /\ [Next]_vars => TypeOK'
  BY NextTypeOK
<1> QED
  BY <1>1, <1>2, PTL DEF Spec

-----------------------------------------------------------------------------
(* No connection is lost.                                                  *)

(* What a thread does between acquire and the return of its worker moves   *)
(* no slot.                                                                *)
LEMMA SlotsKept ==
    ASSUME TypeOK, NoSlotLost, UNCHANGED <<held, available>>,
           NEW t \in Threads, NEW p, pc' = [pc EXCEPT ![t] = p],
           pc[t] \in WorkerPCs => p \in WorkerPCs
    PROVE  NoSlotLost'
<1>1. \A u \in Threads : pc[u] \in WorkerPCs => pc'[u] \in WorkerPCs
  BY DEF TypeOK
<1>. QED BY <1>1 DEF NoSlotLost, Current

(* A thread that gives its worker back frees the slot of that, and no      *)
(* other slot is disturbed by what becomes of its call.                    *)
LEMMA SlotReturned ==
    ASSUME TypeOK, NoSlotLost, NEW t \in Threads, NEW p, ReturnWorker(t, Current(t), p),
           \A u \in Threads : u # t => held'[u] = held[u]
    PROVE  NoSlotLost'
<1>1. available' = [available EXCEPT ![Current(t)] = TRUE]
  BY DEF ReturnWorker
<1>2. \A u \in Threads : u # t /\ pc[u] \in WorkerPCs => pc'[u] = pc[u]
  BY DEF ReturnWorker, Waiting, WorkerPCs, TypeOK
<1>. SUFFICES ASSUME NEW s \in Slots, ~available'[s]
              PROVE  \E u \in Threads : pc'[u] \in WorkerPCs /\ Current(u)' = s
  BY DEF NoSlotLost
<1>3. ~available[s] /\ s # Current(t)
  BY <1>1 DEF TypeOK
<1>4. PICK u \in Threads : pc[u] \in WorkerPCs /\ Current(u) = s
  BY <1>3 DEF NoSlotLost
<1>5. u # t
  BY <1>3, <1>4
<1>. QED BY <1>2, <1>4, <1>5 DEF Current

(* A slot marked busy always has a thread that will return it.             *)
LEMMA SlotStep == TypeOK /\ NoSlotLost /\ [Next]_vars => NoSlotLost'
<1> SUFFICES ASSUME TypeOK, NoSlotLost, [Next]_vars PROVE NoSlotLost'
  OBVIOUS
<1>1. ASSUME NEW t \in Threads, NEW s \in Slots, AcquireSlot(t, s) PROVE NoSlotLost'
  <2>1. /\ available' = [available EXCEPT ![s] = FALSE]
        /\ held' = [held EXCEPT ![t] = Append(held[t], s)]
        /\ pc' = [pc EXCEPT ![t] = "check"] /\ pc[t] = "acquire"
    BY <1>1 DEF AcquireSlot
  <2>2. /\ Len(held[t]) \in Nat
        /\ held'[t] = Append(held[t], s)
        /\ Len(held'[t]) = Len(held[t]) + 1
        /\ held'[t][Len(held[t]) + 1] = s
    BY <2>1 DEF TypeOK
  <2>3. pc'[t] \in WorkerPCs /\ Current(t)' = s
    BY <2>1, <2>2 DEF Current, WorkerPCs, TypeOK
  <2>4. \A u \in Threads : pc[u] \in WorkerPCs => pc'[u] = pc[u] /\ Current(u)' = Current(u)
    BY <2>1 DEF Current, WorkerPCs, TypeOK
  <2>5. \A r \in Slots : r # s => available'[r] = available[r]
    BY <2>1 DEF TypeOK
  <2> QED BY <2>3, <2>4, <2>5 DEF NoSlotLost
<1>2. ASSUME NEW t \in Threads, Return(t) PROVE NoSlotLost'
  <2>1. CASE CatchParameter(t) \/ CatchLock(t)
    BY <2>1, SlotReturned DEF CatchParameter, CatchLock
  <2>2. CASE LastReturn(t)
    <3>1. \A u \in Threads : u # t => held'[u] = held[u]
      BY <2>2 DEF LastReturn, TypeOK
    <3>. QED BY <2>2, <3>1, SlotReturned DEF LastReturn
  <2>. QED BY <1>2, <2>1, <2>2 DEF Return
<1>3. ASSUME Crash PROVE NoSlotLost'
  BY <1>3 DEF Crash, NoSlotLost
<1>4. ASSUME UNCHANGED <<held, available, pc>> PROVE NoSlotLost'
  BY <1>4 DEF NoSlotLost, Current
<1>5. ASSUME NEW t \in Threads, Check(t) PROVE NoSlotLost'
  <2>1. CASE ReconnectFails(t)
    BY <1>4, <2>1 DEF ReconnectFails
  <2>2. CASE CheckValid(t) \/ CheckInvalid(t) \/ ReconnectOk(t) \/ ReconnectGivesUp(t)
    BY <2>2, SlotsKept DEF CheckValid, CheckInvalid, ReconnectOk, ReconnectGivesUp, WorkerPCs
  <2> QED BY <1>5, <2>1, <2>2 DEF Check
<1>6. ASSUME NEW t \in Threads, Run(t) PROVE NoSlotLost'
  <2>1. CASE RunOk(t) \/ RunError(t) \/ RunParameter(t)
    BY <2>1, SlotsKept DEF RunOk, RunError, RunParameter, WorkerPCs
  <2>2. CASE RunLockError(t)
    BY <2>2, SlotsKept DEF RunLockError, WorkerPCs
  <2>3. CASE RunNull(t)
    BY <1>3, <2>3 DEF RunNull
  <2> QED BY <1>6, <2>1, <2>2, <2>3 DEF Run
<1>7. ASSUME NEW t \in Threads, NEW k \in Kinds,
             Begin(t, k) \/ WaitEnds(t) \/ AcquireWait(t) \/ GetResult(t)
      PROVE  NoSlotLost'
  BY <1>7, SlotsKept DEF Begin, WaitEnds, AcquireWait, GetResult, WorkerPCs
<1>8. ASSUME NEW t \in Threads, GetNoResult(t) PROVE NoSlotLost'
  BY <1>3, <1>8 DEF GetNoResult
<1>9. "write" \in Kinds
  BY DEF Kinds
<1> QED
  BY <1>1, <1>2, <1>4, <1>5, <1>6, <1>7, <1>8, <1>9 DEF Next, Over, vars, ThreadStep, Acquire

(* Whatever the operation throws, no connection is lost. *)
THEOREM NoConnectionLost == Spec => []NoSlotLost
<1>1. Init => NoSlotLost
  BY DEF Init, NoSlotLost
<1>2. TypeOK /\ NoSlotLost /\ [Next]_vars => NoSlotLost'
  BY SlotStep
<1> QED
  BY <1>1, <1>2, TypeCorrect, PTL DEF Spec

-----------------------------------------------------------------------------
(* A connection is used by one thread.                                     *)

(* A sequence of length one holds its element only. *)
LEMMA HoldsOne ==
    ASSUME NEW t \in Threads, NEW r, held[t] = <<r>>
    PROVE  \A s : Holds(t, s) <=> s = r
<1>1. Len(held[t]) = 1 /\ held[t][1] = r
  OBVIOUS
<1>2. \A i \in 1..Len(held[t]) : i = 1
  BY <1>1
<1>3. 1 \in 1..Len(held[t])
  BY <1>1
<1> QED BY <1>1, <1>2, <1>3 DEF Holds

(* An empty one holds nothing. *)
LEMMA HoldsNone ==
    ASSUME NEW t \in Threads, held[t] = <<>>
    PROVE  \A s : ~Holds(t, s)
<1>1. 1..Len(held[t]) = {}
  OBVIOUS
<1> QED BY <1>1 DEF Holds

(* What happens between acquire and the return of execute moves no worker. *)
LEMMA LeaseKept ==
    ASSUME TypeOK, LeaseInv, UNCHANGED <<held, available>>,
           early' = early,
           \A u \in Threads : pc'[u] \in WorkerPCs <=> pc[u] \in WorkerPCs
    PROVE  LeaseInv'
  BY DEF LeaseInv, OneWorker, HeldIsBusy, Exclusive, Holds

(* The slot that acquire takes is held by nobody: it is available.         *)
LEMMA AcquireLease ==
    ASSUME TypeOK, LeaseInv, NEW t \in Threads, NEW s \in Slots, AcquireSlot(t, s)
    PROVE  LeaseInv'
<1> SUFFICES ASSUME ~early
             PROVE  OneWorker' /\ HeldIsBusy' /\ Exclusive'
  BY DEF LeaseInv, AcquireSlot
<1>1. /\ available[s] /\ pc[t] = "acquire"
      /\ available' = [available EXCEPT ![s] = FALSE]
      /\ held' = [held EXCEPT ![t] = Append(held[t], s)]
      /\ pc' = [pc EXCEPT ![t] = "check"]
  BY DEF AcquireSlot, FirstAvailable
<1>2. OneWorker /\ HeldIsBusy /\ Exclusive
  BY DEF LeaseInv
<1>3. held[t] = <<>> /\ held'[t] = <<s>>
  <2>1. held[t] = <<>>
    BY <1>1, <1>2 DEF OneWorker, WorkerPCs
  <2>2. held'[t] = Append(<<>>, s)
    BY <1>1, <2>1 DEF TypeOK
  <2> QED BY <2>1, <2>2
<1>4. \A u \in Threads : u # t => held'[u] = held[u] /\ pc'[u] = pc[u]
  BY <1>1 DEF TypeOK
<1>5. OneWorker'
  <2>1. held'[t] = <<held'[t][1]>> /\ held'[t][1] \in Slots
    BY <1>3
  <2>2. pc'[t] \in WorkerPCs
    BY <1>1 DEF TypeOK, WorkerPCs
  <2> QED BY <1>2, <1>4, <2>1, <2>2 DEF OneWorker
<1>6. \A u \in Threads, r \in Slots :
        Holds(u, r)' <=> (u = t /\ r = s) \/ (u # t /\ Holds(u, r))
  <2>1. \A r \in Slots : Holds(t, r)' <=> r = s
    <3>1. Len(held'[t]) = 1 /\ held'[t][1] = s
      BY <1>3
    <3>2. \A i \in 1..Len(held'[t]) : i = 1
      BY <3>1
    <3>3. 1 \in 1..Len(held'[t])
      BY <3>1
    <3> QED BY <3>1, <3>2, <3>3 DEF Holds
  <2> QED BY <1>4, <2>1 DEF Holds
<1>7. \A u \in Threads : ~Holds(u, s)
  BY <1>1, <1>2 DEF HeldIsBusy
<1>8. HeldIsBusy'
  BY <1>1, <1>2, <1>6, <1>7 DEF HeldIsBusy, TypeOK
<1>9. Exclusive'
  BY <1>2, <1>6, <1>7, ~early DEF Exclusive
<1> QED BY <1>5, <1>8, <1>9

(* The last return of execute frees a slot that nobody else holds.         *)
LEMMA ReturnLease ==
    ASSUME TypeOK, LeaseInv, NEW t \in Threads, LastReturn(t)
    PROVE  LeaseInv'
<1> SUFFICES ASSUME ~early
             PROVE  OneWorker' /\ HeldIsBusy' /\ Exclusive'
  BY DEF LeaseInv, LastReturn
<1>1. OneWorker /\ HeldIsBusy /\ Exclusive
  BY DEF LeaseInv
<1>2. /\ pc[t] = "return"
      /\ available' = [available EXCEPT ![Current(t)] = TRUE]
      /\ held' = [held EXCEPT ![t] = SubSeq(held[t], 1, Len(held[t]) - 1)]
  BY DEF LastReturn, ReturnWorker
<1>3. PICK s \in Slots : held[t] = <<s>>
  BY <1>1, <1>2 DEF OneWorker, WorkerPCs
<1>4. Current(t) = s /\ held'[t] = <<>>
  <2>1. Len(held[t]) = 1 /\ held[t][1] = s
    BY <1>3
  <2>2. SubSeq(held[t], 1, Len(held[t]) - 1) = <<>>
    BY <1>3
  <2> QED BY <1>2, <2>1, <2>2 DEF Current, TypeOK
<1>5. \A u \in Threads : u # t => held'[u] = held[u]
  BY <1>2 DEF TypeOK
<1>6. /\ pc'[t] \notin WorkerPCs
      /\ \A u \in Threads : u # t => (pc'[u] \in WorkerPCs <=> pc[u] \in WorkerPCs)
  <2>1. AfterReturn(t) \notin WorkerPCs
    BY <1>3 DEF AfterReturn, WorkerPCs
  <2>2. t \notin Waiting
    BY <1>2 DEF Waiting
  <2> QED BY <2>1, <2>2 DEF LastReturn, ReturnWorker, Waiting, WorkerPCs, TypeOK
<1>7. OneWorker'
  BY <1>1, <1>4, <1>5, <1>6 DEF OneWorker
<1>8. \A u \in Threads, r \in Slots : Holds(u, r)' <=> u # t /\ Holds(u, r)
  <2>1. \A r \in Slots : ~Holds(t, r)'
    <3>1. 1..Len(held'[t]) = {}
      BY <1>4
    <3> QED BY <3>1 DEF Holds
  <2> QED BY <1>5, <2>1 DEF Holds
<1>9. Holds(t, s)
  BY <1>3, HoldsOne
<1>10. HeldIsBusy'
  <2>1. \A u \in Threads, r \in Slots : u # t /\ Holds(u, r) => r # s
    BY <1>1, <1>9, ~early DEF Exclusive
  <2> QED BY <1>1, <1>2, <1>4, <1>8, <2>1 DEF HeldIsBusy, TypeOK
<1>11. Exclusive'
  BY <1>1, <1>8, ~early DEF Exclusive
<1> QED BY <1>7, <1>10, <1>11

(* Every step keeps the leases. *)
LEMMA LeaseStep == TypeOK /\ LeaseInv /\ [Next]_vars => LeaseInv'
<1> SUFFICES ASSUME TypeOK, LeaseInv, [Next]_vars PROVE LeaseInv'
  OBVIOUS
<1>1. ASSUME NEW t \in Threads, NEW s \in Slots, AcquireSlot(t, s) PROVE LeaseInv'
  BY <1>1, AcquireLease
<1>2. ASSUME NEW t \in Threads, CatchParameter(t) \/ CatchLock(t) PROVE LeaseInv'
  BY <1>2 DEF CatchParameter, CatchLock, LeaseInv
<1>3. ASSUME NEW t \in Threads, LastReturn(t) PROVE LeaseInv'
  BY <1>3, ReturnLease
<1>4. ASSUME Crash PROVE LeaseInv'
  <2>1. \A t \in Threads : held'[t] = <<>> /\ pc'[t] \notin WorkerPCs
    BY <1>4 DEF Crash, WorkerPCs
  <2>2. \A t \in Threads : 1..Len(held'[t]) = {}
    BY <2>1
  <2>3. \A t \in Threads, s \in Slots : ~Holds(t, s)'
    BY <2>2 DEF Holds
  <2> QED BY <2>1, <2>3 DEF LeaseInv, OneWorker, HeldIsBusy, Exclusive
<1>5. ASSUME UNCHANGED <<held, available, early, pc>> PROVE LeaseInv'
  BY <1>5, LeaseKept
<1>6. ASSUME NEW t \in Threads, NEW p, pc' = [pc EXCEPT ![t] = p],
             p \in WorkerPCs <=> pc[t] \in WorkerPCs, UNCHANGED <<held, available, early>>
      PROVE  LeaseInv'
  <2>1. \A u \in Threads : pc'[u] \in WorkerPCs <=> pc[u] \in WorkerPCs
    BY <1>6 DEF TypeOK
  <2> QED BY <1>6, <2>1, LeaseKept
<1>7. ASSUME NEW t \in Threads, NEW k \in Kinds, Begin(t, k) PROVE LeaseInv'
  BY <1>6, <1>7 DEF Begin, WorkerPCs
<1>8. ASSUME NEW t \in Threads, WaitEnds(t) \/ AcquireWait(t) PROVE LeaseInv'
  BY <1>6, <1>8 DEF WaitEnds, AcquireWait, WorkerPCs
<1>9. ASSUME NEW t \in Threads, Check(t) PROVE LeaseInv'
  <2>1. CASE ReconnectFails(t)
    BY <1>5, <2>1 DEF ReconnectFails
  <2>2. CASE CheckValid(t) \/ CheckInvalid(t) \/ ReconnectOk(t) \/ ReconnectGivesUp(t)
    BY <1>6, <2>2 DEF CheckValid, CheckInvalid, ReconnectOk, ReconnectGivesUp, WorkerPCs
  <2> QED BY <1>9, <2>1, <2>2 DEF Check
<1>10. ASSUME NEW t \in Threads, Run(t) PROVE LeaseInv'
  <2>1. CASE RunOk(t) \/ RunError(t) \/ RunParameter(t)
    BY <1>6, <2>1 DEF RunOk, RunError, RunParameter, WorkerPCs
  <2>2. CASE RunLockError(t)
    BY <1>6, <2>2 DEF RunLockError, WorkerPCs
  <2>3. CASE RunNull(t)
    BY <1>4, <2>3 DEF RunNull
  <2> QED BY <1>10, <2>1, <2>2, <2>3 DEF Run
<1>11. ASSUME NEW t \in Threads, GetResult(t) PROVE LeaseInv'
  BY <1>6, <1>11 DEF GetResult, WorkerPCs
<1>12. ASSUME NEW t \in Threads, GetNoResult(t) PROVE LeaseInv'
  BY <1>4, <1>12 DEF GetNoResult
<1> QED
  BY <1>1, <1>2, <1>3, <1>5, <1>7, <1>8, <1>9, <1>10, <1>11, <1>12
     DEF Next, Over, vars, ThreadStep, Acquire, Return

(* With the operations of the server, or any whose exceptions execute does *)
(* not answer with an early return, a connection serves one thread at a    *)
(* time.                                                                   *)
THEOREM ConnectionsAreExclusive == Spec => []Exclusive
<1>1. Init => LeaseInv
  <2> SUFFICES ASSUME Init PROVE LeaseInv
    OBVIOUS
  <2>1. \A t \in Threads : held[t] = <<>> /\ pc[t] \notin WorkerPCs
    BY DEF Init, WorkerPCs
  <2>2. \A t \in Threads, s \in Slots : ~Holds(t, s)
    BY <2>1, HoldsNone
  <2> QED BY <2>1, <2>2 DEF LeaseInv, OneWorker, HeldIsBusy, Exclusive
<1>2. TypeOK /\ LeaseInv /\ [Next]_vars => LeaseInv'
  BY LeaseStep
<1>3. LeaseInv => Exclusive
  BY DEF LeaseInv, Exclusive
<1> QED
  BY <1>1, <1>2, <1>3, TypeCorrect, PTL DEF Spec

-----------------------------------------------------------------------------
(* No thread sleeps while a connection is free.                            *)

(* The sets that are counted are finite. *)
LEMMA FiniteParts ==
    /\ IsFiniteSet(Available) /\ Cardinality(Available) \in Nat
    /\ IsFiniteSet(Acquiring) /\ Cardinality(Acquiring) \in Nat
<1>1. IsFiniteSet(Slots)
  BY SizeAssumption, FS_Interval DEF Slots
<1>2. IsFiniteSet(Available)
  BY <1>1, FS_Subset DEF Available
<1>3. IsFiniteSet(Acquiring)
  BY ThreadsAssumption, FS_Subset DEF Acquiring
<1> QED BY <1>2, <1>3, FS_CardinalityType

(* The same in the next state. *)
LEMMA FinitePartsNext ==
    /\ IsFiniteSet(Available') /\ Cardinality(Available') \in Nat
    /\ IsFiniteSet(Acquiring') /\ Cardinality(Acquiring') \in Nat
<1>1. IsFiniteSet(Slots)
  BY SizeAssumption, FS_Interval DEF Slots
<1>2. IsFiniteSet(Available')
  BY <1>1, FS_Subset DEF Available
<1>3. IsFiniteSet(Acquiring')
  BY ThreadsAssumption, FS_Subset DEF Acquiring
<1> QED BY <1>2, <1>3, FS_CardinalityType

(* A step that frees nothing and lets nobody but sleepers join those who   *)
(* acquire keeps the balance.                                              *)
LEMMA BalanceKept ==
    ASSUME TypeOK, NoSleepWhileFree, available' = available,
           Acquiring \subseteq Acquiring', Waiting' \subseteq Waiting
    PROVE  NoSleepWhileFree'
<1>1. Available' = Available
  BY DEF Available
<1>2. Cardinality(Acquiring) <= Cardinality(Acquiring')
  BY FinitePartsNext, FS_Subset
<1> QED BY <1>1, <1>2, FiniteParts, FinitePartsNext DEF NoSleepWhileFree

(* returnWorker frees at most one slot and wakes a sleeper for it.         *)
LEMMA BalanceReturned ==
    ASSUME TypeOK, NoSleepWhileFree, NEW t \in Threads, NEW s, NEW p,
           pc[t] \in WorkerPCs, p # "waiting", ReturnWorker(t, s, p)
    PROVE  NoSleepWhileFree'
<1>1. CASE Waiting = {} /\ pc' = [pc EXCEPT ![t] = p]
  <2>1. Waiting' = {}
    BY <1>1 DEF Waiting, TypeOK
  <2> QED BY <2>1 DEF NoSleepWhileFree
<1>2. CASE \E u \in Waiting : pc' = [pc EXCEPT ![t] = p, ![u] = "acquire"]
  <2>1. PICK u \in Waiting : pc' = [pc EXCEPT ![t] = p, ![u] = "acquire"]
    BY <1>2
  <2>2. /\ u \in Threads /\ u # t /\ u \notin Acquiring /\ t \notin Acquiring
        /\ Acquiring \cup {u} \subseteq Acquiring'
    BY <2>1 DEF Waiting, Acquiring, WorkerPCs, TypeOK
  <2>3. Cardinality(Acquiring) + 1 <= Cardinality(Acquiring')
    <3>1. /\ IsFiniteSet(Acquiring \cup {u})
          /\ Cardinality(Acquiring \cup {u}) = Cardinality(Acquiring) + 1
      BY <2>2, FiniteParts, FS_AddElement
    <3>2. Cardinality(Acquiring \cup {u}) <= Cardinality(Acquiring')
      BY <2>2, FinitePartsNext, FS_Subset
    <3> QED BY <3>1, <3>2
  <2>4. Available' \subseteq Available \cup {s}
    BY DEF ReturnWorker, Available, TypeOK
  <2>5. Cardinality(Available') <= Cardinality(Available) + 1
    <3>1. /\ IsFiniteSet(Available \cup {s})
          /\ Cardinality(Available \cup {s}) <= Cardinality(Available) + 1
      <4>1. /\ IsFiniteSet(Available \cup {s})
            /\ Cardinality(Available \cup {s}) =
                 IF s \in Available THEN Cardinality(Available)
                                   ELSE Cardinality(Available) + 1
        BY FiniteParts, FS_AddElement
      <4> QED BY <4>1, FiniteParts
    <3>2. Cardinality(Available') <= Cardinality(Available \cup {s})
      BY <2>4, <3>1, FS_Subset
    <3> QED BY <3>1, <3>2, FiniteParts, FinitePartsNext, FS_CardinalityType
  <2> QED BY <2>1, <2>3, <2>5, FiniteParts, FinitePartsNext DEF NoSleepWhileFree
<1> QED BY <1>1, <1>2 DEF ReturnWorker

(* A thread that acquires takes a slot from those available and itself     *)
(* from those on their way.                                                *)
LEMMA BalanceAcquired ==
    ASSUME TypeOK, NoSleepWhileFree, NEW t \in Threads, NEW s \in Slots, AcquireSlot(t, s)
    PROVE  NoSleepWhileFree'
<1>1. /\ Available' = Available \ {s} /\ s \in Available
      /\ Acquiring' = Acquiring \ {t} /\ t \in Acquiring
      /\ Waiting' = Waiting
  BY DEF AcquireSlot, FirstAvailable, Available, Acquiring, Waiting, TypeOK
<1>2. /\ Cardinality(Available') = Cardinality(Available) - 1
      /\ Cardinality(Acquiring') = Cardinality(Acquiring) - 1
  BY <1>1, FiniteParts, FS_RemoveElement
<1> QED BY <1>1, <1>2, FiniteParts DEF NoSleepWhileFree

(* Every step keeps the balance. *)
LEMMA WakeupStep == TypeOK /\ NoSleepWhileFree /\ [Next]_vars => NoSleepWhileFree'
<1> SUFFICES ASSUME TypeOK, NoSleepWhileFree, [Next]_vars PROVE NoSleepWhileFree'
  OBVIOUS
<1>1. ASSUME NEW t \in Threads, NEW s \in Slots, AcquireSlot(t, s) PROVE NoSleepWhileFree'
  BY <1>1, BalanceAcquired
<1>2. ASSUME NEW t \in Threads, AcquireWait(t) PROVE NoSleepWhileFree'
  <2>1. Available' = {}
    BY <1>2 DEF AcquireWait, Available
  <2>2. Cardinality(Available') = 0
    BY <2>1, FS_EmptySet
  <2> QED BY <2>2, FinitePartsNext DEF NoSleepWhileFree
<1>3. ASSUME NEW t \in Threads, CatchParameter(t) \/ CatchLock(t) PROVE NoSleepWhileFree'
  BY <1>3, BalanceReturned DEF CatchParameter, CatchLock, WorkerPCs
<1>4. ASSUME NEW t \in Threads, LastReturn(t) PROVE NoSleepWhileFree'
  BY <1>4, BalanceReturned DEF LastReturn, AfterReturn, WorkerPCs
<1>5. ASSUME Crash PROVE NoSleepWhileFree'
  <2>1. Waiting' = {}
    BY <1>5 DEF Crash, Waiting
  <2> QED BY <2>1 DEF NoSleepWhileFree
<1>6. ASSUME available' = available, pc' = pc PROVE NoSleepWhileFree'
  BY <1>6, BalanceKept DEF Acquiring, Waiting
<1>7. ASSUME NEW t \in Threads, NEW p, pc' = [pc EXCEPT ![t] = p], pc[t] # "acquire",
             p # "waiting", available' = available
      PROVE  NoSleepWhileFree'
  <2>1. Acquiring \subseteq Acquiring' /\ Waiting' \subseteq Waiting
    BY <1>7 DEF Acquiring, Waiting, TypeOK
  <2> QED BY <1>7, <2>1, BalanceKept
<1>8. ASSUME NEW t \in Threads, NEW k \in Kinds, Begin(t, k) PROVE NoSleepWhileFree'
  BY <1>7, <1>8 DEF Begin
<1>9. ASSUME NEW t \in Threads, WaitEnds(t) \/ GetResult(t) PROVE NoSleepWhileFree'
  BY <1>7, <1>9 DEF WaitEnds, GetResult
<1>10. ASSUME NEW t \in Threads, Check(t) PROVE NoSleepWhileFree'
  <2>1. CASE ReconnectFails(t)
    BY <1>6, <2>1 DEF ReconnectFails
  <2>2. CASE CheckValid(t) \/ CheckInvalid(t) \/ ReconnectOk(t) \/ ReconnectGivesUp(t)
    BY <1>7, <2>2 DEF CheckValid, CheckInvalid, ReconnectOk, ReconnectGivesUp
  <2> QED BY <1>10, <2>1, <2>2 DEF Check
<1>11. ASSUME NEW t \in Threads, Run(t) PROVE NoSleepWhileFree'
  <2>1. CASE RunOk(t) \/ RunError(t) \/ RunParameter(t)
    BY <1>7, <2>1 DEF RunOk, RunError, RunParameter
  <2>2. CASE RunLockError(t)
    BY <1>7, <2>2 DEF RunLockError
  <2>3. CASE RunNull(t)
    BY <1>5, <2>3 DEF RunNull
  <2> QED BY <1>11, <2>1, <2>2, <2>3 DEF Run
<1>12. ASSUME NEW t \in Threads, GetNoResult(t) PROVE NoSleepWhileFree'
  BY <1>5, <1>12 DEF GetNoResult
<1> QED
  BY <1>1, <1>2, <1>3, <1>4, <1>6, <1>8, <1>9, <1>10, <1>11, <1>12
     DEF Next, Over, vars, ThreadStep, Acquire, Return

(* While a thread sleeps in wait_for, each free connection has another     *)
(* thread on its way to it: returnWorker's single notification, and the    *)
(* second one of a double return, never leave a sleeper behind.            *)
THEOREM NoSleeperLeftBehind == Spec => []NoSleepWhileFree
<1>1. Init => NoSleepWhileFree
  BY DEF Init, NoSleepWhileFree, Waiting
<1>2. TypeOK /\ NoSleepWhileFree /\ [Next]_vars => NoSleepWhileFree'
  BY WakeupStep
<1> QED
  BY <1>1, <1>2, TypeCorrect, PTL DEF Spec

-----------------------------------------------------------------------------
(* The pool at work.                                                       *)

(* A thread cannot go on: it sleeps in wait_for, or needs the mutex that   *)
(* another one keeps while it reconnects.                                  *)
Blocked(t) ==
    \/ pc[t] = "waiting"
    \/ pc[t] \in {"acquire", "catchParameter", "catchLock", "return"} /\ ~MutexFree

(* Until every operation has ended, some thread can go on.                 *)
SomebodyGoesOn ==
    (\E t \in Threads : pc[t] # "idle") => \E t \in Threads : pc[t] # "idle" /\ ~Blocked(t)

(* The threads never all wait for one another, for a connection or for the *)
(* mutex: also when every connection is lost, when a worker was returned   *)
(* twice, or while a retry waits for a second connection.                  *)
THEOREM NoDeadlock == Spec => []SomebodyGoesOn
<1>1. ASSUME TypeOK, NoSlotLost, NoSleepWhileFree PROVE SomebodyGoesOn
  <2>. SUFFICES ASSUME NEW t \in Threads, pc[t] # "idle"
                PROVE  \E u \in Threads : pc[u] # "idle" /\ ~Blocked(u)
    BY DEF SomebodyGoesOn
  <2>1. CASE ~MutexFree
    BY <2>1 DEF MutexFree, Blocked
  <2>2. CASE MutexFree /\ pc[t] # "waiting"
    BY <2>2 DEF Blocked
  <2>3. CASE MutexFree /\ pc[t] = "waiting"
    <3>1. Cardinality(Available) <= Cardinality(Acquiring)
      BY <1>1, <2>3 DEF NoSleepWhileFree, Waiting
    <3>2. CASE Acquiring # {}
      BY <2>3, <3>2 DEF Acquiring, Blocked
    <3>3. CASE Acquiring = {}
      <4>1. Cardinality(Available) = 0
        BY <3>1, <3>3, FiniteParts, FS_EmptySet
      <4>2. Available = {}
        BY <4>1, FiniteParts, FS_EmptySet
      <4>3. 1 \in Slots /\ ~available[1]
        BY <4>2, SizeAssumption DEF Available, Slots
      <4>4. PICK u \in Threads : pc[u] \in WorkerPCs
        BY <1>1, <4>3 DEF NoSlotLost
      <4>. QED BY <2>3, <4>4 DEF Blocked, WorkerPCs
    <3>. QED BY <3>2, <3>3
  <2>. QED BY <2>1, <2>2, <2>3
<1>. QED BY <1>1, TypeCorrect, NoConnectionLost, NoSleeperLeftBehind, PTL

-----------------------------------------------------------------------------
(* How much work is left.                                                  *)

(* What is left of a call of execute that is about to run its operation,   *)
(* when d calls are active: MaxRetry bounds how often MySQL aborts it, and *)
(* each retry is a call of its own.                                        *)
RunLeft(d) == (MaxReconnect + 9) * (MaxRetry + 1 - d) + 2 * d + 5

(* What is left of an operation whose thread is at p with d calls active,  *)
(* when k attempts to reconnect have failed.                               *)
Rank(p, d, k) == CASE p = "idle"           -> 0
                   [] p = "result"         -> 1
                   [] p = "return"         -> 2 * d + 1
                   [] p = "catchParameter" -> 2 * d + 3
                   [] p = "catchLock"      -> RunLeft(d) - 1
                   [] p = "run"            -> RunLeft(d)
                   [] p = "reconnect"      -> RunLeft(d) + 1 + MaxReconnect - k
                   [] p = "check"          -> RunLeft(d) + 2 + MaxReconnect
                   [] p = "waiting"        -> RunLeft(d + 1) + 3 + MaxReconnect
                   [] p = "acquire"        -> RunLeft(d + 1) + 4 + MaxReconnect

(* What is left of the operations that a thread starts after n of them.    *)
Rest(n) == (MaxOps - n) * RunLeft(0)

Left(t) == Rest(ops[t]) + Rank(pc[t], Len(held[t]), tries)

(* Thread t has less to do than before, by more than what a thread that it *)
(* wakes has more to do.                                                   *)
Forward(t) ==
    \/ /\ Left(t)' < Left(t)
       /\ \A u \in Threads \ {t} : Left(u)' <= Left(u)
    \/ \E u \in Threads \ {t} :
          /\ Left(t)' + 1 < Left(t) /\ Left(u)' = Left(u) + 1
          /\ \A v \in Threads \ {t, u} : Left(v)' <= Left(v)

(* How many calls of execute are active. *)
Depths ==
    \A t \in Threads :
       /\ pc[t] \in {"idle", "result"} => Len(held[t]) = 0
       /\ pc[t] \in {"acquire", "waiting", "catchLock"} => Len(held[t]) <= MaxRetry
       /\ pc[t] \in WorkerPCs => Len(held[t]) \in 1..(MaxRetry + 1)

(* One thread at a time has the mutex over checkConnection.                *)
OneChecks ==
    \A t, u \in Threads :
       pc[t] \in {"check", "reconnect"} /\ pc[u] \in {"check", "reconnect"} => t = u

WorkInv == TypeOK /\ Depths /\ OneChecks

LEMMA DepthsStep == TypeOK /\ Depths /\ [Next]_vars => Depths'
<1>. SUFFICES ASSUME TypeOK, Depths, [Next]_vars PROVE Depths'
  OBVIOUS
<1>0. MaxRetry \in Nat /\ \A t \in Threads : Len(held[t]) \in Nat
  BY BoundsAssumption DEF TypeOK
<1>1. ASSUME NEW t \in Threads, NEW s \in Slots, AcquireSlot(t, s) PROVE Depths'
  <2>1. /\ held' = [held EXCEPT ![t] = Append(held[t], s)]
        /\ pc' = [pc EXCEPT ![t] = "check"] /\ pc[t] = "acquire"
    BY <1>1 DEF AcquireSlot
  <2>2. Len(held'[t]) = Len(held[t]) + 1
    BY <2>1 DEF TypeOK
  <2>. QED BY <1>0, <2>1, <2>2 DEF Depths, TypeOK, WorkerPCs
<1>2. ASSUME NEW t \in Threads, NEW p, pc' = [pc EXCEPT ![t] = p], UNCHANGED held,
             p \in {"idle", "result"} => pc[t] \in {"idle", "result"},
             p \in {"acquire", "waiting", "catchLock"} =>
                Len(held[t]) <= MaxRetry,
             p \in WorkerPCs => pc[t] \in WorkerPCs
      PROVE  Depths'
  BY <1>2 DEF Depths, TypeOK
<1>3. ASSUME Crash PROVE Depths'
  BY <1>3 DEF Crash, Depths, WorkerPCs
<1>4. ASSUME UNCHANGED <<held, pc>> PROVE Depths'
  BY <1>4 DEF Depths
<1>5. ASSUME NEW t \in Threads, Check(t) PROVE Depths'
  <2>1. CASE ReconnectFails(t)
    BY <1>4, <2>1 DEF ReconnectFails
  <2>2. CASE CheckValid(t) \/ CheckInvalid(t) \/ ReconnectOk(t) \/ ReconnectGivesUp(t)
    BY <1>2, <2>2 DEF CheckValid, CheckInvalid, ReconnectOk, ReconnectGivesUp, WorkerPCs
  <2>. QED BY <1>5, <2>1, <2>2 DEF Check
<1>6. ASSUME NEW t \in Threads, Run(t) PROVE Depths'
  <2>1. CASE RunOk(t) \/ RunError(t) \/ RunParameter(t)
    BY <1>2, <2>1 DEF RunOk, RunError, RunParameter, WorkerPCs
  <2>2. CASE RunLockError(t)
    BY <1>2, <2>2 DEF RunLockError, WorkerPCs
  <2>3. CASE RunNull(t)
    BY <1>3, <2>3 DEF RunNull
  <2>. QED BY <1>6, <2>1, <2>2, <2>3 DEF Run
<1>7. ASSUME NEW t \in Threads, CatchParameter(t) \/ CatchLock(t) PROVE Depths'
  <2>1. held' = held /\ Len(held[t]) \in 1..(MaxRetry + 1)
    BY <1>7 DEF CatchParameter, CatchLock, Depths, WorkerPCs
  <2>2. CASE CatchParameter(t)
    BY <2>1, <2>2 DEF CatchParameter, ReturnWorker, Waiting, Depths, WorkerPCs, TypeOK
  <2>3. CASE CatchLock(t)
    BY <2>1, <2>3 DEF CatchLock, ReturnWorker, Waiting, Depths, WorkerPCs, TypeOK
  <2>. QED BY <1>7, <2>2, <2>3
<1>8. ASSUME NEW t \in Threads, LastReturn(t) PROVE Depths'
  <2>1. /\ pc[t] = "return" /\ ReturnWorker(t, Current(t), AfterReturn(t))
        /\ held' = [held EXCEPT ![t] = SubSeq(held[t], 1, Len(held[t]) - 1)]
    BY <1>8 DEF LastReturn
  <2>2. Len(held[t]) \in 1..(MaxRetry + 1)
    BY <2>1 DEF Depths, WorkerPCs
  <2>3. Len(held'[t]) = Len(held[t]) - 1
    <3>. DEFINE n == Len(held[t])
    <3>1. held[t] \in Seq(Slots) /\ n \in Nat /\ n - 1 \in 0..n
      BY <1>0, <2>2 DEF TypeOK
    <3>2. Len(SubSeq(held[t], 1, n - 1)) = n - 1
      BY <3>1
    <3>. QED BY <2>1, <3>2 DEF TypeOK
  <2>4. /\ Len(held[t]) > 1 => AfterReturn(t) = "return"
        /\ Len(held[t]) = 1 => AfterReturn(t) \in {"idle", "result"}
    <3>1. Len(held[t]) = 1 => ~(Len(held[t]) > 1)
      BY <2>2
    <3>. QED BY <3>1, Zenon DEF AfterReturn
  <2>5. /\ pc'[t] = AfterReturn(t)
        /\ \A u \in Threads \ {t} : /\ held'[u] = held[u]
                                    /\ \/ pc'[u] = pc[u]
                                       \/ pc[u] = "waiting" /\ pc'[u] = "acquire"
    <3>1. \A u \in Threads \ {t} : held'[u] = held[u]
      BY <2>1 DEF TypeOK
    <3>2. CASE pc' = [pc EXCEPT ![t] = AfterReturn(t)]
      BY <3>1, <3>2 DEF TypeOK
    <3>3. CASE \E u \in Waiting : pc' = [pc EXCEPT ![t] = AfterReturn(t), ![u] = "acquire"]
      <4>1. PICK u \in Waiting : pc' = [pc EXCEPT ![t] = AfterReturn(t), ![u] = "acquire"]
        BY <3>3
      <4>2. u \in Threads /\ pc[u] = "waiting" /\ u # t
        BY <2>1 DEF Waiting
      <4>. QED BY <3>1, <4>1, <4>2 DEF TypeOK
    <3>. QED BY <2>1, <3>2, <3>3 DEF ReturnWorker
  <2>6. ASSUME NEW u \in Threads
        PROVE  /\ pc'[u] \in {"idle", "result"} => Len(held'[u]) = 0
               /\ pc'[u] \in {"acquire", "waiting", "catchLock"} => Len(held'[u]) <= MaxRetry
               /\ pc'[u] \in WorkerPCs => Len(held'[u]) \in 1..(MaxRetry + 1)
    <3>1. CASE u = t
      <4>1. CASE Len(held[t]) > 1
        BY <1>0, <2>2, <2>3, <2>4, <2>5, <3>1, <4>1 DEF WorkerPCs
      <4>2. CASE Len(held[t]) = 1
        BY <1>0, <2>3, <2>4, <2>5, <3>1, <4>2 DEF WorkerPCs
      <4>3. Len(held[t]) > 1 \/ Len(held[t]) = 1
        <5>. DEFINE n == Len(held[t])
        <5>1. n \in 1..(MaxRetry + 1)
          BY <2>2
        <5>. HIDE DEF n
        <5>2. n > 1 \/ n = 1
          BY <1>0, <5>1
        <5>. QED BY <5>2 DEF n
      <4>. QED BY <4>1, <4>2, <4>3
    <3>2. CASE u # t
      BY <1>0, <2>5, <3>2 DEF Depths, WorkerPCs
    <3>. QED BY <3>1, <3>2
  <2>. QED BY <2>6 DEF Depths
<1>9. ASSUME NEW t \in Threads, NEW k \in Kinds,
             Begin(t, k) \/ WaitEnds(t) \/ AcquireWait(t) \/ GetResult(t)
      PROVE  Depths'
  <2>1. pc[t] \in {"idle", "acquire", "waiting"} => Len(held[t]) <= MaxRetry
    BY <1>0 DEF Depths
  <2>. QED BY <1>2, <1>9, <2>1 DEF Begin, WaitEnds, AcquireWait, GetResult, WorkerPCs
<1>10. ASSUME NEW t \in Threads, GetNoResult(t) PROVE Depths'
  BY <1>3, <1>10 DEF GetNoResult
<1>11. "write" \in Kinds
  BY DEF Kinds
<1>. QED
  BY <1>1, <1>4, <1>5, <1>6, <1>7, <1>8, <1>9, <1>10, <1>11
     DEF Next, Over, vars, ThreadStep, Acquire, Return

LEMMA OneChecksStep == TypeOK /\ OneChecks /\ [Next]_vars => OneChecks'
<1>. SUFFICES ASSUME TypeOK, OneChecks, [Next]_vars PROVE OneChecks'
  OBVIOUS
<1>1. ASSUME NEW t \in Threads, NEW s \in Slots, AcquireSlot(t, s) PROVE OneChecks'
  BY <1>1 DEF AcquireSlot, MutexFree, OneChecks, TypeOK
<1>2. ASSUME NEW t \in Threads,
             \A u \in Threads : pc'[u] \in {"check", "reconnect"} => pc[u] \in {"check", "reconnect"}
      PROVE  OneChecks'
  BY <1>2 DEF OneChecks
<1>3. ASSUME NEW t \in Threads, Return(t) PROVE OneChecks'
  <2>1. \A u \in Threads : pc'[u] \in {"check", "reconnect"} => pc[u] \in {"check", "reconnect"}
    BY <1>3 DEF Return, CatchParameter, CatchLock, LastReturn, AfterReturn, ReturnWorker, Waiting,
                TypeOK
  <2>. QED BY <1>2, <2>1
<1>4. ASSUME UNCHANGED pc PROVE OneChecks'
  BY <1>4 DEF OneChecks
<1>5. ASSUME NEW t \in Threads, Check(t) \/ Run(t) PROVE OneChecks'
  BY <1>5 DEF Check, CheckValid, CheckInvalid, ReconnectOk, ReconnectFails, ReconnectGivesUp, Run,
              RunOk, RunError, RunParameter, RunLockError, RunNull, Crash, OneChecks, TypeOK
<1>6. ASSUME NEW t \in Threads, NEW k \in Kinds,
             \/ Begin(t, k) \/ WaitEnds(t) \/ AcquireWait(t) \/ GetResult(t) \/ GetNoResult(t)
      PROVE  OneChecks'
  BY <1>6 DEF Begin, WaitEnds, AcquireWait, GetResult, GetNoResult, Crash, OneChecks, TypeOK
<1>7. "write" \in Kinds
  BY DEF Kinds
<1>. QED BY <1>1, <1>3, <1>4, <1>5, <1>6, <1>7 DEF Next, Over, vars, ThreadStep, Acquire

(* A retry leaves less to do. *)
LEMMA RunLefts ==
    ASSUME NEW d \in 0..(MaxRetry + 1)
    PROVE  /\ RunLeft(d) \in Nat /\ RunLeft(d) >= 2 * d + 5
           /\ d <= MaxRetry => RunLeft(d) = RunLeft(d + 1) + MaxReconnect + 7
<1>. DEFINE C == MaxReconnect + 9
<1>1. MaxRetry \in Nat /\ MaxReconnect \in Nat /\ d \in Nat /\ C \in Nat
  BY BoundsAssumption
<1>2. MaxRetry + 1 - d \in Nat
  BY <1>1
<1>3. \A x \in Nat : C * x \in Nat /\ C * (x + 1) = C * x + C
  <2>. HIDE DEF C
  <2>. QED BY <1>1
<1>4. RunLeft(d) = C * (MaxRetry + 1 - d) + 2 * d + 5
  BY DEF RunLeft
<1>5. ASSUME d <= MaxRetry PROVE RunLeft(d) = RunLeft(d + 1) + MaxReconnect + 7
  <2>. DEFINE x == MaxRetry - d
  <2>1. x \in Nat /\ MaxRetry + 1 - d = x + 1 /\ MaxRetry + 1 - (d + 1) = x
    BY <1>1, <1>5
  <2>2. RunLeft(d + 1) = C * x + 2 * (d + 1) + 5
    BY <2>1 DEF RunLeft
  <2>3. C * (x + 1) = C * x + C /\ C * x \in Nat
    BY <1>3, <2>1
  <2>4. RunLeft(d) = C * (x + 1) + 2 * d + 5
    BY <1>4, <2>1
  <2>. HIDE DEF x
  <2>. QED BY <1>1, <2>2, <2>3, <2>4
<1>6. C * (MaxRetry + 1 - d) \in Nat
  BY <1>2, <1>3
<1>. HIDE DEF C
<1>. QED BY <1>1, <1>4, <1>5, <1>6

(* The ranks, one by one. *)
LEMMA Ranks ==
    ASSUME NEW d, NEW k
    PROVE  /\ Rank("idle", d, k) = 0
           /\ Rank("result", d, k) = 1
           /\ Rank("return", d, k) = 2 * d + 1
           /\ Rank("catchParameter", d, k) = 2 * d + 3
           /\ Rank("catchLock", d, k) = RunLeft(d) - 1
           /\ Rank("run", d, k) = RunLeft(d)
           /\ Rank("reconnect", d, k) = RunLeft(d) + 1 + MaxReconnect - k
           /\ Rank("check", d, k) = RunLeft(d) + 2 + MaxReconnect
           /\ Rank("waiting", d, k) = RunLeft(d + 1) + 3 + MaxReconnect
           /\ Rank("acquire", d, k) = RunLeft(d + 1) + 4 + MaxReconnect
<1>1. Rank("idle", d, k) = 0 /\ Rank("result", d, k) = 1 /\ Rank("return", d, k) = 2 * d + 1
  BY Zenon DEF Rank
<1>2. /\ Rank("catchParameter", d, k) = 2 * d + 3 /\ Rank("catchLock", d, k) = RunLeft(d) - 1
      /\ Rank("run", d, k) = RunLeft(d)
  BY Zenon DEF Rank
<1>3. /\ Rank("reconnect", d, k) = RunLeft(d) + 1 + MaxReconnect - k
      /\ Rank("check", d, k) = RunLeft(d) + 2 + MaxReconnect
  BY Zenon DEF Rank
<1>4. /\ Rank("waiting", d, k) = RunLeft(d + 1) + 3 + MaxReconnect
      /\ Rank("acquire", d, k) = RunLeft(d + 1) + 4 + MaxReconnect
  BY Zenon DEF Rank
<1>. QED BY <1>1, <1>2, <1>3, <1>4

(* What is left is a number. *)
LEMMA LeftNat ==
    ASSUME WorkInv, NEW t \in Threads
    PROVE  /\ Rank(pc[t], Len(held[t]), tries) \in Nat
           /\ pc[t] # "idle" => Rank(pc[t], Len(held[t]), tries) > 0
           /\ Rest(ops[t]) \in Nat
           /\ Left(t) \in Nat
<1>. DEFINE d == Len(held[t])
<1>1. /\ MaxRetry \in Nat /\ MaxReconnect \in Nat /\ MaxOps \in Nat /\ d \in Nat
      /\ tries \in 0..MaxReconnect /\ ops[t] \in 0..MaxOps /\ pc[t] \in PCs
  BY BoundsAssumption DEF WorkInv, TypeOK
<1>2. /\ pc[t] \in {"idle", "result"} => d = 0
      /\ pc[t] \in {"acquire", "waiting"} => d \in 0..MaxRetry
      /\ pc[t] \in WorkerPCs => d \in 1..(MaxRetry + 1)
  BY <1>1 DEF WorkInv, Depths
<1>. HIDE DEF d
<1>3. /\ pc[t] \in {"acquire", "waiting"} => d + 1 \in 0..(MaxRetry + 1)
      /\ pc[t] \in WorkerPCs => d \in 0..(MaxRetry + 1)
  BY <1>1, <1>2
<1>4. /\ pc[t] \in {"acquire", "waiting"} => RunLeft(d + 1) \in Nat
      /\ pc[t] \in WorkerPCs => RunLeft(d) \in Nat /\ RunLeft(d) >= 5
  BY <1>1, <1>2, <1>3, RunLefts
<1>5. /\ Rank(pc[t], d, tries) \in Nat
      /\ pc[t] # "idle" => Rank(pc[t], d, tries) > 0
  <2>1. CASE pc[t] \in {"idle", "result"}
    BY <2>1, Ranks
  <2>2. CASE pc[t] \in {"acquire", "waiting"}
    BY <1>1, <1>4, <2>2, Ranks
  <2>3. CASE pc[t] \in {"return", "catchParameter"}
    BY <1>1, <2>3, Ranks
  <2>4. CASE pc[t] \in {"catchLock", "run", "reconnect", "check"}
    BY <1>1, <1>4, <2>4, Ranks DEF WorkerPCs
  <2>. QED BY <1>1, <2>1, <2>2, <2>3, <2>4 DEF PCs
<1>6. Rest(ops[t]) \in Nat
  <2>1. 0 \in 0..(MaxRetry + 1) /\ MaxOps - ops[t] \in Nat
    BY <1>1
  <2>2. RunLeft(0) \in Nat
    BY <2>1, RunLefts
  <2>. QED BY <2>1, <2>2 DEF Rest
<1>. QED BY <1>5, <1>6 DEF Left, d

(* Who is not reconnecting does not look at the attempts of others.        *)
LEMMA SameLeft ==
    ASSUME WorkInv, NEW u \in Threads,
           pc'[u] = pc[u], held'[u] = held[u], ops'[u] = ops[u],
           tries' = tries \/ pc[u] # "reconnect"
    PROVE  Left(u)' = Left(u)
<1>1. Rank(pc[u], Len(held[u]), tries') = Rank(pc[u], Len(held[u]), tries)
  <2>1. CASE tries' = tries
    BY <2>1
  <2>2. CASE pc[u] # "reconnect"
    <3>1. pc[u] \in PCs
      BY DEF WorkInv, TypeOK
    <3>. QED BY <2>2, <3>1, Ranks DEF PCs
  <2>. QED BY <2>1, <2>2
<1>. QED BY <1>1 DEF Left

(* A step of t within its call of execute.                                 *)
LEMMA OwnStep ==
    ASSUME WorkInv, NEW t \in Threads, NEW p, pc' = [pc EXCEPT ![t] = p],
           UNCHANGED <<held, ops>>, tries' = tries \/ pc[t] = "reconnect",
           Rank(p, Len(held[t]), tries') \in Int,
           Rank(p, Len(held[t]), tries') < Rank(pc[t], Len(held[t]), tries)
    PROVE  Forward(t)
<1>1. ASSUME NEW u \in Threads \ {t} PROVE Left(u)' <= Left(u)
  <2>1. tries' = tries \/ pc[u] # "reconnect"
    BY DEF WorkInv, OneChecks
  <2>2. pc'[u] = pc[u] /\ held'[u] = held[u] /\ ops'[u] = ops[u]
    BY DEF WorkInv, TypeOK
  <2>3. Left(u)' = Left(u)
    BY <2>1, <2>2, SameLeft
  <2>. QED BY <2>3, LeftNat
<1>2. Left(t)' < Left(t)
  <2>1. Left(t)' = Rest(ops[t]) + Rank(p, Len(held[t]), tries')
    BY DEF Left, WorkInv, TypeOK
  <2>2. Rest(ops[t]) \in Nat /\ Rank(pc[t], Len(held[t]), tries) \in Nat
    BY LeftNat
  <2>. QED BY <2>1, <2>2 DEF Left
<1>. QED BY <1>1, <1>2 DEF Forward

(* The process dies, and nothing is left of what it was doing.             *)
LEMMA CrashForward ==
    ASSUME WorkInv, NEW t \in Threads, pc[t] # "idle", Crash
    PROVE  Forward(t)
<1>1. \A u \in Threads : Left(u)' = Rest(ops[u])
  <2>. SUFFICES ASSUME NEW u \in Threads PROVE Left(u)' = Rest(ops[u])
    OBVIOUS
  <2>1. Rank("idle", Len(held'[u]), tries') = 0 /\ pc'[u] = "idle" /\ ops' = ops
    BY Ranks DEF Crash
  <2>2. Rest(ops[u]) \in Nat
    BY LeftNat
  <2>. QED BY <2>1, <2>2 DEF Left
<1>2. \A u \in Threads : Rest(ops[u]) <= Left(u) /\ Rest(ops[u]) \in Nat /\ Left(u) \in Nat
  BY LeftNat DEF Left
<1>3. Rest(ops[t]) < Left(t)
  BY LeftNat DEF Left
<1>. QED BY <1>1, <1>2, <1>3 DEF Forward

(* A new operation comes out of what was left to start.                    *)
LEMMA BeginForward ==
    ASSUME WorkInv, NEW t \in Threads, NEW k \in Kinds, Begin(t, k)
    PROVE  Forward(t)
<1>1. /\ pc[t] = "idle" /\ ops[t] < MaxOps
      /\ pc' = [pc EXCEPT ![t] = "acquire"] /\ ops' = [ops EXCEPT ![t] = ops[t] + 1]
      /\ UNCHANGED <<held, tries>>
  BY DEF Begin
<1>2. ASSUME NEW u \in Threads \ {t} PROVE Left(u)' <= Left(u)
  <2>1. pc'[u] = pc[u] /\ held'[u] = held[u] /\ ops'[u] = ops[u]
    BY <1>1 DEF WorkInv, TypeOK
  <2>2. Left(u)' = Left(u)
    BY <1>1, <2>1, SameLeft
  <2>. QED BY <2>2, LeftNat
<1>3. Left(t)' < Left(t)
  <2>1. MaxRetry \in Nat /\ MaxReconnect \in Nat /\ MaxOps \in Nat /\ ops[t] \in 0..MaxOps
    BY BoundsAssumption DEF WorkInv, TypeOK
  <2>2. /\ Len(held[t]) = 0 /\ held'[t] = held[t] /\ pc'[t] = "acquire" /\ ops'[t] = ops[t] + 1
    BY <1>1 DEF WorkInv, TypeOK, Depths
  <2>3. /\ RunLeft(0) \in Nat /\ RunLeft(1) \in Nat /\ 0 + 1 = 1
        /\ RunLeft(0) = RunLeft(0 + 1) + MaxReconnect + 7
    BY <2>1, RunLefts
  <2>4. /\ Rank("idle", 0, tries) = 0
        /\ Rank("acquire", 0, tries) = RunLeft(0 + 1) + 4 + MaxReconnect
    BY Ranks
  <2>5. Rest(ops[t]) = Rest(ops[t] + 1) + RunLeft(0) /\ Rest(ops[t] + 1) \in Nat
    <3>. DEFINE x == MaxOps - (ops[t] + 1)
                R == RunLeft(0)
    <3>1. x \in Nat /\ MaxOps - ops[t] = x + 1
      BY <1>1, <2>1
    <3>2. R \in Nat
      BY <2>3
    <3>3. Rest(ops[t] + 1) = x * R /\ Rest(ops[t]) = (x + 1) * R
      BY <3>1 DEF Rest
    <3>. HIDE DEF x, R
    <3>4. (x + 1) * R = x * R + R /\ x * R \in Nat
      BY <3>1, <3>2
    <3>5. Rest(ops[t]) = Rest(ops[t] + 1) + R /\ Rest(ops[t] + 1) \in Nat
      BY <3>3, <3>4
    <3>. QED BY <3>5 DEF R
  <2>6. Left(t)' = Rest(ops[t] + 1) + (RunLeft(1) + 4 + MaxReconnect)
    BY <1>1, <2>2, <2>3, <2>4 DEF Left
  <2>7. Left(t) = Rest(ops[t] + 1) + RunLeft(0) + 0
    BY <1>1, <2>2, <2>4, <2>5 DEF Left
  <2>. QED BY <2>1, <2>3, <2>5, <2>6, <2>7
<1>. QED BY <1>2, <1>3 DEF Forward

(* What t has of its depth. *)
LEMMA DepthFacts ==
    ASSUME WorkInv, NEW t \in Threads
    PROVE  /\ MaxRetry \in Nat /\ MaxReconnect \in Nat /\ Len(held[t]) \in Nat
           /\ tries \in 0..MaxReconnect
           /\ pc[t] \in {"acquire", "waiting", "catchLock"} =>
                 /\ RunLeft(Len(held[t]) + 1) \in Nat
                 /\ RunLeft(Len(held[t])) = RunLeft(Len(held[t]) + 1) + MaxReconnect + 7
           /\ pc[t] \in WorkerPCs =>
                 /\ Len(held[t]) >= 1
                 /\ RunLeft(Len(held[t])) \in Nat
                 /\ RunLeft(Len(held[t])) >= 2 * Len(held[t]) + 5
<1>. DEFINE d == Len(held[t])
<1>1. /\ MaxRetry \in Nat /\ MaxReconnect \in Nat /\ d \in Nat /\ tries \in 0..MaxReconnect
  BY BoundsAssumption DEF WorkInv, TypeOK
<1>2. /\ pc[t] \in {"acquire", "waiting", "catchLock"} => d <= MaxRetry
      /\ pc[t] \in WorkerPCs => d \in 1..(MaxRetry + 1)
  BY DEF WorkInv, Depths
<1>. HIDE DEF d
<1>3. /\ d <= MaxRetry => d \in 0..(MaxRetry + 1) /\ d + 1 \in 0..(MaxRetry + 1)
      /\ d \in 1..(MaxRetry + 1) => d >= 1 /\ d \in 0..(MaxRetry + 1)
  BY <1>1
<1>4. /\ d <= MaxRetry => /\ RunLeft(d + 1) \in Nat
                          /\ RunLeft(d) = RunLeft(d + 1) + MaxReconnect + 7
      /\ d \in 1..(MaxRetry + 1) => RunLeft(d) \in Nat /\ RunLeft(d) >= 2 * d + 5
  BY <1>3, RunLefts
<1>5. /\ pc[t] \in {"acquire", "waiting", "catchLock"} =>
            /\ RunLeft(d + 1) \in Nat
            /\ RunLeft(d) = RunLeft(d + 1) + MaxReconnect + 7
      /\ pc[t] \in WorkerPCs => d >= 1 /\ RunLeft(d) \in Nat /\ RunLeft(d) >= 2 * d + 5
  BY <1>2, <1>3, <1>4
<1>. QED BY <1>1, <1>5 DEF d

(* To find no free slot, or to take one, is a step forward.                *)
LEMMA AcquireForward ==
    ASSUME WorkInv, NEW t \in Threads, Acquire(t)
    PROVE  Forward(t)
<1>. DEFINE d == Len(held[t])
            r == RunLeft(d + 1)
            M == MaxReconnect
<1>1. pc[t] = "acquire" /\ r \in Nat /\ M \in Nat /\ d \in Nat
  BY DepthFacts DEF Acquire, AcquireWait, AcquireSlot
<1>2. /\ Rank("acquire", d, tries) = r + 4 + M /\ Rank("waiting", d, tries) = r + 3 + M
      /\ Rank("check", d + 1, tries) = r + 2 + M
  BY Ranks
<1>3. CASE AcquireWait(t)
  <2>1. /\ pc' = [pc EXCEPT ![t] = "waiting"] /\ UNCHANGED <<held, ops, tries>>
    BY <1>3 DEF AcquireWait
  <2>2. r + 3 + M \in Int /\ r + 3 + M < r + 4 + M
    BY <1>1
  <2>3. Rank("waiting", d, tries') \in Int /\ Rank("waiting", d, tries') < Rank(pc[t], d, tries)
    BY <1>1, <1>2, <2>1, <2>2
  <2>. QED BY <2>1, <2>3, OwnStep
<1>4. ASSUME NEW s \in Slots, AcquireSlot(t, s) PROVE Forward(t)
  <2>1. /\ pc' = [pc EXCEPT ![t] = "check"] /\ held' = [held EXCEPT ![t] = Append(held[t], s)]
        /\ UNCHANGED <<ops, tries>>
    BY <1>4 DEF AcquireSlot
  <2>2. ASSUME NEW u \in Threads \ {t} PROVE Left(u)' <= Left(u)
    <3>1. pc'[u] = pc[u] /\ held'[u] = held[u] /\ ops'[u] = ops[u]
      BY <2>1 DEF WorkInv, TypeOK
    <3>2. Left(u)' = Left(u)
      BY <2>1, <3>1, SameLeft
    <3>. QED BY <3>2, LeftNat
  <2>3. Len(held'[t]) = d + 1 /\ pc'[t] = "check" /\ ops'[t] = ops[t] /\ tries' = tries
    BY <2>1 DEF WorkInv, TypeOK
  <2>4. Left(t)' = Rest(ops[t]) + (r + 2 + M) /\ Left(t) = Rest(ops[t]) + (r + 4 + M)
    BY <1>1, <1>2, <2>3 DEF Left
  <2>5. Rest(ops[t]) \in Nat
    BY LeftNat
  <2>. HIDE DEF d, r, M
  <2>6. Left(t)' < Left(t)
    BY <1>1, <2>4, <2>5
  <2>. QED BY <2>2, <2>6 DEF Forward
<1>. QED BY <1>3, <1>4 DEF Acquire

(* So is what checkConnection does, also when it fails.                    *)
LEMMA CheckForward ==
    ASSUME WorkInv, NEW t \in Threads, Check(t)
    PROVE  Forward(t)
<1>. DEFINE d == Len(held[t])
            r == RunLeft(d)
            M == MaxReconnect
<1>1. pc[t] \in {"check", "reconnect"} /\ r \in Nat /\ M \in Nat /\ tries \in 0..M
  BY DepthFacts DEF Check, CheckValid, CheckInvalid, ReconnectOk, ReconnectFails,
                    ReconnectGivesUp, WorkerPCs
<1>2. \A k : /\ Rank("run", d, k) = r
             /\ Rank("reconnect", d, k) = r + 1 + M - k
             /\ Rank("check", d, k) = r + 2 + M
  BY Ranks
<1>3. CASE CheckValid(t) \/ CheckInvalid(t)
  <2>1. PICK p \in {"run", "reconnect"} :
           pc[t] = "check" /\ pc' = [pc EXCEPT ![t] = p] /\ UNCHANGED <<held, ops, tries>>
    BY <1>3 DEF CheckValid, CheckInvalid
  <2>2. Rank(p, d, tries') \in Int /\ Rank(p, d, tries') < Rank(pc[t], d, tries)
    <3>1. /\ r \in Int /\ r + 1 + M - tries \in Int
          /\ r < r + 2 + M /\ r + 1 + M - tries < r + 2 + M
      BY <1>1
    <3>. QED BY <1>2, <2>1, <3>1
  <2>. QED BY <2>1, <2>2, OwnStep
<1>4. CASE ReconnectOk(t) \/ ReconnectGivesUp(t)
  <2>1. pc[t] = "reconnect" /\ pc' = [pc EXCEPT ![t] = "run"] /\ UNCHANGED <<held, ops>>
    BY <1>4 DEF ReconnectOk, ReconnectGivesUp
  <2>2. Rank("run", d, tries') \in Int /\ Rank("run", d, tries') < Rank(pc[t], d, tries)
    <3>1. r \in Int /\ r < r + 1 + M - tries
      BY <1>1
    <3>. QED BY <1>2, <2>1, <3>1
  <2>. QED BY <2>1, <2>2, OwnStep
<1>5. CASE ReconnectFails(t)
  <2>1. /\ pc[t] = "reconnect" /\ pc' = [pc EXCEPT ![t] = "reconnect"]
        /\ UNCHANGED <<held, ops>> /\ tries' = tries + 1
    BY <1>5 DEF ReconnectFails, WorkInv, TypeOK
  <2>2. Rank("reconnect", d, tries') \in Int
        /\ Rank("reconnect", d, tries') < Rank(pc[t], d, tries)
    <3>1. r + 1 + M - (tries + 1) \in Int /\ r + 1 + M - (tries + 1) < r + 1 + M - tries
      BY <1>1
    <3>. QED BY <1>2, <2>1, <3>1
  <2>. QED BY <2>1, <2>2, OwnStep
<1>. QED BY <1>3, <1>4, <1>5 DEF Check

(* And what becomes of the operation.                                      *)
LEMMA RunForward ==
    ASSUME WorkInv, NEW t \in Threads, Run(t)
    PROVE  Forward(t)
<1>. DEFINE d == Len(held[t])
            r == RunLeft(d)
<1>1. pc[t] = "run" /\ d \in Nat /\ r \in Nat /\ r >= 2 * d + 5
  BY DepthFacts DEF Run, RunOk, RunError, RunLockError, RunParameter, RunNull, WorkerPCs
<1>2. CASE RunNull(t)
  BY <1>1, <1>2, CrashForward DEF RunNull
<1>3. CASE RunOk(t) \/ RunError(t) \/ RunLockError(t) \/ RunParameter(t)
  <2>1. PICK p \in {"return", "catchLock", "catchParameter"} :
           pc' = [pc EXCEPT ![t] = p] /\ UNCHANGED <<held, ops, tries>>
    BY <1>3 DEF RunOk, RunError, RunLockError, RunParameter
  <2>2. /\ Rank("return", d, tries) = 2 * d + 1 /\ Rank("catchLock", d, tries) = r - 1
        /\ Rank("catchParameter", d, tries) = 2 * d + 3 /\ Rank("run", d, tries) = r
    BY Ranks
  <2>3. Rank(p, d, tries') \in Int /\ Rank(p, d, tries') < Rank(pc[t], d, tries)
    <3>1. /\ 2 * d + 1 \in Int /\ r - 1 \in Int /\ 2 * d + 3 \in Int
          /\ 2 * d + 1 < r /\ r - 1 < r /\ 2 * d + 3 < r
      <4>. HIDE DEF d, r
      <4>. QED BY <1>1
    <3>. QED BY <1>1, <2>1, <2>2, <3>1
  <2>. QED BY <2>1, <2>3, OwnStep
<1>. QED BY <1>2, <1>3 DEF Run

(* A thread that returns a worker lets a sleeper look again, which costs   *)
(* that one step.                                                          *)
LEMMA WakeForward ==
    ASSUME WorkInv, NEW t \in Threads, NEW s, NEW p, ReturnWorker(t, s, p),
           pc[t] # "waiting", UNCHANGED <<ops, tries>>,
           \A u \in Threads \ {t} : held'[u] = held[u],
           Rank(p, Len(held'[t]), tries) \in Int,
           Rank(p, Len(held'[t]), tries) + 1 < Rank(pc[t], Len(held[t]), tries)
    PROVE  Forward(t)
<1>1. ASSUME pc'[t] = p PROVE Left(t)' + 1 < Left(t) /\ Left(t)' \in Int
  <2>1. Left(t)' = Rest(ops[t]) + Rank(p, Len(held'[t]), tries)
    BY <1>1 DEF Left
  <2>2. Rest(ops[t]) \in Nat /\ Rank(pc[t], Len(held[t]), tries) \in Nat
    BY LeftNat
  <2>. QED BY <2>1, <2>2 DEF Left
<1>2. ASSUME NEW u \in Threads \ {t}, pc'[u] = pc[u] PROVE Left(u)' <= Left(u)
  <2>1. Left(u)' = Left(u)
    BY <1>2, SameLeft
  <2>. QED BY <2>1, LeftNat
<1>3. CASE pc' = [pc EXCEPT ![t] = p]
  <2>1. pc'[t] = p /\ \A u \in Threads \ {t} : pc'[u] = pc[u]
    BY <1>3 DEF WorkInv, TypeOK
  <2>2. Left(t)' < Left(t)
    BY <1>1, <2>1, LeftNat
  <2>. QED BY <1>2, <2>1, <2>2 DEF Forward
<1>4. CASE \E u \in Waiting : pc' = [pc EXCEPT ![t] = p, ![u] = "acquire"]
  <2>1. PICK u \in Waiting : pc' = [pc EXCEPT ![t] = p, ![u] = "acquire"]
    BY <1>4
  <2>2. u \in Threads \ {t} /\ pc[u] = "waiting"
    BY DEF Waiting
  <2>3. pc'[t] = p /\ pc'[u] = "acquire" /\ \A v \in Threads \ {t, u} : pc'[v] = pc[v]
    BY <2>1, <2>2 DEF WorkInv, TypeOK
  <2>4. Left(u)' = Left(u) + 1
    <3>. DEFINE r == RunLeft(Len(held[u]) + 1)
    <3>1. r \in Nat /\ MaxReconnect \in Nat
      BY <2>2, DepthFacts
    <3>2. /\ Rank("waiting", Len(held[u]), tries) = r + 3 + MaxReconnect
          /\ Rank("acquire", Len(held[u]), tries) = r + 4 + MaxReconnect
      BY Ranks
    <3>3. Rest(ops[u]) \in Nat
      BY <2>2, LeftNat
    <3>4. /\ Left(u) = Rest(ops[u]) + (r + 3 + MaxReconnect)
          /\ Left(u)' = Rest(ops[u]) + (r + 4 + MaxReconnect)
      BY <2>2, <2>3, <3>2 DEF Left
    <3>. HIDE DEF r
    <3>. QED BY <3>1, <3>3, <3>4
  <2>. QED BY <1>1, <1>2, <2>2, <2>3, <2>4 DEF Forward
<1>. QED BY <1>3, <1>4 DEF ReturnWorker

(* Every return of a worker is a step forward.                             *)
LEMMA ReturnForward ==
    ASSUME WorkInv, NEW t \in Threads, Return(t)
    PROVE  Forward(t)
<1>. DEFINE d == Len(held[t])
            r == RunLeft(d + 1)
            M == MaxReconnect
<1>1. /\ pc[t] \in {"catchParameter", "catchLock", "return"} /\ d \in Nat /\ d >= 1 /\ M \in Nat
      /\ pc[t] = "catchLock" => r \in Nat /\ RunLeft(d) = r + M + 7
  BY DepthFacts DEF Return, CatchParameter, CatchLock, LastReturn, WorkerPCs
<1>2. \A k : /\ Rank("return", k, tries) = 2 * k + 1
             /\ Rank("catchParameter", d, tries) = 2 * d + 3
             /\ Rank("catchLock", d, tries) = RunLeft(d) - 1
             /\ Rank("acquire", d, tries) = r + 4 + M
             /\ Rank("result", k, tries) = 1 /\ Rank("idle", k, tries) = 0
  BY Ranks
<1>3. CASE CatchParameter(t)
  <2>1. 2 * d + 1 \in Int /\ 2 * d + 1 + 1 < 2 * d + 3
    <3>. HIDE DEF d
    <3>. QED BY <1>1
  <2>2. /\ pc[t] = "catchParameter" /\ ReturnWorker(t, Current(t), "return")
        /\ UNCHANGED <<held, ops, tries>>
    BY <1>3 DEF CatchParameter
  <2>3. Rank("return", d, tries) \in Int /\ Rank("return", d, tries) + 1 < Rank(pc[t], d, tries)
    BY <1>2, <2>1, <2>2
  <2>. QED BY <2>2, <2>3, WakeForward
<1>4. CASE CatchLock(t)
  <2>1. /\ pc[t] = "catchLock" /\ ReturnWorker(t, Current(t), "acquire")
        /\ UNCHANGED <<held, ops, tries>>
    BY <1>4 DEF CatchLock
  <2>2. r + 4 + M \in Int /\ r + 4 + M + 1 < (r + M + 7) - 1
    <3>1. r \in Nat /\ M \in Nat
      BY <1>1, <2>1
    <3>. HIDE DEF r, M
    <3>. QED BY <3>1
  <2>3. Rank("acquire", d, tries) \in Int /\ Rank("acquire", d, tries) + 1 < Rank(pc[t], d, tries)
    BY <1>1, <1>2, <2>1, <2>2
  <2>. QED BY <2>1, <2>3, WakeForward
<1>5. CASE LastReturn(t)
  <2>1. /\ pc[t] = "return" /\ ReturnWorker(t, Current(t), AfterReturn(t))
        /\ held' = [held EXCEPT ![t] = SubSeq(held[t], 1, Len(held[t]) - 1)]
        /\ UNCHANGED <<ops, tries>>
    BY <1>5 DEF LastReturn
  <2>2. Len(held'[t]) = d - 1
    <3>1. held[t] \in Seq(Slots) /\ d \in Nat /\ d - 1 \in 0..d
      BY <1>1 DEF WorkInv, TypeOK
    <3>2. Len(SubSeq(held[t], 1, d - 1)) = d - 1
      BY <3>1
    <3>. QED BY <2>1, <3>2 DEF WorkInv, TypeOK
  <2>3. /\ d > 1 => AfterReturn(t) = "return"
        /\ ~(d > 1) => AfterReturn(t) \in {"idle", "result"}
    BY Zenon DEF AfterReturn
  <2>4. \A u \in Threads \ {t} : held'[u] = held[u]
    BY <2>1 DEF WorkInv, TypeOK
  <2>. DEFINE after == Rank(AfterReturn(t), Len(held'[t]), tries)
  <2>5. after = 2 * (d - 1) + 1 \/ after \in {0, 1}
    BY <1>2, <2>2, <2>3
  <2>6. Rank(pc[t], d, tries) = 2 * d + 1
    BY <1>2, <2>1
  <2>7. after \in Int /\ after + 1 < 2 * d + 1
    <3>. HIDE DEF d, after
    <3>. QED BY <1>1, <2>5
  <2>. QED BY <2>1, <2>4, <2>6, <2>7, WakeForward
<1>. QED BY <1>3, <1>4, <1>5 DEF Return

(* An operation takes so many steps and no more, whatever becomes of its   *)
(* connection and of its retries: every step of every thread lessens what  *)
(* all of them together have left, but for spurious wakeups and timeouts.  *)
(* With NoDeadlock, every operation ends as soon as a thread that can go   *)
(* on does.                                                                *)
THEOREM EveryStepForward ==
    Spec => /\ [](\A t \in Threads : Left(t) \in Nat)
            /\ [][\E t \in Threads : WaitEnds(t) \/ Forward(t)]_vars
<1>1. Init => WorkInv
  BY InitTypeOK DEF Init, WorkInv, Depths, OneChecks, WorkerPCs
<1>2. WorkInv /\ [Next]_vars => WorkInv'
  BY NextTypeOK, DepthsStep, OneChecksStep DEF WorkInv
<1>3. WorkInv => \A t \in Threads : Left(t) \in Nat
  BY LeftNat
<1>4. ASSUME WorkInv, [Next]_vars
      PROVE  [\E t \in Threads : WaitEnds(t) \/ Forward(t)]_vars
  <2>1. ASSUME NEW t \in Threads, GetResult(t) PROVE Forward(t)
    <3>1. /\ pc[t] = "result" /\ pc' = [pc EXCEPT ![t] = "idle"]
          /\ UNCHANGED <<held, ops, tries>>
      BY <2>1 DEF GetResult
    <3>2. Rank("idle", Len(held[t]), tries) = 0 /\ Rank("result", Len(held[t]), tries) = 1
      BY Ranks
    <3>3. /\ Rank("idle", Len(held[t]), tries') \in Int
          /\ Rank("idle", Len(held[t]), tries') < Rank(pc[t], Len(held[t]), tries)
      BY <3>1, <3>2
    <3>. QED BY <1>4, <3>1, <3>3, OwnStep
  <2>2. ASSUME NEW t \in Threads, GetNoResult(t) PROVE Forward(t)
    BY <1>4, <2>2, CrashForward DEF GetNoResult
  <2>. QED
    BY <1>4, <2>1, <2>2, BeginForward, AcquireForward, CheckForward, RunForward, ReturnForward
       DEF Next, Over, ThreadStep
<1>. QED BY <1>1, <1>2, <1>3, <1>4, PTL DEF Spec
=============================================================================
