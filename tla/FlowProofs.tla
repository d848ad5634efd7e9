----------------------------- MODULE FlowProofs -----------------------------
(***************************************************************************)
(* Proofs about Judging and SubmissionFlow for any number of workers,      *)
(* submissions, tests and faults: the verdict of a run, the types, that a  *)
(* stored verdict says what happened when the tests ran, that every        *)
(* published message is in one place, that the tables implement            *)
(* SubmissionRecord, how a message is lost when nothing fails, what the    *)
(* tables hold when the pool is idle, and that it gets there: the pool is  *)
(* never stuck, and every step leaves less to do.                          *)
(***************************************************************************)
EXTENDS SubmissionFlow, SequenceTheorems, TLAPS

-----------------------------------------------------------------------------
(* The verdict of setStatus, for any number of tests.                      *)

(* A run is a sequence of statuses of at most n tests. *)
LEMMA RunIsSequence ==
    ASSUME NEW n \in Nat, NEW O, NEW rs \in Runs(n, O)
    PROVE  /\ rs \in Seq(O)
           /\ Len(rs) \in 0..n
           /\ \A i \in 1..Len(rs) : rs[i] \in O
           /\ \A i \in 1..Len(rs) - 1 : rs[i] = "ACCEPTED"
           /\ Len(rs) < n => rs # <<>> /\ rs[Len(rs)] # "ACCEPTED"
<1>1. PICK k \in 0..n : rs \in [1..k -> O]
  BY DEF Runs
<1>2. rs \in Seq(O) /\ Len(rs) = k
  BY <1>1
<1>3. QED
  BY <1>1, <1>2 DEF Runs

(* What the actuator finds and the comparison of the output are statuses   *)
(* of a test.                                                              *)
LEMMA OutcomesAreStatuses ==
    ASSUME NEW E, E \subseteq ExecStatuses, NEW c \in BOOLEAN
    PROVE  Outcomes(E, c) \subseteq TestStatuses
BY DEF Outcomes, Judged, ExecStatuses, TestStatuses

(* The bits that setStatus folds are those of the last test and, before    *)
(* it, ACCEPTED; so the order in which it looks at them does not matter.   *)
THEOREM VerdictOfRun ==
    ASSUME NEW n \in Nat, NEW O, O \subseteq TestStatuses, NEW rs \in Runs(n, O)
    PROVE  SetStatus(rs) = IF rs = <<>> THEN "COMPILATION_ERROR"
                           ELSE IF rs[Len(rs)] = "ACCEPTED" THEN "ACCEPT"
                           ELSE rs[Len(rs)]
<1>. DEFINE bits == {rs[i] : i \in 1..Len(rs)}
            last == rs[Len(rs)]
<1>1. rs \in Seq(O) /\ Len(rs) \in Nat /\ \A i \in 1..Len(rs) - 1 : rs[i] = "ACCEPTED"
  BY RunIsSequence
<1>2. CASE rs = <<>>
  BY <1>2 DEF SetStatus
<1>3. CASE rs # <<>>
  <2>1. Len(rs) \in 1..Len(rs)
    BY <1>1, <1>3
  <2>2. last \in TestStatuses
    BY <1>1, <2>1
  <2>3. bits \subseteq {"ACCEPTED", last} /\ last \in bits
    BY <1>1, <2>1
  <2>4. CASE last = "ACCEPTED"
    <3>1. bits = {"ACCEPTED"}
      BY <2>3, <2>4
    <3>. QED
      BY <3>1, <1>3, <2>4 DEF SetStatus
  <2>5. CASE last # "ACCEPTED"
    <3>. DEFINE found == {i \in 1..Len(Priority) : Priority[i] \in bits}
    <3>0. /\ Len(Priority) = 4
          /\ Priority[1] = "WRONG_ANSWER" /\ Priority[2] = "MEMORY_LIMIT_EXCEEDED"
          /\ Priority[3] = "TIME_LIMIT_EXCEEDED" /\ Priority[4] = "INTERNAL_ERROR"
      BY DEF Priority
    <3>1. bits # {"ACCEPTED"} /\ SetStatus(rs) = FirstBit(bits)
      BY <1>3, <2>3, <2>5 DEF SetStatus
    <3>2. \A i \in 1..4 : i \in found <=> Priority[i] = last
      BY <3>0, <2>3, <2>5
    <3>3. CASE last = "RUNTIME_ERROR"
      <4>1. found = {}
        BY <3>0, <3>2, <3>3
      <4>. QED
        BY <4>1, <3>1, <3>3, <2>5, <1>3 DEF FirstBit
    <3>4. CASE last # "RUNTIME_ERROR"
      <4>1. \E i \in 1..4 : found = {i} /\ Priority[i] = last
        <5>1. last \in {"WRONG_ANSWER", "MEMORY_LIMIT_EXCEEDED", "TIME_LIMIT_EXCEEDED"}
          BY <2>2, <2>5, <3>4 DEF TestStatuses, ExecStatuses
        <5>. QED
          BY <5>1, <3>0, <3>2
      <4>2. PICK i \in 1..4 : found = {i} /\ Priority[i] = last
        BY <4>1
      <4>3. (CHOOSE k \in found : \A j \in found : k <= j) = i
        BY <4>2
      <4>. QED
        BY <4>2, <4>3, <3>1, <2>5, <1>3 DEF FirstBit
    <3>. QED
      BY <3>3, <3>4
  <2>. QED
    BY <2>4, <2>5
<1>. QED
  BY <1>2, <1>3

(* ACCEPT means that there are tests and that all of them were run and     *)
(* accepted; COMPILATION_ERROR, that there are none.                       *)
THEOREM AcceptMeansAll ==
    ASSUME NEW n \in Nat, NEW O, O \subseteq TestStatuses, NEW rs \in Runs(n, O)
    PROVE  /\ SetStatus(rs) = "ACCEPT" =>
                n > 0 /\ Len(rs) = n /\ \A i \in 1..n : rs[i] = "ACCEPTED"
           /\ SetStatus(rs) = "COMPILATION_ERROR" => n = 0
           /\ SetStatus(rs) \in TestStatuses => rs # <<>> /\ rs[Len(rs)] = SetStatus(rs)
           /\ SetStatus(rs) \in OverallStatuses
<1>1. /\ rs \in Seq(O) /\ Len(rs) \in 0..n
      /\ \A i \in 1..Len(rs) : rs[i] \in TestStatuses
      /\ \A i \in 1..Len(rs) - 1 : rs[i] = "ACCEPTED"
      /\ Len(rs) < n => rs # <<>> /\ rs[Len(rs)] # "ACCEPTED"
  BY RunIsSequence
<1>2. SetStatus(rs) = IF rs = <<>> THEN "COMPILATION_ERROR"
                      ELSE IF rs[Len(rs)] = "ACCEPTED" THEN "ACCEPT"
                      ELSE rs[Len(rs)]
  BY VerdictOfRun
<1>3. CASE rs = <<>>
  BY <1>1, <1>2, <1>3 DEF TestStatuses, ExecStatuses, OverallStatuses
<1>4. CASE rs # <<>>
  <2>1. Len(rs) \in 1..n /\ rs[Len(rs)] \in TestStatuses
    BY <1>1, <1>4
  <2>2. CASE rs[Len(rs)] = "ACCEPTED"
    <3>1. Len(rs) = n
      BY <1>1, <2>2
    <3>2. \A i \in 1..n : rs[i] = "ACCEPTED"
      BY <1>1, <2>1, <2>2, <3>1
    <3>. QED
      BY <1>2, <1>4, <2>1, <2>2, <3>1, <3>2 DEF TestStatuses, ExecStatuses, OverallStatuses
  <2>3. CASE rs[Len(rs)] # "ACCEPTED"
    BY <1>2, <1>4, <2>1, <2>3 DEF TestStatuses, ExecStatuses, OverallStatuses
  <2>. QED
    BY <2>2, <2>3
<1>. QED
  BY <1>3, <1>4

-----------------------------------------------------------------------------
(* What is true of messages, tasks and rows.                               *)

(* A message says what the judge task found.  Messages outlive the task,   *)
(* so this has to hold wherever one is kept.                               *)
Truthful(m, found) ==
    /\ m.op = "insert" => m.status = "PENDING"
    /\ m.op = "update" => /\ found[m.sub].done
                          /\ m.status = SetStatus(found[m.sub].results)
                          /\ m.status \in OverallStatuses
    /\ m.op = "result" => m.seq \in 1..MaxTests /\ m.status \in TestStatuses

AllTruthful(q, found) == \A i \in 1..Len(q) : Truthful(q[i], found)

MessagesTruthful ==
    /\ AllTruthful(queue, judged)
    /\ AllTruthful(socket, judged)
    /\ \A w \in Workers : /\ Truthful(running[w], judged)
                          /\ AllTruthful(outbox[w], judged)

SameJudge(m, n) == m.op = "judge" /\ n.op = "judge" /\ m.sub = n.sub

(* A submission has one judge task.                                        *)
OneJudgeTask ==
    /\ \A i, j \in 1..Len(queue) : SameJudge(queue[i], queue[j]) => i = j
    /\ \A w \in Workers, i \in 1..Len(queue) : ~SameJudge(running[w], queue[i])
    /\ \A v, w \in Workers : SameJudge(running[v], running[w]) => v = w

Requested(s) == http[s] \notin {"none", "enqueueing"}

(* A judge task belongs to a request that was made, and until it reports   *)
(* nothing was found for its submission.                                   *)
NotYetJudged ==
    /\ \A i \in 1..Len(queue) : queue[i].op = "judge" =>
           Requested(queue[i].sub) /\ ~judged[queue[i].sub].done
    /\ \A w \in Workers : running[w].op = "judge" =>
           /\ Requested(running[w].sub)
           /\ outbox[w] = <<>> => ~judged[running[w].sub].done
    /\ \A s \in Subs : ~Requested(s) => ~judged[s].done

(* What was found is the outcome of a run of the tests.                    *)
FoundByRun == \A s \in Subs : judged[s].done =>
                  judged[s].results \in Runs(judged[s].tests, TestStatuses)

(* A row has the verdict of what was found. *)
RowsTruthful == \A s \in Subs : row[s] \in OverallStatuses =>
                    judged[s].done /\ row[s] = SetStatus(judged[s].results)

FlowInv == TypeOK /\ MessagesTruthful /\ OneJudgeTask /\ NotYetJudged
           /\ FoundByRun /\ RowsTruthful
-----------------------------------------------------------------------------
(* Tasks and messages.                                                     *)

(* What the kind of a task says about it. *)
LEMMA TaskFacts ==
    ASSUME NEW m \in Tasks \cup {NoTask}
    PROVE  /\ m.op \in DbOps \cup {"judge", "loop", "none"}
           /\ m.op \in DbOps => m \in Messages
           /\ m.op = "judge" => m.sub \in Subs
           /\ m \in Messages => m.op \in DbOps /\ m.sub \in Subs
BY DEF Tasks, Messages, DbOps, JudgeTask, LoopTask, NoTask, Op

(* Only messages carry a status: other tasks are truthful.                 *)
LEMMA OthersTruthful ==
    ASSUME NEW found
    PROVE  /\ Truthful(NoTask, found) /\ Truthful(LoopTask, found)
           /\ \A s \in Subs : Truthful(JudgeTask(s), found) /\ Truthful(InsertOp(s), found)
BY DEF Truthful, NoTask, LoopTask, JudgeTask, InsertOp, Op

(* A queue stays truthful when a truthful message is appended to it ...    *)
LEMMA AppendTruthful ==
    ASSUME NEW S, NEW q \in Seq(S), NEW m \in S, NEW found,
           AllTruthful(q, found), Truthful(m, found)
    PROVE  AllTruthful(Append(q, m), found)
BY DEF AllTruthful

(* ... and when one is put before it ...                                   *)
LEMMA PrependTruthful ==
    ASSUME NEW S, NEW q \in Seq(S), NEW m \in S, NEW found,
           AllTruthful(q, found), Truthful(m, found)
    PROVE  /\ <<m>> \o q \in Seq(S) /\ <<m>> \o q # <<>>
           /\ AllTruthful(<<m>> \o q, found)
<1>. DEFINE r == <<m>> \o q
<1>1. /\ r \in Seq(S) /\ Len(r) = 1 + Len(q) /\ Len(q) \in Nat
      /\ r[1] = m
      /\ \A i \in 1..Len(q) : r[i + 1] = q[i]
  OBVIOUS
<1>2. \A i \in 1..Len(r) : i = 1 \/ (i - 1 \in 1..Len(q) /\ r[i] = q[i - 1])
  BY <1>1
<1>. HIDE DEF r
<1>3. AllTruthful(r, found)
  BY <1>1, <1>2 DEF AllTruthful
<1>4. r # <<>>
  BY <1>1
<1> QED BY <1>1, <1>3, <1>4 DEF r

(* ... and when its first one is taken, which is truthful.                 *)
LEMMA TakeTruthful ==
    ASSUME NEW S, NEW q \in Seq(S), q # <<>>, NEW found, AllTruthful(q, found)
    PROVE  /\ Truthful(Head(q), found)
           /\ AllTruthful(Tail(q), found)
<1>1. /\ 1 \in 1..Len(q) /\ Head(q) = q[1]
      /\ \A i \in 1..Len(Tail(q)) : i + 1 \in 1..Len(q) /\ Tail(q)[i] = q[i + 1]
  OBVIOUS
<1> QED BY <1>1 DEF AllTruthful

(* A message is about a submission for which something was found: it stays *)
(* truthful when something is found for another one.                       *)
LEMMA TruthfulKept ==
    ASSUME NEW found \in [Subs -> [done : BOOLEAN, tests : 0..MaxTests,
                                   results : Seq(TestStatuses)]],
           NEW s \in Subs, ~found[s].done, NEW f,
           NEW m \in Tasks \cup {NoTask}, Truthful(m, found)
    PROVE  Truthful(m, [found EXCEPT ![s] = f])
<1>1. CASE m.op = "update"
  <2>1. m.sub \in Subs /\ m.sub # s
    BY <1>1, TaskFacts DEF Truthful, DbOps
  <2>2. [found EXCEPT ![s] = f][m.sub] = found[m.sub]
    BY <2>1
  <2> QED BY <1>1, <2>2 DEF Truthful
<1>2. CASE m.op # "update"
  BY <1>2 DEF Truthful
<1> QED BY <1>1, <1>2

(* What the judge task publishes is truthful. *)
LEMMA ReportTruthful ==
    ASSUME NEW s \in Subs, NEW n \in 0..MaxTests, NEW rs \in Runs(n, TestStatuses),
           NEW found, found[s] = Found(n, rs)
    PROVE  /\ Report(s, rs) \in Seq(Messages)
           /\ Report(s, rs) # <<>>
           /\ AllTruthful(Report(s, rs), found)
<1>. DEFINE v == SetStatus(rs)
            rest == [i \in 1..Len(rs) |-> ResultOp(s, i, rs[i])]
<1>0. MaxTests \in Nat /\ n \in Nat
  BY BoundsAssumption
<1>1. /\ rs \in Seq(TestStatuses) /\ Len(rs) \in 0..n
      /\ \A i \in 1..Len(rs) : rs[i] \in TestStatuses /\ i \in 1..MaxTests
  BY <1>0, RunIsSequence
<1>2. v \in OverallStatuses
  BY <1>0, AcceptMeansAll
<1>3. UpdateOp(s, v) \in Messages /\ Truthful(UpdateOp(s, v), found)
  BY <1>0, <1>2 DEF UpdateOp, Op, Messages, DbOps, Statuses, Truthful, Found
<1>4. \A i \in 1..Len(rs) : /\ rest[i] \in Messages
                             /\ Truthful(rest[i], found)
  BY <1>1 DEF ResultOp, Op, Messages, DbOps, Statuses, Truthful
<1>5. rest \in Seq(Messages) /\ Len(rest) = Len(rs)
  BY <1>1, <1>4
<1>6. AllTruthful(rest, found)
  BY <1>4, <1>5 DEF AllTruthful
<1>. HIDE DEF rest
<1>7. Report(s, rs) = <<UpdateOp(s, v)>> \o rest
  BY DEF Report, rest
<1> QED BY <1>3, <1>5, <1>6, <1>7, PrependTruthful

(* Publishing a truthful message keeps the socket truthful.                *)
LEMMA PublishTruthful ==
    ASSUME TypeOK, MessagesTruthful, NEW m \in Messages, Truthful(m, judged), Publish(m)
    PROVE  /\ socket' \in Seq(Messages) /\ AllTruthful(socket', judged)
           /\ published' \subseteq Messages /\ lost' \subseteq Messages
<1>1. CASE socket' = Append(socket, m) /\ UNCHANGED lost
  BY <1>1, AppendTruthful DEF TypeOK, MessagesTruthful, Publish
<1>2. CASE lost' = lost \cup {m} /\ UNCHANGED socket
  BY <1>2 DEF TypeOK, MessagesTruthful, Publish
<1> QED BY <1>1, <1>2 DEF Publish
-----------------------------------------------------------------------------
(* The invariant.                                                          *)

(* The empty pool, and a database without submissions.                     *)
LEMMA InitFlowInv == Init => FlowInv
<1> SUFFICES ASSUME Init PROVE FlowInv
  OBVIOUS
<1>1. TypeOK
  <2>1. LoopTask \in Tasks /\ NoTask \in Tasks \cup {NoTask}
    BY DEF Tasks
  <2>2. queue \in Seq(Tasks) /\ socket \in Seq(Messages)
    BY <2>1 DEF Init
  <2>3. /\ outbox \in [Workers -> Seq(Messages)]
        /\ \A w \in Workers : outbox[w] = <<>>
    BY DEF Init
  <2>4. results \in [Subs -> [1..MaxTests -> Seq(TestStatuses)]]
    BY DEF Init
  <2>5. judged \in [Subs -> [done : BOOLEAN, tests : 0..MaxTests, results : Seq(TestStatuses)]]
    BY BoundsAssumption DEF Init, NotJudged
  <2>6. faults \in 0..MaxFaults
    BY BoundsAssumption DEF Init
  <2> QED BY <2>1, <2>2, <2>3, <2>4, <2>5, <2>6 DEF Init, TypeOK, Statuses
<1>2. Len(queue) = 1 /\ queue[1] = LoopTask /\ LoopTask.op = "loop" /\ NoTask.op = "none"
  BY DEF Init, LoopTask, NoTask, Op
<1>3. MessagesTruthful
  BY <1>2, OthersTruthful DEF Init, MessagesTruthful, AllTruthful
<1>4. OneJudgeTask
  BY <1>2 DEF Init, OneJudgeTask, SameJudge
<1>5. NotYetJudged /\ FoundByRun /\ RowsTruthful
  BY <1>2 DEF Init, NotYetJudged, FoundByRun, RowsTruthful, NotJudged, OverallStatuses,
              TestStatuses, ExecStatuses
<1> QED BY <1>1, <1>3, <1>4, <1>5 DEF FlowInv

(* The HTTP thread of a submission. *)
LEMMA HttpFlowInv ==
    ASSUME FlowInv, NEW s \in Subs, HttpStep(s) \/ SubmitFails(s)
    PROVE  FlowInv'
<1>. USE DEF FlowInv
<1>1. CASE SubmitPublish(s)
  <2>1. InsertOp(s) \in Messages
    BY BoundsAssumption DEF InsertOp, Op, Messages, DbOps, Statuses
  <2>2. /\ socket' \in Seq(Messages) /\ AllTruthful(socket', judged)
        /\ published' \subseteq Messages /\ lost' \subseteq Messages
    BY <1>1, <2>1, OthersTruthful, PublishTruthful DEF SubmitPublish
  <2>3. TypeOK'
    BY <1>1, <2>2 DEF SubmitPublish, TypeOK, tables
  <2>4. MessagesTruthful'
    BY <1>1, <2>2 DEF SubmitPublish, MessagesTruthful, AllTruthful
  <2>5. OneJudgeTask'
    BY <1>1 DEF SubmitPublish, OneJudgeTask
  <2>6. NotYetJudged'
    BY <1>1 DEF SubmitPublish, NotYetJudged, Requested, TypeOK
  <2>7. FoundByRun' /\ RowsTruthful'
    BY <1>1 DEF SubmitPublish, FoundByRun, RowsTruthful, tables
  <2> QED BY <2>3, <2>4, <2>5, <2>6, <2>7
<1>2. CASE SubmitFails(s)
  <2>1. TypeOK'
    BY <1>2, BoundsAssumption DEF SubmitFails, Fault, TypeOK, memory, tables
  <2>2. MessagesTruthful' /\ OneJudgeTask' /\ FoundByRun' /\ RowsTruthful'
    BY <1>2 DEF SubmitFails, memory, tables, MessagesTruthful, AllTruthful, OneJudgeTask,
                FoundByRun, RowsTruthful
  <2>3. NotYetJudged'
    BY <1>2 DEF SubmitFails, memory, NotYetJudged, Requested, TypeOK
  <2> QED BY <2>1, <2>2, <2>3
<1>3. CASE SubmitEnqueue(s)
  <2>0. /\ JudgeTask(s) \in Tasks
        /\ JudgeTask(s).op = "judge" /\ JudgeTask(s).sub = s
    BY DEF Tasks, JudgeTask, Op
  <2>1. /\ queue' \in Seq(Tasks) /\ Len(queue') = Len(queue) + 1 /\ Len(queue) \in Nat
        /\ \A i \in 1..Len(queue) : queue'[i] = queue[i]
        /\ queue'[Len(queue) + 1] = JudgeTask(s)
        /\ \A i \in 1..Len(queue') : i \in 1..Len(queue) \/ i = Len(queue) + 1
    BY <1>3, <2>0 DEF SubmitEnqueue, TypeOK
  <2>2. TypeOK'
    BY <1>3, <2>1 DEF SubmitEnqueue, TypeOK, tables, books
  <2>3. MessagesTruthful'
    BY <1>3, <2>0, OthersTruthful, AppendTruthful
       DEF SubmitEnqueue, MessagesTruthful, AllTruthful, TypeOK
  <2>4. OneJudgeTask'
    <3>1. /\ \A i \in 1..Len(queue) : ~SameJudge(queue[i], JudgeTask(s))
          /\ \A w \in Workers : ~SameJudge(running[w], JudgeTask(s))
      BY <1>3, <2>0 DEF SubmitEnqueue, NotYetJudged, Requested, SameJudge
    <3> QED BY <1>3, <2>1, <3>1 DEF SubmitEnqueue, OneJudgeTask, SameJudge
  <2>5. NotYetJudged'
    BY <1>3, <2>0, <2>1 DEF SubmitEnqueue, NotYetJudged, Requested, TypeOK
  <2>6. FoundByRun' /\ RowsTruthful'
    BY <1>3 DEF SubmitEnqueue, FoundByRun, RowsTruthful, tables
  <2> QED BY <2>2, <2>3, <2>4, <2>5, <2>6
<1> QED BY <1>1, <1>2, <1>3 DEF HttpStep
(* A task that ends leaves its worker without one.                         *)
LEMMA EndTaskKeeps ==
    ASSUME TypeOK, OneJudgeTask, NEW w \in Workers, EndTask(w)
    PROVE  /\ running' \in [Workers -> Tasks \cup {NoTask}]
           /\ running'[w] = NoTask /\ NoTask.op = "none"
           /\ \A v \in Workers : v # w => running'[v] = running[v]
           /\ \A v \in Workers, i \in 1..Len(queue) : ~SameJudge(running'[v], queue[i])
           /\ \A u, v \in Workers : SameJudge(running'[u], running'[v]) => u = v
<1>1. /\ running' \in [Workers -> Tasks \cup {NoTask}]
      /\ running'[w] = NoTask /\ NoTask.op = "none"
      /\ \A v \in Workers : v # w => running'[v] = running[v]
  BY DEF EndTask, TypeOK, NoTask, Op
<1> QED BY <1>1 DEF OneJudgeTask, SameJudge

(* A worker takes a task. *)
LEMMA StartFlowInv ==
    ASSUME FlowInv, NEW w \in Workers, Start(w)
    PROVE  FlowInv'
<1>. USE DEF FlowInv
<1>1. /\ queue # <<>> /\ queue' = Tail(queue) /\ running' = [running EXCEPT ![w] = Head(queue)]
      /\ running[w] = NoTask /\ NoTask.op = "none"
      /\ UNCHANGED <<http, outbox, socket, tables, judged>>
  BY DEF Start, NoTask, Op
<1>2. /\ Head(queue) = queue[1] /\ 1 \in 1..Len(queue) /\ Head(queue) \in Tasks
      /\ Tail(queue) \in Seq(Tasks)
      /\ \A i \in 1..Len(Tail(queue)) : i + 1 \in 1..Len(queue) /\ Tail(queue)[i] = queue[i + 1]
  BY <1>1 DEF TypeOK
<1>3. /\ running' \in [Workers -> Tasks \cup {NoTask}]
      /\ running'[w] = queue[1]
      /\ \A v \in Workers : v # w => running'[v] = running[v]
  BY <1>1, <1>2 DEF TypeOK
<1>4. outbox[w] = <<>>
  BY <1>1 DEF TypeOK
<1>5. TypeOK'
  <2>1. \A v \in Workers : outbox'[v] # <<>> => running'[v].op = "judge"
    BY <1>1, <1>3, <1>4 DEF TypeOK
  <2> QED BY <1>1, <1>2, <1>3, <2>1 DEF Start, TypeOK, tables, books
<1>6. MessagesTruthful'
  <2>1. AllTruthful(queue', judged) /\ Truthful(running'[w], judged)
    BY <1>1, <1>2, <1>3, TakeTruthful DEF MessagesTruthful, TypeOK
  <2> QED BY <1>1, <1>3, <2>1 DEF MessagesTruthful
<1>7. OneJudgeTask'
  <2>1. \A i, j \in 1..Len(queue') : SameJudge(queue'[i], queue'[j]) => i = j
    BY <1>1, <1>2 DEF OneJudgeTask
  <2>2. \A i \in 1..Len(queue') : ~SameJudge(queue[1], queue'[i])
    BY <1>1, <1>2 DEF OneJudgeTask
  <2>3. \A v \in Workers : v # w => ~SameJudge(running[v], queue[1]) /\ ~SameJudge(queue[1], running[v])
    BY <1>2 DEF OneJudgeTask, SameJudge
  <2> QED BY <1>1, <1>2, <1>3, <2>1, <2>2, <2>3 DEF OneJudgeTask
<1>8. NotYetJudged'
  BY <1>1, <1>2, <1>3 DEF NotYetJudged, Requested
<1>9. FoundByRun' /\ RowsTruthful'
  BY <1>1 DEF FoundByRun, RowsTruthful, tables
<1> QED BY <1>5, <1>6, <1>7, <1>8, <1>9

(* A judge task has its results: nothing was found before, so that the     *)
(* messages there are say nothing about this submission.                   *)
LEMMA JudgeFlowInv ==
    ASSUME FlowInv, NEW w \in Workers, Judge(w)
    PROVE  FlowInv'
<1>. USE DEF FlowInv
<1>. DEFINE s == running[w].sub
<1>1. /\ running[w].op = "judge" /\ outbox[w] = <<>> /\ s \in Subs
      /\ ~judged[s].done /\ Requested(s)
      /\ UNCHANGED <<http, queue, running, socket, tables>>
  BY TaskFacts DEF Judge, TypeOK, NotYetJudged
<1>2. PICK n \in 0..MaxTests, compiled \in BOOLEAN :
         \E rs \in Runs(n, Outcomes(Execs, compiled)) :
            /\ judged' = [judged EXCEPT ![s] = Found(n, rs)]
            /\ outbox' = [outbox EXCEPT ![w] = Report(s, rs)]
  BY DEF Judge
<1>3. PICK rs \in Runs(n, Outcomes(Execs, compiled)) :
            /\ judged' = [judged EXCEPT ![s] = Found(n, rs)]
            /\ outbox' = [outbox EXCEPT ![w] = Report(s, rs)]
  BY <1>2
<1>4. /\ rs \in Runs(n, TestStatuses) /\ rs \in Seq(TestStatuses) /\ n \in Nat
  <2>1. Outcomes(Execs, compiled) \subseteq TestStatuses
    BY NamesAssumption, OutcomesAreStatuses
  <2>2. n \in Nat
    BY BoundsAssumption
  <2>3. rs \in Runs(n, TestStatuses)
    <3>1. PICK k \in 0..n : rs \in [1..k -> Outcomes(Execs, compiled)]
      BY DEF Runs
    <3>2. rs \in [1..k -> TestStatuses]
      BY <2>1, <3>1
    <3> QED BY <3>2 DEF Runs
  <2> QED BY <2>2, <2>3, RunIsSequence
<1>. HIDE DEF s
<1>5. /\ judged'[s] = Found(n, rs)
      /\ \A t \in Subs : t # s => judged'[t] = judged[t]
      /\ judged' \in [Subs -> [done : BOOLEAN, tests : 0..MaxTests, results : Seq(TestStatuses)]]
  BY <1>1, <1>3, <1>4 DEF TypeOK, Found
<1>6. /\ Report(s, rs) \in Seq(Messages) /\ Report(s, rs) # <<>>
      /\ AllTruthful(Report(s, rs), judged')
  BY <1>1, <1>4, <1>5, ReportTruthful
<1>7. /\ outbox'[w] = Report(s, rs)
      /\ \A v \in Workers : v # w => outbox'[v] = outbox[v]
      /\ outbox' \in [Workers -> Seq(Messages)]
  BY <1>3, <1>6 DEF TypeOK
<1>8. TypeOK'
  BY <1>1, <1>5, <1>7 DEF Judge, TypeOK, tables, books
<1>9. \A m \in Tasks \cup {NoTask} : Truthful(m, judged) => Truthful(m, judged')
  BY <1>1, <1>3, TruthfulKept DEF TypeOK
<1>10. MessagesTruthful'
  <2>1. \A m \in Messages : m \in Tasks
    BY DEF Tasks
  <2>2. AllTruthful(queue', judged') /\ AllTruthful(socket', judged')
    BY <1>1, <1>9, <2>1 DEF MessagesTruthful, AllTruthful, TypeOK
  <2>3. \A v \in Workers : Truthful(running'[v], judged')
    BY <1>1, <1>9 DEF MessagesTruthful, TypeOK
  <2>4. ASSUME NEW v \in Workers PROVE AllTruthful(outbox'[v], judged')
    <3>1. CASE v = w
      BY <1>6, <1>7, <3>1
    <3>2. CASE v # w
      <4>1. outbox'[v] = outbox[v] /\ outbox[v] \in Seq(Messages) /\ AllTruthful(outbox[v], judged)
        BY <1>7, <3>2 DEF MessagesTruthful, TypeOK
      <4>2. \A i \in 1..Len(outbox[v]) : outbox[v][i] \in Tasks
        BY <2>1, <4>1
      <4> QED BY <1>9, <4>1, <4>2 DEF AllTruthful
    <3> QED BY <3>1, <3>2
  <2> QED BY <2>2, <2>3, <2>4 DEF MessagesTruthful
<1>11. OneJudgeTask'
  BY <1>1 DEF OneJudgeTask
<1>12. NotYetJudged'
  <2>1. \A i \in 1..Len(queue) : queue[i].op = "judge" => queue[i].sub \in Subs /\ queue[i].sub # s
    BY <1>1, TaskFacts DEF OneJudgeTask, SameJudge, TypeOK, s
  <2>2. \A v \in Workers : v # w /\ running[v].op = "judge"
                              => running[v].sub \in Subs /\ running[v].sub # s
    BY <1>1, TaskFacts DEF OneJudgeTask, SameJudge, TypeOK, s
  <2> QED BY <1>1, <1>5, <1>6, <1>7, <2>1, <2>2 DEF NotYetJudged, Requested
<1>13. FoundByRun'
  BY <1>4, <1>5 DEF FoundByRun, Found
<1>14. RowsTruthful'
  BY <1>1, <1>5 DEF RowsTruthful, tables
<1> QED BY <1>8, <1>10, <1>11, <1>12, <1>13, <1>14
(* A judge task fails, or its next message does.                           *)
LEMMA JudgeFailsFlowInv ==
    ASSUME FlowInv, NEW w \in Workers, JudgeFails(w) \/ JudgePublishFails(w)
    PROVE  FlowInv'
<1>. USE DEF FlowInv
<1>1. /\ UNCHANGED <<http, queue, socket, tables, judged>>
      /\ EndTask(w)
      /\ outbox' = [outbox EXCEPT ![w] = <<>>]
  BY DEF JudgeFails, JudgePublishFails, TypeOK
<1>2. /\ running' \in [Workers -> Tasks \cup {NoTask}]
      /\ running'[w] = NoTask /\ NoTask.op = "none"
      /\ \A v \in Workers : v # w => running'[v] = running[v]
      /\ OneJudgeTask'
  BY <1>1, EndTaskKeeps DEF OneJudgeTask
<1>3. /\ outbox' \in [Workers -> Seq(Messages)]
      /\ outbox'[w] = <<>> /\ \A v \in Workers : v # w => outbox'[v] = outbox[v]
  BY <1>1 DEF TypeOK
<1>4. TypeOK'
  BY <1>1, <1>2, <1>3, BoundsAssumption DEF JudgeFails, JudgePublishFails, Fault, TypeOK, tables
<1>5. MessagesTruthful'
  <2>1. AllTruthful(<<>>, judged)
    BY DEF AllTruthful
  <2> QED BY <1>1, <1>2, <1>3, <2>1, OthersTruthful DEF MessagesTruthful
<1>6. NotYetJudged'
  BY <1>1, <1>2, <1>3 DEF NotYetJudged, Requested
<1>7. FoundByRun' /\ RowsTruthful'
  BY <1>1 DEF FoundByRun, RowsTruthful, tables
<1> QED BY <1>2, <1>4, <1>5, <1>6, <1>7

(* A judge task publishes a message. *)
LEMMA JudgePublishFlowInv ==
    ASSUME FlowInv, NEW w \in Workers, JudgePublish(w)
    PROVE  FlowInv'
<1>. USE DEF FlowInv
<1>1. /\ outbox[w] # <<>> /\ Publish(Head(outbox[w])) /\ outbox[w] \in Seq(Messages)
      /\ outbox' = [outbox EXCEPT ![w] = Tail(outbox[w])]
      /\ UNCHANGED <<http, queue, link, callback, loop, tables, judged, applied, faults>>
  BY DEF JudgePublish, TypeOK
<1>2. /\ Head(outbox[w]) \in Messages /\ Tail(outbox[w]) \in Seq(Messages)
      /\ Truthful(Head(outbox[w]), judged) /\ AllTruthful(Tail(outbox[w]), judged)
      /\ Len(outbox[w]) # 1 => Tail(outbox[w]) # <<>>
      /\ Len(outbox[w]) = 1 => Tail(outbox[w]) = <<>>
  <2>1. /\ Head(outbox[w]) \in Messages /\ Tail(outbox[w]) \in Seq(Messages)
        /\ Len(Tail(outbox[w])) = Len(outbox[w]) - 1 /\ Len(outbox[w]) \in Nat
    BY <1>1
  <2>2. AllTruthful(outbox[w], judged)
    BY DEF MessagesTruthful
  <2>3. Truthful(Head(outbox[w]), judged) /\ AllTruthful(Tail(outbox[w]), judged)
    BY <1>1, <2>2, TakeTruthful
  <2>4. Tail(outbox[w]) = <<>> <=> Len(Tail(outbox[w])) = 0
    BY <2>1, EmptySeq
  <2>5. /\ Len(outbox[w]) # 1 => Tail(outbox[w]) # <<>>
        /\ Len(outbox[w]) = 1 => Tail(outbox[w]) = <<>>
    BY <2>1, <2>4
  <2> QED BY <2>1, <2>3, <2>5
<1>3. /\ outbox' \in [Workers -> Seq(Messages)]
      /\ outbox'[w] = Tail(outbox[w]) /\ \A v \in Workers : v # w => outbox'[v] = outbox[v]
  BY <1>1, <1>2 DEF TypeOK
<1>4. /\ socket' \in Seq(Messages) /\ AllTruthful(socket', judged)
      /\ published' \subseteq Messages /\ lost' \subseteq Messages
  BY <1>1, <1>2, PublishTruthful
<1>5. /\ running' \in [Workers -> Tasks \cup {NoTask}]
      /\ \A v \in Workers : v # w => running'[v] = running[v]
      /\ OneJudgeTask'
      /\ \/ Len(outbox[w]) = 1 /\ running'[w] = NoTask /\ NoTask.op = "none"
         \/ Len(outbox[w]) # 1 /\ running'[w] = running[w]
  <2>1. CASE Len(outbox[w]) = 1
    BY <1>1, <2>1, EndTaskKeeps DEF JudgePublish, OneJudgeTask
  <2>2. CASE Len(outbox[w]) # 1
    BY <1>1, <2>2 DEF JudgePublish, OneJudgeTask, TypeOK
  <2> QED BY <2>1, <2>2
<1>6. TypeOK'
  BY <1>1, <1>2, <1>3, <1>4, <1>5 DEF TypeOK, tables
<1>7. MessagesTruthful'
  <2>1. \A v \in Workers : Truthful(running'[v], judged')
    BY <1>1, <1>5, OthersTruthful DEF MessagesTruthful
  <2>2. \A v \in Workers : AllTruthful(outbox'[v], judged')
    BY <1>1, <1>2, <1>3 DEF MessagesTruthful
  <2> QED BY <1>1, <1>4, <2>1, <2>2 DEF MessagesTruthful
<1>8. NotYetJudged'
  <2>1. running[w].op = "judge"
    BY <1>1 DEF TypeOK
  <2> QED BY <1>1, <1>2, <1>3, <1>5, <2>1 DEF NotYetJudged, Requested
<1>9. FoundByRun' /\ RowsTruthful'
  BY <1>1 DEF FoundByRun, RowsTruthful, tables
<1> QED BY <1>5, <1>6, <1>7, <1>8, <1>9

(* A statement is executed, or fails. *)
LEMMA ExecuteFlowInv ==
    ASSUME FlowInv, NEW w \in Workers, Execute(w) \/ ExecuteFails(w)
    PROVE  FlowInv'
<1>. USE DEF FlowInv
<1>. DEFINE m == running[w]
<1>1. /\ UNCHANGED <<http, queue, outbox, socket, link, callback, loop, judged, published>>
      /\ EndTask(w) /\ m.op \in DbOps
  BY DEF Execute, ExecuteFails
<1>2. /\ m \in Messages /\ m.sub \in Subs /\ Truthful(m, judged)
      /\ outbox[w] = <<>>
  BY <1>1, TaskFacts DEF TypeOK, MessagesTruthful, DbOps
<1>3. /\ running' \in [Workers -> Tasks \cup {NoTask}]
      /\ running'[w] = NoTask /\ NoTask.op = "none"
      /\ \A v \in Workers : v # w => running'[v] = running[v]
      /\ OneJudgeTask'
  BY <1>1, EndTaskKeeps DEF OneJudgeTask
<1>4. /\ applied' \subseteq Messages /\ lost' \subseteq Messages
      /\ faults' \in 0..MaxFaults
  BY <1>2, BoundsAssumption DEF Execute, ExecuteFails, Fault, TypeOK
<1>5. Effect(m) \/ UNCHANGED tables
  BY DEF Execute, ExecuteFails
<1>6. /\ row' \in [Subs -> Statuses]
      /\ \A s \in Subs : row'[s] = row[s] \/ (s = m.sub /\ row'[s] = m.status /\ m.op # "result")
  <2>1. m.op # "result" => m.status \in Statuses
    BY <1>1, <1>2 DEF Truthful, DbOps, Statuses
  <2>2. CASE Effect(m)
    BY <1>2, <2>1, <2>2 DEF Effect, TypeOK
  <2>3. CASE UNCHANGED tables
    BY <2>3 DEF tables, TypeOK
  <2> QED BY <1>5, <2>2, <2>3
<1>7. results' \in [Subs -> [1..MaxTests -> Seq(TestStatuses)]]
  <2>1. CASE Effect(m) /\ m.op = "result"
    <3>1. m.seq \in 1..MaxTests /\ m.status \in TestStatuses
      BY <1>2, <2>1 DEF Truthful
    <3>2. results[m.sub][m.seq] \in Seq(TestStatuses)
      BY <1>2, <3>1 DEF TypeOK
    <3>3. Append(results[m.sub][m.seq], m.status) \in Seq(TestStatuses)
      BY <3>1, <3>2
    <3>4. results' = [results EXCEPT ![m.sub][m.seq] = Append(results[m.sub][m.seq], m.status)]
      BY <2>1 DEF Effect
    <3> QED BY <1>2, <3>1, <3>3, <3>4 DEF TypeOK
  <2>2. CASE UNCHANGED results
    BY <2>2 DEF TypeOK
  <2> QED BY <1>5, <2>1, <2>2 DEF Effect, tables
<1>8. TypeOK'
  BY <1>1, <1>2, <1>3, <1>4, <1>6, <1>7 DEF TypeOK
<1>9. MessagesTruthful'
  BY <1>1, <1>3, OthersTruthful DEF MessagesTruthful
<1>10. NotYetJudged'
  BY <1>1, <1>3 DEF NotYetJudged, Requested
<1>11. RowsTruthful'
  <2>1. "PENDING" \notin OverallStatuses
    BY DEF OverallStatuses, TestStatuses, ExecStatuses
  <2>2. m.op \in {"insert", "update", "result"}
    BY <1>1 DEF DbOps
  <2> QED BY <1>1, <1>2, <1>6, <2>1, <2>2 DEF RowsTruthful, Truthful
<1>12. FoundByRun'
  BY <1>1 DEF FoundByRun
<1> QED BY <1>3, <1>8, <1>9, <1>10, <1>11, <1>12

(* The subscriber loop consumes, ends, sleeps or subscribes again.         *)
LEMMA LoopFlowInv ==
    ASSUME FlowInv, NEW w \in Workers, LoopStep(w) \/ ResubscribeFails(w)
    PROVE  FlowInv'
<1>. USE DEF FlowInv
<1>1. CASE Consume(w)
  <2>1. /\ socket # <<>> /\ socket' = Tail(socket)
        /\ \/ queue' = Append(queue, Head(socket)) /\ UNCHANGED lost
           \/ lost' = lost \cup {Head(socket)} /\ UNCHANGED queue
        /\ UNCHANGED <<http, running, outbox, link, callback, loop, tables, judged,
                       published, applied, faults>>
    BY <1>1 DEF Consume
  <2>2. /\ Head(socket) \in Messages /\ Head(socket) \in Tasks /\ Tail(socket) \in Seq(Messages)
        /\ Head(socket).op # "judge"
    <3>1. Head(socket) \in Messages /\ Tail(socket) \in Seq(Messages)
      BY <2>1 DEF TypeOK
    <3>2. Head(socket) \in Tasks
      BY <3>1 DEF Tasks
    <3>3. Head(socket).op # "judge"
      BY <3>1, <3>2, TaskFacts DEF DbOps
    <3> QED BY <3>1, <3>2, <3>3
  <2>3. Truthful(Head(socket), judged) /\ AllTruthful(Tail(socket), judged)
    BY <2>1, TakeTruthful DEF MessagesTruthful, TypeOK
  <2>4. /\ queue' \in Seq(Tasks) /\ AllTruthful(queue', judged)
        /\ \A i \in 1..Len(queue') : \/ i \in 1..Len(queue) /\ queue'[i] = queue[i]
                                     \/ queue'[i] = Head(socket)
    <3>1. CASE queue' = Append(queue, Head(socket))
      <4>1. queue \in Seq(Tasks) /\ AllTruthful(queue, judged)
        BY DEF TypeOK, MessagesTruthful
      <4>2. AllTruthful(queue', judged)
        BY <2>2, <2>3, <3>1, <4>1, AppendTruthful
      <4> QED BY <2>2, <3>1, <4>1, <4>2
    <3>2. CASE UNCHANGED queue
      BY <3>2 DEF TypeOK, MessagesTruthful
    <3> QED BY <2>1, <3>1, <3>2
  <2>5. TypeOK'
    BY <2>1, <2>2, <2>4 DEF TypeOK, tables
  <2>6. MessagesTruthful'
    BY <2>1, <2>3, <2>4 DEF MessagesTruthful
  <2>7. OneJudgeTask' /\ NotYetJudged'
    BY <2>1, <2>2, <2>4 DEF OneJudgeTask, NotYetJudged, SameJudge, Requested
  <2>8. FoundByRun' /\ RowsTruthful'
    BY <2>1 DEF FoundByRun, RowsTruthful, tables
  <2> QED BY <2>5, <2>6, <2>7, <2>8
<1>2. CASE ConsumeClosed(w) \/ Resubscribe(w)
  <2>1. UNCHANGED <<http, queue, running, outbox, socket, tables, judged>>
    BY <1>2 DEF ConsumeClosed, Resubscribe
  <2>2. TypeOK'
    BY <1>2, <2>1 DEF ConsumeClosed, Resubscribe, TypeOK, tables, books
  <2> QED BY <2>1, <2>2 DEF MessagesTruthful, AllTruthful, OneJudgeTask, NotYetJudged,
                            Requested, FoundByRun, RowsTruthful, tables
<1>3. CASE ConsumeError(w) \/ ResubscribeFails(w)
  <2>1. /\ UNCHANGED <<http, queue, outbox, socket, tables, judged>>
        /\ EndTask(w) /\ running[w].op = "loop"
    BY <1>3 DEF ConsumeError, ResubscribeFails, LoopOn, LoopTask, Op
  <2>2. /\ running' \in [Workers -> Tasks \cup {NoTask}]
        /\ running'[w] = NoTask /\ NoTask.op = "none"
        /\ \A v \in Workers : v # w => running'[v] = running[v]
        /\ OneJudgeTask'
    BY <2>1, EndTaskKeeps DEF OneJudgeTask
  <2>3. TypeOK'
    <3>1. /\ UNCHANGED <<link, callback, published, applied, lost>>
          /\ loop' = "ended" /\ faults' \in 0..MaxFaults
      BY <1>3, BoundsAssumption DEF ConsumeError, ResubscribeFails, Fault, TypeOK, books
    <3> QED BY <2>1, <2>2, <3>1 DEF TypeOK, tables
  <2>4. MessagesTruthful'
    BY <2>1, <2>2, OthersTruthful DEF MessagesTruthful
  <2>5. NotYetJudged'
    BY <2>1, <2>2 DEF NotYetJudged, Requested
  <2>6. FoundByRun' /\ RowsTruthful'
    BY <2>1 DEF FoundByRun, RowsTruthful, tables
  <2> QED BY <2>2, <2>3, <2>4, <2>5, <2>6
<1> QED BY <1>1, <1>2, <1>3 DEF LoopStep

(* Redis drops the subscriber, or the server crashes.                      *)
LEMMA OutageFlowInv ==
    ASSUME FlowInv, LinkCloses \/ LinkResets \/ CrashRestart
    PROVE  FlowInv'
<1>. USE DEF FlowInv
<1>0. /\ <<>> \in Seq(Messages) /\ AllTruthful(<<>>, judged)
      /\ \A i \in 1..Len(socket) : socket[i] \in Messages
  BY DEF AllTruthful, TypeOK
<1>1. CASE LinkCloses
  <2>1. TypeOK'
    BY <1>1, BoundsAssumption DEF LinkCloses, Fault, TypeOK, tables
  <2> QED BY <1>1, <2>1 DEF LinkCloses, MessagesTruthful, AllTruthful, OneJudgeTask,
                            NotYetJudged, Requested, FoundByRun, RowsTruthful, tables
<1>2. CASE LinkResets
  <2>1. lost' \subseteq Messages
    BY <1>0, <1>2 DEF LinkResets, Elements, TypeOK
  <2>2. TypeOK'
    BY <1>0, <1>2, <2>1, BoundsAssumption DEF LinkResets, Fault, TypeOK, tables
  <2>3. MessagesTruthful'
    BY <1>0, <1>2 DEF LinkResets, MessagesTruthful
  <2> QED BY <1>2, <2>2, <2>3 DEF LinkResets, OneJudgeTask, NotYetJudged, Requested,
                                  FoundByRun, RowsTruthful, tables
<1>3. CASE CrashRestart
  <2>1. /\ queue' = <<LoopTask>> /\ LoopTask \in Tasks /\ queue' \in Seq(Tasks)
        /\ Len(queue') = 1 /\ queue'[1] = LoopTask /\ LoopTask.op = "loop"
        /\ NoTask.op = "none"
        /\ \A w \in Workers : running'[w] = NoTask /\ outbox'[w] = <<>>
        /\ running' \in [Workers -> Tasks \cup {NoTask}]
        /\ outbox' \in [Workers -> Seq(Messages)]
        /\ socket' = <<>>
        /\ UNCHANGED <<tables, judged, published, applied>>
    BY <1>0, <1>3 DEF CrashRestart, Tasks, LoopTask, NoTask, Op
  <2>2. lost' \subseteq Messages
    <3>1. InFlight \subseteq Messages
      BY <1>0, TaskFacts DEF InFlight, Elements, TypeOK
    <3> QED BY <1>3, <3>1 DEF CrashRestart, TypeOK
  <2>3. /\ http' \in [Subs -> {"none", "enqueueing", "accepted", "failed"}]
        /\ \A s \in Subs : ~Requested(s)' => ~Requested(s)
    BY <1>3 DEF CrashRestart, TypeOK, Requested
  <2>4. TypeOK'
    BY <1>0, <1>3, <2>1, <2>2, <2>3, BoundsAssumption DEF CrashRestart, Fault, TypeOK, tables
  <2>5. MessagesTruthful'
    <3>1. AllTruthful(queue', judged')
      BY <2>1, OthersTruthful DEF AllTruthful
    <3> QED BY <1>0, <2>1, <3>1, OthersTruthful DEF MessagesTruthful
  <2>6. OneJudgeTask'
    BY <2>1 DEF OneJudgeTask, SameJudge
  <2>7. NotYetJudged'
    BY <2>1, <2>3 DEF NotYetJudged
  <2>8. FoundByRun' /\ RowsTruthful'
    BY <2>1 DEF FoundByRun, RowsTruthful, tables
  <2> QED BY <2>4, <2>5, <2>6, <2>7, <2>8
<1> QED BY <1>1, <1>2, <1>3

(* Every step keeps the invariant. *)
LEMMA NextFlowInv == FlowInv /\ [Next]_vars => FlowInv'
<1> SUFFICES ASSUME FlowInv, [Next]_vars PROVE FlowInv'
  OBVIOUS
<1>1. ASSUME NEW s \in Subs, HttpStep(s) \/ SubmitFails(s) PROVE FlowInv'
  BY <1>1, HttpFlowInv
<1>2. ASSUME NEW w \in Workers, WorkerStep(w) PROVE FlowInv'
  BY <1>2, StartFlowInv, JudgeFlowInv, JudgePublishFlowInv, ExecuteFlowInv, LoopFlowInv
     DEF WorkerStep
<1>3. ASSUME NEW w \in Workers,
             JudgeFails(w) \/ JudgePublishFails(w) \/ ExecuteFails(w) \/ ResubscribeFails(w)
      PROVE  FlowInv'
  BY <1>3, JudgeFailsFlowInv, ExecuteFlowInv, LoopFlowInv
<1>4. CASE LinkCloses \/ LinkResets \/ CrashRestart
  BY <1>4, OutageFlowInv
<1>5. CASE Quiet \/ UNCHANGED vars
  <2>1. UNCHANGED <<http, queue, running, outbox, socket, link, callback, loop, row, results,
                    judged, published, applied, lost, faults>>
    BY <1>5 DEF Quiet, vars, memory, tables, books
  <2>2. TypeOK'
    BY <2>1 DEF FlowInv, TypeOK
  <2> QED BY <2>1, <2>2 DEF FlowInv, MessagesTruthful, AllTruthful, OneJudgeTask,
                            NotYetJudged, Requested, FoundByRun, RowsTruthful
<1> QED BY <1>1, <1>2, <1>3, <1>4, <1>5 DEF Next, FaultStep

(* The invariant holds in every behaviour. *)
LEMMA FlowInvariant == Spec => []FlowInv
<1> QED BY InitFlowInv, NextFlowInv, PTL DEF Spec

(* Types, for any number of workers, submissions, tests and faults.        *)
THEOREM TypeCorrect == Spec => []TypeOK
<1>1. FlowInv => TypeOK
  BY DEF FlowInv
<1> QED BY <1>1, FlowInvariant, PTL

(* What submissions.overall_status says is what happened when the tests    *)
(* ran: the row has the fold of the results, and these come from a run.    *)
THEOREM VerdictsAreTrue == Spec => []StoredStatusIsJudged
<1>1. ASSUME FlowInv PROVE StoredStatusIsJudged
  <2> SUFFICES ASSUME NEW s \in Subs, row[s] \in OverallStatuses
               PROVE  /\ judged[s].done
                      /\ row[s] = "ACCEPT" =>
                            /\ judged[s].tests > 0
                            /\ Len(judged[s].results) = judged[s].tests
                            /\ \A i \in 1..Len(judged[s].results) :
                                  judged[s].results[i] = "ACCEPTED"
                      /\ row[s] = "COMPILATION_ERROR" => judged[s].tests = 0
                      /\ row[s] \in TestStatuses =>
                            /\ judged[s].results # <<>>
                            /\ judged[s].results[Len(judged[s].results)] = row[s]
    <3>1. \A s \in Subs : row[s] \in TestStatuses => row[s] \in OverallStatuses
      BY <1>1 DEF FlowInv, TypeOK, Statuses, OverallStatuses, TestStatuses, ExecStatuses
    <3> QED BY <3>1 DEF StoredStatusIsJudged, OverallStatuses
  <2>1. judged[s].done /\ row[s] = SetStatus(judged[s].results)
    BY <1>1 DEF FlowInv, RowsTruthful
  <2>2. judged[s].tests \in Nat /\ judged[s].results \in Runs(judged[s].tests, TestStatuses)
    BY <1>1, <2>1, BoundsAssumption DEF FlowInv, TypeOK, FoundByRun
  <2> QED BY <2>1, <2>2, AcceptMeansAll
<1> QED BY <1>1, FlowInvariant, PTL

-----------------------------------------------------------------------------
(* Where a message is.                                                     *)

(* EachMessageOnce, with queue and socket looked at one by one.            *)
Accounted ==
    /\ published = InFlight \cup applied \cup lost
    /\ InFlight \cap (applied \cup lost) = {}
    /\ applied \cap lost = {}

Apart ==
    /\ NoDuplicates(queue) /\ NoDuplicates(socket)
    /\ Elements(queue) \cap Elements(socket) = {}
    /\ \A w \in Workers : running[w] \notin Elements(queue) \cup Elements(socket)
    /\ \A v, w \in Workers : running[v] = running[w] /\ running[v] # NoTask => v = w

(* What is still to be published was not published before: the INSERT of a *)
(* submission before its request comes, what a judge task reports before   *)
(* it does.                                                                *)
Unpublished ==
    /\ \A s \in Subs : http[s] = "none" => InsertOp(s) \notin published
    /\ \A m \in published : m.op # "insert" => judged[m.sub].done
    /\ \A w \in Workers :
          /\ NoDuplicates(outbox[w])
          /\ \A m \in Elements(outbox[w]) :
                /\ m \notin published /\ m.op # "insert"
                /\ m.sub = running[w].sub /\ judged[m.sub].done

OnceInv == Accounted /\ Apart /\ Unpublished

(* Queues without duplicates. *)
LEMMA AppendOnce ==
    ASSUME NEW T, NEW q \in Seq(T), NEW m \in T
    PROVE  /\ Elements(Append(q, m)) = Elements(q) \cup {m}
           /\ NoDuplicates(q) /\ m \notin Elements(q) => NoDuplicates(Append(q, m))
<1>1. /\ Len(Append(q, m)) = Len(q) + 1 /\ Len(q) \in Nat
      /\ \A i \in 1..Len(q) : Append(q, m)[i] = q[i]
      /\ Append(q, m)[Len(q) + 1] = m
  OBVIOUS
<1>2. 1..Len(q) + 1 = (1..Len(q)) \cup {Len(q) + 1}
  BY <1>1
<1>. QED BY <1>1, <1>2 DEF Elements, NoDuplicates

LEMMA TakeOnce ==
    ASSUME NEW T, NEW q \in Seq(T), q # <<>>
    PROVE  /\ Head(q) \in Elements(q) /\ Head(q) \in T /\ Tail(q) \in Seq(T)
           /\ Elements(Tail(q)) \subseteq Elements(q)
           /\ NoDuplicates(q) => /\ NoDuplicates(Tail(q))
                                 /\ Elements(Tail(q)) = Elements(q) \ {Head(q)}
<1>1. /\ Len(q) \in Nat /\ 1 \in 1..Len(q) /\ Head(q) = q[1] /\ Head(q) \in T
      /\ Tail(q) \in Seq(T) /\ Len(Tail(q)) = Len(q) - 1
      /\ \A i \in 1..Len(Tail(q)) : i + 1 \in 1..Len(q) /\ Tail(q)[i] = q[i + 1]
  OBVIOUS
<1>2. \A i \in 1..Len(q) : i = 1 \/ (i - 1 \in 1..Len(Tail(q)) /\ Tail(q)[i - 1] = q[i])
  BY <1>1
<1>. QED BY <1>1, <1>2 DEF Elements, NoDuplicates

LEMMA EmptyOnce == Elements(<<>>) = {} /\ NoDuplicates(<<>>)
BY DEF Elements, NoDuplicates

LEMMA ConcatOnce ==
    ASSUME NEW T, NEW q \in Seq(T), NEW r \in Seq(T),
           NoDuplicates(q), NoDuplicates(r), Elements(q) \cap Elements(r) = {}
    PROVE  NoDuplicates(q \o r)
<1>1. /\ Len(q \o r) = Len(q) + Len(r) /\ Len(q) \in Nat /\ Len(r) \in Nat
      /\ \A i \in 1..Len(q) : (q \o r)[i] = q[i]
      /\ \A i \in 1..Len(q \o r) : i \in 1..Len(q)
                                   \/ (i - Len(q) \in 1..Len(r) /\ (q \o r)[i] = r[i - Len(q)])
  OBVIOUS
<1>2. \A i \in 1..Len(q), j \in 1..Len(r) : q[i] # r[j]
  BY DEF Elements
<1>. QED BY <1>1, <1>2 DEF NoDuplicates

(* What a judge task says of the results rs. *)
Says(s, rs) == {UpdateOp(s, SetStatus(rs))} \cup {ResultOp(s, i, rs[i]) : i \in 1..Len(rs)}

LEMMA ReportOnce ==
    ASSUME NEW s \in Subs, NEW n \in Nat, NEW rs \in Runs(n, TestStatuses)
    PROVE  /\ NoDuplicates(Report(s, rs))
           /\ \A m \in Elements(Report(s, rs)) : m.sub = s /\ m.op # "insert"
           /\ Elements(Report(s, rs)) \subseteq Says(s, rs)
<1>. DEFINE u == UpdateOp(s, SetStatus(rs))
            rest == [i \in 1..Len(rs) |-> ResultOp(s, i, rs[i])]
<1>1. Len(rs) \in Nat
  BY RunIsSequence
<1>2. \A i \in 1..Len(rs) : /\ rest[i].sub = s /\ rest[i].op = "result" /\ rest[i].seq = i
  BY DEF ResultOp, Op
<1>3. u.sub = s /\ u.op = "update"
  BY DEF UpdateOp, Op
<1>4. rest \in Seq({rest[i] : i \in 1..Len(rs)} \cup {u}) /\ Len(rest) = Len(rs)
      /\ <<u>> \in Seq({rest[i] : i \in 1..Len(rs)} \cup {u})
  BY <1>1
<1>5. Report(s, rs) = <<u>> \o rest
  BY DEF Report
<1>. HIDE DEF u, rest
<1>6. NoDuplicates(<<u>>) /\ Elements(<<u>>) = {u}
  BY DEF NoDuplicates, Elements
<1>7. NoDuplicates(rest) /\ Elements(rest) = {rest[i] : i \in 1..Len(rs)}
  BY <1>2, <1>4 DEF NoDuplicates, Elements
<1>8. NoDuplicates(<<u>> \o rest)
  <2>1. u \notin Elements(rest)
    BY <1>2, <1>3, <1>7
  <2>2. Elements(<<u>>) \cap Elements(rest) = {}
    BY <1>6, <2>1
  <2>. QED BY <1>4, <1>6, <1>7, <2>2, ConcatOnce
<1>9. \A m \in Elements(<<u>> \o rest) : m = u \/ m \in Elements(rest)
  <2>1. /\ Len(<<u>> \o rest) = 1 + Len(rest) /\ Len(rest) \in Nat
        /\ \A i \in 1..Len(<<u>> \o rest) :
              (<<u>> \o rest)[i] = u
              \/ (i - 1 \in 1..Len(rest) /\ (<<u>> \o rest)[i] = rest[i - 1])
    BY <1>1, <1>4
  <2>. QED BY <2>1 DEF Elements
<1>10. \A m \in Elements(<<u>> \o rest) : m \in Says(s, rs)
  BY <1>7, <1>9 DEF Says, u, rest
<1>. QED BY <1>2, <1>3, <1>5, <1>7, <1>8, <1>9, <1>10

(* A message of the queue, the socket or a worker is on its way.           *)
Ways == /\ \A m \in Messages : m \in InFlight <=> \/ m \in Elements(queue)
                                                  \/ m \in Elements(socket)
                                                  \/ \E w \in Workers : running[w] = m
        /\ InFlight \subseteq Messages
        /\ Elements(queue) \subseteq Tasks /\ Elements(socket) \subseteq Messages

LEMMA NoMessages ==
    /\ NoTask \notin Tasks /\ NoTask \notin Messages /\ Messages \subseteq Tasks
    /\ LoopTask \notin Messages /\ \A s \in Subs : JudgeTask(s) \notin Messages
<1>1. \A m \in Messages : m.op \in DbOps
  BY DEF Messages
<1>2. NoTask.op = "none" /\ LoopTask.op = "loop" /\ \A s \in Subs : JudgeTask(s).op = "judge"
  BY DEF NoTask, LoopTask, JudgeTask, Op
<1>. QED BY <1>1, <1>2 DEF Tasks, DbOps

LEMMA OnItsWay == TypeOK => Ways
<1>. SUFFICES ASSUME TypeOK PROVE Ways
  OBVIOUS
<1>1. Elements(queue) \subseteq Tasks /\ Elements(socket) \subseteq Messages
  BY DEF Elements, TypeOK
<1>2. \A m \in Messages : m \in Tasks /\ m.op \in DbOps
  BY DEF Tasks, Messages
<1>3. \A w \in Workers : running[w] \in Tasks \cup {NoTask}
  BY DEF TypeOK
<1>4. InFlight \subseteq Messages
  BY <1>1, <1>2, <1>3, TaskFacts DEF InFlight
<1>. QED BY <1>1, <1>2, <1>4 DEF Ways, InFlight

LEMMA OnItsWayNext == TypeOK' => Ways'
BY OnItsWay, PTL

(* Workers go on with what they run, or end a task that is no message.     *)
Eases == \A v \in Workers : \/ running'[v] = running[v]
                            \/ running'[v] = NoTask /\ running[v] \notin Messages

LEMMA EndEases ==
    ASSUME TypeOK, NEW w \in Workers, EndTask(w), running[w].op \notin DbOps
    PROVE  Eases
BY TaskFacts DEF TypeOK, EndTask, Eases

(* Nothing is published. *)
LEMMA EaseOnce ==
    ASSUME TypeOK, TypeOK', Accounted, Apart, Eases,
           UNCHANGED <<queue, socket, published, applied, lost>>
    PROVE  Accounted' /\ Apart'
<1>1. \A m \in Messages : m \in InFlight <=> m \in InFlight'
  BY OnItsWay, OnItsWayNext, NoMessages DEF Ways, Eases
<1>2. InFlight' = InFlight
  BY <1>1, OnItsWay, OnItsWayNext DEF Ways
<1>3. NoTask \notin Elements(queue) \cup Elements(socket)
  BY OnItsWay, NoMessages DEF Ways
<1>. QED BY <1>2, <1>3 DEF Accounted, Apart, Eases

(* A new message is published. *)
LEMMA PublishOnce ==
    ASSUME TypeOK, TypeOK', Accounted, Apart, Eases, NEW m \in Messages, m \notin published,
           Publish(m), UNCHANGED <<queue, applied>>
    PROVE  Accounted' /\ Apart'
<1>0. /\ m \notin InFlight /\ m \notin applied /\ m \notin lost
      /\ m \notin Elements(queue) /\ m \notin Elements(socket)
      /\ \A w \in Workers : running[w] # m
      /\ NoTask \notin Elements(queue) \cup Elements(socket) /\ NoTask # m
  BY OnItsWay, NoMessages DEF Ways, Accounted
<1>1. CASE socket' = Append(socket, m) /\ UNCHANGED lost
  <2>1. /\ Elements(socket') = Elements(socket) \cup {m} /\ NoDuplicates(socket')
    BY <1>0, <1>1, AppendOnce DEF TypeOK, Apart
  <2>2. Apart'
    BY <1>0, <2>1 DEF Apart, Eases
  <2>3. \A x \in Messages : x \in InFlight' <=> x \in InFlight \/ x = m
    BY <1>0, <2>1, OnItsWay, OnItsWayNext, NoMessages DEF Ways, Eases
  <2>4. InFlight' = InFlight \cup {m}
    BY <2>3, OnItsWay, OnItsWayNext DEF Ways
  <2>. QED BY <1>0, <1>1, <2>2, <2>4 DEF Accounted, Publish
<1>2. CASE lost' = lost \cup {m} /\ UNCHANGED socket
  <2>1. Apart'
    BY <1>0, <1>2 DEF Apart, Eases
  <2>2. \A x \in Messages : x \in InFlight' <=> x \in InFlight
    BY <1>0, <1>2, OnItsWay, OnItsWayNext, NoMessages DEF Ways, Eases
  <2>3. InFlight' = InFlight
    BY <2>2, OnItsWay, OnItsWayNext DEF Ways
  <2>. QED BY <1>0, <1>2, <2>1, <2>3 DEF Accounted, Publish
<1>. QED BY <1>1, <1>2 DEF Publish

(* The HTTP thread of a submission. *)
LEMMA HttpOnce ==
    ASSUME FlowInv, FlowInv', OnceInv, NEW s \in Subs, HttpStep(s) \/ SubmitFails(s)
    PROVE  OnceInv'
<1>0. TypeOK /\ TypeOK' /\ Accounted /\ Apart /\ Unpublished
  BY DEF FlowInv, OnceInv
<1>1. CASE SubmitPublish(s)
  <2>1. /\ InsertOp(s) \in Messages /\ InsertOp(s).op = "insert"
        /\ \A t \in Subs : InsertOp(t) = InsertOp(s) => t = s
    BY BoundsAssumption DEF InsertOp, Op, Messages, DbOps, Statuses
  <2>2. /\ http[s] = "none" /\ Publish(InsertOp(s)) /\ http' = [http EXCEPT ![s] = "enqueueing"]
        /\ published' = published \cup {InsertOp(s)}
        /\ UNCHANGED <<queue, running, outbox, judged, applied>>
    BY <1>1 DEF SubmitPublish, Publish
  <2>3. InsertOp(s) \notin published
    BY <1>0, <2>2 DEF Unpublished
  <2>4. Accounted' /\ Apart'
    BY <1>0, <2>1, <2>2, <2>3, PublishOnce DEF Eases
  <2>5. \A t \in Subs : http'[t] = "none" => http[t] = "none" /\ t # s
    BY <1>0, <2>2 DEF TypeOK
  <2>6. Unpublished'
    BY <1>0, <2>1, <2>2, <2>5 DEF Unpublished
  <2>. QED BY <2>4, <2>6 DEF OnceInv
<1>2. CASE SubmitFails(s)
  <2>1. /\ http' = [http EXCEPT ![s] = "failed"]
        /\ UNCHANGED <<queue, running, socket, outbox, judged, published, applied, lost>>
    BY <1>2 DEF SubmitFails, memory
  <2>2. Accounted' /\ Apart'
    BY <1>0, <2>1, EaseOnce DEF Eases
  <2>3. Unpublished'
    BY <1>0, <2>1 DEF Unpublished, TypeOK
  <2>. QED BY <2>2, <2>3 DEF OnceInv
<1>3. CASE SubmitEnqueue(s)
  <2>0. /\ JudgeTask(s) \in Tasks /\ JudgeTask(s) \notin Messages
        /\ JudgeTask(s).op = "judge" /\ JudgeTask(s).sub = s
    BY NoMessages DEF Tasks, JudgeTask, Op
  <2>1. /\ http[s] = "enqueueing" /\ queue' = Append(queue, JudgeTask(s))
        /\ http' = [http EXCEPT ![s] = "accepted"]
        /\ UNCHANGED <<running, socket, outbox, judged, published, applied, lost>>
    BY <1>3 DEF SubmitEnqueue, books
  <2>2. /\ JudgeTask(s) \notin Elements(queue) /\ JudgeTask(s) \notin Elements(socket)
        /\ \A w \in Workers : running[w] # JudgeTask(s)
    <3>1. JudgeTask(s) \notin Elements(queue) /\ \A w \in Workers : running[w] # JudgeTask(s)
      BY <2>0, <2>1 DEF FlowInv, NotYetJudged, Requested, Elements
    <3>2. JudgeTask(s) \notin Elements(socket)
      BY <1>0, <2>0, OnItsWay DEF Ways
    <3>. QED BY <3>1, <3>2
  <2>3. Elements(queue') = Elements(queue) \cup {JudgeTask(s)} /\ NoDuplicates(queue')
    BY <1>0, <2>0, <2>1, <2>2, AppendOnce DEF TypeOK, Apart
  <2>4. Apart'
    BY <1>0, <2>1, <2>2, <2>3 DEF Apart
  <2>5. \A x \in Messages : x \in InFlight' <=> x \in InFlight
    BY <1>0, <2>0, <2>1, <2>3, OnItsWay, OnItsWayNext DEF Ways
  <2>6. InFlight' = InFlight
    BY <1>0, <2>5, OnItsWay, OnItsWayNext DEF Ways
  <2>7. Accounted'
    BY <1>0, <2>1, <2>6 DEF Accounted
  <2>8. Unpublished'
    BY <1>0, <2>1 DEF Unpublished, TypeOK
  <2>. QED BY <2>4, <2>7, <2>8 DEF OnceInv
<1>. QED BY <1>1, <1>2, <1>3 DEF HttpStep

(* A worker takes a task from the queue. *)
LEMMA StartOnce ==
    ASSUME FlowInv, FlowInv', OnceInv, NEW w \in Workers, Start(w)
    PROVE  OnceInv'
<1>0. TypeOK /\ TypeOK' /\ Accounted /\ Apart /\ Unpublished
  BY DEF FlowInv, OnceInv
<1>1. /\ queue # <<>> /\ queue' = Tail(queue) /\ running[w] = NoTask
      /\ running' = [running EXCEPT ![w] = Head(queue)]
      /\ UNCHANGED <<http, socket, outbox, judged, published, applied, lost>>
  BY DEF Start, books
<1>2. /\ running'[w] = Head(queue) /\ \A v \in Workers : v # w => running'[v] = running[v]
      /\ Head(queue) \in Elements(queue) /\ NoDuplicates(queue')
      /\ Elements(queue') = Elements(queue) \ {Head(queue)}
  BY <1>0, <1>1, TakeOnce DEF TypeOK, Apart
<1>3. Apart'
  BY <1>0, <1>1, <1>2 DEF Apart
<1>4. \A x \in Messages : x \in InFlight' <=> x \in InFlight
  BY <1>0, <1>1, <1>2, NoMessages, OnItsWay, OnItsWayNext DEF Ways
<1>5. InFlight' = InFlight
  BY <1>0, <1>4, OnItsWay, OnItsWayNext DEF Ways
<1>6. Accounted'
  BY <1>0, <1>1, <1>5 DEF Accounted
<1>7. outbox[w] = <<>>
  <2>1. NoTask.op # "judge"
    BY DEF NoTask, Op
  <2>. QED BY <1>0, <1>1, <2>1 DEF TypeOK
<1>8. Unpublished'
  BY <1>0, <1>1, <1>2, <1>7, EmptyOnce DEF Unpublished
<1>. QED BY <1>3, <1>6, <1>8 DEF OnceInv

(* A judge task has its results. *)
LEMMA JudgeOnce ==
    ASSUME FlowInv, FlowInv', OnceInv, NEW w \in Workers, Judge(w)
    PROVE  OnceInv'
<1>0. TypeOK /\ TypeOK' /\ Accounted /\ Apart /\ Unpublished
  BY DEF FlowInv, OnceInv
<1>. DEFINE s == running[w].sub
<1>1. /\ running[w].op = "judge" /\ outbox[w] = <<>> /\ s \in Subs /\ ~judged[s].done
      /\ UNCHANGED <<http, queue, running, socket, published, applied, lost>>
  BY <1>0, TaskFacts DEF Judge, TypeOK, FlowInv, NotYetJudged, books
<1>2. PICK n \in 0..MaxTests, compiled \in BOOLEAN :
         \E rs \in Runs(n, Outcomes(Execs, compiled)) :
            /\ judged' = [judged EXCEPT ![s] = Found(n, rs)]
            /\ outbox' = [outbox EXCEPT ![w] = Report(s, rs)]
  BY DEF Judge
<1>3. PICK rs \in Runs(n, Outcomes(Execs, compiled)) :
            /\ judged' = [judged EXCEPT ![s] = Found(n, rs)]
            /\ outbox' = [outbox EXCEPT ![w] = Report(s, rs)]
  BY <1>2
<1>4. rs \in Runs(n, TestStatuses) /\ n \in Nat
  <2>1. Outcomes(Execs, compiled) \subseteq TestStatuses
    BY NamesAssumption, OutcomesAreStatuses
  <2>2. PICK k \in 0..n : rs \in [1..k -> Outcomes(Execs, compiled)]
    BY DEF Runs
  <2>3. rs \in [1..k -> TestStatuses]
    BY <2>1, <2>2
  <2>. QED BY <2>3, BoundsAssumption DEF Runs
<1>5. /\ NoDuplicates(Report(s, rs))
      /\ \A m \in Elements(Report(s, rs)) : m.sub = s /\ m.op # "insert"
  BY <1>1, <1>4, ReportOnce
<1>. DEFINE report == Report(s, rs)
<1>6. /\ outbox'[w] = report /\ \A v \in Workers : v # w => outbox'[v] = outbox[v]
      /\ judged'[s].done /\ \A t \in Subs : judged[t].done => judged'[t].done
  BY <1>0, <1>1, <1>3 DEF TypeOK, Found
<1>7. Accounted' /\ Apart'
  BY <1>0, <1>1, EaseOnce DEF Eases
<1>. HIDE DEF s, report
<1>8. \A m \in published : m.op # "insert" => m.sub # s /\ m.sub \in Subs
  BY <1>0, <1>1 DEF Unpublished, TypeOK, Messages
<1>9. ASSUME NEW v \in Workers, NEW m \in Elements(outbox'[v])
      PROVE  m \notin published /\ m.op # "insert" /\ m.sub = running[v].sub /\ judged'[m.sub].done
  <2>1. CASE v = w
    BY <1>5, <1>6, <1>8, <2>1 DEF report, s
  <2>2. CASE v # w
    <3>1. /\ m \notin published /\ m.op # "insert" /\ m.sub = running[v].sub
          /\ judged[m.sub].done
      BY <1>0, <1>6, <1>9, <2>2 DEF Unpublished
    <3>2. running[v].sub \in Subs
      <4>1. outbox[v] # <<>>
        BY <1>6, <1>9, <2>2, EmptyOnce
      <4>. QED BY <1>0, <4>1, TaskFacts DEF TypeOK
    <3>. QED BY <1>6, <3>1, <3>2
  <2>. QED BY <2>1, <2>2
<1>10. \A v \in Workers : NoDuplicates(outbox'[v])
  BY <1>0, <1>5, <1>6 DEF Unpublished, report
<1>11. Unpublished'
  <2>1. \A m \in published : m.op # "insert" => judged'[m.sub].done
    BY <1>0, <1>6, <1>8 DEF Unpublished
  <2>. QED BY <1>0, <1>1, <1>9, <1>10, <2>1 DEF Unpublished
<1>. QED BY <1>7, <1>11 DEF OnceInv

(* A judge task ends without publishing more. *)
LEMMA JudgeFailsOnce ==
    ASSUME FlowInv, FlowInv', OnceInv, NEW w \in Workers, JudgeFails(w) \/ JudgePublishFails(w)
    PROVE  OnceInv'
<1>0. TypeOK /\ TypeOK' /\ Accounted /\ Apart /\ Unpublished
  BY DEF FlowInv, OnceInv
<1>1. /\ EndTask(w) /\ UNCHANGED <<http, queue, socket, judged, published, applied, lost>>
      /\ running[w].op = "judge"
      /\ \A v \in Workers : v # w => outbox'[v] = outbox[v]
      /\ outbox'[w] = <<>>
  BY <1>0 DEF JudgeFails, JudgePublishFails, TypeOK
<1>2. Accounted' /\ Apart'
  BY <1>0, <1>1, EndEases, EaseOnce DEF DbOps
<1>3. \A v \in Workers : v # w => running'[v] = running[v]
  BY <1>0, <1>1 DEF EndTask, TypeOK
<1>4. Unpublished'
  BY <1>0, <1>1, <1>3, EmptyOnce DEF Unpublished
<1>. QED BY <1>2, <1>4 DEF OnceInv

(* A judge task publishes a message. *)
LEMMA JudgePublishOnce ==
    ASSUME FlowInv, FlowInv', OnceInv, NEW w \in Workers, JudgePublish(w)
    PROVE  OnceInv'
<1>0. TypeOK /\ TypeOK' /\ Accounted /\ Apart /\ Unpublished
  BY DEF FlowInv, OnceInv
<1>. DEFINE m == Head(outbox[w])
<1>1. /\ outbox[w] # <<>> /\ outbox[w] \in Seq(Messages) /\ Publish(m)
      /\ running[w].op = "judge"
      /\ outbox'[w] = Tail(outbox[w]) /\ \A v \in Workers : v # w => outbox'[v] = outbox[v]
      /\ UNCHANGED <<http, queue, judged, applied>>
  BY <1>0 DEF JudgePublish, TypeOK
<1>2. /\ m \in Messages /\ m \in Elements(outbox[w]) /\ NoDuplicates(Tail(outbox[w]))
      /\ Elements(Tail(outbox[w])) = Elements(outbox[w]) \ {m}
  BY <1>0, <1>1, TakeOnce DEF Unpublished
<1>3. /\ m \notin published /\ m.op # "insert" /\ m.sub = running[w].sub
      /\ judged[m.sub].done
  BY <1>0, <1>2 DEF Unpublished
<1>4. \/ running'[w] = running[w]
      \/ running'[w] = NoTask /\ outbox'[w] = <<>>
  <2>1. CASE Len(outbox[w]) = 1
    <3>1. running'[w] = NoTask
      BY <1>0, <2>1 DEF JudgePublish, EndTask, TypeOK
    <3>2. Len(Tail(outbox[w])) = 0 /\ Tail(outbox[w]) \in Seq(Messages)
      BY <1>1, <2>1
    <3>. QED BY <1>1, <3>1, <3>2, EmptySeq
  <2>2. CASE Len(outbox[w]) # 1
    BY <2>2 DEF JudgePublish
  <2>. QED BY <2>1, <2>2
<1>5. \A v \in Workers : v # w => running'[v] = running[v]
  BY <1>0 DEF JudgePublish, EndTask, TypeOK
<1>6. Eases
  BY <1>0, <1>1, <1>4, <1>5, TaskFacts DEF Eases, TypeOK, DbOps
<1>. HIDE DEF m
<1>7. Accounted' /\ Apart'
  BY <1>0, <1>1, <1>2, <1>3, <1>6, PublishOnce
<1>8. published' = published \cup {m}
  BY <1>1 DEF Publish
<1>9. \A v \in Workers : v # w => \A x \in Elements(outbox[v]) : x # m
  <2>. SUFFICES ASSUME NEW v \in Workers, v # w, NEW x \in Elements(outbox[v]), x = m
                PROVE  FALSE
    OBVIOUS
  <2>1. outbox[v] # <<>> /\ x.sub = running[v].sub
    BY <1>0, EmptyOnce DEF Unpublished
  <2>2. SameJudge(running[v], running[w])
    BY <1>0, <1>1, <1>3, <2>1 DEF SameJudge, TypeOK
  <2>. QED BY <2>2 DEF FlowInv, OneJudgeTask
<1>10. ASSUME NEW v \in Workers, NEW x \in Elements(outbox'[v])
       PROVE  x \notin published' /\ x.op # "insert" /\ x.sub = running'[v].sub
              /\ judged'[x.sub].done
  <2>1. CASE v = w
    <3>1. running'[w] = running[w]
      BY <1>4, <1>10, <2>1, EmptyOnce
    <3>. QED BY <1>0, <1>1, <1>2, <1>8, <1>10, <2>1, <3>1 DEF Unpublished
  <2>2. CASE v # w
    BY <1>0, <1>1, <1>5, <1>8, <1>9, <1>10, <2>2 DEF Unpublished
  <2>. QED BY <2>1, <2>2
<1>11. \A s \in Subs : InsertOp(s).op = "insert"
  BY DEF InsertOp, Op
<1>12. Unpublished'
  <2>1. \A v \in Workers : NoDuplicates(outbox'[v])
    BY <1>0, <1>1, <1>2 DEF Unpublished
  <2>2. \A s \in Subs : http'[s] = "none" => InsertOp(s) \notin published'
    BY <1>0, <1>1, <1>3, <1>8, <1>11 DEF Unpublished
  <2>3. \A x \in published' : x.op # "insert" => judged'[x.sub].done
    BY <1>0, <1>1, <1>3, <1>8 DEF Unpublished
  <2>. QED BY <1>10, <2>1, <2>2, <2>3 DEF Unpublished
<1>. QED BY <1>7, <1>12 DEF OnceInv

(* A statement is executed, or fails. *)
LEMMA ExecuteOnce ==
    ASSUME FlowInv, FlowInv', OnceInv, NEW w \in Workers, Execute(w) \/ ExecuteFails(w)
    PROVE  OnceInv'
<1>0. TypeOK /\ TypeOK' /\ Accounted /\ Apart /\ Unpublished
  BY DEF FlowInv, OnceInv
<1>. DEFINE m == running[w]
<1>1. /\ m.op \in DbOps /\ running'[w] = NoTask
      /\ \A v \in Workers : v # w => running'[v] = running[v]
      /\ UNCHANGED <<http, queue, outbox, socket, judged, published>>
      /\ \/ applied' = applied \cup {m} /\ UNCHANGED lost
         \/ lost' = lost \cup {m} /\ UNCHANGED applied
  BY <1>0 DEF Execute, ExecuteFails, EndTask, TypeOK
<1>2. m \in Messages /\ m # NoTask
  BY <1>0, <1>1, TaskFacts, NoMessages DEF TypeOK
<1>3. /\ m \notin Elements(queue) /\ m \notin Elements(socket)
      /\ \A v \in Workers : v # w => running[v] # m
      /\ NoTask \notin Elements(queue) \cup Elements(socket)
  BY <1>0, <1>2, OnItsWay, NoMessages DEF Apart, Ways
<1>4. outbox[w] = <<>>
  BY <1>0, <1>1 DEF TypeOK, DbOps
<1>. HIDE DEF m
<1>5. \A x \in Messages : x \in InFlight' <=> x \in InFlight /\ x # m
  BY <1>0, <1>1, <1>2, <1>3, OnItsWay, OnItsWayNext, NoMessages DEF Ways, m
<1>6. InFlight' = InFlight \ {m} /\ m \in InFlight
  BY <1>0, <1>2, <1>5, OnItsWay, OnItsWayNext DEF Ways, m
<1>7. Accounted'
  BY <1>0, <1>1, <1>6 DEF Accounted
<1>8. Apart'
  BY <1>0, <1>1, <1>3 DEF Apart
<1>9. Unpublished'
  BY <1>0, <1>1, <1>4, EmptyOnce DEF Unpublished
<1>. QED BY <1>7, <1>8, <1>9 DEF OnceInv

(* The subscriber loop consumes, ends, sleeps or subscribes again.         *)
LEMMA LoopOnce ==
    ASSUME FlowInv, FlowInv', OnceInv, NEW w \in Workers, LoopStep(w) \/ ResubscribeFails(w)
    PROVE  OnceInv'
<1>0. TypeOK /\ TypeOK' /\ Accounted /\ Apart /\ Unpublished
  BY DEF FlowInv, OnceInv
<1>1. CASE Consume(w)
  <2>. DEFINE m == Head(socket)
  <2>1. /\ socket # <<>> /\ socket' = Tail(socket)
        /\ \/ queue' = Append(queue, m) /\ UNCHANGED lost
           \/ lost' = lost \cup {m} /\ UNCHANGED queue
        /\ UNCHANGED <<http, running, outbox, judged, published, applied>>
    BY <1>1 DEF Consume
  <2>2. /\ m \in Messages /\ m \in Elements(socket) /\ NoDuplicates(socket')
        /\ Elements(socket') = Elements(socket) \ {m}
    BY <1>0, <2>1, TakeOnce DEF TypeOK, Apart
  <2>3. m \in Tasks /\ m \notin Elements(queue) /\ \A v \in Workers : running[v] # m
    BY <1>0, <2>2, NoMessages DEF Apart
  <2>. HIDE DEF m
  <2>4. Unpublished'
    BY <1>0, <2>1 DEF Unpublished
  <2>5. m \in InFlight
    BY <1>0, <2>2, OnItsWay DEF Ways
  <2>6. CASE queue' = Append(queue, m) /\ UNCHANGED lost
    <3>1. Elements(queue') = Elements(queue) \cup {m} /\ NoDuplicates(queue')
      BY <1>0, <2>3, <2>6, AppendOnce DEF TypeOK, Apart
    <3>2. Apart'
      BY <1>0, <2>1, <2>2, <2>3, <3>1 DEF Apart
    <3>3. \A x \in Messages : x \in InFlight' <=> x \in InFlight
      BY <1>0, <2>1, <2>2, <3>1, OnItsWay, OnItsWayNext DEF Ways
    <3>4. InFlight' = InFlight
      BY <1>0, <3>3, OnItsWay, OnItsWayNext DEF Ways
    <3>5. Accounted'
      BY <1>0, <2>1, <2>6, <3>4 DEF Accounted
    <3>. QED BY <2>4, <3>2, <3>5 DEF OnceInv
  <2>7. CASE lost' = lost \cup {m} /\ UNCHANGED queue
    <3>1. Apart'
      BY <1>0, <2>1, <2>2, <2>7 DEF Apart
    <3>2. \A x \in Messages : x \in InFlight' <=> x \in InFlight /\ x # m
      BY <1>0, <2>1, <2>2, <2>3, <2>7, OnItsWay, OnItsWayNext DEF Ways
    <3>3. InFlight' = InFlight \ {m}
      BY <1>0, <3>2, OnItsWay, OnItsWayNext DEF Ways
    <3>4. Accounted'
      BY <1>0, <2>1, <2>5, <2>7, <3>3 DEF Accounted
    <3>. QED BY <2>4, <3>1, <3>4 DEF OnceInv
  <2>. QED BY <2>1, <2>6, <2>7
<1>2. CASE ConsumeClosed(w) \/ Resubscribe(w)
  <2>1. UNCHANGED <<http, queue, running, outbox, socket, judged, published, applied, lost>>
    BY <1>2 DEF ConsumeClosed, Resubscribe, books
  <2>2. Accounted' /\ Apart'
    BY <1>0, <2>1, EaseOnce DEF Eases
  <2>3. Unpublished'
    BY <1>0, <2>1 DEF Unpublished
  <2>. QED BY <2>2, <2>3 DEF OnceInv
<1>3. CASE ConsumeError(w) \/ ResubscribeFails(w)
  <2>1. /\ UNCHANGED <<http, queue, outbox, socket, judged, published, applied, lost>>
        /\ EndTask(w) /\ running[w].op = "loop"
    BY <1>3 DEF ConsumeError, ResubscribeFails, LoopOn, LoopTask, Op, books
  <2>2. Accounted' /\ Apart'
    BY <1>0, <2>1, EndEases, EaseOnce DEF DbOps
  <2>3. outbox[w] = <<>> /\ \A v \in Workers : v # w => running'[v] = running[v]
    BY <1>0, <2>1 DEF TypeOK, EndTask
  <2>4. Unpublished'
    BY <1>0, <2>1, <2>3, EmptyOnce DEF Unpublished
  <2>. QED BY <2>2, <2>4 DEF OnceInv
<1>. QED BY <1>1, <1>2, <1>3 DEF LoopStep

(* Redis drops the subscriber, or the server crashes.                      *)
LEMMA OutageOnce ==
    ASSUME FlowInv, FlowInv', OnceInv, LinkCloses \/ LinkResets \/ CrashRestart
    PROVE  OnceInv'
<1>0. TypeOK /\ TypeOK' /\ Accounted /\ Apart /\ Unpublished
  BY DEF FlowInv, OnceInv
<1>1. CASE LinkCloses
  <2>1. UNCHANGED <<http, queue, running, outbox, socket, judged, published, applied, lost>>
    BY <1>1 DEF LinkCloses
  <2>2. Accounted' /\ Apart'
    BY <1>0, <2>1, EaseOnce DEF Eases
  <2>3. Unpublished'
    BY <1>0, <2>1 DEF Unpublished
  <2>. QED BY <2>2, <2>3 DEF OnceInv
<1>2. CASE LinkResets
  <2>1. /\ socket' = <<>> /\ lost' = lost \cup Elements(socket)
        /\ UNCHANGED <<http, queue, running, outbox, judged, published, applied>>
    BY <1>2 DEF LinkResets
  <2>2. Elements(socket') = {} /\ NoDuplicates(socket')
    BY <2>1, EmptyOnce
  <2>3. Apart'
    BY <1>0, <2>1, <2>2 DEF Apart
  <2>4. \A x \in Messages : x \in InFlight' <=> x \in InFlight /\ x \notin Elements(socket)
    BY <1>0, <2>1, <2>2, OnItsWay, OnItsWayNext DEF Ways, Apart
  <2>5. InFlight' = InFlight \ Elements(socket) /\ Elements(socket) \subseteq InFlight
    BY <1>0, <2>4, OnItsWay, OnItsWayNext DEF Ways
  <2>6. Accounted'
    BY <1>0, <2>1, <2>5 DEF Accounted
  <2>7. Unpublished'
    BY <1>0, <2>1 DEF Unpublished
  <2>. QED BY <2>3, <2>6, <2>7 DEF OnceInv
<1>3. CASE CrashRestart
  <2>1. /\ lost' = lost \cup InFlight
        /\ queue' = <<LoopTask>> /\ socket' = <<>>
        /\ \A w \in Workers : running'[w] = NoTask /\ outbox'[w] = <<>>
        /\ \A s \in Subs : http'[s] = "none" => http[s] = "none"
        /\ UNCHANGED <<judged, published, applied>>
    BY <1>0, <1>3 DEF CrashRestart, TypeOK
  <2>2. /\ Elements(socket') = {} /\ NoDuplicates(socket')
        /\ Elements(queue') = {LoopTask} /\ NoDuplicates(queue')
    BY <2>1, EmptyOnce DEF Elements, NoDuplicates
  <2>3. LoopTask # NoTask
    BY DEF LoopTask, NoTask, Op
  <2>4. Apart'
    BY <2>1, <2>2, <2>3 DEF Apart
  <2>5. \A x \in Messages : x \notin InFlight'
    BY <1>0, <2>1, <2>2, OnItsWayNext, NoMessages DEF Ways
  <2>6. InFlight' = {}
    BY <1>0, <2>5, OnItsWayNext DEF Ways
  <2>7. Accounted'
    BY <1>0, <2>1, <2>6 DEF Accounted
  <2>8. Unpublished'
    BY <1>0, <2>1, EmptyOnce DEF Unpublished
  <2>. QED BY <2>4, <2>7, <2>8 DEF OnceInv
<1>. QED BY <1>1, <1>2, <1>3

LEMMA InitOnce == Init => OnceInv
<1>. SUFFICES ASSUME Init PROVE OnceInv
  OBVIOUS
<1>1. /\ queue = <<LoopTask>> /\ socket = <<>> /\ published = {} /\ applied = {} /\ lost = {}
      /\ \A w \in Workers : running[w] = NoTask /\ outbox[w] = <<>>
  BY DEF Init
<1>2. /\ Elements(queue) = {LoopTask} /\ NoDuplicates(queue)
      /\ Elements(socket) = {} /\ NoDuplicates(socket)
  BY <1>1, EmptyOnce DEF Elements, NoDuplicates
<1>3. LoopTask.op = "loop" /\ NoTask.op = "none"
  BY DEF LoopTask, NoTask, Op
<1>4. InFlight = {}
  BY <1>1, <1>2, <1>3 DEF InFlight, DbOps
<1>5. Apart
  BY <1>1, <1>2, <1>3 DEF Apart
<1>. QED BY <1>1, <1>4, <1>5, EmptyOnce DEF OnceInv, Accounted, Unpublished

LEMMA NextOnce == FlowInv /\ FlowInv' /\ OnceInv /\ [Next]_vars => OnceInv'
<1>. SUFFICES ASSUME FlowInv, FlowInv', OnceInv, [Next]_vars PROVE OnceInv'
  OBVIOUS
<1>1. ASSUME NEW s \in Subs, HttpStep(s) \/ SubmitFails(s) PROVE OnceInv'
  BY <1>1, HttpOnce
<1>2. ASSUME NEW w \in Workers, WorkerStep(w) PROVE OnceInv'
  BY <1>2, StartOnce, JudgeOnce, JudgePublishOnce, ExecuteOnce, LoopOnce DEF WorkerStep
<1>3. ASSUME NEW w \in Workers,
             JudgeFails(w) \/ JudgePublishFails(w) \/ ExecuteFails(w) \/ ResubscribeFails(w)
      PROVE  OnceInv'
  BY <1>3, JudgeFailsOnce, ExecuteOnce, LoopOnce
<1>4. CASE LinkCloses \/ LinkResets \/ CrashRestart
  BY <1>4, OutageOnce
<1>5. CASE Quiet \/ UNCHANGED vars
  <2>1. UNCHANGED <<http, queue, running, outbox, socket, judged, published, applied, lost>>
    BY <1>5 DEF Quiet, vars, memory, books
  <2>2. Accounted' /\ Apart'
    BY <2>1, EaseOnce DEF FlowInv, OnceInv, Eases
  <2>3. Unpublished'
    BY <2>1 DEF OnceInv, Unpublished
  <2>. QED BY <2>2, <2>3 DEF OnceInv
<1>. QED BY <1>1, <1>2, <1>3, <1>4, <1>5 DEF Next, FaultStep

(* Every published message is in one place: on its way, applied once, or   *)
(* lost.  Whatever fails, however many workers execute statements, and     *)
(* also over a crash, nothing is applied twice.                            *)
THEOREM MessagesAccounted == Spec => []EachMessageOnce
<1>1. FlowInv /\ OnceInv => EachMessageOnce
  <2>. SUFFICES ASSUME FlowInv, OnceInv PROVE EachMessageOnce
    OBVIOUS
  <2>1. queue \in Seq(Tasks) /\ socket \in Seq(Tasks)
    BY NoMessages DEF FlowInv, TypeOK
  <2>2. NoDuplicates(queue \o socket)
    BY <2>1, ConcatOnce DEF OnceInv, Apart
  <2>. QED BY <2>2 DEF OnceInv, Accounted, Apart, EachMessageOnce
<1>2. Spec => []OnceInv
  BY InitOnce, NextOnce, FlowInvariant, PTL DEF Spec
<1>. QED BY <1>1, <1>2, FlowInvariant, PTL

-----------------------------------------------------------------------------
(* The tables are a submission record.                                     *)

(* Messages say what was found, and nothing else.                          *)
Exact ==
    /\ \A m \in published : m.op # "insert" => m \in Says(m.sub, judged[m.sub].results)
    /\ \A w \in Workers : \A m \in Elements(outbox[w]) :
          m \in Says(m.sub, judged[m.sub].results)

(* What the tables hold has been applied, so it will not come again.       *)
Booked ==
    \A s \in Subs :
       /\ row[s] \in OverallStatuses =>
             UpdateOp(s, SetStatus(judged[s].results)) \in applied
       /\ \A i \in 1..MaxTests : results[s][i] # <<>> =>
             ResultOp(s, i, judged[s].results[i]) \in applied

RecordInv == Exact /\ Booked

(* The steps that only move messages. *)
Moves ==
    /\ UNCHANGED <<row, results, judged, applied>>
    /\ \A m \in published' : \/ m \in published \/ m.op = "insert"
                             \/ \E w \in Workers : m \in Elements(outbox[w])
    /\ \A w \in Workers : Elements(outbox'[w]) \subseteq Elements(outbox[w])

LEMMA StepKinds ==
    ASSUME FlowInv, [Next]_vars, ~ \E w \in Workers : Judge(w) \/ Execute(w)
    PROVE  Moves
<1>0. TypeOK
  BY DEF FlowInv
<1>1. ASSUME NEW s \in Subs, HttpStep(s) \/ SubmitFails(s) PROVE Moves
  <2>1. InsertOp(s).op = "insert"
    BY DEF InsertOp, Op
  <2>. QED BY <1>1, <2>1 DEF HttpStep, SubmitPublish, SubmitEnqueue, SubmitFails, Publish, Moves,
                             memory, tables, books
<1>2. ASSUME NEW w \in Workers, JudgePublish(w) PROVE Moves
  <2>1. /\ outbox[w] # <<>> /\ outbox[w] \in Seq(Messages)
        /\ outbox'[w] = Tail(outbox[w]) /\ \A v \in Workers : v # w => outbox'[v] = outbox[v]
        /\ published' = published \cup {Head(outbox[w])}
        /\ UNCHANGED <<row, results, judged, applied>>
    BY <1>0, <1>2 DEF JudgePublish, Publish, TypeOK, tables
  <2>2. /\ Head(outbox[w]) \in Elements(outbox[w])
        /\ Elements(Tail(outbox[w])) \subseteq Elements(outbox[w])
    BY <2>1, TakeOnce
  <2>. QED BY <2>1, <2>2 DEF Moves
<1>3. ASSUME NEW w \in Workers, Start(w) \/ LoopStep(w) PROVE Moves
  BY <1>3 DEF Start, LoopStep, Consume, ConsumeClosed, ConsumeError, Resubscribe, Moves,
              tables, books
<1>4. ASSUME NEW w \in Workers,
             JudgeFails(w) \/ JudgePublishFails(w) \/ ExecuteFails(w) \/ ResubscribeFails(w)
      PROVE  Moves
  <2>1. /\ UNCHANGED <<row, results, judged, applied, published>>
        /\ \A v \in Workers : outbox'[v] = outbox[v] \/ outbox'[v] = <<>>
    BY <1>0, <1>4 DEF JudgeFails, JudgePublishFails, ExecuteFails, ResubscribeFails, TypeOK, tables
  <2>. QED BY <2>1, EmptyOnce DEF Moves
<1>5. CASE LinkCloses \/ LinkResets \/ CrashRestart
  <2>1. /\ UNCHANGED <<row, results, judged, applied, published>>
        /\ \A v \in Workers : outbox'[v] = outbox[v] \/ outbox'[v] = <<>>
    BY <1>5 DEF LinkCloses, LinkResets, CrashRestart, tables
  <2>. QED BY <2>1, EmptyOnce DEF Moves
<1>6. CASE Quiet \/ UNCHANGED vars
  BY <1>6 DEF Quiet, Moves, vars, memory, tables, books
<1>. QED BY <1>1, <1>2, <1>3, <1>4, <1>5, <1>6 DEF Next, WorkerStep, FaultStep

(* What is executed was published: it says what was found.                 *)
LEMMA ExecutedIsExact ==
    ASSUME FlowInv, OnceInv, Exact, NEW w \in Workers, running[w].op \in DbOps
    PROVE  LET m == running[w] IN
           /\ m \in Messages /\ m.sub \in Subs /\ m \notin applied /\ m \in published
           /\ m.op \in {"insert", "update", "result"}
           /\ m.op = "insert" => m.status = "PENDING"
           /\ m.op # "insert" => judged[m.sub].done
           /\ m.op = "update" => m = UpdateOp(m.sub, SetStatus(judged[m.sub].results))
           /\ m.op = "result" => /\ m.seq \in 1..Len(judged[m.sub].results)
                                 /\ m.seq \in 1..MaxTests
                                 /\ m = ResultOp(m.sub, m.seq, judged[m.sub].results[m.seq])
<1>. DEFINE m == running[w]
            rs == judged[m.sub].results
<1>1. TypeOK /\ Truthful(m, judged) /\ Accounted /\ Unpublished
  BY DEF FlowInv, OnceInv, MessagesTruthful
<1>2. m \in Messages /\ m.sub \in Subs /\ m.op \in {"insert", "update", "result"}
  BY <1>1, TaskFacts DEF TypeOK, DbOps
<1>3. m \in published /\ m \notin applied
  BY <1>1, <1>2, OnItsWay DEF Ways, Accounted
<1>4. m.op # "insert" => judged[m.sub].done /\ m \in Says(m.sub, rs)
  BY <1>1, <1>3 DEF Unpublished, Exact
<1>5. \A v : UpdateOp(m.sub, v).op = "update"
  BY DEF UpdateOp, Op
<1>6. \A i, v : ResultOp(m.sub, i, v).op = "result" /\ ResultOp(m.sub, i, v).seq = i
  BY DEF ResultOp, Op
<1>7. m.op = "update" => m = UpdateOp(m.sub, SetStatus(rs))
  BY <1>4, <1>6 DEF Says
<1>8. m.op = "result" => m.seq \in 1..Len(rs) /\ m = ResultOp(m.sub, m.seq, rs[m.seq])
  BY <1>4, <1>5, <1>6 DEF Says
<1>. QED BY <1>1, <1>2, <1>3, <1>4, <1>7, <1>8 DEF Truthful

(* A step that judges or executes keeps the invariant, like the others.    *)
LEMMA JudgeRecord ==
    ASSUME FlowInv, OnceInv, RecordInv, NEW w \in Workers, Judge(w)
    PROVE  /\ \E s \in Subs : Record!Judge(s)
           /\ RecordInv'
<1>0. TypeOK /\ Unpublished /\ Accounted /\ Exact /\ Booked
  BY DEF FlowInv, OnceInv, RecordInv
<1>. DEFINE s == running[w].sub
<1>1. /\ running[w].op = "judge" /\ outbox[w] = <<>> /\ s \in Subs /\ ~judged[s].done
      /\ UNCHANGED <<row, results, published, applied>>
  BY <1>0, TaskFacts DEF Judge, TypeOK, FlowInv, NotYetJudged, books, tables
<1>2. PICK n \in 0..MaxTests, compiled \in BOOLEAN :
         \E rs \in Runs(n, Outcomes(Execs, compiled)) :
            /\ judged' = [judged EXCEPT ![s] = Found(n, rs)]
            /\ outbox' = [outbox EXCEPT ![w] = Report(s, rs)]
  BY DEF Judge
<1>3. PICK rs \in Runs(n, Outcomes(Execs, compiled)) :
            /\ judged' = [judged EXCEPT ![s] = Found(n, rs)]
            /\ outbox' = [outbox EXCEPT ![w] = Report(s, rs)]
  BY <1>2
<1>4. PICK k \in 0..n : rs \in [1..k -> TestStatuses]
  <2>1. Outcomes(Execs, compiled) \subseteq TestStatuses
    BY NamesAssumption, OutcomesAreStatuses
  <2>. QED BY <2>1 DEF Runs
<1>5. rs \in Runs(n, TestStatuses) /\ n \in Nat
  BY <1>4, BoundsAssumption DEF Runs
<1>6. Record!Judge(s)
  <2>1. Record!IsRun(n, rs)
    BY <1>5, RunIsSequence DEF Record!IsRun
  <2>2. judged' = [judged EXCEPT ![s] = [done |-> TRUE, tests |-> n, results |-> rs]]
    BY <1>3 DEF Found
  <2>. QED BY <1>1, <1>4, <2>1, <2>2 DEF Record!Judge
<1>7. /\ judged'[s].results = rs /\ \A t \in Subs : t # s => judged'[t] = judged[t]
      /\ \A v \in Workers : v # w => outbox'[v] = outbox[v]
      /\ outbox'[w] = Report(s, rs)
  BY <1>0, <1>1, <1>3 DEF TypeOK, Found
<1>. HIDE DEF s
<1>8. \A m \in published : m \in Messages /\ m.sub \in Subs
                           /\ (m.op # "insert" => m.sub # s)
  BY <1>0, <1>1 DEF TypeOK, Messages, Unpublished
<1>9. \A m \in Elements(Report(s, rs)) : m.sub = s /\ m \in Says(s, rs)
  BY <1>1, <1>5, ReportOnce
<1>10. \A v \in Workers : v # w => \A m \in Elements(outbox[v]) : m.sub # s /\ m.sub \in Subs
  <2>. SUFFICES ASSUME NEW v \in Workers, v # w, NEW m \in Elements(outbox[v])
                PROVE  m.sub # s /\ m.sub \in Subs
    OBVIOUS
  <2>1. outbox[v] # <<>> /\ m.sub = running[v].sub /\ judged[m.sub].done
    BY <1>0, EmptyOnce DEF Unpublished
  <2>2. m.sub \in Subs
    BY <1>0, <2>1, TaskFacts DEF TypeOK
  <2>. QED BY <1>1, <2>1, <2>2
<1>11. Exact'
  <2>1. \A m \in published' : m.op # "insert" => m \in Says(m.sub, judged'[m.sub].results)
    BY <1>0, <1>1, <1>7, <1>8 DEF Exact
  <2>2. ASSUME NEW v \in Workers, NEW m \in Elements(outbox'[v])
        PROVE  m \in Says(m.sub, judged'[m.sub].results)
    BY <1>0, <1>7, <1>9, <1>10, <2>2 DEF Exact
  <2>. QED BY <2>1, <2>2 DEF Exact
<1>12. row[s] \notin OverallStatuses
  BY <1>1 DEF FlowInv, RowsTruthful
<1>13. \A i \in 1..MaxTests : results[s][i] = <<>>
  <2>. SUFFICES ASSUME NEW i \in 1..MaxTests, results[s][i] # <<>> PROVE FALSE
    OBVIOUS
  <2>. DEFINE m == ResultOp(s, i, judged[s].results[i])
  <2>1. m \in applied /\ m.op = "result" /\ m.sub = s
    BY <1>0, <1>1 DEF Booked, ResultOp, Op
  <2>. QED BY <1>0, <1>1, <2>1 DEF Accounted, Unpublished
<1>14. Booked'
  BY <1>0, <1>1, <1>7, <1>12, <1>13 DEF Booked
<1>. QED BY <1>1, <1>6, <1>11, <1>14 DEF RecordInv, s

LEMMA ExecuteRecord ==
    ASSUME FlowInv, OnceInv, RecordInv, NEW w \in Workers, Execute(w)
    PROVE  /\ \/ UNCHANGED <<row, results, judged>>
              \/ \E s \in Subs : \/ Record!Record(s) \/ Record!Settle(s)
                                 \/ \E i \in 1..MaxTests : Record!AddResult(s, i)
           /\ RecordInv'
<1>0. TypeOK /\ Exact /\ Booked
  BY DEF FlowInv, RecordInv
<1>. DEFINE m == running[w]
            s == m.sub
            rs == judged[s].results
<1>1. /\ m.op \in DbOps
      /\ UNCHANGED <<outbox, judged, published>>
      /\ \/ Applies(m) /\ Effect(m) /\ applied' = applied \cup {m}
         \/ UNCHANGED <<row, results, applied>>
  BY DEF Execute, tables
<1>2. /\ m \in Messages /\ s \in Subs /\ m \notin applied
      /\ m.op \in {"insert", "update", "result"}
      /\ m.op = "insert" => m.status = "PENDING"
      /\ m.op # "insert" => judged[s].done
      /\ m.op = "update" => m = UpdateOp(s, SetStatus(rs))
      /\ m.op = "result" => /\ m.seq \in 1..Len(rs) /\ m.seq \in 1..MaxTests
                            /\ m = ResultOp(s, m.seq, rs[m.seq])
  BY <1>0, <1>1, ExecutedIsExact
<1>3. Exact'
  BY <1>0, <1>1 DEF Exact
<1>4. CASE UNCHANGED <<row, results, applied>>
  <2>1. Booked'
    BY <1>0, <1>1, <1>4 DEF Booked
  <2>. QED BY <1>1, <1>3, <1>4, <2>1 DEF RecordInv
<1>. HIDE DEF m
<1>5. CASE m.op = "insert" /\ Applies(m) /\ Effect(m) /\ applied' = applied \cup {m}
  <2>1. row[s] = "none" /\ row' = [row EXCEPT ![s] = "PENDING"] /\ UNCHANGED results
    BY <1>2, <1>5 DEF Applies, Effect
  <2>2. Record!Record(s)
    BY <1>1, <2>1 DEF Record!Record
  <2>3. "PENDING" \notin OverallStatuses
    BY DEF OverallStatuses, TestStatuses, ExecStatuses
  <2>4. Booked'
    BY <1>0, <1>1, <1>2, <1>5, <2>1, <2>3 DEF Booked, TypeOK
  <2>. QED BY <1>2, <1>3, <2>2, <2>4 DEF RecordInv
<1>6. CASE m.op = "update" /\ Applies(m) /\ Effect(m) /\ applied' = applied \cup {m}
  <2>1. row[s] # "none" /\ row' = [row EXCEPT ![s] = m.status] /\ UNCHANGED results
    BY <1>6 DEF Applies, Effect
  <2>2. row[s] = "PENDING"
    BY <1>0, <1>2, <1>6, <2>1 DEF Booked, TypeOK, Statuses
  <2>3. m.status = SetStatus(rs)
    BY <1>2, <1>6 DEF UpdateOp, Op
  <2>4. SetStatus(rs) = Record!Verdict(rs)
    <3>1. judged[s].tests \in Nat /\ rs \in Runs(judged[s].tests, TestStatuses)
      BY <1>0, <1>2, <1>6, BoundsAssumption DEF FlowInv, TypeOK, FoundByRun
    <3>. QED BY <3>1, VerdictOfRun DEF Record!Verdict
  <2>5. Record!Settle(s)
    BY <1>1, <1>2, <1>6, <2>1, <2>2, <2>3, <2>4 DEF Record!Settle
  <2>6. Booked'
    BY <1>0, <1>1, <1>2, <1>6, <2>1 DEF Booked, TypeOK
  <2>. QED BY <1>2, <1>3, <2>5, <2>6 DEF RecordInv
<1>7. CASE m.op = "result" /\ Applies(m) /\ Effect(m) /\ applied' = applied \cup {m}
  <2>. DEFINE i == m.seq
  <2>1. /\ row[s] # "none" /\ m.status = rs[i] /\ i \in 1..Len(rs) /\ i \in 1..MaxTests
        /\ m = ResultOp(s, i, rs[i])
    <3>1. ResultOp(s, i, rs[i]).status = rs[i]
      BY DEF ResultOp, Op
    <3>. QED BY <1>2, <1>7, <3>1 DEF Applies
  <2>2. row' = row
    BY <1>0, <1>2, <1>7 DEF Effect, TypeOK
  <2>3. results[s][i] = <<>>
    BY <1>0, <1>2, <2>1 DEF Booked
  <2>4. results' = [results EXCEPT ![s][i] = <<rs[i]>>]
    <3>1. results' = [results EXCEPT ![s][i] = Append(results[s][i], m.status)]
      BY <1>7 DEF Effect
    <3>2. Append(results[s][i], m.status) = <<rs[i]>>
      BY <2>1, <2>3
    <3>. QED BY <3>1, <3>2
  <2>5. Record!AddResult(s, i)
    BY <1>1, <2>1, <2>2, <2>3, <2>4 DEF Record!AddResult
  <2>6. /\ \A t \in Subs : t # s => results'[t] = results[t]
        /\ \A j \in 1..MaxTests : j # i => results'[s][j] = results[s][j]
    BY <1>0, <1>2, <2>1, <2>4 DEF TypeOK
  <2>7. Booked'
    <3>1. \A t \in Subs : row'[t] \in OverallStatuses =>
             UpdateOp(t, SetStatus(judged'[t].results)) \in applied'
      BY <1>0, <1>1, <1>7, <2>2 DEF Booked
    <3>2. \A t \in Subs : \A j \in 1..MaxTests : results'[t][j] # <<>> =>
             ResultOp(t, j, judged'[t].results[j]) \in applied'
      BY <1>0, <1>1, <1>7, <2>1, <2>6 DEF Booked
    <3>. QED BY <3>1, <3>2 DEF Booked
  <2>. QED BY <1>2, <1>3, <2>1, <2>5, <2>7 DEF RecordInv
<1>. QED BY <1>1, <1>2, <1>4, <1>5, <1>6, <1>7

(* Every step is a step of the record, or none. *)
LEMMA NextRecord ==
    FlowInv /\ OnceInv /\ RecordInv /\ [Next]_vars => RecordInv' /\ [Record!Next]_Record!vars
<1>. SUFFICES ASSUME FlowInv, OnceInv, RecordInv, [Next]_vars
              PROVE  RecordInv' /\ [Record!Next]_Record!vars
  OBVIOUS
<1>1. ASSUME NEW w \in Workers, Judge(w)
      PROVE  RecordInv' /\ [Record!Next]_Record!vars
  BY <1>1, JudgeRecord DEF Record!Next
<1>2. ASSUME NEW w \in Workers, Execute(w)
      PROVE  RecordInv' /\ [Record!Next]_Record!vars
  BY <1>2, ExecuteRecord DEF Record!Next, Record!vars
<1>3. CASE ~ \E w \in Workers : Judge(w) \/ Execute(w)
  <2>1. Moves
    BY <1>3, StepKinds
  <2>2. RecordInv'
    BY <2>1 DEF Moves, RecordInv, Exact, Booked
  <2>. QED BY <2>1, <2>2 DEF Moves, Record!vars
<1>. QED BY <1>1, <1>2, <1>3

LEMMA RecordInvariant == Spec => [](FlowInv /\ OnceInv /\ RecordInv)
<1>1. Init => RecordInv
  <2>1. "none" \notin OverallStatuses
    BY DEF OverallStatuses, TestStatuses, ExecStatuses
  <2>. QED BY <2>1, EmptyOnce DEF Init, RecordInv, Exact, Booked
<1>2. Spec => []OnceInv
  BY InitOnce, NextOnce, FlowInvariant, PTL DEF Spec
<1>. QED BY <1>1, <1>2, NextRecord, FlowInvariant, PTL DEF Spec

(* The tables are a submission record: a row goes from PENDING to the      *)
(* verdict on the results and stays, and a test has at most one result,    *)
(* the judge's; whatever is lost or cut off, in whatever order statements  *)
(* are executed.                                                           *)
THEOREM TablesAreRecord == Spec => ImplementsRecord
<1>1. Init => Record!Init
  BY DEF Init, Record!Init, NotJudged
<1>. QED BY <1>1, NextRecord, RecordInvariant, PTL DEF Spec, ImplementsRecord, Record!Spec

-----------------------------------------------------------------------------
(* How a message is lost when nothing fails.                               *)

(* The statement m needs the row that x inserts. *)
Needs(m, x) == m.op \in {"update", "result"} /\ x = InsertOp(m.sub)

InOrder(q) == \A i, j \in 1..Len(q) : Needs(q[i], q[j]) => j < i

(* On the way to the workers nothing is ahead of what it needs.            *)
InsertsFirst ==
    /\ InOrder(queue) /\ InOrder(socket)
    /\ \A m \in Elements(queue), x \in Elements(socket) : ~Needs(m, x)
    /\ \A w \in Workers, x \in Elements(queue) \cup Elements(socket) : ~Needs(running[w], x)

(* A submission that is judged was published before.                       *)
InsertPublished ==
    /\ \A s \in Subs : http[s] \in {"enqueueing", "accepted"} => InsertOp(s) \in published
    /\ \A m \in Elements(queue) : m.op = "judge" => InsertOp(m.sub) \in published
    /\ \A w \in Workers : running[w].op = "judge" => InsertOp(running[w].sub) \in published
    /\ \A s \in Subs : judged[s].done => InsertOp(s) \in published
    /\ \A m \in published : m.op = "insert" => m = InsertOp(m.sub)

(* There is a row when the INSERT was applied. *)
RowInserted == \A s \in Subs : row[s] # "none" <=> InsertOp(s) \in applied

(* The subscriber listens, and no INSERT is lost. *)
Faultless == faults = 0 => /\ link = "up" /\ callback /\ loop = "consuming"
                           /\ \A s \in Subs : InsertOp(s) \notin lost

OrderInv == InsertsFirst /\ InsertPublished /\ RowInserted /\ Faultless

LEMMA InsertFacts ==
    /\ \A s \in Subs : InsertOp(s) \in Messages
    /\ \A s : InsertOp(s).op = "insert" /\ InsertOp(s).sub = s
BY BoundsAssumption DEF InsertOp, Op, Messages, DbOps, Statuses

LEMMA AppendInOrder ==
    ASSUME NEW T, NEW q \in Seq(T), NEW m \in T, InOrder(q),
           \A x \in Elements(q) : ~Needs(x, m)
    PROVE  InOrder(Append(q, m))
<1>1. /\ Len(Append(q, m)) = Len(q) + 1 /\ Len(q) \in Nat
      /\ \A i \in 1..Len(q) : Append(q, m)[i] = q[i]
      /\ Append(q, m)[Len(q) + 1] = m
  OBVIOUS
<1>2. ~Needs(m, m)
  BY InsertFacts DEF Needs
<1>. QED BY <1>1, <1>2 DEF Elements, InOrder

LEMMA TakeInOrder ==
    ASSUME NEW T, NEW q \in Seq(T), q # <<>>, InOrder(q)
    PROVE  InOrder(Tail(q)) /\ \A x \in Elements(Tail(q)) : ~Needs(Head(q), x)
<1>1. /\ Len(q) \in Nat /\ 1 \in 1..Len(q) /\ Head(q) = q[1]
      /\ Len(Tail(q)) = Len(q) - 1
      /\ \A i \in 1..Len(Tail(q)) : i + 1 \in 1..Len(q) /\ Tail(q)[i] = q[i + 1]
  OBVIOUS
<1>. QED BY <1>1 DEF Elements, InOrder

LEMMA EmptyInOrder == InOrder(<<>>) /\ ~ \E x : Needs(NoTask, x)
BY DEF InOrder, Needs, NoTask, Op

(* Queue and socket stay, or are emptied; tasks end. *)
LEMMA ShrinkInOrder ==
    ASSUME InsertsFirst, queue' = queue, socket' = socket \/ socket' = <<>>,
           \A w \in Workers : running'[w] = running[w] \/ running'[w] = NoTask
    PROVE  InsertsFirst'
BY EmptyOnce, EmptyInOrder DEF InsertsFirst

(* What was published for a submission comes after its INSERT.             *)
LEMMA PublishedNeeds ==
    ASSUME FlowInv, OnceInv, InsertPublished, NEW m \in InFlight,
           m.op \in {"update", "result"}
    PROVE  judged[m.sub].done /\ m.sub \in Subs /\ InsertOp(m.sub) \in published
<1>1. m \in published /\ m.op # "insert" /\ m.sub \in Subs
  BY OnItsWay DEF FlowInv, OnceInv, Accounted, Ways, Messages
<1>. QED BY <1>1 DEF OnceInv, Unpublished, InsertPublished

LEMMA HttpOrder ==
    ASSUME FlowInv, OnceInv, OrderInv, NEW s \in Subs, HttpStep(s) \/ SubmitFails(s)
    PROVE  OrderInv'
<1>0. /\ TypeOK /\ InsertsFirst /\ InsertPublished /\ RowInserted /\ Faultless
      /\ InsertOp(s) \in Messages /\ InsertOp(s).op = "insert" /\ InsertOp(s).sub = s
  BY InsertFacts DEF FlowInv, OrderInv
<1>1. CASE SubmitPublish(s)
  <2>1. /\ http[s] = "none" /\ Publish(InsertOp(s))
        /\ http' = [http EXCEPT ![s] = "enqueueing"]
        /\ UNCHANGED <<queue, running, link, callback, loop, row, judged, applied, faults>>
    BY <1>1 DEF SubmitPublish, tables
  <2>2. /\ published' = published \cup {InsertOp(s)}
        /\ \/ link = "up" /\ socket' = Append(socket, InsertOp(s)) /\ UNCHANGED lost
           \/ link # "up" /\ lost' = lost \cup {InsertOp(s)} /\ UNCHANGED socket
    BY <2>1 DEF Publish
  <2>3. \A m \in InFlight : ~Needs(m, InsertOp(s))
    <3>. SUFFICES ASSUME NEW m \in InFlight, Needs(m, InsertOp(s)) PROVE FALSE
      OBVIOUS
    <3>1. judged[s].done
      <4>1. m.op \in {"update", "result"} /\ m.sub = s
        BY <1>0, InsertFacts DEF Needs
      <4>. QED BY <1>0, <4>1, PublishedNeeds
    <3>. QED BY <2>1, <3>1 DEF FlowInv, NotYetJudged, Requested
  <2>4. \A m \in Tasks \cup {NoTask} : Needs(m, InsertOp(s)) => m \in Messages
    BY TaskFacts DEF Needs, DbOps
  <2>5. /\ \A m \in Elements(queue) \cup Elements(socket) : ~Needs(m, InsertOp(s))
        /\ \A w \in Workers : ~Needs(running[w], InsertOp(s))
    <3>1. \A m \in Messages : m \in Elements(queue) \/ m \in Elements(socket)
                              \/ (\E w \in Workers : running[w] = m) => ~Needs(m, InsertOp(s))
      BY <1>0, <2>3, OnItsWay DEF Ways
    <3>2. /\ Elements(queue) \subseteq Tasks /\ Elements(socket) \subseteq Tasks
          /\ \A w \in Workers : running[w] \in Tasks \cup {NoTask}
      BY <1>0, OnItsWay, NoMessages DEF Ways, TypeOK
    <3>. QED BY <2>4, <3>1, <3>2
  <2>6. InsertsFirst'
    <3>1. CASE socket' = Append(socket, InsertOp(s))
      <4>1. Elements(socket') = Elements(socket) \cup {InsertOp(s)}
        BY <1>0, <3>1, AppendOnce DEF TypeOK
      <4>2. InOrder(socket')
        BY <1>0, <2>5, <3>1, AppendInOrder DEF TypeOK, InsertsFirst
      <4>. QED BY <1>0, <2>1, <2>5, <4>1, <4>2 DEF InsertsFirst
    <3>2. CASE UNCHANGED socket
      BY <1>0, <2>1, <3>2, ShrinkInOrder
    <3>. QED BY <2>2, <3>1, <3>2
  <2>7. InsertPublished'
    BY <1>0, <2>1, <2>2 DEF InsertPublished, TypeOK
  <2>8. RowInserted' /\ Faultless'
    BY <1>0, <2>1, <2>2 DEF RowInserted, Faultless
  <2>. QED BY <2>6, <2>7, <2>8 DEF OrderInv
<1>2. CASE SubmitFails(s)
  <2>1. /\ http' = [http EXCEPT ![s] = "failed"] /\ faults' = faults + 1
        /\ UNCHANGED <<queue, running, socket, row, judged, published, applied>>
    BY <1>2 DEF SubmitFails, memory, tables, Fault
  <2>2. InsertsFirst'
    BY <1>0, <2>1, ShrinkInOrder
  <2>. QED BY <1>0, <2>1, <2>2 DEF OrderInv, InsertPublished, RowInserted, Faultless, TypeOK
<1>3. CASE SubmitEnqueue(s)
  <2>1. /\ http[s] = "enqueueing" /\ queue' = Append(queue, JudgeTask(s))
        /\ http' = [http EXCEPT ![s] = "accepted"]
        /\ UNCHANGED <<running, socket, link, callback, loop, row, judged, published,
                       applied, lost, faults>>
    BY <1>3 DEF SubmitEnqueue, books, tables
  <2>2. /\ JudgeTask(s) \in Tasks /\ JudgeTask(s).op = "judge" /\ JudgeTask(s).sub = s
        /\ \A x : ~Needs(x, JudgeTask(s)) /\ ~Needs(JudgeTask(s), x)
    BY InsertFacts DEF Tasks, JudgeTask, Op, Needs
  <2>3. Elements(queue') = Elements(queue) \cup {JudgeTask(s)} /\ InOrder(queue')
    BY <1>0, <2>1, <2>2, AppendOnce, AppendInOrder DEF TypeOK, InsertsFirst
  <2>4. InsertsFirst'
    BY <1>0, <2>1, <2>2, <2>3 DEF InsertsFirst
  <2>5. InsertPublished'
    BY <1>0, <2>1, <2>2, <2>3 DEF InsertPublished, TypeOK
  <2>. QED BY <1>0, <2>1, <2>4, <2>5 DEF OrderInv, RowInserted, Faultless
<1>. QED BY <1>1, <1>2, <1>3 DEF HttpStep

LEMMA WorkerOrder ==
    ASSUME FlowInv, OnceInv, OrderInv, NEW w \in Workers, Start(w) \/ Judge(w) \/ JudgePublish(w)
    PROVE  OrderInv'
<1>0. TypeOK /\ InsertsFirst /\ InsertPublished /\ RowInserted /\ Faultless
  BY DEF FlowInv, OrderInv
<1>1. CASE Start(w)
  <2>1. /\ queue # <<>> /\ queue' = Tail(queue) /\ queue \in Seq(Tasks)
        /\ running'[w] = Head(queue) /\ \A v \in Workers : v # w => running'[v] = running[v]
        /\ UNCHANGED <<http, socket, link, callback, loop, row, judged, published,
                       applied, lost, faults>>
    BY <1>0, <1>1 DEF Start, books, tables, TypeOK
  <2>2. /\ Head(queue) \in Elements(queue) /\ Elements(queue') \subseteq Elements(queue)
        /\ InOrder(queue') /\ \A x \in Elements(queue') : ~Needs(Head(queue), x)
    BY <1>0, <2>1, TakeOnce, TakeInOrder DEF InsertsFirst
  <2>3. InsertsFirst'
    BY <1>0, <2>1, <2>2 DEF InsertsFirst
  <2>4. InsertPublished'
    BY <1>0, <2>1, <2>2 DEF InsertPublished
  <2>. QED BY <1>0, <2>1, <2>3, <2>4 DEF OrderInv, RowInserted, Faultless
<1>2. CASE Judge(w)
  <2>1. /\ running[w].op = "judge"
        /\ UNCHANGED <<http, queue, running, socket, link, callback, loop, row, published,
                       applied, lost, faults>>
        /\ \E n, rs : judged' = [judged EXCEPT ![running[w].sub] = Found(n, rs)]
    BY <1>2 DEF Judge, books, tables
  <2>2. \A t \in Subs : t # running[w].sub => judged'[t] = judged[t]
    BY <1>0, <2>1 DEF TypeOK
  <2>3. InsertsFirst'
    BY <1>0, <2>1, ShrinkInOrder
  <2>4. InsertPublished'
    BY <1>0, <2>1, <2>2 DEF InsertPublished
  <2>. QED BY <1>0, <2>1, <2>3, <2>4 DEF OrderInv, RowInserted, Faultless
<1>3. CASE JudgePublish(w)
  <2>. DEFINE m == Head(outbox[w])
  <2>1. /\ outbox[w] # <<>> /\ Publish(m) /\ outbox[w] \in Seq(Messages)
        /\ UNCHANGED <<http, queue, link, callback, loop, row, judged, applied, faults>>
        /\ \A v \in Workers : running'[v] = running[v] \/ running'[v] = NoTask
    BY <1>0, <1>3 DEF JudgePublish, EndTask, tables, TypeOK
  <2>2. m \in Messages /\ m \in Elements(outbox[w]) /\ m.op # "insert"
    BY <2>1, TakeOnce DEF OnceInv, Unpublished
  <2>. HIDE DEF m
  <2>3. /\ published' = published \cup {m}
        /\ \/ link = "up" /\ socket' = Append(socket, m) /\ UNCHANGED lost
           \/ link # "up" /\ UNCHANGED socket
    BY <2>1 DEF Publish
  <2>4. \A x : ~Needs(x, m)
    BY <2>2, InsertFacts DEF Needs
  <2>5. InsertsFirst'
    <3>1. CASE socket' = Append(socket, m)
      <4>1. Elements(socket') = Elements(socket) \cup {m} /\ InOrder(socket')
        BY <1>0, <2>2, <2>4, <3>1, AppendOnce, AppendInOrder DEF TypeOK, InsertsFirst
      <4>. QED BY <1>0, <2>1, <2>4, <4>1, EmptyInOrder DEF InsertsFirst
    <3>2. CASE UNCHANGED socket
      BY <1>0, <2>1, <3>2, ShrinkInOrder
    <3>. QED BY <2>3, <3>1, <3>2
  <2>6. InsertPublished'
    <3>1. NoTask.op = "none"
      BY DEF NoTask, Op
    <3>. QED BY <1>0, <2>1, <2>2, <2>3, <3>1 DEF InsertPublished
  <2>. QED BY <1>0, <2>1, <2>3, <2>5, <2>6 DEF OrderInv, RowInserted, Faultless
<1>. QED BY <1>1, <1>2, <1>3

(* The statement of an INSERT finds no row; any other that finds none has  *)
(* overtaken its INSERT.                                                   *)
LEMMA ExecutedNeeds ==
    ASSUME FlowInv, OnceInv, RecordInv, OrderInv, NEW w \in Workers, running[w].op \in DbOps,
           ~Applies(running[w])
    PROVE  /\ running[w].op # "insert"
           /\ faults = 0 => \E v \in Workers : running[v] = InsertOp(running[w].sub)
<1>. DEFINE m == running[w]
            x == InsertOp(m.sub)
<1>0. TypeOK /\ Accounted /\ InsertsFirst /\ InsertPublished /\ RowInserted /\ Faultless
  BY DEF FlowInv, OnceInv, OrderInv
<1>1. /\ m \in Messages /\ m.sub \in Subs /\ m \notin applied /\ m \in published
      /\ m.op \in {"insert", "update", "result"}
      /\ m.op # "insert" => judged[m.sub].done
  BY ExecutedIsExact DEF RecordInv
<1>2. m.op # "insert"
  <2>. SUFFICES ASSUME m.op = "insert" PROVE FALSE
    OBVIOUS
  <2>1. m = x
    BY <1>0, <1>1 DEF InsertPublished
  <2>2. row[m.sub] # "none"
    BY DEF Applies
  <2>. QED BY <1>0, <1>1, <2>1, <2>2 DEF RowInserted
<1>3. ASSUME faults = 0 PROVE \E v \in Workers : running[v] = x
  <2>1. x \notin applied
    BY <1>0, <1>1, <1>2 DEF Applies, RowInserted
  <2>2. x \in published /\ x \notin lost /\ x \in Messages
    BY <1>0, <1>1, <1>2, <1>3, InsertFacts DEF InsertPublished, Faultless
  <2>3. x \in InFlight
    BY <1>0, <2>1, <2>2 DEF Accounted
  <2>4. x \notin Elements(queue) \cup Elements(socket)
    BY <1>0, <1>1, <1>2 DEF InsertsFirst, Needs
  <2>. QED BY <1>0, <2>2, <2>3, <2>4, OnItsWay DEF Ways
<1>. QED BY <1>2, <1>3

LEMMA ExecuteOrder ==
    ASSUME FlowInv, OnceInv, RecordInv, OrderInv, NEW w \in Workers,
           Execute(w) \/ ExecuteFails(w)
    PROVE  OrderInv'
<1>. DEFINE m == running[w]
<1>0. TypeOK /\ InsertsFirst /\ InsertPublished /\ RowInserted /\ Faultless
  BY DEF FlowInv, OrderInv
<1>1. /\ m.op \in DbOps
      /\ \A v \in Workers : running'[v] = running[v] \/ running'[v] = NoTask
      /\ UNCHANGED <<http, queue, socket, link, callback, loop, judged, published>>
  BY <1>0 DEF Execute, ExecuteFails, EndTask, TypeOK
<1>2. /\ m.sub \in Subs /\ m \in published /\ m.op \in {"insert", "update", "result"}
      /\ m.op = "insert" => m.status = "PENDING" /\ m = InsertOp(m.sub)
      /\ m.op = "update" => m.status = SetStatus(judged[m.sub].results)
                            /\ m.status \in OverallStatuses
  <2>1. Truthful(m, judged)
    BY DEF FlowInv, MessagesTruthful
  <2>. QED BY <1>0, <1>1, <2>1, ExecutedIsExact DEF RecordInv, InsertPublished, Truthful
<1>3. InsertsFirst'
  BY <1>0, <1>1, ShrinkInOrder
<1>4. InsertPublished'
  <2>1. NoTask.op = "none"
    BY DEF NoTask, Op
  <2>. QED BY <1>0, <1>1, <2>1 DEF InsertPublished
<1>5. \/ Applies(m) /\ Effect(m) /\ applied' = applied \cup {m} /\ UNCHANGED <<lost, faults>>
      \/ ~Applies(m) /\ lost' = lost \cup {m} /\ UNCHANGED <<row, applied, faults>>
      \/ faults' = faults + 1 /\ UNCHANGED <<row, applied>>
  BY DEF Execute, ExecuteFails, Fault, tables
<1>. HIDE DEF m
<1>6. CASE Applies(m) /\ Effect(m) /\ applied' = applied \cup {m} /\ UNCHANGED <<lost, faults>>
  <2>1. "none" \notin OverallStatuses
    BY DEF OverallStatuses, TestStatuses, ExecStatuses
  <2>2. \A s \in Subs : row'[s] = IF s = m.sub /\ m.op # "result" THEN m.status ELSE row[s]
    BY <1>0, <1>2, <1>6 DEF Effect, TypeOK
  <2>3. row'[m.sub] # "none"
    BY <1>2, <1>6, <2>1, <2>2 DEF Applies
  <2>4. InsertOp(m.sub) \in applied'
    BY <1>0, <1>2, <1>6 DEF Applies, RowInserted
  <2>5. \A s \in Subs : s # m.sub => (InsertOp(s) \in applied' <=> InsertOp(s) \in applied)
    BY <1>6, InsertFacts
  <2>6. RowInserted'
    BY <1>0, <2>2, <2>3, <2>4, <2>5 DEF RowInserted
  <2>. QED BY <1>0, <1>1, <1>3, <1>4, <1>6, <2>6 DEF OrderInv, Faultless
<1>7. CASE ~Applies(m) /\ lost' = lost \cup {m} /\ UNCHANGED <<row, applied, faults>>
  <2>1. m.op # "insert"
    BY <1>1, <1>7, ExecutedNeeds DEF m
  <2>2. Faultless'
    BY <1>0, <1>1, <1>7, <2>1, InsertFacts DEF Faultless
  <2>. QED BY <1>0, <1>3, <1>4, <1>7, <2>2 DEF OrderInv, RowInserted
<1>8. CASE faults' = faults + 1 /\ UNCHANGED <<row, applied>>
  <2>1. faults' # 0
    BY <1>0, <1>8 DEF TypeOK
  <2>. QED BY <1>0, <1>3, <1>4, <1>8, <2>1 DEF OrderInv, RowInserted, Faultless
<1>. QED BY <1>5, <1>6, <1>7, <1>8

LEMMA LoopOrder ==
    ASSUME FlowInv, OnceInv, OrderInv, NEW w \in Workers, LoopStep(w)
    PROVE  OrderInv'
<1>0. TypeOK /\ InsertsFirst /\ InsertPublished /\ RowInserted /\ Faultless
  BY DEF FlowInv, OrderInv
<1>1. CASE Consume(w)
  <2>. DEFINE m == Head(socket)
  <2>1. /\ socket # <<>> /\ socket' = Tail(socket) /\ socket \in Seq(Messages)
        /\ \/ callback /\ queue' = Append(queue, m) /\ UNCHANGED lost
           \/ ~callback /\ UNCHANGED queue
        /\ UNCHANGED <<http, running, link, callback, loop, row, judged, published,
                       applied, faults>>
    BY <1>0, <1>1 DEF Consume, TypeOK, tables
  <2>2. /\ m \in Messages /\ m \in Elements(socket)
        /\ Elements(socket') \subseteq Elements(socket)
        /\ InOrder(socket') /\ \A x \in Elements(socket') : ~Needs(m, x)
    BY <1>0, <2>1, TakeOnce, TakeInOrder DEF InsertsFirst
  <2>3. m \in Tasks /\ m.op # "judge"
    BY <2>2, NoMessages, TaskFacts DEF DbOps
  <2>. HIDE DEF m
  <2>4. CASE queue' = Append(queue, m) /\ UNCHANGED lost
    <3>1. Elements(queue') = Elements(queue) \cup {m} /\ InOrder(queue')
      BY <1>0, <2>2, <2>3, <2>4, AppendOnce, AppendInOrder DEF TypeOK, InsertsFirst
    <3>2. InsertsFirst'
      BY <1>0, <2>1, <2>2, <3>1 DEF InsertsFirst
    <3>3. InsertPublished'
      BY <1>0, <2>1, <2>3, <3>1 DEF InsertPublished
    <3>. QED BY <1>0, <2>1, <2>4, <3>2, <3>3 DEF OrderInv, RowInserted, Faultless
  <2>5. CASE ~callback /\ UNCHANGED queue
    <3>1. InsertsFirst'
      BY <1>0, <2>1, <2>2, <2>5 DEF InsertsFirst
    <3>2. InsertPublished'
      BY <1>0, <2>1, <2>5 DEF InsertPublished
    <3>. QED BY <1>0, <2>1, <2>5, <3>1, <3>2 DEF OrderInv, RowInserted, Faultless
  <2>. QED BY <2>1, <2>4, <2>5
<1>2. CASE ConsumeClosed(w) \/ ConsumeError(w) \/ Resubscribe(w)
  <2>1. /\ UNCHANGED <<http, queue, socket, row, judged, published, applied, lost, faults>>
        /\ link # "up" \/ loop # "consuming"
        /\ \A v \in Workers : running'[v] = running[v] \/ running'[v] = NoTask
    BY <1>0, <1>2 DEF ConsumeClosed, ConsumeError, Resubscribe, LoopOn, EndTask, TypeOK,
                      books, tables
  <2>2. InsertsFirst'
    BY <1>0, <2>1, ShrinkInOrder
  <2>3. InsertPublished'
    <3>1. NoTask.op = "none"
      BY DEF NoTask, Op
    <3>. QED BY <1>0, <2>1, <3>1 DEF InsertPublished
  <2>. QED BY <1>0, <2>1, <2>2, <2>3 DEF OrderInv, RowInserted, Faultless
<1>. QED BY <1>1, <1>2 DEF LoopStep

(* Other faults end tasks and lose messages. *)
LEMMA FaultOrder ==
    ASSUME FlowInv, OrderInv,
           \/ \E w \in Workers : JudgeFails(w) \/ JudgePublishFails(w) \/ ResubscribeFails(w)
           \/ LinkCloses \/ LinkResets \/ CrashRestart
    PROVE  OrderInv'
<1>0. TypeOK /\ InsertsFirst /\ InsertPublished /\ RowInserted /\ Faultless
  BY DEF FlowInv, OrderInv
<1>1. /\ UNCHANGED <<row, judged, published, applied>>
      /\ faults' = faults + 1
      /\ \A s \in Subs : http'[s] \in {"enqueueing", "accepted"} => http'[s] = http[s]
      /\ socket' = socket \/ socket' = <<>>
      /\ \A v \in Workers : running'[v] = running[v] \/ running'[v] = NoTask
      /\ queue' = queue \/ CrashRestart
  <2>1. CASE \E w \in Workers : JudgeFails(w) \/ JudgePublishFails(w) \/ ResubscribeFails(w)
    BY <1>0, <2>1 DEF JudgeFails, JudgePublishFails, ResubscribeFails, EndTask, Fault, tables, TypeOK
  <2>2. CASE LinkCloses \/ LinkResets
    BY <2>2 DEF LinkCloses, LinkResets, Fault, tables
  <2>3. CASE CrashRestart
    BY <2>3 DEF CrashRestart, Fault, tables
  <2>. QED BY <2>1, <2>2, <2>3
<1>2. faults' # 0
  BY <1>0, <1>1 DEF TypeOK
<1>3. NoTask.op = "none" /\ LoopTask.op = "loop"
  BY DEF NoTask, LoopTask, Op
<1>4. CASE queue' = queue
  <2>1. InsertsFirst'
    BY <1>0, <1>1, <1>4, ShrinkInOrder
  <2>2. InsertPublished'
    BY <1>0, <1>1, <1>3, <1>4 DEF InsertPublished
  <2>. QED BY <1>0, <1>1, <1>2, <2>1, <2>2 DEF OrderInv, RowInserted, Faultless
<1>5. CASE CrashRestart
  <2>1. /\ queue' = <<LoopTask>> /\ socket' = <<>>
        /\ \A w \in Workers : running'[w] = NoTask
    BY <1>5 DEF CrashRestart
  <2>2. /\ Elements(queue') = {LoopTask} /\ Elements(socket') = {}
        /\ InOrder(queue') /\ InOrder(socket')
    <3>1. ~Needs(LoopTask, LoopTask)
      BY <1>3 DEF Needs
    <3>. QED BY <2>1, <3>1, EmptyOnce, EmptyInOrder DEF Elements, InOrder
  <2>3. InsertsFirst'
    BY <2>1, <2>2, EmptyInOrder DEF InsertsFirst
  <2>4. InsertPublished'
    BY <1>0, <1>1, <1>3, <2>1, <2>2 DEF InsertPublished
  <2>. QED BY <1>0, <1>1, <1>2, <2>3, <2>4 DEF OrderInv, RowInserted, Faultless
<1>. QED BY <1>1, <1>4, <1>5

LEMMA InitOrder == Init => OrderInv
<1>. SUFFICES ASSUME Init PROVE OrderInv
  OBVIOUS
<1>1. /\ queue = <<LoopTask>> /\ socket = <<>>
      /\ \A w \in Workers : running[w] = NoTask
  BY DEF Init
<1>2. NoTask.op = "none" /\ LoopTask.op = "loop" /\ ~Needs(LoopTask, LoopTask)
  BY DEF NoTask, LoopTask, Op, Needs
<1>3. /\ Elements(queue) = {LoopTask} /\ Elements(socket) = {}
      /\ InOrder(queue) /\ InOrder(socket)
  BY <1>1, <1>2, EmptyOnce, EmptyInOrder DEF Elements, InOrder
<1>4. InsertsFirst
  BY <1>1, <1>3, EmptyInOrder DEF InsertsFirst
<1>5. InsertPublished
  BY <1>1, <1>2, <1>3 DEF Init, InsertPublished, NotJudged
<1>. QED BY <1>4, <1>5 DEF Init, OrderInv, RowInserted, Faultless

LEMMA NextOrder == FlowInv /\ OnceInv /\ RecordInv /\ OrderInv /\ [Next]_vars => OrderInv'
<1>. SUFFICES ASSUME FlowInv, OnceInv, RecordInv, OrderInv, [Next]_vars PROVE OrderInv'
  OBVIOUS
<1>1. ASSUME NEW s \in Subs, HttpStep(s) \/ SubmitFails(s) PROVE OrderInv'
  BY <1>1, HttpOrder
<1>2. ASSUME NEW w \in Workers, WorkerStep(w) \/ ExecuteFails(w) PROVE OrderInv'
  BY <1>2, WorkerOrder, ExecuteOrder, LoopOrder DEF WorkerStep
<1>3. CASE \/ \E w \in Workers : JudgeFails(w) \/ JudgePublishFails(w) \/ ResubscribeFails(w)
           \/ LinkCloses \/ LinkResets \/ CrashRestart
  BY <1>3, FaultOrder
<1>4. CASE Quiet \/ UNCHANGED vars
  <2>1. UNCHANGED <<http, queue, running, socket, link, callback, loop, row, judged,
                    published, applied, lost, faults>>
    BY <1>4 DEF Quiet, vars, memory, tables, books
  <2>2. InsertsFirst'
    BY <2>1, ShrinkInOrder DEF OrderInv
  <2>. QED BY <2>1, <2>2 DEF OrderInv, InsertPublished, RowInserted, Faultless
<1>. QED BY <1>1, <1>2, <1>3, <1>4 DEF Next, FaultStep

(* The steps that lose a message. *)
LEMMA LosingStep ==
    ASSUME FlowInv, OnceInv, RecordInv, OrderInv, [Next]_vars
    PROVE  \A m \in lost' \ lost : faults' = 0 =>
              \E v, w \in Workers : /\ running[v] = m /\ m.op \in {"update", "result"}
                                    /\ running[w] = InsertOp(m.sub)
<1>. DEFINE Overtakes(m) == \E v, w \in Workers : /\ running[v] = m /\ m.op \in {"update", "result"}
                                                  /\ running[w] = InsertOp(m.sub)
<1>. SUFFICES ASSUME NEW m \in lost' \ lost, faults' = 0
              PROVE  Overtakes(m)
  OBVIOUS
<1>1. TypeOK /\ Faultless
  BY DEF FlowInv, OrderInv
<1>2. ~Fault
  BY <1>1 DEF Fault, TypeOK
<1>3. ASSUME NEW w \in Workers, Execute(w)
      PROVE  Overtakes(m)
  <2>1. ~Applies(running[w]) /\ m = running[w] /\ running[w].op \in DbOps /\ faults = 0
    BY <1>3 DEF Execute
  <2>. QED BY <2>1, ExecutedNeeds DEF DbOps
<1>4. ASSUME ~ \E w \in Workers : Execute(w) PROVE FALSE
  <2>1. faults = 0 /\ link = "up" /\ callback
    <3>1. ASSUME NEW s \in Subs, HttpStep(s) PROVE faults = 0
      BY <3>1 DEF HttpStep, SubmitPublish, SubmitEnqueue, books
    <3>2. ASSUME NEW w \in Workers, WorkerStep(w) PROVE faults = 0
      BY <1>4, <3>2 DEF WorkerStep, Start, Judge, JudgePublish, LoopStep, Consume, ConsumeClosed,
                        ConsumeError, Resubscribe, books
    <3>3. ~FaultStep
      BY <1>2 DEF FaultStep, SubmitFails, JudgeFails, JudgePublishFails, ExecuteFails,
                  ResubscribeFails, LinkCloses, LinkResets, CrashRestart
    <3>4. CASE Quiet \/ UNCHANGED vars
      BY <3>4 DEF Quiet, vars, books
    <3>5. faults = 0
      BY <3>1, <3>2, <3>3, <3>4 DEF Next
    <3>. QED BY <1>1, <3>5 DEF Faultless
  <2>2. ASSUME NEW s \in Subs, HttpStep(s) PROVE FALSE
    BY <2>1, <2>2 DEF HttpStep, SubmitPublish, SubmitEnqueue, Publish, books
  <2>3. ASSUME NEW w \in Workers, WorkerStep(w) PROVE FALSE
    BY <1>4, <2>1, <2>3 DEF WorkerStep, Start, Judge, JudgePublish, Publish, LoopStep, Consume,
                            ConsumeClosed, ConsumeError, Resubscribe, books
  <2>4. ~FaultStep
    BY <1>2 DEF FaultStep, SubmitFails, JudgeFails, JudgePublishFails, ExecuteFails,
                ResubscribeFails, LinkCloses, LinkResets, CrashRestart
  <2>5. CASE Quiet \/ UNCHANGED vars
    BY <2>5 DEF Quiet, vars, books
  <2>. QED BY <2>2, <2>3, <2>4, <2>5 DEF Next
<1>. QED BY <1>3, <1>4

LEMMA OrderInvariant == Spec => [](FlowInv /\ OnceInv /\ RecordInv /\ OrderInv)
BY InitOrder, NextOrder, RecordInvariant, PTL DEF Spec

(* Without a fault a message is lost in one way only: a worker executes    *)
(* its statement while another still holds the INSERT of its submission.   *)
(* Queue and socket never bring anything ahead of what it needs.           *)
THEOREM OnlyOvertakingLoses == Spec => LossIsOvertaking
<1>1. FlowInv /\ OnceInv /\ RecordInv /\ OrderInv /\ [Next]_vars =>
      [\A m \in lost' \ lost :
          faults' = 0 => \E w \in Workers : running[w] = InsertOp(m.sub)]_vars
  BY LosingStep
<1>. QED BY <1>1, OrderInvariant, PTL DEF Spec, LossIsOvertaking

-----------------------------------------------------------------------------
(* What the tables hold when nothing fails and the pool is idle.           *)

(* The judge task of s has not reported yet. *)
Awaited(s) == \/ JudgeTask(s) \in Elements(queue)
              \/ \E w \in Workers : running[w] = JudgeTask(s) /\ outbox[w] = <<>>

(* An accepted submission will be judged, and all that is found for it was *)
(* or will be published.                                                   *)
Underway ==
    faults = 0 =>
       \A s \in Subs :
          /\ http[s] = "accepted" => judged[s].done \/ Awaited(s)
          /\ judged[s].done => \A m \in Says(s, judged[s].results) :
                m \in published \/ \E w \in Workers : m \in Elements(outbox[w])

(* What was applied is in the tables. *)
InTables ==
    \A s \in Subs :
       LET rs == judged[s].results
       IN  /\ UpdateOp(s, SetStatus(rs)) \in applied => row[s] = SetStatus(rs)
           /\ \A i \in 1..MaxTests :
                 ResultOp(s, i, rs[i]) \in applied => results[s][i] = <<rs[i]>>

(* The subscriber loop has a worker from the start. *)
LoopRuns ==
    faults = 0 => \/ \E w \in Workers : running[w] = LoopTask
                  \/ /\ queue # <<>> /\ queue[1] = LoopTask
                     /\ \A w \in Workers : running[w] = NoTask

NoneLost == faults = 0 /\ (\E v, w \in Workers : Workers = {v, w}) => lost = {}

SettleInv == Underway /\ InTables /\ LoopRuns /\ NoneLost

(* Tasks are told apart by their kind. *)
LEMMA KindsApart ==
    /\ LoopTask.op = "loop" /\ NoTask.op = "none"
    /\ \A s : JudgeTask(s).op = "judge" /\ JudgeTask(s).sub = s
    /\ \A s, v : UpdateOp(s, v).op = "update" /\ UpdateOp(s, v).sub = s
                 /\ UpdateOp(s, v).status = v
    /\ \A s, i, v : ResultOp(s, i, v).op = "result" /\ ResultOp(s, i, v).sub = s
                    /\ ResultOp(s, i, v).seq = i /\ ResultOp(s, i, v).status = v
BY DEF LoopTask, NoTask, JudgeTask, UpdateOp, ResultOp, Op

LEMMA SaysWhat ==
    ASSUME NEW s, NEW rs, NEW m \in Says(s, rs)
    PROVE  m.sub = s /\ m.op \in {"update", "result"}
BY KindsApart DEF Says

(* A pool of two workers with a loop, an INSERT and what needs it is too   *)
(* small: nothing is overtaken in it.                                      *)
LEMMA NextNoneLost ==
    ASSUME FlowInv, OnceInv, RecordInv, OrderInv, LoopRuns, NoneLost, [Next]_vars
    PROVE  NoneLost'
<1>. SUFFICES ASSUME faults' = 0, NEW a \in Workers, NEW b \in Workers, Workers = {a, b},
                     NEW m \in lost'
              PROVE  FALSE
  BY DEF NoneLost
<1>1. faults = 0
  <2>1. faults \in Nat
    BY BoundsAssumption DEF FlowInv, TypeOK
  <2>2. faults' = faults \/ faults' = faults + 1
    BY DEF Next, FaultStep, Fault, HttpStep, SubmitPublish, SubmitEnqueue, WorkerStep, Start, Judge,
           JudgePublish, Execute, LoopStep, Consume, ConsumeClosed, ConsumeError, Resubscribe,
           SubmitFails, JudgeFails, JudgePublishFails, ExecuteFails, ResubscribeFails,
           LinkCloses, LinkResets, CrashRestart, Quiet, vars, books
  <2>. QED BY <2>1, <2>2
<1>2. m \notin lost
  BY <1>1 DEF NoneLost
<1>3. PICK v \in Workers, w \in Workers : /\ running[v] = m /\ m.op \in {"update", "result"}
                                         /\ running[w] = InsertOp(m.sub)
  BY <1>2, LosingStep
<1>4. PICK u \in Workers : running[u] = LoopTask
  BY <1>1, <1>3, KindsApart DEF LoopRuns
<1>5. u # v /\ u # w /\ v # w
  BY <1>3, <1>4, KindsApart, InsertFacts
<1>. QED BY <1>5

(* A fault is counted. *)
LEMMA FaultCounted == ASSUME FlowInv, FaultStep PROVE faults' # 0 /\ faults' > faults
<1>1. faults \in Nat
  BY BoundsAssumption DEF FlowInv, TypeOK
<1>2. faults' = faults + 1
  BY DEF FaultStep, Fault, SubmitFails, JudgeFails, JudgePublishFails, ExecuteFails,
         ResubscribeFails, LinkCloses, LinkResets, CrashRestart
<1>. QED BY <1>1, <1>2

(* The loop leaves the queue for a worker, and nobody takes it from there. *)
LEMMA NextLoopRuns ==
    ASSUME FlowInv, OrderInv, LoopRuns, [Next]_vars
    PROVE  LoopRuns'
<1>0. TypeOK /\ Faultless /\ NoTask.op = "none" /\ LoopTask.op = "loop"
  BY KindsApart DEF FlowInv, OrderInv
<1>. SUFFICES ASSUME faults' = 0 PROVE LoopRuns'
  BY DEF LoopRuns
<1>1. ASSUME NEW s \in Subs, HttpStep(s) PROVE LoopRuns'
  <2>1. UNCHANGED <<running, faults>> /\ (UNCHANGED queue \/ queue' = Append(queue, JudgeTask(s)))
    BY <1>1 DEF HttpStep, SubmitPublish, SubmitEnqueue, books
  <2>2. queue # <<>> => queue' # <<>> /\ queue'[1] = queue[1]
    <3>1. ASSUME queue' = Append(queue, JudgeTask(s)), queue # <<>>
          PROVE  queue' # <<>> /\ queue'[1] = queue[1]
      <4>1. queue \in Seq(Tasks) /\ JudgeTask(s) \in Tasks
        BY <1>0 DEF TypeOK, Tasks
      <4>. QED BY <3>1, <4>1
    <3>. QED BY <2>1, <3>1
  <2>. QED BY <2>1, <2>2 DEF LoopRuns
<1>2. ASSUME NEW w \in Workers, WorkerStep(w) PROVE LoopRuns'
  <2>1. CASE Start(w)
    <3>1. /\ running[w] = NoTask /\ queue # <<>> /\ UNCHANGED faults
          /\ running' = [running EXCEPT ![w] = Head(queue)]
      BY <2>1 DEF Start, books
    <3>2. CASE \E v \in Workers : running[v] = LoopTask
      BY <1>0, <3>1, <3>2 DEF LoopRuns, TypeOK
    <3>3. CASE queue[1] = LoopTask
      <4>1. Head(queue) = LoopTask
        BY <1>0, <3>1, <3>3 DEF TypeOK
      <4>. QED BY <1>0, <3>1, <4>1 DEF LoopRuns, TypeOK
    <3>. QED BY <3>1, <3>2, <3>3 DEF LoopRuns
  <2>2. ASSUME running[w] # NoTask, running[w] # LoopTask,
               running' = running \/ EndTask(w), UNCHANGED faults
        PROVE  LoopRuns'
    BY <1>0, <2>2 DEF LoopRuns, EndTask, TypeOK
  <2>3. CASE Judge(w) \/ JudgePublish(w) \/ Execute(w)
    <3>1. running[w].op \in DbOps \cup {"judge"}
      BY <1>0, <2>3 DEF Judge, JudgePublish, Execute, TypeOK
    <3>2. running' = running \/ EndTask(w)
      BY <2>3 DEF Judge, JudgePublish, Execute
    <3>3. UNCHANGED faults
      BY <2>3 DEF Judge, JudgePublish, Execute, books
    <3>. QED BY <1>0, <2>2, <3>1, <3>2, <3>3 DEF DbOps
  <2>4. CASE LoopStep(w)
    <3>1. running[w] = LoopTask /\ faults' = faults /\ (running' = running \/ link = "reset")
      BY <2>4 DEF LoopStep, LoopOn, Consume, ConsumeClosed, ConsumeError, Resubscribe, books
    <3>. QED BY <1>0, <3>1 DEF LoopRuns, Faultless
  <2>. QED BY <1>2, <2>1, <2>3, <2>4 DEF WorkerStep
<1>3. CASE Quiet \/ UNCHANGED vars
  BY <1>3 DEF Quiet, LoopRuns, vars, memory, books
<1>. QED BY <1>1, <1>2, <1>3, FaultCounted DEF Next

(* A statement writes what its message says, once; nothing writes over it. *)
LEMMA ExecuteInTables ==
    ASSUME FlowInv, OnceInv, RecordInv, InTables, NEW w \in Workers, Execute(w)
    PROVE  InTables'
<1>0. TypeOK /\ Exact /\ Booked
  BY DEF FlowInv, RecordInv
<1>. DEFINE m == running[w]
            s == m.sub
            rs == judged[s].results
<1>1. /\ m.op \in DbOps
      /\ UNCHANGED judged
      /\ \/ Applies(m) /\ Effect(m) /\ applied' = applied \cup {m}
         \/ UNCHANGED <<row, results, applied>>
  BY DEF Execute, tables
<1>2. /\ m \in Messages /\ s \in Subs /\ m \notin applied
      /\ m.op \in {"insert", "update", "result"}
      /\ m.op # "insert" => judged[s].done
      /\ m.op = "update" => m = UpdateOp(s, SetStatus(rs))
      /\ m.op = "result" => /\ m.seq \in 1..Len(rs) /\ m.seq \in 1..MaxTests
                            /\ m = ResultOp(s, m.seq, rs[m.seq])
  BY <1>0, <1>1, ExecutedIsExact
<1>3. CASE UNCHANGED <<row, results, applied>>
  BY <1>1, <1>3 DEF InTables
<1>. HIDE DEF m
<1>4. CASE m.op = "insert" /\ Applies(m) /\ Effect(m) /\ applied' = applied \cup {m}
  <2>1. row[s] = "none" /\ row' = [row EXCEPT ![s] = m.status] /\ UNCHANGED results
    BY <1>4 DEF Applies, Effect
  <2>2. \A t \in Subs : UpdateOp(t, SetStatus(judged[t].results)) \in applied =>
                            judged[t].done /\ row[t] = SetStatus(judged[t].results)
    BY <1>0, KindsApart DEF InTables, OnceInv, Accounted, Unpublished
  <2>3. ASSUME judged[s].done PROVE SetStatus(rs) # "none"
    <3>1. judged[s].tests \in Nat /\ rs \in Runs(judged[s].tests, TestStatuses)
      BY <1>0, <1>2, <2>3, BoundsAssumption DEF FlowInv, TypeOK, FoundByRun
    <3>2. SetStatus(rs) \in OverallStatuses
      BY <3>1, AcceptMeansAll
    <3>. QED BY <3>2 DEF OverallStatuses, TestStatuses, ExecStatuses
  <2>4. UpdateOp(s, SetStatus(rs)) \notin applied
    BY <1>2, <2>1, <2>2, <2>3
  <2>5. \A x : x # m => (x \in applied' <=> x \in applied)
    BY <1>4
  <2>6. \A t \in Subs : t # s => row'[t] = row[t]
    BY <1>0, <2>1 DEF TypeOK
  <2>. QED BY <1>1, <1>2, <1>4, <2>1, <2>4, <2>5, <2>6, KindsApart DEF InTables
<1>5. CASE m.op = "update" /\ Applies(m) /\ Effect(m) /\ applied' = applied \cup {m}
  <2>1. row' = [row EXCEPT ![s] = SetStatus(rs)] /\ UNCHANGED results
    <3>1. m.status = SetStatus(rs)
      BY <1>2, <1>5, KindsApart
    <3>. QED BY <1>5, <3>1 DEF Effect
  <2>2. row'[s] = SetStatus(rs) /\ \A t \in Subs : t # s => row'[t] = row[t]
    BY <1>0, <1>2, <2>1 DEF TypeOK
  <2>3. \A t \in Subs : \A v : t # s => UpdateOp(t, v) # m
    BY KindsApart
  <2>. QED BY <1>1, <1>5, <2>1, <2>2, <2>3, KindsApart DEF InTables
<1>6. CASE m.op = "result" /\ Applies(m) /\ Effect(m) /\ applied' = applied \cup {m}
  <2>. DEFINE i == m.seq
  <2>1. /\ i \in 1..Len(rs) /\ i \in 1..MaxTests /\ m = ResultOp(s, i, rs[i]) /\ m.status = rs[i]
    BY <1>2, <1>6, KindsApart
  <2>2. row' = row
    BY <1>0, <1>2, <1>6 DEF Effect, TypeOK
  <2>3. results[s][i] = <<>>
    BY <1>0, <1>2, <2>1 DEF Booked
  <2>4. results' = [results EXCEPT ![s][i] = <<rs[i]>>]
    <3>1. results' = [results EXCEPT ![s][i] = Append(results[s][i], m.status)]
      BY <1>6 DEF Effect
    <3>2. Append(results[s][i], m.status) = <<rs[i]>>
      BY <2>1, <2>3
    <3>. QED BY <3>1, <3>2
  <2>5. /\ results'[s][i] = <<rs[i]>>
        /\ \A t \in Subs : t # s => results'[t] = results[t]
        /\ \A j \in 1..MaxTests : j # i => results'[s][j] = results[s][j]
    <3>1. results[s] \in [1..MaxTests -> Seq(TestStatuses)] /\ results \in [Subs -> [1..MaxTests -> Seq(TestStatuses)]]
      BY <1>0, <1>2 DEF TypeOK
    <3>. QED BY <1>2, <2>1, <2>4, <3>1
  <2>6. \A t \in Subs : \A j, v : t # s \/ j # i => ResultOp(t, j, v) # m
    BY KindsApart
  <2>7. \A t \in Subs : \A v : UpdateOp(t, v) # m
    BY <1>6, KindsApart
  <2>. QED BY <1>1, <1>2, <1>6, <2>1, <2>2, <2>5, <2>6, <2>7 DEF InTables
<1>. QED BY <1>1, <1>2, <1>3, <1>4, <1>5, <1>6

LEMMA NextInTables ==
    ASSUME FlowInv, OnceInv, RecordInv, InTables, [Next]_vars
    PROVE  InTables'
<1>1. ASSUME NEW w \in Workers, Execute(w) PROVE InTables'
  BY <1>1, ExecuteInTables
<1>2. ASSUME NEW w \in Workers, Judge(w) PROVE InTables'
  <2>. DEFINE s == running[w].sub
  <2>1. /\ s \in Subs /\ ~judged[s].done
        /\ UNCHANGED <<row, results, applied>>
        /\ \A t \in Subs : t # s => judged'[t] = judged[t]
    BY <1>2, TaskFacts DEF Judge, TypeOK, FlowInv, NotYetJudged, books, tables
  <2>2. \A m \in applied : m.op # "insert" => m.sub # s
    BY <2>1 DEF OnceInv, Accounted, Unpublished
  <2>3. \A i, v : UpdateOp(s, v) \notin applied /\ ResultOp(s, i, v) \notin applied
    BY <2>2, KindsApart
  <2>. HIDE DEF s
  <2>. QED BY <2>1, <2>3 DEF InTables
<1>3. CASE ~ \E w \in Workers : Judge(w) \/ Execute(w)
  BY <1>3, StepKinds DEF Moves, InTables
<1>. QED BY <1>1, <1>2, <1>3

(* What the judge task publishes is all that it says. *)
LEMMA ReportSays ==
    ASSUME NEW s, NEW n \in Nat, NEW O, NEW rs \in Runs(n, O)
    PROVE  Says(s, rs) \subseteq Elements(Report(s, rs))
<1>. DEFINE rest == [i \in 1..Len(rs) |-> ResultOp(s, i, rs[i])]
            u == UpdateOp(s, SetStatus(rs))
<1>1. Len(rs) \in Nat
  BY RunIsSequence
<1>2. /\ Len(<<u>> \o rest) = Len(rs) + 1 /\ (<<u>> \o rest)[1] = u
      /\ \A i \in 1..Len(rs) : (<<u>> \o rest)[i + 1] = rest[i]
  <2>1. rest \in Seq({rest[i] : i \in 1..Len(rs)}) /\ Len(rest) = Len(rs)
    BY <1>1
  <2>. HIDE DEF rest, u
  <2>. QED BY <1>1, <2>1
<1>3. \A i \in 1..Len(rs) : i + 1 \in 1..Len(rs) + 1 /\ 1 \in 1..Len(rs) + 1
  BY <1>1
<1>4. u \in Elements(<<u>> \o rest)
  BY <1>1, <1>2 DEF Elements
<1>5. \A i \in 1..Len(rs) : rest[i] \in Elements(<<u>> \o rest)
  BY <1>2, <1>3 DEF Elements
<1>. QED BY <1>4, <1>5 DEF Says, Report

(* What is true of a submission stays so when its judge task, what it has  *)
(* to report and what was published stay or move on.                       *)
LEMMA UnderwayKept ==
    ASSUME Underway, faults = 0,
           \A s \in Subs : http'[s] = "accepted" => http[s] = "accepted" \/ Awaited(s)',
           UNCHANGED judged, \A s \in Subs : Awaited(s) => Awaited(s)',
           published \subseteq published',
           \A w \in Workers : Elements(outbox[w]) \subseteq Elements(outbox'[w]) \cup published'
    PROVE  Underway'
BY DEF Underway

LEMMA NextUnderway ==
    ASSUME FlowInv, OnceInv, Underway, [Next]_vars
    PROVE  Underway'
<1>0. TypeOK /\ Apart /\ Unpublished
  BY DEF FlowInv, OnceInv
<1>. SUFFICES ASSUME faults' = 0 PROVE Underway'
  BY DEF Underway
<1>1. ASSUME NEW t \in Subs, HttpStep(t) PROVE Underway'
  <2>1. /\ UNCHANGED <<running, outbox, judged, faults>> /\ published \subseteq published'
        /\ \A s \in Subs : s # t => http'[s] = http[s]
        /\ \/ UNCHANGED queue /\ http'[t] = "enqueueing"
           \/ queue' = Append(queue, JudgeTask(t))
    BY <1>0, <1>1 DEF HttpStep, SubmitPublish, SubmitEnqueue, Publish, books, TypeOK
  <2>2. queue' = Append(queue, JudgeTask(t)) => Elements(queue') = Elements(queue) \cup {JudgeTask(t)}
    <3>1. queue \in Seq(Tasks) /\ JudgeTask(t) \in Tasks
      BY <1>0 DEF TypeOK, Tasks
    <3>. QED BY <3>1, AppendOnce
  <2>3. \A s \in Subs : Awaited(s) => Awaited(s)'
    BY <2>1, <2>2 DEF Awaited
  <2>4. \A s \in Subs : http'[s] = "accepted" => http[s] = "accepted" \/ Awaited(s)'
    BY <2>1, <2>2 DEF Awaited
  <2>. QED BY <2>1, <2>3, <2>4, UnderwayKept
<1>2. ASSUME NEW w \in Workers, Start(w) PROVE Underway'
  <2>1. /\ UNCHANGED <<http, outbox, judged, published, faults>>
        /\ running[w] = NoTask /\ queue # <<>> /\ queue \in Seq(Tasks)
        /\ running'[w] = Head(queue) /\ \A v \in Workers : v # w => running'[v] = running[v]
        /\ queue' = Tail(queue)
    BY <1>0, <1>2 DEF Start, books, TypeOK
  <2>2. Elements(queue') = Elements(queue) \ {Head(queue)}
    BY <1>0, <2>1, TakeOnce DEF Apart
  <2>3. outbox[w] = <<>> /\ \A s : running[w] # JudgeTask(s)
    BY <1>0, <2>1, KindsApart DEF TypeOK
  <2>4. \A s \in Subs : Awaited(s) => Awaited(s)'
    BY <2>1, <2>2, <2>3 DEF Awaited
  <2>. QED BY <2>1, <2>4, UnderwayKept
<1>3. ASSUME NEW w \in Workers, Judge(w) PROVE Underway'
  <2>. DEFINE s == running[w].sub
  <2>1. /\ running[w].op = "judge" /\ outbox[w] = <<>> /\ s \in Subs
        /\ UNCHANGED <<http, queue, running, published, faults>>
    BY <1>0, <1>3, TaskFacts DEF Judge, TypeOK, books
  <2>2. PICK n \in 0..MaxTests, compiled \in BOOLEAN :
           \E rs \in Runs(n, Outcomes(Execs, compiled)) :
              /\ judged' = [judged EXCEPT ![s] = Found(n, rs)]
              /\ outbox' = [outbox EXCEPT ![w] = Report(s, rs)]
    BY <1>3 DEF Judge
  <2>3. PICK rs \in Runs(n, Outcomes(Execs, compiled)) :
              /\ judged' = [judged EXCEPT ![s] = Found(n, rs)]
              /\ outbox' = [outbox EXCEPT ![w] = Report(s, rs)]
    BY <2>2
  <2>4. /\ judged'[s].done /\ judged'[s].results = rs
        /\ \A t \in Subs : t # s => judged'[t] = judged[t]
        /\ \A v \in Workers : v # w => outbox'[v] = outbox[v]
        /\ outbox'[w] = Report(s, rs)
    BY <1>0, <2>1, <2>3 DEF TypeOK, Found
  <2>5. Says(s, rs) \subseteq Elements(outbox'[w])
    BY <2>4, ReportSays, BoundsAssumption
  <2>6. \A t \in Subs : t # s /\ Awaited(t) => Awaited(t)'
    BY <2>1, <2>4, KindsApart DEF Awaited
  <2>7. \A v \in Workers : Elements(outbox[v]) \subseteq Elements(outbox'[v])
    BY <2>1, <2>4, EmptyOnce
  <2>. HIDE DEF s
  <2>8. ASSUME NEW t \in Subs, t # s
        PROVE  /\ http'[t] = "accepted" => judged'[t].done \/ Awaited(t)'
               /\ judged'[t].done => \A m \in Says(t, judged'[t].results) :
                     m \in published' \/ \E v \in Workers : m \in Elements(outbox'[v])
    BY <2>1, <2>4, <2>6, <2>7, <2>8 DEF Underway
  <2>. QED BY <2>1, <2>4, <2>5, <2>8 DEF Underway
<1>4. ASSUME NEW w \in Workers, JudgePublish(w) PROVE Underway'
  <2>1. /\ outbox[w] # <<>> /\ outbox[w] \in Seq(Messages) /\ NoDuplicates(outbox[w])
        /\ outbox'[w] = Tail(outbox[w]) /\ \A v \in Workers : v # w => outbox'[v] = outbox[v]
        /\ published' = published \cup {Head(outbox[w])}
        /\ UNCHANGED <<http, queue, judged, faults>>
        /\ \A v \in Workers : v # w => running'[v] = running[v]
    BY <1>0, <1>4 DEF JudgePublish, Publish, EndTask, TypeOK, Unpublished
  <2>2. Elements(outbox'[w]) = Elements(outbox[w]) \ {Head(outbox[w])}
    BY <2>1, TakeOnce
  <2>3. \A s \in Subs : Awaited(s) => Awaited(s)'
    BY <2>1 DEF Awaited
  <2>. QED BY <2>1, <2>2, <2>3, UnderwayKept
<1>5. ASSUME NEW w \in Workers, Execute(w) \/ LoopStep(w) PROVE Underway'
  <2>1. /\ UNCHANGED <<http, outbox, judged, published, faults>>
        /\ running[w].op # "judge"
        /\ \A v \in Workers : v # w => running'[v] = running[v]
        /\ UNCHANGED queue \/ (socket # <<>> /\ queue' = Append(queue, Head(socket)))
    BY <1>0, <1>5, KindsApart DEF Execute, LoopStep, LoopOn, Consume, ConsumeClosed, ConsumeError,
       Resubscribe, EndTask, books, DbOps, TypeOK
  <2>2. Elements(queue) \subseteq Elements(queue')
    <3>1. ASSUME socket # <<>>, queue' = Append(queue, Head(socket))
          PROVE  Elements(queue) \subseteq Elements(queue')
      <4>1. queue \in Seq(Tasks) /\ Head(socket) \in Tasks
        BY <1>0, <3>1, NoMessages DEF TypeOK
      <4>. QED BY <3>1, <4>1, AppendOnce
    <3>. QED BY <2>1, <3>1
  <2>3. \A s \in Subs : Awaited(s) => Awaited(s)'
    BY <2>1, <2>2, KindsApart DEF Awaited
  <2>. QED BY <2>1, <2>3, UnderwayKept
<1>6. CASE Quiet \/ UNCHANGED vars
  BY <1>6 DEF Quiet, Underway, Awaited, vars, memory, books
<1>. QED BY <1>1, <1>2, <1>3, <1>4, <1>5, <1>6, FaultCounted DEF Next, WorkerStep

LEMMA SettleInvariant == Spec => [](FlowInv /\ OnceInv /\ RecordInv /\ OrderInv /\ SettleInv)
<1>1. Init => SettleInv
  <2>. SUFFICES ASSUME Init PROVE SettleInv
    OBVIOUS
  <2>1. Underway /\ InTables
    BY DEF Init, Underway, InTables, NotJudged
  <2>2. LoopRuns /\ NoneLost
    BY DEF Init, LoopRuns, NoneLost
  <2>. QED BY <2>1, <2>2 DEF SettleInv
<1>2. FlowInv /\ OnceInv /\ RecordInv /\ OrderInv /\ SettleInv /\ [Next]_vars => SettleInv'
  BY NextUnderway, NextInTables, NextLoopRuns, NextNoneLost DEF SettleInv
<1>. QED BY <1>1, <1>2, OrderInvariant, PTL DEF Spec

(* Without a fault: a pool of two workers loses nothing, and when a pool   *)
(* of any size is idle the tables hold, for every accepted submission of   *)
(* which nothing was lost, its verdict and each of its results, once.      *)
THEOREM IdlePoolIsSettled == Spec => []IdleIsSettled
<1>1. ASSUME FlowInv, OnceInv, RecordInv, OrderInv, SettleInv PROVE IdleIsSettled
  <2>0. TypeOK /\ Accounted /\ Underway /\ InTables
    BY <1>1 DEF FlowInv, OnceInv, SettleInv
  <2>1. ASSUME faults = 0, Idle, NEW s \in Subs, http[s] = "accepted", \A m \in lost : m.sub # s
        PROVE  Settled(s)
    <3>. DEFINE rs == judged[s].results
    <3>1. /\ \A w \in Workers : running[w].op \notin DbOps \cup {"judge"}
          /\ Elements(queue) = {} /\ Elements(socket) = {}
      BY <2>1, KindsApart, EmptyOnce DEF Idle, DbOps
    <3>2. \A w \in Workers : Elements(outbox[w]) = {}
      BY <2>0, <3>1, EmptyOnce DEF TypeOK
    <3>3. judged[s].done
      BY <2>0, <2>1, <3>1, KindsApart DEF Underway, Awaited
    <3>4. Says(s, rs) \subseteq published
      BY <2>0, <2>1, <3>2, <3>3 DEF Underway
    <3>5. InFlight = {}
      BY <3>1 DEF InFlight
    <3>6. Says(s, rs) \subseteq applied
      BY <2>0, <2>1, <3>4, <3>5, SaysWhat DEF Accounted
    <3>7. 1..Len(rs) \subseteq 1..MaxTests /\ SetStatus(rs) = Record!Verdict(rs)
      <4>1. judged[s].tests \in 0..MaxTests /\ judged[s].tests \in Nat /\ MaxTests \in Nat
            /\ rs \in Runs(judged[s].tests, TestStatuses)
        BY <1>1, <2>0, <3>3, BoundsAssumption DEF FlowInv, TypeOK, FoundByRun
      <4>2. Len(rs) \in 0..judged[s].tests
        BY <4>1, RunIsSequence
      <4>3. SetStatus(rs) = Record!Verdict(rs)
        BY <4>1, VerdictOfRun DEF Record!Verdict
      <4>. QED BY <4>1, <4>2, <4>3
    <3>. QED BY <2>0, <3>3, <3>6, <3>7 DEF InTables, Says, Settled
  <2>2. faults = 0 /\ (\E v, w \in Workers : Workers = {v, w}) => lost = {}
    BY <1>1 DEF SettleInv, NoneLost
  <2>. QED BY <2>1, <2>2 DEF IdleIsSettled
<1>. QED BY <1>1, SettleInvariant, PTL

-----------------------------------------------------------------------------
(* Nobody waits for nothing when nothing fails.                            *)

(* A worker can go on: there is a task for it, its task is not the loop, or*)
(* there is a message for the loop.                                        *)
CanGoOn(w) ==
    \/ running[w] = NoTask /\ queue # <<>>
    \/ running[w].op \in DbOps \cup {"judge"}
    \/ LoopOn(w) /\ socket # <<>>

(* Without faults, a pool of two workers or more that is not idle is not   *)
(* stuck either.                                                           *)
SomebodyGoesOn ==
    faults = 0 /\ (\E v, w \in Workers : v # w) =>
       \/ Idle
       \/ \E s \in Subs : http[s] = "enqueueing"
       \/ \E w \in Workers : CanGoOn(w)

(* The loop keeps its worker for ever, and a task never waits for it: the  *)
(* pool has another worker, which is free for the queue or runs a task     *)
(* that ends by itself; and what Redis has sent is read by the loop, which *)
(* is at the head of the queue or on a worker, and consumes.               *)
THEOREM PoolGoesOn == Spec => []SomebodyGoesOn
<1>1. ASSUME FlowInv, OnceInv, OrderInv, SettleInv PROVE SomebodyGoesOn
  <2>0. /\ TypeOK /\ Apart /\ Faultless /\ LoopRuns
        /\ NoTask.op = "none" /\ LoopTask.op = "loop" /\ NoTask # LoopTask
    BY <1>1, KindsApart DEF FlowInv, OnceInv, OrderInv, SettleInv
  <2>. SUFFICES ASSUME faults = 0, NEW v \in Workers, NEW w \in Workers, v # w, ~Idle,
                       \A s \in Subs : http[s] # "enqueueing"
                PROVE  \E u \in Workers : CanGoOn(u)
    BY DEF SomebodyGoesOn
  <2>1. \A u \in Workers : running[u] \in {NoTask, LoopTask} \/ CanGoOn(u)
    <3>. SUFFICES ASSUME NEW u \in Workers, running[u] \notin {NoTask, LoopTask}
                  PROVE  running[u].op \in DbOps \cup {"judge"}
      BY DEF CanGoOn
    <3>1. running[u] \in Tasks /\ running[u] # LoopTask
      BY <2>0 DEF TypeOK
    <3>2. CASE running[u] \in Messages
      BY <3>2 DEF Messages
    <3>3. CASE \E s \in Subs : running[u] = JudgeTask(s)
      BY <3>3, KindsApart
    <3>. QED BY <3>1, <3>2, <3>3 DEF Tasks
  <2>2. CASE queue # <<>>
    <3>1. running[v] # LoopTask \/ running[w] # LoopTask
      BY <2>0 DEF Apart
    <3>. QED BY <2>1, <2>2, <3>1 DEF CanGoOn
  <2>3. CASE queue = <<>> /\ socket # <<>>
    <3>1. PICK u \in Workers : running[u] = LoopTask
      BY <2>0, <2>3 DEF LoopRuns
    <3>2. loop = "consuming"
      BY <2>0 DEF Faultless
    <3>. QED BY <2>3, <3>1, <3>2 DEF CanGoOn, LoopOn
  <2>4. CASE queue = <<>> /\ socket = <<>>
    <3>1. PICK u \in Workers : running[u] \notin {NoTask, LoopTask}
      BY <2>4 DEF Idle
    <3>. QED BY <2>1, <3>1
  <2>. QED BY <2>2, <2>3, <2>4
<1>. QED BY <1>1, SettleInvariant, PTL

-----------------------------------------------------------------------------
(* How far everything has come.                                            *)

(* The requests that came, and those that were answered.                   *)
Came == {s \in Subs : http[s] # "none"}
Answered == {s \in Subs : http[s] \in {"accepted", "failed"}}

(* The judge tasks that left the queue, and those that have a verdict.     *)
Taken == {s \in Answered : JudgeTask(s) \notin Elements(queue)}
Decided == {s \in Subs : judged[s].done}

(* The messages that left the socket, those that left the queue too, and   *)
(* those of which nothing more will come.                                  *)
Received == published \ Elements(socket)
Started == published \ (Elements(socket) \cup Elements(queue))
Ended == applied \cup lost

(* The loop, when it left the queue. *)
LoopTaken == {LoopTask} \ Elements(queue)

Ahead == <<Came, Answered, Taken, Decided, published, Received, Started, Ended, LoopTaken>>

Growing == /\ Came \subseteq Came' /\ Answered \subseteq Answered'
           /\ Taken \subseteq Taken' /\ Decided \subseteq Decided'
           /\ published \subseteq published'
           /\ Received \subseteq Received' /\ Started \subseteq Started'
           /\ Ended \subseteq Ended' /\ LoopTaken \subseteq LoopTaken'

(* What the loop has to do about a lost connection.                        *)
LoopLeft == IF loop = "sleeping" THEN 1
            ELSE IF loop = "consuming" /\ link # "up" THEN 2 ELSE 0

(* Nothing is taken back, and something is done.                           *)
Forward == /\ Growing
           /\ LoopLeft' <= LoopLeft
           /\ Ahead' # Ahead \/ LoopLeft' < LoopLeft

LEMMA LoopLeftSame == UNCHANGED <<loop, link>> => LoopLeft' = LoopLeft /\ LoopLeft \in 0..2
BY DEF LoopLeft

(* One of the sets that grow is enough. *)
LEMMA GrowingForward ==
    ASSUME Growing, UNCHANGED <<loop, link>>,
           \/ Came' # Came \/ Answered' # Answered \/ Taken' # Taken \/ Decided' # Decided
           \/ published' # published \/ Received' # Received \/ Started' # Started
           \/ Ended' # Ended \/ LoopTaken' # LoopTaken
    PROVE  Forward
<1>1. Ahead' # Ahead
  BY DEF Ahead
<1>2. LoopLeft' <= LoopLeft
  BY LoopLeftSame
<1>. QED BY <1>1, <1>2 DEF Forward

(* A new message is published. *)
LEMMA PublishGrows ==
    ASSUME TypeOK, NEW m \in Messages, m \notin published, Publish(m), UNCHANGED <<queue, applied>>
    PROVE  /\ published \subseteq published' /\ published' # published
           /\ Received \subseteq Received' /\ Started \subseteq Started'
           /\ Ended \subseteq Ended' /\ LoopTaken \subseteq LoopTaken'
<1>0. socket \in Seq(Messages)
  BY DEF TypeOK
<1>1. Elements(socket') \subseteq Elements(socket) \cup {m}
  <2>1. CASE socket' = Append(socket, m)
    BY <1>0, <2>1, AppendOnce
  <2>. QED BY <2>1 DEF Publish
<1>2. published' = published \cup {m} /\ lost \subseteq lost'
  BY DEF Publish
<1>. QED BY <1>1, <1>2 DEF Received, Started, Ended, LoopTaken

(* The HTTP thread of a submission. *)
LEMMA HttpForward ==
    ASSUME FlowInv, OnceInv, NEW s \in Subs, HttpStep(s)
    PROVE  Forward
<1>0. TypeOK /\ Unpublished
  BY DEF FlowInv, OnceInv
<1>1. CASE SubmitPublish(s)
  <2>1. /\ http[s] = "none" /\ Publish(InsertOp(s))
        /\ http' = [http EXCEPT ![s] = "enqueueing"]
        /\ UNCHANGED <<queue, link, loop, judged, applied>>
    BY <1>1 DEF SubmitPublish
  <2>2. InsertOp(s) \in Messages /\ InsertOp(s) \notin published
    BY <1>0, <2>1, InsertFacts DEF Unpublished
  <2>3. Came \subseteq Came' /\ Answered' = Answered /\ Taken' = Taken /\ Decided' = Decided
    BY <1>0, <2>1 DEF TypeOK, Came, Answered, Taken, Decided
  <2>4. Growing /\ published' # published
    BY <1>0, <2>1, <2>2, <2>3, PublishGrows DEF Growing
  <2>. QED BY <2>1, <2>4, GrowingForward
<1>2. CASE SubmitEnqueue(s)
  <2>1. /\ http[s] = "enqueueing" /\ queue' = Append(queue, JudgeTask(s))
        /\ http' = [http EXCEPT ![s] = "accepted"]
        /\ UNCHANGED <<socket, link, loop, judged, published, applied, lost>>
    BY <1>2 DEF SubmitEnqueue, books
  <2>2. JudgeTask(s) \in Tasks /\ Elements(queue') = Elements(queue) \cup {JudgeTask(s)}
    BY <1>0, <2>1, AppendOnce DEF TypeOK, Tasks
  <2>3. /\ JudgeTask(s) # LoopTask /\ JudgeTask(s) \notin Messages /\ published \subseteq Messages
        /\ \A x \in Subs : x # s => JudgeTask(x) # JudgeTask(s)
    <3>1. LoopTask.op # JudgeTask(s).op
      BY KindsApart
    <3>2. \A x \in Subs : JudgeTask(x).sub = x
      BY KindsApart
    <3>. QED BY <1>0, <3>1, <3>2, NoMessages DEF TypeOK
  <2>4. Came \subseteq Came' /\ Answered \subseteq Answered' /\ s \in Answered' /\ s \notin Answered
    BY <1>0, <2>1 DEF TypeOK, Came, Answered
  <2>5. Taken \subseteq Taken'
    BY <2>2, <2>3, <2>4 DEF Taken, Answered
  <2>6. Growing
    BY <2>1, <2>2, <2>3, <2>4, <2>5 DEF Growing, Decided, Received, Started, Ended, LoopTaken
  <2>. QED BY <2>1, <2>4, <2>6, GrowingForward
<1>. QED BY <1>1, <1>2 DEF HttpStep

(* A worker takes a task, which does not come back.                        *)
LEMMA StartForward ==
    ASSUME FlowInv, OnceInv, NEW w \in Workers, Start(w)
    PROVE  Forward
<1>0. TypeOK /\ NotYetJudged /\ Accounted /\ Apart
  BY DEF FlowInv, OnceInv
<1>. DEFINE t == Head(queue)
<1>1. /\ queue # <<>> /\ queue' = Tail(queue)
      /\ UNCHANGED <<http, socket, link, loop, judged, published, applied, lost>>
  BY DEF Start, books
<1>2. t \in Elements(queue) /\ t \in Tasks /\ Elements(queue') = Elements(queue) \ {t}
  BY <1>0, <1>1, TakeOnce DEF TypeOK, Apart
<1>3. t.op = "judge" => Requested(t.sub)
  <2>1. 1 \in 1..Len(queue) /\ t = queue[1]
    BY <1>0, <1>1 DEF TypeOK
  <2>. QED BY <1>0, <2>1 DEF NotYetJudged
<1>. HIDE DEF t
<1>4. Growing
  BY <1>1, <1>2 DEF Growing, Came, Answered, Taken, Decided, Received, Started, Ended, LoopTaken
<1>5. CASE t \in Messages
  <2>1. t \in published /\ t \notin Elements(socket)
    BY <1>0, <1>2, <1>5, OnItsWay DEF Accounted, Apart, Ways
  <2>2. t \in Started' /\ t \notin Started
    BY <1>1, <1>2, <2>1 DEF Started
  <2>. QED BY <1>1, <1>4, <2>2, GrowingForward
<1>6. ASSUME NEW s \in Subs, t = JudgeTask(s) PROVE Forward
  <2>1. http[s] \in {"accepted", "failed"}
    BY <1>0, <1>3, <1>6, KindsApart DEF Requested, TypeOK
  <2>2. s \in Taken' /\ s \notin Taken
    BY <1>1, <1>2, <1>6, <2>1 DEF Taken, Answered
  <2>. QED BY <1>1, <1>4, <2>2, GrowingForward
<1>7. CASE t = LoopTask
  <2>1. LoopTask \in LoopTaken' /\ LoopTask \notin LoopTaken
    BY <1>2, <1>7 DEF LoopTaken
  <2>. QED BY <1>1, <1>4, <2>1, GrowingForward
<1>. QED BY <1>2, <1>5, <1>6, <1>7 DEF Tasks

(* A judge task has its verdict, or publishes a message.                   *)
LEMMA JudgeForward ==
    ASSUME FlowInv, OnceInv, NEW w \in Workers, Judge(w) \/ JudgePublish(w)
    PROVE  Forward
<1>0. TypeOK /\ NotYetJudged /\ Unpublished
  BY DEF FlowInv, OnceInv
<1>1. CASE Judge(w)
  <2>1. /\ running[w].op = "judge" /\ outbox[w] = <<>>
        /\ UNCHANGED <<http, queue, socket, link, loop, published, applied, lost>>
    BY <1>1 DEF Judge, books
  <2>2. PICK n, rs : judged' = [judged EXCEPT ![running[w].sub] = Found(n, rs)]
    BY <1>1 DEF Judge
  <2>. DEFINE s == running[w].sub
  <2>3. s \in Subs /\ ~judged[s].done
    BY <1>0, <2>1, TaskFacts DEF TypeOK, NotYetJudged
  <2>4. Decided \subseteq Decided' /\ s \in Decided' /\ s \notin Decided
    BY <1>0, <2>2, <2>3 DEF TypeOK, Decided, Found
  <2>5. Growing
    BY <2>1, <2>4 DEF Growing, Came, Answered, Taken, Received, Started, Ended, LoopTaken
  <2>. QED BY <2>1, <2>4, <2>5, GrowingForward
<1>2. CASE JudgePublish(w)
  <2>1. /\ outbox[w] # <<>> /\ Publish(Head(outbox[w]))
        /\ UNCHANGED <<http, queue, link, loop, judged, applied>>
    BY <1>2 DEF JudgePublish
  <2>2. Head(outbox[w]) \in Messages /\ Head(outbox[w]) \notin published
    BY <1>0, <2>1, TakeOnce DEF TypeOK, Unpublished
  <2>3. Growing /\ published' # published
    BY <1>0, <2>1, <2>2, PublishGrows DEF Growing, Came, Answered, Taken, Decided
  <2>. QED BY <2>1, <2>3, GrowingForward
<1>. QED BY <1>1, <1>2

(* A statement is executed: nothing more will come of its message.         *)
LEMMA ExecuteForward ==
    ASSUME FlowInv, OnceInv, NEW w \in Workers, Execute(w)
    PROVE  Forward
<1>0. TypeOK /\ Accounted
  BY DEF FlowInv, OnceInv
<1>1. /\ running[w].op \in DbOps
      /\ applied' \cup lost' = applied \cup lost \cup {running[w]}
      /\ UNCHANGED <<http, queue, socket, link, loop, judged, published>>
  BY DEF Execute
<1>2. running[w] \notin applied \cup lost
  BY <1>0, <1>1 DEF Accounted, InFlight
<1>3. Growing /\ Ended' # Ended
  BY <1>1, <1>2 DEF Growing, Came, Answered, Taken, Decided, Received, Started, Ended, LoopTaken
<1>. QED BY <1>1, <1>3, GrowingForward

(* The loop receives a message, or copes with a lost connection.           *)
LEMMA LoopForward ==
    ASSUME FlowInv, OnceInv, NEW w \in Workers, LoopStep(w)
    PROVE  Forward
<1>0. TypeOK /\ Accounted /\ Apart
  BY DEF FlowInv, OnceInv
<1>1. CASE Consume(w)
  <2>. DEFINE m == Head(socket)
  <2>1. /\ socket # <<>> /\ socket' = Tail(socket)
        /\ \/ queue' = Append(queue, m) /\ UNCHANGED lost
           \/ lost' = lost \cup {m} /\ UNCHANGED queue
        /\ UNCHANGED <<http, link, loop, judged, published, applied>>
    BY <1>1 DEF Consume
  <2>2. m \in Messages /\ m \in Elements(socket) /\ Elements(socket') = Elements(socket) \ {m}
    BY <1>0, <2>1, TakeOnce DEF TypeOK, Apart
  <2>3. m \in Tasks /\ m # LoopTask /\ \A s \in Subs : JudgeTask(s) # m
    BY <2>2, NoMessages
  <2>4. m \in published
    BY <1>0, <2>2, OnItsWay DEF Ways, Accounted
  <2>. HIDE DEF m
  <2>5. Elements(queue') = Elements(queue) \cup {m} \/ queue' = queue
    <3>1. queue \in Seq(Tasks)
      BY <1>0 DEF TypeOK
    <3>2. CASE queue' = Append(queue, m)
      BY <2>3, <3>1, <3>2, AppendOnce
    <3>. QED BY <2>1, <3>2
  <2>6. Received \subseteq Received' /\ m \in Received' /\ m \notin Received
    BY <2>1, <2>2, <2>4 DEF Received
  <2>7. Started \subseteq Started'
    BY <2>1, <2>2, <2>5 DEF Started
  <2>8. Growing
    BY <2>1, <2>3, <2>5, <2>6, <2>7 DEF Growing, Came, Answered, Taken, Decided, Ended, LoopTaken
  <2>. QED BY <2>1, <2>6, <2>8, GrowingForward
<1>2. CASE ConsumeClosed(w) \/ ConsumeError(w) \/ Resubscribe(w)
  <2>1. UNCHANGED <<http, queue, socket, judged, published, applied, lost>>
    BY <1>2 DEF ConsumeClosed, ConsumeError, Resubscribe, books
  <2>2. Growing
    BY <2>1 DEF Growing, Came, Answered, Taken, Decided, Received, Started, Ended, LoopTaken
  <2>3. LoopLeft' < LoopLeft /\ LoopLeft' <= LoopLeft
    BY <1>2 DEF ConsumeClosed, ConsumeError, Resubscribe, LoopOn, LoopLeft
  <2>. QED BY <2>2, <2>3 DEF Forward
<1>. QED BY <1>1, <1>2 DEF LoopStep

(* Every step that is not a fault goes forward: requests, judge tasks,     *)
(* messages and the loop have finitely many steps to take, none of them is *)
(* taken twice, and no task is retried or put back.  So the pool comes to  *)
(* rest after the last request and the last fault, whatever the schedule.  *)
THEOREM EveryStepForward == Spec => [][faults' > faults \/ Forward]_vars
<1>1. ASSUME FlowInv, OnceInv, Next, ~Quiet PROVE faults' > faults \/ Forward
  <2>1. CASE FaultStep
    BY <1>1, <2>1, FaultCounted
  <2>2. ASSUME NEW s \in Subs, HttpStep(s) PROVE Forward
    BY <1>1, <2>2, HttpForward
  <2>3. ASSUME NEW w \in Workers, WorkerStep(w) PROVE Forward
    BY <1>1, <2>3, StartForward, JudgeForward, ExecuteForward, LoopForward DEF WorkerStep
  <2>. QED BY <1>1, <2>1, <2>2, <2>3 DEF Next
<1>2. FlowInv /\ OnceInv /\ [Next]_vars => [faults' > faults \/ Forward]_vars
  BY <1>1 DEF Quiet
<1>. QED BY <1>2, RecordInvariant, PTL DEF Spec
=============================================================================
