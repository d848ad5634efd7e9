---------------------------- MODULE ResultProofs ----------------------------
(***************************************************************************)
(* ResultsNameTheirTest, for every instance: why the number that the judge *)
(* task counts is the sequence number of the test.  Sorting rows that have *)
(* the numbers 1, ..., n puts the row with the number i in the i-th place. *)
(***************************************************************************)
EXTENDS ProblemsProofs, FiniteSetTheorems, WellFoundedInduction

(* A set of natural numbers has a least element. *)
LEMMA LeastOf ==
    ASSUME NEW T, T \subseteq Nat, T # {}
    PROVE  \E x \in T : \A y \in T : x <= y
<1>1. PICK x \in T : \A y \in T : ~(<<y, x>> \in OpToRel(<, Nat))
  BY NatLessThanWellFounded, WFMin, Zenon
<1>2. \A y \in T : ~(y < x)
  BY <1>1 DEF OpToRel
<1>. QED BY <1>2

(* A monotone function of 1..n onto 1..n is the identity. *)
LEMMA MonotoneIsIdentity ==
    ASSUME NEW n \in Nat, NEW g \in [1..n -> 1..n],
           \A v \in 1..n : \E i \in 1..n : g[i] = v,
           \A i, j \in 1..n : i < j => g[i] <= g[j]
    PROVE  \A i \in 1..n : g[i] = i
<1>. DEFINE T == {i \in 1..n : g[i] # i}
<1>. SUFFICES ASSUME T # {} PROVE FALSE
  OBVIOUS
<1>1. g \in Injection(1..n, 1..n)
  <2>1. g \in Surjection(1..n, 1..n)
    BY DEF Surjection
  <2>2. IsFiniteSet(1..n)
    BY FS_Interval
  <2>. QED BY <2>1, <2>2, FS_Surjection
<1>2. \A i, j \in 1..n : g[i] = g[j] => i = j
  BY <1>1 DEF Injection, IsInjective
<1>3. PICK i \in T : \A j \in T : i <= j
  <2>1. T \subseteq Nat
    OBVIOUS
  <2>. HIDE DEF T
  <2>. QED BY <2>1, LeastOf
<1>4. i \in 1..n /\ g[i] # i /\ \A k \in 1..n : k < i => g[k] = k
  BY <1>3
<1>5. PICK j \in 1..n : g[j] = i
  BY <1>4
<1>6. i < j
  <2>1. i \in Nat /\ j \in Nat
    BY <1>4
  <2>2. ~(j < i) /\ j # i
    BY <1>4, <1>5
  <2>. HIDE DEF T
  <2>. QED BY <2>1, <2>2
<1>7. g[i] < i /\ g[i] \in 1..n
  <2>1. g[i] <= g[j] /\ g[i] \in 1..n
    BY <1>4, <1>5, <1>6
  <2>. QED BY <1>4, <1>5, <2>1
<1>. QED BY <1>2, <1>4, <1>7

(* ORDER BY sequence, for rows that are numbered. *)
LEMMA OrderIsRight ==
    ASSUME NEW seqs \in Seq(Nat), Numbered(seqs), NEW p \in ByNumber(seqs)
    PROVE  Len(p) = Len(seqs) /\ \A i \in 1..Len(seqs) : p[i] \in 1..Len(seqs) /\ seqs[p[i]] = i
<1>. DEFINE n == Len(seqs)  g == [i \in 1..n |-> seqs[p[i]]]
<1>1. n \in Nat
  OBVIOUS
<1>2. /\ p \in [1..n -> 1..n] /\ \A i, j \in 1..n : p[i] = p[j] => i = j
      /\ \A i, j \in 1..n : i < j => seqs[p[i]] <= seqs[p[j]]
  BY DEF ByNumber, AnyOrder, Rows
<1>3. {seqs[i] : i \in 1..n} = 1..n
  BY DEF Numbered, Rows
<1>. HIDE DEF n
<1>4. \A v \in 1..n : \E i \in 1..n : p[i] = v
  <2>1. p \in Injection(1..n, 1..n)
    BY <1>2 DEF Injection, IsInjective
  <2>2. IsFiniteSet(1..n)
    BY <1>1, FS_Interval
  <2>3. p \in Surjection(1..n, 1..n)
    BY <2>1, <2>2, FS_Injection
  <2>. QED BY <2>3 DEF Surjection
<1>5. g \in [1..n -> 1..n]
  BY <1>2, <1>3
<1>6. \A v \in 1..n : \E i \in 1..n : g[i] = v
  <2>. SUFFICES ASSUME NEW v \in 1..n PROVE \E i \in 1..n : g[i] = v
    OBVIOUS
  <2>1. PICK k \in 1..n : seqs[k] = v
    BY <1>3
  <2>2. PICK i \in 1..n : p[i] = k
    BY <1>4
  <2>. QED BY <2>1, <2>2
<1>7. \A i, j \in 1..n : i < j => g[i] <= g[j]
  BY <1>2
<1>8. \A i \in 1..n : g[i] = i
  <2>. HIDE DEF g
  <2>. QED BY <1>1, <1>5, <1>6, <1>7, MonotoneIsIdentity
<1>9. Len(p) = n
  BY <1>1, <1>2
<1>. QED BY <1>2, <1>8, <1>9 DEF n
-----------------------------------------------------------------------------
(* A result names the right test, and a judge task has the right order, if *)
(* the tests were numbered and are still those that were read.             *)
Right(r, t) ==
    /\ r.edit <= edits
    /\ r.numbered /\ r.edit = tests[t].edit =>
          r.row \in 1..Len(tests[t].seqs) /\ tests[t].seqs[r.row] = r.idx

RightTask(m) == m.op = "result" => Right(m.test, m.title)

RightJob(j, t) ==
    j.at # "none" /\ j.tests.numbered /\ j.tests.edit = tests[t].edit =>
       \A i \in 1..Len(j.tests.order) : /\ j.tests.order[i] \in 1..Len(tests[t].seqs)
                                        /\ tests[t].seqs[j.tests.order[i]] = i

ResultInv ==
    /\ \A i \in 1..Len(queue) : RightTask(queue[i])
    /\ \A i \in 1..Len(socket) : RightTask(socket[i])
    /\ \A w \in Workers : RightTask(running[w])
    /\ \A w \in Workers : running[w].op = "judge" => RightJob(job[w], running[w].title)
    /\ ResultsNameTheirTest

(* A change of the tests has a new number. *)
LEMMA EditsGrow ==
    ASSUME ProblemTypes, [ProblemsNext]_problemVars
    PROVE  /\ edits \in Nat /\ edits' \in Nat /\ edits <= edits'
           /\ \A t \in Titles : tests'[t] = tests[t] \/ tests'[t].edit > edits
<1>1. UNCHANGED <<tests, edits>> \/ \E t \in Titles, table \in Tables : EditTests(t, table)
  <2>1. ASSUME NEW h \in Threads, RequestStep(h) PROVE UNCHANGED <<tests, edits>>
    BY <2>1 DEF RequestStep, tables, CreateProblem, UploadTestCases, Submit, AddProblemLimit,
                QuerySubmission, CreatePublish, SubmitEnqueue, SelectStatus, RequestFails,
                LookupFails, DatabaseKills
  <2>2. ASSUME NEW w \in Workers, TaskStep(w) PROVE UNCHANGED <<tests, edits>>
    BY <2>2 DEF TaskStep, tables, Start, Execute, ExecuteNull, StoreTestCase, TaskFails, QueryStep,
                QueryTests, QueryLimits, QueryNoLimits, QueryFails, DatabaseKills,
                CompileStep, Compile, Assigned, CompileRaces, Run, PublishResult
  <2>3. CASE ChannelStep \/ Perish \/ UNCHANGED problemVars
    BY <2>3 DEF ChannelStep, tables, Deliver, Drop, Unheard, Perish, problemVars
  <2>4. ASSUME OutsideStep
        PROVE  UNCHANGED <<tests, edits>> \/ \E t \in Titles, table \in Tables : EditTests(t, table)
    BY <2>4 DEF OutsideStep, Lapse, tables
  <2>. QED BY <2>1, <2>2, <2>3, <2>4 DEF ProblemsNext
<1>2. ASSUME NEW t \in Titles, NEW table \in Tables, EditTests(t, table)
      PROVE  /\ edits' = edits + 1
             /\ \A u \in Titles : tests'[u] = tests[u] \/ tests'[u].edit = edits + 1
  BY <1>2 DEF EditTests, ProblemTypes
<1>3. edits \in Nat
  BY DEF ProblemTypes
<1>. QED BY <1>1, <1>2, <1>3

(* So what is right stays right, or is of other tests. *)
LEMMA RightPersists ==
    ASSUME ProblemTypes, [ProblemsNext]_problemVars
    PROVE  /\ \A m \in Tasks \cup {NoTask} : RightTask(m) => RightTask(m)'
           /\ \A t \in Titles : \A j : j.tests.edit \in 0..edits /\ RightJob(j, t) => RightJob(j, t)'
<1>1. \A m \in Tasks \cup {NoTask} : m.op = "result" => m.title \in Titles /\ m.test.edit \in Nat
  BY DEF Tasks, Messages, Shaped, Tests, NoTask, Task
<1>2. ASSUME NEW t \in Titles, NEW r, r.edit \in Nat, Right(r, t) PROVE Right(r, t)'
  BY <1>2, EditsGrow DEF Right
<1>3. ASSUME NEW t \in Titles, NEW j, j.tests.edit \in 0..edits, RightJob(j, t)
      PROVE  RightJob(j, t)'
  <2>1. j.tests.edit <= edits /\ j.tests.edit \in Nat /\ edits \in Nat
    BY <1>3, EditsGrow
  <2>2. tests'[t] = tests[t] \/ tests'[t].edit # j.tests.edit
    BY <2>1, EditsGrow
  <2>. QED BY <1>3, <2>2 DEF RightJob
<1>. QED BY <1>1, <1>2, <1>3 DEF RightTask

(* Where the messages and the tasks come from. *)
LEMMA ResultSources ==
    ASSUME ProblemTypes, [ProblemsNext]_problemVars
    PROVE  /\ \A i \in 1..Len(socket') :
                 \/ \E k \in 1..Len(socket) : socket'[i] = socket[k]
                 \/ socket'[i].op # "result"
                 \/ \E w \in Workers : /\ PublishResult(w)
                                       /\ socket'[i] = ResultOp(running[w].sub, running[w].title, TestOf(job[w]))
           /\ \A i \in 1..Len(queue') :
                 \/ \E k \in 1..Len(queue) : queue'[i] = queue[k]
                 \/ \E k \in 1..Len(socket) : queue'[i] = socket[k]
                 \/ queue'[i].op # "result"
<1>. USE DEF ProblemTypes
<1>1. ASSUME NEW q, NEW S, q \in Seq(S), NEW m \in S
      PROVE  \A i \in 1..Len(Append(q, m)) : (\E k \in 1..Len(q) : Append(q, m)[i] = q[k])
                                              \/ Append(q, m)[i] = m
  BY <1>1, AppendAt
<1>2. ASSUME NEW m \in Messages, socket' = Append(socket, m)
      PROVE  \A i \in 1..Len(socket') : (\E k \in 1..Len(socket) : socket'[i] = socket[k]) \/ socket'[i] = m
  BY <1>1, <1>2
<1>3. ASSUME socket # <<>>, socket' = Tail(socket)
      PROVE  \A i \in 1..Len(socket') : \E k \in 1..Len(socket) : socket'[i] = socket[k]
  BY <1>3, TailAt
<1>4. \A i \in 1..Len(queue') :
         \/ \E k \in 1..Len(queue) : queue'[i] = queue[k]
         \/ \E k \in 1..Len(socket) : queue'[i] = socket[k]
         \/ queue'[i].op # "result"
  <2>1. ASSUME Deliver
        PROVE  \A i \in 1..Len(queue') : \/ \E k \in 1..Len(queue) : queue'[i] = queue[k]
                                         \/ \E k \in 1..Len(socket) : queue'[i] = socket[k]
    <3>1. queue' = Append(queue, socket[1]) /\ socket[1] \in Tasks /\ 1 \in 1..Len(socket)
      BY <2>1, OpTypes DEF Deliver
    <3>. QED BY <1>1, <3>1
  <2>2. ASSUME NEW h \in Threads, SubmitEnqueue(h)
        PROVE  \A i \in 1..Len(queue') : (\E k \in 1..Len(queue) : queue'[i] = queue[k])
                                         \/ queue'[i].op # "result"
    <3>1. PICK m \in Tasks : queue' = Append(queue, m) /\ m.op # "result"
      <4>1. JudgeTask(req[h].sub, req[h].title, req[h].lang) \in Tasks
        BY <2>2, OpTypes DEF SubmitEnqueue
      <4>. QED BY <2>2, <4>1 DEF SubmitEnqueue, JudgeTask, Task
    <3>. QED BY <1>1, <3>1
  <2>3. ASSUME NEW w \in Workers, Start(w)
        PROVE  \A i \in 1..Len(queue') : \E k \in 1..Len(queue) : queue'[i] = queue[k]
    BY <2>3, TailAt DEF Start
  <2>4. (\E w \in Workers : Start(w)) \/ Deliver \/ (\E h \in Threads : SubmitEnqueue(h)) \/ queue' = queue
    <3>. HIDE DEF ProblemTypes
    <3>. QED BY StepKinds DEF AddProblemLimit, pool, Execute, OtherStep
  <2>. QED BY <2>1, <2>2, <2>3, <2>4
<1>5. ASSUME NEW w \in Workers, PublishResult(w)
      PROVE  \A i \in 1..Len(socket') :
                 \/ \E k \in 1..Len(socket) : socket'[i] = socket[k]
                 \/ socket'[i] = ResultOp(running[w].sub, running[w].title, TestOf(job[w]))
  <2>. DEFINE m == ResultOp(running[w].sub, running[w].title, TestOf(job[w]))
  <2>1. m \in Messages
    <3>. HIDE DEF ProblemTypes
    <3>. QED BY <1>5, ResultTypes
  <2>2. socket' = Append(socket, m)
    BY <1>5 DEF PublishResult
  <2>. HIDE DEF m
  <2>. QED BY <1>2, <2>1, <2>2 DEF m
<1>6. ASSUME NEW h \in Threads, RequestStep(h)
      PROVE  socket' = socket \/ \E m \in Messages : m.op # "result" /\ socket' = Append(socket, m)
  <2>1. ASSUME NEW t \in Titles, UploadTestCases(h, t)
        PROVE  \E m \in Messages : m.op # "result" /\ socket' = Append(socket, m)
    BY <2>1, OpTypes DEF UploadTestCases, UploadOp, Task
  <2>2. ASSUME NEW t \in Titles, NEW l \in Langs, NEW kb \in Asked, AddProblemLimit(h, t, l, kb)
        PROVE  \E m \in Messages : m.op # "result" /\ socket' = Append(socket, m)
    <3>1. Uint(kb) \in Nat /\ Len(asked) + 1 \in Nat
      BY ModFacts, InputsAssumption, WordAssumption DEF Uint
    <3>2. LimitOp(t, l, Len(asked) + 1, Uint(kb)) \in Messages
      BY <3>1, OpTypes
    <3>. QED BY <2>2, <3>2 DEF AddProblemLimit, LimitOp, Task
  <2>3. ASSUME CreatePublish(h)
        PROVE  \E m \in Messages : m.op # "result" /\ socket' = Append(socket, m)
    BY <2>3, OpTypes DEF CreatePublish, CreateOp, Task
  <2>. HIDE DEF ProblemTypes
  <2>. QED BY <1>6, <2>1, <2>2, <2>3 DEF RequestStep, CreateProblem, Submit, QuerySubmission,
                                         SubmitEnqueue, SelectStatus, RequestFails,
                                         LookupFails, DatabaseKills
<1>7. ASSUME NEW w \in Workers, TaskStep(w), ~PublishResult(w) PROVE socket' = socket
  BY <1>7 DEF TaskStep, Start, Execute, ExecuteNull, TaskFails, QueryStep, QueryTests, QueryLimits,
              QueryNoLimits, QueryFails, DatabaseKills, CompileStep, Compile, Assigned, CompileRaces, Run
<1>8. ASSUME ChannelStep \/ OutsideStep \/ Perish \/ UNCHANGED problemVars
      PROVE  socket' = socket \/ socket' = <<>> \/ (socket # <<>> /\ socket' = Tail(socket))
  BY <1>8 DEF ChannelStep, Deliver, Drop, Unheard, OutsideStep, Lapse, EditTests, Perish, problemVars
<1>9. \/ socket' = socket \/ socket' = <<>> \/ (socket # <<>> /\ socket' = Tail(socket))
      \/ \E m \in Messages : m.op # "result" /\ socket' = Append(socket, m)
      \/ \E w \in Workers : PublishResult(w)
  BY <1>6, <1>7, <1>8 DEF ProblemsNext
<1>10. ASSUME NEW m \in Messages, m.op # "result", socket' = Append(socket, m)
       PROVE  \A i \in 1..Len(socket') : (\E k \in 1..Len(socket) : socket'[i] = socket[k])
                                         \/ socket'[i].op # "result"
  BY <1>2, <1>10
<1>. HIDE DEF ProblemTypes
<1>. QED BY <1>3, <1>4, <1>5, <1>9, <1>10

(* Where the state of a judge task comes from. *)
LEMMA JobSources ==
    ASSUME ProblemTypes, [ProblemsNext]_problemVars, NEW v \in Workers, running'[v].op = "judge"
    PROVE  \/ job'[v] = NoJob
           \/ /\ running'[v] = running[v]
              /\ \/ job'[v] = job[v]
                 \/ job[v].at # "none" /\ job'[v].tests = job[v].tests
                 \/ QueryTests(v)
<1>. DEFINE Kept(j) == job[v].at # "none" /\ j.tests = job[v].tests
            Goal == \/ job'[v] = NoJob
                    \/ /\ running'[v] = running[v]
                       /\ job'[v] = job[v] \/ Kept(job'[v]) \/ QueryTests(v)
<1>0. v \in DOMAIN running /\ v \in DOMAIN job /\ NoTask.op = "none"
  BY DEF ProblemTypes, NoTask, Task
<1>1. ASSUME running' = running, job' = job PROVE Goal
  BY <1>1
<1>2. ASSUME NEW w \in Workers, EndTask(w) PROVE Goal
  BY <1>0, <1>2 DEF EndTask
<1>3. ASSUME NEW w \in Workers, Start(w) PROVE Goal
  <2>1. job' = job /\ job[w] = NoJob
    BY <1>3, JobFacts DEF Start, NoTask, Task
  <2>2. v # w => running'[v] = running[v]
    BY <1>0, <1>3 DEF Start
  <2>. QED BY <2>1, <2>2
<1>4. ASSUME NEW w \in Workers, NEW j, Goes(w, j), running' = running, v = w => Kept(j) \/ QueryTests(v)
      PROVE  Goal
  <2>1. job'[v] = IF v = w THEN j ELSE job[v]
    BY <1>0, <1>4 DEF Goes
  <2>. QED BY <1>4, <2>1
<1>. HIDE DEF Goal
<1>5. ASSUME NEW w \in Workers, QueryTests(w) PROVE Goal
  <2>1. \E j : Goes(w, j) /\ running' = running
    BY <1>5 DEF QueryTests
  <2>. QED BY <1>4, <1>5, <2>1
<1>6. ASSUME NEW w \in Workers, QueryLimits(w) PROVE Goal
  <2>1. \E p, x : Goes(w, Job(p, job[w].tests, x, 0, 0)) /\ running' = running /\ job[w].at = "limits"
    BY <1>6 DEF QueryLimits, Judging
  <2>2. \A p, r, x, i, k : Job(p, r, x, i, k).tests = r
    BY DEF Job
  <2>. QED BY <1>4, <2>1, <2>2
<1>7. ASSUME NEW w \in Workers, Compile(w) \/ Assigned(w) PROVE Goal
  <2>1. job[w].at # "none" /\ job[w] \in Jobs
    BY <1>7, JobFacts DEF Compile, Assigned, Judging
  <2>2. [job[w] EXCEPT !.at = "assign"].tests = job[w].tests
        /\ [job[w] EXCEPT !.at = "run"].tests = job[w].tests
    BY <2>1 DEF Jobs
  <2>3. running' = running /\ (Goes(w, [job[w] EXCEPT !.at = "assign"]) \/ Goes(w, [job[w] EXCEPT !.at = "run"]))
    BY <1>7 DEF Compile, Assigned
  <2>. QED BY <1>4, <2>1, <2>2, <2>3
<1>8. ASSUME NEW w \in Workers, CompileRaces(w) PROVE Goal
  <2>1. job[w].at # "none" /\ job[w] \in Jobs
    BY <1>8, JobFacts DEF CompileRaces, Judging
  <2>2. [job[w] EXCEPT !.at = "run"].tests = job[w].tests
    BY <2>1 DEF Jobs
  <2>3. \/ running' = running /\ Goes(w, [job[w] EXCEPT !.at = "run"])
        \/ EndTask(w)
        \/ running' = running /\ job' = job
    BY <1>8 DEF CompileRaces
  <2>. QED BY <1>1, <1>2, <1>4, <2>1, <2>2, <2>3
<1>9. ASSUME NEW w \in Workers, Run(w) PROVE Goal
  <2>1. \/ EndTask(w)
        \/ \E x, k : Goes(w, Job("publish", job[w].tests, x, 1, k)) /\ running' = running /\ job[w].at = "run"
    BY <1>9 DEF Run, Judging
  <2>2. \A p, r, x, i, k : Job(p, r, x, i, k).tests = r
    BY DEF Job
  <2>. QED BY <1>2, <1>4, <2>1, <2>2
<1>10. ASSUME NEW w \in Workers, PublishResult(w) PROVE Goal
  <2>1. job[w].at # "none" /\ job[w] \in Jobs
    BY <1>10, JobFacts DEF PublishResult, Judging
  <2>2. [job[w] EXCEPT !.next = job[w].next + 1].tests = job[w].tests
    BY <2>1 DEF Jobs
  <2>3. EndTask(w) \/ (running' = running /\ Goes(w, [job[w] EXCEPT !.next = job[w].next + 1]))
    BY <1>10 DEF PublishResult
  <2>. QED BY <1>2, <1>4, <2>1, <2>2, <2>3
<1>11. ASSUME NEW w \in Workers, Execute(w) \/ TaskFails(w) PROVE Goal
  BY <1>2, <1>11 DEF Execute, TaskFails
<1>12. ASSUME NEW w \in Workers, QueryNoLimits(w) \/ QueryFails(w) \/ ExecuteNull(w) PROVE Goal
  BY <1>1, <1>12 DEF QueryNoLimits, QueryFails, ExecuteNull, DatabaseKills, pool
<1>13. ASSUME (\E h \in Threads : RequestStep(h)) \/ ChannelStep \/ OutsideStep \/ Perish
                 \/ UNCHANGED problemVars
       PROVE  running' = running /\ job' = job
  BY <1>13 DEF RequestStep, pool, CreateProblem, UploadTestCases, Submit, AddProblemLimit,
               QuerySubmission, CreatePublish, SubmitEnqueue, SelectStatus, RequestFails, LookupFails,
               DatabaseKills, ChannelStep, Deliver, Drop, Unheard, OutsideStep, Lapse, EditTests, Perish, problemVars
<1>14. ASSUME NEW w \in Workers, TaskStep(w) PROVE Goal
  BY <1>3, <1>5, <1>6, <1>7, <1>8, <1>9, <1>10, <1>11, <1>12, <1>14
     DEF TaskStep, QueryStep, CompileStep
<1>. QED BY <1>1, <1>13, <1>14 DEF ProblemsNext, Goal

(* The result that a judge task publishes names the right test. *)
LEMMA PublishesRight ==
    ASSUME ProblemTypes, ResultInv, NEW w \in Workers, PublishResult(w)
    PROVE  RightTask(ResultOp(running[w].sub, running[w].title, TestOf(job[w])))
<1>. DEFINE j == job[w]  t == running[w].title
<1>1. /\ running[w].op = "judge" /\ j.at = "publish" /\ j \in Jobs /\ t \in Titles
      /\ j.next \in 1..j.last /\ j.last \in 1..Len(j.tests.order)
  BY JobFacts DEF PublishResult, Judging
<1>2. RightJob(j, t)
  BY <1>1 DEF ResultInv
<1>3. j.next \in 1..Len(j.tests.order)
  BY <1>1 DEF Jobs
<1>4. j.tests.edit <= edits
  BY <1>1 DEF Jobs, ProblemTypes
<1>5. Right(TestOf(j), t)
  BY <1>1, <1>2, <1>3, <1>4 DEF Right, RightJob, TestOf
<1>. QED BY <1>5 DEF RightTask, ResultOp, Task

(* A judge task reads the tests of its problem in the right order. *)
LEMMA ReadsRight ==
    ASSUME ProblemTypes, NEW w \in Workers, QueryTests(w)
    PROVE  RightJob(job[w], running[w].title)'
<1>. DEFINE t == running[w].title  seqs == tests[t].seqs
<1>1. running[w].op = "judge" /\ t \in Titles
  BY JobFacts DEF QueryTests, Judging
<1>2. seqs \in Seq(Nat)
  BY <1>1, InputsAssumption DEF ProblemTypes
<1>3. PICK p \in ByNumber(seqs) :
         /\ job'[w].tests = [order |-> p, edit |-> tests[t].edit, numbered |-> Numbered(seqs)]
         /\ running' = running /\ tests' = tests
  BY DEF QueryTests, Goes, Job, tables, ProblemTypes
<1>4. Numbered(seqs) => Len(p) = Len(seqs) /\ \A i \in 1..Len(seqs) : p[i] \in 1..Len(seqs) /\ seqs[p[i]] = i
  BY <1>2, OrderIsRight
<1>. QED BY <1>3, <1>4 DEF RightJob

(* A result is stored with the test it names. *)
LEMMA StoresRight ==
    ASSUME ProblemTypes, ResultInv, NEW w \in Workers, running[w].op = "result", StoreResult(running[w])
    PROVE  \A r \in results' : r.numbered /\ r.at = r.edit => r.test = r.row
<1>. DEFINE m == running[w]  now == tests[m.title]
            named == {i \in DOMAIN now.seqs : now.seqs[i] = m.test.idx}
            row == [sub |-> m.sub, row |-> m.test.row, edit |-> m.test.edit, numbered |-> m.test.numbered,
                    test |-> CHOOSE i \in named : TRUE, at |-> now.edit]
<1>1. results' = IF Cardinality(named) = 1 THEN results \cup {row} ELSE results
  BY DEF StoreResult
<1>2. m.title \in Titles
  BY JobFacts DEF Messages, Shaped
<1>3. now.seqs \in Seq(Nat)
  BY <1>2, InputsAssumption DEF ProblemTypes
<1>4. ASSUME Cardinality(named) = 1, m.test.numbered, m.test.edit = now.edit
      PROVE  (CHOOSE i \in named : TRUE) = m.test.row
  <2>1. m.test.row \in named
    <3>1. Right(m.test, m.title)
      BY DEF ResultInv, RightTask
    <3>. QED BY <1>3, <1>4, <3>1 DEF Right
  <2>2. IsFiniteSet(named)
    <3>1. Len(now.seqs) \in Nat /\ DOMAIN now.seqs = 1..Len(now.seqs)
      BY <1>3
    <3>2. IsFiniteSet(1..Len(now.seqs)) /\ named \subseteq 1..Len(now.seqs)
      BY <3>1, FS_Interval
    <3>. HIDE DEF named
    <3>. QED BY <3>2, FS_Subset
  <2>. HIDE DEF named
  <2>3. PICK x : named = {x}
    BY <1>4, <2>2, FS_Singleton
  <2>. QED BY <2>1, <2>3
<1>5. ASSUME Cardinality(named) = 1
      PROVE  row.numbered /\ row.at = row.edit => row.test = row.row
  <2>. HIDE DEF m, now, named
  <2>1. row.numbered = m.test.numbered /\ row.at = now.edit /\ row.edit = m.test.edit
        /\ row.row = m.test.row /\ row.test = CHOOSE i \in named : TRUE
    OBVIOUS
  <2>. QED BY <1>4, <1>5, <2>1 DEF m, now, named
<1>. HIDE DEF row, named
<1>. QED BY <1>1, <1>5 DEF ResultInv, ResultsNameTheirTest

(* Every step preserves ResultInv. *)
LEMMA ResultStep ==
    ASSUME ProblemTypes, ResultInv, [ProblemsNext]_problemVars
    PROVE  ResultInv'
<1>1. /\ \A i \in 1..Len(queue) : queue[i] \in Tasks \cup {NoTask}
      /\ \A i \in 1..Len(socket) : socket[i] \in Tasks \cup {NoTask}
      /\ \A w \in Workers : running[w] \in Tasks \cup {NoTask}
  <2>1. \A S, q : q \in Seq(S) => \A i \in 1..Len(q) : q[i] \in S
    BY ElementOfSeq
  <2>. QED BY <2>1, OpTypes DEF ProblemTypes
<1>2. \A i \in 1..Len(queue') : RightTask(queue[i])'
  <2>1. \A i \in 1..Len(queue') : (RightTask(queue'[i]) /\ queue'[i] \in Tasks \cup {NoTask})
                                  \/ queue'[i].op # "result"
    BY <1>1, ResultSources DEF ResultInv
  <2>. QED BY <2>1, RightPersists DEF RightTask
<1>3. \A i \in 1..Len(socket') : RightTask(socket[i])'
  <2>1. ASSUME NEW w \in Workers, PublishResult(w)
        PROVE  LET m == ResultOp(running[w].sub, running[w].title, TestOf(job[w]))
               IN  RightTask(m) /\ m \in Tasks \cup {NoTask}
    BY <2>1, PublishesRight, ResultTypes, OpTypes
  <2>2. \A i \in 1..Len(socket') : (RightTask(socket'[i]) /\ socket'[i] \in Tasks \cup {NoTask})
                                   \/ socket'[i].op # "result"
    BY <1>1, <2>1, ResultSources DEF ResultInv
  <2>. QED BY <2>2, RightPersists DEF RightTask
<1>4. \A w \in Workers : RightTask(running[w])'
  <2>1. \A w \in Workers : (RightTask(running'[w]) /\ running'[w] \in Tasks \cup {NoTask})
                           \/ running'[w].op = "none"
    BY <1>1, TaskOrigins DEF ResultInv
  <2>. QED BY <2>1, RightPersists DEF RightTask
<1>5. ASSUME NEW v \in Workers, running'[v].op = "judge" PROVE RightJob(job[v], running[v].title)'
  <2>1. CASE job'[v] = NoJob
    BY <2>1 DEF NoJob, Job, RightJob
  <2>2. CASE QueryTests(v)
    BY <2>2, ReadsRight
  <2>3. CASE /\ running'[v] = running[v]
             /\ job'[v] = job[v] \/ (job[v].at # "none" /\ job'[v].tests = job[v].tests)
    <3>1. CASE job[v].at = "none"
      BY <2>3, <3>1 DEF RightJob
    <3>2. CASE job[v].at # "none"
      <4>1. running[v].title \in Titles /\ job[v].tests.edit \in 0..edits
        BY <1>5, <2>3, <3>2, JobFacts DEF Jobs
      <4>2. RightJob(job[v], running[v].title)
        BY <1>5, <2>3 DEF ResultInv
      <4>3. PICK j, t : j = job[v] /\ t = running[v].title
        OBVIOUS
      <4>4. RightJob(j, t)'
        BY <4>1, <4>2, <4>3, RightPersists
      <4>. QED BY <2>3, <3>2, <4>3, <4>4 DEF RightJob
    <3>. QED BY <3>1, <3>2
  <2>. QED BY <1>5, <2>1, <2>2, <2>3, JobSources
<1>6. ResultsNameTheirTest'
  <2>1. ASSUME NEW w \in Workers, running[w].op = "result", StoreResult(running[w])
        PROVE  ResultsNameTheirTest'
    BY <2>1, StoresRight DEF ResultsNameTheirTest
  <2>2. \/ results' = results
        \/ \E w \in Workers : running[w].op = "result" /\ StoreResult(running[w])
    <3>1. results' = results \/ \E w \in Workers : Execute(w)
      BY DEF ProblemsNext, tables, RequestStep, CreateProblem, UploadTestCases, Submit,
             AddProblemLimit, QuerySubmission, CreatePublish, SubmitEnqueue, SelectStatus, RequestFails,
             LookupFails, DatabaseKills, TaskStep, Start, ExecuteNull, TaskFails, QueryStep, QueryTests,
             QueryLimits, QueryNoLimits, QueryFails,
             CompileStep, Compile, Assigned, CompileRaces, Run, PublishResult, ChannelStep, Deliver,
             Drop, Unheard, OutsideStep, Lapse, EditTests, Perish, problemVars
    <3>. QED BY <3>1 DEF Execute
  <2>. QED BY <2>1, <2>2 DEF ResultInv, ResultsNameTheirTest
<1>. QED BY <1>2, <1>3, <1>4, <1>5, <1>6 DEF ResultInv

(* ResultsNameTheirTest, for every set of problems, tables and workers.    *)
THEOREM ResultsCorrect ==
    ProblemsSpec => []ResultsNameTheirTest
<1>1. ProblemsInit => ResultInv
  <2>1. ASSUME ProblemsInit PROVE ResultInv
    <3>1. /\ queue = <<>> /\ socket = <<>> /\ results = {} /\ \A w \in Workers : running[w].op = "none"
      BY <2>1 DEF ProblemsInit, NoTask, Task
    <3>. QED BY <3>1 DEF ResultInv, RightTask, ResultsNameTheirTest
  <2>. QED BY <2>1
<1>2. ProblemTypes /\ ResultInv /\ [ProblemsNext]_problemVars => ResultInv'
  BY ResultStep
<1>3. ResultInv => ResultsNameTheirTest
  BY DEF ResultInv
<1>. QED BY <1>1, <1>2, <1>3, ProblemTypesCorrect, PTL DEF ProblemsSpec
=============================================================================
