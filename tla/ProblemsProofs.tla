--------------------------- MODULE ProblemsProofs ---------------------------
(***************************************************************************)
(* Proofs about Problems, for every number of threads and workers, every   *)
(* set of problems, languages, tables and limits and every width of the    *)
(* integers: the types, then four properties that need more than their     *)
(* own words to be inductive.                                              *)
(*   LimitsAsAsked   what is on its way, stored or read was asked for      *)
(*                   (AskedInv), and the products only lose what wraps     *)
(*   WaitingIsNewer  the queue and the socket keep the order of asking     *)
(*                   (OrderInv)                                            *)
(*   LimitsAreStored a limit waits, is lost or was executed, and a row is  *)
(*                   only replaced by one that was asked for (StoredInv)   *)
(*   SubmittedInv    what ServerProofs needs to know of submissions        *)
(***************************************************************************)
EXTENDS Problems, SequenceTheorems, TLAPS

USE DEF Rows

(* A uint32_t keeps what fits and never gets larger. *)
LEMMA ModFacts ==
    ASSUME NEW x \in Nat
    PROVE  x % Word \in 0..(Word - 1) /\ x % Word <= x /\ (x < Word => x % Word = x)
BY WordAssumption

(* What a factor of at least 1 preserves. *)
LEMMA Grows == ASSUME NEW x \in Nat, NEW y \in Nat, x <= y
    PROVE x * Kilo \in Nat /\ x * Kilo <= y * Kilo /\ x <= x * Kilo
BY WordAssumption

(* memory.max: never more than the limit and the slack, and exactly that   *)
(* if it fits.                                                             *)
LEMMA MemoryOk ==
    ASSUME NEW a \in Nat
    PROVE  LET memory == (a + Slack) * Kilo
           IN /\ MemoryMax(Uint(a)) <= memory
              /\ memory < Word => MemoryMax(Uint(a)) = memory
<1>. DEFINE u == a % Word  v == u + Slack  x == v % Word
<1>1. u \in Nat /\ u <= a /\ (a < Word => u = a)
  BY ModFacts, WordAssumption
<1>2. v \in Nat /\ v <= a + Slack /\ a + Slack \in Nat
  BY <1>1, WordAssumption
<1>3. x \in Nat /\ x <= v /\ (v < Word => x = v)
  BY ModFacts, <1>2, WordAssumption
<1>4. x <= a + Slack
  BY <1>2, <1>3
<1>5. x * Kilo \in Nat /\ x * Kilo <= (a + Slack) * Kilo /\ a + Slack <= (a + Slack) * Kilo
      /\ (a + Slack) * Kilo \in Nat
  BY <1>2, <1>3, <1>4, Grows
<1>6. (x * Kilo) % Word <= x * Kilo /\ (x * Kilo < Word => (x * Kilo) % Word = x * Kilo)
      /\ (x * Kilo) % Word \in Nat
  BY <1>5, ModFacts, WordAssumption
<1>7. MemoryMax(Uint(a)) = (x * Kilo) % Word
  BY DEF MemoryMax, Bytes, Uint
<1>8. (a + Slack) * Kilo < Word => x = a + Slack
  BY <1>1, <1>2, <1>3, <1>5, WordAssumption
<1>. QED BY <1>5, <1>6, <1>7, <1>8, WordAssumption

(* The messages and tasks that are made have their types. *)
LEMMA OpTypes ==
    /\ \A t \in Titles, l \in Langs, i \in Nat, x \in Nat : LimitOp(t, l, i, x) \in Messages
    /\ \A t \in Titles : CreateOp(t) \in Messages /\ UploadOp(t) \in Messages
    /\ \A t \in Titles, l \in Langs, s \in Nat : JudgeTask(s, t, l) \in Tasks
    /\ \A s \in Nat, t \in Titles, r \in Tests : ResultOp(s, t, r) \in Messages
    /\ Messages \subseteq Tasks
BY DEF LimitOp, CreateOp, UploadOp, ResultOp, JudgeTask, Task, NoTest, Tests, Messages, Tasks, Shaped

(* Which numbers of limits are in a sequence, and in one of length 1. *)
LEMMA OneLimit == \A m, n : n \in LimitsIn(<<m>>) <=> m.op = "limit" /\ m.n = n
BY DEF LimitsIn

LEMMA LimitsInTypes == \A q \in Seq(Messages) : LimitsIn(q) \subseteq Nat
<1>. SUFFICES ASSUME NEW q \in Seq(Messages), NEW i \in 1..Len(q) PROVE q[i].n \in Nat
  BY DEF LimitsIn
<1>1. q[i] \in Messages
  BY ElementOfSeq
<1>. QED BY <1>1 DEF Messages, Shaped

(* Each step of a request preserves the types. *)
LEMMA RequestTypes ==
    ASSUME ProblemTypes, NEW h \in Threads, RequestStep(h)
    PROVE  ProblemTypes'
<1>. USE DEF ProblemTypes, tables, pool, books, story, Handling
<1>1. ASSUME NEW t \in Titles, CreateProblem(h, t) PROVE ProblemTypes'
  BY <1>1 DEF CreateProblem, Request, Idle, inputs, JobType
<1>2. ASSUME NEW t \in Titles, UploadTestCases(h, t) PROVE ProblemTypes'
  BY <1>2, OpTypes DEF UploadTestCases, Request, JobType
<1>3. ASSUME NEW t \in Titles, NEW l \in Langs, Submit(h, t, l) PROVE ProblemTypes'
  <2>. DEFINE row == [title |-> t, lang |-> l, ready |-> limits[<<t, l>>] # NoRow]
  <2>1. /\ submitted' = Append(submitted, row) /\ row \in [title : Titles, lang : Langs, ready : BOOLEAN]
        /\ req' = [req EXCEPT ![h] = Handling("enqueue", t, l, Len(submitted) + 1)]
        /\ cache' = cache \cup {Len(submitted) + 1}
        /\ requests' = requests + 1
        /\ UNCHANGED <<tables, socket, pool, gcc, alive, asked, runs, blind, lost, outage, edits>>
    BY <1>3 DEF Submit, Request
  <2>. HIDE DEF row
  <2>2. /\ submitted' \in Seq([title : Titles, lang : Langs, ready : BOOLEAN])
        /\ Len(submitted) \in Nat /\ Len(submitted') = Len(submitted) + 1
    BY <2>1
  <2>3. cache' \subseteq 1..Len(submitted')
    <3>1. \A n \in Nat : 1..n \cup {n + 1} = 1..(n + 1)
      OBVIOUS
    <3>. QED BY <2>1, <2>2, <3>1
  <2>4. \A i \in Threads : /\ req'[i].at \in {"create", "enqueue"} => req'[i].title \in Titles
                           /\ req'[i].at = "enqueue" => req'[i].lang \in Langs
    BY <2>1
  <2>. QED BY <2>1, <2>2, <2>3, <2>4 DEF JobType
<1>4. ASSUME NEW t \in Titles, NEW l \in Langs, NEW kb \in Asked, AddProblemLimit(h, t, l, kb)
      PROVE ProblemTypes'
  <2>1. kb \in Nat /\ Uint(kb) \in Nat /\ Len(asked) + 1 \in Nat
    BY ModFacts, InputsAssumption, WordAssumption DEF Uint
  <2>2. LimitOp(t, l, Len(asked) + 1, Uint(kb)) \in Messages
    BY <2>1, OpTypes
  <2>. QED BY <1>4, <2>2 DEF AddProblemLimit, Request, JobType
<1>5. ASSUME NEW s \in 1..(Len(submitted) + 1), QuerySubmission(h, s) PROVE ProblemTypes'
  <2>1. CASE req' = req /\ blind' = blind
    BY <1>5, <2>1 DEF QuerySubmission, Request, JobType
  <2>2. CASE req' = [req EXCEPT ![h] = Handling("select", "none", "none", s)] /\ blind' = TRUE
    BY <1>5, <2>2 DEF QuerySubmission, Request, JobType
  <2>. QED BY <1>5, <2>1, <2>2 DEF QuerySubmission
<1>6. ASSUME CreatePublish(h) PROVE ProblemTypes'
  BY <1>6, OpTypes DEF CreatePublish, Done, Idle, JobType
<1>7. ASSUME SubmitEnqueue(h) PROVE ProblemTypes'
  <2>1. /\ req[h].at = "enqueue" /\ req[h].title \in Titles
        /\ req[h].lang \in Langs /\ req[h].sub \in Nat
    BY <1>7 DEF SubmitEnqueue
  <2>2. JudgeTask(req[h].sub, req[h].title, req[h].lang) \in Tasks
    BY <2>1, OpTypes
  <2>. QED BY <1>7, <2>2 DEF SubmitEnqueue, Done, Idle, JobType
<1>8. ASSUME SelectStatus(h) PROVE ProblemTypes'
  BY <1>8 DEF SelectStatus, JobType
<1>9. ASSUME RequestFails(h) PROVE ProblemTypes'
  BY <1>9 DEF RequestFails, Done, Idle, JobType
<1>10. ASSUME LookupFails(h) PROVE ProblemTypes'
  BY <1>10 DEF LookupFails, DatabaseKills, JobType
<1>. QED BY <1>1, <1>2, <1>3, <1>4, <1>5, <1>6, <1>7, <1>8, <1>9, <1>10 DEF RequestStep

(* The end of a task leaves the pool well typed. *)
LEMMA EndTaskTypes ==
    ASSUME ProblemTypes, NEW w \in Workers, EndTask(w), edits' = edits
    PROVE  /\ running' \in [Workers -> Tasks \cup {NoTask}]
           /\ DOMAIN job' = Workers
           /\ \A v \in Workers : JobType(job[v], running[v])'
BY DEF ProblemTypes, EndTask, JobType

(* So does a judge task that goes on. *)
LEMMA GoesTypes ==
    ASSUME ProblemTypes, NEW w \in Workers, NEW j, Goes(w, j), JobType(j, running[w]),
           UNCHANGED <<running, edits>>
    PROVE  /\ DOMAIN job' = Workers
           /\ \A v \in Workers : JobType(job[v], running[v])'
BY DEF ProblemTypes, Goes, JobType

(* What a judge task has read and done. *)
Jobs == [at : {"limits", "compile", "assign", "run", "publish"},
         tests : [order : Seq(Nat), edit : 0..edits, numbered : BOOLEAN],
         limit : [n : Int, kb : Nat], next : Nat, last : Nat]

(* What the types say of the task of a worker and of what it has read. *)
LEMMA JobFacts ==
    ASSUME ProblemTypes, NEW w \in Workers
    PROVE  /\ running[w].op = "judge" => /\ running[w].title \in Titles /\ running[w].lang \in Langs
                                          /\ running[w].sub \in Nat
           /\ running[w].op \notin {"none", "judge"} => running[w] \in Messages
           /\ running[w].op # "judge" => job[w] = NoJob
           /\ job[w].at # "none" => /\ job[w] \in Jobs
                                    /\ job[w].at = "publish" => /\ job[w].next \in 1..job[w].last
                                                                /\ job[w].last \in 1..Len(job[w].tests.order)
BY DEF ProblemTypes, JobType, Jobs, NoJob, Job, NoTask, Task, Tasks, Messages, Shaped

(* The result that is published is a message. *)
LEMMA ResultTypes ==
    ASSUME ProblemTypes, NEW w \in Workers, PublishResult(w)
    PROVE  ResultOp(running[w].sub, running[w].title, TestOf(job[w])) \in Messages
<1>1. /\ running[w].op = "judge" /\ job[w].at = "publish" /\ job[w] \in Jobs
      /\ running[w].sub \in Nat /\ running[w].title \in Titles
      /\ job[w].next \in 1..job[w].last /\ job[w].last \in 1..Len(job[w].tests.order)
  BY JobFacts DEF PublishResult, Judging
<1>2. TestOf(job[w]) \in Tests
  <2>. DEFINE d == job[w]
  <2>1. /\ d.tests.order \in Seq(Nat) /\ d.tests.edit \in Nat /\ d.tests.numbered \in BOOLEAN
        /\ d.next \in Nat /\ d.next \in 1..Len(d.tests.order)
    BY <1>1 DEF Jobs
  <2>2. \A q \in Seq(Nat) : \A i \in 1..Len(q) : q[i] \in Nat
    BY ElementOfSeq
  <2>3. d.tests.order[d.next] \in Nat
    <3>. HIDE DEF d
    <3>. QED BY <2>1, <2>2
  <2>. QED BY <2>1, <2>3 DEF TestOf, Tests
<1>. QED BY <1>1, <1>2, OpTypes

(* Each step of a task preserves the types. *)
LEMMA TaskTypes ==
    ASSUME ProblemTypes, NEW w \in Workers, TaskStep(w)
    PROVE  ProblemTypes'
<1>. USE DEF ProblemTypes, tables, pool, books, story
<1>1. ASSUME Start(w) PROVE ProblemTypes'
  <2>1. /\ queue \in Seq(Tasks) /\ queue # <<>>
        /\ Head(queue) \in Tasks /\ Tail(queue) \in Seq(Tasks)
    BY <1>1 DEF Start
  <2>2. job[w] = NoJob
    BY <1>1 DEF Start, JobType, NoTask, Task
  <2>3. \A v \in Workers : JobType(job[v], running[v])'
    BY <1>1, <2>2 DEF Start, JobType
  <2>. QED BY <1>1, <2>1, <2>3 DEF Start
<1>2. ASSUME Execute(w) PROVE ProblemTypes'
  <2>1. EndTask(w) /\ UNCHANGED <<req, cache, socket, queue, gcc, alive, books, requests, edits>>
    BY <1>2 DEF Execute
  <2>2. problems' = problems /\ tests' = tests
    BY <1>2 DEF Execute, StoreProblem, StoreTestCase
  <2>3. limits' \in [Titles \X Langs -> [n : Int, kb : Nat]]
    <3>1. CASE limits' = limits
      BY <3>1
    <3>2. CASE running[w].op = "limit" /\ StoreLimit(running[w])
      <4>. DEFINE row == [n |-> running[w].n, kb |-> running[w].kb]
                  key == <<running[w].title, running[w].lang>>
      <4>1. row \in [n : Int, kb : Nat]
        <5>1. running[w] \in Messages
          BY <3>2, JobFacts
        <5>. QED BY <5>1 DEF Messages, Shaped
      <4>2. limits' = limits \/ limits' = [limits EXCEPT ![key] = row]
        BY <3>2 DEF StoreLimit
      <4>. HIDE DEF row, key
      <4>. QED BY <4>1, <4>2
    <3>. QED BY <1>2, <3>1, <3>2 DEF Execute
  <2>. QED BY <2>1, <2>2, <2>3, EndTaskTypes
<1>3. ASSUME TaskFails(w) PROVE ProblemTypes'
  <2>1. lost' \subseteq Nat
    <3>1. \A n \in LimitsIn(<<running[w]>>) : n \in Nat
      <4>1. running[w].op = "limit" => running[w].n \in Nat
        BY JobFacts DEF Messages, Shaped
      <4>. QED BY <4>1, OneLimit
    <3>. QED BY <1>3, <3>1 DEF TaskFails
  <2>. QED BY <1>3, <2>1, EndTaskTypes DEF TaskFails
<1>4. ASSUME QueryTests(w) PROVE ProblemTypes'
  <2>. DEFINE now == tests[running[w].title]
              read(p) == [order |-> p, edit |-> now.edit, numbered |-> Numbered(now.seqs)]
  <2>1. running[w].op = "judge" /\ running[w].title \in Titles
    BY <1>4, JobFacts DEF QueryTests, Judging
  <2>2. now.edit \in 0..edits /\ now.seqs \in Tables /\ Len(now.seqs) \in Nat
    BY <2>1, InputsAssumption
  <2>3. PICK p \in ByNumber(now.seqs) :
           Goes(w, Job("limits", read(p), NoRow, 0, 0))
    BY <1>4 DEF QueryTests
  <2>4. p \in Seq(Nat)
    <3>1. p \in [1..Len(now.seqs) -> Nat]
      BY <2>2, <2>3 DEF ByNumber, AnyOrder
    <3>2. \E n \in Nat : p \in [1..n -> Nat]
      BY <2>2, <3>1
    <3>. QED BY <3>2, SeqDef
  <2>5. read(p) \in [order : Seq(Nat), edit : 0..edits, numbered : BOOLEAN]
    BY <2>2, <2>4 DEF Numbered
  <2>6. JobType(Job("limits", read(p), NoRow, 0, 0), running[w])
    <3>. HIDE DEF read
    <3>. QED BY <2>1, <2>5 DEF JobType, Job, NoRow
  <2>7. UNCHANGED <<running, edits>>
    BY <1>4 DEF QueryTests
  <2>8. /\ DOMAIN job' = Workers
        /\ \A v \in Workers : JobType(job[v], running[v])'
    <3>. HIDE DEF read, ProblemTypes
    <3>. QED BY <2>3, <2>6, <2>7, GoesTypes
  <2>. QED BY <1>4, <2>8 DEF QueryTests
<1>5. ASSUME QueryLimits(w) PROVE ProblemTypes'
  <2>. DEFINE row   == limits[<<running[w].title, running[w].lang>>]
              place == IF running[w].lang \in Compiled THEN "compile" ELSE "run"
  <2>1. /\ Goes(w, Job(place, job[w].tests, row, 0, 0)) /\ running[w].op = "judge"
        /\ job[w] \in Jobs
        /\ UNCHANGED <<tables, req, cache, socket, queue, running, gcc, alive, books, requests, edits>>
    BY <1>5, JobFacts DEF QueryLimits, Judging
  <2>2. row \in [n : Int, kb : Nat]
    BY <2>1, JobFacts
  <2>3. JobType(Job(place, job[w].tests, row, 0, 0), running[w])
    <3>1. place \in {"compile", "run"}
      OBVIOUS
    <3>. HIDE DEF row, place
    <3>. QED BY <2>1, <2>2, <3>1 DEF Jobs, Job, JobType
  <2>. HIDE DEF row, place
  <2>. QED BY <2>1, <2>3, GoesTypes
<1>6. ASSUME Compile(w) PROVE ProblemTypes'
  BY <1>6, JobFacts, GoesTypes DEF Compile, Judging, JobType, Jobs
<1>7. ASSUME Assigned(w) PROVE ProblemTypes'
  BY <1>7, JobFacts, GoesTypes DEF Assigned, Judging, JobType, Jobs
<1>8. ASSUME CompileRaces(w) PROVE ProblemTypes'
  <2>1. CASE Goes(w, [job[w] EXCEPT !.at = "run"]) /\ UNCHANGED <<running, alive>>
    BY <1>8, <2>1, JobFacts, GoesTypes DEF CompileRaces, Judging, JobType, Jobs
  <2>2. CASE EndTask(w) /\ UNCHANGED alive
    BY <1>8, <2>2, EndTaskTypes DEF CompileRaces
  <2>3. CASE alive' = FALSE /\ UNCHANGED <<running, job>>
    BY <1>8, <2>3 DEF CompileRaces, JobType
  <2>. QED BY <1>8, <2>1, <2>2, <2>3 DEF CompileRaces
<1>9. ASSUME Run(w) PROVE ProblemTypes'
  <2>1. CASE EndTask(w)
    BY <1>9, <2>1, EndTaskTypes DEF Run
  <2>2. ASSUME NEW k \in 1..Len(job[w].tests.order),
               Goes(w, Job("publish", job[w].tests, job[w].limit, 1, k)), UNCHANGED running
        PROVE  ProblemTypes'
    <3>1. job[w] \in Jobs /\ running[w].op = "judge"
          /\ UNCHANGED <<tables, req, cache, socket, queue, gcc, alive, asked, submitted, blind,
                         lost, outage, requests, edits>>
      BY <1>9, JobFacts DEF Run, Judging
    <3>2. JobType(Job("publish", job[w].tests, job[w].limit, 1, k), running[w])
      BY <3>1 DEF Jobs, Job, JobType
    <3>. QED BY <2>2, <3>1, <3>2, GoesTypes
  <2>. QED BY <1>9, <2>1, <2>2 DEF Run
<1>10. ASSUME PublishResult(w) PROVE ProblemTypes'
  <2>. DEFINE m == ResultOp(running[w].sub, running[w].title, TestOf(job[w]))
  <2>1. /\ running[w].op = "judge" /\ job[w].at = "publish" /\ job[w] \in Jobs
        /\ running[w].sub \in Nat /\ running[w].title \in Titles
        /\ job[w].next \in 1..job[w].last /\ job[w].last \in 1..Len(job[w].tests.order)
    BY <1>10, JobFacts DEF PublishResult, Judging
  <2>3. m \in Messages /\ socket' = Append(socket, m)
    BY <1>10, ResultTypes DEF PublishResult
  <2>. HIDE DEF m
  <2>4. socket' \in Seq(Messages)
        /\ UNCHANGED <<tables, req, cache, queue, gcc, alive, books, requests, edits>>
    BY <1>10, <2>3 DEF PublishResult
  <2>5. CASE EndTask(w)
    BY <2>4, <2>5, EndTaskTypes
  <2>6. CASE /\ job[w].next # job[w].last
             /\ Goes(w, [job[w] EXCEPT !.next = job[w].next + 1]) /\ UNCHANGED running
    <3>1. JobType([job[w] EXCEPT !.next = job[w].next + 1], running[w])
      <4>1. job[w].next + 1 \in Nat /\ job[w].next + 1 \in 1..job[w].last
        <5>1. job[w].next \in Nat /\ job[w].last \in Nat
          BY <2>1 DEF Jobs
        <5>2. \A i, k \in Nat : i \in 1..k /\ i # k => i + 1 \in Nat /\ i + 1 \in 1..k
          OBVIOUS
        <5>. QED BY <2>1, <2>6, <5>1, <5>2
      <4>. QED BY <2>1, <4>1 DEF Jobs, JobType
    <3>. QED BY <2>4, <2>6, <3>1, GoesTypes
  <2>. QED BY <1>10, <2>5, <2>6 DEF PublishResult
<1>11. ASSUME QueryNoLimits(w) PROVE ProblemTypes'
  BY <1>11 DEF QueryNoLimits, JobType
<1>12. ASSUME ExecuteNull(w) \/ QueryFails(w) PROVE ProblemTypes'
  BY <1>12 DEF ExecuteNull, QueryFails, DatabaseKills, JobType
<1>. QED BY <1>1, <1>2, <1>3, <1>4, <1>5, <1>6, <1>7, <1>8, <1>9, <1>10, <1>11, <1>12
         DEF TaskStep, QueryStep, CompileStep

(* So do the channel, the administrator and the end of the process. *)
LEMMA OtherTypes ==
    ASSUME ProblemTypes, ChannelStep \/ OutsideStep \/ Perish
    PROVE  ProblemTypes'
<1>. USE DEF ProblemTypes, tables, pool, books, story
<1>1. CASE Deliver
  <2>1. /\ socket \in Seq(Messages) /\ socket # <<>>
        /\ Head(socket) \in Messages /\ Tail(socket) \in Seq(Messages)
    BY <1>1 DEF Deliver
  <2>2. Head(socket) \in Tasks
    BY <2>1 DEF Tasks
  <2>. QED BY <1>1, <2>1, <2>2 DEF Deliver, JobType
<1>2. CASE Drop
  <2>1. Head(socket) \in Messages /\ Tail(socket) \in Seq(Messages)
    BY <1>2 DEF Drop
  <2>2. lost' \subseteq Nat
    BY <1>2, <2>1, OneLimit DEF Drop, Messages, Shaped
  <2>. QED BY <1>2, <2>1, <2>2 DEF Drop, JobType
<1>3. CASE Unheard
  <2>1. LimitsIn(socket) \subseteq Nat
    BY LimitsInTypes
  <2>2. lost' \subseteq Nat
    BY <1>3, <2>1 DEF Unheard
  <2>. QED BY <1>3, <2>2 DEF Unheard, JobType
<1>4. ASSUME NEW t \in Titles, NEW table \in Tables, EditTests(t, table) PROVE ProblemTypes'
  <2>1. edits' = edits + 1 /\ tests' \in [Titles -> [edit : 0..edits', seqs : Tables]]
    BY <1>4 DEF EditTests
  <2>2. \A w \in Workers : JobType(job[w], running[w])'
    BY <1>4, <2>1 DEF EditTests, JobType
  <2>. QED BY <1>4, <2>1, <2>2 DEF EditTests
<1>5. ASSUME NEW s \in cache, Lapse(s) PROVE ProblemTypes'
  BY <1>5 DEF Lapse, JobType
<1>6. CASE Perish
  BY <1>6 DEF Perish, JobType
<1>. QED BY <1>1, <1>2, <1>3, <1>4, <1>5, <1>6 DEF ChannelStep, OutsideStep

(* The initial states are well typed. *)
LEMMA InitTypes ==
    ProblemsInit => ProblemTypes
<1>. SUFFICES ASSUME ProblemsInit PROVE ProblemTypes
  OBVIOUS
<1>1. limits \in [Titles \X Langs -> [n : Int, kb : Nat]]
  <2>. DEFINE stored == {x \in Asked : Storable(x)}
  <2>1. stored \subseteq Nat
    BY InputsAssumption
  <2>2. limits \in [Titles \X Langs -> {NoRow} \cup [n : {0}, kb : stored]]
    BY DEF ProblemsInit
  <2>. HIDE DEF stored
  <2>3. {NoRow} \cup [n : {0}, kb : stored] \subseteq [n : Int, kb : Nat]
    <3>1. NoRow \in [n : Int, kb : Nat]
      BY DEF NoRow
    <3>2. ASSUME NEW A, NEW B, A \subseteq Int, B \subseteq Nat
          PROVE  [n : A, kb : B] \subseteq [n : Int, kb : Nat]
      BY <3>2, Zenon
    <3>3. {0} \subseteq Int
      OBVIOUS
    <3>. QED BY <2>1, <3>1, <3>2, <3>3
  <2>. QED BY <2>2, <2>3
<1>2. tests \in [Titles -> [edit : 0..0, seqs : Tables]]
  BY DEF ProblemsInit
<1>3. /\ problems \subseteq Titles /\ cache \subseteq 1..Len(submitted)
      /\ req \in [Threads -> [at : {"idle", "create", "enqueue", "select"}, title : Titles \cup {"none"},
                              lang : Langs \cup {"none"}, sub : Nat]]
      /\ \A h \in Threads : req[h].at \notin {"create", "enqueue"}
  BY DEF ProblemsInit, Idle, Handling
<1>4. /\ running \in [Workers -> Tasks \cup {NoTask}] /\ DOMAIN job = Workers
      /\ \A w \in Workers : JobType(job[w], running[w])
  BY DEF ProblemsInit, JobType
<1>5. /\ socket \in Seq(Messages) /\ queue \in Seq(Tasks)
      /\ asked \in Seq([title : Titles, lang : Langs, kb : Asked, known : BOOLEAN])
      /\ submitted \in Seq([title : Titles, lang : Langs, ready : BOOLEAN])
  BY DEF ProblemsInit
<1>6. /\ gcc \in {"empty", "assigning", "set"} /\ alive \in BOOLEAN /\ blind \in BOOLEAN
      /\ lost \subseteq Nat /\ outage \in BOOLEAN /\ requests \in Nat /\ edits = 0
  BY DEF ProblemsInit
<1>. QED BY <1>1, <1>2, <1>3, <1>4, <1>5, <1>6 DEF ProblemTypes

(* A step that changes nothing preserves the types. *)
LEMMA StutterTypes ==
    ASSUME ProblemTypes, UNCHANGED problemVars
    PROVE  ProblemTypes'
BY DEF ProblemTypes, problemVars, tables, pool, books, story, JobType

(* ProblemTypes, for every instance. *)
THEOREM ProblemTypesCorrect ==
    ProblemsSpec => []ProblemTypes
<1>1. ASSUME ProblemTypes, [ProblemsNext]_problemVars PROVE ProblemTypes'
  BY <1>1, RequestTypes, TaskTypes, OtherTypes, StutterTypes DEF ProblemsNext
<1>. QED BY <1>1, InitTypes, PTL DEF ProblemsSpec
-----------------------------------------------------------------------------

(* The i-th limit that was asked for is x, as get<uint32_t>() reads it. *)
IsAsked(i, t, l, x) == /\ i \in 1..Len(asked)
                       /\ asked[i].title = t /\ asked[i].lang = l /\ x = Uint(asked[i].kb)

AskedTask(m) == m.op = "limit" => IsAsked(m.n, m.title, m.lang, m.kb)

AskedRow(r, t, l) == r.n > 0 => IsAsked(r.n, t, l, r.kb)

AskedRun(r) == r.n > 0 => /\ r.n \in 1..Len(asked)
                          /\ asked[r.n].title = r.title /\ asked[r.n].lang = r.lang
                          /\ r.memory = MemoryMax(Uint(asked[r.n].kb))
                          /\ r.stack = StackMax(Uint(asked[r.n].kb))

(* Whatever is on its way, stored or read was asked for. *)
AskedInv ==
    /\ \A i \in 1..Len(queue) : AskedTask(queue[i])
    /\ \A i \in 1..Len(socket) : AskedTask(socket[i])
    /\ \A w \in Workers : AskedTask(running[w])
    /\ \A w \in Workers : running[w].op = "judge" =>
                             AskedRow(job[w].limit, running[w].title, running[w].lang)
    /\ \A t \in Titles, l \in Langs : AskedRow(limits[<<t, l>>], t, l)

(* A worker ends its task, or goes on with limits that it had or reads. *)
Moves(w) ==
    \/ EndTask(w)
    \/ \E j : /\ Goes(w, j) /\ running' = running /\ running[w].op = "judge"
              /\ \/ j.limit = job[w].limit \/ j.limit = NoRow
                 \/ j.limit = limits[<<running[w].title, running[w].lang>>]

(* A step that leaves the limits and the queue alone. *)
OtherStep ==
    /\ UNCHANGED <<asked, limits, queue>>
    /\ UNCHANGED <<running, job>> \/ \E w \in Workers : Moves(w)
    /\ \/ socket' = socket \/ socket' = <<>>
       \/ socket # <<>> /\ socket' = Tail(socket)
       \/ \E m \in Messages : m.op # "limit" /\ socket' = Append(socket, m)

(* Every step is one of those that move limits, or an OtherStep. *)
LEMMA StepKinds ==
    ASSUME ProblemTypes, [ProblemsNext]_problemVars
    PROVE  \/ \E h \in Threads, t \in Titles, l \in Langs, kb \in Asked : AddProblemLimit(h, t, l, kb)
           \/ \E w \in Workers : Start(w) \/ Execute(w)
           \/ Deliver
           \/ \E h \in Threads : SubmitEnqueue(h)
           \/ OtherStep
<1>. USE DEF tables, pool, books, story, OtherStep
<1>1. ASSUME NEW h \in Threads, NEW t \in Titles, CreateProblem(h, t) PROVE OtherStep
  BY <1>1 DEF CreateProblem
<1>2. ASSUME NEW h \in Threads, NEW t \in Titles, UploadTestCases(h, t) PROVE OtherStep
  <2>1. UploadOp(t) \in Messages /\ UploadOp(t).op # "limit"
    BY OpTypes DEF UploadOp, Task
  <2>. QED BY <1>2, <2>1 DEF UploadTestCases
<1>3. ASSUME NEW h \in Threads, NEW t \in Titles, NEW l \in Langs, Submit(h, t, l) PROVE OtherStep
  BY <1>3 DEF Submit
<1>4. ASSUME NEW h \in Threads, NEW s \in 1..(Len(submitted) + 1), QuerySubmission(h, s) PROVE OtherStep
  BY <1>4 DEF QuerySubmission
<1>5. ASSUME NEW h \in Threads, CreatePublish(h) PROVE OtherStep
  <2>1. req[h].title \in Titles
    BY <1>5 DEF CreatePublish, ProblemTypes
  <2>2. CreateOp(req[h].title) \in Messages /\ CreateOp(req[h].title).op # "limit"
    BY <2>1, OpTypes DEF CreateOp, Task
  <2>. QED BY <1>5, <2>2 DEF CreatePublish
<1>6. ASSUME NEW h \in Threads, SelectStatus(h) \/ RequestFails(h) \/ LookupFails(h) PROVE OtherStep
  BY <1>6 DEF SelectStatus, RequestFails, LookupFails, DatabaseKills
<1>7. ASSUME NEW w \in Workers, TaskFails(w) PROVE OtherStep
  BY <1>7 DEF TaskFails, Moves
<1>8. ASSUME NEW w \in Workers, QueryTests(w) PROVE OtherStep
  <2>1. \A r, i, k : Job("limits", r, NoRow, i, k).limit = NoRow
    BY DEF Job
  <2>. QED BY <1>8, <2>1 DEF QueryTests, Judging, Moves
<1>9. ASSUME NEW w \in Workers, QueryLimits(w) PROVE OtherStep
  <2>1. \A p, r, x : Job(p, r, x, 0, 0).limit = x
    BY DEF Job
  <2>. QED BY <1>9, <2>1 DEF QueryLimits, Judging, Moves
<1>10. ASSUME NEW w \in Workers, QueryNoLimits(w) \/ QueryFails(w) \/ ExecuteNull(w) PROVE OtherStep
  BY <1>10 DEF QueryNoLimits, QueryFails, ExecuteNull, DatabaseKills
<1>11. ASSUME NEW w \in Workers, Compile(w) \/ Assigned(w) \/ CompileRaces(w) PROVE OtherStep
  <2>1. running[w].op = "judge" /\ job[w] \in Jobs
    BY <1>11, JobFacts DEF Compile, Assigned, CompileRaces, Judging
  <2>2. \A p : [job[w] EXCEPT !.at = p].limit = job[w].limit
    BY <2>1 DEF Jobs
  <2>. QED BY <1>11, <2>1, <2>2 DEF Compile, Assigned, CompileRaces, Moves
<1>12. ASSUME NEW w \in Workers, Run(w) PROVE OtherStep
  <2>1. running[w].op = "judge"
    BY <1>12 DEF Run, Judging
  <2>2. \A r, x, k : Job("publish", r, x, 1, k).limit = x
    BY DEF Job
  <2>. QED BY <1>12, <2>1, <2>2 DEF Run, Moves
<1>13. ASSUME NEW w \in Workers, PublishResult(w) PROVE OtherStep
  <2>. DEFINE m == ResultOp(running[w].sub, running[w].title, TestOf(job[w]))
  <2>1. running[w].op = "judge" /\ job[w] \in Jobs
    BY <1>13, JobFacts DEF PublishResult, Judging
  <2>2. m.op # "limit" /\ m \in Messages
    BY <1>13, ResultTypes DEF ResultOp, Task
  <2>3. [job[w] EXCEPT !.next = job[w].next + 1].limit = job[w].limit
    BY <2>1 DEF Jobs
  <2>. QED BY <1>13, <2>1, <2>2, <2>3 DEF PublishResult, Moves
<1>14. ASSUME ChannelStep PROVE Deliver \/ OtherStep
  BY <1>14 DEF ChannelStep, Drop, Unheard
<1>15. ASSUME OutsideStep \/ Perish \/ UNCHANGED problemVars PROVE OtherStep
  BY <1>15 DEF OutsideStep, Lapse, EditTests, Perish, problemVars
<1>. HIDE DEF OtherStep
<1>16. CASE \E h \in Threads : RequestStep(h)
  BY <1>16, <1>1, <1>2, <1>3, <1>4, <1>5, <1>6 DEF RequestStep
<1>17. CASE \E w \in Workers : TaskStep(w)
  BY <1>17, <1>7, <1>8, <1>9, <1>10, <1>11, <1>12, <1>13 DEF TaskStep, QueryStep, CompileStep
<1>. QED BY <1>14, <1>15, <1>16, <1>17 DEF ProblemsNext
-----------------------------------------------------------------------------
(* What Append does to the elements of a sequence. *)
LEMMA AppendAt ==
    ASSUME NEW S, NEW s \in Seq(S), NEW e \in S
    PROVE  /\ Len(Append(s, e)) = Len(s) + 1 /\ Len(s) \in Nat
           /\ \A i \in 1..Len(s) : Append(s, e)[i] = s[i]
           /\ Append(s, e)[Len(s) + 1] = e
           /\ \A i \in 1..Len(Append(s, e)) : i \in 1..Len(s) \/ i = Len(s) + 1
OBVIOUS

(* What Tail does to them. *)
LEMMA TailAt ==
    ASSUME NEW S, NEW s \in Seq(S), s # <<>>
    PROVE  /\ 1 \in 1..Len(s) /\ Head(s) = s[1] /\ Len(Tail(s)) = Len(s) - 1
           /\ \A i \in 1..Len(Tail(s)) : i + 1 \in 1..Len(s) /\ Tail(s)[i] = s[i + 1]
OBVIOUS

(* An element of a sequence is its head or in its tail. *)
LEMMA TailHas ==
    ASSUME NEW S, NEW s \in Seq(S), s # <<>>
    PROVE  \A i \in 1..Len(s) : s[i] = Head(s) \/ \E k \in 1..Len(Tail(s)) : Tail(s)[k] = s[i]
<1>. SUFFICES ASSUME NEW i \in 1..Len(s), i # 1 PROVE \E k \in 1..Len(Tail(s)) : Tail(s)[k] = s[i]
  BY TailAt
<1>1. i - 1 \in 1..Len(Tail(s)) /\ Tail(s)[i - 1] = s[i]
  OBVIOUS
<1>. QED BY <1>1

(* What has been asked for stays asked for. *)
LEMMA AskedStays ==
    ASSUME ProblemTypes, [ProblemsNext]_problemVars
    PROVE  /\ Len(asked) \in Nat /\ Len(asked') \in Nat /\ Len(asked) <= Len(asked')
           /\ \A i \in 1..Len(asked) : i \in 1..Len(asked') /\ asked'[i] = asked[i]
<1>1. asked \in Seq([title : Titles, lang : Langs, kb : Asked, known : BOOLEAN])
  BY DEF ProblemTypes
<1>2. asked' = asked \/ \E t \in Titles, l \in Langs, kb \in Asked :
                            asked' = Append(asked, [title |-> t, lang |-> l, kb |-> kb, known |-> t \in problems])
  <2>1. ASSUME NEW h \in Threads, NEW t \in Titles, NEW l \in Langs, NEW kb \in Asked,
               AddProblemLimit(h, t, l, kb)
        PROVE  asked' = Append(asked, [title |-> t, lang |-> l, kb |-> kb, known |-> t \in problems])
    BY <2>1 DEF AddProblemLimit
  <2>2. ASSUME (\E w \in Workers : Start(w) \/ Execute(w)) \/ Deliver \/ (\E h \in Threads : SubmitEnqueue(h))
        PROVE  asked' = asked
    BY <2>2 DEF Start, Execute, Deliver, SubmitEnqueue, books, story
  <2>. QED BY <2>1, <2>2, StepKinds DEF OtherStep
<1>3. ASSUME NEW t \in Titles, NEW l \in Langs, NEW kb \in Asked,
             asked' = Append(asked, [title |-> t, lang |-> l, kb |-> kb, known |-> t \in problems])
      PROVE  /\ Len(asked') = Len(asked) + 1 /\ Len(asked) \in Nat
             /\ \A i \in 1..Len(asked) : asked'[i] = asked[i]
  <2>1. [title |-> t, lang |-> l, kb |-> kb, known |-> t \in problems] \in [title : Titles, lang : Langs, kb : Asked, known : BOOLEAN]
    OBVIOUS
  <2>. QED BY <1>1, <1>3, <2>1, AppendAt
<1>4. \A n \in Nat : n + 1 \in Nat /\ n <= n + 1 /\ \A i \in 1..n : i \in 1..(n + 1)
  OBVIOUS
<1>5. Len(asked) \in Nat
  BY <1>1
<1>6. CASE asked' = asked
  <2>1. \A n \in Nat : n <= n
    OBVIOUS
  <2>. QED BY <1>5, <1>6, <2>1
<1>7. CASE /\ Len(asked') = Len(asked) + 1
           /\ \A i \in 1..Len(asked) : asked'[i] = asked[i]
  BY <1>4, <1>5, <1>7
<1>. QED BY <1>2, <1>3, <1>6, <1>7

(* So tasks, rows and runs that were asked for stay so. *)
LEMMA AskedPersists ==
    ASSUME ProblemTypes, [ProblemsNext]_problemVars
    PROVE  /\ \A m : AskedTask(m) => AskedTask(m)'
           /\ \A r, t, l : AskedRow(r, t, l) => AskedRow(r, t, l)'
           /\ \A r : AskedRun(r) => AskedRun(r)'
BY AskedStays DEF AskedTask, AskedRow, AskedRun, IsAsked

(* A worker starts a task: AskedInv is preserved. *)
LEMMA AskedInvStart ==
    ASSUME ProblemTypes, AskedInv, NEW w \in Workers, Start(w)
    PROVE  AskedInv'
<1>1. /\ asked' = asked /\ limits' = limits /\ socket' = socket /\ job' = job
      /\ running' = [running EXCEPT ![w] = Head(queue)] /\ queue' = Tail(queue)
      /\ running[w] = NoTask /\ queue # <<>>
  BY DEF Start, tables, books, story
<1>2. /\ Head(queue) = queue[1] /\ 1 \in 1..Len(queue)
      /\ \A i \in 1..Len(queue') : i + 1 \in 1..Len(queue) /\ queue'[i] = queue[i + 1]
  BY <1>1, TailAt DEF ProblemTypes
<1>3. \A m : AskedTask(m) => AskedTask(m)'
  BY <1>1 DEF AskedTask, IsAsked
<1>4. AskedTask(queue[1])
  BY <1>2 DEF AskedInv
<1>5. \A v \in Workers : AskedTask(running[v])'
  <2>. SUFFICES ASSUME NEW v \in Workers PROVE AskedTask(running[v])'
    OBVIOUS
  <2>1. running'[v] = IF v = w THEN queue[1] ELSE running[v]
    BY <1>1, <1>2 DEF ProblemTypes
  <2>. QED BY <1>3, <1>4, <2>1 DEF AskedInv, AskedTask, IsAsked
<1>6. \A v \in Workers : running'[v].op = "judge" =>
                            AskedRow(job[v].limit, running[v].title, running[v].lang)'
  <2>. SUFFICES ASSUME NEW v \in Workers, running'[v].op = "judge"
                PROVE  AskedRow(job[v].limit, running[v].title, running[v].lang)'
    OBVIOUS
  <2>1. CASE v = w
    <3>1. job'[v] = NoJob
      BY <1>1, <2>1, JobFacts DEF NoTask, Task
    <3>. QED BY <3>1 DEF NoJob, Job, NoRow, AskedRow
  <2>2. CASE v # w
    <3>1. running'[v] = running[v] /\ job'[v] = job[v]
      BY <1>1, <2>2 DEF ProblemTypes
    <3>. QED BY <1>1, <3>1 DEF AskedInv, AskedRow, IsAsked
  <2>. QED BY <2>1, <2>2
<1>. QED BY <1>1, <1>2, <1>3, <1>5, <1>6 DEF AskedInv, AskedTask, AskedRow, IsAsked

(* So it is when a worker ends a task or goes on with it. *)
LEMMA AskedMoves ==
    ASSUME ProblemTypes, AskedInv, NEW w \in Workers, Moves(w), asked' = asked
    PROVE  /\ \A v \in Workers : AskedTask(running[v])'
           /\ \A v \in Workers : running'[v].op = "judge" =>
                                    AskedRow(job[v].limit, running[v].title, running[v].lang)'
<1>0. /\ \A m : AskedTask(m)' <=> AskedTask(m)
      /\ \A r, t, l : AskedRow(r, t, l)' <=> AskedRow(r, t, l)
  BY DEF AskedTask, AskedRow, IsAsked
<1>1. CASE EndTask(w)
  <2>1. \A v \in Workers : (running'[v] = running[v] /\ job'[v] = job[v]) \/ running'[v] = NoTask
    BY <1>1 DEF EndTask, ProblemTypes
  <2>2. NoTask.op = "none"
    BY DEF NoTask, Task
  <2>. QED BY <2>1, <2>2 DEF AskedInv, AskedTask, AskedRow, IsAsked
<1>2. ASSUME NEW j, Goes(w, j), running' = running, running[w].op = "judge",
             j.limit = job[w].limit \/ j.limit = NoRow
                \/ j.limit = limits[<<running[w].title, running[w].lang>>]
      PROVE  /\ \A v \in Workers : AskedTask(running[v])'
             /\ \A v \in Workers : running'[v].op = "judge" =>
                                    AskedRow(job[v].limit, running[v].title, running[v].lang)'
  <2>1. AskedRow(j.limit, running[w].title, running[w].lang)
    <3>1. running[w].title \in Titles /\ running[w].lang \in Langs
      BY <1>2, JobFacts
    <3>2. CASE j.limit = NoRow
      BY <3>2 DEF NoRow, AskedRow
    <3>. QED BY <1>2, <3>1, <3>2 DEF AskedInv
  <2>2. \A v \in Workers : job'[v] = IF v = w THEN j ELSE job[v]
    BY <1>2 DEF Goes, ProblemTypes
  <2>3. \A v \in Workers : AskedTask(running[v])'
    BY <1>2 DEF AskedInv, AskedTask, IsAsked
  <2>4. \A v \in Workers : running'[v].op = "judge" =>
                              AskedRow(job[v].limit, running[v].title, running[v].lang)'
    <3>. SUFFICES ASSUME NEW v \in Workers, running[v].op = "judge"
                  PROVE  AskedRow(job[v].limit, running[v].title, running[v].lang)'
      BY <1>2
    <3>1. AskedRow(job'[v].limit, running[v].title, running[v].lang)
      BY <1>2, <2>1, <2>2 DEF AskedInv
    <3>. QED BY <1>2, <3>1 DEF AskedRow, IsAsked
  <2>. QED BY <2>3, <2>4
<1>. QED BY <1>1, <1>2 DEF Moves

(* Every step preserves AskedInv. *)
LEMMA AskedInvStep ==
    ASSUME ProblemTypes, AskedInv, [ProblemsNext]_problemVars
    PROVE  AskedInv'
<1>1. ASSUME NEW h \in Threads, NEW t \in Titles, NEW l \in Langs, NEW kb \in Asked,
             AddProblemLimit(h, t, l, kb)
      PROVE  AskedInv'
  <2>. DEFINE a == [title |-> t, lang |-> l, kb |-> kb, known |-> t \in problems]
  <2>1. PICK m \in Messages : /\ asked' = Append(asked, a) /\ socket' = Append(socket, m)
                              /\ UNCHANGED <<limits, queue, running, job>>
                              /\ m.n = Len(asked) + 1 /\ m.title = t /\ m.lang = l /\ m.kb = Uint(kb)
    <3>1. Uint(kb) \in Nat /\ Len(asked) + 1 \in Nat
      BY ModFacts, InputsAssumption, WordAssumption DEF Uint, ProblemTypes
    <3>2. LimitOp(t, l, Len(asked) + 1, Uint(kb)) \in Messages
      BY <3>1, OpTypes
    <3>. QED BY <1>1, <3>2 DEF AddProblemLimit, tables, pool, LimitOp, Task
  <2>2. a \in [title : Titles, lang : Langs, kb : Asked, known : BOOLEAN]
    OBVIOUS
  <2>3. AskedTask(m)'
    <3>1. a.title = t /\ a.lang = l /\ a.kb = kb
      OBVIOUS
    <3>. HIDE DEF a
    <3>2. /\ Len(asked') = Len(asked) + 1 /\ Len(asked) \in Nat
          /\ asked'[Len(asked) + 1] = a
      BY <2>1, <2>2, AppendAt DEF ProblemTypes
    <3>3. \A n \in Nat : n + 1 \in 1..(n + 1)
      OBVIOUS
    <3>. QED BY <2>1, <3>1, <3>2, <3>3 DEF AskedTask, IsAsked
  <2>. HIDE DEF a
  <2>4. \A i \in 1..Len(socket') : (i \in 1..Len(socket) /\ socket'[i] = socket[i]) \/ socket'[i] = m
    BY <2>1, <2>2, AppendAt DEF ProblemTypes
  <2>. QED BY <2>1, <2>3, <2>4, AskedPersists DEF AskedInv
<1>2. ASSUME NEW w \in Workers, Start(w) PROVE AskedInv'
  BY <1>2, AskedInvStart
<1>3. ASSUME NEW w \in Workers, Execute(w) PROVE AskedInv'
  <2>1. EndTask(w) /\ UNCHANGED <<asked, queue, socket>>
    BY <1>3 DEF Execute, books, story
  <2>2. \A t \in Titles, l \in Langs : AskedRow(limits[<<t, l>>], t, l)'
    <3>1. CASE limits' = limits
      BY <2>1, <3>1 DEF AskedInv, AskedRow, IsAsked
    <3>2. CASE running[w].op = "limit" /\ StoreLimit(running[w]) /\ limits' # limits
      <4>. DEFINE m == running[w]  row == [n |-> m.n, kb |-> m.kb]
      <4>1. limits' = [limits EXCEPT ![<<m.title, m.lang>>] = row] /\ m.op = "limit"
        BY <3>2 DEF StoreLimit
      <4>2. AskedRow(row, m.title, m.lang)
        BY <3>2 DEF AskedInv, AskedTask, AskedRow
      <4>. HIDE DEF row, m
      <4>3. \A t \in Titles, l \in Langs :
               limits'[<<t, l>>] = limits[<<t, l>>] \/ (t = m.title /\ l = m.lang /\ limits'[<<t, l>>] = row)
        <5>. SUFFICES ASSUME NEW t \in Titles, NEW l \in Langs
                      PROVE limits'[<<t, l>>] = limits[<<t, l>>] \/ (t = m.title /\ l = m.lang /\ limits'[<<t, l>>] = row)
          OBVIOUS
        <5>. DEFINE k == <<t, l>>
        <5>1. k \in DOMAIN limits
          BY DEF ProblemTypes
        <5>2. limits'[k] = IF k = <<m.title, m.lang>> THEN row ELSE limits[k]
          BY <4>1, <5>1
        <5>. QED BY <5>2
      <4>. QED BY <2>1, <4>2, <4>3 DEF AskedInv, AskedRow, IsAsked
    <3>. QED BY <1>3, <3>1, <3>2 DEF Execute
  <2>3. /\ \A v \in Workers : AskedTask(running[v])'
        /\ \A v \in Workers : running'[v].op = "judge" =>
                                    AskedRow(job[v].limit, running[v].title, running[v].lang)'
    BY <2>1, AskedMoves DEF Moves
  <2>. QED BY <2>1, <2>2, <2>3 DEF AskedInv, AskedTask, IsAsked
<1>4. ASSUME Deliver PROVE AskedInv'
  <2>1. /\ queue' = Append(queue, Head(socket)) /\ socket' = Tail(socket) /\ socket # <<>>
        /\ UNCHANGED <<asked, limits, running, job>>
    BY <1>4 DEF Deliver, tables, books, story
  <2>2. /\ Head(socket) = socket[1] /\ 1 \in 1..Len(socket) /\ Head(socket) \in Tasks
        /\ \A i \in 1..Len(socket') : i + 1 \in 1..Len(socket) /\ socket'[i] = socket[i + 1]
    BY <2>1, TailAt, OpTypes DEF ProblemTypes
  <2>3. \A i \in 1..Len(queue') : (i \in 1..Len(queue) /\ queue'[i] = queue[i]) \/ queue'[i] = socket[1]
    BY <2>1, <2>2, AppendAt DEF ProblemTypes
  <2>. QED BY <2>1, <2>2, <2>3, AskedPersists DEF AskedInv
<1>5. ASSUME NEW h \in Threads, SubmitEnqueue(h) PROVE AskedInv'
  <2>1. PICK m \in Tasks : /\ m.op # "limit" /\ queue' = Append(queue, m)
                           /\ UNCHANGED <<asked, limits, socket, running, job>>
    <3>1. JudgeTask(req[h].sub, req[h].title, req[h].lang) \in Tasks
      BY <1>5, OpTypes DEF SubmitEnqueue, ProblemTypes
    <3>. QED BY <1>5, <3>1 DEF SubmitEnqueue, tables, books, story, JudgeTask, Task
  <2>2. \A i \in 1..Len(queue') : (i \in 1..Len(queue) /\ queue'[i] = queue[i]) \/ queue'[i] = m
    BY <2>1, AppendAt DEF ProblemTypes
  <2>. QED BY <2>1, <2>2, AskedPersists DEF AskedInv, AskedTask
<1>6. CASE OtherStep
  <2>1. UNCHANGED <<asked, limits, queue>>
    BY <1>6 DEF OtherStep
  <2>2. /\ \A v \in Workers : AskedTask(running[v])'
        /\ \A v \in Workers : running'[v].op = "judge" =>
                                    AskedRow(job[v].limit, running[v].title, running[v].lang)'
    BY <1>6, <2>1, AskedMoves, AskedPersists DEF OtherStep, AskedInv
  <2>3. \A i \in 1..Len(socket') : AskedTask(socket[i])'
    <3>1. CASE socket' = socket
      BY <3>1, AskedPersists DEF AskedInv
    <3>2. CASE socket' = <<>>
      BY <3>2
    <3>3. CASE socket # <<>> /\ socket' = Tail(socket)
      <4>1. \A i \in 1..Len(socket') : i + 1 \in 1..Len(socket) /\ socket'[i] = socket[i + 1]
        BY <3>3, TailAt DEF ProblemTypes
      <4>. QED BY <4>1, AskedPersists DEF AskedInv
    <3>4. ASSUME NEW m \in Messages, m.op # "limit", socket' = Append(socket, m)
          PROVE  \A i \in 1..Len(socket') : AskedTask(socket[i])'
      <4>1. \A i \in 1..Len(socket') : (i \in 1..Len(socket) /\ socket'[i] = socket[i]) \/ socket'[i] = m
        BY <3>4, AppendAt DEF ProblemTypes
      <4>. QED BY <3>4, <4>1, AskedPersists DEF AskedInv, AskedTask
    <3>. QED BY <1>6, <3>1, <3>2, <3>3, <3>4 DEF OtherStep
  <2>. QED BY <2>1, <2>2, <2>3, AskedPersists DEF AskedInv
<1>. QED BY <1>1, <1>2, <1>3, <1>4, <1>5, <1>6, StepKinds

(* Nothing has been asked for at first. *)
LEMMA AskedInit == ProblemsInit => AskedInv
<1>. SUFFICES ASSUME ProblemsInit PROVE AskedInv
  OBVIOUS
<1>1. queue = <<>> /\ socket = <<>> /\ \A w \in Workers : running[w] = NoTask
  BY DEF ProblemsInit
<1>2. NoTask.op = "none"
  BY DEF NoTask, Task
<1>3. \A t \in Titles, l \in Langs : ~(limits[<<t, l>>].n > 0)
  <2>. SUFFICES ASSUME NEW t \in Titles, NEW l \in Langs PROVE ~(limits[<<t, l>>].n > 0)
    OBVIOUS
  <2>1. \A X : limits[<<t, l>>] \in {NoRow} \cup [n : {0}, kb : X] => ~(limits[<<t, l>>].n > 0)
    BY DEF NoRow
  <2>2. limits[<<t, l>>] \in {NoRow} \cup [n : {0}, kb : {x \in Asked : Storable(x)}]
    BY DEF ProblemsInit
  <2>. QED BY <2>1, <2>2
<1>. QED BY <1>1, <1>2, <1>3 DEF AskedInv, AskedTask, AskedRow

(* What was set for a program was computed from the limits asked for.      *)
AskedRuns == \A r \in runs : AskedRun(r)

(* A program gets limits computed from the row that its task has read. *)
LEMMA AskedRunsStep ==
    ASSUME ProblemTypes, AskedInv, AskedRuns, [ProblemsNext]_problemVars
    PROVE  AskedRuns'
<1>1. runs' = runs \/ \E w \in Workers : Run(w)
  BY DEF ProblemsNext, problemVars, books, story, RequestStep, CreateProblem, UploadTestCases, Submit,
         AddProblemLimit, QuerySubmission, CreatePublish, SubmitEnqueue, SelectStatus, RequestFails,
         LookupFails, DatabaseKills, TaskStep, Start, Execute, ExecuteNull, TaskFails,
         QueryStep, QueryTests, QueryLimits, QueryNoLimits, QueryFails,
         CompileStep, Compile, Assigned, CompileRaces, PublishResult, ChannelStep, Deliver, Drop,
         Unheard, OutsideStep, Lapse, EditTests, Perish
<1>2. ASSUME NEW w \in Workers, Run(w) PROVE AskedRuns'
  <2>. DEFINE new == [title |-> running[w].title, lang |-> running[w].lang, n |-> job[w].limit.n,
                      memory |-> MemoryMax(job[w].limit.kb), stack |-> StackMax(job[w].limit.kb)]
  <2>1. AskedRun(new)
    BY <1>2 DEF Run, Judging, AskedInv, AskedRow, IsAsked, AskedRun
  <2>2. runs' = runs \/ runs' = runs \cup {new}
    BY <1>2 DEF Run
  <2>. HIDE DEF new
  <2>3. \A r \in runs' : AskedRun(r)
    BY <2>1, <2>2 DEF AskedRuns
  <2>. QED BY <2>3, AskedPersists DEF AskedRuns
<1>. QED BY <1>1, <1>2, AskedPersists DEF AskedRuns

(* RLIMIT_STACK, like MemoryOk. *)
LEMMA StackOk ==
    ASSUME NEW a \in Nat
    PROVE  /\ StackMax(Uint(a)) <= a * Kilo
           /\ a * Kilo < Word => StackMax(Uint(a)) = a * Kilo
<1>. DEFINE u == a % Word  x == u % Word
<1>1. u \in Nat /\ u <= a /\ (a < Word => u = a)
  BY ModFacts, WordAssumption
<1>2. x \in Nat /\ x <= a /\ (a < Word => x = a)
  BY ModFacts, <1>1, WordAssumption
<1>3. x * Kilo \in Nat /\ x * Kilo <= a * Kilo /\ a <= a * Kilo /\ a * Kilo \in Nat
  BY <1>2, Grows
<1>4. (x * Kilo) % Word <= x * Kilo /\ (x * Kilo < Word => (x * Kilo) % Word = x * Kilo)
      /\ (x * Kilo) % Word \in Nat
  BY <1>3, ModFacts, WordAssumption
<1>5. StackMax(Uint(a)) = (x * Kilo) % Word
  BY DEF StackMax, Bytes, Uint
<1>6. a * Kilo < Word => x = a
  BY <1>2, <1>3, WordAssumption
<1>. QED BY <1>3, <1>4, <1>5, <1>6, WordAssumption

(* AskedRuns implies LimitsAsAsked. *)
LEMMA RunsAreAsked ==
    ASSUME ProblemTypes, AskedRuns
    PROVE  LimitsAsAsked
<1>. SUFFICES ASSUME NEW r \in runs, r.n > 0
              PROVE  LET a      == asked[r.n]
                         memory == (a.kb + Slack) * Kilo
                         stack  == a.kb * Kilo
                     IN  /\ a.title = r.title /\ a.lang = r.lang
                         /\ r.memory <= memory /\ r.stack <= stack
                         /\ memory < Word => r.memory = memory /\ r.stack = stack
  BY DEF LimitsAsAsked
<1>. DEFINE kb == asked[r.n].kb
<1>1. /\ r.n \in 1..Len(asked) /\ asked[r.n].title = r.title /\ asked[r.n].lang = r.lang
      /\ r.memory = MemoryMax(Uint(kb)) /\ r.stack = StackMax(Uint(kb))
  BY DEF AskedRuns, AskedRun
<1>2. kb \in Nat
  <2>1. asked[r.n] \in [title : Titles, lang : Langs, kb : Asked, known : BOOLEAN]
    BY <1>1, ElementOfSeq DEF ProblemTypes
  <2>. QED BY <2>1, InputsAssumption
<1>3. kb * Kilo <= (kb + Slack) * Kilo /\ kb * Kilo \in Nat /\ (kb + Slack) * Kilo \in Nat
  <2>1. kb + Slack \in Nat /\ kb <= kb + Slack
    BY <1>2, WordAssumption
  <2>. HIDE DEF kb
  <2>. QED BY <1>2, <2>1, Grows
<1>4. /\ MemoryMax(Uint(kb)) <= (kb + Slack) * Kilo /\ StackMax(Uint(kb)) <= kb * Kilo
      /\ (kb + Slack) * Kilo < Word => MemoryMax(Uint(kb)) = (kb + Slack) * Kilo
      /\ kb * Kilo < Word => StackMax(Uint(kb)) = kb * Kilo
  BY <1>2, MemoryOk, StackOk
<1>. HIDE DEF kb
<1>5. (kb + Slack) * Kilo < Word => kb * Kilo < Word
  BY <1>3, WordAssumption
<1>. QED BY <1>1, <1>4, <1>5 DEF kb

(* LimitsAsAsked, for every number of threads, workers, problems and       *)
(* languages, every limit and every width of the integers.                 *)
THEOREM LimitsCorrect ==
    ProblemsSpec => []LimitsAsAsked
<1>1. ProblemsInit => AskedInv /\ AskedRuns
  BY AskedInit DEF ProblemsInit, AskedRuns
<1>2. ProblemTypes /\ AskedInv /\ AskedRuns /\ [ProblemsNext]_problemVars => (AskedInv /\ AskedRuns)'
  BY AskedInvStep, AskedRunsStep
<1>3. ProblemTypes /\ AskedRuns => LimitsAsAsked
  BY RunsAreAsked
<1>. QED BY <1>1, <1>2, <1>3, ProblemTypesCorrect, PTL DEF ProblemsSpec
-----------------------------------------------------------------------------
(* A step that takes no limit from where it waits. *)
CalmStep ==
    /\ lost' = lost
    /\ queue' = queue \/ \E m \in Tasks : queue' = Append(queue, m)
    /\ socket' = socket \/ \E m \in Messages : socket' = Append(socket, m)
    /\ \A w \in Workers : running'[w] = running[w] \/ running[w].op = "judge"

(* Every step is calm, or one of those that take limits. *)
LEMMA WaitingKinds ==
    ASSUME ProblemTypes, [ProblemsNext]_problemVars
    PROVE  \/ CalmStep \/ ChannelStep
           \/ \E w \in Workers : Start(w) \/ Execute(w) \/ TaskFails(w)
<1>. USE DEF tables, pool, books, CalmStep
<1>1. ASSUME NEW h \in Threads, NEW t \in Titles, CreateProblem(h, t) PROVE CalmStep
  BY <1>1 DEF CreateProblem
<1>2. ASSUME NEW h \in Threads, NEW t \in Titles, UploadTestCases(h, t) PROVE CalmStep
  BY <1>2, OpTypes DEF UploadTestCases
<1>3. ASSUME NEW h \in Threads, NEW t \in Titles, NEW l \in Langs, Submit(h, t, l) PROVE CalmStep
  BY <1>3 DEF Submit
<1>4. ASSUME NEW h \in Threads, NEW t \in Titles, NEW l \in Langs, NEW kb \in Asked,
             AddProblemLimit(h, t, l, kb)
      PROVE CalmStep
  <2>1. Uint(kb) \in Nat /\ Len(asked) + 1 \in Nat
    BY ModFacts, InputsAssumption, WordAssumption DEF Uint, ProblemTypes
  <2>. QED BY <1>4, <2>1, OpTypes DEF AddProblemLimit
<1>5. ASSUME NEW h \in Threads, NEW s \in 1..(Len(submitted) + 1), QuerySubmission(h, s) PROVE CalmStep
  BY <1>5 DEF QuerySubmission
<1>6. ASSUME NEW h \in Threads, CreatePublish(h) PROVE CalmStep
  <2>1. req[h].title \in Titles
    BY <1>6 DEF CreatePublish, ProblemTypes
  <2>. QED BY <1>6, <2>1, OpTypes DEF CreatePublish
<1>7. ASSUME NEW h \in Threads, SubmitEnqueue(h) PROVE CalmStep
  <2>1. JudgeTask(req[h].sub, req[h].title, req[h].lang) \in Tasks
    BY <1>7, OpTypes DEF SubmitEnqueue, ProblemTypes
  <2>. QED BY <1>7, <2>1 DEF SubmitEnqueue
<1>8. ASSUME NEW h \in Threads, SelectStatus(h) \/ RequestFails(h) \/ LookupFails(h) PROVE CalmStep
  BY <1>8 DEF SelectStatus, RequestFails, LookupFails, DatabaseKills
<1>9. ASSUME NEW w \in Workers, ExecuteNull(w) \/ QueryStep(w) PROVE CalmStep
  BY <1>9 DEF ExecuteNull, QueryStep, QueryTests, QueryLimits, QueryNoLimits, QueryFails, DatabaseKills
<1>10. ASSUME NEW w \in Workers, CompileStep(w) \/ Run(w) PROVE CalmStep
  <2>1. running[w].op = "judge" /\ UNCHANGED <<lost, queue, socket>>
    BY <1>10 DEF CompileStep, Compile, Assigned, CompileRaces, Run, Judging
  <2>2. \A v \in Workers : running'[v] = running[v] \/ v = w
    BY <1>10 DEF CompileStep, Compile, Assigned, CompileRaces, Run, EndTask, ProblemTypes
  <2>. QED BY <2>1, <2>2
<1>11. ASSUME NEW w \in Workers, PublishResult(w) PROVE CalmStep
  <2>1. /\ ResultOp(running[w].sub, running[w].title, TestOf(job[w])) \in Messages
        /\ running[w].op = "judge"
    BY <1>11, ResultTypes DEF PublishResult, Judging
  <2>2. \A v \in Workers : running'[v] = running[v] \/ v = w
    BY <1>11 DEF PublishResult, EndTask, ProblemTypes
  <2>. QED BY <1>11, <2>1, <2>2 DEF PublishResult
<1>12. ASSUME OutsideStep \/ Perish \/ UNCHANGED problemVars PROVE CalmStep
  BY <1>12 DEF OutsideStep, Lapse, EditTests, Perish, problemVars
<1>. HIDE DEF CalmStep
<1>13. CASE \E h \in Threads : RequestStep(h)
  BY <1>13, <1>1, <1>2, <1>3, <1>4, <1>5, <1>6, <1>7, <1>8 DEF RequestStep
<1>14. CASE \E w \in Workers : TaskStep(w)
  BY <1>14, <1>9, <1>10, <1>11 DEF TaskStep
<1>. QED BY <1>12, <1>13, <1>14 DEF ProblemsNext

(* What Tail and Append do to the limits in a sequence. *)
LEMMA LimitsInTail ==
    ASSUME NEW S, NEW q \in Seq(S), q # <<>>, NEW n \in LimitsIn(q)
    PROVE  (Head(q).op = "limit" /\ Head(q).n = n) \/ n \in LimitsIn(Tail(q))
<1>1. PICK i \in 1..Len(q) : q[i].op = "limit" /\ q[i].n = n
  BY DEF LimitsIn
<1>2. q[i] = Head(q) \/ \E k \in 1..Len(Tail(q)) : Tail(q)[k] = q[i]
  BY TailHas
<1>. QED BY <1>1, <1>2 DEF LimitsIn

LEMMA LimitsInAppend ==
    ASSUME NEW S, NEW q \in Seq(S), NEW m \in S
    PROVE  /\ LimitsIn(q) \subseteq LimitsIn(Append(q, m))
           /\ m.op = "limit" => m.n \in LimitsIn(Append(q, m))
<1>. DEFINE r == Append(q, m)
<1>1. /\ \A i \in 1..Len(q) : i \in 1..Len(r) /\ r[i] = q[i]
      /\ Len(q) + 1 \in 1..Len(r) /\ r[Len(q) + 1] = m
  BY AppendAt
<1>. HIDE DEF r
<1>. QED BY <1>1 DEF LimitsIn, r

(* A limit waits until it is executed or lost. *)
LEMMA WaitingStep ==
    ASSUME ProblemTypes, [ProblemsNext]_problemVars, NEW n, Waiting(n)
    PROVE  \/ Waiting(n)' \/ n \in lost'
           \/ \E w \in Workers : Execute(w) /\ running[w].op = "limit" /\ running[w].n = n
<1>. DEFINE Held(w) == running[w].op = "limit" /\ running[w].n = n
<1>0. /\ socket \in Seq(Messages) /\ queue \in Seq(Tasks)
      /\ \A w \in Workers : w \in DOMAIN running
  BY DEF ProblemTypes
<1>1. CASE CalmStep
  <2>1. LimitsIn(queue) \subseteq LimitsIn(queue')
    BY <1>0, <1>1, LimitsInAppend DEF CalmStep
  <2>2. LimitsIn(socket) \subseteq LimitsIn(socket')
    BY <1>0, <1>1, LimitsInAppend DEF CalmStep
  <2>3. \A w \in Workers : Held(w) => running'[w] = running[w]
    BY <1>1 DEF CalmStep
  <2>. QED BY <2>1, <2>2, <2>3 DEF Waiting
<1>2. ASSUME NEW w \in Workers, Start(w) PROVE Waiting(n)'
  <2>1. /\ socket' = socket /\ queue' = Tail(queue) /\ queue # <<>> /\ running[w].op = "none"
        /\ running' = [running EXCEPT ![w] = Head(queue)]
    BY <1>2 DEF Start, NoTask, Task
  <2>2. n \in LimitsIn(queue) => Held(w)' \/ n \in LimitsIn(queue')
    BY <1>0, <2>1, LimitsInTail
  <2>3. \A v \in Workers : Held(v) => running'[v] = running[v]
    BY <1>0, <2>1
  <2>. QED BY <2>1, <2>2, <2>3 DEF Waiting
<1>3. ASSUME NEW w \in Workers, Execute(w) PROVE Waiting(n)' \/ Held(w)
  <2>1. UNCHANGED <<socket, queue>> /\ \A v \in Workers : v = w \/ running'[v] = running[v]
    BY <1>0, <1>3 DEF Execute, EndTask
  <2>. QED BY <2>1 DEF Waiting, LimitsIn
<1>4. ASSUME NEW w \in Workers, TaskFails(w) PROVE Waiting(n)' \/ n \in lost'
  <2>1. UNCHANGED <<socket, queue>> /\ \A v \in Workers : v = w \/ running'[v] = running[v]
    BY <1>0, <1>4 DEF TaskFails, EndTask
  <2>2. Held(w) => n \in lost'
    BY <1>4, OneLimit DEF TaskFails
  <2>. QED BY <2>1, <2>2 DEF Waiting, LimitsIn
<1>5. CASE Deliver
  <2>1. /\ socket' = Tail(socket) /\ socket # <<>> /\ running' = running
        /\ queue' = Append(queue, Head(socket)) /\ Head(socket) \in Tasks
    BY <1>0, <1>5, OpTypes DEF Deliver
  <2>2. n \in LimitsIn(socket) => n \in LimitsIn(queue') \/ n \in LimitsIn(socket')
    BY <1>0, <2>1, LimitsInTail, LimitsInAppend
  <2>3. LimitsIn(queue) \subseteq LimitsIn(queue')
    BY <1>0, <2>1, LimitsInAppend
  <2>. QED BY <2>1, <2>2, <2>3 DEF Waiting
<1>6. CASE Drop
  <2>1. /\ socket' = Tail(socket) /\ socket # <<>> /\ UNCHANGED <<running, queue>>
        /\ lost' = lost \cup LimitsIn(<<Head(socket)>>)
    BY <1>6 DEF Drop, pool
  <2>2. n \in LimitsIn(socket) => n \in lost' \/ n \in LimitsIn(socket')
    BY <1>0, <2>1, LimitsInTail, OneLimit
  <2>. QED BY <2>1, <2>2 DEF Waiting, LimitsIn
<1>7. CASE Unheard
  <2>1. UNCHANGED <<running, queue>> /\ (n \in LimitsIn(socket) => n \in lost')
    BY <1>7 DEF Unheard, pool
  <2>. QED BY <2>1 DEF Waiting, LimitsIn
<1>. QED BY <1>1, <1>2, <1>3, <1>4, <1>5, <1>6, <1>7, WaitingKinds DEF ChannelStep

(* No problem goes away, what is lost stays lost, and a row that holds a   *)
(* limit that was asked for holds one for ever.                            *)
LEMMA KeptStep ==
    ASSUME ProblemTypes, AskedInv, [ProblemsNext]_problemVars
    PROVE  /\ problems \subseteq problems' /\ lost \subseteq lost'
           /\ \A t \in Titles, l \in Langs : limits[<<t, l>>].n > 0 => limits'[<<t, l>>].n > 0
<1>1. problems \subseteq problems' /\ lost \subseteq lost'
  BY DEF ProblemsNext, problemVars, books, tables, RequestStep, CreateProblem, UploadTestCases, Submit,
         AddProblemLimit, QuerySubmission, CreatePublish, SubmitEnqueue, SelectStatus, RequestFails,
         LookupFails, DatabaseKills, TaskStep, Start, Execute, ExecuteNull, TaskFails, StoreProblem,
         QueryStep, QueryTests, QueryLimits, QueryNoLimits, QueryFails,
         CompileStep, Compile, Assigned, CompileRaces, Run, PublishResult, ChannelStep, Deliver, Drop,
         Unheard, OutsideStep, Lapse, EditTests, Perish
<1>2. ASSUME NEW w \in Workers, Execute(w), NEW k \in DOMAIN limits, limits[k].n > 0
      PROVE  limits'[k].n > 0
  <2>1. running[w].op = "limit" => running[w].n > 0
    <3>1. running[w].op = "limit" => running[w].n \in 1..Len(asked)
      BY DEF AskedInv, AskedTask, IsAsked
    <3>. QED BY <3>1
  <2>. QED BY <1>2, <2>1 DEF Execute, StoreLimit
<1>3. limits' = limits \/ \E w \in Workers : Execute(w)
  BY StepKinds DEF AddProblemLimit, Start, Deliver, SubmitEnqueue, OtherStep, tables
<1>4. \A t \in Titles, l \in Langs : <<t, l>> \in DOMAIN limits
  BY DEF ProblemTypes
<1>. QED BY <1>1, <1>2, <1>3, <1>4

(* The n-th limit is stored unless it waits, was lost or cannot be. *)
StoredAt(n) == asked[n].known /\ Storable(Uint(asked[n].kb)) =>
                  Waiting(n) \/ n \in lost \/ limits[<<asked[n].title, asked[n].lang>>].n > 0

(* With it, that a problem which a limit found is still there. *)
StoredInv == \A n \in 1..Len(asked) : /\ StoredAt(n)
                                      /\ asked[n].known => asked[n].title \in problems

(* A limit of a problem that exists and that the column takes is stored    *)
(* when its statement is executed.                                         *)
LEMMA ExecuteStores ==
    ASSUME ProblemTypes, AskedInv, NEW w \in Workers, Execute(w), running[w].op = "limit",
           NEW n, running[w].n = n, asked[n].title \in problems, Storable(Uint(asked[n].kb))
    PROVE  limits'[<<asked[n].title, asked[n].lang>>].n > 0
<1>. DEFINE m == running[w]  k == <<m.title, m.lang>>
<1>1. IsAsked(n, m.title, m.lang, m.kb)
  BY DEF AskedInv, AskedTask
<1>2. n > 0 /\ asked[n].title = m.title /\ asked[n].lang = m.lang /\ m.kb = Uint(asked[n].kb)
  BY <1>1 DEF IsAsked
<1>3. m.title \in Titles /\ m.lang \in Langs
  BY JobFacts DEF Messages, Shaped
<1>4. limits' = [limits EXCEPT ![k] = [n |-> m.n, kb |-> m.kb]]
  BY <1>2 DEF Execute, StoreLimit
<1>5. k \in DOMAIN limits
  BY <1>3 DEF ProblemTypes
<1>. HIDE DEF k
<1>6. limits'[k].n = n
  BY <1>4, <1>5
<1>. QED BY <1>2, <1>6 DEF k

(* Every step preserves StoredInv. *)
LEMMA StoredStep ==
    ASSUME ProblemTypes, AskedInv, StoredInv, [ProblemsNext]_problemVars
    PROVE  StoredInv'
<1>1. ASSUME NEW n \in 1..Len(asked), asked'[n] = asked[n]
      PROVE  StoredAt(n)' /\ (asked'[n].known => asked'[n].title \in problems')
  <2>. DEFINE a == asked[n]
  <2>1. a.title \in Titles /\ a.lang \in Langs
    <3>. DEFINE S == [title : Titles, lang : Langs, kb : Asked, known : BOOLEAN]
    <3>1. \A x \in S : x.title \in Titles /\ x.lang \in Langs
      OBVIOUS
    <3>. HIDE DEF S
    <3>2. asked[n] \in S
      BY ElementOfSeq DEF ProblemTypes, S
    <3>. QED BY <3>1, <3>2
  <2>2. a.known => a.title \in problems /\ a.title \in problems'
    BY KeptStep DEF StoredInv
  <2>3. ASSUME a.known, Storable(Uint(a.kb))
        PROVE  Waiting(n)' \/ n \in lost' \/ limits'[<<a.title, a.lang>>].n > 0
    <3>1. CASE Waiting(n)
      <4>1. ASSUME NEW w \in Workers, Execute(w), running[w].op = "limit", running[w].n = n
            PROVE  limits'[<<a.title, a.lang>>].n > 0
        BY <2>2, <2>3, <4>1, ExecuteStores
      <4>. QED BY <3>1, <4>1, WaitingStep
    <3>2. CASE n \in lost
      BY <3>2, KeptStep
    <3>3. CASE limits[<<a.title, a.lang>>].n > 0
      BY <2>1, <3>3, KeptStep
    <3>. QED BY <2>3, <3>1, <3>2, <3>3 DEF StoredInv, StoredAt
  <2>. QED BY <1>1, <2>2, <2>3 DEF StoredAt
<1>2. ASSUME NEW h \in Threads, NEW t \in Titles, NEW l \in Langs, NEW kb \in Asked,
             AddProblemLimit(h, t, l, kb), NEW n \in 1..Len(asked'), n \notin 1..Len(asked)
      PROVE  StoredAt(n)' /\ (asked'[n].known => asked'[n].title \in problems')
  <2>. DEFINE a == [title |-> t, lang |-> l, kb |-> kb, known |-> t \in problems]
              m == LimitOp(t, l, Len(asked) + 1, Uint(kb))
  <2>1. /\ asked' = Append(asked, a) /\ socket' = Append(socket, m) /\ problems' = problems
        /\ a \in [title : Titles, lang : Langs, kb : Asked, known : BOOLEAN] /\ m \in Messages
        /\ a.known => a.title \in problems
        /\ m.op = "limit" /\ m.n = Len(asked) + 1
    <3>1. Uint(kb) \in Nat /\ Len(asked) + 1 \in Nat
      BY ModFacts, InputsAssumption, WordAssumption DEF Uint, ProblemTypes
    <3>2. m \in Messages
      BY <3>1, OpTypes
    <3>3. m.op = "limit" /\ m.n = Len(asked) + 1
      BY DEF LimitOp, Task
    <3>4. a \in [title : Titles, lang : Langs, kb : Asked, known : BOOLEAN]
      OBVIOUS
    <3>5. asked' = Append(asked, a) /\ socket' = Append(socket, m) /\ problems' = problems
      BY <1>2 DEF AddProblemLimit, tables
    <3>. HIDE DEF m
    <3>. QED BY <3>2, <3>3, <3>4, <3>5
  <2>. HIDE DEF a, m
  <2>2. n = Len(asked) + 1 /\ asked'[n] = a
    BY <1>2, <2>1, AppendAt DEF ProblemTypes
  <2>3. n \in LimitsIn(socket')
    <3>1. Len(socket) + 1 \in 1..Len(socket') /\ socket'[Len(socket) + 1] = m
      BY <2>1, AppendAt DEF ProblemTypes
    <3>. QED BY <2>1, <2>2, <3>1 DEF LimitsIn
  <2>. QED BY <2>1, <2>2, <2>3 DEF StoredAt, Waiting
<1>3. asked' = asked \/ \E h \in Threads, t \in Titles, l \in Langs, kb \in Asked : AddProblemLimit(h, t, l, kb)
  BY StepKinds DEF Start, Execute, Deliver, SubmitEnqueue, OtherStep, books, story
<1>. QED BY <1>1, <1>2, <1>3, AskedStays DEF StoredInv

(* LimitsAreStored, for every instance: a limit is executed, lost or still *)
(* waiting, and what replaces a row is a limit that was asked for.         *)
THEOREM StoredCorrect ==
    ProblemsSpec => []LimitsAreStored
<1>1. ProblemsInit => AskedInv /\ StoredInv
  BY AskedInit DEF ProblemsInit, StoredInv
<1>2. ProblemTypes /\ AskedInv /\ StoredInv /\ [ProblemsNext]_problemVars => (AskedInv /\ StoredInv)'
  BY AskedInvStep, StoredStep
<1>3. StoredInv => LimitsAreStored
  BY DEF StoredInv, StoredAt, LimitsAreStored
<1>. QED BY <1>1, <1>2, <1>3, ProblemTypesCorrect, PTL DEF ProblemsSpec
-----------------------------------------------------------------------------
(* The order of the limits that wait: the queue before the socket, and     *)
(* what the workers have taken before both.                                *)
Earlier(a, b) == a.op = "limit" /\ b.op = "limit" => a.n < b.n

Ascending(q) == \A i, j \in 1..Len(q) : i < j => Earlier(q[i], q[j])

OrderInv ==
    /\ Ascending(queue) /\ Ascending(socket)
    /\ \A i \in 1..Len(queue), j \in 1..Len(socket) : Earlier(queue[i], socket[j])
    /\ \A w \in Workers : running[w].op = "limit" =>
                             Newer(queue, running[w].n) /\ Newer(socket, running[w].n)
    /\ WaitingIsNewer

(* What Append preserves of the order. *)
LEMMA AppendOrder ==
    ASSUME NEW S, NEW q \in Seq(S), NEW m \in S
    PROVE  /\ Ascending(q) /\ (\A i \in 1..Len(q) : Earlier(q[i], m)) => Ascending(Append(q, m))
           /\ \A n : Newer(q, n) /\ (m.op = "limit" => n < m.n) => Newer(Append(q, m), n)
<1>. DEFINE r == Append(q, m)
<1>1. /\ Len(q) \in Nat /\ \A i \in 1..Len(q) : r[i] = q[i]
      /\ r[Len(q) + 1] = m
      /\ \A i \in 1..Len(r) : i \in 1..Len(q) \/ i = Len(q) + 1
  BY AppendAt
<1>2. \A k \in Nat : \A i, j \in 1..(k + 1) : i < j => i \in 1..k /\ (j \in 1..k \/ j = k + 1)
  OBVIOUS
<1>3. Len(r) = Len(q) + 1
  BY AppendAt
<1>. HIDE DEF r
<1>4. ASSUME Ascending(q), \A i \in 1..Len(q) : Earlier(q[i], m) PROVE Ascending(r)
  BY <1>1, <1>2, <1>3, <1>4 DEF Ascending
<1>5. \A n : Newer(q, n) /\ (m.op = "limit" => n < m.n) => Newer(r, n)
  BY <1>1 DEF Newer
<1>. QED BY <1>4, <1>5 DEF r

(* What Tail preserves of it. *)
LEMMA TailOrder ==
    ASSUME NEW S, NEW q \in Seq(S), q # <<>>
    PROVE  /\ Ascending(q) => /\ Ascending(Tail(q))
                              /\ \A i \in 1..Len(Tail(q)) : Earlier(q[1], Tail(q)[i])
           /\ \A n : Newer(q, n) => Newer(Tail(q), n)
<1>. DEFINE r == Tail(q)
<1>1. /\ 1 \in 1..Len(q) /\ Len(q) \in Nat /\ Len(r) = Len(q) - 1
      /\ \A i \in 1..Len(r) : i + 1 \in 1..Len(q) /\ r[i] = q[i + 1]
  BY TailAt
<1>2. \A k \in Nat : \A i, j \in 1..k : (i < j => i + 1 < j + 1) /\ 1 < i + 1
  OBVIOUS
<1>3. Len(r) \in Nat
  BY <1>1
<1>. HIDE DEF r
<1>4. Ascending(q) => Ascending(r) /\ \A i \in 1..Len(r) : Earlier(q[1], r[i])
  BY <1>1, <1>2, <1>3 DEF Ascending
<1>5. \A n : Newer(q, n) => Newer(r, n)
  BY <1>1 DEF Newer
<1>. QED BY <1>4, <1>5 DEF r

(* What is asked for next is newer than everything. *)
LEMMA NextIsNewest ==
    ASSUME ProblemTypes, AskedInv
    PROVE  /\ Len(asked) \in Nat
           /\ \A i \in 1..Len(queue) : queue[i].op = "limit" => queue[i].n < Len(asked) + 1
           /\ \A i \in 1..Len(socket) : socket[i].op = "limit" => socket[i].n < Len(asked) + 1
           /\ \A w \in Workers : running[w].op = "limit" => running[w].n < Len(asked) + 1
           /\ \A t \in Titles, l \in Langs : limits[<<t, l>>].n < Len(asked) + 1
<1>1. Len(asked) \in Nat /\ \A n \in 1..Len(asked) : n < Len(asked) + 1
  BY DEF ProblemTypes
<1>2. \A m : AskedTask(m) /\ m.op = "limit" => m.n < Len(asked) + 1
  BY <1>1 DEF AskedTask, IsAsked
<1>3. \A t \in Titles, l \in Langs : limits[<<t, l>>].n < Len(asked) + 1
  <2>. SUFFICES ASSUME NEW t \in Titles, NEW l \in Langs PROVE limits[<<t, l>>].n < Len(asked) + 1
    OBVIOUS
  <2>1. limits[<<t, l>>].n \in Int
    BY DEF ProblemTypes
  <2>2. limits[<<t, l>>].n > 0 => limits[<<t, l>>].n \in 1..Len(asked)
    BY DEF AskedInv, AskedRow, IsAsked
  <2>. QED BY <1>1, <2>1, <2>2
<1>. QED BY <1>1, <1>2, <1>3 DEF AskedInv

(* A message that is no limit, and the loss of the first message.          *)
LEMMA OrderOther ==
    ASSUME ProblemTypes, OrderInv, OtherStep
    PROVE  OrderInv'
<1>. USE DEF ProblemTypes
<1>1. queue' = queue /\ limits' = limits
  BY DEF OtherStep
<1>2. \A w \in Workers : running'[w] = running[w] \/ running'[w].op = "none"
  <2>1. NoTask.op = "none"
    BY DEF NoTask, Task
  <2>. QED BY <2>1 DEF OtherStep, Moves, EndTask
<1>3. /\ Ascending(socket')
      /\ \A n : Newer(socket, n) => Newer(socket', n)
      /\ \A i \in 1..Len(queue), j \in 1..Len(socket') : Earlier(queue[i], socket'[j])
  <2>1. CASE socket' = socket
    BY <2>1 DEF OrderInv
  <2>2. CASE socket' = <<>>
    BY <2>2 DEF Ascending, Newer
  <2>3. CASE socket # <<>> /\ socket' = Tail(socket)
    BY <2>3, TailOrder, TailAt DEF OrderInv
  <2>4. ASSUME NEW m \in Messages, m.op # "limit", socket' = Append(socket, m)
        PROVE  /\ Ascending(socket')
               /\ \A n : Newer(socket, n) => Newer(socket', n)
               /\ \A i \in 1..Len(queue), j \in 1..Len(socket') : Earlier(queue[i], socket'[j])
    <3>1. \A a : Earlier(a, m)
      BY <2>4 DEF Earlier
    <3>. QED BY <2>4, <3>1, AppendOrder, AppendAt DEF OrderInv
  <2>. QED BY <2>1, <2>2, <2>3, <2>4 DEF OtherStep
<1>4. /\ \A w \in Workers : running'[w].op = "limit" =>
            Newer(queue, running'[w].n) /\ Newer(socket', running'[w].n)
      /\ \A t \in Titles, l \in Langs : /\ Newer(queue, limits[<<t, l>>].n)
                                        /\ Newer(socket', limits[<<t, l>>].n)
  BY <1>2, <1>3 DEF OrderInv, WaitingIsNewer
<1>. HIDE DEF ProblemTypes
<1>. QED BY <1>1, <1>3, <1>4 DEF OrderInv, WaitingIsNewer, Ascending, Earlier, Newer

(* Every step preserves OrderInv: new limits join at the end, and leave at *)
(* the front.                                                              *)
LEMMA OrderStep ==
    ASSUME ProblemTypes, AskedInv, OrderInv, [ProblemsNext]_problemVars
    PROVE  OrderInv'
<1>1. ASSUME NEW h \in Threads, NEW t \in Titles, NEW l \in Langs, NEW kb \in Asked,
             AddProblemLimit(h, t, l, kb)
      PROVE  OrderInv'
  <2>1. PICK m \in Messages : /\ socket' = Append(socket, m) /\ m.n = Len(asked) + 1
                              /\ UNCHANGED <<limits, queue, running>>
    <3>1. Uint(kb) \in Nat /\ Len(asked) + 1 \in Nat
      BY ModFacts, InputsAssumption, WordAssumption DEF Uint, ProblemTypes
    <3>2. LimitOp(t, l, Len(asked) + 1, Uint(kb)) \in Messages
      BY <3>1, OpTypes
    <3>. QED BY <1>1, <3>2 DEF AddProblemLimit, tables, pool, LimitOp, Task
  <2>2. /\ \A i \in 1..Len(queue) : Earlier(queue[i], m)
        /\ \A i \in 1..Len(socket) : Earlier(socket[i], m)
    BY <2>1, NextIsNewest DEF Earlier
  <2>3. Ascending(socket')
    BY <2>1, <2>2, AppendOrder DEF OrderInv, ProblemTypes
  <2>4. \A n : Newer(socket, n) /\ n < Len(asked) + 1 => Newer(socket', n)
    BY <2>1, AppendOrder DEF ProblemTypes
  <2>5. \A i \in 1..Len(queue), j \in 1..Len(socket') : Earlier(queue[i], socket'[j])
    BY <2>1, <2>2, AppendAt DEF OrderInv, ProblemTypes
  <2>6. /\ \A w \in Workers : running[w].op = "limit" => Newer(socket', running[w].n)
        /\ \A u \in Titles, k \in Langs : Newer(socket', limits[<<u, k>>].n)
    BY <2>4, NextIsNewest DEF OrderInv, WaitingIsNewer
  <2>. QED BY <2>1, <2>3, <2>5, <2>6 DEF OrderInv, WaitingIsNewer, Ascending, Earlier, Newer
<1>2. ASSUME NEW w \in Workers, Start(w) PROVE OrderInv'
  <2>1. /\ limits' = limits /\ socket' = socket /\ queue # <<>> /\ queue' = Tail(queue)
        /\ \A v \in Workers : running'[v] = running[v] \/ running'[v] = queue[1]
    BY <1>2 DEF Start, tables, ProblemTypes
  <2>2. /\ Ascending(queue') /\ \A n : Newer(queue, n) => Newer(queue', n)
        /\ queue[1].op = "limit" => Newer(queue', queue[1].n) /\ Newer(socket, queue[1].n)
        /\ \A i \in 1..Len(queue'), j \in 1..Len(socket) : Earlier(queue'[i], socket[j])
    BY <2>1, TailOrder, TailAt DEF OrderInv, ProblemTypes, Newer, Earlier
  <2>3. /\ \A v \in Workers : running'[v].op = "limit" =>
              Newer(queue', running'[v].n) /\ Newer(socket', running'[v].n)
        /\ \A t \in Titles, l \in Langs : /\ Newer(queue', limits'[<<t, l>>].n)
                                          /\ Newer(socket', limits'[<<t, l>>].n)
    BY <2>1, <2>2 DEF OrderInv, WaitingIsNewer
  <2>. QED BY <2>1, <2>2, <2>3 DEF OrderInv, WaitingIsNewer, Ascending, Earlier, Newer
<1>3. ASSUME NEW w \in Workers, Execute(w) PROVE OrderInv'
  <2>1. EndTask(w) /\ queue' = queue /\ socket' = socket
    BY <1>3 DEF Execute
  <2>2. \A v \in Workers : running'[v] = running[v] \/ running'[v].op = "none"
    BY <2>1 DEF EndTask, NoTask, Task, ProblemTypes
  <2>3. \A t \in Titles, l \in Langs :
           \/ limits'[<<t, l>>] = limits[<<t, l>>]
           \/ running[w].op = "limit" /\ limits'[<<t, l>>].n = running[w].n
    <3>. SUFFICES ASSUME NEW t \in Titles, NEW l \in Langs
                  PROVE  \/ limits'[<<t, l>>] = limits[<<t, l>>]
                         \/ running[w].op = "limit" /\ limits'[<<t, l>>].n = running[w].n
      OBVIOUS
    <3>. DEFINE k == <<t, l>>
    <3>1. k \in DOMAIN limits
      BY DEF ProblemTypes
    <3>. HIDE DEF k
    <3>2. limits'[k] = limits[k] \/ (running[w].op = "limit" /\ limits'[k].n = running[w].n)
      BY <1>3, <3>1 DEF Execute, StoreLimit
    <3>. QED BY <3>2 DEF k
  <2>4. \A t \in Titles, l \in Langs : /\ Newer(queue, limits'[<<t, l>>].n)
                                       /\ Newer(socket, limits'[<<t, l>>].n)
    BY <2>3 DEF OrderInv, WaitingIsNewer
  <2>. QED BY <2>1, <2>2, <2>4 DEF OrderInv, WaitingIsNewer, Ascending, Earlier, Newer
<1>4. ASSUME Deliver PROVE OrderInv'
  <2>1. /\ queue' = Append(queue, socket[1]) /\ socket' = Tail(socket) /\ socket # <<>>
        /\ UNCHANGED <<limits, running>> /\ socket[1] \in Tasks /\ 1 \in 1..Len(socket)
    BY <1>4, OpTypes DEF Deliver, tables, ProblemTypes
  <2>2. /\ Ascending(queue') /\ Ascending(socket')
        /\ \A n : Newer(queue, n) /\ Newer(socket, n) => Newer(queue', n) /\ Newer(socket', n)
    BY <2>1, AppendOrder, TailOrder DEF OrderInv, ProblemTypes, Newer
  <2>3. \A i \in 1..Len(queue'), j \in 1..Len(socket') : Earlier(queue'[i], socket'[j])
    <3>1. \A j \in 1..Len(socket') : Earlier(socket[1], socket'[j])
                                      /\ \E k \in 1..Len(socket) : socket'[j] = socket[k]
      BY <2>1, TailOrder, TailAt DEF OrderInv, ProblemTypes
    <3>2. \A i \in 1..Len(queue') : (i \in 1..Len(queue) /\ queue'[i] = queue[i]) \/ queue'[i] = socket[1]
      BY <2>1, AppendAt DEF ProblemTypes
    <3>. QED BY <3>1, <3>2 DEF OrderInv
  <2>4. /\ \A v \in Workers : running'[v].op = "limit" =>
              Newer(queue', running'[v].n) /\ Newer(socket', running'[v].n)
        /\ \A t \in Titles, l \in Langs : /\ Newer(queue', limits'[<<t, l>>].n)
                                          /\ Newer(socket', limits'[<<t, l>>].n)
    BY <2>1, <2>2 DEF OrderInv, WaitingIsNewer
  <2>. QED BY <2>2, <2>3, <2>4 DEF OrderInv, WaitingIsNewer, Ascending, Earlier, Newer
<1>5. ASSUME NEW h \in Threads, SubmitEnqueue(h) PROVE OrderInv'
  <2>1. PICK m \in Tasks : /\ m.op # "limit" /\ queue' = Append(queue, m)
                           /\ UNCHANGED <<limits, socket, running>>
    <3>1. JudgeTask(req[h].sub, req[h].title, req[h].lang) \in Tasks
      BY <1>5, OpTypes DEF SubmitEnqueue, ProblemTypes
    <3>. QED BY <1>5, <3>1 DEF SubmitEnqueue, tables, JudgeTask, Task
  <2>2. \A a : Earlier(a, m) /\ Earlier(m, a)
    BY <2>1 DEF Earlier
  <2>3. Ascending(queue') /\ \A n : Newer(queue, n) => Newer(queue', n)
    BY <2>1, <2>2, AppendOrder DEF OrderInv, ProblemTypes
  <2>4. \A i \in 1..Len(queue'), j \in 1..Len(socket) : Earlier(queue'[i], socket[j])
    BY <2>1, <2>2, AppendAt DEF OrderInv, ProblemTypes
  <2>. QED BY <2>1, <2>3, <2>4 DEF OrderInv, WaitingIsNewer, Ascending, Earlier, Newer
<1>. QED BY <1>1, <1>2, <1>3, <1>4, <1>5, OrderOther, StepKinds

(* WaitingIsNewer, for every number of threads and workers: the order of   *)
(* the requests is kept from the socket to the workers.                    *)
THEOREM WaitingCorrect ==
    ProblemsSpec => []WaitingIsNewer
<1>1. ProblemsInit => AskedInv /\ OrderInv
  <2>1. ASSUME ProblemsInit PROVE OrderInv
    <3>1. queue = <<>> /\ socket = <<>> /\ \A w \in Workers : running[w].op = "none"
      BY <2>1 DEF ProblemsInit, NoTask, Task
    <3>. QED BY <3>1 DEF OrderInv, WaitingIsNewer, Ascending, Newer
  <2>. QED BY <2>1, AskedInit
<1>2. ProblemTypes /\ AskedInv /\ OrderInv /\ [ProblemsNext]_problemVars => (AskedInv /\ OrderInv)'
  BY AskedInvStep, OrderStep
<1>3. OrderInv => WaitingIsNewer
  BY DEF OrderInv
<1>. QED BY <1>1, <1>2, <1>3, ProblemTypesCorrect, PTL DEF ProblemsSpec
-----------------------------------------------------------------------------
(* What is known of a submission: the judge task is that of a row of       *)
(* submitted, a status is selected only when it was not cached, and limits *)
(* that were there when a submission came are still there.                 *)
Knows(m) == /\ m.sub \in 1..Len(submitted)
            /\ submitted[m.sub].title = m.title /\ submitted[m.sub].lang = m.lang

SubmittedInv ==
    /\ \A i \in 1..Len(queue) : queue[i].op = "judge" => Knows(queue[i])
    /\ \A w \in Workers : running[w].op = "judge" => Knows(running[w])
    /\ \A h \in Threads : /\ req[h].at = "enqueue" => Knows(req[h])
                          /\ req[h].at = "select" => blind
    /\ \A i \in 1..Len(submitted) :
          submitted[i].ready => limits[<<submitted[i].title, submitted[i].lang>>] # NoRow

(* Where tasks come from. *)
LEMMA TaskOrigins ==
    ASSUME ProblemTypes, [ProblemsNext]_problemVars
    PROVE  /\ \A v \in Workers : \/ running'[v] = running[v] \/ running'[v].op = "none"
                                 \/ 1 \in 1..Len(queue) /\ running'[v] = queue[1]
           /\ \A i \in 1..Len(queue') :
                 \/ \E k \in 1..Len(queue) : queue'[i] = queue[k]
                 \/ queue'[i].op # "judge"
                 \/ \E h \in Threads : /\ req[h].at = "enqueue"
                                       /\ queue'[i] = JudgeTask(req[h].sub, req[h].title, req[h].lang)
<1>. USE DEF ProblemTypes
<1>0. NoTask.op = "none"
  BY DEF NoTask, Task
<1>1. ASSUME NEW h \in Threads, NEW t \in Titles, NEW l \in Langs, NEW kb \in Asked,
             AddProblemLimit(h, t, l, kb)
      PROVE  queue' = queue /\ running' = running
  BY <1>1 DEF AddProblemLimit, pool
<1>2. ASSUME NEW w \in Workers, Start(w)
      PROVE  /\ \A v \in Workers : running'[v] = running[v] \/ (1 \in 1..Len(queue) /\ running'[v] = queue[1])
             /\ \A i \in 1..Len(queue') : \E k \in 1..Len(queue) : queue'[i] = queue[k]
  BY <1>2, TailAt DEF Start
<1>3. ASSUME NEW w \in Workers, Execute(w)
      PROVE  queue' = queue /\ \A v \in Workers : running'[v] = running[v] \/ running'[v].op = "none"
  BY <1>0, <1>3 DEF Execute, EndTask
<1>4. ASSUME Deliver
      PROVE  /\ running' = running
             /\ \A i \in 1..Len(queue') : \/ \E k \in 1..Len(queue) : queue'[i] = queue[k]
                                          \/ queue'[i].op # "judge"
  <2>1. /\ running' = running /\ queue' = Append(queue, Head(socket)) /\ Head(socket) \in Messages
    BY <1>4 DEF Deliver
  <2>2. Head(socket) \in Tasks /\ Head(socket).op # "judge"
    <3>1. \A m \in Messages : m.op # "judge" /\ m \in Tasks
      BY DEF Messages, Shaped, Tasks
    <3>. QED BY <2>1, <3>1
  <2>. QED BY <2>1, <2>2, AppendAt
<1>5. ASSUME NEW h \in Threads, SubmitEnqueue(h)
      PROVE  /\ running' = running
             /\ \A i \in 1..Len(queue') :
                   \/ \E k \in 1..Len(queue) : queue'[i] = queue[k]
                   \/ req[h].at = "enqueue" /\ queue'[i] = JudgeTask(req[h].sub, req[h].title, req[h].lang)
  <2>. DEFINE m == JudgeTask(req[h].sub, req[h].title, req[h].lang)
  <2>1. m \in Tasks /\ req[h].at = "enqueue" /\ queue' = Append(queue, m) /\ running' = running
    BY <1>5, OpTypes DEF SubmitEnqueue
  <2>. HIDE DEF m
  <2>2. \A i \in 1..Len(queue') : (i \in 1..Len(queue) /\ queue'[i] = queue[i]) \/ queue'[i] = m
    BY <2>1, AppendAt
  <2>. QED BY <2>1, <2>2 DEF m
<1>6. CASE OtherStep
  <2>1. queue' = queue /\ \A v \in Workers : running'[v] = running[v] \/ running'[v].op = "none"
    BY <1>0, <1>6 DEF OtherStep, Moves, EndTask
  <2>. QED BY <2>1
<1>. HIDE DEF ProblemTypes
<1>. QED BY <1>1, <1>2, <1>3, <1>4, <1>5, <1>6, StepKinds

(* What a step does to the requests and to the submissions. *)
LEMMA RequestKinds ==
    ASSUME ProblemTypes, [ProblemsNext]_problemVars
    PROVE  \/ UNCHANGED <<req, submitted, blind>>
           \/ \E h \in Threads, t \in Titles, l \in Langs : Submit(h, t, l)
           \/ /\ submitted' = submitted /\ (blind => blind')
              /\ \A h \in Threads : \/ req'[h] = req[h] \/ req'[h].at \in {"idle", "create"}
                                    \/ req'[h].at = "select" /\ blind'
<1>1. ASSUME NEW h \in Threads, RequestStep(h)
      PROVE  \/ UNCHANGED <<req, submitted, blind>>
             \/ \E t \in Titles, l \in Langs : Submit(h, t, l)
             \/ /\ submitted' = submitted /\ (blind => blind')
                /\ \E r : /\ req' = [req EXCEPT ![h] = r]
                          /\ r.at \in {"idle", "create"} \/ (r.at = "select" /\ blind')
  <2>1. /\ Idle.at = "idle"
        /\ \A t : Handling("create", t, "none", 0).at = "create"
        /\ \A s : Handling("select", "none", "none", s).at = "select"
    BY DEF Idle, Handling
  <2>2. ASSUME NEW t \in Titles, CreateProblem(h, t) \/ UploadTestCases(h, t)
        PROVE  \/ UNCHANGED <<req, submitted, blind>>
               \/ /\ UNCHANGED <<submitted, blind>>
                  /\ req' = [req EXCEPT ![h] = Handling("create", t, "none", 0)]
    BY <2>2 DEF CreateProblem, UploadTestCases, books, story
  <2>3. ASSUME NEW t \in Titles, NEW l \in Langs, NEW kb \in Asked, AddProblemLimit(h, t, l, kb)
        PROVE  UNCHANGED <<req, submitted, blind>>
    BY <2>3 DEF AddProblemLimit
  <2>4. ASSUME NEW s \in 1..(Len(submitted) + 1), QuerySubmission(h, s)
        PROVE  \/ UNCHANGED <<req, submitted, blind>>
               \/ /\ submitted' = submitted /\ blind'
                  /\ req' = [req EXCEPT ![h] = Handling("select", "none", "none", s)]
    BY <2>4 DEF QuerySubmission
  <2>5. ASSUME SelectStatus(h) \/ LookupFails(h) PROVE UNCHANGED <<req, submitted, blind>>
    BY <2>5 DEF SelectStatus, LookupFails, DatabaseKills, books, story
  <2>6. ASSUME CreatePublish(h) \/ SubmitEnqueue(h) \/ RequestFails(h)
        PROVE  UNCHANGED <<submitted, blind>> /\ req' = [req EXCEPT ![h] = Idle]
    BY <2>6 DEF CreatePublish, SubmitEnqueue, RequestFails, Done, books, story
  <2>. QED BY <1>1, <2>1, <2>2, <2>3, <2>4, <2>5, <2>6 DEF RequestStep
<1>2. ASSUME NEW w \in Workers, TaskStep(w) PROVE UNCHANGED <<req, submitted, blind>>
  BY <1>2 DEF TaskStep, books, story, Start, Execute, ExecuteNull, TaskFails, QueryStep, QueryTests,
              QueryLimits, QueryNoLimits, QueryFails, DatabaseKills, CompileStep, Compile, Assigned, CompileRaces, Run, PublishResult
<1>3. ASSUME ChannelStep \/ OutsideStep \/ Perish \/ UNCHANGED problemVars
      PROVE  UNCHANGED <<req, submitted, blind>>
  BY <1>3 DEF ChannelStep, OutsideStep, Deliver, Drop, Unheard, Lapse, EditTests, Perish,
              problemVars, books, story
<1>4. ASSUME NEW h \in Threads, NEW r, req' = [req EXCEPT ![h] = r]
      PROVE  \A i \in Threads : req'[i] = req[i] \/ req'[i] = r
  BY <1>4 DEF ProblemTypes
<1>. QED BY <1>1, <1>2, <1>3, <1>4 DEF ProblemsNext

(* A row of problem_limits is replaced, never removed. *)
LEMMA LimitsStay ==
    ASSUME ProblemTypes, [ProblemsNext]_problemVars, NEW t \in Titles, NEW l \in Langs,
           limits[<<t, l>>] # NoRow
    PROVE  limits'[<<t, l>>] # NoRow
<1>. DEFINE k == <<t, l>>
<1>1. k \in DOMAIN limits
  BY DEF ProblemTypes
<1>. HIDE DEF k
<1>2. ASSUME NEW w \in Workers, Execute(w) PROVE limits'[k] = limits[k] \/ limits'[k] # NoRow
  <2>1. CASE running[w].op = "limit" /\ StoreLimit(running[w])
    <3>. DEFINE m == running[w]  row == [n |-> m.n, kb |-> m.kb]
    <3>1. m.n \in Nat
      BY <2>1, JobFacts DEF Messages, Shaped
    <3>2. row # NoRow
      BY <3>1 DEF NoRow
    <3>3. limits' = limits \/ limits' = [limits EXCEPT ![<<m.title, m.lang>>] = row]
      BY <2>1 DEF StoreLimit
    <3>. HIDE DEF row, m
    <3>. QED BY <1>1, <3>2, <3>3
  <2>. QED BY <1>2, <2>1 DEF Execute
<1>3. limits' = limits \/ \E w \in Workers : Execute(w)
  BY StepKinds DEF AddProblemLimit, Start, Deliver, SubmitEnqueue, OtherStep, tables
<1>. QED BY <1>2, <1>3 DEF k

(* Every step preserves SubmittedInv. *)
LEMMA SubmittedStep ==
    ASSUME ProblemTypes, SubmittedInv, [ProblemsNext]_problemVars
    PROVE  SubmittedInv'
<1>1. ASSUME NEW h \in Threads, NEW t \in Titles, NEW l \in Langs, Submit(h, t, l)
      PROVE  /\ \A i \in 1..Len(submitted) : i \in 1..Len(submitted') /\ submitted'[i] = submitted[i]
             /\ \A i \in 1..Len(submitted') :
                   \/ i \in 1..Len(submitted)
                   \/ /\ submitted'[i].title = t /\ submitted'[i].lang = l
                      /\ submitted'[i].ready => limits[<<t, l>>] # NoRow
             /\ \A v \in Threads : req'[v] = req[v] \/ (req'[v].at = "enqueue" /\ Knows(req[v])')
             /\ UNCHANGED <<queue, running, limits, blind>>
  <2>. DEFINE row == [title |-> t, lang |-> l, ready |-> limits[<<t, l>>] # NoRow]
              r == Handling("enqueue", t, l, Len(submitted) + 1)
  <2>1. /\ submitted' = Append(submitted, row) /\ req' = [req EXCEPT ![h] = r]
        /\ UNCHANGED <<queue, running, limits, blind>>
    BY <1>1 DEF Submit, tables, pool
  <2>2. row.title = t /\ row.lang = l /\ (row.ready => limits[<<t, l>>] # NoRow)
    OBVIOUS
  <2>3. r.at = "enqueue" /\ r.title = t /\ r.lang = l /\ r.sub = Len(submitted) + 1
    BY DEF Handling
  <2>4. row \in [title : Titles, lang : Langs, ready : BOOLEAN]
    OBVIOUS
  <2>. HIDE DEF row, r
  <2>5. /\ Len(submitted') = Len(submitted) + 1 /\ Len(submitted) \in Nat
        /\ \A i \in 1..Len(submitted) : submitted'[i] = submitted[i]
        /\ submitted'[Len(submitted) + 1] = row
        /\ \A i \in 1..Len(submitted') : i \in 1..Len(submitted) \/ i = Len(submitted) + 1
    BY <2>1, <2>4, AppendAt DEF ProblemTypes
  <2>6. \A n \in Nat : n + 1 \in 1..(n + 1) /\ \A i \in 1..n : i \in 1..(n + 1)
    OBVIOUS
  <2>7. \A v \in Threads : req'[v] = req[v] \/ req'[v] = r
    BY <2>1 DEF ProblemTypes
  <2>8. /\ r.sub \in 1..Len(submitted')
        /\ submitted'[r.sub].title = r.title /\ submitted'[r.sub].lang = r.lang
    BY <2>2, <2>3, <2>5, <2>6
  <2>9. \A v \in Threads : req'[v] = req[v] \/ (req'[v].at = "enqueue" /\ Knows(req[v])')
    BY <2>3, <2>7, <2>8 DEF Knows
  <2>. QED BY <2>1, <2>2, <2>5, <2>6, <2>9
<1>2. \A i \in 1..Len(submitted) : i \in 1..Len(submitted') /\ submitted'[i] = submitted[i]
  BY <1>1, RequestKinds
<1>3. \A m : Knows(m) => Knows(m)'
  BY <1>2 DEF Knows
<1>4. \A h \in Threads : /\ req'[h].at = "enqueue" => Knows(req[h])'
                         /\ req'[h].at = "select" => blind'
  <2>1. \A h \in Threads : req'[h] = req[h] /\ req[h].at = "enqueue" => Knows(req[h])'
    BY <1>2 DEF SubmittedInv, Knows
  <2>2. blind => blind'
    BY <1>1, RequestKinds, Zenon
  <2>3. \A h \in Threads : req[h].at = "select" => blind'
    BY <2>2 DEF SubmittedInv
  <2>. QED BY <1>1, <2>1, <2>3, RequestKinds DEF Knows
<1>5. \A i \in 1..Len(submitted') :
         submitted'[i].ready => limits'[<<submitted'[i].title, submitted'[i].lang>>] # NoRow
  <2>1. \A i \in 1..Len(submitted) : submitted[i].title \in Titles /\ submitted[i].lang \in Langs
    <3>. DEFINE S == [title : Titles, lang : Langs, ready : BOOLEAN]
    <3>1. submitted \in Seq(S)
      BY DEF ProblemTypes
    <3>2. \A x \in S : x.title \in Titles /\ x.lang \in Langs
      OBVIOUS
    <3>. HIDE DEF S
    <3>3. \A i \in 1..Len(submitted) : submitted[i] \in S
      BY <3>1, ElementOfSeq
    <3>. QED BY <3>2, <3>3
  <2>2. \A i \in 1..Len(submitted) :
           submitted[i].ready => limits'[<<submitted[i].title, submitted[i].lang>>] # NoRow
    <3>1. \A t \in Titles, l \in Langs : limits[<<t, l>>] # NoRow => limits'[<<t, l>>] # NoRow
      BY LimitsStay
    <3>. QED BY <2>1, <3>1 DEF SubmittedInv
  <2>. QED BY <1>1, <2>2, RequestKinds
<1>6. /\ \A i \in 1..Len(queue') : queue'[i].op = "judge" => Knows(queue[i])'
      /\ \A w \in Workers : running'[w].op = "judge" => Knows(running[w])'
  <2>1. \A h \in Threads : req[h].at = "enqueue" => Knows(JudgeTask(req[h].sub, req[h].title, req[h].lang))
    BY DEF SubmittedInv, Knows, JudgeTask, Task
  <2>2. \A i \in 1..Len(queue') : queue'[i].op = "judge" => Knows(queue'[i])
    BY <2>1, TaskOrigins DEF SubmittedInv
  <2>3. \A w \in Workers : running'[w].op = "judge" => Knows(running'[w])
    BY TaskOrigins DEF SubmittedInv
  <2>. QED BY <1>2, <2>2, <2>3 DEF Knows
<1>. QED BY <1>4, <1>5, <1>6 DEF SubmittedInv

(* There are no submissions at first. *)
LEMMA SubmittedInit == ProblemsInit => SubmittedInv
<1>. SUFFICES ASSUME ProblemsInit PROVE SubmittedInv
  OBVIOUS
<1>1. /\ queue = <<>> /\ submitted = <<>> /\ \A w \in Workers : running[w].op = "none"
      /\ \A h \in Threads : req[h].at = "idle"
  BY DEF ProblemsInit, NoTask, Task, Idle, Handling
<1>. QED BY <1>1 DEF SubmittedInv
=============================================================================
