------------------------------ MODULE Problems ------------------------------
(***************************************************************************)
(* Problems, their limits and test cases, and what becomes of them in the  *)
(* judge tasks: ProblemService, SubmissionService and their HTTP handlers  *)
(* publish statements or enqueue judge tasks; a judge task reads the test  *)
(* cases and then the limits, compiles, runs the tests under the limits it *)
(* has read and publishes a numbered result for each test.                 *)
(*                                                                         *)
(* Requests are authenticated and well-formed: any other is answered and   *)
(* changes nothing.  The row of a submission and the order of the messages *)
(* about it are SubmissionFlow's; a statement here may also fail for       *)
(* reasons of its own.  Workers take tasks in FIFO order (Executor).       *)
(* MySQL may refuse anything at any time.  A statement that it refuses is  *)
(* forgotten; a query that it refuses, and a connection that could not be  *)
(* rebuilt, are null pointers that the next line follows (DbPool).         *)
(*                                                                         *)
(* Integers have Word values, half of them for the signed type, in place   *)
(* of 2^32; Kilo is the 1024 and Slack the 100 of setupCgroupLimits.       *)
(***************************************************************************)
EXTENDS Integers, Sequences, FiniteSets

CONSTANTS Threads,     \* HTTP threads
          Workers,     \* threads of m_JudgerPool
          Titles,      \* titles of problems
          Langs,       \* languages that Judger supports
          Compiled,    \* those that are compiled
          Tables,      \* rows of test_cases of a problem: their sequence numbers
          Asked,       \* limits that clients ask for
          Word,        \* number of values of uint32_t
          Kilo,        \* bytes of a kB
          Slack,       \* kB that a program may use beside its limit
          MaxInputs    \* bound: requests and changes by an administrator

ASSUME WordAssumption == /\ Word \in Nat /\ Kilo \in Nat /\ Slack \in Nat
                         /\ Word > 0 /\ Kilo > 0

ASSUME InputsAssumption == /\ Asked \subseteq Nat
                           /\ Compiled \subseteq Langs
                           /\ MaxInputs \in Nat
                           /\ \A table \in Tables : table \in Seq(Nat)
                           /\ <<>> \in Tables

VARIABLES problems,  \* titles in the table problems
          limits,    \* problem, language -> row of problem_limits
          tests,     \* problem -> its rows of test_cases, and when they were put there
          req,       \* thread -> the request it is handling
          cache,     \* submissions whose key is in Redis
          socket,    \* messages Redis has sent to the subscriber
          queue,     \* the pool's tasks not started yet
          running,   \* worker -> its task
          job,       \* worker -> what its judge task has read and done
          gcc,       \* the static GCC_COMPILER_PATH
          alive,     \* the process runs
          asked,     \* limits that were answered 201, in the order of publishing,
                     \* and whether their problem existed
          submitted, \* submissions, and whether there were limits for them
          runs,      \* limits that were set for a program
          results,   \* rows of judge_results
          blind,     \* the status of a submission was asked that is not cached
          lost,      \* limits whose message or statement was lost
          outage,    \* the database has failed a query or had no connection
          requests,  \* number of requests so far
          edits      \* number of changes by an administrator

tables   == <<problems, limits, tests, results>>
pool     == <<queue, running, job>>
story    == <<asked, submitted, runs, blind>>
books    == <<story, lost, outage>>
problemVars == <<tables, req, cache, socket, pool, gcc, alive, books, requests, edits>>

-----------------------------------------------------------------------------
(* Conversions.                                                            *)

Half == Word \div 2

(* get<uint32_t>() of a JSON number. *)
Uint(x) == x % Word

(* setInt(get<int>()), which setSqlVariables uses for every integer: the   *)
(* INT UNSIGNED column refuses what has become negative.                   *)
Storable(kb) == kb < Half

(* Products of uint32_t.  RLIMIT_STACK, and memory.max of the cgroup.      *)
Bytes(kb)     == (Uint(kb) * Kilo) % Word
StackMax(kb)  == Bytes(kb)

(* The product of signed integers, where what overflows is no limit.       *)
MemoryMaxSigned(kb) == IF (kb + Slack) * Kilo < Half THEN (kb + Slack) * Kilo ELSE 0

MemoryMax(kb) == Bytes(kb + Slack)

-----------------------------------------------------------------------------
(* Requests, tasks and jobs.  Messages and the tasks of the pool are       *)
(* records of one shape: n counts the limits that were asked for; idx is   *)
(* the number that the judge task gives a result, row and edit say which   *)
(* test it ran, and numbered, whether the tests had the numbers 1, 2, ...  *)
Handling(place, t, l, s) == [at |-> place, title |-> t, lang |-> l, sub |-> s]

Idle == Handling("idle", "none", "none", 0)

NoTest == [idx |-> 0, row |-> 0, edit |-> 0, numbered |-> FALSE]

Task(o, t, l, s, i, x, r) ==
    [op |-> o, title |-> t, lang |-> l, sub |-> s, n |-> i, kb |-> x, test |-> r]

NoTask              == Task("none", "none", "none", 0, 0, 0, NoTest)
LimitOp(t, l, i, x) == Task("limit", t, l, 0, i, x, NoTest)
CreateOp(t)         == Task("create", t, "none", 0, 0, 0, NoTest)
UploadOp(t)         == Task("upload", t, "none", 0, 0, 0, NoTest)
ResultOp(s, t, r)   == Task("result", t, "none", s, 0, 0, r)
JudgeTask(s, t, l)  == Task("judge", t, l, s, 0, 0, NoTest)

Tests == [idx : Nat, row : Nat, edit : Nat, numbered : BOOLEAN]

Shaped(ops, ls) == [op : ops, title : Titles, lang : ls, sub : Nat, n : Nat, kb : Nat, test : Tests]

Messages == Shaped({"limit"}, Langs) \cup Shaped({"create", "upload", "result"}, {"none"})
Tasks    == Messages \cup Shaped({"judge"}, Langs)

NoRow == [n |-> -1, kb |-> 0]

(* What a judge task has read, and the results it has published.           *)
Job(place, read, row, i, k) ==
    [at |-> place, tests |-> read, limit |-> row, next |-> i, last |-> k]

NoJob == Job("none", [order |-> <<>>, edit |-> 0, numbered |-> FALSE], NoRow, 0, 0)

(* The database as an administrator has set it up: some problems, which    *)
(* may have limits for a language or not, and test cases of any numbering. *)
ProblemsInit ==
    /\ problems \in SUBSET Titles
    /\ limits \in [Titles \X Langs ->
                     {NoRow} \cup [n : {0}, kb : {x \in Asked : Storable(x)}]]
    /\ \A t \in Titles \ problems, l \in Langs : limits[<<t, l>>] = NoRow
    /\ tests \in [Titles -> [edit : {0}, seqs : Tables]]
    /\ \A t \in Titles \ problems : tests[t].seqs = <<>>
    /\ req = [h \in Threads |-> Idle]
    /\ cache = {} /\ socket = <<>> /\ queue = <<>>
    /\ running = [w \in Workers |-> NoTask]
    /\ job = [w \in Workers |-> NoJob]
    /\ gcc = "empty" /\ alive = TRUE
    /\ asked = <<>> /\ submitted = <<>>
    /\ runs = {} /\ results = {} /\ blind = FALSE
    /\ lost = {} /\ outage = FALSE
    /\ requests = 0 /\ edits = 0

-----------------------------------------------------------------------------
(* ProblemService and SubmissionService.                                   *)

inputs == requests + edits

(* A free thread takes a request. *)
Request(h) == req[h] = Idle /\ inputs < MaxInputs /\ requests' = requests + 1

Done(h) == req' = [req EXCEPT ![h] = Idle]

(* DbQueryOp swallows the SQL error of a query, and getResult dereferences *)
(* the result that is not there.  A connection that could not be rebuilt   *)
(* is dereferenced by queries and statements alike.                        *)
DatabaseKills ==
    /\ alive' = FALSE /\ outage' = TRUE
    /\ UNCHANGED <<tables, req, cache, socket, pool, gcc, story, lost, requests, edits>>

(* createProblem: the lookup of the title; a known one is answered 409.    *)
CreateProblem(h, t) ==
    /\ Request(h)
    /\ req' = IF t \in problems THEN req
                                ELSE [req EXCEPT ![h] = Handling("create", t, "none", 0)]
    /\ UNCHANGED <<tables, cache, socket, pool, gcc, alive, books, edits>>

(* createProblem: the lookup fails.  So may those of registration and      *)
(* login, which make no other step here.                                   *)
LookupFails(h) == req[h] = Idle /\ inputs < MaxInputs /\ DatabaseKills

(* createProblem: the statement is published and the request answered 201. *)
CreatePublish(h) ==
    /\ req[h].at = "create"
    /\ socket' = Append(socket, CreateOp(req[h].title))
    /\ Done(h)
    /\ UNCHANGED <<tables, cache, pool, gcc, alive, books, requests, edits>>

(* addProblemLimit.  The key it sets in Redis is read by nobody.           *)
AddProblemLimit(h, t, l, kb) ==
    /\ Request(h)
    /\ asked' = Append(asked, [title |-> t, lang |-> l, kb |-> kb, known |-> t \in problems])
    /\ socket' = Append(socket, LimitOp(t, l, Len(asked) + 1, Uint(kb)))
    /\ UNCHANGED <<tables, req, cache, pool, gcc, alive, submitted, runs, blind, lost, outage,
                   edits>>

(* uploadTestCases.                                                        *)
UploadTestCases(h, t) ==
    /\ Request(h)
    /\ socket' = Append(socket, UploadOp(t))
    /\ UNCHANGED <<tables, req, cache, pool, gcc, alive, books, edits>>

(* submit: the submission gets its id, and its key in Redis.               *)
Submit(h, t, l) ==
    /\ Request(h)
    /\ LET s == Len(submitted) + 1
       IN  /\ cache' = cache \cup {s}
           /\ req' = [req EXCEPT ![h] = Handling("enqueue", t, l, s)]
    /\ submitted' = Append(submitted, [title |-> t, lang |-> l, ready |-> limits[<<t, l>>] # NoRow])
    /\ UNCHANGED <<tables, socket, pool, gcc, alive, asked, runs, blind, lost, outage, edits>>

(* processJudgeTask enqueues the judge task; the request is answered 201.  *)
SubmitEnqueue(h) ==
    /\ req[h].at = "enqueue"
    /\ queue' = Append(queue, JudgeTask(req[h].sub, req[h].title, req[h].lang))
    /\ Done(h)
    /\ UNCHANGED <<tables, cache, socket, running, job, gcc, alive, books, requests, edits>>

(* querySubmission: the answer is what submit has cached, if it still is.  *)
QuerySubmission(h, s) ==
    /\ Request(h)
    /\ \/ s \in cache /\ UNCHANGED <<req, blind>>
       \/ /\ s \notin cache
          /\ req' = [req EXCEPT ![h] = Handling("select", "none", "none", s)]
          /\ blind' = TRUE
    /\ UNCHANGED <<tables, cache, socket, pool, gcc, alive, asked, submitted, runs, lost, outage,
                   edits>>

(* querySubmission: there is no column submission_id.  The SQL error is    *)
(* swallowed and getResult dereferences a null pointer.                    *)
SelectStatus(h) ==
    /\ req[h].at = "select"
    /\ alive' = FALSE
    /\ UNCHANGED <<tables, req, cache, socket, pool, gcc, books, requests, edits>>

(* createProblem and submit: a call to Redis or to the pool throws, and    *)
(* the request is answered.                                                *)
RequestFails(h) ==
    /\ req[h].at \in {"create", "enqueue"}
    /\ Done(h)
    /\ UNCHANGED <<tables, cache, socket, pool, gcc, alive, books, requests, edits>>

(* The key of a submission outlives KEY_TTL. *)
Lapse(s) ==
    /\ s \in cache
    /\ cache' = cache \ {s}
    /\ UNCHANGED <<tables, req, socket, pool, gcc, alive, books, requests, edits>>

-----------------------------------------------------------------------------
(* The pool.                                                               *)

(* A worker that takes the newest task. *)
StartNewest(w) ==
    /\ running[w] = NoTask
    /\ queue # <<>>
    /\ running' = [running EXCEPT ![w] = queue[Len(queue)]]
    /\ queue' = SubSeq(queue, 1, Len(queue) - 1)
    /\ UNCHANGED <<tables, req, cache, socket, job, gcc, alive, books, requests, edits>>

(* An idle worker starts the oldest task. *)
Start(w) ==
    /\ running[w] = NoTask
    /\ queue # <<>>
    /\ running' = [running EXCEPT ![w] = Head(queue)]
    /\ queue' = Tail(queue)
    /\ UNCHANGED <<tables, req, cache, socket, job, gcc, alive, books, requests, edits>>

(* The end of a task that leaves what it has read to the next one.         *)
EndTaskKeepsJob(w) == running' = [running EXCEPT ![w] = NoTask] /\ UNCHANGED job

(* The variables of a task go with it. *)
EndTask(w) == /\ running' = [running EXCEPT ![w] = NoTask]
              /\ job' = [job EXCEPT ![w] = NoJob]

(* The statement that replaces the row: it deletes it before it inserts.   *)
StoreLimitReplace(m) ==
    limits' = IF m.title \in problems
              THEN [limits EXCEPT ![<<m.title, m.lang>>] =
                      IF Storable(m.kb) THEN [n |-> m.n, kb |-> m.kb] ELSE NoRow]
              ELSE limits

(* The statement that leaves a row that is there alone. *)
StoreLimitKeep(m) ==
    limits' = IF m.title \in problems /\ Storable(m.kb) /\ limits[<<m.title, m.lang>>] = NoRow
              THEN [limits EXCEPT ![<<m.title, m.lang>>] = [n |-> m.n, kb |-> m.kb]]
              ELSE limits

(* INSERT ... ON DUPLICATE KEY UPDATE on (problem_id, language).  Without  *)
(* the problem its id is NULL, which the table refuses.                    *)
StoreLimit(m) ==
    limits' = IF m.title \in problems /\ Storable(m.kb)
              THEN [limits EXCEPT ![<<m.title, m.lang>>] = [n |-> m.n, kb |-> m.kb]]
              ELSE limits

(* "ON DUPLICATE KEY UPDATE;" with nothing to update is not SQL.           *)
StoreProblem(m) == UNCHANGED problems

(* Nor is a list of updates without a comma. *)
StoreTestCase(m) == UNCHANGED tests

(* The result is stored with the test of its problem that has the number   *)
(* idx: none is NULL, which is refused, and two are an error.              *)
StoreResult(m) ==
    LET now   == tests[m.title]
        named == {i \in DOMAIN now.seqs : now.seqs[i] = m.test.idx}
    IN  results' = results \cup
           IF Cardinality(named) = 1
           THEN {[sub |-> m.sub, row |-> m.test.row, edit |-> m.test.edit,
                  numbered |-> m.test.numbered, test |-> CHOOSE i \in named : TRUE, at |-> now.edit]}
           ELSE {}

(* The task of processDbOperateEvent: one statement. *)
Execute(w) ==
    /\ \/ running[w].op = "limit"  /\ StoreLimit(running[w])
                                   /\ UNCHANGED <<problems, tests, results>>
       \/ running[w].op = "create" /\ StoreProblem(running[w])
                                   /\ UNCHANGED <<limits, tests, results>>
       \/ running[w].op = "upload" /\ StoreTestCase(running[w])
                                   /\ UNCHANGED <<problems, limits, results>>
       \/ running[w].op = "result" /\ StoreResult(running[w])
                                   /\ UNCHANGED <<problems, limits, tests>>
    /\ EndTask(w)
    /\ UNCHANGED <<req, cache, socket, queue, gcc, alive, books, requests, edits>>

Judging(w, place) == running[w].op = "judge" /\ job[w].at = place

(* Numbers of the limits in q. *)
LimitsIn(q) == {q[i].n : i \in {k \in 1..Len(q) : q[k].op = "limit"}}

(* A statement is refused and forgotten, or a call of a judge task throws: *)
(* the task ends.  Before its queries that is the writing of the code,     *)
(* after them what it reads, compiles, runs or publishes.  A compiler that *)
(* is not found leaves its path empty.                                     *)
TaskFails(w) ==
    /\ running[w] # NoTask /\ ~Judging(w, "limits")
    /\ EndTask(w)
    /\ gcc' = IF job[w].at = "assign" THEN "empty" ELSE gcc
    /\ lost' = lost \cup LimitsIn(<<running[w]>>)
    /\ UNCHANGED <<tables, req, cache, socket, queue, alive, story, outage, requests, edits>>

(* A statement gets a null connection. *)
ExecuteNull(w) == running[w].op \notin {"none", "judge"} /\ DatabaseKills

-----------------------------------------------------------------------------
(* The judge task.                                                         *)

Goes(w, j) == job' = [job EXCEPT ![w] = j]

Rows(seqs) == 1..Len(seqs)

(* The rows in any order. *)
AnyOrder(seqs) == {p \in [Rows(seqs) -> Rows(seqs)] : \A i, j \in Rows(seqs) : p[i] = p[j] => i = j}

(* ORDER BY sequence: the rows by number, equal ones in any order.         *)
ByNumber(seqs) == {p \in AnyOrder(seqs) :
                     \A i, j \in Rows(seqs) : i < j => seqs[p[i]] <= seqs[p[j]]}

Numbered(seqs) == {seqs[i] : i \in Rows(seqs)} = Rows(seqs)

(* The test cases of the problem. *)
QueryTests(w) ==
    /\ Judging(w, "none")
    /\ LET now == tests[running[w].title]
       IN  \E p \in ByNumber(now.seqs) :
              Goes(w, Job("limits", [order |-> p, edit |-> now.edit,
                                     numbered |-> Numbered(now.seqs)], NoRow, 0, 0))
    /\ UNCHANGED <<tables, req, cache, socket, queue, running, gcc, alive, books, requests, edits>>

(* The limits for the problem and the language. *)
QueryLimits(w) ==
    /\ Judging(w, "limits")
    /\ LET row == limits[<<running[w].title, running[w].lang>>]
       IN  /\ row # NoRow
           /\ Goes(w, Job(IF running[w].lang \in Compiled THEN "compile" ELSE "run",
                       job[w].tests, row, 0, 0))
    /\ UNCHANGED <<tables, req, cache, socket, queue, running, gcc, alive, books, requests, edits>>

(* One of the two queries fails. *)
QueryFails(w) == (Judging(w, "none") \/ Judging(w, "limits")) /\ DatabaseKills

(* There are no limits: front() of an empty vector. *)
QueryNoLimits(w) ==
    /\ Judging(w, "limits")
    /\ limits[<<running[w].title, running[w].lang>>] = NoRow
    /\ alive' = FALSE
    /\ UNCHANGED <<tables, req, cache, socket, pool, gcc, books, requests, edits>>

(* CppCompiler::compile finds GCC_COMPILER_PATH empty and begins to assign *)
(* it, or finds it assigned.                                               *)
Compile(w) ==
    /\ Judging(w, "compile")
    /\ \/ gcc = "empty" /\ gcc' = "assigning"
          /\ Goes(w, [job[w] EXCEPT !.at = "assign"])
       \/ gcc = "set" /\ UNCHANGED gcc
          /\ Goes(w, [job[w] EXCEPT !.at = "run"])
    /\ UNCHANGED <<tables, req, cache, socket, queue, running, alive, books, requests, edits>>

Assigned(w) ==
    /\ Judging(w, "assign")
    /\ gcc' = "set"
    /\ Goes(w, [job[w] EXCEPT !.at = "run"])
    /\ UNCHANGED <<tables, req, cache, socket, queue, running, alive, books, requests, edits>>

(* It reads or assigns the string while another worker assigns it: it gets *)
(* a path, or something that cannot be started, or the process dies.       *)
CompileRaces(w) ==
    /\ Judging(w, "compile")
    /\ gcc = "assigning"
    /\ \/ Goes(w, [job[w] EXCEPT !.at = "run"]) /\ UNCHANGED <<running, alive>>
       \/ EndTask(w) /\ UNCHANGED alive
       \/ alive' = FALSE /\ UNCHANGED <<running, job>>
    /\ UNCHANGED <<tables, req, cache, socket, queue, gcc, books, requests, edits>>

(* The tests are run under the limits, up to the first that fails.         *)
Run(w) ==
    /\ Judging(w, "run")
    /\ LET n == Len(job[w].tests.order)
       IN  \/ /\ n = 0
              /\ EndTask(w)
              /\ UNCHANGED runs
           \/ /\ \E k \in 1..n :
                    Goes(w, Job("publish", job[w].tests, job[w].limit, 1, k))
              /\ runs' = runs \cup {[title |-> running[w].title, lang |-> running[w].lang,
                                     n |-> job[w].limit.n,
                                     memory |-> MemoryMax(job[w].limit.kb),
                                     stack |-> StackMax(job[w].limit.kb)]}
              /\ UNCHANGED running
    /\ UNCHANGED <<tables, req, cache, socket, queue, gcc, alive, asked, submitted, blind,
                   lost, outage, requests, edits>>

TestOf(j) == [idx |-> j.next, row |-> j.tests.order[j.next], edit |-> j.tests.edit,
              numbered |-> j.tests.numbered]

(* The results are published in their order, with the numbers 1, 2, ...    *)
PublishResult(w) ==
    /\ Judging(w, "publish")
    /\ socket' = Append(socket, ResultOp(running[w].sub, running[w].title, TestOf(job[w])))
    /\ IF job[w].next = job[w].last
       THEN EndTask(w)
       ELSE Goes(w, [job[w] EXCEPT !.next = job[w].next + 1]) /\ UNCHANGED running
    /\ UNCHANGED <<tables, req, cache, queue, gcc, alive, books, requests, edits>>

-----------------------------------------------------------------------------
(* The channel, the administrator and the machine.                         *)

(* The subscriber loop makes a message a task, or drops it. *)
Deliver ==
    /\ socket # <<>>
    /\ queue' = Append(queue, Head(socket))
    /\ socket' = Tail(socket)
    /\ UNCHANGED <<tables, req, cache, running, job, gcc, alive, books, requests, edits>>

Drop ==
    /\ socket # <<>>
    /\ socket' = Tail(socket)
    /\ lost' = lost \cup LimitsIn(<<Head(socket)>>)
    /\ UNCHANGED <<tables, req, cache, pool, gcc, alive, story, outage, requests, edits>>

(* Nobody listens: what is on its way is lost. *)
Unheard ==
    /\ socket' = <<>>
    /\ lost' = lost \cup LimitsIn(socket)
    /\ UNCHANGED <<tables, req, cache, pool, gcc, alive, story, outage, requests, edits>>

(* An administrator gives a problem a new set of test cases. *)
EditTests(t, table) ==
    /\ inputs < MaxInputs
    /\ edits' = edits + 1
    /\ problems' = problems \cup {t}
    /\ tests' = [tests EXCEPT ![t] = [edit |-> edits + 1, seqs |-> table]]
    /\ UNCHANGED <<limits, results, req, cache, socket, pool, gcc, alive, books, requests>>

(* The process dies of something else. *)
Perish ==
    /\ alive' = FALSE
    /\ UNCHANGED <<tables, req, cache, socket, pool, gcc, books, requests, edits>>

RequestStep(h) ==
    \/ \E t \in Titles : CreateProblem(h, t) \/ UploadTestCases(h, t)
    \/ \E t \in Titles, l \in Langs : Submit(h, t, l) \/ \E kb \in Asked : AddProblemLimit(h, t, l, kb)
    \/ \E s \in 1..(Len(submitted) + 1) : QuerySubmission(h, s)
    \/ CreatePublish(h) \/ SubmitEnqueue(h) \/ SelectStatus(h) \/ RequestFails(h) \/ LookupFails(h)

OutsideStep == \/ \E s \in cache : Lapse(s)
               \/ \E t \in Titles, table \in Tables : EditTests(t, table)

ChannelStep == Deliver \/ Drop \/ Unheard

QueryStep(w) == QueryTests(w) \/ QueryLimits(w) \/ QueryNoLimits(w) \/ QueryFails(w)

CompileStep(w) == Compile(w) \/ Assigned(w) \/ CompileRaces(w)

TaskStep(w) == \/ Start(w) \/ Execute(w) \/ ExecuteNull(w) \/ TaskFails(w)
               \/ QueryStep(w) \/ CompileStep(w) \/ Run(w) \/ PublishResult(w)

ProblemsNext ==
    /\ alive
    /\ \/ \E h \in Threads : RequestStep(h)
       \/ \E w \in Workers : TaskStep(w)
       \/ ChannelStep \/ OutsideStep \/ Perish

ProblemsSpec == ProblemsInit /\ [][ProblemsNext]_problemVars
-----------------------------------------------------------------------------
JobType(j, m) ==
    \/ j = NoJob
    \/ /\ m.op = "judge"
       /\ j \in [at : {"limits", "compile", "assign", "run", "publish"},
                 tests : [order : Seq(Nat), edit : 0..edits, numbered : BOOLEAN],
                 limit : [n : Int, kb : Nat], next : Nat, last : Nat]
       /\ j.at = "publish" => j.next \in 1..j.last /\ j.last \in 1..Len(j.tests.order)

ProblemTypes ==
    /\ problems \subseteq Titles
    /\ limits \in [Titles \X Langs -> [n : Int, kb : Nat]]
    /\ tests \in [Titles -> [edit : 0..edits, seqs : Tables]]
    /\ req \in [Threads -> [at : {"idle", "create", "enqueue", "select"},
                            title : Titles \cup {"none"}, lang : Langs \cup {"none"}, sub : Nat]]
    /\ \A h \in Threads : /\ req[h].at \in {"create", "enqueue"} => req[h].title \in Titles
                          /\ req[h].at = "enqueue" => req[h].lang \in Langs
    /\ cache \subseteq 1..Len(submitted)
    /\ socket \in Seq(Messages) /\ queue \in Seq(Tasks)
    /\ running \in [Workers -> Tasks \cup {NoTask}]
    /\ DOMAIN job = Workers
    /\ \A w \in Workers : JobType(job[w], running[w])
    /\ gcc \in {"empty", "assigning", "set"}
    /\ alive \in BOOLEAN /\ blind \in BOOLEAN /\ outage \in BOOLEAN
    /\ lost \subseteq Nat
    /\ asked \in Seq([title : Titles, lang : Langs, kb : Asked, known : BOOLEAN])
    /\ submitted \in Seq([title : Titles, lang : Langs, ready : BOOLEAN])
    /\ requests \in Nat /\ edits \in Nat

(* The limits that wait in q were asked for after the n-th. *)
Newer(q, n) == \A i \in 1..Len(q) : q[i].op = "limit" => n < q[i].n

(* A limit that was asked for later is stored later: a row is older than   *)
(* each of the limits that still wait for a worker.  An older one can      *)
(* overwrite a newer one only when both were taken by workers.             *)
WaitingIsNewer ==
    \A t \in Titles, l \in Langs : /\ Newer(queue, limits[<<t, l>>].n)
                                   /\ Newer(socket, limits[<<t, l>>].n)

(* A stored result is that of the test it names, if the tests were         *)
(* numbered 1, 2, ... when they were read and have not been changed since. *)
(* Also when the run stopped early or other results were refused.          *)
ResultsNameTheirTest ==
    \A r \in results : r.numbered /\ r.at = r.edit => r.test = r.row

(* A program runs under limits that were asked for its problem and its     *)
(* language: exactly those if they fit into 32 bits when counted in bytes, *)
(* and never more than those.                                              *)
LimitsAsAsked ==
    \A r \in runs : r.n > 0 =>
       LET a      == asked[r.n]
           memory == (a.kb + Slack) * Kilo
           stack  == a.kb * Kilo
       IN  /\ a.title = r.title /\ a.lang = r.lang
           /\ r.memory <= memory /\ r.stack <= stack
           /\ memory < Word => r.memory = memory /\ r.stack = stack

(* Limit n has not been executed yet. *)
Waiting(n) == \/ n \in LimitsIn(socket) \cup LimitsIn(queue)
              \/ \E w \in Workers : running[w].op = "limit" /\ running[w].n = n

(* A limit that was answered 201, for a problem that exists and of a size  *)
(* that the column takes, is on its way, or was lost with its message or   *)
(* with a statement that failed; otherwise its problem has, for its        *)
(* language, a limit that was asked for.  What the column refuses and what *)
(* overtakes it replace a row, but never leave none.                       *)
LimitsAreStored ==
    \A n \in 1..Len(asked) :
       LET a == asked[n]
       IN  a.known /\ Storable(Uint(a.kb)) =>
              Waiting(n) \/ n \in lost \/ limits[<<a.title, a.lang>>].n > 0
=============================================================================
