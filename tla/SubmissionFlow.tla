--------------------------- MODULE SubmissionFlow ---------------------------
(***************************************************************************)
(* The way of a submission through the server: SubmissionService::submit   *)
(* and Application::processJudgeTask publish the INSERT of the submission  *)
(* on a Redis channel and enqueue a judge task; the judge task publishes   *)
(* the UPDATE of the status and an INSERT for every judged test; the       *)
(* subscriber loop of Application::run receives the messages and           *)
(* processDbOperateEvent makes each of them a task of the same thread      *)
(* pool, which executes it on the database.                                *)
(*                                                                         *)
(* The pool is the Executor: tasks start in FIFO order, one per worker.    *)
(* The subscriber loop is its first task and keeps its worker.  A database *)
(* operation is atomic (one committed statement); everything between two   *)
(* of the server's calls to Redis, the pool or MySQL is one step.          *)
(*                                                                         *)
(* Faults, at most MaxFaults of them: a failed publish, judge task or      *)
(* database operation, the loss of the subscriber's connection, a crash.   *)
(***************************************************************************)
EXTENDS Judging, FiniteSets

CONSTANTS Workers,   \* threads of m_JudgerPool
          Subs,      \* submissions
          Execs,     \* bound: what the run of a program may come to
          MaxTests,  \* bound: test cases of a problem
          MaxFaults, \* bound: faults in a behaviour
          NoSub      \* not a submission

ASSUME BoundsAssumption == MaxTests \in Nat /\ MaxFaults \in Nat

ASSUME NamesAssumption == NoSub \notin Subs /\ Execs \subseteq ExecStatuses

VARIABLES http,      \* submission -> progress of its HTTP request
          queue,     \* the pool's tasks not started yet
          running,   \* worker -> its task
          outbox,    \* worker -> what its judge task still has to publish
          socket,    \* messages Redis has sent to the subscriber
          link,      \* the subscriber's connection to Redis
          callback,  \* the subscriber has a message callback
          loop,      \* the subscriber loop of Application::run
          row,       \* submission -> submissions.overall_status, or "none"
          results,   \* submission -> test -> statuses of its judge_results rows
          judged,    \* submission -> what its judge task found
          published, \* messages that were published
          applied,   \* messages whose statement took effect
          lost,      \* messages that never will
          faults     \* number of faults so far

memory == <<queue, running, outbox, socket, link, callback, loop>>
tables == <<row, results>>
books  == <<published, applied, lost, faults>>
vars   == <<http, memory, tables, judged, books>>

Statuses == {"none", "PENDING"} \cup OverallStatuses

(* What a judge task found: the tests of the problem, and their results.   *)
NotJudged == [done |-> FALSE, tests |-> 0, results |-> <<>>]
Found(n, rs) == [done |-> TRUE, tests |-> n, results |-> rs]

(* A database operation, and every other task of the pool, is a record of  *)
(* one shape; seq is the test case of a result, status what is stored.     *)
Op(o, s, i, v) == [op |-> o, sub |-> s, seq |-> i, status |-> v]

LoopTask  == Op("loop", NoSub, 0, "none")
NoTask    == Op("none", NoSub, 0, "none")
JudgeTask(s) == Op("judge", s, 0, "none")
InsertOp(s)  == Op("insert", s, 0, "PENDING")
UpdateOp(s, v) == Op("update", s, 0, v)
ResultOp(s, i, r) == Op("result", s, i, r)

DbOps == {"insert", "update", "result"}

Messages == [op : DbOps, sub : Subs, seq : 0..MaxTests, status : Statuses \cup TestStatuses]

Tasks == Messages \cup {JudgeTask(s) : s \in Subs} \cup {LoopTask}

Elements(q) == {q[i] : i \in 1..Len(q)}

Fault == faults < MaxFaults /\ faults' = faults + 1

-----------------------------------------------------------------------------
(* Impl has subscribed with a callback; run() has enqueued the loop.       *)
Init == /\ http = [s \in Subs |-> "none"]
        /\ queue = <<LoopTask>>
        /\ running = [w \in Workers |-> NoTask]
        /\ outbox = [w \in Workers |-> <<>>]
        /\ socket = <<>>
        /\ link = "up"
        /\ callback = TRUE
        /\ loop = "consuming"
        /\ row = [s \in Subs |-> "none"]
        /\ results = [s \in Subs |-> [i \in 1..MaxTests |-> <<>>]]
        /\ judged = [s \in Subs |-> NotJudged]
        /\ published = {} /\ applied = {} /\ lost = {}
        /\ faults = 0

(* PUBLISH: Redis hands the message to the subscribers of the moment, and  *)
(* keeps nothing for those that come back later.                           *)
Publish(m) ==
    /\ published' = published \cup {m}
    /\ \/ link = "up" /\ socket' = Append(socket, m) /\ UNCHANGED lost
       \/ link # "up" /\ lost' = lost \cup {m} /\ UNCHANGED socket

-----------------------------------------------------------------------------
(* The HTTP thread of submission s.                                        *)

(* processJudgeTask: publish the INSERT of the submission.                 *)
SubmitPublish(s) ==
    /\ http[s] = "none"
    /\ Publish(InsertOp(s))
    /\ http' = [http EXCEPT ![s] = "enqueueing"]
    /\ UNCHANGED <<queue, running, outbox, link, callback, loop, tables, judged,
                   applied, faults>>

(* Redis fails: an error response, and no judge task.                      *)
SubmitFails(s) ==
    /\ http[s] = "none"
    /\ Fault
    /\ http' = [http EXCEPT ![s] = "failed"]
    /\ UNCHANGED <<memory, tables, judged, published, applied, lost>>

(* processJudgeTask: enqueue the judge task.  The response is 201.         *)
SubmitEnqueue(s) ==
    /\ http[s] = "enqueueing"
    /\ queue' = Append(queue, JudgeTask(s))
    /\ http' = [http EXCEPT ![s] = "accepted"]
    /\ UNCHANGED <<running, outbox, socket, link, callback, loop, tables, judged, books>>

-----------------------------------------------------------------------------
(* The pool's workers.                                                     *)

(* The pool that starts the newest task first.                             *)
StartNewest(w) ==
    /\ running[w] = NoTask
    /\ queue # <<>>
    /\ running' = [running EXCEPT ![w] = queue[Len(queue)]]
    /\ queue' = SubSeq(queue, 1, Len(queue) - 1)
    /\ UNCHANGED <<http, outbox, socket, link, callback, loop, tables, judged, books>>

(* An idle worker starts the oldest task.                                  *)
Start(w) ==
    /\ running[w] = NoTask
    /\ queue # <<>>
    /\ running' = [running EXCEPT ![w] = Head(queue)]
    /\ queue' = Tail(queue)
    /\ UNCHANGED <<http, outbox, socket, link, callback, loop, tables, judged, books>>

EndTask(w) == running' = [running EXCEPT ![w] = NoTask]

(* What a judge task publishes when it has the results rs.                 *)
Report(s, rs) == <<UpdateOp(s, SetStatus(rs))>> \o
                 [i \in 1..Len(rs) |-> ResultOp(s, i, rs[i])]

(* The judge task that reports before its last test.                       *)
JudgeEarly(w) ==
    /\ running[w].op = "judge" /\ outbox[w] = <<>>
    /\ \E n \in 0..MaxTests, compiled \in BOOLEAN :
          \E rs \in Runs(n, Outcomes(Execs, compiled)) :
             LET s == running[w].sub
             IN  /\ judged' = [judged EXCEPT ![s] = Found(n, rs)]
                 /\ outbox' = [outbox EXCEPT ![w] =
                       Report(s, SubSeq(rs, 1, Len(rs) - 1))]
    /\ UNCHANGED <<http, queue, running, socket, link, callback, loop, tables, books>>

(* The judge task: the source is compiled, the n tests of the problem and  *)
(* the limits are queried, and the tests are run.  The tests of a problem  *)
(* are numbered from 1, as the task numbers its results.                   *)
Judge(w) ==
    /\ running[w].op = "judge" /\ outbox[w] = <<>>
    /\ \E n \in 0..MaxTests, compiled \in BOOLEAN :
          \E rs \in Runs(n, Outcomes(Execs, compiled)) :
             LET s == running[w].sub
             IN  /\ judged' = [judged EXCEPT ![s] = Found(n, rs)]
                 /\ outbox' = [outbox EXCEPT ![w] = Report(s, rs)]
    /\ UNCHANGED <<http, queue, running, socket, link, callback, loop, tables, books>>

(* An exception before the verdict is logged and ends the task.            *)
JudgeFails(w) ==
    /\ running[w].op = "judge" /\ outbox[w] = <<>>
    /\ Fault
    /\ EndTask(w)
    /\ UNCHANGED <<http, queue, outbox, socket, link, callback, loop, tables, judged,
                   published, applied, lost>>

(* The judge task publishes its next message; the last one ends it.        *)
JudgePublish(w) ==
    /\ outbox[w] # <<>>
    /\ Publish(Head(outbox[w]))
    /\ outbox' = [outbox EXCEPT ![w] = Tail(@)]
    /\ IF Len(outbox[w]) = 1 THEN EndTask(w) ELSE UNCHANGED running
    /\ UNCHANGED <<http, queue, link, callback, loop, tables, judged, applied, faults>>

(* The judge task that goes on after a failed publish.                     *)
JudgePublishFailsOn(w) ==
    /\ outbox[w] # <<>>
    /\ Fault
    /\ EndTask(w)
    /\ UNCHANGED <<http, queue, outbox, socket, link, callback, loop, tables, judged,
                   published, applied, lost>>

(* A failed publish throws: the task ends and publishes nothing more.      *)
JudgePublishFails(w) ==
    /\ outbox[w] # <<>>
    /\ Fault
    /\ outbox' = [outbox EXCEPT ![w] = <<>>]
    /\ EndTask(w)
    /\ UNCHANGED <<http, queue, socket, link, callback, loop, tables, judged,
                   published, applied, lost>>

(* The statement of message m finds what it needs in the database: the     *)
(* sub_uuid is new, the row to update exists, the submission of a result   *)
(* exists (judge_results.submission_id is NOT NULL).                       *)
Applies(m) == IF m.op = "insert" THEN row[m.sub] = "none" ELSE row[m.sub] # "none"

(* The database in which an UPDATE creates the row that it does not find.  *)
AppliesUpsert(m) == \/ m.op = "insert" /\ row[m.sub] = "none"
                    \/ m.op = "update"
                    \/ m.op = "result" /\ row[m.sub] # "none"

(* What the statement of m changes. *)
Effect(m) ==
    /\ row' = [row EXCEPT ![m.sub] = IF m.op = "result" THEN @ ELSE m.status]
    /\ results' = IF m.op = "result" THEN [results EXCEPT ![m.sub][m.seq] = Append(@, m.status)]
                                     ELSE results

(* The UPDATE that creates the row that it does not find.                  *)
ExecuteUpsert(w) ==
    /\ running[w].op \in DbOps
    /\ IF AppliesUpsert(running[w])
       THEN /\ Effect(running[w])
            /\ applied' = applied \cup {running[w]}
            /\ UNCHANGED lost
       ELSE /\ lost' = lost \cup {running[w]}
            /\ UNCHANGED <<tables, applied>>
    /\ EndTask(w)
    /\ UNCHANGED <<http, queue, outbox, socket, link, callback, loop, judged,
                   published, faults>>

(* DbManager::execute.  A statement that finds no row changes nothing; an  *)
(* SQL error is swallowed by the operation: either way the task just ends. *)
Execute(w) ==
    /\ running[w].op \in DbOps
    /\ \/ /\ Applies(running[w])
          /\ Effect(running[w])
          /\ applied' = applied \cup {running[w]}
          /\ UNCHANGED lost
       \/ /\ ~Applies(running[w])
          /\ lost' = lost \cup {running[w]}
          /\ UNCHANGED <<tables, applied>>
    /\ EndTask(w)
    /\ UNCHANGED <<http, queue, outbox, socket, link, callback, loop, judged,
                   published, faults>>

(* The operation fails for a reason of its own: deadlock, connection lost, *)
(* unknown user or problem.  It is rolled back and forgotten.              *)
ExecuteFails(w) ==
    /\ running[w].op \in DbOps
    /\ Fault
    /\ lost' = lost \cup {running[w]}
    /\ EndTask(w)
    /\ UNCHANGED <<http, queue, outbox, socket, link, callback, loop, tables, judged,
                   published, applied>>

-----------------------------------------------------------------------------
(* The subscriber loop, running on a worker.                               *)

LoopOn(w) == running[w] = LoopTask /\ loop = "consuming"

(* The consumer that leaves the message in the socket.                     *)
ConsumeNoPop(w) ==
    /\ LoopOn(w)
    /\ socket # <<>>
    /\ queue' = Append(queue, Head(socket))
    /\ UNCHANGED <<http, running, outbox, socket, link, callback, loop, tables, judged,
                   books>>

(* consume() receives a message: the callback, processDbOperateEvent, makes*)
(* it a task; without a callback the subscriber drops it.                  *)
Consume(w) ==
    /\ LoopOn(w)
    /\ socket # <<>>
    /\ socket' = Tail(socket)
    /\ \/ callback /\ queue' = Append(queue, Head(socket)) /\ UNCHANGED lost
       \/ ~callback /\ lost' = lost \cup {Head(socket)} /\ UNCHANGED queue
    /\ UNCHANGED <<http, running, outbox, link, callback, loop, tables, judged,
                   published, applied, faults>>

(* ClosedError, once what had arrived is consumed: sleep for a minute.     *)
ConsumeClosed(w) ==
    /\ LoopOn(w)
    /\ socket = <<>> /\ link = "closed"
    /\ loop' = "sleeping"
    /\ UNCHANGED <<http, queue, running, outbox, socket, link, callback, tables, judged,
                   books>>

(* Any other error: break.  The loop's task returns.                       *)
ConsumeError(w) ==
    /\ LoopOn(w)
    /\ socket = <<>> /\ link = "reset"
    /\ loop' = "ended"
    /\ EndTask(w)
    /\ UNCHANGED <<http, queue, outbox, socket, link, callback, tables, judged, books>>

(* A new Subscriber, subscribed to the channel but given no callback.      *)
Resubscribe(w) ==
    /\ running[w] = LoopTask /\ loop = "sleeping"
    /\ link' = "up"
    /\ callback' = FALSE
    /\ loop' = "consuming"
    /\ UNCHANGED <<http, queue, running, outbox, socket, tables, judged, books>>

(* Redis is still away: the exception leaves the handler and the loop.     *)
ResubscribeFails(w) ==
    /\ running[w] = LoopTask /\ loop = "sleeping"
    /\ Fault
    /\ loop' = "ended"
    /\ EndTask(w)
    /\ UNCHANGED <<http, queue, outbox, socket, link, callback, tables, judged,
                   published, applied, lost>>

-----------------------------------------------------------------------------
(* Redis and the machine.                                                  *)

(* Redis closes the subscriber's connection; what it sent is still read.   *)
LinkCloses ==
    /\ link = "up"
    /\ Fault
    /\ link' = "closed"
    /\ UNCHANGED <<http, queue, running, outbox, socket, callback, loop, tables, judged,
                   published, applied, lost>>

(* The connection is reset, and what was on its way is gone.               *)
LinkResets ==
    /\ link = "up"
    /\ Fault
    /\ link' = "reset"
    /\ socket' = <<>>
    /\ lost' = lost \cup Elements(socket)
    /\ UNCHANGED <<http, queue, running, outbox, callback, loop, tables, judged,
                   published, applied>>

(* Messages that only the memory of the server, or its socket, holds.      *)
InFlight == {m \in Elements(queue) \cup Elements(socket)
                   \cup {running[w] : w \in Workers} : m.op \in DbOps}

(* The server crashes and is started again.  Nothing is recovered: tasks   *)
(* and messages are gone, open requests get no answer.                     *)
CrashRestart ==
    /\ Fault
    /\ lost' = lost \cup InFlight
    /\ http' = [s \in Subs |-> IF http[s] = "enqueueing" THEN "failed" ELSE http[s]]
    /\ queue' = <<LoopTask>>
    /\ running' = [w \in Workers |-> NoTask]
    /\ outbox' = [w \in Workers |-> <<>>]
    /\ socket' = <<>>
    /\ link' = "up" /\ callback' = TRUE /\ loop' = "consuming"
    /\ UNCHANGED <<tables, judged, published, applied>>

(* Nothing is left to do but to wait for messages.                         *)
Quiet == /\ \A s \in Subs : http[s] \in {"accepted", "failed"}
         /\ queue = <<>> /\ socket = <<>>
         /\ \A w \in Workers : running[w] \in {NoTask, LoopTask}
         /\ link # "up" => loop = "ended"
         /\ UNCHANGED vars

HttpStep(s) == SubmitPublish(s) \/ SubmitEnqueue(s)

LoopStep(w) == Consume(w) \/ ConsumeClosed(w) \/ ConsumeError(w) \/ Resubscribe(w)

WorkerStep(w) == Start(w) \/ Judge(w) \/ JudgePublish(w) \/ Execute(w) \/ LoopStep(w)

FaultStep == \/ \E s \in Subs : SubmitFails(s)
             \/ \E w \in Workers : \/ JudgeFails(w) \/ JudgePublishFails(w)
                                   \/ ExecuteFails(w) \/ ResubscribeFails(w)
             \/ LinkCloses \/ LinkResets \/ CrashRestart

Next == \/ \E s \in Subs : HttpStep(s)
        \/ \E w \in Workers : WorkerStep(w)
        \/ FaultStep
        \/ Quiet

(* A request that was received is handled, the threads of the pool are     *)
(* scheduled, and no judge task or statement takes for ever.  Requests     *)
(* need not come.                                                          *)
Fairness == /\ \A s \in Subs : WF_vars(SubmitEnqueue(s))
            /\ \A w \in Workers : WF_vars(WorkerStep(w))

Spec == Init /\ [][Next]_vars /\ Fairness

-----------------------------------------------------------------------------
(* Types; what a judge task still has to publish belongs to that task.     *)
TypeOK ==
    /\ http \in [Subs -> {"none", "enqueueing", "accepted", "failed"}]
    /\ queue \in Seq(Tasks)
    /\ running \in [Workers -> Tasks \cup {NoTask}]
    /\ outbox \in [Workers -> Seq(Messages)]
    /\ \A w \in Workers : outbox[w] # <<>> => running[w].op = "judge"
    /\ socket \in Seq(Messages)
    /\ link \in {"up", "closed", "reset"}
    /\ callback \in BOOLEAN
    /\ loop \in {"consuming", "sleeping", "ended"}
    /\ row \in [Subs -> Statuses]
    /\ results \in [Subs -> [1..MaxTests -> Seq(TestStatuses)]]
    /\ judged \in [Subs -> [done : BOOLEAN, tests : 0..MaxTests,
                            results : Seq(TestStatuses)]]
    /\ published \subseteq Messages
    /\ applied \subseteq Messages
    /\ lost \subseteq Messages
    /\ faults \in 0..MaxFaults

NoDuplicates(q) == \A i, j \in 1..Len(q) : q[i] = q[j] => i = j

(* Every published message is in one place: on its way (in the socket, in  *)
(* the queue, on one worker), applied once, or lost.  Nothing is applied   *)
(* twice, and nothing disappears unaccounted.                              *)
EachMessageOnce ==
    /\ published = InFlight \cup applied \cup lost
    /\ InFlight \cap (applied \cup lost) = {}
    /\ applied \cap lost = {}
    /\ Elements(queue) \cap Elements(socket) = {}
    /\ \A w \in Workers : running[w] \notin Elements(queue) \cup Elements(socket)
    /\ NoDuplicates(queue \o socket)
    /\ \A v, w \in Workers : running[v] = running[w] /\ running[v] # NoTask => v = w

(* A stored verdict says what happened when the tests ran: ACCEPT, that    *)
(* there are tests and the program was accepted in all of them;            *)
(* COMPILATION_ERROR, that there are no tests (and nothing about the       *)
(* compiler); any other, how it failed the one test that stopped the run.  *)
(* Also when messages were lost, reordered or cut off by a crash.          *)
StoredStatusIsJudged ==
    \A s \in Subs :
       LET rs == judged[s].results
       IN  /\ row[s] \in OverallStatuses => judged[s].done
           /\ row[s] = "ACCEPT" =>
                 /\ judged[s].tests > 0 /\ Len(rs) = judged[s].tests
                 /\ \A i \in 1..Len(rs) : rs[i] = "ACCEPTED"
           /\ row[s] = "COMPILATION_ERROR" => judged[s].tests = 0
           /\ row[s] \in TestStatuses => rs # <<>> /\ rs[Len(rs)] = row[s]

(* Without a fault a message is lost in one way only: its statement is     *)
(* executed while another worker still holds the INSERT of its submission. *)
LossIsOvertaking ==
    [][\A m \in lost' \ lost :
          faults' = 0 => \E w \in Workers : running[w] = InsertOp(m.sub)]_vars

(* The tables are a submission record. *)
Record == INSTANCE SubmissionRecord

ImplementsRecord == Record!Spec

(* Every request was answered, and all that is left is the subscriber loop.*)
Idle == /\ \A s \in Subs : http[s] # "enqueueing"
        /\ queue = <<>> /\ socket = <<>>
        /\ \A w \in Workers : running[w] \in {NoTask, LoopTask}

(* The tables hold the verdict on what was found for s, and all of what    *)
(* was found, once.                                                        *)
Settled(s) == LET rs == judged[s].results
              IN  /\ judged[s].done
                  /\ row[s] = Record!Verdict(rs)
                  /\ \A i \in 1..Len(rs) : results[s][i] = <<rs[i]>>

(* Without a fault a pool of two workers loses nothing, because one of them*)
(* is the subscriber loop's; and when such a pool, or a larger one, is idle*)
(* every accepted submission of which nothing was lost has its verdict and *)
(* the results of all its tests in the tables.                             *)
IdleIsSettled ==
    faults = 0 =>
       /\ (\E v, w \in Workers : Workers = {v, w}) => lost = {}
       /\ Idle => \A s \in Subs : http[s] = "accepted" /\ (\A m \in lost : m.sub # s) => Settled(s)

(* The verdict of every accepted submission reaches its row.  It holds     *)
(* without faults when only one worker is left for tasks, because then the *)
(* statements run one after the other.                                     *)
AcceptedIsSettled ==
    \A s \in Subs : http[s] = "accepted" ~> row[s] \in OverallStatuses

(* Application.cpp:115, "rebuild the Subscriber": a loop that consumes has *)
(* a subscriber that hands its messages on.                                *)
ConsumerListens == loop = "consuming" => callback
=============================================================================
