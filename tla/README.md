# A TLA+ model of oj-backend

oj-backend is an online-judge server in C++: it takes submissions over HTTP, runs
them against the test cases of a problem in a sandboxed child process, and stores the
verdicts in MySQL. Redis carries the writes to the database as messages, caches
accounts and submissions, and holds the tokens of logged-in users.

This directory holds TLA+ modules for the parts of the server in which
something can go wrong that a test would hardly reach, TLC configurations that check
them on small instances, and TLAPS proofs of the most important results for every
size. `PROJECT.json` maps each definition to the lines of `src/` it stands for and
lists the runs, the mutated definitions that show each property can fail, the
findings, the hazards and the theorems.

    tlc -workers 2 -config MCThreadPool.cfg MCThreadPool     # any of the runs below
    tlapm ThreadPoolProofs.tla                               # any of the *Proofs modules

## 1. The system

| Component | State | Operations | Hard behaviour | What makes it correct |
|---|---|---|---|---|
| Thread pool (`core/ThreadPool`) | queue, stop flag, workers' wait set | `enqueue`, worker loop, destructor | `notify_one` outside the mutex, enqueue during shutdown, endless tasks | every accepted task runs once; no lost wakeup; the destructor drains and joins |
| Database pool and manager (`database/`, `app/DbManager`, `app/dbop/`) | slots, connections, the retry counter | `acquire`, `returnWorker`, `checkConnection`, `execute`, `query` | mutex held while reconnecting, exceptions in each phase, nested retries, double return | a connection has one user, none is lost, nobody sleeps beside a free one, every operation ends |
| Submission pipeline (`app/Application`, `SubmissionService`, `RedisManager`) | the pool's tasks, the Redis channel, the subscriber loop, tables | `submit`, judge task, `publishDbOperate`, consume, `processDbOperateEvent`, resubscribe | at-most-once messages, several workers reorder statements, lost connections, crashes | a message takes effect at most once, the stored status is the judge's, an accepted submission is settled |
| Judger and verdict (`judge/Judger`, `JudgeResult`) | results of the tests | `judge`, the loop over the tests, `setStatus` | statuses folded to a bit mask, compile errors, missing tests | the verdict is that of the test that stopped the run |
| Actuator (`judge/actuators`) | pipes, child, cgroup, clock | `execute`, `createPipes`, `setChildEnv`, `createCgroupForProcess`, `monitorChild`, `cleanupCgroup` | concurrent forks inherit descriptors, full pipes, exit races the clock, every step may throw | children are reaped, descriptors closed, output complete, status true, nobody hangs |
| Accounts and tokens (`AuthService`, `TokenManager`, `IAuthRequired`) | account cache, table `users`, active and blacklist keys | register, log in, issue, verify; revoke and refresh, which have no caller yet | checks and writes are separate calls, the INSERT is asynchronous, entries expire | revoked tokens are refused, good ones last, a login needs the account's password |
| Problem service and status queries (`ProblemService`, `SubmissionService`) | tables of problems, limits and test cases, the cache of submissions | create problem, limits, test cases; submit, query a status; what a judge task reads, runs and numbers | statements answered before they are executed and refused by the database, limits that are replaced while judge tasks read them, 32-bit conversions and products, results matched by position | programs run under limits that were asked for, a result names its test, a problem that has limits keeps them |
| Application lifecycle (`Application`, `main`, `Actuator::initSystem`, file checks) | members of `Impl`, exit flag, the loop | construction, `init`, `run`, destruction | a start that fails half way, tasks and a loop that outlive what they use, joining a loop that sleeps | members are used only while they exist, the process ends after `listen` |
| Bounded queue (`core/Queue`) | queue, condition variables | push, pop | used by nothing in the program | not modelled, see section 7 |
| HTTP interface, compiler, file writer, configuration, logging, data types, exceptions | none of interest | | parsing, formatting, I/O | in parts, see section 7 |

They interact through calls and shared state:

- HTTP threads (httplib) call the services. A service talks to Redis and MySQL
  directly, publishes statements on one Redis channel, and enqueues judge tasks on the
  thread pool.
- The *subscriber loop* is itself a task of that pool, its first and an endless one. It
  turns each message of the channel into a task of the same pool, which executes the
  statement through the database pool.
- A judge task queries the test cases and the limits, calls the Judger, which compiles
  and calls the Actuator once for each test, and publishes the verdict and the results
  on the same channel.
- `main` builds the members of the application one by one, hands the loop to the pool and
  listens. When `listen` returns it destroys them against the order of their
  declaration, so that the pool, which was declared first, is joined last.

## 2. Modules

| Module | Models | Uses |
|---|---|---|
| `Executor` | what the thread pool promises: FIFO start, at most one task for each worker, nothing lost | |
| `ThreadPool` | `Core::ThreadPool`; one action per critical section of `queue_mutex`, and one for what runs outside it | `Executor` as refined specification |
| `DbPool` | `DbPool`, `DbWorker::checkConnection`, `DbManager::execute`/`query`, the outcomes of an operation | |
| `Judging` | `Judger::judge`, the loop over the tests, `JudgeResult::setStatus`, as operators | |
| `SubmissionRecord` | what the tables may record of a submission, whatever happens on the way | |
| `SubmissionFlow` | the pipeline; composes the pool (as the Executor: FIFO, one task per worker), the channel, the loop, the judge task and the tables | `Judging`; `SubmissionRecord` as refined specification |
| `Actuator` | `Actuator::execute` for several judge tasks at once, with the kernel's rules for descriptors and pipes | |
| `Auth` | `AuthService`, `TokenManager`, `IAuthRequired::authenticate`; one step per call to Redis or MySQL | |
| `Problems` | `ProblemService`, `SubmissionService` with its cache, their statements, and the judge task from its queries to its results, with the limits as integers of a bounded width | |
| `Lifecycle` | `main`, the members of `Application::Impl`, `init`, `run`, destruction, the subscriber loop, the file checks of `Actuator::initSystem` | |
| `Server` | the whole process: requests only while `main` listens, tasks only on workers the loop does not hold, and which members each step uses | `Problems` and `Lifecycle`, composed |
| `MC...` | the instances for TLC | |
| `ThreadPoolProofs`, `DbPoolProofs`, `FlowProofs` (with `Judging`), `ActuatorProofs`, `AuthProofs`, `ProblemsProofs`, `ResultProofs`, `ServerProofs` | theorems and proofs | |

How state and actions correspond to the code:

- **ThreadPool.** `tasks`, `stop` are the members; `wpc`/`task` are a worker's place
  and its local variable; `notifying` holds the threads that have unlocked the mutex but not
  yet called `notify_one`. `condition.wait` is a wait set: a worker enters it only when the
  predicate is false, and evaluates it again after a (possibly spurious) wakeup.
- **DbPool.** `acquire` keeps `m_Mtx` over `checkConnection`, so a thread in `check`
  disables every action that needs the mutex. `held` is a sequence because `execute`
  calls itself; `early` remembers that a catch branch has returned a worker before the
  common return. `Escapes` is the set of exceptions that leave `operator()`.
- **SubmissionFlow.** A task is a record. `Publish` appends to `socket` if the
  subscriber is connected and loses the message otherwise, as Redis does. `Execute` is
  one committed statement: it applies, or it changes nothing and nobody is told.
  `Judge` is the judge task up to its first publish: the run over the tests in
  `Judging`'s terms. `published`, `applied` and `lost` are history.
- **Actuator.** `fds` maps each process to the pipe ends it holds; `fork` copies
  all of the server's. End of file and EPIPE follow from who holds the other end. Data is
  counted in chunks of which a pipe holds `Cap`. The clock is a choice: it may have run
  out whenever `monitorChild` looks. Program kinds: reads everything, quits, uses too much
  memory, never ends.
- **Auth.** `req` is the program counter and locals of each HTTP thread. Time is
  in ticks, `PerSecond` of them a second, because the JWT claims are whole seconds: two
  tokens of one user of the same second are equal. `Tick` drops lapsed keys, as Redis does.
  Nothing in the program calls `TokenManager::invalidateToken` or `refreshToken`, so no HTTP
  request of today revokes or refreshes a token. The model lets a request call them with any
  token that was issued, as a handler would; what it shows of revocation is shown
  of the interface of `TokenManager`, for the day somebody uses it.

- **Problems.** `limits` and `tests` are rows of the tables; a row of limits has the
  number of the request it comes from, 0 for one that was there before. `socket` and `queue`
  hold messages and tasks of one shape. `job` are the locals of a judge task: the rows it has
  read, in the order in which it will run them, and the next result to publish. `asked`,
  `submitted`, `runs`, `blind`, `lost` (limits whose message or statement was lost) and `outage` are history.
  `DatabaseKills` is the process following a null pointer: the result of a query that failed, which
  `DbQueryOp` swallows and `getResult` dereferences (`DbQueryOp.cpp:30-37`), or a connection that `acquire` could not rebuild
  (`DbPool.cpp:57`). The lookup of `createProblem` (`LookupFails`), the two queries of a judge task
  (`QueryFails`) and every statement (`ExecuteNull`) may end so, at any time. `Word`, `Kilo` and `Slack` stand for 2^32, 1024 and 100.
- **Lifecycle.** `phase` is the program counter of the main thread, `members` the set of
  those members of `Impl` that exist, `loop` the place of the subscriber loop.
- **Server.** `WorkerUses` and `LoopUses` give the members that the next step of a worker
  and of the loop dereference. A step whose members are gone is undefined behaviour: the step,
  or the end of the process (`Undefined`). The loop keeps the worker `Looper` until it ends.

Each component also contains a few definitions named after the bug they have
(`WorkerTakeNoPop`, `DrainStops`, ...). No specification uses them; they are the
mutated forms that show that a property can fail.

## 3. Runs

| Run | Instance | Checks |
|---|---|---|
| `threadpool` | 3 workers, 2 outside callers, 4 tasks, one endless | `TypeOK`, `EachTaskOnce`, `NoLostWakeup`, `JoinedDrained`, refinement `ImplementsExecutor`, liveness `EveryTaskEnds`, `DestructorReturns` |
| `dbpool` | 3 threads, 1 connection, all exceptions, 2 reconnects, 1 nested retry | `TypeOK`, `Exclusive`, `NoSlotLost`, `NoSleepWhileFree`, liveness `EveryOpEnds` |
| `flow` | 2 submissions, 3 workers, 1 test, 2 faults | `TypeOK`, `EachMessageOnce`, `StoredStatusIsJudged`, `LossIsOvertaking`, refinement `ImplementsRecord` |
| `flow_settled` | 2 submissions, 2 workers, 2 tests, no faults | `IdleIsSettled`, liveness `AcceptedIsSettled` |
| `auth` | 2 threads, 1 name, 2 passwords, 2 accounts, 5 requests, 1 fault | `TypeOK`, `SessionLasts`, `LoginNeedsPassword`, `SessionHasAccount`, `RevokedIsRefused` |
| `actuator` | 2 judge tasks, all program kinds, inputs up to 2 chunks through pipes of 1, 1 kind of fault | `TypeOK`, `NoOrphan`, `DescriptorsReturned`, `OutputComplete`, `StatusIsTrue`, `ReadersAreFed`, `NobodyHangs`, `KillsItsChild` |
| `server` | 2 HTTP threads, 3 workers, 1 problem, limits of 3 sizes, 4 tables of tests, 3 hosts; 2 requests, edits and faults in all | `TypeOK`, `WaitingIsNewer`, `ResultsNameTheirTest`, `LimitsAsAsked`, `SurvivesUse`, `UsesAreLive`, `LimitsAreStored`, liveness `ExitEnds` |
| `dbpool_connected`, `dbpool_lock`, `flow_overtaken`, `flow_rebuilt`, `actuator_fds` | smallest instances | one statement of the code each, which the code does not keep (section 6) |

What they show, and with which exceptions stated in the properties themselves:

- The thread pool does what it should, in every interleaving.
- The database pool keeps connections exclusive *unless* a catch branch of `execute` has
  returned a worker early; then the common return frees the slot a second time. With the
  operations as they are no exception reaches those branches.
- The pipeline never applies a message twice and never stores a status that the judge did
  not find; without faults a message is lost in one way only, by overtaking. Two workers, one
  of them with the loop, cannot overtake: there nothing is lost, and whenever the pool is idle the tables
  hold a verdict and all results of every accepted submission.
- An `ACCEPT` in the table means that all tests of the problem were run and accepted.
  `COMPILATION_ERROR` means that the problem has no tests.
- `execute` reaps its child and closes its descriptors on every way out but two:
  a failing `createCgroupForProcess` leaves the child, a failing `fork` the descriptors.
  Nobody hangs if each input fits into a pipe; larger inputs may block a worker for ever.
- If a handler revoked tokens (none does), a token that was revoked would be refused, also when a login of the same second makes the same
  token active again, except in its last second. A session ends early only when it is
  replaced by another login or, with such a handler, when a revocation of any token of the user deletes its entry.
- A login is one to an account in the table, unless two registrations of the name were
  accepted. That rests on `queryUserNameExist` answering "no" for cached users, which also
  means that a login is refused while the cache has the account (900 s): see the
  mutated form `LoginExistsCached`.
- A program never runs under more memory or stack than was asked for its problem and
  language, and under exactly that as long as it is below 4 GiB; larger limits wrap.
- A stored result is that of the test it names *if* the tests of the problem are numbered
  1, 2, ... and were not replaced since they were read, also when the run stopped early or
  other results were refused.
- Unless the database fails a query or a connection is missing, which kills the process at once, it dies
  of four things: a submission for which there are no limits (`front()` of an
  empty result), a query of a status that has left the cache, two compilations at once
  before the path of g++ is known, and an exit that a task or the loop outlives.
- A limit that was answered 201, for a problem that exists and of a size that the column takes, is on its
  way, was lost with its message or its statement, or its problem has a limit that was asked for. Statements
  that are refused or overtake one another replace rows, but never leave none.
- Up to the return of `listen` every member exists when it is used, wherever the start
  fails. After it tasks may use members that are gone, but not the pool; and the
  process ends, because the loop sees the exit flag after a timeout at the latest.

### Bounds, and why they are enough

- *ThreadPool*: a lost wakeup needs a sleeper, a producer between unlock and notify,
  and another thread that takes the task; three workers and producers that are both
  callers and workers give all of these at once.
- *DbPool*: with three threads on one slot there are a holder, a waiter and a thief;
  one nested retry contains the double return. The four safety invariants are proved for any
  number of connections.
- *SubmissionFlow*: overtaking needs two free workers beside the loop; duplicates and
  order need two submissions; two faults are a loss followed by a crash, or a lost link and
  a failed publish. Two tests are enough for a verdict that is not the first bit of the mask.
- *Actuator*: descriptors are inherited between two tasks; `Cap` 1 with inputs of 0, 1 and
  2 are an empty, a full and an overfull pipe.
- *Auth*: the races are between two threads; 5 requests are enough to register, log in
  twice in one second, revoke and present the token again. `ExpireTime` 2 with two ticks
  a second makes truncated times to live differ from exact ones.
- *Server*: one budget, `MaxInputs`, bounds requests, changes by an administrator and faults of
  the connection together, and `MaxLate` those of a behaviour in which `listen` returns. Every
  hazard is one between two of them: two limits that overtake each other, a submission and limits or tests
  that are replaced meanwhile, two compilations, a submission and a query, a task and an exit.
  The limits are one that is exact, one that the column refuses and one that wraps. The
  instance has one language, which is compiled; the proofs are for any.

Every counter that is bounded for TLC only is a constant whose comment starts with "bound:".

### Fairness

- *ThreadPool*: weak fairness of each worker's next step, of the return of a task that is not
  `Endless`, of a notification that is due and of the destructor's steps: the
  scheduler runs every thread that can run. Nothing is assumed of callers or spurious wakeups.
- *DbPool*: weak fairness of each thread. Not of `WaitEnds`, so no thread is
  saved by the timeout of `wait_for`: `NoDeadlock` shows that none needs to be. The load is finite; under an
  endless one `acquire` may starve a thread, because it is not fair.
- *SubmissionFlow*: weak fairness of each worker and of a request that was begun. Faults
  and new requests need not happen.
- *Server*: weak fairness of the main thread, of the loop (whose `consume()` times out)
  and of each worker. Requests, `listen`'s return, faults and undefined behaviour need not happen.
- *Actuator* and *Auth* state no liveness. `NobodyHangs` says that until all judge tasks have ended
  one of them is not waiting, and `EveryStepForward` that a task has only so many steps
  to take: the two together are the end of every task, as soon as a thread that can run does.

Deadlock is checked in all runs but two. In `actuator` a judge task may hang by
design of the code (an input larger than a pipe; a failing `poll` or cgroup); in
`auth` the bounds on time and requests end a behaviour.

## 4. Proofs

| Theorem | Says |
|---|---|
| `ThreadPoolProofs!TypeCorrect`, `TasksAreKept`, `WakeupsAreKept`, `DestructorDrains` | `TypeOK`, `EachTaskOnce`, `NoLostWakeup`, `JoinedDrained` |
| `ThreadPoolProofs!NoTaskStarves`, `EveryStepForward` | with fewer endless tasks than workers, a queued task has a worker that will come to it, and the destructor never waits for one that sleeps; every step but a spurious wakeup brings a task, the destructor, a notification or a worker further |
| `ThreadPoolProofs!ImplementsExecutorSafety` | the pool's steps are steps of `Executor` or stutter |
| `DbPoolProofs!TypeCorrect`, `NoConnectionLost`, `ConnectionsAreExclusive`, `NoSleeperLeftBehind` | `TypeOK`, `NoSlotLost`, `Exclusive`, `NoSleepWhileFree` |
| `DbPoolProofs!NoDeadlock`, `EveryStepForward` | while an operation is not over some thread can go on, without a timeout; every step but the end of a wait lessens the sum of what the threads have left |
| `FlowProofs!VerdictOfRun`, `AcceptMeansAll` | what `setStatus` makes of the results of any run |
| `FlowProofs!TypeCorrect`, `VerdictsAreTrue` | `TypeOK`, `StoredStatusIsJudged` of the pipeline, for any number of workers, submissions, tests and faults |
| `FlowProofs!IdlePoolIsSettled` | `IdleIsSettled`: what an idle pool leaves in the tables |
| `FlowProofs!PoolGoesOn`, `EveryStepForward` | without faults a pool of two workers or more is idle or not stuck; every step that is not a fault moves a request, a task, a message or the loop forward, and none back |
| `FlowProofs!MessagesAccounted`, `TablesAreRecord`, `OnlyOvertakingLoses` | `EachMessageOnce`, the refinement `ImplementsRecord`, `LossIsOvertaking` |
| `ActuatorProofs!ActuatorTypes`, `ChildrenReaped`, `PipesClosed`, `OutputsComplete`, `StatusesTrue`, `WritersSucceed`, `KillsOwnChild` | `TypeOK`, `NoOrphan`, `DescriptorsReturned`, `OutputComplete`, `StatusIsTrue`, `ReadersAreFed`, `KillsItsChild`, for any number of judge tasks, lengths of input and output and capacity of a pipe |
| `ActuatorProofs!NoTaskHangs`, `EveryStepForward` | `NobodyHangs`; every step lessens, by one at least, what its task has left, which is at most 13 + 2 * `MaxInput` + 2 * `Output` steps a run, and no other task's |
| `ProblemsProofs!LimitsCorrect`, `WaitingCorrect`, `StoredCorrect` | `LimitsAsAsked`, `WaitingIsNewer`, `LimitsAreStored`, for any limits, word size, threads, workers, problems and languages |
| `ResultProofs!ResultsCorrect` | `ResultsNameTheirTest`, for test tables of any length and numbering |
| `ServerProofs!ServerIsProblems`, with `ServerLimits`, `ServerWaiting`, `ServerResults`, `ServerStored` | the server implements `Problems`, so the above hold of it |
| `AuthProofs!AuthTypes`, `PasswordNeeded`, `LoginsHaveAccounts`, `SessionsLast`, `RevokedStaysOut` | `TypeOK`, `LoginNeedsPassword`, `SessionHasAccount`, `SessionLasts`, `RevokedIsRefused`, for any unit of time, expiry, threads, users and passwords |
| `ServerProofs!ServerTypes`, `ServerUses`, `ServerSurvives` | `TypeOK`, `UsesAreLive`, `SurvivesUse` |
| `ServerProofs!ExitIsBounded` | once `listen` has returned or the start has failed, somebody can go on until the pool is joined, and every step leaves less to do |

They hold for every value of the constants that satisfies the assumptions of
the modules: finite sets of workers and callers that do not overlap, at least
one worker, at least one connection, natural numbers as bounds.

*Thread pool.* `NoLostWakeup` is not inductive alone. `PoolInv` adds that after
`notify_all` nobody waits, that a worker returns only from an empty queue with `stop` set,
and that a worker that is about to notify is inside its task. The counting argument:
a step that makes the queue longer adds its thread to `notifying`; one that removes a
thread from `notifying` moves a sleeper to the ready workers or finds none. `NoTaskStarves` is
the pigeonhole principle on top of it: if a task is queued and no notification is due or worker ready, then
nobody sleeps, so all workers run tasks, different ones (`EachTaskOnce`), and one of these is not endless.
Its hypothesis is one on the load: the server has one endless task, the subscriber loop, and so needs two workers.

*Database pool.* `LeaseInv` says that each thread that is in possession has one slot, which
is marked busy, and that no two have the same, until a catch branch returns early.
`NoSlotLost` and `NoSleepWhileFree` do not need that exception: they hold for double returns too.
`NoSlotLost` says that a busy slot is that of the *innermost* call of its thread, which is not waiting: `execute`
returns its worker before it retries. So when all threads sleep with the mutex free, either a slot is available
and somebody is on the way to it, or all are busy and their users are at work: `NoDeadlock`. `Left` counts
what a thread has still to do, level by level of the retries (`RunLeft`) and place by place (`Rank`); a
return that wakes a sleeper moves one unit to it and loses more itself. Only `WaitEnds`, a wait that ends in
vain, puts a thread back to where it came from.

*Verdict.* Before the last result of a run all are `ACCEPTED`, so the mask has at most one
other bit, and the order in which `setStatus` looks at the bits does not matter. Without the
`break` in the loop it would.

*Pipeline.* `StoredStatusIsJudged` speaks of the row alone, but the verdict passes
through an outbox, the socket, the queue and a worker, each of which may keep it
while its judge task is long gone. `FlowInv` therefore says that every message, wherever
it is, tells what was found (`MessagesTruthful`), and that what was found is not
found again: a submission has one judge task (`OneJudgeTask`), which has found
nothing until it reports (`NotYetJudged`). So a step that finds something leaves all other
messages true (`TruthfulKept`), and lost, overtaken and cut-off messages only leave
a row where it was. What was found is a run (`FoundByRun`), to which `AcceptMeansAll` applies.
`FlowInv` was checked by TLC on two workers, two submissions and two tests before it was proved.

*Messages.* `EachMessageOnce` needs what is not published yet: `Unpublished` says that the INSERT
of a submission is not published before its request comes, and that an outbox holds no
message twice and none that was published; two outboxes belong to two submissions
(`OneJudgeTask`). So a publish always brings something new, and every other step moves a message from one place
to the next (`Accounted`, `Apart`). For the refinement, `Exact` says that a message is one of
those that the results call for, and `Booked` that what a table holds was applied:
a message that would overwrite it has been applied already, and so is not on its way. For
`LossIsOvertaking`, `InsertsFirst` says that neither channel nor queue brings a message ahead
of the INSERT it needs, and that a started one has left no such INSERT behind. What is missing when a
statement finds no row is then on another worker.

*Idle pool.* A statement that is lost to overtaking, the INSERT that it overtakes and the loop
(`LoopRuns`) are on three workers, so two workers lose nothing (`NoneLost`). For any number of them,
a submission that is accepted is `Underway`: its row is announced or in the table, its judge task waits
or runs, or it has reported and what its run calls for is applied, on its way or lost (`InTables`, with `Exact`
and `Booked` from above). An idle pool has nothing on its way, so what is not lost is in the tables.
And it becomes idle: the loop never takes the last worker (`PoolGoesOn`), and `Ahead` counts by nine sets how
far requests, judge tasks, messages and the loop have come. A publish is always of something new (`Unpublished`),
what leaves socket or queue is there once (`Apart`) and was not executed before (`Accounted`), so each step
makes one of the sets larger, and none ever becomes smaller without a fault.

*Actuator.* `Local` is about one judge task: `Stages` what `execute` knows of its child, `Pipes` which
ends of its pipes the server and the child still hold, `Deaths` how a child can have ended,
`Returns` what is returned. Judge tasks share only the descriptors of the server, and none closes
what is not its own, so a step of one leaves `Local` of the others alone (`OthersSame`). That children
inherit descriptors of other tasks delays ends of file, and could block two tasks on each other's children.
It does not: if inputs fit into a pipe, a task waits only while it drains the outputs of a child
that is reaped already, for a pipe end that the child of another task inherited (`WaitsForOther`).
That child is alive, so its task still watches it, and a task that watches never waits
(`HoldersGoOn`). `Left` counts what a task has still to do: the ranks of its stage and its child
(`StageRank`, `ChildRank`), the chunks to write, to make and to read.

*Problems.* The number that a limit gets when it is asked for travels with it. `AskedInv` says
that wherever it is (channel, queue, worker, row, job) the value beside it is the 32-bit value of
what was asked under that number; the arithmetic of `LimitsAsAsked` is then that of one
conversion and one product modulo `Word`. `OrderInv` says that the numbers in queue and channel
increase and that those held by workers and rows are smaller than all of them.
`SubmittedInv`: a submission that came when there were limits belongs to a problem that has
some, because no statement deletes a row; with it `SurvivesUse` follows every step that kills
the process without the database's help. For `LimitsAreStored`, `StoredInv` says that problems do not go away,
and that a limit either waits (channel, queue, worker), is lost or has been executed; one that was executed has
left a row, and what replaces that row later is a limit that was asked for as well.

*Results.* A task that has read tests that are numbered 1, 2, ... has them in an order in which the numbers do not
decrease. Such an order is the one of the numbers: otherwise there is a least
position out of place (well-founded induction on the naturals, `MonotoneIsIdentity`), and the number
that belongs there would have to come later. So the result `idx` is that of the
test with the number `idx`, and `ResultInv` carries this through messages and tasks as long as the
tests have not been replaced; `EditsGrow` says that a replacement never has an old number.

*Server.* A step of the server is a step of `Problems` or leaves its variables alone. `LifeInv` says
which members exist in each phase of `main`, and that nothing runs before `listen` or is left
when the pool is gone. For `ExitIsBounded`, the measures are lexicographic: the members and `main`, the loop
(`LoopLeft`), the length of the queue, and the steps of the task of each worker (`WorkLeft`). A queue becomes longer
only by a message that the loop delivers, and at exit each step of the loop brings it closer to its end, because it tests the flag.

*Auth.* `Holds` says what a request knows of its token: a token that was revoked when the
request came is in its last second by the time `verifyToken` looks for its active entry, and the
whole seconds that `invalidateToken` counts are less than one short (`LeftOver`). `Keys` says
how long entries live: an active one as long as its token, a blacklist entry until the last
second of its token at least, so that dropping it lets nobody in earlier. `Registered` numbers the accounts,
which makes the account of a login unique; `LoggedIn` then gives `SessionHasAccount`. The one assumption beside
those on time and bounds is that `None` is not a stored value.

Only model-checked: liveness under fairness (`EveryTaskEnds`, `DestructorReturns`, `EveryOpEnds`,
`AcceptedIsSettled`, `ExitEnds`, the fairness part of `ImplementsExecutor`). Every other property of a
passing run is a theorem. What liveness rests on besides fairness is proved for `ThreadPool`, `DbPool`, `SubmissionFlow`, `Actuator` and
the exit of `Server`: somebody can always go on, and not for ever. That a step
can be taken is stated by its guard there, as `ENABLED` is out of the provers' reach.

## 5. Abstractions

- A statement is atomic, and an operation of the database fails as a whole.
- Cache entries of accounts and of submissions lapse at any time.
- The row of a submission and the loss of its messages are `SubmissionFlow`'s, where the tests
  of a problem are numbered from 1; limits, the numbering of tests and deaths of the
  process are `Problems`'. There a publish does not fail and a message is lost only while nobody is
  subscribed; what was sent then is dropped when the new subscriber is.
- `addProblemLimit` is one step: what it sets in Redis is read by nobody.
- The loop's return from `consume()` and its look at the exit flag are one step.
- The database refuses what does not fit a column (MySQL's strict mode). The times
  of a limit are converted as memory and stack are, and are left out.
- The output of a program that prints nothing is read with `back()` of an empty string
  (`Judger.cpp:47`), which in the builds of this repository reads a zero byte: no step of its own.
- `Judge` is one step: the time it takes is the time before it.
- Failing calls to Redis end the request that made them. A failing query ends
  the process (`DbPool`, `Problems`), so `Auth` has no such step.
- stdout and stderr are one stream. The contents of limits, seccomp policy and
  namespaces are left out.
- Tokens cannot be forged, and passwords match only themselves.

## 6. Where the code does not do what it says

1. `acquire` hands out a worker without a connection after MAX_RECONNECT
   failures (`DbPool.cpp:57`): `AcquiredIsConnected`.
2. The retry of lock errors in `DbManager::execute` is never reached
   (`DbManager.cpp:35-42`): `LockErrorIsRetried`.
3. The UPDATE of a verdict may overtake the INSERT of its submission, which then stays
   PENDING (`Application.cpp:156`): `AcceptedIsSettled` with three workers.
4. A rebuilt subscriber has no callback (`Application.cpp:117-119`): `ConsumerListens`.
5. A child executes its program with the pipe ends of other judge tasks
   (`Actuator.cpp:234-237`): `ChildHoldsItsOwn`.

Met while modelling; properties of section 3 name these where they except them: a query that fails for any reason, or a
connection that is missing, ends the process with everything that is queued (`DbQueryOp.cpp:30-37`); `querySubmission` selects by `submission_id`, a column that `submissions` does
not have (`SubmissionService.cpp:55`); the first submission for a problem or a language
without limits ends the process (`Application.cpp:211`); `getProblemList` looks up the token itself
as a key, which no key is, and so always answers 401; integers are bound with `setInt(get<int>())`, so
that limits of 2^31 kB and more are refused and `setUInt` is never reached (`DbOperation.cpp:62-67`);
`checkFileReadable` and `checkFileWritable` look at the bits of the owner, whoever the server runs as.
Without a property: the answers "Create problems successfully" (`ProblemService.cpp:51`) and "upload test cases
successfully" (line 121), both 201, are untrue: the two INSERTs (lines 42-44 and 108-113) are not valid SQL, so the database
refuses them whatever happens, and `StoreProblem` and `StoreTestCase` say just that. Problems and test cases come from an
administrator only. In the interface of `TokenManager`, which has no caller: a refresh in the second of the login returns
the token that it has just blacklisted; two concurrent refreshes of one token may both
succeed, the second ending the session of the first. Compile errors are judged as
runtime errors, and `COMPILATION_ERROR` is the verdict of a problem without tests (`Judger.cpp:38`).

What the properties except they do not guard against. Those exceptions are the code's own defects, and a repair
should come with a stronger property: the second `returnWorker` after a caught exception (`Exclusive`), the child that a
failing `createCgroupForProcess` leaves (`NoOrphan`), the descriptors that a failing `fork` leaves (`DescriptorsReturned`), inputs
that do not fit into a pipe (`NobodyHangs`, and with it the judge tasks that every fairness assumption takes to end), crashes on a
null result (`EveryOpEnds`, `SurvivesUse`), and what runs after `listen` has returned (`UsesAreLive`).

## 7. Not modelled

- `Core::Queue`: a template that nothing in the program instantiates.
- The HTTP interface beyond the threads, the catch branches and the services it calls; requests
  are authenticated (`Auth` has that part) and well-formed, as any other is answered and changes nothing.
- The compilation itself, boost::process and its pipes: one step with one result.
- The file writer, configuration, logging, conversions to JSON but those of limits, and the
  exception types: wording and I/O without a state that a property is about.
- The contents of the seccomp policy and namespaces, and processes that a program leaves behind in its cgroup.
- The vendored libraries. What the server relies on of Redis, MySQL and the
  kernel is part of the modules that use it and is marked external in the map.
