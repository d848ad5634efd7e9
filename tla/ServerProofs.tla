---------------------------- MODULE ServerProofs ----------------------------
(***************************************************************************)
(* Proofs about Server, for every number of threads and workers and for    *)
(* every problem, language and limit.  A step of the server is a step of   *)
(* Problems or leaves its variables alone, so that what ProblemsProofs     *)
(* proves holds of the server too.  LifeInv is the rest: how far the main  *)
(* thread is determines which members exist and whether anything runs.     *)
(* Last, the exit: somebody can always go on, and only so long.            *)
(***************************************************************************)
EXTENDS Server, ResultProofs

(* A step of the server is one of Problems. *)
LEMMA StepIsProblems ==
    [Next]_vars => [ProblemsNext]_problemVars
<1>. SUFFICES ASSUME Next, UNCHANGED problemVars => FALSE
              PROVE  ProblemsNext
  BY DEF vars
<1>1. alive
  BY DEF Next, Over, vars
<1>2. ASSUME NEW h \in Threads, HttpStep(h) PROVE ProblemsNext
  BY <1>1, <1>2 DEF HttpStep, ProblemsNext
<1>3. ASSUME NEW w \in Workers, WorkerStep(w) PROVE ProblemsNext
  BY <1>1, <1>3 DEF WorkerStep, ProblemsNext
<1>4. CASE LoopStep \/ LoopFault
  BY <1>1, <1>4 DEF LoopStep, LoopFault, ProblemsNext, ChannelStep
<1>5. CASE Undefined
  BY <1>1, <1>5 DEF Undefined, ProblemsNext
<1>6. CASE MainStep \/ Stops
  BY <1>6 DEF MainStep, Stops
<1>7. CASE Outside
  BY <1>1, <1>7 DEF Outside, ProblemsNext
<1>. QED BY <1>2, <1>3, <1>4, <1>5, <1>6, <1>7 DEF Next, Over, vars

(* The server implements the specification of its problems alone. *)
THEOREM ServerIsProblems == Spec => ProblemsSpec
<1>1. Init => ProblemsInit
  BY DEF Init
<1>. QED BY <1>1, StepIsProblems, PTL DEF Spec, ProblemsSpec

(* WaitingIsNewer, for the server. *)
THEOREM ServerWaiting == Spec => []WaitingIsNewer
BY ServerIsProblems, WaitingCorrect, PTL

(* LimitsAsAsked, for the server. *)
THEOREM ServerLimits == Spec => []LimitsAsAsked
BY ServerIsProblems, LimitsCorrect, PTL

(* ResultsNameTheirTest, for the server. *)
THEOREM ServerResults == Spec => []ResultsNameTheirTest
BY ServerIsProblems, ResultsCorrect, PTL

(* LimitsAreStored, for the server. *)
THEOREM ServerStored == Spec => []LimitsAreStored
BY ServerIsProblems, StoredCorrect, PTL

-----------------------------------------------------------------------------
(* The steps of the server by what they do to the life of it. *)
LEMMA LifeSteps ==
    ASSUME [Next]_vars
    PROVE  \/ UNCHANGED vars
           \/ phase = "listening" /\ UNCHANGED lifeVars
           \/ \E w \in Workers : WorkerStep(w)
           \/ LoopStep \/ LoopFault \/ Undefined \/ MainStep \/ Stops
BY DEF Next, Over, HttpStep, Outside

(* Each step of the main thread and of the loop preserves its types. *)
LEMMA LifeTypesStep ==
    ASSUME LifeTypes, [Next]_vars
    PROVE  LifeTypes'
<1>. USE DEF LifeTypes
<1>1. CASE UNCHANGED lifeVars
  BY <1>1 DEF lifeVars
<1>2. CASE LoopStep \/ LoopFault
  <2>1. LoopStart \/ LoopTimesOut \/ LoopConsumes \/ LoopResubscribes \/ LoopClosed \/ LoopError
    BY <1>2 DEF LoopStep, LoopFault
  <2>2. /\ UNCHANGED <<phase, members, shouldExit>>
        /\ loop' \in {"consuming", "sleeping", "ended"}
        /\ callback' = callback \/ callback' = FALSE
        /\ faults' = faults \/ faults' = faults + 1
    BY <2>1 DEF LoopStart, LoopTimesOut, LoopConsumes, LoopResubscribes, LoopClosed,
                LoopError, LoopGoes, AfterTest, Fault
  <2>3. shouldExit' \in BOOLEAN /\ callback' \in BOOLEAN
    BY <2>2, Zenon
  <2>4. faults' \in Nat
    BY <2>2
  <2>. QED BY <2>2, <2>3, <2>4
<1>3. ASSUME NEW m \in Members, Build(m) \/ Destroy(m) PROVE LifeTypes'
  BY <1>3 DEF Build, Destroy
<1>4. CASE InitSystem \/ Listen \/ StopPool \/ JoinPool \/ BuildFails \/ ListenReturns
  BY <1>4 DEF InitSystem, Listen, StopPool, JoinPool, BuildFails, ListenReturns
<1>. QED BY <1>1, <1>2, <1>3, <1>4, LifeSteps DEF vars, WorkerStep, Undefined, MainStep, Stops

(* TypeOK, for every instance. *)
THEOREM ServerTypes == Spec => []TypeOK
<1>1. Init => LifeTypes
  <2>1. ASSUME Init PROVE shouldExit \in BOOLEAN /\ callback \in BOOLEAN
    BY <2>1, Zenon DEF Init, LifecycleInit
  <2>2. ASSUME Init PROVE faults \in Nat /\ members \subseteq Members
    BY <2>2 DEF Init, LifecycleInit
  <2>. QED BY <2>1, <2>2 DEF Init, LifecycleInit, LifeTypes
<1>2. LifeTypes /\ [Next]_vars => LifeTypes'
  BY LifeTypesStep
<1>3. ProblemTypes /\ LifeTypes => TypeOK
  BY DEF TypeOK
<1>. QED BY <1>1, <1>2, <1>3, ServerIsProblems, ProblemTypesCorrect, PTL DEF Spec

-----------------------------------------------------------------------------
(* What the main thread has done says which members there are and whether  *)
(* the pool can have anything to do.                                       *)
LifeInv ==
    /\ phase \in {"built", "ready", "listening"} => members = Members
    /\ phase \in {"building", "built", "ready"} => loop = "none" /\ Drained /\ ~shouldExit
    /\ phase = "listening" => ~shouldExit
    /\ phase = "listening" \/ shouldExit => loop # "none"
    /\ phase \in {"leaving", "joining", "gone"} /\ ~shouldExit => loop = "none" /\ Drained
    /\ phase # "listening" => \A h \in Threads : req[h] = Idle
    /\ phase \in {"leaving", "joining"} /\ shouldExit => "pool" \in members
    /\ phase = "gone" => loop \in {"none", "ended"} /\ Drained

(* LifeInv holds at first. *)
LEMMA LifeInvInit == Init => LifeInv
BY DEF Init, ProblemsInit, LifecycleInit, LifeInv, Drained

(* A worker with nothing to do takes no step. *)
LEMMA DrainedRests ==
    ASSUME Drained, NEW w \in Workers, TaskStep(w)
    PROVE  FALSE
<1>1. queue = <<>> /\ running[w] = NoTask /\ NoTask.op = "none"
  BY DEF Drained, NoTask, Task
<1>. QED BY <1>1 DEF TaskStep, Start, Execute, ExecuteNull, TaskFails, QueryStep, QueryTests,
                    QueryLimits, QueryNoLimits, QueryFails, CompileStep, Compile, Assigned, CompileRaces, Run,
                    PublishResult, Judging

(* Tasks leave the requests alone. *)
LEMMA TaskKeepsRequests ==
    ASSUME NEW w \in Workers, TaskStep(w)
    PROVE  req' = req
BY DEF TaskStep, Start, Execute, ExecuteNull, TaskFails, QueryStep, QueryTests, QueryLimits,
       QueryNoLimits, QueryFails, DatabaseKills, CompileStep, Compile, Assigned, CompileRaces, Run, PublishResult

(* Every step preserves LifeInv. *)
LEMMA LifeInvStep ==
    ASSUME LifeTypes, LifeInv, [Next]_vars
    PROVE  LifeInv'
<1>1. ASSUME UNCHANGED problemVars
      PROVE  (Drained' <=> Drained) /\ req' = req
  BY <1>1 DEF problemVars, pool, Drained
<1>2. CASE UNCHANGED vars
  BY <1>1, <1>2 DEF vars, lifeVars, LifeInv
<1>3. CASE phase = "listening" /\ UNCHANGED lifeVars
  BY <1>3 DEF LifeInv, lifeVars
<1>4. ASSUME NEW w \in Workers, WorkerStep(w) PROVE LifeInv'
  <2>1. UNCHANGED lifeVars /\ loop # "none" /\ TaskStep(w) /\ ~Drained
    BY <1>4, DrainedRests DEF WorkerStep, Working
  <2>2. req' = req
    BY <2>1, TaskKeepsRequests
  <2>. QED BY <2>1, <2>2 DEF LifeInv, lifeVars
<1>5. CASE LoopStep \/ LoopFault
  <2>1. /\ loop \in {"queued", "consuming", "sleeping"} /\ loop' # "none"
        /\ UNCHANGED <<phase, members, shouldExit, req>>
    <3>1. LoopStart \/ LoopTimesOut \/ LoopConsumes \/ LoopResubscribes \/ LoopClosed \/ LoopError
      BY <1>5 DEF LoopStep, LoopFault
    <3>2. req' = req
      BY <1>5, <1>1 DEF LoopStep, LoopFault, Deliver, Drop, Unheard
    <3>. QED BY <3>1, <3>2 DEF LoopStart, LoopTimesOut, LoopConsumes, LoopResubscribes, LoopClosed,
                              LoopError, LoopGoes, AfterTest
  <2>. QED BY <2>1 DEF LifeInv
<1>6. CASE Undefined
  BY <1>6 DEF Undefined, Perish, pool, LifeInv, lifeVars, Drained
<1>7. ASSUME NEW m \in Members, Build(m), UNCHANGED problemVars PROVE LifeInv'
  BY <1>1, <1>7 DEF Build, LifeInv
<1>8. ASSUME NEW m \in Members, Destroy(m), UNCHANGED problemVars PROVE LifeInv'
  BY <1>1, <1>8 DEF Destroy, LifeInv
<1>9. CASE InitSystem /\ UNCHANGED problemVars
  BY <1>1, <1>9 DEF InitSystem, LifeInv
<1>10. CASE Listen /\ UNCHANGED problemVars
  BY <1>1, <1>10 DEF Listen, LifeInv
<1>11. CASE StopPool /\ UNCHANGED problemVars
  BY <1>1, <1>11 DEF StopPool, LifeInv
<1>12. CASE JoinPool /\ Drained /\ UNCHANGED problemVars
  BY <1>1, <1>12 DEF JoinPool, LifeInv
<1>13. CASE BuildFails /\ UNCHANGED problemVars
  BY <1>1, <1>13 DEF BuildFails, LifeInv
<1>14. CASE ListenReturns /\ (\A h \in Threads : req[h] = Idle) /\ UNCHANGED problemVars
  <2>1. "pool" \in Members
    BY DEF Members
  <2>. QED BY <1>1, <1>14, <2>1 DEF ListenReturns, LifeInv
<1>. QED BY <1>2, <1>3, <1>4, <1>5, <1>6, <1>7, <1>8, <1>9, <1>10, <1>11, <1>12, <1>13, <1>14,
            LifeSteps DEF MainStep, Stops

(* A member is built after those that its construction uses. *)
LEMMA BuiltInOrder ==
    ASSUME NEW m \in Members, IsNext(m)
    PROVE  Needs(m) \subseteq members
<1>1. PICK i \in 1..6 : BuildOrder[i] = m /\ \A j \in 1..(i - 1) : BuildOrder[j] \in members
  BY DEF IsNext, BuildOrder
<1>2. m # "config" => "config" \in members
  <2>1. m # "config" => 1 \in 1..(i - 1) /\ BuildOrder[1] = "config"
    BY <1>1 DEF BuildOrder
  <2>. QED BY <1>1, <2>1
<1>3. m = "subscriber" => "redis" \in members
  <2>1. m = "subscriber" => 4 \in 1..(i - 1) /\ BuildOrder[4] = "redis"
    BY <1>1 DEF BuildOrder
  <2>. QED BY <1>1, <2>1
<1>. QED BY <1>2, <1>3 DEF Needs

(* LifeInv implies UsesAreLive. *)
LEMMA LifeIsSafe ==
    ASSUME LifeTypes, LifeInv
    PROVE  UsesAreLive
<1>1. ASSUME ~shouldExit, ~Drained \/ loop # "none" PROVE members = Members
  BY <1>1 DEF LifeTypes, LifeInv
<1>2. ASSUME ~shouldExit PROVE LoopUses \subseteq members
  BY <1>1, <1>2 DEF LoopUses, Members
<1>3. ASSUME ~shouldExit, NEW w \in Workers PROVE WorkerUses(w) \subseteq members
  <2>1. CASE running[w] = NoTask
    <3>1. running[w].op = "none"
      BY <2>1 DEF NoTask, Task
    <3>. QED BY <3>1 DEF WorkerUses, Judging
  <2>2. CASE running[w] # NoTask
    <3>1. members = Members
      BY <1>1, <1>3, <2>2 DEF Drained
    <3>. QED BY <3>1 DEF WorkerUses, Members
  <2>. QED BY <2>1, <2>2
<1>4. ASSUME NEW h \in Threads, req[h] # Idle PROVE members = Members
  BY <1>4 DEF LifeInv
<1>5. ~Drained \/ loop \in {"queued", "consuming", "sleeping"} => "pool" \in members
  <2>1. "pool" \in Members
    BY DEF Members
  <2>. QED BY <2>1 DEF LifeTypes, LifeInv
<1>. QED BY <1>2, <1>3, <1>4, <1>5, BuiltInOrder DEF UsesAreLive

(* UsesAreLive, for every instance: until listen returns nothing uses a    *)
(* member that is not there, and nothing ever outlives the pool.           *)
THEOREM ServerUses == Spec => []UsesAreLive
<1>1. Init => LifeInv
  BY LifeInvInit
<1>2. TypeOK /\ LifeInv /\ [Next]_vars => LifeInv'
  BY LifeInvStep DEF TypeOK
<1>3. TypeOK /\ LifeInv => UsesAreLive
  BY LifeIsSafe DEF TypeOK
<1>. QED BY <1>1, <1>2, <1>3, ServerTypes, PTL DEF Spec
-----------------------------------------------------------------------------
(* What the process can die of besides the database, as a step sees it. *)
Blame == \/ \E i \in 1..Len(submitted) : ~submitted[i].ready
         \/ blind
         \/ gcc = "assigning" /\ \E w \in Workers : Judging(w, "compile")
         \/ shouldExit /\ (loop # "ended" \/ ~Drained)

(* Blame is a function of these variables. *)
LEMMA BlameStays ==
    ASSUME Blame, UNCHANGED <<submitted, blind, gcc, running, job, queue, shouldExit, loop>>
    PROVE  Blame'
BY DEF Blame, Judging, Drained

(* Unless of the database, a task dies without limits, or in a race for    *)
(* the compiler.                                                           *)
LEMMA TaskDeaths ==
    ASSUME ProblemTypes, SubmittedInv, NEW w \in Workers, TaskStep(w), alive, ~alive', ~outage'
    PROVE  /\ UNCHANGED <<submitted, blind, gcc, running, job, queue>>
           /\ \/ \E i \in 1..Len(submitted) : ~submitted[i].ready
              \/ gcc = "assigning" /\ Judging(w, "compile")
<1>1. QueryNoLimits(w) \/ CompileRaces(w)
  BY DEF TaskStep, Start, Execute, ExecuteNull, TaskFails, QueryStep, QueryTests, QueryLimits,
         QueryFails, DatabaseKills, CompileStep, Compile, Assigned, Run, PublishResult
<1>2. CASE QueryNoLimits(w)
  <2>. DEFINE i == running[w].sub
  <2>1. /\ running[w].op = "judge" /\ limits[<<running[w].title, running[w].lang>>] = NoRow
        /\ UNCHANGED <<submitted, blind, gcc, running, job, queue>>
    BY <1>2 DEF QueryNoLimits, Judging, pool, books, story
  <2>2. /\ i \in 1..Len(submitted)
        /\ submitted[i].title = running[w].title /\ submitted[i].lang = running[w].lang
    BY <2>1 DEF SubmittedInv, Knows
  <2>3. ~submitted[i].ready
    BY <2>1, <2>2 DEF SubmittedInv
  <2>. QED BY <2>1, <2>2, <2>3
<1>3. CASE CompileRaces(w)
  BY <1>3 DEF CompileRaces, books, story
<1>. QED BY <1>1, <1>2, <1>3

(* A step that uses what is gone, which happens at exit only.              *)
LEMMA ExitDeaths ==
    ASSUME UsesAreLive, alive, Undefined
    PROVE  shouldExit /\ (loop # "ended" \/ ~Drained)
<1>1. shouldExit
  BY DEF Undefined, UsesAreLive
<1>2. CASE ~(LoopUses \subseteq members)
  BY <1>1, <1>2 DEF LoopUses
<1>3. ASSUME NEW w \in Workers, ~(WorkerUses(w) \subseteq members) PROVE ~Drained
  <2>1. running[w].op # "none"
    BY <1>3 DEF WorkerUses, Judging
  <2>2. running[w] # NoTask
    BY <2>1 DEF NoTask, Task
  <2>. QED BY <2>2 DEF Drained
<1>. QED BY <1>1, <1>2, <1>3 DEF Undefined

(* Every step preserves SurvivesUse. *)
LEMMA SurvivesStep ==
    ASSUME ProblemTypes, SubmittedInv, UsesAreLive, SurvivesUse, [Next]_vars
    PROVE  SurvivesUse'
<1>. SUFFICES ASSUME ~alive', ~outage' PROVE Blame'
  BY DEF SurvivesUse, Blame
<1>1. CASE UNCHANGED vars
  <2>1. Blame
    BY <1>1 DEF SurvivesUse, Blame, vars, problemVars, books
  <2>. QED BY <1>1, <2>1, BlameStays DEF vars, problemVars, lifeVars, pool, books, story
<1>2. CASE Over
  <2>1. UNCHANGED vars
    BY <1>2 DEF Over
  <2>. QED BY <1>1, <2>1
<1>3. ASSUME alive, NEW h \in Threads, HttpStep(h) PROVE Blame'
  <2>1. SelectStatus(h)
    BY <1>3 DEF HttpStep, RequestStep, CreateProblem, UploadTestCases, Submit, AddProblemLimit,
                QuerySubmission, CreatePublish, SubmitEnqueue, RequestFails, LookupFails, DatabaseKills
  <2>2. blind /\ blind' = blind
    BY <2>1 DEF SelectStatus, SubmittedInv, books, story
  <2>. QED BY <2>2 DEF Blame
<1>4. ASSUME alive, NEW w \in Workers, WorkerStep(w) PROVE Blame'
  <2>1. TaskStep(w) /\ UNCHANGED lifeVars
    BY <1>4 DEF WorkerStep
  <2>2. Blame /\ UNCHANGED <<submitted, blind, gcc, running, job, queue>>
    BY <1>4, <2>1, TaskDeaths DEF Blame
  <2>. QED BY <2>1, <2>2, BlameStays DEF lifeVars
<1>5. ASSUME alive, Undefined PROVE Blame'
  <2>1. Blame
    BY <1>5, ExitDeaths DEF Blame
  <2>. QED BY <1>5, <2>1, BlameStays DEF Undefined, Perish, lifeVars, pool, books, story
<1>6. ASSUME alive, LoopStep \/ LoopFault \/ MainStep \/ Stops \/ Outside PROVE FALSE
  <2>1. alive' = alive
    BY <1>6 DEF LoopStep, LoopFault, MainStep, Stops, Outside, OutsideStep, Deliver, Drop, Unheard,
                Lapse, EditTests, problemVars
  <2>. QED BY <1>6, <2>1
<1>. QED BY <1>1, <1>2, <1>3, <1>4, <1>5, <1>6 DEF Next

(* SurvivesUse, for every instance. *)
THEOREM ServerSurvives == Spec => []SurvivesUse
<1>1. Init => SurvivesUse /\ SubmittedInv
  BY SubmittedInit DEF Init, ProblemsInit, SurvivesUse
<1>2. TypeOK /\ SubmittedInv /\ [Next]_vars => SubmittedInv'
  BY SubmittedStep, StepIsProblems DEF TypeOK
<1>3. TypeOK /\ SubmittedInv /\ UsesAreLive /\ SurvivesUse /\ [Next]_vars => SurvivesUse'
  BY SurvivesStep DEF TypeOK
<1>. QED BY <1>1, <1>2, <1>3, ServerTypes, ServerUses, PTL DEF Spec

-----------------------------------------------------------------------------
(* The exit.                                                               *)

(* listen has returned, or the start has failed. *)
Leaving == alive /\ phase \in {"leaving", "joining"}

(* main has a member to destroy or can join the pool, the loop can test    *)
(* the flag, or a worker has a task.                                       *)
ExitGoesOn ==
    Leaving =>
       \/ /\ phase = "leaving"
          /\ \/ members \subseteq {"pool"}
             \/ \E i \in DOMAIN MemberOrder :
                   /\ MemberOrder[i] \in members \ {"pool"}
                   /\ \A j \in DOMAIN MemberOrder : MemberOrder[j] \in members => j <= i
       \/ phase = "joining" /\ loop \in {"none", "ended"} /\ Drained
       \/ loop \in {"queued", "consuming", "sleeping"}
       \/ \E w \in Workers : Working(w) /\ (running[w] # NoTask \/ queue # <<>>)

(* The steps of a judge task, and its tests. *)
Steps(at) == CASE at = "none"    -> 6
               [] at = "limits"  -> 5
               [] at = "compile" -> 4
               [] at = "assign"  -> 3
               [] at = "run"     -> 2
               [] at = "publish" -> 1

TestsLeft(w) == IF job[w].at = "none" THEN Len(tests[running[w].title].seqs)
                ELSE IF job[w].at = "publish" THEN job[w].last - job[w].next
                ELSE Len(job[w].tests.order)

(* What is left of the task of a worker, of the loop and of main.          *)
WorkLeft(w) == IF running[w].op = "judge" THEN Steps(job[w].at) + TestsLeft(w)
               ELSE IF running[w] = NoTask THEN 0 ELSE 1

LoopLeft == IF loop = "queued" THEN 3 ELSE IF loop = "consuming" THEN 2
            ELSE IF loop = "sleeping" THEN 1 ELSE 0

MainLeft == IF phase = "leaving" THEN 2 ELSE IF phase = "joining" THEN 1 ELSE 0

(* Worker w has less to do, and no other one more.                         *)
Lessens(w) == /\ WorkLeft(w)' < WorkLeft(w)
              /\ \A v \in Workers \ {w} : WorkLeft(v)' = WorkLeft(v)

(* main and the loop have only so much to do; while they do nothing the    *)
(* queue only becomes shorter; and while it does not, each task has only   *)
(* so many steps left.  Or the process dies.                               *)
Onward ==
    \/ ~alive'
    \/ /\ members' \subseteq members /\ MainLeft' <= MainLeft
       /\ members' # members \/ MainLeft' < MainLeft
       /\ UNCHANGED <<loop, queue>>
       /\ \A w \in Workers : WorkLeft(w)' = WorkLeft(w)
    \/ /\ UNCHANGED <<members, phase>> /\ LoopLeft' < LoopLeft
       /\ Len(queue') <= Len(queue) + 1
       /\ \A w \in Workers : WorkLeft(w)' = WorkLeft(w)
    \/ UNCHANGED <<members, phase, loop>> /\ Len(queue') < Len(queue)
    \/ UNCHANGED <<members, phase, loop, queue>> /\ \E w \in Workers : Lessens(w)

LEMMA StepsValues ==
    /\ Steps("none") = 6 /\ Steps("limits") = 5 /\ Steps("compile") = 4
    /\ Steps("assign") = 3 /\ Steps("run") = 2 /\ Steps("publish") = 1
BY Zenon DEF Steps

(* A task is not over as long as it runs. *)
LEMMA WorkLeftNat ==
    ASSUME ProblemTypes, NEW w \in Workers
    PROVE  WorkLeft(w) \in Nat /\ (running[w] # NoTask => WorkLeft(w) > 0)
<1>1. JobType(job[w], running[w]) /\ running[w] \in Tasks \cup {NoTask}
  BY DEF ProblemTypes
<1>2. CASE running[w].op # "judge"
  BY <1>2 DEF WorkLeft
<1>3. CASE running[w].op = "judge"
  <2>1. NoTask.op = "none" /\ NoJob.at = "none"
    BY DEF NoTask, Task, NoJob, Job
  <2>2. tests[running[w].title].seqs \in Seq(Nat)
    <3>1. running[w].title \in Titles
      BY <1>1, <1>3, <2>1 DEF Tasks, Messages, Shaped
    <3>. QED BY <3>1, InputsAssumption DEF ProblemTypes
  <2>3. Len(tests[running[w].title].seqs) \in Nat
    BY <2>2
  <2>4. job[w] # NoJob =>
          /\ job[w].at \in {"limits", "compile", "assign", "run", "publish"}
          /\ Len(job[w].tests.order) \in Nat
          /\ job[w].at = "publish" => job[w].last - job[w].next \in Nat
    BY <1>1 DEF JobType
  <2>5. TestsLeft(w) \in Nat
    BY <2>1, <2>3, <2>4 DEF TestsLeft
  <2>6. Steps(job[w].at) \in 1..6
    BY <2>1, <2>4, StepsValues
  <2>. QED BY <1>3, <2>5, <2>6 DEF WorkLeft
<1>. QED BY <1>2, <1>3

(* The work that is left is a function of these variables. *)
LEMMA WorkLeftSame ==
    ASSUME UNCHANGED <<running, job, tests>>
    PROVE  \A w \in Workers : WorkLeft(w)' = WorkLeft(w)
BY DEF WorkLeft, TestsLeft

(* A step of one worker leaves the others their work. *)
LEMMA OthersWork ==
    ASSUME NEW w \in Workers, tests' = tests,
           \A v \in Workers \ {w} : running'[v] = running[v] /\ job'[v] = job[v]
    PROVE  \A v \in Workers \ {w} : WorkLeft(v)' = WorkLeft(v)
BY DEF WorkLeft, TestsLeft

(* A task that ends leaves nothing to do. *)
LEMMA EndLessens ==
    ASSUME ProblemTypes, NEW w \in Workers, running[w] # NoTask, EndTask(w), tests' = tests
    PROVE  Lessens(w)
<1>1. /\ running'[w] = NoTask
      /\ \A v \in Workers \ {w} : running'[v] = running[v] /\ job'[v] = job[v]
  BY DEF EndTask, ProblemTypes
<1>2. WorkLeft(w)' = 0
  BY <1>1 DEF WorkLeft, NoTask, Task
<1>. QED BY <1>1, <1>2, WorkLeftNat, OthersWork DEF Lessens

(* A judge task goes on: it takes a later step, or one for the next test.  *)
LEMMA GoesLessens ==
    ASSUME ProblemTypes, NEW w \in Workers, running[w].op = "judge",
           NEW j, Goes(w, j), j.at # "none", UNCHANGED <<running, tests>>,
           Steps(j.at) \in Nat,
           NEW n \in Nat, n = IF j.at = "publish" THEN j.last - j.next ELSE Len(j.tests.order),
           Steps(j.at) + n < WorkLeft(w)
    PROVE  Lessens(w)
<1>1. job'[w] = j /\ \A v \in Workers \ {w} : job'[v] = job[v]
  BY DEF Goes, ProblemTypes
<1>2. WorkLeft(w)' = Steps(j.at) + n
  BY <1>1 DEF WorkLeft, TestsLeft
<1>. QED BY <1>1, <1>2, OthersWork DEF Lessens

(* What a worker does: it takes a task, or goes on with its own.           *)
LEMMA TaskOnward ==
    ASSUME ProblemTypes, NEW w \in Workers, TaskStep(w)
    PROVE  ~alive' \/ Len(queue') < Len(queue) \/ (queue' = queue /\ Lessens(w))
<1>0. /\ JobType(job[w], running[w]) /\ WorkLeft(w) \in Nat
      /\ NoTask.op = "none" /\ NoJob.at = "none"
  BY WorkLeftNat DEF ProblemTypes, NoTask, Task, NoJob, Job
<1>1. CASE Start(w)
  <2>1. queue \in Seq(Tasks) /\ queue # <<>> /\ queue' = Tail(queue)
    BY <1>1 DEF Start, ProblemTypes
  <2>. QED BY <2>1
<1>2. CASE Execute(w) \/ TaskFails(w)
  <2>1. running[w] # NoTask /\ EndTask(w) /\ UNCHANGED <<queue, tests>>
    BY <1>0, <1>2 DEF Execute, TaskFails, StoreTestCase, tables
  <2>. QED BY <2>1, EndLessens
<1>3. CASE ExecuteNull(w) \/ QueryFails(w)
  BY <1>3 DEF ExecuteNull, QueryFails, DatabaseKills
<1>4. CASE (QueryStep(w) /\ ~QueryFails(w)) \/ CompileStep(w) \/ Run(w) \/ PublishResult(w)
  <2>. DEFINE r == running[w]
              k == job[w]
  <2>1. /\ r.op = "judge" /\ r # NoTask /\ queue' = queue /\ tests' = tests
    BY <1>0, <1>4 DEF QueryStep, QueryTests, QueryLimits, QueryNoLimits, CompileStep, Compile,
             Assigned, CompileRaces, Run, PublishResult, Judging, tables, pool
  <2>2. CASE QueryTests(w)
    <3>. DEFINE now == tests[r.title]
    <3>1. k.at = "none"
      BY <2>2 DEF QueryTests, Judging
    <3>2. PICK p \in ByNumber(now.seqs) :
             Goes(w, Job("limits", [order |-> p, edit |-> now.edit,
                                    numbered |-> Numbered(now.seqs)], NoRow, 0, 0))
      BY <2>2 DEF QueryTests
    <3>3. now.seqs \in Seq(Nat)
      <4>1. r \in Tasks
        BY <2>1 DEF ProblemTypes
      <4>2. r.title \in Titles
        BY <4>1 DEF Tasks, Messages, Shaped
      <4>. QED BY <4>2, InputsAssumption DEF ProblemTypes
    <3>. DEFINE n == Len(now.seqs)
    <3>4. n \in Nat /\ Len(p) = n
      BY <3>3 DEF ByNumber, AnyOrder, Rows
    <3>5. WorkLeft(w) = 6 + n
      BY <2>1, <3>1, StepsValues DEF WorkLeft, TestsLeft
    <3>. DEFINE j == Job("limits", [order |-> p, edit |-> now.edit,
                                    numbered |-> Numbered(now.seqs)], NoRow, 0, 0)
    <3>6. j.at = "limits" /\ j.tests.order = p
      BY DEF Job
    <3>7. running' = running /\ Goes(w, j)
      BY <2>2, <3>2 DEF QueryTests
    <3>. HIDE DEF j, n
    <3>. QED BY <2>1, <3>4, <3>5, <3>6, <3>7, GoesLessens, StepsValues
  <2>3. CASE QueryNoLimits(w)
    BY <2>3 DEF QueryNoLimits
  <2>4. ASSUME k.at # "none"
        PROVE  /\ k.at \in {"limits", "compile", "assign", "run", "publish"}
               /\ Len(k.tests.order) \in Nat
               /\ k.at # "publish" => WorkLeft(w) = Steps(k.at) + Len(k.tests.order)
               /\ k.at = "publish" =>
                     /\ k.next \in Nat /\ k.last \in Nat /\ k.next <= k.last
                     /\ WorkLeft(w) = 1 + (k.last - k.next)
    BY <1>0, <2>1, <2>4, StepsValues DEF JobType, WorkLeft, TestsLeft
  <2>5. CASE QueryLimits(w)
    <3>. DEFINE row == limits[<<r.title, r.lang>>]
                place == IF r.lang \in Compiled THEN "compile" ELSE "run"
                j == Job(place, k.tests, row, 0, 0)
    <3>1. k.at = "limits" /\ Goes(w, j) /\ running' = running
      BY <2>5 DEF QueryLimits, Judging
    <3>2. j.at \in {"compile", "run"} /\ j.tests = k.tests
      BY DEF Job
    <3>. HIDE DEF j
    <3>3. Steps(j.at) \in Nat /\ Steps(j.at) < 5
      BY <3>2, StepsValues
    <3>4. Steps(j.at) + Len(k.tests.order) < WorkLeft(w)
      BY <2>4, <3>1, <3>3, StepsValues
    <3>. QED BY <2>1, <2>4, <3>1, <3>2, <3>3, <3>4, GoesLessens
  <2>6. ASSUME NEW at, Goes(w, [k EXCEPT !.at = at]), running' = running, k.at # "none",
               k.at # "publish", at \in {"assign", "run"}, Steps(at) < Steps(k.at)
        PROVE  Lessens(w)
    <3>. DEFINE j == [k EXCEPT !.at = at]
    <3>1. j.at = at /\ j.tests = k.tests
      BY <1>0, <2>6 DEF JobType
    <3>. HIDE DEF j
    <3>2. Steps(j.at) \in Nat /\ Steps(k.at) \in Nat
      BY <2>4, <2>6, <3>1, StepsValues
    <3>3. Steps(j.at) + Len(k.tests.order) < WorkLeft(w)
      BY <2>4, <2>6, <3>1, <3>2
    <3>4. Goes(w, j)
      BY <2>6 DEF j
    <3>. QED BY <2>1, <2>4, <2>6, <3>1, <3>2, <3>3, <3>4, GoesLessens
  <2>7. CASE CompileStep(w)
    <3>1. CASE alive' /\ ~EndTask(w)
      <4>1. PICK at \in {"assign", "run"} :
               /\ Goes(w, [k EXCEPT !.at = at]) /\ running' = running
               /\ \/ k.at = "compile"
                  \/ k.at = "assign" /\ at = "run"
        BY <2>7, <3>1 DEF CompileStep, Compile, Assigned, CompileRaces, Judging
      <4>2. Steps(at) < Steps(k.at)
        BY <4>1, StepsValues
      <4>. QED BY <2>1, <2>6, <4>1, <4>2
    <3>. QED BY <2>1, <3>1, EndLessens
  <2>8. CASE Run(w)
    <3>1. k.at = "run"
      BY <2>8 DEF Run, Judging
    <3>2. CASE \E l \in 1..Len(k.tests.order) : Goes(w, Job("publish", k.tests, k.limit, 1, l))
                                                /\ running' = running
      <4>1. PICK l \in 1..Len(k.tests.order) : Goes(w, Job("publish", k.tests, k.limit, 1, l))
                                               /\ running' = running
        BY <3>2
      <4>. DEFINE j == Job("publish", k.tests, k.limit, 1, l)
      <4>2. j.at = "publish" /\ j.next = 1 /\ j.last = l
        BY DEF Job
      <4>. HIDE DEF j
      <4>3. l - 1 \in Nat /\ 1 + (l - 1) < WorkLeft(w)
        BY <2>4, <3>1, StepsValues
      <4>4. Goes(w, j)
        BY <4>1 DEF j
      <4>. QED BY <2>1, <4>1, <4>2, <4>3, <4>4, GoesLessens, StepsValues
    <3>3. CASE EndTask(w)
      BY <2>1, <3>3, EndLessens
    <3>. QED BY <2>8, <3>2, <3>3 DEF Run
  <2>9. CASE PublishResult(w)
    <3>1. k.at = "publish"
      BY <2>9 DEF PublishResult, Judging
    <3>2. CASE EndTask(w)
      BY <2>1, <3>2, EndLessens
    <3>3. CASE k.next # k.last /\ Goes(w, [k EXCEPT !.next = k.next + 1]) /\ running' = running
      <4>. DEFINE j == [k EXCEPT !.next = k.next + 1]
      <4>1. j.at = "publish" /\ j.next = k.next + 1 /\ j.last = k.last
        BY <1>0, <3>1 DEF JobType
      <4>. HIDE DEF j
      <4>2. /\ k.last - (k.next + 1) \in Nat
            /\ 1 + (k.last - (k.next + 1)) < WorkLeft(w)
        BY <2>4, <3>1, <3>3
      <4>3. Goes(w, j)
        BY <3>3 DEF j
      <4>. QED BY <2>1, <3>3, <4>1, <4>2, <4>3, GoesLessens, StepsValues
    <3>. QED BY <2>9, <3>2, <3>3 DEF PublishResult
  <2>. QED BY <1>4, <2>2, <2>3, <2>5, <2>7, <2>8, <2>9 DEF QueryStep
<1>. QED BY <1>1, <1>2, <1>3, <1>4 DEF TaskStep

(* main destroys a member, stops the pool or joins it; the loop sees the   *)
(* flag, so that it ends with its next message, timeout or subscription.   *)
LEMMA ExitOnward ==
    ASSUME TypeOK, LifeInv, Leaving, [Next]_vars
    PROVE  Onward \/ UNCHANGED vars
<1>0. ProblemTypes /\ LifeTypes /\ phase \in {"leaving", "joining"}
  BY DEF TypeOK, Leaving
<1>1. ASSUME NEW w \in Workers, WorkerStep(w) PROVE Onward
  <2>1. TaskStep(w) /\ UNCHANGED <<members, phase, loop>>
    BY <1>1 DEF WorkerStep, lifeVars
  <2>. QED BY <1>0, <2>1, TaskOnward DEF Onward
<1>2. CASE LoopStep \/ LoopFault
  <2>1. shouldExit
    <3>1. loop # "none"
      BY <1>2 DEF LoopStep, LoopFault, LoopStart, LoopTimesOut, LoopConsumes, LoopResubscribes,
                  LoopClosed, LoopError, LoopGoes
    <3>. QED BY <1>0, <3>1 DEF LifeInv
  <2>2. UNCHANGED <<members, phase>> /\ LoopLeft' < LoopLeft
    <3>1. LoopStart \/ LoopTimesOut \/ LoopConsumes \/ LoopResubscribes \/ LoopClosed \/ LoopError
      BY <1>2 DEF LoopStep, LoopFault
    <3>2. /\ UNCHANGED <<members, phase>>
          /\ \/ loop \in {"queued", "consuming", "sleeping"} /\ loop' = "ended"
             \/ loop = "consuming" /\ loop' = "sleeping"
      BY <2>1, <3>1 DEF LoopStart, LoopTimesOut, LoopConsumes, LoopResubscribes, LoopClosed,
                        LoopError, LoopGoes, AfterTest
    <3>. QED BY <3>2 DEF LoopLeft
  <2>3. /\ UNCHANGED <<running, job, tests>>
        /\ queue' = queue \/ (socket # <<>> /\ queue' = Append(queue, Head(socket)))
    BY <1>2 DEF LoopStep, LoopFault, Deliver, Drop, Unheard, problemVars, pool, tables
  <2>4. Len(queue') <= Len(queue) + 1
    <3>1. queue \in Seq(Tasks) /\ socket \in Seq(Messages)
      BY <1>0 DEF ProblemTypes
    <3>2. Len(queue) \in Nat
      BY <3>1
    <3>3. CASE queue' = Append(queue, Head(socket)) /\ socket # <<>>
      <4>1. Head(socket) \in Tasks
        BY <3>1, <3>3 DEF Tasks
      <4>. QED BY <3>1, <3>3, <4>1
    <3>. QED BY <2>3, <3>2, <3>3
  <2>. QED BY <2>2, <2>3, <2>4, WorkLeftSame DEF Onward
<1>3. CASE Undefined
  BY <1>3 DEF Undefined, Perish, Onward
<1>4. CASE MainStep
  <2>1. /\ members' \subseteq members /\ MainLeft' <= MainLeft
        /\ members' # members \/ MainLeft' < MainLeft
        /\ loop' = loop
    BY <1>0, <1>4 DEF MainStep, Build, Destroy, InitSystem, Listen, StopPool, JoinPool, MainLeft
  <2>2. UNCHANGED <<queue, running, job, tests>>
    BY <1>4 DEF MainStep, problemVars, pool, tables
  <2>. QED BY <2>1, <2>2, WorkLeftSame DEF Onward
<1>5. CASE Stops
  BY <1>0, <1>5 DEF Stops, BuildFails, ListenReturns
<1>. QED BY <1>0, <1>1, <1>2, <1>3, <1>4, <1>5, LifeSteps

(* Nobody waits for nothing.                                               *)
LEMMA ExitNotStuck ==
    ASSUME LifeTypes, LifeInv
    PROVE  ExitGoesOn
<1>. SUFFICES ASSUME Leaving, loop \notin {"queued", "consuming", "sleeping"}
              PROVE  \/ phase = "leaving" /\ ( \/ members \subseteq {"pool"}
                          \/ \E i \in DOMAIN MemberOrder :
                                /\ MemberOrder[i] \in members \ {"pool"}
                                /\ \A j \in DOMAIN MemberOrder : MemberOrder[j] \in members => j <= i )
                     \/ phase = "joining" /\ loop \in {"none", "ended"} /\ Drained
                     \/ \E w \in Workers : Working(w) /\ (running[w] # NoTask \/ queue # <<>>)
  BY DEF ExitGoesOn
<1>1. CASE phase = "leaving"
  <2>. SUFFICES ASSUME ~(members \subseteq {"pool"})
                PROVE  \E i \in 1..6 : /\ MemberOrder[i] \in members \ {"pool"}
                                       /\ \A j \in 1..6 : MemberOrder[j] \in members => j <= i
    BY <1>1 DEF MemberOrder
  <2>1. /\ MemberOrder[1] = "pool" /\ MemberOrder[2] = "config" /\ MemberOrder[3] = "db"
        /\ MemberOrder[4] = "redis" /\ MemberOrder[5] = "subscriber" /\ MemberOrder[6] = "services"
    BY DEF MemberOrder
  <2>. QED BY <2>1 DEF LifeTypes, Members
<1>2. CASE phase = "joining"
  <2>1. loop \in {"none", "ended"}
    BY DEF LifeTypes
  <2>2. loop = "none" => Drained
    BY <1>2 DEF LifeInv
  <2>3. CASE loop = "ended" /\ ~Drained
    <3>1. \A w \in Workers : Working(w)
      BY <2>3 DEF Working
    <3>. QED BY <2>3, <3>1, LooperAssumption DEF Drained
  <2>. QED BY <1>2, <2>1, <2>2, <2>3
<1>. QED BY <1>1, <1>2 DEF Leaving

(* The exit is neither stuck nor endless: from the return of listen on, or *)
(* a start that failed, somebody can go on until the pool is joined, and   *)
(* every step leaves less to do.  The loop that tests the flag is what     *)
(* this rests on: it hands the queue one more message at most.             *)
THEOREM ExitIsBounded ==
    Spec => /\ []ExitGoesOn
            /\ [][Leaving => Onward]_vars
<1>1. Init => LifeInv
  BY LifeInvInit
<1>2. TypeOK /\ LifeInv /\ [Next]_vars => LifeInv'
  BY LifeInvStep DEF TypeOK
<1>3. TypeOK /\ LifeInv => ExitGoesOn
  BY ExitNotStuck DEF TypeOK
<1>4. TypeOK /\ LifeInv /\ [Next]_vars => [Leaving => Onward]_vars
  BY ExitOnward
<1>. QED BY <1>1, <1>2, <1>3, <1>4, ServerTypes, PTL DEF Spec
=============================================================================
