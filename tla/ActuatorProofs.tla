--------------------------- MODULE ActuatorProofs ---------------------------
(***************************************************************************)
(* Proofs about Actuator, for any number of judge tasks, any programs,     *)
(* inputs, outputs and pipes and any combination of faults: the types and  *)
(* what execute promises of the child, the pipes and its result.  Judge    *)
(* tasks share the descriptors of the server only, so that one task's part *)
(* of the invariant (Local) is disturbed by its own steps alone.           *)
(***************************************************************************)
EXTENDS Actuator, TLAPS

(* Where execute is says how far the child has come. *)
Stages(j) ==
    /\ pc[j] \in {"start", "piped"} => proc[j] = "none"
    /\ pc[j] \in {"forked", "feeding", "grouping", "monitor", "reap"}
          => proc[j] \notin {"none", "reaped"}
    /\ pc[j] \in {"drain", "verdict"} => proc[j] = "reaped"
    /\ pc[j] = "ended" => result[j] = "cgroupError" \/ proc[j] \in {"none", "reaped"}
    /\ pc[j] = "ended" <=> result[j] # "none"

(* Which pipe ends the child and the server hold.  Those that the server   *)
(* holds for other judge tasks do not matter here.                         *)
Pipes(j) ==
    /\ ~Alive(j) => fds[j] = {}
    /\ Alive(j) => InRead(j) \in fds[j] /\ OutWrite(j) \in fds[j]
    /\ pc[j] = "start" => fds[Server] \cap Ends(j) = {}
    /\ pc[j] = "piped" => Ends(j) \subseteq fds[Server]
    /\ pc[j] \in {"forked", "feeding"} => InWrite(j) \in fds[Server]
    /\ pc[j] = "feeding" => fds[Server] \cap Ends(j) \subseteq {InWrite(j), OutRead(j)}
    /\ pc[j] \in {"grouping", "monitor", "reap", "drain", "verdict"}
          => fds[Server] \cap Ends(j) \subseteq {OutRead(j)}
    /\ pc[j] = "ended" /\ result[j] # "forkError" => fds[Server] \cap Ends(j) = {}

(* How a child has ended, and what that takes. *)
Deaths(j) ==
    /\ how[j] # "none" <=> proc[j] \in {"zombie", "reaped"}
    /\ how[j] = "killed" => timeout[j]
    /\ how[j] = "oom" => program[j] = "greedy" /\ (pc[j] # "ended" => cgroup[j] = "joined")
    /\ cgroup[j] = "joined" => pc[j] \in {"monitor", "reap", "drain", "verdict"}
    /\ how[j] # "none" /\ program[j] = "reader" => pc[j] \notin {"forked", "feeding"}

(* What execute returns. *)
Returns(j) ==
    /\ pc[j] = "verdict" => got[j] = made[j]
    /\ result[j] = "UNKNOWN" => got[j] = made[j] /\ how[j] = "exit"
    /\ result[j] = "RUNTIME_ERROR" => how[j] = "error"
    /\ result[j] = "MEMORY_LIMIT_EXCEEDED" => program[j] = "greedy"
    /\ result[j] = "writeError" => program[j] # "reader"

(* What it takes that a child is awaited without a clock, or forgotten.     *)
Excuses(j) ==
    /\ pc[j] = "reap" /\ proc[j] # "zombie" => "poll" \in faults
    /\ result[j] = "cgroupError" => "cgroup" \in faults

Local(j) == Stages(j) /\ Pipes(j) /\ Deaths(j) /\ Returns(j) /\ Excuses(j) /\ made[j] <= Output

Inv == TypeOK /\ \A j \in Judges : Local(j)

Step(j) == Execute(j) \/ Monitor(j) \/ Child(j) \/ Fails(j)
-----------------------------------------------------------------------------
(* The ends of the pipes. *)

LEMMA EndsOf ==
    ASSUME NEW j
    PROVE  /\ Ends(j) = {InRead(j), InWrite(j), OutRead(j), OutWrite(j)}
           /\ InRead(j) # InWrite(j) /\ InRead(j) # OutRead(j) /\ InRead(j) # OutWrite(j)
           /\ InWrite(j) # OutRead(j) /\ InWrite(j) # OutWrite(j) /\ OutRead(j) # OutWrite(j)
BY DEF Ends, InRead, InWrite, OutRead, OutWrite

LEMMA EndsApart == ASSUME NEW j, NEW k, j # k PROVE Ends(j) \cap Ends(k) = {}
BY DEF Ends

LEMMA Holders ==
    ASSUME NEW j \in Judges
    PROVE  /\ j \in Processes /\ Server \in Processes /\ j # Server
           /\ Ends(j) \subseteq UNION {Ends(k) : k \in Judges}
BY ServerAssumption DEF Processes

-----------------------------------------------------------------------------
(* Types.                                                                  *)

LEMMA InitTypes == Init => TypeOK
BY SizesAssumption DEF Init, TypeOK, InPipe, OutPipe

LEMMA ExecuteTypes ==
    ASSUME TypeOK, NEW j \in Judges, Execute(j)
    PROVE  TypeOK'
<1>. USE EndsOf, Holders, SizesAssumption DEF TypeOK, Goto, Leave, child, data, task, InPipe, OutPipe
<1>1. CASE CreatePipes(j)
  BY <1>1 DEF CreatePipes
<1>2. CASE Fork(j)
  BY <1>2 DEF Fork
<1>3. CASE CloseChildEnds(j)
  BY <1>3 DEF CloseChildEnds
<1>4. CASE Feed(j)
  BY <1>4 DEF Feed
<1>5. CASE FeedFails(j)
  BY <1>5 DEF FeedFails, Errors
<1>6. CASE CloseStdin(j)
  BY <1>6 DEF CloseStdin
<1>7. CASE CreateCgroup(j)
  BY <1>7 DEF CreateCgroup
<1>. QED BY <1>1, <1>2, <1>3, <1>4, <1>5, <1>6, <1>7 DEF Execute

LEMMA MonitorTypes ==
    ASSUME TypeOK, NEW j \in Judges, Monitor(j)
    PROVE  TypeOK'
<1>. USE EndsOf, Holders, SizesAssumption DEF TypeOK, Goto, Leave, child, data, task, InPipe, OutPipe
<1>1. CASE MonitorTimeout(j)
  BY <1>1 DEF MonitorTimeout, ChildEnds
<1>2. CASE MonitorRead(j) \/ Drain(j)
  BY <1>2 DEF MonitorRead, Drain
<1>3. CASE MonitorReap(j) \/ Reap(j)
  BY <1>3 DEF MonitorReap, Reap
<1>4. CASE DrainEof(j)
  BY <1>4 DEF DrainEof
<1>5. CASE Return(j)
  BY <1>5 DEF Return, Status, Statuses
<1>. QED BY <1>1, <1>2, <1>3, <1>4, <1>5 DEF Monitor

LEMMA ChildTypes ==
    ASSUME TypeOK, NEW j \in Judges, Child(j)
    PROVE  TypeOK'
<1>. USE EndsOf, Holders, SizesAssumption DEF TypeOK, child, data, task, InPipe, OutPipe
<1>1. CASE SetChildEnv(j)
  BY <1>1 DEF SetChildEnv
<1>2. CASE ProgramReads(j)
  BY <1>2 DEF ProgramReads
<1>3. CASE ProgramWrites(j)
  BY <1>3 DEF ProgramWrites
<1>4. CASE ProgramEnds(j)
  BY <1>4 DEF ProgramEnds, ChildEnds
<1>. QED BY <1>1, <1>2, <1>3, <1>4 DEF Child

LEMMA FailsTypes ==
    ASSUME TypeOK, NEW j \in Judges, Fails(j)
    PROVE  TypeOK'
<1>. USE EndsOf, Holders, SizesAssumption
     DEF TypeOK, Goto, Leave, Fault, FaultKinds, Errors, child, data, task, InPipe, OutPipe
<1>1. CASE PipesFail(j)
  BY <1>1 DEF PipesFail
<1>2. CASE ForkFails(j)
  BY <1>2 DEF ForkFails
<1>3. CASE CgroupFails(j)
  BY <1>3 DEF CgroupFails
<1>4. CASE PollFails(j)
  BY <1>4 DEF PollFails
<1>5. CASE StatsFail(j)
  BY <1>5 DEF StatsFail
<1>6. CASE ChildHangs(j)
  BY <1>6 DEF ChildHangs
<1>. QED BY <1>1, <1>2, <1>3, <1>4, <1>5, <1>6 DEF Fails

-----------------------------------------------------------------------------
(* The other judge tasks.                                                  *)

(* Nothing of the judge task j has changed, nor has the server any other   *)
(* ends of its pipes.                                                      *)
Same(j) ==
    /\ pc'[j] = pc[j] /\ proc'[j] = proc[j] /\ how'[j] = how[j]
    /\ program'[j] = program[j] /\ made'[j] = made[j] /\ got'[j] = got[j]
    /\ input'[j] = input[j] /\ fed'[j] = fed[j] /\ eaten'[j] = eaten[j]
    /\ timeout'[j] = timeout[j] /\ cgroup'[j] = cgroup[j] /\ result'[j] = result[j]
    /\ fds'[j] = fds[j]
    /\ fds'[Server] \cap Ends(j) = fds[Server] \cap Ends(j)
    /\ faults \subseteq faults'

LEMMA SameLocal ==
    ASSUME NEW j \in Judges, Local(j), Same(j)
    PROVE  Local(j)'
<1>1. Stages(j)'
  BY DEF Local, Same, Stages
<1>2. Pipes(j)'
  BY EndsOf DEF Local, Same, Pipes, Alive
<1>3. Deaths(j)' /\ Returns(j)' /\ Excuses(j)' /\ made'[j] <= Output
  BY DEF Local, Same, Deaths, Returns, Excuses
<1>. QED BY <1>1, <1>2, <1>3 DEF Local

LEMMA OthersSame ==
    ASSUME TypeOK, NEW k \in Judges, Step(k), NEW j \in Judges, j # k
    PROVE  Same(j)
<1>0. /\ j \in Processes /\ Server \in Processes /\ j # Server /\ k # Server
      /\ Ends(k) \cap Ends(j) = {}
      /\ InRead(k) \notin Ends(j) /\ InWrite(k) \notin Ends(j)
      /\ OutRead(k) \notin Ends(j) /\ OutWrite(k) \notin Ends(j)
  BY EndsOf, EndsApart, Holders
<1>. USE <1>0 DEF TypeOK, Same, Goto, Leave, ChildEnds, Fault, child, data, task
<1>1. CASE CreatePipes(k) \/ Fork(k) \/ CloseChildEnds(k)
  BY <1>1 DEF CreatePipes, Fork, CloseChildEnds
<1>2. CASE Feed(k) \/ CloseStdin(k) \/ CreateCgroup(k)
  BY <1>2 DEF Feed, CloseStdin, CreateCgroup
<1>3. CASE FeedFails(k)
  BY <1>3 DEF FeedFails
<1>4. CASE MonitorTimeout(k) \/ MonitorRead(k)
  BY <1>4 DEF MonitorTimeout, MonitorRead
<1>5. CASE MonitorReap(k) \/ Reap(k) \/ Drain(k) \/ DrainEof(k)
  BY <1>5 DEF MonitorReap, Reap, Drain, DrainEof
<1>6. CASE Return(k) \/ StatsFail(k)
  BY <1>6 DEF Return, StatsFail
<1>7. CASE Child(k)
  BY <1>7 DEF Child, SetChildEnv, ProgramReads, ProgramWrites, ProgramEnds
<1>8. CASE PipesFail(k) \/ ForkFails(k) \/ CgroupFails(k)
  BY <1>8 DEF PipesFail, ForkFails, CgroupFails
<1>9. CASE PollFails(k) \/ ChildHangs(k)
  BY <1>9 DEF PollFails, ChildHangs
<1>. QED BY <1>1, <1>2, <1>3, <1>4, <1>5, <1>6, <1>7, <1>8, <1>9
         DEF Step, Execute, Monitor, Fails

-----------------------------------------------------------------------------
(* The steps of a judge task.                                              *)

LEMMA ExecuteLocal ==
    ASSUME TypeOK, NEW j \in Judges, Local(j), Execute(j)
    PROVE  Local(j)'
<1>. USE EndsOf, Holders
     DEF TypeOK, Local, Stages, Pipes, Deaths, Returns, Excuses, Alive, Goto, Leave,
         child, data, task
<1>1. CASE CreatePipes(j)
  BY <1>1 DEF CreatePipes
<1>2. CASE Fork(j)
  BY <1>2 DEF Fork
<1>3. CASE CloseChildEnds(j)
  BY <1>3 DEF CloseChildEnds
<1>4. CASE Feed(j)
  BY <1>4 DEF Feed
<1>5. CASE FeedFails(j)
  <2>1. ~Alive(j) /\ proc[j] = "zombie"
    BY <1>5 DEF FeedFails, Open
  <2>. QED BY <1>5, <2>1 DEF FeedFails
<1>6. CASE CloseStdin(j)
  BY <1>6 DEF CloseStdin
<1>7. CASE CreateCgroup(j)
  BY <1>7 DEF CreateCgroup
<1>. QED BY <1>1, <1>2, <1>3, <1>4, <1>5, <1>6, <1>7 DEF Execute

LEMMA MonitorLocal ==
    ASSUME TypeOK, NEW j \in Judges, Local(j), Monitor(j)
    PROVE  Local(j)'
<1>. USE EndsOf, Holders
     DEF TypeOK, Local, Stages, Pipes, Deaths, Returns, Excuses, Alive, Goto, Leave,
         child, data, task
<1>1. CASE MonitorTimeout(j)
  BY <1>1 DEF MonitorTimeout, ChildEnds
<1>2. CASE MonitorRead(j) \/ Drain(j)
  BY <1>2 DEF MonitorRead, Drain
<1>3. CASE MonitorReap(j) \/ Reap(j)
  BY <1>3 DEF MonitorReap, Reap
<1>4. CASE DrainEof(j)
  <2>1. got[j] = made[j]
    BY <1>4 DEF DrainEof, OutPipe
  <2>. QED BY <1>4, <2>1 DEF DrainEof
<1>5. CASE Return(j)
  BY <1>5 DEF Return, Status, OverMemory
<1>. QED BY <1>1, <1>2, <1>3, <1>4, <1>5 DEF Monitor

LEMMA ChildLocal ==
    ASSUME TypeOK, NEW j \in Judges, Local(j), Child(j)
    PROVE  Local(j)'
<1>. USE EndsOf, Holders, SizesAssumption
     DEF TypeOK, Local, Stages, Pipes, Deaths, Returns, Excuses, Alive, child, data, task
<1>1. CASE SetChildEnv(j)
  BY <1>1 DEF SetChildEnv
<1>2. CASE ProgramReads(j)
  BY <1>2 DEF ProgramReads
<1>3. CASE ProgramWrites(j)
  BY <1>3 DEF ProgramWrites
<1>4. CASE ProgramEnds(j)
  <2>1. program[j] = "reader" /\ AtEof(j) => pc[j] \notin {"forked", "feeding"}
    BY DEF AtEof, Open
  <2>. QED BY <1>4, <2>1 DEF ProgramEnds, ChildEnds
<1>. QED BY <1>1, <1>2, <1>3, <1>4 DEF Child

LEMMA FailsLocal ==
    ASSUME TypeOK, NEW j \in Judges, Local(j), Fails(j)
    PROVE  Local(j)'
<1>. USE EndsOf, Holders
     DEF TypeOK, Local, Stages, Pipes, Deaths, Returns, Excuses, Alive, Goto, Leave, Fault,
         child, data, task
<1>1. CASE PipesFail(j)
  BY <1>1 DEF PipesFail
<1>2. CASE ForkFails(j)
  BY <1>2 DEF ForkFails
<1>3. CASE CgroupFails(j)
  BY <1>3 DEF CgroupFails
<1>4. CASE PollFails(j)
  BY <1>4 DEF PollFails
<1>5. CASE StatsFail(j)
  BY <1>5 DEF StatsFail
<1>6. CASE ChildHangs(j)
  BY <1>6 DEF ChildHangs
<1>. QED BY <1>1, <1>2, <1>3, <1>4, <1>5, <1>6 DEF Fails

-----------------------------------------------------------------------------
(* The invariant, and what follows from it.                                *)

LEMMA InitInv == Init => Inv
<1>. SUFFICES ASSUME Init PROVE \A j \in Judges : Local(j)
  BY InitTypes DEF Inv
<1>. QED BY Holders, SizesAssumption DEF Init, Local, Stages, Pipes, Deaths, Returns, Excuses, Alive

LEMMA StepTypes == ASSUME TypeOK, NEW j \in Judges, Step(j) PROVE TypeOK'
BY ExecuteTypes, MonitorTypes, ChildTypes, FailsTypes DEF Step

LEMMA StepLocal == ASSUME TypeOK, NEW j \in Judges, Local(j), Step(j) PROVE Local(j)'
BY ExecuteLocal, MonitorLocal, ChildLocal, FailsLocal DEF Step

LEMMA NextInv == Inv /\ [Next]_vars => Inv'
<1>. SUFFICES ASSUME Inv, [Next]_vars PROVE Inv'
  OBVIOUS
<1>1. ASSUME NEW k \in Judges, Step(k) PROVE Inv'
  <2>1. ASSUME NEW j \in Judges PROVE Local(j)'
    <3>1. TypeOK /\ Local(j)
      BY DEF Inv
    <3>2. CASE j = k
      BY <1>1, <3>1, <3>2, StepLocal
    <3>3. CASE j # k
      BY <1>1, <3>1, <3>3, OthersSame, SameLocal
    <3>. QED BY <3>2, <3>3
  <2>. QED BY <1>1, <2>1, StepTypes DEF Inv
<1>2. CASE UNCHANGED vars
  BY <1>2 DEF vars, child, data, task, Inv, TypeOK, InPipe, OutPipe, Local, Stages, Pipes, Deaths,
              Returns, Excuses, Alive
<1>. QED BY <1>1, <1>2 DEF Next, Over, Step

LEMMA SpecInv == Spec => []Inv
BY InitInv, NextInv, PTL DEF Spec

(* Types, and no pipe holds more than its capacity, for any number of      *)
(* judge tasks, programs and faults.                                       *)
THEOREM ActuatorTypes == Spec => []TypeOK
<1>1. Inv => TypeOK
  BY DEF Inv
<1>. QED BY <1>1, SpecInv, PTL

(* Whatever fails, the child of an execution that is over was reaped,      *)
(* unless createCgroupForProcess failed.                                   *)
THEOREM ChildrenReaped == Spec => []NoOrphan
<1>1. Inv => NoOrphan
  BY DEF Inv, Local, Stages, NoOrphan
<1>. QED BY <1>1, SpecInv, PTL

(* Whatever fails, the server closes its ends of the pipes of an           *)
(* execution, unless fork failed.                                          *)
THEOREM PipesClosed == Spec => []DescriptorsReturned
<1>1. Inv => DescriptorsReturned
  BY DEF Inv, Local, Pipes, DescriptorsReturned
<1>. QED BY <1>1, SpecInv, PTL

(* The output that is compared is all that the program wrote, for any      *)
(* length of the output and any capacity of the pipe.                      *)
THEOREM OutputsComplete == Spec => []OutputComplete
<1>1. Inv => OutputComplete
  BY DEF Inv, Local, Returns, OutputComplete
<1>. QED BY <1>1, SpecInv, PTL

(* The status that monitorChild returns says how the program ended.        *)
THEOREM StatusesTrue == Spec => []StatusIsTrue
<1>1. Inv => StatusIsTrue
  BY DEF Inv, Local, Returns, StatusIsTrue
<1>. QED BY <1>1, SpecInv, PTL

(* A program that reads its input never causes a write error, for any      *)
(* length of the input and any capacity of the pipe.                       *)
THEOREM WritersSucceed == Spec => []ReadersAreFed
<1>1. Inv => ReadersAreFed
  BY DEF Inv, Local, Returns, ReadersAreFed
<1>. QED BY <1>1, SpecInv, PTL

(* The SIGKILL of the timeout goes to a child that was not reaped yet.     *)
THEOREM KillsOwnChild == Spec => KillsItsChild
<1>1. ASSUME Inv, Next, NEW j \in Judges, ~timeout[j], timeout'[j]
      PROVE  proc[j] # "reaped"
  <2>1. PICK k \in Judges : Step(k)
    BY <1>1 DEF Next, Over, Step, vars
  <2>2. TypeOK /\ Local(j)
    BY <1>1 DEF Inv
  <2>3. k = j
    BY <1>1, <2>1, <2>2, OthersSame DEF Same
  <2>4. timeout'[j] # timeout[j] => MonitorTimeout(j)
    BY <2>1, <2>3 DEF Step, Execute, Monitor, Child, Fails, CreatePipes, Fork, CloseChildEnds, Feed,
         FeedFails, CloseStdin, CreateCgroup, MonitorRead, MonitorReap, Reap, Drain, DrainEof, Return,
         SetChildEnv, ProgramReads, ProgramWrites, ProgramEnds, PipesFail, ForkFails, CgroupFails,
         PollFails, StatsFail, ChildHangs
  <2>5. pc[j] = "monitor"
    BY <1>1, <2>4 DEF MonitorTimeout
  <2>. QED BY <2>2, <2>5 DEF Local, Stages
<1>2. Inv /\ [Next]_vars =>
         [\A j \in Judges : ~timeout[j] /\ timeout'[j] => proc[j] # "reaped"]_vars
  BY <1>1
<1>. QED BY <1>2, SpecInv, PTL DEF Spec, KillsItsChild

-----------------------------------------------------------------------------
(* Nobody waits for ever.                                                  *)

(* The child of a task that holds a pipe end lives, and its task goes on   *)
(* unless one of the faults has happened that leave it unwatched.          *)
LEMMA HoldersGoOn ==
    ASSUME Inv, NEW k \in Judges, fds[k] # {}, faults \cap Unwatched = {}, input[k] <= Cap
    PROVE  pc[k] # "ended" /\ ~Waits(k)
<1>1. TypeOK /\ Local(k) /\ Alive(k)
  BY DEF Inv, Local, Pipes
<1>2. pc[k] # "ended"
  BY <1>1 DEF Local, Stages, Excuses, Alive, Unwatched
<1>3. ~(pc[k] = "feeding" /\ fed[k] < input[k] /\ InPipe(k) >= Cap)
  BY <1>1, SizesAssumption DEF TypeOK, InPipe
<1>4. ~(pc[k] = "reap" /\ proc[k] # "zombie")
  BY <1>1 DEF Local, Excuses, Unwatched
<1>5. pc[k] # "drain"
  BY <1>1 DEF Local, Stages, Alive
<1>. QED BY <1>2, <1>3, <1>4, <1>5 DEF Waits

(* A task that waits is draining, and waits for the child of another one.  *)
LEMMA WaitsForOther ==
    ASSUME Inv, NEW j \in Judges, Waits(j), faults \cap Unwatched = {}, input[j] <= Cap
    PROVE  \E k \in Judges : fds[k] # {}
<1>1. TypeOK /\ Local(j)
  BY DEF Inv
<1>2. ~(pc[j] = "feeding" /\ fed[j] < input[j] /\ InPipe(j) >= Cap)
  BY <1>1, SizesAssumption DEF TypeOK, InPipe
<1>3. ~(pc[j] = "reap" /\ proc[j] # "zombie")
  BY <1>1 DEF Local, Excuses, Unwatched
<1>4. pc[j] = "drain" /\ Open(OutWrite(j))
  BY <1>2, <1>3 DEF Waits
<1>5. OutWrite(j) \notin fds[Server]
  BY <1>1, <1>4, EndsOf DEF Local, Pipes
<1>. QED BY <1>4, <1>5 DEF Open, Processes

(* As long as a task is not over some worker can go on: no cycle of judge  *)
(* tasks that wait for one another's pipes, for any number of tasks.       *)
THEOREM NoTaskHangs == Spec => []NobodyHangs
<1>1. ASSUME Inv PROVE NobodyHangs
  <2>. SUFFICES ASSUME \A j \in Judges : input[j] <= Cap, faults \cap Unwatched = {},
                       NEW j \in Judges, pc[j] # "ended"
                PROVE  \E k \in Judges : pc[k] # "ended" /\ ~Waits(k)
    BY DEF NobodyHangs
  <2>1. CASE ~Waits(j)
    BY <2>1
  <2>2. CASE Waits(j)
    <3>1. PICK k \in Judges : fds[k] # {}
      BY <1>1, <2>2, WaitsForOther
    <3>. QED BY <1>1, <3>1, HoldersGoOn
  <2>. QED BY <2>1, <2>2
<1>. QED BY <1>1, SpecInv, PTL

-----------------------------------------------------------------------------
(* Every step is a step forward.                                           *)

StageRank(l) ==
    CASE l = "start" -> 9 [] l = "piped" -> 8 [] l = "forked" -> 7 [] l = "feeding" -> 6
      [] l = "grouping" -> 5 [] l = "monitor" -> 4 [] l = "reap" -> 3 [] l = "drain" -> 2
      [] l = "verdict" -> 1 [] OTHER -> 0

ChildRank(l) ==
    CASE l = "none" -> 4 [] l = "setup" -> 3 [] l \in {"stuck", "running"} -> 2
      [] l = "zombie" -> 1 [] OTHER -> 0

(* What is still to be done for j at most: stages of execute and of the    *)
(* child, chunks to write and to read at both pipes.                       *)
Left(j) ==
    StageRank(pc[j]) + ChildRank(proc[j])
      + (input[j] - fed[j]) + (input[j] - eaten[j]) + (Output - made[j]) + (Output - got[j])

LEMMA Ranks ==
    /\ StageRank("start") = 9 /\ StageRank("piped") = 8 /\ StageRank("forked") = 7
    /\ StageRank("feeding") = 6 /\ StageRank("grouping") = 5 /\ StageRank("monitor") = 4
    /\ StageRank("reap") = 3 /\ StageRank("drain") = 2 /\ StageRank("verdict") = 1
    /\ StageRank("ended") = 0
    /\ ChildRank("none") = 4 /\ ChildRank("setup") = 3 /\ ChildRank("stuck") = 2
    /\ ChildRank("running") = 2 /\ ChildRank("zombie") = 1 /\ ChildRank("reaped") = 0
BY DEF StageRank, ChildRank

(* There is never less than nothing left, and a bound on it from the start.*)
LEMMA LeftBounds ==
    ASSUME TypeOK, NEW j \in Judges, Local(j)
    PROVE  Left(j) \in 0..(13 + 2 * MaxInput + 2 * Output)
<1>1. /\ input[j] \in Nat /\ fed[j] \in Nat /\ eaten[j] \in Nat /\ made[j] \in Nat /\ got[j] \in Nat
      /\ fed[j] <= input[j] /\ eaten[j] <= input[j] /\ input[j] <= MaxInput
      /\ made[j] <= Output /\ got[j] <= Output
      /\ Output \in Nat /\ MaxInput \in Nat
  BY SizesAssumption DEF TypeOK, Local
<1>2. StageRank(pc[j]) \in 0..9 /\ ChildRank(proc[j]) \in 0..4
  BY Ranks DEF TypeOK
<1>3. /\ input[j] - fed[j] \in 0..MaxInput /\ input[j] - eaten[j] \in 0..MaxInput
      /\ Output - made[j] \in 0..Output /\ Output - got[j] \in 0..Output
  BY <1>1
<1>. QED BY <1>1, <1>2, <1>3 DEF Left

(* The terms of Left are numbers, before and after a step. *)
LEMMA LeftTerms ==
    ASSUME TypeOK, NEW j \in Judges
    PROVE  /\ input[j] \in Nat /\ fed[j] \in Nat /\ eaten[j] \in Nat
           /\ made[j] \in Nat /\ got[j] \in Nat /\ Output \in Nat
           /\ StageRank(pc[j]) \in Nat /\ ChildRank(proc[j]) \in Nat
BY SizesAssumption, Ranks DEF TypeOK

LEMMA StepForward ==
    ASSUME TypeOK, NEW j \in Judges, Local(j), Step(j)
    PROVE  Left(j)' < Left(j)
<1>. USE Ranks, LeftTerms DEF TypeOK, Left, Goto, Leave, child, data, task
<1>1. CASE Execute(j)
  <2>1. CASE CreatePipes(j) \/ Fork(j) \/ CloseChildEnds(j)
    BY <2>1 DEF CreatePipes, Fork, CloseChildEnds, Local, Stages
  <2>2. CASE Feed(j) \/ CloseStdin(j) \/ CreateCgroup(j)
    BY <2>2 DEF Feed, CloseStdin, CreateCgroup
  <2>3. CASE FeedFails(j)
    BY <2>3 DEF FeedFails, Local, Stages
  <2>. QED BY <1>1, <2>1, <2>2, <2>3 DEF Execute
<1>2. CASE Monitor(j)
  <2>1. CASE MonitorTimeout(j)
    BY <2>1 DEF MonitorTimeout, ChildEnds, Alive
  <2>2. CASE MonitorRead(j) \/ Drain(j)
    BY <2>2 DEF MonitorRead, Drain
  <2>3. CASE MonitorReap(j) \/ Reap(j)
    BY <2>3 DEF MonitorReap, Reap
  <2>4. CASE DrainEof(j) \/ Return(j)
    BY <2>4 DEF DrainEof, Return
  <2>. QED BY <1>2, <2>1, <2>2, <2>3, <2>4 DEF Monitor
<1>3. CASE Child(j)
  BY <1>3 DEF Child, SetChildEnv, ProgramReads, ProgramWrites, ProgramEnds, ChildEnds
<1>4. CASE Fails(j)
  BY <1>4 DEF Fails, PipesFail, ForkFails, CgroupFails, PollFails, StatsFail, ChildHangs
<1>. QED BY <1>1, <1>2, <1>3, <1>4 DEF Step

(* No step of execute, of a child or of a fault is ever taken back: each   *)
(* lessens what is left for its own task and for no other, and what is     *)
(* left is bounded.  An execution of n tasks takes at most                 *)
(* n * (13 + 2 * MaxInput + 2 * Output) steps; with NoTaskHangs this is    *)
(* why every task comes to its end.                                        *)
THEOREM EveryStepForward ==
    Spec => /\ [](\A j \in Judges : Left(j) \in 0..(13 + 2 * MaxInput + 2 * Output))
            /\ [][\E j \in Judges : /\ Left(j)' < Left(j)
                                    /\ \A k \in Judges \ {j} : Left(k)' = Left(k)]_vars
<1>1. Inv => \A j \in Judges : Left(j) \in 0..(13 + 2 * MaxInput + 2 * Output)
  BY LeftBounds DEF Inv
<1>2. ASSUME Inv, [Next]_vars
      PROVE  [\E j \in Judges : /\ Left(j)' < Left(j)
                                /\ \A k \in Judges \ {j} : Left(k)' = Left(k)]_vars
  <2>1. CASE UNCHANGED vars
    BY <2>1
  <2>2. ASSUME NEW j \in Judges, Step(j)
        PROVE  Left(j)' < Left(j) /\ \A k \in Judges \ {j} : Left(k)' = Left(k)
    <3>1. Left(j)' < Left(j)
      BY <1>2, <2>2, StepForward DEF Inv
    <3>2. ASSUME NEW k \in Judges \ {j} PROVE Left(k)' = Left(k)
      <4>1. Same(k)
        BY <1>2, <2>2, OthersSame DEF Inv
      <4>. QED BY <4>1 DEF Same, Left
    <3>. QED BY <3>1, <3>2
  <2>. QED BY <1>2, <2>1, <2>2 DEF Next, Over, Step
<1>. QED BY <1>1, <1>2, SpecInv, PTL DEF Spec
=============================================================================
