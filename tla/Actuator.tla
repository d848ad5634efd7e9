------------------------------ MODULE Actuator ------------------------------
(***************************************************************************)
(* Judge::Actuator::execute (src/judge/src/actuators/Actuator.cpp): judge  *)
(* tasks on several workers of the thread pool each fork a child, feed it  *)
(* its input, watch it and collect its output.                             *)
(*                                                                         *)
(* The server is one process, so every fork copies every descriptor that   *)
(* is open at that moment, the pipe ends of the other judge tasks too;     *)
(* nothing is opened with O_CLOEXEC, and setChildEnv closes only the ends  *)
(* of the child's own pipes.  A pipe reports end of file when no process   *)
(* holds its write end, and EPIPE when none holds its read end.            *)
(*                                                                         *)
(* A pipe holds Cap chunks.  stdout and stderr are treated alike by the    *)
(* code; "out" is both.  One execution per judge task is modelled.  Time   *)
(* is not: the wall clock may have run out whenever monitorChild looks.    *)
(***************************************************************************)
EXTENDS FiniteSets, Naturals

CONSTANTS Judges,    \* judge tasks that run at the same time
          Server,    \* the server process
          Programs,  \* kinds of programs that are judged
          Cap,       \* capacity of a pipe, in chunks
          MaxInput,  \* bound: chunks of stdin_data
          Output,    \* chunks a "reader" writes
          MaxFaults  \* bound: kinds of faults in a behaviour

Kinds == {"reader",   \* reads its input to the end, writes Output chunks
          "quit",     \* exits without reading, or could not be executed
          "greedy",   \* allocates more than its limit, then exits
          "spin"}     \* never ends

FaultKinds == {"pipe", "fork", "child", "cgroup", "poll", "stats"}

ASSUME ProgramsAssumption == Programs \subseteq Kinds

ASSUME ServerAssumption == Server \notin Judges

ASSUME SizesAssumption == /\ Cap \in Nat \ {0}
                          /\ MaxInput \in Nat /\ Output \in Nat /\ MaxFaults \in Nat

VARIABLES pc,       \* judge -> where execute is
          proc,     \* judge -> its child: not there, running, a zombie, reaped
          how,      \* judge -> how the child ended
          fds,      \* process (Server, or the child of a judge) -> pipe ends
          program,  \* judge -> the kind of its program
          input,    \* judge -> chunks of stdin_data
          fed,      \* judge -> chunks written to the child's stdin
          eaten,    \* judge -> chunks the child has read
          made,     \* judge -> chunks the child has written
          got,      \* judge -> chunks monitorChild has collected
          timeout,  \* judge -> monitorChild's `timeout`
          cgroup,   \* judge -> its cgroup: none, empty, joined by the child
          result,   \* judge -> what execute returned or threw
          faults    \* kinds of faults that have occurred

child == <<proc, how>>
data  == <<fed, eaten, made, got>>
task  == <<program, input>>
vars  == <<pc, child, fds, task, data, timeout, cgroup, result, faults>>

Ends(j) == {"in", "out"} \X {"r", "w"} \X {j}

InRead(j)   == <<"in", "r", j>>
InWrite(j)  == <<"in", "w", j>>
OutRead(j)  == <<"out", "r", j>>
OutWrite(j) == <<"out", "w", j>>

Processes == Judges \cup {Server}

Open(e) == \E p \in Processes : e \in fds[p]

(* Chunks in the pipes of j. *)
InPipe(j)  == fed[j] - eaten[j]
OutPipe(j) == made[j] - got[j]

Alive(j) == proc[j] \in {"setup", "stuck", "running"}

Fault(f) == /\ Cardinality(faults) < MaxFaults
            /\ f \notin faults
            /\ faults' = faults \cup {f}

-----------------------------------------------------------------------------
Init == /\ pc = [j \in Judges |-> "start"]
        /\ proc = [j \in Judges |-> "none"]
        /\ how = [j \in Judges |-> "none"]
        /\ fds = [p \in Processes |-> {}]
        /\ program \in [Judges -> Programs]
        /\ input \in [Judges -> 0..MaxInput]
        /\ fed = [j \in Judges |-> 0]
        /\ eaten = [j \in Judges |-> 0]
        /\ made = [j \in Judges |-> 0]
        /\ got = [j \in Judges |-> 0]
        /\ timeout = [j \in Judges |-> FALSE]
        /\ cgroup = [j \in Judges |-> "none"]
        /\ result = [j \in Judges |-> "none"]
        /\ faults = {}

Goto(j, l) == pc' = [pc EXCEPT ![j] = l]

(* execute leaves with result r; the server gives up the ends E.           *)
Leave(j, r, E) == /\ pc' = [pc EXCEPT ![j] = "ended"]
                  /\ result' = [result EXCEPT ![j] = r]
                  /\ fds' = [fds EXCEPT ![Server] = @ \ E]

(* The child ends, and with it its descriptors. *)
ChildEnds(j, h, p) == /\ proc' = [proc EXCEPT ![j] = p]
                      /\ how' = [how EXCEPT ![j] = h]
                      /\ fds' = [fds EXCEPT ![j] = {}]

-----------------------------------------------------------------------------
(* execute, up to the monitor.                                             *)

CreatePipes(j) ==
    /\ pc[j] = "start"
    /\ Goto(j, "piped")
    /\ fds' = [fds EXCEPT ![Server] = @ \cup Ends(j)]
    /\ UNCHANGED <<child, task, data, timeout, cgroup, result, faults>>

(* createPipes closes what it had opened and throws.                       *)
PipesFail(j) ==
    /\ pc[j] = "start"
    /\ Fault("pipe")
    /\ Leave(j, "pipeError", Ends(j))
    /\ UNCHANGED <<child, task, data, timeout, cgroup>>

(* fork: the child has a copy of every descriptor of the server.           *)
Fork(j) ==
    /\ pc[j] = "piped"
    /\ Goto(j, "forked")
    /\ proc' = [proc EXCEPT ![j] = "setup"]
    /\ fds' = [fds EXCEPT ![j] = fds[Server]]
    /\ UNCHANGED <<how, task, data, timeout, cgroup, result, faults>>

(* fork fails: execute throws and leaves the pipes open.                   *)
ForkFails(j) ==
    /\ pc[j] = "piped"
    /\ Fault("fork")
    /\ Leave(j, "forkError", {})
    /\ UNCHANGED <<child, task, data, timeout, cgroup>>

(* The parent closes the child's ends. *)
CloseChildEnds(j) ==
    /\ pc[j] = "forked"
    /\ Goto(j, "feeding")
    /\ fds' = [fds EXCEPT ![Server] = @ \ {InRead(j), OutWrite(j)}]
    /\ UNCHANGED <<child, task, data, timeout, cgroup, result, faults>>

(* write() to the child's stdin blocks while the pipe is full.             *)
Feed(j) ==
    /\ pc[j] = "feeding" /\ fed[j] < input[j]
    /\ Open(InRead(j))
    /\ InPipe(j) < Cap
    /\ fed' = [fed EXCEPT ![j] = @ + 1]
    /\ UNCHANGED <<pc, child, fds, task, eaten, made, got, timeout, cgroup, result, faults>>

(* The error path of the write that leaves stdout and stderr open.         *)
FeedFailsLeaky(j) ==
    /\ pc[j] = "feeding" /\ fed[j] < input[j]
    /\ ~Open(InRead(j))
    /\ proc' = [proc EXCEPT ![j] = "reaped"]
    /\ Leave(j, "writeError", {InWrite(j)})
    /\ UNCHANGED <<how, task, data, timeout, cgroup, faults>>

(* The error path that does not wait for the child it killed.              *)
FeedFailsUnreaped(j) ==
    /\ pc[j] = "feeding" /\ fed[j] < input[j]
    /\ ~Open(InRead(j))
    /\ Leave(j, "writeError", Ends(j))
    /\ UNCHANGED <<child, task, data, timeout, cgroup, faults>>

(* write() fails with EPIPE, nobody being left to read (httplib ignores    *)
(* SIGPIPE): the child, dead already, is killed and reaped; execute throws.*)
FeedFails(j) ==
    /\ pc[j] = "feeding" /\ fed[j] < input[j]
    /\ ~Open(InRead(j))
    /\ proc' = [proc EXCEPT ![j] = "reaped"]
    /\ Leave(j, "writeError", Ends(j))
    /\ UNCHANGED <<how, task, data, timeout, cgroup, faults>>

CloseStdin(j) ==
    /\ pc[j] = "feeding" /\ fed[j] = input[j]
    /\ Goto(j, "grouping")
    /\ fds' = [fds EXCEPT ![Server] = @ \ {InWrite(j)}]
    /\ UNCHANGED <<child, task, data, timeout, cgroup, result, faults>>

(* createCgroupForProcess: a child that is dead already cannot join, and   *)
(* nobody notices (the write to cgroup.procs is not checked).              *)
CreateCgroup(j) ==
    /\ pc[j] = "grouping"
    /\ Goto(j, "monitor")
    /\ cgroup' = [cgroup EXCEPT ![j] = IF Alive(j) THEN "joined" ELSE "empty"]
    /\ UNCHANGED <<child, fds, task, data, timeout, result, faults>>

(* createCgroupForProcess throws, before or after it made the directory.   *)
(* execute still has an empty cgroup_path, so cleanupCgroup removes        *)
(* nothing and throws; the child is neither killed nor reaped.             *)
CgroupFails(j) ==
    /\ pc[j] = "grouping"
    /\ Fault("cgroup")
    /\ cgroup' \in {cgroup, [cgroup EXCEPT ![j] = "empty"]}
    /\ Leave(j, "cgroupError", {OutRead(j)})
    /\ UNCHANGED <<child, task, data, timeout>>

-----------------------------------------------------------------------------
(* monitorChild.                                                           *)

(* The timeout that leaves the loop without a kill.                        *)
MonitorTimeoutSpares(j) ==
    /\ pc[j] = "monitor"
    /\ timeout' = [timeout EXCEPT ![j] = TRUE]
    /\ Goto(j, "reap")
    /\ UNCHANGED <<child, fds, task, data, cgroup, result, faults>>

(* The wall clock has run out: SIGKILL. *)
MonitorTimeout(j) ==
    /\ pc[j] = "monitor"
    /\ timeout' = [timeout EXCEPT ![j] = TRUE]
    /\ Goto(j, "reap")
    /\ \/ Alive(j) /\ ChildEnds(j, "killed", "zombie")
       \/ ~Alive(j) /\ UNCHANGED <<child, fds>>
    /\ UNCHANGED <<task, data, cgroup, result, faults>>

(* poll reports output, and a chunk of it is read.                         *)
MonitorRead(j) ==
    /\ pc[j] = "monitor"
    /\ OutPipe(j) > 0
    /\ got' = [got EXCEPT ![j] = @ + 1]
    /\ UNCHANGED <<pc, child, fds, task, fed, eaten, made, timeout, cgroup, result, faults>>

(* poll fails: the loop ends, and the child is awaited without a clock.    *)
PollFails(j) ==
    /\ pc[j] = "monitor"
    /\ Fault("poll")
    /\ Goto(j, "reap")
    /\ UNCHANGED <<child, fds, task, data, timeout, cgroup, result>>

(* The loop that goes on after waitpid has reaped the child.               *)
MonitorReapOn(j) ==
    /\ pc[j] = "monitor"
    /\ proc[j] = "zombie"
    /\ proc' = [proc EXCEPT ![j] = "reaped"]
    /\ UNCHANGED <<pc, how, fds, task, data, timeout, cgroup, result, faults>>

(* waitpid(WNOHANG) reaps the child. *)
MonitorReap(j) ==
    /\ pc[j] = "monitor"
    /\ proc[j] = "zombie"
    /\ proc' = [proc EXCEPT ![j] = "reaped"]
    /\ Goto(j, "drain")
    /\ UNCHANGED <<how, fds, task, data, timeout, cgroup, result, faults>>

(* waitpid, blocking. *)
Reap(j) ==
    /\ pc[j] = "reap"
    /\ proc[j] = "zombie"
    /\ proc' = [proc EXCEPT ![j] = "reaped"]
    /\ Goto(j, "drain")
    /\ UNCHANGED <<how, fds, task, data, timeout, cgroup, result, faults>>

(* The drain that reads a pipe which is empty.                             *)
DrainBlind(j) ==
    /\ pc[j] = "drain"
    /\ OutPipe(j) > 0 \/ Open(OutWrite(j))
    /\ got' = [got EXCEPT ![j] = @ + 1]
    /\ UNCHANGED <<pc, child, fds, task, fed, eaten, made, timeout, cgroup, result, faults>>

(* What is left in the pipe is read ... *)
Drain(j) ==
    /\ pc[j] = "drain"
    /\ OutPipe(j) > 0
    /\ got' = [got EXCEPT ![j] = @ + 1]
    /\ UNCHANGED <<pc, child, fds, task, fed, eaten, made, timeout, cgroup, result, faults>>

(* The drain that stops at once. *)
DrainStops(j) ==
    /\ pc[j] = "drain"
    /\ Goto(j, "verdict")
    /\ UNCHANGED <<child, fds, task, data, timeout, cgroup, result, faults>>

(* ... up to the end of file; until then the thread spins on EAGAIN.       *)
DrainEof(j) ==
    /\ pc[j] = "drain"
    /\ OutPipe(j) = 0 /\ ~Open(OutWrite(j))
    /\ Goto(j, "verdict")
    /\ UNCHANGED <<child, fds, task, data, timeout, cgroup, result, faults>>

(* memory.peak counts only what a member of the cgroup allocated.          *)
OverMemory(j) == cgroup[j] = "joined" /\ how[j] = "oom"

(* The verdict that looks at the exit status before the clock.             *)
StatusExitFirst(j) ==
    IF how[j] \in {"error", "killed", "oom"} THEN "RUNTIME_ERROR"
    ELSE IF timeout[j] THEN "TIME_LIMIT_EXCEEDED"
    ELSE IF OverMemory(j) THEN "MEMORY_LIMIT_EXCEEDED"
    ELSE "UNKNOWN"

(* The order in which monitorChild asks why the child ended.  UNKNOWN is   *)
(* left to Judger::judge, which compares the output.                       *)
Status(j) ==
    IF timeout[j] THEN "TIME_LIMIT_EXCEEDED"
    ELSE IF OverMemory(j) THEN "MEMORY_LIMIT_EXCEEDED"
    ELSE IF how[j] # "exit" THEN "RUNTIME_ERROR"
    ELSE "UNKNOWN"

(* execute returns; the cgroup is empty by now and is removed.             *)
Return(j) ==
    /\ pc[j] = "verdict"
    /\ Leave(j, Status(j), {OutRead(j)})
    /\ cgroup' = [cgroup EXCEPT ![j] = "none"]
    /\ UNCHANGED <<child, task, data, timeout, faults>>

(* The statistics cannot be read: execute throws, after its clean-up.      *)
StatsFail(j) ==
    /\ pc[j] = "verdict"
    /\ Fault("stats")
    /\ Leave(j, "statsError", {OutRead(j)})
    /\ cgroup' = [cgroup EXCEPT ![j] = "none"]
    /\ UNCHANGED <<child, task, data, timeout>>

-----------------------------------------------------------------------------
(* The child.                                                              *)

(* The setChildEnv that closes the wrong end of its stdin.                 *)
SetChildEnvSwapped(j) ==
    /\ proc[j] = "setup"
    /\ proc' = [proc EXCEPT ![j] = "running"]
    /\ fds' = [fds EXCEPT ![j] = @ \ {InRead(j), OutRead(j)}]
    /\ UNCHANGED <<pc, how, task, data, timeout, cgroup, result, faults>>

(* setChildEnv closes the other ends of its own pipes; execv.              *)
SetChildEnv(j) ==
    /\ proc[j] = "setup"
    /\ proc' = [proc EXCEPT ![j] = "running"]
    /\ fds' = [fds EXCEPT ![j] = @ \ {InWrite(j), OutRead(j)}]
    /\ UNCHANGED <<pc, how, task, data, timeout, cgroup, result, faults>>

(* The child hangs before execv: in LOG_INFO, on a lock that another thread*)
(* held at the fork, or in exit(), joining threads that it does not have.  *)
ChildHangs(j) ==
    /\ proc[j] = "setup"
    /\ Fault("child")
    /\ proc' = [proc EXCEPT ![j] = "stuck"]
    /\ UNCHANGED <<pc, how, fds, task, data, timeout, cgroup, result>>

AtEof(j) == InPipe(j) = 0 /\ ~Open(InWrite(j))

ProgramReads(j) ==
    /\ proc[j] = "running"
    /\ InPipe(j) > 0
    /\ program[j] = "reader"
    /\ eaten' = [eaten EXCEPT ![j] = @ + 1]
    /\ UNCHANGED <<pc, child, fds, task, fed, made, got, timeout, cgroup, result, faults>>

ProgramWrites(j) ==
    /\ proc[j] = "running"
    /\ OutPipe(j) < Cap
    /\ program[j] = "reader" /\ made[j] < Output
    /\ made' = [made EXCEPT ![j] = @ + 1]
    /\ UNCHANGED <<pc, child, fds, task, fed, eaten, got, timeout, cgroup, result, faults>>

(* A program comes to its end.  One that wants too much memory is killed   *)
(* for it only as a member of the cgroup.                                  *)
ProgramEnds(j) ==
    /\ proc[j] = "running"
    /\ \/ program[j] = "reader" /\ AtEof(j) /\ made[j] = Output /\ ChildEnds(j, "exit", "zombie")
       \/ program[j] = "quit" /\ \E h \in {"exit", "error"} : ChildEnds(j, h, "zombie")
       \/ program[j] = "greedy" /\ cgroup[j] = "joined" /\ ChildEnds(j, "oom", "zombie")
       \/ program[j] = "greedy" /\ cgroup[j] # "joined" /\ ChildEnds(j, "exit", "zombie")
    /\ UNCHANGED <<pc, task, data, timeout, cgroup, result, faults>>

-----------------------------------------------------------------------------
Execute(j) == \/ CreatePipes(j) \/ Fork(j) \/ CloseChildEnds(j)
              \/ Feed(j) \/ FeedFails(j) \/ CloseStdin(j) \/ CreateCgroup(j)

Monitor(j) == \/ MonitorTimeout(j) \/ MonitorRead(j) \/ MonitorReap(j)
              \/ Reap(j) \/ Drain(j) \/ DrainEof(j) \/ Return(j)

Child(j) == SetChildEnv(j) \/ ProgramReads(j) \/ ProgramWrites(j) \/ ProgramEnds(j)

Fails(j) == \/ PipesFail(j) \/ ForkFails(j) \/ CgroupFails(j)
            \/ PollFails(j) \/ StatsFail(j) \/ ChildHangs(j)

(* Every task has its result; an orphan may still run.                     *)
Over == (\A j \in Judges : pc[j] = "ended") /\ UNCHANGED vars

Next == (\E j \in Judges : Execute(j) \/ Monitor(j) \/ Child(j) \/ Fails(j)) \/ Over

Spec == Init /\ [][Next]_vars

-----------------------------------------------------------------------------
Statuses == {"UNKNOWN", "RUNTIME_ERROR", "MEMORY_LIMIT_EXCEEDED", "TIME_LIMIT_EXCEEDED"}

Errors == {"pipeError", "forkError", "writeError", "cgroupError", "statsError"}

(* Types; what is in a pipe is what was written and not read yet.          *)
TypeOK ==
    /\ pc \in [Judges -> {"start", "piped", "forked", "feeding", "grouping", "monitor",
                          "reap", "drain", "verdict", "ended"}]
    /\ proc \in [Judges -> {"none", "setup", "stuck", "running", "zombie", "reaped"}]
    /\ how \in [Judges -> {"none", "exit", "error", "oom", "killed"}]
    /\ fds \in [Processes -> SUBSET UNION {Ends(j) : j \in Judges}]
    /\ program \in [Judges -> Programs]
    /\ input \in [Judges -> 0..MaxInput]
    /\ \A v \in {fed, eaten, made, got} : v \in [Judges -> Nat]
    /\ \A j \in Judges : /\ eaten[j] <= fed[j] /\ fed[j] <= input[j]
                         /\ InPipe(j) <= Cap
                         /\ got[j] <= made[j]
                         /\ OutPipe(j) <= Cap
    /\ timeout \in [Judges -> BOOLEAN]
    /\ cgroup \in [Judges -> {"none", "empty", "joined"}]
    /\ result \in [Judges -> Statuses \cup Errors \cup {"none"}]
    /\ faults \subseteq FaultKinds

(* When execute is over its child has been reaped, whatever went wrong,    *)
(* but for one way out: a failure in createCgroupForProcess.               *)
NoOrphan ==
    \A j \in Judges : pc[j] = "ended" /\ result[j] # "cgroupError"
                       => proc[j] \in {"none", "reaped"}

(* When execute is over the server has closed its ends of the pipes, but   *)
(* for one way out: fork() itself fails.                                   *)
DescriptorsReturned ==
    \A j \in Judges : pc[j] = "ended" /\ result[j] # "forkError"
                       => fds[Server] \cap Ends(j) = {}

(* The SIGKILL of a timeout never goes to a pid that was already reaped,   *)
(* and may belong to another process, however the exit and the clock race. *)
KillsItsChild ==
    [][\A j \in Judges : ~timeout[j] /\ timeout'[j] => proc[j] # "reaped"]_vars

(* The output that is compared with the expected one is everything that    *)
(* the program has written: the last chunks are read after its exit.       *)
OutputComplete ==
    \A j \in Judges : result[j] = "UNKNOWN" => got[j] = made[j]

(* A status says how the program ended: it is left to the comparison only  *)
(* for a program that ended by itself, a runtime error is never the kill   *)
(* of the timeout or of the memory limit, and nobody but a program that    *)
(* asked for too much memory is told so.                                   *)
StatusIsTrue ==
    \A j \in Judges : /\ result[j] = "UNKNOWN" => how[j] = "exit"
                      /\ result[j] = "RUNTIME_ERROR" => how[j] = "error"
                      /\ result[j] = "MEMORY_LIMIT_EXCEEDED" => program[j] = "greedy"

(* A write error ends the task without any status.  It happens to programs *)
(* that exit without reading what they are given, and to no program that   *)
(* reads its input.                                                        *)
ReadersAreFed ==
    \A j \in Judges : result[j] = "writeError" => program[j] # "reader"

(* Faults after which a child runs while nobody looks at the clock.        *)
Unwatched == {"cgroup", "poll"}

(* The worker of j cannot go on by itself: write() blocks on a full pipe,  *)
(* waitpid() on a child that has not ended, or the drain spins on EAGAIN   *)
(* because somebody still holds the write end.                             *)
Waits(j) ==
    \/ pc[j] = "feeding" /\ fed[j] < input[j] /\ Open(InRead(j)) /\ InPipe(j) >= Cap
    \/ pc[j] = "reap" /\ proc[j] # "zombie"
    \/ pc[j] = "drain" /\ OutPipe(j) = 0 /\ Open(OutWrite(j))

(* No task waits for ever, also not for a pipe that the child of another   *)
(* task holds open: as long as some task is not over, there is one whose   *)
(* worker can go on, when no input exceeds the capacity of a pipe (execute *)
(* writes all of it before it looks at the clock).  Every step is a step   *)
(* forward, so all tasks come to their end.                                *)
NobodyHangs ==
    (\A j \in Judges : input[j] <= Cap) /\ faults \cap Unwatched = {}
        => \A j \in Judges : pc[j] # "ended" => \E k \in Judges : pc[k] # "ended" /\ ~Waits(k)

-----------------------------------------------------------------------------
(* What the code says and does not do.                                     *)

(* Actuator.cpp:234, "close superfluous descriptors": the program that is  *)
(* executed has no pipe ends but its own stdin and stdout.                 *)
ChildHoldsItsOwn ==
    \A j \in Judges : proc[j] = "running" => fds[j] \subseteq {InRead(j), OutWrite(j)}
=============================================================================
