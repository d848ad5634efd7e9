----------------------------- MODULE Lifecycle ------------------------------
(***************************************************************************)
(* The life of the server: main, Application::init and run, the members of *)
(* Application::Impl, and the loop that run gives to the thread pool.      *)
(*                                                                         *)
(* The members are built in the order of the constructor and destroyed     *)
(* against the order of their declaration, when main returns or calls exit.*)
(* The loop, like every task of the pool, may still be running then: the   *)
(* pool is destroyed last and joins its workers.                           *)
(***************************************************************************)
EXTENDS Naturals, Sequences

CONSTANTS Hosts,     \* machines on which the server may be started
          MaxFaults  \* bound: faults of the subscriber's connection

ASSUME FaultsAssumption == MaxFaults \in Nat

VARIABLES host,       \* the machine
          phase,      \* the main thread
          members,    \* members of Impl that exist
          shouldExit, \* m_ShouldExit
          loop,       \* the loop of Application::run
          callback,   \* the subscriber has a message callback
          faults      \* number of faults so far

lifeVars == <<host, phase, members, shouldExit, loop, callback, faults>>

(* The services stand for the three of them and m_SubmissionTempDir. *)
Members == {"pool", "config", "db", "redis", "subscriber", "services"}

(* The order of the declarations. *)
MemberOrder == <<"pool", "config", "db", "redis", "subscriber", "services">>

(* A constructor that subscribes before it is connected to Redis.          *)
BuildOrderSubscriberFirst == <<"config", "pool", "subscriber", "db", "redis", "services">>

(* The order of the constructor. *)
BuildOrder == <<"config", "pool", "db", "redis", "services", "subscriber">>

(* m is the first that is missing. *)
IsNext(m) == /\ m \notin members
             /\ \E i \in DOMAIN BuildOrder : /\ BuildOrder[i] = m
                                             /\ \A j \in 1..(i - 1) : BuildOrder[j] \in members

(* What the construction of m uses. *)
Needs(m) == CASE m = "config"     -> {}
              [] m = "subscriber" -> {"config", "redis"}
              [] OTHER            -> {"config"}

Fault == faults < MaxFaults /\ faults' = faults + 1

-----------------------------------------------------------------------------
(* The checks of FileException.cpp, for a file or directory.               *)

Skipped(f, root) == root /\ f.special

checkFileExists(f) == f.exists

checkFileReadable(f, root) == f.exists /\ (Skipped(f, root) \/ f.ownerRead)

(* What does not exist may be written. *)
checkFileWritable(f, root) == f.exists => Skipped(f, root) \/ f.ownerWrite

(* The checks of Actuator::initSystem.  A policy that can be read by its   *)
(* owner need not be one that the server can open.                         *)
HostIsFit ==
    /\ \A f \in {host.proc, host.cgroup} : checkFileExists(f) /\ checkFileWritable(f, host.root)
    /\ checkFileReadable(host.policy, host.root)
    /\ host.policyCompiles

-----------------------------------------------------------------------------
LifecycleInit ==
    /\ host \in Hosts
    /\ phase = "building" /\ members = {}
    /\ shouldExit = FALSE
    /\ loop = "none" /\ callback = FALSE
    /\ faults = 0

(* Impl's constructor builds its next member; the subscriber gets its      *)
(* callback.                                                               *)
Build(m) ==
    /\ phase = "building"
    /\ IsNext(m)
    /\ members' = members \cup {m}
    /\ callback' = (callback \/ m = "subscriber")
    /\ phase' = IF members' = Members THEN "built" ELSE phase
    /\ UNCHANGED <<host, shouldExit, loop, faults>>

(* It throws: main catches the exception and exits. *)
BuildFails ==
    /\ phase = "building"
    /\ phase' = "leaving"
    /\ UNCHANGED <<host, members, shouldExit, loop, callback, faults>>

InitSystem ==
    /\ phase = "built"
    /\ phase' = IF HostIsFit THEN "ready" ELSE "leaving"
    /\ UNCHANGED <<host, members, shouldExit, loop, callback, faults>>

(* run enqueues the loop and listens. *)
Listen ==
    /\ phase = "ready"
    /\ phase' = "listening"
    /\ loop' = "queued"
    /\ UNCHANGED <<host, members, shouldExit, callback, faults>>

(* listen returns, because it cannot bind or accept; main returns.         *)
ListenReturns ==
    /\ phase = "listening"
    /\ shouldExit' = TRUE
    /\ phase' = "leaving"
    /\ UNCHANGED <<host, members, loop, callback, faults>>

(* ~Impl destroys the last of the members. *)
Destroy(m) ==
    /\ phase = "leaving"
    /\ m \in members \ {"pool"}
    /\ \A i, j \in DOMAIN MemberOrder :
          MemberOrder[i] = m /\ MemberOrder[j] \in members => j <= i
    /\ members' = members \ {m}
    /\ UNCHANGED <<host, phase, shouldExit, loop, callback, faults>>

(* ~ThreadPool sets stop: enqueue throws from now on. *)
StopPool ==
    /\ phase = "leaving"
    /\ members \subseteq {"pool"}
    /\ phase' = "joining"
    /\ UNCHANGED <<host, members, shouldExit, loop, callback, faults>>

(* ~ThreadPool returns; what its workers have to do is the composition's.  *)
JoinPool ==
    /\ phase = "joining"
    /\ loop \in {"none", "ended"}
    /\ members' = {}
    /\ phase' = "gone"
    /\ UNCHANGED <<host, shouldExit, loop, callback, faults>>

-----------------------------------------------------------------------------
(* The loop, on a worker of the pool.                                      *)

(* It tests the flag and goes on. *)
AfterTest == IF shouldExit THEN "ended" ELSE "consuming"

LoopGoes(from, to) == loop = from /\ loop' = to

LoopStart == LoopGoes("queued", AfterTest)
             /\ UNCHANGED <<host, phase, members, shouldExit, callback, faults>>

(* consume() returns after a message.  A message that the stopped pool     *)
(* refuses ends the loop.                                                  *)
LoopConsumes == LoopGoes("consuming", IF callback /\ phase = "joining" THEN "ended" ELSE AfterTest)
                /\ UNCHANGED <<host, phase, members, shouldExit, callback, faults>>

(* A retry that does not test the flag. *)
LoopTimesOutOn == LoopGoes("consuming", "consuming")
                  /\ UNCHANGED <<host, phase, members, shouldExit, callback, faults>>

(* TimeoutError: there was no message for SOCKET_TIMEOUT seconds.          *)
LoopTimesOut == LoopGoes("consuming", AfterTest)
                /\ UNCHANGED <<host, phase, members, shouldExit, callback, faults>>

(* ClosedError: the loop sleeps for a minute. *)
LoopClosed == LoopGoes("consuming", "sleeping") /\ Fault
              /\ UNCHANGED <<host, phase, members, shouldExit, callback>>

(* A new subscriber without a callback. *)
LoopResubscribes == LoopGoes("sleeping", AfterTest)
                    /\ callback' = FALSE
                    /\ UNCHANGED <<host, phase, members, shouldExit, faults>>

(* Any other error ends the loop, and so does one while it subscribes.     *)
LoopError == (LoopGoes("consuming", "ended") \/ LoopGoes("sleeping", "ended")) /\ Fault
             /\ UNCHANGED <<host, phase, members, shouldExit, callback>>

(* What the next step of the loop uses. *)
LoopUses == CASE loop = "consuming" -> {"subscriber"}
              [] loop = "sleeping"  -> {"subscriber", "redis"}
              [] OTHER              -> {}

LifeTypes ==
    /\ members \subseteq Members
    /\ phase \in {"building", "built", "ready", "listening", "leaving", "joining", "gone"}
    /\ shouldExit \in BOOLEAN /\ callback \in BOOLEAN
    /\ loop \in {"none", "queued", "consuming", "sleeping", "ended"}
    /\ faults \in Nat
=============================================================================
