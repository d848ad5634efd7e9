------------------------------- MODULE Server -------------------------------
(***************************************************************************)
(* The server as a whole: requests are handled while main listens, the     *)
(* subscriber loop brings their messages to the pool, and the tasks of the *)
(* pool use the members of the application, which main destroys when       *)
(* listen has returned.                                                    *)
(*                                                                         *)
(* The loop is the first task of the pool.  Looper is the worker that took *)
(* it, and takes other tasks when the loop has ended.  A step that uses a  *)
(* destroyed member is undefined behaviour: it goes on, or the process     *)
(* dies (Undefined).                                                       *)
(***************************************************************************)
EXTENDS Problems, Lifecycle

CONSTANTS Looper,  \* the worker that runs the loop
          MaxLate  \* bound: inputs in a behaviour in which listen returns

ASSUME LooperAssumption == Looper \in Workers

vars == <<problemVars, lifeVars>>

Init == ProblemsInit /\ LifecycleInit

(* bound: faults count as inputs. *)
Within == inputs' + faults' <= MaxInputs

(* The threads of the HTTP server. *)
HttpStep(h) ==
    /\ phase = "listening"
    /\ RequestStep(h)
    /\ UNCHANGED lifeVars

(* What the next step of worker w uses. *)
WorkerUses(w) ==
    CASE running[w].op \notin {"none", "judge"} -> {"db"}
      [] Judging(w, "none")    -> {"services", "db"}
      [] Judging(w, "limits")  -> {"db"}
      [] Judging(w, "run")     -> IF running[w].lang \in Compiled THEN {} ELSE {"config"}
      [] Judging(w, "publish") -> {"redis"}
      [] OTHER                 -> {}

Working(w) == loop \notin {"none", "queued"} /\ (w = Looper => loop = "ended")

WorkerStep(w) == Working(w) /\ TaskStep(w) /\ UNCHANGED lifeVars

(* The loop.  What comes while nobody is subscribed is dropped when the    *)
(* new subscriber is.                                                      *)
LoopStep ==
    \/ (LoopStart \/ LoopTimesOut) /\ UNCHANGED problemVars
    \/ LoopConsumes /\ IF callback /\ phase # "joining" THEN Deliver ELSE Drop
    \/ LoopResubscribes /\ Unheard

LoopFault == (LoopClosed \/ LoopError) /\ UNCHANGED problemVars

(* A task or the loop uses what has been destroyed, and the process dies.  *)
Undefined ==
    /\ \/ ~(LoopUses \subseteq members)
       \/ \E w \in Workers : Working(w) /\ ~(WorkerUses(w) \subseteq members)
    /\ Perish
    /\ UNCHANGED lifeVars

(* The pool has run all its tasks. *)
Drained == queue = <<>> /\ \A w \in Workers : running[w] = NoTask

(* The main thread.  listen returns when its threads are done, and the     *)
(* destructor of the pool when its workers are.                            *)
MainStep ==
    /\ \/ \E m \in Members : Build(m) \/ Destroy(m)
       \/ InitSystem \/ Listen \/ StopPool
       \/ JoinPool /\ Drained
    /\ UNCHANGED problemVars

Stops == /\ \/ BuildFails
            \/ ListenReturns /\ inputs <= MaxLate /\ \A h \in Threads : req[h] = Idle
         /\ UNCHANGED problemVars

Outside == phase = "listening" /\ OutsideStep /\ UNCHANGED lifeVars

(* The process is gone; or it waits for requests, and the loop for nothing.*)
Over == /\ \/ phase = "gone" \/ ~alive
           \/ /\ phase = "listening" /\ loop = "ended"
              /\ Drained /\ \A h \in Threads : req[h] = Idle
        /\ UNCHANGED vars

Next == \/ /\ alive
           /\ \/ \E h \in Threads : HttpStep(h)
              \/ \E w \in Workers : WorkerStep(w)
              \/ LoopStep \/ LoopFault \/ Undefined \/ MainStep \/ Stops \/ Outside
           /\ Within
        \/ Over

(* The main thread and those of the pool are scheduled, consume() times    *)
(* out, and no task takes for ever.  Requests need not come, nor listen    *)
(* return, nor undefined behaviour kill the process.                       *)
Fairness == /\ WF_vars(alive /\ MainStep)
            /\ WF_vars(alive /\ LoopStep)
            /\ \A w \in Workers : WF_vars(alive /\ WorkerStep(w))

Spec == Init /\ [][Next]_vars /\ Fairness

-----------------------------------------------------------------------------
(* Types; a worker has read something only for the judge task it runs.     *)
TypeOK == ProblemTypes /\ LifeTypes

(* Unless the database fails a query or a connection is missing, the       *)
(* process dies of four things only: a submission for which there were no  *)
(* limits when it came, a query of a status that is not cached, two        *)
(* compilations at a time that both look for the compiler, or an exit that *)
(* the loop or a task outlives.  So a problem that has limits keeps them,  *)
(* and a statement that fails never harms more than itself.                *)
SurvivesUse ==
    ~alive /\ ~outage =>
              \/ \E i \in 1..Len(submitted) : ~submitted[i].ready
              \/ blind
              \/ gcc = "assigning" /\ \E w \in Workers : Judging(w, "compile")
              \/ shouldExit /\ (loop # "ended" \/ ~Drained)

(* A member is used only while it exists, whichever step of the start      *)
(* fails, until listen has returned.  The tasks that are left then may use *)
(* members that are gone, but never the pool that runs them.               *)
UsesAreLive ==
    /\ alive /\ ~shouldExit =>
          /\ phase = "building" => \A m \in Members : IsNext(m) => Needs(m) \subseteq members
          /\ LoopUses \subseteq members
          /\ \A w \in Workers : WorkerUses(w) \subseteq members
          /\ \A h \in Threads : req[h] # Idle => members = Members
    /\ ~Drained \/ loop \in {"queued", "consuming", "sleeping"} => "pool" \in members

(* When listen has returned or the start has failed, the process ends.     *)
ExitEnds == (phase = "leaving") ~> (phase = "gone" \/ ~alive)
=============================================================================
