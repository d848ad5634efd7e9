---------------------------- MODULE MCThreadPool ----------------------------
(* Small instances of ThreadPool for TLC. *)
EXTENDS ThreadPool, TLC

CONSTANTS w1, w2, w3, c1, c2, loop, t1, t2, t3

MCWorkers == {w1, w2, w3}
MCCallers == {c1, c2}
MCTasks   == {loop, t1, t2, t3}
MCEndless == {loop}
=============================================================================
