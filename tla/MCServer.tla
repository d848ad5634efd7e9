------------------------------ MODULE MCServer ------------------------------
(* A small instance of Server for TLC. *)
EXTENDS Server

CONSTANTS h1, h2, w0, w1, w2

TwoThreads   == {h1, h2}
ThreeWorkers == {w0, w1, w2}

OneTitle == {"p"}
Cpp == {"C++"}

(* No tests, the usual numbering uploaded out of order, one that does not  *)
(* begin with 1, and one with a duplicate.                                 *)
AllTables == {<<>>, <<2, 1>>, <<2, 2>>, <<2, 3>>}

(* Exact in bytes; refused by the column; wraps in kB and in bytes.        *)
KBytes == {6, 20, 41}

Dir(w) == [exists |-> TRUE, special |-> TRUE, ownerRead |-> TRUE, ownerWrite |-> w]

Policy(e, r) == [exists |-> e, special |-> FALSE, ownerRead |-> r, ownerWrite |-> TRUE]

Host(root, policy, ok) == [root |-> root, proc |-> Dir(FALSE), cgroup |-> Dir(TRUE),
                           policy |-> policy, policyCompiles |-> ok]

(* The server is started by root, by another user, and without a policy.   *)
AHost  == {Host(TRUE, Policy(TRUE, TRUE), TRUE), Host(FALSE, Policy(TRUE, TRUE), TRUE),
           Host(TRUE, Policy(FALSE, FALSE), FALSE)}
=============================================================================
