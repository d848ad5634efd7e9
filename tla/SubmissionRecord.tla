-------------------------- MODULE SubmissionRecord --------------------------
(***************************************************************************)
(* What the database records of a submission, whatever happens on the way  *)
(* to it: nothing, then PENDING, then the verdict on the results of the    *)
(* judge, and never anything else; and at most one judge_results row for a *)
(* test, with the judge's result, only for a submission that is recorded   *)
(* and judged.  Messages may be lost, so each step is one that may happen, *)
(* not one that must.                                                      *)
(***************************************************************************)
EXTENDS Sequences, Naturals

CONSTANTS Subs,          \* submissions
          TestStatuses,  \* statuses of a test that was run
          MaxTests       \* bound: test cases of a problem

VARIABLES row,      \* submission -> submissions.overall_status, or "none"
          results,  \* submission -> test -> statuses of its judge_results rows
          judged    \* submission -> what the judge found

vars == <<row, results, judged>>

Init == /\ row = [s \in Subs |-> "none"]
        /\ results = [s \in Subs |-> [i \in 1..MaxTests |-> <<>>]]
        /\ judged = [s \in Subs |-> [done |-> FALSE, tests |-> 0, results |-> <<>>]]

(* The results on n tests: all are accepted but perhaps the last, and a    *)
(* run that stopped early stopped at a test that was not accepted.         *)
IsRun(n, rs) == /\ \A i \in 1..Len(rs) : i < Len(rs) => rs[i] = "ACCEPTED"
                /\ Len(rs) < n => rs # <<>> /\ rs[Len(rs)] # "ACCEPTED"

(* The verdict on a run is the status of its last test. *)
Verdict(rs) == IF rs = <<>> THEN "COMPILATION_ERROR"
               ELSE IF rs[Len(rs)] = "ACCEPTED" THEN "ACCEPT"
               ELSE rs[Len(rs)]

(* The judge runs the tests, once. *)
Judge(s) == /\ ~judged[s].done
            /\ \E n \in 0..MaxTests : \E k \in 0..n : \E rs \in [1..k -> TestStatuses] :
                  /\ IsRun(n, rs)
                  /\ judged' = [judged EXCEPT
                        ![s] = [done |-> TRUE, tests |-> n, results |-> rs]]
            /\ UNCHANGED <<row, results>>

(* The submission is recorded. *)
Record(s) == /\ row[s] = "none"
             /\ row' = [row EXCEPT ![s] = "PENDING"]
             /\ UNCHANGED <<results, judged>>

(* The verdict of the judge replaces PENDING. *)
Settle(s) == /\ row[s] = "PENDING"
             /\ judged[s].done
             /\ row' = [row EXCEPT ![s] = Verdict(judged[s].results)]
             /\ UNCHANGED <<results, judged>>

(* The result of one test is recorded. *)
AddResult(s, i) == /\ row[s] # "none"
                   /\ i \in 1..Len(judged[s].results)
                   /\ results[s][i] = <<>>
                   /\ results' = [results EXCEPT ![s][i] = <<judged[s].results[i]>>]
                   /\ UNCHANGED <<row, judged>>

Next == \E s \in Subs : \/ Judge(s) \/ Record(s) \/ Settle(s)
                        \/ \E i \in 1..MaxTests : AddResult(s, i)

Spec == Init /\ [][Next]_vars
=============================================================================
