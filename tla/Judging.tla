------------------------------ MODULE Judging ------------------------------
(***************************************************************************)
(* How a verdict is found: Judger turns the run of one test into a status, *)
(* the judge task of Application::processJudgeTask runs the tests of a     *)
(* problem in order up to the first that is not accepted, and              *)
(* JudgeResult::setStatus folds their statuses to the overall status.      *)
(*                                                                         *)
(* TestStatus is a bit mask; a fold with | is the set of its statuses.     *)
(***************************************************************************)
EXTENDS Sequences, Naturals

(* What Actuator::execute returns.  UNKNOWN: the program ended by itself.  *)
ExecStatuses == {"UNKNOWN", "RUNTIME_ERROR", "MEMORY_LIMIT_EXCEEDED",
                 "TIME_LIMIT_EXCEEDED"}

TestStatuses == (ExecStatuses \ {"UNKNOWN"}) \cup {"ACCEPTED", "WRONG_ANSWER"}

OverallStatuses == (TestStatuses \ {"ACCEPTED"}) \cup {"ACCEPT", "COMPILATION_ERROR"}

(* Judger::judge: the output of a program that ended by itself is compared *)
(* (with no output, back() is undefined: the comparison goes either way).  *)
Judged(status, same) == IF status # "UNKNOWN" THEN status
                        ELSE IF same THEN "ACCEPTED"
                        ELSE "WRONG_ANSWER"

(* The statuses that judge can return for the runs in execs.  A source     *)
(* that did not compile has no executable: the child fails to execute it.  *)
Outcomes(execs, compiled) ==
    {Judged(e, same) : e \in IF compiled THEN execs ELSE {"RUNTIME_ERROR"},
                       same \in BOOLEAN}

(* The results of the loop over n tests. *)
Runs(n, outcomes) ==
    {rs \in UNION {[1..k -> outcomes] : k \in 0..n} :
        /\ \A i \in 1..Len(rs) - 1 : rs[i] = "ACCEPTED"
        /\ Len(rs) < n => rs # <<>> /\ rs[Len(rs)] # "ACCEPTED"}

(* The order in which setStatus looks at the bits. *)
Priority == <<"WRONG_ANSWER", "MEMORY_LIMIT_EXCEEDED", "TIME_LIMIT_EXCEEDED",
              "INTERNAL_ERROR">>

FirstBit(bits) == LET found == {i \in 1..Len(Priority) : Priority[i] \in bits}
                  IN  IF found = {} THEN "RUNTIME_ERROR"
                      ELSE Priority[CHOOSE i \in found : \A j \in found : i <= j]

(* setStatus that is content with one accepted test. *)
SetStatusAny(rs) == LET bits == {rs[i] : i \in 1..Len(rs)}
                    IN  IF rs = <<>> THEN "COMPILATION_ERROR"
                        ELSE IF "ACCEPTED" \in bits THEN "ACCEPT"
                        ELSE FirstBit(bits)

(* JudgeResult::setStatus, and the name that is stored. *)
SetStatus(rs) == LET bits == {rs[i] : i \in 1..Len(rs)}
                 IN  IF rs = <<>> THEN "COMPILATION_ERROR"
                     ELSE IF bits = {"ACCEPTED"} THEN "ACCEPT"
                     ELSE FirstBit(bits)
=============================================================================
