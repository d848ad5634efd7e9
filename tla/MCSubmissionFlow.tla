-------------------------- MODULE MCSubmissionFlow --------------------------
(* Small instances of SubmissionFlow for TLC. *)
EXTENDS SubmissionFlow, TLC

CONSTANTS w1, w2, w3, s1, s2

TwoWorkers   == {w1, w2}
ThreeWorkers == {w1, w2, w3}
AnyExec == {"UNKNOWN", "TIME_LIMIT_EXCEEDED"}
OneSub       == {s1}
TwoSubs      == {s1, s2}

Sym == Permutations(ThreeWorkers) \cup Permutations(TwoSubs)
=============================================================================
