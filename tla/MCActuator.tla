----------------------------- MODULE MCActuator -----------------------------
(* Small instances of Actuator for TLC. *)
EXTENDS Actuator, TLC

CONSTANTS a, b

TwoJudges == {a, b}

Sym == Permutations(TwoJudges)
=============================================================================
