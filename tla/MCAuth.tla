------------------------------ MODULE MCAuth ------------------------------
(* A small instance of Auth for TLC. *)
EXTENDS Auth, TLC

CONSTANTS h1, h2, n1, p1, p2

MCThreads   == {h1, h2}
MCNames     == {n1}
MCPasswords == {p1, p2}

Sym == Permutations(MCThreads) \cup Permutations(MCPasswords)
=============================================================================
