------------------------------ MODULE MCDbPool ------------------------------
(* Small instances of DbPool for TLC. *)
EXTENDS DbPool

CONSTANTS a, b, c

TwoThreads   == {a, b}
ThreeThreads == {a, b, c}

NoEscapes  == {}
AllEscapes == {"parameter", "lockError"}
=============================================================================
