--------------------------- MODULE MCPatternEngine ---------------------------
(***************************************************************************)
(* PatternEngine for TLC: two threads that are interchangeable.            *)
(***************************************************************************)
EXTENDS PatternEngine, TLC

CONSTANTS t1, t2, db1

Alike == Permutations(Threads)
=============================================================================
