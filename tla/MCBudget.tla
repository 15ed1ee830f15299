------------------------------ MODULE MCBudget ------------------------------
(***************************************************************************)
(* Budget for TLC: a breaker of two identical calls in four seconds, one   *)
(* the environment can tighten to a single call, or switch off.            *)
(***************************************************************************)
EXTENDS Budget, TLC

CONSTANTS t1, t2, status

Breakers == {[max |-> 2, window |-> 4], [max |-> 1, window |-> 3],
             [max |-> 0, window |-> 4]}
Alike    == Permutations(Threads)

=============================================================================
