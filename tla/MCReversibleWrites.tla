------------------------- MODULE MCReversibleWrites --------------------------
(***************************************************************************)
(* ReversibleWrites for TLC: a policy, a queue and a config parameter.     *)
(***************************************************************************)
EXTENDS ReversibleWrites, TLC

CONSTANTS w1, w2, policy, queue, param, short, long, cut

KindOf == policy :> "policy" @@ queue :> "queue" @@ param :> "config"

\* Every value fits into what the before-state keeps.
Fits == [v \in Values |-> v]

\* A policy whose pattern is longer than 128 characters is fetched cut.
Cuts == [v \in Values |-> IF v = long THEN cut ELSE v]

\* Workers are alike, and so are values when every value fits.
Alike == Permutations({w1, w2}) \cup Permutations({short, long})

KindsHere == [r \in Resources |-> KindOf[r]]
=============================================================================
