---------------------------- MODULE ArmingLimits -----------------------------
(***************************************************************************)
(* What the pattern engine promises about an approved pattern, without     *)
(* threads, locks, files or counters (governance/patterns.py:7-12): which  *)
(* calls of a target it arms is decided by the calls it armed and the      *)
(* reports of how they ended, and by the clock, alone.  PatternEngine      *)
(* implements this module.                                                 *)
(***************************************************************************)
EXTENDS Integers, Sequences, FiniteSets

CONSTANTS Target, Hour, Day, HourCap, DayCap, Threshold, Cooldown

VARIABLES now,      \* the time
          armed,    \* for each target, the armed calls: their number and time
          ended     \* for each target, how armed calls ended, in that order

limitVars == <<now, armed, ended>>

Init == /\ now = 1
        /\ armed = [g \in Target |-> {}]
        /\ ended = [g \in Target |-> <<>>]

\* A cap of 0 is none.
Room(g, width, cap) ==
    cap # 0 => Cardinality({a \in armed[g] : now - width < a.at}) < cap

\* Threshold failures in a row end with the k-th report, not long ago.
Tripped(g, k) == /\ k >= Threshold
                 /\ \A i \in k - Threshold + 1 .. k : ~ended[g][i].ok
                 /\ now < ended[g][k].at + Cooldown

Closed(g) == \A k \in 1 .. Len(ended[g]) : ~Tripped(g, k)

Arm(g) == /\ armed' = [armed EXCEPT ![g] =
                         @ \cup {[n |-> Cardinality(armed[g]) + 1, at |-> now]}]
          /\ UNCHANGED <<now, ended>>
          /\ Room(g, Hour, HourCap)
          /\ Room(g, Day, DayCap)
          /\ Closed(g)

End(g) == /\ UNCHANGED <<now, armed>>
          /\ \E ok \in BOOLEAN :
                ended' = [ended EXCEPT ![g] = Append(@, [ok |-> ok, at |-> now])]

Tick == now' = now + 1 /\ UNCHANGED <<armed, ended>>

Next == Tick \/ \E g \in Target : Arm(g) \/ End(g)

Spec == Init /\ [][Next]_limitVars
=============================================================================
