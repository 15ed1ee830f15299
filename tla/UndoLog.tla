------------------------------- MODULE UndoLog -------------------------------
(***************************************************************************)
(* What undo tokens promise about the resources of the broker, without     *)
(* requests, workers or failures (governance/undo.py:1-20).  A change that *)
(* was made may be promised an inverse, once and for all; undoing it makes *)
(* that very change and no other; and it is settled only after that, for   *)
(* good.  ReversibleWrites implements this module.                         *)
(***************************************************************************)
CONSTANTS Call, Resource, Value

VARIABLES resource,   \* the value of every resource
          changed,    \* calls that changed one
          promised,   \* <<call, write>> pairs: the inverse each can be undone with
          inverted,   \* calls whose inverse was made
          settled     \* calls whose undo is over

logVars == <<resource, changed, promised, inverted, settled>>

Init == /\ resource \in [Resource -> Value]
        /\ changed = {}
        /\ promised = {}
        /\ inverted = {}
        /\ settled = {}

Write == [res : Resource, to : Value]

Make(wr) == resource' = [resource EXCEPT ![wr.res] = wr.to]

\* Resources are not ours alone.
OtherChange == /\ UNCHANGED <<changed, promised, inverted, settled>>
               /\ \E wr \in Write : Make(wr)

Change(k) == /\ changed' = changed \cup {k}
             /\ UNCHANGED <<promised, inverted, settled>>
             /\ \E wr \in Write : Make(wr)

\* k makes the inverse of p[1], exactly as it was promised.
Invert(k, p) == /\ changed' = changed \cup {k}
                /\ inverted' = inverted \cup {p[1]}
                /\ UNCHANGED <<promised, settled>>
                /\ Make(p[2])

Promise(k) == /\ \A p \in promised : p[1] # k
              /\ UNCHANGED <<resource, changed, inverted, settled>>
              /\ \E wr \in Write : promised' = promised \cup {<<k, wr>>}

Settle(k) == /\ settled' = settled \cup {k}
             /\ UNCHANGED <<resource, changed, promised, inverted>>

Next == \/ OtherChange
        \/ \E k \in Call \ changed : Change(k) \/ \E p \in promised : Invert(k, p)
        \/ \E k \in changed : Promise(k)
        \/ \E k \in inverted \ settled : Settle(k)

Spec == Init /\ [][Next]_logVars
=============================================================================
