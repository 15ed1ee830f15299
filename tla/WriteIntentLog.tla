--------------------------- MODULE WriteIntentLog ---------------------------
(***************************************************************************)
(* What the audit trail promises about writes, without databases, locks or *)
(* processes (SECURITY.md:101-105).  A write is first intended, durably;   *)
(* only then may its request leave; a request that left may take effect,   *)
(* even late; and an intent gets at most one verdict, after which no new   *)
(* request leaves under it.  GovernedWrite implements this module.         *)
(***************************************************************************)
CONSTANTS Call, Verdict

VARIABLES intended,    \* calls with a durable intent
          requested,   \* calls whose request is on its way to the broker
          effected,    \* calls the broker carried out
          resolved     \* <<call, verdict>> pairs: the verdicts given so far

logVars == <<intended, requested, effected, resolved>>

Resolved(k) == \E given \in resolved : given[1] = k

Init == /\ intended = {}
        /\ requested = {}
        /\ effected = {}
        /\ resolved = {}

Intend(k) == /\ k \notin intended
             /\ intended' = intended \cup {k}
             /\ UNCHANGED <<requested, effected, resolved>>

Request(k) == /\ k \notin requested \cup effected
              /\ k \in intended
              /\ ~Resolved(k)
              /\ requested' = requested \cup {k}
              /\ UNCHANGED <<intended, effected, resolved>>

Take(k) == /\ k \in requested
           /\ requested' = requested \ {k}
           /\ effected' = effected \cup {k}
           /\ UNCHANGED <<intended, resolved>>

Drop(k) == /\ k \in requested
           /\ requested' = requested \ {k}
           /\ UNCHANGED <<intended, effected, resolved>>

Resolve(k) == /\ k \in intended
              /\ ~Resolved(k)
              /\ \E v \in Verdict : resolved' = resolved \cup {<<k, v>>}
              /\ UNCHANGED <<intended, requested, effected>>

Next == \E k \in Call :
           Intend(k) \/ Request(k) \/ Take(k) \/ Drop(k) \/ Resolve(k)

Spec == Init /\ [][Next]_logVars
=============================================================================
