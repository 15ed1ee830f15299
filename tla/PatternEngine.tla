---------------------------- MODULE PatternEngine ----------------------------
(***************************************************************************)
(* The auto-remediation pattern engine (governance/patterns.py) in one     *)
(* process, whose threads consult it before every call (match) and tell it *)
(* how an armed call ended (report_outcome).  The YAML file of the pattern *)
(* may be edited or removed at any time; match reloads it when its mtime   *)
(* has changed.  The counters are guarded by the engine's lock, reloading  *)
(* is not.                                                                 *)
(*                                                                         *)
(* One pattern that never expires, whose action all calls match and which  *)
(* keeps the default circuit breaker.  Its file, in a directory that       *)
(* exists, is "approved" (armable), "revoked" (unsigned, risky, not valid: *)
(* loaded to no armable pattern) or "gone" (no file).  Every edit gives    *)
(* the file a new mtime.                                                   *)
(***************************************************************************)
EXTENDS Integers, Sequences, FiniteSets

CONSTANTS
    Threads, Targets,
    Hour, Day, HourCap, DayCap,   \* the sliding windows and their caps, 0: none
    Threshold, Cooldown,          \* the circuit breaker
    Horizon,                      \* bound: the last moment of the clock
    MaxEdits                      \* bound: how often the file changes

ASSUME LimitsAssumption ==
    /\ {Hour, Day, HourCap, DayCap, Cooldown, Horizon, MaxEdits} \subseteq Nat
    /\ Threshold \in Nat \ {0}
    /\ Hour <= Day

Content == {"approved", "revoked", "gone"}
Untracked == 0                    \* the mtime of a file that is not in _mtimes

VARIABLES
    clock,
    file,       \* the pattern file: its content and mtime
    patterns,   \* _patterns: the content that is loaded
    mtimes,     \* _mtimes: the mtime that goes with it
    counters,   \* _counters: for each target
    pc, target, \* each thread's step, and the target of its call
    loading,    \* each thread's local new_patterns and new_mtimes
    armings,    \* history: for each target, the armed calls
    outcomes    \* history: for each target, the reports in their order

engine  == <<patterns, mtimes>>
threads == <<pc, target, loading>>
history == <<armings, outcomes>>
vars    == <<clock, file, engine, counters, threads, history>>

Arming   == [n : Nat, at : Nat]   \* the n-th arming for a target, and when it was
Counters == [arm_timestamps : SUBSET Arming, consecutive_failures : Nat, disabled_until : Nat]
PC       == {"idle", "check", "stat", "read", "patterns", "mtimes", "match", "arm", "armed"}
Load     == [content : Content, mtime : Nat]

Init ==
    /\ clock = 1
    /\ \E c \in Content : file = [content |-> c, mtime |-> 1]
    /\ patterns = file.content
    /\ mtimes = IF file.content = "gone" THEN Untracked ELSE file.mtime
    /\ counters = [g \in Targets |-> [arm_timestamps |-> {}, consecutive_failures |-> 0,
                                      disabled_until |-> 0]]
    /\ pc = [t \in Threads |-> "idle"]
    /\ target \in [Threads -> Targets]
    /\ loading = [t \in Threads |-> [content |-> "gone", mtime |-> Untracked]]
    /\ armings = [g \in Targets |-> {}]
    /\ outcomes = [g \in Targets |-> <<>>]

Step(t, from, to) == pc[t] = from /\ pc' = [pc EXCEPT ![t] = to]

Begin(t) ==
    /\ Step(t, "idle", "check")
    /\ \E g \in Targets : target' = [target EXCEPT ![t] = g]
    /\ UNCHANGED <<clock, file, engine, counters, loading, history>>

-----------------------------------------------------------------------------
(***************************************************************************)
(* _maybe_reload and _load, without the lock.                              *)
(***************************************************************************)
OnDisk == IF file.content = "gone" THEN Untracked ELSE file.mtime

CheckFile(t) ==
    /\ Step(t, "check", IF mtimes # OnDisk THEN "stat" ELSE "match")
    /\ UNCHANGED <<clock, file, engine, counters, target, loading, history>>

\* glob and stat: the mtime is taken before the content.
Stat(t) ==
    /\ Step(t, "stat", "read")
    /\ loading' = [loading EXCEPT ![t].mtime = OnDisk]
    /\ UNCHANGED <<clock, file, engine, counters, target, history>>

\* open, parse, validate; a file that glob did not find is not read.
ReadFile(t) ==
    /\ Step(t, "read", "patterns")
    /\ loading' = [loading EXCEPT ![t].content =
                      IF loading[t].mtime = Untracked THEN "gone" ELSE file.content]
    /\ UNCHANGED <<clock, file, engine, counters, target, history>>

StorePatterns(t) ==
    /\ Step(t, "patterns", "mtimes")
    /\ patterns' = loading[t].content
    /\ UNCHANGED <<clock, file, mtimes, counters, target, loading, history>>

StoreMtimes(t) ==
    /\ Step(t, "mtimes", "match")
    /\ mtimes' = loading[t].mtime
    /\ UNCHANGED <<clock, file, patterns, counters, target, loading, history>>

\* The candidates, still without the lock: without an armable one match ends.
Candidates(t) ==
    /\ Step(t, "match", IF patterns = "approved" THEN "arm" ELSE "idle")
    /\ UNCHANGED <<clock, file, engine, counters, target, loading, history>>

-----------------------------------------------------------------------------
(***************************************************************************)
(* The rest of match, for the candidate, and report_outcome, under the     *)
(* lock.                                                                   *)
(***************************************************************************)
Since(arms, moment) == {a \in arms : a.at > moment}

\* Mutant: the list is pruned to what the hourly cap needs.
RecentHour(g) == Since(counters[g].arm_timestamps, clock - Hour)

\* The arm_timestamps that the sliding windows still need.
Recent(g) == Since(counters[g].arm_timestamps, clock - Day)

Broken(g) == clock < counters[g].disabled_until

WithinCaps(g) ==
    /\ HourCap # 0 => Cardinality(Since(Recent(g), clock - Hour)) < HourCap
    /\ DayCap # 0 => Cardinality(Recent(g)) < DayCap

CircuitBroken(t) ==
    /\ Broken(target[t])
    /\ Step(t, "arm", "idle")
    /\ UNCHANGED <<clock, file, engine, counters, target, loading, history>>

RateLimited(t) ==
    /\ ~Broken(target[t]) /\ ~WithinCaps(target[t])
    /\ Step(t, "arm", "idle")
    /\ counters' = [counters EXCEPT ![target[t]].arm_timestamps = Recent(target[t])]
    /\ UNCHANGED <<clock, file, engine, target, loading, history>>

\* Mutant: match does not ask the breaker.
ArmBroken(t) ==
    LET g == target[t]
        a == [n |-> Cardinality(armings[g]) + 1, at |-> clock]
    IN
    /\ WithinCaps(g)
    /\ Step(t, "arm", "armed")
    /\ counters' = [counters EXCEPT ![g].arm_timestamps = Recent(g) \cup {a}]
    /\ armings' = [armings EXCEPT ![g] = @ \cup {a}]
    /\ UNCHANGED <<clock, file, engine, target, loading, outcomes>>

Arm(t) ==
    LET g == target[t]
        a == [n |-> Cardinality(armings[g]) + 1, at |-> clock]
    IN
    /\ ~Broken(g) /\ WithinCaps(g)
    /\ Step(t, "arm", "armed")
    /\ counters' = [counters EXCEPT ![g].arm_timestamps = Recent(g) \cup {a}]
    /\ armings' = [armings EXCEPT ![g] = @ \cup {a}]
    /\ UNCHANGED <<clock, file, engine, target, loading, outcomes>>

\* Mutant: a success also closes an open breaker.
AfterCloses(ctr, ok) ==
    IF ok THEN [ctr EXCEPT !.consecutive_failures = 0, !.disabled_until = 0]
    ELSE [ctr EXCEPT !.consecutive_failures = @ + 1,
                     !.disabled_until = IF ctr.consecutive_failures + 1 >= Threshold
                                        THEN clock + Cooldown ELSE @]

After(ctr, ok) ==
    IF ok THEN [ctr EXCEPT !.consecutive_failures = 0]
    ELSE [ctr EXCEPT !.consecutive_failures = @ + 1,
                     !.disabled_until = IF ctr.consecutive_failures + 1 >= Threshold
                                        THEN clock + Cooldown ELSE @]

\* The armed call has ended, with status "ok" or any other.
Report(t) ==
    LET g == target[t] IN
    /\ Step(t, "armed", "idle")
    /\ \E ok \in BOOLEAN :
          /\ counters' = [counters EXCEPT ![g] = After(@, ok)]
          /\ outcomes' = [outcomes EXCEPT ![g] = Append(@, [ok |-> ok, at |-> clock])]
    /\ UNCHANGED <<clock, file, engine, target, loading, armings>>

-----------------------------------------------------------------------------
Edit ==
    /\ file.mtime <= MaxEdits
    /\ \E c \in Content : file' = [content |-> c, mtime |-> file.mtime + 1]
    /\ UNCHANGED <<clock, engine, counters, threads, history>>

Tick ==
    /\ clock < Horizon
    /\ clock' = clock + 1
    /\ UNCHANGED <<file, engine, counters, threads, history>>

Next ==
    \/ \E t \in Threads :
          \/ Begin(t) \/ CheckFile(t) \/ Stat(t) \/ ReadFile(t) \/ StorePatterns(t) \/ StoreMtimes(t)
          \/ Candidates(t) \/ CircuitBroken(t) \/ RateLimited(t) \/ Arm(t) \/ Report(t)
    \/ Edit \/ Tick

Spec == Init /\ [][Next]_vars

-----------------------------------------------------------------------------
(***************************************************************************)
(* Properties.                                                             *)
(***************************************************************************)

\* Every variable has its type.
TypeOK ==
    /\ clock \in Nat
    /\ file \in [content : Content, mtime : Nat]
    /\ patterns \in Content /\ mtimes \in Nat
    /\ counters \in [Targets -> Counters]
    /\ pc \in [Threads -> PC] /\ target \in [Threads -> Targets]
    /\ loading \in [Threads -> Load]
    /\ armings \in [Targets -> SUBSET Arming]
    /\ outcomes \in [Targets -> Seq([ok : BOOLEAN, at : Nat])]

Window(arms, a, width) == {b \in arms : a.at - width < b.at /\ b.at <= a.at}
AtMost(cap, arms, width) == cap # 0 => \A a \in arms : Cardinality(Window(arms, a, width)) <= cap

\* However the threads interleave and the windows are pruned, no hour holds more armed
\* calls of a target than the hourly cap, and no day more than the daily one.
CapsHold == \A g \in Targets : AtMost(HourCap, armings[g], Hour) /\ AtMost(DayCap, armings[g], Day)

\* The reports up to the k-th end with Threshold failures in a row, which must disable
\* the pattern until Cooldown later.
Trips(reports, k) == /\ k >= Threshold
                     /\ \A i \in k - Threshold + 1 .. k : ~reports[i].ok
Disabled(g) == \E k \in 1 .. Len(outcomes[g]) : /\ Trips(outcomes[g], k)
                                               /\ clock < outcomes[g][k].at + Cooldown

\* The breaker is open exactly while it should be: of the outcomes that arrive late, from
\* calls armed before it opened, a success does not close it, and a failure prolongs it
\* only if Trips says so.
BreakerExact == \A g \in Targets : Broken(g) <=> Disabled(g)

\* The engine keeps the promise of ArmingLimits: a call is armed only while its windows
\* have room and the breaker is closed, as the armed calls and their reports have it,
\* although what match consults are counters that it prunes and that threads share.
A == INSTANCE ArmingLimits WITH
        Target <- Targets,
        now    <- clock,
        armed  <- armings,
        ended  <- outcomes

ImplementsArmingLimits == A!Spec

Reloading(t) == pc[t] \in {"stat", "read", "patterns", "mtimes"}

\* governance/patterns.py:5 "hot-reload on mtime change": if no thread is reloading and
\* the engine sees no reason to, then what it has loaded is what is in the file.
HotReload == (\A t \in Threads : ~Reloading(t)) /\ mtimes = OnDisk => patterns = file.content
=============================================================================
