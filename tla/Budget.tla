------------------------------- MODULE Budget -------------------------------
(***************************************************************************)
(* The runaway-loop guard and the per-process ceilings                     *)
(* (governance/budget.py), as governed calls of several threads of one     *)
(* process go through them (governance/decorators.py).                     *)
(*                                                                         *)
(* check_and_record reads the clock BEFORE it takes the tracker's lock, so *)
(* the times in a fingerprint's window need not be in order, and the loop  *)
(* that prunes the window only looks at its left end.                      *)
(*                                                                         *)
(* A window (a deque of times) is kept as the history of everything that   *)
(* was ever appended to it and the number of entries its left end lost.    *)
(***************************************************************************)
EXTENDS Integers, Sequences, FiniteSets

CONSTANTS
    Threads,        \* threads of the process that make governed calls
    Fingerprints,   \* (tool, params) pairs
    Settings,       \* values of QUEUE_RUNAWAY_MAX and QUEUE_RUNAWAY_WINDOW_SEC
    MaxToolCalls,   \* QUEUE_MAX_TOOL_CALLS, or None
    MaxToolSeconds, \* QUEUE_MAX_TOOL_SECONDS, or None
    None,
    MaxStall,       \* assumed: the longest wait between the clock and the lock
    LongestCall,    \* assumed: the longest time from a call's start to its end
    Horizon,        \* bound: the last instant
    MaxChanges      \* bound: how often the environment is edited

ASSUME ThreadsAssumption == IsFiniteSet(Threads) /\ Threads # {}
ASSUME SettingsAssumption == Settings \subseteq [max : Nat, window : Nat]
ASSUME CeilingsAssumption == /\ MaxToolCalls \in Nat \cup {None}
                             /\ MaxToolSeconds \in Nat \cup {None}
                             /\ None \notin Nat
ASSUME TimeAssumption == MaxStall \in Nat /\ LongestCall \in Nat \ {0}

VARIABLES
    now,            \* time.time(), in seconds
    runaway,        \* the two runaway limits in the environment
    changes,        \* how often the environment was edited
    \* the tracker's _State
    totalCalls, totalSeconds,
    appended,       \* per fingerprint: the entries ever appended to its window
    popped,         \* per fingerprint: how many of them were popped from the left
    \* each thread's call
    pc, fp, start,
    \* history
    rule,           \* why the thread's last call was stopped
    mark,           \* Len(appended) when the runaway limits last changed
    spent           \* the part of totalSeconds that admitted calls added

tracker == <<totalCalls, totalSeconds, appended, popped>>
vars    == <<now, runaway, changes, tracker, pc, fp, start, rule, mark, spent>>

Rules == {"none", "budget_calls", "budget_seconds", "budget_runaway"}
Entry == [stamp : Nat, at : Nat]    \* the time noted, and the time it was noted at

Running == {t \in Threads : pc[t] = "running"}
Window(f) == SubSeq(appended[f], popped[f] + 1, Len(appended[f]))

Init ==
    /\ now = 0 /\ changes = 0
    /\ runaway \in Settings
    /\ totalCalls = 0 /\ totalSeconds = 0 /\ spent = 0
    /\ appended = [f \in Fingerprints |-> << >>]
    /\ popped = [f \in Fingerprints |-> 0]
    /\ mark = [f \in Fingerprints |-> 0]
    /\ pc = [t \in Threads |-> "idle"]
    /\ fp \in [Threads -> Fingerprints]
    /\ start = [t \in Threads |-> 0]
    /\ rule = [t \in Threads |-> "none"]

\* A governed call starts and reads the clock; it does not have the lock yet.
Enter(t, f) ==
    /\ pc[t] = "idle"
    /\ pc' = [pc EXCEPT ![t] = "stamped"]
    /\ fp' = [fp EXCEPT ![t] = f]
    /\ start' = [start EXCEPT ![t] = now]
    /\ rule' = [rule EXCEPT ![t] = "none"]
    /\ UNCHANGED <<now, runaway, changes, tracker, mark, spent>>

\* Mutant: the wall time is compared the wrong side of the ceiling.
SecondsPassed == MaxToolSeconds # None /\ totalSeconds > MaxToolSeconds

CallsReached   == MaxToolCalls # None /\ totalCalls >= MaxToolCalls
SecondsReached == MaxToolSeconds # None /\ totalSeconds >= MaxToolSeconds

\* BudgetExceeded leaves the wrapper's pre-check.
Stop(t, r) == /\ pc' = [pc EXCEPT ![t] = "stopped"]
              /\ rule' = [rule EXCEPT ![t] = r]
              /\ UNCHANGED totalCalls

Admit(t) == /\ pc' = [pc EXCEPT ![t] = "running"]
            /\ totalCalls' = totalCalls + 1
            /\ UNCHANGED rule

BreakerOn == runaway.max > 0 /\ runaway.window > 0

\* Mutant: nothing is ever popped.
NoPops(dq, cutoff) == {0}

\* How many entries the loop pops: it stops at the first that is not too old.
Pops(dq, cutoff) ==
    {k \in 0 .. Len(dq) : /\ \A i \in 1 .. k : dq[i].stamp < cutoff
                          /\ k < Len(dq) => dq[k + 1].stamp >= cutoff}

\* Mutant: an off-by-one in the breaker.
AlmostExhausted(n) == n > runaway.max

Exhausted(n) == n >= runaway.max

\* The runaway breaker: prune, then trip or note the call.
Breaker(t) ==
    LET f == fp[t]
    IN  \E k \in Pops(Window(f), start[t] - runaway.window) :
          /\ popped' = [popped EXCEPT ![f] = @ + k]
          /\ IF Exhausted(Len(Window(f)) - k)
             THEN Stop(t, "budget_runaway") /\ UNCHANGED appended
             ELSE /\ Admit(t)
                  /\ appended' = [appended EXCEPT
                                    ![f] = Append(@, [stamp |-> start[t], at |-> now])]

\* check_and_record, from the lock to its end.
Check(t) ==
    /\ pc[t] = "stamped"
    /\ \/ CallsReached /\ Stop(t, "budget_calls") /\ UNCHANGED <<appended, popped>>
       \/ ~CallsReached /\ SecondsReached
            /\ Stop(t, "budget_seconds") /\ UNCHANGED <<appended, popped>>
       \/ ~CallsReached /\ ~SecondsReached /\ BreakerOn /\ Breaker(t)
       \/ ~CallsReached /\ ~SecondsReached /\ ~BreakerOn
            /\ Admit(t) /\ UNCHANGED <<appended, popped>>
    /\ UNCHANGED <<now, runaway, changes, totalSeconds, fp, start, mark, spent>>

\* _finalize: the wall time of every call is added, that of a stopped one too.
Finish(t) ==
    /\ pc[t] \in {"running", "stopped"}
    /\ totalSeconds' = totalSeconds + (now - start[t])
    /\ spent' = IF pc[t] = "running" THEN spent + (now - start[t]) ELSE spent
    /\ pc' = [pc EXCEPT ![t] = "idle"]
    /\ UNCHANGED <<now, runaway, changes, totalCalls, appended, popped, fp, start,
                   rule, mark>>

\* Time passes, within what is assumed of lock waits and call durations.
Tick ==
    /\ now < Horizon
    /\ \A t \in Threads : /\ pc[t] = "stamped" => now - start[t] < MaxStall
                          /\ pc[t] # "idle" => now - start[t] < LongestCall
    /\ now' = now + 1
    /\ UNCHANGED <<runaway, changes, tracker, pc, fp, start, rule, mark, spent>>

\* The limits are read live: the environment is edited in mid-session.
Reconfigure ==
    /\ changes < MaxChanges
    /\ changes' = changes + 1
    /\ runaway' \in Settings \ {runaway}
    /\ mark' = [f \in Fingerprints |-> Len(appended[f])]
    /\ UNCHANGED <<now, tracker, pc, fp, start, rule, spent>>

Next == \/ Tick \/ Reconfigure
        \/ \E t \in Threads : \/ Check(t) \/ Finish(t)
                              \/ \E f \in Fingerprints : Enter(t, f)

Spec == Init /\ [][Next]_vars

-----------------------------------------------------------------------------
TypeOK ==
    /\ now \in Nat /\ changes \in Nat
    /\ runaway \in Settings
    /\ totalCalls \in Nat /\ totalSeconds \in Nat /\ spent \in Nat
    /\ appended \in [Fingerprints -> Seq(Entry)]
    /\ popped \in [Fingerprints -> Nat]
    /\ mark \in [Fingerprints -> Nat]
    /\ pc \in [Threads -> {"idle", "stamped", "running", "stopped"}]
    /\ fp \in [Threads -> Fingerprints]
    /\ start \in [Threads -> Nat]
    /\ rule \in [Threads -> Rules]

(***************************************************************************)
(* While the runaway limits stay as they are, of identical calls the       *)
(* (k + max)-th is admitted more than window - MaxStall after the k-th:    *)
(* no shorter stretch of time holds more than max of them, in whatever     *)
(* order their threads read the clock and got the lock (budget.py:117-162).*)
(***************************************************************************)
RunawayBound ==
    BreakerOn =>
      \A f \in Fingerprints : \A i, j \in DOMAIN appended[f] :
        i > mark[f] /\ j = i + runaway.max =>
          appended[f][j].at - appended[f][i].at > runaway.window - MaxStall

(***************************************************************************)
(* The breaker only trips on a loop: whenever it stops a call, max calls   *)
(* with the same fingerprint were admitted in the last window + MaxStall,  *)
(* although the pruning loop leaves entries behind that are too old        *)
(* (budget.py:151-161).                                                    *)
(***************************************************************************)
TripJustified ==
    [][\A t \in Threads :
         pc[t] = "stamped" /\ rule'[t] = "budget_runaway" =>
           LET past == appended[fp[t]]
           IN  /\ Len(past) >= runaway.max
               /\ \A i \in DOMAIN past :
                    i > Len(past) - runaway.max =>
                      past[i].at >= now - (runaway.window + MaxStall)]_vars

(***************************************************************************)
(* The ceilings bound what is spent, not only what was spent when a call   *)
(* was let in: calls that are in flight when the ceiling on seconds is     *)
(* reached still end, and they alone can overrun it (budget.py:121-140,    *)
(* decorators.py:420-426).                                                 *)
(***************************************************************************)
CeilingsHold ==
    /\ MaxToolCalls # None => totalCalls <= MaxToolCalls
    /\ MaxToolSeconds # None =>
         spent + LongestCall * Cardinality(Running)
           < MaxToolSeconds + LongestCall * Cardinality(Threads)

=============================================================================
