------------------------- MODULE PatternEngineProofs -------------------------
(***************************************************************************)
(* TLAPS proofs about PatternEngine, for any threads, targets and limits:  *)
(* the caps hold, the breaker is open exactly while the reports call for   *)
(* it, and a single thread never overlooks an edit of the pattern file.    *)
(***************************************************************************)
EXTENDS PatternEngine, FiniteSetTheorems, TLAPS

-----------------------------------------------------------------------------
(***************************************************************************)
(* Types.                                                                  *)
(***************************************************************************)

\* A report leaves proper counters.
LEMMA AfterType ==
    ASSUME NEW ctr \in Counters, NEW ok \in BOOLEAN, clock \in Nat
    PROVE  After(ctr, ok) \in Counters
<1>1. clock + Cooldown \in Nat
  BY LimitsAssumption
<1>2. /\ ctr.consecutive_failures \in Nat /\ ctr.disabled_until \in Nat
      /\ ctr.arm_timestamps \in SUBSET Arming
  BY DEF Counters
<1>3. CASE ok
  BY <1>2, <1>3 DEF After, Counters
<1>4. CASE ~ok
  <2> DEFINE fails == ctr.consecutive_failures + 1
  <2> DEFINE until == IF fails >= Threshold THEN clock + Cooldown ELSE ctr.disabled_until
  <2>1. fails \in Nat /\ until \in Nat
    BY <1>1, <1>2
  <2>2. After(ctr, ok) = [ctr EXCEPT !.consecutive_failures = fails, !.disabled_until = until]
    BY <1>4 DEF After
  <2> HIDE DEF fails, until
  <2> QED
    BY <2>1, <2>2 DEF Counters
<1> QED
  BY <1>3, <1>4

TypeInv == TypeOK /\ \A g \in Targets : IsFiniteSet(armings[g])

\* Every variable keeps its type, and only finitely many calls were armed.
THEOREM Typing == Spec => []TypeInv
<1>1. Init => TypeInv
  BY FS_EmptySet DEF Init, TypeInv, TypeOK, Counters, PC, Load, Content, Untracked
<1>2. TypeInv /\ [Next]_vars => TypeInv'
  <2> SUFFICES ASSUME TypeInv, [Next]_vars PROVE TypeInv'
    OBVIOUS
  <2> USE LimitsAssumption DEF TypeOK, TypeInv
  <2>1. ASSUME NEW t \in Threads, NEW from, NEW to \in PC, Step(t, from, to)
        PROVE  pc' \in [Threads -> PC]
    BY <2>1 DEF Step
  <2>2. OnDisk \in Nat /\ \A t \in Threads : loading[t] \in Load
    BY DEF OnDisk, Untracked, Load
  <2>3. ASSUME NEW t \in Threads, Begin(t) \/ CheckFile(t) PROVE TypeInv'
    BY <2>1, <2>3 DEF Begin, CheckFile, PC, engine, history
  <2>4. ASSUME NEW t \in Threads, Stat(t) \/ ReadFile(t) PROVE TypeInv'
    <3>1. CASE Stat(t)
      <4>1. loading' \in [Threads -> Load]
        BY <2>2, <3>1 DEF Stat, Load
      <4> QED
        BY <2>1, <3>1, <4>1 DEF Stat, PC, engine, history
    <3>2. CASE ReadFile(t)
      <4>1. "gone" \in Content /\ file.content \in Content
        BY DEF Content
      <4>2. loading' \in [Threads -> Load]
        BY <2>2, <3>2, <4>1 DEF ReadFile, Load
      <4> QED
        BY <2>1, <3>2, <4>2 DEF ReadFile, PC, engine, history
    <3> QED
      BY <2>4, <3>1, <3>2
  <2>5. ASSUME NEW t \in Threads, StorePatterns(t) \/ StoreMtimes(t) PROVE TypeInv'
    BY <2>1, <2>2, <2>5 DEF StorePatterns, StoreMtimes, PC, history, Load
  <2>6. ASSUME NEW t \in Threads, Candidates(t) \/ CircuitBroken(t) PROVE TypeInv'
    BY <2>1, <2>6 DEF Candidates, CircuitBroken, PC, engine, history
  <2>7. \A t \in Threads : Recent(target[t]) \subseteq Arming /\ target[t] \in Targets
    BY DEF Recent, Since, Counters
  <2>8. ASSUME NEW t \in Threads, RateLimited(t) PROVE TypeInv'
    <3>1. counters' \in [Targets -> Counters]
      BY <2>7, <2>8 DEF RateLimited, Counters
    <3> QED
      BY <2>1, <2>8, <3>1 DEF RateLimited, PC, engine, history
  <2>9. ASSUME NEW t \in Threads, Arm(t) PROVE TypeInv'
    <3> DEFINE a == [n |-> Cardinality(armings[target[t]]) + 1, at |-> clock]
    <3>1. a \in Arming
      BY <2>7, FS_CardinalityType DEF Arming
    <3>2. counters' \in [Targets -> Counters]
      BY <2>7, <2>9, <3>1 DEF Arm, Counters
    <3>3. armings' \in [Targets -> SUBSET Arming]
      BY <2>7, <2>9, <3>1 DEF Arm
    <3>4. \A g \in Targets : IsFiniteSet(armings'[g])
      BY <2>7, <2>9, FS_AddElement DEF Arm
    <3> QED
      BY <2>1, <2>9, <3>2, <3>3, <3>4 DEF Arm, PC, engine
  <2>10. ASSUME NEW t \in Threads, Report(t) PROVE TypeInv'
    <3>1. PICK ok \in BOOLEAN :
             /\ counters' = [counters EXCEPT ![target[t]] = After(@, ok)]
             /\ outcomes' = [outcomes EXCEPT ![target[t]] = Append(@, [ok |-> ok, at |-> clock])]
      BY <2>10 DEF Report
    <3>2. counters' \in [Targets -> Counters]
      BY <2>7, <3>1, AfterType
    <3>3. outcomes' \in [Targets -> Seq([ok : BOOLEAN, at : Nat])]
      BY <2>7, <3>1
    <3> QED
      BY <2>1, <2>10, <3>2, <3>3 DEF Report, PC, engine
  <2>11. CASE Edit
    BY <2>11 DEF Edit, engine, threads, history
  <2>12. CASE Tick
    BY <2>12 DEF Tick, engine, threads, history
  <2>13. CASE UNCHANGED vars
    BY <2>13 DEF vars, engine, threads, history
  <2> QED
    BY <2>3, <2>4, <2>5, <2>6, <2>8, <2>9, <2>10, <2>11, <2>12, <2>13 DEF Next
<1> QED
  BY <1>1, <1>2, PTL DEF Spec

-----------------------------------------------------------------------------
(***************************************************************************)
(* The caps.                                                               *)
(***************************************************************************)
CapsInv ==
    \A g \in Targets :
       /\ \A a \in armings[g] : a.n <= Cardinality(armings[g]) /\ a.at <= clock
       /\ counters[g].arm_timestamps \subseteq armings[g]
       /\ \A a \in armings[g] : a.at > clock - Day => a \in counters[g].arm_timestamps
       /\ AtMost(HourCap, armings[g], Hour)
       /\ AtMost(DayCap, armings[g], Day)

\* One more arming keeps a cap, if the window that ends now has room for it.
LEMMA OneMore ==
    ASSUME NEW cap \in Nat, NEW width \in Nat, NEW arms \in SUBSET Arming, IsFiniteSet(arms),
           AtMost(cap, arms, width),
           NEW now \in Nat, \A b \in arms : b.at <= now,
           NEW a \in Arming, a.at = now,
           cap # 0 => Cardinality(Since(arms, now - width)) < cap
    PROVE  AtMost(cap, arms \cup {a}, width)
<1> SUFFICES ASSUME cap # 0, NEW b \in arms \cup {a}
             PROVE  Cardinality(Window(arms \cup {a}, b, width)) <= cap
  BY DEF AtMost
<1>1. \A x \in arms \cup {a} : x.at \in Nat
  BY DEF Arming
<1>2. CASE b.at < now
  <2>1. b \in arms /\ Window(arms \cup {a}, b, width) = Window(arms, b, width)
    BY <1>1, <1>2 DEF Window
  <2> QED
    BY <2>1 DEF AtMost
<1>3. CASE ~(b.at < now)
  <2>1. b.at = now
    BY <1>1, <1>3
  <2>2. Window(arms \cup {a}, b, width) \subseteq Since(arms, now - width) \cup {a}
    BY <1>1, <2>1 DEF Window, Since
  <2>3. Since(arms, now - width) \subseteq arms
    BY DEF Since
  <2>4. IsFiniteSet(Since(arms, now - width)) /\ Cardinality(Since(arms, now - width)) \in Nat
    BY <2>3, FS_Subset, FS_CardinalityType
  <2>5. /\ IsFiniteSet(Since(arms, now - width) \cup {a})
        /\ Cardinality(Since(arms, now - width) \cup {a}) <= Cardinality(Since(arms, now - width)) + 1
    <3> DEFINE S == Since(arms, now - width)
    <3>1. IsFiniteSet(S) /\ Cardinality(S) \in Nat
      BY <2>4
    <3> HIDE DEF S
    <3>2. /\ IsFiniteSet(S \cup {a})
          /\ Cardinality(S \cup {a}) = IF a \in S THEN Cardinality(S) ELSE Cardinality(S) + 1
      BY <3>1, FS_AddElement
    <3> QED
      BY <3>1, <3>2 DEF S
  <2>6. Cardinality(Window(arms \cup {a}, b, width)) <= Cardinality(Since(arms, now - width) \cup {a})
    BY <2>2, <2>5, FS_Subset
  <2>7. /\ Cardinality(Window(arms \cup {a}, b, width)) \in Nat
        /\ Cardinality(Since(arms, now - width) \cup {a}) \in Nat
    BY <2>2, <2>5, FS_Subset, FS_CardinalityType
  <2> QED
    BY <2>4, <2>5, <2>6, <2>7
<1> QED
  BY <1>2, <1>3

\* The counters keep what the windows need, and the windows keep their caps.
LEMMA Capping == Spec => []CapsInv
<1>1. Init => CapsInv
  BY DEF Init, CapsInv, AtMost
<1>2. TypeInv /\ CapsInv /\ [Next]_vars => CapsInv'
  <2> SUFFICES ASSUME TypeOK, \A g \in Targets : IsFiniteSet(armings[g]), CapsInv, [Next]_vars
               PROVE  CapsInv'
    BY DEF TypeInv
  <2>0. /\ clock \in Nat /\ Day \in Nat /\ Hour \in Nat /\ HourCap \in Nat /\ DayCap \in Nat
        /\ \A g \in Targets : \A a \in armings[g] : a.at \in Nat /\ a.n \in Nat
    BY LimitsAssumption DEF TypeOK, Arming
  <2>1. CASE UNCHANGED <<clock, counters, armings>>
    BY <2>1 DEF CapsInv
  <2>2. ASSUME UNCHANGED armings, clock' \in Nat, clock <= clock',
               \A g \in Targets :
                  /\ counters'[g].arm_timestamps \subseteq counters[g].arm_timestamps
                  /\ \A a \in counters[g].arm_timestamps :
                        a.at > clock - Day => a \in counters'[g].arm_timestamps
        PROVE  CapsInv'
    BY <2>0, <2>2 DEF CapsInv
  <2>3. CASE Tick
    BY <2>0, <2>2, <2>3 DEF Tick, history
  <2>4. ASSUME NEW t \in Threads, RateLimited(t) PROVE CapsInv'
    <3>1. target[t] \in Targets /\ \A g \in Targets : counters[g] \in Counters
      BY DEF TypeOK
    <3>2. \A g \in Targets : counters'[g].arm_timestamps =
             IF g = target[t] THEN Recent(g) ELSE counters[g].arm_timestamps
      BY <2>4, <3>1 DEF RateLimited, Counters, TypeOK
    <3> QED
      BY <2>0, <2>2, <2>4, <3>2 DEF RateLimited, history, Recent, Since
  <2>5. ASSUME NEW t \in Threads, Report(t) PROVE CapsInv'
    <3>1. target[t] \in Targets /\ \A g \in Targets : counters[g] \in Counters
      BY DEF TypeOK
    <3>2. \A ctr \in Counters, ok \in BOOLEAN : After(ctr, ok).arm_timestamps = ctr.arm_timestamps
      BY DEF After, Counters
    <3>3. \A g \in Targets : counters'[g].arm_timestamps = counters[g].arm_timestamps
      BY <2>5, <3>1, <3>2 DEF Report, TypeOK
    <3> QED
      BY <2>0, <2>2, <2>5, <3>3 DEF Report
  <2>6. ASSUME NEW t \in Threads, Arm(t) PROVE CapsInv'
    <3> DEFINE g == target[t]
    <3> DEFINE a == [n |-> Cardinality(armings[g]) + 1, at |-> clock]
    <3>1. /\ g \in Targets /\ armings[g] \in SUBSET Arming /\ IsFiniteSet(armings[g])
          /\ Cardinality(armings[g]) \in Nat /\ counters[g] \in Counters
      BY FS_CardinalityType DEF TypeOK
    <3>2. a \in Arming /\ a.at = clock /\ a.n = Cardinality(armings[g]) + 1
      BY <3>1, <2>0 DEF Arming
    <3>3. /\ armings' = [armings EXCEPT ![g] = armings[g] \cup {a}]
          /\ counters' = [counters EXCEPT ![g].arm_timestamps = Recent(g) \cup {a}]
          /\ clock' = clock /\ WithinCaps(g)
      BY <2>6 DEF Arm
    <3> HIDE DEF a, g
    <3>4. \A h \in Targets : h # g => armings'[h] = armings[h] /\ counters'[h] = counters[h]
      BY <3>1, <3>3 DEF TypeOK
    <3>5. armings'[g] = armings[g] \cup {a} /\ counters'[g].arm_timestamps = Recent(g) \cup {a}
      BY <3>1, <3>3 DEF TypeOK, Counters
    <3>6. a \notin armings[g] /\ Cardinality(armings[g] \cup {a}) = Cardinality(armings[g]) + 1
      <4>1. a \notin armings[g]
        BY <2>0, <3>1, <3>2 DEF CapsInv
      <4> QED
        BY <3>1, <4>1, FS_AddElement
    <3>7. Recent(g) = Since(armings[g], clock - Day)
      BY <3>1 DEF CapsInv, Recent, Since
    <3>8. Since(Recent(g), clock - Hour) = Since(armings[g], clock - Hour)
      BY <2>0, <3>1, <3>7, LimitsAssumption DEF Since
    <3>9. /\ AtMost(HourCap, armings[g] \cup {a}, Hour)
          /\ AtMost(DayCap, armings[g] \cup {a}, Day)
      <4>1. /\ AtMost(HourCap, armings[g], Hour) /\ AtMost(DayCap, armings[g], Day)
            /\ \A b \in armings[g] : b.at <= clock
        BY <3>1 DEF CapsInv
      <4>2. /\ HourCap # 0 => Cardinality(Since(armings[g], clock - Hour)) < HourCap
            /\ DayCap # 0 => Cardinality(Since(armings[g], clock - Day)) < DayCap
        BY <3>3, <3>7, <3>8 DEF WithinCaps
      <4> QED
        BY <2>0, <3>1, <3>2, <4>1, <4>2, OneMore
    <3>10. /\ \A b \in armings'[g] : b.n <= Cardinality(armings'[g]) /\ b.at <= clock'
           /\ counters'[g].arm_timestamps \subseteq armings'[g]
           /\ \A b \in armings'[g] : b.at > clock' - Day => b \in counters'[g].arm_timestamps
      <4>1. /\ \A b \in armings[g] : b.n <= Cardinality(armings[g]) /\ b.at <= clock
            /\ counters[g].arm_timestamps \subseteq armings[g]
        BY <3>1 DEF CapsInv
      <4>2. \A b \in armings'[g] : b.n <= Cardinality(armings'[g]) /\ b.at <= clock'
        <5>1. Cardinality(armings'[g]) = Cardinality(armings[g]) + 1
          BY <3>5, <3>6
        <5> SUFFICES ASSUME NEW b \in armings[g] \cup {a}
                     PROVE  b.n <= Cardinality(armings[g]) + 1 /\ b.at <= clock
          BY <3>3, <3>5, <5>1
        <5>2. CASE b = a
          BY <2>0, <3>1, <3>2, <5>2
        <5>3. CASE b \in armings[g]
          BY <2>0, <3>1, <4>1, <5>3
        <5> QED
          BY <5>2, <5>3
      <4>3. \A b \in armings'[g] : b.at > clock' - Day => b \in counters'[g].arm_timestamps
        BY <3>3, <3>5, <3>7 DEF Since
      <4>4. counters'[g].arm_timestamps \subseteq armings'[g]
        BY <3>5, <3>7 DEF Since
      <4> QED
        BY <4>2, <4>3, <4>4
    <3> QED
      BY <3>3, <3>4, <3>5, <3>9, <3>10 DEF CapsInv
  <2> QED
    BY <2>1, <2>3, <2>4, <2>5, <2>6
       DEF Next, vars, engine, history, Begin, CheckFile, Stat, ReadFile, StorePatterns, StoreMtimes,
           Candidates, CircuitBroken, Edit
<1> QED
  BY <1>1, <1>2, Typing, PTL DEF Spec

\* No hour and no day ever holds more armed calls of a target than its cap.
THEOREM Caps == Spec => []CapsHold
<1>1. CapsInv => CapsHold
  BY DEF CapsInv, CapsHold
<1> QED
  BY <1>1, Capping, PTL

-----------------------------------------------------------------------------
(***************************************************************************)
(* The breaker.                                                            *)
(***************************************************************************)
Reported == [ok : BOOLEAN, at : Nat]

\* The counters of a target against its reports o: the failures in a row are the run that
\* the reports end with, and disabled_until is what the last trip set.
Counted(ctr, o) ==
    /\ ctr.consecutive_failures \in 0 .. Len(o)
    /\ \A i \in Len(o) - ctr.consecutive_failures + 1 .. Len(o) : ~o[i].ok
    /\ ctr.consecutive_failures < Len(o) => o[Len(o) - ctr.consecutive_failures].ok
    /\ \A k \in 1 .. Len(o) : Trips(o, k) => o[k].at + Cooldown <= ctr.disabled_until
    /\ \/ ctr.disabled_until = 0
       \/ \E k \in 1 .. Len(o) : Trips(o, k) /\ ctr.disabled_until = o[k].at + Cooldown

BreakerInv ==
    \A g \in Targets : /\ \A k \in 1 .. Len(outcomes[g]) : outcomes[g][k].at <= clock
                       /\ Counted(counters[g], outcomes[g])

\* A report that a call of a target ended leaves its counters and reports in step.
LEMMA AfterCounted ==
    ASSUME NEW ctr \in Counters, NEW o \in Seq(Reported), Counted(ctr, o), clock \in Nat,
           \A k \in 1 .. Len(o) : o[k].at <= clock, NEW ok \in BOOLEAN
    PROVE  Counted(After(ctr, ok), Append(o, [ok |-> ok, at |-> clock]))
<1> DEFINE p == Append(o, [ok |-> ok, at |-> clock])
<1> DEFINE f == ctr.consecutive_failures
<1> DEFINE n == Len(o)
<1>1. /\ n \in Nat /\ Len(p) = n + 1 /\ p[n + 1] = [ok |-> ok, at |-> clock]
      /\ \A k \in 1 .. n : p[k] = o[k] /\ o[k] \in Reported
  OBVIOUS
<1>2. /\ f \in 0 .. n
      /\ \A i \in n - f + 1 .. n : ~o[i].ok
      /\ f < n => o[n - f].ok
      /\ \A k \in 1 .. n : Trips(o, k) => o[k].at + Cooldown <= ctr.disabled_until
      /\ \/ ctr.disabled_until = 0
         \/ \E k \in 1 .. n : Trips(o, k) /\ ctr.disabled_until = o[k].at + Cooldown
  BY DEF Counted
<1>3. /\ Threshold \in Nat \ {0} /\ Cooldown \in Nat /\ ctr.disabled_until \in Nat
      /\ \A k \in 1 .. n : o[k].at \in Nat
  BY <1>1, LimitsAssumption DEF Counters, Reported
<1> DEFINE c == After(ctr, ok)
<1>4. /\ c.consecutive_failures = IF ok THEN 0 ELSE f + 1
      /\ c.disabled_until = IF ~ok /\ f + 1 >= Threshold THEN clock + Cooldown ELSE ctr.disabled_until
  BY DEF After, Counters
<1> HIDE DEF p, f, n, c
<1>5. \A k \in 1 .. n : Trips(p, k) <=> Trips(o, k)
  <2> SUFFICES ASSUME NEW k \in 1 .. n PROVE Trips(p, k) <=> Trips(o, k)
    OBVIOUS
  <2>1. k >= Threshold => \A i \in k - Threshold + 1 .. k : p[i] = o[i]
    BY <1>1, <1>3
  <2> QED
    BY <2>1 DEF Trips
<1>6. Trips(p, n + 1) <=> ~ok /\ f + 1 >= Threshold
  <2> DEFINE last == n + 1 - Threshold + 1 .. n + 1
  <2>0. Trips(p, n + 1) <=> n + 1 >= Threshold /\ \A i \in last : ~p[i].ok
    BY <1>1, <1>3 DEF Trips, last
  <2> HIDE DEF last
  <2>1. ASSUME ~ok, f + 1 >= Threshold PROVE Trips(p, n + 1)
    <3>1. n + 1 >= Threshold
      BY <1>1, <1>2, <1>3, <2>1
    <3>2. ASSUME NEW i \in last PROVE ~p[i].ok
      <4>1. CASE i = n + 1
        BY <1>1, <2>1, <4>1
      <4>2. CASE i # n + 1
        <5>1. i \in n - f + 1 .. n /\ i \in 1 .. n
          BY <1>1, <1>2, <1>3, <2>1, <3>1, <4>2 DEF last
        <5> QED
          BY <1>1, <1>2, <5>1
      <4> QED
        BY <4>1, <4>2
    <3> QED
      BY <2>0, <3>1, <3>2
  <2>2. ASSUME Trips(p, n + 1) PROVE ~ok /\ f + 1 >= Threshold
    <3>1. ~ok
      BY <1>1, <1>3, <2>2 DEF Trips
    <3>2. ASSUME f + 1 < Threshold PROVE FALSE
      <4>1. n + 1 >= Threshold
        BY <2>2 DEF Trips
      <4>2. f < n /\ n - f \in 1 .. n /\ n - f \in last
        BY <1>1, <1>2, <1>3, <3>2, <4>1 DEF last
      <4>3. ~p[n - f].ok
        BY <2>0, <2>2, <4>2
      <4> QED
        BY <1>1, <1>2, <4>2, <4>3
    <3> QED
      BY <1>1, <1>2, <1>3, <3>1, <3>2
  <2> QED
    BY <2>1, <2>2
<1>7. c.consecutive_failures \in 0 .. n + 1
  BY <1>1, <1>2, <1>4
<1>8. \A i \in n + 1 - c.consecutive_failures + 1 .. n + 1 : ~p[i].ok
  <2> SUFFICES ASSUME NEW i \in n + 1 - c.consecutive_failures + 1 .. n + 1 PROVE ~p[i].ok
    OBVIOUS
  <2>1. ~ok /\ c.consecutive_failures = f + 1
    BY <1>1, <1>4
  <2>2. CASE i = n + 1
    BY <1>1, <2>1, <2>2
  <2>3. CASE i # n + 1
    <3>1. i \in n - f + 1 .. n /\ i \in 1 .. n
      BY <1>1, <1>2, <2>1, <2>3
    <3> QED
      BY <1>1, <1>2, <3>1
  <2> QED
    BY <2>2, <2>3
<1>9. c.consecutive_failures < n + 1 => p[n + 1 - c.consecutive_failures].ok
  <2>1. CASE ok
    BY <1>1, <1>4, <2>1
  <2>2. CASE ~ok
    <3> SUFFICES ASSUME c.consecutive_failures < n + 1
                 PROVE  p[n + 1 - c.consecutive_failures].ok
      OBVIOUS
    <3>1. f < n /\ n + 1 - c.consecutive_failures = n - f /\ n - f \in 1 .. n
      BY <1>1, <1>2, <1>4, <2>2
    <3> QED
      BY <1>1, <1>2, <3>1
  <2> QED
    BY <2>1, <2>2
<1>10. \A k \in 1 .. n + 1 : Trips(p, k) => p[k].at + Cooldown <= c.disabled_until
  <2> SUFFICES ASSUME NEW k \in 1 .. n + 1, Trips(p, k)
               PROVE  p[k].at + Cooldown <= c.disabled_until
    OBVIOUS
  <2>1. CASE k = n + 1
    BY <1>1, <1>3, <1>4, <1>6, <2>1
  <2>2. CASE k # n + 1
    <3>1. k \in 1 .. n
      BY <1>1, <2>2
    <3>2. p[k].at = o[k].at /\ o[k].at \in Nat /\ o[k].at <= clock
      BY <1>1, <1>3, <3>1 DEF n
    <3>3. o[k].at + Cooldown <= ctr.disabled_until
      BY <1>2, <1>5, <3>1
    <3> QED
      BY <1>3, <1>4, <3>2, <3>3
  <2> QED
    BY <2>1, <2>2
<1>11. \/ c.disabled_until = 0
       \/ \E k \in 1 .. n + 1 : Trips(p, k) /\ c.disabled_until = p[k].at + Cooldown
  <2>1. CASE ~ok /\ f + 1 >= Threshold
    <3>1. n + 1 \in 1 .. n + 1 /\ p[n + 1].at = clock
      BY <1>1
    <3> QED
      BY <1>4, <1>6, <2>1, <3>1
  <2>2. CASE ~(~ok /\ f + 1 >= Threshold) /\ ctr.disabled_until = 0
    BY <1>4, <2>2
  <2>3. CASE ~(~ok /\ f + 1 >= Threshold) /\ ctr.disabled_until # 0
    <3>1. PICK k \in 1 .. n : Trips(o, k) /\ ctr.disabled_until = o[k].at + Cooldown
      BY <1>2, <2>3
    <3>2. k \in 1 .. n + 1 /\ Trips(p, k) /\ p[k].at = o[k].at
      BY <1>1, <1>5, <3>1
    <3> QED
      BY <1>4, <2>3, <3>1, <3>2
  <2> QED
    BY <2>1, <2>2, <2>3
<1>12. Counted(c, p)
  BY <1>1, <1>7, <1>8, <1>9, <1>10, <1>11 DEF Counted
<1> QED
  BY <1>12 DEF c, p

\* The reports of a target are records of their type.
LEMMA EachReported ==
    ASSUME NEW o \in Seq(Reported)
    PROVE  \A k \in 1 .. Len(o) : o[k] \in Reported /\ o[k].at \in Nat
<1>1. \A k \in 1 .. Len(o) : o[k] \in Reported
  OBVIOUS
<1> QED
  BY <1>1 DEF Reported

\* The breaker is open exactly while the reports call for it.
THEOREM Breaker == Spec => []BreakerExact
<1> USE LimitsAssumption
<1>1. Init => BreakerInv
  <2> SUFFICES ASSUME Init, NEW g \in Targets
               PROVE  /\ \A k \in 1 .. Len(outcomes[g]) : outcomes[g][k].at <= clock
                      /\ Counted(counters[g], outcomes[g])
    BY DEF BreakerInv
  <2>1. /\ outcomes[g] = <<>> /\ Len(outcomes[g]) = 0
        /\ counters[g].consecutive_failures = 0 /\ counters[g].disabled_until = 0
    BY DEF Init
  <2> QED
    BY <2>1 DEF Counted
<1>2. TypeInv /\ BreakerInv /\ [Next]_vars => BreakerInv'
  <2> SUFFICES ASSUME TypeOK, BreakerInv, [Next]_vars PROVE BreakerInv'
    BY DEF TypeInv
  <2>0. /\ clock \in Nat /\ \A t \in Threads : target[t] \in Targets
        /\ counters \in [Targets -> Counters] /\ outcomes \in [Targets -> Seq(Reported)]
    BY DEF TypeOK, Reported
  <2>1. ASSUME UNCHANGED outcomes, clock' \in Nat, clock <= clock',
               \A g \in Targets :
                  /\ counters'[g].consecutive_failures = counters[g].consecutive_failures
                  /\ counters'[g].disabled_until = counters[g].disabled_until
        PROVE  BreakerInv'
    <3> SUFFICES ASSUME NEW g \in Targets
                 PROVE  /\ \A k \in 1 .. Len(outcomes'[g]) : outcomes'[g][k].at <= clock'
                        /\ Counted(counters'[g], outcomes'[g])
      BY DEF BreakerInv
    <3>0. Counted(counters[g], outcomes[g]) /\ outcomes[g] \in Seq(Reported)
      BY <2>0 DEF BreakerInv
    <3> DEFINE c == counters[g]
    <3> DEFINE d == counters'[g]
    <3>1. c.consecutive_failures = d.consecutive_failures /\ c.disabled_until = d.disabled_until
      BY <2>1
    <3> HIDE DEF c, d
    <3>2. Counted(c, outcomes[g]) => Counted(d, outcomes[g])
      BY <3>1 DEF Counted
    <3>3. Counted(counters'[g], outcomes'[g])
      BY <2>1, <3>0, <3>2 DEF c, d
    <3>4. \A k \in 1 .. Len(outcomes[g]) : outcomes[g][k].at \in Nat
      BY <3>0, EachReported
    <3>5. \A k \in 1 .. Len(outcomes[g]) : outcomes[g][k].at <= clock
      BY DEF BreakerInv
    <3> QED
      BY <2>0, <2>1, <3>3, <3>4, <3>5
  <2>2. CASE UNCHANGED <<clock, counters, outcomes>>
    BY <2>0, <2>1, <2>2
  <2>3. CASE Tick
    BY <2>0, <2>1, <2>3 DEF Tick, history
  <2>4. ASSUME NEW t \in Threads, RateLimited(t) \/ Arm(t) PROVE BreakerInv'
    <3>1. /\ clock' = clock /\ outcomes' = outcomes
          /\ \E S : counters' = [counters EXCEPT ![target[t]].arm_timestamps = S]
      BY <2>4 DEF RateLimited, Arm, history
    <3>2. \A g \in Targets :
             /\ counters'[g].consecutive_failures = counters[g].consecutive_failures
             /\ counters'[g].disabled_until = counters[g].disabled_until
      BY <2>0, <3>1 DEF Counters
    <3> QED
      BY <2>0, <2>1, <3>1, <3>2
  <2>5. ASSUME NEW t \in Threads, Report(t) PROVE BreakerInv'
    <3>1. PICK ok \in BOOLEAN :
             /\ counters' = [counters EXCEPT ![target[t]] = After(@, ok)]
             /\ outcomes' = [outcomes EXCEPT ![target[t]] = Append(@, [ok |-> ok, at |-> clock])]
      BY <2>5 DEF Report
    <3>2. clock' = clock
      BY <2>5 DEF Report
    <3> SUFFICES ASSUME NEW g \in Targets
                 PROVE  /\ \A k \in 1 .. Len(outcomes'[g]) : outcomes'[g][k].at <= clock
                        /\ Counted(counters'[g], outcomes'[g])
      BY <3>2 DEF BreakerInv
    <3>3. CASE g # target[t]
      BY <2>0, <3>1, <3>3 DEF BreakerInv
    <3>4. CASE g = target[t]
      <4>1. /\ counters'[g] = After(counters[g], ok)
            /\ outcomes'[g] = Append(outcomes[g], [ok |-> ok, at |-> clock])
        BY <2>0, <3>1, <3>4
      <4>2. /\ \A k \in 1 .. Len(outcomes[g]) : outcomes[g][k].at <= clock
            /\ Counted(counters[g], outcomes[g])
            /\ counters[g] \in Counters /\ outcomes[g] \in Seq(Reported)
        BY <2>0 DEF BreakerInv
      <4>3. Counted(counters'[g], outcomes'[g])
        BY <2>0, <4>1, <4>2, AfterCounted
      <4>4. \A k \in 1 .. Len(outcomes'[g]) : outcomes'[g][k].at <= clock
        BY <2>0, <4>1, <4>2
      <4> QED
        BY <4>3, <4>4
    <3> QED
      BY <3>3, <3>4
  <2> QED
    BY <2>2, <2>3, <2>4, <2>5
       DEF Next, vars, engine, history, Begin, CheckFile, Stat, ReadFile, StorePatterns, StoreMtimes,
           Candidates, CircuitBroken, Edit
<1>3. TypeInv /\ BreakerInv => BreakerExact
  <2> SUFFICES ASSUME TypeOK, BreakerInv, NEW g \in Targets PROVE Broken(g) <=> Disabled(g)
    BY DEF TypeInv, BreakerExact
  <2>1. /\ clock \in Nat /\ counters[g].disabled_until \in Nat
        /\ \A k \in 1 .. Len(outcomes[g]) : outcomes[g][k].at \in Nat
    <3>1. counters[g] \in Counters /\ outcomes[g] \in Seq(Reported) /\ clock \in Nat
      BY DEF TypeOK, Reported
    <3>2. counters[g].disabled_until \in Nat
      BY <3>1 DEF Counters
    <3> QED
      BY <3>1, <3>2, EachReported
  <2>2. /\ \A k \in 1 .. Len(outcomes[g]) : Trips(outcomes[g], k)
              => outcomes[g][k].at + Cooldown <= counters[g].disabled_until
        /\ \/ counters[g].disabled_until = 0
           \/ \E k \in 1 .. Len(outcomes[g]) : /\ Trips(outcomes[g], k)
                                               /\ counters[g].disabled_until = outcomes[g][k].at + Cooldown
    BY DEF BreakerInv, Counted
  <2>3. Broken(g) => Disabled(g)
    BY <2>1, <2>2 DEF Broken, Disabled
  <2>4. ASSUME Disabled(g) PROVE Broken(g)
    <3>1. PICK k \in 1 .. Len(outcomes[g]) : /\ Trips(outcomes[g], k)
                                              /\ clock < outcomes[g][k].at + Cooldown
      BY <2>4 DEF Disabled
    <3> DEFINE end == outcomes[g][k].at + Cooldown
    <3> DEFINE until == counters[g].disabled_until
    <3>2. end <= until /\ clock < end
      BY <2>2, <3>1
    <3>3. end \in Nat /\ until \in Nat /\ clock \in Nat
      BY <2>1
    <3> HIDE DEF end
    <3>4. clock < until
      <4> HIDE DEF until
      <4> QED
        BY <3>2, <3>3
    <3> QED
      BY <3>4 DEF Broken
  <2> QED
    BY <2>3, <2>4
<1> QED
  BY <1>1, <1>2, <1>3, Typing, PTL DEF Spec

-----------------------------------------------------------------------------
(***************************************************************************)
(* Refinement: the engine keeps the promise of ArmingLimits.               *)
(***************************************************************************)

\* What match counts in its pruned list is what the armed calls themselves say.
LEMMA PrunedEnough ==
    ASSUME TypeOK, CapsInv, NEW g \in Targets
    PROVE  /\ Recent(g) = {a \in armings[g] : clock - Day < a.at}
           /\ Since(Recent(g), clock - Hour) = {a \in armings[g] : clock - Hour < a.at}
<1>1. /\ clock \in Nat /\ Day \in Nat /\ Hour \in Nat /\ Hour <= Day
      /\ \A a \in armings[g] : a.at \in Nat
  BY LimitsAssumption DEF TypeOK, Arming
<1>2. Recent(g) = {a \in armings[g] : clock - Day < a.at}
  BY <1>1 DEF CapsInv, Recent, Since
<1> QED
  BY <1>1, <1>2 DEF Since

\* The instance has its own copy of Cardinality: it is the same operator.
LEMMA SameSize == \A S : A!Cardinality(S) = Cardinality(S)
BY DEF A!Cardinality, Cardinality

\* A call is armed only while the calls armed before it leave room in both windows and
\* their reports leave the breaker closed; reloads, prunings and the interleaving of
\* threads have no part in it.
THEOREM EngineRefinement == Spec => ImplementsArmingLimits
<1>1. Init => A!Init
  BY DEF Init, A!Init
<1>2. TypeInv /\ CapsInv /\ BreakerExact /\ [Next]_vars => [A!Next]_(A!limitVars)
  <2> SUFFICES ASSUME TypeOK, CapsInv, BreakerExact, [Next]_vars
               PROVE  A!Next \/ UNCHANGED A!limitVars
    BY DEF TypeInv
  <2>0. \A t \in Threads : target[t] \in Targets
    BY DEF TypeOK
  <2>1. ASSUME NEW t \in Threads, Arm(t) PROVE A!Next
    <3> PICK g \in Targets : g = target[t]
      BY <2>0
    <3>1. /\ armings' = [armings EXCEPT ![g] = @ \cup {[n |-> Cardinality(armings[g]) + 1,
                                                        at |-> clock]}]
          /\ ~Broken(g) /\ WithinCaps(g) /\ UNCHANGED <<clock, outcomes>>
      BY <2>1 DEF Arm
    <3>2. A!Room(g, Hour, HourCap) /\ A!Room(g, Day, DayCap)
      <4>1. /\ HourCap # 0 => Cardinality(Since(Recent(g), clock - Hour)) < HourCap
            /\ DayCap # 0 => Cardinality(Recent(g)) < DayCap
        BY <3>1 DEF WithinCaps
      <4>2. /\ HourCap # 0 => Cardinality({a \in armings[g] : clock - Hour < a.at}) < HourCap
            /\ DayCap # 0 => Cardinality({a \in armings[g] : clock - Day < a.at}) < DayCap
        BY <4>1, PrunedEnough, Zenon
      <4> QED
        BY <4>2, SameSize, Zenon DEF A!Room
    <3>3. A!Closed(g)
      <4>1. ~Disabled(g)
        BY <3>1 DEF BreakerExact
      <4> QED
        BY <4>1 DEF Disabled, Trips, A!Closed, A!Tripped
    <3>4. A!Arm(g)
      BY <3>1, <3>2, <3>3, SameSize, Zenon DEF A!Arm
    <3> QED
      BY <3>4 DEF A!Next
  <2>2. ASSUME NEW t \in Threads, Report(t) PROVE A!Next
    <3> PICK g \in Targets : g = target[t]
      BY <2>0
    <3>1. A!End(g)
      BY <2>2 DEF Report, A!End
    <3> QED
      BY <3>1 DEF A!Next
  <2>3. CASE Tick
    BY <2>3 DEF Tick, history, A!Next, A!Tick
  <2>4. CASE UNCHANGED <<clock, history>>
    BY <2>4 DEF history, A!limitVars
  <2> QED
    BY <2>1, <2>2, <2>3, <2>4
       DEF Next, vars, history, Begin, CheckFile, Stat, ReadFile, StorePatterns, StoreMtimes,
           Candidates, CircuitBroken, RateLimited, Edit
<1> QED
  BY <1>1, <1>2, Typing, Capping, Breaker, PTL DEF Spec, ImplementsArmingLimits, A!Spec

-----------------------------------------------------------------------------
(***************************************************************************)
(* Hot reload.  The run pattern_reload shows old patterns under a new      *)
(* mtime, which stay until the next edit.  Two loads at the same time are  *)
(* the only way to get there: the file may be edited at any moment of one. *)
(***************************************************************************)
LoneReload == \A t, u \in Threads : Reloading(t) /\ Reloading(u) => t = u

LoneReloadSpec == Init /\ [][Next /\ LoneReload']_vars

\* A content that was read after its mtime was taken.
Matches(content, mtime) ==
    /\ mtime <= file.mtime
    /\ mtime = file.mtime => content = file.content
    /\ mtime = Untracked => content = "gone"

ReloadInv ==
    /\ LoneReload
    /\ file.mtime >= 1
    /\ \A t \in Threads :
          /\ loading[t].mtime <= file.mtime
          /\ pc[t] \in {"patterns", "mtimes"} => Matches(loading[t].content, loading[t].mtime)
          /\ pc[t] = "mtimes" => patterns = loading[t].content
    /\ (\A t \in Threads : pc[t] # "mtimes") => Matches(patterns, mtimes)
    /\ mtimes <= file.mtime

\* As long as no two threads reload at once, what is loaded is what is in the file,
\* unless the engine is about to reload: no edit is overlooked, wherever it falls.
THEOREM LoneHotReload == LoneReloadSpec => []HotReload
<1>1. Init => ReloadInv
  BY DEF Init, ReloadInv, LoneReload, Reloading, Matches, Untracked
<1>2. TypeInv /\ ReloadInv /\ [Next /\ LoneReload']_vars => ReloadInv'
  <2> SUFFICES ASSUME TypeOK, ReloadInv, [Next /\ LoneReload']_vars PROVE ReloadInv'
    BY DEF TypeInv
  <2>l. LoneReload'
    BY DEF ReloadInv, LoneReload, Reloading, vars, threads
  <2>0. /\ file.mtime \in Nat /\ mtimes \in Nat /\ \A t \in Threads : loading[t].mtime \in Nat
        /\ loading \in [Threads -> Load] /\ pc \in [Threads -> PC]
    BY DEF TypeOK, Load
  <2> USE DEF Untracked
  <2>1. ASSUME NEW t \in Threads, NEW from, NEW to, Step(t, from, to)
        PROVE  /\ pc[t] = from /\ pc'[t] = to
               /\ \A u \in Threads : u # t => pc'[u] = pc[u]
               /\ Reloading(t) => \A u \in Threads : u # t => ~Reloading(u)
    BY <2>0, <2>1 DEF Step, ReloadInv, LoneReload
  <2>2. ASSUME UNCHANGED <<file, patterns, mtimes, loading>>, NEW t \in Threads, NEW from, NEW to,
               Step(t, from, to), from # "mtimes", to \notin {"patterns", "mtimes"}
        PROVE  ReloadInv'
    BY <2>l, <2>1, <2>2 DEF ReloadInv, Matches
  <2>3. ASSUME NEW t \in Threads, Begin(t) PROVE ReloadInv'
    BY <2>2, <2>3 DEF Begin, engine, history
  <2>4. ASSUME NEW t \in Threads, CheckFile(t) PROVE ReloadInv'
    BY <2>2, <2>4 DEF CheckFile, engine, history
  <2>5. ASSUME NEW t \in Threads, Stat(t) PROVE ReloadInv'
    <3>1. /\ pc[t] = "stat" /\ pc'[t] = "read"
          /\ \A u \in Threads : u # t => pc'[u] = pc[u] /\ pc[u] \notin {"patterns", "mtimes"}
      BY <2>1, <2>5 DEF Stat, Reloading
    <3>2. /\ loading'[t].mtime = OnDisk /\ UNCHANGED <<file, patterns, mtimes>>
          /\ \A u \in Threads : u # t => loading'[u] = loading[u]
      BY <2>0, <2>5 DEF Stat, engine, Load
    <3>3. OnDisk <= file.mtime
      BY <2>0 DEF OnDisk
    <3> QED
      BY <2>l, <3>1, <3>2, <3>3 DEF ReloadInv, Matches
  <2>6. ASSUME NEW t \in Threads, ReadFile(t) PROVE ReloadInv'
    <3>1. /\ pc[t] = "read" /\ pc'[t] = "patterns"
          /\ \A u \in Threads : u # t => pc'[u] = pc[u] /\ pc[u] \notin {"patterns", "mtimes"}
      BY <2>1, <2>6 DEF ReadFile, Reloading
    <3>2. /\ loading'[t].mtime = loading[t].mtime /\ UNCHANGED <<file, patterns, mtimes>>
          /\ loading'[t].content = IF loading[t].mtime = 0 THEN "gone" ELSE file.content
          /\ \A u \in Threads : u # t => loading'[u] = loading[u]
      BY <2>0, <2>6 DEF ReadFile, engine, Load
    <3> QED
      BY <2>l, <2>0, <3>1, <3>2 DEF ReloadInv, Matches
  <2>7. ASSUME NEW t \in Threads, StorePatterns(t) PROVE ReloadInv'
    <3>1. /\ pc[t] = "patterns" /\ pc'[t] = "mtimes"
          /\ \A u \in Threads : u # t => pc'[u] = pc[u] /\ pc[u] \notin {"patterns", "mtimes"}
      BY <2>1, <2>7 DEF StorePatterns, Reloading
    <3>2. patterns' = loading[t].content /\ UNCHANGED <<file, mtimes, loading>>
      BY <2>7 DEF StorePatterns
    <3> QED
      BY <2>l, <3>1, <3>2 DEF ReloadInv, Matches
  <2>8. ASSUME NEW t \in Threads, StoreMtimes(t) PROVE ReloadInv'
    <3>1. /\ pc[t] = "mtimes" /\ pc'[t] = "match"
          /\ \A u \in Threads : u # t => pc'[u] = pc[u] /\ pc[u] \notin {"patterns", "mtimes"}
      BY <2>1, <2>8 DEF StoreMtimes, Reloading
    <3>2. mtimes' = loading[t].mtime /\ UNCHANGED <<file, patterns, loading>>
      BY <2>8 DEF StoreMtimes
    <3> QED
      BY <2>l, <3>1, <3>2 DEF ReloadInv, Matches
  <2>9. ASSUME NEW t \in Threads, Candidates(t) \/ CircuitBroken(t) \/ RateLimited(t) \/ Arm(t)
        PROVE  ReloadInv'
    BY <2>2, <2>9 DEF Candidates, CircuitBroken, RateLimited, Arm, engine
  <2>10. ASSUME NEW t \in Threads, Report(t) PROVE ReloadInv'
    BY <2>2, <2>10 DEF Report, engine
  <2>11. CASE Edit
    <3>1. file'.mtime = file.mtime + 1 /\ UNCHANGED <<patterns, mtimes, loading, pc>>
      BY <2>11 DEF Edit, engine, threads
    <3> QED
      BY <2>l, <2>0, <3>1 DEF ReloadInv, Matches
  <2>12. CASE Tick \/ UNCHANGED vars
    BY <2>l, <2>12 DEF Tick, vars, engine, threads, ReloadInv, Matches
  <2> QED
    BY <2>3, <2>4, <2>5, <2>6, <2>7, <2>8, <2>9, <2>10, <2>11, <2>12 DEF Next
<1>3. TypeInv /\ ReloadInv => HotReload
  BY DEF TypeInv, TypeOK, ReloadInv, Matches, HotReload, Reloading, OnDisk, Untracked
<1>4. [Next /\ LoneReload']_vars => [Next]_vars
  OBVIOUS
<1> QED
  BY <1>1, <1>2, <1>3, <1>4, Typing, PTL DEF LoneReloadSpec, Spec

\* So it is if a single thread consults the engine.
THEOREM SoloHotReload == (\A t, u \in Threads : t = u) => (Spec => []HotReload)
<1> SUFFICES ASSUME \A t, u \in Threads : t = u PROVE Spec => []HotReload
  OBVIOUS
<1>1. [Next]_vars => [Next /\ LoneReload']_vars
  BY DEF LoneReload
<1> QED
  BY <1>1, LoneHotReload, PTL DEF Spec, LoneReloadSpec
=============================================================================
