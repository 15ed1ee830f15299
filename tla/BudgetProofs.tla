---------------------------- MODULE BudgetProofs ----------------------------
(***************************************************************************)
(* TLAPS proofs about Budget, for any threads, fingerprints and limits:    *)
(* the breaker bounds the rate of identical calls, trips on nothing but a  *)
(* loop, and the ceilings hold up to the calls in flight.                  *)
(***************************************************************************)
EXTENDS Budget, SequenceTheorems, FiniteSetTheorems, TLAPS

-----------------------------------------------------------------------------
(***************************************************************************)
(* Types, and what is known of every time that was noted.                  *)
(***************************************************************************)

\* A window is what is left of its history.
InHistory == \A f \in Fingerprints : popped[f] <= Len(appended[f])

\* No thread's clock reading lies in the future or too far in the past.
Timely ==
    \A t \in Threads : pc[t] # "idle" =>
        /\ start[t] <= now
        /\ now <= start[t] + LongestCall
        /\ pc[t] = "stamped" => now <= start[t] + MaxStall

TypeInv == TypeOK /\ InHistory /\ Timely

\* What k pops do to the window of f, in terms of its history.
LEMMA Pruning ==
    ASSUME TypeOK, InHistory, NEW f \in Fingerprints, NEW cutoff \in Int,
           NEW k \in Pops(Window(f), cutoff)
    PROVE  LET gone == popped[f] + k
           IN  /\ k \in Nat
               /\ gone <= Len(appended[f])
               /\ Len(Window(f)) - k = Len(appended[f]) - gone
               /\ \A i \in popped[f] + 1 .. gone : appended[f][i].stamp < cutoff
               /\ gone < Len(appended[f]) => appended[f][gone + 1].stamp >= cutoff
<1> DEFINE s == appended[f]
<1> DEFINE p == popped[f]
<1>1. s \in Seq(Entry) /\ Len(s) \in Nat /\ p \in Nat /\ p <= Len(s)
  BY LenProperties DEF TypeOK, InHistory
<1>2. \A i \in p + 1 .. Len(s) : s[i] \in Entry
  BY <1>1, ElementOfSeq
<1> DEFINE w == SubSeq(s, p + 1, Len(s))
<1>3. Len(w) = Len(s) - p /\ \A i \in 1 .. Len(s) - p : w[i] = s[p + i]
  <2> HIDE DEF s, p
  <2>1. /\ Len(w) = IF p + 1 <= Len(s) THEN Len(s) - (p + 1) + 1 ELSE 0
        /\ \A i \in 1 .. Len(s) - (p + 1) + 1 : w[i] = s[p + 1 + i - 1]
    BY <1>1, <1>2, SubSeqProperties
  <2> QED
    BY <1>1, <2>1
<1>4. w = Window(f)
  BY DEF Window
<1>5. /\ k \in 0 .. Len(w)
      /\ \A i \in 1 .. k : w[i].stamp < cutoff
      /\ k < Len(w) => w[k + 1].stamp >= cutoff
  BY <1>4 DEF Pops
<1> HIDE DEF s, p, w
<1>6. \A i \in p + 1 .. p + k : s[i].stamp < cutoff
  <2> TAKE i \in p + 1 .. p + k
  <2>1. i - p \in 1 .. k /\ i - p \in 1 .. Len(s) - p /\ p + (i - p) = i
    BY <1>1, <1>3, <1>5
  <2> QED
    BY <1>3, <1>5, <2>1
<1>7. p + k < Len(s) => s[p + k + 1].stamp >= cutoff
  <2> SUFFICES ASSUME p + k < Len(s) PROVE s[p + k + 1].stamp >= cutoff
    OBVIOUS
  <2>1. k + 1 \in 1 .. Len(s) - p /\ p + (k + 1) = p + k + 1 /\ k < Len(w)
    BY <1>1, <1>3, <1>5
  <2> QED
    BY <1>3, <1>5, <2>1
<1>8. k \in Nat /\ p + k <= Len(s) /\ Len(w) - k = Len(s) - (p + k)
  BY <1>1, <1>3, <1>5
<1> QED
  BY <1>4, <1>6, <1>7, <1>8 DEF s, p

\* An admitted call is the last entry of the history, if it is noted.
LEMMA Noting ==
    ASSUME TypeOK, NEW f \in Fingerprints, NEW e \in Entry
    PROVE  LET s == appended[f]
           IN  /\ Append(s, e) \in Seq(Entry)
               /\ Len(Append(s, e)) = Len(s) + 1
               /\ DOMAIN Append(s, e) = 1 .. Len(s) + 1
               /\ \A i \in 1 .. Len(s) : Append(s, e)[i] = s[i]
               /\ Append(s, e)[Len(s) + 1] = e
BY AppendProperties, LenProperties DEF TypeOK

\* Either verdict leaves a proper state.
LEMMA Verdict ==
    ASSUME TypeOK, NEW t \in Threads,
           \/ \E r \in Rules : Stop(t, r)
           \/ Admit(t)
    PROVE  /\ totalCalls' \in Nat
           /\ pc' \in [Threads -> {"idle", "stamped", "running", "stopped"}]
           /\ rule' \in [Threads -> Rules]
           /\ pc' \in {[pc EXCEPT ![t] = "stopped"], [pc EXCEPT ![t] = "running"]}
<1>1. CASE Admit(t)
  BY <1>1 DEF TypeOK, Admit
<1>2. ASSUME NEW r \in Rules, Stop(t, r)
      PROVE  /\ totalCalls' \in Nat
             /\ pc' \in [Threads -> {"idle", "stamped", "running", "stopped"}]
             /\ rule' \in [Threads -> Rules]
             /\ pc' \in {[pc EXCEPT ![t] = "stopped"], [pc EXCEPT ![t] = "running"]}
  BY <1>2 DEF TypeOK, Stop
<1> QED
  BY <1>1, <1>2

\* Every check ends in one of them.
LEMMA CheckEnds ==
    ASSUME NEW t \in Threads, Check(t)
    PROVE  \/ \E r \in Rules : Stop(t, r)
           \/ Admit(t)
<1>1. {"budget_calls", "budget_seconds", "budget_runaway"} \subseteq Rules
  BY DEF Rules
<1>2. CASE Breaker(t)
  BY <1>1, <1>2 DEF Breaker
<1>3. CASE ~Breaker(t)
  BY <1>1, <1>3 DEF Check
<1> QED
  BY <1>2, <1>3

\* Every variable keeps its type, and no clock reading is too old.
THEOREM Typing == Spec => []TypeInv
<1> USE TimeAssumption, SettingsAssumption, ThreadsAssumption
<1>1. Init => TypeInv
  BY EmptySeq DEF Init, TypeInv, TypeOK, InHistory, Timely, Rules
<1>2. TypeInv /\ [Next]_vars => TypeInv'
  <2> SUFFICES ASSUME TypeInv, [Next]_vars PROVE TypeInv'
    OBVIOUS
  <2> USE DEF TypeInv
  <2>0. \A f \in Fingerprints : Len(appended[f]) \in Nat
    BY LenProperties DEF TypeOK
  <2>1. ASSUME NEW t \in Threads, NEW f \in Fingerprints, Enter(t, f) PROVE TypeInv'
    <3>1. TypeOK'
      BY <2>1 DEF Enter, TypeOK, tracker, Rules
    <3>2. InHistory'
      BY <2>1 DEF Enter, InHistory, tracker
    <3>3. Timely'
      BY <2>1 DEF Enter, Timely, TypeOK
    <3> QED
      BY <3>1, <3>2, <3>3
  <2>2. ASSUME NEW t \in Threads, Check(t) PROVE TypeInv'
    <3>1. CASE Breaker(t)
      <4> DEFINE f == fp[t]
      <4>1. f \in Fingerprints /\ runaway.window \in Nat /\ start[t] - runaway.window \in Int
        BY DEF TypeOK
      <4>2. PICK k \in Pops(Window(f), start[t] - runaway.window) :
              /\ popped' = [popped EXCEPT ![f] = @ + k]
              /\ \/ Stop(t, "budget_runaway") /\ UNCHANGED appended
                 \/ /\ Admit(t)
                    /\ appended' = [appended EXCEPT
                                      ![f] = Append(@, [stamp |-> start[t], at |-> now])]
        BY <3>1 DEF Breaker
      <4>3. k \in Nat /\ popped[f] + k <= Len(appended[f])
        BY <4>1, <4>2, Pruning
      <4>4. [stamp |-> start[t], at |-> now] \in Entry
        BY DEF TypeOK, Entry
      <4>5. /\ appended' \in [Fingerprints -> Seq(Entry)]
            /\ \A g \in Fingerprints : Len(appended[g]) <= Len(appended'[g])
        <5>1. CASE UNCHANGED appended
          BY <2>0, <5>1 DEF TypeOK
        <5>2. CASE appended' = [appended EXCEPT
                                  ![f] = Append(@, [stamp |-> start[t], at |-> now])]
          <6> DEFINE longer == Append(appended[f], [stamp |-> start[t], at |-> now])
          <6>1. longer \in Seq(Entry) /\ Len(longer) = Len(appended[f]) + 1
            BY <4>1, <4>4, Noting
          <6>2. appended' = [appended EXCEPT ![f] = longer]
            BY <5>2
          <6> HIDE DEF longer, f
          <6> QED
            BY <2>0, <4>1, <6>1, <6>2 DEF TypeOK
        <5> QED
          BY <4>2, <5>1, <5>2
      <4>6. pc' = [pc EXCEPT ![t] = "stopped"] \/ pc' = [pc EXCEPT ![t] = "running"]
        BY <2>2, CheckEnds, Verdict
      <4>7. TypeOK'
        <5>1. popped' \in [Fingerprints -> Nat]
          BY <4>1, <4>2, <4>3 DEF TypeOK
        <5>2. /\ totalCalls' \in Nat
              /\ pc' \in [Threads -> {"idle", "stamped", "running", "stopped"}]
              /\ rule' \in [Threads -> Rules]
          BY <2>2, CheckEnds, Verdict
        <5> QED
          BY <2>2, <4>5, <5>1, <5>2 DEF TypeOK, Check
      <4>8. InHistory'
        <5> SUFFICES ASSUME NEW g \in Fingerprints PROVE popped'[g] <= Len(appended'[g])
          BY DEF InHistory
        <5>1. /\ Len(appended[g]) \in Nat /\ Len(appended'[g]) \in Nat
              /\ popped[g] \in Nat /\ popped[g] <= Len(appended[g])
          BY <4>5, <2>0, LenProperties DEF TypeOK, InHistory
        <5>2. popped'[g] <= Len(appended[g])
          BY <4>2, <4>3, <5>1, <4>1 DEF TypeOK
        <5> QED
          <6>1. popped'[g] \in Nat /\ Len(appended[g]) <= Len(appended'[g])
            BY <4>5, <4>7 DEF TypeOK
          <6> QED
            BY <5>1, <5>2, <6>1
      <4>9. Timely'
        BY <2>2, <4>6 DEF TypeOK, Check, Timely
      <4> QED
        BY <4>7, <4>8, <4>9
    <3>2. CASE ~Breaker(t)
      <4>1. UNCHANGED <<appended, popped>>
        BY <2>2, <3>2 DEF Check
      <4> QED
        <5>1. TypeOK'
          BY <2>2, <4>1, CheckEnds, Verdict DEF Check, TypeOK
        <5>2. InHistory'
          BY <4>1 DEF InHistory
        <5>3. Timely'
          BY <2>2, CheckEnds, Verdict DEF Check, Timely, TypeOK
        <5> QED
          BY <5>1, <5>2, <5>3
    <3> QED
      BY <3>1, <3>2
  <2>3. ASSUME NEW t \in Threads, Finish(t) PROVE TypeInv'
    <3> DEFINE elapsed == now - start[t]
    <3>1. elapsed \in Nat
      <4>1. now \in Nat /\ start[t] \in Nat /\ pc[t] # "idle"
        BY <2>3 DEF Finish, TypeOK
      <4>2. start[t] <= now
        BY <4>1 DEF Timely
      <4> QED
        BY <4>1, <4>2
    <3>2. /\ totalSeconds' = totalSeconds + elapsed
          /\ spent' = IF pc[t] = "running" THEN spent + elapsed ELSE spent
      BY <2>3 DEF Finish
    <3> HIDE DEF elapsed
    <3>3. totalSeconds' \in Nat /\ spent' \in Nat
      BY <3>1, <3>2 DEF TypeOK
    <3>4. TypeOK'
      BY <2>3, <3>3 DEF Finish, TypeOK
    <3>5. InHistory' /\ Timely'
      BY <2>3 DEF Finish, TypeOK, InHistory, Timely
    <3> QED
      BY <3>4, <3>5
  <2>4. ASSUME Tick PROVE TypeInv'
    BY <2>4 DEF Tick, TypeOK, InHistory, Timely, tracker
  <2>5. ASSUME Reconfigure PROVE TypeInv'
    BY <2>0, <2>5 DEF Reconfigure, TypeOK, InHistory, Timely, tracker
  <2>6. ASSUME UNCHANGED vars PROVE TypeInv'
    BY <2>6 DEF vars, tracker, TypeOK, InHistory, Timely
  <2> QED
    BY <2>1, <2>2, <2>3, <2>4, <2>5, <2>6 DEF Next
<1> QED
  BY <1>1, <1>2, PTL DEF Spec

-----------------------------------------------------------------------------
(***************************************************************************)
(* The breaker.                                                            *)
(***************************************************************************)

\* What holds of one fingerprint's window:
WindowOK(f) ==
    LET s == appended[f]
    IN  \* an entry was noted under the lock, at most MaxStall after the clock was read
        /\ \A i \in 1 .. Len(s) : /\ s[i].stamp <= s[i].at
                                  /\ s[i].at <= s[i].stamp + MaxStall
                                  /\ s[i].at <= now
        \* entries are in the order in which their threads had the lock
        /\ \A i, j \in 1 .. Len(s) : i <= j => s[i].at <= s[j].at
        \* what was popped under the present limits is too old for good
        /\ BreakerOn => \A i \in 1 .. popped[f] :
                            i > mark[f] => s[i].stamp < now - runaway.window
        /\ mark[f] <= Len(s)
        \* the bound itself
        /\ BreakerOn => \A i, j \in 1 .. Len(s) :
             i > mark[f] /\ j = i + runaway.max =>
               s[j].at - s[i].at > runaway.window - MaxStall

WindowInv == \A f \in Fingerprints : WindowOK(f)

\* The entries of a history.
LEMMA Entries ==
    ASSUME TypeInv, NEW f \in Fingerprints
    PROVE  /\ Len(appended[f]) \in Nat /\ DOMAIN appended[f] = 1 .. Len(appended[f])
           /\ \A i \in 1 .. Len(appended[f]) :
                appended[f][i].stamp \in Nat /\ appended[f][i].at \in Nat
           /\ popped[f] \in Nat /\ mark[f] \in Nat /\ popped[f] <= Len(appended[f])
<1>1. appended[f] \in Seq(Entry)
  BY DEF TypeInv, TypeOK
<1>2. \A i \in 1 .. Len(appended[f]) : appended[f][i] \in Entry
  BY <1>1, ElementOfSeq
<1> QED
  BY <1>1, <1>2, LenProperties DEF TypeInv, TypeOK, InHistory, Entry

\* A window that is left alone stays in order.
LEMMA WindowStutter ==
    ASSUME TypeInv, NEW f \in Fingerprints, WindowOK(f),
           appended'[f] = appended[f], popped'[f] = popped[f], mark'[f] = mark[f],
           runaway' = runaway, now' \in Nat, now <= now'
    PROVE  WindowOK(f)'
<1> DEFINE s == appended[f]
<1>1. /\ Len(s) \in Nat /\ popped[f] \in Nat /\ popped[f] <= Len(s)
      /\ \A i \in 1 .. Len(s) : s[i].stamp \in Nat /\ s[i].at \in Nat
  BY Entries
<1>2. now \in Nat /\ runaway.window \in Nat
  BY SettingsAssumption DEF TypeInv, TypeOK
<1>3. BreakerOn' = BreakerOn
  BY DEF BreakerOn
<1>4. \A i \in 1 .. Len(s) : s[i].at <= now'
  BY <1>1, <1>2 DEF WindowOK
<1>5. BreakerOn => \A i \in 1 .. popped[f] :
                       i > mark[f] => s[i].stamp < now' - runaway.window
  <2> SUFFICES ASSUME BreakerOn, NEW i \in 1 .. popped[f], i > mark[f]
               PROVE  s[i].stamp < now' - runaway.window
    OBVIOUS
  <2>1. s[i].stamp < now - runaway.window /\ s[i].stamp \in Nat
    BY <1>1 DEF WindowOK
  <2> QED
    BY <1>2, <2>1
<1> QED
  BY <1>3, <1>4, <1>5 DEF WindowOK

\* A time noted before the window, read at most m later, is that far back.
LEMMA TooOld ==
    ASSUME NEW stamp \in Nat, NEW at \in Nat, NEW n \in Nat, NEW w \in Nat, NEW m \in Nat,
           stamp < n - w, at <= stamp + m
    PROVE  n - at > w - m
OBVIOUS

\* A time within the window is at most the window and a stall back.
LEMMA NotTooOld ==
    ASSUME NEW stamp \in Nat, NEW at \in Nat, NEW later \in Nat, NEW c \in Nat,
           NEW n \in Nat, NEW w \in Nat, NEW m \in Nat,
           stamp >= c - w, n <= c + m, stamp <= at, at <= later
    PROVE  later >= n - (w + m)
OBVIOUS

\* The breaker itself: it drops what is too old, then trips or notes the call.
LEMMA BreakerStep ==
    ASSUME TypeInv, NEW t \in Threads, NEW f \in Fingerprints, fp[t] = f, WindowOK(f),
           BreakerOn, pc[t] = "stamped", Breaker(t), UNCHANGED <<now, runaway, mark>>
    PROVE  WindowOK(f)'
<1> USE TimeAssumption, SettingsAssumption
<1> DEFINE s == appended[f]
<1> DEFINE n == Len(s)
<1> DEFINE W == runaway.window
<1> DEFINE max == runaway.max
<1>1. W \in Nat /\ max \in Nat /\ start[t] \in Nat /\ now \in Nat
      /\ start[t] <= now /\ now <= start[t] + MaxStall
  BY DEF TypeInv, TypeOK, Timely
<1>2. PICK k \in Pops(Window(f), start[t] - W) :
        /\ popped' = [popped EXCEPT ![f] = @ + k]
        /\ \/ Exhausted(Len(Window(f)) - k) /\ UNCHANGED appended
           \/ /\ ~Exhausted(Len(Window(f)) - k)
              /\ appended' = [appended EXCEPT
                                ![f] = Append(@, [stamp |-> start[t], at |-> now])]
  BY DEF Breaker
<1> DEFINE gone == popped[f] + k
<1>3. /\ k \in Nat /\ gone <= n /\ Len(Window(f)) - k = n - gone
      /\ \A i \in popped[f] + 1 .. gone : s[i].stamp < start[t] - W
  <2>1. start[t] - W \in Int
    BY <1>1
  <2> QED
    BY <1>2, <2>1, Pruning DEF TypeInv
<1>4. /\ n \in Nat /\ popped[f] \in Nat /\ mark[f] \in Nat /\ popped[f] <= n
      /\ \A i \in 1 .. n : s[i].stamp \in Nat /\ s[i].at \in Nat
  BY <1>1, Entries
<1>5. popped'[f] = gone /\ gone \in Nat
  BY <1>1, <1>2, <1>3, <1>4 DEF TypeInv, TypeOK
<1>6. \A i \in 1 .. gone : i > mark[f] => s[i].stamp < now - W
  <2> SUFFICES ASSUME NEW i \in 1 .. gone, i > mark[f] PROVE s[i].stamp < now - W
    OBVIOUS
  <2>1. i \in 1 .. n
    BY <1>3, <1>4, <1>5
  <2>2. CASE i <= popped[f]
    BY <1>4, <2>2 DEF WindowOK
  <2>3. CASE i > popped[f]
    <3>1. i \in popped[f] + 1 .. gone
      BY <1>4, <1>5, <2>3
    <3>2. s[i].stamp < start[t] - W
      BY <1>3, <3>1
    <3> QED
      BY <1>1, <1>4, <2>1, <3>2
  <2> QED
    BY <1>4, <2>1, <2>2, <2>3
<1>7. BreakerOn' = BreakerOn /\ mark'[f] = mark[f] /\ now' = now /\ runaway' = runaway
  BY DEF BreakerOn
<1>8. CASE UNCHANGED appended
  <2>1. appended'[f] = s
    BY <1>8
  <2> HIDE DEF gone
  <2> QED
    BY <1>5, <1>6, <1>7, <2>1 DEF WindowOK
<1> DEFINE e == [stamp |-> start[t], at |-> now]
<1> DEFINE longer == Append(s, e)
<1>9. CASE ~Exhausted(n - gone) /\ appended' = [appended EXCEPT ![f] = Append(@, e)]
  <2>1. e \in Entry /\ e.stamp = start[t] /\ e.at = now
    BY <1>1 DEF Entry
  <2>2. /\ appended'[f] = longer
        /\ Len(longer) = n + 1
        /\ \A i \in 1 .. n : longer[i] = s[i]
        /\ longer[n + 1] = e
    BY <1>9, <2>1, Noting DEF TypeInv, TypeOK
  <2> HIDE DEF longer, e
  <2>3. \A i \in 1 .. n + 1 : i \in 1 .. n \/ i = n + 1
    BY <1>4
  <2>a. /\ \A i \in 1 .. n : /\ s[i].stamp <= s[i].at
                              /\ s[i].at <= s[i].stamp + MaxStall
                              /\ s[i].at <= now
        /\ \A i, j \in 1 .. n : i <= j => s[i].at <= s[j].at
    BY DEF WindowOK
  <2>4. \A i \in 1 .. n + 1 : /\ longer[i].stamp <= longer[i].at
                              /\ longer[i].at <= longer[i].stamp + MaxStall
                              /\ longer[i].at <= now
    <3> TAKE i \in 1 .. n + 1
    <3>1. CASE i \in 1 .. n
      BY <2>2, <2>a, <3>1
    <3>2. CASE i = n + 1
      BY <1>1, <2>1, <2>2, <3>2
    <3> QED
      BY <2>3, <3>1, <3>2
  <2>5. \A i, j \in 1 .. n + 1 : i <= j => longer[i].at <= longer[j].at
    <3> SUFFICES ASSUME NEW i \in 1 .. n + 1, NEW j \in 1 .. n + 1, i <= j
                 PROVE  longer[i].at <= longer[j].at
      OBVIOUS
    <3>1. CASE j \in 1 .. n
      <4>1. i \in 1 .. n
        BY <1>4, <3>1
      <4> QED
        BY <2>2, <2>a, <3>1, <4>1
    <3>2. CASE j = n + 1 /\ i \in 1 .. n
      BY <2>1, <2>2, <2>a, <3>2
    <3>3. CASE j = n + 1 /\ i = n + 1
      BY <1>1, <2>1, <2>2, <3>3
    <3> QED
      BY <2>3, <3>1, <3>2, <3>3
  <2>6. \A i \in 1 .. gone : i > mark[f] => longer[i].stamp < now - W
    <3>1. \A i \in 1 .. gone : i \in 1 .. n
      BY <1>3, <1>4, <1>5
    <3> QED
      BY <1>6, <2>2, <3>1
  <2>7. \A i, j \in 1 .. n + 1 :
          i > mark[f] /\ j = i + max => longer[j].at - longer[i].at > W - MaxStall
    <3> SUFFICES ASSUME NEW i \in 1 .. n + 1, NEW j \in 1 .. n + 1,
                        i > mark[f], j = i + max
                 PROVE  longer[j].at - longer[i].at > W - MaxStall
      OBVIOUS
    <3>1. max > 0 /\ max \in Nat
      BY <1>1 DEF BreakerOn
    <3>2. i \in 1 .. n
      BY <1>4, <3>1
    <3>3. CASE j \in 1 .. n
      BY <2>2, <3>2, <3>3 DEF WindowOK
    <3>4. CASE j = n + 1
      <4>1. ~(n - gone >= max)
        BY <1>9 DEF Exhausted
      <4>2. i \in 1 .. gone
        BY <1>4, <1>5, <3>1, <3>2, <3>4, <4>1
      <4>3. s[i].stamp < now - W /\ s[i].at <= s[i].stamp + MaxStall
        BY <1>6, <3>2, <4>2 DEF WindowOK
      <4>4. now - s[i].at > W - MaxStall
        <5>1. s[i].stamp \in Nat /\ s[i].at \in Nat
          BY <1>4, <3>2
        <5> QED
          BY <1>1, <4>3, <5>1, TooOld
      <4> QED
        BY <2>1, <2>2, <3>2, <3>4, <4>4
    <3> QED
      BY <2>3, <3>3, <3>4
  <2>8. mark[f] <= n + 1
    BY <1>4 DEF WindowOK
  <2> HIDE DEF gone, W, max
  <2> QED
    BY <1>5, <1>7, <2>2, <2>4, <2>5, <2>6, <2>7, <2>8 DEF WindowOK, W, max
<1> QED
  BY <1>2, <1>3, <1>8, <1>9

\* Every step keeps every window in order.
THEOREM Windows == Spec => []WindowInv
<1> USE TimeAssumption, SettingsAssumption
<1>1. Init => WindowInv
  <2> SUFFICES ASSUME Init, NEW f \in Fingerprints PROVE WindowOK(f)
    BY DEF WindowInv
  <2>1. appended[f] = << >> /\ popped[f] = 0 /\ mark[f] = 0 /\ Len(appended[f]) = 0
    BY EmptySeq DEF Init
  <2> QED
    BY <2>1 DEF WindowOK
<1>2. TypeInv /\ TypeInv' /\ WindowInv /\ [Next]_vars => WindowInv'
  <2> SUFFICES ASSUME TypeInv, TypeInv', WindowInv, [Next]_vars, NEW f \in Fingerprints
               PROVE  WindowOK(f)'
    BY DEF WindowInv
  <2>0. WindowOK(f)
    BY DEF WindowInv
  <2>t. now \in Nat /\ now' \in Nat
    BY DEF TypeInv, TypeOK
  <2>1. ASSUME UNCHANGED <<appended, popped, mark, runaway>>, now <= now'
        PROVE  WindowOK(f)'
    BY <2>0, <2>1, <2>t, WindowStutter
  <2>2. ASSUME NEW t \in Threads, Check(t) PROVE WindowOK(f)'
    <3>1. CASE Breaker(t) /\ BreakerOn
      <4>1. CASE fp[t] = f
        BY <2>0, <2>2, <3>1, <4>1, BreakerStep DEF Check
      <4>2. CASE fp[t] # f
        <5>1. appended'[f] = appended[f] /\ popped'[f] = popped[f]
          BY <3>1, <4>2 DEF Breaker, TypeInv, TypeOK
        <5> QED
          BY <2>0, <2>2, <2>t, <5>1, WindowStutter DEF Check
      <4> QED
        BY <4>1, <4>2
    <3>2. CASE UNCHANGED <<appended, popped>>
      BY <2>1, <2>2, <2>t, <3>2 DEF Check
    <3> QED
      BY <2>2, <3>1, <3>2 DEF Check
  <2>3. ASSUME Reconfigure PROVE WindowOK(f)'
    <3>1. /\ UNCHANGED <<now, appended, popped>>
          /\ mark'[f] = Len(appended[f])
      BY <2>3 DEF Reconfigure, tracker
    <3>2. Len(appended[f]) \in Nat /\ popped[f] \in Nat /\ popped[f] <= Len(appended[f])
      BY Entries
    <3>3. runaway'.max \in Nat
      BY DEF TypeInv, TypeOK
    <3>4. \A i \in 1 .. Len(appended[f]) : ~(i > mark'[f])
      BY <3>1, <3>2
    <3>5. \A i \in 1 .. popped[f] : ~(i > mark'[f])
      BY <3>1, <3>2
    <3>6. /\ \A i \in 1 .. Len(appended[f]) :
               /\ appended[f][i].stamp <= appended[f][i].at
               /\ appended[f][i].at <= appended[f][i].stamp + MaxStall
               /\ appended[f][i].at <= now
          /\ \A i, j \in 1 .. Len(appended[f]) :
               i <= j => appended[f][i].at <= appended[f][j].at
      BY <2>0 DEF WindowOK
    <3>7. now' = now /\ appended'[f] = appended[f] /\ popped'[f] = popped[f]
      BY <3>1
    <3> QED
      BY <3>1, <3>2, <3>4, <3>5, <3>6, <3>7 DEF WindowOK
  <2>4. ASSUME Tick PROVE WindowOK(f)'
    BY <2>1, <2>4, <2>t DEF Tick, tracker
  <2>5. ASSUME NEW t \in Threads, Finish(t) \/ \E g \in Fingerprints : Enter(t, g)
        PROVE  WindowOK(f)'
    BY <2>1, <2>5, <2>t DEF Finish, Enter, tracker
  <2>6. ASSUME UNCHANGED vars PROVE WindowOK(f)'
    BY <2>1, <2>6, <2>t DEF vars, tracker
  <2> QED
    BY <2>2, <2>3, <2>4, <2>5, <2>6 DEF Next
<1> QED
  BY <1>1, <1>2, Typing, PTL DEF Spec

\* While the limits stay, no stretch of time shorter than the window, less the
\* longest wait for the lock, holds more than max admitted identical calls.
THEOREM Breaking == Spec => []RunawayBound
<1>1. TypeInv /\ WindowInv => RunawayBound
  BY Entries DEF WindowInv, WindowOK, RunawayBound
<1> QED
  BY <1>1, Typing, Windows, PTL

\* A thread that has not been judged has no verdict.
Unjudged == \A t \in Threads : pc[t] = "stamped" => rule[t] = "none"

\* What the breaker stopped had enough company.
LEMMA TripStep ==
    ASSUME TypeInv, WindowInv, Unjudged, NEW t \in Threads, Check(t),
           rule'[t] = "budget_runaway"
    PROVE  LET past == appended[fp[t]]
           IN  /\ Len(past) >= runaway.max
               /\ \A i \in DOMAIN past :
                    i > Len(past) - runaway.max =>
                      past[i].at >= now - (runaway.window + MaxStall)
<1> USE TimeAssumption, SettingsAssumption
<1> DEFINE f == fp[t]
<1> DEFINE s == appended[f]
<1> DEFINE n == Len(s)
<1> DEFINE W == runaway.window
<1> DEFINE max == runaway.max
<1>1. f \in Fingerprints /\ W \in Nat /\ max \in Nat /\ start[t] \in Nat /\ now \in Nat
      /\ now <= start[t] + MaxStall /\ start[t] - W \in Int
  BY DEF TypeInv, TypeOK, Timely, Check
<1>2. BreakerOn /\ Breaker(t)
  <2>1. rule[t] = "none" /\ rule \in [Threads -> Rules]
    BY DEF Check, Unjudged, TypeInv, TypeOK
  <2>2. ~Stop(t, "budget_calls") /\ ~Stop(t, "budget_seconds") /\ ~Admit(t)
    BY <2>1 DEF Stop, Admit
  <2> QED
    BY <2>2 DEF Check
<1>3. PICK k \in Pops(Window(f), start[t] - W) : Exhausted(Len(Window(f)) - k)
  <2>1. ~Admit(t)
    BY DEF Admit, Check, Unjudged
  <2> QED
    BY <1>2, <2>1 DEF Breaker
<1> DEFINE gone == popped[f] + k
<1>4. /\ k \in Nat /\ gone <= n /\ Len(Window(f)) - k = n - gone
      /\ gone < n => s[gone + 1].stamp >= start[t] - W
  BY <1>1, <1>3, Pruning DEF TypeInv
<1>5. /\ n \in Nat /\ popped[f] \in Nat /\ DOMAIN s = 1 .. n
      /\ \A i \in 1 .. n : s[i].stamp \in Nat /\ s[i].at \in Nat
  BY <1>1, Entries
<1>6. n - gone >= max /\ max > 0 /\ gone \in Nat
  BY <1>2, <1>3, <1>4, <1>5 DEF Exhausted, BreakerOn
<1>7. ASSUME NEW i \in 1 .. n, i > n - max
      PROVE  s[i].at >= now - (W + MaxStall)
  <2> DEFINE h == gone + 1
  <2>1. h \in 1 .. n /\ h <= i
    <3> HIDE DEF gone, n, max
    <3> QED
      BY <1>1, <1>5, <1>6, <1>7
  <2>2. s[h].stamp >= start[t] - W
    <3>1. gone < n
      <4> HIDE DEF gone, n, max
      <4> QED
        BY <1>1, <1>5, <1>6
    <3> QED
      BY <1>4, <3>1
  <2>3. s[h].stamp <= s[h].at /\ s[h].at <= s[i].at
    BY <1>1, <2>1 DEF WindowInv, WindowOK
  <2>4. /\ s[h].stamp \in Nat /\ s[h].at \in Nat /\ s[i].at \in Nat
    BY <1>5, <2>1
  <2> QED
    BY <1>1, <2>2, <2>3, <2>4, NotTooOld
<1>8. n >= max
  BY <1>1, <1>5, <1>6
<1> QED
  BY <1>5, <1>7, <1>8

\* The breaker never stops a call unless max identical ones were admitted
\* within the window and the longest wait for the lock.
THEOREM Tripping == Spec => TripJustified
<1>1. Init => Unjudged
  BY DEF Init, Unjudged
<1>2. TypeInv /\ Unjudged /\ [Next]_vars => Unjudged'
  <2> SUFFICES ASSUME TypeInv, Unjudged, [Next]_vars PROVE Unjudged'
    OBVIOUS
  <2> USE DEF TypeInv, TypeOK, Unjudged
  <2>1. ASSUME NEW t \in Threads, Check(t) PROVE Unjudged'
    BY <2>1, CheckEnds, Verdict DEF Stop, Admit
  <2>2. ASSUME NEW t \in Threads, Finish(t) PROVE Unjudged'
    BY <2>2 DEF Finish
  <2>3. ASSUME NEW t \in Threads, NEW f \in Fingerprints, Enter(t, f) PROVE Unjudged'
    BY <2>3 DEF Enter
  <2>4. ASSUME Tick \/ Reconfigure \/ UNCHANGED vars PROVE Unjudged'
    BY <2>4 DEF Tick, Reconfigure, vars
  <2> QED
    BY <2>1, <2>2, <2>3, <2>4 DEF Next
<1> DEFINE Justified ==
      \A t \in Threads :
        pc[t] = "stamped" /\ rule'[t] = "budget_runaway" =>
          LET past == appended[fp[t]]
          IN  /\ Len(past) >= runaway.max
              /\ \A i \in DOMAIN past :
                   i > Len(past) - runaway.max =>
                     past[i].at >= now - (runaway.window + MaxStall)
<1>3. TypeInv /\ WindowInv /\ Unjudged /\ [Next]_vars => [Justified]_vars
  <2> SUFFICES ASSUME TypeInv, WindowInv, Unjudged, Next,
                      NEW t \in Threads, pc[t] = "stamped", rule'[t] = "budget_runaway"
               PROVE  Check(t)
    BY TripStep
  <2>1. rule[t] = "none"
    BY DEF Unjudged
  <2>2. rule' # rule
    BY <2>1
  <2>3. ASSUME NEW u \in Threads, Check(u) PROVE u = t
    BY <2>1, <2>3, CheckEnds DEF Stop, Admit, TypeInv, TypeOK
  <2>4. ASSUME NEW u \in Threads, NEW f \in Fingerprints, Enter(u, f) PROVE FALSE
    BY <2>1, <2>4 DEF Enter, TypeInv, TypeOK
  <2>5. ~Tick /\ ~Reconfigure /\ \A u \in Threads : ~Finish(u)
    BY <2>2 DEF Tick, Reconfigure, Finish
  <2> QED
    BY <2>3, <2>4, <2>5 DEF Next
<1> QED
  BY <1>1, <1>2, <1>3, Typing, Windows, PTL DEF Spec, TripJustified

-----------------------------------------------------------------------------
(***************************************************************************)
(* The ceilings.                                                           *)
(***************************************************************************)

CeilingInv == CeilingsHold /\ spent <= totalSeconds

\* A call more or less among those that are running.
LEMMA Headcount ==
    ASSUME NEW t \in Threads
    PROVE  /\ Cardinality(Threads) \in Nat
           /\ Cardinality(Running) \in Nat
           /\ Cardinality(Running) <= Cardinality(Threads)
           /\ Cardinality(Running \cup {t}) =
                IF t \in Running THEN Cardinality(Running) ELSE Cardinality(Running) + 1
           /\ Cardinality(Running \cup {t}) \in Nat
           /\ Cardinality(Running \cup {t}) <= Cardinality(Threads)
           /\ Cardinality(Running \ {t}) =
                IF t \in Running THEN Cardinality(Running) - 1 ELSE Cardinality(Running)
<1>1. Running \subseteq Threads /\ Running \cup {t} \subseteq Threads
  BY DEF Running
<1> QED
  BY <1>1, ThreadsAssumption, FS_Subset, FS_AddElement, FS_RemoveElement, FS_CardinalityType

\* Of the ceiling on seconds: letting a call in, and its end.
LEMMA Overrun ==
    ASSUME NEW L \in Nat, NEW r \in Nat, NEW N \in Nat, NEW M \in Nat, NEW s \in Nat
    PROVE  /\ s < M /\ r + 1 <= N => s + L * (r + 1) < M + L * N
           /\ \A d \in 0 .. L : s + L * (r + 1) < M + L * N => (s + d) + L * r < M + L * N
<1>1. L * (r + 1) = L * r + L
  OBVIOUS
<1>2. ASSUME r + 1 <= N PROVE L * (r + 1) <= L * N
  <2>1. PICK d \in Nat : N = (r + 1) + d
    <3>1. N - (r + 1) \in Nat /\ N = (r + 1) + (N - (r + 1))
      BY <1>2
    <3> QED
      BY <3>1
  <2>2. L * N = L * (r + 1) + L * d /\ L * d \in Nat
    BY <2>1
  <2>3. L * (r + 1) \in Nat
    OBVIOUS
  <2> QED
    BY <2>2, <2>3
<1>3. L * r \in Nat /\ L * N \in Nat /\ L * (r + 1) \in Nat
  OBVIOUS
<1> QED
  BY <1>1, <1>2, <1>3

\* The calls stay below their ceiling, and the seconds below theirs but for
\* the calls that were in flight when it was reached.
THEOREM Ceilings == Spec => []CeilingsHold
<1> USE TimeAssumption, CeilingsAssumption
<1> DEFINE L == LongestCall
<1> DEFINE N == Cardinality(Threads)
<1> DEFINE r == Cardinality(Running)
<1> DEFINE M == MaxToolSeconds
<1> DEFINE InTime == MaxToolSeconds # None => spent + L * r < M + L * N
<1> DEFINE InNumber == MaxToolCalls # None => totalCalls <= MaxToolCalls
<1>1. Init => CeilingInv
  <2> SUFFICES ASSUME Init PROVE CeilingInv
    OBVIOUS
  <2>1. Running = {}
    BY DEF Init, Running
  <2>2. r = 0 /\ N \in Nat /\ N > 0
    BY <2>1, ThreadsAssumption, FS_EmptySet, FS_CardinalityType
  <2>3. L * r = 0 /\ L * N > 0
    BY <2>2
  <2>4. L * N \in Nat
    BY <2>2
  <2> HIDE DEF r, N
  <2> QED
    BY <2>2, <2>3, <2>4 DEF Init, CeilingInv, CeilingsHold, r, N
<1>2. TypeInv /\ CeilingInv /\ [Next]_vars => CeilingInv'
  <2> SUFFICES ASSUME TypeInv, CeilingInv, [Next]_vars PROVE CeilingInv'
    OBVIOUS
  <2>0. /\ InTime /\ InNumber /\ spent <= totalSeconds
        /\ totalCalls \in Nat /\ totalSeconds \in Nat /\ spent \in Nat
    BY DEF CeilingInv, CeilingsHold, TypeInv, TypeOK
  <2>a. ASSUME InTime', InNumber', spent' <= totalSeconds' PROVE CeilingInv'
    BY <2>a DEF CeilingInv, CeilingsHold
  <2>1. ASSUME UNCHANGED <<totalCalls, totalSeconds, spent>>, Running' = Running
        PROVE  CeilingInv'
    BY <2>0, <2>1, <2>a
  <2>2. ASSUME NEW t \in Threads, Check(t) PROVE CeilingInv'
    <3>1. CASE Admit(t)
      <4>1. totalCalls' = totalCalls + 1 /\ spent' = spent /\ totalSeconds' = totalSeconds
        BY <2>2, <3>1 DEF Check, Admit
      <4>2. ~CallsReached /\ ~SecondsReached
        BY <2>0, <2>2, <3>1 DEF Check, Stop, Admit
      <4>3. t \notin Running /\ Running' = Running \cup {t}
        BY <2>2, <3>1 DEF Check, Admit, Running, TypeInv, TypeOK
      <4>4. r' = r + 1 /\ r \in Nat /\ N \in Nat /\ r + 1 <= N
        BY <4>3, Headcount
      <4>5. InTime'
        <5> SUFFICES ASSUME M # None PROVE spent + L * (r + 1) < M + L * N
          BY <4>1, <4>4
        <5>1. M \in Nat /\ spent < M
          BY <2>0, <4>2 DEF SecondsReached
        <5> QED
          BY <2>0, <4>4, <5>1, Overrun
      <4>6. InNumber'
        BY <2>0, <4>1, <4>2 DEF CallsReached
      <4> QED
        BY <2>0, <2>a, <4>1, <4>5, <4>6
    <3>2. ASSUME NEW why \in Rules, Stop(t, why) PROVE CeilingInv'
      <4>1. Running' = Running
        BY <2>2, <3>2 DEF Check, Stop, Running, TypeInv, TypeOK
      <4> QED
        BY <2>1, <2>2, <3>2, <4>1 DEF Check, Stop
    <3> QED
      BY <2>2, <3>1, <3>2, CheckEnds
  <2>3. ASSUME NEW t \in Threads, Finish(t) PROVE CeilingInv'
    <3> DEFINE d == now - start[t]
    <3>1. d \in 0 .. L
      <4>1. now \in Nat /\ start[t] \in Nat /\ start[t] <= now /\ now <= start[t] + L
        BY <2>3 DEF Finish, TypeInv, TypeOK, Timely
      <4> QED
        BY <4>1
    <3>2. /\ totalSeconds' = totalSeconds + d /\ totalCalls' = totalCalls
          /\ spent' = IF pc[t] = "running" THEN spent + d ELSE spent
      BY <2>3 DEF Finish
    <3>3. Running' = Running \ {t}
      BY <2>3 DEF Finish, Running, TypeInv, TypeOK
    <3>4. /\ r \in Nat /\ N \in Nat
          /\ r' = IF t \in Running THEN r - 1 ELSE r
      BY <3>3, Headcount
    <3> HIDE DEF d
    <3>5. CASE t \in Running
      <4>1. spent' = spent + d /\ r = r' + 1 /\ r' \in Nat
        <5>1. t \in Running => r # 0
          BY Headcount, ThreadsAssumption, FS_Subset, FS_EmptySet DEF Running
        <5> QED
          BY <3>2, <3>4, <3>5, <5>1 DEF Running
      <4>2. InTime'
        <5> SUFFICES ASSUME M # None PROVE (spent + d) + L * r' < M + L * N
          BY <4>1
        <5>1. M \in Nat /\ spent + L * (r' + 1) < M + L * N
          BY <2>0, <4>1
        <5> QED
          BY <2>0, <3>1, <3>4, <4>1, <5>1, Overrun
      <4> QED
        BY <2>0, <2>a, <3>1, <3>2, <4>1, <4>2
    <3>6. CASE t \notin Running
      <4>1. spent' = spent /\ r' = r
        BY <3>2, <3>4, <3>6 DEF Running
      <4>2. spent' <= totalSeconds'
        BY <2>0, <3>1, <3>2, <4>1
      <4> QED
        BY <2>0, <2>a, <3>2, <4>1, <4>2
    <3> QED
      BY <3>5, <3>6
  <2>4. ASSUME NEW t \in Threads, NEW f \in Fingerprints, Enter(t, f) PROVE CeilingInv'
    <3>1. Running' = Running
      BY <2>4 DEF Enter, Running, TypeInv, TypeOK
    <3> QED
      BY <2>1, <2>4, <3>1 DEF Enter, tracker
  <2>5. ASSUME Tick \/ Reconfigure \/ UNCHANGED vars PROVE CeilingInv'
    BY <2>1, <2>5 DEF Tick, Reconfigure, vars, tracker, Running
  <2> QED
    BY <2>2, <2>3, <2>4, <2>5 DEF Next
<1>3. CeilingInv => CeilingsHold
  BY DEF CeilingInv
<1> QED
  BY <1>1, <1>2, <1>3, Typing, PTL DEF Spec

=============================================================================
