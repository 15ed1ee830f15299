-------------------------- MODULE DiagnosisProofs --------------------------
(***************************************************************************)
(* The properties of Diagnosis for every number of keys, connections,      *)
(* queues and commands, and whatever the broker answers.                   *)
(***************************************************************************)
EXTENDS Diagnosis, FiniteSetTheorems, TLAPS

-----------------------------------------------------------------------------
(* Arithmetic *)

\* A rounded quotient is within a half of the exact one.
LEMMA Rounding ==
    ASSUME NEW a \in Nat, NEW b \in Nat \ {0}
    PROVE  /\ RoundDiv(a, b) \in Nat
           /\ 2 * (RoundDiv(a, b) * b) <= 2 * a + b
           /\ 2 * a <= 2 * (RoundDiv(a, b) * b) + b
<1> DEFINE q == a \div b
           r == a % b
<1>1. /\ q \in Nat /\ r \in 0 .. b - 1 /\ a = b * q + r
  OBVIOUS
<1>2. /\ q * b = b * q /\ (q + 1) * b = b * q + b
  BY <1>1
<1>3. CASE 2 * r > b \/ (2 * r = b /\ q % 2 = 1)
  <2>1. RoundDiv(a, b) = q + 1
    BY <1>3 DEF RoundDiv
  <2> HIDE DEF q, r
  <2>2. 2 * r >= b
    BY <1>1, <1>3
  <2>3. RoundDiv(a, b) * b = b * q + b
    BY <2>1, <1>2
  <2> DEFINE m == b * q
  <2>4. m \in Nat
    BY <1>1
  <2> HIDE DEF m
  <2> QED BY <2>1, <2>2, <2>3, <2>4, <1>1 DEF m
<1>4. CASE ~(2 * r > b \/ (2 * r = b /\ q % 2 = 1))
  <2>1. RoundDiv(a, b) = q
    BY <1>4 DEF RoundDiv
  <2> HIDE DEF q, r
  <2>2. 2 * r <= b
    BY <1>1, <1>4
  <2>3. RoundDiv(a, b) * b = b * q
    BY <2>1, <1>2
  <2> DEFINE m == b * q
  <2>4. m \in Nat
    BY <1>1
  <2> HIDE DEF m
  <2> QED BY <2>1, <2>2, <2>3, <2>4, <1>1 DEF m
<1> QED BY <1>3, <1>4

-----------------------------------------------------------------------------
(* The sample of keys *)

\* What a sampled key's position is, when there are more keys than are sized.
LEMMA Stride ==
    ASSUME NEW n \in Nat, n >= SampleMax
    PROVE  LET q == n \div SampleMax
           IN  /\ q \in Nat /\ q >= 1 /\ Step(n) = q
               /\ SampleMax * q <= n /\ n < SampleMax * q + SampleMax
<1> USE SampleAssumption
<1> DEFINE q == n \div SampleMax
<1>1. /\ q \in Nat /\ n % SampleMax \in 0 .. SampleMax - 1
      /\ n = SampleMax * q + (n % SampleMax)
  OBVIOUS
<1>2. Step(n) = q
  BY DEF Step
<1>3. q >= 1
  <2>1. SUFFICES ASSUME q = 0 PROVE FALSE
    BY <1>1
  <2> HIDE DEF q
  <2>2. SampleMax * q = 0
    BY <2>1
  <2> QED BY <1>1, <2>2
<1> HIDE DEF q
<1>4. SampleMax * q <= n /\ n < SampleMax * q + SampleMax
  <2> DEFINE m == SampleMax * q
             r == n % SampleMax
  <2>1. m \in Nat /\ r \in 0 .. SampleMax - 1 /\ n = m + r
    BY <1>1
  <2> HIDE DEF m, r
  <2> QED BY <2>1 DEF m
<1> QED BY <1>1, <1>2, <1>3, <1>4 DEF q

\* Multiples of a positive number are in the order of their factors.
LEMMA Multiples ==
    ASSUME NEW q \in Nat, q >= 1, NEW i \in Nat, NEW j \in Nat, i < j
    PROVE  i * q + q <= j * q
<1>1. PICK d \in Nat : j = i + 1 + d
  <2>1. j - i - 1 \in Nat /\ j = i + 1 + (j - i - 1)
    OBVIOUS
  <2> QED BY <2>1
<1>2. j * q = i * q + q + d * q
  BY <1>1
<1>3. d * q \in Nat /\ i * q \in Nat
  OBVIOUS
<1> QED BY <1>2, <1>3

\* How many keys are sampled, and how far they reach.
LEMMA SampleShape ==
    ASSUME NEW n \in Nat
    PROVE  /\ IsFiniteSet(Sampled(n))
           /\ Cardinality(Sampled(n)) = IF n < SampleMax THEN n ELSE SampleMax
           /\ n > 0 => \E p \in Sampled(n) : 2 * p > n
<1> USE SampleAssumption
<1>1. CASE n < SampleMax
  <2>1. Sampled(n) = 1 .. n
    <3>1. Step(n) = 1
      BY <1>1 DEF Step
    <3>2. ASSUME NEW p \in 1 .. n PROVE p \in Sampled(n)
      <4>1. p - 1 \in 0 .. SampleMax - 1 /\ p = 1 + (p - 1) * 1
        BY <1>1
      <4> QED BY <3>1, <4>1 DEF Sampled
    <3> QED BY <3>2 DEF Sampled
  <2>2. IsFiniteSet(1 .. n) /\ Cardinality(1 .. n) = n
    BY FS_Interval
  <2>3. n > 0 => n \in 1 .. n /\ 2 * n > n
    OBVIOUS
  <2> QED BY <1>1, <2>1, <2>2, <2>3
<1>2. CASE n >= SampleMax
  <2> DEFINE q == n \div SampleMax
             last == SampleMax - 1
             f == [i \in 0 .. last |-> 1 + i * q]
  <2>1. /\ q \in Nat /\ q >= 1 /\ Step(n) = q
        /\ SampleMax * q <= n /\ n < SampleMax * q + SampleMax
    BY <1>2, Stride
  <2> HIDE DEF q
  <2>2. SampleMax * q = last * q + q /\ last * q \in Nat
    BY <2>1
  <2>3. ASSUME NEW i \in 0 .. last PROVE 1 + i * q \in 1 .. n
    <3>1. i * q \in Nat
      BY <2>1
    <3>2. i * q <= last * q
      <4>1. CASE i = last
        BY <4>1, <3>1
      <4>2. CASE i < last
        <5>1. i * q + q <= last * q
          BY <4>2, <2>1, Multiples
        <5> QED BY <5>1, <3>1, <2>1, <2>2
      <4> QED BY <4>1, <4>2
    <3> QED BY <3>1, <3>2, <2>1, <2>2
  <2>4. Sampled(n) = {1 + i * q : i \in 0 .. last}
    <3>1. ASSUME NEW p \in Sampled(n) PROVE p \in {1 + i * q : i \in 0 .. last}
      BY <2>1 DEF Sampled
    <3>2. ASSUME NEW i \in 0 .. last PROVE 1 + i * q \in Sampled(n)
      BY <2>1, <2>3 DEF Sampled
    <3> QED BY <3>1, <3>2
  <2>5. f \in Bijection(0 .. last, Sampled(n))
    <3>1. f \in [0 .. last -> Sampled(n)]
      BY <2>4
    <3>2. ASSUME NEW i \in 0 .. last, NEW j \in 0 .. last, f[i] = f[j] PROVE i = j
      <4>1. i * q = j * q /\ i * q \in Nat /\ j * q \in Nat
        BY <3>2, <2>1
      <4>2. ~(i < j)
        <5>1. i < j => i * q + q <= j * q
          BY <2>1, Multiples
        <5> QED BY <5>1, <4>1, <2>1
      <4>3. ~(j < i)
        <5>1. j < i => j * q + q <= i * q
          BY <2>1, Multiples
        <5> QED BY <5>1, <4>1, <2>1
      <4> QED BY <4>2, <4>3
    <3>3. \A p \in Sampled(n) : \E i \in 0 .. last : f[i] = p
      BY <2>4
    <3> QED BY <3>1, <3>2, <3>3 DEF Bijection, Injection, Surjection, IsInjective
  <2>6. IsFiniteSet(0 .. last) /\ Cardinality(0 .. last) = SampleMax
    <3>1. 0 \in Int /\ last \in Int /\ 0 <= last
      OBVIOUS
    <3> QED BY <3>1, FS_Interval
  <2>7. IsFiniteSet(Sampled(n)) /\ Cardinality(Sampled(n)) = SampleMax
    <3>1. ExistsBijection(0 .. last, Sampled(n))
      BY <2>5 DEF ExistsBijection
    <3> QED BY <3>1, <2>6, FS_Bijection
  <2>8. 1 + last * q \in Sampled(n) /\ 2 * (1 + last * q) > n
    <3>1. last \in 0 .. last
      OBVIOUS
    <3>2. q + SampleMax <= last * q + 2
      <4> DEFINE k == last - 1
      <4>1. k \in Nat /\ last * q = k * q + q /\ k * q \in Nat
        BY <2>1
      <4>2. k <= k * q
        <5>1. CASE q = 1
          BY <5>1, <4>1
        <5>2. CASE q > 1
          <6>1. 1 * k + k <= q * k \/ k = 0
            BY <5>2, <2>1, <4>1, Multiples
          <6>2. 1 * k = k /\ q * k = k * q
            BY <4>1, <2>1
          <6> QED BY <6>1, <6>2, <4>1
        <5> QED BY <5>1, <5>2, <2>1
      <4>3. SampleMax = k + 2
        OBVIOUS
      <4> HIDE DEF k
      <4> QED BY <4>1, <4>2, <4>3, <2>1, <2>2
    <3>4. 2 * (1 + last * q) > n
      <4> DEFINE m == last * q
      <4>1. m \in Nat /\ q + SampleMax <= m + 2 /\ n < m + q + SampleMax
        BY <2>1, <2>2, <3>2
      <4> HIDE DEF m
      <4>2. 2 * (1 + m) > n
        BY <4>1, <2>1
      <4> QED BY <4>2 DEF m
    <3> QED BY <2>4, <3>1, <3>4
  <2>9. n > 0 => \E p \in Sampled(n) : 2 * p > n
    BY <2>8
  <2> QED BY <1>2, <2>7, <2>9
<1> QED BY <1>1, <1>2

\* The sample under way: what was tried is part of what has to be.
SampleInv ==
    /\ walk \in {"idle", "scan", "size", "done", "failed"}
    /\ scanned \in 0 .. ScanBudget
    /\ tried \subseteq Sampled(scanned)
    /\ walk \in {"idle", "scan"} => tried = {}
    /\ walk = "done" => tried = Sampled(scanned)

\* Every step of the walk keeps to its budget.
LEMMA SampleStep == SampleInv /\ [SampleNext]_sampleVars => SampleInv'
<1> SUFFICES ASSUME SampleInv, [SampleNext]_sampleVars PROVE SampleInv'
  OBVIOUS
<1> USE SampleAssumption DEF SampleInv
<1>1. CASE SampleStart
  BY <1>1 DEF SampleStart
<1>2. ASSUME NEW k \in 0 .. MaxPage, NEW over \in BOOLEAN, ScanPage(k, over) PROVE SampleInv'
  <2>1. tried' = {} /\ walk' \in {"scan", "size"}
    BY <1>2 DEF ScanPage
  <2>2. scanned' \in 0 .. ScanBudget
    BY <1>2 DEF ScanPage
  <2> QED BY <2>1, <2>2
<1>3. ASSUME NEW p \in 1 .. ScanBudget, SizeKey(p) PROVE SampleInv'
  BY <1>3 DEF SizeKey
<1>4. CASE SampleEnd
  BY <1>4 DEF SampleEnd
<1>5. CASE SampleFails
  BY <1>5 DEF SampleFails
<1>6. CASE UNCHANGED sampleVars
  BY <1>6 DEF sampleVars
<1> QED BY <1>1, <1>2, <1>3, <1>4, <1>5, <1>6 DEF SampleNext

\* A finished sample is as large as it may be and spread.
LEMMA SampleFine == SampleInv => SampleSpreads
<1> SUFFICES ASSUME SampleInv, walk = "done" PROVE
        /\ scanned <= ScanBudget
        /\ Cardinality(tried) = IF scanned < SampleMax THEN scanned ELSE SampleMax
        /\ scanned > 0 => \E p \in tried : 2 * p > scanned
  BY DEF SampleSpreads
<1>1. scanned \in Nat /\ scanned <= ScanBudget /\ tried = Sampled(scanned)
  BY SampleAssumption DEF SampleInv
<1> QED BY <1>1, SampleShape

-----------------------------------------------------------------------------
(* Churn *)

Snapshots == [total : Nat, uptime : Nat, ever : Nat, boot : Nat]

\* What a caller keeps of a snapshot: all of it, or none of time and total.
Histories == [at : Nat, total : Nat, ever : Nat, boot : Nat]
             \cup [at : {Missing}, total : {Missing}, ever : {0}, boot : {0}]

\* Counters read first and later: the later ones are of the same run of the
\* broker and account for every connection since, or of a later run and count
\* at most those.
Older(h, t, e, b) ==
    /\ h.ever <= e
    /\ h.total # Missing => h.boot <= b
    /\ h.total # Missing /\ h.boot = b => t - h.total = e - h.ever
    /\ h.total # Missing /\ h.boot < b => t <= e - h.ever

ChurnInv ==
    /\ clock \in Nat /\ boot \in Nat /\ total \in Nat /\ ever \in Nat
    /\ boot <= clock /\ total <= ever
    /\ pulled # None =>
          /\ pulled \in Snapshots /\ pulled.total <= pulled.ever
          /\ Older(pulled, total, ever, boot)
    /\ kept # None =>
          /\ kept \in Histories
          /\ Older(kept, total, ever, boot)
          /\ pulled # None => Older(kept, pulled.total, pulled.ever, pulled.boot)

\* The last answer is what ChurnIsReal calls real.
Real(rate, at, s, h) ==
    LET since == IF h = None THEN 0 ELSE s.ever - h.ever
        dt    == IF h = None THEN 0 ELSE at - Num(h.at)
    IN  /\ \/ rate = 0
           \/ rate > 0 /\ IsAtMost(rate, s.total, s.uptime)
           \/ rate > 0 /\ IsAtMost(rate, since, dt)
        /\ h # None /\ dt > 0 /\ Num(h.at) # 0 /\ h.boot = s.boot =>
              IsRate(rate, since, dt)

\* A rounded rate of n connections in t seconds is one.
LEMMA RateOf ==
    ASSUME NEW n \in Nat, NEW t \in Nat, t > 0
    PROVE  RoundDiv(100 * n, t) \in Nat /\ IsRate(RoundDiv(100 * n, t), n, t)
<1>1. 100 * n \in Nat /\ t \in Nat \ {0}
  OBVIOUS
<1>2. /\ RoundDiv(100 * n, t) \in Nat
      /\ 2 * (RoundDiv(100 * n, t) * t) <= 2 * (100 * n) + t
      /\ 2 * (100 * n) <= 2 * (RoundDiv(100 * n, t) * t) + t
  BY <1>1, Rounding
<1> DEFINE m == RoundDiv(100 * n, t) * t
<1>3. m \in Nat
  BY <1>2
<1>4. 2 * m <= 200 * n + t /\ 200 * n <= 2 * m + t
  <2> HIDE DEF m
  <2>1. 2 * m <= 2 * (100 * n) + t /\ 2 * (100 * n) <= 2 * m + t
    BY <1>2 DEF m
  <2> QED BY <2>1, <1>3
<1> QED BY <1>2, <1>4 DEF IsRate, IsAtMost

\* Whatever history a caller passes, the rate of a snapshot is real.
LEMMA RateIsReal ==
    ASSUME NEW s \in Snapshots, s.total <= s.ever, NEW at \in Nat, NEW h,
           h # None => h \in Histories /\ Older(h, s.total, s.ever, s.boot)
    PROVE  Real(Rate(s, at, h), at, s, h)
<1> USE MissingAssumption
<1>1. Lifetime(s) = 0 \/ (Lifetime(s) \in Nat /\ IsAtMost(Lifetime(s), s.total, s.uptime))
  <2>1. CASE s.uptime = 0
    BY <2>1 DEF Lifetime
  <2>2. CASE s.uptime > 0
    <3>1. s.total \in Nat /\ s.uptime \in Nat
      BY DEF Snapshots
    <3> QED BY <2>2, <3>1, RateOf DEF Lifetime, IsRate
  <2> QED BY <2>1, <2>2 DEF Snapshots
<1>2. CASE h = None
  BY <1>1, <1>2 DEF Rate, Real
<1>3. CASE h # None
  <2>1. h \in Histories /\ Older(h, s.total, s.ever, s.boot)
    BY <1>3
  <2> DEFINE since == s.ever - h.ever
             dt == at - Num(h.at)
             d == s.total - Num(h.total)
  <2>2. /\ since \in Nat /\ dt \in Int /\ d \in Int
        /\ Num(h.at) \in Nat /\ Num(h.total) \in Nat
        /\ (at > Num(h.at) <=> dt > 0) /\ (s.total >= Num(h.total) <=> d >= 0)
    BY <2>1 DEF Histories, Snapshots, Older, Num
  <2>3. h.total # Missing /\ h.boot = s.boot => d = since
    BY <2>1 DEF Older, Num
  <2>4. d <= since
    <3>1. CASE h.total = Missing
      BY <2>1, <3>1 DEF Histories, Snapshots, Num
    <3>2. CASE h.total # Missing
      BY <2>1, <3>2 DEF Histories, Snapshots, Older, Num
    <3> QED BY <3>1, <3>2
  <2>5. Num(h.at) # 0 => h.total # Missing
    BY <2>1 DEF Histories, Num
  <2>6. CASE dt > 0 /\ d >= 0
    <3>1. Rate(s, at, h) = RoundDiv(100 * d, dt)
      BY <2>6, <2>2, <1>3 DEF Rate
    <3>2. /\ RoundDiv(100 * d, dt) \in Nat
          /\ IsRate(RoundDiv(100 * d, dt), d, dt)
      <4>1. d \in Nat /\ dt \in Nat /\ dt > 0
        BY <2>6, <2>2
      <4> HIDE DEF d, dt
      <4> QED BY <4>1, RateOf
    <3>3. IsAtMost(RoundDiv(100 * d, dt), since, dt)
      <4> DEFINE m == RoundDiv(100 * d, dt) * dt
      <4>1. m \in Int
        BY <3>2, <2>2
      <4> HIDE DEF since, dt, d, m
      <4>2. 2 * m <= 200 * d + dt
        BY <3>2 DEF IsRate, IsAtMost, m
      <4>3. 2 * m <= 200 * since + dt
        BY <4>1, <4>2, <2>2, <2>4
      <4> QED BY <4>3, <2>6 DEF IsAtMost, m
    <3> HIDE DEF since, dt, d
    <3>4. dt > 0 /\ Num(h.at) # 0 /\ h.boot = s.boot => IsRate(RoundDiv(100 * d, dt), since, dt)
      BY <2>3, <2>5, <3>2
    <3>5. RoundDiv(100 * d, dt) = 0 \/ RoundDiv(100 * d, dt) > 0
      BY <3>2
    <3> QED BY <1>3, <3>1, <3>3, <3>4, <3>5 DEF Real, since, dt
  <2>7. CASE ~(dt > 0 /\ d >= 0)
    <3>1. Rate(s, at, h) = Lifetime(s)
      BY <2>7, <2>2, <1>3 DEF Rate
    <3>2. ~(dt > 0 /\ Num(h.at) # 0 /\ h.boot = s.boot)
      BY <2>7, <2>2, <2>3, <2>5
    <3> QED BY <1>1, <1>3, <3>1, <3>2 DEF Real
  <2> QED BY <2>6, <2>7
<1> QED BY <1>2, <1>3

\* The churn analysis keeps its counters in order, and answers with real rates.
LEMMA ChurnStep ==
    ASSUME ChurnInv, ChurnIsReal, [ChurnNext]_churnVars
    PROVE  ChurnInv' /\ ChurnIsReal'
<1> USE MissingAssumption
<1>1. CASE Arrive
  <2>1. ChurnInv'
    BY <1>1 DEF Arrive, ChurnInv, Older, Snapshots, Histories
  <2> QED BY <1>1, <2>1 DEF Arrive, ChurnIsReal
<1>2. CASE Pass
  <2>1. ChurnInv'
    BY <1>2 DEF Pass, ChurnInv, Older, ChurnAssumption
  <2> QED BY <1>2, <2>1 DEF Pass, ChurnIsReal
<1>3. CASE Reboot
  <2>1. ChurnInv'
    <3>1. ASSUME NEW h, h \in Snapshots \/ h \in Histories, Older(h, total, ever, boot)
          PROVE  Older(h, 0, ever, clock)
      BY <1>3, <3>1 DEF Reboot, ChurnInv, Older, Snapshots, Histories
    <3> QED BY <1>3, <3>1 DEF Reboot, ChurnInv
  <2> QED BY <1>3, <2>1 DEF Reboot, ChurnIsReal
<1>4. CASE Pull
  <2>1. ChurnInv'
    BY <1>4 DEF Pull, ChurnInv, Older, Snapshots, Histories
  <2> QED BY <1>4, <2>1 DEF Pull, ChurnIsReal
<1>5. CASE PullFails
  <2>1. ChurnInv'
    BY <1>5 DEF PullFails, ChurnInv
  <2> QED BY <1>5, <2>1 DEF PullFails, ChurnIsReal
<1>6. ASSUME NEW h \in {None, kept}, Answer(h) PROVE ChurnInv' /\ ChurnIsReal'
  <2> USE <1>6 DEF Answer
  <2>1. /\ pulled \in Snapshots /\ pulled.total <= pulled.ever
        /\ Older(pulled, total, ever, boot)
    BY DEF ChurnInv
  <2>2. h # None => h \in Histories /\ Older(h, pulled.total, pulled.ever, pulled.boot)
    BY DEF ChurnInv
  <2>3. Real(Rate(pulled, clock, h), clock, pulled, h)
    BY <2>1, <2>2, RateIsReal DEF ChurnInv
  <2>4. ChurnIsReal'
    BY <2>3 DEF ChurnIsReal, Real
  <2>5. kept' # None => kept' \in Histories /\ Older(kept', total, ever, boot)
    BY <2>1 DEF ChurnInv, Older, Snapshots, Histories
  <2>6. ChurnInv'
    BY <2>5 DEF ChurnInv
  <2> QED BY <2>4, <2>6
<1>7. CASE UNCHANGED churnVars
  BY <1>7 DEF churnVars, ChurnInv, ChurnIsReal
<1> QED BY <1>1, <1>2, <1>3, <1>4, <1>5, <1>6, <1>7 DEF ChurnNext

-----------------------------------------------------------------------------
(* What the analyses are made of *)

\* A table cut at a limit leaves out nothing larger than what it keeps.
LEMMA Cutting ==
    ASSUME NEW rows, NEW n, NEW column, NEW some \in First(rows, n, column)
    PROVE  some \subseteq rows /\ \A r \in some, s \in rows \ some : r[column] >= s[column]
BY DEF First

\* A row that is not kept has as many rows at or above it as the limit, and itself.
LEMMA CutRank ==
    ASSUME NEW rows, IsFiniteSet(rows), NEW n \in Nat, NEW column,
           NEW some \in First(rows, n, column), NEW e \in rows \ some, e[column] \in Int
    PROVE  Cardinality({r \in rows : r[column] >= e[column]}) > n
<1> DEFINE above == {r \in rows : r[column] >= e[column]}
<1>1. /\ some \cup {e} \subseteq above /\ some \subseteq rows
      /\ Cardinality(some) = IF Cardinality(rows) < n THEN Cardinality(rows) ELSE n
  BY DEF First
<1>2. IsFiniteSet(above) /\ IsFiniteSet(some)
  BY <1>1, FS_Subset
<1>3. IsFiniteSet(some \cup {e}) /\ Cardinality(some \cup {e}) = Cardinality(some) + 1
  BY <1>2, FS_AddElement
<1>4. Cardinality(some) + 1 <= Cardinality(above) /\ Cardinality(some) + 1 <= Cardinality(rows)
  <2>1. some \cup {e} \in SUBSET above /\ some \cup {e} \in SUBSET rows
    BY <1>1
  <2> QED BY <2>1, <1>2, <1>3, FS_Subset
<1>5. Cardinality(above) \in Nat /\ Cardinality(rows) \in Nat
  BY <1>2, FS_CardinalityType
<1> QED BY <1>1, <1>4, <1>5

\* A finite set of rows has a largest one.
LEMMA Largest ==
    ASSUME NEW S, IsFiniteSet(S), S # {}, NEW column, \A x \in S : x[column] \in Int
    PROVE  \E top \in S : \A t \in S : t[column] <= top[column]
<1> DEFINE Above(x) == {t \in S : t[column] > x[column]}
           T == {Above(x) : x \in S}
<1>1. T \subseteq FiniteSubsetsOf(S) /\ T # {}
  <2>1. \A x \in S : Above(x) \subseteq S /\ IsFiniteSet(Above(x))
    BY FS_Subset
  <2> QED BY <2>1 DEF FiniteSubsetsOf
<1>2. PICK X \in T : \A Y \in T : ~ (<<Y, X>> \in StrictSubsetOrdering(S))
  <2> HIDE DEF T
  <2>1. IsWellFoundedOn(StrictSubsetOrdering(S), FiniteSubsetsOf(S))
    BY FS_StrictSubsetOrderingWellFounded
  <2> QED BY <1>1, <2>1, WFMin
<1>3. PICK x \in S : X = Above(x)
  BY DEF T
<1>4. ASSUME NEW t \in S, ~(t[column] <= x[column]) PROVE FALSE
  <2>1. t \in Above(x) /\ t \notin Above(t) /\ Above(t) \subseteq Above(x)
    BY <1>4
  <2>2. Above(t) \in T /\ Above(t) \in SUBSET S /\ X \in SUBSET S /\ Above(t) # X
    BY <1>3, <2>1
  <2>3. <<Above(t), X>> \in StrictSubsetOrdering(S)
    BY <1>3, <2>1, <2>2 DEF StrictSubsetOrdering
  <2> QED BY <1>2, <2>2, <2>3
<1> QED BY <1>4

\* A percentage is its fraction, up to rounding.
LEMMA Percentage ==
    ASSUME NEW part \in Nat, NEW whole \in Nat, NEW tenths \in Nat
    PROVE  /\ Pct(part, whole) \in Nat
           /\ whole > 0 /\ Pct(part, whole) >= tenths => Reaches(part, whole, tenths)
           /\ Certainly(part, whole, tenths) => Pct(part, whole) >= tenths
           /\ whole = 0 => Pct(part, whole) = 0
<1>1. CASE whole = 0
  BY <1>1 DEF Pct, Certainly
<1>2. CASE whole > 0
  <2> DEFINE r == RoundDiv(1000 * part, whole)
  <2>1. 1000 * part \in Nat /\ whole \in Nat \ {0}
    BY <1>2
  <2>2. r \in Nat /\ 2 * (r * whole) <= 2 * (1000 * part) + whole
        /\ 2 * (1000 * part) <= 2 * (r * whole) + whole
    BY <2>1, Rounding
  <2>3. Pct(part, whole) = r
    BY <1>2 DEF Pct
  <2> HIDE DEF r
  <2>4. r >= tenths => r * whole >= tenths * whole
    <3>1. CASE r = tenths
      BY <3>1, <2>2
    <3>2. CASE r > tenths
      <4>1. tenths * whole + whole <= r * whole
        BY <3>2, <1>2, <2>2, Multiples
      <4> QED BY <4>1, <2>2
    <3> QED BY <3>1, <3>2, <2>2
  <2>5. r < tenths => r * whole + whole <= tenths * whole
    BY <1>2, <2>2, Multiples
  <2> DEFINE x == r * whole
             y == tenths * whole
  <2>6. x \in Nat /\ y \in Nat /\ 2 * tenths * whole = 2 * y
    BY <2>2
  <2>7. /\ 2 * x <= 2000 * part + whole /\ 2000 * part <= 2 * x + whole
        /\ r >= tenths => x >= y
        /\ r < tenths => x + whole <= y
    BY <2>2, <2>4, <2>5
  <2> HIDE DEF x, y
  <2>8. r >= tenths => 2000 * part + whole >= 2 * y
    BY <2>6, <2>7
  <2>9. 1000 * part >= y => r >= tenths
    BY <2>6, <2>7, <2>2, <1>2
  <2> QED BY <1>2, <2>2, <2>3, <2>6, <2>8, <2>9 DEF Reaches, Certainly, y
<1> QED BY <1>1, <1>2

\* A cell counts as a natural number.
LEMMA Counts == \A v \in Cell : Num(v) \in Nat
BY DEF Cell, Num

-----------------------------------------------------------------------------
(* The calls *)

\* Sizes are numbers, and the rows of a sample are its largest keys.
SizedInv ==
    /\ sized \subseteq [key : 1 .. ScanBudget, bytes : Sizes]
    /\ walk = "done" => topKeys \in First(sized, TopKeys, "bytes")
    /\ walk = "failed" => topKeys = {}

\* What a call knows is what it read: payloads are those of the broker's
\* answers, and no read before the current one was left out.
CallInv ==
    /\ call = None => report = None /\ made = 0
    /\ call # None =>
          /\ call.kind \in Kinds /\ call.option \in Options[call.kind]
          /\ made \in 0 .. Length
          /\ \A i \in 1 .. made :
                \/ Reads[call.kind][i] \in DOMAIN seen
                \/ /\ Reads[call.kind][i] = "mode"
                   /\ "keyspace" \in DOMAIN seen /\ seen["keyspace"] = Failed
    /\ \A r \in DOMAIN seen : r # "sample" /\ seen[r] # Failed =>
          seen[r] \in Answers[r] /\ got[r] \in Payloads(r, seen[r])
    /\ DOMAIN got = DOMAIN seen
    /\ "sample" \in DOMAIN seen =>
          /\ call # None /\ made = Length
          /\ got["sample"] = topKeys /\ walk \in {"done", "failed"}

\* The sized keys have been walked, and the rows are the largest of them.
LEMMA SizedStep == SizedInv /\ [SampleNext]_sampleVars => SizedInv'
<1> SUFFICES ASSUME SizedInv, [SampleNext]_sampleVars PROVE SizedInv'
  OBVIOUS
<1> USE DEF SizedInv
<1>1. CASE SampleStart
  BY <1>1 DEF SampleStart
<1>2. ASSUME NEW k \in 0 .. MaxPage, NEW over \in BOOLEAN, ScanPage(k, over) PROVE SizedInv'
  BY <1>2 DEF ScanPage
<1>3. ASSUME NEW p \in 1 .. ScanBudget, SizeKey(p) PROVE SizedInv'
  BY <1>3 DEF SizeKey
<1>4. CASE SampleEnd
  BY <1>4 DEF SampleEnd
<1>5. CASE SampleFails
  BY <1>5 DEF SampleFails
<1>6. CASE UNCHANGED sampleVars
  BY <1>6 DEF sampleVars
<1> QED BY <1>1, <1>2, <1>3, <1>4, <1>5, <1>6 DEF SampleNext

\* The sample is the last of its analysis' reads, and so is a server's mode,
\* which comes right after the key counts.
Orderly(k) ==
    /\ Len(Reads[k]) \in Nat
    /\ \A i \in 1 .. Len(Reads[k]) :
          /\ Reads[k][i] \in {"sample", "mode"} => i = Len(Reads[k])
          /\ Reads[k][i] = "keyspace" => i + 1 = Len(Reads[k]) /\ Reads[k][i + 1] = "mode"

\* In every analysis the sample and the mode come last, the mode after the key
\* counts.
LEMMA Order == \A k \in Kinds : Orderly(k)
<1>1. Orderly("memory")
  <2>1. Reads["memory"] = <<"stats", "memory", "sample">>
    BY DEF Reads
  <2>2. Len(Reads["memory"]) = 3
    BY <2>1
  <2> QED BY <2>1, <2>2 DEF Orderly
<1>2. Orderly("latency")
  <2>1. Reads["latency"] = <<"clients", "stats", "persistence", "slowlog">>
    BY DEF Reads
  <2>2. Len(Reads["latency"]) = 4
    BY <2>1
  <2> QED BY <2>1, <2>2 DEF Orderly
<1>3. Orderly("backlog")
  <2>1. Reads["backlog"] = <<"queues", "nodes">>
    BY DEF Reads
  <2>2. Len(Reads["backlog"]) = 2
    BY <2>1
  <2> QED BY <2>1, <2>2 DEF Orderly
<1>4. Orderly("rabbitChurn")
  <2>1. Reads["rabbitChurn"] = <<"overview", "connections">>
    BY DEF Reads
  <2>2. Len(Reads["rabbitChurn"]) = 2
    BY <2>1
  <2> QED BY <2>1, <2>2 DEF Orderly
<1>5. Orderly("redisOverview")
  <2>1. Reads["redisOverview"] = <<"server", "memory", "keyspace", "mode">>
    BY DEF Reads
  <2>2. Len(Reads["redisOverview"]) = 4
    BY <2>1
  <2> QED BY <2>1, <2>2 DEF Orderly
<1>6. Orderly("rabbitOverview")
  <2>1. Reads["rabbitOverview"] = <<"overview", "nodes">>
    BY DEF Reads
  <2>2. Len(Reads["rabbitOverview"]) = 2
    BY <2>1
  <2> QED BY <2>1, <2>2 DEF Orderly
<1>7. Kinds = {"memory", "latency", "backlog", "rabbitChurn", "redisOverview", "rabbitOverview"}
  BY DEF Kinds, Reads
<1> QED BY <1>1, <1>2, <1>3, <1>4, <1>5, <1>6, <1>7

\* A read adds to what the call knows, and takes nothing back.
LEMMA ReadKnows ==
    ASSUME CallInv, Reading, NEW reply, NEW payload, Read(reply, payload),
           Current # "sample" /\ reply # Failed =>
              reply \in Answers[Current] /\ payload \in Payloads(Current, reply),
           Current = "sample" =>
              payload = topKeys' /\ walk' \in {"done", "failed"},
           UNCHANGED sampleVars
    PROVE  CallInv'
<1> USE DEF CallInv, Read, Reading
<1>1. /\ call' = call /\ report' = report /\ call # None
      /\ DOMAIN seen' = DOMAIN seen \cup {Current} /\ DOMAIN got' = DOMAIN seen'
      /\ seen'[Current] = reply /\ got'[Current] = payload
      /\ \A r \in DOMAIN seen : r # Current => seen'[r] = seen[r] /\ got'[r] = got[r]
  OBVIOUS
<1>2. call.kind \in Kinds /\ Length \in Nat /\ Length' = Length
      /\ made + 1 \in 1 .. Length /\ made \in Nat
  BY <1>1, Order DEF Orderly, Length
<1>3. "sample" \notin DOMAIN seen
  BY <1>2
<1>4. made' \in 0 .. Length' /\ (Current = "sample" => made' = Length')
  BY <1>2, Order DEF Orderly, Length, Current
<1>5. \A i \in 1 .. made' :
        \/ Reads[call.kind][i] \in DOMAIN seen'
        \/ /\ Reads[call.kind][i] = "mode"
           /\ "keyspace" \in DOMAIN seen' /\ seen'["keyspace"] = Failed
  <2> TAKE i \in 1 .. made'
  <2>1. CASE i <= made
    <3>1. \/ Reads[call.kind][i] \in DOMAIN seen
          \/ /\ Reads[call.kind][i] = "mode"
             /\ "keyspace" \in DOMAIN seen /\ seen["keyspace"] = Failed
      BY <1>1, <1>2, <1>4, <2>1
    <3>2. Reads[call.kind][i] # "mode"
      BY <1>2, <2>1, <1>4, Order DEF Orderly, Length
    <3> QED BY <1>1, <3>1, <3>2
  <2>2. CASE i = made + 1
    BY <1>1, <2>2 DEF Current
  <2>3. CASE i > made + 1
    <3>1. Current = "keyspace" /\ reply = Failed /\ made' = Length
      BY <2>3, <1>2, <1>4
    <3>2. Reads[call.kind][i] = "mode"
      <4>1. i = made + 2 /\ Length = made + 2
        BY <3>1, <2>3, <1>2, <1>4, Order DEF Orderly, Current, Length
      <4> QED BY <3>1, <4>1, <1>2, Order DEF Orderly, Current, Length
    <3> QED BY <1>1, <3>1, <3>2
  <2> QED BY <2>1, <2>2, <2>3, <1>2, <1>4
<1>6. \A r \in DOMAIN seen' : r # "sample" /\ seen'[r] # Failed =>
          seen'[r] \in Answers[r] /\ got'[r] \in Payloads(r, seen'[r])
  BY <1>1
<1>7. "sample" \in DOMAIN seen' =>
        call' # None /\ made' = Length' /\ got'["sample"] = topKeys' /\ walk' \in {"done", "failed"}
  BY <1>1, <1>3, <1>4
<1> QED BY <1>1, <1>2, <1>4, <1>5, <1>6, <1>7

\* Every step of a call keeps its reads in order.
LEMMA CallStep ==
    ASSUME CallInv, [CallNext]_<<callVars, sampleVars>>
    PROVE  CallInv'
<1>1. ASSUME NEW kind \in Kinds, NEW option \in Options[kind], Begin(kind, option) PROVE CallInv'
  <2>1. /\ call' = [kind |-> kind, option |-> option] /\ made = 0 /\ report = None
        /\ UNCHANGED <<made, seen, got, report, sampleVars>>
        /\ "sample" \notin DOMAIN seen
    BY <1>1 DEF Begin, CallInv
  <2>2. Length' \in Nat /\ 1 .. made = {}
    BY <2>1, Order DEF Orderly, Length
  <2> QED BY <2>1, <2>2 DEF CallInv, sampleVars
<1>2. CASE ReadSucceeds
  BY <1>2, ReadKnows, AnswersAssumption DEF ReadSucceeds
<1>3. CASE SoftReadFails
  BY <1>3, ReadKnows DEF SoftReadFails
<1>4. CASE HardReadFails
  BY <1>4 DEF HardReadFails, CallInv, Length, Reading, sampleVars
<1>5. CASE Sample
  <2>1. "sample" \notin DOMAIN seen
    BY <1>5, Order DEF Orderly, Sample, Reading, CallInv, Length
  <2> QED BY <1>5, <2>1 DEF Sample, callVars, CallInv, Length
<1>6. CASE SampleReturns
  BY <1>6, ReadKnows DEF SampleReturns, sampleVars
<1>7. CASE ReportMemory \/ ReportLatency \/ ReportBacklog \/ ReportRabbitChurn
           \/ ReportRedisOverview \/ ReportRabbitOverview
  <2>1. call # None /\ \E r : Returns(r)
    BY <1>7 DEF ReportMemory, ReportLatency, ReportBacklog, ReportRabbitChurn,
                ReportRedisOverview, ReportRabbitOverview, Complete
  <2> QED BY <2>1 DEF Returns, CallInv, Length, sampleVars
<1>8. CASE Done
  BY <1>8 DEF Done, CallInv, NoReads
<1>9. CASE UNCHANGED <<callVars, sampleVars>>
  BY <1>9 DEF callVars, sampleVars, CallInv, Length
<1> QED BY <1>1, <1>2, <1>3, <1>4, <1>5, <1>6, <1>7, <1>8, <1>9 DEF CallNext

-----------------------------------------------------------------------------
(* What is reported *)

\* A call that is complete made each of its reads.
LEMMA AllRead ==
    ASSUME CallInv, NEW k \in Kinds, Complete(k), NEW i \in 1 .. Len(Reads[k])
    PROVE  \/ Reads[k][i] \in DOMAIN seen
           \/ /\ Reads[k][i] = "mode"
              /\ "keyspace" \in DOMAIN seen /\ seen["keyspace"] = Failed
BY DEF CallInv, Complete, Length

\* A payload is that of the broker's answer.
LEMMA Payload ==
    ASSUME CallInv, NEW r \in DOMAIN seen, r # "sample", seen[r] # Failed
    PROVE  /\ seen[r] \in Answers[r]
           /\ r = "memory" => got[r] = MemoryStats(seen[r])
           /\ r = "slowlog" => got[r] \in Slowlog(seen[r])
           /\ r = "queues" => got[r] \in ListQueues(seen[r])
           /\ r \notin {"memory", "slowlog", "queues"} => got[r] = seen[r]
<1>1. seen[r] \in Answers[r] /\ got[r] \in Payloads(r, seen[r])
  BY DEF CallInv
<1>2. CASE r = "memory"
  BY <1>1, <1>2 DEF Payloads
<1>3. CASE r = "slowlog"
  BY <1>1, <1>3 DEF Payloads
<1>4. CASE r = "queues"
  BY <1>1, <1>4 DEF Payloads
<1>5. CASE r \notin {"memory", "slowlog", "queues"}
  BY <1>1, <1>5 DEF Payloads
<1> QED BY <1>1, <1>2, <1>3, <1>4, <1>5

AllExact == FindingsExact /\ LargestShown /\ OverviewHonest

\* The memory analysis.
LEMMA MemoryReport ==
    ASSUME CallInv, SizedInv, ReportMemory
    PROVE  AllExact'
<1>1. /\ Complete("memory") /\ UNCHANGED <<call, made, seen, got, sampleVars>>
      /\ call.kind = "memory"
      /\ report' \in MemoryRca(OrElse("memory", NoMemory), Num(got["stats"].evicted_keys),
                              got["sample"], call.option)
  BY DEF ReportMemory, Returns, Complete
<1>2. "memory" \in DOMAIN seen /\ "sample" \in DOMAIN seen
  <2>1. "memory" \in Kinds /\ Reads["memory"] = <<"stats", "memory", "sample">>
    BY DEF Kinds, Reads
  <2>2. /\ 2 \in 1 .. Len(Reads["memory"]) /\ 3 \in 1 .. Len(Reads["memory"])
        /\ Reads["memory"][2] = "memory" /\ Reads["memory"][3] = "sample"
    BY <2>1
  <2> QED BY <1>1, <2>1, <2>2, AllRead
<1>3. call.option \in Nat
  BY <1>1, AnswersAssumption DEF Complete, CallInv
<1> DEFINE m == OrElse("memory", NoMemory)
           big == {k \in got["sample"] : k.bytes >= BigKeyMinBytes}
<1>4. /\ report'.rows \in First(big, Evidence, "bytes")
      /\ "oom" \in report'.findings <=>
            NearLimit(m, call.option) /\ m.maxmemoryPolicy = "noeviction"
      /\ "evictionImminent" \in report'.findings <=>
            NearLimit(m, call.option) /\ m.maxmemoryPolicy # "noeviction"
      /\ "swapping" \in report'.findings <=> Swapping(m.fragmentationRatio)
  BY <1>1 DEF MemoryRca, When
<1>5. MemoryExact'
  <2> DEFINE g == seen["memory"]
             near == NearLimit(m, call.option)
  <2>1. CASE seen["memory"] = Failed
    <3>1. ~near /\ ~Swapping(m.fragmentationRatio)
      BY <2>1 DEF OrElse, NoMemory, NearLimit, Swapping
    <3> QED BY <1>1, <1>4, <2>1, <3>1 DEF MemoryExact, Succeeded, Reported
  <2>2. CASE seen["memory"] # Failed
    <3>1. g \in Answers["memory"] /\ got["memory"] = MemoryStats(g)
      BY <1>2, <2>2, Payload
    <3>2. /\ Num(g.used_memory) \in Nat /\ Num(g.maxmemory) \in Nat
          /\ g.mem_fragmentation_ratio = Missing => Num(g.mem_fragmentation_ratio) = 0
      BY <3>1, AnswersAssumption, Counts DEF Num
    <3>3. /\ m.maxmemoryBytes = Num(g.maxmemory)
          /\ m.usedPctOfMax = Pct(Num(g.used_memory), Num(g.maxmemory))
          /\ m.maxmemoryPolicy = g.maxmemory_policy
          /\ m.fragmentationRatio = Num(g.mem_fragmentation_ratio)
      BY <2>2, <3>1 DEF OrElse, MemoryStats
    <3>4. /\ near => Reaches(Num(g.used_memory), Num(g.maxmemory), call.option)
          /\ Certainly(Num(g.used_memory), Num(g.maxmemory), call.option) => near
      <4> DEFINE part == Num(g.used_memory)
                 whole == Num(g.maxmemory)
      <4> HIDE DEF part, whole, m
      <4>1. part \in Nat /\ whole \in Nat
        BY <3>2 DEF part, whole
      <4>2. near <=> whole > 0 /\ Pct(part, whole) >= call.option
        BY <3>3 DEF NearLimit, part, whole
      <4>3. near => Reaches(part, whole, call.option)
        BY <4>1, <4>2, <1>3, Percentage
      <4>4. Certainly(part, whole, call.option) => near
        BY <4>1, <4>2, <1>3, Percentage DEF Certainly
      <4> QED BY <4>3, <4>4 DEF part, whole
    <3>5. Swapping(m.fragmentationRatio) => g.mem_fragmentation_ratio # Missing
      BY <3>2, <3>3 DEF Swapping
    <3> HIDE DEF near, m
    <3>6. /\ report'.findings \cap {"oom", "evictionImminent"} # {} <=> near
          /\ "oom" \in report'.findings <=> near /\ g.maxmemory_policy = "noeviction"
          /\ "oom" \notin report'.findings \/ "evictionImminent" \notin report'.findings
      BY <1>4, <3>3 DEF near
    <3> QED BY <1>1, <1>4, <2>2, <3>4, <3>5, <3>6 DEF MemoryExact, Succeeded, Reported
  <2> QED BY <2>1, <2>2
<1>6. \A k \in sized \ report'.rows, row \in report'.rows : walk = "done" => k.bytes <= row.bytes
  <2> TAKE k \in sized \ report'.rows, row \in report'.rows
  <2> SUFFICES ASSUME walk = "done" PROVE k.bytes <= row.bytes
    OBVIOUS
  <2>1. got["sample"] = topKeys /\ topKeys \in First(sized, TopKeys, "bytes")
    BY <1>2 DEF CallInv, SizedInv
  <2>2. row \in big /\ row \in topKeys /\ row \in sized
    BY <1>4, <2>1, Cutting
  <2>3. k.bytes \in Nat /\ row.bytes \in Nat
    BY <2>2, SampleAssumption DEF SizedInv
  <2>4. CASE k \notin topKeys
    <3>1. row["bytes"] >= k["bytes"]
      BY <2>1, <2>2, <2>4, Cutting
    <3> QED BY <3>1, <2>3
  <2>5. CASE k \in topKeys /\ k \in big
    <3>1. row["bytes"] >= k["bytes"]
      BY <1>4, <2>5, Cutting
    <3> QED BY <3>1, <2>3
  <2>6. CASE k \in topKeys /\ k \notin big
    BY <2>1, <2>2, <2>3, <2>6, LimitsAssumption
  <2> QED BY <2>4, <2>5, <2>6
<1> QED BY <1>1, <1>5, <1>6 DEF AllExact, FindingsExact, BacklogExact, LargestShown,
                                 OverviewHonest, Reported, sampleVars

\* The latency analysis: the newest entries of the log, the slowest of them,
\* the slowest of each command, the slowest commands.
LEMMA LatencyReport ==
    ASSUME CallInv, ReportLatency
    PROVE  AllExact'
<1>1. /\ Complete("latency") /\ UNCHANGED <<call, made, seen, got, sampleVars>>
      /\ call.kind = "latency"
      /\ report' \in LatencyRca(OrElse("slowlog", {}), got["clients"], got["stats"],
                               got["persistence"], call.option)
  BY DEF ReportLatency, Returns, Complete
<1>2. "slowlog" \in DOMAIN seen
  <2>1. "latency" \in Kinds /\ Reads["latency"] = <<"clients", "stats", "persistence", "slowlog">>
    BY DEF Kinds, Reads
  <2>2. 4 \in 1 .. Len(Reads["latency"]) /\ Reads["latency"][4] = "slowlog"
    BY <2>1
  <2> QED BY <1>1, <2>1, <2>2, AllRead
<1>3. call.option \in Nat
  BY <1>1, AnswersAssumption DEF Complete, CallInv
<1> DEFINE log == seen["slowlog"]
           entries == got["slowlog"]
           slow == {d \in Digest(entries) : d.maxUs >= call.option}
<1>4. seen["slowlog"] # Failed => report'.rows \in First(slow, Evidence, "maxUs")
  BY <1>1 DEF LatencyRca, OrElse
<1>5. ASSUME seen["slowlog"] # Failed,
             NEW e \in log, NEW row \in report'.rows,
             Cardinality({n \in log : n.id >= e.id}) <= SlowlogRows + 1,
             \A other \in report'.rows : other.command # e.command
      PROVE  e.durationUs <= row.maxUs
  <2>1. log \in Answers["slowlog"] /\ entries \in Slowlog(log)
    BY <1>2, <1>5, Payload
  <2>2. IsFiniteSet(log) /\ \A x \in log : x.id \in Nat /\ x.durationUs \in Nat
    BY <2>1, AnswersAssumption
  <2>3. PICK newest \in First(log, SlowlogRows + 1, "id") :
            entries \in First(newest, SlowlogRows, "durationUs")
    BY <2>1 DEF Slowlog
  <2>4. entries \subseteq newest /\ newest \subseteq log
    BY <2>3, Cutting
  <2>5. e \in newest
    <3>1. ASSUME e \notin newest PROVE FALSE
      <4>1. e["id"] \in Int /\ SlowlogRows + 1 \in Nat
        BY <2>2, LimitsAssumption
      <4>2. Cardinality({n \in log : n["id"] >= e["id"]}) > SlowlogRows + 1
        BY <2>2, <2>3, <3>1, <4>1, CutRank
      <4>3. IsFiniteSet({n \in log : n.id >= e.id})
        BY <2>2, FS_Subset
      <4>4. Cardinality({n \in log : n.id >= e.id}) \in Nat
        BY <4>3, FS_CardinalityType
      <4> QED BY <1>5, <4>1, <4>2, <4>4
    <3> QED BY <3>1
  <2>6. PICK s \in entries : row = [command |-> s.command, maxUs |-> s.durationUs,
                                   heavy |-> s.command \in HeavyCommands]
    BY <1>4, <1>5, Cutting DEF Digest
  <2>7. row.maxUs = s.durationUs /\ row.maxUs \in Nat /\ e.durationUs \in Nat /\ row.maxUs >= call.option
    BY <1>4, <1>5, <2>2, <2>4, <2>6, Cutting
  <2>8. CASE e \notin entries
    <3>1. s["durationUs"] >= e["durationUs"]
      BY <2>3, <2>5, <2>6, <2>8, Cutting
    <3> QED BY <3>1, <2>7
  <2>9. CASE e \in entries
    \* Its command's slowest entry has a row of the digest.
    <3>1. PICK top \in entries : /\ top.command = e.command
                                 /\ \A t \in entries : t.command = e.command => t.durationUs <= top.durationUs
      <4> DEFINE same == {x \in entries : x.command = e.command}
      <4>1. IsFiniteSet(same) /\ e \in same /\ \A x \in same : x["durationUs"] \in Int
        <5>1. same \in SUBSET log
          BY <2>4
        <5> QED BY <5>1, <2>2, <2>9, FS_Subset
      <4>2. \E top \in same : \A t \in same : t["durationUs"] <= top["durationUs"]
        <5> HIDE DEF same
        <5> QED BY <4>1, Largest
      <4> QED BY <4>2
    <3> DEFINE own == [command |-> top.command, maxUs |-> top.durationUs,
                       heavy |-> top.command \in HeavyCommands]
    <3>2. /\ own \in Digest(entries) /\ own.maxUs \in Nat /\ e.durationUs <= own.maxUs
          /\ own.command = e.command
      BY <3>1, <2>2, <2>4, <2>9 DEF Digest
    <3> HIDE DEF own
    <3>3. own \notin report'.rows
      BY <1>5, <3>2
    <3>4. CASE own \in slow
      <4>1. row["maxUs"] >= own["maxUs"]
        BY <1>4, <1>5, <3>3, <3>4, Cutting
      <4> QED BY <4>1, <3>2, <2>7
    <3>5. CASE own \notin slow
      BY <3>2, <3>5, <2>7, <1>3
    <3> QED BY <3>4, <3>5
  <2> QED BY <2>8, <2>9
<1> QED BY <1>1, <1>5 DEF AllExact, FindingsExact, MemoryExact, BacklogExact, LargestShown,
                          OverviewHonest, Reported, Succeeded

\* The backlog analysis.
LEMMA BacklogReport ==
    ASSUME CallInv, ReportBacklog
    PROVE  AllExact'
<1>1. /\ Complete("backlog") /\ UNCHANGED <<call, made, seen, got, sampleVars>>
      /\ call.kind = "backlog"
      /\ report' \in BacklogRca(OrElse("queues", {}), OrElse("nodes", {}), call.option)
  BY DEF ReportBacklog, Returns, Complete
<1>2. "queues" \in DOMAIN seen /\ "nodes" \in DOMAIN seen
  <2>1. "backlog" \in Kinds /\ Reads["backlog"] = <<"queues", "nodes">>
    BY DEF Kinds, Reads
  <2>2. /\ 1 \in 1 .. Len(Reads["backlog"]) /\ 2 \in 1 .. Len(Reads["backlog"])
        /\ Reads["backlog"][1] = "queues" /\ Reads["backlog"][2] = "nodes"
    BY <2>1
  <2> QED BY <1>1, <2>1, <2>2, AllRead
<1> DEFINE queues == OrElse("queues", {})
           nodes == OrElse("nodes", {})
           deep == {r \in queues : r.messages >= BacklogMinMessages}
           flagged == {[name |-> q.name, messages |-> q.messages, cause |-> Cause(q)] : q \in deep}
           limit == IF call.option < 1 THEN 1 ELSE call.option
<1>3. /\ report'.rows \in First(flagged, limit, "messages")
      /\ report'.findings = {<<n.name, "memAlarm">> : n \in {i \in nodes : i.mem_alarm}}
                            \cup {<<n.name, "diskAlarm">> : n \in {i \in nodes : i.disk_free_alarm}}
  BY <1>1 DEF BacklogRca
<1>4. \A r \in queues : /\ seen["queues"] # Failed
                        /\ \E q \in seen["queues"] : r = QueueRow(q)
  <2>1. CASE seen["queues"] = Failed
    BY <2>1 DEF OrElse
  <2>2. CASE seen["queues"] # Failed
    <3>1. got["queues"] \in First({QueueRow(q) : q \in seen["queues"]}, MaxRows, "messages")
      BY <1>2, <2>2, Payload DEF ListQueues
    <3>2. got["queues"] \subseteq {QueueRow(q) : q \in seen["queues"]}
      BY <3>1, Cutting
    <3> QED BY <2>2, <3>2 DEF OrElse
  <2> QED BY <2>1, <2>2
<1>5. ASSUME seen["queues"] # Failed, NEW q \in seen["queues"]
      PROVE  /\ Num(q.messages) \in Nat /\ Num(q.messages_unacknowledged) \in Nat
             /\ Num(q.consumers) \in Nat /\ Num(q.publish) \in Nat /\ Num(q.deliver) \in Nat
  <2>1. seen["queues"] \in Answers["queues"]
    BY <1>2, <1>5, Payload
  <2> QED BY <2>1, AnswersAssumption, Counts
<1>6. ASSUME NEW row \in report'.rows
      PROVE  \E q \in seen["queues"] :
              /\ seen["queues"] # Failed
              /\ q.name = row.name /\ row.messages = Num(q.messages)
              /\ QueueRow(q) \in deep /\ row.cause = Cause(QueueRow(q))
  <2>1. PICK r \in deep : row = [name |-> r.name, messages |-> r.messages, cause |-> Cause(r)]
    BY <1>3, <1>6, Cutting
  <2>2. PICK q \in seen["queues"] : r = QueueRow(q)
    BY <1>4, <2>1
  <2>3. seen["queues"] # Failed
    BY <1>4, <2>1
  <2> QED BY <2>1, <2>2, <2>3 DEF QueueRow
<1>7. BacklogExact'
  <2>1. ASSUME NEW row \in report'.rows
        PROVE  \E q \in seen["queues"] :
              /\ q.name = row.name
              /\ row.cause = "noConsumers" <=> q.consumers \in {0, Missing}
              /\ row.cause = "unackedPileup" =>
                    Reaches(Num(q.messages_unacknowledged), row.messages, UnackedHigh)
              /\ row.cause \in {"slowConsumers", "residual"} =>
                    ~Certainly(Num(q.messages_unacknowledged), row.messages, UnackedHigh)
              /\ row.cause = "slowConsumers" =>
                    q.publish # Missing /\ 5 * q.publish > 6 * Num(q.deliver)
              /\ row.cause = "residual" => 5 * Num(q.publish) <= 6 * Num(q.deliver)
    <3>1. PICK q \in seen["queues"] :
              /\ seen["queues"] # Failed
              /\ q.name = row.name /\ row.messages = Num(q.messages)
              /\ row.cause = Cause(QueueRow(q))
      BY <1>6
    <3> DEFINE n == Num(q.messages)
               u == Num(q.messages_unacknowledged)
               pub == Num(q.publish)
               del == Num(q.deliver)
    <3>2. n \in Nat /\ u \in Nat /\ Num(q.consumers) \in Nat /\ pub \in Nat /\ del \in Nat
      BY <1>5, <3>1
    <3>3. row.cause = IF Num(q.consumers) = 0 THEN "noConsumers"
                      ELSE IF Pct(u, n) >= UnackedHigh THEN "unackedPileup"
                      ELSE IF 10 * pub > 12 * del THEN "slowConsumers"
                      ELSE "residual"
      BY <3>1 DEF Cause, QueueRow
    <3>7. Num(q.consumers) = 0 <=> q.consumers \in {0, Missing}
      BY MissingAssumption DEF Num
    <3>8. (pub > 0 => q.publish # Missing) /\ (q.publish # Missing => pub = q.publish)
      BY DEF Num
    <3> HIDE DEF n, u, pub, del
    <3>4. /\ Pct(u, n) >= UnackedHigh => Reaches(u, n, UnackedHigh)
          /\ Certainly(u, n, UnackedHigh) => Pct(u, n) >= UnackedHigh
      <4> DEFINE high == 500
      <4>1. high \in Nat /\ UnackedHigh = high /\ high > 0
        BY DEF UnackedHigh
      <4> HIDE DEF high
      <4>2. /\ n > 0 /\ Pct(u, n) >= high => Reaches(u, n, high)
            /\ Certainly(u, n, high) => Pct(u, n) >= high
            /\ n = 0 => Pct(u, n) = 0
        BY <3>2, <4>1, Percentage
      <4>3. ~(0 >= high)
        BY <4>1
      <4> QED BY <3>2, <4>1, <4>2, <4>3
    <3>5. /\ ~(10 * pub > 12 * del) => 5 * pub <= 6 * del
          /\ 10 * pub > 12 * del => pub > 0 /\ 5 * pub > 6 * del
      BY <3>2
    <3>6. /\ row.cause = "noConsumers" <=> Num(q.consumers) = 0
          /\ row.cause = "unackedPileup" => Reaches(u, n, UnackedHigh)
          /\ row.cause \in {"slowConsumers", "residual"} => ~Certainly(u, n, UnackedHigh)
          /\ row.cause = "slowConsumers" => pub > 0 /\ 5 * pub > 6 * del
          /\ row.cause = "residual" => 5 * pub <= 6 * del
      BY <3>3, <3>4, <3>5
    <3>9. row.cause = "slowConsumers" => q.publish # Missing /\ 5 * q.publish > 6 * del
      BY <3>6, <3>8
    <3> QED BY <3>1, <3>6, <3>7, <3>9 DEF n, u, pub, del
  <2>2. report'.findings = {} <=>
              \/ seen["nodes"] = Failed
              \/ \A n \in seen["nodes"] : ~n.mem_alarm /\ ~n.disk_free_alarm
    <3>1. CASE seen["nodes"] = Failed
      BY <1>3, <3>1 DEF OrElse
    <3>2. CASE seen["nodes"] # Failed
      <4>1. nodes = seen["nodes"]
        BY <1>2, <3>2, Payload DEF OrElse
      <4> QED BY <1>3, <3>2, <4>1
    <3> QED BY <3>1, <3>2
  <2> QED BY <1>1, <2>1, <2>2 DEF BacklogExact, Succeeded, Reported
<1>8. ASSUME seen["queues"] # Failed, NEW q \in seen["queues"], NEW row \in report'.rows,
             \A other \in report'.rows : other.name # q.name
      PROVE  Num(q.messages) <= row.messages
  <2>1. PICK p \in seen["queues"] : row.messages = Num(p.messages) /\ QueueRow(p) \in deep
    BY <1>6
  <2>2. /\ Num(q.messages) \in Nat /\ Num(p.messages) \in Nat
        /\ QueueRow(q).messages = Num(q.messages) /\ QueueRow(p).messages = Num(p.messages)
        /\ QueueRow(q).name = q.name /\ Num(p.messages) >= BacklogMinMessages
    BY <1>5, <1>8, <2>1 DEF QueueRow
  <2>3. CASE QueueRow(q) \notin queues
    <3>1. /\ queues \in First({QueueRow(x) : x \in seen["queues"]}, MaxRows, "messages")
          /\ QueueRow(p) \in queues
      BY <1>2, <1>8, <2>1, Payload DEF ListQueues, OrElse
    <3>2. QueueRow(p)["messages"] >= QueueRow(q)["messages"]
      <4> HIDE DEF queues
      <4> QED BY <2>3, <3>1, <1>8, Cutting
    <3> QED BY <2>1, <2>2, <3>2
  <2>4. CASE QueueRow(q) \in deep
    <3> DEFINE own == [name |-> q.name, messages |-> Num(q.messages), cause |-> Cause(QueueRow(q))]
    <3>1. own \in flagged /\ own.name = q.name /\ own.messages = Num(q.messages)
      BY <2>2, <2>4
    <3> HIDE DEF own, flagged
    <3>2. own \notin report'.rows
      BY <1>8, <3>1
    <3>3. row["messages"] >= own["messages"]
      BY <1>3, <1>8, <3>1, <3>2, Cutting
    <3> QED BY <2>1, <2>2, <3>1, <3>3
  <2>5. CASE QueueRow(q) \in queues /\ QueueRow(q) \notin deep
    BY <2>1, <2>2, <2>5, LimitsAssumption
  <2> QED BY <2>3, <2>4, <2>5
<1> QED BY <1>1, <1>7, <1>8 DEF AllExact, FindingsExact, MemoryExact, LargestShown,
                                OverviewHonest, Reported, Succeeded

\* The overviews.
LEMMA OverviewReport ==
    ASSUME CallInv, ReportRedisOverview \/ ReportRabbitOverview
    PROVE  AllExact'
<1>1. CASE ReportRedisOverview
  <2>1. /\ Complete("redisOverview") /\ UNCHANGED <<call, made, seen, got, sampleVars>>
        /\ call.kind = "redisOverview"
        /\ report'.usedPctOfMax = OrElse("memory", [usedPctOfMax |-> Missing]).usedPctOfMax
        /\ report'.totalKeys = OrElse("keyspace", Missing)
        /\ report'.keyScope = KeyScope.scope
        /\ report'.clusterMode = KeyScope.clusterMode
        /\ report'.errors = Errors
    BY <1>1 DEF ReportRedisOverview, Returns, Complete
  <2>2. /\ "memory" \in DOMAIN seen /\ "keyspace" \in DOMAIN seen
        /\ "mode" \in DOMAIN seen \/ seen["keyspace"] = Failed
    <3>1. "redisOverview" \in Kinds /\ Reads["redisOverview"] = <<"server", "memory", "keyspace", "mode">>
      BY DEF Kinds, Reads
    <3>2. /\ 2 \in 1 .. Len(Reads["redisOverview"]) /\ Reads["redisOverview"][2] = "memory"
          /\ 3 \in 1 .. Len(Reads["redisOverview"]) /\ Reads["redisOverview"][3] = "keyspace"
          /\ 4 \in 1 .. Len(Reads["redisOverview"]) /\ Reads["redisOverview"][4] = "mode"
      BY <3>1
    <3> QED BY <2>1, <3>1, <3>2, AllRead
  <2>3. report'.usedPctOfMax = Missing => "memory" \in report'.errors
    <3>1. ASSUME seen["memory"] # Failed PROVE report'.usedPctOfMax # Missing
      <4> DEFINE g == seen["memory"]
      <4>1. g \in Answers["memory"] /\ got["memory"] = MemoryStats(g)
        BY <2>2, <3>1, Payload
      <4>2. Num(g.used_memory) \in Nat /\ Num(g.maxmemory) \in Nat
        BY <4>1, AnswersAssumption, Counts
      <4>3. Pct(Num(g.used_memory), Num(g.maxmemory)) \in Nat
        <5> DEFINE part == Num(g.used_memory)
                   whole == Num(g.maxmemory)
        <5> HIDE DEF part, whole
        <5>1. part \in Nat /\ whole \in Nat
          BY <4>2 DEF part, whole
        <5>2. Pct(part, whole) \in Nat
          BY <5>1, Percentage
        <5> QED BY <5>2 DEF part, whole
      <4>4. report'.usedPctOfMax = Pct(Num(g.used_memory), Num(g.maxmemory))
        BY <2>1, <3>1, <4>1 DEF OrElse, MemoryStats
      <4> QED BY <4>3, <4>4, MissingAssumption
    <3> QED BY <2>1, <2>2, <3>1 DEF Errors
  <2>4. report'.totalKeys = Missing => "keyspace" \in report'.errors
    <3>1. ASSUME seen["keyspace"] # Failed PROVE report'.totalKeys # Missing
      <4>1. got["keyspace"] = seen["keyspace"] /\ seen["keyspace"] \in Answers["keyspace"]
        BY <2>2, <3>1, Payload
      <4> QED BY <2>1, <3>1, <4>1, AnswersAssumption, MissingAssumption DEF OrElse
    <3> QED BY <2>1, <2>2, <3>1 DEF Errors
  <2>5. report'.totalKeys # Missing =>
          /\ report'.clusterMode = FALSE => seen["mode"] # Failed /\ seen["mode"] # "cluster"
          /\ report'.clusterMode = Missing => seen["mode"] = Failed
          /\ report'.keyScope = "node" <=> seen["mode"] # Failed /\ seen["mode"] = "cluster"
    <3>1. CASE seen["keyspace"] = Failed
      BY <2>1, <3>1 DEF OrElse
    <3>2. CASE seen["keyspace"] # Failed /\ seen["mode"] = Failed
      BY <2>1, <3>2, MissingAssumption DEF KeyScope, Scope
    <3>3. CASE seen["keyspace"] # Failed /\ seen["mode"] # Failed
      <4>1. got["mode"] = seen["mode"]
        BY <2>2, <3>3, Payload
      <4>2. KeyScope = Scope(seen["mode"], TRUE)
        BY <3>3, <4>1 DEF KeyScope, OrElse
      <4> QED BY <2>1, <3>3, <4>2, MissingAssumption DEF Scope
    <3> QED BY <3>1, <3>2, <3>3
  <2>6. report'.errors # {} => \E r \in DOMAIN seen : seen[r] = Failed
    BY <2>1 DEF Errors
  <2> QED BY <2>1, <2>3, <2>4, <2>5, <2>6
          DEF AllExact, FindingsExact, MemoryExact, BacklogExact, LargestShown,
              OverviewHonest, Reported, Succeeded
<1>2. CASE ReportRabbitOverview
  <2> DEFINE nodes == OrElse("nodes", {})
             alarmed == {n \in nodes : n.mem_alarm \/ n.disk_free_alarm}
  <2>1. /\ Complete("rabbitOverview") /\ UNCHANGED <<call, made, seen, got, sampleVars>>
        /\ call.kind = "rabbitOverview"
        /\ report'.connections = IF seen["overview"] = Failed THEN Missing
                                 ELSE Num(got["overview"].connections)
        /\ report'.nodesTotal = Cardinality(nodes)
        /\ report'.nodeAlarms = IF seen["nodes"] = Failed THEN Missing ELSE Cardinality(alarmed)
        /\ report'.errors = Errors
    BY <1>2 DEF ReportRabbitOverview, Returns, Complete
  <2>2. "nodes" \in DOMAIN seen /\ "overview" \in DOMAIN seen
    <3>1. "rabbitOverview" \in Kinds /\ Reads["rabbitOverview"] = <<"overview", "nodes">>
      BY DEF Kinds, Reads
    <3>2. /\ 1 \in 1 .. Len(Reads["rabbitOverview"]) /\ Reads["rabbitOverview"][1] = "overview"
          /\ 2 \in 1 .. Len(Reads["rabbitOverview"]) /\ Reads["rabbitOverview"][2] = "nodes"
      BY <3>1
    <3> QED BY <2>1, <3>1, <3>2, AllRead
  <2>3. ASSUME seen["nodes"] # Failed
        PROVE  /\ nodes = seen["nodes"] /\ Cardinality(alarmed) \in Nat
               /\ Cardinality(alarmed) = 0 => alarmed = {}
               /\ Cardinality(nodes) = 0 => nodes = {}
    <3>1. nodes = seen["nodes"] /\ nodes \in Answers["nodes"]
      BY <2>2, <2>3, Payload DEF OrElse
    <3>2. IsFiniteSet(nodes) /\ IsFiniteSet(alarmed)
      <4>1. IsFiniteSet(nodes)
        BY <3>1, AnswersAssumption
      <4> QED BY <4>1, FS_Subset
    <3> QED BY <3>1, <3>2, FS_CardinalityType, FS_EmptySet
  <2>4. report'.nodeAlarms = 0 =>
            /\ seen["nodes"] # Failed
            /\ \A n \in seen["nodes"] : ~n.mem_alarm /\ ~n.disk_free_alarm
    BY <2>1, <2>3, MissingAssumption
  <2>5. report'.nodeAlarms = Missing => "nodes" \in report'.errors
    BY <2>1, <2>2, <2>3, MissingAssumption DEF Errors
  <2>6. report'.nodesTotal = 0 => "nodes" \in report'.errors \/ seen["nodes"] = {}
    BY <2>1, <2>2, <2>3 DEF Errors
  <2>7. report'.connections = Missing => "overview" \in report'.errors
    <3>1. ASSUME seen["overview"] # Failed PROVE report'.connections # Missing
      <4>1. got["overview"] = seen["overview"] /\ seen["overview"] \in Answers["overview"]
        BY <2>2, <3>1, Payload
      <4>2. Num(got["overview"].connections) \in Nat
        BY <4>1, AnswersAssumption, Counts
      <4> QED BY <2>1, <3>1, <4>2, MissingAssumption
    <3> QED BY <2>1, <2>2, <3>1 DEF Errors
  <2> QED BY <2>1, <2>4, <2>5, <2>6, <2>7
          DEF AllExact, FindingsExact, MemoryExact, BacklogExact, LargestShown,
              OverviewHonest, Reported, Succeeded
<1> QED BY <1>1, <1>2

\* Until it reports, a call claims nothing; and then it does not change.
LEMMA ReportStep ==
    ASSUME CallInv, SizedInv, AllExact, [CallNext]_<<callVars, sampleVars>>
    PROVE  AllExact'
<1> USE DEF AllExact, FindingsExact, MemoryExact, BacklogExact, LargestShown, OverviewHonest, Reported
<1>1. CASE report' \in {None, Failed}
  BY <1>1
<1>2. CASE ReportMemory
  BY <1>2, MemoryReport
<1>3. CASE ReportLatency
  BY <1>3, LatencyReport
<1>4. CASE ReportBacklog
  BY <1>4, BacklogReport
<1>5. CASE ReportRabbitChurn
  <2>1. UNCHANGED <<call, sampleVars>> /\ call.kind = "rabbitChurn"
    BY <1>5 DEF ReportRabbitChurn, Returns, Complete
  <2> QED BY <2>1
<1>6. CASE ReportRedisOverview \/ ReportRabbitOverview
  BY <1>6, OverviewReport
<1>7. CASE UNCHANGED <<callVars, sampleVars>>
  BY <1>7 DEF callVars, sampleVars, Succeeded
<1>8. ASSUME CallNext,
             ~ (ReportMemory \/ ReportLatency \/ ReportBacklog \/ ReportRabbitChurn
                \/ ReportRedisOverview \/ ReportRabbitOverview)
      PROVE  report' \in {None, Failed}
  BY <1>8 DEF CallNext, Begin, ReadSucceeds, SoftReadFails, HardReadFails, Sample, SampleReturns,
              Reading, Read, Done, CallInv, callVars
<1> QED BY <1>1, <1>2, <1>3, <1>4, <1>5, <1>6, <1>7, <1>8

-----------------------------------------------------------------------------
(* The theorems *)

Inv == SampleInv /\ SizedInv /\ CallInv /\ AllExact /\ ChurnInv /\ ChurnIsReal

\* The invariant holds at the start.
LEMMA InvInit == Init => Inv
<1> SUFFICES ASSUME Init PROVE Inv
  OBVIOUS
<1> USE DEF Init, Idle, SampleInit, ChurnInit, NoReads
<1>1. SampleInv /\ SizedInv
  BY SampleAssumption DEF SampleInv, SizedInv
<1>2. CallInv
  BY DEF CallInv
<1>3. AllExact
  BY DEF AllExact, FindingsExact, MemoryExact, BacklogExact, LargestShown, OverviewHonest, Reported
<1>4. ChurnInv /\ ChurnIsReal
  BY DEF ChurnInv, ChurnIsReal
<1> QED BY <1>1, <1>2, <1>3, <1>4 DEF Inv

\* Every step keeps it.
LEMMA InvStep == Inv /\ [Next]_vars => Inv'
<1> SUFFICES ASSUME Inv, [Next]_vars PROVE Inv'
  OBVIOUS
<1>1. CASE session = "calls" /\ CallNext /\ UNCHANGED <<session, churnVars>>
  <2>1. CallInv' /\ AllExact'
    BY <1>1, CallStep, ReportStep DEF Inv
  <2>2. SampleInv' /\ SizedInv'
    <3>1. CASE Done
      BY <3>1, SampleAssumption DEF Done, SampleInv, SizedInv
    <3>2. CASE ~Done
      <4>1. [SampleNext]_sampleVars
        BY <1>1, <3>2 DEF CallNext, Begin, ReadSucceeds, SoftReadFails, HardReadFails, Sample,
                          SampleReturns, ReportMemory, ReportLatency, ReportBacklog,
                          ReportRabbitChurn, ReportRedisOverview, ReportRabbitOverview, Returns
      <4> QED BY <4>1, SampleStep, SizedStep DEF Inv
    <3> QED BY <3>1, <3>2
  <2>3. ChurnInv' /\ ChurnIsReal'
    BY <1>1, ChurnStep DEF Inv
  <2> QED BY <2>1, <2>2, <2>3 DEF Inv
<1>2. CASE session = "churn" /\ ChurnNext /\ UNCHANGED <<session, callVars, sampleVars>>
  <2>1. CallInv' /\ AllExact'
    BY <1>2, CallStep, ReportStep DEF Inv
  <2>2. SampleInv' /\ SizedInv'
    BY <1>2, SampleStep, SizedStep DEF Inv
  <2>3. ChurnInv' /\ ChurnIsReal'
    BY <1>2, ChurnStep DEF Inv
  <2> QED BY <2>1, <2>2, <2>3 DEF Inv
<1>3. CASE UNCHANGED vars
  <2>1. UNCHANGED <<callVars, sampleVars>> /\ UNCHANGED sampleVars /\ UNCHANGED churnVars
    BY <1>3 DEF vars
  <2>2. CallInv' /\ AllExact'
    BY <2>1, CallStep, ReportStep DEF Inv
  <2>3. SampleInv' /\ SizedInv'
    BY <2>1, SampleStep, SizedStep DEF Inv
  <2>4. ChurnInv' /\ ChurnIsReal'
    BY <2>1, ChurnStep DEF Inv
  <2> QED BY <2>2, <2>3, <2>4 DEF Inv
<1> QED BY <1>1, <1>2, <1>3 DEF Next

\* It always holds.
LEMMA Always == Spec => []Inv
<1> QED BY InvInit, InvStep, PTL DEF Spec

\* However many keys a walk returns, the sample of big_key_sample is as large as
\* allowed and reaches the second half of the walk.
THEOREM Spreading == Spec => []SampleSpreads
<1>1. Inv => SampleSpreads
  BY SampleFine DEF Inv
<1> QED BY <1>1, Always, PTL

\* No restart of a broker and no history makes the churn analysis report a rate
\* of connections that were not made.
THEOREM ChurnReal == Spec => []ChurnIsReal
<1>1. Inv => ChurnIsReal
  BY DEF Inv
<1> QED BY <1>1, Always, PTL

\* The memory and the backlog analysis find what the numbers call for, up to the rounding
\* of percentages: a swapping host, a piled-up queue or a slow consumer only on numbers
\* that say so, and nothing in reads that failed.  A consumer count and a delivery rate
\* the broker left out stand for 0, as BacklogExact spells out.
THEOREM Exactness == Spec => []FindingsExact
<1>1. Inv => FindingsExact
  BY DEF Inv, AllExact
<1> QED BY <1>1, Always, PTL

\* The limits of the reads and of the analyses, one after the other, cut off
\* nothing larger than what a report shows.
THEOREM NothingLargerCut == Spec => []LargestShown
<1>1. Inv => LargestShown
  BY DEF Inv, AllExact
<1> QED BY <1>1, Always, PTL

\* An overview names every failed read that left a number out or made a count of nodes 0,
\* gives no alarms for nodes it did not read, and marks a shard's keys as such whenever it
\* could ask; where it could not, only clusterMode null says so.
THEOREM OverviewOwnsUp == Spec => []OverviewHonest
<1>1. Inv => OverviewHonest
  BY DEF Inv, AllExact
<1> QED BY <1>1, Always, PTL

=============================================================================
