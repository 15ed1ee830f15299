-------------------------------- MODULE Churn --------------------------------
(***************************************************************************)
(* The connection-churn analysis of a redis target (ops/analysis.py:       *)
(* pull_churn_snapshot, _redis_churn), against a broker that restarts: its *)
(* counters and its uptime then start over.  A snapshot's counters come    *)
(* from INFO, its time from this side's clock after a second read.  Rates  *)
(* are in hundredths of a connection per second.                           *)
(***************************************************************************)
EXTENDS Readings

CONSTANTS
    None,           \* no snapshot, no answer
    MaxClock,       \* bound: seconds
    MaxArrivals     \* bound: connections ever made

ASSUME ChurnAssumption == MaxClock \in Nat /\ MaxArrivals \in Nat

VARIABLES
    clock,
    boot,           \* when the broker started last
    total,          \* total_connections_received
    ever,           \* connections since the clock began
    pulled,         \* the counters of a snapshot being taken
    kept,           \* the snapshot the caller kept, or what it kept of one
    answer          \* the last analysis: its rate, and what really happened

churnVars == <<clock, boot, total, ever, pulled, kept, answer>>

ChurnInit == /\ clock = 0 /\ boot = 0 /\ total = 0 /\ ever = 0
             /\ pulled = None /\ kept = None /\ answer = None

Arrive == /\ ever < MaxArrivals
          /\ ever' = ever + 1 /\ total' = total + 1
          /\ UNCHANGED <<clock, boot, pulled, kept, answer>>

Pass == /\ clock < MaxClock
        /\ clock' = clock + 1
        /\ UNCHANGED <<boot, total, ever, pulled, kept, answer>>

\* The broker is up for a second at least.
Reboot == /\ clock > boot
          /\ boot' = clock /\ total' = 0
          /\ UNCHANGED <<clock, ever, pulled, kept, answer>>

\* INFO; ever and boot are remembered for the properties.
Pull == /\ pulled = None
        /\ pulled' = [total |-> total, uptime |-> clock - boot, ever |-> ever, boot |-> boot]
        /\ UNCHANGED <<clock, boot, total, ever, kept, answer>>

Lifetime(s) == IF s.uptime = 0 THEN 0 ELSE RoundDiv(100 * s.total, s.uptime)

\* Mutant: a counter that started over is not noticed.
RateAnyway(s, at, h) ==
    IF h # None /\ at > Num(h.at)
    THEN RoundDiv(100 * (s.total - Num(h.total)), at - Num(h.at))
    ELSE Lifetime(s)

\* new connections per second: since the history's snapshot if its counter did
\* not start over, else since the broker started.
Rate(s, at, h) ==
    IF h # None /\ at > Num(h.at) /\ s.total >= Num(h.total)
    THEN RoundDiv(100 * (s.total - Num(h.total)), at - Num(h.at))
    ELSE Lifetime(s)

\* CLIENT LIST is through: the snapshot gets its time and is analysed, with the
\* kept one as history or without.  The caller may keep it: all of it, or the
\* metrics the analysis returns, which hold neither time nor total.
Answer(h) ==
    /\ pulled # None
    /\ answer' = [rate |-> Rate(pulled, clock, h), at |-> clock, of |-> pulled, history |-> h]
    /\ kept' \in {kept,
                  [at |-> clock, total |-> pulled.total, ever |-> pulled.ever,
                   boot |-> pulled.boot],
                  [at |-> Missing, total |-> Missing, ever |-> 0, boot |-> 0]}
    /\ pulled' = None
    /\ UNCHANGED <<clock, boot, total, ever>>

\* INFO or the analysis fails, and the call with it.
PullFails == /\ pulled # None /\ pulled' = None
             /\ UNCHANGED <<clock, boot, total, ever, kept, answer>>

ChurnNext == \/ Arrive \/ Pass \/ Reboot \/ Pull \/ PullFails
             \/ \E h \in {None, kept} : Answer(h)

-----------------------------------------------------------------------------
\* The rate is one of n connections in t seconds, up to rounding.
IsAtMost(rate, n, t) == t > 0 /\ 2 * (rate * t) <= 200 * n + t
IsRate(rate, n, t) == IsAtMost(rate, n, t) /\ 200 * n <= 2 * (rate * t) + t

\* No restart, missing history or counter that starts over ever makes up a rate
\* that the connections really made do not reach, since the history's snapshot
\* or since the broker's start; and without a restart in between the rate is
\* that of the time between the two.
ChurnIsReal ==
    answer # None =>
        LET s == answer.of
            h == answer.history
            since == IF h = None THEN 0 ELSE s.ever - h.ever
            dt    == IF h = None THEN 0 ELSE answer.at - Num(h.at)
        IN  /\ \/ answer.rate = 0
               \/ answer.rate > 0 /\ IsAtMost(answer.rate, s.total, s.uptime)
               \/ answer.rate > 0 /\ IsAtMost(answer.rate, since, dt)
            /\ h # None /\ dt > 0 /\ Num(h.at) # 0 /\ h.boot = s.boot =>
                  IsRate(answer.rate, since, dt)

=============================================================================
