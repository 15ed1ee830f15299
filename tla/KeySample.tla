------------------------------ MODULE KeySample ------------------------------
(***************************************************************************)
(* big_key_sample (ops/redis_reads.py): a walk over the keyspace with SCAN *)
(* under a budget, then MEMORY USAGE on a few of the keys walked.  Keys    *)
(* come and go during the walk, and SCAN may answer with fewer keys than   *)
(* asked for, or none.  A key is the position at which SCAN returned it.   *)
(***************************************************************************)
EXTENDS Readings

CONSTANTS
    ScanBudget,     \* SCAN_BUDGET_KEYS
    MaxPage,        \* bound: keys in one answer of SCAN
    SampleMax,      \* MEMORY_SAMPLE_MAX
    TopKeys,        \* rows returned
    Sizes           \* bytes of a key

ASSUME SampleAssumption ==
    ScanBudget \in Nat \ {0} /\ MaxPage \in Nat /\ SampleMax \in Nat /\ SampleMax >= 2
    /\ TopKeys \in Nat /\ Sizes \subseteq Nat

VARIABLES
    walk,           \* "idle", "scan", "size", "done" or "failed"
    scanned,        \* how many keys were walked
    tried,          \* positions whose key was asked for its size
    sized,          \* the keys that still existed then
    topKeys         \* the rows of the answer

sampleVars == <<walk, scanned, tried, sized, topKeys>>

SampleInit == /\ walk = "idle" /\ scanned = 0
              /\ tried = {} /\ sized = {} /\ topKeys = {}

\* DBSIZE is asked first; it and every later call can fail.
SampleStart ==
    /\ walk = "idle"
    /\ walk' = "scan"
    /\ UNCHANGED <<scanned, tried, sized, topKeys>>

\* One page, and whether its cursor is 0; the walk is cut at the budget.
ScanPage(k, over) ==
    /\ walk = "scan"
    /\ IF scanned + k >= ScanBudget
       THEN scanned' = ScanBudget /\ walk' = "size"
       ELSE scanned' = scanned + k /\ walk' = IF over THEN "size" ELSE "scan"
    /\ UNCHANGED <<tried, sized, topKeys>>

\* Mutant: the first keys of the walk.
NoStep(n) == 1

\* How far apart the sampled positions are.
Step(n) == IF n < SampleMax THEN 1 ELSE n \div SampleMax

\* scanned[::step][:MEMORY_SAMPLE_MAX]
Sampled(n) == {p \in 1 .. n : \E i \in 0 .. SampleMax - 1 : p = 1 + i * Step(n)}

\* MEMORY USAGE of the next sampled key: its size, or nothing when it is gone.
SizeKey(p) ==
    /\ walk = "size"
    /\ p \in Sampled(scanned) \ tried
    /\ \A q \in Sampled(scanned) \ tried : p <= q
    /\ tried' = tried \cup {p}
    /\ \/ \E b \in Sizes : sized' = sized \cup {[key |-> p, bytes |-> b]}
       \/ UNCHANGED sized
    /\ UNCHANGED <<walk, scanned, topKeys>>

SampleEnd ==
    /\ walk = "size" /\ Sampled(scanned) \subseteq tried
    /\ topKeys' \in First(sized, TopKeys, "bytes")
    /\ walk' = "done"
    /\ UNCHANGED <<scanned, tried, sized>>

\* Any of the calls fails: the answer is an error and nothing else.
SampleFails ==
    /\ walk \in {"scan", "size"}
    /\ walk' = "failed"
    /\ topKeys' = {}
    /\ UNCHANGED <<scanned, tried, sized>>

SampleNext == \/ SampleStart \/ SampleEnd \/ SampleFails
              \/ \E k \in 0 .. MaxPage, over \in BOOLEAN : ScanPage(k, over)
              \/ \E p \in 1 .. ScanBudget : SizeKey(p)

\* A finished sample asked as many keys as it may, and not only the beginning
\* of what was walked: one of them lies in its second half.
SampleSpreads ==
    walk = "done" =>
        /\ scanned <= ScanBudget
        /\ Cardinality(tried) = IF scanned < SampleMax THEN scanned ELSE SampleMax
        /\ scanned > 0 => \E p \in tried : 2 * p > scanned

=============================================================================
