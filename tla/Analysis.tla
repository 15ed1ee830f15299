------------------------------ MODULE Analysis ------------------------------
(***************************************************************************)
(* The read payloads and the analyses made of them (ops/redis_reads.py,    *)
(* ops/rabbit_reads.py, ops/analysis.py).  They are pure functions; where  *)
(* a table is cut at a limit, they give the set of possible results.       *)
(* Fragmentation ratios are in tenths, percentages in tenths of a percent, *)
(* messages and connections in units the constants choose.                 *)
(***************************************************************************)
EXTENDS Readings

CONSTANTS
    MaxRows,            \* MAX_ROWS of list_queues
    SlowlogRows,        \* MAX_SLOWLOG_ROWS
    Evidence,           \* slow patterns and big keys a report names
    BigKeyMinBytes,     \* BIG_KEY_MIN_BYTES
    ForkStallUs,        \* FORK_STALL_US
    BacklogMinMessages, \* BACKLOG_MIN_MESSAGES
    HeavyCommands       \* _HEAVY_COMMANDS

ASSUME LimitsAssumption ==
    /\ MaxRows \in Nat /\ SlowlogRows \in Nat /\ Evidence \in Nat
    /\ BigKeyMinBytes \in Nat /\ ForkStallUs \in Nat /\ BacklogMinMessages \in Nat

FragHigh == 15          \* FRAG_HIGH_RATIO
FragSwap == 8           \* FRAG_SWAP_RATIO
UnackedHigh == 500      \* UNACKED_PCT_HIGH
ChurnHigh == 10         \* CHURN_RATE_HIGH, in tenths
ChannelsHigh == 20      \* CHANNELS_PER_CONN_HIGH

-----------------------------------------------------------------------------
\* Redis

MemoryStats(info) ==
    [maxmemoryBytes     |-> Num(info.maxmemory),
     usedPctOfMax       |-> Pct(Num(info.used_memory), Num(info.maxmemory)),
     maxmemoryPolicy    |-> info.maxmemory_policy,
     fragmentationRatio |-> Num(info.mem_fragmentation_ratio)]

\* What is left of a payload that is an error.
NoMemory == [maxmemoryBytes |-> 0, usedPctOfMax |-> 0,
             maxmemoryPolicy |-> Missing, fragmentationRatio |-> 0]

\* Mutant: a ratio nobody reported counts as a low one.
SwappingBelow(frag) == frag < FragSwap

Swapping(frag) == 0 < frag /\ frag < FragSwap

NearLimit(memory, usedPct) ==
    memory.maxmemoryBytes > 0 /\ memory.usedPctOfMax >= usedPct

\* redis_memory_pressure_rca; rows are the big keys it names.
MemoryRca(memory, evictedKeys, topKeys, usedPct) ==
    LET near     == NearLimit(memory, usedPct)
        critical == memory.maxmemoryPolicy = "noeviction"
        big      == {k \in topKeys : k.bytes >= BigKeyMinBytes}
    IN  {[rows |-> shown,
          findings |->
              When(near /\ critical, "oom")
              \cup When(near /\ ~critical, "evictionImminent")
              \cup When(evictedKeys > 0, "evicting")
              \cup When(memory.fragmentationRatio >= FragHigh, "fragmented")
              \cup When(Swapping(memory.fragmentationRatio), "swapping")
              \cup When(big # {}, "bigKeys")] : shown \in First(big, Evidence, "bytes")}

\* slowlog: one entry more than the limit is asked for, the newest ones come.
Slowlog(log) ==
    UNION {First(newest, SlowlogRows, "durationUs") : newest \in First(log, SlowlogRows + 1, "id")}

\* _digest_slowlog
Digest(entries) ==
    {[command |-> e.command, maxUs |-> e.durationUs, heavy |-> e.command \in HeavyCommands] :
        e \in {s \in entries : \A t \in entries :
                  t.command = s.command => t.durationUs <= s.durationUs}}

\* redis_latency_rca
LatencyRca(entries, clients, stats, persistence, slowUs) ==
    {[rows |-> shown,
      findings |->
          When(Num(clients.blocked_clients) > 0, "blocked")
          \cup When(Num(stats.latest_fork_usec) >= ForkStallUs, "forkStall")
          \cup When(Num(persistence.aof_delayed_fsync) > 0, "delayedFsync")
          \cup When(Num(persistence.saving) # 0, "saving")
          \cup When(Num(persistence.loading) # 0, "loading")] :
        shown \in First({d \in Digest(entries) : d.maxUs >= slowUs}, Evidence, "maxUs")}

\* Mutant: not knowing the mode is taken for not being a cluster.
ScopeGuessed(mode, known) ==
    [scope |-> IF mode = "cluster" THEN "node" ELSE "server", clusterMode |-> mode = "cluster"]

\* _scope: whose keys were counted, and whether the server is in a cluster, null when
\* that could not be asked.  A mode that is not reported is not a cluster's, and after
\* a failed read the scope says "server" all the same.
Scope(mode, known) ==
    [scope       |-> IF known /\ mode = "cluster" THEN "node" ELSE "server",
     clusterMode |-> IF known THEN mode = "cluster" ELSE Missing]

\* The marker of an overview whose key counts are missing themselves.
NoScope == [scope |-> Missing, clusterMode |-> Missing]

-----------------------------------------------------------------------------
\* RabbitMQ

QueueRow(q) ==
    [name            |-> q.name,
     messages        |-> Num(q.messages),
     messagesUnacked |-> Num(q.messages_unacknowledged),
     consumers       |-> Num(q.consumers),
     publishRate     |-> Num(q.publish),
     deliverRate     |-> Num(q.deliver)]

ListQueues(queues) == First({QueueRow(q) : q \in queues}, MaxRows, "messages")

\* _classify_queue, for a queue over the threshold.
Cause(q) ==
    IF q.consumers = 0 THEN "noConsumers"
    ELSE IF Pct(q.messagesUnacked, q.messages) >= UnackedHigh THEN "unackedPileup"
    ELSE IF 10 * q.publishRate > 12 * q.deliverRate THEN "slowConsumers"
    ELSE "residual"

\* rabbitmq_queue_backlog_rca
BacklogRca(queues, nodes, top) ==
    LET flagged == {[name |-> q.name, messages |-> q.messages, cause |-> Cause(q)] :
                        q \in {r \in queues : r.messages >= BacklogMinMessages}}
    IN  {[rows |-> shown,
          findings |-> {<<n.name, "memAlarm">> : n \in {i \in nodes : i.mem_alarm}}
                       \cup {<<n.name, "diskAlarm">> : n \in {i \in nodes : i.disk_free_alarm}}] :
            shown \in First(flagged, IF top < 1 THEN 1 ELSE top, "messages")}

\* _rabbitmq_churn; history is an earlier count of connections, or Missing.
RabbitChurn(overview, history) ==
    LET connections == Num(overview.connections)
    IN  [rows |-> {},
         findings |->
             When(Num(overview.created) >= ChurnHigh /\ Num(overview.closed) >= ChurnHigh, "churn")
             \cup When(connections > 0 /\ Num(overview.channels) >= ChannelsHigh * connections,
                       "channelLeak")
             \cup When(history # Missing /\ connections > history, "growth")]

\* What is left of an overview that is an error.
NoOverview == [connections |-> Missing, channels |-> Missing,
               created |-> Missing, closed |-> Missing]

=============================================================================
