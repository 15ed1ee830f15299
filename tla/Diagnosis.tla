------------------------------ MODULE Diagnosis ------------------------------
(***************************************************************************)
(* The read-only analyses as calls (mcp_server/tools/analysis.py,          *)
(* ops/analysis.py, ops/overview.py): each makes its reads one after the   *)
(* other, against a broker that changes in between and at any read may     *)
(* fail, and then reports.  Most reads turn a failure into an error        *)
(* payload and the call goes on; a few let it through and the call fails.  *)
(* The memory analysis takes its sample of keys as in KeySample.  Churn is *)
(* the one analysis that compares with an earlier call; it shares no state *)
(* with the others, and a behaviour is about it or about them.             *)
(***************************************************************************)
EXTENDS Analysis, KeySample, Churn, Sequences

CONSTANTS
    Answers,        \* what the broker may answer, by read
    Options,        \* arguments of the calls: thresholds, numbers of rows, histories
    Failed          \* a read or a call that failed

\* A count, or none.
Cell == Nat \cup {Missing}

ASSUME AnswersAssumption ==
    /\ \A r \in DOMAIN Answers : Failed \notin Answers[r]
    /\ \A m \in Answers["memory"] :
          /\ m.used_memory \in Cell /\ m.maxmemory \in Cell
          /\ m.mem_fragmentation_ratio \in Cell
    /\ \A log \in Answers["slowlog"] :
          IsFiniteSet(log) /\ \A e \in log : e.id \in Nat /\ e.durationUs \in Nat
    /\ \A queues \in Answers["queues"] : \A q \in queues :
          /\ q.messages \in Cell /\ q.messages_unacknowledged \in Cell
          /\ q.consumers \in Cell /\ q.publish \in Cell /\ q.deliver \in Cell
    /\ \A nodes \in Answers["nodes"] :
          IsFiniteSet(nodes) /\ \A n \in nodes : n.mem_alarm \in BOOLEAN /\ n.disk_free_alarm \in BOOLEAN
    /\ \A o \in Answers["overview"] : o.connections \in Cell
    /\ Answers["keyspace"] \subseteq Nat
    /\ Options["memory"] \subseteq Nat /\ Options["latency"] \subseteq Nat

VARIABLES
    session,        \* "calls" or "churn"
    call,           \* the analysis under way and its argument, or None
    made,           \* how many of its reads are made
    seen,           \* by read, what the broker answered
    got,            \* by read, the payload made of it
    report          \* what the call returned, or None

callVars == <<call, made, seen, got, report>>
vars == <<session, callVars, sampleVars, churnVars>>

\* The reads of each analysis, in order.
Reads ==
    [memory         |-> <<"stats", "memory", "sample">>,
     latency        |-> <<"clients", "stats", "persistence", "slowlog">>,
     backlog        |-> <<"queues", "nodes">>,
     rabbitChurn    |-> <<"overview", "connections">>,
     redisOverview  |-> <<"server", "memory", "keyspace", "mode">>,
     rabbitOverview |-> <<"overview", "nodes">>]

Kinds == DOMAIN Reads

\* INFO read without a handler.
Hard == {"stats", "clients", "persistence"}

NoReads == [r \in {} |-> Missing]

Idle == /\ call = None /\ made = 0 /\ seen = NoReads /\ got = NoReads /\ report = None

Init == /\ session \in {"calls", "churn"}
        /\ Idle /\ SampleInit /\ ChurnInit

\* The payloads of a read that succeeds.
Payloads(r, reply) ==
    CASE r = "memory"  -> {MemoryStats(reply)}
      [] r = "slowlog" -> Slowlog(reply)
      [] r = "queues"  -> ListQueues(reply)
      [] r \notin {"memory", "slowlog", "queues"} -> {reply}

Begin(kind, option) ==
    /\ call = None
    /\ call' = [kind |-> kind, option |-> option]
    /\ UNCHANGED <<made, seen, got, report, sampleVars>>

Length == Len(Reads[call.kind])

Reading == call # None /\ report = None /\ made < Length

\* The read that comes next.
Current == Reads[call.kind][made + 1]

\* It is done, with this outcome.  The mode of a server (_scope) is asked for
\* only after its key counts came.
Read(reply, payload) ==
    /\ seen' = [r \in DOMAIN seen \cup {Current} |-> IF r = Current THEN reply ELSE seen[r]]
    /\ got'  = [r \in DOMAIN got \cup {Current} |-> IF r = Current THEN payload ELSE got[r]]
    /\ made' = IF Current = "keyspace" /\ reply = Failed THEN Length ELSE made + 1
    /\ UNCHANGED <<call, report>>

ReadSucceeds ==
    /\ Reading /\ Current # "sample"
    /\ \E reply \in Answers[Current] :
           \E payload \in Payloads(Current, reply) : Read(reply, payload)
    /\ UNCHANGED sampleVars

SoftReadFails ==
    /\ Reading /\ Current \notin Hard \cup {"sample"}
    /\ Read(Failed, Failed)
    /\ UNCHANGED sampleVars

HardReadFails ==
    /\ Reading /\ Current \in Hard
    /\ report' = Failed
    /\ UNCHANGED <<call, made, seen, got, sampleVars>>

\* big_key_sample, the last read of the memory analysis.
Sample ==
    /\ Reading /\ Current = "sample"
    /\ SampleNext
    /\ UNCHANGED callVars

SampleReturns ==
    /\ Reading /\ Current = "sample" /\ walk \in {"done", "failed"}
    /\ Read(sized, topKeys)
    /\ UNCHANGED sampleVars

\* The payload of a read, or what an analysis makes of an error.
OrElse(r, nothing) == IF seen[r] = Failed THEN nothing ELSE got[r]

\* Every read is made: the call returns.
Complete(kind) == call # None /\ report = None /\ made = Length /\ call.kind = kind

Returns(result) == report' = result /\ UNCHANGED <<call, made, seen, got, sampleVars>>

ReportMemory ==
    /\ Complete("memory")
    /\ \E r \in MemoryRca(OrElse("memory", NoMemory), Num(got["stats"].evicted_keys),
                          got["sample"], call.option) : Returns(r)

ReportLatency ==
    /\ Complete("latency")
    /\ \E r \in LatencyRca(OrElse("slowlog", {}), got["clients"], got["stats"],
                           got["persistence"], call.option) : Returns(r)

ReportBacklog ==
    /\ Complete("backlog")
    /\ \E r \in BacklogRca(OrElse("queues", {}), OrElse("nodes", {}), call.option) : Returns(r)

ReportRabbitChurn ==
    /\ Complete("rabbitChurn")
    /\ Returns(RabbitChurn(OrElse("overview", NoOverview), call.option))

Errors == {r \in DOMAIN seen \ {"mode"} : seen[r] = Failed}

\* The marker that travels with the key counts of keyspace().
KeyScope == IF seen["keyspace"] = Failed THEN NoScope
            ELSE Scope(OrElse("mode", Missing), seen["mode"] # Failed)

\* queue_overview on redis: a number is its read's, or null.
ReportRedisOverview ==
    /\ Complete("redisOverview")
    /\ Returns([version      |-> OrElse("server", Missing),
                usedPctOfMax |-> OrElse("memory", [usedPctOfMax |-> Missing]).usedPctOfMax,
                totalKeys    |-> OrElse("keyspace", Missing),
                keyScope     |-> KeyScope.scope,
                clusterMode  |-> KeyScope.clusterMode,
                errors       |-> Errors])

\* queue_overview on rabbitmq: a count the broker did not report is 0, and so is the
\* number of nodes after an error.
ReportRabbitOverview ==
    /\ Complete("rabbitOverview")
    /\ LET nodes == OrElse("nodes", {})
       IN  Returns([connections |-> IF seen["overview"] = Failed THEN Missing
                                    ELSE Num(got["overview"].connections),
                    nodesTotal  |-> Cardinality(nodes),
                    nodeAlarms  |-> IF seen["nodes"] = Failed THEN Missing
                                    ELSE Cardinality({n \in nodes : n.mem_alarm \/ n.disk_free_alarm}),
                    errors      |-> Errors])

\* The caller has its reply, and may call again.
Done ==
    /\ report # None
    /\ call' = None /\ made' = 0 /\ seen' = NoReads /\ got' = NoReads /\ report' = None
    /\ walk' = "idle" /\ scanned' = 0 /\ tried' = {} /\ sized' = {} /\ topKeys' = {}

CallNext ==
    \/ \E kind \in Kinds : \E option \in Options[kind] : Begin(kind, option)
    \/ ReadSucceeds \/ SoftReadFails \/ HardReadFails \/ Sample \/ SampleReturns
    \/ ReportMemory \/ ReportLatency \/ ReportBacklog \/ ReportRabbitChurn
    \/ ReportRedisOverview \/ ReportRabbitOverview
    \/ Done

Next ==
    \/ session = "calls" /\ CallNext /\ UNCHANGED <<session, churnVars>>
    \/ session = "churn" /\ ChurnNext /\ UNCHANGED <<session, callVars, sampleVars>>

Spec == Init /\ [][Next]_vars

-----------------------------------------------------------------------------
Reported(kind) == report \notin {None, Failed} /\ call.kind = kind

Succeeded(r) == seen[r] # Failed

\* part of whole is at least (certainly at least) this many tenths of a
\* percent, before rounding.
Reaches(part, whole, tenths)  == whole > 0 /\ 2000 * part + whole >= 2 * tenths * whole
Certainly(part, whole, tenths) == whole > 0 /\ 1000 * part >= tenths * whole

\* redis_memory_pressure_rca reports a broker near its limit when it is, up to
\* rounding, with the cause its policy calls for; and it never takes a ratio
\* that was not read for one of a swapping host.
MemoryExact ==
    Reported("memory") =>
        LET f == report.findings
            m == seen["memory"]
        IN  /\ "oom" \notin f \/ "evictionImminent" \notin f
            /\ f \cap {"oom", "evictionImminent"} # {} =>
                  /\ Succeeded("memory")
                  /\ Reaches(Num(m.used_memory), Num(m.maxmemory), call.option)
                  /\ "oom" \in f <=> m.maxmemory_policy = "noeviction"
            /\ Succeeded("memory") /\ Certainly(Num(m.used_memory), Num(m.maxmemory), call.option)
                  => f \cap {"oom", "evictionImminent"} # {}
            /\ "swapping" \in f =>
                  Succeeded("memory") /\ m.mem_fragmentation_ratio # Missing

\* rabbitmq_queue_backlog_rca gives each queue of the broker the first cause that its
\* numbers support, up to rounding: unacknowledged messages are piled up only if they
\* are that many, consumers are slow only if messages are published at a rate that was
\* reported and exceeds the delivery rate by a fifth, and a queue is residual only if
\* it does not.  The numbers are its own but for two: a consumer count or a delivery
\* rate that the broker did not report counts as 0.  It reports every alarm of the
\* nodes it read and no other.
BacklogExact ==
    Reported("backlog") =>
        /\ \A row \in report.rows : \E q \in seen["queues"] :
              /\ q.name = row.name
              /\ row.cause = "noConsumers" <=> q.consumers \in {0, Missing}
              /\ row.cause = "unackedPileup" =>
                    Reaches(Num(q.messages_unacknowledged), row.messages, UnackedHigh)
              /\ row.cause \in {"slowConsumers", "residual"} =>
                    ~Certainly(Num(q.messages_unacknowledged), row.messages, UnackedHigh)
              /\ row.cause = "slowConsumers" =>
                    q.publish # Missing /\ 5 * q.publish > 6 * Num(q.deliver)
              /\ row.cause = "residual" => 5 * Num(q.publish) <= 6 * Num(q.deliver)
        /\ report.findings = {} <=>
              \/ ~Succeeded("nodes")
              \/ \A n \in seen["nodes"] : ~n.mem_alarm /\ ~n.disk_free_alarm

FindingsExact == MemoryExact /\ BacklogExact

\* Whatever the limits and thresholds on the way cut off, nothing a report
\* leaves out is larger than a row it shows: a queue of the broker, one of the
\* newest slow commands, a sampled key.
LargestShown ==
    /\ Reported("backlog") /\ Succeeded("queues") =>
          \A q \in seen["queues"], row \in report.rows :
              (\A other \in report.rows : other.name # q.name) => Num(q.messages) <= row.messages
    /\ Reported("latency") /\ Succeeded("slowlog") =>
          \A e \in seen["slowlog"], row \in report.rows :
              /\ Cardinality({n \in seen["slowlog"] : n.id >= e.id}) <= SlowlogRows + 1
              /\ \A other \in report.rows : other.command # e.command
              => e.durationUs <= row.maxUs
    /\ Reported("memory") /\ walk = "done" =>
          \A k \in sized \ report.rows, row \in report.rows : k.bytes <= row.bytes

\* An overview owns up to the reads that failed.  A number is null, and a broker has no
\* nodes or no known alarms, only with an error that names the read; no alarm count is
\* given for nodes nobody read.  The counts of one cluster node pass for the whole
\* dataset (clusterMode false) only if the mode was read and is not a cluster's; if it
\* was not, keyScope says "server" like a complete answer, and clusterMode null is what
\* tells the two apart.
OverviewHonest ==
    /\ Reported("redisOverview") =>
          /\ report.usedPctOfMax = Missing => "memory" \in report.errors
          /\ report.totalKeys = Missing => "keyspace" \in report.errors
          /\ report.totalKeys # Missing =>
                /\ report.clusterMode = FALSE => Succeeded("mode") /\ seen["mode"] # "cluster"
                /\ report.clusterMode = Missing => ~Succeeded("mode")
                /\ report.keyScope = "node" <=> Succeeded("mode") /\ seen["mode"] = "cluster"
          /\ report.errors # {} => \E r \in DOMAIN seen : ~Succeeded(r)
    /\ Reported("rabbitOverview") =>
          /\ report.connections = Missing => "overview" \in report.errors
          /\ report.nodeAlarms = 0 =>
                Succeeded("nodes") /\ \A n \in seen["nodes"] : ~n.mem_alarm /\ ~n.disk_free_alarm
          /\ report.nodeAlarms = Missing => "nodes" \in report.errors
          /\ report.nodesTotal = 0 => "nodes" \in report.errors \/ seen["nodes"] = {}

=============================================================================
