----------------------------- MODULE MCDiagnosis -----------------------------
(***************************************************************************)
(* Answers on both sides of every threshold, with fields missing; tables   *)
(* of one row more than the limits let through.                            *)
(***************************************************************************)
EXTENDS Diagnosis

Queue(name) ==
    {[name |-> name, messages |-> 1, messages_unacknowledged |-> 1,
      consumers |-> 1, publish |-> 5, deliver |-> 0],
     [name |-> name, messages |-> 2001, messages_unacknowledged |-> 1000,
      consumers |-> 1, publish |-> 6, deliver |-> 5],
     [name |-> name, messages |-> 2000, messages_unacknowledged |-> 0,
      consumers |-> 1, publish |-> 7, deliver |-> 5],
     [name |-> name, messages |-> 2000, messages_unacknowledged |-> 900,
      consumers |-> 1, publish |-> Missing, deliver |-> 5],
     [name |-> name, messages |-> 3000, messages_unacknowledged |-> 3000,
      consumers |-> Missing, publish |-> 7, deliver |-> Missing]}

Command(id) == {[id |-> id, command |-> c, durationUs |-> us] : c \in {"KEYS", "GET"}, us \in 1 .. 3}

SomeAnswers ==
    [stats       |-> [evicted_keys : {0, 1}, latest_fork_usec : {1, 2}]
                     \cup [evicted_keys : {Missing}, latest_fork_usec : {Missing}],
     memory      |-> [used_memory : {100, 1699, 1700}, maxmemory : {Missing, 0, 2000},
                      maxmemory_policy : {"noeviction", "allkeys-lru"},
                      mem_fragmentation_ratio : {Missing, 7, 8, 15}],
     clients     |-> [blocked_clients : {Missing, 1}],
     persistence |-> [aof_delayed_fsync : {0, 1}, saving : {0}, loading : {0, 1}]
                     \cup [aof_delayed_fsync : {Missing}, saving : {1}, loading : {Missing}],
     slowlog     |-> {{a, b, c} : a \in {[id |-> 1, command |-> "KEYS", durationUs |-> 3]},
                                  b \in Command(2), c \in Command(3)}
                     \cup {{a, b, c, d} : a \in {[id |-> 1, command |-> "EVAL", durationUs |-> 3]},
                                          b \in {[id |-> 2, command |-> "MGET", durationUs |-> 2]},
                                          c \in Command(3), d \in Command(4)} \cup {{}},
     queues      |-> {{a, b, c} : a \in Queue("orders"), b \in Queue("mails"), c \in Queue("dlq")}
                     \cup {{}},
     nodes       |-> {{[name |-> "rabbit1", mem_alarm |-> a, disk_free_alarm |-> b],
                       [name |-> "rabbit2", mem_alarm |-> FALSE, disk_free_alarm |-> c]} :
                          a \in BOOLEAN, b \in BOOLEAN, c \in BOOLEAN} \cup {{}},
     overview    |-> [connections : {Missing, 0, 1, 2}, channels : {Missing, 19, 20},
                      created : {9, 10}, closed : {Missing, 10}],
     connections |-> {{}},
     server      |-> {"7.4"},
     keyspace    |-> {0, 1},
     mode        |-> {Missing, "standalone", "cluster"}]

SomeOptions ==
    [memory |-> {0, 850}, latency |-> {0, 2}, backlog |-> {0, 1, 3},
     rabbitChurn |-> {Missing, 0, 1}, redisOverview |-> {None}, rabbitOverview |-> {None}]

=============================================================================
