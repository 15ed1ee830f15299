# Queue-AIops in TLA+

A formal model of queue-aiops, the governed operations tool for redis and RabbitMQ, in the
sources under `src/queue_aiops`. The specifications are written from the code; each
definition's lines are listed under `map` in `PROJECT.json`.

## 1. The system

An MCP server process (with several threads) and any number of CLI processes of one user
call the same *tools*. A tool is a function wrapped by `tool_errors` (an exception becomes
an `{"error": ...}` payload) and, outside that, by `governed_tool` (budget, patterns,
audit, undo). The processes share nothing but the files in `~/.queue-aiops` and the brokers.

| Component | State | Operations | Interacts with |
|---|---|---|---|
| Audit engine, `governance/audit.py` | `audit.db` and its archives; per process `_ok`, `_write_blocked`; `audit.lock` and a thread lock | `begin_write`, `log`, `finish_write`, `reconcile_pending`, rotation, start | every governed call; an operator |
| Call wrapper, `governance/decorators.py` | one `_CallState` per call: status, result, intent id | pre-check, begin, annotate (undo), capture, finalize | audit, budget, patterns, undo, tool body |
| Undo store, `governance/undo.py`, and `mcp_server/tools/undo.py` | `undo.db`: tokens, `recorded` or `applied` | `record`, `get`, `mark`, `undo_apply`, `undo_list` | the wrapper; the inverse tools |
| Broker writes, `ops/writes.py`, `mcp_server/tools/writes.py` | none; the broker's | config_set, declare/delete queue, set/delete policy, purge, kill | connection; undo |
| Connections, `connection.py`, `mcp_server/_shared.py` | cached clients | request, translate errors | brokers |
| Budget, `governance/budget.py` | calls, seconds, a sliding window per call signature | `check_and_record`, `add_duration` | wrapper; the environment |
| Patterns, `governance/patterns.py` | loaded patterns; arms, failures and cooldown per pattern and target | `match`, `report_outcome`, reload | wrapper; YAML files |
| Secret store, `secretstore.py`, `cli/secret.py`, `cli/init.py` | `secrets.enc`, `.env`, `config.yaml`; an unlocked copy in memory | `set`, `delete`, `with_password`, migration, the wizard | CLI processes, configuration, connections |
| Analyses and overviews, `ops/analysis.py`, `ops/overview.py`, `mcp_server/tools/analysis.py` | none between calls; the caller may keep a snapshot | the four RCA tools, `queue_overview` | reads |
| Reads, `ops/redis_reads.py`, `ops/rabbit_reads.py` | none | one or several requests each; `big_key_sample` walks the keyspace | connections |
| CLI, configuration, platforms, doctor | `config.yaml` | parsing, formatting, exit codes | everything |

What is hard about it, and what makes each part correct:

- **Audit**: processes interleave at the lock, the rename and the SQLite transactions; a
  process can die between any two of them; storage can fail. Correct means: no write
  without a durable intent, no intent lost, resolved twice or resolved by somebody else, a
  process that cannot resolve its intents stops writing, and every call ends.
- **Wrapper and connections**: the verdict written to the row must not claim more than is
  known; requests get lost, answers get lost, and a request can take effect after its call
  has ended.
- **Undo**: a token is made from a before-state fetched in a separate request, applied in
  two steps (run the inverse, mark the token), by several callers at once. Correct means:
  tokens stand for real changes, `applied` means applied, an inverse restores.
- **Budget**: limits that must hold whatever threads call at once, although the clock is
  read before the lock is taken and durations are only known afterwards.
- **Patterns**: caps and a breaker under late and interleaved reports and reloads.
- **Secret store**: read-modify-write of one file by several processes that can be killed
  at any point, a server that works with a cached copy, and two files (`secrets.enc`,
  `config.yaml`) that must fit together. Correct means: what was persisted stays, a target
  that is configured has its secret, and "no secret" is never a wrong password or a stale
  copy.
- **Reads and analyses**: every read can fail by itself, fields can be missing, the broker
  changes or restarts between reads, tables are cut at limits several times on their way.
  Correct means: a finding rests on numbers that were read, a cut loses the small rows,
  and a partial answer says so.

## 2. The modules

```
WriteIntentLog            the promise of the audit trail
   ^ implemented by
GovernedWrite             wrapper + audit engine + processes + broker
   MCGovernedWrite           values of the constants for TLC
   GovernedWriteProofs       invariants, proved
      GovernedWriteRefinement   the checked properties and the refinement, proved
         GovernedWriteVerdicts     what 'error' and 'ok' are worth, proved
UndoLog                   the promise of undo tokens
   ^ implemented by
ReversibleWrites          reversible writes + undo tokens + undo_apply + broker
   MCReversibleWrites        values of the constants for TLC
   ReversibleWritesProofs    invariants and the checked properties, proved
ArmingLimits              the promise of the caps and the breaker
   ^ implemented by
PatternEngine             threads + pattern engine + pattern file + clock
   MCPatternEngine           values of the constants for TLC
   PatternEngineProofs       invariants and the checked properties, proved
Budget                    threads + budget tracker + environment + clock
   MCBudget, BudgetProofs
SecretStore               CLI processes + files + MCP server
   MCSecretStore, SecretStoreProofs
Readings                  numbers, percentages, sorted and cut tables
   KeySample                 big_key_sample
   Churn                     the churn analysis against a broker that restarts
   Analysis                  payloads of the reads, and the analyses as functions
      Diagnosis                 the calls: Analysis, KeySample and Churn composed
         MCDiagnosis, DiagnosisProofs
```

The families share no state in the code but the call itself: the audit trail treats budget
and patterns as part of the pre-check, `undo_apply` as a call that makes another one, and
reads and analyses are calls that write nothing.

### WriteIntentLog

The abstract specification, from `SECURITY.md:99-105`: calls are *intended*, then
*requested*, then perhaps *effected*, and an intent is *resolved* at most once, after which
no further request leaves under it. It knows no files, ids or processes.

### GovernedWrite

`Callers` are threads in processes (`ProcOf`), and tool bodies that make a governed call of
their own: `undo_apply` is `@governed_tool(risk_level="medium")` and calls the inverse, a
governed write, on its own thread (`mcp_server/tools/undo.py:117`, `:183`). `Within[c]` is
the caller in whose tool body `c` runs. A nested call begins while that caller has its own
intent open and is about to send; its number is the number of the call it runs in, and its
end is left in `reply` for `InverseReturns`. `pc[c]` is where a caller is in the wrapper:

| Action | Code |
|---|---|
| `BeginOther`, `BeginWrite`, `RefuseWrite` | `_CallState`, `_pre_check`, `_begin_write`, the head of `begin_write` |
| `Acquire`, `CheckRotation`, `Archive`, `InitDb`, `Append`, `AppendFails` | `log`: the guard, `_maybe_rotate`, the `INSERT`; `strict` failures block the process |
| `SendRequest`, `FailsBeforeSend`, `Confirmed`, `Rejected`, `LostResponse`, `Interrupted` | the tool body and how its end becomes a verdict (`Translate`, `Payload`, `FinalStatus`) |
| `InverseReturns` | `undo_apply` after its inverse: an error payload goes into a result, a value lets the token be marked (which may fail), an exception passes on |
| `FinishWrite`, `FinishFails` | `finish_write` |
| `Reconcile` | `reconcile_pending` |
| `BrokerApplies`, `RequestLost` | the broker and the network (external) |
| `Stop`, `Start` | a process exits or dies at any point; `AuditEngine.__init__` |

A row records which file it is in (`gen`), its id there, the call it is about and its
status. `Archive` starts file `gen + 1` with ids from 1 and without a table; `InitDb` may
create the table, or fail as the code's swallowed exception allows. The refinement mapping
reads the intents off the rows (archived and deleted ones included), `requested` off
`inflight` and `effected` off `applied`.

Abstractions. A file counts as full when it has `RotateAt` rows (for 100 MB); every
archive has a name of its own (the code's are one second apart); a record
row, which no step reads, always says 'error'; what a row says besides
its status is left out. Sending a request is one step, and the before-state reads of a
tool belong to `FailsBeforeSend`: they change nothing. Budget and patterns only decide
whether the call is stopped, which `BeginOther` covers. The operator who reconciles has
checked that no process executes the write, as the method's doc demands
(`governance/audit.py:261-266`): that is a guard of `Reconcile`. The code does not enforce
it, and what happens when an operator reconciles under a running write is not explored.

### UndoLog

The abstract specification, from `governance/undo.py:1-20`: a change that was made may be
*promised* an inverse, once and for all; undoing it makes exactly that change (*inverted*);
only then can it be *settled*, for good. It knows no requests, workers, crashes or files.
The mapping reads promises and settlements off the tokens and the rest off the broker.

### ReversibleWrites

`Workers` write to `Resources` of three kinds. A write sets a value or deletes the
resource, so its inverse is again a write, made through the same actions by `BeginUndo`.

| Action | Code |
|---|---|
| `BeginWrite` | the five reversible tools |
| `BeginUndo` | `undo_apply` up to the call of the inverse |
| `Fetch` | the read of the before-state, and the request |
| `Confirm` | the result, the `_*_undo` callable, `UndoStore.record` (which may fail silently) |
| `Fail`, `Raise`, `Interrupt` | an error payload (a lost answer too); an exception of the governance; Ctrl-C at any point, which the wrapper audits with the initial `ok` |
| `Mark` | `store.mark(undo_id, "applied")` |
| `CarryOut`, `Drop`, `OtherWrites`, `Crash` | the broker, the network, other clients, the death of a process |

`Undoable` and `Inverse` are the descriptor functions; `Clip` is what `opt(..., 128)`
keeps of a value. `effects`, and `reports`, are history; a report is the audit status of an
`undo_apply` and how it ended, by returning, raising or an interrupt. Left out: calls that reach
neither broker nor token (previews, refused names), messages in queues, several targets,
and `effect_verified`, which no code path sets to false for a broker write, because
`capture_prior_state` is called by no tool.

### ArmingLimits

The abstract specification, from `governance/patterns.py:7-12`: a call of a target is
*armed* only while the calls armed in the last hour and day leave room and the reports of
how armed calls *ended* hold no recent run of failures. It knows no counters, threads,
locks or files; `PatternEngine` has it with `armings` and `outcomes` for its variables.

### PatternEngine

`Threads` of one process consult the engine before their calls. `pc[t]` is where a thread
is in `match`, or `armed` until its call has ended.

| Action | Code |
|---|---|
| `Begin` | `_pre_check` calls `match` |
| `CheckFile` | `_maybe_reload` |
| `Stat`, `ReadFile`, `StorePatterns`, `StoreMtimes` | `_load`, whose steps interleave because it takes no lock |
| `Candidates` | the candidates, chosen before the lock is taken |
| `CircuitBroken`, `RateLimited`, `Arm` | the locked block of `match`, one step each |
| `Report` | `report_outcome`, from `_finalize` |
| `Edit`, `Tick` | the operator; the clock (external) |

Times are counted in ticks and `arm_timestamps`, a list that the code only filters, counts
and appends to, is a set of numbered armings. `armings` and `outcomes` are history. One
pattern that does not expire, with limits that edits do not change: with several patterns
the code takes the first armable one, and counters of different patterns never meet. A
process that ends loses its counters by design (`governance/patterns.py:13`), so the model
has no crash.

### Budget

`Threads` of one process make calls with a fingerprint (tool and redacted parameters).

| Action | Code |
|---|---|
| `Enter` | the call starts; `check_and_record` reads the clock, before it takes the lock |
| `Check` | `check_and_record` under the lock: `CallsReached`, `SecondsReached`, `Breaker` |
| `Finish` | `add_duration`, called by `_finalize` for stopped calls too |
| `Reconfigure` | the runaway limits, read from the environment at every check, are edited |
| `Tick` | the clock (external) |

A window is a history of everything appended and a count of what was popped from its left
end, which is all that a deque used from two ends is. Each entry keeps, besides the time
noted, the time it was noted at: those differ by the wait for the lock. A call's start and
its clock reading are one instant. Two assumptions bound time: a thread waits for the lock
at most `MaxStall`, a call takes at most `LongestCall`; the properties are stated in terms
of them, and both may be any number. The clock does not step backwards, and a nested call
(`undo_apply` calls an inverse tool, and both durations are added) is not told apart from
two calls. The two ceilings, which default to none, stay as they are.

### SecretStore

`Procs` are CLI processes. A command unlocks the store into an object (`mem`) and persists
changes of it; the file operations are single steps.

| Action | Code |
|---|---|
| `Unlock` | `SecretStore.unlock`, at the head of every command; `migrate_legacy_env`'s early return |
| `Open`, `Write`, `Replace`, `ReplaceFails` | `set`, `delete`, `with_password` and `_persist`: the open that truncates `secrets.enc.tmp`, the write, the rename |
| `Rename` | `.env` becomes `.env.migrated` |
| `NoAuth`, `Forget`, `SaveBegin`, `SaveEnd` | the wizard: a redis without a password, a target dropped for overwriting, `config.yaml` truncated and written |
| `End` | a command's end, an error, or its death at any step |
| `Connect` | `ConnectionManager.connect` with `_resolve_secret` and `open_store`'s cache (`Consult`); the read of `secrets.enc` may fail |
| `ServerRestart` | the cache and the connections are gone |

The temporary file has one name for all processes, so a handle can end up on a file that
was renamed over `secrets.enc` (`fd`) and blobs can be torn. A blob is the password that
opens it and its data: a salt and its ciphertext are written together and are useless
apart. `due` is the store as the completed renames leave it. Nothing in the code keeps two
commands from changing the store at once: `clashed` records that a change was made upon an
outdated store or that two commands were inside `_persist` together, `overlapped` the
latter alone. `Lossless`, `LegacyKept` and `TargetsHaveSecrets` hold as long as nothing
clashed; `SwappedWhole`, that the file is only ever replaced by a whole store, also after
changes were overwritten; `ConnectionsFromStore` always, since it speaks of what the file
had (`held`) and not of what it should have. `_resolve_secret` lets a wrong master password
through as an error but takes a file that cannot be read, or is broken, for a target
without a secret: `Consult` does so too, and `unread` notes the targets connected that way.
Commands still run at the same time, unlock, die and run again. A second `migrate` that
overwrites a newer secret with the old value of `.env` is a change like any other here. The
broker passwords of the environment (`Fallback`) count as no secret in the store;
`.env.migrated` may be overwritten by a second migration, which the model does not follow.

### Readings, KeySample, Churn, Analysis, Diagnosis

`Readings` has the shared functions: absent cells count as 0, percentages are rounded
half to even in tenths, `First` is the set of tables that sorting and cutting may leave
(rows of equal value come in any order). `Analysis` gives the payloads of the reads and
the analyses as pure functions. `Diagnosis` makes calls of them.

| Action | Code |
|---|---|
| `Begin` | a tool of `mcp_server/tools/analysis.py`, or `queue_overview` |
| `ReadSucceeds`, `SoftReadFails`, `HardReadFails` | one read, in the order of the `pull_*` functions: an answer, an `{"error"}` payload, or an exception that ends the call |
| `Sample` (of `KeySample`: `SampleStart`, `ScanPage`, `SizeKey`, `SampleEnd`, `SampleFails`), `SampleReturns` | `big_key_sample` |
| `ReportMemory`, `ReportLatency`, `ReportBacklog`, `ReportRabbitChurn` | the analyses |
| `ReportRedisOverview`, `ReportRabbitOverview` | `_redis_overview`, `_rabbitmq_overview` |
| `Done` | the caller has its reply |
| `Pull`, `PullFails`, `Answer` (of `Churn`) | `pull_churn_snapshot`, `_redis_churn` with a history or without |
| `Arrive`, `Pass`, `Reboot` | the broker's clients, the clock, the broker's restart (external) |

The broker may answer each read independently of the others, because it changes between
them. Churn compares with an earlier call and shares no state with the other analyses; a
behaviour is about it or about them (`session`). A kept history is a whole snapshot, or
what the tool's answer contains, which is neither the time nor the total.

Abstractions. Rates and ratios are exact fractions where the code has floats; properties
about a rounded number allow half of its last digit, so they do not rest on the difference.
`Scope` is the marker that travels with the key counts, `scope` and `clusterMode`: a mode
that is absent is no cluster's, as in the code, and one that could not be read leaves
`scope` "server" and `clusterMode` null.
A broker is up for at least a second before it restarts. Findings are names for the code's
texts; "Healthy" is the empty set of findings. Grouping by source, average durations, and
the findings on rejected connections are left out, and so are reads no analysis uses.

## 3. What TLC checks

| Run | Instance | Shows |
|---|---|---|
| `audit_trail` | server thread (2 calls, the first perhaps an undo with its inverse inside), CLI (1 call, may die and restart), rotation at every row, 1 archive kept, fair | types; `WriteAhead`, `OwnIntentPending`, `NoPendingArchived`, `OneOpenCallPerLifetime`, `OnlyOwnerResolves`; implements `WriteIntentLog`; `EveryCallEnds` |
| `undo_tokens` | 2 workers, a policy and a queue, 2 values, 3 writes, 1 foreign change | `TokenHasEffect`, `AppliedMeansInverted`, `UndoRestores`; implements `UndoLog` |
| `pattern_limits` | 2 threads, 1 target, hour 2, day 4, caps 2 and 3, breaker after 2 for 3, clock to 5, 1 edit | `CapsHold`, `BreakerExact`; implements `ArmingLimits` |
| `budget` | 2 threads, 1 fingerprint, 4 calls and 3 seconds, 1 edit of the runaway limits, clock to 6, stalls of 1, calls of 2 | `RunawayBound`, `TripJustified`, `CeilingsHold` |
| `secrets` | 2 commands at a time, 2 targets (one may do without AUTH), 2 master passwords, 3 changes | `Lossless`, `LegacyKept`, `TargetsHaveSecrets`, `ConnectionsFromStore`, `SwappedWhole` |
| `diagnosis` | answers on both sides of every threshold, fields missing, tables of one row more than the limits, a walk of 7 keys of which 3 are sized, 4 seconds and 4 connections for churn | `SampleSpreads`, `ChurnIsReal`, `FindingsExact`, `LargestShown`, `OverviewHonest` |
| `lost_response`, `interrupted_write`, `undo_once`, `undo_exact`, `undo_audit`, `pattern_reload` | smaller | see below |

Bounds: `MaxCalls` bounds the calls each caller makes, `MaxOthers` the changes of other
clients. Two calls of the server, an inverse inside the first, and one call of the CLI are
enough to have one process rotate while the other writes, to reuse an id in a second file,
to delete an archive (`KeepArchives = 1`), to have two intents of one thread open and
unresolved, and to crash and restart in between; ids only collide from the second file on,
so a bound of two calls would not show it. In `audit_trail` only the CLI dies (`MayStop`):
with the inverse in the instance, two processes that may die give ten times the states. The
theorems are about any processes dying. Rotation at every row makes rotation as frequent as it can
be. In `ReversibleWrites`, three writes make a write, its undo and either a second undo of
the same token or an undo of the undo. Workers are interchangeable there, and so are the
two values when nothing is cut, hence the symmetry; the configuration checks no liveness.
In `PatternEngine` the clock passes a whole day, so that armings leave both windows, and a
trip and its end both fall within it; the two caps are below what two threads could arm.
The edit shows that reloading does not disturb the counters; two edits are what two
interleaved loads need to differ.
In `Budget` the horizon exceeds the windows, so that entries are popped, late times are
appended after earlier ones, and a window fills again; the limits in `MCBudget` include a
breaker that is off. Two threads suffice for a time that arrives out of order; the
theorems cover more. In `SecretStore` three changes make a set, a rotation or migration and
a deletion, or a clash and what follows it: once two commands clashed only `SwappedWhole`
and `ConnectionsFromStore` say anything, and `Followed` follows such a behaviour for one
more change only, and two init dialogs at once for one change. One fingerprint and
one secret are enough because no step compares two of them; the two targets differ in kind.
In `Diagnosis` a walk of 7 keys over a maximum of 3 has a stride of 2 that does not divide
it, and shorter walks have the stride 1 with more keys than are sized; a table has three
or four rows where two are kept, before a second cut at one. `Churn` has room for a
restart between two snapshots.
Deadlock is not checked for `ReversibleWrites`, `Budget` and `SecretStore`, whose workers,
threads and commands stop when their writes, their time or their changes are used up.

Fairness: `WF` for the steps of a caller that is in a call. Every wait in those steps ends
by itself: SQLite's busy timeout (5 s), the client's timeout, and the lock, which its
holder releases in a `finally` and the kernel releases for a dead process. The run
`audit_trail` checks its safety properties under the fair specification too, which has the
same reachable states; as `MaxCalls` bounds the calls, "every call ends" is checked as "from
some point on no thread is in a call". No fairness is
assumed for the broker, the operator, or the start of calls and processes. Weak fairness
of a single thread's steps says that a thread whose turn at the lock never comes is not
starved: after `MaxCalls` calls nobody else holds it.

Six runs show where the code and its own words disagree. Their counterexamples are finite
behaviours, which no fairness excludes:

| Run | The code | Its words |
|---|---|---|
| `lost_response` | client errors become `QueueApiError` before they are classified, so a lost answer is an `error` | `tests/test_governance_persistence.py:248` |
| `interrupted_write` | an interrupted write is audited with the initial `ok` | `governance/outcome.py:15` |
| `undo_once` | the token's check and mark are apart, and the mark is unconditional | `mcp_server/tools/undo.py:124` |
| `undo_exact` | before-states are cut to 128 characters | `ops/writes.py:400` |
| `undo_audit` | a failed inverse is inside a payload that counts as a success | `governance/decorators.py:404` |
| `pattern_reload` | two unlocked loads interleave their two assignments: old patterns, new mtimes | `governance/patterns.py:5` |

Six more were met while modelling and have no run of their own, since the model takes the
code's behaviour as given:

- `mcp_server/tools/analysis.py:132` asks the caller to keep "the returned snapshot fields"
  as `history`, but the answer has neither `capturedAt` nor `totalConnectionsReceived`: a
  history made of it gives a rate of about 0 whatever the churn.
- `ops/redis_reads.py:264` calls the sized keys "evenly-spaced"; between once and twice
  `MEMORY_SAMPLE_MAX` keys, the stride is 1 and the sample is the head of the walk. It
  still reaches the second half (`SampleSpreads`).
- An analysis whose soft reads all failed reports "Healthy" (`ops/analysis.py:42`, `:324`),
  and a queue whose consumer count was not reported has the cause "no consumers": the 0
  that stands for a missing number is taken for one. `BacklogExact` names these cases.
- `config.py:71-72` swallows every `SecretStoreError` but a wrong password under the comment
  "no secret stored for this target". A `secrets.enc` that cannot be read
  (`secretstore.py:149`) or is broken is one, so that a redis target that has a secret is
  connected without AUTH, or with the environment's. `ConnectionsFromStore` names these
  connections (`unread`).
- `_scope` promises a marker so that "a consumer can tell a complete answer from a partial
  one" (`ops/redis_reads.py:200`), but when the mode could not be read it says "server",
  which is the scope of a whole dataset in `tests/test_reads.py:344-352`; only
  `clusterMode`, null instead of false, tells the two apart (`OverviewHonest`).
- `ops/overview.py:90` reports 0 nodes when the nodes could not be read; the error list
  names the read, and `nodeAlarms` is null (`OverviewHonest`).

## 4. What is proved

All theorems hold for every set of callers, processes, workers, threads, targets and
values, every answer of a broker and every bound. From the named assumptions on the constants:

`GovernedWriteProofs` and `GovernedWriteRefinement`. Except for types, row identity and
write-ahead the theorems assume `SingleGuard`: the lock spans all callers, because there is
`flock` or a single process. Without it (Windows, `docs/VERIFICATION.md:101`)
`OwnIntentPending` is false, as the mutant `ThreadLockFree` shows: a rotation moves a
running write's row away, and the reused id names another call's. That no request leaves
without its intent needs no guard. None of the properties is inductive; the
argument goes in layers, each of which uses those before:

1. `Typing`: types.
2. `GuardExclusive`: at most one caller between lock and INSERT. Nothing about rotation can
   be said without it.
3. `RowIdentity`: rows are unique by call and by (file, id), and ids never exceed the file's
   counter.
4. `IntentsStay`: a running write has its pending row in the current file; whoever is about
   to rename the file saw no pending row *and no one can have added one since*.
5. `Nesting`: a nested call runs only while the caller it runs in waits in its tool body, in
   a call of the same number. `OneOpenCall`: an unresolved intent of this lifetime implies
   that its process is blocked or its own call, or the one it runs in, is still running.
6. `RequestsIntended`, of 1 alone: a call in its tool body has an intent row somewhere, and
   a request that has yet to leave has not been sent before. No UPDATE, rotation or
   deletion forgets an intent (`UpdatedIntents`, `SameRows`).

The checked properties follow (`WriteAheadHolds`, `OwnIntentStays`, `PendingStaysLive`,
`OneCallOpen`, `OwnerResolves`), and `Refinement` maps every step of the pipeline to a
step of `WriteIntentLog` or a stutter.

`GovernedWriteVerdicts` takes the two violated properties of the audit trail and proves
them for the behaviours without the steps that lead to a violation. A row of `undo_apply` is
about the inverse it ran (`Parts`). `ErrorsHonest`: an `error` row is about a write that
never happens, unless a client gives up on a request that took effect or still may
(`GivesUp`) or an `undo_apply` fails after its inverse did, because the inverse's row could
not be resolved or its token not be marked (`Disowns`). `OksHonest`: an `ok` row is about a
write that happened, unless the call was interrupted before its effect (`CutOff`) or an
`undo_apply` returned the error of an inverse without effect inside a result (`Swallows`,
seen from the token's side in `undo_audit`). Crashes, failing storage elsewhere, rotations,
late requests and operators lead to no false verdict. Both need the layers above, since
the verdict must reach the row of its own call.

`ReversibleWritesProofs`, in three layers: `Typing` (with the fact that nobody ever fetches
a missing config parameter), `CallIdentity` (requests, effects and tokens are told apart by
call, so that an answer is about one's own request), `TokenOrigin` (a token is the right
inverse of an effect, and an undo under way carries out a token's inverse). They give
`TokensHaveEffects`, `AppliedWereInverted` and, if `Clip` is the identity,
`InversesRestore`; `undo_exact` shows that this assumption is needed, and it is not the
code's. From the same layers:

- `UndoRefinement` maps every step to a step of `UndoLog` or a stutter. What makes it more
  than the invariants is that a promise never changes, that an undo makes the promised
  change even when the token was marked or its worker died meanwhile, and that a settled
  promise is never reopened.
- `AppliedOnce`: no inverse is carried out twice if no two workers apply one token at once
  (`LoneUndo`) and none leaves its undo by an error, an exception or a crash although the
  request took effect or still may (`Abandons`). `OnceInv` says that a request or an
  effect of an undo belongs to the one worker that applies its token, or the token is
  settled.
  Either of the two alone violates the property, so `undo_once` cannot be had otherwise
  and neither condition is superfluous.
- `UndoReportsHonest`: an undo audited as `ok` put its inverse to the broker unless the
  inverse ended with an error payload inside `undo_apply`, the case of `undo_audit`, or an
  interrupt cut it off before the inverse took effect. `FailedUndoNotOk` itself is about
  calls that returned.

`PatternEngineProofs`, for any threads, targets, windows, caps and threshold (`Hour <= Day`):

1. `Typing`: types, and finitely many armings, without which nothing can be counted.
2. `Caps`: by itself `CapsHold` says nothing about the counters. `CapsInv` adds that what
   was armed within a day is still in `arm_timestamps` and that armings are numbered, so
   that each counts; `OneMore` is the step: one more arming keeps a cap if the window that
   ends now has room.
3. `Breaker`: `BreakerInv` adds that `consecutive_failures` is the length of the run of
   failures the reports end with, and that `disabled_until` is what the last trip set.
4. `EngineRefinement`: `match` decides by counters that are pruned and shared,
   `ArmingLimits` by all that was ever armed and reported. `PrunedEnough` (from `CapsInv`)
   and `BreakerExact` say that both come to the same decision at every arming.
5. `LoneHotReload`: as long as no two threads are reloading at once, what is loaded was
   read after its mtime was taken (`Matches`), so no edit is overlooked, wherever in the
   reload it falls. `SoloHotReload` is the case of one thread. With two reloads at a time
   it is false, as `pattern_reload` shows.

`BudgetProofs`, for any finite set of threads and any limits:

1. `Typing`: types, popped counts within the histories, and nobody's clock reading older
   than `MaxStall` (or `LongestCall`).
2. `Windows`: the properties speak of the times entries were noted at, the code compares
   times that were read earlier and are not in order. `WindowInv` relates them: noted
   times are in order, a stamp is at most `MaxStall` older than its noting, and what was
   popped under the present limits is too old for good. The bound itself is a part of it.
3. `Breaking` and `Tripping` follow; `TripStep` needs that what is still in the window was
   noted late enough, although the loop leaves old entries behind younger ones.
4. `Ceilings` counts those in flight: `Headcount` and `Overrun`.

`SecretStoreProofs`, for any processes, targets, secrets and passwords:

1. `Typing`: types, and which step of a command goes with which job and which object.
2. `Storing`: `Lossless` is not inductive. `StoreInv` adds that, without a clash, at most
   one command is inside `_persist`, that its handle is on the temporary file and that what
   it is about to put in place is `due` with its change.
3. `LegacyMoved`, `TargetsServed`: every name handled so far is `Secured`, in the store or
   deleted on purpose, and stays so (`StaySecured`).
4. `Connecting`, also among commands that clash: what is cached, and what a connection was
   made with, was in the file since the server started, or the file could not be read.
5. `Swapping`, without the assumption that nothing clashed: `PersistInv` keeps of `StoreInv`
   what an overwritten change leaves true, that one command at most is inside `_persist`,
   with its handle on the temporary file and its own store in it (`AloneStep`, which both
   invariants share).

`DiagnosisProofs`, for any answers and limits:

1. Arithmetic of rounding and strides: `Rounding`, `Percentage`, `Stride`, `SampleShape`,
   which counts the sampled positions and finds the last.
2. `ChurnStep`: counters do not decrease while the broker is up, so a difference that is
   not negative is at most what was made since (`RateIsReal`).
3. `Cutting` and `CutRank`: what `First` leaves out, and how many rows are above it.
4. `CallStep`: what a call has read are payloads of answers, in order; then one lemma per
   analysis (`MemoryReport`, `LatencyReport`, `BacklogReport`, `OverviewReport`).

Only model-checked: `EveryCallEnds` (liveness is out of the prover's reach).

## 5. What is not modelled

Queries, statistics and formatting of the audit log; telemetry; redaction and sanitizing;
`undo_list`; building clients and URLs; parsing of the configuration; teaching messages;
the command line's own output, prompts and exit codes; the listings of clients, channels,
policies and parameters; the fingerprint function. They change no state that the
properties speak of. Encryption, permissions of files and the prompts for passwords are
outside: a store opens with its password and no other. `purge_queue` and `kill_client`
have no inverse; for the audit trail they are writes like others. Two brokers in
`ReversibleWrites`, what a lock without `flock` costs, and what an overwritten change of
the secret store loses are named as hazards in `PROJECT.json`.

## 6. Plan

Done: `GovernedWrite` with `WriteIntentLog`, `ReversibleWrites` with `UndoLog`,
`PatternEngine` with `ArmingLimits`, `Budget`, `SecretStore`, `Diagnosis` with its parts,
and their proofs. What would add most:

1. Several targets in `ReversibleWrites`: a token without a recorded target.
2. Several patterns in `PatternEngine`: the choice among those of one tool, expiry, edited
   limits.
3. For `SecretStore` after a clash: that only the changes of the overwritten command are
   lost.
4. Exit codes of the command line, against the verdicts of `GovernedWrite`.
5. `Reconcile` without the operator's check: what of the audit trail survives an operator who
   reconciles a write that is still running.
