--------------------------- MODULE GovernedWrite ----------------------------
(***************************************************************************)
(* The governed call pipeline (governance/decorators.py) over the shared   *)
(* audit database (governance/audit.py), run by several processes at once: *)
(* an MCP server and the CLI processes of the same user.                   *)
(*                                                                         *)
(* A call of a medium/high-risk tool commits a 'pending' intent row, sends *)
(* its request to the broker, and resolves the row.  Any other call (low   *)
(* risk, dry run, stopped by the budget, refused by the audit log) leaves  *)
(* one record row.  Rows are inserted under the rotation guard, which may  *)
(* first archive a full database file; an archive starts a new file whose  *)
(* ids restart at 1.  The body of undo_apply makes a governed call of its  *)
(* own, the inverse, while its own intent is open.  Processes crash and    *)
(* restart, storage fails, requests and responses get lost or arrive late, *)
(* an operator reconciles orphans.                                         *)
(***************************************************************************)
EXTENDS Integers, FiniteSets

CONSTANTS
    Callers,        \* the threads that make governed calls, and the tool bodies that do
    Within,         \* whose tool body a caller runs in; a thread runs in its own
    Procs,          \* the processes they run in
    ProcOf,         \* the process of each caller
    HasFlock,       \* fcntl is available (POSIX): the guard spans processes
    RotateAt,       \* rows at which a database file counts as full
    KeepArchives,   \* _MAX_ARCHIVES
    MaxCalls,       \* bound: how many calls each caller makes
    MayStop         \* bound: the processes that die or exit

ASSUME CallersAssumption == ProcOf \in [Callers -> Procs]

\* An inverse tool makes no governed call itself, and undo_apply makes one: a thread has
\* at most one nested caller, in its own process.
ASSUME NestingAssumption ==
    /\ Within \in [Callers -> Callers]
    /\ \A c \in Callers : Within[Within[c]] = Within[c] /\ ProcOf[Within[c]] = ProcOf[c]
    /\ \A c, d \in Callers : Within[c] = Within[d] => c = d \/ Within[c] = c \/ Within[d] = d

ASSUME BoundsAssumption == /\ HasFlock \in BOOLEAN
                           /\ RotateAt \in Nat
                           /\ KeepArchives \in Nat
                           /\ MaxCalls \in [Callers -> Nat]

IsNested(c) == Within[c] # c
Nested(c)   == {d \in Callers \ {c} : Within[d] = c}

\* <<c, n>> is c's n-th call; a nested call has the number of the call it runs in.
Call     == UNION {{c} \X (1 .. MaxCalls[c]) : c \in Callers}
Final    == {"ok", "error", "unknown"}  \* 'error' also stands for 'budget_exceeded'
Status   == Final \cup {"pending"}
Job      == {"intent", "record"}   \* what a row was inserted as
Row      == [gen : Nat, id : Nat, call : Call, job : Job, status : Status]
PC       == {"idle", "want", "guarded", "rotate", "init", "append",
             "send", "sent", "finish"}

Reply    == {"value", "error", "outcomeUnknown", "KeyboardInterrupt", "raised"}

VARIABLES
    \* the files under ~/.queue-aiops
    rows,       \* rows of audit.db (gen = gen) and of the archives (gen < gen)
    purged,     \* rows of archives deleted by _cleanup_archives (history)
    gen,        \* which file audit.db is: the number of rotations so far
    lastId,     \* sqlite_sequence of audit.db
    table,      \* audit.db has its audit_log table
    guard,      \* callers inside _rotation_guard
    \* the memory of each process
    up, engineOk, blocked,
    \* each caller's current call
    pc, started, firstCall, job, intent, verdict,
    reply,      \* what a nested call gives back to the tool body it runs in
    \* the broker
    inflight,   \* calls whose request is on its way or being worked on
    applied     \* calls the broker carried out

disk   == <<rows, purged, gen, lastId, table>>
proc   == <<up, engineOk, blocked>>
broker == <<inflight, applied>>
vars   == <<disk, guard, proc, pc, started, firstCall, job, intent, verdict, reply, broker>>

ThisCall(c) == <<c, started[c]>>
Live        == {r \in rows : r.gen = gen}
Pending(R)  == {r \in R : r.status = "pending"}

(***************************************************************************)
(* How the signal that ends the tool body becomes the row's status.        *)
(***************************************************************************)

\* What the HTTP or redis client can raise once or before a request left.
ClientErrors == {"ConnectError", "StatusError", "ReadTimeout"}

\* connection.py: every client error is re-raised as QueueApiError.
Translate(sig) == IF sig \in ClientErrors THEN "QueueApiError" ELSE sig

\* _UNDETERMINED_ERRORS, as far as ClientErrors goes.
Undetermined == {"ReadTimeout"}

\* tool_errors turns an Exception into an error payload, and marks it when its
\* type leaves the outcome open; KeyboardInterrupt is no Exception and passes.
Payload(exc) == IF exc \in {"value", "KeyboardInterrupt"} THEN exc
                ELSE IF exc \in Undetermined THEN "outcomeUnknown"
                ELSE "error"

\* Mutant: the payload's own marker is written into the status column.
RawStatus(payload) == IF payload = "value" THEN "ok" ELSE payload

\* _finalize: the status starts as "ok" and only a dict result can change it.
FinalStatus(payload) == IF payload = "outcomeUnknown" THEN "unknown"
                        ELSE IF payload = "error" THEN "error"
                        ELSE "ok"

VerdictOf(sig) == FinalStatus(Payload(Translate(sig)))

-----------------------------------------------------------------------------
Init ==
    /\ rows = {} /\ purged = {} /\ gen = 0 /\ lastId = 0 /\ table = TRUE
    /\ guard = {}
    /\ up = [p \in Procs |-> TRUE]
    /\ engineOk = [p \in Procs |-> TRUE]
    /\ blocked = [p \in Procs |-> FALSE]
    /\ pc = [c \in Callers |-> "idle"]
    /\ started = [c \in Callers |-> 0]
    /\ firstCall = [c \in Callers |-> 0]
    /\ job = [c \in Callers |-> "record"]
    /\ intent = [c \in Callers |-> 0]
    /\ verdict = [c \in Callers |-> "ok"]
    /\ reply = [c \in Callers |-> "raised"]
    /\ inflight = {} /\ applied = {}

Goto(c, label) == pc' = [pc EXCEPT ![c] = label]

\* The wrapper returns or raises: its locals are gone.
Return(c) == /\ Goto(c, "idle")
             /\ job' = [job EXCEPT ![c] = "record"]
             /\ intent' = [intent EXCEPT ![c] = 0]
             /\ verdict' = [verdict EXCEPT ![c] = "ok"]

\* Only a nested call has somebody to answer.  Until its tool body ends with a result,
\* its wrapper can only raise: the budget's stop or AuditUnavailable.
Answer(c, a) == reply' = IF IsNested(c) THEN [reply EXCEPT ![c] = a] ELSE reply

CallNumber(c) == IF IsNested(c) THEN started[Within[c]] ELSE started[c] + 1

\* A new governed call enters its wrapper (_CallState.__init__): from outside, or the
\* inverse of an undo, from the tool body of undo_apply, under undo_apply's open intent.
NewCall(c) == /\ up[ProcOf[c]]
              /\ pc[c] = "idle"
              /\ IsNested(c) => pc[Within[c]] = "send"
              /\ CallNumber(c) \in started[c] + 1 .. MaxCalls[c]
              /\ started' = [started EXCEPT ![c] = CallNumber(c)]
              /\ Answer(c, "raised")

\* _finalize without an intent: audit.log, which does nothing without an engine.
\* No step reads the status of such a row: 'error' stands for any.
Record(c) ==
    IF engineOk[ProcOf[c]]
    THEN /\ Goto(c, "want")
         /\ job' = [job EXCEPT ![c] = "record"]
         /\ verdict' = [verdict EXCEPT ![c] = "error"]
         /\ UNCHANGED intent
    ELSE Return(c)

Block(c) == blocked' = [blocked EXCEPT ![ProcOf[c]] = TRUE]

\* A read, a preview, or a call the budget stopped: no intent, one record.
BeginOther(c) ==
    /\ NewCall(c)
    /\ Record(c)
    /\ UNCHANGED <<disk, guard, proc, firstCall, broker>>

\* begin_write up to the guard: the process may insert the intent.
BeginWrite(c) ==
    /\ NewCall(c)
    /\ ~blocked[ProcOf[c]] /\ engineOk[ProcOf[c]]
    /\ job' = [job EXCEPT ![c] = "intent"]
    /\ Goto(c, "want")
    /\ UNCHANGED <<disk, guard, proc, firstCall, intent, verdict, broker>>

\* begin_write refuses: this process is blocked, or has no audit storage (which
\* blocks it from now on).
RefuseWrite(c) ==
    /\ NewCall(c)
    /\ blocked[ProcOf[c]] \/ ~engineOk[ProcOf[c]]
    /\ Block(c)
    /\ Record(c)
    /\ UNCHANGED <<disk, guard, up, engineOk, firstCall, broker>>

-----------------------------------------------------------------------------
(***************************************************************************)
(* AuditEngine.log: the guard, a possible rotation, the INSERT.            *)
(***************************************************************************)
\* Mutant: the guard only excludes threads of the caller's own process.
ThreadLockFree(c) == \A d \in guard : ProcOf[d] # ProcOf[c]

GuardFree(c) == \A d \in guard : ~HasFlock /\ ProcOf[d] # ProcOf[c]

Acquire(c) ==
    /\ pc[c] = "want"
    /\ GuardFree(c)
    /\ guard' = guard \cup {c}
    /\ Goto(c, "guarded")
    /\ UNCHANGED <<disk, proc, started, firstCall, reply, job, intent, verdict, broker>>

\* Mutant: a rotation does not look for pending intents.
RotateWhenFull == table /\ Cardinality(Live) >= RotateAt

\* The three early returns of _maybe_rotate.
MustRotate == /\ table
              /\ Cardinality(Live) >= RotateAt
              /\ Pending(Live) = {}

\* A failed checkpoint abandons the rotation and the INSERT goes ahead.
CheckRotation(c) ==
    /\ pc[c] = "guarded"
    /\ \/ MustRotate /\ Goto(c, "rotate")
       \/ Goto(c, "append")
    /\ UNCHANGED <<disk, guard, proc, started, firstCall, reply, job, intent, verdict, broker>>

\* The rename: audit.db is gone, its rows are an archive.
Archive(c) ==
    /\ pc[c] = "rotate"
    /\ gen' = gen + 1
    /\ lastId' = 0
    /\ table' = FALSE
    /\ Goto(c, "init")
    /\ UNCHANGED <<rows, purged, guard, proc, started, firstCall, reply, job, intent,
                   verdict, broker>>

\* _init_db and _cleanup_archives on the new file; a failure of either is swallowed.
InitDb(c) ==
    /\ pc[c] = "init"
    /\ \/ \E old \in {{}, {r \in rows : r.gen < gen - KeepArchives}} :
             /\ table' = TRUE
             /\ rows' = rows \ old
             /\ purged' = purged \cup old
       \/ UNCHANGED <<rows, purged, table>>
    /\ Goto(c, "append")
    /\ UNCHANGED <<gen, lastId, guard, proc, started, firstCall, reply, job, intent,
                   verdict, broker>>

Append(c) ==
    /\ pc[c] = "append"
    /\ table
    /\ lastId' = lastId + 1
    /\ rows' = rows \cup
               {[gen |-> gen, id |-> lastId + 1, call |-> ThisCall(c), job |-> job[c],
                 status |-> IF job[c] = "intent" THEN "pending" ELSE verdict[c]]}
    /\ guard' = guard \ {c}
    /\ IF job[c] = "intent"
       THEN /\ Goto(c, "send")
            /\ intent' = [intent EXCEPT ![c] = lastId + 1]
            /\ UNCHANGED <<job, verdict>>
       ELSE Return(c)
    /\ UNCHANGED <<purged, gen, table, proc, started, firstCall, reply, broker>>

\* Mutant: begin_write is not strict, and the write goes ahead without its row.
AppendFailsOpen(c) ==
    /\ pc[c] = "append"
    /\ guard' = guard \ {c}
    /\ IF job[c] = "intent" THEN Goto(c, "send") /\ UNCHANGED <<job, intent, verdict>>
                            ELSE Return(c)
    /\ UNCHANGED <<disk, proc, started, firstCall, reply, broker>>

\* Mutant: the guard is not released on the way out of a failed INSERT.
AppendFailsGuarded(c) ==
    /\ pc[c] = "append"
    /\ Return(c)
    /\ UNCHANGED <<disk, guard, proc, started, firstCall, reply, broker>>

\* The INSERT fails (no table, or storage does).  Strict: the process is blocked,
\* the write refused, and the refusal recorded if it can be.
AppendFails(c) ==
    /\ pc[c] = "append"
    /\ guard' = guard \ {c}
    /\ IF job[c] = "intent"
       THEN Block(c) /\ Record(c)
       ELSE Return(c) /\ UNCHANGED blocked
    /\ UNCHANGED <<disk, up, engineOk, started, firstCall, reply, broker>>

-----------------------------------------------------------------------------
(***************************************************************************)
(* The tool body: the request and what comes back.                         *)
(***************************************************************************)
Ends(c, sig) ==
    /\ verdict' = [verdict EXCEPT ![c] = VerdictOf(sig)]
    /\ Answer(c, Payload(Translate(sig)))
    /\ Goto(c, "finish")
    /\ UNCHANGED <<disk, guard, proc, started, firstCall, job, intent>>

\* undo_apply has called the inverse tool, and waits for it or has its answer.
Undoing(c)     == \E d \in Nested(c) : started[d] = started[c]
InverseOver(c) == \A d \in Nested(c) : pc[d] = "idle"

SendRequest(c) ==
    /\ pc[c] = "send" /\ ~Undoing(c)
    /\ inflight' = inflight \cup {ThisCall(c)}
    /\ Goto(c, "sent")
    /\ UNCHANGED <<disk, guard, proc, started, firstCall, reply, job, intent, verdict, applied>>

\* A guard of the tool refuses, its before-state read fails, or no connection.
FailsBeforeSend(c) ==
    /\ pc[c] = "send" /\ ~Undoing(c)
    /\ Ends(c, "ConnectError")
    /\ UNCHANGED broker

Confirmed(c) ==
    /\ pc[c] = "sent"
    /\ ThisCall(c) \in applied
    /\ Ends(c, "value")
    /\ UNCHANGED broker

Rejected(c) ==
    /\ pc[c] = "sent"
    /\ ThisCall(c) \in inflight
    /\ inflight' = inflight \ {ThisCall(c)}
    /\ Ends(c, "StatusError")
    /\ UNCHANGED applied

\* No usable answer in time; the request may have been, or yet be, carried out.
LostResponse(c) ==
    /\ pc[c] = "sent"
    /\ Ends(c, "ReadTimeout")
    /\ UNCHANGED broker

\* Ctrl-C in the tool body; the wrapper's finally still finalizes the call.
Interrupted(c) ==
    /\ pc[c] \in {"send", "sent"} /\ InverseOver(c)
    /\ Ends(c, "KeyboardInterrupt")
    /\ UNCHANGED broker

\* undo_apply goes on with what its inverse gave back.  An error payload becomes part of
\* a result, after a value the token is marked in undo.db, which may fail, and whatever
\* the inverse's wrapper raised passes through tool_errors.
InverseReturns(c) ==
    /\ pc[c] = "send"
    /\ \E d \in Nested(c) :
          /\ started[d] = started[c] /\ pc[d] = "idle"
          /\ \/ reply[d] \in {"value", "error", "outcomeUnknown"} /\ Ends(c, "value")
             \/ reply[d] = "value" /\ Ends(c, "sqlite3.Error")
             \/ reply[d] = "raised" /\ Ends(c, "AuditUnavailable")
             \/ reply[d] = "KeyboardInterrupt" /\ Ends(c, "KeyboardInterrupt")
    /\ UNCHANGED broker

BrokerApplies(k) ==
    /\ k \in inflight
    /\ inflight' = inflight \ {k}
    /\ applied' = applied \cup {k}
    /\ UNCHANGED <<disk, guard, proc, pc, started, firstCall, reply, job, intent, verdict>>

RequestLost(k) ==
    /\ k \in inflight
    /\ inflight' = inflight \ {k}
    /\ UNCHANGED <<disk, guard, proc, pc, started, firstCall, reply, job, intent, verdict, applied>>

-----------------------------------------------------------------------------
\* Mutants: UPDATE without the status test, and without the id.
MatchesResolved(r, i) == r.gen = gen /\ r.id = i
MatchesAnyPending(r, i) == r.gen = gen /\ i > 0 /\ r.status = "pending"

\* UPDATE ... SET status = v WHERE id = i AND status = 'pending', on audit.db.
Matches(r, i)    == r.gen = gen /\ r.id = i /\ r.status = "pending"
Updated(r, i, v) == IF Matches(r, i) THEN [r EXCEPT !.status = v] ELSE r
SetStatus(i, v)  == rows' = {Updated(r, i, v) : r \in rows}
Found(i)         == table /\ \E r \in rows : Matches(r, i)

FinishWrite(c) ==
    /\ pc[c] = "finish"
    /\ Found(intent[c])
    /\ SetStatus(intent[c], verdict[c])
    /\ Return(c)
    /\ UNCHANGED <<purged, gen, lastId, table, guard, proc, started, firstCall, reply, broker>>

\* Mutant: a failed finalization does not block the process.
FinishFailsUnblocked(c) ==
    /\ pc[c] = "finish"
    /\ Return(c)
    /\ Answer(c, "raised")
    /\ UNCHANGED <<disk, guard, proc, started, firstCall, broker>>

\* The row is not there, or storage fails: the process writes no more.
FinishFails(c) ==
    /\ pc[c] = "finish"
    /\ Block(c)
    /\ Return(c)
    /\ Answer(c, "raised")
    /\ UNCHANGED <<disk, guard, up, engineOk, started, firstCall, broker>>

\* A caller is still executing the write that this row is the intent of.
Executing(r) == \E c \in Callers : /\ r.call = ThisCall(c)
                                   /\ pc[c] \in {"send", "sent", "finish"}

\* reconcile_pending, run by an operator who checked that the write is not executing.
Reconcile(i) ==
    /\ Found(i)
    /\ \A r \in rows : Matches(r, i) => ~Executing(r)
    /\ SetStatus(i, "unknown")
    /\ UNCHANGED <<purged, gen, lastId, table, guard, proc, pc, started, firstCall, reply, job,
                   intent, verdict, broker>>

-----------------------------------------------------------------------------
InProc(p, f, v) == [c \in Callers |-> IF ProcOf[c] = p THEN v ELSE f[c]]

\* A process dies or exits: its memory is gone, and the kernel drops its flock.
Stop(p) ==
    /\ up[p] /\ p \in MayStop
    /\ up' = [up EXCEPT ![p] = FALSE]
    /\ engineOk' = [engineOk EXCEPT ![p] = TRUE]
    /\ blocked' = [blocked EXCEPT ![p] = FALSE]
    /\ guard' = {c \in guard : ProcOf[c] # p}
    /\ pc' = InProc(p, pc, "idle")
    /\ job' = InProc(p, job, "record")
    /\ intent' = InProc(p, intent, 0)
    /\ verdict' = InProc(p, verdict, "ok")
    /\ firstCall' = [c \in Callers |-> IF ProcOf[c] = p THEN started[c] ELSE firstCall[c]]
    /\ UNCHANGED <<disk, started, reply, broker>>

\* A process starts: AuditEngine.__init__ creates the table, or storage is unavailable.
Start(p) ==
    /\ ~up[p]
    /\ up' = [up EXCEPT ![p] = TRUE]
    /\ \E ok \in BOOLEAN : /\ engineOk' = [engineOk EXCEPT ![p] = ok]
                           /\ table' = (table \/ ok)
    /\ UNCHANGED <<rows, purged, gen, lastId, guard, blocked, pc, started, firstCall, reply, job,
                   intent, verdict, broker>>

Step(c) ==
    \/ Acquire(c) \/ CheckRotation(c) \/ Archive(c) \/ InitDb(c) \/ Append(c) \/ AppendFails(c)
    \/ SendRequest(c) \/ FailsBeforeSend(c)
    \/ Confirmed(c) \/ Rejected(c) \/ LostResponse(c) \/ Interrupted(c)
    \/ InverseReturns(c)
    \/ FinishWrite(c) \/ FinishFails(c)

Next ==
    \/ \E c \in Callers : BeginOther(c) \/ BeginWrite(c) \/ RefuseWrite(c) \/ Step(c)
    \/ \E k \in inflight : BrokerApplies(k) \/ RequestLost(k)
    \/ \E i \in 1 .. lastId : Reconcile(i)
    \/ \E p \in Procs : Stop(p) \/ Start(p)

Spec == Init /\ [][Next]_vars

\* A thread that is in a call runs on: every wait of the code ends (busy and client
\* timeouts), and the guard is released by whoever holds it.  Each of its steps moves pc.
Fairness == \A c \in Callers : WF_pc(Step(c))

FairSpec == Spec /\ Fairness

-----------------------------------------------------------------------------
(***************************************************************************)
(* Properties.                                                             *)
(***************************************************************************)
AllRows    == rows \cup purged
IntentRows == {r \in AllRows : r.job = "intent"}

\* Every variable has its type: what the files, the processes and the broker hold.
TypeOK ==
    /\ rows \subseteq Row /\ purged \subseteq Row
    /\ gen \in Nat /\ lastId \in Nat /\ table \in BOOLEAN
    /\ guard \subseteq Callers
    /\ up \in [Procs -> BOOLEAN]
    /\ engineOk \in [Procs -> BOOLEAN]
    /\ blocked \in [Procs -> BOOLEAN]
    /\ pc \in [Callers -> PC]
    /\ started \in [Callers -> Nat]
    /\ firstCall \in [Callers -> Nat]
    /\ job \in [Callers -> Job]
    /\ intent \in [Callers -> Nat]
    /\ verdict \in [Callers -> Final]
    /\ reply \in [Callers -> Reply]
    /\ inflight \subseteq Call /\ applied \subseteq Call
    /\ \A c \in Callers : /\ started[c] <= MaxCalls[c]
                          /\ pc[c] # "idle" => started[c] > 0

\* No request leaves for the broker, and nothing takes effect there, without a
\* committed intent row of that very call, whatever crashes or is rotated since.
WriteAhead == inflight \cup applied \subseteq {r.call : r \in IntentRows}

\* While a write executes, the id its process holds names its own pending row in
\* the current file: no rotation moves the row away, no id reused by a new file and
\* no reconciliation can make finish_write miss it or hit another write's row.
OwnIntentPending ==
    \A c \in Callers : pc[c] \in {"send", "sent", "finish"} =>
        [gen |-> gen, id |-> intent[c], call |-> ThisCall(c), job |-> "intent",
         status |-> "pending"] \in rows

\* Rotation never archives an unresolved intent, where neither its own process nor
\* reconcile_pending could resolve it any more.
NoPendingArchived == \A r \in AllRows : r.gen < gen \/ r \in purged => r.status # "pending"

\* A process that could not resolve an intent begins no further write, so that in one
\* lifetime of a process the intents a thread has open are of one call: its own, and
\* that of the inverse it runs if that call is an undo_apply.
OneOpenCallPerLifetime ==
    \A r, s \in Pending(rows) :
        /\ Within[r.call[1]] = Within[s.call[1]]
        /\ r.call[2] > firstCall[r.call[1]]
        /\ s.call[2] > firstCall[s.call[1]]
        => r.call[2] = s.call[2]

\* The verdict of a row comes from the process that executed the call, about that
\* call, unless nobody executed it any more and an operator reconciled it.
ResolvedByOwner(r, s) == \E c \in Callers : /\ r.call = ThisCall(c)
                                           /\ pc[c] = "finish" /\ pc'[c] = "idle"
                                           /\ s.status = verdict[c]

RightlyResolved == \A r \in Pending(rows), s \in rows' :
                       (s.gen = r.gen /\ s.id = r.id /\ s.status # "pending") =>
                           \/ ~Executing(r) /\ s.status = "unknown"
                           \/ ResolvedByOwner(r, s)

OnlyOwnerResolves == [][RightlyResolved]_vars

\* GovernedWrite keeps the promises of WriteIntentLog: intents first, requests only
\* under an open intent, verdicts given once and never changed or forgotten by a
\* rotation.
W == INSTANCE WriteIntentLog WITH
        Call      <- Call,
        Verdict   <- Final,
        intended  <- {r.call : r \in IntentRows},
        requested <- inflight,
        effected  <- applied,
        resolved  <- {<<r.call, r.status>> : r \in IntentRows \ Pending(IntentRows)}

ImplementsWriteIntentLog == W!Spec

\* Every governed call ends: no thread waits forever for the rotation guard, whoever
\* crashed, failed or rotated while holding it.  MaxCalls bounds the calls, so this says
\* that from some point on no thread is in one.
EveryCallEnds == <>[](\A c \in Callers : pc[c] = "idle")

\* A call and, if it is an undo_apply, the inverse it ran.
Parts(k) == {k} \cup {<<d, k[2]>> : d \in Nested(k[1])}

\* tests/test_governance_persistence.py:248 "a lost response must not be recorded as
\* a definite failure": a row that says 'error' is about a write that did not happen.
ErrorMeansNotApplied ==
    \A r \in IntentRows : r.status = "error" => Parts(r.call) \cap (inflight \cup applied) = {}

\* governance/outcome.py:15 "a row that confidently states the wrong outcome is worse
\* than a missing one": a row that says 'ok' is about a write that took effect.
OkMeansApplied == \A r \in IntentRows : r.status = "ok" => Parts(r.call) \cap applied # {}
=============================================================================
