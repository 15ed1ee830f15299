-------------------------- MODULE ReversibleWrites ---------------------------
(***************************************************************************)
(* The reversible broker writes (ops/writes.py), the undo tokens they      *)
(* leave in undo.db (governance/undo.py) and undo_apply, which dispatches  *)
(* a token's inverse (mcp_server/tools/undo.py).  Several workers, threads *)
(* of the server and CLI processes, write to the same resources, and so do *)
(* other clients of the broker.                                            *)
(*                                                                         *)
(* A resource is a config parameter, a queue or a policy; its value is the *)
(* parameter's value or the definition.  A write sets the value or deletes *)
(* the resource; the inverse of a write is again a write, through the same *)
(* tools, and leaves a token of its own.  Dry runs and calls refused by a  *)
(* guard touch neither the broker nor the tokens and are left out.         *)
(***************************************************************************)
EXTENDS Integers

CONSTANTS
    Workers,      \* the threads and processes that call tools
    Resources,
    Kind,         \* "config", "queue" or "policy", for each resource
    Values,       \* parameter values and definitions
    Absent,       \* the value of a resource that does not exist
    Clip,         \* what a fetched before-state keeps of a value: opt(..., 128)
    MaxCalls,     \* bound: how many writes the workers make
    MaxOthers     \* bound: how many changes other clients of the broker make

ASSUME ResourcesAssumption == /\ Kind \in [Resources -> {"config", "queue", "policy"}]
                              /\ Clip \in [Values -> Values]
                              /\ Absent \notin Values
ASSUME BoundsAssumption == MaxCalls \in Nat /\ MaxOthers \in Nat

State  == Values \cup {Absent}
\* Set res to a value, or delete it; nobody deletes a config parameter.
Write  == {wr \in [res : Resources, to : State] :
              Kind[wr.res] = "config" => wr.to # Absent}
None   == 0                        \* what a call undoes that is not an undo
CallId == 1 .. MaxCalls

Request == [call : CallId, write : Write, undoes : {None} \cup CallId]
Effect  == [call : CallId, write : Write, undoes : {None} \cup CallId,
            over : State]          \* the value the broker really replaced
Token   == [id : CallId,           \* the write it can undo
            inverse : Write,
            seen : State,          \* the before-state that write fetched
            status : {"recorded", "applied"}]

Report  == CallId \X {"ok", "error"} \X {"returned", "raised", "interrupted"}

Idle == [step |-> "idle"]
Job  == [step : {"fetch", "sent", "mark"}, call : CallId, write : Write,
         undoes : {None} \cup CallId, seen : State]

VARIABLES
    value,     \* the broker: the value of every resource
    requests,  \* requests on their way to the broker
    effects,   \* history: the requests it carried out
    tokens,    \* the rows of undo.db
    calls,     \* how many writes were begun
    others,    \* how many changes other clients made
    job,       \* each worker's current write
    reports    \* history: <<call, audit status, how>> of every undo_apply that ended

vars == <<value, requests, effects, tokens, calls, others, job, reports>>

Init ==
    /\ value \in [Resources -> State]
    /\ \A r \in Resources : Kind[r] = "config" => value[r] # Absent
    /\ requests = {} /\ effects = {} /\ tokens = {} /\ reports = {}
    /\ calls = 0 /\ others = 0
    /\ job = [w \in Workers |-> Idle]

-----------------------------------------------------------------------------
(***************************************************************************)
(* The inverse of a write, from what it fetched (the _*_undo callables).   *)
(***************************************************************************)
\* Mutant: _declare_queue_undo does not ask whether the queue existed before.
AlwaysUndoable(wr, was) == TRUE

\* declare_queue on a queue that existed changed nothing and records no undo.
Undoable(wr, was) == ~(Kind[wr.res] = "queue" /\ wr.to # Absent /\ was # Absent)

\* The opposite of what was done to a queue; a parameter's or policy's before-state
\* put back, through the clipped copy of it, or removed again if there was none.
Inverse(wr, was) ==
    [res |-> wr.res,
     to |-> CASE Kind[wr.res] = "queue" -> IF wr.to = Absent THEN was ELSE Absent
              [] Kind[wr.res] # "queue" -> IF was = Absent THEN Absent ELSE Clip[was]]

-----------------------------------------------------------------------------
Begin(w, wr, t) ==
    /\ job[w] = Idle
    /\ calls < MaxCalls
    /\ calls' = calls + 1
    /\ job' = [job EXCEPT ![w] = [step |-> "fetch", call |-> calls + 1, write |-> wr,
                                  undoes |-> t, seen |-> Absent]]
    /\ UNCHANGED <<value, requests, effects, tokens, others, reports>>

\* redis_config_set, declare_queue, delete_queue, set_policy, delete_policy.
BeginWrite(w) == \E wr \in Write : Begin(w, wr, None)

\* undo_apply up to the dispatch of the inverse tool: the token is not applied yet.
BeginUndo(w) == \E t \in tokens : t.status = "recorded" /\ Begin(w, t.inverse, t.id)

\* The end of a call: it returned, raised or was interrupted.  undo_apply's own audit
\* row gets its status here.
End(w, status, how) ==
    /\ job' = [job EXCEPT ![w] = Idle]
    /\ reports' = IF job[w].undoes = None THEN reports
                  ELSE reports \cup {<<job[w].call, status, how>>}

\* Fetch the before-state, then send the request.
Fetch(w) ==
    /\ job[w].step = "fetch"
    /\ LET r == job[w].write.res
       IN  /\ job[w].write.to = Absent => value[r] # Absent
           /\ job' = [job EXCEPT ![w].step = "sent", ![w].seen = value[r]]
    /\ requests' = requests \cup {[call |-> job[w].call, write |-> job[w].write,
                                   undoes |-> job[w].undoes]}
    /\ UNCHANGED <<value, effects, tokens, calls, others, reports>>

\* Mutant: an error payload counts as a result and its undo is recorded.
FailRecorded(w) ==
    /\ job[w].step = "sent"
    /\ tokens' = tokens \cup {[id |-> job[w].call, seen |-> job[w].seen,
                               inverse |-> Inverse(job[w].write, job[w].seen),
                               status |-> "recorded"]}
    /\ End(w, "ok", "returned")
    /\ UNCHANGED <<value, requests, effects, calls, others>>

\* Mutant: undo_apply marks the token whatever the inverse returned.
FailMarked(w) ==
    /\ job[w].step \in {"fetch", "sent"}
    /\ tokens' = {IF t.id = job[w].undoes THEN [t EXCEPT !.status = "applied"] ELSE t :
                     t \in tokens}
    /\ End(w, "ok", "returned")
    /\ UNCHANGED <<value, requests, effects, calls, others>>

\* Mutant: undo_apply takes a token whose inverse failed back to 'recorded'.
FailReopened(w) ==
    /\ job[w].step \in {"fetch", "sent"}
    /\ tokens' = {IF t.id = job[w].undoes THEN [t EXCEPT !.status = "recorded"] ELSE t :
                     t \in tokens}
    /\ End(w, "ok", "returned")
    /\ UNCHANGED <<value, requests, effects, calls, others>>

\* The tool returns an error payload: the resource is missing, the broker refused or
\* did not answer in time.  No token is recorded or marked, and undo_apply returns
\* the payload inside an {"applied": False} of its own.
Fail(w) ==
    /\ job[w].step \in {"fetch", "sent"}
    /\ End(w, "ok", "returned")
    /\ UNCHANGED <<value, requests, effects, tokens, calls, others>>

\* The governance of the call raises, before or after its tool ran (no audit storage,
\* budget): so does undo_apply, which is audited as an error.
Raise(w) ==
    /\ job[w] # Idle
    /\ End(w, "error", "raised")
    /\ UNCHANGED <<value, requests, effects, tokens, calls, others>>

\* KeyboardInterrupt or SystemExit at any point of the call: no handler sees it, and
\* the governance writes its row from the status the call began with.
Interrupt(w) ==
    /\ job[w] # Idle
    /\ End(w, "ok", "interrupted")
    /\ UNCHANGED <<value, requests, effects, tokens, calls, others>>

\* The confirmed result and _record_undo, whose failure is swallowed.
Confirm(w) ==
    /\ job[w].step = "sent"
    /\ \E e \in effects : e.call = job[w].call
    /\ \E new \in {{}, {[id |-> job[w].call, seen |-> job[w].seen,
                         inverse |-> Inverse(job[w].write, job[w].seen),
                         status |-> "recorded"]}} :
          /\ new # {} => Undoable(job[w].write, job[w].seen)
          /\ tokens' = tokens \cup new
    /\ IF job[w].undoes = None
       THEN End(w, "ok", "returned")
       ELSE job' = [job EXCEPT ![w].step = "mark"] /\ UNCHANGED reports
    /\ UNCHANGED <<value, requests, effects, calls, others>>

\* store.mark(undo_id, "applied"), whatever the token's status is by now.
Mark(w) ==
    /\ job[w].step = "mark"
    /\ tokens' = {IF t.id = job[w].undoes THEN [t EXCEPT !.status = "applied"] ELSE t :
                     t \in tokens}
    /\ End(w, "ok", "returned")
    /\ UNCHANGED <<value, requests, effects, calls, others>>

\* The worker's process dies.
Crash(w) ==
    /\ job[w] # Idle
    /\ job' = [job EXCEPT ![w] = Idle]
    /\ UNCHANGED <<value, requests, effects, tokens, calls, others, reports>>

-----------------------------------------------------------------------------
(***************************************************************************)
(* The broker, as the code relies on it.                                   *)
(***************************************************************************)
\* It refuses to delete what is missing, and to redeclare a queue differently.
Accepts(wr) ==
    /\ wr.to = Absent => value[wr.res] # Absent
    /\ Kind[wr.res] = "queue" /\ wr.to # Absent => value[wr.res] \in {Absent, wr.to}

CarryOut(q) ==
    /\ Accepts(q.write)
    /\ value' = [value EXCEPT ![q.write.res] = q.write.to]
    /\ requests' = requests \ {q}
    /\ effects' = effects \cup {[call |-> q.call, write |-> q.write, undoes |-> q.undoes,
                                 over |-> value[q.write.res]]}
    /\ UNCHANGED <<tokens, calls, others, job, reports>>

\* Refused by the broker, or lost on the way.
Drop(q) ==
    /\ requests' = requests \ {q}
    /\ UNCHANGED <<value, effects, tokens, calls, others, job, reports>>

\* Another client of the broker.
OtherWrites ==
    /\ others < MaxOthers
    /\ others' = others + 1
    /\ \E wr \in Write : value' = [value EXCEPT ![wr.res] = wr.to]
    /\ UNCHANGED <<requests, effects, tokens, calls, job, reports>>

Next ==
    \/ \E w \in Workers : \/ BeginWrite(w) \/ BeginUndo(w) \/ Fetch(w) \/ Fail(w)
                          \/ Raise(w) \/ Interrupt(w) \/ Confirm(w) \/ Mark(w) \/ Crash(w)
    \/ \E q \in requests : CarryOut(q) \/ Drop(q)
    \/ OtherWrites

Spec == Init /\ [][Next]_vars

-----------------------------------------------------------------------------
(***************************************************************************)
(* Properties.                                                             *)
(***************************************************************************)

\* Every variable has its type, and calls are numbered in the order they begin.
TypeOK ==
    /\ value \in [Resources -> State]
    /\ requests \subseteq Request
    /\ effects \subseteq Effect
    /\ tokens \subseteq Token
    /\ calls \in 0 .. MaxCalls /\ others \in 0 .. MaxOthers
    /\ job \in [Workers -> Job \cup {Idle}]
    /\ reports \subseteq Report

\* A token can be applied only if its write changed the broker: no failed, refused or
\* lost write leaves a token that would undo a change that never happened.
TokenHasEffect == \A t \in tokens : \E e \in effects : e.call = t.id /\ e.write.res = t.inverse.res

\* A token that says 'applied' was applied: its inverse was carried out, although
\* several workers apply it at once, fail half way or lose their answers.
AppliedMeansInverted ==
    \A t \in tokens : t.status = "applied" => \E e \in effects : e.undoes = t.id

Restores ==
    \A e \in effects, f \in effects' \ effects, t \in tokens :
        e.call = t.id /\ f.undoes = t.id /\ t.seen = e.over => value'[t.inverse.res] = e.over

\* Carrying out an inverse puts back the value its write replaced, if nobody changed
\* the resource between the fetch and the write.
UndoRestores == [][Restores]_vars

Applied == {t \in tokens : t.status = "applied"}

\* Tokens keep the promises of UndoLog: a token stands for a change that was made, its
\* inverse never changes, undo_apply makes that inverse and nothing else, and 'applied'
\* comes after it and stays, although workers race, fail and die.
U == INSTANCE UndoLog WITH
        Call     <- CallId,
        Resource <- Resources,
        Value    <- State,
        resource <- value,
        changed  <- {e.call : e \in effects},
        promised <- {<<t.id, t.inverse>> : t \in tokens},
        inverted <- {e.undoes : e \in effects} \ {None},
        settled  <- {t.id : t \in Applied}

ImplementsUndoLog == U!Spec

\* mcp_server/tools/undo.py:124 "A token can only be applied once."
OncePerToken ==
    \A e, f \in effects : e.undoes = f.undoes /\ e.undoes # None => e = f

\* governance/decorators.py:403 "A sanitized failure ... must not be audited as
\* success": an undo_apply that returned and is audited as ok has put its inverse to
\* the broker.
FailedUndoNotOk ==
    \A r \in reports :
       r[2] = "ok" /\ r[3] = "returned" => \E e \in effects : e.call = r[1]
=============================================================================
