------------------------ MODULE GovernedWriteProofs ------------------------
(***************************************************************************)
(* TLAPS proofs about GovernedWrite, for any callers, processes, bounds    *)
(* and archive count.  From the intents on the guard must exclude every    *)
(* caller: fcntl is there, or all callers are threads of one process.      *)
(*                                                                         *)
(* The invariants are proved in layers, each with the ones before it:      *)
(* types, the guard, the identity of rows, the intents.                    *)
(***************************************************************************)
EXTENDS GovernedWrite, TLAPS

SingleGuard == HasFlock \/ \A c, d \in Callers : ProcOf[c] = ProcOf[d]

InGuard == {"guarded", "rotate", "init", "append"}
InCall  == {"send", "sent", "finish"}

-----------------------------------------------------------------------------
(***************************************************************************)
(* Facts about the operators.                                              *)
(***************************************************************************)

\* The call a caller is in is one of the calls: the id under which its row, its
\* request and its effect are known.
LEMMA ThisCallType ==
    ASSUME TypeOK, NEW c \in Callers, pc[c] # "idle"
    PROVE  ThisCall(c) \in Call
<1>1. started[c] \in 1 .. MaxCalls[c]
  BY BoundsAssumption DEF TypeOK
<1>2. ThisCall(c) \in {c} \X (1 .. MaxCalls[c])
  BY <1>1 DEF ThisCall
<1> QED
  BY <1>2 DEF Call

\* A call is a caller and a number.
LEMMA CallParts ==
    \A k \in Call : k = <<k[1], k[2]>> /\ k[1] \in Callers /\ k[2] \in 1 .. MaxCalls[k[1]]
BY DEF Call

\* The UPDATE of finish_write and reconcile_pending gives the row it matches the new
\* status and leaves everything else of every row alone.
LEMMA UpdatedRow ==
    ASSUME NEW r \in Row, NEW i, NEW v \in Final
    PROVE  /\ Updated(r, i, v) \in Row
           /\ Updated(r, i, v).gen = r.gen /\ Updated(r, i, v).id = r.id
           /\ Updated(r, i, v).call = r.call /\ Updated(r, i, v).job = r.job
           /\ ~Matches(r, i) => Updated(r, i, v) = r
           /\ Matches(r, i) => Updated(r, i, v).status = v
<1>1. v \in Status
  BY DEF Status, Final
<1>2. CASE Matches(r, i)
  BY <1>1, <1>2 DEF Updated, Row
<1>3. CASE ~Matches(r, i)
  BY <1>3 DEF Updated
<1> QED
  BY <1>2, <1>3

\* Who runs in whose tool body: nesting is one level deep, a thread has at most one
\* nested caller, and that one runs in the thread's process.
LEMMA NestingFacts ==
    ASSUME NEW c \in Callers
    PROVE  /\ Within[c] \in Callers /\ ~IsNested(Within[c])
           /\ ProcOf[Within[c]] = ProcOf[c]
           /\ \A d \in Nested(c) : d \in Callers /\ IsNested(d) /\ Within[d] = c /\ Nested(d) = {}
           /\ \A d, e \in Nested(c) : d = e
           /\ IsNested(c) => c \in Nested(Within[c])
BY NestingAssumption DEF IsNested, Nested

\* A call that begins gets a number its caller never had, and no other caller's changes.
LEMMA NewNumber ==
    ASSUME NEW c \in Callers, started \in [Callers -> Nat], NewCall(c)
    PROVE  /\ started' = [started EXCEPT ![c] = CallNumber(c)]
           /\ CallNumber(c) \in Nat /\ CallNumber(c) > started[c]
           /\ CallNumber(c) <= MaxCalls[c]
           /\ started'[c] = CallNumber(c)
           /\ \A d \in Callers : d # c => started'[d] = started[d] /\ ThisCall(d)' = ThisCall(d)
<1>1. CallNumber(c) \in Nat /\ CallNumber(c) > started[c] /\ CallNumber(c) <= MaxCalls[c]
  BY NestingFacts, BoundsAssumption DEF NewCall, CallNumber
<1> QED
  BY <1>1 DEF NewCall, ThisCall

\* Whatever the inverse gave back, undo_apply's tool body ends with some signal.
LEMMA InverseEnds ==
    ASSUME NEW c \in Callers, InverseReturns(c)
    PROVE  pc[c] = "send" /\ UNCHANGED broker /\ \E sig : Ends(c, sig)
BY DEF InverseReturns

-----------------------------------------------------------------------------
(***************************************************************************)
(* Types.                                                                  *)
(***************************************************************************)

\* The verdict the tool body's signal leads to is a final status.
LEMMA VerdictType == \A sig : VerdictOf(sig) \in Final
BY DEF VerdictOf, FinalStatus, Final

\* So is what a nested call answers with.
LEMMA AnswerType ==
    ASSUME reply \in [Callers -> Reply], NEW c \in Callers, NEW a, Answer(c, a),
           a = "raised" \/ \E sig : a = Payload(Translate(sig))
    PROVE  reply' \in [Callers -> Reply]
<1>1. a \in Reply
  BY DEF Reply, Payload
<1> QED
  BY <1>1 DEF Answer

\* Returning from the wrapper keeps types and touches no other caller.
LEMMA ReturnType ==
    ASSUME TypeOK, NEW c \in Callers, Return(c)
    PROVE  /\ pc' \in [Callers -> PC] /\ job' \in [Callers -> Job]
           /\ intent' \in [Callers -> Nat] /\ verdict' \in [Callers -> Final]
           /\ \A d \in Callers : pc'[d] # "idle" => pc[d] # "idle"
           /\ pc' = [pc EXCEPT ![c] = "idle"]
           /\ job' = [job EXCEPT ![c] = "record"]
BY DEF TypeOK, Return, Goto, PC, Job, Final

\* Going on to the record row leaves the call at its first step or, without an engine,
\* returned; other callers are not touched.
LEMMA RecordType ==
    ASSUME TypeOK, NEW c \in Callers, Record(c)
    PROVE  /\ pc' \in [Callers -> PC] /\ job' \in [Callers -> Job]
           /\ intent' \in [Callers -> Nat] /\ verdict' \in [Callers -> Final]
           /\ \A d \in Callers : d # c => pc'[d] = pc[d]
           /\ pc'[c] \in {"idle", "want"}
           /\ job' = [job EXCEPT ![c] = "record"]
BY DEF TypeOK, Record, Return, Goto, PC, Job, Final

\* Starting a call keeps the count within the bound.
LEMMA NewCallType ==
    ASSUME TypeOK, NEW c \in Callers, NewCall(c)
    PROVE  /\ started' \in [Callers -> Nat]
           /\ \A d \in Callers : /\ started'[d] <= MaxCalls[d]
                                 /\ pc[d] # "idle" => started'[d] > 0
           /\ started'[c] > 0
           /\ pc[c] = "idle"
           /\ reply' \in [Callers -> Reply]
<1>1. /\ started \in [Callers -> Nat]
      /\ \A d \in Callers : /\ started[d] \in Nat /\ MaxCalls[d] \in Nat
                            /\ started[d] <= MaxCalls[d]
                            /\ pc[d] # "idle" => started[d] > 0
  BY BoundsAssumption DEF TypeOK
<1>2. pc[c] = "idle" /\ Answer(c, "raised")
  BY DEF NewCall
<1>3. reply' \in [Callers -> Reply]
  BY <1>2, AnswerType DEF TypeOK
<1> QED
  BY <1>1, <1>2, <1>3, NewNumber

\* Every variable keeps its type, and no caller makes more calls than it may.
THEOREM Typing == Spec => []TypeOK
<1>1. Init => TypeOK
  BY BoundsAssumption DEF Init, TypeOK, PC, Job, Final, Reply
<1>2. TypeOK /\ [Next]_vars => TypeOK'
  <2> SUFFICES ASSUME TypeOK, [Next]_vars PROVE TypeOK'
    OBVIOUS
  <2> USE DEF TypeOK, disk, proc, broker
  <2>1. ASSUME NEW c \in Callers, BeginOther(c) PROVE TypeOK'
    BY <2>1, RecordType, NewCallType DEF BeginOther
  <2>2. ASSUME NEW c \in Callers, BeginWrite(c) PROVE TypeOK'
    BY <2>2, NewCallType DEF BeginWrite, Goto, PC, Job
  <2>3. ASSUME NEW c \in Callers, RefuseWrite(c) PROVE TypeOK'
    BY <2>3, RecordType, NewCallType DEF RefuseWrite, Block, Final
  <2>4. ASSUME NEW c \in Callers, Acquire(c) PROVE TypeOK'
    BY <2>4 DEF Acquire, Goto, PC
  <2>5. ASSUME NEW c \in Callers, CheckRotation(c) PROVE TypeOK'
    BY <2>5 DEF CheckRotation, Goto, PC
  <2>6. ASSUME NEW c \in Callers, Archive(c) PROVE TypeOK'
    <3>1. table' = FALSE /\ gen' \in Nat /\ lastId' \in Nat
      BY <2>6 DEF Archive
    <3>2. pc' = [pc EXCEPT ![c] = "init"] /\ pc[c] = "rotate"
      BY <2>6 DEF Archive, Goto
    <3>3. /\ pc' \in [Callers -> PC]
          /\ \A d \in Callers : pc'[d] # "idle" => pc[d] # "idle"
      BY <3>2 DEF PC
    <3> QED
      BY <2>6, <3>1, <3>3 DEF Archive
  <2>7. ASSUME NEW c \in Callers, InitDb(c) PROVE TypeOK'
    BY <2>7 DEF InitDb, Goto, PC
  <2>8. ASSUME NEW c \in Callers, Append(c) PROVE TypeOK'
    <3>1. [gen |-> gen, id |-> lastId + 1, call |-> ThisCall(c), job |-> job[c],
           status |-> IF job[c] = "intent" THEN "pending" ELSE verdict[c]] \in Row
      BY <2>8, ThisCallType DEF Append, Row, Status, Final
    <3>2. rows' \subseteq Row /\ lastId' \in Nat /\ guard' \subseteq Callers
      BY <2>8, <3>1 DEF Append
    <3>3. CASE job[c] = "intent"
      BY <2>8, <3>2, <3>3 DEF Append, Goto, PC
    <3>4. CASE job[c] # "intent"
      BY <2>8, <3>2, <3>4, ReturnType DEF Append
    <3> QED
      BY <3>3, <3>4
  <2>9. ASSUME NEW c \in Callers, AppendFails(c) PROVE TypeOK'
    <3>1. CASE job[c] = "intent"
      BY <2>9, <3>1, RecordType DEF AppendFails, Block, Final
    <3>2. CASE job[c] # "intent"
      BY <2>9, <3>2, ReturnType DEF AppendFails
    <3> QED
      BY <3>1, <3>2
  <2>10. ASSUME NEW c \in Callers, SendRequest(c) PROVE TypeOK'
    BY <2>10, ThisCallType DEF SendRequest, Goto, PC
  <2>11. ASSUME NEW c \in Callers, NEW sig, Ends(c, sig), pc[c] # "idle",
                inflight' \subseteq inflight, applied' = applied
         PROVE  TypeOK'
    <3>1. reply' \in [Callers -> Reply]
      BY <2>11, AnswerType DEF Ends
    <3> QED
      BY <2>11, <3>1, VerdictType DEF Ends, Goto, PC
  <2>12. ASSUME NEW c \in Callers, FinishWrite(c) PROVE TypeOK'
    BY <2>12, UpdatedRow, ReturnType DEF FinishWrite, SetStatus
  <2>13. ASSUME NEW c \in Callers, FinishFails(c) PROVE TypeOK'
    <3>1. reply' \in [Callers -> Reply]
      BY <2>13, AnswerType DEF FinishFails
    <3> QED
      BY <2>13, <3>1, ReturnType DEF FinishFails, Block
  <2>14. ASSUME NEW k \in inflight, BrokerApplies(k) \/ RequestLost(k) PROVE TypeOK'
    BY <2>14 DEF BrokerApplies, RequestLost
  <2>15. ASSUME NEW i \in 1 .. lastId, Reconcile(i) PROVE TypeOK'
    BY <2>15, UpdatedRow DEF Reconcile, SetStatus, Final
  <2>16. ASSUME NEW p \in Procs, Stop(p) PROVE TypeOK'
    BY <2>16 DEF Stop, InProc, PC, Job, Final
  <2>17. ASSUME NEW p \in Procs, Start(p) PROVE TypeOK'
    BY <2>17 DEF Start
  <2>18. CASE UNCHANGED vars
    BY <2>18 DEF vars
  <2> QED
    BY <2>1, <2>2, <2>3, <2>4, <2>5, <2>6, <2>7, <2>8, <2>9, <2>10, <2>11, <2>12, <2>13,
       <2>14, <2>15, <2>16, <2>17, <2>18, InverseEnds
       DEF Next, Step, FailsBeforeSend, Confirmed, Rejected, LostResponse, Interrupted
<1> QED
  BY <1>1, <1>2, PTL DEF Spec

-----------------------------------------------------------------------------
(***************************************************************************)
(* The rotation guard.                                                     *)
(***************************************************************************)
GuardInv ==
    /\ \A c \in Callers : c \in guard <=> pc[c] \in InGuard
    /\ \A c, d \in guard : c = d

\* At most one caller at a time is between taking the rotation guard and its INSERT,
\* across the processes, and nobody leaves without releasing it.
THEOREM GuardExclusive == SingleGuard => (Spec => []GuardInv)
<1> SUFFICES ASSUME SingleGuard PROVE Spec => []GuardInv
  OBVIOUS
<1>1. Init => GuardInv
  BY DEF Init, GuardInv, InGuard
<1>2. TypeOK /\ GuardInv /\ [Next]_vars => GuardInv'
  <2> SUFFICES ASSUME TypeOK, GuardInv, [Next]_vars PROVE GuardInv'
    OBVIOUS
  <2> USE DEF GuardInv, InGuard
  <2>0. pc \in [Callers -> PC] /\ guard \subseteq Callers
    BY DEF TypeOK
  <2>1. ASSUME NEW c \in Callers, BeginOther(c) \/ BeginWrite(c) \/ RefuseWrite(c)
        PROVE  GuardInv'
    <3>1. guard' = guard /\ pc[c] = "idle"
      BY <2>1 DEF BeginOther, BeginWrite, RefuseWrite, NewCall
    <3>2. \A d \in Callers : d # c => pc'[d] = pc[d]
      BY <2>0, <2>1, RecordType DEF BeginOther, BeginWrite, RefuseWrite, Goto, Final
    <3>3. pc'[c] \in {"idle", "want"}
      BY <2>0, <2>1, RecordType DEF BeginOther, BeginWrite, RefuseWrite, Goto, Final
    <3> QED
      BY <3>1, <3>2, <3>3
  <2>2. ASSUME NEW c \in Callers, Acquire(c) PROVE GuardInv'
    <3>1. guard = {}
      BY <2>0, <2>2 DEF Acquire, GuardFree, SingleGuard
    <3> QED
      BY <2>0, <2>2, <3>1 DEF Acquire, Goto
  <2>3. ASSUME NEW c \in Callers, CheckRotation(c) \/ Archive(c) \/ InitDb(c) PROVE GuardInv'
    BY <2>0, <2>3 DEF CheckRotation, Archive, InitDb, Goto
  <2>4. ASSUME NEW c \in Callers, Append(c) \/ AppendFails(c) PROVE GuardInv'
    <3>1. guard' = guard \ {c} /\ pc[c] = "append"
      BY <2>4 DEF Append, AppendFails
    <3>2. \A d \in Callers : d # c => pc'[d] = pc[d]
      BY <2>0, <2>4, RecordType, ReturnType DEF Append, AppendFails, Goto, Final
    <3>3. pc'[c] \in {"idle", "want", "send"}
      BY <2>0, <2>4, RecordType, ReturnType DEF Append, AppendFails, Goto, Final
    <3> QED
      BY <3>1, <3>2, <3>3
  <2>5. ASSUME NEW c \in Callers, SendRequest(c) PROVE GuardInv'
    BY <2>0, <2>5 DEF SendRequest, Goto
  <2>6. ASSUME NEW c \in Callers, NEW sig, Ends(c, sig), pc[c] \in {"send", "sent"}
        PROVE  GuardInv'
    BY <2>0, <2>6 DEF Ends, Goto
  <2>7. ASSUME NEW c \in Callers, FinishWrite(c) \/ FinishFails(c) PROVE GuardInv'
    BY <2>0, <2>7, ReturnType DEF FinishWrite, FinishFails
  <2>8. ASSUME NEW p \in Procs, Stop(p) PROVE GuardInv'
    BY <2>0, <2>8 DEF Stop, InProc
  <2>9. CASE guard' = guard /\ pc' = pc
    BY <2>9
  <2> QED
    BY <2>1, <2>2, <2>3, <2>4, <2>5, <2>6, <2>7, <2>8, <2>9, InverseEnds
       DEF Next, Step, vars, FailsBeforeSend, Confirmed, Rejected, LostResponse, Interrupted,
           BrokerApplies, RequestLost, Reconcile, Start
<1> QED
  BY <1>1, <1>2, Typing, PTL DEF Spec

-----------------------------------------------------------------------------
(***************************************************************************)
(* The identity of rows.                                                   *)
(***************************************************************************)
Asking == {"want"} \cup InGuard    \* the call has no row yet

RowsInv ==
    /\ \A r \in AllRows : r.call[2] <= started[r.call[1]]
    /\ \A c \in Callers : pc[c] \in Asking => \A r \in AllRows : r.call # ThisCall(c)
    /\ \A r, s \in AllRows : r.call = s.call => r = s
    /\ \A r, s \in AllRows : r.gen = s.gen /\ r.id = s.id => r = s
    /\ \A r \in AllRows : r.gen <= gen /\ (r.gen = gen => r.id <= lastId)
    /\ \A r \in purged : r.gen < gen

\* A step that inserts, archives, deletes and updates no row keeps RowsInv, if it lets
\* no call ask for a row that did not before.
LEMMA QuietRows ==
    ASSUME TypeOK, RowsInv, UNCHANGED <<rows, purged, gen, lastId, started>>,
           \A c \in Callers : pc'[c] \in Asking => pc[c] \in Asking
    PROVE  RowsInv'
BY DEF RowsInv, AllRows, ThisCall

\* A call that begins is newer than every row.
LEMMA NewCallRows ==
    ASSUME TypeOK, RowsInv, NEW c \in Callers, NewCall(c),
           UNCHANGED <<rows, purged, gen, lastId>>,
           \A d \in Callers : d # c => pc'[d] = pc[d]
    PROVE  RowsInv'
<1>1. /\ started \in [Callers -> Nat] /\ CallNumber(c) \in Nat /\ CallNumber(c) > started[c]
      /\ started'[c] = CallNumber(c)
      /\ \A d \in Callers : d # c => started'[d] = started[d]
  BY NewNumber DEF TypeOK
<1>2. \A r \in AllRows : /\ r.call[1] \in Callers /\ r.call[2] \in Nat
                         /\ r.call = <<r.call[1], r.call[2]>>
                         /\ r.call[2] <= started[r.call[1]]
  BY CallParts, BoundsAssumption DEF TypeOK, AllRows, Row, RowsInv
<1>3. \A r \in AllRows : r.call[2] <= started'[r.call[1]] /\ r.call # ThisCall(c)'
  BY <1>1, <1>2 DEF ThisCall
<1>4. \A d \in Callers : d # c => ThisCall(d)' = ThisCall(d)
  BY <1>1 DEF ThisCall
<1>5. AllRows' = AllRows
  BY DEF AllRows
<1> QED
  BY <1>3, <1>4, <1>5 DEF RowsInv

\* Setting a status changes no identity.
LEMMA UpdateRows ==
    ASSUME TypeOK, RowsInv, NEW i, NEW v \in Final, SetStatus(i, v),
           UNCHANGED <<purged, gen, lastId, started>>,
           \A c \in Callers : pc'[c] \in Asking => pc[c] \in Asking
    PROVE  RowsInv'
<1>1. \A r \in rows : r \in Row
  BY DEF TypeOK
<1>2. rows' = {Updated(r, i, v) : r \in rows}
  BY DEF SetStatus
<1>3. \A s \in rows' : \E r \in rows :
         s = Updated(r, i, v) /\ s.gen = r.gen /\ s.id = r.id /\ s.call = r.call
  BY <1>1, <1>2, UpdatedRow
<1>4. \A s \in AllRows' : \E r \in AllRows :
         /\ s.gen = r.gen /\ s.id = r.id /\ s.call = r.call
         /\ \/ r \in rows /\ s = Updated(r, i, v)
            \/ r \in purged /\ s = r
  BY <1>3 DEF AllRows
<1>5. \A r \in AllRows : r \in purged => r.gen < gen /\ r.gen # gen
  BY DEF RowsInv, TypeOK, Row
<1>6. \A r \in AllRows : r \in purged => Updated(r, i, v) = r
  BY <1>5 DEF Updated, Matches
<1>7. \A s \in AllRows' : \E r \in AllRows :
         s.gen = r.gen /\ s.id = r.id /\ s.call = r.call /\ s = Updated(r, i, v)
  BY <1>4, <1>6
<1> QED
  BY <1>7 DEF RowsInv, ThisCall

\* Rows are unique by call and by file and id, although every file numbers its rows
\* from 1 again, and a call that still asks for a row has none.
THEOREM RowIdentity == Spec => []RowsInv
<1>1. Init => RowsInv
  BY DEF Init, RowsInv, AllRows, Asking, InGuard
<1>2. TypeOK /\ RowsInv /\ [Next]_vars => RowsInv'
  <2> SUFFICES ASSUME TypeOK, RowsInv, [Next]_vars PROVE RowsInv'
    OBVIOUS
  <2> USE DEF Asking, InGuard, disk
  <2>0. pc \in [Callers -> PC]
    BY DEF TypeOK
  <2>1. ASSUME NEW c \in Callers, BeginOther(c) \/ BeginWrite(c) \/ RefuseWrite(c)
        PROVE  RowsInv'
    <3>1. NewCall(c) /\ UNCHANGED <<rows, purged, gen, lastId>>
      BY <2>1 DEF BeginOther, BeginWrite, RefuseWrite
    <3>2. \A d \in Callers : d # c => pc'[d] = pc[d]
      BY <2>0, <2>1, RecordType DEF BeginOther, BeginWrite, RefuseWrite, Goto, Final
    <3> QED
      BY <3>1, <3>2, NewCallRows
  <2>2. ASSUME NEW c \in Callers, Acquire(c) \/ CheckRotation(c) PROVE RowsInv'
    BY <2>0, <2>2, QuietRows DEF Acquire, CheckRotation, Goto
  <2>3. ASSUME NEW c \in Callers, Archive(c) PROVE RowsInv'
    <3>1. /\ gen' = gen + 1 /\ UNCHANGED <<rows, purged, started>>
          /\ pc' = [pc EXCEPT ![c] = "init"] /\ pc[c] = "rotate"
      BY <2>3 DEF Archive, Goto
    <3>2. \A r \in AllRows : r.gen \in Nat /\ gen \in Nat
      BY DEF TypeOK, AllRows, Row
    <3>3. \A r \in AllRows : r.gen < gen' /\ r.gen # gen' /\ r.gen <= gen'
      BY <3>1, <3>2 DEF RowsInv
    <3>4. \A d \in Callers : pc'[d] \in Asking => pc[d] \in Asking
      BY <2>0, <3>1
    <3> QED
      BY <3>1, <3>3, <3>4 DEF RowsInv, AllRows, ThisCall
  <2>4. ASSUME NEW c \in Callers, InitDb(c) PROVE RowsInv'
    <3>1. /\ UNCHANGED <<gen, lastId, started>>
          /\ pc' = [pc EXCEPT ![c] = "append"] /\ pc[c] = "init"
      BY <2>4 DEF InitDb, Goto
    <3>2. AllRows' = AllRows
      BY <2>4 DEF InitDb, AllRows
    <3>3. \A r \in purged' : r.gen < gen
      <4>1. \A r \in rows : r.gen < gen - KeepArchives => r.gen < gen
        BY BoundsAssumption DEF TypeOK, Row
      <4> QED
        BY <2>4, <4>1 DEF InitDb, RowsInv
    <3>4. \A d \in Callers : pc'[d] \in Asking => pc[d] \in Asking
      BY <2>0, <3>1
    <3> QED
      BY <3>1, <3>2, <3>3, <3>4 DEF RowsInv, ThisCall
  <2>5. ASSUME NEW c \in Callers, Append(c) PROVE RowsInv'
    <3> DEFINE new == [gen |-> gen, id |-> lastId + 1, call |-> ThisCall(c), job |-> job[c],
                       status |-> IF job[c] = "intent" THEN "pending" ELSE verdict[c]]
    <3>1. /\ rows' = rows \cup {new} /\ lastId' = lastId + 1 /\ pc[c] = "append"
          /\ UNCHANGED <<purged, gen, started>>
      BY <2>5 DEF Append
    <3>2. AllRows' = AllRows \cup {new}
      BY <3>1 DEF AllRows
    <3>3. \A r \in AllRows : r.id \in Nat /\ lastId \in Nat /\ r.gen \in Nat /\ gen \in Nat
      BY DEF TypeOK, AllRows, Row
    <3>4. \A r \in AllRows : /\ r.call # new.call
                             /\ ~(r.gen = new.gen /\ r.id = new.id)
                             /\ r.gen = gen => r.id <= lastId'
      BY <3>1, <3>3 DEF RowsInv
    <3>5. new.call[2] = started[c] /\ new.call[1] = c /\ started[c] <= started[c]
      BY DEF ThisCall, TypeOK
    <3>6. /\ \A d \in Callers : d # c => pc'[d] = pc[d] /\ ThisCall(d) # new.call
          /\ pc'[c] \notin Asking
      BY <2>0, <2>5, ReturnType DEF Append, Goto, ThisCall
    <3>7. new.gen = gen /\ new.id = lastId' /\ gen <= gen /\ lastId' <= lastId'
      BY <3>1 DEF TypeOK
    <3> HIDE DEF new
    <3>8. \A r \in AllRows' : r.call[2] <= started[r.call[1]]
      BY <3>2, <3>5 DEF RowsInv
    <3>9. \A d \in Callers : pc'[d] \in Asking => \A r \in AllRows' : r.call # ThisCall(d)
      BY <3>2, <3>6 DEF RowsInv
    <3>10. \A d \in Callers : ThisCall(d)' = ThisCall(d)
      BY <3>1 DEF ThisCall
    <3> QED
      BY <3>1, <3>2, <3>4, <3>7, <3>8, <3>9, <3>10 DEF RowsInv
  <2>6. ASSUME NEW c \in Callers, AppendFails(c) PROVE RowsInv'
    <3>1. \A d \in Callers : d # c => pc'[d] = pc[d]
      BY <2>0, <2>6, RecordType, ReturnType DEF AppendFails, Final
    <3> QED
      BY <2>6, <3>1, QuietRows DEF AppendFails
  <2>7. ASSUME NEW c \in Callers, SendRequest(c) PROVE RowsInv'
    BY <2>0, <2>7, QuietRows DEF SendRequest, Goto
  <2>8. ASSUME NEW c \in Callers, NEW sig, Ends(c, sig) PROVE RowsInv'
    BY <2>0, <2>8, QuietRows DEF Ends, Goto
  <2>9. ASSUME NEW c \in Callers, FinishWrite(c) PROVE RowsInv'
    <3>1. /\ SetStatus(intent[c], verdict[c]) /\ verdict[c] \in Final
          /\ UNCHANGED <<purged, gen, lastId, started>>
          /\ pc' = [pc EXCEPT ![c] = "idle"]
      BY <2>9, ReturnType DEF FinishWrite, TypeOK
    <3> QED
      BY <2>0, <3>1, UpdateRows
  <2>10. ASSUME NEW c \in Callers, FinishFails(c) PROVE RowsInv'
    BY <2>0, <2>10, ReturnType, QuietRows DEF FinishFails
  <2>11. ASSUME NEW i \in 1 .. lastId, Reconcile(i) PROVE RowsInv'
    BY <2>11, UpdateRows DEF Reconcile, Final
  <2>12. ASSUME NEW p \in Procs, Stop(p) PROVE RowsInv'
    BY <2>0, <2>12, QuietRows DEF Stop, InProc
  <2>13. CASE UNCHANGED <<rows, purged, gen, lastId, started, pc>>
    BY <2>13, QuietRows
  <2> QED
    BY <2>1, <2>2, <2>3, <2>4, <2>5, <2>6, <2>7, <2>8, <2>9, <2>10, <2>11, <2>12, <2>13,
       InverseEnds
       DEF Next, Step, vars, FailsBeforeSend, Confirmed, Rejected, LostResponse, Interrupted,
           BrokerApplies, RequestLost, Start
<1> QED
  BY <1>1, <1>2, Typing, PTL DEF Spec

-----------------------------------------------------------------------------
(***************************************************************************)
(* The intents.                                                            *)
(***************************************************************************)
OwnRow(c) == [gen |-> gen, id |-> intent[c], call |-> ThisCall(c), job |-> "intent",
              status |-> "pending"]

IntentInv ==
    /\ OwnIntentPending
    /\ NoPendingArchived
    /\ \A c \in Callers : pc[c] = "rotate" => Pending(Live) = {}
    /\ \A c \in Callers : pc[c] \in InCall => job[c] = "intent"
    /\ \A r \in AllRows : r.status = "pending" => r.job = "intent"

\* A step that leaves the files alone keeps IntentInv, if no call gets under way or
\* reaches the rename by it.
LEMMA QuietIntents ==
    ASSUME TypeOK, IntentInv, UNCHANGED <<rows, purged, gen>>,
           \A c \in Callers : pc'[c] = "rotate" => pc[c] = "rotate",
           \A c \in Callers : pc'[c] \in InCall =>
               /\ pc[c] \in InCall
               /\ job'[c] = job[c] /\ intent'[c] = intent[c] /\ started'[c] = started[c]
    PROVE  IntentInv'
BY DEF IntentInv, OwnIntentPending, NoPendingArchived, InCall, ThisCall, AllRows, Live, Pending

\* An update that spares the intent of every call under way keeps IntentInv.
LEMMA UpdateIntents ==
    ASSUME TypeOK, RowsInv, IntentInv, NEW i, NEW v \in Final, SetStatus(i, v),
           UNCHANGED <<purged, gen, started>>,
           \A c \in Callers : pc'[c] = "rotate" => pc[c] = "rotate",
           \A c \in Callers : pc'[c] \in InCall =>
               /\ pc[c] \in InCall /\ ~Matches(OwnRow(c), i)
               /\ job'[c] = job[c] /\ intent'[c] = intent[c]
    PROVE  IntentInv'
<1>1. \A r \in rows : r \in Row
  BY DEF TypeOK
<1>2. rows' = {Updated(r, i, v) : r \in rows}
  BY DEF SetStatus
<1>3. \A s \in rows' : \E r \in rows :
         s.gen = r.gen /\ s.job = r.job /\ (s.status = "pending" => r.status = "pending")
  BY <1>1, <1>2, UpdatedRow DEF Final, Matches
<1>4. \A c \in Callers : pc'[c] \in InCall => OwnRow(c) \in rows' /\ OwnRow(c)' = OwnRow(c)
  <2> SUFFICES ASSUME NEW c \in Callers, pc'[c] \in InCall
               PROVE  OwnRow(c) \in rows' /\ OwnRow(c)' = OwnRow(c)
    OBVIOUS
  <2>1. OwnRow(c) \in rows
    BY DEF IntentInv, OwnIntentPending, OwnRow, InCall
  <2>2. Updated(OwnRow(c), i, v) = OwnRow(c)
    BY DEF Updated
  <2>3. OwnRow(c)' = OwnRow(c)
    BY DEF OwnRow, ThisCall
  <2> QED
    BY <1>2, <2>1, <2>2, <2>3
<1>5. OwnIntentPending'
  BY <1>4 DEF OwnIntentPending, OwnRow, InCall
<1>6. NoPendingArchived'
  BY <1>3 DEF IntentInv, NoPendingArchived, AllRows
<1>7. \A c \in Callers : pc'[c] = "rotate" => Pending(Live)' = {}
  BY <1>3 DEF IntentInv, Pending, Live
<1>8. \A r \in AllRows' : r.status = "pending" => r.job = "intent"
  BY <1>3 DEF IntentInv, AllRows
<1> QED
  BY <1>5, <1>6, <1>7, <1>8 DEF IntentInv

\* While a write executes its own pending row stays where its process will look for
\* it, and no pending row ever reaches an archive.
THEOREM IntentsStay == SingleGuard => (Spec => []IntentInv)
<1> SUFFICES ASSUME SingleGuard PROVE Spec => []IntentInv
  OBVIOUS
<1>1. Init => IntentInv
  BY DEF Init, IntentInv, OwnIntentPending, NoPendingArchived, AllRows, InCall
<1>2. TypeOK /\ GuardInv /\ RowsInv /\ IntentInv /\ [Next]_vars => IntentInv'
  <2> SUFFICES ASSUME TypeOK, GuardInv, RowsInv, IntentInv, [Next]_vars PROVE IntentInv'
    OBVIOUS
  <2> USE DEF InCall, disk
  <2>0. pc \in [Callers -> PC] /\ intent \in [Callers -> Nat] /\ job \in [Callers -> Job]
        /\ started \in [Callers -> Nat] /\ gen \in Nat
    BY DEF TypeOK
  <2>1. ASSUME NEW c \in Callers, BeginOther(c) \/ BeginWrite(c) \/ RefuseWrite(c)
        PROVE  IntentInv'
    <3>1. NewCall(c) /\ UNCHANGED <<rows, purged, gen>>
      BY <2>1 DEF BeginOther, BeginWrite, RefuseWrite
    <3>2. /\ pc'[c] \in {"idle", "want"}
          /\ \A d \in Callers : d # c =>
                pc'[d] = pc[d] /\ job'[d] = job[d] /\ intent'[d] = intent[d]
      BY <2>0, <2>1 DEF BeginOther, BeginWrite, RefuseWrite, Record, Return, Goto
    <3>3. \A d \in Callers : d # c => started'[d] = started[d]
      BY <2>0, <3>1, NewNumber
    <3> QED
      BY <3>1, <3>2, <3>3, QuietIntents
  <2>2. ASSUME NEW c \in Callers, Acquire(c) PROVE IntentInv'
    BY <2>0, <2>2, QuietIntents DEF Acquire, Goto
  <2>3. ASSUME NEW c \in Callers, CheckRotation(c) PROVE IntentInv'
    <3>1. CASE pc' = [pc EXCEPT ![c] = "append"]
      BY <2>0, <2>3, <3>1, QuietIntents DEF CheckRotation
    <3>2. CASE MustRotate /\ pc' = [pc EXCEPT ![c] = "rotate"]
      BY <2>0, <2>3, <3>2 DEF CheckRotation, MustRotate, IntentInv, OwnIntentPending,
         NoPendingArchived, AllRows, ThisCall, Live, Pending
    <3> QED
      BY <2>3, <3>1, <3>2 DEF CheckRotation, Goto
  <2>4. ASSUME NEW c \in Callers, Archive(c) PROVE IntentInv'
    <3>1. /\ gen' = gen + 1 /\ UNCHANGED <<rows, purged, job>>
          /\ pc' = [pc EXCEPT ![c] = "init"] /\ pc[c] = "rotate"
      BY <2>4 DEF Archive, Goto
    <3>2. \A r \in rows : r.gen = gen => r.status # "pending"
      BY <3>1 DEF IntentInv, Live, Pending
    <3>3. \A d \in Callers : pc[d] \notin InCall
      <4> SUFFICES ASSUME NEW d \in Callers, pc[d] \in InCall PROVE FALSE
        OBVIOUS
      <4>1. OwnRow(d) \in rows
        BY DEF IntentInv, OwnIntentPending, OwnRow
      <4> QED
        BY <3>2, <4>1 DEF OwnRow
    <3>4. NoPendingArchived'
      <4>1. \A r \in AllRows : r.gen \in Nat /\ r.gen <= gen
        BY DEF TypeOK, AllRows, Row, RowsInv
      <4>2. \A r \in AllRows : r.gen < gen \/ r.gen = gen
        BY <2>0, <4>1
      <4>3. \A r \in purged : r.gen < gen
        BY DEF RowsInv
      <4>4. \A r \in AllRows : r.status # "pending"
        BY <3>2, <4>2, <4>3 DEF IntentInv, NoPendingArchived, AllRows
      <4> QED
        BY <3>1, <4>4 DEF NoPendingArchived, AllRows
    <3>5. \A d \in Callers : pc'[d] \notin InCall /\ pc'[d] # "rotate"
      <4>1. \A d \in Callers : d # c => pc[d] # "rotate"
        BY <3>1 DEF GuardInv, InGuard
      <4> QED
        BY <2>0, <3>1, <3>3, <4>1
    <3> QED
      BY <3>1, <3>4, <3>5 DEF IntentInv, OwnIntentPending, AllRows
  <2>5. ASSUME NEW c \in Callers, InitDb(c) PROVE IntentInv'
    <3>1. /\ UNCHANGED <<gen, started, job, intent>>
          /\ pc' = [pc EXCEPT ![c] = "append"]
      BY <2>5 DEF InitDb, Goto
    <3>2. /\ \A r \in rows : r.gen = gen => r \in rows'
          /\ rows' \subseteq rows
          /\ AllRows' = AllRows
          /\ \A r \in purged' : r \in purged \/ r.gen < gen
      <4>1. \A r \in rows : r.gen < gen - KeepArchives => r.gen < gen /\ r.gen # gen
        BY BoundsAssumption DEF TypeOK, Row
      <4> QED
        BY <2>5, <4>1 DEF InitDb, AllRows
    <3>3. OwnIntentPending'
      BY <2>0, <3>1, <3>2 DEF IntentInv, OwnIntentPending, ThisCall
    <3>4. NoPendingArchived'
      BY <3>1, <3>2 DEF IntentInv, NoPendingArchived
    <3> QED
      BY <2>0, <3>1, <3>2, <3>3, <3>4 DEF IntentInv, Live, Pending
  <2>6. ASSUME NEW c \in Callers, Append(c) PROVE IntentInv'
    <3> DEFINE new == [gen |-> gen, id |-> lastId + 1, call |-> ThisCall(c), job |-> job[c],
                       status |-> IF job[c] = "intent" THEN "pending" ELSE verdict[c]]
    <3>1. /\ rows' = rows \cup {new} /\ pc[c] = "append"
          /\ UNCHANGED <<purged, gen, started>>
      BY <2>6 DEF Append
    <3>2. \A d \in Callers : d # c =>
             pc'[d] = pc[d] /\ job'[d] = job[d] /\ intent'[d] = intent[d]
      BY <2>0, <2>6 DEF Append, Return, Goto
    <3>3. /\ job[c] = "intent" =>
                pc'[c] = "send" /\ job'[c] = "intent" /\ intent'[c] = lastId + 1
          /\ job[c] # "intent" => pc'[c] = "idle"
      BY <2>0, <2>6 DEF Append, Return, Goto
    <3>4. \A d \in Callers : pc'[d] # "rotate"
      BY <3>1, <3>2, <3>3 DEF GuardInv, InGuard
    <3>5. OwnIntentPending'
      BY <3>1, <3>2, <3>3 DEF IntentInv, OwnIntentPending, ThisCall
    <3>6. NoPendingArchived'
      <4>1. new.gen = gen /\ ~(gen < gen) /\ new \notin purged
        BY <2>0 DEF RowsInv
      <4> HIDE DEF new
      <4> QED
        BY <3>1, <4>1 DEF IntentInv, NoPendingArchived, AllRows
    <3>7. \A r \in AllRows' : r.status = "pending" => r.job = "intent"
      <4>1. new.status = "pending" => new.job = "intent"
        BY DEF TypeOK, Final
      <4> HIDE DEF new
      <4> QED
        BY <3>1, <4>1 DEF IntentInv, AllRows
    <3> QED
      BY <3>2, <3>3, <3>4, <3>5, <3>6, <3>7 DEF IntentInv
  <2>7. ASSUME NEW c \in Callers, AppendFails(c) PROVE IntentInv'
    BY <2>0, <2>7, QuietIntents DEF AppendFails, Record, Return, Goto
  <2>8. ASSUME NEW c \in Callers, SendRequest(c) PROVE IntentInv'
    BY <2>0, <2>8, QuietIntents DEF SendRequest, Goto
  <2>9. ASSUME NEW c \in Callers, NEW sig, Ends(c, sig), pc[c] \in InCall PROVE IntentInv'
    BY <2>0, <2>9, QuietIntents DEF Ends, Goto
  <2>10. ASSUME NEW c \in Callers, FinishWrite(c) PROVE IntentInv'
    <3>1. /\ SetStatus(intent[c], verdict[c]) /\ verdict[c] \in Final
          /\ UNCHANGED <<purged, gen, started>> /\ pc[c] = "finish"
          /\ pc' = [pc EXCEPT ![c] = "idle"]
          /\ \A d \in Callers : d # c => job'[d] = job[d] /\ intent'[d] = intent[d]
      BY <2>0, <2>10 DEF FinishWrite, Return, Goto, TypeOK
    <3>2. \A d \in Callers : d # c /\ pc[d] \in InCall => ~Matches(OwnRow(d), intent[c])
      <4> SUFFICES ASSUME NEW d \in Callers, d # c, pc[d] \in InCall, intent[d] = intent[c]
                   PROVE  FALSE
        BY DEF Matches, OwnRow
      <4>1. OwnRow(d) \in AllRows /\ OwnRow(c) \in AllRows
        BY <3>1 DEF IntentInv, OwnIntentPending, OwnRow, AllRows
      <4>2. OwnRow(d) = OwnRow(c)
        BY <4>1 DEF RowsInv, OwnRow
      <4>3. ThisCall(d) = ThisCall(c)
        BY <4>2 DEF OwnRow
      <4> QED
        BY <4>3 DEF ThisCall
    <3> QED
      BY <2>0, <3>1, <3>2, UpdateIntents
  <2>11. ASSUME NEW c \in Callers, FinishFails(c) PROVE IntentInv'
    BY <2>0, <2>11, QuietIntents DEF FinishFails, Return, Goto
  <2>12. ASSUME NEW i \in 1 .. lastId, Reconcile(i) PROVE IntentInv'
    <3>1. \A c \in Callers : pc[c] \in InCall => ~Matches(OwnRow(c), i)
      <4> SUFFICES ASSUME NEW c \in Callers, pc[c] \in InCall PROVE ~Matches(OwnRow(c), i)
        OBVIOUS
      <4>1. OwnRow(c) \in rows
        BY DEF IntentInv, OwnIntentPending, OwnRow
      <4>2. Executing(OwnRow(c))
        BY DEF Executing, OwnRow
      <4> QED
        BY <2>12, <4>1, <4>2 DEF Reconcile
    <3> QED
      BY <2>12, <3>1, UpdateIntents DEF Reconcile, Final
  <2>13. ASSUME NEW p \in Procs, Stop(p) PROVE IntentInv'
    BY <2>0, <2>13, QuietIntents DEF Stop, InProc
  <2>14. CASE UNCHANGED <<rows, purged, gen, started, pc, job, intent>>
    BY <2>14, QuietIntents
  <2> QED
    BY <2>1, <2>2, <2>3, <2>4, <2>5, <2>6, <2>7, <2>8, <2>9, <2>10, <2>11, <2>12, <2>13, <2>14,
       InverseEnds
       DEF Next, Step, vars, FailsBeforeSend, Confirmed, Rejected, LostResponse, Interrupted,
           BrokerApplies, RequestLost, Start
<1> QED
  BY <1>1, <1>2, Typing, GuardExclusive, RowIdentity, PTL DEF Spec

-----------------------------------------------------------------------------
(***************************************************************************)
(* Calls in the tool body of another.                                      *)
(***************************************************************************)
NestInv ==
    \A d \in Callers : IsNested(d) =>
        /\ started[d] <= started[Within[d]]
        /\ pc[d] # "idle" => pc[Within[d]] = "send" /\ started[d] = started[Within[d]]
        /\ pc[Within[d]] = "sent" => started[d] # started[Within[d]]

\* A step that begins no call keeps NestInv, if it wakes no caller, and moves a caller on
\* from "send" only when no call runs in it, and to "sent" only when none ever did.
LEMMA QuietNest ==
    ASSUME TypeOK, NestInv, UNCHANGED started,
           \A d \in Callers : pc'[d] # "idle" => pc[d] # "idle",
           \A c \in Callers : pc[c] = "send" /\ pc'[c] # "send" =>
               \A d \in Nested(c) : pc'[d] = "idle",
           \A c \in Callers : pc'[c] = "sent" => pc[c] = "sent" \/ ~Undoing(c)
    PROVE  NestInv'
<1> SUFFICES ASSUME NEW d \in Callers, IsNested(d)
             PROVE  /\ started[d] <= started[Within[d]]
                    /\ pc'[d] # "idle" => pc'[Within[d]] = "send" /\ started[d] = started[Within[d]]
                    /\ pc'[Within[d]] = "sent" => started[d] # started[Within[d]]
  BY DEF NestInv
<1>1. Within[d] \in Callers /\ d \in Nested(Within[d])
  BY NestingFacts
<1> QED
  BY <1>1 DEF NestInv, Undoing

\* The inverse of an undo runs only while the undo_apply call that made it waits in its
\* tool body, so that the two calls of a thread end in the order their wrappers nest.
THEOREM Nesting == Spec => []NestInv
<1>1. Init => NestInv
  BY NestingFacts DEF Init, NestInv
<1>2. TypeOK /\ NestInv /\ [Next]_vars => NestInv'
  <2> SUFFICES ASSUME TypeOK, NestInv, [Next]_vars PROVE NestInv'
    OBVIOUS
  <2>0. pc \in [Callers -> PC] /\ started \in [Callers -> Nat]
    BY DEF TypeOK
  <2>1. ASSUME NEW c \in Callers, BeginOther(c) \/ BeginWrite(c) \/ RefuseWrite(c)
        PROVE  NestInv'
    <3>1. NewCall(c) /\ pc[c] = "idle"
      BY <2>1 DEF BeginOther, BeginWrite, RefuseWrite, NewCall
    <3>2. /\ pc'[c] \in {"idle", "want"}
          /\ \A d \in Callers : d # c => pc'[d] = pc[d]
      BY <2>0, <2>1, RecordType DEF BeginOther, BeginWrite, RefuseWrite, Goto, Final
    <3>3. /\ started'[c] = CallNumber(c) /\ CallNumber(c) \in Nat /\ CallNumber(c) > started[c]
          /\ \A d \in Callers : d # c => started'[d] = started[d]
      BY <2>0, <3>1, NewNumber
    <3> SUFFICES ASSUME NEW d \in Callers, IsNested(d)
                 PROVE  /\ started'[d] <= started'[Within[d]]
                        /\ pc'[d] # "idle" =>
                              pc'[Within[d]] = "send" /\ started'[d] = started'[Within[d]]
                        /\ pc'[Within[d]] = "sent" => started'[d] # started'[Within[d]]
      BY DEF NestInv
    <3>4. Within[d] \in Callers /\ ~IsNested(Within[d]) /\ Within[d] # d
      BY NestingFacts DEF IsNested
    <3>5. CASE d = c
      <4>1. pc[Within[c]] = "send" /\ CallNumber(c) = started[Within[c]]
        BY <3>1, <3>5 DEF NewCall, CallNumber
      <4> QED
        BY <2>0, <3>2, <3>3, <3>4, <3>5, <4>1
    <3>6. CASE Within[d] = c
      BY <2>0, <3>1, <3>2, <3>3, <3>4, <3>6 DEF NestInv
    <3>7. CASE d # c /\ Within[d] # c
      BY <3>2, <3>3, <3>4, <3>7 DEF NestInv
    <3> QED
      BY <3>5, <3>6, <3>7
  <2>2. ASSUME NEW c \in Callers,
               Acquire(c) \/ CheckRotation(c) \/ Archive(c) \/ InitDb(c)
        PROVE  NestInv'
    BY <2>0, <2>2, QuietNest DEF Acquire, CheckRotation, Archive, InitDb, Goto
  <2>3. ASSUME NEW c \in Callers, Append(c) \/ AppendFails(c) PROVE NestInv'
    <3>1. /\ pc[c] = "append" /\ UNCHANGED started
          /\ pc'[c] \in {"idle", "want", "send"}
          /\ \A d \in Callers : d # c => pc'[d] = pc[d]
      BY <2>0, <2>3, RecordType, ReturnType DEF Append, AppendFails, Goto, Final
    <3> QED
      BY <2>0, <3>1, QuietNest
  <2>4. ASSUME NEW c \in Callers, SendRequest(c) PROVE NestInv'
    <3>1. pc[c] = "send" /\ ~Undoing(c) /\ pc' = [pc EXCEPT ![c] = "sent"] /\ UNCHANGED started
      BY <2>4 DEF SendRequest, Goto
    <3>2. \A d \in Nested(c) : pc[d] = "idle" /\ d # c
      BY <3>1, NestingFacts DEF NestInv, Undoing, Nested
    <3> QED
      BY <2>0, <3>1, <3>2, QuietNest, NestingFacts
  <2>5. ASSUME NEW c \in Callers, NEW sig, Ends(c, sig), pc[c] \in {"send", "sent"},
               InverseOver(c)
        PROVE  NestInv'
    <3>1. pc' = [pc EXCEPT ![c] = "finish"] /\ UNCHANGED started
      BY <2>5 DEF Ends, Goto
    <3>2. \A d \in Nested(c) : pc'[d] = "idle"
      BY <2>0, <2>5, <3>1, NestingFacts DEF InverseOver, Nested
    <3> QED
      BY <2>0, <2>5, <3>1, <3>2, QuietNest
  <2>6. ASSUME NEW c \in Callers, pc[c] = "sent" \/ ~Undoing(c) PROVE InverseOver(c)
    <3> SUFFICES ASSUME NEW d \in Nested(c), pc[d] # "idle" PROVE FALSE
      BY DEF InverseOver
    <3>1. d \in Callers /\ IsNested(d) /\ Within[d] = c
      BY NestingFacts
    <3>2. pc[c] = "send" /\ started[d] = started[c]
      BY <3>1 DEF NestInv
    <3> QED
      BY <2>6, <3>2 DEF Undoing
  <2>7. ASSUME NEW c \in Callers,
               \/ FailsBeforeSend(c) \/ Confirmed(c) \/ Rejected(c) \/ LostResponse(c)
               \/ Interrupted(c)
        PROVE  NestInv'
    BY <2>5, <2>6, <2>7 DEF FailsBeforeSend, Confirmed, Rejected, LostResponse, Interrupted
  <2>8. ASSUME NEW c \in Callers, InverseReturns(c) PROVE NestInv'
    <3>1. InverseOver(c)
      BY <2>8, NestingFacts DEF InverseReturns, InverseOver
    <3> QED
      BY <2>5, <2>8, <3>1, InverseEnds
  <2>9. ASSUME NEW c \in Callers, FinishWrite(c) \/ FinishFails(c) PROVE NestInv'
    <3>1. pc[c] = "finish" /\ pc' = [pc EXCEPT ![c] = "idle"] /\ UNCHANGED started
      BY <2>9, ReturnType DEF FinishWrite, FinishFails
    <3> QED
      BY <2>0, <3>1, QuietNest
  <2>10. ASSUME NEW p \in Procs, Stop(p) PROVE NestInv'
    <3>1. /\ UNCHANGED started
          /\ \A c \in Callers : pc'[c] = IF ProcOf[c] = p THEN "idle" ELSE pc[c]
      BY <2>10 DEF Stop, InProc
    <3>2. \A c \in Callers : \A d \in Nested(c) : d \in Callers /\ ProcOf[d] = ProcOf[c]
      BY NestingFacts
    <3> QED
      BY <3>1, <3>2, QuietNest
  <2>11. CASE UNCHANGED <<started, pc>>
    BY <2>11, QuietNest
  <2> QED
    BY <2>1, <2>2, <2>3, <2>4, <2>7, <2>8, <2>9, <2>10, <2>11
       DEF Next, Step, vars, BrokerApplies, RequestLost, Reconcile, Start
<1> QED
  BY <1>1, <1>2, Typing, PTL DEF Spec

-----------------------------------------------------------------------------
(***************************************************************************)
(* Open intents and the process that left them.                            *)
(***************************************************************************)
Open == {r \in Pending(rows) : r.call[2] > firstCall[r.call[1]]}

\* A caller that asks for an intent or executes under one.
Writing(c) == pc[c] # "idle" /\ job[c] = "intent"

OpenInv ==
    /\ OneOpenCallPerLifetime
    /\ \A r \in Open : \/ blocked[ProcOf[r.call[1]]]
                       \/ r.call = ThisCall(r.call[1]) /\ pc[r.call[1]] \in InCall
    /\ \A c \in Callers, r \in Open :
          Writing(c) /\ Within[r.call[1]] = Within[c] => r.call[2] = started[c]

\* A step that opens no intent keeps OpenInv, if it leaves every open intent with its
\* call under way or its process blocked, and no caller begins to write.
LEMMA QuietOpen ==
    ASSUME TypeOK, OpenInv, Pending(rows)' \subseteq Pending(rows), UNCHANGED firstCall,
           \A r \in Pending(rows)' \cap Open :
              \/ blocked'[ProcOf[r.call[1]]]
              \/ r.call = ThisCall(r.call[1])' /\ pc'[r.call[1]] \in InCall,
           \A c \in Callers : Writing(c)' => Writing(c) /\ started'[c] = started[c]
    PROVE  OpenInv'
<1>1. Open' \subseteq Open /\ Open' \subseteq Pending(rows)'
  BY DEF Open
<1>2. OneOpenCallPerLifetime'
  BY DEF OpenInv, OneOpenCallPerLifetime
<1> QED
  BY <1>1, <1>2 DEF OpenInv

\* An update leaves fewer rows pending.
LEMMA UpdatePending ==
    ASSUME TypeOK, NEW i, NEW v \in Final, SetStatus(i, v)
    PROVE  /\ Pending(rows)' \subseteq Pending(rows)
           /\ \A r \in Pending(rows)' : ~Matches(r, i)
<1>1. \A r \in rows : r \in Row
  BY DEF TypeOK
<1>2. \A r \in rows : Updated(r, i, v).status = "pending" =>
                         Updated(r, i, v) = r /\ ~Matches(r, i)
  BY <1>1, UpdatedRow DEF Final
<1> QED
  BY <1>2 DEF SetStatus, Pending

\* In one lifetime of a process each thread leaves at most one call unresolved, with the
\* inverse it ran: whoever could not resolve one is blocked before it can begin another.
THEOREM OneOpenCall == SingleGuard => (Spec => []OpenInv)
<1> SUFFICES ASSUME SingleGuard PROVE Spec => []OpenInv
  OBVIOUS
<1>1. Init => OpenInv
  BY DEF Init, OpenInv, OneOpenCallPerLifetime, Open, Pending
<1>2. TypeOK /\ RowsInv /\ IntentInv /\ NestInv /\ OpenInv /\ [Next]_vars => OpenInv'
  <2> SUFFICES ASSUME TypeOK, RowsInv, IntentInv, NestInv, OpenInv, [Next]_vars PROVE OpenInv'
    OBVIOUS
  <2> USE DEF InCall, Writing, disk, proc
  <2>0. /\ pc \in [Callers -> PC] /\ job \in [Callers -> Job]
        /\ started \in [Callers -> Nat] /\ firstCall \in [Callers -> Nat]
        /\ blocked \in [Procs -> BOOLEAN] /\ ProcOf \in [Callers -> Procs]
    BY CallersAssumption DEF TypeOK
  <2>a. \A r \in rows : r.call[1] \in Callers /\ r.call[2] \in Nat
    BY CallParts, BoundsAssumption DEF TypeOK, Row
  <2>b. \A r \in Open : r \in rows
    BY DEF Open, Pending
  <2>1. ASSUME NEW c \in Callers, BeginOther(c) \/ RefuseWrite(c) PROVE OpenInv'
    <3>1. /\ UNCHANGED <<rows, firstCall>> /\ pc[c] = "idle" /\ NewCall(c)
          /\ blocked' = blocked \/ blocked' = [blocked EXCEPT ![ProcOf[c]] = TRUE]
      BY <2>1 DEF BeginOther, RefuseWrite, NewCall, Block
    <3>2. /\ job'[c] = "record"
          /\ \A d \in Callers : d # c => pc'[d] = pc[d] /\ job'[d] = job[d]
      BY <2>0, <2>1, RecordType DEF BeginOther, RefuseWrite, Final
    <3>3. \A d \in Callers : d # c => started'[d] = started[d] /\ ThisCall(d)' = ThisCall(d)
      BY <2>0, <3>1, NewNumber
    <3>4. \A p \in Procs : blocked[p] => blocked'[p]
      BY <2>0, <3>1
    <3>5. \A r \in Open : r.call[1] = c => blocked'[ProcOf[c]]
      BY <2>0, <3>1, <3>4 DEF OpenInv
    <3> QED
      BY <2>0, <2>a, <2>b, <3>1, <3>2, <3>3, <3>4, <3>5, QuietOpen DEF OpenInv, Pending
  \* A thread that is not blocked has no open intent, or is in undo_apply.
  <2>2. ASSUME NEW c \in Callers, BeginWrite(c) PROVE OpenInv'
    <3>1. /\ UNCHANGED <<rows, firstCall, blocked>> /\ pc[c] = "idle" /\ ~blocked[ProcOf[c]]
          /\ NewCall(c)
          /\ \A d \in Callers : d # c => pc'[d] = pc[d] /\ job'[d] = job[d]
      BY <2>0, <2>2 DEF BeginWrite, NewCall, Goto
    <3>2. /\ started'[c] = CallNumber(c)
          /\ \A d \in Callers : d # c => started'[d] = started[d] /\ ThisCall(d)' = ThisCall(d)
      BY <2>0, <3>1, NewNumber
    <3>3. ASSUME NEW r \in Open, Within[r.call[1]] = Within[c]
          PROVE  IsNested(c) /\ r.call[1] = Within[c] /\ r.call[2] = started[Within[c]]
      <4>1. r.call[1] \in Callers /\ ProcOf[r.call[1]] = ProcOf[c]
        BY <2>a, <2>b, <3>3, NestingFacts
      <4>2. r.call = ThisCall(r.call[1]) /\ pc[r.call[1]] \in InCall /\ r.call[1] # c
        BY <3>1, <4>1 DEF OpenInv
      <4>3. ~IsNested(r.call[1])
        <5> SUFFICES ASSUME IsNested(r.call[1]) PROVE FALSE
          OBVIOUS
        <5>1. pc[Within[c]] = "send"
          BY <3>3, <4>1, <4>2 DEF NestInv
        <5>2. c # Within[c]
          BY <3>1, <5>1
        <5> QED
          BY <3>3, <4>1, <4>2, <5>2, NestingAssumption DEF IsNested
      <4>4. r.call[1] = Within[c] /\ IsNested(c)
        BY <3>3, <4>2, <4>3 DEF IsNested
      <4> QED
        BY <4>2, <4>4 DEF ThisCall
    <3>4. \A r \in Open : Within[r.call[1]] = Within[c] => r.call[2] = started'[c]
      BY <3>2, <3>3 DEF CallNumber
    <3>5. \A r \in Open : /\ r.call[1] # c
                          /\ \/ blocked[ProcOf[r.call[1]]]
                             \/ r.call = ThisCall(r.call[1]) /\ pc[r.call[1]] \in InCall
      BY <2>0, <3>1 DEF OpenInv
    <3>6. Open' = Open /\ OneOpenCallPerLifetime'
      BY <3>1 DEF Open, Pending, OpenInv, OneOpenCallPerLifetime
    <3>7. \A d \in Callers, r \in Open :
             Writing(d)' /\ Within[r.call[1]] = Within[d] => r.call[2] = started'[d]
      BY <3>1, <3>2, <3>4 DEF OpenInv
    <3> QED
      BY <2>a, <2>b, <3>1, <3>2, <3>5, <3>6, <3>7 DEF OpenInv
  <2>3. ASSUME NEW c \in Callers,
               Acquire(c) \/ CheckRotation(c) \/ Archive(c) \/ InitDb(c)
        PROVE  OpenInv'
    <3>1. /\ UNCHANGED <<firstCall, blocked, job, started>> /\ rows' \subseteq rows
          /\ pc[c] \notin InCall /\ pc[c] # "idle"
          /\ \A d \in Callers : d # c => pc'[d] = pc[d]
      BY <2>0, <2>3 DEF Acquire, CheckRotation, Archive, InitDb, Goto
    <3> QED
      BY <2>a, <2>b, <3>1, QuietOpen DEF OpenInv, Pending, ThisCall
  <2>4. ASSUME NEW c \in Callers, Append(c) PROVE OpenInv'
    <3> DEFINE new == [gen |-> gen, id |-> lastId + 1, call |-> ThisCall(c), job |-> job[c],
                       status |-> IF job[c] = "intent" THEN "pending" ELSE verdict[c]]
    <3>1. /\ rows' = rows \cup {new} /\ pc[c] = "append"
          /\ UNCHANGED <<firstCall, blocked, started>>
      BY <2>4 DEF Append
    <3>2. \A d \in Callers : d # c => pc'[d] = pc[d] /\ job'[d] = job[d]
      BY <2>0, <2>4 DEF Append, Return, Goto
    <3>3. CASE job[c] # "intent"
      <4>1. new.status # "pending"
        BY <3>3 DEF TypeOK, Final
      <4>2. Pending(rows)' = Pending(rows)
        BY <3>1, <4>1 DEF Pending
      <4>3. pc'[c] = "idle"
        BY <2>0, <2>4, <3>3 DEF Append, Return, Goto
      <4> QED
        BY <2>a, <2>b, <3>1, <3>2, <4>2, <4>3, QuietOpen DEF OpenInv, ThisCall
    <3>4. CASE job[c] = "intent"
      <4>1. \A r \in Open : Within[r.call[1]] = Within[c] => r.call[2] = started[c]
        BY <3>1, <3>4 DEF OpenInv
      <4>2. Open' \subseteq Open \cup {new}
        BY <3>1 DEF Open, Pending
      <4>3. /\ new.call[1] = c /\ new.call[2] = started[c] /\ new.call = ThisCall(c)
            /\ pc'[c] \in InCall /\ job'[c] = "intent"
        BY <2>0, <2>4, <3>4 DEF Append, Goto, ThisCall
      <4> HIDE DEF new
      <4>4. \A r, s \in Open' : Within[r.call[1]] = Within[s.call[1]] => r.call[2] = s.call[2]
        BY <4>1, <4>2, <4>3 DEF OpenInv, OneOpenCallPerLifetime, Open
      <4>5. OneOpenCallPerLifetime'
        BY <4>4 DEF OneOpenCallPerLifetime, Open
      <4>6. \A d \in Callers : ThisCall(d)' = ThisCall(d)
        BY <3>1 DEF ThisCall
      \* Whoever writes in the same thread is in the same outermost call.
      <4>7. \A d \in Callers : Writing(d)' /\ Within[d] = Within[c] => started[d] = started[c]
        <5> SUFFICES ASSUME NEW d \in Callers, Writing(d)', Within[d] = Within[c], d # c
                     PROVE  started[d] = started[c]
          OBVIOUS
        <5>1. pc[d] # "idle" /\ pc[c] # "idle"
          BY <3>1, <3>2
        <5> QED
          BY <5>1, NestingAssumption DEF NestInv, IsNested
      <4>8. \A d \in Callers, r \in Open' :
               Writing(d)' /\ Within[r.call[1]] = Within[d] => r.call[2] = started[d]
        <5> SUFFICES ASSUME NEW d \in Callers, NEW r \in Open', Writing(d)',
                            Within[r.call[1]] = Within[d]
                     PROVE  r.call[2] = started[d]
          OBVIOUS
        <5>1. CASE r = new
          BY <4>3, <4>7, <5>1
        <5>2. CASE r \in Open /\ d = c
          BY <4>1, <5>2
        <5>3. CASE r \in Open /\ d # c
          BY <3>2, <5>3 DEF OpenInv
        <5> QED
          BY <4>2, <5>1, <5>2, <5>3
      <4>9. \A r \in Open' : \/ blocked[ProcOf[r.call[1]]]
                             \/ r.call = ThisCall(r.call[1]) /\ pc'[r.call[1]] \in InCall
        BY <2>a, <2>b, <3>2, <4>2, <4>3 DEF OpenInv
      <4>10. \A r \in Open' : r.call[1] \in Callers
        BY <2>a, <2>b, <4>2, <4>3
      <4> QED
        BY <3>1, <4>5, <4>6, <4>8, <4>9, <4>10 DEF OpenInv
    <3> QED
      BY <3>3, <3>4
  <2>5. ASSUME NEW c \in Callers, AppendFails(c) PROVE OpenInv'
    <3>1. /\ UNCHANGED <<rows, firstCall, started>> /\ pc[c] = "append"
          /\ blocked' = blocked \/ blocked' = [blocked EXCEPT ![ProcOf[c]] = TRUE]
      BY <2>5 DEF AppendFails, Block
    <3>2. /\ job'[c] = "record"
          /\ \A d \in Callers : d # c => pc'[d] = pc[d] /\ job'[d] = job[d]
      BY <2>0, <2>5, RecordType, ReturnType DEF AppendFails, Final
    <3>3. \A p \in Procs : blocked[p] => blocked'[p]
      BY <2>0, <3>1
    <3> QED
      BY <2>0, <2>a, <2>b, <3>1, <3>2, <3>3, QuietOpen DEF OpenInv, Pending, ThisCall
  <2>6. ASSUME NEW c \in Callers, SendRequest(c) PROVE OpenInv'
    BY <2>0, <2>6, <2>a, <2>b, QuietOpen DEF SendRequest, Goto, OpenInv, Pending, ThisCall
  <2>7. ASSUME NEW c \in Callers, NEW sig, Ends(c, sig), pc[c] \in InCall PROVE OpenInv'
    BY <2>0, <2>7, <2>a, <2>b, QuietOpen DEF Ends, Goto, OpenInv, Pending, ThisCall
  <2>8. ASSUME NEW c \in Callers, FinishWrite(c) PROVE OpenInv'
    <3>1. /\ SetStatus(intent[c], verdict[c]) /\ verdict[c] \in Final /\ pc[c] = "finish"
          /\ UNCHANGED <<firstCall, blocked, started>> /\ pc'[c] = "idle"
          /\ \A d \in Callers : d # c => pc'[d] = pc[d] /\ job'[d] = job[d]
      BY <2>0, <2>8 DEF FinishWrite, Return, Goto, TypeOK
    <3>2. \A r \in Pending(rows)' : r \in Pending(rows) /\ ~Matches(r, intent[c])
      BY <3>1, UpdatePending
    <3>3. OwnRow(c) \in rows /\ Matches(OwnRow(c), intent[c])
      BY <3>1 DEF IntentInv, OwnIntentPending, OwnRow, Matches
    <3>4. \A r \in rows : r.call = ThisCall(c) => r = OwnRow(c)
      BY <3>3 DEF RowsInv, AllRows, OwnRow
    <3>5. \A r \in Pending(rows)' \cap Open : r.call[1] = c => blocked[ProcOf[c]]
      BY <3>1, <3>2, <3>3, <3>4, <2>b DEF OpenInv
    <3>6. \A d \in Callers : ThisCall(d)' = ThisCall(d)
      BY <3>1 DEF ThisCall
    <3> QED
      BY <2>a, <2>b, <3>1, <3>2, <3>5, <3>6, QuietOpen DEF OpenInv
  <2>9. ASSUME NEW c \in Callers, FinishFails(c) PROVE OpenInv'
    <3>1. /\ UNCHANGED <<rows, firstCall, started>> /\ pc'[c] = "idle"
          /\ blocked' = [blocked EXCEPT ![ProcOf[c]] = TRUE]
          /\ \A d \in Callers : d # c => pc'[d] = pc[d] /\ job'[d] = job[d]
      BY <2>0, <2>9 DEF FinishFails, Return, Goto, Block
    <3>2. \A p \in Procs : blocked[p] => blocked'[p]
      BY <2>0, <3>1
    <3>3. blocked'[ProcOf[c]]
      BY <2>0, <3>1
    <3> QED
      BY <2>0, <2>a, <2>b, <3>1, <3>2, <3>3, QuietOpen DEF OpenInv, Pending, ThisCall
  <2>10. ASSUME NEW i \in 1 .. lastId, Reconcile(i) PROVE OpenInv'
    <3>1. Pending(rows)' \subseteq Pending(rows)
      BY <2>10, UpdatePending DEF Reconcile, Final
    <3> QED
      BY <2>10, <2>a, <2>b, <3>1, QuietOpen DEF Reconcile, OpenInv, ThisCall
  <2>11. ASSUME NEW p \in Procs, Stop(p) PROVE OpenInv'
    <3>1. /\ UNCHANGED <<rows, started>>
          /\ \A q \in Procs : q # p => blocked'[q] = blocked[q]
          /\ \A c \in Callers : /\ ProcOf[c] = p => firstCall'[c] = started[c] /\ pc'[c] = "idle"
                                /\ ProcOf[c] # p => /\ firstCall'[c] = firstCall[c]
                                                    /\ pc'[c] = pc[c] /\ job'[c] = job[c]
      BY <2>0, <2>11 DEF Stop, InProc
    <3>2. \A r \in rows : r.call[2] <= started[r.call[1]]
      BY DEF RowsInv, AllRows
    <3>3. \A r \in Open' : r \in Open /\ ProcOf[r.call[1]] # p
      <4> SUFFICES ASSUME NEW r \in Open' PROVE r \in Open /\ ProcOf[r.call[1]] # p
        OBVIOUS
      <4>1. /\ r \in rows /\ r.status = "pending"
            /\ r.call[1] \in Callers /\ r.call[2] \in Nat
            /\ r.call[2] > firstCall'[r.call[1]]
        BY <2>a, <3>1 DEF Open, Pending
      <4>2. ProcOf[r.call[1]] # p
        BY <2>0, <3>1, <3>2, <4>1
      <4> QED
        BY <3>1, <4>1, <4>2 DEF Open, Pending
    <3>4. OneOpenCallPerLifetime'
      BY <3>3 DEF OpenInv, OneOpenCallPerLifetime, Open
    <3>5. \A c \in Callers : ThisCall(c)' = ThisCall(c)
      BY <3>1 DEF ThisCall
    <3>6. \A c \in Callers : Writing(c)' => Writing(c)
      BY <3>1
    <3> QED
      BY <2>0, <2>a, <2>b, <3>1, <3>3, <3>4, <3>5, <3>6 DEF OpenInv
  <2>12. CASE UNCHANGED <<rows, firstCall, started, blocked, job, pc>>
    BY <2>12, QuietOpen DEF OpenInv, Pending, ThisCall
  <2> QED
    BY <2>1, <2>2, <2>3, <2>4, <2>5, <2>6, <2>7, <2>8, <2>9, <2>10, <2>11, <2>12, InverseEnds
       DEF Next, Step, vars, FailsBeforeSend, Confirmed, Rejected, LostResponse, Interrupted,
           BrokerApplies, RequestLost, Start
<1> QED
  BY <1>1, <1>2, Typing, RowIdentity, IntentsStay, Nesting, PTL DEF Spec
=============================================================================
