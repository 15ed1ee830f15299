----------------------- MODULE GovernedWriteRefinement -----------------------
(***************************************************************************)
(* TLAPS proofs that no request leaves without its intent (WriteAhead),    *)
(* that only the executing process or an operator resolves a row, and that *)
(* GovernedWrite implements WriteIntentLog, from the invariants proved in  *)
(* GovernedWriteProofs.                                                    *)
(***************************************************************************)
EXTENDS GovernedWriteProofs

Sent     == inflight \cup applied
Intended == {r.call : r \in IntentRows}
Verdicts == {<<r.call, r.status>> : r \in IntentRows \ Pending(IntentRows)}
Unsent   == Asking \cup {"send"}   \* the call's request has not left
InBody   == {"send", "sent", "finish"}

\* A call in its tool body has its intent, though not always where its process looks for
\* it: for that the guard is needed (IntentInv), for this it is not.
RequestInv ==
    /\ WriteAhead
    /\ \A c \in Callers : pc[c] \in InBody => ThisCall(c) \in Intended
    /\ \A k \in Sent : k[2] <= started[k[1]]
    /\ \A c \in Callers : pc[c] \in Unsent => ThisCall(c) \notin Sent

-----------------------------------------------------------------------------
(***************************************************************************)
(* What a step does to the intents and verdicts.                           *)
(***************************************************************************)

\* An archive that is deleted takes its rows out of sight, but what they said was
\* said: a step that only moves rows changes neither intents nor verdicts.
LEMMA SameRows ==
    ASSUME AllRows' = AllRows
    PROVE  Intended' = Intended /\ Verdicts' = Verdicts
BY DEF Intended, Verdicts, IntentRows, Pending

\* An inserted row is one intent more, without a verdict, or it is no intent.
LEMMA AppendedRow ==
    ASSUME TypeOK, NEW c \in Callers, Append(c)
    PROVE  /\ job[c] = "intent" => Intended' = Intended \cup {ThisCall(c)}
           /\ job[c] # "intent" => Intended' = Intended
           /\ Verdicts' = Verdicts
<1> DEFINE new == [gen |-> gen, id |-> lastId + 1, call |-> ThisCall(c), job |-> job[c],
                   status |-> IF job[c] = "intent" THEN "pending" ELSE verdict[c]]
<1>1. AllRows' = AllRows \cup {new}
  BY DEF Append, AllRows
<1>2. /\ new.call = ThisCall(c) /\ new.job = job[c]
      /\ job[c] = "intent" => new.status = "pending"
  OBVIOUS
<1> HIDE DEF new
<1>3. CASE job[c] = "intent"
  <2>1. IntentRows' = IntentRows \cup {new}
    BY <1>1, <1>2, <1>3 DEF IntentRows
  <2>2. (IntentRows \ Pending(IntentRows))' = IntentRows \ Pending(IntentRows)
    BY <1>2, <1>3, <2>1 DEF Pending
  <2> QED
    BY <1>2, <1>3, <2>1, <2>2 DEF Intended, Verdicts
<1>4. CASE job[c] # "intent"
  <2>1. IntentRows' = IntentRows
    BY <1>1, <1>2, <1>4 DEF IntentRows
  <2> QED
    BY <1>4, <2>1 DEF Intended, Verdicts, Pending
<1> QED
  BY <1>3, <1>4

\* The UPDATE forgets no intent, whichever row it hits.
LEMMA UpdatedIntents ==
    ASSUME TypeOK, NEW i, NEW v \in Final, SetStatus(i, v), UNCHANGED purged
    PROVE  Intended' = Intended
<1>1. \A s \in rows : /\ Updated(s, i, v) \in rows'
                       /\ Updated(s, i, v).call = s.call
                       /\ Updated(s, i, v).job = s.job
  BY UpdatedRow DEF TypeOK, SetStatus
<1>2. \A s \in rows' : \E r \in rows : s = Updated(r, i, v)
  BY DEF SetStatus
<1> QED
  BY <1>1, <1>2 DEF Intended, IntentRows, AllRows

\* The UPDATE gives the call of the row it matches its first verdict, and no other
\* call anything.
LEMMA UpdatedVerdict ==
    ASSUME TypeOK, RowsInv, IntentInv, NEW i, NEW v \in Final, SetStatus(i, v),
           UNCHANGED <<purged, gen>>, NEW r \in rows, Matches(r, i)
    PROVE  /\ Intended' = Intended
           /\ Verdicts' = Verdicts \cup {<<r.call, v>>}
           /\ r.call \in Intended
           /\ \A u : <<r.call, u>> \notin Verdicts
<1>1. \A s \in rows : s \in Row
  BY DEF TypeOK
<1>2. \A s \in rows : Matches(s, i) => s = r
  BY DEF Matches, RowsInv, AllRows
<1>3. r.status = "pending" /\ r.job = "intent" /\ r \in IntentRows
  BY DEF Matches, IntentInv, IntentRows, AllRows
<1> DEFINE new == Updated(r, i, v)
<1>4. /\ new.call = r.call /\ new.job = "intent" /\ new.status = v
      /\ v # "pending"
  BY <1>1, <1>3, UpdatedRow DEF Final
<1>5. rows' = (rows \ {r}) \cup {new}
  <2>1. \A s \in rows : s # r => Updated(s, i, v) = s
    BY <1>2 DEF Updated
  <2>2. rows' = {Updated(s, i, v) : s \in rows}
    BY DEF SetStatus
  <2> HIDE DEF new
  <2>3. Updated(r, i, v) = new
    BY DEF new
  <2> QED
    BY <2>1, <2>2, <2>3
<1>6. r \notin purged
  BY <1>3 DEF IntentInv, NoPendingArchived, AllRows
<1> HIDE DEF new
<1>7. AllRows' = (AllRows \ {r}) \cup {new}
  BY <1>5, <1>6 DEF AllRows
<1>8. IntentRows' = (IntentRows \ {r}) \cup {new}
  BY <1>3, <1>4, <1>7 DEF IntentRows
<1>9. Intended' = Intended
  BY <1>3, <1>4, <1>8 DEF Intended
<1>10. (IntentRows \ Pending(IntentRows))' = (IntentRows \ Pending(IntentRows)) \cup {new}
  BY <1>3, <1>4, <1>8 DEF Pending
<1>11. Verdicts' = Verdicts \cup {<<r.call, v>>}
  BY <1>4, <1>10 DEF Verdicts
<1>12. \A s \in AllRows : s.call = r.call => s = r
  BY DEF RowsInv, AllRows
<1>13. \A u : <<r.call, u>> \notin Verdicts
  BY <1>3, <1>12 DEF Verdicts, IntentRows, Pending
<1> QED
  BY <1>3, <1>9, <1>11, <1>13 DEF Intended

-----------------------------------------------------------------------------
(***************************************************************************)
(* The requests.                                                           *)
(***************************************************************************)

\* A step that sends nothing new keeps RequestInv, if no call goes back to before its
\* request and no intent is forgotten.
LEMMA QuietRequests ==
    ASSUME TypeOK, RequestInv, Intended \subseteq Intended', Sent' \subseteq Sent,
           UNCHANGED started,
           \A c \in Callers : /\ pc'[c] \in Unsent => pc[c] \in Unsent
                              /\ pc'[c] \in InBody => \/ pc[c] \in InBody
                                                      \/ ThisCall(c) \in Intended'
    PROVE  RequestInv'
BY DEF RequestInv, WriteAhead, Sent, Intended, ThisCall

\* No request is on its way and nothing took effect without an intent row of that very
\* call, whatever is rotated, archived and deleted meanwhile, and whether or not the guard
\* spans the processes.
THEOREM RequestsIntended == Spec => []RequestInv
<1>1. Init => RequestInv
  BY DEF Init, RequestInv, WriteAhead, Sent, Unsent, InBody, Asking, InGuard
<1>2. TypeOK /\ RequestInv /\ [Next]_vars => RequestInv'
  <2> SUFFICES ASSUME TypeOK, RequestInv, [Next]_vars PROVE RequestInv'
    OBVIOUS
  <2> USE DEF Unsent, InBody, Asking, InGuard, disk, broker
  <2>0. pc \in [Callers -> PC]
    BY DEF TypeOK
  <2>1. ASSUME NEW c \in Callers, BeginOther(c) \/ BeginWrite(c) \/ RefuseWrite(c)
        PROVE  RequestInv'
    <3>1. NewCall(c) /\ UNCHANGED <<rows, purged, inflight, applied>>
      BY <2>1 DEF BeginOther, BeginWrite, RefuseWrite
    <3>2. \A d \in Callers : d # c => pc'[d] = pc[d]
      BY <2>0, <2>1, RecordType DEF BeginOther, BeginWrite, RefuseWrite, Goto, Final
    <3>3. /\ started \in [Callers -> Nat] /\ CallNumber(c) \in Nat /\ CallNumber(c) > started[c]
          /\ started'[c] = CallNumber(c)
          /\ \A d \in Callers : d # c => started'[d] = started[d]
      BY <3>1, NewNumber DEF TypeOK
    <3>4. Intended' = Intended /\ Sent' = Sent
      BY <3>1, SameRows DEF AllRows, Sent
    <3>5. \A k \in Sent : /\ k[1] \in Callers /\ k[2] \in Nat /\ k = <<k[1], k[2]>>
                          /\ k[2] <= started[k[1]]
      BY CallParts, BoundsAssumption DEF TypeOK, Sent, RequestInv
    <3>6. \A k \in Sent : k[2] <= started'[k[1]] /\ k # ThisCall(c)'
      BY <3>3, <3>5 DEF ThisCall
    <3>7. \A d \in Callers : d # c => ThisCall(d)' = ThisCall(d)
      BY <3>3 DEF ThisCall
    <3>8. WriteAhead'
      BY <3>4 DEF RequestInv, WriteAhead, Sent, Intended
    <3>9. pc'[c] \notin InBody
      BY <2>0, <2>1, RecordType DEF BeginOther, BeginWrite, RefuseWrite, Record, Return, Goto
    <3>10. \A d \in Callers : pc'[d] \in InBody => ThisCall(d)' \in Intended'
      BY <3>2, <3>4, <3>7, <3>9 DEF RequestInv
    <3> QED
      BY <3>2, <3>4, <3>6, <3>7, <3>8, <3>10 DEF RequestInv
  <2>2. ASSUME NEW c \in Callers,
               Acquire(c) \/ CheckRotation(c) \/ Archive(c) \/ InitDb(c)
        PROVE  RequestInv'
    <3>1. AllRows' = AllRows
      BY <2>2 DEF Acquire, CheckRotation, Archive, InitDb, AllRows
    <3> QED
      BY <2>0, <2>2, <3>1, SameRows, QuietRequests
         DEF Acquire, CheckRotation, Archive, InitDb, Goto, Sent
  <2>3. ASSUME NEW c \in Callers, Append(c) PROVE RequestInv'
    BY <2>0, <2>3, AppendedRow, QuietRequests DEF Append, Return, Goto, Sent
  <2>4. ASSUME NEW c \in Callers, AppendFails(c) PROVE RequestInv'
    <3>1. AllRows' = AllRows
      BY <2>4 DEF AppendFails, AllRows
    <3> QED
      BY <2>0, <2>4, <3>1, SameRows, QuietRequests DEF AppendFails, Record, Return, Goto, Sent
  <2>5. ASSUME NEW c \in Callers, SendRequest(c) PROVE RequestInv'
    <3>1. /\ Sent' = Sent \cup {ThisCall(c)} /\ UNCHANGED <<rows, purged, started>>
          /\ pc' = [pc EXCEPT ![c] = "sent"] /\ pc[c] = "send"
      BY <2>5 DEF SendRequest, Goto, Sent
    <3>2. AllRows' = AllRows /\ Intended' = Intended
      BY <3>1, SameRows DEF AllRows
    <3>3. ThisCall(c) \in Intended
      BY <3>1 DEF RequestInv
    <3>4. ThisCall(c)[2] <= started[ThisCall(c)[1]]
      BY DEF ThisCall, TypeOK
    <3>5. \A d \in Callers : ThisCall(d)' = ThisCall(d) /\ (d # c => ThisCall(d) # ThisCall(c))
      BY <3>1 DEF ThisCall
    <3>6. WriteAhead'
      BY <3>1, <3>2, <3>3 DEF RequestInv, WriteAhead, Sent, Intended
    <3>7. \A d \in Callers : pc'[d] \in InBody => ThisCall(d)' \in Intended'
      BY <2>0, <3>1, <3>2, <3>3, <3>5 DEF RequestInv
    <3> QED
      BY <2>0, <3>1, <3>4, <3>5, <3>6, <3>7 DEF RequestInv
  <2>6. ASSUME NEW c \in Callers, NEW sig, Ends(c, sig), pc[c] \in InBody, Sent' \subseteq Sent
        PROVE  RequestInv'
    <3>1. AllRows' = AllRows
      BY <2>6 DEF Ends, AllRows
    <3> QED
      BY <2>0, <2>6, <3>1, SameRows, QuietRequests DEF Ends, Goto
  <2>7. ASSUME NEW c \in Callers, FinishWrite(c) PROVE RequestInv'
    <3>1. Intended' = Intended
      BY <2>7, UpdatedIntents DEF FinishWrite, TypeOK
    <3> QED
      BY <2>0, <2>7, <3>1, QuietRequests DEF FinishWrite, Return, Goto, Sent
  <2>8. ASSUME NEW c \in Callers, FinishFails(c) PROVE RequestInv'
    <3>1. AllRows' = AllRows
      BY <2>8 DEF FinishFails, AllRows
    <3> QED
      BY <2>0, <2>8, <3>1, SameRows, QuietRequests DEF FinishFails, Return, Goto, Sent
  <2>9. ASSUME NEW i \in 1 .. lastId, Reconcile(i) PROVE RequestInv'
    <3>1. Intended' = Intended
      BY <2>9, UpdatedIntents DEF Reconcile, Final
    <3> QED
      BY <2>9, <3>1, QuietRequests DEF Reconcile, Sent
  <2>10. ASSUME NEW p \in Procs, Stop(p) PROVE RequestInv'
    <3>1. AllRows' = AllRows
      BY <2>10 DEF Stop, AllRows
    <3> QED
      BY <2>0, <2>10, <3>1, SameRows, QuietRequests DEF Stop, InProc, Sent
  <2>11. CASE UNCHANGED <<rows, purged, started, pc>> /\ Sent' \subseteq Sent
    <3>1. AllRows' = AllRows
      BY <2>11 DEF AllRows
    <3> QED
      BY <2>11, <3>1, SameRows, QuietRequests
  <2> QED
    BY <2>1, <2>2, <2>3, <2>4, <2>5, <2>6, <2>7, <2>8, <2>9, <2>10, <2>11, InverseEnds
       DEF Next, Step, vars, FailsBeforeSend, Confirmed, Rejected, LostResponse, Interrupted,
           BrokerApplies, RequestLost, Start, Sent
<1> QED
  BY <1>1, <1>2, Typing, PTL DEF Spec

-----------------------------------------------------------------------------
(***************************************************************************)
(* The properties the runs check, for all constants.                       *)
(***************************************************************************)

\* WriteAhead holds in every reachable state, on platforms without flock too.
THEOREM WriteAheadHolds == Spec => []WriteAhead
<1>1. RequestInv => WriteAhead
  BY DEF RequestInv
<1> QED
  BY <1>1, RequestsIntended, PTL

\* While a write executes, its process can still resolve its row.
THEOREM OwnIntentStays == SingleGuard => (Spec => []OwnIntentPending)
<1>1. IntentInv => OwnIntentPending
  BY DEF IntentInv
<1> QED
  BY <1>1, IntentsStay, PTL

\* No rotation archives an open intent.
THEOREM PendingStaysLive == SingleGuard => (Spec => []NoPendingArchived)
<1>1. IntentInv => NoPendingArchived
  BY DEF IntentInv
<1> QED
  BY <1>1, IntentsStay, PTL

\* The open intents one lifetime of a process leaves of a thread are of one call and the
\* inverse that ran in it.
THEOREM OneCallOpen == SingleGuard => (Spec => []OneOpenCallPerLifetime)
<1>1. OpenInv => OneOpenCallPerLifetime
  BY DEF OpenInv
<1> QED
  BY <1>1, OneOpenCall, PTL

\* finish_write hits its own row only, and reconcile_pending no row of a write that is
\* still executing.
THEOREM OwnerResolves == SingleGuard => (Spec => OnlyOwnerResolves)
<1> SUFFICES ASSUME SingleGuard PROVE Spec => OnlyOwnerResolves
  OBVIOUS
<1>1. TypeOK /\ RowsInv /\ IntentInv /\ [Next]_vars => RightlyResolved
  <2> SUFFICES ASSUME TypeOK, RowsInv, IntentInv, [Next]_vars,
                      NEW r \in Pending(rows), NEW s \in rows',
                      s.gen = r.gen, s.id = r.id, s.status # "pending"
               PROVE  \/ ~Executing(r) /\ s.status = "unknown"
                      \/ ResolvedByOwner(r, s)
    BY DEF RightlyResolved
  <2>0. /\ r \in rows /\ r \in Row /\ r.status = "pending" /\ pc \in [Callers -> PC]
        /\ \A t \in rows : t \in Row /\ (t.gen = r.gen /\ t.id = r.id => t = r)
    BY DEF Pending, TypeOK, RowsInv, AllRows
  <2>1. CASE rows' \subseteq rows
    BY <2>0, <2>1
  <2>2. ASSUME NEW c \in Callers, Append(c) PROVE FALSE
    <3>1. r.gen = gen => r.id # lastId + 1
      BY <2>0 DEF RowsInv, AllRows, TypeOK, Row
    <3> DEFINE new == [gen |-> gen, id |-> lastId + 1, call |-> ThisCall(c), job |-> job[c],
                       status |-> IF job[c] = "intent" THEN "pending" ELSE verdict[c]]
    <3>2. rows' = rows \cup {new} /\ new.gen = gen /\ new.id = lastId + 1
      BY <2>2 DEF Append
    <3> HIDE DEF new
    <3> QED
      BY <2>0, <3>1, <3>2
  <2>3. ASSUME NEW i, NEW v \in Final, SetStatus(i, v) PROVE Matches(r, i) /\ s.status = v
    <3>1. PICK t \in rows : s = Updated(t, i, v)
      BY <2>3 DEF SetStatus
    <3>2. t = r
      BY <2>0, <3>1, UpdatedRow
    <3> QED
      BY <2>0, <3>1, <3>2, UpdatedRow
  <2>4. ASSUME NEW c \in Callers, FinishWrite(c) PROVE ResolvedByOwner(r, s)
    <3>1. /\ SetStatus(intent[c], verdict[c]) /\ verdict[c] \in Final
          /\ pc[c] = "finish" /\ pc'[c] = "idle"
      BY <2>0, <2>4 DEF FinishWrite, Return, Goto, TypeOK
    <3>2. Matches(r, intent[c]) /\ s.status = verdict[c]
      BY <2>3, <3>1
    <3>3. OwnRow(c) \in rows
      BY <3>1 DEF IntentInv, OwnIntentPending, OwnRow
    <3>4. r = OwnRow(c)
      BY <2>0, <3>2, <3>3 DEF Matches, OwnRow
    <3>5. r.call = ThisCall(c)
      BY <3>4 DEF OwnRow
    <3> QED
      BY <3>1, <3>2, <3>5 DEF ResolvedByOwner
  <2>5. ASSUME NEW i \in 1 .. lastId, Reconcile(i)
        PROVE  ~Executing(r) /\ s.status = "unknown"
    <3>1. Matches(r, i) /\ s.status = "unknown"
      BY <2>3, <2>5 DEF Reconcile, Final
    <3> QED
      BY <2>0, <2>5, <3>1 DEF Reconcile
  <2> USE DEF disk
  <2> QED
    BY <2>1, <2>2, <2>4, <2>5, InverseEnds
       DEF Next, Step, vars, BeginOther, BeginWrite, RefuseWrite, Acquire, CheckRotation,
           Archive, InitDb, AppendFails, SendRequest, FailsBeforeSend, Confirmed, Rejected,
           LostResponse, Interrupted, Ends, BrokerApplies, RequestLost, FinishFails, Stop, Start
<1> QED
  BY <1>1, Typing, RowIdentity, IntentsStay, PTL DEF Spec, OnlyOwnerResolves

-----------------------------------------------------------------------------
(***************************************************************************)
(* The refinement.                                                         *)
(***************************************************************************)

\* A step that shows the promise nothing new is a stuttering step of WriteIntentLog.
LEMMA Stutters ==
    ASSUME AllRows' = AllRows, UNCHANGED broker
    PROVE  UNCHANGED W!logVars
BY SameRows DEF W!logVars, Intended, Verdicts, broker

\* The UPDATE that resolves a row is a Resolve step.
LEMMA ResolveStep ==
    ASSUME TypeOK, RowsInv, IntentInv, NEW i, NEW v \in Final, SetStatus(i, v), Found(i),
           UNCHANGED <<purged, gen>>, UNCHANGED broker
    PROVE  W!Next
<1>1. PICK r \in rows : Matches(r, i)
  BY DEF Found
<1>2. /\ Intended' = Intended /\ Verdicts' = Verdicts \cup {<<r.call, v>>}
      /\ r.call \in Intended /\ \A u : <<r.call, u>> \notin Verdicts
  BY <1>1, UpdatedVerdict
<1>3. PICK k \in Call : k = r.call
  BY DEF TypeOK, Row
<1>4. W!Resolve(k)
  BY <1>2, <1>3 DEF W!Resolve, W!Resolved, Intended, Verdicts, broker
<1> QED
  BY <1>4 DEF W!Next

\* The pipeline keeps the promise of WriteIntentLog: an intent before any request, no
\* request under a resolved intent, one verdict for each intent and none ever changed
\* or forgotten, whatever rotates, fails, crashes or is reconciled.
THEOREM Refinement == SingleGuard => (Spec => ImplementsWriteIntentLog)
<1> SUFFICES ASSUME SingleGuard PROVE Spec => ImplementsWriteIntentLog
  OBVIOUS
<1>1. Init => W!Init
  BY DEF Init, W!Init, IntentRows, AllRows, Pending
<1>2. TypeOK /\ RowsInv /\ IntentInv /\ RequestInv /\ [Next]_vars => [W!Next]_(W!logVars)
  <2> SUFFICES ASSUME TypeOK, RowsInv, IntentInv, RequestInv, [Next]_vars
               PROVE  W!Next \/ UNCHANGED W!logVars
    BY DEF W!logVars
  <2> USE DEF disk
  <2>1. ASSUME NEW c \in Callers, Append(c) PROVE W!Next \/ UNCHANGED W!logVars
    <3>1. pc[c] = "append" /\ UNCHANGED broker
      BY <2>1 DEF Append
    <3>2. CASE job[c] = "intent"
      <4>1. PICK k \in Call : k = ThisCall(c)
        BY <3>1, ThisCallType
      <4>2. k \notin Intended
        BY <3>1, <4>1 DEF RowsInv, Intended, IntentRows, Asking, InGuard
      <4>3. W!Intend(k)
        BY <2>1, <3>1, <3>2, <4>1, <4>2, AppendedRow DEF W!Intend, Intended, Verdicts, broker
      <4> QED
        BY <4>3 DEF W!Next
    <3>3. CASE job[c] # "intent"
      BY <2>1, <3>1, <3>3, AppendedRow DEF W!logVars, Intended, Verdicts, broker
    <3> QED
      BY <3>2, <3>3
  <2>2. ASSUME NEW c \in Callers, SendRequest(c) PROVE W!Next
    <3>1. /\ pc[c] = "send" /\ inflight' = inflight \cup {ThisCall(c)}
          /\ UNCHANGED applied /\ AllRows' = AllRows
      BY <2>2 DEF SendRequest, AllRows
    <3>2. /\ OwnRow(c) \in rows /\ OwnRow(c).call = ThisCall(c) /\ OwnRow(c).job = "intent"
          /\ OwnRow(c).status = "pending"
      BY <3>1 DEF IntentInv, OwnIntentPending, OwnRow
    <3>3. ThisCall(c) \in Intended
      BY <3>2 DEF Intended, IntentRows, AllRows
    <3>4. \A v : <<ThisCall(c), v>> \notin Verdicts
      <4>1. \A r \in IntentRows : r \in AllRows
        BY DEF IntentRows
      <4>2. OwnRow(c) \in AllRows
        BY <3>2 DEF AllRows
      <4>3. \A r \in IntentRows : r.call = ThisCall(c) => r = OwnRow(c)
        BY <3>2, <4>1, <4>2 DEF RowsInv
      <4> QED
        BY <3>2, <4>3 DEF Verdicts, Pending
    <3>5. PICK k \in Call : k = ThisCall(c) /\ k \notin inflight \cup applied
      BY <3>1, ThisCallType DEF RequestInv, Unsent, Sent
    <3>6. ~W!Resolved(k)
      <4>1. \A given \in Verdicts : given = <<given[1], given[2]>>
        BY DEF Verdicts
      <4> QED
        BY <3>4, <3>5, <4>1 DEF W!Resolved, Verdicts
    <3>7. W!Request(k)
      BY <3>1, <3>3, <3>5, <3>6, SameRows DEF W!Request, Intended, Verdicts
    <3> QED
      BY <3>7 DEF W!Next
  <2>3. ASSUME NEW k \in inflight, BrokerApplies(k) PROVE W!Next
    <3>1. AllRows' = AllRows /\ k \in Call
      BY <2>3 DEF BrokerApplies, AllRows, TypeOK
    <3>2. W!Take(k)
      BY <2>3, <3>1, SameRows DEF BrokerApplies, W!Take, Intended, Verdicts
    <3> QED
      BY <3>1, <3>2 DEF W!Next
  <2>4. ASSUME NEW k \in inflight, UNCHANGED <<rows, purged, applied>>,
               inflight' = inflight \ {k}
        PROVE  W!Next
    <3>1. AllRows' = AllRows /\ k \in Call
      BY <2>4 DEF AllRows, TypeOK
    <3>2. W!Drop(k)
      BY <2>4, <3>1, SameRows DEF W!Drop, Intended, Verdicts
    <3> QED
      BY <3>1, <3>2 DEF W!Next
  <2>5. ASSUME NEW c \in Callers, Rejected(c) PROVE W!Next
    BY <2>4, <2>5 DEF Rejected, Ends
  <2>6. ASSUME NEW c \in Callers, FinishWrite(c) PROVE W!Next
    BY <2>6, ResolveStep DEF FinishWrite, TypeOK
  <2>7. ASSUME NEW i \in 1 .. lastId, Reconcile(i) PROVE W!Next
    BY <2>7, ResolveStep DEF Reconcile, Final
  <2>8. CASE AllRows' = AllRows /\ UNCHANGED broker
    BY <2>8, Stutters
  <2>9. ASSUME NEW c \in Callers,
               Acquire(c) \/ CheckRotation(c) \/ Archive(c) \/ InitDb(c)
        PROVE  AllRows' = AllRows /\ UNCHANGED broker
    BY <2>9 DEF Acquire, CheckRotation, Archive, InitDb, AllRows
  <2>10. ASSUME NEW c \in Callers, BeginOther(c) \/ BeginWrite(c) \/ RefuseWrite(c)
         PROVE  AllRows' = AllRows /\ UNCHANGED broker
    BY <2>10 DEF BeginOther, BeginWrite, RefuseWrite, AllRows
  <2>11. ASSUME NEW c \in Callers,
                \/ FailsBeforeSend(c) \/ Confirmed(c) \/ LostResponse(c) \/ Interrupted(c)
                \/ InverseReturns(c) \/ AppendFails(c) \/ FinishFails(c)
         PROVE  AllRows' = AllRows /\ UNCHANGED broker
    BY <2>11, InverseEnds DEF FailsBeforeSend, Confirmed, LostResponse, Interrupted, Ends,
                              AppendFails, FinishFails, AllRows
  <2>12. ASSUME NEW p \in Procs, Stop(p) \/ Start(p)
         PROVE  AllRows' = AllRows /\ UNCHANGED broker
    BY <2>12 DEF Stop, Start, AllRows
  <2>13. CASE UNCHANGED vars
    BY <2>13, Stutters DEF vars, AllRows
  <2> QED
    BY <2>1, <2>2, <2>3, <2>4, <2>5, <2>6, <2>7, <2>8, <2>9, <2>10, <2>11, <2>12, <2>13
       DEF Next, Step, RequestLost
<1> QED
  BY <1>1, <1>2, Typing, RowIdentity, IntentsStay, RequestsIntended, PTL
     DEF Spec, ImplementsWriteIntentLog, W!Spec
=============================================================================
