------------------------ MODULE GovernedWriteVerdicts ------------------------
(***************************************************************************)
(* TLAPS proofs of what the audit trail's verdicts are worth.  The runs    *)
(* lost_response and interrupted_write show an 'error' row of a write that *)
(* took effect and an 'ok' row of one that did not.  Each theorem here     *)
(* names the two steps of the model that lead there, and shows that no     *)
(* other does, whatever else crashes, fails, rotates, arrives late or is   *)
(* reconciled.  A row of undo_apply is about the inverse it ran.           *)
(***************************************************************************)
EXTENDS GovernedWriteRefinement

\* A client stops waiting for a request that took effect or still may.
GivesUp(c) == LostResponse(c) /\ ThisCall(c) \in Sent

\* undo_apply ends with an error although its inverse took effect or still may: the
\* inverse's own row could not be resolved, or its token not be marked.
Disowns(c) == /\ InverseReturns(c) /\ verdict'[c] = "error"
              /\ Parts(ThisCall(c)) \cap Sent # {}

\* A caller is interrupted before its write took effect.
CutOff(c) == Interrupted(c) /\ Parts(ThisCall(c)) \cap applied = {}

\* undo_apply ends with a result that holds the error of an inverse without effect.
Swallows(c) == /\ InverseReturns(c) /\ verdict'[c] = "ok"
               /\ \E d \in Nested(c) : reply[d] \in {"error", "outcomeUnknown"}
               /\ Parts(ThisCall(c)) \cap applied = {}

\* The behaviours without the two ways to a false 'error', and without those to a false 'ok'.
AnsweredSpec  == Init /\ [][Next /\ \A c \in Callers : ~GivesUp(c) /\ ~Disowns(c)]_vars
ReportingSpec == Init /\ [][Next /\ \A c \in Callers : ~CutOff(c) /\ ~Swallows(c)]_vars

\* By the time an 'error' is about to be written the request is gone for good.
ErrorInv ==
    /\ \A k : <<k, "error">> \in Verdicts => Parts(k) \cap Sent = {}
    /\ \A c \in Callers : pc[c] = "finish" /\ verdict[c] = "error" =>
                          Parts(ThisCall(c)) \cap Sent = {}
    /\ inflight \cap applied = {}

Good == {"value", "KeyboardInterrupt"}   \* what undo_apply ends with 'ok' on

\* By the time an 'ok' is about to be written the write has taken effect.
OkInv ==
    /\ \A k : <<k, "ok">> \in Verdicts => Parts(k) \cap applied # {}
    /\ \A c \in Callers : pc[c] = "finish" /\ verdict[c] = "ok" =>
                          Parts(ThisCall(c)) \cap applied # {}
    /\ \A d \in Callers : IsNested(d) /\ reply[d] \in Good => ThisCall(d) \in applied

-----------------------------------------------------------------------------
(***************************************************************************)
(* What a step does to verdicts and requests.                              *)
(***************************************************************************)

\* What the signals that end a tool body are recorded as (_finalize): every client
\* error as 'error', and whatever is no dict, Ctrl-C included, as 'ok'.
LEMMA Signals ==
    /\ VerdictOf("value") = "ok" /\ VerdictOf("KeyboardInterrupt") = "ok"
    /\ \A sig \in ClientErrors \cup {"sqlite3.Error", "AuditUnavailable"} :
          VerdictOf(sig) = "error" /\ Payload(Translate(sig)) = "error"
BY DEF VerdictOf, FinalStatus, Payload, Translate, ClientErrors, Undetermined

\* The two invariants say what the properties say, about verdicts instead of rows.
LEMMA VerdictRows ==
    /\ ErrorInv => ErrorMeansNotApplied
    /\ OkInv => OkMeansApplied
<1>1. \A r \in IntentRows : r.status # "pending" => <<r.call, r.status>> \in Verdicts
  BY DEF Verdicts, Pending
<1> QED
  BY <1>1 DEF ErrorInv, OkInv, ErrorMeansNotApplied, OkMeansApplied, Sent

\* The parts of a call are itself and the inverse in it; a nested call has no other.
LEMMA PartsOf ==
    ASSUME NEW c \in Callers
    PROVE  /\ Parts(ThisCall(c)) = {ThisCall(c)} \cup {<<d, started[c]>> : d \in Nested(c)}
           /\ IsNested(c) => Parts(ThisCall(c)) = {ThisCall(c)}
BY NestingFacts DEF Parts, ThisCall, Nested, IsNested

\* As long as it ran no inverse, a call has sent nothing but its own request.
LEMMA NoInverse ==
    ASSUME TypeOK, RequestInv, NestInv, NEW c \in Callers, pc[c] = "sent" \/ ~Undoing(c)
    PROVE  Parts(ThisCall(c)) \cap Sent \subseteq {ThisCall(c)}
<1> SUFFICES ASSUME NEW d \in Nested(c), <<d, started[c]>> \in Sent PROVE FALSE
  BY PartsOf
<1>1. d \in Callers /\ IsNested(d) /\ Within[d] = c
  BY NestingFacts
<1>2. started[d] <= started[c] /\ started[d] # started[c]
  BY <1>1 DEF NestInv, Undoing
<1>3. started[c] <= started[d] /\ started[c] \in Nat /\ started[d] \in Nat
  BY <1>1 DEF RequestInv, TypeOK
<1> QED
  BY <1>2, <1>3

\* Steps before a call's tool body, and those that only end the call, show the log no
\* new verdict, send nothing and bring no call to its end with a verdict it had not.
Quiet == /\ Verdicts' = Verdicts /\ UNCHANGED broker
         /\ \A c \in Callers : pc'[c] = "finish" =>
               /\ pc[c] = "finish" /\ verdict'[c] = verdict[c]
               /\ ThisCall(c)' = ThisCall(c)
         /\ \A d \in Callers : reply'[d] \in Good =>
               reply'[d] = reply[d] /\ (IsNested(d) => ThisCall(d)' = ThisCall(d))

\* A quiet step keeps both invariants.
LEMMA QuietVerdicts ==
    ASSUME Quiet
    PROVE  (ErrorInv => ErrorInv') /\ (OkInv => OkInv')
BY DEF Quiet, ErrorInv, OkInv, Sent, broker

\* All steps are quiet but those that send, end a tool body or resolve a row, and
\* those of the broker.
LEMMA QuietSteps ==
    ASSUME TypeOK, NEW c \in Callers,
           \/ BeginOther(c) \/ BeginWrite(c) \/ RefuseWrite(c)
           \/ Acquire(c) \/ CheckRotation(c) \/ Archive(c) \/ InitDb(c)
           \/ Append(c) \/ AppendFails(c) \/ FinishFails(c)
    PROVE  Quiet
<1> USE DEF disk, broker
<1>0. /\ pc \in [Callers -> PC] /\ verdict \in [Callers -> Final] /\ started \in [Callers -> Nat]
      /\ reply \in [Callers -> Reply]
  BY DEF TypeOK
<1>1. CASE BeginOther(c) \/ BeginWrite(c) \/ RefuseWrite(c)
  <2>1. AllRows' = AllRows /\ UNCHANGED broker /\ NewCall(c)
    BY <1>1 DEF BeginOther, BeginWrite, RefuseWrite, AllRows
  <2>2. \A d \in Callers : d # c => pc'[d] = pc[d] /\ verdict'[d] = verdict[d]
    BY <1>0, <1>1 DEF BeginOther, BeginWrite, RefuseWrite, Record, Return, Goto
  <2>3. pc'[c] # "finish"
    BY <1>0, <1>1 DEF BeginOther, BeginWrite, RefuseWrite, Record, Return, Goto
  <2>4. \A d \in Callers : d # c => ThisCall(d)' = ThisCall(d)
    BY <1>0, <2>1, NewNumber
  <2>5. /\ \A d \in Callers : d # c => reply'[d] = reply[d]
        /\ IsNested(c) => reply'[c] = "raised"
        /\ ~IsNested(c) => reply'[c] = reply[c]
    BY <1>0, <2>1 DEF NewCall, Answer
  <2> QED
    BY <2>1, <2>2, <2>3, <2>4, <2>5, SameRows DEF Quiet, Good
<1>2. CASE Acquire(c) \/ CheckRotation(c) \/ Archive(c) \/ InitDb(c)
  <2>1. AllRows' = AllRows
    BY <1>2 DEF Acquire, CheckRotation, Archive, InitDb, AllRows
  <2> QED
    BY <1>0, <1>2, <2>1, SameRows
       DEF Quiet, Acquire, CheckRotation, Archive, InitDb, Goto, ThisCall
<1>3. CASE Append(c)
  BY <1>0, <1>3, AppendedRow DEF Quiet, Append, Return, Goto, ThisCall
<1>4. CASE AppendFails(c)
  <2>1. AllRows' = AllRows
    BY <1>4 DEF AppendFails, AllRows
  <2> QED
    BY <1>0, <1>4, <2>1, SameRows DEF Quiet, AppendFails, Record, Return, Goto, ThisCall
<1>5. CASE FinishFails(c)
  <2>1. AllRows' = AllRows
    BY <1>5 DEF FinishFails, AllRows
  <2>2. \A d \in Callers : reply'[d] \in Good => reply'[d] = reply[d]
    BY <1>0, <1>5 DEF FinishFails, Answer, Good
  <2> QED
    BY <1>0, <1>5, <2>1, <2>2, SameRows DEF Quiet, FinishFails, Return, Goto, ThisCall
<1> QED
  BY <1>1, <1>2, <1>3, <1>4, <1>5

\* So are the steps of processes, and stuttering.
LEMMA QuietRest ==
    ASSUME TypeOK, (\E p \in Procs : Stop(p) \/ Start(p)) \/ UNCHANGED vars
    PROVE  Quiet
<1>1. AllRows' = AllRows /\ UNCHANGED broker /\ UNCHANGED <<started, reply>>
  BY DEF Stop, Start, vars, disk, AllRows
<1>2. \A c \in Callers : pc'[c] = "finish" => pc[c] = "finish" /\ verdict'[c] = verdict[c]
  BY DEF Stop, Start, vars, InProc
<1> QED
  BY <1>1, <1>2, SameRows DEF Quiet, ThisCall

\* A call in its tool body has no verdict, nor has the call it is part of.
LEMMA Undecided ==
    ASSUME TypeOK, RowsInv, IntentInv, NestInv, NEW c \in Callers, pc[c] = "send", NEW k, NEW v,
           <<k, v>> \in Verdicts
    PROVE  ThisCall(c) \notin Parts(k)
<1>1. ASSUME NEW d \in Callers, pc[d] = "send" PROVE k # ThisCall(d)
  <2>1. OwnRow(d) \in rows /\ OwnRow(d).call = ThisCall(d) /\ OwnRow(d).status = "pending"
    BY <1>1 DEF IntentInv, OwnIntentPending, OwnRow
  <2>2. \A r \in IntentRows : r.call = ThisCall(d) => r = OwnRow(d)
    BY <2>1 DEF IntentRows, AllRows, RowsInv
  <2> QED
    BY <2>1, <2>2 DEF Verdicts, Pending
<1> SUFFICES ASSUME NEW d \in Nested(k[1]), ThisCall(c) = <<d, k[2]>> PROVE FALSE
  BY <1>1 DEF Parts
<1>2. \A r \in AllRows : r.call \in Call
  BY DEF TypeOK, AllRows, Row
<1>3. k \in Call
  BY <1>2 DEF Verdicts, IntentRows
<1>4. k = <<k[1], k[2]>> /\ k[1] \in Callers
  BY <1>3, CallParts
<1>5. d = c /\ k[2] = started[c] /\ IsNested(c) /\ Within[c] = k[1]
  BY <1>4, NestingFacts DEF ThisCall
<1>6. pc[k[1]] = "send" /\ k[2] = started[k[1]]
  BY <1>5 DEF NestInv
<1> QED
  BY <1>1, <1>4, <1>6 DEF ThisCall

\* finish_write gives its own call the verdict its tool body led to.
LEMMA FinishVerdict ==
    ASSUME TypeOK, RowsInv, IntentInv, NEW c \in Callers, FinishWrite(c)
    PROVE  Verdicts' = Verdicts \cup {<<ThisCall(c), verdict[c]>>}
<1>1. pc[c] = "finish" /\ SetStatus(intent[c], verdict[c]) /\ UNCHANGED <<purged, gen>>
  BY DEF FinishWrite
<1>2. OwnRow(c) \in rows /\ OwnRow(c).call = ThisCall(c) /\ Matches(OwnRow(c), intent[c])
  BY <1>1 DEF IntentInv, OwnIntentPending, OwnRow, Matches
<1>3. verdict[c] \in Final
  BY DEF TypeOK
<1> QED
  BY <1>1, <1>2, <1>3, UpdatedVerdict

\* reconcile_pending only ever says 'unknown'.
LEMMA ReconcileVerdict ==
    ASSUME TypeOK, RowsInv, IntentInv, NEW i, Reconcile(i)
    PROVE  \E k : Verdicts' = Verdicts \cup {<<k, "unknown">>}
<1>1. PICK r \in rows : Matches(r, i)
  BY DEF Reconcile, Found
<1> QED
  BY <1>1, UpdatedVerdict DEF Reconcile, Final

-----------------------------------------------------------------------------
(***************************************************************************)
(* Errors.                                                                 *)
(***************************************************************************)

\* As long as no client gives up on a request that is still alive, and no undo_apply
\* fails after its inverse was sent, an 'error' row is about a write that did not happen
\* and never will, however late requests arrive.
THEOREM ErrorsHonest == SingleGuard => (AnsweredSpec => []ErrorMeansNotApplied)
<1> SUFFICES ASSUME SingleGuard PROVE AnsweredSpec => []ErrorMeansNotApplied
  OBVIOUS
<1>1. Init => ErrorInv
  BY DEF Init, ErrorInv, Sent, Verdicts, IntentRows, AllRows
<1>2. TypeOK /\ RowsInv /\ IntentInv /\ NestInv /\ RequestInv /\ ErrorInv
      /\ [Next /\ \A c \in Callers : ~GivesUp(c) /\ ~Disowns(c)]_vars => ErrorInv'
  <2> SUFFICES ASSUME TypeOK, RowsInv, IntentInv, NestInv, RequestInv, ErrorInv,
                      [Next /\ \A c \in Callers : ~GivesUp(c) /\ ~Disowns(c)]_vars
               PROVE  ErrorInv'
    OBVIOUS
  <2> USE DEF disk, broker
  <2>0. pc \in [Callers -> PC] /\ verdict \in [Callers -> Final]
    BY DEF TypeOK
  <2>1. ASSUME NEW c \in Callers, SendRequest(c) PROVE ErrorInv'
    <3>1. /\ pc[c] = "send" /\ pc' = [pc EXCEPT ![c] = "sent"]
          /\ inflight' = inflight \cup {ThisCall(c)}
          /\ UNCHANGED <<applied, verdict, started>> /\ AllRows' = AllRows
      BY <2>1 DEF SendRequest, Goto, AllRows
    <3>2. Verdicts' = Verdicts /\ Sent' = Sent \cup {ThisCall(c)}
      BY <3>1, SameRows DEF Sent
    <3>3. ThisCall(c) \notin Sent
      BY <3>1 DEF RequestInv, Unsent
    <3>4. \A d \in Callers : pc'[d] = "finish" =>
             /\ pc[d] = "finish" /\ ThisCall(d)' = ThisCall(d)
             /\ ThisCall(c) \notin Parts(ThisCall(d))
      <4> SUFFICES ASSUME NEW d \in Callers, pc'[d] = "finish"
                   PROVE  /\ pc[d] = "finish" /\ ThisCall(d)' = ThisCall(d)
                          /\ ThisCall(c) \notin Parts(ThisCall(d))
        OBVIOUS
      <4>1. d # c /\ pc[d] = "finish" /\ ThisCall(d)' = ThisCall(d)
        BY <2>0, <3>1 DEF ThisCall
      <4>2. c \notin Nested(d)
        BY <3>1, <4>1, NestingFacts DEF NestInv
      <4> QED
        BY <4>1, <4>2, PartsOf DEF ThisCall
    <3>5. \A k : <<k, "error">> \in Verdicts => ThisCall(c) \notin Parts(k)
      BY <3>1, Undecided
    <3> QED
      BY <3>1, <3>2, <3>3, <3>4, <3>5 DEF ErrorInv, Sent
  \* A tool body ends: with an error only if no request of it is around, or any longer.
  <2>2. ASSUME NEW c \in Callers, NEW sig, Ends(c, sig), Sent' \subseteq Sent,
               VerdictOf(sig) = "error" => Parts(ThisCall(c)) \cap Sent' = {},
               inflight' \cap applied' = {}
        PROVE  ErrorInv'
    <3>1. /\ AllRows' = AllRows /\ UNCHANGED started
          /\ verdict' = [verdict EXCEPT ![c] = VerdictOf(sig)]
          /\ pc' = [pc EXCEPT ![c] = "finish"]
      BY <2>2 DEF Ends, Goto, AllRows
    <3>2. Verdicts' = Verdicts /\ \A d \in Callers : ThisCall(d)' = ThisCall(d)
      BY <3>1, SameRows DEF ThisCall
    <3>3. \A d \in Callers : pc'[d] = "finish" /\ verdict'[d] = "error" =>
             Parts(ThisCall(d)) \cap Sent' = {}
      BY <2>0, <2>2, <3>1 DEF ErrorInv
    <3> QED
      BY <2>2, <3>2, <3>3 DEF ErrorInv
  <2>3. ASSUME NEW c \in Callers, FailsBeforeSend(c) PROVE ErrorInv'
    <3>1. pc[c] = "send" /\ ~Undoing(c) /\ Sent' = Sent /\ UNCHANGED <<inflight, applied>>
      BY <2>3 DEF FailsBeforeSend, Sent
    <3>2. ThisCall(c) \notin Sent
      BY <3>1 DEF RequestInv, Unsent
    <3>3. Parts(ThisCall(c)) \cap Sent' = {}
      BY <3>1, <3>2, NoInverse
    <3> QED
      BY <2>2, <2>3, <3>1, <3>3 DEF FailsBeforeSend, ErrorInv
  <2>4. ASSUME NEW c \in Callers, Confirmed(c) \/ Interrupted(c) PROVE ErrorInv'
    <3>1. Sent' = Sent /\ UNCHANGED <<inflight, applied>>
      BY <2>4 DEF Confirmed, Interrupted, Sent
    <3> QED
      BY <2>2, <2>4, <3>1, Signals DEF Confirmed, Interrupted, ErrorInv
  <2>5. ASSUME NEW c \in Callers, Rejected(c) PROVE ErrorInv'
    <3>1. /\ pc[c] = "sent" /\ ThisCall(c) \in inflight
          /\ inflight' = inflight \ {ThisCall(c)} /\ UNCHANGED applied
      BY <2>5 DEF Rejected
    <3>2. Sent' \subseteq Sent /\ ThisCall(c) \notin Sent' /\ inflight' \cap applied' = {}
      BY <3>1 DEF Sent, ErrorInv
    <3>3. Parts(ThisCall(c)) \cap Sent' = {}
      BY <3>1, <3>2, NoInverse
    <3> QED
      BY <2>2, <2>5, <3>2, <3>3 DEF Rejected
  <2>6. ASSUME NEW c \in Callers, LostResponse(c), ~GivesUp(c) PROVE ErrorInv'
    <3>1. /\ pc[c] = "sent" /\ ThisCall(c) \notin Sent
          /\ Sent' = Sent /\ UNCHANGED <<inflight, applied>>
      BY <2>6 DEF GivesUp, LostResponse, Sent
    <3>2. Parts(ThisCall(c)) \cap Sent' = {}
      BY <3>1, NoInverse
    <3> QED
      BY <2>2, <2>6, <3>1, <3>2 DEF LostResponse, ErrorInv
  <2>7. ASSUME NEW c \in Callers, InverseReturns(c), ~Disowns(c) PROVE ErrorInv'
    <3>1. Sent' = Sent /\ UNCHANGED <<inflight, applied>>
      BY <2>7, InverseEnds DEF Sent
    <3>2. PICK sig : Ends(c, sig)
      BY <2>7, InverseEnds
    <3>3. verdict'[c] = VerdictOf(sig)
      BY <2>0, <3>2 DEF Ends
    <3>4. VerdictOf(sig) = "error" => Parts(ThisCall(c)) \cap Sent' = {}
      BY <2>7, <3>1, <3>3 DEF Disowns
    <3> QED
      BY <2>2, <3>1, <3>2, <3>4 DEF ErrorInv
  <2>8. ASSUME NEW k \in inflight, BrokerApplies(k) \/ RequestLost(k) PROVE ErrorInv'
    <3>1. /\ AllRows' = AllRows /\ UNCHANGED <<pc, verdict, started>>
          /\ Sent' \subseteq Sent /\ inflight' \cap applied' = {}
      BY <2>8 DEF BrokerApplies, RequestLost, AllRows, Sent, ErrorInv
    <3> QED
      BY <3>1, SameRows DEF ErrorInv, ThisCall
  <2>9. ASSUME NEW c \in Callers, FinishWrite(c) PROVE ErrorInv'
    <3>1. /\ pc[c] = "finish" /\ pc' = [pc EXCEPT ![c] = "idle"]
          /\ verdict' = [verdict EXCEPT ![c] = "ok"]
          /\ UNCHANGED <<inflight, applied, started>>
      BY <2>9 DEF FinishWrite, Return, Goto
    <3>2. verdict[c] = "error" => Parts(ThisCall(c)) \cap Sent = {}
      BY <3>1 DEF ErrorInv
    <3>3. \A d \in Callers : pc'[d] = "finish" => /\ pc[d] = "finish" /\ verdict'[d] = verdict[d]
                                                  /\ ThisCall(d)' = ThisCall(d)
      BY <2>0, <3>1 DEF ThisCall
    <3> QED
      BY <2>9, <3>1, <3>2, <3>3, FinishVerdict DEF ErrorInv, Sent
  <2>10. ASSUME NEW i \in 1 .. lastId, Reconcile(i) PROVE ErrorInv'
    <3>1. PICK k : Verdicts' = Verdicts \cup {<<k, "unknown">>}
      BY <2>10, ReconcileVerdict
    <3>2. UNCHANGED <<inflight, applied, started, pc, verdict>>
      BY <2>10 DEF Reconcile
    <3> QED
      BY <3>1, <3>2 DEF ErrorInv, Sent, ThisCall
  <2> QED
    BY <2>1, <2>3, <2>4, <2>5, <2>6, <2>7, <2>8, <2>9, <2>10, QuietVerdicts, QuietSteps, QuietRest
       DEF Next, Step
<1>3. ErrorInv => ErrorMeansNotApplied
  BY VerdictRows
<1>4. [Next /\ \A c \in Callers : ~GivesUp(c) /\ ~Disowns(c)]_vars => [Next]_vars
  OBVIOUS
<1> QED
  BY <1>1, <1>2, <1>3, <1>4, Typing, RowIdentity, IntentsStay, Nesting, RequestsIntended, PTL
     DEF AnsweredSpec, Spec

-----------------------------------------------------------------------------
(***************************************************************************)
(* Successes.                                                              *)
(***************************************************************************)

\* As long as no caller is cut off before its write took effect, and no undo_apply packs
\* the error of its inverse into a result, an 'ok' row is about a write that did take
\* effect: no crash, lost response or rotation yields a false one.
THEOREM OksHonest == SingleGuard => (ReportingSpec => []OkMeansApplied)
<1> SUFFICES ASSUME SingleGuard PROVE ReportingSpec => []OkMeansApplied
  OBVIOUS
<1>1. Init => OkInv
  BY DEF Init, OkInv, Good, Verdicts, IntentRows, AllRows
<1>2. TypeOK /\ RowsInv /\ IntentInv /\ OkInv
      /\ [Next /\ \A c \in Callers : ~CutOff(c) /\ ~Swallows(c)]_vars => OkInv'
  <2> SUFFICES ASSUME TypeOK, RowsInv, IntentInv, OkInv,
                      [Next /\ \A c \in Callers : ~CutOff(c) /\ ~Swallows(c)]_vars
               PROVE  OkInv'
    OBVIOUS
  <2> USE DEF disk, broker
  <2>0. pc \in [Callers -> PC] /\ verdict \in [Callers -> Final]
    BY DEF TypeOK
  <2>1. ASSUME AllRows' = AllRows, UNCHANGED <<verdict, started, reply>>,
               applied \subseteq applied',
               \A c \in Callers : pc'[c] = "finish" => pc[c] = "finish"
        PROVE  OkInv'
    BY <2>1, SameRows DEF OkInv, ThisCall
  <2>2. ASSUME NEW c \in Callers, SendRequest(c) PROVE OkInv'
    BY <2>0, <2>1, <2>2 DEF SendRequest, Goto, AllRows
  <2>3. ASSUME NEW k \in inflight, BrokerApplies(k) \/ RequestLost(k) PROVE OkInv'
    BY <2>1, <2>3 DEF BrokerApplies, RequestLost, AllRows
  \* A tool body ends: with 'ok' only if its write has taken effect.
  <2>4. ASSUME NEW c \in Callers, NEW sig, Ends(c, sig), UNCHANGED applied,
               VerdictOf(sig) = "ok" => Parts(ThisCall(c)) \cap applied # {},
               IsNested(c) /\ Payload(Translate(sig)) \in Good => ThisCall(c) \in applied
        PROVE  OkInv'
    <3>1. /\ AllRows' = AllRows /\ UNCHANGED started
          /\ verdict' = [verdict EXCEPT ![c] = VerdictOf(sig)]
          /\ pc' = [pc EXCEPT ![c] = "finish"]
      BY <2>4 DEF Ends, Goto, AllRows
    <3>2. Verdicts' = Verdicts /\ \A d \in Callers : ThisCall(d)' = ThisCall(d)
      BY <3>1, SameRows DEF ThisCall
    <3>3. \A d \in Callers : pc'[d] = "finish" /\ verdict'[d] = "ok" =>
             Parts(ThisCall(d)) \cap applied # {}
      BY <2>0, <2>4, <3>1 DEF OkInv
    <3>4. \A d \in Callers : IsNested(d) /\ reply'[d] \in Good => ThisCall(d) \in applied
      BY <2>0, <2>4 DEF OkInv, Ends, Answer
    <3> QED
      BY <2>4, <3>2, <3>3, <3>4 DEF OkInv
  <2>5. ASSUME NEW c \in Callers, FailsBeforeSend(c) \/ Rejected(c) \/ LostResponse(c)
        PROVE  OkInv'
    <3>1. PICK sig \in ClientErrors : Ends(c, sig)
      BY <2>5 DEF FailsBeforeSend, Rejected, LostResponse, ClientErrors
    <3>2. VerdictOf(sig) # "ok" /\ Payload(Translate(sig)) \notin Good
      BY Signals DEF Good
    <3> QED
      BY <2>4, <2>5, <3>1, <3>2 DEF FailsBeforeSend, Rejected, LostResponse
  <2>6. ASSUME NEW c \in Callers, Confirmed(c) \/ (Interrupted(c) /\ ~CutOff(c)) PROVE OkInv'
    <3>1. Parts(ThisCall(c)) \cap applied # {}
      BY <2>6, PartsOf DEF Confirmed, CutOff
    <3>2. IsNested(c) => ThisCall(c) \in applied
      BY <3>1, PartsOf
    <3> QED
      BY <2>4, <2>6, <3>1, <3>2 DEF Confirmed, Interrupted
  <2>7. ASSUME NEW c \in Callers, InverseReturns(c), ~Swallows(c) PROVE OkInv'
    <3>1. PICK d \in Nested(c) :
             /\ started[d] = started[c]
             /\ \/ reply[d] \in {"value", "error", "outcomeUnknown"} /\ Ends(c, "value")
                \/ reply[d] = "value" /\ Ends(c, "sqlite3.Error")
                \/ reply[d] = "raised" /\ Ends(c, "AuditUnavailable")
                \/ reply[d] = "KeyboardInterrupt" /\ Ends(c, "KeyboardInterrupt")
      BY <2>7 DEF InverseReturns
    <3>2. d \in Callers /\ IsNested(d) /\ ~IsNested(c)
      BY <3>1, NestingFacts DEF IsNested
    <3>3. UNCHANGED applied
      BY <2>7, InverseEnds
    <3>4. reply[d] \in Good => Parts(ThisCall(c)) \cap applied # {}
      BY <3>1, <3>2, PartsOf DEF OkInv, ThisCall
    <3>5. CASE reply[d] \in Good
      BY <2>4, <3>1, <3>2, <3>3, <3>4, <3>5, Signals
    <3>6. CASE reply[d] \in {"error", "outcomeUnknown"}
      <4>1. Ends(c, "value") /\ verdict'[c] = "ok"
        BY <2>0, <3>1, <3>6, Signals DEF Ends
      <4>2. Parts(ThisCall(c)) \cap applied # {}
        BY <2>7, <3>6, <4>1 DEF Swallows
      <4> QED
        BY <2>4, <3>2, <3>3, <4>1, <4>2
    <3>7. CASE reply[d] = "raised"
      BY <2>4, <3>1, <3>2, <3>3, <3>7, Signals
    <3> QED
      BY <3>1, <3>5, <3>6, <3>7 DEF Good
  <2>8. ASSUME NEW c \in Callers, FinishWrite(c) PROVE OkInv'
    <3>1. /\ pc[c] = "finish" /\ pc' = [pc EXCEPT ![c] = "idle"]
          /\ verdict' = [verdict EXCEPT ![c] = "ok"]
          /\ UNCHANGED <<applied, started, reply>>
      BY <2>8 DEF FinishWrite, Return, Goto
    <3>2. verdict[c] = "ok" => Parts(ThisCall(c)) \cap applied # {}
      BY <3>1 DEF OkInv
    <3>3. \A d \in Callers : pc'[d] = "finish" => /\ pc[d] = "finish" /\ verdict'[d] = verdict[d]
                                                  /\ ThisCall(d)' = ThisCall(d)
      BY <2>0, <3>1 DEF ThisCall
    <3> QED
      BY <2>8, <3>1, <3>2, <3>3, FinishVerdict DEF OkInv, ThisCall
  <2>9. ASSUME NEW i \in 1 .. lastId, Reconcile(i) PROVE OkInv'
    <3>1. PICK k : Verdicts' = Verdicts \cup {<<k, "unknown">>}
      BY <2>9, ReconcileVerdict
    <3>2. UNCHANGED <<applied, started, pc, verdict, reply>>
      BY <2>9 DEF Reconcile
    <3> QED
      BY <3>1, <3>2 DEF OkInv, ThisCall
  <2> QED
    BY <2>2, <2>3, <2>5, <2>6, <2>7, <2>8, <2>9, QuietVerdicts, QuietSteps, QuietRest
       DEF Next, Step
<1>3. OkInv => OkMeansApplied
  BY VerdictRows
<1>4. [Next /\ \A c \in Callers : ~CutOff(c) /\ ~Swallows(c)]_vars => [Next]_vars
  OBVIOUS
<1> QED
  BY <1>1, <1>2, <1>3, <1>4, Typing, RowIdentity, IntentsStay, PTL
     DEF ReportingSpec, Spec

=============================================================================
