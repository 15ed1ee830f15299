----------------------- MODULE ReversibleWritesProofs ------------------------
(***************************************************************************)
(* TLAPS proofs about ReversibleWrites, for any workers, resources, values *)
(* and bounds: tokens have effects, applied tokens were inverted, and an   *)
(* inverse restores what its write replaced if before-states are fetched   *)
(* uncut.  The invariants come in three layers: types, the identity of     *)
(* calls, and where tokens and undos come from.                            *)
(***************************************************************************)
EXTENDS ReversibleWrites, TLAPS

Busy(w) == job[w] # Idle

\* No config parameter is ever missing.
ConfigPresent ==
    /\ \A r \in Resources : Kind[r] = "config" => value[r] # Absent
    /\ \A w \in Workers : job[w].step = "sent" /\ Kind[job[w].write.res] = "config"
                          => job[w].seen # Absent

TypeInv == TypeOK /\ ConfigPresent

-----------------------------------------------------------------------------
(***************************************************************************)
(* Types.                                                                  *)
(***************************************************************************)

\* A worker is idle or in a job, and an idle one is at no step of a write.
LEMMA JobType ==
    ASSUME TypeOK, NEW w \in Workers
    PROVE  /\ job[w] = Idle => job[w].step = "idle"
           /\ job[w] # Idle => job[w] \in Job /\ job[w].step \in {"fetch", "sent", "mark"}
           /\ job[w].step \in {"fetch", "sent", "mark"} => job[w] \in Job /\ job[w] # Idle
<1>1. job[w] \in Job \/ job[w] = Idle
  BY DEF TypeOK
<1>2. Idle.step = "idle"
  BY DEF Idle
<1> QED
  BY <1>1, <1>2 DEF Job

\* The inverse of a write is a write the tools can make, as long as nobody fetched a
\* missing config parameter.
LEMMA InverseType ==
    ASSUME NEW wr \in Write, NEW was \in State, Kind[wr.res] = "config" => was # Absent
    PROVE  Inverse(wr, was) \in Write /\ Inverse(wr, was).res = wr.res
<1>1. wr.res \in Resources /\ Kind[wr.res] \in {"config", "queue", "policy"}
  BY ResourcesAssumption DEF Write
<1>2. CASE Kind[wr.res] = "queue"
  BY <1>1, <1>2 DEF Inverse, Write, State
<1>3. CASE Kind[wr.res] # "queue"
  <2>1. Inverse(wr, was) = [res |-> wr.res, to |-> IF was = Absent THEN Absent ELSE Clip[was]]
    BY <1>3 DEF Inverse
  <2>2. was # Absent => Clip[was] \in Values /\ Clip[was] # Absent
    BY ResourcesAssumption DEF State
  <2> QED
    BY <1>1, <2>1, <2>2 DEF Write, State
<1> QED
  BY <1>2, <1>3

\* Ending a call makes the worker idle and touches no other.
LEMMA EndType ==
    ASSUME TypeOK, NEW w \in Workers, NEW status \in {"ok", "error"},
           NEW how \in {"returned", "raised", "interrupted"}, End(w, status, how),
           job[w] # Idle
    PROVE  /\ job' \in [Workers -> Job \cup {Idle}]
           /\ reports' \subseteq Report
           /\ job'[w] = Idle
           /\ \A v \in Workers : v # w => job'[v] = job[v]
<1>1. job[w] \in Job
  BY JobType
<1> QED
  BY <1>1 DEF TypeOK, End, Job, Report

\* Every variable keeps its type, and config parameters stay there.
THEOREM Typing == Spec => []TypeInv
<1>1. Init => TypeInv
  BY BoundsAssumption DEF Init, TypeInv, TypeOK, ConfigPresent, Idle
<1>2. TypeInv /\ [Next]_vars => TypeInv'
  <2> SUFFICES ASSUME TypeInv, [Next]_vars PROVE TypeInv'
    OBVIOUS
  <2> USE DEF TypeInv
  <2>1. ASSUME NEW w \in Workers, NEW wr \in Write, NEW t \in {None} \cup CallId, Begin(w, wr, t)
        PROVE  TypeInv'
    <3>1. calls + 1 \in CallId /\ calls' = calls + 1 /\ calls' \in 0 .. MaxCalls
      BY <2>1, BoundsAssumption DEF Begin, TypeOK, CallId
    <3> DEFINE new == [step |-> "fetch", call |-> calls + 1, write |-> wr, undoes |-> t,
                       seen |-> Absent]
    <3>2. new \in Job /\ new.step = "fetch"
      BY <3>1 DEF Job, State
    <3>3. job' = [job EXCEPT ![w] = new] /\ UNCHANGED <<value, requests, effects, tokens, others, reports>>
      BY <2>1 DEF Begin
    <3> HIDE DEF new
    <3>4. job' \in [Workers -> Job \cup {Idle}]
      BY <3>2, <3>3 DEF TypeOK
    <3>5. ConfigPresent'
      BY <3>2, <3>3 DEF TypeOK, ConfigPresent
    <3> QED
      BY <3>1, <3>3, <3>4, <3>5 DEF TypeOK
  <2>2. ASSUME NEW w \in Workers, Fetch(w) PROVE TypeInv'
    <3>1. job[w] \in Job /\ job[w].write.res \in Resources /\ job[w].write \in Write
      BY <2>2, JobType DEF Fetch, Job, Write
    <3>2. value[job[w].write.res] \in State
      BY <3>1 DEF TypeOK
    <3>3. /\ job'[w] \in Job /\ job'[w].seen = value[job[w].write.res]
          /\ job'[w].write = job[w].write
          /\ \A v \in Workers : v # w => job'[v] = job[v]
      BY <2>2, <3>1, <3>2 DEF Fetch, Job, TypeOK
    <3>4. job' \in [Workers -> Job \cup {Idle}]
      BY <2>2, <3>3 DEF Fetch, TypeOK
    <3>5. [call |-> job[w].call, write |-> job[w].write, undoes |-> job[w].undoes] \in Request
      BY <3>1 DEF Job, Request
    <3>6. TypeOK'
      BY <2>2, <3>4, <3>5 DEF Fetch, TypeOK
    <3>7. ConfigPresent'
      BY <2>2, <3>1, <3>3 DEF Fetch, ConfigPresent
    <3> QED
      BY <3>6, <3>7
  <2>3. ASSUME NEW w \in Workers, NEW status \in {"ok", "error"},
               NEW how \in {"returned", "raised", "interrupted"}, End(w, status, how),
               job[w] # Idle, tokens' \subseteq Token, UNCHANGED <<value, requests, effects, calls, others>>
        PROVE  TypeInv'
    <3>1. TypeOK'
      BY <2>3, EndType DEF TypeOK
    <3>2. ConfigPresent'
      BY <2>3, EndType DEF ConfigPresent, Idle
    <3> QED
      BY <3>1, <3>2
  <2>4. ASSUME NEW w \in Workers, Fail(w) \/ Raise(w) \/ Interrupt(w) PROVE TypeInv'
    BY <2>3, <2>4, JobType DEF Fail, Raise, Interrupt, TypeOK
  <2>5. ASSUME NEW w \in Workers, Confirm(w) PROVE TypeInv'
    <3>1. job[w] \in Job /\ job[w] # Idle
      BY <2>5, JobType DEF Confirm
    <3>2. Inverse(job[w].write, job[w].seen) \in Write
      BY <2>5, <3>1, InverseType DEF Confirm, Job, ConfigPresent
    <3>3. tokens' \subseteq Token
      <4>1. [id |-> job[w].call, seen |-> job[w].seen,
             inverse |-> Inverse(job[w].write, job[w].seen), status |-> "recorded"] \in Token
        BY <3>1, <3>2 DEF Token, Job
      <4> QED
        BY <2>5, <4>1 DEF Confirm, TypeOK
    <3>4. CASE job[w].undoes = None
      BY <2>3, <2>5, <3>1, <3>3, <3>4 DEF Confirm
    <3>5. CASE job[w].undoes # None
      <4>1. job' = [job EXCEPT ![w].step = "mark"] /\ UNCHANGED <<value, requests, effects, calls, others, reports>>
        BY <2>5, <3>5 DEF Confirm
      <4>2. job'[w] \in Job /\ job'[w].step = "mark" /\ \A v \in Workers : v # w => job'[v] = job[v]
        BY <3>1, <4>1 DEF TypeOK, Job
      <4>3. job' \in [Workers -> Job \cup {Idle}]
        BY <4>1, <4>2 DEF TypeOK
      <4>4. ConfigPresent'
        BY <4>1, <4>2 DEF ConfigPresent
      <4> QED
        BY <3>3, <4>1, <4>3, <4>4 DEF TypeOK
    <3> QED
      BY <3>4, <3>5
  <2>6. ASSUME NEW w \in Workers, Mark(w) PROVE TypeInv'
    <3>1. \A t \in tokens : [t EXCEPT !.status = "applied"] \in Token
      BY DEF TypeOK, Token
    <3>2. tokens' \subseteq Token
      BY <2>6, <3>1 DEF Mark, TypeOK
    <3> QED
      BY <2>3, <2>6, <3>2, JobType DEF Mark
  <2>7. ASSUME NEW w \in Workers, Crash(w) PROVE TypeInv'
    <3>1. job'[w] = Idle /\ \A v \in Workers : v # w => job'[v] = job[v]
      BY <2>7 DEF Crash, TypeOK
    <3> QED
      BY <2>7, <3>1 DEF Crash, TypeOK, ConfigPresent, Idle
  <2>8. ASSUME NEW q \in requests, CarryOut(q) PROVE TypeInv'
    <3>1. /\ q \in Request /\ q.write \in Write /\ q.write.res \in Resources
          /\ q.write.to \in State /\ value[q.write.res] \in State
      BY DEF TypeOK, Request, Write
    <3>2. [call |-> q.call, write |-> q.write, undoes |-> q.undoes,
           over |-> value[q.write.res]] \in Effect
      BY <3>1 DEF Effect, Request
    <3>3. TypeOK'
      BY <2>8, <3>1, <3>2 DEF CarryOut, TypeOK
    <3>4. Kind[q.write.res] = "config" => q.write.to # Absent
      BY <3>1 DEF Write
    <3>5. ConfigPresent'
      BY <2>8, <3>1, <3>4 DEF CarryOut, ConfigPresent, TypeOK
    <3> QED
      BY <3>3, <3>5
  <2>9. ASSUME NEW q \in requests, Drop(q) PROVE TypeInv'
    BY <2>9 DEF Drop, TypeOK, ConfigPresent
  <2>10. CASE OtherWrites
    <3>1. PICK wr \in Write : value' = [value EXCEPT ![wr.res] = wr.to]
      BY <2>10 DEF OtherWrites
    <3>2. wr.res \in Resources /\ wr.to \in State /\ (Kind[wr.res] = "config" => wr.to # Absent)
      BY DEF Write
    <3>3. others' \in 0 .. MaxOthers
      BY <2>10, BoundsAssumption DEF OtherWrites, TypeOK
    <3>4. value' \in [Resources -> State]
      BY <3>1, <3>2 DEF TypeOK
    <3> QED
      BY <2>10, <3>1, <3>2, <3>3, <3>4 DEF OtherWrites, TypeOK, ConfigPresent
  <2>11. CASE UNCHANGED vars
    BY <2>11 DEF vars, TypeOK, ConfigPresent
  <2>12. ASSUME NEW w \in Workers, BeginWrite(w) \/ BeginUndo(w) PROVE TypeInv'
    BY <2>1, <2>12 DEF BeginWrite, BeginUndo, TypeOK, Token
  <2> QED
    BY <2>2, <2>4, <2>5, <2>6, <2>7, <2>8, <2>9, <2>10, <2>11, <2>12 DEF Next
<1> QED
  BY <1>1, <1>2, PTL DEF Spec

-----------------------------------------------------------------------------
(***************************************************************************)
(* The identity of calls.                                                  *)
(***************************************************************************)
Unconfirmed == {"fetch", "sent"}   \* the call has recorded no token yet

CallsInv ==
    \* workers
    /\ \A w \in Workers : Busy(w) => job[w].call <= calls
    /\ \A v, w \in Workers : Busy(v) /\ Busy(w) /\ job[v].call = job[w].call => v = w
    \* requests and effects
    /\ \A q \in requests \cup effects : q.call <= calls
    /\ \A q \in requests, e \in effects : q.call # e.call
    /\ \A q, p \in requests : q.call = p.call => q = p
    /\ \A e, f \in effects : e.call = f.call => e = f
    /\ \A w \in Workers, q \in requests \cup effects :
          Busy(w) /\ q.call = job[w].call =>
              /\ job[w].step # "fetch"
              /\ job[w].step = "sent" => q.write = job[w].write /\ q.undoes = job[w].undoes
    \* tokens
    /\ \A t \in tokens : t.id <= calls
    /\ \A t, u \in tokens : t.id = u.id => t = u
    /\ \A w \in Workers, t \in tokens : job[w].step \in Unconfirmed => t.id # job[w].call

\* A step that begins, sends and carries out nothing keeps CallsInv, if the tokens it
\* leaves are still told apart by their calls.
LEMMA QuietCalls ==
    ASSUME TypeOK, CallsInv, UNCHANGED <<calls, effects>>, requests' \subseteq requests,
           \A w \in Workers : Busy(w)' =>
               /\ Busy(w)
               /\ job'[w].call = job[w].call /\ job'[w].write = job[w].write
               /\ job'[w].undoes = job[w].undoes
               /\ job'[w].step \in Unconfirmed => job'[w].step = job[w].step,
           \A w \in Workers : job'[w].step \in Unconfirmed => Busy(w)',
           \A t, u \in tokens' : t.id = u.id => t = u,
           \A u \in tokens' : \/ \E t \in tokens : u.id = t.id
                              \/ /\ u.id <= calls
                                 /\ \A w \in Workers : job'[w].step \in Unconfirmed
                                                         => job'[w].call # u.id
    PROVE  CallsInv'
<1>1. /\ \A w \in Workers : Busy(w)' => job'[w].call <= calls'
      /\ \A v, w \in Workers : Busy(v)' /\ Busy(w)' /\ job'[v].call = job'[w].call => v = w
  BY DEF CallsInv
<1>2. /\ \A q \in requests' \cup effects' : q.call <= calls'
      /\ \A q \in requests', e \in effects' : q.call # e.call
      /\ \A q, p \in requests' : q.call = p.call => q = p
      /\ \A e, f \in effects' : e.call = f.call => e = f
  BY DEF CallsInv
<1>3. \A w \in Workers, q \in requests' \cup effects' :
         Busy(w)' /\ q.call = job'[w].call =>
             /\ job'[w].step # "fetch"
             /\ job'[w].step = "sent" => q.write = job'[w].write /\ q.undoes = job'[w].undoes
  BY DEF CallsInv, Unconfirmed
<1>4. \A u \in tokens' : u.id <= calls'
  BY DEF CallsInv
<1>5. \A w \in Workers, u \in tokens' : job'[w].step \in Unconfirmed => u.id # job'[w].call
  BY DEF CallsInv
<1> QED
  BY <1>1, <1>2, <1>3, <1>4, <1>5 DEF CallsInv

\* What Mark does to the tokens: the same tokens, one of them applied now.
LEMMA MarkedTokens ==
    ASSUME TypeOK, NEW w \in Workers, Mark(w)
    PROVE  /\ \A u \in tokens' : \E t \in tokens :
                 /\ u.id = t.id /\ u.inverse = t.inverse /\ u.seen = t.seen
                 /\ u = IF t.id = job[w].undoes THEN [t EXCEPT !.status = "applied"] ELSE t
                 /\ t.id # job[w].undoes => u.status = t.status
           /\ \A t \in tokens : \E u \in tokens' : u.id = t.id /\ u.inverse = t.inverse
<1>1. \A t \in tokens : t \in Token
  BY DEF TypeOK
<1>2. \A t \in Token : LET u == [t EXCEPT !.status = "applied"]
                       IN  u.id = t.id /\ u.inverse = t.inverse /\ u.seen = t.seen
  BY DEF Token
<1>3. tokens' = {IF t.id = job[w].undoes THEN [t EXCEPT !.status = "applied"] ELSE t :
                    t \in tokens}
  BY DEF Mark
<1> QED
  BY <1>1, <1>2, <1>3

\* Calls are told apart by their number wherever they leave a trace: no two requests,
\* effects or tokens share one, and what the broker did for a call is what it asked.
THEOREM CallIdentity == Spec => []CallsInv
<1>1. Init => CallsInv
  BY DEF Init, CallsInv, Busy
<1>2. TypeInv /\ CallsInv /\ [Next]_vars => CallsInv'
  <2> SUFFICES ASSUME TypeOK, CallsInv, [Next]_vars PROVE CallsInv'
    BY DEF TypeInv
  <2> USE DEF Busy, Unconfirmed
  <2>0. /\ \A t, u \in tokens : t.id = u.id => t = u
        /\ \A w \in Workers : job[w].step \in Unconfirmed => job[w] # Idle
        /\ Idle.step \notin Unconfirmed
    BY JobType DEF CallsInv, Idle
  <2>1. ASSUME NEW w \in Workers, NEW wr, NEW t, Begin(w, wr, t) PROVE CallsInv'
    <3> DEFINE new == [step |-> "fetch", call |-> calls + 1, write |-> wr, undoes |-> t,
                       seen |-> Absent]
    <3>1. /\ job' = [job EXCEPT ![w] = new] /\ calls' = calls + 1
          /\ UNCHANGED <<requests, effects, tokens>>
          /\ new.call = calls + 1 /\ new.step = "fetch"
      BY <2>1 DEF Begin
    <3> HIDE DEF new
    <3>2. job'[w] = new /\ \A v \in Workers : v # w => job'[v] = job[v]
      BY <3>1 DEF TypeOK
    <3>3. \A v \in Workers : job[v] # Idle => job[v].call \in Nat /\ job[v].call <= calls
      BY JobType, BoundsAssumption DEF CallsInv, Job, CallId
    <3>4. \A q \in requests \cup effects : q.call \in Nat /\ q.call <= calls
      BY BoundsAssumption DEF CallsInv, TypeOK, Request, Effect, CallId
    <3>5. \A u \in tokens : u.id \in Nat /\ u.id <= calls
      BY BoundsAssumption DEF CallsInv, TypeOK, Token, CallId
    <3>6. calls \in Nat
      BY BoundsAssumption DEF TypeOK
    <3>7. /\ \A v \in Workers : job'[v] # Idle => job'[v].call <= calls'
          /\ \A u, v \in Workers : job'[u] # Idle /\ job'[v] # Idle
                                   /\ job'[u].call = job'[v].call => u = v
      BY <3>1, <3>2, <3>3, <3>6 DEF CallsInv
    <3>8. \A v \in Workers, q \in requests \cup effects :
             job'[v] # Idle /\ q.call = job'[v].call =>
                 /\ job'[v].step # "fetch"
                 /\ job'[v].step = "sent" => q.write = job'[v].write /\ q.undoes = job'[v].undoes
      BY <3>1, <3>2, <3>4, <3>6 DEF CallsInv
    <3>9. \A v \in Workers, u \in tokens : job'[v].step \in Unconfirmed => u.id # job'[v].call
      BY <3>1, <3>2, <3>5, <3>6 DEF CallsInv
    <3>10. /\ \A q \in requests \cup effects : q.call <= calls'
           /\ \A u \in tokens : u.id <= calls'
      BY <3>1, <3>4, <3>5, <3>6
    <3> QED
      BY <3>1, <3>7, <3>8, <3>9, <3>10 DEF CallsInv
  <2>2. ASSUME NEW w \in Workers, Fetch(w) PROVE CallsInv'
    <3> DEFINE new == [call |-> job[w].call, write |-> job[w].write, undoes |-> job[w].undoes]
    <3>1. /\ job[w].step = "fetch" /\ requests' = requests \cup {new}
          /\ UNCHANGED <<effects, tokens, calls>>
          /\ new.call = job[w].call /\ new.write = job[w].write /\ new.undoes = job[w].undoes
      BY <2>2 DEF Fetch
    <3> HIDE DEF new
    <3>2. /\ job[w] \in Job /\ job[w] # Idle
          /\ job'[w] # Idle /\ job'[w].step = "sent" /\ job'[w].call = job[w].call
          /\ job'[w].write = job[w].write /\ job'[w].undoes = job[w].undoes
          /\ \A v \in Workers : v # w => job'[v] = job[v]
      BY <2>2, <3>1, JobType DEF Fetch, TypeOK, Job, Idle
    <3>3. \A q \in requests \cup effects : q.call # new.call
      BY <3>1, <3>2 DEF CallsInv
    <3>4. \A v \in Workers : v # w /\ job[v] # Idle => job[v].call # new.call
      BY <3>1, <3>2 DEF CallsInv
    <3>5. \A v \in Workers, q \in requests' \cup effects :
             job'[v] # Idle /\ q.call = job'[v].call =>
                 /\ job'[v].step # "fetch"
                 /\ job'[v].step = "sent" => q.write = job'[v].write /\ q.undoes = job'[v].undoes
      BY <3>1, <3>2, <3>3, <3>4 DEF CallsInv
    <3>6. /\ \A v \in Workers : job'[v] # Idle => job'[v].call <= calls
          /\ \A u, v \in Workers : job'[u] # Idle /\ job'[v] # Idle
                                   /\ job'[u].call = job'[v].call => u = v
      BY <3>2, <3>4 DEF CallsInv
    <3>7. /\ \A q \in requests' \cup effects : q.call <= calls
          /\ \A q \in requests', e \in effects : q.call # e.call
          /\ \A q, p \in requests' : q.call = p.call => q = p
      BY <3>1, <3>2, <3>3 DEF CallsInv
    <3>8. \A v \in Workers, u \in tokens : job'[v].step \in Unconfirmed => u.id # job'[v].call
      BY <3>1, <3>2 DEF CallsInv
    <3> QED
      BY <3>1, <3>5, <3>6, <3>7, <3>8 DEF CallsInv
  <2>3. ASSUME NEW w \in Workers, job' = [job EXCEPT ![w] = Idle],
               UNCHANGED <<requests, effects, tokens, calls>>
        PROVE  CallsInv'
    <3>1. job'[w] = Idle /\ \A v \in Workers : v # w => job'[v] = job[v]
      BY <2>3 DEF TypeOK
    <3> QED
      BY <2>0, <2>3, <3>1, QuietCalls
  <2>4. ASSUME NEW w \in Workers, Confirm(w) PROVE CallsInv'
    <3>1. /\ job[w].step = "sent" /\ job[w] \in Job /\ job[w] # Idle
          /\ UNCHANGED <<requests, effects, calls>>
      BY <2>4, JobType DEF Confirm
    <3>2. /\ job'[w] # Idle => /\ job'[w].call = job[w].call /\ job'[w].write = job[w].write
                              /\ job'[w].undoes = job[w].undoes
          /\ job'[w].step \notin Unconfirmed
          /\ \A v \in Workers : v # w => job'[v] = job[v]
      BY <2>0, <2>4, <3>1 DEF Confirm, End, TypeOK, Job
    <3>3. \A u \in tokens' : u \in tokens \/ u.id = job[w].call
      BY <2>4 DEF Confirm
    <3>4. \A t, u \in tokens' : t.id = u.id => t = u
      <4>1. \A t \in tokens : t.id # job[w].call
        BY <3>1 DEF CallsInv
      <4> QED
        BY <2>0, <2>4, <4>1 DEF Confirm
    <3>5. \A v \in Workers : v # w /\ job[v] # Idle => job[v].call # job[w].call
      BY <3>1 DEF CallsInv
    <3>6. job[w].call <= calls
      BY <3>1 DEF CallsInv
    <3> QED
      BY <2>0, <3>1, <3>2, <3>3, <3>4, <3>5, <3>6, QuietCalls
  <2>5. ASSUME NEW w \in Workers, Mark(w) PROVE CallsInv'
    <3>1. job'[w] = Idle /\ \A v \in Workers : v # w => job'[v] = job[v]
      BY <2>5 DEF Mark, End, TypeOK
    <3>2. \A t, u \in tokens' : t.id = u.id => t = u
      BY <2>0, <2>5, MarkedTokens
    <3>3. \A u \in tokens' : \E t \in tokens : u.id = t.id
      BY <2>5, MarkedTokens
    <3>4. UNCHANGED <<calls, effects, requests>>
      BY <2>5 DEF Mark
    <3> QED
      BY <2>0, <3>1, <3>2, <3>3, <3>4, QuietCalls
  <2>6. ASSUME NEW q \in requests, CarryOut(q) PROVE CallsInv'
    <3> DEFINE new == [call |-> q.call, write |-> q.write, undoes |-> q.undoes,
                       over |-> value[q.write.res]]
    <3>1. /\ requests' = requests \ {q} /\ effects' = effects \cup {new}
          /\ UNCHANGED <<tokens, calls, job>>
          /\ new.call = q.call /\ new.write = q.write /\ new.undoes = q.undoes
      BY <2>6 DEF CarryOut
    <3> HIDE DEF new
    <3>2. /\ \A p \in requests' : p.call # q.call
          /\ \A e \in effects : e.call # q.call
      BY <3>1 DEF CallsInv
    <3> QED
      BY <3>1, <3>2 DEF CallsInv
  <2>7. CASE requests' \subseteq requests /\ UNCHANGED <<effects, tokens, calls, job>>
    BY <2>0, <2>7, QuietCalls
  <2> QED
    BY <2>1, <2>2, <2>3, <2>4, <2>5, <2>6, <2>7
       DEF Next, vars, BeginWrite, BeginUndo, Fail, Raise, Interrupt, Crash, End, Drop, OtherWrites
<1> QED
  BY <1>1, <1>2, Typing, PTL DEF Spec

-----------------------------------------------------------------------------
(***************************************************************************)
(* Where tokens and undos come from.                                       *)
(***************************************************************************)
\* The inverse that a call carries out is the one of a token.
FromToken(ts, k, wr) == k # None => \E t \in ts : t.id = k /\ t.inverse = wr

TokensInv ==
    /\ \A t \in tokens : \E e \in effects :
          /\ e.call = t.id
          /\ Undoable(e.write, t.seen)
          /\ t.inverse = Inverse(e.write, t.seen)
    /\ \A q \in requests \cup effects : FromToken(tokens, q.undoes, q.write)
    /\ \A w \in Workers : Busy(w) => FromToken(tokens, job[w].undoes, job[w].write)
    /\ \A w \in Workers : job[w].step = "mark" => \E e \in effects : e.undoes = job[w].undoes
    /\ AppliedMeansInverted

\* A step keeps TokensInv if every token it leaves was there, with nothing but a status
\* changed for a reason, and no request, effect or job stems from anything new.
LEMMA QuietTokens ==
    ASSUME TokensInv, effects' = effects, requests' \subseteq requests,
           \A t \in tokens : \E u \in tokens' : u.id = t.id /\ u.inverse = t.inverse,
           \A u \in tokens' : \E t \in tokens :
              /\ u.id = t.id /\ u.inverse = t.inverse /\ u.seen = t.seen
              /\ u.status = t.status \/ \E e \in effects : e.undoes = u.id,
           \A w \in Workers : Busy(w)' =>
              Busy(w) /\ job'[w].undoes = job[w].undoes /\ job'[w].write = job[w].write,
           \A w \in Workers : job'[w].step = "mark" =>
              /\ Busy(w)'
              /\ job[w].step = "mark" \/ \E e \in effects : e.undoes = job[w].undoes
    PROVE  TokensInv'
<1>1. \A k, wr : FromToken(tokens, k, wr) => FromToken(tokens', k, wr)
  BY DEF FromToken
<1>2. \A q \in requests' \cup effects' : FromToken(tokens', q.undoes, q.write)
  BY <1>1 DEF TokensInv
<1>3. \A w \in Workers : Busy(w)' => FromToken(tokens', job[w].undoes, job[w].write)
  BY <1>1 DEF TokensInv
<1>4. \A w \in Workers : Busy(w)' => FromToken(tokens', job'[w].undoes, job'[w].write)
  BY <1>3
<1>5. \A w \in Workers : job'[w].step = "mark" => \E e \in effects' : e.undoes = job'[w].undoes
  BY DEF TokensInv
<1>6. \A u \in tokens' : \E e \in effects' :
         e.call = u.id /\ Undoable(e.write, u.seen) /\ u.inverse = Inverse(e.write, u.seen)
  BY DEF TokensInv
<1>7. AppliedMeansInverted'
  BY DEF TokensInv, AppliedMeansInverted
<1> QED
  BY <1>2, <1>4, <1>5, <1>6, <1>7 DEF TokensInv, FromToken

\* Every token is the right inverse of a write the broker carried out, every undo under
\* way carries out a token's inverse, and a token is applied only after its inverse.
THEOREM TokenOrigin == Spec => []TokensInv
<1>1. Init => TokensInv
  BY DEF Init, TokensInv, AppliedMeansInverted, Busy, Idle
<1>2. TypeInv /\ CallsInv /\ TokensInv /\ [Next]_vars => TokensInv'
  <2> SUFFICES ASSUME TypeOK, CallsInv, TokensInv, [Next]_vars PROVE TokensInv'
    BY DEF TypeInv
  <2> USE DEF Busy
  <2>0. /\ \A w \in Workers : job[w].step \in {"fetch", "sent", "mark"} => job[w] # Idle
        /\ Idle.step \notin {"fetch", "sent", "mark"}
    BY JobType DEF Idle
  <2>1. ASSUME NEW w \in Workers, NEW wr, NEW k, Begin(w, wr, k), FromToken(tokens, k, wr)
        PROVE  TokensInv'
    <3> DEFINE new == [step |-> "fetch", call |-> calls + 1, write |-> wr, undoes |-> k,
                       seen |-> Absent]
    <3>1. /\ job' = [job EXCEPT ![w] = new] /\ UNCHANGED <<requests, effects, tokens>>
          /\ new.write = wr /\ new.undoes = k /\ new.step = "fetch"
      BY <2>1 DEF Begin
    <3> HIDE DEF new
    <3>2. job'[w] = new /\ \A v \in Workers : v # w => job'[v] = job[v]
      BY <3>1 DEF TypeOK
    <3> QED
      BY <2>1, <3>1, <3>2 DEF TokensInv, FromToken, AppliedMeansInverted
  <2>2. ASSUME NEW w \in Workers, BeginWrite(w) \/ BeginUndo(w) PROVE TokensInv'
    BY <2>1, <2>2 DEF BeginWrite, BeginUndo, FromToken
  <2>3. ASSUME NEW w \in Workers, Fetch(w) PROVE TokensInv'
    <3> DEFINE new == [call |-> job[w].call, write |-> job[w].write, undoes |-> job[w].undoes]
    <3>1. /\ job[w].step = "fetch" /\ requests' = requests \cup {new}
          /\ UNCHANGED <<effects, tokens>>
          /\ new.write = job[w].write /\ new.undoes = job[w].undoes
      BY <2>3 DEF Fetch
    <3> HIDE DEF new
    <3>2. /\ job[w] # Idle /\ job'[w].step = "sent"
          /\ job'[w].write = job[w].write /\ job'[w].undoes = job[w].undoes
          /\ \A v \in Workers : v # w => job'[v] = job[v]
      BY <2>3, <3>1, JobType DEF Fetch, TypeOK, Job
    <3>3. \A q \in requests' \cup effects' : FromToken(tokens', q.undoes, q.write)
      BY <3>1, <3>2 DEF TokensInv, FromToken
    <3> QED
      BY <3>1, <3>2, <3>3 DEF TokensInv, FromToken, AppliedMeansInverted
  <2>4. ASSUME NEW w \in Workers, job' = [job EXCEPT ![w] = Idle],
               UNCHANGED <<requests, effects, tokens>>
        PROVE  TokensInv'
    <3>1. job'[w] = Idle /\ \A v \in Workers : v # w => job'[v] = job[v]
      BY <2>4 DEF TypeOK
    <3> QED
      BY <2>0, <2>4, <3>1, QuietTokens
  <2>5. ASSUME NEW w \in Workers, Confirm(w) PROVE TokensInv'
    <3> DEFINE new == [id |-> job[w].call, seen |-> job[w].seen,
                       inverse |-> Inverse(job[w].write, job[w].seen), status |-> "recorded"]
    <3>1. PICK e \in effects : e.call = job[w].call
      BY <2>5 DEF Confirm
    <3>2. /\ job[w].step = "sent" /\ job[w] \in Job /\ job[w] # Idle
          /\ UNCHANGED <<requests, effects>>
          /\ tokens' \subseteq tokens \cup {new} /\ tokens \subseteq tokens'
          /\ new \in tokens' => new \in tokens \/ Undoable(job[w].write, job[w].seen)
          /\ new.id = job[w].call /\ new.seen = job[w].seen /\ new.status = "recorded"
          /\ new.inverse = Inverse(job[w].write, job[w].seen)
      BY <2>5, JobType DEF Confirm
    <3> HIDE DEF new
    <3>3. e.write = job[w].write /\ e.undoes = job[w].undoes
      BY <3>1, <3>2 DEF CallsInv
    <3>4. /\ job'[w] # Idle => job'[w].write = job[w].write /\ job'[w].undoes = job[w].undoes
          /\ job'[w].step = "mark" => job'[w] # Idle
          /\ \A v \in Workers : v # w => job'[v] = job[v]
      BY <2>5, <3>2 DEF Confirm, End, TypeOK, Job, Idle
    <3>5. \A u \in tokens' : \E f \in effects' :
             f.call = u.id /\ Undoable(f.write, u.seen) /\ u.inverse = Inverse(f.write, u.seen)
      BY <3>1, <3>2, <3>3 DEF TokensInv
    <3>6. /\ \A q \in requests \cup effects : FromToken(tokens', q.undoes, q.write)
          /\ \A v \in Workers : job'[v] # Idle => FromToken(tokens', job'[v].undoes, job'[v].write)
      <4>1. \A k, wr : FromToken(tokens, k, wr) => FromToken(tokens', k, wr)
        BY <3>2 DEF FromToken
      <4>2. \A v \in Workers : job'[v] # Idle =>
               job[v] # Idle /\ job'[v].write = job[v].write /\ job'[v].undoes = job[v].undoes
        BY <3>2, <3>4
      <4> QED
        BY <4>1, <4>2 DEF TokensInv
    <3>7. \A v \in Workers : job'[v].step = "mark" => \E f \in effects : f.undoes = job'[v].undoes
      BY <3>1, <3>3, <3>4 DEF TokensInv
    <3>8. AppliedMeansInverted'
      BY <3>2 DEF TokensInv, AppliedMeansInverted
    <3> QED
      BY <3>2, <3>5, <3>6, <3>7, <3>8 DEF TokensInv, FromToken
  <2>6. ASSUME NEW w \in Workers, Mark(w) PROVE TokensInv'
    <3>1. job'[w] = Idle /\ \A v \in Workers : v # w => job'[v] = job[v]
      BY <2>6 DEF Mark, End, TypeOK
    <3>2. PICK e \in effects : e.undoes = job[w].undoes
      BY <2>6 DEF Mark, TokensInv
    <3>3. /\ UNCHANGED <<requests, effects>>
          /\ \A t \in tokens : \E u \in tokens' : u.id = t.id /\ u.inverse = t.inverse
          /\ \A u \in tokens' : \E t \in tokens :
                /\ u.id = t.id /\ u.inverse = t.inverse /\ u.seen = t.seen
                /\ u.status = t.status \/ \E f \in effects : f.undoes = u.id
      <4>1. ASSUME NEW u \in tokens'
            PROVE  \E t \in tokens :
                      /\ u.id = t.id /\ u.inverse = t.inverse /\ u.seen = t.seen
                      /\ u.status = t.status \/ \E f \in effects : f.undoes = u.id
        <5>1. PICK t \in tokens :
                 /\ u.id = t.id /\ u.inverse = t.inverse /\ u.seen = t.seen
                 /\ t.id # job[w].undoes => u.status = t.status
          BY <2>6, MarkedTokens
        <5> QED
          BY <3>2, <5>1
      <4> QED
        BY <2>6, <4>1, MarkedTokens DEF Mark
    <3> QED
      BY <2>0, <3>1, <3>3, QuietTokens
  <2>7. ASSUME NEW q \in requests, CarryOut(q) PROVE TokensInv'
    <3> DEFINE new == [call |-> q.call, write |-> q.write, undoes |-> q.undoes,
                       over |-> value[q.write.res]]
    <3>1. /\ requests' = requests \ {q} /\ effects' = effects \cup {new}
          /\ UNCHANGED <<tokens, job>>
          /\ new.write = q.write /\ new.undoes = q.undoes
      BY <2>7 DEF CarryOut
    <3> HIDE DEF new
    <3> QED
      BY <3>1 DEF TokensInv, FromToken, AppliedMeansInverted
  <2>8. CASE requests' \subseteq requests /\ UNCHANGED <<effects, tokens, job>>
    BY <2>0, <2>8, QuietTokens
  <2> QED
    BY <2>2, <2>3, <2>4, <2>5, <2>6, <2>7, <2>8
       DEF Next, vars, Fail, Raise, Interrupt, Crash, End, Drop, OtherWrites
<1> QED
  BY <1>1, <1>2, Typing, CallIdentity, PTL DEF Spec

-----------------------------------------------------------------------------
(***************************************************************************)
(* The properties the runs check, for all constants.                       *)
(***************************************************************************)

\* Every token stands for a change the broker made to its resource.
THEOREM TokensHaveEffects == Spec => []TokenHasEffect
<1>1. TokensInv => TokenHasEffect
  <2>1. \A wr, was : Inverse(wr, was).res = wr.res
    BY DEF Inverse
  <2> SUFFICES ASSUME TokensInv, NEW t \in tokens
               PROVE  \E e \in effects : e.call = t.id /\ e.write.res = t.inverse.res
    BY DEF TokenHasEffect
  <2>2. PICK e \in effects : e.call = t.id /\ t.inverse = Inverse(e.write, t.seen)
    BY DEF TokensInv
  <2> QED
    BY <2>1, <2>2
<1> QED
  BY <1>1, TokenOrigin, PTL

\* An applied token's inverse was carried out.
THEOREM AppliedWereInverted == Spec => []AppliedMeansInverted
<1>1. TokensInv => AppliedMeansInverted
  BY DEF TokensInv
<1> QED
  BY <1>1, TokenOrigin, PTL

\* Carrying out an inverse restores what its write replaced, for every kind of resource,
\* if the before-state is fetched uncut and nobody interfered with the resource.
THEOREM InversesRestore == (\A v \in Values : Clip[v] = v) => (Spec => UndoRestores)
<1> SUFFICES ASSUME \A v \in Values : Clip[v] = v PROVE Spec => UndoRestores
  OBVIOUS
<1>1. TypeInv /\ CallsInv /\ TokensInv /\ [Next]_vars => Restores
  <2> SUFFICES ASSUME TypeInv, CallsInv, TokensInv, [Next]_vars,
                      NEW e \in effects, NEW f \in effects' \ effects, NEW t \in tokens,
                      e.call = t.id, f.undoes = t.id, t.seen = e.over
               PROVE  value'[t.inverse.res] = e.over
    BY DEF Restores
  <2>1. PICK q \in requests : CarryOut(q)
    BY DEF Next, vars, BeginWrite, BeginUndo, Begin, Fetch, Fail, Raise, Interrupt, Confirm, Mark, Crash,
           End, Drop, OtherWrites
  <2>2. /\ q.undoes = t.id /\ value' = [value EXCEPT ![q.write.res] = q.write.to]
    BY <2>1 DEF CarryOut
  <2>3. q.undoes # None
    BY <2>2 DEF TypeInv, TypeOK, Token, CallId, None
  <2>4. PICK u \in tokens : u.id = t.id /\ u.inverse = q.write
    BY <2>2, <2>3 DEF TokensInv, FromToken
  <2>5. q.write = t.inverse
    BY <2>4 DEF CallsInv
  <2>6. Undoable(e.write, t.seen) /\ t.inverse = Inverse(e.write, t.seen)
    BY DEF TokensInv, CallsInv
  <2>7. /\ e.write \in Write /\ e.write.res \in Resources /\ e.over \in State
        /\ t.inverse.res = e.write.res
    BY <2>6 DEF TypeInv, TypeOK, Effect, Write, Inverse
  <2>8. value'[t.inverse.res] = t.inverse.to
    BY <2>2, <2>5, <2>7 DEF TypeInv, TypeOK
  <2>9. t.inverse.to = e.over
    <3>1. CASE Kind[e.write.res] = "queue" /\ e.write.to = Absent
      BY <2>6, <3>1 DEF Inverse
    <3>2. CASE Kind[e.write.res] = "queue" /\ e.write.to # Absent
      BY <2>6, <3>2 DEF Inverse, Undoable
    <3>3. CASE Kind[e.write.res] # "queue"
      BY <2>6, <2>7, <3>3 DEF Inverse, State
    <3> QED
      BY <3>1, <3>2, <3>3
  <2> QED
    BY <2>8, <2>9
<1> QED
  BY <1>1, Typing, CallIdentity, TokenOrigin, PTL DEF Spec, UndoRestores

-----------------------------------------------------------------------------
(***************************************************************************)
(* The end of an undo.                                                     *)
(***************************************************************************)
\* A worker that is about to mark a token: the broker carried out its own request.
OwnEffect == \A w \in Workers : job[w].step = "mark" => \E e \in effects : e.call = job[w].call

\* What a step does to the workers other than beginning a call: they keep their call or
\* end it, and only a confirmed one reaches the marking of its token.
LEMMA JobSteps ==
    ASSUME TypeOK, NEW w \in Workers,
           \/ Fetch(w) \/ Fail(w) \/ Raise(w) \/ Interrupt(w) \/ Confirm(w) \/ Mark(w) \/ Crash(w)
    PROVE  /\ job[w] # Idle
           /\ \A v \in Workers : v # w => job'[v] = job[v]
           /\ job'[w] # Idle => job'[w].call = job[w].call /\ job'[w].undoes = job[w].undoes
           /\ job'[w].step = "mark" => job'[w] # Idle /\ Confirm(w)
<1>1. job[w] # Idle /\ job[w] \in Job
  BY JobType DEF Fetch, Fail, Raise, Interrupt, Confirm, Mark, Crash
<1>2. CASE Fetch(w)
  BY <1>1, <1>2 DEF Fetch, TypeOK, Job
<1>3. CASE Fail(w) \/ Raise(w) \/ Interrupt(w) \/ Mark(w) \/ Crash(w)
  BY <1>1, <1>3 DEF Fail, Raise, Interrupt, Mark, Crash, End, TypeOK, Idle
<1>4. CASE Confirm(w)
  BY <1>1, <1>4 DEF Confirm, End, TypeOK, Job, Idle
<1> QED
  BY <1>1, <1>2, <1>3, <1>4

\* A token is marked only by a call whose own request was carried out.
LEMMA OwnEffects == Spec => []OwnEffect
<1>1. Init => OwnEffect
  BY DEF Init, OwnEffect, Idle
<1>2. TypeInv /\ OwnEffect /\ [Next]_vars => OwnEffect'
  <2> SUFFICES ASSUME TypeOK, OwnEffect, [Next]_vars PROVE OwnEffect'
    BY DEF TypeInv
  <2>1. effects \subseteq effects'
    BY DEF Next, vars, BeginWrite, BeginUndo, Begin, Fetch, Fail, Raise, Interrupt, Confirm,
           Mark, Crash, CarryOut, Drop, OtherWrites
  <2>2. ASSUME NEW w \in Workers, BeginWrite(w) \/ BeginUndo(w) PROVE OwnEffect'
    <3>1. /\ job'[w].step = "fetch"
          /\ \A v \in Workers : v # w => job'[v] = job[v]
      BY <2>2 DEF BeginWrite, BeginUndo, Begin, TypeOK
    <3> QED
      BY <2>1, <3>1 DEF OwnEffect
  <2>3. ASSUME NEW w \in Workers,
               \/ Fetch(w) \/ Fail(w) \/ Raise(w) \/ Interrupt(w) \/ Confirm(w) \/ Mark(w) \/ Crash(w)
        PROVE  OwnEffect'
    <3>1. job'[w].step = "mark" => \E e \in effects' : e.call = job'[w].call
      BY <2>1, <2>3, JobSteps DEF Confirm
    <3> QED
      BY <2>1, <2>3, <3>1, JobSteps DEF OwnEffect
  <2>4. ASSUME UNCHANGED job PROVE OwnEffect'
    BY <2>1, <2>4 DEF OwnEffect
  <2> QED
    BY <2>2, <2>3, <2>4 DEF Next, vars, CarryOut, Drop, OtherWrites
<1> QED
  BY <1>1, <1>2, Typing, PTL DEF Spec

\* An inverse ends with an error payload inside undo_apply.
FailsUndo(w) == job[w].undoes # None /\ Fail(w)

\* undo_apply is interrupted before its inverse took effect.
CutsUndo(w) ==
    /\ job[w].undoes # None
    /\ ~ \E e \in effects : e.call = job[w].call
    /\ Interrupt(w)

Misreports == \E w \in Workers : job[w] # Idle /\ (FailsUndo(w) \/ CutsUndo(w))

ReportingSpec == Init /\ [][Next /\ ~Misreports]_vars

\* Every undo_apply audited as 'ok', however it ended, has put its inverse to the broker.
OkUndoInverted == \A r \in reports : r[2] = "ok" => \E e \in effects : e.call = r[1]

\* undo_apply is audited as 'ok' without having put its inverse to the broker in two
\* ways only: the inverse returned an error payload (the run undo_audit), or an
\* interrupt cut the call off before the inverse took effect.  No race, crash or failed
\* storage does it.
THEOREM UndoReportsHonest == ReportingSpec => [](OkUndoInverted /\ FailedUndoNotOk)
<1>1. Init => OkUndoInverted
  BY DEF Init, OkUndoInverted
<1>2. TypeInv /\ OwnEffect /\ OkUndoInverted /\ [Next /\ ~Misreports]_vars => OkUndoInverted'
  <2> SUFFICES ASSUME TypeOK, OwnEffect, OkUndoInverted, [Next /\ ~Misreports]_vars
               PROVE  OkUndoInverted'
    BY DEF TypeInv
  <2>1. effects \subseteq effects'
    BY DEF Next, vars, BeginWrite, BeginUndo, Begin, Fetch, Fail, Raise, Interrupt, Confirm, Mark,
           Crash, CarryOut, Drop, OtherWrites
  <2>2. ASSUME UNCHANGED reports PROVE OkUndoInverted'
    BY <2>1, <2>2 DEF OkUndoInverted
  <2>3. ASSUME NEW w \in Workers, Mark(w) PROVE OkUndoInverted'
    BY <2>1, <2>3 DEF Mark, End, OwnEffect, OkUndoInverted
  <2>4. ASSUME NEW w \in Workers, Raise(w) PROVE OkUndoInverted'
    BY <2>1, <2>4 DEF Raise, End, OkUndoInverted
  <2>5. ASSUME NEW w \in Workers, Fail(w) PROVE OkUndoInverted'
    <3>1. UNCHANGED reports
      BY <2>5, JobType DEF Fail, FailsUndo, Misreports, End, vars
    <3> QED
      BY <2>2, <3>1
  <2>6. ASSUME NEW w \in Workers, Interrupt(w) PROVE OkUndoInverted'
    <3>1. job[w] # Idle
      BY <2>6 DEF Interrupt
    <3>2. job'[w] = Idle
      BY <2>6 DEF Interrupt, End, TypeOK
    <3>3. ~CutsUndo(w)
      BY <3>1, <3>2 DEF Misreports, vars
    <3>4. \/ UNCHANGED reports
          \/ /\ \E e \in effects : e.call = job[w].call
             /\ reports' = reports \cup {<<job[w].call, "ok", "interrupted">>}
      BY <2>6, <3>3 DEF Interrupt, End, CutsUndo
    <3> QED
      BY <2>1, <2>2, <3>4 DEF OkUndoInverted
  <2>7. ASSUME NEW w \in Workers, Confirm(w) PROVE OkUndoInverted'
    BY <2>2, <2>7 DEF Confirm, End
  <2> QED
    BY <2>2, <2>3, <2>4, <2>5, <2>6, <2>7
       DEF Next, vars, BeginWrite, BeginUndo, Begin, Fetch, Crash, CarryOut, Drop, OtherWrites
<1>3. [Next /\ ~Misreports]_vars => [Next]_vars
  OBVIOUS
<1>4. OkUndoInverted => FailedUndoNotOk
  BY DEF OkUndoInverted, FailedUndoNotOk
<1> QED
  BY <1>1, <1>2, <1>3, <1>4, Typing, OwnEffects, PTL DEF ReportingSpec, Spec

-----------------------------------------------------------------------------
(***************************************************************************)
(* Applying a token twice.  The run undo_once shows that undo_apply can    *)
(* carry out a token's inverse twice.  The theorem says by which two ways  *)
(* only: two workers apply it at once, or the end of one is not the end of *)
(* its call, whose request is still under way or was carried out.          *)
(***************************************************************************)
\* No two workers apply the same token.
LoneUndo ==
    \A v, w \in Workers :
       Busy(v) /\ Busy(w) /\ job[v].undoes # None /\ job[v].undoes = job[w].undoes => v = w

\* A worker leaves an undo that took effect, or still may, without marking the token.
Abandons(w) ==
    /\ Busy(w)
    /\ job[w].undoes # None
    /\ Fail(w) \/ Raise(w) \/ Interrupt(w) \/ Crash(w)
    /\ \E q \in requests \cup effects : q.call = job[w].call

CarefulSpec == Init /\ [][Next /\ LoneUndo' /\ \A w \in Workers : ~Abandons(w)]_vars

\* A request or effect of an undo belongs to the one worker that applies its token, or
\* the token is settled.
OnceInv ==
    /\ LoneUndo
    /\ OncePerToken
    /\ \A w \in Workers, q \in requests \cup effects :
          Busy(w) /\ q.call = job[w].call => q.undoes = job[w].undoes
    /\ \A q \in requests : q.undoes # None => \E w \in Workers : Busy(w) /\ job[w].call = q.call
    /\ \A e \in effects : e.undoes # None =>
          \/ \E w \in Workers : Busy(w) /\ job[w].call = e.call
          \/ \A t \in tokens : t.id = e.undoes => t.status = "applied"
    /\ \A w \in Workers, t \in tokens :
          Busy(w) /\ t.id = job[w].undoes => t.status = "recorded"

\* A step keeps OnceInv if it leaves tokens and effects alone and only moves workers on
\* in their calls or ends calls that left no trace of an undo.
LEMMA QuietOnce ==
    ASSUME OnceInv, LoneUndo', UNCHANGED <<effects, tokens>>, requests' \subseteq requests,
           \A w \in Workers : Busy(w)' =>
               Busy(w) /\ job'[w].call = job[w].call /\ job'[w].undoes = job[w].undoes,
           \A w \in Workers : Busy(w) /\ ~Busy(w)' =>
               \A q \in requests \cup effects : q.call = job[w].call => q.undoes = None
    PROVE  OnceInv'
<1>1. \A w \in Workers, q \in requests' \cup effects' :
         Busy(w)' /\ q.call = job'[w].call => q.undoes = job'[w].undoes
  BY DEF OnceInv
<1>2. \A w \in Workers, q \in requests \cup effects :
         Busy(w) /\ job[w].call = q.call /\ q.undoes # None => Busy(w)'
  OBVIOUS
<1>3. /\ \A q \in requests' : q.undoes # None => \E w \in Workers : Busy(w)' /\ job'[w].call = q.call
      /\ \A e \in effects' : e.undoes # None =>
          \/ \E w \in Workers : Busy(w)' /\ job'[w].call = e.call
          \/ \A t \in tokens' : t.id = e.undoes => t.status = "applied"
  BY <1>2 DEF OnceInv
<1>4. \A w \in Workers, t \in tokens' : Busy(w)' /\ t.id = job'[w].undoes => t.status = "recorded"
  BY DEF OnceInv
<1> QED
  BY <1>1, <1>3, <1>4 DEF OnceInv, OncePerToken

\* undo_apply carries out a token's inverse twice only if two workers apply the token at
\* once, or one leaves its undo (error payload, exception, crash) although its request
\* took effect or still may: in behaviours with neither, every token is applied once.
THEOREM AppliedOnce == CarefulSpec => []OncePerToken
<1> DEFINE Careful == Next /\ LoneUndo' /\ \A w \in Workers : ~Abandons(w)
<1>1. ASSUME Init PROVE OnceInv
  <2>1. \A w \in Workers : ~Busy(w)
    BY <1>1 DEF Init, Busy
  <2>2. requests = {} /\ effects = {} /\ tokens = {}
    BY <1>1 DEF Init
  <2>3. LoneUndo /\ OncePerToken
    BY <2>1, <2>2 DEF LoneUndo, OncePerToken
  <2> QED
    BY <2>1, <2>2, <2>3 DEF OnceInv
<1>2. TypeInv /\ CallsInv /\ TokensInv /\ OwnEffect /\ OnceInv /\ [Careful]_vars => OnceInv'
  <2> SUFFICES ASSUME TypeOK, CallsInv, TokensInv, OwnEffect, OnceInv, [Careful]_vars
               PROVE  OnceInv'
    BY DEF TypeInv
  <2> USE DEF Busy
  <2>0. LoneUndo'
    <3>1. CASE UNCHANGED vars
      BY <3>1 DEF vars, OnceInv, LoneUndo
    <3> QED
      BY <3>1
  <2>1. ASSUME NEW w \in Workers, BeginWrite(w) \/ BeginUndo(w) PROVE OnceInv'
    <3>1. /\ job[w] = Idle /\ job'[w].call = calls + 1 /\ calls' = calls + 1
          /\ \A v \in Workers : v # w => job'[v] = job[v]
          /\ UNCHANGED <<requests, effects, tokens>>
      BY <2>1 DEF BeginWrite, BeginUndo, Begin, TypeOK
    <3>2. /\ \A t \in tokens : t.id = job'[w].undoes => t.status = "recorded"
      <4>1. CASE BeginWrite(w)
        <5>1. job'[w].undoes = None
          BY <4>1 DEF BeginWrite, Begin, TypeOK
        <5> QED
          BY <5>1 DEF TypeOK, Token, CallId, None
      <4>2. CASE BeginUndo(w)
        <5>1. PICK t \in tokens : t.status = "recorded" /\ job'[w].undoes = t.id
          BY <4>2 DEF BeginUndo, Begin, TypeOK
        <5> QED
          BY <5>1 DEF CallsInv
      <4> QED
        BY <2>1, <4>1, <4>2
    <3>3. \A q \in requests \cup effects : q.call # calls + 1
      BY BoundsAssumption DEF CallsInv, TypeOK, Request, Effect, CallId
    <3>4. \A v \in Workers : Busy(v) => v # w
      BY <3>1
    <3> QED
      BY <2>0, <3>1, <3>2, <3>3, <3>4 DEF OnceInv, OncePerToken
  <2>2. ASSUME NEW w \in Workers, Fetch(w) PROVE OnceInv'
    <3> DEFINE new == [call |-> job[w].call, write |-> job[w].write, undoes |-> job[w].undoes]
    <3>1. /\ requests' = requests \cup {new} /\ UNCHANGED <<effects, tokens>>
          /\ new.call = job[w].call /\ new.undoes = job[w].undoes
      BY <2>2 DEF Fetch
    <3> HIDE DEF new
    <3>2. /\ job'[w] # Idle /\ job[w] # Idle
          /\ job'[w].call = job[w].call /\ job'[w].undoes = job[w].undoes
          /\ \A v \in Workers : v # w => job'[v] = job[v]
      <4>1. job'[w].step = "sent"
        BY <2>2, JobType DEF Fetch, TypeOK, Job
      <4> QED
        BY <2>2, <4>1, JobSteps DEF Idle
    <3>3. \A v \in Workers : Busy(v) /\ job[v].call = job[w].call => v = w
      BY <3>2 DEF CallsInv
    <3> QED
      BY <2>0, <3>1, <3>2, <3>3 DEF OnceInv, OncePerToken
  \* A call ends: an undo only without a trace.
  <2>3. ASSUME NEW w \in Workers, Fail(w) \/ Raise(w) \/ Interrupt(w) \/ Crash(w) PROVE OnceInv'
    <3>1. /\ UNCHANGED <<requests, effects, tokens>> /\ job'[w] = Idle
          /\ \A v \in Workers : v # w => job'[v] = job[v]
          /\ job[w] # Idle
      BY <2>3, JobSteps DEF Fail, Raise, Interrupt, Crash, End, TypeOK
    <3>2. ~Abandons(w)
      BY <2>3, <3>1 DEF vars
    <3>3. \A q \in requests \cup effects : q.call = job[w].call => q.undoes = None
      BY <2>3, <3>1, <3>2 DEF Abandons, OnceInv
    <3> QED
      BY <2>0, <3>1, <3>3, QuietOnce
  <2>4. ASSUME NEW w \in Workers, Confirm(w) PROVE OnceInv'
    <3>1. /\ job[w].step = "sent" /\ job[w] # Idle /\ UNCHANGED <<requests, effects>>
          /\ \A v \in Workers : v # w => job'[v] = job[v]
          /\ job'[w] # Idle => job'[w].call = job[w].call /\ job'[w].undoes = job[w].undoes
      BY <2>4, JobSteps DEF Confirm
    <3>2. job[w].undoes # None => job'[w] # Idle
      BY <2>4, <3>1, JobType DEF Confirm, TypeOK, Job, Idle
    \* The token it records is new, nothing was undone with it yet.
    <3>3. \A t \in tokens' : t \in tokens \/ (t.id = job[w].call /\ t.status = "recorded")
      BY <2>4 DEF Confirm
    <3>4. \A e \in effects : e.undoes # None => e.undoes # job[w].call
      BY <3>1 DEF TokensInv, FromToken, CallsInv, Unconfirmed
    <3>5. \A v \in Workers : Busy(v)' => Busy(v) /\ job'[v].call = job[v].call
                                         /\ job'[v].undoes = job[v].undoes
      BY <3>1
    <3>6. \A v \in Workers, q \in requests \cup effects :
             Busy(v) /\ job[v].call = q.call /\ q.undoes # None => Busy(v)'
      BY <3>1, <3>2 DEF OnceInv
    <3>7. \A e \in effects : e.undoes # None =>
             \/ \E v \in Workers : Busy(v)' /\ job'[v].call = e.call
             \/ \A t \in tokens' : t.id = e.undoes => t.status = "applied"
      BY <3>3, <3>4, <3>5, <3>6 DEF OnceInv
    <3>8. \A v \in Workers, t \in tokens' : Busy(v)' /\ t.id = job'[v].undoes
                                            => t.status = "recorded"
      BY <3>3, <3>5 DEF OnceInv
    <3> QED
      BY <2>0, <3>1, <3>5, <3>6, <3>7, <3>8 DEF OnceInv, OncePerToken
  <2>5. ASSUME NEW w \in Workers, Mark(w) PROVE OnceInv'
    <3>1. /\ job[w].step = "mark" /\ job[w] # Idle /\ job'[w] = Idle
          /\ UNCHANGED <<requests, effects>>
          /\ \A v \in Workers : v # w => job'[v] = job[v]
      BY <2>5, JobSteps DEF Mark, End, TypeOK
    <3>2. \A q \in requests : q.call # job[w].call
      BY <3>1 DEF OwnEffect, CallsInv
    <3>3. \A u \in tokens' : \E t \in tokens :
             /\ u.id = t.id
             /\ IF t.id = job[w].undoes THEN u.status = "applied" ELSE u.status = t.status
      <4>1. \A t \in tokens : [t EXCEPT !.status = "applied"].status = "applied"
        BY DEF TypeOK, Token
      <4> TAKE u \in tokens'
      <4>2. PICK t \in tokens :
               /\ u.id = t.id
               /\ u = IF t.id = job[w].undoes THEN [t EXCEPT !.status = "applied"] ELSE t
        BY <2>5, MarkedTokens
      <4> QED
        BY <4>1, <4>2
    <3>4. \A e \in effects : e.undoes # None =>
             \/ \E v \in Workers : Busy(v)' /\ job'[v].call = e.call
             \/ \A u \in tokens' : u.id = e.undoes => u.status = "applied"
      <4> SUFFICES ASSUME NEW e \in effects, e.undoes # None,
                          \A v \in Workers : Busy(v)' => job'[v].call # e.call,
                          NEW u \in tokens', u.id = e.undoes
                   PROVE  u.status = "applied"
        OBVIOUS
      <4>1. CASE e.call = job[w].call
        BY <3>1, <3>3, <4>1 DEF OnceInv
      <4>2. CASE e.call # job[w].call
        BY <3>1, <3>3, <4>2 DEF OnceInv
      <4> QED
        BY <4>1, <4>2
    <3>5. \A v \in Workers, u \in tokens' : Busy(v)' /\ u.id = job'[v].undoes
                                            => u.status = "recorded"
      <4> SUFFICES ASSUME NEW v \in Workers, NEW u \in tokens', Busy(v)', u.id = job'[v].undoes
                   PROVE  u.status = "recorded"
        OBVIOUS
      <4>1. v # w /\ job'[v] = job[v]
        BY <3>1
      <4>2. PICK t \in tokens : /\ u.id = t.id
                                /\ t.id # job[w].undoes => u.status = t.status
        BY <3>3
      <4>3. job[v].undoes # job[w].undoes
        BY <3>1, <4>1, <4>2 DEF OnceInv, LoneUndo, TypeOK, Token, CallId, None
      <4> QED
        BY <4>1, <4>2, <4>3 DEF OnceInv
    <3> QED
      BY <2>0, <3>1, <3>2, <3>4, <3>5 DEF OnceInv, OncePerToken
  \* The inverse of a token is carried out: its worker is the only one that applies it.
  <2>6. ASSUME NEW q \in requests, CarryOut(q) PROVE OnceInv'
    <3> DEFINE new == [call |-> q.call, write |-> q.write, undoes |-> q.undoes,
                       over |-> value[q.write.res]]
    <3>1. /\ requests' = requests \ {q} /\ effects' = effects \cup {new}
          /\ UNCHANGED <<tokens, job>> /\ new.call = q.call /\ new.undoes = q.undoes
      BY <2>6 DEF CarryOut
    <3> HIDE DEF new
    <3>2. ASSUME NEW e \in effects, e.undoes = q.undoes, q.undoes # None PROVE FALSE
      <4>1. PICK w \in Workers : Busy(w) /\ job[w].call = q.call
        BY <3>2 DEF OnceInv
      <4>2. job[w].undoes = q.undoes
        BY <4>1 DEF OnceInv
      <4>3. PICK t \in tokens : t.id = q.undoes
        BY <3>2 DEF TokensInv, FromToken
      <4>4. t.status = "recorded"
        BY <4>1, <4>2, <4>3 DEF OnceInv
      <4>5. PICK v \in Workers : Busy(v) /\ job[v].call = e.call
        BY <3>2, <4>3, <4>4 DEF OnceInv
      <4>6. job[v].undoes = job[w].undoes
        BY <3>2, <4>2, <4>5 DEF OnceInv
      <4>7. v = w
        BY <3>2, <4>1, <4>2, <4>5, <4>6 DEF OnceInv, LoneUndo
      <4> QED
        BY <4>1, <4>5, <4>7 DEF CallsInv
    <3>3. OncePerToken'
      BY <3>1, <3>2 DEF OnceInv, OncePerToken
    <3> QED
      BY <2>0, <3>1, <3>3 DEF OnceInv
  <2>7. CASE requests' \subseteq requests /\ UNCHANGED <<effects, tokens, job>>
    BY <2>0, <2>7, QuietOnce
  <2> QED
    BY <2>1, <2>2, <2>3, <2>4, <2>5, <2>6, <2>7 DEF Next, vars, Drop, OtherWrites
<1>3. OnceInv => OncePerToken
  BY DEF OnceInv
<1>4. [Careful]_vars => [Next]_vars
  OBVIOUS
<1> QED
  BY <1>1, <1>2, <1>3, <1>4, Typing, CallIdentity, TokenOrigin, OwnEffects, PTL
     DEF CarefulSpec, Spec

-----------------------------------------------------------------------------
(***************************************************************************)
(* Refinement: the tokens keep the promises of UndoLog.                    *)
(***************************************************************************)
Changed  == {e.call : e \in effects}
Promised == {<<t.id, t.inverse>> : t \in tokens}
Inverted == {e.undoes : e \in effects} \ {None}
Settled  == {t.id : t \in Applied}

\* A step that changes no resource, carries out nothing and keeps the tokens shows
\* UndoLog nothing.
LEMMA QuietLog ==
    ASSUME UNCHANGED <<value, effects, tokens>>
    PROVE  UNCHANGED U!logVars
BY DEF U!logVars, Applied

\* The tokens and their use implement UndoLog: whatever the interleaving, failures and
\* losses, an inverse is promised only for a change that was made, once and for all, the
\* broker makes it exactly as promised, and a token is settled only after that, for good.
THEOREM UndoRefinement == Spec => ImplementsUndoLog
<1>1. Init => U!Init
  BY DEF Init, U!Init, Applied
<1>2. TypeInv /\ TypeInv' /\ CallsInv /\ TokensInv /\ [Next]_vars => [U!Next]_(U!logVars)
  <2> SUFFICES ASSUME TypeOK, TypeOK', CallsInv, TokensInv, [Next]_vars
               PROVE  U!Next \/ UNCHANGED U!logVars
    BY DEF TypeInv
  \* The broker carries out a request: an inverse as promised, or some change.
  <2>1. ASSUME NEW q \in requests, CarryOut(q) PROVE U!Next
    <3> DEFINE new == [call |-> q.call, write |-> q.write, undoes |-> q.undoes,
                       over |-> value[q.write.res]]
    <3>1. /\ effects' = effects \cup {new} /\ UNCHANGED tokens
          /\ value' = [value EXCEPT ![q.write.res] = q.write.to]
          /\ new.call = q.call /\ new.undoes = q.undoes
      BY <2>1 DEF CarryOut
    <3> HIDE DEF new
    <3>2. /\ q.call \in CallId /\ q.write \in U!Write /\ q.undoes \in {None} \cup CallId
      BY DEF TypeOK, Request, Write, U!Write
    <3>3. q.call \in CallId \ Changed /\ Changed' = Changed \cup {q.call}
      BY <3>1, <3>2 DEF CallsInv, Changed
    <3>4. Promised' = Promised /\ Settled' = Settled
      BY <3>1 DEF Promised, Settled, Applied
    <3>5. CASE q.undoes = None
      <4>1. Inverted' = Inverted
        BY <3>1, <3>5 DEF Inverted
      <4>2. U!Change(q.call)
        BY <3>1, <3>2, <3>3, <3>4, <4>1
           DEF U!Change, U!Make, Changed, Promised, Inverted, Settled
      <4> QED
        BY <3>3, <4>2 DEF U!Next, Changed
    <3>6. CASE q.undoes # None
      <4>1. Inverted' = Inverted \cup {q.undoes}
        BY <3>1, <3>6 DEF Inverted
      <4>2. PICK t \in tokens : t.id = q.undoes /\ t.inverse = q.write
        BY <3>6 DEF TokensInv, FromToken
      <4> DEFINE p == <<t.id, t.inverse>>
      <4>3. p \in Promised /\ p[1] = q.undoes /\ p[2] = q.write
        BY <4>2 DEF Promised
      <4> HIDE DEF p
      <4>4. U!Invert(q.call, p)
        BY <3>1, <3>3, <3>4, <4>1, <4>3
           DEF U!Invert, U!Make, Changed, Promised, Inverted, Settled
      <4> QED
        BY <3>3, <4>3, <4>4 DEF U!Next, Changed, Promised
    <3> QED
      BY <3>5, <3>6
  \* A confirmed write leaves a token, or none.
  <2>2. ASSUME NEW w \in Workers, Confirm(w) PROVE U!Next \/ UNCHANGED U!logVars
    <3> DEFINE new == [id |-> job[w].call, seen |-> job[w].seen,
                       inverse |-> Inverse(job[w].write, job[w].seen), status |-> "recorded"]
    <3>1. /\ job[w].step = "sent" /\ job[w] \in Job /\ UNCHANGED <<value, effects>>
          /\ job[w].call \in CallId
          /\ \E e \in effects : e.call = job[w].call
          /\ tokens' = tokens \/ tokens' = tokens \cup {new}
          /\ new.id = job[w].call /\ new.status = "recorded"
      BY <2>2, JobType DEF Confirm, Job
    <3> HIDE DEF new
    <3> PICK c \in CallId : c = job[w].call
      BY <3>1
    <3>2. CASE tokens' = tokens
      BY <3>1, <3>2, QuietLog
    <3>3. CASE tokens' = tokens \cup {new}
      <4>1. Promised' = Promised \cup {<<c, new.inverse>>}
        BY <3>1, <3>3 DEF Promised
      <4>2. Settled' = Settled
        BY <3>1, <3>3 DEF Settled, Applied
      <4>3. Changed' = Changed /\ Inverted' = Inverted
        BY <3>1 DEF Changed, Inverted
      <4>4. c \in Changed
        BY <3>1 DEF Changed
      <4>5. \A p \in Promised : p[1] # c
        BY <3>1 DEF Promised, CallsInv, Unconfirmed
      <4>6. new.inverse \in U!Write
        BY <3>3 DEF TypeOK, Token, Write, U!Write
      <4>7. U!Promise(c)
        BY <3>1, <4>1, <4>2, <4>3, <4>5, <4>6
           DEF U!Promise, Changed, Promised, Inverted, Settled
      <4>8. U!Next
        BY <4>4, <4>7 DEF U!Next, Changed
      <4> QED
        BY <4>8
    <3> QED
      BY <3>1, <3>2, <3>3
  \* A token is marked, for the first time or once more.
  <2>3. ASSUME NEW w \in Workers, Mark(w) PROVE U!Next \/ UNCHANGED U!logVars
    <3> PICK k : k = job[w].undoes
      OBVIOUS
    <3> DEFINE Marked(t) == IF t.id = k THEN [t EXCEPT !.status = "applied"] ELSE t
    <3>1. /\ job[w].step = "mark" /\ UNCHANGED <<value, effects>>
          /\ tokens' = {Marked(t) : t \in tokens}
      BY <2>3 DEF Mark
    <3>2. Changed' = Changed /\ Inverted' = Inverted
      BY <3>1 DEF Changed, Inverted
    <3>3. \A t \in tokens : /\ Marked(t).id = t.id /\ Marked(t).inverse = t.inverse
                            /\ Marked(t).status = "applied" <=> t.id = k \/ t.status = "applied"
                            /\ k \notin CallId => Marked(t) = t
      BY DEF TypeOK, Token
    <3>4. CASE k = None
      <4>1. tokens' = tokens
        BY <3>1, <3>3, <3>4 DEF CallId, None
      <4> QED
        BY <3>1, <4>1, QuietLog
    <3>5. CASE k # None
      <4>1. PICK e \in effects : e.undoes = k
        BY <3>1 DEF TokensInv
      <4>2. k \in Inverted
        BY <3>5, <4>1 DEF Inverted
      <4>3. PICK t \in tokens : t.id = k
        BY <3>5, <4>1 DEF TokensInv, FromToken
      <4> HIDE DEF Marked
      <4>4. Promised' = Promised
        BY <3>1, <3>3 DEF Promised
      <4>5. Settled' = Settled \cup {k}
        BY <3>1, <3>3, <4>3 DEF Settled, Applied
      <4>6. CASE k \in Settled
        BY <3>1, <3>2, <4>4, <4>5, <4>6
           DEF U!logVars, Changed, Promised, Inverted, Settled
      <4>7. CASE k \notin Settled
        <5>1. U!Settle(k)
          BY <3>1, <3>2, <4>4, <4>5 DEF U!Settle, Changed, Promised, Inverted, Settled
        <5>2. U!Next
          BY <4>2, <4>7, <5>1 DEF U!Next, Inverted, Settled
        <5> QED
          BY <5>2
      <4> QED
        BY <4>6, <4>7
    <3> QED
      BY <3>4, <3>5
  \* Another client's change.
  <2>4. CASE OtherWrites
    <3>1. PICK wr \in Write : value' = [value EXCEPT ![wr.res] = wr.to]
      BY <2>4 DEF OtherWrites
    <3>2. wr \in U!Write
      BY DEF Write, U!Write
    <3>3. UNCHANGED <<Changed, Promised, Inverted, Settled>>
      BY <2>4 DEF OtherWrites, Changed, Promised, Inverted, Settled, Applied
    <3>4. U!OtherChange
      BY <3>1, <3>2, <3>3 DEF U!OtherChange, U!Make, Changed, Promised, Inverted, Settled
    <3> QED
      BY <3>4 DEF U!Next
  \* The other steps.
  <2>5. CASE UNCHANGED <<value, effects, tokens>>
    BY <2>5, QuietLog
  <2> QED
    BY <2>1, <2>2, <2>3, <2>4, <2>5
       DEF Next, vars, BeginWrite, BeginUndo, Begin, Fetch, Fail, Raise, Interrupt, Crash, Drop
<1> QED
  BY <1>1, <1>2, Typing, CallIdentity, TokenOrigin, PTL DEF Spec, ImplementsUndoLog, U!Spec
=============================================================================
