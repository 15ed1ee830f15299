------------------------- MODULE SecretStoreProofs -------------------------
(***************************************************************************)
(* TLAPS proofs about SecretStore, for any processes, targets and          *)
(* passwords: as long as commands do not clash, secrets.enc is the sum of  *)
(* the changes made, .env is put aside only when its secrets are in it,    *)
(* config.yaml names no target before its secret is.  Even when commands   *)
(* clash, the server connects with nothing that was never in the file, and *)
(* without AUTH only where there was no secret or the file did not open.   *)
(***************************************************************************)
EXTENDS SecretStore, TLAPS

-----------------------------------------------------------------------------
(***************************************************************************)
(* Changes.                                                                *)
(***************************************************************************)

Change == Put \cup Rotate

\* What a change of one secret leaves.
LEMMA Putting ==
    ASSUME NEW s \in Store, NEW e \in Put
    PROVE  /\ Apply(s, e) \in Store
           /\ Apply(s, e).data[e.name] = e.to
           /\ \A n \in Names \ {e.name} : Apply(s, e).data[n] = s.data[n]
<1>1. e.name \in Names /\ e.to \in Entry /\ e.name # None
  BY NamesAssumption DEF Put
<1> QED
  BY <1>1 DEF Apply, Store

\* A new master password leaves every secret.
LEMMA Rotating ==
    ASSUME NEW s \in Store, NEW e \in Rotate
    PROVE  Apply(s, e) \in Store /\ Apply(s, e).data = s.data
BY DEF Apply, Store, Rotate

\* A change of a store is a store.
LEMMA Changing ==
    ASSUME NEW s \in Store, NEW e \in Change
    PROVE  Apply(s, e) \in Store
BY Putting, Rotating DEF Change

\* The two kinds of change are told apart by their name.
LEMMA Kinds ==
    /\ \A e \in Put : e.name \in Names /\ e.to \in Entry
    /\ \A e \in Rotate : e.name = None
    /\ Put \cap Rotate = {}
BY NamesAssumption DEF Put, Rotate

\* Files that are missing, empty or torn are no stores.
LEMMA Distinct == None \notin Store /\ Empty \notin Store /\ Torn \notin Store
                  /\ None # Empty /\ None # Torn
BY FilesAssumption

-----------------------------------------------------------------------------
(***************************************************************************)
(* Types, and what a command holds at each of its labels.                  *)
(***************************************************************************)

Active == {"loaded", "opened", "written", "rename", "save", "saving"}
Busy(p) == pc[p] \in {"opened", "written"}

HoldsStore(p) == pc[p] \in Active => mem[p] \in Store

HoldsChange(p) ==
    /\ pc[p] \in {"opened", "written"} => edit[p] \in Change
    /\ pc[p] = "save" => edit[p] \in Put

\* The change being persisted is one its command may ask for, and is made.
AsAsked(p) ==
    Busy(p) =>
        /\ edit[p] \in Put =>
              /\ mem[p].data[edit[p].name] = edit[p].to
              /\ edit[p].to = Absent => job[p] = "rm"
        /\ edit[p] \in Rotate => job[p] = "rotate"
        /\ job[p] = "migrate" =>
              /\ edit[p].name \in todo[p]
              /\ edit[p].to = Legacy[edit[p].name]

Imports(p) == todo[p] \subseteq LegacyNames

Saves(p) == pc[p] \in {"save", "saving"} => job[p] = "init"

TypeInv ==
    /\ TypeOK
    /\ \A p \in Procs :
          HoldsStore(p) /\ HoldsChange(p) /\ AsAsked(p) /\ Imports(p) /\ Saves(p)

\* What a command may ask of its store is a change of the kind its job allows.
LEMMA WantedType ==
    ASSUME TypeOK, NEW p \in Procs, NEW e \in Wanted(p)
    PROVE  /\ e \in Change
           /\ e \in Put => (e.to = Absent => job[p] = "rm" \/ job[p] = "migrate")
           /\ e \in Rotate => job[p] = "rotate"
           /\ job[p] = "migrate" => e.name \in todo[p] /\ e.to = Legacy[e.name]
<1>1. job[p] \in Job
  BY DEF TypeOK
<1>2. CASE job[p] \in {"set", "init"}
  BY <1>2, Kinds DEF Wanted, Change
<1>3. CASE job[p] = "rm"
  BY <1>3, Kinds DEF Wanted, Change
<1>4. CASE job[p] = "rotate"
  <2>1. e \in Rotate
    BY <1>4 DEF Wanted
  <2> QED
    BY <2>1, <1>4, Kinds DEF Change
<1>5. CASE job[p] = "migrate"
  <2>1. e \in Put /\ e.name \in todo[p] /\ e.to = Legacy[e.name]
    BY <1>5 DEF Wanted
  <2> QED
    BY <2>1, <1>5, Kinds DEF Change
<1> QED
  BY <1>1, <1>2, <1>3, <1>4, <1>5 DEF Job

\* What a file has for a name.
LEMMA HasType ==
    ASSUME NEW file \in Content \cup {None}, NEW n \in Names
    PROVE  Has(file, n) \subseteq Entry
<1>1. file \in {Empty, Torn} \/ file = None \/ file \in Store
  BY DEF Content
<1>2. file \in Store => file.data[n] \in Entry
  BY DEF Store
<1> QED
  BY <1>1, <1>2 DEF Has, Held, NoSecrets, Entry

\* The history of the file has its type.
LEMMA WatchType ==
    ASSUME held \in [Names -> SUBSET Entry], enc' \in Content \cup {None}, Watch
    PROVE  held' \in [Names -> SUBSET Entry]
<1>1. \A n \in Names : held[n] \cup Has(enc', n) \subseteq Entry
  BY HasType
<1> QED
  BY <1>1 DEF Watch

\* Every variable keeps its type, and each command's store, change and step fit
\* together.
THEOREM Typing == Spec => []TypeInv
<1>1. Init => TypeInv
  <2>1. Init => TypeOK
    <3> SUFFICES ASSUME Init
                 PROVE  TypeOK
      OBVIOUS
    <3>1. NoTargets \in Targets /\ NoTargets \in [Names -> Entry \cup {None}]
      BY DEF NoTargets, Targets
    <3>2. held \in [Names -> SUBSET Entry] /\ unread = {} /\ "set" \in Job /\ 0 \in 0 .. MaxEdits
      BY BoundAssumption DEF Init, Entry, Job
    <3> QED
      BY <3>1, <3>2 DEF Init, TypeOK
  <2>2. Init => \A p \in Procs :
                   HoldsStore(p) /\ HoldsChange(p) /\ AsAsked(p) /\ Imports(p) /\ Saves(p)
    BY DEF Init, HoldsStore, HoldsChange, AsAsked, Imports, Saves, Active, Busy
  <2> QED
    BY <2>1, <2>2 DEF TypeInv
<1>2. TypeInv /\ [Next]_vars => TypeInv'
  <2> SUFFICES ASSUME TypeInv, [Next]_vars
               PROVE  TypeInv'
    OBVIOUS
  <2> DEFINE Holds(q) == /\ HoldsStore(q) /\ HoldsChange(q) /\ AsAsked(q)
                         /\ Imports(q) /\ Saves(q)
  <2>0. TypeOK /\ \A q \in Procs : Holds(q)
    BY DEF TypeInv
  <2>t. (\A q \in Procs : Holds(q)') /\ TypeOK' => TypeInv'
    BY DEF TypeInv
  <2> DEFINE Same(q) == /\ pc'[q] = pc[q] /\ mem'[q] = mem[q] /\ edit'[q] = edit[q]
                        /\ job'[q] = job[q] /\ todo'[q] = todo[q]
  <2>s. ASSUME NEW q \in Procs, Same(q)
        PROVE  Holds(q)'
    BY <2>0, <2>s DEF HoldsStore, HoldsChange, AsAsked, Imports, Saves, Busy
  <2>1. ASSUME NEW p \in Procs, NEW j \in Job, NEW pw \in Passwords, Unlock(p, j, pw)
        PROVE  TypeInv'
    <3>1. PICK s \in Unlocked(pw) : mem' = [mem EXCEPT ![p] = s]
      BY <2>1 DEF Unlock
    <3>2. s \in Store
      BY <3>1 DEF Unlocked, Store, NoSecrets, Entry
    <3>3. TypeOK'
      BY <2>0, <2>1, <3>1, <3>2 DEF TypeOK, Unlock, Goto, files, server, history,
         LegacyNames, NoTargets, Targets
    <3>4. \A q \in Procs \ {p} : Same(q)
      BY <2>0, <2>1, <3>1 DEF TypeOK, Unlock, Goto
    <3>5. Holds(p)'
      BY <2>0, <2>1, <3>1, <3>2
      DEF TypeOK, Unlock, Goto, HoldsStore, HoldsChange, AsAsked, Imports, Saves, Busy, LegacyNames
    <3> QED
      BY <3>3, <3>4, <3>5, <2>s, <2>t
  <2>2. ASSUME NEW p \in Procs, Open(p)
        PROVE  TypeInv'
    <3>1. PICK e \in Wanted(p) : /\ edit' = [edit EXCEPT ![p] = e]
                                 /\ mem' = [mem EXCEPT ![p] = Apply(mem[p], e)]
      BY <2>2 DEF Open
    <3>2. /\ e \in Change
          /\ e \in Put => (e.to = Absent => job[p] = "rm" \/ job[p] = "migrate")
          /\ e \in Rotate => job[p] = "rotate"
          /\ job[p] = "migrate" => e.name \in todo[p] /\ e.to = Legacy[e.name]
      BY <2>0, WantedType
    <3>3. mem[p] \in Store
      BY <2>0, <2>2 DEF Open, HoldsStore, Active
    <3>4. Apply(mem[p], e) \in Store
      BY <3>2, <3>3, Changing
    <3>5. TypeOK'
      BY <2>0, <2>2, <3>1, <3>2, <3>4, BoundAssumption
      DEF TypeOK, Open, OpenFile, Goto, server, Content, Change
    <3>6. \A q \in Procs \ {p} : Same(q)
      BY <2>0, <2>2, <3>1 DEF TypeOK, Open, Goto
    <3>7. HoldsStore(p)' /\ HoldsChange(p)' /\ Imports(p)' /\ Saves(p)'
      BY <2>0, <2>2, <3>1, <3>2, <3>4
      DEF TypeOK, Open, Goto, HoldsStore, HoldsChange, Imports, Saves
    <3>8. e \in Put => Apply(mem[p], e).data[e.name] = e.to
      BY <3>3, Putting
    <3>9. job[p] = "migrate" => Legacy[e.name] # Absent
      BY <2>0, <3>2 DEF Imports, LegacyNames
    <3>10. AsAsked(p)'
      BY <2>0, <2>2, <3>1, <3>2, <3>8, <3>9 DEF TypeOK, Open, Goto, AsAsked
    <3> QED
      BY <3>5, <3>6, <3>7, <3>10, <2>s, <2>t
  <2>3. ASSUME NEW p \in Procs, Write(p)
        PROVE  TypeInv'
    <3>1. mem[p] \in Store
      BY <2>0, <2>3 DEF Write, HoldsStore, Active
    <3>2. Written(p, tmp) \subseteq Content /\ Written(p, enc) \subseteq Content
      BY <3>1 DEF Written, Content
    <3>6. enc' \in Content \cup {None}
      BY <2>0, <2>3, <3>2 DEF TypeOK, Write, WriteBlob
    <3>7. held' \in [Names -> SUBSET Entry]
      BY <2>0, <2>3, <3>6, WatchType DEF Write, TypeOK
    <3>3. TypeOK'
      BY <2>0, <2>3, <3>2, <3>7
      DEF TypeOK, Write, WriteBlob, Goto, server
    <3>4. \A q \in Procs \ {p} : Same(q)
      BY <2>0, <2>3 DEF TypeOK, Write, Goto
    <3>5. Holds(p)'
      BY <2>0, <2>3
      DEF TypeOK, Write, Goto, HoldsStore, HoldsChange, AsAsked, Imports, Saves, Busy, Active
    <3> QED
      BY <3>3, <3>4, <3>5, <2>s, <2>t
  <2>4. ASSUME NEW p \in Procs, Replace(p)
        PROVE  TypeInv'
    <3>1. edit[p] \in Change /\ mem[p] \in Store
      BY <2>0, <2>4 DEF Replace, HoldsChange, HoldsStore, Active
    <3>2. due' \in Store
      BY <2>0, <2>4, <3>1, Changing DEF Replace, TypeOK
    <3>3. held' \in [Names -> SUBSET Entry]
      BY <2>0, <2>4, WatchType DEF Replace, TypeOK
    <3>4. removed' \subseteq Names
      <4>1. job[p] = "rm" => edit[p] \in Put
        BY <2>0, <2>4, <3>1 DEF Replace, AsAsked, Busy, Change
      <4> QED
        BY <2>0, <2>4, <4>1, Kinds DEF Replace, TypeOK
    <3>5. AfterEdit(p) \in {"save", "rename", "loaded", "done"}
      BY <2>0 DEF AfterEdit, TypeOK, Job
    <3>6. enc' \in Content \cup {None} /\ tmp' \in Content \cup {None}
      BY <2>0, <2>4 DEF Replace, TypeOK
    <3>7. fd' \in [Procs -> {"closed", "tmp", "enc", "gone"}]
      BY <2>0, <2>4 DEF Replace, TypeOK
    <3>8. TypeOK'
      BY <2>0, <2>4, <3>2, <3>3, <3>4, <3>5, <3>6, <3>7
      DEF TypeOK, Replace, Goto, server
    <3>9. \A q \in Procs \ {p} : Same(q)
      BY <2>0, <2>4 DEF TypeOK, Replace, Goto
    <3>10. job[p] = "init" => edit[p] \in Put
      BY <2>0, <2>4, <3>1 DEF Replace, AsAsked, Busy, Change
    <3>11. AfterEdit(p) = "save" => job[p] = "init"
      BY <2>0 DEF AfterEdit, TypeOK, Job
    <3>12. Holds(p)'
      BY <2>0, <2>4, <3>1, <3>5, <3>10, <3>11
      DEF TypeOK, Replace, Goto, HoldsStore, HoldsChange, AsAsked, Imports, Saves, Busy
    <3> QED
      BY <3>8, <3>9, <3>12, <2>s, <2>t
  <2>5. ASSUME NEW p \in Procs, ReplaceFails(p) \/ Rename(p)
        PROVE  TypeInv'
    <3>1. TypeOK'
      BY <2>0, <2>5 DEF TypeOK, ReplaceFails, Rename, Goto, files, server, history
    <3>2. \A q \in Procs \ {p} : Same(q)
      BY <2>0, <2>5 DEF TypeOK, ReplaceFails, Rename, Goto
    <3>3. Holds(p)'
      BY <2>0, <2>5
      DEF TypeOK, ReplaceFails, Rename, Goto, HoldsStore, HoldsChange, AsAsked, Imports, Saves,
          Busy, Active
    <3> QED
      BY <3>1, <3>2, <3>3, <2>s, <2>t
  <2>6. ASSUME NEW p \in Procs, NEW n \in Names, NoAuth(p, n)
        PROVE  TypeInv'
    <3>1. [name |-> n, to |-> Absent] \in Put
      BY DEF Put, Entry
    <3>2. TypeOK'
      BY <2>0, <2>6, <3>1 DEF TypeOK, NoAuth, Goto, files, server, history
    <3>3. \A q \in Procs \ {p} : Same(q)
      BY <2>0, <2>6 DEF TypeOK, NoAuth, Goto
    <3>4. Holds(p)'
      BY <2>0, <2>6, <3>1
      DEF TypeOK, NoAuth, Goto, HoldsStore, HoldsChange, AsAsked, Imports, Saves, Busy, Active
    <3> QED
      BY <3>2, <3>3, <3>4, <2>s, <2>t
  <2>7. ASSUME NEW p \in Procs, NEW n \in Names, Forget(p, n)
        PROVE  TypeInv'
    <3>1. TypeOK'
      BY <2>0, <2>7 DEF TypeOK, Forget, Targets, files, server, history
    <3>2. \A q \in Procs : Same(q)
      BY <2>0, <2>7 DEF TypeOK, Forget
    <3> QED
      BY <3>1, <3>2, <2>s, <2>t
  <2>8. ASSUME NEW p \in Procs, SaveBegin(p) \/ SaveEnd(p)
        PROVE  TypeInv'
    <3>1. targets' \in [Procs -> Targets] /\ config' \in Targets
      <4>1. CASE SaveBegin(p)
        BY <2>0, <4>1 DEF TypeOK, SaveBegin, Targets, NoTargets
      <4>2. CASE SaveEnd(p)
        BY <2>0, <4>2 DEF TypeOK, SaveEnd
      <4> QED
        BY <2>8, <4>1, <4>2
    <3>4. TypeOK'
      BY <2>0, <2>8, <3>1 DEF TypeOK, SaveBegin, SaveEnd, Goto, server, history
    <3>2. \A q \in Procs \ {p} : Same(q)
      BY <2>0, <2>8 DEF TypeOK, SaveBegin, SaveEnd, Goto
    <3>3. Holds(p)'
      BY <2>0, <2>8
      DEF TypeOK, SaveBegin, SaveEnd, Goto, HoldsStore, HoldsChange, AsAsked, Imports, Saves,
          Busy, Active
    <3> QED
      BY <3>4, <3>2, <3>3, <2>s, <2>t
  <2>9. ASSUME NEW p \in Procs, End(p)
        PROVE  TypeInv'
    <3>1. TypeOK'
      BY <2>0, <2>9
      DEF TypeOK, End, Goto, Targets, NoTargets, Job, files, server, history
    <3>2. \A q \in Procs \ {p} : Same(q)
      BY <2>0, <2>9 DEF TypeOK, End, Goto
    <3>3. Holds(p)'
      BY <2>0, <2>9
      DEF TypeOK, End, Goto, HoldsStore, HoldsChange, AsAsked, Imports, Saves, Busy, Active
    <3> QED
      BY <3>1, <3>2, <3>3, <2>s, <2>t
  <2>10. ASSUME NEW t \in Names, NEW pw \in Passwords, NEW readable \in BOOLEAN,
                Connect(t, pw, readable)
         PROVE  TypeInv'
    <3>1. PICK s \in Consult(pw, readable) : cache' = s /\ conn' = [conn EXCEPT ![t] = Held(s)[t]]
      BY <2>10 DEF Connect
    <3>2. s \in Store \cup {None}
      BY <2>0, <3>1 DEF Consult, Unlocked, TypeOK
    <3>3. Held(s)[t] \in Entry
      BY <3>2 DEF Held, NoSecrets, Store, Entry
    <3>4. TypeOK'
      BY <2>0, <2>10, <3>1, <3>2, <3>3
      DEF TypeOK, Connect, files, command
    <3>5. \A q \in Procs : Same(q)
      BY <2>10 DEF Connect, command
    <3> QED
      BY <3>4, <3>5, <2>s, <2>t
  <2>11. CASE ServerRestart
    <3>1. \A n \in Names : Has(enc, n) \subseteq Entry
      BY <2>0, HasType DEF TypeOK
    <3>2. TypeOK'
      BY <2>0, <2>11, <3>1 DEF TypeOK, ServerRestart, NoTargets, files, command
    <3>3. \A q \in Procs : Same(q)
      BY <2>11 DEF ServerRestart, command
    <3> QED
      BY <3>2, <3>3, <2>s, <2>t
  <2>12. CASE UNCHANGED vars
    <3>1. TypeOK'
      BY <2>0, <2>12 DEF TypeOK, vars, files, command, server, history
    <3>2. \A q \in Procs : Same(q)
      BY <2>12 DEF vars, command
    <3> QED
      BY <3>1, <3>2, <2>s, <2>t
  <2> QED
    BY <2>1, <2>2, <2>3, <2>4, <2>5, <2>6, <2>7, <2>8, <2>9, <2>10, <2>11, <2>12
    DEF Next, Server, Command
<1> QED
  BY <1>1, <1>2, PTL DEF Spec

-----------------------------------------------------------------------------
(***************************************************************************)
(* One change after the other.                                             *)
(***************************************************************************)

\* One command at a time is in _persist, and it alone has the temporary file.
AloneInPersist ==
    /\ \A p, q \in Procs : Busy(p) /\ Busy(q) => p = q
    /\ \A p \in Procs : /\ fd[p] = IF pc[p] = "opened" THEN "tmp" ELSE "closed"
                        /\ pc[p] = "opened" => tmp = Empty
                        /\ pc[p] = "written" => tmp = mem[p]

\* What it is about to put in place is the store with its change.
UponDue == \A p \in Procs : Busy(p) /\ due # None => mem[p] = Apply(due, edit[p])

StoreInv == ~clashed => enc = due /\ AloneInPersist /\ UponDue

\* Steps of a command that is not in _persist, and of the server.
Aside(p) ==
    \/ \E j \in Job, pw \in Passwords : Unlock(p, j, pw)
    \/ Rename(p) \/ SaveBegin(p) \/ SaveEnd(p)
    \/ \E n \in Names : NoAuth(p, n) \/ Forget(p, n)

\* They touch no file of the store, and no command's change.
LEMMA AsideStep ==
    ASSUME TypeOK, (\E p \in Procs : Aside(p)) \/ Server \/ UNCHANGED vars
    PROVE  /\ UNCHANGED <<enc, tmp, fd, due, overlapped, clashed>>
           /\ \A p \in Procs : \/ pc'[p] = pc[p] /\ mem'[p] = mem[p] /\ edit'[p] = edit[p]
                               \/ ~Busy(p) /\ ~Busy(p)'
<1>1. CASE Server \/ UNCHANGED vars
  BY <1>1 DEF Server, Connect, ServerRestart, vars, files, command, history
<1>2. ASSUME NEW p \in Procs, Rename(p) \/ SaveBegin(p) \/ SaveEnd(p)
      PROVE  /\ UNCHANGED <<enc, tmp, fd, due, overlapped, clashed>>
             /\ \A q \in Procs : \/ pc'[q] = pc[q] /\ mem'[q] = mem[q] /\ edit'[q] = edit[q]
                                 \/ ~Busy(q) /\ ~Busy(q)'
  BY <1>2 DEF Rename, SaveBegin, SaveEnd, Goto, TypeOK, history, Busy
<1>3. ASSUME NEW p \in Procs, NEW n \in Names, NoAuth(p, n) \/ Forget(p, n)
      PROVE  /\ UNCHANGED <<enc, tmp, fd, due, overlapped, clashed>>
             /\ \A q \in Procs : \/ pc'[q] = pc[q] /\ mem'[q] = mem[q] /\ edit'[q] = edit[q]
                                 \/ ~Busy(q) /\ ~Busy(q)'
  BY <1>3 DEF NoAuth, Forget, Goto, TypeOK, files, history, Busy
<1>4. ASSUME NEW p \in Procs, NEW j \in Job, NEW pw \in Passwords, Unlock(p, j, pw)
      PROVE  /\ UNCHANGED <<enc, tmp, fd, due, overlapped, clashed>>
             /\ \A q \in Procs : \/ pc'[q] = pc[q] /\ mem'[q] = mem[q] /\ edit'[q] = edit[q]
                                 \/ ~Busy(q) /\ ~Busy(q)'
  BY <1>4 DEF Unlock, Goto, TypeOK, files, history, Busy
<1> QED
  BY <1>1, <1>2, <1>3, <1>4 DEF Aside

\* A rename by the only command in _persist puts its store in place and leaves no other
\* handle on any file.
LEMMA AloneReplace ==
    ASSUME TypeOK, AloneInPersist, NEW p \in Procs, Replace(p)
    PROVE  /\ enc' = mem[p]
           /\ \A q \in Procs : fd'[q] = "closed" /\ ~Busy(q)'
<1>1. Busy(p) /\ enc' = mem[p]
  BY DEF Replace, AloneInPersist, Busy
<1>2. AfterEdit(p) \in {"save", "rename", "loaded", "done"}
  BY DEF AfterEdit, TypeOK, Job
<1>3. \A q \in Procs : fd[q] = "closed"
  BY <1>1 DEF AloneInPersist, Busy, Replace
<1> QED
  BY <1>1, <1>2, <1>3 DEF Replace, Goto, AloneInPersist, Busy, TypeOK

\* The only command in _persist writes its store, whole, to the temporary file.
LEMMA AloneWrite ==
    ASSUME AloneInPersist, NEW p \in Procs, Write(p)
    PROVE  tmp' = mem[p] /\ enc' = enc
<1>1. fd[p] = "tmp" /\ tmp = Empty
  BY DEF AloneInPersist, Write
<1> QED
  BY <1>1 DEF Write, WriteBlob, Written

\* The only command in _persist stays alone until another opens the temporary file.
LEMMA AloneStep ==
    ASSUME TypeInv, AloneInPersist, [Next]_vars, \A p \in Procs : Open(p) => ~Overlaps(p)
    PROVE  AloneInPersist'
<1>0. TypeOK
  BY DEF TypeInv
<1>1. CASE (\E p \in Procs : Aside(p)) \/ Server \/ UNCHANGED vars
  BY <1>0, <1>1, AsideStep DEF AloneInPersist, Busy
<1>2. ASSUME NEW p \in Procs, Open(p)
      PROVE  AloneInPersist'
  <2>1. \A q \in Procs \ {p} : ~Busy(q)
    BY <1>2 DEF Overlaps, Busy
  <2> QED
    BY <1>0, <1>2, <2>1 DEF Open, OpenFile, Goto, AloneInPersist, Busy, TypeOK
<1>3. ASSUME NEW p \in Procs, Write(p)
      PROVE  AloneInPersist'
  BY <1>0, <1>3, AloneWrite DEF Write, Goto, AloneInPersist, Busy, TypeOK
<1>4. ASSUME NEW p \in Procs, Replace(p)
      PROVE  AloneInPersist'
  BY <1>0, <1>4, AloneReplace DEF AloneInPersist, Busy
\* Nobody else renames the temporary file of a command that is alone.
<1>5. ASSUME NEW p \in Procs, ReplaceFails(p)
      PROVE  FALSE
  BY <1>5, Distinct DEF TypeInv, HoldsStore, Active, AloneInPersist, ReplaceFails
<1>6. ASSUME NEW p \in Procs, End(p)
      PROVE  AloneInPersist'
  BY <1>0, <1>6 DEF End, Goto, files, AloneInPersist, Busy, TypeOK
<1> QED
  BY <1>1, <1>2, <1>3, <1>4, <1>5, <1>6 DEF Next, Command, Aside

\* Every step keeps the store as the persisted changes make it.
LEMMA StoreStep == TypeInv /\ StoreInv /\ [Next]_vars => StoreInv'
<1> SUFFICES ASSUME TypeInv, StoreInv, [Next]_vars
             PROVE  StoreInv'
  OBVIOUS
<1>0. TypeOK
  BY DEF TypeInv
<1>1. clashed => clashed'
  BY DEF Next, Server, Command, Connect, ServerRestart, Unlock, Open, Write, Replace, ReplaceFails,
         Rename, NoAuth, Forget, SaveBegin, SaveEnd, End, history, vars
<1> SUFFICES ASSUME ~clashed'
             PROVE  enc' = due' /\ AloneInPersist' /\ UponDue'
  BY DEF StoreInv
<1>2. enc = due /\ AloneInPersist /\ UponDue
  BY <1>1 DEF StoreInv
<1>3. \A p \in Procs : Open(p) => ~Overlaps(p) /\ ~Outdated(p)
  BY DEF Open
<1>4. AloneInPersist'
  BY <1>2, <1>3, AloneStep
<1>5. CASE (\E p \in Procs : Aside(p)) \/ Server \/ UNCHANGED vars
  BY <1>0, <1>2, <1>4, <1>5, AsideStep DEF UponDue, Busy
<1>6. ASSUME NEW p \in Procs, Open(p)
      PROVE  enc' = due' /\ UponDue'
  <2>1. PICK e \in Wanted(p) : /\ edit' = [edit EXCEPT ![p] = e]
                               /\ mem' = [mem EXCEPT ![p] = Apply(mem[p], e)]
    BY <1>6 DEF Open
  <2>2. /\ enc' = enc /\ due' = due /\ pc' = [pc EXCEPT ![p] = "opened"]
        /\ due # None => mem[p] = due
    BY <1>3, <1>6 DEF Open, OpenFile, Goto, Outdated
  <2> QED
    BY <1>0, <1>2, <2>1, <2>2 DEF UponDue, Busy, TypeOK
<1>7. ASSUME NEW p \in Procs, Write(p)
      PROVE  enc' = due' /\ UponDue'
  BY <1>0, <1>2, <1>7, AloneWrite DEF Write, Goto, history, UponDue, Busy, TypeOK
<1>8. ASSUME NEW p \in Procs, Replace(p)
      PROVE  enc' = due' /\ UponDue'
  <2>1. due' = mem[p]
    BY <1>2, <1>8 DEF Replace, UponDue, Busy
  <2> QED
    BY <1>0, <1>2, <1>8, <2>1, AloneReplace DEF UponDue
<1>9. ASSUME NEW p \in Procs, ReplaceFails(p)
      PROVE  FALSE
  BY <1>2, <1>9, Distinct DEF TypeInv, HoldsStore, Active, AloneInPersist, ReplaceFails
<1>10. ASSUME NEW p \in Procs, End(p)
       PROVE  enc' = due' /\ UponDue'
  BY <1>0, <1>2, <1>10 DEF End, Goto, files, history, UponDue, Busy, TypeOK
<1> QED
  BY <1>4, <1>5, <1>6, <1>7, <1>8, <1>9, <1>10 DEF Next, Command, Aside

\* It always is.
LEMMA Storing == Spec => []StoreInv
<1>1. Init => StoreInv
  BY DEF Init, StoreInv, AloneInPersist, UponDue, Busy
<1> QED
  BY <1>1, StoreStep, Typing, PTL DEF Spec

\* secrets.enc is the sum of the changes that were made, wherever a command was
\* killed: _persist writes aside and renames.
THEOREM NothingLost == Spec => []Lossless
<1>1. StoreInv => Lossless
  BY DEF StoreInv, Lossless
<1> QED
  BY <1>1, Storing, PTL

\* One command at a time is in _persist, as long as it never happened otherwise: whoever
\* overwrites whose change.
PersistInv == ~overlapped => AloneInPersist

\* It stays that way.
LEMMA PersistStep == TypeInv /\ PersistInv /\ [Next]_vars => PersistInv'
<1> SUFFICES ASSUME TypeInv, PersistInv, [Next]_vars, ~overlapped'
             PROVE  AloneInPersist'
  BY DEF PersistInv
<1>1. overlapped => overlapped'
  BY DEF Next, Server, Command, Connect, ServerRestart, Unlock, Open, Write, Replace, ReplaceFails,
         Rename, NoAuth, Forget, SaveBegin, SaveEnd, End, history, vars
<1>2. \A p \in Procs : Open(p) => ~Overlaps(p)
  BY DEF Open
<1> QED
  BY <1>1, <1>2, AloneStep DEF PersistInv

\* secrets.enc only ever changes to the whole store that one command derived, whatever
\* commands were killed and whoever overwrites whose change, unless two of them are inside
\* _persist at the same time.
THEOREM Swapping == Spec => SwappedWhole
<1>1. Init => PersistInv
  BY DEF Init, PersistInv, AloneInPersist, Busy
<1>2. TypeInv /\ PersistInv /\ [Next]_vars => Swapped
  <2> SUFFICES ASSUME TypeInv, AloneInPersist, Next, enc' # enc
               PROVE  \E p \in Procs : pc[p] = "written" /\ pc'[p] # "written" /\ enc' = mem[p]
    BY DEF PersistInv, Swapped, vars, files
  <2>0. TypeOK
    BY DEF TypeInv
  <2>1. \A p \in Procs : ~Open(p) /\ ~Write(p) /\ ~ReplaceFails(p) /\ ~End(p)
    BY AloneWrite DEF Open, OpenFile, ReplaceFails, End, files
  <2>2. ~Server /\ \A p \in Procs : ~Aside(p)
    BY <2>0, AsideStep
  <2>3. PICK p \in Procs : Replace(p)
    BY <2>1, <2>2 DEF Next, Command, Aside
  <2>4. pc[p] = "written" /\ pc'[p] # "written"
    BY <2>0, <2>3 DEF Replace, Goto, AfterEdit, TypeOK, Job
  <2> QED
    BY <2>0, <2>3, <2>4, AloneReplace
<1> QED
  BY <1>1, <1>2, PersistStep, Typing, PTL DEF Spec, SwappedWhole

-----------------------------------------------------------------------------
(***************************************************************************)
(* What is stored stays stored, until somebody deletes it.                 *)
(***************************************************************************)

\* n has a secret, or lost it to a deletion.
Secured(n) == n \in removed \/ (due \in Store /\ due.data[n] # Absent)

\* Replace secures the name it is about and unsecures none.
LEMMA Securing ==
    ASSUME TypeInv, NEW p \in Procs, Replace(p), NEW n \in Names
    PROVE  /\ Secured(n) => Secured(n)'
           /\ edit[p].name = n => Secured(n)'
<1>1. TypeOK /\ Busy(p) /\ AsAsked(p) /\ edit[p] \in Change /\ mem[p] \in Store
  BY DEF TypeInv, Replace, HoldsStore, HoldsChange, Active, Busy
<1>2. /\ due' = IF due = None THEN mem[p] ELSE Apply(due, edit[p])
      /\ removed' = IF job[p] = "rm" THEN removed \cup {edit[p].name}
                    ELSE removed \ {edit[p].name}
  BY DEF Replace
<1>3. due \in Store \cup {None}
  BY <1>1 DEF TypeOK
<1>4. CASE edit[p] \in Rotate
  <2>1. edit[p].name = None /\ n # None
    BY <1>4, Kinds, NamesAssumption
  <2>2. due \in Store => due' \in Store /\ due'.data = due.data
    BY <1>2, <1>4, Rotating, Distinct
  <2> QED
    BY <1>1, <1>2, <1>3, <2>1, <2>2, Distinct DEF Secured
<1>5. CASE edit[p] \in Put
  <2>1. due' \in Store /\ due'.data[edit[p].name] = edit[p].to
    BY <1>1, <1>2, <1>3, <1>5, Putting DEF AsAsked
  <2>2. due \in Store /\ n # edit[p].name => due'.data[n] = due.data[n]
    BY <1>2, <1>5, Putting, Distinct
  <2>3. edit[p].to = Absent => job[p] = "rm"
    BY <1>1, <1>5 DEF AsAsked
  <2> QED
    BY <1>2, <1>3, <2>1, <2>2, <2>3, Distinct DEF Secured
<1> QED
  BY <1>1, <1>4, <1>5 DEF Change

\* No step unsecures a name.
LEMMA StaySecured ==
    ASSUME TypeInv, [Next]_vars, NEW n \in Names, Secured(n)
    PROVE  Secured(n)'
<1>1. ASSUME NEW p \in Procs, Replace(p)
      PROVE  Secured(n)'
  BY <1>1, Securing
<1>2. CASE UNCHANGED <<due, removed>>
  BY <1>2 DEF Secured
<1>3. (\E p \in Procs : Replace(p)) \/ UNCHANGED <<due, removed>>
  BY DEF Next, Server, Command, Connect, ServerRestart, Unlock, Open, Write, ReplaceFails,
         Rename, NoAuth, Forget, SaveBegin, SaveEnd, End, history, vars
<1> QED
  BY <1>1, <1>2, <1>3

\* migrate puts .env aside when it has stored all of it.
LegacyInv ==
    /\ ~env => \A n \in LegacyNames : Secured(n)
    /\ \A p \in Procs :
          /\ job[p] = "migrate" /\ pc[p] \in {"loaded", "opened", "written"} =>
                \A n \in LegacyNames \ todo[p] : Secured(n)
          /\ pc[p] = "rename" => \A n \in LegacyNames : Secured(n)

\* No step of migrate_legacy_env leaves a secret of .env behind.
LEMMA LegacyStep == TypeInv /\ LegacyInv /\ [Next]_vars => LegacyInv'
<1> SUFFICES ASSUME TypeInv, LegacyInv, [Next]_vars
             PROVE  LegacyInv'
  OBVIOUS
<1>0. TypeOK /\ LegacyNames' = LegacyNames /\ LegacyNames \subseteq Names
  BY DEF TypeInv, LegacyNames
<1>s. \A n \in LegacyNames : Secured(n) => Secured(n)'
  BY <1>0, StaySecured
<1>1. ASSUME NEW p \in Procs, Replace(p)
      PROVE  LegacyInv'
  <2>1. /\ pc' = [pc EXCEPT ![p] = AfterEdit(p)]
        /\ todo' = [todo EXCEPT ![p] = @ \ {edit[p].name}]
        /\ job' = job /\ env' = env /\ pc[p] = "written"
    BY <1>1 DEF Replace, Goto
  <2>2. \A n \in LegacyNames : edit[p].name = n => Secured(n)'
    BY <1>0, <1>1, Securing
  <2>3. job[p] = "migrate" => \A n \in LegacyNames \ todo'[p] : Secured(n)'
    BY <1>0, <1>s, <2>1, <2>2 DEF LegacyInv, TypeOK
  <2>4. AfterEdit(p) = "rename" => job[p] = "migrate" /\ todo[p] = {edit[p].name}
    BY <1>0 DEF AfterEdit, TypeOK, Job
  <2>5. pc'[p] = "rename" => \A n \in LegacyNames : Secured(n)'
    BY <1>0, <2>1, <2>3, <2>4 DEF TypeOK
  <2> QED
    BY <1>0, <1>s, <2>1, <2>3, <2>5 DEF LegacyInv, TypeOK
<1>2. ASSUME NEW p \in Procs, NEW j \in Job, NEW pw \in Passwords, Unlock(p, j, pw)
      PROVE  LegacyInv'
  BY <1>0, <1>s, <1>2 DEF LegacyInv, Unlock, Goto, TypeOK, files
<1>3. ASSUME NEW p \in Procs, Open(p) \/ Write(p)
      PROVE  LegacyInv'
  BY <1>0, <1>s, <1>3 DEF LegacyInv, Open, Write, Goto, TypeOK
<1>4. ASSUME NEW p \in Procs, ReplaceFails(p) \/ Rename(p) \/ SaveBegin(p)
      PROVE  LegacyInv'
  BY <1>0, <1>s, <1>4
  DEF LegacyInv, ReplaceFails, Rename, SaveBegin, Goto, TypeOK, files
<1>5. ASSUME NEW p \in Procs, SaveEnd(p)
      PROVE  LegacyInv'
  <2>1. pc[p] = "saving" /\ pc' = [pc EXCEPT ![p] = "loaded"]
        /\ UNCHANGED <<env, job, todo>>
    BY <1>5 DEF SaveEnd, Goto
  <2>2. job[p] # "migrate"
    BY <2>1 DEF TypeInv, Saves
  <2> QED
    BY <1>0, <1>s, <2>1, <2>2 DEF LegacyInv, TypeOK
<1>6. ASSUME NEW p \in Procs, NEW n \in Names, NoAuth(p, n) \/ Forget(p, n)
      PROVE  LegacyInv'
  BY <1>0, <1>s, <1>6 DEF LegacyInv, NoAuth, Forget, Goto, TypeOK, files
<1>7. ASSUME NEW p \in Procs, End(p)
      PROVE  LegacyInv'
  BY <1>0, <1>s, <1>7 DEF LegacyInv, End, Goto, TypeOK, files
<1>8. CASE Server \/ UNCHANGED vars
  <2>1. UNCHANGED <<env, pc, job, todo>>
    BY <1>8 DEF Server, Connect, ServerRestart, vars, files, command
  <2> QED
    BY <1>0, <1>s, <2>1 DEF LegacyInv
<1> QED
  BY <1>1, <1>2, <1>3, <1>4, <1>5, <1>6, <1>7, <1>8 DEF Next, Command

\* Once .env is put aside, each of its secrets is in secrets.enc.
THEOREM LegacyMoved == Spec => []LegacyKept
<1>1. Init => LegacyInv
  BY DEF Init, LegacyInv
<1>2. Spec => []LegacyInv
  BY <1>1, LegacyStep, Typing, PTL DEF Spec
<1>3. StoreInv /\ LegacyInv => LegacyKept
  BY DEF StoreInv, LegacyInv, LegacyKept, Secured, LegacyNames
<1> QED
  BY <1>2, <1>3, Storing, PTL

\* The list init holds, and the one in config.yaml, claim no password in vain.
TargetInv ==
    /\ \A n \in Names : config[n] = "auth" => Secured(n)
    /\ \A p \in Procs :
          /\ \A n \in Names : targets[p][n] = "auth" => Secured(n)
          /\ pc[p] = "save" /\ edit[p].to # Absent =>
                \A n \in Names : edit[p].name = n => Secured(n)

\* init only lists a target with a password once its secret is persisted.
LEMMA TargetStep == TypeInv /\ TargetInv /\ [Next]_vars => TargetInv'
<1> SUFFICES ASSUME TypeInv, TargetInv, [Next]_vars
             PROVE  TargetInv'
  OBVIOUS
<1>0. TypeOK
  BY DEF TypeInv
<1>s. \A n \in Names : Secured(n) => Secured(n)'
  BY StaySecured
<1>e. \A p \in Procs : pc[p] = "save" => edit[p].name \in Names
  BY Kinds DEF TypeInv, HoldsChange
<1>1. ASSUME NEW p \in Procs, Replace(p)
      PROVE  TargetInv'
  <2>1. AfterEdit(p) = "save" => edit[p].name \in Names
    <3> SUFFICES ASSUME AfterEdit(p) = "save"
                 PROVE  edit[p].name \in Names
      OBVIOUS
    <3>1. job[p] = "init"
      BY <1>0 DEF AfterEdit, TypeOK, Job
    <3>2. edit[p] \in Put
      BY <1>1, <3>1 DEF TypeInv, Replace, HoldsChange, AsAsked, Busy, Change
    <3> QED
      BY <3>2, Kinds
  <2>2. \A n \in Names : edit[p].name = n => Secured(n)'
    BY <1>1, Securing
  <2>3. /\ pc' = [pc EXCEPT ![p] = AfterEdit(p)] /\ pc[p] = "written"
        /\ UNCHANGED <<config, targets, edit>>
    BY <1>1 DEF Replace, Goto
  <2>4. \A q \in Procs : pc'[q] = "save" /\ edit'[q].to # Absent =>
           \A n \in Names : edit'[q].name = n => Secured(n)'
    BY <1>0, <1>s, <2>1, <2>2, <2>3 DEF TargetInv, TypeOK
  <2> QED
    BY <1>s, <2>3, <2>4 DEF TargetInv
<1>2. ASSUME NEW p \in Procs, NEW j \in Job, NEW pw \in Passwords, Unlock(p, j, pw)
      PROVE  TargetInv'
  BY <1>0, <1>s, <1>e, <1>2, NamesAssumption
  DEF TargetInv, Unlock, Goto, TypeOK, files, NoTargets
<1>3. ASSUME NEW p \in Procs, Open(p) \/ Write(p)
      PROVE  TargetInv'
  <2>1. /\ \A q \in Procs : pc'[q] = "save" => pc[q] = "save" /\ edit'[q] = edit[q]
        /\ UNCHANGED <<config, targets>>
    BY <1>0, <1>3 DEF Open, Write, Goto, TypeOK
  <2> QED
    BY <1>s, <2>1 DEF TargetInv
<1>4. ASSUME NEW p \in Procs, ReplaceFails(p) \/ Rename(p)
      PROVE  TargetInv'
  BY <1>0, <1>s, <1>e, <1>4 DEF TargetInv, ReplaceFails, Rename, Goto, TypeOK, files
<1>5. ASSUME NEW p \in Procs, SaveBegin(p) \/ SaveEnd(p)
      PROVE  TargetInv'
  <2>1. CASE SaveBegin(p)
    <3>1. \A q \in Procs, n \in Names :
             targets'[q][n] = "auth" =>
                \/ targets[q][n] = "auth"
                \/ q = p /\ edit[p].name = n /\ edit[p].to # Absent
      BY <1>0, <2>1 DEF SaveBegin, TypeOK, Targets
    <3>2. /\ \A n \in Names : config'[n] # "auth"
          /\ \A q \in Procs : pc'[q] = "save" => pc[q] = "save" /\ edit'[q] = edit[q]
      BY <1>0, <2>1, NamesAssumption DEF SaveBegin, NoTargets, Goto, TypeOK
    <3>3. pc[p] = "save"
      BY <2>1 DEF SaveBegin
    <3> QED
      BY <1>s, <3>1, <3>2, <3>3 DEF TargetInv
  <2>2. CASE SaveEnd(p)
    BY <1>0, <1>s, <2>2 DEF TargetInv, SaveEnd, Goto, TypeOK
  <2> QED
    BY <1>5, <2>1, <2>2
<1>6. ASSUME NEW p \in Procs, NEW n \in Names, NoAuth(p, n)
      PROVE  TargetInv'
  BY <1>0, <1>s, <1>e, <1>6 DEF TargetInv, NoAuth, Goto, TypeOK, files
<1>7. ASSUME NEW p \in Procs, NEW n \in Names, Forget(p, n)
      PROVE  TargetInv'
  BY <1>0, <1>s, <1>e, <1>7, NamesAssumption
  DEF TargetInv, Forget, TypeOK, Targets, files
<1>8. ASSUME NEW p \in Procs, End(p)
      PROVE  TargetInv'
  BY <1>0, <1>s, <1>e, <1>8, NamesAssumption
  DEF TargetInv, End, Goto, TypeOK, files, NoTargets
<1>9. CASE Server \/ UNCHANGED vars
  <2>1. UNCHANGED <<config, pc, edit, targets>>
    BY <1>9 DEF Server, Connect, ServerRestart, vars, files, command
  <2> QED
    BY <1>0, <1>s, <1>e, <2>1 DEF TargetInv
<1> QED
  BY <1>1, <1>2, <1>3, <1>4, <1>5, <1>6, <1>7, <1>8, <1>9 DEF Next, Command

\* A target saved with a password has one in secrets.enc.
THEOREM TargetsServed == Spec => []TargetsHaveSecrets
<1>1. Init => TargetInv
  BY NamesAssumption DEF Init, TargetInv, NoTargets
<1>2. Spec => []TargetInv
  BY <1>1, TargetStep, Typing, PTL DEF Spec
<1>3. StoreInv /\ TargetInv => TargetsHaveSecrets
  BY DEF StoreInv, TargetInv, TargetsHaveSecrets, Secured
<1> QED
  BY <1>2, <1>3, Storing, PTL

-----------------------------------------------------------------------------
(***************************************************************************)
(* The server.                                                             *)
(***************************************************************************)

\* All the server took, it took from the file in its time, unless that did not open.
ServerInv ==
    \A n \in Names :
        /\ Has(enc, n) \subseteq held[n]
        /\ conn[n] # None => conn[n] \in held[n] \/ (conn[n] = Absent /\ n \in unread)
        /\ cache # None => cache.data[n] \in held[n]

\* What the server caches and connects with was in secrets.enc since it started.
LEMMA ServerStep == TypeInv /\ ServerInv /\ [Next]_vars => ServerInv'
<1> SUFFICES ASSUME TypeInv, ServerInv, [Next]_vars
             PROVE  ServerInv'
  OBVIOUS
<1>0. TypeOK
  BY DEF TypeInv
<1>1. ASSUME NEW p \in Procs, Replace(p) \/ Write(p)
      PROVE  ServerInv'
  <2>1. UNCHANGED <<cache, conn, unread>> /\ Watch
    BY <1>1 DEF Replace, Write, server
  <2> QED
    BY <1>0, <2>1 DEF ServerInv, Watch, TypeOK
<1>2. ASSUME NEW t \in Names, NEW pw \in Passwords, NEW readable \in BOOLEAN,
             Connect(t, pw, readable)
      PROVE  ServerInv'
  <2>1. PICK s \in Consult(pw, readable) : cache' = s /\ conn' = [conn EXCEPT ![t] = Held(s)[t]]
    BY <1>2 DEF Connect
  <2>2. /\ UNCHANGED <<enc, held>> /\ unread \subseteq unread'
        /\ Unreadable(readable) => t \in unread'
    BY <1>2 DEF Connect, files
  \* What Consult yields: the file's store, the cached one, or none at all.
  <2>3. \/ s = enc /\ s \notin {Empty, Torn}
        \/ s = cache /\ s # None
        \/ s = None /\ Unreadable(readable)
    BY <2>1, Distinct DEF Consult, Unlocked
  <2>4. \A n \in Names : Held(s)[n] \in held[n] \/ (s = None /\ Unreadable(readable))
    BY <2>3 DEF ServerInv, Has, Held
  <2>5. s = None => Held(s)[t] = Absent
    BY DEF Held, NoSecrets
  <2>6. cache' # None => \A n \in Names : cache'.data[n] \in held[n]
    BY <2>1, <2>4 DEF Held
  <2>7. conn'[t] \in held[t] \/ (conn'[t] = Absent /\ t \in unread')
    BY <1>0, <2>1, <2>2, <2>4, <2>5 DEF TypeOK
  <2>8. \A n \in Names \ {t} : conn'[n] = conn[n]
    BY <1>0, <2>1 DEF TypeOK
  <2> QED
    BY <2>2, <2>6, <2>7, <2>8 DEF ServerInv
<1>3. CASE ServerRestart
  BY <1>0, <1>3 DEF ServerRestart, ServerInv, NoTargets, files
<1>4. CASE UNCHANGED <<enc, held, cache, conn, unread>>
  BY <1>4 DEF ServerInv
<1>5. ASSUME NEW p \in Procs, Command(p), ~Replace(p), ~Write(p)
      PROVE  UNCHANGED <<enc, held, cache, conn, unread>>
  BY <1>5
  DEF Command, Unlock, Open, OpenFile, ReplaceFails, Rename, NoAuth, Forget, SaveBegin,
      SaveEnd, End, files, server, history
<1>6. CASE UNCHANGED vars
  BY <1>4, <1>6 DEF vars, files, server, history
<1> QED
  BY <1>1, <1>2, <1>3, <1>4, <1>5, <1>6 DEF Next, Server

\* For any commands, clashing or not, the server connects with what its target had in
\* the file while it runs, and without AUTH only where there was no secret or the file
\* could not be read: what a failing read does is said, not excluded.
THEOREM Connecting == Spec => []ConnectionsFromStore
<1>1. Init => ServerInv
  BY FilesAssumption DEF Init, ServerInv, Has, Held, NoSecrets, NoTargets
<1>2. Spec => []ServerInv
  BY <1>1, ServerStep, Typing, PTL DEF Spec
<1>3. ServerInv => ConnectionsFromStore
  BY DEF ServerInv, ConnectionsFromStore
<1> QED
  BY <1>2, <1>3, PTL

=============================================================================
