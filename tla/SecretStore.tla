----------------------------- MODULE SecretStore -----------------------------
(***************************************************************************)
(* The encrypted credential store (secretstore.py), the CLI commands that  *)
(* change it (cli/secret.py, cli/init.py), each in a process of its own,   *)
(* and the MCP server that takes its broker passwords from it (config.py,  *)
(* connection.py).                                                         *)
(*                                                                         *)
(* A command unlocks the store, derives a changed copy and persists that:  *)
(* it writes secrets.enc.tmp, a name all processes share, and renames it   *)
(* over secrets.enc.  Nothing locks the store: two commands that run at    *)
(* once can overwrite each other's change or each other's temporary file.  *)
(* A salt and its ciphertext travel in one blob, so the blob is modelled   *)
(* as the password that opens it and the secrets inside.                   *)
(***************************************************************************)
EXTENDS Integers

CONSTANTS
    Procs,          \* CLI processes
    Names,          \* target names
    Redis,          \* the targets that may do without AUTH
    Fallback,       \* the targets with a QUEUE_<TARGET>_SECRET variable
    Secrets,        \* passwords of brokers
    Passwords,      \* master passwords
    Legacy,         \* what .env holds for each name
    Absent,         \* no secret
    None,           \* no file, no store, no target, no connection
    Empty,          \* a file that was opened for writing and truncated
    Torn,           \* one blob written over another that was longer
    MaxEdits        \* bound: how many changes are begun

Entry   == Secrets \cup {Absent}
Store   == [pw : Passwords, data : [Names -> Entry]]
Content == Store \cup {Empty, Torn}
Job     == {"set", "rm", "rotate", "migrate", "init"}

\* A change: a secret for a name (Absent deletes it), or a new master password.
Put     == [name : Names, to : Entry]
Rotate  == [name : {None}, to : Passwords]
Targets == [Names -> {None, "auth", "lab"}]

ASSUME NamesAssumption == /\ Legacy \in [Names -> Entry]
                          /\ Absent \notin Secrets
                          /\ None \notin Names /\ None \notin Entry
                          /\ None \notin {"auth", "lab"}
                          /\ Redis \subseteq Names /\ Fallback \subseteq Names
ASSUME FilesAssumption == /\ {None, Empty, Torn} \cap Store = {}
                          /\ None \notin {Empty, Torn}
ASSUME BoundAssumption == MaxEdits \in Nat

VARIABLES
    \* files
    enc, tmp,       \* secrets.enc and secrets.enc.tmp
    env,            \* the plaintext .env is there (else it is .env.migrated)
    config,         \* the targets of config.yaml, with a password or without
    \* each command's process
    pc, job, mem,   \* mem: the SecretStore object it holds
    edit,           \* the change it is persisting
    fd,             \* which file the handle from its open() refers to by now
    todo,           \* migrate: names still to import
    targets,        \* init: the targets read from config.yaml at the start
    \* the MCP server
    cache,          \* _cached
    conn,           \* per target: the stored secret its connection was made with
    \* history
    edits,
    overlapped,     \* two commands were once in _persist at the same time
    clashed,        \* they were, or a change was made upon an outdated store
    due,            \* the store as the commands that renamed their file left it
    removed,        \* names whose secret was deleted on purpose
    held,           \* per target: what secrets.enc had for it since the server started
    unread          \* targets connected although secrets.enc could not be read

files   == <<enc, tmp, env, config>>
command == <<pc, job, mem, edit, fd, todo, targets>>
server  == <<cache, conn>>
history == <<edits, overlapped, clashed, due, removed, held, unread>>
vars    == <<files, command, server, history>>

LegacyNames == {n \in Names : Legacy[n] # Absent}
NoSecrets   == [n \in Names |-> Absent]
NoTargets   == [n \in Names |-> None]

\* What a store, or the lack of one, has for each name.
Held(store) == IF store = None THEN NoSecrets ELSE store.data

\* What the file has for a name: nothing, not even the absence of a secret, if broken.
Has(file, n) == IF file \in {Empty, Torn} THEN {} ELSE {Held(file)[n]}

\* History: what secrets.enc has by now.
Watch == held' = [n \in Names |-> held[n] \cup Has(enc', n)]

Apply(store, e) == IF e.name = None THEN [store EXCEPT !.pw = e.to]
                   ELSE [store EXCEPT !.data[e.name] = e.to]

Init ==
    /\ enc = None /\ tmp = None /\ env = TRUE /\ config = NoTargets
    /\ pc = [p \in Procs |-> "idle"] /\ job = [p \in Procs |-> "set"]
    /\ mem = [p \in Procs |-> None] /\ edit = [p \in Procs |-> None]
    /\ fd = [p \in Procs |-> "closed"] /\ todo = [p \in Procs |-> {}]
    /\ targets = [p \in Procs |-> NoTargets]
    /\ cache = None /\ conn = NoTargets
    /\ edits = 0 /\ overlapped = FALSE /\ clashed = FALSE /\ due = None /\ removed = {}
    /\ held = [n \in Names |-> {Absent}] /\ unread = {}

Goto(p, label) == pc' = [pc EXCEPT ![p] = label]

-----------------------------------------------------------------------------
(***************************************************************************)
(* Commands.                                                               *)
(***************************************************************************)

\* SecretStore.unlock(pw): a file that is broken or does not open with pw
\* raises, and without a file there is a new, empty store.
Unlocked(pw) ==
    IF enc = None THEN {[pw |-> pw, data |-> NoSecrets]}
    ELSE {s \in {enc} : s \in Store /\ s.pw = pw}

\* A command starts: it unlocks the store, or it has ended with an error.
Unlock(p, j, pw) ==
    /\ pc[p] = "idle"
    /\ j = "migrate" => env
    /\ \E s \in Unlocked(pw) : mem' = [mem EXCEPT ![p] = s]
    /\ Goto(p, "loaded")
    /\ job' = [job EXCEPT ![p] = j]
    /\ todo' = [todo EXCEPT ![p] = IF j = "migrate" THEN LegacyNames ELSE {}]
    /\ targets' = [targets EXCEPT ![p] = IF j = "init" THEN config ELSE NoTargets]
    /\ UNCHANGED <<files, edit, fd, server, history>>

\* The changes a command may ask of the store it holds.
Wanted(p) ==
    CASE job[p] \in {"set", "init"} -> {e \in Put : e.to # Absent}
      [] job[p] = "rm" -> {e \in Put : e.to = Absent /\ mem[p].data[e.name] # Absent}
      [] job[p] = "rotate" -> Rotate
      [] job[p] = "migrate" -> {e \in Put : e.name \in todo[p] /\ e.to = Legacy[e.name]}

\* p's view of the store is outdated.
Outdated(p) == due # None /\ mem[p] # due

\* Another command is in _persist.
Overlaps(p) == \E q \in Procs \ {p} : pc[q] \in {"opened", "written"}

\* Mutant: secrets.enc is written in place.
OpenInPlace(p) ==
    /\ enc' = Empty
    /\ fd' = [fd EXCEPT ![p] = "enc"]
    /\ UNCHANGED tmp

\* Mutant: a temporary file left by a killed command is not truncated.
OpenLeft(p) ==
    /\ tmp' = IF tmp = None THEN Empty ELSE tmp
    /\ fd' = [fd EXCEPT ![p] = "tmp"]
    /\ UNCHANGED enc

\* write_text's open(): the temporary file is created or truncated.
OpenFile(p) ==
    /\ tmp' = Empty
    /\ fd' = [fd EXCEPT ![p] = "tmp"]
    /\ UNCHANGED enc

\* set, delete, with_password as far as the open(): a new store object.
Open(p) ==
    /\ pc[p] = "loaded"
    /\ edits < MaxEdits /\ edits' = edits + 1
    /\ \E e \in Wanted(p) : /\ edit' = [edit EXCEPT ![p] = e]
                            /\ mem' = [mem EXCEPT ![p] = Apply(mem[p], e)]
    /\ OpenFile(p)
    /\ Goto(p, "opened")
    /\ overlapped' = (overlapped \/ Overlaps(p))
    /\ clashed' = (clashed \/ Overlaps(p) \/ Outdated(p))
    /\ UNCHANGED <<env, config, job, todo, targets, server, due, removed, held, unread>>

\* What a file holds once p's blob is written to it from its start: the end of
\* a longer blob that another process wrote meanwhile stays.
Written(p, before) == IF before = Empty THEN {mem[p]} ELSE {mem[p], Torn}

\* The blob goes to whatever name the opened file has by now.
WriteBlob(p) ==
    \/ fd[p] = "tmp" /\ tmp' \in Written(p, tmp) /\ UNCHANGED enc
    \/ fd[p] = "enc" /\ enc' \in Written(p, enc) /\ UNCHANGED tmp
    \/ fd[p] = "gone" /\ UNCHANGED <<enc, tmp>>

\* Mutant: init saves config.yaml before secrets.enc is replaced.
WriteSaving(p) ==
    /\ pc[p] = "opened"
    /\ WriteBlob(p)
    /\ fd' = [fd EXCEPT ![p] = "closed"]
    /\ Goto(p, IF job[p] = "init" THEN "save" ELSE "written")
    /\ Watch
    /\ UNCHANGED <<env, config, job, mem, edit, todo, targets, server, edits, overlapped,
                   clashed, due, removed, unread>>

\* The rest of write_text.
Write(p) ==
    /\ pc[p] = "opened"
    /\ WriteBlob(p)
    /\ fd' = [fd EXCEPT ![p] = "closed"]
    /\ Goto(p, "written")
    /\ Watch
    /\ UNCHANGED <<env, config, job, mem, edit, todo, targets, server, edits, overlapped,
                   clashed, due, removed, unread>>

\* Mutant: .env is put aside once one of its secrets is stored.
AfterFirst(p) ==
    CASE job[p] = "init" -> "save"
      [] job[p] = "migrate" -> "rename"
      [] OTHER -> "done"

\* What a command does once its change is persisted.
AfterEdit(p) ==
    CASE job[p] = "init" -> "save"
      [] job[p] = "migrate" -> IF todo[p] = {edit[p].name} THEN "rename" ELSE "loaded"
      [] OTHER -> "done"

\* os.replace moves whatever is at secrets.enc.tmp by now.
Replace(p) ==
    /\ pc[p] = "written"
    /\ tmp # None
    /\ enc' = tmp /\ tmp' = None
    /\ fd' = [q \in Procs |-> CASE fd[q] = "tmp" -> "enc"
                                [] fd[q] = "enc" -> "gone"
                                [] OTHER -> fd[q]]
    /\ Goto(p, AfterEdit(p))
    /\ todo' = [todo EXCEPT ![p] = @ \ {edit[p].name}]
    /\ due' = IF due = None THEN mem[p] ELSE Apply(due, edit[p])
    /\ removed' = IF job[p] = "rm" THEN removed \cup {edit[p].name}
                  ELSE removed \ {edit[p].name}
    /\ Watch
    /\ UNCHANGED <<env, config, job, mem, edit, targets, server, edits, overlapped, clashed,
                   unread>>

\* Another command renamed the temporary file first: FileNotFoundError.
ReplaceFails(p) ==
    /\ pc[p] = "written"
    /\ tmp = None
    /\ Goto(p, "done")
    /\ UNCHANGED <<files, job, mem, edit, fd, todo, targets, server, history>>

\* migrate_legacy_env's last step, or its error when .env is gone.
Rename(p) ==
    /\ pc[p] = "rename"
    /\ env' = FALSE
    /\ Goto(p, "done")
    /\ UNCHANGED <<enc, tmp, config, job, mem, edit, fd, todo, targets, server, history>>

\* init: a redis target without a password; what is stored for it stays.
NoAuth(p, n) ==
    /\ pc[p] = "loaded" /\ job[p] = "init" /\ n \in Redis
    /\ edit' = [edit EXCEPT ![p] = [name |-> n, to |-> Absent]]
    /\ Goto(p, "save")
    /\ UNCHANGED <<files, job, mem, fd, todo, targets, server, history>>

\* init: the user agrees to overwrite a target and is then sent back to ask for
\* a name (a mistyped platform, an empty rabbitmq password).
Forget(p, n) ==
    /\ pc[p] = "loaded" /\ job[p] = "init" /\ targets[p][n] # None
    /\ targets' = [targets EXCEPT ![p][n] = None]
    /\ UNCHANGED <<files, pc, job, mem, edit, fd, todo, server, history>>

\* init: _write_targets opens, and so truncates, config.yaml.
SaveBegin(p) ==
    /\ pc[p] = "save"
    /\ targets' = [targets EXCEPT
                     ![p][edit[p].name] = IF edit[p].to = Absent THEN "lab" ELSE "auth"]
    /\ config' = NoTargets
    /\ Goto(p, "saving")
    /\ UNCHANGED <<enc, tmp, env, job, mem, edit, fd, todo, server, history>>

\* ... and writes the list it has held since it started.
SaveEnd(p) ==
    /\ pc[p] = "saving"
    /\ config' = targets[p]
    /\ Goto(p, "loaded")
    /\ UNCHANGED <<enc, tmp, env, job, mem, edit, fd, todo, targets, server, history>>

\* A command ends: nothing (more) to change, an error, or killed at any point.
End(p) ==
    /\ pc[p] # "idle"
    /\ Goto(p, "idle")
    /\ job' = [job EXCEPT ![p] = "set"]
    /\ mem' = [mem EXCEPT ![p] = None] /\ edit' = [edit EXCEPT ![p] = None]
    /\ fd' = [fd EXCEPT ![p] = "closed"]
    /\ todo' = [todo EXCEPT ![p] = {}]
    /\ targets' = [targets EXCEPT ![p] = NoTargets]
    /\ UNCHANGED <<files, server, history>>

-----------------------------------------------------------------------------
(***************************************************************************)
(* The MCP server.                                                         *)
(***************************************************************************)

\* Mutant: a wrong master password is taken for a target without a secret.
ConsultAnyway(pw, readable) ==
    IF enc = None THEN {None}
    ELSE IF cache # None THEN {cache}
    ELSE IF Unlocked(pw) = {} THEN {None} ELSE Unlocked(pw)

\* secrets.enc is there and is read, but the read fails or what it yields is broken.
Unreadable(readable) ==
    enc # None /\ cache = None /\ (~readable \/ enc \in {Empty, Torn})

\* _resolve_secret with open_store: without a file there are no secrets, and a wrong
\* master password raises; but the SecretStoreError of a file that cannot be read, or
\* is broken, is taken for a target without a secret.
Consult(pw, readable) ==
    IF enc = None THEN {None}
    ELSE IF cache # None THEN {cache}
    ELSE IF Unreadable(readable) THEN {None}
    ELSE Unlocked(pw)

\* ConnectionManager.connect: the first use of a target makes its connection.
\* A target that needs a password and has none raises.
Connect(t, pw, readable) ==
    /\ conn[t] = None
    /\ \E s \in Consult(pw, readable) :
          /\ cache' = s
          /\ conn' = [conn EXCEPT ![t] = Held(s)[t]]
    /\ conn'[t] = Absent => t \in Redis \cup Fallback
    /\ unread' = IF Unreadable(readable) THEN unread \cup {t} ELSE unread
    /\ UNCHANGED <<files, command, edits, overlapped, clashed, due, removed, held>>

ServerRestart ==
    /\ cache # None \/ conn # NoTargets
    /\ cache' = None /\ conn' = NoTargets
    /\ held' = [n \in Names |-> Has(enc, n)] /\ unread' = {}
    /\ UNCHANGED <<files, command, edits, overlapped, clashed, due, removed>>

-----------------------------------------------------------------------------
Command(p) ==
    \/ \E j \in Job, pw \in Passwords : Unlock(p, j, pw)
    \/ Open(p) \/ Write(p) \/ Replace(p) \/ ReplaceFails(p) \/ Rename(p)
    \/ \E n \in Names : NoAuth(p, n) \/ Forget(p, n)
    \/ SaveBegin(p) \/ SaveEnd(p) \/ End(p)

Server == \/ \E t \in Names, pw \in Passwords, readable \in BOOLEAN :
                Connect(t, pw, readable)
          \/ ServerRestart

Next == Server \/ \E p \in Procs : Command(p)

Spec == Init /\ [][Next]_vars

-----------------------------------------------------------------------------
(***************************************************************************)
(* Properties.  Commands are killed at any step, and run at the same time. *)
(* What is said of the changes made holds as long as none is made upon an  *)
(* outdated store or into another's temporary file; SwappedWhole holds     *)
(* also among commands that overwrite each other's changes, and what the   *)
(* server connects with is judged by the file, whatever became of it.      *)
(***************************************************************************)

TypeOK ==
    /\ enc \in Content \cup {None} /\ tmp \in Content \cup {None}
    /\ env \in BOOLEAN /\ config \in Targets
    /\ pc \in [Procs -> {"idle", "loaded", "opened", "written", "rename", "save", "saving", "done"}]
    /\ job \in [Procs -> Job]
    /\ mem \in [Procs -> Store \cup {None}]
    /\ edit \in [Procs -> Put \cup Rotate \cup {None}]
    /\ fd \in [Procs -> {"closed", "tmp", "enc", "gone"}]
    /\ todo \in [Procs -> SUBSET Names]
    /\ targets \in [Procs -> Targets]
    /\ cache \in Store \cup {None}
    /\ conn \in [Names -> Entry \cup {None}]
    /\ edits \in 0 .. MaxEdits /\ overlapped \in BOOLEAN /\ clashed \in BOOLEAN
    /\ due \in Store \cup {None}
    /\ removed \subseteq Names
    /\ held \in [Names -> SUBSET Entry] /\ unread \subseteq Names

\* secrets.enc always holds every change whose rename was made and no other,
\* wherever a command was killed (_persist writes aside and renames): no secret
\* is lost or comes back, and the file opens with the last password set.
Lossless == ~clashed => enc = due

Swapped ==
    enc' # enc /\ ~overlapped =>
        \E p \in Procs : pc[p] = "written" /\ pc'[p] # "written" /\ enc' = mem[p]

\* secrets.enc changes only by a rename, and then to exactly the store the renaming
\* command derived: commands that were killed, or that overwrite each other's changes
\* because nothing locks the store, never leave it empty, torn or with a mixture of two
\* (_persist), unless two of them are inside _persist at the same time.
SwappedWhole == [][Swapped]_vars

\* Once .env is put aside, each of its secrets is in secrets.enc, unless its
\* owner deleted it there (migrate_legacy_env, killed and run again or not).
LegacyKept ==
    ~clashed /\ ~env =>
        \A n \in LegacyNames \ removed : enc \in Store /\ enc.data[n] # Absent

\* A target that init saved with a password has one in secrets.enc: the secret
\* is stored before config.yaml names the target.
TargetsHaveSecrets ==
    ~clashed => \A n \in Names \ removed :
                       config[n] = "auth" => enc \in Store /\ enc.data[n] # Absent

\* A connection of the server was made with a secret its target really had in
\* secrets.enc at some time since the server started.  Without a secret, the target had
\* none there at some time, or the file was there and could not be read or decoded when
\* it was made (unread): a wrong or rotated master password, a stale copy or a command
\* in progress never yields "no AUTH", a failing read does.
ConnectionsFromStore ==
    \A t \in Names : conn[t] # None =>
       conn[t] \in held[t] \/ (conn[t] = Absent /\ t \in unread)

=============================================================================
