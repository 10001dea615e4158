------------------------------ MODULE AtlasDbc ------------------------------
(***************************************************************************)
(* The DBC commands of atlas.py: dbc-import and dbc-export, run by         *)
(* operating system processes that share one SQLite file in WAL mode. The  *)
(* rules for db, work and writer are those of AtlasSessions.               *)
(*                                                                         *)
(* dbc-import writes the tables of a source in one transaction. dbc-export *)
(* reads them back with many SELECTs and no transaction, so that each of   *)
(* them sees the state committed at its own time. The primary keys are     *)
(* AUTOINCREMENT: sqlite_sequence, here the field last, never goes back.   *)
(***************************************************************************)
EXTENDS Naturals, FiniteSets

CONSTANTS
    Processes,
    Names,          \* --name, or the stem of the file
    Files,          \* contents of DBC files
    Invalid,        \* files that parse_dbc refuses
    Conflicting,    \* files that parse and break a UNIQUE constraint
    Messages,       \* how many messages a file defines, one signal in each
    MaxCommands,    \* bound: commands started in a behaviour
    None

VARIABLES
    db, work, writer,
    pc,
    command,    \* the arguments
    source,     \* import: the source_id to replace, then the one inserted;
                \* export: the source_id that is read
    next,       \* import: messages inserted; export: messages read
    loaded,     \* export: the DbcDatabase built so far
    output,     \* the exported file, None while there is none
    (* history                                                             *)
    started,    \* commands started
    doomed,     \* rows of dbc_sources an import saw and may delete
    overtaken   \* exports whose source was replaced while they read it

store == <<db, work, writer>>
process == <<pc, command, source, next, loaded>>
history == <<started, doomed, overtaken>>
vars == <<store, process, output, history>>

(* Rows. The file is the content of the other columns of a row.            *)
Tables == {"sources", "messages", "signals"}

Empty == [sources |-> {}, nodes |-> {}, messages |-> {}, signals |-> {},
          values |-> {}, passthrough |-> {}, last |-> [t \in Tables |-> 0]]

(* A DbcDatabase: its header (version and nodes), the messages read, those *)
(* whose signals and whose values came with them, and the passthrough      *)
(* statements, each with the file it came from.                            *)
Nothing == [header |-> {}, messages |-> {}, signals |-> {}, values |-> {},
            passthrough |-> {}]

Whole(f) == [header |-> {f},
             messages |-> {<<f, i>> : i \in 1 .. Messages[f]},
             signals |-> {<<f, i>> : i \in 1 .. Messages[f]},
             values |-> {<<f, i>> : i \in 1 .. Messages[f]},
             passthrough |-> {f}]

Commands ==
    [op: {"import"}, file: Files, name: Names, replace: BOOLEAN]
    \cup [op: {"export"}, name: Names, force: BOOLEAN]

Init ==
    /\ db = Empty /\ work = Empty /\ writer = None
    /\ pc = [p \in Processes |-> "idle"]
    /\ command = [p \in Processes |-> None]
    /\ source = [p \in Processes |-> None]
    /\ next = [p \in Processes |-> 0]
    /\ loaded = [p \in Processes |-> Nothing]
    /\ output = None
    /\ started = 0 /\ doomed = {} /\ overtaken = {}

At(p, l) == pc[p] = l
GoTo(p, l) == pc' = [pc EXCEPT ![p] = l]

(* The process ends; what it read goes with it.                            *)
Exit(p) ==
    /\ GoTo(p, "idle")
    /\ command' = [command EXCEPT ![p] = None]
    /\ source' = [source EXCEPT ![p] = None]
    /\ next' = [next EXCEPT ![p] = 0]
    /\ loaded' = [loaded EXCEPT ![p] = Nothing]

Release == writer' = None /\ work' = Empty
RollBack == Release /\ UNCHANGED db

Named(d, n) == {r \in d.sources : r.name = n}

-----------------------------------------------------------------------------
Start(p) ==
    /\ At(p, "idle") /\ started < MaxCommands              \* bound
    /\ started' = started + 1
    /\ \E c \in Commands :
        /\ command' = [command EXCEPT ![p] = c]
        /\ GoTo(p, c.op)
    /\ overtaken' = overtaken \ {p}
    /\ UNCHANGED <<store, output, doomed, source, next, loaded>>

BusyTimeout(p) ==
    /\ At(p, "begin") /\ writer \notin {None, p}
    /\ Exit(p)
    /\ UNCHANGED <<store, output, history>>

-----------------------------------------------------------------------------
(* dbc-import                                                              *)

(* parse_dbc, then the SELECT of an existing source.                       *)
ImportCheck(p) ==
    LET existing == Named(db, command[p].name) IN
    /\ At(p, "import")
    /\ IF \/ command[p].file \in Invalid
          \/ existing # {} /\ ~command[p].replace
         THEN Exit(p) /\ UNCHANGED doomed
         ELSE /\ GoTo(p, "begin") /\ UNCHANGED <<command, next, loaded>>
              /\ \/ /\ existing = {} /\ UNCHANGED <<source, doomed>>
                 \/ \E r \in existing :
                        /\ source' = [source EXCEPT ![p] = r.id]
                        /\ doomed' = doomed \cup {r}
    /\ UNCHANGED <<store, output, started, overtaken>>

NextKey(d, t) == d.last[t] + 1

(* DELETE FROM dbc_sources, with ON DELETE CASCADE down to dbc_values.     *)
DeleteSource(d, id) ==
    LET messages == {r \in d.messages : r.source # id}
        signals == {r \in d.signals : r.message \in {m.id : m \in messages}}
    IN [sources |-> {r \in d.sources : r.id # id},
        nodes |-> {r \in d.nodes : r.source # id},
        messages |-> messages,
        signals |-> signals,
        values |-> {r \in d.values : r.signal \in {s.id : s \in signals}},
        passthrough |-> {r \in d.passthrough : r.source # id},
        last |-> d.last]

(* The rows of dbc_sources and dbc_nodes.                                  *)
InsertSource(d, id, n, f) ==
    [sources |-> d.sources \cup {[id |-> id, name |-> n, file |-> f]},
     nodes |-> d.nodes \cup {[source |-> id, file |-> f]},
     messages |-> d.messages, signals |-> d.signals, values |-> d.values,
     passthrough |-> d.passthrough,
     last |-> [d.last EXCEPT !["sources"] = id]]

(* One message, its signal and the values of the signal.                   *)
InsertMessage(d, id, i, f) ==
    LET m == NextKey(d, "messages")
        s == NextKey(d, "signals")
    IN [sources |-> d.sources, nodes |-> d.nodes,
        messages |-> d.messages \cup {[id |-> m, source |-> id, ordinal |-> i,
                                       file |-> f]},
        signals |-> d.signals \cup {[id |-> s, message |-> m, file |-> f]},
        values |-> d.values \cup {[signal |-> s, file |-> f]},
        passthrough |-> d.passthrough,
        last |-> [t \in Tables |-> IF t = "sources" THEN d.last[t]
                                                    ELSE NextKey(d, t)]]

(* The first statements of the block: the DELETE if a source was found,    *)
(* the source and its nodes. name is UNIQUE: sqlite3.IntegrityError when   *)
(* another process has inserted the name since.                            *)
ImportBegin(p) ==
    LET n == command[p].name
        f == command[p].file
        cleared == IF source[p] = None THEN db ELSE DeleteSource(db, source[p])
        id == NextKey(cleared, "sources")
    IN
    /\ At(p, "begin") /\ writer = None
    /\ IF Named(cleared, n) # {}
         THEN Exit(p) /\ UNCHANGED store
         ELSE /\ writer' = p
              /\ work' = InsertSource(cleared, id, n, f)
              /\ source' = [source EXCEPT ![p] = id]
              /\ GoTo(p, "messages")
              /\ UNCHANGED <<db, command, next, loaded>>
    /\ UNCHANGED <<output, history>>

(* The next message of the file.                                           *)
ImportMessage(p) ==
    LET f == command[p].file
        i == next[p] + 1
    IN
    /\ At(p, "messages") /\ i <= Messages[f]
    /\ IF f \in Conflicting /\ i = Messages[f]
         THEN Exit(p) /\ RollBack
         ELSE /\ work' = InsertMessage(work, source[p], i, f)
              /\ next' = [next EXCEPT ![p] = i]
              /\ UNCHANGED <<db, writer, pc, command, source, loaded>>
    /\ UNCHANGED <<output, history>>

(* The source an export reads is gone.                                     *)
NoteReplaced(d) ==
    overtaken' = overtaken \cup
        {q \in Processes : /\ pc[q] \in {"nodes", "listing", "reading",
                                         "values", "passthrough"}
                           /\ source[q] \notin {r.id : r \in d.sources}}

(* The passthrough statements and the end of the block.                    *)
ImportCommit(p) ==
    /\ At(p, "messages") /\ next[p] = Messages[command[p].file]
    /\ db' = [work EXCEPT !.passthrough =
                @ \cup {[source |-> source[p], file |-> command[p].file]}]
    /\ Release /\ NoteReplaced(work) /\ Exit(p)
    /\ UNCHANGED <<output, started, doomed>>

-----------------------------------------------------------------------------
(* dbc-export: load_dbc_source, one SELECT a step                          *)

ExportSource(p) ==
    LET existing == Named(db, command[p].name) IN
    /\ At(p, "export")
    /\ \/ existing = {} /\ Exit(p)
       \/ \E r \in existing :
             /\ source' = [source EXCEPT ![p] = r.id]
             /\ loaded' = [loaded EXCEPT ![p].header = {r.file}]
             /\ GoTo(p, "nodes") /\ UNCHANGED <<command, next>>
    /\ UNCHANGED <<store, output, history>>

ExportNodes(p) ==
    LET files == {r.file : r \in {x \in db.nodes : x.source = source[p]}} IN
    /\ At(p, "nodes")
    /\ loaded' = [loaded EXCEPT ![p].header = @ \cup files]
    /\ GoTo(p, "listing")
    /\ UNCHANGED <<store, output, history, command, source, next>>

(* The message rows of the source, with the keys their signals are read by.*)
ExportListing(p) ==
    LET listed == {r \in db.messages : r.source = source[p]} IN
    /\ At(p, "listing")
    /\ loaded' = [loaded EXCEPT ![p].messages =
                    {<<r.file, r.ordinal, r.id>> : r \in listed}]
    /\ GoTo(p, "reading")
    /\ UNCHANGED <<store, output, history, command, source, next>>

(* The signals of the next message, in the order of the listing.           *)
ExportSignals(p) ==
    LET i == next[p] + 1
        current == {m \in loaded[p].messages : m[2] = i}
        found(m) == {r \in db.signals : r.message = m[3]}
    IN
    /\ At(p, "reading") /\ current # {}
    /\ loaded' = [loaded EXCEPT ![p].signals =
                    @ \cup {<<r.file, i, r.id>> :
                              r \in UNION {found(m) : m \in current}}]
    /\ next' = [next EXCEPT ![p] = i]
    /\ GoTo(p, "values")
    /\ UNCHANGED <<store, output, history, command, source>>

ExportValues(p) ==
    LET found(s) == {r \in db.values : r.signal = s[3]}
        current == {s \in loaded[p].signals : s[2] = next[p]}
    IN
    /\ At(p, "values")
    /\ loaded' = [loaded EXCEPT ![p].values =
                    @ \cup {<<r.file, next[p]>> :
                              r \in UNION {found(s) : s \in current}}]
    /\ GoTo(p, "reading")
    /\ UNCHANGED <<store, output, history, command, source, next>>

(* The last SELECT. The keys are dropped with the cursor.                  *)
ExportPassthrough(p) ==
    LET kept == {r \in db.passthrough : r.source = source[p]}
        l == loaded[p]
    IN
    /\ At(p, "reading") /\ {m \in l.messages : m[2] = next[p] + 1} = {}
    /\ loaded' = [loaded EXCEPT ![p] =
                    [header |-> l.header,
                     messages |-> {<<m[1], m[2]>> : m \in l.messages},
                     signals |-> {<<s[1], s[2]>> : s \in l.signals},
                     values |-> l.values,
                     passthrough |-> {r.file : r \in kept}]]
    /\ GoTo(p, "checked")
    /\ UNCHANGED <<store, output, history, command, source, next>>

(* write_dbc and assert_round_trip hold of any DbcDatabase; then the       *)
(* output is looked for.                                                   *)
ExportCheckOutput(p) ==
    /\ At(p, "checked")
    /\ IF output # None /\ ~command[p].force
         THEN Exit(p)
         ELSE /\ GoTo(p, "write")
              /\ UNCHANGED <<command, source, next, loaded>>
    /\ UNCHANGED <<store, output, history>>

(* write_text, and the second round trip over the bytes on disk.           *)
ExportWrite(p) ==
    /\ At(p, "write")
    /\ output' = [content |-> loaded[p], overtaken |-> p \in overtaken]
    /\ Exit(p)
    /\ UNCHANGED <<store, history>>

-----------------------------------------------------------------------------
(* The process is killed.                                                  *)
Kill(p) ==
    /\ ~At(p, "idle")
    /\ Exit(p)
    /\ IF writer = p THEN RollBack ELSE UNCHANGED store
    /\ UNCHANGED <<output, history>>

Step(p) ==
    \/ BusyTimeout(p)
    \/ ImportCheck(p) \/ ImportBegin(p) \/ ImportMessage(p) \/ ImportCommit(p)
    \/ ExportSource(p) \/ ExportNodes(p) \/ ExportListing(p)
    \/ ExportSignals(p) \/ ExportValues(p) \/ ExportPassthrough(p)
    \/ ExportCheckOutput(p) \/ ExportWrite(p)

Next == \E p \in Processes : Start(p) \/ Step(p) \/ Kill(p)

Spec == Init /\ [][Next]_vars

-----------------------------------------------------------------------------
(* The source in the tables of d under a source_id, as load_dbc_source     *)
(* would build it from one state.                                          *)
Stored(d, id) ==
    LET messages == {m \in d.messages : m.source = id}
        signals(m) == {s \in d.signals : s.message = m.id}
        values(m) == {v \in d.values : v.signal \in {s.id : s \in signals(m)}}
    IN [header |-> {r.file : r \in {x \in d.sources : x.id = id}
                                   \cup {x \in d.nodes : x.source = id}},
        messages |-> {<<m.file, m.ordinal>> : m \in messages},
        signals |-> UNION {{<<s.file, m.ordinal>> : s \in signals(m)} :
                              m \in messages},
        values |-> UNION {{<<v.file, m.ordinal>> : v \in values(m)} :
                              m \in messages},
        passthrough |-> {r.file : r \in {x \in d.passthrough : x.source = id}}]

(* The keys of a state never exceed sqlite_sequence, and rows of one       *)
(* parent belong to it alone; the outputs are files of parts.              *)
TypeOK ==
    /\ \A d \in {db, work} :
        /\ \A r \in d.sources : r.id \in 1 .. d.last["sources"]
        /\ \A r \in d.messages : r.id \in 1 .. d.last["messages"]
        /\ \A r \in d.signals : r.id \in 1 .. d.last["signals"]
        /\ \A r, q \in d.sources : r.id = q.id \/ r.name = q.name => r = q
    /\ \A p \in Processes : next[p] \in Nat
    /\ started \in 0 .. MaxCommands /\ overtaken \subseteq Processes

(* Every stored source is one DBC file, whole, and no row is left behind   *)
(* by a source that was replaced, by a file that breaks a constraint half  *)
(* way through its import, or by an importer that was killed.              *)
SourceWhole ==
    /\ \A r \in db.sources : Stored(db, r.id) = Whole(r.file)
    /\ {m.source : m \in db.messages} \subseteq {r.id : r \in db.sources}
    /\ {s.message : s \in db.signals} \subseteq {m.id : m \in db.messages}
    /\ {v.signal : v \in db.values} \subseteq {s.id : s \in db.signals}

(* An export never mixes two imports of a source: what it read before and  *)
(* after a replacement belongs to one file.                                *)
ExportNeverMixes ==
    output # None =>
        LET parts == output.content IN
        \E f \in Files : /\ parts.header = {f}
                         /\ parts.messages \subseteq Whole(f).messages
                         /\ parts.signals \subseteq Whole(f).signals
                         /\ parts.values \subseteq Whole(f).values
                         /\ parts.passthrough \subseteq {f}

(* An export that no replacement overtook is the imported source.          *)
ExportUndisturbedWhole ==
    output # None /\ ~output.overtaken =>
        \E f \in Files : output.content = Whole(f)

(* dbc-import removes only a source that an import with --replace has been *)
(* shown by its own SELECT, and a name once imported stays.                *)
ReplacesOnlySeen ==
    [][\A r \in db.sources : r \notin db'.sources =>
            /\ r \in doomed
            /\ \E p \in Processes : writer = p /\ command[p].replace
            /\ Named(db', r.name) # {}]_vars

(* What dbc-export writes is the database that was imported.               *)
ExportWhole == output # None => \E f \in Files : output.content = Whole(f)
=============================================================================
