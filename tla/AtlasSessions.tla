--------------------------- MODULE AtlasSessions ---------------------------
(***************************************************************************)
(* The session commands of atlas.py: ingest, discover and correlate, run   *)
(* by operating system processes that share one SQLite file in WAL mode.   *)
(*                                                                         *)
(* A SELECT outside a transaction reads the last committed state, db, in   *)
(* one step. "with connection" starts a transaction at its first write:    *)
(* the process becomes the writer and changes its own copy, work, until    *)
(* the block commits the copy or an exception drops it. A process that     *)
(* waits for the writer longer than the busy timeout of the sqlite3 module *)
(* fails. A capture is a manifest with its candump log; the frames of a    *)
(* capture are numbered as the importer numbers the lines of the log.      *)
(***************************************************************************)
EXTENDS Naturals, FiniteSets

CONSTANTS
    Processes,
    Sessions,       \* session identifiers
    Captures,       \* capture directories
    SessionOf,      \* the session_id in the manifest of a capture
    Unusable,       \* captures whose manifest or files are refused
    Lines,          \* frames in the log of a capture
    Malformed,      \* the first line that does not parse; 0: none
    Declared,       \* total_frames of the manifest, None when it is absent
    Batch,          \* rows in one executemany
    Annotations,    \* rows of the transcript
    MaxCommands,    \* bound: commands started in a behaviour
    None

VARIABLES
    (* the database: last committed state, and the copy of the writer      *)
    db, work, writer,
    (* the processes                                                       *)
    pc,
    command,    \* the arguments
    found,      \* the row the first SELECT returned
    inserted,   \* rows handed to executemany
    rows,       \* what the SELECTs over frames returned, one per statement
    (* history                                                             *)
    started,    \* commands started
    outrun,     \* processes whose scan was followed by an import
    stale       \* sessions whose metrics such a process wrote

store == <<db, work, writer>>
process == <<pc, command, found, inserted, rows>>
history == <<started, outrun, stale>>
vars == <<store, process, history>>

FramesOf(c) == {<<c, i>> : i \in 1 .. Lines[c]}
Frames == UNION {FramesOf(c) : c \in Captures}

(* sessions with buses and capture_files, frames, id_metrics with          *)
(* byte_metrics, annotations with correlations. A metric or an annotation  *)
(* is represented by the frames it was computed from.                      *)
Database == [session: [Sessions -> Captures \cup {None}],
             frames: [Sessions -> SUBSET Frames],
             metrics: [Sessions -> SUBSET Frames],
             annotations: [Sessions -> SUBSET [row: 1 .. Annotations,
                                               from: SUBSET Frames]]]

Empty == [session |-> [s \in Sessions |-> None],
          frames |-> [s \in Sessions |-> {}],
          metrics |-> [s \in Sessions |-> {}],
          annotations |-> [s \in Sessions |-> {}]]

Commands ==
    [op: {"ingest"}, capture: Captures, replace: BOOLEAN]
    \cup [op: {"discover", "correlate"}, session: Sessions]

(* The session a command is about.                                         *)
Target(p) == IF command[p].op = "ingest" THEN SessionOf[command[p].capture]
                                         ELSE command[p].session

Init ==
    /\ db = Empty /\ work = Empty /\ writer = None
    /\ pc = [p \in Processes |-> "idle"]
    /\ command = [p \in Processes |-> None]
    /\ found = [p \in Processes |-> None]
    /\ inserted = [p \in Processes |-> 0]
    /\ rows = [p \in Processes |-> <<>>]
    /\ started = 0 /\ outrun = {} /\ stale = {}

At(p, l) == pc[p] = l
GoTo(p, l) == pc' = [pc EXCEPT ![p] = l]

(* main(): AtlasError is exit status 2, anything else a traceback. The     *)
(* finally clause closes the connection, which ends its transaction; what  *)
(* the process read goes with it.                                          *)
Exit(p) ==
    /\ GoTo(p, "idle")
    /\ command' = [command EXCEPT ![p] = None]
    /\ found' = [found EXCEPT ![p] = None]
    /\ inserted' = [inserted EXCEPT ![p] = 0]
    /\ rows' = [rows EXCEPT ![p] = <<>>]

Release == writer' = None /\ work' = Empty

(* Mutant: an exception leaves the transaction open.                       *)
KeepOpen == UNCHANGED store

(* An exception inside "with connection": roll back.                       *)
RollBack == Release /\ UNCHANGED db

Commit(d) == db' = d /\ Release

-----------------------------------------------------------------------------
(* A new process: its command, or the refusal of what it was given.        *)
Start(p) ==
    /\ At(p, "idle") /\ started < MaxCommands              \* bound
    /\ started' = started + 1
    /\ \E c \in Commands :
        /\ command' = [command EXCEPT ![p] = c]
        /\ GoTo(p, c.op)
    /\ outrun' = outrun \ {p}
    /\ UNCHANGED <<store, stale, found, inserted, rows>>

(* BEGIN at the first write of the block.                                  *)
Acquire(p) == writer = None /\ writer' = p

(* sqlite3.OperationalError: the database is locked for too long.          *)
BusyTimeout(p) ==
    /\ pc[p] \in {"begin", "store metrics", "store annotations"}
    /\ writer \notin {None, p}
    /\ Exit(p)
    /\ UNCHANGED <<store, history>>

-----------------------------------------------------------------------------
(* ingest                                                                  *)

(* load_manifest and resolve_capture_files, then the SELECT.               *)
IngestCheck(p) ==
    LET c == command[p].capture IN
    /\ At(p, "ingest")
    /\ IF \/ c \in Unusable
          \/ db.session[Target(p)] # None /\ ~command[p].replace
         THEN Exit(p)
         ELSE /\ found' = [found EXCEPT ![p] = db.session[Target(p)]]
              /\ GoTo(p, "begin")
              /\ UNCHANGED <<command, inserted, rows>>
    /\ UNCHANGED <<store, history>>

(* ON DELETE CASCADE, which PRAGMA foreign_keys turns on.                  *)
DeleteSession(d, s) ==
    [session |-> [d.session EXCEPT ![s] = None],
     frames |-> [d.frames EXCEPT ![s] = {}],
     metrics |-> [d.metrics EXCEPT ![s] = {}],
     annotations |-> [d.annotations EXCEPT ![s] = {}]]

(* Mutant: the old session is deleted in a transaction of its own.         *)
IngestBeginSplit(p) ==
    LET s == Target(p) IN
    /\ At(p, "begin") /\ Acquire(p)
    /\ db' = IF found[p] # None THEN DeleteSession(db, s) ELSE db
    /\ work' = [db' EXCEPT !.session[s] = command[p].capture]
    /\ GoTo(p, "frames")
    /\ UNCHANGED <<history, command, found, inserted, rows>>

(* The DELETE, if the SELECT found a row, and the INSERTs of the session,  *)
(* its buses and its files. Another process may have inserted the session  *)
(* since: sqlite3.IntegrityError.                                          *)
IngestBegin(p) ==
    LET s == Target(p)
        cleared == IF found[p] # None THEN DeleteSession(db, s) ELSE db
    IN
    /\ At(p, "begin")
    /\ \/ /\ cleared.session[s] = None
          /\ Acquire(p)
          /\ work' = [cleared EXCEPT !.session[s] = command[p].capture]
          /\ GoTo(p, "frames")
          /\ UNCHANGED <<db, command, found, inserted, rows>>
       \/ /\ cleared.session[s] # None
          /\ writer = None
          /\ Exit(p)
          /\ UNCHANGED store
    /\ UNCHANGED history

(* Mutant: the last batch is not cut at the end of the log.                *)
NextBatchOverrun(p) ==
    LET end == Lines[command[p].capture] IN
    IF inserted[p] < end THEN inserted[p] + 1 .. end + 1 ELSE {}

(* The numbers of the rows of the next batch.                              *)
NextBatch(p) ==
    {i \in 1 .. Lines[command[p].capture] :
        i > inserted[p] /\ i <= inserted[p] + Batch}

(* One executemany. iter_candump raises at a malformed line, in the middle *)
(* of the batch that would have held it.                                   *)
IngestBatch(p) ==
    LET c == command[p].capture
        s == Target(p)
    IN
    /\ At(p, "frames") /\ NextBatch(p) # {}
    /\ IF Malformed[c] \in NextBatch(p)
         THEN Exit(p) /\ RollBack
         ELSE /\ work' = [work EXCEPT !.frames[s] =
                                @ \cup {<<c, i>> : i \in NextBatch(p)}]
              /\ inserted' = [inserted EXCEPT ![p] =
                                @ + Cardinality(NextBatch(p))]
              /\ UNCHANGED <<db, writer, pc, command, found, rows>>
    /\ UNCHANGED history

(* The discoveries that have scanned the session and not written yet.      *)
NoteImport(s) ==
    /\ outrun' = outrun \cup {q \in Processes :
                                At(q, "store metrics") /\ Target(q) = s}
    /\ stale' = stale \ {s}

(* Mutant: the frame count is compared after the block.                    *)
IngestCommitUnchecked(p) ==
    /\ At(p, "frames") /\ NextBatch(p) = {}
    /\ Commit(work) /\ Exit(p) /\ NoteImport(Target(p))
    /\ UNCHANGED started

(* The end of the block: the count declared by the manifest is compared    *)
(* with the rows inserted before the commit. The two SELECTs after it      *)
(* decide only what the process prints.                                    *)
IngestCommit(p) ==
    /\ At(p, "frames") /\ NextBatch(p) = {}
    /\ IF Declared[command[p].capture] \notin {None, inserted[p]}
         THEN Exit(p) /\ RollBack /\ UNCHANGED <<outrun, stale>>
         ELSE Commit(work) /\ Exit(p) /\ NoteImport(Target(p))
    /\ UNCHANGED started

-----------------------------------------------------------------------------
(* discover                                                                *)

DiscoverCheck(p) ==
    /\ At(p, "discover")
    /\ IF db.session[Target(p)] = None
         THEN Exit(p)
         ELSE /\ GoTo(p, "scan")
              /\ UNCHANGED <<command, found, inserted, rows>>
    /\ UNCHANGED <<store, history>>

(* Mutant: one SELECT per frame.                                           *)
DiscoverScanEach(p) ==
    LET s == Target(p)
        read == IF rows[p] = <<>> THEN {} ELSE rows[p][1]
        numbers(F) == {f[2] : f \in F}
        left == {f \in db.frames[s] : f[2] \notin numbers(read)}
    IN
    /\ At(p, "scan")
    /\ IF left = {}
         THEN /\ GoTo(p, "store metrics")
              /\ rows' = [rows EXCEPT ![p] = <<read>>]
         ELSE /\ \E f \in left : rows' = [rows EXCEPT ![p] = <<read \cup {f}>>]
              /\ UNCHANGED pc
    /\ UNCHANGED <<store, history, command, found, inserted>>

(* One SELECT; the aggregates are made while the cursor is read.           *)
DiscoverScan(p) ==
    /\ At(p, "scan")
    /\ rows' = [rows EXCEPT ![p] = <<db.frames[Target(p)]>>]
    /\ GoTo(p, "store metrics")
    /\ UNCHANGED <<store, history, command, found, inserted>>

(* DELETE and INSERT of id_metrics and byte_metrics in one block. A foreign*)
(* key fails if the session has gone; nothing makes it go.                 *)
DiscoverStore(p) ==
    LET s == Target(p) IN
    /\ At(p, "store metrics") /\ writer = None
    /\ db' = [db EXCEPT !.metrics[s] = rows[p][1]]
    /\ stale' = IF p \in outrun THEN stale \cup {s} ELSE stale \ {s}
    /\ Exit(p)
    /\ UNCHANGED <<work, writer, started, outrun>>

-----------------------------------------------------------------------------
(* correlate                                                               *)

(* The SELECT of the start time, and the transcript.                       *)
CorrelateCheck(p) ==
    /\ At(p, "correlate")
    /\ IF db.session[Target(p)] = None
         THEN Exit(p)
         ELSE /\ GoTo(p, "windows")
              /\ UNCHANGED <<command, found, inserted, rows>>
    /\ UNCHANGED <<store, history>>

(* One SELECT per annotation.                                              *)
CorrelateWindow(p) ==
    LET k == Cardinality(DOMAIN rows[p]) + 1 IN
    /\ At(p, "windows")
    /\ IF k > Annotations
         THEN GoTo(p, "store annotations") /\ UNCHANGED rows
         ELSE /\ rows' = [rows EXCEPT ![p] =
                            [i \in 1 .. k |-> IF i < k THEN rows[p][i]
                                              ELSE db.frames[Target(p)]]]
              /\ UNCHANGED pc
    /\ UNCHANGED <<store, history, command, found, inserted>>

(* DELETE and INSERT of annotations and correlations in one block.         *)
CorrelateStore(p) ==
    /\ At(p, "store annotations") /\ writer = None
    /\ db' = [db EXCEPT !.annotations[Target(p)] =
                {[row |-> i, from |-> rows[p][i]] : i \in DOMAIN rows[p]}]
    /\ Exit(p)
    /\ UNCHANGED <<work, writer, history>>

-----------------------------------------------------------------------------
(* The process is killed: SQLite drops what it had not committed.          *)
Kill(p) ==
    /\ ~At(p, "idle")
    /\ Exit(p)
    /\ IF writer = p THEN RollBack ELSE UNCHANGED store
    /\ UNCHANGED history

Step(p) ==
    \/ BusyTimeout(p)
    \/ IngestCheck(p) \/ IngestBegin(p) \/ IngestBatch(p) \/ IngestCommit(p)
    \/ DiscoverCheck(p) \/ DiscoverScan(p) \/ DiscoverStore(p)
    \/ CorrelateCheck(p) \/ CorrelateWindow(p) \/ CorrelateStore(p)

Next == \E p \in Processes : Start(p) \/ Step(p) \/ Kill(p)

Spec == Init /\ [][Next]_vars

-----------------------------------------------------------------------------
TypeOK ==
    /\ db \in Database /\ work \in Database
    /\ pc \in [Processes -> {"idle", "ingest", "begin", "frames",
            "discover", "scan",
            "store metrics", "correlate", "windows", "store annotations"}]
    /\ command \in [Processes -> Commands \cup {None}]
    /\ found \in [Processes -> Captures \cup {None}]
    /\ inserted \in [Processes -> Nat]
    /\ \A p \in Processes : \A k \in DOMAIN rows[p] : rows[p][k] \subseteq Frames
    /\ started \in 0 .. MaxCommands
    /\ outrun \subseteq Processes /\ stale \subseteq Sessions

(* Whatever a reader sees of a session is one import, whole: all frames of *)
(* the log of one usable capture, as many as its manifest declares, or     *)
(* nothing at all. A malformed line, a wrong count, a killed importer and  *)
(* two importers at once leave no part of a session behind.                *)
SessionWhole ==
    \A s \in Sessions :
        LET c == db.session[s] IN
        IF c = None
        THEN db.frames[s] = {} /\ db.metrics[s] = {} /\ db.annotations[s] = {}
        ELSE /\ c \notin Unusable /\ SessionOf[c] = s
             /\ Malformed[c] \notin 1 .. Lines[c]
             /\ Declared[c] \in {None, Lines[c]}
             /\ db.frames[s] = FramesOf(c)

(* The metrics of a session, and each annotation, describe one import,     *)
(* never part of one and part of its replacement.                          *)
OneImport(F) == \E c \in Captures : F = FramesOf(c)

MetricsOfOneImport ==
    \A s \in Sessions :
        /\ db.metrics[s] # {} => OneImport(db.metrics[s])
        /\ \A a \in db.annotations[s] : OneImport(a.from)

(* The metrics stored with a session are those of the frames stored with   *)
(* it, unless an import was committed between the scan of the discovery    *)
(* that wrote them and its write.                                          *)
MetricsCurrent ==
    \A s \in Sessions \ stale : db.metrics[s] \in {{}, db.frames[s]}

(* A session that is once imported is there for every later reader: a      *)
(* replacement is never seen half done, however its process ends.          *)
SessionsPersist ==
    [][\A s \in Sessions : db.session[s] # None => db'.session[s] # None]_vars
=============================================================================
