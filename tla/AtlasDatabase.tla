--------------------------- MODULE AtlasDatabase ---------------------------
(***************************************************************************)
(* atlas.py as a whole: processes that run session commands and processes  *)
(* that run DBC commands over the one database file. They share nothing    *)
(* but the file, and the file has one writer at a time.                    *)
(***************************************************************************)
EXTENDS Naturals, FiniteSets

CONSTANTS
    SessionProcesses, DbcProcesses, MaxCommands, None,
    Sessions, Captures, SessionOf, Unusable, Lines, Malformed, Declared,
    Batch, Annotations,
    Names, Files, Invalid, Conflicting, Messages

ASSUME ProcessesAssumption ==
    /\ SessionProcesses \cap DbcProcesses = {}
    /\ None \notin SessionProcesses \cup DbcProcesses
    /\ MaxCommands \in Nat

ASSUME CapturesAssumption ==
    /\ None \notin Captures \cup Nat
    /\ SessionOf \in [Captures -> Sessions]
    /\ Unusable \subseteq Captures
    /\ Lines \in [Captures -> Nat]
    /\ Malformed \in [Captures -> Nat]
    /\ Declared \in [Captures -> Nat \cup {None}]
    /\ Batch \in Nat \ {0}
    /\ Annotations \in Nat

ASSUME FilesAssumption ==
    /\ None \notin Files
    /\ Invalid \subseteq Files /\ Conflicting \subseteq Files
    /\ Messages \in [Files -> Nat]

VARIABLES
    writer, started,
    (* the tables of AtlasSessions and its processes                       *)
    sdb, swork, spc, scommand, found, inserted, rows, outrun, stale,
    (* the tables of AtlasDbc and its processes                            *)
    ddb, dwork, dpc, dcommand, source, next, loaded, output, doomed,
    overtaken

sessionVars == <<sdb, swork, spc, scommand, found, inserted, rows,
                 outrun, stale>>
dbcVars == <<ddb, dwork, dpc, dcommand, source, next, loaded, output,
             doomed, overtaken>>
vars == <<writer, started, sessionVars, dbcVars>>

S == INSTANCE AtlasSessions WITH
        Processes <- SessionProcesses, db <- sdb, work <- swork, pc <- spc,
        command <- scommand

D == INSTANCE AtlasDbc WITH
        Processes <- DbcProcesses, db <- ddb, work <- dwork, pc <- dpc,
        command <- dcommand

Init == S!Init /\ D!Init

SessionStep(p) == S!Step(p) /\ UNCHANGED dbcVars
DbcStep(p) == D!Step(p) /\ UNCHANGED sessionVars

Next ==
    \/ S!Next /\ UNCHANGED dbcVars
    \/ D!Next /\ UNCHANGED sessionVars

(* The operating system runs every process.                                *)
Spec == /\ Init /\ [][Next]_vars
        /\ \A p \in SessionProcesses : WF_vars(SessionStep(p))
        /\ \A p \in DbcProcesses : WF_vars(DbcStep(p))

-----------------------------------------------------------------------------
(* The file has one writer at a time, of either kind.                      *)
TypeOK ==
    /\ writer \in SessionProcesses \cup DbcProcesses \cup {None}
    /\ S!TypeOK /\ D!TypeOK

(* What is committed is whole: every session is one import with all its    *)
(* frames, every DBC source one file with all its rows, and nothing stays  *)
(* of what a replacement, a refused file or a killed process took back.    *)
StoredWhole == S!SessionWhole /\ D!SourceWhole

(* Metrics and annotations describe one import of their session, and the   *)
(* metrics the present one unless a replacement overtook the discovery.    *)
MetricsFaithful == S!MetricsOfOneImport /\ S!MetricsCurrent

(* An exported DBC never mixes two imports of its source, and is the whole *)
(* source unless a replacement overtook the export.                        *)
ExportFaithful == D!ExportNeverMixes /\ D!ExportUndisturbedWhole

(* A session or a source once imported is there for every later reader,    *)
(* and dbc-import removes no source that it was not shown.                 *)
NothingDisappears == S!SessionsPersist /\ D!ReplacesOnlySeen

(* A process that has become the writer lets the others write again,       *)
(* whether its command succeeds, is refused or fails.                      *)
WriterLetsGo ==
    \A p \in SessionProcesses \cup DbcProcesses : writer = p ~> writer # p

(* What is derived from stored data, metrics, annotations or an exported    *)
(* file, is of one import, and of the whole and present one unless a       *)
(* replacement overtook the command.                                       *)
DerivedFaithful == MetricsFaithful /\ ExportFaithful

(* What dbc-export writes is the database that was imported.               *)
ExportWhole == D!ExportWhole
=============================================================================
