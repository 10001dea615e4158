------------------------- MODULE AtlasDatabaseProofs -------------------------
(***************************************************************************)
(* Proofs about AtlasDatabase for any number of processes, sessions,       *)
(* captures, sources and files, any sizes of them and any batch.           *)
(***************************************************************************)
EXTENDS AtlasDatabase, Integers, Sequences, FiniteSetTheorems, TLAPS

Processes == SessionProcesses \cup DbcProcesses

SharedTypes ==
    /\ writer \in Processes \cup {None}
    /\ started \in 0 .. MaxCommands

-----------------------------------------------------------------------------
(* The session commands.                                                   *)
SessionLabels == {"idle", "ingest", "begin", "frames", "discover", "scan",
                  "store metrics", "correlate", "windows", "store annotations"}

ProcessTypes ==
    /\ spc \in [SessionProcesses -> SessionLabels]
    /\ scommand \in [SessionProcesses -> S!Commands \cup {None}]
    /\ found \in [SessionProcesses -> Captures \cup {None}]
    /\ inserted \in [SessionProcesses -> Nat]
    /\ rows \in [SessionProcesses -> Seq(SUBSET S!Frames)]

SessionTypes ==
    /\ sdb \in S!Database /\ swork \in S!Database
    /\ outrun \subseteq SessionProcesses /\ stale \subseteq Sessions
    /\ ProcessTypes

(* What a process has in hand at each point of its command.                *)
Ingesting == {"ingest", "begin", "frames"}
Reading == {"discover", "scan", "store metrics", "correlate", "windows",
            "store annotations"}
Shown == {"scan", "store metrics", "windows", "store annotations"}
Scanned == {"store metrics", "windows", "store annotations"}

InHand(p) ==
    /\ spc[p] \in Ingesting =>
         scommand[p] \in [op: {"ingest"}, capture: Captures, replace: BOOLEAN]
    /\ spc[p] \in Reading =>
         scommand[p] \in [op: {"discover", "correlate"}, session: Sessions]
    /\ spc[p] \in {"begin", "frames"} => scommand[p].capture \notin Unusable
    /\ spc[p] # "frames" => inserted[p] = 0
    /\ spc[p] \notin Scanned => rows[p] = <<>>
    /\ spc[p] = "store metrics" => Len(rows[p]) = 1
    /\ spc[p] \in {"windows", "store annotations"} => Len(rows[p]) <= Annotations
    /\ \A k \in DOMAIN rows[p] : S!OneImport(rows[p][k])

(* How that compares with the database: a session that a command found is  *)
(* still there, and a scan that nobody has outrun is still right.          *)
InStore(p) ==
    /\ spc[p] = "frames" <=> writer = p
    /\ spc[p] \in Shown => sdb.session[S!Target(p)] # None
    /\ spc[p] = "store metrics" /\ p \notin outrun =>
         rows[p][1] = sdb.frames[S!Target(p)]

(* The copy of an importer is the database with the part of its capture    *)
(* that was read in the place of the session of the capture.               *)
Partial(c, n) == {<<c, i>> : i \in 1 .. n}

Replaced(w, d, c, n) ==
    LET s == SessionOf[c] IN
    /\ w.session = [d.session EXCEPT ![s] = c]
    /\ w.frames = [d.frames EXCEPT ![s] = Partial(c, n)]
    /\ w.metrics = [d.metrics EXCEPT ![s] = {}]
    /\ w.annotations = [d.annotations EXCEPT ![s] = {}]

WorkInv(p) ==
    LET c == scommand[p].capture IN
    writer = p =>
        /\ Replaced(swork, sdb, c, inserted[p])
        /\ inserted[p] <= Lines[c]
        /\ Malformed[c] \notin 1 .. inserted[p]

SessionInv ==
    /\ SessionTypes
    /\ \A p \in SessionProcesses : InHand(p) /\ InStore(p) /\ WorkInv(p)
    /\ S!SessionWhole /\ S!MetricsOfOneImport /\ S!MetricsCurrent

-----------------------------------------------------------------------------
(* The session a command is about.                                         *)
LEMMA TargetType ==
    ASSUME SessionInv, NEW p \in SessionProcesses, spc[p] # "idle"
    PROVE  /\ S!Target(p) \in Sessions
           /\ spc[p] \in Ingesting =>
                /\ scommand[p].capture \in Captures
                /\ S!Target(p) = SessionOf[scommand[p].capture]
           /\ spc[p] \in Reading => S!Target(p) = scommand[p].session
<1>1. spc[p] \in Ingesting \cup Reading
  BY DEF SessionInv, SessionTypes, ProcessTypes, SessionLabels, Ingesting, Reading
<1>2. CASE spc[p] \in Ingesting
  <2>1. scommand[p] \in [op: {"ingest"}, capture: Captures, replace: BOOLEAN]
    BY <1>2 DEF SessionInv, InHand
  <2>2. spc[p] \notin Reading
    BY <1>2 DEF Ingesting, Reading
  <2>q. QED BY <2>1, <2>2, CapturesAssumption DEF S!Target
<1>3. CASE spc[p] \in Reading
  <2>1. scommand[p] \in [op: {"discover", "correlate"}, session: Sessions]
    BY <1>3 DEF SessionInv, InHand
  <2>2. spc[p] \notin Ingesting
    BY <1>3 DEF Ingesting, Reading
  <2>q. QED BY <2>1, <2>2 DEF S!Target
<1>q. QED BY <1>1, <1>2, <1>3

(* The empty database.                                                     *)
LEMMA EmptyType == S!Empty \in S!Database
BY DEF S!Empty, S!Database

LEMMA SessionInitHolds == S!Init => SessionInv
<1> SUFFICES ASSUME S!Init PROVE SessionInv
  OBVIOUS
<1>1. SessionTypes
  BY EmptyType DEF S!Init, SessionTypes, ProcessTypes, SessionLabels
<1>2. ASSUME NEW p \in SessionProcesses PROVE InHand(p) /\ InStore(p) /\ WorkInv(p)
  <2>1. spc[p] = "idle" /\ inserted[p] = 0 /\ rows[p] = <<>> /\ writer = None
    BY DEF S!Init
  <2>2. p # None
    BY ProcessesAssumption
  <2>q. QED
    BY <2>1, <2>2 DEF InHand, InStore, WorkInv, Ingesting, Reading, Shown, Scanned
<1>3. S!SessionWhole /\ S!MetricsOfOneImport /\ S!MetricsCurrent
  BY DEF S!Init, S!Empty, S!SessionWhole, S!MetricsOfOneImport, S!MetricsCurrent
<1>q. QED BY <1>1, <1>2, <1>3 DEF SessionInv

-----------------------------------------------------------------------------
(* Steps.                                                                  *)
Same(q) ==
    /\ spc'[q] = spc[q] /\ scommand'[q] = scommand[q] /\ found'[q] = found[q]
    /\ inserted'[q] = inserted[q] /\ rows'[q] = rows[q]

(* The end of a command.                                                   *)
LEMMA ExitEffect ==
    ASSUME SessionInv, NEW p \in SessionProcesses, S!Exit(p)
    PROVE  /\ ProcessTypes'
           /\ \A q \in SessionProcesses \ {p} : Same(q)
           /\ spc'[p] = "idle" /\ InHand(p)'
<1>1. /\ spc' = [spc EXCEPT ![p] = "idle"] /\ scommand' = [scommand EXCEPT ![p] = None]
      /\ found' = [found EXCEPT ![p] = None] /\ inserted' = [inserted EXCEPT ![p] = 0]
      /\ rows' = [rows EXCEPT ![p] = <<>>]
  BY DEF S!Exit, S!GoTo
<1>2. ProcessTypes' /\ \A q \in SessionProcesses \ {p} : Same(q)
  <2>1. ProcessTypes
    BY DEF SessionInv, SessionTypes
  <2>2. spc' \in [SessionProcesses -> SessionLabels]
    BY <1>1, <2>1 DEF ProcessTypes, SessionLabels
  <2>3. scommand' \in [SessionProcesses -> S!Commands \cup {None}]
    BY <1>1, <2>1 DEF ProcessTypes
  <2>4. found' \in [SessionProcesses -> Captures \cup {None}]
    BY <1>1, <2>1 DEF ProcessTypes
  <2>5. inserted' \in [SessionProcesses -> Nat]
    BY <1>1, <2>1 DEF ProcessTypes
  <2>6. rows' \in [SessionProcesses -> Seq(SUBSET S!Frames)]
    BY <1>1, <2>1 DEF ProcessTypes
  <2>7. \A q \in SessionProcesses \ {p} : Same(q)
    BY <1>1, <2>1 DEF ProcessTypes, Same
  <2>q. QED BY <2>2, <2>3, <2>4, <2>5, <2>6, <2>7 DEF ProcessTypes
<1>3. spc'[p] = "idle" /\ inserted'[p] = 0 /\ rows'[p] = <<>>
  BY <1>1 DEF SessionInv, SessionTypes, ProcessTypes
<1>4. InHand(p)'
  BY <1>3 DEF InHand, Ingesting, Reading, Scanned
<1>q. QED BY <1>2, <1>3, <1>4

(* Steps that leave the tables and the writer alone.                       *)
LEMMA QuietSession ==
    ASSUME SessionInv, NEW p \in SessionProcesses,
           UNCHANGED <<sdb, swork, writer, stale>>,
           outrun' \in {outrun, outrun \ {p}},
           ProcessTypes', \A q \in SessionProcesses \ {p} : Same(q),
           spc[p] # "frames", spc'[p] # "frames",
           InHand(p)',
           spc'[p] \in Shown => sdb.session[S!Target(p)'] # None,
           spc'[p] = "store metrics" => rows'[p][1] = sdb.frames[S!Target(p)']
    PROVE  SessionInv'
<1>1. SessionTypes'
  BY DEF SessionInv, SessionTypes
<1>2. ASSUME NEW q \in SessionProcesses PROVE (InHand(q) /\ InStore(q) /\ WorkInv(q))'
  <2>1. CASE q = p
    BY <2>1 DEF SessionInv, InStore, WorkInv
  <2>2. CASE q # p
    <3>1. Same(q) /\ (q \in outrun' <=> q \in outrun)
      BY <2>2
    <3>2. S!Target(q)' = S!Target(q)
      BY <3>1 DEF S!Target, Same
    <3>3. InHand(q)'
      BY <3>1 DEF SessionInv, InHand, Same
    <3>4. InStore(q)'
      BY <3>1, <3>2 DEF SessionInv, InStore, Same
    <3>5. WorkInv(q)'
      BY <3>1 DEF SessionInv, WorkInv, Same
    <3>q. QED BY <3>3, <3>4, <3>5
  <2>q. QED BY <2>1, <2>2
<1>3. (S!SessionWhole /\ S!MetricsOfOneImport /\ S!MetricsCurrent)'
  BY DEF SessionInv, S!SessionWhole, S!MetricsOfOneImport, S!MetricsCurrent
<1>q. QED BY <1>1, <1>2, <1>3 DEF SessionInv

LEMMA ExitQuiet ==
    ASSUME SessionInv, NEW p \in SessionProcesses, S!Exit(p),
           UNCHANGED <<sdb, swork, writer, outrun, stale>>, spc[p] # "frames"
    PROVE  SessionInv'
BY ExitEffect, QuietSession DEF Shown

(* A process goes on and changes at most what it read.                     *)
LEMMA GoOnEffect ==
    ASSUME SessionInv, NEW p \in SessionProcesses,
           NEW l \in SessionLabels, S!GoTo(p, l),
           UNCHANGED <<scommand, inserted>>,
           found' \in [SessionProcesses -> Captures \cup {None}],
           rows' \in [SessionProcesses -> Seq(SUBSET S!Frames)],
           \A q \in SessionProcesses \ {p} : found'[q] = found[q] /\ rows'[q] = rows[q]
    PROVE  /\ ProcessTypes' /\ spc'[p] = l
           /\ \A q \in SessionProcesses \ {p} : Same(q)
           /\ scommand'[p] = scommand[p] /\ inserted'[p] = inserted[p]
           /\ S!Target(p)' = S!Target(p)
<1>1. spc' = [spc EXCEPT ![p] = l]
  BY DEF S!GoTo
<1>2. spc' \in [SessionProcesses -> SessionLabels] /\ spc'[p] = l
      /\ \A q \in SessionProcesses \ {p} : spc'[q] = spc[q]
  BY <1>1 DEF SessionInv, SessionTypes, ProcessTypes
<1>q. QED
  BY <1>2 DEF SessionInv, SessionTypes, ProcessTypes, Same, S!Target

LEMMA StartKeeps ==
    ASSUME SessionInv, NEW p \in SessionProcesses, S!Start(p) PROVE SessionInv'
<1>1. PICK c \in S!Commands : /\ scommand' = [scommand EXCEPT ![p] = c]
                             /\ spc' = [spc EXCEPT ![p] = c.op]
  BY DEF S!Start, S!GoTo
<1>2. /\ spc[p] = "idle" /\ outrun' = outrun \ {p}
      /\ UNCHANGED <<sdb, swork, writer, stale, found, inserted, rows>>
  BY DEF S!Start, S!At, S!store
<1>3. c.op \in {"ingest", "discover", "correlate"}
  BY DEF S!Commands
<1>4. spc' \in [SessionProcesses -> SessionLabels] /\ spc'[p] = c.op
      /\ \A q \in SessionProcesses \ {p} : spc'[q] = spc[q]
  BY <1>1, <1>3 DEF SessionInv, SessionTypes, ProcessTypes, SessionLabels
<1>5. /\ scommand' \in [SessionProcesses -> S!Commands \cup {None}]
      /\ scommand'[p] = c
      /\ \A q \in SessionProcesses \ {p} : scommand'[q] = scommand[q]
  BY <1>1 DEF SessionInv, SessionTypes, ProcessTypes
<1>6. ProcessTypes' /\ \A q \in SessionProcesses \ {p} : Same(q)
  BY <1>2, <1>4, <1>5 DEF SessionInv, SessionTypes, ProcessTypes, Same
<1>7. inserted[p] = 0 /\ rows[p] = <<>>
  BY <1>2 DEF SessionInv, InHand, Scanned
<1>8. InHand(p)'
  <2>1. c.op = "ingest" => c \in [op: {"ingest"}, capture: Captures, replace: BOOLEAN]
    BY DEF S!Commands
  <2>2. c.op # "ingest" => c \in [op: {"discover", "correlate"}, session: Sessions]
    BY DEF S!Commands
  <2>3. spc'[p] = c.op /\ scommand'[p] = c /\ inserted'[p] = 0 /\ rows'[p] = <<>>
    BY <1>2, <1>4, <1>5, <1>7
  <2>4. spc'[p] \in Ingesting => c.op = "ingest"
    BY <1>3, <2>3 DEF Ingesting
  <2>5. spc'[p] \in Reading => c.op # "ingest"
    BY <2>3 DEF Reading
  <2>6. spc'[p] \notin {"begin", "frames"} /\ spc'[p] \notin Scanned
    BY <1>3, <2>3 DEF Scanned
  <2>7. \A k \in DOMAIN rows'[p] : S!OneImport(rows[p][k])'
    BY <2>3
  <2>q. QED
    BY <2>1, <2>2, <2>3, <2>4, <2>5, <2>6, <2>7 DEF InHand, Scanned
<1>q. QED BY <1>2, <1>3, <1>4, <1>6, <1>8, QuietSession DEF Shown

LEMMA BusyTimeoutKeeps ==
    ASSUME SessionInv, NEW p \in SessionProcesses, S!BusyTimeout(p)
    PROVE  SessionInv'
BY ExitQuiet DEF S!BusyTimeout, S!store, S!history

LEMMA IngestCheckKeeps ==
    ASSUME SessionInv, NEW p \in SessionProcesses, S!IngestCheck(p)
    PROVE  SessionInv'
<1>1. spc[p] = "ingest" /\ UNCHANGED <<sdb, swork, writer, outrun, stale>>
  BY DEF S!IngestCheck, S!At, S!store, S!history
<1>2. CASE S!Exit(p)
  BY <1>1, <1>2, ExitQuiet
<1>3. CASE ~S!Exit(p)
  <2>1. /\ scommand[p].capture \notin Unusable
        /\ found' = [found EXCEPT ![p] = sdb.session[S!Target(p)]]
        /\ S!GoTo(p, "begin") /\ UNCHANGED <<scommand, inserted, rows>>
    BY <1>3 DEF S!IngestCheck
  <2>2. S!Target(p) \in Sessions
    BY <1>1, TargetType
  <2>3. sdb.session[S!Target(p)] \in Captures \cup {None}
    BY <2>2 DEF SessionInv, SessionTypes, S!Database
  <2>4. found' \in [SessionProcesses -> Captures \cup {None}]
        /\ \A q \in SessionProcesses \ {p} : found'[q] = found[q]
    BY <2>1, <2>3 DEF SessionInv, SessionTypes, ProcessTypes
  <2>5. rows' \in [SessionProcesses -> Seq(SUBSET S!Frames)] /\ rows' = rows
    BY <2>1 DEF SessionInv, SessionTypes, ProcessTypes
  <2>6. /\ ProcessTypes' /\ spc'[p] = "begin"
        /\ \A q \in SessionProcesses \ {p} : Same(q)
        /\ scommand'[p] = scommand[p] /\ inserted'[p] = inserted[p]
    BY <2>1, <2>4, <2>5, GoOnEffect DEF SessionLabels
  <2>7. InHand(p)'
    BY <1>1, <2>1, <2>5, <2>6 DEF SessionInv, InHand, Ingesting, Reading, Scanned
  <2>q. QED BY <1>1, <2>6, <2>7, QuietSession DEF Shown
<1>q. QED BY <1>2, <1>3

(* The SELECT that finds the session, of discover and of correlate.        *)
LEMMA CheckKeeps ==
    ASSUME SessionInv, NEW p \in SessionProcesses,
           S!DiscoverCheck(p) \/ S!CorrelateCheck(p)
    PROVE  SessionInv'
<1>1. /\ spc[p] \in {"discover", "correlate"}
      /\ UNCHANGED <<sdb, swork, writer, outrun, stale>>
  BY DEF S!DiscoverCheck, S!CorrelateCheck, S!At, S!store, S!history
<1>2. CASE S!Exit(p)
  BY <1>1, <1>2, ExitQuiet
<1>3. CASE ~S!Exit(p)
  <2>1. PICK l \in {"scan", "windows"} :
          /\ S!GoTo(p, l) /\ UNCHANGED <<scommand, found, inserted, rows>>
          /\ sdb.session[S!Target(p)] # None
    BY <1>3 DEF S!DiscoverCheck, S!CorrelateCheck
  <2>2. /\ found' \in [SessionProcesses -> Captures \cup {None}]
        /\ rows' \in [SessionProcesses -> Seq(SUBSET S!Frames)]
    BY <2>1 DEF SessionInv, SessionTypes, ProcessTypes
  <2>3. /\ ProcessTypes' /\ spc'[p] = l
        /\ \A q \in SessionProcesses \ {p} : Same(q)
        /\ scommand'[p] = scommand[p] /\ inserted'[p] = inserted[p]
        /\ S!Target(p)' = S!Target(p)
    BY <2>1, <2>2, GoOnEffect DEF SessionLabels
  <2>4. rows'[p] = <<>> /\ Len(<<>>) = 0
    BY <1>1, <2>1 DEF SessionInv, InHand, Scanned
  <2>5. Annotations \in Nat
    BY CapturesAssumption
  <2>6. InHand(p)'
    <3>1. scommand'[p] \in [op: {"discover", "correlate"}, session: Sessions]
      BY <1>1, <2>3 DEF SessionInv, InHand, Reading
    <3>2. spc'[p] \notin Ingesting \cup {"begin", "frames", "store metrics"}
      BY <2>3 DEF Ingesting
    <3>3. inserted'[p] = 0
      BY <1>1, <2>3 DEF SessionInv, InHand
    <3>4. \A k \in DOMAIN rows'[p] : S!OneImport(rows[p][k])'
      BY <2>4
    <3>5. Len(rows'[p]) <= Annotations
      BY <2>4, <2>5
    <3>q. QED BY <3>1, <3>2, <3>3, <3>4, <3>5, <2>4 DEF InHand
  <2>q. QED BY <1>1, <2>1, <2>3, <2>6, QuietSession DEF Shown
<1>q. QED BY <1>2, <1>3

(* The operator of FiniteSets under the name it has in the instance.       *)
LEMMA SameCardinality == \A T : S!Cardinality(T) = Cardinality(T)
BY DEF S!Cardinality, Cardinality

(* What a SELECT over the frames of a session returns.                     *)
LEMMA FramesRead ==
    ASSUME SessionInv, NEW s \in Sessions, sdb.session[s] # None
    PROVE  S!OneImport(sdb.frames[s]) /\ sdb.frames[s] \in SUBSET S!Frames
<1>1. sdb.session[s] \in Captures /\ sdb.frames[s] \in SUBSET S!Frames
  BY DEF SessionInv, SessionTypes, S!Database
<1>2. sdb.frames[s] = S!FramesOf(sdb.session[s])
  BY DEF SessionInv, S!SessionWhole
<1>q. QED BY <1>1, <1>2 DEF S!OneImport

LEMMA DiscoverScanKeeps ==
    ASSUME SessionInv, NEW p \in SessionProcesses, S!DiscoverScan(p)
    PROVE  SessionInv'
<1> DEFINE s == S!Target(p)
<1>1. /\ spc[p] = "scan" /\ S!GoTo(p, "store metrics")
      /\ rows' = [rows EXCEPT ![p] = <<sdb.frames[s]>>]
      /\ UNCHANGED <<sdb, swork, writer, outrun, stale, scommand, found, inserted>>
  BY DEF S!DiscoverScan, S!At, S!store, S!history
<1>2. s \in Sessions
  BY <1>1, TargetType
<1>3. sdb.session[s] # None
  BY <1>1 DEF SessionInv, InStore, Shown
<1>4. S!OneImport(sdb.frames[s]) /\ sdb.frames[s] \in SUBSET S!Frames
  BY <1>2, <1>3, FramesRead
<1>5. <<sdb.frames[s]>> \in Seq(SUBSET S!Frames)
  BY <1>4
<1>6. /\ rows' \in [SessionProcesses -> Seq(SUBSET S!Frames)]
      /\ rows'[p] = <<sdb.frames[s]>>
      /\ \A q \in SessionProcesses \ {p} : rows'[q] = rows[q]
  BY <1>1, <1>5 DEF SessionInv, SessionTypes, ProcessTypes
<1>7. found' \in [SessionProcesses -> Captures \cup {None}]
  BY <1>1 DEF SessionInv, SessionTypes, ProcessTypes
<1>8. /\ ProcessTypes' /\ spc'[p] = "store metrics"
      /\ \A q \in SessionProcesses \ {p} : Same(q)
      /\ scommand'[p] = scommand[p] /\ inserted'[p] = inserted[p]
      /\ S!Target(p)' = s
  BY <1>1, <1>6, <1>7, GoOnEffect DEF SessionLabels
<1>9. InHand(p)'
  <2>1. scommand'[p] \in [op: {"discover", "correlate"}, session: Sessions]
    BY <1>1, <1>8 DEF SessionInv, InHand, Reading
  <2>2. spc'[p] \notin Ingesting \cup {"begin", "frames", "windows", "store annotations"}
        /\ spc'[p] \in Scanned
    BY <1>8 DEF Ingesting, Scanned
  <2>3. inserted'[p] = 0
    BY <1>1, <1>8 DEF SessionInv, InHand
  <2>4. Len(rows'[p]) = 1
    BY <1>6
  <2>5. \A k \in DOMAIN rows'[p] : S!OneImport(rows[p][k])'
    <3>1. DOMAIN rows'[p] = {1} /\ rows'[p][1] = sdb.frames[s]
      <4> HIDE DEF s
      <4>q. QED BY <1>6
    <3>2. S!OneImport(rows[p][1])'
      BY <1>4, <3>1 DEF S!OneImport
    <3>q. QED BY <3>1, <3>2
  <2>q. QED BY <2>1, <2>2, <2>3, <2>4, <2>5 DEF InHand
<1>10. rows'[p][1] = sdb.frames[S!Target(p)']
  <2> HIDE DEF s
  <2>1. rows'[p][1] = sdb.frames[s]
    BY <1>6
  <2>q. QED BY <2>1, <1>8 DEF s
<1>q. QED
  <2>1. spc[p] # "frames" /\ spc'[p] # "frames"
    BY <1>1, <1>8
  <2>2. sdb.session[S!Target(p)'] # None
    BY <1>3, <1>8
  <2>q. QED BY <1>1, <1>8, <1>9, <1>10, <2>1, <2>2, QuietSession

LEMMA CorrelateWindowKeeps ==
    ASSUME SessionInv, NEW p \in SessionProcesses, S!CorrelateWindow(p)
    PROVE  SessionInv'
<1> DEFINE s == S!Target(p)
           k == Cardinality(DOMAIN rows[p]) + 1
           n == Len(rows[p])
<1>1. /\ spc[p] = "windows"
      /\ UNCHANGED <<sdb, swork, writer, outrun, stale, scommand, found, inserted>>
  BY DEF S!CorrelateWindow, S!At, S!store, S!history
<1>2. s \in Sessions
  BY <1>1, TargetType
<1>3. sdb.session[s] # None
  BY <1>1 DEF SessionInv, InStore, Shown
<1>4. S!OneImport(sdb.frames[s]) /\ sdb.frames[s] \in SUBSET S!Frames
  BY <1>2, <1>3, FramesRead
<1>5. /\ rows[p] \in Seq(SUBSET S!Frames) /\ DOMAIN rows[p] = 1 .. n /\ n \in Nat
      /\ n <= Annotations /\ inserted[p] = 0
      /\ \A i \in 1 .. n : S!OneImport(rows[p][i])
      /\ scommand[p] \in [op: {"discover", "correlate"}, session: Sessions]
  <2>1. rows[p] \in Seq(SUBSET S!Frames)
    BY DEF SessionInv, SessionTypes, ProcessTypes
  <2>2. DOMAIN rows[p] = 1 .. n /\ n \in Nat
    BY <2>1
  <2>3. InHand(p)
    BY DEF SessionInv
  <2>4. n <= Annotations /\ inserted[p] = 0
    BY <1>1, <2>3 DEF InHand
  <2>5. \A i \in DOMAIN rows[p] : S!OneImport(rows[p][i])
    BY <2>3 DEF InHand
  <2>6. scommand[p] \in [op: {"discover", "correlate"}, session: Sessions]
    BY <1>1, <2>3 DEF InHand, Reading
  <2>q. QED BY <2>1, <2>2, <2>4, <2>5, <2>6
<1>6. k = n + 1
  <2>1. Cardinality(1 .. n) = n
    BY <1>5, FS_Interval
  <2>q. QED BY <1>5, <2>1
<1>7. found' \in [SessionProcesses -> Captures \cup {None}]
  BY <1>1 DEF SessionInv, SessionTypes, ProcessTypes
<1>8. ASSUME NEW l \in {"windows", "store annotations"}, S!GoTo(p, l),
             rows' \in [SessionProcesses -> Seq(SUBSET S!Frames)],
             \A q \in SessionProcesses \ {p} : rows'[q] = rows[q],
             Len(rows'[p]) <= Annotations,
             \A i \in DOMAIN rows'[p] : S!OneImport(rows[p][i])'
      PROVE  SessionInv'
  <2>1. /\ ProcessTypes' /\ spc'[p] = l
        /\ \A q \in SessionProcesses \ {p} : Same(q)
        /\ scommand'[p] = scommand[p] /\ inserted'[p] = inserted[p]
        /\ S!Target(p)' = s
    BY <1>1, <1>7, <1>8, GoOnEffect DEF SessionLabels
  <2>2. InHand(p)'
    <3>1. spc'[p] \notin Ingesting \cup {"begin", "frames", "store metrics"}
          /\ spc'[p] \in Scanned
      BY <2>1 DEF Ingesting, Scanned
    <3>q. QED BY <3>1, <2>1, <1>5, <1>8 DEF InHand
  <2>3. spc[p] # "frames" /\ spc'[p] # "frames" /\ spc'[p] # "store metrics"
    BY <1>1, <2>1
  <2>4. sdb.session[S!Target(p)'] # None
    BY <1>3, <2>1
  <2>q. QED BY <1>1, <2>1, <2>2, <2>3, <2>4, QuietSession
<1>9. CASE k > Annotations
  <2>1. S!GoTo(p, "store annotations") /\ rows' = rows
    BY <1>9, SameCardinality DEF S!CorrelateWindow
  <2>2. rows' \in [SessionProcesses -> Seq(SUBSET S!Frames)]
    BY <2>1 DEF SessionInv, SessionTypes, ProcessTypes
  <2>3. \A i \in DOMAIN rows'[p] : S!OneImport(rows[p][i])'
    BY <1>5, <2>1 DEF S!OneImport
  <2>q. QED BY <1>5, <1>8, <2>1, <2>2, <2>3
<1>10. CASE ~(k > Annotations)
  <2> DEFINE r == [i \in 1 .. k |-> IF i < k THEN rows[p][i] ELSE sdb.frames[s]]
  <2>1. spc' = spc /\ rows' = [rows EXCEPT ![p] = r]
    BY <1>10, SameCardinality DEF S!CorrelateWindow
  <2>2. \A i \in 1 .. k : r[i] \in SUBSET S!Frames /\ S!OneImport(r[i])
    <3>1. ASSUME NEW i \in 1 .. k PROVE r[i] \in SUBSET S!Frames /\ S!OneImport(r[i])
      <4>1. CASE i < k
        <5>1. i \in 1 .. n
          BY <4>1, <1>5, <1>6
        <5>2. rows[p][i] \in SUBSET S!Frames /\ S!OneImport(rows[p][i])
          BY <5>1, <1>5
        <5>3. r[i] = rows[p][i]
          BY <4>1
        <5>q. QED BY <5>2, <5>3
      <4>2. CASE ~(i < k)
        <5>1. r[i] = sdb.frames[s]
          BY <4>2
        <5>q. QED BY <5>1, <1>4
      <4>q. QED BY <4>1, <4>2
    <3>q. QED BY <3>1
  <2>3. r \in Seq(SUBSET S!Frames) /\ Len(r) = k /\ DOMAIN r = 1 .. k
    <3>1. k \in Nat
      BY <1>5, <1>6
    <3>2. r \in [1 .. k -> SUBSET S!Frames]
      BY <2>2
    <3>q. QED BY <3>1, <3>2
  <2>4. /\ rows' \in [SessionProcesses -> Seq(SUBSET S!Frames)] /\ rows'[p] = r
        /\ \A q \in SessionProcesses \ {p} : rows'[q] = rows[q]
    <3> HIDE DEF r
    <3>q. QED BY <2>1, <2>3 DEF SessionInv, SessionTypes, ProcessTypes
  <2>5. S!GoTo(p, "windows")
    <3>1. spc' = [spc EXCEPT ![p] = "windows"]
      BY <1>1, <2>1 DEF SessionInv, SessionTypes, ProcessTypes
    <3>q. QED BY <3>1 DEF S!GoTo
  <2>6. Len(rows'[p]) <= Annotations
    BY <1>5, <1>6, <1>10, <2>3, <2>4, CapturesAssumption
  <2>7. \A i \in DOMAIN rows'[p] : S!OneImport(rows[p][i])'
    <3> HIDE DEF r
    <3>q. QED BY <2>2, <2>3, <2>4 DEF S!OneImport
  <2>q. QED
    <3> HIDE DEF r
    <3>q. QED BY <1>8, <2>4, <2>5, <2>6, <2>7
<1>q. QED BY <1>9, <1>10

-----------------------------------------------------------------------------
(* Steps that change the tables or the writer.                             *)
LEMMA OtherInHand ==
    ASSUME SessionInv, NEW q \in SessionProcesses, Same(q)
    PROVE  InHand(q)' /\ S!Target(q)' = S!Target(q)
BY DEF SessionInv, InHand, Same, S!Target

(* Without a writer no process is in the middle of a transaction.          *)
LEMMA NoWriter ==
    ASSUME SessionInv, NEW q \in SessionProcesses, writer = None
    PROVE  spc[q] # "frames"
<1>1. q # None
  BY ProcessesAssumption
<1>2. spc[q] = "frames" <=> writer = q
  BY DEF SessionInv, InStore
<1>q. QED BY <1>1, <1>2

LEMMA RollBackKeeps ==
    ASSUME SessionInv, NEW p \in SessionProcesses, writer = p, S!Exit(p),
           S!RollBack, UNCHANGED <<outrun, stale>>
    PROVE  SessionInv'
<1>1. writer' = None /\ swork' = S!Empty /\ sdb' = sdb
  BY DEF S!RollBack, S!Release
<1>2. /\ ProcessTypes' /\ \A q \in SessionProcesses \ {p} : Same(q)
      /\ spc'[p] = "idle" /\ InHand(p)'
  BY ExitEffect
<1>3. SessionTypes'
  BY <1>1, <1>2, EmptyType DEF SessionInv, SessionTypes
<1>4. ASSUME NEW q \in SessionProcesses PROVE (InHand(q) /\ InStore(q) /\ WorkInv(q))'
  <2>1. writer' # q
    BY <1>1, ProcessesAssumption
  <2>2. CASE q = p
    BY <1>2, <2>1, <2>2 DEF InStore, WorkInv, Shown
  <2>3. CASE q # p
    <3>1. Same(q)
      BY <1>2, <2>3
    <3>2. InHand(q)' /\ S!Target(q)' = S!Target(q)
      BY <3>1, OtherInHand
    <3>3. spc[q] # "frames"
      BY <2>3 DEF SessionInv, InStore
    <3>4. InStore(q)'
      BY <1>1, <2>1, <3>1, <3>2, <3>3 DEF SessionInv, InStore, Same
    <3>q. QED BY <2>1, <3>2, <3>4 DEF WorkInv
  <2>q. QED BY <2>2, <2>3
<1>5. (S!SessionWhole /\ S!MetricsOfOneImport /\ S!MetricsCurrent)'
  BY <1>1 DEF SessionInv, S!SessionWhole, S!MetricsOfOneImport, S!MetricsCurrent
<1>q. QED BY <1>3, <1>4, <1>5 DEF SessionInv

LEMMA KillKeeps ==
    ASSUME SessionInv, NEW p \in SessionProcesses, S!Kill(p)
    PROVE  SessionInv'
<1>1. S!Exit(p) /\ UNCHANGED <<outrun, stale>>
  BY DEF S!Kill, S!history
<1>2. CASE writer = p
  BY <1>1, <1>2, RollBackKeeps DEF S!Kill
<1>3. CASE writer # p
  <2>1. UNCHANGED <<sdb, swork, writer>>
    BY <1>3 DEF S!Kill, S!store
  <2>2. spc[p] # "frames"
    BY <1>3 DEF SessionInv, InStore
  <2>q. QED BY <1>1, <2>1, <2>2, ExitQuiet
<1>q. QED BY <1>2, <1>3

(* The copy with which an importer starts.                                 *)
LEMMA Cleared ==
    ASSUME SessionInv, NEW c \in Captures,
           NEW d \in {sdb, S!DeleteSession(sdb, SessionOf[c])},
           d.session[SessionOf[c]] = None
    PROVE  /\ [d EXCEPT !.session[SessionOf[c]] = c] \in S!Database
           /\ Replaced([d EXCEPT !.session[SessionOf[c]] = c], sdb, c, 0)
<1> DEFINE s == SessionOf[c]
           w == [d EXCEPT !.session[s] = c]
<1>0. s \in Sessions
  BY CapturesAssumption
<1> HIDE DEF s
<1>1. sdb \in S!Database
  BY DEF SessionInv, SessionTypes
<1>2. d \in S!Database
  BY <1>1 DEF S!DeleteSession, S!Database
<1>3. w = [session |-> [d.session EXCEPT ![s] = c], frames |-> d.frames,
           metrics |-> d.metrics, annotations |-> d.annotations]
  BY <1>2 DEF S!Database
<1> HIDE DEF w
<1>4. w \in S!Database
  BY <1>2, <1>3 DEF S!Database
<1>5. /\ w.session = [sdb.session EXCEPT ![s] = c]
      /\ w.frames = [sdb.frames EXCEPT ![s] = {}]
      /\ w.metrics = [sdb.metrics EXCEPT ![s] = {}]
      /\ w.annotations = [sdb.annotations EXCEPT ![s] = {}]
  <2>1. CASE d = sdb
    <3>1. sdb.frames[s] = {} /\ sdb.metrics[s] = {} /\ sdb.annotations[s] = {}
      BY <1>0, <2>1 DEF SessionInv, S!SessionWhole, s
    <3>2. /\ sdb.frames = [sdb.frames EXCEPT ![s] = {}]
          /\ sdb.metrics = [sdb.metrics EXCEPT ![s] = {}]
          /\ sdb.annotations = [sdb.annotations EXCEPT ![s] = {}]
      BY <1>1, <3>1 DEF S!Database
    <3>q. QED BY <1>3, <2>1, <3>2
  <2>2. CASE d = S!DeleteSession(sdb, s)
    <3>1. /\ d.session = [sdb.session EXCEPT ![s] = None]
          /\ d.frames = [sdb.frames EXCEPT ![s] = {}]
          /\ d.metrics = [sdb.metrics EXCEPT ![s] = {}]
          /\ d.annotations = [sdb.annotations EXCEPT ![s] = {}]
      BY <2>2 DEF S!DeleteSession
    <3>2. [d.session EXCEPT ![s] = c] = [sdb.session EXCEPT ![s] = c]
      BY <1>1, <3>1 DEF S!Database
    <3>q. QED BY <1>3, <3>1, <3>2
  <2>q. QED BY <2>1, <2>2 DEF s
<1>6. Partial(c, 0) = {}
  BY DEF Partial
<1>q. QED BY <1>4, <1>5, <1>6 DEF Replaced, s, w

LEMMA IngestBeginKeeps ==
    ASSUME SessionInv, NEW p \in SessionProcesses, S!IngestBegin(p)
    PROVE  SessionInv'
<1> DEFINE s == S!Target(p)
           c == scommand[p].capture
           d == IF found[p] # None THEN S!DeleteSession(sdb, s) ELSE sdb
<1>1. spc[p] = "begin" /\ UNCHANGED <<outrun, stale>>
  BY DEF S!IngestBegin, S!At, S!history
<1>2. s \in Sessions /\ c \in Captures /\ s = SessionOf[c] /\ c \notin Unusable
      /\ inserted[p] = 0
  BY <1>1, TargetType DEF Ingesting, SessionInv, InHand
<1>3. CASE S!Exit(p) /\ UNCHANGED S!store
  BY <1>1, <1>3, ExitQuiet DEF S!store
<1>4. CASE /\ d.session[s] = None /\ S!Acquire(p)
           /\ swork' = [d EXCEPT !.session[s] = c]
           /\ S!GoTo(p, "frames")
           /\ UNCHANGED <<sdb, scommand, found, inserted, rows>>
  <2>1. writer = None /\ writer' = p
    BY <1>4 DEF S!Acquire
  <2>2. found' \in [SessionProcesses -> Captures \cup {None}]
        /\ rows' \in [SessionProcesses -> Seq(SUBSET S!Frames)]
    BY <1>4 DEF SessionInv, SessionTypes, ProcessTypes
  <2>3. /\ ProcessTypes' /\ spc'[p] = "frames"
        /\ \A q \in SessionProcesses \ {p} : Same(q)
        /\ scommand'[p] = scommand[p] /\ inserted'[p] = inserted[p]
        /\ S!Target(p)' = S!Target(p)
    BY <1>4, <2>2, GoOnEffect DEF SessionLabels
  <2>4. swork' \in S!Database /\ Replaced(swork', sdb, c, 0)
    <3>1. d \in {sdb, S!DeleteSession(sdb, s)}
      OBVIOUS
    <3>2. d.session[s] = None /\ swork' = [d EXCEPT !.session[s] = c]
      BY <1>4
    <3> HIDE DEF s, c, d
    <3>q. QED BY <1>2, <3>1, <3>2, Cleared
  <2>5. SessionTypes'
    BY <1>1, <1>4, <2>3, <2>4 DEF SessionInv, SessionTypes
  <2>6. InHand(p)'
    <3>1. InHand(p)
      BY DEF SessionInv
    <3>2. scommand'[p] \in [op: {"ingest"}, capture: Captures, replace: BOOLEAN]
      BY <1>1, <2>3, <3>1 DEF InHand, Ingesting
    <3>3. rows'[p] = <<>>
      BY <1>1, <1>4, <3>1 DEF InHand, Scanned
    <3>4. spc'[p] \notin Reading \cup Scanned \cup
                         {"store metrics", "windows", "store annotations"}
      BY <2>3 DEF Reading, Scanned
    <3>5. scommand'[p].capture \notin Unusable
      BY <1>2, <2>3
    <3>q. QED BY <2>3, <3>2, <3>3, <3>4, <3>5 DEF InHand
  <2>7. InStore(p)'
    BY <2>1, <2>3 DEF InStore, Shown
  <2>8. WorkInv(p)'
    <3>1. Lines[c] \in Nat /\ Malformed[c] \in Nat /\ 1 .. 0 = {}
      BY <1>2, CapturesAssumption
    <3>2. scommand'[p].capture = c /\ inserted'[p] = 0 /\ sdb' = sdb
      BY <1>2, <1>4, <2>3
    <3> HIDE DEF s, c, d
    <3>q. QED BY <2>4, <3>1, <3>2 DEF WorkInv, Replaced
  <2>9. ASSUME NEW q \in SessionProcesses \ {p}
        PROVE  (InHand(q) /\ InStore(q) /\ WorkInv(q))'
    <3>1. Same(q) /\ InHand(q)' /\ S!Target(q)' = S!Target(q)
      BY <2>3, OtherInHand
    <3>2. spc[q] # "frames" /\ writer' # q
      BY <2>1, NoWriter
    <3>3. InStore(q)'
      BY <1>1, <1>4, <3>1, <3>2 DEF SessionInv, InStore, Same
    <3>q. QED BY <3>1, <3>2, <3>3 DEF WorkInv
  <2>10. (S!SessionWhole /\ S!MetricsOfOneImport /\ S!MetricsCurrent)'
    BY <1>1, <1>4 DEF SessionInv, S!SessionWhole, S!MetricsOfOneImport, S!MetricsCurrent
  <2>q. QED BY <2>5, <2>6, <2>7, <2>8, <2>9, <2>10 DEF SessionInv
<1>q. QED BY <1>3, <1>4 DEF S!IngestBegin

(* The importer at its batches.                                            *)
LEMMA Importing ==
    ASSUME SessionInv, NEW p \in SessionProcesses, spc[p] = "frames"
    PROVE  LET c == scommand[p].capture IN
           /\ writer = p /\ c \in Captures \ Unusable
           /\ S!Target(p) = SessionOf[c] /\ SessionOf[c] \in Sessions
           /\ Replaced(swork, sdb, c, inserted[p])
           /\ inserted[p] \in 0 .. Lines[c] /\ Lines[c] \in Nat
           /\ Malformed[c] \notin 1 .. inserted[p] /\ Malformed[c] \in Nat
<1> DEFINE c == scommand[p].capture
<1>1. c \in Captures /\ S!Target(p) = SessionOf[c]
  BY TargetType DEF Ingesting
<1>2. writer = p
  BY DEF SessionInv, InStore
<1>3. c \notin Unusable
  BY DEF SessionInv, InHand
<1>4. /\ Replaced(swork, sdb, c, inserted[p]) /\ inserted[p] <= Lines[c]
      /\ Malformed[c] \notin 1 .. inserted[p]
  BY <1>2 DEF SessionInv, WorkInv
<1>5. inserted[p] \in Nat
  BY DEF SessionInv, SessionTypes, ProcessTypes
<1>6. Lines[c] \in Nat /\ Malformed[c] \in Nat /\ SessionOf[c] \in Sessions
  BY <1>1, CapturesAssumption
<1> HIDE DEF c
<1>7. inserted[p] \in 0 .. Lines[c]
  BY <1>4, <1>5, <1>6
<1>q. QED BY <1>1, <1>2, <1>3, <1>4, <1>6, <1>7 DEF c

(* A batch follows the rows that were handed over, and ends with the log.  *)
LEMMA BatchType ==
    ASSUME SessionInv, NEW p \in SessionProcesses, spc[p] = "frames"
    PROVE  LET c == scommand[p].capture
               n == inserted[p]
               m == n + Cardinality(S!NextBatch(p))
           IN /\ m \in n .. Lines[c]
              /\ S!NextBatch(p) = n + 1 .. m
              /\ S!NextBatch(p) = {} => n = Lines[c]
<1> DEFINE c == scommand[p].capture
           n == inserted[p]
           e == IF n + Batch < Lines[c] THEN n + Batch ELSE Lines[c]
<1>1. n \in 0 .. Lines[c] /\ Lines[c] \in Nat
  BY Importing
<1>2. Batch \in Nat \ {0}
  BY CapturesAssumption
<1>3. S!NextBatch(p) = {i \in 1 .. Lines[c] : i > n /\ i <= n + Batch}
  BY DEF S!NextBatch
<1> HIDE DEF c, n
<1>4. e \in n .. Lines[c]
  BY <1>1, <1>2
<1>5. S!NextBatch(p) = n + 1 .. e
  BY <1>1, <1>2, <1>3
<1> HIDE DEF e
<1>6. Cardinality(n + 1 .. e) = e - n
  <2>1. n \in Int /\ n + 1 \in Int /\ e \in Int /\ n <= e
    BY <1>1, <1>4
  <2>2. Cardinality(n + 1 .. e) = IF n + 1 > e THEN 0 ELSE e - (n + 1) + 1
    BY <2>1, FS_Interval
  <2>q. QED BY <2>1, <2>2
<1>7. n + Cardinality(S!NextBatch(p)) = e
  BY <1>1, <1>4, <1>5, <1>6
<1>8. S!NextBatch(p) = {} => n = Lines[c]
  BY <1>1, <1>2, <1>4, <1>5 DEF e
<1>q. QED BY <1>4, <1>5, <1>7, <1>8 DEF c, n

LEMMA IngestBatchKeeps ==
    ASSUME SessionInv, NEW p \in SessionProcesses, S!IngestBatch(p)
    PROVE  SessionInv'
<1> DEFINE c == scommand[p].capture
           s == S!Target(p)
           n == inserted[p]
           m == n + Cardinality(S!NextBatch(p))
<1>1. spc[p] = "frames" /\ UNCHANGED <<outrun, stale>>
  BY DEF S!IngestBatch, S!At, S!history
<1>2. /\ writer = p /\ c \in Captures \ Unusable /\ s = SessionOf[c] /\ s \in Sessions
      /\ Replaced(swork, sdb, c, n) /\ Lines[c] \in Nat
      /\ n \in 0 .. Lines[c] /\ Malformed[c] \notin 1 .. n /\ Malformed[c] \in Nat
  BY <1>1, Importing
<1>3. m \in n .. Lines[c] /\ S!NextBatch(p) = n + 1 .. m
  BY <1>1, BatchType
<1>4. CASE S!Exit(p) /\ S!RollBack
  BY <1>1, <1>2, <1>4, RollBackKeeps
<1>5. CASE ~(S!Exit(p) /\ S!RollBack)
  <2>1. /\ Malformed[c] \notin S!NextBatch(p)
        /\ swork' = [swork EXCEPT !.frames[s] =
                        @ \cup {<<c, i>> : i \in S!NextBatch(p)}]
        /\ inserted' = [inserted EXCEPT ![p] =
                        @ + Cardinality(S!NextBatch(p))]
        /\ UNCHANGED <<sdb, writer, spc, scommand, found, rows>>
    BY <1>5, SameCardinality DEF S!IngestBatch
  <2> HIDE DEF c, s, n
  <2>2. /\ inserted' \in [SessionProcesses -> Nat] /\ inserted'[p] = m
        /\ \A q \in SessionProcesses \ {p} : inserted'[q] = inserted[q]
    <3>1. m \in Nat
      BY <1>2, <1>3
    <3>q. QED BY <2>1, <3>1 DEF SessionInv, SessionTypes, ProcessTypes, n
  <2>3. ProcessTypes' /\ \A q \in SessionProcesses \ {p} : Same(q)
    BY <2>1, <2>2 DEF SessionInv, SessionTypes, ProcessTypes, Same
  <2> HIDE DEF m
  <2>4. swork' \in S!Database /\ Replaced(swork', sdb, c, m)
    <3> DEFINE F == {<<c, i>> : i \in S!NextBatch(p)}
    <3>1. swork \in S!Database
      BY DEF SessionInv, SessionTypes
    <3>2. F \subseteq S!Frames
      BY <1>2, <1>3 DEF S!Frames, S!FramesOf
    <3>3. swork' = [session |-> swork.session,
                    frames |-> [swork.frames EXCEPT ![s] = @ \cup F],
                    metrics |-> swork.metrics, annotations |-> swork.annotations]
      BY <2>1, <3>1 DEF S!Database
    <3>4. Partial(c, m) = Partial(c, n) \cup F
      BY <1>2, <1>3 DEF Partial
    <3> HIDE DEF F
    <3>5. swork' \in S!Database
      BY <1>2, <3>1, <3>2, <3>3 DEF S!Database
    <3>6. sdb \in S!Database
      BY DEF SessionInv, SessionTypes
    <3>7. swork.frames = [sdb.frames EXCEPT ![s] = Partial(c, n)]
      BY <1>2 DEF Replaced
    <3>8. [swork.frames EXCEPT ![s] = @ \cup F]
          = [sdb.frames EXCEPT ![s] = Partial(c, m)]
      BY <1>2, <3>4, <3>6, <3>7 DEF S!Database
    <3>q. QED BY <1>2, <3>3, <3>5, <3>8 DEF Replaced
  <2>5. SessionTypes'
    BY <1>1, <2>1, <2>3, <2>4 DEF SessionInv, SessionTypes
  <2>6. InHand(p)'
    BY <1>1, <2>1 DEF SessionInv, InHand, S!OneImport
  <2>7. InStore(p)'
    BY <1>1, <2>1 DEF SessionInv, InStore, Shown
  <2>8. WorkInv(p)'
    <3>1. scommand'[p].capture = c /\ inserted'[p] = m /\ sdb' = sdb
      BY <2>1, <2>2 DEF c
    <3>2. m <= Lines[c] /\ Malformed[c] \notin 1 .. m
      BY <1>2, <1>3, <2>1
    <3>q. QED BY <2>4, <3>1, <3>2 DEF WorkInv, Replaced
  <2>9. ASSUME NEW q \in SessionProcesses \ {p}
        PROVE  (InHand(q) /\ InStore(q) /\ WorkInv(q))'
    <3>1. Same(q) /\ InHand(q)' /\ S!Target(q)' = S!Target(q) /\ writer' # q
      BY <1>2, <2>1, <2>3, OtherInHand
    <3>2. InStore(q)'
      BY <1>1, <2>1, <3>1 DEF SessionInv, InStore, Same
    <3>q. QED BY <3>1, <3>2 DEF WorkInv
  <2>10. (S!SessionWhole /\ S!MetricsOfOneImport /\ S!MetricsCurrent)'
    BY <1>1, <2>1 DEF SessionInv, S!SessionWhole, S!MetricsOfOneImport, S!MetricsCurrent
  <2>q. QED BY <2>5, <2>6, <2>7, <2>8, <2>9, <2>10 DEF SessionInv
<1>q. QED BY <1>4, <1>5

(* The commit replaces one session by the whole of one usable capture.     *)
LEMMA IngestCommitKeeps ==
    ASSUME SessionInv, NEW p \in SessionProcesses, S!IngestCommit(p)
    PROVE  SessionInv'
<1> DEFINE c == scommand[p].capture
           s == S!Target(p)
           n == inserted[p]
<1>1. spc[p] = "frames" /\ S!NextBatch(p) = {} /\ S!Exit(p)
  BY DEF S!IngestCommit, S!At
<1>2. /\ writer = p /\ c \in Captures \ Unusable /\ s = SessionOf[c] /\ s \in Sessions
      /\ Replaced(swork, sdb, c, n) /\ Lines[c] \in Nat
      /\ Malformed[c] \notin 1 .. n
  BY <1>1, Importing
<1>3. n = Lines[c]
  BY <1>1, BatchType
<1>4. CASE S!RollBack /\ UNCHANGED <<outrun, stale>>
  BY <1>1, <1>2, <1>4, RollBackKeeps
<1>5. CASE Declared[c] \in {None, n} /\ S!Commit(swork) /\ S!NoteImport(s)
  <2>1. /\ sdb' = swork /\ writer' = None /\ swork' = S!Empty
        /\ stale' = stale \ {s}
        /\ outrun' = outrun \cup {q \in SessionProcesses :
                        spc[q] = "store metrics" /\ S!Target(q) = s}
    BY <1>5 DEF S!Commit, S!Release, S!NoteImport, S!At
  <2>2. /\ ProcessTypes' /\ \A q \in SessionProcesses \ {p} : Same(q)
        /\ spc'[p] = "idle" /\ InHand(p)'
    BY <1>1, ExitEffect
  <2>3. /\ sdb \in S!Database /\ sdb' \in S!Database
        /\ outrun' \subseteq SessionProcesses /\ stale' \subseteq Sessions
    BY <2>1 DEF SessionInv, SessionTypes
  <2>4. SessionTypes'
    BY <2>1, <2>2, <2>3, EmptyType DEF SessionTypes
  <2> HIDE DEF c, s, n
  <2>5. /\ sdb'.session = [sdb.session EXCEPT ![s] = c]
        /\ sdb'.frames = [sdb.frames EXCEPT ![s] = Partial(c, n)]
        /\ sdb'.metrics = [sdb.metrics EXCEPT ![s] = {}]
        /\ sdb'.annotations = [sdb.annotations EXCEPT ![s] = {}]
    BY <1>2, <2>1 DEF Replaced
  <2>6. /\ sdb'.session[s] = c /\ sdb'.frames[s] = S!FramesOf(c)
        /\ sdb'.metrics[s] = {} /\ sdb'.annotations[s] = {}
    BY <1>2, <1>3, <2>3, <2>5 DEF S!Database, Partial, S!FramesOf
  <2>7. \A t \in Sessions \ {s} :
          /\ sdb'.session[t] = sdb.session[t] /\ sdb'.frames[t] = sdb.frames[t]
          /\ sdb'.metrics[t] = sdb.metrics[t]
          /\ sdb'.annotations[t] = sdb.annotations[t]
    BY <2>3, <2>5 DEF S!Database
  <2>8. c # None
    BY <1>2, CapturesAssumption
  <2>9. ASSUME NEW q \in SessionProcesses PROVE (InHand(q) /\ InStore(q) /\ WorkInv(q))'
    <3>1. writer' # q
      BY <2>1, ProcessesAssumption
    <3>2. CASE q = p
      BY <2>2, <3>1, <3>2 DEF InStore, WorkInv, Shown
    <3>3. CASE q # p
      <4>1. Same(q) /\ InHand(q)' /\ S!Target(q)' = S!Target(q)
        BY <2>2, <3>3, OtherInHand
      <4>2. spc[q] # "frames"
        BY <1>2, <3>3 DEF SessionInv, InStore
      <4>3. spc[q] \in Shown => S!Target(q) \in Sessions /\ sdb.session[S!Target(q)] # None
        BY TargetType DEF SessionInv, InStore, Shown
      <4>4. spc'[q] \in Shown => sdb'.session[S!Target(q)'] # None
        BY <2>6, <2>7, <2>8, <4>1, <4>3 DEF Same
      <4>5. spc'[q] = "store metrics" /\ q \notin outrun' =>
               rows'[q][1] = sdb'.frames[S!Target(q)']
        <5>1. SUFFICES ASSUME spc'[q] = "store metrics", q \notin outrun'
                       PROVE  rows'[q][1] = sdb'.frames[S!Target(q)']
          OBVIOUS
        <5>2. spc[q] = "store metrics" /\ S!Target(q) # s /\ q \notin outrun
          BY <2>1, <4>1, <5>1 DEF Same
        <5>3. rows[q][1] = sdb.frames[S!Target(q)] /\ S!Target(q) \in Sessions
          BY <4>3, <5>2 DEF SessionInv, InStore, Shown
        <5>q. QED BY <2>7, <4>1, <5>2, <5>3 DEF Same
      <4>6. ~(spc'[q] = "frames")
        BY <4>1, <4>2 DEF Same
      <4>q. QED BY <3>1, <4>1, <4>4, <4>5, <4>6 DEF InStore, WorkInv
    <3>q. QED BY <3>2, <3>3
  <2>10. S!SessionWhole'
    <3>1. ASSUME NEW t \in Sessions \ {s}
          PROVE  LET k == sdb'.session[t] IN
                 IF k = None
                 THEN sdb'.frames[t] = {} /\ sdb'.metrics[t] = {} /\ sdb'.annotations[t] = {}
                 ELSE /\ k \notin Unusable /\ SessionOf[k] = t
                      /\ Malformed[k] \notin 1 .. Lines[k]
                      /\ Declared[k] \in {None, Lines[k]}
                      /\ sdb'.frames[t] = S!FramesOf(k)
      BY <2>7 DEF SessionInv, S!SessionWhole
    <3>2. /\ c \notin Unusable /\ SessionOf[c] = s
          /\ Malformed[c] \notin 1 .. Lines[c]
          /\ Declared[c] \in {None, Lines[c]}
          /\ sdb'.frames[s] = S!FramesOf(c)
      BY <1>2, <1>3, <1>5, <2>6 DEF c, n
    <3>q. QED BY <2>6, <2>8, <3>1, <3>2 DEF S!SessionWhole
  <2>11. S!MetricsOfOneImport'
    <3>1. ASSUME NEW t \in Sessions
          PROVE  /\ sdb'.metrics[t] # {} => S!OneImport(sdb'.metrics[t])
                 /\ \A a \in sdb'.annotations[t] : S!OneImport(a.from)
      <4>1. CASE t = s
        BY <2>6, <4>1
      <4>2. CASE t # s
        BY <2>7, <4>2 DEF SessionInv, S!MetricsOfOneImport
      <4>q. QED BY <4>1, <4>2
    <3>q. QED BY <3>1 DEF S!MetricsOfOneImport, S!OneImport
  <2>12. S!MetricsCurrent'
    BY <2>1, <2>6, <2>7 DEF SessionInv, S!MetricsCurrent
  <2>q. QED BY <2>4, <2>9, <2>10, <2>11, <2>12 DEF SessionInv
<1>q. QED BY <1>1, <1>3, <1>4, <1>5 DEF S!IngestCommit

-----------------------------------------------------------------------------
(* The writes of discover and correlate: derived tables of one session.    *)
LEMMA DeriveKeeps ==
    ASSUME SessionInv, NEW p \in SessionProcesses, S!Exit(p), writer = None,
           UNCHANGED <<swork, writer, outrun>>,
           sdb' \in S!Database, stale' \subseteq Sessions,
           sdb'.session = sdb.session, sdb'.frames = sdb.frames,
           \A t \in Sessions : sdb.session[t] = None =>
               sdb'.metrics[t] = {} /\ sdb'.annotations[t] = {},
           S!MetricsOfOneImport', S!MetricsCurrent'
    PROVE  SessionInv'
<1>1. /\ ProcessTypes' /\ \A q \in SessionProcesses \ {p} : Same(q)
      /\ spc'[p] = "idle" /\ InHand(p)'
  BY ExitEffect
<1>2. SessionTypes'
  BY <1>1 DEF SessionInv, SessionTypes
<1>3. ASSUME NEW q \in SessionProcesses PROVE (InHand(q) /\ InStore(q) /\ WorkInv(q))'
  <2>1. writer' # q
    BY ProcessesAssumption
  <2>2. CASE q = p
    BY <1>1, <2>1, <2>2 DEF InStore, WorkInv, Shown
  <2>3. CASE q # p
    <3>1. Same(q) /\ InHand(q)' /\ S!Target(q)' = S!Target(q)
      BY <1>1, <2>3, OtherInHand
    <3>2. spc[q] # "frames"
      BY NoWriter
    <3>3. InStore(q)'
      BY <2>1, <3>1, <3>2 DEF SessionInv, InStore, Same
    <3>q. QED BY <2>1, <3>1, <3>3 DEF WorkInv
  <2>q. QED BY <2>2, <2>3
<1>4. S!SessionWhole'
  BY DEF SessionInv, S!SessionWhole
<1>q. QED BY <1>2, <1>3, <1>4 DEF SessionInv

LEMMA DiscoverStoreKeeps ==
    ASSUME SessionInv, NEW p \in SessionProcesses, S!DiscoverStore(p)
    PROVE  SessionInv'
<1> DEFINE s == S!Target(p)
           r == rows[p][1]
<1>1. /\ spc[p] = "store metrics" /\ writer = None /\ S!Exit(p)
      /\ sdb' = [sdb EXCEPT !.metrics[s] = r]
      /\ stale' = IF p \in outrun THEN stale \cup {s} ELSE stale \ {s}
      /\ UNCHANGED <<swork, writer, outrun>>
  BY DEF S!DiscoverStore, S!At
<1>2. s \in Sessions /\ sdb.session[s] # None
  BY <1>1, TargetType DEF SessionInv, InStore, Shown
<1>3. /\ r \in SUBSET S!Frames /\ S!OneImport(r)
      /\ p \notin outrun => r = sdb.frames[s]
  <2>1. rows[p] \in Seq(SUBSET S!Frames)
    BY DEF SessionInv, SessionTypes, ProcessTypes
  <2>2. Len(rows[p]) = 1
    BY <1>1 DEF SessionInv, InHand
  <2>3. 1 \in DOMAIN rows[p] /\ rows[p][1] \in SUBSET S!Frames
    BY <2>1, <2>2
  <2>q. QED BY <1>1, <2>3 DEF SessionInv, InHand, InStore
<1> HIDE DEF s, r
<1>4. sdb \in S!Database
  BY DEF SessionInv, SessionTypes
<1>5. sdb' = [session |-> sdb.session, frames |-> sdb.frames,
              metrics |-> [sdb.metrics EXCEPT ![s] = r],
              annotations |-> sdb.annotations]
  BY <1>1, <1>4 DEF S!Database
<1>6. sdb' \in S!Database /\ stale' \subseteq Sessions
  <2>1. sdb' \in S!Database
    BY <1>2, <1>3, <1>4, <1>5 DEF S!Database
  <2>2. stale' \subseteq Sessions
    BY <1>1, <1>2 DEF SessionInv, SessionTypes
  <2>q. QED BY <2>1, <2>2
<1>7. /\ sdb'.session = sdb.session /\ sdb'.frames = sdb.frames
      /\ sdb'.annotations = sdb.annotations /\ sdb'.metrics[s] = r
      /\ \A t \in Sessions \ {s} : sdb'.metrics[t] = sdb.metrics[t]
  BY <1>2, <1>4, <1>5 DEF S!Database
<1>8. \A t \in Sessions : sdb.session[t] = None =>
          sdb'.metrics[t] = {} /\ sdb'.annotations[t] = {}
  BY <1>2, <1>7 DEF SessionInv, S!SessionWhole
<1>9. S!MetricsOfOneImport'
  BY <1>3, <1>7 DEF SessionInv, S!MetricsOfOneImport, S!OneImport
<1>10. S!MetricsCurrent'
  BY <1>1, <1>3, <1>7 DEF SessionInv, S!MetricsCurrent
<1>q. QED BY <1>1, <1>6, <1>7, <1>8, <1>9, <1>10, DeriveKeeps

LEMMA CorrelateStoreKeeps ==
    ASSUME SessionInv, NEW p \in SessionProcesses, S!CorrelateStore(p)
    PROVE  SessionInv'
<1> DEFINE s == S!Target(p)
           A == {[row |-> i, from |-> rows[p][i]] : i \in DOMAIN rows[p]}
<1>1. /\ spc[p] = "store annotations" /\ writer = None /\ S!Exit(p)
      /\ sdb' = [sdb EXCEPT !.annotations[s] = A]
      /\ UNCHANGED <<swork, writer, outrun, stale>>
  BY DEF S!CorrelateStore, S!At, S!history
<1>2. s \in Sessions /\ sdb.session[s] # None
  BY <1>1, TargetType DEF SessionInv, InStore, Shown
<1>3. /\ A \subseteq [row: 1 .. Annotations, from: SUBSET S!Frames]
      /\ \A a \in A : S!OneImport(a.from)
  <2>1. rows[p] \in Seq(SUBSET S!Frames)
    BY DEF SessionInv, SessionTypes, ProcessTypes
  <2>2. /\ DOMAIN rows[p] = 1 .. Len(rows[p]) /\ Len(rows[p]) \in Nat
        /\ \A i \in DOMAIN rows[p] : rows[p][i] \in SUBSET S!Frames
    BY <2>1
  <2>3. InHand(p)
    BY DEF SessionInv
  <2>4. /\ Len(rows[p]) <= Annotations
        /\ \A i \in DOMAIN rows[p] : S!OneImport(rows[p][i])
    BY <1>1, <2>3 DEF InHand
  <2>5. \A i \in DOMAIN rows[p] : i \in 1 .. Annotations
    BY <2>2, <2>4, CapturesAssumption
  <2>q. QED BY <2>2, <2>4, <2>5
<1> HIDE DEF s, A
<1>4. sdb \in S!Database
  BY DEF SessionInv, SessionTypes
<1>5. sdb' = [session |-> sdb.session, frames |-> sdb.frames,
              metrics |-> sdb.metrics,
              annotations |-> [sdb.annotations EXCEPT ![s] = A]]
  BY <1>1, <1>4 DEF S!Database
<1>6. sdb' \in S!Database /\ stale' \subseteq Sessions
  <2>1. sdb' \in S!Database
    BY <1>2, <1>3, <1>4, <1>5 DEF S!Database
  <2>2. stale' \subseteq Sessions
    BY <1>1, <1>2 DEF SessionInv, SessionTypes
  <2>q. QED BY <2>1, <2>2
<1>7. /\ sdb'.session = sdb.session /\ sdb'.frames = sdb.frames
      /\ sdb'.metrics = sdb.metrics /\ sdb'.annotations[s] = A
      /\ \A t \in Sessions \ {s} : sdb'.annotations[t] = sdb.annotations[t]
  BY <1>2, <1>4, <1>5 DEF S!Database
<1>8. \A t \in Sessions : sdb.session[t] = None =>
          sdb'.metrics[t] = {} /\ sdb'.annotations[t] = {}
  BY <1>2, <1>7 DEF SessionInv, S!SessionWhole
<1>9. S!MetricsOfOneImport'
  BY <1>3, <1>7 DEF SessionInv, S!MetricsOfOneImport, S!OneImport
<1>10. S!MetricsCurrent'
  BY <1>1, <1>7 DEF SessionInv, S!MetricsCurrent
<1>q. QED BY <1>1, <1>6, <1>7, <1>8, <1>9, <1>10, DeriveKeeps

LEMMA SessionStepKeeps ==
    ASSUME SessionInv, S!Next PROVE SessionInv'
<1>1. PICK p \in SessionProcesses : S!Start(p) \/ S!Step(p) \/ S!Kill(p)
  BY DEF S!Next
<1>q. QED
  BY <1>1, StartKeeps, KillKeeps, BusyTimeoutKeeps, IngestCheckKeeps,
     IngestBeginKeeps, IngestBatchKeeps, IngestCommitKeeps, CheckKeeps,
     DiscoverScanKeeps, DiscoverStoreKeeps, CorrelateWindowKeeps,
     CorrelateStoreKeeps DEF S!Step

(* The importer of a DBC takes the file and gives it back.                 *)
LEMMA SessionsUndisturbed ==
    ASSUME SessionInv, UNCHANGED sessionVars,
           writer' # writer => {writer, writer'} \cap SessionProcesses = {}
    PROVE  SessionInv'
<1>1. /\ UNCHANGED <<sdb, swork, spc, scommand, found, inserted, rows, outrun, stale>>
      /\ \A p \in SessionProcesses : writer' = p <=> writer = p
  BY DEF sessionVars
<1>2. SessionTypes'
  BY <1>1 DEF SessionInv, SessionTypes, ProcessTypes
<1>3. ASSUME NEW q \in SessionProcesses PROVE (InHand(q) /\ InStore(q) /\ WorkInv(q))'
  <2>1. Same(q)
    BY <1>1 DEF Same
  <2>2. InHand(q)' /\ S!Target(q)' = S!Target(q)
    BY <2>1, OtherInHand
  <2>3. InStore(q)'
    BY <1>1, <2>2 DEF SessionInv, InStore
  <2>4. WorkInv(q)'
    BY <1>1 DEF SessionInv, WorkInv, Replaced
  <2>q. QED BY <2>2, <2>3, <2>4
<1>4. (S!SessionWhole /\ S!MetricsOfOneImport /\ S!MetricsCurrent)'
  BY <1>1 DEF SessionInv, S!SessionWhole, S!MetricsOfOneImport, S!MetricsCurrent
<1>q. QED BY <1>2, <1>3, <1>4 DEF SessionInv

(* A session that is stored stays stored.                                  *)
LEMMA SessionStays ==
    ASSUME SessionInv, S!Next
    PROVE  \A s \in Sessions : sdb.session[s] # None => sdb'.session[s] # None
<1>1. PICK p \in SessionProcesses : S!Start(p) \/ S!Step(p) \/ S!Kill(p)
  BY DEF S!Next
<1>2. CASE S!IngestCommit(p)
  <2>1. spc[p] = "frames" /\ sdb' \in {sdb, swork}
    BY <1>2 DEF S!IngestCommit, S!At, S!RollBack, S!Commit
  <2>2. /\ swork.session = [sdb.session EXCEPT
                ![SessionOf[scommand[p].capture]] = scommand[p].capture]
        /\ scommand[p].capture \in Captures
    BY <2>1, Importing DEF Replaced
  <2>3. scommand[p].capture # None
    BY <2>2, CapturesAssumption
  <2>4. sdb \in S!Database
    BY DEF SessionInv, SessionTypes
  <2>q. QED BY <2>1, <2>2, <2>3, <2>4 DEF S!Database
<1>3. CASE S!DiscoverStore(p) \/ S!CorrelateStore(p)
  <2>1. sdb \in S!Database
    BY DEF SessionInv, SessionTypes
  <2>2. sdb'.session = sdb.session
    BY <1>3, <2>1 DEF S!DiscoverStore, S!CorrelateStore, S!Database
  <2>q. QED BY <2>2
<1>4. CASE S!Start(p) \/ S!Kill(p) \/ S!BusyTimeout(p) \/ S!IngestCheck(p)
           \/ S!IngestBegin(p) \/ S!IngestBatch(p) \/ S!DiscoverCheck(p)
           \/ S!DiscoverScan(p) \/ S!CorrelateCheck(p) \/ S!CorrelateWindow(p)
  <2>1. sdb' = sdb
    BY <1>4 DEF S!Start, S!Kill, S!BusyTimeout, S!IngestCheck, S!IngestBegin,
                S!IngestBatch, S!DiscoverCheck, S!DiscoverScan,
                S!CorrelateCheck, S!CorrelateWindow, S!RollBack, S!store
  <2>q. QED BY <2>1
<1>q. QED BY <1>1, <1>2, <1>3, <1>4 DEF S!Step

-----------------------------------------------------------------------------
(* The DBC commands.                                                       *)
Sources == [id: Nat, name: Names, file: Files]
MessageRows == [id: Nat, source: Nat, ordinal: Nat, file: Files]
SignalRows == [id: Nat, message: Nat, file: Files]
ValueRows == [signal: Nat, file: Files]
Attached == [source: Nat, file: Files]       \* dbc_nodes, dbc_passthrough

Typed(d) ==
    d \in [sources: SUBSET Sources, nodes: SUBSET Attached,
           messages: SUBSET MessageRows, signals: SUBSET SignalRows,
           values: SUBSET ValueRows, passthrough: SUBSET Attached,
           last: [D!Tables -> Nat]]

(* Keys are distinct and were given out by sqlite_sequence.                *)
Keyed(d) ==
    /\ \A r \in d.sources : r.id \in 1 .. d.last["sources"]
    /\ \A m \in d.messages : m.id \in 1 .. d.last["messages"]
    /\ \A s \in d.signals : s.id \in 1 .. d.last["signals"]
    /\ \A r, q \in d.sources : r.id = q.id \/ r.name = q.name => r = q
    /\ \A m, n \in d.messages : m.id = n.id => m = n
    /\ \A s, t \in d.signals : s.id = t.id => s = t

(* Every row has its parent, and both come from the same file.             *)
Owned(d) ==
    /\ \A x \in d.nodes \cup d.passthrough :
         \E r \in d.sources : x.source = r.id /\ x.file = r.file
    /\ \A m \in d.messages :
         \E r \in d.sources : /\ m.source = r.id /\ m.file = r.file
                              /\ m.ordinal \in 1 .. Messages[r.file]
    /\ \A s \in d.signals :
         \E m \in d.messages : s.message = m.id /\ s.file = m.file
    /\ \A v \in d.values :
         \E s \in d.signals : v.signal = s.id /\ v.file = s.file

(* Every message has its signal, every signal its values.                  *)
Filled(d) ==
    /\ \A m \in d.messages : \E s \in d.signals : s.message = m.id
    /\ \A s \in d.signals : \E v \in d.values : v.signal = s.id

Sound(d) == Typed(d) /\ Keyed(d) /\ Owned(d) /\ Filled(d)

(* A source has its first n messages; it has all its rows.                 *)
HasMessages(d, r, n) ==
    \A i \in 1 .. n : \E m \in d.messages : m.source = r.id /\ m.ordinal = i

Complete(d, r) ==
    /\ HasMessages(d, r, Messages[r.file])
    /\ \E x \in d.passthrough : x.source = r.id

(* What load_dbc_source builds from a complete source is its file.         *)
LEMMA WholeFromRows ==
    ASSUME NEW d, Sound(d), NEW r \in d.sources, Complete(d, r)
    PROVE  D!Stored(d, r.id) = D!Whole(r.file)
<1> DEFINE f == r.file
           M == {m \in d.messages : m.source = r.id}
           sig(m) == {s \in d.signals : s.message = m.id}
           val(m) == {v \in d.values : v.signal \in {s.id : s \in sig(m)}}
           S1 == {x \in d.sources : x.id = r.id}
           N1 == {x \in d.nodes : x.source = r.id}
           P1 == {x \in d.passthrough : x.source = r.id}
<1>1. S1 = {r}
  BY DEF Sound, Keyed
<1>2. \A x \in N1 \cup P1 : x.file = f
  BY DEF Sound, Keyed, Owned
<1>3. {x.file : x \in S1 \cup N1} = {f}
  BY <1>1, <1>2
<1>4. {x.file : x \in P1} = {f}
  BY <1>2 DEF Complete
<1>5. \A m \in M : m.file = f /\ m.ordinal \in 1 .. Messages[f]
  BY DEF Sound, Keyed, Owned
<1>6. \A i \in 1 .. Messages[f] : \E m \in M : m.ordinal = i
  BY DEF Complete, HasMessages
<1>7. \A m \in M : sig(m) # {} /\ \A s \in sig(m) : s.file = f
  <2>1. ASSUME NEW m \in M, NEW s \in sig(m) PROVE s.file = f
    <3>1. PICK n \in d.messages : s.message = n.id /\ s.file = n.file
      BY <2>1 DEF Sound, Owned
    <3>2. n = m
      BY <2>1, <3>1 DEF Sound, Keyed
    <3>q. QED BY <1>5, <2>1, <3>1, <3>2
  <2>2. ASSUME NEW m \in M PROVE sig(m) # {}
    BY <2>2 DEF Sound, Filled
  <2>q. QED BY <2>1, <2>2
<1>8. \A m \in M : val(m) # {} /\ \A v \in val(m) : v.file = f
  <2>1. ASSUME NEW m \in M, NEW v \in val(m) PROVE v.file = f
    <3>1. PICK s \in sig(m) : v.signal = s.id
      BY <2>1
    <3>2. PICK t \in d.signals : v.signal = t.id /\ v.file = t.file
      BY <2>1 DEF Sound, Owned
    <3>3. s = t
      BY <3>1, <3>2 DEF Sound, Keyed
    <3>q. QED BY <1>7, <2>1, <3>1, <3>2, <3>3
  <2>2. ASSUME NEW m \in M PROVE val(m) # {}
    <3>1. PICK s \in sig(m) : TRUE
      BY <1>7, <2>2
    <3>2. PICK v \in d.values : v.signal = s.id
      BY <3>1 DEF Sound, Filled
    <3>3. v \in val(m)
      BY <3>1, <3>2
    <3>q. QED BY <3>3
  <2>q. QED BY <2>1, <2>2
<1> HIDE DEF sig, val, M, S1, N1, P1, f
<1>9. {<<m.file, m.ordinal>> : m \in M} = {<<f, i>> : i \in 1 .. Messages[f]}
  BY <1>5, <1>6
<1>10. UNION {{<<s.file, m.ordinal>> : s \in sig(m)} : m \in M}
       = {<<f, i>> : i \in 1 .. Messages[f]}
  <2>1. \A m \in M : {<<s.file, m.ordinal>> : s \in sig(m)} = {<<f, m.ordinal>>}
    BY <1>7
  <2>2. UNION {{<<s.file, m.ordinal>> : s \in sig(m)} : m \in M}
        = UNION {{<<f, m.ordinal>>} : m \in M}
    BY <2>1
  <2>q. QED BY <1>5, <1>6, <2>2
<1>11. UNION {{<<v.file, m.ordinal>> : v \in val(m)} : m \in M}
       = {<<f, i>> : i \in 1 .. Messages[f]}
  <2>1. \A m \in M : {<<v.file, m.ordinal>> : v \in val(m)} = {<<f, m.ordinal>>}
    BY <1>8
  <2>2. UNION {{<<v.file, m.ordinal>> : v \in val(m)} : m \in M}
        = UNION {{<<f, m.ordinal>>} : m \in M}
    BY <2>1
  <2>q. QED BY <1>5, <1>6, <2>2
<1>q. QED
  BY <1>3, <1>4, <1>9, <1>10, <1>11
     DEF D!Stored, D!Whole, f, M, sig, val, S1, N1, P1

-----------------------------------------------------------------------------
(* What the statements of dbc-import keep.                                 *)
LEMMA DeleteKeeps ==
    ASSUME NEW d, Sound(d), NEW id,
           NEW e, e = D!DeleteSource(d, id)
    PROVE  /\ Sound(e) /\ e.last = d.last
           /\ e.sources = {r \in d.sources : r.id # id}
           /\ \A r \in e.sources : Complete(d, r) => Complete(e, r)
<1>1. /\ e.sources = {r \in d.sources : r.id # id}
      /\ e.nodes = {x \in d.nodes : x.source # id}
      /\ e.messages = {m \in d.messages : m.source # id}
      /\ e.signals = {s \in d.signals : s.message \in {m.id : m \in e.messages}}
      /\ e.values = {v \in d.values : v.signal \in {s.id : s \in e.signals}}
      /\ e.passthrough = {x \in d.passthrough : x.source # id}
      /\ e.last = d.last
      /\ e = [sources |-> e.sources, nodes |-> e.nodes, messages |-> e.messages,
              signals |-> e.signals, values |-> e.values,
              passthrough |-> e.passthrough, last |-> e.last]
  BY DEF D!DeleteSource
<1>2. Typed(e)
  BY <1>1 DEF Sound, Typed
<1>3. Keyed(e)
  BY <1>1 DEF Sound, Keyed
<1>4. Owned(e)
  <2>1. \A x \in e.nodes \cup e.passthrough :
          \E r \in e.sources : x.source = r.id /\ x.file = r.file
    BY <1>1 DEF Sound, Owned
  <2>2. \A m \in e.messages :
          \E r \in e.sources : /\ m.source = r.id /\ m.file = r.file
                               /\ m.ordinal \in 1 .. Messages[r.file]
    BY <1>1 DEF Sound, Owned
  <2>3. ASSUME NEW s \in e.signals
        PROVE  \E m \in e.messages : s.message = m.id /\ s.file = m.file
    <3>1. PICK m \in e.messages : s.message = m.id
      BY <1>1
    <3>2. PICK n \in d.messages : s.message = n.id /\ s.file = n.file
      BY <1>1 DEF Sound, Owned
    <3>3. m = n
      BY <1>1, <3>1, <3>2 DEF Sound, Keyed
    <3>q. QED BY <3>1, <3>2, <3>3
  <2>4. ASSUME NEW v \in e.values
        PROVE  \E s \in e.signals : v.signal = s.id /\ v.file = s.file
    <3>1. PICK s \in e.signals : v.signal = s.id
      BY <1>1
    <3>2. PICK t \in d.signals : v.signal = t.id /\ v.file = t.file
      BY <1>1 DEF Sound, Owned
    <3>3. s = t
      BY <1>1, <3>1, <3>2 DEF Sound, Keyed
    <3>q. QED BY <3>1, <3>2, <3>3
  <2>q. QED BY <2>1, <2>2, <2>3, <2>4 DEF Owned
<1>5. Filled(e)
  BY <1>1 DEF Sound, Filled
<1>6. \A r \in e.sources : Complete(d, r) => Complete(e, r)
  BY <1>1 DEF Complete, HasMessages
<1>q. QED BY <1>1, <1>2, <1>3, <1>4, <1>5, <1>6 DEF Sound

LEMMA InsertSourceKeeps ==
    ASSUME NEW d, Sound(d), NEW n \in Names, NEW f \in Files,
           \A r \in d.sources : r.name # n,
           NEW id, id = d.last["sources"] + 1,
           NEW e, e = D!InsertSource(d, id, n, f)
    PROVE  /\ Sound(e) /\ e.last["sources"] = id /\ id \in Nat
           /\ e.sources = d.sources \cup {[id |-> id, name |-> n, file |-> f]}
           /\ \A r \in d.sources : Complete(d, r) => Complete(e, r)
<1> DEFINE o == [id |-> id, name |-> n, file |-> f]
           x == [source |-> id, file |-> f]
<1>0. d.last \in [D!Tables -> Nat] /\ "sources" \in D!Tables /\ id \in Nat
  BY DEF Sound, Typed, D!Tables
<1>1. /\ e.sources = d.sources \cup {o} /\ e.nodes = d.nodes \cup {x}
      /\ e.messages = d.messages /\ e.signals = d.signals /\ e.values = d.values
      /\ e.passthrough = d.passthrough
      /\ e.last = [d.last EXCEPT !["sources"] = id]
      /\ e = [sources |-> e.sources, nodes |-> e.nodes, messages |-> e.messages,
              signals |-> e.signals, values |-> e.values,
              passthrough |-> e.passthrough, last |-> e.last]
  BY DEF D!InsertSource
<1>2. /\ e.last \in [D!Tables -> Nat] /\ e.last["sources"] = id
      /\ e.last["messages"] = d.last["messages"]
      /\ e.last["signals"] = d.last["signals"]
  BY <1>0, <1>1 DEF D!Tables
<1>3. o \in Sources /\ x \in Attached /\ o.id = id /\ o.name = n /\ o.file = f
      /\ x.source = id /\ x.file = f
  BY <1>0 DEF Sources, Attached
<1> HIDE DEF o, x
<1>4. Typed(e)
  BY <1>1, <1>2, <1>3 DEF Sound, Typed
<1>5. Keyed(e)
  <2>1. \A r \in d.sources : r.id \in 1 .. d.last["sources"] /\ r.id # id /\ r.id \in 1 .. id
    BY <1>0 DEF Sound, Keyed
  <2>2. id \in 1 .. id
    BY <1>0 DEF Sound, Typed
  <2>3. \A r \in e.sources : r.id \in 1 .. e.last["sources"]
    BY <1>1, <1>2, <1>3, <2>1, <2>2
  <2>4. \A r, q \in e.sources : r.id = q.id \/ r.name = q.name => r = q
    BY <1>1, <1>3, <2>1 DEF Sound, Keyed
  <2>q. QED BY <1>1, <1>2, <2>3, <2>4 DEF Sound, Keyed
<1>6. Owned(e)
  BY <1>1, <1>3 DEF Sound, Owned
<1>7. Filled(e)
  BY <1>1 DEF Sound, Filled
<1>8. \A r \in d.sources : Complete(d, r) => Complete(e, r)
  BY <1>1 DEF Complete, HasMessages
<1>q. QED BY <1>0, <1>1, <1>2, <1>4, <1>5, <1>6, <1>7, <1>8 DEF Sound, o

LEMMA InsertMessageKeeps ==
    ASSUME NEW d, Sound(d), NEW r \in d.sources, NEW i \in 1 .. Messages[r.file],
           HasMessages(d, r, i - 1),
           NEW e, e = D!InsertMessage(d, r.id, i, r.file)
    PROVE  /\ Sound(e) /\ HasMessages(e, r, i)
           /\ e.sources = d.sources /\ e.last["sources"] = d.last["sources"]
           /\ \A q \in d.sources : Complete(d, q) => Complete(e, q)
<1> DEFINE k == d.last["messages"] + 1
           l == d.last["signals"] + 1
           f == r.file
           m == [id |-> k, source |-> r.id, ordinal |-> i, file |-> f]
           s == [id |-> l, message |-> k, file |-> f]
           v == [signal |-> l, file |-> f]
<1>0. /\ d.last["sources"] \in Nat /\ d.last["messages"] \in Nat
      /\ d.last["signals"] \in Nat
      /\ k \in Nat \ {0} /\ l \in Nat \ {0} /\ r \in Sources
  BY DEF Sound, Typed, D!Tables
<1>1. /\ f \in Files /\ Messages[f] \in Nat /\ i \in Nat \ {0} /\ i <= Messages[f]
      /\ r.id \in Nat
  BY <1>0, FilesAssumption DEF Sources
<1>2. /\ e.sources = d.sources /\ e.nodes = d.nodes
      /\ e.messages = d.messages \cup {m} /\ e.signals = d.signals \cup {s}
      /\ e.values = d.values \cup {v} /\ e.passthrough = d.passthrough
      /\ e.last = [t \in D!Tables |-> IF t = "sources" THEN d.last[t] ELSE d.last[t] + 1]
      /\ e = [sources |-> e.sources, nodes |-> e.nodes, messages |-> e.messages,
              signals |-> e.signals, values |-> e.values,
              passthrough |-> e.passthrough, last |-> e.last]
  BY DEF D!InsertMessage, D!NextKey
<1>3. /\ e.last \in [D!Tables -> Nat] /\ e.last["sources"] = d.last["sources"]
      /\ e.last["messages"] = k /\ e.last["signals"] = l
  BY <1>0, <1>2 DEF D!Tables
<1>4. m \in MessageRows /\ s \in SignalRows /\ v \in ValueRows
  BY <1>0, <1>1 DEF MessageRows, SignalRows, ValueRows
<1>5. /\ m.id = k /\ m.source = r.id /\ m.ordinal = i /\ m.file = f
      /\ s.id = l /\ s.message = k /\ s.file = f
      /\ v.signal = l /\ v.file = f
  OBVIOUS
<1> HIDE DEF m, s, v
<1>6. Typed(e)
  BY <1>2, <1>3, <1>4 DEF Sound, Typed
<1>7. Keyed(e)
  <2>1. \A x \in d.messages : x.id \in 1 .. k /\ x.id # k
    BY <1>0 DEF Sound, Keyed
  <2>2. \A x \in d.signals : x.id \in 1 .. l /\ x.id # l
    BY <1>0 DEF Sound, Keyed
  <2>3. k \in 1 .. k /\ l \in 1 .. l
    BY <1>0
  <2> HIDE DEF k, l
  <2>4. /\ \A x \in e.messages : x.id \in 1 .. e.last["messages"]
        /\ \A x, y \in e.messages : x.id = y.id => x = y
    BY <1>2, <1>3, <1>5, <2>1, <2>3 DEF Sound, Keyed
  <2>5. /\ \A x \in e.signals : x.id \in 1 .. e.last["signals"]
        /\ \A x, y \in e.signals : x.id = y.id => x = y
    BY <1>2, <1>3, <1>5, <2>2, <2>3 DEF Sound, Keyed
  <2>q. QED BY <1>2, <1>3, <2>4, <2>5 DEF Sound, Keyed
<1> HIDE DEF k, l
<1>8. Owned(e)
  <2>1. \A x \in e.messages :
          \E q \in e.sources : /\ x.source = q.id /\ x.file = q.file
                               /\ x.ordinal \in 1 .. Messages[q.file]
    BY <1>2, <1>5 DEF Sound, Owned
  <2>2. \A x \in e.signals :
          \E y \in e.messages : x.message = y.id /\ x.file = y.file
    BY <1>2, <1>5 DEF Sound, Owned
  <2>3. \A x \in e.values :
          \E y \in e.signals : x.signal = y.id /\ x.file = y.file
    BY <1>2, <1>5 DEF Sound, Owned
  <2>q. QED BY <1>2, <2>1, <2>2, <2>3 DEF Sound, Owned
<1>9. Filled(e)
  BY <1>2, <1>5 DEF Sound, Filled
<1>10. HasMessages(e, r, i)
  <2>1. ASSUME NEW j \in 1 .. i
        PROVE  \E x \in e.messages : x.source = r.id /\ x.ordinal = j
    <3>1. CASE j = i
      BY <1>2, <1>5, <3>1
    <3>2. CASE j # i
      <4>1. j \in 1 .. i - 1
        BY <1>1, <3>2
      <4>q. QED BY <1>2, <4>1 DEF HasMessages
    <3>q. QED BY <3>1, <3>2
  <2>q. QED BY <2>1 DEF HasMessages
<1>11. \A q \in d.sources : Complete(d, q) => Complete(e, q)
  BY <1>2 DEF Complete, HasMessages
<1>q. QED BY <1>2, <1>3, <1>6, <1>7, <1>8, <1>9, <1>10, <1>11 DEF Sound

LEMMA AttachKeeps ==
    ASSUME NEW d, Sound(d), NEW r \in d.sources,
           HasMessages(d, r, Messages[r.file]),
           NEW e, e = [d EXCEPT !.passthrough =
                         @ \cup {[source |-> r.id, file |-> r.file]}]
    PROVE  /\ Sound(e) /\ Complete(e, r)
           /\ e.sources = d.sources /\ e.last = d.last
           /\ \A q \in d.sources : Complete(d, q) => Complete(e, q)
<1> DEFINE x == [source |-> r.id, file |-> r.file]
<1>1. e = [sources |-> d.sources, nodes |-> d.nodes, messages |-> d.messages,
           signals |-> d.signals, values |-> d.values,
           passthrough |-> d.passthrough \cup {x}, last |-> d.last]
  BY DEF Sound, Typed
<1>2. /\ e.sources = d.sources /\ e.nodes = d.nodes /\ e.messages = d.messages
      /\ e.signals = d.signals /\ e.values = d.values
      /\ e.passthrough = d.passthrough \cup {x} /\ e.last = d.last
  BY <1>1
<1>3. x.source = r.id /\ x.file = r.file /\ x \in Attached
  BY DEF Sound, Typed, Sources, Attached
<1> HIDE DEF x
<1>4. Typed(e)
  BY <1>1, <1>3 DEF Sound, Typed
<1>5. Keyed(e) /\ Filled(e)
  BY <1>2 DEF Sound, Keyed, Filled
<1>6. Owned(e)
  BY <1>2, <1>3 DEF Sound, Owned
<1>7. Complete(e, r) /\ \A q \in d.sources : Complete(d, q) => Complete(e, q)
  BY <1>2, <1>3 DEF Complete, HasMessages
<1>q. QED BY <1>2, <1>4, <1>5, <1>6, <1>7 DEF Sound

-----------------------------------------------------------------------------
(* The invariant of the DBC commands.                                      *)
DbcLabels == {"idle", "import", "begin", "messages", "export", "nodes",
              "listing", "reading", "values", "passthrough", "checked", "write"}

DbcProcessTypes ==
    /\ dpc \in [DbcProcesses -> DbcLabels]
    /\ dcommand \in [DbcProcesses -> D!Commands \cup {None}]
    /\ source \in [DbcProcesses -> Nat \cup {None}]
    /\ next \in [DbcProcesses -> Nat]

DbcTypes ==
    /\ DbcProcessTypes
    /\ overtaken \subseteq DbcProcesses
    /\ doomed \subseteq Sources

(* What an import has in hand: the row it may replace is one that it saw.  *)
ImportInHand(p) ==
    /\ dpc[p] \in {"import", "begin", "messages"} =>
         dcommand[p] \in [op: {"import"}, file: Files, name: Names, replace: BOOLEAN]
    /\ dpc[p] \in {"idle", "import", "begin"} => next[p] = 0
    /\ dpc[p] \in {"idle", "import"} => source[p] = None
    /\ dpc[p] = "begin" /\ source[p] # None =>
         /\ dcommand[p].replace
         /\ \E r \in doomed : r.id = source[p] /\ r.name = dcommand[p].name
    /\ dpc[p] = "messages" <=> writer = p

(* A key is never given out twice, so a row that was seen is either there  *)
(* or gone for good.                                                       *)
DoomedKnown ==
    \A r \in doomed : /\ r.id <= ddb.last["sources"]
                      /\ \A x \in ddb.sources : x.id = r.id => x = r

(* The row of dbc_sources that the importer has inserted.                  *)
Own(p) == [id |-> source[p], name |-> dcommand[p].name, file |-> dcommand[p].file]

(* The copy of an importer: the stored sources, but for one of its name    *)
(* that it saw, and its own with the messages inserted so far.             *)
CopyInv(p) ==
    writer = p =>
        /\ Sound(dwork) /\ Own(p) \in dwork.sources
        /\ source[p] = ddb.last["sources"] + 1
        /\ dwork.last["sources"] = source[p]
        /\ \A r \in dwork.sources :
             r # Own(p) => r \in ddb.sources /\ Complete(dwork, r)
        /\ \A r \in ddb.sources \ dwork.sources :
             r \in doomed /\ r.name = dcommand[p].name /\ dcommand[p].replace
        /\ HasMessages(dwork, Own(p), next[p])
        /\ next[p] <= Messages[dcommand[p].file]

DbcInv ==
    /\ DbcTypes /\ DoomedKnown
    /\ Sound(ddb) /\ \A r \in ddb.sources : Complete(ddb, r)
    /\ writer \notin DbcProcesses => dwork = D!Empty
    /\ \A p \in DbcProcesses : ImportInHand(p) /\ CopyInv(p)

LEMMA EmptySound == Sound(D!Empty)
<1>1. Typed(D!Empty)
  BY DEF D!Empty, Typed, D!Tables
<1>q. QED BY <1>1 DEF Sound, D!Empty, Keyed, Owned, Filled

LEMMA DbcInitHolds == D!Init => DbcInv
<1> SUFFICES ASSUME D!Init PROVE DbcInv
  OBVIOUS
<1>1. /\ ddb = D!Empty /\ dwork = D!Empty /\ writer = None /\ doomed = {}
      /\ overtaken = {}
      /\ dpc = [p \in DbcProcesses |-> "idle"]
      /\ dcommand = [p \in DbcProcesses |-> None]
      /\ source = [p \in DbcProcesses |-> None]
      /\ next = [p \in DbcProcesses |-> 0]
  BY DEF D!Init
<1>2. DbcTypes /\ DoomedKnown
  BY <1>1 DEF DbcTypes, DbcProcessTypes, DbcLabels, DoomedKnown
<1>3. Sound(ddb) /\ \A r \in ddb.sources : Complete(ddb, r)
  <2>1. D!Empty.sources = {}
    BY DEF D!Empty
  <2>q. QED BY <1>1, <2>1, EmptySound
<1>4. ASSUME NEW p \in DbcProcesses PROVE ImportInHand(p) /\ CopyInv(p)
  <2>1. p # None
    BY ProcessesAssumption
  <2>q. QED BY <1>1, <2>1 DEF ImportInHand, CopyInv
<1>q. QED BY <1>1, <1>2, <1>3, <1>4 DEF DbcInv

SameImport(q) ==
    /\ dpc'[q] = dpc[q] /\ dcommand'[q] = dcommand[q]
    /\ source'[q] = source[q] /\ next'[q] = next[q]

LEMMA DbcExitEffect ==
    ASSUME DbcInv, NEW p \in DbcProcesses, D!Exit(p)
    PROVE  /\ DbcProcessTypes'
           /\ \A q \in DbcProcesses \ {p} : SameImport(q)
           /\ dpc'[p] = "idle" /\ next'[p] = 0 /\ source'[p] = None
<1>1. /\ dpc' = [dpc EXCEPT ![p] = "idle"] /\ dcommand' = [dcommand EXCEPT ![p] = None]
      /\ source' = [source EXCEPT ![p] = None] /\ next' = [next EXCEPT ![p] = 0]
  BY DEF D!Exit, D!GoTo
<1>2. DbcProcessTypes
  BY DEF DbcInv, DbcTypes
<1>3. dpc' \in [DbcProcesses -> DbcLabels]
  BY <1>1, <1>2 DEF DbcProcessTypes, DbcLabels
<1>4. dcommand' \in [DbcProcesses -> D!Commands \cup {None}]
  BY <1>1, <1>2 DEF DbcProcessTypes
<1>5. source' \in [DbcProcesses -> Nat \cup {None}]
  BY <1>1, <1>2 DEF DbcProcessTypes
<1>6. next' \in [DbcProcesses -> Nat]
  BY <1>1, <1>2 DEF DbcProcessTypes
<1>7. /\ \A q \in DbcProcesses \ {p} : SameImport(q)
      /\ dpc'[p] = "idle" /\ next'[p] = 0 /\ source'[p] = None
  BY <1>1, <1>2 DEF DbcProcessTypes, SameImport
<1>q. QED BY <1>3, <1>4, <1>5, <1>6, <1>7 DEF DbcProcessTypes

LEMMA DbcGoOnEffect ==
    ASSUME DbcInv, NEW p \in DbcProcesses,
           NEW l \in DbcLabels, D!GoTo(p, l), UNCHANGED dcommand,
           source' \in [DbcProcesses -> Nat \cup {None}],
           next' \in [DbcProcesses -> Nat],
           \A q \in DbcProcesses \ {p} : source'[q] = source[q] /\ next'[q] = next[q]
    PROVE  /\ DbcProcessTypes' /\ dpc'[p] = l
           /\ \A q \in DbcProcesses \ {p} : SameImport(q)
<1>1. dpc' = [dpc EXCEPT ![p] = l]
  BY DEF D!GoTo
<1>2. dpc' \in [DbcProcesses -> DbcLabels] /\ dpc'[p] = l
      /\ \A q \in DbcProcesses \ {p} : dpc'[q] = dpc[q]
  BY <1>1 DEF DbcInv, DbcTypes, DbcProcessTypes
<1>q. QED
  BY <1>2 DEF DbcInv, DbcTypes, DbcProcessTypes, SameImport

(* Steps that leave the tables and the writer alone.                       *)
LEMMA QuietDbc ==
    ASSUME DbcInv, NEW p \in DbcProcesses,
           UNCHANGED <<ddb, dwork, writer>>,
           overtaken' \in {overtaken, overtaken \ {p}},
           doomed \subseteq doomed', doomed' \subseteq Sources, DoomedKnown',
           DbcProcessTypes', \A q \in DbcProcesses \ {p} : SameImport(q),
           writer # p, ImportInHand(p)'
    PROVE  DbcInv'
<1>1. DbcTypes'
  BY DEF DbcInv, DbcTypes
<1>2. Sound(ddb)' /\ \A r \in ddb'.sources : Complete(ddb, r)'
  BY DEF DbcInv, Sound, Typed, Keyed, Owned, Filled, Complete, HasMessages
<1>3. ASSUME NEW q \in DbcProcesses PROVE (ImportInHand(q) /\ CopyInv(q))'
  <2>1. CASE q = p
    BY <2>1 DEF CopyInv
  <2>2. CASE q # p
    <3>1. SameImport(q)
      BY <2>2
    <3>2. ImportInHand(q)'
      BY <3>1 DEF DbcInv, ImportInHand, SameImport
    <3>3. Own(q)' = Own(q)
      BY <3>1 DEF Own, SameImport
    <3>4. CopyInv(q)'
      <4>1. SUFFICES ASSUME writer = q
                     PROVE  CopyInv(q)'
        BY DEF CopyInv
      <4>2. CopyInv(q)
        BY DEF DbcInv
      <4>q. QED
        BY <3>1, <3>3, <4>1, <4>2 DEF CopyInv, SameImport, Sound, Typed, Keyed,
           Owned, Filled, Complete, HasMessages
    <3>q. QED BY <3>2, <3>4
  <2>q. QED BY <2>1, <2>2
<1>q. QED BY <1>1, <1>2, <1>3 DEF DbcInv

LEMMA DbcExitQuiet ==
    ASSUME DbcInv, NEW p \in DbcProcesses, D!Exit(p),
           UNCHANGED <<ddb, dwork, writer, overtaken, doomed>>, dpc[p] # "messages"
    PROVE  DbcInv'
<1>1. /\ DbcProcessTypes' /\ \A q \in DbcProcesses \ {p} : SameImport(q)
      /\ dpc'[p] = "idle" /\ next'[p] = 0 /\ source'[p] = None
  BY DbcExitEffect
<1>2. writer # p
  BY DEF DbcInv, ImportInHand
<1>3. ImportInHand(p)'
  BY <1>1, <1>2 DEF ImportInHand
<1>4. doomed' \subseteq Sources /\ DoomedKnown'
  BY DEF DbcInv, DbcTypes, DoomedKnown
<1>q. QED BY <1>1, <1>2, <1>3, <1>4, QuietDbc

LEMMA DbcStartKeeps ==
    ASSUME DbcInv, NEW p \in DbcProcesses, D!Start(p) PROVE DbcInv'
<1>1. PICK c \in D!Commands : /\ dcommand' = [dcommand EXCEPT ![p] = c]
                             /\ dpc' = [dpc EXCEPT ![p] = c.op]
  BY DEF D!Start, D!GoTo
<1>2. /\ dpc[p] = "idle" /\ overtaken' = overtaken \ {p}
      /\ UNCHANGED <<ddb, dwork, writer, doomed, source, next>>
  BY DEF D!Start, D!At, D!store
<1>3. c.op \in {"import", "export"}
  BY DEF D!Commands
<1>0. c.op = "import" =>
        c \in [op: {"import"}, file: Files, name: Names, replace: BOOLEAN]
  BY DEF D!Commands
<1>4. dpc' \in [DbcProcesses -> DbcLabels] /\ dpc'[p] = c.op
      /\ \A q \in DbcProcesses \ {p} : dpc'[q] = dpc[q]
  BY <1>1, <1>3 DEF DbcInv, DbcTypes, DbcProcessTypes, DbcLabels
<1>5. /\ dcommand' \in [DbcProcesses -> D!Commands \cup {None}]
      /\ dcommand'[p] = c
      /\ \A q \in DbcProcesses \ {p} : dcommand'[q] = dcommand[q]
  BY <1>1 DEF DbcInv, DbcTypes, DbcProcessTypes
<1>6. DbcProcessTypes' /\ \A q \in DbcProcesses \ {p} : SameImport(q)
  BY <1>2, <1>4, <1>5 DEF DbcInv, DbcTypes, DbcProcessTypes, SameImport
<1>7. next[p] = 0 /\ source[p] = None /\ writer # p
  BY <1>2 DEF DbcInv, ImportInHand
<1>8. ImportInHand(p)'
  <2>1. next'[p] = 0 /\ source'[p] = None /\ writer' # p
    BY <1>2, <1>7
  <2>2. dpc'[p] \notin {"begin", "messages"}
    BY <1>3, <1>4
  <2>3. dpc'[p] \in {"import", "begin", "messages"} => c.op = "import"
    BY <1>3, <1>4
  <2>q. QED BY <1>0, <1>5, <2>1, <2>2, <2>3 DEF ImportInHand
<1>9. doomed' \subseteq Sources /\ DoomedKnown'
  BY <1>2 DEF DbcInv, DbcTypes, DoomedKnown
<1>q. QED BY <1>2, <1>6, <1>7, <1>8, <1>9, QuietDbc

LEMMA ImportCheckKeeps ==
    ASSUME DbcInv, NEW p \in DbcProcesses, D!ImportCheck(p)
    PROVE  DbcInv'
<1> DEFINE n == dcommand[p].name
           existing == D!Named(ddb, n)
<1>1. dpc[p] = "import" /\ UNCHANGED <<ddb, dwork, writer, overtaken>>
  BY DEF D!ImportCheck, D!At, D!store
<1>2. CASE D!Exit(p) /\ UNCHANGED doomed
  BY <1>1, <1>2, DbcExitQuiet
<1>3. CASE ~(D!Exit(p) /\ UNCHANGED doomed)
  <2>1. /\ ~(existing # {} /\ ~dcommand[p].replace)
        /\ D!GoTo(p, "begin") /\ UNCHANGED <<dcommand, next>>
        /\ \/ /\ existing = {} /\ UNCHANGED <<source, doomed>>
           \/ \E r \in existing :
                  /\ source' = [source EXCEPT ![p] = r.id]
                  /\ doomed' = doomed \cup {r}
    BY <1>3 DEF D!ImportCheck
  <2>2. /\ dcommand[p] \in [op: {"import"}, file: Files, name: Names, replace: BOOLEAN]
        /\ next[p] = 0 /\ source[p] = None /\ writer # p
    BY <1>1 DEF DbcInv, ImportInHand
  <2>3. /\ source' \in [DbcProcesses -> Nat \cup {None}]
        /\ \A q \in DbcProcesses \ {p} : source'[q] = source[q]
        /\ doomed \subseteq doomed' /\ doomed' \subseteq Sources /\ DoomedKnown'
        /\ source'[p] # None =>
             /\ dcommand[p].replace
             /\ \E r \in doomed' : r.id = source'[p] /\ r.name = n
    <3>1. CASE existing = {} /\ UNCHANGED <<source, doomed>>
      BY <1>1, <2>2, <3>1 DEF DbcInv, DbcTypes, DbcProcessTypes, DoomedKnown
    <3>2. ASSUME NEW r \in existing, source' = [source EXCEPT ![p] = r.id],
                 doomed' = doomed \cup {r}
          PROVE  /\ source' \in [DbcProcesses -> Nat \cup {None}]
                 /\ \A q \in DbcProcesses \ {p} : source'[q] = source[q]
                 /\ doomed \subseteq doomed' /\ doomed' \subseteq Sources /\ DoomedKnown'
                 /\ source'[p] # None =>
                      /\ dcommand[p].replace
                      /\ \E x \in doomed' : x.id = source'[p] /\ x.name = n
      <4>1. r \in ddb.sources /\ r.name = n
        BY <3>2 DEF D!Named
      <4>2. r \in Sources /\ r.id \in Nat
        BY <4>1 DEF DbcInv, Sound, Typed, Sources
      <4>3. /\ source' \in [DbcProcesses -> Nat \cup {None}] /\ source'[p] = r.id
            /\ \A q \in DbcProcesses \ {p} : source'[q] = source[q]
        BY <3>2, <4>2 DEF DbcInv, DbcTypes, DbcProcessTypes
      <4>4. doomed \subseteq doomed' /\ doomed' \subseteq Sources
        BY <3>2, <4>2 DEF DbcInv, DbcTypes
      <4>5. DoomedKnown'
        <5>1. ddb.last["sources"] \in Nat
          BY DEF DbcInv, Sound, Typed, D!Tables
        <5>2. r.id <= ddb.last["sources"] /\ \A x \in ddb.sources : x.id = r.id => x = r
          BY <4>1, <5>1 DEF DbcInv, Sound, Keyed
        <5>q. QED BY <1>1, <3>2, <5>2 DEF DbcInv, DoomedKnown
      <4>6. dcommand[p].replace
        BY <2>1, <3>2
      <4>q. QED BY <3>2, <4>1, <4>3, <4>4, <4>5, <4>6
    <3>q. QED BY <2>1, <3>1, <3>2
  <2>4. next' \in [DbcProcesses -> Nat] /\ next'[p] = 0
    BY <2>1, <2>2 DEF DbcInv, DbcTypes, DbcProcessTypes
  <2>5. /\ DbcProcessTypes' /\ dpc'[p] = "begin"
        /\ \A q \in DbcProcesses \ {p} : SameImport(q)
    BY <2>1, <2>3, <2>4, DbcGoOnEffect DEF DbcLabels
  <2>6. ImportInHand(p)'
    BY <1>1, <2>1, <2>2, <2>3, <2>4, <2>5 DEF ImportInHand
  <2>q. QED BY <1>1, <2>2, <2>3, <2>5, <2>6, QuietDbc
<1>q. QED BY <1>2, <1>3

(* Another import while nobody is the writer, or somebody else is.         *)
LEMMA OtherImport ==
    ASSUME DbcInv, NEW q \in DbcProcesses, SameImport(q), writer # q, writer' # q,
           doomed' = doomed
    PROVE  (ImportInHand(q) /\ CopyInv(q))'
BY DEF DbcInv, ImportInHand, CopyInv, SameImport

LEMMA DbcRollBackKeeps ==
    ASSUME DbcInv, NEW p \in DbcProcesses, writer = p, D!Exit(p),
           D!RollBack, UNCHANGED <<overtaken, doomed>>
    PROVE  DbcInv'
<1>1. writer' = None /\ dwork' = D!Empty /\ ddb' = ddb
  BY DEF D!RollBack, D!Release
<1>2. /\ DbcProcessTypes' /\ \A q \in DbcProcesses \ {p} : SameImport(q)
      /\ dpc'[p] = "idle" /\ next'[p] = 0 /\ source'[p] = None
  BY DbcExitEffect
<1>3. DbcTypes' /\ DoomedKnown'
  BY <1>1, <1>2 DEF DbcInv, DbcTypes, DoomedKnown
<1>4. ASSUME NEW q \in DbcProcesses PROVE (ImportInHand(q) /\ CopyInv(q))'
  <2>1. writer' # q
    BY <1>1, ProcessesAssumption
  <2>2. CASE q = p
    BY <1>2, <2>1, <2>2 DEF ImportInHand, CopyInv
  <2>3. CASE q # p
    BY <1>2, <2>1, <2>3, OtherImport
  <2>q. QED BY <2>2, <2>3
<1>5. Sound(ddb)' /\ \A r \in ddb'.sources : Complete(ddb, r)'
  BY <1>1 DEF DbcInv, Sound, Typed, Keyed, Owned, Filled, Complete, HasMessages
<1>q. QED BY <1>1, <1>3, <1>4, <1>5 DEF DbcInv

LEMMA DbcKillKeeps ==
    ASSUME DbcInv, NEW p \in DbcProcesses, D!Kill(p)
    PROVE  DbcInv'
<1>1. D!Exit(p) /\ UNCHANGED <<overtaken, doomed>>
  BY DEF D!Kill, D!history
<1>2. CASE writer = p
  BY <1>1, <1>2, DbcRollBackKeeps DEF D!Kill
<1>3. CASE writer # p
  <2>1. UNCHANGED <<ddb, dwork, writer>>
    BY <1>3 DEF D!Kill, D!store
  <2>2. dpc[p] # "messages"
    BY <1>3 DEF DbcInv, ImportInHand
  <2>q. QED BY <1>1, <2>1, <2>2, DbcExitQuiet
<1>q. QED BY <1>2, <1>3

(* The state of the tables after the DELETE of an import.                  *)
LEMMA ClearedSource ==
    ASSUME DbcInv, NEW p \in DbcProcesses, dpc[p] = "begin",
           NEW d, d = IF source[p] = None THEN ddb
                                          ELSE D!DeleteSource(ddb, source[p])
    PROVE  /\ Sound(d) /\ d.last = ddb.last
           /\ \A r \in d.sources : r \in ddb.sources /\ Complete(d, r)
           /\ \A r \in ddb.sources \ d.sources :
                r \in doomed /\ r.name = dcommand[p].name /\ dcommand[p].replace
<1>1. Sound(ddb) /\ \A r \in ddb.sources : Complete(ddb, r)
  BY DEF DbcInv
<1>2. CASE source[p] = None
  BY <1>1, <1>2
<1>3. CASE source[p] # None
  <2>1. d = D!DeleteSource(ddb, source[p])
    BY <1>3
  <2>2. /\ Sound(d) /\ d.last = ddb.last
        /\ d.sources = {r \in ddb.sources : r.id # source[p]}
        /\ \A r \in d.sources : Complete(ddb, r) => Complete(d, r)
    BY <1>1, <2>1, DeleteKeeps
  <2>3. PICK r \in doomed : r.id = source[p] /\ r.name = dcommand[p].name
    BY <1>3 DEF DbcInv, ImportInHand
  <2>4. dcommand[p].replace
    BY <1>3 DEF DbcInv, ImportInHand
  <2>5. \A x \in ddb.sources \ d.sources : x = r
    BY <2>2, <2>3 DEF DbcInv, DoomedKnown
  <2>q. QED BY <1>1, <2>2, <2>3, <2>4, <2>5
<1>q. QED BY <1>2, <1>3

LEMMA ImportBeginKeeps ==
    ASSUME DbcInv, NEW p \in DbcProcesses, D!ImportBegin(p)
    PROVE  DbcInv'
<1> DEFINE n == dcommand[p].name
           f == dcommand[p].file
           d == IF source[p] = None THEN ddb ELSE D!DeleteSource(ddb, source[p])
           id == d.last["sources"] + 1
           o == [id |-> id, name |-> n, file |-> f]
<1>1. dpc[p] = "begin" /\ writer = None /\ UNCHANGED <<overtaken, doomed>>
  BY DEF D!ImportBegin, D!At, D!history
<1>2. CASE D!Exit(p) /\ UNCHANGED D!store
  BY <1>1, <1>2, DbcExitQuiet DEF D!store
<1>3. CASE ~(D!Exit(p) /\ UNCHANGED D!store)
  <2>1. /\ D!Named(d, n) = {} /\ writer' = p
        /\ dwork' = D!InsertSource(d, id, n, f)
        /\ source' = [source EXCEPT ![p] = id]
        /\ D!GoTo(p, "messages")
        /\ UNCHANGED <<ddb, dcommand, next>>
    BY <1>3 DEF D!ImportBegin, D!NextKey
  <2>2. /\ Sound(d) /\ d.last = ddb.last
        /\ \A r \in d.sources : r \in ddb.sources /\ Complete(d, r)
        /\ \A r \in ddb.sources \ d.sources :
             r \in doomed /\ r.name = n /\ dcommand[p].replace
    BY <1>1, ClearedSource
  <2>3. /\ dcommand[p] \in [op: {"import"}, file: Files, name: Names, replace: BOOLEAN]
        /\ next[p] = 0 /\ n \in Names /\ f \in Files
    BY <1>1 DEF DbcInv, ImportInHand
  <2>4. \A r \in d.sources : r.name # n
    BY <2>1 DEF D!Named
  <2> HIDE DEF n, f, d
  <2>5. /\ Sound(dwork') /\ dwork'.last["sources"] = id /\ id \in Nat
        /\ dwork'.sources = d.sources \cup {o}
        /\ \A r \in d.sources : Complete(d, r) => Complete(dwork', r)
    BY <2>1, <2>2, <2>3, <2>4, InsertSourceKeeps
  <2>6. /\ source' \in [DbcProcesses -> Nat \cup {None}] /\ source'[p] = id
        /\ \A q \in DbcProcesses \ {p} : source'[q] = source[q]
    BY <2>1, <2>5 DEF DbcInv, DbcTypes, DbcProcessTypes
  <2>7. next' \in [DbcProcesses -> Nat]
    BY <2>1 DEF DbcInv, DbcTypes, DbcProcessTypes
  <2>8. /\ DbcProcessTypes' /\ dpc'[p] = "messages"
        /\ \A q \in DbcProcesses \ {p} : SameImport(q)
    BY <2>1, <2>6, <2>7, DbcGoOnEffect DEF DbcLabels
  <2>9. DbcTypes' /\ DoomedKnown'
    BY <1>1, <2>1, <2>8 DEF DbcInv, DbcTypes, DoomedKnown
  <2>10. Sound(ddb)' /\ \A r \in ddb'.sources : Complete(ddb, r)'
    BY <2>1 DEF DbcInv, Sound, Typed, Keyed, Owned, Filled, Complete, HasMessages
  <2>11. ImportInHand(p)'
    BY <2>1, <2>3, <2>8 DEF ImportInHand
  <2>12. Own(p)' = o
    BY <2>1, <2>6 DEF Own, n, f
  <2>13. CopyInv(p)'
    <3>1. Sound(dwork)' /\ Own(p)' \in dwork'.sources
      BY <2>5, <2>12 DEF Sound, Typed, Keyed, Owned, Filled
    <3>2. source'[p] = ddb'.last["sources"] + 1 /\ dwork'.last["sources"] = source'[p]
      BY <2>1, <2>2, <2>5, <2>6
    <3>3. \A r \in dwork'.sources :
             r # Own(p)' => r \in ddb'.sources /\ Complete(dwork', r)
      BY <2>1, <2>2, <2>5, <2>12
    <3>4. \A r \in ddb'.sources \ dwork'.sources :
             r \in doomed' /\ r.name = dcommand'[p].name /\ dcommand'[p].replace
      BY <1>1, <2>1, <2>2, <2>5 DEF n
    <3>5. next'[p] = 0 /\ 1 .. 0 = {}
      BY <2>1, <2>3
    <3>6. HasMessages(dwork', Own(p)', next'[p])
      BY <3>5 DEF HasMessages
    <3>7. next'[p] <= Messages[dcommand'[p].file]
      BY <2>1, <2>3, <3>5, FilesAssumption DEF f
    <3>q. QED
      BY <3>1, <3>2, <3>3, <3>4, <3>6, <3>7 DEF CopyInv, Complete, HasMessages
  <2>14. ASSUME NEW q \in DbcProcesses \ {p} PROVE (ImportInHand(q) /\ CopyInv(q))'
    <3>1. writer # q /\ writer' # q
      BY <1>1, <2>1, ProcessesAssumption
    <3>q. QED BY <1>1, <2>8, <3>1, OtherImport
  <2>q. QED BY <2>1, <2>9, <2>10, <2>11, <2>13, <2>14 DEF DbcInv
<1>q. QED BY <1>2, <1>3

(* The importer of the file in the middle of its transaction.              *)
LEMMA InsertingSource ==
    ASSUME DbcInv, NEW p \in DbcProcesses, dpc[p] = "messages"
    PROVE  /\ writer = p /\ CopyInv(p) /\ next[p] \in Nat
           /\ dcommand[p] \in [op: {"import"}, file: Files, name: Names, replace: BOOLEAN]
           /\ Messages[dcommand[p].file] \in Nat
<1>1. writer = p /\ CopyInv(p)
      /\ dcommand[p] \in [op: {"import"}, file: Files, name: Names, replace: BOOLEAN]
  BY DEF DbcInv, ImportInHand
<1>2. next[p] \in Nat
  BY DEF DbcInv, DbcTypes, DbcProcessTypes
<1>q. QED BY <1>1, <1>2, FilesAssumption

LEMMA ImportMessageKeeps ==
    ASSUME DbcInv, NEW p \in DbcProcesses, D!ImportMessage(p)
    PROVE  DbcInv'
<1> DEFINE f == dcommand[p].file
           i == next[p] + 1
           o == Own(p)
<1>1. dpc[p] = "messages" /\ i <= Messages[f] /\ UNCHANGED <<overtaken, doomed>>
  BY DEF D!ImportMessage, D!At, D!history
<1>2. writer = p /\ CopyInv(p) /\ next[p] \in Nat
  BY <1>1, InsertingSource
<1>3. CASE D!Exit(p) /\ D!RollBack
  BY <1>1, <1>2, <1>3, DbcRollBackKeeps
<1>4. CASE ~(D!Exit(p) /\ D!RollBack)
  <2>1. /\ dwork' = D!InsertMessage(dwork, source[p], i, f)
        /\ next' = [next EXCEPT ![p] = i]
        /\ UNCHANGED <<ddb, writer, dpc, dcommand, source>>
    BY <1>4 DEF D!ImportMessage
  <2>2. /\ o.id = source[p] /\ o.file = f /\ o \in dwork.sources /\ Sound(dwork)
        /\ HasMessages(dwork, o, next[p])
    BY <1>2 DEF CopyInv, Own
  <2>3. i \in 1 .. Messages[o.file] /\ i - 1 = next[p] /\ i \in Nat
    BY <1>1, <1>2, <2>2, InsertingSource
  <2> HIDE DEF f, i, o
  <2>4. dwork' = D!InsertMessage(dwork, o.id, i, o.file) /\ HasMessages(dwork, o, i - 1)
    BY <2>1, <2>2, <2>3
  <2>5. /\ Sound(dwork') /\ HasMessages(dwork', o, i)
        /\ dwork'.sources = dwork.sources
        /\ dwork'.last["sources"] = dwork.last["sources"]
        /\ \A q \in dwork.sources : Complete(dwork, q) => Complete(dwork', q)
    BY <2>2, <2>3, <2>4, InsertMessageKeeps
  <2>6. next' \in [DbcProcesses -> Nat] /\ next'[p] = i
        /\ \A q \in DbcProcesses \ {p} : next'[q] = next[q]
    BY <2>1, <2>3 DEF DbcInv, DbcTypes, DbcProcessTypes
  <2>7. DbcTypes' /\ DoomedKnown' /\ \A q \in DbcProcesses \ {p} : SameImport(q)
    BY <1>1, <2>1, <2>6 DEF DbcInv, DbcTypes, DbcProcessTypes, DoomedKnown, SameImport
  <2>8. Sound(ddb)' /\ \A r \in ddb'.sources : Complete(ddb, r)'
    BY <2>1 DEF DbcInv, Sound, Typed, Keyed, Owned, Filled, Complete, HasMessages
  <2>9. ImportInHand(p)'
    BY <1>1, <1>2, <2>1 DEF DbcInv, ImportInHand
  <2>10. CopyInv(p)'
    <3>1. Own(p)' = o
      BY <2>1 DEF Own, o
    <3>2. Sound(dwork)' /\ Own(p)' \in dwork'.sources
      BY <2>2, <2>5, <3>1 DEF Sound, Typed, Keyed, Owned, Filled
    <3>3. source'[p] = ddb'.last["sources"] + 1 /\ dwork'.last["sources"] = source'[p]
      BY <1>2, <2>1, <2>5 DEF CopyInv
    <3>4. \A r \in dwork'.sources :
             r # Own(p)' => r \in ddb'.sources /\ Complete(dwork', r)
      BY <1>2, <2>1, <2>5, <3>1 DEF CopyInv, o
    <3>5. \A r \in ddb'.sources \ dwork'.sources :
             r \in doomed' /\ r.name = dcommand'[p].name /\ dcommand'[p].replace
      BY <1>1, <1>2, <2>1, <2>5 DEF CopyInv
    <3>6. HasMessages(dwork', Own(p)', next'[p])
      BY <2>5, <2>6, <3>1
    <3>7. next'[p] <= Messages[dcommand'[p].file]
      BY <1>1, <2>1, <2>6 DEF f
    <3>q. QED
      BY <3>2, <3>3, <3>4, <3>5, <3>6, <3>7 DEF CopyInv, Complete, HasMessages
  <2>11. ASSUME NEW q \in DbcProcesses \ {p} PROVE (ImportInHand(q) /\ CopyInv(q))'
    BY <1>1, <1>2, <2>1, <2>7, OtherImport
  <2>q. QED BY <1>2, <2>1, <2>7, <2>8, <2>9, <2>10, <2>11 DEF DbcInv
<1>q. QED BY <1>3, <1>4

(* What an import commits: its source, complete, and the stored ones, but  *)
(* for the one that it replaces.                                           *)
LEMMA CommitEffect ==
    ASSUME DbcInv, NEW p \in DbcProcesses, D!ImportCommit(p)
    PROVE  /\ writer = p /\ D!Exit(p) /\ writer' = None /\ dwork' = D!Empty
           /\ doomed' = doomed /\ overtaken' \subseteq DbcProcesses
           /\ Sound(ddb') /\ \A r \in ddb'.sources : Complete(ddb', r)
           /\ ddb'.last["sources"] = ddb.last["sources"] + 1
           /\ Own(p) \in ddb'.sources /\ Own(p).id = ddb.last["sources"] + 1
           /\ \A r \in ddb'.sources : r = Own(p) \/ r \in ddb.sources
           /\ \A r \in ddb.sources \ ddb'.sources :
                r \in doomed /\ r.name = Own(p).name /\ dcommand[p].replace
<1> DEFINE o == Own(p)
<1>1. /\ dpc[p] = "messages" /\ next[p] = Messages[dcommand[p].file]
      /\ ddb' = [dwork EXCEPT !.passthrough =
                   @ \cup {[source |-> source[p], file |-> dcommand[p].file]}]
      /\ writer' = None /\ dwork' = D!Empty /\ D!Exit(p) /\ doomed' = doomed
      /\ D!NoteReplaced(dwork)
  BY DEF D!ImportCommit, D!At, D!Release
<1>2. writer = p /\ CopyInv(p)
  BY <1>1, InsertingSource
<1>3. overtaken' \subseteq DbcProcesses
  BY <1>1 DEF D!NoteReplaced, DbcInv, DbcTypes
<1>4. /\ o.id = source[p] /\ o.file = dcommand[p].file /\ o.name = dcommand[p].name
      /\ o \in dwork.sources /\ Sound(dwork)
      /\ HasMessages(dwork, o, Messages[o.file])
  BY <1>1, <1>2 DEF CopyInv, Own
<1> HIDE DEF o
<1>5. ddb' = [dwork EXCEPT !.passthrough =
                @ \cup {[source |-> o.id, file |-> o.file]}]
  BY <1>1, <1>4
<1>6. /\ Sound(ddb') /\ Complete(ddb', o)
      /\ ddb'.sources = dwork.sources /\ ddb'.last = dwork.last
      /\ \A q \in dwork.sources : Complete(dwork, q) => Complete(ddb', q)
  BY <1>4, <1>5, AttachKeeps
<1>7. \A r \in dwork.sources : r = o \/ (r \in ddb.sources /\ Complete(dwork, r))
  BY <1>2 DEF CopyInv, o
<1>8. \A r \in ddb.sources \ dwork.sources :
         r \in doomed /\ r.name = o.name /\ dcommand[p].replace
  BY <1>2, <1>4 DEF CopyInv
<1>9. /\ ddb'.last["sources"] = ddb.last["sources"] + 1
      /\ o.id = ddb.last["sources"] + 1
  BY <1>2, <1>4, <1>6 DEF CopyInv
<1>q. QED BY <1>1, <1>2, <1>3, <1>4, <1>6, <1>7, <1>8, <1>9 DEF o

LEMMA ImportCommitKeeps ==
    ASSUME DbcInv, NEW p \in DbcProcesses, D!ImportCommit(p)
    PROVE  DbcInv'
<1>1. /\ writer = p /\ D!Exit(p) /\ writer' = None /\ dwork' = D!Empty
      /\ doomed' = doomed /\ overtaken' \subseteq DbcProcesses
      /\ Sound(ddb') /\ \A r \in ddb'.sources : Complete(ddb', r)
      /\ ddb'.last["sources"] = ddb.last["sources"] + 1
      /\ Own(p).id = ddb.last["sources"] + 1
      /\ \A r \in ddb'.sources : r = Own(p) \/ r \in ddb.sources
  BY CommitEffect
<1>2. /\ DbcProcessTypes' /\ \A q \in DbcProcesses \ {p} : SameImport(q)
      /\ dpc'[p] = "idle" /\ next'[p] = 0 /\ source'[p] = None
  BY <1>1, DbcExitEffect
<1>3. DbcTypes'
  BY <1>1, <1>2 DEF DbcInv, DbcTypes
<1>4. DoomedKnown'
  <2>1. ddb.last["sources"] \in Nat
    BY DEF DbcInv, Sound, Typed, D!Tables
  <2>2. ASSUME NEW r \in doomed
        PROVE  /\ r.id <= ddb'.last["sources"]
               /\ \A x \in ddb'.sources : x.id = r.id => x = r
    <3>1. /\ r.id <= ddb.last["sources"] /\ r.id \in Nat
          /\ \A x \in ddb.sources : x.id = r.id => x = r
      BY DEF DbcInv, DbcTypes, DoomedKnown, Sources
    <3>2. Own(p).id # r.id
      BY <1>1, <2>1, <3>1
    <3>q. QED BY <1>1, <2>1, <3>1, <3>2
  <2>q. QED BY <1>1, <2>2 DEF DoomedKnown
<1>5. ASSUME NEW q \in DbcProcesses PROVE (ImportInHand(q) /\ CopyInv(q))'
  <2>1. writer' # q
    BY <1>1, ProcessesAssumption
  <2>2. CASE q = p
    BY <1>2, <2>1, <2>2 DEF ImportInHand, CopyInv
  <2>3. CASE q # p
    BY <1>1, <1>2, <2>1, <2>3, OtherImport
  <2>q. QED BY <2>2, <2>3
<1>6. Sound(ddb)' /\ \A r \in ddb'.sources : Complete(ddb, r)'
  BY <1>1 DEF Sound, Typed, Keyed, Owned, Filled, Complete, HasMessages
<1>q. QED BY <1>1, <1>3, <1>4, <1>5, <1>6 DEF DbcInv

(* An export reads, and ends or goes on.                                   *)
LEMMA ReadKeeps ==
    ASSUME DbcInv, NEW p \in DbcProcesses,
           dpc[p] \in DbcLabels \ {"idle", "import", "begin", "messages"},
           UNCHANGED <<ddb, dwork, writer, overtaken, doomed>>,
           NEW l \in DbcLabels \ {"idle", "import", "begin", "messages"},
           D!GoTo(p, l), UNCHANGED dcommand,
           source' \in [DbcProcesses -> Nat \cup {None}],
           next' \in [DbcProcesses -> Nat],
           \A q \in DbcProcesses \ {p} : source'[q] = source[q] /\ next'[q] = next[q]
    PROVE  DbcInv'
<1>1. /\ DbcProcessTypes' /\ dpc'[p] = l
      /\ \A q \in DbcProcesses \ {p} : SameImport(q)
  BY DbcGoOnEffect
<1>2. writer # p
  BY DEF DbcInv, ImportInHand
<1>3. ImportInHand(p)'
  BY <1>1, <1>2 DEF ImportInHand
<1>4. doomed' \subseteq Sources /\ DoomedKnown'
  BY DEF DbcInv, DbcTypes, DoomedKnown
<1>q. QED BY <1>1, <1>2, <1>3, <1>4, QuietDbc

ExportSteps(p) ==
    \/ D!ExportSource(p) \/ D!ExportNodes(p) \/ D!ExportListing(p)
    \/ D!ExportSignals(p) \/ D!ExportValues(p) \/ D!ExportPassthrough(p)
    \/ D!ExportCheckOutput(p) \/ D!ExportWrite(p)

LEMMA ExportKeeps ==
    ASSUME DbcInv, NEW p \in DbcProcesses, ExportSteps(p)
    PROVE  DbcInv'
<1>1. /\ dpc[p] \in {"export", "nodes", "listing", "reading", "values", "checked", "write"}
      /\ UNCHANGED <<ddb, dwork, writer, overtaken, doomed>>
  BY DEF ExportSteps, D!ExportSource, D!ExportNodes, D!ExportListing,
         D!ExportSignals, D!ExportValues, D!ExportPassthrough,
         D!ExportCheckOutput, D!ExportWrite, D!At, D!store, D!history
<1>2. dpc[p] \in DbcLabels \ {"idle", "import", "begin", "messages"}
  BY <1>1 DEF DbcLabels
<1>3. /\ source \in [DbcProcesses -> Nat \cup {None}]
      /\ next \in [DbcProcesses -> Nat]
  BY DEF DbcInv, DbcTypes, DbcProcessTypes
<1>4. CASE D!Exit(p)
  BY <1>1, <1>4, DbcExitQuiet
<1>5. CASE ~D!Exit(p) /\ D!ExportSource(p)
  <2>1. PICK r \in ddb.sources : /\ source' = [source EXCEPT ![p] = r.id]
                                /\ D!GoTo(p, "nodes") /\ UNCHANGED <<dcommand, next>>
    BY <1>5 DEF D!ExportSource, D!Named
  <2>2. r.id \in Nat
    BY DEF DbcInv, Sound, Typed, Sources
  <2>3. source' \in [DbcProcesses -> Nat \cup {None}]
        /\ \A q \in DbcProcesses \ {p} : source'[q] = source[q]
    BY <1>3, <2>1, <2>2
  <2>4. next' \in [DbcProcesses -> Nat] /\ next' = next
    BY <1>3, <2>1
  <2>5. "nodes" \in DbcLabels \ {"idle", "import", "begin", "messages"}
    BY DEF DbcLabels
  <2>q. QED BY <1>1, <1>2, <2>1, <2>3, <2>4, <2>5, ReadKeeps
<1>6. CASE D!ExportSignals(p)
  <2>1. /\ next' = [next EXCEPT ![p] = next[p] + 1] /\ D!GoTo(p, "values")
        /\ UNCHANGED <<dcommand, source>>
    BY <1>6 DEF D!ExportSignals
  <2>2. next' \in [DbcProcesses -> Nat]
        /\ \A q \in DbcProcesses \ {p} : next'[q] = next[q]
    BY <1>3, <2>1
  <2>3. source' \in [DbcProcesses -> Nat \cup {None}] /\ source' = source
    BY <1>3, <2>1
  <2>4. "values" \in DbcLabels \ {"idle", "import", "begin", "messages"}
    BY DEF DbcLabels
  <2>q. QED BY <1>1, <1>2, <2>1, <2>2, <2>3, <2>4, ReadKeeps
<1>7. CASE /\ ~D!Exit(p)
           /\ \/ D!ExportNodes(p) \/ D!ExportListing(p) \/ D!ExportValues(p)
              \/ D!ExportPassthrough(p) \/ D!ExportCheckOutput(p)
              \/ D!ExportWrite(p)
  <2>1. PICK l \in {"listing", "reading", "checked", "write"} :
          D!GoTo(p, l) /\ UNCHANGED <<dcommand, source, next>>
    BY <1>7 DEF D!ExportNodes, D!ExportListing, D!ExportValues,
                D!ExportPassthrough, D!ExportCheckOutput, D!ExportWrite
  <2>2. /\ source' \in [DbcProcesses -> Nat \cup {None}] /\ source' = source
        /\ next' \in [DbcProcesses -> Nat] /\ next' = next
    BY <1>3, <2>1
  <2>3. l \in DbcLabels \ {"idle", "import", "begin", "messages"}
    BY DEF DbcLabels
  <2>q. QED BY <1>1, <1>2, <2>1, <2>2, <2>3, ReadKeeps
<1>q. QED BY <1>4, <1>5, <1>6, <1>7 DEF ExportSteps

LEMMA DbcStepKeeps ==
    ASSUME DbcInv, D!Next PROVE DbcInv'
<1>1. PICK p \in DbcProcesses : D!Start(p) \/ D!Step(p) \/ D!Kill(p)
  BY DEF D!Next
<1>2. CASE D!BusyTimeout(p)
  <2>1. dpc[p] = "begin" /\ D!Exit(p)
        /\ UNCHANGED <<ddb, dwork, writer, overtaken, doomed>>
    BY <1>2 DEF D!BusyTimeout, D!At, D!store, D!history
  <2>q. QED BY <2>1, DbcExitQuiet
<1>q. QED
  BY <1>1, <1>2, DbcStartKeeps, DbcKillKeeps, ImportCheckKeeps, ImportBeginKeeps,
     ImportMessageKeeps, ImportCommitKeeps, ExportKeeps DEF D!Step, ExportSteps

(* The importer of a capture takes the file and gives it back.             *)
LEMMA DbcUndisturbed ==
    ASSUME DbcInv, UNCHANGED dbcVars,
           writer' # writer => {writer, writer'} \cap DbcProcesses = {}
    PROVE  DbcInv'
<1>1. /\ UNCHANGED <<ddb, dwork, dpc, dcommand, source, next, doomed, overtaken>>
      /\ \A p \in DbcProcesses : writer' = p <=> writer = p
      /\ writer' \notin DbcProcesses => writer \notin DbcProcesses
  BY DEF dbcVars
<1>2. DbcTypes' /\ DoomedKnown'
  BY <1>1 DEF DbcInv, DbcTypes, DbcProcessTypes, DoomedKnown
<1>3. Sound(ddb)' /\ \A r \in ddb'.sources : Complete(ddb, r)'
  BY <1>1 DEF DbcInv, Sound, Typed, Keyed, Owned, Filled, Complete, HasMessages
<1>4. ASSUME NEW q \in DbcProcesses PROVE (ImportInHand(q) /\ CopyInv(q))'
  <2>1. ImportInHand(q)'
    BY <1>1 DEF DbcInv, ImportInHand
  <2>2. Sound(dwork)' <=> Sound(dwork)
    BY <1>1 DEF Sound, Typed, Keyed, Owned, Filled
  <2>3. CopyInv(q)'
    BY <1>1, <2>2 DEF DbcInv, CopyInv, Own, Complete, HasMessages
  <2>q. QED BY <2>1, <2>3
<1>q. QED BY <1>1, <1>2, <1>3, <1>4 DEF DbcInv

-----------------------------------------------------------------------------
(* The composition.                                                        *)
IInv == SharedTypes /\ SessionInv /\ DbcInv

(* The file changes hands between nobody and one process at a time.        *)
LEMMA SessionWriter ==
    ASSUME SessionInv, SharedTypes, S!Next
    PROVE  /\ SharedTypes'
           /\ writer' # writer => {writer, writer'} \cap DbcProcesses = {}
<1>1. PICK p \in SessionProcesses : S!Start(p) \/ S!Step(p) \/ S!Kill(p)
  BY DEF S!Next
<1>2. p \notin DbcProcesses /\ None \notin DbcProcesses /\ p \in Processes
  BY ProcessesAssumption DEF Processes
<1>3. /\ started' = started \/ (started' = started + 1 /\ started < MaxCommands)
      /\ \/ writer' = writer
         \/ writer = None /\ writer' = p
         \/ writer = p /\ writer' = None
  <2>1. CASE S!Start(p)
    BY <2>1 DEF S!Start, S!store
  <2>2. CASE S!Kill(p)
    BY <2>2 DEF S!Kill, S!RollBack, S!Release, S!store, S!history
  <2>3. CASE S!IngestBegin(p)
    BY <2>3 DEF S!IngestBegin, S!Acquire, S!store, S!history
  <2>4. CASE S!IngestBatch(p)
    BY <2>4, Importing DEF S!IngestBatch, S!At, S!RollBack, S!Release, S!history
  <2>5. CASE S!IngestCommit(p)
    BY <2>5, Importing DEF S!IngestCommit, S!At, S!RollBack, S!Commit, S!Release
  <2>6. CASE S!BusyTimeout(p) \/ S!IngestCheck(p) \/ S!DiscoverCheck(p)
             \/ S!DiscoverScan(p) \/ S!DiscoverStore(p) \/ S!CorrelateCheck(p)
             \/ S!CorrelateWindow(p) \/ S!CorrelateStore(p)
    BY <2>6 DEF S!BusyTimeout, S!IngestCheck, S!DiscoverCheck, S!DiscoverScan,
                S!DiscoverStore, S!CorrelateCheck, S!CorrelateWindow,
                S!CorrelateStore, S!store, S!history
  <2>q. QED BY <1>1, <2>1, <2>2, <2>3, <2>4, <2>5, <2>6 DEF S!Step
<1>4. started' \in 0 .. MaxCommands
  BY <1>3, ProcessesAssumption DEF SharedTypes
<1>5. writer' \in Processes \cup {None}
  BY <1>2, <1>3 DEF SharedTypes
<1>q. QED BY <1>2, <1>3, <1>4, <1>5 DEF SharedTypes

LEMMA DbcWriter ==
    ASSUME DbcInv, SharedTypes, D!Next
    PROVE  /\ SharedTypes'
           /\ writer' # writer => {writer, writer'} \cap SessionProcesses = {}
<1>1. PICK p \in DbcProcesses : D!Start(p) \/ D!Step(p) \/ D!Kill(p)
  BY DEF D!Next
<1>2. p \notin SessionProcesses /\ None \notin SessionProcesses /\ p \in Processes
  BY ProcessesAssumption DEF Processes
<1>3. /\ started' = started \/ (started' = started + 1 /\ started < MaxCommands)
      /\ \/ writer' = writer
         \/ writer = None /\ writer' = p
         \/ writer = p /\ writer' = None
  <2>1. CASE D!Start(p)
    BY <2>1 DEF D!Start, D!store
  <2>2. CASE D!Kill(p)
    BY <2>2 DEF D!Kill, D!RollBack, D!Release, D!store, D!history
  <2>3. CASE D!ImportBegin(p)
    BY <2>3 DEF D!ImportBegin, D!store, D!history
  <2>4. CASE D!ImportMessage(p)
    BY <2>4, InsertingSource DEF D!ImportMessage, D!At, D!RollBack, D!Release, D!history
  <2>5. CASE D!ImportCommit(p)
    BY <2>5, CommitEffect DEF D!ImportCommit
  <2>6. CASE D!BusyTimeout(p) \/ D!ImportCheck(p) \/ ExportSteps(p)
    BY <2>6 DEF D!BusyTimeout, D!ImportCheck, ExportSteps, D!ExportSource,
                D!ExportNodes, D!ExportListing, D!ExportSignals, D!ExportValues,
                D!ExportPassthrough, D!ExportCheckOutput, D!ExportWrite,
                D!store, D!history
  <2>q. QED BY <1>1, <2>1, <2>2, <2>3, <2>4, <2>5, <2>6 DEF D!Step, ExportSteps
<1>4. started' \in 0 .. MaxCommands
  BY <1>3, ProcessesAssumption DEF SharedTypes
<1>5. writer' \in Processes \cup {None}
  BY <1>2, <1>3 DEF SharedTypes
<1>q. QED BY <1>2, <1>3, <1>4, <1>5 DEF SharedTypes

LEMMA InitHolds == Init => IInv
<1>1. Init => SharedTypes
  BY ProcessesAssumption DEF Init, S!Init, SharedTypes, Processes
<1>q. QED BY <1>1, SessionInitHolds, DbcInitHolds DEF Init, IInv

LEMMA NextKeeps == IInv /\ [Next]_vars => IInv'
<1> SUFFICES ASSUME IInv, [Next]_vars PROVE IInv'
  OBVIOUS
<1>1. CASE S!Next /\ UNCHANGED dbcVars
  BY <1>1, SessionStepKeeps, SessionWriter, DbcUndisturbed DEF IInv
<1>2. CASE D!Next /\ UNCHANGED sessionVars
  BY <1>2, DbcStepKeeps, DbcWriter, SessionsUndisturbed DEF IInv
<1>3. CASE UNCHANGED vars
  <2>1. UNCHANGED <<writer, started, dbcVars, sessionVars>>
    BY <1>3 DEF vars
  <2>2. SharedTypes'
    BY <2>1 DEF IInv, SharedTypes
  <2>q. QED BY <2>1, <2>2, DbcUndisturbed, SessionsUndisturbed DEF IInv
<1>q. QED BY <1>1, <1>2, <1>3 DEF Next

(* The inductive invariant holds in every behaviour.                       *)
THEOREM Invariance == Spec => []IInv
BY InitHolds, NextKeeps, PTL DEF Spec

(* Whatever number of processes runs, the tables and the processes have    *)
(* their types, keys are distinct and never exceed what was given out.     *)
THEOREM TypesHold == Spec => []TypeOK
<1>1. IInv => S!TypeOK
  <2> SUFFICES ASSUME IInv PROVE S!TypeOK
    OBVIOUS
  <2>1. \A p \in SessionProcesses : \A k \in DOMAIN rows[p] : rows[p][k] \subseteq S!Frames
    <3>1. ASSUME NEW p \in SessionProcesses, NEW k \in DOMAIN rows[p]
          PROVE  rows[p][k] \subseteq S!Frames
      <4>1. rows[p] \in Seq(SUBSET S!Frames)
        BY DEF IInv, SessionInv, SessionTypes, ProcessTypes
      <4>2. rows[p][k] \in SUBSET S!Frames
        BY <3>1, <4>1
      <4>q. QED BY <4>2
    <3>q. QED BY <3>1
  <2>2. started \in 0 .. MaxCommands
    BY DEF IInv, SharedTypes
  <2>q. QED
    BY <2>1, <2>2 DEF IInv, SessionInv, SessionTypes, ProcessTypes, SessionLabels,
                      S!TypeOK
<1>2. IInv => D!TypeOK
  <2> SUFFICES ASSUME IInv PROVE D!TypeOK
    OBVIOUS
  <2>1. Sound(ddb)
    BY DEF IInv, DbcInv
  <2>2. Sound(dwork)
    <3>1. CASE writer \in DbcProcesses
      BY <3>1 DEF IInv, DbcInv, CopyInv
    <3>2. CASE writer \notin DbcProcesses
      BY <3>2, EmptySound DEF IInv, DbcInv
    <3>q. QED BY <3>1, <3>2
  <2>3. \A d \in {ddb, dwork} : Keyed(d)
    BY <2>1, <2>2 DEF Sound
  <2>4. \A p \in DbcProcesses : next[p] \in Nat
    BY DEF IInv, DbcInv, DbcTypes, DbcProcessTypes
  <2>5. started \in 0 .. MaxCommands /\ overtaken \subseteq DbcProcesses
    BY DEF IInv, SharedTypes, DbcInv, DbcTypes
  <2>q. QED BY <2>3, <2>4, <2>5 DEF D!TypeOK, Keyed
<1>3. IInv => TypeOK
  BY <1>1, <1>2 DEF IInv, SharedTypes, TypeOK, Processes
<1>q. QED BY <1>3, Invariance, PTL

(* What is committed is whole, for any sizes of captures and files.        *)
THEOREM StoredHolds == Spec => []StoredWhole
<1>1. IInv => D!SourceWhole
  <2> SUFFICES ASSUME IInv PROVE D!SourceWhole
    OBVIOUS
  <2>1. Sound(ddb) /\ \A r \in ddb.sources : Complete(ddb, r)
    BY DEF IInv, DbcInv
  <2>2. \A r \in ddb.sources : D!Stored(ddb, r.id) = D!Whole(r.file)
    BY <2>1, WholeFromRows
  <2>3. /\ {m.source : m \in ddb.messages} \subseteq {r.id : r \in ddb.sources}
        /\ {s.message : s \in ddb.signals} \subseteq {m.id : m \in ddb.messages}
        /\ {v.signal : v \in ddb.values} \subseteq {s.id : s \in ddb.signals}
    BY <2>1 DEF Sound, Owned
  <2>q. QED BY <2>2, <2>3 DEF D!SourceWhole
<1>2. IInv => StoredWhole
  BY <1>1 DEF IInv, SessionInv, StoredWhole
<1>q. QED BY <1>2, Invariance, PTL

(* Metrics and annotations are of one import, and the metrics of the       *)
(* present one unless an import was committed behind the discovery.        *)
THEOREM MetricsHold == Spec => []MetricsFaithful
<1>1. IInv => MetricsFaithful
  BY DEF IInv, SessionInv, MetricsFaithful
<1>q. QED BY <1>1, Invariance, PTL

(* No step of any process takes a session away, nor a DBC source that an   *)
(* import with --replace had not seen.                                     *)
THEOREM NothingLost == Spec => NothingDisappears
<1> DEFINE Stays == \A s \in Sessions : sdb.session[s] # None => sdb'.session[s] # None
           Seen == \A r \in ddb.sources : r \notin ddb'.sources =>
                     /\ r \in doomed
                     /\ \E p \in DbcProcesses : writer = p /\ dcommand[p].replace
                     /\ D!Named(ddb', r.name) # {}
<1>1. IInv /\ [Next]_vars => Stays
  <2> SUFFICES ASSUME IInv, [Next]_vars PROVE Stays
    OBVIOUS
  <2>1. CASE S!Next
    BY <2>1, SessionStays DEF IInv
  <2>2. CASE UNCHANGED sessionVars
    BY <2>2 DEF sessionVars
  <2>q. QED BY <2>1, <2>2 DEF Next, vars
<1>2. IInv /\ [Next]_vars => Seen
  <2> SUFFICES ASSUME IInv, [Next]_vars PROVE Seen
    OBVIOUS
  <2>1. CASE UNCHANGED ddb
    BY <2>1
  <2>2. CASE D!Next
    <3>1. PICK p \in DbcProcesses : D!Start(p) \/ D!Step(p) \/ D!Kill(p)
      BY <2>2 DEF D!Next
    <3>2. CASE D!ImportCommit(p)
      <4>1. /\ writer = p /\ Own(p) \in ddb'.sources
            /\ \A r \in ddb.sources \ ddb'.sources :
                 r \in doomed /\ r.name = Own(p).name /\ dcommand[p].replace
        BY <3>2, CommitEffect DEF IInv
      <4>q. QED BY <4>1 DEF D!Named
    <3>3. CASE ~D!ImportCommit(p)
      <4>1. CASE D!Start(p) \/ D!Kill(p) \/ D!BusyTimeout(p) \/ D!ImportCheck(p)
                 \/ D!ImportBegin(p) \/ D!ImportMessage(p)
        BY <2>1, <4>1 DEF D!Start, D!Kill, D!BusyTimeout, D!ImportCheck,
           D!ImportBegin, D!ImportMessage, D!RollBack, D!store
      <4>2. CASE ExportSteps(p)
        BY <2>1, <4>2 DEF ExportSteps, D!ExportSource, D!ExportNodes,
           D!ExportListing, D!ExportSignals, D!ExportValues, D!ExportPassthrough,
           D!ExportCheckOutput, D!ExportWrite, D!store
      <4>q. QED BY <3>1, <3>3, <4>1, <4>2 DEF D!Step, ExportSteps
    <3>q. QED BY <3>2, <3>3
  <2>q. QED BY <2>1, <2>2 DEF Next, vars, dbcVars
<1>3. IInv /\ [Next]_vars => [Stays]_(S!vars) /\ [Seen]_(D!vars)
  BY <1>1, <1>2
<1>q. QED
  BY <1>3, Invariance, PTL
     DEF Spec, NothingDisappears, S!SessionsPersist, D!ReplacesOnlySeen

-----------------------------------------------------------------------------
(* dbc-export: what it has read is of the one source that it looked up,    *)
(* whatever imports commit between its SELECTs.                            *)

(* What an import that begins with the tables d and goes on to e has done  *)
(* to what others may have read of d. A new row has a key that was never   *)
(* given out; a row is gone only with its source.                          *)
Grows(d, e) ==
    /\ \A t \in D!Tables : d.last[t] <= e.last[t]
    /\ \A r \in e.sources : r \in d.sources \/ r.id > d.last["sources"]
    /\ \A m \in e.messages : m \in d.messages \/ m.id > d.last["messages"]
    /\ \A s \in e.signals : s \in d.signals \/ s.id > d.last["signals"]
    /\ \A m \in d.messages \ e.messages : \A r \in e.sources : r.id # m.source
    /\ \A s \in d.signals \ e.signals : \A m \in e.messages : m.id # s.message

CopyGrows == writer \in DbcProcesses => Grows(ddb, dwork)

(* What an export holds has the parts of a DbcDatabase.                    *)
IsLoad(l) ==
    l = [header |-> l.header, messages |-> l.messages, signals |-> l.signals,
         values |-> l.values, passthrough |-> l.passthrough]

LoadTypes ==
    /\ loaded = [p \in DbcProcesses |-> loaded[p]]
    /\ \A p \in DbcProcesses : IsLoad(loaded[p])

(* The source that was looked up: no other file ever has its key.          *)
SourceSeen(p, f) ==
    /\ source[p] \in 1 .. ddb.last["sources"]
    /\ \A r \in ddb.sources : r.id = source[p] => r.file = f
    /\ p \notin overtaken => \E r \in ddb.sources : r.id = source[p]

(* The keys its messages and signals are read by are, as long as rows have *)
(* them, those of rows of the source.                                      *)
MessagesSeen(p, f) ==
    \A m \in loaded[p].messages :
        /\ m[1] = f /\ m[2] \in 1 .. Messages[f]
        /\ m[3] \in 1 .. ddb.last["messages"]
        /\ \A x \in ddb.messages : x.id = m[3] => x.source = source[p]
        /\ p \notin overtaken => \E x \in ddb.messages : x.id = m[3]

SignalsSeen(p, f) ==
    \A s \in loaded[p].signals :
        /\ s[1] = f /\ s[2] \in 1 .. Messages[f]
        /\ s[3] \in 1 .. ddb.last["signals"]
        /\ \A x \in ddb.signals : \A y \in ddb.messages :
             x.id = s[3] /\ y.id = x.message => y.source = source[p]
        /\ p \notin overtaken => \E x \in ddb.signals : x.id = s[3]

(* An export that was not overtaken has missed nothing so far.             *)
NothingMissed(p, f) ==
    LET l == loaded[p] IN
    /\ dpc[p] \in {"reading", "values"} =>
         \A i \in 1 .. Messages[f] : \E m \in l.messages : m[2] = i
    /\ \A i \in 1 .. next[p] : \E s \in l.signals : s[2] = i
    /\ \A i \in 1 .. next[p] : \/ <<f, i>> \in l.values
                               \/ dpc[p] = "values" /\ i = next[p]

Reads(p, f) ==
    /\ SourceSeen(p, f)
    /\ loaded[p].header = {f} /\ loaded[p].passthrough = {}
    /\ next[p] <= Messages[f]
    /\ dpc[p] \in {"nodes", "listing"} =>
         /\ loaded[p].messages = {} /\ loaded[p].signals = {}
         /\ loaded[p].values = {} /\ next[p] = 0
    /\ MessagesSeen(p, f) /\ SignalsSeen(p, f)
    /\ loaded[p].values \subseteq D!Whole(f).values
    /\ p \notin overtaken => NothingMissed(p, f)

(* A DbcDatabase with parts of one file; with all of them.                 *)
PartOf(l, f) ==
    /\ l.header = {f}
    /\ l.messages \subseteq D!Whole(f).messages
    /\ l.signals \subseteq D!Whole(f).signals
    /\ l.values \subseteq D!Whole(f).values
    /\ l.passthrough \subseteq {f}

(* Between its first SELECT and its last.                                  *)
Selecting == {"nodes", "listing", "reading", "values"}

ExportInHand(p) ==
    /\ dpc[p] = "export" => loaded[p] = D!Nothing /\ next[p] = 0
    /\ dpc[p] = "idle" => loaded[p] = D!Nothing
    /\ dpc[p] \in Selecting =>
         \E f \in Files : Reads(p, f)
    /\ dpc[p] \in {"checked", "write"} =>
         \E f \in Files : /\ PartOf(loaded[p], f)
                          /\ p \notin overtaken => loaded[p] = D!Whole(f)

OutputInv ==
    output # None =>
        \E f \in Files : /\ PartOf(output.content, f)
                         /\ ~output.overtaken => output.content = D!Whole(f)

ExportInv ==
    /\ LoadTypes /\ CopyGrows /\ OutputInv
    /\ \A p \in DbcProcesses : ExportInHand(p)

(* The statements of dbc-import.                                           *)
LEMMA GrowsSelf ==
    ASSUME NEW d, Sound(d) PROVE Grows(d, d)
BY DEF Grows, Sound, Typed

LEMMA DeleteGrows ==
    ASSUME NEW d, Sound(d), NEW id, NEW e, e = D!DeleteSource(d, id)
    PROVE  Grows(d, e)
<1>1. /\ e.sources = {r \in d.sources : r.id # id}
      /\ e.messages = {m \in d.messages : m.source # id}
      /\ e.signals = {s \in d.signals : s.message \in {m.id : m \in e.messages}}
      /\ e.last = d.last
  BY DEF D!DeleteSource
<1>2. \A t \in D!Tables : d.last[t] <= e.last[t]
  BY <1>1 DEF Sound, Typed
<1>q. QED BY <1>1, <1>2 DEF Grows

LEMMA InsertSourceGrows ==
    ASSUME NEW d, Sound(d), NEW c, Sound(c), Grows(d, c), NEW n, NEW f,
           NEW id, id = c.last["sources"] + 1,
           NEW e, e = D!InsertSource(c, id, n, f)
    PROVE  Grows(d, e)
<1> DEFINE o == [id |-> id, name |-> n, file |-> f]
<1>1. /\ e.sources = c.sources \cup {o}
      /\ e.messages = c.messages /\ e.signals = c.signals
      /\ e.last = [c.last EXCEPT !["sources"] = id]
  BY DEF D!InsertSource
<1>2. /\ d.last \in [D!Tables -> Nat] /\ c.last \in [D!Tables -> Nat]
      /\ "sources" \in D!Tables
  BY DEF Sound, Typed, D!Tables
<1>3. o.id = id /\ id > d.last["sources"] /\ id \in Nat
  BY <1>2 DEF Grows
<1> HIDE DEF o
<1>4. \A t \in D!Tables : d.last[t] <= e.last[t]
  BY <1>1, <1>2, <1>3 DEF Grows
<1>5. ASSUME NEW m \in d.messages \ e.messages
      PROVE  \A r \in e.sources : r.id # m.source
  <2>1. PICK r \in d.sources : m.source = r.id
    BY <1>5 DEF Sound, Owned
  <2>2. m.source # id
    BY <1>2, <1>3, <2>1 DEF Sound, Keyed
  <2>q. QED BY <1>1, <1>3, <1>5, <2>2 DEF Grows
<1>q. QED BY <1>1, <1>3, <1>4, <1>5 DEF Grows

LEMMA InsertMessageGrows ==
    ASSUME NEW d, Sound(d), NEW c, Sound(c), Grows(d, c),
           NEW id, NEW i, NEW f, NEW e, e = D!InsertMessage(c, id, i, f)
    PROVE  Grows(d, e)
<1> DEFINE k == c.last["messages"] + 1
           l == c.last["signals"] + 1
           m == [id |-> k, source |-> id, ordinal |-> i, file |-> f]
           s == [id |-> l, message |-> k, file |-> f]
<1>1. /\ e.sources = c.sources
      /\ e.messages = c.messages \cup {m} /\ e.signals = c.signals \cup {s}
      /\ e.last = [t \in D!Tables |-> IF t = "sources" THEN c.last[t] ELSE c.last[t] + 1]
  BY DEF D!InsertMessage, D!NextKey
<1>2. /\ d.last \in [D!Tables -> Nat] /\ c.last \in [D!Tables -> Nat]
      /\ "messages" \in D!Tables /\ "signals" \in D!Tables
  BY DEF Sound, Typed, D!Tables
<1>3. /\ m.id = k /\ s.id = l
      /\ k > d.last["messages"] /\ l > d.last["signals"]
  BY <1>2 DEF Grows
<1> HIDE DEF m, s
<1>4. \A t \in D!Tables : d.last[t] <= e.last[t]
  BY <1>1, <1>2 DEF Grows
<1>5. ASSUME NEW x \in d.signals \ e.signals
      PROVE  \A y \in e.messages : y.id # x.message
  <2>1. PICK y \in d.messages : x.message = y.id
    BY <1>5 DEF Sound, Owned
  <2>2. x.message # k
    BY <1>2, <1>3, <2>1 DEF Sound, Keyed
  <2>q. QED BY <1>1, <1>3, <1>5, <2>2 DEF Grows
<1>q. QED BY <1>1, <1>3, <1>4, <1>5 DEF Grows

LEMMA AttachGrows ==
    ASSUME NEW d, NEW c, Sound(c), Grows(d, c), NEW x,
           NEW e, e = [c EXCEPT !.passthrough = @ \cup {x}]
    PROVE  Grows(d, e)
<1>1. /\ e.sources = c.sources /\ e.messages = c.messages
      /\ e.signals = c.signals /\ e.last = c.last
  BY DEF Sound, Typed
<1>q. QED BY <1>1 DEF Grows

(* Reading goes on as long as the tables grow: what was read stays what it *)
(* was, and an export that has lost its source is noted as overtaken.      *)
SameExport(q) ==
    /\ dpc'[q] = dpc[q] /\ source'[q] = source[q]
    /\ next'[q] = next[q] /\ loaded'[q] = loaded[q]

LEMMA ReadsGo ==
    ASSUME Sound(ddb), Sound(ddb'), Grows(ddb, ddb'),
           NEW q \in DbcProcesses, SameExport(q), NEW f \in Files, Reads(q, f),
           q \notin overtaken' =>
               q \notin overtaken /\ \E r \in ddb'.sources : r.id = source[q]
    PROVE  Reads(q, f)'
<1>0. /\ ddb.last["sources"] \in Nat /\ ddb'.last["sources"] \in Nat
      /\ ddb.last["messages"] \in Nat /\ ddb'.last["messages"] \in Nat
      /\ ddb.last["signals"] \in Nat /\ ddb'.last["signals"] \in Nat
      /\ ddb.last["sources"] <= ddb'.last["sources"]
      /\ ddb.last["messages"] <= ddb'.last["messages"]
      /\ ddb.last["signals"] <= ddb'.last["signals"]
  BY DEF Sound, Typed, Grows, D!Tables
<1>1. SourceSeen(q, f)'
  <2>1. source[q] \in 1 .. ddb'.last["sources"] /\ source[q] <= ddb.last["sources"]
    BY <1>0 DEF Reads, SourceSeen
  <2>2. \A r \in ddb'.sources : r.id = source[q] => r.file = f
    BY <1>0, <2>1 DEF Reads, SourceSeen, Grows
  <2>q. QED BY <2>1, <2>2 DEF SourceSeen, SameExport
<1>2. MessagesSeen(q, f)'
  <2>1. ASSUME NEW m \in loaded[q].messages
        PROVE  /\ m[1] = f /\ m[2] \in 1 .. Messages[f]
               /\ m[3] \in 1 .. ddb'.last["messages"]
               /\ \A x \in ddb'.messages : x.id = m[3] => x.source = source[q]
               /\ q \notin overtaken' => \E x \in ddb'.messages : x.id = m[3]
    <3>1. /\ m[1] = f /\ m[2] \in 1 .. Messages[f]
          /\ m[3] \in 1 .. ddb.last["messages"]
          /\ \A x \in ddb.messages : x.id = m[3] => x.source = source[q]
          /\ q \notin overtaken => \E x \in ddb.messages : x.id = m[3]
      BY DEF Reads, MessagesSeen
    <3>2. \A x \in ddb'.messages : x.id = m[3] => x \in ddb.messages
      BY <1>0, <3>1 DEF Grows
    <3>3. ASSUME q \notin overtaken' PROVE \E x \in ddb'.messages : x.id = m[3]
      <4>1. PICK x \in ddb.messages : x.id = m[3]
        BY <3>1, <3>3
      <4>2. x \in ddb'.messages
        BY <3>1, <3>3, <4>1 DEF Grows
      <4>q. QED BY <4>1, <4>2
    <3>q. QED BY <1>0, <3>1, <3>2, <3>3
  <2>q. QED BY <2>1 DEF MessagesSeen, SameExport
<1>3. SignalsSeen(q, f)'
  <2>1. ASSUME NEW s \in loaded[q].signals
        PROVE  /\ s[1] = f /\ s[2] \in 1 .. Messages[f]
               /\ s[3] \in 1 .. ddb'.last["signals"]
               /\ \A x \in ddb'.signals : \A y \in ddb'.messages :
                    x.id = s[3] /\ y.id = x.message => y.source = source[q]
               /\ q \notin overtaken' => \E x \in ddb'.signals : x.id = s[3]
    <3>1. /\ s[1] = f /\ s[2] \in 1 .. Messages[f]
          /\ s[3] \in 1 .. ddb.last["signals"]
          /\ \A x \in ddb.signals : \A y \in ddb.messages :
               x.id = s[3] /\ y.id = x.message => y.source = source[q]
          /\ q \notin overtaken => \E x \in ddb.signals : x.id = s[3]
      BY DEF Reads, SignalsSeen
    <3>2. ASSUME NEW x \in ddb'.signals, NEW y \in ddb'.messages,
                 x.id = s[3], y.id = x.message
          PROVE  y.source = source[q]
      <4>1. x \in ddb.signals
        BY <1>0, <3>1, <3>2 DEF Grows
      <4>2. PICK z \in ddb.messages : x.message = z.id
        BY <4>1 DEF Sound, Owned
      <4>3. y \in ddb.messages
        BY <1>0, <3>2, <4>2 DEF Grows, Sound, Keyed
      <4>q. QED BY <3>1, <3>2, <4>1, <4>3
    <3>3. ASSUME q \notin overtaken' PROVE \E x \in ddb'.signals : x.id = s[3]
      <4>1. PICK x \in ddb.signals : x.id = s[3]
        BY <3>1, <3>3
      <4>2. PICK z \in ddb.messages : x.message = z.id
        BY DEF Sound, Owned
      <4>3. z.source = source[q]
        BY <3>1, <4>1, <4>2
      <4>4. z \in ddb'.messages
        BY <3>3, <4>3 DEF Grows
      <4>5. x \in ddb'.signals
        BY <4>2, <4>4 DEF Grows
      <4>q. QED BY <4>1, <4>5
    <3>q. QED BY <1>0, <3>1, <3>2, <3>3
  <2>q. QED BY <2>1 DEF SignalsSeen, SameExport
<1>4. q \notin overtaken' => NothingMissed(q, f)'
  <2>1. q \notin overtaken' => NothingMissed(q, f)
    BY DEF Reads
  <2>q. QED BY <2>1 DEF NothingMissed, SameExport
<1>q. QED BY <1>1, <1>2, <1>3, <1>4 DEF Reads, SameExport

(* What another process has in hand.                                       *)
LEMMA OthersGo ==
    ASSUME Sound(ddb), Sound(ddb'), Grows(ddb, ddb'),
           NEW q \in DbcProcesses, SameExport(q), ExportInHand(q),
           q \notin overtaken' => q \notin overtaken,
           dpc[q] \in Selecting /\ q \notin overtaken' =>
               \E r \in ddb'.sources : r.id = source[q]
    PROVE  ExportInHand(q)'
<1>1. ASSUME dpc[q] \in Selecting PROVE \E f \in Files : Reads(q, f)'
  <2>1. PICK f \in Files : Reads(q, f)
    BY <1>1 DEF ExportInHand, Selecting
  <2>2. Reads(q, f)'
    BY <1>1, <2>1, ReadsGo
  <2>q. QED BY <2>2
<1>2. ASSUME dpc[q] \in {"checked", "write"}
      PROVE  \E f \in Files : /\ PartOf(loaded[q], f)
                              /\ q \notin overtaken' => loaded[q] = D!Whole(f)
  BY <1>2 DEF ExportInHand
<1>q. QED BY <1>1, <1>2 DEF ExportInHand, SameExport, Selecting, PartOf

LEMMA OthersStay ==
    ASSUME Sound(ddb), UNCHANGED ddb,
           NEW q \in DbcProcesses, SameExport(q), ExportInHand(q),
           q \notin overtaken' => q \notin overtaken
    PROVE  ExportInHand(q)'
<1>1. Grows(ddb, ddb') /\ Sound(ddb')
  BY GrowsSelf DEF Sound, Typed, Keyed, Owned, Filled
<1>2. ASSUME dpc[q] \in Selecting, q \notin overtaken'
      PROVE  \E r \in ddb'.sources : r.id = source[q]
  BY <1>2 DEF ExportInHand, Selecting, Reads, SourceSeen
<1>q. QED BY <1>1, <1>2, OthersGo

(* A step of one process that commits nothing.                             *)
LEMMA QuietExport ==
    ASSUME DbcInv, ExportInv, NEW p \in DbcProcesses, UNCHANGED ddb,
           overtaken' \in {overtaken, overtaken \ {p}},
           LoadTypes', CopyGrows', OutputInv',
           \A q \in DbcProcesses \ {p} : SameExport(q), ExportInHand(p)'
    PROVE  ExportInv'
<1>1. ASSUME NEW q \in DbcProcesses PROVE ExportInHand(q)'
  <2>1. CASE q = p
    BY <2>1
  <2>2. CASE q # p
    <3>1. SameExport(q) /\ ExportInHand(q) /\ (q \notin overtaken' => q \notin overtaken)
      BY <2>2 DEF ExportInv
    <3>2. Sound(ddb)
      BY DEF DbcInv
    <3>q. QED BY <3>1, <3>2, OthersStay
  <2>q. QED BY <2>1, <2>2
<1>q. QED BY <1>1 DEF ExportInv

LEMMA NextLoad ==
    ASSUME LoadTypes, NEW p \in DbcProcesses, NEW l, IsLoad(l),
           loaded' = [loaded EXCEPT ![p] = l]
    PROVE  /\ LoadTypes' /\ loaded'[p] = l
           /\ \A q \in DbcProcesses \ {p} : loaded'[q] = loaded[q]
<1>1. DOMAIN loaded = DbcProcesses
  BY DEF LoadTypes
<1>2. /\ DOMAIN loaded' = DbcProcesses
      /\ \A q \in DbcProcesses : loaded'[q] = IF q = p THEN l ELSE loaded[q]
      /\ loaded' = [q \in DbcProcesses |-> loaded'[q]]
  BY <1>1
<1>3. \A q \in DbcProcesses : IsLoad(loaded'[q])
  BY <1>2 DEF LoadTypes
<1>q. QED BY <1>2, <1>3 DEF LoadTypes, IsLoad

(* The end of a command.                                                   *)
LEMMA ExitLoads ==
    ASSUME DbcInv, ExportInv, NEW p \in DbcProcesses, D!Exit(p)
    PROVE  /\ LoadTypes' /\ ExportInHand(p)'
           /\ \A q \in DbcProcesses \ {p} : SameExport(q)
<1>1. /\ dpc'[p] = "idle" /\ next'[p] = 0
      /\ \A q \in DbcProcesses \ {p} : SameImport(q)
  BY DbcExitEffect
<1>2. loaded' = [loaded EXCEPT ![p] = D!Nothing]
  BY DEF D!Exit
<1>3. IsLoad(D!Nothing)
  BY DEF IsLoad, D!Nothing
<1>4. LoadTypes
  BY DEF ExportInv
<1>5. /\ LoadTypes' /\ loaded'[p] = D!Nothing
      /\ \A q \in DbcProcesses \ {p} : loaded'[q] = loaded[q]
  BY <1>2, <1>3, <1>4, NextLoad
<1>6. ExportInHand(p)'
  BY <1>1, <1>5 DEF ExportInHand, Selecting
<1>q. QED BY <1>1, <1>5, <1>6 DEF SameExport, SameImport

LEMMA SameCopy ==
    ASSUME CopyGrows, UNCHANGED <<ddb, dwork, writer>> PROVE CopyGrows'
BY DEF CopyGrows, Grows

LEMMA SameOutput ==
    ASSUME OutputInv, UNCHANGED output PROVE OutputInv'
BY DEF OutputInv, PartOf

LEMMA QuietEnd ==
    ASSUME DbcInv, ExportInv, NEW p \in DbcProcesses, D!Exit(p),
           UNCHANGED <<ddb, dwork, writer, overtaken, output>>
    PROVE  ExportInv'
<1>1. /\ LoadTypes' /\ ExportInHand(p)'
      /\ \A q \in DbcProcesses \ {p} : SameExport(q)
  BY ExitLoads
<1>2. CopyGrows' /\ OutputInv'
  BY SameCopy, SameOutput DEF ExportInv
<1>q. QED BY <1>1, <1>2, QuietExport

LEMMA GiveUp ==
    ASSUME DbcInv, ExportInv, NEW p \in DbcProcesses, D!Exit(p), D!RollBack,
           UNCHANGED <<overtaken, output>>
    PROVE  ExportInv'
<1>1. /\ LoadTypes' /\ ExportInHand(p)'
      /\ \A q \in DbcProcesses \ {p} : SameExport(q)
  BY ExitLoads
<1>2. writer' = None /\ ddb' = ddb
  BY DEF D!RollBack, D!Release
<1>3. CopyGrows'
  BY <1>2, ProcessesAssumption DEF CopyGrows
<1>4. OutputInv'
  BY SameOutput DEF ExportInv
<1>q. QED BY <1>1, <1>2, <1>3, <1>4, QuietExport

(* Steps that load nothing: what the process p is at is no export.         *)
LEMMA NoLoad ==
    ASSUME DbcInv, ExportInv, NEW p \in DbcProcesses,
           NEW l \in DbcLabels, dpc' = [dpc EXCEPT ![p] = l],
           UNCHANGED <<ddb, loaded, output>>,
           overtaken' \in {overtaken, overtaken \ {p}},
           \A q \in DbcProcesses \ {p} : source'[q] = source[q] /\ next'[q] = next[q],
           l \in {"begin", "messages"} \/
           (l \in {"import", "export"} /\ dpc[p] = "idle" /\ next' = next),
           CopyGrows'
    PROVE  ExportInv'
<1>1. dpc'[p] = l /\ \A q \in DbcProcesses \ {p} : dpc'[q] = dpc[q]
  BY DEF DbcInv, DbcTypes, DbcProcessTypes
<1>2. \A q \in DbcProcesses \ {p} : SameExport(q)
  BY <1>1 DEF SameExport
<1>3. LoadTypes' /\ OutputInv'
  BY SameOutput DEF ExportInv, LoadTypes, IsLoad
<1>4. l = "export" => loaded'[p] = D!Nothing /\ next'[p] = 0
  BY DEF ExportInv, ExportInHand, DbcInv, ImportInHand
<1>5. ExportInHand(p)'
  BY <1>1, <1>4 DEF ExportInHand, Selecting
<1>q. QED BY <1>2, <1>3, <1>5, QuietExport

LEMMA StartReads ==
    ASSUME DbcInv, ExportInv, NEW p \in DbcProcesses, D!Start(p)
    PROVE  ExportInv'
<1>1. PICK c \in D!Commands : dpc' = [dpc EXCEPT ![p] = c.op]
  BY DEF D!Start, D!GoTo
<1>2. /\ dpc[p] = "idle" /\ overtaken' = overtaken \ {p}
      /\ UNCHANGED <<ddb, dwork, writer, source, next, loaded, output>>
  BY DEF D!Start, D!At, D!store
<1>3. c.op \in {"import", "export"} /\ c.op \in DbcLabels
  BY DEF D!Commands, DbcLabels
<1>4. CopyGrows'
  BY <1>2, SameCopy DEF ExportInv
<1>q. QED BY <1>1, <1>2, <1>3, <1>4, NoLoad

LEMMA ImportCheckReads ==
    ASSUME DbcInv, ExportInv, NEW p \in DbcProcesses, D!ImportCheck(p)
    PROVE  ExportInv'
<1>1. UNCHANGED <<ddb, dwork, writer, overtaken, output>>
  BY DEF D!ImportCheck, D!store
<1>2. CASE D!Exit(p)
  BY <1>1, <1>2, QuietEnd
<1>3. CASE ~D!Exit(p)
  <2>1. /\ dpc' = [dpc EXCEPT ![p] = "begin"] /\ UNCHANGED <<next, loaded>>
        /\ \A q \in DbcProcesses \ {p} : source'[q] = source[q]
    BY <1>3 DEF D!ImportCheck, D!GoTo, DbcInv, DbcTypes, DbcProcessTypes
  <2>2. CopyGrows' /\ "begin" \in DbcLabels
    BY <1>1, SameCopy DEF ExportInv, DbcLabels
  <2>q. QED BY <1>1, <2>1, <2>2, NoLoad
<1>q. QED BY <1>2, <1>3

LEMMA ImportBeginReads ==
    ASSUME DbcInv, ExportInv, NEW p \in DbcProcesses, D!ImportBegin(p)
    PROVE  ExportInv'
<1> DEFINE d == IF source[p] = None THEN ddb ELSE D!DeleteSource(ddb, source[p])
           id == d.last["sources"] + 1
<1>1. dpc[p] = "begin" /\ UNCHANGED <<overtaken, output>>
  BY DEF D!ImportBegin, D!At, D!history
<1>2. CASE D!Exit(p) /\ UNCHANGED D!store
  BY <1>1, <1>2, QuietEnd DEF D!store
<1>3. CASE ~(D!Exit(p) /\ UNCHANGED D!store)
  <2>1. /\ dwork' = D!InsertSource(d, id, dcommand[p].name, dcommand[p].file)
        /\ source' = [source EXCEPT ![p] = id]
        /\ dpc' = [dpc EXCEPT ![p] = "messages"]
        /\ UNCHANGED <<ddb, next, loaded>>
    BY <1>3 DEF D!ImportBegin, D!NextKey, D!GoTo
  <2>2. Sound(d)
    BY <1>1, ClearedSource
  <2>3. Sound(ddb)
    BY DEF DbcInv
  <2>4. Grows(ddb, d)
    BY <2>3, GrowsSelf, DeleteGrows
  <2> HIDE DEF d
  <2>5. Grows(ddb, dwork')
    BY <2>1, <2>2, <2>3, <2>4, InsertSourceGrows
  <2>6. CopyGrows'
    BY <2>1, <2>5 DEF CopyGrows, Grows
  <2>7. \A q \in DbcProcesses \ {p} : source'[q] = source[q]
    BY <2>1 DEF DbcInv, DbcTypes, DbcProcessTypes
  <2>q. QED BY <1>1, <2>1, <2>6, <2>7, NoLoad DEF DbcLabels
<1>q. QED BY <1>2, <1>3

LEMMA ImportMessageReads ==
    ASSUME DbcInv, ExportInv, NEW p \in DbcProcesses, D!ImportMessage(p)
    PROVE  ExportInv'
<1> DEFINE f == dcommand[p].file
           i == next[p] + 1
<1>1. dpc[p] = "messages" /\ UNCHANGED <<overtaken, output>>
  BY DEF D!ImportMessage, D!At, D!history
<1>2. writer = p /\ CopyInv(p)
  BY <1>1, InsertingSource
<1>3. CASE D!Exit(p) /\ D!RollBack
  BY <1>1, <1>3, GiveUp
<1>4. CASE ~(D!Exit(p) /\ D!RollBack)
  <2>1. /\ dwork' = D!InsertMessage(dwork, source[p], i, f)
        /\ next' = [next EXCEPT ![p] = i]
        /\ UNCHANGED <<ddb, writer, dpc, source, loaded>>
    BY <1>4 DEF D!ImportMessage
  <2> HIDE DEF i, f
  <2>2. Sound(ddb) /\ Sound(dwork) /\ Grows(ddb, dwork)
    BY <1>2 DEF DbcInv, CopyInv, ExportInv, CopyGrows
  <2>3. Grows(ddb, dwork')
    BY <2>1, <2>2, InsertMessageGrows
  <2>4. CopyGrows'
    BY <2>1, <2>3 DEF CopyGrows, Grows
  <2>5. dpc' = [dpc EXCEPT ![p] = "messages"]
        /\ \A q \in DbcProcesses \ {p} : next'[q] = next[q]
    BY <1>1, <2>1 DEF DbcInv, DbcTypes, DbcProcessTypes
  <2>q. QED BY <1>1, <2>1, <2>4, <2>5, NoLoad DEF DbcLabels
<1>q. QED BY <1>3, <1>4

LEMMA ImportCommitReads ==
    ASSUME DbcInv, ExportInv, NEW p \in DbcProcesses, D!ImportCommit(p)
    PROVE  ExportInv'
<1>1. writer = p /\ D!Exit(p) /\ writer' = None /\ Sound(ddb')
  BY CommitEffect
<1>2. /\ LoadTypes' /\ ExportInHand(p)'
      /\ \A q \in DbcProcesses \ {p} : SameExport(q)
  BY <1>1, ExitLoads
<1>3. Sound(ddb) /\ Sound(dwork) /\ Grows(ddb, dwork)
  BY <1>1 DEF DbcInv, CopyInv, ExportInv, CopyGrows
<1>4. ddb' = [dwork EXCEPT !.passthrough =
                @ \cup {[source |-> source[p], file |-> dcommand[p].file]}]
      /\ UNCHANGED output /\ D!NoteReplaced(dwork)
  BY DEF D!ImportCommit
<1>5. Grows(ddb, ddb') /\ ddb'.sources = dwork.sources
  <2>1. Grows(ddb, ddb')
    BY <1>3, <1>4, AttachGrows
  <2>2. ddb'.sources = dwork.sources
    BY <1>3, <1>4 DEF Sound, Typed
  <2>q. QED BY <2>1, <2>2
<1>6. ASSUME NEW q \in DbcProcesses PROVE ExportInHand(q)'
  <2>1. CASE q = p
    BY <1>2, <2>1
  <2>2. CASE q # p
    <3>1. SameExport(q) /\ ExportInHand(q)
      BY <1>2, <2>2 DEF ExportInv
    <3>2. q \notin overtaken' => q \notin overtaken
      BY <1>4 DEF D!NoteReplaced
    <3>3. ASSUME dpc[q] \in Selecting, q \notin overtaken'
          PROVE  \E r \in ddb'.sources : r.id = source[q]
      BY <1>4, <1>5, <3>3 DEF D!NoteReplaced, Selecting
    <3>q. QED BY <1>1, <1>3, <1>5, <3>1, <3>2, <3>3, OthersGo
  <2>q. QED BY <2>1, <2>2
<1>7. CopyGrows' /\ OutputInv'
  BY <1>1, <1>4, SameOutput, ProcessesAssumption DEF ExportInv, CopyGrows
<1>q. QED BY <1>2, <1>6, <1>7 DEF ExportInv

-----------------------------------------------------------------------------
(* The SELECTs.                                                            *)

(* A step of an export that goes on with the load l at the label k.        *)
LEMMA SelectGoesOn ==
    ASSUME DbcInv, ExportInv, NEW p \in DbcProcesses,
           NEW k \in DbcLabels, NEW l, D!GoTo(p, k), IsLoad(l),
           loaded' = [loaded EXCEPT ![p] = l],
           UNCHANGED <<ddb, dwork, writer, overtaken, output>>,
           \A q \in DbcProcesses \ {p} : source'[q] = source[q] /\ next'[q] = next[q],
           dpc'[p] = k /\ loaded'[p] = l => ExportInHand(p)'
    PROVE  ExportInv'
<1>1. dpc'[p] = k /\ \A q \in DbcProcesses \ {p} : dpc'[q] = dpc[q]
  BY DEF D!GoTo, DbcInv, DbcTypes, DbcProcessTypes
<1>2. LoadTypes /\ CopyGrows /\ OutputInv
  BY DEF ExportInv
<1>3. /\ LoadTypes' /\ loaded'[p] = l
      /\ \A q \in DbcProcesses \ {p} : loaded'[q] = loaded[q]
  BY <1>2, NextLoad
<1>4. \A q \in DbcProcesses \ {p} : SameExport(q)
  BY <1>1, <1>3 DEF SameExport
<1>5. CopyGrows' /\ OutputInv'
  BY <1>2, SameCopy, SameOutput
<1>q. QED BY <1>1, <1>3, <1>4, <1>5, QuietExport

LEMMA ExportSourceReads ==
    ASSUME DbcInv, ExportInv, NEW p \in DbcProcesses, D!ExportSource(p)
    PROVE  ExportInv'
<1>1. dpc[p] = "export" /\ UNCHANGED <<ddb, dwork, writer, overtaken, output>>
  BY DEF D!ExportSource, D!At, D!store, D!history
<1>2. CASE D!Exit(p)
  BY <1>1, <1>2, QuietEnd
<1>3. CASE ~D!Exit(p)
  <2>1. PICK r \in ddb.sources :
          /\ source' = [source EXCEPT ![p] = r.id]
          /\ loaded' = [loaded EXCEPT ![p].header = {r.file}]
          /\ D!GoTo(p, "nodes") /\ next' = next
    BY <1>3 DEF D!ExportSource, D!Named
  <2> DEFINE f == r.file
             l == [header |-> {f}, messages |-> {}, signals |-> {},
                   values |-> {}, passthrough |-> {}]
  <2>2. loaded[p] = D!Nothing /\ next[p] = 0 /\ next'[p] = 0
    BY <1>1, <2>1 DEF ExportInv, ExportInHand
  <2>3. loaded' = [loaded EXCEPT ![p] = l]
    <3>1. loaded' = [loaded EXCEPT ![p] = [loaded[p] EXCEPT !.header = {f}]]
      BY <2>1
    <3>2. [loaded[p] EXCEPT !.header = {f}] = l
      BY <2>2 DEF D!Nothing
    <3>q. QED BY <3>1, <3>2
  <2>4. /\ IsLoad(l) /\ l.header = {f} /\ l.messages = {} /\ l.signals = {}
        /\ l.values = {} /\ l.passthrough = {}
    BY DEF IsLoad
  <2>5. source'[p] = r.id
        /\ \A q \in DbcProcesses \ {p} : source'[q] = source[q]
    BY <2>1 DEF DbcInv, DbcTypes, DbcProcessTypes
  <2>6. f \in Files /\ Messages[f] \in Nat
    BY FilesAssumption DEF DbcInv, Sound, Typed, Sources
  <2> HIDE DEF l
  <2>7. ASSUME dpc'[p] = "nodes", loaded'[p] = l PROVE Reads(p, f)'
    <3>1. SourceSeen(p, f)'
      BY <1>1, <2>5 DEF SourceSeen, DbcInv, Sound, Keyed
    <3>2. MessagesSeen(p, f)' /\ SignalsSeen(p, f)'
      BY <2>4, <2>7 DEF MessagesSeen, SignalsSeen
    <3>3. NothingMissed(p, f)'
      BY <2>2, <2>7 DEF NothingMissed
    <3>q. QED BY <2>2, <2>4, <2>6, <2>7, <3>1, <3>2, <3>3 DEF Reads
  <2>8. dpc'[p] = "nodes" /\ loaded'[p] = l => ExportInHand(p)'
    BY <2>6, <2>7 DEF ExportInHand
  <2>q. QED BY <1>1, <2>1, <2>3, <2>4, <2>5, <2>8, SelectGoesOn DEF DbcLabels
<1>q. QED BY <1>2, <1>3

(* What an export has in hand at a SELECT.                                 *)
LEMMA InExport ==
    ASSUME DbcInv, ExportInv, NEW p \in DbcProcesses, dpc[p] \in Selecting
    PROVE  /\ \E f \in Files : Reads(p, f)
           /\ LoadTypes /\ IsLoad(loaded[p]) /\ DOMAIN loaded = DbcProcesses
           /\ next[p] \in Nat
BY DEF ExportInv, ExportInHand, LoadTypes, DbcInv, DbcTypes, DbcProcessTypes

(* Rows of the source that is read are of its file.                        *)
LEMMA RowsRead ==
    ASSUME DbcInv, NEW p \in DbcProcesses, NEW f \in Files, SourceSeen(p, f)
    PROVE  /\ \A x \in ddb.nodes \cup ddb.passthrough :
                x.source = source[p] => x.file = f
           /\ \A m \in ddb.messages : m.source = source[p] =>
                m.file = f /\ m.ordinal \in 1 .. Messages[f]
           /\ \A s \in ddb.signals : \A m \in ddb.messages :
                m.id = s.message /\ m.source = source[p] => s.file = f
<1>1. \A x \in ddb.nodes \cup ddb.passthrough : x.source = source[p] => x.file = f
  BY DEF DbcInv, Sound, Owned, SourceSeen
<1>2. \A m \in ddb.messages : m.source = source[p] =>
        m.file = f /\ m.ordinal \in 1 .. Messages[f]
  BY DEF DbcInv, Sound, Owned, SourceSeen
<1>3. ASSUME NEW s \in ddb.signals, NEW m \in ddb.messages,
             m.id = s.message, m.source = source[p]
      PROVE  s.file = f
  <2>1. PICK n \in ddb.messages : s.message = n.id /\ s.file = n.file
    BY DEF DbcInv, Sound, Owned
  <2>2. n = m
    BY <1>3, <2>1 DEF DbcInv, Sound, Keyed
  <2>q. QED BY <1>2, <1>3, <2>1, <2>2
<1>q. QED BY <1>1, <1>2, <1>3

(* The parts of a load, one replaced.                                      *)
LEMMA OnePart ==
    ASSUME NEW l, IsLoad(l), NEW x
    PROVE  /\ [l EXCEPT !.header = x] =
              [header |-> x, messages |-> l.messages, signals |-> l.signals,
               values |-> l.values, passthrough |-> l.passthrough]
           /\ [l EXCEPT !.messages = x] =
              [header |-> l.header, messages |-> x, signals |-> l.signals,
               values |-> l.values, passthrough |-> l.passthrough]
           /\ [l EXCEPT !.signals = x] =
              [header |-> l.header, messages |-> l.messages, signals |-> x,
               values |-> l.values, passthrough |-> l.passthrough]
           /\ [l EXCEPT !.values = x] =
              [header |-> l.header, messages |-> l.messages,
               signals |-> l.signals, values |-> x,
               passthrough |-> l.passthrough]
<1> DEFINE h == l.header
           m == l.messages
           s == l.signals
           v == l.values
           t == l.passthrough
<1>1. l = [header |-> h, messages |-> m, signals |-> s, values |-> v, passthrough |-> t]
  BY DEF IsLoad
<1> HIDE DEF h, m, s, v, t
<1>2. [l EXCEPT !.header = x] =
        [header |-> x, messages |-> m, signals |-> s, values |-> v, passthrough |-> t]
  BY <1>1
<1>3. [l EXCEPT !.messages = x] =
        [header |-> h, messages |-> x, signals |-> s, values |-> v, passthrough |-> t]
  BY <1>1
<1>4. [l EXCEPT !.signals = x] =
        [header |-> h, messages |-> m, signals |-> x, values |-> v, passthrough |-> t]
  BY <1>1
<1>5. [l EXCEPT !.values = x] =
        [header |-> h, messages |-> m, signals |-> s, values |-> x, passthrough |-> t]
  BY <1>1
<1>q. QED BY <1>2, <1>3, <1>4, <1>5 DEF h, m, s, v, t

LEMMA ExportNodesReads ==
    ASSUME DbcInv, ExportInv, NEW p \in DbcProcesses, D!ExportNodes(p)
    PROVE  ExportInv'
<1> DEFINE files == {r.file : r \in {x \in ddb.nodes : x.source = source[p]}}
           o == loaded[p]
           l == [header |-> o.header \cup files, messages |-> o.messages,
                 signals |-> o.signals, values |-> o.values,
                 passthrough |-> o.passthrough]
<1>1. /\ dpc[p] = "nodes" /\ dpc[p] \in Selecting
      /\ loaded' = [loaded EXCEPT ![p].header = o.header \cup files]
      /\ D!GoTo(p, "listing") /\ UNCHANGED <<source, next>>
      /\ UNCHANGED <<ddb, dwork, writer, overtaken, output>>
  BY DEF D!ExportNodes, D!At, D!store, D!history, Selecting
<1>2. IsLoad(o) /\ DOMAIN loaded = DbcProcesses
  BY <1>1, InExport
<1>3. PICK f \in Files : Reads(p, f)
  BY <1>1, InExport
<1>4. files \subseteq {f}
  BY <1>3, RowsRead DEF Reads
<1>5. loaded' = [loaded EXCEPT ![p] = l]
  <2>1. loaded' = [loaded EXCEPT ![p] = [o EXCEPT !.header = o.header \cup files]]
    BY <1>1
  <2>2. [o EXCEPT !.header = o.header \cup files] = l
    BY <1>2, OnePart
  <2>q. QED BY <2>1, <2>2
<1>6. /\ IsLoad(l) /\ l.header = {f} /\ l.messages = {} /\ l.signals = {}
      /\ l.values = {} /\ l.passthrough = {} /\ next[p] = 0
  BY <1>1, <1>3, <1>4 DEF IsLoad, Reads
<1> HIDE DEF l, o
<1>7. ASSUME dpc'[p] = "listing", loaded'[p] = l PROVE Reads(p, f)'
  <2>1. SourceSeen(p, f)'
    BY <1>1, <1>3 DEF Reads, SourceSeen
  <2>2. MessagesSeen(p, f)' /\ SignalsSeen(p, f)'
    BY <1>6, <1>7 DEF MessagesSeen, SignalsSeen
  <2>3. NothingMissed(p, f)'
    BY <1>1, <1>6, <1>7 DEF NothingMissed
  <2>q. QED BY <1>1, <1>3, <1>6, <1>7, <2>1, <2>2, <2>3 DEF Reads
<1>8. dpc'[p] = "listing" /\ loaded'[p] = l => ExportInHand(p)'
  BY <1>7 DEF ExportInHand
<1>q. QED BY <1>1, <1>5, <1>6, <1>8, SelectGoesOn DEF DbcLabels

LEMMA ExportListingReads ==
    ASSUME DbcInv, ExportInv, NEW p \in DbcProcesses, D!ExportListing(p)
    PROVE  ExportInv'
<1> DEFINE listed == {r \in ddb.messages : r.source = source[p]}
           keys == {<<r.file, r.ordinal, r.id>> : r \in listed}
           o == loaded[p]
           l == [header |-> o.header, messages |-> keys, signals |-> o.signals,
                 values |-> o.values, passthrough |-> o.passthrough]
<1>1. /\ dpc[p] = "listing" /\ dpc[p] \in Selecting
      /\ loaded' = [loaded EXCEPT ![p].messages = keys]
      /\ D!GoTo(p, "reading") /\ UNCHANGED <<source, next>>
      /\ UNCHANGED <<ddb, dwork, writer, overtaken, output>>
  BY DEF D!ExportListing, D!At, D!store, D!history, Selecting
<1>2. IsLoad(o)
  BY <1>1, InExport
<1>3. PICK f \in Files : Reads(p, f)
  BY <1>1, InExport
<1>4. loaded' = [loaded EXCEPT ![p] = l]
  <2>1. loaded' = [loaded EXCEPT ![p] = [o EXCEPT !.messages = keys]]
    BY <1>1
  <2>2. [o EXCEPT !.messages = keys] = l
    BY <1>2, OnePart
  <2>q. QED BY <2>1, <2>2
<1>5. /\ IsLoad(l) /\ l.header = {f} /\ l.messages = keys /\ l.signals = {}
      /\ l.values = {} /\ l.passthrough = {} /\ next[p] = 0
      /\ next[p] <= Messages[f]
  BY <1>1, <1>3 DEF IsLoad, Reads
<1>6. SourceSeen(p, f) /\ Sound(ddb)
  BY <1>3 DEF Reads, DbcInv
<1>7. \A r \in listed : r.file = f /\ r.ordinal \in 1 .. Messages[f]
  BY <1>6, RowsRead
<1>8. \A r \in listed : r.id \in 1 .. ddb.last["messages"]
        /\ \A x \in ddb.messages : x.id = r.id => x.source = source[p]
  BY <1>6 DEF Sound, Keyed
<1>9. p \notin overtaken => \A i \in 1 .. Messages[f] : \E r \in listed : r.ordinal = i
  BY <1>6 DEF SourceSeen, DbcInv, Complete, HasMessages
<1>10. \A m \in keys :
         /\ m[1] = f /\ m[2] \in 1 .. Messages[f]
         /\ m[3] \in 1 .. ddb.last["messages"]
         /\ \A x \in ddb.messages : x.id = m[3] => x.source = source[p]
         /\ \E x \in ddb.messages : x.id = m[3]
  BY <1>7, <1>8
<1>11. p \notin overtaken => \A i \in 1 .. Messages[f] : \E m \in keys : m[2] = i
  <2>1. ASSUME p \notin overtaken, NEW i \in 1 .. Messages[f]
        PROVE  \E m \in keys : m[2] = i
    <3>1. PICK r \in listed : r.ordinal = i
      BY <1>9, <2>1
    <3>2. <<r.file, r.ordinal, r.id>> \in keys
      OBVIOUS
    <3>3. <<r.file, r.ordinal, r.id>>[2] = i
      BY <3>1
    <3>q. QED BY <3>2, <3>3
  <2>q. QED BY <2>1
<1> HIDE DEF l, o, keys, listed
<1>12. ASSUME dpc'[p] = "reading", loaded'[p] = l PROVE Reads(p, f)'
  <2>1. SourceSeen(p, f)'
    BY <1>1, <1>6 DEF SourceSeen
  <2>2. MessagesSeen(p, f)'
    BY <1>1, <1>5, <1>10, <1>12 DEF MessagesSeen
  <2>3. SignalsSeen(p, f)'
    BY <1>5, <1>12 DEF SignalsSeen
  <2>4. p \notin overtaken' => NothingMissed(p, f)'
    BY <1>1, <1>5, <1>11, <1>12 DEF NothingMissed
  <2>q. QED BY <1>1, <1>5, <1>12, <2>1, <2>2, <2>3, <2>4 DEF Reads
<1>13. dpc'[p] = "reading" /\ loaded'[p] = l => ExportInHand(p)'
  BY <1>12 DEF ExportInHand
<1>q. QED BY <1>1, <1>4, <1>5, <1>13, SelectGoesOn DEF DbcLabels

LEMMA ExportSignalsReads ==
    ASSUME DbcInv, ExportInv, NEW p \in DbcProcesses, D!ExportSignals(p)
    PROVE  ExportInv'
<1> DEFINE i == next[p] + 1
           current == {m \in loaded[p].messages : m[2] = i}
           signalsOf(m) == {r \in ddb.signals : r.message = m[3]}
           hits == UNION {signalsOf(m) : m \in current}
           keys == {<<r.file, i, r.id>> : r \in hits}
           o == loaded[p]
           l == [header |-> o.header, messages |-> o.messages,
                 signals |-> o.signals \cup keys,
                 values |-> o.values, passthrough |-> o.passthrough]
<1>1. /\ dpc[p] = "reading" /\ dpc[p] \in Selecting /\ current # {}
      /\ loaded' = [loaded EXCEPT ![p].signals = o.signals \cup keys]
      /\ next' = [next EXCEPT ![p] = i]
      /\ D!GoTo(p, "values") /\ UNCHANGED source
      /\ UNCHANGED <<ddb, dwork, writer, overtaken, output>>
  BY DEF D!ExportSignals, D!At, D!store, D!history, Selecting
<1>2. IsLoad(o) /\ next[p] \in Nat
  BY <1>1, InExport
<1>3. PICK f \in Files : Reads(p, f)
  BY <1>1, InExport
<1>4. loaded' = [loaded EXCEPT ![p] = l]
  <2>1. loaded' = [loaded EXCEPT ![p] = [o EXCEPT !.signals = o.signals \cup keys]]
    BY <1>1
  <2>2. [o EXCEPT !.signals = o.signals \cup keys] = l
    BY <1>2, OnePart
  <2>q. QED BY <2>1, <2>2
<1>5. /\ IsLoad(l) /\ l.header = o.header /\ l.messages = o.messages
      /\ l.signals = o.signals \cup keys
      /\ l.values = o.values /\ l.passthrough = o.passthrough
  BY DEF IsLoad
<1>6. SourceSeen(p, f) /\ Sound(ddb) /\ MessagesSeen(p, f) /\ SignalsSeen(p, f)
  BY <1>3 DEF Reads, DbcInv
<1>7. /\ next'[p] = i /\ \A q \in DbcProcesses \ {p} : next'[q] = next[q]
  BY <1>1 DEF DbcInv, DbcTypes, DbcProcessTypes
<1>8. i \in 1 .. Messages[f] /\ i \in Nat /\ i <= Messages[f]
  <2>1. PICK m \in current : TRUE
    BY <1>1
  <2>2. m[2] = i /\ m[2] \in 1 .. Messages[f]
    BY <1>6, <2>1 DEF MessagesSeen
  <2>q. QED BY <1>2, <2>2, FilesAssumption
<1>9. ASSUME NEW r \in hits
      PROVE  /\ r.file = f /\ r \in ddb.signals
             /\ \A y \in ddb.messages : y.id = r.message => y.source = source[p]
  <2>1. PICK m \in current : r \in ddb.signals /\ r.message = m[3]
    BY <1>9
  <2>2. \A y \in ddb.messages : y.id = r.message => y.source = source[p]
    BY <1>6, <2>1 DEF MessagesSeen
  <2>3. \E y \in ddb.messages : y.id = r.message
    BY <1>6, <2>1 DEF Sound, Owned
  <2>q. QED BY <1>6, <2>1, <2>2, <2>3, RowsRead
<1>10. p \notin overtaken => hits # {}
  <2>1. SUFFICES ASSUME p \notin overtaken PROVE hits # {}
    OBVIOUS
  <2>2. PICK m \in current : TRUE
    BY <1>1
  <2>3. PICK x \in ddb.messages : x.id = m[3]
    BY <1>6, <2>1, <2>2 DEF MessagesSeen
  <2>4. PICK s \in ddb.signals : s.message = m[3]
    BY <1>6, <2>3 DEF Sound, Filled
  <2>5. s \in signalsOf(m)
    BY <2>4
  <2>q. QED BY <2>2, <2>5
<1> HIDE DEF hits
<1>11. \A s \in keys :
         /\ s[1] = f /\ s[2] = i
         /\ s[3] \in 1 .. ddb.last["signals"]
         /\ \A x \in ddb.signals : \A y \in ddb.messages :
              x.id = s[3] /\ y.id = x.message => y.source = source[p]
         /\ \E x \in ddb.signals : x.id = s[3]
  <2>1. ASSUME NEW r \in hits
        PROVE  /\ r.file = f /\ r.id \in 1 .. ddb.last["signals"]
               /\ \A x \in ddb.signals : \A y \in ddb.messages :
                    x.id = r.id /\ y.id = x.message => y.source = source[p]
               /\ \E x \in ddb.signals : x.id = r.id
    <3>1. \A x \in ddb.signals : x.id = r.id => x = r
      BY <1>6, <1>9, <2>1 DEF Sound, Keyed
    <3>q. QED BY <1>6, <1>9, <2>1, <3>1 DEF Sound, Keyed
  <2>q. QED BY <2>1
<1>12. p \notin overtaken => \E s \in keys : s[2] = i
  <2>1. ASSUME NEW r \in hits PROVE \E s \in keys : s[2] = i
    <3>1. <<r.file, i, r.id>> \in keys /\ <<r.file, i, r.id>>[2] = i
      BY <2>1
    <3>q. QED BY <3>1
  <2>q. QED BY <1>10, <2>1
<1> HIDE DEF l, o, keys, current, i
<1>13. ASSUME dpc'[p] = "values", loaded'[p] = l PROVE Reads(p, f)'
  <2>1. SourceSeen(p, f)'
    BY <1>1, <1>6 DEF SourceSeen
  <2>2. MessagesSeen(p, f)'
    BY <1>1, <1>5, <1>6, <1>13 DEF MessagesSeen, o
  <2>3. SignalsSeen(p, f)'
    <3>1. \A s \in o.signals :
            /\ s[1] = f /\ s[2] \in 1 .. Messages[f]
            /\ s[3] \in 1 .. ddb.last["signals"]
            /\ \A x \in ddb.signals : \A y \in ddb.messages :
                 x.id = s[3] /\ y.id = x.message => y.source = source[p]
            /\ p \notin overtaken => \E x \in ddb.signals : x.id = s[3]
      BY <1>6 DEF SignalsSeen, o
    <3>q. QED BY <1>1, <1>5, <1>8, <1>11, <1>13, <3>1 DEF SignalsSeen
  <2>4. p \notin overtaken' => NothingMissed(p, f)'
    <3>1. SUFFICES ASSUME p \notin overtaken PROVE NothingMissed(p, f)'
      BY <1>1
    <3>2. NothingMissed(p, f)
      BY <1>3, <3>1 DEF Reads
    <3>3. \A j \in 1 .. i : j = i \/ j \in 1 .. next[p]
      BY <1>2, <1>8 DEF i
    <3>4. \A j \in 1 .. Messages[f] : \E m \in l.messages : m[2] = j
      BY <1>1, <1>5, <3>2 DEF NothingMissed, o
    <3>5. \A j \in 1 .. i : \E s \in l.signals : s[2] = j
      BY <1>5, <1>12, <3>1, <3>2, <3>3 DEF NothingMissed, o
    <3>6. \A j \in 1 .. i : <<f, j>> \in l.values \/ j = i
      BY <1>1, <1>5, <3>2, <3>3 DEF NothingMissed, o
    <3>q. QED BY <1>7, <1>13, <3>4, <3>5, <3>6 DEF NothingMissed
  <2>q. QED
    BY <1>1, <1>3, <1>5, <1>7, <1>8, <1>13, <2>1, <2>2, <2>3, <2>4 DEF Reads, o
<1>14. dpc'[p] = "values" /\ loaded'[p] = l => ExportInHand(p)'
  BY <1>13 DEF ExportInHand
<1>q. QED BY <1>1, <1>4, <1>5, <1>7, <1>14, SelectGoesOn DEF DbcLabels

LEMMA ExportValuesReads ==
    ASSUME DbcInv, ExportInv, NEW p \in DbcProcesses, D!ExportValues(p)
    PROVE  ExportInv'
<1> DEFINE i == next[p]
           o == loaded[p]
           current == {s \in o.signals : s[2] = i}
           valuesOf(s) == {r \in ddb.values : r.signal = s[3]}
           hits == UNION {valuesOf(s) : s \in current}
           read == {<<r.file, i>> : r \in hits}
           l == [header |-> o.header, messages |-> o.messages,
                 signals |-> o.signals, values |-> o.values \cup read,
                 passthrough |-> o.passthrough]
<1>1. /\ dpc[p] = "values" /\ dpc[p] \in Selecting
      /\ loaded' = [loaded EXCEPT ![p].values = o.values \cup read]
      /\ D!GoTo(p, "reading") /\ UNCHANGED <<source, next>>
      /\ UNCHANGED <<ddb, dwork, writer, overtaken, output>>
  BY DEF D!ExportValues, D!At, D!store, D!history, Selecting
<1>2. IsLoad(o) /\ next[p] \in Nat
  BY <1>1, InExport
<1>3. PICK f \in Files : Reads(p, f)
  BY <1>1, InExport
<1>4. loaded' = [loaded EXCEPT ![p] = l]
  <2>1. loaded' = [loaded EXCEPT ![p] = [o EXCEPT !.values = o.values \cup read]]
    BY <1>1
  <2>2. [o EXCEPT !.values = o.values \cup read] = l
    BY <1>2, OnePart
  <2>q. QED BY <2>1, <2>2
<1>5. /\ IsLoad(l) /\ l.header = o.header /\ l.messages = o.messages
      /\ l.signals = o.signals /\ l.values = o.values \cup read
      /\ l.passthrough = o.passthrough
  BY DEF IsLoad
<1>6. SourceSeen(p, f) /\ Sound(ddb) /\ MessagesSeen(p, f) /\ SignalsSeen(p, f)
  BY <1>3 DEF Reads, DbcInv
<1>7. ASSUME NEW r \in hits PROVE r.file = f /\ i \in 1 .. Messages[f]
  <2>1. PICK s \in current : r \in ddb.values /\ r.signal = s[3]
    BY <1>7
  <2>2. PICK x \in ddb.signals : r.signal = x.id /\ r.file = x.file
    BY <1>6, <2>1 DEF Sound, Owned
  <2>3. PICK y \in ddb.messages : x.message = y.id
    BY <1>6 DEF Sound, Owned
  <2>4. y.source = source[p] /\ i \in 1 .. Messages[f]
    BY <1>6, <2>1, <2>2, <2>3 DEF SignalsSeen
  <2>5. x.file = f
    BY <1>6, <2>3, <2>4, RowsRead
  <2>q. QED BY <2>2, <2>4, <2>5
<1>8. p \notin overtaken /\ current # {} => hits # {}
  <2>1. SUFFICES ASSUME p \notin overtaken, NEW s \in current PROVE hits # {}
    OBVIOUS
  <2>2. PICK x \in ddb.signals : x.id = s[3]
    BY <1>6, <2>1 DEF SignalsSeen
  <2>3. PICK v \in ddb.values : v.signal = s[3]
    BY <1>6, <2>2 DEF Sound, Filled
  <2>4. v \in valuesOf(s)
    BY <2>3
  <2>q. QED BY <2>1, <2>4
<1> HIDE DEF hits
<1>9. read \subseteq {<<f, i>>} /\ (hits # {} => <<f, i>> \in read)
  BY <1>7
<1>10. read \subseteq D!Whole(f).values
  <2>1. hits # {} => <<f, i>> \in {<<f, j>> : j \in 1 .. Messages[f]}
    BY <1>7
  <2>2. D!Whole(f).values = {<<f, j>> : j \in 1 .. Messages[f]}
    BY DEF D!Whole
  <2>3. read # {} => hits # {}
    OBVIOUS
  <2>q. QED BY <1>9, <2>1, <2>2, <2>3
<1>11. o.values \subseteq D!Whole(f).values
  BY <1>3 DEF Reads
<1> HIDE DEF l, read, current
<1>12. ASSUME dpc'[p] = "reading", loaded'[p] = l PROVE Reads(p, f)'
  <2>1. SourceSeen(p, f)'
    BY <1>1, <1>6 DEF SourceSeen
  <2>2. MessagesSeen(p, f)'
    BY <1>1, <1>5, <1>6, <1>12 DEF MessagesSeen
  <2>3. SignalsSeen(p, f)'
    BY <1>1, <1>5, <1>6, <1>12 DEF SignalsSeen
  <2>4. p \notin overtaken' => NothingMissed(p, f)'
    <3>1. SUFFICES ASSUME p \notin overtaken PROVE NothingMissed(p, f)'
      BY <1>1
    <3>2. NothingMissed(p, f)
      BY <1>3, <3>1 DEF Reads
    <3>3. \A j \in 1 .. Messages[f] : \E m \in l.messages : m[2] = j
      BY <1>1, <1>5, <3>2 DEF NothingMissed
    <3>4. \A j \in 1 .. next[p] : \E s \in l.signals : s[2] = j
      BY <1>5, <3>2 DEF NothingMissed
    <3>5. ASSUME NEW j \in 1 .. next[p] PROVE <<f, j>> \in l.values
      <4>1. CASE <<f, j>> \in o.values
        BY <1>5, <4>1
      <4>2. CASE j = i
        <5>1. current # {}
          BY <3>4, <4>2, <1>5 DEF current
        <5>q. QED BY <1>5, <1>8, <1>9, <3>1, <4>2, <5>1
      <4>q. QED BY <3>2, <4>1, <4>2 DEF NothingMissed
    <3>q. QED BY <1>1, <1>12, <3>3, <3>4, <3>5 DEF NothingMissed
  <2>5. l.values \subseteq D!Whole(f).values
    BY <1>5, <1>10, <1>11
  <2>q. QED BY <1>1, <1>3, <1>5, <1>12, <2>1, <2>2, <2>3, <2>4, <2>5 DEF Reads
<1>13. dpc'[p] = "reading" /\ loaded'[p] = l => ExportInHand(p)'
  BY <1>12 DEF ExportInHand
<1>q. QED BY <1>1, <1>4, <1>5, <1>13, SelectGoesOn DEF DbcLabels

(* The last SELECT: what was read is of one file, and all of it if the     *)
(* source is still there.                                                  *)
LEMMA ExportPassthroughReads ==
    ASSUME DbcInv, ExportInv, NEW p \in DbcProcesses, D!ExportPassthrough(p)
    PROVE  ExportInv'
<1> DEFINE o == loaded[p]
           files == {r.file : r \in {x \in ddb.passthrough : x.source = source[p]}}
           ms == {<<m[1], m[2]>> : m \in o.messages}
           ss == {<<s[1], s[2]>> : s \in o.signals}
           l == [header |-> o.header, messages |-> ms, signals |-> ss,
                 values |-> o.values, passthrough |-> files]
<1>1. /\ dpc[p] = "reading" /\ dpc[p] \in Selecting
      /\ \A m \in o.messages : m[2] # next[p] + 1
      /\ loaded' = [loaded EXCEPT ![p] = l]
      /\ D!GoTo(p, "checked") /\ UNCHANGED <<source, next>>
      /\ UNCHANGED <<ddb, dwork, writer, overtaken, output>>
  BY DEF D!ExportPassthrough, D!At, D!store, D!history, Selecting
<1>2. next[p] \in Nat
  BY <1>1, InExport
<1>3. PICK f \in Files : Reads(p, f)
  BY <1>1, InExport
<1>4. SourceSeen(p, f) /\ MessagesSeen(p, f) /\ SignalsSeen(p, f)
      /\ o.header = {f} /\ next[p] <= Messages[f] /\ Messages[f] \in Nat
  BY <1>3, FilesAssumption DEF Reads
<1> DEFINE all == {<<f, i>> : i \in 1 .. Messages[f]}
<1>5. /\ D!Whole(f) = [header |-> {f}, messages |-> all, signals |-> all,
                       values |-> all, passthrough |-> {f}]
      /\ D!Whole(f).messages = all /\ D!Whole(f).signals = all
      /\ D!Whole(f).values = all
  BY DEF D!Whole
<1>6. ms \subseteq all /\ ss \subseteq all /\ o.values \subseteq all
  <2>1. \A m \in o.messages : m[1] = f /\ m[2] \in 1 .. Messages[f]
    BY <1>4 DEF MessagesSeen
  <2>2. \A s \in o.signals : s[1] = f /\ s[2] \in 1 .. Messages[f]
    BY <1>4 DEF SignalsSeen
  <2>3. o.values \subseteq all
    BY <1>3, <1>5 DEF Reads
  <2>q. QED BY <2>1, <2>2, <2>3
<1>7. files \subseteq {f}
  BY <1>4, RowsRead
<1>8. /\ IsLoad(l) /\ l.header = {f} /\ l.messages = ms /\ l.signals = ss
      /\ l.values = o.values /\ l.passthrough = files
  BY <1>4 DEF IsLoad
<1>9. PartOf(l, f)
  BY <1>5, <1>6, <1>7, <1>8 DEF PartOf
<1>10. ASSUME p \notin overtaken PROVE l = D!Whole(f)
  <2>1. NothingMissed(p, f)
    BY <1>3, <1>10 DEF Reads
  <2>2. next[p] = Messages[f]
    <3>1. \A i \in 1 .. Messages[f] : \E m \in o.messages : m[2] = i
      BY <1>1, <2>1 DEF NothingMissed
    <3>2. next[p] + 1 \notin 1 .. Messages[f]
      BY <1>1, <3>1
    <3>q. QED BY <1>2, <1>4, <3>2
  <2>3. ASSUME NEW i \in 1 .. Messages[f]
        PROVE  <<f, i>> \in ms /\ <<f, i>> \in ss /\ <<f, i>> \in o.values
    <3>1. PICK m \in o.messages : m[2] = i
      BY <1>1, <2>1 DEF NothingMissed
    <3>2. m[1] = f
      BY <1>4 DEF MessagesSeen
    <3>3. PICK s \in o.signals : s[2] = i
      BY <2>1, <2>2 DEF NothingMissed
    <3>4. s[1] = f
      BY <1>4 DEF SignalsSeen
    <3>5. <<f, i>> \in o.values
      BY <1>1, <2>1, <2>2 DEF NothingMissed
    <3>q. QED BY <3>1, <3>2, <3>3, <3>4, <3>5
  <2>4. ms = all /\ ss = all /\ o.values = all
    BY <1>6, <2>3
  <2>5. files = {f}
    <3>1. PICK r \in ddb.sources : r.id = source[p]
      BY <1>4, <1>10 DEF SourceSeen
    <3>2. PICK x \in ddb.passthrough : x.source = r.id
      BY DEF DbcInv, Complete
    <3>q. QED BY <1>7, <3>1, <3>2
  <2>q. QED BY <1>4, <1>5, <2>4, <2>5
<1> HIDE DEF l
<1>11. dpc'[p] = "checked" /\ loaded'[p] = l => ExportInHand(p)'
  BY <1>1, <1>9, <1>10 DEF ExportInHand, Selecting
<1>q. QED BY <1>1, <1>8, <1>11, SelectGoesOn DEF DbcLabels

LEMMA ExportCheckOutputReads ==
    ASSUME DbcInv, ExportInv, NEW p \in DbcProcesses, D!ExportCheckOutput(p)
    PROVE  ExportInv'
<1>1. dpc[p] = "checked" /\ UNCHANGED <<ddb, dwork, writer, overtaken, output>>
  BY DEF D!ExportCheckOutput, D!At, D!store, D!history
<1>2. CASE D!Exit(p)
  BY <1>1, <1>2, QuietEnd
<1>3. CASE ~D!Exit(p)
  <2>1. D!GoTo(p, "write") /\ UNCHANGED <<source, next, loaded>>
    BY <1>3 DEF D!ExportCheckOutput
  <2>2. ExportInHand(p) /\ LoadTypes
    BY DEF ExportInv
  <2>3. IsLoad(loaded[p]) /\ loaded' = [loaded EXCEPT ![p] = loaded[p]]
    BY <2>1, <2>2 DEF LoadTypes
  <2>4. dpc'[p] = "write" /\ loaded'[p] = loaded[p] => ExportInHand(p)'
    BY <1>1, <2>2 DEF ExportInHand, Selecting
  <2>q. QED BY <1>1, <2>1, <2>3, <2>4, SelectGoesOn DEF DbcLabels
<1>q. QED BY <1>2, <1>3

(* The file is what was read, with the mark of what was noted until then.  *)
LEMMA ExportWriteReads ==
    ASSUME DbcInv, ExportInv, NEW p \in DbcProcesses, D!ExportWrite(p)
    PROVE  ExportInv'
<1>1. /\ dpc[p] = "write" /\ D!Exit(p)
      /\ output' = [content |-> loaded[p], overtaken |-> p \in overtaken]
      /\ UNCHANGED <<ddb, dwork, writer, overtaken>>
  BY DEF D!ExportWrite, D!At, D!store, D!history
<1>2. PICK f \in Files : /\ PartOf(loaded[p], f)
                         /\ p \notin overtaken => loaded[p] = D!Whole(f)
  BY <1>1 DEF ExportInv, ExportInHand
<1>3. output'.content = loaded[p] /\ (output'.overtaken <=> p \in overtaken)
  BY <1>1
<1>4. OutputInv'
  BY <1>2, <1>3 DEF OutputInv, PartOf
<1>5. /\ LoadTypes' /\ ExportInHand(p)'
      /\ \A q \in DbcProcesses \ {p} : SameExport(q)
  BY <1>1, ExitLoads
<1>6. CopyGrows'
  BY <1>1, SameCopy DEF ExportInv
<1>q. QED BY <1>1, <1>4, <1>5, <1>6, QuietExport

LEMMA ExportInitHolds == D!Init => ExportInv
<1> SUFFICES ASSUME D!Init PROVE ExportInv
  OBVIOUS
<1>1. /\ writer = None /\ output = None
      /\ dpc = [p \in DbcProcesses |-> "idle"]
      /\ loaded = [p \in DbcProcesses |-> D!Nothing]
  BY DEF D!Init
<1>2. IsLoad(D!Nothing)
  BY DEF IsLoad, D!Nothing
<1>3. LoadTypes
  BY <1>1, <1>2 DEF LoadTypes
<1>4. \A p \in DbcProcesses : ExportInHand(p)
  BY <1>1 DEF ExportInHand, Selecting
<1>q. QED
  BY <1>1, <1>3, <1>4, ProcessesAssumption DEF ExportInv, CopyGrows, OutputInv

LEMMA ExportStepKeeps ==
    ASSUME DbcInv, ExportInv, D!Next PROVE ExportInv'
<1>1. PICK p \in DbcProcesses : D!Start(p) \/ D!Step(p) \/ D!Kill(p)
  BY DEF D!Next
<1>2. CASE D!BusyTimeout(p)
  BY <1>2, QuietEnd DEF D!BusyTimeout, D!store, D!history
<1>3. CASE D!Kill(p)
  <2>1. D!Exit(p) /\ UNCHANGED <<overtaken, output>>
        /\ (D!RollBack \/ UNCHANGED <<ddb, dwork, writer>>)
    BY <1>3 DEF D!Kill, D!history, D!store
  <2>q. QED BY <2>1, GiveUp, QuietEnd
<1>q. QED
  BY <1>1, <1>2, <1>3, StartReads, ImportCheckReads, ImportBeginReads,
     ImportMessageReads, ImportCommitReads, ExportSourceReads, ExportNodesReads,
     ExportListingReads, ExportSignalsReads, ExportValuesReads,
     ExportPassthroughReads, ExportCheckOutputReads, ExportWriteReads
     DEF D!Step

(* The importer of a capture.                                              *)
LEMMA ExportUndisturbed ==
    ASSUME DbcInv, ExportInv, UNCHANGED dbcVars,
           writer' # writer => {writer, writer'} \cap DbcProcesses = {}
    PROVE  ExportInv'
<1>1. /\ UNCHANGED <<ddb, dwork, dpc, source, next, loaded, output, overtaken>>
      /\ writer' \in DbcProcesses => writer \in DbcProcesses
  BY DEF dbcVars
<1>2. LoadTypes' /\ CopyGrows' /\ OutputInv'
  BY <1>1 DEF ExportInv, LoadTypes, IsLoad, CopyGrows, Grows, OutputInv, PartOf
<1>3. ASSUME NEW q \in DbcProcesses PROVE ExportInHand(q)'
  <2>1. SameExport(q) /\ ExportInHand(q) /\ Sound(ddb)
    BY <1>1 DEF SameExport, ExportInv, DbcInv
  <2>q. QED BY <1>1, <2>1, OthersStay
<1>q. QED BY <1>2, <1>3 DEF ExportInv

(* A DBC file that was exported has parts of one import only, and all of   *)
(* them unless the source was replaced between its SELECTs; metrics and    *)
(* annotations likewise. An export holds the keys of rows over many        *)
(* SELECTs without a transaction: it can rely on them because sqlite gives *)
(* out no key twice.                                                       *)
THEOREM DerivedHolds == Spec => []DerivedFaithful
<1>1. Init => ExportInv
  BY ExportInitHolds DEF Init
<1>2. IInv /\ ExportInv /\ [Next]_vars => ExportInv'
  <2> SUFFICES ASSUME IInv, ExportInv, [Next]_vars PROVE ExportInv'
    OBVIOUS
  <2>1. CASE S!Next /\ UNCHANGED dbcVars
    BY <2>1, SessionWriter, ExportUndisturbed DEF IInv
  <2>2. CASE D!Next
    BY <2>2, ExportStepKeeps DEF IInv
  <2>3. CASE UNCHANGED vars
    BY <2>3, ExportUndisturbed DEF IInv, vars
  <2>q. QED BY <2>1, <2>2, <2>3 DEF Next
<1>3. ExportInv => ExportFaithful
  <2> SUFFICES ASSUME ExportInv PROVE ExportFaithful
    OBVIOUS
  <2>1. D!ExportNeverMixes
    BY DEF ExportInv, OutputInv, PartOf, D!ExportNeverMixes
  <2>2. D!ExportUndisturbedWhole
    BY DEF ExportInv, OutputInv, D!ExportUndisturbedWhole
  <2>q. QED BY <2>1, <2>2 DEF ExportFaithful
<1>4. IInv /\ ExportInv => DerivedFaithful
  BY <1>3 DEF DerivedFaithful, MetricsFaithful, IInv, SessionInv
<1>q. QED BY <1>1, <1>2, <1>4, Invariance, PTL DEF Spec
=============================================================================
