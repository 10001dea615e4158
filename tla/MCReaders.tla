------------------------------ MODULE MCReaders ------------------------------
(***************************************************************************)
(* The readers of evidence files on every short file, built record by  *)
(* record: read_trace on a J2534 trace, whatever wrote it or as the Python *)
(* writer leaves it, the DBC parser and writer on a DBC file, the battery  *)
(* mapping on two series of readings and on scored sessions, and the       *)
(* session extractor, the evidence bundle and the live monitor on the      *)
(* conversation of MCGmSession. Only one input grows in a behaviour.       *)
(***************************************************************************)
EXTENDS DbcCodec, J2534Trace, BmsMapping, GmLiveMonitor, MCGmSession

CONSTANTS
    MaxRows,    \* bound: records in a trace
    Calls,      \* call identities
    MaxLines,   \* bound: statements in a DBC file
    Raw,        \* identifiers of messages
    Noted,      \* those that comments, values and attributes name
    Texts,      \* escaped texts that occur
    Threads, None, MaxCallIds,  \* of the writer
    MaxReadings,    \* bound: readings in a series
    MaxInstant,     \* bound: their times
    MaxSessions     \* bound: reports aggregated

(* None is not a row.                                                      *)
ASSUME NoneAssumption == None \notin Row

VARIABLES
    rows,       \* a trace, whatever wrote it
    lines,      \* a DBC file
    series,     \* the times of the readings of a cell and of a slot
    sessions,   \* the scores of the sessions to aggregate
    file, sequence, callSequence, openCalls, unwritten,     \* the writer
    overlapped, lost, gap

W == INSTANCE J2534Writer

writerVars == <<file, sequence, callSequence, openCalls, unwritten,
                overlapped, lost, gap>>

analysed == <<series, sessions>>

(* Which input grows.                                                      *)
Untouched == sequence = 1
NoSeries == series = [cell |-> <<>>, slot |-> <<>>]
NoSessions == sessions = <<>>
Unsaid == time = 0

-----------------------------------------------------------------------------
(* Traces.                                                                 *)

(* A record whose sequence number is right, or one too high.               *)
Rows ==
    LET Named == Calls \X {"ordinary", "boundary"}
    IN  UNION {{Session(seq), Torn}
               \cup {CallBegin(seq, c[1], c[2], FALSE) : c \in Named}
               \cup {CallEnd(seq, c[1], c[2]) : c \in Named}
               : seq \in {Len(rows), Len(rows) + 1}}

AddRow ==
    /\ Len(rows) < MaxRows /\ lines = <<>> /\ Untouched /\ NoSeries /\ NoSessions /\ Unsaid
    /\ \E row \in Rows : rows' = Append(rows, row)
    /\ UNCHANGED <<lines, analysed, writerVars, conversation>>

(* read_trace accepts exactly the well-formed traces: a duplicated begin,  *)
(* an orphan or mismatched end, a gap, a torn line or a missing session    *)
(* each make it refuse the file, and nothing else does.                    *)
ReaderIsExact == ReadTrace(rows) <=> WellFormed(rows)

(* A step of the writer.                                                   *)
WriterStep ==
    /\ rows = <<>> /\ lines = <<>> /\ NoSeries /\ NoSessions /\ Unsaid
    /\ W!Next
    /\ UNCHANGED <<rows, lines, analysed, conversation>>

(* The reader is exact, and reads what the writer leaves.                  *)
TracesAreRead == ReaderIsExact /\ W!TraceIsRead

-----------------------------------------------------------------------------
(* DBC files.                                                              *)

MCTexts == {<<"backslash", "quote">>, <<"backslash", "backslash">>}

(* What may be said again, and differently.                                *)
Repeated == {<<"x">>, <<"y">>}

Statements ==
    {[kind |-> "NS_"], [kind |-> "BS_"], [kind |-> "malformed"],
     [kind |-> "BU_", nodes |-> <<"HPCM2">>],
     [kind |-> "SG_", name |-> "v", start |-> 0, length |-> 1,
      factor |-> "integer", receivers |-> <<"IPC">>],
     [kind |-> "SG_", name |-> "w", start |-> 8, length |-> 1,
      factor |-> "sixteen digits", receivers |-> <<>>],
     [kind |-> "vendor"]}
    \cup {[kind |-> "VERSION", text |-> t] : t \in Repeated}
    \cup {[kind |-> "BO_", raw |-> r, name |-> "m", dlc |-> MaxDlc] : r \in Raw}
    \cup {[kind |-> "BO_", raw |-> r, name |-> "m", dlc |-> 1] : r \in Noted}
    \cup {[kind |-> "CM_ BO_", raw |-> r, text |-> t] : r \in Noted, t \in Texts}
    \cup {[kind |-> "CM_ SG_", raw |-> r, name |-> "v", text |-> t] :
            r \in Noted, t \in Repeated}
    \cup {[kind |-> "VAL_", raw |-> r, name |-> "v",
           pairs |-> <<[value |-> 0, text |-> t]>>] :
            r \in Noted, t \in Repeated}
    \cup {[kind |-> "BA_", raw |-> r] : r \in Noted}

(* A file that is already refused stays refused.                           *)
AddLine ==
    /\ Len(lines) < MaxLines /\ rows = <<>> /\ Untouched /\ NoSeries /\ NoSessions /\ Unsaid
    /\ ~IsError(FoldLeft(ParseLine, Blank, lines))
    /\ \E line \in Statements : lines' = Append(lines, line)
    /\ UNCHANGED <<rows, analysed, writerVars, conversation>>

-----------------------------------------------------------------------------
(* The battery mapping.                                                    *)

(* Series are sorted when they are read.                                   *)
AddReading ==
    /\ rows = <<>> /\ lines = <<>> /\ Untouched /\ NoSessions /\ Unsaid
    /\ \E s \in {"cell", "slot"}, t \in 0 .. MaxInstant :
        /\ Len(series[s]) < MaxReadings
        /\ series[s] # <<>> => t >= Last(series[s])
        /\ series' = [series EXCEPT ![s] = Append(@, t)]
    /\ UNCHANGED <<rows, lines, sessions, writerVars, conversation>>

(* What a session may say of a pair.                                       *)
Scores == {[points |-> 95, close |-> TRUE, overlap |-> MinPairs],
           [points |-> 92, close |-> TRUE, overlap |-> MinPairs],
           [points |-> 93, close |-> FALSE, overlap |-> MinPairs]}

(* A session may lack a cell or a slot.                                    *)
AllSessions ==
    [Cells \X Slots -> Scores]
    \cup (UNION {[{c} \X Slots -> Scores] : c \in Cells})
    \cup (UNION {[Cells \X {s} -> Scores] : s \in Slots})

(* The order in which sessions are aggregated does not matter.             *)
Weight(session) ==
    FoldSet(LAMBDA p, n : n + session[p].points * 100 ^ (2 * p[1] + p[2] - 3),
            0, DOMAIN session)

AddSession ==
    /\ rows = <<>> /\ lines = <<>> /\ Untouched /\ NoSeries /\ Unsaid
    /\ Len(sessions) < MaxSessions
    /\ \E s \in AllSessions :
        /\ sessions # <<>> => Weight(s) >= Weight(Last(sessions))
        /\ sessions' = Append(sessions, s)
    /\ UNCHANGED <<rows, lines, series, writerVars, conversation>>

(* The mapping of a session and the candidates of several say what the     *)
(* readings and the scores say.                                            *)
MappingEvidence ==
    /\ NearestPairsExact(series.cell, series.slot)
    /\ sessions # <<>> => AssignmentStable(Last(sessions))
    /\ RepeatableIsBest(sessions)

-----------------------------------------------------------------------------
(* A frame of the conversation. What its readers promise is stated in       *)
(* GmSession and GmLiveMonitor.                                            *)
AddFrame ==
    /\ rows = <<>> /\ lines = <<>> /\ Untouched /\ NoSeries /\ NoSessions
    /\ Speak
    /\ UNCHANGED <<rows, lines, analysed, writerVars>>

-----------------------------------------------------------------------------
Init ==
    /\ rows = <<>> /\ lines = <<>> /\ W!Init /\ Silence
    /\ series = [cell |-> <<>>, slot |-> <<>>] /\ sessions = <<>>

Next ==
    \/ AddRow
    \/ AddLine
    \/ WriterStep
    \/ AddReading
    \/ AddSession
    \/ AddFrame

Spec == Init /\ [][Next]_<<rows, lines, analysed, writerVars, conversation>>

-----------------------------------------------------------------------------
(* d is the database that a file is read as; its signals, and which of    *)
(* them the writer can write as they are.                                  *)
Signals(d) == UNION {ToSet(d.messages[i].signals) : i \in DOMAIN d.messages}
Writable(s) == s.receivers # <<>> /\ s.factor # "sixteen digits"

(* A file the importer accepts can be exported, and the export reads back  *)
(* as the same database, if every signal names a receiver and no number    *)
(* needs more than fifteen digits.                                         *)
WritableRoundTrips(d) ==
    (\A s \in Signals(d) : Writable(s)) => RoundTrips(d)

(* The statements Atlas does not model come through an export unchanged    *)
(* and in their order. assert_round_trip does not compare them.            *)
PassthroughKept(d) ==
    LET again == Parse(Write(d))
    IN  ~IsError(again) => again.passthrough = d.passthrough

(* Where the file has statements of these kinds outside the names section, *)
(* in order.                                                               *)
InNames(i) ==
    \E j \in 1 .. i : /\ lines[j].kind = "NS_"
                     /\ \A k \in j .. i : lines[k].kind # "BS_"

Where(kinds) ==
    SelectSeq([i \in DOMAIN lines |-> i],
              LAMBDA i : lines[i].kind \in kinds /\ ~InNames(i))

(* The messages of an accepted file are its message statements outside the *)
(* names section, one each and in their order; the signals of a message    *)
(* are the signal statements between its own and the next, in their order, *)
(* and each starts within the message. The nodes and the statements that   *)
(* Atlas does not model are all there, in their order.                     *)
MessagesAsWritten(d) ==
    LET opening == Where({"BO_"})
        signals(m) ==
            SelectSeq(Where({"SG_"}), LAMBDA i :
                {j \in ToSet(opening) : j < i} = ToSet(SubSeq(opening, 1, m)))
    IN  /\ Len(d.messages) = Len(opening)
        /\ signals(0) = <<>>
        /\ \A m \in DOMAIN opening :
             LET message == d.messages[m]
                 line == lines[opening[m]]
             IN  /\ message.key = DecodeId(line.raw)
                 /\ message.name = line.name /\ message.dlc = line.dlc
                 /\ Len(message.signals) = Len(signals(m))
                 /\ \A s \in DOMAIN message.signals :
                      LET written == lines[signals(m)[s]] IN
                      /\ \A field \in DOMAIN written \ {"kind"} :
                            message.signals[s][field] = written[field]
                      /\ written.start < 8 * line.dlc
        /\ d.nodes = FlattenSeq([i \in DOMAIN Where({"BU_"}) |->
                                    lines[Where({"BU_"})[i]].nodes])
        /\ d.passthrough = [i \in DOMAIN Where({"BA_", "vendor"}) |->
                                lines[Where({"BA_", "vendor"})[i]]]

(* What is said once of a file, a message or a signal is said by the last  *)
(* statement about it (dbc.py:128, 211, 217, 224): those before are        *)
(* overwritten. None of an accepted file is about what it does not have,   *)
(* and of two signals of one name in a message only the first is meant. A  *)
(* version counts in the names section, too.                               *)
About(kind, key) ==
    {i \in ToSet(Where({kind})) : DecodeId(lines[i].raw) = key}

LastSaid(places, told, said(_)) ==
    told = IF places = {} THEN <<>> ELSE said(lines[Max(places)])

LastSaidCounts(d) ==
    LET versions == {i \in DOMAIN lines : lines[i].kind = "VERSION"}
        means(i, m, s) ==
            LET named == [r \in DOMAIN d.messages[m].signals |->
                             d.messages[m].signals[r].name = lines[i].name]
            IN  named[s] /\ \A r \in 1 .. s - 1 : ~named[r]
        text(line) == <<Unescape(line.text)>>
        pairs(line) == [p \in DOMAIN line.pairs |->
                          [value |-> line.pairs[p].value,
                           text |-> Unescape(line.pairs[p].text)]]
    IN  /\ LastSaid(versions, d.version, LAMBDA line : Unescape(line.text))
        /\ \A i \in ToSet(Where({"CM_ BO_", "CM_ SG_", "VAL_"})) :
             \E m \in DOMAIN d.messages :
                /\ d.messages[m].key = DecodeId(lines[i].raw)
                /\ lines[i].kind # "CM_ BO_" =>
                     \E s \in DOMAIN d.messages[m].signals : means(i, m, s)
        /\ \A m \in DOMAIN d.messages :
             LET message == d.messages[m]
                 about(kind, s) == {i \in About(kind, message.key) :
                                       means(i, m, s)}
             IN  /\ LastSaid(About("CM_ BO_", message.key),
                             message.comment, text)
                 /\ \A s \in DOMAIN message.signals :
                      /\ LastSaid(about("CM_ SG_", s),
                                  message.signals[s].comment, text)
                      /\ LastSaid(about("VAL_", s),
                                  message.signals[s].values, pairs)

(* What dbc-import accepts says what the file says, and an export keeps    *)
(* it, up to what the writer cannot write.                                 *)
DbcIsKept ==
    lines # <<>> =>
        LET database == Parse(lines)
        IN  ~IsError(database) => /\ WritableRoundTrips(database)
                                  /\ PassthroughKept(database)
                                  /\ MessagesAsWritten(database)
                                  /\ LastSaidCounts(database)
=============================================================================
