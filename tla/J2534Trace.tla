----------------------------- MODULE J2534Trace -----------------------------
(***************************************************************************)
(* The records of a J2534 trace and tool/j2534_trace.py's read_trace, which *)
(* decides whether a trace file is accepted as evidence. A record is what  *)
(* one WriteFile put in the file: a whole line, or a torn one. Of a line   *)
(* the model keeps the fields the reader or the flush policy looks at.     *)
(***************************************************************************)
EXTENDS Naturals, Sequences

(* The API functions by what the proxy does differently for them: those    *)
(* whose end is a commit boundary (Close, Disconnect, StopPeriodicMsg),    *)
(* SetProgrammingVoltage, also a boundary, and all others.                 *)
Apis == {"ordinary", "boundary", "voltage"}

Row == [type : {"session", "callBegin", "callEnd", "torn"}, sequence : Nat,
        call : Nat, api : Apis \cup {"none"}, policy : BOOLEAN]

Session(seq) ==
    [type |-> "session", sequence |-> seq, call |-> 0, api |-> "none",
     policy |-> FALSE]

CallBegin(seq, call, api, policy) ==
    [type |-> "callBegin", sequence |-> seq, call |-> call, api |-> api,
     policy |-> policy]

CallEnd(seq, call, api) ==
    [type |-> "callEnd", sequence |-> seq, call |-> call, api |-> api,
     policy |-> FALSE]

(* A line cut short: no JSON.                                              *)
Torn == [type |-> "torn", sequence |-> 0, call |-> 0, api |-> "none",
         policy |-> FALSE]

IsImmediateCommitBoundary(row) ==
    \/ row.type = "session"
    \/ row.type = "callEnd" /\ row.api \in {"boundary", "voltage"}

-----------------------------------------------------------------------------
(* read_trace: one pass over the rows, remembering the calls not yet ended *)
(* and the sequence number that has to come next.                          *)

RowAccepted(reader, row) ==
    /\ row.type # "torn"
    /\ row.sequence = reader.expected
    /\ reader.expected = 0 => row.type = "session"
    /\ row.type = "callBegin" => \A api \in Apis : <<row.call, api>> \notin reader.open
    /\ row.type = "callEnd" => <<row.call, row.api>> \in reader.open

ReadRow(reader, row) ==
    [accepted |-> reader.accepted /\ RowAccepted(reader, row),
     expected |-> reader.expected + 1,
     open |-> CASE row.type = "callBegin" -> reader.open \cup {<<row.call, row.api>>}
                [] row.type = "callEnd"   -> reader.open \ {<<row.call, row.api>>}
                [] OTHER                  -> reader.open]

(* The reader after n rows.                                                *)
Reading(rows) ==
    LET reading[n \in 0 .. Len(rows)] ==
            IF n = 0 THEN [accepted |-> TRUE, expected |-> 0, open |-> {}]
                     ELSE ReadRow(reading[n - 1], rows[n])
    IN  reading

ReadTrace(rows) == rows # <<>> /\ Reading(rows)[Len(rows)].accepted

-----------------------------------------------------------------------------
(* The same verdict without a pass over the file: sequence numbers count   *)
(* the rows from 0, the first row is the session, and between two rows     *)
(* that begin (or end) the same call there is one that ends (begins) it.   *)
Begins(rows, i, call) == rows[i].type = "callBegin" /\ rows[i].call = call
Ends(rows, i, call) == rows[i].type = "callEnd" /\ rows[i].call = call

WellFormed(rows) ==
    /\ rows # <<>>
    /\ rows[1].type = "session"
    /\ \A i \in DOMAIN rows :
          /\ rows[i].type # "torn"
          /\ rows[i].sequence = i - 1
          /\ \A j \in 1 .. i - 1 :
                (Begins(rows, i, rows[i].call) /\ Begins(rows, j, rows[i].call)) =>
                    \E k \in j + 1 .. i - 1 : Ends(rows, k, rows[i].call)
          /\ rows[i].type = "callEnd" =>
                \E j \in 1 .. i - 1 :
                    /\ Begins(rows, j, rows[i].call)
                    /\ rows[j].api = rows[i].api
                    /\ \A k \in j + 1 .. i - 1 : ~Ends(rows, k, rows[i].call)

-----------------------------------------------------------------------------
(* What the reader remembers, said of the rows themselves: the calls under *)
(* way after n rows are those that began and have not ended since.         *)
Under(row) == <<row.call, row.api>>

BegunBy(rows, n, call) ==
    \E j \in 1 .. n :
        /\ rows[j].type = "callBegin" /\ Under(rows[j]) = call
        /\ \A k \in j + 1 .. n : rows[k].type = "callEnd" => Under(rows[k]) # call

UnderWay(rows, n) == {call \in {Under(rows[j]) : j \in 1 .. n} : BegunBy(rows, n, call)}

AcceptedAt(rows, i) ==
    RowAccepted([expected |-> i - 1, open |-> UnderWay(rows, i - 1)], rows[i])
=============================================================================
