---------------------------- MODULE J2534Writer ----------------------------
(***************************************************************************)
(* The writer of tool/j2534_trace.py, J2534TraceWriter, beside the proxy   *)
(* the second producer of traces. It takes no lock: begin_call and end_call *)
(* number their record, normalise the messages of the caller and write the *)
(* line, and threads may interleave between the number and the line.       *)
(***************************************************************************)
EXTENDS J2534Trace

CONSTANTS
    Threads,
    None,
    MaxCallIds      \* bound: calls begun

VARIABLES
    file,           \* the rows in the file
    sequence,       \* _sequence
    callSequence,   \* _call_sequence
    openCalls,      \* _open_calls: pairs of call and function
    unwritten,      \* per thread, the row it has numbered and not yet written
    overlapped,     \* history: a row was numbered while another was unwritten
    lost,           \* history: the numbers of rows that are never written
    gap             \* history: a row was written that follows a lost one

history == <<overlapped, lost, gap>>
vars == <<file, sequence, callSequence, openCalls, unwritten, history>>

(* The constructor opens a new file and writes the session record.         *)
Init ==
    /\ file = <<Session(0)>> /\ sequence = 1 /\ callSequence = 0
    /\ openCalls = {} /\ unwritten = [t \in Threads |-> None]
    /\ overlapped = FALSE /\ lost = {} /\ gap = FALSE

(* _base_record gives the row its number; then sanitize_messages either    *)
(* accepts the messages or raises, which loses the row and not the number. *)
NumberRow(t, row) ==
    /\ unwritten[t] = None
    /\ sequence' = sequence + 1
    /\ overlapped' = (overlapped \/ \E u \in Threads : unwritten[u] # None)
    /\ \/ unwritten' = [unwritten EXCEPT ![t] = row] /\ UNCHANGED lost
       \/ lost' = lost \cup {sequence} /\ UNCHANGED unwritten
    /\ UNCHANGED <<file, gap>>

(* begin_call; the call is noted once its messages are accepted.           *)
BeginCall(t, api) ==
    LET call == callSequence + 1 IN
    /\ callSequence < MaxCallIds                             \* bound
    /\ callSequence' = call
    /\ NumberRow(t, CallBegin(sequence, call, api, FALSE))
    /\ openCalls' = IF unwritten'[t] # None THEN openCalls \cup {<<call, api>>}
                                            ELSE openCalls

(* Mutant: the call stays open.                                            *)
EndCallKeeps(t) ==
    \E c \in openCalls :
        /\ NumberRow(t, CallEnd(sequence, c[1], c[2]))
        /\ sequence < 2 * MaxCallIds
        /\ UNCHANGED <<openCalls, callSequence>>

(* end_call; of a call that is not open it raises and changes nothing.     *)
EndCall(t) ==
    \E c \in openCalls :
        /\ openCalls' = openCalls \ {c}
        /\ NumberRow(t, CallEnd(sequence, c[1], c[2]))
        /\ UNCHANGED callSequence

(* _write: the line and its flush.                                         *)
WriteRow(t) ==
    /\ unwritten[t] # None
    /\ file' = Append(file, unwritten[t])
    /\ unwritten' = [unwritten EXCEPT ![t] = None]
    /\ gap' = (gap \/ \E n \in lost : n < unwritten[t].sequence)
    /\ UNCHANGED <<sequence, callSequence, openCalls, overlapped, lost>>

Next ==
    \E t \in Threads :
        \/ \E api \in {"ordinary", "boundary"} : BeginCall(t, api)
        \/ EndCall(t)
        \/ WriteRow(t)

Spec == Init /\ [][Next]_vars

-----------------------------------------------------------------------------
(* At every moment, and so after a crash too, read_trace accepts what the  *)
(* writer has written, unless calls of two threads overlapped or a row     *)
(* followed one that was lost; and a trace that lacks a row in the middle  *)
(* is never accepted.                                                      *)
TraceIsRead ==
    /\ ~overlapped /\ ~gap => ReadTrace(file)
    /\ gap => ~ReadTrace(file)
=============================================================================
