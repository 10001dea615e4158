---------------------------- MODULE EvidenceLog ----------------------------
(***************************************************************************)
(* What a CAN capture promises, with no timers, queues or disk: captures   *)
(* are taken one at a time; the store of a capture grows towards the list  *)
(* of lines the capture accepted and never holds anything else; a capture  *)
(* is sealed only when the two agree, and is then never touched again.     *)
(* CaptureSession implements this module (see CaptureSession!Log).         *)
(***************************************************************************)
EXTENDS Naturals, Sequences, SequencesExt

CONSTANTS
    Captures,   \* identities of captures
    Lines       \* the lines a capture may accept

VARIABLES
    status,     \* status[c]: new, open, closing, sealed or failed
    lines,      \* lines[c]: the lines capture c accepted, in order
    stored      \* stored[c]: the lines of c that are in its file

vars == <<status, lines, stored>>

Settled == {"new", "sealed", "failed"}

Init ==
    /\ status = [c \in Captures |-> "new"]
    /\ lines = [c \in Captures |-> <<>>]
    /\ stored = [c \in Captures |-> <<>>]

(* A capture begins when no other capture is unfinished. It begins closing *)
(* if it was asked to stop before its file existed.                        *)
Begin(c) ==
    /\ status[c] = "new"
    /\ \A d \in Captures : status[d] \in Settled
    /\ \E s \in {"open", "closing"} : status' = [status EXCEPT ![c] = s]
    /\ UNCHANGED <<lines, stored>>

Accept(c, line) ==
    /\ status[c] = "open"
    /\ lines' = [lines EXCEPT ![c] = Append(@, line)]
    /\ UNCHANGED <<status, stored>>

(* More of the accepted lines reach the file, in order.                    *)
Store(c) ==
    /\ status[c] \in {"open", "closing"}
    /\ \E n \in Len(stored[c]) .. Len(lines[c]) :
          stored' = [stored EXCEPT ![c] = SubSeq(lines[c], 1, n)]
    /\ UNCHANGED <<status, lines>>

Close(c) ==
    /\ status[c] = "open"
    /\ status' = [status EXCEPT ![c] = "closing"]
    /\ UNCHANGED <<lines, stored>>

Seal(c) ==
    /\ status[c] = "closing"
    /\ stored[c] = lines[c]
    /\ status' = [status EXCEPT ![c] = "sealed"]
    /\ UNCHANGED <<lines, stored>>

Fail(c) ==
    /\ status[c] = "closing"
    /\ status' = [status EXCEPT ![c] = "failed"]
    /\ UNCHANGED <<lines, stored>>

Next ==
    \E c \in Captures :
        \/ Begin(c)
        \/ \E line \in Lines : Accept(c, line)
        \/ Store(c)
        \/ Close(c)
        \/ Seal(c)
        \/ Fail(c)

Spec == Init /\ [][Next]_vars
=============================================================================
