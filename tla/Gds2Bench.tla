----------------------------- MODULE Gds2Bench -----------------------------
(***************************************************************************)
(* The programs that drive the UC2 on the isolated bench: the probe test   *)
(* uc2_vcx_bench.py, the read-only simulator gds2_bench_simulator.py and   *)
(* its wrapper gds2_dynamic_discovery.py. One thread each: open, then read *)
(* a frame, decide, answer. The wrapper also sends scheduled UUDT samples  *)
(* between two reads.                                                      *)
(*                                                                         *)
(* The other end is the diagnostic application behind the VCX: it sends    *)
(* requests when it likes and flow control when a segmented answer needs   *)
(* it. A request is what parse_single_frame yields, taken apart.           *)
(***************************************************************************)
EXTENDS Integers, Sequences, FiniteSets, FiniteSetsExt, SequencesExt

CONSTANTS
    Tools,      \* subset of {"probe", "simulator", "wrapper"}
    Dpids,      \* packet identifiers, numbers
    Reserved,   \* those of them outside 01..7F and 90..FE
    Pids,       \* identifiers that 22 and 2C name
    Length,     \* bytes of the value of each; 0: no value is known
    Period,     \* ticks of each 0xAA level; 0: not configured
    Requests,   \* what the application may ask
    Blocks,     \* block sizes it may grant, 0: no limit
    MaxLate,    \* bound: ticks the program may be late
    None

ASSUME BenchAssumption ==
    /\ Tools \subseteq {"probe", "simulator", "wrapper"}
    /\ Dpids \subseteq Nat /\ Reserved \subseteq Dpids
    /\ Length \in [Pids -> Nat]
    /\ Period \in [2 .. 4 -> Nat]
    /\ Blocks \subseteq Nat /\ MaxLate \in Nat

(* What the application may send.                                          *)
Frames ==
    [kind: {"request"}, payload: Requests] \cup {[kind |-> "other"]}
    \cup [kind: {"flow"}, status: {0, 1}, block: Blocks \cup {0}]

(* A schedule: the level and the ticks to next_due.                        *)
Schedules == [level: 2 .. 4, next: Int]

(* A decision to answer: the size of the ISO-TP payload, or 0 for a raw    *)
(* UUDT frame, the DPIDs it is about and what it promises to repeat.       *)
Answers == [bytes: Nat, about: SUBSET Dpids, promise: Seq(Pids) \cup {None}]

ASSUME NoneAssumption == None \notin Nat \cup Frames \cup Schedules \cup Answers

VARIABLES
    tool, pc,
    opened, started,    \* the flags of the finally clause
    lapses,             \* history: what kept the program from tidying up
    definitions,        \* DynamicDiscoveryState
    scheduled,          \* per DPID None, or level and ticks to next_due
    due,                \* the set of poll_due's samples not sent yet
    request,            \* the request being decided, None: none
    response,           \* the decision, None: nothing is to be sent
    transfer,           \* send_isotp: frames left, block size, sent in block
    (* outside the program                                                 *)
    device,             \* the adapter: closed, open, ready or running;
                        \* dropped: closed while it was running
    rx,                 \* the frame the adapter holds, None: none
    awaited,            \* consecutive frames the application waits for
    credit,             \* how many of them it has granted, None: any number
    owes,               \* it has to send flow control
    lost,               \* it gave a transfer up, or its flow control was lost
    (* history                                                             *)
    agreed,             \* per DPID what the answers sent promise to repeat
    phase, owed         \* per DPID ticks to the next deadline; one has passed

held == <<definitions, scheduled, due, request, response, transfer>>
program == <<tool, pc, opened, started, lapses, held>>
application == <<awaited, credit, owes, lost>>
history == <<agreed, phase, owed>>
vars == <<program, device, rx, application, history>>

Nothing == [d \in Dpids |-> None]
Idle == [left |-> 0, block |-> 0, sent |-> 0]

Init ==
    /\ tool \in Tools /\ pc = "open"
    /\ opened = FALSE /\ started = FALSE /\ lapses = {}
    /\ definitions = Nothing /\ scheduled = Nothing
    /\ due = {} /\ request = None /\ response = None /\ transfer = Idle
    /\ device = "closed" /\ rx = None
    /\ awaited = 0 /\ credit = None /\ owes = FALSE /\ lost = FALSE
    /\ agreed = Nothing
    /\ phase = [d \in Dpids |-> 0] /\ owed = [d \in Dpids |-> FALSE]

-----------------------------------------------------------------------------
(* An exception or Ctrl+C ends what the program does; nothing is promised  *)
(* any more, and the finally clause knows no more than the two flags.      *)
Abandon ==
    /\ pc' = "finally"
    /\ definitions' = Nothing /\ scheduled' = Nothing
    /\ due' = {} /\ request' = None /\ response' = None /\ transfer' = Idle
    /\ agreed' = Nothing
    /\ phase' = [d \in Dpids |-> 0] /\ owed' = [d \in Dpids |-> FALSE]
    /\ UNCHANGED <<tool, opened, started>>

Raise == Abandon /\ UNCHANGED lapses

(* The calls that open the adapter. Each may return something other than 1.*)
CallFails == Raise /\ UNCHANGED <<device, rx, application>>

OpenDevice ==
    /\ pc = "open"
    /\ \/ /\ pc' = "opened" /\ device' = "open"
          /\ UNCHANGED <<tool, opened, started, lapses, held, rx, application,
                         history>>
       \/ CallFails

(* The call has returned 1; its flag is set by a later instruction.        *)
MarkOpened ==
    /\ pc = "opened" /\ pc' = "init" /\ opened' = TRUE
    /\ UNCHANGED <<tool, started, lapses, held, device, rx, application,
                   history>>

InitCan ==
    /\ pc = "init"
    /\ \/ /\ pc' = "start" /\ device' = "ready"
          /\ UNCHANGED <<tool, opened, started, lapses, held, rx, application,
                         history>>
       \/ CallFails

StartCan ==
    /\ pc = "start"
    /\ \/ /\ pc' = "started" /\ device' = "running"
          /\ UNCHANGED <<tool, opened, started, lapses, held, rx, application,
                         history>>
       \/ CallFails

MarkStarted ==
    /\ pc = "started" /\ pc' = "loop" /\ started' = TRUE
    /\ UNCHANGED <<tool, opened, lapses, held, device, rx, application,
                   history>>

(* The loop ends at its deadline, or the operator presses Ctrl+C: between  *)
(* any two instructions, also between a call and its flag.                 *)
Stopped == {"finally", "close", "end"}

Interrupt ==
    /\ pc \notin Stopped
    /\ Abandon /\ lapses' = lapses \cup ({pc} \cap {"opened", "started"})
    /\ UNCHANGED <<device, rx, application>>

(* The finally clause passes over exceptions of the two calls but not over *)
(* Ctrl+C, which leaves it where it is. So does a summary that cannot be   *)
(* printed.                                                                *)
CutShort ==
    /\ pc \in {"finally", "close"}
    /\ pc' = "end" /\ lapses' = lapses \cup {"cut short"}
    /\ UNCHANGED <<tool, opened, started, held, device, rx, application,
                   history>>

(* What the two calls return is ignored.                                   *)
ResetCan ==
    /\ pc = "finally" /\ pc' = "close"
    /\ \/ /\ device' = IF started THEN "ready" ELSE device
          /\ UNCHANGED lapses
       \/ /\ started /\ lapses' = lapses \cup {"reset failed"}
          /\ UNCHANGED device
    /\ UNCHANGED <<tool, opened, started, held, rx, application, history>>

CloseIf(flag) ==
    /\ pc = "close" /\ pc' = "end"
    /\ \/ /\ device' = IF ~flag THEN device
                      ELSE IF device = "running" THEN "dropped" ELSE "closed"
          /\ rx' = IF flag THEN None ELSE rx
          /\ UNCHANGED lapses
       \/ /\ flag /\ lapses' = lapses \cup {"close failed"}
          /\ UNCHANGED <<device, rx>>
    /\ UNCHANGED <<tool, opened, started, held, application, history>>

(* Mutant: only a channel that was started is closed.                      *)
CloseStarted == CloseIf(started)

CloseDevice == CloseIf(opened)

-----------------------------------------------------------------------------
(* What one transmitted frame means to the application.                    *)
Heard(frame) ==
    CASE frame = "consecutive" ->
            /\ awaited' = IF awaited = 0 THEN 0 ELSE awaited - 1
            /\ credit' = IF credit = None \/ awaited <= 1 THEN None
                                                        ELSE credit - 1
            /\ owes' = (awaited > 1 /\ credit = 1)
            /\ lost' = (lost /\ transfer'.left > 0)
            /\ UNCHANGED agreed
      [] frame = "first" ->
            /\ awaited' = transfer'.left /\ credit' = 0 /\ owes' = TRUE
            /\ lost' = FALSE
            /\ UNCHANGED agreed
      [] frame = "sample" -> UNCHANGED <<application, agreed>>
      [] frame = "answer" ->
            /\ agreed' = [d \in Dpids |->
                            IF d \in response.about THEN response.promise
                                                    ELSE agreed[d]]
            /\ UNCHANGED application

(* VCI_Transmit returned one, or the program gives up.                     *)
Transmit(frame) == Heard(frame) /\ UNCHANGED <<device, rx, phase, owed>>

-----------------------------------------------------------------------------
(* Decisions. Most answers promise nothing.                                *)
Answer(bytes) == [bytes |-> bytes, about |-> {}, promise |-> None]
Negative == Answer(3)

Known(pids) == \A i \in DOMAIN pids : Length[pids[i]] # 0
Bytes(pids) == FoldLeft(LAMBDA n, pid : n + Length[pid], 0, pids)

(* decide_response of the simulator; None: no answer.                      *)
BaseDecision(r) ==
    CASE r.service = "22" ->
           IF Known(r.pids) /\ r.pids # <<>>
             THEN Answer(1 + Bytes(r.pids) + 2 * Len(r.pids)) ELSE Negative
      [] r.service = "1A" ->
           IF Known(<<r.did>>) THEN Answer(2 + Length[r.did]) ELSE Negative
      [] r.service = "3E" -> IF r.suppress THEN None ELSE Answer(2)
      [] r.service \in {"10", "19"} -> IF r.valid THEN Answer(6) ELSE Negative
      [] r.service = "A9" -> Answer(0)
      [] OTHER -> Negative

(* The shape of the requests; the sizes of answers and of definitions are  *)
(* numbers.                                                                *)
ASSUME RequestsAssumption ==
    \A r \in Requests :
        /\ BaseDecision(r) # None => BaseDecision(r).bytes \in Nat
        /\ r.service = "2C" => r.pids \in Seq(Pids) /\ Bytes(r.pids) \in Nat
        /\ r.service = "AA" => r.level \in Nat /\ r.dpids \in Seq(Dpids)

(* Mutant: a definition is not measured before it is stored.               *)
DefineUnmeasured(r) ==
    IF r.pids = <<>> \/ r.dpid \in Reserved \/ ~Known(r.pids)
    THEN response' = Negative /\ UNCHANGED <<definitions, scheduled>>
    ELSE /\ response' = [Answer(2) EXCEPT !.about = {r.dpid}]
         /\ definitions' = [definitions EXCEPT ![r.dpid] = r.pids]
         /\ scheduled' = [scheduled EXCEPT ![r.dpid] = None]

(* Mutant: the schedule of the packet is left as it is.                    *)
DefineKeepsSchedule(r) ==
    IF r.pids = <<>> \/ r.dpid \in Reserved \/ ~Known(r.pids)
                     \/ Bytes(r.pids) > 7
    THEN response' = Negative /\ UNCHANGED <<definitions, scheduled>>
    ELSE /\ response' = [Answer(2) EXCEPT !.about = {r.dpid}]
         /\ definitions' = [definitions EXCEPT ![r.dpid] = r.pids]
         /\ UNCHANGED scheduled

(* 2C: an unusable definition changes nothing; an empty list stands for a  *)
(* request whose length is wrong.                                          *)
Define(r) ==
    IF r.pids = <<>> \/ r.dpid \in Reserved \/ ~Known(r.pids)
                     \/ Bytes(r.pids) > 7
    THEN response' = Negative /\ UNCHANGED <<definitions, scheduled>>
    ELSE /\ response' = [Answer(2) EXCEPT !.about = {r.dpid}]
         /\ definitions' = [definitions EXCEPT ![r.dpid] = r.pids]
         /\ scheduled' = [scheduled EXCEPT ![r.dpid] = None]

(* AA 00, for the DPIDs listed or for all.                                 *)
StopSending(r) ==
    LET stopped == IF r.dpids = <<>> THEN Dpids ELSE ToSet(r.dpids) IN
    /\ response' = [Answer(0) EXCEPT !.about = stopped]
    /\ scheduled' = [d \in Dpids |-> IF d \in stopped THEN None
                                                      ELSE scheduled[d]]

(* AA 01 to 04: one DPID, and a cadence if it is to be repeated.           *)
StartSending(r) ==
    LET d == r.dpids[1] IN
    IF r.level > 4 \/ Len(r.dpids) # 1
    THEN response' = Negative /\ UNCHANGED scheduled
    ELSE IF definitions[d] = None \/ (r.level > 1 /\ Period[r.level] = 0)
    THEN response' = Negative /\ UNCHANGED scheduled
    ELSE IF r.level = 1
    THEN response' = Answer(0) /\ UNCHANGED scheduled
    ELSE /\ response' = [bytes |-> 0, about |-> {d}, promise |-> definitions[d]]
         /\ scheduled' = [scheduled EXCEPT ![d] =
                            [level |-> r.level, next |-> Period[r.level]]]

(* The grid of a new schedule starts when it is decided.                   *)
Restart ==
    /\ phase' = [d \in Dpids |->
            IF scheduled'[d] = None THEN 0
            ELSE IF scheduled'[d] # scheduled[d] THEN scheduled'[d].next
            ELSE phase[d]]
    /\ owed' = [d \in Dpids |-> scheduled'[d] = scheduled[d] /\ owed[d]]

Decide ==
    /\ pc = "decide"
    /\ \/ /\ tool = "wrapper" /\ request.service = "2C" /\ Define(request)
       \/ /\ tool = "wrapper" /\ request.service = "AA" /\ request.level = 0
          /\ StopSending(request) /\ UNCHANGED definitions
       \/ /\ tool = "wrapper" /\ request.service = "AA" /\ request.level # 0
          /\ StartSending(request) /\ UNCHANGED definitions
       \/ /\ tool = "simulator" \/ request.service \notin {"2C", "AA"}
          /\ response' = BaseDecision(request)
          /\ UNCHANGED <<definitions, scheduled>>
    /\ Restart
    /\ request' = None
    /\ pc' = IF response' = None THEN "loop" ELSE "answer"
    /\ UNCHANGED <<tool, opened, started, lapses, due, transfer, device, rx,
                   application, agreed>>

-----------------------------------------------------------------------------
(* Frames of a payload: 7 bytes in a single frame, 6 in a first frame and  *)
(* 7 in each that follows.                                                 *)
Segments(bytes) == IF bytes <= 7 THEN 1 ELSE 1 + (bytes - 6 + 6) \div 7

(* tx, or the first frame of send_isotp.                                   *)
SendAnswer ==
    LET more == Segments(response.bytes) - 1 IN
    /\ pc = "answer"
    /\ \/ /\ more = 0
          /\ Transmit("answer") /\ pc' = "loop" /\ UNCHANGED transfer
          /\ response' = None
          /\ UNCHANGED <<tool, opened, started, lapses, definitions, scheduled,
                         due, request>>
       \/ /\ more > 0
          /\ transfer' = [Idle EXCEPT !.left = more]
          /\ Transmit("first") /\ pc' = "flow"
          /\ response' = None
          /\ UNCHANGED <<tool, opened, started, lapses, definitions, scheduled,
                         due, request>>
       \/ CallFails

(* wait_for_flow_control: any other frame is logged and goes unanswered.   *)
AwaitFlow ==
    /\ pc = "flow" /\ rx # None
    /\ rx' = None
    /\ \/ /\ rx.kind = "flow" /\ rx.status = 0
          /\ transfer' = [left |-> transfer.left, block |-> rx.block, sent |-> 0]
          /\ pc' = "segments"
          /\ UNCHANGED <<tool, opened, started, lapses, definitions, scheduled,
                         due, request, response, history>>
       \/ rx.kind = "flow" /\ rx.status # 0 /\ Raise
       \/ rx.kind # "flow" /\ UNCHANGED <<program, history>>
    /\ UNCHANGED <<device, application>>

(* fc_deadline.                                                            *)
FlowTimeout == pc = "flow" /\ CallFails

(* Mutant: flow control is also waited for after the last frame.           *)
NeedsFlowAfterLast(t) == t.block # 0 /\ t.sent >= t.block

(* The block is full and frames remain.                                    *)
NeedsFlow(t) == t.block # 0 /\ t.sent >= t.block /\ t.left > 0

SendSegment ==
    /\ pc = "segments"
    /\ \/ LET t == [left |-> transfer.left - 1, block |-> transfer.block,
                    sent |-> transfer.sent + 1] IN
          /\ pc' = IF NeedsFlow(t) THEN "flow"
                   ELSE IF t.left = 0 THEN "loop" ELSE "segments"
          /\ transfer' = IF pc' = "loop" THEN Idle ELSE t
          /\ Transmit("consecutive")
          /\ UNCHANGED <<tool, opened, started, lapses, definitions, scheduled,
                         due, request, response>>
       \/ CallFails

-----------------------------------------------------------------------------
(* The next deadline of the grid that is still to come.                    *)
Advance(s) ==
    LET p == Period[s.level]
        n == CHOOSE k \in 1 .. MaxLate + 1 :
                s.next + k * p > 0 /\ s.next + (k - 1) * p <= 0
    IN [s EXCEPT !.next = @ + n * p]

(* The top of the loop. poll_due: all that is due.                         *)
DueDpids == {d \in Dpids : /\ scheduled[d] # None /\ scheduled[d].next <= 0
                           /\ definitions[d] # None}

PollDue ==
    /\ pc = "loop"
    /\ due' = {[dpid |-> d, pids |-> definitions[d]] : d \in DueDpids}
    /\ scheduled' = [d \in Dpids |-> IF d \in DueDpids THEN Advance(scheduled[d])
                                                       ELSE scheduled[d]]
    /\ owed' = [d \in Dpids |-> owed[d] /\ d \notin DueDpids]
    /\ pc' = "samples"
    /\ UNCHANGED <<tool, opened, started, lapses, definitions, request,
                   response, transfer, device, rx, application, agreed, phase>>

(* The samples are sent in the order of their DPIDs.                       *)
SendSample ==
    /\ pc = "samples" /\ due # {}
    /\ \/ /\ \E s \in due : /\ \A other \in due : s.dpid <= other.dpid
                            /\ due' = due \ {s}
          /\ Transmit("sample")
          /\ UNCHANGED <<tool, pc, opened, started, lapses, definitions,
                         scheduled, request, response, transfer>>
       \/ CallFails

(* Mutant: the read waits until a frame comes.                             *)
ReceiveBlocking ==
    /\ pc = "samples" /\ due = {} /\ rx # None
    /\ rx' = None
    /\ IF rx.kind = "request" /\ tool # "probe"
         THEN request' = rx.payload /\ pc' = "decide"
         ELSE UNCHANGED request /\ pc' = "loop"
    /\ UNCHANGED <<tool, opened, started, lapses, definitions, scheduled, due,
                   response, transfer, device, application, history>>

(* The frame that ends the probe test.                                     *)
IsProbe == /\ tool = "probe" /\ rx # None /\ rx.kind = "request"
           /\ rx.payload.service = "3E" /\ ~rx.payload.suppress

(* VCI_Receive with a timeout: a request, a frame that is only logged, or  *)
(* nothing. The probe test answers its probe once and ends.                *)
Receive ==
    /\ pc = "samples" /\ due = {}
    /\ \/ /\ ~IsProbe
          /\ rx' = None
          /\ IF rx # None /\ tool # "probe" /\ rx.kind = "request"
               THEN request' = rx.payload /\ pc' = "decide"
               ELSE UNCHANGED request /\ pc' = "loop"
          /\ UNCHANGED <<tool, opened, started, lapses, definitions, scheduled,
                         due, response, transfer, device, application, history>>
       \/ IsProbe /\ rx' = None /\ Raise /\ UNCHANGED <<device, application>>
       \/ CallFails

-----------------------------------------------------------------------------
(* The application and the bus.                                            *)
Send(frame) == device = "running" /\ rx = None /\ rx' = frame

AppRequest ==
    /\ \/ \E r \in Requests : Send([kind |-> "request", payload |-> r])
       \/ Send([kind |-> "other"])
    /\ UNCHANGED <<program, device, application, history>>

(* A flow status other than 0 asks the sender to wait.                     *)
AppFlow ==
    /\ owes
    /\ \/ \E b \in Blocks :
            /\ Send([kind |-> "flow", status |-> 0, block |-> b])
            /\ credit' = IF b = 0 THEN None ELSE b
            /\ owes' = FALSE
       \/ /\ Send([kind |-> "flow", status |-> 1, block |-> 0])
          /\ UNCHANGED <<credit, owes>>
    /\ UNCHANGED <<program, device, awaited, lost, history>>

AppGivesUp ==
    /\ awaited > 0 /\ ~lost
    /\ awaited' = 0 /\ credit' = None /\ owes' = FALSE /\ lost' = TRUE
    /\ UNCHANGED <<program, device, rx, history>>

Tick ==
    /\ \E d \in Dpids : scheduled[d] # None
    /\ \A d \in Dpids : scheduled[d] # None => scheduled[d].next > -MaxLate
    /\ scheduled' = [d \in Dpids |-> IF scheduled[d] = None THEN None
                                     ELSE [scheduled[d] EXCEPT !.next = @ - 1]]
    /\ owed' = [d \in Dpids |-> owed[d] \/ phase[d] = 1]
    /\ phase' = [d \in Dpids |->
                    IF phase[d] = 1 THEN Period[scheduled[d].level]
                    ELSE IF phase[d] = 0 THEN 0 ELSE phase[d] - 1]
    /\ UNCHANGED <<tool, pc, opened, started, lapses, definitions, due,
                   request, response, transfer, device, rx, application, agreed>>

-----------------------------------------------------------------------------
Opening == OpenDevice \/ MarkOpened \/ InitCan \/ StartCan \/ MarkStarted
Sending == SendAnswer \/ AwaitFlow \/ FlowTimeout \/ SendSegment
Looping == PollDue \/ SendSample \/ Receive \/ Decide
Closing == ResetCan \/ CloseDevice

Next ==
    \/ OpenDevice \/ MarkOpened \/ InitCan \/ StartCan \/ MarkStarted
    \/ PollDue \/ SendSample \/ Receive \/ Decide
    \/ SendAnswer \/ AwaitFlow \/ FlowTimeout \/ SendSegment
    \/ Interrupt \/ CutShort \/ ResetCan \/ CloseDevice
    \/ AppRequest \/ AppFlow \/ AppGivesUp \/ Tick

(* The program runs, and time passes. Nobody promises requests, flow       *)
(* control or Ctrl+C.                                                      *)
Spec ==
    /\ Init /\ [][Next]_vars
    /\ WF_vars(Opening) /\ WF_vars(Looping) /\ WF_vars(Closing)
    /\ WF_vars(Sending) /\ WF_vars(FlowTimeout)
    /\ WF_vars(Tick)

-----------------------------------------------------------------------------
TypeOK ==
    /\ tool \in Tools
    /\ pc \in {"open", "opened", "init", "start", "started", "loop",
               "samples", "decide", "answer", "flow", "segments",
               "finally", "close", "end"}
    /\ \A d \in Dpids :
        /\ definitions[d] # None =>
             Known(definitions[d]) /\ Bytes(definitions[d]) <= 7
        /\ scheduled[d] # None =>
             /\ Period[scheduled[d].level] > 0
             /\ scheduled[d].next \in -MaxLate .. Period[scheduled[d].level]
    /\ request # None => request \in Requests
    /\ transfer.left \in Nat /\ awaited \in Nat
    /\ rx \in {None} \cup Frames
    /\ device \in {"closed", "open", "ready", "running", "dropped"}

(* The two ends of a segmented answer agree: the simulator sends a frame   *)
(* only when the application has granted one and waits for it, waits for   *)
(* flow control only when it is owed or on its way, and takes no other     *)
(* request before the application has the whole answer.                    *)
TransfersAgreed ==
    \/ lost
    \/ /\ pc = "segments" => awaited = transfer.left /\ credit # 0
       /\ pc = "flow" => owes \/ (rx # None /\ rx.kind = "flow")
       /\ pc \in {"loop", "samples", "decide", "answer"} => awaited = 0

(* Whatever call fails and whenever the operator stops the program, the    *)
(* adapter is closed when it ends, and was reset before if it was running. *)
(* The exceptions: it stays open only if Ctrl+C came between               *)
(* VCI_OpenDevice and its flag or left the finally clause, or if the close *)
(* itself failed; and it is closed without a reset only if Ctrl+C came     *)
(* between VCI_StartCAN and its flag, or if the reset itself failed.       *)
ReleasedAtEnd ==
    pc = "end" =>
        /\ device \in {"open", "ready", "running"} =>
             lapses \cap {"opened", "cut short", "close failed"} # {}
        /\ device = "dropped" =>
             lapses \cap {"started", "reset failed"} # {}

(* A periodic sample has the content that was last agreed: none is sent    *)
(* after a stop or a redefinition was acknowledged until the packet is     *)
(* scheduled again. And each belongs to a deadline of its own, however     *)
(* late the program is.                                                    *)
SamplesAsAgreed ==
    [][/\ \A s \in due : agreed[s.dpid] = s.pids
       /\ PollDue => \A s \in due' : owed[s.dpid]]_vars

(* A scheduled packet is sampled again and again, whatever else the        *)
(* application asks and however its transfers end. The answer to a request *)
(* that schedules it is a sample, too.                                     *)
SamplesContinue ==
    \A d \in Dpids : scheduled[d] # None ~>
        \/ scheduled[d] = None
        \/ \E s \in due : s.dpid = d
        \/ response # None /\ response.promise # None /\ d \in response.about
=============================================================================
