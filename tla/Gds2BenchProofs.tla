--------------------------- MODULE Gds2BenchProofs ---------------------------
(***************************************************************************)
(* Proofs about Gds2Bench for any requests, packets, periods, block sizes  *)
(* and lateness.                                                           *)
(***************************************************************************)
EXTENDS Gds2Bench, TLAPS

Opens == {"open", "opened", "init", "start", "started"}
Labels == Opens \cup {"loop", "samples", "decide", "answer", "flow", "segments"}
                \cup Stopped

(* The types of what the two arguments below are about.                    *)
TypesInv ==
    /\ pc \in Labels
    /\ opened \in BOOLEAN /\ started \in BOOLEAN
    /\ rx \in {None} \cup Frames
    /\ transfer \in [left: Nat, block: Nat, sent: Nat]
    /\ awaited \in Nat /\ credit \in Nat \cup {None}
    /\ owes \in BOOLEAN /\ lost \in BOOLEAN
    /\ pc = "decide" => request \in Requests
    /\ pc = "answer" => response.bytes \in Nat

(* How far the adapter is, at each place of the program. The flags of the  *)
(* finally clause tell it but for the two places between a call and its    *)
(* flag; "close" is reached only with a channel that was reset, but for a  *)
(* flag that was not set or a reset that failed.                           *)
FlagsInv ==
    /\ started => opened
    /\ pc = "open" => device = "closed" /\ ~opened /\ ~started
    /\ pc = "opened" => device = "open" /\ ~opened /\ ~started
    /\ pc = "init" => device = "open" /\ opened /\ ~started
    /\ pc = "start" => device = "ready" /\ opened /\ ~started
    /\ pc = "started" => device = "running" /\ opened /\ ~started
    /\ pc \notin Opens \cup Stopped => device = "running" /\ opened /\ started
    /\ pc \in {"finally", "close"} =>
         /\ device \in {"closed", "open", "ready", "running"}
         /\ device # "closed" => opened \/ "opened" \in lapses
    /\ pc = "finally" /\ device = "running" => started \/ "started" \in lapses
    /\ pc = "close" /\ device = "running" =>
         lapses \cap {"started", "reset failed"} # {}
    /\ ReleasedAtEnd

(* Flow control is owed, or on its way, only while the program waits for   *)
(* it; whoever gave a transfer up waits for nothing.                       *)
FlowHeld == rx # None /\ rx.kind = "flow"

FlowInv ==
    /\ owes => pc \in {"flow"} \cup Stopped
    /\ FlowHeld => /\ pc \in {"flow"} \cup Stopped
                   /\ rx.status = 0 => ~owes
    /\ lost => awaited = 0 /\ ~owes
    /\ pc \notin {"flow", "segments"} \cup Stopped => awaited = 0
    /\ pc \in {"flow", "segments"} => transfer.left > 0

(* The grant the application has in mind for a block of this size.         *)
Grant(block, sent) == IF block = 0 THEN None ELSE block - sent

(* Within a transfer both ends count the same frames.                      *)
CountInv ==
    /\ ~lost /\ pc \in {"flow", "segments"} => awaited = transfer.left
    /\ ~lost /\ pc = "flow" => owes \/ FlowHeld
    /\ ~lost /\ pc = "flow" /\ FlowHeld /\ rx.status = 0
          => credit = Grant(rx.block, 0)
    /\ ~lost /\ pc = "flow" /\ owes => credit = 0
    /\ ~lost /\ pc = "segments"
          => /\ credit = Grant(transfer.block, transfer.sent)
             /\ transfer.block # 0 => transfer.sent < transfer.block

IInv == TypesInv /\ FlagsInv /\ FlowInv /\ CountInv

-----------------------------------------------------------------------------
LEMMA InitHolds == Init => IInv
<1> SUFFICES ASSUME Init PROVE IInv
  OBVIOUS
<1>1. TypesInv
  BY DEF Init, TypesInv, Labels, Opens, Idle
<1>2. FlagsInv /\ FlowInv /\ CountInv
  BY DEF Init, FlagsInv, FlowInv, CountInv, FlowHeld, Stopped, Opens,
         ReleasedAtEnd
<1>q. QED BY <1>1, <1>2 DEF IInv

(* The program is left for the finally clause; Ctrl+C between a call and   *)
(* its flag is remembered.                                                 *)
LEMMA AbandonKeeps ==
    ASSUME IInv, Abandon, pc \notin Stopped,
           lapses' = lapses \cup ({pc} \cap {"opened", "started"}),
           rx' \in {rx, None}, UNCHANGED <<device, application>>
    PROVE  IInv'
<1>1. TypesInv'
  BY DEF IInv, TypesInv, Abandon, Labels, Stopped, Idle, application
<1>2. FlagsInv'
  <2>1. /\ pc' = "finally" /\ lapses \subseteq lapses'
        /\ UNCHANGED <<device, opened, started>>
    BY DEF Abandon
  <2>2. pc \in Labels \ Stopped /\ FlagsInv
    BY DEF IInv, TypesInv
  <2>3. device \in {"closed", "open", "ready", "running"}
    BY <2>2 DEF FlagsInv, Opens, Stopped
  <2>4. device # "closed" => opened \/ "opened" \in lapses'
    BY <2>2 DEF FlagsInv, Labels, Opens, Stopped
  <2>5. device = "running" => started \/ "started" \in lapses'
    BY <2>2 DEF FlagsInv, Labels, Opens, Stopped
  <2>6. started => opened
    BY <2>2 DEF FlagsInv
  <2>q. QED
    BY <2>1, <2>3, <2>4, <2>5, <2>6 DEF FlagsInv, ReleasedAtEnd, Opens, Stopped
<1>3. FlowInv' /\ CountInv'
  BY DEF IInv, FlowInv, CountInv, Abandon, application, Stopped, FlowHeld
<1>q. QED BY <1>1, <1>2, <1>3 DEF IInv

LEMMA RaiseKeeps ==
    ASSUME IInv, Raise, pc \notin Stopped \cup {"opened", "started"},
           rx' \in {rx, None}, UNCHANGED <<device, application>>
    PROVE  IInv'
BY AbandonKeeps DEF Raise

LEMMA FlagsStay ==
    ASSUME FlagsInv, UNCHANGED <<pc, opened, started, lapses, device>>
    PROVE  FlagsInv'
BY DEF FlagsInv, ReleasedAtEnd, Opens, Stopped

(* Steps that touch neither the adapter nor the transfer.                  *)
LEMMA QuietKeeps ==
    ASSUME IInv, pc \notin {"flow", "segments"} \cup Stopped,
           pc' \in Labels \ ({"flow", "segments"} \cup Opens \cup Stopped),
           UNCHANGED <<opened, started, transfer, device, application>>,
           rx' \in {rx, None},
           pc' = "decide" => request' \in Requests,
           pc' = "answer" => response'.bytes \in Nat,
           pc \notin Opens
    PROVE  IInv'
<1>1. TypesInv'
  BY DEF IInv, TypesInv, application
<1>2. FlagsInv'
  BY DEF IInv, TypesInv, FlagsInv, ReleasedAtEnd, Stopped, Labels, Opens
<1>3. FlowInv' /\ CountInv'
  BY DEF IInv, FlowInv, CountInv, application, Stopped, FlowHeld
<1>q. QED BY <1>1, <1>2, <1>3 DEF IInv

(* Opening and closing.                                                    *)
LEMMA OpeningKeeps == ASSUME IInv, Opening PROVE IInv'
<1>1. CASE CallFails /\ pc \in {"open", "init", "start"}
  BY <1>1, RaiseKeeps DEF CallFails, Stopped
<1>2. CASE ~CallFails \/ pc \notin {"open", "init", "start"}
  <2>1. /\ pc \in Opens /\ pc' \in {"opened", "init", "start", "started", "loop"}
        /\ UNCHANGED <<held, rx, application>>
    BY <1>2 DEF Opening, OpenDevice, MarkOpened, InitCan, StartCan, MarkStarted,
                Opens
  <2>2. TypesInv'
    <3>1. opened' \in BOOLEAN /\ started' \in BOOLEAN
      BY <1>2 DEF IInv, TypesInv, Opening, OpenDevice, MarkOpened, InitCan,
                  StartCan, MarkStarted
    <3>q. QED BY <2>1, <3>1 DEF IInv, TypesInv, Labels, Opens, held, application
  <2>3. FlagsInv'
    <3> DEFINE Goes(from, to, d) == pc = from /\ pc' = to /\ device' = d
    <3>1. /\ pc \in Opens /\ FlagsInv
          /\ \/ Goes("open", "opened", "open") /\ UNCHANGED <<opened, started>>
             \/ Goes("opened", "init", device) /\ opened' /\ UNCHANGED started
             \/ Goes("init", "start", "ready") /\ UNCHANGED <<opened, started>>
             \/ Goes("start", "started", "running")
                /\ UNCHANGED <<opened, started>>
             \/ Goes("started", "loop", device) /\ started' /\ UNCHANGED opened
          /\ opened \in BOOLEAN /\ started \in BOOLEAN
      BY <1>2, <2>1 DEF IInv, TypesInv, Opening, OpenDevice, MarkOpened, InitCan, StartCan,
                        MarkStarted
    <3>2. /\ pc' = "opened" => device' = "open" /\ ~opened' /\ ~started'
          /\ pc' = "init" => device' = "open" /\ opened' /\ ~started'
          /\ pc' = "start" => device' = "ready" /\ opened' /\ ~started'
          /\ pc' = "started" => device' = "running" /\ opened' /\ ~started'
          /\ pc' = "loop" => device' = "running" /\ opened' /\ started'
      <4>1. CASE Goes("open", "opened", "open") /\ UNCHANGED <<opened, started>>
        BY <3>1, <4>1 DEF FlagsInv
      <4>2. CASE Goes("opened", "init", device) /\ opened' /\ UNCHANGED started
        BY <3>1, <4>2 DEF FlagsInv
      <4>3. CASE Goes("init", "start", "ready") /\ UNCHANGED <<opened, started>>
        BY <3>1, <4>3 DEF FlagsInv
      <4>4. CASE Goes("start", "started", "running")
                 /\ UNCHANGED <<opened, started>>
        BY <3>1, <4>4 DEF FlagsInv
      <4>5. CASE Goes("started", "loop", device) /\ started' /\ UNCHANGED opened
        BY <3>1, <4>5 DEF FlagsInv
      <4>q. QED BY <3>1, <4>1, <4>2, <4>3, <4>4, <4>5
    <3> HIDE DEF Goes
    <3>q. QED BY <2>1, <3>2 DEF FlagsInv, ReleasedAtEnd, Opens, Stopped
  <2>4. FlowInv' /\ CountInv'
    BY <2>1 DEF IInv, FlowInv, CountInv, held, application, Stopped, Opens,
                FlowHeld
  <2>q. QED BY <2>2, <2>3, <2>4 DEF IInv
<1>q. QED BY <1>1, <1>2

(* The finally clause, whole or cut short.                                 *)
LEMMA ClosingKeeps == ASSUME IInv, Closing \/ CutShort PROVE IInv'
<1>1. /\ pc \in {"finally", "close"} /\ pc' \in {"close", "end"}
      /\ rx' \in {rx, None}
      /\ UNCHANGED <<opened, started, held, application>>
  BY DEF Closing, ResetCan, CloseDevice, CloseIf, CutShort
<1>2. TypesInv'
  BY <1>1 DEF IInv, TypesInv, Labels, Stopped, held, application
<1>3. FlagsInv'
  <2>1. CASE ResetCan
    BY <2>1 DEF IInv, FlagsInv, ReleasedAtEnd, ResetCan, Opens, Stopped
  <2>2. CASE CloseDevice
    BY <2>2 DEF IInv, FlagsInv, ReleasedAtEnd, CloseDevice, CloseIf, Opens, Stopped
  <2>3. CASE CutShort
    BY <2>3 DEF IInv, FlagsInv, ReleasedAtEnd, CutShort, Opens, Stopped
  <2>q. QED BY <2>1, <2>2, <2>3 DEF Closing
<1>4. FlowInv' /\ CountInv'
  BY <1>1 DEF IInv, FlowInv, CountInv, held, application, Stopped, FlowHeld
<1>q. QED BY <1>2, <1>3, <1>4 DEF IInv

LEMMA InterruptKeeps == ASSUME IInv, Interrupt PROVE IInv'
BY AbandonKeeps DEF Interrupt

(* The loop: only a decision needs a fact about the request.               *)
LEMMA LoopingKeeps == ASSUME IInv, Looping PROVE IInv'
<1>1. CASE PollDue
  BY <1>1, QuietKeeps DEF PollDue, Stopped, Labels, Opens
<1>2. CASE SendSample
  <2>1. CASE CallFails
    BY <1>2, <2>1, RaiseKeeps DEF SendSample, CallFails, Stopped
  <2>2. CASE ~CallFails
    BY <1>2, <2>2, QuietKeeps
       DEF SendSample, Transmit, Heard, Stopped, Labels, Opens
  <2>q. QED BY <2>1, <2>2
<1>3. CASE Receive
  <2>1. CASE Raise
    BY <1>3, <2>1, RaiseKeeps DEF Receive, CallFails, Stopped, application
  <2>2. CASE ~Raise
    <3>1. pc = "samples" /\ pc' \in {"loop", "decide"}
      BY <1>3, <2>2 DEF Receive, CallFails
    <3>2. pc' = "decide" => request' \in Requests
      <4> SUFFICES ASSUME pc' = "decide" PROVE request' \in Requests
        OBVIOUS
      <4>1. rx # None /\ rx.kind = "request" /\ request' = rx.payload
        BY <1>3, <2>2 DEF Receive, CallFails
      <4>q. QED BY <4>1 DEF IInv, TypesInv, Frames
    <3>q. QED
      BY <1>3, <2>2, <3>1, <3>2, QuietKeeps
         DEF Receive, CallFails, Stopped, Labels, Opens, application
  <2>q. QED BY <2>1, <2>2
<1>4. CASE Decide
  <2>1. pc = "decide" /\ pc' \in {"loop", "answer"}
    BY <1>4 DEF Decide
  <2>2. pc' = "answer" => response'.bytes \in Nat
    <3> SUFFICES ASSUME pc' = "answer" PROVE response'.bytes \in Nat
      OBVIOUS
    <3>1. response' # None
      BY <1>4 DEF Decide
    <3>2. CASE Define(request)
      BY <3>2 DEF Define, Answer, Negative
    <3>3. CASE StopSending(request)
      BY <3>3 DEF StopSending, Answer
    <3>4. CASE StartSending(request)
      BY <3>4 DEF StartSending, Answer, Negative
    <3>5. CASE response' = BaseDecision(request)
      BY <2>1, <3>1, <3>5, RequestsAssumption DEF IInv, TypesInv
    <3>q. QED BY <1>4, <3>2, <3>3, <3>4, <3>5 DEF Decide
  <2>q. QED
    BY <1>4, <2>1, <2>2, QuietKeeps DEF Decide, Stopped, Labels, Opens
<1>q. QED BY <1>1, <1>2, <1>3, <1>4 DEF Looping
-----------------------------------------------------------------------------
(* The transfer of an answer.                                              *)
LEMMA SendAnswerKeeps == ASSUME IInv, SendAnswer PROVE IInv'
<1> DEFINE more == Segments(response.bytes) - 1
<1>1. pc = "answer" /\ response.bytes \in Nat /\ more \in Nat
  BY DEF IInv, TypesInv, SendAnswer, Segments
<1>2. CASE CallFails
  BY <1>1, <1>2, RaiseKeeps DEF CallFails, Stopped
<1>3. CASE more = 0 /\ ~CallFails
  <2>1. /\ pc' = "loop" /\ Heard("answer")
        /\ UNCHANGED <<opened, started, transfer, device, rx>>
    BY <1>1, <1>3 DEF SendAnswer, Transmit
  <2>q. QED
    BY <1>1, <2>1, QuietKeeps DEF Heard, Stopped, Labels, Opens
<1>4. CASE more > 0 /\ ~CallFails
  <2>1. /\ pc' = "flow" /\ Heard("first")
        /\ transfer' = [Idle EXCEPT !.left = more]
        /\ UNCHANGED <<opened, started, device, rx>>
    BY <1>1, <1>4 DEF SendAnswer, Transmit
  <2>2. awaited' = more /\ credit' = 0 /\ owes' /\ ~lost'
    BY <1>1, <2>1 DEF Heard, Idle
  <2>3. TypesInv'
    BY <1>1, <2>1, <2>2 DEF IInv, TypesInv, Heard, Labels, Opens, Idle
  <2>4. FlagsInv'
    BY <1>1, <2>1 DEF IInv, FlagsInv, ReleasedAtEnd, Opens, Stopped
  <2>5. FlowInv' /\ CountInv'
    BY <1>1, <1>4, <2>1, <2>2
       DEF IInv, FlowInv, CountInv, Stopped, FlowHeld, Idle
  <2>q. QED BY <2>3, <2>4, <2>5 DEF IInv
<1>q. QED BY <1>1, <1>2, <1>3, <1>4 DEF SendAnswer

LEMMA AwaitFlowKeeps == ASSUME IInv, AwaitFlow PROVE IInv'
<1>1. pc = "flow" /\ rx # None /\ rx' = None /\ UNCHANGED <<device, application>>
  BY DEF AwaitFlow
<1>2. CASE Raise
  BY <1>1, <1>2, RaiseKeeps DEF Stopped
<1>3. CASE rx.kind # "flow" /\ ~Raise
  <2>1. UNCHANGED program
    BY <1>3 DEF AwaitFlow
  <2>2. TypesInv' /\ FlagsInv'
    BY <1>1, <2>1, FlagsStay DEF IInv, TypesInv, program, held, application
  <2>3. FlowInv' /\ CountInv'
    BY <1>1, <1>3, <2>1
       DEF IInv, FlowInv, CountInv, Stopped, FlowHeld, program, held, application
  <2>q. QED BY <2>2, <2>3 DEF IInv
<1>4. CASE rx.kind = "flow" /\ ~Raise
  <2>1. /\ pc' = "segments" /\ rx.status = 0
        /\ transfer' = [left |-> transfer.left, block |-> rx.block, sent |-> 0]
        /\ UNCHANGED <<opened, started>>
    BY <1>4 DEF AwaitFlow
  <2>2. rx.block \in Nat
    <3>1. rx \in [kind: {"flow"}, status: {0, 1}, block: Blocks \cup {0}]
      BY <1>1, <1>4 DEF IInv, TypesInv, Frames
    <3>2. rx.block \in Blocks \cup {0}
      BY <3>1
    <3>3. Blocks \subseteq Nat /\ 0 \in Nat
      BY BenchAssumption
    <3>q. QED BY <3>2, <3>3, Zenon
  <2>3. TypesInv'
    BY <1>1, <2>1, <2>2 DEF IInv, TypesInv, Labels, application
  <2>4. FlagsInv'
    BY <1>1, <2>1 DEF IInv, FlagsInv, ReleasedAtEnd, Opens, Stopped
  <2>5. /\ transfer'.left = transfer.left
        /\ transfer'.block = rx.block /\ transfer'.sent = 0
    BY <2>1 DEF IInv, TypesInv
  <2>6. FlowInv' /\ CountInv'
    BY <1>1, <1>4, <2>1, <2>2, <2>5
       DEF IInv, FlowInv, CountInv, Stopped, FlowHeld, application, Grant
  <2>q. QED BY <2>3, <2>4, <2>6 DEF IInv
<1>q. QED BY <1>2, <1>3, <1>4

LEMMA FlowTimeoutKeeps == ASSUME IInv, FlowTimeout PROVE IInv'
BY RaiseKeeps DEF FlowTimeout, CallFails, Stopped

(* The program needs flow control exactly when the application owes it.    *)
LEMMA SendSegmentKeeps == ASSUME IInv, SendSegment PROVE IInv'
<1>1. pc = "segments"
  BY DEF SendSegment
<1>2. CASE CallFails
  BY <1>1, <1>2, RaiseKeeps DEF CallFails, Stopped
<1>3. CASE ~CallFails
  <2> DEFINE t == [left |-> transfer.left - 1, block |-> transfer.block,
                   sent |-> transfer.sent + 1]
  <2>1. /\ pc' = IF NeedsFlow(t) THEN "flow"
                 ELSE IF t.left = 0 THEN "loop" ELSE "segments"
        /\ transfer' = IF pc' = "loop" THEN Idle ELSE t
        /\ Heard("consecutive")
        /\ UNCHANGED <<opened, started, device, rx>>
    BY <1>3 DEF SendSegment, Transmit
  <2>2. /\ transfer \in [left: Nat, block: Nat, sent: Nat]
        /\ transfer.left > 0 /\ awaited \in Nat /\ credit \in Nat \cup {None}
        /\ lost \in BOOLEAN /\ ~owes /\ ~FlowHeld
    BY <1>1 DEF IInv, TypesInv, FlowInv, Stopped
  <2>3. /\ t \in [left: Nat, block: Nat, sent: Nat]
        /\ t.left = transfer.left - 1 /\ t.block = transfer.block
        /\ t.sent = transfer.sent + 1
    BY <2>2
  <2>4. /\ awaited' = IF awaited = 0 THEN 0 ELSE awaited - 1
        /\ credit' = IF credit = None \/ awaited <= 1 THEN None ELSE credit - 1
        /\ owes' <=> (awaited > 1 /\ credit = 1)
        /\ lost' <=> (lost /\ transfer'.left > 0)
    BY <2>1 DEF Heard
  <2>5. ~lost => /\ awaited = transfer.left
                 /\ credit = Grant(transfer.block, transfer.sent)
                 /\ transfer.block # 0 => transfer.sent < transfer.block
    BY <1>1 DEF IInv, CountInv
  <2>6. lost => awaited = 0
    BY DEF IInv, FlowInv
  <2>7. pc' = "loop" => awaited' = 0 /\ ~owes'
    <3> SUFFICES ASSUME pc' = "loop" PROVE awaited' = 0 /\ ~owes'
      OBVIOUS
    <3>1. t.left = 0
      BY <2>1
    <3>q. QED BY <2>2, <2>3, <2>4, <2>5, <2>6, <3>1
  <2>8. pc' # "loop" => transfer' = t /\ t.left > 0
    <3>1. CASE NeedsFlow(t)
      BY <2>1, <3>1 DEF NeedsFlow
    <3>2. CASE ~NeedsFlow(t) /\ t.left = 0
      BY <2>1, <3>2
    <3>3. CASE ~NeedsFlow(t) /\ t.left # 0
      <4>1. t.left > 0
        BY <2>2, <2>3, <3>3
      <4>q. QED BY <2>1, <3>3, <4>1
    <3>q. QED BY <3>1, <3>2, <3>3
  <2>9. pc' \in {"flow", "loop", "segments"}
    BY <2>1
  <2>10. credit' \in Nat \cup {None}
    <3>1. CASE credit = None \/ awaited <= 1
      BY <2>4, <3>1
    <3>2. CASE credit # None /\ awaited > 1
      <4>1. credit \in Nat /\ credit # 0
        BY <2>2, <2>5, <2>6, <3>2 DEF Grant
      <4>q. QED BY <2>2, <2>4, <3>2, <4>1
    <3>q. QED BY <2>2, <3>1, <3>2
  <2>18. owes' \in BOOLEAN /\ lost' \in BOOLEAN
    BY <2>1 DEF Heard
  <2>11. TypesInv'
    BY <2>18, <2>1, <2>2, <2>3, <2>4, <2>8, <2>9, <2>10
       DEF IInv, TypesInv, Labels, Idle
  <2>12. FlagsInv'
    BY <1>1, <2>1, <2>9 DEF IInv, FlagsInv, ReleasedAtEnd, Opens, Stopped
  <2>13. lost' => awaited' = 0 /\ ~owes'
    BY <2>4, <2>6
  <2>14. ~lost' => ~lost \/ pc' = "loop"
    BY <2>2, <2>3, <2>4, <2>8
  <2>15. CASE pc' = "loop"
    <3>1. FlowInv' /\ CountInv'
      BY <2>1, <2>2, <2>7, <2>13, <2>15 DEF FlowInv, CountInv, Stopped, FlowHeld
    <3>q. QED BY <2>11, <2>12, <3>1 DEF IInv
  <2>16. CASE pc' = "segments"
    <3>1. ~NeedsFlow(t)
      BY <2>1, <2>16
    <3>2. ~lost' => /\ awaited' = t.left /\ ~owes'
                    /\ credit' = Grant(t.block, t.sent)
                    /\ t.block # 0 => t.sent < t.block
      <4> HAVE ~lost'
      <4>1. ~lost /\ t.left > 0
        BY <2>8, <2>14, <2>16
      <4>2. awaited = transfer.left /\ awaited > 1
        BY <2>2, <2>3, <2>5, <4>1
      <4>3. CASE transfer.block = 0
        BY <2>2, <2>3, <2>4, <2>5, <4>1, <4>2, <4>3, NoneAssumption DEF Grant
      <4>4. CASE transfer.block # 0
        <5>1. credit = transfer.block - transfer.sent /\ credit \in Nat
              /\ t.sent < t.block
          BY <2>2, <2>3, <2>5, <3>1, <4>1, <4>4 DEF Grant, NeedsFlow
        <5>2. credit # None
          BY <5>1, NoneAssumption
        <5>q. QED
          BY <2>2, <2>3, <2>4, <4>2, <4>4, <5>1, <5>2 DEF Grant
      <4>q. QED BY <4>3, <4>4
    <3>3. owes' => FALSE
      BY <2>4, <2>13, <3>2
    <3>4. FlowInv' /\ CountInv'
      BY <2>1, <2>2, <2>8, <2>13, <2>16, <3>2, <3>3
         DEF FlowInv, CountInv, Stopped, FlowHeld
    <3>q. QED BY <2>11, <2>12, <3>4 DEF IInv
  <2>17. CASE pc' = "flow"
    <3>1. NeedsFlow(t)
      BY <2>1, <2>17
    <3>2. ~lost' => awaited' = t.left /\ owes' /\ credit' = 0
      <4> HAVE ~lost'
      <4>1. ~lost /\ t.left > 0
        BY <2>8, <2>14, <2>17
      <4>2. awaited = transfer.left /\ awaited > 1
        BY <2>2, <2>3, <2>5, <4>1
      <4>3. credit = 1
        BY <2>2, <2>3, <2>5, <3>1, <4>1 DEF Grant, NeedsFlow
      <4>q. QED BY <2>2, <2>3, <2>4, <4>2, <4>3, NoneAssumption
    <3>3. FlowInv' /\ CountInv'
      BY <2>1, <2>2, <2>8, <2>13, <2>17, <3>2
         DEF FlowInv, CountInv, Stopped, FlowHeld
    <3>q. QED BY <2>11, <2>12, <3>3 DEF IInv
  <2>q. QED BY <2>9, <2>15, <2>16, <2>17
<1>q. QED BY <1>2, <1>3
-----------------------------------------------------------------------------
(* The application, the bus and the clock.                                 *)
LEMMA AppRequestKeeps == ASSUME IInv, AppRequest PROVE IInv'
<1>1. /\ rx = None /\ rx' \in Frames /\ rx'.kind # "flow"
      /\ UNCHANGED <<program, device, application>>
  BY DEF AppRequest, Send, Frames
<1>2. TypesInv' /\ FlagsInv'
  BY <1>1, FlagsStay
     DEF IInv, TypesInv, program, held,
         application
<1>3. FlowInv' /\ CountInv'
  BY <1>1 DEF IInv, FlowInv, CountInv, FlowHeld, Stopped, program, held,
              application
<1>q. QED BY <1>2, <1>3 DEF IInv

LEMMA AppFlowKeeps == ASSUME IInv, AppFlow PROVE IInv'
<1>1. owes /\ rx = None /\ UNCHANGED <<program, device, awaited, lost>>
  BY DEF AppFlow, Send
<1>2. pc \in {"flow"} \cup Stopped /\ ~lost
  BY <1>1 DEF IInv, FlowInv
<1>3. CASE \E b \in Blocks : /\ rx' = [kind |-> "flow", status |-> 0, block |-> b]
                             /\ credit' = Grant(b, 0)
                             /\ owes' = FALSE
  <2>1. PICK b \in Blocks : /\ rx' = [kind |-> "flow", status |-> 0, block |-> b]
                            /\ credit' = Grant(b, 0)
                            /\ owes' = FALSE
    BY <1>3
  <2>2. b \in Nat /\ credit' \in Nat \cup {None}
    BY <2>1, BenchAssumption DEF Grant
  <2>3. rx' \in Frames
    BY <2>1 DEF Frames
  <2>4. TypesInv' /\ FlagsInv'
    BY <1>1, <2>1, <2>2, <2>3, FlagsStay DEF IInv, TypesInv, program, held
  <2>5. FlowInv' /\ CountInv'
    BY <1>1, <1>2, <2>1, <2>3, NoneAssumption
       DEF IInv, FlowInv, CountInv, FlowHeld, Stopped, program, held
  <2>q. QED BY <2>4, <2>5 DEF IInv
<1>4. CASE /\ rx' = [kind |-> "flow", status |-> 1, block |-> 0]
           /\ UNCHANGED <<credit, owes>>
  <2>1. rx' \in Frames
    BY <1>4 DEF Frames
  <2>2. TypesInv' /\ FlagsInv'
    BY <1>1, <1>4, <2>1, FlagsStay DEF IInv, TypesInv, program, held
  <2>3. FlowInv' /\ CountInv'
    BY <1>1, <1>2, <1>4, <2>1, NoneAssumption
       DEF IInv, FlowInv, CountInv, FlowHeld, Stopped, program, held
  <2>q. QED BY <2>2, <2>3 DEF IInv
<1>5. \A b \in Blocks : (IF b = 0 THEN None ELSE b) = Grant(b, 0)
  BY BenchAssumption DEF Grant
<1>q. QED BY <1>3, <1>4, <1>5 DEF AppFlow, Send

LEMMA AppGivesUpKeeps == ASSUME IInv, AppGivesUp PROVE IInv'
<1>1. /\ awaited' = 0 /\ credit' = None /\ ~owes' /\ lost' = TRUE
      /\ owes' \in BOOLEAN /\ UNCHANGED <<program, device, rx>>
  BY DEF AppGivesUp
<1>2. TypesInv' /\ FlagsInv'
  BY <1>1, FlagsStay DEF IInv, TypesInv, program, held
<1>3. FlowInv' /\ CountInv'
  BY <1>1 DEF IInv, FlowInv, CountInv, FlowHeld, Stopped, program, held
<1>q. QED BY <1>2, <1>3 DEF IInv

LEMMA TickKeeps == ASSUME IInv, Tick PROVE IInv'
<1>1. UNCHANGED <<pc, opened, started, lapses, request, response, transfer,
                  device, rx, application>>
  BY DEF Tick
<1>2. TypesInv' /\ FlagsInv'
  BY <1>1, FlagsStay DEF IInv, TypesInv, application
<1>3. FlowInv' /\ CountInv'
  BY <1>1 DEF IInv, FlowInv, CountInv, FlowHeld, application
<1>q. QED BY <1>2, <1>3 DEF IInv

-----------------------------------------------------------------------------
LEMMA NextKeeps == IInv /\ [Next]_vars => IInv'
<1> SUFFICES ASSUME IInv, [Next]_vars PROVE IInv'
  OBVIOUS
<1>1. CASE UNCHANGED vars
  <2>1. UNCHANGED <<pc, opened, started, lapses, request, response, transfer,
                    device, rx, application>>
    BY <1>1 DEF vars, program, held
  <2>2. TypesInv' /\ FlagsInv'
    BY <2>1, FlagsStay DEF IInv, TypesInv, application
  <2>3. FlowInv' /\ CountInv'
    BY <2>1 DEF IInv, FlowInv, CountInv, FlowHeld, application
  <2>q. QED BY <2>2, <2>3 DEF IInv
<1>2. CASE Opening \/ Closing \/ CutShort \/ Looping \/ Interrupt
  BY <1>2, OpeningKeeps, ClosingKeeps, LoopingKeeps, InterruptKeeps
<1>3. CASE Sending
  BY <1>3, SendAnswerKeeps, AwaitFlowKeeps, FlowTimeoutKeeps, SendSegmentKeeps
     DEF Sending
<1>4. CASE AppRequest \/ AppFlow \/ AppGivesUp \/ Tick
  BY <1>4, AppRequestKeeps, AppFlowKeeps, AppGivesUpKeeps, TickKeeps
<1>q. QED
  BY <1>1, <1>2, <1>3, <1>4 DEF Next, Opening, Closing, Looping, Sending

(* The inductive invariant holds of every behaviour.                       *)
THEOREM Invariance == Spec => []IInv
BY InitHolds, NextKeeps, PTL DEF Spec

(* Whatever call fails and whenever the operator presses Ctrl+C, the       *)
(* adapter is closed when a bench program ends, and was reset before if it *)
(* was running (the finally clauses of run_bench, run_simulator and        *)
(* run_dynamic_simulator), but for the four gaps of the clause: Ctrl+C     *)
(* between a call and its flag, Ctrl+C within the clause, and a reset or a *)
(* close that fails.                                                       *)
THEOREM AdapterReleased == Spec => []ReleasedAtEnd
<1>1. IInv => ReleasedAtEnd
  BY DEF IInv, FlagsInv
<1>q. QED BY <1>1, Invariance, PTL

(* send_isotp and the receiver count the same frames of a segmented answer *)
(* and the same grants, for any block size and any size of an answer.      *)
THEOREM TransferAgreement == Spec => []TransfersAgreed
<1>1. IInv => TransfersAgreed
  <2> SUFFICES ASSUME IInv, ~lost PROVE TransfersAgreed
    BY DEF TransfersAgreed
  <2>1. ASSUME pc = "segments" PROVE awaited = transfer.left /\ credit # 0
    <3>1. /\ awaited = transfer.left
          /\ credit = Grant(transfer.block, transfer.sent)
          /\ transfer.block # 0 => transfer.sent < transfer.block
      BY <2>1 DEF IInv, CountInv
    <3>2. transfer.block \in Nat /\ transfer.sent \in Nat
      BY DEF IInv, TypesInv
    <3>q. QED BY <3>1, <3>2, NoneAssumption DEF Grant
  <2>2. pc = "flow" => owes \/ (rx # None /\ rx.kind = "flow")
    BY DEF IInv, CountInv, FlowHeld
  <2>3. pc \in {"loop", "samples", "decide", "answer"} => awaited = 0
    BY DEF IInv, FlowInv, Stopped
  <2>q. QED BY <2>1, <2>2, <2>3 DEF TransfersAgreed
<1>q. QED BY <1>1, Invariance, PTL

-----------------------------------------------------------------------------
(* The second argument: definitions, schedules and what was promised.      *)
DefinitionsInv ==
    /\ definitions = [d \in Dpids |-> definitions[d]]
    /\ scheduled = [d \in Dpids |-> scheduled[d]]
    /\ \A d \in Dpids : definitions[d] # None =>
            /\ definitions[d] \in Seq(Pids)
            /\ Known(definitions[d]) /\ Bytes(definitions[d]) <= 7
    /\ \A d \in Dpids : scheduled[d] # None =>
            /\ scheduled[d] \in Schedules
            /\ Period[scheduled[d].level] > 0
            /\ definitions[d] # None
    /\ request # None => request \in Requests

(* A schedule is late by whole periods of the grid it started on, and it   *)
(* is late only when a deadline has passed that it owes a sample for.      *)
OnGrid(s, ticks) ==
    /\ ticks \in 1 .. Period[s.level]
    /\ s.next \in -MaxLate .. Period[s.level]
    /\ s.next > 0 => ticks = s.next
    /\ s.next <= 0 => \E k \in Nat : ticks = s.next + k * Period[s.level]

GridInv ==
    /\ phase = [d \in Dpids |-> phase[d]]
    /\ owed \in [Dpids -> BOOLEAN]
    /\ \A d \in Dpids : scheduled[d] = None => phase[d] = 0
    /\ \A d \in Dpids : scheduled[d] # None =>
            /\ OnGrid(scheduled[d], phase[d])
            /\ scheduled[d].next <= 0 => owed[d]

(* What the application takes as agreed once a pending answer is sent is   *)
(* the definition; a sample that waits to be sent has its content.         *)
Promised(d) == IF pc = "answer" /\ d \in response.about THEN response.promise
                                                        ELSE agreed[d]

AgreedInv ==
    /\ agreed = [d \in Dpids |-> agreed[d]]
    /\ \A d \in Dpids : scheduled[d] # None => Promised(d) = definitions[d]
    /\ pc = "answer" => response.about = {} \/ response.bytes <= 7
    /\ due # {} => pc = "samples"
    /\ \A s \in due : s.dpid \in Dpids /\ agreed[s.dpid] = s.pids

SInv == DefinitionsInv /\ GridInv /\ AgreedInv

LEMMA SInitHolds == Init => SInv
BY DEF Init, SInv, DefinitionsInv, GridInv, AgreedInv, Promised, Nothing

LEMMA AbandonSettles == ASSUME Abandon PROVE SInv'
BY DEF Abandon, SInv, DefinitionsInv, GridInv, AgreedInv, Promised, Nothing

(* Steps that change no definition, no schedule and no promise.            *)
LEMMA QuietSettles ==
    ASSUME SInv, UNCHANGED <<definitions, scheduled, agreed, phase, owed>>,
           due' \subseteq due, due' # {} => pc' = "samples",
           request' # None => request' \in Requests,
           \/ UNCHANGED <<pc, response>>
           \/ pc' # "answer" /\ (pc = "answer" => response.about = {})
    PROVE  SInv'
<1>1. DefinitionsInv'
  BY DEF SInv, DefinitionsInv
<1>2. GridInv'
  BY DEF SInv, GridInv, OnGrid
<1>3. AgreedInv'
  BY DEF SInv, AgreedInv, Promised
<1>q. QED BY <1>1, <1>2, <1>3 DEF SInv

-----------------------------------------------------------------------------
(* Whole periods are told apart by what is left over.                      *)
LEMMA WholePeriods ==
    ASSUME NEW p \in Nat, p > 0, NEW n \in Int, NEW k \in Int,
           NEW x \in Int, x + n * p \in 1 .. p, x + k * p \in 1 .. p
    PROVE  n = k
<1>1. ASSUME NEW m \in Int, m > 0 PROVE m * p >= p
  <2>1. (m - 1) * p >= 0
    BY <1>1
  <2>2. (m - 1) * p = m * p - p
    BY <1>1
  <2>q. QED BY <2>1, <2>2
<1>2. n * p - k * p < p /\ k * p - n * p < p
  OBVIOUS
<1>3. (n - k) * p = n * p - k * p /\ (k - n) * p = k * p - n * p
  OBVIOUS
<1>4. ~(n - k > 0)
  <2> SUFFICES ASSUME n - k > 0 PROVE FALSE
    OBVIOUS
  <2>1. (n - k) * p >= p
    BY <1>1
  <2>q. QED BY <1>2, <1>3, <2>1
<1>5. ~(k - n > 0)
  <2> SUFFICES ASSUME k - n > 0 PROVE FALSE
    OBVIOUS
  <2>1. (k - n) * p >= p
    BY <1>1
  <2>q. QED BY <1>2, <1>3, <2>1
<1>q. QED BY <1>4, <1>5

(* poll_due moves a late schedule to the deadline that the grid has next.  *)
LEMMA AdvanceMeetsGrid ==
    ASSUME NEW s \in Schedules, NEW ticks, OnGrid(s, ticks), s.next <= 0
    PROVE  Advance(s) = [s EXCEPT !.next = ticks]
<1> DEFINE p == Period[s.level]
           Lands(k) == s.next + k * p > 0 /\ s.next + (k - 1) * p <= 0
<1>1. p \in Nat /\ p > 0 /\ s.next \in Int /\ ticks \in 1 .. p
      /\ s.next >= -MaxLate /\ MaxLate \in Nat
  BY BenchAssumption DEF OnGrid, Schedules
<1>2. PICK k \in Nat : ticks = s.next + k * p
  BY DEF OnGrid
<1> HIDE DEF p
<1>3. \A i \in Int : (i - 1) * p = i * p - p
  BY <1>1
<1>4. k # 0
  BY <1>1, <1>2
<1>5. k <= MaxLate + 1
  <2>1. (k - 1) * p <= MaxLate
    BY <1>1, <1>2, <1>3
  <2>2. (k - 1) * p >= k - 1
    <3>1. (k - 1) * (p - 1) >= 0
      BY <1>1, <1>4
    <3>2. (k - 1) * (p - 1) = (k - 1) * p - (k - 1)
      BY <1>1
    <3>q. QED BY <1>1, <3>1, <3>2
  <2>q. QED BY <1>1, <2>1, <2>2
<1>6. k \in 1 .. MaxLate + 1 /\ Lands(k)
  BY <1>1, <1>2, <1>3, <1>4, <1>5
<1>7. ASSUME NEW n \in 1 .. MaxLate + 1, Lands(n) PROVE n = k
  <2>1. n \in Int /\ s.next + n * p \in 1 .. p
    BY <1>1, <1>3, <1>7
  <2>q. QED BY <1>1, <1>2, <2>1, WholePeriods
<1> DEFINE chosen == CHOOSE i \in 1 .. MaxLate + 1 : Lands(i)
<1>8. chosen = k
  BY <1>6, <1>7
<1>9. Advance(s) = [s EXCEPT !.next = @ + chosen * p]
  BY DEF Advance, p
<1>q. QED BY <1>1, <1>2, <1>8, <1>9 DEF Schedules

-----------------------------------------------------------------------------
(* What a decision does to the schedule of one packet.                     *)
Rescheduled(d) ==
    \/ scheduled'[d] = scheduled[d]
    \/ scheduled'[d] = None
    \/ \E level \in 2 .. 4 :
         /\ Period[level] > 0
         /\ scheduled'[d] = [level |-> level, next |-> Period[level]]

LEMMA RestartMeetsGrid ==
    ASSUME SInv, Restart, \A d \in Dpids : Rescheduled(d)
    PROVE  GridInv'
<1>1. phase' = [d \in Dpids |-> phase'[d]] /\ owed' \in [Dpids -> BOOLEAN]
  BY DEF Restart
<1>2. ASSUME NEW d \in Dpids
      PROVE  /\ scheduled'[d] = None => phase'[d] = 0
             /\ scheduled'[d] # None =>
                  /\ OnGrid(scheduled'[d], phase'[d])
                  /\ scheduled'[d].next <= 0 => owed'[d]
  <2>1. CASE scheduled'[d] = None
    BY <2>1 DEF Restart
  <2>2. CASE scheduled'[d] # None /\ scheduled'[d] = scheduled[d]
    <3>1. phase'[d] = phase[d] /\ (owed'[d] <=> owed[d])
      BY <2>2 DEF Restart
    <3>q. QED BY <2>2, <3>1 DEF SInv, GridInv
  <2>3. CASE scheduled'[d] # None /\ scheduled'[d] # scheduled[d]
    <3>1. PICK level \in 2 .. 4 :
            /\ Period[level] > 0
            /\ scheduled'[d] = [level |-> level, next |-> Period[level]]
      BY <2>3 DEF Rescheduled
    <3>2. Period[level] \in Nat /\ MaxLate \in Nat
      BY BenchAssumption
    <3>3. phase'[d] = Period[level]
      BY <2>3, <3>1 DEF Restart
    <3>4. OnGrid(scheduled'[d], phase'[d])
      BY <3>1, <3>2, <3>3 DEF OnGrid
    <3>q. QED BY <2>3, <3>1, <3>2, <3>4
  <2>q. QED BY <2>1, <2>2, <2>3
<1>q. QED BY <1>1, <1>2 DEF GridInv, OnGrid

(* A decision of the base program promises nothing.                        *)
LEMMA BaseDecisionPromisesNothing ==
    ASSUME NEW r, BaseDecision(r) # None
    PROVE  BaseDecision(r).about = {}
BY DEF BaseDecision, Answer, Negative

(* What a decision does to one packet: its schedule is kept with its       *)
(* definition, dropped, or started with its definition as a promise.       *)
DecidedFor(d) ==
    \/ /\ scheduled'[d] = scheduled[d]
       /\ definitions'[d] = definitions[d]
       /\ response' # None => d \notin response'.about
    \/ scheduled'[d] = None
    \/ /\ Rescheduled(d) /\ definitions[d] # None
       /\ definitions'[d] = definitions[d]
       /\ response' # None /\ d \in response'.about
       /\ response'.promise = definitions[d]

Decided ==
    /\ definitions' = [d \in Dpids |-> definitions'[d]]
    /\ scheduled' = [d \in Dpids |-> scheduled'[d]]
    /\ \A d \in Dpids : definitions'[d] # definitions[d] =>
            /\ definitions'[d] \in Seq(Pids)
            /\ Known(definitions'[d]) /\ Bytes(definitions'[d]) <= 7
    /\ \A d \in Dpids : DecidedFor(d)
    /\ response' # None => response'.about = {} \/ response'.bytes <= 7

LEMMA DefineDecides ==
    ASSUME SInv, request \in Requests, request.service = "2C", Define(request)
    PROVE  Decided
<1>1. request.pids \in Seq(Pids) /\ Bytes(request.pids) \in Nat
  BY RequestsAssumption
<1>2. CASE response' = Negative /\ UNCHANGED <<definitions, scheduled>>
  BY <1>2 DEF SInv, DefinitionsInv, Decided, DecidedFor, Negative, Answer
<1>3. CASE /\ response' = [Answer(2) EXCEPT !.about = {request.dpid}]
           /\ definitions' = [definitions EXCEPT ![request.dpid] = request.pids]
           /\ scheduled' = [scheduled EXCEPT ![request.dpid] = None]
           /\ Known(request.pids) /\ ~(Bytes(request.pids) > 7)
  <2>1. /\ definitions = [d \in Dpids |-> definitions[d]]
        /\ scheduled = [d \in Dpids |-> scheduled[d]]
    BY DEF SInv, DefinitionsInv
  <2>2. /\ definitions' = [d \in Dpids |-> definitions'[d]]
        /\ scheduled' = [d \in Dpids |-> scheduled'[d]]
    BY <1>3, <2>1
  <2>3. response'.about = {request.dpid} /\ response'.bytes = 2
    BY <1>3 DEF Answer
  <2>4. ASSUME NEW d \in Dpids
        PROVE  /\ d = request.dpid => /\ definitions'[d] = request.pids
                                      /\ scheduled'[d] = None
               /\ d # request.dpid => /\ definitions'[d] = definitions[d]
                                      /\ scheduled'[d] = scheduled[d]
    BY <1>3, <2>1
  <2>5. Bytes(request.pids) <= 7
    BY <1>1, <1>3
  <2>6. \A d \in Dpids : DecidedFor(d)
    BY <2>3, <2>4 DEF DecidedFor
  <2>7. \A d \in Dpids : definitions'[d] # definitions[d] =>
            /\ definitions'[d] \in Seq(Pids)
            /\ Known(definitions'[d]) /\ Bytes(definitions'[d]) <= 7
    BY <1>1, <1>3, <2>4, <2>5
  <2>q. QED BY <2>2, <2>3, <2>6, <2>7 DEF Decided
<1>q. QED BY <1>2, <1>3 DEF Define

LEMMA StopSendingDecides ==
    ASSUME SInv, StopSending(request), UNCHANGED definitions
    PROVE  Decided
<1> DEFINE stopped == IF request.dpids = <<>> THEN Dpids ELSE ToSet(request.dpids)
<1>1. /\ response'.about = stopped /\ response'.bytes = 0
      /\ scheduled' = [d \in Dpids |-> IF d \in stopped THEN None ELSE scheduled[d]]
  BY DEF StopSending, Answer
<1> HIDE DEF stopped
<1>2. definitions' = [d \in Dpids |-> definitions'[d]]
  BY DEF SInv, DefinitionsInv
<1>q. QED BY <1>1, <1>2 DEF Decided, DecidedFor

LEMMA StartSendingDecides ==
    ASSUME SInv, request \in Requests, request.service = "AA",
           request.level # 0, StartSending(request), UNCHANGED definitions
    PROVE  Decided
<1>1. request.level \in Nat /\ request.dpids \in Seq(Dpids)
  BY RequestsAssumption
<1>2. /\ definitions = [d \in Dpids |-> definitions[d]]
      /\ scheduled = [d \in Dpids |-> scheduled[d]]
  BY DEF SInv, DefinitionsInv
<1>3. CASE UNCHANGED scheduled /\ response' \in {Negative, Answer(0)}
  BY <1>2, <1>3 DEF Decided, DecidedFor, Negative, Answer
<1>4. CASE ~(UNCHANGED scheduled /\ response' \in {Negative, Answer(0)})
  <2> DEFINE d0 == request.dpids[1]
             level == request.level
  <2>0. Len(request.dpids) = 1 => d0 \in Dpids
    BY <1>1
  <2>1. /\ d0 \in Dpids /\ definitions[d0] # None /\ level \in 2 .. 4 /\ Period[level] # 0
        /\ response' = [bytes |-> 0, about |-> {d0}, promise |-> definitions[d0]]
        /\ scheduled' = [scheduled EXCEPT ![d0] =
                           [level |-> level, next |-> Period[level]]]
    BY <1>1, <1>4, <2>0 DEF StartSending
  <2>2. Period[level] > 0
    BY <2>1, BenchAssumption
  <2>3. scheduled' = [d \in Dpids |-> scheduled'[d]]
    BY <1>2, <2>1
  <2> HIDE DEF d0, level
  <2>4. ASSUME NEW d \in Dpids PROVE DecidedFor(d)
    <3>1. CASE d # d0
      BY <1>2, <2>1, <3>1 DEF DecidedFor
    <3>2. CASE d = d0
      <4>1. scheduled'[d] = [level |-> level, next |-> Period[level]]
        BY <1>2, <2>1, <3>2
      <4>2. Rescheduled(d)
        BY <2>1, <2>2, <4>1 DEF Rescheduled
      <4>3. /\ response'.about = {d} /\ response'.promise = definitions[d]
        BY <2>1, <3>2
      <4>4. response' \in Answers
        BY <2>1 DEF Answers, SInv, DefinitionsInv
      <4>q. QED BY <1>2, <2>1, <3>2, <4>2, <4>3, <4>4, NoneAssumption DEF DecidedFor
    <3>q. QED BY <3>1, <3>2
  <2>q. QED BY <1>2, <2>1, <2>3, <2>4 DEF Decided
<1>q. QED BY <1>3, <1>4

LEMMA DecideSettles == ASSUME IInv, SInv, Decide PROVE SInv'
<1>1. /\ pc = "decide" /\ request \in Requests /\ request' = None /\ Restart
      /\ pc' = IF response' = None THEN "loop" ELSE "answer"
      /\ UNCHANGED <<due, agreed>>
  BY DEF Decide, IInv, TypesInv
<1>2. Decided
  <2>1. CASE request.service = "2C" /\ Define(request)
    BY <1>1, <2>1, DefineDecides
  <2>2. CASE StopSending(request) /\ UNCHANGED definitions
    BY <2>2, StopSendingDecides
  <2>3. CASE /\ request.service = "AA" /\ request.level # 0
             /\ StartSending(request) /\ UNCHANGED definitions
    BY <1>1, <2>3, StartSendingDecides
  <2>4. CASE /\ response' = BaseDecision(request)
             /\ UNCHANGED <<definitions, scheduled>>
    <3>1. response' # None => response'.about = {}
      BY <2>4, BaseDecisionPromisesNothing
    <3>q. QED
      BY <2>4, <3>1 DEF Decided, DecidedFor, SInv, DefinitionsInv
  <2>q. QED BY <2>1, <2>2, <2>3, <2>4 DEF Decide
<1>3. \A d \in Dpids : Rescheduled(d)
  BY <1>2 DEF Decided, DecidedFor, Rescheduled
<1>4. GridInv'
  BY <1>1, <1>3, RestartMeetsGrid
<1>5. ASSUME NEW d \in Dpids, scheduled'[d] # None
      PROVE  /\ scheduled'[d] \in Schedules
             /\ Period[scheduled'[d].level] > 0
             /\ definitions'[d] # None
             /\ Promised(d)' = definitions'[d]
  <2>1. \/ /\ scheduled'[d] = scheduled[d]
           /\ definitions'[d] = definitions[d]
           /\ response' # None => d \notin response'.about
        \/ /\ Rescheduled(d) /\ definitions[d] # None
           /\ definitions'[d] = definitions[d]
           /\ response' # None /\ d \in response'.about
           /\ response'.promise = definitions[d]
    BY <1>2, <1>5 DEF Decided, DecidedFor
  <2>2. scheduled[d] # None => /\ scheduled[d] \in Schedules
                               /\ Period[scheduled[d].level] > 0
                               /\ definitions[d] # None
                               /\ agreed[d] = definitions[d]
    BY <1>1 DEF SInv, DefinitionsInv, AgreedInv, Promised
  <2>3. CASE /\ scheduled'[d] = scheduled[d]
             /\ definitions'[d] = definitions[d]
             /\ response' # None => d \notin response'.about
    BY <1>1, <1>5, <2>2, <2>3 DEF Promised
  <2>4. CASE /\ scheduled'[d] # scheduled[d] \/ ~(response' # None => d \notin response'.about)
             /\ Rescheduled(d) /\ definitions[d] # None
             /\ definitions'[d] = definitions[d]
             /\ response' # None /\ d \in response'.about
             /\ response'.promise = definitions[d]
    <3>1. Promised(d)' = definitions'[d] /\ definitions'[d] # None
      BY <1>1, <2>4 DEF Promised
    <3>2. CASE scheduled'[d] = scheduled[d]
      BY <1>5, <2>2, <3>1, <3>2
    <3>3. CASE scheduled'[d] # scheduled[d]
      <4>1. PICK level \in 2 .. 4 :
              /\ Period[level] > 0
              /\ scheduled'[d] = [level |-> level, next |-> Period[level]]
        BY <1>5, <2>4, <3>3 DEF Rescheduled
      <4>2. Period[level] \in Int
        BY BenchAssumption
      <4>3. scheduled'[d] \in Schedules /\ Period[scheduled'[d].level] > 0
        BY <4>1, <4>2 DEF Schedules
      <4>q. QED BY <3>1, <4>3
    <3>q. QED BY <3>2, <3>3
  <2>q. QED BY <2>1, <2>3, <2>4
<1>6. DefinitionsInv'
  <2>1. ASSUME NEW d \in Dpids, definitions'[d] # None
        PROVE  /\ definitions'[d] \in Seq(Pids)
               /\ Known(definitions'[d]) /\ Bytes(definitions'[d]) <= 7
    BY <1>2, <2>1 DEF Decided, SInv, DefinitionsInv
  <2>q. QED BY <1>1, <1>2, <1>5, <2>1 DEF Decided, DefinitionsInv
<1>7. AgreedInv'
  <2>1. due' = {} /\ agreed' = [d \in Dpids |-> agreed'[d]]
    BY <1>1 DEF SInv, AgreedInv
  <2>2. pc' = "answer" => response'.about = {} \/ response'.bytes <= 7
    BY <1>1, <1>2 DEF Decided
  <2>q. QED BY <1>5, <2>1, <2>2 DEF AgreedInv
<1>q. QED BY <1>4, <1>6, <1>7 DEF SInv

(* The application hears a single frame as soon as it is sent.             *)
LEMMA SendAnswerSettles == ASSUME IInv, SInv, SendAnswer PROVE SInv'
<1> DEFINE more == Segments(response.bytes) - 1
<1>1. /\ pc = "answer" /\ response.bytes \in Nat /\ more \in Nat
      /\ response.bytes <= 7 => more = 0
  BY DEF IInv, TypesInv, SendAnswer, Segments
<1>2. CASE CallFails
  BY <1>2, AbandonSettles DEF CallFails, Raise
<1>3. CASE more > 0 /\ ~CallFails
  <2>1. /\ pc' = "flow" /\ Heard("first")
        /\ UNCHANGED <<definitions, scheduled, due, request, phase, owed>>
    BY <1>1, <1>3 DEF SendAnswer, Transmit
  <2>2. UNCHANGED agreed
    BY <2>1 DEF Heard
  <2>3. response.about = {}
    BY <1>1, <1>3 DEF SInv, AgreedInv
  <2>4. due = {} /\ (request # None => request \in Requests)
    BY <1>1 DEF SInv, AgreedInv, DefinitionsInv
  <2>q. QED BY <2>1, <2>2, <2>3, <2>4, QuietSettles
<1>4. CASE more = 0 /\ ~CallFails
  <2>1. /\ pc' = "loop" /\ Heard("answer")
        /\ UNCHANGED <<definitions, scheduled, due, request, phase, owed>>
    BY <1>1, <1>4 DEF SendAnswer, Transmit
  <2>2. agreed' = [d \in Dpids |->
                     IF d \in response.about THEN response.promise ELSE agreed[d]]
    BY <2>1 DEF Heard
  <2>3. due = {}
    BY <1>1 DEF SInv, AgreedInv
  <2>4. DefinitionsInv' /\ GridInv'
    BY <2>1 DEF SInv, DefinitionsInv, GridInv, OnGrid
  <2>5. AgreedInv'
    BY <1>1, <2>1, <2>2, <2>3 DEF SInv, AgreedInv, Promised
  <2>q. QED BY <2>4, <2>5 DEF SInv
<1>q. QED BY <1>1, <1>2, <1>3, <1>4 DEF SendAnswer

(* Only packets that owe a sample are due, and each meets its grid again.  *)
LEMMA DueIsOwed ==
    ASSUME SInv, PollDue
    PROVE  \A s \in due' : s.dpid \in DueDpids /\ owed[s.dpid]
                           /\ s.pids = definitions[s.dpid]
BY DEF SInv, GridInv, PollDue, DueDpids

LEMMA PollDueSettles == ASSUME SInv, PollDue PROVE SInv'
<1>1. /\ pc = "loop" /\ pc' = "samples"
      /\ scheduled' = [d \in Dpids |-> IF d \in DueDpids THEN Advance(scheduled[d])
                                                         ELSE scheduled[d]]
      /\ owed' = [d \in Dpids |-> owed[d] /\ d \notin DueDpids]
      /\ UNCHANGED <<definitions, request, agreed, phase>>
  BY DEF PollDue
<1>2. ASSUME NEW d \in Dpids, d \in DueDpids
      PROVE  /\ scheduled[d] \in Schedules
             /\ scheduled'[d] = [scheduled[d] EXCEPT !.next = phase[d]]
             /\ phase[d] \in 1 .. Period[scheduled[d].level]
             /\ phase[d] \in Int /\ phase[d] > 0
  <2>1. scheduled[d] \in Schedules /\ OnGrid(scheduled[d], phase[d])
        /\ scheduled[d].next <= 0
    BY <1>2 DEF DueDpids, SInv, DefinitionsInv, GridInv
  <2>2. scheduled'[d] = Advance(scheduled[d])
    BY <1>1, <1>2
  <2>3. Period[scheduled[d].level] \in Int
    BY <2>1, BenchAssumption DEF Schedules
  <2>4. phase[d] \in 1 .. Period[scheduled[d].level]
    BY <2>1 DEF OnGrid
  <2>q. QED BY <2>1, <2>2, <2>3, <2>4, AdvanceMeetsGrid
<1>3. ASSUME NEW d \in Dpids, d \in DueDpids
      PROVE  /\ scheduled'[d] \in Schedules /\ scheduled'[d] # None
             /\ scheduled'[d].level = scheduled[d].level
             /\ scheduled'[d].next = phase[d] /\ phase[d] > 0
             /\ OnGrid(scheduled'[d], phase[d])
  <2>1. Period \in [2 .. 4 -> Nat] /\ MaxLate \in Nat
    BY BenchAssumption
  <2>2. scheduled[d] \in Schedules
        /\ scheduled'[d] = [scheduled[d] EXCEPT !.next = phase[d]]
        /\ phase[d] \in 1 .. Period[scheduled[d].level]
    BY <1>2, <1>3
  <2>3. /\ scheduled'[d].level = scheduled[d].level
        /\ scheduled'[d].next = phase[d] /\ phase[d] > 0
        /\ scheduled'[d] \in Schedules
    BY <2>1, <2>2 DEF Schedules
  <2>4. OnGrid(scheduled'[d], phase[d])
    BY <2>1, <2>2, <2>3 DEF OnGrid, Schedules
  <2>q. QED BY <2>3, <2>4, NoneAssumption
<1>4. \A d \in Dpids : d \notin DueDpids => scheduled'[d] = scheduled[d]
                                            /\ (owed'[d] <=> owed[d])
  BY <1>1
<1>5. DueDpids \subseteq Dpids /\ \A d \in DueDpids : scheduled[d] # None
  BY DEF DueDpids
<1>6. DefinitionsInv'
  BY <1>1, <1>3, <1>4, <1>5 DEF SInv, DefinitionsInv
<1>7. GridInv'
  <2>1. ASSUME NEW d \in Dpids
        PROVE  /\ scheduled'[d] = None => phase'[d] = 0
               /\ scheduled'[d] # None =>
                    /\ OnGrid(scheduled'[d], phase'[d])
                    /\ scheduled'[d].next <= 0 => owed'[d]
    <3>1. CASE d \in DueDpids
      <4>1. /\ scheduled'[d] # None /\ scheduled'[d].next = phase[d]
            /\ OnGrid(scheduled'[d], phase[d])
        BY <1>3, <3>1
      <4>2. phase[d] \in Int /\ phase[d] > 0
        BY <1>2, <3>1
      <4>q. QED BY <1>1, <4>1, <4>2
    <3>2. CASE d \notin DueDpids
      BY <1>1, <1>4, <3>2 DEF SInv, GridInv
    <3>q. QED BY <3>1, <3>2
  <2>2. phase' = [d \in Dpids |-> phase'[d]] /\ owed' \in [Dpids -> BOOLEAN]
    BY <1>1 DEF SInv, GridInv
  <2>q. QED BY <2>1, <2>2 DEF GridInv, OnGrid
<1>8. AgreedInv'
  <2>1. ASSUME NEW d \in Dpids, scheduled'[d] # None
        PROVE  agreed'[d] = definitions'[d]
    <3>1. scheduled[d] # None
      BY <1>4, <1>5, <2>1
    <3>q. QED BY <1>1, <3>1 DEF SInv, AgreedInv, Promised
  <2>2. \A s \in due' : s.dpid \in Dpids /\ agreed'[s.dpid] = s.pids
    BY <1>1, <1>5, DueIsOwed DEF SInv, AgreedInv, Promised
  <2>q. QED BY <1>1, <2>1, <2>2 DEF SInv, AgreedInv, Promised
<1>q. QED BY <1>6, <1>7, <1>8 DEF SInv

(* Time: a schedule and its grid move on together.                         *)
LEMMA TickMovesGrid ==
    ASSUME NEW s \in Schedules, Period[s.level] > 0, s.next > -MaxLate,
           NEW ticks, OnGrid(s, ticks),
           NEW s2 \in Schedules, s2.level = s.level, s2.next = s.next - 1,
           NEW ticks2, ticks2 = IF ticks = 1 THEN Period[s.level] ELSE ticks - 1
    PROVE  /\ OnGrid(s2, ticks2)
           /\ s2.next <= 0 => s.next <= 0 \/ ticks = 1
<1> DEFINE p == Period[s.level]
<1>1. p \in Nat /\ p > 0 /\ MaxLate \in Nat /\ s.next \in Int
  BY BenchAssumption DEF Schedules
<1>2. s2 \in Schedules /\ s2.level = s.level /\ s2.next = s.next - 1
  BY DEF Schedules
<1>3. /\ ticks \in 1 .. p /\ s.next \in -MaxLate .. p
      /\ s.next > 0 => ticks = s.next
  BY DEF OnGrid
<1>4. ticks2 = IF ticks = 1 THEN p ELSE ticks - 1
  OBVIOUS
<1>5. s.next <= 0 => \E k \in Nat : ticks = s.next + k * p
  BY DEF OnGrid
<1> HIDE DEF p
<1>6. s2.next <= 0 => \E k \in Nat : ticks2 = s2.next + k * p
  <2> SUFFICES ASSUME s2.next <= 0 PROVE \E k \in Nat : ticks2 = s2.next + k * p
    OBVIOUS
  <2>1. CASE s.next > 0
    <3>1. s.next = 1 /\ ticks = 1 /\ ticks2 = s2.next + 1 * p
      BY <1>1, <1>2, <1>3, <1>4, <2>1
    <3>q. QED BY <3>1
  <2>2. CASE s.next <= 0
    <3>1. PICK k \in Nat : ticks = s.next + k * p
      BY <1>5, <2>2
    <3>2. CASE ticks = 1
      <4> DEFINE kp == k * p
      <4>1. (k + 1) * p = kp + p /\ kp \in Int
        BY <1>1
      <4>2. ticks = s.next + kp
        BY <3>1
      <4> HIDE DEF kp
      <4>3. ticks2 = s2.next + (kp + p)
        BY <1>1, <1>2, <1>4, <3>2, <4>1, <4>2
      <4>q. QED BY <4>1, <4>3
    <3>3. CASE ticks # 1
      <4>1. ticks2 = s2.next + k * p
        BY <1>1, <1>2, <1>4, <3>1, <3>3
      <4>q. QED BY <4>1
    <3>q. QED BY <3>2, <3>3
  <2>q. QED BY <1>1, <2>1, <2>2
<1>7. ticks2 \in 1 .. p /\ s2.next \in -MaxLate .. p
      /\ (s2.next > 0 => ticks2 = s2.next)
  BY <1>1, <1>2, <1>3, <1>4
<1>8. OnGrid(s2, ticks2)
  BY <1>2, <1>6, <1>7 DEF OnGrid, p
<1>9. s2.next <= 0 => s.next <= 0 \/ ticks = 1
  BY <1>1, <1>2, <1>3
<1>q. QED BY <1>2, <1>8, <1>9

LEMMA TickSettles == ASSUME SInv, Tick PROVE SInv'
<1>1. /\ \A d \in Dpids : scheduled[d] # None => scheduled[d].next > -MaxLate
      /\ scheduled' = [d \in Dpids |-> IF scheduled[d] = None THEN None
                                  ELSE [scheduled[d] EXCEPT !.next = @ - 1]]
      /\ owed' = [d \in Dpids |-> owed[d] \/ phase[d] = 1]
      /\ phase' = [d \in Dpids |->
                    IF phase[d] = 1 THEN Period[scheduled[d].level]
                    ELSE IF phase[d] = 0 THEN 0 ELSE phase[d] - 1]
      /\ UNCHANGED <<pc, definitions, due, request, response, agreed>>
  BY DEF Tick
<1>2. ASSUME NEW d \in Dpids, scheduled[d] = None
      PROVE  scheduled'[d] = None /\ phase'[d] = 0
  BY <1>1, <1>2 DEF SInv, GridInv
<1>3. ASSUME NEW d \in Dpids, scheduled[d] # None
      PROVE  /\ scheduled'[d] \in Schedules
             /\ scheduled'[d].level = scheduled[d].level
             /\ OnGrid(scheduled'[d], phase'[d])
             /\ scheduled'[d].next <= 0 => owed'[d]
  <2>1. /\ scheduled[d] \in Schedules /\ Period[scheduled[d].level] > 0
        /\ OnGrid(scheduled[d], phase[d])
        /\ scheduled[d].next <= 0 => owed[d]
    BY <1>3 DEF SInv, DefinitionsInv, GridInv
  <2>2. phase[d] \in Int /\ phase[d] > 0
    BY <2>1, BenchAssumption DEF OnGrid, Schedules
  <2>3. /\ scheduled'[d] = [scheduled[d] EXCEPT !.next = @ - 1]
        /\ phase'[d] = IF phase[d] = 1 THEN Period[scheduled[d].level]
                                       ELSE phase[d] - 1
        /\ owed'[d] = (owed[d] \/ phase[d] = 1)
    BY <1>1, <1>3, <2>2
  <2>4. scheduled[d].next > -MaxLate
    BY <1>1, <1>3
  <2>5. /\ scheduled'[d] \in Schedules
        /\ scheduled'[d].level = scheduled[d].level
        /\ scheduled'[d].next = scheduled[d].next - 1
    BY <2>1, <2>3 DEF Schedules
  <2>6. /\ OnGrid(scheduled'[d], phase'[d])
        /\ scheduled'[d].next <= 0 => scheduled[d].next <= 0 \/ phase[d] = 1
    BY <2>1, <2>3, <2>4, <2>5, TickMovesGrid
  <2>q. QED BY <2>1, <2>3, <2>5, <2>6
<1>4. \A d \in Dpids : scheduled'[d] # None => scheduled[d] # None
  BY <1>2
<1>5. DefinitionsInv'
  BY <1>1, <1>3, <1>4 DEF SInv, DefinitionsInv
<1>6. GridInv'
  <2>1. \A d \in Dpids : scheduled'[d] = None => scheduled[d] = None
    BY <1>3, NoneAssumption
  <2>2. phase' = [d \in Dpids |-> phase'[d]] /\ owed' \in [Dpids -> BOOLEAN]
    BY <1>1
  <2>q. QED BY <1>2, <1>3, <1>4, <2>1, <2>2 DEF GridInv, OnGrid
<1>7. AgreedInv'
  BY <1>1, <1>4 DEF SInv, AgreedInv, Promised
<1>q. QED BY <1>5, <1>6, <1>7 DEF SInv

-----------------------------------------------------------------------------
LEMMA SNextKeeps == IInv /\ SInv /\ [Next]_vars => SInv'
<1> SUFFICES ASSUME IInv, SInv, [Next]_vars PROVE SInv'
  OBVIOUS
<1> DEFINE still == <<definitions, scheduled, agreed, phase, owed>>
<1>0. /\ request # None => request \in Requests
      /\ due # {} => pc = "samples"
  BY DEF SInv, DefinitionsInv, AgreedInv
<1>1. CASE Raise
  BY <1>1, AbandonSettles DEF Raise
<1>2. CASE ~Raise /\ (Opening \/ Closing \/ CutShort)
  <2>1. UNCHANGED still /\ UNCHANGED <<due, request, response>>
        /\ pc \notin {"samples", "answer"} /\ pc' # "answer"
    BY <1>2 DEF Opening, Closing, OpenDevice, MarkOpened, InitCan, StartCan,
                MarkStarted, ResetCan, CloseDevice, CloseIf, CutShort, CallFails,
                held, history
  <2>q. QED BY <1>0, <2>1, QuietSettles
<1>3. CASE ~Raise /\ SendSample
  <2>1. /\ UNCHANGED still /\ UNCHANGED <<pc, request, response>>
        /\ pc = "samples" /\ due' \subseteq due
    BY <1>3 DEF SendSample, CallFails, Transmit, Heard
  <2>q. QED BY <1>0, <2>1, QuietSettles
<1>4. CASE ~Raise /\ Receive
  <2>1. /\ UNCHANGED still /\ UNCHANGED <<response, due>>
        /\ pc = "samples" /\ pc' # "answer" /\ due = {}
    BY <1>4 DEF Receive, CallFails, history
  <2>2. request' \in {request, rx.payload}
        /\ (request' # request => rx # None /\ rx.kind = "request")
    BY <1>4 DEF Receive, CallFails
  <2>3. rx # None /\ rx.kind = "request" => rx.payload \in Requests
    BY DEF IInv, TypesInv, Frames
  <2>q. QED BY <1>0, <2>1, <2>2, <2>3, QuietSettles
<1>5. CASE ~Raise /\ (AwaitFlow \/ FlowTimeout \/ SendSegment)
  <2>1. UNCHANGED still /\ UNCHANGED <<due, request, response>>
        /\ pc \in {"flow", "segments"} /\ pc' # "answer"
    BY <1>5 DEF AwaitFlow, FlowTimeout, SendSegment, CallFails, Transmit, Heard,
                history, program, held
  <2>q. QED BY <1>0, <2>1, QuietSettles
<1>6. CASE Interrupt
  BY <1>6, AbandonSettles DEF Interrupt
<1>7. CASE AppRequest \/ AppFlow \/ AppGivesUp \/ UNCHANGED vars
  <2>1. UNCHANGED still /\ UNCHANGED <<pc, due, request, response>>
    BY <1>7 DEF AppRequest, AppFlow, AppGivesUp, vars, program, held, history
  <2>q. QED BY <1>0, <2>1, QuietSettles
<1>8. CASE PollDue \/ Decide \/ SendAnswer \/ Tick
  BY <1>8, PollDueSettles, DecideSettles, SendAnswerSettles, TickSettles
<1>q. QED
  BY <1>1, <1>2, <1>3, <1>4, <1>5, <1>6, <1>7, <1>8 DEF Next, Opening, Closing

THEOREM SchedulesInvariant == Spec => []SInv
BY SInitHolds, SNextKeeps, Invariance, PTL DEF Spec

Devices == {"closed", "open", "ready", "running", "dropped"}
RestTypes == tool \in Tools /\ device \in Devices

(* Definitions fit one packet, schedules are late by no more than the      *)
(* bound, and whatever is decided was asked (DynamicDiscoveryState).       *)
THEOREM BenchTypes == Spec => []TypeOK
<1>1. Init => RestTypes
  BY DEF Init, RestTypes, Devices
<1>2. RestTypes /\ [Next]_vars => RestTypes'
  <2> SUFFICES ASSUME RestTypes, [Next]_vars PROVE RestTypes'
    OBVIOUS
  <2>1. UNCHANGED tool
    BY DEF Next, vars, program, held, history, Abandon, Raise, CallFails,
           OpenDevice, MarkOpened, InitCan, StartCan, MarkStarted, Interrupt,
           CutShort, ResetCan, CloseDevice, CloseIf, Decide, SendAnswer, AwaitFlow, FlowTimeout, SendSegment, PollDue, SendSample,
           Receive, AppRequest, AppFlow, AppGivesUp, Tick
  <2>2. device' \in {device} \cup Devices
    BY DEF Devices, Next, vars, CallFails, Transmit, Send, OpenDevice,
           MarkOpened, InitCan, StartCan, MarkStarted, Interrupt, CutShort,
           ResetCan, CloseDevice, CloseIf, Decide, SendAnswer, AwaitFlow, FlowTimeout, SendSegment, PollDue, SendSample,
           Receive, AppRequest, AppFlow, AppGivesUp, Tick
  <2>q. QED BY <2>1, <2>2 DEF RestTypes
<1>3. IInv /\ SInv /\ RestTypes => TypeOK
  <2> SUFFICES ASSUME IInv, SInv, RestTypes PROVE TypeOK
    OBVIOUS
  <2>1. tool \in Tools /\ device \in Devices
    BY DEF RestTypes
  <2>2. /\ pc \in Labels
        /\ transfer.left \in Nat /\ awaited \in Nat
        /\ rx \in {None} \cup Frames
    BY DEF IInv, TypesInv
  <2>3. ASSUME NEW d \in Dpids
        PROVE  /\ definitions[d] # None =>
                    Known(definitions[d]) /\ Bytes(definitions[d]) <= 7
               /\ scheduled[d] # None =>
                    /\ Period[scheduled[d].level] > 0
                    /\ scheduled[d].next \in
                          -MaxLate .. Period[scheduled[d].level]
    BY DEF SInv, DefinitionsInv, GridInv, OnGrid
  <2>4. request # None => request \in Requests
    BY DEF SInv, DefinitionsInv
  <2>q. QED
    BY <2>1, <2>2, <2>3, <2>4 DEF TypeOK, Labels, Opens, Stopped, Devices
<1>q. QED BY <1>1, <1>2, <1>3, Invariance, SchedulesInvariant, PTL DEF Spec

(* DynamicDiscoveryState and its sender: whatever the application defines, *)
(* redefines, schedules and stops, a sample has the content that was last  *)
(* acknowledged, and each belongs to a deadline that has passed since the  *)
(* packet was scheduled or sampled before.                                 *)
THEOREM SamplesAgreed == Spec => SamplesAsAgreed
<1>1. SInv => \A s \in due : agreed[s.dpid] = s.pids
  BY DEF SInv, AgreedInv
<1>2. SInv /\ PollDue => \A s \in due' : owed[s.dpid]
  BY DueIsOwed
<1>3. SInv /\ [Next]_vars =>
        [/\ \A s \in due : agreed[s.dpid] = s.pids
         /\ PollDue => \A s \in due' : owed[s.dpid]]_vars
  BY <1>1, <1>2
<1>q. QED BY <1>3, SchedulesInvariant, PTL DEF Spec, SamplesAsAgreed
=============================================================================
