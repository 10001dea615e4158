----------------------------- MODULE GmSession -----------------------------
(* What the passive extractors make of the capture of a diagnostic           *)
(* conversation: tool/extract_gm_tool_session.py (events and transactions)   *)
(* and tool/extract_gds2_dids.py (DID pairs and dynamic packet samples), the *)
(* two analyses that build_gm_tool_evidence_bundle.py puts side by side.     *)
(*                                                                           *)
(* The bus is external: a tester and one module that speak ISO-TP on the     *)
(* three CAN identifiers of the tools' defaults, 7E4 ("request"), 7EC        *)
(* ("response") and 5EC ("data").  Several messages may be under way at      *)
(* once, and the capture may miss MaxMissing of the frames.  `sent' remembers *)
(* what was really said; the extractors only ever see `capture'.             *)
(*                                                                           *)
(* A frame keeps its first byte, because the extractors decide by it, and a  *)
(* name for the bytes that follow: the message it came from and its part.    *)
(* Frames are padded to eight bytes.  The time of a frame is its position on *)
(* the bus, so that no two frames share one.                                 *)
EXTENDS Integers, Sequences, FiniteSets, SequencesExt

CONSTANTS
    Payloads,     \* what the two sides may say
    Catalogue,    \* the address references: records of module, role and id
    Window,       \* response_window_s, in frame times
    FlowBytes,    \* first bytes of the flow-control frames
    Skews,        \* what the clock of a J2534 trace may be off by
    MaxSkew,      \* max_delta_s of the bundle, in frame times
    MaxRequests,  \* bound: messages of the tester
    MaxTime,      \* bound: frames put on the bus
    MaxMissing    \* bound: frames the capture misses

\* A framed payload fits a length of twelve bits, and the first byte of one that
\* is not framed is no ISO-TP single, first or consecutive frame, as that of a
\* flow control is not.
ASSUME BusAssumption ==
    /\ Payloads \subseteq
          [id : {"request", "response"}, sid : 0 .. 255, of : Nat, pending : BOOLEAN,
           did : Nat, length : 1 .. 4095, framed : BOOLEAN]
    /\ \A p \in Payloads : ~p.framed => p.sid \div 16 \notin 0 .. 2
    /\ FlowBytes \subseteq \h30 .. \h3F
    /\ Window \in Nat /\ MaxSkew \in Nat /\ Skews \subseteq Int

VARIABLES
    capture,      \* the frames the log holds
    sent,         \* the messages really sent, in the order they were begun
    time,         \* frames put on the bus so far
    missing       \* frames of them that the log does not hold

conversation == <<capture, sent, time, missing>>

Ids == {"request", "response", "data"}
Packet == \hFE    \* the dynamic packet of the examples

----------------------------------------------------------------------------
(* The tables of extract_gm_tool_session.py. *)

SERVICES == {\h04, \h09, \h10, \h11, \h12, \h18, \h22, \h27, \h28, \h2C, \h2E,
             \h31, \h34, \h35, \h36, \h37, \h3E, \h85, \hA9, \hAA}

SPECIAL_POSITIVE ==
    [sid \in {\h44, \h49, \h52, \h58, \h81} |->
        CASE sid = \h44 -> \h04
          [] sid = \h49 -> \h09
          [] sid = \h52 -> \h12
          [] sid = \h58 -> \h18
          [] sid = \h81 -> \hA9]

POSITIVE_TO_REQUEST ==
    [sid \in DOMAIN SPECIAL_POSITIVE \cup {s + \h40 : s \in SERVICES} |->
        IF sid \in DOMAIN SPECIAL_POSITIVE THEN SPECIAL_POSITIVE[sid] ELSE sid - \h40]

Negative == \h7F

----------------------------------------------------------------------------
(* The conversation. *)

Silence == capture = <<>> /\ sent = <<>> /\ time = 0 /\ missing = 0

Other(id) == IF id = "request" THEN "response" ELSE "request"

\* A payload of up to seven bytes fits a single frame; a longer one takes a
\* first frame (six bytes) and consecutive frames (seven bytes each).
FramesOf(p) == IF ~p.framed \/ p.length <= 7 THEN 1
               ELSE 1 + p.length \div 7

FirstByte(p) == IF ~p.framed THEN p.sid
                ELSE IF p.length <= 7 THEN p.length ELSE \h10 + p.length \div 256

\* The next frame of the bus, which the capture may miss.
Emit(id, byte, second, message, part) ==
    /\ time < MaxTime
    /\ time' = time + 1
    /\ \/ /\ capture' = Append(capture, [time |-> time', id |-> id, byte |-> byte,
                                         second |-> second,
                                         chunk |-> <<message, part>>])
          /\ UNCHANGED missing
       \/ /\ missing < MaxMissing
          /\ missing' = missing + 1
          /\ UNCHANGED capture

Busy(id) == \E n \in DOMAIN sent : sent[n].id = id /\ sent[n].left > 0

\* One side begins a message; `answered' is the request it answers.
Begin(p, answered) ==
    /\ ~Busy(p.id)
    /\ sent' = Append(sent, [id |-> p.id, sid |-> p.sid, of |-> p.of,
                             pending |-> p.pending, did |-> p.did,
                             length |-> p.length, framed |-> p.framed,
                             start |-> time + 1, answers |-> answered,
                             left |-> FramesOf(p) - 1, waits |-> FramesOf(p) > 1])
    /\ Emit(p.id, FirstByte(p), p.length % 256, Len(sent) + 1, 1)

ServiceOf(p) == IF p.sid = Negative THEN p.of
                ELSE IF p.id = "request" THEN p.sid ELSE POSITIVE_TO_REQUEST[p.sid]

AnswersOf(n) == {a \in DOMAIN sent : sent[a].answers = n}
Final(p) == ~(p.sid = Negative /\ p.pending)

Requests == {n \in DOMAIN sent : sent[n].id = "request"}

Request(p) ==
    /\ p.id = "request" /\ Cardinality(Requests) < MaxRequests      \* bound
    /\ Begin(p, 0)

\* The module answers a request it has whole, until its final answer.
Answer(p, n) ==
    /\ p.id = "response" /\ sent[n].id = "request" /\ sent[n].left = 0
    /\ ServiceOf(p) = sent[n].sid /\ (p.sid # Negative => p.did = sent[n].did)
    /\ \A a \in AnswersOf(n) : ~Final(sent[a])
    /\ Begin(p, n)

\* The receiver of a first frame lets its sender go on.
FlowControl(n) ==
    /\ sent[n].waits
    /\ sent' = [sent EXCEPT ![n].waits = FALSE]
    /\ \E byte \in FlowBytes : Emit(Other(sent[n].id), byte, 0, 0, 0)

Continue(n) ==
    LET part == FramesOf(sent[n]) - sent[n].left + 1
    IN  /\ sent[n].left > 0 /\ ~sent[n].waits
        /\ sent' = [sent EXCEPT ![n].left = @ - 1]
        /\ Emit(sent[n].id, \h20 + ((part - 1) % 16), 0, n, part)

\* The definition of the packet that the module has accepted last, or 0.
InForce ==
    LET accepts == {a \in DOMAIN sent : sent[a].sid = \h6C}
    IN  IF accepts = {} THEN 0 ELSE sent[Max(accepts)].answers

\* A packet goes out by the definition in force.
Sample ==
    /\ InForce # 0
    /\ Emit("data", Packet, 0, InForce, 0)
    /\ UNCHANGED sent

Speak ==
    \/ \E p \in Payloads : Request(p)
    \/ \E p \in Payloads, n \in DOMAIN sent : Answer(p, n)
    \/ \E n \in DOMAIN sent : FlowControl(n)
    \/ \E n \in DOMAIN sent : Continue(n)
    \/ Sample

----------------------------------------------------------------------------
(* Reassembly. *)

Idle == [time |-> 0, length |-> 0, next |-> 0, chunks |-> <<>>]

PciType(f) == f.byte \div 16
Low(f) == f.byte % 16

StartBuffer(acc, f) ==
    LET length == Low(f) * 256 + f.second
    IN  IF length <= 6 THEN acc
        ELSE [acc EXCEPT !.active[f.id] =
                 [time |-> f.time, length |-> length, next |-> 1,
                  chunks |-> <<f.chunk>>]]

Message(at, id, chunks) == [time |-> at, id |-> id, chunks |-> chunks]

\* Mutant: a first frame holds seven bytes, like the others.
GrowBufferBySeven(acc, f) ==
    LET buffer == acc.active[f.id]
        chunks == Append(buffer.chunks, f.chunk)
    IN  IF 7 * Len(chunks) >= buffer.length
        THEN [acc EXCEPT !.active[f.id] = Idle,
                         !.messages = Append(@, Message(buffer.time, f.id, chunks))]
        ELSE [acc EXCEPT !.active[f.id] =
                 [buffer EXCEPT !.chunks = chunks, !.next = (@ + 1) % 16]]

\* A consecutive frame of a message whose buffer is open.
GrowBuffer(acc, f) ==
    LET buffer == acc.active[f.id]
        chunks == Append(buffer.chunks, f.chunk)
    IN  IF 7 * Len(chunks) - 1 >= buffer.length
        THEN [acc EXCEPT !.active[f.id] = Idle,
                         !.messages = Append(@, Message(buffer.time, f.id, chunks))]
        ELSE [acc EXCEPT !.active[f.id] =
                 [buffer EXCEPT !.chunks = chunks, !.next = (@ + 1) % 16]]

\* One frame; only the session extractor checks the sequence number.
AcceptFrame(checked, acc, f) ==
    CASE PciType(f) = 0 ->
           IF Low(f) \in 1 .. 7
           THEN [acc EXCEPT !.messages = Append(@, Message(f.time, f.id, <<f.chunk>>))]
           ELSE acc
      [] PciType(f) = 1 -> StartBuffer(acc, f)
      [] PciType(f) = 2 /\ acc.active[f.id] # Idle ->
           IF checked /\ Low(f) # acc.active[f.id].next
           THEN [acc EXCEPT !.active[f.id] = Idle]
           ELSE GrowBuffer(acc, f)
      [] OTHER -> acc

\* What is kept after n frames.
Reassembly(checked, frames) ==
    LET kept[n \in 0 .. Len(frames)] ==
            IF n = 0 THEN [active |-> [id \in Ids |-> Idle], messages |-> <<>>]
                     ELSE AcceptFrame(checked, kept[n - 1], frames[n])
    IN  kept

Reassembled(checked, frames) == Reassembly(checked, frames)[Len(frames)].messages

ReassembleSession(frames) == Reassembled(TRUE, frames)
ReassembleDids(frames) == Reassembled(FALSE, frames)

\* The payload a reassembled message begins with.
PayloadOf(m) == sent[m.chunks[1][1]]

----------------------------------------------------------------------------
(* Events.  Their times are distinct, so the list that the code sorts by     *)
(* time is here the set of its members.                                      *)

Recognized(sid) == sid \in SERVICES \cup DOMAIN POSITIVE_TO_REQUEST \cup {Negative}

Direction(sid) == IF sid = Negative THEN "negativeResponse"
                  ELSE IF sid \in SERVICES THEN "request" ELSE "positiveResponse"

\* The message of chunk n whose first byte is sid, seen on id.
Classified(at, id, sid, n) ==
    [time |-> at, id |-> id, direction |-> Direction(sid), message |-> n,
     service |-> IF sid = Negative THEN sent[n].of
                 ELSE IF sid \in SERVICES THEN sid ELSE POSITIVE_TO_REQUEST[sid],
     pending |-> sid = Negative /\ sent[n].pending]

DiagnosticEvents(messages) ==
    {Classified(m.time, m.id, PayloadOf(m).sid, m.chunks[1][1]) :
        m \in {m \in Range(messages) : Recognized(PayloadOf(m).sid)}}

RolesOf(id) == {entry.role : entry \in {e \in Catalogue : e.id = id}}

\* A frame is taken as an unframed record by its first byte, unless an ISO-TP
\* event begins at it.
LegacyEvents(frames, isoEvents) ==
    LET origins == {<<e.time, e.id>> : e \in isoEvents}
        InRole(f) == IF Direction(f.byte) = "request"
                     THEN RolesOf(f.id) \cap {"request", "functionalRequest"} # {}
                     ELSE "normalResponse" \in RolesOf(f.id)
    IN  {Classified(f.time, f.id, f.byte, f.chunk[1]) :
            f \in {f \in Range(frames) : /\ <<f.time, f.id>> \notin origins
                                         /\ Recognized(f.byte)
                                         /\ InRole(f)}}

SessionEvents(frames) ==
    LET iso == DiagnosticEvents(ReassembleSession(frames))
    IN  iso \cup LegacyEvents(frames, iso)

----------------------------------------------------------------------------
(* Transactions. *)

ModulesOf(id, role) == {e.module : e \in {e \in Catalogue : e.id = id /\ e.role = role}}

\* The traffic that the tools are made for: requests for services they know and
\* the responses of those, between a tester and one module; values of DIDs in
\* ISO-TP frames; definitions of the one packet, of whole PIDs; and no flow
\* control that asks to wait, whose byte, 31, is a service as well.
ASSUME TrafficAssumption ==
    /\ \A p \in Payloads :
          IF p.id = "request" THEN p.sid \in SERVICES
                             ELSE p.sid \in DOMAIN POSITIVE_TO_REQUEST \cup {Negative}
    /\ \A p \in Payloads : p.sid = \h62 => p.framed
    /\ \A p \in Payloads :
          p.sid = \h2C => p.did = Packet /\ p.length >= 4 /\ p.length % 2 = 0
    /\ FlowBytes \cap SERVICES = {}
    /\ \E module \in {e.module : e \in Catalogue} :
          /\ ModulesOf("request", "request") = {module}
          /\ module \in ModulesOf("response", "normalResponse")
    /\ RolesOf("response") \cap {"request", "functionalRequest"} = {}
    /\ RolesOf("data") \cap {"request", "functionalRequest", "normalResponse"} = {}

\* Mutant: the first response is taken as the last.
FirstResponseTo(r, module, events) ==
    LET later == {e \in events : e.time > r.time /\ e.service = r.service}
        answers == {e \in later : /\ e.direction # "request"
                                  /\ module \in ModulesOf(e.id, "normalResponse")}
    IN  {e \in answers : \A f \in answers : e.time <= f.time}

\* The responses of a request of `module': those before the next request for
\* the same service, up to the first that is not responsePending.
ResponsesTo(r, module, events) ==
    LET later == {e \in events : e.time > r.time /\ e.service = r.service}
        repeats == {e \in later : /\ e.direction = "request"
                                  /\ module \in ModulesOf(e.id, "request")}
        answers == {e \in later : /\ e.direction # "request"
                                  /\ module \in ModulesOf(e.id, "normalResponse")
                                  /\ \A q \in repeats : e.time < q.time}
    IN  {e \in answers : \A f \in answers : f.time < e.time => f.pending}

Transactions(events) ==
    LET requests == {e \in events : /\ e.direction = "request"
                                    /\ Cardinality(ModulesOf(e.id, "request")) = 1}
    IN  {[request |-> r,
          responses |-> ResponsesTo(r, CHOOSE m \in ModulesOf(r.id, "request") : TRUE,
                                    events)] : r \in requests}

----------------------------------------------------------------------------
(* DID pairs and dynamic packet samples. *)

Dids == {p.did : p \in Payloads}

\* Requests queue by DID; a positive response takes the first one that is
\* within the window and drops those before it.
PairMessage(acc, m) ==
    LET p == PayloadOf(m)
        queue == acc.pending[p.did]
        fits == {i \in DOMAIN queue : m.time - queue[i].time \in 0 .. Window}
    IN  CASE m.id = "request" /\ p.sid = \h22 ->
               [acc EXCEPT !.pending[p.did] = Append(@, m)]
          [] m.id = "response" /\ p.sid = \h62 /\ fits # {} ->
               [acc EXCEPT !.pending[p.did] = SubSeq(@, Min(fits) + 1, Len(@)),
                           !.pairs = @ \cup {[request |-> queue[Min(fits)],
                                              response |-> m]}]
          [] m.id = "response" /\ p.sid = \h62 /\ fits = {} ->
               [acc EXCEPT !.pending[p.did] = <<>>]
          [] OTHER -> acc

\* What is paired, and pending, after n messages.
Pairing(messages) ==
    LET paired[n \in 0 .. Len(messages)] ==
            IF n = 0 THEN [pending |-> [d \in Dids |-> <<>>], pairs |-> {}]
                     ELSE PairMessage(paired[n - 1], messages[n])
    IN  paired

DidPairs(messages) == Pairing(messages)[Len(messages)].pairs

Definitions(messages) ==
    {m \in Range(messages) : /\ m.id = "request" /\ PayloadOf(m).sid = \h2C
                             /\ PayloadOf(m).length >= 4
                             /\ PayloadOf(m).length % 2 = 0}

\* The sample of a data frame, labelled with the last definition that was
\* requested for its packet by then, or 0.
SampleOf(f, definitions) ==
    LET known == {m \in definitions : m.time <= f.time /\ PayloadOf(m).did = f.byte}
        last == CHOOSE m \in known : \A k \in known : k.time <= m.time
    IN  [frame |-> f, definition |-> IF known = {} THEN 0 ELSE last.chunks[1][1]]

PacketSamples(frames, messages) ==
    {SampleOf(f, Definitions(messages)) : f \in {f \in Range(frames) : f.id = "data"}}

----------------------------------------------------------------------------
(* What the bundle takes from the capture. *)

BusTransactions == Transactions(SessionEvents(capture))
DidTransactions == DidPairs(ReassembleDids(capture))

----------------------------------------------------------------------------
(* The J2534 trace of the tester beside the capture.  The trace is external: *)
(* the message of every request written and every response read, with the    *)
(* service where the proxy redacts the payload.                              *)

SENSITIVE_SERVICES == {\h27, \h36}

\* The bus event whose bytes are taken out of the bundle.
Redacted(event) == event.service \in SENSITIVE_SERVICES

TraceMessages(skew) ==
    {[time |-> sent[n].start + skew, message |-> n,
      direction |-> IF sent[n].id = "request" THEN "applicationToProvider"
                                              ELSE "providerToApplication",
      service |-> IF sent[n].sid \in SENSITIVE_SERVICES THEN sent[n].sid ELSE 0] :
        n \in DOMAIN sent}

BusDirectionMatches(item, event) ==
    (item.direction = "applicationToProvider") <=> (event.direction = "request")

Content(n) == [f \in {"id", "sid", "of", "pending", "did", "length"} |-> sent[n][f]]

\* Neither payload is redacted and they agree.
ExactPayload(item, event) ==
    /\ item.service = 0 /\ ~Redacted(event)
    /\ Content(item.message) = Content(event.message)

ServiceMatch(item, event) == item.service # 0 /\ event.service = item.service

Distance(item, event) == IF event.time < item.time THEN item.time - event.time
                                                   ELSE event.time - item.time

\* Mutant: the nearest event in time, whatever it says.
RanksNearest(item, e, f) == Distance(item, e) < Distance(item, f)

\* e is ranked before f: exact payload, then service, then distance.
RanksBefore(item, e, f) ==
    LET exact(x) == ExactPayload(item, x)
        service(x) == ServiceMatch(item, x)
    IN  \/ exact(e) /\ ~exact(f)
        \/ exact(e) = exact(f) /\ service(e) /\ ~service(f)
        \/ /\ exact(e) = exact(f) /\ service(e) = service(f)
           /\ Distance(item, e) < Distance(item, f)

\* The events a trace message is correlated to: one, or the equally near ones.
Correlate(item, events) ==
    LET inWindow == {e \in events : /\ BusDirectionMatches(item, e)
                                    /\ Distance(item, e) <= MaxSkew}
    IN  {e \in inWindow : \A f \in inWindow : ~RanksBefore(item, f, e)}

----------------------------------------------------------------------------
(* Properties. *)

\* Nobody is in the middle of a message.
Settled == \A n \in DOMAIN sent : sent[n].left = 0

ChunksOf(n) == [k \in 1 .. FramesOf(sent[n]) |-> <<n, k>>]

\* The framed messages sent to their end, as an exact listener hears them.
Spoken == {Message(sent[n].start, sent[n].id, ChunksOf(n)) :
              n \in {n \in DOMAIN sent : sent[n].framed /\ sent[n].left = 0}}

\* Neither reassembler makes up a message, or mixes two, as long as the
\* capture misses at most one frame of the bus (two can: the last frame of a
\* message and the first of the next); and when it misses none, both recover
\* every message, interleaved with the others or not.
MessagesWereSent ==
    \A messages \in {ReassembleSession(capture), ReassembleDids(capture)} :
        /\ missing <= 1 => Range(messages) \subseteq Spoken
        /\ missing = 0 => Spoken \subseteq Range(messages)

\* No answer was begun after the tester had asked for the same service again.
Orderly ==
    \A a \in DOMAIN sent, r \in DOMAIN sent :
        (sent[a].answers # 0 /\ sent[r].id = "request"
            /\ sent[r].sid = sent[sent[a].answers].sid
            /\ sent[a].answers < r) => a < r

\* The legacy events that stem from the frame of a framed message.
Lookalikes ==
    LET events == LegacyEvents(capture, DiagnosticEvents(ReassembleSession(capture)))
    IN  {e \in events : e.message = 0 \/ sent[e.message].framed}

\* Only a consecutive frame of a request is ever taken for an unframed request,
\* and only where its first byte is a service (22, 2C, 2E): no single frame and
\* no first frame, although 04, 09 and 10 are services as well.
LookalikesContinue ==
    (missing = 0 /\ Settled) =>
        \A e \in Lookalikes :
            \E f \in Range(capture) :
                /\ f.time = e.time /\ e.direction = "request"
                /\ PciType(f) = 2 /\ f.byte \in SERVICES

\* Every request is paired with its own responses, the pending ones included,
\* and with no other: build_transactions on a complete capture of an orderly
\* conversation in which no framed message looks like an unframed one.
RequestsPaired ==
    (missing = 0 /\ Settled /\ Orderly /\ Lookalikes = {}) =>
        {<<t.request.time, {e.time : e \in t.responses}>> :
            t \in BusTransactions}
          = {<<sent[n].start, {sent[a].start : a \in AnswersOf(n)}>> :
                n \in {n \in DOMAIN sent : sent[n].id = "request"}}

\* The transactions of extract_gm_tool_session.py are those of the bus.
TransactionsExact == LookalikesContinue /\ RequestsPaired

\* The module answers the reads of a DID in the order it was asked, each within
\* the window; the tester may ask again before it has its answer.
AnswersInOrder ==
    LET positives == {a \in DOMAIN sent : sent[a].sid = \h62}
    IN  \A a \in positives :
            /\ sent[a].start - sent[sent[a].answers].start <= Window
            /\ \A b \in positives : (sent[a].did = sent[b].did
                                       /\ sent[a].answers < sent[b].answers) => a < b

\* The latency of a DID pair is never understated: the request it names is the
\* one that was answered or an older one, which refusals and requests without
\* an answer leave in the queue.
LatencyNotUnderstated ==
    (missing = 0 /\ AnswersInOrder) =>
        \A pair \in DidTransactions :
            pair.request.time <= sent[PayloadOf(pair.response).answers].start

\* When every read was answered positively, the pairs are exact.
PairsExact ==
    LET reads == {n \in DOMAIN sent : sent[n].sid = \h22}
    IN  (missing = 0 /\ Settled /\ AnswersInOrder
           /\ \A n \in reads : \E a \in AnswersOf(n) : sent[a].sid = \h62) =>
            {<<pair.request.time, pair.response.time>> :
                pair \in DidTransactions}
              = {<<sent[na[1]].start, sent[na[2]].start>> :
                    na \in {na \in reads \X DOMAIN sent : /\ na[2] \in AnswersOf(na[1])
                                                         /\ sent[na[2]].sid = \h62}}

\* A sample is labelled with the definition the module sent it by, when every
\* definition requested before it had been accepted before it.
SamplesLabelled ==
    (missing = 0 /\ Orderly) =>
        \A s \in PacketSamples(capture, ReassembleDids(capture)) :
            (\A d \in DOMAIN sent : (sent[d].sid = \h2C /\ sent[d].start < s.frame.time) =>
                \E a \in AnswersOf(d) : sent[a].sid = \h6C /\ sent[a].start < s.frame.time)
                  => s.definition = s.frame.chunk[1]

\* A message of the J2534 trace is correlated to the very bus message it was,
\* repetitions of the same payload notwithstanding, if the clocks differ by
\* less than half the distance of such repetitions and by the window at most.
\* Of a redacted request only the service is left to tell it by, and of its
\* response not even that.
CorrelatedToItself ==
    LET events == SessionEvents(capture)
        Alike(n, m) == IF sent[n].sid \in SENSITIVE_SERVICES THEN sent[n].sid = sent[m].sid
                                                             ELSE Content(n) = Content(m)
        Apart(n, skew) == \A m \in DOMAIN sent \ {n} :
            Alike(n, m) => sent[m].start - sent[n].start \notin -2 * skew .. 2 * skew
    IN  (missing = 0 /\ Settled /\ Lookalikes = {}) =>
            \A skew \in Skews : \A item \in TraceMessages(skew) :
                (skew \in -MaxSkew .. MaxSkew
                   /\ (item.service = 0 =>
                         ServiceOf(sent[item.message]) \notin SENSITIVE_SERVICES)
                   /\ Apart(item.message, IF skew < 0 THEN -skew ELSE skew)) =>
                    {e.message : e \in Correlate(item, events)} = {item.message}

\* What the bundle attributes to a request, a definition or a trace message is
\* what was really said.
BundleAttributes ==
    LatencyNotUnderstated /\ PairsExact /\ SamplesLabelled /\ CorrelatedToItself
============================================================================
