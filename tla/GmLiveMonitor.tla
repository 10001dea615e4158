---------------------------- MODULE GmLiveMonitor ----------------------------
(* gm_live_diagnostic_monitor.dart on the conversation of GmSession: what the *)
(* capture page shows of a request, a response and the time between them. The *)
(* page analyses the frames that the runtime still holds, the last of the     *)
(* capture, anew each time. The monitor reassembles as the session extractor  *)
(* does, and ignores unframed records on these identifiers.                   *)
EXTENDS GmSession

NoDid == 0

\* _decode: of a negative response the service is known and no DID.
Decodes(m) ==
    LET p == PayloadOf(m)
    IN  \/ p.sid = Negative /\ p.length >= 3
        \/ m.id = "request" /\ p.sid \in SERVICES
        \/ m.id = "response" /\ p.sid \in DOMAIN POSITIVE_TO_REQUEST

DidOf(p) == IF p.sid # Negative /\ ServiceOf(p) \in {\h22, \h2E} /\ p.length >= 3
            THEN p.did ELSE NoDid

\* A pending request: its service, its DID and its time. One of each key is kept.
RequestOf(m) == [service |-> PayloadOf(m).sid, did |-> DidOf(PayloadOf(m)),
                 time |-> m.time]

Remember(pending, r) ==
    {q \in pending : q.service # r.service \/ q.did # r.did} \cup {r}

Latest(requests) == {r \in requests : \A q \in requests : q.time <= r.time}

\* Mutant: the DID of a candidate is not compared.
MatchAnyDid(pending, p) ==
    LET key == {r \in pending : r.service = ServiceOf(p) /\ r.did = DidOf(p)}
    IN  IF key # {} THEN key
        ELSE Latest({r \in pending : r.service = ServiceOf(p)})

\* The request with the key of a response, or the latest compatible one: one
\* request or none.
Match(pending, p) ==
    LET key == {r \in pending : r.service = ServiceOf(p) /\ r.did = DidOf(p)}
    IN  IF key # {} THEN key
        ELSE Latest({r \in pending : /\ r.service = ServiceOf(p)
                                     /\ NoDid \in {r.did, DidOf(p)} \/ r.did = DidOf(p)})

\* One payload; a response that is not responsePending settles its request.
Observe(acc, m) ==
    LET p == PayloadOf(m)
        match == Match(acc.pending, p)
    IN  CASE ~Decodes(m) -> acc
          [] Decodes(m) /\ m.id = "request" ->
               [acc EXCEPT !.pending = Remember(@, RequestOf(m))]
          [] OTHER ->
               [acc EXCEPT !.pending = IF Final(p) THEN @ \ match ELSE @,
                           !.shown = @ \cup {[answer |-> m.chunks[1][1],
                                              since |-> {r.time : r \in match}]}]

\* The responses in these frames, each with the time its latency counts from.
Analyze(frames) ==
    FoldLeft(Observe, [pending |-> {}, shown |-> {}], ReassembleSession(frames)).shown

----------------------------------------------------------------------------
\* The capture shows the whole of answer a before this time.
Whole(a, t) ==
    \E f \in Range(capture) : f.chunk = <<a, FramesOf(sent[a])>> /\ f.time < t

\* The tester has the whole of an answer before it asks for something that the
\* same answer could be about: the same service, and for the value of a DID the
\* same DID.
AsksInTurn ==
    \A a \in DOMAIN sent, r \in Requests :
        LET q == sent[a].answers
        IN  (/\ q # 0 /\ q < r /\ sent[r].sid = sent[q].sid
             /\ DidOf(sent[a]) \in {NoDid, sent[r].did}) => Whole(a, sent[r].start)

\* The latency shown counts from the request that was answered, wherever the
\* frames that are left begin; a request that they no longer hold gives none,
\* never the time of another. A frame that the capture missed can make it count
\* from an earlier request, never from a later one.
LatencyIsOwn ==
    (missing <= 1 /\ AsksInTurn) =>
        \A k \in 0 .. Len(capture) :
            \A e \in Analyze(SubSeq(capture, k + 1, Len(capture))) :
                LET own == sent[sent[e.answer].answers].start
                IN  /\ \A t \in e.since : t <= own
                    /\ missing = 0 => e.since \subseteq {own}
                    /\ (missing = 0 /\ k = 0) => e.since = {own}
==============================================================================
