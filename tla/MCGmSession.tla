---------------------------- MODULE MCGmSession ----------------------------
(* A conversation to check the extractors on: reads of a DID, answered in    *)
(* one frame or in two, refused or deferred; packet definitions in one, two  *)
(* or three frames; an unframed read of trouble codes; and a request whose   *)
(* payload is redacted.                                                      *)
EXTENDS Integers

Refused == \h7F       \* Negative and Packet of GmSession
Dynamic == \hFE

Framed(side, sid, did, length) ==
    [id |-> side, sid |-> sid, of |-> 0, pending |-> FALSE, did |-> did,
     length |-> length, framed |-> TRUE]

Refusal(of, did, pending) ==
    [Framed("response", Refused, did, 3) EXCEPT !.of = of, !.pending = pending]

MCCatalogue == {
    [module |-> "HPCM2", role |-> "request", id |-> "request"],
    [module |-> "HPCM2", role |-> "normalResponse", id |-> "response"],
    [module |-> "HPCM2", role |-> "dataStream", id |-> "data"]}

Reads == {Framed("request", \h22, 1, 3), Framed("request", \h22, 2, 3),
          Framed("response", \h62, 2, 4),
          Framed("response", \h62, 1, 4), Framed("response", \h62, 1, 9),
          Refusal(\h22, 1, FALSE), Refusal(\h22, 1, TRUE)}

Defining == {Framed("request", \h2C, Dynamic, 4), Framed("request", \h2C, Dynamic, 8),
             Framed("request", \h2C, Dynamic, 14),
             Framed("response", \h6C, Dynamic, 2), Refusal(\h2C, Dynamic, FALSE)}

Legacy == {[Framed("request", \hA9, 0, 4) EXCEPT !.framed = FALSE],
           [Framed("response", \h81, 0, 4) EXCEPT !.framed = FALSE]}

\* A service whose payload the trace and the bundle redact.
Sensitive == {Framed("request", \h27, 0, 2)}

MCPayloads == Reads \cup Defining \cup Legacy \cup Sensitive

MCSkews == {-1, 0, 2}
=============================================================================
