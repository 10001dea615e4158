---------------------------- MODULE MCGds2Bench ----------------------------
(***************************************************************************)
(* Two packets, 1 and 2, and the reserved identifier 3. The values of a    *)
(* and b fit one packet together, that of w fits none with another, vin    *)
(* needs segments, and nothing is known of u.                              *)
(***************************************************************************)
EXTENDS Gds2Bench, TLC

CONSTANTS a, b, w, vin, u

MCPids == {a, b, w, vin, u}
MCLength == a :> 1 @@ b :> 2 @@ w :> 7 @@ vin :> 17 @@ u :> 0
MCPeriod == 2 :> 0 @@ 3 :> 2 @@ 4 :> 1

MCRequests ==
    {[service |-> "22", pids |-> <<vin, a>>], [service |-> "1A", did |-> u],
     [service |-> "3E", suppress |-> TRUE], [service |-> "3E", suppress |-> FALSE],
     [service |-> "A9"], [service |-> "27"],
     [service |-> "2C", dpid |-> 1, pids |-> <<a>>],
     [service |-> "2C", dpid |-> 1, pids |-> <<a, b>>],
     [service |-> "2C", dpid |-> 2, pids |-> <<b>>],
     [service |-> "2C", dpid |-> 3, pids |-> <<a>>],
     [service |-> "2C", dpid |-> 1, pids |-> <<a, w>>],
     [service |-> "AA", level |-> 0, dpids |-> <<>>],
     [service |-> "AA", level |-> 0, dpids |-> <<2>>],
     [service |-> "AA", level |-> 1, dpids |-> <<1>>],
     [service |-> "AA", level |-> 2, dpids |-> <<1>>],
     [service |-> "AA", level |-> 3, dpids |-> <<1>>],
     [service |-> "AA", level |-> 4, dpids |-> <<1>>],
     [service |-> "AA", level |-> 4, dpids |-> <<2>>]}
=============================================================================
