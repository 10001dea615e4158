-------------------------- MODULE MCAtlasDatabase --------------------------
(***************************************************************************)
(* One session and the captures that claim its identifier: two good ones,  *)
(* one with a malformed second line, one that declares a frame too many    *)
(* and one whose files do not match their hashes. One DBC source name; a   *)
(* file of one message, one of two, one that parses and names a signal     *)
(* twice in its second message, and one that does not parse.               *)
(***************************************************************************)
EXTENDS AtlasDatabase, TLC

CONSTANTS short, long, torn, wrong, bad, one, two, twice, garbage

MCSessions == {"s"}
MCCaptures == {short, long, torn, wrong, bad}
MCSessionOf == [c \in MCCaptures |-> "s"]
MCLines == short :> 1 @@ long :> 2 @@ torn :> 2 @@ wrong :> 1 @@ bad :> 1
MCMalformed == [c \in MCCaptures |-> IF c = torn THEN 2 ELSE 0]
MCDeclared ==
    short :> None @@ long :> 2 @@ torn :> None @@ wrong :> 2 @@ bad :> 1
MCUnusable == {bad}

MCNames == {"volt"}
MCFiles == {one, two, twice, garbage}
MCMessages == [f \in MCFiles |-> IF f = one THEN 1 ELSE 2]
MCInvalid == {garbage}
MCConflicting == {twice}
=============================================================================
