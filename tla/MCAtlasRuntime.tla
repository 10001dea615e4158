--------------------------- MODULE MCAtlasRuntime ---------------------------
(* Adapters of one slot, and a CANalyst-II, which takes two; what follows    *)
(* the offers is how many operations on the capture go with one, two and     *)
(* three calls.                                                              *)
EXTENDS AtlasRuntime

MCOffers ==
    {[field |-> "none", base |-> c, width |-> 1] : c \in {1, 3}}
    \cup {[field |-> "canalyst", base |-> 1, width |-> 2]}

MCOperations == <<5, 2, 0>>
=============================================================================
