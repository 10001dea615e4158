\* Three slots, up to three calls of connect and disconnect, and a capture of up
\* to three lines with up to five operations. One fault; calls meet on one or
\* two slots.
SPECIFICATION Spec
CONSTANTS
    Channels = 3
    Offers <- MCOffers
    MaxCalls = 3
    MaxOperations <- MCOperations
    MaxFaults = 1
    MaxDisturbed = 2
    MaxCaptures = 1
    MaxLines = 3
INVARIANTS
    TypeOK
    SlotsTruthful
    ObservedIsRecorded
CHECK_DEADLOCK FALSE
