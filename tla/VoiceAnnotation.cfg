\* Three captures, two pages, three recorders, one fault.
SPECIFICATION VoiceSpec
CONSTANTS
    MaxCaptures = 3
    MaxPages = 2
    MaxRecorders = 3
    MaxFaults = 1
INVARIANTS
    MicrophoneCoupled
    SidecarOwn
PROPERTIES
    StopsComplete
CHECK_DEADLOCK FALSE
