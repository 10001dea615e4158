\* Two captures of up to three lines, two queued timer ticks; safety and liveness.
SPECIFICATION Spec
CONSTANTS
    MaxCaptures = 2
    MaxLines = 3
    MaxTicks = 2
    MaxClock = 1
INVARIANTS
    TypeOK
    SealedExact
    IdleIsQuiescent
    ErrorIsOwn
PROPERTIES
    ImplementsEvidenceLog
    LinesSettle
    ImplementsLifecycle
CHECK_DEADLOCK FALSE
