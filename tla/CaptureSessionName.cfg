\* Two captures within two seconds: may they share a file?
SPECIFICATION Spec
CONSTANTS
    MaxCaptures = 2
    MaxLines = 1
    MaxTicks = 1
    MaxClock = 1
INVARIANT FileHoldsOneCapture
CHECK_DEADLOCK FALSE
