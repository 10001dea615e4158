\* One capture, one page: does the recorder end with the capture?
SPECIFICATION VoiceSpec
CONSTANTS
    MaxCaptures = 1
    MaxPages = 1
    MaxRecorders = 1
    MaxFaults = 0
INVARIANT RecorderEndsWithCapture
CHECK_DEADLOCK FALSE
