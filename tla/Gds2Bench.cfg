\* Segmented answers of three and four frames, blocks of one and two.
SPECIFICATION Spec
CONSTANTS
    Tools = {"probe", "simulator", "wrapper"}
    Dpids = {1, 2, 3}
    Reserved = {3}
    a = a
    b = b
    w = w
    vin = vin
    u = u
    Pids <- MCPids
    Length <- MCLength
    Period <- MCPeriod
    Requests <- MCRequests
    Blocks = {0, 1, 2}
    MaxLate = 2
    None = None
INVARIANTS
    TypeOK
    TransfersAgreed
    ReleasedAtEnd
PROPERTIES
    SamplesAsAgreed
    SamplesContinue
CHECK_DEADLOCK FALSE
