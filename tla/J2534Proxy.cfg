\* Two threads, two calls per process, one failed write, one failed flush.
SPECIFICATION Spec
CONSTANTS
    Threads = {t1, t2}
    NoThread = NoThread
    MaxRecords = 3
    MaxCalls = 2
    MaxFaults = 1
    MaxProcesses = 2
INVARIANTS
    TraceReadable
    GroupBounded
    BoundaryCommitted
    ReportedSurvives
    ForwardedAsRecorded
    FailsClosed
PROPERTIES
    CommittedKept
    CallReturns
CHECK_DEADLOCK FALSE
