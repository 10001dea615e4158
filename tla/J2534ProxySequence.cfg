\* One failed write: are the numbers in the trace still contiguous?
SPECIFICATION Spec
CONSTANTS
    Threads = {t1, t2}
    NoThread = NoThread
    MaxRecords = 3
    MaxCalls = 1
    MaxFaults = 1
    MaxProcesses = 1
INVARIANT SequenceContiguous
CHECK_DEADLOCK FALSE
