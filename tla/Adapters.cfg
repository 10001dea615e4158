\* Two objects of each kind, one fault, and one command before the monitor.
SPECIFICATION Spec
CONSTANTS
    MaxAdapters = 2
    MaxFaults = 1
    Commands = 1
INVARIANT KeepsPromise
PROPERTY CallsEnd
CHECK_DEADLOCK FALSE
