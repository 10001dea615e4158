\* An export while the source is replaced.
SPECIFICATION Spec
CONSTANTS
    SessionProcesses = {p1, p2}
    DbcProcesses = {q1, q2}
    MaxCommands = 3
    short = short
    long = long
    torn = torn
    wrong = wrong
    bad = bad
    one = one
    two = two
    twice = twice
    garbage = garbage
    Sessions <- MCSessions
    Captures <- MCCaptures
    SessionOf <- MCSessionOf
    Unusable <- MCUnusable
    Lines <- MCLines
    Malformed <- MCMalformed
    Declared <- MCDeclared
    Batch = 1
    Annotations = 2
    Names <- MCNames
    Files <- MCFiles
    Invalid <- MCInvalid
    Conflicting <- MCConflicting
    Messages <- MCMessages
    None = None
INVARIANT ExportWhole
CHECK_DEADLOCK FALSE
