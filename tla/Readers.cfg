\* Every trace of up to four records about two calls, and every DBC file of up
\* to four statements. Identifiers of three bits: 0 and 1 standard, 2 and 3
\* extended, flag 8. Two threads of the writer, up to three calls. Series of up
\* to three readings within six instants, up to three sessions of two cells and
\* two slots. An orderly or disorderly conversation of up to six frames, one of
\* which the capture may miss.
SPECIFICATION Spec
CONSTANTS
    MaxRows = 4
    Calls = {1, 2}
    MaxStandard = 1
    MaxExtended = 3
    Flag = 8
    MaxDlc = 2
    MaxLength = 2
    MaxLines = 4
    Raw = {1, 3, 11, 16}
    Noted = {3}
    Texts <- MCTexts
    Threads = {t1, t2}
    None = None
    MaxCallIds = 3
    Cells = {1, 2}
    Slots = {1, 2}
    MaxDelta = 2
    MinPairs = 2
    MaxReadings = 3
    MaxInstant = 6
    MaxSessions = 3
    Payloads <- MCPayloads
    Catalogue <- MCCatalogue
    Window = 4
    FlowBytes = {48}
    Skews <- MCSkews
    MaxSkew = 2
    MaxTime = 6
    MaxRequests = 3
    MaxMissing = 1
INVARIANTS
    TracesAreRead
    DbcIsKept
    MappingEvidence
    MessagesWereSent
    TransactionsExact
    BundleAttributes
    LatencyIsOwn
CHECK_DEADLOCK FALSE
