\* The session on a host with marked text, hardware keys and surrounding text.
SPECIFICATION Spec
CONSTANTS
    Byte <- MCByte
    Break <- MCBreak
    Width <- MCWidth
    Generate <- MCGenerate
    U64Max = 5
    MaxEventTextBytes = 3
    MaxCompositionTextBytes = 3
    MaxOutstandingActions = 2
    MaxResolvedActionHistory = 2
    MaxContextBytes = 1
    MaxUnknownContextBytes = 0
    SurroundingText = "BeforeCursor"
    SelectedTextRead = FALSE
    MarkedText = TRUE
    HardwareKeySupport = TRUE
    InsertTexts <- MCInsertTexts
    CursorDeltas <- MCDeltas
    SelectionDeltas <- MCDeltas
    HardwareKeys <- MCHardwareKeys
    Contexts <- MCContexts
    HostDispositions = {"Applied", "Rejected", "Superseded"}
INVARIANTS
    TypeOK
    RecoveryFresh
    SnapshotBound
    ViewMatchesComposition
    SelectionInRange
    CompositionUpdateCurrent
    CompositionWithinLimit
    ContextAllowed
    CursorWithinText
    CompositionIsUtf8
PROPERTIES
    RevisionPinsView
    FailedCallIsClean
    ImplementsLedger
