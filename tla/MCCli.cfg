\* The command line loop on a small dictionary, autoack turned on and off at will.
SPECIFICATION CliSpec
CONSTANTS
    Byte <- MCByte
    Break <- MCBreak
    Generate <- MCGenerate
    U64Max = 5
    MaxEventTextBytes = 2
    MaxCompositionTextBytes = 2
    MaxOutstandingActions = 2
    MaxResolvedActionHistory = 3
    MaxContextBytes = 1
    MaxUnknownContextBytes = 0
    SurroundingText = "None"
    SelectedTextRead = FALSE
    MarkedText = FALSE
    HardwareKeySupport = FALSE
    InsertTexts <- MCInsertTexts
    CursorDeltas <- MCDeltas
    SelectionDeltas <- MCDeltas
    HardwareKeys = {}
    Contexts = {}
    HostDispositions = {"Applied", "Failed", "Superseded"}
    TheEngine <- MCEngine
INVARIANTS
    AutoAckSettles
    AttendedIsHealthy
PROPERTIES
    SelectCommitsPrinted
    CommittedWasMeant
CHECK_DEADLOCK FALSE
