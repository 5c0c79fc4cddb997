\* Every action performed; acknowledgements in any order.
SPECIFICATION HostSpec
CONSTANTS
    Byte <- MCByte
    Break <- MCBreak
    Generate <- MCGenerate
    U64Max = 5
    MaxEventTextBytes = 1
    MaxCompositionTextBytes = 2
    MaxOutstandingActions = 2
    MaxResolvedActionHistory = 3
    MaxContextBytes = 1
    MaxUnknownContextBytes = 0
    SurroundingText = "None"
    SelectedTextRead = FALSE
    MarkedText = TRUE
    HardwareKeySupport = FALSE
    InsertTexts <- MCInsertTexts
    CursorDeltas = {}
    SelectionDeltas = {}
    HardwareKeys = {}
    Contexts = {}
    HostDispositions = {"Applied"}
    Disciplines <- PerformsAnyOrder
PROPERTIES
    AcknowledgedCompositionIsCancelled
