\* The history of settled actions at its limit.
SPECIFICATION Spec
CONSTANTS
    Byte <- MCByte
    Break <- MCBreak
    Width <- MCWidth
    Generate <- MCGenerate
    U64Max = 5
    MaxEventTextBytes = 3
    MaxCompositionTextBytes = 3
    MaxOutstandingActions = 2
    MaxResolvedActionHistory = 2
    MaxContextBytes = 1
    MaxUnknownContextBytes = 0
    SurroundingText = "BeforeCursor"
    SelectedTextRead = FALSE
    MarkedText = FALSE
    HardwareKeySupport = FALSE
    InsertTexts <- MCInsertTexts
    CursorDeltas <- MCDeltas
    SelectionDeltas <- MCDeltas
    HardwareKeys <- OneHardwareKey
    Contexts <- MCContexts
    HostDispositions = {"Applied", "Rejected", "Superseded"}
PROPERTIES
    RecordedIsRemembered
