\* An acknowledgement sent twice.
SPECIFICATION FfiSpec
CONSTANTS
    Byte <- MCByte
    Break <- MCBreak
    Width <- MCWidth
    Generate <- MCGenerate
    U64Max = 4
    MaxEventTextBytes = 2
    MaxCompositionTextBytes = 2
    MaxOutstandingActions = 2
    MaxResolvedActionHistory = 3
    MaxContextBytes = 1
    MaxUnknownContextBytes = 0
    SurroundingText = "None"
    SelectedTextRead = FALSE
    MarkedText = FALSE
    HardwareKeySupport = FALSE
    InsertTexts = {}
    CursorDeltas = {}
    SelectionDeltas = {}
    HardwareKeys = {}
    Contexts = {}
    HostDispositions = {"Applied", "Failed"}
    MAX_FFI_INPUT_BYTES = 2
    MAX_RESULT_TEXT_BYTES = 8
    MAX_RESULT_CANDIDATES = 2
    MAX_RESULT_ACTIONS = 1
    WireEvents <- MCWireEvents
    MaxResults = 1
PROPERTIES
    SettledIsUnknown
