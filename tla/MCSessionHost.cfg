\* Hosts of every discipline, all of whose acknowledgements arrive in the end.
SPECIFICATION FairHostSpec
CONSTANTS
    Byte <- MCByte
    Break <- MCBreak
    Generate <- MCGenerate
    U64Max = 4
    MaxEventTextBytes = 1
    MaxCompositionTextBytes = 2
    MaxOutstandingActions = 2
    MaxResolvedActionHistory = 3
    MaxContextBytes = 1
    MaxUnknownContextBytes = 0
    SurroundingText = "None"
    SelectedTextRead = FALSE
    MarkedText = TRUE
    HardwareKeySupport = FALSE
    InsertTexts <- MCInsertTexts
    CursorDeltas = {}
    SelectionDeltas = {}
    HardwareKeys <- OneHardwareKey
    Contexts = {}
    HostDispositions = {"Applied", "Failed"}
    Disciplines <- EveryHost
INVARIANTS
    HostInStep
    HostUnderstood
    OutstandingIsInFlight
PROPERTIES
    EveryActionSettles
