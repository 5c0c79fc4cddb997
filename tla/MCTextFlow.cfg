\* Two letters on their way to the document, with refusals and late acknowledgements.
SPECIFICATION FlowSpec
CONSTANTS
    Byte <- MCByte
    Break <- MCBreak
    Generate <- MCGenerate
    U64Max = 6
    MaxEventTextBytes = 1
    MaxCompositionTextBytes = 2
    MaxOutstandingActions = 2
    MaxResolvedActionHistory = 3
    MaxContextBytes = 1
    MaxUnknownContextBytes = 0
    SurroundingText = "None"
    SelectedTextRead = FALSE
    MarkedText = FALSE
    HardwareKeySupport = FALSE
    InsertTexts <- MCInsertTexts
    CursorDeltas = {}
    SelectionDeltas = {}
    HardwareKeys = {}
    Contexts <- MCContexts
    HostDispositions = {"Applied", "Failed"}
    Disciplines <- AnyOrder
INVARIANTS
    NoLetterTwice
PROPERTIES
    NoLetterLost
