SPECIFICATION Spec
CONSTANTS
    Letters = {"a", "b"}
    Typed = {"blank", "quote", "quit"}
    BufferSize = 3
    HistoryMax = 2
    HistoryLength = 2
    MaxTokens = 3
    Pastes <- SomePastes
    LastInode = 2
    Names = {2, 3}
    PerCluster = 4
    WriteFaults = FALSE
    MaxLinks = 3
    MaxTarget = 3
    MaxDepth = 8
    Symbols <- AllSymbols
    MaxCodeLength = 3
    MaxLength = 6
INVARIANTS
    LineInBuffer
    BehindNewest
    WordsArrive
    NormalFormsAgree
    Lossless
    FitsTheBuffer
PROPERTY
    OnlyOldestForgotten
CHECK_DEADLOCK FALSE
