SPECIFICATION CloneSpec
CHECK_DEADLOCK FALSE
CONSTANTS
    Paths = {"a", "b", "c", "d d", "e'"}
    Quoted = {"e'"}
    NoNewline = {"b"}
    generatedPaths = {}
    Order <- MCOrder
    Chunks <- MCChunks
    Rewrites <- MCRewrites
    Texts <- MCTexts
    PlusPlus <- MCPlusPlus
    MinusMinus <- MCMinusMinus
    Posed <- MCPosed
    Tabbed <- MCTabbed
    Baselines <- MCBaselines
    Code <- MCCode
    Keywords = {"void", "for", "const"}
    Identifiers = {"f", "g", "h", "k", "l", "m", "x"}
    Literals = {"1"}
    Skeleton = {"break"}
    kMaxLexBytes = 80
    maxAddedLines = 20
    maxCloneScanBytes = 150
    minTokens = 4
    maxTokens = 12
    rareDfCap = 2
    minSharedRare = 1
    fpK = 3
    fpWindow = 3
    fpMaxPostings = 2
    simThreshold = 60
    jointWeightedThreshold = 75
    jointLineThreshold = 50
    jointRunWeightedThreshold = 60
    jointMinClassicStatements = 2
    jointMinSharedLines = 2
    kShortTokens = 6
    kInsertionSort = 3
INVARIANTS
    AddedLinesRead
    DeletedLinesRead
    FocusIsExact
    MoveIsNotACopy
