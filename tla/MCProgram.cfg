CONSTANTS
    Line <- MCLine
    Config <- MCConfig
    Width = 4
    MaxLines = 4
    MaxUnsigned = 37
    VertexIndexMax = 15
    DefaultThreads = 5
    DefaultOutput = DefaultOutput
    Request <- MCRequest
    Session <- MCSession
SPECIFICATION ProgramSpec
INVARIANTS
    WellFormedOnly
    GraphOfFile
    RowsExact
    OptionsMean
    
    RandomLoads
    ChainCuts
