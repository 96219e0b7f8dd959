CONSTANTS
    Line <- SmallLine
    Config <- MCConfig
    Width = 4
    MaxLines = 4
    MaxUnsigned = 37
    VertexIndexMax = 15
    DefaultThreads = 5
    DefaultOutput = DefaultOutput
    Request <- MCRequest
    Session <- SmallSession
SPECIFICATION ProgramSpec
INVARIANTS
    ExitStatusPromised
