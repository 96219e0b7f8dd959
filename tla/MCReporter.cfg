CONSTANTS
    NumThreads = 2
    Cut <- LadderCut
    NoFrame = 0
    Root = 1
    Candidates <- LadderCandidates
    edgesOf <- LadderEdges
    Vertex <- LadderVertex
    tail <- LadderTail
    head <- LadderHead
    superSource = "s"
    superSink = "t"
    Hash <- LadderCut
    cutHash <- Injective
    Oversize = {}
    BatchSize = 2
    PopMax = 2
    MaxLocalFrames = 1
    MaxCuts = 2
    MaxExamined = 0
    Signals = TRUE
    SleepOutlastsScan = FALSE
    Modulus = 16
SPECIFICATION ReporterSpec
INVARIANTS
    PeaksExact
PROPERTIES
    RunFinishes
    WrapsAtTheEnd
