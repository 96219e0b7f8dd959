CONSTANTS
    NumThreads = 3
    Cut <- FunnelCut
    NoFrame = 0
    Root = 1
    Candidates <- FunnelCandidates
    edgesOf <- FunnelEdges
    Vertex <- FunnelVertex
    tail <- FunnelTail
    head <- FunnelHead
    superSource = "s"
    superSink = "t"
    Hash <- FunnelCut
    cutHash <- Injective
    Oversize = {}
    BatchSize = 8
    PopMax = 2
    MaxLocalFrames = 5
    MaxCuts = 0
    MaxExamined = 0
    Signals = FALSE
    SleepOutlastsScan = FALSE
SPECIFICATION Spec
INVARIANTS
    CompleteOnReturn
