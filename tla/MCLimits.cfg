CONSTANTS
    NumThreads = 3
    Cut <- SluiceCut
    NoFrame = 0
    Root = 1
    Candidates <- SluiceCandidates
    edgesOf <- SluiceEdges
    Vertex <- SluiceVertex
    tail <- SluiceTail
    head <- SluiceHead
    superSource = "s"
    superSink = "t"
    Hash <- SluiceCut
    cutHash <- Colliding
    Oversize = {1, 3, 5, 8}
    BatchSize = 2
    PopMax = 2
    MaxLocalFrames = 1
    MaxCuts = 2
    MaxExamined = 5
    Signals = FALSE
    SleepOutlastsScan = FALSE
SPECIFICATION Spec
INVARIANTS
    IdleHoldsNothing
    WrittenOnce
    OvershootBounded
