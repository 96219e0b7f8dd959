CONSTANTS
    NumThreads = 3
    Cut <- StepsCut
    NoFrame = 0
    Root = 1
    Candidates <- StepsCandidates
    edgesOf <- StepsEdges
    Vertex <- StepsVertex
    tail <- StepsTail
    head <- StepsHead
    superSource = "s"
    superSink = "t"
    Hash <- StepsCut
    cutHash <- Injective
    Oversize = {}
    BatchSize = 2
    PopMax = 2
    MaxLocalFrames = 1
    MaxCuts = 0
    MaxExamined = 0
    Signals = TRUE
    SleepOutlastsScan = TRUE
SPECIFICATION FairSpec
INVARIANTS
    TypeOK
    FindsMinimalCuts
    NoFrameLost
    FrameConservation
    TerminationDetected
    CompleteOnReturn
PROPERTIES
    ImplementsEnumeration
    FramesSettle
    Terminates
