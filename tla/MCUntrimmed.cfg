CONSTANTS
    EdgeCount = 3
    Vertex <- BuilderVertex
    Edge <- MCEdge
    superSource = "s"
    superSink = "t"
    Graphs <- BuiltGraphs
SPECIFICATION Spec
INVARIANTS
    RecordsMinimal
