CONSTANTS
    Vertex <- MCVertex
    Edge <- MCEdge
    superSource = "s"
    superSink = "t"
    Graphs <- MCGraphs
    BITS_PER_WORD = 3
    vertexIndex <- MCVertexIndex
SPECIFICATION MaskSpec
INVARIANTS
    TypeOK
    SearchesExact
    BoundaryReported
    MasksAreSets
