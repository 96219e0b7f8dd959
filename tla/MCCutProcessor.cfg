CONSTANTS
    EdgeCount = 7
    Vertex = {"s", "a", "b", "c", "d", "t"}
    Edge <- MCEdge
    superSource = "s"
    superSink = "t"
    Graphs <- MCGraphs
SPECIFICATION Spec
INVARIANTS
    Grows
    Sound
    Complete
    BranchesMatch
