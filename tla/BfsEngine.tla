----------------------------- MODULE BfsEngine ------------------------------
(***************************************************************************)
(* The breadth-first searches of src/src/cut/BfsEngine.cpp, edge by edge.  *)
(* One engine serves one thread from call to call: the masks and the queue *)
(* it keeps are whatever the last call has left in them.  A behaviour      *)
(* chooses a graph and then makes calls for ever, forwardBfs and           *)
(* backwardBfs with any forbidden edges, incrementalForwardBfs from the    *)
(* source side that the last forwardBfs has found, with the head of one of *)
(* the edges it has reported and the others forbidden.                     *)
(***************************************************************************)
EXTENDS Integers, Sequences, FiniteSets, SequencesExt

CONSTANTS
    Vertex,
    Edge,           \* EdgeIndex, a set of natural numbers
    superSource, superSink,
    Graphs          \* the pairs <<tail, head>> a behaviour may start with

ASSUME GraphsAssumption ==
    /\ Edge \subseteq Nat
    /\ superSource \in Vertex /\ superSink \in Vertex /\ superSource # superSink
    /\ \A g \in Graphs : g[1] \in [Edge -> Vertex] /\ g[2] \in [Edge -> Vertex]

VARIABLES
    tail, head,     \* the graph, which no step changes
    call,           \* the call in progress, or the last one
    busy,           \* whether it is in progress
    result,         \* what it returned
    mV1, mVT,       \* the masks of visited vertices
    mCutMask,       \* the forbidden edges
    outCutEdges,    \* the boundary edges forwardBfs reports, as found
    mQueue,         \* every vertex enqueued in this call
    taken,          \* how many of them have been taken (head in the code)
    adjacent,       \* the edges at the last of these not looked at yet
    mV1Saved        \* the copy of mV1 that CutProcessor makes

INSTANCE CutGraph

graph  == <<tail, head>>
vars   == <<graph, call, busy, result, mV1, mVT, mCutMask, outCutEdges, mQueue,
            taken, adjacent, mV1Saved>>

Backward == call = "backwardBfs"

\* Graph::incomingEdges; outgoingEdges is in CutGraph.
incomingEdges(v) == {e \in Edge : head[e] = v}

\* The vertex an edge leads to in the direction of the search, and the one it
\* comes from; the mask.
FarEnd(e)  == IF Backward THEN tail[e] ELSE head[e]
NearEnd(e) == IF Backward THEN head[e] ELSE tail[e]
Visited    == IF Backward THEN mVT ELSE mV1

\* The lists of edges at a vertex are in the order of the edge indices.
Current(e) == e \in adjacent /\ \A f \in adjacent : e <= f

Init ==
    /\ \E g \in Graphs : tail = g[1] /\ head = g[2]
    /\ call = "none" /\ busy = FALSE /\ result = FALSE
    /\ mV1 = {} /\ mVT = {} /\ mCutMask = {} /\ outCutEdges = <<>>
    /\ mQueue = <<>> /\ taken = 0 /\ adjacent = {}
    /\ mV1Saved = {}
-----------------------------------------------------------------------------
\* Common to the three calls: the mask of the caller, an empty queue.
Call(name, forbidden, queue) ==
    /\ ~busy
    /\ busy' = TRUE
    /\ call' = name
    /\ mCutMask' = forbidden
    /\ mQueue' = queue
    /\ taken' = 0
    /\ adjacent' = {}
    /\ UNCHANGED <<graph, result, mV1Saved>>

ForwardBfs(forbidden) ==
    /\ Call("forwardBfs", forbidden, <<superSource>>)
    /\ mV1' = {superSource}
    /\ outCutEdges' = <<>>
    /\ UNCHANGED mVT

BackwardBfs(forbidden) ==
    /\ Call("backwardBfs", forbidden, <<superSink>>)
    /\ mVT' = {superSink}
    /\ UNCHANGED <<mV1, outCutEdges>>

\* Mutant: the search starts with what the branch before has left in the mask.
IncrementalNotRestored(ei, forbidden) ==
    LET v == head[ei] IN
    /\ superSink \notin mV1Saved
    /\ v # superSink
    /\ ToSet(outCutEdges) \ {ei} \subseteq forbidden
    /\ Call("incrementalForwardBfs", forbidden, IF v \in mV1 THEN <<>> ELSE <<v>>)
    /\ mV1' = mV1 \cup {v}
    /\ UNCHANGED <<mVT, outCutEdges>>

\* The caller has restored the saved mask and goes on behind the edge ei, with the
\* other boundary edges forbidden.  branchFrame forbids the edges out of head[ei]
\* too, and its search ends where it began; the tests forbid other sets.
IncrementalForwardBfs(ei, forbidden) ==
    LET v == head[ei] IN
    /\ superSink \notin mV1Saved
    /\ v # superSink
    /\ ToSet(outCutEdges) \ {ei} \subseteq forbidden
    /\ Call("incrementalForwardBfs", forbidden, IF v \in mV1Saved THEN <<>> ELSE <<v>>)
    /\ mV1' = mV1Saved \cup {v}
    /\ UNCHANGED <<mVT, outCutEdges>>
-----------------------------------------------------------------------------
\* u = mQueue[head++], and the edges at u.
NextVertex ==
    /\ busy
    /\ adjacent = {}
    /\ taken < Len(mQueue)
    /\ taken' = taken + 1
    /\ adjacent' = IF Backward THEN incomingEdges(mQueue[taken + 1])
                               ELSE outgoingEdges(mQueue[taken + 1])
    /\ UNCHANGED <<graph, call, busy, result, mV1, mVT, mCutMask, outCutEdges,
                   mQueue, mV1Saved>>

\* Mutant: of parallel boundary edges one is reported.
SkipForbiddenOnePerHead(e) ==
    /\ busy
    /\ Current(e) /\ e \in mCutMask
    /\ adjacent' = adjacent \ {e}
    /\ outCutEdges' = IF /\ call = "forwardBfs"
                         /\ head[e] \notin mV1 \cup {head[f] : f \in ToSet(outCutEdges)}
                      THEN Append(outCutEdges, e) ELSE outCutEdges
    /\ UNCHANGED <<graph, call, busy, result, mV1, mVT, mCutMask, mQueue, taken,
                   mV1Saved>>

\* A forbidden edge is not followed; forwardBfs reports it as a boundary edge
\* if the vertex it leads to has not been visited so far.
SkipForbidden(e) ==
    /\ busy
    /\ Current(e) /\ e \in mCutMask
    /\ adjacent' = adjacent \ {e}
    /\ outCutEdges' = IF call = "forwardBfs" /\ head[e] \notin mV1
                      THEN Append(outCutEdges, e) ELSE outCutEdges
    /\ UNCHANGED <<graph, call, busy, result, mV1, mVT, mCutMask, mQueue, taken,
                   mV1Saved>>

SkipVisited(e) ==
    /\ busy
    /\ Current(e) /\ e \notin mCutMask
    /\ FarEnd(e) \in Visited
    /\ adjacent' = adjacent \ {e}
    /\ UNCHANGED <<graph, call, busy, result, mV1, mVT, mCutMask, outCutEdges,
                   mQueue, taken, mV1Saved>>

\* Mutant: a vertex is marked when it is taken from the queue, not before.
DiscoverUnmarked(e) ==
    /\ busy
    /\ Current(e) /\ e \notin mCutMask
    /\ FarEnd(e) \notin Visited
    /\ adjacent' = adjacent \ {e}
    /\ mV1' = IF Backward THEN mV1 ELSE mV1 \cup {tail[e]}
    /\ mVT' = IF Backward THEN mVT \cup {head[e]} ELSE mVT
    /\ mQueue' = Append(mQueue, FarEnd(e))
    /\ UNCHANGED <<graph, call, busy, result, mCutMask, outCutEdges, taken, mV1Saved>>

\* A new vertex.  The incremental search returns at once when it is the sink.
Discover(e) ==
    /\ busy
    /\ Current(e) /\ e \notin mCutMask
    /\ FarEnd(e) \notin Visited
    /\ adjacent' = adjacent \ {e}
    /\ mV1' = IF Backward THEN mV1 ELSE mV1 \cup {head[e]}
    /\ mVT' = IF Backward THEN mVT \cup {tail[e]} ELSE mVT
    /\ mQueue' = Append(mQueue, FarEnd(e))
    /\ IF call = "incrementalForwardBfs" /\ head[e] = superSink
       THEN busy' = FALSE /\ result' = TRUE
       ELSE UNCHANGED <<busy, result>>
    /\ UNCHANGED <<graph, call, mCutMask, outCutEdges, taken, mV1Saved>>

\* The queue is exhausted.  CutProcessor saves the mask of forwardBfs.
Return ==
    /\ busy
    /\ adjacent = {}
    /\ taken = Len(mQueue)
    /\ busy' = FALSE
    /\ result' = IF Backward THEN result ELSE superSink \in mV1
    /\ mV1Saved' = IF call = "forwardBfs" THEN mV1 ELSE mV1Saved
    /\ UNCHANGED <<graph, call, mV1, mVT, mCutMask, outCutEdges, mQueue, taken, adjacent>>

LookAt(e) == SkipForbidden(e) \/ SkipVisited(e) \/ Discover(e)
Search == NextVertex \/ Return \/ \E e \in Edge : LookAt(e)
Next ==
    \/ Search
    \/ \E forbidden \in SUBSET Edge : ForwardBfs(forbidden) \/ BackwardBfs(forbidden)
    \/ \E ei \in ToSet(outCutEdges), forbidden \in SUBSET Edge : IncrementalForwardBfs(ei, forbidden)

Spec == Init /\ [][Next]_vars
-----------------------------------------------------------------------------
\* The types, and no vertex twice in the queue, so that the capacity reserved
\* once and for all (the number of vertices) is never exceeded.
TypeOK ==
    /\ IsGraph
    /\ call \in {"none", "forwardBfs", "incrementalForwardBfs", "backwardBfs"}
    /\ busy \in BOOLEAN /\ result \in BOOLEAN
    /\ mV1 \subseteq Vertex /\ mVT \subseteq Vertex /\ mV1Saved \subseteq Vertex
    /\ mCutMask \subseteq Edge /\ adjacent \subseteq Edge
    /\ outCutEdges \in Seq(Edge)
    /\ mQueue \in Seq(Vertex) /\ IsInjective(mQueue)
    /\ taken \in 0 .. Len(mQueue)

Returned(name) == call = name /\ ~busy

\* Whatever calls came before, forwardBfs visits exactly the vertices that can
\* be reached from the source without a forbidden edge, and says whether the
\* sink is one of them.
ForwardExact ==
    Returned("forwardBfs") =>
        /\ mV1 = Reach({superSource}, mCutMask)
        /\ result = (superSink \in mV1)

\* incrementalForwardBfs visits, in addition to what has been visited before,
\* exactly what can be reached from its start vertex, and less only if it meets
\* the sink: the vertices visited before need no second look.
IncrementalExact ==
    Returned("incrementalForwardBfs") =>
        LET new == IF mQueue = <<>> THEN {} ELSE Reach({mQueue[1]}, mCutMask)
        IN  /\ result = (superSink \in mV1Saved \cup new)
            /\ mV1 \subseteq mV1Saved \cup new
            /\ ~result => mV1 = mV1Saved \cup new

\* backwardBfs visits exactly the vertices from which the sink can be reached.
BackwardExact ==
    Returned("backwardBfs") => mVT = CoReach({superSink}, mCutMask)

\* Every search finds what it should, whatever the calls before it have left in
\* the masks, the forbidden set and the queue.
SearchesExact == ForwardExact /\ IncrementalExact /\ BackwardExact

\* The edges forwardBfs reports include every edge that leads out of the
\* visited vertices, each of them once; if the forbidden edges are a minimal
\* cut, they are reported all, and no other.
BoundaryReported ==
    Returned("forwardBfs") =>
        /\ Boundary(mV1) \subseteq ToSet(outCutEdges)
        /\ ToSet(outCutEdges) \subseteq mCutMask
        /\ IsInjective(outCutEdges)
        /\ IsMinimalCut(mCutMask) => ToSet(outCutEdges) = mCutMask
=============================================================================
