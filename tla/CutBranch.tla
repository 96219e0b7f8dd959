----------------------------- MODULE CutBranch ------------------------------
(***************************************************************************)
(* What src/src/cut/CutProcessor.cpp computes from a cut of a graph, as    *)
(* pure operators on sets: the source side V1 of a cut, the branch on a    *)
(* boundary vertex v, the reduction of the candidate edges to a minimal    *)
(* cut.  The buffers that the code reuses from branch to branch are the    *)
(* subject of CutProcessor, whose runs compare the two.                    *)
(***************************************************************************)
EXTENDS CutGraph

\* reconstructCut: the source side of a cut and its boundary edges.
V1(P) == Reach({superSource}, P)
reconstructCut(P) == superSink \notin V1(P)
pClean(P) == {e \in P : tail[e] \in V1(P) /\ head[e] \notin V1(P)}

\* branchFrame: v's outgoing edges are forbidden in place of the edge into v.
\* Of several edges into v the code releases the first only, which makes no
\* difference: v, where they lead, has been visited when the search starts.
qMask(P, v) == {e \in P : head[e] # v} \cup outgoingEdges(v)
V1New(P, v) == V1(P) \cup Reach({v}, qMask(P, v))

candidates(P, v) == {e \in P \cup outgoingEdges(v) : head[e] \notin V1New(P, v)}

\* cleanToMinimalCut: the candidates that lead from the new source side to a
\* vertex from which the sink can be reached.
vtMask(C) == CoReach({superSink}, C)
Clean(C, X) == {e \in C : tail[e] \in X /\ head[e] \in vtMask(C)}

Branch(P, v) == Clean(candidates(P, v), V1New(P, v))

\* The vertices branchFrame branches on: each distinct head once, not the
\* sink, not a vertex without outgoing edges.
BranchHeads(P) ==
    {v \in {head[e] : e \in pClean(P)} : v # superSink /\ outgoingEdges(v) # {}}

\* The branches that survive: the sink stays on its side, the cut is not empty.
ChildHeads(P) ==
    {v \in BranchHeads(pClean(P)) :
        superSink \notin V1New(pClean(P), v) /\ Branch(pClean(P), v) # {}}

\* The child cuts of a frame, one per branch, in some order.
Children(P) ==
    LET heads == SetToSeq(ChildHeads(P))
    IN  IF reconstructCut(P)
        THEN [i \in DOMAIN heads |-> Branch(pClean(P), heads[i])]
        ELSE <<>>
=============================================================================
