---------------------------- MODULE CutProcessor ----------------------------
(***************************************************************************)
(* The graph part of the search: src/src/cut/CutProcessor.cpp, which turns *)
(* a frame into the frames of the next cuts, one boundary edge after the   *)
(* other, and the loop around it that looks a frame up and records its     *)
(* cut (module ApdfsSolver has that loop in full).  One thread; frames and *)
(* boundary edges are taken in any order, because steals, spills and the   *)
(* breadth-first order can bring about any.  Frames with the same cut are  *)
(* one here: all but the first that is taken are skipped.                  *)
(*                                                                         *)
(* What a breadth-first search visits is a set here; BfsEngine shows that  *)
(* the code computes it.  A fingerprint is the cut itself: collisions are  *)
(* a matter of ApdfsSolver.                                                *)
(***************************************************************************)
EXTENDS Integers, FiniteSets, Sequences, SequencesExt

CONSTANTS
    Vertex, Edge, superSource, superSink,
    Graphs          \* the pairs <<tail, head>> a behaviour may start with

ASSUME GraphsAssumption ==
    /\ IsFiniteSet(Vertex)
    /\ superSource \in Vertex /\ superSink \in Vertex /\ superSource # superSink
    /\ \A g \in Graphs : g[1] \in [Edge -> Vertex] /\ g[2] \in [Edge -> Vertex]

VARIABLES
    tail, head,     \* the graph, which no step changes
    pending,        \* the cuts of the frames that wait to be taken
    mSeen,          \* the cuts of the frames that have been taken
    found,          \* the cuts recorded
    frame,          \* the cut of the frame being processed, NoFrame if none
    pClean,         \* its boundary edges
    rest,           \* those branchFrame has not come to yet
    mV1,            \* the engine's mask, overwritten by every search
    mV1Saved,       \* the source side of the frame's cut
    mHeadSeen,      \* the heads branchFrame has come to
    newFrames       \* the cuts branched off so far

INSTANCE CutGraph
Ref == INSTANCE CutBranch

graph   == <<tail, head>>
buffers == <<pClean, mV1Saved>>
vars    == <<graph, pending, mSeen, found, frame, buffers, rest, mV1, mHeadSeen, newFrames>>

NoFrame == {}       \* no frame has an empty cut

\* run() has found that the sink can be reached, and pushed the initial frame.
Init ==
    /\ \E g \in Graphs : tail = g[1] /\ head = g[2]
    /\ superSink \in Reach({superSource}, {})
    /\ pending = {InitialCut}
    /\ mSeen = {} /\ found = {}
    /\ frame = NoFrame
    /\ pClean = {} /\ rest = {}
    /\ mV1 = {} /\ mV1Saved = {} /\ mHeadSeen = {}
    /\ newFrames = {}
-----------------------------------------------------------------------------
\* Mutant: the saved mask is added to, not copied over.
ReconstructNotCopied(cut) ==
    /\ frame = NoFrame
    /\ cut \in pending /\ cut \notin mSeen
    /\ pending' = pending \ {cut}
    /\ mSeen' = mSeen \cup {cut}
    /\ frame' = cut
    /\ mV1' = Reach({superSource}, cut)
    /\ mV1Saved' = mV1Saved \cup mV1'
    /\ pClean' = {e \in cut : tail[e] \in mV1' /\ head[e] \notin mV1'}
    /\ rest' = IF superSink \in mV1' THEN {} ELSE pClean'
    /\ mHeadSeen' = {}
    /\ newFrames' = {}
    /\ UNCHANGED <<graph, found>>

\* tryMarkProcessing, then reconstructCut recovers the source side and the
\* boundary edges.  branchFrame is called if the sink is not on that side.
Reconstruct(cut) ==
    /\ frame = NoFrame
    /\ cut \in pending /\ cut \notin mSeen
    /\ pending' = pending \ {cut}
    /\ mSeen' = mSeen \cup {cut}
    /\ frame' = cut
    /\ mV1' = Reach({superSource}, cut)
    /\ mV1Saved' = mV1'
    /\ pClean' = {e \in cut : tail[e] \in mV1' /\ head[e] \notin mV1'}
    /\ rest' = IF superSink \in mV1' THEN {} ELSE pClean'
    /\ mHeadSeen' = {}
    /\ newFrames' = {}
    /\ UNCHANGED <<graph, found>>

\* No branch on the sink, twice on a vertex, or on one without outgoing edges.
SkipHead(ei) ==
    LET v == head[ei] IN
    /\ ei \in rest
    /\ v = superSink \/ v \in mHeadSeen \/ outgoingEdges(v) = {}
    /\ rest' = rest \ {ei}
    /\ mHeadSeen' = IF v = superSink THEN mHeadSeen ELSE mHeadSeen \cup {v}
    /\ UNCHANGED <<graph, pending, mSeen, found, frame, buffers, mV1, newFrames>>

\* Mutant: the branch starts from the mask that the branch before has left.
V1NewNotRestored(ei) == mV1 \cup Reach({head[ei]}, (pClean \ {ei}) \cup outgoingEdges(head[ei]))

\* The mask after incrementalForwardBfs from v, with the edges of the cut other
\* than ei and those out of v forbidden.  (A search that meets the sink returns
\* early and leaves less in the mask, which the next search overwrites.)
V1New(ei) ==
    LET v     == head[ei]
        qMask == (pClean \ {ei}) \cup outgoingEdges(v)
    IN  mV1Saved \cup Reach({v}, qMask)

candidates(ei) ==
    {e \in pClean \cup outgoingEdges(head[ei]) : head[e] \notin V1New(ei)}

\* Mutant: candidates behind which the sink cannot be reached are kept.
CleanUnfiltered(ei) == {e \in candidates(ei) : tail[e] \in V1New(ei)}

\* cleanToMinimalCut: backwardBfs with the candidates forbidden, filterByVT.
Clean(ei) ==
    LET vtMask == CoReach({superSink}, candidates(ei))
    IN  {e \in candidates(ei) : tail[e] \in V1New(ei) /\ head[e] \in vtMask}

Branches(ei) ==
    LET v == head[ei] IN
    /\ ei \in rest
    /\ v # superSink /\ v \notin mHeadSeen /\ outgoingEdges(v) # {}
    /\ rest' = rest \ {ei}
    /\ mHeadSeen' = mHeadSeen \cup {v}
    /\ mV1' = V1New(ei)
    /\ UNCHANGED <<graph, pending, mSeen, found, frame, buffers>>

\* The branch is dropped: v brings the sink with it, nothing is left of the
\* candidates, or the cut is in the table.
DropBranch(ei) ==
    /\ Branches(ei)
    /\ superSink \in V1New(ei) \/ Clean(ei) \in {{}} \cup mSeen
    /\ UNCHANGED newFrames

KeepBranch(ei) ==
    /\ Branches(ei)
    /\ superSink \notin V1New(ei) /\ Clean(ei) \notin {{}} \cup mSeen
    /\ newFrames' = newFrames \cup {Clean(ei)}

\* Mutant: the children take the place of the frames that wait.
RecordReplaces ==
    /\ frame # NoFrame /\ rest = {}
    /\ found' = found \cup {pClean}
    /\ pending' = newFrames
    /\ frame' = NoFrame
    /\ UNCHANGED <<graph, mSeen, buffers, rest, mV1, mHeadSeen, newFrames>>

\* processFrame returns; the cut is recorded and the children are pushed.
Record ==
    /\ frame # NoFrame /\ rest = {}
    /\ found' = found \cup {pClean}
    /\ pending' = pending \cup newFrames
    /\ frame' = NoFrame
    /\ UNCHANGED <<graph, mSeen, buffers, rest, mV1, mHeadSeen, newFrames>>

Finished == frame = NoFrame /\ pending = {}

Next ==
    \/ \E cut \in pending : Reconstruct(cut)
    \/ \E ei \in rest : SkipHead(ei) \/ DropBranch(ei) \/ KeepBranch(ei)
    \/ Record
    \/ Finished /\ UNCHANGED vars

Spec == Init /\ [][Next]_vars
-----------------------------------------------------------------------------
\* Every cut the search has recorded, has waiting or has branched off is minimal.
Sound == rest = {} => \A cut \in pending \cup newFrames \cup found : IsMinimalCut(cut)

\* Every cut that is recorded is a minimal cut ("all minimal (S,T)-cuts",
\* README.md:5 of the repository).
RecordsMinimal == \A cut \in found : IsMinimalCut(cut)

\* When no frame is left, every minimal cut of the graph has been recorded
\* (Theorem 3 of docs/APDFS_SPECIFICATION.md, of the code).
Complete == Finished => MinimalCuts \subseteq found

\* branchFrame has come to its end.
Branched == frame # NoFrame /\ rest = {}

\* A branch moves at least one vertex to the source side and moves none back:
\* the search cannot run in a circle, even without the table.
Grows ==
    Branched => \A cut \in newFrames :
                    LET side == Reach({superSource}, cut)
                    IN  mV1Saved \subseteq side /\ mV1Saved # side

\* The buffers that one branch leaves to the next make no difference: the
\* frames branched off are those CutBranch computes from the cut alone.
BranchesMatch == Branched => newFrames = ToSet(Ref!Children(frame)) \ mSeen
=============================================================================
