-------------------------- MODULE BfsEngine_proofs --------------------------
(***************************************************************************)
(* On every graph, and after any calls before, each of the three searches  *)
(* visits exactly what it should and forwardBfs reports the boundary; and  *)
(* the words of the bitsets hold the masks of the searches.                *)
(***************************************************************************)
EXTENDS BfsMasks, Lemmas

(***************************************************************************)
(* The invariant.                                                          *)
(***************************************************************************)
\* The vertices taken from the queue, and those that wait in it.
Taken   == {mQueue[i] : i \in 1 .. taken}
Waiting == {mQueue[i] : i \in taken + 1 .. Len(mQueue)}

\* The edges still to be looked at begin at a vertex taken from the queue, and
\* everything in the queue is marked.
QueueInv ==
    busy =>
        /\ call # "none"
        /\ ToSet(mQueue) \subseteq Visited
        /\ \A e \in adjacent : NearEnd(e) \in Taken

\* Nothing is visited that cannot be reached.
New == IF mQueue = <<>> THEN {} ELSE Reach({mQueue[1]}, mCutMask)

ReachedInv ==
    busy =>
        /\ call = "forwardBfs" =>
              superSource \in mV1 /\ mV1 \subseteq Reach({superSource}, mCutMask)
        /\ call = "backwardBfs" =>
              superSink \in mVT /\ mVT \subseteq CoReach({superSink}, mCutMask)
        /\ call = "incrementalForwardBfs" =>
              /\ superSink \notin mV1
              /\ mV1 = mV1Saved \cup ToSet(mQueue)
              /\ ToSet(mQueue) \subseteq New

\* An edge that leads out of the visited vertices and is not forbidden is still
\* to be looked at.
FrontierInv ==
    busy =>
        \A e \in Edge \ mCutMask : NearEnd(e) \in Visited =>
            FarEnd(e) \in Visited \/ e \in adjacent \/ NearEnd(e) \in Waiting

\* A forbidden edge that does is reported, or still to be looked at; those
\* reported are done with.
ReportInv ==
    /\ busy /\ call = "forwardBfs" =>
          /\ ToSet(outCutEdges) \subseteq mCutMask
          /\ IsInjective(outCutEdges)
          /\ \A e \in ToSet(outCutEdges) : e \notin adjacent /\ tail[e] \in Taken
          /\ \A e \in mCutMask : tail[e] \in mV1 =>
                \/ head[e] \in mV1
                \/ e \in ToSet(outCutEdges) \/ e \in adjacent \/ tail[e] \in Waiting
    /\ ~(busy /\ call = "forwardBfs") => Boundary(mV1Saved) \subseteq ToSet(outCutEdges)

IInv == TypeOK /\ QueueInv /\ ReachedInv /\ FrontierInv /\ ReportInv /\ SearchesExact /\ BoundaryReported

(* The queue of a search with a start vertex. *)
LEMMA SingletonSeq ==
    ASSUME NEW v \in Vertex
    PROVE  /\ <<v>> \in Seq(Vertex) /\ Len(<<v>>) = 1 /\ <<v>>[1] = v
           /\ ToSet(<<v>>) = {v} /\ IsInjective(<<v>>) /\ <<v>> # <<>>
<1>1. <<v>> \in Seq(Vertex) /\ Len(<<v>>) = 1 /\ <<v>>[1] = v /\ DOMAIN <<v>> = 1 .. 1
  OBVIOUS
<1>. QED  BY <1>1 DEF ToSet, IsInjective

(* A sequence of length 0 has no elements, and none of them twice. *)
LEMMA NoElements ==
    ASSUME NEW S, NEW s \in Seq(S), Len(s) = 0
    PROVE  IsInjective(s) /\ ToSet(s) = {}
BY DEF ToSet, IsInjective

(* The queue of a search that has nowhere to go. *)
LEMMA EmptyQueue ==
    <<>> \in Seq(Vertex) /\ Len(<<>>) = 0 /\ ToSet(<<>>) = {} /\ IsInjective(<<>>)
<1>1. <<>> \in Seq(Vertex) /\ Len(<<>>) = 0
  OBVIOUS
<1>2. ToSet(<<>>) = {} /\ IsInjective(<<>>)
  BY <1>1, NoElements
<1>. QED  BY <1>1, <1>2

(* outCutEdges.clear() *)
LEMMA NoReports ==
    <<>> \in Seq(Edge) /\ ToSet(<<>>) = {} /\ IsInjective(<<>>)
<1>1. <<>> \in Seq(Edge) /\ Len(<<>>) = 0
  OBVIOUS
<1>. QED  BY <1>1, NoElements

(* An engine that has not been called. *)
LEMMA InitInv == Init => IInv
<1>. SUFFICES ASSUME Init PROVE IInv
  OBVIOUS
<1>1. TypeOK
  <2>1. IsGraph
    BY GraphsAssumption DEF Init, IsGraph
  <2>2. outCutEdges \in Seq(Edge)
    BY NoReports DEF Init
  <2>3. mQueue \in Seq(Vertex) /\ IsInjective(mQueue) /\ Len(mQueue) = 0
    BY EmptyQueue DEF Init
  <2>4. /\ call = "none" /\ busy = FALSE /\ result = FALSE /\ mV1 = {} /\ mVT = {} /\ mCutMask = {}
        /\ taken = 0 /\ adjacent = {} /\ mV1Saved = {}
    BY DEF Init
  <2>5. taken \in 0 .. Len(mQueue)
    BY <2>3, <2>4
  <2>. QED  BY <2>1, <2>2, <2>3, <2>4, <2>5, Zenon DEF TypeOK
<1>2. ~busy /\ call = "none" /\ mV1Saved = {}
  BY DEF Init
<1>. QED
  BY <1>1, <1>2 DEF IInv, QueueInv, ReachedInv, FrontierInv, ReportInv, SearchesExact, ForwardExact,
     IncrementalExact, BackwardExact, BoundaryReported, Returned, Boundary
-----------------------------------------------------------------------------
(***************************************************************************)
(* The calls.                                                              *)
(***************************************************************************)
(* What a call that starts a search leaves of the invariant. *)
LEMMA CallTypes ==
    ASSUME TypeOK, NEW name \in {"forwardBfs", "incrementalForwardBfs", "backwardBfs"},
           NEW forbidden \in SUBSET Edge, NEW queue \in Seq(Vertex), IsInjective(queue),
           Call(name, forbidden, queue), mV1' \subseteq Vertex, mVT' \subseteq Vertex,
           outCutEdges' \in Seq(Edge)
    PROVE  TypeOK'
<1>1. IsGraph'
  BY DEF TypeOK, IsGraph, Call, graph
<1>. QED  BY <1>1 DEF TypeOK, Call

(* forwardBfs starts at the source, with no edge reported. *)
LEMMA ForwardCall ==
    ASSUME IInv, NEW forbidden \in SUBSET Edge, ForwardBfs(forbidden)
    PROVE  IInv'
<1>. USE DEF ForwardBfs
<1>. DEFINE v == superSource
<1>1. v \in Vertex /\ TypeOK /\ IsGraph
  BY GraphsAssumption DEF IInv, TypeOK
<1>2. TypeOK'
  <2>1. outCutEdges' \in Seq(Edge)
    BY NoReports
  <2>. QED  BY <1>1, <2>1, CallTypes, SingletonSeq DEF Call, TypeOK
<1>3. /\ busy' /\ call' = "forwardBfs" /\ mCutMask' = forbidden /\ mV1' = {v} /\ mQueue' = <<v>>
      /\ taken' = 0 /\ adjacent' = {} /\ outCutEdges' = <<>> /\ tail' = tail /\ head' = head
  BY DEF Call, graph
<1>4. ToSet(mQueue)' = {v} /\ Waiting' = {v} /\ Len(mQueue)' = 1
  BY <1>1, <1>3, SingletonSeq DEF Waiting
<1>5. QueueInv' /\ FrontierInv'
  BY <1>3, <1>4 DEF QueueInv, FrontierInv, Visited, NearEnd, Backward
<1>6. ReachedInv'
  <2>1. {v} \subseteq Reach({superSource}, mCutMask)'
    BY <1>1, <1>2, ReachIsClosed, <1>3 DEF Reach
  <2>. QED  BY <1>3, <2>1 DEF ReachedInv
<1>7. ReportInv'
  <2>1. ToSet(outCutEdges)' = {} /\ IsInjective(outCutEdges)'
    BY <1>3, NoReports
  <2>. QED  BY <1>3, <1>4, <2>1 DEF ReportInv
<1>. QED
  BY <1>2, <1>3, <1>5, <1>6, <1>7 DEF IInv, SearchesExact, ForwardExact, IncrementalExact,
     BackwardExact, BoundaryReported, Returned

(* backwardBfs starts at the sink, and leaves mV1 and the reports alone. *)
LEMMA BackwardCall ==
    ASSUME IInv, NEW forbidden \in SUBSET Edge, BackwardBfs(forbidden)
    PROVE  IInv'
<1>. USE DEF BackwardBfs
<1>. DEFINE v == superSink
<1>1. v \in Vertex /\ TypeOK /\ IsGraph
  BY GraphsAssumption DEF IInv, TypeOK
<1>2. TypeOK'
  BY <1>1, CallTypes, SingletonSeq DEF Call, TypeOK
<1>3. /\ busy' /\ call' = "backwardBfs" /\ mCutMask' = forbidden /\ mVT' = {v} /\ mQueue' = <<v>>
      /\ taken' = 0 /\ adjacent' = {} /\ outCutEdges' = outCutEdges /\ tail' = tail /\ head' = head
      /\ ~busy /\ mV1Saved' = mV1Saved
  BY DEF Call, graph
<1>4. ToSet(mQueue)' = {v} /\ Waiting' = {v} /\ Len(mQueue)' = 1
  BY <1>1, <1>3, SingletonSeq DEF Waiting
<1>5. QueueInv' /\ FrontierInv'
  BY <1>3, <1>4 DEF QueueInv, FrontierInv, Visited, NearEnd, Backward
<1>6. ReachedInv'
  <2>1. {v} \subseteq CoReach({superSink}, mCutMask)'
    BY <1>1, <1>3 DEF CoReach
  <2>. QED  BY <1>3, <2>1 DEF ReachedInv
<1>7. ReportInv'
  BY <1>3 DEF IInv, ReportInv, Boundary
<1>. QED
  BY <1>2, <1>3, <1>5, <1>6, <1>7 DEF IInv, SearchesExact, ForwardExact, IncrementalExact,
     BackwardExact, BoundaryReported, Returned

(* Edges out of the saved side are boundary edges: they are forbidden or lead to *)
(* the vertex the search starts with.                                            *)
LEMMA IncrementalCall ==
    ASSUME IInv, NEW ei \in ToSet(outCutEdges), NEW forbidden \in SUBSET Edge,
           IncrementalForwardBfs(ei, forbidden)
    PROVE  IInv'
<1>. DEFINE v == head[ei]
<1>. DEFINE queue == IF v \in mV1Saved THEN <<>> ELSE <<v>>
<1>1. TypeOK /\ IsGraph /\ ei \in Edge /\ v \in Vertex
  BY InToSet DEF IInv, TypeOK, IsGraph
<1>3. /\ busy' /\ call' = "incrementalForwardBfs" /\ mCutMask' = forbidden /\ mQueue' = queue
      /\ mV1' = mV1Saved \cup {v} /\ superSink \notin mV1Saved /\ v # superSink
      /\ taken' = 0 /\ adjacent' = {} /\ outCutEdges' = outCutEdges /\ tail' = tail /\ head' = head
      /\ ~busy /\ mV1Saved' = mV1Saved /\ mVT' = mVT
      /\ ToSet(outCutEdges) \ {ei} \subseteq forbidden
  BY DEF IncrementalForwardBfs, Call, graph
<1>2. TypeOK'
  <2>1. queue \in Seq(Vertex) /\ IsInjective(queue)
    <3>1. CASE v \in mV1Saved
      BY <3>1, EmptyQueue
    <3>2. CASE v \notin mV1Saved
      BY <1>1, <3>2, SingletonSeq
    <3>. QED  BY <3>1, <3>2
  <2>2. Call("incrementalForwardBfs", forbidden, queue)
    BY DEF IncrementalForwardBfs
  <2>. QED  BY <1>1, <1>3, <2>1, <2>2, CallTypes DEF TypeOK
<1>4. mV1' = mV1Saved \cup ToSet(mQueue)' /\ Waiting' = ToSet(mQueue)'
  <2>1. CASE v \in mV1Saved
    <3>1. mQueue' = <<>> /\ ToSet(mQueue)' = {} /\ Len(mQueue)' = 0
      BY <1>3, <2>1, EmptyQueue
    <3>2. Waiting' = {}
      BY <1>3, <3>1 DEF Waiting
    <3>. QED  BY <1>3, <2>1, <3>1, <3>2
  <2>2. CASE v \notin mV1Saved
    <3>1. mQueue' = <<v>> /\ ToSet(mQueue)' = {v} /\ Len(mQueue)' = 1 /\ <<v>>[1] = v
      BY <1>1, <1>3, <2>2, SingletonSeq
    <3>2. Waiting' = {v}
      BY <1>3, <3>1 DEF Waiting
    <3>. QED  BY <1>3, <3>1, <3>2
  <2>. QED  BY <2>1, <2>2
<1>5. QueueInv'
  BY <1>3, <1>4 DEF QueueInv, Visited, Backward
<1>6. ReachedInv'
  <2>1. ToSet(mQueue)' \subseteq New'
    <3>1. CASE v \in mV1Saved
      BY <1>3, <3>1, EmptyQueue
    <3>2. CASE v \notin mV1Saved
      <4>1. mQueue' = <<v>> /\ ToSet(mQueue)' = {v} /\ mQueue' # <<>> /\ mQueue'[1] = v
        BY <1>1, <1>3, <3>2, SingletonSeq
      <4>. QED  BY <1>1, <4>1 DEF New, Reach
    <3>. QED  BY <3>1, <3>2
  <2>. QED  BY <1>3, <1>4, <2>1 DEF ReachedInv
<1>7. FrontierInv'
  <2>. SUFFICES ASSUME NEW e \in Edge \ forbidden, tail[e] \in mV1Saved \cup {v}
                PROVE  head[e] \in mV1Saved \cup {v} \/ tail[e] \in Waiting'
    BY <1>3 DEF FrontierInv, Visited, NearEnd, FarEnd, Backward
  <2>1. CASE tail[e] \in mV1Saved
    <3>1. Boundary(mV1Saved) \subseteq ToSet(outCutEdges)
      BY <1>3 DEF IInv, ReportInv
    <3>2. head[e] \in mV1Saved \/ e = ei
      BY <1>3, <2>1, <3>1 DEF Boundary
    <3>. QED  BY <3>2
  <2>2. CASE tail[e] \notin mV1Saved
    BY <1>3, <1>4, <2>2
  <2>. QED  BY <2>1, <2>2
<1>8. ReportInv'
  BY <1>3 DEF IInv, ReportInv, Boundary
<1>. QED
  BY <1>2, <1>3, <1>5, <1>6, <1>7, <1>8 DEF IInv, SearchesExact, ForwardExact,
     IncrementalExact, BackwardExact, BoundaryReported, Returned
-----------------------------------------------------------------------------
(***************************************************************************)
(* The steps of a search.                                                  *)
(***************************************************************************)
(* Positions in the queue. *)
LEMMA QueuePositions ==
    ASSUME TypeOK
    PROVE  /\ DOMAIN mQueue = 1 .. Len(mQueue) /\ Len(mQueue) \in Nat
           /\ taken \in Nat /\ taken <= Len(mQueue)
           /\ ToSet(mQueue) = Taken \cup Waiting
           /\ ToSet(mQueue) \subseteq Vertex
           /\ Taken \cap Waiting = {}
<1>1. /\ DOMAIN mQueue = 1 .. Len(mQueue) /\ Len(mQueue) \in Nat
      /\ taken \in Nat /\ taken <= Len(mQueue)
      /\ \A i \in 1 .. Len(mQueue) : mQueue[i] \in Vertex
  BY DEF TypeOK
<1>2. ToSet(mQueue) = Taken \cup Waiting /\ ToSet(mQueue) \subseteq Vertex
  BY <1>1 DEF ToSet, Taken, Waiting
<1>3. Taken \cap Waiting = {}
  <2>1. \A i, j \in 1 .. Len(mQueue) : mQueue[i] = mQueue[j] => i = j
    BY <1>1 DEF TypeOK, IsInjective
  <2>. QED  BY <1>1, <2>1 DEF Taken, Waiting
<1>. QED  BY <1>1, <1>2, <1>3

(* Between two vertices of the graph. *)
LEMMA Ends ==
    ASSUME TypeOK, NEW e \in Edge
    PROVE  FarEnd(e) \in Vertex /\ NearEnd(e) \in Vertex
BY DEF TypeOK, IsGraph, FarEnd, NearEnd

(* u = mQueue[head++] *)
LEMMA NextVertexStep ==
    ASSUME IInv, NextVertex
    PROVE  IInv'
<1>. DEFINE u == mQueue[taken + 1]
<1>1. TypeOK /\ busy
  BY DEF IInv, NextVertex
<1>2. /\ busy' = busy /\ call' = call /\ result' = result /\ mV1' = mV1 /\ mVT' = mVT
      /\ mCutMask' = mCutMask /\ outCutEdges' = outCutEdges /\ mQueue' = mQueue
      /\ mV1Saved' = mV1Saved /\ tail' = tail /\ head' = head
      /\ taken' = taken + 1 /\ adjacent = {} /\ taken < Len(mQueue)
      /\ adjacent' = {e \in Edge : NearEnd(e) = u}
  BY DEF NextVertex, graph, NearEnd, incomingEdges, outgoingEdges
<1>3. TypeOK'
  <2>1. IsGraph' /\ IsInjective(mQueue)'
    BY <1>1, <1>2 DEF TypeOK, IsGraph
  <2>. QED  BY <1>1, <1>2, <2>1, QueuePositions DEF TypeOK
<1>4. /\ Taken' = Taken \cup {u} /\ Waiting' = Waiting \ {u} /\ u \in Waiting /\ u \notin Taken
      /\ ToSet(mQueue)' = ToSet(mQueue)
  <2>1. \A i, j \in 1 .. Len(mQueue) : mQueue[i] = mQueue[j] => i = j
    BY <1>1, QueuePositions DEF TypeOK, IsInjective
  <2>. QED  BY <1>1, <1>2, <2>1, QueuePositions DEF Taken, Waiting
<1>5. Visited' = Visited /\ \A e \in Edge : NearEnd(e)' = NearEnd(e) /\ FarEnd(e)' = FarEnd(e)
  BY <1>2 DEF Visited, NearEnd, FarEnd, Backward
<1>6. QueueInv'
  BY <1>1, <1>2, <1>4, <1>5 DEF IInv, QueueInv
<1>7. ReachedInv'
  <2>1. New' = New /\ Reach({superSource}, mCutMask)' = Reach({superSource}, mCutMask)
        /\ CoReach({superSink}, mCutMask)' = CoReach({superSink}, mCutMask)
    BY <1>2 DEF New, Reach, CoReach, Closed, CoClosed
  <2>. QED  BY <1>1, <1>2, <1>4, <2>1 DEF IInv, ReachedInv
<1>8. FrontierInv'
  <2>. SUFFICES ASSUME NEW e \in Edge \ mCutMask, NearEnd(e) \in Visited
                PROVE  FarEnd(e) \in Visited \/ e \in adjacent' \/ NearEnd(e) \in Waiting'
    BY <1>2, <1>5 DEF FrontierInv
  <2>1. FarEnd(e) \in Visited \/ NearEnd(e) \in Waiting
    BY <1>1, <1>2 DEF IInv, FrontierInv
  <2>. QED  BY <1>2, <1>4, <2>1
<1>9. ReportInv'
  <2>1. CASE call = "forwardBfs"
    <3>1. ReportInv /\ \A e \in Edge : NearEnd(e) = tail[e]
      BY <2>1 DEF IInv, NearEnd, Backward
    <3>2. ToSet(outCutEdges) \subseteq mCutMask /\ IsInjective(outCutEdges)
          /\ mCutMask \subseteq Edge
      BY <1>1, <2>1, <3>1 DEF ReportInv, TypeOK
    <3>3. \A e \in ToSet(outCutEdges) : e \notin adjacent' /\ tail[e] \in Taken'
      BY <1>1, <1>2, <1>4, <2>1, <3>1, <3>2 DEF ReportInv
    <3>4. ASSUME NEW e \in mCutMask, tail[e] \in mV1
          PROVE  \/ head[e] \in mV1
                 \/ e \in ToSet(outCutEdges) \/ e \in adjacent' \/ tail[e] \in Waiting'
      BY <1>1, <1>2, <1>4, <2>1, <3>1, <3>2, <3>4 DEF ReportInv
    <3>. QED  BY <1>1, <1>2, <2>1, <3>2, <3>3, <3>4 DEF ReportInv
  <2>2. CASE call # "forwardBfs"
    BY <1>2, <2>2 DEF IInv, ReportInv, Boundary
  <2>. QED  BY <2>1, <2>2
<1>. QED
  BY <1>1, <1>2, <1>3, <1>6, <1>7, <1>8, <1>9 DEF IInv, SearchesExact, ForwardExact, IncrementalExact,
     BackwardExact, BoundaryReported, Returned

(* An element that is not in it is appended to a sequence without repetitions. *)
LEMMA AppendUnseen ==
    ASSUME NEW S, NEW s \in Seq(S), NEW e \in S, IsInjective(s), e \notin ToSet(s)
    PROVE  IsInjective(Append(s, e))
<1>1. /\ DOMAIN Append(s, e) = 1 .. Len(s) + 1 /\ DOMAIN s = 1 .. Len(s) /\ Len(s) \in Nat
      /\ \A i \in 1 .. Len(s) + 1 : Append(s, e)[i] = IF i <= Len(s) THEN s[i] ELSE e
  OBVIOUS
<1>2. \A i \in 1 .. Len(s) : s[i] # e
  BY <1>1 DEF ToSet
<1>3. \A i, j \in 1 .. Len(s) : s[i] = s[j] => i = j
  BY <1>1 DEF IsInjective
<1>. QED  BY <1>1, <1>2, <1>3 DEF IsInjective

(* What skipping an edge leaves of everything but ReportInv. *)
LEMMA SkipStep ==
    ASSUME IInv, NEW e \in Edge, SkipForbidden(e) \/ SkipVisited(e), ReportInv'
    PROVE  IInv'
<1>1. TypeOK /\ busy
  BY DEF IInv, SkipForbidden, SkipVisited
<1>2. /\ busy' = busy /\ call' = call /\ result' = result /\ mV1' = mV1 /\ mVT' = mVT
      /\ mCutMask' = mCutMask /\ mQueue' = mQueue /\ taken' = taken
      /\ mV1Saved' = mV1Saved /\ tail' = tail /\ head' = head
      /\ adjacent' = adjacent \ {e} /\ (e \in mCutMask \/ FarEnd(e) \in Visited)
      /\ (outCutEdges' = outCutEdges \/ outCutEdges' = Append(outCutEdges, e))
  BY DEF SkipForbidden, SkipVisited, graph
<1>3. TypeOK'
  <2>1. IsGraph' /\ IsInjective(mQueue)' /\ taken' \in 0 .. Len(mQueue')
    BY <1>1, <1>2 DEF TypeOK, IsGraph
  <2>2. outCutEdges' \in Seq(Edge)
    BY <1>1, <1>2 DEF TypeOK
  <2>. QED  BY <1>1, <1>2, <2>1, <2>2 DEF TypeOK
<1>4. Taken' = Taken /\ Waiting' = Waiting /\ ToSet(mQueue)' = ToSet(mQueue)
  BY <1>2 DEF Taken, Waiting
<1>5. Visited' = Visited /\ \A f \in Edge : NearEnd(f)' = NearEnd(f) /\ FarEnd(f)' = FarEnd(f)
  BY <1>2 DEF Visited, NearEnd, FarEnd, Backward
<1>6. QueueInv'
  BY <1>1, <1>2, <1>4, <1>5 DEF IInv, QueueInv, TypeOK
<1>7. ReachedInv'
  <2>1. New' = New /\ Reach({superSource}, mCutMask)' = Reach({superSource}, mCutMask)
        /\ CoReach({superSink}, mCutMask)' = CoReach({superSink}, mCutMask)
    BY <1>2 DEF New, Reach, CoReach, Closed, CoClosed
  <2>. QED  BY <1>1, <1>2, <1>4, <2>1 DEF IInv, ReachedInv
<1>8. FrontierInv'
  BY <1>1, <1>2, <1>4, <1>5 DEF IInv, FrontierInv
<1>. QED
  BY <1>1, <1>2, <1>3, <1>6, <1>7, <1>8 DEF IInv, SearchesExact, ForwardExact, IncrementalExact,
     BackwardExact, BoundaryReported, Returned

(* A boundary edge is looked at once, and reported then. *)
LEMMA SkipForbiddenStep ==
    ASSUME IInv, NEW e \in Edge, SkipForbidden(e)
    PROVE  IInv'
<1>1. TypeOK /\ busy /\ ReportInv /\ QueueInv /\ e \in adjacent /\ e \in mCutMask
  BY DEF IInv, SkipForbidden, Current
<1>2. /\ busy' = busy /\ call' = call /\ mV1' = mV1
      /\ mCutMask' = mCutMask /\ mQueue' = mQueue /\ taken' = taken
      /\ mV1Saved' = mV1Saved /\ tail' = tail /\ head' = head
      /\ adjacent' = adjacent \ {e}
  BY DEF SkipForbidden, graph
<1>4. Taken' = Taken /\ Waiting' = Waiting
  BY <1>2 DEF Taken, Waiting
<1>5. outCutEdges \in Seq(Edge)
  BY <1>1 DEF TypeOK
<1>6. ReportInv'
  <2>1. CASE call = "forwardBfs" /\ head[e] \notin mV1
    <3>1. outCutEdges' = Append(outCutEdges, e)
      BY <2>1 DEF SkipForbidden
    <3>2. e \in Edge /\ e \notin ToSet(outCutEdges) /\ tail[e] \in Taken /\ IsInjective(outCutEdges)
      BY <1>1, <2>1 DEF ReportInv, QueueInv, NearEnd, Backward
    <3>3. ToSet(outCutEdges') = ToSet(outCutEdges) \cup {e}
      BY <1>5, <3>1, <3>2, AppendElement
    <3>4. IsInjective(outCutEdges')
      BY <1>5, <3>1, <3>2, AppendUnseen
    <3>. QED  BY <1>1, <1>2, <1>4, <2>1, <3>2, <3>3, <3>4 DEF ReportInv
  <2>2. CASE call = "forwardBfs" /\ head[e] \in mV1
    <3>1. outCutEdges' = outCutEdges
      BY <2>2 DEF SkipForbidden
    <3>. QED  BY <1>1, <1>2, <1>4, <2>2, <3>1 DEF ReportInv
  <2>3. CASE call # "forwardBfs"
    <3>1. outCutEdges' = outCutEdges
      BY <2>3 DEF SkipForbidden
    <3>. QED  BY <1>1, <1>2, <2>3, <3>1 DEF ReportInv, Boundary
  <2>. QED  BY <2>1, <2>2, <2>3
<1>. QED  BY <1>6, SkipStep

(* An edge to a visited vertex is no way out. *)
LEMMA SkipVisitedStep ==
    ASSUME IInv, NEW e \in Edge, SkipVisited(e)
    PROVE  IInv'
<1>1. TypeOK /\ busy /\ ReportInv /\ e \notin mCutMask
  BY DEF IInv, SkipVisited
<1>2. /\ busy' = busy /\ call' = call /\ mV1' = mV1 /\ outCutEdges' = outCutEdges
      /\ mCutMask' = mCutMask /\ mQueue' = mQueue /\ taken' = taken
      /\ mV1Saved' = mV1Saved /\ tail' = tail /\ head' = head
      /\ adjacent' = adjacent \ {e}
  BY DEF SkipVisited, graph
<1>3. Taken' = Taken /\ Waiting' = Waiting /\ ToSet(outCutEdges)' = ToSet(outCutEdges)
      /\ IsInjective(outCutEdges)' = IsInjective(outCutEdges)
      /\ Boundary(mV1Saved)' = Boundary(mV1Saved)
  BY <1>2 DEF Taken, Waiting, Boundary
<1>4. ReportInv'
  BY <1>1, <1>2, <1>3 DEF ReportInv
<1>. QED  BY <1>4, SkipStep

(* A new vertex is reached by the edge that leads to it; the incremental search   *)
(* may give up here, with the sink among what it has found.                      *)
LEMMA DiscoverStep ==
    ASSUME IInv, NEW e \in Edge, Discover(e)
    PROVE  IInv'
<1>. DEFINE v == FarEnd(e)
<1>1. /\ TypeOK /\ IsGraph /\ busy /\ e \in adjacent /\ e \notin mCutMask /\ v \notin Visited
      /\ QueueInv /\ ReachedInv /\ FrontierInv /\ ReportInv /\ call # "none"
  BY DEF IInv, Discover, Current, QueueInv, TypeOK
<1>2. /\ call' = call /\ mCutMask' = mCutMask /\ outCutEdges' = outCutEdges /\ taken' = taken
      /\ mV1Saved' = mV1Saved /\ tail' = tail /\ head' = head /\ mQueue' = Append(mQueue, v)
      /\ adjacent' = adjacent \ {e}
      /\ mV1' = (IF Backward THEN mV1 ELSE mV1 \cup {head[e]})
      /\ mVT' = (IF Backward THEN mVT \cup {tail[e]} ELSE mVT)
  BY DEF Discover, graph
<1>3. /\ call = "incrementalForwardBfs" /\ head[e] = superSink => ~busy' /\ result'
      /\ ~(call = "incrementalForwardBfs" /\ head[e] = superSink) => busy' /\ result' = result
  BY <1>1 DEF Discover
<1>4. /\ Visited' = Visited \cup {v}
      /\ \A f \in Edge : NearEnd(f)' = NearEnd(f) /\ FarEnd(f)' = FarEnd(f)
  BY <1>2 DEF Visited, NearEnd, FarEnd, Backward
<1>5. v \in Vertex /\ NearEnd(e) \in Vertex /\ v \notin ToSet(mQueue) /\ NearEnd(e) \in Taken
  BY <1>1, Ends DEF QueueInv
<1>6. /\ mQueue' \in Seq(Vertex) /\ Len(mQueue') = Len(mQueue) + 1
      /\ ToSet(mQueue)' = ToSet(mQueue) \cup {v} /\ IsInjective(mQueue)'
  <2>1. mQueue \in Seq(Vertex) /\ IsInjective(mQueue)
    BY <1>1 DEF TypeOK
  <2>2. /\ Append(mQueue, v) \in Seq(Vertex) /\ Len(Append(mQueue, v)) = Len(mQueue) + 1
        /\ ToSet(Append(mQueue, v)) = ToSet(mQueue) \cup {v}
    BY <1>5, <2>1, AppendElement
  <2>3. IsInjective(Append(mQueue, v))
    BY <1>5, <2>1, AppendUnseen
  <2>. QED  BY <1>2, <2>2, <2>3
<1>7. TypeOK'
  <2>1. IsGraph' /\ taken' \in 0 .. Len(mQueue')
    BY <1>1, <1>2, <1>6, QueuePositions DEF TypeOK, IsGraph
  <2>2. mV1' \subseteq Vertex /\ mVT' \subseteq Vertex
    BY <1>1, <1>2, Ends DEF TypeOK, IsGraph
  <2>3. busy' \in BOOLEAN /\ result' \in BOOLEAN
    <3>1. CASE call = "incrementalForwardBfs" /\ head[e] = superSink
      BY <3>1 DEF Discover
    <3>2. CASE ~(call = "incrementalForwardBfs" /\ head[e] = superSink)
      BY <1>1, <3>2, Zenon DEF Discover, TypeOK
    <3>. QED  BY <3>1, <3>2
  <2>. QED  BY <1>1, <1>2, <1>6, <2>1, <2>2, <2>3 DEF TypeOK
<1>8. Taken' = Taken /\ Waiting' = Waiting \cup {v} /\ mQueue # <<>> /\ mQueue'[1] = mQueue[1]
  <2>1. /\ taken \in Nat /\ Len(mQueue) \in Nat /\ taken <= Len(mQueue)
        /\ mQueue \in Seq(Vertex)
    BY <1>1, QueuePositions DEF TypeOK
  <2>2. /\ \A i \in 1 .. Len(mQueue) : mQueue'[i] = mQueue[i]
        /\ mQueue'[Len(mQueue) + 1] = v
    BY <1>2, <1>5, <2>1
  <2>3. 1 <= taken
    BY <1>5, <2>1 DEF Taken
  <2>4. Taken' = Taken /\ Waiting' = Waiting \cup {v}
    BY <1>2, <1>6, <2>1, <2>2 DEF Taken, Waiting
  <2>5. mQueue # <<>> /\ mQueue'[1] = mQueue[1]
    BY <2>1, <2>2, <2>3
  <2>. QED  BY <2>4, <2>5
<1>9. QueueInv'
  BY <1>1, <1>2, <1>4, <1>6, <1>8 DEF QueueInv, TypeOK
<1>10. NearEnd(e) \in ToSet(mQueue) /\ NearEnd(e) \in Visited
  BY <1>1, <1>5, QueuePositions DEF QueueInv
<1>11. /\ New' = New /\ Reach({superSource}, mCutMask)' = Reach({superSource}, mCutMask)
       /\ CoReach({superSink}, mCutMask)' = CoReach({superSink}, mCutMask)
  <2>1. New = Reach({mQueue[1]}, mCutMask)
    BY <1>8 DEF New
  <2>2. mQueue' # <<>>
    BY <1>6, QueuePositions, <1>1
  <2>3. New' = Reach({mQueue[1]}, mCutMask)
    BY <1>2, <1>8, <2>2 DEF New, Reach, Closed
  <2>. QED  BY <1>2, <2>1, <2>3 DEF Reach, CoReach, Closed, CoClosed
<1>12. call = "incrementalForwardBfs" =>
           head[e] \in New /\ mV1' = mV1Saved \cup ToSet(mQueue)' /\ ToSet(mQueue)' \subseteq New
  <2>. SUFFICES ASSUME call = "incrementalForwardBfs"
                PROVE  head[e] \in New /\ mV1' = mV1Saved \cup ToSet(mQueue)' /\ ToSet(mQueue)' \subseteq New
    OBVIOUS
  <2>1. /\ v = head[e] /\ NearEnd(e) = tail[e] /\ ToSet(mQueue) \subseteq New
        /\ mV1 = mV1Saved \cup ToSet(mQueue) /\ mV1' = mV1 \cup {head[e]}
    BY <1>1, <1>2 DEF FarEnd, NearEnd, Backward, ReachedInv
  <2>2. Closed(New, mCutMask)
    <3>1. mQueue[1] \in Vertex
      BY <1>1, <1>8, QueuePositions DEF TypeOK
    <3>2. Closed(Reach({mQueue[1]}, mCutMask), mCutMask)
      BY <1>1, <3>1, ReachIsClosed
    <3>. QED  BY <1>8, <3>2 DEF New
  <2>3. head[e] \in New
    BY <1>1, <1>10, <2>1, <2>2 DEF Closed
  <2>. QED  BY <1>6, <2>1, <2>3
<1>13. ReachedInv'
  <2>1. CASE call = "forwardBfs"
    <3>1. v = head[e] /\ NearEnd(e) = tail[e] /\ mV1' = mV1 \cup {head[e]} /\ tail[e] \in mV1
      BY <1>2, <1>10, <2>1 DEF FarEnd, NearEnd, Visited, Backward
    <3>2. Closed(Reach({superSource}, mCutMask), mCutMask)
      BY <1>1, ReachIsClosed, GraphsAssumption
    <3>3. head[e] \in Reach({superSource}, mCutMask)
      BY <1>1, <2>1, <3>1, <3>2 DEF ReachedInv, Closed
    <3>. QED  BY <1>1, <1>2, <1>11, <2>1, <3>1, <3>3 DEF ReachedInv
  <2>2. CASE call = "backwardBfs"
    <3>1. v = tail[e] /\ NearEnd(e) = head[e] /\ mVT' = mVT \cup {tail[e]} /\ head[e] \in mVT
      BY <1>2, <1>10, <2>2 DEF FarEnd, NearEnd, Visited, Backward
    <3>2. CoClosed(CoReach({superSink}, mCutMask), mCutMask)
      BY <1>1, CoReachIsClosed, GraphsAssumption
    <3>3. tail[e] \in CoReach({superSink}, mCutMask)
      BY <1>1, <2>2, <3>1, <3>2 DEF ReachedInv, CoClosed
    <3>. QED  BY <1>1, <1>2, <1>11, <2>2, <3>1, <3>3 DEF ReachedInv
  <2>3. CASE call = "incrementalForwardBfs"
    <3>1. busy' => head[e] # superSink
      BY <1>3, <2>3
    <3>2. superSink \notin mV1 /\ mV1' = mV1 \cup {head[e]}
      BY <1>1, <1>2, <2>3 DEF ReachedInv, Backward
    <3>. QED  BY <1>2, <1>11, <1>12, <2>3, <3>1, <3>2 DEF ReachedInv
  <2>. QED  BY <1>1, <2>1, <2>2, <2>3 DEF TypeOK
<1>14. FrontierInv'
  <2>. SUFFICES ASSUME NEW f \in Edge \ mCutMask, NearEnd(f) \in Visited \cup {v}
                PROVE  FarEnd(f) \in Visited \cup {v} \/ f \in adjacent' \/ NearEnd(f) \in Waiting'
    BY <1>2, <1>4 DEF FrontierInv
  <2>1. CASE NearEnd(f) = v
    BY <1>8, <2>1
  <2>2. CASE NearEnd(f) \in Visited
    <3>1. FarEnd(f) \in Visited \/ f \in adjacent \/ NearEnd(f) \in Waiting
      BY <1>1, <2>2 DEF FrontierInv
    <3>. QED  BY <1>2, <1>8, <3>1
  <2>. QED  BY <2>1, <2>2
<1>15. ReportInv'
  <2>1. CASE call = "forwardBfs"
    <3>1. v = head[e] /\ mV1' = mV1 \cup {v} /\ busy'
      BY <1>2, <1>3, <2>1 DEF FarEnd, Backward
    <3>2. ToSet(outCutEdges) \subseteq mCutMask /\ IsInjective(outCutEdges)
          /\ \A f \in ToSet(outCutEdges) : f \notin adjacent /\ tail[f] \in Taken
      BY <1>1, <2>1 DEF ReportInv
    <3>3. ASSUME NEW f \in mCutMask, tail[f] \in mV1'
          PROVE  \/ head[f] \in mV1'
                 \/ f \in ToSet(outCutEdges) \/ f \in adjacent' \/ tail[f] \in Waiting'
      <4>1. CASE tail[f] = v
        BY <1>8, <4>1
      <4>2. CASE tail[f] \in mV1
        <5>1. head[f] \in mV1 \/ f \in ToSet(outCutEdges) \/ f \in adjacent \/ tail[f] \in Waiting
          BY <1>1, <2>1, <4>2 DEF ReportInv
        <5>. QED  BY <1>1, <1>2, <1>8, <3>1, <5>1
      <4>. QED  BY <3>1, <3>3, <4>1, <4>2
    <3>. QED  BY <1>2, <1>8, <2>1, <3>1, <3>2, <3>3 DEF ReportInv
  <2>2. CASE call # "forwardBfs"
    BY <1>1, <1>2, <2>2 DEF ReportInv, Boundary
  <2>. QED  BY <2>1, <2>2
<1>16. SearchesExact' /\ BoundaryReported'
  <2>1. ~busy' => call = "incrementalForwardBfs" /\ head[e] = superSink /\ result'
    BY <1>3
  <2>2. BoundaryReported' /\ ForwardExact' /\ BackwardExact'
    BY <1>2, <2>1 DEF BoundaryReported, ForwardExact, BackwardExact, Returned
  <2>3. IncrementalExact'
    <3>. SUFFICES ASSUME ~busy'
                  PROVE  /\ result' = (superSink \in mV1Saved \cup New')
                         /\ mV1' \subseteq mV1Saved \cup New' /\ result'
      BY <1>2 DEF IncrementalExact, Returned, New
    <3>1. superSink \in New' /\ mV1' \subseteq mV1Saved \cup New' /\ result'
      BY <1>11, <1>12, <2>1
    <3>2. result' \in BOOLEAN
      BY <1>7 DEF TypeOK
    <3>. QED  BY <3>1, <3>2
  <2>. QED  BY <2>2, <2>3 DEF SearchesExact
<1>. QED  BY <1>7, <1>9, <1>13, <1>14, <1>15, <1>16 DEF IInv

(* The queue is exhausted: no edge leads further, so that what is visited is closed.  *)
(* An edge of a minimal cut that is not reported could be spared.                     *)
LEMMA ReturnStep ==
    ASSUME IInv, Return
    PROVE  IInv'
<1>1. /\ TypeOK /\ IsGraph /\ busy /\ adjacent = {} /\ taken = Len(mQueue)
      /\ QueueInv /\ ReachedInv /\ FrontierInv /\ ReportInv /\ call # "none"
      /\ mV1 \subseteq Vertex /\ mVT \subseteq Vertex
  BY DEF IInv, Return, QueueInv, TypeOK
<1>2. /\ ~busy' /\ call' = call /\ mV1' = mV1 /\ mVT' = mVT /\ mCutMask' = mCutMask
      /\ outCutEdges' = outCutEdges /\ mQueue' = mQueue /\ taken' = taken
      /\ adjacent' = adjacent /\ tail' = tail /\ head' = head
      /\ result' = (IF Backward THEN result ELSE superSink \in mV1)
      /\ mV1Saved' = (IF call = "forwardBfs" THEN mV1 ELSE mV1Saved)
  BY DEF Return, graph
<1>3. TypeOK'
  <2>1. IsGraph' /\ IsInjective(mQueue)' /\ taken' \in 0 .. Len(mQueue')
    BY <1>1, <1>2 DEF TypeOK, IsGraph
  <2>2. result' \in BOOLEAN /\ busy' \in BOOLEAN
    <3>1. CASE Backward
      <4>1. result' = result /\ busy' = FALSE
        BY <3>1, SMT DEF Return
      <4>. QED  BY <1>1, <4>1, Zenon DEF TypeOK
    <3>2. CASE ~Backward
      <4>1. result' = (superSink \in mV1) /\ busy' = FALSE
        BY <3>2, Zenon DEF Return
      <4>2. (superSink \in mV1) \in BOOLEAN
        OBVIOUS
      <4>. QED  BY <4>1, <4>2, Zenon
    <3>. QED  BY <3>1, <3>2
  <2>3. mV1Saved' \subseteq Vertex
    BY <1>1, <1>2 DEF TypeOK
  <2>. QED  BY <1>1, <1>2, <2>1, <2>2, <2>3 DEF TypeOK
<1>4. Waiting = {}
  BY <1>1, QueuePositions DEF Waiting
<1>5. \A e \in Edge \ mCutMask : NearEnd(e) \in Visited => FarEnd(e) \in Visited
  BY <1>1, <1>4 DEF FrontierInv
<1>6. ~Backward => Closed(mV1, mCutMask)
  BY <1>5 DEF Closed, NearEnd, FarEnd, Visited
<1>7. QueueInv' /\ ReachedInv' /\ FrontierInv'
  BY <1>2 DEF QueueInv, ReachedInv, FrontierInv
<1>8. New' = New /\ Reach({superSource}, mCutMask)' = Reach({superSource}, mCutMask)
      /\ CoReach({superSink}, mCutMask)' = CoReach({superSink}, mCutMask)
  BY <1>2 DEF New, Reach, CoReach, Closed, CoClosed
<1>9. CASE call = "forwardBfs"
  <2>1. Closed(mV1, mCutMask) /\ superSource \in mV1 /\ mV1 \subseteq Reach({superSource}, mCutMask)
    BY <1>1, <1>6, <1>9 DEF ReachedInv, Backward
  <2>2. Reach({superSource}, mCutMask) \subseteq mV1
    BY <1>1, <2>1, ReachIsLeast
  <2>3. SearchesExact'
    BY <1>2, <1>8, <1>9, <2>1, <2>2 DEF SearchesExact, ForwardExact, IncrementalExact, BackwardExact,
       Returned, Backward
  <2>4. /\ ToSet(outCutEdges) \subseteq mCutMask /\ IsInjective(outCutEdges)
        /\ \A e \in mCutMask : tail[e] \in mV1 => head[e] \in mV1 \/ e \in ToSet(outCutEdges)
    BY <1>1, <1>4, <1>9 DEF ReportInv
  <2>5. Boundary(mV1) \subseteq ToSet(outCutEdges)
    BY <2>1, <2>4 DEF Boundary, Closed
  <2>6. ASSUME IsMinimalCut(mCutMask), NEW e \in mCutMask, e \notin ToSet(outCutEdges)
        PROVE  FALSE
    <3>1. Closed(mV1, mCutMask \ {e})
      BY <2>1, <2>4, <2>6 DEF Closed
    <3>2. Reach({superSource}, mCutMask \ {e}) \subseteq mV1
      BY <1>1, <2>1, <3>1, ReachIsLeast
    <3>3. superSink \in Reach({superSource}, mCutMask \ {e})
      BY <2>6 DEF IsMinimalCut, IsCut
    <3>4. superSink \notin Reach({superSource}, mCutMask)
      BY <2>6 DEF IsMinimalCut, IsCut
    <3>. QED  BY <2>1, <3>2, <3>3, <3>4
  <2>7. BoundaryReported'
    <3>1. IsMinimalCut(mCutMask)' = IsMinimalCut(mCutMask) /\ Boundary(mV1)' = Boundary(mV1)
      BY <1>2 DEF IsMinimalCut, IsCut, Reach, Closed, Boundary
    <3>2. IsMinimalCut(mCutMask) => ToSet(outCutEdges) = mCutMask
      BY <2>4, <2>6
    <3>. QED  BY <1>2, <2>4, <2>5, <3>1, <3>2 DEF BoundaryReported
  <2>8. ReportInv'
    BY <1>2, <1>9, <2>5 DEF ReportInv, Boundary
  <2>. QED  BY <1>3, <1>7, <2>3, <2>7, <2>8 DEF IInv
<1>10. CASE call # "forwardBfs"
  <2>1. ReportInv' /\ BoundaryReported'
    BY <1>1, <1>2, <1>10 DEF ReportInv, Boundary, BoundaryReported, Returned
  <2>2. CASE call = "backwardBfs"
    <3>1. CoClosed(mVT, mCutMask)
      BY <1>5, <2>2 DEF CoClosed, NearEnd, FarEnd, Visited, Backward
    <3>2. superSink \in mVT /\ mVT \subseteq CoReach({superSink}, mCutMask)
      BY <1>1, <2>2 DEF ReachedInv
    <3>3. CoReach({superSink}, mCutMask) \subseteq mVT
      BY <1>1, <3>1, <3>2, CoReachIsLeast
    <3>4. SearchesExact'
      BY <1>2, <1>8, <2>2, <3>2, <3>3 DEF SearchesExact, ForwardExact, IncrementalExact, BackwardExact,
         Returned
    <3>. QED  BY <1>3, <1>7, <2>1, <3>4 DEF IInv
  <2>3. CASE call = "incrementalForwardBfs"
    <3>1. /\ mV1 = mV1Saved \cup ToSet(mQueue) /\ ToSet(mQueue) \subseteq New
          /\ Closed(mV1, mCutMask)
      BY <1>1, <1>6, <2>3 DEF ReachedInv, Backward
    <3>2. New \subseteq mV1
      <4>1. CASE mQueue = <<>>
        BY <4>1 DEF New
      <4>2. CASE mQueue # <<>>
        <5>1. Len(mQueue) >= 1
          BY <1>1, <4>2, QueuePositions DEF TypeOK
        <5>2. mQueue[1] \in ToSet(mQueue)
          BY <1>1, <5>1, QueuePositions DEF ToSet
        <5>3. {mQueue[1]} \subseteq mV1
          BY <3>1, <5>2
        <5>4. Reach({mQueue[1]}, mCutMask) \subseteq mV1
          BY <1>1, <3>1, <5>3, ReachIsLeast
        <5>. QED  BY <4>2, <5>4 DEF New
      <4>. QED  BY <4>1, <4>2
    <3>3. mV1 = mV1Saved \cup New
      BY <3>1, <3>2
    <3>4. IncrementalExact'
      <4>1. /\ result' = (superSink \in mV1) /\ mV1Saved' = mV1Saved
        BY <1>2, <2>3 DEF Backward
      <4>. QED  BY <1>2, <1>8, <3>3, <4>1 DEF IncrementalExact, Returned, New
    <3>5. SearchesExact'
      BY <1>2, <2>3, <3>4 DEF SearchesExact, ForwardExact, BackwardExact, Returned
    <3>. QED  BY <1>3, <1>7, <2>1, <3>5 DEF IInv
  <2>. QED  BY <1>1, <1>10, <2>2, <2>3 DEF TypeOK
<1>. QED  BY <1>9, <1>10

(* No step of the engine breaks the invariant. *)
LEMMA NextInv ==
    ASSUME IInv, [Next]_vars
    PROVE  IInv'
<1>1. ASSUME NEW forbidden \in SUBSET Edge, ForwardBfs(forbidden)
      PROVE  IInv'
  BY <1>1, ForwardCall
<1>2. ASSUME NEW forbidden \in SUBSET Edge, BackwardBfs(forbidden)
      PROVE  IInv'
  BY <1>2, BackwardCall
<1>3. ASSUME NEW ei \in ToSet(outCutEdges), NEW forbidden \in SUBSET Edge,
             IncrementalForwardBfs(ei, forbidden)
      PROVE  IInv'
  BY <1>3, IncrementalCall
<1>4. CASE NextVertex
  BY <1>4, NextVertexStep
<1>5. CASE Return
  BY <1>5, ReturnStep
<1>6. ASSUME NEW e \in Edge, LookAt(e)
      PROVE  IInv'
  <2>1. CASE SkipForbidden(e)
    BY <2>1, SkipForbiddenStep
  <2>2. CASE SkipVisited(e)
    BY <2>2, SkipVisitedStep
  <2>3. CASE Discover(e)
    BY <2>3, DiscoverStep
  <2>. QED  BY <1>6, <2>1, <2>2, <2>3 DEF LookAt
<1>7. CASE UNCHANGED vars
  BY <1>7 DEF vars, graph, IInv, TypeOK, IsGraph, QueueInv, ReachedInv, FrontierInv, ReportInv, SearchesExact,
     ForwardExact, IncrementalExact, BackwardExact, BoundaryReported, Returned, Taken, Waiting, New, Visited,
     NearEnd, FarEnd, Backward, Reach, CoReach, Closed, CoClosed, Boundary, IsMinimalCut, IsCut
<1>. QED  BY <1>1, <1>2, <1>3, <1>4, <1>5, <1>6, <1>7 DEF Next, Search

(* In every reachable state. *)
LEMMA InvariantHolds == Spec => []IInv
BY InitInv, NextInv, PTL DEF Spec

(* mQueue never holds a vertex twice, so that the capacity reserved for it, the   *)
(* number of vertices, is enough; the masks hold vertices and edges of the graph. *)
THEOREM TypeCorrect == Spec => []TypeOK
<1>1. IInv => TypeOK
  BY DEF IInv
<1>. QED  BY <1>1, InvariantHolds, PTL

(* Whatever the calls before, forwardBfs, incrementalForwardBfs and backwardBfs   *)
(* visit exactly the vertices they are to visit, on every graph.                  *)
THEOREM SearchesExactCorrect == Spec => []SearchesExact
<1>1. IInv => SearchesExact
  BY DEF IInv
<1>. QED  BY <1>1, InvariantHolds, PTL

(* forwardBfs reports the boundary of what it has visited, each edge once, and a  *)
(* minimal cut whole.                                                             *)
THEOREM BoundaryReportedCorrect == Spec => []BoundaryReported
<1>1. IInv => BoundaryReported
  BY DEF IInv
<1>. QED  BY <1>1, InvariantHolds, PTL
-----------------------------------------------------------------------------
(***************************************************************************)
(* Bitsets.  A bitset of n bits that has those of S is the one whose words *)
(* have these bits and none in the padding (Bits); each operation makes    *)
(* such a bitset of such a bitset.                                         *)
(***************************************************************************)
\* The words of n bits.
Words(n) == 0 .. (n + BITS_PER_WORD - 1) \div BITS_PER_WORD - 1

\* The words of a bitset of n bits that has the elements of S.
Bits(n, S) ==
    [mBitSize |-> n,
     mData |-> [w \in Words(n) |->
                  {bit \in 0 .. BITS_PER_WORD - 1 : w * BITS_PER_WORD + bit \in S}]]

(* An index is the number of its word and its place there. *)
LEMMA IndexParts ==
    ASSUME NEW n \in Nat, NEW i \in 0 .. n - 1
    PROVE  /\ i \div BITS_PER_WORD \in Words(n)
           /\ i % BITS_PER_WORD \in 0 .. BITS_PER_WORD - 1
           /\ i = (i \div BITS_PER_WORD) * BITS_PER_WORD + (i % BITS_PER_WORD)
BY WordAssumption DEF Words

(* And every place in a word is that of one index. *)
LEMMA PartsOfIndex ==
    ASSUME NEW w \in Nat, NEW bit \in 0 .. BITS_PER_WORD - 1
    PROVE  /\ w * BITS_PER_WORD + bit \in Nat
           /\ (w * BITS_PER_WORD + bit) \div BITS_PER_WORD = w
           /\ (w * BITS_PER_WORD + bit) % BITS_PER_WORD = bit
BY WordAssumption

(* How many words there are. *)
LEMMA WordsOf ==
    ASSUME NEW n \in Nat
    PROVE  /\ Words(n) \subseteq Nat
           /\ IsFiniteSet(Words(n))
           /\ Cardinality(Words(n)) = (n + BITS_PER_WORD - 1) \div BITS_PER_WORD
           /\ Cardinality(Words(n)) \in Nat
           /\ Words(n) = 0 .. Cardinality(Words(n)) - 1
<1>. DEFINE k == (n + BITS_PER_WORD - 1) \div BITS_PER_WORD
<1>1. k \in Nat
  BY WordAssumption
<1>. HIDE DEF k
<1>2. IsFiniteSet(0 .. k - 1) /\ Cardinality(0 .. k - 1) = k /\ 0 .. k - 1 \subseteq Nat
  BY <1>1, FS_Interval
<1>3. Words(n) = 0 .. k - 1
  BY DEF Words, k
<1>. QED  BY <1>1, <1>2, <1>3 DEF k


(* What the operations make of the words. *)
LEMMA OnWords ==
    ASSUME NEW n, NEW d, NEW i, i \div BITS_PER_WORD \in DOMAIN d
    PROVE  LET b == [mBitSize |-> n, mData |-> d]
               v == i \div BITS_PER_WORD
               p == i % BITS_PER_WORD
           IN  /\ set(b, i) = [mBitSize |-> n, mData |-> [d EXCEPT ![v] = @ \cup {p}]]
               /\ reset(b, i) = [mBitSize |-> n, mData |-> [d EXCEPT ![v] = @ \ {p}]]
               /\ test(b, i) <=> p \in d[v]
<1>. DEFINE b == [mBitSize |-> n, mData |-> d]
            v == i \div BITS_PER_WORD
            p == i % BITS_PER_WORD
<1>. SUFFICES /\ [b EXCEPT !.mData[v] = @ \cup {p}] =
                    [mBitSize |-> n, mData |-> [d EXCEPT ![v] = @ \cup {p}]]
              /\ [b EXCEPT !.mData[v] = @ \ {p}] =
                    [mBitSize |-> n, mData |-> [d EXCEPT ![v] = @ \ {p}]]
              /\ p \in b.mData[v] <=> p \in d[v]
  BY DEF set, reset, test
<1>. HIDE DEF v, p
<1>. QED  OBVIOUS

(* What the operations on all words make of them. *)
LEMMA OnAllWords ==
    ASSUME NEW n, NEW d
    PROVE  LET b == [mBitSize |-> n, mData |-> d]
           IN  /\ resetAll(b) = [mBitSize |-> n, mData |-> [w \in DOMAIN d |-> {}]]
               /\ setAll(b) =
                    clearPaddingBits([mBitSize |-> n,
                                      mData |-> [w \in DOMAIN d |-> 0 .. BITS_PER_WORD - 1]])
<1>. DEFINE b == [mBitSize |-> n, mData |-> d]
<1>1. resetAll(b) = [mBitSize |-> n, mData |-> [w \in DOMAIN d |-> {}]]
  BY DEF resetAll
<1>2. [b EXCEPT !.mData = [w \in DOMAIN @ |-> 0 .. BITS_PER_WORD - 1]] =
        [mBitSize |-> n, mData |-> [w \in DOMAIN d |-> 0 .. BITS_PER_WORD - 1]]
  OBVIOUS
<1>. QED  BY <1>1, <1>2 DEF setAll

(* A bit is at a place of its own. *)
LEMMA SameIndex ==
    ASSUME NEW n \in Nat, NEW i \in 0 .. n - 1, NEW w \in Words(n),
           NEW bit \in 0 .. BITS_PER_WORD - 1
    PROVE  w * BITS_PER_WORD + bit = i <=> w = i \div BITS_PER_WORD /\ bit = i % BITS_PER_WORD
<1>1. w \in Nat
  BY WordsOf
<1>. QED  BY <1>1, IndexParts, PartsOfIndex

(* set, reset and test. *)
LEMMA OneBit ==
    ASSUME NEW n \in Nat, NEW S \in SUBSET (0 .. n - 1), NEW i \in 0 .. n - 1
    PROVE  /\ set(Bits(n, S), i) = Bits(n, S \cup {i})
           /\ reset(Bits(n, S), i) = Bits(n, S \ {i})
           /\ test(Bits(n, S), i) <=> i \in S
<1>. DEFINE v == i \div BITS_PER_WORD
            p == i % BITS_PER_WORD
            wordsOf(T) == [w \in Words(n) |->
                             {bit \in 0 .. BITS_PER_WORD - 1 : w * BITS_PER_WORD + bit \in T}]
            d == wordsOf(S)
<1>1. v \in Words(n) /\ p \in 0 .. BITS_PER_WORD - 1 /\ i = v * BITS_PER_WORD + p
  BY IndexParts
<1>2. \A w \in Words(n) : \A bit \in 0 .. BITS_PER_WORD - 1 :
         w * BITS_PER_WORD + bit = i <=> w = v /\ bit = p
  BY SameIndex
<1>3. \A T : Bits(n, T) = [mBitSize |-> n, mData |-> wordsOf(T)]
  BY DEF Bits
<1>4. DOMAIN d = Words(n)
  OBVIOUS
<1>5. /\ set(Bits(n, S), i) = [mBitSize |-> n, mData |-> [d EXCEPT ![v] = @ \cup {p}]]
      /\ reset(Bits(n, S), i) = [mBitSize |-> n, mData |-> [d EXCEPT ![v] = @ \ {p}]]
      /\ test(Bits(n, S), i) <=> p \in d[v]
  <2>1. Bits(n, S) = [mBitSize |-> n, mData |-> d]
    BY <1>3
  <2>2. i \div BITS_PER_WORD \in DOMAIN d
    BY <1>1, <1>4
  <2>. HIDE DEF d
  <2>. QED  BY <2>1, <2>2, OnWords
<1>. HIDE DEF v, p
<1>6. /\ [d EXCEPT ![v] = @ \cup {p}] = wordsOf(S \cup {i})
      /\ [d EXCEPT ![v] = @ \ {p}] = wordsOf(S \ {i})
      /\ p \in d[v] <=> i \in S
  <2>1. [d EXCEPT ![v] = @ \cup {p}] = wordsOf(S \cup {i})
    BY <1>1, <1>2
  <2>2. [d EXCEPT ![v] = @ \ {p}] = wordsOf(S \ {i})
    BY <1>1, <1>2
  <2>3. p \in d[v] <=> i \in S
    BY <1>1
  <2>. QED  BY <2>1, <2>2, <2>3
<1>. HIDE DEF wordsOf, d
<1>. QED  BY <1>3, <1>5, <1>6

(* A new bitset has no bit set. *)
LEMMA NoBits ==
    ASSUME NEW n \in Nat
    PROVE  DynamicBitset(n) = Bits(n, {})
BY DEF DynamicBitset, Bits, Words

(* resetAll leaves no bit. *)
LEMMA ResetAllBits ==
    ASSUME NEW n \in Nat, NEW S \in SUBSET (0 .. n - 1)
    PROVE  resetAll(Bits(n, S)) = Bits(n, {})
<1>. DEFINE d == [w \in Words(n) |->
                    {bit \in 0 .. BITS_PER_WORD - 1 : w * BITS_PER_WORD + bit \in S}]
<1>1. Bits(n, S) = [mBitSize |-> n, mData |-> d]
  BY DEF Bits
<1>2. DOMAIN d = Words(n)
  OBVIOUS
<1>. HIDE DEF d
<1>3. resetAll(Bits(n, S)) = [mBitSize |-> n, mData |-> [w \in Words(n) |-> {}]]
  BY <1>1, <1>2, OnAllWords
<1>. QED  BY <1>3 DEF Bits

(* copyFrom between bitsets of one length. *)
LEMMA CopyBits ==
    ASSUME NEW n \in Nat, NEW S \in SUBSET (0 .. n - 1), NEW T \in SUBSET (0 .. n - 1)
    PROVE  copyFrom(Bits(n, S), Bits(n, T)) = Bits(n, T)
<1>1. wordCount(Bits(n, S)) = wordCount(Bits(n, T))
  BY DEF wordCount, Bits
<1>. QED  BY <1>1 DEF copyFrom, Bits

(* How many bits the last word has room for. *)
LEMMA LastWord ==
    ASSUME NEW n \in Nat, NEW k \in Nat, k = (n + BITS_PER_WORD - 1) \div BITS_PER_WORD,
           NEW w \in 0 .. k - 1, NEW bit \in 0 .. BITS_PER_WORD - 1
    PROVE  /\ n % BITS_PER_WORD = 0 => w * BITS_PER_WORD + bit \in 0 .. n - 1
           /\ n % BITS_PER_WORD # 0 =>
                (w * BITS_PER_WORD + bit \in 0 .. n - 1 <=> w # k - 1 \/ bit < n % BITS_PER_WORD)
<1>. DEFINE B == BITS_PER_WORD
            q == n \div B
            r == n % B
<1>1. q \in Nat /\ r \in 0 .. B - 1 /\ n = q * B + r /\ B \in Nat \ {0} /\ w \in Nat
  BY WordAssumption
<1>2. CASE r = 0
  <2>1. k = q
    BY <1>1, <1>2
  <2>2. w + 1 <= q
    BY <2>1
  <2>3. (w + 1) * B <= q * B
    <3>. HIDE DEF q
    <3>. QED  BY <1>1, <2>2
  <2>. QED  BY <1>1, <1>2, <2>3
<1>3. CASE r # 0
  <2>1. k = q + 1
    BY <1>1, <1>3
  <2>2. CASE w = q
    BY <1>1, <1>3, <2>1, <2>2
  <2>3. CASE w < q
    <3>1. (w + 1) * B <= q * B
      <4>. HIDE DEF q
      <4>. QED  BY <1>1, <2>3
    <3>. QED  BY <1>1, <1>3, <2>1, <2>3, <3>1
  <2>. QED  BY <1>1, <2>1, <2>2, <2>3
<1>. QED  BY <1>1, <1>2, <1>3

(* setAll sets the bits there are, and no padding. *)
LEMMA SetAllBits ==
    ASSUME NEW n \in Nat, NEW S \in SUBSET (0 .. n - 1)
    PROVE  setAll(Bits(n, S)) = Bits(n, 0 .. n - 1)
<1>. DEFINE d == [w \in Words(n) |->
                    {bit \in 0 .. BITS_PER_WORD - 1 : w * BITS_PER_WORD + bit \in S}]
            ones == [w \in Words(n) |-> 0 .. BITS_PER_WORD - 1]
            full == [mBitSize |-> n, mData |-> ones]
            k == Cardinality(Words(n))
            remaining == n % BITS_PER_WORD
<1>1. setAll(Bits(n, S)) = clearPaddingBits(full)
  <2>1. Bits(n, S) = [mBitSize |-> n, mData |-> d]
    BY DEF Bits
  <2>2. DOMAIN d = Words(n)
    OBVIOUS
  <2>. HIDE DEF d
  <2>. QED  BY <2>1, <2>2, OnAllWords
<1>2. wordCount(full) = k /\ k \in Nat /\ Words(n) = 0 .. k - 1
      /\ k = (n + BITS_PER_WORD - 1) \div BITS_PER_WORD
  BY WordsOf DEF wordCount
<1>. HIDE DEF k
<1>3. ASSUME NEW w \in Words(n), NEW bit \in 0 .. BITS_PER_WORD - 1
      PROVE  /\ remaining = 0 => w * BITS_PER_WORD + bit \in 0 .. n - 1
             /\ remaining # 0 =>
                  (w * BITS_PER_WORD + bit \in 0 .. n - 1 <=> w # k - 1 \/ bit < remaining)
  BY <1>2, LastWord
<1>4. CASE remaining = 0
  <2>1. clearPaddingBits(full) = full
    BY <1>4 DEF clearPaddingBits
  <2>2. full = Bits(n, 0 .. n - 1)
    BY <1>3, <1>4 DEF Bits
  <2>. QED  BY <1>1, <2>1, <2>2
<1>5. CASE remaining # 0
  <2>. DEFINE last == {bit \in 0 .. BITS_PER_WORD - 1 : bit < remaining}
              cut == [ones EXCEPT ![k - 1] = last]
  <2>1. k # 0 /\ k - 1 \in Words(n)
    BY <1>2, <1>5, WordAssumption
  <2>2. clearPaddingBits(full) = [full EXCEPT !.mData[k - 1] = {bit \in @ : bit < remaining}]
    BY <1>2, <1>5, <2>1 DEF clearPaddingBits
  <2>3. clearPaddingBits(full) = [mBitSize |-> n, mData |-> cut]
    BY <2>1, <2>2
  <2>4. cut = [w \in Words(n) |-> IF w = k - 1 THEN last ELSE 0 .. BITS_PER_WORD - 1]
    BY <2>1
  <2>5. \A w \in Words(n) : cut[w] = {bit \in 0 .. BITS_PER_WORD - 1 :
                                         w * BITS_PER_WORD + bit \in 0 .. n - 1}
    <3>. HIDE DEF remaining
    <3>. QED  BY <1>3, <1>5, <2>4
  <2>6. [mBitSize |-> n, mData |-> cut] = Bits(n, 0 .. n - 1)
    <3>. HIDE DEF last
    <3>. QED  BY <2>4, <2>5 DEF Bits
  <2>. QED  BY <1>1, <2>3, <2>6
<1>. QED  BY <1>4, <1>5

(***************************************************************************)
(* The loops.                                                              *)
(***************************************************************************)
(* The forbidden edges set one after the other are the set of them. *)
LEMMA ForbidBits ==
    ASSUME NEW m \in Nat, NEW edges \in SUBSET (1 .. m)
    PROVE  FoldSet(LAMBDA e, b : set(b, edgeIndex(e)), Bits(m, {}), edges) =
             Bits(m, {edgeIndex(e) : e \in edges})
<1>. DEFINE indicesOf(s) == {edgeIndex(e) : e \in s}
            goal == [s \in SUBSET edges |-> Bits(m, indicesOf(s))]
            some(s) == CHOOSE x \in s : TRUE
            step(f) == [s \in SUBSET edges |->
                          IF s = {} THEN Bits(m, {})
                          ELSE set(f[s \ {some(s)}], edgeIndex(some(s)))]
            iter == CHOOSE f : f = step(f)
<1>1. ASSUME NEW s \in SUBSET edges, s # {}
      PROVE  set(Bits(m, indicesOf(s \ {some(s)})), edgeIndex(some(s))) = Bits(m, indicesOf(s))
  <2>1. some(s) \in s
    BY <1>1
  <2>. HIDE DEF some
  <2>2. \A e \in edges : edgeIndex(e) \in 0 .. m - 1
    BY DEF edgeIndex
  <2>3. edgeIndex(some(s)) \in 0 .. m - 1 /\ indicesOf(s \ {some(s)}) \in SUBSET (0 .. m - 1)
    BY <2>1, <2>2
  <2>4. indicesOf(s \ {some(s)}) \cup {edgeIndex(some(s))} = indicesOf(s)
    BY <2>1
  <2>. DEFINE i == edgeIndex(some(s))
              T == indicesOf(s \ {some(s)})
  <2>5. set(Bits(m, T), i) = Bits(m, T \cup {i})
    <3>1. i \in 0 .. m - 1 /\ T \in SUBSET (0 .. m - 1)
      BY <2>3
    <3>. HIDE DEF i, T
    <3>. QED  BY <3>1, OneBit
  <2>. HIDE DEF indicesOf
  <2>. QED  BY <2>4, <2>5
<1>2. goal = step(goal)
  <2>1. \A s \in SUBSET edges : s # {} => s \ {some(s)} \in SUBSET edges
    OBVIOUS
  <2>2. indicesOf({}) = {}
    OBVIOUS
  <2>. HIDE DEF some, indicesOf
  <2>. QED  BY <1>1, <2>1, <2>2
<1>3. iter = step(iter)
  <2>. HIDE DEF goal, step
  <2>. QED  BY <1>2
<1>4. FoldSet(LAMBDA e, b : set(b, edgeIndex(e)), Bits(m, {}), edges) = iter[edges]
  BY DEF FoldSet, MapThenFoldSet
<1>. HIDE DEF iter
<1>. DEFINE P == {s \in SUBSET edges : iter[s] = goal[s]}
<1>5. InductiveFamily(edges, P)
  <2>1. ASSUME NEW s \in SUBSET edges, \A x \in s : s \ {x} \in P
        PROVE  iter[s] = goal[s]
    <3>1. CASE s = {}
      <4>1. iter[s] = Bits(m, {})
        BY <1>3, <3>1
      <4>2. indicesOf(s) = {}
        BY <3>1
      <4>. QED  BY <4>1, <4>2
    <3>2. CASE s # {}
      <4>1. some(s) \in s
        BY <3>2
      <4>. HIDE DEF some
      <4>2. iter[s] = set(iter[s \ {some(s)}], edgeIndex(some(s)))
        BY <1>3, <3>2
      <4>3. iter[s \ {some(s)}] = Bits(m, indicesOf(s \ {some(s)}))
        BY <2>1, <4>1
      <4>. QED  BY <1>1, <3>2, <4>2, <4>3
    <3>. QED  BY <3>1, <3>2
  <2>. HIDE DEF goal
  <2>. QED  BY <2>1 DEF InductiveFamily
<1>6. IsFiniteSet(edges)
  <2>1. IsFiniteSet(1 .. m)
    BY FS_Interval
  <2>. QED  BY <2>1, FS_Subset
<1>7. edges \in P
  <2>. HIDE DEF P
  <2>. QED  BY <1>5, <1>6, SubsetInduction
<1>. QED  BY <1>4, <1>7

(* A word that is not 0 has a lowest one. *)
LEMMA LowestOne ==
    ASSUME NEW W \in Word, W # {}
    PROVE  Min(W) \in W /\ \A y \in W : Min(W) <= y
<1>1. W \subseteq Nat
  BY WordAssumption DEF Word
<1>2. PICK n \in W : \A k \in W : ~ (<<k, n>> \in OpToRel(<, Nat))
  BY <1>1, NatLessThanWellFounded, WFMin
<1>3. \A k \in W : ~ (k < n)
  BY <1>1, <1>2 DEF OpToRel
<1>4. n \in W /\ \A y \in W : n <= y
  BY <1>1, <1>3
<1>. QED  BY <1>4 DEF Min

(* A word has finitely many bits. *)
LEMMA WordsFinite ==
    /\ IsFiniteSet(0 .. BITS_PER_WORD - 1)
    /\ \A W \in Word : IsFiniteSet(W) /\ Cardinality(W) \in Nat
<1>1. IsFiniteSet(0 .. BITS_PER_WORD - 1)
  BY FS_Interval, WordAssumption
<1>. QED  BY <1>1, FS_Subset, FS_CardinalityType DEF Word

\* The loop that takes the lowest one off a word, with f for what is left.
PeelStep(f, W) == IF W = {} THEN <<>> ELSE <<Min(W)>> \o f[W \ {Min(W)}]

(* The loop ends, with every word: there are functions that do the first k rounds. *)
LEMMA PeelIs ==
    \A W \in Word : Peel[W] = PeelStep(Peel, W)
<1>. DEFINE Rounds(k, f) == \A W \in Word : Cardinality(W) <= k => f[W] = PeelStep(f, W)
            K == {k \in Nat : \E f : Rounds(k, f)}
            next(f) == [W \in Word |-> PeelStep(f, W)]
<1>1. ASSUME NEW W \in Word, W # {}
      PROVE  W \ {Min(W)} \in Word /\ Cardinality(W \ {Min(W)}) = Cardinality(W) - 1
  BY <1>1, LowestOne, WordsFinite, FS_RemoveElement DEF Word
<1>2. 0 \in K
  <2>1. Rounds(0, [W \in Word |-> <<>>])
    <3>1. ASSUME NEW W \in Word, Cardinality(W) <= 0
          PROVE  W = {}
      BY <3>1, WordsFinite, FS_EmptySet
    <3>. QED  BY <3>1 DEF PeelStep
  <2>. QED  BY <2>1
<1>3. ASSUME NEW k \in Nat, k \in K
      PROVE  k + 1 \in K
  <2>1. PICK f : Rounds(k, f)
    BY <1>3
  <2>2. ASSUME NEW W \in Word, Cardinality(W) <= k + 1
        PROVE  next(f)[W] = PeelStep(next(f), W)
    <3>1. CASE W = {}
      BY <3>1 DEF PeelStep
    <3>2. CASE W # {}
      <4>. DEFINE rest == W \ {Min(W)}
      <4>1. rest \in Word /\ Cardinality(rest) <= k
        <5>1. rest \in Word /\ Cardinality(rest) = Cardinality(W) - 1
          BY <1>1, <3>2
        <5>2. Cardinality(W) \in Nat
          BY WordsFinite
        <5>. QED  BY <2>2, <5>1, <5>2
      <4>. HIDE DEF rest
      <4>2. next(f)[rest] = f[rest]
        BY <2>1, <4>1
      <4>. HIDE DEF next
      <4>3. PeelStep(next(f), W) = PeelStep(f, W)
        BY <3>2, <4>2 DEF PeelStep, rest
      <4>. QED  BY <4>3 DEF next
    <3>. QED  BY <3>1, <3>2
  <2>3. Rounds(k + 1, next(f))
    BY <2>2
  <2>. HIDE DEF next, Rounds
  <2>. QED  BY <2>3
<1>4. BITS_PER_WORD \in K
  <2>1. \A n \in Nat : n \in K
    <3>. HIDE DEF K
    <3>. QED  BY <1>2, <1>3, SetInduction DEF Inductive
  <2>. QED  BY <2>1, WordAssumption
<1>5. PICK f : Rounds(BITS_PER_WORD, f)
  BY <1>4
<1>6. \A W \in Word : Cardinality(W) <= BITS_PER_WORD
  <2>1. Cardinality(0 .. BITS_PER_WORD - 1) = BITS_PER_WORD
    BY FS_Interval, WordAssumption
  <2>2. ASSUME NEW W \in Word
        PROVE  Cardinality(W) <= Cardinality(0 .. BITS_PER_WORD - 1)
    <3>1. W \subseteq 0 .. BITS_PER_WORD - 1
      BY DEF Word
    <3>. QED  BY <3>1, WordsFinite, FS_Subset
  <2>. QED  BY <2>1, <2>2
<1>7. next(f) = next(next(f))
  <2>1. \A W \in Word : next(f)[W] = f[W]
    BY <1>5, <1>6
  <2>2. \A W \in Word : PeelStep(next(f), W) = PeelStep(f, W)
    <3>. HIDE DEF next
    <3>. QED  BY <1>1, <2>1 DEF PeelStep
  <2>. QED  BY <2>2
<1>8. Peel = next(Peel)
  <2>1. Peel = CHOOSE g : g = next(g)
    BY DEF Peel, PeelStep
  <2>. HIDE DEF next
  <2>. QED  BY <1>7, <2>1
<1>. QED  BY <1>8

(* One element before all others. *)
LEMMA Prepend ==
    ASSUME NEW s \in Seq(Nat), Ascending(s), NEW x \in Nat, \A y \in ToSet(s) : x < y
    PROVE  /\ <<x>> \o s \in Seq(Nat) /\ Ascending(<<x>> \o s)
           /\ ToSet(<<x>> \o s) = {x} \cup ToSet(s)
<1>. DEFINE one == <<x>>
            u == one \o s
<1>1. one \in Seq(Nat) /\ Len(one) = 1 /\ Len(s) \in Nat /\ ToSet(one) = {x}
  BY DEF ToSet
<1>2. u \in Seq(Nat) /\ Len(u) = Len(s) + 1 /\ ToSet(u) = {x} \cup ToSet(s)
  <2>1. /\ u \in Seq(Nat) /\ Len(u) = Len(one) + Len(s)
        /\ ToSet(u) = ToSet(one) \cup ToSet(s)
    <3>1. \A a, c \in Seq(Nat) : /\ a \o c \in Seq(Nat) /\ Len(a \o c) = Len(a) + Len(c)
                                  /\ ToSet(a \o c) = ToSet(a) \cup ToSet(c)
      BY ConcatElements
    <3>. HIDE DEF one
    <3>. QED  BY <1>1, <3>1
  <2>. HIDE DEF u
  <2>. QED  BY <1>1, <2>1
<1>3. \A i \in 1 .. Len(s) + 1 : u[i] = IF i = 1 THEN x ELSE s[i - 1]
  BY <1>1
<1>4. \A i \in 1 .. Len(s) : s[i] \in Nat /\ x < s[i]
  BY InToSet
<1>. HIDE DEF u
<1>5. ASSUME NEW i \in 1 .. Len(s) + 1, NEW j \in 1 .. Len(s) + 1, i < j
      PROVE  u[i] < u[j]
  <2>1. j - 1 \in 1 .. Len(s) /\ u[j] = s[j - 1]
    BY <1>1, <1>3, <1>5
  <2>2. CASE i = 1
    BY <1>3, <1>4, <2>1, <2>2
  <2>3. CASE i # 1
    <3>1. i - 1 \in 1 .. Len(s) /\ u[i] = s[i - 1] /\ i - 1 < j - 1
      BY <1>1, <1>3, <1>5, <2>3
    <3>. QED  BY <2>1, <3>1 DEF Ascending
  <2>. QED  BY <2>2, <2>3
<1>6. DOMAIN u = 1 .. Len(s) + 1
  BY <1>2
<1>7. Ascending(u)
  BY <1>5, <1>6 DEF Ascending
<1>. QED  BY <1>2, <1>7 DEF u

(* The loop comes upon the ones of a word in ascending order. *)
LEMMA PeelOrder ==
    \A W \in Word : Peel[W] \in Seq(Nat) /\ Ascending(Peel[W]) /\ ToSet(Peel[W]) = W
<1>. DEFINE P == {W \in Word : Peel[W] \in Seq(Nat) /\ Ascending(Peel[W]) /\ ToSet(Peel[W]) = W}
<1>1. ASSUME NEW W \in Word, \A x \in W : W \ {x} \in P
      PROVE  W \in P
  <2>1. CASE W = {}
    <3>1. Peel[W] = <<>>
      BY <2>1, PeelIs DEF PeelStep
    <3>2. <<>> \in Seq(Nat) /\ Ascending(<<>>) /\ ToSet(<<>>) = {}
      BY DEF Ascending, ToSet
    <3>. QED  BY <2>1, <3>1, <3>2
  <2>2. CASE W # {}
    <3>. DEFINE x == Min(W)
                rest == W \ {x}
    <3>1. x \in W /\ \A y \in W : x <= y
      BY <2>2, LowestOne
    <3>2. W \subseteq Nat
      BY WordAssumption DEF Word
    <3>3. Peel[W] = <<x>> \o Peel[rest]
      BY <2>2, PeelIs DEF PeelStep
    <3>. HIDE DEF x
    <3>4. rest \in P
      BY <1>1, <3>1
    <3>5. x \in Nat /\ \A y \in rest : x < y
      BY <3>1, <3>2
    <3>6. /\ <<x>> \o Peel[rest] \in Seq(Nat) /\ Ascending(<<x>> \o Peel[rest])
          /\ ToSet(<<x>> \o Peel[rest]) = {x} \cup rest
      <4>. HIDE DEF rest
      <4>. QED  BY <3>4, <3>5, Prepend
    <3>. QED  BY <3>1, <3>3, <3>6
  <2>. QED  BY <2>1, <2>2
<1>2. InductiveFamily(0 .. BITS_PER_WORD - 1, P)
  BY <1>1 DEF InductiveFamily, Word
<1>3. Word \subseteq P
  <2>. HIDE DEF P
  <2>. QED  BY <1>2, WordsFinite, SubsetInduction DEF Word
<1>. QED  BY <1>3

\* What is at an earlier place is smaller.
RowsAscend(rows) == \A p, q \in Places(rows) : Before(p, q) => At(rows, p) < At(rows, q)

(* Such rows ascend behind one another. *)
LEMMA JoinedAscends ==
    ASSUME NEW rows \in Seq(Seq(Nat)), RowsAscend(rows)
    PROVE  Ascending(Joined(rows))
<1>. DEFINE n == Cardinality(Places(rows))
            rank(p) == Cardinality(Ahead(rows, p))
<1>1. DOMAIN Joined(rows) = 1 .. n /\ n \in Nat
  BY JoinedHolds, PlacesFinite
<1>2. ASSUME NEW i \in 1 .. n, NEW j \in 1 .. n, i < j
      PROVE  Joined(rows)[i] < Joined(rows)[j]
  <2>1. PICK p \in Places(rows) : rank(p) = i - 1 /\ Joined(rows)[i] = At(rows, p)
    BY JoinedHolds
  <2>2. PICK q \in Places(rows) : rank(q) = j - 1 /\ Joined(rows)[j] = At(rows, q)
    BY JoinedHolds
  <2>3. rank(p) < rank(q) /\ rank(p) \in Nat /\ rank(q) \in Nat
    BY <1>1, <1>2, <2>1, <2>2
  <2>4. ~ Before(q, p) /\ p # q
    <3>1. Before(q, p) => rank(q) < rank(p)
      BY AheadAscends
    <3>. HIDE DEF rank
    <3>. QED  BY <2>3, <3>1
  <2>5. p[1] \in Nat /\ p[2] \in Nat /\ q[1] \in Nat /\ q[2] \in Nat
        /\ p = <<p[1], p[2]>> /\ q = <<q[1], q[2]>>
    <3>1. \A r \in Places(rows) :
            r = <<r[1], r[2]>> /\ r[1] \in 1 .. Len(rows) /\ r[2] \in 1 .. Len(rows[r[1]])
      BY PlacesAre
    <3>. QED  BY <3>1
  <2>6. Before(p, q)
    BY <2>4, <2>5 DEF Before
  <2>. QED  BY <2>1, <2>2, <2>6 DEF RowsAscend
<1>. QED  BY <1>1, <1>2 DEF Ascending

(* The loop over the ones comes upon the elements in ascending order. *)
LEMMA ForEachSetBits ==
    ASSUME NEW n \in Nat, NEW S \in SUBSET (0 .. n - 1)
    PROVE  Ascending(forEachSet(Bits(n, S))) /\ ToSet(forEachSet(Bits(n, S))) = S
<1>. DEFINE b == Bits(n, S)
            B == BITS_PER_WORD
            k == wordCount(b)
            word(w) == b.mData[w - 1]
            row(w) == [i \in DOMAIN Peel[word(w)] |-> (w - 1) * B + Peel[word(w)][i]]
            rows == [w \in 1 .. k |-> row(w)]
<1>1. k \in Nat /\ Words(n) = 0 .. k - 1
  BY WordsOf DEF wordCount, Bits
<1>2. B \in Nat \ {0}
  BY WordAssumption
<1>. HIDE DEF k
<1>3. ASSUME NEW w \in 1 .. k
      PROVE  /\ w - 1 \in Words(n) /\ w - 1 \in Nat
             /\ word(w) = {bit \in 0 .. B - 1 : (w - 1) * B + bit \in S}
             /\ word(w) \in Word
             /\ Peel[word(w)] \in Seq(Nat) /\ Ascending(Peel[word(w)])
             /\ ToSet(Peel[word(w)]) = word(w)
  <2>1. w - 1 \in Words(n) /\ w - 1 \in Nat
    BY <1>1
  <2>2. word(w) = {bit \in 0 .. B - 1 : (w - 1) * B + bit \in S}
    BY <2>1 DEF Bits
  <2>3. word(w) \in Word
    BY <2>2 DEF Word
  <2>. HIDE DEF word
  <2>. QED  BY <2>1, <2>2, <2>3, PeelOrder
<1>. HIDE DEF word, B
<1>4. ASSUME NEW w \in 1 .. k
      PROVE  /\ row(w) \in Seq(Nat) /\ Len(row(w)) = Len(Peel[word(w)])
             /\ \A i \in 1 .. Len(row(w)) :
                   /\ row(w)[i] = (w - 1) * B + Peel[word(w)][i]
                   /\ Peel[word(w)][i] \in word(w) /\ Peel[word(w)][i] \in 0 .. B - 1
  <2>. DEFINE p == Peel[word(w)]
  <2>1. p \in Seq(Nat) /\ ToSet(p) = word(w)
    BY <1>3
  <2>2. Len(p) \in Nat /\ DOMAIN p = 1 .. Len(p)
    BY <2>1
  <2>3. \A i \in 1 .. Len(p) : p[i] \in word(w) /\ p[i] \in 0 .. B - 1
    <3>1. \A i \in 1 .. Len(p) : p[i] \in word(w)
      <4>. HIDE DEF p
      <4>. QED  BY <2>1, <2>2, InToSet
    <3>2. word(w) \subseteq 0 .. B - 1
      BY <1>3
    <3>. QED  BY <3>1, <3>2
  <2>4. \A i \in 1 .. Len(p) : (w - 1) * B + p[i] \in Nat
    <3>1. w - 1 \in Nat
      BY <1>3
    <3>. HIDE DEF p
    <3>. QED  BY <1>2, <2>3, <3>1
  <2>. HIDE DEF p
  <2>5. row(w) = [i \in 1 .. Len(p) |-> (w - 1) * B + p[i]]
    BY <2>2 DEF p
  <2>6. row(w) \in Seq(Nat) /\ Len(row(w)) = Len(p)
    BY <2>2, <2>4, <2>5
  <2>. QED  BY <2>3, <2>5, <2>6 DEF p
<1>5. rows \in Seq(Seq(Nat)) /\ Len(rows) = k /\ \A w \in 1 .. k : rows[w] = row(w)
  <2>1. \A w \in 1 .. k : row(w) \in Seq(Nat)
    BY <1>4
  <2>. HIDE DEF row
  <2>. QED  BY <1>1, <2>1
<1>6. forEachSet(b) = Joined(rows)
  BY DEF forEachSet, B, word, k
<1>. HIDE DEF b, row, rows
<1>7. ASSUME NEW p \in Places(rows)
      PROVE  /\ p[1] \in 1 .. k /\ p[2] \in 1 .. Len(row(p[1]))
             /\ At(rows, p) = (p[1] - 1) * B + Peel[word(p[1])][p[2]]
             /\ Peel[word(p[1])][p[2]] \in word(p[1]) /\ Peel[word(p[1])][p[2]] \in 0 .. B - 1
  <2>1. p[1] \in 1 .. k /\ p[2] \in 1 .. Len(row(p[1]))
    BY <1>5, PlacesAre
  <2>2. At(rows, p) = row(p[1])[p[2]]
    BY <1>5, <2>1 DEF At
  <2>. QED  BY <1>4, <2>1, <2>2
<1>8. RowsAscend(rows)
  <2>1. SUFFICES ASSUME NEW p \in Places(rows), NEW q \in Places(rows), Before(p, q)
                 PROVE  At(rows, p) < At(rows, q)
    BY DEF RowsAscend
  <2>. DEFINE x == Peel[word(p[1])][p[2]]
              y == Peel[word(q[1])][q[2]]
              v == p[1]
              w == q[1]
  <2>2. /\ v \in 1 .. k /\ w \in 1 .. k /\ x \in 0 .. B - 1 /\ y \in 0 .. B - 1
        /\ At(rows, p) = (v - 1) * B + x /\ At(rows, q) = (w - 1) * B + y
    BY <1>7
  <2>3. CASE v < w
    <3>. HIDE DEF x, y, v, w
    <3>1. (v - 1) * B + B <= (w - 1) * B
      BY <1>1, <1>2, <2>2, <2>3
    <3>. QED  BY <1>1, <1>2, <2>2, <3>1
  <2>4. CASE v = w /\ p[2] < q[2]
    <3>1. Ascending(Peel[word(v)]) /\ Peel[word(v)] \in Seq(Nat)
          /\ Len(row(v)) = Len(Peel[word(v)])
      BY <1>3, <1>4, <2>2
    <3>2. p[2] \in 1 .. Len(Peel[word(v)]) /\ q[2] \in 1 .. Len(Peel[word(v)])
      BY <1>7, <2>4, <3>1
    <3>3. x < y
      BY <2>4, <3>1, <3>2 DEF Ascending
    <3>. HIDE DEF x, y, v, w
    <3>. QED  BY <1>1, <1>2, <2>2, <2>4, <3>3
  <2>. QED  BY <2>1, <2>3, <2>4 DEF Before
<1>9. ASSUME NEW x
      PROVE  x \in ToSet(Joined(rows)) <=> \E p \in Places(rows) : x = At(rows, p)
  <2>1. Joined(rows) \in Seq(Nat) /\ Len(Joined(rows)) = Cardinality(Places(rows))
    BY <1>5, JoinedHolds
  <2>2. x \in ToSet(Joined(rows)) <=> \E i \in 1 .. Len(Joined(rows)) : Joined(rows)[i] = x
    BY <2>1, InToSet
  <2>3. ASSUME NEW i \in 1 .. Len(Joined(rows))
        PROVE  \E p \in Places(rows) : Joined(rows)[i] = At(rows, p)
    BY <1>5, <2>1, JoinedHolds
  <2>4. ASSUME NEW p \in Places(rows)
        PROVE  \E i \in 1 .. Len(Joined(rows)) : Joined(rows)[i] = At(rows, p)
    <3>. DEFINE c == Cardinality(Ahead(rows, p))
    <3>1. c \in 0 .. Len(Joined(rows)) - 1 /\ Joined(rows)[c + 1] = At(rows, p)
      BY <1>5, <2>1, JoinedHolds, AheadAscends
    <3>2. c + 1 \in 1 .. Len(Joined(rows))
      <4>1. Len(Joined(rows)) \in Nat
        BY <2>1
      <4>. HIDE DEF c
      <4>. QED  BY <3>1, <4>1
    <3>. QED  BY <3>1, <3>2
  <2>. QED  BY <2>2, <2>3, <2>4
<1>10. ASSUME NEW x \in S
       PROVE  \E p \in Places(rows) : x = At(rows, p)
  <2>. DEFINE w == (x \div B) + 1
              bit == x % B
  <2>1. w \in 1 .. k /\ bit \in 0 .. B - 1 /\ x = (w - 1) * B + bit
    <3>1. x \div B \in 0 .. k - 1 /\ x % B \in 0 .. B - 1 /\ x = (x \div B) * B + (x % B)
      BY <1>1, IndexParts DEF B
    <3>. DEFINE d == x \div B
    <3>. HIDE DEF d
    <3>2. d + 1 \in 1 .. k /\ (d + 1) - 1 = d
      BY <1>1, <3>1 DEF d
    <3>. QED  BY <3>1, <3>2 DEF d
  <2>. HIDE DEF w, bit
  <2>2. bit \in word(w)
    BY <1>3, <2>1
  <2>3. PICK i \in 1 .. Len(Peel[word(w)]) : Peel[word(w)][i] = bit
    <3>. DEFINE u == Peel[word(w)]
    <3>1. u \in Seq(Nat) /\ bit \in ToSet(u)
      BY <1>3, <2>1, <2>2
    <3>. HIDE DEF u
    <3>2. \E i \in 1 .. Len(u) : u[i] = bit
      BY <3>1, InToSet
    <3>. QED  BY <3>2 DEF u
  <2>4. <<w, i>> \in Places(rows)
    BY <1>4, <1>5, <2>1, PlacesAre
  <2>. QED  BY <1>7, <2>1, <2>3, <2>4
<1>11. ASSUME NEW p \in Places(rows)
       PROVE  At(rows, p) \in S
  BY <1>3, <1>7
<1>12. ToSet(Joined(rows)) = S
  BY <1>9, <1>10, <1>11
<1>13. Ascending(Joined(rows))
  BY <1>5, <1>8, JoinedAscends
<1>. QED  BY <1>6, <1>12, <1>13 DEF b

(* A bitset that has the bits of S holds S. *)
LEMMA BitsHold ==
    ASSUME NEW n \in Nat, NEW S \in SUBSET (0 .. n - 1)
    PROVE  Holds(Bits(n, S), n, S)
<1>1. \A i \in 0 .. n - 1 : test(Bits(n, S), i) <=> i \in S
  BY OneBit
<1>. QED  BY <1>1, ForEachSetBits DEF Holds
-----------------------------------------------------------------------------
(***************************************************************************)
(* The engine and its masks.                                               *)
(***************************************************************************)
vertexCount == Cardinality(Vertex)
edgeCount   == Cardinality(Edge)

Indices(S)     == {vertexIndex[v] : v \in S}
EdgeIndices(F) == {edgeIndex(e) : e \in F}

\* At any moment, in the middle of a search too, the words have the bits of the
\* masks, and none besides.
MaskInv ==
    /\ wV1 = Bits(vertexCount, Indices(mV1)) /\ wVT = Bits(vertexCount, Indices(mVT))
    /\ wV1Saved = Bits(vertexCount, Indices(mV1Saved))
    /\ wCutMask = Bits(edgeCount, EdgeIndices(mCutMask))

(* Indices are within the bitsets. *)
LEMMA IndicesFit ==
    /\ vertexCount \in Nat /\ edgeCount \in Nat /\ Edge = 1 .. edgeCount
    /\ \A v \in Vertex : vertexIndex[v] \in 0 .. vertexCount - 1
    /\ \A S \in SUBSET Vertex : Indices(S) \in SUBSET (0 .. vertexCount - 1)
    /\ \A F \in SUBSET Edge : EdgeIndices(F) \in SUBSET (0 .. edgeCount - 1)
<1>1. vertexCount \in Nat /\ edgeCount \in Nat /\ Edge = 1 .. edgeCount
  BY IndexAssumption, FS_CardinalityType DEF vertexCount, edgeCount
<1>2. \A v \in Vertex : vertexIndex[v] \in 0 .. vertexCount - 1
  BY IndexAssumption DEF vertexCount
<1>3. \A e \in Edge : edgeIndex(e) \in 0 .. edgeCount - 1
  BY <1>1 DEF edgeIndex
<1>. QED  BY <1>1, <1>2, <1>3 DEF Indices, EdgeIndices

(* One vertex more is one bit more. *)
LEMMA SetVertex ==
    ASSUME NEW S \in SUBSET Vertex, NEW v \in Vertex
    PROVE  set(Bits(vertexCount, Indices(S)), vertexIndex[v]) =
             Bits(vertexCount, Indices(S \cup {v}))
<1>1. Indices(S \cup {v}) = Indices(S) \cup {vertexIndex[v]}
  BY DEF Indices
<1>. DEFINE i == vertexIndex[v]
            T == Indices(S)
<1>2. i \in 0 .. vertexCount - 1 /\ T \in SUBSET (0 .. vertexCount - 1) /\ vertexCount \in Nat
  BY IndicesFit
<1>3. set(Bits(vertexCount, T), i) = Bits(vertexCount, T \cup {i})
  <2>. HIDE DEF i, T
  <2>. QED  BY <1>2, OneBit
<1>. QED  BY <1>1, <1>3

(* A mask that a search begins with. *)
LEMMA RestartMask ==
    ASSUME NEW S \in SUBSET Vertex, NEW T \in SUBSET Vertex, NEW v \in Vertex
    PROVE  /\ set(resetAll(Bits(vertexCount, Indices(S))), vertexIndex[v]) =
                 Bits(vertexCount, Indices({v}))
           /\ copyFrom(Bits(vertexCount, Indices(S)), Bits(vertexCount, Indices(T))) =
                 Bits(vertexCount, Indices(T))
<1>1. resetAll(Bits(vertexCount, Indices(S))) = Bits(vertexCount, Indices({}))
  <2>1. Indices({}) = {}
    BY DEF Indices
  <2>. QED  BY <2>1, IndicesFit, ResetAllBits
<1>2. set(Bits(vertexCount, Indices({})), vertexIndex[v]) = Bits(vertexCount, Indices({} \cup {v}))
  BY SetVertex
<1>. QED  BY <1>1, <1>2, IndicesFit, CopyBits

(* The mask of forbidden edges of a call. *)
LEMMA ForbidMask ==
    ASSUME MaskInv, NEW edges \in SUBSET Edge, Forbid(edges), mCutMask \in SUBSET Edge
    PROVE  wCutMask' = Bits(edgeCount, EdgeIndices(edges))
<1>1. resetAll(wCutMask) = Bits(edgeCount, {})
  BY IndicesFit, ResetAllBits DEF MaskInv
<1>2. FoldSet(LAMBDA e, b : set(b, edgeIndex(e)), Bits(edgeCount, {}), edges) =
        Bits(edgeCount, EdgeIndices(edges))
  BY IndicesFit, ForbidBits DEF EdgeIndices
<1>. QED  BY <1>1, <1>2 DEF Forbid

(* A new engine has no bit set. *)
LEMMA MaskInitInv == MaskInit => MaskInv
<1>1. Indices({}) = {} /\ EdgeIndices({}) = {}
  BY DEF Indices, EdgeIndices
<1>. QED  BY <1>1, IndicesFit, NoBits DEF MaskInit, Init, MaskInv, vertexCount, edgeCount

(* Every step does to the bits what it does to the masks. *)
LEMMA MaskStep ==
    ASSUME TypeOK, MaskInv, [MaskNext]_<<vars, words>>
    PROVE  MaskInv'
<1>1. /\ mV1 \in SUBSET Vertex /\ mVT \in SUBSET Vertex /\ mV1Saved \in SUBSET Vertex
      /\ mCutMask \in SUBSET Edge /\ outCutEdges \in Seq(Edge)
      /\ superSource \in Vertex /\ superSink \in Vertex
      /\ \A e \in Edge : tail[e] \in Vertex /\ head[e] \in Vertex
  BY DEF TypeOK, IsGraph
<1>2. ASSUME NEW forbidden \in SUBSET Edge, MaskForward(forbidden)
      PROVE  MaskInv'
  <2>1. wCutMask' = Bits(edgeCount, EdgeIndices(forbidden))
    BY <1>1, <1>2, ForbidMask DEF MaskForward
  <2>2. wV1' = Bits(vertexCount, Indices({superSource}))
    BY <1>1, <1>2, RestartMask DEF MaskForward, MaskInv
  <2>3. /\ mV1' = {superSource} /\ mCutMask' = forbidden
        /\ UNCHANGED <<mVT, mV1Saved, wVT, wV1Saved>>
    BY <1>2 DEF MaskForward, ForwardBfs, Call
  <2>. QED  BY <2>1, <2>2, <2>3 DEF MaskInv
<1>3. ASSUME NEW forbidden \in SUBSET Edge, MaskBackward(forbidden)
      PROVE  MaskInv'
  <2>1. wCutMask' = Bits(edgeCount, EdgeIndices(forbidden))
    BY <1>1, <1>3, ForbidMask DEF MaskBackward
  <2>2. wVT' = Bits(vertexCount, Indices({superSink}))
    BY <1>1, <1>3, RestartMask DEF MaskBackward, MaskInv
  <2>3. /\ mVT' = {superSink} /\ mCutMask' = forbidden
        /\ UNCHANGED <<mV1, mV1Saved, wV1, wV1Saved>>
    BY <1>3 DEF MaskBackward, BackwardBfs, Call
  <2>. QED  BY <2>1, <2>2, <2>3 DEF MaskInv
<1>4. ASSUME NEW ei \in ToSet(outCutEdges), NEW forbidden \in SUBSET Edge,
             MaskIncremental(ei, forbidden)
      PROVE  MaskInv'
  <2>1. wCutMask' = Bits(edgeCount, EdgeIndices(forbidden))
    BY <1>1, <1>4, ForbidMask DEF MaskIncremental
  <2>2. head[ei] \in Vertex
    BY <1>1, InToSet
  <2>3. wV1' = Bits(vertexCount, Indices(mV1Saved \cup {head[ei]}))
    BY <1>1, <1>4, <2>2, RestartMask, SetVertex DEF MaskIncremental, MaskInv
  <2>4. /\ mV1' = mV1Saved \cup {head[ei]} /\ mCutMask' = forbidden
        /\ UNCHANGED <<mVT, mV1Saved, wVT, wV1Saved>>
    BY <1>4 DEF MaskIncremental, IncrementalForwardBfs, Call
  <2>. QED  BY <2>1, <2>3, <2>4 DEF MaskInv
<1>5. CASE NextVertex /\ UNCHANGED words
  BY <1>5 DEF NextVertex, words, MaskInv
<1>6. ASSUME NEW e \in Edge, SkipForbidden(e) \/ SkipVisited(e), UNCHANGED words
      PROVE  MaskInv'
  BY <1>6 DEF SkipForbidden, SkipVisited, words, MaskInv
<1>7. ASSUME NEW e \in Edge, MaskDiscover(e)
      PROVE  MaskInv'
  <2>1. /\ mV1' = IF Backward THEN mV1 ELSE mV1 \cup {head[e]}
        /\ mVT' = IF Backward THEN mVT \cup {tail[e]} ELSE mVT
        /\ UNCHANGED <<mCutMask, mV1Saved, wCutMask, wV1Saved>>
    BY <1>7 DEF MaskDiscover, Discover
  <2>2. CASE Backward
    <3>1. wVT' = Bits(vertexCount, Indices(mVT \cup {tail[e]})) /\ wV1' = wV1
      BY <1>1, <1>7, <2>2, SetVertex DEF MaskDiscover, MaskInv
    <3>. QED  BY <2>1, <2>2, <3>1 DEF MaskInv
  <2>3. CASE ~ Backward
    <3>1. wV1' = Bits(vertexCount, Indices(mV1 \cup {head[e]})) /\ wVT' = wVT
      BY <1>1, <1>7, <2>3, SetVertex DEF MaskDiscover, MaskInv
    <3>. QED  BY <2>1, <2>3, <3>1 DEF MaskInv
  <2>. QED  BY <2>2, <2>3
<1>8. CASE MaskReturn
  <2>1. /\ mV1Saved' = IF call = "forwardBfs" THEN mV1 ELSE mV1Saved
        /\ UNCHANGED <<mV1, mVT, mCutMask, wV1, wVT, wCutMask>>
    BY <1>8 DEF MaskReturn, Return
  <2>2. copyFrom(wV1Saved, wV1) = Bits(vertexCount, Indices(mV1))
    BY <1>1, RestartMask DEF MaskInv
  <2>3. wV1Saved' = Bits(vertexCount, Indices(mV1Saved'))
    BY <1>8, <2>1, <2>2 DEF MaskReturn, MaskInv
  <2>. QED  BY <2>1, <2>3 DEF MaskInv
<1>9. CASE UNCHANGED <<vars, words>>
  BY <1>9 DEF vars, words, MaskInv
<1>. QED  BY <1>2, <1>3, <1>4, <1>5, <1>6, <1>7, <1>8, <1>9 DEF MaskNext

(* Every step is one of the search itself, which takes no notice of the words. *)
THEOREM MasksImplementSearch == MaskSpec => Spec
<1>1. MaskInit => Init
  BY DEF MaskInit
<1>2. ASSUME [MaskNext]_<<vars, words>>
      PROVE  [Next]_vars
  BY <1>2 DEF MaskNext, MaskForward, MaskBackward, MaskIncremental, MaskDiscover, MaskReturn,
     Next, Search, LookAt
<1>. QED  BY <1>1, <1>2, PTL DEF MaskSpec, Spec

(* What the words answer when a call has returned is what BfsEngine says. *)
LEMMA MasksHold ==
    ASSUME TypeOK, MaskInv
    PROVE  MasksAreSets
<1>. DEFINE cutMask == EdgeIndices(mCutMask)
<1>1. /\ Indices(mV1) \in SUBSET (0 .. vertexCount - 1)
      /\ Indices(mVT) \in SUBSET (0 .. vertexCount - 1)
      /\ Indices(mV1Saved) \in SUBSET (0 .. vertexCount - 1)
      /\ cutMask \in SUBSET (0 .. edgeCount - 1)
      /\ vertexCount \in Nat /\ edgeCount \in Nat
  BY IndicesFit DEF TypeOK
<1>2. /\ Holds(wV1, vertexCount, Indices(mV1)) /\ Holds(wVT, vertexCount, Indices(mVT))
      /\ Holds(wV1Saved, vertexCount, Indices(mV1Saved))
      /\ Holds(wCutMask, edgeCount, cutMask)
  BY <1>1, BitsHold DEF MaskInv
<1>3. Holds(setAll(wCutMask), edgeCount, 0 .. edgeCount - 1)
  BY <1>1, SetAllBits, BitsHold DEF MaskInv
<1>4. ASSUME NEW i \in cutMask
      PROVE  Holds(reset(wCutMask, i), edgeCount, cutMask \ {i})
  <2>1. i \in 0 .. edgeCount - 1 /\ cutMask \ {i} \in SUBSET (0 .. edgeCount - 1)
    BY <1>1
  <2>. HIDE DEF cutMask
  <2>2. reset(wCutMask, i) = Bits(edgeCount, cutMask \ {i})
    BY <1>1, <2>1, OneBit DEF MaskInv, cutMask
  <2>. QED  BY <1>1, <2>1, <2>2, BitsHold
<1>. QED
  BY <1>2, <1>3, <1>4 DEF MasksAreSets, Indices, EdgeIndices, vertexCount, edgeCount

(* At any moment the words have the bits of the masks. *)
LEMMA MaskInvariant == MaskSpec => []MaskInv
<1>1. MaskInit => MaskInv
  BY MaskInitInv
<1>2. TypeOK /\ MaskInv /\ [MaskNext]_<<vars, words>> => MaskInv'
  BY MaskStep
<1>3. MaskSpec => []TypeOK
  BY MasksImplementSearch, TypeCorrect, PTL
<1>. QED  BY <1>1, <1>2, <1>3, PTL DEF MaskSpec

(* Whatever calls came before, the bitsets are the masks: a test of a bit answers as  *)
(* membership does, the loop over the ones finds the elements in ascending order, and *)
(* so it is after setAll and after reset; with words of any length, on every graph.   *)
THEOREM MasksAreSetsCorrect == MaskSpec => []MasksAreSets
<1>1. MaskSpec => []TypeOK
  BY MasksImplementSearch, TypeCorrect, PTL
<1>2. TypeOK /\ MaskInv => MasksAreSets
  BY MasksHold
<1>. QED  BY <1>1, <1>2, MaskInvariant, PTL
=============================================================================
