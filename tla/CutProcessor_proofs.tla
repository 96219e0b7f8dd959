------------------------ MODULE CutProcessor_proofs -------------------------
(***************************************************************************)
(* The search finds the minimal cuts of a graph, all of them and nothing   *)
(* else, on every finite graph whose initial cut is minimal.               *)
(*                                                                         *)
(* A cut is known by its side, the vertices that stay with the source.     *)
(* Branching on v gives the least minimal cut whose side contains that of  *)
(* the frame and v, so that from any frame, one branch after the other,    *)
(* every minimal cut is reached whose side contains the frame's.           *)
(***************************************************************************)
EXTENDS CutProcessor, Lemmas

(***************************************************************************)
(* The invariant.                                                          *)
(***************************************************************************)
GraphInv == IsGraph /\ superSink \in Reach({superSource}, {})

\* Everywhere only minimal cuts.
MinimalInv == \A P \in pending \cup newFrames \cup found \cup mSeen : IsMinimalCut(P)

\* The frame being processed, its side and its boundary edges.
FrameInv ==
    /\ frame = NoFrame => rest = {}
    /\ frame # NoFrame =>
          /\ frame \in mSeen /\ mV1Saved = Side(frame)
          /\ pClean = frame /\ rest \subseteq frame

\* branchFrame has branched on every head it has come to, or found the branch in
\* the table; it has done nothing else.
BranchInv ==
    frame # NoFrame =>
        /\ \A e \in frame : e \in rest \/ head[e] = superSink \/ head[e] \in mHeadSeen
        /\ \A e \in frame : head[e] \in mHeadSeen /\ head[e] # superSink =>
              Child(frame, head[e]) \in mSeen \cup newFrames
        /\ \A P \in newFrames :
              /\ mV1Saved \subseteq Side(P) /\ mV1Saved # Side(P)
              /\ P \notin mSeen
              /\ \E e \in frame : head[e] # superSink /\ P = Child(frame, head[e])

\* A frame in the table is recorded, and its branches are in the table or wait.
ClosedInv ==
    /\ InitialCut \in mSeen \cup pending
    /\ \A P \in mSeen : P # frame =>
          /\ P \in found
          /\ \A e \in P : head[e] # superSink => Child(P, head[e]) \in mSeen \cup pending

IInv == GraphInv /\ MinimalInv /\ FrameInv /\ BranchInv /\ ClosedInv

(* The graph is never changed. *)
LEMMA GraphKept ==
    ASSUME UNCHANGED graph, GraphInv
    PROVE  /\ GraphInv' /\ InitialCut' = InitialCut
           /\ \A P, v : Child(P, v)' = Child(P, v)
<1>1. tail' = tail /\ head' = head
  BY DEF graph
<1>2. GraphInv'
  BY <1>1 DEF GraphInv, IsGraph, Reach, Closed
<1>3. InitialCut' = InitialCut
  BY <1>1 DEF InitialCut, outgoingEdges
<1>4. \A P, v : Child(P, v)' = Child(P, v)
  BY <1>1 DEF Child, Far, Wider, Side, Boundary, CoReach, Reach, Closed, CoClosed
<1>. QED  BY <1>2, <1>3, <1>4

(* The frame on top of the stack is a minimal cut, so that its boundary is all of it. *)
LEMMA ReconstructStep ==
    ASSUME IInv, NEW cut \in pending, Reconstruct(cut)
    PROVE  IInv'
<1>1. /\ frame = NoFrame /\ cut \notin mSeen /\ IsMinimalCut(cut) /\ IsGraph /\ cut # {}
      /\ ClosedInv /\ MinimalInv /\ GraphInv
  BY MinimalNotEmpty DEF IInv, Reconstruct, MinimalInv, GraphInv
<1>2. /\ pending' = pending \ {cut} /\ mSeen' = mSeen \cup {cut} /\ frame' = cut
      /\ tail' = tail /\ head' = head /\ mV1Saved' = Side(cut) /\ mHeadSeen' = {}
      /\ newFrames' = {} /\ found' = found
      /\ pClean' = {e \in cut : tail[e] \in Side(cut) /\ head[e] \notin Side(cut)}
      /\ rest' = (IF superSink \in Side(cut) THEN {} ELSE pClean')
  BY DEF Reconstruct, graph, Side
<1>3. cut = Boundary(Side(cut)) /\ superSink \notin Side(cut)
  BY <1>1, MinimalIsBoundary DEF IsMinimalCut, IsCut, Side
<1>4. pClean' = cut /\ rest' = cut
  BY <1>2, <1>3 DEF Boundary
<1>5. GraphInv' /\ InitialCut' = InitialCut /\ \A P, v : Child(P, v)' = Child(P, v)
  BY <1>1, <1>2, GraphKept DEF graph
<1>6. MinimalInv'
  BY <1>1, <1>2 DEF MinimalInv, IsMinimalCut, IsCut, Reach, Closed
<1>7. FrameInv'
  BY <1>1, <1>2, <1>4 DEF FrameInv, NoFrame, Side, Reach, Closed
<1>8. BranchInv'
  BY <1>2, <1>4 DEF BranchInv
<1>9. ClosedInv'
  <2>1. ASSUME NEW P \in mSeen', P # cut
        PROVE  /\ P \in found
               /\ \A e \in P : head[e] # superSink => Child(P, head[e]) \in mSeen' \cup pending'
    <3>1. P \in mSeen /\ P # frame
      BY <1>1, <1>2, <2>1, MinimalNotEmpty DEF MinimalInv, GraphInv, NoFrame
    <3>2. /\ P \in found
          /\ \A e \in P : head[e] # superSink => Child(P, head[e]) \in mSeen \cup pending
      BY <1>1, <3>1 DEF ClosedInv
    <3>. QED  BY <1>2, <3>2
  <2>2. InitialCut' \in mSeen' \cup pending'
    BY <1>1, <1>2, <1>5 DEF ClosedInv
  <2>. QED  BY <1>2, <1>5, <2>1, <2>2 DEF ClosedInv
<1>. QED  BY <1>5, <1>6, <1>7, <1>8, <1>9 DEF IInv

(* What branchFrame computes for a boundary edge is the branch on its head. *)
LEMMA CleanIsChild ==
    ASSUME IInv, NEW ei \in rest
    PROVE  /\ frame # NoFrame /\ ei \in frame /\ IsMinimalCut(frame) /\ frame = Boundary(Side(frame))
           /\ V1New(ei) = Wider(frame, head[ei]) /\ Clean(ei) = Child(frame, head[ei])
<1>. DEFINE v == head[ei]
            qMask == (pClean \ {ei}) \cup outgoingEdges(v)
<1>1. /\ frame # NoFrame /\ ei \in frame /\ IsMinimalCut(frame) /\ IsGraph
      /\ mV1Saved = Side(frame) /\ pClean = frame
  BY DEF IInv, FrameInv, MinimalInv, GraphInv
<1>2. frame = Boundary(Side(frame)) /\ v \in Vertex
  BY <1>1, MinimalIsBoundary DEF Boundary, IsGraph
<1>3. Reach({v}, qMask) = {v}
  BY <1>1, <1>2, StaysAt
<1>4. V1New(ei) = Wider(frame, v)
  BY <1>1, <1>3 DEF V1New, Wider
<1>5. candidates(ei) = Boundary(Wider(frame, v))
  BY <1>1, <1>2, <1>4 DEF candidates, Boundary, Wider, outgoingEdges
<1>6. Clean(ei) = Child(frame, v)
  BY <1>4, <1>5 DEF Clean, Child, Far, Boundary
<1>. QED  BY <1>1, <1>2, <1>4, <1>6

(* Nothing is lost where branchFrame goes on to the next edge. *)
LEMMA SkipHeadStep ==
    ASSUME IInv, NEW ei \in rest, SkipHead(ei)
    PROVE  IInv'
<1>1. /\ frame # NoFrame /\ ei \in frame /\ IsMinimalCut(frame)
      /\ IsGraph /\ GraphInv /\ MinimalInv /\ FrameInv /\ BranchInv /\ ClosedInv
  BY CleanIsChild DEF IInv, GraphInv
<1>2. head[ei] = superSink \/ head[ei] \in mHeadSeen
  BY <1>1, HeadHasEdges DEF SkipHead
<1>3. /\ rest' = rest \ {ei} /\ mHeadSeen' = mHeadSeen
      /\ pending' = pending /\ mSeen' = mSeen /\ found' = found /\ frame' = frame
      /\ pClean' = pClean /\ mV1Saved' = mV1Saved /\ newFrames' = newFrames
      /\ tail' = tail /\ head' = head
  BY <1>2 DEF SkipHead, graph, buffers
<1>4. GraphInv' /\ InitialCut' = InitialCut /\ \A P, v : Child(P, v)' = Child(P, v)
  BY <1>1, <1>3, GraphKept DEF graph
<1>5. MinimalInv' /\ FrameInv'
  BY <1>1, <1>3 DEF MinimalInv, FrameInv, IsMinimalCut, IsCut, Side, Reach, Closed
<1>6. BranchInv'
  <2>1. ASSUME NEW e \in frame
        PROVE  e \in rest' \/ head[e] = superSink \/ head[e] \in mHeadSeen
    BY <1>1, <1>2, <1>3 DEF BranchInv
  <2>2. \A P : Side(P)' = Side(P)
    BY <1>3 DEF Side, Reach, Closed
  <2>. QED  BY <1>1, <1>3, <1>4, <2>1, <2>2 DEF BranchInv
<1>7. ClosedInv'
  BY <1>1, <1>3, <1>4 DEF ClosedInv
<1>. QED  BY <1>4, <1>5, <1>6, <1>7 DEF IInv

(* A branch is minimal and its side larger than the frame's; it is dropped only if *)
(* it is in the table.                                                             *)
LEMMA BranchStep ==
    ASSUME IInv, NEW ei \in rest, DropBranch(ei) \/ KeepBranch(ei)
    PROVE  IInv'
<1>. DEFINE v == head[ei]
            C == Child(frame, v)
<1>1. /\ frame # NoFrame /\ ei \in frame /\ IsMinimalCut(frame) /\ frame = Boundary(Side(frame))
      /\ V1New(ei) = Wider(frame, v) /\ Clean(ei) = C /\ mV1Saved = Side(frame)
      /\ IsGraph /\ GraphInv /\ MinimalInv /\ FrameInv /\ BranchInv /\ ClosedInv
  BY CleanIsChild DEF IInv, GraphInv, FrameInv
<1>2. /\ rest' = rest \ {ei} /\ mHeadSeen' = mHeadSeen \cup {v} /\ v # superSink
      /\ pending' = pending /\ mSeen' = mSeen /\ found' = found /\ frame' = frame
      /\ pClean' = pClean /\ mV1Saved' = mV1Saved
      /\ tail' = tail /\ head' = head
  BY DEF DropBranch, KeepBranch, Branches, graph, buffers
<1>3. IsMinimalCut(C) /\ Wider(frame, v) \subseteq Side(C)
  BY <1>1, <1>2, ChildIsMinimal DEF IsMinimalCut
<1>4. C # {} /\ superSink \notin V1New(ei)
  BY <1>1, <1>2, <1>3, MinimalNotEmpty DEF GraphInv, Wider, IsMinimalCut, IsCut, Side
<1>5. \/ newFrames' = newFrames /\ C \in mSeen
      \/ newFrames' = newFrames \cup {C} /\ C \notin mSeen
  BY <1>1, <1>4 DEF DropBranch, KeepBranch
<1>6. GraphInv' /\ InitialCut' = InitialCut /\ \A P, w : Child(P, w)' = Child(P, w)
  BY <1>1, <1>2, GraphKept DEF graph
<1>7. MinimalInv'
  <2>1. ASSUME NEW P \in pending \cup newFrames' \cup found \cup mSeen
        PROVE  IsMinimalCut(P)
    BY <1>1, <1>3, <1>5 DEF MinimalInv
  <2>. QED  BY <1>2, <2>1 DEF MinimalInv, IsMinimalCut, IsCut, Reach, Closed
<1>8. \A P : Side(P)' = Side(P)
  BY <1>2 DEF Side, Reach, Closed
<1>9. FrameInv'
  BY <1>1, <1>2, <1>8 DEF FrameInv
<1>10. BranchInv'
  <2>1. ASSUME NEW e \in frame
        PROVE  e \in rest' \/ head[e] = superSink \/ head[e] \in mHeadSeen'
    BY <1>1, <1>2 DEF BranchInv
  <2>2. ASSUME NEW e \in frame, head[e] \in mHeadSeen', head[e] # superSink
        PROVE  Child(frame, head[e]) \in mSeen \cup newFrames'
    BY <1>1, <1>2, <1>5, <2>2 DEF BranchInv
  <2>3. v \in Side(C) /\ v \notin Side(frame) /\ Side(frame) \subseteq Side(C)
    BY <1>1, <1>3 DEF Wider, Boundary
  <2>4. ASSUME NEW P \in newFrames'
        PROVE  /\ Side(frame) \subseteq Side(P) /\ Side(frame) # Side(P) /\ P \notin mSeen
               /\ \E e \in frame : head[e] # superSink /\ P = Child(frame, head[e])
    BY <1>1, <1>2, <1>5, <2>3 DEF BranchInv
  <2>. QED  BY <1>1, <1>2, <1>6, <1>8, <2>1, <2>2, <2>4 DEF BranchInv
<1>11. ClosedInv'
  BY <1>1, <1>2, <1>6 DEF ClosedInv
<1>. QED  BY <1>6, <1>7, <1>9, <1>10, <1>11 DEF IInv

(* The frame is recorded, and all its branches are in the table or wait. *)
LEMMA RecordStep ==
    ASSUME IInv, Record
    PROVE  IInv'
<1>1. /\ frame # NoFrame /\ rest = {} /\ pClean = frame /\ frame \in mSeen
      /\ GraphInv /\ MinimalInv /\ FrameInv /\ BranchInv /\ ClosedInv
  BY DEF IInv, FrameInv, Record
<1>2. /\ found' = found \cup {frame} /\ pending' = pending \cup newFrames /\ frame' = NoFrame
      /\ mSeen' = mSeen /\ rest' = {} /\ newFrames' = newFrames /\ tail' = tail /\ head' = head
  BY <1>1 DEF Record, graph
<1>3. GraphInv' /\ InitialCut' = InitialCut /\ \A P, w : Child(P, w)' = Child(P, w)
  BY <1>1, <1>2, GraphKept DEF graph
<1>4. MinimalInv'
  BY <1>1, <1>2 DEF MinimalInv, IsMinimalCut, IsCut, Reach, Closed
<1>5. FrameInv' /\ BranchInv'
  BY <1>2 DEF FrameInv, BranchInv, NoFrame
<1>6. ASSUME NEW P \in mSeen
      PROVE  /\ P \in found'
             /\ \A e \in P : head[e] # superSink => Child(P, head[e]) \in mSeen \cup pending'
  <2>1. CASE P = frame
    BY <1>1, <1>2, <2>1 DEF BranchInv
  <2>2. CASE P # frame
    BY <1>1, <1>2, <2>2 DEF ClosedInv
  <2>. QED  BY <2>1, <2>2
<1>7. ClosedInv'
  BY <1>1, <1>2, <1>3, <1>6 DEF ClosedInv
<1>. QED  BY <1>3, <1>4, <1>5, <1>7 DEF IInv

(* run() starts with one frame, the edges out of the super-source. *)
LEMMA InitInv == Init /\ IsMinimalCut(InitialCut) => IInv
<1>. SUFFICES ASSUME Init, IsMinimalCut(InitialCut) PROVE IInv
  OBVIOUS
<1>1. IsGraph
  BY GraphsAssumption DEF Init, IsGraph
<1>. QED  BY <1>1 DEF Init, IInv, GraphInv, MinimalInv, FrameInv, BranchInv, ClosedInv, NoFrame

(* No step of the search breaks the invariant. *)
LEMMA NextInv ==
    ASSUME IInv, [Next]_vars
    PROVE  IInv'
<1>1. ASSUME NEW cut \in pending, Reconstruct(cut)
      PROVE  IInv'
  BY <1>1, ReconstructStep
<1>2. ASSUME NEW ei \in rest, SkipHead(ei) \/ DropBranch(ei) \/ KeepBranch(ei)
      PROVE  IInv'
  BY <1>2, SkipHeadStep, BranchStep
<1>3. CASE Record
  BY <1>3, RecordStep
<1>4. CASE UNCHANGED vars
  <2>1. UNCHANGED <<tail, head, pending, mSeen, found, frame, pClean, mV1Saved, rest, mHeadSeen, newFrames>>
    BY <1>4 DEF vars, graph, buffers
  <2>2. GraphInv' /\ InitialCut' = InitialCut /\ \A P, v : Child(P, v)' = Child(P, v)
    BY <2>1, GraphKept DEF IInv, graph
  <2>3. \A P : Side(P)' = Side(P)
    BY <2>1 DEF Side, Reach, Closed
  <2>4. MinimalInv'
    BY <2>1 DEF IInv, MinimalInv, IsMinimalCut, IsCut, Reach, Closed
  <2>. QED  BY <2>1, <2>2, <2>3, <2>4 DEF IInv, FrameInv, BranchInv, ClosedInv
<1>. QED  BY <1>1, <1>2, <1>3, <1>4 DEF Next

(* In every reachable state. *)
LEMMA InvariantHolds == Spec /\ IsMinimalCut(InitialCut) => []IInv
BY InitInv, NextInv, PTL DEF Spec
-----------------------------------------------------------------------------
(***************************************************************************)
(* What the search finds.                                                  *)
(***************************************************************************)
(* Every cut the search has recorded, has waiting or has branched off is a     *)
(* minimal cut, on every graph.                                                *)
THEOREM SoundCorrect == Spec /\ IsMinimalCut(InitialCut) => []Sound
<1>1. IInv => Sound
  BY DEF IInv, MinimalInv, Sound
<1>. QED  BY <1>1, InvariantHolds, PTL

(* A branch moves at least one vertex to the source side and none back, so that *)
(* the search ends even without the table.                                     *)
THEOREM GrowsCorrect == Spec /\ IsMinimalCut(InitialCut) => []Grows
<1>1. IInv => Grows
  BY DEF IInv, BranchInv, Grows, Branched, Side
<1>. QED  BY <1>1, InvariantHolds, PTL

(* When no frame is left, the table is a family that its branches do not leave. *)
LEMMA FinishedIsComplete ==
    ASSUME IInv, Finished, NEW M, IsMinimalCut(M)
    PROVE  M \in found
<1>1. /\ frame = {} /\ pending = {} /\ IsGraph /\ ClosedInv /\ MinimalInv
      /\ superSink \in Reach({superSource}, {})
  BY DEF Finished, IInv, NoFrame, GraphInv
<1>2. \A P \in mSeen : IsMinimalCut(P) /\ P # {}
  BY <1>1, MinimalNotEmpty DEF MinimalInv
<1>3. BranchClosed(mSeen)
  BY <1>1, <1>2 DEF BranchClosed, ClosedInv
<1>4. M \in mSeen
  BY <1>1, <1>3, GraphsAssumption, FamilyIsComplete
<1>. QED  BY <1>1, <1>2, <1>4 DEF ClosedInv

(* What CutBranch computes from a minimal cut alone are its branches. *)
LEMMA ChildrenOfFrame ==
    ASSUME GraphInv, NEW P, IsMinimalCut(P)
    PROVE  ToSet(Ref!Children(P)) = {Child(P, v) : v \in {head[e] : e \in P} \ {superSink}}
<1>. DEFINE heads == {head[e] : e \in P} \ {superSink}
<1>1. IsGraph /\ P = Boundary(Side(P)) /\ superSink \notin Side(P)
  BY MinimalIsBoundary DEF GraphInv, IsMinimalCut, IsCut, Side
<1>2. Ref!V1(P) = Side(P) /\ \A F, S : Ref!Reach(S, F) = Reach(S, F) /\ Ref!CoReach(S, F) = CoReach(S, F)
  BY DEF Ref!V1, Ref!Reach, Ref!Closed, Ref!CoReach, Ref!CoClosed, Side, Reach, Closed, CoReach, CoClosed
<1>3. Ref!pClean(P) = P /\ Ref!reconstructCut(P)
  BY <1>1, <1>2 DEF Ref!pClean, Ref!reconstructCut, Boundary
<1>4. ASSUME NEW v \in heads
      PROVE  /\ outgoingEdges(v) # {} /\ superSink \notin Ref!V1New(P, v)
             /\ Ref!Branch(P, v) = Child(P, v) /\ Child(P, v) # {}
  <2>1. PICK e \in P : head[e] = v /\ v # superSink
    OBVIOUS
  <2>2. /\ v \in Vertex /\ outgoingEdges(v) # {} /\ superSink \notin Wider(P, v)
        /\ {f \in P \cup outgoingEdges(v) : head[f] \notin Wider(P, v)} = Boundary(Wider(P, v))
        /\ Child(P, v) # {}
    BY <2>1, BranchFacts DEF GraphInv
  <2>3. Reach({v}, Ref!qMask(P, v)) = {v}
    BY <1>1, <2>2, StaysAt DEF Ref!qMask, Ref!outgoingEdges, outgoingEdges
  <2>4. Ref!V1New(P, v) = Wider(P, v)
    BY <1>2, <2>3 DEF Ref!V1New, Wider
  <2>5. Ref!candidates(P, v) = Boundary(Wider(P, v))
    BY <2>2, <2>4 DEF Ref!candidates, Ref!outgoingEdges, outgoingEdges
  <2>6. Ref!Branch(P, v) = Child(P, v)
    BY <1>2, <2>4, <2>5 DEF Ref!Branch, Ref!Clean, Ref!vtMask, Child, Far, Boundary
  <2>. QED  BY <2>2, <2>4, <2>6
<1>5. Ref!BranchHeads(P) = heads
  BY <1>3, <1>4 DEF Ref!BranchHeads, Ref!outgoingEdges, outgoingEdges
<1>6. Ref!ChildHeads(P) = heads
  BY <1>3, <1>4, <1>5 DEF Ref!ChildHeads
<1>7. IsFiniteSet(heads)
  <2>1. heads \subseteq Vertex
    BY <1>1 DEF Boundary, IsGraph
  <2>. QED  BY <2>1, GraphsAssumption, FS_Subset
<1>. DEFINE seq == SetToSeq(heads)
<1>8. ToSet(seq) = heads
  BY <1>7, SetToSeqElements
<1>9. Ref!Children(P) = [i \in DOMAIN seq |-> Ref!Branch(P, seq[i])]
  <2>1. Ref!SetToSeq(heads) = seq
    BY DEF Ref!SetToSeq, SetToSeq, Ref!IsInjective, IsInjective, Ref!Cardinality, Cardinality
  <2>. QED  BY <1>3, <1>6, <2>1 DEF Ref!Children
<1>. HIDE DEF seq
<1>10. ToSet(Ref!Children(P)) = {Ref!Branch(P, seq[i]) : i \in DOMAIN seq}
  BY <1>9 DEF ToSet
<1>11. heads = {seq[i] : i \in DOMAIN seq}
  BY <1>8 DEF ToSet
<1>12. {Ref!Branch(P, seq[i]) : i \in DOMAIN seq} = {Child(P, v) : v \in heads}
  BY <1>4, <1>11
<1>. QED  BY <1>10, <1>12

(* The masks, the buffers and the edge released first make no difference to a branch: *)
(* the frames branched off are those that CutBranch computes from the cut alone.      *)
THEOREM BranchesMatchCorrect == Spec /\ IsMinimalCut(InitialCut) => []BranchesMatch
<1>1. ASSUME IInv, Branched
      PROVE  newFrames = ToSet(Ref!Children(frame)) \ mSeen
  <2>1. /\ frame # NoFrame /\ rest = {} /\ IsMinimalCut(frame) /\ GraphInv /\ BranchInv
    BY <1>1 DEF Branched, IInv, FrameInv, MinimalInv
  <2>2. ToSet(Ref!Children(frame)) = {Child(frame, v) : v \in {head[e] : e \in frame} \ {superSink}}
    BY <2>1, ChildrenOfFrame
  <2>3. \A e \in frame : head[e] # superSink => Child(frame, head[e]) \in mSeen \cup newFrames
    BY <2>1 DEF BranchInv
  <2>4. \A P \in newFrames : P \notin mSeen /\ \E e \in frame : head[e] # superSink /\ P = Child(frame, head[e])
    BY <2>1 DEF BranchInv
  <2>. QED  BY <2>2, <2>3, <2>4
<1>2. IInv => BranchesMatch
  BY <1>1 DEF BranchesMatch
<1>. QED  BY <1>2, InvariantHolds, PTL

(* When no frame is left, every minimal cut of the graph has been recorded. *)
THEOREM CompleteCorrect == Spec /\ IsMinimalCut(InitialCut) => []Complete
<1>1. IInv => Complete
  BY FinishedIsComplete DEF Complete, MinimalCuts
<1>. QED  BY <1>1, InvariantHolds, PTL

(* A graph with one edge out of the super-source, as loadGraphFromFile makes it, *)
(* has a minimal initial cut, whatever else it has.                              *)
THEOREM LoadedStartsMinimal ==
    Init /\ (\E e \in Edge : outgoingEdges(superSource) = {e}) => IsMinimalCut(InitialCut)
<1>. SUFFICES ASSUME Init, NEW e \in Edge, outgoingEdges(superSource) = {e}
              PROVE  IsMinimalCut(InitialCut)
  OBVIOUS
<1>1. IsGraph /\ superSink # superSource
  BY GraphsAssumption DEF Init, IsGraph
<1>2. InitialCut = {e} /\ superSink \in Side({})
  BY DEF InitialCut, Init, Side
<1>3. superSink \notin Side(InitialCut)
  BY <1>1, InitialSide
<1>. QED  BY <1>2, <1>3 DEF IsMinimalCut, IsCut, Side
=============================================================================
