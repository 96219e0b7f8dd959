------------------------------ MODULE CutGraph ------------------------------
(***************************************************************************)
(* Directed graphs with a super-source and a super-sink, reachability that *)
(* avoids a set of edges, and minimal cuts: the vocabulary of the graph    *)
(* algorithms under src/src/cut.  Parallel edges and cycles are allowed.   *)
(* The parameters need not be constants: BfsEngine and CutProcessor        *)
(* instantiate the module for graphs they choose.                          *)
(*                                                                         *)
(* Reachability is the least closed set, so that no definition recurses.   *)
(* The lemmas are the theory the proofs about the search rest on: a cut is *)
(* known by its side, branching widens it, and a family of cuts that has   *)
(* all its branches has every minimal cut.  The last ones count the        *)
(* minimal cuts of a chain of diamonds.                                    *)
(***************************************************************************)
EXTENDS Integers, FiniteSets, Sequences, SequencesExt, FiniteSetTheorems, WellFoundedInduction,
        TLAPS

CONSTANTS
    Vertex, Edge,
    tail, head,               \* Graph::edgeSource and Graph::edgeTarget
    superSource, superSink

\* What the operators below are meant for.
IsGraph ==
    /\ tail \in [Edge -> Vertex]
    /\ head \in [Edge -> Vertex]
    /\ superSource \in Vertex
    /\ superSink \in Vertex
    /\ superSource # superSink

outgoingEdges(v) == {e \in Edge : tail[e] = v}

\* X is closed under the edges outside F, forwards and backwards.
Closed(X, F)   == \A e \in Edge \ F : tail[e] \in X => head[e] \in X
CoClosed(X, F) == \A e \in Edge \ F : head[e] \in X => tail[e] \in X

\* The vertices a breadth-first search visits from S with the edges F
\* forbidden, and the vertices a backward search visits from S.
Reach(S, F) ==
    LET closed == {X \in SUBSET Vertex : S \subseteq X /\ Closed(X, F)}
    IN  {v \in Vertex : \A X \in closed : v \in X}
CoReach(S, F) ==
    LET closed == {X \in SUBSET Vertex : S \subseteq X /\ CoClosed(X, F)}
    IN  {v \in Vertex : \A X \in closed : v \in X}

\* The reference definitions: P separates the sink from the source, and no
\* edge of it can be spared.
IsCut(P) == superSink \notin Reach({superSource}, P)
IsMinimalCut(P) == IsCut(P) /\ \A e \in P : ~IsCut(P \ {e})

\* A minimal cut is the boundary of its source side, so that it is enough to
\* look at the boundaries of sets.
Boundary(X) == {e \in Edge : tail[e] \in X /\ head[e] \notin X}
MinimalCuts == {P \in {Boundary(X) : X \in SUBSET Vertex} : IsMinimalCut(P)}

\* buildInitialFrame
InitialCut == outgoingEdges(superSource)
-----------------------------------------------------------------------------
(***************************************************************************)
(* Reach and CoReach are the least closed sets.                            *)
(***************************************************************************)
(* What can be reached contains the start, and is closed. *)
LEMMA ReachIsClosed ==
    ASSUME IsGraph, NEW S \in SUBSET Vertex, NEW F
    PROVE  /\ S \subseteq Reach(S, F) /\ Reach(S, F) \subseteq Vertex
           /\ Closed(Reach(S, F), F)
<1>1. S \subseteq Reach(S, F) /\ Reach(S, F) \subseteq Vertex
  BY DEF Reach
<1>2. ASSUME NEW e \in Edge \ F, tail[e] \in Reach(S, F)
      PROVE  head[e] \in Reach(S, F)
  <2>1. head[e] \in Vertex
    BY DEF IsGraph
  <2>2. ASSUME NEW X \in SUBSET Vertex, S \subseteq X, Closed(X, F)
        PROVE  head[e] \in X
    BY <1>2, <2>2 DEF Reach, Closed
  <2>. QED  BY <2>1, <2>2 DEF Reach
<1>. QED  BY <1>1, <1>2 DEF Closed

(* No closed set that contains the start lacks any of it. *)
LEMMA ReachIsLeast ==
    ASSUME NEW S, NEW F, NEW X \in SUBSET Vertex, S \subseteq X, Closed(X, F)
    PROVE  Reach(S, F) \subseteq X
BY DEF Reach

(* The same backwards. *)
LEMMA CoReachIsClosed ==
    ASSUME IsGraph, NEW S \in SUBSET Vertex, NEW F
    PROVE  /\ S \subseteq CoReach(S, F) /\ CoReach(S, F) \subseteq Vertex
           /\ CoClosed(CoReach(S, F), F)
<1>1. S \subseteq CoReach(S, F) /\ CoReach(S, F) \subseteq Vertex
  BY DEF CoReach
<1>2. ASSUME NEW e \in Edge \ F, head[e] \in CoReach(S, F)
      PROVE  tail[e] \in CoReach(S, F)
  <2>1. tail[e] \in Vertex
    BY DEF IsGraph
  <2>2. ASSUME NEW X \in SUBSET Vertex, S \subseteq X, CoClosed(X, F)
        PROVE  tail[e] \in X
    BY <1>2, <2>2 DEF CoReach, CoClosed
  <2>. QED  BY <2>1, <2>2 DEF CoReach
<1>. QED  BY <1>1, <1>2 DEF CoClosed

(* No closed set that contains the end lacks any of it. *)
LEMMA CoReachIsLeast ==
    ASSUME NEW S, NEW F, NEW X \in SUBSET Vertex, S \subseteq X, CoClosed(X, F)
    PROVE  CoReach(S, F) \subseteq X
BY DEF CoReach
-----------------------------------------------------------------------------
(***************************************************************************)
(* One branch.                                                             *)
(***************************************************************************)
Side(P) == Reach({superSource}, P)

\* The side that branchFrame starts from, the vertices from which the sink can
\* still be reached, and the cut that cleanToMinimalCut makes of the two.
Wider(P, v) == Side(P) \cup {v}
Far(X)      == CoReach({superSink}, Boundary(X))
Child(P, v) == {e \in Boundary(Wider(P, v)) : head[e] \in Far(Wider(P, v))}

(* What a side is. *)
LEMMA SideFacts ==
    ASSUME IsGraph, NEW P
    PROVE  superSource \in Side(P) /\ Side(P) \subseteq Vertex /\ Closed(Side(P), P)
<1>1. {superSource} \in SUBSET Vertex
  BY DEF IsGraph
<1>. QED  BY <1>1, ReachIsClosed DEF Side

(* No other closed set is smaller. *)
LEMMA SideIsLeast ==
    ASSUME NEW P, NEW X \in SUBSET Vertex, superSource \in X, Closed(X, P)
    PROVE  Side(P) \subseteq X
BY ReachIsLeast DEF Side

(* A minimal cut is the boundary of its side: any other edge could be spared. *)
LEMMA MinimalIsBoundary ==
    ASSUME IsGraph, NEW P, IsMinimalCut(P)
    PROVE  P = Boundary(Side(P))
<1>1. superSource \in Side(P) /\ Side(P) \in SUBSET Vertex /\ Closed(Side(P), P)
  BY SideFacts
<1>2. Boundary(Side(P)) \subseteq P
  BY <1>1 DEF Boundary, Closed
<1>3. ASSUME NEW e \in P, e \notin Boundary(Side(P))
      PROVE  FALSE
  <2>1. Closed(Side(P), P \ {e})
    BY <1>1, <1>3 DEF Boundary, Closed
  <2>2. Side(P \ {e}) \subseteq Side(P)
    BY <1>1, <2>1, SideIsLeast
  <2>3. superSink \in Side(P \ {e}) /\ superSink \notin Side(P)
    BY <1>3 DEF IsMinimalCut, IsCut, Side
  <2>. QED  BY <2>2, <2>3
<1>. QED  BY <1>2, <1>3

(* If the sink can be reached at all, no cut is empty. *)
LEMMA MinimalNotEmpty ==
    ASSUME superSink \in Reach({superSource}, {}), NEW P, IsMinimalCut(P)
    PROVE  P # {}
BY DEF IsMinimalCut, IsCut

(* The part of the graph from which the sink can be reached keeps away from X. *)
LEMMA FarFacts ==
    ASSUME IsGraph, NEW X \in SUBSET Vertex, superSink \notin X
    PROVE  /\ superSink \in Far(X) /\ Far(X) \subseteq Vertex \ X
           /\ CoClosed(Far(X), Boundary(X))
<1>1. {superSink} \in SUBSET Vertex
  BY DEF IsGraph
<1>2. superSink \in Far(X) /\ CoClosed(Far(X), Boundary(X))
  BY <1>1, CoReachIsClosed DEF Far
<1>3. CoClosed(Vertex \ X, Boundary(X)) /\ {superSink} \subseteq Vertex \ X
  BY <1>1 DEF CoClosed, Boundary, IsGraph
<1>4. Far(X) \subseteq Vertex \ X
  BY <1>3, CoReachIsLeast DEF Far
<1>. QED  BY <1>2, <1>4

(* Outside the child cut no edge leads from the rest of the graph to that part. *)
LEMMA NearIsClosed ==
    ASSUME IsGraph, NEW P, NEW v \in Vertex, superSink \notin Wider(P, v)
    PROVE  Closed(Vertex \ Far(Wider(P, v)), Child(P, v))
<1>. DEFINE X == Wider(P, v)
<1>1. X \in SUBSET Vertex
  BY SideFacts DEF Wider
<1>2. CoClosed(Far(X), Boundary(X))
  BY <1>1, FarFacts
<1>3. ASSUME NEW e \in Edge \ Child(P, v), tail[e] \in Vertex \ Far(X)
      PROVE  head[e] \in Vertex \ Far(X)
  BY <1>2, <1>3 DEF CoClosed, Child, IsGraph
<1>. QED  BY <1>3 DEF Closed

(* A branch is a minimal cut again, and its side contains the frame's and v. *)
LEMMA ChildIsMinimal ==
    ASSUME IsGraph, NEW P, IsCut(P), NEW ei \in Boundary(Side(P)), head[ei] # superSink
    PROVE  /\ IsMinimalCut(Child(P, head[ei]))
           /\ Wider(P, head[ei]) \subseteq Side(Child(P, head[ei]))
<1>. DEFINE v == head[ei]
            X == Wider(P, v)
            C == Child(P, v)
<1>1. /\ v \in Vertex /\ X \in SUBSET Vertex /\ superSink \notin X /\ superSource \in X
      /\ Side(P) \in SUBSET Vertex /\ ei \in Edge /\ tail[ei] \in Side(P)
      /\ superSource \in Side(P) /\ Closed(Side(P), P)
  BY SideFacts DEF Boundary, IsGraph, Wider, IsCut, Side
<1>2. /\ superSink \in Far(X) /\ Far(X) \subseteq Vertex \ X
      /\ CoClosed(Far(X), Boundary(X)) /\ Closed(Vertex \ Far(X), C)
  BY <1>1, FarFacts, NearIsClosed
<1>3. C \subseteq Boundary(X) /\ \A e \in C : e \in Edge /\ tail[e] \in X /\ head[e] \notin X
  BY DEF Child, Boundary
<1>4. superSink \notin Side(C)
  <2>1. superSource \in Vertex \ Far(X)
    BY <1>1, <1>2
  <2>2. Side(C) \subseteq Vertex \ Far(X)
    BY <1>2, <2>1, SideIsLeast
  <2>. QED  BY <1>2, <2>2
<1>5. ASSUME NEW D \in SUBSET C
      PROVE  X \subseteq Side(D)
  <2>1. superSource \in Side(D) /\ Side(D) \subseteq Vertex /\ Closed(Side(D), D)
    BY SideFacts
  <2>2. Closed(Side(D) \cap Side(P), P)
    BY <1>1, <1>3, <2>1 DEF Closed, Wider
  <2>3. Side(P) \subseteq Side(D)
    <3>1. Side(D) \cap Side(P) \in SUBSET Vertex /\ superSource \in Side(D) \cap Side(P)
      BY <1>1, <2>1
    <3>. QED  BY <2>2, <3>1, SideIsLeast
  <2>4. ei \notin D
    BY <1>3 DEF Wider
  <2>5. v \in Side(D)
    BY <1>1, <2>1, <2>3, <2>4 DEF Closed
  <2>. QED  BY <2>3, <2>5 DEF Wider
<1>6. ASSUME NEW e \in C
      PROVE  superSink \in Side(C \ {e})
  <2>. DEFINE W == Side(C \ {e})
  <2>1. W \subseteq Vertex /\ Closed(W, C \ {e}) /\ X \subseteq W
    BY <1>5, SideFacts
  <2>2. head[e] \in W /\ head[e] \in Far(X)
    BY <1>3, <2>1 DEF Closed, Child
  <2>3. CoClosed(Vertex \ W, Boundary(X))
    BY <1>3, <2>1 DEF CoClosed, Closed, IsGraph
  <2>4. ASSUME superSink \notin W
        PROVE  FALSE
    <3>1. {superSink} \subseteq Vertex \ W
      BY <2>4 DEF IsGraph
    <3>2. Far(X) \subseteq Vertex \ W
      BY <2>3, <3>1, CoReachIsLeast DEF Far
    <3>. QED  BY <2>2, <3>2
  <2>. QED  BY <2>4
<1>7. IsMinimalCut(C)
  BY <1>4, <1>6 DEF IsMinimalCut, IsCut, Side
<1>. QED  BY <1>5, <1>7

(* A branch on a vertex of a minimal cut's side stays within that side. *)
LEMMA ChildStaysWithin ==
    ASSUME IsGraph, NEW M, IsMinimalCut(M), NEW P, Side(P) \subseteq Side(M), NEW v \in Side(M)
    PROVE  Side(Child(P, v)) \subseteq Side(M)
<1>. DEFINE X == Wider(P, v)
            Near == Vertex \ Far(X)
            K == Side(M) \cap Near
<1>1. /\ X \subseteq Side(M) /\ Side(M) \in SUBSET Vertex /\ superSource \in X
      /\ superSource \in Side(M) /\ Closed(Side(M), M) /\ superSink \notin Side(M)
  BY SideFacts DEF Wider, IsMinimalCut, IsCut, Side
<1>2. /\ superSink \in Far(X) /\ Far(X) \subseteq Vertex \ X
      /\ CoClosed(Far(X), Boundary(X)) /\ Closed(Near, Child(P, v))
  BY <1>1, FarFacts, NearIsClosed
<1>3. ASSUME NEW e \in M
      PROVE  head[e] \notin Near
  <2>1. e \in Edge
    BY MinimalIsBoundary DEF Boundary
  <2>2. ASSUME head[e] \in Near
        PROVE  Closed(Side(M) \cup Near, M \ {e})
    <3>1. ASSUME NEW f \in Edge \ (M \ {e}), tail[f] \in Side(M) \cup Near
          PROVE  head[f] \in Side(M) \cup Near
      <4>1. CASE f = e
        BY <2>2, <4>1
      <4>2. CASE f # e /\ tail[f] \in Side(M)
        BY <1>1, <4>2 DEF Closed
      <4>3. CASE f # e /\ tail[f] \notin Side(M)
        <5>1. f \notin Boundary(X)
          BY <1>1, <4>3 DEF Boundary
        <5>2. tail[f] \notin Far(X)
          BY <3>1, <4>3
        <5>. QED  BY <1>2, <5>1, <5>2 DEF CoClosed, IsGraph
      <4>. QED  BY <3>1, <4>1, <4>2, <4>3
    <3>. QED  BY <3>1 DEF Closed
  <2>3. superSink \in Side(M \ {e})
    BY DEF IsMinimalCut, IsCut, Side
  <2>4. ASSUME head[e] \in Near
        PROVE  FALSE
    <3>1. Side(M \ {e}) \subseteq Side(M) \cup Near
      BY <1>1, <2>2, <2>4, SideIsLeast
    <3>. QED  BY <1>1, <1>2, <2>3, <3>1
  <2>. QED  BY <2>4
<1>4. Closed(K, Child(P, v))
  BY <1>1, <1>2, <1>3 DEF Closed
<1>5. superSource \in K /\ K \in SUBSET Vertex
  BY <1>1, <1>2
<1>6. Side(Child(P, v)) \subseteq K
  BY <1>4, <1>5, SideIsLeast
<1>. QED  BY <1>6

(* Between two minimal cuts an edge of the first leads into the side of the second. *)
LEMMA EdgeWithin ==
    ASSUME IsGraph, NEW P, IsMinimalCut(P), NEW M, IsMinimalCut(M),
           Side(P) \subseteq Side(M), P # M
    PROVE  \E e \in P : head[e] \in Side(M)
<1>. SUFFICES ASSUME \A e \in P : head[e] \notin Side(M)
              PROVE  P = M
  OBVIOUS
<1>1. /\ superSource \in Side(P) /\ Side(P) \in SUBSET Vertex
      /\ Closed(Side(P), P) /\ Closed(Side(M), M)
  BY SideFacts
<1>2. Closed(Side(P), M)
  BY <1>1 DEF Closed
<1>3. Side(M) \subseteq Side(P)
  BY <1>1, <1>2, SideIsLeast
<1>. QED  BY <1>3, MinimalIsBoundary

(* No boundary vertex but the sink is a dead end, and branchFrame skips none for that. *)
LEMMA HeadHasEdges ==
    ASSUME IsGraph, NEW P, IsMinimalCut(P), NEW e \in P, head[e] # superSink
    PROVE  outgoingEdges(head[e]) # {}
<1>. SUFFICES ASSUME outgoingEdges(head[e]) = {}
              PROVE  FALSE
  OBVIOUS
<1>. DEFINE K == Side(P) \cup {head[e]}
<1>1. superSource \in Side(P) /\ Side(P) \in SUBSET Vertex /\ Closed(Side(P), P) /\ e \in Edge
  BY SideFacts, MinimalIsBoundary DEF Boundary
<1>2. Closed(K, P \ {e})
  BY <1>1 DEF Closed, outgoingEdges
<1>3. K \in SUBSET Vertex
  BY <1>1 DEF IsGraph
<1>4. Side(P \ {e}) \subseteq K
  BY <1>1, <1>2, <1>3, SideIsLeast
<1>5. superSink \in Side(P \ {e}) /\ superSink \notin Side(P)
  BY DEF IsMinimalCut, IsCut, Side
<1>. QED  BY <1>4, <1>5

(* The initial cut keeps the source alone. *)
LEMMA InitialSide ==
    ASSUME IsGraph
    PROVE  Side(InitialCut) = {superSource}
<1>1. Closed({superSource}, InitialCut) /\ {superSource} \in SUBSET Vertex
  BY DEF Closed, InitialCut, outgoingEdges, IsGraph
<1>2. Side(InitialCut) \subseteq {superSource}
  BY <1>1, SideIsLeast
<1>. QED  BY <1>2, SideFacts

(* A family of minimal cuts that contains the initial cut and with every cut its *)
(* branches contains all minimal cuts.  Of its members whose side lies within    *)
(* that of a minimal cut, the one with the largest side is that cut, for one of  *)
(* its branches would lie within it too.                                         *)
BranchClosed(K) ==
    /\ InitialCut \in K
    /\ \A P \in K :
          /\ IsMinimalCut(P)
          /\ \A e \in P : head[e] # superSink => Child(P, head[e]) \in K

LEMMA FamilyIsComplete ==
    ASSUME IsGraph, IsFiniteSet(Vertex), NEW K, BranchClosed(K), NEW M, IsMinimalCut(M)
    PROVE  M \in K
<1>. DEFINE Within == {P \in K : Side(P) \subseteq Side(M)}
            left(P) == Cardinality(Vertex \ Side(P))
            T == {left(P) : P \in Within}
<1>2. ASSUME NEW P
      PROVE  left(P) \in Nat /\ IsFiniteSet(Vertex \ Side(P))
  <2>1. IsFiniteSet(Vertex \ Side(P))
    BY FS_Subset
  <2>. QED  BY <2>1, FS_CardinalityType
<1>3. InitialCut \in Within
  BY InitialSide, SideFacts DEF BranchClosed
<1>4. T \subseteq Nat /\ T # {}
  BY <1>2, <1>3
<1>5. PICK n \in T : \A k \in T : ~ (<<k, n>> \in OpToRel(<, Nat))
  BY <1>4, NatLessThanWellFounded, WFMin
<1>6. \A k \in T : ~ (k < n)
  BY <1>4, <1>5 DEF OpToRel
<1>7. PICK P \in Within : n = left(P)
  OBVIOUS
<1>8. IsMinimalCut(P) /\ P \in K
      /\ \A e \in P : head[e] # superSink => Child(P, head[e]) \in K
  BY <1>7 DEF BranchClosed
<1>9. ASSUME P # M
      PROVE  FALSE
  <2>1. PICK e \in P : head[e] \in Side(M)
    BY <1>7, <1>8, <1>9, EdgeWithin
  <2>. DEFINE C == Child(P, head[e])
  <2>2. head[e] # superSink /\ e \in Boundary(Side(P))
    BY <1>8, <2>1, MinimalIsBoundary DEF IsMinimalCut, IsCut, Side
  <2>3. Wider(P, head[e]) \subseteq Side(C)
    BY <1>8, <2>2, ChildIsMinimal DEF IsMinimalCut
  <2>4. Side(C) \subseteq Side(M)
    BY <1>7, <2>1, ChildStaysWithin
  <2>5. C \in Within
    BY <1>8, <2>2, <2>4
  <2>6. left(C) < left(P)
    <3>1. head[e] \in Vertex \ Side(P) /\ head[e] \notin Vertex \ Side(C)
      BY <2>2, <2>3 DEF Boundary, Wider, IsGraph
    <3>2. Vertex \ Side(C) \subseteq Vertex \ Side(P)
      BY <2>3 DEF Wider
    <3>3. left(C) <= left(P) /\ (left(C) = left(P) => Vertex \ Side(C) = Vertex \ Side(P))
      BY <1>2, <3>2, FS_Subset
    <3>. QED  BY <1>2, <3>1, <3>3
  <2>. QED  BY <1>6, <1>7, <2>5, <2>6
<1>. QED  BY <1>8, <1>9

(* With the edges out of v forbidden, a search from v visits v alone. *)
LEMMA StaysAt ==
    ASSUME IsGraph, NEW v \in Vertex, NEW F, outgoingEdges(v) \subseteq F
    PROVE  Reach({v}, F) = {v}
<1>1. Closed({v}, F)
  BY DEF Closed, outgoingEdges
<1>2. Reach({v}, F) \subseteq {v}
  BY <1>1, ReachIsLeast
<1>3. {v} \subseteq Reach({v}, F)
  BY ReachIsClosed
<1>. QED  BY <1>2, <1>3

(* On a head v of a minimal cut other than the sink branchFrame drops nothing:   *)
(* the candidates are the boundary of the wider side, the sink stays outside, and *)
(* neither v's edges nor the edges of the branch are missing.                     *)
LEMMA BranchFacts ==
    ASSUME IsGraph, superSink \in Reach({superSource}, {}), NEW P, IsMinimalCut(P),
           NEW ei \in P, head[ei] # superSink
    PROVE  /\ head[ei] \in Vertex /\ outgoingEdges(head[ei]) # {}
           /\ superSink \notin Wider(P, head[ei])
           /\ {e \in P \cup outgoingEdges(head[ei]) : head[e] \notin Wider(P, head[ei])}
                 = Boundary(Wider(P, head[ei]))
           /\ Child(P, head[ei]) # {}
<1>. DEFINE v == head[ei]
<1>1. P = Boundary(Side(P)) /\ superSink \notin Side(P)
  BY MinimalIsBoundary DEF IsMinimalCut, IsCut, Side
<1>2. outgoingEdges(v) # {} /\ v \in Vertex
  BY <1>1, HeadHasEdges DEF Boundary, IsGraph
<1>3. {e \in P \cup outgoingEdges(v) : head[e] \notin Wider(P, v)} = Boundary(Wider(P, v))
  BY <1>1 DEF outgoingEdges, Boundary, Wider
<1>4. Child(P, v) # {}
  BY <1>1, ChildIsMinimal, MinimalNotEmpty DEF IsMinimalCut
<1>. QED  BY <1>1, <1>2, <1>3, <1>4 DEF Wider

(***************************************************************************)
(* Chains of diamonds.                                                     *)
(***************************************************************************)
\* k diamonds behind one another, the i-th with edges 4i + 1 .. 4i + 4 from vertex 3i to
\* 3i + 3; an edge from the super-source to the first vertex, one from the last to the
\* super-sink.
IsChain(k) ==
    /\ IsGraph /\ Vertex = 0 .. 3 * k + 2 /\ Edge = 1 .. 4 * k + 2
    /\ superSource = 3 * k + 1 /\ superSink = 3 * k + 2
    /\ tail[4 * k + 1] = 3 * k + 1 /\ head[4 * k + 1] = 0
    /\ tail[4 * k + 2] = 3 * k     /\ head[4 * k + 2] = 3 * k + 2
    /\ \A i \in 0 .. k - 1 :
          /\ tail[4 * i + 1] = 3 * i     /\ head[4 * i + 1] = 3 * i + 1
          /\ tail[4 * i + 2] = 3 * i     /\ head[4 * i + 2] = 3 * i + 2
          /\ tail[4 * i + 3] = 3 * i + 1 /\ head[4 * i + 3] = 3 * i + 3
          /\ tail[4 * i + 4] = 3 * i + 2 /\ head[4 * i + 4] = 3 * i + 3

\* P has an edge of both branches of the i-th diamond.
Broken(P, i) ==
    /\ 4 * i + 1 \in P \/ 4 * i + 3 \in P
    /\ 4 * i + 2 \in P \/ 4 * i + 4 \in P

BreaksChain(P, k) == 4 * k + 1 \in P \/ 4 * k + 2 \in P \/ \E i \in 0 .. k - 1 : Broken(P, i)

(* Every edge has its place in the chain. *)
LEMMA ChainEdges ==
    ASSUME NEW k \in Nat, NEW e \in 1 .. 4 * k + 2
    PROVE  \/ e = 4 * k + 1 \/ e = 4 * k + 2
           \/ \E i \in 0 .. k - 1 : e \in {4 * i + 1, 4 * i + 2, 4 * i + 3, 4 * i + 4}
<1>. DEFINE i == (e - 1) \div 4
            r == (e - 1) % 4
<1>1. CASE e <= 4 * k
  <2>1. i \in Nat /\ r \in 0 .. 3 /\ e - 1 = (4 * i) + r
    OBVIOUS
  <2>. HIDE DEF i, r
  <2>2. i \in 0 .. k - 1
    BY <1>1, <2>1
  <2>3. e \in {4 * i + 1, 4 * i + 2, 4 * i + 3, 4 * i + 4}
    BY <2>1
  <2>. QED  BY <2>2, <2>3
<1>2. CASE ~ (e <= 4 * k)
  BY <1>2
<1>. QED  BY <1>1, <1>2

(* With a branch of every diamond whole, each reaches the next. *)
LEMMA WholeChainReaches ==
    ASSUME NEW k \in Nat, IsChain(k), NEW P, ~ BreaksChain(P, k)
    PROVE  ~ IsCut(P)
<1>. DEFINE R == Side(P)
            missed == {i \in 0 .. k : 3 * i \notin R}
<1>1. superSource \in R /\ Closed(R, P)
  BY SideFacts DEF IsChain
<1>. HIDE DEF R
<1>2. \A e \in Edge : e \notin P /\ tail[e] \in R => head[e] \in R
  BY <1>1 DEF Closed
<1>3. 0 \in R
  <2>1. 4 * k + 1 \in Edge /\ 4 * k + 1 \notin P
    BY DEF IsChain, BreaksChain
  <2>. QED  BY <1>1, <1>2, <2>1 DEF IsChain
<1>4. ASSUME NEW i \in 0 .. k - 1, 3 * i \in R
      PROVE  3 * i + 3 \in R
  <2>1. /\ 4 * i + 1 \in Edge /\ 4 * i + 2 \in Edge /\ 4 * i + 3 \in Edge /\ 4 * i + 4 \in Edge
    BY DEF IsChain
  <2>2. ~ Broken(P, i)
    BY DEF BreaksChain
  <2>3. CASE 4 * i + 1 \notin P /\ 4 * i + 3 \notin P
    <3>1. 3 * i + 1 \in R
      BY <1>2, <1>4, <2>1, <2>3 DEF IsChain
    <3>. QED  BY <1>2, <2>1, <2>3, <3>1 DEF IsChain
  <2>4. CASE 4 * i + 2 \notin P /\ 4 * i + 4 \notin P
    <3>1. 3 * i + 2 \in R
      BY <1>2, <1>4, <2>1, <2>4 DEF IsChain
    <3>. QED  BY <1>2, <2>1, <2>4, <3>1 DEF IsChain
  <2>. QED  BY <2>2, <2>3, <2>4 DEF Broken
<1>5. missed = {}
  <2>. SUFFICES ASSUME missed # {} PROVE FALSE
    OBVIOUS
  <2>1. missed \subseteq Nat
    OBVIOUS
  <2>2. PICK i \in missed : \A j \in missed : ~ (<<j, i>> \in OpToRel(<, Nat))
    BY <2>1, NatLessThanWellFounded, WFMin
  <2>3. \A j \in missed : ~ (j < i)
    BY <2>1, <2>2 DEF OpToRel
  <2>4. i # 0 /\ i - 1 \in 0 .. k - 1 /\ i - 1 < i /\ 3 * i = 3 * (i - 1) + 3
    BY <1>3
  <2>5. 3 * (i - 1) \in R
    BY <2>3, <2>4
  <2>6. 3 * i \in R
    BY <1>4, <2>4, <2>5
  <2>. QED  BY <2>6
<1>6. 3 * k \in R
  <2>1. k \in 0 .. k /\ k \notin missed
    BY <1>5
  <2>. QED  BY <2>1
<1>7. superSink \in R
  <2>1. 4 * k + 2 \in Edge /\ 4 * k + 2 \notin P
    BY DEF IsChain, BreaksChain
  <2>. QED  BY <1>2, <1>6, <2>1 DEF IsChain
<1>. QED  BY <1>7 DEF R, IsCut, Side

(* A set that the source is in, the sink is not, and no edge leaves, makes a cut. *)
LEMMA ClosedMakesCut ==
    ASSUME IsGraph, NEW P, NEW X \in SUBSET Vertex, superSource \in X, superSink \notin X, Closed(X, P)
    PROVE  IsCut(P)
  BY SideIsLeast DEF Side, IsCut

(* Edges of both branches of a diamond separate what is before from what is after. *)
LEMMA BrokenChainCuts ==
    ASSUME NEW k \in Nat, IsChain(k), NEW P, BreaksChain(P, k)
    PROVE  IsCut(P)
<1>1. IsGraph /\ superSource \in Vertex /\ superSink \in Vertex
  BY DEF IsChain, IsGraph
<1>2. CASE 4 * k + 1 \in P
  <2>1. ASSUME NEW e \in Edge \ P
        PROVE  tail[e] # superSource
    <3>1. e \in 1 .. 4 * k + 2
      BY DEF IsChain
    <3>2. CASE e = 4 * k + 1
      BY <1>2, <3>2
    <3>3. CASE e = 4 * k + 2
      BY <3>3 DEF IsChain
    <3>4. ASSUME NEW i \in 0 .. k - 1, e \in {4 * i + 1, 4 * i + 2, 4 * i + 3, 4 * i + 4}
          PROVE  tail[e] # superSource
      <4>1. tail[e] \in {3 * i, 3 * i + 1, 3 * i + 2}
        BY <3>4 DEF IsChain
      <4>2. superSource = 3 * k + 1 /\ i <= k - 1
        BY DEF IsChain
      <4>. QED  BY <4>1, <4>2
    <3>. QED  BY <3>1, <3>2, <3>3, <3>4, ChainEdges
  <2>2. Closed({superSource}, P)
    BY <2>1 DEF Closed
  <2>3. superSink # superSource
    BY <1>1 DEF IsGraph
  <2>. QED  BY <1>1, <2>2, <2>3, ClosedMakesCut
<1>3. CASE 4 * k + 2 \in P
  <2>. DEFINE X == Vertex \ {superSink}
  <2>1. ASSUME NEW e \in Edge \ P
        PROVE  head[e] # superSink
    <3>1. e \in 1 .. 4 * k + 2
      BY DEF IsChain
    <3>2. CASE e = 4 * k + 2
      BY <1>3, <3>2
    <3>3. CASE e = 4 * k + 1
      BY <3>3 DEF IsChain
    <3>4. ASSUME NEW i \in 0 .. k - 1, e \in {4 * i + 1, 4 * i + 2, 4 * i + 3, 4 * i + 4}
          PROVE  head[e] # superSink
      <4>1. head[e] \in {3 * i + 1, 3 * i + 2, 3 * i + 3}
        BY <3>4 DEF IsChain
      <4>2. superSink = 3 * k + 2 /\ i <= k - 1
        BY DEF IsChain
      <4>. QED  BY <4>1, <4>2
    <3>. QED  BY <3>1, <3>2, <3>3, <3>4, ChainEdges
  <2>2. Closed(X, P)
    BY <1>1, <2>1 DEF Closed, IsGraph
  <2>3. superSource \in X /\ X \in SUBSET Vertex
    BY <1>1 DEF IsGraph
  <2>. QED  BY <1>1, <2>2, <2>3, ClosedMakesCut
<1>4. ASSUME NEW i \in 0 .. k - 1, Broken(P, i)
      PROVE  IsCut(P)
  <2>. DEFINE X == {v \in Vertex : \/ v <= 3 * i \/ v = 3 * k + 1
                                   \/ v = 3 * i + 1 /\ 4 * i + 1 \notin P
                                   \/ v = 3 * i + 2 /\ 4 * i + 2 \notin P}
  <2>1. superSource \in X /\ superSink \notin X
    BY <1>1 DEF IsChain
  <2>2. ASSUME NEW e \in Edge \ P, tail[e] \in X
        PROVE  head[e] \in X
    <3>1. e \in 1 .. 4 * k + 2 /\ head[e] \in Vertex
      BY <1>1 DEF IsChain, IsGraph
    <3>2. CASE e = 4 * k + 1
      BY <3>1, <3>2 DEF IsChain
    <3>3. CASE e = 4 * k + 2
      BY <2>2, <3>3 DEF IsChain
    <3>4. ASSUME NEW j \in 0 .. k - 1, e \in {4 * j + 1, 4 * j + 2, 4 * j + 3, 4 * j + 4}
          PROVE  head[e] \in X
      <4>1. CASE j < i
        <5>1. head[e] \in {3 * j + 1, 3 * j + 2, 3 * j + 3}
          BY <3>4 DEF IsChain
        <5>2. head[e] <= 3 * i
          BY <4>1, <5>1
        <5>. QED  BY <3>1, <5>2
      <4>2. CASE j = i
        <5>1. CASE e = 4 * i + 1
          BY <3>1, <4>2, <5>1 DEF IsChain
        <5>2. CASE e = 4 * i + 2
          BY <3>1, <4>2, <5>2 DEF IsChain
        <5>3. CASE e = 4 * i + 3
          <6>1. tail[e] = 3 * i + 1 /\ 4 * i + 3 \notin P
            BY <5>3 DEF IsChain
          <6>2. 4 * i + 1 \notin P
            BY <2>2, <6>1
          <6>. QED  BY <1>4, <6>1, <6>2 DEF Broken
        <5>4. CASE e = 4 * i + 4
          <6>1. tail[e] = 3 * i + 2 /\ 4 * i + 4 \notin P
            BY <5>4 DEF IsChain
          <6>2. 4 * i + 2 \notin P
            BY <2>2, <6>1
          <6>. QED  BY <1>4, <6>1, <6>2 DEF Broken
        <5>. QED  BY <3>4, <4>2, <5>1, <5>2, <5>3, <5>4
      <4>3. CASE j > i
        <5>1. tail[e] \in {3 * j, 3 * j + 1, 3 * j + 2}
          BY <3>4 DEF IsChain
        <5>2. tail[e] > 3 * i + 2 /\ tail[e] < 3 * k
          BY <4>3, <5>1
        <5>3. ~ (tail[e] <= 3 * i) /\ tail[e] # 3 * k + 1 /\ tail[e] # 3 * i + 1
              /\ tail[e] # 3 * i + 2
          <6>1. tail[e] \in Int
            BY <5>1
          <6>. DEFINE t == tail[e]
          <6>. HIDE DEF t
          <6>2. t \in Int /\ t > 3 * i + 2 /\ t < 3 * k
            BY <5>2, <6>1 DEF t
          <6>3. ~ (t <= 3 * i) /\ t # 3 * k + 1 /\ t # 3 * i + 1 /\ t # 3 * i + 2
            BY <6>2
          <6>. QED  BY <6>3 DEF t
        <5>. QED  BY <2>2, <5>3
      <4>. QED  BY <4>1, <4>2, <4>3
    <3>. QED  BY <3>1, <3>2, <3>3, <3>4, ChainEdges
  <2>3. Closed(X, P) /\ X \in SUBSET Vertex
    BY <2>2 DEF Closed
  <2>. HIDE DEF X
  <2>. QED  BY <1>1, <2>1, <2>3, ClosedMakesCut
<1>. QED  BY <1>2, <1>3, <1>4 DEF BreaksChain

\* One edge of each branch of the i-th diamond, in four ways.
OneOfEach(i, r) == {4 * i + (IF r < 2 THEN 1 ELSE 3), 4 * i + (IF r \in {0, 2} THEN 2 ELSE 4)}

\* The minimal cuts, numbered.
ChainCut(k, j) == IF j > 4 * k THEN {j} ELSE OneOfEach((j - 1) \div 4, (j - 1) % 4)

(* The first 4k are four for every diamond. *)
LEMMA DiamondCut ==
    ASSUME NEW k \in Nat, NEW j \in 1 .. 4 * k
    PROVE  \E i \in 0 .. k - 1 : \E r \in 0 .. 3 :
              j = (4 * i) + r + 1 /\ ChainCut(k, j) = OneOfEach(i, r)
<1>. DEFINE i == (j - 1) \div 4
            r == (j - 1) % 4
<1>1. i \in Nat /\ r \in 0 .. 3 /\ j - 1 = (4 * i) + r
  OBVIOUS
<1>2. ChainCut(k, j) = OneOfEach(i, r)
  BY DEF ChainCut
<1>. HIDE DEF i, r
<1>3. i \in 0 .. k - 1 /\ j = (4 * i) + r + 1
  BY <1>1
<1>. QED  BY <1>1, <1>2, <1>3

(* The other way round. *)
LEMMA DiamondCutNumber ==
    ASSUME NEW k \in Nat, NEW i \in 0 .. k - 1, NEW r \in 0 .. 3
    PROVE  (4 * i) + r + 1 \in 1 .. 4 * k /\ ChainCut(k, (4 * i) + r + 1) = OneOfEach(i, r)
<1>. DEFINE j == (4 * i) + r + 1
<1>1. j \in 1 .. 4 * k
  OBVIOUS
<1>2. (j - 1) \div 4 = i /\ (j - 1) % 4 = r
  OBVIOUS
<1>3. ~ (j > 4 * k)
  BY <1>1
<1>. HIDE DEF j
<1>4. ChainCut(k, j) = OneOfEach((j - 1) \div 4, (j - 1) % 4)
  BY <1>3 DEF ChainCut
<1>5. ChainCut(k, j) = OneOfEach(i, r)
  BY <1>2, <1>4
<1>. QED  BY <1>1, <1>5 DEF j

(* Each of them breaks the chain, and without any of its edges does not. *)
LEMMA ChainCutBreaks ==
    ASSUME NEW k \in Nat, NEW j \in 1 .. 4 * k + 2
    PROVE  /\ BreaksChain(ChainCut(k, j), k)
           /\ \A e \in ChainCut(k, j) : ~ BreaksChain(ChainCut(k, j) \ {e}, k)
<1>1. CASE j > 4 * k
  <2>1. j \in {4 * k + 1, 4 * k + 2} /\ ChainCut(k, j) = {j}
    BY <1>1 DEF ChainCut
  <2>. QED  BY <2>1 DEF BreaksChain, Broken
<1>2. CASE ~ (j > 4 * k)
  <2>1. PICK i \in 0 .. k - 1, r \in 0 .. 3 : ChainCut(k, j) = OneOfEach(i, r)
    BY <1>2, DiamondCut
  <2>2. \E a \in {1, 3}, b \in {2, 4} : OneOfEach(i, r) = {4 * i + a, 4 * i + b}
    BY DEF OneOfEach
  <2>3. PICK a \in {1, 3}, b \in {2, 4} : ChainCut(k, j) = {4 * i + a, 4 * i + b}
    BY <2>1, <2>2
  <2>4. Broken({4 * i + a, 4 * i + b}, i)
    BY DEF Broken
  <2>5. ASSUME NEW x \in {4 * i + a, 4 * i + b}
        PROVE  ~ BreaksChain({x}, k)
    <3>1. x \in Nat /\ x < 4 * k + 1
      BY <2>5
    <3>2. ASSUME NEW l \in 0 .. k - 1
          PROVE  ~ Broken({x}, l)
      BY <3>1 DEF Broken
    <3>. QED  BY <3>1, <3>2 DEF BreaksChain
  <2>6. \A e \in {4 * i + a, 4 * i + b} :
           {4 * i + a, 4 * i + b} \ {e} \in {{4 * i + a}, {4 * i + b}}
    OBVIOUS
  <2>. QED  BY <2>3, <2>4, <2>5, <2>6 DEF BreaksChain
<1>. QED  BY <1>1, <1>2

(* Whatever breaks the chain contains one. *)
LEMMA BreaksByChainCut ==
    ASSUME NEW k \in Nat, NEW P, BreaksChain(P, k)
    PROVE  \E j \in 1 .. 4 * k + 2 : ChainCut(k, j) \subseteq P
<1>1. CASE 4 * k + 1 \in P
  <2>1. ChainCut(k, 4 * k + 1) = {4 * k + 1} /\ 4 * k + 1 \in 1 .. 4 * k + 2
    BY DEF ChainCut
  <2>. QED  BY <1>1, <2>1
<1>2. CASE 4 * k + 2 \in P
  <2>1. ChainCut(k, 4 * k + 2) = {4 * k + 2} /\ 4 * k + 2 \in 1 .. 4 * k + 2
    BY DEF ChainCut
  <2>. QED  BY <1>2, <2>1
<1>3. ASSUME NEW i \in 0 .. k - 1, Broken(P, i)
      PROVE  \E j \in 1 .. 4 * k + 2 : ChainCut(k, j) \subseteq P
  <2>1. \E r \in 0 .. 3 : OneOfEach(i, r) \subseteq P
    <3>1. /\ OneOfEach(i, 0) = {4 * i + 1, 4 * i + 2} /\ OneOfEach(i, 1) = {4 * i + 1, 4 * i + 4}
          /\ OneOfEach(i, 2) = {4 * i + 3, 4 * i + 2} /\ OneOfEach(i, 3) = {4 * i + 3, 4 * i + 4}
      BY DEF OneOfEach
    <3>. QED  BY <1>3, <3>1 DEF Broken
  <2>2. PICK r \in 0 .. 3 : OneOfEach(i, r) \subseteq P
    BY <2>1
  <2>3. (4 * i) + r + 1 \in 1 .. 4 * k /\ ChainCut(k, (4 * i) + r + 1) = OneOfEach(i, r)
    BY DiamondCutNumber
  <2>4. 1 .. 4 * k \subseteq 1 .. 4 * k + 2
    OBVIOUS
  <2>. QED  BY <2>2, <2>3, <2>4
<1>. QED  BY <1>1, <1>2, <1>3 DEF BreaksChain

(* No two of them are the same. *)
LEMMA ChainCutsDiffer ==
    ASSUME NEW k \in Nat, NEW j \in 1 .. 4 * k + 2, NEW l \in 1 .. 4 * k + 2,
           ChainCut(k, j) = ChainCut(k, l)
    PROVE  j = l
<1>1. ASSUME NEW m \in 1 .. 4 * k + 2
      PROVE  \/ m > 4 * k /\ ChainCut(k, m) = {m}
             \/ \E i \in 0 .. k - 1 : \E r \in 0 .. 3 :
                   m = (4 * i) + r + 1 /\ ChainCut(k, m) = OneOfEach(i, r)
  <2>1. CASE m > 4 * k
    BY <2>1 DEF ChainCut
  <2>2. CASE ~ (m > 4 * k)
    <3>1. m \in 1 .. 4 * k
      BY <2>2
    <3>. QED  BY <3>1, DiamondCut
  <2>. QED  BY <2>1, <2>2
<1>2. ASSUME NEW i \in 0 .. k - 1, NEW r \in 0 .. 3
      PROVE  /\ \A x \in OneOfEach(i, r) : x \in Nat /\ x <= 4 * k
             /\ 4 * i + 1 \in OneOfEach(i, r) <=> r \in {0, 1}
             /\ 4 * i + 3 \in OneOfEach(i, r) <=> r \in {2, 3}
             /\ 4 * i + 2 \in OneOfEach(i, r) <=> r \in {0, 2}
             /\ 4 * i + 4 \in OneOfEach(i, r) <=> r \in {1, 3}
             /\ \A h \in 0 .. k - 1 : h # i =>
                   /\ 4 * h + 1 \notin OneOfEach(i, r) /\ 4 * h + 2 \notin OneOfEach(i, r)
                   /\ 4 * h + 3 \notin OneOfEach(i, r) /\ 4 * h + 4 \notin OneOfEach(i, r)
  BY DEF OneOfEach
<1>3. CASE j > 4 * k /\ ChainCut(k, j) = {j}
  <2>1. ASSUME NEW i \in 0 .. k - 1, NEW r \in 0 .. 3, ChainCut(k, l) = OneOfEach(i, r)
        PROVE  FALSE
    <3>1. j \in OneOfEach(i, r)
      BY <1>3, <2>1
    <3>2. j <= 4 * k
      BY <1>2, <3>1
    <3>. QED  BY <1>3, <3>2
  <2>. QED  BY <1>1, <1>3, <2>1
<1>4. ASSUME NEW i \in 0 .. k - 1, NEW r \in 0 .. 3,
             j = (4 * i) + r + 1, ChainCut(k, j) = OneOfEach(i, r)
      PROVE  j = l
  <2>1. CASE l > 4 * k /\ ChainCut(k, l) = {l}
    BY <1>2, <1>4, <2>1
  <2>2. ASSUME NEW h \in 0 .. k - 1, NEW q \in 0 .. 3,
               l = (4 * h) + q + 1, ChainCut(k, l) = OneOfEach(h, q)
        PROVE  j = l
    <3>1. OneOfEach(h, q) = OneOfEach(i, r)
      BY <1>4, <2>2
    <3>2. h = i
      BY <1>2, <3>1
    <3>3. q = r
      BY <1>2, <3>1, <3>2
    <3>. QED  BY <1>4, <2>2, <3>2, <3>3
  <2>. QED  BY <1>1, <2>1, <2>2
<1>. QED  BY <1>1, <1>3, <1>4

(* A chain of k diamonds has 4k + 2 minimal cuts: each of the two edges of the  *)
(* super-vertices, and one edge of each branch of one diamond in four ways.     *)
LEMMA ChainHasCuts ==
    ASSUME NEW k \in Nat, IsChain(k)
    PROVE  Cardinality(MinimalCuts) = 4 * k + 2
<1>. DEFINE n == 4 * k + 2
            f == [j \in 1 .. n |-> ChainCut(k, j)]
<1>1. \A P : IsCut(P) <=> BreaksChain(P, k)
  BY WholeChainReaches, BrokenChainCuts
<1>2. ASSUME NEW j \in 1 .. n
      PROVE  ChainCut(k, j) \in MinimalCuts
  <2>1. IsMinimalCut(ChainCut(k, j))
    BY <1>1, ChainCutBreaks DEF IsMinimalCut
  <2>2. ChainCut(k, j) = Boundary(Side(ChainCut(k, j)))
    BY <2>1, MinimalIsBoundary DEF IsChain
  <2>3. Side(ChainCut(k, j)) \in SUBSET Vertex
    BY SideFacts DEF IsChain
  <2>. QED  BY <2>1, <2>2, <2>3 DEF MinimalCuts
<1>3. ASSUME NEW P \in MinimalCuts
      PROVE  \E j \in 1 .. n : P = ChainCut(k, j)
  <2>1. IsMinimalCut(P)
    BY DEF MinimalCuts
  <2>2. BreaksChain(P, k) /\ \A e \in P : ~ IsCut(P \ {e})
    BY <1>1, <2>1 DEF IsMinimalCut
  <2>3. PICK j \in 1 .. n : ChainCut(k, j) \subseteq P
    BY <2>2, BreaksByChainCut
  <2>4. ASSUME NEW e \in P, e \notin ChainCut(k, j)
        PROVE  FALSE
    <3>1. ChainCut(k, j) \subseteq P \ {e}
      BY <2>3, <2>4
    <3>2. BreaksChain(ChainCut(k, j), k)
      BY ChainCutBreaks
    <3>3. BreaksChain(P \ {e}, k)
      BY <3>1, <3>2 DEF BreaksChain, Broken
    <3>. QED  BY <1>1, <2>2, <2>4, <3>3
  <2>. QED  BY <2>3, <2>4
<1>4. f \in Bijection(1 .. n, MinimalCuts)
  <2>1. f \in [1 .. n -> MinimalCuts]
    BY <1>2
  <2>2. \A j, l \in 1 .. n : f[j] = f[l] => j = l
    BY ChainCutsDiffer
  <2>3. \A P \in MinimalCuts : \E j \in 1 .. n : f[j] = P
    BY <1>3
  <2>. HIDE DEF f
  <2>. QED  BY <2>1, <2>2, <2>3 DEF Bijection, Injection, Surjection, IsInjective
<1>5. ExistsBijection(1 .. n, MinimalCuts)
  BY <1>4 DEF ExistsBijection
<1>. QED  BY <1>5, FS_CountingElements
=============================================================================
