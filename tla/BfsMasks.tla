------------------------------ MODULE BfsMasks -------------------------------
(***************************************************************************)
(* BfsEngine on the masks of the code.  Every step of the search is taken  *)
(* together with what it does to the words of the bitsets, which, like the *)
(* masks, are never replaced: they are reset, copied into and set, one bit *)
(* after the other.                                                        *)
(***************************************************************************)
EXTENDS BfsEngine, Bitset

CONSTANT vertexIndex            \* Vertex -> 0 .. the number of vertices - 1

ASSUME IndexAssumption ==
    /\ IsFiniteSet(Vertex) /\ IsFiniteSet(Edge)
    /\ vertexIndex \in [Vertex -> 0 .. Cardinality(Vertex) - 1]
    /\ IsInjective(vertexIndex)
    /\ Edge = 1 .. Cardinality(Edge)

VARIABLES wV1, wVT, wCutMask, wV1Saved

words == <<wV1, wVT, wCutMask, wV1Saved>>

edgeIndex(e) == e - 1           \* edges are numbered from 1 here

MaskInit ==
    /\ Init
    /\ wV1 = DynamicBitset(Cardinality(Vertex)) /\ wVT = wV1 /\ wV1Saved = wV1
    /\ wCutMask = DynamicBitset(Cardinality(Edge))

\* The caller resets the mask of edges and sets the forbidden ones.
Forbid(edges) ==
    wCutMask' = FoldSet(LAMBDA e, b : set(b, edgeIndex(e)), resetAll(wCutMask), edges)

MaskForward(forbidden) ==
    /\ ForwardBfs(forbidden) /\ Forbid(forbidden)
    /\ wV1' = set(resetAll(wV1), vertexIndex[superSource])
    /\ UNCHANGED <<wVT, wV1Saved>>

MaskBackward(forbidden) ==
    /\ BackwardBfs(forbidden) /\ Forbid(forbidden)
    /\ wVT' = set(resetAll(wVT), vertexIndex[superSink])
    /\ UNCHANGED <<wV1, wV1Saved>>

MaskIncremental(ei, forbidden) ==
    /\ IncrementalForwardBfs(ei, forbidden) /\ Forbid(forbidden)
    /\ wV1' = set(copyFrom(wV1, wV1Saved), vertexIndex[head[ei]])
    /\ UNCHANGED <<wVT, wV1Saved>>

MaskDiscover(e) ==
    /\ Discover(e)
    /\ \/ Backward /\ wVT' = set(wVT, vertexIndex[tail[e]]) /\ UNCHANGED wV1
       \/ ~Backward /\ wV1' = set(wV1, vertexIndex[head[e]]) /\ UNCHANGED wVT
    /\ UNCHANGED <<wCutMask, wV1Saved>>

MaskReturn ==
    /\ Return
    /\ wV1Saved' = IF call = "forwardBfs" THEN copyFrom(wV1Saved, wV1) ELSE wV1Saved
    /\ UNCHANGED <<wV1, wVT, wCutMask>>

MaskNext ==
    \/ \E forbidden \in SUBSET Edge : MaskForward(forbidden) \/ MaskBackward(forbidden)
    \/ \E ei \in ToSet(outCutEdges), forbidden \in SUBSET Edge : MaskIncremental(ei, forbidden)
    \/ NextVertex /\ UNCHANGED words
    \/ \E e \in Edge : (SkipForbidden(e) \/ SkipVisited(e)) /\ UNCHANGED words
    \/ \E e \in Edge : MaskDiscover(e)
    \/ MaskReturn

MaskSpec == MaskInit /\ [][MaskNext]_<<vars, words>>
-----------------------------------------------------------------------------
Ascending(s) == \A i, j \in DOMAIN s : i < j => s[i] < s[j]

\* A bitset of n bits has the elements of S, bit by bit and in a loop over the
\* ones, in ascending order, none of them padding.
Holds(b, n, S) ==
    /\ \A i \in 0 .. n - 1 : test(b, i) <=> i \in S
    /\ Ascending(forEachSet(b)) /\ ToSet(forEachSet(b)) = S

\* Whatever calls came before, whose masks share their words with those of this
\* one, the bitsets hold exactly the masks of BfsEngine when a call returns: a
\* test of a bit answers as membership does there.  What the class offers and only
\* tests call (forEachSet, setAll, reset) is right on the same words.
MasksAreSets ==
    ~busy =>
        LET indices(S) == {vertexIndex[v] : v \in S}
            n == Cardinality(Vertex)
            m == Cardinality(Edge)
            cutMask == {edgeIndex(e) : e \in mCutMask}
        IN  /\ Holds(wV1, n, indices(mV1)) /\ Holds(wVT, n, indices(mVT))
            /\ Holds(wV1Saved, n, indices(mV1Saved))
            /\ Holds(wCutMask, m, cutMask)
            /\ Holds(setAll(wCutMask), m, 0 .. m - 1)
            /\ \A i \in cutMask : Holds(reset(wCutMask, i), m, cutMask \ {i})
=============================================================================
