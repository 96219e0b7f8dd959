--------------------------- MODULE MCCutProcessor ---------------------------
(***************************************************************************)
(* The search on all graphs of two families.                               *)
(***************************************************************************)
EXTENDS CutProcessor, FiniteSetsExt

CONSTANT EdgeCount    \* the number of edges

MCEdge == 1 .. EdgeCount

\* A list of arcs, as the pair of functions of a graph.
Graph(arcs) == <<[e \in MCEdge |-> arcs[e][1]], [e \in MCEdge |-> arcs[e][2]]>>

\* What GraphLoader builds: one edge out of the super-source, one into the
\* super-sink, any edges between, whether or not they are on a path.
Inner == {"a", "b", "c", "d"}
InnerArcs == {p \in Inner \X Inner : p[1] # p[2]}
LoadedGraphs ==
    {Graph(SetToSeq(arcs) \o <<<<"s", "a">>, <<"d", "t">>>>) :
        arcs \in kSubset(EdgeCount - 2, InnerArcs)}

\* What GraphBuilder can build beyond that, with every vertex and every edge on
\* a walk from source to sink ("trimmed graph", docs/APDFS_SPECIFICATION.md,
\* 2.1): several edges at the source and at the sink.
BuilderVertex == {"s", "a", "b", "c", "t"}
BuilderArcs ==
    {<<"s", "a">>, <<"s", "b">>, <<"s", "c">>, <<"a", "b">>, <<"b", "a">>, <<"b", "c">>,
     <<"c", "b">>, <<"a", "t">>, <<"b", "t">>, <<"c", "t">>}
BuiltGraphs == {Graph(SetToSeq(arcs)) : arcs \in kSubset(EdgeCount, BuilderArcs)}

G(g) == INSTANCE CutGraph WITH
    Vertex <- BuilderVertex, Edge <- MCEdge, tail <- g[1], head <- g[2],
    superSource <- "s", superSink <- "t"
Trimmed(g) ==
    \A e \in MCEdge : /\ g[1][e] \in G(g)!Reach({"s"}, {})
                      /\ g[2][e] \in G(g)!CoReach({"t"}, {})
TrimmedGraphs == {g \in BuiltGraphs : Trimmed(g)}

MCGraphs == LoadedGraphs \cup TrimmedGraphs
=============================================================================
