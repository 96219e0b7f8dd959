---------------------------- MODULE MCBfsEngine -----------------------------
(***************************************************************************)
(* The searches on graphs of five edges over the source, the sink and two  *)
(* vertices between them that have an edge from the source to one of the   *)
(* two, perhaps twice, and an edge to the sink: cycles, a loop, vertices   *)
(* that are on no path.  A word has three bits, so that the bitsets of     *)
(* four vertices and of five edges are two words with padding.             *)
(***************************************************************************)
EXTENDS BfsMasks

MCVertex == {"s", "a", "b", "t"}
MCEdge == 1 .. 5
MCVertexIndex == "s" :> 0 @@ "a" :> 1 @@ "b" :> 2 @@ "t" :> 3

\* The arcs a graph may have.
Arcs == <<<<"s", "a">>, <<"s", "b">>, <<"a", "b">>, <<"b", "a">>, <<"a", "a">>,
          <<"a", "t">>, <<"b", "t">>>>

MCGraphs ==
    {<<[e \in MCEdge |-> Arcs[g[e]][1]], [e \in MCEdge |-> Arcs[g[e]][2]]>> :
        g \in {f \in [MCEdge -> DOMAIN Arcs] :
                 /\ f[1] = 1 /\ f[5] >= 6
                 /\ \A i, j \in MCEdge : i < j => f[i] < f[j] \/ (f[j] = 1 /\ j = 2)}}
=============================================================================
