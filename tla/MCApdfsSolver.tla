--------------------------- MODULE MCApdfsSolver ----------------------------
(***************************************************************************)
(* The solver on small graphs.  A cut is a number; TLC computes the table  *)
(* of cuts and branches from the graph and compares (TableAssumption).     *)
(***************************************************************************)
EXTENDS GraphSearch

\* What the theorem about FindsMinimalCuts supposes of a graph.
ASSUME GraphsStartMinimal == StartsMinimal

\* Steps that can also be entered further down: four cuts, the last of them
\* reached from every other.  The branch that leads to all of them is the last
\* one of the initial cut, so that thieves and the spill buffer get its frame.
StepsVertex     == {"s", "a", "b", "c", "t"}
StepsTail       == <<"s", "s", "s", "b", "c", "a">>
StepsHead       == <<"a", "b", "c", "a", "b", "t">>
StepsCut        == 1 .. 4
StepsEdges      == <<{1, 2, 3}, {1, 2, 5}, {1, 4}, {6}>>
StepsCandidates == <<<<4, 3, 2>>, <<4, 3>>, <<4>>, <<>>>>

\* Paths that cross: cuts of two and of three edges, reached by one to three
\* branches.
LadderVertex     == {"s", "a", "b", "c", "t"}
LadderTail       == <<"s", "s", "a", "a", "b", "c", "c">>
LadderHead       == <<"a", "b", "c", "t", "c", "t", "b">>
LadderCut        == 1 .. 6
LadderEdges      == <<{1, 2}, {1, 5}, {1, 6}, {4, 6}, {2, 3, 4}, {3, 4, 5}>>
LadderCandidates == <<<<5, 2>>, <<3, 6>>, <<4>>, <<>>, <<4, 6>>, <<4>>>>

\* Funnels within a funnel: the branch on a vertex behind others takes these
\* to the source side with it, so that one branch of a cut is soon exhausted
\* and another still has work to share.
FunnelVertex     == {"s", "a", "b", "c", "d", "g", "h", "t"}
FunnelTail       == <<"s", "s", "g", "g", "b", "b", "c", "d", "h", "a">>
FunnelHead       == <<"a", "g", "h", "b", "c", "d", "d", "h", "a", "t">>
FunnelCut        == 1 .. 7
FunnelEdges      == <<{1, 2}, {1, 3, 4}, {1, 9}, {1, 3, 5, 6}, {1, 3, 6, 7}, {1, 3, 8}, {10}>>
FunnelCandidates == <<<<7, 2>>, <<7, 3, 4>>, <<7>>, <<7, 3, 5, 6>>, <<7, 3, 6>>, <<7, 3>>, <<>>>>

\* The same with a wide gate in front and a long channel behind: four large
\* cuts early in the search, and enough others to exceed any limit.
SluiceVertex     == {"s", "a", "b", "c", "d", "g", "h", "i", "j", "k", "t"}
SluiceTail       == <<"s", "s", "s", "s", "g", "g", "g", "b", "c", "d", "h", "i", "j", "k", "a">>
SluiceHead       == <<"a", "g", "g", "g", "d", "d", "b", "c", "h", "h", "i", "j", "k", "a", "t">>
SluiceCut        == 1 .. 12
SluiceEdges      == <<{1, 2, 3, 4}, {15}, {1, 5, 6, 7}, {1, 7, 10}, {1, 5, 6, 8}, {1, 8, 10},
                      {1, 11}, {1, 5, 6, 9}, {1, 9, 10}, {1, 12}, {1, 13}, {1, 14}>>
SluiceCandidates == <<<<2, 3>>, <<>>, <<2, 4, 5>>, <<2, 6, 7>>, <<2, 6, 8>>, <<2, 9, 7>>,
                      <<2, 10>>, <<2, 9, 7>>, <<2, 7>>, <<2, 11>>, <<2, 12>>, <<2>>>>

\* Fingerprints without and with a collision (cuts 4 and 5).
Injective == [c \in Cut |-> c]
Colliding == [c \in Cut |-> IF c = 5 THEN 4 ELSE c]
=============================================================================
