---------------------------- MODULE GraphSearch -----------------------------
(***************************************************************************)
(* The solver on a graph: ApdfsSolver, where a frame carries the cut of a  *)
(* table, with the table that CutBranch computes from the graph.           *)
(***************************************************************************)
EXTENDS ApdfsSolver

CONSTANTS
    Vertex, tail, head, superSource, superSink,   \* as in CutGraph
    edgesOf                                       \* Cut -> the edges of the frame's cut

Edge == DOMAIN tail

G == INSTANCE CutBranch

ASSUME GraphAssumption == IsFiniteSet(Vertex) /\ G!IsGraph

\* buildInitialFrame and processFrame on the cuts of the table, and the size
\* above which a cut is filtered.
ASSUME TableAssumption ==
    /\ edgesOf \in [Cut -> SUBSET Edge]
    /\ \A c, d \in Cut : edgesOf[c] = edgesOf[d] => c = d
    /\ edgesOf[Root] = G!InitialCut
    /\ \A c \in Cut :
          /\ Len(Candidates[c]) = Len(G!Children(edgesOf[c]))
          /\ {edgesOf[d] : d \in ToSet(Candidates[c])} = ToSet(G!Children(edgesOf[c]))
    /\ \A c \in Oversize, d \in Cut \ Oversize :
          Cardinality(G!pClean(edgesOf[c])) > Cardinality(G!pClean(edgesOf[d]))

\* What run() checks before it pushes the initial frame; and that no edge of the
\* initial cut can be spared, as with one edge out of the super-source.
StartsMinimal ==
    superSink \in G!Reach({superSource}, {}) /\ G!IsMinimalCut(G!InitialCut)

\* What processFrame hands to writeCut for each cut of the table.
cutOf == [c \in Cut |-> G!pClean(edgesOf[c])]

MinimalCuts == G!MinimalCuts

\* One frame has led to P, and has had it written unless P is too large.
WrittenByOne(P) ==
    \E c \in Cut :
       /\ cutOf[c] = P
       /\ \A d \in Cut : cutOf[d] = P => written[d] = IF d = c /\ c \notin Oversize THEN 1 ELSE 0

\* "enumerates all minimal (S,T)-cuts in directed graphs" (README.md:5 of the
\* repository), with any number of threads: nothing but minimal cuts is ever
\* written, and when run() returns by itself each of them has been written once.
FindsMinimalCuts ==
    /\ \A c \in Cut : written[c] > 0 => cutOf[c] \in MinimalCuts
    /\ main = "returned" /\ stopCause = "idle" => \A P \in MinimalCuts : WrittenByOne(P)
=============================================================================
