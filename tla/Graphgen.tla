------------------------------ MODULE Graphgen ------------------------------
(***************************************************************************)
(* The tool that writes graph files, src/tools/graphgen.cpp: chains of     *)
(* diamonds, and a path with edges drawn at random.                        *)
(*                                                                         *)
(* The random numbers are arbitrary: two vertices, the kind of edge (the   *)
(* rates decide how often each is drawn), the order after the shuffle.  A  *)
(* file is a sequence of pairs, the first of which is the header.          *)
(***************************************************************************)
EXTENDS Integers, Sequences, FiniteSets, SequencesExt

CONSTANT Request        \* [mode : {"chain"}, k : Nat], [mode : {"random"}, n : Nat, m : Nat]

ASSUME RequestAssumption ==
    \A r \in Request :
        /\ r.mode = "chain" => r.k \in Nat
        /\ r.mode = "random" => r.n \in Nat /\ r.m \in Nat

VARIABLES
    request,
    edges,              \* numVertices and numEdges are in the request
    draws,              \* how many have been made: i in the code
    dropped,            \* history: those that came to nothing
    file                \* what has been written, <<>> for nothing

graphgenVars == <<request, edges, draws, dropped, file>>

GraphgenInit ==
    /\ request \in Request
    /\ edges = <<>> /\ draws = 0 /\ dropped = 0 /\ file = <<>>

Min2(a, b) == IF a < b THEN a ELSE b
Max2(a, b) == IF a < b THEN b ELSE a
-----------------------------------------------------------------------------
\* Mutant: the second half of a diamond goes out of its first vertex twice.
DiamondTwisted(in) == <<<<in, in + 1>>, <<in, in + 2>>, <<in + 1, in + 3>>, <<in + 1, in + 3>>>>

Diamond(in) == <<<<in, in + 1>>, <<in, in + 2>>, <<in + 1, in + 3>>, <<in + 2, in + 3>>>>

GenerateChain ==
    /\ request.mode = "chain"
    /\ file' = <<<<3 * request.k + 1, 4 * request.k>>>>
                  \o [e \in 1 .. 4 * request.k |-> Diamond(3 * ((e - 1) \div 4))[((e - 1) % 4) + 1]]
    /\ UNCHANGED <<request, edges, draws, dropped>>

\* Too few vertices, or too few edges for the path.
Refuses == request.mode = "random" /\ (request.n < 2 \/ request.m < request.n - 1)

\* Mutant: the path ends before the last vertex.
MainPathShort == [v \in 1 .. request.n - 2 |-> <<v - 1, v>>]

MainPath == [v \in 1 .. request.n - 1 |-> <<v - 1, v>>]

Remaining == request.m - (request.n - 1)

GeneratePath ==
    /\ request.mode = "random" /\ ~Refuses
    /\ edges = <<>>
    /\ edges' = MainPath
    /\ UNCHANGED <<request, draws, dropped, file>>

\* One of the remaining edges: two different vertices (equal ones are drawn
\* again) and the kind.
Draw ==
    /\ edges # <<>>
    /\ draws < Remaining
    /\ draws' = draws + 1
    /\ UNCHANGED <<request, file>>

\* An edge backward, a cycle.
DrawCycle(u, v) ==
    /\ Draw
    /\ edges' = Append(edges, <<Max2(u, v), Min2(u, v)>>)
    /\ UNCHANGED dropped

\* An edge forward, but not to the next vertex: to the one after that, and none
\* if there is no such vertex.
DrawSide(u, v) ==
    LET from == Min2(u, v)
        to   == Max2(u, v)
    IN  /\ Draw
        /\ \/ /\ to # from + 1
              /\ edges' = Append(edges, <<from, to>>) /\ UNCHANGED dropped
           \/ /\ to = from + 1 /\ from + 2 < request.n
              /\ edges' = Append(edges, <<from, from + 2>>) /\ UNCHANGED dropped
           \/ /\ to = from + 1 /\ from + 2 >= request.n
              /\ dropped' = dropped + 1 /\ UNCHANGED edges

DrawAny(u, v) ==
    /\ Draw
    /\ edges' = Append(edges, <<u, v>>)
    /\ UNCHANGED dropped

\* The edges after the path are shuffled; the header has the numbers asked for.
WriteRandom ==
    /\ edges # <<>> /\ draws = Remaining
    /\ LET extra == SubSeq(edges, Len(MainPath) + 1, Len(edges))
       IN  \E p \in {q \in [DOMAIN extra -> DOMAIN extra] : IsInjective(q)} :
              file' = <<<<request.n, request.m>>>> \o MainPath \o [j \in DOMAIN p |-> extra[p[j]]]
    /\ UNCHANGED <<request, edges, draws, dropped>>

Drawn == request.mode = "random" /\
    \E u, v \in 0 .. request.n - 1 :
        u # v /\ (DrawCycle(u, v) \/ DrawSide(u, v) \/ DrawAny(u, v))

GraphgenStep == file = <<>> /\ (GenerateChain \/ GeneratePath \/ Drawn \/ WriteRandom)
=============================================================================
