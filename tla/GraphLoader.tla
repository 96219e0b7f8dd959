---------------------------- MODULE GraphLoader -----------------------------
(***************************************************************************)
(* From a file to a graph, src/src/graph: GraphLoader reads a header and   *)
(* edges, GraphBuilder collects the edges and keeps the number of          *)
(* vertices, Graph puts the edges into compressed rows.                    *)
(*                                                                         *)
(* A line is a pair of numbers, or Unparsable; comments and blank lines    *)
(* are skipped and left out.  Vertex ids have Width bits (32 in the code)  *)
(* and wrap; the numbers of the header are wider.  Edges are numbered from *)
(* 1 here.  Where the code would use a vertex id beyond the end of an      *)
(* array the behaviour is undefined, and the model stops.                  *)
(***************************************************************************)
EXTENDS Integers, Sequences, FiniteSets, SequencesExt

CONSTANTS
    Line,               \* the lines of two numbers a file may have
    Config,             \* the values of superSource and superSink in the options
    Width,              \* bits of VertexIndex
    MaxLines            \* the longest file written by hand (bound)

Unparsable == <<>>

ASSUME LoaderAssumption ==
    /\ Line \subseteq Nat \X Nat
    /\ Config \subseteq [superSource : 0 .. 2 ^ Width - 1, superSink : 0 .. 2 ^ Width - 1]
    /\ Width \in Nat /\ 2 ^ Width \in Nat \ {0}
    /\ MaxLines \in Nat

VARIABLES
    pc,                 \* "read", "count", "offsets", "fill", "ready", "rejected", "undefined"
    config,
    lines,              \* the lines read so far
    header,             \* vertexCount and edgeCount, <<>> until headerParsed
    builder,            \* the GraphBuilder
    offset, cursor, adj,  \* the rows: [1] outgoing edges, [2] incoming edges
    next                \* the vertex or the edge that a loop of buildCsr is at

rows == <<offset, cursor, adj, next>>
vars == <<pc, config, lines, header, builder, rows>>

Wider(a, b) == IF a > b THEN a ELSE b
Narrow(n) == n % 2 ^ Width

\* GraphBuilder.  The random fingerprint of an edge is left out.
NewBuilder == [mEdges |-> <<>>, mMaxVertex |-> 0, mSuperSource |-> 0, mSuperSink |-> 0]

addEdge(b, u, v) ==
    [b EXCEPT !.mEdges = Append(@, <<u, v>>),
              !.mMaxVertex = Wider(@, Narrow(Wider(u, v) + 1))]
setSuperSource(b, v) ==
    [b EXCEPT !.mSuperSource = v, !.mMaxVertex = Wider(@, Narrow(v + 1))]
setSuperSink(b, v) ==
    [b EXCEPT !.mSuperSink = v, !.mMaxVertex = Wider(@, Narrow(v + 1))]

mEdges       == builder.mEdges
mVertexCount == builder.mMaxVertex

Init ==
    /\ pc = "read"
    /\ config \in Config
    /\ lines = <<>> /\ header = <<>>
    /\ builder = NewBuilder
    /\ offset = <<>> /\ cursor = <<>> /\ adj = <<>> /\ next = 0
-----------------------------------------------------------------------------
Read(line) ==
    /\ pc = "read"
    /\ lines' = Append(lines, line)
    /\ UNCHANGED <<config, rows>>

\* The two numbers of an edge are read into VertexIndex, which refuses larger ones.
ParsesAsEdge(line) == line # Unparsable /\ line[1] < 2 ^ Width /\ line[2] < 2 ^ Width

\* Mutant: an id equal to the number of vertices is let through.
InRangeOrNext(line) == line[1] <= header[1] /\ line[2] <= header[1]

InRange(line) == line[1] < header[1] /\ line[2] < header[1]

ReadHeader(line) ==
    /\ header = <<>> /\ line # Unparsable
    /\ Read(line)
    /\ header' = line
    /\ UNCHANGED <<pc, builder>>

ReadEdge(line) ==
    /\ header # <<>> /\ ParsesAsEdge(line) /\ InRange(line)
    /\ Read(line)
    /\ builder' = addEdge(builder, line[1], line[2])
    /\ UNCHANGED <<pc, header>>

\* A line that is no header, no edge, or an edge of unknown vertices.
RejectLine(line) ==
    /\ \/ line = Unparsable
       \/ header # <<>> /\ ~ParsesAsEdge(line)
       \/ header # <<>> /\ ParsesAsEdge(line) /\ ~InRange(line)
    /\ Read(line)
    /\ pc' = "rejected"
    /\ UNCHANGED <<header, builder>>

\* The checks at the end of the file.
Acceptable ==
    /\ header # <<>> /\ header[1] # 0 /\ Len(mEdges) = header[2]
    /\ config.superSource < header[1] /\ config.superSink < header[1]

\* No file, or one that has read well so far but is not acceptable.
Reject ==
    /\ pc = "read"
    /\ ~Acceptable
    /\ pc' = "rejected"
    /\ UNCHANGED <<config, lines, header, builder, rows>>

\* Mutant: the sink gets the id of the source.
WithOneSuperVertex ==
    LET source == Narrow(header[1])
        sink   == Narrow(header[1])
        linked == addEdge(addEdge(builder, source, config.superSource), config.superSink, sink)
    IN  setSuperSink(setSuperSource(linked, source), sink)

\* The two super-vertices get the next two ids, and an edge each.
WithSuperVertices ==
    LET source == Narrow(header[1])
        sink   == Narrow(header[1] + 1)
        linked == addEdge(addEdge(builder, source, config.superSource), config.superSink, sink)
    IN  setSuperSink(setSuperSource(linked, source), sink)

Accept ==
    /\ pc = "read"
    /\ Acceptable
    /\ builder' = WithSuperVertices
    /\ pc' = "count"
    /\ UNCHANGED <<config, lines, header, rows>>
-----------------------------------------------------------------------------
Vertices == 0 .. mVertexCount - 1
Degree(side, v) == Cardinality({e \in DOMAIN mEdges : mEdges[e][side] = v})

EndsExist == \A e \in DOMAIN mEdges : mEdges[e][1] \in Vertices /\ mEdges[e][2] \in Vertices

\* The first part of buildCsr: the degrees are counted, the offsets not yet added up.
CountDegrees ==
    /\ pc = "count" /\ EndsExist
    /\ offset' = [side \in {1, 2} |-> [v \in 0 .. mVertexCount |-> 0]]
    /\ next' = 0
    /\ pc' = "offsets"
    /\ UNCHANGED <<config, lines, header, builder, cursor, adj>>

\* outDeg and inDeg are indexed with an id they have no element for.
CountBeyondEnd ==
    /\ pc = "count" /\ ~EndsExist
    /\ pc' = "undefined"
    /\ UNCHANGED <<config, lines, header, builder, rows>>

\* The loops that add up the degrees: each row begins where the one before ends.
AddDegree ==
    /\ pc = "offsets" /\ next < mVertexCount
    /\ offset' = [side \in {1, 2} |->
                     [offset[side] EXCEPT ![next + 1] = offset[side][next] + Degree(side, next)]]
    /\ next' = next + 1
    /\ UNCHANGED <<pc, config, lines, header, builder, cursor, adj>>

\* Room for the rows, and a cursor at the beginning of each.
StartRows ==
    /\ pc = "offsets" /\ next = mVertexCount
    /\ cursor' = offset
    /\ adj' = [side \in {1, 2} |-> [i \in 0 .. offset[side][mVertexCount] - 1 |-> 0]]
    /\ next' = 1
    /\ pc' = "fill"
    /\ UNCHANGED <<config, lines, header, builder, offset>>

\* Mutant: the cursor of the target's row stays.
FillStuckCursor ==
    /\ pc = "fill" /\ next <= Len(mEdges)
    /\ LET place(side) == cursor[side][mEdges[next][side]]
       IN  /\ adj' = [side \in {1, 2} |-> [adj[side] EXCEPT ![place(side)] = next]]
           /\ cursor' = [cursor EXCEPT ![1][mEdges[next][1]] = @ + 1]
    /\ next' = next + 1
    /\ UNCHANGED <<pc, config, lines, header, builder, offset>>

\* The loop of buildCsr that puts each edge into the rows of its ends.
Fill ==
    /\ pc = "fill" /\ next <= Len(mEdges)
    /\ LET place(side) == cursor[side][mEdges[next][side]]
       IN  /\ adj' = [side \in {1, 2} |-> [adj[side] EXCEPT ![place(side)] = next]]
           /\ cursor' = [cursor EXCEPT ![1][mEdges[next][1]] = @ + 1,
                                       ![2][mEdges[next][2]] = @ + 1]
    /\ next' = next + 1
    /\ UNCHANGED <<pc, config, lines, header, builder, offset>>

Ready ==
    /\ pc = "fill" /\ next > Len(mEdges)
    /\ pc' = "ready"
    /\ UNCHANGED <<config, lines, header, builder, rows>>

Ended ==
    /\ pc \in {"ready", "rejected", "undefined"}
    /\ UNCHANGED vars

ReadLine(line) == ReadHeader(line) \/ ReadEdge(line) \/ RejectLine(line)
Build == CountDegrees \/ CountBeyondEnd \/ AddDegree \/ StartRows \/ Fill \/ Ready

Next ==
    \/ \E line \in Line \cup {Unparsable} : Len(lines) < MaxLines /\ ReadLine(line)
    \/ Reject \/ Accept \/ Build \/ Ended

Spec == Init /\ [][Next]_vars
-----------------------------------------------------------------------------
\* outgoingEdges and incomingEdges: a row from its offset to the next.
Row(side, v) ==
    IF v \notin Vertices THEN <<>>
    ELSE [i \in 1 .. offset[side][v + 1] - offset[side][v] |-> adj[side][offset[side][v] + i - 1]]
outgoingEdges(v) == Row(1, v)
incomingEdges(v) == Row(2, v)

\* What a file must be: a header, then exactly as many edges as it announces,
\* between vertices it announces, the two of the options among them.
WellFormed ==
    /\ lines # <<>> /\ lines[1] # Unparsable
    /\ config.superSource < lines[1][1] /\ config.superSink < lines[1][1]
    /\ Len(lines) - 1 = lines[1][2]
    /\ \A i \in 2 .. Len(lines) :
          /\ ParsesAsEdge(lines[i])
          /\ lines[i][1] < lines[1][1] /\ lines[i][2] < lines[1][1]

\* The ids of the super-vertices, and the number of vertices, fit into Width bits.
IdsFit == header[1] + 2 < 2 ^ Width

\* A graph is built from well-formed files only, and every other file is refused,
\* at a line or at its end.
WellFormedOnly ==
    /\ pc \in {"count", "offsets", "fill", "ready", "undefined"} => WellFormed
    /\ pc = "rejected" => ~WellFormed

\* As long as the ids fit, the graph is the one in the file: its vertices,
\* isolated ones too, its edges in their order, and two vertices that no line
\* of the file can name, each with one edge only.
GraphOfFile ==
    pc \in {"count", "offsets", "fill", "ready", "undefined"} /\ IdsFit =>
        LET n == header[1]
        IN  /\ mVertexCount = n + 2
            /\ builder.mSuperSource = n /\ builder.mSuperSink = n + 1
            /\ SubSeq(mEdges, 1, Len(mEdges) - 2) = Tail(lines)
            /\ {e \in DOMAIN mEdges : n \in ToSet(mEdges[e])} = {Len(mEdges) - 1}
            /\ {e \in DOMAIN mEdges : n + 1 \in ToSet(mEdges[e])} = {Len(mEdges)}
            /\ pc # "undefined"

Ascending(s) == \A i \in 1 .. Len(s) - 1 : s[i] < s[i + 1]

\* The rows of a graph, whatever its ids, are its adjacency lists: every edge is
\* in the row of its source and in that of its target, once, and in the order of
\* the edges.  BfsEngine and CutProcessor begin here.
RowsExact ==
    pc = "ready" =>
        \A v \in Vertices :
            /\ ToSet(outgoingEdges(v)) = {e \in DOMAIN mEdges : mEdges[e][1] = v}
            /\ ToSet(incomingEdges(v)) = {e \in DOMAIN mEdges : mEdges[e][2] = v}
            /\ Ascending(outgoingEdges(v)) /\ Ascending(incomingEdges(v))
=============================================================================
