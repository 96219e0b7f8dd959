--------------------------- MODULE Program_proofs ---------------------------
(***************************************************************************)
(* Proofs about GraphLoader, and about the program around it, Options,     *)
(* Graphgen and main: for every command line, every file, every width of   *)
(* the ids and every graph.                                                *)
(***************************************************************************)
EXTENDS Program, Lemmas, FunctionTheorems

(***************************************************************************)
(* Compressed rows, for any function from edges 1 .. m to vertices.        *)
(***************************************************************************)
\* The edges of the rows before that of v, those of the row itself, and the
\* latter before edge e.
Below(ends, v)   == {f \in DOMAIN ends : ends[f] < v}
Of(ends, v)      == {f \in DOMAIN ends : ends[f] = v}
Same(ends, v, e) == {f \in Of(ends, v) : f < e}

\* The position of an edge when the rows are put one after the other.
Place(ends, e) == Cardinality(Below(ends, ends[e])) + Cardinality(Same(ends, ends[e], e))

\* Array a has every edge in its position; row is cut out of a where that of v is.
Placed(ends, a) == \A e \in DOMAIN ends : a[Place(ends, e)] = e
CutOut(ends, a, v, row) ==
    /\ DOMAIN row = 1 .. Cardinality(Of(ends, v)) /\ Len(row) = Cardinality(Of(ends, v))
    /\ \A i \in 1 .. Cardinality(Of(ends, v)) : row[i] = a[Cardinality(Below(ends, v)) + i - 1]

(* The positions of a row of d edges. *)
LEMMA Positions ==
    ASSUME NEW d \in Nat
    PROVE  IsFiniteSet(0 .. d - 1) /\ Cardinality(0 .. d - 1) = d
  BY FS_Interval

(* All these sets are finite. *)
LEMMA RowsFinite ==
    ASSUME NEW m \in Nat, NEW n \in Nat, NEW ends \in [1 .. m -> 0 .. n - 1]
    PROVE  /\ \A v \in Nat : IsFiniteSet(Below(ends, v)) /\ Cardinality(Below(ends, v)) \in Nat
           /\ \A v \in Nat : IsFiniteSet(Of(ends, v)) /\ Cardinality(Of(ends, v)) \in Nat
           /\ \A v, e \in Nat :
                 IsFiniteSet(Same(ends, v, e)) /\ Cardinality(Same(ends, v, e)) \in Nat
<1>1. IsFiniteSet(1 .. m)
  BY FS_Interval
<1>2. \A S \in SUBSET (1 .. m) : IsFiniteSet(S) /\ Cardinality(S) \in Nat
  BY <1>1, FS_Subset, FS_CardinalityType
<1>. QED  BY <1>2 DEF Below, Of, Same

(* Each row begins where the one before ends; the last ends with the edges.  *)
LEMMA OffsetsAddUp ==
    ASSUME NEW m \in Nat, NEW n \in Nat, NEW ends \in [1 .. m -> 0 .. n - 1]
    PROVE  /\ Cardinality(Below(ends, 0)) = 0
           /\ \A v \in 0 .. n - 1 :
                 Cardinality(Below(ends, v + 1))
                    = Cardinality(Below(ends, v)) + Cardinality(Of(ends, v))
           /\ Cardinality(Below(ends, n)) = m
<1>1. Below(ends, 0) = {}
  BY DEF Below
<1>2. Below(ends, n) = 1 .. m
  BY DEF Below
<1>3. ASSUME NEW v \in 0 .. n - 1
      PROVE  Cardinality(Below(ends, v + 1))
                = Cardinality(Below(ends, v)) + Cardinality(Of(ends, v))
  <2>1. Below(ends, v + 1) = Below(ends, v) \cup Of(ends, v)
    BY DEF Below, Of
  <2>2. Below(ends, v) \cap Of(ends, v) = {}
    BY DEF Below, Of
  <2>3. Cardinality(Below(ends, v) \cap Of(ends, v)) = 0
    BY <2>2, FS_EmptySet
  <2>4. /\ IsFiniteSet(Below(ends, v)) /\ Cardinality(Below(ends, v)) \in Nat
        /\ IsFiniteSet(Of(ends, v)) /\ Cardinality(Of(ends, v)) \in Nat
    BY RowsFinite
  <2>5. Cardinality(Below(ends, v + 1))
           = Cardinality(Below(ends, v)) + Cardinality(Of(ends, v))
                - Cardinality(Below(ends, v) \cap Of(ends, v))
    BY <2>1, <2>4, FS_Union
  <2>. QED  BY <2>3, <2>4, <2>5
<1>4. Cardinality(1 .. m) = m
  BY FS_Interval
<1>. QED  BY <1>1, <1>2, <1>3, <1>4, FS_EmptySet

(* Later rows do not begin earlier.                                          *)
LEMMA OffsetsAscend ==
    ASSUME NEW m \in Nat, NEW n \in Nat, NEW ends \in [1 .. m -> 0 .. n - 1],
           NEW u \in Nat, NEW v \in Nat, u <= v
    PROVE  Cardinality(Below(ends, u)) <= Cardinality(Below(ends, v))
<1>1. Below(ends, u) \subseteq Below(ends, v)
  BY DEF Below
<1>. QED  BY <1>1, RowsFinite, FS_Subset

(* What the cursor of a row counts.                                          *)
LEMMA SameSteps ==
    ASSUME NEW m \in Nat, NEW n \in Nat, NEW ends \in [1 .. m -> 0 .. n - 1],
           NEW v \in Nat
    PROVE  /\ Cardinality(Same(ends, v, 1)) = 0
           /\ \A e \in 1 .. m :
                 Cardinality(Same(ends, v, e + 1))
                    = IF ends[e] = v THEN Cardinality(Same(ends, v, e)) + 1
                      ELSE Cardinality(Same(ends, v, e))
<1>1. Same(ends, v, 1) = {}
  BY DEF Same, Of
<1>2. ASSUME NEW e \in 1 .. m, ends[e] = v
      PROVE  Cardinality(Same(ends, v, e + 1)) = Cardinality(Same(ends, v, e)) + 1
  <2>1. Same(ends, v, e + 1) = Same(ends, v, e) \cup {e} /\ e \notin Same(ends, v, e)
    BY <1>2 DEF Same, Of
  <2>2. IsFiniteSet(Same(ends, v, e))
    BY RowsFinite
  <2>. QED  BY <2>1, <2>2, FS_AddElement
<1>3. ASSUME NEW e \in 1 .. m, ends[e] # v
      PROVE  Same(ends, v, e + 1) = Same(ends, v, e)
  BY <1>3 DEF Same, Of
<1>. QED  BY <1>1, <1>2, <1>3, FS_EmptySet

(* Of two edges of a row the later one comes later; all stay in the row.     *)
LEMMA SameAscends ==
    ASSUME NEW m \in Nat, NEW n \in Nat, NEW ends \in [1 .. m -> 0 .. n - 1],
           NEW e \in 1 .. m
    PROVE  /\ Cardinality(Same(ends, ends[e], e)) < Cardinality(Of(ends, ends[e]))
           /\ \A f \in 1 .. m : ends[f] = ends[e] /\ e < f =>
                 Cardinality(Same(ends, ends[e], e)) < Cardinality(Same(ends, ends[e], f))
<1>. DEFINE v == ends[e]
<1>1. v \in Nat
  OBVIOUS
<1>2. Cardinality(Same(ends, v, e + 1)) = Cardinality(Same(ends, v, e)) + 1
  BY <1>1, SameSteps
<1>3. \A S : IsFiniteSet(S) /\ Same(ends, v, e + 1) \subseteq S =>
         Cardinality(Same(ends, v, e + 1)) <= Cardinality(S)
  BY FS_Subset
<1>4. Same(ends, v, e + 1) \subseteq Of(ends, v)
  BY DEF Same
<1>5. \A f \in 1 .. m : e < f => Same(ends, v, e + 1) \subseteq Same(ends, v, f)
  BY DEF Same, Of
<1>6. /\ Cardinality(Same(ends, v, e)) \in Nat
      /\ IsFiniteSet(Of(ends, v)) /\ Cardinality(Of(ends, v)) \in Nat
  BY <1>1, RowsFinite
<1>7. \A f \in 1 .. m : IsFiniteSet(Same(ends, v, f)) /\ Cardinality(Same(ends, v, f)) \in Nat
  BY <1>1, RowsFinite
<1>. HIDE DEF v
<1>8. Cardinality(Same(ends, v, e)) < Cardinality(Of(ends, v))
  BY <1>2, <1>3, <1>4, <1>6
<1>9. ASSUME NEW f \in 1 .. m, e < f
      PROVE  Cardinality(Same(ends, v, e)) < Cardinality(Same(ends, v, f))
  <2>1. Cardinality(Same(ends, v, e + 1)) <= Cardinality(Same(ends, v, f))
    BY <1>3, <1>5, <1>7, <1>9
  <2>2. Cardinality(Same(ends, v, f)) \in Nat
    BY <1>7
  <2>. QED  BY <1>2, <1>6, <2>1, <2>2
<1>. QED  BY <1>8, <1>9 DEF v

(* No two edges have one position, and none lies outside the array.          *)
LEMMA PlacesDiffer ==
    ASSUME NEW m \in Nat, NEW n \in Nat, NEW ends \in [1 .. m -> 0 .. n - 1]
    PROVE  /\ \A e \in 1 .. m : Place(ends, e) \in 0 .. m - 1
           /\ \A e, f \in 1 .. m : e # f => Place(ends, e) # Place(ends, f)
<1>. DEFINE below == [v \in 0 .. n |-> Cardinality(Below(ends, v))]
            same  == [e \in 1 .. m |-> Cardinality(Same(ends, ends[e], e))]
<1>1. below \in [0 .. n -> Nat] /\ same \in [1 .. m -> Nat]
  <2>1. \A v \in 0 .. n : Cardinality(Below(ends, v)) \in Nat
    BY RowsFinite
  <2>2. \A e \in 1 .. m : ends[e] \in Nat
    OBVIOUS
  <2>3. \A e \in 1 .. m : Cardinality(Same(ends, ends[e], e)) \in Nat
    BY <2>2, RowsFinite
  <2>. QED  BY <2>1, <2>3
<1>2. ASSUME NEW u \in 0 .. n, NEW v \in 0 .. n, u <= v
      PROVE  below[u] <= below[v]
  BY <1>2, OffsetsAscend
<1>3. ASSUME NEW e \in 1 .. m
      PROVE  same[e] < below[ends[e] + 1] - below[ends[e]]
  <2>1. below[ends[e] + 1] = below[ends[e]] + Cardinality(Of(ends, ends[e]))
    <3>. DEFINE u == ends[e]
    <3>1. u \in 0 .. n - 1 /\ u \in 0 .. n /\ u + 1 \in 0 .. n
      OBVIOUS
    <3>. HIDE DEF u
    <3>2. Cardinality(Below(ends, u + 1)) = Cardinality(Below(ends, u)) + Cardinality(Of(ends, u))
      BY <3>1, OffsetsAddUp
    <3>3. below[u + 1] = Cardinality(Below(ends, u + 1)) /\ below[u] = Cardinality(Below(ends, u))
      BY <3>1
    <3>. QED  BY <3>2, <3>3 DEF u
  <2>2. same[e] < Cardinality(Of(ends, ends[e]))
    BY SameAscends
  <2>3. Cardinality(Of(ends, ends[e])) \in Nat /\ below[ends[e]] \in Nat
    BY RowsFinite
  <2>. HIDE DEF below, same
  <2>. QED  BY <1>1, <2>1, <2>2, <2>3
<1>4. \A e, f \in 1 .. m : ends[e] = ends[f] /\ e < f => same[e] < same[f]
  BY SameAscends
<1>5. below[n] = m
  <2>1. n \in 0 .. n
    OBVIOUS
  <2>2. Cardinality(Below(ends, n)) = m
    BY OffsetsAddUp
  <2>. QED  BY <2>1, <2>2
<1>6. \A e \in 1 .. m : Place(ends, e) = below[ends[e]] + same[e]
  BY DEF Place
<1>. HIDE DEF below, same
<1>7. ASSUME NEW e \in 1 .. m
      PROVE  /\ Place(ends, e) \in Nat /\ ends[e] + 1 \in 0 .. n
             /\ Place(ends, e) < below[ends[e] + 1]
  <2>1. ends[e] \in 0 .. n - 1
    OBVIOUS
  <2>2. ends[e] \in 0 .. n /\ ends[e] + 1 \in 0 .. n
    BY <2>1
  <2>3. same[e] \in Nat /\ below[ends[e]] \in Nat /\ below[ends[e] + 1] \in Nat
    BY <1>1, <2>2
  <2>4. same[e] < below[ends[e] + 1] - below[ends[e]] /\ Place(ends, e) = below[ends[e]] + same[e]
    BY <1>3, <1>6
  <2>. DEFINE a == same[e]
              b == below[ends[e]]
              c == below[ends[e] + 1]
  <2>5. a \in Nat /\ b \in Nat /\ c \in Nat /\ a < c - b
    BY <2>3, <2>4
  <2>. HIDE DEF a, b, c
  <2>6. b + a \in Nat /\ b + a < c
    BY <2>5
  <2>. QED  BY <2>2, <2>4, <2>6 DEF a, b, c
<1>8. ASSUME NEW e \in 1 .. m
      PROVE  Place(ends, e) \in 0 .. m - 1
  <2>1. below[ends[e] + 1] <= m
    BY <1>2, <1>5, <1>7
  <2>2. below[ends[e] + 1] \in Nat
    BY <1>1, <1>7
  <2>. QED  BY <1>7, <2>1, <2>2
<1>9. ASSUME NEW e \in 1 .. m, NEW f \in 1 .. m, ends[e] < ends[f]
      PROVE  Place(ends, e) < Place(ends, f)
  <2>1. ends[e] \in 0 .. n - 1 /\ ends[f] \in 0 .. n - 1
    OBVIOUS
  <2>2. below[ends[e] + 1] <= below[ends[f]]
    BY <1>2, <1>9, <2>1
  <2>3. below[ends[e] + 1] \in Nat /\ below[ends[f]] \in Nat /\ same[f] \in Nat
    <3>1. ends[e] + 1 \in 0 .. n /\ ends[f] \in 0 .. n
      BY <1>7
    <3>. QED  BY <1>1, <3>1
  <2>4. Place(ends, e) \in Nat /\ Place(ends, e) < below[ends[e] + 1]
    BY <1>7
  <2>5. Place(ends, f) = below[ends[f]] + same[f]
    BY <1>6
  <2>. QED  BY <2>2, <2>3, <2>4, <2>5
<1>10. ASSUME NEW e \in 1 .. m, NEW f \in 1 .. m, ends[e] = ends[f], e < f
       PROVE  Place(ends, e) < Place(ends, f)
  <2>1. ends[e] \in 0 .. n /\ same[e] < same[f]
    BY <1>4, <1>10
  <2>. QED  BY <1>1, <1>6, <1>10, <2>1
<1>11. ASSUME NEW e \in 1 .. m, NEW f \in 1 .. m, e # f
       PROVE  Place(ends, e) # Place(ends, f)
  <2>1. ends[e] \in Int /\ ends[f] \in Int /\ e \in Int /\ f \in Int
    OBVIOUS
  <2>2. Place(ends, e) < Place(ends, f) \/ Place(ends, f) < Place(ends, e)
    BY <1>9, <1>10, <1>11, <2>1
  <2>. QED  BY <1>7, <2>2
<1>. QED  BY <1>8, <1>11

(* Every position of a row is that of an edge of the row.                    *)
LEMMA RowFull ==
    ASSUME NEW m \in Nat, NEW n \in Nat, NEW ends \in [1 .. m -> 0 .. n - 1],
           NEW v \in Nat, NEW i \in 0 .. Cardinality(Of(ends, v)) - 1
    PROVE  \E e \in Of(ends, v) : Cardinality(Same(ends, v, e)) = i
<1>. DEFINE S == Of(ends, v)
            d == Cardinality(S)
            rank == [e \in S |-> Cardinality(Same(ends, v, e))]
<1>1. IsFiniteSet(S) /\ d \in Nat
  BY RowsFinite
<1>2. \A e \in S : e \in 1 .. m /\ ends[e] = v
  BY DEF Of
<1>3. ASSUME NEW e \in S
      PROVE  Cardinality(Same(ends, v, e)) \in 0 .. d - 1
  <2>1. e \in 1 .. m /\ e \in Nat /\ ends[e] = v
    BY <1>2
  <2>2. Cardinality(Same(ends, v, e)) < d
    BY <2>1, SameAscends
  <2>3. Cardinality(Same(ends, v, e)) \in Nat
    BY <2>1, RowsFinite
  <2>. HIDE DEF d
  <2>. QED  BY <1>1, <2>2, <2>3
<1>4. rank \in [S -> 0 .. d - 1]
  BY <1>3
<1>5. \A e, f \in S : rank[e] = rank[f] => e = f
  <2>1. \A e, f \in S : e < f => rank[e] < rank[f]
    BY <1>2, SameAscends
  <2>2. \A e \in S : rank[e] \in Nat
    BY <1>4, <1>1
  <2>. QED  BY <1>2, <2>1, <2>2
<1>6. rank \in Injection(S, 0 .. d - 1)
  BY <1>4, <1>5, Fun_IsInj
<1>7. IsFiniteSet(0 .. d - 1) /\ Cardinality(0 .. d - 1) = d
  BY <1>1, Positions
<1>8. rank \in Surjection(S, 0 .. d - 1)
  BY <1>6, <1>7, FS_Injection
<1>9. i \in 0 .. d - 1
  OBVIOUS
<1>. HIDE DEF rank
<1>10. \E e \in S : rank[e] = i
  <2>1. \A j \in 0 .. d - 1 : \E e \in S : rank[e] = j
    BY <1>8 DEF Surjection
  <2>. QED  BY <1>9, <2>1
<1>. QED  BY <1>10 DEF rank

(* A row cut out of an array in which every edge has its position.           *)
LEMMA RowExact ==
    ASSUME NEW m \in Nat, NEW n \in Nat, NEW ends \in [1 .. m -> 0 .. n - 1],
           NEW v \in 0 .. n - 1, NEW a, NEW row, Placed(ends, a), CutOut(ends, a, v, row)
    PROVE  ToSet(row) = Of(ends, v) /\ Ascending(row)
<1>. DEFINE b == Cardinality(Below(ends, v))
            d == Cardinality(Of(ends, v))
            rank == [e \in Of(ends, v) |-> Cardinality(Same(ends, v, e))]
<1>1. b \in Nat /\ d \in Nat
  <2>1. v \in Nat
    OBVIOUS
  <2>. QED  BY <2>1, RowsFinite
<1>2. \A e \in Of(ends, v) : e \in 1 .. m /\ ends[e] = v
  BY DEF Of
<1>3. rank \in [Of(ends, v) -> 0 .. d - 1]
  <2>1. \A e \in Of(ends, v) : Cardinality(Same(ends, v, e)) \in Nat
    BY <1>2, RowsFinite
  <2>2. \A e \in Of(ends, v) : Cardinality(Same(ends, v, e)) < d
    BY <1>2, SameAscends
  <2>. QED  BY <1>1, <2>1, <2>2
<1>4. \A e \in Of(ends, v) : a[b + rank[e]] = e
  BY <1>2 DEF Place, Placed
<1>5. \A i \in 0 .. d - 1 : \E e \in Of(ends, v) : rank[e] = i
  BY RowFull
<1>6. ASSUME NEW e \in Of(ends, v), NEW f \in Of(ends, v), e < f
      PROVE  rank[e] < rank[f]
  <2>1. e \in 1 .. m /\ f \in 1 .. m /\ ends[e] = v /\ ends[f] = v
    BY <1>2
  <2>2. Cardinality(Same(ends, ends[e], e)) < Cardinality(Same(ends, ends[e], f))
    BY <1>6, <2>1, SameAscends
  <2>. QED  BY <2>1, <2>2
<1>7. DOMAIN row = 1 .. d /\ \A i \in 1 .. d : row[i] = a[b + i - 1]
  BY DEF CutOut
<1>8. Len(row) = d
  BY DEF CutOut
<1>. HIDE DEF b, d, rank
<1>9. ASSUME NEW e \in Of(ends, v)
      PROVE  rank[e] + 1 \in 1 .. d /\ row[rank[e] + 1] = e
  <2>1. rank[e] \in 0 .. d - 1
    BY <1>3
  <2>2. b + (rank[e] + 1) - 1 = b + rank[e] /\ rank[e] + 1 \in 1 .. d
    BY <1>1, <2>1
  <2>3. row[rank[e] + 1] = a[b + rank[e]]
    BY <1>7, <2>2
  <2>. QED  BY <1>4, <2>2, <2>3
<1>10. ASSUME NEW i \in 1 .. d
       PROVE  row[i] \in Of(ends, v) /\ rank[row[i]] = i - 1
  <2>1. i - 1 \in 0 .. d - 1
    BY <1>1
  <2>2. PICK e \in Of(ends, v) : rank[e] = i - 1
    BY <1>5, <2>1
  <2>3. row[i] = e
    <3>1. (i - 1) + 1 = i
      OBVIOUS
    <3>. QED  BY <1>9, <2>2, <3>1
  <2>. QED  BY <2>2, <2>3
<1>11. ToSet(row) = Of(ends, v)
  <2>1. \A x : x \in ToSet(row) <=> \E i \in 1 .. d : row[i] = x
    BY <1>7 DEF ToSet
  <2>2. ASSUME NEW i \in 1 .. d  PROVE row[i] \in Of(ends, v)
    BY <1>10
  <2>3. ASSUME NEW e \in Of(ends, v)  PROVE \E i \in 1 .. d : row[i] = e
    BY <1>9
  <2>4. ToSet(row) \subseteq Of(ends, v)
    BY <2>1, <2>2
  <2>5. Of(ends, v) \subseteq ToSet(row)
    BY <2>1, <2>3
  <2>. QED  BY <2>4, <2>5
<1>12. ASSUME NEW i \in 1 .. d - 1
       PROVE  row[i] < row[i + 1]
  <2>1. i \in 1 .. d /\ i + 1 \in 1 .. d /\ (i + 1) - 1 = i
    BY <1>1
  <2>2. /\ row[i] \in Of(ends, v) /\ rank[row[i]] = i - 1
        /\ row[i + 1] \in Of(ends, v) /\ rank[row[i + 1]] = i
    BY <1>10, <2>1
  <2>3. row[i] \in Int /\ row[i + 1] \in Int
    BY <1>2, <2>2
  <2>4. ~(row[i + 1] < row[i]) /\ row[i] # row[i + 1]
    BY <1>6, <2>2
  <2>. QED  BY <2>3, <2>4
<1>. QED  BY <1>8, <1>11, <1>12 DEF Ascending
-----------------------------------------------------------------------------
(***************************************************************************)
(* GraphLoader: the invariant.  A step of the loader is a step on any      *)
(* line whatever, so that the invariant serves files written by hand and   *)
(* files of graphgen.                                                      *)
(***************************************************************************)
Numbers == Nat \X Nat

LoaderStep ==
    \/ \E line \in Numbers \cup {Unparsable} : ReadLine(line)
    \/ Reject \/ Accept \/ Build
    \/ UNCHANGED vars

\* A number that was narrowed.
Ids == {x \in Nat : x < 2 ^ Width}

Builders == [mEdges : Seq(Numbers), mMaxVertex : Ids, mSuperSource : Nat, mSuperSink : Nat]

Built == {"count", "offsets", "fill", "ready", "undefined"}

TypeInv ==
    /\ pc \in Built \cup {"read", "rejected"}
    /\ config \in [superSource : Nat, superSink : Nat]
    /\ config.superSource < 2 ^ Width /\ config.superSink < 2 ^ Width
    /\ lines \in Seq(Numbers \cup {Unparsable})
    /\ header \in Numbers \cup {<<>>}
    /\ builder \in Builders

\* While the file reads well: its first line is the header, its other lines are
\* the edges.
ReadInv ==
    pc = "read" =>
        /\ header = IF lines = <<>> THEN <<>> ELSE lines[1]
        /\ lines = <<>> => mEdges = <<>> /\ mVertexCount = 0
        /\ lines # <<>> =>
              /\ header \in Numbers
              /\ Len(mEdges) = Len(lines) - 1
              /\ \A i \in 2 .. Len(lines) :
                    ParsesAsEdge(lines[i]) /\ InRange(lines[i]) /\ mEdges[i - 1] = lines[i]
              /\ IdsFit => mVertexCount <= header[1]

\* What Accept makes of a file.
Loaded ==
    LET n == header[1]
    IN  /\ builder.mSuperSource = Narrow(n) /\ builder.mSuperSink = Narrow(n + 1)
        /\ Len(mEdges) = Len(lines) + 1
        /\ \A i \in 2 .. Len(lines) : mEdges[i - 1] = lines[i]
        /\ mEdges[Len(lines)] = <<Narrow(n), config.superSource>>
        /\ mEdges[Len(lines) + 1] = <<config.superSink, Narrow(n + 1)>>
        /\ IdsFit => mVertexCount = n + 2

FileInv ==
    /\ pc \in Built => WellFormed /\ header = lines[1] /\ Loaded
    /\ pc = "rejected" => ~WellFormed
    /\ pc = "undefined" => ~EndsExist

Ends(side) == [e \in DOMAIN mEdges |-> mEdges[e][side]]

\* Where the loops of buildCsr are.
OffsetsUpTo(k) ==
    /\ offset \in [{1, 2} -> [0 .. mVertexCount -> Nat]]
    /\ \A side \in {1, 2} : \A v \in 0 .. k :
          offset[side][v] = Cardinality(Below(Ends(side), v))
CursorsAt(e) ==
    /\ cursor \in [{1, 2} -> [0 .. mVertexCount -> Nat]]
    /\ \A side \in {1, 2} : \A v \in Vertices :
          cursor[side][v] = Cardinality(Below(Ends(side), v)) + Cardinality(Same(Ends(side), v, e))
PlacedBefore(e) ==
    /\ adj \in [{1, 2} -> [0 .. Len(mEdges) - 1 -> Nat]]
    /\ \A side \in {1, 2} : \A f \in 1 .. e - 1 : adj[side][Place(Ends(side), f)] = f

RowsInv ==
    /\ pc \in {"offsets", "fill", "ready"} => EndsExist
    /\ pc = "offsets" => next \in 0 .. mVertexCount /\ OffsetsUpTo(next)
    /\ pc = "fill" =>
          /\ next \in 1 .. Len(mEdges) + 1
          /\ OffsetsUpTo(mVertexCount) /\ CursorsAt(next) /\ PlacedBefore(next)
    /\ pc = "ready" => OffsetsUpTo(mVertexCount) /\ PlacedBefore(Len(mEdges) + 1)

LoaderInv == TypeInv /\ ReadInv /\ FileInv /\ RowsInv

(* The loader begins with an empty file.                                     *)
LEMMA LoaderInit == Init => LoaderInv
<1>. SUFFICES ASSUME Init PROVE LoaderInv
  OBVIOUS
<1>. USE DEF Init, NewBuilder, mEdges, mVertexCount
<1>1. TypeInv
  BY LoaderAssumption DEF TypeInv, Builders, Ids
<1>2. ReadInv
  BY DEF ReadInv
<1>3. FileInv /\ RowsInv
  BY DEF FileInv, RowsInv, Built
<1>. QED  BY <1>1, <1>2, <1>3 DEF LoaderInv

(* The ids narrowed are natural numbers, and themselves if they fit.         *)
LEMMA NarrowIs ==
    ASSUME NEW x \in Nat
    PROVE  /\ Narrow(x) \in Nat /\ Narrow(x) \in Ids
           /\ x < 2 ^ Width => Narrow(x) = x
<1>. DEFINE w == 2 ^ Width
<1>1. w \in Nat \ {0}
  BY LoaderAssumption
<1>. HIDE DEF w
<1>2. x % w \in 0 .. w - 1 /\ (x < w => x % w = x)
  BY <1>1
<1>. QED  BY <1>1, <1>2 DEF Narrow, Ids, w

(* What addEdge does to the builder, and to its number of vertices if the    *)
(* ids fit.                                                                  *)
LEMMA AddsEdge ==
    ASSUME NEW b \in Builders, NEW u \in Nat, NEW v \in Nat
    PROVE  /\ addEdge(b, u, v) \in Builders
           /\ addEdge(b, u, v).mEdges = Append(b.mEdges, <<u, v>>)
           /\ addEdge(b, u, v).mMaxVertex = Wider(b.mMaxVertex, Narrow(Wider(u, v) + 1))
<1>1. Wider(u, v) + 1 \in Nat
  BY DEF Wider
<1>2. Narrow(Wider(u, v) + 1) \in Ids
  BY <1>1, NarrowIs
<1>3. Wider(b.mMaxVertex, Narrow(Wider(u, v) + 1)) \in Ids
  BY <1>2 DEF Wider, Builders
<1>4. Append(b.mEdges, <<u, v>>) \in Seq(Numbers)
  BY DEF Numbers, Builders
<1>. QED  BY <1>3, <1>4 DEF addEdge, Builders

(* What the end of a file adds to the graph.                                 *)
LEMMA SuperVertices ==
    ASSUME TypeInv, Acceptable
    PROVE  LET n == header[1]
           IN  /\ n \in Nat /\ Narrow(n) \in Nat /\ Narrow(n + 1) \in Nat
               /\ WithSuperVertices \in Builders
               /\ WithSuperVertices.mSuperSource = Narrow(n)
               /\ WithSuperVertices.mSuperSink = Narrow(n + 1)
               /\ WithSuperVertices.mEdges =
                     Append(Append(mEdges, <<Narrow(n), config.superSource>>),
                            <<config.superSink, Narrow(n + 1)>>)
               /\ IdsFit /\ mVertexCount <= n => WithSuperVertices.mMaxVertex = n + 2
<1>. DEFINE n      == header[1]
            source == Narrow(n)
            sink   == Narrow(n + 1)
            one    == addEdge(builder, source, config.superSource)
            two    == addEdge(one, config.superSink, sink)
            three  == setSuperSource(two, source)
            four   == setSuperSink(three, sink)
<1>1. n \in Nat /\ n + 1 \in Nat
  BY DEF TypeInv, Acceptable, Numbers
<1>2. source \in Nat /\ sink \in Nat
  BY <1>1, NarrowIs
<1>3. config.superSource \in Nat /\ config.superSink \in Nat
  BY DEF TypeInv
<1>4. config.superSource < n /\ config.superSink < n
  BY DEF Acceptable
<1>5. builder \in Builders /\ mVertexCount \in Nat
  BY DEF TypeInv, Builders, Ids, mVertexCount
<1>6. WithSuperVertices = four
  BY DEF WithSuperVertices
<1>7. /\ one \in Builders
      /\ one.mEdges = Append(builder.mEdges, <<source, config.superSource>>)
      /\ one.mMaxVertex = Wider(builder.mMaxVertex, Narrow(Wider(source, config.superSource) + 1))
  <2>. HIDE DEF source
  <2>. QED  BY <1>2, <1>3, <1>5, AddsEdge
<1>8. /\ two \in Builders
      /\ two.mEdges = Append(one.mEdges, <<config.superSink, sink>>)
      /\ two.mMaxVertex = Wider(one.mMaxVertex, Narrow(Wider(config.superSink, sink) + 1))
  <2>. HIDE DEF one, sink
  <2>. QED  BY <1>2, <1>3, <1>7, AddsEdge
<1>9. ASSUME NEW b \in Builders, NEW v \in Nat
      PROVE  /\ setSuperSource(b, v) \in Builders /\ setSuperSink(b, v) \in Builders
             /\ setSuperSource(b, v).mEdges = b.mEdges /\ setSuperSink(b, v).mEdges = b.mEdges
             /\ setSuperSource(b, v).mSuperSource = v
             /\ setSuperSink(b, v).mSuperSink = v
             /\ setSuperSink(b, v).mSuperSource = b.mSuperSource
             /\ v + 1 < 2 ^ Width /\ v + 1 <= b.mMaxVertex =>
                   setSuperSource(b, v).mMaxVertex = b.mMaxVertex
             /\ v + 1 < 2 ^ Width =>
                   setSuperSink(b, v).mMaxVertex
                     = IF b.mMaxVertex > v + 1 THEN b.mMaxVertex ELSE v + 1
  <2>1. /\ v + 1 \in Nat /\ Narrow(v + 1) \in Nat /\ Narrow(v + 1) \in Ids
        /\ v + 1 < 2 ^ Width => Narrow(v + 1) = v + 1
    BY NarrowIs
  <2>2. b.mMaxVertex \in Nat /\ b.mMaxVertex \in Ids
    BY DEF Builders, Ids
  <2>3. Wider(b.mMaxVertex, Narrow(v + 1)) \in Ids
    BY <2>1, <2>2 DEF Wider
  <2>4. /\ setSuperSource(b, v) \in Builders /\ setSuperSink(b, v) \in Builders
        /\ setSuperSource(b, v).mEdges = b.mEdges /\ setSuperSink(b, v).mEdges = b.mEdges
        /\ setSuperSource(b, v).mSuperSource = v
        /\ setSuperSink(b, v).mSuperSink = v
        /\ setSuperSink(b, v).mSuperSource = b.mSuperSource
        /\ setSuperSource(b, v).mMaxVertex = Wider(b.mMaxVertex, Narrow(v + 1))
        /\ setSuperSink(b, v).mMaxVertex = Wider(b.mMaxVertex, Narrow(v + 1))
    BY <2>3 DEF setSuperSource, setSuperSink, Builders
  <2>. QED  BY <2>1, <2>2, <2>4 DEF Wider
<1>10. /\ three \in Builders
       /\ three.mEdges = two.mEdges /\ three.mSuperSource = source
       /\ source + 1 < 2 ^ Width /\ source + 1 <= two.mMaxVertex =>
             three.mMaxVertex = two.mMaxVertex
  <2>. HIDE DEF two, source
  <2>. QED  BY <1>2, <1>8, <1>9
<1>11. /\ four \in Builders
       /\ four.mEdges = three.mEdges
       /\ four.mSuperSource = three.mSuperSource /\ four.mSuperSink = sink
       /\ sink + 1 < 2 ^ Width =>
             four.mMaxVertex = IF three.mMaxVertex > sink + 1 THEN three.mMaxVertex ELSE sink + 1
  <2>. HIDE DEF three, sink
  <2>. QED  BY <1>2, <1>9, <1>10
<1>12. ASSUME IdsFit
       PROVE  2 ^ Width \in Nat /\ n + 2 < 2 ^ Width /\ source = n /\ sink = n + 1
  <2>1. 2 ^ Width \in Nat /\ n + 2 < 2 ^ Width
    BY <1>12, LoaderAssumption DEF IdsFit
  <2>. QED  BY <1>1, <2>1, NarrowIs
<1>. HIDE DEF n, source, sink, one, two, three, four
<1>13. ASSUME IdsFit, mVertexCount <= n
       PROVE  four.mMaxVertex = n + 2
  <2>1. one.mMaxVertex = n + 1
    <3>1. Wider(n, config.superSource) = n
      BY <1>1, <1>3, <1>4 DEF Wider
    <3>2. n + 1 < 2 ^ Width /\ n < n + 1 /\ config.superSource < n + 1
      BY <1>1, <1>3, <1>4, <1>12, <1>13
    <3>3. Narrow(n + 1) = n + 1
      BY <1>1, <3>2, NarrowIs
    <3>. QED  BY <1>1, <1>5, <1>7, <1>12, <1>13, <3>1, <3>3 DEF Wider, mVertexCount
  <2>2. two.mMaxVertex = n + 2
    <3>1. Wider(config.superSink, n + 1) = n + 1
      BY <1>1, <1>3, <1>4 DEF Wider
    <3>2. n + 2 \in Nat /\ (n + 1) + 1 = n + 2
      BY <1>1
    <3>3. Narrow(n + 2) = n + 2
      BY <1>12, <1>13, <3>2, NarrowIs
    <3>. QED  BY <1>1, <1>8, <1>12, <1>13, <2>1, <3>1, <3>2, <3>3 DEF Wider
  <2>3. three.mMaxVertex = n + 2
    <3>1. n + 1 < 2 ^ Width /\ n + 1 <= n + 2
      BY <1>1, <1>12, <1>13
    <3>. QED  BY <1>10, <1>12, <1>13, <2>2, <3>1
  <2>4. four.mMaxVertex = n + 2
    <3>1. (n + 1) + 1 < 2 ^ Width /\ (n + 1) + 1 = n + 2 /\ ~(n + 2 > n + 2)
      BY <1>1, <1>12, <1>13
    <3>. QED  BY <1>11, <1>12, <1>13, <2>3, <3>1
  <2>. QED  BY <2>4
<1>14. n \in Nat /\ WithSuperVertices \in Builders
  BY <1>1, <1>6, <1>11
<1>15. /\ four.mSuperSource = source /\ four.mSuperSink = sink
       /\ four.mEdges = Append(Append(mEdges, <<source, config.superSource>>),
                              <<config.superSink, sink>>)
  BY <1>7, <1>8, <1>10, <1>11 DEF mEdges
<1>. QED  BY <1>2, <1>6, <1>13, <1>14, <1>15 DEF n, source, sink

(* An edge of the file is put at the end of the edges.                       *)
LEMMA EdgeRead ==
    ASSUME TypeInv, ReadInv, NEW line \in Numbers \cup {Unparsable}, ReadEdge(line)
    PROVE  /\ line \in Numbers /\ line = <<line[1], line[2]>>
           /\ builder' \in Builders /\ mEdges' = Append(mEdges, line)
           /\ IdsFit /\ mVertexCount <= header[1] => mVertexCount' <= header[1]
<1>1. line \in Numbers
  BY DEF ReadEdge, ParsesAsEdge
<1>2. line[1] \in Nat /\ line[2] \in Nat /\ line = <<line[1], line[2]>>
  BY <1>1 DEF Numbers
<1>3. builder \in Builders /\ builder' = addEdge(builder, line[1], line[2])
  BY DEF TypeInv, ReadEdge
<1>4. /\ builder' \in Builders /\ builder'.mEdges = Append(builder.mEdges, line)
      /\ builder'.mMaxVertex = Wider(builder.mMaxVertex, Narrow(Wider(line[1], line[2]) + 1))
  <2>1. /\ builder' \in Builders
        /\ builder'.mEdges = Append(builder.mEdges, <<line[1], line[2]>>)
        /\ builder'.mMaxVertex = Wider(builder.mMaxVertex, Narrow(Wider(line[1], line[2]) + 1))
    <3>. DEFINE u == line[1]
                v == line[2]
    <3>1. u \in Nat /\ v \in Nat /\ builder \in Builders
      BY <1>2, <1>3
    <3>. HIDE DEF u, v
    <3>2. /\ addEdge(builder, u, v) \in Builders
          /\ addEdge(builder, u, v).mEdges = Append(builder.mEdges, <<u, v>>)
          /\ addEdge(builder, u, v).mMaxVertex
                = Wider(builder.mMaxVertex, Narrow(Wider(u, v) + 1))
      BY <3>1, AddsEdge
    <3>. QED  BY <1>3, <3>2 DEF u, v
  <2>. QED  BY <1>2, <2>1
<1>5. ASSUME IdsFit, mVertexCount <= header[1]
      PROVE  mVertexCount' <= header[1]
  <2>1. header[1] \in Nat /\ line[1] < header[1] /\ line[2] < header[1]
    BY DEF ReadEdge, InRange, TypeInv, Numbers
  <2>2. header[1] + 2 < 2 ^ Width /\ 2 ^ Width \in Nat
    BY <1>5, LoaderAssumption DEF IdsFit
  <2>3. /\ Wider(line[1], line[2]) + 1 \in Nat
        /\ Wider(line[1], line[2]) + 1 <= header[1]
        /\ Wider(line[1], line[2]) + 1 < 2 ^ Width
    BY <1>2, <2>1, <2>2 DEF Wider
  <2>4. Narrow(Wider(line[1], line[2]) + 1) = Wider(line[1], line[2]) + 1
    BY <2>3, NarrowIs
  <2>. QED  BY <1>4, <1>5, <2>3, <2>4 DEF Wider, mVertexCount
<1>. QED  BY <1>1, <1>2, <1>4, <1>5 DEF mEdges

(* A step of the loader keeps the types.                                     *)
LEMMA TypeStep == TypeInv /\ ReadInv /\ LoaderStep => TypeInv'
<1>. SUFFICES ASSUME TypeInv, ReadInv, LoaderStep PROVE TypeInv'
  OBVIOUS
<1>1. ASSUME NEW line \in Numbers \cup {Unparsable}, ReadHeader(line)
      PROVE  TypeInv'
  BY <1>1 DEF TypeInv, ReadHeader, Read
<1>2. ASSUME NEW line \in Numbers \cup {Unparsable}, ReadEdge(line)
      PROVE  TypeInv'
  <2>1. builder' \in Builders
    BY <1>2, EdgeRead
  <2>. QED  BY <1>2, <2>1 DEF TypeInv, ReadEdge, Read
<1>3. ASSUME NEW line \in Numbers \cup {Unparsable}, RejectLine(line)
      PROVE  TypeInv'
  BY <1>3 DEF TypeInv, RejectLine, Read
<1>4. CASE Reject
  BY <1>4 DEF TypeInv, Reject
<1>5. CASE Accept
  <2>1. builder' \in Builders
    BY <1>5, SuperVertices DEF Accept
  <2>. QED  BY <1>5, <2>1 DEF TypeInv, Accept, Built
<1>6. CASE Build
  BY <1>6 DEF TypeInv, Built, Build, CountDegrees, CountBeyondEnd, AddDegree, StartRows, Fill, Ready
<1>7. CASE UNCHANGED vars
  BY <1>7 DEF TypeInv, vars
<1>. QED  BY <1>1, <1>2, <1>3, <1>4, <1>5, <1>6, <1>7 DEF LoaderStep, ReadLine

(* While it reads, the loader has a header and one edge for every other line.*)
LEMMA ReadStep == TypeInv /\ ReadInv /\ LoaderStep => ReadInv'
<1>. SUFFICES ASSUME TypeInv, ReadInv, LoaderStep, pc' = "read"
              PROVE  ReadInv'
  BY DEF ReadInv
<1>0. lines \in Seq(Numbers \cup {Unparsable}) /\ mEdges \in Seq(Numbers)
  BY DEF TypeInv, Builders, mEdges
<1>1. ASSUME NEW line \in Numbers \cup {Unparsable}, ReadHeader(line)
      PROVE  ReadInv'
  <2>1. /\ pc = "read" /\ header = <<>> /\ line \in Numbers
        /\ lines' = Append(lines, line) /\ header' = line
        /\ mEdges' = mEdges /\ mVertexCount' = mVertexCount
    BY <1>1 DEF ReadHeader, Read, mEdges, mVertexCount
  <2>2. lines = <<>> /\ mEdges = <<>> /\ mVertexCount = 0
    <3>1. <<>> \notin Numbers
      BY DEF Numbers
    <3>. QED  BY <2>1, <3>1 DEF ReadInv
  <2>3. Len(lines') = 1 /\ lines'[1] = line /\ lines' # <<>> /\ Len(mEdges') = 0
    BY <1>0, <2>1, <2>2
  <2>4. line[1] \in Nat
    BY <2>1 DEF Numbers
  <2>. QED  BY <2>1, <2>2, <2>3, <2>4 DEF ReadInv
<1>2. ASSUME NEW line \in Numbers \cup {Unparsable}, ReadEdge(line)
      PROVE  ReadInv'
  <2>1. /\ line \in Numbers /\ mEdges' = Append(mEdges, line)
        /\ IdsFit /\ mVertexCount <= header[1] => mVertexCount' <= header[1]
    BY <1>2, EdgeRead
  <2>2. /\ pc = "read" /\ header # <<>> /\ ParsesAsEdge(line) /\ InRange(line)
        /\ lines' = Append(lines, line) /\ header' = header
    BY <1>2 DEF ReadEdge, Read
  <2>3. /\ lines # <<>> /\ header = lines[1] /\ header \in Numbers
        /\ Len(mEdges) = Len(lines) - 1
        /\ \A i \in 2 .. Len(lines) :
              ParsesAsEdge(lines[i]) /\ InRange(lines[i]) /\ mEdges[i - 1] = lines[i]
        /\ IdsFit => mVertexCount <= header[1]
    BY <2>2 DEF ReadInv
  <2>4. /\ Len(lines) \in Nat \ {0} /\ Len(lines') = Len(lines) + 1 /\ lines' # <<>>
        /\ \A i \in 1 .. Len(lines) : lines'[i] = lines[i]
        /\ lines'[Len(lines) + 1] = line
        /\ Len(mEdges') = Len(mEdges) + 1
        /\ \A i \in 1 .. Len(mEdges) : mEdges'[i] = mEdges[i]
        /\ mEdges'[Len(mEdges) + 1] = line
    BY <1>0, <2>1, <2>2, <2>3
  <2>5. ASSUME NEW i \in 2 .. Len(lines')
        PROVE  ParsesAsEdge(lines'[i]) /\ InRange(lines'[i]) /\ mEdges'[i - 1] = lines'[i]
    <3>1. CASE i = Len(lines) + 1
      BY <2>2, <2>3, <2>4, <3>1
    <3>2. CASE i # Len(lines) + 1
      <4>1. i \in 2 .. Len(lines) /\ i - 1 \in 1 .. Len(mEdges)
        BY <2>3, <2>4, <3>2
      <4>2. lines'[i] = lines[i] /\ mEdges'[i - 1] = mEdges[i - 1]
        BY <2>4, <4>1
      <4>. QED  BY <2>3, <4>1, <4>2
    <3>. QED  BY <3>1, <3>2
  <2>6. IdsFit' <=> IdsFit
    BY <2>2 DEF IdsFit
  <2>7. lines'[1] = lines[1]
    BY <2>4
  <2>8. Len(mEdges') = Len(lines') - 1
    BY <2>3, <2>4
  <2>9. \A i \in 2 .. Len(lines') : InRange(lines[i])' <=> InRange(lines'[i])
    BY <2>2 DEF InRange
  <2>. QED  BY <2>1, <2>2, <2>3, <2>4, <2>5, <2>6, <2>7, <2>8, <2>9 DEF ReadInv
<1>3. CASE UNCHANGED vars
  BY <1>3 DEF ReadInv, vars, InRange, IdsFit, mEdges, mVertexCount
<1>. QED
  BY <1>1, <1>2, <1>3
     DEF LoaderStep, ReadLine, RejectLine, Reject, Accept, Build, CountDegrees, CountBeyondEnd,
         AddDegree, StartRows, Fill, Ready

(* A line that is refused makes the file ill-formed, whatever may follow.    *)
LEMMA RejectedLineStep ==
    ASSUME TypeInv, ReadInv, NEW line \in Numbers \cup {Unparsable}, RejectLine(line)
    PROVE  ~WellFormed'
<1>1. /\ pc = "read" /\ lines \in Seq(Numbers \cup {Unparsable})
      /\ lines' = Append(lines, line)
  BY DEF TypeInv, RejectLine, Read
<1>2. CASE lines = <<>>
  <2>1. line = Unparsable
    BY <1>1, <1>2 DEF RejectLine, ReadInv
  <2>2. lines'[1] = Unparsable
    BY <1>1, <1>2, <2>1
  <2>. QED  BY <2>2 DEF WellFormed
<1>3. CASE lines # <<>>
  <2>1. header = lines[1] /\ header # <<>>
    <3>1. header = lines[1] /\ header \in Numbers
      BY <1>1, <1>3 DEF ReadInv
    <3>. QED  BY <3>1 DEF Numbers
  <2>2. /\ Len(lines) + 1 \in 2 .. Len(lines') /\ lines'[Len(lines) + 1] = line
        /\ lines'[1] = lines[1]
    BY <1>1, <1>3
  <2>3. ~(ParsesAsEdge(line) /\ line[1] < lines[1][1] /\ line[2] < lines[1][1])
    BY <2>1 DEF RejectLine, InRange, ParsesAsEdge
  <2>. QED  BY <2>2, <2>3 DEF WellFormed
<1>. QED  BY <1>2, <1>3

(* At its end a file is well-formed exactly if it is accepted.               *)
LEMMA AcceptableIsWellFormed ==
    ASSUME TypeInv, ReadInv, pc = "read"
    PROVE  Acceptable <=> WellFormed
<1>1. lines \in Seq(Numbers \cup {Unparsable}) /\ config.superSource \in Nat
  BY DEF TypeInv
<1>2. CASE lines = <<>>
  BY <1>2 DEF ReadInv, Acceptable, WellFormed
<1>3. CASE lines # <<>>
  <2>1. /\ header = lines[1] /\ header \in Numbers
        /\ Len(mEdges) = Len(lines) - 1
        /\ \A i \in 2 .. Len(lines) : ParsesAsEdge(lines[i]) /\ InRange(lines[i])
    BY <1>3 DEF ReadInv
  <2>2. header[1] \in Nat /\ header # <<>> /\ header # Unparsable
    BY <2>1 DEF Numbers, Unparsable
  <2>. QED  BY <1>1, <1>3, <2>1, <2>2 DEF Acceptable, WellFormed, InRange
<1>. QED  BY <1>2, <1>3

(* An accepted file becomes the graph it describes, if the ids fit.          *)
LEMMA AcceptStep ==
    ASSUME TypeInv, ReadInv, Accept
    PROVE  FileInv'
<1>1. /\ pc = "read" /\ Acceptable /\ builder' = WithSuperVertices /\ pc' = "count"
      /\ lines' = lines /\ header' = header /\ config' = config
  BY DEF Accept
<1>2. WellFormed
  BY <1>1, AcceptableIsWellFormed
<1>3. lines # <<>> /\ header = lines[1] /\ WellFormed'
  BY <1>1, <1>2 DEF WellFormed, ReadInv
<1>4. Loaded'
  <2>. DEFINE n      == header[1]
              source == Narrow(n)
              sink   == Narrow(n + 1)
              first  == <<source, config.superSource>>
              last   == <<config.superSink, sink>>
  <2>1. /\ Len(mEdges) = Len(lines) - 1 /\ (IdsFit => mVertexCount <= n)
        /\ \A i \in 2 .. Len(lines) : mEdges[i - 1] = lines[i]
    BY <1>1, <1>3 DEF ReadInv
  <2>2. /\ n \in Nat /\ source \in Nat /\ sink \in Nat
        /\ WithSuperVertices.mSuperSource = source /\ WithSuperVertices.mSuperSink = sink
        /\ WithSuperVertices.mEdges = Append(Append(mEdges, first), last)
        /\ IdsFit => WithSuperVertices.mMaxVertex = n + 2
    BY <1>1, <2>1, SuperVertices
  <2>3. /\ mEdges \in Seq(Numbers) /\ lines \in Seq(Numbers \cup {Unparsable})
        /\ first \in Numbers /\ last \in Numbers
    BY <2>2 DEF TypeInv, Builders, mEdges, Numbers
  <2>4. n' = n /\ source' = source /\ sink' = sink /\ (IdsFit' <=> IdsFit)
    BY <1>1 DEF IdsFit, Narrow
  <2>. HIDE DEF n, source, sink, first, last
  <2>5. /\ Len(lines) \in Nat \ {0}
        /\ Len(WithSuperVertices.mEdges) = Len(lines) + 1
        /\ \A i \in 1 .. Len(lines) - 1 : WithSuperVertices.mEdges[i] = mEdges[i]
        /\ WithSuperVertices.mEdges[Len(lines)] = first
        /\ WithSuperVertices.mEdges[Len(lines) + 1] = last
    BY <1>3, <2>1, <2>2, <2>3
  <2>6. ASSUME NEW i \in 2 .. Len(lines)
        PROVE  WithSuperVertices.mEdges[i - 1] = lines[i]
    <3>1. i - 1 \in 1 .. Len(lines) - 1
      BY <2>5
    <3>2. mEdges[i - 1] = lines[i]
      BY <2>1
    <3>. QED  BY <2>5, <3>1, <3>2
  <2>7. /\ mEdges' = WithSuperVertices.mEdges /\ (IdsFit => mVertexCount' = n + 2)
        /\ builder'.mSuperSource = source /\ builder'.mSuperSink = sink
    BY <1>1, <2>2 DEF mEdges, mVertexCount
  <2>8. first = <<source, config.superSource>> /\ last = <<config.superSink, sink>>
    BY DEF first, last
  <2>9. /\ Len(mEdges') = Len(lines) + 1
        /\ \A i \in 2 .. Len(lines) : mEdges'[i - 1] = lines[i]
        /\ mEdges'[Len(lines)] = <<source, config.superSource>>
        /\ mEdges'[Len(lines) + 1] = <<config.superSink, sink>>
    BY <2>5, <2>6, <2>7, <2>8
  <2>. QED  BY <1>1, <2>4, <2>7, <2>9 DEF Loaded, n, source, sink
<1>. QED  BY <1>1, <1>3, <1>4 DEF FileInv, Built

(* Only well-formed files become graphs, and the graph is that of the file.  *)
LEMMA FileStep == TypeInv /\ ReadInv /\ FileInv /\ LoaderStep => FileInv'
<1>. SUFFICES ASSUME TypeInv, ReadInv, FileInv, LoaderStep PROVE FileInv'
  OBVIOUS
<1>1. ASSUME NEW line \in Numbers \cup {Unparsable}, ReadHeader(line) \/ ReadEdge(line)
      PROVE  FileInv'
  BY <1>1 DEF FileInv, ReadHeader, ReadEdge, Read, Built
<1>2. ASSUME NEW line \in Numbers \cup {Unparsable}, RejectLine(line)
      PROVE  FileInv'
  BY <1>2, RejectedLineStep DEF FileInv, RejectLine, Built
<1>3. CASE Reject
  <2>1. ~WellFormed
    BY <1>3, AcceptableIsWellFormed DEF Reject
  <2>2. ~WellFormed' /\ pc' = "rejected"
    BY <1>3, <2>1 DEF Reject, WellFormed
  <2>. QED  BY <2>2 DEF FileInv, Built
<1>4. CASE Accept
  BY <1>4, AcceptStep
<1>5. ASSUME pc \in Built, pc' \in Built, UNCHANGED <<config, lines, header, builder>>,
             pc' = "undefined" => ~EndsExist
      PROVE  FileInv'
  <2>1. /\ WellFormed' <=> WellFormed
        /\ Loaded' <=> Loaded
        /\ EndsExist' <=> EndsExist
    BY <1>5 DEF WellFormed, Loaded, IdsFit, EndsExist, mEdges, mVertexCount, Vertices
  <2>. QED  BY <1>5, <2>1 DEF FileInv, Built
<1>6. CASE Build
  <2>1. /\ pc \in Built /\ pc' \in Built /\ UNCHANGED <<config, lines, header, builder>>
        /\ pc' = "undefined" => ~EndsExist
    BY <1>6 DEF Build, CountDegrees, CountBeyondEnd, AddDegree, StartRows, Fill, Ready, Built
  <2>. QED  BY <1>5, <2>1
<1>7. CASE UNCHANGED vars
  BY <1>7
     DEF FileInv, vars, WellFormed, Loaded, IdsFit, EndsExist, mEdges, mVertexCount, Vertices
<1>. QED  BY <1>1, <1>2, <1>3, <1>4, <1>6, <1>7 DEF LoaderStep, ReadLine

(* The ends of the edges are a function from edges to vertices.              *)
LEMMA EndsAre ==
    ASSUME TypeInv, EndsExist
    PROVE  /\ Len(mEdges) \in Nat /\ mVertexCount \in Nat
           /\ \A side \in {1, 2} :
                 /\ Ends(side) \in [1 .. Len(mEdges) -> 0 .. mVertexCount - 1]
                 /\ \A v \in Nat : Degree(side, v) = Cardinality(Of(Ends(side), v))
<1>1. mEdges \in Seq(Numbers) /\ mVertexCount \in Nat
  BY DEF TypeInv, Builders, Ids, mEdges, mVertexCount
<1>2. DOMAIN mEdges = 1 .. Len(mEdges) /\ Len(mEdges) \in Nat
  BY <1>1
<1>3. ASSUME NEW side \in {1, 2}
      PROVE  /\ Ends(side) \in [1 .. Len(mEdges) -> 0 .. mVertexCount - 1]
             /\ \A v \in Nat : Degree(side, v) = Cardinality(Of(Ends(side), v))
  <2>1. \A e \in 1 .. Len(mEdges) : mEdges[e][side] \in 0 .. mVertexCount - 1
    BY <1>2 DEF EndsExist, Vertices
  <2>2. Ends(side) = [e \in 1 .. Len(mEdges) |-> mEdges[e][side]]
    BY <1>2 DEF Ends
  <2>3. \A v \in Nat : {e \in DOMAIN mEdges : mEdges[e][side] = v} = Of(Ends(side), v)
    BY <1>2, <2>2 DEF Of
  <2>. QED  BY <2>1, <2>2, <2>3 DEF Degree
<1>. QED  BY <1>1, <1>2, <1>3

(* A step that leaves the edges alone leaves all this alone.                 *)
LEMMA EdgesKept ==
    ASSUME builder' = builder
    PROVE  /\ mEdges' = mEdges /\ mVertexCount' = mVertexCount /\ Vertices' = Vertices
           /\ EndsExist' <=> EndsExist
           /\ \A side : Ends(side)' = Ends(side)
<1>1. mEdges' = mEdges /\ mVertexCount' = mVertexCount
  BY DEF mEdges, mVertexCount
<1>2. Vertices' = Vertices
  BY <1>1 DEF Vertices
<1>3. \A side : Ends(side)' = Ends(side)
  BY <1>1 DEF Ends
<1>4. EndsExist' <=> EndsExist
  BY <1>1, <1>2 DEF EndsExist
<1>. QED  BY <1>1, <1>2, <1>3, <1>4

(* Before the first degree is added the first row begins at 0.               *)
LEMMA CountStep ==
    ASSUME TypeInv, CountDegrees
    PROVE  RowsInv'
<1>1. /\ EndsExist /\ builder' = builder /\ next' = 0 /\ pc' = "offsets"
      /\ offset' = [side \in {1, 2} |-> [v \in 0 .. mVertexCount |-> 0]]
  BY DEF CountDegrees
<1>2. mVertexCount \in Nat
  BY <1>1, EndsAre
<1>3. ASSUME NEW side \in {1, 2}
      PROVE  Cardinality(Below(Ends(side), 0)) = 0
  <2>. DEFINE m    == Len(mEdges)
              n    == mVertexCount
              ends == Ends(side)
  <2>1. m \in Nat /\ n \in Nat /\ ends \in [1 .. m -> 0 .. n - 1]
    BY <1>1, EndsAre
  <2>. HIDE DEF m, n, ends
  <2>2. Below(ends, 0) = {}
    BY <2>1 DEF Below
  <2>3. Cardinality(Below(ends, 0)) = 0
    BY <2>2, FS_EmptySet
  <2>. QED  BY <2>3 DEF ends
<1>4. OffsetsUpTo(next)'
  <2>1. offset' \in [{1, 2} -> [0 .. mVertexCount -> Nat]]
    BY <1>1
  <2>2. \A side \in {1, 2} : \A v \in 0 .. next' :
           offset'[side][v] = Cardinality(Below(Ends(side), v))
    BY <1>1, <1>2, <1>3
  <2>. QED  BY <1>1, <2>1, <2>2, EdgesKept DEF OffsetsUpTo
<1>. QED  BY <1>1, <1>2, <1>4, EdgesKept DEF RowsInv

(* Adding a degree gives the beginning of the next row.                      *)
LEMMA AddStep ==
    ASSUME TypeInv, RowsInv, AddDegree
    PROVE  RowsInv'
<1>1. /\ EndsExist /\ builder' = builder /\ next \in 0 .. mVertexCount - 1
      /\ next' = next + 1 /\ pc' = "offsets" /\ OffsetsUpTo(next)
      /\ offset' = [side \in {1, 2} |->
                      [offset[side] EXCEPT ![next + 1] = offset[side][next] + Degree(side, next)]]
  BY EndsAre DEF AddDegree, RowsInv
<1>2. mVertexCount \in Nat /\ next \in Nat /\ next + 1 \in 0 .. mVertexCount
  BY <1>1, EndsAre
<1>3. ASSUME NEW side \in {1, 2}
      PROVE  /\ offset'[side] \in [0 .. mVertexCount -> Nat]
             /\ \A v \in 0 .. next + 1 : offset'[side][v] = Cardinality(Below(Ends(side), v))
  <2>1. /\ offset[side] \in [0 .. mVertexCount -> Nat]
        /\ \A v \in 0 .. next : offset[side][v] = Cardinality(Below(Ends(side), v))
    BY <1>1 DEF OffsetsUpTo
  <2>2. /\ Ends(side) \in [1 .. Len(mEdges) -> 0 .. mVertexCount - 1] /\ Len(mEdges) \in Nat
        /\ Degree(side, next) = Cardinality(Of(Ends(side), next))
    BY <1>1, <1>2, EndsAre
  <2>3. Degree(side, next) \in Nat
    BY <1>2, <2>2, RowsFinite
  <2>4. offset[side][next] + Degree(side, next) = Cardinality(Below(Ends(side), next + 1))
    <3>1. Cardinality(Below(Ends(side), next + 1))
            = Cardinality(Below(Ends(side), next)) + Cardinality(Of(Ends(side), next))
      <4>. DEFINE m    == Len(mEdges)
                  n    == mVertexCount
                  ends == Ends(side)
      <4>1. m \in Nat /\ n \in Nat /\ ends \in [1 .. m -> 0 .. n - 1] /\ next \in 0 .. n - 1
        BY <1>1, <1>2, <2>2
      <4>. HIDE DEF m, n, ends
      <4>2. Cardinality(Below(ends, next + 1))
              = Cardinality(Below(ends, next)) + Cardinality(Of(ends, next))
        BY <4>1, OffsetsAddUp
      <4>. QED  BY <4>2 DEF ends
    <3>2. offset[side][next] = Cardinality(Below(Ends(side), next))
      BY <1>2, <2>1
    <3>. QED  BY <2>2, <3>1, <3>2
  <2>5. offset'[side] =
          [offset[side] EXCEPT ![next + 1] = offset[side][next] + Degree(side, next)]
    BY <1>1
  <2>6. offset[side][next] + Degree(side, next) \in Nat
    BY <1>2, <2>1, <2>3
  <2>7. offset'[side] \in [0 .. mVertexCount -> Nat]
    BY <1>2, <2>1, <2>5, <2>6
  <2>8. offset'[side][next + 1] = Cardinality(Below(Ends(side), next + 1))
    BY <1>2, <2>1, <2>4, <2>5
  <2>9. ASSUME NEW v \in 0 .. next
        PROVE  offset'[side][v] = Cardinality(Below(Ends(side), v))
    <3>1. v \in 0 .. mVertexCount /\ v # next + 1
      BY <1>2
    <3>. QED  BY <2>1, <2>5, <3>1
  <2>10. \A v \in 0 .. next + 1 : v \in 0 .. next \/ v = next + 1
    BY <1>2
  <2>. QED  BY <2>7, <2>8, <2>9, <2>10
<1>4. OffsetsUpTo(next)'
  <2>1. offset' \in [{1, 2} -> [0 .. mVertexCount -> Nat]]
    <3>1. DOMAIN offset' = {1, 2} /\ offset' = [side \in {1, 2} |-> offset'[side]]
      BY <1>1
    <3>. QED  BY <1>3, <3>1
  <2>. QED  BY <1>1, <1>3, <2>1, EdgesKept DEF OffsetsUpTo
<1>. QED  BY <1>1, <1>2, <1>4, EdgesKept DEF RowsInv

(* Rows still empty, with a cursor at the beginning of each.                 *)
LEMMA StartStep ==
    ASSUME TypeInv, RowsInv, StartRows
    PROVE  RowsInv'
<1>1. /\ EndsExist /\ builder' = builder /\ next' = 1 /\ pc' = "fill"
      /\ offset' = offset /\ OffsetsUpTo(mVertexCount) /\ cursor' = offset
      /\ adj' = [side \in {1, 2} |-> [i \in 0 .. offset[side][mVertexCount] - 1 |-> 0]]
  BY DEF StartRows, RowsInv
<1>2. mVertexCount \in Nat /\ Len(mEdges) \in Nat
  BY <1>1, EndsAre
<1>3. ASSUME NEW side \in {1, 2}
      PROVE  /\ offset[side][mVertexCount] = Len(mEdges)
             /\ \A v \in Vertices :
                   /\ Cardinality(Below(Ends(side), v)) \in Nat
                   /\ Cardinality(Same(Ends(side), v, 1)) = 0
  <2>1. Ends(side) \in [1 .. Len(mEdges) -> 0 .. mVertexCount - 1]
    BY <1>1, EndsAre
  <2>2. Cardinality(Below(Ends(side), mVertexCount)) = Len(mEdges)
    BY <1>2, <2>1, OffsetsAddUp
  <2>3. offset[side][mVertexCount] = Cardinality(Below(Ends(side), mVertexCount))
    BY <1>1, <1>2 DEF OffsetsUpTo
  <2>4. ASSUME NEW v \in Vertices
        PROVE  /\ Cardinality(Below(Ends(side), v)) \in Nat
               /\ Cardinality(Same(Ends(side), v, 1)) = 0
    <3>1. v \in Nat
      BY DEF Vertices
    <3>. QED  BY <1>2, <2>1, <3>1, RowsFinite, SameSteps
  <2>. QED  BY <2>2, <2>3, <2>4
<1>4. CursorsAt(next)'
  <2>1. offset \in [{1, 2} -> [0 .. mVertexCount -> Nat]]
    BY <1>1 DEF OffsetsUpTo
  <2>2. ASSUME NEW side \in {1, 2}, NEW v \in Vertices
        PROVE  offset[side][v] = Cardinality(Below(Ends(side), v))
                                    + Cardinality(Same(Ends(side), v, 1))
    <3>1. v \in 0 .. mVertexCount
      BY <1>2 DEF Vertices
    <3>2. offset[side][v] = Cardinality(Below(Ends(side), v))
      BY <1>1, <3>1 DEF OffsetsUpTo
    <3>. QED  BY <1>3, <3>2
  <2>. QED  BY <1>1, <2>1, <2>2, EdgesKept DEF CursorsAt
<1>5. PlacedBefore(next)'
  <2>1. adj' = [side \in {1, 2} |-> [i \in 0 .. Len(mEdges) - 1 |-> 0]]
    BY <1>1, <1>3
  <2>. QED  BY <1>1, <2>1, EdgesKept DEF PlacedBefore
<1>6. OffsetsUpTo(mVertexCount)'
  BY <1>1, EdgesKept DEF OffsetsUpTo
<1>. QED  BY <1>1, <1>2, <1>4, <1>5, <1>6, EdgesKept DEF RowsInv

(* Each edge is put where it belongs, and where no edge before it is.        *)
LEMMA FillStep ==
    ASSUME TypeInv, RowsInv, Fill
    PROVE  RowsInv'
<1>. DEFINE place(side) == cursor[side][mEdges[next][side]]
<1>1. /\ EndsExist /\ builder' = builder /\ next \in 1 .. Len(mEdges) /\ next' = next + 1
      /\ pc' = "fill" /\ offset' = offset
      /\ OffsetsUpTo(mVertexCount) /\ CursorsAt(next) /\ PlacedBefore(next)
      /\ adj' = [side \in {1, 2} |-> [adj[side] EXCEPT ![place(side)] = next]]
      /\ cursor' = [cursor EXCEPT ![1][mEdges[next][1]] = @ + 1,
                                  ![2][mEdges[next][2]] = @ + 1]
  BY EndsAre DEF Fill, RowsInv
<1>2. mVertexCount \in Nat /\ Len(mEdges) \in Nat
  BY <1>1, EndsAre
<1>3. ASSUME NEW side \in {1, 2}
      PROVE  /\ Ends(side) \in [1 .. Len(mEdges) -> 0 .. mVertexCount - 1]
             /\ mEdges[next][side] = Ends(side)[next] /\ Ends(side)[next] \in Vertices
             /\ place(side) = Place(Ends(side), next)
  <2>1. Ends(side) \in [1 .. Len(mEdges) -> 0 .. mVertexCount - 1]
    BY <1>1, EndsAre
  <2>2. mEdges[next][side] = Ends(side)[next]
    BY <1>1, <2>1 DEF Ends
  <2>3. Ends(side)[next] \in Vertices
    BY <1>1, <2>1 DEF Vertices
  <2>. QED  BY <1>1, <2>1, <2>2, <2>3 DEF CursorsAt, Place
<1>4. CursorsAt(next)'
  <2>1. cursor \in [{1, 2} -> [0 .. mVertexCount -> Nat]]
    BY <1>1 DEF CursorsAt
  <2>2. ASSUME NEW side \in {1, 2}
        PROVE  /\ cursor'[side] = [cursor[side] EXCEPT ![Ends(side)[next]] = @ + 1]
               /\ Ends(side)[next] \in 0 .. mVertexCount
    <3>1. Ends(side)[next] \in 0 .. mVertexCount
      BY <1>2, <1>3 DEF Vertices
    <3>2. cursor'[side] = [cursor[side] EXCEPT ![mEdges[next][side]] = @ + 1]
      BY <1>1, <2>1
    <3>. QED  BY <1>3, <3>1, <3>2
  <2>3. cursor' \in [{1, 2} -> [0 .. mVertexCount -> Nat]]
    <3>1. ASSUME NEW side \in {1, 2}
          PROVE  cursor'[side] \in [0 .. mVertexCount -> Nat]
      <4>1. cursor[side] \in [0 .. mVertexCount -> Nat]
        BY <2>1
      <4>2. cursor[side][Ends(side)[next]] \in Nat
        <5>1. Ends(side)[next] \in 0 .. mVertexCount
          BY <2>2
        <5>. QED  BY <4>1, <5>1
      <4>. DEFINE row == cursor[side]
                  new == cursor'[side]
                  at  == Ends(side)[next]
      <4>3. new = [row EXCEPT ![at] = row[at] + 1] /\ row \in [0 .. mVertexCount -> Nat]
              /\ row[at] \in Nat
        BY <2>2, <4>1, <4>2
      <4>. HIDE DEF row, new, at
      <4>4. new = [v \in 0 .. mVertexCount |-> IF v = at THEN row[at] + 1 ELSE row[v]]
        BY <4>3
      <4>5. \A v \in 0 .. mVertexCount : (IF v = at THEN row[at] + 1 ELSE row[v]) \in Nat
        BY <4>3
      <4>6. new \in [0 .. mVertexCount -> Nat]
        BY <4>4, <4>5
      <4>. QED  BY <4>6 DEF new
    <3>2. DOMAIN cursor' = {1, 2} /\ cursor' = [side \in {1, 2} |-> cursor'[side]]
      BY <1>1, <2>1
    <3>. QED  BY <3>1, <3>2
  <2>4. ASSUME NEW side \in {1, 2}, NEW v \in Vertices
        PROVE  cursor'[side][v] = Cardinality(Below(Ends(side), v))
                                     + Cardinality(Same(Ends(side), v, next + 1))
    <3>1. v \in 0 .. mVertexCount /\ v \in Nat
      BY <1>2 DEF Vertices
    <3>2. /\ Cardinality(Same(Ends(side), v, next + 1))
               = IF Ends(side)[next] = v THEN Cardinality(Same(Ends(side), v, next)) + 1
                 ELSE Cardinality(Same(Ends(side), v, next))
          /\ Cardinality(Below(Ends(side), v)) \in Nat
          /\ Cardinality(Same(Ends(side), v, next)) \in Nat
      <4>. DEFINE m    == Len(mEdges)
                  n    == mVertexCount
                  ends == Ends(side)
      <4>1. m \in Nat /\ n \in Nat /\ ends \in [1 .. m -> 0 .. n - 1] /\ next \in 1 .. m
        BY <1>1, <1>2, <1>3
      <4>. HIDE DEF m, n, ends
      <4>2. Cardinality(Same(ends, v, next + 1))
              = IF ends[next] = v THEN Cardinality(Same(ends, v, next)) + 1
                ELSE Cardinality(Same(ends, v, next))
        <5>1. \A e \in 1 .. m :
                 Cardinality(Same(ends, v, e + 1))
                    = IF ends[e] = v THEN Cardinality(Same(ends, v, e)) + 1
                      ELSE Cardinality(Same(ends, v, e))
          BY <3>1, <4>1, SameSteps
        <5>. QED  BY <4>1, <5>1
      <4>3. Cardinality(Below(ends, v)) \in Nat /\ Cardinality(Same(ends, v, next)) \in Nat
        BY <3>1, <4>1, RowsFinite
      <4>. QED  BY <4>2, <4>3 DEF ends
    <3>3. cursor[side][v] = Cardinality(Below(Ends(side), v))
                               + Cardinality(Same(Ends(side), v, next))
      BY <1>1 DEF CursorsAt
    <3>4. cursor'[side][v] = IF Ends(side)[next] = v THEN cursor[side][v] + 1 ELSE cursor[side][v]
      <4>1. cursor[side] \in [0 .. mVertexCount -> Nat]
        BY <2>1
      <4>. QED  BY <2>2, <3>1, <4>1
    <3>. QED  BY <3>2, <3>3, <3>4
  <2>5. \A side \in {1, 2} : \A v \in Vertices :
           cursor'[side][v] = Cardinality(Below(Ends(side), v))
                                 + Cardinality(Same(Ends(side), v, next'))
    BY <1>1, <2>4
  <2>6. mVertexCount' = mVertexCount /\ Vertices' = Vertices /\ \A side : Ends(side)' = Ends(side)
    BY <1>1, EdgesKept
  <2>. QED  BY <2>3, <2>5, <2>6 DEF CursorsAt
<1>5. PlacedBefore(next)'
  <2>1. adj \in [{1, 2} -> [0 .. Len(mEdges) - 1 -> Nat]]
    BY <1>1 DEF PlacedBefore
  <2>2. ASSUME NEW side \in {1, 2}
        PROVE  /\ adj'[side] = [adj[side] EXCEPT ![Place(Ends(side), next)] = next]
               /\ Place(Ends(side), next) \in 0 .. Len(mEdges) - 1
    <3>1. adj'[side] = [adj[side] EXCEPT ![place(side)] = next]
      BY <1>1
    <3>2. Place(Ends(side), next) \in 0 .. Len(mEdges) - 1
      BY <1>1, <1>2, <1>3, PlacesDiffer
    <3>. QED  BY <1>3, <3>1, <3>2
  <2>3. adj' \in [{1, 2} -> [0 .. Len(mEdges) - 1 -> Nat]]
    <3>1. ASSUME NEW side \in {1, 2}
          PROVE  adj'[side] \in [0 .. Len(mEdges) - 1 -> Nat]
      <4>. DEFINE row == adj[side]
                  p   == Place(Ends(side), next)
                  P   == 0 .. Len(mEdges) - 1
      <4>1. row \in [P -> Nat] /\ next \in Nat
        BY <1>1, <2>1
      <4>2. adj'[side] = [row EXCEPT ![p] = next]
        BY <2>2
      <4>. HIDE DEF row, p, P
      <4>3. [row EXCEPT ![p] = next] \in [P -> Nat]
        BY <4>1
      <4>. QED  BY <4>2, <4>3 DEF P
    <3>2. DOMAIN adj' = {1, 2} /\ adj' = [side \in {1, 2} |-> adj'[side]]
      BY <1>1
    <3>. QED  BY <3>1, <3>2
  <2>4. ASSUME NEW side \in {1, 2}, NEW f \in 1 .. next
        PROVE  adj'[side][Place(Ends(side), f)] = f
    <3>1. CASE f = next
      BY <2>1, <2>2, <3>1
    <3>2. CASE f # next
      <4>1. f \in 1 .. next - 1 /\ f \in 1 .. Len(mEdges)
        BY <1>1, <1>2, <3>2
      <4>2. adj[side][Place(Ends(side), f)] = f
        BY <1>1, <4>1 DEF PlacedBefore
      <4>3. /\ Place(Ends(side), f) \in 0 .. Len(mEdges) - 1
            /\ Place(Ends(side), f) # Place(Ends(side), next)
        BY <1>1, <1>2, <1>3, <3>2, <4>1, PlacesDiffer
      <4>. QED  BY <2>1, <2>2, <4>2, <4>3
    <3>. QED  BY <3>1, <3>2
  <2>5. (next + 1) - 1 = next
    BY <1>1
  <2>6. \A side \in {1, 2} : \A f \in 1 .. next' - 1 : adj'[side][Place(Ends(side), f)] = f
    BY <1>1, <2>4, <2>5
  <2>7. Len(mEdges)' = Len(mEdges) /\ \A side : Ends(side)' = Ends(side)
    BY <1>1, EdgesKept
  <2>. QED  BY <2>3, <2>6, <2>7 DEF PlacedBefore
<1>6. OffsetsUpTo(mVertexCount)'
  BY <1>1, EdgesKept DEF OffsetsUpTo
<1>7. next' \in 1 .. Len(mEdges) + 1
  BY <1>1, <1>2
<1>. QED  BY <1>1, <1>4, <1>5, <1>6, <1>7, EdgesKept DEF RowsInv

(* Once every edge is in its rows, nothing changes any more.                 *)
LEMMA ReadyStep ==
    ASSUME TypeInv, RowsInv, Ready
    PROVE  RowsInv'
<1>1. /\ EndsExist /\ builder' = builder /\ next \in 1 .. Len(mEdges) + 1 /\ next > Len(mEdges)
      /\ pc' = "ready" /\ offset' = offset /\ adj' = adj
      /\ OffsetsUpTo(mVertexCount) /\ PlacedBefore(next)
  BY DEF Ready, RowsInv, rows
<1>2. next = Len(mEdges) + 1
  BY <1>1, EndsAre
<1>3. /\ mEdges' = mEdges /\ mVertexCount' = mVertexCount /\ EndsExist'
      /\ \A side : Ends(side)' = Ends(side)
  BY <1>1, EdgesKept
<1>4. OffsetsUpTo(mVertexCount)' /\ PlacedBefore(Len(mEdges) + 1)'
  BY <1>1, <1>2, <1>3 DEF OffsetsUpTo, PlacedBefore
<1>. QED  BY <1>1, <1>3, <1>4 DEF RowsInv

(* Every step of buildCsr keeps the rows, and no other step has any.         *)
LEMMA RowsStep == TypeInv /\ RowsInv /\ LoaderStep => RowsInv'
<1>. SUFFICES ASSUME TypeInv, RowsInv, LoaderStep PROVE RowsInv'
  OBVIOUS
<1>1. ASSUME NEW line \in Numbers \cup {Unparsable}, ReadLine(line)
      PROVE  RowsInv'
  <2>1. pc' \in {"read", "rejected"}
    BY <1>1 DEF ReadLine, ReadHeader, ReadEdge, RejectLine, Read
  <2>. QED  BY <2>1 DEF RowsInv
<1>2. CASE Reject \/ Accept \/ CountBeyondEnd
  <2>1. pc' \in {"rejected", "count", "undefined"}
    BY <1>2 DEF Reject, Accept, CountBeyondEnd
  <2>. QED  BY <2>1 DEF RowsInv
<1>3. CASE CountDegrees
  BY <1>3, CountStep
<1>4. CASE AddDegree
  BY <1>4, AddStep
<1>5. CASE StartRows
  BY <1>5, StartStep
<1>6. CASE Fill
  BY <1>6, FillStep
<1>7. CASE Ready
  BY <1>7, ReadyStep
<1>8. CASE UNCHANGED vars
  BY <1>8 DEF vars, rows, RowsInv, OffsetsUpTo, CursorsAt, PlacedBefore, Ends, EndsExist,
              Vertices, mEdges, mVertexCount
<1>. QED  BY <1>1, <1>2, <1>3, <1>4, <1>5, <1>6, <1>7, <1>8 DEF LoaderStep, Build

(* The invariant is inductive.                                               *)
LEMMA LoaderInvStep == LoaderInv /\ LoaderStep => LoaderInv'
  BY TypeStep, ReadStep, FileStep, RowsStep DEF LoaderInv

(* The invariant says which files are accepted, ...                          *)
LEMMA LoaderInvFile == LoaderInv => WellFormedOnly
  BY DEF LoaderInv, FileInv, WellFormedOnly, Built

(* ... that the graph is that of the file, ...                               *)
LEMMA LoaderInvGraph == LoaderInv => GraphOfFile
<1>. SUFFICES ASSUME LoaderInv, pc \in Built, IdsFit
              PROVE  LET n == header[1]
                     IN  /\ mVertexCount = n + 2
                         /\ builder.mSuperSource = n /\ builder.mSuperSink = n + 1
                         /\ SubSeq(mEdges, 1, Len(mEdges) - 2) = Tail(lines)
                         /\ {e \in DOMAIN mEdges : n \in ToSet(mEdges[e])} = {Len(mEdges) - 1}
                         /\ {e \in DOMAIN mEdges : n + 1 \in ToSet(mEdges[e])} = {Len(mEdges)}
                         /\ pc # "undefined"
  BY DEF GraphOfFile, Built
<1>. DEFINE n == header[1]
            m == Len(mEdges)
<1>0. ASSUME NEW k \in Nat
      PROVE  \A e \in 1 .. k : e \in 1 .. k - 2 \/ e = k - 1 \/ e = k
  OBVIOUS
<1>1. /\ WellFormed /\ Loaded /\ header = lines[1] /\ (pc = "undefined" => ~EndsExist)
      /\ mEdges \in Seq(Numbers) /\ lines \in Seq(Numbers \cup {Unparsable})
      /\ config.superSource \in Nat /\ config.superSink \in Nat
  BY DEF LoaderInv, FileInv, TypeInv, Builders, mEdges
<1>2. lines # <<>> /\ lines[1] \in Numbers /\ Len(lines) \in Nat \ {0}
  BY <1>1 DEF WellFormed
<1>3. n \in Nat /\ config.superSource < n /\ config.superSink < n
  BY <1>1, <1>2 DEF Numbers, WellFormed
<1>4. /\ mVertexCount = n + 2 /\ builder.mSuperSource = n /\ builder.mSuperSink = n + 1
      /\ m = Len(lines) + 1
      /\ \A i \in 2 .. Len(lines) : mEdges[i - 1] = lines[i]
      /\ mEdges[m - 1] = <<n, config.superSource>> /\ mEdges[m] = <<config.superSink, n + 1>>
  <2>1. m = Len(lines) + 1 /\ m - 1 = Len(lines)
    BY <1>1, <1>2 DEF Loaded
  <2>2. n < 2 ^ Width /\ n + 1 < 2 ^ Width /\ n + 1 \in Nat
    <3>1. n + 2 < 2 ^ Width /\ 2 ^ Width \in Nat
      BY LoaderAssumption DEF IdsFit
    <3>. QED  BY <1>3, <3>1
  <2>3. Narrow(n) = n /\ Narrow(n + 1) = n + 1
    BY <1>3, <2>2, NarrowIs
  <2>. QED  BY <1>1, <2>1, <2>3 DEF Loaded
<1>5. DOMAIN mEdges = 1 .. m /\ m \in Nat
  BY <1>1
<1>6. ASSUME NEW e \in 1 .. m - 2
      PROVE  /\ mEdges[e] = lines[e + 1] /\ mEdges[e] \in Numbers
             /\ mEdges[e][1] < n /\ mEdges[e][2] < n
  <2>1. e + 1 \in 2 .. Len(lines) /\ (e + 1) - 1 = e
    BY <1>2, <1>4
  <2>2. mEdges[e] = lines[e + 1]
    BY <1>4, <2>1
  <2>3. lines[e + 1][1] < lines[1][1] /\ lines[e + 1][2] < lines[1][1]
    BY <1>1, <2>1 DEF WellFormed
  <2>4. mEdges[e] \in Numbers
    BY <1>1, <1>5
  <2>. QED  BY <1>1, <2>2, <2>3, <2>4
<1>7. SubSeq(mEdges, 1, m - 2) = Tail(lines)
  <2>0. m - 2 = Len(lines) - 1 /\ m - 2 \in Nat /\ m - 2 <= m
    BY <1>2, <1>4
  <2>1. Len(SubSeq(mEdges, 1, m - 2)) = m - 2
    <3>. DEFINE k == m - 2
    <3>1. k \in Nat /\ k <= Len(mEdges) /\ mEdges \in Seq(Numbers)
      BY <1>1, <2>0
    <3>. HIDE DEF k
    <3>2. Len(SubSeq(mEdges, 1, k)) = k
      BY <3>1
    <3>. QED  BY <3>2 DEF k
  <2>2. Len(Tail(lines)) = m - 2
    BY <1>1, <1>2, <2>0
  <2>3. ASSUME NEW i \in 1 .. m - 2
        PROVE  SubSeq(mEdges, 1, m - 2)[i] = Tail(lines)[i]
    <3>1. SubSeq(mEdges, 1, m - 2)[i] = mEdges[i]
      BY <1>1, <1>2, <1>4
    <3>2. Tail(lines)[i] = lines[i + 1]
      BY <1>1, <1>2, <1>4
    <3>. QED  BY <1>6, <3>1, <3>2
  <2>4. /\ SubSeq(mEdges, 1, m - 2) \in Seq(Numbers \cup {Unparsable})
        /\ Tail(lines) \in Seq(Numbers \cup {Unparsable})
    BY <1>1, <1>2, <1>4
  <2>. QED  BY <2>1, <2>2, <2>3, <2>4
<1>8. ASSUME NEW e \in 1 .. m
      PROVE  /\ n \in ToSet(mEdges[e]) <=> e = m - 1
             /\ n + 1 \in ToSet(mEdges[e]) <=> e = m
  <2>1. mEdges[e] \in Numbers
    BY <1>1, <1>5
  <2>2. ToSet(mEdges[e]) = {mEdges[e][1], mEdges[e][2]}
    BY <2>1 DEF Numbers, ToSet
  <2>3. CASE e \in 1 .. m - 2
    <3>1. mEdges[e][1] \in Nat /\ mEdges[e][2] \in Nat
      BY <2>1 DEF Numbers
    <3>2. mEdges[e][1] < n /\ mEdges[e][2] < n
      BY <1>6, <2>3, <3>1
    <3>3. e # m - 1 /\ e # m
      <4>1. m \in Nat
        BY <1>5
      <4>. HIDE DEF m
      <4>. QED  BY <2>3, <4>1
    <3>. QED  BY <2>2, <3>1, <3>2, <3>3, <1>3
  <2>4. CASE e = m - 1
    BY <1>3, <1>4, <2>2, <2>4
  <2>5. CASE e = m
    BY <1>3, <1>4, <2>2, <2>5
  <2>6. e \in 1 .. m - 2 \/ e = m - 1 \/ e = m
    BY <1>0, <1>5
  <2>. QED  BY <2>3, <2>4, <2>5, <2>6
<1>9. m - 1 \in 1 .. m /\ m \in 1 .. m
  BY <1>2, <1>4
<1>10. {e \in DOMAIN mEdges : n \in ToSet(mEdges[e])} = {m - 1}
  BY <1>5, <1>8, <1>9
<1>11. {e \in DOMAIN mEdges : n + 1 \in ToSet(mEdges[e])} = {m}
  BY <1>5, <1>8, <1>9
<1>12. EndsExist
  <2>1. ASSUME NEW e \in 1 .. m
        PROVE  mEdges[e][1] \in 0 .. n + 1 /\ mEdges[e][2] \in 0 .. n + 1
    <3>1. CASE e \in 1 .. m - 2
      BY <1>3, <1>6, <3>1 DEF Numbers
    <3>2. CASE e = m - 1
      BY <1>1, <1>3, <1>4, <3>2
    <3>3. CASE e = m
      BY <1>1, <1>3, <1>4, <3>3
    <3>4. e \in 1 .. m - 2 \/ e = m - 1 \/ e = m
      BY <1>0, <1>5
    <3>. QED  BY <3>1, <3>2, <3>3, <3>4
  <2>2. mVertexCount - 1 = n + 1
    BY <1>3, <1>4
  <2>. QED  BY <1>5, <2>1, <2>2 DEF EndsExist, Vertices
<1>. QED  BY <1>1, <1>4, <1>7, <1>10, <1>11, <1>12

(* ... and that its rows are its adjacency lists.                            *)
LEMMA LoaderInvRows == LoaderInv => RowsExact
<1>. SUFFICES ASSUME LoaderInv, pc = "ready", NEW v \in Vertices
              PROVE  /\ ToSet(outgoingEdges(v)) = {e \in DOMAIN mEdges : mEdges[e][1] = v}
                     /\ ToSet(incomingEdges(v)) = {e \in DOMAIN mEdges : mEdges[e][2] = v}
                     /\ Ascending(outgoingEdges(v)) /\ Ascending(incomingEdges(v))
  BY DEF RowsExact
<1>1. /\ TypeInv /\ EndsExist
      /\ OffsetsUpTo(mVertexCount) /\ PlacedBefore(Len(mEdges) + 1)
  BY DEF LoaderInv, RowsInv
<1>2. ASSUME NEW side \in {1, 2}
      PROVE  /\ ToSet(Row(side, v)) = {e \in DOMAIN mEdges : mEdges[e][side] = v}
             /\ Ascending(Row(side, v))
  <2>. DEFINE m    == Len(mEdges)
              n    == mVertexCount
              ends == Ends(side)
              a    == adj[side]
              o    == offset[side]
              row  == Row(side, v)
  <2>1. m \in Nat /\ n \in Nat /\ ends \in [1 .. m -> 0 .. n - 1] /\ v \in 0 .. n - 1
    BY <1>1, EndsAre DEF Vertices
  <2>2. Placed(ends, a)
    <3>1. (m + 1) - 1 = m
      BY <2>1
    <3>. QED  BY <1>1, <2>1, <3>1 DEF PlacedBefore, Placed
  <2>3. \A u \in 0 .. n : o[u] = Cardinality(Below(ends, u))
    BY <1>1 DEF OffsetsUpTo
  <2>4. row = [i \in 1 .. o[v + 1] - o[v] |-> a[o[v] + i - 1]]
    BY DEF Row
  <2>5. {e \in DOMAIN mEdges : mEdges[e][side] = v} = Of(ends, v)
    BY DEF Of, Ends
  <2>. HIDE DEF m, n, ends, a, o, row
  <2>6. Cardinality(Below(ends, v + 1)) = Cardinality(Below(ends, v)) + Cardinality(Of(ends, v))
    BY <2>1, OffsetsAddUp
  <2>7. /\ v \in 0 .. n /\ v + 1 \in 0 .. n /\ v \in Nat
        /\ Cardinality(Below(ends, v)) \in Nat /\ Cardinality(Of(ends, v)) \in Nat
    BY <2>1, RowsFinite
  <2>8. o[v] = Cardinality(Below(ends, v)) /\ o[v + 1] - o[v] = Cardinality(Of(ends, v))
    BY <2>3, <2>6, <2>7
  <2>9. row = [i \in 1 .. Cardinality(Of(ends, v)) |-> a[Cardinality(Below(ends, v)) + i - 1]]
    BY <2>4, <2>8
  <2>10. CutOut(ends, a, v, row)
    BY <2>7, <2>9 DEF CutOut
  <2>11. ToSet(row) = Of(ends, v) /\ Ascending(row)
    BY <2>1, <2>2, <2>10, RowExact
  <2>. QED  BY <2>5, <2>11 DEF row
<1>. QED  BY <1>2 DEF outgoingEdges, incomingEdges
-----------------------------------------------------------------------------
(***************************************************************************)
(* Graphgen: what it writes.                                               *)
(***************************************************************************)
\* The edges so far: as many as were drawn, but for those that came to nothing.
EdgesInv ==
    LET n == request.n
    IN  edges # <<>> =>
           /\ n >= 2 /\ draws \in 0 .. Remaining /\ dropped <= draws
           /\ Len(edges) = n - 1 + draws - dropped
           /\ \A i \in 1 .. Len(edges) : edges[i] \in (0 .. n - 1) \X (0 .. n - 1)

\* The file: the header asked for, the path, all the edges.
WrittenInv ==
    LET n == request.n
    IN  file # <<>> =>
           /\ edges # <<>> /\ draws = Remaining
           /\ Len(file) = Len(edges) + 1 /\ file[1] = <<n, request.m>>
           /\ \A v \in 1 .. n - 1 : file[v + 1] = <<v - 1, v>>
           /\ \A i \in 2 .. Len(file) : file[i] \in (0 .. n - 1) \X (0 .. n - 1)

\* The file of a chain: the header, then diamond after diamond.
ChainInv ==
    LET k == request.k
    IN  file # <<>> =>
           /\ Len(file) = 4 * k + 1 /\ file[1] = <<3 * k + 1, 4 * k>>
           /\ \A i \in 0 .. k - 1 : \A c \in 1 .. 4 :
                 file[4 * i + c + 1] = Diamond(3 * i)[c]
           /\ \A j \in 2 .. Len(file) : file[j] \in (0 .. 3 * k) \X (0 .. 3 * k)

GraphgenInv ==
    /\ request \in Request
    /\ edges \in Seq(Numbers) /\ file \in Seq(Numbers) /\ draws \in Nat /\ dropped \in Nat
    /\ edges = <<>> => draws = 0 /\ dropped = 0
    /\ edges # <<>> => request.mode = "random"
    /\ request.mode = "random" => EdgesInv /\ WrittenInv
    /\ request.mode = "chain" => ChainInv

(* A function on 1 .. k is a sequence.                                       *)
LEMMA FunctionIsSequence ==
    ASSUME NEW k \in Nat, NEW S, NEW f \in [1 .. k -> S]
    PROVE  f \in Seq(S) /\ Len(f) = k
  OBVIOUS

(* A file is put together from a header and two sequences of edges.          *)
LEMMA HeaderAndEdges ==
    ASSUME NEW h \in Numbers, NEW s \in Seq(Numbers), NEW t \in Seq(Numbers)
    PROVE  /\ <<h>> \o s \o t \in Seq(Numbers)
           /\ Len(<<h>> \o s \o t) = 1 + Len(s) + Len(t)
           /\ (<<h>> \o s \o t)[1] = h
<1>1. <<h>> \in Seq(Numbers) /\ Len(<<h>>) = 1 /\ <<h>>[1] = h
  OBVIOUS
<1>2. /\ <<h>> \o s \in Seq(Numbers) /\ Len(<<h>> \o s) = 1 + Len(s)
      /\ (<<h>> \o s)[1] = h
  BY <1>1
<1>. QED  BY <1>2

(* Where the first sequence ends up, ...                                     *)
LEMMA FirstEdges ==
    ASSUME NEW h \in Numbers, NEW s \in Seq(Numbers), NEW t \in Seq(Numbers), NEW i \in 1 .. Len(s)
    PROVE  (<<h>> \o s \o t)[i + 1] = s[i]
  OBVIOUS

(* ... and where the second.                                                 *)
LEMMA LastEdges ==
    ASSUME NEW h \in Numbers, NEW s \in Seq(Numbers), NEW t \in Seq(Numbers),
           NEW i \in 2 .. 1 + Len(s) + Len(t), i > Len(s) + 1
    PROVE  /\ i - Len(s) - 1 \in 1 .. Len(t)
           /\ (<<h>> \o s \o t)[i] = t[i - Len(s) - 1]
  OBVIOUS

(* What is asked for are natural numbers.                                    *)
LEMMA Asked ==
    ASSUME GraphgenInv
    PROVE  /\ request.mode = "chain" => request.k \in Nat
           /\ request.mode = "random" => request.n \in Nat /\ request.m \in Nat
  BY RequestAssumption DEF GraphgenInv

(* A file is put together from a header and one sequence of edges. *)
LEMMA HeaderFirst ==
    ASSUME NEW h \in Numbers, NEW s \in Seq(Numbers)
    PROVE  /\ <<h>> \o s \in Seq(Numbers) /\ Len(<<h>> \o s) = Len(s) + 1
           /\ (<<h>> \o s)[1] = h /\ \A e \in 1 .. Len(s) : (<<h>> \o s)[e + 1] = s[e]
<1>1. <<h>> \in Seq(Numbers) /\ Len(<<h>>) = 1 /\ <<h>>[1] = h
  OBVIOUS
<1>. QED  BY <1>1

(* A chain is a file of numbers, diamond after diamond. *)
LEMMA ChainStep ==
    ASSUME GraphgenInv, GenerateChain
    PROVE  GraphgenInv'
<1>. DEFINE k == request.k
            edge == [e \in 1 .. 4 * k |-> Diamond(3 * ((e - 1) \div 4))[((e - 1) % 4) + 1]]
            h == <<3 * k + 1, 4 * k>>
<1>1. request.mode = "chain" /\ k \in Nat
  BY Asked DEF GenerateChain
<1>2. ASSUME NEW i \in 0 .. k - 1, NEW c \in 1 .. 4
      PROVE  edge[4 * i + c] = Diamond(3 * i)[c]
  <2>. DEFINE e == 4 * i + c
  <2>1. e \in 1 .. 4 * k
    BY <1>1
  <2>2. (e - 1) \div 4 = i /\ (e - 1) % 4 = c - 1
    BY <1>1
  <2>3. ((e - 1) % 4) + 1 = c
    BY <2>2
  <2>. HIDE DEF e
  <2>4. edge[e] = Diamond(3 * i)[c]
    BY <2>1, <2>2, <2>3
  <2>. QED  BY <2>4 DEF e
<1>3. ASSUME NEW e \in 1 .. 4 * k
      PROVE  edge[e] \in Numbers /\ edge[e] \in (0 .. 3 * k) \X (0 .. 3 * k)
  <2>. DEFINE i == (e - 1) \div 4
              c == ((e - 1) % 4) + 1
  <2>1. i \in Nat /\ c \in 1 .. 4 /\ e = (4 * i) + c
    BY <1>1
  <2>2. edge[e] = Diamond(3 * i)[c]
    OBVIOUS
  <2>. HIDE DEF i, c, edge
  <2>3. i \in 0 .. k - 1 /\ 3 * i + 3 <= 3 * k
    BY <1>1, <2>1
  <2>4. ASSUME NEW a \in Nat, a + 3 <= 3 * k
        PROVE  Diamond(a)[c] \in Numbers /\ Diamond(a)[c] \in (0 .. 3 * k) \X (0 .. 3 * k)
    BY <1>1, <2>1, <2>4 DEF Diamond, Numbers
  <2>5. 3 * i \in Nat
    BY <2>3
  <2>. QED  BY <2>2, <2>3, <2>4, <2>5
<1>4. edge \in Seq(Numbers) /\ Len(edge) = 4 * k
  <2>1. edge = [e \in 1 .. 4 * k |-> edge[e]] /\ 4 * k \in Nat
    BY <1>1
  <2>. HIDE DEF edge
  <2>2. edge \in [1 .. 4 * k -> Numbers]
    BY <1>3, <2>1
  <2>. QED  BY <2>1, <2>2, FunctionIsSequence
<1>5. h \in Numbers
  BY <1>1 DEF Numbers
<1>6. file' = <<h>> \o edge
  BY DEF GenerateChain
<1>. HIDE DEF k, edge, h
<1>7. /\ file' \in Seq(Numbers) /\ Len(file') = 4 * k + 1 /\ file'[1] = h
      /\ \A e \in 1 .. 4 * k : file'[e + 1] = edge[e]
  BY <1>4, <1>5, <1>6, HeaderFirst
<1>8. ASSUME NEW i \in 0 .. k - 1, NEW c \in 1 .. 4
      PROVE  file'[4 * i + c + 1] = Diamond(3 * i)[c]
  <2>1. 4 * i + c \in 1 .. 4 * k
    BY <1>1
  <2>. QED  BY <1>2, <1>7, <2>1
<1>9. ASSUME NEW j \in 2 .. 4 * k + 1
      PROVE  file'[j] \in (0 .. 3 * k) \X (0 .. 3 * k)
  <2>1. j - 1 \in 1 .. 4 * k /\ (j - 1) + 1 = j
    BY <1>1
  <2>. QED  BY <1>3, <1>7, <2>1
<1>10. request' = request
  BY DEF GenerateChain
<1>11. ChainInv'
  BY <1>7, <1>8, <1>9, <1>10 DEF ChainInv, k, h
<1>. QED  BY <1>1, <1>7, <1>11 DEF GraphgenInv, GenerateChain

(* The path is the first of the edges.                                       *)
LEMMA PathStep ==
    ASSUME GraphgenInv, GeneratePath, file = <<>>
    PROVE  GraphgenInv'
<1>. DEFINE n == request.n
<1>1. /\ n \in Nat /\ request.m \in Nat /\ n >= 2 /\ Remaining \in Nat
      /\ request.mode = "random" /\ edges = <<>> /\ draws = 0 /\ dropped = 0
      /\ UNCHANGED <<request, draws, dropped, file>>
  BY Asked DEF GeneratePath, Refuses, Remaining, GraphgenInv
<1>2. edges' = [v \in 1 .. n - 1 |-> <<v - 1, v>>]
  BY DEF GeneratePath, MainPath
<1>3. \A v \in 1 .. n - 1 : <<v - 1, v>> \in (0 .. n - 1) \X (0 .. n - 1)
  BY <1>1
<1>4. n' = n /\ Remaining' = Remaining
  BY <1>1 DEF Remaining
<1>. HIDE DEF n
<1>5. /\ edges' \in Seq(Numbers) /\ edges' # <<>> /\ Len(edges') = n - 1
      /\ \A i \in 1 .. Len(edges') : edges'[i] \in (0 .. n - 1) \X (0 .. n - 1)
  <2>1. \A v \in 1 .. n - 1 : <<v - 1, v>> \in Numbers
    <3>1. \A v \in 1 .. n - 1 : v - 1 \in Nat /\ v \in Nat
      BY <1>1
    <3>. QED  BY <3>1 DEF Numbers
  <2>2. edges' \in Seq(Numbers) /\ Len(edges') = n - 1 /\ n - 1 > 0
    <3>1. n - 1 \in Nat /\ n - 1 > 0
      BY <1>1
    <3>2. edges' \in [1 .. n - 1 -> Numbers]
      BY <1>2, <2>1
    <3>. QED  BY <3>1, <3>2, FunctionIsSequence
  <2>3. \A i \in 1 .. n - 1 : edges'[i] \in (0 .. n - 1) \X (0 .. n - 1)
    BY <1>2, <1>3
  <2>4. edges' # <<>>
    BY <2>2
  <2>. QED  BY <2>2, <2>3, <2>4
<1>6. EdgesInv'
  BY <1>1, <1>4, <1>5 DEF EdgesInv, n
<1>7. WrittenInv'
  BY <1>1 DEF WrittenInv
<1>. QED  BY <1>1, <1>5, <1>6, <1>7 DEF GraphgenInv

(* A draw adds an edge between two of the vertices, or nothing.              *)
LEMMA DrawnStep ==
    ASSUME GraphgenInv, Drawn, file = <<>>
    PROVE  GraphgenInv'
<1>. DEFINE n == request.n
            V == 0 .. n - 1
<1>1. /\ n \in Nat /\ request.mode = "random"
      /\ request' = request /\ file' = file /\ draws' = draws + 1
      /\ edges # <<>> /\ draws < Remaining
  BY Asked DEF Drawn, DrawCycle, DrawSide, DrawAny, Draw
<1>2. \/ \E edge \in V \X V : edges' = Append(edges, edge) /\ dropped' = dropped
      \/ edges' = edges /\ dropped' = dropped + 1
  <2>1. PICK u \in V, v \in V : DrawCycle(u, v) \/ DrawSide(u, v) \/ DrawAny(u, v)
    BY DEF Drawn
  <2>2. /\ <<u, v>> \in V \X V /\ <<Max2(u, v), Min2(u, v)>> \in V \X V
        /\ <<Min2(u, v), Max2(u, v)>> \in V \X V
        /\ Min2(u, v) + 2 < n => <<Min2(u, v), Min2(u, v) + 2>> \in V \X V
    BY <1>1 DEF Min2, Max2
  <2>3. CASE DrawCycle(u, v)
    BY <2>2, <2>3 DEF DrawCycle
  <2>4. CASE DrawSide(u, v)
    BY <2>2, <2>4 DEF DrawSide
  <2>5. CASE DrawAny(u, v)
    BY <2>2, <2>5 DEF DrawAny
  <2>. QED  BY <2>1, <2>3, <2>4, <2>5
<1>3. /\ n >= 2 /\ draws \in 0 .. Remaining /\ dropped <= draws
      /\ Len(edges) = n - 1 + draws - dropped
      /\ \A i \in 1 .. Len(edges) : edges[i] \in V \X V
  BY <1>1 DEF GraphgenInv, EdgesInv
<1>4. edges \in Seq(Numbers) /\ draws \in Nat /\ dropped \in Nat /\ request \in Request
  BY DEF GraphgenInv
<1>5. Remaining \in Int /\ Remaining' = Remaining /\ n' = n
  BY <1>1, Asked DEF Remaining
<1>6. V \X V \subseteq Numbers
  BY <1>1 DEF Numbers
<1>. HIDE DEF n, V
<1>. DEFINE OneMore ==
                /\ edges' \in Seq(Numbers) /\ edges' # <<>>
                /\ dropped' \in Nat /\ dropped' <= draws'
                /\ Len(edges') = n - 1 + draws' - dropped'
                /\ \A i \in 1 .. Len(edges') : edges'[i] \in V \X V
<1>7. OneMore
  <2>1. CASE edges' = edges /\ dropped' = dropped + 1
    <3>1. dropped' \in Nat /\ dropped' <= draws'
      BY <1>1, <1>3, <1>4, <2>1
    <3>2. Len(edges') = n - 1 + draws' - dropped'
      <4>1. draws' = draws + 1 /\ dropped' = dropped + 1 /\ Len(edges') = Len(edges)
        BY <1>1, <2>1
      <4>2. n \in Int /\ draws \in Int /\ dropped \in Int /\ Len(edges) = n - 1 + draws - dropped
        BY <1>1, <1>3, <1>4
      <4>. QED  BY <4>1, <4>2
    <3>. QED  BY <1>1, <1>3, <1>4, <2>1, <3>1, <3>2
  <2>2. ASSUME NEW edge \in V \X V, edges' = Append(edges, edge), dropped' = dropped
        PROVE  OneMore
    <3>1. edge \in Numbers
      BY <1>6
    <3>2. edges' \in Seq(Numbers) /\ edges' # <<>> /\ Len(edges') = Len(edges) + 1
      BY <1>4, <2>2, <3>1
    <3>3. ASSUME NEW i \in 1 .. Len(edges')
          PROVE  edges'[i] \in V \X V
      BY <1>3, <1>4, <2>2, <3>1, <3>2
    <3>. QED  BY <1>1, <1>3, <1>4, <2>2, <3>2, <3>3
  <2>. QED  BY <1>2, <2>1, <2>2
<1>8. EdgesInv'
  <2>1. draws' \in 0 .. Remaining
    BY <1>1, <1>4, <1>5
  <2>. QED  BY <1>3, <1>5, <1>7, <2>1 DEF EdgesInv, n, V
<1>9. WrittenInv'
  BY <1>1 DEF WrittenInv
<1>. QED  BY <1>1, <1>4, <1>7, <1>8, <1>9 DEF GraphgenInv

(* The shuffle leaves the path where it is, and loses no edge.               *)
LEMMA WriteStep ==
    ASSUME GraphgenInv, WriteRandom, file = <<>>
    PROVE  GraphgenInv'
<1>. DEFINE n     == request.n
            V     == 0 .. n - 1
            h     == <<n, request.m>>
            path  == MainPath
            extra == SubSeq(edges, Len(MainPath) + 1, Len(edges))
<1>1. /\ edges # <<>> /\ request.mode = "random" /\ draws = Remaining
      /\ UNCHANGED <<request, edges, draws, dropped>>
  BY DEF WriteRandom, GraphgenInv
<1>2. /\ n \in Nat /\ request.m \in Nat /\ n >= 2 /\ dropped <= draws
      /\ Len(edges) = n - 1 + draws - dropped
      /\ \A i \in 1 .. Len(edges) : edges[i] \in V \X V
  BY <1>1, Asked DEF GraphgenInv, EdgesInv
<1>3. edges \in Seq(Numbers) /\ draws \in Nat /\ dropped \in Nat
  BY DEF GraphgenInv
<1>4. PICK p \in [DOMAIN extra -> DOMAIN extra] :
         file' = <<h>> \o path \o [j \in DOMAIN p |-> extra[p[j]]]
  BY DEF WriteRandom
<1>. DEFINE mixed == [j \in DOMAIN p |-> extra[p[j]]]
<1>5. path = [v \in 1 .. n - 1 |-> <<v - 1, v>>]
  BY DEF MainPath
<1>6. V \X V \subseteq Numbers /\ h \in Numbers
  BY <1>2 DEF Numbers
<1>7. \A v \in 1 .. n - 1 : <<v - 1, v>> \in V \X V
  BY <1>2
<1>8. n' = n /\ Remaining' = Remaining /\ request' = request
  BY <1>1 DEF Remaining
<1>9. extra = SubSeq(edges, Len(path) + 1, Len(edges))
  OBVIOUS
<1>. HIDE DEF n, V, h, path, extra
<1>10. path \in Seq(Numbers) /\ Len(path) = n - 1 /\ \A v \in 1 .. n - 1 : path[v] = <<v - 1, v>>
  <2>1. n - 1 \in Nat
    BY <1>2
  <2>2. \A v \in 1 .. n - 1 : <<v - 1, v>> \in Numbers
    BY <1>6, <1>7
  <2>. QED  BY <1>5, <2>1, <2>2
<1>11. /\ extra \in Seq(Numbers) /\ Len(extra) = Len(edges) - (n - 1)
       /\ Len(edges) - (n - 1) \in Nat
       /\ \A i \in 1 .. Len(extra) : extra[i] \in V \X V
  <2>1. Len(edges) >= n - 1 /\ Len(edges) \in Nat /\ n - 1 \in Nat
    BY <1>2, <1>3
  <2>2. extra = SubSeq(edges, (n - 1) + 1, Len(edges))
    BY <1>9, <1>10
  <2>3. extra \in Seq(Numbers) /\ Len(extra) = Len(edges) - (n - 1)
    BY <1>3, <2>1, <2>2
  <2>4. ASSUME NEW i \in 1 .. Len(extra)
        PROVE  extra[i] \in V \X V
    <3>1. (n - 1) + i \in 1 .. Len(edges) /\ extra[i] = edges[(n - 1) + i]
      BY <1>3, <2>1, <2>2, <2>3
    <3>. QED  BY <1>2, <3>1
  <2>. QED  BY <2>1, <2>3, <2>4
<1>12. DOMAIN extra = 1 .. Len(extra)
  BY <1>11
<1>13. /\ mixed \in Seq(Numbers) /\ Len(mixed) = Len(extra)
       /\ \A i \in 1 .. Len(mixed) : mixed[i] \in V \X V
  <2>1. \A i \in 1 .. Len(extra) : p[i] \in 1 .. Len(extra) /\ extra[p[i]] \in V \X V
    BY <1>11, <1>12
  <2>2. mixed = [j \in 1 .. Len(extra) |-> extra[p[j]]] /\ Len(extra) \in Nat
    BY <1>11, <1>12
  <2>3. \A j \in 1 .. Len(extra) : extra[p[j]] \in Numbers
    BY <1>6, <2>1
  <2>. HIDE DEF mixed
  <2>4. mixed \in Seq(Numbers) /\ Len(mixed) = Len(extra)
    BY <2>2, <2>3
  <2>. QED  BY <2>1, <2>2, <2>4
<1>14. file' = <<h>> \o path \o mixed
  BY <1>4
<1>. HIDE DEF mixed
<1>15. /\ file' \in Seq(Numbers) /\ Len(file') = Len(edges) + 1 /\ file'[1] = h
  <2>1. /\ file' \in Seq(Numbers) /\ Len(file') = 1 + Len(path) + Len(mixed) /\ file'[1] = h
    BY <1>6, <1>10, <1>13, <1>14, HeaderAndEdges
  <2>. QED  BY <1>2, <1>3, <1>10, <1>11, <1>13, <2>1
<1>16. ASSUME NEW v \in 1 .. n - 1
       PROVE  file'[v + 1] = <<v - 1, v>>
  <2>1. v \in 1 .. Len(path) /\ path[v] = <<v - 1, v>>
    BY <1>10
  <2>2. file'[v + 1] = path[v]
    BY <1>6, <1>10, <1>13, <1>14, <2>1, FirstEdges
  <2>. QED  BY <2>1, <2>2
<1>17. ASSUME NEW i \in 2 .. Len(file')
       PROVE  file'[i] \in V \X V
  <2>1. Len(file') = 1 + Len(path) + Len(mixed)
    BY <1>6, <1>10, <1>13, <1>14, HeaderAndEdges
  <2>2. CASE i <= n
    <3>1. i - 1 \in 1 .. n - 1 /\ (i - 1) + 1 = i
      BY <1>2, <2>2
    <3>. QED  BY <1>7, <1>16, <3>1
  <2>3. CASE i > n
    <3>1. i \in 2 .. 1 + Len(path) + Len(mixed) /\ i > Len(path) + 1
      BY <1>2, <1>10, <2>1, <2>3
    <3>2. /\ i - Len(path) - 1 \in 1 .. Len(mixed)
          /\ file'[i] = mixed[i - Len(path) - 1]
      BY <1>6, <1>10, <1>13, <1>14, <3>1, LastEdges
    <3>. QED  BY <1>13, <3>2
  <2>. QED  BY <1>2, <2>2, <2>3
<1>18. WrittenInv'
  BY <1>1, <1>8, <1>15, <1>16, <1>17 DEF WrittenInv, n, V, h
<1>19. EdgesInv'
  BY <1>1, <1>8 DEF GraphgenInv, EdgesInv
<1>. QED  BY <1>1, <1>15, <1>18, <1>19 DEF GraphgenInv

(* A step of graphgen keeps all this.                                        *)
LEMMA GraphgenInvStep == GraphgenInv /\ GraphgenStep => GraphgenInv'
  BY ChainStep, PathStep, DrawnStep, WriteStep DEF GraphgenStep
-----------------------------------------------------------------------------
(***************************************************************************)
(* Program: the loader reads what graphgen has written.                    *)
(***************************************************************************)
\* The whole of a random graph, or of a chain, has been asked for, from its first
\* vertex to its last.
FirstToLast == config = [superSource |-> 0, superSink |-> request.n - 1]
EndToEnd    == config = [superSource |-> 0, superSink |-> 3 * request.k]

\* What graphgen writes is what is read, and nothing in it is refused without need.
ReadsInv ==
    /\ stage = "make" => lines = <<>> /\ pc = "read"
    /\ stage # "make" /\ request.mode = "chain" => file # <<>>
    /\ request.mode \in {"random", "chain"} =>
          /\ Len(lines) <= Len(file) /\ \A i \in 1 .. Len(lines) : lines[i] = file[i]
          /\ pc \in Built => Len(lines) = Len(file)
    /\ request.mode = "random" /\ file # <<>> /\ FirstToLast /\ pc = "rejected" => dropped > 0
    /\ request.mode = "chain" /\ EndToEnd => pc # "rejected"

ProgramInv == LoaderInv /\ GraphgenInv /\ ReadsInv

(* At the start nothing has been written, and nothing read.                  *)
LEMMA ProgramInvInit == ProgramInit => ProgramInv
<1>. SUFFICES ASSUME ProgramInit PROVE ProgramInv
  OBVIOUS
<1>1. LoaderInv
  BY LoaderInit DEF ProgramInit
<1>2. GraphgenInv
  BY DEF ProgramInit, GraphgenInit, GraphgenInv, EdgesInv, WrittenInv, ChainInv
<1>3. ReadsInv
  BY DEF ProgramInit, GraphgenInit, Init, ReadsInv, Built
<1>. QED  BY <1>1, <1>2, <1>3 DEF ProgramInv

(* What the loader does in a step of the program is a step of the loader.    *)
LEMMA LoadIsLoaderStep ==
    ASSUME GraphgenInv, LoaderInv, [ProgramNext]_programVars
    PROVE  LoaderStep
<1>1. CASE Load
  <2>1. NextLine \subseteq Numbers \cup {Unparsable}
    <3>1. Line \subseteq Numbers
      BY LoaderAssumption DEF Numbers
    <3>2. file \in Seq(Numbers) /\ Len(lines) \in Nat
      BY DEF GraphgenInv, LoaderInv, TypeInv
    <3>3. Len(lines) < Len(file) => file[Len(lines) + 1] \in Numbers
      BY <3>2
    <3>. QED  BY <3>1, <3>3 DEF NextLine
  <2>. QED  BY <1>1, <2>1 DEF Load, LoaderStep
<1>2. CASE ~Load
  BY <1>2 DEF ProgramNext, Make, Made, ParseArguments, LoadFails, LoadUndefined, Solve, Exited,
              Exit, programVars, LoaderStep
<1>. QED  BY <1>1, <1>2

(* Only graphgen changes its variables.                                      *)
LEMMA OnlyMakeWrites ==
    ASSUME GraphgenInv, [ProgramNext]_programVars
    PROVE  GraphgenInv'
<1>1. CASE Make
  BY <1>1, GraphgenInvStep DEF Make
<1>2. CASE ~Make
  <2>1. UNCHANGED graphgenVars
    BY <1>2 DEF ProgramNext, Load, Made, ParseArguments, LoadFails, LoadUndefined, Solve, Exited,
                Exit, programVars
  <2>. QED  BY <2>1 DEF graphgenVars, GraphgenInv, EdgesInv, WrittenInv, ChainInv, Remaining
<1>. QED  BY <1>1, <1>2

(* Two numbers are not what stands for an unreadable line.                   *)
LEMMA PairIsALine ==
    ASSUME NEW pair \in Numbers
    PROVE  pair # <<>>
  BY DEF Numbers

(* While a random graph is read, the header is that asked for.               *)
LEMMA RandomHeader ==
    ASSUME ProgramInv, request.mode = "random", pc = "read", lines # <<>>
    PROVE  LET n == request.n
           IN  /\ n \in Nat /\ n >= 2 /\ request.m \in Nat /\ file # <<>>
               /\ header # <<>> /\ header[1] = n /\ header[2] = request.m
<1>1. lines \in Seq(Numbers \cup {Unparsable}) /\ file \in Seq(Numbers)
  BY DEF ProgramInv, LoaderInv, TypeInv, GraphgenInv
<1>2. Len(lines) >= 1 /\ Len(lines) <= Len(file) /\ lines[1] = file[1]
  BY <1>1 DEF ProgramInv, ReadsInv
<1>3. file # <<>>
  BY <1>1, <1>2
<1>4. file[1] = <<request.n, request.m>> /\ request.n >= 2
  BY <1>3 DEF ProgramInv, GraphgenInv, WrittenInv, EdgesInv
<1>5. header = lines[1] /\ header \in Numbers
  BY DEF ProgramInv, LoaderInv, ReadInv
<1>6. header # <<>>
  BY <1>5, PairIsALine
<1>7. request.n \in Nat /\ request.m \in Nat
  BY Asked DEF ProgramInv
<1>. QED  BY <1>2, <1>3, <1>4, <1>5, <1>6, <1>7

(* While a chain is read, the header is that of the chain. *)
LEMMA ChainHeader ==
    ASSUME ProgramInv, request.mode = "chain", pc = "read", lines # <<>>
    PROVE  LET k == request.k
           IN  /\ k \in Nat /\ file # <<>>
               /\ header # <<>> /\ header[1] = 3 * k + 1 /\ header[2] = 4 * k
<1>1. lines \in Seq(Numbers \cup {Unparsable}) /\ file \in Seq(Numbers)
  BY DEF ProgramInv, LoaderInv, TypeInv, GraphgenInv
<1>2. Len(lines) >= 1 /\ Len(lines) <= Len(file) /\ lines[1] = file[1]
  BY <1>1 DEF ProgramInv, ReadsInv
<1>3. file # <<>>
  BY <1>1, <1>2
<1>4. file[1] = <<3 * request.k + 1, 4 * request.k>>
  BY <1>3 DEF ProgramInv, GraphgenInv, ChainInv
<1>5. header = lines[1] /\ header \in Numbers
  BY DEF ProgramInv, LoaderInv, ReadInv
<1>6. header # <<>>
  BY <1>5, PairIsALine
<1>7. request.k \in Nat
  BY Asked DEF ProgramInv
<1>. QED  BY <1>2, <1>3, <1>4, <1>5, <1>6, <1>7

(* A line is not refused if it is the header, or has two of the header's     *)
(* vertices whose ids fit.                                                   *)
LEMMA GoodLine ==
    ASSUME ProgramInv, pc = "read", NEW n \in Nat, n - 1 < 2 ^ Width, NEW line \in Numbers,
           lines # <<>> => /\ header # <<>> /\ header[1] = n
                           /\ line \in (0 .. n - 1) \X (0 .. n - 1)
    PROVE  ~RejectLine(line)
<1>1. line # Unparsable
  BY PairIsALine DEF Unparsable
<1>2. CASE lines = <<>>
  <2>1. header = <<>>
    BY <1>2 DEF ProgramInv, LoaderInv, ReadInv
  <2>. QED  BY <1>1, <2>1 DEF RejectLine
<1>3. CASE lines # <<>>
  <2>1. 2 ^ Width \in Nat
    BY LoaderAssumption
  <2>2. line[1] \in 0 .. n - 1 /\ line[2] \in 0 .. n - 1 /\ header[1] = n /\ header # <<>>
    BY <1>3
  <2>3. ParsesAsEdge(line)
    BY <1>1, <2>1, <2>2 DEF ParsesAsEdge
  <2>4. InRange(line)
    BY <2>2 DEF InRange
  <2>. QED  BY <1>1, <2>2, <2>3, <2>4 DEF RejectLine
<1>. QED  BY <1>2, <1>3

(* No line of a random graph is refused, ...                                 *)
LEMMA NoLineRefused ==
    ASSUME ProgramInv, request.mode = "random", FirstToLast, pc = "read", Len(lines) < Len(file)
    PROVE  ~RejectLine(file[Len(lines) + 1])
<1>. DEFINE n    == request.n
            line == file[Len(lines) + 1]
<1>1. lines \in Seq(Numbers \cup {Unparsable}) /\ file \in Seq(Numbers)
  BY DEF ProgramInv, LoaderInv, TypeInv, GraphgenInv
<1>2. line \in Numbers
  BY <1>1
<1>3. n \in Nat /\ n - 1 < 2 ^ Width
  BY Asked DEF ProgramInv, LoaderInv, TypeInv, FirstToLast
<1>4. ASSUME lines # <<>>
      PROVE  header # <<>> /\ header[1] = n /\ line \in (0 .. n - 1) \X (0 .. n - 1)
  <2>1. file # <<>> /\ header # <<>> /\ header[1] = n
    BY <1>4, RandomHeader
  <2>2. Len(lines) + 1 \in 2 .. Len(file)
    BY <1>1, <1>4
  <2>. QED  BY <2>1, <2>2 DEF ProgramInv, GraphgenInv, WrittenInv
<1>. HIDE DEF n, line
<1>5. ~RejectLine(line)
  BY <1>2, <1>3, <1>4, GoodLine
<1>. QED  BY <1>5 DEF line

(* ... and none of a chain.                                                  *)
LEMMA NoDiamondRefused ==
    ASSUME ProgramInv, request.mode = "chain", EndToEnd, pc = "read", Len(lines) < Len(file)
    PROVE  ~RejectLine(file[Len(lines) + 1])
<1>. DEFINE k    == request.k
            n    == 3 * k + 1
            line == file[Len(lines) + 1]
<1>1. lines \in Seq(Numbers \cup {Unparsable}) /\ file \in Seq(Numbers)
  BY DEF ProgramInv, LoaderInv, TypeInv, GraphgenInv
<1>2. line \in Numbers
  BY <1>1
<1>3. k \in Nat /\ n \in Nat /\ n - 1 = 3 * k /\ n - 1 < 2 ^ Width
  BY Asked DEF ProgramInv, LoaderInv, TypeInv, EndToEnd
<1>4. ASSUME lines # <<>>
      PROVE  header # <<>> /\ header[1] = n /\ line \in (0 .. n - 1) \X (0 .. n - 1)
  <2>1. file # <<>> /\ header # <<>> /\ header[1] = n
    BY <1>4, ChainHeader
  <2>2. Len(lines) + 1 \in 2 .. Len(file)
    BY <1>1, <1>4
  <2>3. line \in (0 .. 3 * k) \X (0 .. 3 * k)
    BY <2>1, <2>2 DEF ProgramInv, GraphgenInv, ChainInv
  <2>. QED  BY <1>3, <2>1, <2>3
<1>. HIDE DEF n, line
<1>5. ~RejectLine(line)
  BY <1>2, <1>3, <1>4, GoodLine
<1>. QED  BY <1>5 DEF line

(* A random graph is refused at its end only if it lacks an edge, ...        *)
LEMMA RefusedAtEnd ==
    ASSUME ProgramInv, request.mode = "random", FirstToLast, pc = "read", file # <<>>,
           Len(lines) = Len(file), ~Acceptable
    PROVE  dropped > 0
<1>. DEFINE n == request.n
            m == request.m
<1>1. /\ lines \in Seq(Numbers \cup {Unparsable}) /\ file \in Seq(Numbers)
      /\ dropped \in Nat /\ draws \in Nat /\ edges \in Seq(Numbers)
  BY DEF ProgramInv, LoaderInv, TypeInv, GraphgenInv
<1>2. lines # <<>>
  BY <1>1
<1>3. /\ n \in Nat /\ m \in Nat /\ n >= 2 /\ header # <<>> /\ header[1] = n /\ header[2] = m
  BY <1>2, RandomHeader
<1>4. Len(mEdges) = Len(lines) - 1
  BY <1>2 DEF ProgramInv, LoaderInv, ReadInv
<1>5. Len(file) = Len(edges) + 1 /\ draws = m - (n - 1) /\ Len(edges) = n - 1 + draws - dropped
  BY DEF ProgramInv, GraphgenInv, WrittenInv, EdgesInv, Remaining
<1>6. config.superSource = 0 /\ config.superSink = n - 1
  BY DEF FirstToLast
<1>. HIDE DEF n, m
<1>7. config.superSource < header[1] /\ config.superSink < header[1] /\ header[1] # 0
  BY <1>3, <1>6
<1>8. Len(mEdges) # header[2]
  BY <1>3, <1>7 DEF Acceptable
<1>9. Len(mEdges) = m - dropped
  BY <1>1, <1>3, <1>4, <1>5
<1>. QED  BY <1>1, <1>3, <1>8, <1>9

(* ... and a chain never.                                                    *)
LEMMA ChainAccepted ==
    ASSUME ProgramInv, request.mode = "chain", EndToEnd, pc = "read", file # <<>>,
           Len(lines) = Len(file)
    PROVE  Acceptable
<1>. DEFINE k == request.k
<1>1. lines \in Seq(Numbers \cup {Unparsable}) /\ file \in Seq(Numbers)
  BY DEF ProgramInv, LoaderInv, TypeInv, GraphgenInv
<1>2. lines # <<>>
  BY <1>1
<1>3. k \in Nat /\ header # <<>> /\ header[1] = 3 * k + 1 /\ header[2] = 4 * k
  BY <1>2, ChainHeader
<1>4. Len(mEdges) = Len(lines) - 1 /\ Len(file) = 4 * k + 1
  BY <1>2 DEF ProgramInv, LoaderInv, ReadInv, GraphgenInv, ChainInv
<1>5. config.superSource = 0 /\ config.superSink = 3 * k
  BY DEF EndToEnd
<1>. HIDE DEF k
<1>. QED  BY <1>1, <1>3, <1>4, <1>5 DEF Acceptable

(* So the loader reads a prefix of the file, and nothing else.               *)
LEMMA ReadsStep ==
    ASSUME ProgramInv, [ProgramNext]_programVars, GraphgenInv'
    PROVE  ReadsInv'
<1>1. CASE Make
  <2>1. lines = <<>> /\ pc = "read" /\ lines' = lines /\ pc' = pc /\ stage = "make" /\ stage' = stage
    BY <1>1 DEF Make, ProgramInv, ReadsInv, vars
  <2>2. Len(file') \in Nat
    BY DEF GraphgenInv
  <2>. QED  BY <2>1, <2>2 DEF ReadsInv, Built
<1>2. CASE Load
  <2>1. /\ stage = "load" /\ stage' = stage
        /\ request' = request /\ file' = file /\ dropped' = dropped
    BY <1>2 DEF Load, graphgenVars
  <2>2. request.mode = "chain" => file # <<>>
    BY <2>1 DEF ProgramInv, ReadsInv
  <2>3. CASE request.mode \notin {"random", "chain"}
    BY <2>1, <2>3 DEF ReadsInv
  <2>4. ASSUME request.mode \in {"random", "chain"}
        PROVE  ReadsInv'
    <3>1. /\ Len(lines) <= Len(file) /\ \A i \in 1 .. Len(lines) : lines[i] = file[i]
          /\ pc \in Built => Len(lines) = Len(file)
      BY <2>4 DEF ProgramInv, ReadsInv
    <3>2. lines \in Seq(Numbers \cup {Unparsable}) /\ file \in Seq(Numbers)
      BY DEF ProgramInv, LoaderInv, TypeInv, GraphgenInv
    <3>3. ASSUME NEW line \in NextLine, ReadLine(line)
          PROVE  ReadsInv'
      <4>1. Len(lines) < Len(file) /\ line = file[Len(lines) + 1]
        BY <2>4, <3>3 DEF NextLine
      <4>2. /\ pc = "read" /\ lines' = Append(lines, line) /\ config' = config
            /\ pc' \in {"read", "rejected"} /\ (pc' = "rejected" => RejectLine(line))
        BY <3>3 DEF ReadLine, ReadHeader, ReadEdge, RejectLine, Read
      <4>3. line \in Numbers
        BY <3>2, <4>1
      <4>4. Len(lines') <= Len(file) /\ \A i \in 1 .. Len(lines') : lines'[i] = file[i]
        BY <3>1, <3>2, <4>1, <4>2, <4>3
      <4>5. /\ request.mode = "random" /\ FirstToLast => pc' # "rejected"
            /\ request.mode = "chain" /\ EndToEnd => pc' # "rejected"
        BY <4>1, <4>2, NoLineRefused, NoDiamondRefused
      <4>6. (FirstToLast' <=> FirstToLast) /\ (EndToEnd' <=> EndToEnd)
        BY <2>1, <4>2 DEF FirstToLast, EndToEnd
      <4>. QED  BY <2>1, <2>2, <4>2, <4>4, <4>5, <4>6 DEF ReadsInv, Built
    <3>4. CASE AtEnd /\ Reject
      <4>1. /\ Len(lines) = Len(file) /\ pc = "read" /\ ~Acceptable /\ pc' = "rejected"
            /\ lines' = lines /\ config' = config
        BY <2>4, <3>4 DEF AtEnd, Reject
      <4>2. /\ request.mode = "random" /\ file # <<>> /\ FirstToLast => dropped > 0
            /\ ~(request.mode = "chain" /\ EndToEnd)
        BY <2>2, <4>1, RefusedAtEnd, ChainAccepted
      <4>3. (FirstToLast' <=> FirstToLast) /\ (EndToEnd' <=> EndToEnd)
        BY <2>1, <4>1 DEF FirstToLast, EndToEnd
      <4>. QED  BY <2>1, <2>2, <3>1, <4>1, <4>2, <4>3 DEF ReadsInv, Built
    <3>5. CASE AtEnd /\ Accept
      <4>1. Len(lines) = Len(file) /\ pc' = "count" /\ lines' = lines
        BY <2>4, <3>5 DEF AtEnd, Accept
      <4>. QED  BY <2>1, <2>2, <3>1, <4>1 DEF ReadsInv
    <3>6. CASE Build
      <4>1. pc \in Built /\ pc' # "rejected" /\ lines' = lines
        BY <3>6
           DEF Build, CountDegrees, CountBeyondEnd, AddDegree, StartRows, Fill, Ready, Built
      <4>. QED  BY <2>1, <2>2, <3>1, <4>1 DEF ReadsInv
    <3>. QED  BY <1>2, <3>3, <3>4, <3>5, <3>6 DEF Load
  <2>. QED  BY <2>3, <2>4
<1>3. CASE ~Make /\ ~Load
  <2>1. /\ UNCHANGED <<vars, graphgenVars>>
        /\ stage' = "make" => stage = "make"
        /\ stage' # "make" /\ stage = "make" => file # <<>> \/ Refuses
    BY <1>3 DEF ProgramNext, Made, ParseArguments, LoadFails, LoadUndefined, Solve, Exited,
                Exit, programVars
  <2>2. Refuses => request.mode = "random"
    BY DEF Refuses
  <2>. QED  BY <2>1, <2>2 DEF ProgramInv, ReadsInv, FirstToLast, EndToEnd, vars, graphgenVars
<1>. QED  BY <1>1, <1>2, <1>3

(* The invariant of the program.                                             *)
THEOREM ProgramInvCorrect == ProgramSpec => []ProgramInv
<1>1. ProgramInit => ProgramInv
  BY ProgramInvInit
<1>2. ProgramInv /\ [ProgramNext]_programVars => ProgramInv'
  <2>. SUFFICES ASSUME ProgramInv, [ProgramNext]_programVars PROVE ProgramInv'
    OBVIOUS
  <2>1. LoaderInv'
    BY LoadIsLoaderStep, LoaderInvStep DEF ProgramInv
  <2>2. GraphgenInv'
    BY OnlyMakeWrites DEF ProgramInv
  <2>3. ReadsInv'
    BY <2>2, ReadsStep
  <2>. QED  BY <2>1, <2>2, <2>3 DEF ProgramInv
<1>. QED  BY <1>1, <1>2, PTL DEF ProgramSpec

(* Whatever the command line and wherever the file comes from, exactly the   *)
(* well-formed files become graphs.                                          *)
THEOREM WellFormedOnlyCorrect == ProgramSpec => []WellFormedOnly
<1>1. ProgramInv => WellFormedOnly
  BY LoaderInvFile DEF ProgramInv
<1>. QED  BY <1>1, ProgramInvCorrect, PTL

(* The graph is the one in the file, with its two super-vertices, as long as *)
(* their ids fit.                                                            *)
THEOREM GraphOfFileCorrect == ProgramSpec => []GraphOfFile
<1>1. ProgramInv => GraphOfFile
  BY LoaderInvGraph DEF ProgramInv
<1>. QED  BY <1>1, ProgramInvCorrect, PTL

(* The rows of the graph are its adjacency lists, whatever its ids.          *)
THEOREM RowsExactCorrect == ProgramSpec => []RowsExact
<1>1. ProgramInv => RowsExact
  BY LoaderInvRows DEF ProgramInv
<1>. QED  BY <1>1, ProgramInvCorrect, PTL

(* A set that a path enters and no edge leaves holds the whole path.         *)
LEMMA PathStaysInside ==
    ASSUME NEW n \in Nat, NEW X, 0 \in X, \A v \in 1 .. n : v - 1 \in X => v \in X
    PROVE  n \in X
<1>. DEFINE outside == {v \in 0 .. n : v \notin X}
<1>1. CASE outside = {}
  BY <1>1
<1>2. CASE outside # {}
  <2>1. outside \subseteq Nat
    OBVIOUS
  <2>2. PICK v \in outside : \A u \in outside : ~(<<u, v>> \in OpToRel(<, Nat))
    BY <1>2, <2>1, NatLessThanWellFounded, WFMin
  <2>3. v \in 1 .. n
    OBVIOUS
  <2>4. v - 1 \in outside /\ <<v - 1, v>> \in OpToRel(<, Nat)
    BY <2>3 DEF OpToRel
  <2>. QED  BY <2>2, <2>4
<1>. QED  BY <1>1, <1>2

(* The last vertex of a random graph can be reached from the first.          *)
LEMMA RandomReaches ==
    ASSUME ProgramInv, request.mode = "random", FirstToLast, file # <<>>, pc = "ready"
    PROVE  builder.mSuperSink \in Graph!Reach({builder.mSuperSource}, {})
<1>. DEFINE n      == request.n
            m      == Len(mEdges)
            source == builder.mSuperSource
            sink   == builder.mSuperSink
<1>1. /\ WellFormed /\ Loaded /\ header = lines[1] /\ EndsExist
      /\ mEdges \in Seq(Numbers) /\ lines \in Seq(Numbers \cup {Unparsable})
  BY DEF ProgramInv, LoaderInv, FileInv, RowsInv, TypeInv, Builders, mEdges, Built
<1>2. /\ Len(lines) = Len(file) /\ Len(file) = Len(edges) + 1
      /\ \A i \in 1 .. Len(lines) : lines[i] = file[i]
      /\ \A v \in 1 .. n - 1 : file[v + 1] = <<v - 1, v>>
      /\ n >= 2 /\ Len(edges) = n - 1 + draws - dropped /\ dropped <= draws
  BY DEF ProgramInv, ReadsInv, Built, GraphgenInv, WrittenInv, EdgesInv
<1>3. n \in Nat /\ draws \in Nat /\ dropped \in Nat
  BY Asked DEF ProgramInv, GraphgenInv
<1>4. config.superSource = 0 /\ config.superSink = n - 1
  BY DEF FirstToLast
<1>5. /\ m = Len(lines) + 1 /\ DOMAIN mEdges = 1 .. m /\ Len(lines) \in Nat /\ Len(lines) >= n
  BY <1>1, <1>2, <1>3 DEF Loaded
<1>6. /\ \A i \in 2 .. Len(lines) : mEdges[i - 1] = lines[i]
      /\ mEdges[Len(lines)] = <<source, 0>> /\ mEdges[m] = <<n - 1, sink>>
  BY <1>1, <1>4, <1>5 DEF Loaded
<1>7. ASSUME NEW v \in 1 .. n - 1
      PROVE  v \in 1 .. m /\ mEdges[v] = <<v - 1, v>>
  <2>1. v + 1 \in 2 .. Len(lines) /\ (v + 1) - 1 = v /\ v \in 1 .. m
    BY <1>3, <1>5
  <2>2. mEdges[v] = lines[v + 1] /\ lines[v + 1] = file[v + 1]
    BY <1>2, <1>6, <2>1
  <2>. QED  BY <1>2, <2>1, <2>2
<1>8. Len(lines) \in 1 .. m /\ m \in 1 .. m /\ n - 1 \in Nat
  BY <1>2, <1>3, <1>5
<1>9. sink \in Vertices
  BY <1>1, <1>5, <1>6, <1>8 DEF EndsExist
<1>. HIDE DEF n, m, source, sink
<1>10. ASSUME NEW X, source \in X, \A e \in 1 .. m : mEdges[e][1] \in X => mEdges[e][2] \in X
       PROVE  sink \in X
  <2>1. 0 \in X
    BY <1>6, <1>8, <1>10
  <2>2. \A v \in 1 .. n - 1 : v - 1 \in X => v \in X
    BY <1>7, <1>10
  <2>3. n - 1 \in X
    BY <1>8, <2>1, <2>2, PathStaysInside
  <2>. QED  BY <1>6, <1>8, <1>10, <2>3
<1>11. ASSUME NEW X \in SUBSET Vertices, {source} \subseteq X, Graph!Closed(X, {})
       PROVE  sink \in X
  <2>1. \A e \in 1 .. m : mEdges[e][1] \in X => mEdges[e][2] \in X
    BY <1>5, <1>11 DEF Graph!Closed
  <2>. QED  BY <1>10, <1>11, <2>1
<1>12. sink \in Graph!Reach({source}, {})
  BY <1>9, <1>11 DEF Graph!Reach
<1>. QED  BY <1>12 DEF source, sink

(* However large a random graph and whatever is drawn, it is refused only if *)
(* a draw came to nothing, and otherwise its last vertex can be reached.     *)
THEOREM RandomLoadsCorrect == ProgramSpec => []RandomLoads
<1>1. ProgramInv => RandomLoads
  <2>. SUFFICES ASSUME ProgramInv, request.mode = "random", file # <<>>, FirstToLast
                PROVE  /\ pc = "rejected" => dropped > 0
                       /\ pc = "ready" /\ stage = "load" =>
                             /\ dropped = 0
                             /\ builder.mSuperSink \in Graph!Reach({builder.mSuperSource}, {})
    BY DEF RandomLoads, FirstToLast
  <2>1. pc = "rejected" => dropped > 0
    BY DEF ProgramInv, ReadsInv
  <2>2. ASSUME pc = "ready"
        PROVE  dropped = 0
    <3>1. WellFormed /\ Len(lines) = Len(file) /\ \A i \in 1 .. Len(lines) : lines[i] = file[i]
      BY <2>2 DEF ProgramInv, LoaderInv, FileInv, ReadsInv, Built
    <3>2. /\ Len(file) = Len(edges) + 1 /\ file[1] = <<request.n, request.m>>
          /\ draws = request.m - (request.n - 1)
          /\ Len(edges) = request.n - 1 + draws - dropped
      BY DEF ProgramInv, GraphgenInv, WrittenInv, EdgesInv, Remaining
    <3>3. /\ request.n \in Nat /\ request.m \in Nat /\ draws \in Nat /\ dropped \in Nat
          /\ lines \in Seq(Numbers \cup {Unparsable}) /\ edges \in Seq(Numbers)
      BY Asked DEF ProgramInv, GraphgenInv, LoaderInv, TypeInv
    <3>4. lines[1] = file[1] /\ Len(lines) - 1 = lines[1][2]
      BY <3>1, <3>3 DEF WellFormed
    <3>5. lines[1][2] = request.m
      BY <3>2, <3>4
    <3>6. Len(edges) = request.m
      BY <3>1, <3>2, <3>3, <3>4, <3>5
    <3>. DEFINE n == request.n
                m == request.m
                l == Len(edges)
    <3>7. n \in Nat /\ m \in Nat /\ l = m /\ draws = m - (n - 1) /\ l = n - 1 + draws - dropped
      BY <3>2, <3>3, <3>6
    <3>. HIDE DEF n, m, l
    <3>. QED  BY <3>3, <3>7
  <2>. QED  BY <2>1, <2>2, RandomReaches
<1>. QED  BY <1>1, ProgramInvCorrect, PTL

(* The graph of a chain that has been read is the chain, and its ids fit: those of *)
(* the super-vertices would lie outside otherwise.                                 *)
LEMMA ChainIsLoaded ==
    ASSUME ProgramInv, request.mode = "chain", EndToEnd, pc = "ready"
    PROVE  request.k \in Nat /\ Graph!IsChain(request.k)
<1>. DEFINE k == request.k
            n == 3 * k + 1
            w == 2 ^ Width
            m == Len(mEdges)
            source == builder.mSuperSource
            sink   == builder.mSuperSink
<1>1. /\ WellFormed /\ Loaded /\ header = lines[1] /\ EndsExist /\ stage # "make"
      /\ mEdges \in Seq(Numbers) /\ lines \in Seq(Numbers \cup {Unparsable})
      /\ mVertexCount \in Nat /\ mVertexCount < w
  BY DEF ProgramInv, LoaderInv, FileInv, RowsInv, ReadsInv, TypeInv, Builders, Ids, mEdges,
         mVertexCount, Built
<1>2. file # <<>> /\ Len(lines) = Len(file) /\ \A i \in 1 .. Len(lines) : lines[i] = file[i]
  BY <1>1 DEF ProgramInv, ReadsInv, Built
<1>3. /\ Len(file) = 4 * k + 1 /\ file[1] = <<3 * k + 1, 4 * k>>
      /\ \A i \in 0 .. k - 1 : \A c \in 1 .. 4 : file[4 * i + c + 1] = Diamond(3 * i)[c]
  BY <1>2 DEF ProgramInv, GraphgenInv, ChainInv
<1>4. k \in Nat /\ n \in Nat /\ w \in Nat /\ n + 1 = 3 * k + 2
  BY Asked, LoaderAssumption DEF ProgramInv
<1>5. config.superSource = 0 /\ config.superSink = 3 * k
  BY DEF EndToEnd
<1>. HIDE DEF k
<1>6. Len(lines) = 4 * k + 1 /\ lines[1] = <<n, 4 * k>> /\ header[1] = n
  <2>1. Len(lines) = 4 * k + 1 /\ 1 \in 1 .. Len(lines)
    BY <1>2, <1>3, <1>4
  <2>. QED  BY <1>1, <1>2, <1>3, <2>1
<1>7. /\ source = Narrow(n) /\ sink = Narrow(n + 1)
      /\ m = 4 * k + 2 /\ DOMAIN mEdges = 1 .. 4 * k + 2
      /\ mEdges[4 * k + 1] = <<Narrow(n), 0>> /\ mEdges[4 * k + 2] = <<3 * k, Narrow(n + 1)>>
      /\ IdsFit => mVertexCount = n + 2
  <2>1. /\ header[1] = n /\ Len(mEdges) = 4 * k + 2 /\ Len(lines) = 4 * k + 1
        /\ Len(lines) + 1 = 4 * k + 2
    BY <1>1, <1>4, <1>6 DEF Loaded
  <2>. HIDE DEF n
  <2>2. /\ mEdges[4 * k + 1] = <<Narrow(n), 0>> /\ mEdges[4 * k + 2] = <<3 * k, Narrow(n + 1)>>
        /\ IdsFit => mVertexCount = n + 2
        /\ builder.mSuperSource = Narrow(n) /\ builder.mSuperSink = Narrow(n + 1)
    BY <1>1, <1>5, <2>1 DEF Loaded
  <2>3. DOMAIN mEdges = 1 .. 4 * k + 2
    BY <1>1, <2>1
  <2>. QED  BY <2>1, <2>2, <2>3
<1>8. ASSUME NEW i \in 0 .. k - 1, NEW c \in 1 .. 4
      PROVE  mEdges[4 * i + c] = Diamond(3 * i)[c]
  <2>. DEFINE e == 4 * i + c
  <2>0. e \in 1 .. 4 * k /\ e + 1 \in 2 .. 4 * k + 1 /\ (e + 1) - 1 = e
    BY <1>4
  <2>1. e + 1 \in 2 .. Len(lines) /\ e + 1 \in 1 .. Len(lines) /\ (e + 1) - 1 = e
    BY <1>6, <2>0
  <2>2. file[e + 1] = Diamond(3 * i)[c]
    BY <1>3
  <2>. HIDE DEF e
  <2>3. mEdges[e] = lines[e + 1] /\ lines[e + 1] = file[e + 1]
    BY <1>1, <1>2, <2>1 DEF Loaded
  <2>4. mEdges[e] = Diamond(3 * i)[c]
    BY <2>2, <2>3
  <2>. QED  BY <2>4 DEF e
<1>9. 4 * k + 1 \in DOMAIN mEdges /\ 4 * k + 2 \in DOMAIN mEdges
  BY <1>4, <1>7
<1>10. 3 * k < mVertexCount /\ Narrow(n) < mVertexCount /\ Narrow(n + 1) < mVertexCount
  <2>1. \A e \in DOMAIN mEdges : \A side \in {1, 2} : mEdges[e][side] < mVertexCount
    BY <1>1 DEF EndsExist, Vertices
  <2>2. mEdges[4 * k + 1][1] = Narrow(n) /\ mEdges[4 * k + 2][1] = 3 * k
        /\ mEdges[4 * k + 2][2] = Narrow(n + 1)
    BY <1>7
  <2>. QED  BY <1>9, <2>1, <2>2
<1>. HIDE DEF w, n, m, source, sink
<1>11. Narrow(n) = n /\ n < mVertexCount
  <2>1. n < w
    BY <1>1, <1>4, <1>10 DEF n
  <2>2. Narrow(n) = n
    BY <1>4, <2>1, NarrowIs DEF w
  <2>. QED  BY <1>10, <2>2
<1>12. Narrow(n + 1) = n + 1 /\ n + 1 < mVertexCount
  <2>1. n + 1 \in Nat /\ n + 1 < w
    BY <1>1, <1>4, <1>11
  <2>2. Narrow(n + 1) = n + 1
    BY <2>1, NarrowIs DEF w
  <2>. QED  BY <1>10, <2>2
<1>13. IdsFit
  BY <1>1, <1>4, <1>6, <1>12 DEF IdsFit, w
<1>14. mVertexCount = 3 * k + 3 /\ source = 3 * k + 1 /\ sink = 3 * k + 2 /\ n = 3 * k + 1
  BY <1>4, <1>7, <1>11, <1>12, <1>13 DEF n
<1>15. Vertices = 0 .. 3 * k + 2
  BY <1>4, <1>14 DEF Vertices
<1>. DEFINE from == [e \in DOMAIN mEdges |-> mEdges[e][1]]
            to   == [e \in DOMAIN mEdges |-> mEdges[e][2]]
<1>16. from \in [DOMAIN mEdges -> Vertices] /\ to \in [DOMAIN mEdges -> Vertices]
  BY <1>1 DEF EndsExist
<1>17. /\ from[4 * k + 1] = 3 * k + 1 /\ to[4 * k + 1] = 0
       /\ from[4 * k + 2] = 3 * k /\ to[4 * k + 2] = 3 * k + 2
  BY <1>7, <1>9, <1>11, <1>12, <1>14
<1>18. ASSUME NEW i \in 0 .. k - 1
       PROVE  /\ from[4 * i + 1] = 3 * i     /\ to[4 * i + 1] = 3 * i + 1
              /\ from[4 * i + 2] = 3 * i     /\ to[4 * i + 2] = 3 * i + 2
              /\ from[4 * i + 3] = 3 * i + 1 /\ to[4 * i + 3] = 3 * i + 3
              /\ from[4 * i + 4] = 3 * i + 2 /\ to[4 * i + 4] = 3 * i + 3
  <2>1. \A c \in 1 .. 4 : 4 * i + c \in DOMAIN mEdges
    BY <1>4, <1>7
  <2>2. /\ mEdges[4 * i + 1] = <<3 * i, 3 * i + 1>> /\ mEdges[4 * i + 2] = <<3 * i, 3 * i + 2>>
        /\ mEdges[4 * i + 3] = <<3 * i + 1, 3 * i + 3>>
        /\ mEdges[4 * i + 4] = <<3 * i + 2, 3 * i + 3>>
    BY <1>8 DEF Diamond
  <2>. QED  BY <2>1, <2>2
<1>19. source \in Vertices /\ sink \in Vertices /\ source # sink
  BY <1>4, <1>14, <1>15
<1>. HIDE DEF from, to
<1>20. Graph!IsGraph
  BY <1>16, <1>19 DEF Graph!IsGraph, from, to, source, sink
<1>. DEFINE links == /\ from[4 * k + 1] = 3 * k + 1 /\ to[4 * k + 1] = 0
                    /\ from[4 * k + 2] = 3 * k     /\ to[4 * k + 2] = 3 * k + 2
            diamonds == \A i \in 0 .. k - 1 :
               /\ from[4 * i + 1] = 3 * i     /\ to[4 * i + 1] = 3 * i + 1
               /\ from[4 * i + 2] = 3 * i     /\ to[4 * i + 2] = 3 * i + 2
               /\ from[4 * i + 3] = 3 * i + 1 /\ to[4 * i + 3] = 3 * i + 3
               /\ from[4 * i + 4] = 3 * i + 2 /\ to[4 * i + 4] = 3 * i + 3
<1>21. links /\ diamonds
  BY <1>17, <1>18
<1>22. Graph!IsGraph /\ links /\ diamonds /\ Vertices = 0 .. 3 * k + 2
       /\ DOMAIN mEdges = 1 .. 4 * k + 2 /\ source = 3 * k + 1 /\ sink = 3 * k + 2
       => Graph!IsChain(k)
  BY Zenon DEF Graph!IsChain, links, diamonds, from, to, source, sink
<1>. QED  BY <1>4, <1>7, <1>14, <1>15, <1>20, <1>21, <1>22 DEF k

(* However long a chain is, it is read without complaint, and its graph has the *)
(* minimal cuts of the closed form.                                             *)
THEOREM ChainCutsCorrect == ProgramSpec => []ChainCuts
<1>1. ProgramInv => ChainCuts
  <2>. SUFFICES ASSUME ProgramInv, request.mode = "chain", EndToEnd
                PROVE  /\ pc # "rejected"
                       /\ pc = "ready" => Cardinality(Graph!MinimalCuts) = 4 * request.k + 2
    BY DEF ChainCuts, EndToEnd
  <2>1. pc # "rejected"
    BY DEF ProgramInv, ReadsInv
  <2>2. ASSUME pc = "ready"
        PROVE  Cardinality(Graph!MinimalCuts) = 4 * request.k + 2
    <3>. DEFINE k == request.k
    <3>1. k \in Nat /\ Graph!IsChain(k)
      BY <2>2, ChainIsLoaded
    <3>. HIDE DEF k
    <3>2. Graph!Cardinality(Graph!MinimalCuts) = 4 * k + 2
      BY <3>1, Graph!ChainHasCuts
    <3>3. Cardinality(Graph!MinimalCuts) = 4 * k + 2
      BY <3>2 DEF Graph!Cardinality, Cardinality
    <3>. QED  BY <3>3 DEF k
  <2>. QED  BY <2>1, <2>2
<1>. QED  BY <1>1, ProgramInvCorrect, PTL
-----------------------------------------------------------------------------
(***************************************************************************)
(* The command line: every loop of parseOptions, round by round.           *)
(***************************************************************************)
\* v has what the loop has after each of its n rounds, and result is the last of it.
Rounds(v, n, base, result) == v[0] = base /\ result = v[n]

\* The value with one more digit.
NextValue(value, c) ==
    IF value = Bad \/ c = NotDigit \/ value > (MaxUnsigned - c) \div 10
    THEN Bad ELSE (value * 10 + c) % (MaxUnsigned + 1)

\* What Options can be.
Setting ==
    [ok : BOOLEAN, help : BOOLEAN, version : BOOLEAN, showProgress : BOOLEAN,
     source : Nat, sink : Nat, threads : Nat, outputDir : Text \cup {DefaultOutput},
     maxCuts : Nat, maxCutSize : Nat, maxExamined : Nat]

KeysKnown(args) == \A i \in DOMAIN args : args[i].form = "option" => args[i].key \in Known

\* f are the powers of ten up to the k-th.
PowersTo(k, f) == \A n \in 0 .. k : f[n] = IF n = 0 THEN 1 ELSE 10 * f[n - 1]

(* The powers of ten are what their definition says: there are such numbers up to every *)
(* k, and only these.                                                                  *)
LEMMA Powers ==
    /\ Power10[0] = 1
    /\ \A k \in Nat : Power10[k] \in Nat /\ Power10[k + 1] = 10 * Power10[k]
<1>. DEFINE K == {k \in Nat : \E f : PowersTo(k, f)}
            U == {k \in Nat : \A f, h : PowersTo(k, f) /\ PowersTo(k, h) => f[k] = h[k]}
            F(k) == CHOOSE f : PowersTo(k, f)
            g == [k \in Nat |-> F(k)[k]]
            more(f) == [n \in Nat |-> IF n = 0 THEN 1 ELSE 10 * f[n - 1]]
<1>1. \A k \in Nat : k \in K
  <2>1. 0 \in K
    <3>1. PowersTo(0, [n \in Nat |-> 1])
      BY DEF PowersTo
    <3>. QED  BY <3>1
  <2>2. ASSUME NEW k \in Nat, k \in K
        PROVE  k + 1 \in K
    <3>1. PICK f : PowersTo(k, f)
      BY <2>2
    <3>2. ASSUME NEW n \in 0 .. k + 1
          PROVE  more(f)[n] = IF n = 0 THEN 1 ELSE 10 * more(f)[n - 1]
      <4>1. CASE n = 0
        BY <4>1
      <4>2. CASE n # 0
        <5>1. n - 1 \in 0 .. k /\ n \in Nat /\ n - 1 \in Nat
          BY <3>2, <4>2
        <5>2. more(f)[n - 1] = f[n - 1]
          BY <3>1, <5>1 DEF PowersTo
        <5>. QED  BY <4>2, <5>1, <5>2
      <4>. QED  BY <4>1, <4>2
    <3>3. PowersTo(k + 1, more(f))
      <4>. HIDE DEF more
      <4>. QED  BY <3>2 DEF PowersTo
    <3>. QED  BY <3>3
  <2>. HIDE DEF K
  <2>. QED  BY <2>1, <2>2, SetInduction DEF Inductive
<1>2. \A k \in Nat : \A f : PowersTo(k + 1, f) => PowersTo(k, f) /\ f[k + 1] = 10 * f[k]
  BY DEF PowersTo
<1>3. \A k \in Nat : k \in U
  <2>1. 0 \in U
    BY DEF PowersTo
  <2>2. ASSUME NEW k \in Nat, k \in U
        PROVE  k + 1 \in U
    BY <1>2, <2>2
  <2>. HIDE DEF U
  <2>. QED  BY <2>1, <2>2, SetInduction DEF Inductive
<1>4. \A k \in Nat : PowersTo(k, F(k))
  BY <1>1
<1>. HIDE DEF F
<1>5. g[0] = 1
  BY <1>4 DEF PowersTo
<1>6. ASSUME NEW k \in Nat
      PROVE  g[k + 1] = 10 * g[k]
  <2>1. PowersTo(k, F(k + 1)) /\ F(k + 1)[k + 1] = 10 * F(k + 1)[k]
    BY <1>2, <1>4
  <2>2. F(k + 1)[k] = F(k)[k]
    BY <1>3, <1>4, <2>1
  <2>. QED  BY <2>1, <2>2
<1>7. g = [k \in Nat |-> IF k = 0 THEN 1 ELSE 10 * g[k - 1]]
  <2>1. ASSUME NEW k \in Nat
        PROVE  g[k] = IF k = 0 THEN 1 ELSE 10 * g[k - 1]
    <3>1. CASE k = 0
      BY <1>5, <3>1
    <3>2. CASE k # 0
      <4>1. k - 1 \in Nat /\ k = (k - 1) + 1
        BY <3>2
      <4>2. g[(k - 1) + 1] = 10 * g[k - 1]
        BY <1>6, <4>1
      <4>. QED  BY <3>2, <4>1, <4>2
    <3>. QED  BY <3>1, <3>2
  <2>2. g = [k \in Nat |-> g[k]]
    OBVIOUS
  <2>. HIDE DEF g
  <2>. QED  BY <2>1, <2>2
<1>8. Power10 = [k \in Nat |-> IF k = 0 THEN 1 ELSE 10 * Power10[k - 1]]
  <2>. HIDE DEF g
  <2>. QED  BY <1>7 DEF Power10
<1>9. Power10[0] = 1 /\ \A k \in Nat : Power10[k + 1] = 10 * Power10[k]
  BY <1>8
<1>10. \A k \in Nat : Power10[k] \in Nat
  <2>. DEFINE N == {k \in Nat : Power10[k] \in Nat}
  <2>1. 0 \in N /\ \A k \in Nat : k \in N => k + 1 \in N
    BY <1>9
  <2>. HIDE DEF N
  <2>2. \A k \in Nat : k \in N
    BY <2>1, SetInduction DEF Inductive
  <2>. QED  BY <2>2 DEF N
<1>. QED  BY <1>9, <1>10

(* The loop that gathers the words. *)
LEMMA WordsLoop ==
    ASSUME NEW args \in Seq(Argument)
    PROVE  \E v : /\ Rounds(v, Len(args), <<>>, Words(args))
                  /\ \A k \in 1 .. Len(args) :
                        v[k] = IF args[k].form = "word" THEN Append(v[k - 1], args[k]) ELSE v[k - 1]
<1>. DEFINE n == Len(args)
            V == Seq(Argument)
            body(words, arg) == IF arg.form = "word" THEN Append(words, arg) ELSE words
            op == [p \in V \X (1 .. n) |-> body(p[1], args[p[2]])]
            step(f) == [s \in SUBSET (1 .. n) |->
                          IF s = {} THEN <<>> ELSE body(f[s \ {Max(s)}], args[Max(s)])]
            iter == CHOOSE f : f = step(f)
            v == [k \in 0 .. n |-> iter[1 .. k]]
<1>1. n \in Nat /\ DOMAIN args = 1 .. n /\ \A i \in 1 .. n : args[i] \in Argument
  OBVIOUS
<1>2. op \in [V \X (1 .. n) -> V] /\ <<>> \in V
  BY <1>1
<1>3. \E H : H = step(H)
  <2>. DEFINE base == <<>>
  <2>1. n \in Nat /\ base \in V
    BY <1>1, <1>2
  <2>2. PICK H : IsLoop(n, V, base, op, H)
    <3>. HIDE DEF op, V, n, base
    <3>. QED  BY <1>2, <2>1, LoopExists DEF HasLoop
  <2>3. ASSUME NEW s \in SUBSET (1 .. n)
        PROVE  LoopAt(n, V, base, op, H, s)
    <3>. HIDE DEF op, V, n, base
    <3>. QED  BY <2>1, <2>2, LoopIs
  <2>4. ASSUME NEW s \in SUBSET (1 .. n), s # {}
        PROVE  H[s] = body(H[s \ {Max(s)}], args[Max(s)])
    <3>. DEFINE p == <<H[s \ {Max(s)}], Max(s)>>
    <3>1. op[p] = body(p[1], args[p[2]])
      <4>1. p \in V \X (1 .. n)
        BY <2>3, <2>4 DEF LoopAt
      <4>. HIDE DEF p, body
      <4>. QED  BY <4>1
    <3>. HIDE DEF body, op
    <3>. QED  BY <2>3, <2>4, <3>1 DEF LoopAt
  <2>. HIDE DEF body
  <2>. QED  BY <2>2, <2>3, <2>4 DEF IsLoop, LoopAt
<1>5. iter = step(iter)
  <2>. HIDE DEF step
  <2>. QED  BY <1>3
<1>6. Words(args) = iter[1 .. n]
  BY <1>1 DEF Words, FoldLeft, MapThenFoldSet
<1>. HIDE DEF iter
<1>7. v[0] = <<>> /\ Words(args) = v[n]
  <2>1. 1 .. 0 = {}
    OBVIOUS
  <2>2. iter[1 .. 0] = <<>>
    BY <1>5, <2>1
  <2>. HIDE DEF n
  <2>. QED  BY <1>1, <1>6, <2>2
<1>8. ASSUME NEW k \in 1 .. n
      PROVE  v[k] = body(v[k - 1], args[k])
  <2>1. /\ 1 .. k \in SUBSET (1 .. n) /\ 1 .. k # {}
        /\ Max(1 .. k) = k /\ (1 .. k) \ {Max(1 .. k)} = 1 .. k - 1
    BY <1>1, FirstPositions
  <2>. HIDE DEF body
  <2>2. iter[1 .. k] = body(iter[1 .. k - 1], args[k])
    BY <1>1, <1>5, <2>1
  <2>. QED  BY <1>1, <2>2
<1>. QED  BY <1>7, <1>8 DEF Rounds

(* Words are arguments. *)
LEMMA WordsAre ==
    ASSUME NEW args \in Seq(Argument)
    PROVE  Words(args) \in Seq(Argument)
<1>1. PICK v : /\ Rounds(v, Len(args), <<>>, Words(args))
               /\ \A k \in 1 .. Len(args) :
                     v[k] = IF args[k].form = "word" THEN Append(v[k - 1], args[k]) ELSE v[k - 1]
  BY WordsLoop
<1>. DEFINE K == {k \in Nat : k <= Len(args) => v[k] \in Seq(Argument)}
<1>2. 0 \in K
  <2>1. v[0] \in Seq(Argument)
    BY <1>1 DEF Rounds
  <2>. QED  BY <2>1
<1>3. ASSUME NEW k \in Nat, k \in K
      PROVE  k + 1 \in K
  <2>1. CASE k + 1 <= Len(args)
    <3>1. k + 1 \in 1 .. Len(args) /\ args[k + 1] \in Argument /\ v[k] \in Seq(Argument)
      BY <1>3, <2>1
    <3>2. v[k + 1] = IF args[k + 1].form = "word" THEN Append(v[k], args[k + 1]) ELSE v[k]
      BY <1>1, <3>1
    <3>3. Append(v[k], args[k + 1]) \in Seq(Argument)
      BY <3>1
    <3>4. v[k + 1] \in Seq(Argument)
      BY <3>1, <3>2, <3>3
    <3>. QED  BY <3>4
  <2>. QED  BY <2>1
<1>4. Len(args) \in K
  <2>. HIDE DEF K
  <2>. QED  BY <1>2, <1>3, SetInduction DEF Inductive
<1>. QED  BY <1>1, <1>4 DEF Rounds

(* The loop over the digits. *)
LEMMA DigitLoop ==
    ASSUME NEW text \in Text
    PROVE  \E v : /\ Rounds(v, Len(text), (IF text = <<>> THEN Bad ELSE 0), parseUnsigned(text))
                  /\ \A k \in 1 .. Len(text) :
                        v[k] = NextValue(v[k - 1], text[k])
<1>. DEFINE n == Len(text)
            V == Int
            body(value, c) == NextValue(value, c)
            op == [p \in V \X (1 .. n) |-> body(p[1], text[p[2]])]
            step(f) == [s \in SUBSET (1 .. n) |->
                          IF s = {} THEN (IF text = <<>> THEN Bad ELSE 0) ELSE body(f[s \ {Max(s)}], text[Max(s)])]
            iter == CHOOSE f : f = step(f)
            v == [k \in 0 .. n |-> iter[1 .. k]]
<1>1. n \in Nat /\ DOMAIN text = 1 .. n /\ \A i \in 1 .. n : text[i] \in Int
  BY DEF Text, NotDigit
<1>2. op \in [V \X (1 .. n) -> V] /\ (IF text = <<>> THEN Bad ELSE 0) \in V
  BY <1>1, OptionsAssumption DEF Bad, NextValue
<1>3. \E H : H = step(H)
  <2>. DEFINE base == (IF text = <<>> THEN Bad ELSE 0)
  <2>1. n \in Nat /\ base \in V
    BY <1>1, <1>2
  <2>2. PICK H : IsLoop(n, V, base, op, H)
    <3>. HIDE DEF op, V, n, base
    <3>. QED  BY <1>2, <2>1, LoopExists DEF HasLoop
  <2>3. ASSUME NEW s \in SUBSET (1 .. n)
        PROVE  LoopAt(n, V, base, op, H, s)
    <3>. HIDE DEF op, V, n, base
    <3>. QED  BY <2>1, <2>2, LoopIs
  <2>4. ASSUME NEW s \in SUBSET (1 .. n), s # {}
        PROVE  H[s] = body(H[s \ {Max(s)}], text[Max(s)])
    <3>. DEFINE p == <<H[s \ {Max(s)}], Max(s)>>
    <3>1. op[p] = body(p[1], text[p[2]])
      <4>1. p \in V \X (1 .. n)
        BY <2>3, <2>4 DEF LoopAt
      <4>. HIDE DEF p, body
      <4>. QED  BY <4>1
    <3>. HIDE DEF body, op
    <3>. QED  BY <2>3, <2>4, <3>1 DEF LoopAt
  <2>. HIDE DEF body
  <2>. QED  BY <2>2, <2>3, <2>4 DEF IsLoop, LoopAt
<1>5. iter = step(iter)
  <2>. HIDE DEF step
  <2>. QED  BY <1>3
<1>6. parseUnsigned(text) = iter[1 .. n]
  BY <1>1 DEF parseUnsigned, NextValue, FoldLeft, MapThenFoldSet
<1>. HIDE DEF iter
<1>7. v[0] = (IF text = <<>> THEN Bad ELSE 0) /\ parseUnsigned(text) = v[n]
  <2>1. 1 .. 0 = {}
    OBVIOUS
  <2>2. iter[1 .. 0] = (IF text = <<>> THEN Bad ELSE 0)
    BY <1>5, <2>1
  <2>. HIDE DEF n
  <2>. QED  BY <1>1, <1>6, <2>2
<1>8. ASSUME NEW k \in 1 .. n
      PROVE  v[k] = body(v[k - 1], text[k])
  <2>1. /\ 1 .. k \in SUBSET (1 .. n) /\ 1 .. k # {}
        /\ Max(1 .. k) = k /\ (1 .. k) \ {Max(1 .. k)} = 1 .. k - 1
    BY <1>1, FirstPositions
  <2>. HIDE DEF body
  <2>2. iter[1 .. k] = body(iter[1 .. k - 1], text[k])
    BY <1>1, <1>5, <2>1
  <2>. QED  BY <1>1, <2>2
<1>. QED  BY <1>7, <1>8 DEF Rounds

(* The sum that a text stands for. *)
LEMMA SumLoop ==
    ASSUME NEW text \in Text
    PROVE  \E v : /\ Rounds(v, Len(text), 0, Number(text))
                  /\ \A k \in 1 .. Len(text) :
                        v[k] = v[k - 1] + (text[k] * Power10[Len(text) - k])
<1>. DEFINE n == Len(text)
            place == [i \in 1 .. n |-> i]
            V == Int
            body(sum, i) == sum + (text[i] * Power10[Len(text) - i])
            op == [p \in V \X (1 .. n) |-> body(p[1], place[p[2]])]
            step(f) == [s \in SUBSET (1 .. n) |->
                          IF s = {} THEN 0 ELSE body(f[s \ {Max(s)}], place[Max(s)])]
            iter == CHOOSE f : f = step(f)
            v == [k \in 0 .. n |-> iter[1 .. k]]
<1>1. n \in Nat /\ DOMAIN text = 1 .. n /\ \A i \in 1 .. n : text[i] \in Int
  BY DEF Text, NotDigit
<1>2. op \in [V \X (1 .. n) -> V] /\ 0 \in V
  <2>1. ASSUME NEW i \in 1 .. n
        PROVE  Power10[n - i] \in Int /\ text[i] * Power10[n - i] \in Int
    <3>1. n - i \in Nat
      BY <1>1
    <3>2. Power10[n - i] \in Int
      <4>. HIDE DEF n
      <4>. QED  BY <3>1, Powers
    <3>. QED  BY <1>1, <3>2
  <2>2. ASSUME NEW p \in V \X (1 .. n)
        PROVE  body(p[1], place[p[2]]) \in V
    <3>1. p[1] \in Int /\ p[2] \in 1 .. n /\ place[p[2]] = p[2]
      BY <2>2
    <3>. DEFINE i == p[2]
                term == text[i] * Power10[n - i]
    <3>2. term \in Int
      BY <2>1, <3>1
    <3>3. p[1] + term \in Int
      <4>. HIDE DEF term
      <4>. QED  BY <3>1, <3>2
    <3>. QED  BY <3>1, <3>3
  <2>3. op \in [V \X (1 .. n) -> V]
    <3>. HIDE DEF body
    <3>. QED  BY <2>2
  <2>. QED  BY <2>3
<1>3. \E H : H = step(H)
  <2>. DEFINE base == 0
  <2>1. n \in Nat /\ base \in V
    BY <1>1, <1>2
  <2>2. PICK H : IsLoop(n, V, base, op, H)
    <3>. HIDE DEF op, V, n, base
    <3>. QED  BY <1>2, <2>1, LoopExists DEF HasLoop
  <2>3. ASSUME NEW s \in SUBSET (1 .. n)
        PROVE  LoopAt(n, V, base, op, H, s)
    <3>. HIDE DEF op, V, n, base
    <3>. QED  BY <2>1, <2>2, LoopIs
  <2>4. ASSUME NEW s \in SUBSET (1 .. n), s # {}
        PROVE  H[s] = body(H[s \ {Max(s)}], place[Max(s)])
    <3>. DEFINE p == <<H[s \ {Max(s)}], Max(s)>>
    <3>1. op[p] = body(p[1], place[p[2]])
      <4>1. p \in V \X (1 .. n)
        BY <2>3, <2>4 DEF LoopAt
      <4>. HIDE DEF p, body
      <4>. QED  BY <4>1
    <3>. HIDE DEF body, op
    <3>. QED  BY <2>3, <2>4, <3>1 DEF LoopAt
  <2>. HIDE DEF body
  <2>. QED  BY <2>2, <2>3, <2>4 DEF IsLoop, LoopAt
<1>5. iter = step(iter)
  <2>. HIDE DEF step
  <2>. QED  BY <1>3
<1>6. Number(text) = iter[1 .. n]
  BY <1>1 DEF Number, FoldLeft, MapThenFoldSet
<1>. HIDE DEF iter
<1>7. v[0] = 0 /\ Number(text) = v[n]
  <2>1. 1 .. 0 = {}
    OBVIOUS
  <2>2. iter[1 .. 0] = 0
    BY <1>5, <2>1
  <2>. HIDE DEF n
  <2>. QED  BY <1>1, <1>6, <2>2
<1>8. ASSUME NEW k \in 1 .. n
      PROVE  v[k] = body(v[k - 1], k)
  <2>1. /\ 1 .. k \in SUBSET (1 .. n) /\ 1 .. k # {}
        /\ Max(1 .. k) = k /\ (1 .. k) \ {Max(1 .. k)} = 1 .. k - 1
    BY <1>1, FirstPositions
  <2>. HIDE DEF body
  <2>2. iter[1 .. k] = body(iter[1 .. k - 1], k)
    BY <1>1, <1>5, <2>1
  <2>. QED  BY <1>1, <2>2
<1>. QED  BY <1>7, <1>8 DEF Rounds

\* h has the values of the beginnings of a text, one digit after the other.
Horner(text, h) ==
    /\ h \in [0 .. Len(text) -> Nat] /\ h[0] = 0
    /\ \A k \in 1 .. Len(text) : h[k] = (h[k - 1] * 10) + text[k]

(* The number a text stands for can be had from left to right. *)
LEMMA HornerIs ==
    ASSUME NEW text \in Text
    PROVE  \E h : Horner(text, h) /\ Number(text) = h[Len(text)]
<1>. DEFINE n == Len(text)
            op == [p \in Nat \X (1 .. n) |-> (p[1] * 10) + text[p[2]]]
<1>1. n \in Nat /\ \A i \in 1 .. n : text[i] \in Nat
  BY DEF Text, NotDigit
<1>2. \E h : Horner(text, h)
  <2>1. op \in [Nat \X (1 .. n) -> Nat]
    BY <1>1
  <2>. HIDE DEF op
  <2>2. PICK h \in [0 .. n -> Nat] : h[0] = 0 /\ \A k \in 1 .. n : h[k] = op[<<h[k - 1], k>>]
    <3>1. n \in Nat /\ 0 \in Nat
      BY <1>1
    <3>. HIDE DEF n
    <3>2. \E h : Runs(n, Nat, 0, op, h)
      BY <2>1, <3>1, LoopRuns
    <3>. QED  BY <3>2 DEF Runs
  <2>3. ASSUME NEW k \in 1 .. n
        PROVE  h[k] = (h[k - 1] * 10) + text[k]
    <3>1. k - 1 \in 0 .. n /\ <<h[k - 1], k>> \in Nat \X (1 .. n)
      BY <1>1
    <3>2. op[<<h[k - 1], k>>] = (h[k - 1] * 10) + text[k]
      BY <3>1 DEF op
    <3>. QED  BY <2>2, <3>2
  <2>. QED  BY <2>2, <2>3 DEF Horner
<1>3. PICK h : Horner(text, h)
  BY <1>2
<1>4. PICK u : /\ Rounds(u, n, 0, Number(text))
               /\ \A k \in 1 .. n : u[k] = u[k - 1] + (text[k] * Power10[n - k])
  BY SumLoop
<1>. DEFINE K == {k \in Nat : k <= n => u[k] = h[k] * Power10[n - k]}
<1>5. 0 \in K
  <2>1. u[0] = 0 /\ h[0] = 0
    BY <1>3, <1>4 DEF Rounds, Horner
  <2>2. Power10[n - 0] \in Nat
    BY <1>1, Powers
  <2>3. 0 * Power10[n - 0] = 0
    BY <2>2
  <2>. QED  BY <2>1, <2>3
<1>6. ASSUME NEW k \in Nat, k \in K
      PROVE  k + 1 \in K
  <2>1. CASE k + 1 <= n
    <3>. DEFINE m == n - (k + 1)
                t == Power10[m]
                a == h[k]
                c == text[k + 1]
    <3>1. m \in Nat /\ n - k = m + 1 /\ k + 1 \in 1 .. n /\ k \in 0 .. n /\ (k + 1) - 1 = k
      BY <1>1, <2>1
    <3>2. t \in Nat /\ Power10[n - k] = 10 * t
      <4>. HIDE DEF n, m
      <4>. QED  BY <3>1, Powers
    <3>3. a \in Nat /\ c \in Nat
      BY <1>1, <1>3, <3>1 DEF Horner
    <3>4. u[k] = a * (10 * t)
      BY <1>6, <2>1, <3>1, <3>2
    <3>5. u[k + 1] = u[k] + (c * t)
      BY <1>4, <3>1
    <3>6. h[k + 1] = (a * 10) + c
      BY <1>3, <3>1 DEF Horner
    <3>7. (a * (10 * t)) + (c * t) = ((a * 10) + c) * t
      <4>. HIDE DEF a, c, t
      <4>. QED  BY <3>2, <3>3
    <3>8. u[k + 1] = h[k + 1] * t
      BY <3>4, <3>5, <3>6, <3>7
    <3>. QED  BY <3>8
  <2>. QED  BY <2>1
<1>7. n \in K
  <2>. HIDE DEF K
  <2>. QED  BY <1>1, <1>5, <1>6, SetInduction DEF Inductive
<1>8. u[n] = h[n]
  <2>1. n - n = 0 /\ h[n] \in Nat
    BY <1>1, <1>3 DEF Horner
  <2>2. u[n] = h[n] * Power10[n - n]
    BY <1>1, <1>7
  <2>3. Power10[n - n] = 1
    BY <2>1, Powers
  <2>. QED  BY <2>1, <2>2, <2>3
<1>. QED  BY <1>3, <1>4, <1>8 DEF Rounds

(* The check before a digit refuses exactly what would not fit. *)
LEMMA DigitFits ==
    ASSUME NEW a \in Nat, NEW c \in Nat, NEW M \in Nat
    PROVE  /\ a > (M - c) \div 10 <=> (a * 10) + c > M
           /\ (a * 10) + c <= M => ((a * 10) + c) % (M + 1) = (a * 10) + c
  OBVIOUS

(* Digits that are read one after the other give the number they stand for, or none. *)
LEMMA ParseExact ==
    ASSUME NEW text \in Text
    PROVE  /\ Number(text) \in Nat
           /\ parseUnsigned(text) = IF IsNumber(text) THEN Number(text) ELSE Bad
<1>. DEFINE n == Len(text)
            None(k) == \E i \in 1 .. k : text[i] = NotDigit
<1>1. n \in Nat /\ \A i \in 1 .. n : text[i] \in Nat
  BY DEF Text, NotDigit
<1>2. PICK h : Horner(text, h) /\ Number(text) = h[n]
  BY HornerIs
<1>3. PICK v : /\ Rounds(v, n, (IF text = <<>> THEN Bad ELSE 0), parseUnsigned(text))
               /\ \A k \in 1 .. n : v[k] = NextValue(v[k - 1], text[k])
  BY DigitLoop
<1>. DEFINE Value(k) == IF None(k) \/ h[k] > MaxUnsigned THEN Bad ELSE h[k]
            K == {k \in Nat : k <= n => v[k] = Value(k)}
<1>4. CASE text = <<>>
  <2>1. n = 0
    BY <1>4
  <2>2. parseUnsigned(text) = Bad
    BY <1>3, <1>4, <2>1 DEF Rounds
  <2>3. Number(text) \in Nat
    BY <1>1, <1>2 DEF Horner
  <2>. QED  BY <1>4, <2>2, <2>3 DEF IsNumber
<1>5. CASE text # <<>>
  <2>1. 0 \in K
    <3>1. v[0] = 0 /\ h[0] = 0
      BY <1>2, <1>3, <1>5 DEF Rounds, Horner
    <3>2. ~ None(0)
      OBVIOUS
    <3>. QED  BY <3>1, <3>2, OptionsAssumption
  <2>2. ASSUME NEW k \in Nat, k \in K
        PROVE  k + 1 \in K
    <3>1. CASE k + 1 <= n
      <4>. DEFINE a == h[k]
                  c == text[k + 1]
      <4>1. k + 1 \in 1 .. n /\ k \in 0 .. n /\ (k + 1) - 1 = k
        BY <1>1, <3>1
      <4>2. a \in Nat /\ c \in Nat /\ MaxUnsigned \in Nat
        BY <1>1, <1>2, <4>1, OptionsAssumption DEF Horner
      <4>3. v[k] = Value(k)
        BY <2>2, <3>1
      <4>4. v[k + 1] = NextValue(v[k], c)
        BY <1>3, <4>1
      <4>5. h[k + 1] = (a * 10) + c
        BY <1>2, <4>1 DEF Horner
      <4>6. None(k + 1) <=> None(k) \/ c = NotDigit
        <5>1. \A i : i \in 1 .. k + 1 <=> i \in 1 .. k \/ i = k + 1
          OBVIOUS
        <5>. QED  BY <5>1
      <4>. HIDE DEF None, a, c
      <4>7. CASE None(k)
        BY <4>3, <4>4, <4>6, <4>7 DEF NextValue
      <4>8. CASE ~ None(k) /\ a > MaxUnsigned
        <5>1. (a * 10) + c > MaxUnsigned
          BY <4>2, <4>8
        <5>2. v[k] = Bad
          BY <4>3, <4>8 DEF a
        <5>. QED  BY <4>4, <4>5, <5>1, <5>2 DEF NextValue
      <4>9. CASE ~ None(k) /\ ~ (a > MaxUnsigned)
        <5>1. v[k] = a /\ a # Bad
          BY <4>2, <4>3, <4>9 DEF a, Bad
        <5>2. CASE c = NotDigit
          BY <4>4, <4>6, <5>2 DEF NextValue
        <5>3. CASE c # NotDigit
          <6>. DEFINE t == (a * 10) + c
          <6>1. v[k + 1] = IF a > (MaxUnsigned - c) \div 10 THEN Bad
                           ELSE t % (MaxUnsigned + 1)
            BY <4>4, <5>1, <5>3 DEF NextValue
          <6>2. /\ a > (MaxUnsigned - c) \div 10 <=> t > MaxUnsigned
                /\ t <= MaxUnsigned => t % (MaxUnsigned + 1) = t
            BY <4>2, DigitFits
          <6>3. t \in Nat /\ h[k + 1] = t
            BY <4>2, <4>5
          <6>. HIDE DEF t
          <6>4. v[k + 1] = IF t > MaxUnsigned THEN Bad ELSE t
            BY <4>2, <6>1, <6>2, <6>3
          <6>. QED  BY <4>6, <4>9, <5>3, <6>3, <6>4
        <5>. QED  BY <5>2, <5>3
      <4>. QED  BY <4>7, <4>8, <4>9
    <3>. QED  BY <3>1
  <2>3. n \in K
    <3>. HIDE DEF K
    <3>. QED  BY <1>1, <2>1, <2>2, SetInduction DEF Inductive
  <2>4. parseUnsigned(text) = Value(n)
    BY <1>1, <1>3, <2>3 DEF Rounds
  <2>5. None(n) <=> NotDigit \in ToSet(text)
    BY InToSet DEF Text
  <2>6. h[n] \in Nat /\ MaxUnsigned \in Nat
    BY <1>1, <1>2, OptionsAssumption DEF Horner
  <2>. HIDE DEF None
  <2>. QED  BY <1>2, <1>5, <2>4, <2>5, <2>6 DEF IsNumber
<1>. QED  BY <1>4, <1>5

\* An option that can be obeyed.
Obeyed(arg) ==
    CASE arg.key = "threads"   -> IsPositive(arg.text)
      [] arg.key = "outputDir" -> arg.text # <<>>
      [] OTHER                 -> IsNumber(arg.text)

\* What it makes of its field.
ValueOf(arg) == IF arg.key = "outputDir" THEN arg.text ELSE Number(arg.text)

(* An option sets its field, or is refused, and leaves the others alone. *)
LEMMA Overrides ==
    ASSUME NEW o \in Setting, NEW arg \in Argument, arg.form = "option" => arg.key \in Known
    PROVE  /\ Override(o, arg) \in Setting
           /\ ~ o.ok \/ arg.form # "option" => Override(o, arg) = o
           /\ o.ok /\ arg.form = "option" =>
                 IF Obeyed(arg) THEN Override(o, arg) = [o EXCEPT ![arg.key] = ValueOf(arg)]
                 ELSE Override(o, arg).ok = FALSE
<1>. DEFINE number == parseUnsigned(arg.text)
<1>1. /\ Number(arg.text) \in Nat /\ arg.text \in Text
      /\ number = IF IsNumber(arg.text) THEN Number(arg.text) ELSE Bad
  BY ParseExact DEF Argument
<1>2. Refused \in Setting /\ Refused.ok = FALSE
  BY OptionsAssumption DEF Refused, Defaults, Setting
<1>3. CASE ~ o.ok \/ arg.form # "option"
  BY <1>3 DEF Override
<1>4. CASE o.ok /\ arg.form = "option"
  <2>1. CASE arg.key = "threads"
    <3>1. Override(o, arg) = IF number \in {Bad, 0} THEN Refused ELSE [o EXCEPT !.threads = number]
      BY <1>4, <2>1 DEF Override, Limit
    <3>2. Obeyed(arg) <=> number \notin {Bad, 0}
      BY <1>1, <2>1 DEF Obeyed, IsPositive, Bad
    <3>3. Obeyed(arg) => number = ValueOf(arg) /\ number \in Nat
      BY <1>1, <2>1 DEF Obeyed, IsPositive, ValueOf
    <3>. HIDE DEF number
    <3>4. Obeyed(arg) => [o EXCEPT !.threads = number] \in Setting
      BY <3>3 DEF Setting
    <3>. QED  BY <1>2, <1>4, <2>1, <3>1, <3>2, <3>3, <3>4
  <2>2. CASE arg.key = "outputDir"
    <3>1. Override(o, arg) = IF arg.text = <<>> THEN Refused ELSE [o EXCEPT !.outputDir = arg.text]
      BY <1>4, <2>2 DEF Override, Limit
    <3>2. [o EXCEPT !.outputDir = arg.text] \in Setting
      BY <1>1 DEF Setting
    <3>3. (Obeyed(arg) <=> arg.text # <<>>) /\ ValueOf(arg) = arg.text
      BY <2>2 DEF Obeyed, ValueOf
    <3>. QED  BY <1>2, <1>4, <2>2, <3>1, <3>2, <3>3
  <2>3. CASE arg.key \in Limit
    <3>1. Override(o, arg) = IF number = Bad THEN Refused ELSE [o EXCEPT ![arg.key] = number]
      BY <1>4, <2>3 DEF Override, Limit
    <3>2. Obeyed(arg) <=> number # Bad
      BY <1>1, <2>3 DEF Obeyed, Bad, Limit
    <3>3. Obeyed(arg) => number = ValueOf(arg) /\ number \in Nat
      BY <1>1, <2>3, <3>2 DEF ValueOf, Limit
    <3>. HIDE DEF number
    <3>4. number \in Nat => [o EXCEPT ![arg.key] = number] \in Setting
      BY <2>3 DEF Setting, Limit
    <3>. QED  BY <1>2, <1>4, <3>1, <3>2, <3>3, <3>4
  <2>. QED  BY <1>4, <2>1, <2>2, <2>3 DEF Known
<1>. QED  BY <1>3, <1>4

(* The loop over the options. *)
LEMMA OptionLoop ==
    ASSUME NEW args \in Seq(Argument), NEW options \in Setting, KeysKnown(args)
    PROVE  \E v : /\ Rounds(v, Len(args), options, FoldLeft(Override, options, args))
                  /\ \A k \in 1 .. Len(args) :
                        v[k] = Override(v[k - 1], args[k])
<1>. DEFINE n == Len(args)
            V == Setting
            body(o, arg) == Override(o, arg)
            op == [p \in V \X (1 .. n) |-> body(p[1], args[p[2]])]
            step(f) == [s \in SUBSET (1 .. n) |->
                          IF s = {} THEN options ELSE body(f[s \ {Max(s)}], args[Max(s)])]
            iter == CHOOSE f : f = step(f)
            v == [k \in 0 .. n |-> iter[1 .. k]]
<1>1. n \in Nat /\ DOMAIN args = 1 .. n /\ \A i \in 1 .. n : args[i] \in Argument
  OBVIOUS
<1>2. op \in [V \X (1 .. n) -> V] /\ options \in V
  BY <1>1, Overrides DEF KeysKnown
<1>3. \E H : H = step(H)
  <2>. DEFINE base == options
  <2>1. n \in Nat /\ base \in V
    BY <1>1, <1>2
  <2>2. PICK H : IsLoop(n, V, base, op, H)
    <3>. HIDE DEF op, V, n, base
    <3>. QED  BY <1>2, <2>1, LoopExists DEF HasLoop
  <2>3. ASSUME NEW s \in SUBSET (1 .. n)
        PROVE  LoopAt(n, V, base, op, H, s)
    <3>. HIDE DEF op, V, n, base
    <3>. QED  BY <2>1, <2>2, LoopIs
  <2>4. ASSUME NEW s \in SUBSET (1 .. n), s # {}
        PROVE  H[s] = body(H[s \ {Max(s)}], args[Max(s)])
    <3>. DEFINE p == <<H[s \ {Max(s)}], Max(s)>>
    <3>1. op[p] = body(p[1], args[p[2]])
      <4>1. p \in V \X (1 .. n)
        BY <2>3, <2>4 DEF LoopAt
      <4>. HIDE DEF p, body
      <4>. QED  BY <4>1
    <3>. HIDE DEF body, op
    <3>. QED  BY <2>3, <2>4, <3>1 DEF LoopAt
  <2>. HIDE DEF body
  <2>. QED  BY <2>2, <2>3, <2>4 DEF IsLoop, LoopAt
<1>5. iter = step(iter)
  <2>. HIDE DEF step
  <2>. QED  BY <1>3
<1>6. FoldLeft(Override, options, args) = iter[1 .. n]
  BY <1>1 DEF FoldLeft, MapThenFoldSet
<1>. HIDE DEF iter
<1>7. v[0] = options /\ FoldLeft(Override, options, args) = v[n]
  <2>1. 1 .. 0 = {}
    OBVIOUS
  <2>2. iter[1 .. 0] = options
    BY <1>5, <2>1
  <2>. HIDE DEF n
  <2>. QED  BY <1>1, <1>6, <2>2
<1>8. ASSUME NEW k \in 1 .. n
      PROVE  v[k] = body(v[k - 1], args[k])
  <2>1. /\ 1 .. k \in SUBSET (1 .. n) /\ 1 .. k # {}
        /\ Max(1 .. k) = k /\ (1 .. k) \ {Max(1 .. k)} = 1 .. k - 1
    BY <1>1, FirstPositions
  <2>. HIDE DEF body
  <2>2. iter[1 .. k] = body(iter[1 .. k - 1], args[k])
    BY <1>1, <1>5, <2>1
  <2>. QED  BY <1>1, <2>2
<1>. QED  BY <1>7, <1>8 DEF Rounds

\* The i-th argument is an option with this key.
Sets(args, i, key) == args[i].form = "option" /\ args[i].key = key

\* What the first k arguments have made of options.
AfterOptions(args, k, before, after) ==
    /\ after \in Setting
    /\ after.ok <=> before.ok /\ \A i \in 1 .. k : args[i].form = "option" => Obeyed(args[i])
    /\ after.ok =>
          /\ \A field \in {"help", "version", "source", "sink"} : after[field] = before[field]
          /\ \A key \in Known :
                /\ (\A i \in 1 .. k : ~ Sets(args, i, key)) => after[key] = before[key]
                /\ \A i \in 1 .. k :
                      Sets(args, i, key) /\ (\A j \in i + 1 .. k : ~ Sets(args, j, key))
                         => after[key] = ValueOf(args[i])

(* One argument more. *)
LEMMA MadeStep ==
    ASSUME NEW args \in Seq(Argument), NEW k \in Nat, k + 1 <= Len(args), KeysKnown(args),
           NEW before, NEW o, AfterOptions(args, k, before, o)
    PROVE  AfterOptions(args, k + 1, before, Override(o, args[k + 1]))
<1>. DEFINE arg == args[k + 1]
            after == Override(o, arg)
            is == arg.form = "option"
<1>1. /\ k + 1 \in 1 .. Len(args) /\ k + 1 \in DOMAIN args
      /\ \A i : i \in 1 .. k + 1 <=> i \in 1 .. k \/ i = k + 1
  OBVIOUS
<1>2. arg \in Argument /\ (is => arg.key \in Known) /\ o \in Setting
  BY <1>1 DEF KeysKnown, AfterOptions
<1>3. /\ after \in Setting
      /\ ~ o.ok \/ ~ is => after = o
      /\ o.ok /\ is => IF Obeyed(arg) THEN after = [o EXCEPT ![arg.key] = ValueOf(arg)]
                       ELSE after.ok = FALSE
  BY <1>2, Overrides
<1>. HIDE DEF after
<1>4. \A field : field \in DOMAIN o <=>
         field \in {"ok", "help", "version", "showProgress", "source", "sink"} \cup Known
  BY <1>2 DEF Setting, Known, Limit
<1>5. o.ok /\ is /\ Obeyed(arg) => /\ \A field \in DOMAIN o \ {arg.key} : after[field] = o[field]
                                   /\ after[arg.key] = ValueOf(arg) /\ after.ok
  <2>1. HAVE o.ok /\ is /\ Obeyed(arg)
  <2>2. arg.key \in DOMAIN o /\ arg.key # "ok"
    BY <1>2, <1>4, <2>1 DEF Known, Limit
  <2>. QED  BY <1>2, <1>3, <2>1, <2>2 DEF Setting
<1>6. after.ok <=> before.ok /\ \A i \in 1 .. k + 1 : args[i].form = "option" => Obeyed(args[i])
  <2>1. after.ok <=> o.ok /\ (is => Obeyed(arg))
    BY <1>2, <1>3, <1>5 DEF Setting
  <2>. HIDE DEF arg
  <2>. QED  BY <1>1, <2>1 DEF AfterOptions, arg
<1>7. ASSUME after.ok
      PROVE  o.ok /\ (is => Obeyed(arg))
  BY <1>2, <1>3, <1>7 DEF Setting
<1>8. ASSUME after.ok, NEW field \in {"help", "version", "source", "sink"}
      PROVE  after[field] = before[field]
  <2>1. o[field] = before[field]
    BY <1>7, <1>8 DEF AfterOptions
  <2>2. after[field] = o[field]
    <3>1. CASE is
      <4>1. field \in DOMAIN o \ {arg.key}
        BY <1>2, <1>4, <3>1 DEF Known, Limit
      <4>. QED  BY <1>5, <1>7, <1>8, <3>1, <4>1
    <3>. QED  BY <1>3, <3>1
  <2>. QED  BY <2>1, <2>2
<1>9. ASSUME after.ok, NEW key \in Known
      PROVE  after[key] = IF Sets(args, k + 1, key) THEN ValueOf(arg) ELSE o[key]
  <2>1. CASE Sets(args, k + 1, key)
    BY <1>5, <1>7, <1>9, <2>1 DEF Sets
  <2>2. CASE ~ Sets(args, k + 1, key)
    <3>1. CASE is
      <4>1. key \in DOMAIN o \ {arg.key}
        BY <1>4, <2>2, <3>1 DEF Sets
      <4>. QED  BY <1>5, <1>7, <1>9, <2>2, <3>1, <4>1
    <3>. QED  BY <1>3, <2>2, <3>1
  <2>. QED  BY <2>1, <2>2
<1>10. ASSUME after.ok, NEW key \in Known
       PROVE  /\ (\A i \in 1 .. k + 1 : ~ Sets(args, i, key)) => after[key] = before[key]
              /\ \A i \in 1 .. k + 1 :
                    Sets(args, i, key) /\ (\A j \in i + 1 .. k + 1 : ~ Sets(args, j, key))
                       => after[key] = ValueOf(args[i])
  <2>. HIDE DEF arg
  <2>1. ASSUME \A i \in 1 .. k + 1 : ~ Sets(args, i, key)
        PROVE  after[key] = before[key]
    BY <1>1, <1>7, <1>9, <1>10, <2>1 DEF AfterOptions
  <2>2. ASSUME NEW i \in 1 .. k + 1, Sets(args, i, key),
               \A j \in i + 1 .. k + 1 : ~ Sets(args, j, key)
        PROVE  after[key] = ValueOf(args[i])
    <3>1. CASE i = k + 1
      BY <1>9, <1>10, <2>2, <3>1 DEF arg
    <3>2. CASE i # k + 1
      <4>1. i \in 1 .. k /\ k + 1 \in i + 1 .. k + 1 /\ \A j \in i + 1 .. k : j \in i + 1 .. k + 1
        BY <3>2
      <4>2. o[key] = ValueOf(args[i])
        BY <1>7, <1>10, <2>2, <4>1 DEF AfterOptions
      <4>3. ~ Sets(args, k + 1, key)
        BY <2>2, <4>1
      <4>. QED  BY <1>9, <1>10, <4>2, <4>3
    <3>. QED  BY <3>1, <3>2
  <2>. QED  BY <2>1, <2>2
<1>11. AfterOptions(args, k + 1, before, after)
  BY <1>3, <1>6, <1>8, <1>10 DEF AfterOptions
<1>. QED  BY <1>11 DEF after

(* All arguments. *)
LEMMA MadeByAll ==
    ASSUME NEW args \in Seq(Argument), NEW before \in Setting, KeysKnown(args)
    PROVE  AfterOptions(args, Len(args), before, FoldLeft(Override, before, args))
<1>1. PICK v : /\ Rounds(v, Len(args), before, FoldLeft(Override, before, args))
               /\ \A k \in 1 .. Len(args) : v[k] = Override(v[k - 1], args[k])
  BY OptionLoop
<1>. DEFINE K == {k \in Nat : k <= Len(args) => AfterOptions(args, k, before, v[k])}
<1>2. 0 \in K
  <2>1. v[0] = before
    BY <1>1 DEF Rounds
  <2>. QED  BY <2>1 DEF AfterOptions
<1>3. ASSUME NEW k \in Nat, k \in K
      PROVE  k + 1 \in K
  <2>1. CASE k + 1 <= Len(args)
    <3>1. k + 1 \in 1 .. Len(args) /\ (k + 1) - 1 = k /\ AfterOptions(args, k, before, v[k])
      BY <1>3, <2>1
    <3>2. v[k + 1] = Override(v[k], args[k + 1])
      BY <1>1, <3>1
    <3>3. AfterOptions(args, k + 1, before, Override(v[k], args[k + 1]))
      BY <2>1, <3>1, MadeStep
    <3>. QED  BY <3>2, <3>3
  <2>. QED  BY <2>1
<1>4. Len(args) \in K
  <2>. HIDE DEF K
  <2>. QED  BY <1>2, <1>3, SetInduction DEF Inductive
<1>5. AfterOptions(args, Len(args), before, v[Len(args)])
  BY <1>4
<1>. QED  BY <1>1, <1>5 DEF Rounds

\* Words that can be obeyed.
WordsValid(words) ==
    /\ Len(words) \in 3 .. 5 /\ IsVertex(words[2].text) /\ IsVertex(words[3].text)
    /\ Len(words) >= 4 => IsPositive(words[4].text)

(* The words set up to four fields, or are refused. *)
LEMMA PositionalIs ==
    ASSUME NEW words \in Seq(Argument), NEW o \in Setting, o.ok
    PROVE  /\ Positional(words, o) \in Setting
           /\ Positional(words, o).ok <=> WordsValid(words)
           /\ WordsValid(words) =>
                 Positional(words, o) =
                    [o EXCEPT !.source = Number(words[2].text), !.sink = Number(words[3].text),
                              !.threads = IF Len(words) >= 4 THEN Number(words[4].text) ELSE @,
                              !.outputDir = IF Len(words) = 5 THEN words[5].text ELSE @]
<1>1. Refused \in Setting /\ Refused.ok = FALSE
  BY OptionsAssumption DEF Refused, Defaults, Setting
<1>2. ASSUME NEW i \in 1 .. Len(words)
      PROVE  /\ words[i].text \in Text /\ Number(words[i].text) \in Nat
             /\ parseUnsigned(words[i].text) = IF IsNumber(words[i].text) THEN Number(words[i].text)
                                               ELSE Bad
  <2>1. words[i] \in Argument
    OBVIOUS
  <2>2. words[i].text \in Text
    BY <2>1 DEF Argument
  <2>. QED  BY <2>2, ParseExact
<1>3. Len(words) \in Nat /\ VertexIndexMax \in Nat
  BY OptionsAssumption
<1>4. CASE Len(words) \notin 3 .. 5
  BY <1>1, <1>4 DEF Positional, WordsValid
<1>5. CASE Len(words) \in 3 .. 5
  <2>. DEFINE source  == parseUnsigned(words[2].text)
              sink    == parseUnsigned(words[3].text)
              threads == parseUnsigned(words[4].text)
              result == [o EXCEPT !.source = source, !.sink = sink,
                                  !.threads = IF Len(words) >= 4 THEN threads ELSE @,
                                  !.outputDir = IF Len(words) = 5 THEN words[5].text ELSE @]
              bad == \/ source \notin 0 .. VertexIndexMax \/ sink \notin 0 .. VertexIndexMax
                     \/ Len(words) >= 4 /\ threads \in {Bad, 0}
  <2>1. Positional(words, o) = IF bad THEN Refused ELSE result
    BY <1>5 DEF Positional
  <2>2. ASSUME NEW i \in {2, 3}
        PROVE  /\ parseUnsigned(words[i].text) \in 0 .. VertexIndexMax <=> IsVertex(words[i].text)
               /\ IsVertex(words[i].text) =>
                     /\ parseUnsigned(words[i].text) = Number(words[i].text)
                     /\ Number(words[i].text) \in Nat
    <3>. DEFINE l == Len(words)
    <3>1. l \in 3 .. 5
      BY <1>5
    <3>2. i \in 1 .. l
      <4>. HIDE DEF l
      <4>. QED  BY <3>1
    <3>. QED  BY <1>2, <1>3, <3>2 DEF IsVertex, Bad
  <2>3. Len(words) >= 4 =>
           /\ threads \notin {Bad, 0} <=> IsPositive(words[4].text)
           /\ IsPositive(words[4].text) =>
                 threads = Number(words[4].text) /\ Number(words[4].text) \in Nat
    <3>1. Len(words) >= 4 => 4 \in 1 .. Len(words)
      BY <1>3
    <3>. QED  BY <1>2, <3>1 DEF IsPositive, Bad
  <2>4. bad <=> ~ WordsValid(words)
    BY <1>5, <2>2, <2>3 DEF WordsValid
  <2>5. Len(words) = 5 => words[5].text \in Text
    BY <1>2
  <2>6. WordsValid(words) =>
           /\ source = Number(words[2].text) /\ sink = Number(words[3].text)
           /\ source \in Nat /\ sink \in Nat
           /\ Len(words) >= 4 => threads = Number(words[4].text) /\ threads \in Nat
    BY <2>2, <2>3 DEF WordsValid
  <2>. HIDE DEF source, sink, threads
  <2>7. WordsValid(words) => result \in Setting /\ result.ok
    BY <2>5, <2>6 DEF Setting
  <2>8. CASE ~ WordsValid(words)
    BY <1>1, <2>1, <2>4, <2>8
  <2>9. CASE WordsValid(words)
    BY <2>1, <2>4, <2>6, <2>7, <2>9
  <2>. QED  BY <2>8, <2>9
<1>. QED  BY <1>4, <1>5

\* The positions of the options with a key, and what the last of them does to its field.
Setters(args, key) == {i \in DOMAIN args : Sets(args, i, key)}
Decided(args, key, before, after) ==
    LET at == Setters(args, key)
    IN  /\ at = {} => after[key] = before[key]
        /\ at # {} => /\ Max(at) \in 1 .. Len(args) /\ Sets(args, Max(at), key)
                      /\ after[key] = ValueOf(args[Max(at)])

(* The last option with a key decides its field.                             *)
LEMMA LastDecides ==
    ASSUME NEW args \in Seq(Argument), NEW before, NEW after, NEW key \in Known,
           AfterOptions(args, Len(args), before, after), after.ok
    PROVE  Decided(args, key, before, after)
<1>. DEFINE n == Len(args)
            at == Setters(args, key)
<1>1. DOMAIN args = 1 .. n /\ n \in Nat
  OBVIOUS
<1>4. at = {i \in 1 .. n : Sets(args, i, key)}
  BY <1>1 DEF Setters
<1>. HIDE DEF at
<1>2. CASE at = {}
  <2>1. \A i \in 1 .. n : ~ Sets(args, i, key)
    BY <1>2, <1>4
  <2>. QED  BY <1>1, <1>2, <2>1 DEF AfterOptions, Decided, at
<1>3. CASE at # {}
  <2>1. at \in SUBSET (1 .. n)
    BY <1>4
  <2>. DEFINE m == Max(at)
  <2>2. m \in at /\ \A i \in at : i <= m
    <3>. HIDE DEF n
    <3>. QED  BY <1>1, <1>3, <2>1, LastPosition
  <2>. HIDE DEF m
  <2>3. m \in 1 .. n /\ Sets(args, m, key) /\ \A j \in m + 1 .. n : ~ Sets(args, j, key)
    BY <1>1, <1>4, <2>2
  <2>4. after[key] = ValueOf(args[m])
    BY <2>3 DEF AfterOptions
  <2>. QED  BY <1>1, <1>3, <2>3, <2>4 DEF m, at, Decided
<1>. QED  BY <1>1, <1>2, <1>3

(* The text that decides is that of the last option or of a word.            *)
LEMMA GivenIs ==
    ASSUME NEW args \in Seq(Argument), NEW key, NEW n
    PROVE  LET at == Setters(args, key)
           IN  Given(args, key, n) = IF at # {} THEN args[Max(at)].text
                                     ELSE IF Len(Words(args)) >= n THEN Words(args)[n].text
                                     ELSE DefaultOutput
  BY DEF Given, Setters, Sets

(* What parsing one argument after the other comes to.                       *)
LEMMA OptionsMeanAlways ==
    ASSUME argv \in Seq(Argument)
    PROVE  OptionsMean
<1>. DEFINE words == Words(argv)
            flags == [Defaults EXCEPT !.help = Has(argv, "help"),
                                      !.version = Has(argv, "version"),
                                      !.showProgress = Has(argv, "progress")]
            unknown == \E arg \in ToSet(argv) : arg.form = "option" /\ arg.key \notin Known
            before == Positional(words, flags)
            at(key) == Setters(argv, key)
<1>1. flags \in Setting /\ flags.ok /\ flags.help = Has(argv, "help")
      /\ flags.version = Has(argv, "version") /\ flags.threads = DefaultThreads
      /\ flags.outputDir = DefaultOutput /\ \A key \in Limit : flags[key] = 0
  <2>1. Has(argv, "help") \in BOOLEAN /\ Has(argv, "version") \in BOOLEAN
        /\ Has(argv, "progress") \in BOOLEAN
    BY DEF Has
  <2>2. Defaults \in Setting /\ Defaults.ok /\ Defaults.threads = DefaultThreads
        /\ Defaults.outputDir = DefaultOutput /\ \A key \in Limit : Defaults[key] = 0
    BY OptionsAssumption DEF Setting, Defaults, Limit
  <2>. HIDE DEF Defaults
  <2>. QED  BY <2>1, <2>2 DEF Setting, Limit
<1>2. parsed = IF Has(argv, "bare") \/ unknown THEN Refused
               ELSE IF flags.help \/ flags.version THEN flags
               ELSE FoldLeft(Override, before, argv)
  BY DEF parsed, parseOptions
<1>3. words \in Seq(Argument)
  BY WordsAre
<1>4. \A x : x \in ToSet(argv) <=> \E i \in 1 .. Len(argv) : argv[i] = x
  BY InToSet
<1>5. DOMAIN argv = 1 .. Len(argv) /\ \A i \in 1 .. Len(argv) : argv[i] \in Argument
  OBVIOUS
<1>. HIDE DEF flags
<1>6. CASE Has(argv, "bare") \/ unknown
  <2>1. ~ Valid(argv)
    BY <1>6 DEF Valid
  <2>. QED  BY <1>2, <1>6, <2>1 DEF OptionsMean, Refused, Defaults
<1>7. CASE ~ (Has(argv, "bare") \/ unknown) /\ (flags.help \/ flags.version)
  <2>1. Valid(argv)
    BY <1>1, <1>7 DEF Valid
  <2>. QED  BY <1>1, <1>2, <1>7, <2>1 DEF OptionsMean
<1>8. CASE ~ (Has(argv, "bare") \/ unknown) /\ ~ (flags.help \/ flags.version)
  <2>1. KeysKnown(argv)
    BY <1>4, <1>5, <1>8 DEF KeysKnown
  <2>2. /\ before \in Setting /\ (before.ok <=> WordsValid(words))
        /\ WordsValid(words) =>
              before = [flags EXCEPT !.source = Number(words[2].text), !.sink = Number(words[3].text),
                                     !.threads = IF Len(words) >= 4 THEN Number(words[4].text) ELSE @,
                                     !.outputDir = IF Len(words) = 5 THEN words[5].text ELSE @]
    <3>. HIDE DEF words
    <3>. QED  BY <1>1, <1>3, PositionalIs
  <2>. HIDE DEF before
  <2>3. AfterOptions(argv, Len(argv), before, parsed)
    <3>1. parsed = FoldLeft(Override, before, argv)
      BY <1>2, <1>8
    <3>2. AfterOptions(argv, Len(argv), before, FoldLeft(Override, before, argv))
      BY <2>1, <2>2, MadeByAll
    <3>. QED  BY <3>1, <3>2
  <2>4. parsed.ok <=> WordsValid(words)
                      /\ \A i \in 1 .. Len(argv) : argv[i].form = "option" => Obeyed(argv[i])
    BY <2>2, <2>3 DEF AfterOptions
  <2>5. Valid(argv) <=> WordsValid(words)
                        /\ \A arg \in {arg \in ToSet(argv) : arg.form = "option"} : Obeyed(arg)
    BY <1>1, <1>8 DEF Valid, WordsValid, Obeyed
  <2>6. (\A arg \in {arg \in ToSet(argv) : arg.form = "option"} : Obeyed(arg))
           <=> \A i \in 1 .. Len(argv) : argv[i].form = "option" => Obeyed(argv[i])
    BY <1>4
  <2>7. parsed.ok <=> Valid(argv)
    BY <2>4, <2>5, <2>6
  <2>8. CASE ~ parsed.ok
    BY <2>7, <2>8 DEF OptionsMean
  <2>9. CASE parsed.ok
    <3>1. /\ WordsValid(words)
          /\ \A field \in {"help", "version", "source", "sink"} : parsed[field] = before[field]
      BY <2>3, <2>4, <2>9 DEF AfterOptions
    <3>2. /\ before.help = flags.help /\ before.version = flags.version
          /\ before.source = Number(words[2].text) /\ before.sink = Number(words[3].text)
          /\ before.threads = IF Len(words) >= 4 THEN Number(words[4].text) ELSE DefaultThreads
          /\ before.outputDir = IF Len(words) = 5 THEN words[5].text ELSE DefaultOutput
          /\ \A key \in Limit : before[key] = 0
      <4>. HIDE DEF flags, words
      <4>1. /\ before.help = flags.help /\ before.version = flags.version
            /\ \A key \in Limit : before[key] = 0
        <5>1. before.help = flags.help /\ before.version = flags.version
          BY <1>1, <2>2, <3>1 DEF Setting
        <5>2. before.maxCuts = 0 /\ before.maxCutSize = 0 /\ before.maxExamined = 0
          BY <1>1, <2>2, <3>1 DEF Setting, Limit
        <5>. QED  BY <5>1, <5>2 DEF Limit
      <4>2. before.source = Number(words[2].text) /\ before.sink = Number(words[3].text)
        BY <1>1, <2>2, <3>1 DEF Setting
      <4>3. before.threads = IF Len(words) >= 4 THEN Number(words[4].text) ELSE DefaultThreads
        BY <1>1, <2>2, <3>1 DEF Setting
      <4>4. before.outputDir = IF Len(words) = 5 THEN words[5].text ELSE DefaultOutput
        BY <1>1, <2>2, <3>1 DEF Setting
      <4>. QED  BY <4>1, <4>2, <4>3, <4>4
    <3>3. ASSUME NEW key \in Known
          PROVE  /\ at(key) = {} => parsed[key] = before[key]
                 /\ at(key) # {} =>
                       /\ Max(at(key)) \in 1 .. Len(argv) /\ Sets(argv, Max(at(key)), key)
                       /\ parsed[key] = ValueOf(argv[Max(at(key))])
      <4>1. Decided(argv, key, before, parsed)
        BY <2>3, <2>9, LastDecides
      <4>. QED  BY <4>1 DEF Decided
    <3>4. ASSUME NEW key, NEW n
          PROVE  Given(argv, key, n) = IF at(key) # {} THEN argv[Max(at(key))].text
                                       ELSE IF Len(words) >= n THEN words[n].text
                                       ELSE DefaultOutput
      BY GivenIs
    <3>5. Len(words) \in 3 .. 5 /\ Len(words) \in Nat
      BY <1>3, <3>1 DEF WordsValid
    <3>. HIDE DEF at, words
    <3>6. ASSUME NEW key \in Known, at(key) # {}
          PROVE  LET arg == argv[Max(at(key))]
                 IN  arg.key = key /\ arg.text \in Text /\ arg.text # DefaultOutput
                     /\ parsed[key] = ValueOf(arg) /\ \A n : Given(argv, key, n) = arg.text
      <4>. DEFINE arg == argv[Max(at(key))]
      <4>1. arg \in Argument
        BY <1>5, <3>3, <3>6
      <4>2. arg.text \in Text /\ arg.text # DefaultOutput
        BY <4>1, DefaultAssumption DEF Argument
      <4>. QED  BY <3>3, <3>4, <3>6, <4>2 DEF Sets
    <3>7. parsed.outputDir = Given(argv, "outputDir", 5)
      <4>1. "outputDir" \in Known
        BY DEF Known
      <4>2. CASE at("outputDir") # {}
        BY <3>6, <4>1, <4>2 DEF ValueOf
      <4>3. CASE at("outputDir") = {}
        BY <3>2, <3>3, <3>4, <3>5, <4>1, <4>3
      <4>. QED  BY <4>2, <4>3
    <3>8. LET threads == Given(argv, "threads", 4)
          IN  parsed.threads = IF threads = DefaultOutput THEN DefaultThreads ELSE Number(threads)
      <4>1. "threads" \in Known
        BY DEF Known
      <4>2. CASE at("threads") # {}
        BY <3>6, <4>1, <4>2 DEF ValueOf
      <4>3. CASE at("threads") = {}
        <5>1. Len(words) >= 4 => words[4].text # DefaultOutput
          <6>1. Len(words) >= 4 => words[4] \in Argument
            BY <1>3, <3>5
          <6>. QED  BY <6>1, DefaultAssumption DEF Argument
        <5>. QED  BY <3>2, <3>3, <3>4, <4>1, <4>3, <5>1
      <4>. QED  BY <4>2, <4>3
    <3>9. ASSUME NEW key \in Limit
          PROVE  LET limit == Given(argv, key, 6)
                 IN  parsed[key] = IF limit = DefaultOutput THEN 0 ELSE Number(limit)
      <4>1. key \in Known /\ key # "outputDir"
        BY DEF Known, Limit
      <4>2. CASE at(key) # {}
        BY <3>6, <4>1, <4>2 DEF ValueOf
      <4>3. CASE at(key) = {}
        <5>1. ~ (Len(words) >= 6)
          <6>. DEFINE l == Len(words)
          <6>1. l \in 3 .. 5
            BY <3>5
          <6>2. ~ (l >= 6)
            <7>. HIDE DEF l
            <7>. QED  BY <6>1
          <6>. QED  BY <6>2
        <5>. QED  BY <3>2, <3>3, <3>4, <4>1, <4>3, <5>1
      <4>. QED  BY <4>2, <4>3
    <3>. QED  BY <1>1, <2>7, <3>1, <3>2, <3>7, <3>8, <3>9 DEF OptionsMean, words
  <2>. QED  BY <2>8, <2>9
<1>. QED  BY <1>6, <1>7, <1>8

(* The arguments are those of a session. *)
LEMMA ArgumentsStay == ProgramSpec => [](argv \in Seq(Argument))
<1>1. ProgramInit => argv \in Seq(Argument)
  BY SessionAssumption DEF ProgramInit
<1>2. argv \in Seq(Argument) /\ [ProgramNext]_programVars => (argv \in Seq(Argument))'
  BY DEF ProgramNext, Make, Made, ParseArguments, Load, LoadFails, LoadUndefined, Solve, Exited,
         Exit, programVars
<1>. QED  BY <1>1, <1>2, PTL DEF ProgramSpec

(* Parsing the arguments one after the other gives what the usage text says of them  *)
(* all, for every command line.                                                      *)
THEOREM OptionsMeanCorrect == ProgramSpec => []OptionsMean
  BY ArgumentsStay, OptionsMeanAlways, PTL

-----------------------------------------------------------------------------
(***************************************************************************)
(* The exit status.                                                        *)
(***************************************************************************)

\* Nothing is decided before the arguments have been parsed; a file is loaded only
\* for a valid command line that asks neither for help nor for the version; and
\* what is said of the status holds once there is one.
StatusInv ==
    /\ stage \in {"make", "parse", "load", "exit"}
    /\ stage # "exit" => outcome = "none"
    /\ stage = "load" => Valid(argv) /\ ~Has(argv, "help") /\ ~Has(argv, "version")
    /\ ExitStatusTrue

(* The arguments decide between an error, an answer, and a file to load.     *)
LEMMA ParseStatusStep ==
    ASSUME StatusInv, OptionsMean, ParseArguments
    PROVE  StatusInv'
<1>1. /\ stage = "parse" /\ outcome = "none" /\ outcome' = "none" /\ argv' = argv
      /\ lines' = lines /\ config' = config /\ header' = header
  BY DEF StatusInv, ParseArguments, Exit, programVars, vars
<1>2. /\ parsed.ok <=> Valid(argv)
      /\ parsed.ok => parsed.help = Has(argv, "help") /\ parsed.version = Has(argv, "version")
  BY <1>1 DEF OptionsMean
<1>3. CASE ~parsed.ok /\ Exit("2")
  BY <1>1, <1>2, <1>3 DEF Exit, StatusInv, ExitStatusTrue, PromisedStatus
<1>4. CASE parsed.ok /\ (parsed.help \/ parsed.version) /\ Exit("0")
  BY <1>1, <1>2, <1>4 DEF Exit, StatusInv, ExitStatusTrue, PromisedStatus
<1>5. CASE parsed.ok /\ ~parsed.help /\ ~parsed.version /\ stage' = "load"
  BY <1>1, <1>2, <1>5 DEF StatusInv, ExitStatusTrue
<1>. QED  BY <1>3, <1>4, <1>5 DEF ParseArguments

(* What the loader says of the file, and how the search ends, is the status. *)
LEMMA StatusStep ==
    ASSUME ProgramInv, StatusInv, OptionsMean, [ProgramNext]_programVars
    PROVE  StatusInv'
<1>1. CASE Make \/ Made \/ Load
  BY <1>1 DEF Make, Made, Load, StatusInv, ExitStatusTrue
<1>2. CASE ParseArguments
  BY <1>2, ParseStatusStep
<1>3. CASE LoadFails
  <2>1. ~WellFormed
    BY <1>3 DEF LoadFails, ProgramInv, LoaderInv, FileInv
  <2>2. ~WellFormed' /\ (Valid(argv) /\ ~Has(argv, "help") /\ ~Has(argv, "version"))'
    BY <1>3, <2>1 DEF LoadFails, Exit, StatusInv, WellFormed, vars
  <2>. QED  BY <1>3, <2>2 DEF LoadFails, Exit, StatusInv, ExitStatusTrue, PromisedStatus
<1>4. CASE LoadUndefined
  <2>1. WellFormed /\ ~IdsFit
    BY <1>4, LoaderInvGraph DEF LoadUndefined, ProgramInv, LoaderInv, FileInv, Built, GraphOfFile
  <2>2. WellFormed' /\ ~IdsFit'
    BY <1>4, <2>1 DEF LoadUndefined, Exit, WellFormed, IdsFit, vars
  <2>. QED  BY <1>4, <2>2 DEF LoadUndefined, Exit, StatusInv, ExitStatusTrue
<1>5. CASE Solve
  <2>1. WellFormed
    BY <1>5 DEF Solve, ProgramInv, LoaderInv, FileInv, Built
  <2>2. WellFormed' /\ (Valid(argv) /\ ~Has(argv, "help") /\ ~Has(argv, "version"))'
    BY <1>5, <2>1 DEF Solve, Exit, StatusInv, WellFormed, vars
  <2>. QED  BY <1>5, <2>2 DEF Solve, Exit, StatusInv, ExitStatusTrue, PromisedStatus
<1>6. CASE Exited \/ UNCHANGED programVars
  BY <1>6 DEF Exited, programVars, vars, StatusInv, ExitStatusTrue, PromisedStatus, WellFormed,
              IdsFit, ParsesAsEdge
<1>. QED  BY <1>1, <1>2, <1>3, <1>4, <1>5, <1>6 DEF ProgramNext

(* If the output directory can be created and the ids of the super-vertices     *)
(* fit, every command line and every file ends in the status that the usage     *)
(* text promises: finding 4 has no third cause.                                 *)
THEOREM ExitStatusCorrect == ProgramSpec => []ExitStatusTrue
<1>1. ProgramInit => StatusInv
  BY DEF ProgramInit, StatusInv, ExitStatusTrue
<1>2. ProgramInv /\ StatusInv /\ OptionsMean /\ [ProgramNext]_programVars => StatusInv'
  BY StatusStep
<1>3. StatusInv => ExitStatusTrue
  BY DEF StatusInv
<1>. QED  BY <1>1, <1>2, <1>3, ProgramInvCorrect, OptionsMeanCorrect, PTL DEF ProgramSpec
=============================================================================
