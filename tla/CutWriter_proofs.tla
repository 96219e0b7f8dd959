--------------------------- MODULE CutWriter_proofs --------------------------
(***************************************************************************)
(* Proofs about CutWriter and CutReader, for records, buffers and files of *)
(* every size, any number of them and pages of every length.  A process    *)
(* whose library loses nothing after it has accepted it is assumed:        *)
(* without that the properties do not hold (Durable).                      *)
(***************************************************************************)
EXTENDS CutReader, Lemmas

-----------------------------------------------------------------------------
(***************************************************************************)
(* Sizes, where g has the sizes of the records.                            *)
(***************************************************************************)
SizeIn(g, s) == Total([i \in DOMAIN s |-> g[s[i]]])

(* A record more, or none.                                                   *)
LEMMA SizeInAppend ==
    ASSUME NEW g \in Seq(Nat), NEW s \in Seq(1 .. Len(g)), NEW r \in 1 .. Len(g)
    PROVE  SizeIn(g, s) \in Nat /\ SizeIn(g, Append(s, r)) = SizeIn(g, s) + g[r]
<1>. DEFINE f == [i \in DOMAIN s |-> g[s[i]]]
            u == Append(s, r)
            h == [i \in DOMAIN u |-> g[u[i]]]
            n == Len(s) + 1
<1>1. Len(s) \in Nat /\ DOMAIN s = 1 .. Len(s) /\ \A i \in 1 .. Len(s) : s[i] \in 1 .. Len(g)
  OBVIOUS
<1>2. /\ DOMAIN u = 1 .. n
      /\ u[n] = r
      /\ \A i \in 1 .. Len(s) : u[i] = s[i]
  BY <1>1
<1>3. \A i \in 1 .. Len(g) : g[i] \in Nat
  OBVIOUS
<1>4. IsFiniteSet(DOMAIN s)
  BY <1>1, FS_Interval
<1>5. f \in [DOMAIN s -> Nat]
  BY <1>1, <1>3
<1>6. IsFiniteSet(Units(f)) /\ Total(f) \in Nat
  <2>. HIDE DEF f
  <2>. QED  BY <1>4, <1>5, UnitsFinite
<1>7. Extends(h, f, n)
  <2>1. n \notin 1 .. Len(s) /\ 1 .. n = (1 .. Len(s)) \cup {n}
    BY <1>1
  <2>2. h[n] = g[r] /\ h[n] \in Nat
    <3>1. n \in DOMAIN u
      BY <1>2, <2>1
    <3>. QED  BY <1>2, <1>3, <3>1
  <2>3. \A i \in 1 .. Len(s) : i \in DOMAIN u /\ h[i] = f[i]
    <3>. HIDE DEF u
    <3>. QED  BY <1>1, <1>2, <2>1
  <2>4. DOMAIN h = 1 .. n /\ DOMAIN f = 1 .. Len(s)
    BY <1>1, <1>2
  <2>. HIDE DEF h, f, n
  <2>. QED  BY <2>1, <2>2, <2>3, <2>4 DEF Extends
<1>8. h[n] = g[r]
  <2>1. n \in DOMAIN u
    BY <1>1, <1>2
  <2>. QED  BY <1>2, <2>1
<1>9. Total(h) = Total(f) + h[n]
  <2>. HIDE DEF h, f, n
  <2>. QED  BY <1>6, <1>7, TotalExtends
<1>. QED  BY <1>6, <1>8, <1>9 DEF SizeIn

(* Without records the size is zero.                                         *)
LEMMA SizeInEmpty ==
    ASSUME NEW g
    PROVE  SizeIn(g, <<>>) = 0
<1>1. DOMAIN [i \in DOMAIN <<>> |-> g[<<>>[i]]] = {}
  OBVIOUS
<1>. QED  BY <1>1, TotalOfNone DEF SizeIn

(* The size does not depend on later records.                                *)
LEMMA SizeInLater ==
    ASSUME NEW g \in Seq(Nat), NEW z \in Nat, NEW s \in Seq(1 .. Len(g))
    PROVE  SizeIn(Append(g, z), s) = SizeIn(g, s)
<1>1. \A i \in DOMAIN s : s[i] \in 1 .. Len(g)
  OBVIOUS
<1>2. \A r \in 1 .. Len(g) : Append(g, z)[r] = g[r]
  OBVIOUS
<1>3. [i \in DOMAIN s |-> Append(g, z)[s[i]]] = [i \in DOMAIN s |-> g[s[i]]]
  BY <1>1, <1>2
<1>. QED  BY <1>3 DEF SizeIn

(* Records cut off at the end do not add to the size.                        *)
LEMMA SizeInPrefix ==
    ASSUME NEW g \in Seq(Nat), NEW s \in Seq(1 .. Len(g)), NEW n \in 0 .. Len(s)
    PROVE  SizeIn(g, SubSeq(s, 1, n)) <= SizeIn(g, s)
<1>. DEFINE f == [i \in DOMAIN s |-> g[s[i]]]
            u == SubSeq(s, 1, n)
            h == [i \in DOMAIN u |-> g[u[i]]]
<1>1. DOMAIN s = 1 .. Len(s) /\ Len(s) \in Nat /\ n \in Nat /\ n <= Len(s)
  OBVIOUS
<1>2. DOMAIN u = 1 .. n /\ \A i \in 1 .. n : u[i] = s[i]
  BY <1>1
<1>3. f \in [DOMAIN s -> Nat] /\ IsFiniteSet(DOMAIN s)
  <2>1. \A i \in 1 .. Len(g) : g[i] \in Nat
    OBVIOUS
  <2>2. \A i \in DOMAIN s : s[i] \in 1 .. Len(g)
    OBVIOUS
  <2>3. f \in [DOMAIN s -> Nat]
    BY <2>1, <2>2
  <2>. QED  BY <1>1, <2>3, FS_Interval
<1>4. DOMAIN h \subseteq DOMAIN s
  BY <1>1, <1>2
<1>5. ASSUME NEW i \in DOMAIN h
      PROVE  h[i] = f[i]
  <2>1. i \in 1 .. n
    BY <1>2
  <2>2. i \in DOMAIN u /\ i \in DOMAIN s /\ u[i] = s[i]
    <3>. HIDE DEF u
    <3>. QED  BY <1>1, <1>2, <2>1
  <2>. HIDE DEF u
  <2>. QED  BY <2>2
<1>6. Total(h) <= Total(f)
  <2>. HIDE DEF h, f, u
  <2>. QED  BY <1>3, <1>4, <1>5, TotalOfPart
<1>. QED  BY <1>6 DEF SizeIn
-----------------------------------------------------------------------------
(***************************************************************************)
(* The records of earlier calls behind the k-th of the files, where w is   *)
(* in the files and m, from o + 1 on, in the buffer.                       *)
(***************************************************************************)
PassedIn(w, m, o, k) ==
    {r \in 1 .. w[k] - 1 : \/ \E l \in k + 1 .. Len(w) : w[l] = r
                           \/ \E j \in o + 1 .. Len(m) : m[j] = r}

WeightIn(g, R) == Total([r \in R |-> g[r]])

Ascending(m, o) == \A i, j \in o + 1 .. Len(m) : i < j => m[i] < m[j]

(* One more at the end of an interval.                                       *)
LEMMA IntervalGrows ==
    ASSUME NEW k \in Nat, NEW n \in Nat, k <= n
    PROVE  k + 1 .. n + 1 = (k + 1 .. n) \cup {n + 1}
  OBVIOUS

(* Written from the buffer, a record stays behind those before it, and has   *)
(* none of the earlier ones behind it.                                       *)
LEMMA PassedFlush ==
    ASSUME NEW w \in Seq(Nat), NEW m \in Seq(Nat), NEW o \in Nat, o < Len(m), Ascending(m, o)
    PROVE  /\ \A k \in 1 .. Len(w) :
                 PassedIn(Append(w, m[o + 1]), m, o + 1, k) = PassedIn(w, m, o, k)
           /\ PassedIn(Append(w, m[o + 1]), m, o + 1, Len(w) + 1) = {}
<1>. DEFINE c == m[o + 1]
            v == Append(w, c)
<1>1. /\ Len(w) \in Nat /\ Len(m) \in Nat /\ o + 1 \in 1 .. Len(m) /\ c \in Nat
      /\ Len(v) = Len(w) + 1 /\ v[Len(w) + 1] = c
      /\ \A k \in 1 .. Len(w) : v[k] = w[k] /\ w[k] \in Nat
      /\ \A j \in 1 .. Len(m) : m[j] \in Nat
  OBVIOUS
<1>2. \A j : j \in o + 1 .. Len(m) <=> j = o + 1 \/ j \in (o + 1) + 1 .. Len(m)
  BY <1>1
<1>. HIDE DEF v
<1>3. ASSUME NEW k \in 1 .. Len(w)
      PROVE  PassedIn(v, m, o + 1, k) = PassedIn(w, m, o, k)
  <2>1. v[k] = w[k]
    BY <1>1
  <2>2. \A l : l \in k + 1 .. Len(v) <=> l \in k + 1 .. Len(w) \/ l = Len(w) + 1
    <3>1. k \in Nat /\ k <= Len(w) /\ Len(w) \in Nat /\ Len(v) = Len(w) + 1
      BY <1>1
    <3>2. k + 1 .. Len(w) + 1 = (k + 1 .. Len(w)) \cup {Len(w) + 1}
      BY <3>1, IntervalGrows
    <3>. QED  BY <3>1, <3>2
  <2>3. \A l \in k + 1 .. Len(w) : v[l] = w[l]
    BY <1>1
  <2>4. \A r : (\E l \in k + 1 .. Len(v) : v[l] = r) <=>
               (\E l \in k + 1 .. Len(w) : w[l] = r) \/ r = c
    BY <1>1, <2>2, <2>3
  <2>5. \A r : (\E j \in o + 1 .. Len(m) : m[j] = r) <=>
               (\E j \in (o + 1) + 1 .. Len(m) : m[j] = r) \/ r = c
    BY <1>2
  <2>. HIDE DEF c
  <2>. QED  BY <2>1, <2>4, <2>5 DEF PassedIn
<1>4. PassedIn(v, m, o + 1, Len(w) + 1) = {}
  <2>1. \A l : l \notin (Len(w) + 1) + 1 .. Len(v)
    BY <1>1
  <2>2. \A j \in (o + 1) + 1 .. Len(m) : c < m[j]
    <3>1. \A j \in (o + 1) + 1 .. Len(m) : j \in o + 1 .. Len(m) /\ o + 1 < j
      BY <1>1
    <3>2. o + 1 \in o + 1 .. Len(m)
      BY <1>1
    <3>. QED  BY <3>1, <3>2 DEF Ascending
  <2>3. \A r \in 1 .. c - 1 : \A j \in (o + 1) + 1 .. Len(m) : m[j] # r
    <3>1. ASSUME NEW r \in 1 .. c - 1, NEW j \in (o + 1) + 1 .. Len(m)
          PROVE  m[j] # r
      <4>1. m[j] \in Nat /\ c < m[j]
        BY <1>1, <2>2
      <4>. HIDE DEF c
      <4>. QED  BY <1>1, <4>1
    <3>. QED  BY <3>1
  <2>. QED  BY <1>1, <2>1, <2>3 DEF PassedIn
<1>. QED  BY <1>3, <1>4 DEF v

(* A record put into the buffer is later than all of the files.              *)
LEMMA PassedAppend ==
    ASSUME NEW w \in Seq(Nat), NEW m \in Seq(Nat), NEW o \in 0 .. Len(m), NEW r \in Nat,
           NEW k \in 1 .. Len(w), w[k] < r
    PROVE  PassedIn(w, Append(m, r), o, k) = PassedIn(w, m, o, k)
<1>. DEFINE n == Append(m, r)
<1>1. /\ Len(m) \in Nat /\ o \in Nat /\ o <= Len(m) /\ Len(n) = Len(m) + 1 /\ n[Len(m) + 1] = r
      /\ \A j \in 1 .. Len(m) : n[j] = m[j]
      /\ w[k] \in Nat
  OBVIOUS
<1>. HIDE DEF n
<1>2. \A j : j \in o + 1 .. Len(n) <=> j \in o + 1 .. Len(m) \/ j = Len(m) + 1
  BY <1>1
<1>3. \A j \in o + 1 .. Len(m) : n[j] = m[j]
  BY <1>1
<1>4. \A q : (\E j \in o + 1 .. Len(n) : n[j] = q) <=>
             (\E j \in o + 1 .. Len(m) : m[j] = q) \/ q = r
  BY <1>1, <1>2, <1>3
<1>5. r \notin 1 .. w[k] - 1
  BY <1>1
<1>. QED  BY <1>4, <1>5 DEF PassedIn, n

(* A record that goes around the buffer is later than all of the files, and  *)
(* has what is in the buffer behind it.                                      *)
LEMMA PassedDirect ==
    ASSUME NEW w \in Seq(Nat), NEW m \in Seq(Nat \ {0}), NEW r \in Nat,
           \A k \in 1 .. Len(w) : w[k] < r, \A j \in 1 .. Len(m) : m[j] < r
    PROVE  /\ \A k \in 1 .. Len(w) : PassedIn(Append(w, r), m, 0, k) = PassedIn(w, m, 0, k)
           /\ PassedIn(Append(w, r), m, 0, Len(w) + 1) = {m[j] : j \in 1 .. Len(m)}
<1>. DEFINE v == Append(w, r)
<1>1. /\ Len(w) \in Nat /\ Len(m) \in Nat
      /\ Len(v) = Len(w) + 1 /\ v[Len(w) + 1] = r
      /\ \A k \in 1 .. Len(w) : v[k] = w[k] /\ w[k] \in Nat
      /\ \A j \in 1 .. Len(m) : m[j] \in Nat \ {0}
  OBVIOUS
<1>. HIDE DEF v
<1>2. ASSUME NEW k \in 1 .. Len(w)
      PROVE  PassedIn(v, m, 0, k) = PassedIn(w, m, 0, k)
  <2>1. v[k] = w[k] /\ w[k] \in Nat /\ w[k] < r
    BY <1>1
  <2>2. \A l : l \in k + 1 .. Len(v) <=> l \in k + 1 .. Len(w) \/ l = Len(w) + 1
    <3>1. k \in Nat /\ k <= Len(w) /\ Len(w) \in Nat /\ Len(v) = Len(w) + 1
      BY <1>1
    <3>2. k + 1 .. Len(w) + 1 = (k + 1 .. Len(w)) \cup {Len(w) + 1}
      BY <3>1, IntervalGrows
    <3>. QED  BY <3>1, <3>2
  <2>3. \A l \in k + 1 .. Len(w) : v[l] = w[l]
    BY <1>1
  <2>4. \A q : (\E l \in k + 1 .. Len(v) : v[l] = q) <=>
               (\E l \in k + 1 .. Len(w) : w[l] = q) \/ q = r
    BY <1>1, <2>2, <2>3
  <2>5. r \notin 1 .. w[k] - 1
    BY <2>1
  <2>. QED  BY <2>1, <2>4, <2>5 DEF PassedIn
<1>3. PassedIn(v, m, 0, Len(w) + 1) = {m[j] : j \in 1 .. Len(m)}
  <2>1. \A l : l \notin (Len(w) + 1) + 1 .. Len(v)
    BY <1>1
  <2>2. 0 + 1 .. Len(m) = 1 .. Len(m)
    OBVIOUS
  <2>3. \A j \in 1 .. Len(m) : m[j] \in 1 .. r - 1
    BY <1>1
  <2>. QED  BY <1>1, <2>1, <2>2, <2>3 DEF PassedIn
<1>. QED  BY <1>2, <1>3 DEF v

(* What is in the buffer weighs the same as a set and as a sequence.         *)
LEMMA WeightOfAscending ==
    ASSUME NEW g \in Seq(Nat), NEW m \in Seq(1 .. Len(g)), Ascending(m, 0)
    PROVE  WeightIn(g, {m[j] : j \in 1 .. Len(m)}) = SizeIn(g, m)
<1>. DEFINE S == 1 .. Len(m)
            T == {m[j] : j \in S}
            f == [j \in S |-> g[m[j]]]
            h == [r \in T |-> g[r]]
<1>1. /\ Len(m) \in Nat /\ DOMAIN m = S
      /\ \A j \in S : m[j] \in 1 .. Len(g)
      /\ \A r \in 1 .. Len(g) : g[r] \in Nat
  OBVIOUS
<1>2. IsFiniteSet(S)
  BY <1>1, FS_Interval
<1>3. f \in [S -> Nat] /\ h \in [T -> Nat]
  BY <1>1
<1>4. m \in [S -> T]
  BY <1>1
<1>5. \A i, j \in S : m[i] = m[j] => i = j
  <2>1. ASSUME NEW i \in S, NEW j \in S, i < j
        PROVE  m[i] # m[j]
    <3>1. i \in 0 + 1 .. Len(m) /\ j \in 0 + 1 .. Len(m)
      BY <1>1
    <3>2. m[i] < m[j] /\ m[i] \in Int
      BY <1>1, <2>1, <3>1 DEF Ascending
    <3>. QED  BY <3>2
  <2>2. \A i, j \in S : i # j => i < j \/ j < i
    BY <1>1
  <2>. QED  BY <2>1, <2>2
<1>6. \A t \in T : \E j \in S : m[j] = t
  OBVIOUS
<1>7. \A j \in S : h[m[j]] = f[j]
  BY <1>4
<1>8. Total(h) = Total(f)
  <2>1. DOMAIN f = S /\ DOMAIN h = T
    OBVIOUS
  <2>. HIDE DEF f, h, S, T
  <2>2. Renames(m, f, h)
    BY <1>4, <1>5, <1>6, <1>7, <2>1 DEF Renames
  <2>. QED  BY <1>2, <1>3, <2>2, TotalRenamed
<1>9. SizeIn(g, m) = Total(f)
  BY <1>1 DEF SizeIn
<1>. QED  BY <1>8, <1>9 DEF WeightIn

(* The weight does not depend on later records.                              *)
LEMMA WeightInLater ==
    ASSUME NEW g \in Seq(Nat), NEW z \in Nat, NEW R \in SUBSET (1 .. Len(g))
    PROVE  WeightIn(Append(g, z), R) = WeightIn(g, R)
<1>1. \A r \in 1 .. Len(g) : Append(g, z)[r] = g[r]
  OBVIOUS
<1>2. [r \in R |-> Append(g, z)[r]] = [r \in R |-> g[r]]
  BY <1>1
<1>. QED  BY <1>2 DEF WeightIn

(* That of no record is zero.                                                *)
LEMMA WeightOfNone ==
    ASSUME NEW g
    PROVE  WeightIn(g, {}) = 0
<1>1. DOMAIN [r \in {} |-> g[r]] = {}
  OBVIOUS
<1>. QED  BY <1>1, TotalOfNone DEF WeightIn
-----------------------------------------------------------------------------
(***************************************************************************)
(* The writer.                                                             *)
(***************************************************************************)
File == [header : BOOLEAN, body : Seq(Record), torn : BOOLEAN]

\* What is in memory and not yet in a file, by its place in the buffer.
Rest == offset + 1 .. Len(mBuffer)

\* A record may still be written: before the first error and, when the error is
\* a header's, up to the end of the flush or of the direct write under way.
Busy == ~mError \/ offset > 0 \/ pc = "write"

TypeInv ==
    /\ given \in Seq(RecordSize)
    /\ pc \in {"open", "idle", "append", "flush", "sync", "flushed", "place", "write", "gone"}
    /\ after \in {"idle", "direct", "append", "sync"}
    /\ record \in {0, Len(given)}
    /\ mBuffer \in Seq(Record)
    /\ offset \in 0 .. Len(mBuffer)
    /\ files \in Seq(File)
    /\ unsynced \in Nat
    /\ mCurrentFileSize \in Nat /\ mBytesWritten \in Nat
    /\ mError \in BOOLEAN

\* Where the writer is and what it holds there.
ControlInv ==
    /\ pc \in {"idle", "sync", "flushed", "gone"} \/ after = "sync" => record = 0
    /\ pc = "append" \/ after \in {"append", "direct"} => record # 0
    /\ pc \in {"idle", "append", "sync", "flushed", "gone"} \/ after = "direct" => offset = 0
    /\ pc \in {"idle", "gone"} => after = "idle"
    /\ pc = "append" => after \in {"idle", "append"}
    /\ pc = "flush" => after \in {"append", "sync"}
    /\ pc \in {"sync", "flushed"} => after = "sync"
    /\ pc \in {"place", "write"} => after # "idle"
    /\ pc \in {"place", "open", "write"} /\ after \in {"append", "sync"} => offset < Len(mBuffer)
    /\ pc = "open" /\ after = "idle" => files = <<>> /\ mBuffer = <<>> /\ record = 0
    /\ pc \in {"place", "open"} => ~mError \/ offset > 0
    /\ pc \in {"sync", "flushed"} \/ (pc = "append" /\ after = "append") =>
          mError \/ mBuffer = <<>>
    /\ Busy /\ files = <<>> => pc \in {"open", "gone"} /\ after = "idle"
    /\ files = <<>> => unsynced = 0
    /\ files # <<>> => unsynced <= Len(files[Len(files)].body)
    /\ pc = "flushed" => unsynced = 0
    /\ pc = "gone" => mBuffer = <<>>

\* No record is in two places: neither in the files, nor in the buffer, nor in
\* both; the one that writeCut holds is later than all of them.
PlacesInv ==
    /\ IsInjective(Written)
    /\ Busy =>
        /\ Ascending(mBuffer, offset)
        /\ \A k \in DOMAIN Written, j \in Rest : Written[k] # mBuffer[j]
        /\ record # 0 =>
              /\ \A k \in DOMAIN Written : Written[k] < record
              /\ \A j \in Rest : mBuffer[j] < record

\* No record is nowhere.
KeptInv ==
    Healthy =>
        \A r \in Record :
            \/ r = record
            \/ \E k \in DOMAIN Written : Written[k] = r
            \/ \E j \in Rest : mBuffer[j] = r

\* Only a record larger than the buffer has such, and no more than were in the
\* buffer when it went around it.
OrderInv ==
    Healthy =>
        \A k \in DOMAIN Written :
            /\ PassedIn(Written, mBuffer, offset, k) # {} => given[Written[k]] > BUFFER_CAPACITY
            /\ WeightIn(given, PassedIn(Written, mBuffer, offset, k)) <= BUFFER_CAPACITY

\* The size that is kept decides: it is never less than the last file's, and the
\* record to be written fits, or the file is new.
FileSizesInv ==
    /\ \A i \in DOMAIN files :
          \/ HeaderSize + SizeIn(given, files[i].body) <= MAX_FILE_SIZE
          \/ Len(files[i].body) = 1
    /\ Busy /\ pc # "gone" /\ files # <<>> =>
          HeaderSize + SizeIn(given, files[Len(files)].body) <= mCurrentFileSize
    /\ pc = "write" => Fits \/ files[Len(files)].body = <<>>

BufferInv ==
    /\ SizeIn(given, mBuffer) <= BUFFER_CAPACITY
    /\ after = "append" => given[record] <= BUFFER_CAPACITY
    /\ pc = "append" /\ ~mError => SizeIn(given, mBuffer) + given[record] <= BUFFER_CAPACITY
    /\ after = "direct" => given[record] > BUFFER_CAPACITY

\* As long as no error is flagged, the files are whole and the sizes exact.
CountedInv ==
    Healthy =>
        /\ \A i \in DOMAIN files : files[i].header /\ ~files[i].torn
        /\ mBytesWritten = Len(files) * HeaderSize + SizeIn(given, Written)
        /\ files # <<>> => mCurrentFileSize = HeaderSize + SizeIn(given, files[Len(files)].body)

WriterInv ==
    TypeInv /\ ControlInv /\ PlacesInv /\ KeptInv /\ OrderInv /\ FileSizesInv /\ BufferInv /\ CountedInv

NoFlushFault == "flush" \notin Faults

(* A sequence over a set is one over a larger set.                           *)
LEMMA SeqOfMore ==
    ASSUME NEW A, NEW B, A \subseteq B, NEW s \in Seq(A)
    PROVE  s \in Seq(B)
  OBVIOUS

(* The sizes and the numbers of the records are positive numbers.            *)
LEMMA Sizes ==
    ASSUME TypeInv
    PROVE  /\ given \in Seq(Nat) /\ Len(given) \in Nat
           /\ \A r \in Record : given[r] \in Nat
           /\ HeaderSize \in Nat /\ BUFFER_CAPACITY \in Nat /\ MAX_FILE_SIZE \in Nat
           /\ BUFFER_CAPACITY + HeaderSize <= MAX_FILE_SIZE
<1>1. RecordSize \subseteq Nat
  BY WriterAssumption
<1>2. given \in Seq(RecordSize) /\ Len(given) \in Nat
  BY DEF TypeInv
<1>3. \A r \in 1 .. Len(given) : given[r] \in Nat
  <2>1. \A r \in 1 .. Len(given) : given[r] \in RecordSize
    BY <1>2
  <2>. QED  BY <1>1, <2>1
<1>4. given \in Seq(Nat)
  BY <1>2, <1>3
<1>. QED  BY <1>2, <1>3, <1>4, WriterAssumption DEF Record

(* With a record more, what was a sequence of records is one still.          *)
LEMMA RecordGrows ==
    ASSUME TypeInv, NEW z, given' = Append(given, z)
    PROVE  /\ Record \subseteq Record' /\ Len(given) \in Nat
           /\ Len(given)' = Len(given) + 1
           /\ \A s \in Seq(Record) : s \in Seq(Record')
           /\ \A s \in Seq(File) : s \in Seq(File')
<1>1. Len(given) \in Nat /\ Len(given') = Len(given) + 1
  BY DEF TypeInv
<1>2. Record \subseteq Record'
  BY <1>1 DEF Record
<1>3. \A s \in Seq(Record) : s \in Seq(Record')
  BY <1>2, SeqOfMore
<1>4. \A s \in Seq(File) : s \in Seq(File')
  <2>1. File \subseteq File'
    BY <1>3 DEF File
  <2>. QED  BY <2>1, SeqOfMore
<1>. QED  BY <1>1, <1>2, <1>3, <1>4

(* What has been written is a sequence of records.                           *)
LEMMA WrittenIs ==
    ASSUME TypeInv
    PROVE  /\ Bodies \in Seq(Seq(Record)) /\ Len(Bodies) = Len(files)
           /\ \A i \in 1 .. Len(files) : Bodies[i] = files[i].body
           /\ Written \in Seq(Record)
<1>1. files \in Seq(File) /\ DOMAIN files = 1 .. Len(files) /\ Len(files) \in Nat
  BY DEF TypeInv
<1>2. \A i \in 1 .. Len(files) : files[i].body \in Seq(Record)
  <2>1. \A i \in 1 .. Len(files) : files[i] \in File
    BY <1>1
  <2>. QED  BY <2>1 DEF File
<1>3. Bodies \in [1 .. Len(files) -> Seq(Record)]
  BY <1>1, <1>2 DEF Bodies
<1>4. Bodies \in Seq(Seq(Record)) /\ Len(Bodies) = Len(files)
  BY <1>1, <1>3
<1>5. \A i \in 1 .. Len(files) : Bodies[i] = files[i].body
  BY <1>1 DEF Bodies
<1>6. Joined(Bodies) \in Seq(Record)
  BY <1>4, JoinedHolds
<1>. QED  BY <1>4, <1>5, <1>6 DEF Written

(* Files with the same records.                                              *)
LEMMA WrittenSame ==
    ASSUME Len(files') = Len(files), files' \in Seq(File), files \in Seq(File),
           \A i \in 1 .. Len(files) : files'[i].body = files[i].body
    PROVE  Written' = Written
<1>1. DOMAIN files' = DOMAIN files /\ DOMAIN files = 1 .. Len(files)
  OBVIOUS
<1>2. Bodies' = Bodies
  BY <1>1 DEF Bodies
<1>. QED  BY <1>2 DEF Written

(* A new file adds none.                                                     *)
LEMMA WrittenOpen ==
    ASSUME TypeInv, NEW h, files' = Append(files, EmptyFile(h))
    PROVE  Written' = Written
<1>1. /\ Len(files) \in Nat /\ Len(files') = Len(files) + 1
      /\ DOMAIN files = 1 .. Len(files) /\ DOMAIN files' = 1 .. Len(files) + 1
      /\ \A i \in 1 .. Len(files) : files'[i] = files[i]
      /\ files'[Len(files) + 1].body = <<>>
  BY DEF TypeInv, EmptyFile
<1>2. /\ DOMAIN Bodies = 1 .. Len(files) /\ DOMAIN Bodies' = 1 .. Len(files) + 1
      /\ \A i \in 1 .. Len(files) : Bodies'[i] = Bodies[i]
      /\ Bodies'[Len(files) + 1] = <<>>
  <2>1. \A i \in 1 .. Len(files) + 1 : Bodies'[i] = files'[i].body
    BY <1>1 DEF Bodies
  <2>2. \A i \in 1 .. Len(files) : Bodies[i] = files[i].body
    BY <1>1 DEF Bodies
  <2>3. Len(files) + 1 \in 1 .. Len(files) + 1 /\ 1 .. Len(files) \subseteq 1 .. Len(files) + 1
    BY <1>1
  <2>. QED  BY <1>1, <2>1, <2>2, <2>3 DEF Bodies
<1>. DEFINE b == Bodies
            d == Bodies'
            n == Len(files)
<1>3. /\ n \in Nat /\ DOMAIN b = 1 .. n /\ DOMAIN d = 1 .. n + 1
      /\ \A i \in 1 .. n : d[i] = b[i]
      /\ d[n + 1] = <<>>
  BY <1>1, <1>2
<1>. HIDE DEF b, d, n
<1>4. Places(d) = Places(b)
  <2>1. DOMAIN d[n + 1] = {}
    BY <1>3
  <2>2. \A p \in Places(d) : p \in Places(b)
    <3>1. SUFFICES ASSUME NEW i \in 1 .. n + 1, NEW j \in DOMAIN d[i]
                   PROVE  <<i, j>> \in Places(b)
      BY <1>3 DEF Places
    <3>2. i \in 1 .. n
      BY <1>3, <2>1
    <3>. QED  BY <1>3, <3>2 DEF Places
  <2>3. \A p \in Places(b) : p \in Places(d)
    <3>1. SUFFICES ASSUME NEW i \in 1 .. n, NEW j \in DOMAIN b[i]
                   PROVE  <<i, j>> \in Places(d)
      BY <1>3 DEF Places
    <3>2. i \in 1 .. n + 1
      BY <1>3
    <3>. QED  BY <1>3, <3>2 DEF Places
  <2>. QED  BY <2>2, <2>3
<1>5. \A p \in Places(b) : At(d, p) = At(b, p)
  BY <1>3 DEF Places, At
<1>6. Joined(d) = Joined(b)
  <2>1. b \in Seq(Seq(Record))
    BY WrittenIs DEF b
  <2>. QED  BY <1>4, <1>5, <2>1, JoinedSame
<1>. QED  BY <1>6 DEF Written, b, d

(* A record written to the last file is behind all others.                   *)
LEMMA WrittenGrows ==
    ASSUME TypeInv, files # <<>>, given' = given, NEW c \in Record,
           files' = [files EXCEPT ![Len(files)].body = Append(@, c)]
    PROVE  /\ files' \in Seq(File)
           /\ Len(files') = Len(files) /\ Len(files) \in Nat \ {0}
           /\ \A i \in 1 .. Len(files) - 1 : files'[i] = files[i]
           /\ files'[Len(files)].body = Append(files[Len(files)].body, c)
           /\ files'[Len(files)].header = files[Len(files)].header
           /\ files'[Len(files)].torn = files[Len(files)].torn
           /\ Written' = Append(Written, c)
<1>. DEFINE n == Len(files)
            last == [files[n] EXCEPT !.body = Append(@, c)]
<1>1. files \in Seq(File) /\ n \in Nat \ {0} /\ files[n] \in File
  BY DEF TypeInv
<1>2. last \in File /\ last.body = Append(files[n].body, c)
      /\ last.header = files[n].header /\ last.torn = files[n].torn
  <2>1. files[n] \in [header : BOOLEAN, body : Seq(Record), torn : BOOLEAN]
    BY <1>1 DEF File
  <2>2. files[n].body \in Seq(Record)
    BY <2>1
  <2>3. Append(files[n].body, c) \in Seq(Record)
    BY <2>2
  <2>. QED  BY <2>1, <2>3 DEF File
<1>3. files' = [files EXCEPT ![n] = last]
  BY <1>1 DEF File
<1>. HIDE DEF last, n
<1>4. /\ files' \in Seq(File) /\ Len(files') = n
      /\ \A i \in 1 .. n - 1 : files'[i] = files[i]
      /\ files'[n] = last
  <2>1. n \in 1 .. n /\ \A i \in 1 .. n - 1 : i \in 1 .. n /\ i # n
    BY <1>1
  <2>2. DOMAIN files = 1 .. n /\ n = Len(files)
    BY <1>1 DEF n
  <2>3. files' \in Seq(File) /\ Len(files') = Len(files)
    <3>1. files \in [1 .. n -> File]
      BY <1>1, <2>2
    <3>2. files' \in [1 .. n -> File]
      BY <1>2, <1>3, <3>1
    <3>. QED  BY <1>1, <2>2, <3>2
  <2>. QED  BY <1>3, <2>1, <2>2, <2>3
<1>. USE DEF n
<1>. DEFINE b == Bodies
            d == Bodies'
<1>5. b \in Seq(Seq(Record)) /\ Len(b) = n /\ \A i \in 1 .. n : b[i] = files[i].body
  BY WrittenIs
<1>6. d \in Seq(Seq(Record)) /\ Len(d) = n /\ \A i \in 1 .. n : d[i] = files'[i].body
  <2>1. \A i \in 1 .. n : files'[i] \in File
    BY <1>4
  <2>2. d \in [1 .. n -> Seq(Record)]
    BY <1>4, <2>1 DEF Bodies, File
  <2>3. \A i \in 1 .. n : d[i] = files'[i].body
    BY <1>4 DEF Bodies
  <2>. HIDE DEF d
  <2>. QED  BY <1>1, <2>2, <2>3
<1>. HIDE DEF b, d, n
<1>7. LongerBy(d, b, c)
  <2>1. b # <<>> /\ n \in 1 .. n /\ \A i \in 1 .. n - 1 : i \in 1 .. n
    BY <1>1, <1>5
  <2>2. Len(d) = Len(b) /\ Len(b) = n
    BY <1>5, <1>6
  <2>3. ASSUME NEW i \in 1 .. n - 1
        PROVE  d[i] = b[i]
    <3>1. i \in 1 .. n /\ files'[i] = files[i]
      BY <1>4, <2>1
    <3>2. d[i] = files'[i].body /\ b[i] = files[i].body
      BY <1>5, <1>6, <3>1
    <3>. QED  BY <3>1, <3>2
  <2>4. d[n] = Append(b[n], c)
    BY <1>2, <1>4, <1>5, <1>6, <2>1
  <2>. QED  BY <2>1, <2>2, <2>3, <2>4 DEF LongerBy
<1>8. Joined(d) = Append(Joined(b), c)
  BY <1>5, <1>6, <1>7, JoinedGrows
<1>9. Written' = Append(Written, c)
  BY <1>8 DEF Written, b, d
<1>. QED  BY <1>1, <1>2, <1>4, <1>9 DEF n

(* The next record to be written.                                            *)
LEMMA CurrentIs ==
    ASSUME TypeInv, ControlInv, pc \in {"place", "write"} \/ (pc = "open" /\ after # "idle")
    PROVE  /\ Current \in Record
           /\ after = "direct" => Current = record /\ record \in Record /\ offset = 0
           /\ after # "direct" =>
                 /\ Current = mBuffer[offset + 1] /\ offset \in Nat
                 /\ offset + 1 \in 1 .. Len(mBuffer)
<1>1. after \in {"direct", "append", "sync"}
  BY DEF ControlInv, TypeInv
<1>2. CASE after = "direct"
  <2>1. record \in Record
    BY <1>2 DEF TypeInv, ControlInv, Record
  <2>. QED  BY <1>2, <2>1 DEF ControlInv, Current
<1>3. CASE after # "direct"
  <2>1. offset \in Nat /\ offset + 1 \in 1 .. Len(mBuffer)
    BY <1>1, <1>3 DEF TypeInv, ControlInv
  <2>2. mBuffer[offset + 1] \in Record
    BY <2>1 DEF TypeInv
  <2>. QED  BY <1>3, <2>1, <2>2 DEF Current
<1>. QED  BY <1>2, <1>3

(* Without failures of the last flush the files stay as they are.            *)
LEMMA SyncedIs == NoFlushFault => Synced = {files}
  BY DEF NoFlushFault, Synced

\* What most steps leave alone.
Quiet == UNCHANGED <<given, record, mBuffer, offset, files, mCurrentFileSize, mBytesWritten, mError>>

\* The steps that only go on to another place in the code.
QuietStep == Flush \/ FlushNothing \/ FlushRecord \/ Fflush \/ FlushReturns \/ Place

(* They leave the data alone.                                               *)
LEMMA QuietSteps == NoFlushFault /\ QuietStep => Quiet
  BY SyncedIs DEF QuietStep, Quiet, Flush, FlushNothing, FlushRecord, Fflush, FlushReturns, Place,
        buffer, counted

(* Each variable stays within its type.                                      *)
LEMMA TypeStep ==
    ASSUME NoFlushFault, TypeInv, ControlInv, [Next]_vars
    PROVE  TypeInv'
<1>1. ASSUME NEW size \in RecordSize, WriteCut(size)
      PROVE  TypeInv'
  <2>1. given' = Append(given, size) /\ given' \in Seq(RecordSize) /\ Len(given') = Len(given) + 1
        /\ Len(given) \in Nat
    BY <1>1 DEF WriteCut, TypeInv
  <2>2. mBuffer \in Seq(Record') /\ files \in Seq(File')
    BY <2>1, RecordGrows DEF TypeInv
  <2>3. record' \in {0, Len(given')}
    BY <1>1, <2>1 DEF WriteCut, TypeInv, ControlInv
  <2>4. /\ pc' \in {"idle", "place", "flush", "append"}
        /\ after' \in {"idle", "direct", "append", "sync"}
    BY <1>1 DEF WriteCut, TypeInv
  <2>5. UNCHANGED <<mBuffer, offset, files, unsynced, mCurrentFileSize, mBytesWritten, mError>>
    BY <1>1 DEF WriteCut, counted
  <2>. QED  BY <2>1, <2>2, <2>3, <2>4, <2>5 DEF TypeInv
<1>2. SUFFICES ASSUME given' = given, Record' = Record, File' = File,
                      \/ QuietStep
                      \/ AppendRecord \/ FlushEnds \/ OpenNewFile \/ OpenFails \/ HeaderFails
                      \/ WriteRecord \/ WriteFails \/ UNCHANGED vars
               PROVE  TypeInv'
  <2>1. (\E size \in RecordSize : WriteCut(size)) \/ given' = given
    BY DEF Next, AppendRecord, Flush, FlushNothing, FlushRecord, FlushEnds, Fflush, FlushReturns,
           Place, OpenNewFile, OpenFails, HeaderFails, WriteRecord, WriteFails, vars
  <2>2. given' = given => Record' = Record /\ File' = File
    BY DEF Record, File
  <2>. QED  BY <1>1, <2>1, <2>2 DEF Next, QuietStep
<1>3. CASE AppendRecord
  <2>1. record \in Record
    BY <1>3 DEF AppendRecord, TypeInv, ControlInv, Record
  <2>2. mBuffer' \in Seq(Record) /\ Len(mBuffer') \in Nat /\ Len(mBuffer) <= Len(mBuffer')
    BY <1>3, <2>1 DEF AppendRecord, TypeInv
  <2>. QED  BY <1>2, <1>3, <2>2 DEF AppendRecord, TypeInv, counted
<1>4. CASE QuietStep
  <2>1. Quiet /\ unsynced' \in Nat
    BY <1>4, QuietSteps DEF QuietStep, Flush, FlushNothing, FlushRecord, Fflush, FlushReturns, Place,
          TypeInv
  <2>2. pc' \in {"idle", "append", "flush", "sync", "flushed", "place", "write", "open"}
    <3>1. FlushNothing => pc' \in {"append", "sync"}
      BY DEF FlushNothing, ControlInv
    <3>. QED  BY <1>4, <3>1 DEF QuietStep, Flush, FlushRecord, Fflush, FlushReturns, Place
  <2>3. after' \in {"idle", "direct", "append", "sync"}
    BY <1>4 DEF QuietStep, Flush, FlushNothing, FlushRecord, Fflush, FlushReturns, Place, TypeInv
  <2>. QED  BY <1>2, <2>1, <2>2, <2>3 DEF Quiet, TypeInv
<1>5. CASE FlushEnds
  <2>1. pc' \in {"append", "sync"}
    BY <1>5 DEF FlushEnds, ControlInv
  <2>. QED  BY <1>2, <1>5, <2>1 DEF FlushEnds, TypeInv, counted
<1>6. CASE OpenNewFile \/ HeaderFails
  <2>1. PICK h \in BOOLEAN : files' = Append(files, EmptyFile(h))
    BY <1>6, SyncedIs DEF OpenNewFile, HeaderFails
  <2>2. EmptyFile(h) \in File
    <3>1. <<>> \in Seq(Record)
      OBVIOUS
    <3>. QED  BY <3>1 DEF EmptyFile, File
  <2>3. files' \in Seq(File)
    BY <2>1, <2>2 DEF TypeInv
  <2>4. UNCHANGED <<given, after, record, mBuffer, offset>> /\ unsynced' = 0
    BY <1>6 DEF OpenNewFile, HeaderFails, buffer
  <2>5. pc' \in {"idle", "write"} /\ mError' \in BOOLEAN
    BY <1>6 DEF OpenNewFile, HeaderFails, TypeInv
  <2>6. CASE OpenNewFile
    <3>1. mCurrentFileSize' \in Nat /\ mBytesWritten' \in Nat
      BY <2>6, WriterAssumption DEF OpenNewFile, TypeInv
    <3>. QED  BY <1>2, <2>3, <2>4, <2>5, <3>1 DEF TypeInv
  <2>7. CASE HeaderFails
    <3>1. UNCHANGED <<mCurrentFileSize, mBytesWritten>>
      BY <2>7 DEF HeaderFails, counted
    <3>. QED  BY <1>2, <2>3, <2>4, <2>5, <3>1 DEF TypeInv
  <2>. QED  BY <1>6, <2>6, <2>7
<1>7. CASE OpenFails
  <2>1. files' = files
    BY <1>7, SyncedIs DEF OpenFails
  <2>. QED  BY <1>2, <1>7, <2>1 DEF OpenFails, Abandon, TypeInv, counted
<1>8. CASE WriteRecord
  <2>1. pc = "write" /\ Current \in Record
    BY <1>8, CurrentIs DEF WriteRecord
  <2>2. files # <<>>
    BY <2>1 DEF ControlInv, Busy
  <2>3. files' \in Seq(File)
    BY <1>2, <1>8, <2>1, <2>2, WrittenGrows DEF WriteRecord
  <2>4. Size(Current) \in Nat
    BY <2>1, Sizes DEF Size
  <2>5. mCurrentFileSize' \in Nat /\ mBytesWritten' \in Nat /\ unsynced' \in Nat
    <3>1. mCurrentFileSize \in Nat /\ mBytesWritten \in Nat /\ unsynced \in Nat
      BY DEF TypeInv
    <3>. QED  BY <1>8, <2>4, <3>1 DEF WriteRecord
  <2>6. /\ offset' \in 0 .. Len(mBuffer)
        /\ record' \in {0, Len(given)}
        /\ pc' \in {"idle", "flush"} /\ after' \in {"idle", "direct", "append", "sync"}
    BY <1>8, <2>1, CurrentIs DEF WriteRecord, TypeInv
  <2>. QED  BY <1>2, <1>8, <2>3, <2>5, <2>6 DEF WriteRecord, TypeInv
<1>9. CASE WriteFails
  <2>1. pc = "write" /\ files # <<>>
    BY <1>9 DEF WriteFails, ControlInv, Busy
  <2>2. files' \in Seq(File)
    <3>1. files \in Seq(File) /\ Len(files) \in 1 .. Len(files) /\ files[Len(files)] \in File
      BY <2>1 DEF TypeInv
    <3>. DEFINE f == [files[Len(files)] EXCEPT !.torn = TRUE]
    <3>2. f \in File
      BY <3>1 DEF File
    <3>3. files' = [files EXCEPT ![Len(files)] = f]
      BY <1>9, <3>1 DEF WriteFails, File
    <3>. HIDE DEF f
    <3>. QED  BY <3>1, <3>2, <3>3
  <2>. QED  BY <1>2, <1>9, <2>2 DEF WriteFails, Abandon, TypeInv, counted
<1>10. CASE UNCHANGED vars
  BY <1>2, <1>10 DEF vars, buffer, counted, TypeInv
<1>. QED  BY <1>2, <1>3, <1>4, <1>5, <1>6, <1>7, <1>8, <1>9, <1>10

(* The writer is where its variables say.                                    *)
LEMMA ControlStep ==
    ASSUME NoFlushFault, TypeInv, ControlInv, [Next]_vars
    PROVE  ControlInv'
<1>0. /\ offset \in Nat /\ Len(mBuffer) \in Nat /\ offset <= Len(mBuffer) /\ unsynced \in Nat
      /\ Len(given) \in Nat /\ Len(files) \in Nat /\ mError \in BOOLEAN
      /\ pc \in {"open", "idle", "append", "flush", "sync", "flushed", "place", "write", "gone"}
      /\ after \in {"idle", "direct", "append", "sync"}
      /\ (mBuffer = <<>> <=> Len(mBuffer) = 0)
  BY DEF TypeInv
<1>1. ASSUME NEW size \in RecordSize, WriteCut(size)
      PROVE  ControlInv'
  <2>1. UNCHANGED <<mBuffer, offset, files, unsynced, mError>>
    BY <1>1 DEF WriteCut
  <2>2. CASE mError
    <3>1. UNCHANGED <<pc, after, record>>
      BY <1>1, <2>2 DEF WriteCut
    <3>. QED  BY <2>1, <3>1 DEF ControlInv, Busy
  <2>3. CASE ~mError
    <3>1. pc = "idle" /\ record' # 0
      BY <1>0, <1>1, <2>3 DEF WriteCut
    <3>2. /\ pc' \in {"place", "flush", "append"}
          /\ pc' = "place" => after' = "direct"
          /\ pc' = "flush" => after' = "append"
          /\ pc' = "append" => after' = "idle"
      BY <1>1, <2>3 DEF WriteCut, ControlInv
    <3>. QED  BY <1>0, <2>1, <2>3, <3>1, <3>2 DEF ControlInv, Busy
  <2>. QED  BY <1>0, <2>2, <2>3
<1>2. CASE AppendRecord
  BY <1>0, <1>2 DEF AppendRecord, ControlInv, Busy
<1>3. CASE Flush
  BY <1>0, <1>3 DEF Flush, ControlInv, Busy, buffer
<1>4. CASE FlushNothing
  BY <1>0, <1>4 DEF FlushNothing, ControlInv, Busy, buffer
<1>5. CASE FlushRecord
  BY <1>0, <1>5 DEF FlushRecord, ControlInv, Busy, buffer
<1>6. CASE FlushEnds
  BY <1>0, <1>6 DEF FlushEnds, ControlInv, Busy
<1>7. CASE Fflush
  <2>1. files' = files
    BY <1>7, SyncedIs DEF Fflush
  <2>. QED  BY <1>0, <1>7, <2>1 DEF Fflush, ControlInv, Busy, buffer
<1>8. CASE FlushReturns
  BY <1>0, <1>8 DEF FlushReturns, ControlInv, Busy, buffer
<1>9. CASE Place
  BY <1>0, <1>9 DEF Place, ControlInv, Busy, buffer
<1>10. CASE OpenNewFile \/ HeaderFails
  <2>1. PICK h \in BOOLEAN : files' = Append(files, EmptyFile(h))
    BY <1>10, SyncedIs DEF OpenNewFile, HeaderFails
  <2>2. files' # <<>> /\ files'[Len(files')].body = <<>> /\ Len(files'[Len(files')].body) = 0
    BY <1>0, <2>1 DEF TypeInv, EmptyFile
  <2>3. UNCHANGED <<given, after, record, mBuffer, offset>> /\ unsynced' = 0
    BY <1>10 DEF OpenNewFile, HeaderFails, buffer
  <2>4. pc = "open" /\ pc' = IF after = "idle" THEN "idle" ELSE "write"
    BY <1>10 DEF OpenNewFile, HeaderFails
  <2>5. after = "idle" => offset = 0 /\ record = 0
    BY <1>0, <2>4 DEF ControlInv
  <2>. QED  BY <1>0, <2>2, <2>3, <2>4, <2>5 DEF ControlInv, Busy
<1>11. CASE OpenFails
  <2>1. files' = files
    BY <1>11, SyncedIs DEF OpenFails
  <2>2. mBuffer = <<>> => after \in {"idle", "direct"}
    BY <1>0, <1>11 DEF OpenFails, ControlInv
  <2>. QED  BY <1>0, <1>11, <2>1, <2>2 DEF OpenFails, Abandon, ControlInv, Busy
<1>12. CASE WriteRecord
  <2>1. pc = "write" /\ Current \in Record /\ files # <<>>
    BY <1>12, CurrentIs DEF WriteRecord, ControlInv, Busy
  <2>2. /\ Len(files') = Len(files) /\ Len(files) # 0
        /\ files'[Len(files)].body = Append(files[Len(files)].body, Current)
    BY <1>12, <2>1, WrittenGrows DEF WriteRecord
  <2>3. Len(files'[Len(files')].body) = Len(files[Len(files)].body) + 1
        /\ Len(files[Len(files)].body) \in Nat
    <3>1. files[Len(files)].body \in Seq(Record)
      <4>1. Len(files) \in 1 .. Len(files)
        BY <1>0, <2>2
      <4>2. files[Len(files)] \in File
        BY <4>1 DEF TypeInv
      <4>. QED  BY <4>2 DEF File
    <3>. QED  BY <2>1, <2>2, <3>1
  <2>4. files' # <<>>
    BY <2>2
  <2>5. UNCHANGED <<given, mBuffer, mError>> /\ unsynced' = unsynced + 1
    BY <1>12 DEF WriteRecord
  <2>6. CASE after = "direct"
    <3>1. pc' = "idle" /\ after' = "idle" /\ record' = 0 /\ offset' = offset
      BY <1>12, <2>6 DEF WriteRecord
    <3>. QED  BY <1>0, <2>1, <2>3, <2>4, <2>5, <2>6, <3>1 DEF ControlInv, Busy
  <2>7. CASE after # "direct"
    <3>1. pc' = "flush" /\ offset' = offset + 1 /\ UNCHANGED <<after, record>>
      BY <1>12, <2>7 DEF WriteRecord
    <3>. QED  BY <1>0, <2>1, <2>3, <2>4, <2>5, <2>7, <3>1 DEF ControlInv, Busy
  <2>. QED  BY <2>6, <2>7
<1>13. CASE WriteFails
  <2>1. pc = "write" /\ files # <<>>
    BY <1>13 DEF WriteFails, ControlInv, Busy
  <2>2. Len(files') = Len(files) /\ files' # <<>>
        /\ files'[Len(files)].body = files[Len(files)].body
    <3>1. files \in Seq(File) /\ Len(files) \in 1 .. Len(files) /\ files[Len(files)] \in File
      BY <2>1 DEF TypeInv
    <3>. QED  BY <1>13, <3>1 DEF WriteFails, File
  <2>. QED  BY <1>0, <1>13, <2>1, <2>2 DEF WriteFails, Abandon, ControlInv, Busy, counted
<1>14. CASE UNCHANGED vars
  BY <1>14 DEF vars, buffer, counted, ControlInv, Busy
<1>. QED  BY <1>1, <1>2, <1>3, <1>4, <1>5, <1>6, <1>7, <1>8, <1>9, <1>10, <1>11, <1>12, <1>13,
             <1>14 DEF Next

(* Only WriteRecord adds to what has been written.                           *)
LEMMA WrittenUnlessWrite ==
    ASSUME NoFlushFault, TypeInv, ControlInv, [Next]_vars, ~WriteRecord
    PROVE  Written' = Written
<1>0. files \in Seq(File)
  BY DEF TypeInv
<1>1. CASE OpenNewFile \/ HeaderFails
  <2>1. PICK h \in BOOLEAN : files' = Append(files, EmptyFile(h))
    BY <1>1, SyncedIs DEF OpenNewFile, HeaderFails
  <2>. QED  BY <2>1, WrittenOpen
<1>2. CASE WriteFails
  <2>1. Len(files) \in 1 .. Len(files) /\ \A i \in 1 .. Len(files) : files[i] \in File
    BY <1>2 DEF WriteFails, ControlInv, Busy, TypeInv
  <2>2. Len(files') = Len(files) /\ \A i \in 1 .. Len(files) : files'[i].body = files[i].body
    BY <1>0, <1>2, <2>1 DEF WriteFails, File
  <2>3. DOMAIN files' = DOMAIN files
    BY <1>2 DEF WriteFails
  <2>4. DOMAIN files = 1 .. Len(files)
    BY <1>0
  <2>5. Bodies' = Bodies
    BY <2>2, <2>3, <2>4 DEF Bodies
  <2>. QED  BY <2>5 DEF Written
<1>3. CASE files' = files
  BY <1>3 DEF Written, Bodies
<1>4. files' = files \/ OpenNewFile \/ HeaderFails \/ WriteFails
  <2>1. CASE \E size \in RecordSize : WriteCut(size)
    BY <2>1 DEF WriteCut
  <2>2. CASE QuietStep
    BY <2>2, QuietSteps DEF Quiet
  <2>3. CASE AppendRecord \/ FlushEnds \/ UNCHANGED vars
    BY <2>3 DEF AppendRecord, FlushEnds, vars
  <2>4. CASE OpenFails
    BY <2>4, SyncedIs DEF OpenFails
  <2>. QED  BY <2>1, <2>2, <2>3, <2>4 DEF Next, QuietStep
<1>. QED  BY <1>1, <1>2, <1>3, <1>4

(* The record that WriteRecord writes is in no file, and no longer in memory *)
(* afterwards.                                                               *)
LEMMA PlacesWrite ==
    ASSUME TypeInv, ControlInv, PlacesInv, WriteRecord
    PROVE  PlacesInv'
<1>. DEFINE c == Current
            w == Written
            n == Len(Written)
<1>1. pc = "write" /\ Busy /\ files # <<>> /\ given' = given /\ mBuffer' = mBuffer
  BY DEF WriteRecord, ControlInv, Busy
<1>2. /\ c \in Record
      /\ after = "direct" => c = record /\ record \in Record /\ offset = 0
      /\ after # "direct" => c = mBuffer[offset + 1] /\ offset \in Nat /\ offset + 1 \in 1 .. Len(mBuffer)
  BY <1>1, CurrentIs
<1>3. Written' = Append(w, c)
  BY <1>1, <1>2, WrittenGrows DEF WriteRecord
<1>4. w \in Seq(Record) /\ n \in Nat /\ DOMAIN w = 1 .. n /\ (\A k \in 1 .. n : w[k] \in Nat)
      /\ c \in Nat
  BY <1>2, WrittenIs DEF Record
<1>5. /\ DOMAIN Written' = 1 .. n + 1 /\ Written'[n + 1] = c
      /\ \A k \in 1 .. n : Written'[k] = w[k]
  BY <1>2, <1>3, <1>4
<1>6. offset \in Nat /\ Len(mBuffer) \in Nat /\ (\A j \in 1 .. Len(mBuffer) : mBuffer[j] \in Nat)
      /\ record \in Nat
  BY DEF TypeInv, Record
<1>7. /\ IsInjective(w) /\ Ascending(mBuffer, offset)
      /\ \A k \in 1 .. n, j \in Rest : w[k] # mBuffer[j]
      /\ record # 0 => (\A k \in 1 .. n : w[k] < record) /\ (\A j \in Rest : mBuffer[j] < record)
  BY <1>1, <1>4 DEF PlacesInv
<1>8. offset + 1 \in Rest \/ after = "direct"
  BY <1>2, <1>6 DEF Rest
<1>9. \A k \in 1 .. n : w[k] # c
  <2>1. CASE after = "direct"
    BY <1>2, <1>4, <1>7, <2>1 DEF ControlInv
  <2>2. CASE after # "direct"
    BY <1>2, <1>7, <1>8, <2>2
  <2>. QED  BY <2>1, <2>2
<1>. HIDE DEF c, w, n
<1>10. IsInjective(Written')
  <2>1. SUFFICES ASSUME NEW i \in 1 .. n + 1, NEW j \in 1 .. n + 1, Written'[i] = Written'[j]
                 PROVE  i = j
    BY <1>5 DEF IsInjective
  <2>2. (i \in 1 .. n \/ i = n + 1) /\ (j \in 1 .. n \/ j = n + 1)
    BY <1>4
  <2>3. CASE i \in 1 .. n /\ j \in 1 .. n
    BY <1>4, <1>5, <1>7, <2>1, <2>3 DEF IsInjective
  <2>. QED  BY <1>5, <1>9, <2>1, <2>2, <2>3
<1>11. CASE after = "direct"
  <2>1. record' = 0 /\ offset' = offset /\ offset = 0
    BY <1>2, <1>11 DEF WriteRecord
  <2>2. Ascending(mBuffer', offset') /\ Rest' = Rest
    BY <1>1, <1>7, <2>1 DEF Rest
  <2>3. \A j \in Rest : mBuffer[j] # c
    BY <1>2, <1>6, <1>7, <1>11 DEF ControlInv, Rest
  <2>4. \A k \in 1 .. n + 1, j \in Rest : Written'[k] # mBuffer[j]
    BY <1>4, <1>5, <1>7, <2>3
  <2>. QED  BY <1>1, <1>5, <1>10, <2>1, <2>2, <2>4 DEF PlacesInv
<1>12. CASE after # "direct"
  <2>1. record' = record /\ offset' = offset + 1
    BY <1>12 DEF WriteRecord
  <2>2. \A j : j \in Rest' => j \in Rest /\ offset + 1 < j
    BY <1>1, <1>6, <2>1 DEF Rest
  <2>3. offset + 1 \in Rest
    BY <1>8, <1>12
  <2>4. \A j \in Rest' : c < mBuffer[j]
    BY <1>2, <1>7, <1>12, <2>2, <2>3 DEF Ascending, Rest
  <2>5. Ascending(mBuffer', offset')
    <3>1. \A j \in offset + 1 + 1 .. Len(mBuffer) : j \in offset + 1 .. Len(mBuffer)
      BY <1>6
    <3>. QED  BY <1>1, <1>7, <2>1, <3>1 DEF Ascending
  <2>6. \A j \in Rest' : mBuffer[j] # c
    BY <1>4, <1>6, <2>2, <2>4 DEF Rest
  <2>7. \A k \in 1 .. n + 1, j \in Rest' : Written'[k] # mBuffer'[j]
    BY <1>1, <1>4, <1>5, <1>7, <2>2, <2>6
  <2>8. record # 0 => (\A k \in 1 .. n + 1 : Written'[k] < record) /\ (\A j \in Rest' : mBuffer[j] < record)
    BY <1>2, <1>4, <1>5, <1>7, <1>12, <2>2, <2>3
  <2>. QED  BY <1>1, <1>5, <1>10, <2>1, <2>5, <2>7, <2>8 DEF PlacesInv
<1>. QED  BY <1>11, <1>12

(* After an error that ends a flush or a direct write nothing more is        *)
(* written.                                                                  *)
LEMMA AbandonedStep ==
    ASSUME ControlInv, OpenFails \/ WriteFails
    PROVE  ~Busy' /\ ~Healthy'
  BY DEF OpenFails, WriteFails, Abandon, Busy, Healthy, ControlInv

(* No step brings a record to a second place.                                *)
LEMMA PlacesStep ==
    ASSUME NoFlushFault, TypeInv, ControlInv, PlacesInv, [Next]_vars
    PROVE  PlacesInv'
<1>0. /\ offset \in Nat /\ Len(mBuffer) \in Nat /\ (\A j \in 1 .. Len(mBuffer) : mBuffer[j] \in Record)
      /\ Len(given) \in Nat /\ mError \in BOOLEAN /\ offset <= Len(mBuffer)
  BY DEF TypeInv
<1>1. CASE WriteRecord
  BY <1>1, PlacesWrite
<1>2. SUFFICES ASSUME Written' = Written, ~WriteRecord
               PROVE  PlacesInv'
  BY <1>1, WrittenUnlessWrite
<1>3. Written \in Seq(Record) /\ \A k \in DOMAIN Written : Written[k] \in Record
  BY WrittenIs
<1>4. ASSUME NEW size \in RecordSize, WriteCut(size)
      PROVE  PlacesInv'
  <2>1. UNCHANGED <<mBuffer, offset, mError>>
    BY <1>4 DEF WriteCut
  <2>2. Busy' => Busy
    BY <1>4 DEF WriteCut, Busy
  <2>3. record' # 0 => record' = Len(given) + 1
    BY <1>4 DEF WriteCut, ControlInv
  <2>4. \A r \in Record : r < Len(given) + 1
    BY <1>0 DEF Record
  <2>5. \A j \in Rest : mBuffer[j] \in Record
    BY <1>0 DEF Rest
  <2>6. Rest' = Rest
    BY <2>1 DEF Rest
  <2>. QED  BY <1>2, <1>3, <2>1, <2>2, <2>3, <2>4, <2>5, <2>6 DEF PlacesInv
<1>5. CASE AppendRecord
  <2>1. /\ record' = 0 /\ offset' = offset
        /\ mBuffer' = IF mError THEN mBuffer ELSE Append(mBuffer, record)
        /\ Busy' => Busy
        /\ record # 0 /\ offset = 0
    BY <1>5 DEF AppendRecord, Busy, ControlInv
  <2>2. CASE mError
    <3>1. mBuffer' = mBuffer
      BY <2>1, <2>2
    <3>. QED  BY <1>2, <2>1, <3>1 DEF PlacesInv, Rest
  <2>3. CASE ~mError
    <3>. DEFINE m == Append(mBuffer, record)
                n == Len(mBuffer)
    <3>1. mBuffer' = m
      BY <2>1, <2>3
    <3>2. record \in Record
      BY <1>0, <2>1 DEF TypeInv, Record
    <3>3. /\ Len(m) = n + 1 /\ n \in Nat /\ m[n + 1] = record
          /\ \A j \in 1 .. n : m[j] = mBuffer[j]
      BY <3>2 DEF TypeInv
    <3>4. /\ \A i, j \in 1 .. n : i < j => mBuffer[i] < mBuffer[j]
          /\ \A k \in DOMAIN Written, j \in 1 .. n : Written[k] # mBuffer[j]
          /\ \A k \in DOMAIN Written : Written[k] < record
          /\ \A j \in 1 .. n : mBuffer[j] < record
      <4>1. Busy /\ Rest = 1 .. n
        BY <2>1, <2>3 DEF Busy, Rest
      <4>2. offset + 1 .. n = 1 .. n
        BY <2>1
      <4>. QED  BY <2>1, <4>1, <4>2 DEF PlacesInv, Ascending
    <3>5. \A j : j \in 1 .. n + 1 <=> j \in 1 .. n \/ j = n + 1
      BY <3>3
    <3>6. Rest' = 1 .. n + 1 /\ offset' + 1 .. Len(mBuffer') = 1 .. n + 1
      BY <2>1, <3>1, <3>3 DEF Rest
    <3>. HIDE DEF m, n
    <3>7. \A i, j \in 1 .. n + 1 : i < j => m[i] < m[j]
      <4>1. SUFFICES ASSUME NEW i \in 1 .. n + 1, NEW j \in 1 .. n + 1, i < j
                     PROVE  m[i] < m[j]
        OBVIOUS
      <4>2. i \in 1 .. n
        BY <3>3, <4>1
      <4>. QED  BY <3>3, <3>4, <3>5, <4>1, <4>2
    <3>8. \A k \in DOMAIN Written, j \in 1 .. n + 1 : Written[k] # m[j]
      <4>1. \A k \in DOMAIN Written : Written[k] \in Nat /\ record \in Nat
        BY <1>3, <3>2 DEF Record
      <4>2. \A k \in DOMAIN Written : Written[k] # record
        BY <3>4, <4>1
      <4>. QED  BY <3>3, <3>4, <3>5, <4>2
    <3>9. Ascending(m, offset')
      BY <3>1, <3>6, <3>7 DEF Ascending
    <3>. QED  BY <1>2, <2>1, <3>1, <3>6, <3>8, <3>9 DEF PlacesInv
  <2>. QED  BY <2>2, <2>3
<1>6. CASE FlushEnds
  <2>1. mBuffer' = <<>> /\ offset' = 0 /\ record' = record /\ pc' = after /\ mError' = mError
        /\ offset > 0
    BY <1>6 DEF FlushEnds
  <2>2. Rest' = {} /\ Ascending(mBuffer', offset')
    BY <2>1 DEF Rest, Ascending
  <2>3. Busy
    BY <2>1 DEF Busy
  <2>. QED  BY <1>2, <2>1, <2>2, <2>3 DEF PlacesInv
<1>7. CASE OpenFails \/ WriteFails
  BY <1>2, <1>7, AbandonedStep DEF PlacesInv
<1>8. CASE QuietStep \/ OpenNewFile \/ HeaderFails \/ UNCHANGED vars
  <2>1. UNCHANGED <<record, mBuffer, offset>>
    BY <1>8, QuietSteps DEF Quiet, OpenNewFile, HeaderFails, vars, buffer
  <2>2. Busy' => Busy
    <3>1. CASE QuietStep
      <4>1. UNCHANGED <<mError, offset>>
        BY <3>1, QuietSteps DEF Quiet
      <4>2. pc' # "write" \/ pc = "place"
        BY <3>1 DEF QuietStep, Flush, FlushNothing, FlushRecord, Fflush, FlushReturns, Place,
              ControlInv
      <4>. QED  BY <1>0, <4>1, <4>2 DEF Busy, ControlInv
    <3>2. CASE OpenNewFile \/ HeaderFails
      BY <1>0, <3>2 DEF OpenNewFile, HeaderFails, Busy, ControlInv
    <3>3. CASE UNCHANGED vars
      BY <3>3 DEF vars, buffer, Busy
    <3>. QED  BY <1>8, <3>1, <3>2, <3>3
  <2>3. Rest' = Rest
    BY <2>1 DEF Rest
  <2>. QED  BY <1>2, <2>1, <2>2, <2>3 DEF PlacesInv
<1>. QED  BY <1>2, <1>4, <1>5, <1>6, <1>7, <1>8 DEF Next, QuietStep

(* Once an error has been flagged it stays flagged.                          *)
LEMMA HealthyStep ==
    ASSUME [Next]_vars, Healthy'
    PROVE  Healthy
<1>1. mError => mError'
  BY DEF Next, WriteCut, AppendRecord, Flush, FlushNothing, FlushRecord, FlushEnds, Fflush,
         FlushReturns, Place, OpenNewFile, OpenFails, HeaderFails, WriteRecord, WriteFails, vars
<1>2. pc = "gone" => pc' = "gone"
  BY DEF Next, WriteCut, AppendRecord, Flush, FlushNothing, FlushRecord, FlushEnds, Fflush,
         FlushReturns, Place, OpenNewFile, OpenFails, HeaderFails, WriteRecord, WriteFails, vars
<1>. QED  BY <1>1, <1>2 DEF Healthy

(* No step loses a record.                                                   *)
LEMMA KeptStep ==
    ASSUME NoFlushFault, TypeInv, ControlInv, KeptInv, [Next]_vars
    PROVE  KeptInv'
<1>0. /\ offset \in Nat /\ Len(mBuffer) \in Nat /\ offset <= Len(mBuffer)
      /\ Len(given) \in Nat /\ mError \in BOOLEAN
  BY DEF TypeInv
<1>. SUFFICES ASSUME Healthy'
              PROVE  KeptInv'
  BY DEF KeptInv
<1>1. Healthy
  BY HealthyStep
<1>2. \A r \in Record :
         \/ r = record
         \/ \E k \in DOMAIN Written : Written[k] = r
         \/ \E j \in Rest : mBuffer[j] = r
  BY <1>1 DEF KeptInv
<1>3. CASE WriteRecord
  <2>. DEFINE w == Written
              n == Len(Written)
              c == Current
  <2>1. pc = "write" /\ files # <<>> /\ given' = given /\ mBuffer' = mBuffer
    BY <1>3 DEF WriteRecord, ControlInv, Busy
  <2>2. /\ c \in Record
        /\ after = "direct" => c = record
        /\ after # "direct" => c = mBuffer[offset + 1]
    BY <2>1, CurrentIs
  <2>3. Written' = Append(w, c)
    BY <1>3, <2>1, <2>2, WrittenGrows DEF WriteRecord
  <2>4. w \in Seq(Record) /\ n \in Nat /\ DOMAIN w = 1 .. n
    BY WrittenIs
  <2>5. DOMAIN Written' = 1 .. n + 1 /\ Written'[n + 1] = c /\ \A k \in 1 .. n : Written'[k] = w[k]
    BY <2>2, <2>3, <2>4
  <2>. HIDE DEF w, n, c
  <2>6. \A r : (\E k \in 1 .. n : w[k] = r) \/ r = c => \E k \in DOMAIN Written' : Written'[k] = r
    <3>1. n + 1 \in 1 .. n + 1 /\ \A k \in 1 .. n : k \in 1 .. n + 1
      BY <2>4
    <3>. QED  BY <2>5, <3>1
  <2>7. CASE after = "direct"
    <3>1. offset' = offset
      BY <1>3, <2>7 DEF WriteRecord
    <3>2. Rest' = Rest /\ Record' = Record
      BY <2>1, <3>1 DEF Rest, Record
    <3>. QED  BY <1>2, <2>1, <2>2, <2>4, <2>6, <2>7, <3>2 DEF KeptInv, w
  <2>8. CASE after # "direct"
    <3>1. offset' = offset + 1 /\ record' = record
      BY <1>3, <2>8 DEF WriteRecord
    <3>2. Record' = Record /\ \A j \in Rest : j \in Rest' \/ j = offset + 1
      BY <1>0, <2>1, <3>1 DEF Rest, Record
    <3>. QED  BY <1>2, <2>1, <2>2, <2>4, <2>6, <2>8, <3>1, <3>2 DEF KeptInv, w
  <2>. QED  BY <2>7, <2>8
<1>4. SUFFICES ASSUME Written' = Written, ~WriteRecord
               PROVE  KeptInv'
  BY <1>3, WrittenUnlessWrite
<1>5. ASSUME NEW size \in RecordSize, WriteCut(size)
      PROVE  KeptInv'
  <2>1. UNCHANGED <<mBuffer, offset>> /\ record = 0 /\ record' = Len(given) + 1
        /\ given' = Append(given, size)
    BY <1>1, <1>5 DEF WriteCut, ControlInv, Healthy
  <2>2. Len(given') = Len(given) + 1
    BY <2>1 DEF TypeInv
  <2>3. \A r \in Record' : r \in Record \/ r = record'
    BY <1>0, <2>1, <2>2 DEF Record
  <2>4. \A r \in Record : r # 0
    BY <1>0 DEF Record
  <2>. QED  BY <1>2, <1>4, <2>1, <2>3, <2>4 DEF KeptInv, Rest
<1>6. CASE AppendRecord
  <2>1. /\ offset' = offset /\ given' = given /\ offset = 0
        /\ mBuffer' = Append(mBuffer, record)
        /\ record # 0
    BY <1>1, <1>6 DEF AppendRecord, Healthy, ControlInv
  <2>2. record \in Record
    BY <1>0, <2>1 DEF TypeInv, Record
  <2>3. /\ Len(mBuffer') = Len(mBuffer) + 1 /\ mBuffer'[Len(mBuffer) + 1] = record
        /\ \A j \in 1 .. Len(mBuffer) : mBuffer'[j] = mBuffer[j]
    BY <2>1, <2>2 DEF TypeInv
  <2>4. Record' = Record /\ Rest = 1 .. Len(mBuffer) /\ Rest' = 1 .. Len(mBuffer) + 1
    BY <2>1, <2>3 DEF Record, Rest
  <2>5. Len(mBuffer) + 1 \in Rest' /\ \A j \in Rest : j \in Rest'
    BY <1>0, <2>4
  <2>. QED  BY <1>2, <1>4, <2>3, <2>4, <2>5 DEF KeptInv
<1>7. CASE FlushEnds
  <2>1. record' = record /\ given' = given /\ offset = Len(mBuffer)
    BY <1>7 DEF FlushEnds
  <2>2. Rest = {} /\ Record' = Record
    BY <1>0, <2>1 DEF Rest, Record
  <2>. QED  BY <1>2, <1>4, <2>1, <2>2 DEF KeptInv
<1>8. CASE OpenFails \/ WriteFails \/ HeaderFails
  BY <1>8 DEF OpenFails, WriteFails, HeaderFails, Healthy
<1>9. CASE QuietStep \/ OpenNewFile \/ UNCHANGED vars
  <2>1. UNCHANGED <<record, mBuffer, offset, given>>
    BY <1>9, QuietSteps DEF Quiet, OpenNewFile, vars, buffer
  <2>2. Record' = Record /\ Rest' = Rest
    BY <2>1 DEF Record, Rest
  <2>. QED  BY <1>2, <1>4, <2>1, <2>2 DEF KeptInv
<1>. QED  BY <1>4, <1>5, <1>6, <1>7, <1>8, <1>9 DEF Next, QuietStep

(* Only a record larger than the buffer is written before earlier ones.      *)
LEMMA OrderStep ==
    ASSUME NoFlushFault, TypeInv, ControlInv, PlacesInv, OrderInv, BufferInv, [Next]_vars
    PROVE  OrderInv'
<1>0. /\ offset \in 0 .. Len(mBuffer) /\ Len(mBuffer) \in Nat /\ mBuffer \in Seq(Record)
      /\ Len(given) \in Nat /\ offset \in Nat
  BY DEF TypeInv
<1>. SUFFICES ASSUME Healthy'
              PROVE  OrderInv'
  BY DEF OrderInv
<1>. DEFINE w == Written
            n == Len(Written)
            passed(k) == PassedIn(w, mBuffer, offset, k)
<1>1. Healthy /\ Busy
  BY HealthyStep DEF Healthy, Busy
<1>2. w \in Seq(Record) /\ n \in Nat /\ DOMAIN w = 1 .. n /\ \A k \in 1 .. n : w[k] \in Record
  BY WrittenIs
<1>3. \A k \in 1 .. n : /\ passed(k) # {} => given[w[k]] > BUFFER_CAPACITY
                        /\ WeightIn(given, passed(k)) <= BUFFER_CAPACITY
  BY <1>1, <1>2 DEF OrderInv
<1>4. w \in Seq(Nat) /\ mBuffer \in Seq(Nat) /\ mBuffer \in Seq(Nat \ {0})
  <2>1. Record \subseteq Nat \ {0}
    BY <1>0 DEF Record
  <2>2. Record \subseteq Nat
    BY <2>1
  <2>. QED  BY <1>0, <1>2, <2>1, <2>2, SeqOfMore
<1>5. Ascending(mBuffer, offset)
      /\ (record # 0 => /\ \A k \in 1 .. n : w[k] < record
                        /\ \A j \in Rest : mBuffer[j] < record)
  BY <1>1, <1>2 DEF PlacesInv
<1>6. CASE WriteRecord
  <2>. DEFINE c == Current
  <2>1. pc = "write" /\ files # <<>> /\ given' = given /\ mBuffer' = mBuffer
    BY <1>6 DEF WriteRecord, ControlInv, Busy
  <2>2. /\ c \in Record
        /\ after = "direct" => c = record /\ record \in Record /\ offset = 0
        /\ after # "direct" => c = mBuffer[offset + 1] /\ offset + 1 \in 1 .. Len(mBuffer)
    BY <2>1, CurrentIs
  <2>3. Written' = Append(w, c)
    BY <1>6, <2>1, <2>2, WrittenGrows DEF WriteRecord
  <2>4. DOMAIN Written' = 1 .. n + 1 /\ Written'[n + 1] = c /\ \A k \in 1 .. n : Written'[k] = w[k]
    BY <1>2, <2>2, <2>3
  <2>5. \A k \in 1 .. n + 1 : k \in 1 .. n \/ k = n + 1
    BY <1>2
  <2>. HIDE DEF c
  <2>6. CASE after = "direct"
    <3>1. offset' = offset /\ offset = 0 /\ c = record /\ record \in Nat /\ record # 0
      BY <1>6, <2>2, <2>6 DEF WriteRecord, Record
    <3>2. \A j \in 1 .. Len(mBuffer) : mBuffer[j] < record
      BY <1>5, <3>1 DEF Rest
    <3>3. /\ \A k \in 1 .. n : PassedIn(Append(w, record), mBuffer, 0, k) = PassedIn(w, mBuffer, 0, k)
          /\ PassedIn(Append(w, record), mBuffer, 0, n + 1) = {mBuffer[j] : j \in 1 .. Len(mBuffer)}
      BY <1>4, <1>5, <3>1, <3>2, PassedDirect
    <3>4. WeightIn(given, {mBuffer[j] : j \in 1 .. Len(mBuffer)}) = SizeIn(given, mBuffer)
      BY <1>0, <1>5, <3>1, Sizes, WeightOfAscending DEF Record
    <3>5. SizeIn(given, mBuffer) <= BUFFER_CAPACITY /\ given[record] > BUFFER_CAPACITY
      BY <2>6 DEF BufferInv
    <3>6. ASSUME NEW k \in 1 .. n + 1
          PROVE  /\ PassedIn(Written', mBuffer', offset', k) # {} => given'[Written'[k]] > BUFFER_CAPACITY
                 /\ WeightIn(given', PassedIn(Written', mBuffer', offset', k)) <= BUFFER_CAPACITY
      <4>1. CASE k \in 1 .. n
        BY <1>3, <2>1, <2>3, <2>4, <3>1, <3>3, <4>1
      <4>2. CASE k = n + 1
        BY <2>1, <2>3, <2>4, <3>1, <3>3, <3>4, <3>5, <4>2
      <4>. QED  BY <2>5, <4>1, <4>2
    <3>. QED  BY <2>4, <3>6 DEF OrderInv
  <2>7. CASE after # "direct"
    <3>1. offset' = offset + 1 /\ c = mBuffer[offset + 1] /\ offset < Len(mBuffer)
      BY <1>0, <1>6, <2>2, <2>7 DEF WriteRecord
    <3>2. /\ \A k \in 1 .. n : PassedIn(Append(w, c), mBuffer, offset + 1, k) = passed(k)
          /\ PassedIn(Append(w, c), mBuffer, offset + 1, n + 1) = {}
      <4>. HIDE DEF w
      <4>1. /\ \A k \in 1 .. n : PassedIn(Append(w, mBuffer[offset + 1]), mBuffer, offset + 1, k)
                                   = PassedIn(w, mBuffer, offset, k)
            /\ PassedIn(Append(w, mBuffer[offset + 1]), mBuffer, offset + 1, Len(w) + 1) = {}
        BY <1>0, <1>4, <1>5, <3>1, PassedFlush DEF w
      <4>. QED  BY <3>1, <4>1 DEF w
    <3>3. WeightIn(given, {}) <= BUFFER_CAPACITY
      BY WeightOfNone, WriterAssumption
    <3>4. ASSUME NEW k \in 1 .. n + 1
          PROVE  /\ PassedIn(Written', mBuffer', offset', k) # {} => given'[Written'[k]] > BUFFER_CAPACITY
                 /\ WeightIn(given', PassedIn(Written', mBuffer', offset', k)) <= BUFFER_CAPACITY
      <4>1. CASE k \in 1 .. n
        BY <1>3, <2>1, <2>3, <2>4, <3>1, <3>2, <4>1
      <4>2. CASE k = n + 1
        BY <2>1, <2>3, <3>1, <3>2, <3>3, <4>2
      <4>. QED  BY <2>5, <4>1, <4>2
    <3>. QED  BY <2>4, <3>4 DEF OrderInv
  <2>. QED  BY <2>6, <2>7
<1>7. SUFFICES ASSUME Written' = w, ~WriteRecord
               PROVE  OrderInv'
  BY <1>6, WrittenUnlessWrite
<1>8. ASSUME NEW size \in RecordSize, WriteCut(size)
      PROVE  OrderInv'
  <2>1. UNCHANGED <<mBuffer, offset>> /\ given' = Append(given, size)
    BY <1>8 DEF WriteCut
  <2>2. given \in Seq(Nat) /\ size \in Nat
    BY Sizes, WriterAssumption
  <2>3. ASSUME NEW k \in 1 .. n
        PROVE  /\ PassedIn(w, mBuffer, offset, k) # {} => given'[w[k]] > BUFFER_CAPACITY
               /\ WeightIn(given', PassedIn(w, mBuffer, offset, k)) <= BUFFER_CAPACITY
    <3>1. w[k] \in 1 .. Len(given)
      BY <1>2 DEF Record
    <3>2. given'[w[k]] = given[w[k]]
      BY <2>1, <2>2, <3>1
    <3>3. passed(k) \subseteq 1 .. Len(given)
      BY <1>0, <3>1 DEF PassedIn
    <3>4. WeightIn(given', passed(k)) = WeightIn(given, passed(k))
      BY <2>1, <2>2, <3>3, WeightInLater
    <3>. QED  BY <1>3, <3>2, <3>4
  <2>. QED  BY <1>2, <1>7, <2>1, <2>3 DEF OrderInv
<1>9. CASE AppendRecord
  <2>1. /\ offset' = offset /\ given' = given
        /\ mBuffer' = Append(mBuffer, record)
        /\ record # 0
    BY <1>1, <1>9 DEF AppendRecord, Healthy, ControlInv
  <2>2. record \in Nat
    BY <1>0 DEF TypeInv
  <2>3. \A k \in 1 .. n : PassedIn(w, mBuffer', offset', k) = passed(k)
    BY <1>0, <1>4, <1>5, <2>1, <2>2, PassedAppend
  <2>. QED  BY <1>2, <1>3, <1>7, <2>1, <2>3 DEF OrderInv
<1>10. CASE FlushEnds
  <2>1. mBuffer' = <<>> /\ offset' = 0 /\ given' = given /\ offset = Len(mBuffer)
    BY <1>10 DEF FlushEnds
  <2>2. \A j : j \notin offset + 1 .. Len(mBuffer) /\ j \notin offset' + 1 .. Len(mBuffer')
    BY <1>0, <2>1
  <2>3. \A k \in 1 .. n : PassedIn(w, mBuffer', offset', k) = passed(k)
    BY <2>2 DEF PassedIn
  <2>. QED  BY <1>2, <1>3, <1>7, <2>1, <2>3 DEF OrderInv
<1>11. CASE OpenFails \/ WriteFails \/ HeaderFails
  BY <1>11 DEF OpenFails, WriteFails, HeaderFails, Healthy
<1>12. CASE QuietStep \/ OpenNewFile \/ UNCHANGED vars
  <2>1. UNCHANGED <<mBuffer, offset, given>>
    BY <1>12, QuietSteps DEF Quiet, OpenNewFile, vars, buffer
  <2>. QED  BY <1>2, <1>3, <1>7, <2>1 DEF OrderInv
<1>. QED  BY <1>7, <1>8, <1>9, <1>10, <1>11, <1>12 DEF Next, QuietStep

(* The buffer never holds more than its capacity.                            *)
LEMMA BufferStep ==
    ASSUME NoFlushFault, TypeInv, ControlInv, BufferInv, [Next]_vars
    PROVE  BufferInv'
<1>. DEFINE held == SizeIn(given, mBuffer)
<1>0. /\ given \in Seq(Nat) /\ mBuffer \in Seq(1 .. Len(given)) /\ Len(given) \in Nat
      /\ BUFFER_CAPACITY \in Nat
  BY Sizes DEF TypeInv, Record
<1>1. held \in Int
  <2>1. CASE Len(given) = 0
    <3>1. mBuffer = <<>>
      BY <1>0, <2>1
    <3>. QED  BY <3>1, SizeInEmpty
  <2>2. CASE Len(given) # 0
    <3>1. Len(given) \in 1 .. Len(given)
      BY <1>0, <2>2
    <3>. QED  BY <1>0, <3>1, SizeInAppend
  <2>. QED  BY <2>1, <2>2
<1>2. /\ held <= BUFFER_CAPACITY
      /\ after = "append" => given[record] <= BUFFER_CAPACITY
      /\ pc = "append" /\ ~mError => held + given[record] <= BUFFER_CAPACITY
      /\ after = "direct" => given[record] > BUFFER_CAPACITY
  BY DEF BufferInv
<1>3. SizeIn(given, <<>>) = 0
  BY SizeInEmpty
<1>4. ASSUME NEW size \in RecordSize, WriteCut(size)
      PROVE  BufferInv'
  <2>1. UNCHANGED <<mBuffer, mError>> /\ given' = Append(given, size) /\ pc = "idle" /\ after = "idle"
    BY <1>4 DEF WriteCut, ControlInv
  <2>2. size \in Nat
    BY WriterAssumption
  <2>3. SizeIn(given', mBuffer') = held
    BY <1>0, <2>1, <2>2, SizeInLater
  <2>4. given'[Len(given) + 1] = size
    BY <1>0, <2>1, <2>2
  <2>5. SizeOf(mBuffer) = held
    BY DEF SizeOf, Size, SizeIn
  <2>6. CASE mError
    <3>1. UNCHANGED <<pc, after>>
      BY <1>4, <2>6 DEF WriteCut
    <3>. QED  BY <1>2, <2>1, <2>3, <2>6, <3>1 DEF BufferInv
  <2>7. CASE ~mError
    <3>1. record' = Len(given) + 1
      BY <1>4, <2>7 DEF WriteCut
    <3>2. /\ after' = "append" => size <= BUFFER_CAPACITY
          /\ pc' = "append" => held + size <= BUFFER_CAPACITY
          /\ after' = "direct" => size > BUFFER_CAPACITY
      <4>. HIDE DEF held
      <4>. QED  BY <1>4, <2>1, <2>5, <2>7 DEF WriteCut
    <3>. QED  BY <1>2, <2>1, <2>3, <2>4, <3>1, <3>2 DEF BufferInv
  <2>. QED  BY <2>6, <2>7
<1>5. CASE AppendRecord
  <2>1. given' = given /\ after' = "idle" /\ pc' = "idle"
    BY <1>5 DEF AppendRecord
  <2>2. CASE mError
    <3>1. mBuffer' = mBuffer
      BY <1>5, <2>2 DEF AppendRecord
    <3>. QED  BY <1>2, <2>1, <3>1 DEF BufferInv
  <2>3. CASE ~mError
    <3>1. mBuffer' = Append(mBuffer, record) /\ record \in 1 .. Len(given)
      BY <1>0, <1>5, <2>3 DEF AppendRecord, ControlInv, TypeInv
    <3>2. SizeIn(given', mBuffer') = held + given[record]
      BY <1>0, <2>1, <3>1, SizeInAppend
    <3>3. held + given[record] <= BUFFER_CAPACITY
      BY <1>2, <1>5, <2>3 DEF AppendRecord
    <3>. HIDE DEF held
    <3>. QED  BY <2>1, <3>2, <3>3 DEF BufferInv
  <2>. QED  BY <2>2, <2>3
<1>6. CASE FlushEnds
  <2>1. mBuffer' = <<>> /\ UNCHANGED <<given, record, after>> /\ pc' = after
    BY <1>6 DEF FlushEnds
  <2>2. SizeIn(given', mBuffer') = 0
    BY <1>3, <2>1
  <2>3. after = "append" => given[record] \in Nat
    BY <1>0, Sizes DEF ControlInv, TypeInv, Record
  <2>. QED  BY <1>0, <1>2, <2>1, <2>2, <2>3 DEF BufferInv
<1>7. CASE FlushNothing
  <2>1. UNCHANGED <<mBuffer, given, record, after, mError>> /\ pc' = after /\ (mBuffer = <<>> \/ mError)
    BY <1>7 DEF FlushNothing, buffer
  <2>2. mBuffer = <<>> => held = 0
    BY <1>3
  <2>3. after = "append" => given[record] \in Nat
    BY <1>0, Sizes DEF ControlInv, TypeInv, Record
  <2>. HIDE DEF held
  <2>4. SizeIn(given', mBuffer') = held
    BY <2>1 DEF held
  <2>. QED  BY <1>0, <1>1, <1>2, <2>1, <2>2, <2>3, <2>4 DEF BufferInv
<1>8. CASE OpenFails \/ WriteFails
  <2>1. UNCHANGED <<mBuffer, given>> /\ mError' = TRUE
    BY <1>8 DEF OpenFails, WriteFails, Abandon
  <2>2. after' = "idle" \/ UNCHANGED <<after, record>>
    BY <1>8 DEF OpenFails, WriteFails, Abandon
  <2>. QED  BY <1>2, <2>1, <2>2 DEF BufferInv
<1>9. CASE Flush \/ FlushRecord \/ Fflush \/ FlushReturns \/ Place \/ OpenNewFile \/ HeaderFails
           \/ WriteRecord
  <2>1. UNCHANGED <<mBuffer, given>> /\ pc' # "append"
    BY <1>9, QuietSteps DEF QuietStep, Quiet, Flush, FlushRecord, Fflush, FlushReturns, Place,
          OpenNewFile, HeaderFails, WriteRecord, buffer
  <2>2. after' \in {"idle", "sync"} \/ UNCHANGED <<after, record>>
    BY <1>9 DEF Flush, FlushRecord, Fflush, FlushReturns, Place, OpenNewFile, HeaderFails,
          WriteRecord, buffer
  <2>. QED  BY <1>2, <2>1, <2>2 DEF BufferInv
<1>10. CASE UNCHANGED vars
  <2>1. UNCHANGED <<mBuffer, given, after, record, pc, mError>>
    BY <1>10 DEF vars, buffer
  <2>. QED  BY <1>2, <2>1 DEF BufferInv
<1>. QED  BY <1>4, <1>5, <1>6, <1>7, <1>8, <1>9, <1>10 DEF Next

(* The sizes of the files, and of what is written, are numbers.              *)
LEMMA SizesAre ==
    ASSUME TypeInv
    PROVE  /\ \A s \in Seq(Record) : SizeIn(given, s) \in Nat
           /\ \A s \in Seq(Record), r \in Record :
                 /\ SizeIn(given, Append(s, r)) = SizeIn(given, s) + given[r]
                 /\ given[r] \in Nat
           /\ \A i \in 1 .. Len(files) : files[i] \in File /\ files[i].body \in Seq(Record)
<1>1. given \in Seq(Nat) /\ Len(given) \in Nat /\ \A r \in Record : given[r] \in Nat
  BY Sizes
<1>2. ASSUME NEW s \in Seq(Record)
      PROVE  SizeIn(given, s) \in Nat
  <2>1. s = <<>> \/ \E r : r \in Record
    OBVIOUS
  <2>2. CASE s = <<>>
    BY <2>2, SizeInEmpty
  <2>3. ASSUME NEW r \in Record
        PROVE  SizeIn(given, s) \in Nat
    BY <1>1, <2>3, SizeInAppend DEF Record
  <2>. QED  BY <2>1, <2>2, <2>3
<1>3. ASSUME NEW s \in Seq(Record), NEW r \in Record
      PROVE  SizeIn(given, Append(s, r)) = SizeIn(given, s) + given[r]
  BY <1>1, SizeInAppend DEF Record
<1>4. \A i \in 1 .. Len(files) : files[i] \in File /\ files[i].body \in Seq(Record)
  <2>1. \A i \in 1 .. Len(files) : files[i] \in File
    BY DEF TypeInv
  <2>. QED  BY <2>1 DEF File
<1>. QED  BY <1>1, <1>2, <1>3, <1>4

(* The sizes kept stay those of the files.                                   *)
LEMMA CountedStep ==
    ASSUME NoFlushFault, TypeInv, ControlInv, CountedInv, [Next]_vars
    PROVE  CountedInv'
<1>. SUFFICES ASSUME Healthy'
              PROVE  CountedInv'
  BY DEF CountedInv
<1>. DEFINE n == Len(files)
            last == files[n].body
            total == SizeIn(given, Written)
<1>0. /\ files \in Seq(File) /\ n \in Nat /\ DOMAIN files = 1 .. n /\ (files # <<>> => n \in 1 .. n)
      /\ mBytesWritten \in Nat /\ mCurrentFileSize \in Nat /\ HeaderSize \in Nat
      /\ given \in Seq(Nat)
  BY Sizes DEF TypeInv
<1>1. Healthy
  BY HealthyStep
<1>2. /\ \A i \in 1 .. n : files[i].header /\ ~files[i].torn
      /\ mBytesWritten = n * HeaderSize + total
      /\ files # <<>> => mCurrentFileSize = HeaderSize + SizeIn(given, last)
  BY <1>0, <1>1 DEF CountedInv
<1>3. Written \in Seq(Record) /\ total \in Nat
      /\ (files # <<>> => last \in Seq(Record) /\ SizeIn(given, last) \in Nat)
  BY <1>0, WrittenIs, SizesAre
<1>4. CASE WriteRecord
  <2>. DEFINE c == Current
              size == SizeIn(given, last)
  <2>1. pc = "write" /\ files # <<>> /\ given' = given
    BY <1>4 DEF WriteRecord, ControlInv, Busy
  <2>2. c \in Record
    BY <2>1, CurrentIs
  <2>3. /\ Len(files') = n /\ n \in Nat \ {0}
        /\ \A i \in 1 .. n - 1 : files'[i] = files[i]
        /\ files'[n].body = Append(last, c)
        /\ files'[n].header = files[n].header /\ files'[n].torn = files[n].torn
        /\ Written' = Append(Written, c) /\ files' \in Seq(File)
    BY <1>4, <2>1, <2>2, WrittenGrows DEF WriteRecord
  <2>4. mCurrentFileSize' = mCurrentFileSize + given[c] /\ mBytesWritten' = mBytesWritten + given[c]
    BY <1>4 DEF WriteRecord, Size
  <2>5. /\ SizeIn(given', Written') = total + given[c] /\ given[c] \in Nat
        /\ SizeIn(given', files'[n].body) = size + given[c] /\ size \in Nat
    BY <1>3, <2>1, <2>2, <2>3, SizesAre
  <2>6. \A i \in 1 .. n : files'[i].header /\ ~files'[i].torn
    BY <1>2, <2>3
  <2>7. DOMAIN files' = 1 .. n
    BY <2>3
  <2>. DEFINE z == given[c]
              all == n * HeaderSize
  <2>8. all \in Int
    BY <1>0
  <2>9. /\ mBytesWritten = all + total
        /\ mCurrentFileSize = HeaderSize + size
    BY <1>2, <2>1
  <2>10. /\ mBytesWritten' = all + SizeIn(given', Written')
         /\ mCurrentFileSize' = HeaderSize + SizeIn(given', files'[n].body)
    <3>. HIDE DEF c, z, all, total, size, n, last
    <3>1. z \in Nat /\ total \in Nat /\ size \in Nat /\ all \in Int /\ HeaderSize \in Nat
      BY <1>0, <1>3, <2>5, <2>8 DEF z
    <3>2. SizeIn(given', Written') = total + z /\ SizeIn(given', files'[n].body) = size + z
      BY <2>5 DEF z
    <3>3. mBytesWritten' = mBytesWritten + z /\ mCurrentFileSize' = mCurrentFileSize + z
      BY <2>4 DEF z
    <3>. QED  BY <2>9, <3>1, <3>2, <3>3
  <2>. QED  BY <2>3, <2>6, <2>7, <2>10 DEF CountedInv
<1>5. SUFFICES ASSUME Written' = Written, ~WriteRecord
               PROVE  CountedInv'
  BY <1>4, WrittenUnlessWrite
<1>6. ASSUME NEW size \in RecordSize, WriteCut(size)
      PROVE  CountedInv'
  <2>1. UNCHANGED <<files, mCurrentFileSize, mBytesWritten>> /\ given' = Append(given, size)
    BY <1>6 DEF WriteCut, counted
  <2>2. size \in Nat
    BY WriterAssumption
  <2>3. \A s \in Seq(Record) : SizeIn(given', s) = SizeIn(given, s)
    BY <1>0, <2>1, <2>2, SizeInLater DEF Record
  <2>. QED  BY <1>0, <1>2, <1>3, <1>5, <2>1, <2>3 DEF CountedInv
<1>7. CASE OpenNewFile
  <2>1. files' = Append(files, EmptyFile(TRUE)) /\ given' = given
    BY <1>7, SyncedIs DEF OpenNewFile
  <2>2. /\ Len(files') = n + 1 /\ DOMAIN files' = 1 .. n + 1
        /\ \A i \in 1 .. n : files'[i] = files[i]
        /\ files'[n + 1].header /\ ~files'[n + 1].torn /\ files'[n + 1].body = <<>>
    BY <2>1 DEF TypeInv, EmptyFile
  <2>3. files'[n + 1].header /\ ~files'[n + 1].torn /\ files'[n + 1].body = <<>>
    BY <2>2
  <2>4. \A i \in 1 .. n + 1 : files'[i].header /\ ~files'[i].torn
    <3>1. \A i \in 1 .. n + 1 : i \in 1 .. n \/ i = n + 1
      BY <1>0
    <3>. QED  BY <1>2, <2>2, <2>3, <3>1
  <2>5. mCurrentFileSize' = HeaderSize + SizeIn(given', files'[n + 1].body)
    <3>1. SizeIn(given', files'[n + 1].body) = 0
      BY <2>3, SizeInEmpty
    <3>2. mCurrentFileSize' = HeaderSize
      BY <1>7 DEF OpenNewFile
    <3>. QED  BY <1>0, <3>1, <3>2
  <2>6. mBytesWritten' = (n + 1) * HeaderSize + SizeIn(given', Written')
    <3>1. mBytesWritten' = mBytesWritten + HeaderSize /\ SizeIn(given', Written') = total
      BY <1>5, <1>7, <2>1 DEF OpenNewFile
    <3>2. (n + 1) * HeaderSize = n * HeaderSize + HeaderSize /\ n * HeaderSize \in Int
      <4>. HIDE DEF n
      <4>. QED  BY <1>0
    <3>. DEFINE all == n * HeaderSize
                new == (n + 1) * HeaderSize
    <3>3. mBytesWritten = all + total /\ new = all + HeaderSize /\ all \in Int
      BY <1>2, <3>2
    <3>4. mBytesWritten' = new + SizeIn(given', Written')
      <4>. HIDE DEF n, all, new, total
      <4>. QED  BY <1>0, <1>3, <3>1, <3>3
    <3>. QED  BY <3>4
  <2>. QED  BY <2>2, <2>4, <2>5, <2>6 DEF CountedInv
<1>8. CASE OpenFails \/ WriteFails \/ HeaderFails
  BY <1>8 DEF OpenFails, WriteFails, HeaderFails, Healthy
<1>9. CASE QuietStep \/ AppendRecord \/ FlushEnds \/ UNCHANGED vars
  <2>1. UNCHANGED <<files, mCurrentFileSize, mBytesWritten, given>>
    BY <1>9, QuietSteps DEF Quiet, AppendRecord, FlushEnds, vars, counted
  <2>. QED  BY <1>0, <1>2, <1>5, <2>1 DEF CountedInv
<1>. QED  BY <1>5, <1>6, <1>7, <1>8, <1>9 DEF Next, QuietStep

(* No file becomes longer than it may, but for one with a single record.     *)
LEMMA FileSizesStep ==
    ASSUME NoFlushFault, TypeInv, ControlInv, FileSizesInv, [Next]_vars
    PROVE  FileSizesInv'
<1>. DEFINE n == Len(files)
            last == files[n].body
            size == SizeIn(given, last)
            Short(body) == HeaderSize + SizeIn(given, body) <= MAX_FILE_SIZE \/ Len(body) = 1
<1>0. /\ files \in Seq(File) /\ n \in Nat /\ DOMAIN files = 1 .. n /\ (files # <<>> => n \in 1 .. n)
      /\ mCurrentFileSize \in Nat /\ HeaderSize \in Nat /\ MAX_FILE_SIZE \in Nat
      /\ HeaderSize <= MAX_FILE_SIZE
      /\ given \in Seq(Nat) /\ mError \in BOOLEAN /\ offset \in Nat
  <2>1. HeaderSize <= MAX_FILE_SIZE
    BY WriterAssumption
  <2>. QED  BY <2>1, Sizes DEF TypeInv
<1>1. /\ \A i \in 1 .. n : Short(files[i].body)
      /\ Busy /\ pc # "gone" /\ files # <<>> => HeaderSize + size <= mCurrentFileSize
      /\ pc = "write" => Fits \/ last = <<>>
  BY <1>0 DEF FileSizesInv
<1>2. \A i \in 1 .. n : files[i].body \in Seq(Record)
  BY SizesAre
<1>3. files # <<>> => last \in Seq(Record) /\ size \in Nat
  BY <1>0, SizesAre
<1>4. CASE WriteRecord
  <2>. DEFINE c == Current
              z == given[c]
  <2>1. pc = "write" /\ files # <<>> /\ given' = given /\ Busy
    BY <1>4 DEF WriteRecord, ControlInv, Busy
  <2>2. c \in Record
    BY <2>1, CurrentIs
  <2>3. /\ Len(files') = n /\ n \in Nat \ {0}
        /\ \A i \in 1 .. n - 1 : files'[i] = files[i]
        /\ files'[n].body = Append(last, c)
        /\ files' \in Seq(File)
    BY <1>4, <2>1, <2>2, WrittenGrows DEF WriteRecord
  <2>4. mCurrentFileSize' = mCurrentFileSize + z /\ pc' # "write"
    BY <1>4 DEF WriteRecord, Size
  <2>5. SizeIn(given', files'[n].body) = size + z /\ z \in Nat /\ size \in Nat
    BY <1>3, <2>1, <2>2, <2>3, SizesAre
  <2>6. HeaderSize + size <= mCurrentFileSize
    BY <1>1, <2>1
  <2>7. HeaderSize + SizeIn(given', files'[n].body) <= mCurrentFileSize'
    <3>. HIDE DEF size, z, last, n
    <3>. QED  BY <1>0, <2>4, <2>5, <2>6
  <2>8. HeaderSize + SizeIn(given', files'[n].body) <= MAX_FILE_SIZE \/ Len(files'[n].body) = 1
    <3>1. CASE Fits
      <4>1. mCurrentFileSize + z <= MAX_FILE_SIZE
        BY <3>1 DEF Fits, Size
      <4>. HIDE DEF size, z, last, n
      <4>. QED  BY <1>0, <2>5, <2>6, <4>1
    <3>2. CASE last = <<>>
      BY <2>2, <2>3, <3>2
    <3>. QED  BY <1>1, <2>1, <3>1, <3>2
  <2>9. DOMAIN files' = 1 .. n /\ \A i \in 1 .. n : i \in 1 .. n - 1 \/ i = n
    BY <2>3
  <2>10. \A i \in 1 .. n - 1 : i \in 1 .. n
    BY <2>3
  <2>11. ASSUME NEW i \in 1 .. n
         PROVE  HeaderSize + SizeIn(given', files'[i].body) <= MAX_FILE_SIZE \/ Len(files'[i].body) = 1
    BY <1>1, <2>1, <2>3, <2>8, <2>9, <2>10
  <2>. HIDE DEF n
  <2>. QED  BY <2>3, <2>4, <2>7, <2>9, <2>11 DEF FileSizesInv
<1>5. ASSUME NEW z \in RecordSize, WriteCut(z)
      PROVE  FileSizesInv'
  <2>1. UNCHANGED <<files, mCurrentFileSize, mError, offset>> /\ given' = Append(given, z)
        /\ pc = "idle" /\ pc' # "write"
    BY <1>5 DEF WriteCut, counted
  <2>2. z \in Nat
    BY WriterAssumption
  <2>3. \A s \in Seq(Record) : SizeIn(given', s) = SizeIn(given, s)
    BY <1>0, <2>1, <2>2, SizeInLater DEF Record
  <2>4. \A i \in 1 .. n : SizeIn(given', files[i].body) = SizeIn(given, files[i].body)
    BY <1>2, <2>3
  <2>5. Busy' => Busy
    BY <2>1 DEF Busy
  <2>. QED  BY <1>0, <1>1, <2>1, <2>4, <2>5 DEF FileSizesInv
<1>6. CASE OpenNewFile \/ HeaderFails
  <2>1. PICK h \in BOOLEAN : files' = Append(files, EmptyFile(h))
    BY <1>6, SyncedIs DEF OpenNewFile, HeaderFails
  <2>2. /\ Len(files') = n + 1 /\ DOMAIN files' = 1 .. n + 1
        /\ \A i \in 1 .. n : files'[i] = files[i]
        /\ files'[n + 1].body = <<>>
    BY <2>1 DEF TypeInv, EmptyFile
  <2>3. given' = given /\ SizeIn(given', <<>>) = 0 /\ UNCHANGED <<after, offset>> /\ pc = "open"
        /\ pc' = IF after = "idle" THEN "idle" ELSE "write"
    BY <1>6, SizeInEmpty DEF OpenNewFile, HeaderFails, buffer
  <2>4. \A i \in 1 .. n + 1 : i \in 1 .. n \/ i = n + 1
    BY <1>0
  <2>5. \A i \in 1 .. n + 1 :
           HeaderSize + SizeIn(given', files'[i].body) <= MAX_FILE_SIZE \/ Len(files'[i].body) = 1
    BY <1>0, <1>1, <2>2, <2>3, <2>4
  <2>6. Busy' => HeaderSize <= mCurrentFileSize'
    <3>1. CASE OpenNewFile
      BY <1>0, <3>1 DEF OpenNewFile
    <3>2. CASE HeaderFails
      <4>1. mError' = TRUE /\ mCurrentFileSize' = mCurrentFileSize
        BY <3>2 DEF HeaderFails, counted
      <4>2. CASE after = "idle"
        <5>1. offset' = 0 /\ pc' = "idle"
          BY <2>3, <4>2 DEF ControlInv, TypeInv
        <5>. QED  BY <4>1, <5>1 DEF Busy
      <4>3. CASE after # "idle"
        <5>1. Busy /\ files # <<>>
          BY <1>0, <2>3, <4>3 DEF ControlInv, Busy
        <5>2. HeaderSize + size <= mCurrentFileSize /\ size \in Nat
          BY <1>1, <1>3, <2>3, <5>1
        <5>. HIDE DEF size
        <5>. QED  BY <1>0, <4>1, <5>2
      <4>. QED  BY <4>2, <4>3
    <3>. QED  BY <1>6, <3>1, <3>2
  <2>7. Busy' => HeaderSize + SizeIn(given', files'[n + 1].body) <= mCurrentFileSize'
    BY <1>0, <2>2, <2>3, <2>6
  <2>8. Len(files') = n + 1 /\ files'[Len(files')].body = <<>>
    BY <2>2
  <2>. HIDE DEF n
  <2>. QED  BY <2>2, <2>5, <2>7, <2>8 DEF FileSizesInv
<1>7. CASE OpenFails \/ WriteFails
  <2>1. given' = given /\ pc' # "write" /\ ~Busy'
    BY <1>7, AbandonedStep DEF OpenFails, WriteFails, Abandon
  <2>2. DOMAIN files' = DOMAIN files /\ \A i \in 1 .. n : files'[i].body = files[i].body
    <3>1. CASE OpenFails
      BY <3>1, SyncedIs DEF OpenFails
    <3>2. CASE WriteFails
      <4>1. files # <<>>
        BY <3>2 DEF WriteFails, ControlInv, Busy
      <4>2. \A i \in 1 .. n : files[i] \in File
        BY SizesAre
      <4>. QED  BY <1>0, <3>2, <4>1, <4>2 DEF WriteFails, File
    <3>. QED  BY <1>7, <3>1, <3>2
  <2>. QED  BY <1>0, <1>1, <2>1, <2>2 DEF FileSizesInv
<1>8. CASE QuietStep \/ AppendRecord \/ FlushEnds \/ UNCHANGED vars
  <2>1. UNCHANGED <<files, mCurrentFileSize, given, mError>>
    BY <1>8, QuietSteps DEF Quiet, AppendRecord, FlushEnds, vars, counted
  <2>2. (Busy' => Busy) /\ (pc' # "gone" => pc # "gone")
    <3>1. CASE QuietStep
      <4>1. offset' = offset /\ pc # "gone"
        BY <3>1, QuietSteps DEF Quiet, QuietStep, Flush, FlushNothing, FlushRecord, Fflush,
              FlushReturns, Place
      <4>2. pc' # "write" \/ pc = "place"
        BY <3>1 DEF QuietStep, Flush, FlushNothing, FlushRecord, Fflush, FlushReturns, Place,
              ControlInv
      <4>. QED  BY <1>0, <2>1, <4>1, <4>2 DEF Busy, ControlInv
    <3>2. CASE AppendRecord \/ FlushEnds
      BY <1>0, <2>1, <3>2 DEF AppendRecord, FlushEnds, Busy, ControlInv
    <3>3. CASE UNCHANGED vars
      BY <3>3 DEF vars, buffer, Busy
    <3>. QED  BY <1>8, <3>1, <3>2, <3>3
  <2>3. pc' = "write" => Fits' \/ last = <<>>
    <3>1. CASE Place
      <4>1. UNCHANGED <<after, record, mBuffer, offset>> /\ (pc' = "write" => Fits)
        BY <3>1 DEF Place, buffer
      <4>2. Current' = Current
        BY <4>1 DEF Current
      <4>3. Fits' = Fits
        BY <2>1, <4>2 DEF Fits, Size
      <4>. QED  BY <4>1, <4>3
    <3>2. CASE UNCHANGED vars
      <4>1. UNCHANGED <<pc, after, record, mBuffer, offset>>
        BY <3>2 DEF vars, buffer
      <4>2. Current' = Current
        BY <4>1 DEF Current
      <4>3. Fits' = Fits
        BY <2>1, <4>2 DEF Fits, Size
      <4>. QED  BY <1>1, <4>1, <4>3
    <3>3. CASE ~Place /\ ~UNCHANGED vars
      <4>1. pc' # "write"
        BY <1>8, <3>3 DEF QuietStep, Flush, FlushNothing, FlushRecord, Fflush, FlushReturns,
              AppendRecord, FlushEnds, ControlInv
      <4>. QED  BY <4>1
    <3>. QED  BY <3>1, <3>2, <3>3
  <2>. QED  BY <1>0, <1>1, <2>1, <2>2, <2>3 DEF FileSizesInv
<1>. QED  BY <1>4, <1>5, <1>6, <1>7, <1>8 DEF Next, QuietStep

(* The invariant as a whole.                                                 *)
LEMMA WriterInvInit == Init => WriterInv
<1>. SUFFICES ASSUME Init
              PROVE  WriterInv
  OBVIOUS
<1>1. /\ given = <<>> /\ pc = "open" /\ after = "idle" /\ record = 0 /\ mBuffer = <<>> /\ offset = 0
      /\ files = <<>> /\ unsynced = 0 /\ mCurrentFileSize = 0 /\ mBytesWritten = 0 /\ mError = FALSE
  BY DEF Init
<1>2. TypeInv
  <2>1. <<>> \in Seq(RecordSize) /\ <<>> \in Seq(Record) /\ <<>> \in Seq(File) /\ Len(<<>>) = 0
    OBVIOUS
  <2>2. record \in {0, Len(given)} /\ mError \in BOOLEAN
    BY <1>1
  <2>5. offset \in 0 .. Len(mBuffer)
    <3>1. Len(mBuffer) = 0
      BY <1>1
    <3>. QED  BY <1>1, <3>1
  <2>3. given \in Seq(RecordSize) /\ mBuffer \in Seq(Record) /\ files \in Seq(File)
    BY <1>1, <2>1
  <2>4. unsynced \in Nat /\ mCurrentFileSize \in Nat /\ mBytesWritten \in Nat
    BY <1>1
  <2>. QED  BY <1>1, <2>2, <2>3, <2>4, <2>5 DEF TypeInv
<1>3. ControlInv
  BY <1>1 DEF ControlInv
<1>4. DOMAIN Written = {} /\ SizeIn(given, Written) = 0 /\ Record = {} /\ Rest = {}
  <2>1. Written \in Seq(Record) /\ Record = {}
    BY <1>1, <1>2, WrittenIs DEF Record
  <2>2. Written = <<>>
    BY <2>1
  <2>. QED  BY <1>1, <2>1, <2>2, SizeInEmpty DEF Rest
<1>5. PlacesInv /\ KeptInv /\ OrderInv
  BY <1>1, <1>4 DEF PlacesInv, KeptInv, OrderInv, IsInjective, Ascending
<1>6. SizeIn(given, mBuffer) = 0
  BY <1>1, SizeInEmpty
<1>7. FileSizesInv /\ BufferInv /\ CountedInv
  BY <1>1, <1>4, <1>6, WriterAssumption DEF FileSizesInv, BufferInv, CountedInv
<1>. QED  BY <1>2, <1>3, <1>5, <1>7 DEF WriterInv

(* Every step keeps it, provided that the library loses nothing.             *)
LEMMA WriterInvStep == NoFlushFault /\ WriterInv /\ [Next]_vars => WriterInv'
  BY TypeStep, ControlStep, PlacesStep, KeptStep, OrderStep, FileSizesStep, BufferStep, CountedStep
     DEF WriterInv

(* What is kept: the files, and behind them what is in memory.               *)
LEMMA KeptIs ==
    ASSUME TypeInv
    PROVE  /\ Kept \in Seq(Record)
           /\ Len(Kept) = Len(Written) + (Len(mBuffer) - offset)
           /\ \A k \in 1 .. Len(Written) : Kept[k] = Written[k]
           /\ \A k \in Len(Written) + 1 .. Len(Kept) :
                 Kept[k] = mBuffer[offset + (k - Len(Written))]
<1>. DEFINE w == Written
            n == Len(Written)
            l == Len(mBuffer) - offset
            m == SubSeq(mBuffer, offset + 1, Len(mBuffer))
<1>1. w \in Seq(Record) /\ n \in Nat
  BY WrittenIs
<1>2. mBuffer \in Seq(Record) /\ Len(mBuffer) \in Nat /\ offset \in 0 .. Len(mBuffer) /\ l \in Nat
  BY DEF TypeInv
<1>3. m \in Seq(Record) /\ Len(m) = l
  BY <1>2, SplitElements
<1>4. \A j \in 1 .. l : m[j] = mBuffer[offset + j]
  <2>1. \A j \in 1 .. l : (offset + 1) + j - 1 = offset + j
    BY <1>2
  <2>. QED  BY <1>2, <2>1
<1>. HIDE DEF w, n, l, m
<1>8. Len(w) = n
  BY DEF n, w
<1>9. w \o m \in Seq(Record) /\ Len(w \o m) = Len(w) + Len(m)
  BY <1>1, <1>3
<1>5. w \o m \in Seq(Record) /\ Len(w \o m) = n + l
  BY <1>3, <1>8, <1>9
<1>6. \A k \in 1 .. n : (w \o m)[k] = w[k]
  BY <1>1, <1>2, <1>3, <1>8
<1>7. ASSUME NEW k \in n + 1 .. n + l
      PROVE  (w \o m)[k] = mBuffer[offset + (k - n)]
  <2>1. k \in 1 .. n + l /\ ~(k <= n) /\ k - n \in 1 .. l
    BY <1>1, <1>2
  <2>2. (w \o m)[k] = m[k - n]
    BY <1>1, <1>3, <1>8, <2>1
  <2>. QED  BY <1>4, <2>1, <2>2
<1>. QED  BY <1>5, <1>6, <1>7 DEF Kept, w, n, l, m

(* Whatever is kept is in one place, and everything is kept.                 *)
LEMMA WriterNothingLost == WriterInv => NothingLost
<1>. SUFFICES ASSUME WriterInv, Healthy
              PROVE  IsInjective(Kept) /\ ToSet(Kept) \cup ({record} \ {0}) = Record
  BY DEF NothingLost
<1>. DEFINE w == Written
            n == Len(Written)
            l == Len(Kept)
<1>1. TypeInv /\ PlacesInv /\ KeptInv /\ Busy
  BY DEF WriterInv, Healthy, Busy
<1>2. w \in Seq(Record) /\ n \in Nat /\ DOMAIN w = 1 .. n
  BY <1>1, WrittenIs
<1>3. /\ Kept \in Seq(Record) /\ l \in Nat /\ DOMAIN Kept = 1 .. l
      /\ Len(mBuffer) \in Nat /\ offset \in Nat /\ offset <= Len(mBuffer)
      /\ l = n + (Len(mBuffer) - offset)
      /\ \A k \in 1 .. n : Kept[k] = w[k]
      /\ \A k \in n + 1 .. l : Kept[k] = mBuffer[offset + (k - n)]
  BY <1>1, KeptIs DEF TypeInv
<1>4. /\ IsInjective(w) /\ Ascending(mBuffer, offset)
      /\ \A k \in 1 .. n, j \in Rest : w[k] # mBuffer[j]
  BY <1>1, <1>2 DEF PlacesInv
<1>5. \A j \in Rest : mBuffer[j] \in Nat
  <2>1. \A j \in Rest : j \in 1 .. Len(mBuffer)
    BY <1>3 DEF Rest
  <2>. QED  BY <1>1, <2>1 DEF TypeInv, Record
<1>. HIDE DEF w, n, l
<1>6. \A k \in 1 .. l : k \in 1 .. n \/ (k \in n + 1 .. l /\ offset + (k - n) \in Rest)
  BY <1>2, <1>3 DEF Rest
<1>7. ASSUME NEW j \in n + 1 .. l, NEW k \in n + 1 .. l, j < k
      PROVE  Kept[j] # Kept[k]
  <2>. DEFINE a == offset + (j - n)
              b == offset + (k - n)
  <2>1. a \in Rest /\ b \in Rest /\ a < b
    BY <1>2, <1>3, <1>7 DEF Rest
  <2>. HIDE DEF a, b
  <2>2. mBuffer[a] < mBuffer[b]
    BY <1>4, <2>1 DEF Ascending, Rest
  <2>3. mBuffer[a] # mBuffer[b]
    BY <1>5, <2>1, <2>2
  <2>4. Kept[j] = mBuffer[a] /\ Kept[k] = mBuffer[b]
    BY <1>3 DEF a, b
  <2>. QED  BY <2>3, <2>4
<1>8. ASSUME NEW j \in 1 .. n, NEW k \in n + 1 .. l
      PROVE  Kept[j] # Kept[k]
  <2>1. k \in 1 .. l /\ k \notin 1 .. n
    BY <1>2, <1>3
  <2>2. offset + (k - n) \in Rest
    BY <1>6, <2>1
  <2>. QED  BY <1>3, <1>4, <2>2
<1>9. IsInjective(Kept)
  <2>1. SUFFICES ASSUME NEW j \in 1 .. l, NEW k \in 1 .. l, Kept[j] = Kept[k]
                 PROVE  j = k
    BY <1>3 DEF IsInjective
  <2>2. CASE j \in 1 .. n /\ k \in 1 .. n
    BY <1>2, <1>3, <1>4, <2>1, <2>2 DEF IsInjective
  <2>3. CASE j \in n + 1 .. l /\ k \in n + 1 .. l
    BY <1>2, <1>3, <1>7, <2>1, <2>3
  <2>. QED  BY <1>6, <1>8, <2>1, <2>2, <2>3
<1>10. \A r : r \in ToSet(Kept) <=> \E k \in 1 .. l : Kept[k] = r
  BY <1>3 DEF ToSet
<1>11. \A k \in 1 .. l : Kept[k] \in Record
  BY <1>3
<1>12. ASSUME NEW r \in Record
       PROVE  r \in ToSet(Kept) \cup ({record} \ {0})
  <2>1. r # 0
    BY DEF Record
  <2>2. ASSUME NEW k \in 1 .. n, w[k] = r
        PROVE  r \in ToSet(Kept)
    <3>1. k \in 1 .. l
      BY <1>2, <1>3
    <3>. QED  BY <1>3, <1>10, <2>2, <3>1
  <2>3. ASSUME NEW j \in Rest, mBuffer[j] = r
        PROVE  r \in ToSet(Kept)
    <3>. DEFINE k == n + (j - offset)
    <3>1. k \in n + 1 .. l /\ k \in 1 .. l /\ offset + (k - n) = j
      BY <1>2, <1>3 DEF Rest
    <3>. HIDE DEF k
    <3>. QED  BY <1>3, <1>10, <2>3, <3>1
  <2>4. r = record \/ (\E k \in 1 .. n : w[k] = r) \/ \E j \in Rest : mBuffer[j] = r
    BY <1>1, <1>2 DEF KeptInv, w
  <2>. QED  BY <2>1, <2>2, <2>3, <2>4
<1>13. record # 0 => record \in Record
  BY <1>1 DEF TypeInv, Record
<1>. QED  BY <1>9, <1>10, <1>11, <1>12, <1>13

(* The records of earlier calls behind one of the files are those of         *)
(* OrderInv, and none is behind one in the buffer.                           *)
LEMMA WriterInOrder == WriterInv => InOrder
<1>. SUFFICES ASSUME WriterInv, Healthy, NEW i \in DOMAIN Kept
              PROVE  /\ Overtaken(i) # {} => Size(Kept[i]) > BUFFER_CAPACITY
                     /\ Total([j \in Overtaken(i) |-> Size(Kept[j])]) <= BUFFER_CAPACITY
  BY DEF InOrder
<1>. DEFINE w == Written
            n == Len(Written)
            l == Len(Kept)
            R == PassedIn(Written, mBuffer, offset, i)
            O == Overtaken(i)
<1>1. TypeInv /\ PlacesInv /\ OrderInv /\ Busy
  BY DEF WriterInv, Healthy, Busy
<1>2. w \in Seq(Record) /\ n \in Nat /\ DOMAIN w = 1 .. n
  BY <1>1, WrittenIs
<1>3. /\ Kept \in Seq(Record) /\ l \in Nat /\ DOMAIN Kept = 1 .. l
      /\ Len(mBuffer) \in Nat /\ offset \in Nat /\ offset <= Len(mBuffer)
      /\ l = n + (Len(mBuffer) - offset)
      /\ \A k \in 1 .. n : Kept[k] = w[k]
      /\ \A k \in n + 1 .. l : Kept[k] = mBuffer[offset + (k - n)]
  BY <1>1, KeptIs DEF TypeInv
<1>4. IsInjective(Kept)
  BY WriterNothingLost DEF NothingLost
<1>5. Record = 1 .. Len(given) /\ Len(given) \in Nat /\ given \in Seq(Nat)
      /\ \A r \in Record : given[r] \in Nat
  BY <1>1, Sizes DEF Record
<1>6. i \in 1 .. l /\ \A k \in 1 .. l : Kept[k] \in Record
  BY <1>3
<1>7. \A j : j \in O <=> j \in i + 1 .. l /\ Kept[j] < Kept[i]
  BY DEF Overtaken
<1>8. BUFFER_CAPACITY \in Nat
  BY WriterAssumption
<1>. HIDE DEF w, n, l, R, O
<1>9. CASE i \in n + 1 .. l
  <2>1. O = {}
    <3>1. SUFFICES ASSUME NEW j \in i + 1 .. l
                   PROVE  ~(Kept[j] < Kept[i])
      BY <1>7
    <3>. DEFINE a == offset + (i - n)
                b == offset + (j - n)
    <3>2. a \in Rest /\ b \in Rest /\ a < b /\ j \in n + 1 .. l /\ j \in 1 .. l
      <4>1. /\ i \in Int /\ n + 1 <= i /\ i <= l /\ j \in Int /\ i < j /\ j <= l
            /\ n \in Nat /\ l \in Nat /\ offset \in Nat
        BY <1>2, <1>3, <1>9
      <4>2. a \in Int /\ b \in Int /\ offset < a /\ a < b
        BY <4>1
      <4>3. b <= Len(mBuffer) /\ Len(mBuffer) \in Nat
        BY <1>3, <4>1
      <4>4. j \in n + 1 .. l /\ j \in 1 .. l
        BY <4>1
      <4>. HIDE DEF a, b
      <4>5. a \in offset + 1 .. Len(mBuffer) /\ b \in offset + 1 .. Len(mBuffer)
        BY <4>1, <4>2, <4>3
      <4>. QED  BY <4>2, <4>4, <4>5 DEF Rest
    <3>. HIDE DEF a, b
    <3>3. mBuffer[a] < mBuffer[b]
      BY <1>1, <3>2 DEF PlacesInv, Ascending, Rest
    <3>4. Kept[i] = mBuffer[a] /\ Kept[j] = mBuffer[b]
      BY <1>3, <1>9, <3>2 DEF a, b
    <3>5. Kept[i] \in Nat /\ Kept[j] \in Nat
      BY <1>5, <1>6, <3>2
    <3>. QED  BY <3>3, <3>4, <3>5
  <2>2. DOMAIN [j \in O |-> Size(Kept[j])] = {}
    BY <2>1
  <2>3. Total([j \in O |-> Size(Kept[j])]) = 0
    BY <2>2, TotalOfNone
  <2>. QED  BY <1>8, <2>1, <2>3 DEF O
<1>10. CASE i \in 1 .. n
  <2>1. Kept[i] = w[i] /\ w[i] \in Record
    BY <1>2, <1>3, <1>10
  <2>2. /\ R # {} => given[w[i]] > BUFFER_CAPACITY
        /\ WeightIn(given, R) <= BUFFER_CAPACITY
    BY <1>1, <1>2, <1>10 DEF OrderInv, Healthy, R, w
  <2>3. ASSUME NEW j \in O
        PROVE  j \in 1 .. l /\ Kept[j] \in R
    <3>1. j \in i + 1 .. l /\ Kept[j] < Kept[i]
      BY <1>7
    <3>2. j \in 1 .. l /\ (j \in i + 1 .. n \/ j \in n + 1 .. l)
      BY <1>2, <1>3, <1>10, <3>1
    <3>3. Kept[j] \in 1 .. w[i] - 1
      BY <1>5, <1>6, <2>1, <3>1, <3>2
    <3>4. CASE j \in i + 1 .. n
      <4>1. j \in 1 .. n
        BY <1>2, <1>10, <3>4
      <4>2. Kept[j] = w[j] /\ n = Len(w)
        BY <1>3, <4>1 DEF n, w
      <4>. QED  BY <3>2, <3>3, <3>4, <4>2 DEF PassedIn, R, w
    <3>5. CASE j \in n + 1 .. l
      <4>1. offset + (j - n) \in offset + 1 .. Len(mBuffer)
        BY <1>2, <1>3, <3>5
      <4>. QED  BY <1>3, <3>2, <3>3, <3>5, <4>1 DEF PassedIn, R, w
    <3>. QED  BY <3>2, <3>4, <3>5
  <2>4. ASSUME NEW r \in R
        PROVE  \E j \in O : Kept[j] = r
    <3>1. /\ r \in 1 .. w[i] - 1
          /\ (\E k \in i + 1 .. n : w[k] = r) \/ \E j \in offset + 1 .. Len(mBuffer) : mBuffer[j] = r
      BY DEF PassedIn, R, w, n
    <3>2. r < Kept[i]
      BY <1>5, <2>1, <3>1
    <3>3. ASSUME NEW k \in i + 1 .. n, w[k] = r
          PROVE  \E j \in O : Kept[j] = r
      <4>1. k \in 1 .. n /\ k \in i + 1 .. l
        BY <1>2, <1>3, <1>10
      <4>. QED  BY <1>3, <1>7, <3>2, <3>3, <4>1
    <3>4. ASSUME NEW j \in offset + 1 .. Len(mBuffer), mBuffer[j] = r
          PROVE  \E k \in O : Kept[k] = r
      <4>. DEFINE k == n + (j - offset)
      <4>1. k \in n + 1 .. l /\ k \in i + 1 .. l /\ offset + (k - n) = j
        BY <1>2, <1>3, <1>10
      <4>. HIDE DEF k
      <4>2. Kept[k] = r
        BY <1>3, <3>4, <4>1
      <4>. QED  BY <1>7, <3>2, <4>1, <4>2
    <3>. QED  BY <3>1, <3>3, <3>4
  <2>5. O # {} => Size(Kept[i]) > BUFFER_CAPACITY
    BY <2>1, <2>2, <2>3 DEF Size
  <2>6. R \subseteq Record
    BY <1>5, <2>1 DEF PassedIn, R, w
  <2>7. O \subseteq 1 .. l /\ IsFiniteSet(O)
    <3>1. O \subseteq 1 .. l
      BY <2>3
    <3>2. IsFiniteSet(1 .. l)
      BY <1>3, FS_Interval
    <3>. QED  BY <3>1, <3>2, FS_Subset
  <2>. DEFINE f == [j \in O |-> given[Kept[j]]]
              g == [r \in R |-> given[r]]
              name == [j \in O |-> Kept[j]]
  <2>8. f \in [O -> Nat] /\ g \in [R -> Nat] /\ name \in [O -> R]
    BY <1>5, <1>6, <2>3, <2>6
  <2>9. Renames(name, f, g)
    <3>1. DOMAIN f = O /\ DOMAIN g = R
      OBVIOUS
    <3>2. \A j, k \in O : name[j] = name[k] => j = k
      BY <1>3, <1>4, <2>3 DEF IsInjective
    <3>3. \A r \in R : \E j \in O : name[j] = r
      BY <2>4
    <3>4. \A j \in O : g[name[j]] = f[j]
      BY <2>3
    <3>. HIDE DEF f, g, name
    <3>. QED  BY <2>8, <3>1, <3>2, <3>3, <3>4 DEF Renames
  <2>10. Total(g) = Total(f)
    <3>. HIDE DEF f, g, name
    <3>. QED  BY <2>7, <2>8, <2>9, TotalRenamed
  <2>11. Total([j \in O |-> Size(Kept[j])]) <= BUFFER_CAPACITY
    BY <2>2, <2>10 DEF Size, WeightIn
  <2>. QED  BY <2>5, <2>11 DEF O
<1>. QED  BY <1>2, <1>3, <1>6, <1>9, <1>10

(* The sizes.                                                                *)
LEMMA WriterSizesBounded == WriterInv => SizesBounded
<1>. SUFFICES ASSUME WriterInv
              PROVE  SizesBounded
  OBVIOUS
<1>1. \A s : SizeOf(s) = SizeIn(given, s)
  BY DEF SizeOf, Size, SizeIn
<1>. QED  BY <1>1 DEF WriterInv, BufferInv, FileSizesInv, CountedInv, SizesBounded, Last

(* The records on disk when flush() returns.                                 *)
LEMMA WriterDurable == WriterInv => Durable
<1>. SUFFICES ASSUME WriterInv, pc = "flushed", ~mError
              PROVE  ToSet(SubSeq(Written, 1, Len(Written) - unsynced)) = Record
  BY DEF Durable
<1>1. TypeInv /\ Healthy /\ unsynced = 0 /\ record = 0 /\ mBuffer = <<>>
  BY DEF WriterInv, ControlInv, Healthy
<1>2. Written \in Seq(Record) /\ Len(Written) \in Nat /\ DOMAIN Written = 1 .. Len(Written)
  BY <1>1, WrittenIs
<1>3. SubSeq(Written, 1, Len(Written) - unsynced) = Written
  BY <1>1, <1>2
<1>4. Rest = {} /\ \A r \in Record : r # record
  BY <1>1 DEF Rest, TypeInv, Record
<1>5. \A r \in Record : \E k \in DOMAIN Written : Written[k] = r
  BY <1>1, <1>4 DEF WriterInv, KeptInv
<1>6. \A k \in DOMAIN Written : Written[k] \in Record
  BY <1>2
<1>7. ToSet(Written) = Record
  BY <1>5, <1>6 DEF ToSet
<1>. QED  BY <1>3, <1>7
-----------------------------------------------------------------------------
(***************************************************************************)
(* The reader.  Where a pass is says how much it has behind it.            *)
(***************************************************************************)
\* The places a pass has behind it when it is at the n-th record of file f.
Behind(f, n) == Ahead(Bodies, <<f, n>>)

(* A pass that starts has nothing behind it.                                 *)
LEMMA BehindStart ==
    ASSUME NEW S, NEW rows \in Seq(Seq(S))
    PROVE  Cardinality(Ahead(rows, <<1, 1>>)) = 0
<1>1. \A p \in Places(rows) : ~Before(p, <<1, 1>>)
  <2>1. ASSUME NEW p \in Places(rows)
        PROVE  ~Before(p, <<1, 1>>)
    <3>1. p[1] \in 1 .. Len(rows) /\ p[2] \in 1 .. Len(rows[p[1]])
      BY PlacesAre
    <3>2. p[1] >= 1 /\ p[2] >= 1 /\ p[1] \in Int /\ p[2] \in Int
      BY <3>1
    <3>. QED  BY <3>2 DEF Before
  <2>. QED  BY <2>1
<1>2. Ahead(rows, <<1, 1>>) = {}
  BY <1>1 DEF Ahead
<1>. QED  BY <1>2, FS_EmptySet

(* At a record: it is the next one of all, and one more is behind the pass   *)
(* afterwards.                                                               *)
LEMMA BehindGrows ==
    ASSUME NEW S, NEW rows \in Seq(Seq(S)),
           NEW f \in 1 .. Len(rows), NEW n \in 1 .. Len(rows[f])
    PROVE  LET c == Cardinality(Ahead(rows, <<f, n>>))
           IN  /\ c \in Nat /\ c + 1 <= Len(Joined(rows))
               /\ Joined(rows)[c + 1] = rows[f][n]
               /\ Cardinality(Ahead(rows, <<f, n + 1>>)) = c + 1
<1>. DEFINE p == <<f, n>>
            A == Ahead(rows, p)
            c == Cardinality(A)
            t == Cardinality(Places(rows))
<1>1. f \in Int /\ n \in Int
  OBVIOUS
<1>2. p \in Places(rows) /\ At(rows, p) = rows[f][n]
  BY PlacesAre DEF At
<1>3. c \in 0 .. t - 1
  BY <1>2, AheadAscends
<1>4. IsFiniteSet(Places(rows)) /\ t \in Nat
  BY PlacesFinite
<1>5. Len(Joined(rows)) = t /\ Joined(rows)[c + 1] = At(rows, p)
  BY <1>2, JoinedHolds
<1>6. \A q \in Places(rows) : q[1] \in Int /\ q[2] \in Int /\ q = <<q[1], q[2]>>
  <2>1. \A q \in Places(rows) : q[1] \in 1 .. Len(rows) /\ q[2] \in 1 .. Len(rows[q[1]])
    BY PlacesAre
  <2>. QED  BY <2>1, PlacesAre
<1>7. \A q \in Places(rows) : Before(q, <<f, n + 1>>) <=> Before(q, p) \/ q = p
  <2>1. ASSUME NEW q \in Places(rows)
        PROVE  Before(q, <<f, n + 1>>) <=> Before(q, p) \/ q = p
    <3>1. q = p <=> q[1] = f /\ q[2] = n
      BY <1>6
    <3>2. q[2] < n + 1 <=> q[2] < n \/ q[2] = n
      BY <1>1, <1>6
    <3>. QED  BY <3>1, <3>2 DEF Before
  <2>. QED  BY <2>1
<1>. HIDE DEF p
<1>8. Ahead(rows, <<f, n + 1>>) = A \cup {p}
  BY <1>2, <1>7 DEF Ahead
<1>9. p \notin A
  BY <1>1 DEF Ahead, Before, p
<1>10. IsFiniteSet(A)
  <2>1. A \subseteq Places(rows)
    BY DEF Ahead
  <2>. QED  BY <1>4, <2>1, FS_Subset
<1>11. Cardinality(A \cup {p}) = c + 1
  BY <1>9, <1>10, FS_AddElement
<1>. HIDE DEF A, c, t
<1>12. c \in Nat /\ c + 1 <= t
  BY <1>3, <1>4
<1>. QED  BY <1>2, <1>5, <1>8, <1>11, <1>12 DEF c, A, p

(* Behind the last record of a file a pass is in front of the next one, or   *)
(* has everything behind it.                                                 *)
LEMMA BehindFile ==
    ASSUME NEW S, NEW rows \in Seq(Seq(S)), NEW f \in 1 .. Len(rows)
    PROVE  LET c == Cardinality(Ahead(rows, <<f, Len(rows[f]) + 1>>))
           IN  /\ f < Len(rows) => Cardinality(Ahead(rows, <<f + 1, 1>>)) = c
               /\ f = Len(rows) => Len(Joined(rows)) = c
<1>. DEFINE n == Len(rows[f]) + 1
<1>1. \A q \in Places(rows) : q[1] \in 1 .. Len(rows) /\ q[2] \in 1 .. Len(rows[q[1]])
  BY PlacesAre
<1>2. ASSUME NEW q \in Places(rows)
      PROVE  /\ Before(q, <<f, n>>) <=> q[1] <= f
             /\ Before(q, <<f + 1, 1>>) <=> q[1] <= f
             /\ q[1] <= Len(rows)
  <2>1. rows[f] \in Seq(S) /\ Len(rows[f]) \in Nat /\ f \in Int /\ Len(rows) \in Nat
    OBVIOUS
  <2>2. q[1] \in Int /\ q[1] <= Len(rows)
    BY <1>1, <2>1
  <2>3. q[2] \in Int /\ q[2] >= 1
    BY <1>1
  <2>4. q[1] = f => q[2] < n
    BY <1>1, <2>1
  <2>5. Before(q, <<f, n>>) <=> q[1] < f \/ (q[1] = f /\ q[2] < n)
    BY DEF Before
  <2>6. Before(q, <<f + 1, 1>>) <=> q[1] < f + 1 \/ (q[1] = f + 1 /\ q[2] < 1)
    BY DEF Before
  <2>. HIDE DEF n
  <2>7. Before(q, <<f, n>>) <=> q[1] <= f
    BY <2>1, <2>2, <2>4, <2>5
  <2>8. Before(q, <<f + 1, 1>>) <=> q[1] <= f
    BY <2>1, <2>2, <2>3, <2>6
  <2>. QED  BY <2>2, <2>7, <2>8
<1>3. Ahead(rows, <<f, n>>) = Ahead(rows, <<f + 1, 1>>)
  BY <1>2 DEF Ahead
<1>4. f = Len(rows) => Ahead(rows, <<f, n>>) = Places(rows)
  BY <1>2 DEF Ahead
<1>5. Len(Joined(rows)) = Cardinality(Places(rows))
  BY JoinedHolds
<1>. QED  BY <1>3, <1>4, <1>5

(* A file as a whole, which is what the first pass has behind it.            *)
LEMMA BehindWhole ==
    ASSUME NEW S, NEW rows \in Seq(Seq(S)), NEW f \in 1 .. Len(rows)
    PROVE  LET c == Cardinality(Ahead(rows, <<f, 1>>))
           IN  /\ c \in Nat
               /\ Cardinality(Ahead(rows, <<f, Len(rows[f]) + 1>>)) = c + Len(rows[f])
<1>. DEFINE n == Len(rows[f])
            A == Ahead(rows, <<f, 1>>)
            B == {f} \X (1 .. n)
<1>1. rows[f] \in Seq(S) /\ n \in Nat /\ f \in Int
  OBVIOUS
<1>2. \A q \in Places(rows) : /\ q = <<q[1], q[2]>> /\ q[1] \in 1 .. Len(rows)
                              /\ q[2] \in 1 .. Len(rows[q[1]])
  BY PlacesAre
<1>3. B \subseteq Places(rows)
  BY PlacesAre
<1>4. ASSUME NEW q \in Places(rows)
      PROVE  Before(q, <<f, n + 1>>) <=> Before(q, <<f, 1>>) \/ q \in B
  <2>1. q[1] \in Int /\ q[2] \in Int /\ q[2] >= 1 /\ q = <<q[1], q[2]>>
    BY <1>2
  <2>2. q \in B <=> q[1] = f /\ q[2] \in 1 .. n
    BY <2>1
  <2>3. q[1] = f => q[2] \in 1 .. n
    BY <1>2
  <2>4. Before(q, <<f, n + 1>>) <=> q[1] < f \/ (q[1] = f /\ q[2] < n + 1)
    BY DEF Before
  <2>5. Before(q, <<f, 1>>) <=> q[1] < f \/ (q[1] = f /\ q[2] < 1)
    BY DEF Before
  <2>. HIDE DEF B, n
  <2>. QED  BY <1>1, <2>1, <2>2, <2>3, <2>4, <2>5
<1>5. Ahead(rows, <<f, n + 1>>) = A \cup B
  BY <1>3, <1>4 DEF Ahead
<1>6. A \cap B = {}
  <2>1. \A q \in B : ~Before(q, <<f, 1>>)
    BY <1>1 DEF Before
  <2>. QED  BY <2>1 DEF Ahead
<1>7. IsFiniteSet(A) /\ Cardinality(A) \in Nat
  <2>1. A \subseteq Places(rows) /\ IsFiniteSet(Places(rows))
    BY PlacesFinite DEF Ahead
  <2>. QED  BY <2>1, FS_Subset, FS_CardinalityType
<1>8. IsFiniteSet(B) /\ Cardinality(B) = n
  <2>. HIDE DEF n
  <2>. QED  BY <1>1, UnitsOfOne
<1>9. Cardinality(A \cup B) = Cardinality(A) + n - 0
  <2>. HIDE DEF A, B, n
  <2>1. Cardinality(A \cap B) = 0
    BY <1>6, FS_EmptySet
  <2>2. Cardinality(A \cup B) = Cardinality(A) + Cardinality(B) - Cardinality(A \cap B)
    BY <1>7, <1>8, FS_Union
  <2>. QED  BY <1>8, <2>1, <2>2
<1>10. Cardinality(A) + n - 0 = Cardinality(A) + n
  <2>. HIDE DEF n, A
  <2>. QED  BY <1>1, <1>7
<1>. QED  BY <1>5, <1>7, <1>9, <1>10

ReaderTypeInv ==
    /\ reading \in {"no", "count", "print", "prompt", "done"}
    /\ clean \in BOOLEAN /\ quit \in BOOLEAN
    /\ tail \in {"whole", "size", "edges"}
    /\ pageSize \in Nat /\ totalCuts \in Nat /\ pageStart \in Nat
    /\ file \in Nat \ {0} /\ next \in Nat \ {0}
    /\ printed \in Seq(Nat)
    /\ reading = "no" <=> pc # "gone"
    /\ reading = "no" => file = 1 /\ totalCuts = 0 /\ ~clean
    /\ reading \in {"no", "count"} => next = 1 /\ printed = <<>> /\ pageStart = 0
    /\ reading \in {"count", "print", "prompt"} => file \in 1 .. Len(files)
    /\ reading \in {"print", "prompt"} => next <= Len(files[file].body) + 1
    /\ reading = "done" /\ files = <<>> => printed = <<>> /\ totalCuts = 0
    /\ tail # "whole" /\ reading # "no" => files # <<>>

\* A flush without an error is one after which everything is in the files.
CleanInv ==
    clean => /\ tail = "whole"
             /\ \A r \in Record : \E k \in DOMAIN Written : Written[k] = r

\* The first pass has counted what it has behind it.
CountingInv ==
    /\ reading = "count" => totalCuts = Cardinality(Behind(file, 1))
    /\ reading \in {"print", "prompt", "done"} =>
          totalCuts = Len(Written) + (IF tail = "edges" THEN 1 ELSE 0)

\* The second one has printed what it has behind it.
PrintingInv ==
    reading # "no" =>
        /\ Len(printed) <= Len(Written)
        /\ \A k \in 1 .. Len(printed) : printed[k] = Written[k]
        /\ reading \in {"print", "prompt"} => Len(printed) = Cardinality(Behind(file, next))
        /\ reading = "done" /\ ~quit => Len(printed) = Len(Written)

ReaderInv == WriterInv /\ ReaderTypeInv /\ CleanInv /\ CountingInv /\ PrintingInv /\ PagesFull

\* Sequences in place of others of which they are the beginnings.
CutOff(others, rows) ==
    /\ Len(others) = Len(rows)
    /\ \A i \in 1 .. Len(rows) :
          /\ Len(others[i]) <= Len(rows[i])
          /\ \A j \in 1 .. Len(others[i]) : others[i][j] = rows[i][j]

(* Without the ends of the rows there is no repetition that was not there.   *)
LEMMA JoinedCutOff ==
    ASSUME NEW S, NEW rows \in Seq(Seq(S)), NEW others \in Seq(Seq(S)),
           CutOff(others, rows), IsInjective(Joined(rows))
    PROVE  IsInjective(Joined(others))
<1>1. \A p \in Places(others) : p \in Places(rows) /\ At(others, p) = At(rows, p)
  <2>1. ASSUME NEW p \in Places(others)
        PROVE  p \in Places(rows) /\ At(others, p) = At(rows, p)
    <3>1. /\ p = <<p[1], p[2]>> /\ p[1] \in 1 .. Len(others)
          /\ p[2] \in 1 .. Len(others[p[1]])
      BY PlacesAre
    <3>2. p[1] \in 1 .. Len(rows) /\ others[p[1]][p[2]] = rows[p[1]][p[2]]
      BY <3>1 DEF CutOff
    <3>3. Len(others[p[1]]) <= Len(rows[p[1]])
      BY <3>2 DEF CutOff
    <3>4. rows[p[1]] \in Seq(S) /\ others[p[1]] \in Seq(S)
      BY <3>1, <3>2
    <3>5. p[2] \in 1 .. Len(rows[p[1]])
      BY <3>1, <3>3, <3>4
    <3>6. <<p[1], p[2]>> \in Places(rows)
      BY <3>2, <3>5, PlacesAre
    <3>. QED  BY <3>1, <3>2, <3>6 DEF At
  <2>. QED  BY <2>1
<1>2. \A p, q \in Places(rows) : At(rows, p) = At(rows, q) => p = q
  BY JoinedInjective
<1>3. \A p, q \in Places(others) : At(others, p) = At(others, q) => p = q
  BY <1>1, <1>2
<1>. QED  BY <1>3, JoinedInjective

(* No step of the writer's is its end.                                       *)
LEMMA WriterLives ==
    TypeInv /\ ControlInv /\ Next => pc # "gone" /\ pc' # "gone"
<1>. SUFFICES ASSUME TypeInv, ControlInv, Next
              PROVE  pc # "gone" /\ pc' # "gone"
  OBVIOUS
<1>1. after # "gone"
  BY DEF TypeInv
<1>2. ASSUME NEW size \in RecordSize, WriteCut(size)
      PROVE  pc # "gone" /\ pc' # "gone"
  BY <1>2 DEF WriteCut
<1>. QED  BY <1>1, <1>2 DEF Next, AppendRecord, Flush, FlushNothing, FlushRecord, FlushEnds, Fflush,
        FlushReturns, Place, OpenNewFile, OpenFails, HeaderFails, WriteRecord, WriteFails, Abandon

(* What the end of the process leaves of the files.                          *)
LEMMA FilesLeft ==
    ASSUME TypeInv, ControlInv, NEW n \in 0 .. unsynced, NEW end, Stop(n, end)
    PROVE  /\ files' \in Seq(File) /\ Len(files') = Len(files) /\ Len(files) \in Nat
           /\ \A i \in 1 .. Len(files) :
                 \/ files'[i].body = files[i].body
                 \/ /\ files[i].body \in Seq(Record)
                    /\ \E l \in 0 .. Len(files[i].body) :
                          l < Len(files[i].body) /\ files'[i].body = SubSeq(files[i].body, 1, l)
           /\ n = 0 => files' = files
<1>. DEFINE k == Len(files)
<1>1. files \in Seq(File) /\ k \in Nat /\ unsynced \in Nat
  BY DEF TypeInv
<1>2. CASE n = 0
  <2>1. files' = files
    BY <1>2 DEF Stop
  <2>. QED  BY <1>1, <2>1
<1>3. CASE n # 0
  <2>1. unsynced # 0
    BY <1>1, <1>3
  <2>2. files # <<>> /\ unsynced <= Len(files[k].body)
    BY <2>1 DEF ControlInv
  <2>3. k \in 1 .. k /\ files[k] \in File
    BY <1>1, <2>2
  <2>. DEFINE b == files[k].body
              l == Len(b) - n
              last == [files[k] EXCEPT !.body = SubSeq(@, 1, Len(@) - n)]
  <2>4. b \in Seq(Record) /\ Len(b) \in Nat
    BY <2>3 DEF File
  <2>5. l \in 0 .. Len(b) /\ l < Len(b)
    BY <1>1, <1>3, <2>2, <2>4
  <2>6. SubSeq(b, 1, l) \in Seq(Record)
    <3>. HIDE DEF l, b
    <3>. QED  BY <2>4, <2>5
  <2>7. last \in File /\ last.body = SubSeq(b, 1, l)
    BY <2>3, <2>6 DEF File
  <2>8. files' = [files EXCEPT ![k] = last]
    BY <1>3, <2>3 DEF Stop, File
  <2>. HIDE DEF last, l
  <2>9. files' \in Seq(File) /\ Len(files') = k
    <3>1. files \in [1 .. k -> File]
      BY <1>1
    <3>2. files' \in [1 .. k -> File]
      BY <2>7, <2>8, <3>1
    <3>. HIDE DEF k
    <3>. QED  BY <1>1, <3>2
  <2>10. \A i \in 1 .. k : i # k => files'[i] = files[i]
    BY <1>1, <2>8
  <2>11. files'[k].body = SubSeq(b, 1, l)
    BY <1>1, <2>3, <2>7, <2>8
  <2>. QED  BY <1>1, <1>3, <2>4, <2>5, <2>9, <2>10, <2>11
<1>. QED  BY <1>2, <1>3

(* The end of the writer's process: what is in the files is still in them    *)
(* once, and after a flush without an error it is everything.                *)
LEMMA StopStep ==
    ASSUME WriterInv, NEW n \in 0 .. unsynced, NEW end \in {"whole", "size", "edges"}, Stop(n, end)
    PROVE  WriterInv' /\ CleanInv'
<1>1. /\ TypeInv /\ ControlInv /\ PlacesInv /\ KeptInv /\ FileSizesInv /\ CountedInv
      /\ given' = given /\ pc' = "gone" /\ after' = "idle" /\ record' = 0 /\ mBuffer' = <<>>
      /\ offset' = 0 /\ unsynced' = 0 /\ mCurrentFileSize' = 0 /\ mBytesWritten' = 0
      /\ mError' = FALSE
      /\ Record' = Record /\ File' = File
  BY DEF WriterInv, Stop, Record, File
<1>2. /\ files' \in Seq(File) /\ Len(files') = Len(files) /\ Len(files) \in Nat
      /\ \A i \in 1 .. Len(files) :
            \/ files'[i].body = files[i].body
            \/ /\ files[i].body \in Seq(Record)
               /\ \E l \in 0 .. Len(files[i].body) :
                     l < Len(files[i].body) /\ files'[i].body = SubSeq(files[i].body, 1, l)
      /\ n = 0 => files' = files
  BY <1>1, FilesLeft
<1>3. /\ DOMAIN files = 1 .. Len(files) /\ DOMAIN files' = 1 .. Len(files)
      /\ \A i \in 1 .. Len(files) : files[i].body \in Seq(Record) /\ files'[i].body \in Seq(Record)
  <2>1. DOMAIN files = 1 .. Len(files) /\ DOMAIN files' = 1 .. Len(files)
    BY <1>1, <1>2 DEF TypeInv
  <2>2. \A i \in 1 .. Len(files) : files[i] \in File /\ files'[i] \in File
    BY <1>1, <1>2, <2>1 DEF TypeInv
  <2>. QED  BY <2>1, <2>2 DEF File
<1>4. TypeInv'
  <2>1. <<>> \in Seq(Record) /\ Len(<<>>) = 0
    OBVIOUS
  <2>2. offset' \in 0 .. Len(mBuffer') /\ mBuffer' \in Seq(Record)
    BY <1>1, <2>1
  <2>3. record' \in {0, Len(given')} /\ given' \in Seq(RecordSize)
    BY <1>1 DEF TypeInv
  <2>. QED  BY <1>1, <1>2, <2>2, <2>3 DEF TypeInv
<1>5. ControlInv'
  BY <1>1 DEF ControlInv, Busy
<1>6. PlacesInv'
  <2>. DEFINE b == Bodies
              d == Bodies'
  <2>1. /\ b \in Seq(Seq(Record)) /\ Len(b) = Len(files)
        /\ \A i \in 1 .. Len(files) : b[i] = files[i].body
    BY <1>1, WrittenIs
  <2>2. /\ d \in Seq(Seq(Record)) /\ Len(d) = Len(files)
        /\ \A i \in 1 .. Len(files) : d[i] = files'[i].body
    <3>1. d \in [1 .. Len(files) -> Seq(Record)]
      BY <1>3 DEF Bodies
    <3>2. \A i \in 1 .. Len(files) : d[i] = files'[i].body
      BY <1>3 DEF Bodies
    <3>. HIDE DEF d
    <3>. QED  BY <1>2, <3>1, <3>2
  <2>. HIDE DEF b, d
  <2>3. CutOff(d, b)
    <3>1. ASSUME NEW i \in 1 .. Len(files)
          PROVE  Len(d[i]) <= Len(b[i]) /\ \A j \in 1 .. Len(d[i]) : d[i][j] = b[i][j]
      <4>1. b[i] \in Seq(Record) /\ Len(b[i]) \in Nat
        BY <2>1
      <4>2. CASE d[i] = b[i]
        BY <4>1, <4>2
      <4>3. ASSUME NEW l \in 0 .. Len(b[i]), d[i] = SubSeq(b[i], 1, l)
            PROVE  Len(d[i]) <= Len(b[i]) /\ \A j \in 1 .. Len(d[i]) : d[i][j] = b[i][j]
        <5>. DEFINE s == b[i]
        <5>1. s \in Seq(Record) /\ l \in 0 .. Len(s) /\ Len(s) \in Nat /\ d[i] = SubSeq(s, 1, l)
          BY <4>1, <4>3
        <5>. HIDE DEF s
        <5>2. Len(d[i]) = l /\ \A j \in 1 .. l : d[i][j] = s[j]
          BY <5>1
        <5>3. l <= Len(s)
          BY <5>1
        <5>. QED  BY <5>2, <5>3 DEF s
      <4>. QED  BY <1>2, <2>1, <2>2, <4>2, <4>3
    <3>. QED  BY <2>1, <2>2, <3>1 DEF CutOff
  <2>4. IsInjective(Joined(b))
    BY <1>1 DEF PlacesInv, Written, b
  <2>5. IsInjective(Joined(d))
    BY <2>1, <2>2, <2>3, <2>4, JoinedCutOff
  <2>6. IsInjective(Written')
    BY <2>5 DEF Written, d
  <2>7. Rest' = {}
    BY <1>1 DEF Rest
  <2>8. Ascending(mBuffer', offset')
    BY <1>1 DEF Ascending
  <2>. QED  BY <1>1, <2>6, <2>7, <2>8 DEF PlacesInv
<1>7. KeptInv' /\ OrderInv' /\ CountedInv'
  BY <1>1 DEF KeptInv, OrderInv, CountedInv, Healthy
<1>8. FileSizesInv'
  <2>1. ASSUME NEW i \in 1 .. Len(files)
        PROVE  \/ HeaderSize + SizeIn(given, files'[i].body) <= MAX_FILE_SIZE
               \/ Len(files'[i].body) = 1
    <3>. DEFINE s == files[i].body
                u == files'[i].body
    <3>1. given \in Seq(Nat) /\ s \in Seq(1 .. Len(given)) /\ Len(s) \in Nat
      BY <1>1, <1>3, Sizes DEF Record
    <3>2. HeaderSize \in Nat /\ MAX_FILE_SIZE \in Nat /\ HeaderSize <= MAX_FILE_SIZE
      BY WriterAssumption
    <3>3. HeaderSize + SizeIn(given, s) <= MAX_FILE_SIZE \/ Len(s) = 1
      BY <1>1, <1>3 DEF FileSizesInv
    <3>4. CASE u = s
      BY <3>3, <3>4
    <3>5. ASSUME NEW l \in 0 .. Len(s), l < Len(s), u = SubSeq(s, 1, l)
          PROVE  HeaderSize + SizeIn(given, u) <= MAX_FILE_SIZE
      <4>. HIDE DEF s, u
      <4>1. CASE Len(s) = 1
        <5>1. u = <<>>
          BY <3>1, <3>5, <4>1
        <5>. QED  BY <3>2, <5>1, SizeInEmpty
      <4>2. CASE Len(s) # 1
        <5>. DEFINE x == SizeIn(given, s)
                    y == SizeIn(given, u)
        <5>1. y <= x
          BY <3>1, <3>5, SizeInPrefix
        <5>2. x \in Nat /\ y \in Nat
          <6>1. s \in Seq(Record) /\ u \in Seq(Record)
            BY <1>3 DEF s, u
          <6>. QED  BY <1>1, <6>1, SizesAre
        <5>3. HeaderSize + x <= MAX_FILE_SIZE
          BY <3>3, <4>2
        <5>. HIDE DEF x, y
        <5>4. HeaderSize + y <= MAX_FILE_SIZE
          BY <3>2, <5>1, <5>2, <5>3
        <5>. QED  BY <5>4 DEF y
      <4>. QED  BY <4>1, <4>2
    <3>. QED  BY <1>2, <3>4, <3>5
  <2>. QED  BY <1>1, <1>3, <2>1 DEF FileSizesInv
<1>9. BufferInv'
  BY <1>1, SizeInEmpty, WriterAssumption DEF BufferInv
<1>10. CleanInv'
  <2>1. clean' = (pc = "flushed" /\ ~mError) /\ tail' = end
    BY DEF Stop
  <2>2. SUFFICES ASSUME pc = "flushed", ~mError
                 PROVE  /\ end = "whole"
                        /\ \A r \in Record : \E k \in DOMAIN Written' : Written'[k] = r
    BY <1>1, <2>1 DEF CleanInv
  <2>3. n = 0 /\ record = 0 /\ mBuffer = <<>> /\ Healthy
    BY <1>1, <2>2 DEF ControlInv, Healthy
  <2>4. files' = files /\ Bodies' = Bodies /\ Written' = Written
    BY <1>2, <2>3 DEF Bodies, Written
  <2>5. Rest = {} /\ \A r \in Record : r # record
    BY <1>1, <2>3 DEF Rest, TypeInv, Record
  <2>6. \A r \in Record : \E k \in DOMAIN Written : Written[k] = r
    BY <1>1, <2>3, <2>5 DEF KeptInv
  <2>7. end = "whole"
    <3>1. files # <<>> => ~Last(files).torn
      <4>1. files # <<>> => Len(files) \in DOMAIN files
        BY <1>1 DEF TypeInv
      <4>. QED  BY <1>1, <2>3, <4>1 DEF CountedInv, Last
    <3>. QED  BY <2>3, <3>1 DEF Stop
  <2>. QED  BY <2>4, <2>6, <2>7
<1>. QED  BY <1>4, <1>5, <1>6, <1>7, <1>8, <1>9, <1>10 DEF WriterInv

(* A page that begins where one ended begins at a multiple of its length.    *)
LEMMA NextMultiple ==
    ASSUME NEW a \in Nat, NEW b \in Nat \ {0}, a % b = 0
    PROVE  (a + b) % b = 0
<1>. DEFINE q == a \div b
<1>1. a = b * q /\ q \in Int
  OBVIOUS
<1>. HIDE DEF q
<1>2. a + b = b * (q + 1) + 0 /\ q + 1 \in Int /\ 0 \in 0 .. b - 1 /\ a + b \in Nat
  BY <1>1
<1>. DEFINE d == q + 1
            s == a + b
<1>. HIDE DEF d, s
<1>3. \A r \in 0 .. b - 1 : d \in Int /\ s \in Nat /\ s = b * d + r => s % b = r
  OBVIOUS
<1>. QED  BY <1>2, <1>3 DEF d, s

(* The reader's initial states.                                              *)
LEMMA ReaderInvInit == ReaderInit => ReaderInv
<1>. SUFFICES ASSUME ReaderInit
              PROVE  ReaderInv
  OBVIOUS
<1>1. WriterInv
  BY WriterInvInit DEF ReaderInit
<1>2. ReaderTypeInv
  <2>1. <<>> \in Seq(Nat) /\ 1 \in Nat \ {0} /\ 0 \in Nat
    OBVIOUS
  <2>2. /\ reading = "no" /\ clean = FALSE /\ tail = "whole" /\ pageSize = 0 /\ file = 1
        /\ totalCuts = 0 /\ next = 1 /\ printed = <<>> /\ pageStart = 0 /\ quit = FALSE
        /\ pc = "open"
    BY DEF ReaderInit, Init
  <2>. QED  BY <2>1, <2>2 DEF ReaderTypeInv
<1>3. CleanInv /\ CountingInv /\ PrintingInv
  BY DEF ReaderInit, CleanInv, CountingInv, PrintingInv
<1>4. PagesFull
  BY DEF ReaderInit, PagesFull
<1>. QED  BY <1>1, <1>2, <1>3, <1>4 DEF ReaderInv

(* The start of the reader over what the writer has left.                    *)
LEMMA StartStep ==
    ASSUME ReaderInv, StartReading
    PROVE  ReaderInv'
<1>1. PICK n \in 0 .. unsynced, end \in {"whole", "size", "edges"} : Stop(n, end)
  BY DEF StartReading
<1>2. WriterInv' /\ CleanInv'
  BY <1>1, StopStep DEF ReaderInv
<1>3. /\ reading = "no" /\ pc' = "gone" /\ tail' = end /\ clean' \in BOOLEAN
      /\ end # "whole" => files # <<>>
      /\ reading' = IF files = <<>> THEN "done" ELSE "count"
      /\ pageSize' \in Nat
      /\ UNCHANGED <<file, totalCuts, next, printed, pageStart, quit>>
  BY <1>1, ReaderAssumption DEF StartReading, Stop, pass
<1>4. /\ file = 1 /\ totalCuts = 0 /\ next = 1 /\ printed = <<>> /\ pageStart = 0 /\ quit \in BOOLEAN
  BY <1>3 DEF ReaderInv, ReaderTypeInv
<1>5. Len(files') = Len(files) /\ Len(files) \in Nat /\ (files' = <<>> <=> files = <<>>)
      /\ files' \in Seq(File)
  <2>1. Len(files') = Len(files) /\ files' \in Seq(File) /\ files \in Seq(File)
    BY <1>1, FilesLeft DEF ReaderInv, WriterInv, TypeInv
  <2>. QED  BY <2>1
<1>6. ReaderTypeInv'
  <2>1. files # <<>> => 1 \in 1 .. Len(files)
    BY <1>5
  <2>2. <<>> \in Seq(Nat)
    OBVIOUS
  <2>. QED  BY <1>3, <1>4, <1>5, <2>1, <2>2 DEF ReaderTypeInv
<1>7. Joined(Bodies') \in Seq(Record') /\ Bodies' \in Seq(Seq(Record'))
      /\ Len(Bodies') = Len(files')
  <2>. DEFINE d == Bodies'
              R == Record'
  <2>6. files' \in Seq(File')
    BY <1>2 DEF WriterInv, TypeInv
  <2>7. \A i \in 1 .. Len(files') : files'[i] \in File'
    BY <2>6
  <2>1. \A i \in 1 .. Len(files') : files'[i] \in [header : BOOLEAN, body : Seq(R), torn : BOOLEAN]
    BY <2>7 DEF File
  <2>2. DOMAIN files' = 1 .. Len(files') /\ Len(files') \in Nat
    BY <1>5
  <2>3. d \in [1 .. Len(files') -> Seq(R)]
    BY <2>1, <2>2 DEF Bodies
  <2>. HIDE DEF d, R
  <2>4. d \in Seq(Seq(R)) /\ Len(d) = Len(files')
    BY <2>2, <2>3
  <2>5. Joined(d) \in Seq(R)
    BY <2>4, JoinedHolds
  <2>. QED  BY <2>4, <2>5 DEF d, R
<1>8. CountingInv' /\ PrintingInv'
  <2>1. Cardinality(Ahead(Bodies', <<1, 1>>)) = 0
    BY <1>7, BehindStart
  <2>2. Len(Written') \in Nat /\ Len(printed') = 0 /\ \A k \in 1 .. Len(printed') : FALSE
    BY <1>3, <1>4, <1>7 DEF Written
  <2>3. CASE files # <<>>
    BY <1>3, <1>4, <2>1, <2>2, <2>3 DEF CountingInv, PrintingInv, Behind
  <2>4. CASE files = <<>>
    <3>1. Bodies' = <<>>
      BY <1>5, <1>7, <2>4
    <3>2. Places(<<>>) = {}
      BY DEF Places
    <3>3. Joined(<<>>) = <<>>
      BY <3>2, FS_EmptySet DEF Joined
    <3>4. Len(Written') = 0 /\ tail' = "whole"
      BY <1>3, <2>4, <3>1, <3>3 DEF Written
    <3>. QED  BY <1>3, <1>4, <2>2, <2>4, <3>4 DEF CountingInv, PrintingInv
  <2>. QED  BY <2>3, <2>4
<1>9. PagesFull'
  <2>3. \A m \in Nat \ {0} : 0 % m = 0
    OBVIOUS
  <2>1. pageSize' # 0 => 0 % pageSize' = 0
    BY <1>3, <2>3
  <2>2. pageStart' = 0 /\ reading' \notin {"prompt", "print"}
    BY <1>3, <1>4
  <2>. QED  BY <2>1, <2>2 DEF PagesFull
<1>. QED  BY <1>2, <1>6, <1>8, <1>9 DEF ReaderInv

(* Where a pass is, in terms of what has been written.                       *)
LEMMA PassIs ==
    ASSUME ReaderInv, NEW f \in 1 .. Len(files)
    PROVE  LET body == files[f].body
               c(n) == Cardinality(Behind(f, n))
           IN  /\ Len(files) \in Nat /\ Len(body) \in Nat
               /\ Len(Written) \in Nat
               /\ Cardinality(Behind(1, 1)) = 0
               /\ c(1) \in Nat /\ c(Len(body) + 1) = c(1) + Len(body)
               /\ f < Len(files) => Cardinality(Behind(f + 1, 1)) = c(Len(body) + 1)
               /\ f = Len(files) => Len(Written) = c(Len(body) + 1)
               /\ \A n \in 1 .. Len(body) :
                     /\ c(n) \in Nat /\ c(n) + 1 <= Len(Written)
                     /\ Written[c(n) + 1] = body[n]
                     /\ c(n + 1) = c(n) + 1
<1>. DEFINE b == Bodies
<1>1. /\ b \in Seq(Seq(Record)) /\ Len(b) = Len(files)
      /\ \A i \in 1 .. Len(files) : b[i] = files[i].body
      /\ Written \in Seq(Record)
  BY WrittenIs DEF ReaderInv, WriterInv
<1>2. Len(files) \in Nat /\ b[f] \in Seq(Record) /\ Len(b[f]) \in Nat /\ Len(Written) \in Nat
  BY <1>1
<1>3. Written = Joined(b) /\ \A i, j : Behind(i, j) = Ahead(b, <<i, j>>)
  BY DEF Written, Behind
<1>. HIDE DEF b
<1>4. Cardinality(Ahead(b, <<1, 1>>)) = 0
  BY <1>1, BehindStart
<1>5. /\ Cardinality(Ahead(b, <<f, 1>>)) \in Nat
      /\ Cardinality(Ahead(b, <<f, Len(b[f]) + 1>>)) = Cardinality(Ahead(b, <<f, 1>>)) + Len(b[f])
  BY <1>1, BehindWhole
<1>6. LET c == Cardinality(Ahead(b, <<f, Len(b[f]) + 1>>))
      IN  /\ f < Len(b) => Cardinality(Ahead(b, <<f + 1, 1>>)) = c
          /\ f = Len(b) => Len(Joined(b)) = c
  BY <1>1, BehindFile
<1>7. \A n \in 1 .. Len(b[f]) :
         LET c == Cardinality(Ahead(b, <<f, n>>))
         IN  /\ c \in Nat /\ c + 1 <= Len(Joined(b))
             /\ Joined(b)[c + 1] = b[f][n]
             /\ Cardinality(Ahead(b, <<f, n + 1>>)) = c + 1
  BY <1>1, BehindGrows
<1>. QED  BY <1>1, <1>2, <1>3, <1>4, <1>5, <1>6, <1>7

(* A step of the reader's: the files stay as they are.                       *)
LEMMA FilesStay ==
    ASSUME ReaderInv, UNCHANGED <<vars, clean, tail>>, NoFlushFault
    PROVE  /\ WriterInv' /\ CleanInv'
           /\ files' = files /\ pc' = pc /\ Written' = Written
           /\ \A f, n : Behind(f, n)' = Behind(f, n)
<1>1. files' = files /\ given' = given /\ pc' = pc
  BY DEF vars
<1>2. Bodies' = Bodies
  BY <1>1 DEF Bodies
<1>3. Written' = Written /\ Record' = Record
  BY <1>1, <1>2 DEF Written, Record
<1>4. WriterInv'
  BY WriterInvStep DEF ReaderInv
<1>5. CleanInv'
  BY <1>3 DEF CleanInv, ReaderInv
<1>6. \A f, n : Behind(f, n)' = Behind(f, n)
  BY <1>2 DEF Behind
<1>. QED  BY <1>1, <1>3, <1>4, <1>5, <1>6

(* The first pass.                                                           *)
LEMMA CountStep ==
    ASSUME ReaderInv, CountCutsInFile, NoFlushFault
    PROVE  ReaderInv'
<1>1. /\ WriterInv' /\ CleanInv' /\ files' = files /\ pc' = pc /\ Written' = Written
      /\ \A f, n : Behind(f, n)' = Behind(f, n)
  BY FilesStay DEF CountCutsInFile
<1>2. /\ reading = "count"
      /\ UNCHANGED <<clean, tail, pageSize, next, printed, pageStart, quit>>
      /\ totalCuts' = totalCuts + Len(files[file].body)
                          + (IF file = Len(files) /\ tail = "edges" THEN 1 ELSE 0)
      /\ file' = IF file < Len(files) THEN file + 1 ELSE 1
      /\ reading' = IF file < Len(files) THEN "count" ELSE "print"
  BY DEF CountCutsInFile
<1>3. /\ file \in 1 .. Len(files) /\ totalCuts \in Nat /\ next = 1 /\ printed = <<>> /\ pageStart = 0
      /\ totalCuts = Cardinality(Behind(file, 1)) /\ pageSize \in Nat
  BY <1>2 DEF ReaderInv, ReaderTypeInv, CountingInv
<1>. DEFINE c == Cardinality(Behind(file, 1))
            l == Len(files[file].body)
            e == IF file = Len(files) /\ tail = "edges" THEN 1 ELSE 0
<1>4. /\ Len(files) \in Nat /\ l \in Nat /\ Len(Written) \in Nat /\ c \in Nat
      /\ Cardinality(Behind(1, 1)) = 0
      /\ file < Len(files) => Cardinality(Behind(file + 1, 1)) = c + l
      /\ file = Len(files) => Len(Written) = c + l
  BY <1>3, PassIs
<1>5. totalCuts' = c + l + e /\ e \in {0, 1}
  BY <1>2, <1>3
<1>. HIDE DEF c, l, e
<1>6. totalCuts' \in Nat
  BY <1>4, <1>5
<1>7. Len(files[1].body) \in Nat
  <2>1. 1 \in 1 .. Len(files)
    BY <1>3, <1>4
  <2>. QED  BY <2>1, PassIs
<1>8. ReaderTypeInv'
  <2>1. file' \in 1 .. Len(files) /\ file' \in Nat \ {0}
    BY <1>2, <1>3, <1>4
  <2>2. reading' = "print" => file' = 1
    BY <1>2
  <2>3. 1 <= Len(files[1].body) + 1
    BY <1>7
  <2>4. reading' \in {"count", "print"}
    BY <1>2
  <2>. QED  BY <1>1, <1>2, <1>3, <1>6, <2>1, <2>2, <2>3, <2>4 DEF ReaderTypeInv, ReaderInv
<1>9. CASE file < Len(files)
  <2>1. e = 0 /\ file' = file + 1 /\ reading' = "count"
    BY <1>2, <1>4, <1>9 DEF e
  <2>2. totalCuts' = Cardinality(Behind(file + 1, 1))
    BY <1>4, <1>5, <1>9, <2>1
  <2>3. CountingInv'
    BY <1>1, <2>1, <2>2 DEF CountingInv
  <2>4. PrintingInv'
    BY <1>1, <1>2, <1>3, <1>4, <2>1 DEF PrintingInv
  <2>5. PagesFull'
    BY <1>2, <1>3, <2>1 DEF PagesFull, ReaderInv
  <2>. QED  BY <1>1, <1>8, <2>3, <2>4, <2>5 DEF ReaderInv
<1>10. CASE ~(file < Len(files))
  <2>1. file = Len(files) /\ file' = 1 /\ reading' = "print"
    BY <1>2, <1>3, <1>4, <1>10
  <2>2. e = IF tail = "edges" THEN 1 ELSE 0
    BY <2>1 DEF e
  <2>3. totalCuts' = Len(Written) + (IF tail = "edges" THEN 1 ELSE 0)
    BY <1>4, <1>5, <2>1, <2>2
  <2>4. CountingInv'
    BY <1>1, <1>2, <2>1, <2>3 DEF CountingInv
  <2>5. PrintingInv'
    BY <1>1, <1>2, <1>3, <1>4, <2>1 DEF PrintingInv
  <2>6. PagesFull'
    <3>1. Len(printed') = 0 /\ pageStart' = 0 /\ pageSize' = pageSize
      BY <1>2, <1>3
    <3>2. pageSize # 0 => pageStart % pageSize = 0
      BY DEF ReaderInv, PagesFull
    <3>. QED  BY <1>2, <1>3, <2>1, <3>1, <3>2 DEF PagesFull
  <2>. QED  BY <1>1, <1>8, <2>4, <2>5, <2>6 DEF ReaderInv
<1>. QED  BY <1>9, <1>10

(* A cut is printed.                                                         *)
LEMMA PrintStep ==
    ASSUME ReaderInv, PrintCut, NoFlushFault
    PROVE  ReaderInv'
<1>1. /\ WriterInv' /\ CleanInv' /\ files' = files /\ pc' = pc /\ Written' = Written
      /\ \A f, n : Behind(f, n)' = Behind(f, n)
  BY FilesStay DEF PrintCut
<1>2. /\ reading = "print" /\ next <= Len(files[file].body)
      /\ UNCHANGED <<clean, tail, pageSize, file, totalCuts, pageStart, quit>>
      /\ printed' = Append(printed, files[file].body[next])
      /\ next' = next + 1
      /\ reading' = IF PageFull(Len(printed) + 1) THEN "prompt" ELSE "print"
  BY DEF PrintCut
<1>3. /\ file \in 1 .. Len(files) /\ next \in Nat \ {0} /\ printed \in Seq(Nat)
      /\ pageSize \in Nat /\ pageStart \in Nat
      /\ Len(printed) = Cardinality(Behind(file, next))
      /\ Len(printed) <= Len(Written)
      /\ \A k \in 1 .. Len(printed) : printed[k] = Written[k]
  BY <1>2 DEF ReaderInv, ReaderTypeInv, PrintingInv
<1>. DEFINE l == Len(printed)
            e == files[file].body[next]
<1>4. /\ Len(files[file].body) \in Nat /\ Len(Written) \in Nat /\ l \in Nat
      /\ next \in 1 .. Len(files[file].body)
  BY <1>2, <1>3, PassIs
<1>5. /\ l + 1 <= Len(Written) /\ Written[l + 1] = e
      /\ Cardinality(Behind(file, next + 1)) = l + 1
  BY <1>3, <1>4, PassIs
<1>6. e \in Nat
  <2>1. Written \in Seq(Record)
    BY WrittenIs DEF ReaderInv, WriterInv
  <2>2. l + 1 \in 1 .. Len(Written)
    BY <1>4, <1>5
  <2>3. Written[l + 1] \in Record
    BY <2>1, <2>2
  <2>. QED  BY <1>5, <2>3 DEF Record
<1>. HIDE DEF e
<1>7. /\ printed' \in Seq(Nat) /\ Len(printed') = l + 1
      /\ \A k \in 1 .. l : printed'[k] = printed[k]
      /\ printed'[l + 1] = e
  <2>1. printed' = Append(printed, e)
    BY <1>2 DEF e
  <2>. QED  BY <1>3, <1>6, <2>1
<1>8. \A k \in 1 .. l + 1 : printed'[k] = Written[k]
  <2>1. \A k \in 1 .. l + 1 : k \in 1 .. l \/ k = l + 1
    BY <1>4
  <2>. QED  BY <1>3, <1>5, <1>7, <2>1
<1>9. reading' \in {"prompt", "print"}
  BY <1>2
<1>10. ReaderTypeInv'
  <2>1. next' \in Nat \ {0} /\ next' <= Len(files[file].body) + 1
    BY <1>2, <1>3, <1>4
  <2>. QED  BY <1>1, <1>2, <1>3, <1>7, <1>9, <2>1 DEF ReaderTypeInv, ReaderInv
<1>11. CountingInv'
  BY <1>1, <1>2, <1>9 DEF CountingInv, ReaderInv
<1>12. PrintingInv'
  BY <1>1, <1>2, <1>5, <1>7, <1>8, <1>9 DEF PrintingInv
<1>13. PagesFull'
  <2>1. pageSize # 0 => pageStart % pageSize = 0 /\ l < pageStart + pageSize
    BY <1>2 DEF ReaderInv, PagesFull
  <2>. HIDE DEF l
  <2>2. CASE pageSize # 0 /\ (l + 1) - pageStart >= pageSize
    <3>1. reading' = "prompt"
      BY <1>2, <2>2 DEF PageFull, l
    <3>2. l + 1 = pageStart + pageSize
      BY <1>3, <1>4, <2>1, <2>2
    <3>. QED  BY <1>2, <1>7, <2>1, <3>1, <3>2 DEF PagesFull
  <2>3. CASE ~(pageSize # 0 /\ (l + 1) - pageStart >= pageSize)
    <3>1. reading' = "print"
      BY <1>2, <2>3 DEF PageFull, l
    <3>2. pageSize # 0 => l + 1 < pageStart + pageSize
      BY <1>3, <1>4, <2>3
    <3>. QED  BY <1>2, <1>7, <2>1, <3>1, <3>2 DEF PagesFull
  <2>. QED  BY <2>2, <2>3
<1>. QED  BY <1>1, <1>10, <1>11, <1>12, <1>13 DEF ReaderInv

(* The user answers the prompt.                                              *)
LEMMA PromptStep ==
    ASSUME ReaderInv, NextPage \/ Quit, NoFlushFault
    PROVE  ReaderInv'
<1>1. /\ WriterInv' /\ CleanInv' /\ files' = files /\ pc' = pc /\ Written' = Written
      /\ \A f, n : Behind(f, n)' = Behind(f, n)
  BY FilesStay DEF NextPage, Quit
<1>2. /\ reading = "prompt" /\ reading' \in {"print", "done"}
      /\ UNCHANGED <<clean, tail, pageSize, file, totalCuts, next, printed>>
  BY DEF NextPage, Quit
<1>3. /\ printed \in Seq(Nat) /\ Len(printed) \in Nat /\ pageSize \in Nat /\ pageStart \in Nat
      /\ file \in 1 .. Len(files)
  BY <1>2 DEF ReaderInv, ReaderTypeInv
<1>4. ReaderTypeInv'
  <2>1. pageStart' \in Nat /\ quit' \in BOOLEAN
    BY <1>3 DEF ReaderInv, ReaderTypeInv, NextPage, Quit
  <2>2. files # <<>>
    BY <1>3
  <2>. QED  BY <1>1, <1>2, <2>1, <2>2 DEF ReaderTypeInv, ReaderInv
<1>5. CountingInv'
  BY <1>1, <1>2 DEF CountingInv, ReaderInv
<1>6. PrintingInv'
  <2>1. reading' = "done" => quit'
    BY DEF NextPage, Quit
  <2>. QED  BY <1>1, <1>2, <2>1 DEF PrintingInv, ReaderInv
<1>7. PagesFull'
  <2>1. pageSize # 0 => pageStart % pageSize = 0 /\ Len(printed) = pageStart + pageSize
    BY <1>2 DEF ReaderInv, PagesFull
  <2>2. CASE NextPage
    <3>1. pageStart' = Len(printed) /\ reading' = "print"
      BY <2>2 DEF NextPage
    <3>2. pageSize # 0 => pageStart' % pageSize = 0
      BY <1>3, <2>1, <3>1, NextMultiple
    <3>3. pageSize # 0 => Len(printed) < pageStart' + pageSize
      BY <1>3, <3>1
    <3>. QED  BY <1>2, <3>1, <3>2, <3>3 DEF PagesFull
  <2>3. CASE Quit
    BY <1>2, <2>1, <2>3 DEF PagesFull, Quit
  <2>. QED  BY <2>2, <2>3
<1>. QED  BY <1>1, <1>4, <1>5, <1>6, <1>7 DEF ReaderInv

(* A file is at its end.                                                     *)
LEMMA NextFileStep ==
    ASSUME ReaderInv, NextFile, NoFlushFault
    PROVE  ReaderInv'
<1>1. /\ WriterInv' /\ CleanInv' /\ files' = files /\ pc' = pc /\ Written' = Written
      /\ \A f, n : Behind(f, n)' = Behind(f, n)
  BY FilesStay DEF NextFile
<1>2. /\ reading = "print" /\ next > Len(files[file].body)
      /\ UNCHANGED <<clean, tail, pageSize, totalCuts, printed, pageStart, quit>>
      /\ \/ file < Len(files) /\ file' = file + 1 /\ next' = 1 /\ reading' = "print"
         \/ ~(file < Len(files)) /\ file' = file /\ next' = next /\ reading' = "done"
  BY DEF NextFile
<1>3. /\ file \in 1 .. Len(files) /\ next \in Nat \ {0} /\ printed \in Seq(Nat)
      /\ next <= Len(files[file].body) + 1
      /\ Len(printed) = Cardinality(Behind(file, next))
  BY <1>2 DEF ReaderInv, ReaderTypeInv, PrintingInv
<1>4. /\ Len(files) \in Nat /\ Len(files[file].body) \in Nat
      /\ file < Len(files) =>
            Cardinality(Behind(file + 1, 1)) = Cardinality(Behind(file, Len(files[file].body) + 1))
      /\ file = Len(files) =>
            Len(Written) = Cardinality(Behind(file, Len(files[file].body) + 1))
  BY <1>3, PassIs
<1>5. next = Len(files[file].body) + 1 /\ files # <<>>
  <2>. DEFINE l == Len(files[file].body)
  <2>1. l \in Nat /\ next > l /\ next <= l + 1
    BY <1>2, <1>3, <1>4
  <2>. HIDE DEF l
  <2>2. next = l + 1
    BY <1>3, <2>1
  <2>3. files # <<>>
    BY <1>3
  <2>. QED  BY <2>2, <2>3 DEF l
<1>6. CASE file < Len(files)
  <2>1. file' = file + 1 /\ next' = 1 /\ reading' = "print"
    BY <1>2, <1>6
  <2>2. file' \in 1 .. Len(files) /\ file' \in Nat \ {0}
    BY <1>3, <1>4, <1>6, <2>1
  <2>3. 1 <= Len(files[file'].body) + 1
    <3>1. Len(files[file'].body) \in Nat
      BY <2>2, PassIs
    <3>. QED  BY <3>1
  <2>4. ReaderTypeInv'
    BY <1>1, <1>2, <1>5, <2>1, <2>2, <2>3 DEF ReaderTypeInv, ReaderInv
  <2>5. Len(printed) = Cardinality(Behind(file', 1))
    BY <1>3, <1>4, <1>5, <1>6, <2>1
  <2>6. PrintingInv'
    BY <1>1, <1>2, <2>1, <2>5 DEF PrintingInv, ReaderInv
  <2>7. CountingInv' /\ PagesFull'
    BY <1>1, <1>2, <2>1 DEF CountingInv, PagesFull, ReaderInv
  <2>. QED  BY <1>1, <2>4, <2>6, <2>7 DEF ReaderInv
<1>7. CASE ~(file < Len(files))
  <2>1. file' = file /\ next' = next /\ reading' = "done" /\ file = Len(files)
    BY <1>2, <1>3, <1>4, <1>7
  <2>2. ReaderTypeInv'
    BY <1>1, <1>2, <1>5, <2>1 DEF ReaderTypeInv, ReaderInv
  <2>3. Len(printed) = Len(Written)
    BY <1>3, <1>4, <1>5, <2>1
  <2>4. PrintingInv'
    BY <1>1, <1>2, <2>1, <2>3 DEF PrintingInv, ReaderInv
  <2>5. CountingInv' /\ PagesFull'
    BY <1>1, <1>2, <2>1 DEF CountingInv, PagesFull, ReaderInv
  <2>. QED  BY <1>1, <2>2, <2>4, <2>5 DEF ReaderInv
<1>. QED  BY <1>6, <1>7

(* Every step keeps the invariant of both programs.                          *)
LEMMA ReaderInvStep ==
    NoFlushFault /\ ReaderInv /\ [ReaderNext]_<<vars, readerVars>> => ReaderInv'
<1>. SUFFICES ASSUME NoFlushFault, ReaderInv, [ReaderNext]_<<vars, readerVars>>
              PROVE  ReaderInv'
  OBVIOUS
<1>1. CASE WriterStep
  <2>1. reading = "no" /\ Next /\ UNCHANGED readerVars /\ reading' = "no"
    BY <1>1 DEF WriterStep, readerVars
  <2>2. WriterInv'
    BY <2>1, WriterInvStep DEF ReaderInv
  <2>3. pc # "gone" /\ pc' # "gone"
    BY <2>1, WriterLives DEF ReaderInv, WriterInv
  <2>4. UNCHANGED <<clean, tail, pageSize, file, totalCuts, next, printed, pageStart, quit>>
    BY <2>1 DEF readerVars, pass
  <2>5. ReaderTypeInv'
    BY <2>1, <2>3, <2>4 DEF ReaderTypeInv, ReaderInv
  <2>6. CleanInv' /\ CountingInv' /\ PrintingInv'
    BY <2>1, <2>4 DEF ReaderTypeInv, ReaderInv, CleanInv, CountingInv, PrintingInv
  <2>7. PagesFull'
    BY <2>1, <2>4 DEF ReaderInv, PagesFull
  <2>. QED  BY <2>2, <2>5, <2>6, <2>7 DEF ReaderInv
<1>2. CASE Done \/ UNCHANGED <<vars, readerVars>>
  <2>1. UNCHANGED <<vars, readerVars>>
    BY <1>2 DEF Done
  <2>2. UNCHANGED <<reading, clean, tail, pageSize, file, totalCuts, next, printed, pageStart, quit>>
    BY <2>1 DEF readerVars, pass
  <2>3. /\ WriterInv' /\ CleanInv' /\ files' = files /\ pc' = pc /\ Written' = Written
        /\ \A f, n : Behind(f, n)' = Behind(f, n)
    BY <2>1, <2>2, FilesStay
  <2>4. ReaderTypeInv' /\ CountingInv' /\ PrintingInv' /\ PagesFull'
    BY <2>2, <2>3 DEF ReaderInv, ReaderTypeInv, CountingInv, PrintingInv, PagesFull
  <2>. QED  BY <2>3, <2>4 DEF ReaderInv
<1>. QED  BY <1>1, <1>2, StartStep, CountStep, PrintStep, PromptStep, NextFileStep DEF ReaderNext

(* What is printed is the beginning of what is in the files.                 *)
LEMMA PrintsInv == ReaderInv => PrintsTheFiles
<1>. SUFFICES ASSUME ReaderInv
              PROVE  PrintsTheFiles
  OBVIOUS
<1>. DEFINE w == Written
            l == Len(printed)
<1>1. w \in Seq(Record) /\ Len(w) \in Nat /\ DOMAIN w = 1 .. Len(w)
  BY WrittenIs DEF ReaderInv, WriterInv
<1>2. printed \in Seq(Nat) /\ l \in Nat /\ DOMAIN printed = 1 .. l
  BY DEF ReaderInv, ReaderTypeInv
<1>3. l <= Len(w) /\ \A k \in 1 .. l : printed[k] = w[k]
  <2>1. CASE reading = "no"
    <3>1. l = 0
      BY <2>1 DEF ReaderInv, ReaderTypeInv
    <3>. QED  BY <1>1, <3>1
  <2>2. CASE reading # "no"
    BY <2>2 DEF ReaderInv, PrintingInv
  <2>. QED  BY <2>1, <2>2
<1>4. IsInjective(w)
  BY DEF ReaderInv, WriterInv, PlacesInv
<1>5. reading = "done" /\ ~quit => l = Len(w)
  BY DEF ReaderInv, PrintingInv
<1>. HIDE DEF w
<1>6. \A k \in 1 .. l : k \in 1 .. Len(w)
  BY <1>1, <1>2, <1>3
<1>7. IsInjective(printed)
  BY <1>1, <1>2, <1>3, <1>4, <1>6 DEF IsInjective
<1>8. IsPrefix(printed, w)
  <2>1. SubSeq(printed, 1, l) = printed
    BY <1>2
  <2>2. SubSeq(w, 1, l) \in Seq(Record) /\ Len(SubSeq(w, 1, l)) = l
        /\ \A k \in 1 .. l : SubSeq(w, 1, l)[k] = w[k]
    <3>. HIDE DEF l
    <3>1. l \in 0 .. Len(w)
      BY <1>1, <1>2, <1>3
    <3>. QED  BY <1>1, <3>1
  <2>3. SubSeq(w, 1, l) = printed
    <3>. DEFINE s == SubSeq(w, 1, l)
    <3>1. s \in Seq(Record) /\ Len(s) = l /\ \A k \in 1 .. l : s[k] = printed[k]
      BY <1>3, <2>2
    <3>. HIDE DEF s
    <3>2. s = printed
      BY <1>2, <3>1
    <3>. QED  BY <3>2 DEF s
  <2>. QED  BY <1>3, <2>1, <2>3 DEF IsPrefix
<1>9. l = Len(w) => printed = w
  BY <1>1, <1>2, <1>3
<1>. QED  BY <1>5, <1>7, <1>8, <1>9 DEF PrintsTheFiles, ReaderInv, w

(* After a flush without an error the files have as many records as were     *)
(* given, each once.                                                         *)
LEMMA CleanIsAll ==
    ASSUME ReaderInv, clean
    PROVE  Len(Written) = Len(given) /\ ToSet(Written) = Record /\ tail = "whole"
<1>. DEFINE w == Written
            n == Len(given)
<1>1. w \in Seq(Record) /\ Len(w) \in Nat /\ DOMAIN w = 1 .. Len(w) /\ IsInjective(w)
  BY WrittenIs DEF ReaderInv, WriterInv, PlacesInv
<1>2. n \in Nat /\ Record = 1 .. n
  BY DEF ReaderInv, WriterInv, TypeInv, Record
<1>3. (\A r \in Record : \E k \in DOMAIN w : w[k] = r) /\ tail = "whole"
  BY DEF ReaderInv, CleanInv
<1>. HIDE DEF w, n
<1>4. w \in [1 .. Len(w) -> Record]
  BY <1>1
<1>5. w \in Bijection(1 .. Len(w), Record)
  BY <1>1, <1>3, <1>4 DEF Bijection, Injection, Surjection
<1>6. /\ IsFiniteSet(1 .. Len(w)) /\ Cardinality(1 .. Len(w)) = Len(w)
      /\ Cardinality(Record) = n
  <2>. DEFINE m == Len(w)
  <2>1. m \in Nat
    BY <1>1
  <2>. HIDE DEF m
  <2>2. IsFiniteSet(1 .. m) /\ Cardinality(1 .. m) = m
    BY <2>1, FS_Interval
  <2>3. Cardinality(1 .. n) = n
    BY <1>2, FS_Interval
  <2>. QED  BY <1>2, <2>2, <2>3 DEF m
<1>7. Cardinality(1 .. Len(w)) = Cardinality(Record)
  <2>. DEFINE S == 1 .. Len(w)
  <2>1. IsFiniteSet(S) /\ w \in Bijection(S, Record)
    BY <1>5, <1>6
  <2>. HIDE DEF S
  <2>2. Cardinality(Record) = Cardinality(S)
    BY <2>1, FS_Bijection DEF ExistsBijection
  <2>. QED  BY <2>2 DEF S
<1>8. ToSet(w) = Record
  <2>1. \A k \in DOMAIN w : w[k] \in Record
    BY <1>1, <1>4
  <2>. QED  BY <1>3, <2>1 DEF ToSet
<1>. QED  BY <1>3, <1>6, <1>7, <1>8 DEF w, n

(* The number of cuts that is announced.                                     *)
LEMMA AnnouncedInv == ReaderInv => AnnouncedIsPrinted
<1>. SUFFICES ASSUME ReaderInv, reading \in {"print", "prompt", "done"}
              PROVE  /\ totalCuts = Len(Written) + (IF tail = "edges" THEN 1 ELSE 0)
                     /\ clean => totalCuts = Len(given)
  BY DEF AnnouncedIsPrinted
<1>1. totalCuts = Len(Written) + (IF tail = "edges" THEN 1 ELSE 0)
  BY DEF ReaderInv, CountingInv
<1>2. Len(Written) \in Nat
  BY WrittenIs DEF ReaderInv, WriterInv
<1>3. clean => Len(Written) = Len(given) /\ tail = "whole"
  BY CleanIsAll
<1>. QED  BY <1>1, <1>2, <1>3

(* What was given is printed.                                                *)
LEMMA EndToEndInv == ReaderInv => EndToEnd
<1>. SUFFICES ASSUME ReaderInv, clean, reading = "done", ~quit
              PROVE  ToSet(printed) = Record
  BY DEF EndToEnd
<1>1. printed = Written
  BY PrintsInv DEF PrintsTheFiles
<1>. QED  BY <1>1, CleanIsAll
-----------------------------------------------------------------------------
(***************************************************************************)
(* The properties, for every record size, buffer, file and page length.    *)
(***************************************************************************)

(* Both programs keep the invariant in every behaviour.                      *)
LEMMA ReaderInvariant ==
    ASSUME NoFlushFault
    PROVE  ReaderSpec => []ReaderInv
<1>1. ReaderInit => ReaderInv
  BY ReaderInvInit
<1>2. ReaderInv /\ [ReaderNext]_<<vars, readerVars>> => ReaderInv'
  BY ReaderInvStep
<1>. QED  BY <1>1, <1>2, PTL DEF ReaderSpec

(* As long as no error is flagged, every record that writeCut was given is   *)
(* in one file or in memory, and in one place only.                          *)
THEOREM NothingLostCorrect ==
    ASSUME NoFlushFault
    PROVE  ReaderSpec => []NothingLost
<1>1. ReaderInv => NothingLost
  BY WriterNothingLost DEF ReaderInv
<1>. QED  BY <1>1, ReaderInvariant, PTL

(* The records are in the files in the order of the calls of writeCut, but   *)
(* for those larger than the buffer, which overtake at most a buffer full.   *)
THEOREM InOrderCorrect ==
    ASSUME NoFlushFault
    PROVE  ReaderSpec => []InOrder
<1>1. ReaderInv => InOrder
  BY WriterInOrder DEF ReaderInv
<1>. QED  BY <1>1, ReaderInvariant, PTL

(* Neither the buffer nor a file exceeds its bound, and the sizes the writer *)
(* keeps are those of its files.                                             *)
THEOREM SizesBoundedCorrect ==
    ASSUME NoFlushFault
    PROVE  ReaderSpec => []SizesBounded
<1>1. ReaderInv => SizesBounded
  BY WriterSizesBounded DEF ReaderInv
<1>. QED  BY <1>1, ReaderInvariant, PTL

(* The reader prints the records of the files one after the other, each      *)
(* once, in full pages, and all of them unless the user quits.               *)
THEOREM PrintsTheFilesCorrect ==
    ASSUME NoFlushFault
    PROVE  ReaderSpec => []PrintsTheFiles
<1>1. ReaderInv => PrintsTheFiles
  BY PrintsInv
<1>. QED  BY <1>1, ReaderInvariant, PTL

(* The number of cuts the reader announces is that of the records it prints, *)
(* but for one that is cut off within its edges.                             *)
THEOREM AnnouncedIsPrintedCorrect ==
    ASSUME NoFlushFault
    PROVE  ReaderSpec => []AnnouncedIsPrinted
<1>1. ReaderInv => AnnouncedIsPrinted
  BY AnnouncedInv
<1>. QED  BY <1>1, ReaderInvariant, PTL

(* After a flush without an error the reader prints what the writer was      *)
(* given.                                                                    *)
THEOREM EndToEndCorrect ==
    ASSUME NoFlushFault
    PROVE  ReaderSpec => []EndToEnd
<1>1. ReaderInv => EndToEnd
  BY EndToEndInv
<1>. QED  BY <1>1, ReaderInvariant, PTL

(* It is only the library's last flush that can make flush() return without  *)
(* an error before every record is on disk.                                  *)
THEOREM DurableCorrect ==
    ASSUME NoFlushFault
    PROVE  Spec => []Durable
<1>1. Init => WriterInv
  BY WriterInvInit
<1>2. WriterInv /\ [Next]_vars => WriterInv'
  BY WriterInvStep
<1>3. WriterInv => Durable
  BY WriterDurable
<1>. QED  BY <1>1, <1>2, <1>3, PTL DEF Spec
=============================================================================
