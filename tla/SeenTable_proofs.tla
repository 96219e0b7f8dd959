-------------------------- MODULE SeenTable_proofs ---------------------------
(***************************************************************************)
(* For any threads, keys, segments and hashes, and any initial capacity of *)
(* four slots or more: the table is a set with atomic operations           *)
(* (ImplementsSet), because linear probing finds every key that is there   *)
(* (Findable), no segment is ever full (AlwaysRoom), and size() counts     *)
(* every key once (EntriesCounted).                                        *)
(*                                                                         *)
(* An array is looked at through the path of a key: the slots from its own *)
(* slot on, around the end.  Everything rests on two lemmas about paths: a *)
(* key put into the first free slot of its path breaks no other path, and  *)
(* a key is not in an array whose path for it has come to a free slot.     *)
(***************************************************************************)
EXTENDS SeenTable, FiniteSetTheorems, WellFoundedInduction, TLAPS

(***************************************************************************)
(* Arithmetic of the indices.                                              *)
(***************************************************************************)
(* What x % n is for x within one turn of 0 .. n - 1. *)
LEMMA Turn ==
    ASSUME NEW n \in Nat, n > 0
    PROVE  /\ \A x \in Int : x % n \in 0 .. n - 1
           /\ \A x \in 0 .. n - 1 : x % n = x
           /\ \A x \in n .. 2 * n - 1 : x % n = x - n
           /\ \A x \in -n .. -1 : x % n = x + n
<1>1. \A x \in Int : x % n \in 0 .. n - 1
  OBVIOUS
<1>2. \A x \in 0 .. n - 1 : x % n = x
  OBVIOUS
<1>3. \A x \in n .. 2 * n - 1 : x % n = x - n
  OBVIOUS
<1>4. \A x \in -n .. -1 : x % n = x + n
  OBVIOUS
<1>. QED  BY <1>1, <1>2, <1>3, <1>4

(* The d-th slot from h on has the distance d; the slot at the distance of i is i. *)
LEMMA Around ==
    ASSUME NEW n \in Nat, n > 0, NEW h \in 0 .. n - 1
    PROVE  /\ \A d \in 0 .. n - 1 : (((h + d) % n) - h) % n = d
           /\ \A i \in 0 .. n - 1 : (h + ((i - h) % n)) % n = i
           /\ (h + 0) % n = h
<1>1. ASSUME NEW d \in 0 .. n - 1  PROVE (((h + d) % n) - h) % n = d
  <2>1. CASE h + d < n
    BY <2>1, Turn
  <2>2. CASE h + d >= n
    <3>1. (h + d) % n = h + d - n
      BY <2>2, Turn
    <3>2. (d - n) % n = d
      BY Turn
    <3>. QED  BY <3>1, <3>2
  <2>. QED  BY <2>1, <2>2
<1>2. ASSUME NEW i \in 0 .. n - 1  PROVE (h + ((i - h) % n)) % n = i
  <2>1. CASE i >= h
    BY <2>1, Turn
  <2>2. CASE i < h
    <3>1. (i - h) % n = i - h + n
      BY <2>2, Turn
    <3>2. (i + n) % n = i
      BY Turn
    <3>. QED  BY <3>1, <3>2
  <2>. QED  BY <2>1, <2>2
<1>. QED  BY <1>1, <1>2, Turn

(* The slot after the d-th is the next one. *)
LEMMA NextAround ==
    ASSUME NEW n \in Nat, n > 0, NEW h \in 0 .. n - 1, NEW d \in 0 .. n - 1
    PROVE  (((h + d) % n) + 1) % n = (h + (d + 1)) % n
<1>1. CASE h + d < n
  BY <1>1, Turn
<1>2. CASE h + d >= n
  <2>1. (h + d) % n = h + d - n
    BY <1>2, Turn
  <2>2. h + (d + 1) \in n .. 2 * n - 1
    BY <1>2
  <2>3. (h + (d + 1)) % n = h + (d + 1) - n /\ (h + d - n + 1) % n = h + d - n + 1
    BY <1>2, <2>2, Turn
  <2>. QED  BY <2>1, <2>3
<1>. QED  BY <1>1, <1>2

(***************************************************************************)
(* Arrays and paths.                                                       *)
(***************************************************************************)
Array == UNION {[0 .. n - 1 -> Key \cup {None}] : n \in {m \in Nat : m >= 4}}
Size(slots) == Cardinality(DOMAIN slots)
Keys(slots) == Range(slots) \ {None}

\* The d-th slot of a key's path; the path up to there has neither a free slot
\* nor the key; every key in the array can be found.
At(k, slots, d) == (hashToIndex(k, Size(slots)) + d) % Size(slots)
Passed(k, slots, d) == \A e \in 0 .. d - 1 : slots[At(k, slots, e)] \notin {None, k}
PathsFree(slots) ==
    \A i \in DOMAIN slots : slots[i] # None =>
        Passed(slots[i], slots, (i - hashToIndex(slots[i], Size(slots))) % Size(slots))

(* What an array is, and where a key's path lies in it. *)
LEMMA ArrayFacts ==
    ASSUME NEW slots \in Array
    PROVE  /\ Size(slots) \in Nat /\ Size(slots) >= 4
           /\ DOMAIN slots = 0 .. Size(slots) - 1
           /\ slots \in [0 .. Size(slots) - 1 -> Key \cup {None}]
           /\ IsFiniteSet(Occupied(slots)) /\ Cardinality(Occupied(slots)) \in Nat
           /\ \A k \in Key : hashToIndex(k, Size(slots)) \in 0 .. Size(slots) - 1
           /\ \A k \in Key, d \in Nat : At(k, slots, d) \in DOMAIN slots
           /\ Keys(slots) \subseteq Key
           /\ \A k \in Key : k \in Keys(slots) <=> \E i \in DOMAIN slots : slots[i] = k
<1>1. PICK n \in Nat : n >= 4 /\ slots \in [0 .. n - 1 -> Key \cup {None}]
  BY DEF Array
<1>2. DOMAIN slots = 0 .. n - 1
  BY <1>1
<1>3. Size(slots) = n /\ IsFiniteSet(0 .. n - 1)
  BY <1>1, <1>2, FS_Interval DEF Size
<1>4. IsFiniteSet(Occupied(slots)) /\ Cardinality(Occupied(slots)) \in Nat
  BY <1>2, <1>3, FS_Subset, FS_CardinalityType DEF Occupied
<1>5. \A k \in Key : hash[k] \in Nat
  BY TableAssumption
<1>6. \A k \in Key : hashToIndex(k, n) \in 0 .. n - 1
  BY <1>1, <1>5, Turn DEF hashToIndex
<1>7. \A k \in Key, d \in Nat : At(k, slots, d) \in 0 .. n - 1
  BY <1>1, <1>3, <1>6, Turn DEF At
<1>8. Keys(slots) \subseteq Key
  BY <1>1, <1>2 DEF Keys, Range
<1>9. \A k \in Key : k \in Keys(slots) <=> \E i \in DOMAIN slots : slots[i] = k
  BY TableAssumption DEF Keys, Range
<1>. QED  BY <1>1, <1>2, <1>3, <1>4, <1>6, <1>7, <1>8, <1>9

(* A key has an own distance, and the path leads to it. *)
LEMMA Distance ==
    ASSUME NEW slots \in Array, NEW i \in DOMAIN slots, NEW k \in Key,
           NEW d, d = (i - hashToIndex(k, Size(slots))) % Size(slots)
    PROVE  d \in 0 .. Size(slots) - 1 /\ At(k, slots, d) = i
<1>. DEFINE n == Size(slots)
            h == hashToIndex(k, n)
<1>1. n \in Nat /\ n >= 4 /\ i \in 0 .. n - 1 /\ h \in 0 .. n - 1
  BY ArrayFacts
<1>2. d = (i - h) % n /\ \A e : At(k, slots, e) = (h + e) % n
  BY DEF At
<1>. HIDE DEF n, h
<1>3. (i - h) % n \in 0 .. n - 1 /\ (h + ((i - h) % n)) % n = i
  <2>1. n > 0 /\ i - h \in Int
    BY <1>1
  <2>2. (i - h) % n \in 0 .. n - 1
    BY <1>1, <2>1, Turn
  <2>3. (h + ((i - h) % n)) % n = i
    BY <1>1, <2>1, Around
  <2>. QED  BY <2>2, <2>3
<1>4. At(k, slots, d) = (h + d) % n
  BY <1>2
<1>5. d \in 0 .. n - 1 /\ At(k, slots, d) = i
  BY <1>1, <1>2, <1>3, <1>4
<1>. QED  BY <1>5 DEF n

(* A key is not in an array whose path for it has come to a free slot. *)
LEMMA FreeMeansAbsent ==
    ASSUME NEW slots \in Array, PathsFree(slots), NEW k \in Key,
           NEW d \in 0 .. Size(slots) - 1, Passed(k, slots, d),
           slots[At(k, slots, d)] = None
    PROVE  k \notin Keys(slots)
<1>1. SUFFICES ASSUME NEW i \in DOMAIN slots, slots[i] = k  PROVE FALSE
  BY ArrayFacts
<1>2. k # None
  BY TableAssumption
<1>. DEFINE e == (i - hashToIndex(k, Size(slots))) % Size(slots)
<1>3. e \in 0 .. Size(slots) - 1 /\ At(k, slots, e) = i
  BY Distance
<1>4. Passed(k, slots, e)
  BY <1>1, <1>2 DEF PathsFree
<1>5. Size(slots) \in Nat
  BY ArrayFacts
<1>. HIDE DEF e
<1>6. CASE e < d
  BY <1>1, <1>3, <1>5, <1>6 DEF Passed
<1>7. CASE e = d
  BY <1>1, <1>2, <1>3, <1>7
<1>8. CASE e > d
  BY <1>3, <1>4, <1>5, <1>8 DEF Passed
<1>. QED  BY <1>3, <1>5, <1>6, <1>7, <1>8

(* A key put into the first free slot of its path breaks no path. *)
LEMMA PlaceKey ==
    ASSUME NEW slots \in Array, PathsFree(slots),
           NEW k \in Key, k \notin Keys(slots),
           NEW d \in 0 .. Size(slots) - 1,
           \A e \in 0 .. d - 1 : slots[At(k, slots, e)] # None,
           slots[At(k, slots, d)] = None,
           NEW filled, filled = [slots EXCEPT ![At(k, slots, d)] = k]
    PROVE  /\ filled \in Array /\ Size(filled) = Size(slots)
           /\ PathsFree(filled)
           /\ Keys(filled) = Keys(slots) \cup {k}
           /\ Cardinality(Occupied(filled)) = Cardinality(Occupied(slots)) + 1
<1>. DEFINE n == Size(slots)
            p == At(k, slots, d)
<1>1. /\ n \in Nat /\ n >= 4 /\ DOMAIN slots = 0 .. n - 1
      /\ slots \in [0 .. n - 1 -> Key \cup {None}]
      /\ p \in DOMAIN slots
  BY ArrayFacts
<1>2. filled \in [0 .. n - 1 -> Key \cup {None}]
  BY <1>1
<1>3. filled \in Array
  BY <1>1, <1>2 DEF Array
<1>4. DOMAIN filled = DOMAIN slots /\ Size(filled) = n
  BY <1>1, <1>2 DEF Size
<1>5. filled[p] = k /\ \A i \in DOMAIN slots : i # p => filled[i] = slots[i]
  BY <1>1
<1>6. k # None
  BY TableAssumption
<1>7. \A c, e : At(c, filled, e) = At(c, slots, e)
  BY <1>4 DEF At
<1>8. ASSUME NEW i \in DOMAIN filled, filled[i] # None
      PROVE  Passed(filled[i], filled, (i - hashToIndex(filled[i], n)) % n)
  <2>. DEFINE c == filled[i]
              r == (i - hashToIndex(c, n)) % n
  <2>1. c \in Key /\ i \in DOMAIN slots
    BY <1>2, <1>4, <1>8
  <2>2. r \in 0 .. n - 1 /\ At(c, slots, r) = i
    BY <2>1, Distance
  <2>. SUFFICES Passed(c, filled, r)
    OBVIOUS
  <2>. HIDE DEF r
  <2>3. SUFFICES ASSUME NEW e \in 0 .. r - 1
                 PROVE  filled[At(c, slots, e)] \notin {None, c}
    BY <1>7 DEF Passed
  <2>4. At(c, slots, e) \in DOMAIN slots /\ e \in Nat
    BY <2>1, ArrayFacts
  <2>5. CASE i = p
    <3>1. c = k
      BY <1>5, <2>5
    <3>2. n \in Nat /\ n > 0 /\ d \in 0 .. n - 1 /\ hashToIndex(k, n) \in 0 .. n - 1
      BY <1>1, ArrayFacts
    <3>3. (p - hashToIndex(k, n)) % n = d
      <4>. DEFINE h == hashToIndex(k, n)
      <4>1. h \in 0 .. n - 1 /\ p = (h + d) % n
        BY <3>2 DEF At
      <4>. HIDE DEF h, n, p
      <4>2. (((h + d) % n) - h) % n = d
        BY <3>2, <4>1, Around
      <4>. QED  BY <4>1, <4>2 DEF h
    <3>3a. r = d
      BY <3>1, <3>3, <2>5 DEF r
    <3>4. slots[At(c, slots, e)] # None
      BY <3>1, <3>3a
    <3>5. slots[At(c, slots, e)] # k
      BY <2>4, <1>6, ArrayFacts
    <3>6. At(c, slots, e) # p
      BY <3>4
    <3>. QED  BY <3>1, <3>4, <3>5, <3>6, <1>5, <2>4
  <2>6. CASE i # p
    <3>1. slots[i] = c
      BY <1>5, <2>1, <2>6
    <3>2. Passed(c, slots, r)
      BY <3>1, <2>1, <1>8 DEF PathsFree, r
    <3>3. slots[At(c, slots, e)] \notin {None, c}
      BY <3>2 DEF Passed
    <3>4. At(c, slots, e) # p
      BY <3>3
    <3>. QED  BY <3>3, <3>4, <1>5, <2>4
  <2>. QED  BY <2>5, <2>6
<1>9. PathsFree(filled)
  BY <1>4, <1>8 DEF PathsFree
<1>10. Keys(filled) = Keys(slots) \cup {k}
  BY <1>1, <1>2, <1>4, <1>5, <1>6 DEF Keys, Range
<1>11. Occupied(filled) = Occupied(slots) \cup {p} /\ p \notin Occupied(slots)
  BY <1>1, <1>2, <1>4, <1>5, <1>6 DEF Occupied
<1>12. Cardinality(Occupied(filled)) = Cardinality(Occupied(slots)) + 1
  BY <1>11, ArrayFacts, FS_AddElement
<1>. QED  BY <1>3, <1>4, <1>9, <1>10, <1>12

(* A nonempty set of natural numbers has a least element, which Min returns. *)
LEMMA Least ==
    ASSUME NEW T \in SUBSET Nat, T # {}
    PROVE  Min(T) \in T /\ \A x \in T : Min(T) <= x
<1>1. PICK m \in T : \A x \in T : ~ (<<x, m>> \in OpToRel(<, Nat))
  BY NatLessThanWellFounded, WFMin
<1>2. \A x \in T : ~ (x < m)
  BY <1>1 DEF OpToRel
<1>3. \A x \in T : m <= x
  BY <1>2
<1>. QED  BY <1>3 DEF Min

(* forceInsert finds the first free slot of the key's path. *)
LEMMA FreeSlotFound ==
    ASSUME NEW slots \in Array, NEW k \in Key, Occupied(slots) # DOMAIN slots
    PROVE  \E d \in 0 .. Size(slots) - 1 :
              /\ FreeSlot(k, slots) = At(k, slots, d)
              /\ slots[At(k, slots, d)] = None
              /\ \A e \in 0 .. d - 1 : slots[At(k, slots, e)] # None
<1>. DEFINE free == {d \in DOMAIN slots : slots[At(k, slots, d)] = None}
<1>1. DOMAIN slots = 0 .. Size(slots) - 1 /\ Size(slots) \in Nat
  BY ArrayFacts
<1>2. PICK i \in DOMAIN slots : slots[i] = None
  BY DEF Occupied
<1>3. free # {} /\ free \in SUBSET Nat
  <2>. DEFINE d == (i - hashToIndex(k, Size(slots))) % Size(slots)
  <2>1. d \in 0 .. Size(slots) - 1 /\ At(k, slots, d) = i
    BY Distance
  <2>. HIDE DEF d
  <2>. QED  BY <1>1, <1>2, <2>1
<1>4. Min(free) \in free /\ \A d \in free : Min(free) <= d
  <2>. HIDE DEF free
  <2>. QED  BY <1>3, Least
<1>5. FreeSlot(k, slots) = At(k, slots, Min(free))
  BY DEF FreeSlot, At, Size
<1>6. ASSUME NEW e \in 0 .. Min(free) - 1  PROVE slots[At(k, slots, e)] # None
  <2>1. e \notin free /\ Min(free) \in 0 .. Size(slots) - 1
    <3>1. Min(free) \in DOMAIN slots /\ \A d \in free : Min(free) <= d
      BY <1>4
    <3>. HIDE DEF free
    <3>. QED  BY <1>1, <3>1
  <2>. QED  BY <1>1, <2>1
<1>. QED  BY <1>1, <1>4, <1>5, <1>6

(***************************************************************************)
(* The invariant.                                                          *)
(***************************************************************************)
Moving == UNION {[D -> Key] : D \in SUBSET Nat}

TypeInv ==
    /\ mKeys \in [Segment -> Array]
    /\ mOccupied \in [Segment -> Nat]
    /\ mLock \in [Segment -> Thread \cup {None}]
    /\ mEntryCount \in Nat
    /\ pc \in [Thread -> {"idle", "lock", "load", "rehash", "probe", "count"}]
    /\ call \in [Thread -> {"tryMarkProcessing", "contains"}]
    /\ key \in [Thread -> Key]
    /\ index \in [Thread -> Nat] /\ probe \in [Thread -> Nat]
    /\ oldKeys \in [Thread -> Moving]
    /\ answer \in [Thread -> BOOLEAN]

\* The threads that have the lock of their segment, and what the locks say.
Inside(t) == pc[t] \in {"load", "rehash", "probe"}
LockInv ==
    /\ \A t \in Thread : Inside(t) => mLock[My(t)] = t
    /\ \A s \in Segment : mLock[s] # None => Inside(mLock[s]) /\ My(mLock[s]) = s

\* An array: its paths, its counter, its load, and that its keys belong there.
\* Doubling leaves at most a quarter of the slots occupied, and one more.
SegmentInv(s) ==
    /\ PathsFree(mKeys[s])
    /\ mOccupied[s] = Cardinality(Occupied(mKeys[s]))
    /\ 2 * mOccupied[s] <= Size(mKeys[s]) + 2
    /\ \A k \in Keys(mKeys[s]) : segmentIndex[k] = s

\* The keys a thread has yet to move, which are not in the array and fit into it.
OldInv(t) ==
    /\ pc[t] # "rehash" => DOMAIN oldKeys[t] = {}
    /\ pc[t] = "rehash" =>
          /\ IsFiniteSet(DOMAIN oldKeys[t])
          /\ \A i, j \in DOMAIN oldKeys[t] : oldKeys[t][i] = oldKeys[t][j] => i = j
          /\ \A i \in DOMAIN oldKeys[t] :
                segmentIndex[oldKeys[t][i]] = My(t) /\ oldKeys[t][i] \notin Keys(mKeys[My(t)])
          /\ 4 * (mOccupied[My(t)] + Cardinality(DOMAIN oldKeys[t])) <= Size(mKeys[My(t)]) + 4
          /\ Size(mKeys[My(t)]) >= 8

\* Where a probing thread is on the path of its key, and what it has passed.
ProbeInv(t) ==
    /\ pc[t] # "probe" => index[t] = 0
    /\ pc[t] = "probe" =>
          /\ probe[t] <= Size(mKeys[My(t)])
          /\ index[t] = At(key[t], mKeys[My(t)], probe[t])
          /\ Passed(key[t], mKeys[My(t)], probe[t])
          /\ call[t] = "tryMarkProcessing" => 2 * mOccupied[My(t)] <= Size(mKeys[My(t)])

TableInv ==
    /\ TypeInv /\ LockInv
    /\ \A s \in Segment : SegmentInv(s)
    /\ \A t \in Thread : OldInv(t) /\ ProbeInv(t)

\* What all segments store, and the threads that have yet to count an entry.
Members == UNION {Stored(s) : s \in Segment}
Counting == {t \in Thread : pc[t] = "count"}
CountInv ==
    /\ IsFiniteSet(Members) /\ IsFiniteSet(Counting)
    /\ mEntryCount + Cardinality(Counting) = Cardinality(Members)

(* The initial table is empty. *)
LEMMA InitTable == Init => TableInv
<1>. SUFFICES ASSUME Init  PROVE TableInv
  OBVIOUS
<1>1. ASSUME NEW n \in Nat, n >= 4
      PROVE  /\ Slots(n) \in Array /\ PathsFree(Slots(n)) /\ Size(Slots(n)) = n
             /\ Occupied(Slots(n)) = {} /\ Keys(Slots(n)) = {}
  <2>1. Slots(n) \in [0 .. n - 1 -> Key \cup {None}]
    BY DEF Slots
  <2>2. Slots(n) \in Array
    BY <1>1, <2>1 DEF Array
  <2>3. Size(Slots(n)) = n
    BY <1>1, FS_Interval DEF Slots, Size
  <2>4. \A i \in DOMAIN Slots(n) : Slots(n)[i] = None
    BY DEF Slots
  <2>. QED  BY <2>2, <2>3, <2>4 DEF PathsFree, Occupied, Keys, Range
<1>2. InitialCapacity \in Nat /\ InitialCapacity >= 4
  BY TableAssumption
<1>3. \A t \in Thread : oldKeys[t] \in Moving /\ DOMAIN oldKeys[t] = {}
  <2>1. DOMAIN <<>> = {} /\ <<>> \in Seq(Key)
    OBVIOUS
  <2>2. <<>> \in [{} -> Key]
    BY <2>1
  <2>3. <<>> \in Moving
    BY <2>2 DEF Moving
  <2>. QED  BY <2>1, <2>3 DEF Init
<1>4. oldKeys \in [Thread -> Moving]
  BY <1>3 DEF Init
<1>5. TypeInv
  BY <1>1, <1>2, <1>4 DEF Init, TypeInv
<1>6. LockInv
  BY DEF Init, LockInv, Inside
<1>7. ASSUME NEW s \in Segment  PROVE SegmentInv(s)
  <2>1. mKeys[s] = Slots(InitialCapacity) /\ mOccupied[s] = 0
    BY DEF Init
  <2>. QED  BY <1>1, <1>2, <2>1, FS_EmptySet DEF SegmentInv
<1>8. ASSUME NEW t \in Thread  PROVE OldInv(t) /\ ProbeInv(t)
  BY <1>3 DEF Init, OldInv, ProbeInv
<1>. QED  BY <1>5, <1>6, <1>7, <1>8 DEF TableInv

(* What the invariant says of a thread inside and its segment. *)
LEMMA InsideFacts ==
    ASSUME TableInv, NEW t \in Thread
    PROVE  /\ My(t) \in Segment /\ key[t] \in Key /\ segmentIndex[key[t]] = My(t)
           /\ mKeys[My(t)] \in Array
           /\ Capacity(My(t)) = Size(mKeys[My(t)])
           /\ SegmentInv(My(t)) /\ OldInv(t) /\ ProbeInv(t)
           /\ Inside(t) => mLock[My(t)] = t
           /\ \A u \in Thread : u # t /\ Inside(t) /\ Inside(u) => My(u) # My(t)
BY TableAssumption DEF TableInv, TypeInv, My, LockInv, Capacity, Size

(* The keys held by whoever has a lock. *)
LEMMA HeldKeys ==
    ASSUME NEW lock \in Thread \cup {None}, NEW old
    PROVE  UNION {Range(old[t]) : t \in {u \in Thread : lock = u}}
              = IF lock = None THEN {} ELSE Range(old[lock])
BY TableAssumption

(* What a segment stores: its array, and what its lock's holder has yet to move. *)
LEMMA StoredKeys ==
    ASSUME TableInv, NEW s \in Segment, NEW k
    PROVE  k \in Stored(s) <=>
              \/ k \in Keys(mKeys[s])
              \/ mLock[s] # None /\ k \in Range(oldKeys[mLock[s]])
<1>1. mLock[s] \in Thread \cup {None}
  BY DEF TableInv, TypeInv
<1>. QED  BY <1>1, HeldKeys DEF Stored, Keys

(* A key is stored in its own segment, if it is stored. *)
LEMMA StoredWhere ==
    ASSUME TableInv, NEW s \in Segment, NEW k \in Stored(s)
    PROVE  k \in Key /\ segmentIndex[k] = s
<1>1. CASE k \in Keys(mKeys[s])
  <2>1. mKeys[s] \in Array
    BY DEF TableInv, TypeInv
  <2>. QED  BY <1>1, <2>1, ArrayFacts DEF TableInv, SegmentInv
<1>2. CASE mLock[s] # None /\ k \in Range(oldKeys[mLock[s]])
  <2>. DEFINE u == mLock[s]
  <2>1. u \in Thread /\ My(u) = s
    BY <1>2 DEF TableInv, TypeInv, LockInv
  <2>2. PICK i \in DOMAIN oldKeys[u] : oldKeys[u][i] = k
    BY <1>2 DEF Range
  <2>3. oldKeys[u] \in Moving /\ OldInv(u)
    BY <2>1 DEF TableInv, TypeInv
  <2>4. k \in Key
    BY <2>2, <2>3 DEF Moving
  <2>5. pc[u] = "rehash"
    BY <2>2, <2>3 DEF OldInv
  <2>. QED  BY <2>1, <2>2, <2>3, <2>4, <2>5 DEF OldInv
<1>. QED  BY <1>1, <1>2, StoredKeys

(***************************************************************************)
(* Steps.  A thread changes its own locals and, inside, its own segment.   *)
(***************************************************************************)
(* What a step of t leaves alone. *)
OthersKeep(t) ==
    /\ \A u \in Thread \ {t} :
          /\ pc'[u] = pc[u] /\ call'[u] = call[u] /\ key'[u] = key[u]
          /\ index'[u] = index[u] /\ probe'[u] = probe[u] /\ oldKeys'[u] = oldKeys[u]
    /\ \A s \in Segment : s # My(t) \/ ~Inside(t) =>
          mKeys'[s] = mKeys[s] /\ mOccupied'[s] = mOccupied[s]
    /\ \A s \in Segment : s # My(t) => mLock'[s] = mLock[s]

(* The invariants of the other threads and segments are kept. *)
LEMMA OthersSafe ==
    ASSUME TableInv, NEW t \in Thread, OthersKeep(t)
    PROVE  /\ \A u \in Thread \ {t} : (OldInv(u) /\ ProbeInv(u))'
           /\ \A s \in Segment : s # My(t) \/ ~Inside(t) => SegmentInv(s)'
<1>1. ASSUME NEW u \in Thread \ {t}  PROVE (OldInv(u) /\ ProbeInv(u))'
  <2>1. OldInv(u) /\ ProbeInv(u) /\ My(u) \in Segment
    BY InsideFacts
  <2>2. My(u)' = My(u)
    BY DEF OthersKeep, My
  <2>3. CASE Inside(u)
    <3>1. My(u) # My(t) \/ ~Inside(t)
      BY <2>3, InsideFacts
    <3>2. mKeys'[My(u)] = mKeys[My(u)] /\ mOccupied'[My(u)] = mOccupied[My(u)]
      BY <2>1, <3>1 DEF OthersKeep
    <3>3. OldInv(u)'
      BY <2>1, <2>2, <3>2 DEF OldInv, OthersKeep
    <3>4. ProbeInv(u)'
      BY <2>1, <2>2, <3>2 DEF ProbeInv, OthersKeep
    <3>. QED  BY <3>3, <3>4
  <2>4. CASE ~Inside(u)
    BY <2>1, <2>4 DEF OldInv, ProbeInv, OthersKeep, Inside
  <2>. QED  BY <2>3, <2>4
<1>2. ASSUME NEW s \in Segment, s # My(t) \/ ~Inside(t)  PROVE SegmentInv(s)'
  BY <1>2 DEF TableInv, SegmentInv, OthersKeep
<1>. QED  BY <1>1, <1>2

(* Locks that are not touched by a thread that stays where it is. *)
LEMMA LocksKept ==
    ASSUME TableInv, NEW t \in Thread, OthersKeep(t),
           mLock' = mLock, Inside(t)' <=> Inside(t), Inside(t) => key'[t] = key[t]
    PROVE  LockInv'
<1>1. ASSUME NEW u \in Thread, Inside(u)'  PROVE mLock'[My(u)'] = u
  <2>1. Inside(u) /\ My(u)' = My(u)
    BY <1>1 DEF OthersKeep, Inside, My
  <2>. QED  BY <2>1 DEF TableInv, LockInv
<1>2. ASSUME NEW s \in Segment, mLock'[s] # None
      PROVE  Inside(mLock[s])' /\ My(mLock[s])' = s
  <2>. DEFINE u == mLock[s]
  <2>1. u \in Thread /\ Inside(u) /\ My(u) = s
    BY <1>2 DEF TableInv, LockInv, TypeInv
  <2>. QED  BY <2>1 DEF OthersKeep, Inside, My
<1>. QED  BY <1>1, <1>2 DEF LockInv

(* Locks when a thread leaves its segment. *)
LEMMA LocksReleased ==
    ASSUME TableInv, NEW t \in Thread, OthersKeep(t), Inside(t), ~Inside(t)',
           mLock' = [mLock EXCEPT ![My(t)] = None]
    PROVE  LockInv'
<1>1. ASSUME NEW u \in Thread, Inside(u)'  PROVE mLock'[My(u)'] = u
  <2>1. u # t
    BY <1>1
  <2>2. Inside(u) /\ My(u)' = My(u) /\ My(u) # My(t) /\ My(u) \in Segment
    BY <1>1, <2>1, InsideFacts DEF OthersKeep, Inside, My
  <2>. QED  BY <2>2 DEF TableInv, LockInv, TypeInv
<1>2. ASSUME NEW s \in Segment, mLock'[s] # None
      PROVE  (Inside(mLock[s]) /\ My(mLock[s]) = s)'
  <2>1. s # My(t) /\ mLock'[s] = mLock[s]
    BY <1>2 DEF TableInv, TypeInv
  <2>2. PICK u \in Thread : u = mLock[s]
    BY <1>2, <2>1 DEF TableInv, TypeInv
  <2>3. u # t /\ Inside(u) /\ My(u) = s
    BY <1>2, <2>1, <2>2 DEF TableInv, LockInv
  <2>4. pc'[u] = pc[u] /\ key'[u] = key[u]
    BY <2>3 DEF OthersKeep
  <2>. QED  BY <2>1, <2>2, <2>3, <2>4 DEF Inside, My
<1>. QED  BY <1>1, <1>2 DEF LockInv

(* What a step of t does to the members is what it does to its own segment. *)
LEMMA MembersChange ==
    ASSUME TableInv, NEW t \in Thread, OthersKeep(t), TypeInv',
           NEW s \in Segment, s = My(t), NEW K, Stored(s)' = Stored(s) \cup K
    PROVE  Members' = Members \cup K
<1>1. ASSUME NEW r \in Segment, r # s  PROVE Stored(r)' = Stored(r)
  <2>1. mKeys'[r] = mKeys[r] /\ mLock'[r] = mLock[r]
    BY <1>1 DEF OthersKeep
  <2>2. mLock[r] # None => mLock[r] \in Thread \ {t}
    BY <1>1 DEF TableInv, LockInv, TypeInv
  <2>3. mLock[r] # None => oldKeys'[mLock[r]] = oldKeys[mLock[r]]
    BY <2>2 DEF OthersKeep
  <2>4. mLock[r] \in Thread \cup {None}
    BY DEF TableInv, TypeInv
  <2>. QED  BY <2>1, <2>3, <2>4, HeldKeys DEF Stored
<1>. QED  BY <1>1 DEF Members

(* A thread that has nothing to move gets or leaves its lock, or stays. *)
LEMMA NothingMoved ==
    ASSUME TableInv, NEW t \in Thread, OthersKeep(t), TypeInv',
           UNCHANGED <<mKeys, oldKeys>>, DOMAIN oldKeys[t] = {},
           \A s \in Segment : s = My(t) =>
              mLock'[s] = mLock[s] \/ {mLock[s], mLock'[s]} \subseteq {t, None}
    PROVE  Members' = Members
<1>1. My(t) \in Segment
  BY InsideFacts
<1>2. PICK s \in Segment : s = My(t)
  BY <1>1
<1>3. Range(oldKeys[t]) = {}
  BY DEF Range
<1>4. mLock[s] \in Thread \cup {None} /\ mLock'[s] \in Thread \cup {None}
  BY DEF TableInv, TypeInv
<1>5. mLock'[s] = mLock[s] \/ {mLock[s], mLock'[s]} \subseteq {t, None}
  BY <1>2
<1>6. Stored(s)' = Stored(s)
  BY <1>3, <1>4, <1>5, HeldKeys DEF Stored
<1>. QED  BY <1>2, <1>6, MembersChange

(* What is left to show of a step of t. *)
LEMMA StepSafe ==
    ASSUME TableInv, NEW t \in Thread, OthersKeep(t), TypeInv', LockInv',
           (OldInv(t) /\ ProbeInv(t))',
           \A s \in Segment : s = My(t) /\ Inside(t) => SegmentInv(s)'
    PROVE  TableInv'
<1>1. \A s \in Segment : SegmentInv(s)'
  BY OthersSafe
<1>2. \A u \in Thread : (OldInv(u) /\ ProbeInv(u))'
  BY OthersSafe
<1>. QED  BY <1>1, <1>2 DEF TableInv

(* Probing begins at a key's own slot, with nothing passed. *)
LEMMA FirstProbe ==
    ASSUME NEW slots \in Array, NEW k \in Key
    PROVE  /\ hashToIndex(k, Size(slots)) = At(k, slots, 0)
           /\ hashToIndex(k, Size(slots)) \in Nat
           /\ Passed(k, slots, 0)
<1>. DEFINE n == Size(slots)
            h == hashToIndex(k, n)
<1>1. n \in Nat /\ n >= 4 /\ h \in 0 .. n - 1
  BY ArrayFacts
<1>2. At(k, slots, 0) = (h + 0) % n
  BY DEF At
<1>3. Passed(k, slots, 0)
  BY DEF Passed
<1>. HIDE DEF n, h
<1>4. (h + 0) % n = h
  BY <1>1, Around
<1>. QED  BY <1>1, <1>2, <1>3, <1>4 DEF n, h

(* An operation is called. *)
LEMMA InvokeStep ==
    ASSUME TableInv, NEW t \in Thread, NEW operation \in {"tryMarkProcessing", "contains"},
           NEW k \in Key, Invoke(t, operation, k)
    PROVE  TableInv' /\ Members' = Members
<1>. USE DEF Invoke, Goto, table
<1>1. OthersKeep(t)
  BY DEF OthersKeep, TableInv, TypeInv
<1>2. TypeInv'
  BY DEF TableInv, TypeInv
<1>3. LockInv'
  BY <1>1, LocksKept DEF Inside, TableInv, TypeInv
<1>4. (OldInv(t) /\ ProbeInv(t))' /\ DOMAIN oldKeys[t] = {}
  BY InsideFacts DEF OldInv, ProbeInv, TableInv, TypeInv
<1>. QED  BY <1>1, <1>2, <1>3, <1>4, StepSafe, NothingMoved DEF Inside

(* The lock is taken. *)
LEMMA LockStep ==
    ASSUME TableInv, NEW t \in Thread, Lock(t)
    PROVE  TableInv' /\ Members' = Members
<1>. USE DEF Lock, Goto, StartProbing
<1>1. My(t) \in Segment /\ key[t] \in Key /\ mKeys[My(t)] \in Array /\ OldInv(t) /\ ProbeInv(t)
      /\ Capacity(My(t)) = Size(mKeys[My(t)])
  BY InsideFacts
<1>2. mLock'[My(t)] = t /\ \A s \in Segment \ {My(t)} : mLock'[s] = mLock[s]
  BY <1>1 DEF TableInv, TypeInv
<1>3. OthersKeep(t)
  BY <1>2 DEF OthersKeep, TableInv, TypeInv
<1>4. hashToIndex(key[t], Capacity(My(t))) \in Nat
  BY <1>1, FirstProbe
<1>5. TypeInv'
  <2>1. mLock' \in [Segment -> Thread \cup {None}]
    BY DEF TableInv, TypeInv
  <2>2. pc' \in [Thread -> {"idle", "lock", "load", "rehash", "probe", "count"}]
    BY DEF TableInv, TypeInv
  <2>3. index' \in [Thread -> Nat] /\ probe' \in [Thread -> Nat]
    BY <1>4 DEF TableInv, TypeInv
  <2>. QED  BY <2>1, <2>2, <2>3 DEF TableInv, TypeInv
<1>6. My(t)' = My(t) /\ ~Inside(t) /\ Inside(t)' /\ t # None
  BY TableAssumption DEF My, Inside, TableInv, TypeInv
<1>7. LockInv'
  <2>1. ASSUME NEW u \in Thread, Inside(u)'  PROVE mLock'[My(u)'] = u
    <3>1. CASE u = t
      BY <1>2, <1>6, <3>1
    <3>2. CASE u # t
      <4>1. Inside(u) /\ My(u)' = My(u) /\ My(u) \in Segment /\ mLock[My(u)] = u
        BY <2>1, <3>2, <1>3, InsideFacts DEF OthersKeep, Inside, My
      <4>2. u # None
        BY TableAssumption
      <4>. QED  BY <4>1, <4>2, <1>2
    <3>. QED  BY <3>1, <3>2
  <2>2. ASSUME NEW s \in Segment, mLock'[s] # None, s # My(t)
        PROVE  (Inside(mLock[s]) /\ My(mLock[s]) = s)'
    <3>1. mLock'[s] = mLock[s]
      BY <2>2, <1>2
    <3>2. PICK u \in Thread : u = mLock[s]
      BY <2>2, <3>1 DEF TableInv, TypeInv
    <3>3. u # t /\ Inside(u) /\ My(u) = s
      BY <2>2, <3>1, <3>2 DEF TableInv, LockInv
    <3>4. pc'[u] = pc[u] /\ key'[u] = key[u]
      BY <3>3, <1>3 DEF OthersKeep
    <3>. QED  BY <3>1, <3>2, <3>3, <3>4 DEF Inside, My
  <2>3. ASSUME NEW s \in Segment, s = My(t)
        PROVE  (Inside(mLock[s]) /\ My(mLock[s]) = s)'
    BY <2>3, <1>2, <1>6 DEF Inside, My
  <2>. QED  BY <2>1, <2>2, <2>3 DEF LockInv
<1>8. OldInv(t)' /\ DOMAIN oldKeys[t] = {}
  BY <1>1 DEF OldInv, TableInv, TypeInv
<1>9. ProbeInv(t)'
  <2>1. CASE call[t] = "tryMarkProcessing"
    BY <2>1, <1>1 DEF ProbeInv, TableInv, TypeInv
  <2>2. CASE call[t] = "contains"
    <3>1. probe'[t] = 0 /\ index'[t] = hashToIndex(key[t], Size(mKeys[My(t)]))
      BY <2>2, <1>1 DEF TableInv, TypeInv
    <3>2. Size(mKeys[My(t)]) \in Nat
      BY <1>1, ArrayFacts
    <3>3. /\ At(key[t], mKeys[My(t)], 0) = index'[t]
          /\ Passed(key[t], mKeys[My(t)], 0)
      BY <3>1, <1>1, FirstProbe
    <3>. QED  BY <2>2, <3>1, <3>2, <3>3, <1>6 DEF ProbeInv, TableInv, TypeInv
  <2>. QED  BY <2>1, <2>2 DEF TableInv, TypeInv
<1>. QED  BY <1>2, <1>3, <1>5, <1>6, <1>7, <1>8, <1>9, StepSafe, NothingMoved

(* The array is not too full, and probing begins. *)
LEMMA NoRehashStep ==
    ASSUME TableInv, NEW t \in Thread, NoRehash(t)
    PROVE  TableInv' /\ Members' = Members
<1>. USE DEF NoRehash, Goto, StartProbing, table
<1>1. /\ My(t) \in Segment /\ key[t] \in Key /\ mKeys[My(t)] \in Array
      /\ SegmentInv(My(t)) /\ OldInv(t) /\ Capacity(My(t)) = Size(mKeys[My(t)])
  BY InsideFacts
<1>2. OthersKeep(t)
  BY DEF OthersKeep, TableInv, TypeInv
<1>3. /\ index'[t] = At(key[t], mKeys[My(t)], 0) /\ index'[t] \in Nat
      /\ probe'[t] = 0 /\ Passed(key[t], mKeys[My(t)], 0)
  BY <1>1, FirstProbe DEF TableInv, TypeInv
<1>4. TypeInv'
  BY <1>3 DEF TableInv, TypeInv
<1>5. pc'[t] = "probe" /\ pc[t] = "load" /\ Inside(t) /\ Inside(t)' /\ My(t)' = My(t)
  BY DEF Inside, My, TableInv, TypeInv
<1>6. LockInv'
  BY <1>2, <1>5, LocksKept
<1>7. 2 * mOccupied[My(t)] <= Size(mKeys[My(t)]) /\ 0 <= Size(mKeys[My(t)])
  BY <1>1, ArrayFacts DEF Loaded, TableInv, TypeInv
<1>8. OldInv(t)' /\ DOMAIN oldKeys[t] = {}
  BY <1>1, <1>5 DEF OldInv
<1>9. ProbeInv(t)'
  BY <1>3, <1>5, <1>7 DEF ProbeInv
<1>10. \A s \in Segment : s = My(t) => SegmentInv(s)'
  BY <1>1 DEF SegmentInv
<1>. QED  BY <1>2, <1>4, <1>6, <1>8, <1>9, <1>10, StepSafe, NothingMoved

(* All keys have been moved, and probing begins. *)
LEMMA EndRehashStep ==
    ASSUME TableInv, NEW t \in Thread, EndRehash(t)
    PROVE  TableInv' /\ Members' = Members
<1>. USE DEF EndRehash, Goto, StartProbing, table
<1>1. /\ My(t) \in Segment /\ key[t] \in Key /\ mKeys[My(t)] \in Array
      /\ SegmentInv(My(t)) /\ OldInv(t) /\ Capacity(My(t)) = Size(mKeys[My(t)])
  BY InsideFacts
<1>2. OthersKeep(t)
  BY DEF OthersKeep, TableInv, TypeInv
<1>3. /\ index'[t] = At(key[t], mKeys[My(t)], 0) /\ index'[t] \in Nat
      /\ probe'[t] = 0 /\ Passed(key[t], mKeys[My(t)], 0)
  BY <1>1, FirstProbe DEF TableInv, TypeInv
<1>4. TypeInv'
  BY <1>3 DEF TableInv, TypeInv
<1>5. pc'[t] = "probe" /\ pc[t] = "rehash" /\ Inside(t) /\ Inside(t)' /\ My(t)' = My(t)
  BY DEF Inside, My, TableInv, TypeInv
<1>6. LockInv'
  BY <1>2, <1>5, LocksKept
<1>7. 2 * mOccupied[My(t)] <= Size(mKeys[My(t)]) /\ 0 <= Size(mKeys[My(t)])
  <2>1. 4 * mOccupied[My(t)] <= Size(mKeys[My(t)]) + 4 /\ Size(mKeys[My(t)]) >= 8
    BY <1>1, <1>5, FS_EmptySet DEF OldInv, TableInv, TypeInv
  <2>. QED  BY <2>1, <1>1, ArrayFacts DEF TableInv, TypeInv
<1>8. OldInv(t)' /\ DOMAIN oldKeys[t] = {}
  BY <1>1, <1>5 DEF OldInv
<1>9. ProbeInv(t)'
  BY <1>3, <1>5, <1>7 DEF ProbeInv
<1>10. \A s \in Segment : s = My(t) => SegmentInv(s)'
  BY <1>1 DEF SegmentInv
<1>. QED  BY <1>2, <1>4, <1>6, <1>8, <1>9, <1>10, StepSafe, NothingMoved

(* The slot has another key, and there is a next slot: the array is not full. *)
LEMMA NextProbeStep ==
    ASSUME TableInv, NEW t \in Thread, NextProbe(t)
    PROVE  TableInv' /\ Members' = Members
<1>. USE DEF NextProbe, Probing, table
<1>. DEFINE s == My(t)
            k == key[t]
            n == Size(mKeys[s])
            d == probe[t]
<1>1. /\ s \in Segment /\ k \in Key /\ mKeys[s] \in Array
      /\ SegmentInv(s) /\ OldInv(t) /\ ProbeInv(t) /\ Capacity(s) = n
  BY InsideFacts
<1>2. OthersKeep(t)
  BY DEF OthersKeep, TableInv, TypeInv
<1>3. n \in Nat /\ n >= 4 /\ d \in 0 .. n - 1 /\ hashToIndex(k, n) \in 0 .. n - 1
  BY <1>1, ArrayFacts DEF TableInv, TypeInv
<1>4. index[t] = At(k, mKeys[s], d) /\ Passed(k, mKeys[s], d)
  BY <1>1 DEF ProbeInv
<1>5. (index[t] + 1) % n = At(k, mKeys[s], d + 1)
  <2>. DEFINE h == hashToIndex(k, n)
  <2>1. index[t] = (h + d) % n /\ At(k, mKeys[s], d + 1) = (h + (d + 1)) % n
    BY <1>4 DEF At
  <2>2. n \in Nat /\ n > 0 /\ h \in 0 .. n - 1 /\ d \in 0 .. n - 1
    BY <1>3
  <2>. HIDE DEF h, n, d, s, k
  <2>3. (((h + d) % n) + 1) % n = (h + (d + 1)) % n
    BY <2>2, NextAround
  <2>. QED  BY <2>1, <2>3
<1>6. At(k, mKeys[s], d + 1) \in Nat
  <2>1. d + 1 \in Nat
    BY <1>3
  <2>2. At(k, mKeys[s], d + 1) \in DOMAIN mKeys[s] /\ DOMAIN mKeys[s] = 0 .. n - 1
    BY <1>1, <2>1, ArrayFacts
  <2>. QED  BY <1>3, <2>2
<1>7. index'[t] = At(k, mKeys[s], d + 1) /\ probe'[t] = d + 1
  BY <1>1, <1>5 DEF TableInv, TypeInv
<1>8. Passed(k, mKeys[s], d + 1)
  <2>1. ASSUME NEW e \in 0 .. (d + 1) - 1  PROVE mKeys[s][At(k, mKeys[s], e)] \notin {None, k}
    <3>1. CASE e = d
      BY <3>1, <1>4 DEF Slot
    <3>2. CASE e # d
      <4>1. e \in 0 .. d - 1
        BY <3>2, <1>3
      <4>. QED  BY <4>1, <1>4 DEF Passed
    <3>. QED  BY <3>1, <3>2
  <2>. HIDE DEF s, k, d
  <2>. QED  BY <2>1 DEF Passed
<1>9. TypeInv'
  <2>1. probe' \in [Thread -> Nat] /\ index' \in [Thread -> Nat]
    <3>1. (index[t] + 1) % Capacity(s) \in Nat /\ d + 1 \in Nat
      BY <1>1, <1>3, <1>5, <1>6
    <3>. QED  BY <3>1 DEF TableInv, TypeInv
  <2>. QED  BY <2>1 DEF TableInv, TypeInv
<1>10. Inside(t) /\ Inside(t)' /\ My(t)' = s
  BY DEF Inside, My
<1>11. LockInv'
  BY <1>2, <1>10, LocksKept
<1>12. OldInv(t)' /\ DOMAIN oldKeys[t] = {}
  BY <1>1 DEF OldInv
<1>13. ProbeInv(t)'
  BY <1>1, <1>3, <1>7, <1>8, <1>10 DEF ProbeInv
<1>14. SegmentInv(s) /\ \A r \in Segment : r = My(t) => SegmentInv(r)'
  BY <1>1 DEF SegmentInv
<1>. QED  BY <1>2, <1>9, <1>11, <1>12, <1>13, <1>14, StepSafe, NothingMoved

(* A probe returns with the lock released: what Found and Missing share. *)
LEMMA AnswerStep ==
    ASSUME TableInv, NEW t \in Thread, pc[t] = "probe", Goto(t, "probe", "idle"),
           NEW what \in BOOLEAN, answer' = [answer EXCEPT ![t] = what], Unlock(t),
           UNCHANGED <<mKeys, mOccupied, mEntryCount, call, key, oldKeys>>
    PROVE  TableInv' /\ Members' = Members
<1>. USE DEF Goto, Unlock
<1>1. My(t) \in Segment /\ SegmentInv(My(t)) /\ OldInv(t) /\ mLock[My(t)] = t
  BY InsideFacts DEF Inside
<1>2. mLock'[My(t)] = None /\ \A s \in Segment \ {My(t)} : mLock'[s] = mLock[s]
  BY <1>1 DEF TableInv, TypeInv
<1>3. OthersKeep(t)
  BY <1>2 DEF OthersKeep, TableInv, TypeInv
<1>4. TypeInv'
  BY DEF TableInv, TypeInv
<1>5. pc'[t] = "idle" /\ index'[t] = 0 /\ Inside(t) /\ ~Inside(t)'
  BY DEF Inside, TableInv, TypeInv
<1>6. LockInv'
  BY <1>3, <1>5, LocksReleased
<1>7. OldInv(t)' /\ ProbeInv(t)' /\ DOMAIN oldKeys[t] = {}
  BY <1>1, <1>5 DEF OldInv, ProbeInv
<1>8. \A s \in Segment : s = My(t) => SegmentInv(s)'
  BY <1>1 DEF SegmentInv
<1>. QED  BY <1>1, <1>2, <1>3, <1>4, <1>6, <1>7, <1>8, StepSafe, NothingMoved

(* The entry is counted. *)
LEMMA CountStep ==
    ASSUME TableInv, NEW t \in Thread, Count(t)
    PROVE  TableInv' /\ Members' = Members
<1>. USE DEF Count, Goto
<1>1. OthersKeep(t)
  BY DEF OthersKeep, TableInv, TypeInv
<1>2. TypeInv'
  BY DEF TableInv, TypeInv
<1>3. LockInv'
  BY <1>1, LocksKept DEF Inside, TableInv, TypeInv
<1>4. (OldInv(t) /\ ProbeInv(t))' /\ DOMAIN oldKeys[t] = {}
  BY InsideFacts DEF OldInv, ProbeInv, TableInv, TypeInv
<1>. QED  BY <1>1, <1>2, <1>3, <1>4, StepSafe, NothingMoved DEF Inside

(* The key is put into the free slot at which its path has ended, and becomes a
   member; it was none. *)
LEMMA InsertStep ==
    ASSUME TableInv, NEW t \in Thread, Insert(t)
    PROVE  TableInv' /\ Members' = Members \cup {key[t]} /\ key[t] \notin Members
<1>. USE DEF Insert, Goto, Probing, Unlock
<1>0. PICK s \in Segment : s = My(t)
  BY InsideFacts
<1>. DEFINE k == key[t]
            old == mKeys[s]
            new == mKeys'[s]
<1>1. /\ k \in Key /\ segmentIndex[k] = s /\ old \in Array /\ SegmentInv(s) /\ OldInv(t)
      /\ ProbeInv(t) /\ Capacity(s) = Size(old) /\ mLock[s] = t
  BY <1>0, InsideFacts DEF Inside
<1>2. probe[t] \in 0 .. Size(old) - 1 /\ Passed(k, old, probe[t])
      /\ old[At(k, old, probe[t])] = None /\ index[t] = At(k, old, probe[t])
  BY <1>0, <1>1, ArrayFacts DEF ProbeInv, Slot, TableInv, TypeInv
<1>3. k \notin Keys(old)
  BY <1>1, <1>2, FreeMeansAbsent DEF SegmentInv
<1>4. new = [old EXCEPT ![At(k, old, probe[t])] = k]
      /\ \A r \in Segment \ {s} : mKeys'[r] = mKeys[r]
  BY <1>0, <1>2 DEF TableInv, TypeInv
<1>5. /\ new \in Array /\ Size(new) = Size(old) /\ PathsFree(new) /\ Keys(new) = Keys(old) \cup {k}
      /\ Cardinality(Occupied(new)) = Cardinality(Occupied(old)) + 1
  <2>1. PathsFree(old) /\ old \in Array /\ k \in Key
    BY <1>1 DEF SegmentInv
  <2>. HIDE DEF old, new, k, Insert, Goto, Probing, Unlock
  <2>2. PICK d \in 0 .. Size(old) - 1 : d = probe[t]
    BY <1>2
  <2>3. /\ old[At(k, old, d)] = None
        /\ \A e \in 0 .. d - 1 : old[At(k, old, e)] # None
    BY <1>2, <2>2 DEF Passed
  <2>4. new = [old EXCEPT ![At(k, old, d)] = k]
    BY <1>4, <2>2
  <2>. QED  BY <1>3, <2>1, <2>3, <2>4, PlaceKey
<1>6. mOccupied'[s] = mOccupied[s] + 1 /\ \A r \in Segment \ {s} : mOccupied'[r] = mOccupied[r]
  BY <1>0 DEF TableInv, TypeInv
<1>7. mLock'[s] = None /\ \A r \in Segment \ {s} : mLock'[r] = mLock[r]
  BY <1>0 DEF TableInv, TypeInv
<1>8. OthersKeep(t)
  BY <1>0, <1>4, <1>6, <1>7 DEF OthersKeep, TableInv, TypeInv, Inside
<1>9. TypeInv'
  <2>1. mKeys' \in [Segment -> Array]
    BY <1>4, <1>5 DEF TableInv, TypeInv
  <2>2. mOccupied' \in [Segment -> Nat]
    BY <1>6 DEF TableInv, TypeInv
  <2>3. mLock' \in [Segment -> Thread \cup {None}]
    BY DEF TableInv, TypeInv
  <2>4. pc' \in [Thread -> {"idle", "lock", "load", "rehash", "probe", "count"}]
        /\ index' \in [Thread -> Nat] /\ probe' \in [Thread -> Nat] /\ answer' \in [Thread -> BOOLEAN]
    BY DEF TableInv, TypeInv
  <2>. QED  BY <2>1, <2>2, <2>3, <2>4 DEF TableInv, TypeInv
<1>10. pc'[t] = "count" /\ index'[t] = 0 /\ Inside(t) /\ ~Inside(t)'
  BY DEF Inside, TableInv, TypeInv
<1>11. LockInv'
  BY <1>8, <1>10, LocksReleased
<1>12. DOMAIN oldKeys[t] = {} /\ OldInv(t)' /\ ProbeInv(t)'
  BY <1>1, <1>10 DEF OldInv, ProbeInv
<1>13. SegmentInv(s)'
  <2>1. 2 * (mOccupied[s] + 1) <= Size(old) + 2 /\ mOccupied[s] = Cardinality(Occupied(old))
    <3>1. Size(old) \in Nat /\ mOccupied[s] \in Nat
      BY <1>1, ArrayFacts DEF TableInv, TypeInv
    <3>. QED  BY <1>0, <1>1, <3>1 DEF ProbeInv, SegmentInv
  <2>2. \A c \in Keys(new) : segmentIndex[c] = s
    BY <1>1, <1>5 DEF SegmentInv
  <2>. QED  BY <1>5, <1>6, <2>1, <2>2 DEF SegmentInv
<1>14. TableInv'
  BY <1>0, <1>8, <1>9, <1>11, <1>12, <1>13, StepSafe
<1>15. Range(oldKeys[t]) = {} /\ Range(oldKeys'[t]) = {}
  BY <1>12 DEF Range
<1>16. Stored(s) = Keys(old) /\ Stored(s)' = Keys(new)
  <2>1. t \in Thread \cup {None} /\ None \in Thread \cup {None} /\ t # None
    BY TableAssumption
  <2>2. Stored(s) = Keys(old)
    BY <1>1, <1>15, <2>1, HeldKeys DEF Stored, Keys
  <2>3. UNION {Range(oldKeys'[u]) : u \in {v \in Thread : mLock'[s] = v}} = {}
    BY <1>7, <2>1, HeldKeys, SMTT(30)
  <2>4. Stored(s)' = Keys(new)
    BY <2>3 DEF Stored, Keys
  <2>. QED  BY <2>2, <2>4
<1>17. Members' = Members \cup {k}
  BY <1>0, <1>5, <1>8, <1>9, <1>16, MembersChange
<1>18. k \notin Members
  <2>1. ASSUME NEW r \in Segment, k \in Stored(r)  PROVE FALSE
    <3>1. r = s
      BY <2>1, <1>1, StoredWhere
    <3>. QED  BY <2>1, <3>1, <1>3, <1>16
  <2>. QED  BY <2>1 DEF Members
<1>. QED  BY <1>14, <1>17, <1>18

(* The old array is put aside with its keys, and one twice as large is empty. *)
LEMMA AllocateStep ==
    ASSUME TableInv, NEW t \in Thread, Allocate(t)
    PROVE  TableInv' /\ Members' = Members
<1>. USE DEF Allocate, Goto
<1>0. PICK s \in Segment : s = My(t)
  BY InsideFacts
<1>. DEFINE old == mKeys[s]
            n == Size(old)
            new == Slots(2 * n)
            moving == Restrict(old, Occupied(old))
<1>1. /\ key[t] \in Key /\ old \in Array /\ SegmentInv(s) /\ OldInv(t)
      /\ Capacity(s) = n /\ mLock[s] = t
  BY <1>0, InsideFacts DEF Inside
<1>2. /\ n \in Nat /\ n >= 4 /\ DOMAIN old = 0 .. n - 1 /\ old \in [0 .. n - 1 -> Key \cup {None}]
      /\ IsFiniteSet(Occupied(old)) /\ Cardinality(Occupied(old)) \in Nat
  BY <1>1, ArrayFacts
<1>3. /\ new \in Array /\ Size(new) = 2 * n /\ PathsFree(new)
      /\ Occupied(new) = {} /\ Keys(new) = {}
  <2>1. new = [i \in 0 .. 2 * n - 1 |-> None] /\ 2 * n \in Nat /\ 2 * n >= 4
    BY <1>2 DEF Slots
  <2>2. new \in [0 .. 2 * n - 1 -> Key \cup {None}]
    BY <2>1
  <2>3. new \in Array
    BY <2>1, <2>2 DEF Array
  <2>4. DOMAIN new = 0 .. 2 * n - 1 /\ Size(new) = 2 * n
    BY <2>1, FS_Interval DEF Size
  <2>5. \A i \in DOMAIN new : new[i] = None
    BY <2>1
  <2>. HIDE DEF new
  <2>. QED  BY <2>3, <2>4, <2>5 DEF PathsFree, Occupied, Keys, Range
<1>4. /\ DOMAIN moving = Occupied(old) /\ moving \in Moving
      /\ \A i \in Occupied(old) : moving[i] = old[i]
  <2>1. moving = [i \in Occupied(old) |-> old[i]]
    BY DEF Restrict
  <2>2. \A i \in Occupied(old) : old[i] \in Key /\ i \in Nat
    BY <1>2 DEF Occupied
  <2>. HIDE DEF moving
  <2>. QED  BY <2>1, <2>2 DEF Moving
<1>5. Range(moving) = Keys(old)
  BY <1>2, <1>4 DEF Range, Keys, Occupied
<1>6. /\ mKeys'[s] = new /\ mOccupied'[s] = 0 /\ oldKeys'[t] = moving
      /\ \A r \in Segment \ {s} : mKeys'[r] = mKeys[r] /\ mOccupied'[r] = mOccupied[r]
  BY <1>0, <1>1 DEF TableInv, TypeInv
<1>7. OthersKeep(t)
  BY <1>0, <1>6 DEF OthersKeep, TableInv, TypeInv, Inside
<1>8. TypeInv'
  <2>1. mKeys' \in [Segment -> Array]
    BY <1>3, <1>6 DEF TableInv, TypeInv
  <2>2. mOccupied' \in [Segment -> Nat]
    BY DEF TableInv, TypeInv
  <2>3. oldKeys' \in [Thread -> Moving]
    BY <1>0, <1>4 DEF TableInv, TypeInv
  <2>4. pc' \in [Thread -> {"idle", "lock", "load", "rehash", "probe", "count"}]
    BY DEF TableInv, TypeInv
  <2>. QED  BY <2>1, <2>2, <2>3, <2>4 DEF TableInv, TypeInv
<1>9. pc'[t] = "rehash" /\ pc[t] = "load" /\ Inside(t) /\ Inside(t)' /\ My(t)' = s
  BY <1>0 DEF Inside, My, TableInv, TypeInv
<1>10. LockInv'
  BY <1>7, <1>9, LocksKept
<1>11. SegmentInv(s)'
  <2>1. mOccupied'[s] = Cardinality(Occupied(mKeys'[s])) /\ PathsFree(mKeys'[s])
    BY <1>3, <1>6, FS_EmptySet
  <2>2. 2 * mOccupied'[s] <= Size(mKeys'[s]) + 2 /\ Keys(mKeys'[s]) = {}
    BY <1>2, <1>3, <1>6
  <2>. QED  BY <2>1, <2>2 DEF SegmentInv
<1>12. OldInv(t)'
  <2>1. \A i, j \in Occupied(old) : old[i] = old[j] => i = j
    <3>. SUFFICES ASSUME NEW i \in Occupied(old), NEW j \in Occupied(old), old[i] = old[j]
                  PROVE  i = j
      OBVIOUS
    <3>. DEFINE k == old[i]
                home == hashToIndex(k, n)
                a == (i - home) % n
                b == (j - home) % n
    <3>1. k \in Key /\ k # None /\ i \in DOMAIN old /\ j \in DOMAIN old
      BY <1>2 DEF Occupied
    <3>2. a \in 0 .. n - 1 /\ b \in 0 .. n - 1 /\ At(k, old, a) = i /\ At(k, old, b) = j
      BY <1>1, <3>1, Distance
    <3>3. Passed(k, old, a) /\ Passed(k, old, b)
      BY <1>1, <3>1 DEF SegmentInv, PathsFree
    <3>. HIDE DEF a, b, k
    <3>4. CASE a < b
      BY <3>1, <3>2, <3>3, <3>4 DEF Passed, k
    <3>5. CASE b < a
      BY <3>1, <3>2, <3>3, <3>5 DEF Passed, k
    <3>. QED  BY <3>2, <3>4, <3>5
  <2>2. \A i \in Occupied(old) : segmentIndex[old[i]] = s
    BY <1>1, <1>5, <1>4 DEF SegmentInv, Range
  <2>3. 4 * (0 + Cardinality(Occupied(old))) <= 2 * n + 4 /\ 2 * n >= 8
    BY <1>1, <1>2 DEF SegmentInv
  <2>. HIDE DEF moving, new, old, n
  <2>4. IsFiniteSet(DOMAIN moving) /\ \A i \in DOMAIN moving : moving[i] \notin Keys(new)
    BY <1>2, <1>3, <1>4
  <2>5. /\ \A i, j \in DOMAIN moving : moving[i] = moving[j] => i = j
        /\ \A i \in DOMAIN moving : segmentIndex[moving[i]] = s
    BY <1>4, <2>1, <2>2
  <2>6. 4 * (mOccupied'[s] + Cardinality(DOMAIN moving)) <= Size(new) + 4 /\ Size(new) >= 8
    BY <1>3, <1>4, <1>6, <2>3
  <2>. QED  BY <1>6, <1>9, <2>4, <2>5, <2>6 DEF OldInv
<1>13. ProbeInv(t)'
  BY <1>9, InsideFacts DEF ProbeInv
<1>14. TableInv'
  BY <1>0, <1>7, <1>8, <1>10, <1>11, <1>12, <1>13, StepSafe
<1>15. Stored(s)' = Stored(s)
  <2>1. t \in Thread \cup {None} /\ t # None
    BY TableAssumption
  <2>2. Range(oldKeys[t]) = {}
    BY <1>1, <1>9 DEF OldInv, Range
  <2>3. Stored(s) = Keys(old)
    BY <1>1, <2>1, <2>2, HeldKeys DEF Stored, Keys
  <2>4. Stored(s)' = Keys(new) \cup Range(moving)
    BY <1>1, <1>6, <2>1, HeldKeys DEF Stored, Keys
  <2>. QED  BY <2>3, <2>4, <1>3, <1>5
<1>16. Stored(s)' = Stored(s) \cup {}
  BY <1>15
<1>17. Members' = Members \cup {}
  BY <1>0, <1>7, <1>8, <1>16, MembersChange
<1>. QED  BY <1>14, <1>17

(* One key goes from the old array to the new one, which has room for it. *)
LEMMA MoveKeyStep ==
    ASSUME TableInv, NEW t \in Thread, MoveKey(t)
    PROVE  TableInv' /\ Members' = Members
<1>. USE DEF MoveKey
<1>0. PICK s \in Segment : s = My(t)
  BY InsideFacts
<1>. DEFINE slots == mKeys[s]
            new == mKeys'[s]
            rest == oldKeys[t]
            i == Min(DOMAIN rest)
            k == rest[i]
<1>1. /\ slots \in Array /\ SegmentInv(s) /\ OldInv(t) /\ mLock[s] = t /\ rest \in Moving
      /\ pc[t] = "rehash" /\ DOMAIN rest # {}
  BY <1>0, InsideFacts DEF Inside, TableInv, TypeInv
<1>2. i \in DOMAIN rest /\ k \in Key /\ DOMAIN rest \in SUBSET Nat
  <2>1. DOMAIN rest \in SUBSET Nat /\ \A j \in DOMAIN rest : rest[j] \in Key
    BY <1>1 DEF Moving
  <2>. HIDE DEF rest
  <2>2. i \in DOMAIN rest
    BY <1>1, <2>1, Least
  <2>. QED  BY <2>1, <2>2
<1>3. /\ IsFiniteSet(DOMAIN rest)
      /\ \A a, b \in DOMAIN rest : rest[a] = rest[b] => a = b
      /\ \A a \in DOMAIN rest : segmentIndex[rest[a]] = s /\ rest[a] \notin Keys(slots)
      /\ 4 * (mOccupied[s] + Cardinality(DOMAIN rest)) <= Size(slots) + 4
      /\ Size(slots) >= 8
  BY <1>0, <1>1 DEF OldInv
<1>4. /\ IsFiniteSet(DOMAIN rest \ {i})
      /\ Cardinality(DOMAIN rest \ {i}) = Cardinality(DOMAIN rest) - 1
      /\ Cardinality(DOMAIN rest) \in Nat
  <2>. HIDE DEF rest, i
  <2>. QED  BY <1>2, <1>3, FS_RemoveElement, FS_CardinalityType
<1>5. /\ Size(slots) \in Nat /\ mOccupied[s] \in Nat /\ mOccupied[s] = Cardinality(Occupied(slots))
  BY <1>1, ArrayFacts DEF SegmentInv, TableInv, TypeInv
<1>6. Cardinality(DOMAIN rest) >= 1 /\ 4 * mOccupied[s] <= Size(slots)
  <2>1. Cardinality(DOMAIN rest) # 0
    BY <1>1, <1>3, FS_EmptySet
  <2>. QED  BY <2>1, <1>3, <1>4, <1>5
<1>7. Occupied(slots) # DOMAIN slots
  BY <1>3, <1>5, <1>6 DEF Size
<1>8. new = [slots EXCEPT ![FreeSlot(k, slots)] = k]
      /\ \A r \in Segment \ {s} : mKeys'[r] = mKeys[r]
  BY <1>0 DEF TableInv, TypeInv
<1>9. /\ new \in Array /\ Size(new) = Size(slots) /\ PathsFree(new) /\ Keys(new) = Keys(slots) \cup {k}
      /\ Cardinality(Occupied(new)) = Cardinality(Occupied(slots)) + 1
  <2>1. PathsFree(slots) /\ k \notin Keys(slots)
    BY <1>1, <1>2, <1>3 DEF SegmentInv
  <2>. HIDE DEF new, k, slots
  <2>2. PICK d \in 0 .. Size(slots) - 1 :
              /\ FreeSlot(k, slots) = At(k, slots, d)
              /\ slots[At(k, slots, d)] = None
              /\ \A e \in 0 .. d - 1 : slots[At(k, slots, e)] # None
    BY <1>1, <1>2, <1>7, FreeSlotFound
  <2>3. new = [slots EXCEPT ![At(k, slots, d)] = k]
    BY <1>8, <2>2
  <2>. QED  BY <1>1, <1>2, <2>1, <2>2, <2>3, PlaceKey
<1>10. mOccupied'[s] = mOccupied[s] + 1 /\ \A r \in Segment \ {s} : mOccupied'[r] = mOccupied[r]
  BY <1>0 DEF TableInv, TypeInv
<1>11. oldKeys'[t] = Restrict(rest, DOMAIN rest \ {i})
  BY DEF TableInv, TypeInv
<1>12. /\ DOMAIN oldKeys'[t] = DOMAIN rest \ {i} /\ oldKeys'[t] \in Moving
       /\ \A j \in DOMAIN rest \ {i} : oldKeys'[t][j] = rest[j]
  <2>1. oldKeys'[t] = [j \in DOMAIN rest \ {i} |-> rest[j]]
    BY <1>11 DEF Restrict
  <2>2. \A j \in DOMAIN rest : rest[j] \in Key /\ j \in Nat
    <3>. HIDE DEF rest
    <3>. QED  BY <1>1 DEF Moving
  <2>. HIDE DEF rest, i
  <2>3. oldKeys'[t] \in [DOMAIN rest \ {i} -> Key] /\ DOMAIN rest \ {i} \in SUBSET Nat
    BY <2>1, <2>2
  <2>. QED  BY <2>1, <2>3 DEF Moving
<1>13. OthersKeep(t)
  BY <1>0, <1>1, <1>8, <1>10 DEF OthersKeep, TableInv, TypeInv, Inside
<1>14. TypeInv'
  <2>1. mKeys' \in [Segment -> Array]
    BY <1>8, <1>9 DEF TableInv, TypeInv
  <2>2. mOccupied' \in [Segment -> Nat]
    BY <1>10 DEF TableInv, TypeInv
  <2>3. oldKeys' \in [Thread -> Moving]
    BY <1>12 DEF TableInv, TypeInv
  <2>. QED  BY <2>1, <2>2, <2>3 DEF TableInv, TypeInv
<1>15. pc' = pc /\ Inside(t) /\ Inside(t)' /\ My(t)' = s
  BY <1>0, <1>1 DEF Inside, My
<1>16. LockInv'
  BY <1>13, <1>15, LocksKept
<1>17. SegmentInv(s)'
  <2>1. 2 * (mOccupied[s] + 1) <= Size(slots) + 2
    BY <1>5, <1>6
  <2>2. \A c \in Keys(new) : segmentIndex[c] = s
    BY <1>1, <1>2, <1>3, <1>9 DEF SegmentInv
  <2>3. mOccupied'[s] = Cardinality(Occupied(new))
    BY <1>5, <1>9, <1>10
  <2>4. 2 * mOccupied'[s] <= Size(new) + 2
    BY <2>1, <1>9, <1>10
  <2>. QED  BY <1>9, <2>2, <2>3, <2>4 DEF SegmentInv
<1>18. OldInv(t)'
  <2>1. \A j \in DOMAIN rest \ {i} : rest[j] \notin Keys(new)
    BY <1>2, <1>3, <1>9
  <2>. HIDE DEF new, slots, rest, i, k
  <2>2. 4 * (mOccupied'[s] + Cardinality(DOMAIN oldKeys'[t])) <= Size(new) + 4
    <3>1. Cardinality(DOMAIN oldKeys'[t]) = Cardinality(DOMAIN rest) - 1
      BY <1>4, <1>12
    <3>. QED  BY <3>1, <1>3, <1>4, <1>5, <1>9, <1>10
  <2>3. \A a, b \in DOMAIN oldKeys'[t] : oldKeys'[t][a] = oldKeys'[t][b] => a = b
    BY <1>3, <1>12
  <2>4. \A j \in DOMAIN oldKeys'[t] :
           segmentIndex[oldKeys'[t][j]] = s /\ oldKeys'[t][j] \notin Keys(new)
    BY <1>3, <1>12, <2>1
  <2>5. IsFiniteSet(DOMAIN oldKeys'[t]) /\ Size(new) >= 8
    BY <1>3, <1>4, <1>9, <1>12
  <2>. QED  BY <1>1, <1>15, <2>2, <2>3, <2>4, <2>5 DEF OldInv, new
<1>19. ProbeInv(t)'
  BY <1>1, <1>15, InsideFacts DEF ProbeInv
<1>20. TableInv'
  BY <1>0, <1>13, <1>14, <1>16, <1>17, <1>18, <1>19, StepSafe
<1>21. Stored(s)' = Stored(s) \cup {}
  <2>1. t \in Thread \cup {None} /\ t # None
    BY TableAssumption
  <2>2. Range(rest) = Range(oldKeys'[t]) \cup {k}
    <3>. HIDE DEF rest, i
    <3>. QED  BY <1>2, <1>12 DEF Range, k
  <2>3. Stored(s) = Keys(slots) \cup Range(rest)
    BY <1>1, <2>1, HeldKeys DEF Stored, Keys
  <2>4. mLock'[s] = t
    BY <1>1
  <2>5. UNION {Range(oldKeys'[u]) : u \in {v \in Thread : mLock'[s] = v}} = Range(oldKeys'[t])
    BY <2>4, <2>1, HeldKeys, SMTT(30)
  <2>6. Stored(s)' = Keys(new) \cup Range(oldKeys'[t])
    BY <2>5 DEF Stored, Keys
  <2>. QED  BY <2>2, <2>3, <2>6, <1>9
<1>22. Members' = Members \cup {}
  BY <1>0, <1>13, <1>14, <1>21, MembersChange
<1>. QED  BY <1>20, <1>22

(* A key that is in its slot is a member. *)
LEMMA FoundMeansMember ==
    ASSUME TableInv, NEW t \in Thread, Found(t)
    PROVE  key[t] \in Members
<1>0. PICK s \in Segment : s = My(t)
  BY InsideFacts
<1>1. key[t] \in Key /\ mKeys[s] \in Array /\ ProbeInv(t) /\ pc[t] = "probe" /\ probe[t] \in Nat
  BY <1>0, InsideFacts DEF Found, Probing, TableInv, TypeInv
<1>2. index[t] \in DOMAIN mKeys[s]
  BY <1>0, <1>1, ArrayFacts DEF ProbeInv
<1>3. key[t] \in Keys(mKeys[s])
  BY <1>0, <1>1, <1>2, ArrayFacts DEF Found, Slot
<1>. QED  BY <1>3, StoredKeys DEF Members

(* A key whose path has come to a free slot is no member. *)
LEMMA MissingMeansAbsent ==
    ASSUME TableInv, NEW t \in Thread, Missing(t)
    PROVE  key[t] \notin Members
<1>. USE DEF Missing, Probing
<1>0. PICK s \in Segment : s = My(t)
  BY InsideFacts
<1>. DEFINE k == key[t]
            slots == mKeys[s]
<1>1. /\ k \in Key /\ segmentIndex[k] = s /\ slots \in Array /\ SegmentInv(s) /\ OldInv(t)
      /\ ProbeInv(t) /\ Capacity(s) = Size(slots) /\ mLock[s] = t /\ pc[t] = "probe"
  BY <1>0, InsideFacts DEF Inside
<1>2. probe[t] \in 0 .. Size(slots) - 1 /\ Passed(k, slots, probe[t])
      /\ slots[At(k, slots, probe[t])] = None
  BY <1>0, <1>1, ArrayFacts DEF ProbeInv, Slot, TableInv, TypeInv
<1>3. k \notin Keys(slots)
  BY <1>1, <1>2, FreeMeansAbsent DEF SegmentInv
<1>4. k \notin Stored(s)
  BY <1>1, <1>3, StoredKeys DEF OldInv, Range
<1>. QED  BY <1>1, <1>4, StoredWhere DEF Members

(***************************************************************************)
(* The theorems.                                                           *)
(***************************************************************************)
(* Every step keeps the invariant; only Insert changes the members. *)
LEMMA StepTable ==
    ASSUME TableInv, [Next]_vars
    PROVE  /\ TableInv'
           /\ Members' = Members \/ \E t \in Thread : Insert(t)
<1>1. ASSUME NEW t \in Thread, Step(t)
      PROVE  TableInv' /\ (Members' = Members \/ Insert(t))
  <2>1. CASE Lock(t)
    BY <2>1, LockStep
  <2>2. CASE NoRehash(t)
    BY <2>2, NoRehashStep
  <2>3. CASE Allocate(t)
    BY <2>3, AllocateStep
  <2>4. CASE MoveKey(t)
    BY <2>4, MoveKeyStep
  <2>5. CASE EndRehash(t)
    BY <2>5, EndRehashStep
  <2>6. CASE Insert(t)
    BY <2>6, InsertStep
  <2>7. CASE Count(t)
    BY <2>7, CountStep
  <2>8. CASE Found(t)
    <3>1. (call[t] = "contains") \in BOOLEAN
      OBVIOUS
    <3>. QED  BY <2>8, <3>1, AnswerStep DEF Found, Probing
  <2>9. CASE Missing(t)
    BY <2>9, AnswerStep DEF Missing, Probing
  <2>10. CASE NextProbe(t)
    BY <2>10, NextProbeStep
  <2>. QED  BY <1>1, <2>1, <2>2, <2>3, <2>4, <2>5, <2>6, <2>7, <2>8, <2>9, <2>10 DEF Step
<1>2. ASSUME NEW t \in Thread, NEW operation \in {"tryMarkProcessing", "contains"},
             NEW k \in Key, Invoke(t, operation, k)
      PROVE  TableInv' /\ Members' = Members
  BY <1>2, InvokeStep
<1>3. CASE UNCHANGED vars
  <2>. USE <1>3 DEF vars, table, locals
  <2>1. TypeInv' /\ LockInv'
    BY DEF TableInv, TypeInv, LockInv, Inside, My
  <2>2. \A s \in Segment : SegmentInv(s)'
    BY DEF TableInv, SegmentInv
  <2>3. \A t \in Thread : (OldInv(t) /\ ProbeInv(t))'
    BY DEF TableInv, OldInv, ProbeInv, My
  <2>4. Members' = Members
    BY DEF Members, Stored
  <2>. QED  BY <2>1, <2>2, <2>3, <2>4 DEF TableInv
<1>. QED  BY <1>1, <1>2, <1>3 DEF Next

(* The number of entries keeps up with the members. *)
LEMMA StepCount ==
    ASSUME TableInv, CountInv, [Next]_vars
    PROVE  CountInv'
<1>. DEFINE doing == \E t \in Thread : Insert(t) \/ Count(t)
<1>1. ASSUME NEW t \in Thread, Insert(t)
      PROVE  CountInv'
  <2>1. Members' = Members \cup {key[t]} /\ key[t] \notin Members
    BY <1>1, InsertStep
  <2>2. Counting' = Counting \cup {t} /\ t \notin Counting /\ mEntryCount' = mEntryCount
    BY <1>1 DEF Insert, Goto, Counting, TableInv, TypeInv
  <2>3. /\ IsFiniteSet(Members') /\ Cardinality(Members') = Cardinality(Members) + 1
        /\ IsFiniteSet(Counting') /\ Cardinality(Counting') = Cardinality(Counting) + 1
    BY <2>1, <2>2, FS_AddElement DEF CountInv
  <2>4. mEntryCount \in Nat /\ Cardinality(Counting) \in Nat /\ Cardinality(Members) \in Nat
    BY FS_CardinalityType DEF CountInv, TableInv, TypeInv
  <2>. QED  BY <2>2, <2>3, <2>4 DEF CountInv
<1>2. ASSUME NEW t \in Thread, Count(t)
      PROVE  CountInv'
  <2>1. Members' = Members
    BY <1>2, CountStep
  <2>2. Counting' = Counting \ {t} /\ t \in Counting /\ mEntryCount' = mEntryCount + 1
    BY <1>2 DEF Count, Goto, Counting, TableInv, TypeInv
  <2>3. IsFiniteSet(Counting') /\ Cardinality(Counting') = Cardinality(Counting) - 1
    BY <2>2, FS_RemoveElement DEF CountInv
  <2>4. mEntryCount \in Nat /\ Cardinality(Counting) \in Nat
    BY FS_CardinalityType DEF CountInv, TableInv, TypeInv
  <2>. QED  BY <2>1, <2>2, <2>3, <2>4 DEF CountInv
<1>3. CASE ~doing
  <2>1. Members' = Members
    BY <1>3, StepTable
  <2>2. Counting' = Counting /\ mEntryCount' = mEntryCount
    <3>1. ASSUME NEW t \in Thread, Step(t)
          PROVE  Counting' = Counting /\ mEntryCount' = mEntryCount
      BY <1>3, <3>1 DEF Step, Counting, TableInv, TypeInv, Goto, table,
         Lock, NoRehash, Allocate, MoveKey, EndRehash, Found, Missing, NextProbe
    <3>2. ASSUME NEW t \in Thread, NEW operation, NEW k, Invoke(t, operation, k)
          PROVE  Counting' = Counting /\ mEntryCount' = mEntryCount
      BY <3>2 DEF Invoke, Counting, TableInv, TypeInv, Goto, table
    <3>3. CASE UNCHANGED vars
      BY <3>3 DEF vars, table, locals, Counting
    <3>. QED  BY <3>1, <3>2, <3>3 DEF Next
  <2>. QED  BY <2>1, <2>2 DEF CountInv
<1>. QED  BY <1>1, <1>2, <1>3

(* Nothing is stored at first. *)
LEMMA InitMembers == Init => Members = {}
<1>. SUFFICES ASSUME Init, NEW s \in Segment, NEW k \in Stored(s)  PROVE FALSE
  BY DEF Members
<1>1. mLock[s] = None /\ \A i \in DOMAIN mKeys[s] : mKeys[s][i] = None
  BY DEF Init, Slots
<1>2. k \in Keys(mKeys[s])
  BY <1>1, InitTable, StoredKeys
<1>. QED  BY <1>1, <1>2 DEF Keys, Range

(* The invariants hold. *)
LEMMA TableSafe == Spec => [](TableInv /\ CountInv)
<1>1. Init => TableInv /\ CountInv
  <2>. SUFFICES ASSUME Init  PROVE CountInv
    BY InitTable
  <2>1. Members = {} /\ Counting = {} /\ mEntryCount = 0
    BY InitMembers DEF Init, Counting
  <2>. QED  BY <2>1, FS_EmptySet DEF CountInv
<1>2. TableInv /\ CountInv /\ [Next]_vars => (TableInv /\ CountInv)'
  BY StepTable, StepCount
<1>. QED  BY <1>1, <1>2, PTL DEF Spec

(* No insertion, no doubling and no wrap around the end makes a key unfindable:
   tryInsert and contains come to it before they come to a free slot. *)
THEOREM KeysFindable == Spec => []Findable
<1>1. TableInv => Findable
  <2>. SUFFICES ASSUME TableInv  PROVE Findable
    OBVIOUS
  <2>1. \A s \in Segment : PathsFree(mKeys[s])
    BY DEF TableInv, SegmentInv
  <2>. QED  BY <2>1 DEF Findable, PathsFree, Passed, At, Capacity, Size
<1>. QED  BY <1>1, TableSafe, PTL

(* No segment is ever full, the counter its doubling depends on is exact, and
   probes stay in the array. *)
THEOREM RoomAlways == Spec => []AlwaysRoom
<1>1. TableInv => AlwaysRoom
  <2>. SUFFICES ASSUME TableInv  PROVE AlwaysRoom
    OBVIOUS
  <2>1. ASSUME NEW s \in Segment
        PROVE  Cardinality(Occupied(mKeys[s])) = mOccupied[s] /\ mOccupied[s] < Capacity(s)
    <3>1. mKeys[s] \in Array /\ mOccupied[s] \in Nat /\ SegmentInv(s)
      BY DEF TableInv, TypeInv
    <3>2. Size(mKeys[s]) \in Nat /\ Size(mKeys[s]) >= 4
      BY <3>1, ArrayFacts
    <3>. QED  BY <3>1, <3>2 DEF SegmentInv, Capacity, Size
  <2>2. ASSUME NEW t \in Thread  PROVE index[t] \in 0 .. Capacity(My(t)) - 1
    <3>1. mKeys[My(t)] \in Array /\ Capacity(My(t)) = Size(mKeys[My(t)]) /\ ProbeInv(t)
          /\ key[t] \in Key /\ probe[t] \in Nat
      BY InsideFacts DEF TableInv, TypeInv
    <3>2. DOMAIN mKeys[My(t)] = 0 .. Size(mKeys[My(t)]) - 1
          /\ Size(mKeys[My(t)]) \in Nat /\ Size(mKeys[My(t)]) >= 4
          /\ At(key[t], mKeys[My(t)], probe[t]) \in DOMAIN mKeys[My(t)]
      BY <3>1, ArrayFacts
    <3>. QED  BY <3>1, <3>2 DEF ProbeInv
  <2>. QED  BY <2>1, <2>2 DEF AlwaysRoom
<1>. QED  BY <1>1, TableSafe, PTL

(* size() counts every key once, but for the threads that are about to count. *)
THEOREM SizeExact == Spec => []EntriesCounted
<1>1. CountInv => EntriesCounted
  BY DEF CountInv, EntriesCounted, Members, Counting
<1>. QED  BY <1>1, TableSafe, PTL

\* The stage of an operation, as ImplementsSet maps it.
Stage == [t \in Thread |-> CASE pc[t] = "idle"  -> "idle"
                             [] pc[t] = "count" -> "answered"
                             [] OTHER           -> "called"]

(* A step of the table is a step of the set or none at all. *)
LEMMA StepOfSet ==
    ASSUME TableInv, [Next]_vars
    PROVE  [Abstract!Next]_(Abstract!vars)
<1>. DEFINE Quiet == Members' = Members /\ UNCHANGED <<call, key, answer>> /\ Stage' = Stage
<1>0. Quiet => UNCHANGED Abstract!vars
  BY DEF Abstract!vars, Members, Stage
<1>1. ASSUME NEW t \in Thread, NEW operation \in {"tryMarkProcessing", "contains"},
             NEW k \in Key, Invoke(t, operation, k)
      PROVE  Abstract!Next
  <2>1. Members' = Members
    BY <1>1, InvokeStep
  <2>2. Stage[t] = "idle" /\ Stage' = [Stage EXCEPT ![t] = "called"]
    BY <1>1 DEF Invoke, Goto, Stage, TableInv, TypeInv
  <2>3. Abstract!Invoke(t, operation, k)
    BY <1>1, <2>1, <2>2 DEF Abstract!Invoke, Invoke, Members, Stage
  <2>. QED  BY <2>3 DEF Abstract!Next
<1>2. ASSUME NEW t \in Thread, Lock(t) \/ NoRehash(t) \/ EndRehash(t)
      PROVE  Quiet
  <2>1. Members' = Members
    BY <1>2, LockStep, NoRehashStep, EndRehashStep
  <2>2. Stage' = Stage
    BY <1>2 DEF Lock, NoRehash, EndRehash, Goto, Stage, TableInv, TypeInv
  <2>. QED  BY <1>2, <2>1, <2>2 DEF Lock, NoRehash, EndRehash
<1>3. ASSUME NEW t \in Thread, Allocate(t) \/ MoveKey(t) \/ NextProbe(t)
      PROVE  Quiet
  <2>1. Members' = Members
    BY <1>3, AllocateStep, MoveKeyStep, NextProbeStep
  <2>2. Stage' = Stage
    BY <1>3 DEF Allocate, MoveKey, NextProbe, Goto, Stage, TableInv, TypeInv
  <2>. QED  BY <1>3, <2>1, <2>2 DEF Allocate, MoveKey, NextProbe
<1>4. ASSUME NEW t \in Thread, Insert(t)
      PROVE  Abstract!Next
  <2>1. Members' = Members \cup {key[t]} /\ (key[t] \notin Members) = TRUE
    BY <1>4, InsertStep
  <2>2. Stage[t] = "called" /\ Stage' = [Stage EXCEPT ![t] = "answered"]
    BY <1>4 DEF Insert, Goto, Stage, TableInv, TypeInv
  <2>3. call[t] = "tryMarkProcessing" /\ answer' = [answer EXCEPT ![t] = (key[t] \notin Members)]
        /\ UNCHANGED <<call, key>>
    BY <1>4, <2>1 DEF Insert
  <2>4. Abstract!tryMarkProcessing(t)
    BY <2>1, <2>2, <2>3 DEF Abstract!tryMarkProcessing, Abstract!Answer, Members, Stage
  <2>. QED  BY <2>4 DEF Abstract!Next
<1>5. ASSUME NEW t \in Thread, Count(t)
      PROVE  Abstract!Next
  <2>1. Members' = Members
    BY <1>5, CountStep
  <2>2. Stage[t] = "answered" /\ Stage' = [Stage EXCEPT ![t] = "idle"]
    BY <1>5 DEF Count, Goto, Stage, TableInv, TypeInv
  <2>3. Abstract!Return(t)
    BY <1>5, <2>1, <2>2 DEF Abstract!Return, Count, Members, Stage
  <2>. QED  BY <2>3 DEF Abstract!Next
<1>6. ASSUME NEW t \in Thread, Found(t)
      PROVE  Abstract!Next
  <2>1. Members' = Members /\ key[t] \in Members
    <3>1. (call[t] = "contains") \in BOOLEAN
      OBVIOUS
    <3>. QED  BY <1>6, <3>1, AnswerStep, FoundMeansMember DEF Found, Probing
  <2>2. Stage[t] = "called" /\ Stage' = [Stage EXCEPT ![t] = "idle"]
    BY <1>6 DEF Found, Goto, Probing, Stage, TableInv, TypeInv
  <2>3. CASE call[t] = "contains"
    <3>1. answer' = [answer EXCEPT ![t] = (key[t] \in Members)] /\ UNCHANGED <<call, key>>
      BY <1>6, <2>1, <2>3 DEF Found
    <3>2. Abstract!contains(t)
      BY <2>1, <2>2, <2>3, <3>1 DEF Abstract!contains, Abstract!Answer, Members, Stage
    <3>. QED  BY <3>2 DEF Abstract!Next
  <2>4. CASE call[t] = "tryMarkProcessing"
    <3>1. answer' = [answer EXCEPT ![t] = (key[t] \notin Members)] /\ UNCHANGED <<call, key>>
      BY <1>6, <2>1, <2>4 DEF Found
    <3>2. Members' = Members \cup {key[t]}
      BY <2>1
    <3>3. Abstract!tryMarkProcessing(t)
      BY <2>2, <2>4, <3>1, <3>2 DEF Abstract!tryMarkProcessing, Abstract!Answer, Members, Stage
    <3>. QED  BY <3>3 DEF Abstract!Next
  <2>. QED  BY <2>3, <2>4 DEF TableInv, TypeInv
<1>7. ASSUME NEW t \in Thread, Missing(t)
      PROVE  Abstract!Next
  <2>1. Members' = Members /\ key[t] \notin Members
    BY <1>7, AnswerStep, MissingMeansAbsent DEF Missing, Probing
  <2>2. Stage[t] = "called" /\ Stage' = [Stage EXCEPT ![t] = "idle"]
    BY <1>7 DEF Missing, Goto, Probing, Stage, TableInv, TypeInv
  <2>3. /\ call[t] = "contains" /\ UNCHANGED <<call, key>>
        /\ answer' = [answer EXCEPT ![t] = (key[t] \in Members)]
    <3>1. (key[t] \in Members) = FALSE
      BY <2>1
    <3>. QED  BY <1>7, <3>1 DEF Missing
  <2>4. Abstract!contains(t)
    BY <2>1, <2>2, <2>3 DEF Abstract!contains, Abstract!Answer, Members, Stage
  <2>. QED  BY <2>4 DEF Abstract!Next
<1>8. CASE UNCHANGED vars
  BY <1>8 DEF vars, table, locals, Abstract!vars, Stored
<1>. QED  BY <1>0, <1>1, <1>2, <1>3, <1>4, <1>5, <1>6, <1>7, <1>8 DEF Next, Step

(* The table implements the set with atomic operations: tryMarkProcessing takes
   effect when it finds or inserts the key, contains when it finds the key or a
   free slot, and nothing else shows, doubling included. *)
THEOREM TableIsASet == Spec => ImplementsSet
<1>1. Init => Abstract!Init
  <2>. SUFFICES ASSUME Init  PROVE Abstract!Init
    OBVIOUS
  <2>1. Members = {} /\ key \in [Thread -> Key]
    BY InitMembers DEF Init
  <2>. QED  BY <2>1 DEF Init, Abstract!Init, Members
<1>. QED  BY <1>1, StepOfSet, TableSafe, PTL DEF Spec, ImplementsSet, Abstract!Spec
=============================================================================
