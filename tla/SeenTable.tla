----------------------------- MODULE SeenTable ------------------------------
(***************************************************************************)
(* The table of fingerprints of src/src/cut/SeenTable.cpp: open addressing *)
(* with linear probing in segments, each behind a spin lock, that double   *)
(* when more than half full.  Threads call tryMarkProcessing and contains  *)
(* for ever.  A probe is a step, and so is each key moved to the larger    *)
(* array; SeenSet is what the callers see of it.                           *)
(***************************************************************************)
EXTENDS Integers, Sequences, FiniteSets, SequencesExt, FiniteSetsExt

CONSTANTS
    Thread,
    Key,                \* the fingerprints (128 bits)
    None,               \* an unoccupied slot; nobody, for a lock
    Segment,            \* the segments
    segmentIndex,       \* Key -> Segment
    hash,               \* Key -> Nat, the number hashToIndex masks
    InitialCapacity     \* INITIAL_CAPACITY, 64

\* With fewer than four slots a segment could be full before it is doubled.
ASSUME TableAssumption ==
    /\ None \notin Key \cup Thread
    /\ segmentIndex \in [Key -> Segment]
    /\ hash \in [Key -> Nat]
    /\ InitialCapacity \in Nat /\ InitialCapacity >= 4

VARIABLES
    mKeys,          \* Segment -> array of slots (mOccupiedBits: not None)
    mOccupied,      \* Segment -> number of occupied slots
    mLock,          \* Segment -> the thread inside
    mEntryCount,
    pc, call, key,  \* per thread: the next step, the operation, its argument
    index, probe,   \* the slot to look at, the slots looked at before
    oldKeys,        \* the occupied slots of the old array that rehash has yet to move
    answer          \* what the last operation returned

table  == <<mKeys, mOccupied, mLock, mEntryCount>>
locals == <<pc, call, key, index, probe, oldKeys, answer>>
vars   == <<table, locals>>

Slots(n) == [i \in 0 .. n - 1 |-> None]
Capacity(s) == Cardinality(DOMAIN mKeys[s])
My(t) == segmentIndex[key[t]]
hashToIndex(k, capacity) == hash[k] % capacity

Init ==
    /\ mKeys = [s \in Segment |-> Slots(InitialCapacity)]
    /\ mOccupied = [s \in Segment |-> 0]
    /\ mLock = [s \in Segment |-> None]
    /\ mEntryCount = 0
    /\ pc = [t \in Thread |-> "idle"]
    /\ call = [t \in Thread |-> "contains"]
    /\ key \in {[t \in Thread |-> k] : k \in Key}
    /\ index = [t \in Thread |-> 0] /\ probe = [t \in Thread |-> 0]
    /\ oldKeys = [t \in Thread |-> <<>>]
    /\ answer = [t \in Thread |-> FALSE]

Goto(t, from, to) == pc[t] = from /\ pc' = [pc EXCEPT ![t] = to]

Invoke(t, operation, k) ==
    /\ Goto(t, "idle", "lock")
    /\ call' = [call EXCEPT ![t] = operation]
    /\ key' = [key EXCEPT ![t] = k]
    /\ UNCHANGED <<table, index, probe, oldKeys, answer>>
-----------------------------------------------------------------------------
\* The first probe.
StartProbing(t) ==
    /\ index' = [index EXCEPT ![t] = hashToIndex(key[t], Capacity(My(t)))]
    /\ probe' = [probe EXCEPT ![t] = 0]

\* Mutant: contains does not take the lock.
LockInsertsOnly(t) ==
    /\ call[t] = "contains" \/ mLock[My(t)] = None
    /\ mLock' = IF call[t] = "contains" THEN mLock ELSE [mLock EXCEPT ![My(t)] = t]
    /\ \/ call[t] = "tryMarkProcessing" /\ Goto(t, "lock", "load") /\ UNCHANGED <<index, probe>>
       \/ call[t] = "contains" /\ Goto(t, "lock", "probe") /\ StartProbing(t)
    /\ UNCHANGED <<mKeys, mOccupied, mEntryCount, call, key, oldKeys, answer>>

\* SpinLock::lock: the exchange that finds it unlocked.
Lock(t) ==
    /\ mLock[My(t)] = None
    /\ mLock' = [mLock EXCEPT ![My(t)] = t]
    /\ \/ call[t] = "tryMarkProcessing" /\ Goto(t, "lock", "load") /\ UNCHANGED <<index, probe>>
       \/ call[t] = "contains" /\ Goto(t, "lock", "probe") /\ StartProbing(t)
    /\ UNCHANGED <<mKeys, mOccupied, mEntryCount, call, key, oldKeys, answer>>

\* Mutant: the segment is doubled when it is full.
FullOnly(s) == mOccupied[s] = Capacity(s)

\* mOccupied / mKeys.size() > MAX_LOAD_FACTOR
Loaded(s) == 2 * mOccupied[s] > Capacity(s)

NoRehash(t) ==
    /\ ~Loaded(My(t))
    /\ Goto(t, "load", "probe")
    /\ StartProbing(t)
    /\ UNCHANGED <<table, call, key, oldKeys, answer>>

Occupied(slots) == {i \in DOMAIN slots : slots[i] # None}

\* rehash: the old array is put aside.
Allocate(t) ==
    LET s == My(t)
    IN  /\ Loaded(s)
        /\ Goto(t, "load", "rehash")
        /\ oldKeys' = [oldKeys EXCEPT ![t] = Restrict(mKeys[s], Occupied(mKeys[s]))]
        /\ mKeys' = [mKeys EXCEPT ![s] = Slots(2 * Capacity(s))]
        /\ mOccupied' = [mOccupied EXCEPT ![s] = 0]
        /\ UNCHANGED <<mLock, mEntryCount, call, key, index, probe, answer>>

\* Mutant: a key is masked with the capacity the segment had before.
FreeSlotOldMask(k, slots) ==
    LET n == Cardinality(DOMAIN slots)
        h == hashToIndex(k, n \div 2)
        d == Min({i \in DOMAIN slots : slots[(h + i) % n] = None})
    IN  (h + d) % n

\* The first free slot from a key's own slot on, around the end of the array.
FreeSlot(k, slots) ==
    LET n == Cardinality(DOMAIN slots)
        d == Min({i \in DOMAIN slots : slots[(hashToIndex(k, n) + i) % n] = None})
    IN  (hashToIndex(k, n) + d) % n

\* forceInsert, slot after slot of the old array.
MoveKey(t) ==
    LET s == My(t)
        i == Min(DOMAIN oldKeys[t])
        k == oldKeys[t][i]
    IN  /\ pc[t] = "rehash"
        /\ DOMAIN oldKeys[t] # {}
        /\ oldKeys' = [oldKeys EXCEPT ![t] = Restrict(@, DOMAIN @ \ {i})]
        /\ mKeys' = [mKeys EXCEPT ![s][FreeSlot(k, mKeys[s])] = k]
        /\ mOccupied' = [mOccupied EXCEPT ![s] = @ + 1]
        /\ UNCHANGED <<mLock, mEntryCount, pc, call, key, index, probe, answer>>

EndRehash(t) ==
    /\ DOMAIN oldKeys[t] = {}
    /\ Goto(t, "rehash", "probe")
    /\ StartProbing(t)
    /\ UNCHANGED <<table, call, key, oldKeys, answer>>
-----------------------------------------------------------------------------
\* The lock is released and the locals are gone.
Unlock(t) ==
    /\ mLock' = [mLock EXCEPT ![My(t)] = None]
    /\ index' = [index EXCEPT ![t] = 0]
    /\ probe' = [probe EXCEPT ![t] = 0]

Slot(t) == mKeys[My(t)][index[t]]

Probing(t) == pc[t] = "probe" /\ probe[t] < Capacity(My(t))

\* tryInsert has found a free slot; the entry is counted after the unlock.
Insert(t) ==
    /\ Probing(t)
    /\ call[t] = "tryMarkProcessing"
    /\ Slot(t) = None
    /\ Goto(t, "probe", "count")
    /\ mKeys' = [mKeys EXCEPT ![My(t)][index[t]] = key[t]]
    /\ mOccupied' = [mOccupied EXCEPT ![My(t)] = @ + 1]
    /\ answer' = [answer EXCEPT ![t] = TRUE]
    /\ Unlock(t)
    /\ UNCHANGED <<mEntryCount, call, key, oldKeys>>

Count(t) ==
    /\ Goto(t, "count", "idle")
    /\ mEntryCount' = mEntryCount + 1
    /\ UNCHANGED <<mKeys, mOccupied, mLock, call, key, index, probe, oldKeys, answer>>

\* The key is in the slot.
Found(t) ==
    /\ Probing(t)
    /\ Slot(t) = key[t]
    /\ Goto(t, "probe", "idle")
    /\ answer' = [answer EXCEPT ![t] = (call[t] = "contains")]
    /\ Unlock(t)
    /\ UNCHANGED <<mKeys, mOccupied, mEntryCount, call, key, oldKeys>>

\* Mutant: contains looks at one slot.
MissingUnprobed(t) ==
    /\ Probing(t)
    /\ call[t] = "contains"
    /\ Slot(t) # key[t]
    /\ Goto(t, "probe", "idle")
    /\ answer' = [answer EXCEPT ![t] = FALSE]
    /\ Unlock(t)
    /\ UNCHANGED <<mKeys, mOccupied, mEntryCount, call, key, oldKeys>>

\* contains has come to a free slot.
Missing(t) ==
    /\ Probing(t)
    /\ call[t] = "contains"
    /\ Slot(t) = None
    /\ Goto(t, "probe", "idle")
    /\ answer' = [answer EXCEPT ![t] = FALSE]
    /\ Unlock(t)
    /\ UNCHANGED <<mKeys, mOccupied, mEntryCount, call, key, oldKeys>>

NextProbe(t) ==
    /\ Probing(t)
    /\ Slot(t) \notin {None, key[t]}
    /\ index' = [index EXCEPT ![t] = (@ + 1) % Capacity(My(t))]
    /\ probe' = [probe EXCEPT ![t] = @ + 1]
    /\ UNCHANGED <<table, pc, call, key, oldKeys, answer>>

Step(t) ==
    \/ Lock(t) \/ NoRehash(t) \/ Allocate(t) \/ MoveKey(t) \/ EndRehash(t)
    \/ Insert(t) \/ Count(t) \/ Found(t) \/ Missing(t) \/ NextProbe(t)

Next == \E t \in Thread :
    \/ Step(t)
    \/ \E operation \in {"tryMarkProcessing", "contains"}, k \in Key : Invoke(t, operation, k)

Spec == Init /\ [][Next]_vars
-----------------------------------------------------------------------------
\* The keys of a segment, those rehash is moving included.
Stored(s) ==
    (Range(mKeys[s]) \ {None})
        \cup UNION {Range(oldKeys[t]) : t \in {u \in Thread : mLock[s] = u}}

\* A key can be found from its own slot on without passing a free slot, and is
\* nowhere else: no insertion, no doubling, no wrap around the end breaks it.
Findable ==
    \A s \in Segment : \A i \in DOMAIN mKeys[s] :
        mKeys[s][i] # None =>
            LET n    == Capacity(s)
                home == hashToIndex(mKeys[s][i], n)
            IN  \A d \in 0 .. ((i - home) % n) - 1 :
                    mKeys[s][(home + d) % n] \notin {None, mKeys[s][i]}

\* No segment is ever full: a probe ends at a free slot if not before, and the
\* answer tryInsert has for a full segment, that of a duplicate, is never given.
\* Probes stay in the array, over the doublings of other threads too.
AlwaysRoom ==
    /\ \A s \in Segment :
         /\ Cardinality(Occupied(mKeys[s])) = mOccupied[s]
         /\ mOccupied[s] < Capacity(s)
    /\ \A t \in Thread : index[t] \in 0 .. Capacity(My(t)) - 1

\* size() counts every key once, but for the threads that are about to count.
EntriesCounted ==
    mEntryCount + Cardinality({t \in Thread : pc[t] = "count"})
        = Cardinality(UNION {Stored(s) : s \in Segment})

\* The table is a set with atomic operations.
Abstract == INSTANCE SeenSet WITH
    members <- UNION {Stored(s) : s \in Segment},
    stage   <- [t \in Thread |-> CASE pc[t] = "idle"  -> "idle"
                                   [] pc[t] = "count" -> "answered"
                                   [] OTHER           -> "called"]
ImplementsSet == Abstract!Spec
=============================================================================
