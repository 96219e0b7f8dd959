---------------------------- MODULE ApdfsSolver ----------------------------
(***************************************************************************)
(* The work-stealing parallel search of src/src/cut/ApdfsSolver.cpp: the   *)
(* worker loop of every thread, the local stacks (roadmap) and the locks   *)
(* around them, the shared spill buffer, the table of fingerprints, the    *)
(* idle flags from which termination is declared, the limits, the signal   *)
(* handler and the part of run() that starts and joins the threads.        *)
(*                                                                         *)
(* A frame is represented by the cut it carries.  What processFrame        *)
(* computes from a cut is the constant Candidates (module CutBranch gives  *)
(* it for a graph); the order in which it consults the fingerprint table   *)
(* is modelled.  An action is a stretch of code with one access to state   *)
(* whose moment matters to another thread: one critical section, one load  *)
(* or store of a flag, one look into the table.  Counters updated one      *)
(* after the other, which are only compared with limits, change together.  *)
(* The lock held across several steps is held by the control point (see    *)
(* Locked).                                                                *)
(***************************************************************************)
EXTENDS Integers, Sequences, FiniteSets, SequencesExt, Sums

CONSTANTS
    NumThreads,      \* mContexts.size()
    Cut,             \* the cuts a frame can carry
    NoFrame,         \* a thread's frame variable while it holds no frame
    Root,            \* the cut of buildInitialFrame
    Candidates,      \* Cut -> sequence of child cuts, in branching order
    Hash,            \* the fingerprints
    cutHash,         \* Cut -> Hash, not necessarily one-to-one
    Oversize,        \* the cuts with more than maxCutSize edges
    BatchSize,       \* frames per batch, 100 in the code
    PopMax,          \* frames taken from the spill buffer at once, 100
    MaxLocalFrames,  \* mConfig.maxLocalFrames
    MaxCuts,         \* mConfig.maxCuts, 0 for no limit
    MaxExamined,     \* mConfig.maxExamined, 0 for no limit
    Signals,         \* whether SIGINT or SIGTERM may arrive
    SleepOutlastsScan  \* see Wake

Thread == 0 .. NumThreads - 1

ASSUME ThreadsAssumption == NumThreads \in Nat \ {0}
ASSUME CutsAssumption ==
    /\ Root \in Cut
    /\ NoFrame \notin Cut
    /\ Candidates \in [Cut -> Seq(Cut)]
    /\ cutHash \in [Cut -> Hash]
    /\ Oversize \subseteq Cut
ASSUME LimitsAssumption ==
    /\ BatchSize \in Nat \ {0}
    /\ PopMax \in Nat \ {0}
    /\ MaxLocalFrames \in Nat
    /\ MaxCuts \in Nat
    /\ MaxExamined \in Nat
    /\ Signals \in BOOLEAN
    /\ SleepOutlastsScan \in BOOLEAN

VARIABLES
    main,              \* run(): "check", "spawn", "returned"
    stopCause,         \* who set gShutdownRequested first, "none" while false
    pc,                \* the next step of each worker
    batch,             \* frames taken in the current batch
    frame,             \* the frame being processed
    todo,              \* candidates branchFrame has yet to look at
    children,          \* children not yet placed on the stack
    roadmap,           \* ThreadContext::roadmap, the last element is the top
    hand,              \* frames taken out of one container, not yet in another
    attempts,          \* steal attempts made
    scanned,           \* contexts found idle by the scan
    idle,              \* ThreadContext::idle
    mSeen,             \* fingerprints in the table
    mSpill,            \* SpillBuffer::mFrames
    framesProcessed, duplicatesSkipped, cutsFound, cutsFiltered,  \* mStats
    examined,          \* cuts processFrame has been run on
    written            \* Cut -> how often writeCut was called with the cut

control  == <<main, stopCause>>
locals   == <<batch, frame, todo, children, hand, attempts, scanned>>
shared   == <<roadmap, idle, mSeen, mSpill>>
stats    == <<framesProcessed, duplicatesSkipped, cutsFound, cutsFiltered>>
history  == <<examined, written>>
vars     == <<control, pc, locals, shared, stats, history>>

gShutdownRequested == stopCause # "none"

Seen(c) == cutHash[c] \in mSeen

\* The first store to gShutdownRequested decides why the search stops.
Stop(cause) == stopCause' = IF gShutdownRequested THEN stopCause ELSE cause

Goto(t, from, to) == pc[t] = from /\ pc' = [pc EXCEPT ![t] = to]

Half(s)  == Len(s) \div 2
Lower(s) == SubSeq(s, 1, Half(s))
Upper(s) == SubSeq(s, Half(s) + 1, Len(s))

\* The owner of a roadmap holds its roadmapLock from acquiring it after the
\* limits to the end of the overflow split; every other critical section is
\* one action.
Locked(t) == pc[t] = "push"
-----------------------------------------------------------------------------
(***************************************************************************)
(* run(): the state after the contexts are constructed.                    *)
(***************************************************************************)
Init ==
    /\ main = "check" /\ stopCause = "none"
    /\ pc = [t \in Thread |-> "unborn"]
    /\ batch = [t \in Thread |-> 0]
    /\ frame = [t \in Thread |-> NoFrame]
    /\ todo = [t \in Thread |-> <<>>]
    /\ children = [t \in Thread |-> <<>>]
    /\ roadmap = [t \in Thread |-> <<>>]
    /\ hand = [t \in Thread |-> <<>>]
    /\ attempts = [t \in Thread |-> 0]
    /\ scanned = [t \in Thread |-> 0]
    /\ idle = [t \in Thread |-> FALSE]
    /\ mSeen = {} /\ mSpill = <<>>
    /\ framesProcessed = 0 /\ duplicatesSkipped = 0
    /\ cutsFound = 0 /\ cutsFiltered = 0
    /\ examined = {}
    /\ written = [c \in Cut |-> 0]

\* The early return when the super-sink cannot be reached: no thread starts.
SinkUnreachable ==
    /\ main = "check"
    /\ main' = "returned"
    /\ Stop("unreachable")
    /\ UNCHANGED <<pc, locals, shared, stats, history>>

\* Otherwise the initial frame goes to thread 0.
PushInitialFrame ==
    /\ main = "check"
    /\ main' = "spawn"
    /\ roadmap' = [roadmap EXCEPT ![0] = Append(@, Root)]
    /\ UNCHANGED <<stopCause, pc, locals, idle, mSeen, mSpill, stats, history>>

\* The threads are started in index order.
Spawn(t) ==
    /\ main = "spawn"
    /\ \A u \in Thread : u < t => pc[u] # "unborn"
    /\ Goto(t, "unborn", "loop")
    /\ UNCHANGED <<control, locals, shared, stats, history>>

\* run() returns when every thread has been joined.
Join ==
    /\ main = "spawn"
    /\ \A t \in Thread : pc[t] = "exited"
    /\ main' = "returned"
    /\ UNCHANGED <<stopCause, pc, locals, shared, stats, history>>

\* signalHandler, for SIGINT or SIGTERM at any moment of the run.
Signal ==
    /\ Signals
    /\ main # "returned"
    /\ Stop("signal")
    /\ UNCHANGED <<main, pc, locals, shared, stats, history>>
-----------------------------------------------------------------------------
(***************************************************************************)
(* workerLoop: a batch of frames.                                          *)
(***************************************************************************)

\* while (!isShutdownRequested()); after the loop the writer is flushed, which
\* touches nothing of another thread, and the thread ends.
LoopTest(t) ==
    /\ \/ gShutdownRequested /\ Goto(t, "loop", "exited")
       \/ ~gShutdownRequested /\ Goto(t, "loop", "pop")
    /\ UNCHANGED <<control, locals, shared, stats, history>>

\* Takes the top of the own stack, under its lock.
PopFrame(t) ==
    /\ batch[t] < BatchSize
    /\ roadmap[t] # <<>>
    /\ Goto(t, "pop", "mark")
    /\ frame' = [frame EXCEPT ![t] = Last(roadmap[t])]
    /\ roadmap' = [roadmap EXCEPT ![t] = Front(@)]
    /\ UNCHANGED <<control, batch, todo, children, hand, attempts, scanned,
                   idle, mSeen, mSpill, stats, history>>

\* Mutant: the idle flag goes up before the thread has looked for work.
EndBatchIdle(t) ==
    /\ \/ roadmap[t] = <<>> /\ Goto(t, "pop", "steal") /\ idle' = [idle EXCEPT ![t] = TRUE]
       \/ roadmap[t] # <<>> /\ batch[t] = BatchSize /\ Goto(t, "pop", "loop") /\ UNCHANGED idle
    /\ batch' = [batch EXCEPT ![t] = 0]
    /\ UNCHANGED <<control, frame, todo, children, hand, attempts, scanned,
                   roadmap, mSeen, mSpill, stats, history>>

\* Mutant: the next batch begins without a look at the flag.
EndBatchUnchecked(t) ==
    /\ \/ roadmap[t] = <<>> /\ Goto(t, "pop", "steal")
       \/ roadmap[t] # <<>> /\ batch[t] = BatchSize /\ UNCHANGED pc
    /\ batch' = [batch EXCEPT ![t] = 0]
    /\ UNCHANGED <<control, frame, todo, children, hand, attempts, scanned,
                   shared, stats, history>>

\* The batch ends: 100 frames taken, or the stack is empty.  The size is read
\* again under a second lock, with the same result: only the owner adds frames,
\* and a thief leaves at least one (StealFrom).
EndBatch(t) ==
    /\ \/ roadmap[t] = <<>> /\ Goto(t, "pop", "steal")
       \/ roadmap[t] # <<>> /\ batch[t] = BatchSize /\ Goto(t, "pop", "loop")
    /\ batch' = [batch EXCEPT ![t] = 0]
    /\ UNCHANGED <<control, frame, todo, children, hand, attempts, scanned,
                   shared, stats, history>>

\* Mutant: a duplicate is dropped without being counted.
SkipUncounted(t) ==
    /\ Goto(t, "mark", "pop")
    /\ Seen(frame[t])
    /\ frame' = [frame EXCEPT ![t] = NoFrame]
    /\ batch' = [batch EXCEPT ![t] = @ + 1]
    /\ UNCHANGED <<control, todo, children, hand, attempts, scanned, shared,
                   stats, history>>

\* tryMarkProcessing says the fingerprint was in the table.
SkipDuplicate(t) ==
    /\ Goto(t, "mark", "pop")
    /\ Seen(frame[t])
    /\ duplicatesSkipped' = duplicatesSkipped + 1
    /\ frame' = [frame EXCEPT ![t] = NoFrame]
    /\ batch' = [batch EXCEPT ![t] = @ + 1]
    /\ UNCHANGED <<control, todo, children, hand, attempts, scanned, shared,
                   framesProcessed, cutsFound, cutsFiltered, history>>

\* Mutant: the answer of tryMarkProcessing is ignored.
MarkAnyway(t) ==
    /\ Goto(t, "mark", "branch")
    /\ mSeen' = mSeen \cup {cutHash[frame[t]]}
    /\ todo' = [todo EXCEPT ![t] = Candidates[frame[t]]]
    /\ UNCHANGED <<control, batch, frame, children, hand, attempts, scanned,
                   roadmap, idle, mSpill, stats, history>>

\* tryMarkProcessing inserts it and processFrame starts.
MarkProcessing(t) ==
    /\ Goto(t, "mark", "branch")
    /\ ~Seen(frame[t])
    /\ mSeen' = mSeen \cup {cutHash[frame[t]]}
    /\ todo' = [todo EXCEPT ![t] = Candidates[frame[t]]]
    /\ UNCHANGED <<control, batch, frame, children, hand, attempts, scanned,
                   roadmap, idle, mSpill, stats, history>>

\* branchFrame drops a candidate the table already has.
Branch(t) ==
    /\ pc[t] = "branch"
    /\ todo[t] # <<>>
    /\ todo' = [todo EXCEPT ![t] = Tail(@)]
    /\ children' = IF Seen(Head(todo[t]))
                   THEN children
                   ELSE [children EXCEPT ![t] = Append(@, Head(todo[t]))]
    /\ UNCHANGED <<control, pc, batch, frame, hand, attempts, scanned, shared,
                   stats, history>>

\* The candidates branchFrame dropped: takeFilteredDuplicates.
FilteredDuplicates(t) == Len(Candidates[frame[t]]) - Len(children[t])

\* The counters, then the cut is written or filtered by size.
Record(t) ==
    /\ todo[t] = <<>>
    /\ Goto(t, "branch", "limits")
    /\ framesProcessed' = framesProcessed + 1
    /\ duplicatesSkipped' = duplicatesSkipped + FilteredDuplicates(t)
    /\ examined' = examined \cup {frame[t]}
    /\ \/ /\ frame[t] \in Oversize
          /\ cutsFiltered' = cutsFiltered + 1
          /\ UNCHANGED <<cutsFound, written>>
       \/ /\ frame[t] \notin Oversize
          /\ cutsFound' = cutsFound + 1
          /\ written' = [written EXCEPT ![frame[t]] = @ + 1]
          /\ UNCHANGED cutsFiltered
    /\ UNCHANGED <<control, locals, shared>>

\* Mutant: the search goes on at the limit.
ReachedMaxCutsLate == MaxCuts > 0 /\ cutsFound > MaxCuts

ReachedMaxCuts     == MaxCuts > 0 /\ cutsFound >= MaxCuts
ReachedMaxExamined == MaxExamined > 0 /\ cutsFound + cutsFiltered >= MaxExamined

\* The two limits; then the own lock is taken.
CheckLimits(t) ==
    /\ Goto(t, "limits", "push")
    /\ frame' = [frame EXCEPT ![t] = NoFrame]
    /\ \/ ReachedMaxCuts /\ Stop("maxCuts")
       \/ ~ReachedMaxCuts /\ ReachedMaxExamined /\ Stop("maxExamined")
       \/ ~ReachedMaxCuts /\ ~ReachedMaxExamined /\ UNCHANGED stopCause
    /\ UNCHANGED <<main, batch, todo, children, hand, attempts, scanned,
                   shared, stats, history>>

\* Mutant: a child is marked when it is pushed.
PushChildMarks(t) ==
    /\ pc[t] = "push"
    /\ children[t] # <<>>
    /\ children' = [children EXCEPT ![t] = Front(@)]
    /\ mSeen' = mSeen \cup {cutHash[Last(children[t])]}
    /\ \/ /\ Seen(Last(children[t]))
          /\ duplicatesSkipped' = duplicatesSkipped + 1
          /\ UNCHANGED roadmap
       \/ /\ ~Seen(Last(children[t]))
          /\ roadmap' = [roadmap EXCEPT ![t] = Append(@, Last(children[t]))]
          /\ UNCHANGED duplicatesSkipped
    /\ UNCHANGED <<control, pc, batch, frame, todo, hand, attempts, scanned,
                   idle, mSpill, framesProcessed, cutsFound, cutsFiltered,
                   history>>

\* Under the lock, last child first: push it unless it has been marked since.
PushChild(t) ==
    /\ pc[t] = "push"
    /\ children[t] # <<>>
    /\ children' = [children EXCEPT ![t] = Front(@)]
    /\ \/ /\ Seen(Last(children[t]))
          /\ duplicatesSkipped' = duplicatesSkipped + 1
          /\ UNCHANGED roadmap
       \/ /\ ~Seen(Last(children[t]))
          /\ roadmap' = [roadmap EXCEPT ![t] = Append(@, Last(children[t]))]
          /\ UNCHANGED duplicatesSkipped
    /\ UNCHANGED <<control, pc, batch, frame, todo, hand, attempts, scanned,
                   idle, mSeen, mSpill, framesProcessed, cutsFound,
                   cutsFiltered, history>>

\* Still under the lock: the lower half of a stack that is too long is taken
\* out; the lock is released.
SplitOverflow(t) ==
    /\ children[t] = <<>>
    /\ Len(roadmap[t]) > MaxLocalFrames
    /\ Half(roadmap[t]) > 0
    /\ Goto(t, "push", "spill")
    /\ hand' = [hand EXCEPT ![t] = Lower(roadmap[t])]
    /\ roadmap' = [roadmap EXCEPT ![t] = Upper(@)]
    /\ UNCHANGED <<control, batch, frame, todo, children, attempts, scanned,
                   idle, mSeen, mSpill, stats, history>>

NoOverflow(t) ==
    /\ children[t] = <<>>
    /\ Len(roadmap[t]) <= MaxLocalFrames \/ Half(roadmap[t]) = 0
    /\ Goto(t, "push", "pop")
    /\ batch' = [batch EXCEPT ![t] = @ + 1]
    /\ UNCHANGED <<control, frame, todo, children, hand, attempts, scanned,
                   shared, stats, history>>

\* pushToGlobalHeap
PushToGlobalHeap(t) ==
    /\ Goto(t, "spill", "pop")
    /\ mSpill' = mSpill \o hand[t]
    /\ hand' = [hand EXCEPT ![t] = <<>>]
    /\ batch' = [batch EXCEPT ![t] = @ + 1]
    /\ UNCHANGED <<control, frame, todo, children, attempts, scanned, roadmap,
                   idle, mSeen, stats, history>>
-----------------------------------------------------------------------------
(***************************************************************************)
(* workerLoop: looking for work when the own stack is empty.               *)
(***************************************************************************)

\* Mutant: one frame more is erased from the victim than the thief has taken.
StealErasesOneMore(t, v) ==
    /\ v # t /\ ~Locked(v)
    /\ Len(roadmap[v]) >= 2
    /\ Goto(t, "steal", "install")
    /\ hand' = [hand EXCEPT ![t] = Lower(roadmap[v])]
    /\ roadmap' = [roadmap EXCEPT ![v] = Tail(Upper(@))]
    /\ attempts' = [attempts EXCEPT ![t] = 0]
    /\ UNCHANGED <<control, batch, frame, todo, children, scanned, idle, mSeen,
                   mSpill, stats, history>>

\* trySteal, an attempt whose victim has two frames: its lower half is taken.
StealFrom(t, v) ==
    /\ v # t /\ ~Locked(v)
    /\ Len(roadmap[v]) >= 2
    /\ Goto(t, "steal", "install")
    /\ hand' = [hand EXCEPT ![t] = Lower(roadmap[v])]
    /\ roadmap' = [roadmap EXCEPT ![v] = Upper(@)]
    /\ attempts' = [attempts EXCEPT ![t] = 0]
    /\ UNCHANGED <<control, batch, frame, todo, children, scanned, idle, mSeen,
                   mSpill, stats, history>>

\* Mutant: the attempts are not counted from zero the next time.
StealNothingKeepsCount(t, v) ==
    /\ pc[t] = "steal"
    /\ v = t \/ (~Locked(v) /\ Len(roadmap[v]) < 2)
    /\ attempts' = [attempts EXCEPT ![t] = @ + 1]
    /\ pc' = [pc EXCEPT ![t] = IF attempts[t] = 1 THEN "heap" ELSE "steal"]
    /\ UNCHANGED <<control, batch, frame, todo, children, hand, scanned, shared,
                   stats, history>>

\* An attempt is wasted on the thief itself or on a victim with one frame; the
\* second one is the last, and no other thread makes the first the last.
StealNothing(t, v) ==
    /\ pc[t] = "steal"
    /\ v = t \/ (~Locked(v) /\ Len(roadmap[v]) < 2)
    /\ IF attempts[t] = 1 \/ NumThreads = 1
       THEN Goto(t, "steal", "heap") /\ attempts' = [attempts EXCEPT ![t] = 0]
       ELSE attempts' = [attempts EXCEPT ![t] = 1] /\ UNCHANGED pc
    /\ UNCHANGED <<control, batch, frame, todo, children, hand, scanned, shared,
                   stats, history>>

\* popFromGlobalHeap takes up to 100 frames from the back.
SpillCount == IF PopMax < Len(mSpill) THEN PopMax ELSE Len(mSpill)
SpillKept  == SubSeq(mSpill, 1, Len(mSpill) - SpillCount)
SpillTaken == Reverse(SubSeq(mSpill, Len(mSpill) - SpillCount + 1, Len(mSpill)))

PopFromGlobalHeap(t) ==
    /\ mSpill # <<>>
    /\ Goto(t, "heap", "install")
    /\ hand' = [hand EXCEPT ![t] = SpillTaken]
    /\ mSpill' = SpillKept
    /\ UNCHANGED <<control, batch, frame, todo, children, attempts, scanned,
                   roadmap, idle, mSeen, stats, history>>

\* The frames found go to the own stack, under its lock.
Install(t) ==
    /\ Goto(t, "install", "loop")
    /\ roadmap' = [roadmap EXCEPT ![t] = @ \o hand[t]]
    /\ hand' = [hand EXCEPT ![t] = <<>>]
    /\ UNCHANGED <<control, batch, frame, todo, children, attempts, scanned,
                   idle, mSeen, mSpill, stats, history>>

\* Mutant: the thread goes idle without looking into the spill buffer.
HeapUnread(t) ==
    /\ Goto(t, "heap", "idle")
    /\ UNCHANGED <<control, locals, shared, stats, history>>

\* popFromGlobalHeap finds nothing.
HeapEmpty(t) ==
    /\ mSpill = <<>>
    /\ Goto(t, "heap", "idle")
    /\ UNCHANGED <<control, locals, shared, stats, history>>
-----------------------------------------------------------------------------
(***************************************************************************)
(* workerLoop: the idle flag and the scan that declares termination.       *)
(***************************************************************************)
BecomeIdle(t) ==
    /\ Goto(t, "idle", "scan")
    /\ idle' = [idle EXCEPT ![t] = TRUE]
    /\ UNCHANGED <<control, locals, roadmap, mSeen, mSpill, stats, history>>

\* Mutant: the scan leaves out the last context.
ScanOneShort(t) ==
    /\ pc[t] = "scan"
    /\ idle[scanned[t]]
    /\ IF scanned[t] = NumThreads - 2
       THEN Goto(t, "scan", "declare") /\ scanned' = [scanned EXCEPT ![t] = 0]
       ELSE scanned' = [scanned EXCEPT ![t] = @ + 1] /\ UNCHANGED pc
    /\ UNCHANGED <<control, batch, frame, todo, children, hand, attempts, shared,
                   stats, history>>

\* One load per context, in index order; the first busy one ends the scan.
ScanIdle(t) ==
    /\ pc[t] = "scan"
    /\ idle[scanned[t]]
    /\ IF scanned[t] = NumThreads - 1
       THEN Goto(t, "scan", "declare") /\ scanned' = [scanned EXCEPT ![t] = 0]
       ELSE scanned' = [scanned EXCEPT ![t] = @ + 1] /\ UNCHANGED pc
    /\ UNCHANGED <<control, batch, frame, todo, children, hand, attempts, shared,
                   stats, history>>

ScanBusy(t) ==
    /\ ~idle[scanned[t]]
    /\ Goto(t, "scan", "sleep")
    /\ scanned' = [scanned EXCEPT ![t] = 0]
    /\ UNCHANGED <<control, batch, frame, todo, children, hand, attempts, shared,
                   stats, history>>

\* All were idle: the search is over if the spill buffer is empty too; the
\* thread leaves its loop.
Declare(t) ==
    /\ mSpill = <<>>
    /\ Goto(t, "declare", "exited")
    /\ Stop("idle")
    /\ UNCHANGED <<main, locals, shared, stats, history>>

SpillNotEmpty(t) ==
    /\ mSpill # <<>>
    /\ Goto(t, "declare", "sleep")
    /\ UNCHANGED <<control, locals, shared, stats, history>>

\* Thread u is in the middle of a scan and has read the flag of t as up.
HasReadIdle(u, t) == pc[u] = "scan" /\ t < scanned[u]

\* Mutant: the flag stays up after the sleep.
WakeStillIdle(t) ==
    /\ SleepOutlastsScan => ~\E u \in Thread : HasReadIdle(u, t)
    /\ Goto(t, "sleep", "loop")
    /\ UNCHANGED <<control, locals, shared, stats, history>>

\* The sleep of 100 microseconds ends.  SleepOutlastsScan adds the assumption
\* that it outlasts the scan of another thread, from its load of this thread's
\* flag to its last load; without it the sleep may end at any moment.
Wake(t) ==
    /\ SleepOutlastsScan => ~\E u \in Thread : HasReadIdle(u, t)
    /\ Goto(t, "sleep", "loop")
    /\ idle' = [idle EXCEPT ![t] = FALSE]
    /\ UNCHANGED <<control, locals, roadmap, mSeen, mSpill, stats, history>>
-----------------------------------------------------------------------------
Worker(t) ==
    \/ LoopTest(t) \/ PopFrame(t) \/ EndBatch(t)
    \/ SkipDuplicate(t) \/ MarkProcessing(t) \/ Branch(t) \/ Record(t)
    \/ CheckLimits(t) \/ PushChild(t) \/ SplitOverflow(t) \/ NoOverflow(t)
    \/ PushToGlobalHeap(t)
    \/ \E v \in Thread : StealFrom(t, v) \/ StealNothing(t, v)
    \/ PopFromGlobalHeap(t) \/ HeapEmpty(t) \/ Install(t)
    \/ BecomeIdle(t) \/ ScanIdle(t) \/ ScanBusy(t) \/ Declare(t)
    \/ SpillNotEmpty(t) \/ Wake(t)

Main == SinkUnreachable \/ PushInitialFrame \/ Join \/ \E t \in Thread : Spawn(t)

\* The process stops after run() has returned.
Returned == main = "returned" /\ UNCHANGED vars

Next == Main \/ Signal \/ Returned \/ \E t \in Thread : Worker(t)

Spec == Init /\ [][Next]_vars

\* A thread of the operating system keeps running; so does main.
FairSpec == Spec /\ WF_vars(Main) /\ \A t \in Thread : WF_vars(Worker(t))
-----------------------------------------------------------------------------
(***************************************************************************)
(* Properties.                                                             *)
(***************************************************************************)
Step == {"unborn", "loop", "pop", "mark", "branch", "limits", "push", "spill",
         "steal", "heap", "install", "idle", "scan", "declare", "sleep",
         "exited"}

Cause == {"none", "unreachable", "signal", "maxCuts", "maxExamined", "idle"}

Types ==
    /\ main \in {"check", "spawn", "returned"}
    /\ stopCause \in Cause
    /\ pc \in [Thread -> Step]
    /\ batch \in [Thread -> 0 .. BatchSize]
    /\ frame \in [Thread -> Cut \cup {NoFrame}]
    /\ todo \in [Thread -> Seq(Cut)]
    /\ children \in [Thread -> Seq(Cut)]
    /\ roadmap \in [Thread -> Seq(Cut)]
    /\ hand \in [Thread -> Seq(Cut)]
    /\ attempts \in [Thread -> 0 .. 1]
    /\ scanned \in [Thread -> Thread]
    /\ idle \in [Thread -> BOOLEAN]
    /\ mSeen \subseteq Hash
    /\ mSpill \in Seq(Cut)
    /\ framesProcessed \in Nat /\ duplicatesSkipped \in Int
    /\ cutsFound \in Nat /\ cutsFiltered \in Nat
    /\ examined \subseteq Cut
    /\ written \in [Cut -> Nat]

\* The locals of workerLoop and trySteal hold something only in the steps that
\* use them, and a batch has room for the frame in hand.
LocalsOK(t) ==
    /\ frame[t] # NoFrame <=> pc[t] \in {"mark", "branch", "limits"}
    /\ todo[t] # <<>> => pc[t] = "branch"
    /\ children[t] # <<>> => pc[t] \in {"branch", "limits", "push"}
    /\ hand[t] # <<>> => pc[t] \in {"spill", "install"}
    /\ pc[t] \in {"mark", "branch", "limits", "push", "spill"} => batch[t] < BatchSize

\* Every variable has its type, and no local of a loop body or of trySteal
\* survives the code that uses it.
TypeOK == Types /\ \A t \in Thread : LocalsOK(t)

Examining(t) == pc[t] = "branch"

\* The frames a thread is answerable for: on its stack, in its hands, among
\* the branches it is working through, or popped and not yet looked up.
Held(t) ==
    ToSet(roadmap[t]) \cup ToSet(hand[t]) \cup ToSet(children[t]) \cup ToSet(todo[t])
        \cup {c \in {frame[t]} : pc[t] = "mark"}

Pending == ToSet(mSpill) \cup UNION {Held(t) : t \in Thread}

\* The initial frame has been pushed.
Started == main = "spawn" \/ pc[0] # "unborn"

Accounted(c) == Seen(c) \/ c \in Pending

\* No frame is lost between the stacks, the thieves and the spill buffer: the
\* initial cut and every branch of an examined cut has its fingerprint in the
\* table, or a frame carrying it is still somewhere.  (What is still somewhere
\* when the search is stopped is never examined.)
NoFrameLost ==
    /\ Started => Accounted(Root)
    /\ \A c \in examined : \A d \in ToSet(Candidates[c]) : Accounted(d)

\* A fingerprint gets into the table only for a cut that is examined or being
\* examined: a search that drains has examined all it has marked.
SeenIsExamined ==
    \A h \in mSeen :
        \/ \E c \in examined : cutHash[c] = h
        \/ \E t \in Thread : Examining(t) /\ cutHash[frame[t]] = h

\* However many threads reach a cut, at once or by different paths, one of them
\* writes it, once; a cut too large is never written.
WrittenOnce ==
    /\ \A c \in Cut : written[c] = IF c \in examined \ Oversize THEN 1 ELSE 0
    /\ \A c, d \in examined : cutHash[c] = cutHash[d] => c = d

\* A thread whose idle flag is up holds no frame, so a flag read as up says that
\* the thread had nothing at that moment.
IdleHoldsNothing == \A t \in Thread : idle[t] => Held(t) = {} /\ ~Examining(t)

\* The frames popped, discarded and held add up to the frames created: the
\* counters printed at the end count every frame once.
FrameCount(t) ==
    LET one   == IF pc[t] \in {"mark", "branch"} THEN 1 ELSE 0
        ready == IF Examining(t) THEN 0 ELSE Len(children[t])
    IN  Len(roadmap[t]) + Len(hand[t]) + ready + one
FrameConservation ==
    Started =>
      framesProcessed + duplicatesSkipped + Len(mSpill) + Total([t \in Thread |-> FrameCount(t)])
        = 1 + Total([c \in examined |-> Len(Candidates[c])])

\* When the search has stopped because the threads found each other idle, no
\* frame is left anywhere: "Termination is declared when every local stack is
\* empty, the shared buffer is empty, and all threads are idle"
\* (docs/APDFS_SPECIFICATION.md, 8.3).
TerminationDetected ==
    stopCause = "idle" => Pending = {} /\ \A t \in Thread : ~Examining(t)

\* When run() returns and neither a limit nor a signal has stopped the search,
\* every cut that was reached has been examined.
CompleteOnReturn ==
    main = "returned" /\ stopCause = "idle" =>
      /\ Seen(Root)
      /\ \A c \in examined : \A d \in ToSet(Candidates[c]) : Seen(d)

\* While nobody has raised the flag, the cuts in excess of maxCuts are all of
\* threads that have counted one and not yet looked at the limits.
OvershootWhileRunning ==
    ~gShutdownRequested /\ MaxCuts > 0 =>
        cutsFound < MaxCuts + Cardinality({t \in Thread : pc[t] = "limits"})

\* The flag is not looked at inside a batch: the cuts found exceed maxCuts by
\* less than one batch of every thread, and so do the cuts examined and
\* maxExamined.
OvershootBounded ==
    /\ OvershootWhileRunning
    /\ MaxCuts > 0 => cutsFound < MaxCuts + NumThreads * BatchSize
    /\ MaxExamined > 0 => cutsFound + cutsFiltered < MaxExamined + NumThreads * BatchSize

\* The search implements the abstract enumeration: in particular it ends by
\* itself only when every cut it has reached is examined.
Enumeration == INSTANCE CutEnumeration WITH
    outcome <- IF ~gShutdownRequested THEN "running"
               ELSE IF stopCause = "idle" THEN "complete" ELSE "stopped"
ImplementsEnumeration == Enumeration!Spec

\* No frame is passed from thread to thread for ever: a cut that is waiting
\* somewhere is looked up in the table in the end, or the search is stopped.
\* (That it is not lost on the way is NoFrameLost.)
FramesSettle == \A c \in Cut : []<>(c \in Pending => Seen(c) \/ gShutdownRequested)

\* A thread with an empty stack is on its way to raising its flag.
LookingForWork(t) ==
    /\ pc[t] \in {"loop", "pop", "steal", "heap", "idle", "scan", "declare"}
    /\ roadmap[t] = <<>>

\* A sleep ends while another thread is on that way.
EarlyWake == \E t \in Thread : Wake(t) /\ \E u \in Thread : LookingForWork(u)

\* The run ends by itself, if from some moment on no sleep ends before the pass
\* of a thread that finds nothing is over: the idle threads then see each other.
Terminates == <>[][~EarlyWake]_vars => <>(main = "returned")
=============================================================================
