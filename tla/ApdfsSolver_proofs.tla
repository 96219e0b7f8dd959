------------------------- MODULE ApdfsSolver_proofs -------------------------
(***************************************************************************)
(* Proofs about ApdfsSolver and Reporter, the two sides of                 *)
(* ApdfsSolver.cpp, for every number of threads, every graph of            *)
(* cuts, every fingerprint and every limit: an idle thread holds no work,  *)
(* each fingerprint is examined and written once, no frame is lost, and    *)
(* the counters count every frame once.  The second half is about the end  *)
(* of the search: that the idle threads' verdict is right for one or two   *)
(* threads, and for any number of threads if a sleep outlasts the scan of  *)
(* another thread; that run() has then examined all it has reached; that   *)
(* the solver implements the enumeration; and that the limits, which end   *)
(* the search earlier, are overshot by less than one batch of every        *)
(* thread.  Over the branches of a graph the cuts written are its minimal  *)
(* cuts.  The last part is about the reporter: it takes nothing from the   *)
(* search, a wrapped rest is shown only when the search is about to stop,  *)
(* and no peak is lost.                                                    *)
(***************************************************************************)
EXTENDS Reporter, GraphSearch, Lemmas

(***************************************************************************)
(* Type correctness.                                                       *)
(***************************************************************************)

(* The two halves of a stack, taken apart by a thief or by the overflow      *)
(* split, are its frames.                                                    *)
LEMMA HalvesElements ==
    ASSUME NEW s \in Seq(Cut)
    PROVE  /\ Lower(s) \in Seq(Cut) /\ Upper(s) \in Seq(Cut)
           /\ Len(Lower(s)) = Half(s) /\ Len(Upper(s)) = Len(s) - Half(s)
           /\ ToSet(s) = ToSet(Lower(s)) \cup ToSet(Upper(s))
<1>1. Half(s) \in 0 .. Len(s)
  BY DEF Half
<1>. QED  BY <1>1, SplitElements DEF Lower, Upper

(* What popFromGlobalHeap takes and what it leaves are the frames of the spill *)
(* buffer.                                                                     *)
LEMMA SpillElements ==
    ASSUME mSpill \in Seq(Cut)
    PROVE  /\ SpillTaken \in Seq(Cut) /\ SpillKept \in Seq(Cut)
           /\ ToSet(mSpill) = ToSet(SpillTaken) \cup ToSet(SpillKept)
<1>. DEFINE rest == Len(mSpill) - SpillCount
<1>1. rest \in 0 .. Len(mSpill)
  BY LimitsAssumption DEF SpillCount
<1>2. SubSeq(mSpill, rest + 1, Len(mSpill)) \in Seq(Cut)
  BY <1>1, SplitElements
<1>3. SpillTaken \in Seq(Cut) /\ ToSet(SpillTaken) = ToSet(SubSeq(mSpill, rest + 1, Len(mSpill)))
  BY <1>2, ReverseElements DEF SpillTaken
<1>4. /\ SpillKept \in Seq(Cut)
      /\ ToSet(mSpill) = ToSet(SpillKept) \cup ToSet(SubSeq(mSpill, rest + 1, Len(mSpill)))
  BY <1>1, SplitElements DEF SpillKept
<1>. QED  BY <1>3, <1>4

LEMMA TypeInit == Init => TypeOK
<1>1. 0 \in Thread /\ 0 \in 0 .. BatchSize
  BY ThreadsAssumption, LimitsAssumption DEF Thread
<1>. QED  BY <1>1 DEF Init, TypeOK, Types, LocalsOK, Step, Cause

LEMMA TypeStep == TypeOK /\ [Next]_vars => TypeOK'
<1>. SUFFICES ASSUME TypeOK, [Next]_vars PROVE TypeOK'
  OBVIOUS
<1>1. CASE SinkUnreachable
  BY <1>1 DEF SinkUnreachable, Stop, TypeOK, Types, LocalsOK, Cause, control, locals, shared, stats, history
<1>2. CASE PushInitialFrame
  <2>1. 0 \in Thread /\ Append(roadmap[0], Root) \in Seq(Cut)
    BY ThreadsAssumption, CutsAssumption, AppendElement DEF TypeOK, Types, Thread
  <2>2. roadmap' \in [Thread -> Seq(Cut)]
    BY <1>2, <2>1 DEF PushInitialFrame, TypeOK, Types
  <2>. QED  BY <1>2, <2>2 DEF PushInitialFrame, TypeOK, Types, LocalsOK, control, locals, shared, stats, history
<1>3. CASE Join
  BY <1>3 DEF Join, TypeOK, Types, LocalsOK, control, locals, shared, stats, history
<1>4. CASE Signal
  BY <1>4 DEF Signal, Stop, TypeOK, Types, LocalsOK, Cause, control, locals, shared, stats, history
<1>5. CASE UNCHANGED vars
  BY <1>5 DEF TypeOK, Types, LocalsOK, vars, control, locals, shared, stats, history
<1>6. ASSUME NEW t \in Thread, Spawn(t)
      PROVE  TypeOK'
  <2>a. Types /\ LocalsOK(t)
    BY DEF TypeOK
  <2>1. Types'
    BY <1>6, <2>a, ThreadsAssumption, LimitsAssumption, CutsAssumption
       DEF Spawn, Goto, Stop, Types, Step, Cause, LocalsOK, control, locals, shared, stats, history
  <2>2. ASSUME NEW u \in Thread PROVE LocalsOK(u)'
    BY <1>6, <2>a, LimitsAssumption, CutsAssumption
       DEF TypeOK, Types, LocalsOK, Spawn, Goto, control, locals, shared, stats, history
  <2>. QED  BY <2>1, <2>2 DEF TypeOK
<1>7. ASSUME NEW t \in Thread, LoopTest(t)
      PROVE  TypeOK'
  <2>a. Types /\ LocalsOK(t)
    BY DEF TypeOK
  <2>1. Types'
    BY <1>7, <2>a, ThreadsAssumption, LimitsAssumption, CutsAssumption
       DEF LoopTest, Goto, Stop, Types, Step, Cause, LocalsOK, control, locals, shared, stats, history
  <2>2. ASSUME NEW u \in Thread PROVE LocalsOK(u)'
    BY <1>7, <2>a, LimitsAssumption, CutsAssumption
       DEF TypeOK, Types, LocalsOK, LoopTest, Goto, control, locals, shared, stats, history
  <2>. QED  BY <2>1, <2>2 DEF TypeOK
<1>8. ASSUME NEW t \in Thread, PopFrame(t)
      PROVE  TypeOK'
  <2>a. Types /\ LocalsOK(t)
    BY DEF TypeOK
  <2>1. roadmap[t] \in Seq(Cut) /\ roadmap[t] # <<>>
    BY <1>8, <2>a DEF PopFrame, Types
  <2>2. Front(roadmap[t]) \in Seq(Cut) /\ Last(roadmap[t]) \in Cut
    BY <2>1, FrontLast
  <2>3. pc' \in [Thread -> Step]
    BY <1>8, <2>a DEF PopFrame, Goto, Types, Step
  <2>4. /\ frame' \in [Thread -> Cut \cup {NoFrame}]
         /\ roadmap' \in [Thread -> Seq(Cut)]
    BY <1>8, <2>a, <2>2 DEF PopFrame, Types
  <2>5. Types'
    BY <1>8, <2>a, <2>1, <2>2, <2>3, <2>4 DEF PopFrame, Goto, Types, control, locals, shared, stats, history
  <2>6. ASSUME NEW u \in Thread PROVE LocalsOK(u)'
    BY <1>8, <2>a, <2>2, LimitsAssumption, CutsAssumption
       DEF TypeOK, Types, LocalsOK, PopFrame, Goto, control, locals, shared, stats, history
  <2>. QED  BY <2>5, <2>6 DEF TypeOK
<1>9. ASSUME NEW t \in Thread, EndBatch(t)
      PROVE  TypeOK'
  <2>a. Types /\ LocalsOK(t)
    BY DEF TypeOK
  <2>1. pc' \in [Thread -> Step]
    BY <1>9, <2>a DEF EndBatch, Goto, Types, Step
  <2>2. batch' \in [Thread -> 0 .. BatchSize]
    BY <1>9, <2>a, LimitsAssumption DEF EndBatch, Types
  <2>3. Types'
    BY <1>9, <2>a, <2>1, <2>2 DEF EndBatch, Goto, Types, control, locals, shared, stats, history
  <2>4. ASSUME NEW u \in Thread PROVE LocalsOK(u)'
    <3>1. /\ pc[t] = "pop" /\ (pc' = [pc EXCEPT ![t] = "steal"] \/ pc' = [pc EXCEPT ![t] = "loop"])
          /\ batch' = [batch EXCEPT ![t] = 0]
          /\ UNCHANGED <<frame, todo, children, hand>>
      BY <1>9 DEF EndBatch, Goto
    <3>2. LocalsOK(u) /\ pc \in [Thread -> Step] /\ batch \in [Thread -> 0 .. BatchSize]
      BY DEF TypeOK, Types
    <3>3. pc'[u] = pc[u] \/ (u = t /\ pc'[t] \in {"steal", "loop", "heap", "declare"})
      BY <3>1, <3>2
    <3>4. pc'[u] = pc[u] /\ u # t => batch'[u] = batch[u]
      BY <3>1, <3>2
    <3>. QED  BY <3>1, <3>2, <3>3, <3>4 DEF LocalsOK
  <2>. QED  BY <2>3, <2>4 DEF TypeOK
<1>10. ASSUME NEW t \in Thread, SkipDuplicate(t)
      PROVE  TypeOK'
  <2>a. Types /\ LocalsOK(t)
    BY DEF TypeOK
  <2>1. pc' \in [Thread -> Step]
    BY <1>10, <2>a DEF SkipDuplicate, Goto, Types, Step
  <2>2. batch[t] + 1 \in 0 .. BatchSize
    BY <1>10, <2>a, LimitsAssumption DEF SkipDuplicate, Goto, Types, LocalsOK
  <2>3. /\ batch' \in [Thread -> 0 .. BatchSize]
         /\ frame' \in [Thread -> Cut \cup {NoFrame}]
    BY <1>10, <2>a, <2>2 DEF SkipDuplicate, Types
  <2>4. duplicatesSkipped' \in Int
    BY <1>10, <2>a DEF SkipDuplicate, Types
  <2>5. Types'
    BY <1>10, <2>a, <2>1, <2>2, <2>3, <2>4 DEF SkipDuplicate, Goto, Types, control, locals, shared, stats, history
  <2>6. ASSUME NEW u \in Thread PROVE LocalsOK(u)'
    BY <1>10, <2>a, LimitsAssumption, CutsAssumption
       DEF TypeOK, Types, LocalsOK, SkipDuplicate, Goto, control, locals, shared, stats, history
  <2>. QED  BY <2>5, <2>6 DEF TypeOK
<1>11. ASSUME NEW t \in Thread, MarkProcessing(t)
      PROVE  TypeOK'
  <2>a. Types /\ LocalsOK(t)
    BY DEF TypeOK
  <2>1. frame[t] \in Cut
    BY <1>11, <2>a DEF MarkProcessing, Goto, Types, LocalsOK
  <2>2. cutHash[frame[t]] \in Hash /\ Candidates[frame[t]] \in Seq(Cut)
    BY <2>1, CutsAssumption
  <2>3. pc' \in [Thread -> Step]
    BY <1>11, <2>a DEF MarkProcessing, Goto, Types, Step
  <2>4. mSeen' \subseteq Hash /\ todo' \in [Thread -> Seq(Cut)]
    BY <1>11, <2>a, <2>2 DEF MarkProcessing, Types
  <2>5. Types'
    BY <1>11, <2>a, <2>1, <2>2, <2>3, <2>4 DEF MarkProcessing, Goto, Types, control, locals, shared, stats, history
  <2>6. ASSUME NEW u \in Thread PROVE LocalsOK(u)'
    BY <1>11, <2>a, LimitsAssumption, CutsAssumption
       DEF TypeOK, Types, LocalsOK, MarkProcessing, Goto, control, locals, shared, stats, history
  <2>. QED  BY <2>5, <2>6 DEF TypeOK
<1>12. ASSUME NEW t \in Thread, Branch(t)
      PROVE  TypeOK'
  <2>a. Types /\ LocalsOK(t)
    BY DEF TypeOK
  <2>1. todo[t] \in Seq(Cut) /\ todo[t] # <<>> /\ children[t] \in Seq(Cut)
    BY <1>12, <2>a DEF Branch, Types
  <2>2. Tail(todo[t]) \in Seq(Cut) /\ Head(todo[t]) \in Cut
    BY <2>1, HeadTail
  <2>3. Append(children[t], Head(todo[t])) \in Seq(Cut)
    BY <2>1, <2>2, AppendElement
  <2>4. todo' \in [Thread -> Seq(Cut)]
    BY <1>12, <2>a, <2>2 DEF Branch, Types
  <2>5. children' \in [Thread -> Seq(Cut)]
    BY <1>12, <2>a, <2>3 DEF Branch, Types
  <2>6. Types'
    BY <1>12, <2>a, <2>1, <2>2, <2>3, <2>4, <2>5 DEF Branch, Goto, Types, control, locals, shared, stats, history
  <2>7. ASSUME NEW u \in Thread PROVE LocalsOK(u)'
    BY <1>12, <2>a, LimitsAssumption, CutsAssumption
       DEF TypeOK, Types, LocalsOK, Branch, Goto, control, locals, shared, stats, history
  <2>. QED  BY <2>6, <2>7 DEF TypeOK
<1>13. ASSUME NEW t \in Thread, Record(t)
      PROVE  TypeOK'
  <2>a. Types /\ LocalsOK(t)
    BY DEF TypeOK
  <2>1. frame[t] \in Cut
    BY <1>13, <2>a DEF Record, Goto, Types, LocalsOK
  <2>2. FilteredDuplicates(t) \in Int
    BY <1>13, <2>a, <2>1, CutsAssumption DEF FilteredDuplicates, Types
  <2>3. pc' \in [Thread -> Step]
    BY <1>13, <2>a DEF Record, Goto, Types, Step
  <2>4. /\ framesProcessed' \in Nat /\ duplicatesSkipped' \in Int
         /\ examined' \subseteq Cut
    BY <1>13, <2>a, <2>1, <2>2 DEF Record, Types
  <2>5. cutsFound' \in Nat /\ cutsFiltered' \in Nat
    BY <1>13, <2>a DEF Record, Types
  <2>6. written[frame[t]] + 1 \in Nat
    BY <1>13, <2>a, <2>1 DEF Types
  <2>7. written' \in [Cut -> Nat]
    BY <1>13, <2>a, <2>1, <2>6 DEF Record, Types
  <2>8. Types'
    BY <1>13, <2>a, <2>1, <2>2, <2>3, <2>4, <2>5, <2>6, <2>7 DEF Record, Goto, Types, control, locals, shared, stats, history
  <2>9. ASSUME NEW u \in Thread PROVE LocalsOK(u)'
    BY <1>13, <2>a, LimitsAssumption, CutsAssumption
       DEF TypeOK, Types, LocalsOK, Record, Goto, control, locals, shared, stats, history
  <2>. QED  BY <2>8, <2>9 DEF TypeOK
<1>14. ASSUME NEW t \in Thread, CheckLimits(t)
      PROVE  TypeOK'
  <2>a. Types /\ LocalsOK(t)
    BY DEF TypeOK
  <2>1. Types'
    BY <1>14, <2>a, ThreadsAssumption, LimitsAssumption, CutsAssumption
       DEF CheckLimits, Goto, Stop, Types, Step, Cause, LocalsOK, control, locals, shared, stats, history
  <2>2. ASSUME NEW u \in Thread PROVE LocalsOK(u)'
    BY <1>14, <2>a, LimitsAssumption, CutsAssumption
       DEF TypeOK, Types, LocalsOK, CheckLimits, Goto, control, locals, shared, stats, history
  <2>. QED  BY <2>1, <2>2 DEF TypeOK
<1>15. ASSUME NEW t \in Thread, PushChild(t)
      PROVE  TypeOK'
  <2>a. Types /\ LocalsOK(t)
    BY DEF TypeOK
  <2>1. children[t] \in Seq(Cut) /\ children[t] # <<>> /\ roadmap[t] \in Seq(Cut)
    BY <1>15, <2>a DEF PushChild, Types
  <2>2. Front(children[t]) \in Seq(Cut) /\ Last(children[t]) \in Cut
    BY <2>1, FrontLast
  <2>3. Append(roadmap[t], Last(children[t])) \in Seq(Cut)
    BY <2>1, <2>2, AppendElement
  <2>4. children' \in [Thread -> Seq(Cut)]
    BY <1>15, <2>a, <2>2 DEF PushChild, Types
  <2>5. roadmap' \in [Thread -> Seq(Cut)]
    BY <1>15, <2>a, <2>3 DEF PushChild, Types
  <2>6. duplicatesSkipped' \in Int
    BY <1>15, <2>a DEF PushChild, Types
  <2>7. Types'
    BY <1>15, <2>a, <2>1, <2>2, <2>3, <2>4, <2>5, <2>6 DEF PushChild, Goto, Types, control, locals, shared, stats, history
  <2>8. ASSUME NEW u \in Thread PROVE LocalsOK(u)'
    BY <1>15, <2>a, LimitsAssumption, CutsAssumption
       DEF TypeOK, Types, LocalsOK, PushChild, Goto, control, locals, shared, stats, history
  <2>. QED  BY <2>7, <2>8 DEF TypeOK
<1>16. ASSUME NEW t \in Thread, SplitOverflow(t)
      PROVE  TypeOK'
  <2>a. Types /\ LocalsOK(t)
    BY DEF TypeOK
  <2>1. roadmap[t] \in Seq(Cut)
    BY <1>16, <2>a DEF Types
  <2>2. Lower(roadmap[t]) \in Seq(Cut) /\ Upper(roadmap[t]) \in Seq(Cut)
    BY <2>1, HalvesElements
  <2>3. pc' \in [Thread -> Step]
    BY <1>16, <2>a DEF SplitOverflow, Goto, Types, Step
  <2>4. /\ hand' \in [Thread -> Seq(Cut)]
         /\ roadmap' \in [Thread -> Seq(Cut)]
    BY <1>16, <2>a, <2>2 DEF SplitOverflow, Types
  <2>5. Types'
    BY <1>16, <2>a, <2>1, <2>2, <2>3, <2>4 DEF SplitOverflow, Goto, Types, control, locals, shared, stats, history
  <2>6. ASSUME NEW u \in Thread PROVE LocalsOK(u)'
    BY <1>16, <2>a, LimitsAssumption, CutsAssumption
       DEF TypeOK, Types, LocalsOK, SplitOverflow, Goto, control, locals, shared, stats, history
  <2>. QED  BY <2>5, <2>6 DEF TypeOK
<1>17. ASSUME NEW t \in Thread, NoOverflow(t)
      PROVE  TypeOK'
  <2>a. Types /\ LocalsOK(t)
    BY DEF TypeOK
  <2>1. Types'
    BY <1>17, <2>a, ThreadsAssumption, LimitsAssumption, CutsAssumption
       DEF NoOverflow, Goto, Stop, Types, Step, Cause, LocalsOK, control, locals, shared, stats, history
  <2>2. ASSUME NEW u \in Thread PROVE LocalsOK(u)'
    BY <1>17, <2>a, LimitsAssumption, CutsAssumption
       DEF TypeOK, Types, LocalsOK, NoOverflow, Goto, control, locals, shared, stats, history
  <2>. QED  BY <2>1, <2>2 DEF TypeOK
<1>18. ASSUME NEW t \in Thread, PushToGlobalHeap(t)
      PROVE  TypeOK'
  <2>a. Types /\ LocalsOK(t)
    BY DEF TypeOK
  <2>3. pc' \in [Thread -> Step]
    BY <1>18, <2>a DEF PushToGlobalHeap, Goto, Types, Step
  <2>4. batch[t] + 1 \in 0 .. BatchSize
    BY <1>18, <2>a, LimitsAssumption DEF PushToGlobalHeap, Goto, Types, LocalsOK
  <2>5. /\ batch' \in [Thread -> 0 .. BatchSize]
        /\ hand' \in [Thread -> Seq(Cut)] /\ mSpill' \in Seq(Cut)
    BY <1>18, <2>a, <2>4 DEF PushToGlobalHeap, Types
  <2>1. Types'
    BY <1>18, <2>a, <2>3, <2>5 DEF PushToGlobalHeap, Types, control, stats, history
  <2>2. ASSUME NEW u \in Thread PROVE LocalsOK(u)'
    BY <1>18, <2>a, LimitsAssumption, CutsAssumption
       DEF TypeOK, Types, LocalsOK, PushToGlobalHeap, Goto, control, locals, shared, stats, history
  <2>. QED  BY <2>1, <2>2 DEF TypeOK
<1>19. ASSUME NEW t \in Thread, NEW v \in Thread, StealFrom(t, v)
      PROVE  TypeOK'
  <2>a. Types /\ LocalsOK(t)
    BY DEF TypeOK
  <2>1. roadmap[v] \in Seq(Cut)
    BY <1>19, <2>a DEF Types
  <2>2. Lower(roadmap[v]) \in Seq(Cut) /\ Upper(roadmap[v]) \in Seq(Cut)
    BY <2>1, HalvesElements
  <2>3. pc' \in [Thread -> Step]
    BY <1>19, <2>a DEF StealFrom, Goto, Types, Step
  <2>4. /\ hand' \in [Thread -> Seq(Cut)]
         /\ roadmap' \in [Thread -> Seq(Cut)]
    BY <1>19, <2>a, <2>2 DEF StealFrom, Types
  <2>5. attempts' \in [Thread -> 0 .. 1]
    BY <1>19, <2>a DEF StealFrom, Types
  <2>6. Types'
    BY <1>19, <2>a, <2>1, <2>2, <2>3, <2>4, <2>5 DEF StealFrom, Goto, Types, control, locals, shared, stats, history
  <2>7. ASSUME NEW u \in Thread PROVE LocalsOK(u)'
    BY <1>19, <2>a, LimitsAssumption, CutsAssumption
       DEF TypeOK, Types, LocalsOK, StealFrom, Goto, control, locals, shared, stats, history
  <2>. QED  BY <2>6, <2>7 DEF TypeOK
<1>20. ASSUME NEW t \in Thread, NEW v \in Thread, StealNothing(t, v)
      PROVE  TypeOK'
  <2>a. Types /\ LocalsOK(t)
    BY DEF TypeOK
  <2>1. \/ pc' = [pc EXCEPT ![t] = "heap"] /\ attempts' = [attempts EXCEPT ![t] = 0]
        \/ pc' = pc /\ attempts' = [attempts EXCEPT ![t] = 1]
    BY <1>20, <2>a DEF StealNothing, Goto
  <2>2. pc' \in [Thread -> Step]
    BY <1>20, <2>a, <2>1 DEF Types, Step
  <2>3. 0 \in 0 .. 1 /\ 1 \in 0 .. 1
    OBVIOUS
  <2>4. attempts' \in [Thread -> 0 .. 1]
    BY <1>20, <2>a, <2>1, <2>3 DEF Types
  <2>5. Types'
    BY <1>20, <2>a, <2>1, <2>2, <2>3, <2>4 DEF StealNothing, Goto, Types, control, locals, shared, stats, history
  <2>6. ASSUME NEW u \in Thread PROVE LocalsOK(u)'
    <3>1. /\ pc[t] = "steal" /\ (pc' = [pc EXCEPT ![t] = "heap"] \/ pc' = pc)
          /\ batch' = batch
          /\ UNCHANGED <<frame, todo, children, hand>>
      BY <1>20 DEF StealNothing, Goto
    <3>2. LocalsOK(u) /\ pc \in [Thread -> Step] /\ batch \in [Thread -> 0 .. BatchSize]
      BY DEF TypeOK, Types
    <3>3. pc'[u] = pc[u] \/ (u = t /\ pc'[t] \in {"steal", "loop", "heap", "declare"})
      BY <3>1, <3>2
    <3>4. pc'[u] = pc[u] /\ u # t => batch'[u] = batch[u]
      BY <3>1, <3>2
    <3>. QED  BY <3>1, <3>2, <3>3, <3>4 DEF LocalsOK
  <2>. QED  BY <2>5, <2>6 DEF TypeOK
<1>21. ASSUME NEW t \in Thread, PopFromGlobalHeap(t)
      PROVE  TypeOK'
  <2>a. Types /\ LocalsOK(t)
    BY DEF TypeOK
  <2>1. /\ SpillTaken \in Seq(Cut)
         /\ SpillKept \in Seq(Cut)
    BY <1>21, <2>a, SpillElements DEF Types
  <2>2. pc' \in [Thread -> Step]
    BY <1>21, <2>a DEF PopFromGlobalHeap, Goto, Types, Step
  <2>3. /\ hand' \in [Thread -> Seq(Cut)]
         /\ mSpill' \in Seq(Cut)
    BY <1>21, <2>a, <2>1 DEF PopFromGlobalHeap, Types
  <2>4. Types'
    BY <1>21, <2>a, <2>1, <2>2, <2>3 DEF PopFromGlobalHeap, Goto, Types, control, locals, shared, stats, history
  <2>5. ASSUME NEW u \in Thread PROVE LocalsOK(u)'
    BY <1>21, <2>a, LimitsAssumption, CutsAssumption
       DEF TypeOK, Types, LocalsOK, PopFromGlobalHeap, Goto, control, locals, shared, stats, history
  <2>. QED  BY <2>4, <2>5 DEF TypeOK
<1>22. ASSUME NEW t \in Thread, Install(t)
      PROVE  TypeOK'
  <2>a. Types /\ LocalsOK(t)
    BY DEF TypeOK
  <2>3. pc' \in [Thread -> Step]
    BY <1>22, <2>a DEF Install, Goto, Types, Step
  <2>4. hand' \in [Thread -> Seq(Cut)] /\ roadmap' \in [Thread -> Seq(Cut)]
    BY <1>22, <2>a DEF Install, Types
  <2>1. Types'
    BY <1>22, <2>a, <2>3, <2>4 DEF Install, Types, control, stats, history
  <2>2. ASSUME NEW u \in Thread PROVE LocalsOK(u)'
    BY <1>22, <2>a, LimitsAssumption, CutsAssumption
       DEF TypeOK, Types, LocalsOK, Install, Goto, control, locals, shared, stats, history
  <2>. QED  BY <2>1, <2>2 DEF TypeOK
<1>23. ASSUME NEW t \in Thread, HeapEmpty(t)
      PROVE  TypeOK'
  <2>a. Types /\ LocalsOK(t)
    BY DEF TypeOK
  <2>1. Types'
    BY <1>23, <2>a, ThreadsAssumption, LimitsAssumption, CutsAssumption
       DEF HeapEmpty, Goto, Stop, Types, Step, Cause, LocalsOK, control, locals, shared, stats, history
  <2>2. ASSUME NEW u \in Thread PROVE LocalsOK(u)'
    BY <1>23, <2>a, LimitsAssumption, CutsAssumption
       DEF TypeOK, Types, LocalsOK, HeapEmpty, Goto, control, locals, shared, stats, history
  <2>. QED  BY <2>1, <2>2 DEF TypeOK
<1>24. ASSUME NEW t \in Thread, BecomeIdle(t)
      PROVE  TypeOK'
  <2>a. Types /\ LocalsOK(t)
    BY DEF TypeOK
  <2>1. Types'
    BY <1>24, <2>a, ThreadsAssumption, LimitsAssumption, CutsAssumption
       DEF BecomeIdle, Goto, Stop, Types, Step, Cause, LocalsOK, control, locals, shared, stats, history
  <2>2. ASSUME NEW u \in Thread PROVE LocalsOK(u)'
    BY <1>24, <2>a, LimitsAssumption, CutsAssumption
       DEF TypeOK, Types, LocalsOK, BecomeIdle, Goto, control, locals, shared, stats, history
  <2>. QED  BY <2>1, <2>2 DEF TypeOK
<1>25. ASSUME NEW t \in Thread, ScanIdle(t)
      PROVE  TypeOK'
  <2>a. Types /\ LocalsOK(t)
    BY DEF TypeOK
  <2>1. \/ pc' = [pc EXCEPT ![t] = "declare"] /\ scanned' = [scanned EXCEPT ![t] = 0]
        \/ /\ pc' = pc /\ scanned[t] # NumThreads - 1
           /\ scanned' = [scanned EXCEPT ![t] = scanned[t] + 1]
    BY <1>25, <2>a DEF ScanIdle, Goto
  <2>2. pc' \in [Thread -> Step]
    BY <1>25, <2>a, <2>1 DEF Types, Step
  <2>3. scanned[t] \in Thread
    BY <1>25, <2>a DEF Types
  <2>4. 0 \in Thread
    BY <1>25, <2>a, ThreadsAssumption DEF Thread
  <2>5. scanned[t] # NumThreads - 1 => scanned[t] + 1 \in Thread
    BY <1>25, <2>a, <2>3, ThreadsAssumption DEF Thread
  <2>6. scanned' \in [Thread -> Thread]
    BY <1>25, <2>a, <2>1, <2>4, <2>5 DEF Types
  <2>7. Types'
    BY <1>25, <2>a, <2>1, <2>2, <2>3, <2>4, <2>5, <2>6 DEF ScanIdle, Goto, Types, control, locals, shared, stats, history
  <2>8. ASSUME NEW u \in Thread PROVE LocalsOK(u)'
    <3>1. /\ pc[t] = "scan" /\ (pc' = [pc EXCEPT ![t] = "declare"] \/ pc' = pc)
          /\ batch' = batch
          /\ UNCHANGED <<frame, todo, children, hand>>
      BY <1>25 DEF ScanIdle, Goto
    <3>2. LocalsOK(u) /\ pc \in [Thread -> Step] /\ batch \in [Thread -> 0 .. BatchSize]
      BY DEF TypeOK, Types
    <3>3. pc'[u] = pc[u] \/ (u = t /\ pc'[t] \in {"steal", "loop", "heap", "declare"})
      BY <3>1, <3>2
    <3>4. pc'[u] = pc[u] /\ u # t => batch'[u] = batch[u]
      BY <3>1, <3>2
    <3>. QED  BY <3>1, <3>2, <3>3, <3>4 DEF LocalsOK
  <2>. QED  BY <2>7, <2>8 DEF TypeOK
<1>26. ASSUME NEW t \in Thread, ScanBusy(t)
      PROVE  TypeOK'
  <2>a. Types /\ LocalsOK(t)
    BY DEF TypeOK
  <2>1. pc' \in [Thread -> Step]
    BY <1>26, <2>a DEF ScanBusy, Goto, Types, Step
  <2>2. 0 \in Thread
    BY <1>26, <2>a, ThreadsAssumption DEF Thread
  <2>3. scanned' \in [Thread -> Thread]
    BY <1>26, <2>a, <2>2 DEF ScanBusy, Types
  <2>4. Types'
    BY <1>26, <2>a, <2>1, <2>2, <2>3 DEF ScanBusy, Goto, Types, control, locals, shared, stats, history
  <2>5. ASSUME NEW u \in Thread PROVE LocalsOK(u)'
    BY <1>26, <2>a, LimitsAssumption, CutsAssumption
       DEF TypeOK, Types, LocalsOK, ScanBusy, Goto, control, locals, shared, stats, history
  <2>. QED  BY <2>4, <2>5 DEF TypeOK
<1>27. ASSUME NEW t \in Thread, Declare(t)
      PROVE  TypeOK'
  <2>a. Types /\ LocalsOK(t)
    BY DEF TypeOK
  <2>1. Types'
    BY <1>27, <2>a, ThreadsAssumption, LimitsAssumption, CutsAssumption
       DEF Declare, Goto, Stop, Types, Step, Cause, LocalsOK, control, locals, shared, stats, history
  <2>2. ASSUME NEW u \in Thread PROVE LocalsOK(u)'
    BY <1>27, <2>a, LimitsAssumption, CutsAssumption
       DEF TypeOK, Types, LocalsOK, Declare, Goto, control, locals, shared, stats, history
  <2>. QED  BY <2>1, <2>2 DEF TypeOK
<1>28. ASSUME NEW t \in Thread, SpillNotEmpty(t)
      PROVE  TypeOK'
  <2>a. Types /\ LocalsOK(t)
    BY DEF TypeOK
  <2>1. Types'
    BY <1>28, <2>a, ThreadsAssumption, LimitsAssumption, CutsAssumption
       DEF SpillNotEmpty, Goto, Stop, Types, Step, Cause, LocalsOK, control, locals, shared, stats, history
  <2>2. ASSUME NEW u \in Thread PROVE LocalsOK(u)'
    BY <1>28, <2>a, LimitsAssumption, CutsAssumption
       DEF TypeOK, Types, LocalsOK, SpillNotEmpty, Goto, control, locals, shared, stats, history
  <2>. QED  BY <2>1, <2>2 DEF TypeOK
<1>29. ASSUME NEW t \in Thread, Wake(t)
      PROVE  TypeOK'
  <2>a. Types /\ LocalsOK(t)
    BY DEF TypeOK
  <2>1. Types'
    BY <1>29, <2>a, ThreadsAssumption, LimitsAssumption, CutsAssumption
       DEF Wake, Goto, Stop, Types, Step, Cause, LocalsOK, control, locals, shared, stats, history
  <2>2. ASSUME NEW u \in Thread PROVE LocalsOK(u)'
    BY <1>29, <2>a, LimitsAssumption, CutsAssumption
       DEF TypeOK, Types, LocalsOK, Wake, Goto, control, locals, shared, stats, history
  <2>. QED  BY <2>1, <2>2 DEF TypeOK
<1>. QED
  BY <1>1, <1>2, <1>3, <1>4, <1>5, <1>6, <1>7, <1>8, <1>9, <1>10, <1>11, <1>12, <1>13, <1>14, <1>15, <1>16, <1>17, <1>18, <1>19, <1>20, <1>21, <1>22, <1>23, <1>24, <1>25, <1>26, <1>27, <1>28, <1>29
     DEF Next, Main, Worker, Returned

(* Every variable keeps its type, and no local outlives the code that uses it. *)
THEOREM TypeCorrect == Spec => []TypeOK
BY TypeInit, TypeStep, PTL DEF Spec
-----------------------------------------------------------------------------
(***************************************************************************)
(* The course of run(), and the idle flags.                                *)
(***************************************************************************)

\* Before the threads are started there is nothing but, perhaps, a signal; run()
\* returns before the first thread starts or after the last has ended; only a
\* thread that has ended can have declared the search over.
RunInv ==
    /\ main = "check" =>
         /\ stopCause \in {"none", "signal"}
         /\ examined = {} /\ mSpill = <<>>
         /\ \A t \in Thread : pc[t] = "unborn" /\ ~idle[t] /\ roadmap[t] = <<>>
    /\ main = "returned" =>
         \/ \A t \in Thread : pc[t] = "exited"
         \/ /\ \A t \in Thread : pc[t] = "unborn"
            /\ examined = {} /\ stopCause # "idle"
    /\ stopCause = "idle" => main # "check"
    /\ stopCause = "unreachable" => main = "returned"

LEMMA RunStep == TypeOK /\ RunInv /\ [Next]_vars => RunInv'
<1>. SUFFICES ASSUME TypeOK, RunInv, [Next]_vars PROVE RunInv'
  OBVIOUS
<1>. USE DEF TypeOK
<1>1. CASE SinkUnreachable
  BY <1>1 DEF RunInv, SinkUnreachable, Goto, Stop, gShutdownRequested, Types, control, locals, shared, stats, history
<1>2. CASE PushInitialFrame
  BY <1>2 DEF RunInv, PushInitialFrame, Goto, Stop, gShutdownRequested, Types, control, locals, shared, stats, history
<1>3. CASE Join
  BY <1>3 DEF RunInv, Join, Goto, Stop, gShutdownRequested, Types, control, locals, shared, stats, history
<1>4. CASE Signal
  BY <1>4 DEF RunInv, Signal, Goto, Stop, gShutdownRequested, Types, control, locals, shared, stats, history
<1>5. CASE UNCHANGED vars
  BY <1>5 DEF RunInv, vars, Goto, Stop, gShutdownRequested, Types, control, locals, shared, stats, history
<1>6. ASSUME NEW t \in Thread, Spawn(t)
      PROVE  RunInv'
  BY <1>6 DEF RunInv, Spawn, Goto, Stop, gShutdownRequested, Types, control, locals, shared, stats, history
<1>7. ASSUME NEW t \in Thread, LoopTest(t)
      PROVE  RunInv'
  BY <1>7 DEF RunInv, LoopTest, Goto, Stop, gShutdownRequested, Types, control, locals, shared, stats, history
<1>8. ASSUME NEW t \in Thread, PopFrame(t)
      PROVE  RunInv'
  BY <1>8 DEF RunInv, PopFrame, Goto, Stop, gShutdownRequested, Types, control, locals, shared, stats, history
<1>9. ASSUME NEW t \in Thread, EndBatch(t)
      PROVE  RunInv'
  BY <1>9 DEF RunInv, EndBatch, Goto, Stop, gShutdownRequested, Types, control, locals, shared, stats, history
<1>10. ASSUME NEW t \in Thread, SkipDuplicate(t)
      PROVE  RunInv'
  BY <1>10 DEF RunInv, SkipDuplicate, Goto, Stop, gShutdownRequested, Types, control, locals, shared, stats, history
<1>11. ASSUME NEW t \in Thread, MarkProcessing(t)
      PROVE  RunInv'
  BY <1>11 DEF RunInv, MarkProcessing, Goto, Stop, gShutdownRequested, Types, control, locals, shared, stats, history
<1>12. ASSUME NEW t \in Thread, Branch(t)
      PROVE  RunInv'
  BY <1>12 DEF RunInv, Branch, Goto, Stop, gShutdownRequested, Types, control, locals, shared, stats, history
<1>13. ASSUME NEW t \in Thread, Record(t)
      PROVE  RunInv'
  BY <1>13 DEF RunInv, Record, Goto, Stop, gShutdownRequested, Types, control, locals, shared, stats, history
<1>14. ASSUME NEW t \in Thread, CheckLimits(t)
      PROVE  RunInv'
  BY <1>14 DEF RunInv, CheckLimits, Goto, Stop, gShutdownRequested, Types, control, locals, shared, stats, history
<1>15. ASSUME NEW t \in Thread, PushChild(t)
      PROVE  RunInv'
  BY <1>15 DEF RunInv, PushChild, Goto, Stop, gShutdownRequested, Types, control, locals, shared, stats, history
<1>16. ASSUME NEW t \in Thread, SplitOverflow(t)
      PROVE  RunInv'
  BY <1>16 DEF RunInv, SplitOverflow, Goto, Stop, gShutdownRequested, Types, control, locals, shared, stats, history
<1>17. ASSUME NEW t \in Thread, NoOverflow(t)
      PROVE  RunInv'
  BY <1>17 DEF RunInv, NoOverflow, Goto, Stop, gShutdownRequested, Types, control, locals, shared, stats, history
<1>18. ASSUME NEW t \in Thread, PushToGlobalHeap(t)
      PROVE  RunInv'
  BY <1>18 DEF RunInv, PushToGlobalHeap, Goto, Stop, gShutdownRequested, Types, control, locals, shared, stats, history
<1>19. ASSUME NEW t \in Thread, NEW v \in Thread, StealFrom(t, v)
      PROVE  RunInv'
  BY <1>19 DEF RunInv, StealFrom, Goto, Stop, gShutdownRequested, Types, control, locals, shared, stats, history
<1>20. ASSUME NEW t \in Thread, NEW v \in Thread, StealNothing(t, v)
      PROVE  RunInv'
  BY <1>20 DEF RunInv, StealNothing, Goto, Stop, gShutdownRequested, Types, control, locals, shared, stats, history
<1>21. ASSUME NEW t \in Thread, PopFromGlobalHeap(t)
      PROVE  RunInv'
  BY <1>21 DEF RunInv, PopFromGlobalHeap, Goto, Stop, gShutdownRequested, Types, control, locals, shared, stats, history
<1>22. ASSUME NEW t \in Thread, Install(t)
      PROVE  RunInv'
  BY <1>22 DEF RunInv, Install, Goto, Stop, gShutdownRequested, Types, control, locals, shared, stats, history
<1>23. ASSUME NEW t \in Thread, HeapEmpty(t)
      PROVE  RunInv'
  BY <1>23 DEF RunInv, HeapEmpty, Goto, Stop, gShutdownRequested, Types, control, locals, shared, stats, history
<1>24. ASSUME NEW t \in Thread, BecomeIdle(t)
      PROVE  RunInv'
  BY <1>24 DEF RunInv, BecomeIdle, Goto, Stop, gShutdownRequested, Types, control, locals, shared, stats, history
<1>25. ASSUME NEW t \in Thread, ScanIdle(t)
      PROVE  RunInv'
  BY <1>25 DEF RunInv, ScanIdle, Goto, Stop, gShutdownRequested, Types, control, locals, shared, stats, history
<1>26. ASSUME NEW t \in Thread, ScanBusy(t)
      PROVE  RunInv'
  BY <1>26 DEF RunInv, ScanBusy, Goto, Stop, gShutdownRequested, Types, control, locals, shared, stats, history
<1>27. ASSUME NEW t \in Thread, Declare(t)
      PROVE  RunInv'
  BY <1>27 DEF RunInv, Declare, Goto, Stop, gShutdownRequested, Types, control, locals, shared, stats, history
<1>28. ASSUME NEW t \in Thread, SpillNotEmpty(t)
      PROVE  RunInv'
  BY <1>28 DEF RunInv, SpillNotEmpty, Goto, Stop, gShutdownRequested, Types, control, locals, shared, stats, history
<1>29. ASSUME NEW t \in Thread, Wake(t)
      PROVE  RunInv'
  BY <1>29 DEF RunInv, Wake, Goto, Stop, gShutdownRequested, Types, control, locals, shared, stats, history
<1>. QED
  BY <1>1, <1>2, <1>3, <1>4, <1>5, <1>6, <1>7, <1>8, <1>9, <1>10, <1>11, <1>12, <1>13, <1>14, <1>15, <1>16, <1>17, <1>18, <1>19, <1>20, <1>21, <1>22, <1>23, <1>24, <1>25, <1>26, <1>27, <1>28, <1>29
     DEF Next, Main, Worker, Returned

\* A thread without an idle flag of its own up is not counted as idle, and a
\* thread that looks for work elsewhere has an empty stack.
IdleInv ==
    \A t \in Thread :
      /\ idle[t] => pc[t] \in {"scan", "declare", "sleep", "exited"} /\ roadmap[t] = <<>>
      /\ pc[t] \in {"scan", "declare", "sleep"} => idle[t]
      /\ pc[t] \in {"steal", "heap", "idle"} => roadmap[t] = <<>>

LEMMA IdleStep == TypeOK /\ RunInv /\ IdleInv /\ [Next]_vars => IdleInv'
<1>. SUFFICES ASSUME TypeOK, RunInv, IdleInv, [Next]_vars PROVE IdleInv'
  OBVIOUS
<1>. USE DEF TypeOK
<1>1. CASE SinkUnreachable
  BY <1>1 DEF IdleInv, SinkUnreachable, Goto, Types, control, locals, shared, stats, history
<1>2. CASE PushInitialFrame
  BY <1>2 DEF RunInv, IdleInv, PushInitialFrame, Types, control, locals, shared, stats, history
<1>3. CASE Join
  BY <1>3 DEF IdleInv, Join, Goto, Types, control, locals, shared, stats, history
<1>4. CASE Signal
  BY <1>4 DEF IdleInv, Signal, Goto, Types, control, locals, shared, stats, history
<1>5. CASE UNCHANGED vars
  BY <1>5 DEF IdleInv, vars, Goto, Types, control, locals, shared, stats, history
<1>6. ASSUME NEW t \in Thread, Spawn(t)
      PROVE  IdleInv'
  BY <1>6 DEF IdleInv, Spawn, Goto, Types, control, locals, shared, stats, history
<1>7. ASSUME NEW t \in Thread, LoopTest(t)
      PROVE  IdleInv'
  BY <1>7 DEF IdleInv, LoopTest, Goto, Types, control, locals, shared, stats, history
<1>8. ASSUME NEW t \in Thread, PopFrame(t)
      PROVE  IdleInv'
  BY <1>8 DEF IdleInv, PopFrame, Goto, Types, control, locals, shared, stats, history
<1>9. ASSUME NEW t \in Thread, EndBatch(t)
      PROVE  IdleInv'
  BY <1>9 DEF IdleInv, EndBatch, Goto, Types, control, locals, shared, stats, history
<1>10. ASSUME NEW t \in Thread, SkipDuplicate(t)
      PROVE  IdleInv'
  BY <1>10 DEF IdleInv, SkipDuplicate, Goto, Types, control, locals, shared, stats, history
<1>11. ASSUME NEW t \in Thread, MarkProcessing(t)
      PROVE  IdleInv'
  BY <1>11 DEF IdleInv, MarkProcessing, Goto, Types, control, locals, shared, stats, history
<1>12. ASSUME NEW t \in Thread, Branch(t)
      PROVE  IdleInv'
  BY <1>12 DEF IdleInv, Branch, Goto, Types, control, locals, shared, stats, history
<1>13. ASSUME NEW t \in Thread, Record(t)
      PROVE  IdleInv'
  BY <1>13 DEF IdleInv, Record, Goto, Types, control, locals, shared, stats, history
<1>14. ASSUME NEW t \in Thread, CheckLimits(t)
      PROVE  IdleInv'
  BY <1>14 DEF IdleInv, CheckLimits, Goto, Types, control, locals, shared, stats, history
<1>15. ASSUME NEW t \in Thread, PushChild(t)
      PROVE  IdleInv'
  BY <1>15 DEF IdleInv, PushChild, Goto, Types, control, locals, shared, stats, history
<1>16. ASSUME NEW t \in Thread, SplitOverflow(t)
      PROVE  IdleInv'
  BY <1>16 DEF IdleInv, SplitOverflow, Goto, Types, control, locals, shared, stats, history
<1>17. ASSUME NEW t \in Thread, NoOverflow(t)
      PROVE  IdleInv'
  BY <1>17 DEF IdleInv, NoOverflow, Goto, Types, control, locals, shared, stats, history
<1>18. ASSUME NEW t \in Thread, PushToGlobalHeap(t)
      PROVE  IdleInv'
  BY <1>18 DEF IdleInv, PushToGlobalHeap, Goto, Types, control, locals, shared, stats, history
<1>19. ASSUME NEW t \in Thread, NEW v \in Thread, StealFrom(t, v)
      PROVE  IdleInv'
  <2>1. roadmap[v] # <<>>
    BY <1>19 DEF StealFrom
  <2>2. idle[v] = FALSE /\ pc[v] \notin {"steal", "heap", "idle", "scan", "declare", "sleep"}
    BY <2>1 DEF IdleInv, Types
  <2>. QED  BY <1>19, <2>2 DEF IdleInv, StealFrom, Goto, Types, control, locals, shared, stats, history
<1>20. ASSUME NEW t \in Thread, NEW v \in Thread, StealNothing(t, v)
      PROVE  IdleInv'
  BY <1>20 DEF IdleInv, StealNothing, Goto, Types, control, locals, shared, stats, history
<1>21. ASSUME NEW t \in Thread, PopFromGlobalHeap(t)
      PROVE  IdleInv'
  BY <1>21 DEF IdleInv, PopFromGlobalHeap, Goto, Types, control, locals, shared, stats, history
<1>22. ASSUME NEW t \in Thread, Install(t)
      PROVE  IdleInv'
  BY <1>22 DEF IdleInv, Install, Goto, Types, control, locals, shared, stats, history
<1>23. ASSUME NEW t \in Thread, HeapEmpty(t)
      PROVE  IdleInv'
  BY <1>23 DEF IdleInv, HeapEmpty, Goto, Types, control, locals, shared, stats, history
<1>24. ASSUME NEW t \in Thread, BecomeIdle(t)
      PROVE  IdleInv'
  BY <1>24 DEF IdleInv, BecomeIdle, Goto, Types, control, locals, shared, stats, history
<1>25. ASSUME NEW t \in Thread, ScanIdle(t)
      PROVE  IdleInv'
  BY <1>25 DEF IdleInv, ScanIdle, Goto, Types, control, locals, shared, stats, history
<1>26. ASSUME NEW t \in Thread, ScanBusy(t)
      PROVE  IdleInv'
  BY <1>26 DEF IdleInv, ScanBusy, Goto, Types, control, locals, shared, stats, history
<1>27. ASSUME NEW t \in Thread, Declare(t)
      PROVE  IdleInv'
  BY <1>27 DEF IdleInv, Declare, Goto, Types, control, locals, shared, stats, history
<1>28. ASSUME NEW t \in Thread, SpillNotEmpty(t)
      PROVE  IdleInv'
  BY <1>28 DEF IdleInv, SpillNotEmpty, Goto, Types, control, locals, shared, stats, history
<1>29. ASSUME NEW t \in Thread, Wake(t)
      PROVE  IdleInv'
  BY <1>29 DEF IdleInv, Wake, Goto, Types, control, locals, shared, stats, history
<1>. QED
  BY <1>1, <1>2, <1>3, <1>4, <1>5, <1>6, <1>7, <1>8, <1>9, <1>10, <1>11, <1>12, <1>13, <1>14, <1>15, <1>16, <1>17, <1>18, <1>19, <1>20, <1>21, <1>22, <1>23, <1>24, <1>25, <1>26, <1>27, <1>28, <1>29
     DEF Next, Main, Worker, Returned

LEMMA RunIdleInvariant == Spec => [](TypeOK /\ RunInv /\ IdleInv)
<1>1. Init => RunInv /\ IdleInv
  BY DEF Init, RunInv, IdleInv
<1>. QED  BY <1>1, TypeInit, TypeStep, RunStep, IdleStep, PTL DEF Spec

(* A flag that is up says truly that its thread has nothing: the local facts  *)
(* of TypeOK leave only the own stack, which is empty while the flag is up.   *)
THEOREM IdleCorrect == Spec => []IdleHoldsNothing
<1>1. TypeOK /\ IdleInv => IdleHoldsNothing
  <2>. SUFFICES ASSUME TypeOK, IdleInv, NEW t \in Thread, idle[t]
                PROVE  Held(t) = {} /\ ~Examining(t)
    BY DEF IdleHoldsNothing
  <2>1. pc[t] \in {"scan", "declare", "sleep", "exited"} /\ roadmap[t] = <<>>
    BY DEF IdleInv
  <2>2. hand[t] = <<>> /\ todo[t] = <<>> /\ children[t] = <<>>
    BY <2>1 DEF TypeOK, LocalsOK
  <2>3. ToSet(<<>>) = {}
    BY DEF ToSet
  <2>. QED  BY <2>1, <2>2, <2>3 DEF Held, Examining
<1>. QED  BY <1>1, RunIdleInvariant, PTL
-----------------------------------------------------------------------------
(***************************************************************************)
(* Each fingerprint once.                                                  *)
(***************************************************************************)

\* The fingerprints of the cuts examined and of those being examined are all in
\* the table and all different.
OnceInv ==
    /\ \A c \in examined : Seen(c)
    /\ \A t \in Thread : Examining(t) =>
         /\ Seen(frame[t])
         /\ \A c \in examined : cutHash[c] # cutHash[frame[t]]
         /\ \A u \in Thread : Examining(u) /\ u # t => cutHash[frame[u]] # cutHash[frame[t]]
    /\ SeenIsExamined
    /\ WrittenOnce

\* What a step does that neither takes a frame into examination nor ends one.
QuietExamination ==
    /\ UNCHANGED <<examined, written, mSeen>>
    /\ \A u \in Thread : /\ Examining(u)' <=> Examining(u)
                         /\ Examining(u) => frame'[u] = frame[u]

LEMMA OnlyMarkAndRecord ==
    ASSUME TypeOK, [Next]_vars,
           \A t \in Thread : ~MarkProcessing(t) /\ ~Record(t)
    PROVE  QuietExamination
<1>. USE DEF TypeOK
<1>1. CASE SinkUnreachable
  BY <1>1 DEF QuietExamination, Examining, SinkUnreachable, Goto, Types, control, locals, shared, stats, history
<1>2. CASE PushInitialFrame
  BY <1>2 DEF QuietExamination, Examining, PushInitialFrame, Goto, Types, control, locals, shared, stats, history
<1>3. CASE Join
  BY <1>3 DEF QuietExamination, Examining, Join, Goto, Types, control, locals, shared, stats, history
<1>4. CASE Signal
  BY <1>4 DEF QuietExamination, Examining, Signal, Goto, Types, control, locals, shared, stats, history
<1>5. CASE UNCHANGED vars
  BY <1>5 DEF QuietExamination, Examining, vars, Goto, Types, control, locals, shared, stats, history
<1>6. ASSUME NEW t \in Thread, Spawn(t)
      PROVE  QuietExamination
  BY <1>6 DEF QuietExamination, Examining, Spawn, Goto, Types, control, locals, shared, stats, history
<1>7. ASSUME NEW t \in Thread, LoopTest(t)
      PROVE  QuietExamination
  BY <1>7 DEF QuietExamination, Examining, LoopTest, Goto, Types, control, locals, shared, stats, history
<1>8. ASSUME NEW t \in Thread, PopFrame(t)
      PROVE  QuietExamination
  BY <1>8 DEF QuietExamination, Examining, PopFrame, Goto, Types, control, locals, shared, stats, history
<1>9. ASSUME NEW t \in Thread, EndBatch(t)
      PROVE  QuietExamination
  BY <1>9 DEF QuietExamination, Examining, EndBatch, Goto, Types, control, locals, shared, stats, history
<1>10. ASSUME NEW t \in Thread, SkipDuplicate(t)
      PROVE  QuietExamination
  BY <1>10 DEF QuietExamination, Examining, SkipDuplicate, Goto, Types, control, locals, shared, stats, history
<1>11. ASSUME NEW t \in Thread, MarkProcessing(t)
      PROVE  QuietExamination
  BY <1>11
<1>12. ASSUME NEW t \in Thread, Branch(t)
      PROVE  QuietExamination
  BY <1>12 DEF QuietExamination, Examining, Branch, Goto, Types, control, locals, shared, stats, history
<1>13. ASSUME NEW t \in Thread, Record(t)
      PROVE  QuietExamination
  BY <1>13
<1>14. ASSUME NEW t \in Thread, CheckLimits(t)
      PROVE  QuietExamination
  BY <1>14 DEF QuietExamination, Examining, CheckLimits, Goto, Types, control, locals, shared, stats, history
<1>15. ASSUME NEW t \in Thread, PushChild(t)
      PROVE  QuietExamination
  BY <1>15 DEF QuietExamination, Examining, PushChild, Goto, Types, control, locals, shared, stats, history
<1>16. ASSUME NEW t \in Thread, SplitOverflow(t)
      PROVE  QuietExamination
  BY <1>16 DEF QuietExamination, Examining, SplitOverflow, Goto, Types, control, locals, shared, stats, history
<1>17. ASSUME NEW t \in Thread, NoOverflow(t)
      PROVE  QuietExamination
  BY <1>17 DEF QuietExamination, Examining, NoOverflow, Goto, Types, control, locals, shared, stats, history
<1>18. ASSUME NEW t \in Thread, PushToGlobalHeap(t)
      PROVE  QuietExamination
  BY <1>18 DEF QuietExamination, Examining, PushToGlobalHeap, Goto, Types, control, locals, shared, stats, history
<1>19. ASSUME NEW t \in Thread, NEW v \in Thread, StealFrom(t, v)
      PROVE  QuietExamination
  BY <1>19 DEF QuietExamination, Examining, StealFrom, Goto, Types, control, locals, shared, stats, history
<1>20. ASSUME NEW t \in Thread, NEW v \in Thread, StealNothing(t, v)
      PROVE  QuietExamination
  BY <1>20 DEF QuietExamination, Examining, StealNothing, Goto, Types, control, locals, shared, stats, history
<1>21. ASSUME NEW t \in Thread, PopFromGlobalHeap(t)
      PROVE  QuietExamination
  BY <1>21 DEF QuietExamination, Examining, PopFromGlobalHeap, Goto, Types, control, locals, shared, stats, history
<1>22. ASSUME NEW t \in Thread, Install(t)
      PROVE  QuietExamination
  BY <1>22 DEF QuietExamination, Examining, Install, Goto, Types, control, locals, shared, stats, history
<1>23. ASSUME NEW t \in Thread, HeapEmpty(t)
      PROVE  QuietExamination
  BY <1>23 DEF QuietExamination, Examining, HeapEmpty, Goto, Types, control, locals, shared, stats, history
<1>24. ASSUME NEW t \in Thread, BecomeIdle(t)
      PROVE  QuietExamination
  BY <1>24 DEF QuietExamination, Examining, BecomeIdle, Goto, Types, control, locals, shared, stats, history
<1>25. ASSUME NEW t \in Thread, ScanIdle(t)
      PROVE  QuietExamination
  BY <1>25 DEF QuietExamination, Examining, ScanIdle, Goto, Types, control, locals, shared, stats, history
<1>26. ASSUME NEW t \in Thread, ScanBusy(t)
      PROVE  QuietExamination
  BY <1>26 DEF QuietExamination, Examining, ScanBusy, Goto, Types, control, locals, shared, stats, history
<1>27. ASSUME NEW t \in Thread, Declare(t)
      PROVE  QuietExamination
  BY <1>27 DEF QuietExamination, Examining, Declare, Goto, Types, control, locals, shared, stats, history
<1>28. ASSUME NEW t \in Thread, SpillNotEmpty(t)
      PROVE  QuietExamination
  BY <1>28 DEF QuietExamination, Examining, SpillNotEmpty, Goto, Types, control, locals, shared, stats, history
<1>29. ASSUME NEW t \in Thread, Wake(t)
      PROVE  QuietExamination
  BY <1>29 DEF QuietExamination, Examining, Wake, Goto, Types, control, locals, shared, stats, history
<1>. QED
  BY <1>1, <1>2, <1>3, <1>4, <1>5, <1>6, <1>7, <1>8, <1>9, <1>10, <1>11, <1>12, <1>13, <1>14, <1>15, <1>16, <1>17, <1>18, <1>19, <1>20, <1>21, <1>22, <1>23, <1>24, <1>25, <1>26, <1>27, <1>28, <1>29
     DEF Next, Main, Worker, Returned

LEMMA OnceStep == TypeOK /\ OnceInv /\ [Next]_vars => OnceInv'
<1>. SUFFICES ASSUME TypeOK, OnceInv, [Next]_vars PROVE OnceInv'
  OBVIOUS
<1>1. ASSUME NEW t \in Thread, MarkProcessing(t)
      PROVE  OnceInv'
  <2>1. /\ pc[t] = "mark" /\ frame[t] \in Cut /\ cutHash[frame[t]] \notin mSeen
        /\ mSeen' = mSeen \cup {cutHash[frame[t]]}
        /\ Examining(t)' /\ ~Examining(t)
        /\ UNCHANGED <<frame, examined, written>>
    BY <1>1 DEF MarkProcessing, Goto, Seen, Examining, TypeOK, Types, LocalsOK, history
  <2>2. \A u \in Thread \ {t} : Examining(u)' <=> Examining(u)
    BY <1>1 DEF MarkProcessing, Goto, Examining, TypeOK, Types
  <2>3. \A c \in examined : Seen(c)' /\ cutHash[c] # cutHash[frame[t]]
    BY <2>1 DEF OnceInv, Seen
  <2>4. ASSUME NEW u \in Thread, Examining(u)'
        PROVE  /\ Seen(frame[u])'
               /\ \A c \in examined' : cutHash[c] # cutHash[frame'[u]]
               /\ \A w \in Thread : Examining(w)' /\ w # u => cutHash[frame'[w]] # cutHash[frame'[u]]
    BY <2>1, <2>2, <2>3, <2>4 DEF OnceInv, Seen
  <2>5. SeenIsExamined'
    BY <2>1, <2>2 DEF OnceInv, SeenIsExamined
  <2>6. WrittenOnce'
    BY <2>1 DEF OnceInv, WrittenOnce
  <2>. QED  BY <2>1, <2>3, <2>4, <2>5, <2>6 DEF OnceInv
<1>2. ASSUME NEW t \in Thread, Record(t)
      PROVE  OnceInv'
  <2>1. /\ Examining(t) /\ frame[t] \in Cut
        /\ examined' = examined \cup {frame[t]}
        /\ ~Examining(t)'
        /\ UNCHANGED <<frame, mSeen>>
    BY <1>2 DEF Record, Goto, Examining, TypeOK, Types, LocalsOK, locals, shared
  <2>2. \A u \in Thread \ {t} : Examining(u)' <=> Examining(u)
    BY <1>2 DEF Record, Goto, Examining, TypeOK, Types
  <2>3. \A c \in examined' : Seen(c)'
    BY <2>1 DEF OnceInv, Seen
  <2>4. ASSUME NEW u \in Thread, Examining(u)'
        PROVE  /\ Seen(frame[u])'
               /\ \A c \in examined' : cutHash[c] # cutHash[frame'[u]]
               /\ \A w \in Thread : Examining(w)' /\ w # u => cutHash[frame'[w]] # cutHash[frame'[u]]
    BY <2>1, <2>2, <2>4 DEF OnceInv, Seen
  <2>5. SeenIsExamined'
    <3>. SUFFICES ASSUME NEW h \in mSeen
                  PROVE  \/ \E c \in examined' : cutHash[c] = h
                         \/ \E u \in Thread : Examining(u)' /\ cutHash[frame'[u]] = h
      BY <2>1 DEF SeenIsExamined
    <3>1. CASE h = cutHash[frame[t]]
      BY <2>1, <3>1
    <3>2. CASE h # cutHash[frame[t]]
      BY <2>1, <2>2, <3>2 DEF OnceInv, SeenIsExamined
    <3>. QED  BY <3>1, <3>2
  <2>6. frame[t] \notin examined /\ \A c \in examined : cutHash[c] # cutHash[frame[t]]
    BY <2>1 DEF OnceInv
  <2>7. written' = IF frame[t] \in Oversize THEN written
                   ELSE [written EXCEPT ![frame[t]] = @ + 1]
    BY <1>2 DEF Record
  <2>8. ASSUME NEW c \in Cut
        PROVE  written'[c] = IF c \in examined' \ Oversize THEN 1 ELSE 0
    <3>1. written[c] = IF c \in examined \ Oversize THEN 1 ELSE 0
      BY DEF OnceInv, WrittenOnce
    <3>2. CASE c = frame[t]
      BY <2>1, <2>6, <2>7, <3>1, <3>2 DEF TypeOK, Types
    <3>3. CASE c # frame[t]
      BY <2>1, <2>7, <3>1, <3>3 DEF TypeOK, Types
    <3>. QED  BY <3>2, <3>3
  <2>9. \A c, d \in examined' : cutHash[c] = cutHash[d] => c = d
    BY <2>1, <2>6 DEF OnceInv, WrittenOnce
  <2>. QED  BY <2>3, <2>4, <2>5, <2>8, <2>9 DEF OnceInv, WrittenOnce
<1>3. CASE \A t \in Thread : ~MarkProcessing(t) /\ ~Record(t)
  <2>1. QuietExamination
    BY <1>3, OnlyMarkAndRecord
  <2>. QED  BY <2>1 DEF QuietExamination, OnceInv, Seen, SeenIsExamined, WrittenOnce
<1>. QED  BY <1>1, <1>2, <1>3

LEMMA OnceInvariant == Spec => [](TypeOK /\ OnceInv)
<1>1. Init => OnceInv
  BY DEF Init, OnceInv, SeenIsExamined, WrittenOnce, Examining
<1>. QED  BY <1>1, TypeInit, TypeStep, OnceStep, PTL DEF Spec

(* However many threads reach a cut, writeCut is called with it exactly once, *)
(* unless it is too large or shares the fingerprint of another: the insertion *)
(* into the table is the moment at which one thread becomes its owner.        *)
THEOREM WrittenOnceCorrect == Spec => []WrittenOnce
BY OnceInvariant, PTL DEF OnceInv

(* The table holds nothing but the fingerprints of cuts examined or being     *)
(* examined, so that no cut is kept from being examined by a mark alone.      *)
THEOREM SeenIsExaminedCorrect == Spec => []SeenIsExamined
BY OnceInvariant, PTL DEF OnceInv
-----------------------------------------------------------------------------
(***************************************************************************)
(* No frame is lost.                                                       *)
(***************************************************************************)

\* Every frame waiting before the step is waiting after it, or its fingerprint
\* has got into the table.
PendingKept ==
    /\ mSeen \subseteq mSeen'
    /\ \A c \in Cut : c \in Pending => Accounted(c)'

\* A step that touches no container but those of t, and the spill buffer.
LEMMA OneThreadKeeps ==
    ASSUME NEW t \in Thread, Types,
           mSeen \subseteq mSeen',
           \A u \in Thread : u # t => Held(u) \subseteq Held(u)',
           \A c \in Cut : c \in Held(t) \cup ToSet(mSpill)
                            => c \in Held(t)' \cup ToSet(mSpill') \/ cutHash[c] \in mSeen'
    PROVE  PendingKept
BY DEF PendingKept, Pending, Accounted, Seen

\* A step that touches no container.
LEMMA NothingMoves ==
    ASSUME Types,
           UNCHANGED <<mSeen, mSpill>>,
           \A u \in Thread : Held(u) \subseteq Held(u)'
    PROVE  PendingKept
BY DEF PendingKept, Pending, Accounted, Seen

LEMMA PendingStep == TypeOK /\ [Next]_vars => PendingKept
<1>. SUFFICES ASSUME TypeOK, [Next]_vars PROVE PendingKept
  OBVIOUS
<1>a. Types /\ \A u \in Thread : LocalsOK(u)
  BY DEF TypeOK
<1>b. ToSet(<<>>) = {}
  BY DEF ToSet
<1>1. CASE SinkUnreachable
  <2>1. \A u \in Thread : Held(u) \subseteq Held(u)'
    BY <1>1, <1>a DEF Held, SinkUnreachable, Goto, Types, control, locals, shared, stats, history
  <2>. QED  BY <1>1, <1>a, <2>1, NothingMoves DEF SinkUnreachable, control, locals, shared, stats, history
<1>2. CASE PushInitialFrame
  <2>0. 0 \in Thread /\ roadmap \in [Thread -> Seq(Cut)]
        /\ roadmap' = [roadmap EXCEPT ![0] = Append(@, Root)]
    BY <1>2, <1>a, ThreadsAssumption DEF PushInitialFrame, Types, Thread
  <2>1. ToSet(roadmap[0]) \subseteq ToSet(roadmap'[0])
    BY <2>0, CutsAssumption, AppendElement
  <2>2. \A u \in Thread : Held(u) \subseteq Held(u)'
    BY <1>2, <1>a, <2>1 DEF Held, PushInitialFrame, Types, control, locals, shared, stats, history
  <2>. QED  BY <1>2, <1>a, <2>2, NothingMoves DEF PushInitialFrame, control, locals, shared, stats, history
<1>3. CASE Join
  <2>1. \A u \in Thread : Held(u) \subseteq Held(u)'
    BY <1>3, <1>a DEF Held, Join, Goto, Types, control, locals, shared, stats, history
  <2>. QED  BY <1>3, <1>a, <2>1, NothingMoves DEF Join, control, locals, shared, stats, history
<1>4. CASE Signal
  <2>1. \A u \in Thread : Held(u) \subseteq Held(u)'
    BY <1>4, <1>a DEF Held, Signal, Goto, Types, control, locals, shared, stats, history
  <2>. QED  BY <1>4, <1>a, <2>1, NothingMoves DEF Signal, control, locals, shared, stats, history
<1>5. CASE UNCHANGED vars
  <2>1. \A u \in Thread : Held(u) \subseteq Held(u)'
    BY <1>5, <1>a DEF Held, vars, Goto, Types, control, locals, shared, stats, history
  <2>. QED  BY <1>5, <1>a, <2>1, NothingMoves DEF vars, control, locals, shared, stats, history
<1>6. ASSUME NEW t \in Thread, Spawn(t)
      PROVE  PendingKept
  <2>1. \A u \in Thread : Held(u) \subseteq Held(u)'
    BY <1>6, <1>a DEF Held, Spawn, Goto, Types, control, locals, shared, stats, history
  <2>. QED  BY <1>6, <1>a, <2>1, NothingMoves DEF Spawn, control, locals, shared, stats, history
<1>7. ASSUME NEW t \in Thread, LoopTest(t)
      PROVE  PendingKept
  <2>1. \A u \in Thread : Held(u) \subseteq Held(u)'
    BY <1>7, <1>a DEF Held, LoopTest, Goto, Types, control, locals, shared, stats, history
  <2>. QED  BY <1>7, <1>a, <2>1, NothingMoves DEF LoopTest, control, locals, shared, stats, history
<1>8. ASSUME NEW t \in Thread, PopFrame(t)
      PROVE  PendingKept
  <2>1. ToSet(roadmap[t]) = ToSet(Front(roadmap[t])) \cup {Last(roadmap[t])}
    BY <1>8, <1>a, FrontLast DEF PopFrame, Types
  <2>2. \A u \in Thread : u # t => Held(u) \subseteq Held(u)'
    BY <1>8, <1>a DEF Held, PopFrame, Goto, Types, control, locals, shared, stats, history
  <2>3. \A c \in Cut : c \in Held(t) \cup ToSet(mSpill)
                     => c \in Held(t)' \cup ToSet(mSpill') \/ cutHash[c] \in mSeen'
    BY <1>8, <1>a, <1>b, <2>1 DEF Held, LocalsOK, PopFrame, Goto, Types, control, locals, shared, stats, history
  <2>. QED  BY <1>8, <1>a, <2>2, <2>3, OneThreadKeeps DEF PopFrame, control, locals, shared, stats, history
<1>9. ASSUME NEW t \in Thread, EndBatch(t)
      PROVE  PendingKept
  <2>1. \A u \in Thread : Held(u) \subseteq Held(u)'
    BY <1>9, <1>a DEF Held, EndBatch, Goto, Types, control, locals, shared, stats, history
  <2>. QED  BY <1>9, <1>a, <2>1, NothingMoves DEF EndBatch, control, locals, shared, stats, history
<1>10. ASSUME NEW t \in Thread, SkipDuplicate(t)
      PROVE  PendingKept
  <2>1. cutHash[frame[t]] \in mSeen
    BY <1>10, <1>a DEF SkipDuplicate, Seen
  <2>2. \A u \in Thread : u # t => Held(u) \subseteq Held(u)'
    BY <1>10, <1>a DEF Held, SkipDuplicate, Goto, Types, control, locals, shared, stats, history
  <2>3. \A c \in Cut : c \in Held(t) \cup ToSet(mSpill)
                     => c \in Held(t)' \cup ToSet(mSpill') \/ cutHash[c] \in mSeen'
    BY <1>10, <1>a, <1>b, <2>1 DEF Held, LocalsOK, SkipDuplicate, Goto, Types, control, locals, shared, stats, history
  <2>. QED  BY <1>10, <1>a, <2>2, <2>3, OneThreadKeeps DEF SkipDuplicate, control, locals, shared, stats, history
<1>11. ASSUME NEW t \in Thread, MarkProcessing(t)
      PROVE  PendingKept
  <2>1. cutHash[frame[t]] \in mSeen'
    BY <1>11, <1>a DEF MarkProcessing
  <2>2. \A u \in Thread : u # t => Held(u) \subseteq Held(u)'
    BY <1>11, <1>a DEF Held, MarkProcessing, Goto, Types, control, locals, shared, stats, history
  <2>3. \A c \in Cut : c \in Held(t) \cup ToSet(mSpill)
                     => c \in Held(t)' \cup ToSet(mSpill') \/ cutHash[c] \in mSeen'
    BY <1>11, <1>a, <1>b, <2>1 DEF Held, LocalsOK, MarkProcessing, Goto, Types, control, locals, shared, stats, history
  <2>. QED  BY <1>11, <1>a, <2>2, <2>3, OneThreadKeeps DEF MarkProcessing, control, locals, shared, stats, history
<1>12. ASSUME NEW t \in Thread, Branch(t)
      PROVE  PendingKept
  <2>1. todo[t] \in Seq(Cut) /\ todo[t] # <<>> /\ children[t] \in Seq(Cut)
    BY <1>12, <1>a DEF Branch, Types
  <2>2. Head(todo[t]) \in Cut /\ ToSet(todo[t]) = {Head(todo[t])} \cup ToSet(Tail(todo[t]))
    BY <1>12, <1>a, <2>1, HeadTail
  <2>3. ToSet(Append(children[t], Head(todo[t]))) = ToSet(children[t]) \cup {Head(todo[t])}
    BY <1>12, <1>a, <2>1, <2>2, AppendElement
  <2>4. ToSet(children[t]) \subseteq ToSet(children'[t]) /\ ToSet(todo'[t]) = ToSet(Tail(todo[t]))
    BY <1>12, <1>a, <2>3 DEF Branch, Types
  <2>5. Head(todo[t]) \in ToSet(children'[t]) \/ cutHash[Head(todo[t])] \in mSeen
    BY <1>12, <1>a, <2>3 DEF Branch, Seen, Types
  <2>6. \A u \in Thread : u # t => Held(u) \subseteq Held(u)'
    BY <1>12, <1>a DEF Held, Branch, Goto, Types, control, locals, shared, stats, history
  <2>7. \A c \in Cut : c \in Held(t) \cup ToSet(mSpill)
                     => c \in Held(t)' \cup ToSet(mSpill') \/ cutHash[c] \in mSeen'
    BY <1>12, <1>a, <1>b, <2>1, <2>2, <2>3, <2>4, <2>5 DEF Held, LocalsOK, Branch, Goto, Types, control, locals, shared, stats, history
  <2>. QED  BY <1>12, <1>a, <2>6, <2>7, OneThreadKeeps DEF Branch, control, locals, shared, stats, history
<1>13. ASSUME NEW t \in Thread, Record(t)
      PROVE  PendingKept
  <2>1. \A u \in Thread : Held(u) \subseteq Held(u)'
    BY <1>13, <1>a DEF Held, Record, Goto, Types, control, locals, shared, stats, history
  <2>. QED  BY <1>13, <1>a, <2>1, NothingMoves DEF Record, control, locals, shared, stats, history
<1>14. ASSUME NEW t \in Thread, CheckLimits(t)
      PROVE  PendingKept
  <2>1. \A u \in Thread : Held(u) \subseteq Held(u)'
    BY <1>14, <1>a DEF Held, CheckLimits, Goto, Types, control, locals, shared, stats, history
  <2>. QED  BY <1>14, <1>a, <2>1, NothingMoves DEF CheckLimits, control, locals, shared, stats, history
<1>15. ASSUME NEW t \in Thread, PushChild(t)
      PROVE  PendingKept
  <2>1. children[t] \in Seq(Cut) /\ children[t] # <<>> /\ roadmap[t] \in Seq(Cut)
    BY <1>15, <1>a DEF PushChild, Types
  <2>2. Last(children[t]) \in Cut /\ ToSet(children[t]) = ToSet(Front(children[t])) \cup {Last(children[t])}
    BY <1>15, <1>a, <2>1, FrontLast
  <2>3. ToSet(Append(roadmap[t], Last(children[t]))) = ToSet(roadmap[t]) \cup {Last(children[t])}
    BY <1>15, <1>a, <2>1, <2>2, AppendElement
  <2>4. ToSet(roadmap[t]) \subseteq ToSet(roadmap'[t]) /\ ToSet(children'[t]) = ToSet(Front(children[t]))
    BY <1>15, <1>a, <2>3 DEF PushChild, Types
  <2>5. Last(children[t]) \in ToSet(roadmap'[t]) \/ cutHash[Last(children[t])] \in mSeen
    BY <1>15, <1>a, <2>3 DEF PushChild, Seen, Types
  <2>6. \A u \in Thread : u # t => Held(u) \subseteq Held(u)'
    BY <1>15, <1>a DEF Held, PushChild, Goto, Types, control, locals, shared, stats, history
  <2>7. \A c \in Cut : c \in Held(t) \cup ToSet(mSpill)
                     => c \in Held(t)' \cup ToSet(mSpill') \/ cutHash[c] \in mSeen'
    BY <1>15, <1>a, <1>b, <2>1, <2>2, <2>3, <2>4, <2>5 DEF Held, LocalsOK, PushChild, Goto, Types, control, locals, shared, stats, history
  <2>. QED  BY <1>15, <1>a, <2>6, <2>7, OneThreadKeeps DEF PushChild, control, locals, shared, stats, history
<1>16. ASSUME NEW t \in Thread, SplitOverflow(t)
      PROVE  PendingKept
  <2>1. ToSet(roadmap[t]) = ToSet(Lower(roadmap[t])) \cup ToSet(Upper(roadmap[t]))
    BY <1>16, <1>a, HalvesElements DEF Types
  <2>2. hand[t] = <<>>
    BY <1>16, <1>a DEF SplitOverflow, Goto, LocalsOK
  <2>3. \A u \in Thread : u # t => Held(u) \subseteq Held(u)'
    BY <1>16, <1>a DEF Held, SplitOverflow, Goto, Types, control, locals, shared, stats, history
  <2>4. \A c \in Cut : c \in Held(t) \cup ToSet(mSpill)
                     => c \in Held(t)' \cup ToSet(mSpill') \/ cutHash[c] \in mSeen'
    BY <1>16, <1>a, <1>b, <2>1, <2>2 DEF Held, LocalsOK, SplitOverflow, Goto, Types, control, locals, shared, stats, history
  <2>. QED  BY <1>16, <1>a, <2>3, <2>4, OneThreadKeeps DEF SplitOverflow, control, locals, shared, stats, history
<1>17. ASSUME NEW t \in Thread, NoOverflow(t)
      PROVE  PendingKept
  <2>1. \A u \in Thread : Held(u) \subseteq Held(u)'
    BY <1>17, <1>a DEF Held, NoOverflow, Goto, Types, control, locals, shared, stats, history
  <2>. QED  BY <1>17, <1>a, <2>1, NothingMoves DEF NoOverflow, control, locals, shared, stats, history
<1>18. ASSUME NEW t \in Thread, PushToGlobalHeap(t)
      PROVE  PendingKept
  <2>1. ToSet(mSpill') = ToSet(mSpill) \cup ToSet(hand[t])
    BY <1>18, <1>a, ConcatElements DEF PushToGlobalHeap, Types
  <2>2. \A u \in Thread : u # t => Held(u) \subseteq Held(u)'
    BY <1>18, <1>a DEF Held, PushToGlobalHeap, Goto, Types, control, locals, shared, stats, history
  <2>3. \A c \in Cut : c \in Held(t) \cup ToSet(mSpill)
                     => c \in Held(t)' \cup ToSet(mSpill') \/ cutHash[c] \in mSeen'
    BY <1>18, <1>a, <1>b, <2>1 DEF Held, LocalsOK, PushToGlobalHeap, Goto, Types, control, locals, shared, stats, history
  <2>. QED  BY <1>18, <1>a, <2>2, <2>3, OneThreadKeeps DEF PushToGlobalHeap, control, locals, shared, stats, history
<1>19. ASSUME NEW t \in Thread, NEW v \in Thread, StealFrom(t, v)
      PROVE  PendingKept
  <2>1. ToSet(roadmap[v]) = ToSet(Lower(roadmap[v])) \cup ToSet(Upper(roadmap[v]))
    BY <1>a, HalvesElements DEF Types
  <2>2. hand[t] = <<>> /\ v # t
    BY <1>19, <1>a DEF StealFrom, Goto, LocalsOK
  <2>3. /\ ToSet(roadmap[v]) = ToSet(hand'[t]) \cup ToSet(roadmap'[v])
        /\ \A u \in Thread \ {v} : roadmap'[u] = roadmap[u]
        /\ \A u \in Thread \ {t} : hand'[u] = hand[u]
    BY <1>19, <1>a, <2>1 DEF StealFrom, Types
  <2>4. ASSUME NEW u \in Thread, u # v
        PROVE  Held(u) \subseteq Held(u)'
    <3>1. /\ roadmap'[u] = roadmap[u] /\ ToSet(hand[u]) \subseteq ToSet(hand'[u])
          /\ UNCHANGED <<children, todo, frame>>
      BY <1>b, <2>2, <2>3, <2>4, <1>19 DEF StealFrom
    <3>2. pc[u] = "mark" => pc'[u] = "mark"
      BY <1>19, <1>a DEF StealFrom, Goto, Types
    <3>. QED  BY <3>1, <3>2 DEF Held
  <2>5. Held(v) \subseteq Held(v)' \cup Held(t)'
    BY <1>19, <1>a, <2>2, <2>3 DEF StealFrom, Goto, Held, Types
  <2>6. UNCHANGED <<mSeen, mSpill>>
    BY <1>19 DEF StealFrom
  <2>. QED  BY <2>4, <2>5, <2>6 DEF PendingKept, Pending, Accounted, Seen
<1>20. ASSUME NEW t \in Thread, NEW v \in Thread, StealNothing(t, v)
      PROVE  PendingKept
  <2>2. /\ pc[t] = "steal" /\ (pc' = [pc EXCEPT ![t] = "heap"] \/ pc' = pc)
        /\ UNCHANGED <<roadmap, hand, children, todo, frame>>
    BY <1>20 DEF StealNothing, Goto, shared
  <2>3. \A u \in Thread : pc[u] = "mark" => pc'[u] = "mark"
    BY <1>a, <2>2 DEF Types
  <2>1. \A u \in Thread : Held(u) \subseteq Held(u)'
    BY <2>2, <2>3 DEF Held
  <2>. QED  BY <1>20, <1>a, <2>1, NothingMoves DEF StealNothing, control, locals, shared, stats, history
<1>21. ASSUME NEW t \in Thread, PopFromGlobalHeap(t)
      PROVE  PendingKept
  <2>1. ToSet(mSpill) = ToSet(SpillTaken) \cup ToSet(SpillKept)
    BY <1>21, <1>a, SpillElements DEF Types
  <2>2. hand[t] = <<>>
    BY <1>21, <1>a DEF PopFromGlobalHeap, Goto, LocalsOK
  <2>3. \A u \in Thread : u # t => Held(u) \subseteq Held(u)'
    BY <1>21, <1>a DEF Held, PopFromGlobalHeap, Goto, Types, control, locals, shared, stats, history
  <2>4. \A c \in Cut : c \in Held(t) \cup ToSet(mSpill)
                     => c \in Held(t)' \cup ToSet(mSpill') \/ cutHash[c] \in mSeen'
    BY <1>21, <1>a, <1>b, <2>1, <2>2 DEF Held, LocalsOK, PopFromGlobalHeap, Goto, Types, control, locals, shared, stats, history
  <2>. QED  BY <1>21, <1>a, <2>3, <2>4, OneThreadKeeps DEF PopFromGlobalHeap, control, locals, shared, stats, history
<1>22. ASSUME NEW t \in Thread, Install(t)
      PROVE  PendingKept
  <2>1. ToSet(roadmap[t] \o hand[t]) = ToSet(roadmap[t]) \cup ToSet(hand[t])
    BY <1>22, <1>a, ConcatElements DEF Types
  <2>2. \A u \in Thread : u # t => Held(u) \subseteq Held(u)'
    BY <1>22, <1>a DEF Held, Install, Goto, Types, control, locals, shared, stats, history
  <2>3. \A c \in Cut : c \in Held(t) \cup ToSet(mSpill)
                     => c \in Held(t)' \cup ToSet(mSpill') \/ cutHash[c] \in mSeen'
    BY <1>22, <1>a, <1>b, <2>1 DEF Held, LocalsOK, Install, Goto, Types, control, locals, shared, stats, history
  <2>. QED  BY <1>22, <1>a, <2>2, <2>3, OneThreadKeeps DEF Install, control, locals, shared, stats, history
<1>23. ASSUME NEW t \in Thread, HeapEmpty(t)
      PROVE  PendingKept
  <2>1. \A u \in Thread : Held(u) \subseteq Held(u)'
    BY <1>23, <1>a DEF Held, HeapEmpty, Goto, Types, control, locals, shared, stats, history
  <2>. QED  BY <1>23, <1>a, <2>1, NothingMoves DEF HeapEmpty, control, locals, shared, stats, history
<1>24. ASSUME NEW t \in Thread, BecomeIdle(t)
      PROVE  PendingKept
  <2>1. \A u \in Thread : Held(u) \subseteq Held(u)'
    BY <1>24, <1>a DEF Held, BecomeIdle, Goto, Types, control, locals, shared, stats, history
  <2>. QED  BY <1>24, <1>a, <2>1, NothingMoves DEF BecomeIdle, control, locals, shared, stats, history
<1>25. ASSUME NEW t \in Thread, ScanIdle(t)
      PROVE  PendingKept
  <2>2. /\ pc[t] = "scan" /\ (pc' = [pc EXCEPT ![t] = "declare"] \/ pc' = pc)
        /\ UNCHANGED <<roadmap, hand, children, todo, frame>>
    BY <1>25 DEF ScanIdle, Goto, shared
  <2>3. \A u \in Thread : pc[u] = "mark" => pc'[u] = "mark"
    BY <1>a, <2>2 DEF Types
  <2>1. \A u \in Thread : Held(u) \subseteq Held(u)'
    BY <2>2, <2>3 DEF Held
  <2>. QED  BY <1>25, <1>a, <2>1, NothingMoves DEF ScanIdle, control, locals, shared, stats, history
<1>26. ASSUME NEW t \in Thread, ScanBusy(t)
      PROVE  PendingKept
  <2>1. \A u \in Thread : Held(u) \subseteq Held(u)'
    BY <1>26, <1>a DEF Held, ScanBusy, Goto, Types, control, locals, shared, stats, history
  <2>. QED  BY <1>26, <1>a, <2>1, NothingMoves DEF ScanBusy, control, locals, shared, stats, history
<1>27. ASSUME NEW t \in Thread, Declare(t)
      PROVE  PendingKept
  <2>1. \A u \in Thread : Held(u) \subseteq Held(u)'
    BY <1>27, <1>a DEF Held, Declare, Goto, Types, control, locals, shared, stats, history
  <2>. QED  BY <1>27, <1>a, <2>1, NothingMoves DEF Declare, control, locals, shared, stats, history
<1>28. ASSUME NEW t \in Thread, SpillNotEmpty(t)
      PROVE  PendingKept
  <2>1. \A u \in Thread : Held(u) \subseteq Held(u)'
    BY <1>28, <1>a DEF Held, SpillNotEmpty, Goto, Types, control, locals, shared, stats, history
  <2>. QED  BY <1>28, <1>a, <2>1, NothingMoves DEF SpillNotEmpty, control, locals, shared, stats, history
<1>29. ASSUME NEW t \in Thread, Wake(t)
      PROVE  PendingKept
  <2>1. \A u \in Thread : Held(u) \subseteq Held(u)'
    BY <1>29, <1>a DEF Held, Wake, Goto, Types, control, locals, shared, stats, history
  <2>. QED  BY <1>29, <1>a, <2>1, NothingMoves DEF Wake, control, locals, shared, stats, history
<1>. QED
  BY <1>1, <1>2, <1>3, <1>4, <1>5, <1>6, <1>7, <1>8, <1>9, <1>10, <1>11, <1>12, <1>13, <1>14, <1>15, <1>16, <1>17, <1>18, <1>19, <1>20, <1>21, <1>22, <1>23, <1>24, <1>25, <1>26, <1>27, <1>28, <1>29
     DEF Next, Main, Worker, Returned

\* NoFrameLost, and the same for the branches of the cuts being examined.
LossInv ==
    /\ NoFrameLost
    /\ \A t \in Thread : Examining(t) =>
         \A d \in ToSet(Candidates[frame[t]]) : Accounted(d)

LEMMA CandidatesAreCuts == ASSUME NEW c \in Cut PROVE ToSet(Candidates[c]) \subseteq Cut
BY CutsAssumption, InToSet

\* Only PushInitialFrame starts the search, and it stays started.
LEMMA StartStep ==
    ASSUME TypeOK, RunInv, [Next]_vars, ~PushInitialFrame
    PROVE  Started' <=> Started
<1>. USE DEF TypeOK
<1>0. 0 \in Thread
  BY ThreadsAssumption DEF Thread
<1>1. CASE SinkUnreachable
  BY <1>0, <1>1 DEF Started, RunInv, SinkUnreachable, Goto, Types, control, locals, shared, stats, history
<1>2. CASE PushInitialFrame
  BY <1>2
<1>3. CASE Join
  BY <1>0, <1>3 DEF Started, Join, Goto, Types, control, locals, shared, stats, history
<1>4. CASE Signal
  BY <1>0, <1>4 DEF Started, Signal, Goto, Types, control, locals, shared, stats, history
<1>5. CASE UNCHANGED vars
  BY <1>0, <1>5 DEF Started, vars, Goto, Types, control, locals, shared, stats, history
<1>6. ASSUME NEW t \in Thread, Spawn(t)
      PROVE  Started' <=> Started
  BY <1>6 DEF Started, Spawn, Goto, control, locals, shared, stats, history
<1>7. ASSUME NEW t \in Thread, LoopTest(t)
      PROVE  Started' <=> Started
  BY <1>0, <1>7 DEF Started, LoopTest, Goto, Types, control, locals, shared, stats, history
<1>8. ASSUME NEW t \in Thread, PopFrame(t)
      PROVE  Started' <=> Started
  BY <1>0, <1>8 DEF Started, PopFrame, Goto, Types, control, locals, shared, stats, history
<1>9. ASSUME NEW t \in Thread, EndBatch(t)
      PROVE  Started' <=> Started
  BY <1>0, <1>9 DEF Started, EndBatch, Goto, Types, control, locals, shared, stats, history
<1>10. ASSUME NEW t \in Thread, SkipDuplicate(t)
      PROVE  Started' <=> Started
  BY <1>0, <1>10 DEF Started, SkipDuplicate, Goto, Types, control, locals, shared, stats, history
<1>11. ASSUME NEW t \in Thread, MarkProcessing(t)
      PROVE  Started' <=> Started
  BY <1>0, <1>11 DEF Started, MarkProcessing, Goto, Types, control, locals, shared, stats, history
<1>12. ASSUME NEW t \in Thread, Branch(t)
      PROVE  Started' <=> Started
  BY <1>0, <1>12 DEF Started, Branch, Goto, Types, control, locals, shared, stats, history
<1>13. ASSUME NEW t \in Thread, Record(t)
      PROVE  Started' <=> Started
  BY <1>0, <1>13 DEF Started, Record, Goto, Types, control, locals, shared, stats, history
<1>14. ASSUME NEW t \in Thread, CheckLimits(t)
      PROVE  Started' <=> Started
  BY <1>0, <1>14 DEF Started, CheckLimits, Goto, Types, control, locals, shared, stats, history
<1>15. ASSUME NEW t \in Thread, PushChild(t)
      PROVE  Started' <=> Started
  BY <1>0, <1>15 DEF Started, PushChild, Goto, Types, control, locals, shared, stats, history
<1>16. ASSUME NEW t \in Thread, SplitOverflow(t)
      PROVE  Started' <=> Started
  BY <1>0, <1>16 DEF Started, SplitOverflow, Goto, Types, control, locals, shared, stats, history
<1>17. ASSUME NEW t \in Thread, NoOverflow(t)
      PROVE  Started' <=> Started
  BY <1>0, <1>17 DEF Started, NoOverflow, Goto, Types, control, locals, shared, stats, history
<1>18. ASSUME NEW t \in Thread, PushToGlobalHeap(t)
      PROVE  Started' <=> Started
  BY <1>0, <1>18 DEF Started, PushToGlobalHeap, Goto, Types, control, locals, shared, stats, history
<1>19. ASSUME NEW t \in Thread, NEW v \in Thread, StealFrom(t, v)
      PROVE  Started' <=> Started
  BY <1>0, <1>19 DEF Started, StealFrom, Goto, Types, control, locals, shared, stats, history
<1>20. ASSUME NEW t \in Thread, NEW v \in Thread, StealNothing(t, v)
      PROVE  Started' <=> Started
  BY <1>0, <1>20 DEF Started, StealNothing, Goto, Types, control, locals, shared, stats, history
<1>21. ASSUME NEW t \in Thread, PopFromGlobalHeap(t)
      PROVE  Started' <=> Started
  BY <1>0, <1>21 DEF Started, PopFromGlobalHeap, Goto, Types, control, locals, shared, stats, history
<1>22. ASSUME NEW t \in Thread, Install(t)
      PROVE  Started' <=> Started
  BY <1>0, <1>22 DEF Started, Install, Goto, Types, control, locals, shared, stats, history
<1>23. ASSUME NEW t \in Thread, HeapEmpty(t)
      PROVE  Started' <=> Started
  BY <1>0, <1>23 DEF Started, HeapEmpty, Goto, Types, control, locals, shared, stats, history
<1>24. ASSUME NEW t \in Thread, BecomeIdle(t)
      PROVE  Started' <=> Started
  BY <1>0, <1>24 DEF Started, BecomeIdle, Goto, Types, control, locals, shared, stats, history
<1>25. ASSUME NEW t \in Thread, ScanIdle(t)
      PROVE  Started' <=> Started
  BY <1>0, <1>25 DEF Started, ScanIdle, Goto, Types, control, locals, shared, stats, history
<1>26. ASSUME NEW t \in Thread, ScanBusy(t)
      PROVE  Started' <=> Started
  BY <1>0, <1>26 DEF Started, ScanBusy, Goto, Types, control, locals, shared, stats, history
<1>27. ASSUME NEW t \in Thread, Declare(t)
      PROVE  Started' <=> Started
  BY <1>0, <1>27 DEF Started, Declare, Goto, Types, control, locals, shared, stats, history
<1>28. ASSUME NEW t \in Thread, SpillNotEmpty(t)
      PROVE  Started' <=> Started
  BY <1>0, <1>28 DEF Started, SpillNotEmpty, Goto, Types, control, locals, shared, stats, history
<1>29. ASSUME NEW t \in Thread, Wake(t)
      PROVE  Started' <=> Started
  BY <1>0, <1>29 DEF Started, Wake, Goto, Types, control, locals, shared, stats, history
<1>. QED
  BY <1>1, <1>2, <1>3, <1>4, <1>5, <1>6, <1>7, <1>8, <1>9, <1>10, <1>11, <1>12, <1>13, <1>14, <1>15, <1>16, <1>17, <1>18, <1>19, <1>20, <1>21, <1>22, <1>23, <1>24, <1>25, <1>26, <1>27, <1>28, <1>29
     DEF Next, Main, Worker, Returned

LEMMA LossStep == TypeOK /\ RunInv /\ LossInv /\ [Next]_vars => LossInv'
<1>. SUFFICES ASSUME TypeOK, RunInv, LossInv, [Next]_vars PROVE LossInv'
  OBVIOUS
<1>1. \A c \in Cut : Accounted(c) => Accounted(c)'
  BY PendingStep DEF PendingKept, Accounted, Seen
<1>2. (Started => Accounted(Root))'
  <2>1. CASE PushInitialFrame
    <3>1. 0 \in Thread /\ roadmap \in [Thread -> Seq(Cut)]
      BY ThreadsAssumption DEF TypeOK, Types, Thread
    <3>2. roadmap' = [roadmap EXCEPT ![0] = Append(@, Root)]
      BY <2>1 DEF PushInitialFrame
    <3>3. Root \in ToSet(roadmap'[0])
      BY <3>1, <3>2, CutsAssumption, AppendElement
    <3>4. Root \in Held(0)'
      BY <3>3 DEF Held
    <3>. QED  BY <3>1, <3>4 DEF Accounted, Pending
  <2>2. CASE ~PushInitialFrame
    <3>1. Started' => Started
      BY <2>2, StartStep
    <3>. QED  BY <1>1, <3>1, CutsAssumption DEF LossInv, NoFrameLost
  <2>. QED  BY <2>1, <2>2
<1>3. \A c \in examined : \A d \in ToSet(Candidates[c]) : Accounted(d)'
  BY <1>1, CandidatesAreCuts DEF LossInv, NoFrameLost, TypeOK, Types
<1>4. ASSUME NEW t \in Thread, MarkProcessing(t)
      PROVE  LossInv'
  <2>1. /\ Examining(t)' /\ UNCHANGED <<frame, examined>> /\ frame[t] \in Cut
        /\ todo'[t] = Candidates[frame[t]]
    BY <1>4 DEF MarkProcessing, Goto, Examining, TypeOK, Types, LocalsOK, history
  <2>2. \A u \in Thread \ {t} : Examining(u)' => Examining(u)
    BY <1>4 DEF MarkProcessing, Goto, Examining, TypeOK, Types
  <2>3. \A d \in ToSet(Candidates[frame[t]]) : Accounted(d)'
    BY <2>1 DEF Accounted, Pending, Held
  <2>4. ASSUME NEW u \in Thread \ {t}, Examining(u)'
        PROVE  \A d \in ToSet(Candidates[frame'[u]]) : Accounted(d)'
    <3>1. Examining(u) /\ frame'[u] = frame[u]
      BY <2>1, <2>2, <2>4
    <3>2. frame[u] \in Cut
      BY <3>1 DEF TypeOK, Types, LocalsOK, Examining
    <3>. QED  BY <1>1, <3>1, <3>2, CandidatesAreCuts DEF LossInv
  <2>. QED  BY <1>2, <1>3, <2>1, <2>3, <2>4 DEF LossInv, NoFrameLost
<1>5. ASSUME NEW t \in Thread, Record(t)
      PROVE  LossInv'
  <2>1. /\ Examining(t) /\ frame[t] \in Cut /\ UNCHANGED frame
        /\ examined' = examined \cup {frame[t]}
    BY <1>5 DEF Record, Goto, Examining, TypeOK, Types, LocalsOK, locals
  <2>2. \A u \in Thread : Examining(u)' => Examining(u)
    BY <1>5 DEF Record, Goto, Examining, TypeOK, Types
  <2>3. ASSUME NEW u \in Thread, Examining(u)
        PROVE  \A d \in ToSet(Candidates[frame[u]]) : Accounted(d)'
    <3>1. frame[u] \in Cut
      BY <2>3 DEF TypeOK, Types, LocalsOK, Examining
    <3>. QED  BY <1>1, <2>3, <3>1, CandidatesAreCuts DEF LossInv
  <2>. QED  BY <1>2, <1>3, <2>1, <2>2, <2>3 DEF LossInv, NoFrameLost
<1>6. CASE \A t \in Thread : ~MarkProcessing(t) /\ ~Record(t)
  <2>1. QuietExamination
    BY <1>6, OnlyMarkAndRecord
  <2>2. ASSUME NEW u \in Thread, Examining(u)'
        PROVE  \A d \in ToSet(Candidates[frame'[u]]) : Accounted(d)'
    <3>1. Examining(u) /\ frame'[u] = frame[u] /\ frame[u] \in Cut
      BY <2>1, <2>2 DEF QuietExamination, TypeOK, Types, LocalsOK, Examining
    <3>. QED  BY <1>1, <3>1, CandidatesAreCuts DEF LossInv
  <2>. QED  BY <1>2, <1>3, <2>1, <2>2 DEF LossInv, NoFrameLost, QuietExamination
<1>. QED  BY <1>4, <1>5, <1>6

LEMMA LossInvariant == Spec => [](TypeOK /\ RunInv /\ LossInv)
<1>1. Init => LossInv
  <2>1. 0 \in Thread
    BY ThreadsAssumption DEF Thread
  <2>. QED  BY <2>1 DEF Init, LossInv, NoFrameLost, Started, Examining
<1>2. Init => RunInv
  BY DEF Init, RunInv
<1>. QED  BY <1>1, <1>2, TypeInit, TypeStep, RunStep, LossStep, PTL DEF Spec

(* The stacks, the thieves and the spill buffer hand frames on without losing *)
(* any: the branches of what has been examined are in the table or on the way.*)
THEOREM NoFrameLostCorrect == Spec => []NoFrameLost
BY LossInvariant, PTL DEF LossInv
-----------------------------------------------------------------------------
(***************************************************************************)
(* Every frame is counted once.                                            *)
(***************************************************************************)

\* The parts of a thread's frames.
Stacked(t) == Len(roadmap[t])
InHand(t)  == Len(hand[t])
Ready(t)   == IF Examining(t) THEN 0 ELSE Len(children[t])
Taken(t)   == IF pc[t] \in {"mark", "branch"} THEN 1 ELSE 0

Frames  == [t \in Thread |-> FrameCount(t)]
Created == [c \in examined |-> Len(Candidates[c])]
Passed  == framesProcessed + duplicatesSkipped
Spilled == Len(mSpill)

\* The sums are over finitely many frames.
CountInv ==
    /\ IsFiniteSet(Units(Frames))
    /\ IsFiniteSet(Units(Created))
    /\ Passed + Spilled + Total(Frames) = (IF Started THEN 1 ELSE 0) + Total(Created)

\* The counts are natural numbers.
CountsAreNat ==
    /\ \A t \in Thread :
         /\ Stacked(t) \in Nat /\ InHand(t) \in Nat /\ Ready(t) \in Nat /\ Taken(t) \in Nat
         /\ FrameCount(t) = Stacked(t) + InHand(t) + Ready(t) + Taken(t)
         /\ FrameCount(t) \in Nat
         /\ Frames[t] = FrameCount(t)
    /\ Frames \in [Thread -> Nat]
    /\ Created \in [examined -> Nat]
    /\ Passed \in Int /\ Spilled \in Nat

LEMMA CountTypes == TypeOK => CountsAreNat
<1>. SUFFICES ASSUME TypeOK PROVE CountsAreNat
  OBVIOUS
<1>0. \A s \in Seq(Cut) : Len(s) \in Nat
  OBVIOUS
<1>1. ASSUME NEW t \in Thread
      PROVE  /\ Stacked(t) \in Nat /\ InHand(t) \in Nat /\ Ready(t) \in Nat /\ Taken(t) \in Nat
             /\ FrameCount(t) = Stacked(t) + InHand(t) + Ready(t) + Taken(t)
  BY <1>0 DEF TypeOK, Types, Stacked, InHand, Ready, Taken, FrameCount
<1>2. \A t \in Thread : FrameCount(t) \in Nat
  BY <1>1
<1>3. \A c \in examined : Len(Candidates[c]) \in Nat
  BY <1>0, CutsAssumption DEF TypeOK, Types
<1>4. Passed \in Int /\ Spilled \in Nat
  BY <1>0 DEF Passed, Spilled, TypeOK, Types
<1>. QED  BY <1>1, <1>2, <1>3, <1>4 DEF Frames, Created, CountsAreNat

\* A step that leaves the frames of every thread but t as they are, and changes
\* those of t by d.
Changes(t, d) ==
    /\ \A u \in Thread \ {t} : FrameCount(u)' = FrameCount(u)
    /\ FrameCount(t)' = FrameCount(t) + d

LEMMA TotalOfFrames ==
    ASSUME TypeOK, TypeOK', CountInv, NEW t \in Thread, NEW d \in Int, Changes(t, d)
    PROVE  /\ IsFiniteSet(Units(Frames))'
           /\ Total(Frames) \in Nat
           /\ Total(Frames)' = Total(Frames) + d
<1>1. /\ Frames \in [Thread -> Nat] /\ Frames' \in [Thread -> Nat]
      /\ \A u \in Thread : Frames[u] = FrameCount(u) /\ Frames'[u] = FrameCount(u)'
      /\ FrameCount(t) \in Nat
  <2>1. CountsAreNat /\ CountsAreNat'
    BY CountTypes, PTL
  <2>. QED  BY <2>1 DEF CountsAreNat
<1>2. \A u \in Thread \ {t} : Frames'[u] = Frames[u]
  BY <1>1 DEF Changes
<1>3. /\ IsFiniteSet(Units(Frames')) /\ Total(Frames) \in Nat
      /\ Total(Frames') = Total(Frames) - Frames[t] + Frames'[t]
  BY <1>1, <1>2, TotalChanges DEF CountInv
<1>4. Frames'[t] = Frames[t] + d
  BY <1>1 DEF Changes
<1>5. Frames[t] \in Nat
  BY <1>1
<1>6. Total(Frames') = Total(Frames) + d
  BY <1>3, <1>4, <1>5
<1>7. Units(Frames)' = Units(Frames') /\ Total(Frames)' = Total(Frames')
  BY DEF Total, Units
<1>. QED  BY <1>3, <1>6, <1>7

(* A step that examines nothing: what the stacks lose the counters gain. *)
LEMMA BalancedCounts ==
    ASSUME TypeOK, TypeOK', CountInv, NEW t \in Thread, NEW d \in Int, Changes(t, d),
           examined' = examined, Started' <=> Started,
           Passed' + Spilled' = Passed + Spilled - d
    PROVE  CountInv'
<1>1. /\ IsFiniteSet(Units(Frames))' /\ Total(Frames) \in Nat
      /\ Total(Frames)' = Total(Frames) + d
  BY TotalOfFrames
<1>2. Units(Created)' = Units(Created) /\ Total(Created)' = Total(Created)
  BY DEF Created, Units, Total
<1>3. Passed \in Int /\ Spilled \in Nat /\ Passed' \in Int /\ Spilled' \in Nat
  <2>1. CountsAreNat /\ CountsAreNat'
    BY CountTypes, PTL
  <2>. QED  BY <2>1 DEF CountsAreNat
<1>4. Passed' + Spilled' + Total(Frames)' = Passed + Spilled + Total(Frames)
  <2>. DEFINE p == Passed'  q == Spilled'  a == Passed  b == Spilled
              f == Total(Frames)  g == Total(Frames)'
  <2>1. p \in Int /\ q \in Int /\ a \in Int /\ b \in Int /\ f \in Int
    BY <1>1, <1>3
  <2>2. p + q = a + b - d /\ g = f + d
    BY <1>1
  <2>. HIDE DEF p, q, a, b, f, g
  <2>3. p + q + g = a + b + f
    BY <2>1, <2>2
  <2>. QED  BY <2>3 DEF p, q, a, b, f, g
<1>5. IsFiniteSet(Units(Created))'
  BY <1>2 DEF CountInv
<1>. QED  BY <1>1, <1>2, <1>4, <1>5 DEF CountInv

\* A step that moves no frame.
QuietFrames ==
    /\ \A u \in Thread : FrameCount(u)' = FrameCount(u)
    /\ UNCHANGED <<framesProcessed, duplicatesSkipped, mSpill, examined>>

(* Most steps move no frame. *)
LEMMA OnlyMovers ==
    ASSUME TypeOK, TypeOK', [Next]_vars, ~PushInitialFrame,
           \A t \in Thread :
             /\ ~PopFrame(t) /\ ~SkipDuplicate(t) /\ ~Record(t) /\ ~PushChild(t)
             /\ ~SplitOverflow(t) /\ ~PushToGlobalHeap(t) /\ ~PopFromGlobalHeap(t)
             /\ ~Install(t) /\ \A v \in Thread : ~StealFrom(t, v)
    PROVE  QuietFrames
<1>. USE DEF TypeOK
<1>1. CASE SinkUnreachable
  BY <1>1 DEF SinkUnreachable, FrameCount, QuietFrames, Examining, Goto, Types, LocalsOK, control, locals, shared, stats, history
<1>2. CASE PushInitialFrame
  BY <1>2
<1>3. CASE Join
  BY <1>3 DEF Join, FrameCount, QuietFrames, Examining, Goto, Types, LocalsOK, control, locals, shared, stats, history
<1>4. CASE Signal
  BY <1>4 DEF Signal, FrameCount, QuietFrames, Examining, Goto, Types, LocalsOK, control, locals, shared, stats, history
<1>5. CASE UNCHANGED vars
  BY <1>5 DEF vars, FrameCount, QuietFrames, Examining, Goto, Types, LocalsOK, control, locals, shared, stats, history
<1>6. ASSUME NEW t \in Thread, Spawn(t)
      PROVE  QuietFrames
  BY <1>6 DEF Spawn, FrameCount, QuietFrames, Examining, Goto, Types, LocalsOK, control, locals, shared, stats, history
<1>7. ASSUME NEW t \in Thread, LoopTest(t)
      PROVE  QuietFrames
  BY <1>7 DEF LoopTest, FrameCount, QuietFrames, Examining, Goto, Types, LocalsOK, control, locals, shared, stats, history
<1>8. ASSUME NEW t \in Thread, PopFrame(t)
      PROVE  QuietFrames
  BY <1>8
<1>9. ASSUME NEW t \in Thread, EndBatch(t)
      PROVE  QuietFrames
  BY <1>9 DEF EndBatch, FrameCount, QuietFrames, Examining, Goto, Types, LocalsOK, control, locals, shared, stats, history
<1>10. ASSUME NEW t \in Thread, SkipDuplicate(t)
      PROVE  QuietFrames
  BY <1>10
<1>11. ASSUME NEW t \in Thread, MarkProcessing(t)
      PROVE  QuietFrames
  <2>1. /\ pc[t] = "mark" /\ pc' = [pc EXCEPT ![t] = "branch"] /\ children[t] = <<>>
        /\ UNCHANGED <<roadmap, hand, children>>
    BY <1>11 DEF MarkProcessing, Goto, LocalsOK
  <2>2. Len(children[t]) = 0
    BY <2>1
  <2>3. FrameCount(t)' = FrameCount(t)
    BY <1>11, <2>1, <2>2 DEF FrameCount, Examining, Types
  <2>4. \A u \in Thread \ {t} : FrameCount(u)' = FrameCount(u)
    BY <2>1 DEF FrameCount, Examining, Types
  <2>. QED  BY <1>11, <2>3, <2>4 DEF MarkProcessing, QuietFrames, shared, stats, history
<1>12. ASSUME NEW t \in Thread, Branch(t)
      PROVE  QuietFrames
  BY <1>12 DEF Branch, FrameCount, QuietFrames, Examining, Goto, Types, LocalsOK, control, locals, shared, stats, history
<1>13. ASSUME NEW t \in Thread, Record(t)
      PROVE  QuietFrames
  BY <1>13
<1>14. ASSUME NEW t \in Thread, CheckLimits(t)
      PROVE  QuietFrames
  BY <1>14 DEF CheckLimits, FrameCount, QuietFrames, Examining, Goto, Types, LocalsOK, control, locals, shared, stats, history
<1>15. ASSUME NEW t \in Thread, PushChild(t)
      PROVE  QuietFrames
  BY <1>15
<1>16. ASSUME NEW t \in Thread, SplitOverflow(t)
      PROVE  QuietFrames
  BY <1>16
<1>17. ASSUME NEW t \in Thread, NoOverflow(t)
      PROVE  QuietFrames
  BY <1>17 DEF NoOverflow, FrameCount, QuietFrames, Examining, Goto, Types, LocalsOK, control, locals, shared, stats, history
<1>18. ASSUME NEW t \in Thread, PushToGlobalHeap(t)
      PROVE  QuietFrames
  BY <1>18
<1>19. ASSUME NEW t \in Thread, NEW v \in Thread, StealFrom(t, v)
      PROVE  QuietFrames
  BY <1>19
<1>20. ASSUME NEW t \in Thread, NEW v \in Thread, StealNothing(t, v)
      PROVE  QuietFrames
  BY <1>20 DEF StealNothing, FrameCount, QuietFrames, Examining, Goto, Types, LocalsOK, control, locals, shared, stats, history
<1>21. ASSUME NEW t \in Thread, PopFromGlobalHeap(t)
      PROVE  QuietFrames
  BY <1>21
<1>22. ASSUME NEW t \in Thread, Install(t)
      PROVE  QuietFrames
  BY <1>22
<1>23. ASSUME NEW t \in Thread, HeapEmpty(t)
      PROVE  QuietFrames
  BY <1>23 DEF HeapEmpty, FrameCount, QuietFrames, Examining, Goto, Types, LocalsOK, control, locals, shared, stats, history
<1>24. ASSUME NEW t \in Thread, BecomeIdle(t)
      PROVE  QuietFrames
  BY <1>24 DEF BecomeIdle, FrameCount, QuietFrames, Examining, Goto, Types, LocalsOK, control, locals, shared, stats, history
<1>25. ASSUME NEW t \in Thread, ScanIdle(t)
      PROVE  QuietFrames
  <2>1. /\ pc[t] = "scan" /\ pc \in [Thread -> Step]
        /\ pc' = [pc EXCEPT ![t] = "declare"] \/ pc' = pc
    BY <1>25 DEF ScanIdle, Goto, Types
  <2>. QED  BY <1>25, <2>1 DEF ScanIdle, FrameCount, QuietFrames, Examining, shared, stats, history
<1>26. ASSUME NEW t \in Thread, ScanBusy(t)
      PROVE  QuietFrames
  <2>1. pc[t] = "scan" /\ pc' = [pc EXCEPT ![t] = "sleep"] /\ pc \in [Thread -> Step]
    BY <1>26 DEF ScanBusy, Goto, Types
  <2>. QED  BY <1>26, <2>1 DEF ScanBusy, FrameCount, QuietFrames, Examining, shared, stats, history
<1>27. ASSUME NEW t \in Thread, Declare(t)
      PROVE  QuietFrames
  BY <1>27 DEF Declare, FrameCount, QuietFrames, Examining, Goto, Types, LocalsOK, control, locals, shared, stats, history
<1>28. ASSUME NEW t \in Thread, SpillNotEmpty(t)
      PROVE  QuietFrames
  BY <1>28 DEF SpillNotEmpty, FrameCount, QuietFrames, Examining, Goto, Types, LocalsOK, control, locals, shared, stats, history
<1>29. ASSUME NEW t \in Thread, Wake(t)
      PROVE  QuietFrames
  BY <1>29 DEF Wake, FrameCount, QuietFrames, Examining, Goto, Types, LocalsOK, control, locals, shared, stats, history
<1>. QED
  BY <1>1, <1>2, <1>3, <1>4, <1>5, <1>6, <1>7, <1>8, <1>9, <1>10, <1>11, <1>12, <1>13, <1>14, <1>15, <1>16, <1>17, <1>18, <1>19, <1>20, <1>21, <1>22, <1>23, <1>24, <1>25, <1>26, <1>27, <1>28, <1>29
     DEF Next, Main, Worker, Returned

(* The parts of a thread's frames change, and no other thread's. *)
LEMMA PartsChange ==
    ASSUME TypeOK, TypeOK', NEW t \in Thread,
           NEW r \in Int, NEW h \in Int, NEW c \in Int, NEW o \in Int, NEW d \in Int,
           \A u \in Thread \ {t} : FrameCount(u)' = FrameCount(u),
           Stacked(t)' = Stacked(t) + r, InHand(t)' = InHand(t) + h,
           Ready(t)' = Ready(t) + c, Taken(t)' = Taken(t) + o,
           d = r + h + c + o
    PROVE  Changes(t, d)
<1>1. CountsAreNat /\ CountsAreNat'
  BY CountTypes, PTL
<1>2. /\ FrameCount(t) = Stacked(t) + InHand(t) + Ready(t) + Taken(t)
      /\ FrameCount(t)' = Stacked(t)' + InHand(t)' + Ready(t)' + Taken(t)'
      /\ Stacked(t) \in Nat /\ InHand(t) \in Nat /\ Ready(t) \in Nat /\ Taken(t) \in Nat
  BY <1>1 DEF CountsAreNat
<1>. DEFINE a == Stacked(t)  b == InHand(t)  e == Ready(t)  f == Taken(t)
<1>3. a \in Int /\ b \in Int /\ e \in Int /\ f \in Int
  BY <1>2
<1>4. FrameCount(t)' = (a + r) + (b + h) + (e + c) + (f + o) /\ FrameCount(t) = a + b + e + f
  BY <1>2
<1>. HIDE DEF a, b, e, f
<1>5. (a + r) + (b + h) + (e + c) + (f + o) = (a + b + e + f) + d
  BY <1>3
<1>. QED  BY <1>4, <1>5 DEF Changes

(* Another thread's frames, when nothing of that thread changes. *)
LEMMA OthersSame ==
    ASSUME NEW t \in Thread,
           \A u \in Thread \ {t} :
             /\ roadmap'[u] = roadmap[u] /\ hand'[u] = hand[u]
             /\ children'[u] = children[u] /\ pc'[u] = pc[u]
    PROVE  \A u \in Thread \ {t} : FrameCount(u)' = FrameCount(u)
BY DEF FrameCount, Examining

(* What is taken from the spill buffer and what is left of it. *)
LEMMA SpillLengths ==
    ASSUME mSpill \in Seq(Cut)
    PROVE  Len(SpillTaken) \in Nat /\ Len(SpillKept) = Len(mSpill) - Len(SpillTaken)
<1>. DEFINE rest == Len(mSpill) - SpillCount
<1>1. rest \in 0 .. Len(mSpill)
  BY LimitsAssumption DEF SpillCount
<1>2. /\ SubSeq(mSpill, rest + 1, Len(mSpill)) \in Seq(Cut)
      /\ Len(SubSeq(mSpill, rest + 1, Len(mSpill))) = Len(mSpill) - rest
      /\ Len(SpillKept) = rest
  BY <1>1, SplitElements DEF SpillKept
<1>3. Len(SpillTaken) = Len(mSpill) - rest
  BY <1>2, ReverseElements DEF SpillTaken
<1>. QED  BY <1>1, <1>2, <1>3

LEMMA PopFrameCounts ==
    ASSUME TypeOK, TypeOK', CountInv, NEW t \in Thread, PopFrame(t), Started' <=> Started
    PROVE  CountInv'
<1>1. /\ roadmap[t] \in Seq(Cut) /\ roadmap[t] # <<>> /\ roadmap'[t] = Front(roadmap[t])
      /\ hand' = hand /\ children' = children /\ pc[t] = "pop" /\ pc'[t] = "mark"
      /\ \A u \in Thread \ {t} : roadmap'[u] = roadmap[u] /\ pc'[u] = pc[u]
      /\ children[t] = <<>>
  BY DEF PopFrame, Goto, TypeOK, Types, LocalsOK
<1>2. Len(Front(roadmap[t])) = Len(roadmap[t]) - 1
  BY <1>1, FrontLast
<1>3. /\ Stacked(t)' = Stacked(t) + (-1) /\ InHand(t)' = InHand(t)
      /\ Ready(t)' = Ready(t) /\ Taken(t)' = Taken(t) + 1
  BY <1>1, <1>2 DEF Stacked, InHand, Ready, Taken, Examining
<1>4. InHand(t)' = InHand(t) + 0 /\ Ready(t)' = Ready(t) + 0
  BY <1>3, CountTypes DEF CountsAreNat
<1>5. 0 = (-1) + 0 + 0 + 1
  OBVIOUS
<1>6. \A u \in Thread \ {t} : FrameCount(u)' = FrameCount(u)
  BY <1>1, OthersSame
<1>7. Changes(t, 0)
  BY <1>3, <1>4, <1>5, <1>6, PartsChange
<1>8. Passed' = Passed /\ Spilled' = Spilled /\ examined' = examined
  BY DEF PopFrame, Passed, Spilled, stats, history
<1>9. Passed' + Spilled' = Passed + Spilled - 0
  BY <1>8, CountTypes DEF CountsAreNat
<1>. QED  BY <1>7, <1>8, <1>9, BalancedCounts

LEMMA SkipDuplicateCounts ==
    ASSUME TypeOK, TypeOK', CountInv, NEW t \in Thread, SkipDuplicate(t), Started' <=> Started
    PROVE  CountInv'
<1>1. /\ UNCHANGED <<roadmap, hand, children>> /\ pc[t] = "mark" /\ pc'[t] = "pop"
      /\ \A u \in Thread \ {t} : pc'[u] = pc[u]
      /\ children[t] = <<>>
  BY DEF SkipDuplicate, Goto, TypeOK, Types, LocalsOK, shared
<1>2. /\ Stacked(t)' = Stacked(t) /\ InHand(t)' = InHand(t) /\ Ready(t)' = Ready(t)
      /\ Taken(t)' = Taken(t) + (-1)
  BY <1>1 DEF Stacked, InHand, Ready, Taken, Examining
<1>3. /\ Stacked(t)' = Stacked(t) + 0 /\ InHand(t)' = InHand(t) + 0
      /\ Ready(t)' = Ready(t) + 0
  BY <1>2, CountTypes DEF CountsAreNat
<1>4. -1 = 0 + 0 + 0 + (-1)
  OBVIOUS
<1>5. \A u \in Thread \ {t} : FrameCount(u)' = FrameCount(u)
  BY <1>1, OthersSame
<1>6. Changes(t, -1)
  BY <1>2, <1>3, <1>4, <1>5, PartsChange
<1>7. Spilled' = Spilled /\ examined' = examined
  BY DEF SkipDuplicate, Spilled, shared, history
<1>8. Passed' = Passed + 1
  BY DEF SkipDuplicate, Passed, TypeOK, Types
<1>9. Passed' + Spilled' = Passed + Spilled - (-1)
  BY <1>7, <1>8, CountTypes DEF CountsAreNat
<1>. QED  BY <1>6, <1>7, <1>9, BalancedCounts

LEMMA PushChildCounts ==
    ASSUME TypeOK, TypeOK', CountInv, NEW t \in Thread, PushChild(t), Started' <=> Started
    PROVE  CountInv'
<1>1. /\ UNCHANGED <<hand, pc, mSpill, framesProcessed, examined>> /\ pc[t] = "push"
      /\ children[t] \in Seq(Cut) /\ children[t] # <<>> /\ children'[t] = Front(children[t])
      /\ roadmap[t] \in Seq(Cut)
      /\ \A u \in Thread \ {t} : children'[u] = children[u]
  BY DEF PushChild, TypeOK, Types, history
<1>2. Len(Front(children[t])) = Len(children[t]) - 1 /\ Last(children[t]) \in Cut
  BY <1>1, FrontLast
<1>3. /\ InHand(t)' = InHand(t) /\ Taken(t)' = Taken(t)
      /\ Ready(t)' = Ready(t) + (-1)
  BY <1>1, <1>2 DEF InHand, Ready, Taken, Examining
<1>4. InHand(t)' = InHand(t) + 0 /\ Taken(t)' = Taken(t) + 0
  BY <1>3, CountTypes DEF CountsAreNat
<1>5. Spilled' = Spilled
  BY <1>1 DEF Spilled
<1>6. CASE roadmap' = roadmap /\ duplicatesSkipped' = duplicatesSkipped + 1
  <2>1. Stacked(t)' = Stacked(t) + 0
    BY <1>6, CountTypes DEF Stacked, CountsAreNat
  <2>2. \A u \in Thread \ {t} : FrameCount(u)' = FrameCount(u)
    BY <1>1, <1>6, OthersSame
  <2>3. -1 = 0 + 0 + (-1) + 0
    OBVIOUS
  <2>4. Changes(t, -1)
    BY <1>3, <1>4, <2>1, <2>2, <2>3, PartsChange
  <2>5. Passed' = Passed + 1
    BY <1>1, <1>6 DEF Passed, TypeOK, Types
  <2>6. Passed' + Spilled' = Passed + Spilled - (-1)
    BY <1>5, <2>5, CountTypes DEF CountsAreNat
  <2>. QED  BY <1>1, <2>4, <2>6, BalancedCounts
<1>7. CASE /\ roadmap' = [roadmap EXCEPT ![t] = Append(@, Last(children[t]))]
           /\ duplicatesSkipped' = duplicatesSkipped
  <2>1. roadmap'[t] = Append(roadmap[t], Last(children[t]))
        /\ \A u \in Thread \ {t} : roadmap'[u] = roadmap[u]
    BY <1>7 DEF TypeOK, Types
  <2>2. Len(roadmap'[t]) = Len(roadmap[t]) + 1
    BY <1>1, <1>2, <2>1, AppendElement
  <2>3. Stacked(t)' = Stacked(t) + 1
    BY <2>2 DEF Stacked
  <2>4. \A u \in Thread \ {t} : FrameCount(u)' = FrameCount(u)
    BY <1>1, <2>1, OthersSame
  <2>5. 0 = 1 + 0 + (-1) + 0
    OBVIOUS
  <2>6. Changes(t, 0)
    BY <1>3, <1>4, <2>3, <2>4, <2>5, PartsChange
  <2>7. Passed' = Passed
    BY <1>1, <1>7 DEF Passed
  <2>8. Passed' + Spilled' = Passed + Spilled - 0
    BY <1>5, <2>7, CountTypes DEF CountsAreNat
  <2>. QED  BY <1>1, <2>6, <2>8, BalancedCounts
<1>. QED  BY <1>6, <1>7 DEF PushChild

LEMMA SplitOverflowCounts ==
    ASSUME TypeOK, TypeOK', CountInv, NEW t \in Thread, SplitOverflow(t), Started' <=> Started
    PROVE  CountInv'
<1>1. /\ children' = children /\ children[t] = <<>> /\ pc[t] = "push" /\ pc'[t] = "spill"
      /\ roadmap[t] \in Seq(Cut) /\ hand[t] = <<>>
      /\ roadmap'[t] = Upper(roadmap[t]) /\ hand'[t] = Lower(roadmap[t])
      /\ \A u \in Thread \ {t} :
           roadmap'[u] = roadmap[u] /\ hand'[u] = hand[u] /\ pc'[u] = pc[u]
  <2>1. /\ pc[t] = "push" /\ children[t] = <<>> /\ UNCHANGED children
        /\ pc' = [pc EXCEPT ![t] = "spill"]
        /\ hand' = [hand EXCEPT ![t] = Lower(roadmap[t])]
        /\ roadmap' = [roadmap EXCEPT ![t] = Upper(@)]
    BY DEF SplitOverflow, Goto
  <2>2. hand[t] = <<>>
    BY <2>1 DEF TypeOK, LocalsOK
  <2>. QED  BY <2>1, <2>2 DEF TypeOK, Types
<1>2. /\ Half(roadmap[t]) \in Int
      /\ Len(Upper(roadmap[t])) = Len(roadmap[t]) - Half(roadmap[t])
      /\ Len(Lower(roadmap[t])) = Half(roadmap[t])
  <2>1. Len(roadmap[t]) \in Nat
    BY <1>1
  <2>2. Half(roadmap[t]) \in Int
    BY <2>1 DEF Half
  <2>. QED  BY <1>1, <2>2, HalvesElements
<1>. DEFINE n == Half(roadmap[t])
<1>3. /\ Stacked(t)' = Stacked(t) + (-n) /\ InHand(t)' = InHand(t) + n
      /\ Ready(t)' = Ready(t) /\ Taken(t)' = Taken(t)
  BY <1>1, <1>2 DEF Stacked, InHand, Ready, Taken, Examining
<1>4. Ready(t)' = Ready(t) + 0 /\ Taken(t)' = Taken(t) + 0
  BY <1>3, CountTypes DEF CountsAreNat
<1>. HIDE DEF n
<1>5. n \in Int /\ -n \in Int /\ 0 = (-n) + n + 0 + 0
  <2>1. n \in Int
    BY <1>2 DEF n
  <2>. QED  BY <2>1
<1>6. \A u \in Thread \ {t} : FrameCount(u)' = FrameCount(u)
  BY <1>1, OthersSame
<1>7. Changes(t, 0)
  BY <1>3, <1>4, <1>5, <1>6, PartsChange
<1>8. Passed' = Passed /\ Spilled' = Spilled /\ examined' = examined
  BY DEF SplitOverflow, Passed, Spilled, stats, history
<1>9. Passed' + Spilled' = Passed + Spilled - 0
  BY <1>8, CountTypes DEF CountsAreNat
<1>. QED  BY <1>7, <1>8, <1>9, BalancedCounts

LEMMA PushToGlobalHeapCounts ==
    ASSUME TypeOK, TypeOK', CountInv, NEW t \in Thread, PushToGlobalHeap(t), Started' <=> Started
    PROVE  CountInv'
<1>1. /\ UNCHANGED <<roadmap, children>> /\ pc[t] = "spill" /\ pc'[t] = "pop"
      /\ hand[t] \in Seq(Cut) /\ hand'[t] = <<>> /\ children[t] = <<>>
      /\ mSpill \in Seq(Cut) /\ mSpill' = mSpill \o hand[t]
      /\ \A u \in Thread \ {t} : hand'[u] = hand[u] /\ pc'[u] = pc[u]
  BY DEF PushToGlobalHeap, Goto, TypeOK, Types, LocalsOK
<1>. DEFINE n == InHand(t)
<1>2. n \in Int /\ CountsAreNat
  BY CountTypes DEF CountsAreNat
<1>3. Stacked(t)' = Stacked(t) /\ InHand(t)' = 0 /\ Ready(t)' = Ready(t) /\ Taken(t)' = Taken(t)
  BY <1>1 DEF Stacked, InHand, Ready, Taken, Examining
<1>4. /\ Stacked(t)' = Stacked(t) + 0 /\ InHand(t)' = n + (-n)
      /\ Ready(t)' = Ready(t) + 0 /\ Taken(t)' = Taken(t) + 0
  BY <1>2, <1>3 DEF CountsAreNat
<1>5. \A u \in Thread \ {t} : FrameCount(u)' = FrameCount(u)
  BY <1>1, OthersSame
<1>6. Passed' = Passed /\ examined' = examined
  BY DEF PushToGlobalHeap, Passed, stats, history
<1>7. Spilled' = Spilled + n
  BY <1>1, ConcatElements DEF Spilled, InHand
<1>. HIDE DEF n
<1>8. -n \in Int /\ -n = 0 + (-n) + 0 + 0
  BY <1>2
<1>9. Changes(t, -n)
  BY <1>2, <1>4, <1>5, <1>8, PartsChange DEF n
<1>10. Passed' + Spilled' = Passed + Spilled - (-n)
  BY <1>2, <1>6, <1>7 DEF CountsAreNat
<1>. QED  BY <1>6, <1>8, <1>9, <1>10, BalancedCounts

LEMMA PopFromGlobalHeapCounts ==
    ASSUME TypeOK, TypeOK', CountInv, NEW t \in Thread, PopFromGlobalHeap(t), Started' <=> Started
    PROVE  CountInv'
<1>1. /\ UNCHANGED <<roadmap, children>> /\ pc[t] = "heap" /\ pc'[t] = "install"
      /\ hand[t] = <<>> /\ hand'[t] = SpillTaken /\ children[t] = <<>>
      /\ mSpill \in Seq(Cut) /\ mSpill' = SpillKept
      /\ \A u \in Thread \ {t} : hand'[u] = hand[u] /\ pc'[u] = pc[u]
  <2>1. /\ pc[t] = "heap" /\ UNCHANGED <<roadmap, children>> /\ mSpill' = SpillKept
        /\ pc' = [pc EXCEPT ![t] = "install"]
        /\ hand' = [hand EXCEPT ![t] = SpillTaken]
    BY DEF PopFromGlobalHeap, Goto
  <2>2. hand[t] = <<>> /\ children[t] = <<>>
    BY <2>1 DEF TypeOK, LocalsOK
  <2>. QED  BY <2>1, <2>2 DEF TypeOK, Types
<1>. DEFINE n == Len(SpillTaken)
<1>2. n \in Int /\ CountsAreNat /\ Len(SpillKept) = Len(mSpill) - n
  BY <1>1, SpillLengths, CountTypes
<1>3. Stacked(t)' = Stacked(t) /\ InHand(t) = 0 /\ InHand(t)' = n /\ Ready(t)' = Ready(t) /\ Taken(t)' = Taken(t)
  BY <1>1 DEF Stacked, InHand, Ready, Taken, Examining
<1>4. /\ Stacked(t)' = Stacked(t) + 0 /\ InHand(t)' = InHand(t) + n
      /\ Ready(t)' = Ready(t) + 0 /\ Taken(t)' = Taken(t) + 0
  BY <1>2, <1>3 DEF CountsAreNat
<1>5. \A u \in Thread \ {t} : FrameCount(u)' = FrameCount(u)
  BY <1>1, OthersSame
<1>6. Passed' = Passed /\ examined' = examined
  BY DEF PopFromGlobalHeap, Passed, stats, history
<1>7. Spilled' = Spilled - n
  BY <1>1, <1>2 DEF Spilled
<1>. HIDE DEF n
<1>8. n = 0 + n + 0 + 0
  BY <1>2
<1>9. Changes(t, n)
  BY <1>2, <1>4, <1>5, <1>8, PartsChange
<1>10. Passed' + Spilled' = Passed + Spilled - n
  BY <1>2, <1>6, <1>7 DEF CountsAreNat
<1>. QED  BY <1>2, <1>6, <1>9, <1>10, BalancedCounts

LEMMA InstallCounts ==
    ASSUME TypeOK, TypeOK', CountInv, NEW t \in Thread, Install(t), Started' <=> Started
    PROVE  CountInv'
<1>1. /\ UNCHANGED <<mSpill, children>> /\ pc[t] = "install" /\ pc'[t] = "loop"
      /\ hand[t] \in Seq(Cut) /\ hand'[t] = <<>> /\ children[t] = <<>>
      /\ roadmap[t] \in Seq(Cut) /\ roadmap'[t] = roadmap[t] \o hand[t]
      /\ \A u \in Thread \ {t} :
           roadmap'[u] = roadmap[u] /\ hand'[u] = hand[u] /\ pc'[u] = pc[u]
  BY DEF Install, Goto, TypeOK, Types, LocalsOK
<1>. DEFINE n == InHand(t)
<1>2. n \in Int /\ CountsAreNat
  BY CountTypes DEF CountsAreNat
<1>3. Stacked(t)' = Stacked(t) + n
  BY <1>1, ConcatElements DEF Stacked, InHand
<1>4. InHand(t)' = 0 /\ Ready(t)' = Ready(t) /\ Taken(t)' = Taken(t)
  BY <1>1 DEF InHand, Ready, Taken, Examining
<1>5. InHand(t)' = n + (-n) /\ Ready(t)' = Ready(t) + 0 /\ Taken(t)' = Taken(t) + 0
  BY <1>2, <1>4 DEF CountsAreNat
<1>6. \A u \in Thread \ {t} : FrameCount(u)' = FrameCount(u)
  BY <1>1, OthersSame
<1>7. Passed' = Passed /\ Spilled' = Spilled /\ examined' = examined
  BY <1>1 DEF Install, Passed, Spilled, stats, history
<1>. HIDE DEF n
<1>8. -n \in Int /\ 0 = n + (-n) + 0 + 0
  BY <1>2
<1>9. Changes(t, 0)
  BY <1>2, <1>3, <1>5, <1>6, <1>8, PartsChange DEF n
<1>10. Passed' + Spilled' = Passed + Spilled - 0
  BY <1>2, <1>7 DEF CountsAreNat
<1>. QED  BY <1>7, <1>9, <1>10, BalancedCounts

(* A thief's hand gains what the victim's stack loses. *)
LEMMA StealFromCounts ==
    ASSUME TypeOK, TypeOK', CountInv, NEW t \in Thread, NEW v \in Thread, StealFrom(t, v),
           Started' <=> Started
    PROVE  CountInv'
<1>1. v # t /\ CountsAreNat /\ CountsAreNat'
  BY CountTypes, PTL DEF StealFrom
<1>2. /\ children' = children /\ pc[t] = "steal" /\ pc'[t] = "install"
      /\ roadmap[v] \in Seq(Cut) /\ hand[t] = <<>>
      /\ roadmap'[v] = Upper(roadmap[v]) /\ hand'[t] = Lower(roadmap[v])
      /\ \A u \in Thread \ {t} : hand'[u] = hand[u] /\ pc'[u] = pc[u]
      /\ \A u \in Thread \ {v} : roadmap'[u] = roadmap[u]
  <2>1. /\ pc[t] = "steal" /\ UNCHANGED children
        /\ pc' = [pc EXCEPT ![t] = "install"]
        /\ hand' = [hand EXCEPT ![t] = Lower(roadmap[v])]
        /\ roadmap' = [roadmap EXCEPT ![v] = Upper(@)]
    BY DEF StealFrom, Goto
  <2>2. hand[t] = <<>>
    BY <2>1 DEF TypeOK, LocalsOK
  <2>. QED  BY <2>1, <2>2 DEF TypeOK, Types
<1>. DEFINE n == Half(roadmap[v])
<1>3. /\ n \in Int
      /\ Len(Upper(roadmap[v])) = Len(roadmap[v]) - n
      /\ Len(Lower(roadmap[v])) = n
  <2>1. Len(roadmap[v]) \in Nat
    BY <1>2
  <2>2. Half(roadmap[v]) \in Int
    BY <2>1 DEF Half
  <2>. QED  BY <1>2, <2>2, HalvesElements
<1>4. /\ Stacked(t)' = Stacked(t) /\ InHand(t) = 0 /\ InHand(t)' = n
      /\ Ready(t)' = Ready(t) /\ Taken(t)' = Taken(t)
  BY <1>1, <1>2, <1>3 DEF Stacked, InHand, Ready, Taken, Examining
<1>5. /\ Stacked(v)' = Stacked(v) - n /\ InHand(v)' = InHand(v)
      /\ Ready(v)' = Ready(v) /\ Taken(v)' = Taken(v)
  BY <1>1, <1>2, <1>3 DEF Stacked, InHand, Ready, Taken, Examining
<1>. HIDE DEF n
<1>6. FrameCount(t)' = FrameCount(t) + n
  <2>. DEFINE r == Stacked(t)  c == Ready(t)  o == Taken(t)
  <2>1. r \in Int /\ c \in Int /\ o \in Int
    BY <1>1 DEF CountsAreNat
  <2>2. FrameCount(t) = r + 0 + c + o /\ FrameCount(t)' = r + n + c + o
    BY <1>1, <1>4 DEF CountsAreNat
  <2>. HIDE DEF r, c, o
  <2>3. r + n + c + o = (r + 0 + c + o) + n
    BY <1>3, <2>1
  <2>. QED  BY <2>2, <2>3
<1>7. FrameCount(v)' = FrameCount(v) - n
  <2>. DEFINE r == Stacked(v)  h == InHand(v)  c == Ready(v)  o == Taken(v)
  <2>1. r \in Int /\ h \in Int /\ c \in Int /\ o \in Int
    BY <1>1 DEF CountsAreNat
  <2>2. FrameCount(v) = r + h + c + o /\ FrameCount(v)' = (r - n) + h + c + o
    BY <1>1, <1>5 DEF CountsAreNat
  <2>. HIDE DEF r, h, c, o
  <2>3. (r - n) + h + c + o = (r + h + c + o) - n
    BY <1>3, <2>1
  <2>. QED  BY <2>2, <2>3
<1>8. \A u \in Thread \ {t, v} : FrameCount(u)' = FrameCount(u)
  BY <1>2 DEF FrameCount, Examining
\* Between the two, the victim has lost them already.
<1>. DEFINE half == [Frames EXCEPT ![v] = FrameCount(v)']
<1>9. /\ Frames \in [Thread -> Nat] /\ half \in [Thread -> Nat] /\ Frames' \in [Thread -> Nat]
      /\ \A u \in Thread : Frames[u] = FrameCount(u) /\ Frames'[u] = FrameCount(u)'
      /\ FrameCount(t) \in Nat /\ FrameCount(v) \in Nat
  BY <1>1 DEF CountsAreNat
<1>10. /\ half[v] = FrameCount(v)' /\ half[t] = FrameCount(t)
       /\ \A u \in Thread \ {v} : half[u] = Frames[u]
       /\ \A u \in Thread \ {t} : Frames'[u] = half[u]
  BY <1>1, <1>8, <1>9
<1>. HIDE DEF half
<1>11. /\ IsFiniteSet(Units(half)) /\ Total(Frames) \in Nat
       /\ Total(half) = Total(Frames) - Frames[v] + half[v]
  BY <1>9, <1>10, TotalChanges DEF CountInv
<1>12. /\ IsFiniteSet(Units(Frames')) /\ Total(half) \in Nat
       /\ Total(Frames') = Total(half) - half[t] + Frames'[t]
  BY <1>9, <1>10, <1>11, TotalChanges
<1>13. Total(Frames') = Total(Frames)
  <2>. DEFINE a == FrameCount(v)  b == FrameCount(t)  f == Total(Frames)  h == Total(half)
  <2>1. a \in Int /\ b \in Int /\ f \in Int /\ h \in Int
    BY <1>9, <1>11, <1>12
  <2>2. h = f - a + (a - n)
    BY <1>7, <1>9, <1>10, <1>11
  <2>3. Total(Frames') = h - b + (b + n)
    BY <1>6, <1>9, <1>10, <1>12
  <2>. HIDE DEF a, b, f, h
  <2>4. h - b + (b + n) = f
    BY <1>3, <2>1, <2>2
  <2>5. Total(Frames') = f
    BY <2>3, <2>4
  <2>. QED  BY <2>5 DEF f
<1>14. Passed' = Passed /\ Spilled' = Spilled /\ Created' = Created
  BY DEF StealFrom, Passed, Spilled, Created, stats, history
<1>15. IsFiniteSet(Units(Frames))' /\ Total(Frames)' = Total(Frames)
  BY <1>12, <1>13 DEF Units, Total
<1>16. IsFiniteSet(Units(Created))' /\ Total(Created)' = Total(Created)
  BY <1>14 DEF Units, Total, CountInv
<1>. QED  BY <1>14, <1>15, <1>16 DEF CountInv

(* A cut is recorded: its candidates are created, those dropped are counted. *)
LEMMA RecordCounts ==
    ASSUME TypeOK, TypeOK', OnceInv, CountInv, NEW t \in Thread, Record(t), Started' <=> Started
    PROVE  CountInv'
<1>1. /\ UNCHANGED <<roadmap, hand, children, mSpill>> /\ pc[t] = "branch" /\ pc'[t] = "limits"
      /\ frame[t] \in Cut /\ frame[t] \notin examined /\ examined' = examined \cup {frame[t]}
      /\ framesProcessed' = framesProcessed + 1
      /\ duplicatesSkipped' = duplicatesSkipped + (Len(Candidates[frame[t]]) - Len(children[t]))
      /\ \A u \in Thread \ {t} : pc'[u] = pc[u]
  <2>1. pc[t] = "branch" /\ pc' = [pc EXCEPT ![t] = "limits"]
    BY DEF Record, Goto
  <2>2. frame[t] \in Cut
    BY <2>1 DEF TypeOK, Types, LocalsOK
  <2>3. frame[t] \notin examined
    BY <2>1 DEF OnceInv, Examining
  <2>. QED  BY <2>1, <2>2, <2>3 DEF Record, FilteredDuplicates, locals, shared, TypeOK, Types
<1>2. CountsAreNat /\ CountsAreNat'
  BY CountTypes, PTL
<1>. DEFINE k == Len(children[t])  c == Len(Candidates[frame[t]])
<1>3. k \in Nat /\ c \in Nat
  <2>1. children[t] \in Seq(Cut) /\ Candidates[frame[t]] \in Seq(Cut)
    BY <1>1, CutsAssumption DEF TypeOK, Types
  <2>. QED  BY <2>1
<1>4. /\ Stacked(t)' = Stacked(t) /\ InHand(t)' = InHand(t)
      /\ Ready(t) = 0 /\ Ready(t)' = k
      /\ Taken(t) = 1 /\ Taken(t)' = 0
  BY <1>1 DEF Stacked, InHand, Ready, Taken, Examining
<1>5. Passed' = framesProcessed + 1 + (duplicatesSkipped + (c - k)) /\ Spilled' = Spilled
  BY <1>1 DEF Passed, Spilled
<1>6. /\ Extends(Created', Created, frame[t])
      /\ Created'[frame[t]] = c
  BY <1>1, <1>3 DEF Extends, Created
<1>. HIDE DEF k, c
<1>7. /\ Stacked(t)' = Stacked(t) + 0 /\ InHand(t)' = InHand(t) + 0
      /\ Ready(t)' = Ready(t) + k /\ Taken(t)' = Taken(t) + (-1)
      /\ k \in Int /\ k - 1 \in Int /\ k - 1 = 0 + 0 + k + (-1)
  BY <1>2, <1>3, <1>4 DEF CountsAreNat
<1>8. \A u \in Thread \ {t} : FrameCount(u)' = FrameCount(u)
  BY <1>1, OthersSame
<1>9. Changes(t, k - 1)
  BY <1>7, <1>8, PartsChange
<1>10. /\ IsFiniteSet(Units(Frames))' /\ Total(Frames) \in Nat
       /\ Total(Frames)' = Total(Frames) + (k - 1)
  BY <1>7, <1>9, TotalOfFrames
<1>11. /\ IsFiniteSet(Units(Created')) /\ Total(Created) \in Nat
       /\ Total(Created') = Total(Created) + c
  BY <1>6, TotalExtends DEF CountInv
<1>12. IsFiniteSet(Units(Created))' /\ Total(Created)' = Total(Created) + c
  BY <1>11 DEF Units, Total
<1>13. Passed' = Passed + 1 + (c - k)
  <2>. DEFINE i == framesProcessed  j == duplicatesSkipped
  <2>1. i \in Int /\ j \in Int
    BY DEF TypeOK, Types
  <2>2. Passed' = i + 1 + (j + (c - k)) /\ Passed = i + j
    BY <1>5 DEF Passed
  <2>. HIDE DEF i, j
  <2>3. i + 1 + (j + (c - k)) = (i + j) + 1 + (c - k)
    BY <1>3, <2>1
  <2>. QED  BY <2>2, <2>3
<1>14. Passed' + Spilled' + Total(Frames)' = Passed + Spilled + Total(Frames) + c
  <2>. DEFINE p == Passed  q == Spilled  f == Total(Frames)
  <2>1. p \in Int /\ q \in Int /\ f \in Int
    BY <1>2, <1>10 DEF CountsAreNat
  <2>2. Passed' + Spilled' + Total(Frames)' = (p + 1 + (c - k)) + q + (f + (k - 1))
    BY <1>5, <1>10, <1>13
  <2>. HIDE DEF p, q, f
  <2>3. (p + 1 + (c - k)) + q + (f + (k - 1)) = (p + q + f) + c
    BY <1>3, <2>1
  <2>4. Passed' + Spilled' + Total(Frames)' = (p + q + f) + c
    BY <2>2, <2>3
  <2>. QED  BY <2>4 DEF p, q, f
<1>15. (IF Started THEN 1 ELSE 0) + Total(Created) + c = (IF Started THEN 1 ELSE 0) + Total(Created)'
  <2>. DEFINE s == IF Started THEN 1 ELSE 0  e == Total(Created)
  <2>1. s \in Int /\ e \in Int
    BY <1>11
  <2>. HIDE DEF s, e
  <2>2. s + e + c = s + (e + c)
    BY <1>3, <2>1
  <2>. QED  BY <1>12, <2>2 DEF s, e
<1>. QED  BY <1>10, <1>12, <1>14, <1>15 DEF CountInv

(* The initial frame is the first. *)
LEMMA PushInitialFrameCounts ==
    ASSUME TypeOK, TypeOK', RunInv, CountInv, PushInitialFrame
    PROVE  CountInv'
<1>1. /\ UNCHANGED <<hand, children, pc, mSpill, framesProcessed, duplicatesSkipped, examined>>
      /\ 0 \in Thread /\ roadmap[0] \in Seq(Cut) /\ roadmap'[0] = Append(roadmap[0], Root)
      /\ \A u \in Thread \ {0} : roadmap'[u] = roadmap[u]
  BY ThreadsAssumption DEF PushInitialFrame, TypeOK, Types, Thread, locals, stats, history
<1>2. Len(roadmap'[0]) = Len(roadmap[0]) + 1
  BY <1>1, CutsAssumption, AppendElement
<1>3. CountsAreNat
  BY CountTypes
<1>4. /\ Stacked(0)' = Stacked(0) + 1 /\ InHand(0)' = InHand(0) + 0
      /\ Ready(0)' = Ready(0) + 0 /\ Taken(0)' = Taken(0) + 0
  <2>1. /\ Stacked(0)' = Stacked(0) + 1 /\ InHand(0)' = InHand(0)
        /\ Ready(0)' = Ready(0) /\ Taken(0)' = Taken(0)
    BY <1>1, <1>2 DEF Stacked, InHand, Ready, Taken, Examining
  <2>. QED  BY <1>1, <1>3, <2>1 DEF CountsAreNat
<1>5. 1 = 1 + 0 + 0 + 0
  OBVIOUS
<1>6. \A u \in Thread \ {0} : FrameCount(u)' = FrameCount(u)
  BY <1>1, OthersSame
<1>7. Changes(0, 1)
  BY <1>1, <1>4, <1>5, <1>6, PartsChange
<1>8. /\ IsFiniteSet(Units(Frames))' /\ Total(Frames) \in Nat
      /\ Total(Frames)' = Total(Frames) + 1
  BY <1>1, <1>7, TotalOfFrames
<1>9. Passed' = Passed /\ Spilled' = Spilled /\ Created' = Created
  BY <1>1 DEF Passed, Spilled, Created
<1>10. IsFiniteSet(Units(Created))' /\ Total(Created)' = Total(Created)
  BY <1>9 DEF Units, Total, CountInv
<1>11. ~Started /\ Started'
  BY <1>1 DEF PushInitialFrame, RunInv, Started
<1>12. Total(Created) \in Nat
  BY FS_CardinalityType DEF CountInv, Total
<1>13. Passed + Spilled + Total(Frames) = 0 + Total(Created)
  BY <1>11 DEF CountInv
<1>14. Passed' + Spilled' + Total(Frames)' = 1 + Total(Created)'
  <2>. DEFINE p == Passed  q == Spilled  f == Total(Frames)  e == Total(Created)
  <2>1. p \in Int /\ q \in Int /\ f \in Int /\ e \in Int
    BY <1>3, <1>8, <1>12 DEF CountsAreNat
  <2>2. p + q + f = 0 + e
    BY <1>13
  <2>. HIDE DEF p, q, f, e
  <2>3. p + q + (f + 1) = 1 + e
    BY <2>1, <2>2
  <2>. QED  BY <1>8, <1>9, <1>10, <2>3 DEF p, q, f, e
<1>. QED  BY <1>8, <1>10, <1>11, <1>14 DEF CountInv

LEMMA CountStep == TypeOK /\ TypeOK' /\ RunInv /\ OnceInv /\ CountInv /\ [Next]_vars => CountInv'
<1>. SUFFICES ASSUME TypeOK, TypeOK', RunInv, OnceInv, CountInv, [Next]_vars PROVE CountInv'
  OBVIOUS
<1>1. CASE PushInitialFrame
  BY <1>1, PushInitialFrameCounts
<1>2. CASE ~PushInitialFrame
  <2>1. Started' <=> Started
    BY <1>2, StartStep
  <2>2. ASSUME NEW t \in Thread,
               \/ PopFrame(t) \/ SkipDuplicate(t) \/ Record(t) \/ PushChild(t)
               \/ SplitOverflow(t) \/ PushToGlobalHeap(t) \/ PopFromGlobalHeap(t)
               \/ Install(t) \/ \E v \in Thread : StealFrom(t, v)
        PROVE  CountInv'
    BY <2>1, <2>2, PopFrameCounts, SkipDuplicateCounts, RecordCounts, PushChildCounts,
       SplitOverflowCounts, PushToGlobalHeapCounts, PopFromGlobalHeapCounts, InstallCounts,
       StealFromCounts
  <2>3. CASE \A t \in Thread :
               /\ ~PopFrame(t) /\ ~SkipDuplicate(t) /\ ~Record(t) /\ ~PushChild(t)
               /\ ~SplitOverflow(t) /\ ~PushToGlobalHeap(t) /\ ~PopFromGlobalHeap(t)
               /\ ~Install(t) /\ \A v \in Thread : ~StealFrom(t, v)
    <3>1. QuietFrames
      BY <1>2, <2>3, OnlyMovers
    <3>2. /\ UNCHANGED <<framesProcessed, duplicatesSkipped, mSpill, examined>>
          /\ \A u \in Thread : FrameCount(u)' = FrameCount(u)
      BY <3>1 DEF QuietFrames
    <3>3. Passed' = Passed /\ Spilled' = Spilled /\ Created' = Created /\ Frames' = Frames
      BY <3>2 DEF Passed, Spilled, Created, Frames
    <3>. QED  BY <2>1, <3>3 DEF CountInv, Units, Total
  <2>. QED  BY <2>2, <2>3
<1>. QED  BY <1>1, <1>2

LEMMA CountInit == Init => CountInv
<1>. SUFFICES ASSUME Init PROVE CountInv
  OBVIOUS
<1>1. \A t \in Thread : FrameCount(t) = 0
  <2>1. Len(<<>>) = 0
    OBVIOUS
  <2>. QED  BY <2>1 DEF Init, FrameCount, Examining
<1>2. Units(Frames) = {}
  BY <1>1 DEF Units, Frames
<1>3. Units(Created) = {}
  BY DEF Init, Units, Created
<1>4. ~Started
  BY ThreadsAssumption DEF Init, Started, Thread
<1>5. Passed = 0 /\ Spilled = 0
  BY DEF Init, Passed, Spilled
<1>6. IsFiniteSet({}) /\ Cardinality({}) = 0
  BY FS_EmptySet
<1>. QED  BY <1>2, <1>3, <1>4, <1>5, <1>6 DEF CountInv, Total

(* The counters of frames passed, and the frames on the stacks, in the spill   *)
(* buffer and in the hands of threads, add up to the frames created: the       *)
(* numbers printed at the end count every frame once.                          *)
THEOREM FrameConservationCorrect == Spec => []FrameConservation
<1>1. Spec => [](TypeOK /\ RunInv /\ OnceInv)
  BY TypeCorrect, RunIdleInvariant, OnceInvariant, PTL
<1>2. Spec => []CountInv
  BY <1>1, CountInit, CountStep, PTL DEF Spec
<1>3. TypeOK /\ CountInv => FrameConservation
  BY DEF CountInv, FrameConservation, Passed, Spilled, Frames, Created
<1>. QED  BY <1>1, <1>2, <1>3, PTL
-----------------------------------------------------------------------------
\* What the scan can be trusted under.  With three threads and a scan that may
\* be overtaken by a wake-up it cannot.
TrustworthyScan == NumThreads <= 2 \/ SleepOutlastsScan

(***************************************************************************)
(* Nothing is left.                                                        *)
(***************************************************************************)
Drained ==
    /\ mSpill = <<>>
    /\ \A t \in Thread :
         /\ roadmap[t] = <<>> /\ hand[t] = <<>> /\ children[t] = <<>> /\ todo[t] = <<>>
         /\ pc[t] \notin {"mark", "branch"}

LEMMA DrainedHoldsNothing == Drained => Pending = {} /\ \A t \in Thread : ~Examining(t)
<1>1. ToSet(<<>>) = {}
  BY DEF ToSet
<1>. QED  BY <1>1 DEF Drained, Pending, Held, Examining

\* Once nothing is left, no step brings a frame back.
LEMMA DrainedStep ==
    ASSUME TypeOK, Drained, [Next]_vars, ~PushInitialFrame
    PROVE  Drained'
<1>. USE DEF TypeOK
<1>0. <<>> \o <<>> = <<>> /\ Len(<<>>) = 0
  OBVIOUS
<1>1. CASE SinkUnreachable
  BY <1>0, <1>1 DEF Drained, SinkUnreachable, Goto, Types, control, locals, shared, stats, history
<1>2. CASE PushInitialFrame
  BY <1>2
<1>3. CASE Join
  BY <1>0, <1>3 DEF Drained, Join, Goto, Types, control, locals, shared, stats, history
<1>4. CASE Signal
  BY <1>0, <1>4 DEF Drained, Signal, Goto, Types, control, locals, shared, stats, history
<1>5. CASE UNCHANGED vars
  BY <1>0, <1>5 DEF Drained, vars, Goto, Types, control, locals, shared, stats, history
<1>6. ASSUME NEW t \in Thread, Spawn(t)
      PROVE  Drained'
  BY <1>0, <1>6 DEF Drained, Spawn, Goto, Types, control, locals, shared, stats, history
<1>7. ASSUME NEW t \in Thread, LoopTest(t)
      PROVE  Drained'
  BY <1>0, <1>7 DEF Drained, LoopTest, Goto, Types, control, locals, shared, stats, history
<1>8. ASSUME NEW t \in Thread, PopFrame(t)
      PROVE  Drained'
  BY <1>0, <1>8 DEF Drained, PopFrame, Goto, Types, control, locals, shared, stats, history
<1>9. ASSUME NEW t \in Thread, EndBatch(t)
      PROVE  Drained'
  BY <1>0, <1>9 DEF Drained, EndBatch, Goto, Types, control, locals, shared, stats, history
<1>10. ASSUME NEW t \in Thread, SkipDuplicate(t)
      PROVE  Drained'
  BY <1>0, <1>10 DEF Drained, SkipDuplicate, Goto, Types, control, locals, shared, stats, history
<1>11. ASSUME NEW t \in Thread, MarkProcessing(t)
      PROVE  Drained'
  BY <1>0, <1>11 DEF Drained, MarkProcessing, Goto, Types, control, locals, shared, stats, history
<1>12. ASSUME NEW t \in Thread, Branch(t)
      PROVE  Drained'
  BY <1>0, <1>12 DEF Drained, Branch, Goto, Types, control, locals, shared, stats, history
<1>13. ASSUME NEW t \in Thread, Record(t)
      PROVE  Drained'
  BY <1>0, <1>13 DEF Drained, Record, Goto, Types, control, locals, shared, stats, history
<1>14. ASSUME NEW t \in Thread, CheckLimits(t)
      PROVE  Drained'
  BY <1>0, <1>14 DEF Drained, CheckLimits, Goto, Types, control, locals, shared, stats, history
<1>15. ASSUME NEW t \in Thread, PushChild(t)
      PROVE  Drained'
  BY <1>0, <1>15 DEF Drained, PushChild, Goto, Types, control, locals, shared, stats, history
<1>16. ASSUME NEW t \in Thread, SplitOverflow(t)
      PROVE  Drained'
  BY <1>0, <1>16 DEF Drained, SplitOverflow, Half, Goto, Types, control, locals, shared, stats, history
<1>17. ASSUME NEW t \in Thread, NoOverflow(t)
      PROVE  Drained'
  BY <1>0, <1>17 DEF Drained, NoOverflow, Goto, Types, control, locals, shared, stats, history
<1>18. ASSUME NEW t \in Thread, PushToGlobalHeap(t)
      PROVE  Drained'
  BY <1>0, <1>18 DEF Drained, PushToGlobalHeap, Goto, Types, control, locals, shared, stats, history
<1>19. ASSUME NEW t \in Thread, NEW v \in Thread, StealFrom(t, v)
      PROVE  Drained'
  BY <1>0, <1>19 DEF Drained, StealFrom, Goto, Types, control, locals, shared, stats, history
<1>20. ASSUME NEW t \in Thread, NEW v \in Thread, StealNothing(t, v)
      PROVE  Drained'
  BY <1>0, <1>20 DEF Drained, StealNothing, Goto, Types, control, locals, shared, stats, history
<1>21. ASSUME NEW t \in Thread, PopFromGlobalHeap(t)
      PROVE  Drained'
  BY <1>0, <1>21 DEF Drained, PopFromGlobalHeap, Goto, Types, control, locals, shared, stats, history
<1>22. ASSUME NEW t \in Thread, Install(t)
      PROVE  Drained'
  BY <1>0, <1>22 DEF Drained, Install, Goto, Types, control, locals, shared, stats, history
<1>23. ASSUME NEW t \in Thread, HeapEmpty(t)
      PROVE  Drained'
  BY <1>0, <1>23 DEF Drained, HeapEmpty, Goto, Types, control, locals, shared, stats, history
<1>24. ASSUME NEW t \in Thread, BecomeIdle(t)
      PROVE  Drained'
  BY <1>0, <1>24 DEF Drained, BecomeIdle, Goto, Types, control, locals, shared, stats, history
<1>25. ASSUME NEW t \in Thread, ScanIdle(t)
      PROVE  Drained'
  BY <1>0, <1>25 DEF Drained, ScanIdle, Goto, Types, control, locals, shared, stats, history
<1>26. ASSUME NEW t \in Thread, ScanBusy(t)
      PROVE  Drained'
  BY <1>0, <1>26 DEF Drained, ScanBusy, Goto, Types, control, locals, shared, stats, history
<1>27. ASSUME NEW t \in Thread, Declare(t)
      PROVE  Drained'
  BY <1>0, <1>27 DEF Drained, Declare, Goto, Types, control, locals, shared, stats, history
<1>28. ASSUME NEW t \in Thread, SpillNotEmpty(t)
      PROVE  Drained'
  BY <1>0, <1>28 DEF Drained, SpillNotEmpty, Goto, Types, control, locals, shared, stats, history
<1>29. ASSUME NEW t \in Thread, Wake(t)
      PROVE  Drained'
  BY <1>0, <1>29 DEF Drained, Wake, Goto, Types, control, locals, shared, stats, history
<1>. QED
  BY <1>1, <1>2, <1>3, <1>4, <1>5, <1>6, <1>7, <1>8, <1>9, <1>10, <1>11, <1>12, <1>13, <1>14, <1>15, <1>16, <1>17, <1>18, <1>19, <1>20, <1>21, <1>22, <1>23, <1>24, <1>25, <1>26, <1>27, <1>28, <1>29
     DEF Next, Main, Worker, Returned

-----------------------------------------------------------------------------
(***************************************************************************)
(* The spill buffer has a reader.                                          *)
(***************************************************************************)

\* While nobody has stopped the search no thread has ended, and if the spill
\* buffer holds frames, some thread has yet to look into it before it goes idle.
SpillInv ==
    stopCause = "none" =>
      /\ \A t \in Thread : pc[t] # "exited"
      /\ mSpill # <<>> => \E t \in Thread : pc[t] \notin {"idle", "scan", "declare", "sleep"}

LEMMA SpillStep == TypeOK /\ RunInv /\ SpillInv /\ [Next]_vars => SpillInv'
<1>. SUFFICES ASSUME TypeOK, RunInv, SpillInv, [Next]_vars PROVE SpillInv'
  OBVIOUS
<1>. USE DEF TypeOK
<1>1. CASE SinkUnreachable
  BY <1>1 DEF SpillInv, RunInv, SinkUnreachable, Goto, Stop, gShutdownRequested, Types, Step, control, locals, shared, stats, history
<1>2. CASE PushInitialFrame
  BY <1>2 DEF SpillInv, RunInv, PushInitialFrame, Goto, Stop, gShutdownRequested, Types, Step, control, locals, shared, stats, history
<1>3. CASE Join
  BY <1>3 DEF SpillInv, RunInv, Join, Goto, Stop, gShutdownRequested, Types, Step, control, locals, shared, stats, history
<1>4. CASE Signal
  BY <1>4 DEF SpillInv, RunInv, Signal, Goto, Stop, gShutdownRequested, Types, Step, control, locals, shared, stats, history
<1>5. CASE UNCHANGED vars
  BY <1>5 DEF SpillInv, RunInv, vars, Goto, Stop, gShutdownRequested, Types, Step, control, locals, shared, stats, history
<1>6. ASSUME NEW t \in Thread, Spawn(t)
      PROVE  SpillInv'
  BY <1>6 DEF SpillInv, RunInv, Spawn, Goto, Stop, gShutdownRequested, Types, Step, control, locals, shared, stats, history
<1>7. ASSUME NEW t \in Thread, LoopTest(t)
      PROVE  SpillInv'
  BY <1>7 DEF SpillInv, RunInv, LoopTest, Goto, Stop, gShutdownRequested, Types, Step, control, locals, shared, stats, history
<1>8. ASSUME NEW t \in Thread, PopFrame(t)
      PROVE  SpillInv'
  BY <1>8 DEF SpillInv, RunInv, PopFrame, Goto, Stop, gShutdownRequested, Types, Step, control, locals, shared, stats, history
<1>9. ASSUME NEW t \in Thread, EndBatch(t)
      PROVE  SpillInv'
  BY <1>9 DEF SpillInv, RunInv, EndBatch, Goto, Stop, gShutdownRequested, Types, Step, control, locals, shared, stats, history
<1>10. ASSUME NEW t \in Thread, SkipDuplicate(t)
      PROVE  SpillInv'
  BY <1>10 DEF SpillInv, RunInv, SkipDuplicate, Goto, Stop, gShutdownRequested, Types, Step, control, locals, shared, stats, history
<1>11. ASSUME NEW t \in Thread, MarkProcessing(t)
      PROVE  SpillInv'
  BY <1>11 DEF SpillInv, RunInv, MarkProcessing, Goto, Stop, gShutdownRequested, Types, Step, control, locals, shared, stats, history
<1>12. ASSUME NEW t \in Thread, Branch(t)
      PROVE  SpillInv'
  BY <1>12 DEF SpillInv, RunInv, Branch, Goto, Stop, gShutdownRequested, Types, Step, control, locals, shared, stats, history
<1>13. ASSUME NEW t \in Thread, Record(t)
      PROVE  SpillInv'
  BY <1>13 DEF SpillInv, RunInv, Record, Goto, Stop, gShutdownRequested, Types, Step, control, locals, shared, stats, history
<1>14. ASSUME NEW t \in Thread, CheckLimits(t)
      PROVE  SpillInv'
  BY <1>14 DEF SpillInv, RunInv, CheckLimits, Goto, Stop, gShutdownRequested, Types, Step, control, locals, shared, stats, history
<1>15. ASSUME NEW t \in Thread, PushChild(t)
      PROVE  SpillInv'
  BY <1>15 DEF SpillInv, RunInv, PushChild, Goto, Stop, gShutdownRequested, Types, Step, control, locals, shared, stats, history
<1>16. ASSUME NEW t \in Thread, SplitOverflow(t)
      PROVE  SpillInv'
  BY <1>16 DEF SpillInv, RunInv, SplitOverflow, Goto, Stop, gShutdownRequested, Types, Step, control, locals, shared, stats, history
<1>17. ASSUME NEW t \in Thread, NoOverflow(t)
      PROVE  SpillInv'
  BY <1>17 DEF SpillInv, RunInv, NoOverflow, Goto, Stop, gShutdownRequested, Types, Step, control, locals, shared, stats, history
<1>18. ASSUME NEW t \in Thread, PushToGlobalHeap(t)
      PROVE  SpillInv'
  BY <1>18 DEF SpillInv, RunInv, PushToGlobalHeap, Goto, Stop, gShutdownRequested, Types, Step, control, locals, shared, stats, history
<1>19. ASSUME NEW t \in Thread, NEW v \in Thread, StealFrom(t, v)
      PROVE  SpillInv'
  BY <1>19 DEF SpillInv, RunInv, StealFrom, Goto, Stop, gShutdownRequested, Types, Step, control, locals, shared, stats, history
<1>20. ASSUME NEW t \in Thread, NEW v \in Thread, StealNothing(t, v)
      PROVE  SpillInv'
  BY <1>20 DEF SpillInv, RunInv, StealNothing, Goto, Stop, gShutdownRequested, Types, Step, control, locals, shared, stats, history
<1>21. ASSUME NEW t \in Thread, PopFromGlobalHeap(t)
      PROVE  SpillInv'
  BY <1>21 DEF SpillInv, RunInv, PopFromGlobalHeap, Goto, Stop, gShutdownRequested, Types, Step, control, locals, shared, stats, history
<1>22. ASSUME NEW t \in Thread, Install(t)
      PROVE  SpillInv'
  BY <1>22 DEF SpillInv, RunInv, Install, Goto, Stop, gShutdownRequested, Types, Step, control, locals, shared, stats, history
<1>23. ASSUME NEW t \in Thread, HeapEmpty(t)
      PROVE  SpillInv'
  BY <1>23 DEF SpillInv, RunInv, HeapEmpty, Goto, Stop, gShutdownRequested, Types, Step, control, locals, shared, stats, history
<1>24. ASSUME NEW t \in Thread, BecomeIdle(t)
      PROVE  SpillInv'
  BY <1>24 DEF SpillInv, RunInv, BecomeIdle, Goto, Stop, gShutdownRequested, Types, Step, control, locals, shared, stats, history
<1>25. ASSUME NEW t \in Thread, ScanIdle(t)
      PROVE  SpillInv'
  <2>1. pc[t] = "scan" /\ UNCHANGED <<stopCause, mSpill>>
    BY <1>25 DEF ScanIdle, control, shared
  <2>2. pc'[t] \in {"scan", "declare"} /\ \A u \in Thread \ {t} : pc'[u] = pc[u]
    BY <1>25 DEF ScanIdle, Goto, Types
  <2>. QED  BY <2>1, <2>2 DEF SpillInv
<1>26. ASSUME NEW t \in Thread, ScanBusy(t)
      PROVE  SpillInv'
  BY <1>26 DEF SpillInv, RunInv, ScanBusy, Goto, Stop, gShutdownRequested, Types, Step, control, locals, shared, stats, history
<1>27. ASSUME NEW t \in Thread, Declare(t)
      PROVE  SpillInv'
  BY <1>27 DEF SpillInv, RunInv, Declare, Goto, Stop, gShutdownRequested, Types, Step, control, locals, shared, stats, history
<1>28. ASSUME NEW t \in Thread, SpillNotEmpty(t)
      PROVE  SpillInv'
  BY <1>28 DEF SpillInv, RunInv, SpillNotEmpty, Goto, Stop, gShutdownRequested, Types, Step, control, locals, shared, stats, history
<1>29. ASSUME NEW t \in Thread, Wake(t)
      PROVE  SpillInv'
  BY <1>29 DEF SpillInv, RunInv, Wake, Goto, Stop, gShutdownRequested, Types, Step, control, locals, shared, stats, history
<1>. QED
  BY <1>1, <1>2, <1>3, <1>4, <1>5, <1>6, <1>7, <1>8, <1>9, <1>10, <1>11, <1>12, <1>13, <1>14, <1>15, <1>16, <1>17, <1>18, <1>19, <1>20, <1>21, <1>22, <1>23, <1>24, <1>25, <1>26, <1>27, <1>28, <1>29
     DEF Next, Main, Worker, Returned

LEMMA AllIdleDrained ==
    ASSUME TypeOK, IdleInv, SpillInv, stopCause = "none", \A t \in Thread : idle[t]
    PROVE  Drained
<1>1. \A t \in Thread : pc[t] \in {"scan", "declare", "sleep"} /\ roadmap[t] = <<>>
  BY DEF IdleInv, SpillInv
<1>2. mSpill = <<>>
  BY <1>1 DEF SpillInv
<1>3. \A t \in Thread : hand[t] = <<>> /\ children[t] = <<>> /\ todo[t] = <<>>
  BY <1>1 DEF TypeOK, LocalsOK
<1>. QED  BY <1>1, <1>2, <1>3 DEF Drained
-----------------------------------------------------------------------------
(***************************************************************************)
(* The verdict of the scan.                                                *)
(***************************************************************************)

\* A scan that has passed over another thread knows that nothing is left, or,
\* if sleeps outlast scans, that the thread is still idle; a scan that has passed
\* over all knows that nothing is left.
DetectInv ==
    /\ stopCause = "none" => \A t \in Thread :
         /\ pc[t] = "declare" => Drained
         /\ pc[t] = "scan" => \A u \in Thread :
              u # t /\ u < scanned[t] => Drained \/ (SleepOutlastsScan /\ idle[u])
    /\ stopCause = "idle" => Drained

\* What a step does that neither takes a scan further nor ends it, nor lowers a
\* flag, nor raises the shutdown flag for idleness.
QuietScan ==
    /\ ~PushInitialFrame
    /\ stopCause' = "none" => stopCause = "none"
    /\ stopCause' = "idle" => stopCause = "idle"
    /\ \A t \in Thread : /\ idle[t] => idle'[t]
                         /\ pc'[t] = "declare" => pc[t] = "declare"
                         /\ pc'[t] = "scan" => \/ pc[t] = "scan" /\ scanned'[t] = scanned[t]
                                               \/ scanned'[t] = 0

\* Outside a scan the number of contexts passed over is zero.
ScanInv == \A t \in Thread : pc[t] # "scan" => scanned[t] = 0

LEMMA ScanStep == TypeOK /\ ScanInv /\ [Next]_vars => ScanInv'
<1>. SUFFICES ASSUME TypeOK, ScanInv, [Next]_vars PROVE ScanInv'
  OBVIOUS
<1>. USE DEF TypeOK
<1>1. CASE SinkUnreachable
  BY <1>1 DEF ScanInv, SinkUnreachable, Goto, Types, control, locals, shared, stats, history
<1>2. CASE PushInitialFrame
  BY <1>2 DEF ScanInv, PushInitialFrame, Goto, Types, control, locals, shared, stats, history
<1>3. CASE Join
  BY <1>3 DEF ScanInv, Join, Goto, Types, control, locals, shared, stats, history
<1>4. CASE Signal
  BY <1>4 DEF ScanInv, Signal, Goto, Types, control, locals, shared, stats, history
<1>5. CASE UNCHANGED vars
  BY <1>5 DEF ScanInv, vars, Goto, Types, control, locals, shared, stats, history
<1>6. ASSUME NEW t \in Thread, Spawn(t)
      PROVE  ScanInv'
  BY <1>6 DEF ScanInv, Spawn, Goto, Types, control, locals, shared, stats, history
<1>7. ASSUME NEW t \in Thread, LoopTest(t)
      PROVE  ScanInv'
  BY <1>7 DEF ScanInv, LoopTest, Goto, Types, control, locals, shared, stats, history
<1>8. ASSUME NEW t \in Thread, PopFrame(t)
      PROVE  ScanInv'
  BY <1>8 DEF ScanInv, PopFrame, Goto, Types, control, locals, shared, stats, history
<1>9. ASSUME NEW t \in Thread, EndBatch(t)
      PROVE  ScanInv'
  BY <1>9 DEF ScanInv, EndBatch, Goto, Types, control, locals, shared, stats, history
<1>10. ASSUME NEW t \in Thread, SkipDuplicate(t)
      PROVE  ScanInv'
  BY <1>10 DEF ScanInv, SkipDuplicate, Goto, Types, control, locals, shared, stats, history
<1>11. ASSUME NEW t \in Thread, MarkProcessing(t)
      PROVE  ScanInv'
  BY <1>11 DEF ScanInv, MarkProcessing, Goto, Types, control, locals, shared, stats, history
<1>12. ASSUME NEW t \in Thread, Branch(t)
      PROVE  ScanInv'
  BY <1>12 DEF ScanInv, Branch, Goto, Types, control, locals, shared, stats, history
<1>13. ASSUME NEW t \in Thread, Record(t)
      PROVE  ScanInv'
  BY <1>13 DEF ScanInv, Record, Goto, Types, control, locals, shared, stats, history
<1>14. ASSUME NEW t \in Thread, CheckLimits(t)
      PROVE  ScanInv'
  BY <1>14 DEF ScanInv, CheckLimits, Goto, Types, control, locals, shared, stats, history
<1>15. ASSUME NEW t \in Thread, PushChild(t)
      PROVE  ScanInv'
  BY <1>15 DEF ScanInv, PushChild, Goto, Types, control, locals, shared, stats, history
<1>16. ASSUME NEW t \in Thread, SplitOverflow(t)
      PROVE  ScanInv'
  BY <1>16 DEF ScanInv, SplitOverflow, Goto, Types, control, locals, shared, stats, history
<1>17. ASSUME NEW t \in Thread, NoOverflow(t)
      PROVE  ScanInv'
  BY <1>17 DEF ScanInv, NoOverflow, Goto, Types, control, locals, shared, stats, history
<1>18. ASSUME NEW t \in Thread, PushToGlobalHeap(t)
      PROVE  ScanInv'
  BY <1>18 DEF ScanInv, PushToGlobalHeap, Goto, Types, control, locals, shared, stats, history
<1>19. ASSUME NEW t \in Thread, NEW v \in Thread, StealFrom(t, v)
      PROVE  ScanInv'
  BY <1>19 DEF ScanInv, StealFrom, Goto, Types, control, locals, shared, stats, history
<1>20. ASSUME NEW t \in Thread, NEW v \in Thread, StealNothing(t, v)
      PROVE  ScanInv'
  BY <1>20 DEF ScanInv, StealNothing, Goto, Types, control, locals, shared, stats, history
<1>21. ASSUME NEW t \in Thread, PopFromGlobalHeap(t)
      PROVE  ScanInv'
  BY <1>21 DEF ScanInv, PopFromGlobalHeap, Goto, Types, control, locals, shared, stats, history
<1>22. ASSUME NEW t \in Thread, Install(t)
      PROVE  ScanInv'
  BY <1>22 DEF ScanInv, Install, Goto, Types, control, locals, shared, stats, history
<1>23. ASSUME NEW t \in Thread, HeapEmpty(t)
      PROVE  ScanInv'
  BY <1>23 DEF ScanInv, HeapEmpty, Goto, Types, control, locals, shared, stats, history
<1>24. ASSUME NEW t \in Thread, BecomeIdle(t)
      PROVE  ScanInv'
  BY <1>24 DEF ScanInv, BecomeIdle, Goto, Types, control, locals, shared, stats, history
<1>25. ASSUME NEW t \in Thread, ScanIdle(t)
      PROVE  ScanInv'
  <2>1. \/ pc' = [pc EXCEPT ![t] = "declare"] /\ scanned' = [scanned EXCEPT ![t] = 0]
        \/ /\ pc[t] = "scan" /\ pc' = pc
           /\ scanned' = [scanned EXCEPT ![t] = scanned[t] + 1]
    BY <1>25 DEF ScanIdle, Goto
  <2>2. pc \in [Thread -> Step] /\ scanned \in [Thread -> Thread]
    BY DEF Types
  <2>3. \A u \in Thread \ {t} : pc'[u] = pc[u] /\ scanned'[u] = scanned[u]
    BY <2>1, <2>2
  <2>4. pc'[t] # "scan" => scanned'[t] = 0
    BY <2>1, <2>2
  <2>. QED  BY <2>3, <2>4 DEF ScanInv
<1>26. ASSUME NEW t \in Thread, ScanBusy(t)
      PROVE  ScanInv'
  BY <1>26 DEF ScanInv, ScanBusy, Goto, Types, control, locals, shared, stats, history
<1>27. ASSUME NEW t \in Thread, Declare(t)
      PROVE  ScanInv'
  BY <1>27 DEF ScanInv, Declare, Goto, Types, control, locals, shared, stats, history
<1>28. ASSUME NEW t \in Thread, SpillNotEmpty(t)
      PROVE  ScanInv'
  BY <1>28 DEF ScanInv, SpillNotEmpty, Goto, Types, control, locals, shared, stats, history
<1>29. ASSUME NEW t \in Thread, Wake(t)
      PROVE  ScanInv'
  BY <1>29 DEF ScanInv, Wake, Goto, Types, control, locals, shared, stats, history
<1>. QED
  BY <1>1, <1>2, <1>3, <1>4, <1>5, <1>6, <1>7, <1>8, <1>9, <1>10, <1>11, <1>12, <1>13, <1>14, <1>15, <1>16, <1>17, <1>18, <1>19, <1>20, <1>21, <1>22, <1>23, <1>24, <1>25, <1>26, <1>27, <1>28, <1>29
     DEF Next, Main, Worker, Returned

LEMMA OnlyScanWakeDeclare ==
    ASSUME TypeOK, ScanInv, [Next]_vars, ~PushInitialFrame,
           \A t \in Thread : ~ScanIdle(t) /\ ~Declare(t) /\ ~Wake(t)
    PROVE  QuietScan
<1>. USE DEF TypeOK
<1>1. CASE SinkUnreachable
  BY <1>1 DEF QuietScan, ScanInv, SinkUnreachable, Goto, Stop, gShutdownRequested, Types, control, locals, shared, stats, history
<1>2. CASE PushInitialFrame
  BY <1>2
<1>3. CASE Join
  BY <1>3 DEF QuietScan, ScanInv, Join, Goto, Stop, gShutdownRequested, Types, control, locals, shared, stats, history
<1>4. CASE Signal
  BY <1>4 DEF QuietScan, ScanInv, Signal, Goto, Stop, gShutdownRequested, Types, control, locals, shared, stats, history
<1>5. CASE UNCHANGED vars
  BY <1>5 DEF QuietScan, ScanInv, vars, Goto, Stop, gShutdownRequested, Types, control, locals, shared, stats, history
<1>6. ASSUME NEW t \in Thread, Spawn(t)
      PROVE  QuietScan
  BY <1>6 DEF QuietScan, ScanInv, Spawn, Goto, Stop, gShutdownRequested, Types, control, locals, shared, stats, history
<1>7. ASSUME NEW t \in Thread, LoopTest(t)
      PROVE  QuietScan
  BY <1>7 DEF QuietScan, ScanInv, LoopTest, Goto, Stop, gShutdownRequested, Types, control, locals, shared, stats, history
<1>8. ASSUME NEW t \in Thread, PopFrame(t)
      PROVE  QuietScan
  BY <1>8 DEF QuietScan, ScanInv, PopFrame, Goto, Stop, gShutdownRequested, Types, control, locals, shared, stats, history
<1>9. ASSUME NEW t \in Thread, EndBatch(t)
      PROVE  QuietScan
  BY <1>9 DEF QuietScan, ScanInv, EndBatch, Goto, Stop, gShutdownRequested, Types, control, locals, shared, stats, history
<1>10. ASSUME NEW t \in Thread, SkipDuplicate(t)
      PROVE  QuietScan
  BY <1>10 DEF QuietScan, ScanInv, SkipDuplicate, Goto, Stop, gShutdownRequested, Types, control, locals, shared, stats, history
<1>11. ASSUME NEW t \in Thread, MarkProcessing(t)
      PROVE  QuietScan
  BY <1>11 DEF QuietScan, ScanInv, MarkProcessing, Goto, Stop, gShutdownRequested, Types, control, locals, shared, stats, history
<1>12. ASSUME NEW t \in Thread, Branch(t)
      PROVE  QuietScan
  BY <1>12 DEF QuietScan, ScanInv, Branch, Goto, Stop, gShutdownRequested, Types, control, locals, shared, stats, history
<1>13. ASSUME NEW t \in Thread, Record(t)
      PROVE  QuietScan
  BY <1>13 DEF QuietScan, ScanInv, Record, Goto, Stop, gShutdownRequested, Types, control, locals, shared, stats, history
<1>14. ASSUME NEW t \in Thread, CheckLimits(t)
      PROVE  QuietScan
  BY <1>14 DEF QuietScan, ScanInv, CheckLimits, Goto, Stop, gShutdownRequested, Types, control, locals, shared, stats, history
<1>15. ASSUME NEW t \in Thread, PushChild(t)
      PROVE  QuietScan
  BY <1>15 DEF QuietScan, ScanInv, PushChild, Goto, Stop, gShutdownRequested, Types, control, locals, shared, stats, history
<1>16. ASSUME NEW t \in Thread, SplitOverflow(t)
      PROVE  QuietScan
  BY <1>16 DEF QuietScan, ScanInv, SplitOverflow, Goto, Stop, gShutdownRequested, Types, control, locals, shared, stats, history
<1>17. ASSUME NEW t \in Thread, NoOverflow(t)
      PROVE  QuietScan
  BY <1>17 DEF QuietScan, ScanInv, NoOverflow, Goto, Stop, gShutdownRequested, Types, control, locals, shared, stats, history
<1>18. ASSUME NEW t \in Thread, PushToGlobalHeap(t)
      PROVE  QuietScan
  BY <1>18 DEF QuietScan, ScanInv, PushToGlobalHeap, Goto, Stop, gShutdownRequested, Types, control, locals, shared, stats, history
<1>19. ASSUME NEW t \in Thread, NEW v \in Thread, StealFrom(t, v)
      PROVE  QuietScan
  BY <1>19 DEF QuietScan, ScanInv, StealFrom, Goto, Stop, gShutdownRequested, Types, control, locals, shared, stats, history
<1>20. ASSUME NEW t \in Thread, NEW v \in Thread, StealNothing(t, v)
      PROVE  QuietScan
  BY <1>20 DEF QuietScan, ScanInv, StealNothing, Goto, Stop, gShutdownRequested, Types, control, locals, shared, stats, history
<1>21. ASSUME NEW t \in Thread, PopFromGlobalHeap(t)
      PROVE  QuietScan
  BY <1>21 DEF QuietScan, ScanInv, PopFromGlobalHeap, Goto, Stop, gShutdownRequested, Types, control, locals, shared, stats, history
<1>22. ASSUME NEW t \in Thread, Install(t)
      PROVE  QuietScan
  BY <1>22 DEF QuietScan, ScanInv, Install, Goto, Stop, gShutdownRequested, Types, control, locals, shared, stats, history
<1>23. ASSUME NEW t \in Thread, HeapEmpty(t)
      PROVE  QuietScan
  BY <1>23 DEF QuietScan, ScanInv, HeapEmpty, Goto, Stop, gShutdownRequested, Types, control, locals, shared, stats, history
<1>24. ASSUME NEW t \in Thread, BecomeIdle(t)
      PROVE  QuietScan
  BY <1>24 DEF QuietScan, ScanInv, BecomeIdle, Goto, Stop, gShutdownRequested, Types, control, locals, shared, stats, history
<1>25. ASSUME NEW t \in Thread, ScanIdle(t)
      PROVE  QuietScan
  BY <1>25
<1>26. ASSUME NEW t \in Thread, ScanBusy(t)
      PROVE  QuietScan
  BY <1>26 DEF QuietScan, ScanInv, ScanBusy, Goto, Stop, gShutdownRequested, Types, control, locals, shared, stats, history
<1>27. ASSUME NEW t \in Thread, Declare(t)
      PROVE  QuietScan
  BY <1>27
<1>28. ASSUME NEW t \in Thread, SpillNotEmpty(t)
      PROVE  QuietScan
  BY <1>28 DEF QuietScan, ScanInv, SpillNotEmpty, Goto, Stop, gShutdownRequested, Types, control, locals, shared, stats, history
<1>29. ASSUME NEW t \in Thread, Wake(t)
      PROVE  QuietScan
  BY <1>29
<1>. QED
  BY <1>1, <1>2, <1>3, <1>4, <1>5, <1>6, <1>7, <1>8, <1>9, <1>10, <1>11, <1>12, <1>13, <1>14, <1>15, <1>16, <1>17, <1>18, <1>19, <1>20, <1>21, <1>22, <1>23, <1>24, <1>25, <1>26, <1>27, <1>28, <1>29
     DEF Next, Main, Worker, Returned

LEMMA DetectStep ==
    ASSUME TrustworthyScan
    PROVE  TypeOK /\ RunInv /\ IdleInv /\ SpillInv /\ ScanInv /\ DetectInv /\ [Next]_vars
             => DetectInv'
<1>. SUFFICES ASSUME TypeOK, RunInv, IdleInv, SpillInv, ScanInv, DetectInv, [Next]_vars
              PROVE  DetectInv'
  OBVIOUS
<1>1. CASE PushInitialFrame
  BY <1>1 DEF PushInitialFrame, DetectInv, RunInv
<1>2. ~PushInitialFrame => (Drained => Drained')
  BY DrainedStep
<1>3. ASSUME NEW t \in Thread, ScanIdle(t)
      PROVE  DetectInv'
  <2>1. /\ pc[t] = "scan" /\ idle[scanned[t]] /\ idle[t] /\ scanned[t] \in Thread
        /\ UNCHANGED <<idle, stopCause>>
    BY <1>3 DEF ScanIdle, IdleInv, TypeOK, Types, control, shared
  <2>2. Drained => Drained'
    BY <1>2, <1>3 DEF ScanIdle, PushInitialFrame, RunInv, Goto, DrainedStep
  <2>3. \A u \in Thread \ {t} : pc'[u] = pc[u] /\ scanned'[u] = scanned[u]
    BY <1>3 DEF ScanIdle, Goto, TypeOK, Types
  <2>4. CASE scanned[t] = NumThreads - 1
    <3>1. pc'[t] = "declare"
      BY <1>3, <2>4 DEF ScanIdle, Goto, TypeOK, Types
    <3>2. stopCause = "none" => Drained
      <4>. SUFFICES ASSUME stopCause = "none", ~Drained
                    PROVE  FALSE
        OBVIOUS
      <4>1. \A u \in Thread : u < scanned[t] \/ u = scanned[t]
        BY <2>4, ThreadsAssumption DEF Thread
      <4>2. \A u \in Thread : idle[u]
        BY <2>1, <4>1 DEF DetectInv
      <4>. QED  BY <4>2, AllIdleDrained
    <3>. QED  BY <2>1, <2>2, <2>3, <3>1, <3>2 DEF DetectInv
  <2>5. CASE scanned[t] # NumThreads - 1
    <3>1. pc'[t] = "scan" /\ scanned'[t] = scanned[t] + 1
      BY <1>3, <2>1, <2>5 DEF ScanIdle, Goto, TypeOK, Types
    <3>2. ASSUME stopCause = "none", NEW u \in Thread, u # t, u < scanned'[t]
          PROVE  Drained \/ (SleepOutlastsScan /\ idle[u])
      <4>1. u < scanned[t] \/ u = scanned[t]
        BY <2>1, <3>1, <3>2, ThreadsAssumption DEF Thread
      <4>2. CASE u < scanned[t]
        BY <2>1, <3>2, <4>2 DEF DetectInv
      <4>3. CASE u = scanned[t] /\ SleepOutlastsScan
        BY <2>1, <4>3
      <4>4. CASE u = scanned[t] /\ NumThreads <= 2
        <5>1. \A w \in Thread : w = t \/ w = u
          BY <3>2, <4>4, ThreadsAssumption DEF Thread
        <5>. QED  BY <2>1, <3>2, <4>4, <5>1, AllIdleDrained
      <4>. QED  BY <4>1, <4>2, <4>3, <4>4 DEF TrustworthyScan
    <3>. QED  BY <2>1, <2>2, <2>3, <3>1, <3>2 DEF DetectInv
  <2>. QED  BY <2>4, <2>5
<1>4. ASSUME NEW t \in Thread, Declare(t)
      PROVE  DetectInv'
  <2>1. /\ pc[t] = "declare" /\ stopCause' # "none"
        /\ stopCause' = "idle" => stopCause = "none" \/ stopCause = "idle"
    BY <1>4 DEF Declare, Goto, Stop, gShutdownRequested
  <2>2. Drained => Drained'
    BY <1>2, <1>4 DEF Declare, PushInitialFrame, RunInv, Goto
  <2>. QED  BY <2>1, <2>2 DEF DetectInv
<1>5. ASSUME NEW t \in Thread, Wake(t)
      PROVE  DetectInv'
  <2>1. /\ \A u \in Thread : pc'[u] \in {"scan", "declare"} => pc'[u] = pc[u] /\ u # t
        /\ UNCHANGED <<stopCause, scanned>>
        /\ \A u \in Thread \ {t} : idle'[u] = idle[u]
    BY <1>5 DEF Wake, Goto, TypeOK, Types, control, locals
  <2>2. Drained => Drained'
    BY <1>2, <1>5 DEF Wake, PushInitialFrame, RunInv, Goto
  <2>3. ASSUME SleepOutlastsScan, NEW u \in Thread, pc[u] = "scan", t < scanned[u]
        PROVE  FALSE
    BY <1>5, <2>3 DEF Wake, HasReadIdle
  <2>4. ASSUME SleepOutlastsScan, NEW u \in Thread, pc'[u] = "scan",
               NEW w \in Thread, w < scanned'[u], idle[w]
        PROVE  idle'[w]
    BY <2>1, <2>3, <2>4
  <2>. QED  BY <2>1, <2>2, <2>4 DEF DetectInv
<1>6. CASE ~PushInitialFrame /\ \A t \in Thread : ~ScanIdle(t) /\ ~Declare(t) /\ ~Wake(t)
  <2>1. QuietScan
    BY <1>6, OnlyScanWakeDeclare
  <2>2. \A t, u \in Thread : u < scanned'[t] => scanned'[t] # 0
    BY ThreadsAssumption DEF Thread
  <2>. QED  BY <1>2, <1>6, <2>1, <2>2 DEF QuietScan, DetectInv
<1>. QED  BY <1>1, <1>3, <1>4, <1>5, <1>6

LEMMA DetectInvariant ==
    ASSUME TrustworthyScan
    PROVE  Spec => [](TypeOK /\ RunInv /\ LossInv /\ OnceInv /\ DetectInv)
<1>1. Init => IdleInv /\ SpillInv /\ ScanInv /\ DetectInv
  BY DEF Init, IdleInv, SpillInv, ScanInv, DetectInv
<1>2. Spec => [](TypeOK /\ RunInv /\ IdleInv /\ SpillInv /\ ScanInv /\ DetectInv)
  BY <1>1, RunIdleInvariant, SpillStep, ScanStep, DetectStep, PTL DEF Spec
<1>. QED  BY <1>2, OnceInvariant, LossInvariant, PTL

(* With one or two threads, or with sleeps that outlast scans, the threads    *)
(* that find each other idle are right: the condition of                      *)
(* docs/APDFS_SPECIFICATION.md, 8.3, holds when they declare it.              *)
THEOREM TerminationDetectedCorrect ==
    ASSUME TrustworthyScan
    PROVE  Spec => []TerminationDetected
<1>1. DetectInv => TerminationDetected
  BY DrainedHoldsNothing DEF DetectInv, TerminationDetected
<1>. QED  BY <1>1, DetectInvariant, PTL

(* Under the same condition a run that ends by itself has examined every cut  *)
(* that it has reached: since no frame is lost and none is left, all branches *)
(* have their fingerprints in the table.                                      *)
THEOREM CompleteOnReturnCorrect ==
    ASSUME TrustworthyScan
    PROVE  Spec => []CompleteOnReturn
<1>1. RunInv /\ LossInv /\ DetectInv => CompleteOnReturn
  <2>. SUFFICES ASSUME RunInv, LossInv, DetectInv, main = "returned", stopCause = "idle"
                PROVE  /\ Seen(Root)
                       /\ \A c \in examined : \A d \in ToSet(Candidates[c]) : Seen(d)
    BY DEF CompleteOnReturn
  <2>1. Pending = {}
    BY DrainedHoldsNothing DEF DetectInv
  <2>2. Started
    BY ThreadsAssumption DEF RunInv, Started, Thread
  <2>. QED  BY <2>1, <2>2 DEF LossInv, NoFrameLost, Accounted
<1>. QED  BY <1>1, DetectInvariant, PTL
-----------------------------------------------------------------------------
(***************************************************************************)
(* The solver implements the enumeration.                                  *)
(***************************************************************************)

\* The initial cut and the branches of the cuts examined.
ReachedCuts == {Root} \cup UNION {ToSet(Candidates[c]) : c \in examined}

\* What thread t may work with: its branches become reached when its frame has
\* been examined.
Known(t) == ReachedCuts \cup (IF Examining(t) THEN ToSet(Candidates[frame[t]]) ELSE {})

\* No frame carries a cut that is not reached.
ReachedInv ==
    /\ ToSet(mSpill) \subseteq ReachedCuts
    /\ \A t \in Thread :
         /\ ToSet(roadmap[t]) \subseteq ReachedCuts
         /\ ToSet(hand[t]) \subseteq ReachedCuts
         /\ frame[t] # NoFrame => frame[t] \in ReachedCuts
         /\ ToSet(children[t]) \subseteq Known(t)
         /\ ToSet(todo[t]) \subseteq Known(t)

\* A step that leaves the examinations alone leaves what is known alone.
LEMMA KnownQuiet ==
    ASSUME QuietExamination
    PROVE  ReachedCuts' = ReachedCuts /\ \A t \in Thread : Known(t)' = Known(t)
BY DEF QuietExamination, ReachedCuts, Known

\* A step that moves no cut: a thread may only let go of the frame in hand.
LEMMA ReachedStays ==
    ASSUME ReachedInv, QuietExamination,
           UNCHANGED <<mSpill, roadmap, hand, children, todo>>,
           \A u \in Thread : frame'[u] \in {frame[u], NoFrame}
    PROVE  ReachedInv'
BY KnownQuiet DEF ReachedInv

\* A step that moves cuts between the containers of t and the spill buffer.
LEMMA ReachedMoves ==
    ASSUME ReachedInv, QuietExamination, NEW t \in Thread,
           \A u \in Thread \ {t} :
             /\ roadmap'[u] = roadmap[u] /\ hand'[u] = hand[u] /\ frame'[u] = frame[u]
             /\ children'[u] = children[u] /\ todo'[u] = todo[u],
           ToSet(mSpill') \subseteq ReachedCuts,
           ToSet(roadmap'[t]) \subseteq ReachedCuts,
           ToSet(hand'[t]) \subseteq ReachedCuts,
           frame'[t] # NoFrame => frame'[t] \in ReachedCuts,
           ToSet(children'[t]) \subseteq Known(t),
           ToSet(todo'[t]) \subseteq Known(t)
    PROVE  ReachedInv'
BY KnownQuiet DEF ReachedInv

LEMMA ReachedStep == TypeOK /\ ReachedInv /\ [Next]_vars => ReachedInv'
<1>. SUFFICES ASSUME TypeOK, ReachedInv, [Next]_vars PROVE ReachedInv'
  OBVIOUS
<1>a. Types /\ \A u \in Thread : LocalsOK(u)
  BY DEF TypeOK
<1>b. ToSet(<<>>) = {}
  BY DEF ToSet
<1>1. CASE SinkUnreachable
  <2>1. QuietExamination
    BY <1>1, <1>a DEF QuietExamination, Examining, SinkUnreachable, Goto, Types, control, locals, shared, stats, history
  <2>2. /\ UNCHANGED <<mSpill, roadmap, hand, children, todo>>
        /\ \A u \in Thread : frame'[u] \in {frame[u], NoFrame}
    BY <1>1, <1>a DEF SinkUnreachable, Types, control, locals, shared
  <2>. QED  BY <2>1, <2>2, ReachedStays
<1>2. CASE PushInitialFrame
  <2>1. ToSet(Append(roadmap[0], Root)) = ToSet(roadmap[0]) \cup {Root} /\ 0 \in Thread
    <3>1. 0 \in Thread /\ roadmap[0] \in Seq(Cut)
      BY <1>a, ThreadsAssumption DEF Types, Thread
    <3>. QED  BY <3>1, CutsAssumption, AppendElement
  <2>q. QuietExamination
    BY <1>2, <1>a DEF QuietExamination, Examining, PushInitialFrame, Goto, Types, control, locals, shared, stats, history
  <2>2. /\ roadmap'[0] = Append(roadmap[0], Root)
        /\ \A u \in Thread \ {0} : roadmap'[u] = roadmap[u]
        /\ UNCHANGED <<mSpill, hand, frame, children, todo>>
    BY <1>2, <1>a, <2>1 DEF PushInitialFrame, Types, locals
  <2>3. ToSet(roadmap'[0]) \subseteq ReachedCuts
    BY <2>1, <2>2 DEF ReachedInv, ReachedCuts
  <2>. QED  BY <2>1, <2>2, <2>3, <2>q, ReachedMoves DEF ReachedInv
<1>3. CASE Join
  <2>1. QuietExamination
    BY <1>3, <1>a DEF QuietExamination, Examining, Join, Goto, Types, control, locals, shared, stats, history
  <2>2. /\ UNCHANGED <<mSpill, roadmap, hand, children, todo>>
        /\ \A u \in Thread : frame'[u] \in {frame[u], NoFrame}
    BY <1>3, <1>a DEF Join, Types, control, locals, shared
  <2>. QED  BY <2>1, <2>2, ReachedStays
<1>4. CASE Signal
  <2>1. QuietExamination
    BY <1>4, <1>a DEF QuietExamination, Examining, Signal, Goto, Types, control, locals, shared, stats, history
  <2>2. /\ UNCHANGED <<mSpill, roadmap, hand, children, todo>>
        /\ \A u \in Thread : frame'[u] \in {frame[u], NoFrame}
    BY <1>4, <1>a DEF Signal, Types, control, locals, shared
  <2>. QED  BY <2>1, <2>2, ReachedStays
<1>5. CASE UNCHANGED vars
  <2>1. QuietExamination
    BY <1>5, <1>a DEF QuietExamination, Examining, vars, Goto, Types, control, locals, shared, stats, history
  <2>2. /\ UNCHANGED <<mSpill, roadmap, hand, children, todo>>
        /\ \A u \in Thread : frame'[u] \in {frame[u], NoFrame}
    BY <1>5, <1>a DEF vars, Types, control, locals, shared
  <2>. QED  BY <2>1, <2>2, ReachedStays
<1>6. ASSUME NEW t \in Thread, Spawn(t)
      PROVE  ReachedInv'
  <2>1. QuietExamination
    BY <1>6, <1>a DEF QuietExamination, Examining, Spawn, Goto, Types, control, locals, shared, stats, history
  <2>2. /\ UNCHANGED <<mSpill, roadmap, hand, children, todo>>
        /\ \A u \in Thread : frame'[u] \in {frame[u], NoFrame}
    BY <1>6, <1>a DEF Spawn, Types, control, locals, shared
  <2>. QED  BY <2>1, <2>2, ReachedStays
<1>7. ASSUME NEW t \in Thread, LoopTest(t)
      PROVE  ReachedInv'
  <2>1. QuietExamination
    BY <1>7, <1>a DEF QuietExamination, Examining, LoopTest, Goto, Types, control, locals, shared, stats, history
  <2>2. /\ UNCHANGED <<mSpill, roadmap, hand, children, todo>>
        /\ \A u \in Thread : frame'[u] \in {frame[u], NoFrame}
    BY <1>7, <1>a DEF LoopTest, Types, control, locals, shared
  <2>. QED  BY <2>1, <2>2, ReachedStays
<1>8. ASSUME NEW t \in Thread, PopFrame(t)
      PROVE  ReachedInv'
  <2>1. ToSet(roadmap[t]) = ToSet(Front(roadmap[t])) \cup {Last(roadmap[t])}
    BY <1>8, <1>a, FrontLast DEF PopFrame, Types
  <2>2. children[t] = <<>> /\ todo[t] = <<>>
    BY <1>8, <1>a DEF PopFrame, Goto, LocalsOK
  <2>q. QuietExamination
    BY <1>8, <1>a DEF QuietExamination, Examining, PopFrame, Goto, Types, control, locals, shared, stats, history
  <2>3. /\ roadmap'[t] = Front(roadmap[t]) /\ frame'[t] = Last(roadmap[t])
        /\ \A u \in Thread \ {t} : roadmap'[u] = roadmap[u] /\ frame'[u] = frame[u]
        /\ UNCHANGED <<mSpill, hand, children, todo>>
    BY <1>8, <1>a DEF PopFrame, Types
  <2>4. ToSet(roadmap'[t]) \subseteq ReachedCuts /\ frame'[t] \in ReachedCuts
    BY <2>1, <2>3 DEF ReachedInv
  <2>. QED  BY <2>3, <2>4, <2>q, ReachedMoves DEF ReachedInv
<1>9. ASSUME NEW t \in Thread, EndBatch(t)
      PROVE  ReachedInv'
  <2>1. QuietExamination
    BY <1>9, <1>a DEF QuietExamination, Examining, EndBatch, Goto, Types, control, locals, shared, stats, history
  <2>2. /\ UNCHANGED <<mSpill, roadmap, hand, children, todo>>
        /\ \A u \in Thread : frame'[u] \in {frame[u], NoFrame}
    BY <1>9, <1>a DEF EndBatch, Types, control, locals, shared
  <2>. QED  BY <2>1, <2>2, ReachedStays
<1>10. ASSUME NEW t \in Thread, SkipDuplicate(t)
      PROVE  ReachedInv'
  <2>1. QuietExamination
    BY <1>10, <1>a DEF QuietExamination, Examining, SkipDuplicate, Goto, Types, control, locals, shared, stats, history
  <2>2. /\ UNCHANGED <<mSpill, roadmap, hand, children, todo>>
        /\ \A u \in Thread : frame'[u] \in {frame[u], NoFrame}
    BY <1>10, <1>a DEF SkipDuplicate, Types, control, locals, shared
  <2>. QED  BY <2>1, <2>2, ReachedStays
<1>11. ASSUME NEW t \in Thread, MarkProcessing(t)
      PROVE  ReachedInv'
  <2>1. children[t] = <<>>
    BY <1>11, <1>a DEF MarkProcessing, Goto, LocalsOK
  <2>. QED
    BY <1>11, <1>a, <1>b, <2>1 DEF ReachedInv, Known, ReachedCuts, Examining, LocalsOK, MarkProcessing, Goto, Types, control, locals, shared, stats, history
<1>12. ASSUME NEW t \in Thread, Branch(t)
      PROVE  ReachedInv'
  <2>1. todo[t] \in Seq(Cut) /\ todo[t] # <<>> /\ children[t] \in Seq(Cut)
    BY <1>12, <1>a DEF Branch, Types
  <2>2. Head(todo[t]) \in Cut /\ ToSet(todo[t]) = {Head(todo[t])} \cup ToSet(Tail(todo[t]))
    BY <1>12, <1>a, <2>1, HeadTail
  <2>3. ToSet(Append(children[t], Head(todo[t]))) = ToSet(children[t]) \cup {Head(todo[t])}
    BY <1>12, <1>a, <2>1, <2>2, AppendElement
  <2>4. ToSet(children'[t]) \subseteq ToSet(children[t]) \cup {Head(todo[t])} /\ ToSet(todo'[t]) = ToSet(Tail(todo[t]))
    BY <1>12, <1>a, <2>3 DEF Branch, Types
  <2>q. QuietExamination
    BY <1>12, <1>a DEF QuietExamination, Examining, Branch, Goto, Types, control, locals, shared, stats, history
  <2>5. /\ \A u \in Thread \ {t} : children'[u] = children[u] /\ todo'[u] = todo[u]
        /\ UNCHANGED <<mSpill, roadmap, hand, frame>>
    BY <1>12, <1>a DEF Branch, Types, shared
  <2>6. ToSet(children'[t]) \subseteq Known(t) /\ ToSet(todo'[t]) \subseteq Known(t)
    BY <2>2, <2>4 DEF ReachedInv
  <2>. QED  BY <2>5, <2>6, <2>q, ReachedMoves DEF ReachedInv
<1>13. ASSUME NEW t \in Thread, Record(t)
      PROVE  ReachedInv'
  <2>1. /\ Examining(t) /\ frame[t] \in Cut
        /\ examined' = examined \cup {frame[t]}
        /\ UNCHANGED <<mSpill, roadmap, hand, frame, children, todo>>
        /\ \A u \in Thread \ {t} : Examining(u)' <=> Examining(u)
    BY <1>13, <1>a DEF Record, Goto, Examining, Types, LocalsOK, locals, shared
  <2>2. /\ ReachedCuts \subseteq ReachedCuts'
        /\ ToSet(Candidates[frame[t]]) \subseteq ReachedCuts'
    BY <2>1 DEF ReachedCuts
  <2>3. \A u \in Thread : Known(u) \subseteq Known(u)'
    BY <2>1, <2>2 DEF Known
  <2>. QED  BY <2>1, <2>2, <2>3 DEF ReachedInv
<1>14. ASSUME NEW t \in Thread, CheckLimits(t)
      PROVE  ReachedInv'
  <2>1. QuietExamination
    BY <1>14, <1>a DEF QuietExamination, Examining, CheckLimits, Goto, Types, control, locals, shared, stats, history
  <2>2. /\ UNCHANGED <<mSpill, roadmap, hand, children, todo>>
        /\ \A u \in Thread : frame'[u] \in {frame[u], NoFrame}
    BY <1>14, <1>a DEF CheckLimits, Types, control, locals, shared
  <2>. QED  BY <2>1, <2>2, ReachedStays
<1>15. ASSUME NEW t \in Thread, PushChild(t)
      PROVE  ReachedInv'
  <2>1. children[t] \in Seq(Cut) /\ children[t] # <<>> /\ roadmap[t] \in Seq(Cut)
    BY <1>15, <1>a DEF PushChild, Types
  <2>2. Last(children[t]) \in Cut /\ ToSet(children[t]) = ToSet(Front(children[t])) \cup {Last(children[t])}
    BY <2>1, FrontLast
  <2>3. ToSet(Append(roadmap[t], Last(children[t]))) = ToSet(roadmap[t]) \cup {Last(children[t])}
    BY <2>1, <2>2, AppendElement
  <2>4. /\ ToSet(roadmap'[t]) \subseteq ToSet(roadmap[t]) \cup {Last(children[t])}
        /\ ToSet(children'[t]) \subseteq ToSet(children[t])
        /\ \A u \in Thread \ {t} : roadmap'[u] = roadmap[u] /\ children'[u] = children[u]
        /\ UNCHANGED <<mSpill, hand, frame, todo>>
    BY <1>15, <1>a, <2>2, <2>3 DEF PushChild, Types
  <2>5. Last(children[t]) \in ReachedCuts
    BY <1>15, <2>2 DEF ReachedInv, Known, Examining, PushChild
  <2>6. QuietExamination
    BY <1>15, <1>a DEF QuietExamination, Examining, PushChild, Goto, Types, control, locals, shared, stats, history
  <2>. QED  BY <2>4, <2>5, <2>6, KnownQuiet DEF ReachedInv
<1>16. ASSUME NEW t \in Thread, SplitOverflow(t)
      PROVE  ReachedInv'
  <2>1. ToSet(roadmap[t]) = ToSet(Lower(roadmap[t])) \cup ToSet(Upper(roadmap[t]))
    BY <1>16, <1>a, HalvesElements DEF Types
  <2>q. QuietExamination
    BY <1>16, <1>a DEF QuietExamination, Examining, SplitOverflow, Goto, Types, control, locals, shared, stats, history
  <2>2. /\ roadmap'[t] = Upper(roadmap[t]) /\ hand'[t] = Lower(roadmap[t])
        /\ \A u \in Thread \ {t} : roadmap'[u] = roadmap[u] /\ hand'[u] = hand[u]
        /\ UNCHANGED <<mSpill, frame, children, todo>>
    BY <1>16, <1>a DEF SplitOverflow, Types
  <2>3. ToSet(roadmap'[t]) \subseteq ReachedCuts /\ ToSet(hand'[t]) \subseteq ReachedCuts
    BY <2>1, <2>2 DEF ReachedInv
  <2>. QED  BY <2>2, <2>3, <2>q, ReachedMoves DEF ReachedInv
<1>17. ASSUME NEW t \in Thread, NoOverflow(t)
      PROVE  ReachedInv'
  <2>1. QuietExamination
    BY <1>17, <1>a DEF QuietExamination, Examining, NoOverflow, Goto, Types, control, locals, shared, stats, history
  <2>2. /\ UNCHANGED <<mSpill, roadmap, hand, children, todo>>
        /\ \A u \in Thread : frame'[u] \in {frame[u], NoFrame}
    BY <1>17, <1>a DEF NoOverflow, Types, control, locals, shared
  <2>. QED  BY <2>1, <2>2, ReachedStays
<1>18. ASSUME NEW t \in Thread, PushToGlobalHeap(t)
      PROVE  ReachedInv'
  <2>1. ToSet(mSpill') = ToSet(mSpill) \cup ToSet(hand[t])
    BY <1>18, <1>a, ConcatElements DEF PushToGlobalHeap, Types
  <2>q. QuietExamination
    BY <1>18, <1>a DEF QuietExamination, Examining, PushToGlobalHeap, Goto, Types, control, locals, shared, stats, history
  <2>2. /\ hand'[t] = <<>>
        /\ \A u \in Thread \ {t} : hand'[u] = hand[u]
        /\ UNCHANGED <<roadmap, frame, children, todo>>
    BY <1>18, <1>a DEF PushToGlobalHeap, Types
  <2>3. ToSet(mSpill') \subseteq ReachedCuts /\ ToSet(hand'[t]) \subseteq ReachedCuts
    BY <1>b, <2>1, <2>2 DEF ReachedInv
  <2>. QED  BY <2>2, <2>3, <2>q, ReachedMoves DEF ReachedInv
<1>19. ASSUME NEW t \in Thread, NEW v \in Thread, StealFrom(t, v)
      PROVE  ReachedInv'
  <2>1. ToSet(roadmap[v]) = ToSet(Lower(roadmap[v])) \cup ToSet(Upper(roadmap[v]))
    BY <1>19, <1>a, HalvesElements DEF Types
  <2>q. QuietExamination
    BY <1>19, <1>a DEF QuietExamination, Examining, StealFrom, Goto, Types, control, locals, shared, stats, history
  <2>2. /\ v # t /\ roadmap'[v] = Upper(roadmap[v]) /\ hand'[t] = Lower(roadmap[v])
        /\ \A u \in Thread \ {v} : roadmap'[u] = roadmap[u]
        /\ \A u \in Thread \ {t} : hand'[u] = hand[u]
        /\ UNCHANGED <<mSpill, frame, children, todo>>
    BY <1>19, <1>a DEF StealFrom, Types
  <2>3. ToSet(roadmap'[v]) \subseteq ReachedCuts /\ ToSet(hand'[t]) \subseteq ReachedCuts
    BY <2>1, <2>2 DEF ReachedInv
  <2>4. \A u \in Thread : ToSet(roadmap'[u]) \subseteq ReachedCuts /\ ToSet(hand'[u]) \subseteq ReachedCuts
    BY <2>2, <2>3 DEF ReachedInv
  <2>. QED  BY <2>2, <2>4, <2>q, KnownQuiet DEF ReachedInv
<1>20. ASSUME NEW t \in Thread, NEW v \in Thread, StealNothing(t, v)
      PROVE  ReachedInv'
  <2>1. QuietExamination
    BY <1>20, <1>a DEF QuietExamination, Examining, StealNothing, Goto, Types, control, locals, shared, stats, history
  <2>2. /\ UNCHANGED <<mSpill, roadmap, hand, children, todo>>
        /\ \A u \in Thread : frame'[u] \in {frame[u], NoFrame}
    BY <1>20, <1>a DEF StealNothing, Types, control, locals, shared
  <2>. QED  BY <2>1, <2>2, ReachedStays
<1>21. ASSUME NEW t \in Thread, PopFromGlobalHeap(t)
      PROVE  ReachedInv'
  <2>1. ToSet(mSpill) = ToSet(SpillTaken) \cup ToSet(SpillKept)
    BY <1>21, <1>a, SpillElements DEF Types
  <2>q. QuietExamination
    BY <1>21, <1>a DEF QuietExamination, Examining, PopFromGlobalHeap, Goto, Types, control, locals, shared, stats, history
  <2>2. /\ mSpill' = SpillKept /\ hand'[t] = SpillTaken
        /\ \A u \in Thread \ {t} : hand'[u] = hand[u]
        /\ UNCHANGED <<roadmap, frame, children, todo>>
    BY <1>21, <1>a DEF PopFromGlobalHeap, Types
  <2>3. ToSet(mSpill') \subseteq ReachedCuts /\ ToSet(hand'[t]) \subseteq ReachedCuts
    BY <2>1, <2>2 DEF ReachedInv
  <2>. QED  BY <2>2, <2>3, <2>q, ReachedMoves DEF ReachedInv
<1>22. ASSUME NEW t \in Thread, Install(t)
      PROVE  ReachedInv'
  <2>1. ToSet(roadmap[t] \o hand[t]) = ToSet(roadmap[t]) \cup ToSet(hand[t])
    BY <1>22, <1>a, ConcatElements DEF Types
  <2>q. QuietExamination
    BY <1>22, <1>a DEF QuietExamination, Examining, Install, Goto, Types, control, locals, shared, stats, history
  <2>2. /\ roadmap'[t] = roadmap[t] \o hand[t] /\ hand'[t] = <<>>
        /\ \A u \in Thread \ {t} : roadmap'[u] = roadmap[u] /\ hand'[u] = hand[u]
        /\ UNCHANGED <<mSpill, frame, children, todo>>
    BY <1>22, <1>a DEF Install, Types
  <2>3. ToSet(roadmap'[t]) \subseteq ReachedCuts /\ ToSet(hand'[t]) \subseteq ReachedCuts
    BY <1>b, <2>1, <2>2 DEF ReachedInv
  <2>. QED  BY <2>2, <2>3, <2>q, ReachedMoves DEF ReachedInv
<1>23. ASSUME NEW t \in Thread, HeapEmpty(t)
      PROVE  ReachedInv'
  <2>1. QuietExamination
    BY <1>23, <1>a DEF QuietExamination, Examining, HeapEmpty, Goto, Types, control, locals, shared, stats, history
  <2>2. /\ UNCHANGED <<mSpill, roadmap, hand, children, todo>>
        /\ \A u \in Thread : frame'[u] \in {frame[u], NoFrame}
    BY <1>23, <1>a DEF HeapEmpty, Types, control, locals, shared
  <2>. QED  BY <2>1, <2>2, ReachedStays
<1>24. ASSUME NEW t \in Thread, BecomeIdle(t)
      PROVE  ReachedInv'
  <2>1. QuietExamination
    BY <1>24, <1>a DEF QuietExamination, Examining, BecomeIdle, Goto, Types, control, locals, shared, stats, history
  <2>2. /\ UNCHANGED <<mSpill, roadmap, hand, children, todo>>
        /\ \A u \in Thread : frame'[u] \in {frame[u], NoFrame}
    BY <1>24, <1>a DEF BecomeIdle, Types, control, locals, shared
  <2>. QED  BY <2>1, <2>2, ReachedStays
<1>25. ASSUME NEW t \in Thread, ScanIdle(t)
      PROVE  ReachedInv'
  <2>1. QuietExamination
    BY <1>25, <1>a DEF QuietExamination, Examining, ScanIdle, Goto, Types, control, locals, shared, stats, history
  <2>2. /\ UNCHANGED <<mSpill, roadmap, hand, children, todo>>
        /\ \A u \in Thread : frame'[u] \in {frame[u], NoFrame}
    BY <1>25, <1>a DEF ScanIdle, Types, control, locals, shared
  <2>. QED  BY <2>1, <2>2, ReachedStays
<1>26. ASSUME NEW t \in Thread, ScanBusy(t)
      PROVE  ReachedInv'
  <2>1. QuietExamination
    BY <1>26, <1>a DEF QuietExamination, Examining, ScanBusy, Goto, Types, control, locals, shared, stats, history
  <2>2. /\ UNCHANGED <<mSpill, roadmap, hand, children, todo>>
        /\ \A u \in Thread : frame'[u] \in {frame[u], NoFrame}
    BY <1>26, <1>a DEF ScanBusy, Types, control, locals, shared
  <2>. QED  BY <2>1, <2>2, ReachedStays
<1>27. ASSUME NEW t \in Thread, Declare(t)
      PROVE  ReachedInv'
  <2>1. QuietExamination
    BY <1>27, <1>a DEF QuietExamination, Examining, Declare, Goto, Types, control, locals, shared, stats, history
  <2>2. /\ UNCHANGED <<mSpill, roadmap, hand, children, todo>>
        /\ \A u \in Thread : frame'[u] \in {frame[u], NoFrame}
    BY <1>27, <1>a DEF Declare, Types, control, locals, shared
  <2>. QED  BY <2>1, <2>2, ReachedStays
<1>28. ASSUME NEW t \in Thread, SpillNotEmpty(t)
      PROVE  ReachedInv'
  <2>1. QuietExamination
    BY <1>28, <1>a DEF QuietExamination, Examining, SpillNotEmpty, Goto, Types, control, locals, shared, stats, history
  <2>2. /\ UNCHANGED <<mSpill, roadmap, hand, children, todo>>
        /\ \A u \in Thread : frame'[u] \in {frame[u], NoFrame}
    BY <1>28, <1>a DEF SpillNotEmpty, Types, control, locals, shared
  <2>. QED  BY <2>1, <2>2, ReachedStays
<1>29. ASSUME NEW t \in Thread, Wake(t)
      PROVE  ReachedInv'
  <2>1. QuietExamination
    BY <1>29, <1>a DEF QuietExamination, Examining, Wake, Goto, Types, control, locals, shared, stats, history
  <2>2. /\ UNCHANGED <<mSpill, roadmap, hand, children, todo>>
        /\ \A u \in Thread : frame'[u] \in {frame[u], NoFrame}
    BY <1>29, <1>a DEF Wake, Types, control, locals, shared
  <2>. QED  BY <2>1, <2>2, ReachedStays
<1>. QED
  BY <1>1, <1>2, <1>3, <1>4, <1>5, <1>6, <1>7, <1>8, <1>9, <1>10, <1>11, <1>12, <1>13, <1>14, <1>15, <1>16, <1>17, <1>18, <1>19, <1>20, <1>21, <1>22, <1>23, <1>24, <1>25, <1>26, <1>27, <1>28, <1>29
     DEF Next, Main, Worker, Returned

LEMMA ReachedInvariant == Spec => [](TypeOK /\ ReachedInv)
<1>1. Init => ReachedInv
  BY DEF Init, ReachedInv, ToSet
<1>. QED  BY <1>1, TypeInit, TypeStep, ReachedStep, PTL DEF Spec

LEMMA ReachedIsReached == Enumeration!Reached = ReachedCuts
BY DEF Enumeration!Reached, ReachedCuts, ToSet

\* Only these steps are seen by the enumeration.
LEMMA OnlyRecordAndStop ==
    ASSUME TypeOK, [Next]_vars,
           \A t \in Thread : ~Record(t) /\ ~Declare(t)
    PROVE  /\ UNCHANGED examined
           /\ \/ UNCHANGED stopCause
              \/ stopCause = "none" /\ stopCause' \notin {"none", "idle"}
<1>. USE DEF TypeOK
<1>1. CASE SinkUnreachable
  BY <1>1 DEF SinkUnreachable, Stop, gShutdownRequested, control, locals, shared, stats, history
<1>2. CASE PushInitialFrame
  BY <1>2 DEF PushInitialFrame, Stop, gShutdownRequested, control, locals, shared, stats, history
<1>3. CASE Join
  BY <1>3 DEF Join, Stop, gShutdownRequested, control, locals, shared, stats, history
<1>4. CASE Signal
  BY <1>4 DEF Signal, Stop, gShutdownRequested, control, locals, shared, stats, history
<1>5. CASE UNCHANGED vars
  BY <1>5 DEF vars, Stop, gShutdownRequested, control, locals, shared, stats, history
<1>6. ASSUME NEW t \in Thread, Spawn(t)
      PROVE  /\ UNCHANGED examined
             /\ \/ UNCHANGED stopCause
                \/ stopCause = "none" /\ stopCause' \notin {"none", "idle"}
  BY <1>6 DEF Spawn, Stop, gShutdownRequested, control, locals, shared, stats, history
<1>7. ASSUME NEW t \in Thread, LoopTest(t)
      PROVE  /\ UNCHANGED examined
             /\ \/ UNCHANGED stopCause
                \/ stopCause = "none" /\ stopCause' \notin {"none", "idle"}
  BY <1>7 DEF LoopTest, Stop, gShutdownRequested, control, locals, shared, stats, history
<1>8. ASSUME NEW t \in Thread, PopFrame(t)
      PROVE  /\ UNCHANGED examined
             /\ \/ UNCHANGED stopCause
                \/ stopCause = "none" /\ stopCause' \notin {"none", "idle"}
  BY <1>8 DEF PopFrame, Stop, gShutdownRequested, control, locals, shared, stats, history
<1>9. ASSUME NEW t \in Thread, EndBatch(t)
      PROVE  /\ UNCHANGED examined
             /\ \/ UNCHANGED stopCause
                \/ stopCause = "none" /\ stopCause' \notin {"none", "idle"}
  BY <1>9 DEF EndBatch, Stop, gShutdownRequested, control, locals, shared, stats, history
<1>10. ASSUME NEW t \in Thread, SkipDuplicate(t)
      PROVE  /\ UNCHANGED examined
             /\ \/ UNCHANGED stopCause
                \/ stopCause = "none" /\ stopCause' \notin {"none", "idle"}
  BY <1>10 DEF SkipDuplicate, Stop, gShutdownRequested, control, locals, shared, stats, history
<1>11. ASSUME NEW t \in Thread, MarkProcessing(t)
      PROVE  /\ UNCHANGED examined
             /\ \/ UNCHANGED stopCause
                \/ stopCause = "none" /\ stopCause' \notin {"none", "idle"}
  BY <1>11 DEF MarkProcessing, Stop, gShutdownRequested, control, locals, shared, stats, history
<1>12. ASSUME NEW t \in Thread, Branch(t)
      PROVE  /\ UNCHANGED examined
             /\ \/ UNCHANGED stopCause
                \/ stopCause = "none" /\ stopCause' \notin {"none", "idle"}
  BY <1>12 DEF Branch, Stop, gShutdownRequested, control, locals, shared, stats, history
<1>13. ASSUME NEW t \in Thread, Record(t)
      PROVE  /\ UNCHANGED examined
             /\ \/ UNCHANGED stopCause
                \/ stopCause = "none" /\ stopCause' \notin {"none", "idle"}
  BY <1>13
<1>14. ASSUME NEW t \in Thread, CheckLimits(t)
      PROVE  /\ UNCHANGED examined
             /\ \/ UNCHANGED stopCause
                \/ stopCause = "none" /\ stopCause' \notin {"none", "idle"}
  BY <1>14 DEF CheckLimits, Stop, gShutdownRequested, control, locals, shared, stats, history
<1>15. ASSUME NEW t \in Thread, PushChild(t)
      PROVE  /\ UNCHANGED examined
             /\ \/ UNCHANGED stopCause
                \/ stopCause = "none" /\ stopCause' \notin {"none", "idle"}
  BY <1>15 DEF PushChild, Stop, gShutdownRequested, control, locals, shared, stats, history
<1>16. ASSUME NEW t \in Thread, SplitOverflow(t)
      PROVE  /\ UNCHANGED examined
             /\ \/ UNCHANGED stopCause
                \/ stopCause = "none" /\ stopCause' \notin {"none", "idle"}
  BY <1>16 DEF SplitOverflow, Stop, gShutdownRequested, control, locals, shared, stats, history
<1>17. ASSUME NEW t \in Thread, NoOverflow(t)
      PROVE  /\ UNCHANGED examined
             /\ \/ UNCHANGED stopCause
                \/ stopCause = "none" /\ stopCause' \notin {"none", "idle"}
  BY <1>17 DEF NoOverflow, Stop, gShutdownRequested, control, locals, shared, stats, history
<1>18. ASSUME NEW t \in Thread, PushToGlobalHeap(t)
      PROVE  /\ UNCHANGED examined
             /\ \/ UNCHANGED stopCause
                \/ stopCause = "none" /\ stopCause' \notin {"none", "idle"}
  BY <1>18 DEF PushToGlobalHeap, Stop, gShutdownRequested, control, locals, shared, stats, history
<1>19. ASSUME NEW t \in Thread, NEW v \in Thread, StealFrom(t, v)
      PROVE  /\ UNCHANGED examined
             /\ \/ UNCHANGED stopCause
                \/ stopCause = "none" /\ stopCause' \notin {"none", "idle"}
  BY <1>19 DEF StealFrom, Stop, gShutdownRequested, control, locals, shared, stats, history
<1>20. ASSUME NEW t \in Thread, NEW v \in Thread, StealNothing(t, v)
      PROVE  /\ UNCHANGED examined
             /\ \/ UNCHANGED stopCause
                \/ stopCause = "none" /\ stopCause' \notin {"none", "idle"}
  BY <1>20 DEF StealNothing, Stop, gShutdownRequested, control, locals, shared, stats, history
<1>21. ASSUME NEW t \in Thread, PopFromGlobalHeap(t)
      PROVE  /\ UNCHANGED examined
             /\ \/ UNCHANGED stopCause
                \/ stopCause = "none" /\ stopCause' \notin {"none", "idle"}
  BY <1>21 DEF PopFromGlobalHeap, Stop, gShutdownRequested, control, locals, shared, stats, history
<1>22. ASSUME NEW t \in Thread, Install(t)
      PROVE  /\ UNCHANGED examined
             /\ \/ UNCHANGED stopCause
                \/ stopCause = "none" /\ stopCause' \notin {"none", "idle"}
  BY <1>22 DEF Install, Stop, gShutdownRequested, control, locals, shared, stats, history
<1>23. ASSUME NEW t \in Thread, HeapEmpty(t)
      PROVE  /\ UNCHANGED examined
             /\ \/ UNCHANGED stopCause
                \/ stopCause = "none" /\ stopCause' \notin {"none", "idle"}
  BY <1>23 DEF HeapEmpty, Stop, gShutdownRequested, control, locals, shared, stats, history
<1>24. ASSUME NEW t \in Thread, BecomeIdle(t)
      PROVE  /\ UNCHANGED examined
             /\ \/ UNCHANGED stopCause
                \/ stopCause = "none" /\ stopCause' \notin {"none", "idle"}
  BY <1>24 DEF BecomeIdle, Stop, gShutdownRequested, control, locals, shared, stats, history
<1>25. ASSUME NEW t \in Thread, ScanIdle(t)
      PROVE  /\ UNCHANGED examined
             /\ \/ UNCHANGED stopCause
                \/ stopCause = "none" /\ stopCause' \notin {"none", "idle"}
  BY <1>25 DEF ScanIdle, Stop, gShutdownRequested, control, locals, shared, stats, history
<1>26. ASSUME NEW t \in Thread, ScanBusy(t)
      PROVE  /\ UNCHANGED examined
             /\ \/ UNCHANGED stopCause
                \/ stopCause = "none" /\ stopCause' \notin {"none", "idle"}
  BY <1>26 DEF ScanBusy, Stop, gShutdownRequested, control, locals, shared, stats, history
<1>27. ASSUME NEW t \in Thread, Declare(t)
      PROVE  /\ UNCHANGED examined
             /\ \/ UNCHANGED stopCause
                \/ stopCause = "none" /\ stopCause' \notin {"none", "idle"}
  BY <1>27
<1>28. ASSUME NEW t \in Thread, SpillNotEmpty(t)
      PROVE  /\ UNCHANGED examined
             /\ \/ UNCHANGED stopCause
                \/ stopCause = "none" /\ stopCause' \notin {"none", "idle"}
  BY <1>28 DEF SpillNotEmpty, Stop, gShutdownRequested, control, locals, shared, stats, history
<1>29. ASSUME NEW t \in Thread, Wake(t)
      PROVE  /\ UNCHANGED examined
             /\ \/ UNCHANGED stopCause
                \/ stopCause = "none" /\ stopCause' \notin {"none", "idle"}
  BY <1>29 DEF Wake, Stop, gShutdownRequested, control, locals, shared, stats, history
<1>. QED
  BY <1>1, <1>2, <1>3, <1>4, <1>5, <1>6, <1>7, <1>8, <1>9, <1>10, <1>11, <1>12, <1>13, <1>14, <1>15, <1>16, <1>17, <1>18, <1>19, <1>20, <1>21, <1>22, <1>23, <1>24, <1>25, <1>26, <1>27, <1>28, <1>29
     DEF Next, Main, Worker, Returned

LEMMA RefinementStep ==
    ASSUME TypeOK, RunInv, LossInv, OnceInv, DetectInv, ReachedInv, [Next]_vars
    PROVE  [Enumeration!Next]_(Enumeration!vars)
<1>1. ASSUME NEW t \in Thread, Record(t)
      PROVE  Enumeration!Next
  <2>1. /\ Examining(t) /\ frame[t] \in ReachedCuts
        /\ examined' = examined \cup {frame[t]}
        /\ UNCHANGED stopCause
    BY <1>1 DEF Record, Goto, Examining, ReachedInv, TypeOK, LocalsOK, control
  <2>2. cutHash[frame[t]] \notin Enumeration!Fingerprints
    BY <2>1 DEF OnceInv, Enumeration!Fingerprints
  <2>3. stopCause # "idle"
    BY <2>1 DEF DetectInv, Drained, Examining
  <2>4. Enumeration!Examine(frame[t])
    BY <2>1, <2>2, <2>3 DEF Enumeration!Examine, gShutdownRequested
  <2>. QED  BY <2>1, <2>4, ReachedIsReached DEF Enumeration!Next
<1>2. ASSUME NEW t \in Thread, Declare(t)
      PROVE  [Enumeration!Next]_(Enumeration!vars)
  <2>1. pc[t] = "declare" /\ UNCHANGED examined
        /\ stopCause' = IF stopCause = "none" THEN "idle" ELSE stopCause
    BY <1>2 DEF Declare, Goto, Stop, gShutdownRequested, history
  <2>2. CASE stopCause # "none"
    BY <2>1, <2>2 DEF Enumeration!vars, gShutdownRequested
  <2>3. CASE stopCause = "none"
    <3>1. Drained
      BY <2>1, <2>3 DEF DetectInv
    <3>2. Pending = {} /\ \A u \in Thread : ~Examining(u)
      BY <3>1, DrainedHoldsNothing
    <3>3. Started
      BY <2>1, <2>3, ThreadsAssumption DEF RunInv, Started, Thread, TypeOK, Types
    <3>4. \A c \in ReachedCuts : Seen(c)
      BY <3>2, <3>3 DEF LossInv, NoFrameLost, Accounted, ReachedCuts
    <3>5. \A c \in ReachedCuts : cutHash[c] \in Enumeration!Fingerprints
      BY <3>2, <3>4 DEF OnceInv, SeenIsExamined, Seen, Enumeration!Fingerprints
    <3>6. Enumeration!NothingLeft
      BY <3>5, ReachedIsReached DEF Enumeration!NothingLeft
    <3>7. Enumeration!Complete
      BY <2>1, <2>3, <3>6 DEF Enumeration!Complete, gShutdownRequested
    <3>. QED  BY <3>7 DEF Enumeration!Next
  <2>. QED  BY <2>2, <2>3
<1>3. CASE \A t \in Thread : ~Record(t) /\ ~Declare(t)
  <2>1. CASE UNCHANGED <<examined, stopCause>>
    BY <2>1 DEF Enumeration!vars, gShutdownRequested
  <2>2. CASE UNCHANGED examined /\ stopCause = "none" /\ stopCause' \notin {"none", "idle"}
    BY <2>2 DEF Enumeration!Next, Enumeration!StopEarly, gShutdownRequested
  <2>. QED  BY <1>3, <2>1, <2>2, OnlyRecordAndStop
<1>. QED  BY <1>1, <1>2, <1>3

(* Where the scan can be trusted the threads together do what the abstract    *)
(* enumeration does: one cut after the other, each fingerprint once, only     *)
(* cuts that are reached, and complete only when nothing is left.             *)
THEOREM Refinement ==
    ASSUME TrustworthyScan
    PROVE  Spec => ImplementsEnumeration
<1>1. Init => Enumeration!Init
  BY DEF Init, Enumeration!Init, gShutdownRequested
<1>2. TypeOK /\ RunInv /\ LossInv /\ OnceInv /\ DetectInv /\ ReachedInv /\ [Next]_vars
        => [Enumeration!Next]_(Enumeration!vars)
  BY RefinementStep
<1>. QED
  BY <1>1, <1>2, DetectInvariant, ReachedInvariant, PTL
     DEF Spec, ImplementsEnumeration, Enumeration!Spec
-----------------------------------------------------------------------------
(***************************************************************************)
(* On a graph the solver finds the minimal cuts.                           *)
(*                                                                         *)
(* Of the graph the proof uses what CutGraph proves: the branches of a     *)
(* minimal cut are minimal, and a family of cuts that contains the initial *)
(* cut and their own branches has all of them.  That the cuts examined are *)
(* such a family when run() returns by itself is CompleteOnReturn; that a  *)
(* cut in the table has been examined needs SeenIsExamined and             *)
(* fingerprints that tell the cuts apart.                                  *)
(***************************************************************************)
DistinctHashes == \A c, d \in Cut : cutHash[c] = cutHash[d] => c = d

IsMinimal(c) == G!IsMinimalCut(edgesOf[c])

(* The edges of a minimal cut are its boundary: writeCut gets the cut itself. *)
LEMMA MinimalIsWritten ==
    ASSUME NEW c \in Cut, IsMinimal(c)
    PROVE  cutOf[c] = edgesOf[c] /\ cutOf[c] \in MinimalCuts
<1>. DEFINE P == edgesOf[c]
<1>1. P = G!Boundary(G!Side(P)) /\ G!Side(P) \in SUBSET Vertex
  BY GraphAssumption, G!MinimalIsBoundary, G!SideFacts DEF IsMinimal
<1>2. G!pClean(P) = P
  BY <1>1 DEF G!pClean, G!V1, G!Side, G!Boundary
<1>3. P \in G!MinimalCuts
  BY <1>1 DEF G!MinimalCuts, IsMinimal
<1>. QED  BY <1>2, <1>3 DEF cutOf, MinimalCuts

(* What CutBranch computes from a minimal cut are its branches. *)
LEMMA ChildrenOfCut ==
    ASSUME StartsMinimal, NEW P, G!IsMinimalCut(P)
    PROVE  ToSet(G!Children(P)) = {G!Child(P, v) : v \in {head[e] : e \in P} \ {superSink}}
<1>. DEFINE heads == {head[e] : e \in P} \ {superSink}
<1>1. G!IsGraph /\ P = G!Boundary(G!Side(P)) /\ superSink \notin G!Side(P)
  BY GraphAssumption, G!MinimalIsBoundary DEF G!IsMinimalCut, G!IsCut, G!Side
<1>2. G!V1(P) = G!Side(P)
  BY DEF G!V1, G!Side
<1>3. G!pClean(P) = P /\ G!reconstructCut(P)
  BY <1>1, <1>2 DEF G!pClean, G!reconstructCut, G!Boundary
<1>4. ASSUME NEW v \in heads
      PROVE  /\ G!outgoingEdges(v) # {} /\ superSink \notin G!V1New(P, v)
             /\ G!Branch(P, v) = G!Child(P, v) /\ G!Child(P, v) # {}
  <2>1. PICK e \in P : head[e] = v /\ v # superSink
    OBVIOUS
  <2>2. /\ v \in Vertex /\ G!outgoingEdges(v) # {} /\ superSink \notin G!Wider(P, v)
        /\ {f \in P \cup G!outgoingEdges(v) : head[f] \notin G!Wider(P, v)}
              = G!Boundary(G!Wider(P, v))
        /\ G!Child(P, v) # {}
    BY <1>1, <2>1, G!BranchFacts DEF StartsMinimal
  <2>3. G!Reach({v}, G!qMask(P, v)) = {v}
    BY <1>1, <2>2, G!StaysAt DEF G!qMask
  <2>4. G!V1New(P, v) = G!Wider(P, v)
    BY <1>2, <2>3 DEF G!V1New, G!Wider
  <2>5. G!candidates(P, v) = G!Boundary(G!Wider(P, v))
    BY <2>2, <2>4 DEF G!candidates
  <2>6. G!Branch(P, v) = G!Child(P, v)
    BY <2>4, <2>5 DEF G!Branch, G!Clean, G!vtMask, G!Child, G!Far, G!Boundary
  <2>. QED  BY <2>2, <2>4, <2>6
<1>5. G!ChildHeads(P) = heads
  BY <1>3, <1>4 DEF G!ChildHeads, G!BranchHeads
<1>6. IsFiniteSet(heads)
  <2>1. heads \subseteq Vertex
    BY <1>1 DEF G!Boundary, G!IsGraph
  <2>. QED  BY <2>1, GraphAssumption, FS_Subset
<1>. DEFINE seq == SetToSeq(heads)
<1>7. ToSet(seq) = heads
  BY <1>6, SetToSeqElements
<1>8. G!Children(P) = [i \in DOMAIN seq |-> G!Branch(P, seq[i])]
  <2>1. G!SetToSeq(heads) = seq
    BY DEF G!SetToSeq, SetToSeq, G!IsInjective, IsInjective, G!Cardinality, Cardinality
  <2>. QED  BY <1>3, <1>5, <2>1 DEF G!Children
<1>. HIDE DEF seq
<1>9. ToSet(G!Children(P)) = {G!Branch(P, seq[i]) : i \in DOMAIN seq}
  BY <1>8 DEF ToSet
<1>10. heads = {seq[i] : i \in DOMAIN seq}
  BY <1>7 DEF ToSet
<1>11. {G!Branch(P, seq[i]) : i \in DOMAIN seq} = {G!Child(P, v) : v \in heads}
  BY <1>4, <1>10
<1>. QED  BY <1>9, <1>11

(* The branches of a cut of the table, by their edges. *)
LEMMA CandidatesOfCut ==
    ASSUME StartsMinimal, NEW c \in Cut, IsMinimal(c)
    PROVE  /\ \A d \in ToSet(Candidates[c]) : d \in Cut /\ IsMinimal(d)
           /\ \A e \in edgesOf[c] : head[e] # superSink =>
                 \E d \in ToSet(Candidates[c]) : edgesOf[d] = G!Child(edgesOf[c], head[e])
<1>. DEFINE P == edgesOf[c]
<1>1. {edgesOf[d] : d \in ToSet(Candidates[c])}
        = {G!Child(P, v) : v \in {head[e] : e \in P} \ {superSink}}
  BY TableAssumption, ChildrenOfCut DEF IsMinimal
<1>2. ASSUME NEW d \in ToSet(Candidates[c])
      PROVE  d \in Cut /\ IsMinimal(d)
  <2>1. PICK e \in P : head[e] # superSink /\ edgesOf[d] = G!Child(P, head[e])
    BY <1>1
  <2>2. P = G!Boundary(G!Side(P)) /\ G!IsCut(P)
    BY GraphAssumption, G!MinimalIsBoundary DEF IsMinimal, G!IsMinimalCut
  <2>3. G!IsMinimalCut(G!Child(P, head[e]))
    BY <2>1, <2>2, GraphAssumption, G!ChildIsMinimal
  <2>. QED  BY <2>1, <2>3, CandidatesAreCuts DEF IsMinimal
<1>3. ASSUME NEW e \in P, head[e] # superSink
      PROVE  \E d \in ToSet(Candidates[c]) : edgesOf[d] = G!Child(P, head[e])
  BY <1>1, <1>3
<1>. QED  BY <1>2, <1>3

\* No cut is examined that is not minimal.
MinimalInv == \A c \in examined : IsMinimal(c)

(* What is reached from minimal cuts is minimal. *)
LEMMA ReachedIsMinimal ==
    ASSUME StartsMinimal, TypeOK, MinimalInv, NEW c \in ReachedCuts
    PROVE  IsMinimal(c)
<1>1. IsMinimal(Root)
  BY TableAssumption DEF IsMinimal, StartsMinimal
<1>2. ASSUME NEW b \in examined, c \in ToSet(Candidates[b])
      PROVE  IsMinimal(c)
  BY <1>2, CandidatesOfCut DEF MinimalInv, TypeOK, Types
<1>. QED  BY <1>1, <1>2 DEF ReachedCuts

(* No step examines a cut that is not minimal. *)
LEMMA MinimalStep ==
    ASSUME StartsMinimal, TypeOK, ReachedInv, MinimalInv, [Next]_vars
    PROVE  MinimalInv'
<1>1. ASSUME NEW t \in Thread, Record(t)
      PROVE  MinimalInv'
  <2>1. frame[t] # NoFrame /\ examined' = examined \cup {frame[t]}
    BY <1>1 DEF Record, Goto, TypeOK, LocalsOK
  <2>2. IsMinimal(frame[t])
    BY <2>1, ReachedIsMinimal DEF ReachedInv
  <2>. QED  BY <2>1, <2>2 DEF MinimalInv, IsMinimal
<1>2. ASSUME NEW t \in Thread, MarkProcessing(t)
      PROVE  MinimalInv'
  BY <1>2 DEF MarkProcessing, history, MinimalInv, IsMinimal
<1>3. CASE \A t \in Thread : ~MarkProcessing(t) /\ ~Record(t)
  <2>1. examined' = examined
    BY <1>3, OnlyMarkAndRecord DEF QuietExamination
  <2>. QED  BY <2>1 DEF MinimalInv, IsMinimal
<1>. QED  BY <1>1, <1>2, <1>3

(* In every reachable state, whatever the number of threads and the hash. *)
LEMMA MinimalInvariant ==
    ASSUME StartsMinimal
    PROVE  Spec => [](TypeOK /\ OnceInv /\ MinimalInv)
<1>1. Init => MinimalInv
  BY DEF Init, MinimalInv
<1>2. TypeOK /\ ReachedInv /\ MinimalInv /\ [Next]_vars => MinimalInv'
  BY MinimalStep
<1>. QED  BY <1>1, <1>2, OnceInvariant, ReachedInvariant, PTL DEF Spec

(* Only what has been examined is written. *)
LEMMA WrittenIsMinimal ==
    ASSUME OnceInv, MinimalInv, NEW c \in Cut, written[c] > 0
    PROVE  c \in examined /\ cutOf[c] = edgesOf[c] /\ cutOf[c] \in MinimalCuts
<1>1. c \in examined
  BY DEF OnceInv, WrittenOnce
<1>. QED  BY <1>1, MinimalIsWritten DEF MinimalInv

\* Nothing but minimal cuts is written, and none under two frames.
WritesMinimalOnly ==
    /\ \A c \in Cut : written[c] > 0 => cutOf[c] \in MinimalCuts
    /\ \A c, d \in Cut : written[c] > 0 /\ written[d] > 0 /\ cutOf[c] = cutOf[d] => c = d

(* Whatever the number of threads, the fingerprints, the limits and the signals, *)
(* the cuts written are minimal, and no minimal cut is written twice.            *)
THEOREM WritesMinimalOnlyCorrect ==
    ASSUME StartsMinimal
    PROVE  Spec => []WritesMinimalOnly
<1>1. OnceInv /\ MinimalInv => WritesMinimalOnly
  BY WrittenIsMinimal, TableAssumption DEF WritesMinimalOnly
<1>. QED  BY <1>1, MinimalInvariant, PTL

(* When run() returns by itself, the cuts examined are all the minimal cuts. *)
LEMMA AllExamined ==
    ASSUME StartsMinimal, DistinctHashes, TypeOK, OnceInv, MinimalInv, DetectInv,
           CompleteOnReturn, main = "returned", stopCause = "idle", NEW P \in MinimalCuts
    PROVE  \E c \in examined : edgesOf[c] = P
<1>. DEFINE K == {edgesOf[c] : c \in examined}
<1>1. \A t \in Thread : ~Examining(t)
  BY DrainedHoldsNothing DEF DetectInv
<1>2. examined \subseteq Cut
  BY DEF TypeOK, Types
<1>3. ASSUME NEW c \in Cut, Seen(c)
      PROVE  c \in examined
  BY <1>1, <1>2, <1>3 DEF OnceInv, SeenIsExamined, Seen, DistinctHashes
<1>4. Root \in examined
  BY <1>3, CutsAssumption DEF CompleteOnReturn
<1>5. ASSUME NEW c \in examined
      PROVE  /\ G!IsMinimalCut(edgesOf[c])
             /\ \A e \in edgesOf[c] : head[e] # superSink => G!Child(edgesOf[c], head[e]) \in K
  <2>1. c \in Cut /\ IsMinimal(c)
    BY <1>2 DEF MinimalInv
  <2>2. \A d \in ToSet(Candidates[c]) : d \in examined
    BY <1>3, <2>1, CandidatesOfCut DEF CompleteOnReturn
  <2>3. \A e \in edgesOf[c] : head[e] # superSink =>
          \E d \in ToSet(Candidates[c]) : edgesOf[d] = G!Child(edgesOf[c], head[e])
    BY <2>1, CandidatesOfCut
  <2>. QED  BY <2>1, <2>2, <2>3 DEF IsMinimal
<1>6. G!BranchClosed(K)
  <2>1. G!InitialCut \in K
    BY <1>4, TableAssumption
  <2>2. ASSUME NEW Q \in K
        PROVE  /\ G!IsMinimalCut(Q)
               /\ \A e \in Q : head[e] # superSink => G!Child(Q, head[e]) \in K
    <3>1. PICK c \in examined : Q = edgesOf[c]
      OBVIOUS
    <3>. QED  BY <1>5, <3>1
  <2>. HIDE DEF K
  <2>. QED  BY <2>1, <2>2 DEF G!BranchClosed
<1>7. P \in K
  <2>1. G!IsMinimalCut(P)
    BY DEF MinimalCuts, G!MinimalCuts
  <2>2. G!IsFiniteSet(Vertex)
    BY GraphAssumption DEF G!IsFiniteSet, IsFiniteSet
  <2>. HIDE DEF K
  <2>. QED  BY <1>6, <2>1, <2>2, GraphAssumption, G!FamilyIsComplete
<1>. QED  BY <1>7

(* With one or two threads, or sleeps that outlast scans, and fingerprints that  *)
(* tell the cuts apart: when run() returns and neither a limit nor a signal has  *)
(* stopped it, the minimal cuts of the graph have been written, all of them,     *)
(* each once, and nothing else; those that are too large have been filtered.     *)
THEOREM FindsMinimalCutsCorrect ==
    ASSUME StartsMinimal, TrustworthyScan, DistinctHashes
    PROVE  Spec => []FindsMinimalCuts
<1>1. ASSUME TypeOK, OnceInv, MinimalInv, DetectInv, CompleteOnReturn,
             main = "returned", stopCause = "idle", NEW P \in MinimalCuts
      PROVE  WrittenByOne(P)
  <2>1. PICK c \in examined : edgesOf[c] = P
    BY <1>1, AllExamined
  <2>2. c \in Cut /\ cutOf[c] = P /\ examined \subseteq Cut
    BY <1>1, <2>1, MinimalIsWritten DEF TypeOK, Types, MinimalInv
  <2>3. \A d \in Cut : written[d] = IF d \in examined \ Oversize THEN 1 ELSE 0
    BY <1>1 DEF OnceInv, WrittenOnce
  <2>4. ASSUME NEW d \in Cut, cutOf[d] = P
        PROVE  written[d] = IF d = c /\ c \notin Oversize THEN 1 ELSE 0
    <3>1. CASE d = c
      BY <2>1, <2>3, <3>1
    <3>2. CASE d # c
      <4>1. d \notin examined
        BY <1>1, <2>1, <2>2, <2>4, <3>2, MinimalIsWritten, TableAssumption DEF MinimalInv
      <4>. QED  BY <2>3, <3>2, <4>1
    <3>. QED  BY <3>1, <3>2
  <2>. QED  BY <2>2, <2>4 DEF WrittenByOne
<1>2. TypeOK /\ OnceInv /\ MinimalInv /\ DetectInv /\ CompleteOnReturn => FindsMinimalCuts
  BY <1>1, WrittenIsMinimal DEF FindsMinimalCuts
<1>. QED  BY <1>2, MinimalInvariant, DetectInvariant, CompleteOnReturnCorrect, PTL
-----------------------------------------------------------------------------
(***************************************************************************)
(* The limits are overshot by less than one batch of every thread, for     *)
(* every number of threads, every batch size and every graph of cuts.      *)
(*                                                                         *)
(* While the flag is down a count exceeds its limit only by the threads    *)
(* between counting and looking at the limits.  Once the flag is up a      *)
(* thread ends the batch it is in: it can still count one cut for every    *)
(* place that is left in the batch, so each cut counted uses one place up. *)
(***************************************************************************)
\* The threads that have counted a cut and not yet looked at the limits.
Late == {t \in Thread : pc[t] = "limits"}

\* The cuts a thread can count before it looks at the flag again.
Room(t) ==
    IF pc[t] \in {"pop", "mark", "branch"} THEN BatchSize - batch[t]
    ELSE IF pc[t] \in {"limits", "push", "spill"} THEN BatchSize - batch[t] - 1
    ELSE 0

Place  == Thread \X (0 .. BatchSize - 1)
PlacesLeft == {p \in Place : p[2] < Room(p[1])}

\* The invariant of one count and its limit.
Within(n, limit) ==
    limit > 0 =>
      IF gShutdownRequested
      THEN n + Cardinality(PlacesLeft) < limit + Cardinality(Place)
      ELSE n < limit + Cardinality(Late)

LimitsInv == Within(cutsFound, MaxCuts) /\ Within(cutsFound + cutsFiltered, MaxExamined)

(* There is one place for every thread and frame of a batch.                 *)
LEMMA PlaceCount ==
    /\ IsFiniteSet(Thread) /\ IsFiniteSet(Place)
    /\ Cardinality(Place) = NumThreads * BatchSize
<1>1. IsFiniteSet(Thread) /\ Cardinality(Thread) = NumThreads
  BY FS_Interval, ThreadsAssumption DEF Thread
<1>2. IsFiniteSet(0 .. BatchSize - 1) /\ Cardinality(0 .. BatchSize - 1) = BatchSize
  BY FS_Interval, LimitsAssumption
<1>. QED  BY <1>1, <1>2, FS_Product DEF Place

(* Both sets are finite, and the threads that are late fit beside the places  *)
(* that are left: the last place of a batch is not left to a late thread.     *)
LEMMA LateAndPlaces ==
    TypeOK =>
      /\ IsFiniteSet(Late) /\ Cardinality(Late) \in Nat
      /\ IsFiniteSet(PlacesLeft) /\ Cardinality(PlacesLeft) \in Nat
      /\ Cardinality(Late) + Cardinality(PlacesLeft) <= Cardinality(Place)
<1>. SUFFICES ASSUME TypeOK
              PROVE  /\ IsFiniteSet(Late) /\ Cardinality(Late) \in Nat
                     /\ IsFiniteSet(PlacesLeft) /\ Cardinality(PlacesLeft) \in Nat
                     /\ Cardinality(Late) + Cardinality(PlacesLeft) <= Cardinality(Place)
  OBVIOUS
<1>. DEFINE last == {p \in Place : p[1] \in Late /\ p[2] = BatchSize - 1}
            f    == [t \in Late |-> <<t, BatchSize - 1>>]
<1>1. IsFiniteSet(Late)
  BY PlaceCount, FS_Subset DEF Late
<1>2. IsFiniteSet(PlacesLeft) /\ IsFiniteSet(last)
  BY PlaceCount, FS_Subset DEF PlacesLeft
<1>3. f \in Injection(Late, last)
  <2>1. BatchSize - 1 \in 0 .. BatchSize - 1
    BY LimitsAssumption
  <2>2. \A t \in Late : <<t, BatchSize - 1>> \in last
    BY <2>1 DEF Late, Place
  <2>. QED  BY <2>2 DEF Injection, IsInjective
<1>4. Cardinality(Late) <= Cardinality(last)
  BY <1>2, <1>3, FS_Injection
<1>5. last \cap PlacesLeft = {}
  <2>. SUFFICES ASSUME NEW p \in last, p \in PlacesLeft PROVE FALSE
    OBVIOUS
  <2>1. p[1] \in Thread /\ pc[p[1]] = "limits" /\ p[2] = BatchSize - 1
    BY DEF Late
  <2>2. Room(p[1]) = BatchSize - batch[p[1]] - 1 /\ batch[p[1]] \in 0 .. BatchSize
    BY <2>1 DEF Room, TypeOK, Types
  <2>. QED  BY <2>1, <2>2, LimitsAssumption DEF PlacesLeft
<1>6. Cardinality(last \cup PlacesLeft) = Cardinality(last) + Cardinality(PlacesLeft)
  <2>1. Cardinality(last) \in Nat /\ Cardinality(PlacesLeft) \in Nat
    BY <1>2, FS_CardinalityType
  <2>2. Cardinality(last \cap PlacesLeft) = 0
    BY <1>5, FS_EmptySet
  <2>3. Cardinality(last \cup PlacesLeft)
          = Cardinality(last) + Cardinality(PlacesLeft) - Cardinality(last \cap PlacesLeft)
    BY <1>2, FS_Union
  <2>. QED  BY <2>1, <2>2, <2>3
<1>7. Cardinality(last \cup PlacesLeft) <= Cardinality(Place)
  BY PlaceCount, FS_Subset DEF PlacesLeft
<1>8. Cardinality(Late) \in Nat /\ Cardinality(PlacesLeft) \in Nat
      /\ Cardinality(last) \in Nat /\ Cardinality(Place) \in Nat
  BY <1>1, <1>2, PlaceCount, FS_CardinalityType
<1>. QED  BY <1>1, <1>2, <1>4, <1>6, <1>7, <1>8

\* A step that counts no cut, leaves the late threads alone and gives no thread
\* a place it did not have.
Calm ==
    /\ UNCHANGED <<cutsFound, cutsFiltered>>
    /\ Late' = Late
    /\ gShutdownRequested => gShutdownRequested' /\ PlacesLeft' \subseteq PlacesLeft

(* The steps of one thread that are neither before nor after counting a cut.  *)
LEMMA CalmThread ==
    ASSUME TypeOK, NEW t \in Thread,
           UNCHANGED <<cutsFound, cutsFiltered>>,
           gShutdownRequested => gShutdownRequested',
           \A u \in Thread \ {t} : pc'[u] = pc[u] /\ batch'[u] = batch[u],
           pc[t] # "limits", pc'[t] # "limits",
           Room(t)' \in Int, gShutdownRequested => Room(t)' <= Room(t)
    PROVE  Calm
<1>1. \A u \in Thread : Room(u) \in Int
  <2>1. batch \in [Thread -> 0 .. BatchSize]
    BY DEF TypeOK, Types
  <2>2. ASSUME NEW u \in Thread PROVE batch[u] \in Int /\ BatchSize \in Int
    BY <2>1, LimitsAssumption
  <2>. QED  BY <2>2 DEF Room
<1>2. \A u \in Thread \ {t} : Room(u)' = Room(u)
  BY DEF Room
<1>3. Late' = Late
  BY DEF Late
<1>4. gShutdownRequested => \A u \in Thread : Room(u)' \in Int /\ Room(u)' <= Room(u)
  BY <1>1, <1>2
<1>5. gShutdownRequested => PlacesLeft' \subseteq PlacesLeft
  BY <1>1, <1>4, LimitsAssumption DEF PlacesLeft, Place
<1>. QED  BY <1>3, <1>5 DEF Calm

(* Every step is calm but three: starting a batch, counting a cut, looking at *)
(* the limits.                                                                *)
LEMMA CalmStep ==
    TypeOK /\ [Next]_vars =>
      Calm \/ \E t \in Thread : Record(t) \/ CheckLimits(t)
<1>. SUFFICES ASSUME TypeOK, [Next]_vars,
                     \A t \in Thread : ~Record(t) /\ ~CheckLimits(t)
              PROVE  Calm
  OBVIOUS
<1>. USE DEF TypeOK, gShutdownRequested
<1>1. CASE SinkUnreachable
  BY <1>1, LimitsAssumption DEF Calm, SinkUnreachable, LocalsOK, Late, Place, PlacesLeft, Room, Goto, Stop, Types, control, locals, shared, stats, history
<1>2. CASE PushInitialFrame
  BY <1>2, LimitsAssumption DEF Calm, PushInitialFrame, LocalsOK, Late, Place, PlacesLeft, Room, Goto, Stop, Types, control, locals, shared, stats, history
<1>3. CASE Join
  BY <1>3, LimitsAssumption DEF Calm, Join, LocalsOK, Late, Place, PlacesLeft, Room, Goto, Stop, Types, control, locals, shared, stats, history
<1>4. CASE Signal
  BY <1>4, LimitsAssumption DEF Calm, Signal, LocalsOK, Late, Place, PlacesLeft, Room, Goto, Stop, Types, control, locals, shared, stats, history
<1>5. CASE UNCHANGED vars
  BY <1>5, LimitsAssumption DEF Calm, vars, LocalsOK, Late, Place, PlacesLeft, Room, Goto, Stop, Types, control, locals, shared, stats, history
<1>6. ASSUME NEW t \in Thread, Spawn(t)
      PROVE  Calm
  BY <1>6, LimitsAssumption DEF Calm, Spawn, LocalsOK, Late, Place, PlacesLeft, Room, Goto, Stop, Types, control, locals, shared, stats, history
<1>7. ASSUME NEW t \in Thread, LoopTest(t)
      PROVE  Calm
  <2>1. pc[t] = "loop" /\ pc' = [pc EXCEPT ![t] = IF gShutdownRequested THEN "exited" ELSE "pop"] /\ batch' = batch
    BY <1>7 DEF LoopTest, Goto, locals
  <2>2. UNCHANGED <<cutsFound, cutsFiltered, stopCause>>
    BY <1>7 DEF LoopTest, control, stats
  <2>3. /\ \A u \in Thread \ {t} : pc'[u] = pc[u] /\ batch'[u] = batch[u]
        /\ pc[t] # "limits" /\ pc'[t] # "limits"
        /\ Room(t)' \in Int /\ (gShutdownRequested => Room(t)' <= Room(t))
    BY <2>1, LimitsAssumption DEF Room, Types
  <2>. QED  BY <2>2, <2>3, CalmThread
<1>8. ASSUME NEW t \in Thread, PopFrame(t)
      PROVE  Calm
  BY <1>8, LimitsAssumption DEF Calm, PopFrame, LocalsOK, Late, Place, PlacesLeft, Room, Goto, Stop, Types, control, locals, shared, stats, history
<1>9. ASSUME NEW t \in Thread, EndBatch(t)
      PROVE  Calm
  <2>1. pc[t] = "pop" /\ (pc' = [pc EXCEPT ![t] = "steal"] \/ pc' = [pc EXCEPT ![t] = "loop"]) /\ batch' = [batch EXCEPT ![t] = 0]
    BY <1>9 DEF EndBatch, Goto, locals
  <2>2. UNCHANGED <<cutsFound, cutsFiltered, stopCause>>
    BY <1>9 DEF EndBatch, control, stats
  <2>3. /\ \A u \in Thread \ {t} : pc'[u] = pc[u] /\ batch'[u] = batch[u]
        /\ pc[t] # "limits" /\ pc'[t] # "limits"
        /\ Room(t)' \in Int /\ (gShutdownRequested => Room(t)' <= Room(t))
    BY <2>1, LimitsAssumption DEF Room, Types
  <2>. QED  BY <2>2, <2>3, CalmThread
<1>10. ASSUME NEW t \in Thread, SkipDuplicate(t)
      PROVE  Calm
  <2>1. pc[t] = "mark" /\ pc' = [pc EXCEPT ![t] = "pop"] /\ batch' = [batch EXCEPT ![t] = @ + 1]
    BY <1>10 DEF SkipDuplicate, Goto, locals
  <2>2. UNCHANGED <<cutsFound, cutsFiltered, stopCause>>
    BY <1>10 DEF SkipDuplicate, control, stats
  <2>3. /\ \A u \in Thread \ {t} : pc'[u] = pc[u] /\ batch'[u] = batch[u]
        /\ pc[t] # "limits" /\ pc'[t] # "limits"
        /\ Room(t)' \in Int /\ (gShutdownRequested => Room(t)' <= Room(t))
    BY <2>1, LimitsAssumption DEF Room, Types
  <2>. QED  BY <2>2, <2>3, CalmThread
<1>11. ASSUME NEW t \in Thread, MarkProcessing(t)
      PROVE  Calm
  <2>1. pc[t] = "mark" /\ pc' = [pc EXCEPT ![t] = "branch"] /\ batch' = batch
    BY <1>11 DEF MarkProcessing, Goto, locals
  <2>2. UNCHANGED <<cutsFound, cutsFiltered, stopCause>>
    BY <1>11 DEF MarkProcessing, control, stats
  <2>3. /\ \A u \in Thread \ {t} : pc'[u] = pc[u] /\ batch'[u] = batch[u]
        /\ pc[t] # "limits" /\ pc'[t] # "limits"
        /\ Room(t)' \in Int /\ (gShutdownRequested => Room(t)' <= Room(t))
    BY <2>1, LimitsAssumption DEF Room, Types
  <2>. QED  BY <2>2, <2>3, CalmThread
<1>12. ASSUME NEW t \in Thread, Branch(t)
      PROVE  Calm
  BY <1>12, LimitsAssumption DEF Calm, Branch, LocalsOK, Late, Place, PlacesLeft, Room, Goto, Stop, Types, control, locals, shared, stats, history
<1>13. ASSUME NEW t \in Thread, Record(t)
      PROVE  Calm
  BY <1>13
<1>14. ASSUME NEW t \in Thread, CheckLimits(t)
      PROVE  Calm
  BY <1>14
<1>15. ASSUME NEW t \in Thread, PushChild(t)
      PROVE  Calm
  <2>1. pc[t] = "push" /\ pc' = pc /\ batch' = batch
    BY <1>15 DEF PushChild, Goto, locals
  <2>2. UNCHANGED <<cutsFound, cutsFiltered, stopCause>>
    BY <1>15 DEF PushChild, control, stats
  <2>3. /\ \A u \in Thread \ {t} : pc'[u] = pc[u] /\ batch'[u] = batch[u]
        /\ pc[t] # "limits" /\ pc'[t] # "limits"
        /\ Room(t)' \in Int /\ (gShutdownRequested => Room(t)' <= Room(t))
    BY <2>1, LimitsAssumption DEF Room, Types
  <2>. QED  BY <2>2, <2>3, CalmThread
<1>16. ASSUME NEW t \in Thread, SplitOverflow(t)
      PROVE  Calm
  <2>1. pc[t] = "push" /\ pc' = [pc EXCEPT ![t] = "spill"] /\ batch' = batch
    BY <1>16 DEF SplitOverflow, Goto, locals
  <2>2. UNCHANGED <<cutsFound, cutsFiltered, stopCause>>
    BY <1>16 DEF SplitOverflow, control, stats
  <2>3. /\ \A u \in Thread \ {t} : pc'[u] = pc[u] /\ batch'[u] = batch[u]
        /\ pc[t] # "limits" /\ pc'[t] # "limits"
        /\ Room(t)' \in Int /\ (gShutdownRequested => Room(t)' <= Room(t))
    BY <2>1, LimitsAssumption DEF Room, Types
  <2>. QED  BY <2>2, <2>3, CalmThread
<1>17. ASSUME NEW t \in Thread, NoOverflow(t)
      PROVE  Calm
  <2>1. pc[t] = "push" /\ pc' = [pc EXCEPT ![t] = "pop"] /\ batch' = [batch EXCEPT ![t] = @ + 1]
    BY <1>17 DEF NoOverflow, Goto, locals
  <2>2. UNCHANGED <<cutsFound, cutsFiltered, stopCause>>
    BY <1>17 DEF NoOverflow, control, stats
  <2>3. /\ \A u \in Thread \ {t} : pc'[u] = pc[u] /\ batch'[u] = batch[u]
        /\ pc[t] # "limits" /\ pc'[t] # "limits"
        /\ Room(t)' \in Int /\ (gShutdownRequested => Room(t)' <= Room(t))
    BY <2>1, LimitsAssumption DEF Room, Types
  <2>. QED  BY <2>2, <2>3, CalmThread
<1>18. ASSUME NEW t \in Thread, PushToGlobalHeap(t)
      PROVE  Calm
  <2>1. pc[t] = "spill" /\ pc' = [pc EXCEPT ![t] = "pop"] /\ batch' = [batch EXCEPT ![t] = @ + 1]
    BY <1>18 DEF PushToGlobalHeap, Goto, locals
  <2>2. UNCHANGED <<cutsFound, cutsFiltered, stopCause>>
    BY <1>18 DEF PushToGlobalHeap, control, stats
  <2>3. /\ \A u \in Thread \ {t} : pc'[u] = pc[u] /\ batch'[u] = batch[u]
        /\ pc[t] # "limits" /\ pc'[t] # "limits"
        /\ Room(t)' \in Int /\ (gShutdownRequested => Room(t)' <= Room(t))
    BY <2>1, LimitsAssumption DEF Room, Types
  <2>. QED  BY <2>2, <2>3, CalmThread
<1>19. ASSUME NEW t \in Thread, NEW v \in Thread, StealFrom(t, v)
      PROVE  Calm
  <2>1. pc[t] = "steal" /\ pc' = [pc EXCEPT ![t] = "install"] /\ batch' = batch
    BY <1>19 DEF StealFrom, Goto, locals
  <2>2. UNCHANGED <<cutsFound, cutsFiltered, stopCause>>
    BY <1>19 DEF StealFrom, control, stats
  <2>3. /\ \A u \in Thread \ {t} : pc'[u] = pc[u] /\ batch'[u] = batch[u]
        /\ pc[t] # "limits" /\ pc'[t] # "limits"
        /\ Room(t)' \in Int /\ (gShutdownRequested => Room(t)' <= Room(t))
    BY <2>1, LimitsAssumption DEF Room, Types
  <2>. QED  BY <2>2, <2>3, CalmThread
<1>20. ASSUME NEW t \in Thread, NEW v \in Thread, StealNothing(t, v)
      PROVE  Calm
  <2>1. pc[t] = "steal" /\ (pc' = pc \/ pc' = [pc EXCEPT ![t] = "heap"]) /\ batch' = batch
    BY <1>20 DEF StealNothing, Goto, locals
  <2>2. UNCHANGED <<cutsFound, cutsFiltered, stopCause>>
    BY <1>20 DEF StealNothing, control, stats
  <2>3. /\ \A u \in Thread \ {t} : pc'[u] = pc[u] /\ batch'[u] = batch[u]
        /\ pc[t] # "limits" /\ pc'[t] # "limits"
        /\ Room(t)' \in Int /\ (gShutdownRequested => Room(t)' <= Room(t))
    BY <2>1, LimitsAssumption DEF Room, Types
  <2>. QED  BY <2>2, <2>3, CalmThread
<1>21. ASSUME NEW t \in Thread, PopFromGlobalHeap(t)
      PROVE  Calm
  <2>1. pc[t] = "heap" /\ pc' = [pc EXCEPT ![t] = "install"] /\ batch' = batch
    BY <1>21 DEF PopFromGlobalHeap, Goto, locals
  <2>2. UNCHANGED <<cutsFound, cutsFiltered, stopCause>>
    BY <1>21 DEF PopFromGlobalHeap, control, stats
  <2>3. /\ \A u \in Thread \ {t} : pc'[u] = pc[u] /\ batch'[u] = batch[u]
        /\ pc[t] # "limits" /\ pc'[t] # "limits"
        /\ Room(t)' \in Int /\ (gShutdownRequested => Room(t)' <= Room(t))
    BY <2>1, LimitsAssumption DEF Room, Types
  <2>. QED  BY <2>2, <2>3, CalmThread
<1>22. ASSUME NEW t \in Thread, Install(t)
      PROVE  Calm
  <2>1. pc[t] = "install" /\ pc' = [pc EXCEPT ![t] = "loop"] /\ batch' = batch
    BY <1>22 DEF Install, Goto, locals
  <2>2. UNCHANGED <<cutsFound, cutsFiltered, stopCause>>
    BY <1>22 DEF Install, control, stats
  <2>3. /\ \A u \in Thread \ {t} : pc'[u] = pc[u] /\ batch'[u] = batch[u]
        /\ pc[t] # "limits" /\ pc'[t] # "limits"
        /\ Room(t)' \in Int /\ (gShutdownRequested => Room(t)' <= Room(t))
    BY <2>1, LimitsAssumption DEF Room, Types
  <2>. QED  BY <2>2, <2>3, CalmThread
<1>23. ASSUME NEW t \in Thread, HeapEmpty(t)
      PROVE  Calm
  BY <1>23, LimitsAssumption DEF Calm, HeapEmpty, LocalsOK, Late, Place, PlacesLeft, Room, Goto, Stop, Types, control, locals, shared, stats, history
<1>24. ASSUME NEW t \in Thread, BecomeIdle(t)
      PROVE  Calm
  BY <1>24, LimitsAssumption DEF Calm, BecomeIdle, LocalsOK, Late, Place, PlacesLeft, Room, Goto, Stop, Types, control, locals, shared, stats, history
<1>25. ASSUME NEW t \in Thread, ScanIdle(t)
      PROVE  Calm
  <2>1. pc[t] = "scan" /\ (pc' = pc \/ pc' = [pc EXCEPT ![t] = "declare"]) /\ batch' = batch
    BY <1>25 DEF ScanIdle, Goto, locals
  <2>2. UNCHANGED <<cutsFound, cutsFiltered, stopCause>>
    BY <1>25 DEF ScanIdle, control, stats
  <2>3. /\ \A u \in Thread \ {t} : pc'[u] = pc[u] /\ batch'[u] = batch[u]
        /\ pc[t] # "limits" /\ pc'[t] # "limits"
        /\ Room(t)' \in Int /\ (gShutdownRequested => Room(t)' <= Room(t))
    BY <2>1, LimitsAssumption DEF Room, Types
  <2>. QED  BY <2>2, <2>3, CalmThread
<1>26. ASSUME NEW t \in Thread, ScanBusy(t)
      PROVE  Calm
  BY <1>26, LimitsAssumption DEF Calm, ScanBusy, LocalsOK, Late, Place, PlacesLeft, Room, Goto, Stop, Types, control, locals, shared, stats, history
<1>27. ASSUME NEW t \in Thread, Declare(t)
      PROVE  Calm
  BY <1>27, LimitsAssumption DEF Calm, Declare, LocalsOK, Late, Place, PlacesLeft, Room, Goto, Stop, Types, control, locals, shared, stats, history
<1>28. ASSUME NEW t \in Thread, SpillNotEmpty(t)
      PROVE  Calm
  BY <1>28, LimitsAssumption DEF Calm, SpillNotEmpty, LocalsOK, Late, Place, PlacesLeft, Room, Goto, Stop, Types, control, locals, shared, stats, history
<1>29. ASSUME NEW t \in Thread, Wake(t)
      PROVE  Calm
  BY <1>29, LimitsAssumption DEF Calm, Wake, LocalsOK, Late, Place, PlacesLeft, Room, Goto, Stop, Types, control, locals, shared, stats, history
<1>. QED
  BY <1>1, <1>2, <1>3, <1>4, <1>5, <1>6, <1>7, <1>8, <1>9, <1>10, <1>11, <1>12, <1>13, <1>14, <1>15, <1>16, <1>17, <1>18, <1>19, <1>20, <1>21, <1>22, <1>23, <1>24, <1>25, <1>26, <1>27, <1>28, <1>29
     DEF Next, Main, Worker, Returned

(* A calm step keeps the bound of a count, whoever raises the flag in it.     *)
LEMMA CalmWithin ==
    ASSUME TypeOK, TypeOK', Calm, NEW n \in Nat, NEW limit \in Nat, Within(n, limit)
    PROVE  limit > 0 =>
             IF gShutdownRequested'
             THEN n + Cardinality(PlacesLeft') < limit + Cardinality(Place)
             ELSE n < limit + Cardinality(Late')
<1>1. /\ Cardinality(Late) \in Nat /\ Cardinality(PlacesLeft) \in Nat
      /\ IsFiniteSet(PlacesLeft)
  BY LateAndPlaces
<1>2. /\ Cardinality(Late') \in Nat /\ Cardinality(PlacesLeft') \in Nat
      /\ Cardinality(Late') + Cardinality(PlacesLeft') <= Cardinality(Place)
  <2>. TypeOK' => (/\ Cardinality(Late) \in Nat /\ Cardinality(PlacesLeft) \in Nat
                  /\ Cardinality(Late) + Cardinality(PlacesLeft) <= Cardinality(Place))'
    BY LateAndPlaces, PTL
  <2>. QED  OBVIOUS
<1>3. gShutdownRequested => Cardinality(PlacesLeft') <= Cardinality(PlacesLeft)
  BY <1>1, FS_Subset DEF Calm
<1>4. Cardinality(Place) \in Nat
  BY PlaceCount, FS_CardinalityType
<1>. QED  BY <1>1, <1>2, <1>3, <1>4 DEF Calm, Within

(* A cut that is counted adds a late thread, or uses up a place.              *)
LEMMA RecordSets ==
    ASSUME TypeOK, NEW t \in Thread, Record(t)
    PROVE  /\ Cardinality(Late') = Cardinality(Late) + 1
           /\ Cardinality(PlacesLeft') = Cardinality(PlacesLeft) - 1
           /\ gShutdownRequested' = gShutdownRequested
<1>1. /\ pc[t] = "branch" /\ pc' = [pc EXCEPT ![t] = "limits"]
      /\ batch' = batch /\ stopCause' = stopCause
  BY DEF Record, Goto, control, locals
<1>2. /\ pc \in [Thread -> Step] /\ batch \in [Thread -> 0 .. BatchSize]
      /\ batch[t] < BatchSize
  BY <1>1 DEF TypeOK, Types, LocalsOK
<1>3. Late' = Late \cup {t} /\ t \notin Late
  BY <1>1, <1>2 DEF Late
<1>4. Cardinality(Late') = Cardinality(Late) + 1
  BY <1>3, LateAndPlaces, FS_AddElement
<1>. DEFINE p == <<t, BatchSize - batch[t] - 1>>
<1>5. Room(t) = BatchSize - batch[t] /\ Room(t)' = BatchSize - batch[t] - 1
  BY <1>1, <1>2 DEF Room
<1>6. \A u \in Thread : u # t => Room(u)' = Room(u)
  BY <1>1, <1>2 DEF Room
<1>7. p \in PlacesLeft
  <2>1. BatchSize - batch[t] - 1 \in 0 .. BatchSize - 1
    BY <1>2, LimitsAssumption
  <2>2. BatchSize - batch[t] - 1 < BatchSize - batch[t]
    BY <1>2, LimitsAssumption
  <2>. QED  BY <1>5, <2>1, <2>2 DEF PlacesLeft, Place
<1>8. PlacesLeft' = PlacesLeft \ {p}
  <2>1. ASSUME NEW q \in Place
        PROVE  q[2] < Room(q[1])' <=> q[2] < Room(q[1]) /\ q # p
    <3>1. q[1] \in Thread /\ q[2] \in 0 .. BatchSize - 1 /\ q = <<q[1], q[2]>>
      BY DEF Place
    <3>2. CASE q[1] # t
      BY <1>6, <3>1, <3>2
    <3>3. CASE q[1] = t
      <4>1. q # p <=> q[2] # BatchSize - batch[t] - 1
        BY <3>1, <3>3
      <4>. QED  BY <1>2, <1>5, <3>1, <3>3, <4>1, LimitsAssumption
    <3>. QED  BY <3>2, <3>3
  <2>. QED  BY <2>1 DEF PlacesLeft, Place
<1>9. Cardinality(PlacesLeft') = Cardinality(PlacesLeft) - 1
  BY <1>7, <1>8, LateAndPlaces, FS_RemoveElement
<1>. QED  BY <1>1, <1>4, <1>9 DEF gShutdownRequested

(* Looking at the limits gives no thread a place, and the flag is up          *)
(* afterwards if a limit was reached.                                         *)
LEMMA CheckLimitsSets ==
    ASSUME TypeOK, NEW t \in Thread, CheckLimits(t)
    PROVE  /\ PlacesLeft' = PlacesLeft
           /\ UNCHANGED <<cutsFound, cutsFiltered>>
           /\ gShutdownRequested => gShutdownRequested'
           /\ ReachedMaxCuts \/ ReachedMaxExamined => gShutdownRequested'
<1>1. /\ pc[t] = "limits" /\ pc' = [pc EXCEPT ![t] = "push"]
      /\ UNCHANGED <<batch, cutsFound, cutsFiltered>>
  BY DEF CheckLimits, Goto, stats
<1>2. /\ gShutdownRequested => gShutdownRequested'
      /\ ReachedMaxCuts \/ ReachedMaxExamined => gShutdownRequested'
  BY DEF CheckLimits, Stop, gShutdownRequested
<1>3. \A u \in Thread : Room(u)' = Room(u)
  BY <1>1 DEF Room, TypeOK, Types
<1>4. PlacesLeft' = PlacesLeft
  <2>1. \A q \in Place : q[1] \in Thread
    BY DEF Place
  <2>. QED  BY <1>3, <2>1 DEF PlacesLeft, Place
<1>. QED  BY <1>1, <1>2, <1>4

LEMMA LimitsStep == TypeOK /\ TypeOK' /\ LimitsInv /\ [Next]_vars => LimitsInv'
<1>. SUFFICES ASSUME TypeOK, TypeOK', LimitsInv, [Next]_vars PROVE LimitsInv'
  OBVIOUS
<1>a. /\ cutsFound \in Nat /\ cutsFiltered \in Nat /\ cutsFound + cutsFiltered \in Nat
      /\ MaxCuts \in Nat /\ MaxExamined \in Nat
  BY LimitsAssumption DEF TypeOK, Types
<1>b. /\ Cardinality(Late) \in Nat /\ Cardinality(PlacesLeft) \in Nat
      /\ Cardinality(Late) + Cardinality(PlacesLeft) <= Cardinality(Place)
  BY LateAndPlaces
<1>c. Cardinality(Place) \in Nat
  BY PlaceCount, FS_CardinalityType
<1>1. CASE Calm
  BY <1>1, <1>a, CalmWithin DEF LimitsInv, Within, Calm
<1>2. ASSUME NEW t \in Thread, Record(t)
      PROVE  LimitsInv'
  <2>1. /\ cutsFound' \in {cutsFound, cutsFound + 1}
        /\ cutsFound' + cutsFiltered' = cutsFound + cutsFiltered + 1
    BY <1>2, <1>a DEF Record
  <2>2. /\ Cardinality(Late') = Cardinality(Late) + 1
        /\ Cardinality(PlacesLeft') = Cardinality(PlacesLeft) - 1
        /\ gShutdownRequested' = gShutdownRequested
    BY <1>2, RecordSets
  <2>. QED  BY <1>a, <1>b, <1>c, <2>1, <2>2 DEF LimitsInv, Within
<1>3. ASSUME NEW t \in Thread, CheckLimits(t)
      PROVE  LimitsInv'
  <2>1. /\ PlacesLeft' = PlacesLeft
        /\ UNCHANGED <<cutsFound, cutsFiltered>>
        /\ gShutdownRequested => gShutdownRequested'
        /\ ReachedMaxCuts \/ ReachedMaxExamined => gShutdownRequested'
    BY <1>3, CheckLimitsSets
  <2>2. Cardinality(Late') \in Nat
    <3>. TypeOK' => (Cardinality(Late) \in Nat)'
      BY LateAndPlaces, PTL
    <3>. QED  OBVIOUS
  <2>. QED  BY <1>a, <1>b, <1>c, <2>1, <2>2
            DEF LimitsInv, Within, ReachedMaxCuts, ReachedMaxExamined
<1>. QED  BY <1>1, <1>2, <1>3, CalmStep

LEMMA LimitsInvariant == Spec => [](TypeOK /\ LimitsInv)
<1>1. Init => LimitsInv
  <2>. SUFFICES ASSUME Init PROVE LimitsInv
    OBVIOUS
  <2>1. Cardinality(Late) \in Nat
    BY TypeInit, LateAndPlaces
  <2>. QED  BY <2>1, LimitsAssumption DEF Init, LimitsInv, Within, gShutdownRequested
<1>. QED  BY <1>1, TypeInit, TypeStep, LimitsStep, PTL DEF Spec

(* The promise of OvershootBounded, for every number of threads, batch size,  *)
(* graph and limit: ApdfsSolver::workerLoop looks at the limits after every   *)
(* cut and at the flag after every batch.                                     *)
THEOREM OvershootBoundedCorrect == Spec => []OvershootBounded
<1>1. TypeOK /\ LimitsInv => OvershootBounded
  <2>. SUFFICES ASSUME TypeOK, LimitsInv PROVE OvershootBounded
    OBVIOUS
  <2>1. /\ cutsFound \in Nat /\ cutsFiltered \in Nat
        /\ MaxCuts \in Nat /\ MaxExamined \in Nat
    BY LimitsAssumption DEF TypeOK, Types
  <2>2. /\ Cardinality(Late) \in Nat /\ Cardinality(PlacesLeft) \in Nat
        /\ Cardinality(Late) + Cardinality(PlacesLeft) <= Cardinality(Place)
    BY LateAndPlaces
  <2>3. Cardinality(Place) \in Nat
    BY PlaceCount, FS_CardinalityType
  <2>4. /\ MaxCuts > 0 => cutsFound < MaxCuts + Cardinality(Place)
        /\ MaxExamined > 0 => cutsFound + cutsFiltered < MaxExamined + Cardinality(Place)
    BY <2>1, <2>2, <2>3 DEF LimitsInv, Within
  <2>5. OvershootWhileRunning
    BY DEF OvershootWhileRunning, LimitsInv, Within, Late
  <2>. QED  BY <2>4, <2>5, PlaceCount DEF OvershootBounded
<1>. QED  BY <1>1, LimitsInvariant, PTL
-----------------------------------------------------------------------------
(***************************************************************************)
(* The reporter beside the search.                                         *)
(***************************************************************************)

(* Every step of the composition is a step of the solver, or none.           *)
LEMMA SolverStep == [ReporterNext]_reporterVars => [Next]_vars
<1>. SUFFICES ASSUME [ReporterNext]_reporterVars PROVE [Next]_vars
  OBVIOUS
<1>1. CASE UNCHANGED reporterVars
  BY <1>1 DEF reporterVars
<1>2. CASE MainStep
  BY <1>2 DEF MainStep, NotifyReporter, JoinReporter, Next
<1>3. CASE SignalStep
  BY <1>3 DEF SignalStep, Next
<1>4. CASE Finished
  BY <1>4 DEF Finished
<1>5. ASSUME NEW t \in Thread, ThreadStep(t)
      PROVE  [Next]_vars
  BY <1>5 DEF ThreadStep, WorkerStep, UpdatePeak, ReadPeakAgain, Next
<1>6. CASE ReporterStep \/ WakeSpuriously
  BY <1>6 DEF ReporterStep, Test, Wait, TimeOut, Expire, PrintProgressLine, WakeSpuriously
<1>. QED  BY <1>1, <1>2, <1>3, <1>4, <1>5, <1>6 DEF ReporterNext

(* With the reporter and the peaks hidden the program is the solver alone:   *)
(* what is proved of Spec holds beside the reporter.                         *)
THEOREM ReporterImplementsSolver == ReporterSpec => Spec
<1>1. ReporterInit => Init
  BY DEF ReporterInit
<1>. QED  BY <1>1, SolverStep, PTL DEF ReporterSpec, Spec

(* What printProgressLine (ApdfsSolver.cpp:371) shows as remaining exceeds    *)
(* the limit only when the flag is up or two threads are about to look at it. *)
THEOREM WrapsAtTheEndCorrect == ReporterSpec => WrapsAtTheEnd
<1>1. TypeOK /\ OvershootBounded /\ PrintProgressLine /\ line'.remaining > MaxCuts =>
        gShutdownRequested \/ Cardinality({t \in Thread : pc[t] = "limits"}) >= 2
  <2>. SUFFICES ASSUME TypeOK, OvershootBounded, PrintProgressLine,
                       line'.remaining > MaxCuts, ~gShutdownRequested
                PROVE  Cardinality({t \in Thread : pc[t] = "limits"}) >= 2
    OBVIOUS
  <2>1. cutsFound \in Nat /\ MaxCuts \in Nat /\ Modulus \in Nat /\ Modulus > MaxCuts
    BY LimitsAssumption, ModulusAssumption DEF TypeOK, Types
  <2>2. /\ MaxCuts > 0 /\ cutsFound > 0
        /\ (MaxCuts - cutsFound) % Modulus > MaxCuts
    <3>1. line'.remaining = IF MaxCuts > 0 /\ cutsFound > 0
                            THEN (MaxCuts - cutsFound) % Modulus ELSE 0
      BY DEF PrintProgressLine
    <3>. QED  BY <2>1, <3>1
  <2>3. cutsFound > MaxCuts
    <3>. SUFFICES ASSUME cutsFound <= MaxCuts PROVE FALSE
      BY <2>1
    <3>1. MaxCuts - cutsFound \in 0 .. MaxCuts /\ MaxCuts - cutsFound < Modulus
      BY <2>1
    <3>2. (MaxCuts - cutsFound) % Modulus = MaxCuts - cutsFound
      BY <2>1, <3>1
    <3>. QED  BY <2>1, <2>2, <3>1, <3>2
  <2>4. cutsFound < MaxCuts + Cardinality({t \in Thread : pc[t] = "limits"})
    BY <2>2 DEF OvershootBounded, OvershootWhileRunning
  <2>5. Cardinality({t \in Thread : pc[t] = "limits"}) \in Nat
    BY LateAndPlaces DEF Late
  <2>. QED  BY <2>1, <2>3, <2>4, <2>5
<1>. QED
  BY <1>1, ReporterImplementsSolver, LimitsInvariant, OvershootBoundedCorrect, PTL
     DEF WrapsAtTheEnd
-----------------------------------------------------------------------------
\* The steps of a frame from the table to the report of the table's size.
Busy == {"branch", "limits", "push", "spill"}

Update == [peak : Peak \cup {"none"}, size : Nat, read : Nat]

PeakTypes ==
    /\ mPeak \in [Peak -> Nat] /\ reported \in [Peak -> Nat]
    /\ update \in [Thread -> Update]
    /\ IsFiniteSet(mSeen)

\* A peak below the largest size reported is about to be raised to it.
PeakInv ==
    /\ PeakTypes
    /\ \A t \in Thread : update[t] # Nothing =>
         /\ update[t].peak \in Peak
         /\ update[t].read < update[t].size
         /\ update[t].size <= reported[update[t].peak]
    /\ \A p \in Peak :
         /\ mPeak[p] <= reported[p]
         /\ mPeak[p] = reported[p]
              \/ \E t \in Thread : update[t].peak = p /\ update[t].size = reported[p]

\* The size of the table was reported after the last mark, or will be.
SeenInv ==
    /\ reported["peakSeenSize"] <= Cardinality(mSeen)
    /\ reported["peakSeenSize"] = Cardinality(mSeen) \/ \E t \in Thread : pc[t] \in Busy
    /\ closing # "no" => main = "returned"

(* What a step of workerLoop does to its own step and to the table.          *)
LEMMA WorkerKinds ==
    ASSUME TypeOK, NEW t \in Thread, Worker(t)
    PROVE  /\ \A u \in Thread : u # t => pc'[u] = pc[u]
           /\ pc[t] \in Busy => pc'[t] \in Busy \/ (pc[t] \in {"push", "spill"} /\ pc'[t] = "pop")
           /\ mSeen' = mSeen \/ (pc[t] = "mark" /\ pc'[t] = "branch" /\ \E h : mSeen' = mSeen \cup {h})
           /\ main' = main
<1>. DEFINE Goal ==
           /\ \A u \in Thread : u # t => pc'[u] = pc[u]
           /\ pc[t] \in Busy => pc'[t] \in Busy \/ (pc[t] \in {"push", "spill"} /\ pc'[t] = "pop")
           /\ mSeen' = mSeen \/ (pc[t] = "mark" /\ pc'[t] = "branch" /\ \E h : mSeen' = mSeen \cup {h})
           /\ main' = main
<1>. SUFFICES Goal
  OBVIOUS
<1>0. pc \in [Thread -> Step]
  BY DEF TypeOK, Types
<1>1. CASE LoopTest(t)
  BY <1>0, <1>1 DEF LoopTest, Goto, Busy, control, shared, vars
<1>2. CASE PopFrame(t)
  BY <1>0, <1>2 DEF PopFrame, Goto, Busy, control, shared, vars
<1>3. CASE EndBatch(t)
  BY <1>0, <1>3 DEF EndBatch, Goto, Busy, control, shared, vars
<1>4. CASE SkipDuplicate(t)
  BY <1>0, <1>4 DEF SkipDuplicate, Goto, Busy, control, shared, vars
<1>5. CASE MarkProcessing(t)
  BY <1>0, <1>5 DEF MarkProcessing, Goto, Busy, control, shared, vars
<1>6. CASE Branch(t)
  BY <1>0, <1>6 DEF Branch, Goto, Busy, control, shared, vars
<1>7. CASE Record(t)
  BY <1>0, <1>7 DEF Record, Goto, Busy, control, shared, vars
<1>8. CASE CheckLimits(t)
  BY <1>0, <1>8 DEF CheckLimits, Goto, Busy, control, shared, vars
<1>9. CASE PushChild(t)
  BY <1>0, <1>9 DEF PushChild, Goto, Busy, control, shared, vars
<1>10. CASE SplitOverflow(t)
  BY <1>0, <1>10 DEF SplitOverflow, Goto, Busy, control, shared, vars
<1>11. CASE NoOverflow(t)
  BY <1>0, <1>11 DEF NoOverflow, Goto, Busy, control, shared, vars
<1>12. CASE PushToGlobalHeap(t)
  BY <1>0, <1>12 DEF PushToGlobalHeap, Goto, Busy, control, shared, vars
<1>13. ASSUME NEW v \in Thread, StealFrom(t, v)
      PROVE  Goal
  BY <1>0, <1>13 DEF StealFrom, Goto, Busy, control, shared, vars
<1>14. ASSUME NEW v \in Thread, StealNothing(t, v)
      PROVE  Goal
  BY <1>0, <1>14 DEF StealNothing, Goto, Busy, control, shared, vars
<1>15. CASE PopFromGlobalHeap(t)
  BY <1>0, <1>15 DEF PopFromGlobalHeap, Goto, Busy, control, shared, vars
<1>16. CASE Install(t)
  BY <1>0, <1>16 DEF Install, Goto, Busy, control, shared, vars
<1>17. CASE HeapEmpty(t)
  BY <1>0, <1>17 DEF HeapEmpty, Goto, Busy, control, shared, vars
<1>18. CASE BecomeIdle(t)
  BY <1>0, <1>18 DEF BecomeIdle, Goto, Busy, control, shared, vars
<1>19. CASE ScanIdle(t)
  BY <1>0, <1>19 DEF ScanIdle, Goto, Busy, control, shared, vars
<1>20. CASE ScanBusy(t)
  BY <1>0, <1>20 DEF ScanBusy, Goto, Busy, control, shared, vars
<1>21. CASE Declare(t)
  BY <1>0, <1>21 DEF Declare, Goto, Busy, control, shared, vars
<1>22. CASE SpillNotEmpty(t)
  BY <1>0, <1>22 DEF SpillNotEmpty, Goto, Busy, control, shared, vars
<1>23. CASE Wake(t)
  BY <1>0, <1>23 DEF Wake, Goto, Busy, control, shared, vars
<1>. QED
  BY <1>1, <1>2, <1>3, <1>4, <1>5, <1>6, <1>7, <1>8, <1>9, <1>10, <1>11, <1>12, <1>13, <1>14, <1>15, <1>16, <1>17, <1>18, <1>19, <1>20, <1>21, <1>22, <1>23 DEF Worker

(* The steps of the peaks: the reporter's and run()'s leave them alone.      *)
LEMMA PeakStep ==
    TypeOK /\ TypeOK' /\ PeakInv /\ [ReporterNext]_reporterVars => PeakInv'
<1>. SUFFICES ASSUME TypeOK, TypeOK', PeakInv, [ReporterNext]_reporterVars PROVE PeakInv'
  OBVIOUS
<1>. USE DEF PeakInv, PeakTypes
<1>1. CASE UNCHANGED <<mSeen, peaks>>
  BY <1>1 DEF peaks
<1>2. ASSUME NEW t \in Thread, WorkerStep(t)
      PROVE  PeakInv'
  <2>1. IsFiniteSet(mSeen')
    <3>1. Worker(t)
      BY <1>2 DEF WorkerStep
    <3>2. mSeen' = mSeen \/ \E h : mSeen' = mSeen \cup {h}
      BY <3>1, WorkerKinds
    <3>. QED  BY <3>2, FS_AddElement
  <2>2. CASE Raise(t) = Nothing
    BY <1>2, <2>1, <2>2 DEF WorkerStep, peaks
  <2>3. CASE Raise(t) # Nothing
    <3>. DEFINE raise == Raise(t)
    <3>1. raise.peak \in Peak /\ raise.size \in Nat /\ raise.read = mPeak[raise.peak] /\ raise \in Update
      <4>1. Cardinality(mSeen) \in Nat /\ Len(roadmap[t]) \in Nat
        BY FS_CardinalityType DEF TypeOK, Types
      <4>2. raise \in {[peak |-> "peakSeenSize", size |-> Cardinality(mSeen), read |-> mPeak["peakSeenSize"]],
                       [peak |-> "peakRoadmapSize", size |-> Len(roadmap[t]), read |-> mPeak["peakRoadmapSize"]]}
        BY <2>3 DEF Raise
      <4>. QED  BY <4>1, <4>2 DEF Peak, Update
    <3>2. /\ update[t] = Nothing
          /\ reported' = [reported EXCEPT ![raise.peak] = IF raise.size > @ THEN raise.size ELSE @]
          /\ update' = [update EXCEPT ![t] = IF raise.size > raise.read THEN raise ELSE @]
          /\ mPeak' = mPeak
      BY <1>2, <2>3 DEF WorkerStep
    <3>. HIDE DEF raise
    <3>3. reported' \in [Peak -> Nat] /\ update' \in [Thread -> Update]
      BY <3>1, <3>2
    <3>4. ASSUME NEW u \in Thread, update'[u] # Nothing
          PROVE  /\ update'[u].peak \in Peak
                 /\ update'[u].read < update'[u].size
                 /\ update'[u].size <= reported'[update'[u].peak]
      <4>1. CASE u = t
        BY <3>1, <3>2, <3>4, <4>1
      <4>2. CASE u # t
        <5>1. update'[u] = update[u]
          BY <3>2, <4>2
        <5>2. update[u].size \in Nat
          BY DEF Update
        <5>. QED  BY <3>1, <3>2, <3>4, <5>1, <5>2
      <4>. QED  BY <4>1, <4>2
    <3>5. ASSUME NEW p \in Peak
          PROVE  /\ mPeak'[p] <= reported'[p]
                 /\ mPeak'[p] = reported'[p]
                      \/ \E u \in Thread : update'[u].peak = p /\ update'[u].size = reported'[p]
      <4>1. CASE p = raise.peak /\ raise.size > reported[p]
        BY <3>1, <3>2, <4>1
      <4>2. CASE ~(p = raise.peak /\ raise.size > reported[p])
        <5>1. reported'[p] = reported[p]
          BY <3>1, <3>2, <4>2
        <5>2. \A u \in Thread : update[u].peak = p => update'[u] = update[u]
          BY <3>2 DEF Nothing, Peak
        <5>. QED  BY <3>2, <5>1, <5>2
      <4>. QED  BY <4>1, <4>2
    <3>. QED  BY <2>1, <3>2, <3>3, <3>4, <3>5
  <2>. QED  BY <2>2, <2>3
<1>3. ASSUME NEW t \in Thread, UpdatePeak(t)
      PROVE  PeakInv'
  <2>. DEFINE q == update[t].peak
  <2>1. /\ update[t] # Nothing /\ q \in Peak /\ update[t].size \in Nat
        /\ mPeak[q] = update[t].read /\ update[t].read < update[t].size
        /\ update[t].size <= reported[q]
    BY <1>3 DEF UpdatePeak, Update
  <2>2. /\ mPeak' = [mPeak EXCEPT ![q] = update[t].size]
        /\ update' = [update EXCEPT ![t] = Nothing]
        /\ reported' = reported /\ mSeen' = mSeen
    BY <1>3 DEF UpdatePeak, vars, shared
  <2>. HIDE DEF q
  <2>3. Nothing \in Update
    BY DEF Nothing, Update
  <2>4. ASSUME NEW p \in Peak
        PROVE  /\ mPeak'[p] <= reported'[p]
               /\ mPeak'[p] = reported'[p]
                    \/ \E u \in Thread : update'[u].peak = p /\ update'[u].size = reported'[p]
    <3>1. CASE p = q
      BY <2>1, <2>2, <3>1
    <3>2. CASE p # q
      <4>1. \A u \in Thread : update[u].peak = p => update'[u] = update[u]
        BY <2>2, <3>2 DEF q
      <4>. QED  BY <2>2, <3>2, <4>1
    <3>. QED  BY <3>1, <3>2
  <2>. QED  BY <2>1, <2>2, <2>3, <2>4
<1>4. ASSUME NEW t \in Thread, ReadPeakAgain(t)
      PROVE  PeakInv'
  <2>. DEFINE q   == update[t].peak
              new == IF update[t].size > mPeak[q] THEN [update[t] EXCEPT !.read = mPeak[q]]
                     ELSE Nothing
  <2>1. /\ update[t] # Nothing /\ q \in Peak /\ update[t].size \in Nat
        /\ update[t].size <= reported[q]
    BY <1>4 DEF ReadPeakAgain, Update
  <2>2. /\ update' = [update EXCEPT ![t] = new]
        /\ mPeak' = mPeak /\ reported' = reported /\ mSeen' = mSeen
    BY <1>4 DEF ReadPeakAgain, vars, shared
  <2>3. /\ new \in Update
        /\ update[t].size > mPeak[q] =>
             new.peak = q /\ new.size = update[t].size /\ new.read = mPeak[q]
        /\ ~(update[t].size > mPeak[q]) => new = Nothing
    BY <2>1 DEF Nothing, Update
  <2>4. mPeak[q] <= reported[q] /\ mPeak[q] \in Nat /\ reported[q] \in Nat
    BY <2>1
  <2>. HIDE DEF q, new
  <2>5. ASSUME NEW u \in Thread, update'[u] # Nothing
        PROVE  /\ update'[u].peak \in Peak
               /\ update'[u].read < update'[u].size
               /\ update'[u].size <= reported'[update'[u].peak]
    <3>1. CASE u = t
      BY <2>1, <2>2, <2>3, <2>4, <2>5, <3>1
    <3>2. CASE u # t
      BY <2>2, <2>5, <3>2
    <3>. QED  BY <3>1, <3>2
  <2>6. ASSUME NEW p \in Peak
        PROVE  /\ mPeak'[p] <= reported'[p]
               /\ mPeak'[p] = reported'[p]
                    \/ \E u \in Thread : update'[u].peak = p /\ update'[u].size = reported'[p]
    <3>1. CASE mPeak[p] = reported[p]
      BY <2>2, <3>1
    <3>2. CASE mPeak[p] # reported[p]
      <4>1. PICK u \in Thread : update[u].peak = p /\ update[u].size = reported[p]
        BY <3>2
      <4>2. mPeak[p] < reported[p]
        BY <3>2
      <4>3. update'[u].peak = p /\ update'[u].size = reported[p]
        <5>1. CASE u = t
          <6>1. p = q
            BY <4>1, <5>1 DEF q
          <6>2. update[t].size > mPeak[q]
            BY <4>1, <4>2, <5>1, <6>1, <2>4
          <6>. QED  BY <2>2, <2>3, <4>1, <5>1, <6>1, <6>2
        <5>2. CASE u # t
          BY <2>2, <4>1, <5>2
        <5>. QED  BY <5>1, <5>2
      <4>. QED  BY <2>2, <4>2, <4>3
    <3>. QED  BY <3>1, <3>2
  <2>. QED  BY <2>2, <2>3, <2>5, <2>6
<1>5. CASE MainStep
  BY <1>1, <1>5 DEF MainStep, NotifyReporter, JoinReporter, Main, SinkUnreachable,
     PushInitialFrame, Join, Spawn, vars, shared
<1>6. CASE SignalStep
  BY <1>1, <1>6 DEF SignalStep, Signal, shared
<1>7. CASE Finished \/ ReporterStep \/ WakeSpuriously \/ UNCHANGED reporterVars
  BY <1>1, <1>7 DEF Finished, ReporterStep, Test, Wait, TimeOut, Expire, PrintProgressLine,
     WakeSpuriously, reporterVars, vars, shared
<1>. QED  BY <1>2, <1>3, <1>4, <1>5, <1>6, <1>7 DEF ReporterNext, ThreadStep

LEMMA SeenStep ==
    TypeOK /\ PeakInv /\ SeenInv /\ [ReporterNext]_reporterVars => SeenInv'
<1>. SUFFICES ASSUME TypeOK, PeakInv, SeenInv, [ReporterNext]_reporterVars PROVE SeenInv'
  OBVIOUS
<1>0. /\ Cardinality(mSeen) \in Nat /\ IsFiniteSet(mSeen) /\ "peakSeenSize" \in Peak
      /\ reported \in [Peak -> Nat] /\ pc \in [Thread -> Step]
  BY FS_CardinalityType DEF PeakInv, PeakTypes, Peak, TypeOK, Types
<1>1. CASE UNCHANGED <<mSeen, reported>> /\ (\A u \in Thread : pc[u] \in Busy => pc'[u] \in Busy)
           /\ (closing' # "no" => main' = "returned")
  BY <1>1 DEF SeenInv
<1>2. ASSUME NEW t \in Thread, WorkerStep(t)
      PROVE  SeenInv'
  <2>1. /\ \A u \in Thread : u # t => pc'[u] = pc[u]
        /\ pc[t] \in Busy => pc'[t] \in Busy \/ (pc[t] \in {"push", "spill"} /\ pc'[t] = "pop")
        /\ mSeen' = mSeen \/ (pc[t] = "mark" /\ pc'[t] = "branch" /\ \E h : mSeen' = mSeen \cup {h})
        /\ main' = main /\ closing' = closing
    BY <1>2, WorkerKinds DEF WorkerStep
  <2>2. CASE pc[t] \in {"push", "spill"} /\ pc'[t] = "pop"
    <3>1. mSeen' = mSeen
      BY <2>1, <2>2
    <3>2. Raise(t) = [peak |-> "peakSeenSize", size |-> Cardinality(mSeen),
                      read |-> mPeak["peakSeenSize"]]
      BY <2>2 DEF Raise
    <3>3. reported' = [reported EXCEPT !["peakSeenSize"] =
                         IF Cardinality(mSeen) > @ THEN Cardinality(mSeen) ELSE @]
      BY <1>2, <3>2 DEF WorkerStep, Nothing
    <3>4. reported'["peakSeenSize"] = Cardinality(mSeen)
      BY <1>0, <3>3 DEF SeenInv
    <3>. QED  BY <1>0, <2>1, <3>1, <3>4 DEF SeenInv
  <2>3. CASE ~(pc[t] \in {"push", "spill"} /\ pc'[t] = "pop")
    <3>1. reported'["peakSeenSize"] = reported["peakSeenSize"]
      <4>1. Raise(t) = Nothing \/ Raise(t).peak = "peakRoadmapSize"
        BY <2>3 DEF Raise
      <4>. QED  BY <1>0, <1>2, <4>1 DEF WorkerStep, peaks
    <3>2. CASE mSeen' = mSeen
      BY <2>1, <2>3, <3>1, <3>2 DEF SeenInv
    <3>3. CASE mSeen' # mSeen
      <4>1. pc'[t] \in Busy
        BY <2>1, <3>3 DEF Busy
      <4>2. Cardinality(mSeen) <= Cardinality(mSeen') /\ Cardinality(mSeen') \in Nat
        <5>1. PICK h : mSeen' = mSeen \cup {h}
          BY <2>1, <3>3
        <5>2. Cardinality(mSeen \cup {h}) =
                IF h \in mSeen THEN Cardinality(mSeen) ELSE Cardinality(mSeen) + 1
          BY <1>0, FS_AddElement
        <5>. QED  BY <1>0, <5>1, <5>2
      <4>. QED  BY <1>0, <2>1, <3>1, <4>1, <4>2 DEF SeenInv
    <3>. QED  BY <3>2, <3>3
  <2>. QED  BY <2>2, <2>3
<1>3. ASSUME NEW t \in Thread, UpdatePeak(t) \/ ReadPeakAgain(t)
      PROVE  SeenInv'
  BY <1>1, <1>3 DEF UpdatePeak, ReadPeakAgain, reporting, vars, control, shared, SeenInv
<1>4. CASE MainStep
  <2>1. CASE NotifyReporter \/ JoinReporter
    BY <1>1, <2>1 DEF NotifyReporter, JoinReporter, peaks, vars, control, shared, SeenInv
  <2>2. CASE Main /\ UNCHANGED <<reporting, peaks>>
    <3>1. UNCHANGED <<mSeen, reported, closing>>
      BY <2>2 DEF Main, SinkUnreachable, PushInitialFrame, Join, Spawn, shared, reporting, peaks
    <3>2. \A u \in Thread : pc[u] \in Busy => pc'[u] \in Busy
      BY <1>0, <2>2 DEF Main, SinkUnreachable, PushInitialFrame, Join, Spawn, Goto, Busy
    <3>3. main = "returned" => FALSE
      BY <2>2 DEF Main, SinkUnreachable, PushInitialFrame, Join, Spawn
    <3>. QED  BY <1>1, <3>1, <3>2, <3>3 DEF SeenInv
  <2>. QED  BY <1>4, <2>1, <2>2 DEF MainStep
<1>5. CASE SignalStep
  BY <1>1, <1>5 DEF SignalStep, Signal, shared, reporting, peaks, SeenInv
<1>6. CASE Finished \/ ReporterStep \/ WakeSpuriously \/ UNCHANGED reporterVars
  BY <1>1, <1>6 DEF Finished, ReporterStep, Test, Wait, TimeOut, Expire, PrintProgressLine,
     WakeSpuriously, reporterVars, reporting, peaks, vars, control, shared, SeenInv
<1>. QED  BY <1>2, <1>3, <1>4, <1>5, <1>6 DEF ReporterNext, ThreadStep

LEMMA ReporterInvariant == ReporterSpec => [](TypeOK /\ RunInv /\ PeakInv /\ SeenInv)
<1>1. ReporterInit => PeakInv /\ SeenInv
  <2>. SUFFICES ASSUME ReporterInit PROVE PeakInv /\ SeenInv
    OBVIOUS
  <2>1. mSeen = {} /\ IsFiniteSet({}) /\ Cardinality({}) = 0
    BY FS_EmptySet DEF ReporterInit, Init
  <2>2. "peakSeenSize" \in Peak /\ Nothing \in Update
    BY DEF Peak, Nothing, Update
  <2>3. PeakInv
    BY <2>1, <2>2 DEF ReporterInit, PeakInv, PeakTypes
  <2>4. SeenInv
    BY <2>1, <2>2 DEF ReporterInit, SeenInv
  <2>. QED  BY <2>3, <2>4
<1>2. ReporterSpec => [](TypeOK /\ RunInv)
  BY ReporterImplementsSolver, RunIdleInvariant, PTL
<1>. QED  BY <1>1, <1>2, PeakStep, SeenStep, PTL DEF ReporterSpec

(* No update of a peak is lost, and the final size of the table is reported:  *)
(* updatePeakSeen and updatePeakRoadmap, ApdfsSolver.cpp:405-421.             *)
THEOREM PeaksExactCorrect == ReporterSpec => []PeaksExact
<1>1. TypeOK /\ RunInv /\ PeakInv /\ SeenInv => PeaksExact
  <2>. SUFFICES ASSUME TypeOK, RunInv, PeakInv, SeenInv,
                       \A t \in Thread : update[t] = Nothing
                PROVE  /\ mPeak = reported
                       /\ closing = "joined" => mPeak["peakSeenSize"] = Cardinality(mSeen)
    BY DEF PeaksExact
  <2>1. \A p \in Peak : mPeak[p] = reported[p]
    BY DEF PeakInv, Nothing, Peak
  <2>2. mPeak = reported
    BY <2>1 DEF PeakInv, PeakTypes
  <2>3. closing = "joined" => \A t \in Thread : pc[t] \notin Busy
    BY DEF SeenInv, RunInv, Busy
  <2>. QED  BY <2>2, <2>3 DEF SeenInv
<1>. QED  BY <1>1, ReporterInvariant, PTL
=============================================================================
