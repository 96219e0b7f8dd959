------------------------------ MODULE Reporter ------------------------------
(***************************************************************************)
(* The progress reporter and the end of run(), around the solver           *)
(* (src/src/cut/ApdfsSolver.cpp): a thread that waits on a condition       *)
(* variable for the shutdown flag and prints a line whenever the wait      *)
(* times out, and the peaks that the workers raise by compare-and-swap.    *)
(*                                                                         *)
(* Nobody who raises the flag takes mReporterMutex, and of those who do    *)
(* only a thread that finds all idle, and run() itself, notify: a          *)
(* notification finds the reporter waiting or is lost.  Where ApdfsSolver  *)
(* says "returned" the workers are joined; the rest of run() is here.  Of  *)
(* the line the number of cuts and what is left of maxCuts are kept.       *)
(***************************************************************************)
EXTENDS ApdfsSolver

CONSTANT Modulus        \* 2^64, at which the difference of two counters wraps

ASSUME ModulusAssumption == Modulus \in Nat /\ Modulus > MaxCuts

Peak == {"peakSeenSize", "peakRoadmapSize"}
Nothing == [peak |-> "none", size |-> 0, read |-> 0]

VARIABLES
    reporter,           \* "off", "test", "armed", "waiting", "expired", "print", "done"
    line,               \* the last line: the cuts, and the cuts remaining
    closing,            \* the rest of run(): "no", "notified", "joined"
    mPeak,              \* the two peaks of mStats
    update,             \* the updatePeak... each worker is in: its size, the peak it read
    reported            \* history: the largest size handed to an updatePeak...

reporting == <<reporter, line, closing>>
peaks     == <<mPeak, update, reported>>

\* run() has reset the statistics; the reporter runs if showProgress is set.
ReporterInit ==
    /\ Init
    /\ reporter \in {"off", "test"}
    /\ line = [cuts |-> 0, remaining |-> 0]
    /\ closing = "no"
    /\ mPeak = [p \in Peak |-> 0]
    /\ update = [t \in Thread |-> Nothing]
    /\ reported = [p \in Peak |-> 0]

\* mReporterCv.notify_all()
NotifyAll == reporter' = IF reporter = "waiting" THEN "test" ELSE reporter
-----------------------------------------------------------------------------
\* wait_for looks at the flag before it waits and after each wakeup.
Test ==
    /\ reporter = "test"
    /\ reporter' = IF gShutdownRequested THEN "done" ELSE "armed"
    /\ UNCHANGED <<vars, line, closing, peaks>>

\* The mutex is released and the wait begins.
Wait ==
    /\ reporter = "armed"
    /\ reporter' = "waiting"
    /\ UNCHANGED <<vars, line, closing, peaks>>

\* A wakeup for no reason.
WakeSpuriously ==
    /\ reporter = "waiting"
    /\ reporter' = "test"
    /\ UNCHANGED <<vars, line, closing, peaks>>

\* Mutant: wait in place of wait_for.
WaitForEver == FALSE /\ UNCHANGED <<vars, reporting, peaks>>

TimeOut ==
    /\ reporter = "waiting"
    /\ reporter' = "expired"
    /\ UNCHANGED <<vars, line, closing, peaks>>

\* After the time is up the flag decides between the end and a line.
Expire ==
    /\ reporter = "expired"
    /\ reporter' = IF gShutdownRequested THEN "done" ELSE "print"
    /\ UNCHANGED <<vars, line, closing, peaks>>

\* printProgressLine: the count is read only now; without a limit, and before the
\* first cut, nothing is said of what remains.
PrintProgressLine ==
    /\ reporter = "print"
    /\ line' = [cuts |-> cutsFound,
                remaining |-> IF MaxCuts > 0 /\ cutsFound > 0
                              THEN (MaxCuts - cutsFound) % Modulus ELSE 0]
    /\ reporter' = "test"
    /\ UNCHANGED <<vars, closing, peaks>>

ReporterStep == Test \/ Wait \/ TimeOut \/ Expire \/ PrintProgressLine
-----------------------------------------------------------------------------
\* The workers, or on the early return nobody, are joined: notify and join.
NotifyReporter ==
    /\ main = "returned" /\ closing = "no"
    /\ closing' = "notified"
    /\ NotifyAll
    /\ UNCHANGED <<vars, line, peaks>>

JoinReporter ==
    /\ closing = "notified"
    /\ reporter \in {"off", "done"}
    /\ closing' = "joined"
    /\ UNCHANGED <<vars, reporter, line, peaks>>

MainStep ==
    \/ Main /\ UNCHANGED <<reporting, peaks>>
    \/ NotifyReporter \/ JoinReporter

\* The size a worker hands to updatePeakSeen after a frame, to updatePeakRoadmap
\* after a batch, and the peak as it is then.
Raise(t) ==
    IF pc[t] \in {"push", "spill"} /\ pc'[t] = "pop"
    THEN [peak |-> "peakSeenSize", size |-> Cardinality(mSeen), read |-> mPeak["peakSeenSize"]]
    ELSE IF pc[t] = "pop" /\ pc'[t] \in {"steal", "loop"}
    THEN [peak |-> "peakRoadmapSize", size |-> Len(roadmap[t]), read |-> mPeak["peakRoadmapSize"]]
    ELSE Nothing

\* A step of workerLoop; a thread that finds all idle notifies.  The peak is
\* first read in the same step: read later it could only be larger, which the
\* comparison in UpdatePeak finds out as well.
WorkerStep(t) ==
    /\ update[t] = Nothing
    /\ Worker(t)
    /\ IF pc[t] = "declare" /\ pc'[t] = "exited" THEN NotifyAll ELSE UNCHANGED reporter
    /\ LET raise == Raise(t)
       IN  IF raise = Nothing THEN UNCHANGED peaks
           ELSE /\ reported' = [reported EXCEPT ![raise.peak] = IF raise.size > @ THEN raise.size ELSE @]
                /\ update' = [update EXCEPT ![t] = IF raise.size > raise.read THEN raise ELSE @]
                /\ UNCHANGED mPeak
    /\ UNCHANGED <<line, closing>>

\* Mutant: a store in place of the exchange.
StorePeak(t) ==
    /\ update[t] # Nothing
    /\ mPeak' = [mPeak EXCEPT ![update[t].peak] = update[t].size]
    /\ update' = [update EXCEPT ![t] = Nothing]
    /\ UNCHANGED <<vars, reporting, reported>>

\* compare_exchange_weak: the size is stored if the peak is still the one read.
UpdatePeak(t) ==
    /\ update[t] # Nothing
    /\ mPeak[update[t].peak] = update[t].read
    /\ mPeak' = [mPeak EXCEPT ![update[t].peak] = update[t].size]
    /\ update' = [update EXCEPT ![t] = Nothing]
    /\ UNCHANGED <<vars, reporting, reported>>

\* Otherwise the peak is read again; the loop ends if it is large enough.
ReadPeakAgain(t) ==
    /\ update[t] # Nothing
    /\ mPeak[update[t].peak] # update[t].read
    /\ update' = [update EXCEPT ![t] = IF @.size > mPeak[@.peak]
                                       THEN [@ EXCEPT !.read = mPeak[update[t].peak]]
                                       ELSE Nothing]
    /\ UNCHANGED <<vars, reporting, mPeak, reported>>

ThreadStep(t) == WorkerStep(t) \/ UpdatePeak(t) \/ ReadPeakAgain(t)

SignalStep == Signal /\ UNCHANGED <<reporting, peaks>>

Finished == closing = "joined" /\ UNCHANGED <<vars, reporting, peaks>>

ReporterNext ==
    \/ MainStep \/ SignalStep \/ Finished \/ \E t \in Thread : ThreadStep(t)
    \/ ReporterStep \/ WakeSpuriously

reporterVars == <<vars, reporting, peaks>>

\* Weak fairness of every thread, the reporter among them; its wait is bounded.
ReporterSpec ==
    /\ ReporterInit /\ [][ReporterNext]_reporterVars
    /\ WF_reporterVars(MainStep) /\ WF_reporterVars(ReporterStep)
    /\ \A t \in Thread : WF_reporterVars(ThreadStep(t))
-----------------------------------------------------------------------------
\* Once the flag is up, run() returns and the reporter is gone for good, whoever
\* raised the flag, whichever notification was lost, and when no worker was
\* started at all.
RunFinishes ==
    gShutdownRequested ~> [](closing = "joined" /\ reporter \in {"off", "done"})

\* More cuts remaining than the limit are shown only at the very end: the flag
\* is already up, or two threads are on their way to raise it.  (maxCuts - cuts is
\* unsigned, and wraps when cuts overshoots, ApdfsSolver.cpp:371.)
WrapsAtTheEnd ==
    [][PrintProgressLine /\ line'.remaining > MaxCuts =>
         \/ gShutdownRequested
         \/ Cardinality({t \in Thread : pc[t] = "limits"}) >= 2]_reporterVars

\* However the updates of the threads interleave, no peak is lost: when no update
\* is in progress each is the largest size reported, and in the end that of the
\* table is the number of cuts marked.
PeaksExact ==
    (\A t \in Thread : update[t] = Nothing) =>
        /\ mPeak = reported
        /\ closing = "joined" => mPeak["peakSeenSize"] = Cardinality(mSeen)
=============================================================================
