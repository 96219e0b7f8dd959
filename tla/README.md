# A TLA+ verification development of APDFS

APDFS enumerates all minimal (S,T)-cuts of a directed graph with a parallel
depth-first search: every thread has a stack of *frames* (cuts to look at), idle
threads steal from the others, stacks that grow too long spill into a shared
buffer, a table of fingerprints keeps a cut from being looked at twice, and every
thread writes the cuts it finds into files of its own.

This directory holds TLA+ modules translated from the code under `src/` of the
repository, TLC configurations that check them on small instances, and proofs
that TLAPS checks for every value of the parameters. `PROJECT.json` is the index:
the runs, the properties each one checks, for every property a mutant of the
code that violates it, the source lines behind every definition, the hazards, the
findings and the theorems. Paths below are relative to the repository root.

    tlc -config MCThreeThreads.cfg MCApdfsSolver.tla    # a run
    tlapm ApdfsSolver_proofs.tla                        # the proofs of a module

## 1. The system and its parts

| component | state | operations | talks to |
|---|---|---|---|
| `ApdfsSolver` (`src/cut/ApdfsSolver.cpp`) | per thread: stack and its spin lock, idle flag, writer; statistics; reporter | `run`, `workerLoop`, `trySteal`, spill and refill | everything below |
| `SpillBuffer` (`src/cut/SpillBuffer.hpp`) | frames behind a spin lock, their number in an atomic | `push`, `pop`, `size` | solver |
| `Shutdown` (`src/core/Shutdown.cpp`) | one global flag | signal handler, set and test | solver, reporter |
| `SeenTable` (`src/cut/SeenTable.cpp`) | segments: open addressing, load, spin lock; entry count | `tryMarkProcessing`, `contains`, doubling | solver, `CutProcessor` |
| `SpinLock` (`src/core/SpinLock.hpp`) | one atomic word | `lock`, `tryLock`, `unlock` | table, stacks, spill buffer |
| `CutProcessor` (`src/cut/CutProcessor.cpp`) | saved source side, heads seen, two edge buffers, all reused | `processFrame` | `BfsEngine`, `SeenTable` |
| `BfsEngine` (`src/cut/BfsEngine.cpp`) | two vertex masks, a mask of edges, a queue, all reused | forward, incremental and backward search, filter | `Graph` |
| `CutWriter` (`src/cut/CutWriter.cpp`) | buffer, current file, sizes, error flag | `writeCut`, `flush`, rotation | C library |
| `Graph`, `GraphBuilder`, `GraphLoader` (`src/graph`) | edges, compressed rows, fingerprints of edges | load, build, adjacency | all graph code |
| reporter and `Stats` | condition variable, counters, peaks | periodic line, compare-and-swap, final report | solver |
| `DynamicBitset` (`src/core/Bitset.hpp`) | words of 64 bits, the last with padding | set, reset, test, copy, loop over the ones | `BfsEngine`, `CutProcessor` |
| `app` (`src/app`) | the options | `parseOptions`, `main` up to the exit status | loader, solver |
| `tools` | `graphgen`: a graph file; `cutreader`: the output files, page by page | generate; count, print | loader; `CutWriter` |

What is hard here, and what a correct system looks like:

* **Handing frames around.** A frame moves between stacks, thieves' hands and
  the spill buffer under locks that are released in between. It must never be
  lost; a cut must be written once however many threads come upon it; the
  counters must add up.
* **Termination.** There is no counter of outstanding frames. A thread raises a
  flag when it finds nothing and reads the flags of the others one after the
  other while these may wake, steal and go idle again. The search may stop by
  itself only when nothing is left.
* **Stopping.** A signal, a limit or the idle threads raise one flag, which each
  thread reads once per batch of 100 frames. Everybody must leave, and the
  limit may be overshot by a bounded amount only.
* **Reused buffers.** Masks and queues survive from one search to the next and
  from branch to branch. A branch must depend on its cut alone.
* **The algorithm itself.** Branches are pruned by four tests; every minimal cut
  must be reached all the same, and nothing that is not minimal may be.
* **The table.** Linear probing that wraps around, doubled while in use: it must
  be a set with atomic operations.
* **The reporter.** It waits on a condition variable that is notified without its
  mutex; notifications get lost, and `run()` must return all the same. What it
  shows is computed from counters that the workers are changing.
* **The edges of the program.** Numbers in options, in the graph file and in the
  limits have a width; every mistake must end in the exit status the usage text
  promises.
* **Output.** Records go through a buffer, through files that rotate in the
  middle of a flush, and through the C library. All must arrive, in order, or an
  error must be flagged.

The hazards are listed line by line in `PROJECT.json`, each with the properties
that catch it or the reason why none does yet.

## 2. The modules

    the search            Reporter ------+---> ApdfsSolver ---> CutEnumeration
                                         |
    graphs and cuts       GraphSearch ---+---> CutBranch ---> CutGraph
                          CutProcessor ------> CutBranch
                          BfsMasks ---> BfsEngine ----------> CutGraph
                              +-------> Bitset
    the program           Program ---> Options, GraphLoader, Graphgen; CutGraph
    table and files       SeenTable ---> SeenSet        CutReader ---> CutWriter

    helpers               Sums (ApdfsSolver, CutWriter), Rows (CutWriter, Bitset)

    proofs                ApdfsSolver_proofs (also of Reporter and GraphSearch),
                          BfsEngine_proofs (also of BfsMasks), CutProcessor_proofs,
                          SeenTable_proofs, Program_proofs (also of GraphLoader, Options
                          and Graphgen), CutWriter_proofs (also of CutReader);
                          the lemmas they share are in Lemmas and CutGraph

`MC` modules and their `.cfg` files give the constants values.

### ApdfsSolver: the parallel search

A frame is represented by its cut. What `processFrame` computes from a cut is the
constant `Candidates`, a sequence of child cuts for each cut; `GraphSearch` says which
table that is for a graph. `cutHash` need not be one-to-one.

| variable | code |
|---|---|
| `main`, `pc` | where `run()` and each worker are |
| `stopCause` | `gShutdownRequested`, with the reason of the first store |
| `roadmap`, `idle` | the fields of `ThreadContext` |
| `mSpill`, `mSeen` | the spill buffer; the table, as `SeenSet` promises it |
| `frame`, `batch`, `todo`, `children`, `hand`, `attempts`, `scanned` | locals of `workerLoop`, `branchFrame`, `trySteal` |
| `framesProcessed`, `duplicatesSkipped`, `cutsFound`, `cutsFiltered` | `mStats` |
| `examined`, `written` | history: which cuts were processed, how often each was handed to the writer |

| action | code in `workerLoop` unless noted |
|---|---|
| `SinkUnreachable`, `PushInitialFrame`, `Spawn`, `Join` | `run()` |
| `Signal` | `signalHandler` |
| `LoopTest`, `PopFrame`, `EndBatch` | the loop, the batch, the locked pop |
| `SkipDuplicate`, `MarkProcessing` | the two answers of `tryMarkProcessing` |
| `Branch`, `Record` | `branchFrame`'s look into the table, candidate by candidate; the counters and the write |
| `CheckLimits`, `PushChild`, `SplitOverflow`, `NoOverflow`, `PushToGlobalHeap` | the limits; pushing the children and the overflow split under one lock; the spill |
| `StealFrom`, `StealNothing`, `PopFromGlobalHeap`, `HeapEmpty`, `Install` | `trySteal` and the refill |
| `BecomeIdle`, `ScanIdle`, `ScanBusy`, `Declare`, `SpillNotEmpty`, `Wake` | the idle flag, one load at a time, the verdict, the sleep |

An action is a stretch of code with a single access to shared state whose moment
matters. A stack lock held over several steps is a control point (`Locked`).
Statistics updated one after the other change together: only the comparisons
with the limits read them.

**Memory model.** Actions interleave sequentially. The code uses acquire and
release on the flags and on the locks. A frame changes hands only under a lock
that both sides take; a thread lowers its idle flag before it takes a lock, so
whoever gets that lock later sees the flag lowered or newer. What acquire and
release add beyond the interleavings here is that a raised flag may be seen late,
and reading an idle thread as busy only puts the verdict off.

**The sleep.** `SleepOutlastsScan = FALSE` lets a sleep of 100 microseconds end
at any moment. `TRUE` adds the assumption that it outlasts the scan of another thread
(see finding 1 in section 4): a thread does not wake between the load of its flag
by a scan and the last load of that scan.

### CutEnumeration: what the solver promises

No threads: cuts are examined one at a time, each fingerprint once, beginning at
the initial cut and following branches; "complete" is declared only when nothing
is left. `ImplementsEnumeration` maps the solver to it.

### GraphSearch: the solver on a graph

`GraphSearch` extends `ApdfsSolver` with a graph and the edges of each cut of the table.
Its `TableAssumption` says that the table begins with the initial cut and that the
candidates of a cut are what `CutBranch` makes of it, `processFrame` as a pure function;
`CutProcessor` shows that the code, with its reused buffers, computes that function.
`MCApdfsSolver` gives the table for four graphs and TLC compares it with the graph on
every run. `cutOf` is the cut that `writeCut` is given. `FindsMinimalCuts` is the promise of
the whole search: nothing but minimal cuts is written, and each of them once.

### Reporter: the thread beside the search

`Reporter` extends `ApdfsSolver`: every action of the solver is taken together with
what it does to the reporter and to the peaks. Where `ApdfsSolver` says that
`run()` has returned, the workers are joined; the rest of `run()` is here.

| variable | code |
|---|---|
| `reporter` | where `reporterLoop` is: testing the flag, waiting, timed out, printing, gone |
| `line` | the cuts and the remaining number of the line printed last, modulo `Modulus` (2^64) |
| `closing` | where `run()` is after the workers: notify, join, joined |
| `mPeak`, `update` | the two peaks; the `compare_exchange_weak` loop a thread is in |
| `reported` | history: the largest size handed to each peak |

`NotifyAll` reaches the reporter only while it waits. `Wait`, `TimeOut`, `WakeSpuriously`
and `Expire` are `wait_for` with its predicate; `PrintProgressLine` reads the count
after the decision to print. `NotifyReporter` and `JoinReporter` are the end of `run()`.
`UpdatePeak` and `ReadPeakAgain` are the exchange that succeeds and the one that fails.

### CutGraph and CutBranch: vocabulary and reference

`CutGraph` has directed multigraphs, reachability with forbidden edges as the
least closed set (so that no definition recurses), minimal cuts, boundaries, and
a theory of them: a cut is known by its side, branching widens it, a family of cuts
with all its branches has every minimal cut; a chain of k diamonds has 4k + 2 of them.
`CutBranch` gives the branch of a cut on a vertex as a pure function, with
nothing left over from other branches.

### BfsEngine: the searches

One engine, one thread, a graph chosen at the start, and calls for ever:
`forwardBfs` and `backwardBfs` with any forbidden edges, `incrementalForwardBfs`
the way `branchFrame` uses it. `NextVertex` takes a vertex from the queue,
`SkipForbidden`, `SkipVisited` and `Discover` look at an edge, `Return` ends the
call. `mV1`, `mVT`, `mCutMask`, `mQueue` are the fields of the code; `taken` is its
local `head`; `mV1Saved` is the copy `CutProcessor` keeps. `filterByVT` has no
state of its own and is in `CutBranch`.

### Bitset and BfsMasks: the words behind the masks

`Bitset` has every operation of `DynamicBitset` on an array of words; a word is the
set of the positions of its ones. `BfsMasks` extends `BfsEngine` and takes each of its
steps together with what the code does to the words of the four bitsets: resets,
copies, single bits. `MasksAreSets` says that the sets `BfsEngine` works with are what
the bits say. `Peel` takes the lowest one off a word until none is left, as the loop of
`forEachSet` does, and `Rows` joins what the words give. The program never calls
`forEachSet`, `setAll` and the `reset` of one bit, only tests do; they are modelled as
part of the class and checked on the same words. An index beyond the size,
which the code does not check, would be an error in TLC.

### CutProcessor: the search on real graphs

One thread with the table and the list of waiting frames, taken in *any* order,
because steals and spills can bring about any; boundary edges are taken in any
order too. `Reconstruct` is `tryMarkProcessing` with `reconstructCut`; `SkipHead`,
`DropBranch` and `KeepBranch` are the iterations of `branchFrame`; `Record` is the
rest of the worker's batch step. What a search visits is a set here; `BfsEngine`
shows that the code computes that set. `Frame.iterator` is 0 throughout the
program and left out. A frame that is not a multicut, which the tests construct
and the search never reaches, is left out too.

### SeenTable and SeenSet: the table of fingerprints

`SeenTable` has the arrays of slots, a lock per segment, and a step for each
probe and for each key that doubling moves. An unoccupied slot is `None`, so that
the array and its bits are one variable. `SeenSet` is the abstract object: a set
and two operations that take effect at one moment between call and return. The
mapping takes `members` to be the keys in the slots and those `rehash` has in
its hands: `oldKeys` is a function of the old slots that are occupied and still to be
moved.

### CutWriter: a thread's files

Records are numbers, known by their sizes. `given` are those handed to `writeCut`;
`mBuffer`, `mCurrentFileSize`, `mBytesWritten`, `mError` are the code's; `files` are
the files with their headers; `unsynced` counts the records the library holds
back. `Written` is what the files hold one after the other (`Rows` joins sequences
of any length by the rank of a place, without recursion), `SizeOf` the sum of the
sizes of records (`Sums`). `pc` and `after` are the place in `writeCut`, `flushBuffer`,
`openNewFile` and `writeDirectRecord`. Each library call can fail if `Faults` says so.

### CutReader: writer and reader together

`CutReader` extends `CutWriter`: the writer runs, its process ends after a flush or is
killed at any step (`StartReading`), taking its memory and some of what the library held
back with it, and `tools/cutreader.cpp` goes over the files. `CountCutsInFile` is
the first pass, which jumps from size to size; `PrintCut`, `NextPage`, `Quit` and
`NextFile` are the second. `clean` remembers that the last flush returned without
an error, which is the hypothesis of `EndToEnd`.

### GraphLoader: from a file to compressed rows

`GraphLoader`, `GraphBuilder` and `Graph` in one module, because each is the only
client of the next. `ReadHeader`, `ReadEdge`, `RejectLine` are the lines of the
file, `Reject` and `Accept` its end; `CountDegrees`, `AddDegree`, `StartRows`, `Fill` and
`Ready` are the loops of `buildCsr`, one step per edge or vertex. Vertex ids have
`Width` bits and wrap where the code narrows them.
When a vertex id has no element in the arrays of `buildCsr` the behaviour is
undefined and the model stops in `"undefined"` (`CountBeyondEnd`); `GraphOfFile`
shows that this needs a header that announces 2^32 - 2 vertices or more. Beyond
that the code either indexes past the arrays or gives the super-vertices ids that
the file uses too. The usage text accepts ids up to 4294967295 (`Options.cpp:68`, and
the test `SourceSinkMustFitVertexIndex`), so this is the second cause of finding 4.

### Options, Graphgen and Program: from the command line to the exit status

`Options` is `parseOptions` as a function of the arguments. An argument has a form
(a word, a flag, `--key=text`) and a text, a sequence of digits and of one character
that is none. `parseUnsigned` follows the code's test before each digit. The loops of the
code are folds: over the digits, over the arguments for the words, over the arguments for
the options. `OptionsMean` says what they must come to, of all arguments at once.

`Graphgen` is the tool that writes graph files: `GenerateChain` for chains of
diamonds; `GeneratePath`, `DrawCycle`, `DrawSide`, `DrawAny` edge by edge for random
graphs, with every random number possible; `WriteRandom` shuffles and writes.

`Program` puts these together with `GraphLoader`. A *session* is a command line and the
origin of its file: `graphgen`, a hand that writes any lines, or none. `Make` runs the
tool, `ParseArguments` and `Load` are `main` (`src/app/main.cpp`), `Solve` is the search as
one step that ends well, with a write error, or with the exception for an output
directory that cannot be created. `status` is the exit status.

## 3. The runs

| run | instance | what it shows |
|---|---|---|
| `three_threads` | 3 threads, a graph of four minimal cuts, batches of 2, spills from two frames on, signals, weak fairness, `SleepOutlastsScan` | types; only minimal cuts are written, and each once when the run ends by itself; no frame lost, each counted once; the idle verdict is right, and the search then complete; the refinement; no frame travels for ever; the run ends by itself |
| `limits` | 3 threads, a graph of twelve cuts, batches of 2, spills from two frames on, both limits, a size filter, a collision | a raised idle flag tells the truth; each cut written once; either overshoot is bounded |
| `premature_stop` | 3 threads, no timing assumption | **violated**: `CompleteOnReturn` |
| `reporter` | 2 threads beside the reporter, signals, lost notifications, spurious wakeups, weak fairness | `run()` returns and the reporter ends whoever raises the flag; peaks are exact; a wrapped number is shown only at the very end |
| `bfs_engine` | 30 graphs of five edges, any edges forbidden, words of three bits, calls in every order | each search is exact; boundaries are reported; the words hold the masks |
| `search` | every graph of seven edges of the shape `GraphLoader` builds over four inner vertices, every trimmed one of seven edges over three with several edges at source and sink | only minimal cuts and all of them; progress towards the sink; buffers make no difference |
| `untrimmed_graph` | graphs of three edges | **violated**: `RecordsMinimal` |
| `seen_table` | 2 threads, 5 keys, 2 segments of 4 slots that double | a set with atomic operations; room at all times |
| `cut_reader` | a writer with up to four records of four sizes that flushes, fails or is killed anywhere, then the reader | nothing lost, in order, files bounded; what is printed; what is announced; from `writeCut` to the screen |
| `program` | about 1,500 command lines; files of up to four lines by hand, and those of `graphgen`; ids of four bits, numbers up to 37 | arguments mean what the usage text says; well-formed files only; the graph is that of the file; the rows are the adjacency lists; the exit status, but for finding 4; random graphs and chains load |
| `exit_status` | a valid command line, a well-formed file, any directory | **violated**: `ExitStatusPromised` |
| `full_disk` | the library cannot write out its buffer | **violated**: `Durable` |

**Bounds.** The models have no counters to cap except `MaxRecords` in `CutWriter` and
`MaxLines` in `GraphLoader`: a search on a finite graph is finite. The small numbers
are chosen to make the rare case common. Batches of 2 or 8 instead of 100 and
stacks of 1 or 5 frames before a spill instead of thousands make batches end and
stacks overflow; `PopMax = 2` leaves frames behind in the spill buffer. The idle scan
needs three threads for its trouble, and gets them in `three_threads`, `limits` and
`premature_stop`. What the first of these checks under the assumption about sleeps, the
theorems of section 5 say of one and two threads without it. In `limits` either limit is
reached first in some behaviour, and both bounds can be exceeded: `maxCuts` is 2 and the
bound 8, while eight of the twelve cuts can be written (those of more than three edges
count as too large); `maxExamined` is 5 and the bound 11, while eleven cuts can be
examined (two have the same fingerprint). A worker that does not look at the flag between
its batches breaks either bound. In
`reporter`, `Modulus` is 16 and the limit 2, which two threads with batches of 2
overshoot. Words of three bits give bitsets of two words with padding for four
vertices and for five edges. Four slots per segment instead of 64, with three keys on
the last slot, make probes wrap and segments double (a segment doubles at the fourth
insertion, `SeenTable.cpp:30`). In `cut_reader` the units are such that a record can
be smaller than half the buffer, larger, larger than the buffer, and larger than what
the header leaves of a file; four records fill three files. Ids of four bits let
headers of 13 to 16 vertices reach the end of the ids; four lines are a header, two
edges, and one too many. Numbers up to 37 make 3 a number after which some digits
still fit and others do not, as 1844674407370955161 is in 64 bits.

**Graphs.** Seven edges over five or six vertices give paths, diamonds, cycles,
dead ends and vertices that no path visits; cuts of one to three edges and a
branch that brings several vertices along occur. Fingerprints are injective
there; a collision is in `limits`.

**Fairness.** `FairSpec` asks weak fairness of every worker and of `main`: a thread of
the operating system keeps running, and a spin lock is free again after a bounded
critical section. (A thread waiting at a lock is a disabled action; weak fairness then
asks that a lock that stays free is taken, and the runs show that this suffices.)
`ReporterSpec` adds weak fairness of the reporter and of the end of `run()`; that its
wait ends by itself is the timeout of `wait_for`. Nothing is asked of signals or
spurious wakeups. `Terminates` needs more, and has it as a hypothesis: that from some
moment on no sleep ends while another thread with an empty stack is on its way to
raising its flag and through its scan. Under weak fairness alone, even with
`SleepOutlastsScan`, the idle threads can wake and sleep alternately for ever, each scan
finding one of them awake, which the code avoids only because a pass is much shorter
than the sleep.

**Deadlock** is checked in every run. The solver stutters after `run()` has
returned, `CutProcessor` when no frame is left.

## 4. Findings

1. **A search with three or more threads can stop early** (`premature_stop`,
   `src/cut/ApdfsSolver.cpp:164`). The scan of the idle flags is not atomic:
   thread 2 reads thread 0's flag as up; thread 0 wakes and steals from thread 1;
   thread 1 runs dry and raises its flag; thread 2 reads it, and its own, finds the
   spill buffer empty and stops everybody while thread 0 has frames.
   `docs/APDFS_SPECIFICATION.md` 8.3 says termination is declared "when every local
   stack is empty, the shared buffer is empty, and all threads are idle". It takes
   a thread that is preempted in the scan for about as long as a sleep. With one
   or two threads it cannot happen, nor with any number if sleeps outlast scans:
   both are proved (section 5).
2. **An untrimmed graph gives cuts that are not minimal** (`untrimmed_graph`,
   `src/cut/ApdfsSolver.cpp:286`). The documentation says that an implementation
   enforces the trimmed-graph assumption; the code checks only that the sink can
   be reached. `GraphLoader` adds a single edge at the source and is not affected
   (`search` has untrimmed graphs of that shape); a graph built with `GraphBuilder` is.
3. **A full disk goes unnoticed** (`full_disk`, `src/cut/CutWriter.cpp:99`, also
   line 54 and `CutWriter.hpp:73`). The results of `fflush` and `fclose` are
   ignored, so records the library could not write out are lost without
   `hadWriteError()`, and the exit status is 0.
4. **The program can end without the status it promises** (`exit_status`,
   `src/cut/ApdfsSolver.cpp:269`). The usage text says "Exit status: 0 on success, 1 on
   runtime failure, 2 on invalid arguments" (`src/app/Options.cpp:88`). An output
   directory that cannot be created makes `create_directories` throw in `run()`; nothing
   in `main` catches it, and the process is aborted. A second cause is in the model of
   `program` but not in this run: a header of 2^32 - 2 vertices or more, the ids of which
   the usage text accepts (`Options.cpp:68`), leaves no ids for the super-vertices
   (`GraphLoader.cpp:80`), and `buildCsr` may index beyond its arrays. There is no third
   cause: without these two the status is the promised one, which `ExitStatusTrue`
   checks and `ExitStatusCorrect` proves.

Observations that contradict no document, or that no run can show as a violation of
one:

* The time remaining is computed from `maxCuts - cuts` on unsigned integers
  (`ApdfsSolver.cpp:371`), and `cuts` overshoots. `WrapsAtTheEnd` says when a wrapped
  number can be shown: when the flag is up or two threads are about to raise it.
* `duplicateRate` (`src/core/Stats.hpp:82`) loads `duplicatesSkipped` once for the total
  and once more for the numerator; while workers count, a rate of more than 100% can
  be computed.
* The peak of the stacks is sampled at the ends of batches only
  (`updatePeakRoadmap`), so it misses a stack that grows and shrinks within one.
* `graphgen` drops a side edge that would leave the last vertex but one
  (`graphgen.cpp:146`) and keeps the number of edges in the header; the loader then
  refuses the file. `RandomLoads` says that this is the only case.
* `edges.map` is written without a check after it is opened (`ApdfsSolver.cpp:458`).
* `branchFrame` forbids the edges out of the head it branches on
  (`CutProcessor.cpp:90`), so its incremental search never leaves that vertex. On graphs
  whose initial cut is minimal, a branch is therefore never given up because the sink
  was reached or because no edge is left (`CleanIsChild`, `BranchStep` in
  `CutProcessor_proofs`).

## 5. The proofs

| theorem | says |
|---|---|
| | *of the solver, for every number of threads, cut graph, fingerprint and limit* |
| `TypeCorrect` | `Spec => []TypeOK` |
| `IdleCorrect` | a raised idle flag means that its thread holds no frame |
| `WrittenOnceCorrect` | every examined cut that is not too large is written exactly once |
| `SeenIsExaminedCorrect` | what is in the table is examined or being examined |
| `NoFrameLostCorrect` | every branch of an examined cut is in the table or waiting somewhere |
| `OvershootBoundedCorrect` | either limit is overshot by less than one batch of every thread |
| `TerminationDetectedCorrect` | the idle verdict is right if `TrustworthyScan` |
| `FrameConservationCorrect` | the frames processed, skipped and still somewhere add up to the frames created |
| `CompleteOnReturnCorrect` | a run that ends by itself is complete if `TrustworthyScan` |
| `Refinement` | `Spec` implements `CutEnumeration!Spec` if `TrustworthyScan` |
| | *of the solver on a graph, for every finite graph whose initial cut is minimal besides* |
| `WritesMinimalOnlyCorrect` | whatever the limits, the signals and the fingerprints, a cut that is written is minimal, and none is written twice |
| `FindsMinimalCutsCorrect` | when `run()` returns by itself every minimal cut has been written once, if `TrustworthyScan` and `DistinctHashes` |
| | *of the reporter, for every modulus besides* |
| `ReporterImplementsSolver` | `ReporterSpec => Spec`: what is proved of the solver holds beside the reporter |
| `WrapsAtTheEndCorrect` | a wrapped number is shown only when the search is about to stop |
| `PeaksExactCorrect` | no update of a peak is lost |
| | *of `BfsEngine`, for every graph and any calls* |
| `TypeCorrect` | the queue holds no vertex twice; the masks hold what the graph has |
| `SearchesExactCorrect` | each search visits exactly the least closed set |
| `BoundaryReportedCorrect` | `forwardBfs` reports a minimal cut whole, each edge once |
| | *of `BfsMasks`, for words of every length besides* |
| `MasksImplementSearch` | `MaskSpec => Spec`: what is proved of `BfsEngine` holds beside the words |
| `MasksAreSetsCorrect` | between calls the words hold the masks: bit by bit, in the loop over the ones, in ascending order, with no bit in the padding |
| | *of `CutProcessor`, for every finite graph whose initial cut is minimal* |
| `SoundCorrect` | every cut recorded, waiting or branched off is a minimal cut |
| `GrowsCorrect` | a branch moves the source side forward |
| `BranchesMatchCorrect` | the frames of a branch are those `CutBranch` computes from the cut alone |
| `CompleteCorrect` | when no frame is left every minimal cut has been recorded |
| `LoadedStartsMinimal` | one edge out of the super-source, as `GraphLoader` makes it, is a minimal initial cut |
| | *of `SeenTable`, for every number of threads, set of keys, number and size of segments* |
| `KeysFindable` | a key in an array is where a probe from its own slot finds it, and there once, in the middle of a doubling too |
| `RoomAlways` | there is always a free slot, for an insertion and for what a doubling has still to move |
| `SizeExact` | `size()` counts every key once, but for the threads about to count |
| `TableIsASet` | the table implements `SeenSet!Spec` |
| | *of `Program`, for every command line, file, width of ids, and request to `graphgen`* |
| `WellFormedOnlyCorrect` | exactly the well-formed files become graphs |
| `GraphOfFileCorrect` | the graph is that of the file as long as the ids fit |
| `RowsExactCorrect` | the compressed rows are the adjacency lists |
| `RandomLoadsCorrect` | a random graph is refused only if a draw came to nothing; otherwise its last vertex is reached |
| `ChainCutsCorrect` | a chain of k diamonds is never refused, and its graph has 4k + 2 minimal cuts |
| `OptionsMeanCorrect` | the loops of `parseOptions` come to what the usage text says of the arguments |
| `ExitStatusCorrect` | the exit status is the one the usage text promises, if the output directory can be created and the ids of the super-vertices fit |
| | *of `CutWriter` and `CutReader`, for records of every size and number, if `NoFlushFault`* |
| `NothingLostCorrect` | as long as no error is flagged every record is in a file or in memory, in one place only |
| `InOrderCorrect` | records are in the order of the calls, but for those larger than the buffer, which overtake no more than a buffer holds |
| `SizesBoundedCorrect` | no file is too long, but for one with a single record larger than a file; the sizes the writer keeps are those of the files |
| `DurableCorrect` | when `flush()` returns without an error every record is on disk |
| `PrintsTheFilesCorrect` | what is printed is what the files hold, in order, each once, in full pages |
| `AnnouncedIsPrintedCorrect` | the number announced is the number printed, but for one record cut off in its edges |
| `EndToEndCorrect` | after a flush without an error everything handed to `writeCut` is printed |

The assumptions are those of the modules: `ThreadsAssumption`, `CutsAssumption`,
`LimitsAssumption` and `ModulusAssumption` of the solver and the reporter,
`GraphAssumption` and `TableAssumption` of `GraphSearch`, `GraphsAssumption` of `BfsEngine` and
`CutProcessor`, `IndexAssumption` of `BfsMasks`, `WordAssumption` of `Bitset`,
`TableAssumption` of `SeenTable`, `LoaderAssumption`, `RequestAssumption`,
`OptionsAssumption`, `DefaultAssumption`, `SessionAssumption`, `WriterAssumption` and
`ReaderAssumption`. TLC evaluates them on every run of a module that extends theirs. They
say what the types of the code say, and besides: that a table begins with four slots or
more; that a full buffer fits into an empty file behind the header; that vertices and edges
are numbered; that the vertices named on the command line are ids (`parseOptions` refuses
others); that the default directory is no text an argument can have (it is a name of its
own, so that a default is told from a value); and that the table of `GraphSearch` is the one
the graph gives.

Some theorems have hypotheses. Three of the solver and `FindsMinimalCutsCorrect` have
`TrustworthyScan == NumThreads <= 2 \/ SleepOutlastsScan`, without which finding 1
refutes them. `FindsMinimalCutsCorrect` has `DistinctHashes`: two cuts with one 128-bit
fingerprint are one cut to the table, and the later one is never looked at. The theorems
about `GraphSearch` and `CutProcessor` have a minimal initial cut (`StartsMinimal`,
`IsMinimalCut(InitialCut)`), without which finding 2 refutes them; `LoadedStartsMinimal` is the
reason why every graph that `GraphLoader` builds has one if its sink can be reached. Those of
`CutWriter` and `CutReader` have `NoFlushFault`, that the library never fails to write out
what it has accepted, and nothing on the other faults: files that do not open, headers and
writes that fail are all covered. Without it finding 3 refutes `Durable`, and
`DurableCorrect` says that the unchecked `fflush` and `fclose` are its only cause.

`FindsMinimalCutsCorrect` is the theorem the repository's first sentence asks for, and the
others lead to it or explain it: `CompleteOnReturnCorrect` (everything reached was examined),
`OnceInv` (once, by one thread), `TableAssumption` (with the branches of `CutBranch`),
`FamilyIsComplete` of `CutGraph` (a family with all its branches has every minimal cut).
`BranchesMatchCorrect` and `SearchesExactCorrect` say that the code of `processFrame` computes
those branches, `MasksAreSetsCorrect` that its bitsets are sets, `TableIsASet` that the table
of fingerprints is the set `ApdfsSolver` takes it for, `GraphOfFileCorrect` and
`RowsExactCorrect` that the graph it walks is the one in the file, and `EndToEndCorrect` that
what it writes is what a reader reads.

None of the properties is inductive as it stands. The strengthenings:

* `RunInv` and `IdleInv` (`ApdfsSolver_proofs`): which threads exist in which phase
  of `run()`; a raised flag occurs only from `scan` to `sleep` and with an empty
  stack.
* `OnceInv` (`ApdfsSolver_proofs`): the fingerprints of the cuts examined and of
  those under examination are all in the table *and pairwise different*. One
  lemma, `OnlyMarkAndRecord`, disposes of the actions that neither begin nor end an
  examination.
* `LossInv`: while a cut is under examination its branches are in the table,
  among the candidates left, or among the children. `PendingKept` says what any
  step may do to the frames of all threads together; it is proved per action, and
  no frame is lost follows from it.
* `LimitsInv`: once the flag is up, a thread can count one
  cut for each *place* left in its batch, a pair of the thread and a number below its
  room; counting a cut takes a place away and nothing gives one back. While the flag
  is down the limit is exceeded at most by the threads between counting and looking
  (`Late`), and `LateAndPlaces` fits both into the bound by cardinalities. `CalmStep`
  disposes of all actions but three.
* `DetectInv`: what a thread in the middle of a scan
  knows. With two threads the only flag a scan can have read and lost belongs to a
  thread that has nothing to steal from the scanner, whose stack is empty; with
  sleeps that outlast scans no thread can lower a flag that a scan under way has
  read. Either way a finished scan means that all are idle at that
  moment, and `SpillInv` and `IdleInv` turn this into `Drained`; `DrainedStep`
  keeps it.
* `ReachedInv`: every frame anywhere carries a cut that the enumeration has
  reached. With `CompleteOnReturn` and `OnceInv` this gives the step simulation:
  `Record` is `Examine`, the first store to the flag is `Complete` or `StopEarly`,
  everything else stutters.
* `CountInv`: `FrameConservation` with the sums as such. A sum over threads or cuts changes
  by what one summand changes (`Lemmas`), and every action changes one or two.
* `GraphSearch` adds `MinimalInv`, that whatever is examined is a minimal cut. A child of
  a minimal cut is the boundary of its own side (`ChildIsMinimal`), so this needs neither
  the order of the search nor distinct fingerprints; `AllExamined` needs both.
* Of the reporter: each step of `ReporterNext` is a step of the solver or leaves it
  alone; a pending update is no larger than the largest size reported, and the peak
  is that size or an update for it is pending.
* `BfsEngine_proofs`: what is visited is reachable, and an edge that leads out of the
  visited vertices is forbidden, waiting in the queue, or among the edges of the current
  vertex still to be looked at. When the call returns nothing is waiting, so the
  visited set is closed; `ReachIsLeast` (`CutGraph`) does the rest. A further part keeps
  the boundary reported so far.
* `MaskInv` (`BfsEngine_proofs`): each bitset *is* the one whose words are the set of indices
  cut into lengths of a word, padding empty, also in the middle of a search. A single bit
  keeps this by the arithmetic of `div` and `%`; resetting and copying by extensionality. That
  the loop over the ones of a word, and the fold that sets the forbidden edges, come to a set
  is by induction over finite sets (`SubsetInduction`).
* `CutProcessor_proofs`: a cut is known by its side, the vertices it leaves to the
  source, and a minimal cut is the boundary of its side (`MinimalIsBoundary`).
  Branching on `v` gives the least minimal cut whose side contains the frame's side
  and `v`. `MinimalInv` (all cuts anywhere are minimal) gives `Sound`. For `Complete`, take a
  minimal cut `M` that was not recorded and among the recorded cuts whose side lies within
  that of `M` one with the largest side (the vertices are finite): if it is not `M`, a head
  of one of its edges lies in `M`'s side, the branch on it stays within `M`, and it was
  recorded too.
* `SeenTable_proofs`: `LockInv` says who is in a critical section, and `SegmentInv` what
  holds of a segment at all times: from the own slot of a key to its place no slot is
  free, the count of occupied slots is exact, and it is at most half of the slots and one
  more. While a segment is doubled (`OldInv`) the keys moved and those left together fill
  at most a quarter of the new array and one slot more. `ProbeInv` says what a probe has
  passed: slots that are taken, none of them by its key; at a free slot the key is
  therefore not in the table. With that an insertion, or the look of `contains`, is the
  one moment at which `SeenSet` takes its step.
* `Program_proofs`: `ReadInv` says what the lines read so far have become, `FileInv` what
  `Accept` makes of them, `RowsInv` where the loops of `buildCsr` are. The place of an edge
  in the rows is a number of edges: those with a smaller end, and those with the same end
  before it (`Below`, `Same`); each loop brings an array nearer to these numbers.
  `GraphgenInv` keeps the path in the edges drawn and counts the draws that came to
  nothing, `ChainInv` the places of the diamonds in a file; `ReadsInv` ties the lines to the
  file. That the last vertex is reached needs induction along the path, for which the least
  vertex outside a closed set stands. For chains, `ChainIsLoaded` says that the graph is the
  chain of `CutGraph` (were its super-vertices to wrap, one of them would lie outside, and
  the loader would not be ready), and `ChainHasCuts` numbers its minimal cuts: what breaks
  the chain breaks one diamond on both branches.
* For `parseOptions`, `Lemmas` turns a fold into a function from rounds to values
  (`LoopIs`), and every loop gets a lemma about its rounds. `HornerIs` compares the sum of
  digits times powers of ten with the value the code builds from left to right, and
  `DigitFits` shows that its test before a digit refuses exactly the values that would not
  fit; `LastDecides` says that the last option with a key is the one that counts.
* `StatusInv` keeps what was decided at the arguments until the exit.
* `CutWriter_proofs`: `ControlInv` says which places in the code can call which;
  `PlacesInv` and `KeptInv` that every record is in one place; `OrderInv` that what a file
  has is older than what the buffer has, but for records that went past it;
  `FileSizesInv` and `BufferInv` the sizes. A header that fails flags an error and lets the
  write go on, so that the sizes are right only of a writer that is healthy or `Busy`.
* For the reader: `CleanInv` says that a writer that ended well left whole files;
  `CountingInv` and `PrintingInv` that what a pass has counted or printed is what lies
  `Behind` it, file by file. `StopStep` is the moment between writer and reader: whatever
  is lost there is the end of the last file.

`Lemmas` has what several of these need: `Head`, `Tail`, `Append`, `\o`, `SubSeq`, `Front`,
`Last` and `Reverse` and the elements they keep; sums over finite sets, where `Total` is the
number of the pairs of an index and a number below its summand (`Units`), so that the laws
of sums are those of cardinalities and need no recursion; sequences behind one another, by
the rank of a place; and induction. The library states induction for an operator, which
no installed prover can be given. `SetInduction` and `SubsetInduction` state it for a set of
the numbers, or of the finite sets, for which something holds, which serves as well for the
recursive functions and the folds that loops of the code become.

**Only model-checked.** Liveness, which is out of the prover's reach: `FramesSettle`,
`Terminates` and `RunFinishes`, and with them whatever is said under fairness. Every other
property of a passing run is a theorem. What TLC alone shows besides is that the models can
do what they are meant to: every action fires, and each property fails for a mutant.

## 6. Not modelled

* Rates, times, memory use and the wording of the reporter's lines and of the final
  report; `collectInMemory`; `edges.map`. None of them feeds back into the search.
* In `src/graph`: the digits of a number in a file, the fingerprints of edges, `addEdges`,
  and super-vertices without given ids, which only tests use.
* The number of segments; `SpinLock`'s back-off, which is time; fingerprints and the
  random generator, whose values are arithmetic that no property tells apart.
* File names and the clock behind them, the bytes of records.
* The search inside `Program` is one step: `ApdfsSolver`, `CutProcessor` and `CutWriter` have
  what happens in it.
* The options and rates of `graphgen`. Of `cutreader`: its options, `edges.map`, the
  form of its output, files whose header failed or has a wrong magic, and its check for
  an implausible size, which no record of the writer fails.
* Two solvers in one process, and `run()` twice on one solver.
* Benchmarks, tests and build files are not part of the program.

## 7. Plan

Done, in this order: `ApdfsSolver` with `CutEnumeration`, its runs and its proofs;
`CutGraph`, `CutBranch`, `BfsEngine`, `CutProcessor`; `SeenTable` against `SeenSet`;
`CutWriter`; `GraphLoader`; `CutReader` over `CutWriter`; `Reporter`; `Bitset` under
`BfsEngine`; `Options`, `Graphgen` and `Program`; the proofs about limits, reporter,
searches and branches; those about `SeenTable`, the loader and `graphgen`, the number of
frames, `CutWriter` and `CutReader`, and the exit status; then `GraphSearch` with the theorem
about minimal cuts, the words of the bitsets, the command line, and chains.

Left, the model: file names with a clock of seconds and two runs into one directory;
`run()` twice and two solvers with one flag; `edges.map` between solver and reader.

Left, the proofs: that `CutProcessor` refines `GraphSearch` with one thread, which would put a
simulation in the place of `TableAssumption`; and that `SeenTable` may stand for `mSeen` in
`ApdfsSolver`, a composition of two refinements that are proved.
