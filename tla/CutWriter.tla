----------------------------- MODULE CutWriter ------------------------------
(***************************************************************************)
(* One thread's output, src/src/cut/CutWriter.cpp: records go into a       *)
(* buffer in memory, from there into a file that is replaced by the next   *)
(* when it would become too long, and records larger than the buffer go    *)
(* around it.  Every call of the C library that can fail may fail; what    *)
(* the code has handed to the library is on disk only once fflush or       *)
(* fclose has succeeded.  The buffer's records are whole, so that the      *)
(* check in flushBuffer for a truncated one is left out; so are its checks *)
(* for a missing file, because a file is missing only after an error, and  *)
(* after an error neither flushBuffer nor writeCut comes that far.         *)
(***************************************************************************)
EXTENDS Integers, Sequences, FiniteSets, SequencesExt, Sums, Rows

CONSTANTS
    RecordSize,         \* the sizes of the records handed to writeCut
    HeaderSize,         \* 16
    BUFFER_CAPACITY,    \* 1 MiB
    MAX_FILE_SIZE,      \* 4 MiB
    MaxRecords,         \* how many records a behaviour writes (bound)
    Faults              \* the failures that happen: "open", "header", "write", "flush"

ASSUME WriterAssumption ==
    /\ RecordSize \subseteq Nat \ {0}
    /\ HeaderSize \in Nat /\ BUFFER_CAPACITY \in Nat /\ MAX_FILE_SIZE \in Nat
    /\ BUFFER_CAPACITY + HeaderSize <= MAX_FILE_SIZE
    /\ Faults \subseteq {"open", "header", "write", "flush"}

VARIABLES
    given,              \* the sizes of the records handed to writeCut
    pc, after,          \* the next step, "gone" when the process has ended
                        \* (CutReader); where flushBuffer returns to
    record,             \* the record writeCut holds, 0 if none
    mBuffer,            \* the records in the buffer, by number
    offset,             \* how many of them flushBuffer has written
    files,              \* the files: header written, records, torn at the end
    unsynced,           \* records of the last file still with the library
    mCurrentFileSize, mBytesWritten, mError

buffer  == <<record, mBuffer, offset>>
counted == <<mCurrentFileSize, mBytesWritten>>
vars    == <<given, pc, after, buffer, files, unsynced, counted, mError>>

Size(r) == given[r]
SizeOf(records) == Total([i \in DOMAIN records |-> Size(records[i])])
EmptyFile(header) == [header |-> header, body |-> <<>>, torn |-> FALSE]

\* The constructor opens the first file.
Init ==
    /\ given = <<>>
    /\ pc = "open" /\ after = "idle"
    /\ record = 0 /\ mBuffer = <<>> /\ offset = 0
    /\ files = <<>> /\ unsynced = 0
    /\ mCurrentFileSize = 0 /\ mBytesWritten = 0
    /\ mError = FALSE
-----------------------------------------------------------------------------
\* Mutant: a record that finds the buffer full goes around it.
WriteCutAround(size) ==
    /\ pc = "idle"
    /\ Len(given) < MaxRecords
    /\ given' = Append(given, size)
    /\ IF mError
       THEN UNCHANGED <<pc, after, record>>
       ELSE /\ record' = Len(given) + 1
            /\ IF SizeOf(mBuffer) + size > BUFFER_CAPACITY
               THEN pc' = "place" /\ after' = "direct"
               ELSE pc' = "append" /\ UNCHANGED after
    /\ UNCHANGED <<mBuffer, offset, files, unsynced, counted, mError>>

\* writeCut: the early return, a record larger than the buffer, a buffer that
\* must be flushed first, room in the buffer.
WriteCut(size) ==
    /\ pc = "idle"
    /\ Len(given) < MaxRecords
    /\ given' = Append(given, size)
    /\ IF mError
       THEN UNCHANGED <<pc, after, record>>
       ELSE /\ record' = Len(given) + 1
            /\ \/ /\ size > BUFFER_CAPACITY
                  /\ pc' = "place" /\ after' = "direct"
               \/ /\ size <= BUFFER_CAPACITY
                  /\ SizeOf(mBuffer) + size > BUFFER_CAPACITY
                  /\ pc' = "flush" /\ after' = "append"
               \/ /\ SizeOf(mBuffer) + size <= BUFFER_CAPACITY
                  /\ pc' = "append" /\ UNCHANGED after
    /\ UNCHANGED <<mBuffer, offset, files, unsynced, counted, mError>>

\* Mutant: the record that finds the buffer full is not put in afterwards.
AppendNothing ==
    /\ pc = "append"
    /\ pc' = "idle"
    /\ record' = 0
    /\ mBuffer' = IF mError \/ after = "append" THEN mBuffer ELSE Append(mBuffer, record)
    /\ after' = "idle"
    /\ UNCHANGED <<given, offset, files, unsynced, counted, mError>>

\* The record is copied into the buffer, unless the flush has failed.
AppendRecord ==
    /\ pc = "append"
    /\ pc' = "idle"
    /\ record' = 0
    /\ mBuffer' = IF mError THEN mBuffer ELSE Append(mBuffer, record)
    /\ after' = "idle"
    /\ UNCHANGED <<given, offset, files, unsynced, counted, mError>>

\* flush(), and the destructor.
Flush ==
    /\ pc = "idle"
    /\ pc' = "flush" /\ after' = "sync"
    /\ UNCHANGED <<given, buffer, files, unsynced, counted, mError>>

\* Mutant: the buffer is flushed, the library's is not.
FflushOmitted ==
    /\ pc = "sync"
    /\ pc' = "flushed"
    /\ UNCHANGED <<given, after, buffer, files, unsynced, counted, mError>>

\* The library writes out what it still has: all gets to the disk, or ("flush")
\* some of the last records are lost.
Synced ==
    {files} \cup
    {[files EXCEPT ![Len(files)].body = SubSeq(@, 1, Len(@) - n)] :
        n \in IF "flush" \in Faults THEN 1 .. unsynced ELSE {}}

\* fflush, whose result is not looked at.
Fflush ==
    /\ pc = "sync"
    /\ pc' = "flushed"
    /\ files' \in Synced
    /\ unsynced' = 0
    /\ UNCHANGED <<given, after, buffer, counted, mError>>

\* flush() returns to the caller.
FlushReturns ==
    /\ pc = "flushed"
    /\ pc' = "idle" /\ after' = "idle"
    /\ UNCHANGED <<given, buffer, files, unsynced, counted, mError>>
-----------------------------------------------------------------------------
\* flushBuffer has nothing to do, or an error has been flagged before.
FlushNothing ==
    /\ pc = "flush" /\ offset = 0
    /\ mBuffer = <<>> \/ mError
    /\ pc' = after
    /\ UNCHANGED <<given, after, buffer, files, unsynced, counted, mError>>

\* The loop of flushBuffer: the next record, or the end.
FlushRecord ==
    /\ pc = "flush"
    /\ offset < Len(mBuffer)
    /\ offset > 0 \/ ~mError
    /\ pc' = "place"
    /\ UNCHANGED <<given, after, buffer, files, unsynced, counted, mError>>

FlushEnds ==
    /\ pc = "flush"
    /\ offset > 0 /\ offset = Len(mBuffer)
    /\ mBuffer' = <<>> /\ offset' = 0
    /\ pc' = after
    /\ UNCHANGED <<given, after, record, files, unsynced, counted, mError>>

Current == IF after = "direct" THEN record ELSE mBuffer[offset + 1]

Fits == mCurrentFileSize + Size(Current) <= MAX_FILE_SIZE

\* Both ways to the file: a new one is opened when the record would not fit.
Place ==
    /\ pc = "place"
    /\ pc' = IF Fits THEN "write" ELSE "open"
    /\ UNCHANGED <<given, after, buffer, files, unsynced, counted, mError>>

\* Where an error leads back to; the buffer is left as it is.
Abandon ==
    /\ offset' = 0
    /\ \/ after \in {"append", "sync"} /\ pc' = after /\ UNCHANGED <<after, record>>
       \/ after \in {"idle", "direct"} /\ pc' = "idle" /\ after' = "idle" /\ record' = 0
    /\ UNCHANGED mBuffer

\* Mutant: the size of the last file is carried over.
OpenKeepsSize ==
    /\ pc = "open"
    /\ files' \in {Append(closed, EmptyFile(TRUE)) : closed \in Synced}
    /\ unsynced' = 0
    /\ mCurrentFileSize' = mCurrentFileSize + HeaderSize
    /\ mBytesWritten' = mBytesWritten + HeaderSize
    /\ pc' = IF after = "idle" THEN "idle" ELSE "write"
    /\ UNCHANGED <<given, after, buffer, mError>>

\* openNewFile: the last file is closed (fclose, whose result is not looked at),
\* the next one opened and its header written.
OpenNewFile ==
    /\ pc = "open"
    /\ files' \in {Append(closed, EmptyFile(TRUE)) : closed \in Synced}
    /\ unsynced' = 0
    /\ mCurrentFileSize' = HeaderSize
    /\ mBytesWritten' = mBytesWritten + HeaderSize
    /\ pc' = IF after = "idle" THEN "idle" ELSE "write"
    /\ UNCHANGED <<given, after, buffer, mError>>

OpenFails ==
    /\ "open" \in Faults
    /\ pc = "open"
    /\ files' \in Synced
    /\ unsynced' = 0
    /\ mError' = TRUE
    /\ Abandon
    /\ UNCHANGED <<given, counted>>

\* The error is flagged, but the caller asks only whether there is a file, and
\* goes on to write its record into it.
HeaderFails ==
    /\ "header" \in Faults
    /\ pc = "open"
    /\ files' \in {Append(closed, EmptyFile(FALSE)) : closed \in Synced}
    /\ unsynced' = 0
    /\ mError' = TRUE
    /\ pc' = IF after = "idle" THEN "idle" ELSE "write"
    /\ UNCHANGED <<given, after, buffer, counted>>

\* fwrite, of a record of the buffer or of writeDirectRecord's.
WriteRecord ==
    /\ pc = "write"
    /\ files' = [files EXCEPT ![Len(files)].body = Append(@, Current)]
    /\ unsynced' = unsynced + 1
    /\ mCurrentFileSize' = mCurrentFileSize + Size(Current)
    /\ mBytesWritten' = mBytesWritten + Size(Current)
    /\ IF after = "direct"
       THEN pc' = "idle" /\ after' = "idle" /\ record' = 0 /\ UNCHANGED offset
       ELSE pc' = "flush" /\ offset' = offset + 1 /\ UNCHANGED <<after, record>>
    /\ UNCHANGED <<given, mBuffer, mError>>

WriteFails ==
    /\ "write" \in Faults
    /\ pc = "write"
    /\ files' = [files EXCEPT ![Len(files)].torn = TRUE]
    /\ mError' = TRUE
    /\ Abandon
    /\ UNCHANGED <<given, unsynced, counted>>

Next ==
    \/ \E size \in RecordSize : WriteCut(size)
    \/ AppendRecord \/ Flush \/ FlushNothing \/ FlushRecord \/ FlushEnds
    \/ Fflush \/ FlushReturns
    \/ Place \/ OpenNewFile \/ OpenFails \/ HeaderFails \/ WriteRecord \/ WriteFails

Spec == Init /\ [][Next]_vars
-----------------------------------------------------------------------------
Record == 1 .. Len(given)

\* The records handed to the library, file by file.
Bodies  == [i \in DOMAIN files |-> files[i].body]
Written == Joined(Bodies)

\* The records in the files and those still in the buffer.
Kept == Written \o SubSeq(mBuffer, offset + 1, Len(mBuffer))

Healthy == pc # "gone" /\ ~mError

\* As long as no error is flagged, every record handed to writeCut is in one of
\* the files or in memory, and in one place only: rotation and flushes between
\* two records lose and repeat nothing.
NothingLost ==
    Healthy => /\ IsInjective(Kept)
               /\ ToSet(Kept) \cup ({record} \ {0}) = Record

\* Where, behind the i-th in the files, there are records of earlier calls.
Overtaken(i) == {j \in i + 1 .. Len(Kept) : Kept[j] < Kept[i]}

\* Records are written in the order of the calls, over all the files ("record
\* order broken at", tests/TestCutWriter.cpp:184), but for those larger than the
\* buffer, and these overtake no more than a buffer may hold.
InOrder ==
    Healthy =>
        \A i \in DOMAIN Kept :
            /\ Overtaken(i) # {} => Size(Kept[i]) > BUFFER_CAPACITY
            /\ Total([j \in Overtaken(i) |-> Size(Kept[j])]) <= BUFFER_CAPACITY

\* The buffer holds no more than its capacity, and no file is longer than
\* MAX_FILE_SIZE, but for one that has a single record and no room for it with
\* its header (tests/TestCutWriter.cpp:121).  As long as no error is flagged, the
\* sizes the writer keeps, from which it decides both, are those of the files.
SizesBounded ==
    /\ SizeOf(mBuffer) <= BUFFER_CAPACITY
    /\ \A i \in DOMAIN files :
          \/ HeaderSize + SizeOf(files[i].body) <= MAX_FILE_SIZE
          \/ Len(files[i].body) = 1
    /\ Healthy =>
          /\ \A i \in DOMAIN files : files[i].header /\ ~files[i].torn
          /\ mBytesWritten = Len(files) * HeaderSize + SizeOf(Written)
          /\ files # <<>> => mCurrentFileSize = HeaderSize + SizeOf(Last(files).body)

\* When flush() returns and no error is flagged, every record is on disk: the
\* program says so by its exit status ("0 on success", src/app/Options.cpp:88).
Durable ==
    pc = "flushed" /\ ~mError =>
        ToSet(SubSeq(Written, 1, Len(Written) - unsynced)) = Record
=============================================================================
