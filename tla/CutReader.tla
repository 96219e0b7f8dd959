----------------------------- MODULE CutReader ------------------------------
(***************************************************************************)
(* The tool that prints a directory of cuts, src/tools/cutreader.cpp, over *)
(* the files one CutWriter leaves when its process ends in an orderly way  *)
(* or is killed: a first pass counts the cuts by jumping from record to    *)
(* record, a second one reads them and prints them page by page.           *)
(*                                                                         *)
(* Nothing is cut off but the end of the last file, in front of a record,  *)
(* within its size, or within its edges; a file without its whole header   *)
(* is one without records to both passes.  Files whose header failed and   *)
(* that have records all the same are left out: what is read from them     *)
(* depends on the bytes.  So is the check for an implausible size, which   *)
(* no record of the writer has, and the form in which an edge is printed.  *)
(* The names of one writer's files sort in the order of writing.           *)
(***************************************************************************)
EXTENDS CutWriter

CONSTANT PageSize       \* the values of --page; 0 if it is not given

ASSUME ReaderAssumption == PageSize \subseteq Nat

VARIABLES
    reading,            \* "no" (the writer runs), "count", "print", "prompt", "done"
    clean,              \* history: the writer's last flush returned without an error
    tail,               \* how the last file ends: "whole", "size", "edges"
    pageSize,
    file,               \* the file a pass is at
    totalCuts,
    next,               \* the second pass: the next record of the file
    printed,            \* what has been printed; globalIndex is its length
    pageStart, quit

pass       == <<file, totalCuts, next, printed, pageStart, quit>>
readerVars == <<reading, clean, tail, pageSize, pass>>

ReaderInit ==
    /\ Init
    /\ reading = "no" /\ clean = FALSE /\ tail = "whole" /\ pageSize = 0
    /\ file = 1 /\ totalCuts = 0
    /\ next = 1 /\ printed = <<>> /\ pageStart = 0 /\ quit = FALSE
-----------------------------------------------------------------------------
WriterStep == reading = "no" /\ Next /\ UNCHANGED readerVars

\* The writer's process is gone, and with it its memory; n records that the
\* library held back are missing from the last file, where part of the first of
\* them may remain.
Stop(n, end) ==
    /\ reading = "no"
    /\ \A i \in DOMAIN files : files[i].header
    /\ n <= unsynced
    /\ end # "whole" => files # <<>> /\ (n > 0 \/ Last(files).torn)
    /\ files' = IF n = 0 THEN files
                ELSE [files EXCEPT ![Len(files)].body = SubSeq(@, 1, Len(@) - n)]
    /\ tail' = end
    /\ clean' = (pc = "flushed" /\ ~mError)
    /\ record' = 0 /\ mBuffer' = <<>> /\ offset' = 0 /\ unsynced' = 0
    /\ mCurrentFileSize' = 0 /\ mBytesWritten' = 0 /\ mError' = FALSE
    /\ pc' = "gone" /\ after' = "idle"
    /\ UNCHANGED given

\* The reader is started; without files it says so and ends.
StartReading ==
    /\ \E n \in 0 .. unsynced, end \in {"whole", "size", "edges"} : Stop(n, end)
    /\ pageSize' \in PageSize
    /\ reading' = IF files = <<>> THEN "done" ELSE "count"
    /\ UNCHANGED pass

\* Mutant: the last file is not counted.
CountAllButLast ==
    /\ reading = "count"
    /\ totalCuts' = totalCuts + (IF file < Len(files) THEN Len(files[file].body) ELSE 0)
    /\ file' = IF file < Len(files) THEN file + 1 ELSE 1
    /\ reading' = IF file < Len(files) THEN "count" ELSE "print"
    /\ UNCHANGED <<vars, clean, tail, pageSize, next, printed, pageStart, quit>>

\* countCutsInFile: one for each size that can be read, whether its edges follow
\* or not; fseek goes beyond the end without complaint.
CountCutsInFile ==
    /\ reading = "count"
    /\ totalCuts' = totalCuts + Len(files[file].body)
                        + (IF file = Len(files) /\ tail = "edges" THEN 1 ELSE 0)
    /\ file' = IF file < Len(files) THEN file + 1 ELSE 1
    /\ reading' = IF file < Len(files) THEN "count" ELSE "print"
    /\ UNCHANGED <<vars, clean, tail, pageSize, next, printed, pageStart, quit>>

PageFull(cuts) == pageSize # 0 /\ cuts - pageStart >= pageSize

\* A record is read whole and printed; a full page asks before it goes on.
PrintCut ==
    /\ reading = "print"
    /\ next <= Len(files[file].body)
    /\ printed' = Append(printed, files[file].body[next])
    /\ next' = next + 1
    /\ reading' = IF PageFull(Len(printed) + 1) THEN "prompt" ELSE "print"
    /\ UNCHANGED <<vars, clean, tail, pageSize, file, totalCuts, pageStart, quit>>

NextPage ==
    /\ reading = "prompt"
    /\ pageStart' = Len(printed)
    /\ reading' = "print"
    /\ UNCHANGED <<vars, clean, tail, pageSize, file, totalCuts, next, printed, quit>>

Quit ==
    /\ reading = "prompt"
    /\ quit' = TRUE
    /\ reading' = "done"
    /\ UNCHANGED <<vars, clean, tail, pageSize, file, totalCuts, next, printed, pageStart>>

\* Mutant: the place in the file is not reset.
NextFileSamePlace ==
    /\ reading = "print"
    /\ next > Len(files[file].body)
    /\ IF file < Len(files)
       THEN file' = file + 1 /\ UNCHANGED <<next, reading>>
       ELSE reading' = "done" /\ UNCHANGED <<file, next>>
    /\ UNCHANGED <<vars, clean, tail, pageSize, totalCuts, printed, pageStart, quit>>

\* No further record, or not the whole of one: the next file, or the end.
NextFile ==
    /\ reading = "print"
    /\ next > Len(files[file].body)
    /\ IF file < Len(files)
       THEN file' = file + 1 /\ next' = 1 /\ UNCHANGED reading
       ELSE reading' = "done" /\ UNCHANGED <<file, next>>
    /\ UNCHANGED <<vars, clean, tail, pageSize, totalCuts, printed, pageStart, quit>>

Done == reading = "done" /\ UNCHANGED <<vars, readerVars>>

ReaderNext ==
    \/ WriterStep \/ StartReading
    \/ CountCutsInFile \/ PrintCut \/ NextPage \/ Quit \/ NextFile \/ Done

ReaderSpec == ReaderInit /\ [][ReaderNext]_<<vars, readerVars>>
-----------------------------------------------------------------------------
\* A prompt appears after each page and nowhere else, so that the numbers in it
\* ("Page ... (cuts ...-...)", cutreader.cpp:224) are right.
PagesFull ==
    pageSize # 0 =>
        /\ pageStart % pageSize = 0
        /\ reading = "prompt" => Len(printed) = pageStart + pageSize
        /\ reading = "print" => Len(printed) < pageStart + pageSize

\* What is printed is a beginning of what is in the files, each record once, in
\* full pages over the ends of the files; all of it unless the user quits.
PrintsTheFiles ==
    /\ IsPrefix(printed, Written) /\ IsInjective(printed)
    /\ reading = "done" /\ ~quit => printed = Written
    /\ PagesFull

\* The number of cuts announced before the first page is the number printed in
\* the end, but for one more if the last file ends within the edges of a record.
\* A writer that returned from its last flush leaves no such file.
AnnouncedIsPrinted ==
    reading \in {"print", "prompt", "done"} =>
        /\ totalCuts = Len(Written) + (IF tail = "edges" THEN 1 ELSE 0)
        /\ clean => totalCuts = Len(given)

\* From one end to the other: what was handed to the writer comes out of the
\* reader, provided that the last flush returned without an error.
EndToEnd ==
    clean /\ reading = "done" /\ ~quit => ToSet(printed) = Record
=============================================================================
