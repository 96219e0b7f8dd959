------------------------------ MODULE Options -------------------------------
(***************************************************************************)
(* The command line of apdfs: parseOptions of src/src/app/Options.cpp.     *)
(*                                                                         *)
(* An argument has a form: "word" (also one that begins with one hyphen),  *)
(* "help", "version", "progress", "bare" (--key) or "option" (--key=text); *)
(* a text is a sequence of digits and NotDigit.  The keys have the names   *)
(* of the fields they set.                                                 *)
(***************************************************************************)
EXTENDS Integers, Sequences, FiniteSets, SequencesExt

CONSTANTS
    MaxUnsigned,        \* the largest uint64_t
    VertexIndexMax,     \* the largest VertexIndex
    DefaultThreads,     \* hardware_concurrency, or 1 if that is unknown
    DefaultOutput       \* the text that stands for ./output

ASSUME OptionsAssumption ==
    /\ MaxUnsigned \in Nat /\ VertexIndexMax \in 0 .. MaxUnsigned
    /\ DefaultThreads \in Nat \ {0}

NotDigit == 10
Bad == -1

Text == Seq(0 .. NotDigit)
Argument ==
    [form : {"word", "help", "version", "progress", "bare", "option"}, key : STRING, text : Text]

\* The text that stands for the default is none that can be given.
ASSUME DefaultAssumption == DefaultOutput \notin Text

\* Mutant: the digit that is to come is not allowed for.
ParseUnsignedNearEnd(text) ==
    FoldLeft(LAMBDA value, c :
                 IF value = Bad \/ c = NotDigit \/ value > MaxUnsigned \div 10
                 THEN Bad ELSE (value * 10 + c) % (MaxUnsigned + 1),
             IF text = <<>> THEN Bad ELSE 0, text)

\* The number a text stands for, or Bad.
parseUnsigned(text) ==
    FoldLeft(LAMBDA value, c :
                 IF value = Bad \/ c = NotDigit \/ value > (MaxUnsigned - c) \div 10
                 THEN Bad ELSE (value * 10 + c) % (MaxUnsigned + 1),
             IF text = <<>> THEN Bad ELSE 0, text)

Limit == {"maxCuts", "maxCutSize", "maxExamined"}
Known == {"threads", "outputDir"} \cup Limit

Defaults ==
    [ok |-> TRUE, help |-> FALSE, version |-> FALSE, showProgress |-> FALSE,
     source |-> 0, sink |-> 0, threads |-> DefaultThreads, outputDir |-> DefaultOutput,
     maxCuts |-> 0, maxCutSize |-> 0, maxExamined |-> 0]
Refused == [Defaults EXCEPT !.ok = FALSE]

Words(argv) ==
    FoldLeft(LAMBDA words, arg : IF arg.form = "word" THEN Append(words, arg) ELSE words,
             <<>>, argv)
Has(argv, form) == \E arg \in ToSet(argv) : arg.form = form

\* The loop over explicitOptions: each overrides what was said before.
Override(options, arg) ==
    LET number == parseUnsigned(arg.text)
    IN  IF ~options.ok \/ arg.form # "option" THEN options
        ELSE CASE arg.key = "threads" ->
                    IF number \in {Bad, 0} THEN Refused ELSE [options EXCEPT !.threads = number]
               [] arg.key = "outputDir" ->
                    IF arg.text = <<>> THEN Refused ELSE [options EXCEPT !.outputDir = arg.text]
               [] arg.key \in Limit ->
                    IF number = Bad THEN Refused ELSE [options EXCEPT ![arg.key] = number]

\* The words: file, source, sink, and perhaps threads and output directory.
Positional(words, options) ==
    LET source  == parseUnsigned(words[2].text)
        sink    == parseUnsigned(words[3].text)
        threads == parseUnsigned(words[4].text)
    IN  IF \/ Len(words) \notin 3 .. 5
           \/ source \notin 0 .. VertexIndexMax \/ sink \notin 0 .. VertexIndexMax
           \/ Len(words) >= 4 /\ threads \in {Bad, 0}
        THEN Refused
        ELSE [options EXCEPT !.source = source, !.sink = sink,
                             !.threads = IF Len(words) >= 4 THEN threads ELSE @,
                             !.outputDir = IF Len(words) = 5 THEN words[5].text ELSE @]

\* A bare or unknown option is refused even beside --help, which in turn makes
\* the rest not be looked at.
parseOptions(argv) ==
    LET flags == [Defaults EXCEPT !.help = Has(argv, "help"), !.version = Has(argv, "version"),
                                  !.showProgress = Has(argv, "progress")]
    IN  CASE \/ Has(argv, "bare")
             \/ \E arg \in ToSet(argv) : arg.form = "option" /\ arg.key \notin Known -> Refused
          [] OTHER ->
               IF flags.help \/ flags.version THEN flags
               ELSE FoldLeft(Override, Positional(Words(argv), flags), argv)
-----------------------------------------------------------------------------
(***************************************************************************)
(* What the usage text promises, said of the whole command line at once.   *)
(***************************************************************************)
Power10[n \in Nat] == IF n = 0 THEN 1 ELSE 10 * Power10[n - 1]
Number(text) ==
    FoldLeft(LAMBDA sum, i : sum + text[i] * Power10[Len(text) - i], 0, [i \in DOMAIN text |-> i])
IsNumber(text) == text # <<>> /\ NotDigit \notin ToSet(text) /\ Number(text) <= MaxUnsigned
IsVertex(text) == IsNumber(text) /\ Number(text) <= VertexIndexMax
IsPositive(text) == IsNumber(text) /\ Number(text) > 0

Valid(argv) ==
    LET words == Words(argv)
        options == {arg \in ToSet(argv) : arg.form = "option"}
    IN  /\ ~Has(argv, "bare") /\ \A arg \in options : arg.key \in Known
        /\ \/ Has(argv, "help") \/ Has(argv, "version")
           \/ /\ Len(words) \in 3 .. 5 /\ IsVertex(words[2].text) /\ IsVertex(words[3].text)
              /\ Len(words) >= 4 => IsPositive(words[4].text)
              /\ \A arg \in options : CASE arg.key = "threads" -> IsPositive(arg.text)
                                        [] arg.key = "outputDir" -> arg.text # <<>>
                                        [] OTHER -> IsNumber(arg.text)

\* The text that decides a field: of the last option with its key, else of the
\* n-th word.  Without either the default stands.
Given(argv, key, n) ==
    LET at    == {i \in DOMAIN argv : argv[i].form = "option" /\ argv[i].key = key}
        words == Words(argv)
    IN  IF at # {} THEN argv[Max(at)].text
        ELSE IF Len(words) >= n THEN words[n].text ELSE DefaultOutput
=============================================================================
