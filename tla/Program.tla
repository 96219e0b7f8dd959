------------------------------ MODULE Program ------------------------------
(***************************************************************************)
(* From a file to an exit status: main of src/src/app/main.cpp with the    *)
(* command line (Options), the loader (GraphLoader) and the tool that      *)
(* writes graph files (Graphgen).  The search is one step here, which may  *)
(* end in three ways; ApdfsSolver and CutWriter have what happens in it.   *)
(*                                                                         *)
(* A session is a command line and where its file comes from: Graphgen, a  *)
(* hand that writes any lines ("hand"), or nowhere ("missing").            *)
(***************************************************************************)
EXTENDS GraphLoader, Options, Graphgen

CONSTANT Session        \* pairs of a request, or a record of one of these modes, and arguments

ASSUME SessionAssumption ==
    /\ VertexIndexMax = 2 ^ Width - 1
    /\ \A session \in Session : session[1] \in Request /\ session[2] \in Seq(Argument)

VARIABLES
    argv,
    stage,              \* "make" (graphgen runs), "parse", "load", "exit"
    outcome,            \* how the search ended: "none", or see Solve
    status              \* the exit status, "none" before it, "undefined"

programVars == <<vars, graphgenVars, argv, stage, outcome, status>>

parsed == parseOptions(argv)

\* loaderConfig is filled from the options.
ProgramInit ==
    /\ \E session \in Session : request = session[1] /\ argv = session[2]
    /\ config = [superSource |-> parsed.source, superSink |-> parsed.sink]
    /\ GraphgenInit
    /\ Init
    /\ stage = IF request.mode \in {"chain", "random"} THEN "make" ELSE "parse"
    /\ outcome = "none" /\ status = "none"
-----------------------------------------------------------------------------
Make ==
    /\ stage = "make"
    /\ GraphgenStep
    /\ UNCHANGED <<vars, argv, stage, outcome, status>>

\* graphgen has written a file, or refuses to and writes none.
Made ==
    /\ stage = "make"
    /\ file # <<>> \/ Refuses
    /\ stage' = "parse"
    /\ UNCHANGED <<vars, graphgenVars, argv, outcome, status>>

Exit(code) ==
    /\ stage' = "exit" /\ status' = code
    /\ UNCHANGED <<vars, graphgenVars, argv>>

\* Mutant: help is given before the arguments are looked at.
ParseArgumentsHelpFirst ==
    /\ stage = "parse"
    /\ UNCHANGED outcome
    /\ \/ Has(argv, "help") /\ Exit("0")
       \/ ~Has(argv, "help") /\ ~parsed.ok /\ Exit("2")
       \/ ~Has(argv, "help") /\ parsed.ok /\ parsed.version /\ Exit("0")
       \/ /\ parsed.ok /\ ~parsed.help /\ ~parsed.version
          /\ stage' = "load"
          /\ UNCHANGED <<vars, graphgenVars, argv, status>>

ParseArguments ==
    /\ stage = "parse"
    /\ UNCHANGED outcome
    /\ \/ ~parsed.ok /\ Exit("2")
       \/ parsed.ok /\ (parsed.help \/ parsed.version) /\ Exit("0")
       \/ /\ parsed.ok /\ ~parsed.help /\ ~parsed.version
          /\ stage' = "load"
          /\ UNCHANGED <<vars, graphgenVars, argv, status>>

\* The lines the loader may find next, and whether the file may end here.
NextLine ==
    IF request.mode = "hand" THEN {line \in Line \cup {Unparsable} : Len(lines) < MaxLines}
    ELSE IF Len(lines) < Len(file) THEN {file[Len(lines) + 1]} ELSE {}
AtEnd == request.mode = "hand" \/ Len(lines) = Len(file)

Load ==
    /\ stage = "load"
    /\ \/ \E line \in NextLine : ReadLine(line)
       \/ AtEnd /\ (Reject \/ Accept)
       \/ Build
    /\ UNCHANGED <<graphgenVars, argv, stage, outcome, status>>

LoadFails ==
    /\ stage = "load" /\ pc = "rejected"
    /\ Exit("1")
    /\ UNCHANGED outcome

LoadUndefined ==
    /\ stage = "load" /\ pc = "undefined"
    /\ Exit("undefined")
    /\ UNCHANGED outcome

\* solver.run() cannot create the directory, and nothing catches the exception; or
\* a writer has flagged an error; or neither.
Solve ==
    /\ stage = "load" /\ pc = "ready"
    /\ \/ outcome' = "noDirectory" /\ Exit("aborted")
       \/ outcome' = "writeError" /\ Exit("1")
       \/ outcome' = "solved" /\ Exit("0")

Exited == stage = "exit" /\ UNCHANGED programVars

ProgramNext ==
    \/ Make \/ Made \/ ParseArguments
    \/ Load \/ LoadFails \/ LoadUndefined \/ Solve \/ Exited

ProgramSpec == ProgramInit /\ [][ProgramNext]_programVars
-----------------------------------------------------------------------------
\* Parsing the arguments one after the other gives what the usage text says of
\* them all: numbers are their decimal values and too large ones are refused,
\* never wrapped; options override words wherever they stand, the last one wins;
\* what is overridden must be valid all the same.
OptionsMean ==
    stage = "parse" =>
        /\ parsed.ok <=> Valid(argv)
        /\ parsed.ok => parsed.help = Has(argv, "help") /\ parsed.version = Has(argv, "version")
        /\ parsed.ok /\ ~parsed.help /\ ~parsed.version =>
              /\ parsed.source = Number(Words(argv)[2].text)
              /\ parsed.sink = Number(Words(argv)[3].text)
              /\ parsed.outputDir = Given(argv, "outputDir", 5)
              /\ LET threads == Given(argv, "threads", 4)
                 IN  parsed.threads = IF threads = DefaultOutput THEN DefaultThreads
                                      ELSE Number(threads)
              /\ \A key \in Limit :
                    LET limit == Given(argv, key, 6)
                    IN  parsed[key] = IF limit = DefaultOutput THEN 0 ELSE Number(limit)

\* "Exit status: 0 on success, 1 on runtime failure, 2 on invalid arguments"
\* (src/app/Options.cpp:88).  A success is an answer to --help or --version, or a
\* search of a well-formed file after which no writer has flagged an error.
PromisedStatus ==
    IF ~Valid(argv) THEN "2"
    ELSE IF Has(argv, "help") \/ Has(argv, "version") \/ (WellFormed /\ outcome = "solved")
         THEN "0" ELSE "1"

\* The program ends with the status that the usage text promises, whatever the
\* command line, the file and the directory (finding 4: it does not).
ExitStatusPromised == stage = "exit" => status = PromisedStatus

\* It does if the output directory can be created and a well-formed file announces
\* no more vertices than leave ids for the super-vertices: main settles the status
\* at five places, and all other mistakes end in the right one.
ExitStatusTrue ==
    stage = "exit" /\ outcome # "noDirectory" /\ (WellFormed => IdsFit)
        => status = PromisedStatus

Graph == INSTANCE CutGraph WITH
    Vertex <- Vertices, Edge <- DOMAIN mEdges,
    tail <- [e \in DOMAIN mEdges |-> mEdges[e][1]], head <- [e \in DOMAIN mEdges |-> mEdges[e][2]],
    superSource <- builder.mSuperSource, superSink <- builder.mSuperSink

\* A random graph is refused exactly if a draw came to nothing, for the header has
\* the number asked for (graphgen.cpp:146).  Otherwise it is a graph whose last
\* vertex the first one reaches: the path is in it whatever else was drawn.
RandomLoads ==
    request.mode = "random" /\ file # <<>> /\ config = [superSource |-> 0, superSink |-> request.n - 1] =>
        /\ pc = "rejected" => dropped > 0
        /\ pc = "ready" /\ stage = "load" =>
              dropped = 0 /\ builder.mSuperSink \in Graph!Reach({builder.mSuperSource}, {})

\* A chain of k diamonds, from its first vertex to its last, has the 4k minimal
\* cuts of the closed form (tests/TestCompleteness.cpp:250) once it is written,
\* read and built, and the two edges of the super-vertices, a cut each.
ChainCuts ==
    request.mode = "chain" /\ config = [superSource |-> 0, superSink |-> 3 * request.k] =>
        /\ pc # "rejected"
        /\ pc = "ready" /\ stage = "load" => Cardinality(Graph!MinimalCuts) = 4 * request.k + 2
=============================================================================
