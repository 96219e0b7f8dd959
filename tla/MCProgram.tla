----------------------------- MODULE MCProgram ------------------------------
(***************************************************************************)
(* Ids of four bits and numbers up to 37.  Files written by hand have up   *)
(* to four lines: headers that announce no vertex, few, as many as fit,    *)
(* and more; edges between the first vertices and at the largest id,       *)
(* parallel edges and loops, and numbers that are no id.  Command lines    *)
(* that are tried without a file have every kind of mistake in them.       *)
(***************************************************************************)
EXTENDS Program

MCLine ==
    ({0, 1, 2, 13, 14, 15, 16} \X {2, 3}) \cup ({0, 1, 15} \X {0, 1, 2}) \cup {<<3, 16>>}

MCRequest ==
    {[mode |-> "missing"], [mode |-> "hand"]}
        \cup [mode : {"chain"}, k : 0 .. 2]
        \cup [mode : {"random"}, n : 1 .. 4, m : {1, 4, 5}]

Arg(form, key, text) == [form |-> form, key |-> key, text |-> text]
Word(text) == Arg("word", "", text)

\* No text; 0; 3; the largest id and the next number; the largest number, the next
\* two to which a digit may lead, and one with a leading zero; no number.
Texts ==
    {<<>>, <<0>>, <<3>>, <<1, 5>>, <<1, 6>>, <<3, 7>>, <<3, 8>>, <<4, 0>>, <<0, 3>>, <<1, NotDigit>>}

Graph3 == <<Word(<<NotDigit>>), Word(<<0>>), Word(<<3>>)>>

\* The words alone, up to six of them; every option beside good words, and a
\* second option of the same or another key; flags before and after.
WordLines ==
    {SubSeq(<<Word(<<NotDigit>>), Word(a), Word(b), Word(c), Word(<<>>), Word(<<3>>)>>, 1, n) :
        a \in Texts, b \in {<<0>>, <<1, 6>>, <<3, 8>>}, c \in Texts, n \in 0 .. 6}
OptionArgs == {Arg("option", key, text) : key \in Known \cup {"nonsense"}, text \in Texts}
Flags == {Arg(form, "", <<>>) : form \in {"help", "version", "progress", "bare"}}
OptionLines ==
    {Graph3 \o <<Word(<<3>>), a>> : a \in OptionArgs}
        \cup {<<a>> \o Graph3 \o <<b>> : a \in {o \in OptionArgs : o.text \in {<<3>>, <<3, 7>>, <<>>}},
                                         b \in {o \in OptionArgs : o.text \in {<<0>>, <<3>>, <<4, 0>>}}}
        \cup {<<f>> \o words \o <<a>> : f \in Flags, words \in {<<>>, Graph3},
                                        a \in {Arg("option", "nonsense", <<3>>),
                                               Arg("option", "threads", <<0>>),
                                               Arg("option", "maxCuts", <<3>>)}}

\* The arguments for a graph from u to v.
FromTo(u, v) == <<Word(<<NotDigit>>), Word(<<u>>), Word(<<v>>)>>

MCSession ==
    {<<[mode |-> "missing"], argv0>> : argv0 \in WordLines \cup OptionLines}
        \cup {<<[mode |-> "hand"], FromTo(u, v)>> : u \in {0, 1}, v \in {0, 2}}
        \cup {<<[mode |-> "chain", k |-> k], FromTo(0, 3 * k)>> : k \in 0 .. 2}
        \cup {<<r, FromTo(0, r.n - 1)>> : r \in {q \in MCRequest : q.mode = "random"}}

\* One file of good size and one command line, for the run whose directory cannot
\* be created.
SmallLine == {<<3, 2>>, <<0, 1>>, <<1, 2>>}
SmallSession == {<<[mode |-> "hand"], FromTo(0, 2)>>}

MCConfig == [superSource : 0 .. 15, superSink : 0 .. 15]
=============================================================================
