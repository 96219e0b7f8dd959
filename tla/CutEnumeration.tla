--------------------------- MODULE CutEnumeration ---------------------------
(***************************************************************************)
(* What the solver promises, with no threads, stacks or flags: cuts are    *)
(* examined one at a time, each fingerprint at most once, starting at the  *)
(* initial cut and following the branches; and the enumeration is called   *)
(* complete only when nothing is left to examine.                          *)
(***************************************************************************)
EXTENDS Sequences

CONSTANTS Cut, Root, Candidates, cutHash

VARIABLES
    examined,    \* the cuts examined so far
    outcome      \* "running", "complete" or "stopped"

vars == <<examined, outcome>>

Fingerprints == {cutHash[c] : c \in examined}

\* The initial cut, and the branches of the cuts examined so far.
Reached == {Root} \cup UNION {{Candidates[c][i] : i \in DOMAIN Candidates[c]} : c \in examined}

NothingLeft == \A c \in Reached : cutHash[c] \in Fingerprints

Init == examined = {} /\ outcome = "running"

\* Frames in progress are finished after the search has been stopped.
Examine(c) ==
    /\ outcome # "complete"
    /\ cutHash[c] \notin Fingerprints
    /\ examined' = examined \cup {c}
    /\ UNCHANGED outcome

\* All is examined.
Complete ==
    /\ outcome = "running"
    /\ NothingLeft
    /\ outcome' = "complete"
    /\ UNCHANGED examined

\* A limit, a signal, or a sink that cannot be reached.
StopEarly ==
    /\ outcome = "running"
    /\ outcome' = "stopped"
    /\ UNCHANGED examined

Next == Complete \/ StopEarly \/ \E c \in Reached : Examine(c)

Spec == Init /\ [][Next]_vars
=============================================================================
