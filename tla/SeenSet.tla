------------------------------ MODULE SeenSet -------------------------------
(***************************************************************************)
(* What the table of fingerprints promises to the threads: a set, and two  *)
(* operations on it that take effect at one moment between their call and  *)
(* their return.  ApdfsSolver uses it in this form.                        *)
(***************************************************************************)
CONSTANTS Thread, Key

VARIABLES
    members,    \* the set
    call,       \* the operation each thread has called, or called last
    key,        \* its argument
    stage,      \* "idle", "called", "answered"
    answer      \* what it returned, or is about to return

vars == <<members, call, key, stage, answer>>

Init ==
    /\ members = {}
    /\ call = [t \in Thread |-> "contains"]
    /\ key \in [Thread -> Key]
    /\ stage = [t \in Thread |-> "idle"]
    /\ answer = [t \in Thread |-> FALSE]

Invoke(t, operation, k) ==
    /\ stage[t] = "idle"
    /\ stage' = [stage EXCEPT ![t] = "called"]
    /\ call' = [call EXCEPT ![t] = operation]
    /\ key' = [key EXCEPT ![t] = k]
    /\ UNCHANGED <<members, answer>>

\* The moment at which the operation takes effect.
Answer(t, what) ==
    /\ stage[t] = "called"
    /\ answer' = [answer EXCEPT ![t] = what]
    /\ \E next \in {"answered", "idle"} : stage' = [stage EXCEPT ![t] = next]
    /\ UNCHANGED <<call, key>>

tryMarkProcessing(t) ==
    /\ call[t] = "tryMarkProcessing"
    /\ Answer(t, key[t] \notin members)
    /\ members' = members \cup {key[t]}

contains(t) ==
    /\ call[t] = "contains"
    /\ Answer(t, key[t] \in members)
    /\ UNCHANGED members

Return(t) ==
    /\ stage[t] = "answered"
    /\ stage' = [stage EXCEPT ![t] = "idle"]
    /\ UNCHANGED <<members, call, key, answer>>

Next == \E t \in Thread :
    \/ tryMarkProcessing(t) \/ contains(t) \/ Return(t)
    \/ \E operation \in {"tryMarkProcessing", "contains"}, k \in Key : Invoke(t, operation, k)

Spec == Init /\ [][Next]_vars
=============================================================================
