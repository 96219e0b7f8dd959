-------------------------------- MODULE Rows --------------------------------
(***************************************************************************)
(* The rows of a sequence of sequences behind one another, as one          *)
(* sequence: the k-th element is the one whose place has k - 1 places      *)
(* before it.  The recursive concatenation gives the same sequence; this   *)
(* one can be reasoned about without induction.                            *)
(***************************************************************************)
EXTENDS Integers, FiniteSets

Places(rows) == UNION {{i} \X DOMAIN rows[i] : i \in DOMAIN rows}

At(rows, p) == rows[p[1]][p[2]]

Before(p, q) == p[1] < q[1] \/ (p[1] = q[1] /\ p[2] < q[2])

Ahead(rows, p) == {q \in Places(rows) : Before(q, p)}

Ranked(rows, k) == CHOOSE p \in Places(rows) : Cardinality(Ahead(rows, p)) = k - 1

Joined(rows) == [k \in 1 .. Cardinality(Places(rows)) |-> At(rows, Ranked(rows, k))]
=============================================================================
