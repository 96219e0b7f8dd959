-------------------------------- MODULE Sums --------------------------------
(***************************************************************************)
(* The sum of the values of a function on a finite set, as the number of   *)
(* its units: one for each element of the domain and each number up to its *)
(* value.  A fold gives the same number; a cardinality can be reasoned     *)
(* about without induction.                                                *)
(***************************************************************************)
EXTENDS Integers, FiniteSets

Units(f) == UNION {{x} \X (1 .. f[x]) : x \in DOMAIN f}
Total(f) == Cardinality(Units(f))
=============================================================================
