------------------------------- MODULE Lemmas -------------------------------
(***************************************************************************)
(* Facts the proofs of several modules rest on: about sequences, which     *)
(* stand for std::vector throughout, about sums, about rows behind one     *)
(* another, and about induction, recursive functions and loops.            *)
(***************************************************************************)
EXTENDS Integers, Sequences, SequencesExt, Sums, Rows, FiniteSetTheorems, WellFoundedInduction,
        TLAPS

(***************************************************************************)
(* What the operators on sequences return, and which elements they keep.   *)
(* std::vector is a sequence throughout.                                   *)
(***************************************************************************)
(* A sequence has the elements found at its positions. *)
LEMMA InToSet ==
    ASSUME NEW S, NEW s \in Seq(S)
    PROVE  /\ ToSet(s) \subseteq S
           /\ \A x : x \in ToSet(s) <=> \E i \in 1 .. Len(s) : s[i] = x
<1>1. DOMAIN s = 1 .. Len(s) /\ \A i \in 1 .. Len(s) : s[i] \in S
  OBVIOUS
<1>. QED  BY <1>1 DEF ToSet

(* A set is the set of the elements of a sequence made from it. *)
LEMMA SetToSeqElements ==
    ASSUME NEW S, IsFiniteSet(S)
    PROVE  ToSet(SetToSeq(S)) = S
<1>. DEFINE n == Cardinality(S)
            s == SetToSeq(S)
<1>1. n \in Nat /\ ExistsBijection(1 .. n, S)
  BY FS_CardinalityType
<1>2. \E f \in [1 .. n -> S] : IsInjective(f)
  BY <1>1 DEF ExistsBijection, Bijection, Injection
<1>3. s \in [1 .. n -> S] /\ IsInjective(s)
  BY <1>2 DEF SetToSeq
<1>. HIDE DEF s
<1>. DEFINE R == {s[i] : i \in 1 .. n}
<1>4. R \subseteq S
  BY <1>3
<1>5. s \in Bijection(1 .. n, R)
  BY <1>3 DEF Bijection, Injection, Surjection, IsInjective
<1>6. Cardinality(R) = n
  BY <1>1, <1>5, FS_CountingElements DEF ExistsBijection
<1>7. R = S
  BY <1>4, <1>6, FS_Subset
<1>8. ToSet(s) = R
  BY <1>3 DEF ToSet
<1>. QED  BY <1>7, <1>8 DEF s

(* erase of the first element. *)
LEMMA HeadTail ==
    ASSUME NEW S, NEW s \in Seq(S), s # <<>>
    PROVE  /\ Tail(s) \in Seq(S)
           /\ Head(s) \in S
           /\ ToSet(s) = {Head(s)} \cup ToSet(Tail(s))
<1>1. Len(s) \in Nat \ {0}
  OBVIOUS
<1>2. Tail(s) \in Seq(S) /\ Len(Tail(s)) = Len(s) - 1
  BY <1>1
<1>3. \A i \in 1 .. Len(s) - 1 : Tail(s)[i] = s[i + 1]
  BY <1>1
<1>4. Head(s) \in S /\ Head(s) = s[1]
  BY <1>1
<1>5. ASSUME NEW x
      PROVE  x \in ToSet(s) <=> x \in {Head(s)} \cup ToSet(Tail(s))
  <2>1. x \in ToSet(s) <=> \E i \in 1 .. Len(s) : s[i] = x
    BY InToSet
  <2>2. x \in ToSet(Tail(s)) <=> \E i \in 1 .. Len(s) - 1 : Tail(s)[i] = x
    BY <1>2, InToSet
  <2>3. ASSUME NEW i \in 1 .. Len(s), s[i] = x, x # Head(s)
        PROVE  i - 1 \in 1 .. Len(s) - 1 /\ Tail(s)[i - 1] = x
    BY <1>1, <1>3, <1>4, <2>3
  <2>4. ASSUME NEW i \in 1 .. Len(s) - 1
        PROVE  i + 1 \in 1 .. Len(s) /\ s[i + 1] = Tail(s)[i]
    BY <1>1, <1>3
  <2>5. 1 \in 1 .. Len(s) /\ s[1] = Head(s)
    BY <1>1, <1>4
  <2>6. CASE x = Head(s)
    BY <2>1, <2>5, <2>6
  <2>7. CASE x # Head(s)
    BY <2>1, <2>2, <2>3, <2>4, <2>7
  <2>. QED  BY <2>6, <2>7
<1>. QED  BY <1>2, <1>4, <1>5

(* push_back. *)
LEMMA AppendElement ==
    ASSUME NEW S, NEW s \in Seq(S), NEW e \in S
    PROVE  /\ Append(s, e) \in Seq(S)
           /\ Len(Append(s, e)) = Len(s) + 1
           /\ ToSet(Append(s, e)) = ToSet(s) \cup {e}
<1>1. Append(s, e) \in Seq(S) /\ Len(Append(s, e)) = Len(s) + 1 /\ Len(s) \in Nat
  OBVIOUS
<1>2. \A i \in 1 .. Len(s) + 1 : Append(s, e)[i] = IF i = Len(s) + 1 THEN e ELSE s[i]
  OBVIOUS
<1>3. ASSUME NEW x
      PROVE  x \in ToSet(Append(s, e)) <=> x \in ToSet(s) \cup {e}
  <2>1. x \in ToSet(s) <=> \E i \in 1 .. Len(s) : s[i] = x
    BY InToSet
  <2>2. x \in ToSet(Append(s, e)) <=> \E i \in 1 .. Len(s) + 1 : Append(s, e)[i] = x
    BY <1>1, InToSet
  <2>. QED  BY <1>1, <1>2, <2>1, <2>2
<1>. QED  BY <1>1, <1>3

(* insert at the end of a range of elements. *)
LEMMA ConcatElements ==
    ASSUME NEW S, NEW s \in Seq(S), NEW u \in Seq(S)
    PROVE  /\ s \o u \in Seq(S)
           /\ Len(s \o u) = Len(s) + Len(u)
           /\ ToSet(s \o u) = ToSet(s) \cup ToSet(u)
<1>1. s \o u \in Seq(S) /\ Len(s \o u) = Len(s) + Len(u) /\ Len(s) \in Nat /\ Len(u) \in Nat
  OBVIOUS
<1>2. \A i \in 1 .. Len(s) + Len(u) :
        (s \o u)[i] = IF i <= Len(s) THEN s[i] ELSE u[i - Len(s)]
  OBVIOUS
<1>3. ASSUME NEW x
      PROVE  x \in ToSet(s \o u) <=> x \in ToSet(s) \cup ToSet(u)
  <2>1. x \in ToSet(s) <=> \E i \in 1 .. Len(s) : s[i] = x
    BY InToSet
  <2>2. x \in ToSet(u) <=> \E i \in 1 .. Len(u) : u[i] = x
    BY InToSet
  <2>3. x \in ToSet(s \o u) <=> \E i \in 1 .. Len(s) + Len(u) : (s \o u)[i] = x
    BY <1>1, InToSet
  <2>4. ASSUME NEW i \in 1 .. Len(s)
        PROVE  i \in 1 .. Len(s) + Len(u) /\ (s \o u)[i] = s[i]
    BY <1>1, <1>2
  <2>5. ASSUME NEW i \in 1 .. Len(u)
        PROVE  i + Len(s) \in 1 .. Len(s) + Len(u) /\ (s \o u)[i + Len(s)] = u[i]
    BY <1>1, <1>2
  <2>6. ASSUME NEW i \in 1 .. Len(s) + Len(u)
        PROVE  \/ i \in 1 .. Len(s) /\ (s \o u)[i] = s[i]
               \/ i - Len(s) \in 1 .. Len(u) /\ (s \o u)[i] = u[i - Len(s)]
    BY <1>1, <1>2
  <2>. QED  BY <2>1, <2>2, <2>3, <2>4, <2>5, <2>6
<1>. QED  BY <1>1, <1>3

(* A vector taken apart at a position: nothing is lost and nothing is added. *)
LEMMA SplitElements ==
    ASSUME NEW S, NEW s \in Seq(S), NEW k \in 0 .. Len(s)
    PROVE  /\ SubSeq(s, 1, k) \in Seq(S)
           /\ SubSeq(s, k + 1, Len(s)) \in Seq(S)
           /\ Len(SubSeq(s, 1, k)) = k
           /\ Len(SubSeq(s, k + 1, Len(s))) = Len(s) - k
           /\ ToSet(s) = ToSet(SubSeq(s, 1, k)) \cup ToSet(SubSeq(s, k + 1, Len(s)))
<1>. DEFINE a == SubSeq(s, 1, k)
            b == SubSeq(s, k + 1, Len(s))
<1>1. a \in Seq(S) /\ Len(a) = k /\ Len(s) \in Nat
  OBVIOUS
<1>2. b \in Seq(S) /\ Len(b) = Len(s) - k
  OBVIOUS
<1>3. \A i \in 1 .. k : a[i] = s[i]
  OBVIOUS
<1>4. \A i \in 1 .. Len(s) - k : b[i] = s[k + i]
  OBVIOUS
<1>. HIDE DEF a, b
<1>5. ASSUME NEW x
      PROVE  x \in ToSet(s) <=> x \in ToSet(a) \cup ToSet(b)
  <2>1. x \in ToSet(s) <=> \E i \in 1 .. Len(s) : s[i] = x
    BY InToSet
  <2>2. x \in ToSet(a) <=> \E i \in 1 .. k : a[i] = x
    BY <1>1, InToSet
  <2>3. x \in ToSet(b) <=> \E i \in 1 .. Len(s) - k : b[i] = x
    BY <1>2, InToSet
  <2>4. ASSUME NEW i \in 1 .. Len(s)
        PROVE  \/ i \in 1 .. k /\ a[i] = s[i]
               \/ i - k \in 1 .. Len(s) - k /\ b[i - k] = s[i]
    BY <1>1, <1>3, <1>4
  <2>5. ASSUME NEW i \in 1 .. k
        PROVE  i \in 1 .. Len(s) /\ s[i] = a[i]
    BY <1>1, <1>3
  <2>6. ASSUME NEW i \in 1 .. Len(s) - k
        PROVE  k + i \in 1 .. Len(s) /\ s[k + i] = b[i]
    BY <1>1, <1>4
  <2>. QED  BY <2>1, <2>2, <2>3, <2>4, <2>5, <2>6
<1>. QED  BY <1>1, <1>2, <1>5 DEF a, b

(* pop_back: the last element and the rest. *)
LEMMA FrontLast ==
    ASSUME NEW S, NEW s \in Seq(S), s # <<>>
    PROVE  /\ Front(s) \in Seq(S)
           /\ Last(s) \in S
           /\ Len(Front(s)) = Len(s) - 1
           /\ ToSet(s) = ToSet(Front(s)) \cup {Last(s)}
<1>1. Len(s) \in Nat \ {0}
  OBVIOUS
<1>2. Front(s) \in Seq(S) /\ Len(Front(s)) = Len(s) - 1
  <2>1. Len(s) - 1 \in 0 .. Len(s)
    BY <1>1
  <2>. QED  BY <2>1, SplitElements DEF Front
<1>3. \A i \in 1 .. Len(s) - 1 : Front(s)[i] = s[i]
  BY <1>1 DEF Front
<1>4. Last(s) \in S /\ Last(s) = s[Len(s)]
  BY <1>1 DEF Last
<1>5. ASSUME NEW x
      PROVE  x \in ToSet(s) <=> x \in ToSet(Front(s)) \cup {Last(s)}
  <2>1. x \in ToSet(s) <=> \E i \in 1 .. Len(s) : s[i] = x
    BY InToSet
  <2>2. x \in ToSet(Front(s)) <=> \E i \in 1 .. Len(s) - 1 : Front(s)[i] = x
    BY <1>2, InToSet
  <2>. QED  BY <1>1, <1>3, <1>4, <2>1, <2>2
<1>. QED  BY <1>2, <1>4, <1>5

(* Reversing a vector keeps its elements. *)
LEMMA ReverseElements ==
    ASSUME NEW S, NEW s \in Seq(S)
    PROVE  /\ Reverse(s) \in Seq(S)
           /\ Len(Reverse(s)) = Len(s)
           /\ ToSet(Reverse(s)) = ToSet(s)
<1>1. Len(s) \in Nat /\ \A i \in 1 .. Len(s) : s[i] \in S
  OBVIOUS
<1>2. \A i \in 1 .. Len(s) : Len(s) - i + 1 \in 1 .. Len(s)
  BY <1>1
<1>3. Reverse(s) \in [1 .. Len(s) -> S]
  BY <1>1, <1>2 DEF Reverse
<1>4. Reverse(s) \in Seq(S) /\ Len(Reverse(s)) = Len(s)
  BY <1>1, <1>3
<1>5. \A i \in 1 .. Len(s) : Reverse(s)[i] = s[Len(s) - i + 1]
  BY DEF Reverse
<1>6. ASSUME NEW x
      PROVE  x \in ToSet(Reverse(s)) <=> x \in ToSet(s)
  <2>1. x \in ToSet(s) <=> \E i \in 1 .. Len(s) : s[i] = x
    BY InToSet
  <2>2. x \in ToSet(Reverse(s)) <=> \E i \in 1 .. Len(s) : Reverse(s)[i] = x
    BY <1>4, InToSet
  <2>3. ASSUME NEW i \in 1 .. Len(s), s[i] = x
        PROVE  \E j \in 1 .. Len(s) : Reverse(s)[j] = x
    <3>1. Reverse(s)[Len(s) - i + 1] = s[Len(s) - (Len(s) - i + 1) + 1]
      BY <1>2, <1>5
    <3>2. Len(s) - (Len(s) - i + 1) + 1 = i
      BY <1>1
    <3>. QED  BY <1>2, <2>3, <3>1, <3>2
  <2>. QED  BY <1>2, <1>5, <2>1, <2>2, <2>3
<1>. QED  BY <1>4, <1>6
-----------------------------------------------------------------------------
(***************************************************************************)
(* Sums.                                                                   *)
(***************************************************************************)

(* The units of a value are as many as the value says. *)
LEMMA UnitsOfOne ==
    ASSUME NEW x, NEW n \in Nat
    PROVE  IsFiniteSet({x} \X (1 .. n)) /\ Cardinality({x} \X (1 .. n)) = n
<1>1. IsFiniteSet(1 .. n) /\ Cardinality(1 .. n) = n
  BY FS_Interval
<1>2. IsFiniteSet({x}) /\ Cardinality({x}) = 1
  BY FS_Singleton
<1>. QED  BY <1>1, <1>2, FS_Product

\* Two functions that differ by an element of the domain, or by its value.
Extends(g, f, x) ==
    /\ DOMAIN g = DOMAIN f \cup {x}
    /\ x \notin DOMAIN f
    /\ g[x] \in Nat
    /\ \A y \in DOMAIN f : g[y] = f[y]

(* A new element of the domain adds its value to the sum. *)
LEMMA TotalExtends ==
    ASSUME NEW f, NEW g, NEW x, Extends(g, f, x), IsFiniteSet(Units(f))
    PROVE  /\ IsFiniteSet(Units(g))
           /\ Total(f) \in Nat
           /\ Total(g) = Total(f) + g[x]
<1>1. Units(g) = Units(f) \cup ({x} \X (1 .. g[x]))
  BY DEF Units, Extends
<1>2. Units(f) \cap ({x} \X (1 .. g[x])) = {}
  BY DEF Units, Extends
<1>3. IsFiniteSet({x} \X (1 .. g[x])) /\ Cardinality({x} \X (1 .. g[x])) = g[x]
  BY UnitsOfOne DEF Extends
<1>4. Cardinality({}) = 0
  BY FS_EmptySet
<1>5. Cardinality(Units(f)) \in Nat
  BY FS_CardinalityType
<1>. QED  BY <1>1, <1>2, <1>3, <1>4, <1>5, FS_Union DEF Total, Extends

(* Another value of one element changes the sum by the difference. *)
LEMMA TotalChanges ==
    ASSUME NEW S, NEW f \in [S -> Nat], NEW g \in [S -> Nat], NEW x \in S,
           \A y \in S \ {x} : g[y] = f[y], IsFiniteSet(Units(f))
    PROVE  /\ IsFiniteSet(Units(g))
           /\ Total(f) \in Nat
           /\ Total(g) = Total(f) - f[x] + g[x]
<1>. DEFINE rest == [y \in S \ {x} |-> f[y]]
<1>1. Extends(f, rest, x) /\ Extends(g, rest, x)
  BY DEF Extends
<1>2. Units(rest) \subseteq Units(f)
  BY DEF Units
<1>3. IsFiniteSet(Units(rest))
  BY <1>2, FS_Subset
<1>. HIDE DEF rest
<1>4. Total(rest) \in Nat /\ Total(f) = Total(rest) + f[x]
  BY <1>1, <1>3, TotalExtends
<1>5. IsFiniteSet(Units(g)) /\ Total(g) = Total(rest) + g[x]
  BY <1>1, <1>3, TotalExtends
<1>. QED  BY <1>4, <1>5

(* A function on a finite set has finitely many units.                       *)
LEMMA UnitsFinite ==
    ASSUME NEW S, IsFiniteSet(S), NEW f \in [S -> Nat]
    PROVE  IsFiniteSet(Units(f)) /\ Total(f) \in Nat
<1>. DEFINE unitsOf == [x \in S |-> {x} \X (1 .. f[x])]
            T == {unitsOf[x] : x \in S}
<1>1. unitsOf \in Surjection(S, T)
  BY DEF Surjection
<1>2. IsFiniteSet(T)
  <2>. HIDE DEF unitsOf, T
  <2>. QED  BY <1>1, FS_Surjection
<1>3. \A t \in T : IsFiniteSet(t)
  <2>1. \A x \in S : f[x] \in Nat
    OBVIOUS
  <2>2. \A x \in S : IsFiniteSet({x} \X (1 .. f[x]))
    BY <2>1, UnitsOfOne
  <2>. QED  BY <2>2
<1>4. Units(f) = UNION T
  BY DEF Units
<1>5. IsFiniteSet(UNION T)
  <2>. HIDE DEF T
  <2>. QED  BY <1>2, <1>3, FS_UNION
<1>. QED  BY <1>4, <1>5, FS_CardinalityType DEF Total

(* The sum over nothing.                                                     *)
LEMMA TotalOfNone ==
    ASSUME NEW f, DOMAIN f = {}
    PROVE  Total(f) = 0
<1>1. Units(f) = {}
  BY DEF Units
<1>. QED  BY <1>1, FS_EmptySet DEF Total

(* The sum over a part is at most the sum over the whole.                    *)
LEMMA TotalOfPart ==
    ASSUME NEW S, IsFiniteSet(S), NEW f \in [S -> Nat], NEW g,
           DOMAIN g \subseteq S, \A x \in DOMAIN g : g[x] = f[x]
    PROVE  Total(g) <= Total(f)
<1>1. Units(g) \subseteq Units(f)
  BY DEF Units
<1>2. IsFiniteSet(Units(f))
  BY UnitsFinite
<1>. QED  BY <1>1, <1>2, FS_Subset DEF Total

\* Two functions that differ by the names of the elements of the domain.
Renames(name, f, g) ==
    /\ name \in [DOMAIN f -> DOMAIN g]
    /\ \A x, y \in DOMAIN f : name[x] = name[y] => x = y
    /\ \A t \in DOMAIN g : \E x \in DOMAIN f : name[x] = t
    /\ \A x \in DOMAIN f : g[name[x]] = f[x]

(* Under other names the elements have the same sum.                         *)
LEMMA TotalRenamed ==
    ASSUME NEW S, IsFiniteSet(S), NEW f \in [S -> Nat],
           NEW T, NEW g \in [T -> Nat], NEW name, Renames(name, f, g)
    PROVE  Total(g) = Total(f)
<1>0. /\ name \in [S -> T]
      /\ \A x, y \in S : name[x] = name[y] => x = y
      /\ \A t \in T : \E x \in S : name[x] = t
      /\ \A x \in S : g[name[x]] = f[x]
  BY DEF Renames
<1>. DEFINE unit == [u \in Units(f) |-> <<name[u[1]], u[2]>>]
<1>1. \A u : u \in Units(f) <=> \E x \in S : \E n \in 1 .. f[x] : u = <<x, n>>
  BY DEF Units
<1>2. \A u : u \in Units(g) <=> \E t \in T : \E n \in 1 .. g[t] : u = <<t, n>>
  BY DEF Units
<1>3. unit \in [Units(f) -> Units(g)]
  BY <1>0, <1>1, <1>2
<1>4. \A u, v \in Units(f) : unit[u] = unit[v] => u = v
  BY <1>0, <1>1
<1>5. \A w \in Units(g) : \E u \in Units(f) : unit[u] = w
  <2>. SUFFICES ASSUME NEW w \in Units(g)
                PROVE  \E u \in Units(f) : unit[u] = w
    OBVIOUS
  <2>1. PICK t \in T : \E n \in 1 .. g[t] : w = <<t, n>>
    BY <1>2
  <2>2. PICK n \in 1 .. g[t] : w = <<t, n>>
    BY <2>1
  <2>3. PICK x \in S : name[x] = t
    BY <1>0
  <2>4. n \in 1 .. f[x]
    BY <1>0, <2>3
  <2>5. <<x, n>> \in Units(f)
    BY <1>1, <2>4
  <2>. QED  BY <2>2, <2>3, <2>5
<1>. HIDE DEF unit
<1>6. unit \in Injection(Units(f), Units(g))
  BY <1>3, <1>4 DEF Injection, IsInjective
<1>7. unit \in Surjection(Units(f), Units(g))
  BY <1>3, <1>5 DEF Surjection
<1>8. ExistsBijection(Units(f), Units(g))
  BY <1>6, <1>7 DEF ExistsBijection, Bijection
<1>9. IsFiniteSet(Units(f))
  BY UnitsFinite
<1>. QED  BY <1>8, <1>9, FS_Bijection DEF Total
(***************************************************************************)
(* Induction.                                                              *)
(***************************************************************************)
\* S has 0, and with every number the next.
Inductive(S) == 0 \in S /\ \A k \in Nat : k \in S => k + 1 \in S

(* Such a set has every number: the least one outside would follow one inside. *)
LEMMA SetInduction ==
    ASSUME NEW S, Inductive(S)
    PROVE  \A n \in Nat : n \in S
<1>. DEFINE T == Nat \ S
<1>. SUFFICES ASSUME T # {} PROVE FALSE
  OBVIOUS
<1>1. PICK n \in T : \A k \in T : ~ (<<k, n>> \in OpToRel(<, Nat))
  BY NatLessThanWellFounded, WFMin
<1>2. \A k \in T : ~ (k < n)
  BY <1>1 DEF OpToRel
<1>3. n # 0 /\ n - 1 \in Nat /\ n - 1 < n /\ n - 1 \notin T
  BY <1>2 DEF Inductive
<1>. QED  BY <1>3 DEF Inductive

\* P has every part of E whose parts with one element less it has.
InductiveFamily(E, P) == \A s \in SUBSET E : (\A x \in s : s \ {x} \in P) => s \in P

(* Such a family has every part of a finite set. *)
LEMMA SubsetInduction ==
    ASSUME NEW E, IsFiniteSet(E), NEW P, InductiveFamily(E, P)
    PROVE  SUBSET E \subseteq P
<1>. DEFINE K == {k \in Nat : \A s \in SUBSET E : Cardinality(s) = k => s \in P}
<1>1. \A s \in SUBSET E : IsFiniteSet(s) /\ Cardinality(s) \in Nat
  BY FS_Subset, FS_CardinalityType
<1>2. 0 \in K
  <2>1. ASSUME NEW s \in SUBSET E, Cardinality(s) = 0
        PROVE  s \in P
    <3>1. s = {}
      BY <1>1, <2>1, FS_EmptySet
    <3>. QED  BY <3>1 DEF InductiveFamily
  <2>. QED  BY <2>1
<1>3. ASSUME NEW k \in Nat, k \in K
      PROVE  k + 1 \in K
  <2>1. ASSUME NEW s \in SUBSET E, Cardinality(s) = k + 1
        PROVE  s \in P
    <3>1. ASSUME NEW x \in s
          PROVE  s \ {x} \in P
      <4>1. Cardinality(s \ {x}) = Cardinality(s) - 1
        BY <1>1, FS_RemoveElement
      <4>2. Cardinality(s \ {x}) = k /\ s \ {x} \in SUBSET E
        BY <2>1, <4>1
      <4>. QED  BY <1>3, <4>2
    <3>. QED  BY <3>1 DEF InductiveFamily
  <2>. QED  BY <2>1
<1>4. \A n \in Nat : n \in K
  <2>. HIDE DEF K
  <2>. QED  BY <1>2, <1>3, SetInduction DEF Inductive
<1>. QED  BY <1>1, <1>4

(***************************************************************************)
(* Loops: FoldLeft goes by the last of a set of positions.                 *)
(***************************************************************************)
\* op applied to what the positions before gave and to the last one of s, base for none.
LoopStep(op, base, f, s) == IF s = {} THEN base ELSE op[f[s \ {Max(s)}], Max(s)]

\* f has, of values of V, what the loop has after every set of the n positions.
IsLoop(n, V, base, op, f) ==
    /\ f \in [SUBSET (1 .. n) -> V]
    /\ \A s \in SUBSET (1 .. n) : f[s] = LoopStep(op, base, f, s)
HasLoop(n, V, base, op) == \E f : IsLoop(n, V, base, op, f)

(* A finite set of positions has a last one. *)
LEMMA LastPosition ==
    ASSUME NEW n \in Nat, NEW s \in SUBSET (1 .. n), s # {}
    PROVE  Max(s) \in s /\ \A i \in s : i <= Max(s)
<1>. DEFINE above == {n - i : i \in s}
<1>1. above \subseteq Nat /\ above # {}
  <2>1. \A i \in s : n - i \in Nat
    OBVIOUS
  <2>2. PICK i \in s : TRUE
    OBVIOUS
  <2>3. n - i \in above
    BY <2>2
  <2>. QED  BY <2>1, <2>3
<1>2. PICK k \in above : \A l \in above : ~ (<<l, k>> \in OpToRel(<, Nat))
  BY <1>1, NatLessThanWellFounded, WFMin
<1>3. \A l \in above : ~ (l < k)
  BY <1>1, <1>2 DEF OpToRel
<1>4. PICK i \in s : k = n - i
  OBVIOUS
<1>5. \A j \in s : j <= i
  BY <1>3, <1>4
<1>. QED  BY <1>5 DEF Max

(* A loop over the positions of a sequence ends: there is a function that has what   *)
(* every set of positions gives, by the number of them.                              *)
LEMMA LoopExists ==
    ASSUME NEW n \in Nat, NEW V, NEW base \in V, NEW op \in [V \X (1 .. n) -> V]
    PROVE  HasLoop(n, V, base, op)
<1>. DEFINE E == 1 .. n
            Rounds(k, f) ==
                \A s \in SUBSET E : Cardinality(s) <= k => f[s] = LoopStep(op, base, f, s)
            K == {k \in Nat : \E f \in [SUBSET E -> V] : Rounds(k, f)}
            round(f) == [s \in SUBSET E |-> LoopStep(op, base, f, s)]
<1>1. IsFiniteSet(E) /\ Cardinality(E) = n
  BY FS_Interval
<1>2. \A s \in SUBSET E : IsFiniteSet(s) /\ Cardinality(s) \in Nat
  BY <1>1, FS_Subset, FS_CardinalityType
<1>3. ASSUME NEW s \in SUBSET E, s # {}
      PROVE  /\ Max(s) \in E /\ s \ {Max(s)} \in SUBSET E
             /\ Cardinality(s \ {Max(s)}) = Cardinality(s) - 1
  BY <1>2, <1>3, LastPosition, FS_RemoveElement
<1>4. ASSUME NEW f \in [SUBSET E -> V]
      PROVE  round(f) \in [SUBSET E -> V]
  <2>1. ASSUME NEW s \in SUBSET E
        PROVE  LoopStep(op, base, f, s) \in V
    <3>1. CASE s = {}
      BY <3>1 DEF LoopStep
    <3>2. CASE s # {}
      <4>. DEFINE m == Max(s)
                  t == s \ {m}
      <4>1. m \in E /\ t \in SUBSET E
        BY <1>3, <3>2
      <4>2. LoopStep(op, base, f, s) = op[f[t], m]
        BY <3>2 DEF LoopStep
      <4>. HIDE DEF m, t
      <4>3. <<f[t], m>> \in V \X E
        BY <4>1
      <4>4. op[<<f[t], m>>] \in V
        BY <4>3
      <4>. QED  BY <4>2, <4>4
    <3>. QED  BY <3>1, <3>2
  <2>. QED  BY <2>1
<1>5. 0 \in K
  <2>. DEFINE f == [s \in SUBSET E |-> base]
  <2>1. \A s \in SUBSET E : Cardinality(s) <= 0 => s = {}
    BY <1>2, FS_EmptySet
  <2>2. f \in [SUBSET E -> V] /\ Rounds(0, f)
    BY <2>1 DEF LoopStep
  <2>. QED  BY <2>2
<1>6. ASSUME NEW k \in Nat, k \in K
      PROVE  k + 1 \in K
  <2>1. PICK f \in [SUBSET E -> V] : Rounds(k, f)
    BY <1>6
  <2>2. ASSUME NEW s \in SUBSET E, Cardinality(s) <= k + 1
        PROVE  round(f)[s] = LoopStep(op, base, round(f), s)
    <3>1. CASE s = {}
      BY <3>1 DEF LoopStep
    <3>2. CASE s # {}
      <4>. DEFINE m == Max(s)
                  t == s \ {m}
      <4>1. t \in SUBSET E /\ Cardinality(t) = Cardinality(s) - 1
        BY <1>3, <3>2
      <4>2. Cardinality(s) \in Nat
        BY <1>2
      <4>3. f[t] = LoopStep(op, base, f, t)
        BY <2>1, <2>2, <4>1, <4>2
      <4>4. f[t] = round(f)[t]
        BY <4>1, <4>3
      <4>5. round(f)[s] = op[f[t], m] /\ LoopStep(op, base, round(f), s) = op[round(f)[t], m]
        BY <3>2 DEF LoopStep
      <4>. QED  BY <4>4, <4>5
    <3>. QED  BY <3>1, <3>2
  <2>3. Rounds(k + 1, round(f)) /\ round(f) \in [SUBSET E -> V]
    BY <1>4, <2>2
  <2>4. \E g \in [SUBSET E -> V] : Rounds(k + 1, g)
    <3>. HIDE DEF round, Rounds
    <3>. QED  BY <2>3
  <2>. HIDE DEF Rounds
  <2>. QED  BY <2>4
<1>7. n \in K
  <2>. HIDE DEF K
  <2>. QED  BY <1>5, <1>6, SetInduction DEF Inductive
<1>8. ASSUME NEW s \in SUBSET E
      PROVE  Cardinality(s) <= n
  <2>. HIDE DEF E
  <2>. QED  BY <1>1, FS_Subset
<1>9. PICK f \in [SUBSET E -> V] : Rounds(n, f)
  BY <1>7
<1>10. IsLoop(n, V, base, op, f)
  BY <1>2, <1>8, <1>9 DEF IsLoop
<1>. QED  BY <1>10 DEF HasLoop

(* Of the first k positions k is the last, and the first k - 1 are the others. *)
LEMMA FirstPositions ==
    ASSUME NEW n \in Nat, NEW k \in 1 .. n
    PROVE  /\ 1 .. k \in SUBSET (1 .. n) /\ 1 .. k # {}
           /\ Max(1 .. k) = k /\ (1 .. k) \ {Max(1 .. k)} = 1 .. k - 1
<1>1. 1 .. k \in SUBSET (1 .. n) /\ k \in 1 .. k
  OBVIOUS
<1>2. Max(1 .. k) \in 1 .. k /\ k <= Max(1 .. k)
  BY <1>1, LastPosition
<1>3. Max(1 .. k) = k
  BY <1>2
<1>. QED  BY <1>1, <1>3

\* What such a function has after the positions s, from what it has without the last.
LoopAt(n, V, base, op, f, s) ==
    /\ s = {} => f[s] = base
    /\ s # {} => /\ Max(s) \in 1 .. n /\ s \ {Max(s)} \in SUBSET (1 .. n)
                 /\ <<f[s \ {Max(s)}], Max(s)>> \in V \X (1 .. n)
                 /\ f[s] = op[<<f[s \ {Max(s)}], Max(s)>>]

(* It has that after every set of positions. *)
LEMMA LoopIs ==
    ASSUME NEW n \in Nat, NEW V, NEW base, NEW op, NEW f, IsLoop(n, V, base, op, f),
           NEW s \in SUBSET (1 .. n)
    PROVE  LoopAt(n, V, base, op, f, s)
<1>1. CASE s = {}
  BY <1>1 DEF IsLoop, LoopStep, LoopAt
<1>2. CASE s # {}
  <2>. DEFINE m == Max(s)
              t == s \ {m}
  <2>1. m \in 1 .. n /\ t \in SUBSET (1 .. n)
    BY <1>2, LastPosition
  <2>2. f[s] = op[<<f[t], m>>]
    BY <1>2 DEF IsLoop, LoopStep
  <2>. HIDE DEF m, t
  <2>3. <<f[t], m>> \in V \X (1 .. n)
    BY <2>1 DEF IsLoop
  <2>. QED  BY <1>2, <2>1, <2>2, <2>3 DEF m, t, LoopAt
<1>. QED  BY <1>1, <1>2

\* h has what the loop over all positions has after the first k of them.
Runs(n, V, base, op, h) ==
    /\ h \in [0 .. n -> V] /\ h[0] = base
    /\ \A k \in 1 .. n : h[k] = op[<<h[k - 1], k>>]

(* There is such a function. *)
LEMMA LoopRuns ==
    ASSUME NEW n \in Nat, NEW V, NEW base \in V, NEW op \in [V \X (1 .. n) -> V]
    PROVE  \E h : Runs(n, V, base, op, h)
<1>1. PICK f : IsLoop(n, V, base, op, f)
  BY LoopExists DEF HasLoop
<1>. DEFINE h == [k \in 0 .. n |-> f[1 .. k]]
<1>2. h \in [0 .. n -> V]
  <2>1. \A k \in 0 .. n : 1 .. k \in SUBSET (1 .. n)
    OBVIOUS
  <2>. QED  BY <1>1, <2>1 DEF IsLoop
<1>3. h[0] = base
  <2>1. 1 .. 0 = {} /\ {} \in SUBSET (1 .. n)
    OBVIOUS
  <2>2. LoopAt(n, V, base, op, f, {})
    BY <1>1, <2>1, LoopIs
  <2>3. f[{}] = base
    BY <2>2 DEF LoopAt
  <2>. QED  BY <2>1, <2>3
<1>4. ASSUME NEW k \in 1 .. n
      PROVE  h[k] = op[<<h[k - 1], k>>]
  <2>1. /\ 1 .. k \in SUBSET (1 .. n) /\ 1 .. k # {}
        /\ Max(1 .. k) = k /\ (1 .. k) \ {Max(1 .. k)} = 1 .. k - 1
    BY FirstPositions
  <2>2. LoopAt(n, V, base, op, f, 1 .. k)
    BY <1>1, <2>1, LoopIs
  <2>3. f[1 .. k] = op[<<f[1 .. k - 1], k>>]
    <3>. DEFINE s == 1 .. k
                t == s \ {Max(s)}
                m == Max(s)
    <3>1. s # {} /\ t = 1 .. k - 1 /\ m = k
      BY <2>1
    <3>2. f[s] = op[<<f[t], m>>]
      BY <2>1, <2>2 DEF LoopAt
    <3>. HIDE DEF t, m
    <3>. QED  BY <3>1, <3>2
  <2>4. h[k] = f[1 .. k] /\ h[k - 1] = f[1 .. k - 1]
    OBVIOUS
  <2>. HIDE DEF h
  <2>. QED  BY <2>3, <2>4
<1>5. Runs(n, V, base, op, h)
  <2>. HIDE DEF h
  <2>. QED  BY <1>2, <1>3, <1>4 DEF Runs
<1>. QED  BY <1>5

(***************************************************************************)
(* Rows behind one another.                                                *)
(***************************************************************************)

(* A place is a row and a position in it.                                    *)
LEMMA PlacesAre ==
    ASSUME NEW S, NEW rows \in Seq(Seq(S))
    PROVE  /\ \A i, j : <<i, j>> \in Places(rows) <=>
                           i \in 1 .. Len(rows) /\ j \in 1 .. Len(rows[i])
           /\ \A p \in Places(rows) :
                 /\ p = <<p[1], p[2]>>
                 /\ p[1] \in 1 .. Len(rows) /\ p[2] \in 1 .. Len(rows[p[1]])
                 /\ At(rows, p) \in S
<1>1. \A i \in 1 .. Len(rows) : rows[i] \in Seq(S) /\ DOMAIN rows[i] = 1 .. Len(rows[i])
  OBVIOUS
<1>2. DOMAIN rows = 1 .. Len(rows)
  OBVIOUS
<1>3. \A i, j : <<i, j>> \in Places(rows) <=>
                   i \in 1 .. Len(rows) /\ j \in 1 .. Len(rows[i])
  BY <1>1, <1>2 DEF Places
<1>4. \A p \in Places(rows) : p = <<p[1], p[2]>>
  BY DEF Places
<1>5. \A i \in 1 .. Len(rows) : \A j \in 1 .. Len(rows[i]) : rows[i][j] \in S
  BY <1>1
<1>. QED  BY <1>3, <1>4, <1>5 DEF At

(* There are finitely many of them.                                          *)
LEMMA PlacesFinite ==
    ASSUME NEW S, NEW rows \in Seq(Seq(S))
    PROVE  IsFiniteSet(Places(rows)) /\ Cardinality(Places(rows)) \in Nat
<1>. DEFINE D == 1 .. Len(rows)
            row == [i \in D |-> {i} \X DOMAIN rows[i]]
            T == {row[i] : i \in D}
<1>1. row \in Surjection(D, T)
  BY DEF Surjection
<1>2. IsFiniteSet(D) /\ DOMAIN rows = D
  BY FS_Interval
<1>3. IsFiniteSet(T)
  <2>. HIDE DEF row, T, D
  <2>. QED  BY <1>1, <1>2, FS_Surjection
<1>4. \A t \in T : IsFiniteSet(t)
  <2>1. ASSUME NEW i \in D
        PROVE  IsFiniteSet({i} \X DOMAIN rows[i])
    <3>1. rows[i] \in Seq(S) /\ Len(rows[i]) \in Nat /\ DOMAIN rows[i] = 1 .. Len(rows[i])
      OBVIOUS
    <3>. QED  BY <3>1, UnitsOfOne
  <2>. QED  BY <2>1
<1>5. Places(rows) = UNION T
  BY <1>2 DEF Places
<1>6. IsFiniteSet(UNION T)
  <2>. HIDE DEF T
  <2>. QED  BY <1>3, <1>4, FS_UNION
<1>. QED  BY <1>5, <1>6, FS_CardinalityType

(* A place has fewer ahead of it than every later one, and so each another   *)
(* number.                                                                   *)
LEMMA AheadAscends ==
    ASSUME NEW S, NEW rows \in Seq(Seq(S))
    PROVE  /\ \A p \in Places(rows) :
                 Cardinality(Ahead(rows, p)) \in 0 .. Cardinality(Places(rows)) - 1
           /\ \A p, q \in Places(rows) :
                 Before(p, q) => Cardinality(Ahead(rows, p)) < Cardinality(Ahead(rows, q))
           /\ \A p, q \in Places(rows) :
                 Cardinality(Ahead(rows, p)) = Cardinality(Ahead(rows, q)) => p = q
<1>. DEFINE P == Places(rows)
            rank == [p \in P |-> Cardinality(Ahead(rows, p))]
<1>1. IsFiniteSet(P) /\ Cardinality(P) \in Nat
  BY PlacesFinite
<1>2. \A p \in P : p = <<p[1], p[2]>> /\ p[1] \in Int /\ p[2] \in Int
  <2>1. \A p \in P : p[1] \in 1 .. Len(rows) /\ p[2] \in 1 .. Len(rows[p[1]])
    BY PlacesAre
  <2>. QED  BY <2>1, PlacesAre
<1>3. ASSUME NEW T \in SUBSET P
      PROVE  IsFiniteSet(T) /\ Cardinality(T) \in Nat /\ Cardinality(T) <= Cardinality(P)
             /\ (Cardinality(T) = Cardinality(P) => T = P)
  BY <1>1, FS_Subset, FS_CardinalityType
<1>4. \A p \in P : Ahead(rows, p) \subseteq P
  BY DEF Ahead
<1>5. \A p \in P : rank[p] \in Nat /\ rank[p] <= Cardinality(P)
  BY <1>3, <1>4
<1>6. ASSUME NEW p \in P
      PROVE  rank[p] \in 0 .. Cardinality(P) - 1
  <2>1. p \notin Ahead(rows, p)
    BY <1>2 DEF Ahead, Before
  <2>2. Ahead(rows, p) # P /\ Ahead(rows, p) \in SUBSET P
    BY <2>1, <1>4
  <2>3. rank[p] # Cardinality(P)
    BY <1>3, <2>2
  <2>. HIDE DEF rank
  <2>. QED  BY <1>1, <1>5, <2>3
<1>7. ASSUME NEW p \in P, NEW q \in P, Before(p, q)
      PROVE  rank[p] < rank[q]
  <2>1. p \in Ahead(rows, q) /\ p \notin Ahead(rows, p)
    BY <1>2, <1>7 DEF Ahead, Before
  <2>2. Ahead(rows, p) \subseteq Ahead(rows, q)
    BY <1>2, <1>7 DEF Ahead, Before
  <2>3. IsFiniteSet(Ahead(rows, q))
    BY <1>3, <1>4
  <2>4. Cardinality(Ahead(rows, p)) <= Cardinality(Ahead(rows, q))
        /\ Cardinality(Ahead(rows, p)) # Cardinality(Ahead(rows, q))
    BY <2>1, <2>2, <2>3, FS_Subset
  <2>5. rank[p] <= rank[q] /\ rank[p] # rank[q]
    BY <2>4
  <2>. HIDE DEF rank
  <2>. QED  BY <1>5, <2>5
<1>8. ASSUME NEW p \in P, NEW q \in P, rank[p] = rank[q]
      PROVE  p = q
  <2>1. p = q \/ Before(p, q) \/ Before(q, p)
    BY <1>2 DEF Before
  <2>2. ~(rank[p] < rank[q]) /\ ~(rank[q] < rank[p])
    <3>. HIDE DEF rank
    <3>. QED  BY <1>5, <1>8
  <2>. QED  BY <1>7, <2>1, <2>2
<1>. QED  BY <1>6, <1>7, <1>8

(* Every number up to that of the places is that of one of them.             *)
LEMMA RanksFull ==
    ASSUME NEW S, NEW rows \in Seq(Seq(S)),
           NEW k \in 1 .. Cardinality(Places(rows))
    PROVE  \E p \in Places(rows) : Cardinality(Ahead(rows, p)) = k - 1
<1>. DEFINE P == Places(rows)
            n == Cardinality(P)
            rank == [p \in P |-> Cardinality(Ahead(rows, p))]
<1>1. n \in Nat
  BY PlacesFinite
<1>2. rank \in [P -> 0 .. n - 1]
  BY AheadAscends
<1>3. \A p, q \in P : rank[p] = rank[q] => p = q
  BY AheadAscends
<1>4. rank \in Injection(P, 0 .. n - 1)
  <2>1. DOMAIN rank = P
    OBVIOUS
  <2>. HIDE DEF rank, n, P
  <2>2. IsInjective(rank)
    BY <1>3, <2>1 DEF IsInjective
  <2>. QED  BY <1>2, <2>2 DEF Injection
<1>5. IsFiniteSet(0 .. n - 1) /\ Cardinality(0 .. n - 1) = n
  <2>. HIDE DEF n
  <2>. QED  BY <1>1, FS_Interval
<1>6. rank \in Surjection(P, 0 .. n - 1)
  BY <1>4, <1>5, FS_Injection
<1>7. k - 1 \in 0 .. n - 1
  BY <1>1
<1>. HIDE DEF rank, n
<1>8. \E p \in P : rank[p] = k - 1
  BY <1>6, <1>7 DEF Surjection
<1>. QED  BY <1>8 DEF rank

(* What the rows hold one behind the other: at each place's number what is   *)
(* at the place, and nothing else.                                           *)
LEMMA JoinedHolds ==
    ASSUME NEW S, NEW rows \in Seq(Seq(S))
    PROVE  /\ Joined(rows) \in Seq(S)
           /\ Len(Joined(rows)) = Cardinality(Places(rows))
           /\ \A p \in Places(rows) :
                 Joined(rows)[Cardinality(Ahead(rows, p)) + 1] = At(rows, p)
           /\ \A k \in 1 .. Cardinality(Places(rows)) :
                 \E p \in Places(rows) : /\ Cardinality(Ahead(rows, p)) = k - 1
                                         /\ Joined(rows)[k] = At(rows, p)
<1>. DEFINE n == Cardinality(Places(rows))
<1>1. n \in Nat
  BY PlacesFinite
<1>2. ASSUME NEW k \in 1 .. n
      PROVE  /\ Ranked(rows, k) \in Places(rows)
             /\ Cardinality(Ahead(rows, Ranked(rows, k))) = k - 1
  BY RanksFull DEF Ranked
<1>3. \A k \in 1 .. n : Joined(rows)[k] = At(rows, Ranked(rows, k))
  BY DEF Joined
<1>4. Joined(rows) \in [1 .. n -> S]
  BY <1>2, PlacesAre DEF Joined
<1>5. Joined(rows) \in Seq(S) /\ Len(Joined(rows)) = n
  BY <1>1, <1>4
<1>6. ASSUME NEW p \in Places(rows)
      PROVE  Joined(rows)[Cardinality(Ahead(rows, p)) + 1] = At(rows, p)
  <2>. DEFINE r == Cardinality(Ahead(rows, p))
  <2>1. r \in 0 .. n - 1
    BY AheadAscends
  <2>2. r + 1 \in 1 .. n /\ (r + 1) - 1 = r
    <3>. HIDE DEF r, n
    <3>. QED  BY <1>1, <2>1
  <2>3. Cardinality(Ahead(rows, Ranked(rows, r + 1))) = r
        /\ Ranked(rows, r + 1) \in Places(rows)
    BY <1>2, <2>2
  <2>4. Ranked(rows, r + 1) = p
    BY <2>3, AheadAscends
  <2>. QED  BY <1>3, <2>2, <2>4
<1>. QED  BY <1>2, <1>3, <1>5, <1>6

(* Joined rows are without repetitions if no two places hold the same.       *)
LEMMA JoinedInjective ==
    ASSUME NEW S, NEW rows \in Seq(Seq(S))
    PROVE  IsInjective(Joined(rows)) <=>
              \A p, q \in Places(rows) : At(rows, p) = At(rows, q) => p = q
<1>. DEFINE n == Cardinality(Places(rows))
            W == Joined(rows)
            rank(p) == Cardinality(Ahead(rows, p)) + 1
<1>1. n \in Nat /\ DOMAIN W = 1 .. n
  BY PlacesFinite, JoinedHolds
<1>2. \A p \in Places(rows) : rank(p) \in 1 .. n /\ W[rank(p)] = At(rows, p)
  <2>1. \A p \in Places(rows) : Cardinality(Ahead(rows, p)) \in 0 .. n - 1
    BY AheadAscends
  <2>2. \A x \in 0 .. n - 1 : x + 1 \in 1 .. n
    BY <1>1
  <2>. QED  BY <2>1, <2>2, JoinedHolds
<1>3. \A p, q \in Places(rows) : rank(p) = rank(q) => p = q
  <2>1. \A p \in Places(rows) : Cardinality(Ahead(rows, p)) \in 0 .. n - 1
    BY AheadAscends
  <2>2. ASSUME NEW p \in Places(rows), NEW q \in Places(rows), rank(p) = rank(q)
        PROVE  p = q
    <3>. DEFINE a == Cardinality(Ahead(rows, p))
                b == Cardinality(Ahead(rows, q))
    <3>1. a \in Int /\ b \in Int /\ a + 1 = b + 1
      BY <2>1, <2>2
    <3>2. a = b
      <4>. HIDE DEF a, b
      <4>. QED  BY <3>1
    <3>. QED  BY <3>2, AheadAscends
  <2>. QED  BY <2>2
<1>4. \A k \in 1 .. n : \E p \in Places(rows) : rank(p) = k /\ W[k] = At(rows, p)
  <2>1. ASSUME NEW k \in 1 .. n
        PROVE  \E p \in Places(rows) : rank(p) = k /\ W[k] = At(rows, p)
    <3>1. PICK p \in Places(rows) : Cardinality(Ahead(rows, p)) = k - 1 /\ W[k] = At(rows, p)
      BY JoinedHolds
    <3>2. rank(p) = k
      BY <1>1, <3>1
    <3>. QED  BY <3>1, <3>2
  <2>. QED  BY <2>1
<1>. HIDE DEF n, W, rank
<1>5. ASSUME IsInjective(W), NEW p \in Places(rows), NEW q \in Places(rows),
             At(rows, p) = At(rows, q)
      PROVE  p = q
  BY <1>1, <1>2, <1>3, <1>5 DEF IsInjective
<1>6. ASSUME \A p, q \in Places(rows) : At(rows, p) = At(rows, q) => p = q
      PROVE  IsInjective(W)
  <2>1. SUFFICES ASSUME NEW j \in 1 .. n, NEW k \in 1 .. n, W[j] = W[k]
                 PROVE  j = k
    BY <1>1 DEF IsInjective
  <2>. QED  BY <1>4, <1>6, <2>1
<1>. QED  BY <1>5, <1>6 DEF W

(* Rows that have the same places, and the same in them, join to the same.   *)
LEMMA JoinedSame ==
    ASSUME NEW S, NEW rows \in Seq(Seq(S)), NEW others, Places(others) = Places(rows),
           \A p \in Places(rows) : At(others, p) = At(rows, p)
    PROVE  Joined(others) = Joined(rows)
<1>1. \A p : Ahead(others, p) = Ahead(rows, p)
  BY DEF Ahead
<1>2. \A k : Ranked(others, k) = Ranked(rows, k)
  BY <1>1 DEF Ranked
<1>3. ASSUME NEW k \in 1 .. Cardinality(Places(rows))
      PROVE  At(others, Ranked(others, k)) = At(rows, Ranked(rows, k))
  <2>1. Ranked(rows, k) \in Places(rows)
    BY RanksFull DEF Ranked
  <2>. QED  BY <1>2, <2>1
<1>. QED  BY <1>3 DEF Joined

\* A row is longer by e, and no other is behind it.
LongerBy(others, rows, e) ==
    /\ Len(others) = Len(rows) /\ rows # <<>>
    /\ \A i \in 1 .. Len(rows) - 1 : others[i] = rows[i]
    /\ others[Len(rows)] = Append(rows[Len(rows)], e)

(* The joined rows are longer by the same.                                   *)
LEMMA JoinedGrows ==
    ASSUME NEW S, NEW rows \in Seq(Seq(S)), NEW others \in Seq(Seq(S)), NEW e \in S,
           LongerBy(others, rows, e)
    PROVE  Joined(others) = Append(Joined(rows), e)
<1>. DEFINE n == Cardinality(Places(rows))
            last == <<Len(rows), Len(rows[Len(rows)]) + 1>>
            W == Joined(rows)
            V == Joined(others)
<1>1. Len(rows) \in Nat \ {0} /\ Len(rows[Len(rows)]) \in Nat
      /\ rows[Len(rows)] \in Seq(S)
  BY DEF LongerBy
<1>2. /\ Len(others[Len(rows)]) = Len(rows[Len(rows)]) + 1
      /\ \A j \in 1 .. Len(rows[Len(rows)]) : others[Len(rows)][j] = rows[Len(rows)][j]
      /\ others[Len(rows)][Len(rows[Len(rows)]) + 1] = e
  BY <1>1 DEF LongerBy
<1>3. \A i, j : <<i, j>> \in Places(others) <=>
                   <<i, j>> \in Places(rows) \/ <<i, j>> = last
  <2>1. ASSUME NEW i, NEW j
        PROVE  <<i, j>> \in Places(others) <=> <<i, j>> \in Places(rows) \/ <<i, j>> = last
    <3>1. CASE i \in 1 .. Len(rows) - 1
      <4>1. others[i] = rows[i] /\ i # Len(rows) /\ i \in 1 .. Len(rows)
        BY <1>1, <3>1 DEF LongerBy
      <4>. QED  BY <4>1, PlacesAre DEF LongerBy
    <3>2. CASE i = Len(rows)
      <4>1. j \in 1 .. Len(others[i]) <=>
               j \in 1 .. Len(rows[i]) \/ j = Len(rows[Len(rows)]) + 1
        <5>. DEFINE k == Len(rows[Len(rows)])
        <5>1. k \in Nat /\ Len(rows[i]) = k /\ Len(others[i]) = k + 1
          BY <1>1, <1>2, <3>2
        <5>. HIDE DEF k
        <5>2. j \in 1 .. k + 1 <=> j \in 1 .. k \/ j = k + 1
          BY <5>1
        <5>3. Len(rows[Len(rows)]) = k
          BY DEF k
        <5>. QED  BY <5>1, <5>2, <5>3
      <4>2. i \in 1 .. Len(rows) /\ i \in 1 .. Len(others)
        BY <1>1, <3>2 DEF LongerBy
      <4>. QED  BY <3>2, <4>1, <4>2, PlacesAre
    <3>3. CASE i \notin 1 .. Len(rows)
      <4>1. i \notin 1 .. Len(others) /\ i # Len(rows)
        BY <1>1, <3>3 DEF LongerBy
      <4>. QED  BY <3>3, <4>1, PlacesAre
    <3>. QED  BY <1>1, <3>1, <3>2, <3>3
  <2>. QED  BY <2>1
<1>4. Places(others) = Places(rows) \cup {last}
  <2>1. \A p \in Places(others) : p = <<p[1], p[2]>>
    BY PlacesAre
  <2>2. \A p \in Places(rows) : p = <<p[1], p[2]>>
    BY PlacesAre
  <2>. HIDE DEF last
  <2>3. \A p \in Places(others) : p \in Places(rows) \cup {last}
    BY <1>3, <2>1
  <2>4. \A p \in Places(rows) : p \in Places(others)
    BY <1>3, <2>2
  <2>5. last \in Places(others)
    BY <1>3 DEF last
  <2>. QED  BY <2>3, <2>4, <2>5
<1>5. last \notin Places(rows)
  BY <1>1, PlacesAre
<1>6. \A p \in Places(rows) : Before(p, last) /\ ~Before(last, p)
  <2>1. ASSUME NEW p \in Places(rows)
        PROVE  Before(p, last) /\ ~Before(last, p)
    <3>1. p[1] \in 1 .. Len(rows) /\ p[2] \in 1 .. Len(rows[p[1]])
      BY PlacesAre
    <3>2. p[1] \in Int /\ p[1] <= Len(rows) /\ p[2] \in Int
      BY <1>1, <3>1
    <3>3. p[1] = Len(rows) => p[2] <= Len(rows[Len(rows)])
      BY <1>1, <3>1
    <3>. QED  BY <1>1, <3>2, <3>3 DEF Before
  <2>. QED  BY <2>1
<1>7. ~Before(last, last)
  BY <1>1 DEF Before
<1>. HIDE DEF last
<1>8. \A p \in Places(rows) : Ahead(others, p) = Ahead(rows, p)
  BY <1>4, <1>6 DEF Ahead
<1>9. Ahead(others, last) = Places(rows)
  BY <1>4, <1>6, <1>7 DEF Ahead
<1>10. \A p \in Places(rows) : At(others, p) = At(rows, p)
  <2>1. ASSUME NEW p \in Places(rows)
        PROVE  At(others, p) = At(rows, p)
    <3>1. p[1] \in 1 .. Len(rows) /\ p[2] \in 1 .. Len(rows[p[1]])
      BY PlacesAre
    <3>2. CASE p[1] = Len(rows)
      BY <1>2, <3>1, <3>2 DEF At
    <3>3. CASE p[1] # Len(rows)
      <4>1. p[1] \in 1 .. Len(rows) - 1
        BY <1>1, <3>1, <3>3
      <4>. QED  BY <4>1 DEF At, LongerBy
    <3>. QED  BY <3>2, <3>3
  <2>. QED  BY <2>1
<1>11. At(others, last) = e
  <2>1. last[1] = Len(rows) /\ last[2] = Len(rows[Len(rows)]) + 1
    BY DEF last
  <2>2. others[last[1]][last[2]] = others[Len(rows)][Len(rows[Len(rows)]) + 1]
    BY <2>1
  <2>. QED  BY <1>2, <2>2 DEF At
<1>12. n \in Nat /\ IsFiniteSet(Places(rows))
  BY PlacesFinite
<1>13. Cardinality(Places(others)) = n + 1
  BY <1>4, <1>5, <1>12, FS_AddElement
<1>14. W \in Seq(S) /\ V \in Seq(S) /\ Len(W) = n /\ Len(V) = n + 1
  BY <1>13, JoinedHolds
<1>15. ASSUME NEW k \in 1 .. n
       PROVE  V[k] = W[k]
  <2>1. PICK p \in Places(rows) : Cardinality(Ahead(rows, p)) = k - 1 /\ W[k] = At(rows, p)
    BY JoinedHolds
  <2>2. p \in Places(others) /\ Cardinality(Ahead(others, p)) = k - 1
    BY <1>4, <1>8, <2>1
  <2>3. V[(k - 1) + 1] = At(others, p)
    BY <2>2, JoinedHolds
  <2>4. (k - 1) + 1 = k
    BY <1>12
  <2>. QED  BY <1>10, <2>1, <2>3, <2>4
<1>16. V[n + 1] = e
  <2>1. last \in Places(others)
    BY <1>4
  <2>. QED  BY <1>9, <1>11, <2>1, JoinedHolds
<1>17. Append(W, e) \in Seq(S) /\ Len(Append(W, e)) = n + 1
       /\ (\A k \in 1 .. n : Append(W, e)[k] = W[k]) /\ Append(W, e)[n + 1] = e
  <2>. HIDE DEF W, n
  <2>. QED  BY <1>12, <1>14
<1>. HIDE DEF V, W, n
<1>18. \A k \in 1 .. n + 1 : V[k] = Append(W, e)[k]
  BY <1>12, <1>15, <1>16, <1>17
<1>19. V = Append(W, e)
  BY <1>12, <1>14, <1>17, <1>18
<1>. QED  BY <1>19 DEF V, W
=============================================================================
