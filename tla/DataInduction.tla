--------------------------- MODULE DataInduction ---------------------------
(***************************************************************************)
(* Induction over data without an induction rule: a claim about numbers or *)
(* finite sets that fails somewhere fails at a least place.                *)
(***************************************************************************)
EXTENDS Integers, FiniteSets, WellFoundedInduction, FiniteSetTheorems, TLAPS

(* A set of naturals that is not empty has a least element. *)
LEMMA LeastNatural ==
  ASSUME NEW T \in SUBSET Nat, T # {}
  PROVE  \E n \in T : \A m \in T : n <= m
<1> DEFINE R == OpToRel(<, Nat)
<1>1. IsWellFoundedOn(R, Nat)
  BY NatLessThanWellFounded
<1>2. \A x, y \in Nat : x < y => <<x, y>> \in R
  BY DEF OpToRel
<1> HIDE DEF R
<1>3. PICK n \in T : \A m \in T : ~(<<m, n>> \in R)
  BY <1>1, WFMin
<1>4. \A m \in T : n <= m
  <2> SUFFICES ASSUME NEW m \in T, m < n
               PROVE  FALSE
    OBVIOUS
  <2>1. <<m, n>> \in R
    BY <1>2
  <2> QED BY <1>3, <2>1, Zenon
<1> QED BY <1>4

(* Among some subsets of a finite set one has no other below it. *)
LEMMA LeastSubset ==
  ASSUME NEW S, IsFiniteSet(S), NEW C \in SUBSET SUBSET S, C # {}
  PROVE  \E T \in C : \A U \in C : ~(U \subseteq T /\ U # T)
<1> DEFINE R == StrictSubsetOrdering(S)
<1>1. IsWellFoundedOn(R, SUBSET S)
  BY FS_StrictSubsetOrderingWellFounded, FS_FiniteSubsetsOfFinite
<1>2. \A U, T \in SUBSET S : U \subseteq T /\ U # T => <<U, T>> \in R
  BY DEF StrictSubsetOrdering
<1> HIDE DEF R
<1>3. \E T \in C : \A U \in C : ~(<<U, T>> \in R)
  BY <1>1, WFMin
<1> QED BY <1>2, <1>3

(* A finite set has a first element in an order of its elements. *)
LEMMA FirstOfOrder ==
  ASSUME NEW S, IsFiniteSet(S), S # {}, NEW R,
         \A x, y \in S : x # y => <<x, y>> \in R \/ <<y, x>> \in R,
         \A x, y, z \in S : <<x, y>> \in R /\ <<y, z>> \in R => <<x, z>> \in R
  PROVE  \E x \in S : \A y \in S \ {x} : <<x, y>> \in R
<1> DEFINE Led(T) == \E x \in T : \A y \in T \ {x} : <<x, y>> \in R
           C == {T \in SUBSET S : T # {} /\ ~Led(T)}
<1> SUFFICES ASSUME C # {} PROVE FALSE
  <2>1. S \notin C => Led(S)
    OBVIOUS
  <2> QED BY <2>1
<1>1. PICK T \in C : \A U \in C : ~(U \subseteq T /\ U # T)
  <2>1. C \in SUBSET SUBSET S
    OBVIOUS
  <2> HIDE DEF C
  <2> QED BY <2>1, LeastSubset
<1>2. PICK x \in T : TRUE
  OBVIOUS
<1>3. T \ {x} \notin C
  <2>1. T \ {x} \subseteq T /\ T \ {x} # T
    BY <1>2
  <2> HIDE DEF C
  <2> QED BY <1>1, <2>1
<1>4. CASE T \ {x} = {}
  <2>1. \A y \in T \ {x} : <<x, y>> \in R
    BY <1>4
  <2> QED BY <1>2, <2>1
<1>5. CASE T \ {x} # {}
  <2>1. PICK z \in T \ {x} : \A y \in (T \ {x}) \ {z} : <<z, y>> \in R
    BY <1>3, <1>5
  <2>2. CASE <<z, x>> \in R
    <3>1. \A y \in T \ {z} : <<z, y>> \in R
      BY <2>1, <2>2
    <3> QED BY <2>1, <3>1
  <2>3. CASE <<x, z>> \in R
    <3>1. \A y \in T \ {x} : <<x, y>> \in R
      BY <1>2, <2>1, <2>3
    <3> QED BY <1>2, <3>1
  <2> QED BY <1>2, <2>1, <2>2, <2>3
<1> QED BY <1>4, <1>5

(* Numbers up to a bound have a greatest one. *)
LEMMA GreatestNatural ==
  ASSUME NEW T \in SUBSET Nat, T # {}, NEW b \in Nat, \A n \in T : n <= b
  PROVE  \E n \in T : \A m \in T : m <= n
<1> DEFINE U == {c \in Nat : \A n \in T : n <= c}
<1>1. PICK c \in U : \A d \in U : c <= d
  <2>1. b \in U /\ U \in SUBSET Nat
    OBVIOUS
  <2> QED BY <2>1, LeastNatural
<1>2. c \in T
  <2> SUFFICES ASSUME c \notin T PROVE FALSE
    OBVIOUS
  <2>1. PICK n \in T : TRUE
    OBVIOUS
  <2>2. n <= c /\ n # c
    BY <1>1, <2>1
  <2>3. c - 1 \in U
    BY <1>1, <2>2
  <2> QED BY <1>1, <2>3
<1> QED BY <1>1, <1>2

(* A step that is taken n times from a value gives a sequence of values.   *)
Run(h, S, a, f, n) ==
  h \in [0 .. n -> S] /\ h[0] = a /\ \A k \in 0 .. n - 1 : h[k + 1] = f[<<k, h[k]>>]

LEMMA FiniteRecursion ==
  ASSUME NEW S, NEW a \in S, NEW f \in [Nat \X S -> S], NEW n \in Nat
  PROVE  \E h : Run(h, S, a, f, n)
<1> DEFINE T == {m \in Nat : ~\E h : Run(h, S, a, f, m)}
<1> SUFFICES ASSUME T # {} PROVE FALSE
  <2>1. n \notin T
    OBVIOUS
  <2> QED BY <2>1
<1>1. PICK m \in T : \A k \in T : m <= k
  <2>1. T \in SUBSET Nat
    OBVIOUS
  <2> HIDE DEF T
  <2> QED BY <2>1, LeastNatural
<1>2. m # 0
  <2>1. Run([k \in 0 .. 0 |-> a], S, a, f, 0)
    BY DEF Run
  <2> QED BY <2>1, <1>1
<1>3. PICK h : Run(h, S, a, f, m - 1)
  <2>1. m - 1 \in Nat /\ m - 1 \notin T
    BY <1>1, <1>2
  <2> QED BY <2>1
<1> DEFINE g == [k \in 0 .. m |-> IF k = m THEN f[<<m - 1, h[m - 1]>>] ELSE h[k]]
<1>4. Run(g, S, a, f, m)
  <2>1. m \in Nat \ {0} /\ h \in [0 .. m - 1 -> S] /\ h[0] = a
        /\ \A k \in 0 .. (m - 1) - 1 : h[k + 1] = f[<<k, h[k]>>]
    BY <1>1, <1>2, <1>3 DEF Run
  <2>2. g \in [0 .. m -> S] /\ g[0] = a
    BY <2>1
  <2>3. \A k \in 0 .. m - 1 : g[k + 1] = f[<<k, g[k]>>]
    <3> TAKE k \in 0 .. m - 1
    <3>1. k \in 0 .. m /\ k + 1 \in 0 .. m /\ g[k] = h[k]
      BY <2>1
    <3>2. CASE k = m - 1
      <4>1. g[m] = f[<<m - 1, h[m - 1]>>]
        BY <2>1
      <4> HIDE DEF g
      <4> QED BY <2>1, <3>1, <3>2, <4>1
    <3>3. CASE k # m - 1
      <4>1. k \in 0 .. (m - 1) - 1 /\ g[k + 1] = h[k + 1]
        BY <2>1, <3>3
      <4> HIDE DEF g
      <4> QED BY <2>1, <3>1, <4>1
    <3> QED BY <3>2, <3>3
  <2> HIDE DEF g
  <2> QED BY <2>2, <2>3 DEF Run
<1> QED BY <1>1, <1>4

LEMMA FirstInOrder ==
  ASSUME NEW T, T \subseteq Nat, IsFiniteSet(T), T # {},
         NEW R, \A x, y \in Nat : <<x, y>> \in R <=> x > y
  PROVE  \E n \in T : \A m \in T \ {n} : <<n, m>> \in R
<1>1. \A x, y \in T : x # y => <<x, y>> \in R \/ <<y, x>> \in R
  OBVIOUS
<1>2. \A x, y, z \in T : <<x, y>> \in R /\ <<y, z>> \in R => <<x, z>> \in R
  OBVIOUS
<1> QED BY <1>1, <1>2, FirstOfOrder

(* The greatest of finitely many numbers. *)
LEMMA GreatestOfFinite ==
  ASSUME NEW T, T \subseteq Nat, IsFiniteSet(T), T # {}
  PROVE  \E n \in T : \A m \in T : m <= n
<1>1. PICK R : \A x, y \in Nat : <<x, y>> \in R <=> x > y
  <2> DEFINE R == {p \in Nat \X Nat : p[1] > p[2]}
  <2>1. \A x, y \in Nat : <<x, y>> \in R <=> x > y
    OBVIOUS
  <2> HIDE DEF R
  <2> QED BY <2>1
<1>2. \E n \in T : \A m \in T \ {n} : <<n, m>> \in R
  BY <1>1, FirstInOrder
<1>3. PICK n \in T : \A m \in T \ {n} : <<n, m>> \in R
  BY <1>2
<1>4. \A x, y \in T : <<x, y>> \in R => y <= x
  BY <1>1
<1>5. \A m \in T \ {n} : m <= n
  BY <1>3, <1>4, Zenon
<1> QED BY <1>5

=============================================================================
