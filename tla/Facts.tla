------------------------------- MODULE Facts -------------------------------
(***************************************************************************)
(* Facts that the proofs of several parts need: induction on a number as   *)
(* one on a set of numbers, the existence of functions that are defined by *)
(* recursion, sums over finite sets, and picking from sequences.  The      *)
(* theorems of the library take an operator as parameter, the lemmas here  *)
(* take a set.                                                             *)
(***************************************************************************)
EXTENDS Integers, Sequences, FiniteSets, Functions, FiniteSetTheorems, WellFoundedInduction,
        TLAPS

(* A set of natural numbers has a least one. *)
LEMMA LeastNatural ==
    ASSUME NEW S, S \subseteq Nat, S # {}
    PROVE  \E x \in S : \A y \in S : x <= y
<1> DEFINE R == OpToRel(<, Nat)
<1>1. PICK x \in S : \A y \in S : ~(<<y, x>> \in R)
  BY NatLessThanWellFounded, WFMin, Zenon
<1>2. \A y \in S : y < x => <<y, x>> \in R
  BY DEF OpToRel
<1> HIDE DEF R
<1>3. \A y \in S : ~(y < x)
  BY <1>1, <1>2, Zenon
<1>4. \A y \in S : x \in Nat /\ y \in Nat
  OBVIOUS
<1> QED
  BY <1>3, <1>4

(* A set that holds 0 and with every number the next one holds them all. *)
LEMMA NatSetInduction ==
    ASSUME NEW S, 0 \in S, \A n \in Nat : n \in S => n + 1 \in S
    PROVE  Nat \subseteq S
<1> SUFFICES ASSUME Nat \ S # {} PROVE FALSE
  OBVIOUS
<1>1. PICK x \in Nat \ S : \A y \in Nat \ S : x <= y
  <2> DEFINE T == Nat \ S
  <2>1. T \subseteq Nat /\ T # {}
    OBVIOUS
  <2> HIDE DEF T
  <2>2. \E x \in T : \A y \in T : x <= y
    BY <2>1, LeastNatural
  <2> QED
    BY <2>2 DEF T
<1>2. x # 0 /\ x - 1 \in Nat
  OBVIOUS
<1>3. x - 1 \in S
  BY <1>1, <1>2
<1> QED
  BY <1>2, <1>3

(* A set of numbers from 1 to n has a greatest one. *)
LEMMA MaxOfInterval ==
    ASSUME NEW n \in Nat, NEW S, S \subseteq 1 .. n, S # {}
    PROVE  \E x \in S : \A y \in S : y <= x
<1> DEFINE T == {n - y : y \in S}
<1>1. T \subseteq Nat /\ T # {}
  <2>1. \A y \in S : n - y \in Nat
    OBVIOUS
  <2>2. PICK y \in S : TRUE
    OBVIOUS
  <2>3. n - y \in T
    OBVIOUS
  <2> QED
    BY <2>1, <2>3
<1>2. PICK z \in T : \A y \in T : z <= y
  BY <1>1, LeastNatural
<1>3. PICK x \in S : z = n - x
  OBVIOUS
<1>4. \A y \in S : n - x <= n - y
  BY <1>2, <1>3
<1> QED
  BY <1>4

(* A function that is defined by recursion on the numbers up to n exists. *)
IsRecursion(g, n, V, base, step) ==
    /\ g \in [0 .. n -> V]
    /\ g[0] = base
    /\ \A i \in 1 .. n : g[i] = step[i][g[i - 1]]

LEMMA RecursionExists ==
    ASSUME NEW N \in Nat, NEW V, NEW base \in V,
           NEW step, \A n \in Nat, v \in V : step[n][v] \in V
    PROVE  \E g : IsRecursion(g, N, V, base, step)
<1> DEFINE Good(g, m) == g[0] = base /\ \A n \in 1 .. m : g[n] = step[n][g[n - 1]]
           S == {m \in Nat : \E g \in [0 .. m -> V] : Good(g, m)}
<1>1. 0 \in S
  <2>1. [i \in 0 .. 0 |-> base] \in [0 .. 0 -> V] /\ Good([i \in 0 .. 0 |-> base], 0)
    OBVIOUS
  <2> QED
    BY <2>1
<1>2. ASSUME NEW m \in Nat, m \in S PROVE m + 1 \in S
  <2>1. PICK g \in [0 .. m -> V] : Good(g, m)
    BY <1>2
  <2> DEFINE h == [i \in 0 .. m + 1 |-> IF i = m + 1 THEN step[m + 1][g[m]] ELSE g[i]]
  <2>2. h \in [0 .. m + 1 -> V]
    <3>1. step[m + 1][g[m]] \in V
      OBVIOUS
    <3>2. \A i \in 0 .. m + 1 : i # m + 1 => i \in 0 .. m
      OBVIOUS
    <3> QED
      BY <3>1, <3>2
  <2>3. /\ \A i \in 0 .. m : h[i] = g[i]
        /\ h[m + 1] = step[m + 1][g[m]]
    OBVIOUS
  <2> HIDE DEF h
  <2>4. Good(h, m + 1)
    <3>1. h[0] = base
      BY <2>1, <2>3
    <3>2. ASSUME NEW n \in 1 .. m + 1 PROVE h[n] = step[n][h[n - 1]]
      <4>1. CASE n = m + 1
        BY <4>1, <2>3
      <4>2. CASE n # m + 1
        <5>1. n \in 1 .. m /\ n \in 0 .. m /\ n - 1 \in 0 .. m
          BY <4>2
        <5> QED
          BY <5>1, <2>1, <2>3
      <4> QED
        BY <4>1, <4>2
    <3> QED
      BY <3>1, <3>2
  <2>5. m + 1 \in Nat
    OBVIOUS
  <2>6. \E f \in [0 .. m + 1 -> V] : Good(f, m + 1)
    BY <2>2, <2>4
  <2> HIDE DEF Good
  <2> QED
    BY <2>5, <2>6
<1>3. Nat \subseteq S
  <2> HIDE DEF S
  <2> QED
    BY <1>1, <1>2, NatSetInduction
<1>4. PICK g \in [0 .. N -> V] : Good(g, N)
  BY <1>3
<1>5. IsRecursion(g, N, V, base, step)
  BY <1>4 DEF IsRecursion
<1> QED
  BY <1>5

-----------------------------------------------------------------------------
(* Sums of the values of a function. *)
IsSum(g, f, D) ==
    g = [s \in SUBSET D |-> IF s = {} THEN 0
                            ELSE LET x == CHOOSE x \in s : TRUE IN f[x] + g[s \ {x}]]

(* A subset of a finite set is finite; without one of its elements it has one
   element less. *)
LEMMA OneLess ==
    ASSUME NEW D, IsFiniteSet(D), NEW s \in SUBSET D, NEW x \in s
    PROVE  /\ x \in D /\ s \ {x} \in SUBSET D
           /\ Cardinality(s) \in Nat /\ Cardinality(s \ {x}) \in Nat
           /\ Cardinality(s) = Cardinality(s \ {x}) + 1
<1>1. IsFiniteSet(s) /\ IsFiniteSet(s \ {x})
  BY FS_Subset
<1>2. Cardinality(s) \in Nat /\ Cardinality(s \ {x}) \in Nat
  BY <1>1, FS_CardinalityType
<1>3. Cardinality(s \ {x}) = Cardinality(s) - 1
  BY <1>1, FS_RemoveElement
<1> QED
  BY <1>2, <1>3

(* What holds of the empty set, and of a set if it does of the set without its
   chosen element, holds of every subset of a finite set. *)
LEMMA SubsetInduction ==
    ASSUME NEW D, IsFiniteSet(D), NEW Good, {} \in Good,
           \A s \in SUBSET D : s # {} /\ s \ {CHOOSE x \in s : TRUE} \in Good => s \in Good
    PROVE  SUBSET D \subseteq Good
<1> DEFINE N == {n \in Nat : \A s \in SUBSET D : Cardinality(s) = n => s \in Good}
<1>1. 0 \in N
  <2>1. \A s \in SUBSET D : Cardinality(s) = 0 => s = {}
    BY FS_Subset, FS_EmptySet
  <2> QED
    BY <2>1
<1>2. ASSUME NEW n \in Nat, n \in N PROVE n + 1 \in N
  <2> SUFFICES ASSUME NEW s \in SUBSET D, Cardinality(s) = n + 1 PROVE s \in Good
    OBVIOUS
  <2>1. s # {}
    BY FS_EmptySet
  <2>2. Cardinality(s \ {CHOOSE x \in s : TRUE}) = n /\ s \ {CHOOSE x \in s : TRUE} \in SUBSET D
    <3> HIDE DEF N
    <3>1. PICK x \in s : x = CHOOSE y \in s : TRUE
      BY <2>1
    <3>2. /\ Cardinality(s \ {x}) \in Nat /\ s \ {x} \in SUBSET D
          /\ Cardinality(s) = Cardinality(s \ {x}) + 1
      BY OneLess
    <3>3. Cardinality(s \ {x}) = n
      BY <3>2
    <3> QED
      BY <3>1, <3>2, <3>3
  <2>3. s \ {CHOOSE x \in s : TRUE} \in Good
    BY <1>2, <2>2
  <2> QED
    BY <2>1, <2>3
<1>3. Nat \subseteq N
  <2> HIDE DEF N
  <2> QED
    BY <1>1, <1>2, NatSetInduction
<1>4. ASSUME NEW s \in SUBSET D PROVE s \in Good
  <2>1. Cardinality(s) \in Nat
    BY FS_Subset, FS_CardinalityType
  <2>2. Cardinality(s) \in N
    BY <1>3, <2>1
  <2> QED
    BY <2>2
<1> QED
  BY <1>4

(* The function that gives the sum over every subset exists. *)
LEMMA SumExists ==
    ASSUME NEW D, IsFiniteSet(D), NEW f \in [D -> Int]
    PROVE  \E g : IsSum(g, f, D)
<1> DEFINE Small(n) == {s \in SUBSET D : Cardinality(s) <= n}
           chosen(s) == CHOOSE x \in s : TRUE
           Upto(g, n) == /\ g \in [Small(n) -> Int]
                         /\ \A s \in Small(n) :
                               g[s] = IF s = {} THEN 0 ELSE f[chosen(s)] + g[s \ {chosen(s)}]
           N == {n \in Nat : \E g : Upto(g, n)}
<1>1. 0 \in N
  <2>1. \A s \in Small(0) : s = {}
    <3>1. \A s \in SUBSET D : s # {} => Cardinality(s) \in Nat /\ Cardinality(s) # 0
      BY FS_Subset, FS_CardinalityType, FS_EmptySet
    <3> QED
      BY <3>1
  <2>2. Upto([s \in Small(0) |-> 0], 0)
    BY <2>1
  <2> QED
    BY <2>2
<1>2. ASSUME NEW n \in Nat, n \in N PROVE n + 1 \in N
  <2>1. PICK g : Upto(g, n)
    BY <1>2
  <2> DEFINE h == [s \in Small(n + 1) |->
                      IF s = {} THEN 0 ELSE f[chosen(s)] + g[s \ {chosen(s)}]]
  <2>2. ASSUME NEW s \in Small(n + 1), s # {}
        PROVE  chosen(s) \in D /\ s \ {chosen(s)} \in Small(n) /\ s \ {chosen(s)} \in Small(n + 1)
    <3>1. /\ chosen(s) \in D /\ s \ {chosen(s)} \in SUBSET D
          /\ Cardinality(s) \in Nat /\ Cardinality(s \ {chosen(s)}) \in Nat
          /\ Cardinality(s) = Cardinality(s \ {chosen(s)}) + 1
      <4>1. chosen(s) \in s
        BY <2>2
      <4> QED
        BY <4>1, OneLess
    <3> QED
      BY <3>1
  <2> HIDE DEF Small, chosen
  <2>3. h \in [Small(n + 1) -> Int]
    BY <2>1, <2>2
  <2>4. \A s \in Small(n) : s \in Small(n + 1) => h[s] = g[s]
    BY <2>1
  <2>5. Upto(h, n + 1)
    <3>1. ASSUME NEW s \in Small(n + 1)
          PROVE  h[s] = IF s = {} THEN 0 ELSE f[chosen(s)] + h[s \ {chosen(s)}]
      BY <2>2, <2>4
    <3> QED
      BY <2>3, <3>1
  <2> HIDE DEF Upto
  <2>6. n + 1 \in Nat
    OBVIOUS
  <2> QED
    BY <2>5, <2>6
<1>3. Nat \subseteq N
  <2> HIDE DEF N
  <2> QED
    BY <1>1, <1>2, NatSetInduction
<1>4. Cardinality(D) \in Nat /\ \A s \in SUBSET D : Cardinality(s) <= Cardinality(D)
  BY FS_CardinalityType, FS_Subset
<1>5. PICK g : Upto(g, Cardinality(D))
  BY <1>3, <1>4
<1>6. Small(Cardinality(D)) = SUBSET D
  BY <1>4
<1>7. IsSum(g, f, D)
  BY <1>5, <1>6 DEF IsSum
<1> QED
  BY <1>7

(* The sum that the library computes is one of these. *)
LEMMA SumIsFold ==
    ASSUME NEW D, IsFiniteSet(D), NEW f \in [D -> Int]
    PROVE  \E g : IsSum(g, f, D) /\ SumFunctionOnSet(f, D) = g[D]
<1> DEFINE g == CHOOSE g : IsSum(g, f, D)
<1>1. IsSum(g, f, D)
  BY SumExists
<1>3. SumFunctionOnSet(f, D) = g[D]
  BY Zenon DEF SumFunctionOnSet, FoldFunctionOnSet, MapThenFoldSet, IsSum
<1> QED
  BY <1>1, <1>3

(* The sum of no values is 0, and no sum is less than that of smaller values:
   if one of them is smaller by d, so is the sum. *)
LEMMA SumMonotone ==
    ASSUME NEW D, IsFiniteSet(D), NEW f \in [D -> Int], NEW h \in [D -> Int],
           NEW a \in D, NEW d \in Int, h[a] + d <= f[a],
           \A x \in D : x # a => h[x] <= f[x]
    PROVE  SumFunctionOnSet(h, D) + d <= SumFunctionOnSet(f, D)
<1>1. PICK p : IsSum(p, f, D) /\ SumFunctionOnSet(f, D) = p[D]
  BY SumIsFold
<1>2. PICK q : IsSum(q, h, D) /\ SumFunctionOnSet(h, D) = q[D]
  BY SumIsFold
<1> DEFINE Good == {s \in SUBSET D : /\ p[s] \in Int /\ q[s] \in Int
                                     /\ q[s] + (IF a \in s THEN d ELSE 0) <= p[s]}
<1>3. {} \in Good
  BY <1>1, <1>2 DEF IsSum
<1>4. ASSUME NEW s \in SUBSET D, s # {}, s \ {CHOOSE x \in s : TRUE} \in Good
      PROVE  s \in Good
  <2>1. PICK x : x = CHOOSE y \in s : TRUE
    OBVIOUS
  <2>2. x \in s /\ x \in D
    BY <1>4, <2>1
  <2>3. p[s] = f[x] + p[s \ {x}] /\ q[s] = h[x] + q[s \ {x}]
    BY <1>1, <1>2, <1>4, <2>1 DEF IsSum
  <2>4. s \ {x} \in Good
    BY <1>4, <2>1
  <2> QED
    BY <2>2, <2>3, <2>4
<1>5. SUBSET D \subseteq Good
  <2> HIDE DEF Good
  <2> QED
    BY <1>3, <1>4, SubsetInduction
<1>6. D \in Good
  BY <1>5
<1> QED
  BY <1>1, <1>2, <1>6

(* A sum of n values, none more than b, is an integer and at most n times b. *)
LEMMA SumBounded ==
    ASSUME NEW D, IsFiniteSet(D), NEW f \in [D -> Int], NEW b \in Int, \A x \in D : f[x] <= b
    PROVE  SumFunctionOnSet(f, D) \in Int /\ SumFunctionOnSet(f, D) <= Cardinality(D) * b
<1>1. PICK p : IsSum(p, f, D) /\ SumFunctionOnSet(f, D) = p[D]
  BY SumIsFold
<1> DEFINE Good == {s \in SUBSET D : p[s] \in Int /\ p[s] <= Cardinality(s) * b}
<1>2. {} \in Good
  <2>1. p[{}] = 0 /\ Cardinality({}) = 0 /\ 0 * b = 0
    BY <1>1, FS_EmptySet DEF IsSum
  <2> QED
    BY <2>1
<1>3. ASSUME NEW s \in SUBSET D, s # {}, s \ {CHOOSE x \in s : TRUE} \in Good
      PROVE  s \in Good
  <2>1. PICK x \in s : x = CHOOSE y \in s : TRUE
    BY <1>3
  <2>2. p[s] = f[x] + p[s \ {x}]
    BY <1>1, <1>3, <2>1 DEF IsSum
  <2>3. /\ x \in D /\ Cardinality(s) \in Nat /\ Cardinality(s \ {x}) \in Nat
        /\ Cardinality(s) = Cardinality(s \ {x}) + 1
    BY OneLess
  <2>4. p[s \ {x}] \in Int /\ p[s \ {x}] <= Cardinality(s \ {x}) * b
    BY <1>3, <2>1
  <2>5. Cardinality(s) * b = Cardinality(s \ {x}) * b + b
    BY <2>3
  <2>6. Cardinality(s \ {x}) * b \in Int
    BY <2>3
  <2> QED
    BY <2>2, <2>3, <2>4, <2>5, <2>6
<1>4. SUBSET D \subseteq Good
  <2> HIDE DEF Good
  <2> QED
    BY <1>2, <1>3, SubsetInduction
<1>5. D \in Good
  BY <1>4
<1> QED
  BY <1>1, <1>5

(* A finite set of integers has a greatest element. *)
LEMMA FiniteMax ==
    ASSUME NEW D, IsFiniteSet(D), D \subseteq Int, D # {}
    PROVE  \E x \in D : \A y \in D : y <= x
<1> DEFINE Good == {s \in SUBSET D : s # {} => \E x \in s : \A y \in s : y <= x}
<1>1. {} \in Good
  OBVIOUS
<1>2. ASSUME NEW s \in SUBSET D, s # {}, s \ {CHOOSE x \in s : TRUE} \in Good
      PROVE  s \in Good
  <2> DEFINE a == CHOOSE x \in s : TRUE
  <2>1. a \in s /\ a \in Int
    BY <1>2
  <2> HIDE DEF a
  <2>2. CASE s \ {a} = {}
    BY <2>1, <2>2
  <2>3. CASE s \ {a} # {}
    <3>1. PICK m \in s \ {a} : \A y \in s \ {a} : y <= m
      BY <1>2, <2>3 DEF a
    <3>2. m \in Int /\ \A y \in s : y \in Int
      BY <3>1
    <3>3. CASE a <= m
      BY <2>1, <3>1, <3>2, <3>3
    <3>4. CASE m < a
      BY <2>1, <3>1, <3>2, <3>4
    <3> QED
      BY <2>1, <3>2, <3>3, <3>4
  <2> QED
    BY <2>2, <2>3
<1> HIDE DEF Good
<1>3. SUBSET D \subseteq Good
  BY <1>1, <1>2, SubsetInduction
<1>4. D \in Good
  BY <1>3
<1> QED
  BY <1>4 DEF Good

(* ... and a least one. *)
LEMMA FiniteMin ==
    ASSUME NEW D, IsFiniteSet(D), D \subseteq Int, D # {}
    PROVE  \E x \in D : \A y \in D : x <= y
<1> DEFINE Good == {s \in SUBSET D : s # {} => \E x \in s : \A y \in s : x <= y}
<1>1. {} \in Good
  OBVIOUS
<1>2. ASSUME NEW s \in SUBSET D, s # {}, s \ {CHOOSE x \in s : TRUE} \in Good
      PROVE  s \in Good
  <2> DEFINE a == CHOOSE x \in s : TRUE
  <2>1. a \in s /\ a \in Int
    BY <1>2
  <2> HIDE DEF a
  <2>2. CASE s \ {a} = {}
    BY <2>1, <2>2
  <2>3. CASE s \ {a} # {}
    <3>1. PICK m \in s \ {a} : \A y \in s \ {a} : m <= y
      BY <1>2, <2>3 DEF a
    <3>2. m \in Int /\ \A y \in s : y \in Int
      BY <3>1
    <3>3. CASE m <= a
      BY <2>1, <3>1, <3>2, <3>3
    <3>4. CASE a < m
      BY <2>1, <3>1, <3>2, <3>4
    <3> QED
      BY <2>1, <3>2, <3>3, <3>4
  <2> QED
    BY <2>2, <2>3
<1> HIDE DEF Good
<1>3. SUBSET D \subseteq Good
  BY <1>1, <1>2, SubsetInduction
<1>4. D \in Good
  BY <1>3
<1> QED
  BY <1>4 DEF Good
(* A sum of values that are each at least b, and one of them d more. *)
LEMMA SumAtLeast ==
    ASSUME NEW D, IsFiniteSet(D), NEW f \in [D -> Int], NEW b \in Int, NEW a, NEW d \in Int,
           \A x \in D : b + (IF x = a THEN d ELSE 0) <= f[x]
    PROVE  /\ SumFunctionOnSet(f, D) \in Int
           /\ Cardinality(D) * b + (IF a \in D THEN d ELSE 0) <= SumFunctionOnSet(f, D)
<1>1. PICK p : IsSum(p, f, D) /\ SumFunctionOnSet(f, D) = p[D]
  BY SumIsFold
<1> DEFINE Good == {s \in SUBSET D :
                       /\ p[s] \in Int
                       /\ Cardinality(s) * b + (IF a \in s THEN d ELSE 0) <= p[s]}
<1>2. {} \in Good
  <2>1. p[{}] = 0 /\ Cardinality({}) = 0 /\ 0 * b = 0
    BY <1>1, FS_EmptySet DEF IsSum
  <2> QED
    BY <2>1
<1>3. ASSUME NEW s \in SUBSET D, s # {}, s \ {CHOOSE x \in s : TRUE} \in Good
      PROVE  s \in Good
  <2>1. PICK x : x = CHOOSE y \in s : TRUE
    OBVIOUS
  <2>2. x \in s /\ x \in D
    BY <1>3, <2>1
  <2>3. p[s] = f[x] + p[s \ {x}]
    BY <1>1, <1>3, <2>1 DEF IsSum
  <2>4. s \ {x} \in Good
    BY <1>3, <2>1
  <2>5. /\ Cardinality(s) \in Nat /\ Cardinality(s \ {x}) \in Nat
        /\ Cardinality(s) = Cardinality(s \ {x}) + 1
    BY <2>2, OneLess
  <2> DEFINE n == Cardinality(s \ {x})
  <2>6. n * b \in Int /\ Cardinality(s) * b = n * b + b
    <3>1. n \in Nat /\ Cardinality(s) = n + 1
      BY <2>5
    <3> HIDE DEF n
    <3>2. n * b \in Int /\ (n + 1) * b = n * b + b
      BY <3>1
    <3> QED
      BY <3>1, <3>2
  <2>7. (IF a \in s THEN d ELSE 0)
            = (IF a \in s \ {x} THEN d ELSE 0) + (IF x = a THEN d ELSE 0)
    BY <2>2
  <2>8. f[x] \in Int /\ b + (IF x = a THEN d ELSE 0) <= f[x]
    BY <2>2
  <2>9. p[s \ {x}] \in Int /\ n * b + (IF a \in s \ {x} THEN d ELSE 0) <= p[s \ {x}]
    BY <2>4
  <2> HIDE DEF n, Good
  <2>10. p[s] \in Int /\ Cardinality(s) * b + (IF a \in s THEN d ELSE 0) <= p[s]
    BY <2>3, <2>6, <2>7, <2>8, <2>9
  <2> QED
    BY <2>10 DEF Good
<1>4. SUBSET D \subseteq Good
  <2> HIDE DEF Good
  <2> QED
    BY <1>2, <1>3, SubsetInduction
<1>5. D \in Good
  BY <1>4
<1> QED
  BY <1>1, <1>5

-----------------------------------------------------------------------------
(* What is picked from a sequence at some of its indices: one function says it up to
   each index, and its last value is a sequence of the same elements. *)
IsPicked(g, s, at) ==
    g = [n \in 0 .. Len(s) |->
            IF n = 0 THEN <<>>
            ELSE IF n \in at THEN Append(g[n - 1], s[n]) ELSE g[n - 1]]

LEMMA PickedExists ==
    ASSUME NEW S, NEW s \in Seq(S), NEW at
    PROVE  \E g : IsPicked(g, s, at) /\ g[Len(s)] \in Seq(S)
<1> DEFINE N == Len(s)
           step == [n \in Nat |-> [v \in Seq(S) |->
                       IF n \in 1 .. N /\ n \in at THEN Append(v, s[n]) ELSE v]]
<1>1. N \in Nat /\ \A n \in 1 .. N : s[n] \in S
  OBVIOUS
<1>2. \A n \in Nat, v \in Seq(S) : step[n][v] \in Seq(S)
  BY <1>1
<1>3. \A n \in 1 .. N, v \in Seq(S) : step[n][v] = IF n \in at THEN Append(v, s[n]) ELSE v
  BY <1>1
<1> HIDE DEF step, N
<1>4. PICK g : IsRecursion(g, N, Seq(S), <<>>, step)
  <2>1. N \in Nat /\ <<>> \in Seq(S)
    BY <1>1
  <2>2. \E g : IsRecursion(g, N, Seq(S), <<>>, step)
    BY <1>2, <2>1, RecursionExists
  <2> QED
    BY <2>2
<1>5. g \in [0 .. N -> Seq(S)] /\ g[0] = <<>> /\ \A n \in 1 .. N : g[n] = step[n][g[n - 1]]
  BY <1>4 DEF IsRecursion
<1>6. ASSUME NEW n \in 0 .. N
      PROVE g[n] = IF n = 0 THEN <<>> ELSE IF n \in at THEN Append(g[n - 1], s[n]) ELSE g[n - 1]
  <2>1. CASE n = 0
    BY <1>5, <2>1
  <2>2. CASE n # 0
    <3>1. n \in 1 .. N /\ n - 1 \in 0 .. N
      BY <1>1, <2>2
    <3> QED
      BY <1>3, <1>5, <2>2, <3>1
  <2> QED
    BY <2>1, <2>2
<1>7. IsPicked(g, s, at)
  BY <1>5, <1>6, Zenon DEF IsPicked, N
<1>8. g[N] \in Seq(S)
  BY <1>1, <1>5
<1> QED
  BY <1>7, <1>8 DEF N

(* Two functions with the same recursion are the same. *)
LEMMA PickedUnique ==
    ASSUME NEW S, NEW s \in Seq(S), NEW at, NEW g, NEW h, IsPicked(g, s, at), IsPicked(h, s, at)
    PROVE  g[Len(s)] = h[Len(s)]
<1> DEFINE N == Len(s)
           Good == {n \in Nat : n <= N => g[n] = h[n]}
<1>1. N \in Nat
  OBVIOUS
<1>2. 0 \in Good
  BY <1>1 DEF IsPicked
<1>3. ASSUME NEW n \in Nat, n \in Good PROVE n + 1 \in Good
  <2>1. CASE n + 1 <= N
    <3>1. n + 1 \in 0 .. N /\ n + 1 # 0 /\ (n + 1) - 1 = n /\ g[n] = h[n]
      BY <1>1, <1>3, <2>1
    <3>2. g[n + 1] = IF n + 1 \in at THEN Append(g[n], s[n + 1]) ELSE g[n]
      BY <3>1 DEF IsPicked
    <3>3. h[n + 1] = IF n + 1 \in at THEN Append(h[n], s[n + 1]) ELSE h[n]
      BY <3>1 DEF IsPicked
    <3> QED
      BY <3>1, <3>2, <3>3
  <2>2. CASE ~(n + 1 <= N)
    BY <2>2
  <2> QED
    BY <2>1, <2>2
<1> HIDE DEF Good
<1>4. N \in Good
  BY <1>1, <1>2, <1>3, NatSetInduction
<1> QED
  BY <1>1, <1>4 DEF Good
==============================================================================
