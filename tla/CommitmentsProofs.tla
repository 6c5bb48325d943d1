-------------------------- MODULE CommitmentsProofs --------------------------
(***************************************************************************)
(* Proofs about Attribution and Commitments.                               *)
(*                                                                         *)
(* The first half is about the energy of a cycle, for any energy, any      *)
(* number of processes and any weights: shares add up to the energy that   *)
(* is split and are the proportional ones up to rounding, and so are the   *)
(* records made of them.                                                   *)
(*                                                                         *)
(* The second half is about what is published of records, for records of   *)
(* any number and any contents that fit the encoding: an encoding, a       *)
(* Merkle root and the head of a chain each have one preimage, a proof     *)
(* of inclusion exists for the records of a batch and for no others, and   *)
(* blocks verify in their order only.                                      *)
(*                                                                         *)
(* The model sums with SumFunctionOnSet, about which the library states    *)
(* nothing, so the first section derives what is needed from its           *)
(* definition: that the recursion it chooses a solution of has one.        *)
(* Induction over numbers is over the least one at which a claim fails.    *)
(***************************************************************************)
EXTENDS Commitments, FiniteSetTheorems, SequenceTheorems, NaturalsInduction,
        WellFoundedInduction, TLAPS

-----------------------------------------------------------------------------
(* Finite sets *)

\* Induction over the parts of a finite set.
LEMMA SubsetInduction ==
    ASSUME NEW S, IsFiniteSet(S), NEW G,
           \A T \in SUBSET S : (\A U \in (SUBSET T) \ {T} : U \in G) => T \in G
    PROVE  \A T \in SUBSET S : T \in G
  <1>. DEFINE Bad == (SUBSET S) \ G
  <1>. SUFFICES ASSUME Bad # {} PROVE FALSE
    OBVIOUS
  <1>1. Bad \subseteq FiniteSubsetsOf(S)
    BY FS_FiniteSubsetsOfFinite
  <1>2. \E T \in Bad : \A U \in Bad : ~ (<<U, T>> \in StrictSubsetOrdering(S))
    <2>. HIDE DEF Bad
    <2>. QED  BY <1>1, FS_StrictSubsetOrderingWellFounded, WFMin
  <1>3. PICK T \in Bad : \A U \in Bad : ~ (<<U, T>> \in StrictSubsetOrdering(S))
    BY <1>2
  <1>4. ASSUME NEW U \in (SUBSET T) \ {T} PROVE U \in G
    <2>1. U \in SUBSET S /\ <<U, T>> \in StrictSubsetOrdering(S)
      BY DEF StrictSubsetOrdering
    <2>. QED  BY <1>3, <2>1
  <1>. QED  BY <1>4

\* The element a sum over s starts with.
Some(s) == CHOOSE x \in s : TRUE

\* g is the sum of f over each part of S.
Sums(S, f, g) ==
    g = [s \in SUBSET S |-> IF s = {} THEN 0 ELSE f[Some(s)] + g[s \ {Some(s)}]]

\* The recursion of a sum.
LEMMA SumsValues ==
    ASSUME NEW S, NEW f, NEW g, Sums(S, f, g), NEW s \in SUBSET S
    PROVE  g[s] = IF s = {} THEN 0 ELSE f[Some(s)] + g[s \ {Some(s)}]
  BY DEF Sums

\* A nonempty set is larger than what is left without that element.
LEMMA SomeIn ==
    ASSUME NEW s, s # {}
    PROVE  Some(s) \in s /\ s \ {Some(s)} \in (SUBSET s) \ {s}
  BY DEF Some

\* Two sums agree on what they are both about ...
LEMMA SumsAgree ==
    ASSUME NEW S, NEW T, NEW f, NEW g, NEW h, Sums(S, f, g), Sums(T, f, h),
           NEW A, IsFiniteSet(A), A \subseteq S, A \subseteq T
    PROVE  g[A] = h[A]
  <1>. DEFINE G == {s \in SUBSET A : g[s] = h[s]}
  <1>1. ASSUME NEW s \in SUBSET A, \A U \in (SUBSET s) \ {s} : U \in G
        PROVE  s \in G
    <2>1. CASE s = {}
      BY <2>1, SumsValues
    <2>2. CASE s # {}
      <3>. DEFINE u == s \ {Some(s)}
      <3>1. u \in G /\ u \in SUBSET s
        BY <1>1, <2>2, SomeIn
      <3>2. g[u] = h[u]
        BY <3>1
      <3>3. s \in SUBSET S /\ s \in SUBSET T
        OBVIOUS
      <3>4. g[s] = f[Some(s)] + g[u]
        BY <2>2, <3>3, Sums(S, f, g) DEF Sums
      <3>5. h[s] = f[Some(s)] + h[u]
        BY <2>2, <3>3, Sums(T, f, h) DEF Sums
      <3>. QED  BY <3>2, <3>4, <3>5
    <2>. QED  BY <2>1, <2>2
  <1>. HIDE DEF G
  <1>2. A \in G
    BY <1>1, SubsetInduction
  <1>. QED  BY <1>2 DEF G

\* ... and there is one for every finite set.
LEMMA SumsExist ==
    ASSUME NEW S, IsFiniteSet(S), NEW f
    PROVE  \E g : Sums(S, f, g)
  <1>. DEFINE G == {T \in SUBSET S : \E g : Sums(T, f, g)}
              Of(T) == CHOOSE g : Sums(T, f, g)
              V(T) == Of(T)[T]
  <1>1. ASSUME NEW T \in SUBSET S, \A U \in (SUBSET T) \ {T} : U \in G
        PROVE  T \in G
    <2>. DEFINE r == IF T = {} THEN 0 ELSE f[Some(T)] + V(T \ {Some(T)})
                g == [s \in SUBSET T |-> IF s = T THEN r ELSE V(s)]
    <2>0. \A U \in (SUBSET T) \ {T} : Sums(U, f, Of(U))
      BY <1>1
    <2>1. ASSUME NEW s \in (SUBSET T) \ {T}, s # {}
          PROVE  V(s) = f[Some(s)] + V(s \ {Some(s)})
      <3>. DEFINE u == s \ {Some(s)}
      <3>1. u \in (SUBSET T) \ {T} /\ u \in SUBSET s
        BY <2>1, SomeIn
      <3>2. Sums(s, f, Of(s)) /\ Sums(u, f, Of(u))
        BY <2>0, <3>1
      <3>3. IsFiniteSet(u)
        BY <3>1, FS_Subset
      <3>4. V(s) = f[Some(s)] + Of(s)[u]
        <4>. HIDE DEF Of
        <4>. QED  BY <2>1, <3>2, SumsValues
      <3>5. Of(s)[u] = Of(u)[u]
        <4>. HIDE DEF Of, u
        <4>. QED  BY <3>1, <3>2, <3>3, SumsAgree
      <3>. QED  BY <3>4, <3>5
    <2>2. {} # T => V({}) = 0
      <3>1. {} # T => Sums({}, f, Of({}))
        BY <2>0
      <3>. HIDE DEF Of
      <3>. QED  BY <3>1, SumsValues
    <2>3. ASSUME NEW s \in SUBSET T
          PROVE  g[s] = IF s = {} THEN 0 ELSE f[Some(s)] + g[s \ {Some(s)}]
      <3>. HIDE DEF V
      <3>1. s # {} => s \ {Some(s)} \in (SUBSET T) \ {T}
        BY SomeIn
      <3>2. CASE s = T
        BY <3>1, <3>2
      <3>3. CASE s # T
        BY <2>1, <2>2, <3>1, <3>3
      <3>. QED  BY <3>2, <3>3
    <2>4. Sums(T, f, g)
      <3>. HIDE DEF r, V
      <3>1. g = [s \in SUBSET T |-> g[s]]
        OBVIOUS
      <3>2. g = [s \in SUBSET T |-> IF s = {} THEN 0 ELSE f[Some(s)] + g[s \ {Some(s)}]]
        <4>. HIDE DEF g
        <4>. QED  BY <2>3, <3>1
      <3>. QED  BY <3>2 DEF Sums
    <2>. QED  BY <2>4
  <1>2. S \in G
    <2>. HIDE DEF G
    <2>. QED  BY <1>1, SubsetInduction
  <1>. QED  BY <1>2

-----------------------------------------------------------------------------
(* Sums *)

\* The sum of f over S.
Total(f, S) == SumFunctionOnSet(f, S)

\* SumFunctionOnSet is defined by that recursion ...
LEMMA SumIs ==
    ASSUME NEW f, NEW S
    PROVE  Total(f, S) = (CHOOSE g : Sums(S, f, g))[S]
  BY DEF Total, SumFunctionOnSet, FoldFunctionOnSet, MapThenFoldSet, Sums, Some

\* ... which it satisfies.
LEMMA SumStarts ==
    ASSUME NEW f, NEW S, IsFiniteSet(S)
    PROVE  Total(f, S) = IF S = {} THEN 0
                           ELSE f[Some(S)] + Total(f, S \ {Some(S)})
  <1>. DEFINE g == CHOOSE h : Sums(S, f, h)
              T == S \ {Some(S)}
              k == CHOOSE h : Sums(T, f, h)
  <1>1. Sums(S, f, g)
    BY SumsExist
  <1>2. IsFiniteSet(T) /\ T \in SUBSET S
    BY FS_Subset
  <1>3. Sums(T, f, k)
    <2>. HIDE DEF T
    <2>. QED  BY <1>2, SumsExist
  <1>4. Total(f, S) = g[S] /\ Total(f, T) = k[T]
    BY SumIs
  <1>. HIDE DEF g, k
  <1>5. g[S] = IF S = {} THEN 0 ELSE f[Some(S)] + g[T]
    BY <1>1, SumsValues
  <1>6. g[T] = k[T]
    <2>. HIDE DEF T
    <2>. QED  BY <1>1, <1>2, <1>3, SumsAgree
  <1>. QED  BY <1>4, <1>5, <1>6

\* The empty sum is 0.
LEMMA SumOfNone ==
    ASSUME NEW f PROVE Total(f, {}) = 0
  BY SumStarts, FS_EmptySet

\* A sum of integers is one.
LEMMA SumIsInt ==
    ASSUME NEW S, IsFiniteSet(S), NEW f, \A x \in S : f[x] \in Int
    PROVE  \A T \in SUBSET S : Total(f, T) \in Int
  <1>. DEFINE G == {T \in SUBSET S : Total(f, T) \in Int}
  <1>1. ASSUME NEW T \in SUBSET S, \A U \in (SUBSET T) \ {T} : U \in G
        PROVE  T \in G
    <2>1. CASE T = {}
      BY <2>1, SumOfNone
    <2>2. CASE T # {}
      <3>1. Total(f, T) = f[Some(T)] + Total(f, T \ {Some(T)})
        BY <2>2, SumStarts, FS_Subset
      <3>2. f[Some(T)] \in Int /\ Total(f, T \ {Some(T)}) \in Int
        BY <1>1, <2>2, SomeIn
      <3>. QED  BY <3>1, <3>2
    <2>. QED  BY <2>1, <2>2
  <1>. HIDE DEF G
  <1>2. \A T \in SUBSET S : T \in G
    BY <1>1, SubsetInduction
  <1>. QED  BY <1>2 DEF G

\* A sum may be taken in any order.
LEMMA SumSplits ==
    ASSUME NEW S, IsFiniteSet(S), NEW f, \A x \in S : f[x] \in Int
    PROVE  \A T \in SUBSET S : \A x \in T :
              Total(f, T) = f[x] + Total(f, T \ {x})
  <1>. DEFINE G == {T \in SUBSET S : \A x \in T :
                      Total(f, T) = f[x] + Total(f, T \ {x})}
  <1>1. ASSUME NEW T \in SUBSET S, \A U \in (SUBSET T) \ {T} : U \in G
        PROVE  T \in G
    <2>1. SUFFICES ASSUME NEW x \in T
                   PROVE  Total(f, T) = f[x] + Total(f, T \ {x})
      OBVIOUS
    <2>. DEFINE c == Some(T)
                both == (T \ {x}) \ {c}
    <2>2. c \in T
      BY SomeIn
    <2>3. Total(f, T) = f[c] + Total(f, T \ {c})
      BY SumStarts, FS_Subset
    <2>4. CASE x = c
      BY <2>3, <2>4
    <2>5. CASE x # c
      <3>1. both = (T \ {c}) \ {x} /\ x \in T \ {c} /\ c \in T \ {x} /\ both \in SUBSET S
        BY <2>2, <2>5
      <3>2. T \ {c} \in G /\ T \ {x} \in G
        BY <1>1, <2>2
      <3>3. /\ Total(f, T \ {c}) = f[x] + Total(f, both)
            /\ Total(f, T \ {x}) = f[c] + Total(f, both)
        BY <3>1, <3>2
      <3>4. f[x] \in Int /\ f[c] \in Int /\ Total(f, both) \in Int
        BY <2>2, <3>1, SumIsInt
      <3>. HIDE DEF c, both
      <3>. QED  BY <2>3, <3>3, <3>4
    <2>. QED  BY <2>4, <2>5
  <1>. HIDE DEF G
  <1>2. \A T \in SUBSET S : T \in G
    BY <1>1, SubsetInduction
  <1>. QED  BY <1>2 DEF G

\* A sum of naturals is one.
LEMMA SumIsNat ==
    ASSUME NEW S, IsFiniteSet(S), NEW f, \A x \in S : f[x] \in Nat
    PROVE  Total(f, S) \in Nat
  <1>. DEFINE G == {T \in SUBSET S : Total(f, T) \in Nat}
  <1>1. ASSUME NEW T \in SUBSET S, \A U \in (SUBSET T) \ {T} : U \in G
        PROVE  T \in G
    <2>1. CASE T = {}
      BY <2>1, SumOfNone
    <2>2. CASE T # {}
      <3>1. Total(f, T) = f[Some(T)] + Total(f, T \ {Some(T)})
        BY <2>2, SumStarts, FS_Subset
      <3>2. f[Some(T)] \in Nat /\ Total(f, T \ {Some(T)}) \in Nat
        BY <1>1, <2>2, SomeIn
      <3>. QED  BY <3>1, <3>2
    <2>. QED  BY <2>1, <2>2
  <1>. HIDE DEF G
  <1>2. S \in G
    BY <1>1, SubsetInduction
  <1>. QED  BY <1>2 DEF G

\* A sum depends on its terms only.
LEMMA SumUnchanged ==
    ASSUME NEW S, IsFiniteSet(S), NEW f, NEW g, \A x \in S : f[x] = g[x]
    PROVE  Total(f, S) = Total(g, S)
  <1>. DEFINE G == {T \in SUBSET S : Total(f, T) = Total(g, T)}
  <1>1. ASSUME NEW T \in SUBSET S, \A U \in (SUBSET T) \ {T} : U \in G
        PROVE  T \in G
    <2>1. CASE T = {}
      BY <2>1, SumOfNone
    <2>2. CASE T # {}
      <3>1. /\ Total(f, T) = f[Some(T)] + Total(f, T \ {Some(T)})
            /\ Total(g, T) = g[Some(T)] + Total(g, T \ {Some(T)})
        BY <2>2, SumStarts, FS_Subset
      <3>2. f[Some(T)] = g[Some(T)] /\ T \ {Some(T)} \in G
        BY <1>1, <2>2, SomeIn
      <3>. QED  BY <3>1, <3>2
    <2>. QED  BY <2>1, <2>2
  <1>. HIDE DEF G
  <1>2. S \in G
    BY <1>1, SubsetInduction
  <1>. QED  BY <1>2 DEF G

\* One term only.
LEMMA SumOfOne ==
    ASSUME NEW f, NEW x, f[x] \in Int
    PROVE  Total(f, {x}) = f[x]
  <1>1. IsFiniteSet({x})
    BY FS_Singleton
  <1>2. Total(f, {x}) = f[x] + Total(f, {x} \ {x})
    BY <1>1, SumSplits
  <1>3. {x} \ {x} = {}
    OBVIOUS
  <1>. QED  BY <1>2, <1>3, SumOfNone

\* Terms of 0 may be left out.
LEMMA SumOfPositive ==
    ASSUME NEW S, IsFiniteSet(S), NEW f, \A x \in S : f[x] \in Nat
    PROVE  Total(f, {x \in S : f[x] > 0}) = Total(f, S)
  <1>. DEFINE Pos(T) == {x \in T : f[x] > 0}
              G == {T \in SUBSET S : Total(f, Pos(T)) = Total(f, T)}
  <1>0. \A x \in S : f[x] \in Int
    OBVIOUS
  <1>1. ASSUME NEW T \in SUBSET S, \A U \in (SUBSET T) \ {T} : U \in G
        PROVE  T \in G
    <2>1. CASE Pos(T) = T
      BY <2>1
    <2>2. CASE Pos(T) # T
      <3>1. PICK x \in T : ~(f[x] > 0)
        BY <2>2
      <3>. DEFINE U == T \ {x}
      <3>2. f[x] = 0
        BY <3>1
      <3>3. Pos(U) = Pos(T) /\ U \in (SUBSET T) \ {T}
        BY <3>1
      <3>4. Total(f, T) = f[x] + Total(f, U)
        <4>. HIDE DEF U, Pos, G
        <4>. QED  BY <1>0, <3>1, SumSplits DEF U
      <3>5. Total(f, U) \in Int
        <4>. HIDE DEF Pos, G
        <4>. QED  BY <1>0, SumIsInt
      <3>6. Total(f, Pos(U)) = Total(f, U)
        BY <1>1, <3>3
      <3>. HIDE DEF U, Pos
      <3>7. Total(f, Pos(T)) = Total(f, T)
        BY <3>2, <3>3, <3>4, <3>5, <3>6
      <3>. QED  BY <3>7
    <2>. QED  BY <2>1, <2>2
  <1>. HIDE DEF G
  <1>2. S \in G
    BY <1>1, SubsetInduction
  <1>. QED  BY <1>2 DEF G

\* A sum of naturals is at least each of them.
LEMMA SumCovers ==
    ASSUME NEW S, IsFiniteSet(S), NEW f, \A x \in S : f[x] \in Nat, NEW x \in S
    PROVE  f[x] <= Total(f, S)
  <1>1. \A y \in S : f[y] \in Int
    OBVIOUS
  <1>2. Total(f, S) = f[x] + Total(f, S \ {x})
    BY <1>1, SumSplits
  <1>3. IsFiniteSet(S \ {x}) /\ \A y \in S \ {x} : f[y] \in Nat
    BY FS_Subset
  <1>4. Total(f, S \ {x}) \in Nat
    <2>. DEFINE R == S \ {x}
    <2>1. IsFiniteSet(R) /\ \A y \in R : f[y] \in Nat
      BY <1>3
    <2>. HIDE DEF R
    <2>2. Total(f, R) \in Nat
      BY <2>1, SumIsNat
    <2>. QED  BY <2>2 DEF R
  <1>5. f[x] \in Nat
    OBVIOUS
  <1>. QED  BY <1>2, <1>4, <1>5

\* A sum of zeros.
LEMMA SumOfZeros ==
    ASSUME NEW S, IsFiniteSet(S), NEW f, \A x \in S : f[x] = 0
    PROVE  Total(f, S) = 0
  <1>1. {x \in S : f[x] > 0} = {} /\ \A x \in S : f[x] \in Nat
    OBVIOUS
  <1>2. Total(f, {x \in S : f[x] > 0}) = Total(f, S)
    BY <1>1, SumOfPositive
  <1>. QED  BY <1>1, <1>2, SumOfNone

-----------------------------------------------------------------------------
(* Shares *)

\* Division with remainder.
LEMMA Division ==
    ASSUME NEW a \in Nat, NEW b \in Nat \ {0}
    PROVE  /\ a \div b \in Nat
           /\ b * (a \div b) <= a
           /\ a <= b * (a \div b) + (b - 1)
  OBVIOUS

\* Dividing keeps the order.
LEMMA DivisionGrows ==
    ASSUME NEW p \in Nat, NEW q \in Nat, NEW b \in Nat \ {0},
           NEW x \in Nat, NEW y \in Nat, x <= y,
           b * p <= x, y <= b * q + (b - 1)
    PROVE  p <= q
  <1>1. SUFFICES ASSUME p > q PROVE FALSE
    OBVIOUS
  <1>2. PICK k \in Nat : p = q + 1 + k
    <2>1. p - q - 1 \in Nat /\ p = q + 1 + (p - q - 1)
      BY <1>1
    <2>. QED  BY <2>1
  <1>3. b * p = b * q + b + b * k /\ b * k \in Nat /\ b * q \in Nat
    BY <1>2
  <1>. QED  BY <1>3

\* A factor that two sums of products have in common.
LEMMA Distributes ==
    ASSUME NEW a \in Int, NEW x \in Int, NEW y \in Int
    PROVE  a * (x + y) = a * x + a * y /\ a * x \in Int /\ a * y \in Int
  OBVIOUS

\* Weights: naturals at finitely many positions, not all of them 0.
Weights(w) ==
    /\ DOMAIN w \subseteq Nat /\ IsFiniteSet(DOMAIN w)
    /\ w \in [DOMAIN w -> Nat]
    /\ Sum(w) # 0

\* The proportional shares, rounded down.
Floors(total, w) == [k \in DOMAIN w |-> FloorShare(total, w[k], Sum(w))]

\* What is left of the energy.
Remainder(total, w) == total - Sum(Floors(total, w))

LEMMA WeightFacts ==
    ASSUME NEW w, Weights(w)
    PROVE  /\ Sum(w) \in Nat \ {0}
           /\ Sum(w) = Total(w, DOMAIN w)
           /\ \A k \in DOMAIN w : w[k] \in Nat /\ w[k] <= Sum(w)
  <1>1. Sum(w) = Total(w, DOMAIN w)
    BY DEF Sum, SumFunction, Total
  <1>2. \A k \in DOMAIN w : w[k] \in Nat
    BY DEF Weights
  <1>3. Total(w, DOMAIN w) \in Nat
    BY <1>2, SumIsNat DEF Weights
  <1>4. \A k \in DOMAIN w : w[k] <= Total(w, DOMAIN w)
    BY <1>2, SumCovers DEF Weights
  <1>. QED  BY <1>1, <1>2, <1>3, <1>4 DEF Weights

LEMMA FloorFacts ==
    ASSUME NEW w, Weights(w), NEW d \in Nat
    PROVE  \A k \in DOMAIN w :
             /\ Floors(d, w)[k] \in Nat
             /\ Sum(w) * Floors(d, w)[k] <= d * w[k]
             /\ d * w[k] <= Sum(w) * Floors(d, w)[k] + (Sum(w) - 1)
  <1>. TAKE k \in DOMAIN w
  <1>1. Sum(w) \in Nat \ {0} /\ w[k] \in Nat
    BY WeightFacts
  <1>2. PICK a \in Nat : a = d * w[k]
    BY <1>1
  <1>3. Floors(d, w)[k] = a \div Sum(w)
    BY <1>2 DEF Floors, FloorShare
  <1>. QED  BY <1>1, <1>2, <1>3, Division

\* The rounded shares of all positions together: not more than the energy, and
\* less than one for each position below it.
LEMMA FloorsFit ==
    ASSUME NEW w, Weights(w), NEW d \in Nat
    PROVE  /\ Remainder(d, w) \in Nat
           /\ Sum(w) * Remainder(d, w) <= (Sum(w) - 1) * Cardinality(DOMAIN w)
           /\ Sum(Floors(d, w)) \in Nat
  <1>. DEFINE D == DOMAIN w
              W == Sum(w)
              fl == Floors(d, w)
              F(T) == Total(fl, T)
              V(T) == Total(w, T)
              C(T) == Cardinality(T)
              G == {T \in SUBSET D : /\ W * F(T) <= d * V(T)
                                     /\ d * V(T) <= W * F(T) + (W - 1) * C(T)}
  <1>0. /\ IsFiniteSet(D) /\ W \in Nat \ {0} /\ W - 1 \in Nat
        /\ \A k \in D : w[k] \in Nat /\ w[k] \in Int
    BY WeightFacts DEF Weights
  <1>1. \A k \in D : /\ fl[k] \in Nat /\ fl[k] \in Int
                     /\ W * fl[k] <= d * w[k]
                     /\ d * w[k] <= W * fl[k] + (W - 1)
    BY FloorFacts
  <1>. HIDE DEF D, W, fl
  <1>2. \A T \in SUBSET D : F(T) \in Int /\ V(T) \in Int
    BY <1>0, <1>1, SumIsInt
  <1>3. \A T \in SUBSET D : C(T) \in Nat
    BY <1>0, FS_Subset, FS_CardinalityType
  <1>4. ASSUME NEW T \in SUBSET D, \A U \in (SUBSET T) \ {T} : U \in G
        PROVE  T \in G
    <2>1. CASE T = {}
      <3>1. F(T) = 0 /\ V(T) = 0 /\ C(T) = 0
        BY <2>1, SumOfNone, FS_EmptySet
      <3>2. W * 0 = 0 /\ d * 0 = 0 /\ (W - 1) * 0 = 0
        BY <1>0
      <3>3. W * F(T) <= d * V(T) /\ d * V(T) <= W * F(T) + (W - 1) * C(T)
        BY <3>1, <3>2
      <3>. QED  BY <3>3
    <2>2. CASE T # {}
      <3>. DEFINE c == Some(T)
                  U == T \ {c}
      <3>1. c \in T /\ c \in D /\ U \in (SUBSET T) \ {T} /\ U \in SUBSET D
            /\ IsFiniteSet(T)
        BY <1>0, <2>2, SomeIn, FS_Subset
      <3>2. F(T) = fl[c] + F(U) /\ V(T) = w[c] + V(U)
        BY <2>2, <3>1, SumStarts
      <3>3. C(T) = C(U) + 1
        <4>1. C(U) = C(T) - 1 /\ C(T) \in Nat
          BY <3>1, <1>3, FS_RemoveElement
        <4>. QED  BY <4>1
      <3>4. U \in G
        BY <1>4, <3>1
      <3>. DEFINE p == F(U)
                  q == V(U)
                  n == C(U)
                  a == fl[c]
                  b == w[c]
      <3>5. /\ W * p <= d * q /\ d * q <= W * p + (W - 1) * n
            /\ p \in Int /\ q \in Int /\ n \in Nat
        BY <1>2, <1>3, <3>1, <3>4
      <3>6. /\ a \in Int /\ b \in Int
            /\ W * a <= d * b /\ d * b <= W * a + (W - 1)
        BY <1>0, <1>1, <3>1
      <3>7. F(T) = a + p /\ V(T) = b + q /\ C(T) = n + 1
        BY <3>2, <3>3
      <3>. HIDE DEF p, q, n, a, b, F, V, C
      <3>8. /\ W * (a + p) <= d * (b + q)
            /\ d * (b + q) <= W * (a + p) + (W - 1) * (n + 1)
        <4>1. W * (a + p) = W * a + W * p /\ W * a \in Int /\ W * p \in Int
          BY <1>0, <3>5, <3>6, Distributes
        <4>2. d * (b + q) = d * b + d * q /\ d * b \in Int /\ d * q \in Int
          BY <3>5, <3>6, Distributes
        <4>3. (W - 1) * (n + 1) = (W - 1) * n + (W - 1) /\ (W - 1) * n \in Int
          <5>1. (W - 1) * (n + 1) = (W - 1) * n + (W - 1) * 1 /\ (W - 1) * n \in Int
            BY <1>0, <3>5, Distributes
          <5>2. (W - 1) * 1 = W - 1
            BY <1>0
          <5>. QED  BY <5>1, <5>2
        <4>. QED  BY <1>0, <3>5, <3>6, <4>1, <4>2, <4>3
      <3>. QED  BY <3>7, <3>8
    <2>. QED  BY <2>1, <2>2
  <1>5. D \in G
    <2>. HIDE DEF G
    <2>. QED  BY <1>0, <1>4, SubsetInduction
  <1>6. V(D) = W
    BY WeightFacts DEF D, W
  <1>7. Sum(fl) = F(D)
    BY DEF Sum, SumFunction, Total, fl, Floors, D
  <1>. DEFINE p == F(D)
              n == C(D)
  <1>8. /\ W * p <= d * W /\ d * W <= W * p + (W - 1) * n
        /\ n \in Nat
    BY <1>3, <1>5, <1>6
  <1>9. p \in Nat
    BY <1>0, <1>1, SumIsNat
  <1>10. Remainder(d, w) = d - p
    BY <1>7 DEF Remainder, fl
  <1>. HIDE DEF p, n
  <1>11. p <= d
    <2>1. W * d = d * W /\ d * W \in Nat
      BY <1>0
    <2>2. d * W <= W * d + (W - 1)
      BY <1>0, <2>1
    <2>. QED  BY <1>0, <1>8, <1>9, <2>1, <2>2, DivisionGrows
  <1>12. W * (d - p) <= (W - 1) * n
    <2>1. W * (d - p) = W * d + W * (-p)
      <3>1. W * (d + (-p)) = W * d + W * (-p)
        BY <1>0, <1>9, Distributes
      <3>2. d + (-p) = d - p
        BY <1>9
      <3>. QED  BY <3>1, <3>2
    <2>2. W * (-p) = - (W * p) /\ W * p \in Int /\ W * d = d * W /\ d * W \in Int
      BY <1>0, <1>9
    <2>3. (W - 1) * n \in Int
      BY <1>0, <1>8
    <2>. QED  BY <1>8, <2>1, <2>2, <2>3
  <1>13. Sum(fl) \in Nat
    BY <1>7, <1>9 DEF p
  <1>14. Remainder(d, w) \in Nat
    BY <1>9, <1>10, <1>11
  <1>15. W * Remainder(d, w) <= (W - 1) * n
    BY <1>10, <1>12
  <1>. QED  BY <1>13, <1>14, <1>15 DEF D, W, fl, n

\* There is a last one of the largest weights.
LEMMA HeaviestExists ==
    ASSUME NEW w, Weights(w)
    PROVE  /\ Heaviest(w) \in DOMAIN w
           /\ \A i \in DOMAIN w : w[i] <= w[Heaviest(w)]
  <1>. DEFINE D == DOMAIN w
              LastOf(T, k) ==
                /\ k \in T
                /\ \A i \in T : w[i] <= w[k]
                /\ \A i \in T : i > k => w[i] < w[k]
              G == {T \in SUBSET D : T = {} \/ \E k \in T : LastOf(T, k)}
  <1>0. /\ IsFiniteSet(D) /\ D # {}
        /\ \A k \in D : w[k] \in Nat /\ k \in Nat
    <2>1. Sum(w) # 0 /\ Sum(w) = Total(w, D)
      BY WeightFacts DEF Weights
    <2>2. D # {}
      BY <2>1, SumOfNone
    <2>. QED  BY <2>2 DEF Weights
  <1>. HIDE DEF D
  <1>1. ASSUME NEW T \in SUBSET D, \A U \in (SUBSET T) \ {T} : U \in G
        PROVE  T \in G
    <2>1. CASE T # {}
      <3>. DEFINE c == Some(T)
                  U == T \ {c}
      <3>1. c \in T /\ U \in G
        BY <1>1, <2>1, SomeIn
      <3>. HIDE DEF c
      <3>2. CASE U = {}
        <4>1. T = {c} /\ w[c] \in Nat /\ c \in Nat
          BY <1>0, <3>1, <3>2
        <4>2. LastOf(T, c)
          BY <4>1
        <4>. QED  BY <3>1, <4>2
      <3>3. CASE U # {}
        <4>1. PICK k \in U : LastOf(U, k)
          BY <3>1, <3>3
        <4>2. /\ w[k] \in Nat /\ w[c] \in Nat /\ k \in Nat /\ c \in Nat
              /\ \A i \in T : w[i] \in Nat /\ i \in Nat
          BY <1>0, <3>1
        <4>3. CASE w[c] > w[k] \/ (w[c] = w[k] /\ c > k)
          <5>1. ASSUME NEW i \in T
                PROVE  w[i] <= w[c] /\ (i > c => w[i] < w[c])
            <6>1. CASE i = c
              BY <4>2, <6>1
            <6>2. CASE i # c
              <7>1. w[i] <= w[k] /\ (i > k => w[i] < w[k])
                BY <4>1, <6>2
              <7>. QED  BY <4>2, <4>3, <7>1
            <6>. QED  BY <6>1, <6>2
          <5>2. LastOf(T, c)
            BY <3>1, <5>1
          <5>. QED  BY <3>1, <5>2
        <4>4. CASE ~(w[c] > w[k] \/ (w[c] = w[k] /\ c > k))
          <5>1. ASSUME NEW i \in T
                PROVE  w[i] <= w[k] /\ (i > k => w[i] < w[k])
            <6>1. CASE i = c
              <7>1. w[c] <= w[k] /\ (c > k => w[c] < w[k])
                BY <4>2, <4>4
              <7>. QED  BY <6>1, <7>1
            <6>2. CASE i # c
              BY <4>1, <6>2
            <6>. QED  BY <6>1, <6>2
          <5>2. k \in T /\ LastOf(T, k)
            BY <4>1, <5>1
          <5>. QED  BY <5>2
        <4>. QED  BY <4>3, <4>4
      <3>. QED  BY <3>2, <3>3
    <2>. QED  BY <2>1
  <1>2. D \in G
    <2>. HIDE DEF G
    <2>. QED  BY <1>0, <1>1, SubsetInduction
  <1>3. \E k \in D : LastOf(D, k)
    BY <1>0, <1>2
  <1>4. Heaviest(w) \in D /\ LastOf(D, Heaviest(w))
    BY <1>3 DEF Heaviest, D
  <1>. QED  BY <1>4 DEF D

\* attribute_by_weight gives away all the energy: the rounded shares, and what
\* is left to one of the heaviest.
LEMMA SharesFacts ==
    ASSUME NEW w, Weights(w), NEW d \in Nat
    PROVE  /\ DOMAIN AttributeByWeight(d, w) = DOMAIN w
           /\ \A k \in DOMAIN w :
                /\ AttributeByWeight(d, w)[k] \in Nat
                /\ AttributeByWeight(d, w)[k] =
                     IF k = Heaviest(w) THEN Floors(d, w)[k] + Remainder(d, w)
                                        ELSE Floors(d, w)[k]
           /\ Total(AttributeByWeight(d, w), DOMAIN w) = d
  <1>. DEFINE D == DOMAIN w
              sh == AttributeByWeight(d, w)
              fl == Floors(d, w)
              r == Remainder(d, w)
              h == Heaviest(w)
  <1>1. sh = [fl EXCEPT ![h] = @ + r]
    BY DEF AttributeByWeight, Floors, Remainder
  <1>2. DOMAIN fl = D
    BY DEF Floors
  <1>3. h \in D /\ IsFiniteSet(D)
    BY HeaviestExists DEF Weights
  <1>4. \A k \in D : fl[k] \in Nat /\ fl[k] \in Int
    BY FloorFacts
  <1>5. r \in Nat /\ Sum(fl) \in Nat
    BY FloorsFit
  <1>6. Sum(fl) = Total(fl, D) /\ r = d - Sum(fl)
    BY <1>2 DEF Sum, SumFunction, Total, Remainder
  <1>. HIDE DEF D, sh, fl, r, h
  <1>7. /\ DOMAIN sh = D
        /\ \A k \in D : sh[k] = IF k = h THEN fl[k] + r ELSE fl[k]
    BY <1>1, <1>2, <1>3
  <1>8. \A k \in D : sh[k] \in Nat /\ sh[k] \in Int
    BY <1>4, <1>5, <1>7
  <1>9. Total(sh, D) = d
    <2>. DEFINE R == D \ {h}
    <2>0. IsFiniteSet(R) /\ R \in SUBSET D
      BY <1>3, FS_Subset
    <2>1. Total(sh, D) = sh[h] + Total(sh, R)
      BY <1>3, <1>8, SumSplits
    <2>2. Total(fl, D) = fl[h] + Total(fl, R)
      BY <1>3, <1>4, SumSplits
    <2>3. Total(sh, R) = Total(fl, R)
      <3>1. \A k \in R : sh[k] = fl[k]
        BY <1>7
      <3>. HIDE DEF R
      <3>. QED  BY <2>0, <3>1, SumUnchanged
    <2>4. Total(fl, R) \in Int
      BY <1>3, <1>4, <2>0, SumIsInt
    <2>. HIDE DEF R
    <2>5. sh[h] = fl[h] + r /\ fl[h] \in Int
      BY <1>3, <1>4, <1>7
    <2>6. fl[h] + Total(fl, R) = Sum(fl)
      BY <1>6, <2>2
    <2>. QED  BY <1>5, <1>6, <2>1, <2>3, <2>4, <2>5, <2>6
  <1>. QED  BY <1>7, <1>8, <1>9 DEF D, sh, fl, r, h

-----------------------------------------------------------------------------
(* Records *)

WeightsOf(b) == [k \in DOMAIN b |-> b[k].weight]
SharesOf(d, b) == AttributeByWeight(d, WeightsOf(b))
Served(d, b) == {k \in DOMAIN b : SharesOf(d, b)[k] > 0}

\* Records carry the shares, and together all the energy.
LEMMA RecordsFacts ==
    ASSUME NEW b, Weights(WeightsOf(b)), NEW d \in Nat
    PROVE  /\ Records(d, b) = [k \in Served(d, b) |->
                                 Charge(b[k].who, SharesOf(d, b)[k])]
           /\ Energies(Records(d, b)) = [k \in Served(d, b) |-> SharesOf(d, b)[k]]
           /\ \A k \in DOMAIN b : SharesOf(d, b)[k] \in Nat
           /\ Sum(Energies(Records(d, b))) = d
  <1>. DEFINE w == WeightsOf(b)
              sh == SharesOf(d, b)
              P == Served(d, b)
              e == Energies(Records(d, b))
  <1>1. Records(d, b) = [k \in P |-> Charge(b[k].who, sh[k])]
    BY DEF Records, Weights, WeightsOf, SharesOf, Served
  <1>2. e = [k \in P |-> sh[k]]
    BY <1>1 DEF Energies, Charge
  <1>3. DOMAIN w = DOMAIN b /\ IsFiniteSet(DOMAIN b)
    BY DEF WeightsOf, Weights
  <1>4. /\ \A k \in DOMAIN b : sh[k] \in Nat
        /\ Total(sh, DOMAIN b) = d
    BY <1>3, SharesFacts DEF SharesOf
  <1>5. Sum(e) = d
    <2>1. P = {k \in DOMAIN b : sh[k] > 0} /\ P \in SUBSET DOMAIN b
      BY DEF Served
    <2>2. IsFiniteSet(P)
      BY <1>3, <2>1, FS_Subset
    <2>3. Sum(e) = Total(e, P)
      BY <1>2 DEF Sum, SumFunction, Total
    <2>. HIDE DEF sh, P, e, w
    <2>4. Total(e, P) = Total(sh, P)
      BY <1>2, <2>2, SumUnchanged
    <2>5. Total(sh, P) = Total(sh, DOMAIN b)
      BY <1>3, <1>4, <2>1, SumOfPositive
    <2>. QED  BY <1>4, <2>3, <2>4, <2>5
  <1>. QED  BY <1>1, <1>2, <1>4, <1>5

\* The processes of a request.
LEMMA ProcsFacts ==
    ASSUME NEW ws \in Seq(Nat)
    PROVE  /\ Len(ws) \in Nat /\ DOMAIN ws = 1..Len(ws)
           /\ IsFiniteSet(DOMAIN ws) /\ DOMAIN ws \subseteq Nat
           /\ Cardinality(DOMAIN ws) = Len(ws)
           /\ \A k \in DOMAIN ws : ws[k] \in Nat /\ k # 0 /\ k # -1
  <1>1. Len(ws) \in Nat /\ DOMAIN ws = 1..Len(ws)
    BY LenProperties
  <1>2. \A k \in 1..Len(ws) : ws[k] \in Nat
    BY ElementOfSeq
  <1>3. IsFiniteSet(1..Len(ws)) /\ Cardinality(1..Len(ws)) = Len(ws)
    <2>. DEFINE n == Len(ws)
    <2>1. n \in Int /\ 1 \in Int /\ n >= 0
      BY <1>1
    <2>. HIDE DEF n
    <2>2. IsFiniteSet(1..n) /\ Cardinality(1..n) = IF 1 > n THEN 0 ELSE n - 1 + 1
      BY <2>1, FS_Interval
    <2>3. Cardinality(1..n) = n
      BY <2>1, <2>2
    <2>. QED  BY <2>2, <2>3 DEF n
  <1>4. DOMAIN ws \subseteq Nat /\ \A k \in DOMAIN ws : k # 0 /\ k # -1
    BY <1>1
  <1>. QED  BY <1>1, <1>2, <1>3, <1>4

Resting(ws) == \A k \in DOMAIN ws : ws[k] = 0

LEMMA PositionsMakeASeq ==
    ASSUME NEW n \in Nat, NEW S, NEW f \in [1..n -> S]
    PROVE  f \in Seq(S) /\ Len(f) = n
  OBVIOUS

\* The buckets of a VM's processes have weights: a VM at rest has a bucket of
\* its own.
LEMMA CpuWeights ==
    ASSUME NEW ws \in Seq(Nat)
    PROVE  /\ Weights(WeightsOf(CpuBuckets(ws)))
           /\ ~Resting(ws) =>
                CpuBuckets(ws) = [k \in DOMAIN ws |-> Bucket(k, ws[k])]
  <1>. DEFINE own == [k \in DOMAIN ws |-> Bucket(k, ws[k])]
              n == Len(ws)
              b == CpuBuckets(ws)
              w == WeightsOf(b)
  <1>1. /\ n \in Nat /\ DOMAIN ws = 1..n
        /\ IsFiniteSet(DOMAIN ws) /\ DOMAIN ws \subseteq Nat
        /\ \A k \in DOMAIN ws : ws[k] \in Nat
    BY ProcsFacts
  <1>2. CASE Resting(ws)
    <2>1. b = Append(own, Bucket(Nobody, 1))
      BY <1>2 DEF CpuBuckets, Resting
    <2>2. own \in Seq([who : Nat, weight : Nat]) /\ Len(own) = n
      <3>1. \A k \in 1..n : Bucket(k, ws[k]) \in [who : Nat, weight : Nat]
        BY <1>1 DEF Bucket
      <3>2. own = [k \in 1..n |-> Bucket(k, ws[k])]
        BY <1>1
      <3>3. own \in [1..n -> [who : Nat, weight : Nat]]
        BY <3>1, <3>2
      <3>. HIDE DEF own, n
      <3>4. n \in Nat
        BY <1>1
      <3>. QED  BY <3>3, <3>4, PositionsMakeASeq
    <2>. HIDE DEF own, n
    <2>3. /\ DOMAIN b = 1..(n + 1)
          /\ \A k \in 1..(n + 1) : b[k].weight \in Nat
          /\ b[n + 1].weight = 1
      <3>1. Bucket(Nobody, 1) \in [who : Nat, weight : Nat]
            /\ Bucket(Nobody, 1).weight = 1
        BY DEF Bucket, Nobody
      <3>2. /\ b \in Seq([who : Nat, weight : Nat]) /\ Len(b) = n + 1
            /\ b[n + 1] = Bucket(Nobody, 1)
        BY <2>1, <2>2, <3>1, AppendProperties
      <3>3. DOMAIN b = 1..(n + 1) /\ \A k \in 1..(n + 1) : b[k] \in [who : Nat, weight : Nat]
        BY <3>2, LenProperties, ElementOfSeq
      <3>. QED  BY <3>1, <3>2, <3>3
    <2>. HIDE DEF b
    <2>4. DOMAIN w = 1..(n + 1) /\ \A k \in 1..(n + 1) : w[k] = b[k].weight
      BY <2>3 DEF WeightsOf
    <2>5. IsFiniteSet(DOMAIN w) /\ DOMAIN w \subseteq Nat
      <3>1. n + 1 \in Int /\ 1 \in Int
        BY <1>1 DEF n
      <3>2. IsFiniteSet(1..(n + 1))
        BY <3>1, FS_Interval
      <3>. QED  BY <2>4, <3>2
    <2>6. w \in [DOMAIN w -> Nat]
      BY <2>3, <2>4 DEF WeightsOf
    <2>7. n + 1 \in DOMAIN w /\ w[n + 1] = 1
      <3>1. n \in Nat
        BY <1>1 DEF n
      <3>. QED  BY <2>3, <2>4, <3>1
    <2>8. Sum(w) # 0
      <3>. HIDE DEF w
      <3>1. \A k \in DOMAIN w : w[k] \in Nat
        BY <2>6
      <3>2. w[n + 1] <= Total(w, DOMAIN w) /\ Total(w, DOMAIN w) \in Nat
        BY <2>5, <2>7, <3>1, SumCovers, SumIsNat
      <3>3. Sum(w) = Total(w, DOMAIN w)
        BY DEF Sum, SumFunction, Total
      <3>. QED  BY <2>7, <3>2, <3>3
    <2>9. Weights(w)
      BY <2>5, <2>6, <2>8 DEF Weights
    <2>. QED  BY <1>2, <2>9 DEF b
  <1>3. CASE ~Resting(ws)
    <2>1. b = own
      BY <1>3 DEF CpuBuckets, Resting
    <2>2. DOMAIN w = DOMAIN ws /\ \A k \in DOMAIN ws : w[k] = ws[k]
      BY <2>1 DEF WeightsOf, Bucket
    <2>3. w \in [DOMAIN w -> Nat]
      BY <1>1, <2>2 DEF WeightsOf
    <2>4. PICK k \in DOMAIN ws : ws[k] # 0
      BY <1>3 DEF Resting
    <2>5. Sum(w) # 0
      <3>. HIDE DEF w
      <3>1. \A j \in DOMAIN w : w[j] \in Nat
        BY <2>3
      <3>2. w[k] <= Total(w, DOMAIN w) /\ Total(w, DOMAIN w) \in Nat
        BY <1>1, <2>2, <3>1, SumCovers, SumIsNat
      <3>3. Sum(w) = Total(w, DOMAIN w)
        BY DEF Sum, SumFunction, Total
      <3>. QED  BY <1>1, <2>2, <2>4, <3>2, <3>3
    <2>6. Weights(w)
      BY <1>1, <2>2, <2>3, <2>5 DEF Weights
    <2>. QED  BY <2>1, <2>6
  <1>. QED  BY <1>2, <1>3

\* So have those of a card's: the active processes, or one that says why there
\* are none.
LEMMA GpuWeights ==
    ASSUME NEW ws \in Seq(Nat), NEW d \in Nat
    PROVE  /\ Weights(WeightsOf(GpuBuckets(d, ws)))
           /\ \A k \in DOMAIN GpuBuckets(d, ws) :
                GpuBuckets(d, ws)[k].who \in DOMAIN ws =>
                    /\ GpuBuckets(d, ws)[k].who = k
                    /\ ws[k] > 0 /\ d <= PerCycle
  <1>. DEFINE A == {k \in DOMAIN ws : d <= PerCycle /\ ws[k] > 0}
              b == GpuBuckets(d, ws)
              w == WeightsOf(b)
  <1>1. /\ IsFiniteSet(DOMAIN ws) /\ DOMAIN ws \subseteq Nat
        /\ \A k \in DOMAIN ws : ws[k] \in Nat /\ k # 0 /\ k # -1
    BY ProcsFacts
  <1>2. CASE A = {}
    <2>1. PICK x \in {0, -1} : b = <<Bucket(x, 1)>>
      BY <1>2 DEF GpuBuckets, Nobody, Unattributed
    <2>2. DOMAIN b = {1} /\ b[1] = Bucket(x, 1)
      <3>1. DOMAIN <<Bucket(x, 1)>> = 1..1 /\ <<Bucket(x, 1)>>[1] = Bucket(x, 1)
        OBVIOUS
      <3>2. 1..1 = {1}
        OBVIOUS
      <3>. QED  BY <2>1, <3>1, <3>2
    <2>. HIDE DEF b
    <2>3. DOMAIN w = {1} /\ w[1] = 1
      BY <2>2 DEF WeightsOf, Bucket
    <2>4. w \in [DOMAIN w -> Nat] /\ IsFiniteSet(DOMAIN w) /\ DOMAIN w \subseteq Nat
      <3>1. IsFiniteSet({1})
        BY FS_Singleton
      <3>. QED  BY <2>3, <3>1 DEF WeightsOf
    <2>5. Sum(w) = 1
      <3>1. Sum(w) = Total(w, {1})
        BY <2>3 DEF Sum, SumFunction, Total
      <3>2. w[1] \in Int
        BY <2>3
      <3>. HIDE DEF w
      <3>. QED  BY <2>3, <3>1, <3>2, SumOfOne
    <2>6. Weights(w)
      BY <2>4, <2>5 DEF Weights
    <2>7. \A k \in DOMAIN b : b[k].who \notin DOMAIN ws
      BY <1>1, <2>2 DEF Bucket
    <2>. QED  BY <2>6, <2>7 DEF b
  <1>3. CASE A # {}
    <2>. DEFINE Used(k) == IF ws[k] > FullUtil THEN FullUtil ELSE ws[k]
    <2>1. b = [k \in A |-> Bucket(k, Used(k))]
      BY <1>3 DEF GpuBuckets
    <2>2. \A k \in A : Used(k) \in Nat /\ Used(k) > 0
      BY <1>1, AttributionAssumption
    <2>. HIDE DEF b, Used
    <2>3. DOMAIN w = A /\ \A k \in A : w[k] = Used(k)
      BY <2>1 DEF WeightsOf, Bucket
    <2>4. w \in [DOMAIN w -> Nat]
      BY <2>2, <2>3 DEF WeightsOf
    <2>5. IsFiniteSet(A) /\ A \subseteq Nat
      <3>1. A \in SUBSET DOMAIN ws
        OBVIOUS
      <3>. HIDE DEF A
      <3>. QED  BY <1>1, <3>1, FS_Subset
    <2>6. Sum(w) # 0
      <3>1. PICK k \in A : TRUE
        BY <1>3
      <3>2. \A j \in A : w[j] \in Nat
        BY <2>2, <2>3
      <3>3. Sum(w) = Total(w, A)
        BY <2>3 DEF Sum, SumFunction, Total
      <3>. HIDE DEF w, A
      <3>4. w[k] <= Total(w, A) /\ Total(w, A) \in Nat
        BY <2>5, <3>2, SumCovers, SumIsNat
      <3>. QED  BY <2>2, <2>3, <3>3, <3>4
    <2>7. Weights(w)
      BY <2>3, <2>4, <2>5, <2>6 DEF Weights
    <2>8. \A k \in DOMAIN b : b[k].who = k /\ ws[k] > 0 /\ d <= PerCycle
      BY <2>1 DEF Bucket
    <2>. QED  BY <2>7, <2>8 DEF b
  <1>. QED  BY <1>2, <1>3


-----------------------------------------------------------------------------
(* What a process pays *)

\* The last of the heaviest pays less than one for each position too much,
\* everyone else less than one too little.
LEMMA SharesAreFair ==
    ASSUME NEW w, Weights(w), NEW d \in Nat, NEW k \in DOMAIN w
    PROVE  LET T == Sum(w)
               paid == AttributeByWeight(d, w)[k]
           IN  /\ paid * T >= d * w[k] - T + 1
               /\ \/ paid * T <= d * w[k]
                  \/ /\ \A i \in DOMAIN w : w[i] <= w[k]
                     /\ paid * T < d * w[k] + Cardinality(DOMAIN w) * T
  <1>. DEFINE T == Sum(w)
              D == DOMAIN w
              c == Cardinality(D)
              fl == Floors(d, w)[k]
              r == Remainder(d, w)
              h == Heaviest(w)
              paid == AttributeByWeight(d, w)[k]
  <1>1. T \in Nat \ {0} /\ w[k] \in Nat
    BY WeightFacts
  <1>2. /\ fl \in Nat
        /\ T * fl <= d * w[k]
        /\ d * w[k] <= T * fl + (T - 1)
    BY FloorFacts
  <1>3. r \in Nat /\ T * r <= (T - 1) * c
    BY FloorsFit
  <1>4. c \in Nat \ {0}
    <2>1. IsFiniteSet(D) /\ D # {}
      BY DEF Weights
    <2>. HIDE DEF D
    <2>. QED  BY <2>1, FS_CardinalityType, FS_EmptySet
  <1>5. h \in D /\ \A i \in D : w[i] <= w[h]
    BY HeaviestExists
  <1>6. paid = IF k = h THEN fl + r ELSE fl
    BY SharesFacts
  <1>. HIDE DEF T, D, c, fl, r, h, paid
  <1>7. PICK x \in Nat : x = d * w[k]
    BY <1>1
  <1>8. PICK m \in Nat : m = T * fl /\ m = fl * T
    BY <1>1, <1>2
  <1>9. CASE k # h
    <2>1. paid * T = m
      BY <1>6, <1>8, <1>9
    <2>2. m <= x /\ x <= m + (T - 1)
      BY <1>2, <1>7, <1>8
    <2>3. m >= x - T + 1 /\ m <= x
      BY <1>1, <2>2
    <2>. QED  BY <1>7, <2>1, <2>3 DEF T, paid
  <1>10. CASE k = h
    <2>1. PICK q \in Nat : q = T * r
      BY <1>1, <1>3
    <2>2. PICK p \in Nat : p = T * c /\ p = c * T
      BY <1>1, <1>4
    <2>3. q < p
      <3>1. (T - 1) * c = p - c
        BY <1>1, <1>4, <2>2
      <3>. QED  BY <1>3, <1>4, <2>1, <3>1
    <2>4. paid * T = m + q
      <3>1. T * (fl + r) = T * fl + T * r
        BY <1>1, <1>2, <1>3, Distributes
      <3>2. paid * T = T * paid
        BY <1>1, <1>2, <1>3, <1>6, <1>10
      <3>. QED  BY <1>6, <1>8, <1>10, <2>1, <3>1, <3>2
    <2>5. m <= x /\ x <= m + (T - 1)
      BY <1>2, <1>7, <1>8
    <2>6. m + q >= x - T + 1 /\ m + q < x + p
      BY <1>1, <2>3, <2>5
    <2>7. \A i \in D : w[i] <= w[k]
      BY <1>5, <1>10
    <2>. QED  BY <1>7, <2>2, <2>4, <2>6, <2>7 DEF T, paid, D, c
  <1>. QED  BY <1>9, <1>10

\* The larger weight never has the smaller share.
LEMMA SharesGrow ==
    ASSUME NEW w, Weights(w), NEW d \in Nat,
           NEW i \in DOMAIN w, NEW k \in DOMAIN w, w[i] < w[k]
    PROVE  AttributeByWeight(d, w)[i] <= AttributeByWeight(d, w)[k]
  <1>. DEFINE T == Sum(w)
              h == Heaviest(w)
              fi == Floors(d, w)[i]
              fk == Floors(d, w)[k]
              r == Remainder(d, w)
  <1>1. T \in Nat \ {0} /\ w[i] \in Nat /\ w[k] \in Nat
    BY WeightFacts
  <1>2. /\ fi \in Nat /\ T * fi <= d * w[i]
        /\ fk \in Nat /\ d * w[k] <= T * fk + (T - 1)
    BY FloorFacts
  <1>3. i # h
    <2>1. w[k] <= w[h]
      BY HeaviestExists
    <2>. QED  BY <1>1, <2>1
  <1>4. r \in Nat
    BY FloorsFit
  <1>5. /\ AttributeByWeight(d, w)[i] = fi
        /\ AttributeByWeight(d, w)[k] = IF k = h THEN fk + r ELSE fk
    BY <1>3, SharesFacts
  <1>. HIDE DEF T, h, fi, fk, r
  <1>6. fi <= fk
    <2>1. PICK e \in Nat : w[k] = w[i] + e
      <3>1. w[k] - w[i] \in Nat /\ w[k] = w[i] + (w[k] - w[i])
        BY <1>1
      <3>. QED  BY <3>1
    <2>2. PICK x \in Nat, y \in Nat, z \in Nat :
             x = d * w[i] /\ y = d * w[k] /\ z = d * e
      <3>1. d * w[i] \in Nat /\ d * w[k] \in Nat /\ d * e \in Nat
        BY <1>1, <2>1
      <3>. QED  BY <3>1
    <2>3. y = x + z
      BY <1>1, <2>1, <2>2, Distributes
    <2>4. x <= y /\ T * fi <= x /\ y <= T * fk + (T - 1)
      BY <1>2, <2>2, <2>3
    <2>. QED  BY <1>1, <1>2, <2>4, DivisionGrows
  <1>. QED  BY <1>2, <1>4, <1>5, <1>6

\* The active processes of a VM are charged with their shares.
LEMMA VmPays ==
    ASSUME NEW ws \in Seq(Nat), NEW d \in Nat, ~Resting(ws)
    PROVE  /\ Weights(ws)
           /\ \A k \in DOMAIN ws :
                EnergyOf(Records(d, CpuBuckets(ws)), k) = AttributeByWeight(d, ws)[k]
  <1>. DEFINE b == CpuBuckets(ws)
              rec == Records(d, b)
              e == Energies(rec)
              P == Served(d, b)
              sh == SharesOf(d, b)
  <1>1. Weights(WeightsOf(b)) /\ b = [k \in DOMAIN ws |-> Bucket(k, ws[k])]
    BY CpuWeights
  <1>2. WeightsOf(b) = ws
    <2>1. WeightsOf(b) = [k \in DOMAIN ws |-> ws[k]]
      BY <1>1 DEF WeightsOf, Bucket
    <2>2. ws \in [1..Len(ws) -> Nat]
      BY LenProperties
    <2>. QED  BY <2>1, <2>2
  <1>3. /\ rec = [k \in P |-> Charge(b[k].who, sh[k])]
        /\ e = [k \in P |-> sh[k]]
        /\ \A k \in DOMAIN b : sh[k] \in Nat
    BY <1>1, RecordsFacts
  <1>4. DOMAIN b = DOMAIN ws /\ P = {k \in DOMAIN b : sh[k] > 0}
    BY <1>1 DEF Served
  <1>5. sh = AttributeByWeight(d, ws)
    BY <1>2 DEF SharesOf
  <1>6. ASSUME NEW k \in DOMAIN ws
        PROVE  EnergyOf(rec, k) = sh[k]
    <2>. DEFINE K == {j \in DOMAIN rec : rec[j].who = k}
    <2>1. \A j \in P : rec[j].who = j
      <3>. HIDE DEF rec, P, sh, b
      <3>. SUFFICES ASSUME NEW j \in P PROVE rec[j].who = j
        OBVIOUS
      <3>1. j \in DOMAIN ws
        BY <1>1, <1>4
      <3>2. b[j].who = j
        BY <1>1, <3>1 DEF Bucket
      <3>3. rec[j].who = b[j].who
        BY <1>3 DEF Charge
      <3>. QED  BY <3>2, <3>3
    <2>2. DOMAIN rec = P
      BY <1>3
    <2>3. EnergyOf(rec, k) = Total(e, K)
      BY DEF EnergyOf, Total
    <2>. HIDE DEF rec, e, P, sh, b
    <2>4. CASE k \in P
      <3>1. K = {k}
        BY <2>1, <2>2, <2>4
      <3>2. e[k] = sh[k] /\ sh[k] \in Int
        BY <1>3, <1>4, <2>4
      <3>. HIDE DEF K
      <3>. QED  BY <2>3, <3>1, <3>2, SumOfOne
    <2>5. CASE k \notin P
      <3>1. K = {}
        BY <2>1, <2>2, <2>5
      <3>2. sh[k] = 0
        <4>1. sh[k] \in Nat /\ ~(sh[k] > 0)
          BY <1>3, <1>4, <2>5
        <4>. QED  BY <4>1
      <3>. HIDE DEF K
      <3>. QED  BY <2>3, <3>1, <3>2, SumOfNone
    <2>. QED  BY <2>4, <2>5
  <1>. QED  BY <1>1, <1>2, <1>5, <1>6 DEF rec, b

\* A process that is charged for a card used it, and no more energy than a
\* cycle's worth was split.
LEMMA CardPays ==
    ASSUME NEW ws \in Seq(Nat), NEW d \in Nat, NEW k \in DOMAIN ws,
           EnergyOf(Records(d, GpuBuckets(d, ws)), k) > 0
    PROVE  ws[k] > 0 /\ d <= PerCycle
  <1>. DEFINE b == GpuBuckets(d, ws)
              rec == Records(d, b)
              K == {j \in DOMAIN rec : rec[j].who = k}
  <1>1. EnergyOf(rec, k) = Total(Energies(rec), K)
    BY DEF EnergyOf, Total
  <1>2. K # {}
    <2>. HIDE DEF K, rec
    <2>1. SUFFICES ASSUME K = {} PROVE FALSE
      OBVIOUS
    <2>2. EnergyOf(rec, k) = 0
      BY <1>1, <2>1, SumOfNone
    <2>. QED  BY <2>2 DEF rec
  <1>3. PICK j \in DOMAIN rec : rec[j].who = k
    BY <1>2
  <1>4. j \in DOMAIN b /\ b[j].who = k
    <2>1. rec = [i \in Served(d, b) |-> Charge(b[i].who, SharesOf(d, b)[i])]
      BY GpuWeights, RecordsFacts
    <2>2. j \in Served(d, b) /\ rec[j] = Charge(b[j].who, SharesOf(d, b)[j])
      BY <1>3, <2>1
    <2>. QED  BY <1>3, <2>2 DEF Served, Charge
  <1>. QED  BY <1>4, GpuWeights

-----------------------------------------------------------------------------
(* The records of every request *)

\* The records are those of the request that is being answered.
Made ==
    /\ delta \in Nat
    /\ procs \in Seq(Nat)
    /\ \/ Idle
       \/ /\ cpu = Records(delta, CpuBuckets(procs))
          /\ gpu = IF delta = 0 THEN << >> ELSE Records(delta, GpuBuckets(delta, procs))

LEMMA InputsAreSequences == Inputs \subseteq Seq(Nat)
  <1>. SUFFICES ASSUME NEW ws \in Inputs PROVE ws \in Seq(Nat)
    OBVIOUS
  <1>1. PICK m \in 0..MaxProcs : ws \in [1..m -> 0..MaxWeight]
    BY DEF Inputs, BoundedSeq, SeqOf
  <1>2. m \in Nat /\ ws \in [1..m -> Nat]
    BY <1>1, AttributionAssumption
  <1>. QED  BY <1>2, PositionsMakeASeq

LEMMA AlwaysMade == Spec => []Made
  <1>1. Init => Made
    <2>1. << >> \in Seq(Nat)
      BY EmptySeq
    <2>. QED  BY <2>1 DEF Init, Idle, Made
  <1>2. Made /\ [Next]_vars => Made'
    <2>. SUFFICES ASSUME Made, [Next]_vars PROVE Made'
      OBVIOUS
    <2>1. CASE Request
      <3>1. PICK d \in 0..MaxDelta, ws \in Inputs :
              /\ delta' = d
              /\ procs' = ws
              /\ cpu' = Records(d, CpuBuckets(ws))
              /\ gpu' = IF d = 0 THEN << >> ELSE Records(d, GpuBuckets(d, ws))
        BY <2>1 DEF Request
      <3>2. d \in Nat
        BY AttributionAssumption
      <3>3. ws \in Seq(Nat)
        BY InputsAreSequences
      <3>. QED  BY <3>1, <3>2, <3>3 DEF Made
    <2>2. CASE Respond
      <3>1. << >> \in Seq(Nat)
        BY EmptySeq
      <3>. QED  BY <2>2, <3>1 DEF Respond, Made, Idle
    <2>3. CASE UNCHANGED vars
      BY <2>3 DEF vars, Made, Idle
    <2>. QED  BY <2>1, <2>2, <2>3 DEF Next
  <1>. QED  BY <1>1, <1>2, PTL DEF Spec

LEMMA NothingRecorded ==
    /\ Sum(Energies(<< >>)) = 0
    /\ \A k : EnergyOf(<< >>, k) = 0
  <1>. DEFINE none == << >>
  <1>1. DOMAIN none = {} /\ DOMAIN Energies(none) = {}
    BY DEF Energies
  <1>2. Sum(Energies(none)) = Total(Energies(none), {})
    BY <1>1 DEF Sum, SumFunction, Total
  <1>3. ASSUME NEW k PROVE EnergyOf(none, k) = Total(Energies(none), {})
    <2>1. {j \in DOMAIN none : none[j].who = k} = {}
      BY <1>1
    <2>. QED  BY <2>1 DEF EnergyOf, Total
  <1>4. Total(Energies(none), {}) = 0
    BY SumOfNone
  <1>. QED  BY <1>2, <1>3, <1>4

\* All the energy of a cycle is recorded and none twice: what
\* attribute_by_weight rounds away goes to the heaviest, and the VM or the card
\* whose energy no process can be charged with has a bucket of its own.
THEOREM NothingIsLost == Spec => []RecordsAddUp
  <1>1. Made => RecordsAddUp
    <2>. SUFFICES ASSUME Made PROVE RecordsAddUp
      OBVIOUS
    <2>0. delta \in Nat /\ procs \in Seq(Nat)
      BY DEF Made
    <2>1. CASE Idle
      BY <2>1, NothingRecorded DEF Idle, RecordsAddUp
    <2>2. CASE ~Idle
      <3>1. /\ cpu = Records(delta, CpuBuckets(procs))
            /\ gpu = IF delta = 0 THEN << >> ELSE Records(delta, GpuBuckets(delta, procs))
        BY <2>2 DEF Made
      <3>2. Sum(Energies(cpu)) = delta
        BY <2>0, <3>1, CpuWeights, RecordsFacts
      <3>3. Sum(Energies(gpu)) = delta
        <4>1. CASE delta = 0
          BY <3>1, <4>1, NothingRecorded
        <4>2. CASE delta # 0
          BY <2>0, <3>1, <4>2, GpuWeights, RecordsFacts
        <4>. QED  BY <4>1, <4>2
      <3>. QED  BY <3>2, <3>3 DEF RecordsAddUp
    <2>. QED  BY <2>1, <2>2
  <1>. QED  BY <1>1, AlwaysMade, PTL

\* Every process of a VM is charged its proportional share up to rounding, in
\* the order of activity, and nobody is charged for a card it did not use or
\* for energy that is no cycle's.
THEOREM ActivityPays == Spec => []ChargedByActivity
  <1>1. Made => ChargedByActivity
    <2>. SUFFICES ASSUME Made PROVE ChargedByActivity
      OBVIOUS
    <2>. DEFINE paid == [k \in DOMAIN procs |-> EnergyOf(cpu, k)]
    <2>0. delta \in Nat /\ procs \in Seq(Nat)
      BY DEF Made
    <2>1. CASE Idle
      <3>1. DOMAIN procs = {}
        BY <2>1 DEF Idle
      <3>. QED  BY <3>1 DEF ChargedByActivity
    <2>2. CASE ~Idle
      <3>1. /\ cpu = Records(delta, CpuBuckets(procs))
            /\ gpu = IF delta = 0 THEN << >> ELSE Records(delta, GpuBuckets(delta, procs))
        BY <2>2 DEF Made
      <3>2. ASSUME NEW k \in DOMAIN procs, EnergyOf(gpu, k) > 0
            PROVE  procs[k] > 0 /\ delta <= PerCycle
        <4>1. delta # 0
          <5>. SUFFICES ASSUME delta = 0 PROVE FALSE
            OBVIOUS
          <5>1. EnergyOf(gpu, k) = 0
            BY <3>1, NothingRecorded
          <5>. QED  BY <3>2, <5>1
        <4>2. gpu = Records(delta, GpuBuckets(delta, procs))
          BY <3>1, <4>1
        <4>. QED  BY <2>0, <3>2, <4>2, CardPays
      <3>3. CASE Resting(procs)
        <4>1. \A k \in DOMAIN procs : procs[k] = 0
          BY <3>3 DEF Resting
        <4>2. Ticks = 0
          <5>1. Ticks = Total(procs, DOMAIN procs)
            BY DEF Ticks, Sum, SumFunction, Total
          <5>2. IsFiniteSet(DOMAIN procs)
            BY <2>0, ProcsFacts
          <5>. QED  BY <4>1, <5>1, <5>2, SumOfZeros
        <4>3. ~(Ticks > 0) /\ \A i, k \in DOMAIN procs : ~(procs[i] < procs[k])
          BY <4>1, <4>2
        <4>. QED  BY <3>2, <4>3 DEF ChargedByActivity
      <3>4. CASE ~Resting(procs)
        <4>1. /\ Weights(procs)
              /\ \A k \in DOMAIN procs : paid[k] = AttributeByWeight(delta, procs)[k]
          BY <2>0, <3>1, <3>4, VmPays
        <4>2. Cardinality(DOMAIN procs) = Len(procs)
          BY <2>0, ProcsFacts
        <4>3. ASSUME NEW k \in DOMAIN procs
              PROVE  /\ paid[k] * Ticks >= delta * procs[k] - Ticks + 1
                     /\ \/ paid[k] * Ticks <= delta * procs[k]
                        \/ /\ \A i \in DOMAIN procs : procs[i] <= procs[k]
                           /\ paid[k] * Ticks < delta * procs[k] + Len(procs) * Ticks
          <5>. HIDE DEF paid
          <5>. QED  BY <2>0, <4>1, <4>2, SharesAreFair DEF Ticks
        <4>4. \A i, k \in DOMAIN procs : procs[i] < procs[k] => paid[i] <= paid[k]
          <5>. HIDE DEF paid
          <5>. QED  BY <2>0, <4>1, SharesGrow
        <4>. QED  BY <3>2, <4>3, <4>4 DEF ChargedByActivity
      <3>. QED  BY <3>3, <3>4
    <2>. QED  BY <2>1, <2>2
  <1>. QED  BY <1>1, AlwaysMade, PTL

-----------------------------------------------------------------------------
(* Numbers and sequences *)

LEMMA LeastNatural ==
    ASSUME NEW S \in SUBSET Nat, S # {}
    PROVE  \E m \in S : \A k \in S : m <= k
  <1>. DEFINE Less == {p \in Nat \X Nat : p[1] < p[2]}
  <1>1. Less = OpToRel(<, Nat)
    BY DEF OpToRel
  <1>2. \E m \in S : \A k \in S : ~ (<<k, m>> \in Less)
    <2>. HIDE DEF Less
    <2>. QED  BY <1>1, NatLessThanWellFounded, WFMin
  <1>3. PICK m \in S : \A k \in S : ~ (<<k, m>> \in Less)
    BY <1>2
  <1>4. ASSUME NEW k \in S PROVE m <= k
    <2>1. m \in Nat /\ k \in Nat /\ (k < m => <<k, m>> \in Less)
      OBVIOUS
    <2>. QED  BY <1>3, <2>1
  <1>. QED  BY <1>4

\* Induction over the numbers up to n, of those in G.
LEMMA UpTo ==
    ASSUME NEW n \in Nat, NEW G, 0 \in G,
           \A k \in 0..(n - 1) : k \in G => k + 1 \in G
    PROVE  \A k \in 0..n : k \in G
  <1>. DEFINE Bad == {k \in 0..n : k \notin G}
  <1>. SUFFICES ASSUME Bad # {} PROVE FALSE
    OBVIOUS
  <1>1. Bad \in SUBSET Nat
    OBVIOUS
  <1>2. PICK m \in Bad : \A k \in Bad : m <= k
    <2>. HIDE DEF Bad
    <2>. QED  BY <1>1, LeastNatural
  <1>3. m \in 1..n /\ m - 1 \in 0..(n - 1)
    OBVIOUS
  <1>4. m - 1 \in G
    BY <1>2, <1>3
  <1>5. (m - 1) + 1 \in G
    BY <1>3, <1>4
  <1>. QED  BY <1>3, <1>5

\* A list is what [k \in 1..n |-> ...] defines.
List(s, n) == n \in Nat /\ s = [k \in 1..n |-> s[k]]

LEMMA ListFacts ==
    ASSUME NEW s, NEW n, List(s, n)
    PROVE  /\ Len(s) = n /\ DOMAIN s = 1..n
           /\ \A S : (\A k \in 1..n : s[k] \in S) => s \in Seq(S)
  <1>1. s \in [1..n -> {s[k] : k \in 1..n}] /\ n \in Nat
    BY DEF List
  <1>2. Len(s) = n /\ DOMAIN s = 1..n
    BY <1>1, PositionsMakeASeq
  <1>3. ASSUME NEW S, \A k \in 1..n : s[k] \in S PROVE s \in Seq(S)
    <2>1. s \in [1..n -> S]
      BY <1>1, <1>3
    <2>. QED  BY <1>1, <2>1, PositionsMakeASeq
  <1>. QED  BY <1>2, <1>3

LEMMA SeqIsList ==
    ASSUME NEW S, NEW s \in Seq(S)
    PROVE  /\ List(s, Len(s)) /\ Len(s) \in Nat
           /\ \A k \in 1..Len(s) : s[k] \in S
  <1>1. Len(s) \in Nat /\ s \in [1..Len(s) -> S]
    BY LenProperties
  <1>. QED  BY <1>1 DEF List

\* Lists of one length that agree everywhere are equal.
LEMMA ListsEqual ==
    ASSUME NEW s, NEW t, NEW n, List(s, n), List(t, n), \A k \in 1..n : s[k] = t[k]
    PROVE  s = t
  <1>1. s = [k \in 1..n |-> s[k]] /\ t = [k \in 1..n |-> t[k]]
    BY DEF List
  <1>2. [k \in 1..n |-> s[k]] = [k \in 1..n |-> t[k]]
    OBVIOUS
  <1>. QED  BY <1>1, <1>2

\* Where the first parts are equally long, a concatenation has only one pair
\* of parts.
LEMMA ConcatSplits ==
    ASSUME NEW S, NEW a \in Seq(S), NEW b \in Seq(S), NEW x \in Seq(S), NEW y \in Seq(S),
           Len(a) = Len(b), a \o x = b \o y
    PROVE  a = b /\ x = y
  <1>1. /\ Len(a) \in Nat /\ Len(x) \in Nat /\ Len(y) \in Nat
        /\ Len(a \o x) = Len(a) + Len(x) /\ Len(b \o y) = Len(b) + Len(y)
    BY ConcatProperties, LenProperties
  <1>2. Len(x) = Len(y)
    BY <1>1
  <1>3. List(a, Len(a)) /\ List(b, Len(a)) /\ List(x, Len(x)) /\ List(y, Len(x))
    BY <1>2, SeqIsList
  <1>4. ASSUME NEW k \in 1..Len(a) PROVE a[k] = b[k]
    <2>1. k \in 1..(Len(a) + Len(x)) /\ k <= Len(a)
      BY <1>1
    <2>2. (a \o x)[k] = a[k] /\ (b \o y)[k] = b[k]
      BY <1>1, <1>2, <2>1, ConcatProperties
    <2>. QED  BY <2>2
  <1>5. ASSUME NEW k \in 1..Len(x) PROVE x[k] = y[k]
    <2>. DEFINE i == Len(a) + k
    <2>1. i \in 1..(Len(a) + Len(x)) /\ ~(i <= Len(a)) /\ i - Len(a) = k
      BY <1>1
    <2>. HIDE DEF i
    <2>2. (a \o x)[i] = x[i - Len(a)] /\ (b \o y)[i] = y[i - Len(b)]
      BY <1>1, <1>2, <2>1, ConcatProperties
    <2>. QED  BY <2>1, <2>2
  <1>. QED  BY <1>3, <1>4, <1>5, ListsEqual

-----------------------------------------------------------------------------
(* The recursive functions of the model: each exists, so that its values   *)
(* are those its recursion says.                                           *)

LEMMA ShiftsValues ==
    ASSUME NEW width \in Nat, NEW v
    PROVE  Shifts(width, v) =
             [k \in 0..width |->
                IF k = 0 THEN v
                ELSE Shifts(width, v)[k - 1] \div 256]
  <1>. DEFINE n == width
              Value(last, k) ==
                IF k = 0 THEN v
                ELSE last \div 256
              Up(f, m) == \A k \in 0..m : f[k] = Value(f[k - 1], k)
              G == {m \in 0..n : \E f : Up(f, m)}
  <1>. HIDE DEF n
  <1>0. n \in Nat
    BY DEF n
  <1>1. \A x, y : Value(x, 0) = Value(y, 0)
    OBVIOUS
  <1>2. (\E f : f = [k \in 0..n |-> Value(f[k - 1], k)])
          => Shifts(width, v) = [k \in 0..n |-> Value(Shifts(width, v)[k - 1], k)]
    BY DEF n, Shifts
  <1>3. Shifts(width, v) = [k \in 0..n |-> Value(Shifts(width, v)[k - 1], k)]
    <2>. HIDE DEF Value
    <2>1. 0 \in G
      <3>1. Up([k \in 0..0 |-> Value(0, 0)], 0)
        BY <1>0, <1>1
      <3>2. 0 \in 0..n
        BY <1>0
      <3>. HIDE DEF Up
      <3>. QED  BY <3>1, <3>2
    <2>2. ASSUME NEW m \in 0..(n - 1), m \in G PROVE m + 1 \in G
      <3>1. PICK f : Up(f, m)
        BY <2>2
      <3>. DEFINE g == [k \in 0..(m + 1) |-> Value(f[k - 1], k)]
      <3>2. m \in Nat /\ m + 1 \in 0..n
        BY <1>0
      <3>3. ASSUME NEW k \in 0..m PROVE g[k] = f[k]
        BY <3>1, <3>2
      <3>4. ASSUME NEW k \in 0..(m + 1) PROVE g[k] = Value(g[k - 1], k)
        <4>1. CASE k = 0
          BY <1>0, <1>1, <3>2, <4>1
        <4>2. CASE k # 0
          <5>1. k - 1 \in 0..m
            BY <3>2, <4>2
          <5>. QED  BY <3>3, <5>1
        <4>. QED  BY <4>1, <4>2
      <3>5. Up(g, m + 1)
        BY <3>4
      <3>. HIDE DEF g, Up
      <3>. QED  BY <3>2, <3>5
    <2>3. PICK f : Up(f, n)
      <3>1. n \in G
        <4>. HIDE DEF G
        <4>1. \A k \in 0..(n - 1) : k \in G => k + 1 \in G
          BY <2>2
        <4>2. \A k \in 0..n : k \in G
          BY <1>0, <2>1, <4>1, UpTo
        <4>. QED  BY <1>0, <4>2
      <3>. QED  BY <3>1
    <2>. DEFINE g == [k \in 0..n |-> f[k]]
    <2>4. ASSUME NEW k \in 0..n PROVE f[k] = Value(g[k - 1], k)
      <3>1. CASE k = 0
        BY <1>0, <1>1, <2>3, <3>1
      <3>2. CASE k # 0
        <4>1. k - 1 \in 0..n
          BY <1>0, <3>2
        <4>. QED  BY <2>3, <4>1
      <3>. QED  BY <3>1, <3>2
    <2>5. g = [k \in 0..n |-> Value(g[k - 1], k)]
      BY <2>4
    <2>. HIDE DEF g
    <2>. QED  BY <1>2, <2>5
  <1>. QED  BY <1>3 DEF n

LEMMA LevelsValues ==
    ASSUME NEW leaves, Len(leaves) \in Nat
    PROVE  Levels(leaves) =
             [h \in 0..Len(leaves) |->
                IF h = 0 THEN leaves
                ELSE FoldLevel(Levels(leaves)[h - 1])]
  <1>. DEFINE n == Len(leaves)
              Value(last, h) ==
                IF h = 0 THEN leaves
                ELSE FoldLevel(last)
              Up(f, m) == \A h \in 0..m : f[h] = Value(f[h - 1], h)
              G == {m \in 0..n : \E f : Up(f, m)}
  <1>. HIDE DEF n
  <1>0. n \in Nat
    BY DEF n
  <1>1. \A x, y : Value(x, 0) = Value(y, 0)
    OBVIOUS
  <1>2. (\E f : f = [h \in 0..n |-> Value(f[h - 1], h)])
          => Levels(leaves) = [h \in 0..n |-> Value(Levels(leaves)[h - 1], h)]
    BY DEF n, Levels
  <1>3. Levels(leaves) = [h \in 0..n |-> Value(Levels(leaves)[h - 1], h)]
    <2>. HIDE DEF Value
    <2>1. 0 \in G
      <3>1. Up([h \in 0..0 |-> Value(0, 0)], 0)
        BY <1>0, <1>1
      <3>2. 0 \in 0..n
        BY <1>0
      <3>. HIDE DEF Up
      <3>. QED  BY <3>1, <3>2
    <2>2. ASSUME NEW m \in 0..(n - 1), m \in G PROVE m + 1 \in G
      <3>1. PICK f : Up(f, m)
        BY <2>2
      <3>. DEFINE g == [h \in 0..(m + 1) |-> Value(f[h - 1], h)]
      <3>2. m \in Nat /\ m + 1 \in 0..n
        BY <1>0
      <3>3. ASSUME NEW h \in 0..m PROVE g[h] = f[h]
        BY <3>1, <3>2
      <3>4. ASSUME NEW h \in 0..(m + 1) PROVE g[h] = Value(g[h - 1], h)
        <4>1. CASE h = 0
          BY <1>0, <1>1, <3>2, <4>1
        <4>2. CASE h # 0
          <5>1. h - 1 \in 0..m
            BY <3>2, <4>2
          <5>. QED  BY <3>3, <5>1
        <4>. QED  BY <4>1, <4>2
      <3>5. Up(g, m + 1)
        BY <3>4
      <3>. HIDE DEF g, Up
      <3>. QED  BY <3>2, <3>5
    <2>3. PICK f : Up(f, n)
      <3>1. n \in G
        <4>. HIDE DEF G
        <4>1. \A k \in 0..(n - 1) : k \in G => k + 1 \in G
          BY <2>2
        <4>2. \A k \in 0..n : k \in G
          BY <1>0, <2>1, <4>1, UpTo
        <4>. QED  BY <1>0, <4>2
      <3>. QED  BY <3>1
    <2>. DEFINE g == [h \in 0..n |-> f[h]]
    <2>4. ASSUME NEW h \in 0..n PROVE f[h] = Value(g[h - 1], h)
      <3>1. CASE h = 0
        BY <1>0, <1>1, <2>3, <3>1
      <3>2. CASE h # 0
        <4>1. h - 1 \in 0..n
          BY <1>0, <3>2
        <4>. QED  BY <2>3, <4>1
      <3>. QED  BY <3>1, <3>2
    <2>5. g = [h \in 0..n |-> Value(g[h - 1], h)]
      BY <2>4
    <2>. HIDE DEF g
    <2>. QED  BY <1>2, <2>5
  <1>. QED  BY <1>3 DEF n

LEMMA IndicesValues ==
    ASSUME NEW leaves, Len(leaves) \in Nat, NEW index
    PROVE  Indices(leaves, index) =
             [h \in 0..Len(leaves) |->
                IF h = 0 THEN index
                ELSE Indices(leaves, index)[h - 1] \div 2]
  <1>. DEFINE n == Len(leaves)
              Value(last, h) ==
                IF h = 0 THEN index
                ELSE last \div 2
              Up(f, m) == \A h \in 0..m : f[h] = Value(f[h - 1], h)
              G == {m \in 0..n : \E f : Up(f, m)}
  <1>. HIDE DEF n
  <1>0. n \in Nat
    BY DEF n
  <1>1. \A x, y : Value(x, 0) = Value(y, 0)
    OBVIOUS
  <1>2. (\E f : f = [h \in 0..n |-> Value(f[h - 1], h)])
          => Indices(leaves, index) = [h \in 0..n |-> Value(Indices(leaves, index)[h - 1], h)]
    BY DEF n, Indices
  <1>3. Indices(leaves, index) = [h \in 0..n |-> Value(Indices(leaves, index)[h - 1], h)]
    <2>. HIDE DEF Value
    <2>1. 0 \in G
      <3>1. Up([h \in 0..0 |-> Value(0, 0)], 0)
        BY <1>0, <1>1
      <3>2. 0 \in 0..n
        BY <1>0
      <3>. HIDE DEF Up
      <3>. QED  BY <3>1, <3>2
    <2>2. ASSUME NEW m \in 0..(n - 1), m \in G PROVE m + 1 \in G
      <3>1. PICK f : Up(f, m)
        BY <2>2
      <3>. DEFINE g == [h \in 0..(m + 1) |-> Value(f[h - 1], h)]
      <3>2. m \in Nat /\ m + 1 \in 0..n
        BY <1>0
      <3>3. ASSUME NEW h \in 0..m PROVE g[h] = f[h]
        BY <3>1, <3>2
      <3>4. ASSUME NEW h \in 0..(m + 1) PROVE g[h] = Value(g[h - 1], h)
        <4>1. CASE h = 0
          BY <1>0, <1>1, <3>2, <4>1
        <4>2. CASE h # 0
          <5>1. h - 1 \in 0..m
            BY <3>2, <4>2
          <5>. QED  BY <3>3, <5>1
        <4>. QED  BY <4>1, <4>2
      <3>5. Up(g, m + 1)
        BY <3>4
      <3>. HIDE DEF g, Up
      <3>. QED  BY <3>2, <3>5
    <2>3. PICK f : Up(f, n)
      <3>1. n \in G
        <4>. HIDE DEF G
        <4>1. \A k \in 0..(n - 1) : k \in G => k + 1 \in G
          BY <2>2
        <4>2. \A k \in 0..n : k \in G
          BY <1>0, <2>1, <4>1, UpTo
        <4>. QED  BY <1>0, <4>2
      <3>. QED  BY <3>1
    <2>. DEFINE g == [h \in 0..n |-> f[h]]
    <2>4. ASSUME NEW h \in 0..n PROVE f[h] = Value(g[h - 1], h)
      <3>1. CASE h = 0
        BY <1>0, <1>1, <2>3, <3>1
      <3>2. CASE h # 0
        <4>1. h - 1 \in 0..n
          BY <1>0, <3>2
        <4>. QED  BY <2>3, <4>1
      <3>. QED  BY <3>1, <3>2
    <2>5. g = [h \in 0..n |-> Value(g[h - 1], h)]
      BY <2>4
    <2>. HIDE DEF g
    <2>. QED  BY <1>2, <2>5
  <1>. QED  BY <1>3 DEF n

SiblingPath(leaves, index) ==
    Siblings(leaves, index) =
        [h \in 0..Len(leaves) |->
                IF h = 0 THEN << >>
                ELSE Siblings(leaves, index)[h - 1]
                \o SiblingOf(Levels(leaves)[h - 1], Indices(leaves, index)[h - 1])]

LEMMA SiblingsValues ==
    ASSUME NEW leaves, Len(leaves) \in Nat, NEW index
    PROVE  SiblingPath(leaves, index)
  <1>. DEFINE n == Len(leaves)
              Value(last, h) ==
                IF h = 0 THEN << >>
                ELSE last \o SiblingOf(Levels(leaves)[h - 1],
                                   Indices(leaves, index)[h - 1])
              Up(f, m) == \A h \in 0..m : f[h] = Value(f[h - 1], h)
              G == {m \in 0..n : \E f : Up(f, m)}
  <1>. HIDE DEF n
  <1>0. n \in Nat
    BY DEF n
  <1>1. \A x, y : Value(x, 0) = Value(y, 0)
    OBVIOUS
  <1>2. (\E f : f = [h \in 0..n |-> Value(f[h - 1], h)])
          => Siblings(leaves, index) = [h \in 0..n |-> Value(Siblings(leaves, index)[h - 1], h)]
    BY DEF n, Siblings
  <1>3. Siblings(leaves, index) = [h \in 0..n |-> Value(Siblings(leaves, index)[h - 1], h)]
    <2>. HIDE DEF Value
    <2>1. 0 \in G
      <3>1. Up([h \in 0..0 |-> Value(0, 0)], 0)
        BY <1>0, <1>1
      <3>2. 0 \in 0..n
        BY <1>0
      <3>. HIDE DEF Up
      <3>. QED  BY <3>1, <3>2
    <2>2. ASSUME NEW m \in 0..(n - 1), m \in G PROVE m + 1 \in G
      <3>1. PICK f : Up(f, m)
        BY <2>2
      <3>. DEFINE g == [h \in 0..(m + 1) |-> Value(f[h - 1], h)]
      <3>2. m \in Nat /\ m + 1 \in 0..n
        BY <1>0
      <3>3. ASSUME NEW h \in 0..m PROVE g[h] = f[h]
        BY <3>1, <3>2
      <3>4. ASSUME NEW h \in 0..(m + 1) PROVE g[h] = Value(g[h - 1], h)
        <4>1. CASE h = 0
          BY <1>0, <1>1, <3>2, <4>1
        <4>2. CASE h # 0
          <5>1. h - 1 \in 0..m
            BY <3>2, <4>2
          <5>. QED  BY <3>3, <5>1
        <4>. QED  BY <4>1, <4>2
      <3>5. Up(g, m + 1)
        BY <3>4
      <3>. HIDE DEF g, Up
      <3>. QED  BY <3>2, <3>5
    <2>3. PICK f : Up(f, n)
      <3>1. n \in G
        <4>. HIDE DEF G
        <4>1. \A k \in 0..(n - 1) : k \in G => k + 1 \in G
          BY <2>2
        <4>2. \A k \in 0..n : k \in G
          BY <1>0, <2>1, <4>1, UpTo
        <4>. QED  BY <1>0, <4>2
      <3>. QED  BY <3>1
    <2>. DEFINE g == [h \in 0..n |-> f[h]]
    <2>4. ASSUME NEW h \in 0..n PROVE f[h] = Value(g[h - 1], h)
      <3>1. CASE h = 0
        BY <1>0, <1>1, <2>3, <3>1
      <3>2. CASE h # 0
        <4>1. h - 1 \in 0..n
          BY <1>0, <3>2
        <4>. QED  BY <2>3, <4>1
      <3>. QED  BY <3>1, <3>2
    <2>5. g = [h \in 0..n |-> Value(g[h - 1], h)]
      BY <2>4
    <2>. HIDE DEF g
    <2>. QED  BY <1>2, <2>5
  <1>. QED  BY <1>3 DEF n, SiblingPath

LEMMA ClimbsValues ==
    ASSUME NEW hash, NEW steps, Len(steps) \in Nat
    PROVE  Climbs(hash, steps) =
             [j \in 0..Len(steps) |->
                IF j = 0 THEN hash
                ELSE Above(steps[j], Climbs(hash, steps)[j - 1])]
  <1>. DEFINE n == Len(steps)
              Value(last, j) ==
                IF j = 0 THEN hash
                ELSE Above(steps[j], last)
              Up(f, m) == \A j \in 0..m : f[j] = Value(f[j - 1], j)
              G == {m \in 0..n : \E f : Up(f, m)}
  <1>. HIDE DEF n
  <1>0. n \in Nat
    BY DEF n
  <1>1. \A x, y : Value(x, 0) = Value(y, 0)
    OBVIOUS
  <1>2. (\E f : f = [j \in 0..n |-> Value(f[j - 1], j)])
          => Climbs(hash, steps) = [j \in 0..n |-> Value(Climbs(hash, steps)[j - 1], j)]
    BY DEF n, Climbs
  <1>3. Climbs(hash, steps) = [j \in 0..n |-> Value(Climbs(hash, steps)[j - 1], j)]
    <2>. HIDE DEF Value
    <2>1. 0 \in G
      <3>1. Up([j \in 0..0 |-> Value(0, 0)], 0)
        BY <1>0, <1>1
      <3>2. 0 \in 0..n
        BY <1>0
      <3>. HIDE DEF Up
      <3>. QED  BY <3>1, <3>2
    <2>2. ASSUME NEW m \in 0..(n - 1), m \in G PROVE m + 1 \in G
      <3>1. PICK f : Up(f, m)
        BY <2>2
      <3>. DEFINE g == [j \in 0..(m + 1) |-> Value(f[j - 1], j)]
      <3>2. m \in Nat /\ m + 1 \in 0..n
        BY <1>0
      <3>3. ASSUME NEW j \in 0..m PROVE g[j] = f[j]
        BY <3>1, <3>2
      <3>4. ASSUME NEW j \in 0..(m + 1) PROVE g[j] = Value(g[j - 1], j)
        <4>1. CASE j = 0
          BY <1>0, <1>1, <3>2, <4>1
        <4>2. CASE j # 0
          <5>1. j - 1 \in 0..m
            BY <3>2, <4>2
          <5>. QED  BY <3>3, <5>1
        <4>. QED  BY <4>1, <4>2
      <3>5. Up(g, m + 1)
        BY <3>4
      <3>. HIDE DEF g, Up
      <3>. QED  BY <3>2, <3>5
    <2>3. PICK f : Up(f, n)
      <3>1. n \in G
        <4>. HIDE DEF G
        <4>1. \A k \in 0..(n - 1) : k \in G => k + 1 \in G
          BY <2>2
        <4>2. \A k \in 0..n : k \in G
          BY <1>0, <2>1, <4>1, UpTo
        <4>. QED  BY <1>0, <4>2
      <3>. QED  BY <3>1
    <2>. DEFINE g == [j \in 0..n |-> f[j]]
    <2>4. ASSUME NEW j \in 0..n PROVE f[j] = Value(g[j - 1], j)
      <3>1. CASE j = 0
        BY <1>0, <1>1, <2>3, <3>1
      <3>2. CASE j # 0
        <4>1. j - 1 \in 0..n
          BY <1>0, <3>2
        <4>. QED  BY <2>3, <4>1
      <3>. QED  BY <3>1, <3>2
    <2>5. g = [j \in 0..n |-> Value(g[j - 1], j)]
      BY <2>4
    <2>. HIDE DEF g
    <2>. QED  BY <1>2, <2>5
  <1>. QED  BY <1>3 DEF n

LEMMA ChainsValues ==
    ASSUME NEW records, Len(records) \in Nat
    PROVE  Chains(records) =
             [k \in 0..Len(records) |->
                IF k = 0 THEN EmptyBlockchain
                ELSE AddRecord(Chains(records)[k - 1], records[k])]
  <1>. DEFINE n == Len(records)
              Value(last, k) ==
                IF k = 0 THEN EmptyBlockchain
                ELSE AddRecord(last, records[k])
              Up(f, m) == \A k \in 0..m : f[k] = Value(f[k - 1], k)
              G == {m \in 0..n : \E f : Up(f, m)}
  <1>. HIDE DEF n
  <1>0. n \in Nat
    BY DEF n
  <1>1. \A x, y : Value(x, 0) = Value(y, 0)
    OBVIOUS
  <1>2. (\E f : f = [k \in 0..n |-> Value(f[k - 1], k)])
          => Chains(records) = [k \in 0..n |-> Value(Chains(records)[k - 1], k)]
    BY DEF n, Chains
  <1>3. Chains(records) = [k \in 0..n |-> Value(Chains(records)[k - 1], k)]
    <2>. HIDE DEF Value
    <2>1. 0 \in G
      <3>1. Up([k \in 0..0 |-> Value(0, 0)], 0)
        BY <1>0, <1>1
      <3>2. 0 \in 0..n
        BY <1>0
      <3>. HIDE DEF Up
      <3>. QED  BY <3>1, <3>2
    <2>2. ASSUME NEW m \in 0..(n - 1), m \in G PROVE m + 1 \in G
      <3>1. PICK f : Up(f, m)
        BY <2>2
      <3>. DEFINE g == [k \in 0..(m + 1) |-> Value(f[k - 1], k)]
      <3>2. m \in Nat /\ m + 1 \in 0..n
        BY <1>0
      <3>3. ASSUME NEW k \in 0..m PROVE g[k] = f[k]
        BY <3>1, <3>2
      <3>4. ASSUME NEW k \in 0..(m + 1) PROVE g[k] = Value(g[k - 1], k)
        <4>1. CASE k = 0
          BY <1>0, <1>1, <3>2, <4>1
        <4>2. CASE k # 0
          <5>1. k - 1 \in 0..m
            BY <3>2, <4>2
          <5>. QED  BY <3>3, <5>1
        <4>. QED  BY <4>1, <4>2
      <3>5. Up(g, m + 1)
        BY <3>4
      <3>. HIDE DEF g, Up
      <3>. QED  BY <3>2, <3>5
    <2>3. PICK f : Up(f, n)
      <3>1. n \in G
        <4>. HIDE DEF G
        <4>1. \A k \in 0..(n - 1) : k \in G => k + 1 \in G
          BY <2>2
        <4>2. \A k \in 0..n : k \in G
          BY <1>0, <2>1, <4>1, UpTo
        <4>. QED  BY <1>0, <4>2
      <3>. QED  BY <3>1
    <2>. DEFINE g == [k \in 0..n |-> f[k]]
    <2>4. ASSUME NEW k \in 0..n PROVE f[k] = Value(g[k - 1], k)
      <3>1. CASE k = 0
        BY <1>0, <1>1, <2>3, <3>1
      <3>2. CASE k # 0
        <4>1. k - 1 \in 0..n
          BY <1>0, <3>2
        <4>. QED  BY <2>3, <4>1
      <3>. QED  BY <3>1, <3>2
    <2>5. g = [k \in 0..n |-> Value(g[k - 1], k)]
      BY <2>4
    <2>. HIDE DEF g
    <2>. QED  BY <1>2, <2>5
  <1>. QED  BY <1>3 DEF n

LEMMA PushedValues ==
    ASSUME NEW records, Len(procs) \in Nat
    PROVE  Pushed(records) =
             [k \in 0..(Len(procs) + 1) |->
                IF k = 0 THEN << >>
                ELSE IF k \in DOMAIN records THEN Append(Pushed(records)[k - 1], records[k])
                ELSE Pushed(records)[k - 1]]
  <1>. DEFINE n == (Len(procs) + 1)
              Value(last, k) ==
                IF k = 0 THEN << >>
                ELSE IF k \in DOMAIN records THEN Append(last, records[k])
                     ELSE last
              Up(f, m) == \A k \in 0..m : f[k] = Value(f[k - 1], k)
              G == {m \in 0..n : \E f : Up(f, m)}
  <1>. HIDE DEF n
  <1>0. n \in Nat
    BY DEF n
  <1>1. \A x, y : Value(x, 0) = Value(y, 0)
    OBVIOUS
  <1>2. (\E f : f = [k \in 0..n |-> Value(f[k - 1], k)])
          => Pushed(records) = [k \in 0..n |-> Value(Pushed(records)[k - 1], k)]
    BY DEF n, Pushed
  <1>3. Pushed(records) = [k \in 0..n |-> Value(Pushed(records)[k - 1], k)]
    <2>. HIDE DEF Value
    <2>1. 0 \in G
      <3>1. Up([k \in 0..0 |-> Value(0, 0)], 0)
        BY <1>0, <1>1
      <3>2. 0 \in 0..n
        BY <1>0
      <3>. HIDE DEF Up
      <3>. QED  BY <3>1, <3>2
    <2>2. ASSUME NEW m \in 0..(n - 1), m \in G PROVE m + 1 \in G
      <3>1. PICK f : Up(f, m)
        BY <2>2
      <3>. DEFINE g == [k \in 0..(m + 1) |-> Value(f[k - 1], k)]
      <3>2. m \in Nat /\ m + 1 \in 0..n
        BY <1>0
      <3>3. ASSUME NEW k \in 0..m PROVE g[k] = f[k]
        BY <3>1, <3>2
      <3>4. ASSUME NEW k \in 0..(m + 1) PROVE g[k] = Value(g[k - 1], k)
        <4>1. CASE k = 0
          BY <1>0, <1>1, <3>2, <4>1
        <4>2. CASE k # 0
          <5>1. k - 1 \in 0..m
            BY <3>2, <4>2
          <5>. QED  BY <3>3, <5>1
        <4>. QED  BY <4>1, <4>2
      <3>5. Up(g, m + 1)
        BY <3>4
      <3>. HIDE DEF g, Up
      <3>. QED  BY <3>2, <3>5
    <2>3. PICK f : Up(f, n)
      <3>1. n \in G
        <4>. HIDE DEF G
        <4>1. \A k \in 0..(n - 1) : k \in G => k + 1 \in G
          BY <2>2
        <4>2. \A k \in 0..n : k \in G
          BY <1>0, <2>1, <4>1, UpTo
        <4>. QED  BY <1>0, <4>2
      <3>. QED  BY <3>1
    <2>. DEFINE g == [k \in 0..n |-> f[k]]
    <2>4. ASSUME NEW k \in 0..n PROVE f[k] = Value(g[k - 1], k)
      <3>1. CASE k = 0
        BY <1>0, <1>1, <2>3, <3>1
      <3>2. CASE k # 0
        <4>1. k - 1 \in 0..n
          BY <1>0, <3>2
        <4>. QED  BY <2>3, <4>1
      <3>. QED  BY <3>1, <3>2
    <2>5. g = [k \in 0..n |-> Value(g[k - 1], k)]
      BY <2>4
    <2>. HIDE DEF g
    <2>. QED  BY <1>2, <2>5
  <1>. QED  BY <1>3 DEF n

-----------------------------------------------------------------------------
(* Encodings *)

LEMMA ShiftsAreNumbers ==
    ASSUME NEW width \in Nat, NEW v \in Nat
    PROVE  /\ \A k \in 0..width : Shifts(width, v)[k] \in Nat
           /\ Shifts(width, v)[0] = v
           /\ \A k \in 1..width : Shifts(width, v)[k] = Shifts(width, v)[k - 1] \div 256
  <1>. DEFINE f == Shifts(width, v)
              G == {k \in 0..width : f[k] \in Nat}
  <1>1. f[0] = v /\ \A k \in 1..width : f[k] = f[k - 1] \div 256
    <2>1. f = [k \in 0..width |-> IF k = 0 THEN v ELSE f[k - 1] \div 256]
      BY ShiftsValues
    <2>. HIDE DEF f
    <2>2. ASSUME NEW k \in 1..width PROVE f[k] = f[k - 1] \div 256
      <3>1. k \in 0..width /\ k # 0
        OBVIOUS
      <3>. QED  BY <2>1, <3>1
    <2>3. f[0] = v
      BY <2>1
    <2>. QED  BY <2>2, <2>3
  <1>. HIDE DEF f
  <1>2. 0 \in G
    BY <1>1
  <1>3. ASSUME NEW k \in 0..(width - 1), k \in G PROVE k + 1 \in G
    <2>1. k + 1 \in 1..width /\ k + 1 \in 0..width /\ (k + 1) - 1 = k
      OBVIOUS
    <2>2. f[k + 1] = f[k] \div 256 /\ f[k] \in Nat
      BY <1>1, <1>3, <2>1
    <2>3. f[k + 1] \in Nat
      BY <2>2
    <2>. QED  BY <2>1, <2>3
  <1>4. \A k \in 0..width : k \in G
    <2>. HIDE DEF G
    <2>. QED  BY <1>2, <1>3, UpTo
  <1>. QED  BY <1>1, <1>4 DEF f

LEMMA LEFacts ==
    ASSUME NEW width \in Nat, NEW v \in Nat
    PROVE  /\ LE(width, v) \in Seq(Int) /\ Len(LE(width, v)) = width
           /\ \A k \in 1..width : LE(width, v)[k] = Shifts(width, v)[k - 1] % 256
  <1>1. ASSUME NEW k \in 1..width PROVE Shifts(width, v)[k - 1] % 256 \in Int
    <2>1. Shifts(width, v)[k - 1] \in Nat
      BY ShiftsAreNumbers
    <2>. QED  BY <2>1
  <1>2. LE(width, v) = [k \in 1..width |-> Shifts(width, v)[k - 1] % 256]
    BY DEF LE
  <1>3. LE(width, v) \in [1..width -> Int]
    BY <1>1, <1>2
  <1>. QED  BY <1>2, <1>3, PositionsMakeASeq

\* Numbers that fit are told apart by their bytes.
LEMMA LEBinds ==
    ASSUME NEW width \in Nat, NEW v \in Unsigned(width), NEW w \in Unsigned(width),
           LE(width, v) = LE(width, w)
    PROVE  v = w
  <1>. DEFINE f == Shifts(width, v)
              g == Shifts(width, w)
              G == {j \in 0..width : f[width - j] = g[width - j]}
  <1>1. /\ v \in Nat /\ w \in Nat /\ f[width] = 0 /\ g[width] = 0
        /\ \A k \in 0..width : f[k] \in Nat /\ g[k] \in Nat
        /\ f[0] = v /\ g[0] = w
        /\ \A k \in 1..width : f[k] = f[k - 1] \div 256 /\ g[k] = g[k - 1] \div 256
    BY ShiftsAreNumbers DEF Unsigned
  <1>2. ASSUME NEW k \in 1..width PROVE f[k - 1] % 256 = g[k - 1] % 256
    <2>1. v \in Nat /\ w \in Nat
      BY <1>1
    <2>2. \A u \in Nat : LE(width, u)[k] = Shifts(width, u)[k - 1] % 256
      BY LEFacts
    <2>. QED  BY <2>1, <2>2
  <1>. HIDE DEF f, g
  <1>3. 0 \in G
    BY <1>1
  <1>4. ASSUME NEW j \in 0..(width - 1), j \in G PROVE j + 1 \in G
    <2>. DEFINE k == width - j
    <2>1. k \in 1..width /\ k - 1 \in 0..width /\ k - 1 = width - (j + 1) /\ j + 1 \in 0..width
      OBVIOUS
    <2>2. f[k] = g[k]
      BY <1>4
    <2>. HIDE DEF k
    <2>3. f[k - 1] \in Nat /\ g[k - 1] \in Nat
      BY <1>1, <2>1
    <2>4. f[k - 1] \div 256 = g[k - 1] \div 256 /\ f[k - 1] % 256 = g[k - 1] % 256
      BY <1>1, <1>2, <2>1, <2>2
    <2>5. f[k - 1] = g[k - 1]
      BY <2>3, <2>4
    <2>. QED  BY <2>1, <2>5
  <1>5. \A j \in 0..width : j \in G
    <2>. HIDE DEF G
    <2>. QED  BY <1>3, <1>4, UpTo
  <1>6. f[0] = g[0]
    BY <1>5
  <1>. QED  BY <1>1, <1>6

LEMMA Widths ==
    /\ Width32 \in Nat /\ Width64 \in Nat /\ BatchSize \in Nat /\ BatchSize >= 1
    /\ \A v \in Unsigned(Width32) \cup Unsigned(Width64) : v \in Nat
  BY CommitmentsAssumption DEF Unsigned

\* A digest is what was hashed.
IsDigest(d) == d = <<d[1]>>

LEMMA JoinOne ==
    ASSUME NEW x, NEW y
    PROVE  <<x>> \o <<y>> = <<x, y>>
  <1>. DEFINE S == {x, y}
              s == <<x>> \o <<y>>
              t == <<x, y>>
  <1>1. <<x>> \in Seq(S) /\ <<y>> \in Seq(S) /\ Len(<<x>>) = 1 /\ Len(<<y>>) = 1
    OBVIOUS
  <1>2. t \in Seq(S) /\ Len(t) = 2 /\ t[1] = x /\ t[2] = y
    OBVIOUS
  <1>3. s \in Seq(S) /\ Len(s) = 2 /\ s[1] = x /\ s[2] = y
    BY <1>1, ConcatProperties
  <1>. HIDE DEF s, t, S
  <1>4. List(s, 2) /\ List(t, 2)
    BY <1>2, <1>3, SeqIsList
  <1>5. \A k \in 1..2 : k = 1 \/ k = 2
    OBVIOUS
  <1>6. s = t
    BY <1>2, <1>3, <1>4, <1>5, ListsEqual
  <1>. QED  BY <1>6 DEF s, t

LEMMA JoinTwo ==
    ASSUME NEW x, NEW y, NEW z
    PROVE  <<x, y>> \o <<z>> = <<x, y, z>>
  <1>. DEFINE S == {x, y, z}
              s == <<x, y>> \o <<z>>
              t == <<x, y, z>>
  <1>1. <<x, y>> \in Seq(S) /\ <<z>> \in Seq(S) /\ Len(<<x, y>>) = 2 /\ Len(<<z>>) = 1
    OBVIOUS
  <1>2. t \in Seq(S) /\ Len(t) = 3 /\ t[1] = x /\ t[2] = y /\ t[3] = z
    OBVIOUS
  <1>3. s \in Seq(S) /\ Len(s) = 3 /\ s[1] = x /\ s[2] = y /\ s[3] = z
    BY <1>1, ConcatProperties
  <1>. HIDE DEF s, t, S
  <1>4. List(s, 3) /\ List(t, 3)
    BY <1>2, <1>3, SeqIsList
  <1>5. \A k \in 1..3 : k = 1 \/ k = 2 \/ k = 3
    OBVIOUS
  <1>6. s = t
    BY <1>2, <1>3, <1>4, <1>5, ListsEqual
  <1>. QED  BY <1>6 DEF s, t

LEMMA TaggedPair ==
    ASSUME NEW tag, NEW l, NEW r, IsDigest(l), IsDigest(r)
    PROVE  <<tag>> \o l \o r = <<tag, l[1], r[1]>>
  <1>. DEFINE a == l[1]
              b == r[1]
              S == {tag, a, b}
  <1>1. l = <<a>> /\ r = <<b>>
    BY DEF IsDigest
  <1>. HIDE DEF a, b
  <1>2. <<tag>> \in Seq(S) /\ <<a>> \in Seq(S) /\ <<b>> \in Seq(S)
    OBVIOUS
  <1>3. <<tag>> \o <<a>> = <<tag, a>>
    BY <1>2, JoinOne
  <1>4. <<tag, a>> \o <<b>> = <<tag, a, b>>
    BY <1>2, JoinTwo
  <1>. QED  BY <1>1, <1>3, <1>4 DEF a, b

LEMMA HashPairIs ==
    ASSUME NEW l, NEW r, IsDigest(l), IsDigest(r)
    PROVE  HashPair(l, r) = << <<1, l[1], r[1]>> >>
  BY TaggedPair DEF HashPair, Hash

LEMMA ChainedRootIs ==
    ASSUME NEW l, NEW r, IsDigest(l), IsDigest(r)
    PROVE  ComputeChainedRoot(l, r) = << <<3, l[1], r[1]>> >>
  BY TaggedPair DEF ComputeChainedRoot, Hash

\* Two pairs of digests have the same hash only if they are the same pair.
LEMMA PairsBind ==
    ASSUME NEW l, NEW r, NEW x, NEW y,
           IsDigest(l), IsDigest(r), IsDigest(x), IsDigest(y)
    PROVE  /\ HashPair(l, r) = HashPair(x, y) => l = x /\ r = y
           /\ ComputeChainedRoot(l, r) = ComputeChainedRoot(x, y) => l = x /\ r = y
           /\ IsDigest(HashPair(l, r)) /\ IsDigest(ComputeChainedRoot(l, r))
  <1>. DEFINE a == l[1]
              b == r[1]
              c == x[1]
              d == y[1]
  <1>1. l = <<a>> /\ r = <<b>> /\ x = <<c>> /\ y = <<d>>
    BY DEF IsDigest
  <1>2. /\ HashPair(l, r) = << <<1, a, b>> >> /\ HashPair(x, y) = << <<1, c, d>> >>
        /\ ComputeChainedRoot(l, r) = << <<3, a, b>> >>
        /\ ComputeChainedRoot(x, y) = << <<3, c, d>> >>
    BY HashPairIs, ChainedRootIs
  <1>. HIDE DEF a, b, c, d
  <1>3. << <<1, a, b>> >> = << <<1, c, d>> >> => a = c /\ b = d
    OBVIOUS
  <1>4. << <<3, a, b>> >> = << <<3, c, d>> >> => a = c /\ b = d
    OBVIOUS
  <1>5. /\ << <<1, a, b>> >> = << (<< <<1, a, b>> >>)[1] >>
        /\ << <<3, a, b>> >> = << (<< <<3, a, b>> >>)[1] >>
    OBVIOUS
  <1>. QED  BY <1>1, <1>2, <1>3, <1>4, <1>5 DEF IsDigest

\* Concatenation of numbers, as the provers instantiate it.
LEMMA IntConcat ==
    \A s, t \in Seq(Int) : s \o t \in Seq(Int) /\ Len(s \o t) = Len(s) + Len(t)
  BY ConcatProperties

\* A concatenation may be read from either end.
Regroups(s, t, u) == (s \o t) \o u = s \o (t \o u)

LEMMA IntConcatAssociative == \A s, t, u \in Seq(Int) : Regroups(s, t, u)
  BY SMT DEF Regroups

LEMMA IntConcatSplits ==
    \A s, t, x, y \in Seq(Int) : Len(s) = Len(t) /\ s \o x = t \o y => s = t /\ x = y
  BY ConcatSplits

LEMMA Bytes ==
    \A v \in Nat : /\ LE(Width32, v) \in Seq(Int) /\ Len(LE(Width32, v)) = Width32
                  /\ LE(Width64, v) \in Seq(Int) /\ Len(LE(Width64, v)) = Width64
  BY Widths, LEFacts

\* What the code encodes: the numbers of a record, and texts.
Encodable(r) ==
    /\ r.pid \in Unsigned(Width32)
    /\ r.cpu_time \in Nat /\ r.energy \in Nat /\ r.power \in Nat
    /\ r.vm_name \in Seq(Int) /\ r.timestamp \in Seq(Int)

\* Records whose numbers and lengths fit in the integers they are written as.
Texts == {t \in Seq(Int) : Len(t) \in Unsigned(Width32)}
EnergyRecords ==
    [ pid: Unsigned(Width32), cpu_time: Unsigned(Width64), energy: Unsigned(Width64),
      power: Unsigned(Width64), vm_name: Texts, timestamp: Texts ]

LEMMA RecordsAreEncodable == \A r \in EnergyRecords : Encodable(r)
  BY Widths DEF EnergyRecords, Texts, Encodable

LEMMA LenPrefixedFacts ==
    ASSUME NEW t \in Seq(Int)
    PROVE  LenPrefixed(t) \in Seq(Int) /\ LE(Width32, Len(t)) \in Seq(Int)
  <1>1. Len(t) \in Nat
    BY LenProperties
  <1>2. LE(Width32, Len(t)) \in Seq(Int)
    BY <1>1, Bytes
  <1>. QED  BY <1>2, IntConcat DEF LenPrefixed

\* A length and a text, whatever follows them.
LEMMA PrefixesBind ==
    ASSUME NEW t \in Texts, NEW u \in Texts, NEW x \in Seq(Int), NEW y \in Seq(Int),
           LenPrefixed(t) \o x = LenPrefixed(u) \o y
    PROVE  t = u /\ x = y
  <1>. DEFINE a == LE(Width32, Len(t))
              b == LE(Width32, Len(u))
  <1>1. t \in Seq(Int) /\ u \in Seq(Int) /\ Len(t) \in Nat /\ Len(u) \in Nat
    BY LenProperties DEF Texts
  <1>2. a \in Seq(Int) /\ b \in Seq(Int) /\ Len(a) = Len(b)
    BY <1>1, Bytes
  <1>3. (a \o t) \o x = (b \o u) \o y
    BY DEF LenPrefixed
  <1>4. a = b => Len(t) = Len(u)
    BY Widths, LEBinds DEF Texts
  <1>. HIDE DEF a, b
  <1>5. (a \o t) \o x = a \o (t \o x) /\ (b \o u) \o y = b \o (u \o y)
    <2>1. Regroups(a, t, x) /\ Regroups(b, u, y)
      BY <1>1, <1>2, IntConcatAssociative
    <2>. QED  BY <2>1 DEF Regroups
  <1>6. t \o x \in Seq(Int) /\ u \o y \in Seq(Int)
    BY <1>1, IntConcat
  <1>7. a \o (t \o x) = b \o (u \o y)
    BY <1>3, <1>5
  <1>8. a = b /\ t \o x = u \o y
    <2>. DEFINE v == t \o x
                w == u \o y
    <2>1. v \in Seq(Int) /\ w \in Seq(Int) /\ a \o v = b \o w
      BY <1>6, <1>7
    <2>. HIDE DEF v, w
    <2>2. a = b /\ v = w
      BY <1>2, <2>1, IntConcatSplits
    <2>. QED  BY <2>2 DEF v, w
  <1>. QED  BY <1>1, <1>4, <1>8, IntConcatSplits

\* The parts of an encoded record that have a fixed length.
Fixed1(r) == <<RecordFormat>> \o LE(Width32, r.pid)
Fixed2(r) == Fixed1(r) \o LE(Width64, r.cpu_time)
Fixed3(r) == Fixed2(r) \o LE(Width64, r.energy)
Fixed4(r) == Fixed3(r) \o LE(Width64, r.power)

LEMMA FixedFacts ==
    ASSUME NEW r, Encodable(r)
    PROVE  /\ <<RecordFormat>> \in Seq(Int) /\ Len(<<RecordFormat>>) = 1
           /\ Fixed1(r) \in Seq(Int) /\ Len(Fixed1(r)) = 1 + Width32
           /\ Fixed2(r) \in Seq(Int) /\ Len(Fixed2(r)) = 1 + Width32 + Width64
           /\ Fixed3(r) \in Seq(Int) /\ Len(Fixed3(r)) = 1 + Width32 + Width64 + Width64
           /\ Fixed4(r) \in Seq(Int)
           /\ Len(Fixed4(r)) = 1 + Width32 + Width64 + Width64 + Width64
           /\ LE(Width32, r.pid) \in Seq(Int) /\ LE(Width64, r.cpu_time) \in Seq(Int)
           /\ LE(Width64, r.energy) \in Seq(Int) /\ LE(Width64, r.power) \in Seq(Int)
           /\ LenPrefixed(r.vm_name) \in Seq(Int) /\ LenPrefixed(r.timestamp) \in Seq(Int)
           /\ LenPrefixed(r.vm_name) \o LenPrefixed(r.timestamp) \in Seq(Int)
           /\ EncodeRecord(r) =
                Fixed4(r) \o (LenPrefixed(r.vm_name) \o LenPrefixed(r.timestamp))
           /\ EncodeRecord(r) \in Seq(Int)
  <1>0. /\ Width32 \in Nat /\ Width64 \in Nat
        /\ r.pid \in Nat /\ r.cpu_time \in Nat /\ r.energy \in Nat /\ r.power \in Nat
    BY Widths DEF Encodable
  <1>1. <<RecordFormat>> \in Seq(Int) /\ Len(<<RecordFormat>>) = 1
    BY DEF RecordFormat
  <1>2. /\ LE(Width32, r.pid) \in Seq(Int) /\ Len(LE(Width32, r.pid)) = Width32
        /\ LE(Width64, r.cpu_time) \in Seq(Int) /\ Len(LE(Width64, r.cpu_time)) = Width64
        /\ LE(Width64, r.energy) \in Seq(Int) /\ Len(LE(Width64, r.energy)) = Width64
        /\ LE(Width64, r.power) \in Seq(Int) /\ Len(LE(Width64, r.power)) = Width64
    BY <1>0, Bytes
  <1>3. LenPrefixed(r.vm_name) \in Seq(Int) /\ LenPrefixed(r.timestamp) \in Seq(Int)
    BY LenPrefixedFacts DEF Encodable
  <1>4. Fixed1(r) \in Seq(Int) /\ Len(Fixed1(r)) = 1 + Width32
    BY <1>0, <1>1, <1>2, IntConcat DEF Fixed1
  <1>5. Fixed2(r) \in Seq(Int) /\ Len(Fixed2(r)) = 1 + Width32 + Width64
    BY <1>0, <1>2, <1>4, IntConcat DEF Fixed2
  <1>6. Fixed3(r) \in Seq(Int) /\ Len(Fixed3(r)) = 1 + Width32 + Width64 + Width64
    BY <1>0, <1>2, <1>5, IntConcat DEF Fixed3
  <1>7. /\ Fixed4(r) \in Seq(Int)
        /\ Len(Fixed4(r)) = 1 + Width32 + Width64 + Width64 + Width64
    BY <1>0, <1>2, <1>6, IntConcat DEF Fixed4
  <1>8. LenPrefixed(r.vm_name) \o LenPrefixed(r.timestamp) \in Seq(Int)
    BY <1>3, IntConcat
  <1>9. EncodeRecord(r) = (Fixed4(r) \o LenPrefixed(r.vm_name)) \o LenPrefixed(r.timestamp)
    BY DEF EncodeRecord, Fixed1, Fixed2, Fixed3, Fixed4
  <1>10. EncodeRecord(r) = Fixed4(r) \o (LenPrefixed(r.vm_name) \o LenPrefixed(r.timestamp))
    <2>1. Regroups(Fixed4(r), LenPrefixed(r.vm_name), LenPrefixed(r.timestamp))
      BY <1>3, <1>7, IntConcatAssociative
    <2>. QED  BY <1>9, <2>1 DEF Regroups
  <1>11. EncodeRecord(r) \in Seq(Int)
    BY <1>7, <1>8, <1>10, IntConcat
  <1>. QED  BY <1>1, <1>2, <1>3, <1>4, <1>5, <1>6, <1>7, <1>8, <1>10, <1>11

\* The fixed parts of records with the same bytes are the same, one by one.
LEMMA FixedBinds ==
    ASSUME NEW r, NEW s, Encodable(r), Encodable(s), EncodeRecord(r) = EncodeRecord(s)
    PROVE  /\ LE(Width32, r.pid) = LE(Width32, s.pid)
           /\ LE(Width64, r.cpu_time) = LE(Width64, s.cpu_time)
           /\ LE(Width64, r.energy) = LE(Width64, s.energy)
           /\ LE(Width64, r.power) = LE(Width64, s.power)
           /\ LenPrefixed(r.vm_name) \o LenPrefixed(r.timestamp) =
                LenPrefixed(s.vm_name) \o LenPrefixed(s.timestamp)
  <1>1. /\ Fixed4(r) = Fixed4(s)
        /\ LenPrefixed(r.vm_name) \o LenPrefixed(r.timestamp) =
             LenPrefixed(s.vm_name) \o LenPrefixed(s.timestamp)
    <2>. DEFINE x == LenPrefixed(r.vm_name) \o LenPrefixed(r.timestamp)
                y == LenPrefixed(s.vm_name) \o LenPrefixed(s.timestamp)
    <2>1. /\ Fixed4(r) \in Seq(Int) /\ Fixed4(s) \in Seq(Int) /\ x \in Seq(Int)
          /\ y \in Seq(Int) /\ Len(Fixed4(r)) = Len(Fixed4(s))
          /\ Fixed4(r) \o x = Fixed4(s) \o y
      BY FixedFacts
    <2>. HIDE DEF x, y
    <2>2. Fixed4(r) = Fixed4(s) /\ x = y
      BY <2>1, IntConcatSplits
    <2>. QED  BY <2>2 DEF x, y
  <1>2. Fixed3(r) = Fixed3(s) /\ LE(Width64, r.power) = LE(Width64, s.power)
    <2>. DEFINE a == Fixed3(r)
                b == Fixed3(s)
                x == LE(Width64, r.power)
                y == LE(Width64, s.power)
    <2>1. a \o x = b \o y
      BY <1>1 DEF Fixed4
    <2>2. /\ a \in Seq(Int) /\ b \in Seq(Int) /\ x \in Seq(Int) /\ y \in Seq(Int)
          /\ Len(a) = Len(b)
      BY FixedFacts
    <2>. HIDE DEF a, b, x, y
    <2>3. a = b /\ x = y
      BY <2>1, <2>2, IntConcatSplits
    <2>. QED  BY <2>3 DEF a, b, x, y
  <1>3. Fixed2(r) = Fixed2(s) /\ LE(Width64, r.energy) = LE(Width64, s.energy)
    <2>. DEFINE a == Fixed2(r)
                b == Fixed2(s)
                x == LE(Width64, r.energy)
                y == LE(Width64, s.energy)
    <2>1. a \o x = b \o y
      BY <1>2 DEF Fixed3
    <2>2. /\ a \in Seq(Int) /\ b \in Seq(Int) /\ x \in Seq(Int) /\ y \in Seq(Int)
          /\ Len(a) = Len(b)
      BY FixedFacts
    <2>. HIDE DEF a, b, x, y
    <2>3. a = b /\ x = y
      BY <2>1, <2>2, IntConcatSplits
    <2>. QED  BY <2>3 DEF a, b, x, y
  <1>4. Fixed1(r) = Fixed1(s) /\ LE(Width64, r.cpu_time) = LE(Width64, s.cpu_time)
    <2>. DEFINE a == Fixed1(r)
                b == Fixed1(s)
                x == LE(Width64, r.cpu_time)
                y == LE(Width64, s.cpu_time)
    <2>1. a \o x = b \o y
      BY <1>3 DEF Fixed2
    <2>2. /\ a \in Seq(Int) /\ b \in Seq(Int) /\ x \in Seq(Int) /\ y \in Seq(Int)
          /\ Len(a) = Len(b)
      BY FixedFacts
    <2>. HIDE DEF a, b, x, y
    <2>3. a = b /\ x = y
      BY <2>1, <2>2, IntConcatSplits
    <2>. QED  BY <2>3 DEF a, b, x, y
  <1>5. LE(Width32, r.pid) = LE(Width32, s.pid)
    <2>1. <<RecordFormat>> \o LE(Width32, r.pid) = <<RecordFormat>> \o LE(Width32, s.pid)
      BY <1>4 DEF Fixed1
    <2>2. /\ <<RecordFormat>> \in Seq(Int)
          /\ LE(Width32, r.pid) \in Seq(Int) /\ LE(Width32, s.pid) \in Seq(Int)
      BY FixedFacts
    <2>. QED  BY <2>1, <2>2, IntConcatSplits
  <1>. QED  BY <1>1, <1>2, <1>3, <1>4, <1>5

\* Records of different processes are never the same bytes ...
LEMMA PidsTellApart ==
    ASSUME NEW r, NEW s, Encodable(r), Encodable(s), EncodeRecord(r) = EncodeRecord(s)
    PROVE  r.pid = s.pid
  <1>1. r.pid \in Unsigned(Width32) /\ s.pid \in Unsigned(Width32)
    BY DEF Encodable
  <1>. QED  BY <1>1, Widths, FixedBinds, LEBinds

\* ... nor are any two different records, whatever their texts contain.
LEMMA EncodingBinds ==
    ASSUME NEW r \in EnergyRecords, NEW s \in EnergyRecords,
           EncodeRecord(r) = EncodeRecord(s)
    PROVE  r = s
  <1>1. Encodable(r) /\ Encodable(s)
    BY RecordsAreEncodable
  <1>2. r.pid = s.pid
    BY <1>1, PidsTellApart
  <1>3. r.cpu_time = s.cpu_time
    <2>1. r.cpu_time \in Unsigned(Width64) /\ s.cpu_time \in Unsigned(Width64)
      BY DEF EnergyRecords
    <2>. QED  BY <1>1, <2>1, Widths, FixedBinds, LEBinds
  <1>4. r.energy = s.energy
    <2>1. r.energy \in Unsigned(Width64) /\ s.energy \in Unsigned(Width64)
      BY DEF EnergyRecords
    <2>. QED  BY <1>1, <2>1, Widths, FixedBinds, LEBinds
  <1>5. r.power = s.power
    <2>1. r.power \in Unsigned(Width64) /\ s.power \in Unsigned(Width64)
      BY DEF EnergyRecords
    <2>. QED  BY <1>1, <2>1, Widths, FixedBinds, LEBinds
  <1>6. r.vm_name = s.vm_name /\ r.timestamp = s.timestamp
    <2>1. /\ r.vm_name \in Texts /\ s.vm_name \in Texts
          /\ r.timestamp \in Texts /\ s.timestamp \in Texts
      BY DEF EnergyRecords
    <2>2. LenPrefixed(r.timestamp) \in Seq(Int) /\ LenPrefixed(s.timestamp) \in Seq(Int)
      BY <1>1, FixedFacts
    <2>3. /\ r.vm_name = s.vm_name
          /\ LenPrefixed(r.timestamp) = LenPrefixed(s.timestamp)
      <3>. DEFINE t == r.vm_name
                  u == s.vm_name
                  x == LenPrefixed(r.timestamp)
                  y == LenPrefixed(s.timestamp)
      <3>1. LenPrefixed(t) \o x = LenPrefixed(u) \o y
        BY <1>1, FixedBinds
      <3>2. t \in Texts /\ u \in Texts /\ x \in Seq(Int) /\ y \in Seq(Int)
        BY <2>1, <2>2
      <3>. HIDE DEF t, u, x, y
      <3>3. \A p \in Texts : \A q \in Texts : \A v, w \in Seq(Int) :
                LenPrefixed(p) \o v = LenPrefixed(q) \o w => p = q /\ v = w
        BY PrefixesBind
      <3>4. LenPrefixed(t) \o x = LenPrefixed(u) \o y => t = u /\ x = y
        <4>1. \A v, w \in Seq(Int) :
                LenPrefixed(t) \o v = LenPrefixed(u) \o w => t = u /\ v = w
          BY <3>2, <3>3, Zenon
        <4>2. \A w \in Seq(Int) :
                LenPrefixed(t) \o x = LenPrefixed(u) \o w => t = u /\ x = w
          BY <3>2, <4>1, Zenon
        <4>. QED  BY <3>2, <4>2, Zenon
      <3>5. t = u /\ x = y
        BY <3>1, <3>4, Zenon
      <3>. QED  BY <3>5 DEF t, u, x, y
    <2>4. << >> \in Seq(Int)
      BY EmptySeq
    <2>5. LenPrefixed(r.timestamp) \o << >> = LenPrefixed(s.timestamp) \o << >>
      BY <2>3
    <2>6. r.timestamp = s.timestamp
      BY <2>1, <2>4, <2>5, PrefixesBind
    <2>. QED  BY <2>3, <2>6
  <1>. QED  BY <1>2, <1>3, <1>4, <1>5, <1>6 DEF EnergyRecords

-----------------------------------------------------------------------------
(* Trees *)

IsLevel(s) == List(s, Len(s)) /\ \A k \in 1..Len(s) : IsDigest(s[k])

LEMMA FoldLevelFacts ==
    ASSUME NEW s, IsLevel(s)
    PROVE  /\ Len(s) \in Nat
           /\ Len(FoldLevel(s)) = (Len(s) + 1) \div 2
           /\ IsLevel(FoldLevel(s))
           /\ \A k \in 1..((Len(s) + 1) \div 2) :
                FoldLevel(s)[k] = IF 2 * k <= Len(s) THEN HashPair(s[2 * k - 1], s[2 * k])
                                  ELSE s[2 * k - 1]
  <1>. DEFINE n == Len(s)
              m == (n + 1) \div 2
              f == FoldLevel(s)
  <1>1. n \in Nat /\ m \in Nat
    BY DEF IsLevel, List
  <1>2. f = [k \in 1..m |-> IF 2 * k <= n THEN HashPair(s[2 * k - 1], s[2 * k])
                            ELSE s[2 * k - 1]]
    BY DEF FoldLevel
  <1>3. \A k \in 1..n : IsDigest(s[k])
    BY DEF IsLevel
  <1>4. \A k \in 1..m : 2 * k - 1 \in 1..n /\ (2 * k <= n => 2 * k \in 1..n)
    BY <1>1
  <1>. HIDE DEF f, m, n
  <1>5. \A k \in 1..m : f[k] = IF 2 * k <= n THEN HashPair(s[2 * k - 1], s[2 * k])
                               ELSE s[2 * k - 1]
    BY <1>2
  <1>6. List(f, m)
    BY <1>1, <1>2 DEF List
  <1>7. ASSUME NEW k \in 1..m PROVE IsDigest(f[k])
    <2>. DEFINE i == 2 * k - 1
                j == 2 * k
    <2>1. i \in 1..n /\ (j <= n => j \in 1..n)
      BY <1>4
    <2>2. f[k] = IF j <= n THEN HashPair(s[i], s[j]) ELSE s[i]
      BY <1>5
    <2>. HIDE DEF i, j
    <2>3. CASE j <= n
      <3>1. IsDigest(s[i]) /\ IsDigest(s[j])
        BY <1>3, <2>1, <2>3
      <3>2. IsDigest(HashPair(s[i], s[j]))
        BY <3>1, PairsBind
      <3>. QED  BY <2>2, <2>3, <3>2
    <2>4. CASE ~(j <= n)
      BY <1>3, <2>1, <2>2, <2>4
    <2>. QED  BY <2>3, <2>4
  <1>8. Len(f) = m
    BY <1>6, ListFacts
  <1>9. IsLevel(f)
    BY <1>6, <1>7, <1>8 DEF IsLevel
  <1>. QED  BY <1>1, <1>5, <1>8, <1>9 DEF n, m, f

\* A level is determined by its size and the level above.
LEMMA FoldLevelBinds ==
    ASSUME NEW s, NEW t, IsLevel(s), IsLevel(t), Len(s) = Len(t),
           FoldLevel(s) = FoldLevel(t)
    PROVE  s = t
  <1>. DEFINE n == Len(s)
              m == (n + 1) \div 2
  <1>1. n \in Nat /\ m \in Nat
    BY FoldLevelFacts
  <1>2. /\ \A k \in 1..m : FoldLevel(s)[k] = IF 2 * k <= n
                             THEN HashPair(s[2 * k - 1], s[2 * k]) ELSE s[2 * k - 1]
        /\ \A k \in 1..m : FoldLevel(t)[k] = IF 2 * k <= n
                             THEN HashPair(t[2 * k - 1], t[2 * k]) ELSE t[2 * k - 1]
    BY FoldLevelFacts
  <1>3. /\ List(s, n) /\ List(t, n)
        /\ \A k \in 1..n : IsDigest(s[k]) /\ IsDigest(t[k])
    BY DEF IsLevel
  <1>4. ASSUME NEW j \in 1..n PROVE s[j] = t[j]
    <2>. DEFINE k == (j + 1) \div 2
                x == 2 * k - 1
                y == 2 * k
    <2>1. k \in 1..m /\ x \in 1..n /\ (y <= n => y \in 1..n) /\ (j = x \/ (j = y /\ y <= n))
      BY <1>1
    <2>2. (IF y <= n THEN HashPair(s[x], s[y]) ELSE s[x]) =
          (IF y <= n THEN HashPair(t[x], t[y]) ELSE t[x])
      <3>. HIDE DEF k, m, n
      <3>. QED  BY <1>2, <2>1
    <2>. HIDE DEF k, x, y, n, m
    <2>3. CASE y <= n
      <3>1. /\ IsDigest(s[x]) /\ IsDigest(s[y]) /\ IsDigest(t[x]) /\ IsDigest(t[y])
            /\ HashPair(s[x], s[y]) = HashPair(t[x], t[y])
        BY <1>3, <2>1, <2>2, <2>3
      <3>2. s[x] = t[x] /\ s[y] = t[y]
        BY <3>1, PairsBind
      <3>. QED  BY <2>1, <3>2
    <2>4. CASE ~(y <= n)
      BY <2>1, <2>2, <2>4
    <2>. QED  BY <2>3, <2>4
  <1>. HIDE DEF n
  <1>. QED  BY <1>3, <1>4, ListsEqual

LEMMA LevelsFacts ==
    ASSUME NEW leaves, IsLevel(leaves)
    PROVE  /\ Len(leaves) \in Nat
           /\ Levels(leaves)[0] = leaves
           /\ \A h \in 1..Len(leaves) : Levels(leaves)[h] = FoldLevel(Levels(leaves)[h - 1])
           /\ \A h \in 0..Len(leaves) : IsLevel(Levels(leaves)[h])
           /\ \A h \in 1..Len(leaves) :
                Len(Levels(leaves)[h]) = (Len(Levels(leaves)[h - 1]) + 1) \div 2
  <1>. DEFINE n == Len(leaves)
              L == Levels(leaves)
              G == {h \in 0..n : IsLevel(L[h])}
  <1>1. n \in Nat
    BY DEF IsLevel, List
  <1>2. L = [h \in 0..n |-> IF h = 0 THEN leaves ELSE FoldLevel(L[h - 1])]
    BY <1>1, LevelsValues
  <1>. HIDE DEF n, L
  <1>3. L[0] = leaves
    BY <1>1, <1>2
  <1>4. ASSUME NEW h \in 1..n PROVE L[h] = FoldLevel(L[h - 1])
    <2>1. h \in 0..n /\ h # 0
      BY <1>1
    <2>. QED  BY <1>2, <2>1
  <1>5. 0 \in G
    BY <1>1, <1>3
  <1>6. ASSUME NEW h \in 0..(n - 1), h \in G PROVE h + 1 \in G
    <2>1. h + 1 \in 1..n /\ h + 1 \in 0..n /\ (h + 1) - 1 = h
      BY <1>1
    <2>2. L[h + 1] = FoldLevel(L[h]) /\ IsLevel(L[h])
      BY <1>4, <1>6, <2>1
    <2>3. IsLevel(L[h + 1])
      BY <2>2, FoldLevelFacts
    <2>. QED  BY <2>1, <2>3
  <1>7. \A h \in 0..n : h \in G
    <2>. HIDE DEF G
    <2>1. \A h \in 0..(n - 1) : h \in G => h + 1 \in G
      BY <1>6
    <2>. QED  BY <1>1, <1>5, <2>1, UpTo
  <1>8. ASSUME NEW h \in 1..n PROVE Len(L[h]) = (Len(L[h - 1]) + 1) \div 2
    <2>1. h - 1 \in 0..n
      BY <1>1
    <2>2. IsLevel(L[h - 1])
      BY <1>7, <2>1
    <2>. QED  BY <1>4, <2>2, FoldLevelFacts
  <1>9. \A h \in 0..n : IsLevel(L[h])
    BY <1>7
  <1>. QED  BY <1>1, <1>3, <1>4, <1>8, <1>9 DEF n, L

\* The levels get smaller until one node is left.
LEMMA FoldsExist ==
    ASSUME NEW leaves, IsLevel(leaves), Len(leaves) > 0
    PROVE  /\ Folds(leaves) \in 0..Len(leaves)
           /\ Len(Levels(leaves)[Folds(leaves)]) = 1
           /\ \A k \in 0..(Folds(leaves) - 1) : Len(Levels(leaves)[k]) > 1
  <1>. DEFINE n == Len(leaves)
              size(h) == Len(Levels(leaves)[h])
              G == {h \in 0..n : size(h) \in Nat /\ size(h) >= 1 /\ (size(h) = 1 \/ size(h) <= n - h)}
              S == {h \in 0..n : size(h) = 1}
  <1>1. /\ n \in Nat /\ n > 0 /\ size(0) = n
        /\ \A h \in 1..n : size(h) = (size(h - 1) + 1) \div 2
    BY LevelsFacts
  <1>2. Folds(leaves) = CHOOSE h \in 0..n : size(h) = 1 /\ \A k \in 0..(h - 1) : size(k) > 1
    BY DEF Folds
  <1>. HIDE DEF size, n
  <1>3. 0 \in G
    BY <1>1
  <1>4. ASSUME NEW h \in 0..(n - 1), h \in G PROVE h + 1 \in G
    <2>1. h + 1 \in 1..n /\ h + 1 \in 0..n /\ (h + 1) - 1 = h
      BY <1>1
    <2>2. size(h + 1) = (size(h) + 1) \div 2
      BY <1>1, <2>1
    <2>3. size(h) \in Nat /\ size(h) >= 1 /\ (size(h) = 1 \/ size(h) <= n - h)
      BY <1>4
    <2>4. size(h + 1) \in Nat /\ size(h + 1) >= 1
          /\ (size(h + 1) = 1 \/ size(h + 1) <= n - (h + 1))
      <3>. DEFINE p == size(h)
                  q == size(h + 1)
      <3>1. p \in Nat /\ p >= 1 /\ q = (p + 1) \div 2 /\ n \in Nat /\ h \in Nat
        BY <1>1, <2>2, <2>3
      <3>2. p = 1 \/ p <= n - h
        BY <2>3
      <3>. HIDE DEF p, q
      <3>3. q \in Nat /\ q >= 1 /\ (p = 1 => q = 1) /\ (p = 2 => q = 1) /\ (p > 2 => q <= p - 1)
        BY <3>1
      <3>4. q = 1 \/ q <= n - (h + 1)
        BY <3>1, <3>2, <3>3
      <3>. QED  BY <3>3, <3>4 DEF q
    <2>. QED  BY <2>1, <2>4
  <1>5. \A h \in 0..n : h \in G
    <2>. HIDE DEF G
    <2>1. \A h \in 0..(n - 1) : h \in G => h + 1 \in G
      BY <1>4
    <2>. QED  BY <1>1, <1>3, <2>1, UpTo
  <1>6. n \in S
    <2>1. n \in 0..n
      BY <1>1
    <2>2. n \in G
      BY <1>5, <2>1
    <2>. QED  BY <1>1, <2>1, <2>2
  <1>7. PICK m \in S : \A k \in S : m <= k
    <2>1. \A h \in 0..n : h \in Nat
      BY <1>1
    <2>2. S \in SUBSET Nat /\ S # {}
      BY <1>6, <2>1
    <2>. HIDE DEF S
    <2>. QED  BY <2>2, LeastNatural
  <1>8. ASSUME NEW k \in 0..(m - 1) PROVE size(k) > 1
    <2>1. k \in 0..n /\ ~(m <= k)
      BY <1>1
    <2>2. size(k) # 1
      BY <1>7, <2>1
    <2>3. size(k) \in Nat /\ size(k) >= 1
      BY <1>5, <2>1
    <2>. QED  BY <2>2, <2>3
  <1>9. \E h \in 0..n : size(h) = 1 /\ \A k \in 0..(h - 1) : size(k) > 1
    BY <1>7, <1>8
  <1>10. /\ Folds(leaves) \in 0..n /\ size(Folds(leaves)) = 1
         /\ \A k \in 0..(Folds(leaves) - 1) : size(k) > 1
    BY <1>2, <1>9
  <1>. QED  BY <1>10 DEF size, n

\* The size and the contents of a tree determine its root hash.
LEMMA RootFacts ==
    ASSUME NEW n \in Unsigned(Width64), NEW m \in Unsigned(Width64),
           NEW d, NEW e, IsDigest(d), IsDigest(e)
    PROVE  /\ CommitRoot(n, d) = CommitRoot(m, e) => n = m /\ d = e
           /\ IsDigest(CommitRoot(n, d))
           /\ CommitRoot(n, d) # Zeros
  <1>. DEFINE a == d[1]
              b == e[1]
              x == LE(Width64, n)
              y == LE(Width64, m)
              S == Int \cup {a, b}
  <1>1. d = <<a>> /\ e = <<b>>
    BY DEF IsDigest
  <1>2. x = y => n = m
    BY Widths, LEBinds
  <1>3. x \in Seq(Int) /\ y \in Seq(Int) /\ Len(x) = Len(y)
    <2>1. n \in Nat /\ m \in Nat
      BY Widths
    <2>. QED  BY <2>1, Bytes
  <1>4. CommitRoot(n, d) = << <<2>> \o x \o d >> /\ CommitRoot(m, e) = << <<2>> \o y \o e >>
    BY DEF CommitRoot, Hash
  <1>. HIDE DEF a, b, x, y
  <1>5. <<2>> \in Seq(S) /\ <<a>> \in Seq(S) /\ <<b>> \in Seq(S) /\ Len(<<2>>) = 1
    OBVIOUS
  <1>6. x \in Seq(S) /\ y \in Seq(S)
    <2>1. Int \subseteq S
      OBVIOUS
    <2>. HIDE DEF S
    <2>. QED  BY <1>3, <2>1, SeqIsList, ListFacts
  <1>. HIDE DEF S
  <1>7. /\ <<2>> \o x \in Seq(S) /\ <<2>> \o y \in Seq(S)
        /\ Len(<<2>> \o x) = 1 + Len(x) /\ Len(<<2>> \o y) = 1 + Len(y)
    BY <1>5, <1>6, ConcatProperties
  <1>8. ASSUME CommitRoot(n, d) = CommitRoot(m, e) PROVE n = m /\ d = e
    <2>. DEFINE s == <<2>> \o x
                t == <<2>> \o y
    <2>1. s \o <<a>> = t \o <<b>>
      <3>. DEFINE u == s \o <<a>>
                  v == t \o <<b>>
      <3>1. <<u>> = <<v>>
        BY <1>1, <1>4, <1>8
      <3>. HIDE DEF u, v
      <3>2. u = v
        BY <3>1
      <3>. QED  BY <3>2 DEF u, v
    <2>2. s \in Seq(S) /\ t \in Seq(S) /\ Len(s) = Len(t)
      BY <1>3, <1>7
    <2>3. s = t /\ <<a>> = <<b>>
      <3>. HIDE DEF s, t
      <3>. QED  BY <1>5, <2>1, <2>2, ConcatSplits
    <2>4. x = y
      <3>. DEFINE c == <<2>>
      <3>1. c \in Seq(S) /\ c \o x = c \o y
        BY <1>5, <2>3
      <3>. HIDE DEF c
      <3>. QED  BY <1>6, <3>1, ConcatSplits
    <2>. QED  BY <1>1, <1>2, <2>3, <2>4
  <1>9. IsDigest(CommitRoot(n, d))
    BY <1>4 DEF IsDigest
  <1>10. CommitRoot(n, d) # Zeros
    <2>1. Len(<<2>> \o x \o <<a>>) = 1 + Len(x) + 1 /\ Len(x) \in Nat
      BY <1>5, <1>6, <1>7, ConcatProperties, LenProperties
    <2>2. <<2>> \o x \o <<a>> # << >>
      BY <2>1
    <2>. QED  BY <1>1, <1>4, <2>2 DEF Zeros
  <1>. QED  BY <1>8, <1>9, <1>10

LEMMA TopIsDigest ==
    ASSUME NEW leaves, IsLevel(leaves), Len(leaves) > 0
    PROVE  /\ IsDigest(FoldToRoot(leaves))
           /\ Levels(leaves)[Folds(leaves)] = <<FoldToRoot(leaves)>>
  <1>. DEFINE s == Levels(leaves)[Folds(leaves)]
  <1>1. IsLevel(s) /\ Len(s) = 1
    BY FoldsExist, LevelsFacts
  <1>2. FoldToRoot(leaves) = s[1]
    BY DEF FoldToRoot
  <1>. HIDE DEF s
  <1>3. IsDigest(s[1]) /\ s = [k \in 1..1 |-> s[k]]
    BY <1>1 DEF IsLevel, List
  <1>4. s = <<s[1]>>
    BY <1>3
  <1>. QED  BY <1>2, <1>3, <1>4 DEF s

\* Trees of one size with one root have the same leaves.
LEMMA TreeBinds ==
    ASSUME NEW s, NEW t, IsLevel(s), IsLevel(t), Len(s) = Len(t), Len(s) > 0,
           FoldToRoot(s) = FoldToRoot(t)
    PROVE  s = t
  <1>. DEFINE n == Len(s)
              L == Levels(s)
              M == Levels(t)
              top == Folds(s)
              F == {h \in 0..n : Len(L[h]) = Len(M[h])}
              G == {j \in 0..top : L[top - j] = M[top - j]}
  <1>1. /\ n \in Nat /\ n > 0 /\ L[0] = s /\ M[0] = t
        /\ \A h \in 0..n : IsLevel(L[h]) /\ IsLevel(M[h])
    BY LevelsFacts
  <1>2. \A h \in 1..n : L[h] = FoldLevel(L[h - 1]) /\ M[h] = FoldLevel(M[h - 1])
    BY LevelsFacts
  <1>3. \A h \in 1..n : /\ Len(L[h]) = (Len(L[h - 1]) + 1) \div 2
                        /\ Len(M[h]) = (Len(M[h - 1]) + 1) \div 2
    BY LevelsFacts
  <1>4. /\ top \in 0..n /\ Len(L[top]) = 1
        /\ \A k \in 0..(top - 1) : Len(L[k]) > 1
        /\ Folds(t) \in 0..n /\ Len(M[Folds(t)]) = 1
        /\ \A k \in 0..(Folds(t) - 1) : Len(M[k]) > 1
    BY FoldsExist
  <1>5. L[top] = <<FoldToRoot(s)>> /\ M[Folds(t)] = <<FoldToRoot(t)>>
    BY TopIsDigest
  <1>6. Len(L[0]) = Len(M[0])
    BY <1>1
  <1>. HIDE DEF n, L, M, top
  <1>7. \A h \in 0..n : h \in F
    <2>1. 0 \in F
      BY <1>1, <1>6
    <2>2. ASSUME NEW h \in 0..(n - 1), h \in F PROVE h + 1 \in F
      <3>1. h + 1 \in 1..n /\ h + 1 \in 0..n /\ (h + 1) - 1 = h
        BY <1>1
      <3>2. Len(L[h + 1]) = Len(M[h + 1])
        BY <1>3, <2>2, <3>1
      <3>. QED  BY <3>1, <3>2
    <2>. HIDE DEF F
    <2>3. \A h \in 0..(n - 1) : h \in F => h + 1 \in F
      BY <2>2
    <2>. QED  BY <1>1, <2>1, <2>3, UpTo
  <1>8. Folds(t) = top
    <2>. DEFINE f == Folds(t)
    <2>1. f \in Nat /\ top \in Nat /\ Len(L[f]) = 1 /\ Len(M[top]) = 1
      BY <1>1, <1>4, <1>7
    <2>2. ~(f < top)
      <3>. SUFFICES ASSUME f < top PROVE FALSE
        OBVIOUS
      <3>1. f \in 0..(top - 1)
        BY <2>1
      <3>2. Len(L[f]) > 1
        BY <1>4, <3>1
      <3>. QED  BY <2>1, <3>2
    <2>3. ~(top < f)
      <3>. SUFFICES ASSUME top < f PROVE FALSE
        OBVIOUS
      <3>1. top \in 0..(f - 1)
        BY <2>1
      <3>2. Len(M[top]) > 1
        BY <1>4, <3>1
      <3>. QED  BY <2>1, <3>2
    <2>. QED  BY <2>1, <2>2, <2>3
  <1>9. 0 \in G
    BY <1>1, <1>4, <1>5, <1>8
  <1>10. ASSUME NEW j \in 0..(top - 1), j \in G PROVE j + 1 \in G
    <2>. DEFINE h == top - j
                k == top - (j + 1)
    <2>1. h \in 1..n /\ k = h - 1 /\ k \in 0..n /\ j + 1 \in 0..top
      BY <1>1, <1>4
    <2>2. L[h] = M[h]
      BY <1>10
    <2>. HIDE DEF h
    <2>3. FoldLevel(L[k]) = FoldLevel(M[k])
      BY <1>2, <2>1, <2>2
    <2>. HIDE DEF k
    <2>4. IsLevel(L[k]) /\ IsLevel(M[k]) /\ Len(L[k]) = Len(M[k])
      BY <1>1, <1>7, <2>1
    <2>5. L[k] = M[k]
      BY <2>3, <2>4, FoldLevelBinds
    <2>. QED  BY <2>1, <2>5 DEF k
  <1>11. \A j \in 0..top : j \in G
    <2>1. top \in Nat
      BY <1>1, <1>4
    <2>. HIDE DEF G
    <2>2. \A j \in 0..(top - 1) : j \in G => j + 1 \in G
      BY <1>10
    <2>. QED  BY <1>9, <2>1, <2>2, UpTo
  <1>12. top \in Nat /\ top \in G
    <2>1. top \in Nat /\ top \in 0..top
      BY <1>1, <1>4
    <2>. HIDE DEF G
    <2>. QED  BY <1>11, <2>1
  <1>13. L[0] = M[0]
    BY <1>12
  <1>. QED  BY <1>1, <1>13

\* The leaves of a batch.
Encodables(records) ==
    List(records, Len(records)) /\ \A k \in 1..Len(records) : Encodable(records[k])

LEMMA LeavesFacts ==
    ASSUME NEW records, Encodables(records)
    PROVE  /\ Len(records) \in Nat /\ Len(Leaves(records)) = Len(records)
           /\ DOMAIN records = 1..Len(records)
           /\ IsLevel(Leaves(records))
           /\ \A k \in 1..Len(records) : Leaves(records)[k] = HashLeaf(EncodeRecord(records[k]))
  <1>. DEFINE n == Len(records)
              s == Leaves(records)
  <1>1. n \in Nat /\ List(records, n)
    BY DEF Encodables, List
  <1>2. DOMAIN records = 1..n
    BY <1>1, ListFacts
  <1>3. s = [k \in 1..n |-> HashLeaf(EncodeRecord(records[k]))]
    BY <1>2 DEF Leaves
  <1>. HIDE DEF n, s
  <1>4. List(s, n) /\ \A k \in 1..n : s[k] = HashLeaf(EncodeRecord(records[k]))
    BY <1>1, <1>3 DEF List
  <1>5. Len(s) = n
    BY <1>4, ListFacts
  <1>6. \A m : IsDigest(Hash(m))
    BY DEF IsDigest, Hash
  <1>7. \A k \in 1..n : IsDigest(s[k])
    BY <1>4, <1>6 DEF HashLeaf
  <1>8. IsLevel(s)
    BY <1>4, <1>5, <1>7 DEF IsLevel
  <1>. QED  BY <1>1, <1>2, <1>4, <1>5, <1>8 DEF n, s

LEMMA LeafBinds ==
    ASSUME NEW x \in Seq(Int), NEW y \in Seq(Int), HashLeaf(x) = HashLeaf(y)
    PROVE  x = y
  <1>1. <<0>> \o x = <<0>> \o y
    BY DEF HashLeaf, Hash
  <1>2. <<0>> \in Seq(Int)
    OBVIOUS
  <1>. QED  BY <1>1, <1>2, ConcatSplits

Batch(records) == records \in Seq(EnergyRecords) /\ Len(records) \in Unsigned(Width64)

LEMMA BatchIsEncodable ==
    ASSUME NEW records, Batch(records)
    PROVE  Encodables(records)
  <1>1. List(records, Len(records)) /\ \A k \in 1..Len(records) : records[k] \in EnergyRecords
    BY SeqIsList DEF Batch
  <1>. QED  BY <1>1, RecordsAreEncodable DEF Encodables

LEMMA LeavesBind ==
    ASSUME NEW r, NEW s, Batch(r), Batch(s), Leaves(r) = Leaves(s)
    PROVE  r = s
  <1>1. /\ Encodables(r) /\ Encodables(s)
        /\ List(r, Len(r)) /\ \A k \in 1..Len(r) : r[k] \in EnergyRecords
        /\ List(s, Len(s)) /\ \A k \in 1..Len(s) : s[k] \in EnergyRecords
    BY BatchIsEncodable, SeqIsList DEF Batch
  <1>2. Len(r) = Len(s)
    BY <1>1, LeavesFacts
  <1>3. ASSUME NEW k \in 1..Len(r) PROVE r[k] = s[k]
    <2>1. HashLeaf(EncodeRecord(r[k])) = HashLeaf(EncodeRecord(s[k]))
      <3>1. Leaves(r)[k] = HashLeaf(EncodeRecord(r[k]))
        BY <1>1, LeavesFacts
      <3>2. Leaves(s)[k] = HashLeaf(EncodeRecord(s[k]))
        BY <1>1, <1>2, LeavesFacts
      <3>. QED  BY <3>1, <3>2
    <2>2. r[k] \in EnergyRecords /\ s[k] \in EnergyRecords
      BY <1>1, <1>2
    <2>. DEFINE p == r[k]
                q == s[k]
    <2>3. Encodable(p) /\ Encodable(q)
      BY <2>2, RecordsAreEncodable
    <2>. HIDE DEF p, q
    <2>4. EncodeRecord(p) \in Seq(Int) /\ EncodeRecord(q) \in Seq(Int)
      BY <2>3, FixedFacts
    <2>5. EncodeRecord(p) = EncodeRecord(q)
      BY <2>1, <2>4, LeafBinds DEF p, q
    <2>. QED  BY <2>2, <2>5, EncodingBinds DEF p, q
  <1>. QED  BY <1>1, <1>2, <1>3, ListsEqual

\* Different batches of records have different Merkle roots, whatever the
\* number of records is: no two batches could be exchanged in a block
\* (test_odd_leaf_padding_is_not_ambiguous, for every batch).
THEOREM RootsBind ==
    ASSUME NEW r, NEW s, Batch(r), Batch(s), Build(r).root = Build(s).root
    PROVE  r = s
  <1>. DEFINE a == Leaves(r)
              b == Leaves(s)
  <1>1. Encodables(r) /\ Encodables(s)
    BY BatchIsEncodable
  <1>2. /\ IsLevel(a) /\ Len(a) = Len(r) /\ Len(r) \in Nat
        /\ IsLevel(b) /\ Len(b) = Len(s) /\ Len(s) \in Nat
    BY <1>1, LeavesFacts
  <1>3. /\ Build(r).root = IF r = << >> THEN Zeros ELSE CommitRoot(Len(a), FoldToRoot(a))
        /\ Build(s).root = IF s = << >> THEN Zeros ELSE CommitRoot(Len(b), FoldToRoot(b))
    BY DEF Build
  <1>4. Len(a) \in Unsigned(Width64) /\ Len(b) \in Unsigned(Width64)
    BY <1>2 DEF Batch
  <1>5. (r # << >> => Len(a) > 0) /\ (s # << >> => Len(b) > 0)
    BY <1>2, EmptySeq DEF Batch
  <1>. HIDE DEF a, b
  <1>6. (r # << >> => IsDigest(FoldToRoot(a))) /\ (s # << >> => IsDigest(FoldToRoot(b)))
    BY <1>2, <1>5, TopIsDigest
  <1>7. CASE r # << >> /\ s # << >>
    <2>1. CommitRoot(Len(a), FoldToRoot(a)) = CommitRoot(Len(b), FoldToRoot(b))
      BY <1>3, <1>7
    <2>2. Len(a) = Len(b) /\ FoldToRoot(a) = FoldToRoot(b)
      BY <1>4, <1>6, <1>7, <2>1, RootFacts
    <2>3. a = b
      BY <1>2, <1>5, <1>7, <2>2, TreeBinds
    <2>. QED  BY <2>3, LeavesBind DEF a, b
  <1>8. CASE r = << >> /\ s # << >>
    <2>1. CommitRoot(Len(b), FoldToRoot(b)) # Zeros
      BY <1>4, <1>6, <1>8, RootFacts
    <2>. QED  BY <1>3, <1>8, <2>1
  <1>9. CASE r # << >> /\ s = << >>
    <2>1. CommitRoot(Len(a), FoldToRoot(a)) # Zeros
      BY <1>4, <1>6, <1>9, RootFacts
    <2>. QED  BY <1>3, <1>9, <2>1
  <1>. QED  BY <1>7, <1>8, <1>9

-----------------------------------------------------------------------------
(* Inclusion proofs *)

InTree(leaves, d) ==
    \E h \in 0..Len(leaves) : \E i \in 1..Len(Levels(leaves)[h]) : Levels(leaves)[h][i] = d

\* A node is a leaf or the hash of two nodes.
LEMMA NodeKinds ==
    ASSUME NEW leaves, IsLevel(leaves), NEW d, InTree(leaves, d)
    PROVE  \/ \E k \in 1..Len(leaves) : d = leaves[k]
           \/ \E x, y : /\ InTree(leaves, x) /\ InTree(leaves, y)
                        /\ IsDigest(x) /\ IsDigest(y) /\ d = HashPair(x, y)
  <1>. DEFINE n == Len(leaves)
              L == Levels(leaves)
              Kinds(e) == \/ \E k \in 1..n : e = leaves[k]
                          \/ \E x, y : /\ InTree(leaves, x) /\ InTree(leaves, y)
                                       /\ IsDigest(x) /\ IsDigest(y) /\ e = HashPair(x, y)
              G == {h \in 0..n : \A i \in 1..Len(L[h]) : Kinds(L[h][i])}
  <1>1. /\ n \in Nat /\ L[0] = leaves
        /\ \A h \in 1..n : L[h] = FoldLevel(L[h - 1])
        /\ \A h \in 0..n : IsLevel(L[h])
    BY LevelsFacts
  <1>2. 0 \in G
    BY <1>1
  <1>3. ASSUME NEW h \in 0..(n - 1), h \in G PROVE h + 1 \in G
    <2>1. h \in 0..n /\ h + 1 \in 1..n /\ h + 1 \in 0..n /\ (h + 1) - 1 = h
      BY <1>1
    <2>. DEFINE s == L[h]
    <2>2. L[h + 1] = FoldLevel(s) /\ IsLevel(s)
      BY <1>1, <2>1
    <2>3. \A i \in 1..Len(s) : Kinds(s[i]) /\ InTree(leaves, s[i])
      BY <1>3, <2>1 DEF InTree
    <2>. HIDE DEF s, Kinds, n, L
    <2>4. /\ Len(s) \in Nat /\ Len(FoldLevel(s)) = (Len(s) + 1) \div 2
          /\ \A k \in 1..((Len(s) + 1) \div 2) :
               FoldLevel(s)[k] = IF 2 * k <= Len(s) THEN HashPair(s[2 * k - 1], s[2 * k])
                                 ELSE s[2 * k - 1]
      BY <2>2, FoldLevelFacts
    <2>5. \A i \in 1..Len(s) : IsDigest(s[i])
      BY <2>2 DEF IsLevel
    <2>6. ASSUME NEW k \in 1..Len(FoldLevel(s)) PROVE Kinds(FoldLevel(s)[k])
      <3>. DEFINE i == 2 * k - 1
                  j == 2 * k
      <3>1. i \in 1..Len(s) /\ (j <= Len(s) => j \in 1..Len(s))
        BY <2>4
      <3>2. FoldLevel(s)[k] = IF j <= Len(s) THEN HashPair(s[i], s[j]) ELSE s[i]
        BY <2>4
      <3>. HIDE DEF i, j
      <3>3. CASE j <= Len(s)
        <4>1. /\ InTree(leaves, s[i]) /\ InTree(leaves, s[j])
              /\ IsDigest(s[i]) /\ IsDigest(s[j])
          BY <2>3, <2>5, <3>1, <3>3
        <4>2. Kinds(HashPair(s[i], s[j]))
          BY <4>1 DEF Kinds
        <4>. QED  BY <3>2, <3>3, <4>2
      <3>4. CASE ~(j <= Len(s))
        BY <2>3, <3>1, <3>2, <3>4
      <3>. QED  BY <3>3, <3>4
    <2>. QED  BY <2>1, <2>2, <2>6
  <1>4. \A h \in 0..n : h \in G
    <2>1. \A h \in 0..(n - 1) : h \in G => h + 1 \in G
      BY <1>3
    <2>2. n \in Nat
      BY <1>1
    <2>. HIDE DEF G, n
    <2>. QED  BY <1>2, <2>1, <2>2, UpTo
  <1>5. PICK h \in 0..n : \E i \in 1..Len(L[h]) : L[h][i] = d
    BY DEF InTree
  <1>6. h \in G
    <2>. HIDE DEF G
    <2>. QED  BY <1>4
  <1>7. Kinds(d)
    BY <1>5, <1>6
  <1>. QED  BY <1>7

LEMMA LeafIsNoPair ==
    ASSUME NEW m \in Seq(Int), NEW x, NEW y, IsDigest(x), IsDigest(y)
    PROVE  HashLeaf(m) # HashPair(x, y)
  <1>. SUFFICES ASSUME HashLeaf(m) = HashPair(x, y) PROVE FALSE
    OBVIOUS
  <1>. DEFINE s == <<0>> \o m
              t == <<1, x[1], y[1]>>
  <1>1. <<s>> = <<t>>
    BY HashPairIs DEF HashLeaf, Hash
  <1>2. s[1] = 0
    <2>1. <<0>> \in Seq(Int) /\ Len(<<0>>) = 1 /\ Len(m) \in Nat
      BY LenProperties
    <2>2. 1 \in 1..(Len(<<0>>) + Len(m)) /\ 1 <= Len(<<0>>)
      BY <2>1
    <2>3. s[1] = (<<0>>)[1]
      BY <2>1, <2>2, ConcatProperties
    <2>. QED  BY <2>3
  <1>3. t[1] = 1
    OBVIOUS
  <1>. HIDE DEF s, t
  <1>4. s = t
    BY <1>1
  <1>. QED  BY <1>2, <1>3, <1>4

LEMMA ClimbsFacts ==
    ASSUME NEW hash, NEW steps, Len(steps) \in Nat
    PROVE  /\ Climbs(hash, steps)[0] = hash
           /\ \A j \in 1..Len(steps) :
                Climbs(hash, steps)[j] = Above(steps[j], Climbs(hash, steps)[j - 1])
  <1>. DEFINE n == Len(steps)
              C == Climbs(hash, steps)
  <1>1. C = [j \in 0..n |-> IF j = 0 THEN hash ELSE Above(steps[j], C[j - 1])]
    BY ClimbsValues
  <1>2. n \in Nat
    OBVIOUS
  <1>. HIDE DEF n, C
  <1>3. C[0] = hash
    BY <1>1, <1>2
  <1>4. ASSUME NEW j \in 1..n PROVE C[j] = Above(steps[j], C[j - 1])
    <2>1. j \in 0..n /\ j # 0
      BY <1>2
    <2>. QED  BY <1>1, <2>1
  <1>. QED  BY <1>3, <1>4 DEF n, C

\* What may be offered as the siblings of a proof: any hashes.
ProofSteps(steps) ==
    List(steps, Len(steps)) /\ \A j \in 1..Len(steps) : IsDigest(steps[j].hash)

\* A proof is accepted only for a record of the batch and with the number of
\* its records, whatever siblings are offered: MerkleProof::verify cannot be
\* made to accept a record that was never committed to.
THEOREM ProofsAreSound ==
    ASSUME NEW records, Batch(records), NEW r \in EnergyRecords,
           NEW steps, ProofSteps(steps), NEW count \in Unsigned(Width64),
           VerifyProof([leaf_hash  |-> HashLeaf(EncodeRecord(r)), steps |-> steps,
                        leaf_count |-> count], Build(records).root)
    PROVE  /\ count = Len(records)
           /\ \E k \in DOMAIN records : records[k] = r
  <1>. DEFINE leaves == Leaves(records)
              leaf == HashLeaf(EncodeRecord(r))
              m == Len(steps)
              C == Climbs(leaf, steps)
              Digests == {j \in 0..m : IsDigest(C[j])}
              Known == {j \in 0..m : InTree(leaves, C[m - j])}
  <1>1. Encodables(records) /\ Encodable(r)
    BY BatchIsEncodable, RecordsAreEncodable
  <1>2. /\ IsLevel(leaves) /\ Len(leaves) = Len(records) /\ Len(records) \in Nat
        /\ DOMAIN records = 1..Len(records)
        /\ \A k \in 1..Len(records) : leaves[k] = HashLeaf(EncodeRecord(records[k]))
    BY <1>1, LeavesFacts
  <1>3. EncodeRecord(r) \in Seq(Int)
    BY <1>1, FixedFacts
  <1>4. \A k \in 1..Len(records) : EncodeRecord(records[k]) \in Seq(Int)
    BY <1>1, FixedFacts DEF Encodables
  <1>5. /\ m \in Nat /\ C[0] = leaf
        /\ \A j \in 1..m : C[j] = Above(steps[j], C[j - 1])
    BY ClimbsFacts DEF ProofSteps, List
  <1>6. \A j \in 1..m : IsDigest(steps[j].hash)
    BY DEF ProofSteps
  <1>7. CommitRoot(count, C[m]) = Build(records).root
    BY DEF VerifyProof
  <1>8. Build(records).root = IF records = << >> THEN Zeros
                              ELSE CommitRoot(Len(leaves), FoldToRoot(leaves))
    BY DEF Build
  <1>9. IsDigest(leaf)
    BY DEF IsDigest, HashLeaf, Hash
  <1>. HIDE DEF leaves, leaf, m, C
  <1>10. \A j \in 0..m : j \in Digests
    <2>1. 0 \in Digests
      BY <1>5, <1>9
    <2>2. ASSUME NEW j \in 0..(m - 1), j \in Digests PROVE j + 1 \in Digests
      <3>1. j + 1 \in 1..m /\ j + 1 \in 0..m /\ (j + 1) - 1 = j
        BY <1>5
      <3>2. IsDigest(C[j]) /\ IsDigest(steps[j + 1].hash)
        BY <1>6, <2>2, <3>1
      <3>3. C[j + 1] = Above(steps[j + 1], C[j])
        BY <1>5, <3>1
      <3>4. IsDigest(C[j + 1])
        BY <3>2, <3>3, PairsBind DEF Above
      <3>. QED  BY <3>1, <3>4
    <2>3. \A j \in 0..(m - 1) : j \in Digests => j + 1 \in Digests
      BY <2>2
    <2>. HIDE DEF Digests
    <2>. QED  BY <1>5, <2>1, <2>3, UpTo
  <1>11. IsDigest(C[m])
    BY <1>5, <1>10
  <1>12. records # << >>
    <2>1. CommitRoot(count, C[m]) # Zeros
      BY <1>11, RootFacts
    <2>. QED  BY <1>7, <1>8, <2>1
  <1>13. Len(leaves) > 0 /\ Len(leaves) \in Unsigned(Width64)
    BY <1>2, <1>12, EmptySeq DEF Batch
  <1>14. IsDigest(FoldToRoot(leaves))
    BY <1>2, <1>13, TopIsDigest
  <1>15. count = Len(leaves) /\ C[m] = FoldToRoot(leaves)
    <2>. DEFINE n == Len(leaves)
                d == C[m]
                e == FoldToRoot(leaves)
    <2>1. CommitRoot(count, d) = CommitRoot(n, e) /\ n \in Unsigned(Width64)
      BY <1>7, <1>8, <1>12, <1>13
    <2>2. IsDigest(d) /\ IsDigest(e)
      BY <1>11, <1>14
    <2>. HIDE DEF n, d, e
    <2>3. count = n /\ d = e
      BY <2>1, <2>2, RootFacts
    <2>. QED  BY <2>3 DEF n, d, e
  <1>16. InTree(leaves, C[m])
    <2>. DEFINE top == Folds(leaves)
    <2>1. top \in 0..Len(leaves) /\ Len(Levels(leaves)[top]) = 1
      BY <1>2, <1>13, FoldsExist
    <2>2. Levels(leaves)[top][1] = C[m]
      BY <1>15 DEF FoldToRoot
    <2>3. 1 \in 1..Len(Levels(leaves)[top])
      BY <2>1
    <2>. HIDE DEF top
    <2>. QED  BY <2>1, <2>2, <2>3 DEF InTree
  <1>17. \A j \in 0..m : j \in Known
    <2>1. 0 \in Known
      BY <1>5, <1>16
    <2>2. ASSUME NEW j \in 0..(m - 1), j \in Known PROVE j + 1 \in Known
      <3>. DEFINE i == m - j
                  d == C[i]
                  e == C[i - 1]
                  f == steps[i].hash
      <3>1. i \in 1..m /\ i - 1 \in 0..m /\ i - 1 = m - (j + 1) /\ j + 1 \in 0..m
        BY <1>5
      <3>2. InTree(leaves, d)
        BY <2>2
      <3>. HIDE DEF i
      <3>3. d = Above(steps[i], e)
        BY <1>5, <3>1
      <3>4. IsDigest(e) /\ IsDigest(f)
        BY <1>6, <1>10, <3>1
      <3>5. d = HashPair(f, e) \/ d = HashPair(e, f)
        BY <3>3 DEF Above
      <3>. HIDE DEF d, e, f
      <3>6. InTree(leaves, e)
        <4>1. ASSUME NEW k \in 1..Len(leaves), d = leaves[k] PROVE FALSE
          <5>1. EncodeRecord(records[k]) \in Seq(Int) /\ d = HashLeaf(EncodeRecord(records[k]))
            BY <1>2, <1>4, <4>1
          <5>. QED  BY <3>4, <3>5, <5>1, LeafIsNoPair
        <4>2. PICK x, y : /\ InTree(leaves, x) /\ InTree(leaves, y)
                          /\ IsDigest(x) /\ IsDigest(y) /\ d = HashPair(x, y)
          BY <1>2, <3>2, <4>1, NodeKinds
        <4>3. e = x \/ e = y
          BY <3>4, <3>5, <4>2, PairsBind
        <4>. QED  BY <4>2, <4>3
      <3>. QED  BY <3>1, <3>6 DEF e
    <2>3. \A j \in 0..(m - 1) : j \in Known => j + 1 \in Known
      BY <2>2
    <2>. HIDE DEF Known
    <2>. QED  BY <1>5, <2>1, <2>3, UpTo
  <1>18. InTree(leaves, leaf)
    <2>1. m \in Known /\ m - m = 0
      BY <1>5, <1>17
    <2>2. InTree(leaves, C[m - m])
      BY <2>1
    <2>. QED  BY <1>5, <2>1, <2>2
  <1>19. PICK k \in 1..Len(leaves) : leaf = leaves[k]
    <2>1. ASSUME NEW x, NEW y, IsDigest(x), IsDigest(y) PROVE leaf # HashPair(x, y)
      BY <1>3, <2>1, LeafIsNoPair DEF leaf
    <2>. QED  BY <1>2, <1>18, <2>1, NodeKinds
  <1>20. EncodeRecord(records[k]) = EncodeRecord(r) /\ k \in 1..Len(records)
    <2>1. k \in 1..Len(records) /\ leaves[k] = HashLeaf(EncodeRecord(records[k]))
      BY <1>2
    <2>2. EncodeRecord(records[k]) \in Seq(Int)
      BY <1>4, <2>1
    <2>. QED  BY <1>3, <1>19, <2>1, <2>2, LeafBinds DEF leaf
  <1>21. records[k] \in EnergyRecords
    BY <1>20, SeqIsList DEF Batch
  <1>22. records[k] = r
    BY <1>20, <1>21, EncodingBinds
  <1>. QED  BY <1>2, <1>15, <1>20, <1>22

Path(leaves, index) ==
    /\ \A h \in 1..Len(leaves) :
         Indices(leaves, index)[h] = Indices(leaves, index)[h - 1] \div 2
    /\ \A h \in 0..Len(leaves) :
         Indices(leaves, index)[h] \in 0..(Len(Levels(leaves)[h]) - 1)
    /\ \A h \in 1..Len(leaves) :
         Siblings(leaves, index)[h] = Siblings(leaves, index)[h - 1]
           \o SiblingOf(Levels(leaves)[h - 1], Indices(leaves, index)[h - 1])

\* The node above a leaf at each level, and the siblings up to there.
LEMMA PathFacts ==
    ASSUME NEW leaves, IsLevel(leaves), NEW index \in 0..(Len(leaves) - 1)
    PROVE  /\ Indices(leaves, index)[0] = index
           /\ Siblings(leaves, index)[0] = << >>
           /\ Path(leaves, index)
  <1>0. Siblings(leaves, index) =
          [h \in 0..Len(leaves) |-> IF h = 0 THEN << >> ELSE Siblings(leaves, index)[h - 1]
                    \o SiblingOf(Levels(leaves)[h - 1], Indices(leaves, index)[h - 1])]
    <2>1. Len(leaves) \in Nat
      BY LevelsFacts
    <2>2. SiblingPath(leaves, index)
      BY <2>1, SiblingsValues
    <2>. QED  BY <2>2 DEF SiblingPath
  <1>. DEFINE n == Len(leaves)
              L == Levels(leaves)
              I == Indices(leaves, index)
              S == Siblings(leaves, index)
              G == {h \in 0..n : I[h] \in 0..(Len(L[h]) - 1)}
  <1>1. /\ n \in Nat /\ L[0] = leaves
        /\ \A h \in 1..n : Len(L[h]) = (Len(L[h - 1]) + 1) \div 2
        /\ \A h \in 0..n : IsLevel(L[h])
    BY LevelsFacts
  <1>2. /\ I = [h \in 0..n |-> IF h = 0 THEN index ELSE I[h - 1] \div 2]
        /\ S = [h \in 0..n |-> IF h = 0 THEN << >>
                               ELSE S[h - 1] \o SiblingOf(L[h - 1], I[h - 1])]
    <2>1. I = [h \in 0..n |-> IF h = 0 THEN index ELSE I[h - 1] \div 2]
      BY <1>1, IndicesValues
    <2>2. S = [h \in 0..n |-> IF h = 0 THEN << >>
                              ELSE S[h - 1] \o SiblingOf(L[h - 1], I[h - 1])]
      BY <1>0, Zenon DEF Path
    <2>. QED  BY <2>1, <2>2
  <1>3. index \in 0..(Len(L[0]) - 1)
    BY <1>1
  <1>. HIDE DEF n, L, I, S
  <1>4. I[0] = index /\ S[0] = << >>
    BY <1>1, <1>2
  <1>5. ASSUME NEW h \in 1..n
        PROVE  I[h] = I[h - 1] \div 2 /\ S[h] = S[h - 1] \o SiblingOf(L[h - 1], I[h - 1])
    <2>1. h \in 0..n /\ h # 0
      BY <1>1
    <2>. QED  BY <1>2, <2>1
  <1>6. 0 \in G
    BY <1>1, <1>3, <1>4
  <1>7. ASSUME NEW h \in 0..(n - 1), h \in G PROVE h + 1 \in G
    <2>1. h \in 0..n /\ h + 1 \in 1..n /\ h + 1 \in 0..n /\ (h + 1) - 1 = h
      BY <1>1
    <2>2. Len(L[h]) \in Nat
      BY <1>1, <2>1 DEF IsLevel, List
    <2>. DEFINE p == Len(L[h])
                q == Len(L[h + 1])
                i == I[h]
    <2>3. q = (p + 1) \div 2 /\ I[h + 1] = i \div 2
      BY <1>1, <1>5, <2>1
    <2>4. p \in Nat /\ i \in 0..(p - 1)
      BY <1>7, <2>2
    <2>. HIDE DEF p, q, i
    <2>5. i \div 2 \in 0..(q - 1)
      BY <2>3, <2>4
    <2>6. I[h + 1] \in 0..(Len(L[h + 1]) - 1)
      BY <2>3, <2>5 DEF q
    <2>. QED  BY <2>1, <2>6
  <1>8. \A h \in 0..n : h \in G
    <2>1. \A h \in 0..(n - 1) : h \in G => h + 1 \in G
      BY <1>7
    <2>. HIDE DEF G
    <2>. QED  BY <1>1, <1>6, <2>1, UpTo
  <1>9. \A h \in 0..n : I[h] \in 0..(Len(L[h]) - 1)
    BY <1>8
  <1>. QED  BY <1>4, <1>5, <1>9 DEF n, L, I, S, Path

\* One step up: with its sibling a node gives the one above it.
LEMMA StepUp ==
    ASSUME NEW s, IsLevel(s), NEW i \in 0..(Len(s) - 1)
    PROVE  \/ SiblingOf(s, i) = << >> /\ FoldLevel(s)[(i \div 2) + 1] = s[i + 1]
           \/ \E x : /\ SiblingOf(s, i) = <<x>>
                     /\ FoldLevel(s)[(i \div 2) + 1] = Above(x, s[i + 1])
  <1>. DEFINE n == Len(s)
              k == (i \div 2) + 1
              f == FoldLevel(s)
  <1>1. n \in Nat /\ k \in 1..((n + 1) \div 2)
    BY FoldLevelFacts
  <1>2. f[k] = IF 2 * k <= n THEN HashPair(s[2 * k - 1], s[2 * k]) ELSE s[2 * k - 1]
    BY <1>1, FoldLevelFacts
  <1>3. CASE n % 2 = 1 /\ i = n - 1
    <2>1. SiblingOf(s, i) = << >>
      BY <1>3 DEF SiblingOf
    <2>2. ~(2 * k <= n) /\ 2 * k - 1 = i + 1
      BY <1>1, <1>3
    <2>. HIDE DEF n, k, f
    <2>3. f[k] = s[i + 1]
      BY <1>2, <2>2
    <2>. QED  BY <2>1, <2>3 DEF f, k
  <1>4. CASE ~(n % 2 = 1 /\ i = n - 1) /\ i % 2 = 0
    <2>. DEFINE x == [hash |-> s[i + 2], is_left |-> FALSE]
    <2>1. SiblingOf(s, i) = <<x>>
      BY <1>4 DEF SiblingOf
    <2>2. 2 * k <= n /\ 2 * k - 1 = i + 1 /\ 2 * k = i + 2
      BY <1>1, <1>4
    <2>3. Above(x, s[i + 1]) = HashPair(s[i + 1], s[i + 2])
      BY DEF Above
    <2>. HIDE DEF n, k, f, x
    <2>4. f[k] = HashPair(s[i + 1], s[i + 2])
      BY <1>2, <2>2
    <2>. QED  BY <2>1, <2>3, <2>4 DEF f, k
  <1>5. CASE ~(n % 2 = 1 /\ i = n - 1) /\ i % 2 # 0
    <2>. DEFINE x == [hash |-> s[i], is_left |-> TRUE]
    <2>1. SiblingOf(s, i) = <<x>>
      BY <1>5 DEF SiblingOf
    <2>2. 2 * k <= n /\ 2 * k - 1 = i /\ 2 * k = i + 1
      BY <1>1, <1>5
    <2>3. Above(x, s[i + 1]) = HashPair(s[i], s[i + 1])
      BY DEF Above
    <2>. HIDE DEF n, k, f, x
    <2>4. f[k] = HashPair(s[i], s[i + 1])
      BY <1>2, <2>2
    <2>. QED  BY <2>1, <2>3, <2>4 DEF f, k
  <1>. QED  BY <1>3, <1>4, <1>5

\* Every leaf is provable at its index.
LEMMA TreeProves ==
    ASSUME NEW leaves, IsLevel(leaves), NEW index \in 0..(Len(leaves) - 1)
    PROVE  VerifyProof(GenerateProof(leaves, index),
                       CommitRoot(Len(leaves), FoldToRoot(leaves)))
  <1>0. Path(leaves, index)
    BY PathFacts
  <1>. DEFINE n == Len(leaves)
              L == Levels(leaves)
              I == Indices(leaves, index)
              S == Siblings(leaves, index)
              top == Folds(leaves)
              steps == S[top]
              C == Climbs(leaves[index + 1], steps)
              T == {SiblingOf(L[h], I[h])[1] : h \in 0..n}
              Typed == {h \in 0..n : S[h] \in Seq(T)}
              Begins(h) == /\ Len(S[h]) <= Len(steps)
                           /\ \A j \in 1..Len(S[h]) : steps[j] = S[h][j]
              Prefix == {j \in 0..top : Begins(top - j)}
              Climbed == {h \in 0..top : C[Len(S[h])] = L[h][I[h] + 1]}
  <1>1. /\ n \in Nat /\ n > 0 /\ L[0] = leaves
        /\ \A h \in 1..n : L[h] = FoldLevel(L[h - 1])
        /\ \A h \in 0..n : IsLevel(L[h])
    <2>1. /\ n \in Nat /\ L[0] = leaves
          /\ \A h \in 1..n : L[h] = FoldLevel(L[h - 1])
          /\ \A h \in 0..n : IsLevel(L[h])
      BY LevelsFacts
    <2>2. n > 0
      BY <2>1
    <2>. QED  BY <2>1, <2>2
  <1>2. I[0] = index /\ S[0] = << >>
    BY PathFacts
  <1>3. /\ \A h \in 1..n : I[h] = I[h - 1] \div 2
        /\ \A h \in 0..n : I[h] \in 0..(Len(L[h]) - 1)
        /\ \A h \in 1..n : S[h] = S[h - 1] \o SiblingOf(L[h - 1], I[h - 1])
    BY <1>0, Zenon DEF Path
  <1>4. top \in 0..n /\ Len(L[top]) = 1 /\ FoldToRoot(leaves) = L[top][1]
    BY <1>1, FoldsExist DEF FoldToRoot
  <1>5. Len(steps) \in Nat => /\ C[0] = leaves[index + 1]
                              /\ \A j \in 1..Len(steps) : C[j] = Above(steps[j], C[j - 1])
    BY ClimbsFacts
  <1>6. VerifyProof(GenerateProof(leaves, index), CommitRoot(n, FoldToRoot(leaves)))
          <=> CommitRoot(n, C[Len(steps)]) = CommitRoot(n, FoldToRoot(leaves))
    BY DEF VerifyProof, GenerateProof
  <1>. HIDE DEF n, L, I, S, top, C
  <1>7. ASSUME NEW h \in 0..n
        PROVE  \/ SiblingOf(L[h], I[h]) = << >>
                    /\ FoldLevel(L[h])[(I[h] \div 2) + 1] = L[h][I[h] + 1]
               \/ \E x \in T : /\ SiblingOf(L[h], I[h]) = <<x>>
                               /\ FoldLevel(L[h])[(I[h] \div 2) + 1] = Above(x, L[h][I[h] + 1])
    <2>1. IsLevel(L[h]) /\ I[h] \in 0..(Len(L[h]) - 1)
      BY <1>1, <1>3
    <2>2. ASSUME NEW x, SiblingOf(L[h], I[h]) = <<x>> PROVE x \in T
      <3>1. x = SiblingOf(L[h], I[h])[1]
        BY <2>2
      <3>. QED  BY <3>1
    <2>. HIDE DEF T
    <2>. QED  BY <2>1, <2>2, StepUp
  <1>8. ASSUME NEW h \in 1..n PROVE h - 1 \in 0..n /\ h \in Nat
    BY <1>1
  <1>. HIDE DEF T
  <1>9. \A h \in 0..n : h \in Typed
    <2>1. 0 \in Typed
      <3>1. << >> \in Seq(T) /\ 0 \in 0..n
        BY <1>1, EmptySeq
      <3>. QED  BY <1>2, <3>1
    <2>2. ASSUME NEW h \in 0..(n - 1), h \in Typed PROVE h + 1 \in Typed
      <3>1. h \in 0..n /\ h + 1 \in 1..n /\ h + 1 \in 0..n /\ (h + 1) - 1 = h
        BY <1>1
      <3>. DEFINE s == S[h]
                  x == SiblingOf(L[h], I[h])
      <3>2. s \in Seq(T) /\ S[h + 1] = s \o x
        BY <1>3, <2>2, <3>1
      <3>3. x \in Seq(T)
        <4>1. CASE x = << >>
          BY <4>1
        <4>2. CASE x # << >>
          <5>1. PICK y \in T : x = <<y>>
            BY <1>7, <3>1, <4>2
          <5>. HIDE DEF x
          <5>. QED  BY <5>1
        <4>. QED  BY <4>1, <4>2
      <3>. HIDE DEF s, x
      <3>4. s \o x \in Seq(T)
        BY <3>2, <3>3, ConcatProperties
      <3>. QED  BY <3>1, <3>2, <3>4
    <2>3. \A h \in 0..(n - 1) : h \in Typed => h + 1 \in Typed
      BY <2>2
    <2>. HIDE DEF Typed
    <2>. QED  BY <1>1, <2>1, <2>3, UpTo
  <1>10. ASSUME NEW h \in 0..(n - 1)
         PROVE  \/ /\ S[h + 1] = S[h]
                   /\ L[h + 1][I[h + 1] + 1] = L[h][I[h] + 1]
                \/ \E x : /\ Len(S[h + 1]) = Len(S[h]) + 1
                          /\ \A j \in 1..Len(S[h]) : S[h + 1][j] = S[h][j]
                          /\ S[h + 1][Len(S[h]) + 1] = x
                          /\ L[h + 1][I[h + 1] + 1] = Above(x, L[h][I[h] + 1])
    <2>1. h \in 0..n /\ h + 1 \in 1..n /\ (h + 1) - 1 = h
      BY <1>1
    <2>2. /\ S[h + 1] = S[h] \o SiblingOf(L[h], I[h]) /\ S[h] \in Seq(T)
          /\ L[h + 1] = FoldLevel(L[h]) /\ I[h + 1] = I[h] \div 2
      BY <1>1, <1>3, <1>9, <2>1
    <2>. DEFINE s == S[h]
    <2>3. CASE /\ SiblingOf(L[h], I[h]) = << >>
               /\ FoldLevel(L[h])[(I[h] \div 2) + 1] = L[h][I[h] + 1]
      <3>1. s \o << >> = s
        <4>1. s \in Seq(T)
          BY <2>2
        <4>. HIDE DEF s
        <4>. QED  BY <4>1, ConcatEmptySeq
      <3>. QED  BY <2>2, <2>3, <3>1
    <2>4. CASE \E x \in T : /\ SiblingOf(L[h], I[h]) = <<x>>
                            /\ FoldLevel(L[h])[(I[h] \div 2) + 1] = Above(x, L[h][I[h] + 1])
      <3>1. PICK x \in T : /\ SiblingOf(L[h], I[h]) = <<x>>
                           /\ FoldLevel(L[h])[(I[h] \div 2) + 1] = Above(x, L[h][I[h] + 1])
        BY <2>4
      <3>. DEFINE t == s \o <<x>>
      <3>2. Len(t) = Len(s) + 1 /\ (\A j \in 1..Len(s) : t[j] = s[j]) /\ t[Len(s) + 1] = x
        <4>1. s \in Seq(T) /\ <<x>> \in Seq(T) /\ Len(<<x>>) = 1 /\ (<<x>>)[1] = x
          BY <2>2
        <4>. HIDE DEF s
        <4>2. Len(s) \in Nat
          BY <4>1, LenProperties
        <4>. QED  BY <4>1, <4>2, ConcatProperties
      <3>3. S[h + 1] = t
        BY <2>2, <3>1
      <3>4. L[h + 1][I[h + 1] + 1] = Above(x, L[h][I[h] + 1])
        BY <2>2, <3>1
      <3>. HIDE DEF t
      <3>. QED  BY <3>2, <3>3, <3>4
    <2>. QED  BY <1>7, <2>1, <2>3, <2>4
  <1>11. \A h \in 0..n : Len(S[h]) \in Nat
    BY <1>9, LenProperties
  <1>12. \A j \in 0..top : j \in Prefix
    <2>1. top \in Nat
      BY <1>1, <1>4
    <2>2. 0 \in Prefix
      <3>1. Begins(top)
        BY <1>4, <1>11
      <3>2. top - 0 = top
        BY <2>1
      <3>. HIDE DEF Begins
      <3>. QED  BY <2>1, <3>1, <3>2
    <2>3. ASSUME NEW j \in 0..(top - 1), j \in Prefix PROVE j + 1 \in Prefix
      <3>. DEFINE h == top - (j + 1)
      <3>1. h \in 0..(n - 1) /\ h + 1 = top - j /\ j + 1 \in 0..top /\ h \in 0..n
        BY <1>1, <1>4, <2>1
      <3>2. Begins(h + 1)
        BY <2>3, <3>1
      <3>3. Len(S[h]) \in Nat /\ Len(steps) \in Nat
        BY <1>4, <1>11, <3>1
      <3>. HIDE DEF h
      <3>4. /\ Len(S[h]) <= Len(S[h + 1])
            /\ \A i \in 1..Len(S[h]) : S[h + 1][i] = S[h][i]
            /\ Len(S[h + 1]) \in Nat
        <4>1. CASE S[h + 1] = S[h]
          BY <3>3, <4>1
        <4>2. CASE S[h + 1] # S[h]
          <5>1. /\ Len(S[h + 1]) = Len(S[h]) + 1
                /\ \A i \in 1..Len(S[h]) : S[h + 1][i] = S[h][i]
            BY <1>10, <3>1, <4>2
          <5>. QED  BY <3>3, <5>1
        <4>. QED  BY <4>1, <4>2
      <3>5. Begins(h)
        BY <3>2, <3>3, <3>4
      <3>. HIDE DEF Begins
      <3>. QED  BY <3>1, <3>5 DEF h
    <2>4. \A j \in 0..(top - 1) : j \in Prefix => j + 1 \in Prefix
      BY <2>3
    <2>. HIDE DEF Prefix
    <2>. QED  BY <2>1, <2>2, <2>4, UpTo
  <1>13. ASSUME NEW h \in 0..top PROVE Begins(h)
    <2>1. top - h \in 0..top /\ top - (top - h) = h
      BY <1>1, <1>4
    <2>2. top - h \in Prefix
      BY <1>12, <2>1
    <2>. HIDE DEF Begins
    <2>. QED  BY <2>1, <2>2
  <1>14. \A h \in 0..top : h \in Climbed
    <2>1. Len(steps) \in Nat /\ top \in Nat
      BY <1>1, <1>4, <1>11
    <2>2. 0 \in Climbed
      <3>1. Len(S[0]) = 0
        BY <1>2
      <3>. QED  BY <1>1, <1>2, <1>5, <2>1, <3>1
    <2>3. ASSUME NEW h \in 0..(top - 1), h \in Climbed PROVE h + 1 \in Climbed
      <3>1. h \in 0..(n - 1) /\ h \in 0..n /\ h + 1 \in 0..top /\ h + 1 \in 0..n
        BY <1>1, <1>4
      <3>2. C[Len(S[h])] = L[h][I[h] + 1]
        BY <2>3
      <3>3. CASE S[h + 1] = S[h] /\ L[h + 1][I[h + 1] + 1] = L[h][I[h] + 1]
        BY <3>1, <3>2, <3>3
      <3>4. ASSUME NEW x,
                   Len(S[h + 1]) = Len(S[h]) + 1,
                   S[h + 1][Len(S[h]) + 1] = x,
                   L[h + 1][I[h + 1] + 1] = Above(x, L[h][I[h] + 1])
            PROVE  h + 1 \in Climbed
        <4>. DEFINE i == Len(S[h + 1])
        <4>1. Len(S[h]) \in Nat /\ Begins(h + 1)
          BY <1>11, <1>13, <3>1
        <4>2. i \in 1..Len(S[h + 1]) /\ i \in 1..Len(steps) /\ i - 1 = Len(S[h])
          BY <2>1, <3>4, <4>1
        <4>3. steps[i] = x
          BY <3>4, <4>1, <4>2
        <4>4. C[i] = Above(steps[i], C[i - 1])
          BY <1>5, <2>1, <4>2
        <4>5. C[i] = L[h + 1][I[h + 1] + 1]
          BY <3>2, <3>4, <4>2, <4>3, <4>4
        <4>. QED  BY <3>1, <4>5
      <3>. HIDE DEF Climbed
      <3>. QED  BY <1>10, <3>1, <3>3, <3>4
    <2>4. \A h \in 0..(top - 1) : h \in Climbed => h + 1 \in Climbed
      BY <2>3
    <2>. HIDE DEF Climbed
    <2>. QED  BY <2>1, <2>2, <2>4, UpTo
  <1>15. C[Len(steps)] = L[top][1]
    <2>1. top \in 0..top /\ I[top] \in 0..(Len(L[top]) - 1)
      <3>1. I[top] \in 0..(Len(L[top]) - 1)
        BY <1>3, <1>4
      <3>2. top \in 0..top
        BY <1>1, <1>4
      <3>. QED  BY <3>1, <3>2
    <2>2. top \in Climbed
      <3>. HIDE DEF Climbed
      <3>. QED  BY <1>14, <2>1
    <2>3. I[top] = 0
      BY <1>4, <2>1
    <2>. QED  BY <2>2, <2>3
  <1>. QED  BY <1>4, <1>6, <1>15 DEF n


\* A proof made for a record of a batch is accepted with the batch's root:
\* MerkleTree::generate_proof and MerkleProof::verify agree about promoted
\* nodes and about the side a sibling is on.
THEOREM ProofsAreComplete ==
    ASSUME NEW records, Encodables(records), NEW k \in DOMAIN records
    PROVE  VerifyProof(GenerateProof(Build(records).leaf_hashes, k - 1), Build(records).root)
  <1>. DEFINE leaves == Leaves(records)
  <1>1. DOMAIN records = 1..Len(records) /\ Len(records) \in Nat
    BY LeavesFacts
  <1>2. IsLevel(leaves) /\ Len(leaves) = Len(records)
    <2>1. records # << >>
      BY <1>1
    <2>. QED  BY <2>1, LeavesFacts
  <1>3. /\ Build(records).root = CommitRoot(Len(leaves), FoldToRoot(leaves))
        /\ Build(records).leaf_hashes = leaves
    <2>1. records # << >>
      BY <1>1
    <2>. QED  BY <2>1 DEF Build
  <1>4. k - 1 \in 0..(Len(leaves) - 1)
    BY <1>1, <1>2
  <1>. HIDE DEF leaves
  <1>. QED  BY <1>2, <1>3, <1>4, TreeProves

-----------------------------------------------------------------------------
(* The chain of blocks *)

LEMMA HashIsDigest ==
    \A m : IsDigest(Hash(m))
  BY DEF IsDigest, Hash

LEMMA RootIsDigest ==
    ASSUME NEW records
    PROVE  IsDigest(Build(records).root) /\ IsDigest(Zeros)
  <1>1. IsDigest(Zeros)
    BY DEF Zeros, IsDigest
  <1>2. Build(records).root = IF records = << >> THEN Zeros
                ELSE CommitRoot(Len(Leaves(records)), FoldToRoot(Leaves(records)))
    BY DEF Build
  <1>3. \A n, d : IsDigest(CommitRoot(n, d))
    BY HashIsDigest DEF CommitRoot
  <1>. QED  BY <1>1, <1>2, <1>3

\* A chain that verify accepts.
Verified(blocks) ==
    /\ List(blocks, Len(blocks))
    /\ \A k \in 1..Len(blocks) : Batch(blocks[k].records)
    /\ VerifyBlockchain(blocks)

LEMMA VerifiedFacts ==
    ASSUME NEW blocks, Verified(blocks), NEW k \in 1..Len(blocks)
    PROVE  /\ IsDigest(blocks[k].prev_chained_root) /\ IsDigest(blocks[k].merkle_root)
           /\ blocks[k].chained_root =
                ComputeChainedRoot(blocks[k].prev_chained_root, blocks[k].merkle_root)
           /\ blocks[k].chained_root # Zeros
           /\ blocks[k].merkle_root = Build(blocks[k].records).root
           /\ blocks[k].prev_chained_root =
                IF k = 1 THEN Zeros ELSE blocks[k - 1].chained_root
           /\ blocks[k].block_number = k - 1
           /\ blocks[k].record_count = Len(blocks[k].records) % 256^Width32
           /\ Batch(blocks[k].records)
  <1>1. Len(blocks) \in Nat /\ DOMAIN blocks = 1..Len(blocks)
    BY ListFacts DEF Verified, List
  <1>2. ASSUME NEW j \in 1..Len(blocks)
        PROVE  /\ blocks[j].merkle_root = Build(blocks[j].records).root
               /\ blocks[j].chained_root =
                    ComputeChainedRoot(blocks[j].prev_chained_root, blocks[j].merkle_root)
               /\ blocks[j].record_count = Len(blocks[j].records) % 256^Width32
               /\ blocks[j].prev_chained_root =
                    IF j = 1 THEN Zeros ELSE blocks[j - 1].chained_root
               /\ blocks[j].block_number = j - 1
    BY <1>1 DEF Verified, VerifyBlockchain, VerifyBlock
  <1>3. ASSUME NEW j \in 1..Len(blocks) PROVE IsDigest(blocks[j].chained_root)
    BY <1>2, HashIsDigest DEF ComputeChainedRoot
  <1>4. IsDigest(blocks[k].merkle_root)
    BY <1>2, RootIsDigest
  <1>5. IsDigest(blocks[k].prev_chained_root)
    <2>1. CASE k = 1
      BY <1>2, <2>1, RootIsDigest
    <2>2. CASE k # 1
      <3>1. k - 1 \in 1..Len(blocks)
        BY <1>1, <2>2
      <3>. QED  BY <1>2, <1>3, <2>2, <3>1
    <2>. QED  BY <2>1, <2>2
  <1>6. blocks[k].chained_root # Zeros
    <2>. DEFINE x == blocks[k].prev_chained_root
                y == blocks[k].merkle_root
                u == x[1]
                v == y[1]
    <2>1. blocks[k].chained_root = << <<3, u, v>> >>
      BY <1>2, <1>4, <1>5, ChainedRootIs
    <2>. HIDE DEF u, v
    <2>2. << <<3, u, v>> >> # << << >> >>
      OBVIOUS
    <2>. QED  BY <2>1, <2>2 DEF Zeros
  <1>7. Batch(blocks[k].records)
    BY DEF Verified
  <1>. QED  BY <1>2, <1>4, <1>5, <1>6, <1>7

\* Two chains that verify and have the same chained root at their heads are the
\* same chain: the last root of a chain stands for all of its blocks and all of
\* their records, as the checkpoints and anchors rely on
\* (Blockchain::verify, compute_chained_root).
THEOREM HeadBindsHistory ==
    ASSUME NEW a, NEW b, Verified(a), Verified(b), Len(a) > 0, Len(b) > 0,
           a[Len(a)].chained_root = b[Len(b)].chained_root
    PROVE  /\ Len(a) = Len(b)
           /\ \A k \in 1..Len(a) :
                /\ a[k].records = b[k].records
                /\ a[k].block_number = b[k].block_number
                /\ a[k].merkle_root = b[k].merkle_root
                /\ a[k].prev_chained_root = b[k].prev_chained_root
                /\ a[k].chained_root = b[k].chained_root
                /\ a[k].record_count = b[k].record_count
  <1>. DEFINE n == Len(a)
              m == Len(b)
              G == {j \in 0..(n - 1) : j <= m - 1
                       /\ a[n - j].chained_root = b[m - j].chained_root}
  <1>1. n \in Nat /\ m \in Nat /\ n > 0 /\ m > 0
    BY DEF Verified, List
  <1>2. ASSUME NEW k \in 1..n, NEW l \in 1..m, a[k].chained_root = b[l].chained_root
        PROVE  /\ a[k].prev_chained_root = b[l].prev_chained_root
               /\ a[k].merkle_root = b[l].merkle_root
               /\ a[k].records = b[l].records
    <2>. DEFINE p == a[k].prev_chained_root
                q == b[l].prev_chained_root
                x == a[k].merkle_root
                y == b[l].merkle_root
                r == a[k].records
                s == b[l].records
    <2>1. /\ IsDigest(p) /\ IsDigest(x) /\ a[k].chained_root = ComputeChainedRoot(p, x)
          /\ x = Build(r).root /\ Batch(r)
      BY VerifiedFacts
    <2>2. /\ IsDigest(q) /\ IsDigest(y) /\ b[l].chained_root = ComputeChainedRoot(q, y)
          /\ y = Build(s).root /\ Batch(s)
      BY VerifiedFacts
    <2>3. ComputeChainedRoot(p, x) = ComputeChainedRoot(q, y)
      BY <1>2, <2>1, <2>2
    <2>. HIDE DEF p, q, x, y, r, s
    <2>4. p = q /\ x = y
      <3>1. IsDigest(p) /\ IsDigest(x) /\ IsDigest(q) /\ IsDigest(y)
        BY <2>1, <2>2
      <3>2. ComputeChainedRoot(p, x) = ComputeChainedRoot(q, y) => p = q /\ x = y
        BY <3>1, PairsBind, Zenon
      <3>. QED  BY <2>3, <3>2
    <2>5. r = s
      BY <2>1, <2>2, <2>4, RootsBind
    <2>. QED  BY <2>4, <2>5 DEF p, q, x, y, r, s
  <1>3. ASSUME NEW k \in 1..n
        PROVE  /\ a[k].prev_chained_root = IF k = 1 THEN Zeros ELSE a[k - 1].chained_root
               /\ a[k].chained_root # Zeros /\ a[k].block_number = k - 1
               /\ a[k].record_count = Len(a[k].records) % 256^Width32
    BY VerifiedFacts
  <1>4. ASSUME NEW k \in 1..m
        PROVE  /\ b[k].prev_chained_root = IF k = 1 THEN Zeros ELSE b[k - 1].chained_root
               /\ b[k].chained_root # Zeros /\ b[k].block_number = k - 1
               /\ b[k].record_count = Len(b[k].records) % 256^Width32
    BY VerifiedFacts
  <1>5. a[n].chained_root = b[m].chained_root
    OBVIOUS
  <1>. HIDE DEF n, m
  <1>6. \A j \in 0..(n - 1) : j \in G
    <2>1. 0 \in G
      <3>1. n - 0 = n /\ m - 0 = m /\ 0 \in 0..(n - 1) /\ 0 <= m - 1
        BY <1>1
      <3>. QED  BY <1>5, <3>1
    <2>2. ASSUME NEW j \in 0..((n - 1) - 1), j \in G PROVE j + 1 \in G
      <3>. DEFINE k == n - j
                  l == m - j
      <3>1. k \in 1..n /\ l \in 1..m /\ k # 1 /\ k - 1 \in 1..n
        BY <1>1, <2>2
      <3>2. a[k].prev_chained_root = b[l].prev_chained_root
        BY <1>2, <2>2, <3>1
      <3>3. a[k].prev_chained_root = a[k - 1].chained_root /\ a[k - 1].chained_root # Zeros
        BY <1>3, <3>1
      <3>4. l # 1
        BY <1>4, <3>1, <3>2, <3>3
      <3>5. b[l].prev_chained_root = b[l - 1].chained_root
        BY <1>4, <3>1, <3>4
      <3>6. /\ j + 1 \in 0..(n - 1) /\ j + 1 <= m - 1
            /\ n - (j + 1) = k - 1 /\ m - (j + 1) = l - 1
        BY <1>1, <3>1, <3>4
      <3>7. a[n - (j + 1)].chained_root = b[m - (j + 1)].chained_root
        BY <3>2, <3>3, <3>5, <3>6
      <3>. QED  BY <3>6, <3>7
    <2>3. n - 1 \in Nat
      BY <1>1
    <2>4. \A j \in 0..((n - 1) - 1) : j \in G => j + 1 \in G
      BY <2>2
    <2>. HIDE DEF G
    <2>. QED  BY <2>1, <2>3, <2>4, UpTo
  <1>7. n = m
    <2>1. n - 1 \in 0..(n - 1) /\ n - (n - 1) = 1
      BY <1>1
    <2>2. n - 1 <= m - 1 /\ a[1].chained_root = b[m - (n - 1)].chained_root
      BY <1>6, <2>1
    <2>. DEFINE l == m - (n - 1)
    <2>3. l \in 1..m /\ 1 \in 1..n
      BY <1>1, <2>2
    <2>4. a[1].prev_chained_root = b[l].prev_chained_root
      BY <1>2, <2>2, <2>3
    <2>5. l = 1
      <3>1. CASE l # 1
        <4>1. b[l].prev_chained_root = b[l - 1].chained_root
          BY <1>4, <2>3, <3>1
        <4>2. l - 1 \in 1..m
          BY <1>1, <2>3, <3>1
        <4>. QED  BY <1>3, <1>4, <2>3, <2>4, <4>1, <4>2
      <3>. QED  BY <3>1
    <2>. QED  BY <1>1, <2>5
  <1>8. ASSUME NEW k \in 1..n PROVE a[k].chained_root = b[k].chained_root
    <2>1. n - k \in 0..(n - 1) /\ n - (n - k) = k
      BY <1>1
    <2>. QED  BY <1>6, <1>7, <2>1
  <1>9. ASSUME NEW k \in 1..n
        PROVE  /\ a[k].records = b[k].records
               /\ a[k].block_number = b[k].block_number
               /\ a[k].merkle_root = b[k].merkle_root
               /\ a[k].prev_chained_root = b[k].prev_chained_root
               /\ a[k].chained_root = b[k].chained_root
               /\ a[k].record_count = b[k].record_count
    <2>1. k \in 1..m /\ a[k].chained_root = b[k].chained_root
      BY <1>7, <1>8
    <2>2. /\ a[k].prev_chained_root = b[k].prev_chained_root
          /\ a[k].merkle_root = b[k].merkle_root
          /\ a[k].records = b[k].records
      BY <1>2, <2>1
    <2>3. a[k].block_number = b[k].block_number
      BY <1>3, <1>4, <2>1
    <2>4. a[k].record_count = b[k].record_count
      BY <1>3, <1>4, <2>1, <2>2
    <2>. QED  BY <2>1, <2>2, <2>3, <2>4
  <1>. QED  BY <1>7, <1>9 DEF n, m

-----------------------------------------------------------------------------
(* The blocks of a batch *)

Longer(t, s, n, e) ==
    List(t, n + 1) /\ (\A k \in 1..n : t[k] = s[k]) /\ t[n + 1] = e

LEMMA AppendList ==
    ASSUME NEW s, NEW n, NEW e, List(s, n)
    PROVE  Longer(Append(s, e), s, n, e)
  <1>. DEFINE S == {s[k] : k \in 1..n} \cup {e}
              t == Append(s, e)
  <1>1. n \in Nat /\ Len(s) = n /\ \A k \in 1..n : s[k] \in S
    BY ListFacts DEF List
  <1>2. e \in S
    OBVIOUS
  <1>. HIDE DEF S
  <1>3. s \in Seq(S)
    BY <1>1, ListFacts
  <1>4. /\ t \in Seq(S) /\ Len(t) = n + 1
        /\ \A k \in 1..n : t[k] = s[k]
        /\ t[n + 1] = e
    BY <1>1, <1>2, <1>3, AppendProperties
  <1>. HIDE DEF t
  <1>5. List(t, n + 1)
    BY <1>4, SeqIsList
  <1>. QED  BY <1>4, <1>5 DEF t, Longer

\* Block j of some records holds as many of them, from where block j - 1 ends,
\* and is linked to it.
Holds(records, blocks, j, count) ==
    /\ VerifyBlock(blocks[j])
    /\ blocks[j].prev_chained_root = (IF j = 1 THEN Zeros ELSE blocks[j - 1].chained_root)
    /\ blocks[j].block_number = j - 1
    /\ List(blocks[j].records, count)
    /\ \A i \in 1..count : blocks[j].records[i] = records[(j - 1) * BatchSize + i]

\* The chain after k records, of which the last ones are not in a block yet.
Growing(records, c, k) ==
    /\ c = [number |-> c.number, latest |-> c.latest,
            accumulated |-> c.accumulated, blocks |-> c.blocks]
    /\ List(c.blocks, c.number)
    /\ c.latest = (IF c.number = 0 THEN Zeros ELSE c.blocks[c.number].chained_root)
    /\ List(c.accumulated, k - c.number * BatchSize)
    /\ \A i \in 1..(k - c.number * BatchSize) :
         c.accumulated[i] = records[c.number * BatchSize + i]
    /\ \A j \in 1..c.number : Holds(records, c.blocks, j, BatchSize)

\* A block is closed over what was accumulated.
LEMMA BlockIsClosed ==
    ASSUME NEW records, NEW c, NEW k \in Nat, Growing(records, c, k)
    PROVE  /\ CreateBlock(c) = [number |-> CreateBlock(c).number,
                                latest |-> CreateBlock(c).latest,
                                accumulated |-> CreateBlock(c).accumulated,
                                blocks |-> CreateBlock(c).blocks]
           /\ CreateBlock(c).number = c.number + 1
           /\ CreateBlock(c).accumulated = << >>
           /\ List(CreateBlock(c).blocks, c.number + 1)
           /\ CreateBlock(c).latest = CreateBlock(c).blocks[c.number + 1].chained_root
           /\ \A j \in 1..c.number : Holds(records, CreateBlock(c).blocks, j, BatchSize)
           /\ Holds(records, CreateBlock(c).blocks, c.number + 1,
                    k - c.number * BatchSize)
  <1>. DEFINE m == c.number
              q == k - m * BatchSize
              b == NewBlock(m, c.latest, c.accumulated)
              d == CreateBlock(c)
              s == Append(c.blocks, b)
  <1>1. d = [number |-> m + 1, latest |-> b.chained_root,
             accumulated |-> << >>, blocks |-> s]
    BY DEF CreateBlock
  <1>2. /\ m \in Nat /\ List(c.blocks, m) /\ List(c.accumulated, q)
        /\ c.latest = (IF m = 0 THEN Zeros ELSE c.blocks[m].chained_root)
        /\ \A i \in 1..q : c.accumulated[i] = records[m * BatchSize + i]
        /\ \A j \in 1..m : Holds(records, c.blocks, j, BatchSize)
    BY DEF Growing, List
  <1>3. /\ List(s, m + 1) /\ \A j \in 1..m : s[j] = c.blocks[j]
        /\ s[m + 1] = b
    <2>. DEFINE u == c.blocks
    <2>1. List(u, m) /\ s = Append(u, b)
      BY <1>2
    <2>. HIDE DEF b, m, s, u
    <2>2. Longer(Append(u, b), u, m, b)
      BY <2>1, AppendList
    <2>. QED  BY <2>1, <2>2 DEF u, Longer
  <1>4. /\ b.block_number = m /\ b.records = c.accumulated
        /\ b.prev_chained_root = c.latest
        /\ VerifyBlock(b)
    BY DEF NewBlock, VerifyBlock
  <1>. HIDE DEF m, q, b, d, s
  <1>5. /\ d = [number |-> d.number, latest |-> d.latest,
                accumulated |-> d.accumulated, blocks |-> d.blocks]
        /\ d.number = m + 1 /\ d.accumulated = << >> /\ d.blocks = s
        /\ d.latest = b.chained_root
    BY <1>1
  <1>6. d.latest = s[m + 1].chained_root
    BY <1>3, <1>5
  <1>7. ASSUME NEW j \in 1..m PROVE Holds(records, s, j, BatchSize)
    <2>1. Holds(records, c.blocks, j, BatchSize)
      BY <1>2
    <2>2. s[j] = c.blocks[j] /\ (j # 1 => s[j - 1] = c.blocks[j - 1])
      <3>1. j # 1 => j - 1 \in 1..m
        BY <1>2
      <3>. QED  BY <1>3, <3>1
    <2>. QED  BY <2>1, <2>2 DEF Holds
  <1>8. Holds(records, s, m + 1, q)
    <2>1. (m + 1) - 1 = m /\ (m + 1 = 1 <=> m = 0)
      BY <1>2
    <2>2. s[m + 1].prev_chained_root
            = (IF m + 1 = 1 THEN Zeros ELSE s[(m + 1) - 1].chained_root)
      <3>1. CASE m = 0
        BY <1>2, <1>3, <1>4, <2>1, <3>1
      <3>2. CASE m # 0
        <4>1. m \in 1..m
          BY <1>2, <3>2
        <4>. QED  BY <1>2, <1>3, <1>4, <2>1, <3>2, <4>1
      <3>. QED  BY <3>1, <3>2
    <2>. QED  BY <1>2, <1>3, <1>4, <2>1, <2>2 DEF Holds
  <1>. QED  BY <1>3, <1>5, <1>6, <1>7, <1>8 DEF m, q, d

LEMMA RecordIsAdded ==
    ASSUME NEW records, NEW c, NEW k \in Nat, Growing(records, c, k),
           k - c.number * BatchSize < BatchSize
    PROVE  /\ Growing(records, AddRecord(c, records[k + 1]), k + 1)
           /\ (k + 1) - AddRecord(c, records[k + 1]).number * BatchSize < BatchSize
  <1>. DEFINE e == records[k + 1]
              m == c.number
              q == k - m * BatchSize
              a == Append(c.accumulated, e)
              with == [number |-> m, latest |-> c.latest, accumulated |-> a,
                       blocks |-> c.blocks]
  <1>1. /\ m \in Nat /\ List(c.blocks, m) /\ List(c.accumulated, q) /\ q \in Nat
        /\ c.latest = (IF m = 0 THEN Zeros ELSE c.blocks[m].chained_root)
        /\ \A i \in 1..q : c.accumulated[i] = records[m * BatchSize + i]
        /\ \A j \in 1..m : Holds(records, c.blocks, j, BatchSize)
    BY DEF Growing, List
  <1>2. [c EXCEPT !.accumulated = Append(@, e)] = with
    <2>1. PICK x, y, z, w :
            c = [number |-> x, latest |-> y, accumulated |-> z, blocks |-> w]
      BY DEF Growing
    <2>. DEFINE v == Append(c.accumulated, e)
    <2>2. /\ c.number = x /\ c.latest = y /\ c.blocks = w
      BY <2>1
    <2>3. [c EXCEPT !.accumulated = v] =
            [number |-> x, latest |-> y, accumulated |-> v, blocks |-> w]
      <3>. HIDE DEF v
      <3>. QED  BY <2>1
    <2>. QED  BY <2>2, <2>3
  <1>3. AddRecord(c, e) = IF Len(with.accumulated) >= BatchSize THEN CreateBlock(with) ELSE with
    BY <1>2 DEF AddRecord
  <1>4. BatchSize \in Nat \ {0} /\ m * BatchSize \in Nat
    BY <1>1, CommitmentsAssumption
  <1>5. (k + 1) - m * BatchSize = q + 1 /\ m * BatchSize + (q + 1) = k + 1
    BY <1>4
  <1>6. /\ List(a, q + 1) /\ \A i \in 1..q : a[i] = c.accumulated[i]
        /\ a[q + 1] = e
    <2>. DEFINE u == c.accumulated
    <2>1. List(u, q) /\ a = Append(u, e)
      BY <1>1
    <2>. HIDE DEF a, e, q, u
    <2>2. Longer(Append(u, e), u, q, e)
      BY <2>1, AppendList
    <2>. QED  BY <2>1, <2>2 DEF u, Longer
  <1>7. /\ with.number = m /\ with.latest = c.latest /\ with.accumulated = a
        /\ with.blocks = c.blocks
        /\ with = [number |-> with.number, latest |-> with.latest,
                   accumulated |-> with.accumulated, blocks |-> with.blocks]
    OBVIOUS
  <1>8. q < BatchSize
    OBVIOUS
  <1>. HIDE DEF m, q, a, with
  <1>9. Growing(records, with, k + 1)
    <2>1. ASSUME NEW i \in 1..(q + 1) PROVE a[i] = records[m * BatchSize + i]
      <3>1. CASE i = q + 1
        BY <1>5, <1>6, <3>1
      <3>2. CASE i # q + 1
        <4>1. i \in 1..q
          BY <1>1, <3>2
        <4>. QED  BY <1>1, <1>6, <4>1
      <3>. QED  BY <3>1, <3>2
    <2>. QED  BY <1>1, <1>5, <1>6, <1>7, <2>1 DEF Growing
  <1>10. Len(with.accumulated) = q + 1
    BY <1>6, <1>7, ListFacts
  <1>11. CASE q + 1 >= BatchSize
    <2>. DEFINE d == CreateBlock(with)
    <2>1. AddRecord(c, e) = d
      BY <1>3, <1>10, <1>11
    <2>2. q + 1 = BatchSize /\ (k + 1) - with.number * BatchSize = BatchSize
      BY <1>1, <1>4, <1>5, <1>7, <1>8, <1>11
    <2>3. /\ d = [number |-> d.number, latest |-> d.latest,
                  accumulated |-> d.accumulated, blocks |-> d.blocks]
          /\ d.number = m + 1 /\ d.accumulated = << >>
          /\ List(d.blocks, m + 1)
          /\ d.latest = d.blocks[m + 1].chained_root
          /\ \A j \in 1..m : Holds(records, d.blocks, j, BatchSize)
          /\ Holds(records, d.blocks, m + 1, (k + 1) - with.number * BatchSize)
      BY <1>7, <1>9, BlockIsClosed
    <2>4. (m + 1) * BatchSize = m * BatchSize + BatchSize
      BY <1>1, <1>4
    <2>5. (k + 1) - (m + 1) * BatchSize = 0
      BY <1>4, <1>5, <2>2, <2>4
    <2>6. List(<< >>, 0)
      BY EmptySeq, SeqIsList
    <2>7. \A j \in 1..(m + 1) : Holds(records, d.blocks, j, BatchSize)
      <3>1. \A j \in 1..(m + 1) : j \in 1..m \/ j = m + 1
        BY <1>1
      <3>. HIDE DEF d
      <3>. QED  BY <2>2, <2>3, <3>1
    <2>. HIDE DEF d
    <2>8. /\ d.latest = (IF d.number = 0 THEN Zeros ELSE d.blocks[d.number].chained_root)
      BY <1>1, <2>3
    <2>9. Growing(records, d, k + 1)
      BY <2>3, <2>5, <2>6, <2>7, <2>8 DEF Growing
    <2>10. (k + 1) - d.number * BatchSize < BatchSize
      BY <1>4, <2>3, <2>5
    <2>. QED  BY <2>1, <2>9, <2>10
  <1>12. CASE ~(q + 1 >= BatchSize)
    <2>1. AddRecord(c, e) = with
      BY <1>3, <1>10, <1>12
    <2>2. (k + 1) - with.number * BatchSize < BatchSize
      BY <1>1, <1>4, <1>5, <1>7, <1>12
    <2>. QED  BY <1>9, <2>1, <2>2
  <1>. QED  BY <1>11, <1>12

LEMMA ChainsGrow ==
    ASSUME NEW records, Len(records) \in Nat
    PROVE  LET c == Chains(records)[Len(records)]
           IN  /\ Growing(records, c, Len(records))
               /\ Len(records) - c.number * BatchSize < BatchSize
  <1>. DEFINE n == Len(records)
              C == Chains(records)
              Done(c, k) == Growing(records, c, k) /\ k - c.number * BatchSize < BatchSize
              G == {k \in 0..n : Done(C[k], k)}
  <1>1. n \in Nat /\ C = [k \in 0..n |-> IF k = 0 THEN EmptyBlockchain
                                         ELSE AddRecord(C[k - 1], records[k])]
    BY ChainsValues
  <1>2. Done(EmptyBlockchain, 0)
    <2>. DEFINE c == EmptyBlockchain
    <2>1. /\ c = [number |-> 0, latest |-> Zeros, accumulated |-> << >>, blocks |-> << >>]
          /\ c.number = 0 /\ c.latest = Zeros /\ c.accumulated = << >> /\ c.blocks = << >>
      BY DEF EmptyBlockchain
    <2>2. BatchSize \in Nat \ {0} /\ 0 - 0 * BatchSize = 0
      BY CommitmentsAssumption
    <2>3. List(<< >>, 0)
      BY EmptySeq, SeqIsList
    <2>. HIDE DEF c
    <2>4. 0 - c.number * BatchSize = 0
      BY <2>1, <2>2
    <2>5. c = [number |-> c.number, latest |-> c.latest,
               accumulated |-> c.accumulated, blocks |-> c.blocks]
      BY <2>1
    <2>6. 1..0 = {}
      OBVIOUS
    <2>7. Growing(records, c, 0)
      <3>1. /\ List(c.blocks, c.number)
            /\ c.latest = (IF c.number = 0 THEN Zeros ELSE c.blocks[c.number].chained_root)
            /\ List(c.accumulated, 0 - c.number * BatchSize)
        BY <2>1, <2>3, <2>4
      <3>2. \A i \in 1..(0 - c.number * BatchSize) :
              c.accumulated[i] = records[c.number * BatchSize + i]
        BY <2>4, <2>6
      <3>3. \A j \in 1..c.number : Holds(records, c.blocks, j, BatchSize)
        BY <2>1, <2>6
      <3>. QED  BY <2>5, <3>1, <3>2, <3>3 DEF Growing
    <2>8. 0 - c.number * BatchSize < BatchSize
      BY <2>2, <2>4
    <2>. QED  BY <2>7, <2>8 DEF c
  <1>3. ASSUME NEW c, NEW k \in Nat, Done(c, k)
        PROVE  Done(AddRecord(c, records[k + 1]), k + 1)
    BY <1>3, RecordIsAdded
  <1>. HIDE DEF n, C, Done
  <1>4. 0 \in G
    <2>1. C[0] = EmptyBlockchain /\ 0 \in 0..n
      BY <1>1
    <2>. QED  BY <1>2, <2>1
  <1>5. ASSUME NEW k \in 0..(n - 1), k \in G PROVE k + 1 \in G
    <2>1. k \in Nat /\ k + 1 \in 0..n /\ (k + 1) - 1 = k /\ k + 1 # 0
      BY <1>1
    <2>2. C[k + 1] = AddRecord(C[k], records[k + 1])
      BY <1>1, <2>1
    <2>3. Done(C[k + 1], k + 1)
      BY <1>3, <1>5, <2>1, <2>2
    <2>. QED  BY <2>1, <2>3
  <1>6. \A k \in 0..(n - 1) : k \in G => k + 1 \in G
    BY <1>5
  <1>7. \A k \in 0..n : k \in G
    <2>. HIDE DEF G
    <2>. QED  BY <1>1, <1>4, <1>6, UpTo
  <1>8. n \in 0..n
    BY <1>1
  <1>9. Done(C[n], n)
    BY <1>7, <1>8
  <1>. QED  BY <1>9 DEF Done, C, n

\* How many records block j of n records holds.
Share(n, j) == IF j * BatchSize <= n THEN BatchSize ELSE n - (j - 1) * BatchSize

\* The blocks of some records.
Filled(records, blocks) ==
    /\ List(blocks, Len(blocks))
    /\ Len(records) <= Len(blocks) * BatchSize
    /\ \A j \in 1..Len(blocks) : Holds(records, blocks, j, Share(Len(records), j))

LEMMA BlocksAreFilled ==
    ASSUME NEW records, Len(records) \in Nat
    PROVE  Filled(records, Blocks(records))
  <1>. DEFINE n == Len(records)
              c == Chains(records)[n]
              m == c.number
              d == CreateBlock(c)
              q == n - m * BatchSize
              blocks == Blocks(records)
  <1>1. Growing(records, c, n) /\ q < BatchSize
    BY ChainsGrow
  <1>2. blocks = (IF c.accumulated = << >> THEN c ELSE d).blocks
    BY DEF Blocks
  <1>3. n \in Nat
    OBVIOUS
  <1>. HIDE DEF n, c
  <1>4. /\ m \in Nat /\ List(c.blocks, m) /\ List(c.accumulated, q) /\ q \in Nat
        /\ \A j \in 1..m : Holds(records, c.blocks, j, BatchSize)
    BY <1>1 DEF Growing, List
  <1>5. /\ List(d.blocks, m + 1)
        /\ \A j \in 1..m : Holds(records, d.blocks, j, BatchSize)
        /\ Holds(records, d.blocks, m + 1, q)
    BY <1>1, <1>3, BlockIsClosed
  <1>6. Len(c.accumulated) = q
    BY <1>4, ListFacts
  <1>7. BatchSize \in Nat \ {0} /\ m * BatchSize \in Nat /\ q = n - m * BatchSize
        /\ (m + 1) * BatchSize = m * BatchSize + BatchSize
    BY <1>4, CommitmentsAssumption
  <1>. HIDE DEF m, d, q
  <1>8. ASSUME NEW j \in 1..m PROVE Share(n, j) = BatchSize
    <2>1. PICK i \in Nat : m = j + i
      <3>1. m - j \in Nat /\ m = j + (m - j)
        BY <1>4
      <3>. QED  BY <3>1
    <2>2. m * BatchSize = j * BatchSize + i * BatchSize /\ i * BatchSize \in Nat
          /\ j * BatchSize \in Nat
      BY <1>7, <2>1
    <2>3. j * BatchSize <= n
      BY <1>3, <1>4, <1>7, <2>2
    <2>. QED  BY <2>3 DEF Share
  <1>9. CASE c.accumulated = << >>
    <2>1. blocks = c.blocks
      BY <1>2, <1>9
    <2>2. Len(blocks) = m
      BY <1>4, <2>1, ListFacts
    <2>3. q = 0
      BY <1>6, <1>9, EmptySeq
    <2>4. n <= m * BatchSize
      BY <1>3, <1>7, <2>3
    <2>. HIDE DEF blocks
    <2>5. Filled(records, blocks)
      BY <1>4, <1>8, <2>1, <2>2, <2>4 DEF Filled, n
    <2>. QED  BY <2>5 DEF blocks
  <1>10. CASE c.accumulated # << >>
    <2>1. blocks = d.blocks
      BY <1>2, <1>10
    <2>2. Len(blocks) = m + 1
      BY <1>5, <2>1, ListFacts
    <2>3. Share(n, m + 1) = q
      <3>. DEFINE full == m * BatchSize
                  over == (m + 1) * BatchSize
      <3>1. full \in Nat /\ q = n - full /\ q < BatchSize /\ over = full + BatchSize
        BY <1>1, <1>7
      <3>. HIDE DEF full, over
      <3>2. ~(over <= n)
        BY <1>3, <1>7, <3>1
      <3>3. (m + 1) - 1 = m
        BY <1>4
      <3>. QED  BY <1>7, <3>2, <3>3 DEF Share, over
    <2>4. n <= (m + 1) * BatchSize
      BY <1>1, <1>3, <1>4, <1>7
    <2>. HIDE DEF blocks
    <2>5. ASSUME NEW j \in 1..(m + 1) PROVE Holds(records, blocks, j, Share(n, j))
      <3>1. j \in 1..m \/ j = m + 1
        BY <1>4
      <3>. QED  BY <1>5, <1>8, <2>1, <2>3, <3>1
    <2>6. Filled(records, blocks)
      BY <1>5, <2>1, <2>2, <2>4, <2>5 DEF Filled, n
    <2>. QED  BY <2>6 DEF blocks
  <1>. QED  BY <1>9, <1>10

\* A record is in the block that its index says.
LEMMA RecordIsInItsBlock ==
    ASSUME NEW records, Len(records) \in Nat, NEW k \in 1..Len(records)
    PROVE  Blocks(records)[(k - 1) \div BatchSize + 1].records[((k - 1) % BatchSize) + 1]
             = records[k]
  <1>. DEFINE n == Len(records)
              blocks == Blocks(records)
              p == (k - 1) \div BatchSize
              i == (k - 1) % BatchSize
  <1>1. n \in Nat /\ k \in 1..n /\ Filled(records, blocks)
    BY BlocksAreFilled
  <1>2. BatchSize \in Nat \ {0}
    BY CommitmentsAssumption
  <1>3. p \in Nat /\ i \in 0..(BatchSize - 1) /\ k - 1 = BatchSize * p + i
    BY <1>1, <1>2
  <1>. HIDE DEF p, i
  <1>4. /\ BatchSize * p \in Nat /\ BatchSize * p = p * BatchSize
        /\ (p + 1) * BatchSize = p * BatchSize + BatchSize
    BY <1>2, <1>3
  <1>5. /\ Len(blocks) \in Nat /\ n <= Len(blocks) * BatchSize
        /\ \A j \in 1..Len(blocks) : Holds(records, blocks, j, Share(n, j))
    BY <1>1 DEF Filled, List
  <1>. HIDE DEF n, blocks
  <1>6. p + 1 \in 1..Len(blocks)
    <2>. SUFFICES ASSUME Len(blocks) <= p PROVE FALSE
      BY <1>3, <1>5
    <2>1. PICK j \in Nat : p = Len(blocks) + j
      <3>1. p - Len(blocks) \in Nat /\ p = Len(blocks) + (p - Len(blocks))
        BY <1>3, <1>5
      <3>. QED  BY <3>1
    <2>2. p * BatchSize = Len(blocks) * BatchSize + j * BatchSize /\ j * BatchSize \in Nat
          /\ Len(blocks) * BatchSize \in Nat
      BY <1>2, <1>5, <2>1
    <2>. QED  BY <1>1, <1>3, <1>4, <1>5, <2>2
  <1>7. i + 1 \in 1..Share(n, p + 1)
    <2>1. (p + 1) - 1 = p
      BY <1>3
    <2>2. CASE (p + 1) * BatchSize <= n
      BY <1>2, <1>3, <2>2 DEF Share
    <2>3. CASE ~((p + 1) * BatchSize <= n)
      <3>1. Share(n, p + 1) = n - p * BatchSize
        BY <2>1, <2>3 DEF Share
      <3>. QED  BY <1>1, <1>2, <1>3, <1>4, <3>1
    <2>. QED  BY <2>2, <2>3
  <1>8. blocks[p + 1].records[i + 1] = records[((p + 1) - 1) * BatchSize + (i + 1)]
    BY <1>5, <1>6, <1>7 DEF Holds
  <1>9. ((p + 1) - 1) * BatchSize + (i + 1) = k
    <2>1. (p + 1) - 1 = p
      BY <1>3
    <2>. QED  BY <1>1, <1>3, <1>4, <2>1
  <1>. QED  BY <1>8, <1>9 DEF blocks, p, i

\* The blocks of a batch verify in their order only.
LEMMA BlocksVerifyInOrder ==
    ASSUME NEW records, Len(records) \in Nat
    PROVE  OnlyPrefixesVerify(Blocks(records))
  <1>. DEFINE blocks == Blocks(records)
              n == Len(blocks)
  <1>1. Filled(records, blocks)
    BY BlocksAreFilled
  <1>. HIDE DEF blocks
  <1>2. /\ n \in Nat /\ DOMAIN blocks = 1..n
        /\ \A j \in 1..n : Holds(records, blocks, j, Share(Len(records), j))
    BY <1>1, ListFacts DEF Filled, List
  <1>. HIDE DEF n
  <1>3. ASSUME NEW m \in 0..n, NEW s \in [1..m -> 1..n]
        PROVE  VerifyBlockchain([k \in DOMAIN s |-> blocks[s[k]]])
                 <=> \A k \in DOMAIN s : s[k] = k
    <2>. DEFINE t == [k \in DOMAIN s |-> blocks[s[k]]]
    <2>1. /\ DOMAIN s = 1..m /\ DOMAIN t = 1..m
          /\ \A k \in 1..m : s[k] \in 1..n /\ t[k] = blocks[s[k]]
      OBVIOUS
    <2>2. VerifyBlockchain(t) <=>
            \A k \in 1..m :
              /\ VerifyBlock(t[k])
              /\ t[k].prev_chained_root = (IF k = 1 THEN Zeros ELSE t[k - 1].chained_root)
              /\ t[k].block_number = k - 1
      BY <2>1 DEF VerifyBlockchain
    <2>. HIDE DEF t
    <2>3. ASSUME VerifyBlockchain(t), NEW k \in 1..m PROVE s[k] = k
      <3>1. t[k].block_number = k - 1 /\ t[k] = blocks[s[k]] /\ s[k] \in 1..n
        BY <2>1, <2>2, <2>3
      <3>2. blocks[s[k]].block_number = s[k] - 1
        BY <1>2, <3>1 DEF Holds
      <3>. QED  BY <1>2, <3>1, <3>2
    <2>4. ASSUME \A k \in 1..m : s[k] = k PROVE VerifyBlockchain(t)
      <3>1. \A k \in 1..m : t[k] = blocks[k] /\ k \in 1..n
        BY <2>1, <2>4
      <3>2. ASSUME NEW k \in 1..m
            PROVE  /\ VerifyBlock(t[k])
                   /\ t[k].prev_chained_root = (IF k = 1 THEN Zeros ELSE t[k - 1].chained_root)
                   /\ t[k].block_number = k - 1
        <4>1. /\ VerifyBlock(blocks[k])
              /\ blocks[k].prev_chained_root =
                   (IF k = 1 THEN Zeros ELSE blocks[k - 1].chained_root)
              /\ blocks[k].block_number = k - 1
          BY <1>2, <3>1 DEF Holds
        <4>2. k # 1 => k - 1 \in 1..m
          BY <1>2
        <4>. QED  BY <3>1, <4>1, <4>2
      <3>. QED  BY <2>2, <3>2
    <2>5. VerifyBlockchain(t) <=> \A k \in DOMAIN s : s[k] = k
      BY <2>1, <2>3, <2>4
    <2>. QED  BY <2>5 DEF t
  <1>4. BoundedSeq(1..n, n) = UNION {[1..m -> 1..n] : m \in 0..n}
    BY DEF BoundedSeq, SeqOf
  <1>5. ASSUME NEW s \in BoundedSeq(1..n, n)
        PROVE  VerifyBlockchain([k \in DOMAIN s |-> blocks[s[k]]])
                 <=> \A k \in DOMAIN s : s[k] = k
    <2>1. PICK m \in 0..n : s \in [1..m -> 1..n]
      BY <1>4
    <2>. QED  BY <1>3, <2>1, Zenon
  <1>6. OnlyPrefixesVerify(blocks)
    BY <1>2, <1>5, Zenon DEF OnlyPrefixesVerify, n
  <1>. QED  BY <1>6 DEF blocks

-----------------------------------------------------------------------------
(* The batches of every request *)

\* Records that can be encoded, each of a process of its own.
TellApart(records) ==
    /\ Encodables(records)
    /\ \A i, k \in 1..Len(records) : records[i].pid = records[k].pid => i = k

\* What CommitmentsBind says of one batch.
Bound(records) ==
    /\ \A i, k \in DOMAIN records :
         VerifyRecord(Build(records), records[i], k - 1) <=> i = k
    /\ \A k \in DOMAIN records :
         VerifyProof(GenerateProof(Build(records).leaf_hashes, k - 1), Build(records).root)
    /\ \A k \in DOMAIN records :
         Blocks(records)[(k - 1) \div BatchSize + 1].records[((k - 1) % BatchSize) + 1]
            = records[k]
    /\ OnlyPrefixesVerify(Blocks(records))

LEMMA BatchIsBound ==
    ASSUME NEW records, TellApart(records)
    PROVE  Bound(records)
  <1>. DEFINE n == Len(records)
              leaves == Leaves(records)
              tree == Build(records)
  <1>1. Encodables(records)
    BY DEF TellApart
  <1>2. /\ n \in Nat /\ Len(leaves) = n /\ DOMAIN records = 1..n
        /\ \A k \in 1..n : leaves[k] = HashLeaf(EncodeRecord(records[k]))
    BY <1>1, LeavesFacts
  <1>3. tree.leaf_hashes = leaves
    BY DEF Build
  <1>4. \A k \in 1..n : Encodable(records[k])
    BY <1>1 DEF Encodables
  <1>5. \A i, k \in 1..n : records[i].pid = records[k].pid => i = k
    BY DEF TellApart
  <1>6. ASSUME NEW i \in 1..n, NEW k \in 1..n
        PROVE  VerifyRecord(tree, records[i], k - 1) <=> i = k
    <2>. DEFINE r == records[i]
                s == records[k]
    <2>1. VerifyRecord(tree, r, k - 1) <=> HashLeaf(EncodeRecord(r)) = HashLeaf(EncodeRecord(s))
      <3>1. k - 1 < n /\ (k - 1) + 1 = k
        BY <1>2
      <3>2. VerifyRecord(tree, r, k - 1) <=>
              k - 1 < Len(tree.leaf_hashes)
                /\ HashLeaf(EncodeRecord(r)) = tree.leaf_hashes[(k - 1) + 1]
        BY DEF VerifyRecord
      <3>. HIDE DEF r, tree, leaves, n
      <3>. QED  BY <1>2, <1>3, <3>1, <3>2
    <2>2. Encodable(r) /\ Encodable(s) /\ (r.pid = s.pid => i = k) /\ (i = k => r = s)
      BY <1>4, <1>5
    <2>. HIDE DEF r, s, tree, leaves, n
    <2>3. EncodeRecord(r) \in Seq(Int) /\ EncodeRecord(s) \in Seq(Int)
      BY <2>2, FixedFacts
    <2>4. HashLeaf(EncodeRecord(r)) = HashLeaf(EncodeRecord(s)) => r.pid = s.pid
      <3>. SUFFICES ASSUME HashLeaf(EncodeRecord(r)) = HashLeaf(EncodeRecord(s))
                    PROVE  r.pid = s.pid
        OBVIOUS
      <3>1. EncodeRecord(r) = EncodeRecord(s)
        BY <2>3, LeafBinds
      <3>. QED  BY <2>2, <3>1, PidsTellApart
    <2>5. VerifyRecord(tree, r, k - 1) <=> i = k
      BY <2>1, <2>2, <2>4
    <2>. QED  BY <2>5 DEF r
  <1>7. \A k \in DOMAIN records :
          VerifyProof(GenerateProof(Build(records).leaf_hashes, k - 1), Build(records).root)
    BY <1>1, ProofsAreComplete
  <1>8. \A k \in 1..n :
          Blocks(records)[(k - 1) \div BatchSize + 1].records[((k - 1) % BatchSize) + 1]
            = records[k]
    BY <1>2, RecordIsInItsBlock
  <1>9. OnlyPrefixesVerify(Blocks(records))
    BY <1>2, BlocksVerifyInOrder
  <1>. HIDE DEF n
  <1>. QED  BY <1>2, <1>6, <1>7, <1>8, <1>9 DEF Bound

Pid(who) == IF who = Unattributed THEN 0 ELSE who

\* The charges of a request with so many processes: no two have the same pid.
Charges(ch, n) ==
    /\ DOMAIN ch \subseteq 1..(n + 1)
    /\ \A k \in DOMAIN ch : ch[k].energy \in Nat /\ ch[k].who \in -1..n
    /\ \A i, k \in DOMAIN ch : Pid(ch[i].who) = Pid(ch[k].who) => i = k

\* Some of the charges, none of them twice.
Drawn(s, ch) ==
    /\ List(s, Len(s))
    /\ \A i \in 1..Len(s) : s[i] \in {ch[k] : k \in DOMAIN ch}
    /\ \A i, k \in 1..Len(s) : s[i] = s[k] => i = k

LEMMA InOrderIsDrawn ==
    ASSUME NEW ch, Len(procs) \in Nat, Charges(ch, Len(procs))
    PROVE  Drawn(InOrder(ch), ch)
  <1>. DEFINE n == Len(procs) + 1
              P == Pushed(ch)
              To(s, m) == /\ List(s, Len(s))
                          /\ \A i \in 1..Len(s) : \E k \in DOMAIN ch : k <= m /\ s[i] = ch[k]
                          /\ \A i, k \in 1..Len(s) : s[i] = s[k] => i = k
              G == {m \in 0..n : To(P[m], m)}
  <1>1. /\ n \in Nat
        /\ P = [k \in 0..n |-> IF k = 0 THEN << >>
                  ELSE IF k \in DOMAIN ch THEN Append(P[k - 1], ch[k]) ELSE P[k - 1]]
    BY PushedValues
  <1>2. /\ \A k \in DOMAIN ch : k \in 1..n
        /\ \A i, k \in DOMAIN ch : ch[i] = ch[k] => i = k
    BY DEF Charges
  <1>. HIDE DEF n, P
  <1>3. 0 \in G
    <2>1. P[0] = << >> /\ 0 \in 0..n
      BY <1>1
    <2>2. List(<< >>, 0) /\ Len(<< >>) = 0
      BY EmptySeq, SeqIsList
    <2>. QED  BY <2>1, <2>2
  <1>4. ASSUME NEW m \in 0..(n - 1), m \in G PROVE m + 1 \in G
    <2>. DEFINE s == P[m]
                q == Len(s)
    <2>1. m + 1 \in 0..n /\ m + 1 # 0 /\ (m + 1) - 1 = m /\ m \in Nat
      BY <1>1
    <2>2. To(s, m)
      BY <1>4
    <2>3. P[m + 1] = IF m + 1 \in DOMAIN ch THEN Append(s, ch[m + 1]) ELSE s
      BY <1>1, <2>1
    <2>4. CASE m + 1 \notin DOMAIN ch
      <3>1. \A k \in DOMAIN ch : k <= m => k <= m + 1
        BY <1>2, <2>1
      <3>2. To(s, m + 1)
        <4>. HIDE DEF s
        <4>. QED  BY <2>2, <3>1
      <3>. HIDE DEF To
      <3>. QED  BY <2>1, <2>3, <2>4, <3>2
    <2>5. CASE m + 1 \in DOMAIN ch
      <3>. DEFINE e == ch[m + 1]
                  t == Append(s, e)
      <3>1. P[m + 1] = t
        BY <2>3, <2>5
      <3>2. q \in Nat /\ List(s, q)
        BY <2>2 DEF List
      <3>. HIDE DEF s, q, e
      <3>3. Longer(t, s, q, e)
        BY <3>2, AppendList
      <3>. HIDE DEF t
      <3>4. /\ List(t, q + 1) /\ Len(t) = q + 1 /\ t[q + 1] = e
            /\ \A i \in 1..q : t[i] = s[i]
        BY <3>3, ListFacts DEF Longer
      <3>5. \A i \in 1..(q + 1) : i = q + 1 \/ i \in 1..q
        BY <3>2
      <3>6. ASSUME NEW i \in 1..q PROVE \E k \in DOMAIN ch : k <= m /\ s[i] = ch[k]
        BY <2>2 DEF q
      <3>7. ASSUME NEW i \in 1..q PROVE s[i] # e
        <4>1. PICK k \in DOMAIN ch : k <= m /\ s[i] = ch[k]
          BY <3>6
        <4>2. k # m + 1
          BY <1>2, <2>1, <4>1
        <4>. QED  BY <1>2, <2>5, <4>1, <4>2 DEF e
      <3>8. ASSUME NEW i \in 1..(q + 1)
            PROVE  \E k \in DOMAIN ch : k <= m + 1 /\ t[i] = ch[k]
        <4>1. CASE i = q + 1
          <5>1. t[i] = ch[m + 1] /\ m + 1 <= m + 1
            BY <2>1, <3>4, <4>1 DEF e
          <5>. QED  BY <2>5, <5>1
        <4>2. CASE i \in 1..q
          <5>1. PICK k \in DOMAIN ch : k <= m /\ s[i] = ch[k]
            BY <3>6, <4>2
          <5>2. k <= m + 1
            BY <1>2, <2>1, <5>1
          <5>. QED  BY <3>4, <4>2, <5>1, <5>2
        <4>. QED  BY <3>5, <4>1, <4>2
      <3>9. \A i, k \in 1..q : s[i] = s[k] => i = k
        BY <2>2 DEF q
      <3>10. ASSUME NEW i \in 1..(q + 1), NEW k \in 1..(q + 1), t[i] = t[k] PROVE i = k
        BY <3>4, <3>5, <3>7, <3>9, <3>10
      <3>11. To(t, m + 1)
        BY <3>4, <3>8, <3>10
      <3>. HIDE DEF To
      <3>. QED  BY <2>1, <3>1, <3>11
    <2>. QED  BY <2>4, <2>5
  <1>5. \A m \in 0..(n - 1) : m \in G => m + 1 \in G
    BY <1>4
  <1>6. \A m \in 0..n : m \in G
    <2>. HIDE DEF G
    <2>. QED  BY <1>1, <1>3, <1>5, UpTo
  <1>7. n \in 0..n
    BY <1>1
  <1>8. To(P[n], n)
    BY <1>6, <1>7
  <1>9. InOrder(ch) = P[n]
    BY DEF InOrder, P, n
  <1>. DEFINE s == P[n]
  <1>. HIDE DEF s
  <1>10. Drawn(s, ch)
    BY <1>8 DEF Drawn, s
  <1>. QED  BY <1>9, <1>10 DEF s


\* Buckets of which no two are recorded with the same pid.
Owned(b, n) ==
    /\ DOMAIN b \subseteq 1..(n + 1)
    /\ \A k \in DOMAIN b : b[k].who \in -1..n
    /\ \A i, k \in DOMAIN b : Pid(b[i].who) = Pid(b[k].who) => i = k

LEMMA CpuBucketsOwned ==
    ASSUME NEW ws \in Seq(Nat)
    PROVE  /\ Owned(CpuBuckets(ws), Len(ws))
           /\ \A k \in DOMAIN CpuBuckets(ws) : CpuBuckets(ws)[k].who # Unattributed
  <1>. DEFINE n == Len(ws)
              own == [k \in DOMAIN ws |-> Bucket(k, ws[k])]
              e == Bucket(Nobody, 1)
              b == CpuBuckets(ws)
  <1>1. n \in Nat /\ DOMAIN ws = 1..n
    BY ProcsFacts
  <1>2. b = Append(own, e) \/ b = own
    BY DEF CpuBuckets
  <1>3. own = [k \in 1..n |-> Bucket(k, ws[k])]
    BY <1>1
  <1>4. List(own, n) /\ DOMAIN own = 1..n /\ \A k \in 1..n : own[k].who = k
    <2>1. \A k \in 1..n : own[k] = Bucket(k, ws[k])
      BY <1>3
    <2>2. own = [k \in 1..n |-> own[k]]
      BY <1>3
    <2>. HIDE DEF own
    <2>3. ASSUME NEW k \in 1..n PROVE own[k].who = k
      <3>1. own[k] = [who |-> k, weight |-> ws[k]]
        BY <2>1 DEF Bucket
      <3>. QED  BY <3>1
    <2>4. List(own, n)
      BY <1>1, <2>2 DEF List
    <2>. QED  BY <2>3, <2>4, ListFacts
  <1>5. e.who = 0
    BY DEF Bucket, Nobody
  <1>. HIDE DEF n, own, e, b
  <1>6. CASE b = own
    <2>1. \A k \in 1..n : Pid(k) = k
      BY DEF Pid, Unattributed
    <2>2. Owned(b, n)
      BY <1>1, <1>4, <1>6, <2>1 DEF Owned
    <2>3. \A k \in DOMAIN b : b[k].who # Unattributed
      BY <1>1, <1>4, <1>6 DEF Unattributed
    <2>. QED  BY <2>2, <2>3 DEF b, n
  <1>7. CASE b = Append(own, e)
    <2>1. Longer(b, own, n, e)
      BY <1>4, <1>7, AppendList
    <2>2. /\ DOMAIN b = 1..(n + 1) /\ b[n + 1].who = 0
          /\ \A k \in 1..n : b[k].who = k
      BY <1>4, <1>5, <2>1, ListFacts DEF Longer
    <2>3. Pid(0) = 0 /\ \A k \in 1..n : Pid(k) = k /\ k # 0
      BY DEF Pid, Unattributed
    <2>4. \A k \in 1..(n + 1) : k = n + 1 \/ k \in 1..n
      BY <1>1
    <2>5. \A k \in DOMAIN b : b[k].who \in -1..n
      BY <1>1, <2>2, <2>4
    <2>6. \A i, k \in DOMAIN b : Pid(b[i].who) = Pid(b[k].who) => i = k
      BY <2>2, <2>3, <2>4
    <2>7. \A k \in DOMAIN b : b[k].who # Unattributed
      BY <1>1, <2>2, <2>4 DEF Unattributed
    <2>8. Owned(b, n)
      BY <2>2, <2>5, <2>6 DEF Owned
    <2>. QED  BY <2>7, <2>8 DEF b, n
  <1>. QED  BY <1>2, <1>6, <1>7

LEMMA GpuBucketsOwned ==
    ASSUME NEW ws \in Seq(Nat), NEW d \in Nat
    PROVE  Owned(GpuBuckets(d, ws), Len(ws))
  <1>. DEFINE n == Len(ws)
              A == {k \in DOMAIN ws : d <= PerCycle /\ ws[k] > 0}
              b == GpuBuckets(d, ws)
  <1>1. n \in Nat /\ DOMAIN ws = 1..n
    BY ProcsFacts
  <1>2. CASE A = {}
    <2>1. PICK x \in {0, -1} : b = <<Bucket(x, 1)>>
      BY <1>2 DEF GpuBuckets, Nobody, Unattributed
    <2>2. DOMAIN b = {1} /\ b[1] = Bucket(x, 1)
      <3>1. DOMAIN <<Bucket(x, 1)>> = 1..1 /\ <<Bucket(x, 1)>>[1] = Bucket(x, 1)
        OBVIOUS
      <3>2. 1..1 = {1}
        OBVIOUS
      <3>. QED  BY <2>1, <3>1, <3>2
    <2>. HIDE DEF b, n
    <2>3. b[1].who = x /\ x \in -1..n
      BY <1>1, <2>2 DEF Bucket
    <2>4. DOMAIN b \subseteq 1..(n + 1)
      BY <1>1, <2>2
    <2>5. \A i, k \in DOMAIN b : i = k
      BY <2>2
    <2>6. \A k \in DOMAIN b : b[k].who \in -1..n
      BY <2>2, <2>3
    <2>. QED  BY <2>4, <2>5, <2>6 DEF Owned, b, n
  <1>3. CASE A # {}
    <2>. DEFINE Used(k) == IF ws[k] > FullUtil THEN FullUtil ELSE ws[k]
    <2>1. b = [k \in A |-> Bucket(k, Used(k))]
      BY <1>3 DEF GpuBuckets
    <2>2. \A k \in A : k \in 1..n
      BY <1>1
    <2>. HIDE DEF b, A, Used, n
    <2>3. DOMAIN b = A /\ \A k \in A : b[k].who = k
      BY <2>1 DEF Bucket
    <2>4. \A k \in A : Pid(k) = k /\ k \in -1..n /\ k \in 1..(n + 1)
      BY <1>1, <2>2 DEF Pid, Unattributed
    <2>. QED  BY <2>3, <2>4 DEF Owned, b, n
  <1>. QED  BY <1>2, <1>3

LEMMA RecordsAreCharges ==
    ASSUME NEW b, NEW n \in Nat, Owned(b, n), Weights(WeightsOf(b)), NEW d \in Nat
    PROVE  Charges(Records(d, b), n)
  <1>. DEFINE P == Served(d, b)
              sh == SharesOf(d, b)
              ch == Records(d, b)
  <1>1. /\ ch = [k \in P |-> Charge(b[k].who, sh[k])]
        /\ \A k \in DOMAIN b : sh[k] \in Nat
    BY RecordsFacts
  <1>2. P \subseteq DOMAIN b
    BY DEF Served
  <1>. HIDE DEF P, sh, ch
  <1>3. DOMAIN ch = P /\ \A k \in P : ch[k].who = b[k].who /\ ch[k].energy = sh[k]
    BY <1>1 DEF Charge
  <1>4. Charges(ch, n)
    BY <1>1, <1>2, <1>3 DEF Charges, Owned
  <1>. QED  BY <1>4 DEF ch

\* The requests have no more processes than pids.
Numbered == Len(procs) \in 0..MaxProcs

LEMMA AlwaysNumbered == Spec => []Numbered
  <1>1. Init => Numbered
    BY AttributionAssumption DEF Init, Idle, Numbered
  <1>2. Numbered /\ [Next]_vars => Numbered'
    <2>. SUFFICES ASSUME Numbered, [Next]_vars PROVE Numbered'
      OBVIOUS
    <2>1. CASE Request
      <3>1. PICK ws \in Inputs : procs' = ws
        BY <2>1 DEF Request
      <3>2. PICK m \in 0..MaxProcs : ws \in [1..m -> 0..MaxWeight]
        BY DEF Inputs, BoundedSeq, SeqOf
      <3>3. m \in Nat
        BY AttributionAssumption
      <3>4. Len(ws) = m
        BY <3>2, <3>3, PositionsMakeASeq
      <3>. QED  BY <3>1, <3>4 DEF Numbered
    <2>2. CASE Respond
      BY <2>2, AttributionAssumption DEF Respond, Numbered
    <2>3. CASE UNCHANGED vars
      BY <2>3 DEF vars, Numbered
    <2>. QED  BY <2>1, <2>2, <2>3 DEF Next
  <1>. QED  BY <1>1, <1>2, PTL DEF Spec

\* What is charged is charged to different pids.
LEMMA ChargesAreApart ==
    ASSUME Made
    PROVE  Len(procs) \in Nat /\ Charges(cpu, Len(procs)) /\ Charges(gpu, Len(procs))
  <1>1. procs \in Seq(Nat) /\ Len(procs) \in Nat /\ delta \in Nat
    BY LenProperties DEF Made
  <1>. DEFINE n == Len(procs)
  <1>2. Charges(<< >>, n)
    <2>. DEFINE none == << >>
    <2>1. DOMAIN none = {}
      OBVIOUS
    <2>. HIDE DEF none
    <2>2. Charges(none, n)
      BY <2>1 DEF Charges
    <2>. QED  BY <2>2 DEF none
  <1>3. Charges(Records(delta, CpuBuckets(procs)), n)
    BY <1>1, CpuBucketsOwned, CpuWeights, RecordsAreCharges
  <1>4. Charges(Records(delta, GpuBuckets(delta, procs)), n)
    BY <1>1, GpuBucketsOwned, GpuWeights, RecordsAreCharges
  <1>5. CASE Idle
    BY <1>1, <1>2, <1>5 DEF Idle
  <1>6. CASE ~Idle
    <2>1. /\ cpu = Records(delta, CpuBuckets(procs))
          /\ gpu = IF delta = 0 THEN << >> ELSE Records(delta, GpuBuckets(delta, procs))
      BY <1>6 DEF Made
    <2>2. gpu = << >> \/ gpu = Records(delta, GpuBuckets(delta, procs))
      BY <2>1
    <2>. HIDE DEF n
    <2>3. Charges(cpu, n)
      BY <1>3, <2>1
    <2>4. Charges(gpu, n)
      BY <1>2, <1>4, <2>2
    <2>. QED  BY <1>1, <2>3, <2>4 DEF n
  <1>. QED  BY <1>5, <1>6

\* A charge of a process, or of nobody, is recorded with that pid.
LEMMA RecordsOfCharge ==
    ASSUME procs \in Seq(Nat), Numbered, NEW x, x.energy \in Nat, x.who \in -1..Len(procs)
    PROVE  /\ Encodable(GpuRecord(x)) /\ GpuRecord(x).pid = Pid(x.who)
           /\ x.who # Unattributed =>
                Encodable(CpuRecord(x)) /\ CpuRecord(x).pid = Pid(x.who)
  <1>. DEFINE n == Len(procs)
              who == x.who
  <1>1. n \in Nat /\ \A k \in 1..n : procs[k] \in Nat
    BY LenProperties, ElementOfSeq
  <1>2. 0..n \subseteq Unsigned(Width32)
    <2>1. n \in 0..MaxProcs
      BY DEF Numbered
    <2>. QED  BY <2>1, AttributionAssumption, CommitmentsAssumption
  <1>3. FullUtil \in Nat
    BY AttributionAssumption
  <1>4. <<118>> \in Seq(Int) /\ << >> \in Seq(Int)
    BY EmptySeq
  <1>. HIDE DEF n
  <1>5. who \in -1..n
    BY DEF n
  <1>6. who = -1 \/ who = 0 \/ who \in 1..n
    BY <1>1, <1>5
  <1>7. <<49 + who>> \in Seq(Int)
    <2>1. 49 + who \in Int
      BY <1>5
    <2>. HIDE DEF who
    <2>. QED  BY <2>1
  <1>8. /\ Pid(who) \in 0..n
        /\ (who # Unattributed => Pid(who) = who)
        /\ Pid(who) = IF who = Unattributed THEN 0 ELSE who
    BY <1>1, <1>5 DEF Pid, Unattributed
  <1>9. /\ GpuRecord(x).pid = Pid(who) /\ GpuRecord(x).energy = x.energy
        /\ GpuRecord(x).power = 0 /\ GpuRecord(x).vm_name = <<49 + who>>
        /\ GpuRecord(x).timestamp = << >>
        /\ GpuRecord(x).cpu_time =
             IF who \in {Nobody, Unattributed} THEN 1
             ELSE IF procs[who] > FullUtil THEN FullUtil ELSE procs[who]
    BY DEF GpuRecord, Pid
  <1>10. /\ CpuRecord(x).pid = who /\ CpuRecord(x).energy = x.energy
         /\ CpuRecord(x).power = x.energy /\ CpuRecord(x).vm_name = <<118>>
         /\ CpuRecord(x).timestamp = << >>
         /\ CpuRecord(x).cpu_time = IF who = Nobody THEN 0 ELSE procs[who]
    BY DEF CpuRecord
  <1>11. GpuRecord(x).cpu_time \in Nat
    <2>1. CASE who \in {Nobody, Unattributed}
      BY <1>9, <2>1
    <2>2. CASE who \notin {Nobody, Unattributed}
      <3>1. who \in 1..n
        BY <1>6, <2>2 DEF Nobody, Unattributed
      <3>2. procs[who] \in Nat
        BY <1>1, <3>1
      <3>. QED  BY <1>3, <1>9, <2>2, <3>2
    <2>. QED  BY <2>1, <2>2
  <1>12. who # Unattributed => CpuRecord(x).cpu_time \in Nat
    <2>1. CASE who = Nobody
      BY <1>10, <2>1
    <2>2. CASE who # Nobody /\ who # Unattributed
      <3>1. who \in 1..n
        BY <1>6, <2>2 DEF Nobody, Unattributed
      <3>2. procs[who] \in Nat
        BY <1>1, <3>1
      <3>. QED  BY <1>10, <2>2, <3>2
    <2>. QED  BY <2>1, <2>2
  <1>13. Encodable(GpuRecord(x))
    BY <1>2, <1>4, <1>7, <1>8, <1>9, <1>11 DEF Encodable
  <1>14. who # Unattributed => Encodable(CpuRecord(x))
    BY <1>2, <1>4, <1>8, <1>10, <1>12 DEF Encodable
  <1>. QED  BY <1>8, <1>9, <1>10, <1>13, <1>14

\* A VM's energy is a process's or nobody's, never unattributed.
LEMMA CpuIsAttributed ==
    ASSUME Made, NEW k \in DOMAIN cpu
    PROVE  cpu[k].who # Unattributed
  <1>. DEFINE b == CpuBuckets(procs)
              ch == Records(delta, b)
  <1>1. procs \in Seq(Nat) /\ delta \in Nat
    BY DEF Made
  <1>2. ~Idle
    <2>. DEFINE none == << >>
    <2>1. DOMAIN none = {}
      OBVIOUS
    <2>. HIDE DEF none
    <2>2. Idle => cpu = none
      BY DEF Idle, none
    <2>. QED  BY <2>1, <2>2
  <1>3. cpu = ch
    BY <1>2 DEF Made
  <1>4. ch = [j \in Served(delta, b) |-> Charge(b[j].who, SharesOf(delta, b)[j])]
    BY <1>1, CpuWeights, RecordsFacts
  <1>5. k \in Served(delta, b) /\ k \in DOMAIN b /\ cpu[k].who = b[k].who
    <2>1. k \in Served(delta, b) /\ cpu[k] = Charge(b[k].who, SharesOf(delta, b)[k])
      BY <1>3, <1>4
    <2>. HIDE DEF b, ch
    <2>2. cpu[k].who = b[k].who
      BY <2>1 DEF Charge
    <2>. QED  BY <2>1, <2>2 DEF Served
  <1>6. b[k].who # Unattributed
    BY <1>1, <1>5, CpuBucketsOwned
  <1>. QED  BY <1>5, <1>6

-----------------------------------------------------------------------------
(* What is signed of a checkpoint *)

LEMMA SeparatorAt ==
    ASSUME NEW t \in Seq(Int), NEW x \in Seq(Int)
    PROVE  /\ <<Separator>> \o x \in Seq(Int)
           /\ t \o (<<Separator>> \o x) \in Seq(Int)
           /\ \A k \in 1..Len(t) : (t \o (<<Separator>> \o x))[k] = t[k]
           /\ (t \o (<<Separator>> \o x))[Len(t) + 1] = Separator
           /\ Len(t) \in Nat
  <1>. DEFINE e == <<Separator>>
              y == e \o x
  <1>1. e \in Seq(Int) /\ Len(e) = 1 /\ e[1] = Separator
    BY DEF Separator
  <1>2. Len(t) \in Nat /\ Len(x) \in Nat
    BY LenProperties
  <1>. HIDE DEF e
  <1>3. y \in Seq(Int) /\ Len(y) = 1 + Len(x)
    BY <1>1, IntConcat
  <1>4. y[1] = Separator
    <2>1. 1 \in 1..(Len(e) + Len(x)) /\ 1 <= Len(e)
      BY <1>1, <1>2
    <2>. QED  BY <1>1, <2>1, ConcatProperties
  <1>. HIDE DEF y
  <1>5. t \o y \in Seq(Int)
    BY <1>3, IntConcat
  <1>6. ASSUME NEW k \in 1..(Len(t) + Len(y))
        PROVE  (t \o y)[k] = IF k <= Len(t) THEN t[k] ELSE y[k - Len(t)]
    BY <1>3, ConcatProperties
  <1>7. \A k \in 1..Len(t) : (t \o y)[k] = t[k]
    <2>1. \A k \in 1..Len(t) : k \in 1..(Len(t) + Len(y)) /\ k <= Len(t)
      BY <1>2, <1>3
    <2>. QED  BY <1>6, <2>1
  <1>8. (t \o y)[Len(t) + 1] = Separator
    <2>. DEFINE k == Len(t) + 1
    <2>1. k \in 1..(Len(t) + Len(y)) /\ ~(k <= Len(t)) /\ k - Len(t) = 1
      BY <1>2, <1>3
    <2>. HIDE DEF k
    <2>2. (t \o y)[k] = Separator
      BY <1>4, <1>6, <2>1
    <2>. QED  BY <2>2 DEF k
  <1>. QED  BY <1>2, <1>3, <1>5, <1>7, <1>8 DEF y, e

\* A label and what follows the separator, whatever that is.
LEMMA SeparatorSplits ==
    ASSUME NEW t \in Seq(Int), NEW u \in Seq(Int), NEW x \in Seq(Int), NEW y \in Seq(Int),
           \A k \in 1..Len(t) : t[k] # Separator,
           \A k \in 1..Len(u) : u[k] # Separator,
           t \o (<<Separator>> \o x) = u \o (<<Separator>> \o y)
    PROVE  t = u /\ x = y
  <1>. DEFINE a == t \o (<<Separator>> \o x)
              b == u \o (<<Separator>> \o y)
  <1>1. /\ Len(t) \in Nat /\ a[Len(t) + 1] = Separator
        /\ \A k \in 1..Len(t) : a[k] = t[k]
    BY SeparatorAt
  <1>2. /\ Len(u) \in Nat /\ b[Len(u) + 1] = Separator
        /\ \A k \in 1..Len(u) : b[k] = u[k]
    BY SeparatorAt
  <1>3. a = b
    OBVIOUS
  <1>4. <<Separator>> \o x \in Seq(Int) /\ <<Separator>> \o y \in Seq(Int)
    BY SeparatorAt
  <1>. HIDE DEF a, b
  <1>5. ~(Len(t) < Len(u))
    <2>. SUFFICES ASSUME Len(t) < Len(u) PROVE FALSE
      OBVIOUS
    <2>1. Len(t) + 1 \in 1..Len(u)
      BY <1>1, <1>2
    <2>. QED  BY <1>1, <1>2, <1>3, <2>1
  <1>6. ~(Len(u) < Len(t))
    <2>. SUFFICES ASSUME Len(u) < Len(t) PROVE FALSE
      OBVIOUS
    <2>1. Len(u) + 1 \in 1..Len(t)
      BY <1>1, <1>2
    <2>. QED  BY <1>1, <1>2, <1>3, <2>1
  <1>7. Len(t) = Len(u)
    BY <1>1, <1>2, <1>5, <1>6
  <1>8. t = u /\ <<Separator>> \o x = <<Separator>> \o y
    <2>. DEFINE v == <<Separator>> \o x
                w == <<Separator>> \o y
    <2>1. v \in Seq(Int) /\ w \in Seq(Int) /\ t \o v = u \o w
      BY <1>4
    <2>. HIDE DEF v, w
    <2>2. t = u /\ v = w
      BY <1>7, <2>1, IntConcatSplits
    <2>. QED  BY <2>2 DEF v, w
  <1>9. x = y
    <2>. DEFINE e == <<Separator>>
    <2>1. e \in Seq(Int) /\ Len(e) = Len(e) /\ e \o x = e \o y
      BY <1>8 DEF Separator
    <2>. HIDE DEF e
    <2>. QED  BY <2>1, IntConcatSplits
  <1>. QED  BY <1>8, <1>9

LEMMA LabelsAreSafe ==
    ASSUME NEW t \in Seq(Int), ValidTenantLabel(t)
    PROVE  \A k \in 1..Len(t) : t[k] # Separator
  <1>1. \A k \in 1..Len(t) : SafeLabelByte(t[k])
    BY LenProperties DEF ValidTenantLabel
  <1>2. \A c : SafeLabelByte(c) => c # Separator
    BY DEF SafeLabelByte, Separator
  <1>. QED  BY <1>1, <1>2

\* Five sequences concatenated from the left, as the code pushes them.
Regrouped(a, b, c, d, e) ==
    /\ (((a \o b) \o c) \o d) \o e = a \o (b \o (c \o (d \o e)))
    /\ d \o e \in Seq(Int)
    /\ b \o (c \o (d \o e)) \in Seq(Int)

LEMMA IntRegroup ==
    ASSUME NEW a \in Seq(Int), NEW b \in Seq(Int), NEW c \in Seq(Int),
           NEW d \in Seq(Int), NEW e \in Seq(Int)
    PROVE  Regrouped(a, b, c, d, e)
  <1>. DEFINE ab == a \o b
              abc == ab \o c
              de == d \o e
              cde == c \o de
  <1>1. ab \in Seq(Int) /\ de \in Seq(Int)
    BY IntConcat
  <1>2. abc \in Seq(Int)
    BY <1>1, IntConcat
  <1>3. cde \in Seq(Int)
    BY <1>1, IntConcat
  <1>4. b \o cde \in Seq(Int)
    BY <1>3, IntConcat
  <1>. HIDE DEF ab, abc, de, cde
  <1>5. ab \in Seq(Int)
    BY <1>1
  <1>6. de \in Seq(Int)
    BY <1>1
  <1>7. Regroups(abc, d, e) /\ Regroups(ab, c, de) /\ Regroups(a, b, cde)
    BY <1>2, <1>3, <1>5, <1>6, IntConcatAssociative
  <1>8. (abc \o d) \o e = abc \o (d \o e)
    BY <1>7 DEF Regroups
  <1>9. (ab \o c) \o de = ab \o (c \o de)
    BY <1>7 DEF Regroups
  <1>10. (a \o b) \o cde = a \o (b \o cde)
    BY <1>7 DEF Regroups
  <1>. QED  BY <1>1, <1>4, <1>8, <1>9, <1>10 DEF Regrouped, ab, abc, de, cde

LEMMA IntsRegroup ==
    \A a, b, c, d, e \in Seq(Int) : Regrouped(a, b, c, d, e)
  BY IntRegroup

\* Two checkpoints are never signed as the same bytes: a signature for one
\* tenant, block number and root is none for any other, although labels have
\* no fixed length (encode_checkpoint_msg, valid_tenant_label).
THEOREM CheckpointsBind ==
    ASSUME NEW t \in Seq(Int), NEW u \in Seq(Int),
           ValidTenantLabel(t), ValidTenantLabel(u),
           NEW n \in Unsigned(Width64), NEW m \in Unsigned(Width64),
           NEW r \in Seq(Int), NEW s \in Seq(Int),
           EncodeCheckpointMsg(t, n, r) = EncodeCheckpointMsg(u, m, s)
    PROVE  t = u /\ n = m /\ r = s
  <1>. DEFINE tag == AnchorTag \o <<Separator>>
              e == <<Separator>>
              p == LE(Width64, n)
              q == LE(Width64, m)
  <1>1. tag \in Seq(Int) /\ e \in Seq(Int)
    <2>1. AnchorTag \in Seq(Int) /\ <<Separator>> \in Seq(Int)
      BY DEF AnchorTag, Separator
    <2>. QED  BY <2>1, IntConcat
  <1>2. n \in Nat /\ m \in Nat
    BY Widths
  <1>3. p \in Seq(Int) /\ q \in Seq(Int) /\ Len(p) = Len(q)
    BY <1>2, Bytes
  <1>4. p = q => n = m
    BY Widths, LEBinds
  <1>5. (((tag \o t) \o e) \o p) \o r = (((tag \o u) \o e) \o q) \o s
    BY DEF EncodeCheckpointMsg
  <1>6. \A k \in 1..Len(t) : t[k] # Separator
    BY LabelsAreSafe
  <1>7. \A k \in 1..Len(u) : u[k] # Separator
    BY LabelsAreSafe
  <1>. HIDE DEF tag, e, p, q
  <1>8. Regrouped(tag, t, e, p, r) /\ Regrouped(tag, u, e, q, s)
    BY <1>1, <1>3, IntsRegroup
  <1>9. (((tag \o t) \o e) \o p) \o r = (((tag \o u) \o e) \o q) \o s
    BY <1>5
  <1>10. /\ t \o (e \o (p \o r)) \in Seq(Int) /\ p \o r \in Seq(Int)
         /\ (((tag \o t) \o e) \o p) \o r = tag \o (t \o (e \o (p \o r)))
    BY <1>8 DEF Regrouped
  <1>11. /\ u \o (e \o (q \o s)) \in Seq(Int) /\ q \o s \in Seq(Int)
         /\ (((tag \o u) \o e) \o q) \o s = tag \o (u \o (e \o (q \o s)))
    BY <1>8 DEF Regrouped
  <1>12. t \o (e \o (p \o r)) = u \o (e \o (q \o s))
    <2>. DEFINE x == t \o (e \o (p \o r))
                y == u \o (e \o (q \o s))
    <2>1. x \in Seq(Int) /\ y \in Seq(Int) /\ tag \o x = tag \o y /\ Len(tag) = Len(tag)
      BY <1>1, <1>9, <1>10, <1>11
    <2>. HIDE DEF x, y
    <2>2. x = y
      BY <1>1, <2>1, IntConcatSplits
    <2>. QED  BY <2>2 DEF x, y
  <1>13. t = u /\ p \o r = q \o s
    <2>. DEFINE x == p \o r
                y == q \o s
    <2>1. x \in Seq(Int) /\ y \in Seq(Int) /\ t \o (<<Separator>> \o x) = u \o (<<Separator>> \o y)
      BY <1>10, <1>12, <1>11 DEF e
    <2>. HIDE DEF x, y
    <2>2. t = u /\ x = y
      BY <1>6, <1>7, <2>1, SeparatorSplits
    <2>. QED  BY <2>2 DEF x, y
  <1>14. p = q /\ r = s
    BY <1>3, <1>13, IntConcatSplits
  <1>. QED  BY <1>4, <1>13, <1>14


\* The batch of what was drawn is bound.
LEMMA DrawnIsBound ==
    ASSUME NEW ch, Charges(ch, Len(procs)), Len(procs) \in Nat,
           NEW s, Drawn(s, ch), NEW records,
           DOMAIN records = DOMAIN s, records = [k \in DOMAIN s |-> records[k]],
           \A k \in DOMAIN s : Encodable(records[k]) /\ records[k].pid = Pid(s[k].who)
    PROVE  Bound(records)
  <1>. DEFINE q == Len(s)
  <1>1. List(s, q) /\ DOMAIN s = 1..q
    BY ListFacts DEF Drawn
  <1>2. List(records, q) /\ Len(records) = q
    <2>1. List(records, q)
      BY <1>1 DEF List
    <2>. QED  BY <2>1, ListFacts
  <1>3. /\ \A i \in 1..q : s[i] \in {ch[k] : k \in DOMAIN ch}
        /\ \A i, k \in 1..q : s[i] = s[k] => i = k
    BY DEF Drawn
  <1>4. \A i, k \in DOMAIN ch : Pid(ch[i].who) = Pid(ch[k].who) => i = k
    BY DEF Charges
  <1>. HIDE DEF q
  <1>5. ASSUME NEW i \in 1..q, NEW k \in 1..q, records[i].pid = records[k].pid
        PROVE  i = k
    <2>1. PICK a \in DOMAIN ch : s[i] = ch[a]
      BY <1>3
    <2>2. PICK b \in DOMAIN ch : s[k] = ch[b]
      BY <1>3
    <2>3. Pid(ch[a].who) = Pid(ch[b].who)
      BY <1>1, <1>5, <2>1, <2>2
    <2>4. a = b
      BY <1>4, <2>3
    <2>. QED  BY <1>3, <2>1, <2>2, <2>4
  <1>6. TellApart(records)
    BY <1>1, <1>2, <1>5 DEF TellApart, Encodables
  <1>. QED  BY <1>6, BatchIsBound

\* What is published of the records of any request determines them: every
\* record is verified at its place and at no other, is provable there, and is
\* in the block its index says; the blocks verify in their order only
\* (MerkleTree::verify_record, generate_proof, Blockchain::add_record, verify).
THEOREM RecordsAreBound == Spec => []CommitmentsBind
  <1>1. Made /\ Numbered => CommitmentsBind
    <2>. SUFFICES ASSUME Made, Numbered PROVE CommitmentsBind
      OBVIOUS
    <2>. DEFINE n == Len(procs)
                c == InOrder(cpu)
                g == InOrder(gpu)
                cs == [k \in DOMAIN c |-> CpuRecord(c[k])]
                gs == [k \in DOMAIN g |-> GpuRecord(g[k])]
    <2>1. /\ n \in Nat /\ Charges(cpu, n) /\ Charges(gpu, n) /\ procs \in Seq(Nat)
      BY ChargesAreApart DEF Made
    <2>2. Drawn(c, cpu) /\ Drawn(g, gpu)
      BY <2>1, InOrderIsDrawn
    <2>. HIDE DEF c, g
    <2>3. ASSUME NEW ch, Charges(ch, n), NEW s, Drawn(s, ch), NEW k \in DOMAIN s
          PROVE  \E i \in DOMAIN ch : s[k] = ch[i]
      <3>1. DOMAIN s = 1..Len(s)
        BY <2>3, ListFacts DEF Drawn
      <3>. QED  BY <2>3, <3>1 DEF Drawn
    <2>4. ASSUME NEW k \in DOMAIN c
          PROVE  Encodable(cs[k]) /\ cs[k].pid = Pid(c[k].who)
      <3>1. PICK i \in DOMAIN cpu : c[k] = cpu[i]
        BY <2>1, <2>2, <2>3
      <3>2. c[k].energy \in Nat /\ c[k].who \in -1..n
        BY <2>1, <3>1 DEF Charges
      <3>3. c[k].who # Unattributed
        BY <3>1, CpuIsAttributed
      <3>4. cs[k] = CpuRecord(c[k])
        OBVIOUS
      <3>. QED  BY <2>1, <3>2, <3>3, <3>4, RecordsOfCharge
    <2>5. ASSUME NEW k \in DOMAIN g
          PROVE  Encodable(gs[k]) /\ gs[k].pid = Pid(g[k].who)
      <3>1. PICK i \in DOMAIN gpu : g[k] = gpu[i]
        BY <2>1, <2>2, <2>3
      <3>2. g[k].energy \in Nat /\ g[k].who \in -1..n
        BY <2>1, <3>1 DEF Charges
      <3>3. gs[k] = GpuRecord(g[k])
        OBVIOUS
      <3>. QED  BY <2>1, <3>2, <3>3, RecordsOfCharge
    <2>6. /\ DOMAIN cs = DOMAIN c /\ cs = [k \in DOMAIN c |-> cs[k]]
          /\ DOMAIN gs = DOMAIN g /\ gs = [k \in DOMAIN g |-> gs[k]]
      OBVIOUS
    <2>7. Batches = {cs, gs}
      BY DEF Batches, c, g
    <2>. HIDE DEF cs, gs
    <2>8. Bound(cs) /\ Bound(gs)
      <3>1. Bound(cs)
        BY <2>1, <2>2, <2>4, <2>6, DrawnIsBound
      <3>2. Bound(gs)
        BY <2>1, <2>2, <2>5, <2>6, DrawnIsBound
      <3>. QED  BY <3>1, <3>2
    <2>9. \A records \in Batches : Bound(records)
      BY <2>7, <2>8
    <2>. QED  BY <2>9, Zenon DEF CommitmentsBind, Bound
  <1>. QED  BY <1>1, AlwaysMade, AlwaysNumbered, PTL

=============================================================================
