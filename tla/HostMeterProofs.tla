--------------------------- MODULE HostMeterProofs ---------------------------
(***************************************************************************)
(* Proofs about the host's meter: for any number of sockets, VMs and       *)
(* cores, any counter range, any buffer and any combination of failures,   *)
(* its alarms have a reason and its charges are covered by the energy      *)
(* that was burned.                                                        *)
(***************************************************************************)
EXTENDS HostMeter, FiniteSetTheorems, WellFoundedInduction, TLAPS

-----------------------------------------------------------------------------
(* Finite sets *)

\* Induction over the parts of a finite set.
LEMMA SubsetInduction ==
    ASSUME NEW S, IsFiniteSet(S), NEW G,
           \A T \in SUBSET S : (\A U \in (SUBSET T) \ {T} : U \in G) => T \in G
    PROVE  \A T \in SUBSET S : T \in G
  <1>. DEFINE Bad == (SUBSET S) \ G
  <1>. SUFFICES ASSUME Bad # {} PROVE FALSE
    OBVIOUS
  <1>1. Bad \subseteq FiniteSubsetsOf(S)
    BY FS_FiniteSubsetsOfFinite
  <1>2. \E T \in Bad : \A U \in Bad : ~ (<<U, T>> \in StrictSubsetOrdering(S))
    <2>. HIDE DEF Bad
    <2>. QED  BY <1>1, FS_StrictSubsetOrderingWellFounded, WFMin
  <1>3. PICK T \in Bad : \A U \in Bad : ~ (<<U, T>> \in StrictSubsetOrdering(S))
    BY <1>2
  <1>4. ASSUME NEW U \in (SUBSET T) \ {T} PROVE U \in G
    <2>1. U \in SUBSET S /\ <<U, T>> \in StrictSubsetOrdering(S)
      BY DEF StrictSubsetOrdering
    <2>. QED  BY <1>3, <2>1
  <1>. QED  BY <1>4

\* The element a sum over s starts with.
Some(s) == CHOOSE x \in s : TRUE

\* g is the sum of f over each part of S.
Sums(S, f, g) ==
    g = [s \in SUBSET S |-> IF s = {} THEN 0 ELSE f[Some(s)] + g[s \ {Some(s)}]]

\* The recursion of a sum.
LEMMA SumsValues ==
    ASSUME NEW S, NEW f, NEW g, Sums(S, f, g), NEW s \in SUBSET S
    PROVE  g[s] = IF s = {} THEN 0 ELSE f[Some(s)] + g[s \ {Some(s)}]
  BY DEF Sums

\* A nonempty set is larger than what is left without that element.
LEMMA SomeIn ==
    ASSUME NEW s, s # {}
    PROVE  Some(s) \in s /\ s \ {Some(s)} \in (SUBSET s) \ {s}
  BY DEF Some

\* Two sums agree on what they are both about ...
LEMMA SumsAgree ==
    ASSUME NEW S, NEW T, NEW f, NEW g, NEW h, Sums(S, f, g), Sums(T, f, h),
           NEW A, IsFiniteSet(A), A \subseteq S, A \subseteq T
    PROVE  g[A] = h[A]
  <1>. DEFINE G == {s \in SUBSET A : g[s] = h[s]}
  <1>1. ASSUME NEW s \in SUBSET A, \A U \in (SUBSET s) \ {s} : U \in G
        PROVE  s \in G
    <2>1. CASE s = {}
      BY <2>1, SumsValues
    <2>2. CASE s # {}
      <3>. DEFINE u == s \ {Some(s)}
      <3>1. u \in G /\ u \in SUBSET s
        BY <1>1, <2>2, SomeIn
      <3>2. g[u] = h[u]
        BY <3>1
      <3>3. s \in SUBSET S /\ s \in SUBSET T
        OBVIOUS
      <3>4. g[s] = f[Some(s)] + g[u]
        BY <2>2, <3>3, Sums(S, f, g) DEF Sums
      <3>5. h[s] = f[Some(s)] + h[u]
        BY <2>2, <3>3, Sums(T, f, h) DEF Sums
      <3>. QED  BY <3>2, <3>4, <3>5
    <2>. QED  BY <2>1, <2>2
  <1>. HIDE DEF G
  <1>2. A \in G
    BY <1>1, SubsetInduction
  <1>. QED  BY <1>2 DEF G

\* ... and there is one for every finite set.
LEMMA SumsExist ==
    ASSUME NEW S, IsFiniteSet(S), NEW f
    PROVE  \E g : Sums(S, f, g)
  <1>. DEFINE G == {T \in SUBSET S : \E g : Sums(T, f, g)}
              Of(T) == CHOOSE g : Sums(T, f, g)
              V(T) == Of(T)[T]
  <1>1. ASSUME NEW T \in SUBSET S, \A U \in (SUBSET T) \ {T} : U \in G
        PROVE  T \in G
    <2>. DEFINE r == IF T = {} THEN 0 ELSE f[Some(T)] + V(T \ {Some(T)})
                g == [s \in SUBSET T |-> IF s = T THEN r ELSE V(s)]
    <2>0. \A U \in (SUBSET T) \ {T} : Sums(U, f, Of(U))
      BY <1>1
    <2>1. ASSUME NEW s \in (SUBSET T) \ {T}, s # {}
          PROVE  V(s) = f[Some(s)] + V(s \ {Some(s)})
      <3>. DEFINE u == s \ {Some(s)}
      <3>1. u \in (SUBSET T) \ {T} /\ u \in SUBSET s
        BY <2>1, SomeIn
      <3>2. Sums(s, f, Of(s)) /\ Sums(u, f, Of(u))
        BY <2>0, <3>1
      <3>3. IsFiniteSet(u)
        BY <3>1, FS_Subset
      <3>4. V(s) = f[Some(s)] + Of(s)[u]
        <4>. HIDE DEF Of
        <4>. QED  BY <2>1, <3>2, SumsValues
      <3>5. Of(s)[u] = Of(u)[u]
        <4>. HIDE DEF Of, u
        <4>. QED  BY <3>1, <3>2, <3>3, SumsAgree
      <3>. QED  BY <3>4, <3>5
    <2>2. {} # T => V({}) = 0
      <3>1. {} # T => Sums({}, f, Of({}))
        BY <2>0
      <3>. HIDE DEF Of
      <3>. QED  BY <3>1, SumsValues
    <2>3. ASSUME NEW s \in SUBSET T
          PROVE  g[s] = IF s = {} THEN 0 ELSE f[Some(s)] + g[s \ {Some(s)}]
      <3>. HIDE DEF V
      <3>1. s # {} => s \ {Some(s)} \in (SUBSET T) \ {T}
        BY SomeIn
      <3>2. CASE s = T
        BY <3>1, <3>2
      <3>3. CASE s # T
        BY <2>1, <2>2, <3>1, <3>3
      <3>. QED  BY <3>2, <3>3
    <2>4. Sums(T, f, g)
      <3>. HIDE DEF r, V
      <3>1. g = [s \in SUBSET T |-> g[s]]
        OBVIOUS
      <3>2. g = [s \in SUBSET T |-> IF s = {} THEN 0 ELSE f[Some(s)] + g[s \ {Some(s)}]]
        <4>. HIDE DEF g
        <4>. QED  BY <2>3, <3>1
      <3>. QED  BY <3>2 DEF Sums
    <2>. QED  BY <2>4
  <1>2. S \in G
    <2>. HIDE DEF G
    <2>. QED  BY <1>1, SubsetInduction
  <1>. QED  BY <1>2

-----------------------------------------------------------------------------
(* Sums *)

\* MapThenSumSet is defined by that recursion ...
LEMMA SumIs ==
    ASSUME NEW f, NEW S
    PROVE  SumOver(f, S) = (CHOOSE g : Sums(S, f, g))[S]
  BY DEF SumOver, MapThenSumSet, MapThenFoldSet, Sums, Some

\* ... which it satisfies.
LEMMA SumStarts ==
    ASSUME NEW f, NEW S, IsFiniteSet(S)
    PROVE  SumOver(f, S) = IF S = {} THEN 0
                           ELSE f[Some(S)] + SumOver(f, S \ {Some(S)})
  <1>. DEFINE g == CHOOSE h : Sums(S, f, h)
              T == S \ {Some(S)}
              k == CHOOSE h : Sums(T, f, h)
  <1>1. Sums(S, f, g)
    BY SumsExist
  <1>2. IsFiniteSet(T) /\ T \in SUBSET S
    BY FS_Subset
  <1>3. Sums(T, f, k)
    <2>. HIDE DEF T
    <2>. QED  BY <1>2, SumsExist
  <1>4. SumOver(f, S) = g[S] /\ SumOver(f, T) = k[T]
    BY SumIs
  <1>. HIDE DEF g, k
  <1>5. g[S] = IF S = {} THEN 0 ELSE f[Some(S)] + g[T]
    BY <1>1, SumsValues
  <1>6. g[T] = k[T]
    <2>. HIDE DEF T
    <2>. QED  BY <1>1, <1>2, <1>3, SumsAgree
  <1>. QED  BY <1>4, <1>5, <1>6

\* The empty sum is 0.
LEMMA SumOfNone ==
    ASSUME NEW f PROVE SumOver(f, {}) = 0
  BY SumStarts, FS_EmptySet

\* A sum of integers is one.
LEMMA SumIsInt ==
    ASSUME NEW S, IsFiniteSet(S), NEW f, \A x \in S : f[x] \in Int
    PROVE  \A T \in SUBSET S : SumOver(f, T) \in Int
  <1>. DEFINE G == {T \in SUBSET S : SumOver(f, T) \in Int}
  <1>1. ASSUME NEW T \in SUBSET S, \A U \in (SUBSET T) \ {T} : U \in G
        PROVE  T \in G
    <2>1. CASE T = {}
      BY <2>1, SumOfNone
    <2>2. CASE T # {}
      <3>1. SumOver(f, T) = f[Some(T)] + SumOver(f, T \ {Some(T)})
        BY <2>2, SumStarts, FS_Subset
      <3>2. f[Some(T)] \in Int /\ SumOver(f, T \ {Some(T)}) \in Int
        BY <1>1, <2>2, SomeIn
      <3>. QED  BY <3>1, <3>2
    <2>. QED  BY <2>1, <2>2
  <1>. HIDE DEF G
  <1>2. \A T \in SUBSET S : T \in G
    BY <1>1, SubsetInduction
  <1>. QED  BY <1>2 DEF G

\* A sum may be taken in any order.
LEMMA SumSplits ==
    ASSUME NEW S, IsFiniteSet(S), NEW f, \A x \in S : f[x] \in Int
    PROVE  \A T \in SUBSET S : \A x \in T :
              SumOver(f, T) = f[x] + SumOver(f, T \ {x})
  <1>. DEFINE G == {T \in SUBSET S : \A x \in T :
                      SumOver(f, T) = f[x] + SumOver(f, T \ {x})}
  <1>1. ASSUME NEW T \in SUBSET S, \A U \in (SUBSET T) \ {T} : U \in G
        PROVE  T \in G
    <2>1. SUFFICES ASSUME NEW x \in T
                   PROVE  SumOver(f, T) = f[x] + SumOver(f, T \ {x})
      OBVIOUS
    <2>. DEFINE c == Some(T)
                both == (T \ {x}) \ {c}
    <2>2. c \in T
      BY SomeIn
    <2>3. SumOver(f, T) = f[c] + SumOver(f, T \ {c})
      BY SumStarts, FS_Subset
    <2>4. CASE x = c
      BY <2>3, <2>4
    <2>5. CASE x # c
      <3>1. both = (T \ {c}) \ {x} /\ x \in T \ {c} /\ c \in T \ {x} /\ both \in SUBSET S
        BY <2>2, <2>5
      <3>2. T \ {c} \in G /\ T \ {x} \in G
        BY <1>1, <2>2
      <3>3. /\ SumOver(f, T \ {c}) = f[x] + SumOver(f, both)
            /\ SumOver(f, T \ {x}) = f[c] + SumOver(f, both)
        BY <3>1, <3>2
      <3>4. f[x] \in Int /\ f[c] \in Int /\ SumOver(f, both) \in Int
        BY <2>2, <3>1, SumIsInt
      <3>. HIDE DEF c, both
      <3>. QED  BY <2>3, <3>3, <3>4
    <2>. QED  BY <2>4, <2>5
  <1>. HIDE DEF G
  <1>2. \A T \in SUBSET S : T \in G
    BY <1>1, SubsetInduction
  <1>. QED  BY <1>2 DEF G


\* Sums may be added term by term.
LEMMA SumOfSums ==
    ASSUME NEW S, IsFiniteSet(S), NEW f, NEW g, NEW h,
           \A x \in S : f[x] \in Int /\ g[x] \in Int /\ h[x] = f[x] + g[x]
    PROVE  SumOver(h, S) = SumOver(f, S) + SumOver(g, S)
  <1>. DEFINE G == {T \in SUBSET S : SumOver(h, T) = SumOver(f, T) + SumOver(g, T)}
  <1>1. ASSUME NEW T \in SUBSET S, \A U \in (SUBSET T) \ {T} : U \in G
        PROVE  T \in G
    <2>1. CASE T = {}
      BY <2>1, SumOfNone
    <2>2. CASE T # {}
      <3>. DEFINE c == Some(T)
                  U == T \ {c}
      <3>1. c \in T /\ U \in (SUBSET T) \ {T} /\ U \in SUBSET S /\ IsFiniteSet(T)
        BY <2>2, SomeIn, FS_Subset
      <3>2. /\ SumOver(f, T) = f[c] + SumOver(f, U)
            /\ SumOver(g, T) = g[c] + SumOver(g, U)
            /\ SumOver(h, T) = h[c] + SumOver(h, U)
        BY <2>2, <3>1, SumStarts
      <3>3. SumOver(h, U) = SumOver(f, U) + SumOver(g, U)
        BY <1>1, <3>1
      <3>4. f[c] \in Int /\ g[c] \in Int /\ h[c] = f[c] + g[c]
        BY <3>1
      <3>5. SumOver(f, U) \in Int /\ SumOver(g, U) \in Int
        <4>. HIDE DEF U, c
        <4>. QED  BY <3>1, SumIsInt
      <3>. HIDE DEF U, c
      <3>6. SumOver(h, T) = SumOver(f, T) + SumOver(g, T)
        BY <3>2, <3>3, <3>4, <3>5
      <3>. QED  BY <3>6
    <2>. QED  BY <2>1, <2>2
  <1>. HIDE DEF G
  <1>2. S \in G
    BY <1>1, SubsetInduction
  <1>. QED  BY <1>2 DEF G

\* A sum of naturals is one.
LEMMA SumIsNat ==
    ASSUME NEW S, IsFiniteSet(S), NEW f, \A x \in S : f[x] \in Nat
    PROVE  SumOver(f, S) \in Nat
  <1>. DEFINE G == {T \in SUBSET S : SumOver(f, T) \in Nat}
  <1>1. ASSUME NEW T \in SUBSET S, \A U \in (SUBSET T) \ {T} : U \in G
        PROVE  T \in G
    <2>1. CASE T = {}
      BY <2>1, SumOfNone
    <2>2. CASE T # {}
      <3>1. SumOver(f, T) = f[Some(T)] + SumOver(f, T \ {Some(T)})
        BY <2>2, SumStarts, FS_Subset
      <3>2. f[Some(T)] \in Nat /\ SumOver(f, T \ {Some(T)}) \in Nat
        BY <1>1, <2>2, SomeIn
      <3>. QED  BY <3>1, <3>2
    <2>. QED  BY <2>1, <2>2
  <1>. HIDE DEF G
  <1>2. S \in G
    BY <1>1, SubsetInduction
  <1>. QED  BY <1>2 DEF G

\* A sum of larger terms is larger.
LEMMA SumGrows ==
    ASSUME NEW S, IsFiniteSet(S), NEW f, NEW g,
           \A x \in S : f[x] \in Int /\ g[x] \in Int /\ f[x] <= g[x]
    PROVE  SumOver(f, S) <= SumOver(g, S)
  <1>. DEFINE d == [x \in S |-> g[x] - f[x]]
  <1>1. \A x \in S : d[x] \in Nat /\ d[x] \in Int /\ g[x] = f[x] + d[x]
    OBVIOUS
  <1>2. SumOver(f, S) \in Int /\ S \in SUBSET S
    BY SumIsInt
  <1>. HIDE DEF d
  <1>3. SumOver(g, S) = SumOver(f, S) + SumOver(d, S)
    BY <1>1, SumOfSums
  <1>4. SumOver(d, S) \in Nat
    BY <1>1, SumIsNat
  <1>. QED  BY <1>2, <1>3, <1>4

\* A sum depends on its terms only.
LEMMA SumUnchanged ==
    ASSUME NEW S, IsFiniteSet(S), NEW f, NEW g,
           \A x \in S : f[x] \in Int /\ g[x] = f[x]
    PROVE  SumOver(f, S) = SumOver(g, S)
  <1>1. SumOver(f, S) \in Int /\ SumOver(g, S) \in Int
    BY SumIsInt
  <1>2. SumOver(f, S) <= SumOver(g, S)
    BY SumGrows
  <1>3. SumOver(g, S) <= SumOver(f, S)
    BY SumGrows
  <1>. QED  BY <1>1, <1>2, <1>3

\* When one term changes, the sum changes by as much.
LEMMA SumChanged ==
    ASSUME NEW S, IsFiniteSet(S), NEW f, NEW g, NEW c,
           \A x \in S : f[x] \in Int /\ g[x] \in Int,
           \A x \in S \ {c} : g[x] = f[x]
    PROVE  SumOver(g, S) = SumOver(f, S) + (IF c \in S THEN g[c] - f[c] ELSE 0)
  <1>. DEFINE R == S \ {c}
  <1>1. R \in SUBSET S /\ S \in SUBSET S /\ IsFiniteSet(R)
    BY FS_Subset
  <1>2. SumOver(f, R) = SumOver(g, R) /\ SumOver(f, R) \in Int
    BY <1>1, SumUnchanged, SumIsInt
  <1>3. CASE c \in S
    <2>1. SumOver(f, S) = f[c] + SumOver(f, R) /\ SumOver(g, S) = g[c] + SumOver(g, R)
      BY <1>1, <1>3, SumSplits
    <2>. HIDE DEF R
    <2>. QED  BY <1>2, <1>3, <2>1
  <1>4. CASE c \notin S
    <2>1. R = S
      BY <1>4
    <2>. QED  BY <1>2, <1>4, <2>1
  <1>. QED  BY <1>3, <1>4

-----------------------------------------------------------------------------
(* Counters, passes and the record buffer *)

\* The values of a counter.
CounterValues == 0..(MaxRange - 1)

\* The counters are told apart by their names.
LEMMA CounterFacts ==
    /\ Psys \in Counters
    /\ \A s \in Sockets : /\ Pkg(s) \in Counters /\ Pkg(s)[1] = "pkg" /\ Pkg(s)[2] = s
                          /\ Dram(s) \in Counters /\ Dram(s)[1] = "dram"
    /\ \A c \in Counters : \/ c = Psys
                           \/ \E s \in Sockets : c = Pkg(s)
                           \/ \E s \in Sockets : c = Dram(s)
    /\ \A s, t \in Sockets : Pkg(s) = Pkg(t) => s = t
    /\ \A s \in Sockets, t \in Sockets : Pkg(s) # Dram(t)
    /\ \A s \in Sockets : Pkg(s) # Psys /\ Dram(s) # Psys
  BY DEF Counters, Psys, Pkg, Dram

\* The counters of the total.
LEMMA SummedFacts ==
    /\ DOMAIN Summed = 1..Len(Summed) /\ Len(Summed) \in Nat
    /\ \A k \in DOMAIN Summed : /\ k \in Nat
                                /\ \/ \E s \in Sockets : Summed[k] = Pkg(s)
                                   \/ \E s \in Sockets : Summed[k] = Dram(s)
  <1>1. CASE "dram" \in parts
    <2>1. Summed = [k \in 1..(2 * Count) |->
                      IF k % 2 = 1 THEN Pkg((k + 1) \div 2) ELSE Dram(k \div 2)]
      BY <1>1 DEF Summed
    <2>2. 2 * Count \in Nat
      BY MeterAssumption
    <2>3. \A k \in 1..(2 * Count) : /\ k % 2 = 1 => (k + 1) \div 2 \in Sockets
                                    /\ k % 2 # 1 => k \div 2 \in Sockets
      BY MeterAssumption DEF Sockets
    <2>. QED  BY <2>1, <2>2, <2>3
  <1>2. CASE "dram" \notin parts
    BY <1>2, MeterAssumption DEF Summed, Packages, Sockets
  <1>. QED  BY <1>1, <1>2

\* The packages.
LEMMA PackagesFacts ==
    /\ DOMAIN Packages = Sockets /\ Len(Packages) = Count
    /\ \A s \in Sockets : Packages[s] = Pkg(s)
  BY MeterAssumption DEF Packages, Sockets

\* The counters that a pass reads.
LEMMA OrderFacts ==
    /\ DOMAIN Order = 1..Len(Order) /\ Len(Order) \in Nat
    /\ \A k \in DOMAIN Order : /\ k \in Nat /\ Order[k] \in Counters
                               /\ \/ \E s \in Sockets : Order[k] = Pkg(s)
                                  \/ \E s \in Sockets : Order[k] = Dram(s)
  BY SummedFacts, PackagesFacts, CounterFacts, MeterAssumption DEF Order, Sockets

\* Division with remainder.
LEMMA Division ==
    ASSUME NEW a \in Nat, NEW b \in Nat \ {0}
    PROVE  /\ a \div b \in Nat /\ (a \div b) * b <= a /\ a < (a \div b) * b + b
           /\ a % b \in 0..(b - 1)
  OBVIOUS

\* clean_old_records leaves the newest records, fewer than two too many ...
LEMMA CleanedFacts ==
    ASSUME NEW b \in Seq(Nat), b # << >>
    PROVE  /\ CleanOldRecords(b) \in Seq(Nat)
           /\ Len(CleanOldRecords(b)) * RecordSize < BufferBytes + 2 * RecordSize
           /\ \E k \in 1..Len(b) : CleanOldRecords(b) = SubSeq(b, k, Len(b))
  <1>. DEFINE excess == Len(b) * RecordSize - BufferBytes
              q == excess \div RecordSize
  <1>0. /\ Len(b) \in Nat \ {0} /\ RecordSize \in Nat \ {0} /\ BufferBytes \in Nat
        /\ excess \in Int /\ Len(b) * RecordSize = BufferBytes + excess
    BY MeterAssumption
  <1>1. CASE excess > RecordSize
    <2>1. CleanOldRecords(b) = SubSeq(b, q, Len(b))
      BY <1>1 DEF CleanOldRecords
    <2>2. q \in Nat /\ q * RecordSize <= excess /\ excess < q * RecordSize + RecordSize
      <3>1. excess \in Nat
        BY <1>0, <1>1
      <3>. HIDE DEF excess
      <3>. QED  BY <1>0, <3>1, Division
    <2>. HIDE DEF q, excess
    <2>3. q # 0
      BY <1>0, <1>1, <2>2
    <2>4. q <= Len(b)
      <3>1. SUFFICES ASSUME q >= Len(b) + 1 PROVE FALSE
        BY <1>0, <2>2
      <3>2. PICK d \in Nat : q = Len(b) + 1 + d
        <4>1. q - Len(b) - 1 \in Nat
          BY <1>0, <2>2, <3>1
        <4>. QED  BY <1>0, <2>2, <4>1
      <3>3. q * RecordSize = Len(b) * RecordSize + RecordSize + d * RecordSize
            /\ d * RecordSize \in Nat
        BY <1>0, <3>2
      <3>. QED  BY <1>0, <2>2, <3>3
    <2>5. /\ SubSeq(b, q, Len(b)) \in Seq(Nat) /\ q \in 1..Len(b)
          /\ Len(SubSeq(b, q, Len(b))) = Len(b) - q + 1
      BY <1>0, <2>2, <2>3, <2>4
    <2>6. (Len(b) - q + 1) * RecordSize = Len(b) * RecordSize - q * RecordSize + RecordSize
      BY <1>0, <2>2
    <2>7. q * RecordSize \in Int /\ Len(b) * RecordSize \in Int
      BY <1>0, <2>2
    <2>8. (Len(b) - q + 1) * RecordSize < BufferBytes + 2 * RecordSize
      BY <1>0, <2>2, <2>6, <2>7
    <2>. QED  BY <2>1, <2>5, <2>8
  <1>2. CASE ~(excess > RecordSize)
    <2>1. CleanOldRecords(b) = b
      BY <1>2 DEF CleanOldRecords
    <2>2. Len(b) * RecordSize < BufferBytes + 2 * RecordSize
      <3>1. Len(b) * RecordSize \in Int
        BY <1>0
      <3>. HIDE DEF excess
      <3>. QED  BY <1>0, <1>2, <3>1
    <2>3. b = SubSeq(b, 1, Len(b)) /\ 1 \in 1..Len(b)
      BY <1>0
    <2>. QED  BY <2>1, <2>2, <2>3
  <1>. QED  BY <1>1, <1>2

\* ... and the last record always.
LEMMA LastKept ==
    ASSUME NEW b \in Seq(Nat), b # << >>
    PROVE  LET c == CleanOldRecords(b) IN
           /\ Len(c) \in 1..Len(b)
           /\ \A i \in 0..(Len(c) - 1) : c[Len(c) - i] = b[Len(b) - i]
  <1>1. PICK k \in 1..Len(b) : CleanOldRecords(b) = SubSeq(b, k, Len(b))
    BY CleanedFacts
  <1>2. /\ Len(SubSeq(b, k, Len(b))) = Len(b) - k + 1
        /\ \A j \in 1..(Len(b) - k + 1) : SubSeq(b, k, Len(b))[j] = b[k + j - 1]
    OBVIOUS
  <1>. QED  BY <1>1, <1>2

-----------------------------------------------------------------------------
(* Types *)

\* A socket's package is being read.
Settling == /\ at \in DOMAIN Order
            /\ \E s \in Sockets : Order[at] = Pkg(s)

TypeInv == TypeOK /\ (pc = "settle" => Settling)

\* The initial states are typed.
LEMMA TypeInit == Init => TypeInv
  <1>. SUFFICES ASSUME Init PROVE TypeInv
    OBVIOUS
  <1>1. counter \in [Counters -> CounterValues]
    BY MeterAssumption DEF Init, CounterValues
  <1>2. slot \in [Sockets -> SlotType] /\ EmptySlot \in SlotType
    BY DEF Init, EmptySlot, SlotType, Tags
  <1>3. 0 < BufferBytes + 2 * RecordSize
    BY MeterAssumption
  <1>4. Len(totals) * RecordSize < BufferBytes + 2 * RecordSize /\ totals \in Seq(Nat)
    BY <1>3, MeterAssumption DEF Init
  <1>. QED  BY <1>1, <1>2, <1>4 DEF Init, TypeInv, TypeOK, CounterValues, Unknown

\* What the timer probe writes is typed.
LEMMA TimerTyped ==
    ASSUME TypeInv, NEW s \in Sockets, Timer(s)
    PROVE  TypeInv'
  <1>0. /\ slot \in [Sockets -> SlotType] /\ slot[s] \in SlotType
        /\ probe \in [Sockets -> {"off", "looked", "outdated", "hashed"}]
    BY DEF TypeInv, TypeOK
  <1>1. TimerTag \in Tags /\ "stale" \in Tags
    BY DEF TimerTag, Tags
  <1>2. CASE TagSlot(s)
    <2>1. slot' \in [Sockets -> SlotType]
      BY <1>0, <1>1, <1>2 DEF TagSlot, SlotType
    <2>. QED  BY <1>2, <2>1
              DEF TagSlot, TypeInv, TypeOK, Settling, Order, Summed, platform,
                  exporter, enclave, history
  <1>3. CASE LookAtSlot(s)
    <2>1. probe' \in [Sockets -> {"off", "looked", "outdated", "hashed"}]
      BY <1>0, <1>3 DEF LookAtSlot
    <2>. QED  BY <1>3, <2>1
              DEF LookAtSlot, TypeInv, TypeOK, Settling, Order, Summed, platform,
                  exporter, enclave, history
  <1>4. CASE StoreHash(s)
    <2>. DEFINE t == IF probe[s] = "looked" THEN TimerTag ELSE "stale"
    <2>1. slot' = [slot EXCEPT ![s].tag = t] /\ t \in Tags
      BY <1>1, <1>4 DEF StoreHash
    <2>. HIDE DEF t
    <2>2. slot' \in [Sockets -> SlotType]
      BY <1>0, <2>1 DEF SlotType
    <2>3. probe' \in [Sockets -> {"off", "looked", "outdated", "hashed"}]
      BY <1>0, <1>4 DEF StoreHash
    <2>. QED  BY <1>4, <2>2, <2>3
              DEF StoreHash, TypeInv, TypeOK, Settling, Order, Summed, platform,
                  exporter, enclave, history
  <1>5. CASE SetValid(s)
    <2>1. slot' \in [Sockets -> SlotType]
      BY <1>0, <1>5 DEF SetValid, SlotType
    <2>2. probe' \in [Sockets -> {"off", "looked", "outdated", "hashed"}]
      BY <1>0, <1>5 DEF SetValid
    <2>. QED  BY <1>5, <2>1, <2>2
              DEF SetValid, TypeInv, TypeOK, Settling, Order, Summed, platform,
                  exporter, enclave, history
  <1>. QED  BY <1>2, <1>3, <1>4, <1>5 DEF Timer

\* A burn keeps types; a counter stays below its range.
LEMMA BurnTyped ==
    ASSUME TypeInv, NEW c \in Counters, Burn(c)
    PROVE  TypeInv'
  <1>0. /\ counter \in [Counters -> CounterValues] /\ counter[c] \in Nat
        /\ burned \in [Counters -> Nat]
    BY MeterAssumption DEF TypeInv, TypeOK, CounterValues
  <1>1. (counter[c] + 1) % MaxRange \in CounterValues
    BY <1>0, Division, MeterAssumption, SMTT(30) DEF CounterValues
  <1>2. counter' \in [Counters -> CounterValues]
    BY <1>0, <1>1 DEF Burn
  <1>3. burned' \in [Counters -> Nat]
    BY <1>0 DEF Burn
  <1>. QED  BY <1>2, <1>3 DEF Burn, TypeInv, TypeOK, CounterValues, Settling, Order, Summed,
                              platform, ebpf, exporter, enclave

\* The slot and the probe of a package that is read.
LEMMA SlotTyped ==
    ASSUME slot \in [Sockets -> SlotType],
           probe \in [Sockets -> {"off", "looked", "outdated", "hashed"}], NEW s, NEW e
    PROVE  /\ StoreReading(s, e) => slot' \in [Sockets -> SlotType]
           /\ Outdate(s) => probe' \in [Sockets -> {"off", "looked", "outdated", "hashed"}]
           /\ [slot EXCEPT ![s].valid = FALSE] \in [Sockets -> SlotType]
           /\ [slot EXCEPT ![s] = [full |-> TRUE, tag |-> "right", valid |-> TRUE]]
                \in [Sockets -> SlotType]
           /\ [slot EXCEPT ![s].tag = "none", ![s].valid = FALSE] \in [Sockets -> SlotType]
  <1>1. ASSUME StoreReading(s, e) PROVE slot' \in [Sockets -> SlotType]
    <2>. DEFINE full == e # 0
    <2>1. /\ full \in BOOLEAN
          /\ slot' = [slot EXCEPT ![s] = [full |-> full, tag |-> "none", valid |-> FALSE]]
      BY <1>1 DEF StoreReading
    <2>. HIDE DEF full
    <2>2. [full |-> full, tag |-> "none", valid |-> FALSE] \in SlotType
      BY <2>1 DEF SlotType, Tags
    <2>. QED  BY <2>1, <2>2
  <1>2. Outdate(s) => probe' \in [Sockets -> {"off", "looked", "outdated", "hashed"}]
    BY DEF Outdate
  <1>3. [slot EXCEPT ![s].valid = FALSE] \in [Sockets -> SlotType]
    BY DEF SlotType
  <1>4. [slot EXCEPT ![s] = [full |-> TRUE, tag |-> "right", valid |-> TRUE]]
                \in [Sockets -> SlotType]
    BY DEF SlotType, Tags
  <1>5. [slot EXCEPT ![s].tag = "none", ![s].valid = FALSE] \in [Sockets -> SlotType]
    BY DEF SlotType, Tags
  <1>. QED  BY <1>1, <1>2, <1>3, <1>4, <1>5

\* The energy of an interval is the difference of the last two records.
LEMMA IntervalFacts ==
    ASSUME NEW b \in Seq(Nat)
    PROVE  \A d \in Interval(b) : /\ d \in Nat /\ Len(b) >= 2
                                  /\ b[Len(b)] \in Nat /\ b[Len(b) - 1] \in Nat
                                  /\ d = b[Len(b)] - b[Len(b) - 1]
  <1>. SUFFICES ASSUME NEW d \in Interval(b)
                PROVE  /\ d \in Nat /\ Len(b) >= 2
                       /\ b[Len(b)] \in Nat /\ b[Len(b) - 1] \in Nat
                       /\ d = b[Len(b)] - b[Len(b) - 1]
    OBVIOUS
  <1>1. Len(b) > 1 /\ b[Len(b) - 1] <= b[Len(b)] /\ d = b[Len(b)] - b[Len(b) - 1]
    BY DEF Interval
  <1>2. b[Len(b)] \in Nat /\ b[Len(b) - 1] \in Nat
    BY <1>1
  <1>. QED  BY <1>1, <1>2

\* What Record writes has the right types.
RecordTyped ==
    /\ totals' \in Seq(Nat) /\ totals' # << >>
    /\ Len(totals') * RecordSize < BufferBytes + 2 * RecordSize
    /\ first' \in Nat \cup {Unknown} /\ diff' \in Nat
    /\ tags' \subseteq Tags /\ pc' \in {"idle", "collect"} /\ pass' = "refresh"
    /\ at' = 1 /\ sum' = 0

\* Recording a total writes typed values.
LEMMA RecordFacts ==
    ASSUME TypeInv, NEW total \in Nat, Record(total)
    PROVE  RecordTyped
  <1>. DEFINE b == CleanOldRecords(Append(totals, total))
  <1>1. Append(totals, total) \in Seq(Nat) /\ Append(totals, total) # << >>
    <2>1. totals \in Seq(Nat)
      BY DEF TypeInv, TypeOK
    <2>2. Append(totals, total) \in Seq(Nat) /\ Len(Append(totals, total)) = Len(totals) + 1
          /\ Len(totals) \in Nat
      BY <2>1
    <2>. QED  BY <2>2
  <1>2. /\ b \in Seq(Nat) /\ Len(b) \in 1..Len(Append(totals, total))
        /\ Len(b) * RecordSize < BufferBytes + 2 * RecordSize
    BY <1>1, CleanedFacts, LastKept
  <1>3. /\ totals' = b
        /\ first' = IF first = Unknown THEN total ELSE first
        /\ \/ Interval(b) = {} /\ Rest
           \/ /\ pc' = "collect" /\ diff' \in Interval(b)
              /\ pass' = "refresh" /\ at' = 1 /\ sum' = 0
              /\ UNCHANGED tags
    BY DEF Record
  <1>. HIDE DEF b
  <1>4. diff' \in Nat
    BY <1>2, <1>3, IntervalFacts DEF Rest
  <1>5. b # << >>
    BY <1>2
  <1>. QED  BY <1>2, <1>3, <1>4, <1>5 DEF TypeInv, TypeOK, Rest, RecordTyped

\* Every step is typed.
LEMMA TypeStep == TypeInv /\ [Next]_vars => TypeInv'
  <1>. SUFFICES ASSUME TypeInv, [Next]_vars PROVE TypeInv'
    OBVIOUS
  <1>0. /\ TypeOK /\ sum \in Nat /\ at \in Nat \ {0} /\ counter \in [Counters -> Nat]
        /\ slot \in [Sockets -> SlotType] /\ glitches \in Nat
        /\ probe \in [Sockets -> {"off", "looked", "outdated", "hashed"}]
        /\ (pc = "settle" => Settling) /\ totals \in Seq(Nat) /\ diff \in Nat
        /\ metered \in Nat /\ charged \in [Vms -> Nat] /\ reply \in [Vms -> Nat]
    <2>1. counter \in [Counters -> CounterValues] /\ CounterValues \subseteq Nat
      BY MeterAssumption DEF TypeInv, TypeOK, CounterValues
    <2>. QED  BY <2>1 DEF TypeInv, TypeOK
  <1>a. \A c \in Counters : Add(counter[c]) \in Nat
    BY <1>0 DEF Add
  <1>1. ASSUME NEW c \in Counters, Burn(c) PROVE TypeInv'
    BY <1>1, BurnTyped
  <1>2. ASSUME NEW s \in Sockets, Timer(s) PROVE TypeInv'
    BY <1>2, TimerTyped
  <1>3. CASE StartCycle
    BY <1>0, <1>3 DEF StartCycle, TypeInv, TypeOK, platform, ebpf, enclave, history
  <1>4. CASE ReadPackage
    <2>. DEFINE c == Order[at]
                s == c[2]
    <2>1. at \in DOMAIN Order /\ c \in Counters /\ c = Pkg(s)
      BY <1>4, OrderFacts DEF ReadPackage
    <2>2. \E t \in Sockets : Order[at] = Pkg(t)
      BY <2>1, OrderFacts, CounterFacts DEF Pkg, Dram
    <2>3. slot' \in [Sockets -> SlotType]
          /\ probe' \in [Sockets -> {"off", "looked", "outdated", "hashed"}]
      <3>1. CASE capture = "seeded"
        BY <1>0, <1>4, <3>1, SlotTyped DEF ReadPackage
      <3>2. CASE capture # "seeded"
        BY <1>0, <1>4, <3>2, SlotTyped, ZenonT(60) DEF ReadPackage
      <3>. QED  BY <3>1, <3>2
    <2>4. sum' \in Nat
      BY <1>0, <1>4, <1>a, <2>1 DEF ReadPackage
    <2>5. at' = at /\ Order' = Order /\ pc' = "settle"
      BY <1>4 DEF ReadPackage, Order, Summed, platform
    <2>6. Settling'
      BY <2>1, <2>2, <2>5 DEF Settling
    <2>. QED  BY <1>0, <1>4, <2>3, <2>4, <2>5, <2>6
              DEF ReadPackage, TypeInv, TypeOK, platform, enclave, history
  <1>5. CASE SettleSeeded
    <2>1. slot' \in [Sockets -> SlotType]
      BY <1>0, <1>5, SlotTyped DEF SettleSeeded
    <2>2. at' \in Nat \ {0} /\ pc' = "read"
      BY <1>0, <1>5 DEF SettleSeeded
    <2>. QED  BY <1>0, <1>5, <2>1, <2>2
              DEF SettleSeeded, TypeInv, TypeOK, platform, enclave, history
  <1>6. CASE SettleKernel
    <2>1. slot' \in [Sockets -> SlotType]
          /\ probe' \in [Sockets -> {"off", "looked", "outdated", "hashed"}]
      BY <1>0, <1>6, SlotTyped, ZenonT(60) DEF SettleKernel
    <2>2. Order[at] \in Counters
      BY <1>0, <1>6, OrderFacts DEF SettleKernel, Settling
    <2>3. sum' \in Nat /\ glitches' \in Nat
      BY <1>0, <1>6, <1>a, <2>2 DEF SettleKernel
    <2>4. at' \in Nat \ {0} /\ pc' = "read"
      BY <1>0, <1>6 DEF SettleKernel
    <2>. QED  BY <1>0, <1>6, <2>1, <2>3, <2>4
              DEF SettleKernel, TypeInv, TypeOK, platform, enclave
  <1>7. CASE ReadDram
    <2>1. sum' \in Nat
      BY <1>0, <1>7, <1>a, OrderFacts DEF ReadDram
    <2>2. at' \in Nat \ {0} /\ pc' = "read"
      BY <1>0, <1>7 DEF ReadDram
    <2>. QED  BY <1>0, <1>7, <2>1, <2>2
              DEF ReadDram, TypeInv, TypeOK, platform, ebpf, enclave, history
  <1>8. CASE ReadFails
    <2>1. at' \in Nat \ {0} /\ pc' = "read" /\ glitches' \in Nat
      BY <1>0, <1>8 DEF ReadFails
    <2>. QED  BY <1>0, <1>8, <2>1 DEF ReadFails, TypeInv, TypeOK, platform, ebpf, enclave
  <1>9. CASE ReadPlatform
    <2>1. RecordTyped
      BY <1>0, <1>9, CounterFacts, RecordFacts DEF ReadPlatform
    <2>. QED  BY <1>0, <1>9, <2>1
              DEF RecordTyped, ReadPlatform, TypeInv, TypeOK, platform, ebpf, enclave
  <1>10. CASE StartSum
    <2>1. glitches' \in Nat /\ pc' = "read"
      BY <1>0, <1>10 DEF StartSum
    <2>. QED  BY <1>0, <1>10, <2>1 DEF StartSum, TypeInv, TypeOK, platform, ebpf, enclave
  <1>11. CASE RecordSum
    <2>1. RecordTyped
      BY <1>0, <1>11, RecordFacts DEF RecordSum
    <2>. QED  BY <1>0, <1>11, <2>1
              DEF RecordTyped, RecordSum, TypeInv, TypeOK, platform, ebpf, enclave
  <1>12. CASE CollectReading
    <2>1. at \in Sockets => slot[at].tag \in Tags
      BY <1>0 DEF SlotType
    <2>2. tags' \subseteq Tags
      BY <1>0, <1>12, <2>1 DEF CollectReading, TypeOK
    <2>3. at' \in Nat \ {0} /\ pc' = "collect"
      BY <1>0, <1>12 DEF CollectReading
    <2>. QED  BY <1>0, <1>12, <2>2, <2>3
              DEF CollectReading, TypeInv, TypeOK, platform, ebpf, enclave, history
  <1>13. CASE Compute
    <2>1. reply' \in [Vms -> Nat]
      <3>1. \A u \in 0..Cores : Share(u, diff) \in Nat
        <4>1. \A u \in 0..Cores : u * diff \in Nat
          BY <1>0, MeterAssumption
        <4>. QED  BY <4>1, Division, MeterAssumption DEF Share
      <3>2. CASE TagsOk
        <4>1. PICK usage \in [Vms -> 0..Cores] : reply' = [v \in Vms |-> Share(usage[v], diff)]
          BY <1>13, <3>2 DEF Compute
        <4>. QED  BY <3>1, <4>1
      <3>. QED  BY <1>0, <1>13, <3>2 DEF Compute
    <2>2. status' \in {0, -2} /\ pc' = "answer"
      BY <1>13 DEF Compute
    <2>. QED  BY <1>0, <1>13, <2>1, <2>2 DEF Compute, TypeInv, TypeOK, platform, ebpf, history
  <1>14. CASE WriteUpdates
    <2>1. charged' \in [Vms -> Nat] /\ glitches' \in Nat
      BY <1>0, <1>14 DEF WriteUpdates
    <2>2. metered' \in Nat /\ reply' \in [Vms -> Nat]
      BY <1>0, <1>14 DEF WriteUpdates
    <2>. QED  BY <1>0, <1>14, <2>1, <2>2
              DEF WriteUpdates, Rest, TypeInv, TypeOK, platform, ebpf
  <1>15. CASE Rejected
    BY <1>0, <1>15 DEF Rejected, Rest, TypeInv, TypeOK, platform, ebpf, enclave, history
  <1>16. CASE Restart
    <2>1. slot' \in [Sockets -> SlotType]
          /\ probe' \in [Sockets -> {"off", "looked", "outdated", "hashed"}]
      BY <1>16 DEF Restart, EmptySlot, SlotType, Tags
    <2>2. totals' \in Seq(Nat) /\ Len(totals') * RecordSize < BufferBytes + 2 * RecordSize
      <3>1. totals' = << >> /\ 0 < BufferBytes + 2 * RecordSize
        BY <1>16, MeterAssumption DEF Restart
      <3>2. Len(totals') * RecordSize = 0
        BY <3>1, MeterAssumption
      <3>. QED  BY <3>1, <3>2
    <2>3. reply' \in [Vms -> Nat] /\ glitches' \in Nat
      BY <1>0, <1>16 DEF Restart
    <2>. QED  BY <1>0, <1>16, <2>1, <2>2, <2>3
              DEF Restart, Rest, TypeInv, TypeOK, platform
  <1>17. CASE UNCHANGED vars
    BY <1>0, <1>17 DEF vars, TypeInv, TypeOK, Settling, Order, Summed, platform, ebpf,
                       exporter, enclave, history
  <1>. QED  BY <1>1, <1>2, <1>3, <1>4, <1>5, <1>6, <1>7, <1>8, <1>9, <1>10, <1>11, <1>12,
               <1>13, <1>14, <1>15, <1>16, <1>17 DEF Next, Cycle, ReadCounters

\* TypeOK: every variable keeps its type, and the record buffer never outgrows
\* its size by more than two records.
THEOREM TypesHold == Spec => []TypeOK
  <1>1. TypeInv => TypeOK
    BY DEF TypeInv
  <1>. QED  BY <1>1, TypeInit, TypeStep, PTL DEF Spec

-----------------------------------------------------------------------------
(* The slots and their tags *)

\* The platform is chosen once.
LEMMA PlatformStays == [Next]_vars => UNCHANGED platform
  <1>. SUFFICES ASSUME [Next]_vars PROVE UNCHANGED platform
    OBVIOUS
  <1>1. ASSUME NEW s \in Sockets, Timer(s) PROVE UNCHANGED platform
    BY <1>1 DEF Timer, TagSlot, LookAtSlot, StoreHash, SetValid
  <1>2. ASSUME NEW c \in Counters, Burn(c) PROVE UNCHANGED platform
    BY <1>2 DEF Burn
  <1>3. ASSUME ReadCounters \/ ReadFails PROVE UNCHANGED platform
    BY <1>3 DEF ReadCounters, ReadPackage, SettleSeeded, SettleKernel, ReadDram, ReadFails
  <1>4. ASSUME StartCycle \/ ReadPlatform \/ StartSum \/ RecordSum PROVE UNCHANGED platform
    BY <1>4 DEF StartCycle, ReadPlatform, StartSum, RecordSum
  <1>5. ASSUME CollectReading \/ Compute \/ WriteUpdates \/ Rejected PROVE UNCHANGED platform
    BY <1>5 DEF CollectReading, Compute, WriteUpdates, Rejected
  <1>6. ASSUME Restart PROVE UNCHANGED platform
    BY <1>6 DEF Restart, platform
  <1>7. ASSUME UNCHANGED vars PROVE UNCHANGED platform
    BY <1>7 DEF vars
  <1>. QED  BY <1>1, <1>2, <1>3, <1>4, <1>5, <1>6, <1>7 DEF Next, Cycle

\* Neither an overlap, nor what leaves the other producer's tag in a slot.
Sound == /\ "overlap" \notin faults
         /\ capture = "kernel" => {"read", "wrap"} \cap faults = {}

\* The slot of a package in a kernel build: full and tagged by the probe on
\* the kernel's read, except between the hint and that probe.
Filled(s) ==
    /\ slot[s].full => HasSlot(s) /\ counter[Pkg(s)] # 0
    /\ ~slot[s].full => ~slot[s].valid
    /\ \/ pc = "settle" /\ Order[at] = Pkg(s)
       \/ slot[s].full => slot[s].valid /\ slot[s].tag = "right"

SlotRight(s) == IF capture = "seeded" THEN slot[s].valid => slot[s].tag = "right"
                                      ELSE Filled(s)

\* No timer probe is in the middle of a slot.
ProbesOff == \A s \in Sockets : probe[s] = "off"
\* What the enclave is shown is right.
RightTags == tags \subseteq {"right"} /\ status = 0

\* The invariant.
SlotsRight == Sound => ProbesOff /\ RightTags /\ \A s \in Sockets : SlotRight(s)

\* No slot is wrong initially.
LEMMA RightInit == Init => SlotsRight
  BY DEF Init, SlotsRight, ProbesOff, RightTags, SlotRight, EmptySlot, Filled

\* The timer probe tags a reading in a seeded build, and in a kernel build
\* only what the kernel's probe is about to overwrite.
LEMMA TimerRight ==
    ASSUME TypeInv, Sound, ProbesOff, RightTags, \A s \in Sockets : SlotRight(s),
           NEW t \in Sockets, Timer(t)
    PROVE  ProbesOff' /\ RightTags' /\ \A s \in Sockets : SlotRight(s)'
  <1>0. slot \in [Sockets -> SlotType] /\ capture \in {"seeded", "kernel"}
    BY DEF TypeInv, TypeOK
  <1>1. TagSlot(t)
    BY DEF Timer, LookAtSlot, StoreHash, SetValid, ProbesOff, Sound
  <1>2. /\ slot' = [slot EXCEPT ![t].tag = TimerTag, ![t].valid = TRUE]
        /\ slot[t].full /\ ~slot[t].valid
        /\ UNCHANGED <<platform, counter, probe, exporter, enclave, history>>
    BY <1>1 DEF TagSlot, Looks
  <1>3. /\ slot'[t].tag = TimerTag /\ slot'[t].valid = TRUE /\ slot'[t].full = slot[t].full
        /\ \A s \in Sockets \ {t} : slot'[s] = slot[s]
    BY <1>0, <1>2 DEF SlotType
  <1>4. ASSUME NEW s \in Sockets PROVE SlotRight(s)'
    <2>1. CASE s = t /\ capture = "seeded"
      BY <1>2, <1>3, <2>1 DEF SlotRight, TimerTag, platform
    <2>2. CASE s = t /\ capture # "seeded"
      <3>1. pc = "settle" /\ Order[at] = Pkg(t) /\ HasSlot(t) /\ counter[Pkg(t)] # 0
        BY <1>2, <2>2 DEF SlotRight, Filled
      <3>2. Order' = Order /\ at' = at /\ pc' = pc /\ counter' = counter /\ capture' = capture
        BY <1>2 DEF Order, Summed, exporter, platform
      <3>. QED  BY <1>2, <1>3, <2>2, <3>1, <3>2 DEF SlotRight, Filled
    <2>3. CASE s # t
      BY <1>2, <1>3, <2>3 DEF SlotRight, Filled, Order, Summed, platform, exporter
    <2>. QED  BY <2>1, <2>2, <2>3
  <1>. QED  BY <1>2, <1>4 DEF ProbesOff, RightTags, exporter, enclave

\* The probe on the kernel's read fills and tags the slot.
LEMMA SettleRight ==
    ASSUME TypeInv, Sound, ProbesOff, \A s \in Sockets : SlotRight(s), SettleKernel
    PROVE  ProbesOff' /\ \A s \in Sockets : SlotRight(s)'
  <1>0. /\ slot \in [Sockets -> SlotType] /\ capture = "kernel" /\ pc = "settle"
        /\ "read" \notin faults /\ capture' = capture
        /\ probe \in [Sockets -> {"off", "looked", "outdated", "hashed"}]
    BY DEF TypeInv, TypeOK, SettleKernel, Sound, platform
  <1>1. PICK t \in Sockets : Order[at] = Pkg(t)
    BY <1>0 DEF TypeInv, Settling
  <1>2. Order[at][2] = t
    BY <1>1, CounterFacts
  <1>3. IF HasSlot(t) /\ counter[Pkg(t)] # 0
        THEN /\ slot' = [slot EXCEPT ![t] = [full |-> TRUE, tag |-> "right", valid |-> TRUE]]
             /\ Outdate(t)
        ELSE UNCHANGED <<slot, probe>>
    BY <1>0, <1>1, <1>2 DEF SettleKernel
  <1>4. counter' = counter /\ pc' = "read"
    BY DEF SettleKernel
  <1>5. ASSUME NEW s \in Sockets PROVE SlotRight(s)'
    <2>1. CASE s = t
      <3>1. CASE HasSlot(t) /\ counter[Pkg(t)] # 0
        <4>1. /\ slot'[t].full = TRUE /\ slot'[t].tag = "right" /\ slot'[t].valid = TRUE
          BY <1>0, <1>3, <3>1
        <4>. QED  BY <1>0, <1>4, <2>1, <3>1, <4>1 DEF SlotRight, Filled, HasSlot
      <3>2. CASE ~(HasSlot(t) /\ counter[Pkg(t)] # 0)
        <4>1. slot' = slot /\ ~slot[t].full /\ ~slot[t].valid
          BY <1>0, <1>3, <3>2 DEF SlotRight, Filled
        <4>. QED  BY <1>0, <1>4, <2>1, <4>1 DEF SlotRight, Filled
      <3>. QED  BY <3>1, <3>2
    <2>2. CASE s # t
      <3>1. slot'[s] = slot[s]
        BY <1>0, <1>3, <2>2
      <3>2. Order[at] # Pkg(s)
        BY <1>1, <2>2, CounterFacts
      <3>. QED  BY <1>0, <1>4, <3>1, <3>2 DEF SlotRight, Filled
    <2>. QED  BY <2>1, <2>2
  <1>6. ProbesOff'
    BY <1>0, <1>3 DEF ProbesOff, Outdate
  <1>. QED  BY <1>5, <1>6

\* The exporter's own write clears the flag.
LEMMA PackageRight ==
    ASSUME TypeInv, Sound, ProbesOff, \A s \in Sockets : SlotRight(s), ReadPackage
    PROVE  ProbesOff' /\ \A s \in Sockets : SlotRight(s)'
  <1>0. /\ slot \in [Sockets -> SlotType] /\ capture \in {"seeded", "kernel"} /\ pc = "read"
        /\ capture' = capture /\ pc' = "settle" /\ at' = at /\ Order' = Order
        /\ probe \in [Sockets -> {"off", "looked", "outdated", "hashed"}]
        /\ at \in DOMAIN Order /\ counter' = counter
    BY DEF TypeInv, TypeOK, ReadPackage, Order, Summed, platform
  <1>1. PICK t \in Sockets : Order[at] = Pkg(t)
    BY <1>0, OrderFacts, CounterFacts DEF ReadPackage, Pkg, Dram
  <1>2. Order[at][2] = t
    BY <1>1, CounterFacts
  <1>3. CASE capture = "seeded"
    <2>1. IF HasSlot(t) THEN StoreReading(t, counter[Pkg(t)]) /\ Outdate(t)
                        ELSE UNCHANGED <<slot, probe>>
      BY <1>1, <1>2, <1>3 DEF ReadPackage
    <2>2. ASSUME NEW s \in Sockets
          PROVE  /\ slot'[s] = slot[s] \/ ~slot'[s].valid
                 /\ probe'[s] = "off"
      BY <1>0, <2>1 DEF StoreReading, Outdate, ProbesOff
    <2>. QED  BY <1>0, <1>3, <2>2 DEF ProbesOff, SlotRight
  <1>4. CASE capture # "seeded"
    <2>1. /\ slot' = IF HasSlot(t) THEN [slot EXCEPT ![t].valid = FALSE] ELSE slot
          /\ probe' = probe
      BY <1>1, <1>2, <1>4 DEF ReadPackage
    <2>2. /\ slot'[t].full = slot[t].full /\ slot'[t].tag = slot[t].tag
          /\ slot'[t].valid \in {slot[t].valid, FALSE}
          /\ \A s \in Sockets \ {t} : slot'[s] = slot[s]
      BY <1>0, <2>1 DEF SlotType
    <2>3. ASSUME NEW s \in Sockets PROVE SlotRight(s)'
      <3>1. Filled(s) /\ pc # "settle"
        BY <1>0, <1>4 DEF SlotRight
      <3>2. CASE s = t
        BY <1>0, <1>1, <1>4, <2>2, <3>1, <3>2 DEF SlotRight, Filled, HasSlot
      <3>3. CASE s # t
        BY <1>0, <1>4, <2>2, <3>1, <3>3 DEF SlotRight, Filled
      <3>. QED  BY <3>2, <3>3
    <2>. QED  BY <2>1, <2>3 DEF ProbesOff
  <1>. QED  BY <1>3, <1>4

\* A counter that does not wrap does not come back to 0.
LEMMA BurnRight ==
    ASSUME TypeInv, Sound, \A s \in Sockets : SlotRight(s), NEW c \in Counters, Burn(c)
    PROVE  \A s \in Sockets : SlotRight(s)'
  <1>0. /\ counter \in [Counters -> CounterValues] /\ capture \in {"seeded", "kernel"}
        /\ slot' = slot /\ pc' = pc /\ at' = at /\ Order' = Order /\ capture' = capture
    BY DEF TypeInv, TypeOK, CounterValues, Burn, Order, Summed, ebpf, exporter, platform
  <1>1. CASE capture = "seeded"
    BY <1>0, <1>1 DEF SlotRight
  <1>2. CASE capture = "kernel"
    <2>1. counter[c] + 1 < MaxRange /\ counter' = [counter EXCEPT ![c] = (@ + 1) % MaxRange]
      BY <1>2 DEF Burn, Sound
    <2>2. \A d \in Counters : counter[d] # 0 => counter'[d] # 0
      <3>1. counter[c] \in Nat
        BY <1>0, MeterAssumption DEF CounterValues
      <3>2. (counter[c] + 1) % MaxRange = counter[c] + 1
        BY <2>1, <3>1, MeterAssumption
      <3>3. counter[c] + 1 # 0
        BY <3>1
      <3>. QED  BY <1>0, <2>1, <3>2, <3>3
    <2>. QED  BY <1>0, <1>2, <2>2, CounterFacts DEF SlotRight, Filled
  <1>. QED  BY <1>0, <1>1, <1>2

\* Every step keeps the slots right.
LEMMA RightStep == TypeInv /\ SlotsRight /\ [Next]_vars => SlotsRight'
  <1>. SUFFICES ASSUME TypeInv, SlotsRight, [Next]_vars, Sound'
                PROVE  ProbesOff' /\ RightTags' /\ \A s \in Sockets : SlotRight(s)'
    BY DEF SlotsRight
  <1>0. /\ UNCHANGED platform /\ Sound /\ ProbesOff /\ RightTags
        /\ \A s \in Sockets : SlotRight(s)
    BY PlatformStays DEF SlotsRight, Sound, platform
  <1>t. slot \in [Sockets -> SlotType] /\ capture \in {"seeded", "kernel"}
        /\ faults' = faults /\ capture' = capture /\ Summed' = Summed
    BY <1>0 DEF TypeInv, TypeOK, platform, Summed
  \* Steps that leave the slots, and the exporter not at a package.
  <1>s. ASSUME slot' = slot, probe' = probe, counter' = counter,
               capture = "kernel" => pc # "settle"
        PROVE  ProbesOff' /\ \A s \in Sockets : SlotRight(s)'
    <2>1. ProbesOff'
      BY <1>0, <1>s DEF ProbesOff
    <2>2. ASSUME NEW s \in Sockets PROVE SlotRight(s)'
      BY <1>0, <1>t, <1>s DEF SlotRight, Filled, HasSlot
    <2>. QED  BY <2>1, <2>2
  <1>1. ASSUME NEW c \in Counters, Burn(c)
        PROVE  ProbesOff' /\ RightTags' /\ \A s \in Sockets : SlotRight(s)'
    BY <1>0, <1>1, BurnRight DEF Burn, ProbesOff, RightTags, ebpf, exporter, enclave
  <1>2. ASSUME NEW s \in Sockets, Timer(s)
        PROVE  ProbesOff' /\ RightTags' /\ \A x \in Sockets : SlotRight(x)'
    BY <1>0, <1>2, TimerRight
  <1>3. CASE StartCycle \/ ReadDram
    BY <1>0, <1>3, <1>s DEF StartCycle, ReadDram, RightTags, ebpf, enclave
  <1>4. CASE ReadPackage
    BY <1>0, <1>4, PackageRight DEF ReadPackage, RightTags, enclave
  <1>5. CASE SettleSeeded
    <2>1. ASSUME NEW s \in Sockets PROVE slot'[s] = slot[s] \/ ~slot'[s].valid
      BY <1>t, <1>5 DEF SettleSeeded, SlotType
    <2>. QED  BY <1>0, <1>t, <1>5, <2>1
              DEF SettleSeeded, SlotRight, ProbesOff, RightTags, enclave
  <1>6. CASE SettleKernel
    BY <1>0, <1>6, SettleRight DEF SettleKernel, RightTags, enclave
  <1>7. CASE ReadFails \/ StartSum
    BY <1>0, <1>7, <1>s DEF ReadFails, StartSum, RightTags, ebpf, enclave
  <1>8. CASE ReadPlatform \/ RecordSum
    <2>1. tags' \in {tags, {}}
      BY <1>8 DEF ReadPlatform, RecordSum, Record, Rest
    <2>2. /\ slot' = slot /\ probe' = probe /\ counter' = counter /\ status' = status
          /\ pc = "read"
      BY <1>8 DEF ReadPlatform, RecordSum, ebpf, enclave
    <2>. QED  BY <1>0, <1>s, <2>1, <2>2 DEF RightTags
  <1>9. CASE CollectReading
    <2>1. /\ slot' = slot /\ probe' = probe /\ counter' = counter /\ status' = status
          /\ pc = "collect" /\ at \in Sockets
      BY <1>9 DEF CollectReading, ebpf, enclave
    <2>2. slot[at].valid => slot[at].tag = "right"
      BY <1>0, <2>1 DEF SlotRight, Filled
    <2>3. tags' \subseteq tags \cup {"right"}
      BY <1>0, <1>9, <2>1, <2>2 DEF CollectReading, ProbesOff
    <2>. QED  BY <1>0, <1>s, <2>1, <2>3 DEF RightTags
  <1>10. CASE Compute
    <2>1. TagsOk
      BY <1>0 DEF TagsOk, RightTags
    <2>. QED  BY <1>0, <1>10, <1>s, <2>1 DEF Compute, RightTags, ebpf
  <1>11. CASE WriteUpdates \/ Rejected
    BY <1>0, <1>11, <1>s DEF WriteUpdates, Rejected, Rest, RightTags, ebpf, enclave
  <1>12. CASE Restart
    <2>1. \A s \in Sockets : slot'[s] = EmptySlot /\ probe'[s] = "off"
      BY <1>12 DEF Restart
    <2>2. tags' = {} /\ status' = 0
      BY <1>12 DEF Restart, Rest
    <2>. QED  BY <2>1, <2>2 DEF ProbesOff, RightTags, SlotRight, Filled, EmptySlot
  <1>13. CASE UNCHANGED vars
    <2>1. Order' = Order /\ slot' = slot /\ pc' = pc /\ at' = at /\ counter' = counter
      BY <1>t, <1>13 DEF vars, Order, ebpf, exporter
    <2>. QED  BY <1>0, <1>t, <1>13, <2>1
              DEF vars, ebpf, exporter, enclave, ProbesOff, RightTags, SlotRight, Filled
  <1>. QED  BY <1>1, <1>2, <1>3, <1>4, <1>5, <1>6, <1>7, <1>8, <1>9, <1>10, <1>11, <1>12,
               <1>13 DEF Next, Cycle, ReadCounters

\* NoFalseAlarm: a cycle is rejected only if the timer probe overlapped with
\* the exporter or, in a kernel build, a read failed or a counter wrapped.
THEOREM AlarmsHaveReasons == Spec => []NoFalseAlarm
  <1>1. TypeInv /\ SlotsRight => NoFalseAlarm
    BY DEF TypeInv, TypeOK, SlotsRight, Sound, RightTags, NoFalseAlarm
  <1>. QED  BY <1>1, TypeInit, TypeStep, RightInit, RightStep, PTL DEF Spec

-----------------------------------------------------------------------------
(* What the sums range over *)

\* There are finitely many counters.
LEMMA CountersFinite == IsFiniteSet(Counters) /\ Metered \subseteq Counters
  <1>. DEFINE p == [s \in Sockets |-> Pkg(s)]
              d == [s \in Sockets |-> Dram(s)]
              P == {Pkg(s) : s \in Sockets}
              D == {Dram(s) : s \in Sockets}
  <1>1. IsFiniteSet(Sockets)
    BY MeterAssumption, FS_Interval DEF Sockets
  <1>2. p \in Surjection(Sockets, P) /\ d \in Surjection(Sockets, D)
    BY DEF Surjection
  <1>3. IsFiniteSet(P) /\ IsFiniteSet(D)
    <2>. HIDE DEF p, d, P, D
    <2>. QED  BY <1>1, <1>2, FS_Surjection
  <1>4. Counters = ({Psys} \cup P) \cup D
    BY DEF Counters
  <1>5. IsFiniteSet({Psys} \cup P)
    <2>. HIDE DEF P
    <2>. QED  BY <1>3, FS_Union, FS_Singleton
  <1>6. IsFiniteSet(Counters)
    <2>. HIDE DEF P, D
    <2>. QED  BY <1>3, <1>4, <1>5, FS_Union
  <1>7. Metered \subseteq Counters
    BY SummedFacts, CounterFacts DEF Metered
  <1>. QED  BY <1>6, <1>7

\* No counter is in the total twice.
LEMMA SummedOnce == \A j, k \in DOMAIN Summed : Summed[j] = Summed[k] => j = k
  <1>1. CASE "dram" \in parts
    <2>1. Summed = [k \in 1..(2 * Count) |->
                      IF k % 2 = 1 THEN Pkg((k + 1) \div 2) ELSE Dram(k \div 2)]
      BY <1>1 DEF Summed
    <2>2. 2 * Count \in Nat
      BY MeterAssumption
    <2>3. \A j, k \in 1..(2 * Count) :
             /\ j % 2 = 1 /\ k % 2 = 1 /\ (j + 1) \div 2 = (k + 1) \div 2 => j = k
             /\ j % 2 # 1 /\ k % 2 # 1 /\ j \div 2 = k \div 2 => j = k
      BY <2>2
    <2>4. \A s, t : /\ Pkg(s) = Pkg(t) => s = t
                    /\ Dram(s) = Dram(t) => s = t
                    /\ Pkg(s) # Dram(t)
      BY DEF Pkg, Dram
    <2>. QED  BY <2>1, <2>2, <2>3, <2>4
  <1>2. CASE "dram" \notin parts
    BY <1>2, MeterAssumption DEF Summed, Packages, Sockets, Pkg
  <1>. QED  BY <1>1, <1>2

\* Energy that was burned without the counter showing it.
Lost == [c \in Counters |-> burned[c] - counter[c]]

\* The counters that the pass for the total has still to read.
ToRead == IF pc = "settle" /\ capture = "seeded" THEN at + 1 ELSE at
Unread == IF pass = "total" THEN {Summed[k] : k \in ToRead..Len(Summed)} ELSE Metered

Charged == SumOver(charged, Vms)
Burned(S) == SumOver(burned, S)

\* What the VMs are about to be charged with.
Pending ==
    IF pc = "collect" THEN diff
    ELSE IF pc = "answer" /\ status = 0 THEN SumOver(reply, Vms) ELSE 0

\* w is what was lost before the readings of the last total, r what was lost
\* before those of the present pass.
Within(w, r) ==
    /\ pass = "refresh" => r = 0
    /\ Charged + Pending <= sum + r + Burned(Unread)
    /\ sum + r + Burned(Unread) <= Burned(Metered)
    /\ r + SumOver(Lost, Unread) <= SumOver(Lost, Metered)
    /\ totals # << >> => /\ Charged + Pending <= totals[Len(totals)] + w
                         /\ w <= r + SumOver(Lost, Unread)

\* Where the exporter is in a pass.
PassInv ==
    /\ pass = "total" => /\ pc \in {"read", "settle"} /\ "psys" \notin parts
                         /\ at <= Len(Summed) + 1
                         /\ pc = "settle" => at <= Len(Summed)
    /\ pass = "refresh" => sum = 0

\* The invariant.
EnergyInv == "read" \notin faults => PassInv /\ \E w, r \in Int : Within(w, r)

\* What the sums are over, and of.
EnergyTypes ==
    /\ Unread \in SUBSET Counters /\ Metered \in SUBSET Counters
    /\ IsFiniteSet(Unread) /\ IsFiniteSet(Metered)
    /\ \A c \in Counters : /\ burned[c] \in Nat /\ counter[c] \in Nat
                           /\ Lost[c] \in Int /\ Lost[c] = burned[c] - counter[c]
    /\ \A S \in SUBSET Counters :
          IsFiniteSet(S) /\ SumOver(burned, S) \in Int /\ SumOver(Lost, S) \in Int
    /\ Charged \in Nat /\ SumOver(reply, Vms) \in Nat
    /\ Pending \in Nat /\ sum \in Nat
    /\ totals # << >> => totals[Len(totals)] \in Nat

\* They are numbers.
LEMMA EnergyTyped == TypeInv => EnergyTypes
  <1>. SUFFICES ASSUME TypeInv PROVE EnergyTypes
    OBVIOUS
  <1>1. Unread \in SUBSET Counters /\ Metered \in SUBSET Counters
    <2>1. ToRead \in Nat \ {0}
      BY DEF TypeInv, TypeOK, ToRead
    <2>2. \A k \in ToRead..Len(Summed) : Summed[k] \in Counters
      BY <2>1, SummedFacts, CounterFacts
    <2>. QED  BY <2>2, CountersFinite DEF Unread
  <1>2. \A c \in Counters : /\ burned[c] \in Nat /\ counter[c] \in Nat
                            /\ Lost[c] \in Int /\ Lost[c] = burned[c] - counter[c]
    BY MeterAssumption DEF TypeInv, TypeOK, Lost
  <1>3. ASSUME NEW S \in SUBSET Counters
        PROVE  IsFiniteSet(S) /\ SumOver(burned, S) \in Int /\ SumOver(Lost, S) \in Int
    <2>1. \A c \in Counters : burned[c] \in Int
      BY <1>2
    <2>. QED  BY <1>2, <2>1, CountersFinite, FS_Subset, SumIsInt
  <1>4. Charged \in Nat /\ SumOver(reply, Vms) \in Nat
    BY MeterAssumption, SumIsNat DEF Charged, TypeInv, TypeOK
  <1>5. Pending \in Nat /\ sum \in Nat
    BY <1>4 DEF Pending, TypeInv, TypeOK
  <1>6. totals # << >> => totals[Len(totals)] \in Nat
    BY DEF TypeInv, TypeOK
  <1>. QED  BY <1>1, <1>2, <1>3, <1>4, <1>5, <1>6, CountersFinite, FS_Subset DEF EnergyTypes

-----------------------------------------------------------------------------
(* Burning, reading and resting *)

\* They are numbers after a step.
LEMMA EnergyTypedNext == TypeInv' => EnergyTypes'
  BY EnergyTyped, PTL

\* A step that burns, reads and charges nothing.
LEMMA StillWithin ==
    ASSUME TypeInv, TypeInv', NEW w \in Int, NEW r \in Int, Within(w, r),
           UNCHANGED <<counter, burned, totals>>, sum' = sum,
           Unread' = Unread, Metered' = Metered, pass' = "refresh" => r = 0,
           Charged' + Pending' <= Charged + Pending
    PROVE  Within(w, r)'
  <1>1. Lost' = Lost
    BY DEF Lost
  <1>2. /\ Charged + Pending \in Int /\ Charged' + Pending' \in Int
        /\ sum \in Int /\ Burned(Unread) \in Int
    BY EnergyTyped, EnergyTypedNext DEF EnergyTypes, Burned
  <1>3. totals # << >> => totals[Len(totals)] \in Int
    BY DEF TypeInv, TypeOK
  <1>. QED  BY <1>1, <1>2, <1>3 DEF Within, Burned

\* A counter is read: what it lost so far moves from the future to the past.
LEMMA ReadWithin ==
    ASSUME TypeInv, TypeInv', NEW w \in Int, NEW r \in Int, Within(w, r),
           NEW c \in Unread, Unread' = Unread \ {c}, Metered' = Metered,
           UNCHANGED <<counter, burned, totals>>, sum' = sum + counter[c],
           pass' = "total", Charged' + Pending' = Charged + Pending
    PROVE  \E q \in Int : Within(w, q)'
  <1>1. Lost' = Lost
    BY DEF Lost
  <1>2. /\ c \in Counters /\ sum \in Int /\ burned[c] \in Int /\ counter[c] \in Int
        /\ Lost[c] = burned[c] - counter[c]
        /\ Unread \ {c} \in SUBSET Counters
    BY EnergyTyped DEF EnergyTypes, Burned
  <1>3. /\ Burned(Unread) = burned[c] + Burned(Unread \ {c})
        /\ SumOver(Lost, Unread) = Lost[c] + SumOver(Lost, Unread \ {c})
    <2>1. /\ \A x \in Unread : burned[x] \in Int /\ Lost[x] \in Int
          /\ IsFiniteSet(Unread) /\ Unread \in SUBSET Unread
      BY EnergyTyped DEF EnergyTypes, Burned
    <2>. QED  BY <2>1, SumSplits DEF Burned
  <1>4. /\ Burned(Unread \ {c}) \in Int /\ SumOver(Lost, Unread \ {c}) \in Int
    BY <1>2, EnergyTyped DEF EnergyTypes, Burned
  <1>. DEFINE U == Unread \ {c}
  <1>q. PICK q \in Int : q = r + Lost[c]
    BY EnergyTyped DEF EnergyTypes
  <1>5. sum + r + Burned(Unread) = (sum + counter[c]) + q + Burned(U)
    BY <1>q, <1>2, <1>3, <1>4
  <1>6. r + SumOver(Lost, Unread) = q + SumOver(Lost, U)
    BY <1>q, <1>2, <1>3, <1>4
  <1>7. /\ Charged + Pending <= (sum + counter[c]) + q + Burned(U)
        /\ (sum + counter[c]) + q + Burned(U) <= Burned(Metered)
        /\ q + SumOver(Lost, U) <= SumOver(Lost, Metered)
        /\ totals # << >> => /\ Charged + Pending <= totals[Len(totals)] + w
                             /\ w <= q + SumOver(Lost, U)
    BY <1>5, <1>6 DEF Within
  <1>8. /\ Burned(U)' = SumOver(burned, U) /\ Unread' = U
    BY DEF Burned
  <1>9. Within(w, q)'
    <2>. HIDE DEF U
    <2>. QED  BY <1>1, <1>7, <1>8 DEF Within, Burned
  <1>. QED  BY <1>9

\* Energy is burned: a counter shows it, or loses it.
LEMMA BurnWithin ==
    ASSUME TypeInv, TypeInv', NEW w \in Int, NEW r \in Int, Within(w, r), PassInv,
           NEW c \in Counters, Burn(c)
    PROVE  Within(w, r)'
  <1>0. /\ Unread' = Unread /\ Metered' = Metered /\ totals' = totals /\ sum' = sum
        /\ pass' = pass /\ Charged' = Charged /\ Pending' = Pending
    BY DEF Burn, Unread, Metered, ToRead, Summed, Charged, Pending, platform, exporter, enclave
  <1>1. Unread \subseteq Metered
    <2>1. ToRead \in Nat \ {0}
      BY DEF TypeInv, TypeOK, ToRead
    <2>2. pass = "total" => \A k \in ToRead..Len(Summed) : Summed[k] \in Metered
      BY <2>1, SummedFacts DEF PassInv, Metered
    <2>. QED  BY <2>2 DEF Unread
  <1>2. burned'[c] = burned[c] + 1 /\ \A x \in Counters \ {c} : burned'[x] = burned[x]
    BY DEF Burn, TypeInv, TypeOK
  <1>3. /\ counter'[c] <= counter[c] + 1
        /\ \A x \in Counters \ {c} : counter'[x] = counter[x]
    <2>1. counter[c] \in Nat /\ counter \in [Counters -> CounterValues]
      BY EnergyTyped DEF EnergyTypes, TypeInv, TypeOK, CounterValues
    <2>2. (counter[c] + 1) % MaxRange <= counter[c] + 1
      <3>1. counter[c] + 1 \in Nat
        BY <2>1
      <3>. QED  BY <3>1, MeterAssumption
    <2>. QED  BY <2>1, <2>2 DEF Burn
  <1>a. \A x \in Counters : /\ burned[x] \in Nat /\ counter[x] \in Nat
                            /\ Lost[x] \in Int /\ Lost[x] = burned[x] - counter[x]
    BY EnergyTyped DEF EnergyTypes
  <1>b. \A x \in Counters : /\ burned'[x] \in Nat /\ counter'[x] \in Nat
                            /\ Lost'[x] \in Int /\ Lost'[x] = burned'[x] - counter'[x]
    BY EnergyTypedNext DEF EnergyTypes
  <1>4. PICK d \in Nat : Lost'[c] = Lost[c] + d
    <2>1. Lost'[c] - Lost[c] \in Nat /\ Lost'[c] = Lost[c] + (Lost'[c] - Lost[c])
      <3>. HIDE DEF Lost
      <3>. QED  BY <1>2, <1>3, <1>a, <1>b
    <2>. QED  BY <2>1
  <1>5. \A x \in Counters \ {c} : Lost'[x] = Lost[x]
    BY <1>2, <1>3, <1>a, <1>b
  <1>6. ASSUME NEW S \in SUBSET Counters
        PROVE  /\ Burned(S) \in Int /\ SumOver(Lost, S) \in Int
               /\ SumOver(burned', S) = Burned(S) + (IF c \in S THEN 1 ELSE 0)
               /\ SumOver(Lost', S) = SumOver(Lost, S) + (IF c \in S THEN d ELSE 0)
    <2>0. Burned(S) \in Int /\ SumOver(Lost, S) \in Int /\ IsFiniteSet(S)
      BY EnergyTyped DEF EnergyTypes, Burned
    <2>. DEFINE b2 == burned'
                l1 == Lost
                l2 == Lost'
    <2>1. /\ \A x \in S : /\ burned[x] \in Int /\ b2[x] \in Int
                          /\ l1[x] \in Int /\ l2[x] \in Int
          /\ \A x \in S \ {c} : b2[x] = burned[x] /\ l2[x] = l1[x]
          /\ c \in S => b2[c] = burned[c] + 1 /\ l2[c] = l1[c] + d
      BY <1>2, <1>4, <1>5, <1>a, <1>b
    <2>. HIDE DEF b2, l1, l2
    <2>a. /\ \A x \in S : burned[x] \in Int /\ b2[x] \in Int
          /\ \A x \in S : l1[x] \in Int /\ l2[x] \in Int
          /\ \A x \in S \ {c} : b2[x] = burned[x]
          /\ \A x \in S \ {c} : l2[x] = l1[x]
      BY <2>1
    <2>2. SumOver(b2, S) = SumOver(burned, S) + (IF c \in S THEN b2[c] - burned[c] ELSE 0)
      BY <2>0, <2>a, SumChanged
    <2>3. SumOver(l2, S) = SumOver(l1, S) + (IF c \in S THEN l2[c] - l1[c] ELSE 0)
      BY <2>0, <2>a, SumChanged
    <2>4. c \in S => b2[c] - burned[c] = 1 /\ l2[c] - l1[c] = d
      BY <2>1
    <2>. QED  BY <2>0, <2>2, <2>3, <2>4 DEF b2, l1, l2, Burned
  <1>7. /\ Unread \in SUBSET Counters /\ Metered \in SUBSET Counters
        /\ Charged + Pending \in Int /\ sum \in Int
        /\ totals # << >> => totals[Len(totals)] \in Int
    BY EnergyTyped DEF EnergyTypes
  <1>8. /\ Burned(Unread)' = SumOver(burned', Unread)
        /\ Burned(Metered)' = SumOver(burned', Metered)
        /\ SumOver(Lost, Unread)' = SumOver(Lost', Unread)
        /\ SumOver(Lost, Metered)' = SumOver(Lost', Metered)
    BY <1>0 DEF Burned
  <1>. DEFINE bu == Burned(Unread)
              bm == Burned(Metered)
              lu == SumOver(Lost, Unread)
              lm == SumOver(Lost, Metered)
              e == Charged + Pending
              last == totals[Len(totals)]
  <1>9. /\ bu \in Int /\ bm \in Int /\ lu \in Int /\ lm \in Int
        /\ (bu)' = bu + (IF c \in Unread THEN 1 ELSE 0)
        /\ (bm)' = bm + (IF c \in Metered THEN 1 ELSE 0)
        /\ (lu)' = lu + (IF c \in Unread THEN d ELSE 0)
        /\ (lm)' = lm + (IF c \in Metered THEN d ELSE 0)
    BY <1>6, <1>7, <1>8
  <1>10. /\ e <= sum + r + bu /\ sum + r + bu <= bm /\ r + lu <= lm
         /\ totals # << >> => e <= last + w /\ w <= r + lu
    BY DEF Within
  <1>11. /\ pass' = "refresh" => r = 0
         /\ (e)' = e /\ (last)' = last
    BY <1>0 DEF Within
  <1>12. e \in Int /\ sum \in Int /\ (totals # << >> => last \in Int)
    BY <1>7
  <1>13. /\ (e)' <= sum' + r + (bu)' /\ sum' + r + (bu)' <= (bm)' /\ r + (lu)' <= (lm)'
         /\ totals' # << >> => (e)' <= (last)' + w /\ w <= r + (lu)'
    <2>. HIDE DEF bu, bm, lu, lm, e, last
    <2>. QED  BY <1>0, <1>1, <1>9, <1>10, <1>11, <1>12
  <1>. QED  BY <1>11, <1>13 DEF Within

-----------------------------------------------------------------------------
(* Shares and totals *)

\* The shares of the VMs are together not more than the energy that is split.
LEMMA SharesFit ==
    ASSUME NEW usage \in [Vms -> 0..Cores], NEW e \in Nat, SumOver(usage, Vms) <= Cores
    PROVE  SumOver([v \in Vms |-> Share(usage[v], e)], Vms) <= e
  <1>. DEFINE share == [v \in Vms |-> Share(usage[v], e)]
              G == {T \in SUBSET Vms : SumOver(share, T) * Cores <= SumOver(usage, T) * e}
  <1>0. Cores \in Nat \ {0} /\ IsFiniteSet(Vms)
    BY MeterAssumption
  <1>1. \A v \in Vms : /\ usage[v] \in Nat /\ share[v] \in Nat
                       /\ share[v] * Cores <= usage[v] * e
    <2>1. SUFFICES ASSUME NEW v \in Vms
                   PROVE  /\ usage[v] \in Nat /\ share[v] \in Nat
                          /\ share[v] * Cores <= usage[v] * e
      OBVIOUS
    <2>2. usage[v] \in Nat
      BY <1>0
    <2>3. PICK a \in Nat : a = usage[v] * e
      BY <2>2
    <2>4. share[v] = a \div Cores
      BY <2>3 DEF Share
    <2>. HIDE DEF share
    <2>. QED  BY <1>0, <2>2, <2>3, <2>4, Division
  <1>. HIDE DEF share
  <1>2. /\ \A T \in SUBSET Vms : SumOver(share, T) \in Int /\ SumOver(usage, T) \in Int
        /\ \A v \in Vms : share[v] \in Int /\ usage[v] \in Int
    <2>1. \A v \in Vms : share[v] \in Int /\ usage[v] \in Int
      BY <1>1
    <2>. QED  BY <1>0, <2>1, SumIsInt
  <1>3. ASSUME NEW T \in SUBSET Vms, \A U \in (SUBSET T) \ {T} : U \in G
        PROVE  T \in G
    <2>1. CASE T = {}
      BY <1>0, <2>1, SumOfNone
    <2>2. CASE T # {}
      <3>. DEFINE c == Some(T)
                  U == T \ {c}
      <3>1. c \in Vms /\ U \in (SUBSET T) \ {T} /\ U \in SUBSET Vms /\ IsFiniteSet(T)
        BY <1>0, <2>2, SomeIn, FS_Subset
      <3>2. /\ SumOver(share, T) = share[c] + SumOver(share, U)
            /\ SumOver(usage, T) = usage[c] + SumOver(usage, U)
        BY <2>2, <3>1, SumStarts
      <3>3. SumOver(share, U) * Cores <= SumOver(usage, U) * e
        BY <1>3, <3>1
      <3>. DEFINE p == SumOver(share, U)
                  q == SumOver(usage, U)
      <3>4. p \in Int /\ q \in Int /\ share[c] \in Int /\ usage[c] \in Int
        <4>. HIDE DEF U, c
        <4>. QED  BY <1>2, <3>1
      <3>5. share[c] * Cores <= usage[c] * e
        BY <1>1, <3>1
      <3>. DEFINE s == share[c]
                  n == usage[c]
      <3>. HIDE DEF p, q, s, n, U, c
      <3>6. (s + p) * Cores <= (n + q) * e
        <4>1. /\ (s + p) * Cores = s * Cores + p * Cores
              /\ (n + q) * e = n * e + q * e
              /\ s * Cores \in Int /\ p * Cores \in Int /\ n * e \in Int /\ q * e \in Int
          BY <1>0, <3>4 DEF s, n
        <4>. QED  BY <3>3, <3>5, <4>1 DEF p, q, s, n
      <3>. QED  BY <3>2, <3>6 DEF p, q, s, n
    <2>. QED  BY <2>1, <2>2
  <1>. HIDE DEF G
  <1>4. Vms \in G
    BY <1>0, <1>3, SubsetInduction
  <1>. DEFINE p == SumOver(share, Vms)
              q == SumOver(usage, Vms)
  <1>5. p * Cores <= q * e /\ p \in Int /\ q \in Int /\ q <= Cores
    BY <1>2, <1>4 DEF G
  <1>. HIDE DEF p, q
  <1>6. p <= e
    <2>1. q * e <= Cores * e
      <3>1. PICK k \in Nat : Cores = q + k
        <4>1. Cores - q \in Nat /\ Cores = q + (Cores - q)
          BY <1>0, <1>5
        <4>. QED  BY <4>1
      <3>2. Cores * e = q * e + k * e /\ k * e \in Nat /\ q * e \in Int
        BY <1>5, <3>1
      <3>. QED  BY <3>2
    <2>2. SUFFICES ASSUME p > e PROVE FALSE
      BY <1>5
    <2>3. PICK k \in Nat : p = e + 1 + k
      <3>1. p - e - 1 \in Nat /\ p = e + 1 + (p - e - 1)
        BY <1>5, <2>2
      <3>. QED  BY <3>1
    <2>4. p * Cores = e * Cores + Cores + k * Cores /\ k * Cores \in Nat
          /\ e * Cores \in Nat /\ Cores * e = e * Cores /\ q * e \in Int
      BY <1>0, <1>5, <2>3
    <2>. QED  BY <1>0, <1>5, <2>1, <2>4
  <1>. QED  BY <1>6 DEF p, share

\* A total is recorded: the interval is covered by what was burned since the
\* total before.
LEMMA RecordWithin ==
    ASSUME TypeInv, TypeInv', NEW w \in Int, NEW W \in Int, NEW x \in Nat, Record(x),
           UNCHANGED <<platform, counter, burned, charged, reply, status>>,
           pc = "read", x + W <= Burned(Metered), W <= SumOver(Lost, Metered),
           Charged <= x + W,
           totals # << >> => Charged <= totals[Len(totals)] + w /\ w <= W
    PROVE  Within(W, 0)'
  <1>. DEFINE a == Append(totals, x)
              b == CleanOldRecords(a)
  <1>1. /\ a \in Seq(Nat) /\ a # << >> /\ a[Len(a)] = x /\ Len(a) = Len(totals) + 1
        /\ totals # << >> => a[Len(a) - 1] = totals[Len(totals)]
    <2>1. totals \in Seq(Nat)
      BY DEF TypeInv, TypeOK
    <2>2. Len(totals) \in Nat /\ a \in Seq(Nat) /\ Len(a) = Len(totals) + 1
      BY <2>1
    <2>3. a[Len(totals) + 1] = x /\ \A i \in 1..Len(totals) : a[i] = totals[i]
      BY <2>1
    <2>5. Len(a) - 1 = Len(totals)
      <3>. HIDE DEF a
      <3>. QED  BY <2>2
    <2>4. a # << >> /\ (totals # << >> => Len(totals) >= 1)
      <3>1. totals # << >> => Len(totals) >= 1
        BY <2>1
      <3>2. a # << >>
        <4>1. Len(a) # 0
          BY <2>2
        <4>. QED  BY <4>1
      <3>. QED  BY <3>1, <3>2
    <2>. HIDE DEF a
    <2>6. totals # << >> => a[Len(a) - 1] = totals[Len(totals)]
      BY <2>2, <2>3, <2>4, <2>5
    <2>. QED  BY <2>2, <2>3, <2>4, <2>6
  <1>2. totals = << >> <=> Len(totals) = 0
    BY DEF TypeInv, TypeOK
  <1>3. /\ Len(b) \in 1..Len(a) /\ b[Len(b)] = x /\ b \in Seq(Nat)
        /\ Len(b) > 1 => b[Len(b) - 1] = a[Len(a) - 1]
    <2>. HIDE DEF a
    <2>1. /\ Len(b) \in 1..Len(a) /\ b \in Seq(Nat)
          /\ \A i \in 0..(Len(b) - 1) : b[Len(b) - i] = a[Len(a) - i]
      BY <1>1, LastKept, CleanedFacts
    <2>2. Len(a) \in Nat /\ Len(b) \in Nat
      BY <1>1, <2>1
    <2>. HIDE DEF b
    <2>3. PICK m \in Nat, n \in Nat : m = Len(b) /\ n = Len(a)
      BY <2>2
    <2>4. m \in 1..n /\ \A i \in 0..(m - 1) : b[m - i] = a[n - i]
      BY <2>1, <2>3
    <2>5. 0 \in 0..(m - 1) /\ m - 0 = m /\ n - 0 = n /\ (m > 1 => 1 \in 0..(m - 1))
      BY <2>4
    <2>6. b[m] = a[n] /\ (m > 1 => b[m - 1] = a[n - 1])
      BY <2>4, <2>5
    <2>. QED  BY <1>1, <2>1, <2>3, <2>6
  <1>4. \A d \in Interval(b) : /\ totals # << >> /\ d \in Int
                               /\ d = x - totals[Len(totals)]
    <2>1. Len(b) > 1 => totals # << >>
      <3>1. Len(totals) \in Nat /\ Len(b) <= Len(totals) + 1 /\ Len(b) \in Nat
        <4>1. Len(totals) \in Nat
          BY DEF TypeInv, TypeOK
        <4>. HIDE DEF a, b
        <4>. QED  BY <1>1, <1>3, <4>1
      <3>. HIDE DEF b
      <3>. QED  BY <1>2, <3>1
    <2>. HIDE DEF a, b
    <2>2. ASSUME NEW d \in Interval(b)
          PROVE  totals # << >> /\ d \in Int /\ d = x - totals[Len(totals)]
      <3>1. d \in Nat /\ Len(b) >= 2 /\ d = b[Len(b)] - b[Len(b) - 1]
        BY <1>3, IntervalFacts
      <3>2. Len(b) \in Nat
        BY <1>3
      <3>3. Len(b) > 1
        BY <3>1, <3>2
      <3>4. b[Len(b)] = x /\ b[Len(b) - 1] = totals[Len(totals)] /\ totals # << >>
        BY <1>1, <1>3, <2>1, <3>3
      <3>5. d = x - totals[Len(totals)] /\ d \in Int
        BY <3>1, <3>4
      <3>. QED  BY <3>4, <3>5
    <2>. QED  BY <2>2
  <1>5. totals' = b
    BY DEF Record
  <1>6. /\ pass' = "refresh" /\ sum' = 0 /\ Unread' = Metered /\ Metered' = Metered
        /\ Lost' = Lost /\ burned' = burned /\ Charged' = Charged
    BY DEF Record, Rest, Unread, Metered, Summed, Lost, platform, Charged
  <1>7. \/ Pending' = 0
        \/ pc' = "collect" /\ diff' \in Interval(b) /\ Pending' = diff'
    BY DEF Record, Rest, Pending
  <1>8. /\ Charged \in Int /\ SumOver(burned, Metered) \in Int
        /\ SumOver(Lost, Metered) \in Int
        /\ totals # << >> => totals[Len(totals)] \in Int
    BY EnergyTyped DEF EnergyTypes
  <1>9. Charged' + Pending' <= x + W
    <2>1. CASE Pending' = 0
      BY <1>6, <1>8, <2>1
    <2>2. CASE diff' \in Interval(b) /\ Pending' = diff'
      <3>1. totals # << >> /\ Pending' \in Int /\ Pending' = x - totals[Len(totals)]
        BY <1>4, <2>2
      <3>. QED  BY <1>6, <1>8, <3>1
    <2>. QED  BY <1>7, <2>1, <2>2
  <1>10. totals'[Len(totals')] = x
    BY <1>3, <1>5
  <1>11. /\ SumOver(burned, Unread)' = SumOver(burned, Metered)
         /\ SumOver(burned, Metered)' = SumOver(burned, Metered)
         /\ SumOver(Lost, Unread)' = SumOver(Lost, Metered)
         /\ SumOver(Lost, Metered)' = SumOver(Lost, Metered)
    BY <1>6
  <1>. HIDE DEF a, b
  <1>12. Charged' + Pending' \in Int
    BY EnergyTypedNext DEF EnergyTypes
  <1>. QED  BY <1>6, <1>8, <1>9, <1>10, <1>11, <1>12 DEF Within, Burned

-----------------------------------------------------------------------------
(* Charges are covered *)

\* The invariant holds initially.
LEMMA EnergyInit == Init => EnergyInv
  <1>. SUFFICES ASSUME Init PROVE EnergyInv
    OBVIOUS
  <1>1. PassInv
    BY DEF Init, PassInv
  <1>2. /\ charged = [v \in Vms |-> 0] /\ burned = [c \in Counters |-> 0] /\ Pending = 0
        /\ sum = 0 /\ totals = << >> /\ Unread = Metered
    BY DEF Init, Pending, Unread
  <1>3. Charged = 0
    <2>1. \A v \in Vms : charged[v] = 0
      BY <1>2
    <2>2. \A v \in Vms : charged[v] \in Int /\ charged[v] = charged[v] + charged[v]
      BY <2>1
    <2>3. Charged \in Int
      BY EnergyTyped, TypeInit DEF EnergyTypes
    <2>4. Charged = Charged + Charged
      BY <2>2, MeterAssumption, SumOfSums DEF Charged
    <2>. QED  BY <2>3, <2>4
  <1>4. Burned(Metered) \in Nat
    <2>1. IsFiniteSet(Metered) /\ \A c \in Metered : burned[c] \in Nat
      BY EnergyTyped, TypeInit DEF EnergyTypes
    <2>. QED  BY <2>1, SumIsNat DEF Burned
  <1>5. SumOver(Lost, Metered) \in Int
    BY EnergyTyped, TypeInit DEF EnergyTypes
  <1>6. Within(0, 0)
    BY <1>2, <1>3, <1>4, <1>5 DEF Within
  <1>. QED  BY <1>1, <1>6 DEF EnergyInv

\* The exporter stays there.
LEMMA PassStep == TypeInv /\ PassInv /\ "read" \notin faults /\ [Next]_vars => PassInv'
  <1>. SUFFICES ASSUME TypeInv, PassInv, "read" \notin faults, [Next]_vars PROVE PassInv'
    OBVIOUS
  <1>0. /\ Summed' = Summed /\ parts' = parts /\ Len(Summed) \in Nat /\ at \in Nat \ {0}
        /\ pass \in {"refresh", "total"} /\ DOMAIN Summed = 1..Len(Summed)
    BY PlatformStays, SummedFacts DEF TypeInv, TypeOK, Summed, platform
  <1>1. ASSUME NEW s \in Sockets, Timer(s) PROVE PassInv'
    BY <1>0, <1>1 DEF Timer, TagSlot, LookAtSlot, StoreHash, SetValid, PassInv, exporter
  <1>2. ASSUME NEW c \in Counters, Burn(c) PROVE PassInv'
    BY <1>0, <1>2 DEF Burn, PassInv, exporter
  <1>3. CASE StartCycle
    BY <1>0, <1>3 DEF StartCycle, PassInv
  <1>4. CASE ReadPackage
    BY <1>0, <1>4 DEF ReadPackage, PassInv, Order, Add
  <1>5. CASE SettleSeeded
    BY <1>0, <1>5 DEF SettleSeeded, PassInv
  <1>6. CASE SettleKernel
    BY <1>0, <1>6 DEF SettleKernel, PassInv, Add
  <1>7. CASE ReadDram
    BY <1>0, <1>7 DEF ReadDram, PassInv, Order, Add
  <1>8. CASE ReadFails
    BY <1>8 DEF ReadFails
  <1>9. CASE ReadPlatform \/ RecordSum
    BY <1>9 DEF ReadPlatform, RecordSum, Record, Rest, PassInv
  <1>10. CASE StartSum
    BY <1>0, <1>10 DEF StartSum, PassInv
  <1>11. CASE CollectReading \/ Compute
    BY <1>0, <1>11 DEF CollectReading, Compute, PassInv
  <1>12. CASE WriteUpdates \/ Rejected \/ Restart
    BY <1>12 DEF WriteUpdates, Rejected, Restart, Rest, PassInv
  <1>13. CASE UNCHANGED vars
    BY <1>0, <1>13 DEF vars, exporter, PassInv
  <1>. QED  BY <1>1, <1>2, <1>3, <1>4, <1>5, <1>6, <1>7, <1>8, <1>9, <1>10, <1>11, <1>12,
               <1>13 DEF Next, Cycle, ReadCounters

\* Reading the next counter of the total.
LEMMA NextRead ==
    ASSUME TypeInv, TypeInv', NEW w \in Int, NEW r \in Int, Within(w, r), PassInv,
           UNCHANGED platform, UNCHANGED <<counter, burned, totals, charged>>,
           pass = "total", pass' = "total", at \in DOMAIN Summed, ToRead = at,
           ToRead' = at + 1, sum' = sum + counter[Summed[at]],
           pc' \in {"read", "settle"}
    PROVE  \E q \in Int : Within(w, q)'
  <1>1. Summed' = Summed /\ Metered' = Metered
    BY DEF platform, Summed, Metered
  <1>2. /\ DOMAIN Summed = 1..Len(Summed) /\ Len(Summed) \in Nat /\ at \in Nat
        /\ at <= Len(Summed)
    BY SummedFacts
  <1>3. at..Len(Summed) \subseteq DOMAIN Summed /\ at + 1..Len(Summed) = (at..Len(Summed)) \ {at}
    BY <1>2
  <1>4. Unread = {Summed[k] : k \in at..Len(Summed)}
    BY DEF Unread
  <1>5. Unread' = {Summed[k] : k \in at + 1..Len(Summed)}
    BY <1>1 DEF Unread
  <1>6. Summed[at] \in Unread
    BY <1>2, <1>4
  <1>7. Unread' = Unread \ {Summed[at]}
    BY <1>2, <1>3, <1>4, <1>5, SummedOnce
  <1>8. Charged' + Pending' = Charged + Pending
    BY DEF Charged, Pending, PassInv
  <1>. QED  BY <1>1, <1>6, <1>7, <1>8, ReadWithin

\* Other steps on the way to a total.
LEMMA RestRead ==
    ASSUME TypeInv, TypeInv', NEW w \in Int, NEW r \in Int, Within(w, r),
           UNCHANGED platform, UNCHANGED <<counter, burned, totals, charged, pass, sum>>,
           pass = "total" => ToRead' = ToRead,
           pc \in {"idle", "read", "settle"}, pc' \in {"read", "settle"}
    PROVE  Within(w, r)'
  <1>1. Unread' = Unread /\ Metered' = Metered
    BY DEF Unread, Metered, Summed, platform
  <1>2. pass' = "refresh" => r = 0
    BY DEF Within
  <1>3. Charged' + Pending' = Charged + Pending
    BY DEF Charged, Pending
  <1>4. Charged' + Pending' <= Charged + Pending
    BY <1>3, EnergyTyped DEF EnergyTypes
  <1>. QED  BY <1>1, <1>2, <1>4, StillWithin

\* Steps after a total, which put nothing more on the account.
LEMMA RestAfter ==
    ASSUME TypeInv, TypeInv', NEW w \in Int, NEW r \in Int, Within(w, r),
           UNCHANGED platform, UNCHANGED <<counter, burned, totals>>, sum' = sum,
           pass = "refresh", pass' = "refresh", Charged' + Pending' <= Charged + Pending
    PROVE  Within(w, r)'
  <1>1. Unread' = Unread /\ Metered' = Metered
    BY DEF Unread, Metered, Summed, platform
  <1>2. r = 0
    BY DEF Within
  <1>. QED  BY <1>1, <1>2, StillWithin

\* Every step keeps the invariant.
LEMMA EnergyStep ==
    TypeInv /\ TypeInv' /\ EnergyInv /\ [Next]_vars => EnergyInv'
  <1>. SUFFICES ASSUME TypeInv, TypeInv', EnergyInv, [Next]_vars, "read" \notin faults'
                PROVE  \E w, r \in Int : Within(w, r)'
    BY PlatformStays, PassStep DEF EnergyInv, platform
  <1>0. /\ UNCHANGED platform /\ "read" \notin faults /\ PassInv
        /\ Summed' = Summed /\ Metered' = Metered
    BY PlatformStays DEF platform, EnergyInv, Summed, Metered
  <1>w. PICK w \in Int, r \in Int : Within(w, r)
    BY <1>0 DEF EnergyInv
  <1>t. /\ Charged \in Nat /\ Pending \in Nat /\ sum \in Nat /\ SumOver(reply, Vms) \in Nat
        /\ diff \in Nat /\ pass \in {"refresh", "total"} /\ at \in Nat \ {0}
        /\ capture \in {"seeded", "kernel"} /\ capture' = capture
    BY <1>0, EnergyTyped DEF EnergyTypes, TypeInv, TypeOK, platform
  <1>1. ASSUME NEW s \in Sockets, Timer(s) PROVE Within(w, r)'
    <2>1. UNCHANGED <<counter, exporter, enclave, history>>
      BY <1>1 DEF Timer, TagSlot, LookAtSlot, StoreHash, SetValid
    <2>2. Unread' = Unread /\ Charged' + Pending' = Charged + Pending
      BY <1>0, <1>t, <2>1 DEF Unread, ToRead, Charged, Pending, exporter, enclave
    <2>3. Charged' + Pending' <= Charged + Pending
      BY <1>t, <2>2
    <2>4. pass' = "refresh" => r = 0
      BY <1>w, <2>1 DEF exporter, Within
    <2>. QED  BY <1>0, <1>w, <2>1, <2>2, <2>3, <2>4, StillWithin DEF exporter, history
  <1>2. ASSUME NEW c \in Counters, Burn(c) PROVE Within(w, r)'
    BY <1>0, <1>w, <1>2, BurnWithin
  <1>3. CASE StartCycle
    <2>1. pass # "total"
      BY <1>0, <1>3 DEF StartCycle, PassInv
    <2>2. Within(w, r)'
      BY <1>0, <1>w, <1>3, <2>1, RestRead DEF StartCycle, enclave, history
    <2>. QED  BY <2>2
  <1>4. CASE ReadPackage
    <2>0. /\ UNCHANGED <<counter, burned, totals, charged, pass, at>>
          /\ pc = "read" /\ pc' = "settle"
      BY <1>4 DEF ReadPackage, enclave, history
    <2>1. CASE capture = "seeded" /\ pass = "total"
      <3>1. at \in DOMAIN Summed /\ sum' = sum + counter[Summed[at]]
        BY <1>4, <2>1 DEF ReadPackage, Order, Add
      <3>2. ToRead = at /\ ToRead' = at + 1
        BY <1>t, <2>0, <2>1 DEF ToRead
      <3>. QED  BY <1>0, <1>w, <2>0, <2>1, <3>1, <3>2, NextRead
    <2>2. CASE ~(capture = "seeded" /\ pass = "total")
      <3>1. sum' = sum /\ (pass = "total" => ToRead' = ToRead)
        BY <1>t, <1>4, <2>0, <2>2 DEF ReadPackage, Add, ToRead
      <3>2. Within(w, r)'
        BY <1>0, <1>w, <2>0, <3>1, RestRead
      <3>. QED  BY <3>2
    <2>. QED  BY <2>1, <2>2
  <1>5. CASE SettleSeeded
    <2>0. /\ UNCHANGED <<counter, burned, totals, charged, pass, sum>> /\ at' = at + 1
          /\ pc = "settle" /\ pc' = "read" /\ capture = "seeded"
      BY <1>5 DEF SettleSeeded, enclave, history
    <2>1. ToRead' = ToRead
      BY <1>t, <2>0 DEF ToRead
    <2>2. Within(w, r)'
      BY <1>0, <1>w, <2>0, <2>1, RestRead
    <2>. QED  BY <2>2
  <1>6. CASE SettleKernel
    <2>0. /\ UNCHANGED <<counter, burned, totals, charged, pass>> /\ at' = at + 1
          /\ pc = "settle" /\ pc' = "read" /\ capture = "kernel"
          /\ sum' = Add(counter[Order[at]])
      BY <1>0, <1>6 DEF SettleKernel, enclave
    <2>1. CASE pass = "total"
      <3>1. at \in DOMAIN Summed
        BY <1>0, <1>t, <2>0, <2>1, SummedFacts DEF PassInv
      <3>2. sum' = sum + counter[Summed[at]]
        BY <2>0, <2>1 DEF Add, Order
      <3>3. ToRead = at /\ ToRead' = at + 1
        BY <1>t, <2>0 DEF ToRead
      <3>. QED  BY <1>0, <1>w, <2>0, <2>1, <3>1, <3>2, <3>3, NextRead
    <2>2. CASE pass # "total"
      <3>1. sum' = sum
        BY <2>0, <2>2 DEF Add
      <3>2. Within(w, r)'
        BY <1>0, <1>w, <2>0, <2>2, <3>1, RestRead
      <3>. QED  BY <3>2
    <2>. QED  BY <2>1, <2>2
  <1>7. CASE ReadDram
    <2>0. /\ UNCHANGED <<counter, burned, totals, charged, pass>> /\ at' = at + 1
          /\ pc = "read" /\ pc' = "read" /\ sum' = Add(counter[Order[at]])
          /\ at \in DOMAIN Order /\ Order[at][1] = "dram"
      BY <1>7 DEF ReadDram, enclave, history
    <2>1. pass = "total"
      BY <1>t, <2>0, PackagesFacts, CounterFacts DEF Order
    <2>2. at \in DOMAIN Summed /\ sum' = sum + counter[Summed[at]]
      BY <2>0, <2>1 DEF Add, Order
    <2>3. ToRead = at /\ ToRead' = at + 1
      BY <1>t, <2>0 DEF ToRead
    <2>. QED  BY <1>0, <1>w, <2>0, <2>1, <2>2, <2>3, NextRead
  <1>8. CASE ReadFails
    BY <1>0, <1>8 DEF ReadFails
  <1>9. CASE ReadPlatform
    <2>0. /\ "psys" \in parts /\ pc = "read" /\ pass = "refresh" /\ Record(counter[Psys])
          /\ UNCHANGED <<platform, counter, burned, charged, reply, status>>
      BY <1>9 DEF ReadPlatform, enclave
    <2>1. /\ Metered = {Psys} /\ Unread = {Psys} /\ sum = 0 /\ r = 0 /\ Pending = 0
      BY <1>0, <1>w, <2>0 DEF Metered, Unread, PassInv, Within, Pending
    <2>2. /\ Psys \in Counters /\ burned[Psys] \in Int /\ counter[Psys] \in Nat
          /\ Lost[Psys] \in Int /\ Lost[Psys] = burned[Psys] - counter[Psys]
      BY EnergyTyped, CounterFacts DEF EnergyTypes
    <2>3. Burned(Metered) = burned[Psys] /\ SumOver(Lost, Metered) = Lost[Psys]
      <3>1. {Psys} \in SUBSET {Psys} /\ Psys \in {Psys} /\ {Psys} \ {Psys} = {}
            /\ IsFiniteSet({Psys}) /\ (\A x \in {Psys} : burned[x] \in Int /\ Lost[x] \in Int)
        BY <2>2, FS_Singleton
      <3>2. /\ SumOver(burned, {Psys}) = burned[Psys] + SumOver(burned, {})
            /\ SumOver(Lost, {Psys}) = Lost[Psys] + SumOver(Lost, {})
        BY <3>1, SumSplits
      <3>3. SumOver(burned, {}) = 0 /\ SumOver(Lost, {}) = 0
        BY SumOfNone
      <3>. QED  BY <2>1, <2>2, <3>2, <3>3 DEF Burned
    <2>4. PICK W \in Int : W = Lost[Psys]
      BY <2>2
    <2>5. PICK x \in Nat : x = counter[Psys]
      BY <2>2
    <2>6. x + W = burned[Psys]
      BY <2>2, <2>4, <2>5
    <2>7. x + W <= Burned(Metered) /\ W <= SumOver(Lost, Metered)
      BY <2>2, <2>3, <2>4, <2>6
    <2>8. Charged <= x + W
      BY <1>t, <1>w, <2>1, <2>2, <2>3, <2>6 DEF Within
    <2>9. totals # << >> => Charged <= totals[Len(totals)] + w /\ w <= W
      BY <1>t, <1>w, <2>1, <2>3, <2>4 DEF Within
    <2>10. Within(W, 0)'
      BY <2>0, <2>5, <2>7, <2>8, <2>9, RecordWithin
    <2>. QED  BY <2>10
  <1>10. CASE StartSum
    <2>0. /\ UNCHANGED <<counter, burned, totals, charged>> /\ pc = "read" /\ pc' = "read"
          /\ pass = "refresh" /\ pass' = "total" /\ at' = 1 /\ sum' = 0 /\ "psys" \notin parts
      BY <1>0, <1>10 DEF StartSum, enclave
    <2>1. Unread' = Metered /\ Unread = Metered
      <3>1. ToRead' = 1
        BY <2>0 DEF ToRead
      <3>. QED  BY <1>0, <2>0, <3>1, SummedFacts DEF Unread, Metered
    <2>2. sum = 0 /\ r = 0
      BY <1>0, <1>w, <2>0 DEF PassInv, Within
    <2>3. Charged' + Pending' = Charged + Pending
      BY <2>0 DEF Charged, Pending
    <2>4. Charged' + Pending' <= Charged + Pending
      BY <1>t, <2>3
    <2>5. Within(w, r)'
      BY <1>0, <1>w, <2>0, <2>1, <2>2, <2>4, StillWithin
    <2>. QED  BY <2>5
  <1>11. CASE RecordSum
    <2>0. /\ pc = "read" /\ pass = "total" /\ at = Len(Summed) + 1 /\ Record(sum)
          /\ UNCHANGED <<platform, counter, burned, charged, reply, status>>
      BY <1>11 DEF RecordSum, enclave, Order
    <2>1. Unread = {} /\ Pending = 0
      BY <1>t, <2>0, SummedFacts DEF Unread, ToRead, Pending
    <2>2. Burned(Unread) = 0 /\ SumOver(Lost, Unread) = 0
      BY <2>1, SumOfNone DEF Burned
    <2>3. /\ Charged <= sum + r /\ sum + r <= Burned(Metered) /\ r <= SumOver(Lost, Metered)
          /\ totals # << >> => Charged <= totals[Len(totals)] + w /\ w <= r
      BY <1>t, <1>w, <2>1, <2>2 DEF Within
    <2>4. Within(r, 0)'
      BY <1>t, <2>0, <2>3, RecordWithin
    <2>. QED  BY <2>4
  <1>12. CASE CollectReading
    <2>0. /\ UNCHANGED <<counter, burned, totals, charged, pass, sum, diff>>
          /\ pc = "collect" /\ pc' = "collect"
      BY <1>12 DEF CollectReading, enclave, history
    <2>1. pass = "refresh"
      BY <1>0, <1>t, <2>0 DEF PassInv
    <2>2. Charged' + Pending' = Charged + Pending
      BY <2>0 DEF Charged, Pending
    <2>3. Charged' + Pending' <= Charged + Pending
      BY <1>t, <2>2
    <2>4. Within(w, r)'
      BY <1>0, <1>w, <2>0, <2>1, <2>3, RestAfter
    <2>. QED  BY <2>4
  <1>13. CASE Compute
    <2>0. /\ UNCHANGED <<counter, burned, totals, charged, pass, sum, diff>>
          /\ pc = "collect" /\ pc' = "answer"
      BY <1>13 DEF Compute, history
    <2>1. pass = "refresh"
      BY <1>0, <1>t, <2>0 DEF PassInv
    <2>2. Pending' <= diff /\ Pending' \in Int
      <3>1. CASE TagsOk
        <4>1. PICK usage \in [Vms -> 0..Cores] :
                      /\ SumOver(usage, Vms) <= Cores
                      /\ reply' = [v \in Vms |-> Share(usage[v], diff)]
          BY <1>13, <3>1 DEF Compute
        <4>2. SumOver(reply', Vms) <= diff
          BY <1>t, <4>1, SharesFit
        <4>3. status' = 0 /\ Pending' = SumOver(reply', Vms)
          BY <1>13, <2>0, <3>1 DEF Compute, Pending
        <4>. QED  BY <4>2, <4>3, EnergyTypedNext DEF EnergyTypes
      <3>2. CASE ~TagsOk
        BY <1>13, <1>t, <2>0, <3>2 DEF Compute, Pending
      <3>. QED  BY <3>1, <3>2
    <2>3. Charged' = Charged /\ Pending = diff
      BY <2>0 DEF Charged, Pending
    <2>4. Charged' + Pending' <= Charged + Pending
      <3>1. Charged \in Int /\ diff \in Int
        BY <1>t
      <3>2. Charged + Pending' <= Charged + diff
        <4>1. ASSUME NEW a \in Int, NEW b \in Int, NEW c \in Int, b <= c PROVE a + b <= a + c
          BY <4>1
        <4>2. Pending' <= diff /\ Pending' \in Int
          BY <2>2
        <4>. QED  BY <3>1, <4>1, <4>2
      <3>. QED  BY <2>3, <3>2
    <2>5. Within(w, r)'
      BY <1>0, <1>w, <2>0, <2>1, <2>4, RestAfter
    <2>. QED  BY <2>5
  <1>14. CASE WriteUpdates
    <2>0. /\ UNCHANGED <<counter, burned, totals>> /\ pc = "answer" /\ status = 0
          /\ pass' = "refresh" /\ pc' = "idle" /\ sum' = 0
      BY <1>14 DEF WriteUpdates, Rest
    <2>1. pass = "refresh" /\ sum' = sum
      BY <1>0, <1>t, <2>0 DEF PassInv
    <2>2. Charged' <= Charged + SumOver(reply, Vms)
      <3>. DEFINE both == [v \in Vms |-> charged[v] + reply[v]]
                  new == charged'
      <3>1. /\ IsFiniteSet(Vms) /\ Vms \in SUBSET Vms
            /\ charged \in [Vms -> Nat] /\ reply \in [Vms -> Nat]
        BY MeterAssumption DEF TypeInv, TypeOK
      <3>2. \A v \in Vms : new[v] \in {charged[v], charged[v] + reply[v]}
        BY <1>14 DEF WriteUpdates
      <3>3. /\ \A v \in Vms : /\ charged[v] \in Int /\ reply[v] \in Int
                              /\ both[v] = charged[v] + reply[v]
            /\ \A v \in Vms : new[v] \in Int /\ both[v] \in Int /\ new[v] <= both[v]
        BY <3>1, <3>2
      <3>. HIDE DEF both, new
      <3>4. SumOver(both, Vms) = SumOver(charged, Vms) + SumOver(reply, Vms)
        BY <3>1, <3>3, SumOfSums
      <3>5. SumOver(new, Vms) <= SumOver(both, Vms)
        BY <3>1, <3>3, SumGrows
      <3>. QED  BY <3>4, <3>5 DEF new, Charged
    <2>3. Pending = SumOver(reply, Vms) /\ Pending' = 0
      BY <2>0 DEF Pending
    <2>4. Charged' + Pending' <= Charged + Pending
      <3>1. Charged' \in Int
        BY EnergyTypedNext DEF EnergyTypes
      <3>. QED  BY <1>t, <2>2, <2>3, <3>1
    <2>5. Within(w, r)'
      BY <1>0, <1>w, <2>0, <2>1, <2>4, RestAfter
    <2>. QED  BY <2>5
  <1>15. CASE Rejected
    <2>0. /\ UNCHANGED <<counter, burned, totals, charged>> /\ pc = "answer" /\ status # 0
          /\ pass' = "refresh" /\ pc' = "idle" /\ sum' = 0
      BY <1>15 DEF Rejected, Rest, enclave, history
    <2>1. pass = "refresh" /\ sum' = sum
      BY <1>0, <1>t, <2>0 DEF PassInv
    <2>2. Charged' = Charged /\ Pending' = 0
      BY <2>0 DEF Charged, Pending
    <2>3. Charged' + Pending' <= Charged + Pending
      BY <1>t, <2>2
    <2>4. Within(w, r)'
      BY <1>0, <1>w, <2>0, <2>1, <2>3, RestAfter
    <2>. QED  BY <2>4
  <1>16. CASE Restart
    <2>0. /\ UNCHANGED <<charged, burned>> /\ counter' = counter /\ totals' = << >>
          /\ pass' = "refresh" /\ sum' = 0 /\ pc' = "idle"
      BY <1>16 DEF Restart, Rest
    <2>1. Charged' = Charged /\ Pending' = 0 /\ Unread' = Metered
      BY <1>0, <2>0 DEF Charged, Pending, Unread
    <2>2. /\ SumOver(burned, Unread)' = SumOver(burned, Metered)
          /\ SumOver(burned, Metered)' = SumOver(burned, Metered)
          /\ SumOver(Lost, Unread)' = SumOver(Lost', Metered)
          /\ SumOver(Lost, Metered)' = SumOver(Lost', Metered)
      BY <1>0, <2>0, <2>1
    <2>3. Lost' = Lost
      BY <2>0 DEF Lost
    <2>4. /\ SumOver(burned, Metered) \in Int /\ SumOver(Lost, Metered) \in Int
          /\ SumOver(burned, Unread) \in Int
      BY EnergyTyped DEF EnergyTypes
    <2>5. Charged <= SumOver(burned, Metered)
      BY <1>t, <1>w, <2>4 DEF Within, Burned
    <2>6. Within(0, 0)'
      BY <1>t, <2>0, <2>1, <2>2, <2>3, <2>4, <2>5 DEF Within, Burned
    <2>. QED  BY <2>6
  <1>17. CASE UNCHANGED vars
    <2>0. UNCHANGED <<counter, burned, totals, charged, pass, sum, pc, at, capture, diff, reply,
                      status>>
      BY <1>17 DEF vars, platform, exporter, enclave, history
    <2>1. Unread' = Unread /\ Charged' + Pending' = Charged + Pending
      BY <1>0, <2>0 DEF Unread, ToRead, Charged, Pending
    <2>2. Charged' + Pending' <= Charged + Pending /\ (pass' = "refresh" => r = 0)
      BY <1>t, <1>w, <2>0, <2>1 DEF Within
    <2>3. Within(w, r)'
      BY <1>0, <1>w, <2>0, <2>1, <2>2, StillWithin
    <2>. QED  BY <2>3
  <1>. QED  BY <1>1, <1>2, <1>3, <1>4, <1>5, <1>6, <1>7, <1>8, <1>9, <1>10, <1>11, <1>12,
               <1>13, <1>14, <1>15, <1>16, <1>17 DEF Next, Cycle, ReadCounters

\* NeverOvercharged: while every counter can be read, the VMs together are
\* never charged more than the hardware burned, whatever wraps, restarts and
\* rejected cycles come between.
THEOREM ChargesAreCovered == Spec => []NeverOvercharged
  <1>1. TypeInv /\ EnergyInv => NeverOvercharged
    <2>. SUFFICES ASSUME TypeInv, EnergyInv, "read" \notin faults
                  PROVE  SumOver(charged, Vms) <= SumOver(burned, Metered)
      BY DEF NeverOvercharged
    <2>1. PICK w \in Int, r \in Int : Within(w, r)
      BY DEF EnergyInv
    <2>2. /\ Charged \in Nat /\ Pending \in Nat /\ sum \in Int /\ Burned(Unread) \in Int
          /\ Burned(Metered) \in Int
      BY EnergyTyped DEF EnergyTypes, Burned
    <2>3. Charged <= Burned(Metered)
      BY <2>1, <2>2 DEF Within
    <2>. QED  BY <2>3 DEF Charged, Burned
  <1>. QED  BY <1>1, TypeInit, TypeStep, EnergyInit, EnergyStep, PTL DEF Spec

==============================================================================
