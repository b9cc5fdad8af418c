----------------------------- MODULE DataProofs -----------------------------
(***************************************************************************)
(* Facts about the data the modules share: integers, used as keys of maps  *)
(* and as places in a log, and sums of volumes.                            *)
(*                                                                         *)
(* A function that the library defines by recursion is unfolded here by    *)
(* an induction over a set of numbers or of subsets.                       *)
(***************************************************************************)
EXTENDS Integers, Functions, FiniteSetTheorems, WellFoundedInduction, TLAPS

(* A nonempty set of integers that is bounded below has a least element:   *)
(* what std::map::begin() returns exists.                                  *)
LEMMA LeastElement ==
    ASSUME NEW low \in Int, NEW T, T \subseteq Int, T # {},
           \A x \in T : low <= x
    PROVE  \E m \in T : \A x \in T : m <= x
<1> DEFINE R == OpToRel(<, Nat)
           D == {x - low : x \in T}
<1>1. D \subseteq Nat /\ D # {}
  <2>1. \A x \in T : x - low \in Nat
    OBVIOUS
  <2>2. PICK x \in T : TRUE
    OBVIOUS
  <2> QED BY <2>1, <2>2
<1>2. PICK d \in D : \A e \in D : ~ (<<e, d>> \in R)
  <2> HIDE DEF D, R
  <2> QED BY <1>1, NatLessThanWellFounded, WFMin DEF R
<1>3. \A e \in D : ~ (e < d)
  BY <1>1, <1>2, Zenon DEF OpToRel
<1>4. PICK m \in T : d = m - low
  OBVIOUS
<1>5. ASSUME NEW x \in T
      PROVE  m <= x
  <2>1. x - low \in D
    OBVIOUS
  <2>2. ~ (x - low < m - low)
    BY <1>3, <1>4, <2>1
  <2>3. m \in Int /\ x \in Int
    OBVIOUS
  <2> QED BY <2>2, <2>3
<1> QED BY <1>5

(* Induction on the natural numbers, for what can be said with a set: a    *)
(* fact P about n is the set {n \in Nat : P(n)}.                           *)
LEMMA Induction ==
    ASSUME NEW S, 0 \in S, \A n \in Nat : n \in S => n + 1 \in S
    PROVE  Nat \subseteq S
<1> SUFFICES ASSUME NEW k \in Nat, k \notin S PROVE FALSE
  OBVIOUS
<1> DEFINE out == {n \in Nat : n \notin S}
<1>1. PICK m \in out : \A x \in out : m <= x
  <2>1. out \subseteq Int /\ out # {} /\ 0 \in Int /\ \A x \in out : 0 <= x
    OBVIOUS
  <2> HIDE DEF out
  <2> QED BY <2>1, LeastElement
<1>2. m - 1 \in Nat /\ m - 1 \notin out
  BY <1>1
<1> QED BY <1>1, <1>2

(* Iterating a step on members of L. *)
LEMMA Iterates ==
    ASSUME NEW L, NEW x \in L, NEW step \in [L -> L]
    PROVE  \E g \in [Nat -> L] :
              g = [n \in Nat |-> IF n = 0 THEN x ELSE step[g[n - 1]]]
<1> DEFINE Starts(h, k) == /\ h \in [0 .. k -> L] /\ h[0] = x
                           /\ \A n \in 1 .. k : h[n] = step[h[n - 1]]
           N == {k \in Nat : \E h : Starts(h, k)}
           H(k) == CHOOSE h : Starts(h, k)
           g == [n \in Nat |-> H(n)[n]]
<1>1. 0 \in N
  <2> DEFINE h == [n \in 0 .. 0 |-> x]
  <2>1. Starts(h, 0)
    OBVIOUS
  <2> HIDE DEF Starts, h
  <2> QED BY <2>1
<1>2. ASSUME NEW k \in Nat, k \in N PROVE k + 1 \in N
  <2>1. PICK h : Starts(h, k)
    BY <1>2
  <2> DEFINE e == [n \in 0 .. k + 1 |-> IF n = k + 1 THEN step[h[k]] ELSE h[n]]
  <2>2. h[k] \in L /\ step[h[k]] \in L /\ k + 1 \in 0 .. k + 1
    BY <2>1
  <2>3. \A n \in 0 .. k : n \in 0 .. k + 1 /\ e[n] = h[n] /\ h[n] \in L
    BY <2>1
  <2>4. e[k + 1] = step[h[k]]
    BY <2>2
  <2>5. \A n \in 0 .. k + 1 : e[n] \in L
    <3>1. \A n \in 0 .. k + 1 : n \in 0 .. k \/ n = k + 1
      OBVIOUS
    <3> HIDE DEF e
    <3> QED BY <2>2, <2>3, <2>4, <3>1
  <2>6. e \in [0 .. k + 1 -> L]
    <3>1. e = [n \in 0 .. k + 1 |-> e[n]]
      OBVIOUS
    <3> HIDE DEF e
    <3> QED BY <2>5, <3>1
  <2> HIDE DEF e
  <2>7. e[0] = x
    BY <2>1, <2>3
  <2>8. ASSUME NEW n \in 1 .. k + 1 PROVE e[n] = step[e[n - 1]]
    <3>1. CASE n = k + 1
      BY <2>3, <2>4, <3>1
    <3>2. CASE n # k + 1
      <4>1. n \in 1 .. k /\ n \in 0 .. k /\ n - 1 \in 0 .. k
        BY <3>2
      <4> QED BY <2>1, <2>3, <4>1
    <3> QED BY <3>1, <3>2
  <2>9. Starts(e, k + 1)
    BY <2>6, <2>7, <2>8
  <2> HIDE DEF Starts
  <2> QED BY <2>9
<1>3. Nat \subseteq N
  <2> HIDE DEF N
  <2> QED BY <1>1, <1>2, Induction
<1>4. ASSUME NEW k \in Nat PROVE Starts(H(k), k)
  <2>1. \E h : Starts(h, k)
    BY <1>3
  <2> HIDE DEF Starts
  <2> QED BY <2>1
<1> HIDE DEF H
<1>5. ASSUME NEW k \in Nat
      PROVE  \A n \in 0 .. k : H(k + 1)[n] = H(k)[n]
  <2> DEFINE S == {n \in Nat : n \in 0 .. k => H(k + 1)[n] = H(k)[n]}
  <2>1. 0 \in S
    BY <1>4
  <2>2. ASSUME NEW n \in Nat, n \in S PROVE n + 1 \in S
    <3> SUFFICES ASSUME n + 1 \in 0 .. k PROVE H(k + 1)[n + 1] = H(k)[n + 1]
      OBVIOUS
    <3>1. H(k + 1)[n] = H(k)[n] /\ n + 1 \in 1 .. k /\ n + 1 \in 1 .. k + 1 /\ (n + 1) - 1 = n
      BY <2>2
    <3>2. H(k)[n + 1] = step[H(k)[n]]
      BY <1>4, <3>1
    <3>3. H(k + 1)[n + 1] = step[H(k + 1)[n]]
      BY <1>4, <3>1
    <3> QED BY <3>1, <3>2, <3>3
  <2>3. Nat \subseteq S
    <3> HIDE DEF S
    <3> QED BY <2>1, <2>2, Induction
  <2> QED BY <2>3
<1>6. ASSUME NEW n \in Nat PROVE g[n] \in L /\ g[n] = IF n = 0 THEN x ELSE step[g[n - 1]]
  <2>1. g[n] = H(n)[n] /\ n \in 0 .. n
    OBVIOUS
  <2>2. g[n] \in L
    BY <1>4, <2>1
  <2>3. CASE n = 0
    BY <1>4, <2>1, <2>3
  <2>4. CASE n # 0
    <3>1. n - 1 \in Nat /\ (n - 1) + 1 = n /\ n \in 1 .. n /\ n - 1 \in 0 .. n - 1
      BY <2>4
    <3>2. g[n - 1] = H(n - 1)[n - 1]
      BY <3>1
    <3>3. H(n)[n - 1] = H(n - 1)[n - 1]
      BY <1>5, <3>1
    <3>4. H(n)[n] = step[H(n)[n - 1]]
      BY <1>4, <3>1
    <3> HIDE DEF g
    <3> QED BY <2>1, <2>2, <2>4, <3>2, <3>3, <3>4
  <2> QED BY <2>2, <2>3, <2>4
<1>7. g = [n \in Nat |-> g[n]]
  OBVIOUS
<1> HIDE DEF g
<1> QED BY <1>6, <1>7

(* In a log, adds are the places of the messages that add something and    *)
(* removes of those that remove it.  If some add comes after every remove, *)
(* then one of them is the first since the last remove.                    *)
LEMMA FirstSinceRemoved ==
    ASSUME NEW n \in Nat, NEW adds \in SUBSET (1 .. n), NEW removes \in SUBSET (1 .. n),
           NEW a \in adds, \A k \in removes : k < a
    PROVE  \E i \in adds :
              /\ \A k \in removes : k < i
              /\ \A j \in adds : j < i => \E k \in removes : j <= k
<1> DEFINE open == {j \in adds : \A k \in removes : k < j}
<1>1. PICK i \in open : \A j \in open : i <= j
  <2>1. a \in open
    OBVIOUS
  <2>2. \A j \in open : j \in Int /\ 1 <= j
    OBVIOUS
  <2> HIDE DEF open
  <2>3. open \subseteq Int /\ open # {}
    BY <2>1, <2>2
  <2>4. 1 \in Int
    OBVIOUS
  <2> QED BY <2>2, <2>3, <2>4, LeastElement, Zenon
<1>2. ASSUME NEW j \in adds, j < i
      PROVE  \E k \in removes : j <= k
  <2>1. j \notin open
    BY <1>1, <1>2
  <2> QED BY <2>1
<1> QED BY <1>1, <1>2

(* Induction on the subsets of a finite set. *)
LEMMA SubsetInduction ==
    ASSUME NEW S, IsFiniteSet(S), NEW P,
           \A s \in SUBSET S : (\A r \in SUBSET s : r # s => r \in P) => s \in P
    PROVE  SUBSET S \subseteq P
<1> DEFINE Under(k) == \A s \in SUBSET S : Cardinality(s) < k => s \in P
           N == {k \in Nat : Under(k)}
<1>1. ASSUME NEW s \in SUBSET S
      PROVE  /\ Cardinality(s) \in Nat
             /\ \A r \in SUBSET s : r # s => Cardinality(r) \in Nat /\ Cardinality(r) < Cardinality(s)
  <2>1. IsFiniteSet(s)
    BY FS_Subset
  <2> QED BY <2>1, FS_Subset, FS_CardinalityType
<1>2. 0 \in N
  BY <1>1
<1>3. ASSUME NEW k \in Nat, k \in N PROVE k + 1 \in N
  <2>1. ASSUME NEW s \in SUBSET S, Cardinality(s) < k + 1 PROVE s \in P
    <3>1. ASSUME NEW r \in SUBSET s, r # s PROVE r \in P
      <4>1. Cardinality(r) \in Nat /\ Cardinality(s) \in Nat /\ Cardinality(r) < Cardinality(s)
        BY <1>1, <3>1
      <4>2. Cardinality(r) < k /\ r \in SUBSET S
        BY <2>1, <4>1
      <4> QED BY <1>3, <4>2
    <3> QED BY <3>1
  <2>2. Under(k + 1)
    BY <2>1
  <2> HIDE DEF Under
  <2> QED BY <2>2
<1>4. Nat \subseteq N
  <2> HIDE DEF N
  <2> QED BY <1>2, <1>3, Induction
<1>5. ASSUME NEW s \in SUBSET S PROVE s \in P
  <2>1. Cardinality(s) + 1 \in N /\ Cardinality(s) < Cardinality(s) + 1
    BY <1>1, <1>4
  <2> QED BY <2>1
<1> QED BY <1>5

-----------------------------------------------------------------------------
(* SumFunctionOnSet, unfolded: what it adds, in any order. *)

(* One more step of a sum: the element that CHOOSE takes, and the rest. *)
Chosen(s) == CHOOSE x \in s : TRUE

Plus(f, g, s) == IF s = {} THEN 0 ELSE f[Chosen(s)] + g[s \ {Chosen(s)}]

LEMMA ChosenFromSet ==
    ASSUME NEW s, s # {}, IsFiniteSet(s)
    PROVE  /\ Chosen(s) \in s
           /\ IsFiniteSet(s \ {Chosen(s)})
           /\ Cardinality(s) \in Nat
           /\ Cardinality(s \ {Chosen(s)}) = Cardinality(s) - 1
<1>1. Chosen(s) \in s
  BY DEF Chosen
<1> QED BY <1>1, FS_RemoveElement, FS_CardinalityType

AreSums(f, S, g) == g = [s \in SUBSET S |-> Plus(f, g, s)]

(* The sums over the subsets of S are a function on them. *)
LEMMA SumsUpto ==
    ASSUME NEW f, NEW S, IsFiniteSet(S)
    PROVE  \E g : AreSums(f, S, g)
<1> DEFINE Small(k) == {s \in SUBSET S : Cardinality(s) <= k}
           Upto(k) == \E g : g = [s \in Small(k) |-> Plus(f, g, s)]
           N == {k \in Nat : Upto(k)}
<1>1. \A s \in SUBSET S : IsFiniteSet(s) /\ Cardinality(s) \in Nat /\ Cardinality(s) <= Cardinality(S)
  BY FS_Subset, FS_CardinalityType
<1>2. 0 \in N
  <2>1. \A s \in Small(0) : s = {}
    BY <1>1, FS_EmptySet
  <2> DEFINE g == [s \in Small(0) |-> 0]
  <2>2. g = [s \in Small(0) |-> Plus(f, g, s)]
    <3>1. \A s \in Small(0) : Plus(f, g, s) = 0
      BY <2>1 DEF Plus
    <3> HIDE DEF Small
    <3> QED BY <3>1
  <2>3. Upto(0)
    BY <2>2
  <2> HIDE DEF Upto
  <2> QED BY <2>3
<1>3. ASSUME NEW k \in Nat, k \in N PROVE k + 1 \in N
  <2>1. PICK g : g = [s \in Small(k) |-> Plus(f, g, s)]
    BY <1>3
  <2> DEFINE h == [s \in Small(k + 1) |-> IF s \in Small(k) THEN g[s] ELSE Plus(f, g, s)]
  <2>2. ASSUME NEW s \in Small(k + 1) PROVE h[s] = Plus(f, h, s)
    <3>1. CASE s = {}
      <4>1. h[s] = Plus(f, g, s)
        BY <2>1, <3>1
      <4> QED BY <3>1, <4>1 DEF Plus
    <3>2. CASE s # {}
      <4> DEFINE r == s \ {Chosen(s)}
      <4>1. r \in Small(k) /\ r \in Small(k + 1)
        <5>1. Cardinality(r) = Cardinality(s) - 1 /\ Cardinality(s) \in Nat /\ r \in SUBSET S
          BY <1>1, <3>2, ChosenFromSet
        <5> QED BY <5>1
      <4>2. h[r] = g[r]
        BY <4>1
      <4>3. h[s] = Plus(f, g, s)
        BY <2>1
      <4> QED BY <3>2, <4>2, <4>3 DEF Plus
    <3> QED BY <3>1, <3>2
  <2>3. h = [s \in Small(k + 1) |-> Plus(f, h, s)]
    <3>1. h = [s \in Small(k + 1) |-> h[s]]
      OBVIOUS
    <3> HIDE DEF h, Small
    <3> QED BY <2>2, <3>1
  <2>4. Upto(k + 1)
    BY <2>3
  <2> HIDE DEF Upto
  <2> QED BY <2>4
<1>4. Cardinality(S) \in N
  <2> HIDE DEF N
  <2> QED BY <1>1, <1>2, <1>3, Induction
<1>5. Small(Cardinality(S)) = SUBSET S
  BY <1>1
<1>6. Upto(Cardinality(S))
  BY <1>4
<1> HIDE DEF Small
<1> QED BY <1>5, <1>6 DEF AreSums

(* Two functions that give the sums over subsets agree. *)
LEMMA SumsAgree ==
    ASSUME NEW f, NEW e, NEW S, IsFiniteSet(S), NEW T \in SUBSET S,
           NEW g, AreSums(f, S, g),
           NEW h, AreSums(e, T, h),
           \A x \in T : f[x] = e[x]
    PROVE  g[T] = h[T]
<1> DEFINE P == {s \in SUBSET T : g[s] = h[s]}
<1>1. ASSUME NEW s \in SUBSET T, \A r \in SUBSET s : r # s => r \in P
      PROVE  s \in P
  <2>1. g[s] = Plus(f, g, s) /\ h[s] = Plus(e, h, s) /\ IsFiniteSet(s)
    BY FS_Subset DEF AreSums
  <2>2. CASE s = {}
    BY <2>1, <2>2 DEF Plus
  <2>3. CASE s # {}
    <3>1. Chosen(s) \in s
      BY <2>1, <2>3, ChosenFromSet
    <3>2. s \ {Chosen(s)} \in P
      BY <1>1, <3>1
    <3>3. f[Chosen(s)] = e[Chosen(s)]
      BY <3>1
    <3> QED BY <2>1, <2>3, <3>2, <3>3 DEF Plus
  <2> QED BY <2>2, <2>3
<1>2. SUBSET T \subseteq P
  <2>1. IsFiniteSet(T)
    BY FS_Subset
  <2> HIDE DEF P
  <2> QED BY <1>1, <2>1, SubsetInduction
<1> QED BY <1>2

LEMMA SumUnfolded ==
    ASSUME NEW f, NEW S, IsFiniteSet(S)
    PROVE  \E g : AreSums(f, S, g) /\ SumFunctionOnSet(f, S) = g[S]
<1> DEFINE G == CHOOSE g : AreSums(f, S, g)
<1>1. AreSums(f, S, G)
  BY SumsUpto
<1>2. SumFunctionOnSet(f, S) = G[S]
  BY DEF SumFunctionOnSet, FoldFunctionOnSet, MapThenFoldSet, AreSums, Plus, Chosen
<1> QED BY <1>1, <1>2

(* A sum is its chosen element and the sum of the rest. *)
LEMMA SumStep ==
    ASSUME NEW f, NEW S, IsFiniteSet(S)
    PROVE  SumFunctionOnSet(f, S) =
             IF S = {} THEN 0
             ELSE f[Chosen(S)] + SumFunctionOnSet(f, S \ {Chosen(S)})
<1>1. PICK g : AreSums(f, S, g) /\ SumFunctionOnSet(f, S) = g[S]
  BY SumUnfolded
<1>2. g[S] = Plus(f, g, S)
  BY <1>1 DEF AreSums
<1>3. ASSUME S # {}
      PROVE  g[S \ {Chosen(S)}] = SumFunctionOnSet(f, S \ {Chosen(S)})
  <2> DEFINE T == S \ {Chosen(S)}
  <2>1. IsFiniteSet(T) /\ T \in SUBSET S
    BY <1>3, ChosenFromSet
  <2> HIDE DEF T
  <2>2. PICK h : AreSums(f, T, h) /\ SumFunctionOnSet(f, T) = h[T]
    BY <2>1, SumUnfolded
  <2>3. g[T] = h[T]
    BY <1>1, <2>1, <2>2, SumsAgree
  <2> QED BY <2>2, <2>3 DEF T
<1> QED BY <1>1, <1>2, <1>3 DEF Plus

(* The sum of nothing. *)
LEMMA SumOfNone ==
    ASSUME NEW f
    PROVE  SumFunctionOnSet(f, {}) = 0
BY SumStep, FS_EmptySet

(* The sum depends on the values that are added only. *)
LEMMA SumOfSame ==
    ASSUME NEW f, NEW e, NEW S, IsFiniteSet(S), \A x \in S : f[x] = e[x]
    PROVE  SumFunctionOnSet(f, S) = SumFunctionOnSet(e, S)
<1>1. PICK g : AreSums(f, S, g) /\ SumFunctionOnSet(f, S) = g[S]
  BY SumUnfolded
<1>2. PICK h : AreSums(e, S, h) /\ SumFunctionOnSet(e, S) = h[S]
  BY SumUnfolded
<1>3. S \in SUBSET S
  OBVIOUS
<1>4. g[S] = h[S]
  BY <1>1, <1>2, <1>3, SumsAgree
<1> QED BY <1>1, <1>2, <1>4

(* A sum of members of T is one, if T has 0 and the sums of its members. *)
LEMMA SumIn ==
    ASSUME NEW T, 0 \in T, \A m, n \in T : m + n \in T,
           NEW f, NEW S, IsFiniteSet(S), \A x \in S : f[x] \in T
    PROVE  SumFunctionOnSet(f, S) \in T
<1> DEFINE P == {s \in SUBSET S : SumFunctionOnSet(f, s) \in T}
<1>1. ASSUME NEW s \in SUBSET S, \A r \in SUBSET s : r # s => r \in P
      PROVE  s \in P
  <2>1. IsFiniteSet(s)
    BY FS_Subset
  <2>2. CASE s = {}
    BY <2>2, SumOfNone
  <2>3. CASE s # {}
    <3>1. Chosen(s) \in s
      BY <2>1, <2>3, ChosenFromSet
    <3>2. s \ {Chosen(s)} \in P
      BY <1>1, <3>1
    <3>3. f[Chosen(s)] \in T
      BY <3>1
    <3>4. SumFunctionOnSet(f, s) = f[Chosen(s)] + SumFunctionOnSet(f, s \ {Chosen(s)})
      BY <2>1, <2>3, SumStep
    <3> QED BY <3>2, <3>3, <3>4
  <2> QED BY <2>2, <2>3
<1>2. SUBSET S \subseteq P
  <2> HIDE DEF P
  <2> QED BY <1>1, SubsetInduction
<1> QED BY <1>2

LEMMA SumType ==
    ASSUME NEW f, NEW S, IsFiniteSet(S), \A x \in S : f[x] \in Int
    PROVE  SumFunctionOnSet(f, S) \in Int
<1>1. 0 \in Int /\ \A m, n \in Int : m + n \in Int
  OBVIOUS
<1> QED BY <1>1, SumIn, Zenon

LEMMA SumOfNaturals ==
    ASSUME NEW f, NEW S, IsFiniteSet(S), \A x \in S : f[x] \in Nat
    PROVE  SumFunctionOnSet(f, S) \in Nat
<1>1. 0 \in Nat /\ \A m, n \in Nat : m + n \in Nat
  OBVIOUS
<1> QED BY <1>1, SumIn, Zenon

(* Any element of the sum can be taken out of it. *)
LEMMA SumWithout ==
    ASSUME NEW f, NEW S, IsFiniteSet(S), \A x \in S : f[x] \in Int, NEW y \in S
    PROVE  SumFunctionOnSet(f, S) = f[y] + SumFunctionOnSet(f, S \ {y})
<1> DEFINE Sum(s) == SumFunctionOnSet(f, s)
           Takes(s) == \A x \in s : Sum(s) = f[x] + Sum(s \ {x})
           P == {s \in SUBSET S : Takes(s)}
<1>1. ASSUME NEW s \in SUBSET S, \A r \in SUBSET s : r # s => r \in P
      PROVE  s \in P
  <2>1. ASSUME NEW x \in s PROVE Sum(s) = f[x] + Sum(s \ {x})
    <3> DEFINE c == Chosen(s)
    <3>1. IsFiniteSet(s) /\ s # {}
      BY FS_Subset
    <3>2. c \in s
      BY <3>1, ChosenFromSet
    <3>3. Sum(s) = f[c] + Sum(s \ {c})
      BY <3>1, SumStep
    <3> HIDE DEF c
    <3>4. CASE x = c
      BY <3>3, <3>4
    <3>5. CASE x # c
      <4>1. s \ {c} \in P /\ s \ {x} \in P
        BY <1>1, <3>2
      <4>2. Sum(s \ {c}) = f[x] + Sum((s \ {c}) \ {x})
        BY <3>5, <4>1
      <4>3. Sum(s \ {x}) = f[c] + Sum((s \ {x}) \ {c})
        BY <3>2, <3>5, <4>1
      <4> DEFINE rest == (s \ {x}) \ {c}
      <4>4. Sum((s \ {c}) \ {x}) = Sum(rest)
        <5>1. (s \ {c}) \ {x} = rest
          OBVIOUS
        <5> QED BY <5>1
      <4>5. Sum(rest) \in Int /\ f[x] \in Int /\ f[c] \in Int
        <5>1. IsFiniteSet(rest) /\ rest \in SUBSET S /\ c \in S
          BY <3>1, <3>2, FS_Subset
        <5> HIDE DEF rest
        <5> QED BY <5>1, SumType
      <4>6. Sum(s) \in Int /\ Sum(s \ {c}) \in Int /\ Sum(s \ {x}) \in Int
        <5> HIDE DEF Sum
        <5>1. Sum(s \ {c}) \in Int /\ Sum(s \ {x}) \in Int
          BY <4>2, <4>3, <4>4, <4>5
        <5> QED BY <3>3, <4>5, <5>1
      <4> HIDE DEF Sum
      <4> QED BY <3>3, <4>2, <4>3, <4>4, <4>5, <4>6
    <3> QED BY <3>4, <3>5
  <2> QED BY <2>1
<1>2. SUBSET S \subseteq P
  <2> HIDE DEF P
  <2> QED BY <1>1, SubsetInduction
<1>3. Takes(S)
  <2>1. S \in P
    BY <1>2
  <2> QED BY <2>1
<1> QED BY <1>3

(* One more element. *)
LEMMA SumWith ==
    ASSUME NEW f, NEW e, NEW S, IsFiniteSet(S), NEW y, y \notin S,
           \A x \in S : f[x] = e[x], \A x \in S \cup {y} : e[x] \in Int
    PROVE  SumFunctionOnSet(e, S \cup {y}) = SumFunctionOnSet(f, S) + e[y]
<1>1. IsFiniteSet(S \cup {y}) /\ y \in S \cup {y} /\ (S \cup {y}) \ {y} = S
  BY FS_AddElement
<1>2. SumFunctionOnSet(e, S \cup {y}) = e[y] + SumFunctionOnSet(e, S)
  BY <1>1, SumWithout
<1>3. SumFunctionOnSet(e, S) = SumFunctionOnSet(f, S)
  BY SumOfSame
<1>4. SumFunctionOnSet(f, S) \in Int /\ e[y] \in Int
  BY SumType
<1> QED BY <1>2, <1>3, <1>4
=============================================================================
