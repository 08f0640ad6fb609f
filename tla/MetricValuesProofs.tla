-------------------------- MODULE MetricValuesProofs --------------------------
(***************************************************************************)
(* What clients are shown, for any pool of statements and any number of    *)
(* them.                                                                   *)
(*                                                                         *)
(* The invariant is that the cached list, and the list behind what was     *)
(* shown last, have exactly the queried statements that the LRS had at     *)
(* some time, each once (IndInv).  All else follows from what the twelve   *)
(* providers make of a list: each of them is a function of the set of its  *)
(* statements (ValueIs, OrderIsNoMatter), with more statements none of     *)
(* them returns less (MoreIsNotLess), and the two that count scores and    *)
(* maxima agree (ScoresStayWithin).                                        *)
(*                                                                         *)
(* For the sums this needs that SumFunction does not depend on the order   *)
(* in which it goes through a set (SumsTell, SumFunctionGrows), for the    *)
(* lists that a finite set has exactly one enumeration in a strict order   *)
(* (Places, OneOrder).  The library's induction theorems cannot be         *)
(* instantiated by the provers: induction is by the least element of a     *)
(* set of numbers (FromZero).                                              *)
(***************************************************************************)
EXTENDS MetricValues, FiniteSetTheorems, WellFoundedInduction, SequenceTheorems, TLAPS

-----------------------------------------------------------------------------
(* A nonempty set of numbers has a least one.                              *)
LEMMA Least ==
    ASSUME NEW S \in SUBSET Nat, S # {}
    PROVE  \E n \in S : \A m \in S : n <= m
<1> DEFINE R == OpToRel(<, Nat)
<1>1. \A m, n \in Nat : <<m, n>> \in R <=> m < n
    BY DEF OpToRel
<1>2. IsWellFoundedOn(R, Nat)
    BY NatLessThanWellFounded
<1> HIDE DEF R
<1>3. PICK n \in S : \A m \in S : ~(<<m, n>> \in R)
    BY <1>2, WFMin
<1>4. ASSUME NEW m \in S PROVE n <= m
    <2>1. m \in Nat /\ n \in Nat
        OBVIOUS
    <2>2. ~(m < n)
        BY <1>1, <1>3, <2>1
    <2> QED
        BY <2>1, <2>2
<1> QED
    BY <1>4

(* Induction from 0 over a set instead of a predicate.                     *)
LEMMA FromZero ==
    ASSUME NEW S, 0 \in S, \A n \in Nat : n \in S => n + 1 \in S
    PROVE  Nat \subseteq S
<1> SUFFICES ASSUME ~(Nat \subseteq S) PROVE FALSE
    OBVIOUS
<1> DEFINE T == {n \in Nat : n \notin S}
<1>1. T \in SUBSET Nat /\ T # {}
    OBVIOUS
<1>2. PICK n \in T : \A m \in T : n <= m
    BY <1>1, Least
<1>3. n \in Nat /\ n \notin S /\ n # 0
    BY <1>2
<1>4. n - 1 \in Nat /\ ~(n <= n - 1) /\ (n - 1) + 1 = n
    BY <1>3
<1>5. n - 1 \in S
    BY <1>2, <1>4
<1> QED
    BY <1>3, <1>4, <1>5

-----------------------------------------------------------------------------
(* Orders.                                                                 *)

StrictOrder(I, R) ==
    /\ \A i \in I : ~(<<i, i>> \in R)
    /\ \A i, j, k \in I : <<i, j>> \in R /\ <<j, k>> \in R => <<i, k>> \in R
    /\ \A i, j \in I : i = j \/ <<i, j>> \in R \/ <<j, i>> \in R

(* f lists the members of I, each once...                                  *)
Lists(f, I) ==
    /\ f \in [1..Cardinality(I) -> I]
    /\ \A m, n \in 1..Cardinality(I) : f[m] = f[n] => m = n
    /\ \A i \in I : \E n \in 1..Cardinality(I) : f[n] = i

(* ...in the order R.                                                      *)
ListsBy(f, I, R) ==
    /\ Lists(f, I)
    /\ \A m, n \in 1..Cardinality(I) : m < n <=> <<f[m], f[n]>> \in R

Rank(i, I, R) == Cardinality({j \in I : <<j, i>> \in R})

(* The rank of a member grows with its place in the order.                 *)
LEMMA RankGrows ==
    ASSUME NEW I, IsFiniteSet(I), NEW R, StrictOrder(I, R), NEW i \in I
    PROVE  /\ Rank(i, I, R) \in 0..(Cardinality(I) - 1)
           /\ \A k \in I : <<i, k>> \in R => Rank(i, I, R) < Rank(k, I, R)
<1> DEFINE Below(k) == {j \in I : <<j, k>> \in R}
<1>1. \A k \in I : /\ IsFiniteSet(Below(k))
                   /\ Cardinality(Below(k)) \in Nat
    <2> SUFFICES ASSUME NEW k \in I
                 PROVE  IsFiniteSet(Below(k)) /\ Cardinality(Below(k)) \in Nat
        OBVIOUS
    <2>1. Below(k) \in SUBSET I
        OBVIOUS
    <2> QED
        BY <2>1, FS_Subset, FS_CardinalityType
<1>2. ASSUME NEW T, IsFiniteSet(T), Below(i) \subseteq T, i \in T
      PROVE  Cardinality(Below(i)) < Cardinality(T)
    <2>1. i \notin Below(i)
        BY DEF StrictOrder
    <2>2. Below(i) \in SUBSET T /\ Below(i) # T
        BY <1>2, <2>1
    <2> HIDE DEF Below
    <2>3. Cardinality(T) \in Nat
        BY <1>2, FS_CardinalityType
    <2> QED
        BY <1>1, <1>2, <2>2, <2>3, FS_Subset
<1>3. Cardinality(Below(i)) < Cardinality(I)
    BY <1>2
<1>4. ASSUME NEW k \in I, <<i, k>> \in R
      PROVE  Cardinality(Below(i)) < Cardinality(Below(k))
    <2>1. Below(i) \subseteq Below(k) /\ i \in Below(k)
        BY <1>4 DEF StrictOrder
    <2> HIDE DEF Below
    <2> QED
        BY <1>1, <1>2, <2>1
<1>5. Cardinality(I) \in Nat
    BY FS_CardinalityType
<1>6. \A k \in I : Rank(k, I, R) = Cardinality(Below(k))
    BY DEF Rank
<1> HIDE DEF Below
<1> QED
    BY <1>1, <1>3, <1>4, <1>5, <1>6

(* Every place is taken by exactly one member.                             *)
LEMMA Places ==
    ASSUME NEW I, IsFiniteSet(I), NEW R, StrictOrder(I, R)
    PROVE  ListsBy(InOrder(I, R), I, R)
<1> DEFINE N == Cardinality(I)
           f == InOrder(I, R)
           rank == [i \in I |-> Rank(i, I, R)]
<1>1. N \in Nat
    BY FS_CardinalityType
<1>2. \A i, k \in I : rank[i] = rank[k] => i = k
    <2> SUFFICES ASSUME NEW i \in I, NEW k \in I, i # k PROVE rank[i] # rank[k]
        OBVIOUS
    <2>1. CASE <<i, k>> \in R
        <3>1. rank[i] \in Nat /\ rank[k] \in Nat /\ rank[i] < rank[k]
            BY <1>1, <2>1, RankGrows
        <3> QED
            BY <3>1
    <2>2. CASE <<k, i>> \in R
        <3>1. rank[i] \in Nat /\ rank[k] \in Nat /\ rank[k] < rank[i]
            BY <1>1, <2>2, RankGrows
        <3> QED
            BY <3>1
    <2> QED
        BY <2>1, <2>2 DEF StrictOrder
<1>3. rank \in [I -> 0..(N - 1)]
    BY RankGrows
<1>4. \A n \in 0..(N - 1) : \E i \in I : rank[i] = n
    <2> DEFINE T == 0..(N - 1)
    <2>1. rank \in Injection(I, T)
        BY <1>2, <1>3 DEF Injection, IsInjective
    <2>2. IsFiniteSet(T) /\ Cardinality(T) = N
        BY <1>1, FS_Interval
    <2> HIDE DEF rank, T
    <2>3. rank \in Surjection(I, T)
        BY <2>1, <2>2, FS_Injection
    <2> QED
        BY <2>3 DEF Surjection, T
<1>5. \A n \in 1..N : f[n] \in I /\ rank[f[n]] = n - 1
    <2> SUFFICES ASSUME NEW n \in 1..N PROVE f[n] \in I /\ rank[f[n]] = n - 1
        OBVIOUS
    <2>1. n - 1 \in 0..(N - 1)
        BY <1>1
    <2>2. \E i \in I : Cardinality({j \in I : <<j, i>> \in R}) = n - 1
        BY <1>4, <2>1 DEF Rank
    <2>3. f[n] = CHOOSE i \in I : Cardinality({j \in I : <<j, i>> \in R}) = n - 1
        BY DEF InOrder
    <2>4. f[n] \in I /\ Cardinality({j \in I : <<j, f[n]>> \in R}) = n - 1
        BY <2>2, <2>3
    <2> QED
        BY <2>4 DEF Rank
<1>6. f \in [1..N -> I]
    BY <1>5 DEF InOrder
<1>7. \A m, n \in 1..N : f[m] = f[n] => m = n
    <2>1. \A m, n \in 1..N : m - 1 = n - 1 => m = n
        BY <1>1
    <2> HIDE DEF f, rank, N
    <2> QED
        BY <1>5, <2>1
<1>8. \A i \in I : \E n \in 1..N : f[n] = i
    <2> SUFFICES ASSUME NEW i \in I PROVE \E n \in 1..N : f[n] = i
        OBVIOUS
    <2>1. rank[i] + 1 \in 1..N /\ (rank[i] + 1) - 1 = rank[i]
        BY <1>1, <1>3
    <2> HIDE DEF rank, f
    <2> QED
        BY <1>2, <1>5, <2>1
<1>9. ASSUME NEW m \in 1..N, NEW n \in 1..N PROVE m < n <=> <<f[m], f[n]>> \in R
    <2>1. rank[f[m]] = m - 1 /\ rank[f[n]] = n - 1 /\ f[m] \in I /\ f[n] \in I
        BY <1>5
    <2>2. <<f[m], f[n]>> \in R => rank[f[m]] < rank[f[n]]
        BY <2>1, RankGrows
    <2>3. <<f[n], f[m]>> \in R => rank[f[n]] < rank[f[m]]
        BY <2>1, RankGrows
    <2>4. m # n => f[m] # f[n]
        BY <1>7
    <2>5. f[m] = f[n] \/ <<f[m], f[n]>> \in R \/ <<f[n], f[m]>> \in R
        BY <2>1 DEF StrictOrder
    <2> HIDE DEF rank, f
    <2> QED
        BY <1>1, <2>1, <2>2, <2>3, <2>4, <2>5
<1> HIDE DEF f, N
<1> QED
    BY <1>6, <1>7, <1>8, <1>9 DEF ListsBy, Lists, f, N

(* There is only one list in that order.                                   *)
LEMMA OneOrder ==
    ASSUME NEW I, IsFiniteSet(I), NEW R, StrictOrder(I, R), NEW f, ListsBy(f, I, R)
    PROVE  f = InOrder(I, R)
<1> DEFINE N == Cardinality(I)
           g == InOrder(I, R)
<1>1. N \in Nat /\ ListsBy(g, I, R)
    BY Places, FS_CardinalityType
<1> HIDE DEF g
<1> DEFINE S == {n \in Nat : \A m \in 1..N : m <= n => f[m] = g[m]}
<1>2. 0 \in S
    BY <1>1
<1>3. ASSUME NEW n \in Nat, n \in S PROVE n + 1 \in S
    <2> SUFFICES ASSUME n + 1 \in 1..N PROVE f[n + 1] = g[n + 1]
        <3>1. \A m \in 1..N : m <= n + 1 => m <= n \/ m = n + 1
            BY <1>1
        <3> QED
            BY <1>3, <3>1
    <2> DEFINE k == n + 1
    <2>1. k \in 1..N /\ k \in Nat
        OBVIOUS
    <2>2. PICK a \in 1..N : f[a] = g[k]
        BY <1>1, <2>1 DEF ListsBy, Lists
    <2>3. PICK b \in 1..N : g[b] = f[k]
        BY <1>1, <2>1 DEF ListsBy, Lists
    <2>4. ~(a < k) /\ ~(b < k)
        <3>1. a < k => f[a] = g[a]
            BY <1>1, <1>3
        <3>2. b < k => f[b] = g[b]
            BY <1>1, <1>3
        <3> HIDE DEF k, S
        <3> QED
            BY <1>1, <2>1, <2>2, <2>3, <3>1, <3>2 DEF ListsBy, Lists
    <2> HIDE DEF k, S, N
    <2>5. k < a => <<f[k], f[a]>> \in R /\ <<g[b], g[k]>> \in R
        BY <2>1, <2>2, <2>3 DEF ListsBy, N
    <2>6. k < a => b < k
        BY <1>1, <2>1, <2>2, <2>3, <2>5 DEF ListsBy, N
    <2>7. a = k
        BY <1>1, <2>1, <2>2, <2>4, <2>6
    <2> QED
        BY <2>2, <2>7 DEF k
<1>4. N \in S
    <2> HIDE DEF S
    <2> QED
        BY <1>1, <1>2, <1>3, FromZero
<1>5. \A m \in 1..N : f[m] = g[m]
    BY <1>1, <1>4
<1> QED
    BY <1>1, <1>5 DEF ListsBy, Lists, g

(* Something comes first.                                                  *)
LEMMA FirstExists ==
    ASSUME NEW I, IsFiniteSet(I), I # {}, NEW R, StrictOrder(I, R)
    PROVE  \E i \in I : \A j \in I : j # i => <<i, j>> \in R
<1> DEFINE N == Cardinality(I)
           f == InOrder(I, R)
<1>1. N \in Nat /\ N # 0 /\ ListsBy(f, I, R)
    BY Places, FS_CardinalityType, FS_EmptySet
<1> HIDE DEF N, f
<1>2. f[1] \in I
    BY <1>1 DEF ListsBy, Lists, N
<1>3. ASSUME NEW j \in I, j # f[1] PROVE <<f[1], j>> \in R
    <2>1. PICK n \in 1..N : f[n] = j
        BY <1>1 DEF ListsBy, Lists, N
    <2>2. 1 \in 1..N /\ 1 < n
        BY <1>1, <1>3, <2>1
    <2> QED
        BY <1>1, <2>1, <2>2 DEF ListsBy, N
<1> QED
    BY <1>2, <1>3

-----------------------------------------------------------------------------
(* A nonempty finite set of integers has a maximum.                        *)
LEMMA MaxIs ==
    ASSUME NEW S \in SUBSET Int, IsFiniteSet(S), S # {}
    PROVE  Max(S) \in S /\ \A x \in S : x <= Max(S)
<1> DEFINE R == {p \in S \X S : p[1] > p[2]}
<1>1. \A x, y \in S : <<x, y>> \in R <=> x > y
    OBVIOUS
<1>2. StrictOrder(S, R)
    <2> HIDE DEF R
    <2> QED
        BY <1>1 DEF StrictOrder
<1> HIDE DEF R
<1>3. PICK x \in S : \A y \in S : y # x => <<x, y>> \in R
    BY <1>2, FirstExists
<1>4. \A y \in S : x >= y
    <2> SUFFICES ASSUME NEW y \in S PROVE x >= y
        OBVIOUS
    <2>1. x \in Int /\ y \in Int /\ (y # x => x > y)
        BY <1>1, <1>3
    <2> QED
        BY <2>1
<1> QED
    BY <1>4 DEF Max

-----------------------------------------------------------------------------
(* Sequences as sets.                                                      *)

(* S has the members of C, each once.                                      *)
ListOf(S, C) ==
    /\ S \in Seq(C)
    /\ IsInjective(S)
    /\ ToSet(S) = C

(* What it means, index by index.                                          *)
LEMMA ListOfTells ==
    ASSUME NEW S, NEW C, ListOf(S, C)
    PROVE  /\ Len(S) \in Nat /\ DOMAIN S = 1..Len(S)
           /\ \A i \in 1..Len(S) : S[i] \in C
           /\ \A s \in C : \E i \in 1..Len(S) : S[i] = s
           /\ \A i, j \in 1..Len(S) : S[i] = S[j] => i = j
           /\ IsFiniteSet(C) /\ Cardinality(C) = Len(S)
           /\ S = <<>> <=> C = {}
<1>1. Len(S) \in Nat /\ DOMAIN S = 1..Len(S) /\ S \in [1..Len(S) -> C]
    BY LenProperties DEF ListOf
<1>2. /\ \A i \in 1..Len(S) : S[i] \in C
      /\ \A s \in C : \E i \in 1..Len(S) : S[i] = s
    BY <1>1 DEF ListOf, ToSet
<1>3. \A i, j \in 1..Len(S) : S[i] = S[j] => i = j
    BY <1>1 DEF ListOf, IsInjective
<1>4. IsFiniteSet(C) /\ Cardinality(C) = Len(S)
    <2>1. S \in Bijection(1..Len(S), C)
        BY <1>1, <1>2, <1>3 DEF Bijection, Injection, Surjection, IsInjective
    <2>2. ExistsBijection(1..Len(S), C)
        BY <2>1 DEF ExistsBijection
    <2>3. IsFiniteSet(1..Len(S)) /\ Cardinality(1..Len(S)) = Len(S)
        BY <1>1, FS_Interval
    <2> QED
        BY <2>2, <2>3, FS_Bijection
<1>5. S = <<>> <=> C = {}
    <2>1. S = <<>> <=> Len(S) = 0
        BY EmptySeq DEF ListOf
    <2>2. Len(S) = 0 <=> C = {}
        BY <1>1, <1>2
    <2> QED
        BY <2>1, <2>2
<1> QED
    BY <1>1, <1>2, <1>3, <1>4, <1>5

(* What a filter lets through.                                             *)
LEMMA AtLists ==
    ASSUME NEW S, NEW C, ListOf(S, C), NEW D \in SUBSET C
    PROVE  ListOf(At(S, {i \in DOMAIN S : S[i] \in D}), D)
<1> DEFINE I == {i \in DOMAIN S : S[i] \in D}
           R == {p \in I \X I : p[1] < p[2]}
           h == InOrder(I, R)
           N == Cardinality(I)
<1>1. /\ Len(S) \in Nat /\ DOMAIN S = 1..Len(S)
      /\ \A i \in 1..Len(S) : S[i] \in C
      /\ \A s \in C : \E i \in 1..Len(S) : S[i] = s
      /\ \A i, j \in 1..Len(S) : S[i] = S[j] => i = j
    BY ListOfTells
<1>2. IsFiniteSet(I) /\ I \in SUBSET Int
    <2>1. IsFiniteSet(1..Len(S)) /\ I \in SUBSET (1..Len(S))
        BY <1>1, FS_Interval
    <2> QED
        BY <1>1, <2>1, FS_Subset
<1>3. StrictOrder(I, R)
    <2> HIDE DEF I
    <2>1. \A i, j \in I : <<i, j>> \in R <=> i < j
        OBVIOUS
    <2> HIDE DEF R
    <2> QED
        BY <1>2, <2>1 DEF StrictOrder
<1>4. Lists(h, I) /\ N \in Nat
    BY <1>2, <1>3, Places, FS_CardinalityType DEF ListsBy
<1>5. DOMAIN h = 1..N
    BY <1>4 DEF Lists
<1>6. At(S, I) = [n \in 1..N |-> S[h[n]]]
    BY <1>5 DEF At
<1>7. \A n \in 1..N : h[n] \in I /\ h[n] \in 1..Len(S) /\ S[h[n]] \in D
    <2>1. \A i \in I : i \in 1..Len(S) /\ S[i] \in D
        BY <1>1
    <2> HIDE DEF I, h, R
    <2> QED
        BY <1>4, <2>1 DEF Lists, N
<1>8. \A d \in D : \E n \in 1..N : S[h[n]] = d
    <2> SUFFICES ASSUME NEW d \in D PROVE \E n \in 1..N : S[h[n]] = d
        OBVIOUS
    <2>1. PICK i \in I : S[i] = d
        BY <1>1
    <2> HIDE DEF I, h, R
    <2> QED
        BY <1>4, <2>1 DEF Lists, N
<1>9. \A m, n \in 1..N : S[h[m]] = S[h[n]] => m = n
    <2> HIDE DEF I, h, R
    <2> QED
        BY <1>1, <1>4, <1>7 DEF Lists, N
<1> DEFINE A == [n \in 1..N |-> S[h[n]]]
<1> HIDE DEF I, h, R, N
<1>10. A \in Seq(D) /\ DOMAIN A = 1..N
    BY <1>4, <1>7, SeqDef
<1>11. ToSet(A) = D
    BY <1>7, <1>8, <1>10 DEF ToSet
<1>12. IsInjective(A)
    BY <1>9, <1>10 DEF IsInjective
<1>13. ListOf(A, D)
    BY <1>10, <1>11, <1>12 DEF ListOf
<1> QED
    BY <1>6, <1>13 DEF I

-----------------------------------------------------------------------------
(* Sums.                                                                   *)

Pick(s) == CHOOSE x \in s : TRUE

SumsOf(g, K, f) ==
    g = [s \in K |-> IF s = {} THEN 0 ELSE f[Pick(s)] + g[s \ {Pick(s)}]]

(* The recursive function of the library's definition exists.              *)
LEMMA SumsExist ==
    ASSUME NEW D, IsFiniteSet(D), NEW f \in [D -> Int]
    PROVE  \E g : SumsOf(g, SUBSET D, f)
<1> DEFINE K(n) == {s \in SUBSET D : Cardinality(s) <= n}
           S == {n \in Nat : \E g : SumsOf(g, K(n), f)}
<1>1. \A s \in SUBSET D :
         /\ IsFiniteSet(s) /\ Cardinality(s) \in Nat /\ Cardinality(s) <= Cardinality(D)
         /\ s = {} <=> Cardinality(s) = 0
         /\ s # {} => /\ Pick(s) \in s /\ s \ {Pick(s)} \in SUBSET D
                      /\ Cardinality(s \ {Pick(s)}) = Cardinality(s) - 1
    <2> SUFFICES ASSUME NEW s \in SUBSET D
                 PROVE  /\ IsFiniteSet(s) /\ Cardinality(s) \in Nat
                        /\ Cardinality(s) <= Cardinality(D)
                        /\ s = {} <=> Cardinality(s) = 0
                        /\ s # {} => /\ Pick(s) \in s /\ s \ {Pick(s)} \in SUBSET D
                                     /\ Cardinality(s \ {Pick(s)}) = Cardinality(s) - 1
        OBVIOUS
    <2>1. IsFiniteSet(s) /\ Cardinality(s) \in Nat /\ Cardinality(s) <= Cardinality(D)
        BY FS_Subset, FS_CardinalityType
    <2>2. s = {} <=> Cardinality(s) = 0
        BY <2>1, FS_EmptySet
    <2>3. s # {} => Pick(s) \in s
        BY DEF Pick
    <2>4. s # {} => Cardinality(s \ {Pick(s)}) = Cardinality(s) - 1
        BY <2>1, <2>3, FS_RemoveElement
    <2> QED
        BY <2>1, <2>2, <2>3, <2>4
<1> HIDE DEF K
<1>a. \A n \in Nat : \A s \in SUBSET D : s \in K(n) <=> Cardinality(s) <= n
    BY DEF K
<1>b. \A n : K(n) \in SUBSET (SUBSET D)
    BY DEF K
<1>2. 0 \in S
    <2> DEFINE g == [s \in K(0) |-> 0]
    <2>1. \A s \in K(0) : s = {}
        <3> SUFFICES ASSUME NEW s \in K(0) PROVE s = {}
            OBVIOUS
        <3>1. s \in SUBSET D /\ Cardinality(s) <= 0
            BY DEF K
        <3>2. Cardinality(s) \in Nat /\ (s = {} <=> Cardinality(s) = 0)
            BY ONLY <1>1, <3>1
        <3> QED
            BY <3>1, <3>2
    <2>2. SumsOf(g, K(0), f)
        BY <2>1 DEF SumsOf
    <2> QED
        BY <2>2
<1>3. ASSUME NEW n \in Nat, n \in S PROVE n + 1 \in S
    <2>1. PICK g : SumsOf(g, K(n), f)
        BY <1>3
    <2>2. \A s \in K(n) : g[s] = IF s = {} THEN 0 ELSE f[Pick(s)] + g[s \ {Pick(s)}]
        BY <2>1 DEF SumsOf
    <2> DEFINE h == [s \in K(n + 1) |-> IF s = {} THEN 0 ELSE f[Pick(s)] + g[s \ {Pick(s)}]]
    <2>3. \A s \in K(n) : s \in K(n + 1) /\ h[s] = g[s]
        <3>1. \A s \in K(n) : s \in K(n + 1)
            <4> SUFFICES ASSUME NEW s \in K(n) PROVE s \in K(n + 1)
                OBVIOUS
            <4>1. s \in SUBSET D /\ Cardinality(s) \in Nat /\ Cardinality(s) <= n
                BY <1>1, <1>a, <1>b
            <4>2. Cardinality(s) <= n + 1
                BY <4>1
            <4> QED
                BY <1>a, <4>1, <4>2
        <3> QED
            BY <2>2, <3>1
    <2>4. \A s \in K(n + 1) : s # {} => s \ {Pick(s)} \in K(n)
        <3> SUFFICES ASSUME NEW s \in K(n + 1), s # {} PROVE s \ {Pick(s)} \in K(n)
            OBVIOUS
        <3>1. s \in SUBSET D /\ Cardinality(s) <= n + 1
            BY DEF K
        <3>2. s \ {Pick(s)} \in SUBSET D /\ Cardinality(s \ {Pick(s)}) = Cardinality(s) - 1
            BY ONLY <1>1, <3>1, s # {}
        <3>4. Cardinality(s) \in Nat
            BY ONLY <1>1, <3>1
        <3>3. Cardinality(s \ {Pick(s)}) <= n
            BY <3>1, <3>2, <3>4
        <3> QED
            BY <1>a, <3>2, <3>3
    <2>5. \A s \in K(n + 1) : h[s] = IF s = {} THEN 0 ELSE f[Pick(s)] + h[s \ {Pick(s)}]
        BY <2>3, <2>4
    <2>6. SumsOf(h, K(n + 1), f)
        BY <2>5 DEF SumsOf
    <2> HIDE DEF h
    <2> QED
        BY <2>6
<1>4. Cardinality(D) \in S
    <2> HIDE DEF S
    <2>1. Cardinality(D) \in Nat
        BY FS_CardinalityType
    <2> QED
        BY <1>2, <1>3, <2>1, FromZero
<1>5. K(Cardinality(D)) = SUBSET D
    BY <1>1 DEF K
<1> QED
    BY <1>4, <1>5

(* SumFunction is the value of that function at the whole domain.          *)
LEMMA SumIs ==
    ASSUME NEW D, IsFiniteSet(D), NEW f \in [D -> Int]
    PROVE  \E g : /\ SumsOf(g, SUBSET D, f)
                  /\ SumFunction(f) = g[D]
<1>1. \E g : SumsOf(g, SUBSET D, f)
    BY SumsExist
<1>2. SumFunction(f) = (CHOOSE g : SumsOf(g, SUBSET D, f))[D]
    BY DEF SumFunction, SumFunctionOnSet, FoldFunctionOnSet, MapThenFoldSet, SumsOf, Pick
<1> QED
    BY <1>1, <1>2

(* What is added up last makes no difference.                              *)
Sums(g, D, f) ==
    /\ g[{}] = 0
    /\ \A s \in SUBSET D :
          /\ g[s] \in Int
          /\ \A x \in s : g[s] = f[x] + g[s \ {x}]

(* Subsets of a finite set are finite, and one smaller without a member.   *)
LEMMA SubsetSizes ==
    ASSUME NEW D, IsFiniteSet(D), NEW s \in SUBSET D
    PROVE  /\ IsFiniteSet(s) /\ Cardinality(s) \in Nat
           /\ s = {} <=> Cardinality(s) = 0
           /\ \A x \in s : /\ s \ {x} \in SUBSET D
                           /\ Cardinality(s \ {x}) = Cardinality(s) - 1
<1>1. IsFiniteSet(s) /\ Cardinality(s) \in Nat
    BY FS_Subset, FS_CardinalityType
<1>2. s = {} <=> Cardinality(s) = 0
    BY <1>1, FS_EmptySet
<1>3. \A x \in s : Cardinality(s \ {x}) = Cardinality(s) - 1
    BY <1>1, FS_RemoveElement
<1> QED
    BY <1>1, <1>2, <1>3

(* ...so that the recursive function adds up, in whatever order.           *)
LEMMA SumsTell ==
    ASSUME NEW D, IsFiniteSet(D), NEW f \in [D -> Int], NEW g, SumsOf(g, SUBSET D, f)
    PROVE  Sums(g, D, f)
<1> DEFINE Agrees(s) == g[s] \in Int /\ \A x \in s : g[s] = f[x] + g[s \ {x}]
           S == {n \in Nat : \A s \in SUBSET D : Cardinality(s) <= n => Agrees(s)}
<1>1. \A s \in SUBSET D : g[s] = IF s = {} THEN 0 ELSE f[Pick(s)] + g[s \ {Pick(s)}]
    BY DEF SumsOf
<1>2. g[{}] = 0
    BY <1>1
<1>3. ASSUME NEW s \in SUBSET D, Cardinality(s) <= 0 PROVE Agrees(s)
    <2>1. s = {}
        BY <1>3, SubsetSizes
    <2> QED
        BY <1>2, <2>1
<1>4. ASSUME NEW n \in Nat, \A s \in SUBSET D : Cardinality(s) <= n => Agrees(s),
             NEW s \in SUBSET D, Cardinality(s) <= n + 1
      PROVE  Agrees(s)
    <2>1. \A x \in s : s \ {x} \in SUBSET D /\ Agrees(s \ {x}) /\ Cardinality(s \ {x}) <= n
        <3> SUFFICES ASSUME NEW x \in s
                     PROVE  s \ {x} \in SUBSET D /\ Agrees(s \ {x}) /\ Cardinality(s \ {x}) <= n
            OBVIOUS
        <3>1. /\ s \ {x} \in SUBSET D /\ Cardinality(s \ {x}) = Cardinality(s) - 1
              /\ Cardinality(s) \in Nat
            BY SubsetSizes
        <3>2. Cardinality(s \ {x}) <= n
            BY <1>4, <3>1
        <3> HIDE DEF Agrees
        <3> QED
            BY <1>4, <3>1, <3>2
    <2>2. CASE s = {}
        BY <1>2, <2>2
    <2>3. CASE s # {}
        <3> DEFINE y == Pick(s)
        <3>1. y \in s
            BY <2>3 DEF Pick
        <3>2. g[s] = f[y] + g[s \ {y}]
            BY <1>1, <2>3
        <3> HIDE DEF y
        <3>3. f[y] \in Int /\ g[s \ {y}] \in Int
            BY <2>1, <3>1
        <3>4. ASSUME NEW x \in s, x # y PROVE g[s] = f[x] + g[s \ {x}]
            <4> DEFINE r == (s \ {x}) \ {y}
            <4>1. r = (s \ {y}) \ {x} /\ x \in s \ {y} /\ y \in s \ {x}
                BY <3>1, <3>4
            <4>2. g[s \ {y}] = f[x] + g[r]
                BY <2>1, <3>1, <4>1
            <4>3. g[s \ {x}] = f[y] + g[r]
                BY <2>1, <4>1
            <4>4. g[r] \in Int
                <5>1. s \ {x} \in SUBSET D /\ Cardinality(s \ {x}) <= n
                    BY <2>1
                <5>2. /\ r \in SUBSET D /\ Cardinality(r) = Cardinality(s \ {x}) - 1
                      /\ Cardinality(s \ {x}) \in Nat
                    <6> DEFINE u == s \ {x}
                    <6>1. u \in SUBSET D /\ y \in u
                        BY <4>1, <5>1
                    <6> HIDE DEF u
                    <6>2. /\ u \ {y} \in SUBSET D /\ Cardinality(u) \in Nat
                          /\ Cardinality(u \ {y}) = Cardinality(u) - 1
                        BY <6>1, SubsetSizes
                    <6> QED
                        BY <6>2 DEF u
                <5>3. Cardinality(r) <= n
                    BY <1>4, <5>1, <5>2
                <5> QED
                    BY <1>4, <5>2, <5>3
            <4>5. f[x] \in Int
                OBVIOUS
            <4> HIDE DEF r
            <4> QED
                BY <3>2, <3>3, <4>2, <4>3, <4>4, <4>5
        <3> QED
            <4>1. \A x \in s : g[s] = f[x] + g[s \ {x}]
                BY <3>2, <3>4
            <4>2. g[s] \in Int
                BY ONLY <3>2, <3>3
            <4> QED
                BY <4>1, <4>2
    <2> QED
        BY <2>2, <2>3
<1> HIDE DEF Agrees
<1>5. 0 \in S
    BY <1>3
<1>6. ASSUME NEW n \in Nat, n \in S PROVE n + 1 \in S
    BY <1>4, <1>6
<1>7. \A s \in SUBSET D : Agrees(s)
    <2> SUFFICES ASSUME NEW s \in SUBSET D PROVE Agrees(s)
        OBVIOUS
    <2>1. Cardinality(s) \in Nat
        BY SubsetSizes
    <2>2. Cardinality(s) \in S
        <3> HIDE DEF S
        <3> QED
            BY <1>5, <1>6, <2>1, FromZero
    <2> QED
        BY <2>1, <2>2
<1> QED
    BY <1>2, <1>7 DEF Sums, Agrees

(* A sum of no more and no larger numbers is no larger.                    *)
LEMMA SumsGrow ==
    ASSUME NEW D, IsFiniteSet(D), NEW f \in [D -> Int], NEW g, Sums(g, D, f),
           NEW E, IsFiniteSet(E), NEW e \in [E -> Nat], NEW h, Sums(h, E, e),
           NEW j \in [D -> E], \A x, y \in D : j[x] = j[y] => x = y,
           \A x \in D : f[x] <= e[j[x]]
    PROVE  h[E] >= 0 /\ g[D] <= h[E]
<1>1. \A t \in SUBSET E : h[t] >= 0
    <2> DEFINE S == {n \in Nat : \A t \in SUBSET E : Cardinality(t) = n => h[t] >= 0}
    <2>1. 0 \in S
        <3> SUFFICES ASSUME NEW t \in SUBSET E, Cardinality(t) = 0 PROVE h[t] >= 0
            OBVIOUS
        <3>1. t = {}
            BY SubsetSizes
        <3> QED
            BY <3>1 DEF Sums
    <2>2. ASSUME NEW n \in Nat, n \in S PROVE n + 1 \in S
        <3> SUFFICES ASSUME NEW t \in SUBSET E, Cardinality(t) = n + 1 PROVE h[t] >= 0
            OBVIOUS
        <3>1. PICK y \in t : TRUE
            BY SubsetSizes
        <3>2. t \ {y} \in SUBSET E /\ Cardinality(t \ {y}) = (n + 1) - 1
            BY SubsetSizes
        <3>3. Cardinality(t \ {y}) = n
            BY <3>2
        <3>4. h[t \ {y}] >= 0
            BY <2>2, <3>2, <3>3
        <3>5. h[t] = e[y] + h[t \ {y}] /\ h[t \ {y}] \in Int /\ e[y] \in Nat
            BY <3>2 DEF Sums
        <3> QED
            BY <3>4, <3>5
    <2> HIDE DEF S
    <2>3. Nat \subseteq S
        BY <2>1, <2>2, FromZero
    <2> SUFFICES ASSUME NEW t \in SUBSET E PROVE h[t] >= 0
        OBVIOUS
    <2>4. Cardinality(t) \in S
        BY <2>3, SubsetSizes
    <2> QED
        BY <2>4 DEF S
<1> DEFINE S == {n \in Nat : \A s \in SUBSET D : \A t \in SUBSET E :
                    Cardinality(s) = n /\ (\A x \in s : j[x] \in t) => g[s] <= h[t]}
<1>2. 0 \in S
    <2> SUFFICES ASSUME NEW s \in SUBSET D, NEW t \in SUBSET E, Cardinality(s) = 0
                 PROVE  g[s] <= h[t]
        OBVIOUS
    <2>1. s = {}
        BY SubsetSizes
    <2>2. g[s] = 0
        BY <2>1 DEF Sums
    <2>3. h[t] >= 0 /\ h[t] \in Int
        BY <1>1 DEF Sums
    <2> QED
        BY <2>2, <2>3
<1>3. ASSUME NEW n \in Nat, n \in S PROVE n + 1 \in S
    <2> SUFFICES ASSUME NEW s \in SUBSET D, NEW t \in SUBSET E, Cardinality(s) = n + 1,
                        \A x \in s : j[x] \in t
                 PROVE  g[s] <= h[t]
        OBVIOUS
    <2>1. PICK x \in s : TRUE
        BY SubsetSizes
    <2> DEFINE y == j[x]
    <2>2. s \ {x} \in SUBSET D /\ Cardinality(s \ {x}) = (n + 1) - 1
        BY SubsetSizes
    <2>3. Cardinality(s \ {x}) = n
        BY <2>2
    <2>4. t \ {y} \in SUBSET E /\ y \in t /\ \A z \in s \ {x} : j[z] \in t \ {y}
        OBVIOUS
    <2>5. g[s \ {x}] <= h[t \ {y}]
        <3> HIDE DEF y
        <3> QED
            BY <1>3, <2>2, <2>3, <2>4
    <2>6. g[s] = f[x] + g[s \ {x}] /\ g[s \ {x}] \in Int /\ f[x] \in Int
        BY <2>2 DEF Sums
    <2>7. h[t] = e[y] + h[t \ {y}] /\ h[t \ {y}] \in Int /\ e[y] \in Int
        <3> HIDE DEF y
        <3>1. h[t] = e[y] + h[t \ {y}] /\ h[t \ {y}] \in Int
            BY <2>4 DEF Sums
        <3>2. e[y] \in Nat
            BY <2>4
        <3> QED
            BY <3>1, <3>2
    <2>8. f[x] <= e[y]
        OBVIOUS
    <2> HIDE DEF y
    <2> QED
        BY <2>5, <2>6, <2>7, <2>8
<1> HIDE DEF S
<1>4. Cardinality(D) \in S
    <2>1. Cardinality(D) \in Nat
        BY FS_CardinalityType
    <2> QED
        BY <1>2, <1>3, <2>1, FromZero
<1>5. D \in SUBSET D /\ E \in SUBSET E /\ \A x \in D : j[x] \in E
    OBVIOUS
<1> QED
    BY <1>1, <1>4, <1>5 DEF S

(* ...and of the same numbers, in whatever order, the same.                *)
LEMMA SumFunctionGrows ==
    ASSUME NEW D, IsFiniteSet(D), NEW f \in [D -> Nat],
           NEW E, IsFiniteSet(E), NEW e \in [E -> Nat],
           NEW j \in [D -> E], \A x, y \in D : j[x] = j[y] => x = y,
           \A x \in D : f[x] <= e[j[x]]
    PROVE  /\ SumFunction(f) \in Nat /\ SumFunction(e) \in Nat
           /\ SumFunction(f) <= SumFunction(e)
<1>1. f \in [D -> Int] /\ e \in [E -> Int]
    OBVIOUS
<1>2. PICK g : SumsOf(g, SUBSET D, f) /\ SumFunction(f) = g[D]
    BY <1>1, SumIs
<1>3. PICK h : SumsOf(h, SUBSET E, e) /\ SumFunction(e) = h[E]
    BY <1>1, SumIs
<1>4. Sums(g, D, f) /\ Sums(h, E, e)
    BY <1>1, <1>2, <1>3, SumsTell
<1>5. g[D] <= h[E] /\ h[E] >= 0
    BY <1>1, <1>4, SumsGrow
<1>6. g[D] >= 0
    <2> DEFINE i == [x \in D |-> x]
    <2>1. i \in [D -> D] /\ \A x \in D : i[x] = x
        OBVIOUS
    <2> HIDE DEF i
    <2>2. \A x, y \in D : i[x] = i[y] => x = y
        BY <2>1
    <2>3. \A x \in D : f[x] <= f[i[x]]
        BY <2>1
    <2> QED
        BY <1>1, <1>4, <2>1, <2>2, <2>3, SumsGrow
<1>7. g[D] \in Int /\ h[E] \in Int
    BY <1>4 DEF Sums
<1> QED
    BY <1>2, <1>3, <1>5, <1>6, <1>7

(* The sum of nothing.                                                     *)
LEMMA EmptySum ==
    ASSUME NEW f \in [{} -> Nat]
    PROVE  SumFunction(f) = 0
<1>1. IsFiniteSet({}) /\ f \in [{} -> Int]
    BY FS_EmptySet
<1>2. PICK g : SumsOf(g, SUBSET {}, f) /\ SumFunction(f) = g[{}]
    BY <1>1, SumIs
<1> QED
    BY <1>1, <1>2, SumsTell DEF Sums

-----------------------------------------------------------------------------
(* Attempts.                                                               *)

Recorded(s) ==
    /\ s.time \in Nat
    /\ ExtractScore(s) \in Nat \cup {Missing}
    /\ s.max \in Nat \cup {Missing}
    /\ Seconds(s) \in Nat

(* What the assumption on the statements gives.                            *)
LEMMA PoolRecorded ==
    \A s \in Pool : Recorded(s)
<1> SUFFICES ASSUME NEW s \in Pool PROVE Recorded(s)
    OBVIOUS
<1>1. /\ s.time \in Nat
      /\ s.raw \in Nat \cup {Missing} /\ s.scaled \in Nat \cup {Missing}
      /\ s.max \in Nat \cup {Missing}
      /\ s.duration.days \in Nat /\ s.duration.hours \in Nat
      /\ s.duration.minutes \in Nat /\ s.duration.halfSeconds \in Nat
    BY MetricValuesAssumption
<1>2. ExtractScore(s) \in Nat \cup {Missing}
    BY <1>1 DEF ExtractScore
<1>3. ParseDuration(s.duration) \in Nat
    BY <1>1 DEF ParseDuration
<1>4. Seconds(s) \in Nat
    BY <1>3 DEF Seconds
<1> QED
    BY <1>1, <1>2, <1>4 DEF Recorded

(* In a list sorted by a relation with ties, something comes first.        *)
LEMMA FirstOfList ==
    ASSUME NEW S, NEW C, ListOf(S, C), C # {}, NEW B,
           \A s \in C : ~(<<s, s>> \in B),
           \A s, t, u \in C : <<s, t>> \in B /\ <<t, u>> \in B => <<s, u>> \in B,
           \A s, t, u \in C : <<s, u>> \in B => <<s, t>> \in B \/ <<t, u>> \in B
    PROVE  \E i \in DOMAIN S : \A j \in DOMAIN S :
              /\ ~(<<S[j], S[i]>> \in B)
              /\ j < i => <<S[i], S[j]>> \in B
<1> DEFINE I == 1..Len(S)
           R == {p \in I \X I : \/ <<S[p[1]], S[p[2]]>> \in B
                                \/ ~(<<S[p[2]], S[p[1]]>> \in B) /\ p[1] < p[2]}
<1>1. /\ Len(S) \in Nat /\ DOMAIN S = I
      /\ \A i \in I : S[i] \in C
      /\ S # <<>>
    BY ListOfTells
<1>2. IsFiniteSet(I) /\ I # {} /\ I \in SUBSET Int
    <2>1. Len(S) # 0
        BY <1>1, EmptySeq DEF ListOf
    <2>2. 1 \in I /\ I \in SUBSET Int
        BY <1>1, <2>1
    <2>3. IsFiniteSet(I)
        BY <1>1, FS_Interval
    <2> QED
        BY <2>2, <2>3
<1>3. \A i, j \in I : <<i, j>> \in R <=>
          <<S[i], S[j]>> \in B \/ (~(<<S[j], S[i]>> \in B) /\ i < j)
    OBVIOUS
<1> HIDE DEF I, R
<1>4. StrictOrder(I, R)
    <2>1. ASSUME NEW i \in I PROVE ~(<<i, i>> \in R)
        <3>1. i \in Int /\ ~(i < i) /\ S[i] \in C
            BY <1>1, <1>2
        <3> QED
            BY <1>3, <3>1
    <2>2. ASSUME NEW i \in I, NEW j \in I, NEW k \in I, <<i, j>> \in R, <<j, k>> \in R
          PROVE  <<i, k>> \in R
        <3>1. i \in Int /\ j \in Int /\ k \in Int /\ S[i] \in C /\ S[j] \in C /\ S[k] \in C
            BY <1>1, <1>2
        <3>2. <<S[i], S[j]>> \in B \/ (~(<<S[j], S[i]>> \in B) /\ i < j)
            BY <1>3, <2>2
        <3>3. <<S[j], S[k]>> \in B \/ (~(<<S[k], S[j]>> \in B) /\ j < k)
            BY <1>3, <2>2
        <3>4. <<S[i], S[k]>> \in B \/ (~(<<S[k], S[i]>> \in B) /\ i < k)
            BY <3>1, <3>2, <3>3
        <3> QED
            BY <1>3, <3>4
    <2>3. ASSUME NEW i \in I, NEW j \in I
          PROVE  i = j \/ <<i, j>> \in R \/ <<j, i>> \in R
        <3>1. i = j \/ i < j \/ j < i
            BY <1>2
        <3> QED
            BY <1>3, <3>1
    <2> QED
        BY <2>1, <2>2, <2>3 DEF StrictOrder
<1>5. PICK i \in I : \A j \in I : j # i => <<i, j>> \in R
    BY <1>2, <1>4, FirstExists
<1>6. ASSUME NEW j \in I
      PROVE  ~(<<S[j], S[i]>> \in B) /\ (j < i => <<S[i], S[j]>> \in B)
    <2>1. i \in Int /\ j \in Int /\ S[i] \in C /\ S[j] \in C
        BY <1>1, <1>2
    <2>2. j # i => <<S[i], S[j]>> \in B \/ (~(<<S[j], S[i]>> \in B) /\ i < j)
        BY <1>3, <1>5
    <2>3. j < i => j # i /\ ~(i < j)
        BY <2>1
    <2>4. ~(<<S[i], S[i]>> \in B)
        BY <2>1
    <2>5. <<S[i], S[j]>> \in B => ~(<<S[j], S[i]>> \in B)
        BY <2>1, <2>4
    <2> QED
        BY <2>2, <2>3, <2>4, <2>5
<1> QED
    BY <1>1, <1>6

(* FirstBy with MoreRecent finds one than which none is later.             *)
LEMMA LatestFirst ==
    ASSUME NEW S, NEW C, ListOf(S, C), C # {}, C \subseteq Pool
    PROVE  /\ FirstBy(S, MoreRecent) \in C
           /\ \A t \in C : t.time <= FirstBy(S, MoreRecent).time
<1> DEFINE B == {p \in C \X C : MoreRecent(p[1], p[2])}
<1>1. \A s \in C : s.time \in Nat
    BY PoolRecorded DEF Recorded
<1>2. \A s, t \in C : <<s, t>> \in B <=> s.time > t.time
    BY DEF MoreRecent
<1> HIDE DEF B
<1>3. \E i \in DOMAIN S : \A j \in DOMAIN S :
         /\ ~(<<S[j], S[i]>> \in B)
         /\ j < i => <<S[i], S[j]>> \in B
    <2>1. \A s \in C : ~(<<s, s>> \in B)
        BY <1>1, <1>2
    <2>2. \A s, t, u \in C : <<s, t>> \in B /\ <<t, u>> \in B => <<s, u>> \in B
        BY <1>1, <1>2
    <2>3. \A s, t, u \in C : <<s, u>> \in B => <<s, t>> \in B \/ <<t, u>> \in B
        BY <1>1, <1>2
    <2> QED
        BY <2>1, <2>2, <2>3, FirstOfList
<1>4. /\ DOMAIN S = 1..Len(S)
      /\ \A i \in 1..Len(S) : S[i] \in C
      /\ \A s \in C : \E i \in 1..Len(S) : S[i] = s
    BY ListOfTells
<1>5. \E i \in DOMAIN S : \A j \in DOMAIN S :
         /\ ~MoreRecent(S[j], S[i])
         /\ j < i => MoreRecent(S[i], S[j])
    BY <1>2, <1>3, <1>4 DEF MoreRecent
<1> DEFINE best == CHOOSE i \in DOMAIN S : \A j \in DOMAIN S :
                      ~MoreRecent(S[j], S[i]) /\ (j < i => MoreRecent(S[i], S[j]))
<1>6. best \in DOMAIN S /\ \A j \in DOMAIN S : ~MoreRecent(S[j], S[best])
    BY <1>5
<1>7. FirstBy(S, MoreRecent) = S[best]
    BY DEF FirstBy
<1> HIDE DEF best
<1>8. ASSUME NEW t \in C PROVE t.time <= S[best].time
    <2>1. PICK j \in 1..Len(S) : S[j] = t
        BY <1>4
    <2>2. S[best] \in C
        BY <1>4, <1>6
    <2>3. ~(t.time > S[best].time)
        BY <1>4, <1>6, <2>1 DEF MoreRecent
    <2>4. t.time \in Nat /\ S[best].time \in Nat
        BY <1>1, <2>2
    <2> QED
        BY <2>3, <2>4
<1> QED
    BY <1>4, <1>6, <1>7, <1>8

(* FirstBy with ScoreThenTime finds one than which none is better.         *)
LEMMA BestFirst ==
    ASSUME NEW S, NEW C, ListOf(S, C), C # {}, C \subseteq Pool
    PROVE  /\ FirstBy(S, ScoreThenTime) \in C
           /\ \A t \in C : ~ScoreThenTime(t, FirstBy(S, ScoreThenTime))
<1> DEFINE B == {p \in C \X C : ScoreThenTime(p[1], p[2])}
<1>1. \A s \in C : s.time \in Nat /\ ExtractScore(s) \in Int
    BY PoolRecorded DEF Recorded, Missing
<1>2. \A s, t \in C : <<s, t>> \in B <=> ScoreThenTime(s, t)
    OBVIOUS
<1> HIDE DEF B
<1>3. \A s, t \in C : <<s, t>> \in B <=>
         \/ ExtractScore(s) > ExtractScore(t)
         \/ ExtractScore(s) = ExtractScore(t) /\ s.time > t.time
    BY <1>2 DEF ScoreThenTime, MoreRecent
<1>4. \E i \in DOMAIN S : \A j \in DOMAIN S :
         /\ ~(<<S[j], S[i]>> \in B)
         /\ j < i => <<S[i], S[j]>> \in B
    <2>1. \A s \in C : ~(<<s, s>> \in B)
        BY <1>1, <1>3
    <2>2. \A s, t, u \in C : <<s, t>> \in B /\ <<t, u>> \in B => <<s, u>> \in B
        BY <1>1, <1>3
    <2>3. \A s, t, u \in C : <<s, u>> \in B => <<s, t>> \in B \/ <<t, u>> \in B
        BY <1>1, <1>3
    <2> QED
        BY <2>1, <2>2, <2>3, FirstOfList
<1>5. /\ DOMAIN S = 1..Len(S)
      /\ \A i \in 1..Len(S) : S[i] \in C
      /\ \A s \in C : \E i \in 1..Len(S) : S[i] = s
    BY ListOfTells
<1>6. \E i \in DOMAIN S : \A j \in DOMAIN S :
         /\ ~ScoreThenTime(S[j], S[i])
         /\ j < i => ScoreThenTime(S[i], S[j])
    BY <1>2, <1>4, <1>5
<1> DEFINE best == CHOOSE i \in DOMAIN S : \A j \in DOMAIN S :
                      ~ScoreThenTime(S[j], S[i]) /\ (j < i => ScoreThenTime(S[i], S[j]))
<1>7. best \in DOMAIN S /\ \A j \in DOMAIN S : ~ScoreThenTime(S[j], S[best])
    BY <1>6
<1>8. FirstBy(S, ScoreThenTime) = S[best]
    BY DEF FirstBy
<1> HIDE DEF best
<1> QED
    BY <1>5, <1>7, <1>8

(* The attempt that counts, told by the set of attempts.                   *)
LatestIn(b, C) == b \in C /\ \A t \in C : t.time <= b.time

CompletedOnes(C) == {s \in C : IsCompleted(s)}

Chosen(b, C) ==
    IF \E s \in C : ExtractScore(s) # Missing
    THEN b \in C /\ \A t \in C : ~ScoreThenTime(t, b)
    ELSE LatestIn(b, IF CompletedOnes(C) # {} THEN CompletedOnes(C) ELSE C)

(* The completed statements of a list.                                     *)
LEMMA CompletedLists ==
    ASSUME NEW S, NEW C, ListOf(S, C)
    PROVE  ListOf(Completed(S), CompletedOnes(C))
<1> DEFINE D == CompletedOnes(C)
<1>1. {i \in DOMAIN S : IsCompleted(S[i])} = {i \in DOMAIN S : S[i] \in D}
    BY ListOfTells DEF CompletedOnes
<1>2. D \in SUBSET C
    BY DEF CompletedOnes
<1> HIDE DEF D
<1>3. ListOf(At(S, {i \in DOMAIN S : S[i] \in D}), D)
    BY <1>2, AtLists
<1> QED
    BY <1>1, <1>3 DEF Completed, D

(* SelectBestAttempt returns an attempt that counts.                       *)
LEMMA SelectsChosen ==
    ASSUME NEW S, NEW C, ListOf(S, C), C # {}, C \subseteq Pool
    PROVE  Chosen(SelectBestAttempt(S), C)
<1> DEFINE D == CompletedOnes(C)
           T == IF Completed(S) # <<>> THEN Completed(S) ELSE S
           E == IF D # {} THEN D ELSE C
<1>1. (\E i \in DOMAIN S : ExtractScore(S[i]) # Missing)
         <=> \E s \in C : ExtractScore(s) # Missing
    BY ListOfTells
<1>2. CASE \E s \in C : ExtractScore(s) # Missing
    <2>1. SelectBestAttempt(S) = FirstBy(S, ScoreThenTime)
        BY <1>1, <1>2 DEF SelectBestAttempt
    <2> QED
        BY <1>2, <2>1, BestFirst DEF Chosen
<1>3. CASE ~\E s \in C : ExtractScore(s) # Missing
    <2>1. SelectBestAttempt(S) = FirstBy(T, MoreRecent)
        BY <1>1, <1>3 DEF SelectBestAttempt
    <2>2. ListOf(Completed(S), D) /\ (Completed(S) = <<>> <=> D = {})
        BY CompletedLists, ListOfTells
    <2>3. ListOf(T, E) /\ E # {} /\ E \subseteq Pool
        BY <2>2 DEF CompletedOnes
    <2> HIDE DEF T, E
    <2>4. LatestIn(FirstBy(T, MoreRecent), E)
        BY <2>3, LatestFirst DEF LatestIn
    <2> QED
        BY <1>3, <2>1, <2>4 DEF Chosen, E
<1> QED
    BY <1>2, <1>3

(* It has the highest score, Missing being below all others.               *)
LEMMA ChosenTells ==
    ASSUME NEW C, C \subseteq Pool, NEW b, Chosen(b, C)
    PROVE  b \in C /\ \A t \in C : ExtractScore(t) <= ExtractScore(b)
<1>1. \A s \in C : s.time \in Nat /\ ExtractScore(s) \in Nat \cup {Missing}
    BY PoolRecorded DEF Recorded
<1>2. CASE \E s \in C : ExtractScore(s) # Missing
    BY <1>1, <1>2 DEF Chosen, ScoreThenTime, Missing
<1>3. CASE ~\E s \in C : ExtractScore(s) # Missing
    <2>1. b \in C
        BY <1>3 DEF Chosen, LatestIn, CompletedOnes
    <2> QED
        BY <1>3, <2>1 DEF Missing
<1> QED
    BY <1>2, <1>3

(* If no two statements have the same time, only one attempt counts.       *)
LEMMA ChosenOnce ==
    ASSUME TimesDiffer, NEW C, C \subseteq Pool,
           NEW b, Chosen(b, C), NEW c, Chosen(c, C)
    PROVE  b = c
<1>1. \A s \in C : s.time \in Nat /\ ExtractScore(s) \in Int
    BY PoolRecorded DEF Recorded, Missing
<1>2. b \in C /\ c \in C
    BY ChosenTells
<1>3. b.time = c.time
    <2>1. CASE \E s \in C : ExtractScore(s) # Missing
        BY <1>1, <1>2, <2>1 DEF Chosen, ScoreThenTime, MoreRecent
    <2>2. CASE ~\E s \in C : ExtractScore(s) # Missing
        <3>1. b.time <= c.time /\ c.time <= b.time
            BY <2>2 DEF Chosen, LatestIn
        <3> QED
            BY <1>1, <1>2, <3>1
    <2> QED
        BY <2>1, <2>2
<1> QED
    BY <1>2, <1>3 DEF TimesDiffer

-----------------------------------------------------------------------------
(* The providers, as functions of a set of statements.                     *)

GroupsAmong(m, C, p) == UNION {GroupsOf(m, s, p) : s \in C}
Grouped(m, C, p, g) == {s \in C : g \in GroupsOf(m, s, p)}
ObjectsOf(C) == {s.object : s \in C} \ {NoIri}
On(C, e) == {s \in C : s.object = e}

TopScore(C) == Max({ExtractScore(s) : s \in C})

ScoredOf(C) == {e \in ObjectsOf(C) : TopScore(On(C, e)) # Missing}

ScoresOf(m, C, p) ==
    [g \in GroupsAmong(m, {s \in C : s.object # NoIri}, p) |->
        LET D == Grouped(m, C, p, g)
        IN  SumFunction([e \in ScoredOf(D) |-> TopScore(On(D, e))])]

TopMax(C) == Max({s.max : s \in C})

Maximal(C) == {s \in C : s.object # NoIri /\ s.max # Missing}

MaximaOf(m, C, p) ==
    [g \in GroupsAmong(m, Maximal(C), p) |->
        LET D == Grouped(m, Maximal(C), p, g)
        IN  SumFunction([e \in ObjectsOf(D) |-> TopMax(On(D, e))])]

Lasting(C) == {s \in C : Seconds(s) > 0}

TimesOf(m, C, p) ==
    [g \in GroupsAmong(m, Lasting(C), p) |->
        Rounded(SumFunction([s \in Grouped(m, Lasting(C), p, g) |-> Seconds(s)]))]

-----------------------------------------------------------------------------
(* The maximum of a function's values is one of them.                      *)
LEMMA MaxOf ==
    ASSUME NEW C, IsFiniteSet(C), C # {}, NEW f \in [C -> Int]
    PROVE  /\ \E s \in C : f[s] = Max({f[t] : t \in C})
           /\ \A s \in C : f[s] <= Max({f[t] : t \in C})
<1> DEFINE T == {f[t] : t \in C}
<1>1. f \in Surjection(C, T)
    BY DEF Surjection
<1>2. IsFiniteSet(T) /\ T # {} /\ T \in SUBSET Int
    <2>1. IsFiniteSet(T)
        <3> HIDE DEF T
        <3> QED
            BY <1>1, FS_Surjection
    <2> QED
        BY <2>1
<1>3. Max(T) \in T /\ \A x \in T : x <= Max(T)
    <2> HIDE DEF T
    <2> QED
        BY <1>2, MaxIs
<1> QED
    BY <1>3

(* The highest score of a set of statements, Missing if none has one.      *)
LEMMA TopScoreIs ==
    ASSUME NEW C, C \subseteq Pool, C # {}
    PROVE  /\ TopScore(C) \in Nat \cup {Missing}
           /\ \E s \in C : ExtractScore(s) = TopScore(C)
           /\ \A s \in C : ExtractScore(s) <= TopScore(C)
<1> DEFINE f == [s \in C |-> ExtractScore(s)]
<1>1. IsFiniteSet(C)
    BY MetricValuesAssumption, FS_Subset
<1>2. \A s \in C : ExtractScore(s) \in Nat \cup {Missing}
    BY PoolRecorded DEF Recorded
<1>3. f \in [C -> Int] /\ TopScore(C) = Max({f[t] : t \in C}) /\ \A s \in C : f[s] = ExtractScore(s)
    BY <1>2 DEF TopScore, Missing
<1> HIDE DEF f
<1>4. /\ \E s \in C : f[s] = TopScore(C)
      /\ \A s \in C : f[s] <= TopScore(C)
    <2>1. /\ \E s \in C : f[s] = Max({f[t] : t \in C})
          /\ \A s \in C : f[s] <= Max({f[t] : t \in C})
        BY <1>1, <1>3, MaxOf
    <2> QED
        BY <1>3, <2>1
<1>5. \A s \in C : ExtractScore(s) <= TopScore(C)
    BY <1>3, <1>4
<1>6. PICK s \in C : ExtractScore(s) = TopScore(C)
    BY <1>3, <1>4
<1> QED
    BY <1>2, <1>5, <1>6

(* The largest maximum.                                                    *)
LEMMA TopMaxIs ==
    ASSUME NEW C, C \subseteq Pool, C # {}
    PROVE  /\ TopMax(C) \in Nat \cup {Missing}
           /\ \E s \in C : s.max = TopMax(C)
           /\ \A s \in C : s.max <= TopMax(C)
<1> DEFINE f == [s \in C |-> s.max]
<1>1. IsFiniteSet(C)
    BY MetricValuesAssumption, FS_Subset
<1>2. \A s \in C : s.max \in Nat \cup {Missing}
    BY PoolRecorded DEF Recorded
<1>3. f \in [C -> Int] /\ TopMax(C) = Max({f[t] : t \in C}) /\ \A s \in C : f[s] = s.max
    <2>1. \A s \in C : s.max \in Int
        BY <1>2 DEF Missing
    <2>2. {f[t] : t \in C} = {s.max : s \in C}
        OBVIOUS
    <2> QED
        BY <2>1, <2>2 DEF TopMax
<1> HIDE DEF f
<1>4. /\ \E s \in C : f[s] = TopMax(C)
      /\ \A s \in C : f[s] <= TopMax(C)
    <2>1. /\ \E s \in C : f[s] = Max({f[t] : t \in C})
          /\ \A s \in C : f[s] <= Max({f[t] : t \in C})
        BY ONLY <1>1, <1>3, C # {}, MaxOf
    <2> QED
        BY ONLY <1>3, <2>1
<1> QED
    BY <1>2, <1>3, <1>4

(* The best attempt of a list has the highest score of the set.            *)
LEMMA BestScoreIs ==
    ASSUME NEW S, NEW C, ListOf(S, C), C # {}, C \subseteq Pool
    PROVE  BestScore(S) = TopScore(C)
<1> DEFINE b == SelectBestAttempt(S)
<1>1. b \in C /\ \A t \in C : ExtractScore(t) <= ExtractScore(b)
    BY SelectsChosen, ChosenTells
<1>2. PICK s \in C : ExtractScore(s) = TopScore(C)
    BY TopScoreIs
<1>3. ExtractScore(s) <= ExtractScore(b) /\ ExtractScore(b) <= TopScore(C)
    BY <1>1, TopScoreIs
<1>4. ExtractScore(b) \in Int /\ TopScore(C) \in Int
    BY <1>1, TopScoreIs, PoolRecorded DEF Recorded, Missing
<1> HIDE DEF b
<1>5. ExtractScore(b) = TopScore(C)
    BY <1>2, <1>3, <1>4
<1> QED
    BY <1>5 DEF BestScore, b

-----------------------------------------------------------------------------
(* A group of a list lists the group of the set.                           *)
LEMMA GroupLists ==
    ASSUME NEW S, NEW C, ListOf(S, C), NEW m, NEW p
    PROVE  /\ GroupsIn(m, S, p) = GroupsAmong(m, C, p)
           /\ \A g : ListOf(GroupOf(m, S, p, g), Grouped(m, C, p, g))
<1>1. /\ DOMAIN S = 1..Len(S)
      /\ \A i \in 1..Len(S) : S[i] \in C
      /\ \A s \in C : \E i \in 1..Len(S) : S[i] = s
    BY ListOfTells
<1>2. GroupsIn(m, S, p) = GroupsAmong(m, C, p)
    <2>1. {GroupsOf(m, S[i], p) : i \in DOMAIN S} = {GroupsOf(m, s, p) : s \in C}
        BY <1>1
    <2> QED
        BY <2>1 DEF GroupsIn, GroupsAmong
<1>3. ASSUME NEW g PROVE ListOf(GroupOf(m, S, p, g), Grouped(m, C, p, g))
    <2> DEFINE D == Grouped(m, C, p, g)
    <2>1. {i \in DOMAIN S : g \in GroupsOf(m, S[i], p)} = {i \in DOMAIN S : S[i] \in D}
        BY <1>1 DEF Grouped
    <2>2. D \in SUBSET C
        BY DEF Grouped
    <2> HIDE DEF D
    <2>3. ListOf(At(S, {i \in DOMAIN S : S[i] \in D}), D)
        BY <2>2, AtLists
    <2> QED
        BY <2>1, <2>3 DEF GroupOf, D
<1> QED
    BY <1>2, <1>3

(* The attempts at an element, likewise.                                   *)
LEMMA AttemptsList ==
    ASSUME NEW S, NEW C, ListOf(S, C)
    PROVE  /\ Elements(S) = ObjectsOf(C)
           /\ \A e : ListOf(Attempts(S, e), On(C, e))
<1>1. /\ DOMAIN S = 1..Len(S)
      /\ \A i \in 1..Len(S) : S[i] \in C
      /\ \A s \in C : \E i \in 1..Len(S) : S[i] = s
    BY ListOfTells
<1>2. Elements(S) = ObjectsOf(C)
    <2>1. {S[i].object : i \in DOMAIN S} = {s.object : s \in C}
        BY <1>1
    <2> QED
        BY <2>1 DEF Elements, ObjectsOf
<1>3. ASSUME NEW e PROVE ListOf(Attempts(S, e), On(C, e))
    <2> DEFINE D == On(C, e)
    <2>1. {i \in DOMAIN S : S[i].object = e} = {i \in DOMAIN S : S[i] \in D}
        BY <1>1 DEF On
    <2>2. D \in SUBSET C
        BY DEF On
    <2> HIDE DEF D
    <2>3. ListOf(At(S, {i \in DOMAIN S : S[i] \in D}), D)
        BY <2>2, AtLists
    <2> QED
        BY <2>1, <2>3 DEF Attempts, D
<1> QED
    BY <1>2, <1>3

(* The sum of the best scores.                                             *)
LEMMA ScoredSumIs ==
    ASSUME NEW S, NEW C, ListOf(S, C), C \subseteq Pool
    PROVE  ScoredSum(S) = SumFunction([e \in ScoredOf(C) |-> TopScore(On(C, e))])
<1>1. \A e \in ObjectsOf(C) : BestScore(Attempts(S, e)) = TopScore(On(C, e))
    <2> SUFFICES ASSUME NEW e \in ObjectsOf(C)
                 PROVE  BestScore(Attempts(S, e)) = TopScore(On(C, e))
        OBVIOUS
    <2>1. On(C, e) # {} /\ On(C, e) \subseteq Pool
        BY DEF ObjectsOf, On
    <2>2. ListOf(Attempts(S, e), On(C, e))
        BY AttemptsList
    <2> QED
        BY <2>1, <2>2, BestScoreIs
<1>2. {f \in Elements(S) : BestScore(Attempts(S, f)) # Missing} = ScoredOf(C)
    BY <1>1, AttemptsList DEF ScoredOf
<1>3. \A e \in ScoredOf(C) : BestScore(Attempts(S, e)) = TopScore(On(C, e))
    BY <1>1 DEF ScoredOf
<1>4. [e \in {f \in Elements(S) : BestScore(Attempts(S, f)) # Missing} |->
          BestScore(Attempts(S, e))]
        = [e \in ScoredOf(C) |-> TopScore(On(C, e))]
    BY <1>2, <1>3
<1> QED
    BY <1>4 DEF ScoredSum

(* courses-scores and course-topics-scores.                                *)
LEMMA ScoresAre ==
    ASSUME NEW S, NEW C, ListOf(S, C), C \subseteq Pool, NEW m, NEW p
    PROVE  Scores(m, S, p) = ScoresOf(m, C, p)
<1> DEFINE D == {s \in C : s.object # NoIri}
           G == GroupsAmong(m, D, p)
           score == [g \in G |-> SumFunction([e \in ScoredOf(Grouped(m, C, p, g)) |->
                                    TopScore(On(Grouped(m, C, p, g), e))])]
<1>1. GroupsIn(m, WithObject(S), p) = G
    <2>1. {i \in DOMAIN S : S[i].object # NoIri} = {i \in DOMAIN S : S[i] \in D}
        BY ListOfTells
    <2>2. D \in SUBSET C
        OBVIOUS
    <2> HIDE DEF D
    <2>3. ListOf(At(S, {i \in DOMAIN S : S[i] \in D}), D)
        BY <2>2, AtLists
    <2>4. ListOf(WithObject(S), D)
        BY <2>1, <2>3 DEF WithObject
    <2> QED
        BY <2>4, GroupLists
<1>2. ASSUME NEW g \in G PROVE ScoredSum(GroupOf(m, S, p, g)) = score[g]
    <2>1. /\ ListOf(GroupOf(m, S, p, g), Grouped(m, C, p, g))
          /\ Grouped(m, C, p, g) \subseteq Pool
        <3>1. ListOf(GroupOf(m, S, p, g), Grouped(m, C, p, g))
            BY GroupLists
        <3>2. Grouped(m, C, p, g) \subseteq Pool
            BY DEF Grouped
        <3> QED
            BY <3>1, <3>2
    <2> QED
        BY <2>1, ScoredSumIs
<1> HIDE DEF G
<1>3. Scores(m, S, p) = score
    BY <1>1, <1>2 DEF Scores
<1> QED
    BY <1>3 DEF ScoresOf, G

(* The three providers of maximum scores.                                  *)
LEMMA MaxScoresAre ==
    ASSUME NEW S, NEW C, ListOf(S, C), C \subseteq Pool, NEW m, NEW p
    PROVE  MaxScores(m, S, p) = MaximaOf(m, C, p)
<1> DEFINE D == Maximal(C)
           T == WithMax(S)
           G == GroupsAmong(m, D, p)
           K(g) == Grouped(m, D, p, g)
           maximum == [g \in G |-> SumFunction([e \in ObjectsOf(K(g)) |-> TopMax(On(K(g), e))])]
<1>1. ListOf(T, D)
    <2>1. {i \in DOMAIN S : S[i].object # NoIri /\ S[i].max # Missing}
              = {i \in DOMAIN S : S[i] \in D}
        BY ListOfTells DEF Maximal
    <2>2. D \in SUBSET C
        BY DEF Maximal
    <2> HIDE DEF D
    <2>3. ListOf(At(S, {i \in DOMAIN S : S[i] \in D}), D)
        BY <2>2, AtLists
    <2> QED
        BY <2>1, <2>3 DEF WithMax
<1> HIDE DEF T, D
<1>2. GroupsIn(m, T, p) = G
    BY <1>1, GroupLists
<1>3. ASSUME NEW g \in G
      PROVE  LET counted == GroupOf(m, T, p, g)
             IN  SumFunction([e \in Elements(counted) |-> MaxScore(Attempts(counted, e))])
                   = maximum[g]
    <2> DEFINE counted == GroupOf(m, T, p, g)
    <2>1. ListOf(counted, K(g))
        BY <1>1, GroupLists
    <2> HIDE DEF counted, K
    <2>2. Elements(counted) = ObjectsOf(K(g)) /\ \A e : ListOf(Attempts(counted, e), On(K(g), e))
        BY <2>1, AttemptsList
    <2>3. ASSUME NEW e PROVE MaxScore(Attempts(counted, e)) = TopMax(On(K(g), e))
        <3> DEFINE A == Attempts(counted, e)  B == On(K(g), e)
        <3>1. ListOf(A, B)
            BY <2>2
        <3> HIDE DEF A, B
        <3>2. {A[i].max : i \in DOMAIN A} = {s.max : s \in B}
            BY <3>1, ListOfTells
        <3>3. MaxScore(A) = TopMax(B)
            BY <3>2 DEF MaxScore, TopMax
        <3> QED
            BY <3>3 DEF A, B
    <2>4. [e \in Elements(counted) |-> MaxScore(Attempts(counted, e))]
            = [e \in ObjectsOf(K(g)) |-> TopMax(On(K(g), e))]
        BY <2>2, <2>3
    <2> QED
        BY <2>4 DEF counted
<1> HIDE DEF G, K
<1>4. MaxScores(m, S, p) = maximum
    BY <1>2, <1>3 DEF MaxScores, T
<1> QED
    BY <1>4 DEF MaximaOf, G, K, D

(* A list is summed up like the set of its members.                        *)
LEMMA SumOfList ==
    ASSUME NEW S, NEW C, ListOf(S, C), C \subseteq Pool
    PROVE  SumFunction([i \in DOMAIN S |-> Seconds(S[i])]) = SumFunction([s \in C |-> Seconds(s)])
<1> DEFINE n == Len(S)
           I == 1..n
           f == [i \in I |-> Seconds(S[i])]
           e == [s \in C |-> Seconds(s)]
           j == [i \in I |-> S[i]]
           k == [s \in C |-> CHOOSE i \in I : S[i] = s]
<1>1. /\ n \in Nat /\ DOMAIN S = I
      /\ \A i \in I : S[i] \in C
      /\ \A s \in C : \E i \in I : S[i] = s
      /\ \A h, i \in I : S[h] = S[i] => h = i
      /\ IsFiniteSet(C)
    BY ListOfTells
<1>2. IsFiniteSet(I)
    BY <1>1, FS_Interval
<1>3. \A s \in C : Seconds(s) \in Nat
    BY PoolRecorded DEF Recorded
<1> HIDE DEF I, n
<1>4. f \in [I -> Nat] /\ e \in [C -> Nat]
    BY <1>1, <1>3
<1>5. /\ j \in [I -> C]
      /\ \A x, y \in I : j[x] = j[y] => x = y
      /\ \A x \in I : f[x] <= e[j[x]]
    <2>1. j \in [I -> C] /\ \A x \in I : j[x] = S[x]
        BY <1>1
    <2>2. \A x \in I : f[x] = e[j[x]] /\ f[x] \in Nat
        BY <1>1, <1>3, <2>1
    <2> HIDE DEF f, e, j
    <2>3. \A x \in I : f[x] <= e[j[x]]
        BY <2>2
    <2> QED
        BY <1>1, <2>1, <2>3
<1>6. /\ k \in [C -> I]
      /\ \A x, y \in C : k[x] = k[y] => x = y
      /\ \A x \in C : e[x] <= f[k[x]]
    <2>1. \A s \in C : k[s] \in I /\ S[k[s]] = s
        BY <1>1
    <2>2. k \in [C -> I]
        BY <1>1
    <2>3. \A x \in C : e[x] = f[k[x]] /\ e[x] \in Nat
        BY <1>3, <2>1
    <2> HIDE DEF f, e, k
    <2>4. \A x \in C : e[x] <= f[k[x]]
        BY <2>3
    <2>5. \A x, y \in C : k[x] = k[y] => x = y
        BY <2>1
    <2> QED
        BY <2>2, <2>4, <2>5
<1> HIDE DEF f, e, j, k
<1>7. /\ SumFunction(f) \in Nat /\ SumFunction(e) \in Nat
      /\ SumFunction(f) <= SumFunction(e)
    BY <1>1, <1>2, <1>4, <1>5, SumFunctionGrows
<1>8. SumFunction(e) <= SumFunction(f)
    BY <1>1, <1>2, <1>4, <1>6, SumFunctionGrows
<1>9. SumFunction(f) = SumFunction(e)
    BY <1>7, <1>8
<1> QED
    BY <1>1, <1>9 DEF f, e

(* The three providers of times.                                           *)
LEMMA TimesAre ==
    ASSUME NEW S, NEW C, ListOf(S, C), C \subseteq Pool, NEW m, NEW p
    PROVE  TimeSpent(m, S, p) = TimesOf(m, C, p)
<1> DEFINE D == Lasting(C)
           T == Timed(S)
           G == GroupsAmong(m, D, p)
           K(g) == Grouped(m, D, p, g)
           time == [g \in G |-> Rounded(SumFunction([s \in K(g) |-> Seconds(s)]))]
<1>1. ListOf(T, D) /\ D \subseteq Pool
    <2>1. {i \in DOMAIN S : Seconds(S[i]) > 0} = {i \in DOMAIN S : S[i] \in D}
        BY ListOfTells DEF Lasting
    <2>2. D \in SUBSET C
        BY DEF Lasting
    <2> HIDE DEF D
    <2>3. ListOf(At(S, {i \in DOMAIN S : S[i] \in D}), D)
        BY <2>2, AtLists
    <2> QED
        BY <2>1, <2>2, <2>3 DEF Timed
<1> HIDE DEF T, D
<1>2. GroupsIn(m, T, p) = G
    BY <1>1, GroupLists
<1>3. ASSUME NEW g \in G
      PROVE  LET counted == GroupOf(m, T, p, g)
             IN  Rounded(SumFunction([i \in DOMAIN counted |-> Seconds(counted[i])])) = time[g]
    <2> DEFINE counted == GroupOf(m, T, p, g)
    <2>1. ListOf(counted, K(g)) /\ K(g) \subseteq Pool
        <3>1. ListOf(counted, K(g))
            BY <1>1, GroupLists
        <3> QED
            BY <1>1, <3>1 DEF Grouped
    <2> HIDE DEF counted, K
    <2>2. SumFunction([i \in DOMAIN counted |-> Seconds(counted[i])])
            = SumFunction([s \in K(g) |-> Seconds(s)])
        BY <2>1, SumOfList
    <2> QED
        BY <2>2 DEF counted
<1> HIDE DEF G, K
<1>4. TimeSpent(m, S, p) = time
    BY <1>2, <1>3 DEF TimeSpent, T
<1> QED
    BY <1>4 DEF TimesOf, G, K, D

(* topic-elements-best-attempts: the score and the status, not the date.   *)
LEMMA BestAttemptsAre ==
    ASSUME NEW S, NEW C, ListOf(S, C), C \subseteq Pool, NEW p
    PROVE  LET m == "topic-elements-best-attempts"
               v == TopicElementsBestAttempts(S, p)
           IN  /\ DOMAIN v = GroupsAmong(m, C, p)
               /\ \A e \in DOMAIN v :
                     /\ v[e].score = TopScore(Grouped(m, C, p, e))
                     /\ \E b : /\ Chosen(b, Grouped(m, C, p, e))
                               /\ v[e].completionStatus = IsCompleted(b)
<1> DEFINE m == "topic-elements-best-attempts"
           v == TopicElementsBestAttempts(S, p)
<1>1. /\ GroupsIn(m, S, p) = GroupsAmong(m, C, p)
      /\ \A g : ListOf(GroupOf(m, S, p, g), Grouped(m, C, p, g))
    BY GroupLists
<1>2. /\ DOMAIN v = GroupsAmong(m, C, p)
      /\ \A e \in DOMAIN v : v[e] = BestAttempt(GroupOf(m, S, p, e))
    BY <1>1 DEF TopicElementsBestAttempts
<1> HIDE DEF v, m
<1>3. ASSUME NEW e \in DOMAIN v
      PROVE  /\ v[e].score = TopScore(Grouped(m, C, p, e))
             /\ \E b : /\ Chosen(b, Grouped(m, C, p, e))
                       /\ v[e].completionStatus = IsCompleted(b)
    <2> DEFINE A == GroupOf(m, S, p, e)
               D == Grouped(m, C, p, e)
    <2>1. ListOf(A, D) /\ D # {} /\ D \subseteq Pool
        <3>1. ListOf(A, D)
            BY <1>1
        <3>2. D # {} /\ D \subseteq Pool
            BY <1>2 DEF Grouped, GroupsAmong
        <3> QED
            BY <3>1, <3>2
    <2>2. v[e] = BestAttempt(A)
        BY <1>2
    <2> HIDE DEF A, D
    <2>3. /\ BestAttempt(A).score = BestScore(A)
          /\ BestAttempt(A).completionStatus = IsCompleted(SelectBestAttempt(A))
        BY DEF BestAttempt, BestScore
    <2>4. BestScore(A) = TopScore(D) /\ Chosen(SelectBestAttempt(A), D)
        BY <2>1, BestScoreIs, SelectsChosen
    <2>5. /\ v[e].score = TopScore(D)
          /\ Chosen(SelectBestAttempt(A), D)
          /\ v[e].completionStatus = IsCompleted(SelectBestAttempt(A))
        BY <2>2, <2>3, <2>4
    <2> QED
        BY <2>5 DEF D
<1> QED
    BY <1>2, <1>3 DEF v, m

-----------------------------------------------------------------------------
(* Lists of completions.                                                   *)

(* An initial segment of the numbers has its length as cardinality.        *)
LEMMA Initial ==
    ASSUME NEW n \in Nat
    PROVE  IsFiniteSet(1..n) /\ Cardinality(1..n) = n
<1>1. /\ IsFiniteSet(1..n)
      /\ Cardinality(1..n) = IF 1 > n THEN 0 ELSE n - 1 + 1
    BY FS_Interval
<1> QED
    BY <1>1

(* `later' holds the completions of `list', the latest first.              *)
SortedFrom(later, list) ==
    /\ Len(later) = Len(list) /\ DOMAIN later = 1..Len(list)
    /\ \E h \in [1..Len(list) -> 1..Len(list)] :
          /\ \A i, j \in 1..Len(list) : h[i] = h[j] => i = j
          /\ \A i \in 1..Len(list) : \E j \in 1..Len(list) : h[j] = i
          /\ \A i \in 1..Len(list) : later[i] = list[h[i]]
    /\ \A i, j \in 1..Len(list) : i < j => later[i].completedAt >= later[j].completedAt

(* Latest does.                                                            *)
LEMMA LatestSorts ==
    ASSUME NEW T, NEW list \in Seq(T), \A c \in T : c.completedAt \in Nat
    PROVE  Latest(list) \in Seq(T) /\ SortedFrom(Latest(list), list)
<1> DEFINE N == Len(list)
           I == 1..N
           time(i) == list[i].completedAt
           R == {p \in I \X I : \/ time(p[1]) > time(p[2])
                                \/ time(p[1]) = time(p[2]) /\ p[1] < p[2]}
           h == InOrder(I, R)
<1>1. N \in Nat /\ DOMAIN list = I /\ \A i \in I : list[i] \in T
    BY LenProperties
<1>2. IsFiniteSet(I) /\ Cardinality(I) = N
    BY <1>1, Initial
<1>3. \A i, j \in I : <<i, j>> \in R <=> time(i) > time(j) \/ (time(i) = time(j) /\ i < j)
    OBVIOUS
<1>4. \A i \in I : time(i) \in Nat /\ i \in Nat
    BY <1>1
<1>5. StrictOrder(I, R)
    <2> HIDE DEF I, time, R
    <2> QED
        BY <1>3, <1>4 DEF StrictOrder
<1>6. ListsBy(h, I, R)
    BY <1>2, <1>5, Places
<1>7. /\ h \in [I -> I]
      /\ \A i, j \in I : h[i] = h[j] => i = j
      /\ \A i \in I : \E j \in I : h[j] = i
      /\ \A i, j \in I : i < j <=> <<h[i], h[j]>> \in R
    <2> HIDE DEF R, h
    <2> QED
        BY <1>2, <1>6 DEF ListsBy, Lists
<1>8. Latest(list) = [n \in DOMAIN h |-> list[h[n]]]
    <2>1. DOMAIN list = I
        BY <1>1
    <2> QED
        BY <2>1 DEF Latest
<1> DEFINE later == [n \in I |-> list[h[n]]]
<1>9. Latest(list) = later
    <2> HIDE DEF h
    <2> QED
        BY <1>7, <1>8
<1> HIDE DEF h, R
<1>10. \A n \in I : later[n] = list[h[n]] /\ later[n] \in T
    BY <1>1, <1>7
<1>11. later \in Seq(T) /\ Len(later) = N /\ DOMAIN later = I
    <2>1. later \in [1..N -> T]
        BY <1>10
    <2> HIDE DEF later
    <2> QED
        BY <1>1, <2>1, SeqDef, LenProperties
<1>12. ASSUME NEW i \in I, NEW j \in I, i < j
       PROVE  later[i].completedAt >= later[j].completedAt
    <2>1. h[i] \in I /\ h[j] \in I /\ <<h[i], h[j]>> \in R
        BY <1>7, <1>12
    <2>2. later[i].completedAt = time(h[i]) /\ later[j].completedAt = time(h[j])
        BY <1>10
    <2> HIDE DEF time, later, I
    <2>3. time(h[i]) >= time(h[j])
        BY <1>3, <1>4, <2>1
    <2> QED
        BY <2>2, <2>3
<1> HIDE DEF later
<1>13. SortedFrom(later, list)
    BY <1>7, <1>10, <1>11, <1>12 DEF SortedFrom
<1> QED
    BY <1>9, <1>11, <1>13

(* The first three, or all if there are fewer.                             *)
LEMMA TopThreeIs ==
    ASSUME NEW T, NEW list \in Seq(T)
    PROVE  /\ TopThree(list) \in Seq(T)
           /\ Len(TopThree(list)) = IF Len(list) < 3 THEN Len(list) ELSE 3
           /\ DOMAIN TopThree(list) = 1..Len(TopThree(list))
           /\ \A i \in 1..Len(TopThree(list)) : i \in 1..Len(list) /\ TopThree(list)[i] = list[i]
<1> DEFINE n == IF Len(list) < 3 THEN Len(list) ELSE 3
           top == TopThree(list)
<1>1. Len(list) \in Nat /\ n \in Nat /\ n <= Len(list)
    BY LenProperties
<1>2. top = SubSeq(list, 1, n)
    BY DEF TopThree
<1> HIDE DEF n, top
<1>3. top \in Seq(T) /\ Len(top) = n /\ \A i \in 1..n : top[i] = list[i]
    <2>1. \A i \in 1..n : i \in 1..Len(list)
        BY <1>1
    <2>2. list \in [1..Len(list) -> T]
        BY LenProperties
    <2>3. SubSeq(list, 1, n) = [i \in 1..n |-> list[i]]
        BY <1>1, <2>1, <2>2
    <2>4. [i \in 1..n |-> list[i]] \in [1..n -> T]
        BY <2>1, <2>2
    <2> QED
        BY <1>1, <1>2, <2>3, <2>4, SeqDef, LenProperties
<1>4. DOMAIN top = 1..Len(top)
    BY <1>3, LenProperties
<1> QED
    BY <1>1, <1>3, <1>4 DEF n, top

(* More and later completions give a list that is no shorter and no        *)
(* earlier.                                                                *)
LEMMA LatestGrows ==
    ASSUME NEW T, \A c \in T : c.completedAt \in Nat,
           NEW list \in Seq(T), NEW more \in Seq(T),
           NEW j \in [1..Len(list) -> 1..Len(more)],
           \A m, n \in 1..Len(list) : j[m] = j[n] => m = n,
           \A n \in 1..Len(list) : list[n].completedAt <= more[j[n]].completedAt
    PROVE  LET v == TopThree(Latest(list))
               w == TopThree(Latest(more))
           IN  /\ Len(v) <= Len(w)
               /\ \A i \in DOMAIN v : v[i].completedAt <= w[i].completedAt
<1> DEFINE M == Len(list)
           N == Len(more)
           a == Latest(list)
           b == Latest(more)
<1>1. M \in Nat /\ N \in Nat /\ M <= N
    <2>1. M \in Nat /\ N \in Nat
        BY LenProperties
    <2>2. IsFiniteSet(1..N) /\ Cardinality(1..N) = N /\ Cardinality(1..M) = M
        BY <2>1, Initial
    <2>3. j \in Injection(1..M, 1..N)
        BY DEF Injection, IsInjective
    <2>4. Cardinality(1..M) <= Cardinality(1..N)
        BY <2>2, <2>3, FS_Injection
    <2> QED
        BY <2>1, <2>2, <2>4
<1>2. a \in Seq(T) /\ b \in Seq(T) /\ SortedFrom(a, list) /\ SortedFrom(b, more)
    BY LatestSorts
<1> HIDE DEF a, b
<1>3. /\ Len(a) = M /\ \A m, n \in 1..M : m < n => a[m].completedAt >= a[n].completedAt
      /\ Len(b) = N /\ \A m, n \in 1..N : m < n => b[m].completedAt >= b[n].completedAt
    BY <1>2 DEF SortedFrom
<1>4. PICK h \in [1..M -> 1..M] :
         /\ \A m, n \in 1..M : h[m] = h[n] => m = n
         /\ \A n \in 1..M : a[n] = list[h[n]]
    BY <1>2 DEF SortedFrom
<1>5. PICK k \in [1..N -> 1..N] :
         /\ \A n \in 1..N : \E m \in 1..N : k[m] = n
         /\ \A n \in 1..N : b[n] = more[k[n]]
    BY <1>2 DEF SortedFrom
<1>6. ASSUME NEW n \in 1..M PROVE n \in 1..N /\ a[n].completedAt <= b[n].completedAt
    <2>1. n \in 1..N
        BY <1>1
    <2>2. /\ \A i \in 1..M : a[i] \in T /\ a[i].completedAt \in Nat
          /\ \A i \in 1..N : b[i] \in T /\ b[i].completedAt \in Nat
        BY <1>2, <1>3, ElementOfSeq
    <2> SUFFICES ASSUME b[n].completedAt < a[n].completedAt PROVE FALSE
        BY <2>1, <2>2
    <2> DEFINE place == [i \in 1..n |-> CHOOSE m \in 1..N : k[m] = j[h[i]]]
    <2>3. \A i \in 1..n : i \in 1..M /\ h[i] \in 1..M /\ j[h[i]] \in 1..N
        <3>1. \A i \in 1..n : i \in 1..M
            BY <1>1
        <3>2. \A i \in 1..M : h[i] \in 1..M
            BY <1>4
        <3>3. \A i \in 1..M : j[i] \in 1..N
            OBVIOUS
        <3> HIDE DEF M, N
        <3> QED
            BY <3>1, <3>2, <3>3
    <2>4. \A i \in 1..n : place[i] \in 1..N /\ k[place[i]] = j[h[i]]
        BY <1>5, <2>3
    <2> HIDE DEF place
    <2>5. ASSUME NEW i \in 1..n PROVE place[i] \in 1..(n - 1)
        <3>1. a[n].completedAt <= a[i].completedAt
            <4>1. i = n \/ i < n
                OBVIOUS
            <4>2. i < n => a[i].completedAt >= a[n].completedAt
                BY <1>3, <2>3
            <4> QED
                BY <2>2, <2>3, <4>1, <4>2
        <3>2. a[i].completedAt <= b[place[i]].completedAt
            <4>1. a[i] = list[h[i]]
                BY <1>4, <2>3
            <4>3. b[place[i]] = more[k[place[i]]] /\ k[place[i]] = j[h[i]]
                BY <1>5, <2>4
            <4>2. list[h[i]].completedAt <= more[j[h[i]]].completedAt
                BY <2>3
            <4> QED
                BY <4>1, <4>2, <4>3
        <3>3. b[n].completedAt < b[place[i]].completedAt
            <4>1. /\ a[n].completedAt \in Nat /\ a[i].completedAt \in Nat
                  /\ b[n].completedAt \in Nat /\ b[place[i]].completedAt \in Nat
                BY <2>1, <2>2, <2>3, <2>4
            <4> QED
                BY <3>1, <3>2, <4>1
        <3>4. n < place[i] => b[n].completedAt >= b[place[i]].completedAt
            BY <1>3, <2>1, <2>4
        <3>5. place[i] \in 1..N /\ place[i] # n
            <4>1. place[i] \in 1..N
                BY <2>4
            <4>2. b[n].completedAt \in Nat
                BY <2>1, <2>2
            <4> QED
                BY <3>3, <4>1, <4>2
        <3>6. ~(n < place[i])
            BY <2>1, <2>2, <2>4, <3>3, <3>4
        <3> QED
            BY <2>1, <3>5, <3>6
    <2>6. \A x, y \in 1..n : place[x] = place[y] => x = y
        <3> SUFFICES ASSUME NEW x \in 1..n, NEW y \in 1..n, place[x] = place[y] PROVE x = y
            OBVIOUS
        <3>1. j[h[x]] = j[h[y]]
            BY <2>4
        <3> QED
            BY <1>4, <2>3, <3>1
    <2>7. IsFiniteSet(1..(n - 1)) /\ Cardinality(1..(n - 1)) = n - 1 /\ Cardinality(1..n) = n
        <3>1. n \in Nat /\ n - 1 \in Nat
            BY <1>1
        <3> DEFINE k1 == n - 1
        <3>2. k1 \in Nat
            BY <3>1
        <3> HIDE DEF k1
        <3>3. IsFiniteSet(1..k1) /\ Cardinality(1..k1) = k1 /\ Cardinality(1..n) = n
            BY <3>1, <3>2, Initial
        <3> QED
            BY <3>3 DEF k1
    <2> DEFINE q == [i \in 1..n |-> place[i]]
    <2>8. q \in Injection(1..n, 1..(n - 1))
        BY <2>5, <2>6 DEF Injection, IsInjective
    <2> HIDE DEF q
    <2>9. Cardinality(1..n) <= Cardinality(1..(n - 1))
        BY <2>7, <2>8, FS_Injection
    <2> QED
        BY <2>1, <2>7, <2>9
<1> DEFINE v == TopThree(a)
           w == TopThree(b)
<1>7. /\ Len(v) = IF M < 3 THEN M ELSE 3
      /\ DOMAIN v = 1..Len(v)
      /\ \A i \in 1..Len(v) : i \in 1..M /\ v[i] = a[i]
    BY <1>2, <1>3, TopThreeIs
<1>8. /\ Len(w) = IF N < 3 THEN N ELSE 3
      /\ \A i \in 1..Len(w) : w[i] = b[i]
    BY <1>2, <1>3, TopThreeIs
<1> HIDE DEF v, w, M, N
<1>9. Len(v) <= Len(w)
    BY <1>1, <1>7, <1>8
<1>10. ASSUME NEW i \in DOMAIN v PROVE v[i].completedAt <= w[i].completedAt
    <2>1. i \in 1..Len(v) /\ i \in 1..Len(w)
        BY <1>1, <1>7, <1>8, <1>10
    <2> QED
        BY <1>6, <1>7, <1>8, <2>1
<1> QED
    BY <1>9, <1>10 DEF v, w, a, b

(* Where no two were completed at the same time, there is one such list.   *)
Later(Q) == {p \in Q \X Q : p[1].completedAt > p[2].completedAt}

TimesApart(Q) ==
    \A c, d \in Q : /\ c.completedAt \in Nat
                    /\ c.completedAt = d.completedAt => c = d

LEMMA LatestOfSet ==
    ASSUME NEW list, NEW Q, ListOf(list, Q), TimesApart(Q)
    PROVE  /\ Latest(list) = InOrder(Q, Later(Q))
           /\ ListsBy(Latest(list), Q, Later(Q))
           /\ ListOf(Latest(list), Q)
<1> DEFINE N == Len(list)
           R == Later(Q)
           a == Latest(list)
<1>1. /\ N \in Nat /\ IsFiniteSet(Q) /\ Cardinality(Q) = N
      /\ \A i \in 1..N : list[i] \in Q
      /\ \A s \in Q : \E i \in 1..N : list[i] = s
      /\ \A i, j \in 1..N : list[i] = list[j] => i = j
    BY ListOfTells
<1>2. \A c, d \in Q : <<c, d>> \in R <=> c.completedAt > d.completedAt
    BY DEF Later
<1>3. \A c \in Q : c.completedAt \in Nat
    BY DEF TimesApart
<1>4. a \in Seq(Q) /\ SortedFrom(a, list)
    BY <1>3, LatestSorts DEF ListOf
<1> HIDE DEF a, R, N
<1>5. StrictOrder(Q, R)
    <2>1. \A c, d \in Q : c = d \/ c.completedAt > d.completedAt \/ d.completedAt > c.completedAt
        BY DEF TimesApart
    <2> QED
        BY <1>2, <1>3, <2>1 DEF StrictOrder
<1>6. PICK h \in [1..N -> 1..N] :
         /\ \A i, j \in 1..N : h[i] = h[j] => i = j
         /\ \A i \in 1..N : \E j \in 1..N : h[j] = i
         /\ \A i \in 1..N : a[i] = list[h[i]]
    BY <1>4 DEF SortedFrom, N
<1>7. /\ Len(a) = N /\ DOMAIN a = 1..N /\ a \in [1..N -> Q]
      /\ \A i, j \in 1..N : i < j => a[i].completedAt >= a[j].completedAt
    BY <1>4, LenProperties DEF SortedFrom, N
<1>8. \A i, j \in 1..N : a[i] = a[j] => i = j
    <2> SUFFICES ASSUME NEW i \in 1..N, NEW j \in 1..N, a[i] = a[j] PROVE i = j
        OBVIOUS
    <2>1. h[i] \in 1..N /\ h[j] \in 1..N /\ list[h[i]] = list[h[j]]
        BY <1>6
    <2>2. h[i] = h[j]
        BY <1>1, <2>1
    <2> QED
        BY <1>6, <2>2
<1>9. \A c \in Q : \E i \in 1..N : a[i] = c
    <2> SUFFICES ASSUME NEW c \in Q PROVE \E i \in 1..N : a[i] = c
        OBVIOUS
    <2>1. PICK j \in 1..N : list[j] = c
        BY <1>1
    <2>2. PICK i \in 1..N : h[i] = j
        BY <1>6
    <2> QED
        BY <1>6, <2>1, <2>2
<1>10. ASSUME NEW i \in 1..N, NEW j \in 1..N PROVE i < j <=> <<a[i], a[j]>> \in R
    <2>1. a[i] \in Q /\ a[j] \in Q
        BY <1>7
    <2>2. a[i].completedAt = a[j].completedAt => i = j
        BY <1>8, <2>1 DEF TimesApart
    <2>3. i < j => a[i].completedAt >= a[j].completedAt
        BY <1>7
    <2>4. j < i => a[j].completedAt >= a[i].completedAt
        BY <1>7
    <2>5. a[i].completedAt \in Nat /\ a[j].completedAt \in Nat
        BY <1>3, <2>1
    <2>6. i < j <=> a[i].completedAt > a[j].completedAt
        <3> DEFINE x == a[i].completedAt  y == a[j].completedAt
        <3>1. x \in Nat /\ y \in Nat /\ (x = y => i = j) /\ (i = j => x = y)
              /\ (i < j => x >= y) /\ (j < i => y >= x)
            BY <2>2, <2>3, <2>4, <2>5
        <3> HIDE DEF x, y
        <3>2. i \in Nat /\ j \in Nat
            BY <1>1
        <3>3. i < j <=> x > y
            BY <3>1, <3>2
        <3> QED
            BY <3>3 DEF x, y
    <2> QED
        BY <1>2, <2>1, <2>6
<1>11. ListsBy(a, Q, R)
    BY <1>1, <1>7, <1>8, <1>9, <1>10 DEF ListsBy, Lists
<1>12. a = InOrder(Q, R)
    BY <1>1, <1>5, <1>11, OneOrder
<1>13. ListOf(a, Q)
    <2>1. ToSet(a) = Q
        BY <1>7, <1>9 DEF ToSet
    <2>2. IsInjective(a)
        BY <1>7, <1>8 DEF IsInjective
    <2> QED
        BY <1>4, <2>1, <2>2 DEF ListOf
<1> QED
    BY <1>11, <1>12, <1>13 DEF a, R

-----------------------------------------------------------------------------
(* The latest completion of each element.                                  *)

(* The latest time of an element is that of one of its statements.         *)
LEMMA LatestOfIs ==
    ASSUME NEW C, C \subseteq Pool, NEW e, On(C, e) # {}
    PROVE  /\ LatestOf(e, C) \in Nat
           /\ \E s \in On(C, e) : s.time = LatestOf(e, C)
           /\ \A s \in On(C, e) : s.time <= LatestOf(e, C)
<1> DEFINE D == On(C, e)
           f == [s \in D |-> s.time]
<1>1. IsFiniteSet(D) /\ D # {} /\ D \subseteq Pool
    <2>1. D \subseteq Pool
        BY DEF On
    <2> QED
        BY <2>1, MetricValuesAssumption, FS_Subset
<1>2. \A s \in D : s.time \in Nat
    BY <1>1, PoolRecorded DEF Recorded
<1>3. LatestOf(e, C) = Max({s.time : s \in D})
    BY DEF LatestOf, On
<1> HIDE DEF D
<1>4. {f[t] : t \in D} = {s.time : s \in D}
    OBVIOUS
<1>5. f \in [D -> Int] /\ \A s \in D : f[s] = s.time
    BY <1>2
<1> HIDE DEF f
<1>6. /\ \E s \in D : f[s] = Max({f[t] : t \in D})
      /\ \A s \in D : f[s] <= Max({f[t] : t \in D})
    BY ONLY <1>1, <1>5, MaxOf
<1> QED
    BY <1>2, <1>3, <1>4, <1>5, <1>6 DEF D

LastsOf(C) ==
    {[elementId |-> e, completedAt |-> LatestOf(e, C)] : e \in {s.object : s \in C}}

(* Of each element of a list its first statement.                          *)
LEMMA FirstsList ==
    ASSUME NEW S, NEW C, ListOf(S, C)
    PROVE  \E D \in SUBSET C :
              /\ ListOf(FirstOfElements(S), D)
              /\ \A s, t \in D : s.object = t.object => s = t
              /\ \A s \in C : \E t \in D : t.object = s.object
<1> DEFINE I == {i \in DOMAIN S : \A j \in DOMAIN S : j < i => S[j].object # S[i].object}
           D == {S[i] : i \in I}
<1>1. /\ Len(S) \in Nat /\ DOMAIN S = 1..Len(S)
      /\ \A i \in 1..Len(S) : S[i] \in C
      /\ \A s \in C : \E i \in 1..Len(S) : S[i] = s
      /\ \A i, j \in 1..Len(S) : S[i] = S[j] => i = j
    BY ListOfTells
<1>2. D \in SUBSET C
    BY <1>1
<1>3. I = {i \in DOMAIN S : S[i] \in D}
    BY <1>1
<1>4. ListOf(FirstOfElements(S), D)
    <2> HIDE DEF I, D
    <2>1. ListOf(At(S, {i \in DOMAIN S : S[i] \in D}), D)
        BY <1>2, AtLists
    <2> QED
        BY <1>3, <2>1 DEF FirstOfElements, I
<1>5. ASSUME NEW s \in D, NEW t \in D, s.object = t.object PROVE s = t
    <2>1. PICK i \in I : S[i] = s
        OBVIOUS
    <2>2. PICK j \in I : S[j] = t
        OBVIOUS
    <2>3. ~(j < i) /\ ~(i < j)
        BY <1>5, <2>1, <2>2
    <2>4. i \in Int /\ j \in Int
        BY <1>1
    <2>5. i = j
        BY <2>3, <2>4
    <2> QED
        BY <2>1, <2>2, <2>5
<1>6. ASSUME NEW s \in C PROVE \E t \in D : t.object = s.object
    <2> DEFINE J == {i \in DOMAIN S : S[i].object = s.object}
    <2>1. J \in SUBSET Nat /\ J # {}
        BY <1>1
    <2> HIDE DEF J
    <2>2. PICK i \in J : \A j \in J : i <= j
        BY <2>1, Least
    <2>3. i \in DOMAIN S /\ S[i].object = s.object
        BY <2>2 DEF J
    <2>4. \A j \in DOMAIN S : j < i => j \notin J
        BY <1>1, <2>2, <2>3
    <2>5. i \in I
        BY <2>3, <2>4 DEF J
    <2> QED
        BY <2>3, <2>5
<1> QED
    BY <1>2, <1>4, <1>5, <1>6

(* LatestPerElement lists the latest completions.                          *)
LEMMA LastsList ==
    ASSUME NEW S, NEW C, ListOf(S, C), C \subseteq Pool
    PROVE  ListOf(LatestPerElement(S), LastsOf(C))
<1> DEFINE first == FirstOfElements(S)
           Ends(e) == [elementId |-> e, completedAt |-> LatestOf(e, C)]
           list == [i \in DOMAIN first |-> Ends(first[i].object)]
           Q == LastsOf(C)
<1>1. PICK D \in SUBSET C :
         /\ ListOf(first, D)
         /\ \A s, t \in D : s.object = t.object => s = t
         /\ \A s \in C : \E t \in D : t.object = s.object
    BY FirstsList
<1> HIDE DEF first
<1>2. LatestPerElement(S) = list
    <2>1. \A e : {S[i].time : i \in {j \in DOMAIN S : S[j].object = e}}
                   = {s.time : s \in {t \in C : t.object = e}}
        BY ListOfTells
    <2>2. \A e : Max({S[i].time : i \in {j \in DOMAIN S : S[j].object = e}}) = LatestOf(e, C)
        BY <2>1 DEF LatestOf
    <2> QED
        BY <2>2 DEF LatestPerElement, first
<1>3. /\ Len(first) \in Nat /\ DOMAIN first = 1..Len(first)
      /\ \A i \in 1..Len(first) : first[i] \in D
      /\ \A s \in D : \E i \in 1..Len(first) : first[i] = s
      /\ \A i, j \in 1..Len(first) : first[i] = first[j] => i = j
    BY <1>1, ListOfTells
<1>4. \A e : (\E s \in C : s.object = e) => Ends(e) \in Q
    BY DEF LastsOf
<1>5. \A c \in Q : \E s \in C : c = Ends(s.object)
    BY DEF LastsOf
<1>6. \A e, d : Ends(e) = Ends(d) => e = d
    <2> SUFFICES ASSUME NEW e, NEW d, Ends(e) = Ends(d) PROVE e = d
        OBVIOUS
    <2>1. Ends(e).elementId = e /\ Ends(d).elementId = d
        OBVIOUS
    <2> HIDE DEF Ends
    <2> QED
        BY <2>1
<1> HIDE DEF Ends, Q
<1>7. /\ DOMAIN list = 1..Len(first)
      /\ \A i \in 1..Len(first) : list[i] = Ends(first[i].object)
    BY <1>3
<1> HIDE DEF list
<1>8. \A i \in 1..Len(first) : list[i] \in Q
    BY <1>1, <1>3, <1>4, <1>7
<1>9. \A c \in Q : \E i \in 1..Len(first) : list[i] = c
    <2> SUFFICES ASSUME NEW c \in Q PROVE \E i \in 1..Len(first) : list[i] = c
        OBVIOUS
    <2>1. PICK s \in C : c = Ends(s.object)
        BY <1>5
    <2>2. PICK t \in D : t.object = s.object
        BY <1>1
    <2>3. PICK i \in 1..Len(first) : first[i] = t
        BY <1>3
    <2> QED
        BY <1>7, <2>1, <2>2, <2>3
<1>10. \A i, j \in 1..Len(first) : list[i] = list[j] => i = j
    BY <1>1, <1>3, <1>6, <1>7
<1>11. list \in Seq(Q)
    <2>1. list = [i \in 1..Len(first) |-> Ends(first[i].object)]
        BY <1>3 DEF list
    <2>2. list \in [1..Len(first) -> Q]
        BY <1>7, <1>8, <2>1
    <2> QED
        BY <1>3, <2>2, SeqDef
<1>12. ToSet(list) = Q
    BY <1>7, <1>8, <1>9 DEF ToSet
<1>13. IsInjective(list)
    BY <1>7, <1>10 DEF IsInjective
<1>14. ListOf(list, Q)
    BY <1>11, <1>12, <1>13 DEF ListOf
<1> QED
    BY <1>2, <1>14 DEF Q

-----------------------------------------------------------------------------

Finished(m, C, p) == {s \in C : Counts(m, s, p)}

(* The statements that count.                                              *)
LEMMA FinishedLists ==
    ASSUME NEW S, NEW C, ListOf(S, C), NEW m, NEW p
    PROVE  ListOf(At(S, {i \in DOMAIN S : Counts(m, S[i], p)}), Finished(m, C, p))
<1> DEFINE D == Finished(m, C, p)
<1>1. {i \in DOMAIN S : Counts(m, S[i], p)} = {i \in DOMAIN S : S[i] \in D}
    BY ListOfTells DEF Finished
<1>2. D \in SUBSET C
    BY DEF Finished
<1> HIDE DEF D
<1>3. ListOf(At(S, {i \in DOMAIN S : S[i] \in D}), D)
    BY <1>2, AtLists
<1> QED
    BY <1>1, <1>3 DEF D

(* A completion is the latest of an element, with the time of one of its   *)
(* statements.                                                             *)
LEMMA LastsTell ==
    ASSUME NEW C, C \subseteq Pool, NEW c \in LastsOf(C)
    PROVE  /\ c.completedAt \in Nat
           /\ On(C, c.elementId) # {}
           /\ c.completedAt = LatestOf(c.elementId, C)
           /\ c = [elementId |-> c.elementId, completedAt |-> c.completedAt]
           /\ \E s \in C : s.object = c.elementId /\ s.time = c.completedAt
<1>1. PICK e \in {s.object : s \in C} :
         c = [elementId |-> e, completedAt |-> LatestOf(e, C)]
    BY DEF LastsOf
<1>2. /\ c.elementId = e /\ c.completedAt = LatestOf(e, C)
      /\ c = [elementId |-> c.elementId, completedAt |-> c.completedAt]
    BY <1>1
<1>3. On(C, e) # {}
    BY DEF On
<1>4. LatestOf(e, C) \in Nat /\ \E s \in On(C, e) : s.time = LatestOf(e, C)
    BY <1>3, LatestOfIs
<1> QED
    BY <1>2, <1>3, <1>4 DEF On

(* If no two statements have the same time, no two completions have.       *)
LEMMA LastsApart ==
    ASSUME TimesDiffer, NEW C, C \subseteq Pool
    PROVE  TimesApart(LastsOf(C))
<1> SUFFICES ASSUME NEW c \in LastsOf(C), NEW d \in LastsOf(C)
             PROVE  c.completedAt \in Nat /\ (c.completedAt = d.completedAt => c = d)
    BY DEF TimesApart
<1>1. /\ c.completedAt \in Nat
      /\ c = [elementId |-> c.elementId, completedAt |-> c.completedAt]
      /\ \E s \in C : s.object = c.elementId /\ s.time = c.completedAt
    BY LastsTell
<1>2. /\ d = [elementId |-> d.elementId, completedAt |-> d.completedAt]
      /\ \E s \in C : s.object = d.elementId /\ s.time = d.completedAt
    BY LastsTell
<1>3. c.completedAt = d.completedAt => c.elementId = d.elementId
    BY <1>1, <1>2 DEF TimesDiffer
<1> QED
    BY <1>1, <1>2, <1>3

(* topic-last-elements and user-last-elements are the head of the one list *)
(* of the latest completions.                                              *)
LEMMA LastCompletedIs ==
    ASSUME TimesDiffer, NEW S, NEW C, ListOf(S, C), C \subseteq Pool, NEW m, NEW p
    PROVE  LET Q == LastsOf(Finished(m, C, p))
               list == InOrder(Q, Later(Q))
           IN  /\ LastCompleted(m, S, p) = TopThree(list)
               /\ ListOf(list, Q) /\ ListsBy(list, Q, Later(Q))
<1> DEFINE D == Finished(m, C, p)
           T == At(S, {i \in DOMAIN S : Counts(m, S[i], p)})
           Q == LastsOf(D)
<1>1. ListOf(T, D) /\ D \subseteq Pool
    <2>1. D \subseteq Pool
        BY DEF Finished
    <2> QED
        BY <2>1, FinishedLists
<1>2. LastCompleted(m, S, p) = TopThree(Latest(LatestPerElement(T)))
    BY DEF LastCompleted
<1> HIDE DEF T, D
<1>3. ListOf(LatestPerElement(T), Q) /\ TimesApart(Q)
    BY <1>1, LastsList, LastsApart
<1> HIDE DEF Q
<1>4. /\ Latest(LatestPerElement(T)) = InOrder(Q, Later(Q))
      /\ ListsBy(Latest(LatestPerElement(T)), Q, Later(Q))
      /\ ListOf(Latest(LatestPerElement(T)), Q)
    BY <1>3, LatestOfSet
<1> QED
    BY <1>2, <1>4 DEF Q, D

Passed(C) == {s \in C : s.verb \in CompletionVerbs /\ s.time # 0}

CompletionsOf(C) == {Completion(s) : s \in C}

(* The statements that course-last-elements counts.                        *)
LEMMA PassedLists ==
    ASSUME NEW S, NEW C, ListOf(S, C)
    PROVE  LET counted == At(S, {i \in DOMAIN S : S[i].verb \in CompletionVerbs /\ S[i].time # 0})
           IN  /\ ListOf(counted, Passed(C))
               /\ CourseLastElements(S) =
                     TopThree(Latest([i \in DOMAIN counted |-> Completion(counted[i])]))
<1> DEFINE D == Passed(C)
<1>1. {i \in DOMAIN S : S[i].verb \in CompletionVerbs /\ S[i].time # 0}
          = {i \in DOMAIN S : S[i] \in D}
    BY ListOfTells DEF Passed
<1>2. D \in SUBSET C
    BY DEF Passed
<1> HIDE DEF D
<1>3. ListOf(At(S, {i \in DOMAIN S : S[i] \in D}), D)
    BY <1>2, AtLists
<1> QED
    BY <1>1, <1>3 DEF CourseLastElements, D

(* course-last-elements is the head of the one list of all completions.    *)
LEMMA CourseLastIs ==
    ASSUME TimesDiffer, NEW S, NEW C, ListOf(S, C), C \subseteq Pool
    PROVE  LET Q == CompletionsOf(Passed(C))
           IN  CourseLastElements(S) = TopThree(InOrder(Q, Later(Q)))
<1> DEFINE D == Passed(C)
           T == At(S, {i \in DOMAIN S : S[i].verb \in CompletionVerbs /\ S[i].time # 0})
           list == [i \in DOMAIN T |-> Completion(T[i])]
           Q == CompletionsOf(D)
<1>1. ListOf(T, D) /\ CourseLastElements(S) = TopThree(Latest(list))
    BY PassedLists
<1>2. D \subseteq Pool
    BY DEF Passed
<1> HIDE DEF T, D
<1>3. /\ Len(T) \in Nat /\ DOMAIN T = 1..Len(T)
      /\ \A i \in 1..Len(T) : T[i] \in D
      /\ \A s \in D : \E i \in 1..Len(T) : T[i] = s
      /\ \A i, j \in 1..Len(T) : T[i] = T[j] => i = j
    BY <1>1, ListOfTells
<1>4. \A s \in D : Completion(s).completedAt = s.time /\ s.time \in Nat
    BY <1>2, PoolRecorded DEF Completion, Recorded
<1>5. \A s, t \in D : Completion(s).completedAt = Completion(t).completedAt => s = t
    BY <1>2, <1>4 DEF TimesDiffer
<1>6. TimesApart(Q)
    BY <1>4, <1>5 DEF TimesApart, CompletionsOf
<1>7. ListOf(list, Q)
    <2>1. \A i \in 1..Len(T) : list[i] = Completion(T[i]) /\ list[i] \in Q
        BY <1>3 DEF CompletionsOf
    <2>2. \A c \in Q : \E i \in 1..Len(T) : list[i] = c
        BY <1>3, <2>1 DEF CompletionsOf
    <2>3. DOMAIN list = 1..Len(T) /\ list \in [1..Len(T) -> Q]
        BY <1>3, <2>1
    <2>4. \A i, j \in 1..Len(T) : list[i] = list[j] => i = j
        BY <1>3, <1>5, <2>1
    <2> HIDE DEF list
    <2>5. list \in Seq(Q)
        BY <1>3, <2>3, SeqDef
    <2>6. ToSet(list) = Q /\ IsInjective(list)
        BY <2>1, <2>2, <2>3, <2>4 DEF ToSet, IsInjective
    <2> QED
        BY <2>5, <2>6 DEF ListOf
<1> HIDE DEF list, Q
<1>8. Latest(list) = InOrder(Q, Later(Q))
    BY <1>6, <1>7, LatestOfSet
<1> QED
    BY <1>1, <1>8 DEF Q, D

-----------------------------------------------------------------------------
(* The value of a metric.                                                  *)

MaxMetrics == {"courses-max-scores", "course-topics-max-scores", "topic-elements-max-scores"}
TimeMetrics == {"courses-time-spent", "course-topics-time-spent", "topic-elements-time-spent"}

(* Which provider a metric has.                                            *)
LEMMA ComputeIs ==
    ASSUME NEW S, NEW p
    PROVE  /\ \A m \in ScoreMetrics : Compute(m, p, S) = Scores(m, S, p)
           /\ \A m \in MaxMetrics : Compute(m, p, S) = MaxScores(m, S, p)
           /\ \A m \in TimeMetrics : Compute(m, p, S) = TimeSpent(m, S, p)
           /\ Compute("topic-elements-best-attempts", p, S) = TopicElementsBestAttempts(S, p)
           /\ Compute("course-last-elements", p, S) = CourseLastElements(S)
           /\ \A m \in {"topic-last-elements", "user-last-elements"} :
                 Compute(m, p, S) = LastCompleted(m, S, p)
<1>1. /\ Compute("courses-scores", p, S) = Scores("courses-scores", S, p)
      /\ Compute("course-topics-scores", p, S) = Scores("course-topics-scores", S, p)
    BY DEF Compute, CoursesScores, CourseTopicsScores
<1>2. /\ Compute("courses-max-scores", p, S) = MaxScores("courses-max-scores", S, p)
      /\ Compute("course-topics-max-scores", p, S) = MaxScores("course-topics-max-scores", S, p)
      /\ Compute("topic-elements-max-scores", p, S) = MaxScores("topic-elements-max-scores", S, p)
    BY DEF Compute, CoursesMaxScores, CourseTopicsMaxScores, TopicElementsMaxScores
<1>3. /\ Compute("courses-time-spent", p, S) = TimeSpent("courses-time-spent", S, p)
      /\ Compute("course-topics-time-spent", p, S) = TimeSpent("course-topics-time-spent", S, p)
      /\ Compute("topic-elements-time-spent", p, S) = TimeSpent("topic-elements-time-spent", S, p)
    BY DEF Compute, CoursesTimeSpent, CourseTopicsTimeSpent, TopicElementsTimeSpent
<1>4. /\ Compute("topic-elements-best-attempts", p, S) = TopicElementsBestAttempts(S, p)
      /\ Compute("course-last-elements", p, S) = CourseLastElements(S)
    BY DEF Compute
<1>5. /\ Compute("topic-last-elements", p, S) = LastCompleted("topic-last-elements", S, p)
      /\ Compute("user-last-elements", p, S) = LastCompleted("user-last-elements", S, p)
    BY DEF Compute, TopicLastElements, UserLastElements
<1> QED
    BY <1>1, <1>2, <1>3, <1>4, <1>5 DEF ScoreMetrics, MaxMetrics, TimeMetrics

(* The twelve metrics, by what their providers have in common.             *)
LEMMA MetricsAre ==
    MetricIds = ScoreMetrics \cup MaxMetrics \cup TimeMetrics \cup LastElements
                  \cup {"topic-elements-best-attempts"}
    BY DEF MetricIds, CourseMetrics, TopicMetrics, ElementMetrics, LastElements,
           ScoreMetrics, MaxMetrics, TimeMetrics

-----------------------------------------------------------------------------

Best == "topic-elements-best-attempts"

Summed == ScoreMetrics \cup MaxMetrics \cup TimeMetrics

(* What is made of a list: of most metrics a value of the set it lists.    *)
LEMMA ValueIs ==
    ASSUME NEW C, C \subseteq Pool, NEW S, ListOf(S, C)
    PROVE  /\ metric \in ScoreMetrics => Value(S) = ScoresOf(metric, C, Params)
           /\ metric \in MaxMetrics => Value(S) = MaximaOf(metric, C, Params)
           /\ metric \in TimeMetrics => Value(S) = TimesOf(metric, C, Params)
           /\ metric = Best => Value(S) = TopicElementsBestAttempts(S, Params)
           /\ metric = "course-last-elements" => Value(S) = CourseLastElements(S)
           /\ metric \in {"topic-last-elements", "user-last-elements"}
                 => Value(S) = LastCompleted(metric, S, Params)
<1> DEFINE p == Params
           v == Value(S)
<1>1. v = Compute(metric, p, S)
    BY DEF Value
<1> HIDE DEF p, v
<1>2. metric \in ScoreMetrics => v = ScoresOf(metric, C, p)
    <2>1. metric \in ScoreMetrics => v = Scores(metric, S, p)
        BY <1>1, ComputeIs
    <2>2. Scores(metric, S, p) = ScoresOf(metric, C, p)
        BY ScoresAre
    <2> QED
        BY <2>1, <2>2
<1>3. metric \in MaxMetrics => v = MaximaOf(metric, C, p)
    <2>1. metric \in MaxMetrics => v = MaxScores(metric, S, p)
        BY <1>1, ComputeIs
    <2>2. MaxScores(metric, S, p) = MaximaOf(metric, C, p)
        BY MaxScoresAre
    <2> QED
        BY <2>1, <2>2
<1>4. metric \in TimeMetrics => v = TimesOf(metric, C, p)
    <2>1. metric \in TimeMetrics => v = TimeSpent(metric, S, p)
        BY <1>1, ComputeIs
    <2>2. TimeSpent(metric, S, p) = TimesOf(metric, C, p)
        BY TimesAre
    <2> QED
        BY <2>1, <2>2
<1>5. /\ metric = Best => v = TopicElementsBestAttempts(S, p)
      /\ metric = "course-last-elements" => v = CourseLastElements(S)
      /\ metric \in {"topic-last-elements", "user-last-elements"}
            => v = LastCompleted(metric, S, p)
    BY <1>1, ComputeIs DEF Best
<1> QED
    BY <1>2, <1>3, <1>4, <1>5 DEF p, v

(* The value depends on which statements there are, not on their order:    *)
(* sums and maxima without further ado, the others if times differ.        *)
LEMMA OrderIsNoMatter ==
    ASSUME TimesDiffer \/ metric \in Summed, metric \in MetricIds,
           NEW C, C \subseteq Pool, NEW S, ListOf(S, C), NEW T, ListOf(T, C)
    PROVE  SameValue(Value(S), Value(T))
<1> DEFINE p == Params
<1>1. CASE metric \in Summed
    <2>1. Value(S) = Value(T)
        BY <1>1, ValueIs DEF Summed
    <2> QED
        BY <1>1, <2>1 DEF SameValue, Summed, ScoreMetrics, MaxMetrics, TimeMetrics
<1>4. CASE metric = Best
    <2>t. TimesDiffer
        BY <1>4 DEF Best, Summed, ScoreMetrics, MaxMetrics, TimeMetrics
    <2> DEFINE v == Value(S)
               w == Value(T)
               K(e) == Grouped(Best, C, p, e)
    <2>1. v = TopicElementsBestAttempts(S, p) /\ w = TopicElementsBestAttempts(T, p)
        BY <1>4, ValueIs
    <2> HIDE DEF v, w, K
    <2>2. /\ DOMAIN v = GroupsAmong(Best, C, p)
          /\ \A e \in DOMAIN v : /\ v[e].score = TopScore(K(e))
                                 /\ \E b : /\ Chosen(b, K(e))
                                           /\ v[e].completionStatus = IsCompleted(b)
        BY <2>1, BestAttemptsAre DEF K, Best
    <2>3. /\ DOMAIN w = GroupsAmong(Best, C, p)
          /\ \A e \in DOMAIN w : /\ w[e].score = TopScore(K(e))
                                 /\ \E b : /\ Chosen(b, K(e))
                                           /\ w[e].completionStatus = IsCompleted(b)
        BY <2>1, BestAttemptsAre DEF K, Best
    <2>4. ASSUME NEW e \in DOMAIN v
          PROVE  v[e].score = w[e].score /\ v[e].completionStatus = w[e].completionStatus
        <3>1. PICK b : Chosen(b, K(e)) /\ v[e].completionStatus = IsCompleted(b)
            BY <2>2
        <3>2. PICK c : Chosen(c, K(e)) /\ w[e].completionStatus = IsCompleted(c)
            BY <2>2, <2>3
        <3>3. K(e) \subseteq Pool
            BY DEF K, Grouped
        <3>4. b = c
            BY <2>t, <3>1, <3>2, <3>3, ChosenOnce
        <3> QED
            BY <2>2, <2>3, <3>1, <3>2, <3>4
    <2>5. WithoutDate(v) = WithoutDate(w)
        BY <2>2, <2>3, <2>4 DEF WithoutDate
    <2> QED
        BY <1>4, <2>5 DEF SameValue, Best, v, w
<1>5. CASE metric = "course-last-elements"
    <2>1. Value(S) = CourseLastElements(S) /\ Value(T) = CourseLastElements(T)
        BY <1>5, ValueIs
    <2>2. TimesDiffer
        BY <1>5 DEF Summed, ScoreMetrics, MaxMetrics, TimeMetrics
    <2>3. CourseLastElements(S) = CourseLastElements(T)
        BY <2>2, CourseLastIs
    <2> QED
        BY <1>5, <2>1, <2>3 DEF SameValue
<1>6. CASE metric \in {"topic-last-elements", "user-last-elements"}
    <2>1. Value(S) = LastCompleted(metric, S, p) /\ Value(T) = LastCompleted(metric, T, p)
        BY <1>6, ValueIs
    <2>2. TimesDiffer
        BY <1>6 DEF Summed, ScoreMetrics, MaxMetrics, TimeMetrics
    <2>3. LastCompleted(metric, S, p) = LastCompleted(metric, T, p)
        BY <2>2, LastCompletedIs
    <2> QED
        BY <1>6, <2>1, <2>3 DEF SameValue
<1> QED
    BY <1>1, <1>4, <1>5, <1>6, MetricsAre DEF LastElements, Best, Summed

-----------------------------------------------------------------------------
(* Scores and their maxima.                                                *)

(* There are finitely many elements.                                       *)
LEMMA ObjectsFinite ==
    ASSUME NEW C, C \subseteq Pool
    PROVE  IsFiniteSet(ObjectsOf(C))
<1> DEFINE f == [s \in C |-> s.object]
           T == {s.object : s \in C}
<1>1. IsFiniteSet(C)
    BY MetricValuesAssumption, FS_Subset
<1>2. f \in Surjection(C, T)
    BY DEF Surjection
<1> HIDE DEF f, T
<1>3. IsFiniteSet(T)
    BY <1>1, <1>2, FS_Surjection
<1>4. ObjectsOf(C) \in SUBSET T
    BY DEF ObjectsOf, T
<1> QED
    BY <1>3, <1>4, FS_Subset

(* Sums over a set of elements.                                            *)
LEMMA SumOverGrows ==
    ASSUME NEW D, NEW E, IsFiniteSet(E), D \subseteq E,
           NEW f \in [D -> Nat], NEW e \in [E -> Nat], \A x \in D : f[x] <= e[x]
    PROVE  SumFunction(f) <= SumFunction(e) /\ SumFunction(f) \in Nat /\ SumFunction(e) \in Nat
<1> DEFINE j == [x \in D |-> x]
<1>1. j \in [D -> E] /\ \A x \in D : j[x] = x
    OBVIOUS
<1>2. IsFiniteSet(D)
    BY FS_Subset
<1> HIDE DEF j
<1>3. /\ \A x, y \in D : j[x] = j[y] => x = y
      /\ \A x \in D : f[x] <= e[j[x]]
    BY <1>1
<1> QED
    BY <1>1, <1>2, <1>3, SumFunctionGrows

(* What is scored on an element has a score.                               *)
LEMMA ScoredTell ==
    ASSUME NEW C, C \subseteq Pool, NEW e \in ScoredOf(C)
    PROVE  /\ TopScore(On(C, e)) \in Nat
           /\ \E s \in C : s.object = e /\ e # NoIri /\ ExtractScore(s) = TopScore(On(C, e))
<1>1. e \in ObjectsOf(C) /\ TopScore(On(C, e)) # Missing
    BY DEF ScoredOf
<1>2. On(C, e) # {} /\ On(C, e) \subseteq Pool /\ On(C, e) \subseteq C /\ e # NoIri
    BY <1>1 DEF ObjectsOf, On
<1>3. /\ TopScore(On(C, e)) \in Nat \cup {Missing}
      /\ \E s \in On(C, e) : ExtractScore(s) = TopScore(On(C, e))
    BY <1>2, TopScoreIs
<1> QED
    BY <1>1, <1>2, <1>3 DEF On

(* What has a maximum on an element is below the element's maximum.        *)
LEMMA MaximalTell ==
    ASSUME NEW C, C \subseteq Pool, NEW m, NEW p, NEW g
    PROVE  LET L == Grouped(m, Maximal(C), p, g)
           IN  /\ L \subseteq Pool
               /\ \A e \in ObjectsOf(L) : TopMax(On(L, e)) \in Nat
               /\ \A s \in L : /\ s.object \in ObjectsOf(L)
                               /\ s.max <= TopMax(On(L, s.object))
<1> DEFINE L == Grouped(m, Maximal(C), p, g)
<1>1. /\ L \subseteq Pool
      /\ \A s \in L : s.object # NoIri /\ s.max # Missing
    BY DEF Grouped, Maximal
<1> HIDE DEF L
<1>2. ASSUME NEW e \in ObjectsOf(L) PROVE TopMax(On(L, e)) \in Nat
    <2>1. On(L, e) # {} /\ On(L, e) \subseteq Pool /\ On(L, e) \subseteq L
        BY <1>1 DEF ObjectsOf, On
    <2>2. /\ TopMax(On(L, e)) \in Nat \cup {Missing}
          /\ \E s \in On(L, e) : s.max = TopMax(On(L, e))
        BY <2>1, TopMaxIs
    <2> QED
        BY <1>1, <2>1, <2>2
<1>3. ASSUME NEW s \in L
      PROVE  s.object \in ObjectsOf(L) /\ s.max <= TopMax(On(L, s.object))
    <2>1. s \in On(L, s.object) /\ On(L, s.object) \subseteq Pool
        BY <1>1 DEF On
    <2>2. s.max <= TopMax(On(L, s.object))
        BY <2>1, TopMaxIs
    <2> QED
        BY <1>1, <2>2 DEF ObjectsOf
<1> QED
    BY <1>1, <1>2, <1>3 DEF L

(* The scores of a course or topic do not exceed its maximum, if no        *)
(* statement does: an element has one of its attempts' scores, and a       *)
(* maximum no smaller than that attempt's.                                 *)
LEMMA ScoresStayWithin ==
    ASSUME ScoresBounded, NEW m \in ScoreMetrics, NEW p,
           NEW C, NEW D, C \subseteq D, D \subseteq Pool,
           NEW g \in DOMAIN ScoresOf(m, C, p), ScoresOf(m, C, p)[g] > 0
    PROVE  /\ g \in DOMAIN MaximaOf(MaximumOf[m], D, p)
           /\ ScoresOf(m, C, p)[g] <= MaximaOf(MaximumOf[m], D, p)[g]
<1> DEFINE K == Grouped(m, C, p, g)
           M == MaximumOf[m]
           L == Grouped(M, Maximal(D), p, g)
           f == [e \in ScoredOf(K) |-> TopScore(On(K, e))]
           h == [e \in ObjectsOf(L) |-> TopMax(On(L, e))]
<1>1. \A s : GroupsOf(M, s, p) = GroupsOf(m, s, p)
    BY DEF GroupsOf, MaximumOf, ScoreMetrics, CourseMetrics, TopicMetrics, ElementMetrics
<1> HIDE DEF M
<1>2. K \subseteq Pool /\ L \subseteq Pool /\ K \subseteq C
    BY DEF Grouped, Maximal
<1>3. ScoresOf(m, C, p)[g] = SumFunction(f)
    BY DEF ScoresOf
<1>4. \A s \in L : s.object \in ObjectsOf(L) /\ s.max <= TopMax(On(L, s.object))
    BY MaximalTell
<1>5. \A e \in ObjectsOf(L) : TopMax(On(L, e)) \in Nat
    BY MaximalTell
<1>6. ASSUME NEW s \in K, s.object # NoIri, ExtractScore(s) # Missing
      PROVE  s \in L /\ ExtractScore(s) <= s.max /\ s.max # Missing
    <2>1. s \in Pool /\ s \in D
        BY <1>2
    <2>2. s.max # Missing /\ ExtractScore(s) <= s.max
        BY <1>6, <2>1 DEF ScoresBounded
    <2>3. g \in GroupsOf(M, s, p)
        BY <1>1 DEF Grouped
    <2> QED
        BY <1>6, <2>1, <2>2, <2>3 DEF Grouped, Maximal
<1> HIDE DEF K, L
<1>7. ASSUME NEW e \in ScoredOf(K)
      PROVE  /\ e \in ObjectsOf(L) /\ TopScore(On(K, e)) \in Nat
             /\ TopScore(On(K, e)) <= TopMax(On(L, e))
    <2>1. PICK s \in K : s.object = e /\ e # NoIri /\ ExtractScore(s) = TopScore(On(K, e))
        BY <1>2, ScoredTell
    <2>2. TopScore(On(K, e)) \in Nat
        BY <1>2, ScoredTell
    <2>3. s \in L /\ ExtractScore(s) <= s.max /\ s.max # Missing
        BY <1>6, <2>1, <2>2 DEF Missing
    <2>4. e \in ObjectsOf(L) /\ s.max <= TopMax(On(L, e))
        BY <1>4, <2>1, <2>3
    <2>5. s.max \in Int /\ TopMax(On(L, e)) \in Int
        BY <1>2, <1>5, <2>3, <2>4, PoolRecorded DEF Recorded, Missing
    <2> QED
        BY <2>1, <2>2, <2>3, <2>4, <2>5
<1>8. SumFunction(f) <= SumFunction(h) /\ SumFunction(f) \in Nat
    <2>1. IsFiniteSet(ObjectsOf(L)) /\ ScoredOf(K) \subseteq ObjectsOf(L)
        BY <1>2, <1>7, ObjectsFinite
    <2>2. f \in [ScoredOf(K) -> Nat] /\ h \in [ObjectsOf(L) -> Nat]
        BY <1>5, <1>7
    <2>3. \A e \in ScoredOf(K) : f[e] <= h[e]
        BY <1>7
    <2> HIDE DEF f, h
    <2> QED
        BY <2>1, <2>2, <2>3, SumOverGrows
<1>9. g \in GroupsAmong(M, Maximal(D), p)
    <2>1. ScoredOf(K) # {}
        <3> SUFFICES ASSUME ScoredOf(K) = {} PROVE FALSE
            OBVIOUS
        <3>1. f \in [{} -> Nat]
            OBVIOUS
        <3> HIDE DEF f
        <3>2. SumFunction(f) = 0
            BY <3>1, EmptySum
        <3> QED
            BY <1>3, <3>2
    <2>2. PICK e \in ObjectsOf(L) : TRUE
        BY <1>7, <2>1
    <2>3. L # {}
        BY <2>2 DEF ObjectsOf
    <2> QED
        BY <2>3 DEF L, Grouped, GroupsAmong
<1>10. /\ g \in DOMAIN MaximaOf(M, D, p)
       /\ MaximaOf(M, D, p)[g] = SumFunction(h)
    BY <1>9 DEF MaximaOf, L
<1> QED
    BY <1>3, <1>8, <1>10 DEF M

-----------------------------------------------------------------------------
(* With more statements no score, maximum or time becomes less.            *)
LEMMA TopsGrow ==
    ASSUME NEW D, D \subseteq Pool, NEW C, C \subseteq D, C # {}
    PROVE  TopScore(C) <= TopScore(D) /\ TopMax(C) <= TopMax(D)
<1>1. C \subseteq Pool /\ D # {}
    OBVIOUS
<1>2. /\ TopScore(C) \in Int /\ \E s \in C : ExtractScore(s) = TopScore(C)
      /\ TopScore(D) \in Int /\ \A s \in D : ExtractScore(s) <= TopScore(D)
    BY <1>1, TopScoreIs DEF Missing
<1>3. /\ TopMax(C) \in Int /\ \E s \in C : s.max = TopMax(C)
      /\ TopMax(D) \in Int /\ \A s \in D : s.max <= TopMax(D)
    BY <1>1, TopMaxIs DEF Missing
<1> QED
    BY <1>2, <1>3

(* Nor does a group, or an element of it, disappear.                       *)
LEMMA GroupsGrow ==
    ASSUME NEW D, NEW C, C \subseteq D, NEW m, NEW p
    PROVE  /\ GroupsAmong(m, C, p) \subseteq GroupsAmong(m, D, p)
           /\ \A g : Grouped(m, C, p, g) \subseteq Grouped(m, D, p, g)
           /\ \A g : Grouped(m, D, p, g) \subseteq D
           /\ \A e : On(C, e) \subseteq On(D, e) /\ On(D, e) \subseteq D
           /\ ObjectsOf(C) \subseteq ObjectsOf(D)
           /\ \A e \in ObjectsOf(C) : On(C, e) # {}
    BY DEF GroupsAmong, Grouped, On, ObjectsOf

(* Each score of a course or topic grows with its elements' scores.        *)
LEMMA ScoresGrow ==
    ASSUME NEW m, NEW p, NEW D, D \subseteq Pool, NEW C, C \subseteq D,
           NEW g \in DOMAIN ScoresOf(m, C, p)
    PROVE  /\ g \in DOMAIN ScoresOf(m, D, p)
           /\ ScoresOf(m, C, p)[g] <= ScoresOf(m, D, p)[g]
<1> DEFINE K == Grouped(m, C, p, g)
           L == Grouped(m, D, p, g)
           f == [e \in ScoredOf(K) |-> TopScore(On(K, e))]
           h == [e \in ScoredOf(L) |-> TopScore(On(L, e))]
           A == {s \in C : s.object # NoIri}
           B == {s \in D : s.object # NoIri}
<1>1. g \in GroupsAmong(m, A, p) /\ ScoresOf(m, C, p)[g] = SumFunction(f)
    BY DEF ScoresOf
<1>2. g \in GroupsAmong(m, B, p)
    <2>1. A \subseteq B
        OBVIOUS
    <2> HIDE DEF A, B
    <2> QED
        BY <1>1, <2>1, GroupsGrow
<1>3. g \in DOMAIN ScoresOf(m, D, p) /\ ScoresOf(m, D, p)[g] = SumFunction(h)
    BY <1>2 DEF ScoresOf
<1>4. K \subseteq L /\ L \subseteq Pool
    BY GroupsGrow
<1> HIDE DEF K, L
<1>5. \A e : On(K, e) \subseteq On(L, e) /\ On(L, e) \subseteq L
    BY <1>4, GroupsGrow
<1>6. \A e \in ScoredOf(L) : TopScore(On(L, e)) \in Nat
    BY <1>4, ScoredTell
<1>7. ASSUME NEW e \in ScoredOf(K)
      PROVE  /\ e \in ScoredOf(L) /\ TopScore(On(K, e)) \in Nat
             /\ TopScore(On(K, e)) <= TopScore(On(L, e))
    <2>1. e \in ObjectsOf(K) /\ e \in ObjectsOf(L) /\ On(K, e) # {}
        BY <1>4, GroupsGrow DEF ScoredOf
    <2>2. On(L, e) \subseteq Pool /\ On(K, e) \subseteq On(L, e) /\ On(L, e) # {}
        BY <1>4, <1>5, <2>1
    <2>3. TopScore(On(K, e)) <= TopScore(On(L, e))
        BY <2>1, <2>2, TopsGrow
    <2>4. TopScore(On(K, e)) \in Nat
        BY <1>4, ScoredTell
    <2>5. TopScore(On(L, e)) \in Int
        BY <2>2, TopScoreIs DEF Missing
    <2>6. TopScore(On(L, e)) # Missing
        BY <2>3, <2>4, <2>5 DEF Missing
    <2> QED
        BY <2>1, <2>3, <2>4, <2>6 DEF ScoredOf
<1>8. SumFunction(f) <= SumFunction(h)
    <2>1. IsFiniteSet(ScoredOf(L)) /\ ScoredOf(K) \subseteq ScoredOf(L)
        <3>1. IsFiniteSet(ObjectsOf(L)) /\ ScoredOf(L) \in SUBSET ObjectsOf(L)
            BY <1>4, ObjectsFinite DEF ScoredOf
        <3> QED
            BY <1>7, <3>1, FS_Subset
    <2>2. f \in [ScoredOf(K) -> Nat] /\ h \in [ScoredOf(L) -> Nat]
        BY <1>6, <1>7
    <2>3. \A e \in ScoredOf(K) : f[e] <= h[e]
        BY <1>7
    <2> HIDE DEF f, h
    <2> QED
        BY <2>1, <2>2, <2>3, SumOverGrows
<1> QED
    BY <1>1, <1>3, <1>8

(* Maxima likewise.                                                        *)
LEMMA MaximaGrow ==
    ASSUME NEW m, NEW p, NEW D, D \subseteq Pool, NEW C, C \subseteq D,
           NEW g \in DOMAIN MaximaOf(m, C, p)
    PROVE  /\ g \in DOMAIN MaximaOf(m, D, p)
           /\ MaximaOf(m, C, p)[g] <= MaximaOf(m, D, p)[g]
<1> DEFINE K == Grouped(m, Maximal(C), p, g)
           L == Grouped(m, Maximal(D), p, g)
           f == [e \in ObjectsOf(K) |-> TopMax(On(K, e))]
           h == [e \in ObjectsOf(L) |-> TopMax(On(L, e))]
<1>1. g \in GroupsAmong(m, Maximal(C), p) /\ MaximaOf(m, C, p)[g] = SumFunction(f)
    BY DEF MaximaOf
<1>2. Maximal(C) \subseteq Maximal(D) /\ Maximal(D) \subseteq Pool
    BY DEF Maximal
<1>3. g \in GroupsAmong(m, Maximal(D), p)
    BY <1>1, <1>2, GroupsGrow
<1>4. g \in DOMAIN MaximaOf(m, D, p) /\ MaximaOf(m, D, p)[g] = SumFunction(h)
    BY <1>3 DEF MaximaOf
<1>5. K \subseteq L /\ L \subseteq Pool
    BY <1>2, GroupsGrow
<1>6. /\ \A e \in ObjectsOf(K) : TopMax(On(K, e)) \in Nat
      /\ \A e \in ObjectsOf(L) : TopMax(On(L, e)) \in Nat
    BY MaximalTell
<1> HIDE DEF K, L
<1>7. \A e : On(K, e) \subseteq On(L, e) /\ On(L, e) \subseteq L
    BY <1>5, GroupsGrow
<1>8. ASSUME NEW e \in ObjectsOf(K)
      PROVE  e \in ObjectsOf(L) /\ TopMax(On(K, e)) <= TopMax(On(L, e))
    <2>1. e \in ObjectsOf(L) /\ On(K, e) # {}
        BY <1>5, GroupsGrow
    <2>2. On(L, e) \subseteq Pool
        BY <1>5, <1>7
    <2> QED
        BY <1>7, <2>1, <2>2, TopsGrow
<1>9. SumFunction(f) <= SumFunction(h)
    <2>1. IsFiniteSet(ObjectsOf(L)) /\ ObjectsOf(K) \subseteq ObjectsOf(L)
        BY <1>5, <1>8, ObjectsFinite
    <2>2. f \in [ObjectsOf(K) -> Nat] /\ h \in [ObjectsOf(L) -> Nat]
        BY <1>6
    <2>3. \A e \in ObjectsOf(K) : f[e] <= h[e]
        BY <1>8, <2>1
    <2> HIDE DEF f, h
    <2> QED
        BY <2>1, <2>2, <2>3, SumOverGrows
<1> QED
    BY <1>1, <1>4, <1>9

(* Times likewise; rounding respects the order.                            *)
LEMMA TimesGrow ==
    ASSUME NEW m, NEW p, NEW D, D \subseteq Pool, NEW C, C \subseteq D,
           NEW g \in DOMAIN TimesOf(m, C, p)
    PROVE  /\ g \in DOMAIN TimesOf(m, D, p)
           /\ TimesOf(m, C, p)[g] <= TimesOf(m, D, p)[g]
<1> DEFINE K == Grouped(m, Lasting(C), p, g)
           L == Grouped(m, Lasting(D), p, g)
           f == [s \in K |-> Seconds(s)]
           h == [s \in L |-> Seconds(s)]
           x == SumFunction(f)
           y == SumFunction(h)
<1>1. g \in GroupsAmong(m, Lasting(C), p) /\ TimesOf(m, C, p)[g] = Rounded(x)
    BY DEF TimesOf
<1>2. Lasting(C) \subseteq Lasting(D) /\ Lasting(D) \subseteq Pool
    BY DEF Lasting
<1>3. g \in GroupsAmong(m, Lasting(D), p)
    BY <1>1, <1>2, GroupsGrow
<1>4. g \in DOMAIN TimesOf(m, D, p) /\ TimesOf(m, D, p)[g] = Rounded(y)
    BY <1>3 DEF TimesOf
<1>5. K \subseteq L /\ L \subseteq Pool
    BY <1>2, GroupsGrow
<1> HIDE DEF K, L
<1>6. x <= y /\ x \in Nat /\ y \in Nat
    <2>1. IsFiniteSet(L)
        BY <1>5, MetricValuesAssumption, FS_Subset
    <2>2. \A s \in L : Seconds(s) \in Nat
        BY <1>5, PoolRecorded DEF Recorded
    <2>3. f \in [K -> Nat] /\ h \in [L -> Nat] /\ \A s \in K : f[s] <= h[s]
        BY <1>5, <2>2
    <2> HIDE DEF f, h
    <2> QED
        BY <1>5, <2>1, <2>3, SumOverGrows
<1> HIDE DEF x, y
<1>7. Rounded(x) <= Rounded(y)
    BY <1>6 DEF Rounded
<1> QED
    BY <1>1, <1>4, <1>7

(* And the score of each element's best attempt.                           *)
LEMMA BestGrow ==
    ASSUME NEW p, NEW D, D \subseteq Pool, NEW C, C \subseteq D,
           NEW S, ListOf(S, C), NEW T, ListOf(T, D)
    PROVE  LET v == TopicElementsBestAttempts(S, p)
               w == TopicElementsBestAttempts(T, p)
           IN  \A e \in DOMAIN v : e \in DOMAIN w /\ v[e].score <= w[e].score
<1> DEFINE v == TopicElementsBestAttempts(S, p)
           w == TopicElementsBestAttempts(T, p)
           K(e) == Grouped(Best, C, p, e)
           L(e) == Grouped(Best, D, p, e)
<1>1. DOMAIN v = GroupsAmong(Best, C, p) /\ \A e \in DOMAIN v : v[e].score = TopScore(K(e))
    BY BestAttemptsAre DEF Best
<1>2. DOMAIN w = GroupsAmong(Best, D, p) /\ \A e \in DOMAIN w : w[e].score = TopScore(L(e))
    BY BestAttemptsAre DEF Best
<1>3. DOMAIN v \subseteq DOMAIN w /\ \A e : K(e) \subseteq L(e) /\ L(e) \subseteq D
    BY <1>1, <1>2, GroupsGrow
<1>4. \A e \in DOMAIN v : K(e) # {}
    BY <1>1 DEF GroupsAmong, Grouped
<1> HIDE DEF v, w, K, L
<1>5. ASSUME NEW e \in DOMAIN v
      PROVE  e \in DOMAIN w /\ v[e].score <= w[e].score
    <2>1. L(e) \subseteq Pool /\ K(e) \subseteq L(e) /\ K(e) # {}
        BY <1>3, <1>4
    <2>2. TopScore(K(e)) <= TopScore(L(e))
        BY <2>1, TopsGrow
    <2> QED
        BY <1>1, <1>2, <1>3, <2>2
<1> QED
    BY <1>5 DEF v, w

(* A list of more completions has later ones at its head.                  *)
LEMMA CourseLastGrow ==
    ASSUME NEW D, D \subseteq Pool, NEW C, C \subseteq D,
           NEW S, ListOf(S, C), NEW T, ListOf(T, D)
    PROVE  LET v == CourseLastElements(S)
               w == CourseLastElements(T)
           IN  /\ Len(v) <= Len(w)
               /\ \A i \in DOMAIN v : v[i].completedAt <= w[i].completedAt
<1> DEFINE A == At(S, {i \in DOMAIN S : S[i].verb \in CompletionVerbs /\ S[i].time # 0})
           B == At(T, {i \in DOMAIN T : T[i].verb \in CompletionVerbs /\ T[i].time # 0})
           list == [i \in DOMAIN A |-> Completion(A[i])]
           more == [i \in DOMAIN B |-> Completion(B[i])]
           All == CompletionsOf(Pool)
<1>1. /\ ListOf(A, Passed(C)) /\ CourseLastElements(S) = TopThree(Latest(list))
      /\ ListOf(B, Passed(D)) /\ CourseLastElements(T) = TopThree(Latest(more))
    BY PassedLists
<1>2. Passed(C) \subseteq Passed(D) /\ Passed(D) \subseteq Pool
    BY DEF Passed
<1> HIDE DEF A, B
<1>3. /\ Len(A) \in Nat /\ DOMAIN A = 1..Len(A)
      /\ \A i \in 1..Len(A) : A[i] \in Passed(C)
      /\ \A i, j \in 1..Len(A) : A[i] = A[j] => i = j
    BY <1>1, ListOfTells
<1>4. /\ Len(B) \in Nat /\ DOMAIN B = 1..Len(B)
      /\ \A i \in 1..Len(B) : B[i] \in Passed(D)
      /\ \A s \in Passed(D) : \E i \in 1..Len(B) : B[i] = s
    BY <1>1, ListOfTells
<1>5. list \in Seq(All) /\ Len(list) = Len(A)
    <2>1. \A i \in 1..Len(A) : Completion(A[i]) \in All
        BY <1>2, <1>3 DEF CompletionsOf
    <2>2. list \in [1..Len(A) -> All]
        BY <1>3, <2>1
    <2> HIDE DEF list
    <2> QED
        BY <1>3, <2>2, SeqDef, LenProperties
<1>6. more \in Seq(All) /\ Len(more) = Len(B)
    <2>1. \A i \in 1..Len(B) : Completion(B[i]) \in All
        BY <1>2, <1>4 DEF CompletionsOf
    <2>2. more \in [1..Len(B) -> All]
        BY <1>4, <2>1
    <2> HIDE DEF more
    <2> QED
        BY <1>4, <2>2, SeqDef, LenProperties
<1>7. \A c \in All : c.completedAt \in Nat
    BY PoolRecorded DEF CompletionsOf, Completion, Recorded
<1> DEFINE j == [i \in 1..Len(list) |-> CHOOSE n \in 1..Len(B) : B[n] = A[i]]
<1>8. \A i \in 1..Len(list) : j[i] \in 1..Len(more) /\ B[j[i]] = A[i]
    <2> SUFFICES ASSUME NEW i \in 1..Len(list)
                 PROVE  \E n \in 1..Len(B) : B[n] = A[i]
        BY <1>6
    <2>1. A[i] \in Passed(D)
        BY <1>2, <1>3, <1>5
    <2> QED
        BY <1>4, <2>1
<1>9. j \in [1..Len(list) -> 1..Len(more)]
    BY <1>8
<1> HIDE DEF j
<1>10. ASSUME NEW m \in 1..Len(list), NEW n \in 1..Len(list), j[m] = j[n]
       PROVE  m = n
    <2>1. A[m] = A[n]
        BY <1>8, <1>10
    <2> QED
        BY <1>3, <1>5, <2>1
<1>11. \A n \in 1..Len(list) : list[n].completedAt <= more[j[n]].completedAt
    <2> SUFFICES ASSUME NEW n \in 1..Len(list)
                 PROVE  list[n].completedAt <= more[j[n]].completedAt
        OBVIOUS
    <2>1. list[n] = Completion(A[n]) /\ more[j[n]] = Completion(B[j[n]])
        BY <1>3, <1>4, <1>5, <1>6, <1>8
    <2>2. list[n] = more[j[n]]
        BY <1>8, <2>1
    <2>3. list[n] \in All
        BY <1>2, <1>3, <1>5, <2>1 DEF CompletionsOf
    <2> QED
        BY <1>7, <2>2, <2>3
<1> HIDE DEF list, more, All
<1> QED
    BY <1>1, <1>5, <1>6, <1>7, <1>9, <1>10, <1>11, LatestGrows

(* An element's latest completion is no earlier; so is the list of them.   *)
LEMMA LastCompletedGrow ==
    ASSUME NEW D, D \subseteq Pool, NEW C, C \subseteq D,
           NEW S, ListOf(S, C), NEW T, ListOf(T, D), NEW metr, NEW p
    PROVE  LET v == LastCompleted(metr, S, p)
               w == LastCompleted(metr, T, p)
           IN  /\ Len(v) <= Len(w)
               /\ \A i \in DOMAIN v : v[i].completedAt <= w[i].completedAt
<1> DEFINE F == Finished(metr, C, p)
           G == Finished(metr, D, p)
           A == At(S, {i \in DOMAIN S : Counts(metr, S[i], p)})
           B == At(T, {i \in DOMAIN T : Counts(metr, T[i], p)})
           list == LatestPerElement(A)
           more == LatestPerElement(B)
           All == LastsOf(F) \cup LastsOf(G)
<1>1. ListOf(A, F) /\ LastCompleted(metr, S, p) = TopThree(Latest(list))
    BY FinishedLists DEF LastCompleted
<1>2. ListOf(B, G) /\ LastCompleted(metr, T, p) = TopThree(Latest(more))
    BY FinishedLists DEF LastCompleted
<1>3. F \subseteq G /\ G \subseteq Pool
    BY DEF Finished
<1> HIDE DEF F, G, A, B
<1>4. ListOf(list, LastsOf(F)) /\ ListOf(more, LastsOf(G))
    BY <1>1, <1>2, <1>3, LastsList
<1> HIDE DEF list, more
<1>5. /\ Len(list) \in Nat
      /\ \A i \in 1..Len(list) : list[i] \in LastsOf(F)
      /\ \A m, n \in 1..Len(list) : list[m] = list[n] => m = n
    BY <1>4, ListOfTells
<1>6. /\ Len(more) \in Nat
      /\ \A i \in 1..Len(more) : more[i] \in LastsOf(G)
      /\ \A d \in LastsOf(G) : \E i \in 1..Len(more) : more[i] = d
    BY <1>4, ListOfTells
<1>7. ASSUME NEW c \in LastsOf(F)
      PROVE  \E d \in LastsOf(G) : /\ d.elementId = c.elementId
                                   /\ c.completedAt <= d.completedAt
    <2> DEFINE e == c.elementId
    <2>1. PICK s \in F : s.object = e /\ s.time = c.completedAt
        BY <1>3, LastsTell
    <2> HIDE DEF e
    <2>2. s \in On(G, e)
        BY <1>3, <2>1 DEF On
    <2>3. s.time <= LatestOf(e, G)
        BY <1>3, <2>2, LatestOfIs
    <2>4. [elementId |-> e, completedAt |-> LatestOf(e, G)] \in LastsOf(G)
        BY <1>3, <2>1 DEF LastsOf
    <2> QED
        BY <2>1, <2>3, <2>4 DEF e
<1> DEFINE j == [i \in 1..Len(list) |-> CHOOSE n \in 1..Len(more) :
                    /\ more[n].elementId = list[i].elementId
                    /\ list[i].completedAt <= more[n].completedAt]
<1>8. \A i \in 1..Len(list) :
         /\ j[i] \in 1..Len(more) /\ more[j[i]].elementId = list[i].elementId
         /\ list[i].completedAt <= more[j[i]].completedAt
    <2> SUFFICES ASSUME NEW i \in 1..Len(list)
                 PROVE  \E n \in 1..Len(more) :
                           /\ more[n].elementId = list[i].elementId
                           /\ list[i].completedAt <= more[n].completedAt
        OBVIOUS
    <2>1. list[i] \in LastsOf(F)
        BY <1>5
    <2>2. PICK d \in LastsOf(G) : /\ d.elementId = list[i].elementId
                                  /\ list[i].completedAt <= d.completedAt
        BY <1>7, <2>1
    <2> QED
        BY <1>6, <2>2
<1>9. j \in [1..Len(list) -> 1..Len(more)]
    BY <1>8
<1> HIDE DEF j
<1>10. ASSUME NEW m \in 1..Len(list), NEW n \in 1..Len(list), j[m] = j[n]
       PROVE  m = n
    <2>1. list[m].elementId = list[n].elementId
        BY <1>8, <1>10
    <2>2. \A c \in LastsOf(F) :
             c = [elementId |-> c.elementId, completedAt |-> LatestOf(c.elementId, F)]
        BY DEF LastsOf
    <2>3. list[m] = list[n]
        BY <1>5, <2>1, <2>2
    <2> QED
        BY <1>5, <2>3
<1>11. \A c \in All : c.completedAt \in Nat
    <2>1. F \subseteq Pool
        BY <1>3
    <2> QED
        BY <1>3, <2>1, LastsTell
<1>12. list \in Seq(All) /\ more \in Seq(All)
    BY <1>4 DEF ListOf
<1> HIDE DEF All
<1>13. \A n \in 1..Len(list) : list[n].completedAt <= more[j[n]].completedAt
    BY <1>8
<1> QED
    BY <1>1, <1>2, <1>9, <1>10, <1>11, <1>12, <1>13, LatestGrows

(* A value of more statements is not less.                                 *)
LEMMA MoreIsNotLess ==
    ASSUME metric \in MetricIds, NEW D, D \subseteq Pool, NEW C, C \subseteq D,
           NEW S, ListOf(S, C), NEW T, ListOf(T, D)
    PROVE  NotLess(Value(S), Value(T))
<1>1. CASE metric \in ScoreMetrics \cup MaxMetrics \cup TimeMetrics
    <2> DEFINE v == Value(S)
               w == Value(T)
    <2>1. \A g \in DOMAIN v : g \in DOMAIN w /\ v[g] <= w[g]
        <3>0. C \subseteq Pool
            OBVIOUS
        <3>1. CASE metric \in ScoreMetrics
            <4>1. v = ScoresOf(metric, C, Params) /\ w = ScoresOf(metric, D, Params)
                BY <3>0, <3>1, ValueIs
            <4> HIDE DEF v, w
            <4> QED
                BY <4>1, ScoresGrow
        <3>2. CASE metric \in MaxMetrics
            <4>1. v = MaximaOf(metric, C, Params) /\ w = MaximaOf(metric, D, Params)
                BY <3>0, <3>2, ValueIs
            <4> HIDE DEF v, w
            <4> QED
                BY <4>1, MaximaGrow
        <3>3. CASE metric \in TimeMetrics
            <4>1. v = TimesOf(metric, C, Params) /\ w = TimesOf(metric, D, Params)
                BY <3>0, <3>3, ValueIs
            <4> HIDE DEF v, w
            <4> QED
                BY <4>1, TimesGrow
        <3> QED
            BY <1>1, <3>1, <3>2, <3>3
    <2> HIDE DEF v, w
    <2>2. metric # "topic-elements-best-attempts" /\ metric \notin LastElements
        BY <1>1 DEF ScoreMetrics, MaxMetrics, TimeMetrics, LastElements
    <2>3. NotLess(v, w)
        BY <2>1, <2>2 DEF NotLess
    <2> QED
        BY <2>3 DEF v, w
<1>2. CASE metric = Best
    <2> DEFINE v == Value(S)
               w == Value(T)
    <2>0. C \subseteq Pool
        OBVIOUS
    <2>1. v = TopicElementsBestAttempts(S, Params) /\ w = TopicElementsBestAttempts(T, Params)
        BY <1>2, <2>0, ValueIs
    <2> HIDE DEF v, w
    <2>2. \A e \in DOMAIN v : e \in DOMAIN w /\ v[e].score <= w[e].score
        BY <2>1, BestGrow
    <2>3. NotLess(v, w)
        BY <1>2, <2>2 DEF NotLess, Best, LastElements
    <2> QED
        BY <2>3 DEF v, w
<1>3. CASE metric \in LastElements
    <2> DEFINE v == Value(S)
               w == Value(T)
    <2>1. /\ Len(v) <= Len(w)
          /\ \A i \in DOMAIN v : v[i].completedAt <= w[i].completedAt
        <3>0. C \subseteq Pool
            OBVIOUS
        <3>1. CASE metric = "course-last-elements"
            <4>1. v = CourseLastElements(S) /\ w = CourseLastElements(T)
                BY <3>0, <3>1, ValueIs
            <4> HIDE DEF v, w
            <4> QED
                BY <4>1, CourseLastGrow
        <3>2. CASE metric \in {"topic-last-elements", "user-last-elements"}
            <4>1. v = LastCompleted(metric, S, Params) /\ w = LastCompleted(metric, T, Params)
                BY <3>0, <3>2, ValueIs
            <4> HIDE DEF v, w
            <4> QED
                BY <4>1, LastCompletedGrow
        <3> QED
            BY <1>3, <3>1, <3>2 DEF LastElements
    <2> HIDE DEF v, w
    <2>2. NotLess(v, w)
        BY <1>3, <2>1 DEF NotLess, LastElements
    <2> QED
        BY <2>2 DEF v, w
<1> QED
    BY <1>1, <1>2, <1>3, MetricsAre DEF Best

-----------------------------------------------------------------------------
(* The lists that the service gathers.                                     *)
LEMMA ListIfOnce ==
    ASSUME NEW n \in Nat, NEW C, NEW S \in [1..n -> C],
           \A s \in C : \E i \in 1..n : S[i] = s,
           \A i, j \in 1..n : S[i] = S[j] => i = j
    PROVE  ListOf(S, C)
<1>1. DOMAIN S = 1..n /\ \A i \in 1..n : S[i] \in C
    OBVIOUS
<1>2. S \in Seq(C)
    BY SeqDef
<1>3. ToSet(S) = C /\ IsInjective(S)
    BY <1>1 DEF ToSet, IsInjective
<1> QED
    BY <1>2, <1>3 DEF ListOf

(* Two lists with nothing in common, one after the other.                  *)
LEMMA ConcatLists ==
    ASSUME NEW S, NEW C, ListOf(S, C), NEW T, NEW D, ListOf(T, D), C \cap D = {}
    PROVE  ListOf(S \o T, C \cup D)
<1> DEFINE m == Len(S)
           n == Len(T)
           U == S \o T
<1>1. /\ m \in Nat /\ \A i \in 1..m : S[i] \in C
      /\ \A s \in C : \E i \in 1..m : S[i] = s
      /\ \A i, j \in 1..m : S[i] = S[j] => i = j
    BY ListOfTells
<1>2. /\ n \in Nat /\ \A i \in 1..n : T[i] \in D
      /\ \A s \in D : \E i \in 1..n : T[i] = s
      /\ \A i, j \in 1..n : T[i] = T[j] => i = j
    BY ListOfTells
<1>3. S \in Seq(C \cup D) /\ T \in Seq(C \cup D)
    BY <1>1, <1>2 DEF ListOf
<1>4. /\ U \in Seq(C \cup D) /\ Len(U) = m + n
      /\ \A i \in 1..(m + n) : U[i] = IF i <= m THEN S[i] ELSE T[i - m]
    BY <1>3, ConcatProperties
<1> HIDE DEF m, n, U
<1>5. m + n \in Nat /\ U \in [1..(m + n) -> C \cup D]
    <2>1. U \in [1..Len(U) -> C \cup D]
        BY <1>4, LenProperties
    <2> QED
        BY <1>1, <1>2, <1>4, <2>1
<1>6. \A i \in 1..m : i \in 1..(m + n) /\ U[i] = S[i]
    BY <1>1, <1>2, <1>4
<1>7. \A i \in 1..n : m + i \in 1..(m + n) /\ U[m + i] = T[i]
    <2> SUFFICES ASSUME NEW i \in 1..n
                 PROVE  m + i \in 1..(m + n) /\ U[m + i] = T[i]
        OBVIOUS
    <2> DEFINE k == m + i
    <2>1. k \in 1..(m + n) /\ ~(k <= m)
        BY <1>1, <1>2
    <2>2. k - m = i
        BY <1>1, <1>2
    <2> HIDE DEF k
    <2>3. U[k] = T[k - m]
        BY <1>4, <2>1
    <2>4. k \in 1..(m + n) /\ U[k] = T[i]
        BY <2>1, <2>2, <2>3
    <2> QED
        BY <2>4 DEF k
<1>8. \A k \in 1..(m + n) : k \in 1..m \/ \E i \in 1..n : k = m + i
    <2> SUFFICES ASSUME NEW k \in 1..(m + n), k > m
                 PROVE  \E i \in 1..n : k = m + i
        BY <1>1, <1>2
    <2>1. k - m \in 1..n /\ k = m + (k - m)
        BY <1>1, <1>2
    <2> QED
        BY <2>1
<1>9. \A s \in C \cup D : \E i \in 1..(m + n) : U[i] = s
    BY <1>1, <1>2, <1>6, <1>7
<1>10. ASSUME NEW i \in 1..(m + n), NEW j \in 1..(m + n), U[i] = U[j]
       PROVE  i = j
    <2>1. CASE i \in 1..m /\ j \in 1..m
        BY <1>1, <1>6, <1>10, <2>1
    <2>2. CASE (\E a \in 1..n : i = m + a) /\ \E b \in 1..n : j = m + b
        BY <1>2, <1>7, <1>10, <2>2
    <2>a. \A k \in 1..m : U[k] \in C
        BY <1>1, <1>6
    <2>b. \A k \in 1..n : U[m + k] \in D
        BY <1>2, <1>7
    <2>3. CASE i \in 1..m /\ \E b \in 1..n : j = m + b
        BY <1>10, <2>3, <2>a, <2>b
    <2>4. CASE j \in 1..m /\ \E b \in 1..n : i = m + b
        BY <1>10, <2>4, <2>a, <2>b
    <2> QED
        BY <1>8, <2>1, <2>2, <2>3, <2>4
<1>11. ListOf(U, C \cup D)
    BY ONLY <1>5, <1>9, <1>10, ListIfOnce
<1> QED
    BY <1>11 DEF U

(* A part of a list.                                                       *)
LEMMA SubLists ==
    ASSUME NEW S, NEW C, ListOf(S, C), NEW m \in 1..(Len(S) + 1), NEW n \in 0..Len(S)
    PROVE  ListOf(SubSeq(S, m, n), {S[i] : i \in m..n})
<1> DEFINE D == {S[i] : i \in m..n}
           T == SubSeq(S, m, n)
           k == IF m <= n THEN n - m + 1 ELSE 0
<1>1. Len(S) \in Nat /\ \A i, j \in 1..Len(S) : S[i] = S[j] => i = j
    BY ListOfTells
<1>2. \A i \in m..n : S[i] \in D /\ i \in 1..Len(S)
    BY <1>1
<1>3. /\ T \in Seq(D) /\ Len(T) = k
      /\ \A i \in 1..(n - m + 1) : T[i] = S[m + i - 1]
    <2> HIDE DEF D
    <2> QED
        BY <1>1, <1>2, SubSeqProperties
<1>4. k \in Nat /\ T \in [1..k -> D]
    <2>1. k \in Nat
        BY <1>1
    <2> HIDE DEF T, k, D
    <2>2. T \in [1..Len(T) -> D]
        BY <1>3, LenProperties
    <2> QED
        BY <1>3, <2>1, <2>2
<1>5. \A i \in 1..k : m + i - 1 \in m..n /\ T[i] = S[m + i - 1]
    BY <1>1, <1>3
<1>6. \A i \in m..n : i - m + 1 \in 1..k /\ T[i - m + 1] = S[i]
    <2> SUFFICES ASSUME NEW i \in m..n
                 PROVE  i - m + 1 \in 1..k /\ T[i - m + 1] = S[i]
        OBVIOUS
    <2>1. i - m + 1 \in 1..k /\ m + (i - m + 1) - 1 = i
        BY <1>1
    <2> QED
        BY <1>5, <2>1
<1> HIDE DEF T, k
<1>7. \A s \in D : \E i \in 1..k : T[i] = s
    BY <1>6
<1> HIDE DEF D
<1>8. ASSUME NEW i \in 1..k, NEW j \in 1..k, T[i] = T[j]
      PROVE  i = j
    <2>1. m + i - 1 \in 1..Len(S) /\ m + j - 1 \in 1..Len(S) /\ S[m + i - 1] = S[m + j - 1]
        BY <1>2, <1>5, <1>8
    <2>2. m + i - 1 = m + j - 1
        BY <1>1, <2>1
    <2> QED
        BY <1>1, <1>4, <2>2
<1>9. ListOf(T, D)
    BY ONLY <1>4, <1>7, <1>8, ListIfOnce
<1> QED
    BY <1>9 DEF T, D

(* mergeStatements, of lists that may have something in common.            *)
LEMMA MergedLists ==
    ASSUME NEW S, NEW C, ListOf(S, C), NEW T, NEW D, ListOf(T, D)
    PROVE  ListOf(Merged(S, T), C \cup D)
<1>1. \A s : Contains(S, s) <=> s \in C
    BY ListOfTells DEF Contains
<1>2. {i \in DOMAIN T : ~Contains(S, T[i])} = {i \in DOMAIN T : T[i] \in D \ C}
    BY <1>1, ListOfTells
<1>3. ListOf(At(T, {i \in DOMAIN T : T[i] \in D \ C}), D \ C)
    BY AtLists
<1>4. C \cap (D \ C) = {} /\ C \cup (D \ C) = C \cup D
    OBVIOUS
<1> DEFINE new == At(T, {i \in DOMAIN T : T[i] \in D \ C})
           E == D \ C
<1>5. Merged(S, T) = S \o new
    BY <1>2 DEF Merged
<1> HIDE DEF new, E
<1>6. ListOf(S \o new, C \cup E)
    <2>1. ListOf(new, E) /\ C \cap E = {}
        BY <1>3, <1>4 DEF new, E
    <2> QED
        BY <2>1, ConcatLists
<1> QED
    BY <1>4, <1>5, <1>6 DEF E

(* What a query returns.                                                   *)
Queried(s) == \E k \in 1..Len(QueriedVerbs) : Matches(s, QueriedVerbs[k])

(* No statement is found by two of the queries.                            *)
LEMMA VerbOnce ==
    /\ Len(QueriedVerbs) \in Nat
    /\ \A s : \A k, l \in 1..Len(QueriedVerbs) :
          Matches(s, QueriedVerbs[k]) /\ Matches(s, QueriedVerbs[l]) => k = l
<1>1. CASE metric \in {"course-last-elements", "topic-last-elements"}
    <2>1. QueriedVerbs = <<AdlCompleted, HaskiCompleted, ServicesCompleted>>
        BY <1>1 DEF QueriedVerbs
    <2>2. Len(QueriedVerbs) = 3 /\ \A k \in 1..3 : k = 1 \/ k = 2 \/ k = 3
        BY <2>1
    <2>3. /\ QueriedVerbs[1] = AdlCompleted /\ QueriedVerbs[2] = HaskiCompleted
          /\ QueriedVerbs[3] = ServicesCompleted
        BY <2>1
    <2>4. \A s, v : Matches(s, v) /\ v # AnyVerb => v = s.verb
        BY DEF Matches
    <2>5. /\ AdlCompleted # HaskiCompleted /\ AdlCompleted # ServicesCompleted
          /\ HaskiCompleted # ServicesCompleted /\ AdlCompleted # AnyVerb
          /\ HaskiCompleted # AnyVerb /\ ServicesCompleted # AnyVerb
        BY DEF AdlCompleted, HaskiCompleted, ServicesCompleted, AnyVerb
    <2> HIDE <2>1
    <2> QED
        BY <2>2, <2>3, <2>4, <2>5
<1>2. CASE metric \notin {"course-last-elements", "topic-last-elements"}
    <2>1. QueriedVerbs = <<AnyVerb>>
        BY <1>2 DEF QueriedVerbs
    <2> QED
        BY <2>1
<1> QED
    BY <1>1, <1>2

(* A fetch finds each of the queried statements once.                      *)
LEMMA FetchedLists ==
    ASSUME NEW part, NEW C, ListOf(part, C)
    PROVE  ListOf(Fetched(part), {s \in C : Queried(s)})
<1> DEFINE V == Len(QueriedVerbs)
           N == Len(part)
           found == {q \in (1..V) \X (1..N) : Matches(part[q[2]], QueriedVerbs[q[1]])}
           R == {p \in found \X found : \/ p[1][1] < p[2][1]
                                        \/ p[1][1] = p[2][1] /\ p[1][2] > p[2][2]}
           h == InOrder(found, R)
           M == Cardinality(found)
           D == {s \in C : Queried(s)}
<1>1. V \in Nat /\ \A s : \A k, l \in 1..V :
         Matches(s, QueriedVerbs[k]) /\ Matches(s, QueriedVerbs[l]) => k = l
    BY VerbOnce
<1>2. /\ N \in Nat /\ \A i \in 1..N : part[i] \in C
      /\ \A s \in C : \E i \in 1..N : part[i] = s
      /\ \A i, j \in 1..N : part[i] = part[j] => i = j
    BY ListOfTells
<1>3. IsFiniteSet(found) /\ M \in Nat
    <2>1. IsFiniteSet(1..V) /\ IsFiniteSet(1..N)
        BY <1>1, <1>2, Initial
    <2>2. IsFiniteSet((1..V) \X (1..N))
        BY <2>1, FS_Product
    <2>3. found \in SUBSET ((1..V) \X (1..N))
        OBVIOUS
    <2> HIDE DEF found
    <2> QED
        BY <2>2, <2>3, FS_Subset, FS_CardinalityType
<1>4. \A q \in found : /\ q[1] \in 1..V /\ q[2] \in 1..N /\ q = <<q[1], q[2]>>
                       /\ Matches(part[q[2]], QueriedVerbs[q[1]])
    OBVIOUS
<1>5. \A k \in 1..V, i \in 1..N : Matches(part[i], QueriedVerbs[k]) => <<k, i>> \in found
    OBVIOUS
<1>6. \A p, q \in found :
         <<p, q>> \in R <=> p[1] < q[1] \/ (p[1] = q[1] /\ p[2] > q[2])
    OBVIOUS
<1>7. Fetched(part) = [n \in DOMAIN h |-> part[h[n][2]]]
    BY DEF Fetched
<1> HIDE DEF found, R
<1>8. \A q \in found : q[1] \in Nat /\ q[2] \in Nat
    BY <1>1, <1>2, <1>4
<1>9. StrictOrder(found, R)
    <2>1. \A p \in found : ~(<<p, p>> \in R)
        BY <1>6, <1>8
    <2>2. \A p, q, r \in found : <<p, q>> \in R /\ <<q, r>> \in R => <<p, r>> \in R
        BY <1>6, <1>8
    <2>3. ASSUME NEW p \in found, NEW q \in found
          PROVE  p = q \/ <<p, q>> \in R \/ <<q, p>> \in R
        <3>1. p[1] = q[1] /\ p[2] = q[2] => p = q
            BY <1>4
        <3> QED
            BY <1>6, <1>8, <3>1
    <2> QED
        BY <2>1, <2>2, <2>3 DEF StrictOrder
<1>10. /\ h \in [1..M -> found]
       /\ \A m, n \in 1..M : h[m] = h[n] => m = n
       /\ \A q \in found : \E n \in 1..M : h[n] = q
    <2>1. ListsBy(h, found, R)
        BY <1>3, <1>9, Places
    <2> HIDE DEF h
    <2> QED
        BY <2>1 DEF ListsBy, Lists
<1> DEFINE F == [n \in 1..M |-> part[h[n][2]]]
<1>11. Fetched(part) = F
    <2> HIDE DEF h
    <2> QED
        BY <1>7, <1>10
<1> HIDE DEF h, M
<1>12. ASSUME NEW n \in 1..M
       PROVE  F[n] \in D /\ F[n] = part[h[n][2]] /\ Matches(F[n], QueriedVerbs[h[n][1]])
    <2>1. /\ h[n] \in found /\ h[n][1] \in 1..V /\ h[n][2] \in 1..N
          /\ Matches(part[h[n][2]], QueriedVerbs[h[n][1]])
        BY <1>4, <1>10
    <2> QED
        BY <1>2, <2>1 DEF Queried
<1>13. F \in [1..M -> D]
    BY <1>12
<1> HIDE DEF F
<1>14. ASSUME NEW s \in D
       PROVE  \E n \in 1..M : F[n] = s
    <2>1. PICK i \in 1..N : part[i] = s
        BY <1>2
    <2>2. PICK k \in 1..V : Matches(s, QueriedVerbs[k])
        BY DEF Queried
    <2>3. <<k, i>> \in found
        BY <1>5, <2>1, <2>2
    <2>4. PICK n \in 1..M : h[n] = <<k, i>>
        BY <1>10, <2>3
    <2> QED
        BY <1>12, <2>1, <2>4
<1> HIDE DEF D
<1>15. ASSUME NEW m \in 1..M, NEW n \in 1..M, F[m] = F[n]
       PROVE  m = n
    <2>1. h[m] \in found /\ h[n] \in found
        BY <1>10
    <2>2. h[m][2] = h[n][2]
        BY <1>2, <1>4, <1>12, <1>15, <2>1
    <2>3. h[m][1] = h[n][1]
        BY <1>1, <1>4, <1>12, <1>15, <2>1
    <2>4. h[m] = h[n]
        BY <1>4, <2>1, <2>2, <2>3
    <2> QED
        BY <1>10, <2>4
<1>16. ListOf(F, D)
    BY ONLY <1>3, <1>13, <1>14, <1>15, ListIfOnce DEF M
<1> QED
    BY <1>11, <1>16 DEF D

-----------------------------------------------------------------------------
(* The invariant.                                                          *)
Seen(n) == {lrs[i] : i \in 1..n}
Known(n) == {s \in Seen(n) : Queried(s)}

Gathered(v, n) == \E S : ListOf(S, Known(n)) /\ v = Value(S)

Held ==
    IF entry.exists
    THEN /\ ListOf(entry.statements, Known(entry.upTo))
         /\ entry.value = Value(entry.statements)
         /\ shown = entry.value
    ELSE entry.statements = <<>>

IndInv ==
    /\ metric \in MetricIds
    /\ lrs \in Seq(Pool) /\ IsInjective(lrs)
    /\ entry.exists \in BOOLEAN
    /\ entry.upTo \in 0..Len(lrs)
    /\ Held
    /\ \E n \in 0..Len(lrs) : Gathered(shown, n)

(* The LRS, and what a full fetch finds there.                             *)
LEMMA StoredLists ==
    ASSUME lrs \in Seq(Pool), IsInjective(lrs)
    PROVE  /\ Len(lrs) \in Nat
           /\ \A i \in 1..Len(lrs) : lrs[i] \in Pool
           /\ \A i, j \in 1..Len(lrs) : lrs[i] = lrs[j] => i = j
           /\ ListOf(lrs, Seen(Len(lrs)))
           /\ ListOf(Fetched(lrs), Known(Len(lrs)))
<1> DEFINE N == Len(lrs)
           D == Seen(N)
<1>1. /\ N \in Nat /\ DOMAIN lrs = 1..N
      /\ \A i \in 1..N : lrs[i] \in Pool
    BY LenProperties
<1>2. \A i, j \in 1..N : lrs[i] = lrs[j] => i = j
    BY <1>1 DEF IsInjective
<1>3. lrs \in [1..N -> D] /\ \A s \in D : \E i \in 1..N : lrs[i] = s
    <2>1. lrs \in [1..N -> Pool]
        BY LenProperties
    <2> QED
        BY <1>1, <2>1 DEF Seen
<1> HIDE DEF D
<1>4. ListOf(lrs, D)
    BY ONLY <1>1, <1>2, <1>3, ListIfOnce
<1>5. ListOf(Fetched(lrs), {s \in D : Queried(s)})
    BY <1>4, FetchedLists
<1> QED
    BY <1>1, <1>2, <1>4, <1>5 DEF D, Known

(* What was there earlier, and what a fetch found.                         *)
LEMMA PrefixLists ==
    ASSUME lrs \in Seq(Pool), IsInjective(lrs), NEW n \in 0..Len(lrs)
    PROVE  /\ Seen(n) \subseteq Pool /\ Known(n) \subseteq Pool
           /\ Known(n) \subseteq Known(Len(lrs))
           /\ ListOf(Fetched(SubSeq(lrs, 1, n)), Known(n))
<1>1. /\ Len(lrs) \in Nat
      /\ \A i \in 1..Len(lrs) : lrs[i] \in Pool
      /\ ListOf(lrs, Seen(Len(lrs)))
    BY StoredLists
<1>2. Seen(n) \subseteq Seen(Len(lrs)) /\ Seen(n) \subseteq Pool
    BY <1>1 DEF Seen
<1>3. ListOf(SubSeq(lrs, 1, n), Seen(n))
    <2>1. 1 \in 1..(Len(lrs) + 1)
        BY <1>1
    <2> QED
        BY <1>1, <2>1, SubLists DEF Seen
<1>4. ListOf(Fetched(SubSeq(lrs, 1, n)), {s \in Seen(n) : Queried(s)})
    BY <1>3, FetchedLists
<1> QED
    BY <1>2, <1>4 DEF Known

(* At first, nothing.                                                      *)
LEMMA EmptyList ==
    /\ ListOf(<<>>, {})
    /\ Known(0) = {}
<1>1. <<>> \in Seq({}) /\ ToSet(<<>>) = {} /\ IsInjective(<<>>)
    BY DEF ToSet, IsInjective
<1> QED
    BY <1>1 DEF ListOf, Known, Seen

(* The metric stays, and with it what is queried and what is made of it.   *)
LEMMA MetricStays ==
    ASSUME metric' = metric
    PROVE  /\ \A S : Value(S)' = Value(S)
           /\ \A s : Queried(s)' = Queried(s)
<1>1. Params' = Params
    BY DEF Params
<1>2. QueriedVerbs' = QueriedVerbs /\ ActivityFilter' = ActivityFilter
    BY <1>1 DEF QueriedVerbs, ActivityFilter
<1> QED
    BY <1>1, <1>2 DEF Value, Queried, Matches

(* What was known does not depend on what is stored later.                 *)
LEMMA KnownStays ==
    ASSUME metric' = metric, NEW n, \A i \in 1..n : lrs'[i] = lrs[i]
    PROVE  Known(n)' = Known(n) /\ \A v : Gathered(v, n)' = Gathered(v, n)
<1>1. Seen(n)' = Seen(n)
    BY DEF Seen
<1>2. Known(n)' = Known(n)
    BY <1>1, MetricStays DEF Known
<1> QED
    BY <1>2, MetricStays DEF Gathered

(* What has come in until a refresh.                                       *)

(* The cursor is not past what the entry has seen...                       *)
LEMMA CursorIs ==
    ASSUME lrs \in Seq(Pool), IsInjective(lrs), NEW n \in 0..Len(lrs),
           NEW S, ListOf(S, Known(n)), S # <<>>
    PROVE  Cursor(S) \in 1..n
<1> DEFINE I == {i \in DOMAIN lrs : Contains(S, lrs[i])}
<1>1. /\ Len(lrs) \in Nat /\ DOMAIN lrs = 1..Len(lrs)
      /\ \A i, j \in 1..Len(lrs) : lrs[i] = lrs[j] => i = j
    BY StoredLists, LenProperties
<1>2. \A s : Contains(S, s) <=> s \in Known(n)
    BY ListOfTells DEF Contains
<1>3. \A i \in I : i \in 1..n
    BY <1>1, <1>2 DEF Known, Seen
<1>4. I # {}
    <2>1. PICK s \in Known(n) : TRUE
        BY ListOfTells
    <2> QED
        BY <1>1, <1>2, <2>1 DEF Known, Seen
<1>5. IsFiniteSet(I) /\ I \in SUBSET Int
    <2>1. n \in Nat /\ IsFiniteSet(1..n)
        BY <1>1, Initial
    <2>2. I \in SUBSET (1..n)
        BY <1>3
    <2> HIDE DEF I
    <2>3. IsFiniteSet(I)
        BY <2>1, <2>2, FS_Subset
    <2>4. I \subseteq Int
        BY <2>1, <2>2
    <2> QED
        BY <2>3, <2>4
<1> HIDE DEF I
<1>6. Max(I) \in I
    BY <1>4, <1>5, MaxIs
<1> QED
    BY <1>3, <1>6 DEF Cursor, I

(* ...so that a refresh misses nothing, and merging brings nothing twice.  *)
LEMMA RefreshLists ==
    ASSUME lrs \in Seq(Pool), IsInjective(lrs), NEW n \in 0..Len(lrs),
           NEW S, ListOf(S, Known(n)), S # <<>>
    PROVE  ListOf(Merged(S, Fetched(SubSeq(lrs, Cursor(S) + 1, Len(lrs)))), Known(Len(lrs)))
<1> DEFINE c == Cursor(S)
           N == Len(lrs)
           D == {lrs[i] : i \in (c + 1)..N}
           new == Fetched(SubSeq(lrs, c + 1, N))
           E == {s \in D : Queried(s)}
<1>1. N \in Nat /\ n \in 0..N /\ ListOf(lrs, Seen(N))
    BY StoredLists
<1>2. c \in 1..n
    BY CursorIs
<1> HIDE DEF c
<1>3. c + 1 \in 1..(N + 1) /\ N \in 0..N
    BY <1>1, <1>2
<1>4. ListOf(SubSeq(lrs, c + 1, N), D)
    BY <1>1, <1>3, SubLists
<1>5. ListOf(new, E)
    BY <1>4, FetchedLists
<1>6. \A i \in 1..N : i \in 1..n \/ i \in (c + 1)..N
    BY <1>1, <1>2
<1>7. \A i \in 1..n : i \in 1..N
    BY <1>1
<1>8. \A i \in (c + 1)..N : i \in 1..N
    BY <1>1, <1>2
<1>9. Known(n) \cup E = Known(N)
    BY <1>6, <1>7, <1>8 DEF Known, Seen
<1> HIDE DEF new, E
<1>10. ListOf(Merged(S, new), Known(n) \cup E)
    BY <1>5, MergedLists
<1> QED
    BY <1>9, <1>10 DEF new, c, N

-----------------------------------------------------------------------------
(* It holds initially.                                                     *)
LEMMA InitHolds ==
    Init => IndInv
<1> SUFFICES ASSUME Init PROVE IndInv
    OBVIOUS
<1>1. /\ metric \in MetricIds /\ lrs = <<>> /\ entry = NoEntry /\ shown = Value(<<>>)
    BY DEF Init
<1>2. ~entry.exists /\ entry.exists \in BOOLEAN /\ entry.statements = <<>> /\ entry.upTo = 0
    BY <1>1 DEF NoEntry
<1>3. lrs \in Seq(Pool) /\ Len(lrs) = 0 /\ IsInjective(lrs)
    BY <1>1 DEF IsInjective
<1>4. Gathered(shown, 0)
    BY <1>1, EmptyList DEF Gathered
<1> QED
    BY <1>1, <1>2, <1>3, <1>4 DEF IndInv, Held

(* Insert only adds to the end of the LRS.                                 *)
LEMMA InsertHolds ==
    ASSUME IndInv, NEW s \in Pool, Insert(s)
    PROVE  IndInv'
<1> DEFINE N == Len(lrs)
<1>1. /\ metric' = metric /\ entry' = entry /\ shown' = shown
      /\ lrs' = Append(lrs, s) /\ ~Contains(lrs, s)
    BY DEF Insert
<1>2. lrs \in Seq(Pool) /\ IsInjective(lrs) /\ N \in Nat /\ DOMAIN lrs = 1..N
    BY StoredLists, LenProperties DEF IndInv
<1>3. /\ lrs' \in Seq(Pool) /\ Len(lrs') = N + 1 /\ DOMAIN lrs' = 1..(N + 1)
      /\ \A i \in 1..N : lrs'[i] = lrs[i]
      /\ lrs'[N + 1] = s
    BY <1>1, <1>2, AppendProperties, LenProperties
<1>4. IsInjective(lrs)'
    <2> SUFFICES ASSUME NEW i \in 1..(N + 1), NEW j \in 1..(N + 1), lrs'[i] = lrs'[j]
                 PROVE  i = j
        BY <1>3 DEF IsInjective
    <2>1. \A k \in 1..N : lrs[k] # s
        BY <1>1 DEF Contains
    <2>2. \A k, l \in 1..N : lrs[k] = lrs[l] => k = l
        BY <1>2 DEF IsInjective
    <2>3. (i \in 1..N \/ i = N + 1) /\ (j \in 1..N \/ j = N + 1)
        BY <1>2
    <2> QED
        BY <1>3, <2>1, <2>2, <2>3
<1>5. \A n \in 0..N : Known(n)' = Known(n) /\ \A v : Gathered(v, n)' = Gathered(v, n)
    <2> SUFFICES ASSUME NEW n \in 0..N
                 PROVE  Known(n)' = Known(n) /\ \A v : Gathered(v, n)' = Gathered(v, n)
        OBVIOUS
    <2>1. \A i \in 1..n : lrs'[i] = lrs[i]
        BY <1>2, <1>3
    <2> QED
        BY <1>1, <2>1, KnownStays
<1>6. entry.upTo \in 0..N /\ entry.upTo \in 0..(N + 1)
    BY <1>2 DEF IndInv
<1>7. Known(entry.upTo)' = Known(entry.upTo) /\ \A S : Value(S)' = Value(S)
    BY <1>1, <1>5, <1>6, MetricStays
<1>8. Held'
    BY <1>1, <1>7 DEF IndInv, Held
<1>9. \E n \in 0..Len(lrs') : Gathered(shown, n)'
    <2>1. PICK n \in 0..N : Gathered(shown, n)
        BY DEF IndInv
    <2>2. n \in 0..(N + 1) /\ Gathered(shown, n)'
        BY <1>1, <1>2, <1>5, <2>1
    <2> QED
        BY <1>3, <2>2
<1> QED
    BY <1>1, <1>3, <1>4, <1>6, <1>8, <1>9 DEF IndInv

(* The other steps leave the LRS alone; two of them store an entry of all  *)
(* that it holds by then.                                                  *)
LEMMA EntryHolds ==
    ASSUME IndInv, metric' = metric, lrs' = lrs,
           NEW S, ListOf(S, Known(Len(lrs))), entry' = EntryOf(S), shown' = entry'.value
    PROVE  IndInv'
<1>1. lrs \in Seq(Pool) /\ Len(lrs) \in Nat
    BY StoredLists DEF IndInv
<1>2. /\ entry'.exists = TRUE /\ entry'.statements = S /\ entry'.upTo = Len(lrs)
      /\ entry'.value = Value(S) /\ shown' = Value(S)
    BY DEF EntryOf
<1>3. /\ \A n : Known(n)' = Known(n) /\ \A v : Gathered(v, n)' = Gathered(v, n)
      /\ \A T : Value(T)' = Value(T)
    BY MetricStays, KnownStays
<1>4. Held'
    BY <1>2, <1>3 DEF Held
<1>5. \E n \in 0..Len(lrs') : Gathered(shown, n)'
    <2>1. Gathered(shown', Len(lrs))
        BY <1>2 DEF Gathered
    <2>2. PICK n \in 0..Len(lrs) : n = Len(lrs)
        BY <1>1
    <2>3. Gathered(shown, n)'
        BY <1>3, <2>1, <2>2 DEF Gathered
    <2> QED
        BY <2>3
<1>6. metric' \in MetricIds /\ lrs' \in Seq(Pool) /\ (IsInjective(lrs))'
    BY DEF IndInv
<1>7. entry'.exists \in BOOLEAN /\ entry'.upTo \in 0..Len(lrs')
    <2>1. entry'.exists \in BOOLEAN
        BY <1>2
    <2>2. entry'.upTo = Len(lrs') /\ Len(lrs') \in Nat
        BY <1>1, <1>2
    <2>3. entry'.upTo \in 0..Len(lrs')
        BY <2>2
    <2> QED
        BY <2>1, <2>3
<1> QED
    BY ONLY <1>4, <1>5, <1>6, <1>7 DEF IndInv

(* ComputeMetric and RefreshCachedMetric are such steps.                   *)
LEMMA StepStores ==
    ASSUME IndInv, ComputeMetric \/ (RefreshCachedMetric /\ entry.statements # <<>>)
    PROVE  /\ metric' = metric /\ lrs' = lrs /\ shown' = entry'.value
           /\ \E S : ListOf(S, Known(Len(lrs))) /\ entry' = EntryOf(S)
<1>1. lrs \in Seq(Pool) /\ IsInjective(lrs)
    BY DEF IndInv
<1>2. CASE ComputeMetric
    <2>1. ListOf(Fetched(lrs), Known(Len(lrs)))
        BY <1>1, StoredLists
    <2> QED
        BY <1>2, <2>1 DEF ComputeMetric
<1>3. CASE RefreshCachedMetric /\ entry.statements # <<>>
    <2> DEFINE T == entry.statements
               S == Merged(T, Fetched(SubSeq(lrs, Cursor(T) + 1, Len(lrs))))
    <2>1. entry' = EntryOf(S) /\ entry.exists
          /\ metric' = metric /\ lrs' = lrs /\ shown' = entry'.value
        BY <1>3 DEF RefreshCachedMetric
    <2>2. ListOf(T, Known(entry.upTo)) /\ entry.upTo \in 0..Len(lrs)
        BY <2>1 DEF IndInv, Held
    <2>3. ListOf(S, Known(Len(lrs)))
        BY <1>1, <1>3, <2>2, RefreshLists
    <2> QED
        BY <2>1, <2>3
<1> QED
    BY <1>2, <1>3

(* The rest of the steps change neither the LRS nor what is shown.         *)
LEMMA StepKeeps ==
    ASSUME IndInv,
           \/ RefreshCachedMetric /\ entry.statements = <<>>
           \/ Drop
           \/ UNCHANGED vars
    PROVE  /\ metric' = metric /\ lrs' = lrs /\ shown' = shown
           /\ entry' = entry \/ entry' = NoEntry
<1>1. CASE RefreshCachedMetric /\ entry.statements = <<>>
    BY <1>1 DEF RefreshCachedMetric, IndInv, Held
<1> QED
    BY <1>1 DEF Drop, vars

(* An entry that is kept or dropped.                                       *)
LEMMA KeptHolds ==
    ASSUME IndInv, metric' = metric, lrs' = lrs, shown' = shown,
           entry' = entry \/ entry' = NoEntry
    PROVE  IndInv'
<1>1. lrs \in Seq(Pool) /\ Len(lrs) \in Nat /\ (IsInjective(lrs))'
    BY StoredLists DEF IndInv
<1>2. /\ \A n : Known(n)' = Known(n) /\ \A v : Gathered(v, n)' = Gathered(v, n)
      /\ \A T : Value(T)' = Value(T)
    BY MetricStays, KnownStays
<1>3. \E n \in 0..Len(lrs') : Gathered(shown, n)'
    BY <1>2 DEF IndInv
<1>4. /\ entry'.exists \in BOOLEAN /\ entry'.upTo \in 0..Len(lrs)
      /\ Held'
    <2>1. CASE entry' = entry
        <3>1. Known(entry.upTo)' = Known(entry.upTo)
            BY <1>2, <2>1
        <3> QED
            BY <1>2, <2>1, <3>1 DEF IndInv, Held
    <2>2. CASE entry' = NoEntry
        BY <1>1, <2>2 DEF NoEntry, Held
    <2> QED
        BY <2>1, <2>2
<1> QED
    BY <1>1, <1>3, <1>4 DEF IndInv

(* So every step keeps the invariant.                                      *)
LEMMA NextHolds ==
    IndInv /\ [Next]_vars => IndInv'
<1> SUFFICES ASSUME IndInv, [Next]_vars PROVE IndInv'
    OBVIOUS
<1>1. CASE \E s \in Pool : Insert(s)
    BY <1>1, InsertHolds
<1>2. CASE ComputeMetric \/ (RefreshCachedMetric /\ entry.statements # <<>>)
    BY <1>2, StepStores, EntryHolds
<1>3. CASE \/ RefreshCachedMetric /\ entry.statements = <<>>
           \/ Drop
           \/ UNCHANGED vars
    BY <1>3, StepKeeps, KeptHolds
<1> QED
    BY <1>1, <1>2, <1>3 DEF Next

(* The service holds, at any time, a list of exactly the queried           *)
(* statements that the LRS had at some earlier time, in some order, and    *)
(* has shown the value of such a list.                                     *)
THEOREM Invariance == Spec => []IndInv
    BY InitHolds, NextHolds, PTL DEF Spec

-----------------------------------------------------------------------------
(* What is shown next was computed from no fewer statements.               *)
LEMMA StepNotLess ==
    ASSUME IndInv, [Next]_vars
    PROVE  NotLess(shown, shown')
<1>1. lrs \in Seq(Pool) /\ IsInjective(lrs) /\ metric \in MetricIds
    BY DEF IndInv
<1>2. PICK n \in 0..Len(lrs) : Gathered(shown, n)
    BY DEF IndInv
<1>3. PICK S : ListOf(S, Known(n)) /\ shown = Value(S)
    BY <1>2 DEF Gathered
<1>4. Known(n) \subseteq Pool /\ Known(n) \subseteq Known(Len(lrs))
    BY <1>1, PrefixLists
<1>5. CASE shown' = shown
    BY <1>1, <1>3, <1>4, <1>5, MoreIsNotLess
<1>6. CASE ComputeMetric \/ (RefreshCachedMetric /\ entry.statements # <<>>)
    <2>1. PICK T : ListOf(T, Known(Len(lrs))) /\ entry' = EntryOf(T) /\ shown' = entry'.value
        BY <1>6, StepStores
    <2>2. shown' = Value(T)
        BY <2>1 DEF EntryOf
    <2>3. Known(Len(lrs)) \subseteq Pool
        <3>1. Len(lrs) \in Nat /\ \A i \in 1..Len(lrs) : lrs[i] \in Pool
            BY <1>1, StoredLists
        <3> QED
            BY <3>1 DEF Known, Seen
    <2> QED
        BY <1>1, <1>3, <1>4, <2>1, <2>2, <2>3, MoreIsNotLess
<1>7. CASE \E s \in Pool : Insert(s)
    BY <1>5, <1>7 DEF Insert
<1>8. CASE \/ RefreshCachedMetric /\ entry.statements = <<>>
           \/ Drop
           \/ UNCHANGED vars
    BY <1>5, <1>8, StepKeeps
<1> QED
    BY <1>6, <1>7, <1>8 DEF Next

(* Whatever is cached, merged, dropped and fetched again, a learner's      *)
(* scores, maxima and times do not fall from one answer to the next,       *)
(* nothing disappears, and the last elements do not go back in time, as    *)
(* long as the LRS has no more statements than a query returns.            *)
THEOREM NothingIsLost == Spec => NeverDecreases
<1>1. IndInv /\ [Next]_vars => NotLess(shown, shown')
    BY StepNotLess
<1>2. IndInv /\ [Next]_vars => [NotLess(shown, shown')]_vars
    BY <1>1
<1> QED
    BY <1>2, Invariance, PTL DEF Spec, NeverDecreases

(* The two lists that IncrementalIsFull compares have the same members.    *)
LEMMA HeldList ==
    ASSUME IndInv, entry.exists
    PROVE  /\ ListOf(entry.statements, Known(entry.upTo))
           /\ entry.value = Value(entry.statements)
           /\ ListOf(Fetched(KnownToEntry), Known(entry.upTo))
           /\ Known(entry.upTo) \subseteq Pool
<1>1. /\ lrs \in Seq(Pool) /\ IsInjective(lrs)
      /\ entry.upTo \in 0..Len(lrs) /\ Held
    BY DEF IndInv
<1>2. /\ ListOf(Fetched(SubSeq(lrs, 1, entry.upTo)), Known(entry.upTo))
      /\ Known(entry.upTo) \subseteq Pool
    BY <1>1, PrefixLists
<1> QED
    BY <1>1, <1>2 DEF Held, KnownToEntry

(* Hence the same value.                                                   *)
LEMMA FullIfIncremental ==
    ASSUME IndInv, TimesDiffer \/ metric \in Summed
    PROVE  IncrementalIsFull
<1> SUFFICES ASSUME entry.exists
             PROVE  SameValue(entry.value, Value(Fetched(KnownToEntry)))
    BY DEF IncrementalIsFull
<1>1. metric \in MetricIds
    BY DEF IndInv
<1> QED
    BY <1>1, HeldList, OrderIsNoMatter

(* REQ-FN-030: an entry's value is that of one full fetch of what it has   *)
(* seen. For scores, maxima and times this holds of any statements; the    *)
(* best attempts and last elements need times that differ, since the sort  *)
(* falls back on the order of the list, which merging changes.             *)
THEOREM RefreshesAreFullFetches ==
    /\ Spec => [](metric \in Summed => IncrementalIsFull)
    /\ TimesDiffer => (Spec => []IncrementalIsFull)
<1>1. IndInv => (metric \in Summed => IncrementalIsFull)
    BY FullIfIncremental
<1>2. Spec => [](metric \in Summed => IncrementalIsFull)
    BY <1>1, Invariance, PTL
<1>3. ASSUME TimesDiffer PROVE Spec => []IncrementalIsFull
    <2>1. IndInv => IncrementalIsFull
        BY <1>3, FullIfIncremental
    <2> QED
        BY <2>1, Invariance, PTL
<1> QED
    BY <1>2, <1>3

-----------------------------------------------------------------------------
(* What is shown was computed from some of what a full fetch finds.        *)
LEMMA WithinIfBounded ==
    ASSUME IndInv, ScoresBounded
    PROVE  ScoresWithinMaximum
<1> DEFINE K == Known(Len(lrs))
           maximum == Compute(MaximumOf[metric], Params, Fetched(lrs))
<1> SUFFICES ASSUME metric \in ScoreMetrics, NEW g \in DOMAIN shown, shown[g] > 0
             PROVE  g \in DOMAIN maximum /\ shown[g] <= maximum[g]
    BY DEF ScoresWithinMaximum
<1>1. lrs \in Seq(Pool) /\ IsInjective(lrs)
    BY DEF IndInv
<1>2. PICK n \in 0..Len(lrs) : Gathered(shown, n)
    BY DEF IndInv
<1>3. PICK S : ListOf(S, Known(n)) /\ shown = Value(S)
    BY <1>2 DEF Gathered
<1>4. Known(n) \subseteq K /\ Known(n) \subseteq Pool
    BY <1>1, PrefixLists
<1>5. K \subseteq Pool /\ ListOf(Fetched(lrs), K)
    <2>1. Len(lrs) \in 0..Len(lrs)
        BY <1>1, StoredLists
    <2> QED
        BY <1>1, <2>1, PrefixLists, StoredLists
<1> HIDE DEF K
<1>6. shown = ScoresOf(metric, Known(n), Params)
    BY <1>3, <1>4, ValueIs
<1>7. maximum = MaximaOf(MaximumOf[metric], K, Params)
    <2>1. MaximumOf[metric] \in MaxMetrics
        BY DEF MaximumOf, MaxMetrics
    <2>2. maximum = MaxScores(MaximumOf[metric], Fetched(lrs), Params)
        BY <2>1, ComputeIs
    <2> QED
        BY <1>5, <2>2, MaxScoresAre
<1> HIDE DEF maximum
<1>8. /\ g \in DOMAIN ScoresOf(metric, Known(n), Params)
      /\ ScoresOf(metric, Known(n), Params)[g] > 0
    BY <1>6
<1>9. /\ g \in DOMAIN MaximaOf(MaximumOf[metric], K, Params)
      /\ ScoresOf(metric, Known(n), Params)[g] <= MaximaOf(MaximumOf[metric], K, Params)[g]
    BY <1>4, <1>5, <1>8, ScoresStayWithin
<1> QED
    BY <1>6, <1>7, <1>9

(* No score of a course or topic exceeds its maximum, which another        *)
(* provider computes, if no statement's does.                              *)
THEOREM ScoresStayBelowMaximum == ScoresBounded => (Spec => []ScoresWithinMaximum)
<1> SUFFICES ASSUME ScoresBounded PROVE Spec => []ScoresWithinMaximum
    OBVIOUS
<1>1. IndInv => ScoresWithinMaximum
    BY WithinIfBounded
<1> QED
    BY <1>1, Invariance, PTL

-----------------------------------------------------------------------------
(* The last elements, and that they are at most three.                     *)

LEMMA LastsCount ==
    ASSUME NEW Q, NEW list, ListOf(list, Q)
    PROVE  /\ Len(list) \in Nat /\ list \in Seq(Q)
           /\ \A i \in 1..Len(list) : list[i] \in Q
           /\ \A c \in Q : \E i \in 1..Len(list) : list[i] = c
           /\ \A i, j \in 1..Len(list) : list[i] = list[j] => i = j
    BY ListOfTells DEF ListOf

(* The list is the head of the sorted latest completions.                  *)
LEMMA LatestIfLast ==
    ASSUME IndInv, TimesDiffer
    PROVE  LastElementsAreLatest
<1> SUFFICES ASSUME entry.exists, metric \in {"topic-last-elements", "user-last-elements"}
             PROVE  LET top == entry.value
                        counted == CountedAs(Fetched(KnownToEntry))
                        listed == {top[i].elementId : i \in DOMAIN top}
                    IN  /\ Cardinality(listed) = Len(top)
                        /\ \A i \in DOMAIN top :
                              top[i].completedAt = LatestOf(top[i].elementId, counted)
                        /\ \A i, j \in DOMAIN top :
                              i < j => top[i].completedAt > top[j].completedAt
                        /\ \A s \in counted :
                              \/ s.object \in listed
                              \/ /\ Len(top) = 3
                                 /\ s.time < top[3].completedAt
    BY DEF LastElementsAreLatest
<1> DEFINE C == Known(entry.upTo)
           S == entry.statements
           D == Finished(metric, C, Params)
           Q == LastsOf(D)
           list == InOrder(Q, Later(Q))
           top == entry.value
           listed == {top[i].elementId : i \in DOMAIN top}
<1>1. ListOf(S, C) /\ C \subseteq Pool /\ ListOf(Fetched(KnownToEntry), C) /\ top = Value(S)
    BY HeldList
<1>2. CountedAs(Fetched(KnownToEntry)) = D
    BY <1>1 DEF CountedAs, Finished, ListOf
<1>3. top = LastCompleted(metric, S, Params)
    BY <1>1, ValueIs
<1>4. /\ top = TopThree(list) /\ ListOf(list, Q) /\ ListsBy(list, Q, Later(Q))
    BY <1>1, <1>3, LastCompletedIs
<1>5. D \subseteq Pool
    BY <1>1 DEF Finished
<1> HIDE DEF C, S, D, top, list
<1> DEFINE N == Len(list)
           M == Len(top)
<1>6. /\ N \in Nat /\ list \in Seq(Q)
      /\ \A i \in 1..N : list[i] \in Q
      /\ \A c \in Q : \E i \in 1..N : list[i] = c
      /\ \A i, j \in 1..N : list[i] = list[j] => i = j
    BY <1>4, LastsCount
<1>7. /\ M = (IF N < 3 THEN N ELSE 3) /\ DOMAIN top = 1..M
      /\ \A i \in 1..M : i \in 1..N /\ top[i] = list[i]
    <2>1. list \in Seq(Q)
        BY <1>6
    <2>2. /\ Len(TopThree(list)) = IF Len(list) < 3 THEN Len(list) ELSE 3
          /\ DOMAIN TopThree(list) = 1..Len(TopThree(list))
          /\ \A i \in 1..Len(TopThree(list)) : i \in 1..Len(list) /\ TopThree(list)[i] = list[i]
        BY <2>1, TopThreeIs
    <2> QED
        BY <1>4, <2>2
<1>8. M \in Nat
    <2>1. N \in Nat
        BY <1>6
    <2>2. M = N \/ M = 3
        BY <1>7
    <2> HIDE DEF M, N
    <2> QED
        BY <2>1, <2>2
<1>9. \A c \in Q : /\ c.completedAt \in Nat
                   /\ c.completedAt = LatestOf(c.elementId, D)
                   /\ c = [elementId |-> c.elementId, completedAt |-> LatestOf(c.elementId, D)]
    BY <1>5, LastsTell
<1>10. \A i, j \in 1..N : i < j => list[i].completedAt > list[j].completedAt
    <2>1. Cardinality(Q) = N
        BY <1>4, ListOfTells
    <2>2. \A i, j \in 1..N : i < j <=> <<list[i], list[j]>> \in Later(Q)
        BY <1>4, <2>1 DEF ListsBy
    <2> QED
        BY <2>2 DEF Later
<1> HIDE DEF Q, N, M
<1>11. Cardinality(listed) = M
    <2> DEFINE f == [i \in 1..M |-> top[i].elementId]
    <2>1. IsFiniteSet(1..M) /\ Cardinality(1..M) = M
        BY <1>8, Initial
    <2>2. f \in Surjection(1..M, listed)
        BY <1>7 DEF Surjection
    <2>3. ASSUME NEW i \in 1..M, NEW j \in 1..M, f[i] = f[j]
          PROVE  i = j
        <3>1. top[i].elementId = top[j].elementId /\ top[i] = list[i] /\ top[j] = list[j]
            BY <1>7, <2>3
        <3>2. list[i] \in Q /\ list[j] \in Q
            BY <1>6, <1>7
        <3>3. list[i] = list[j]
            BY <1>9, <3>1, <3>2
        <3> QED
            BY <1>6, <1>7, <3>3
    <2> HIDE DEF f, listed
    <2>4. f \in Injection(1..M, listed)
        BY <2>2, <2>3 DEF Surjection, Injection, IsInjective
    <2> QED
        BY <2>1, <2>2, <2>4, FS_Surjection
<1>12. \A i \in 1..M : top[i].completedAt = LatestOf(top[i].elementId, D)
    BY <1>6, <1>7, <1>9
<1>13. \A i, j \in 1..M : i < j => top[i].completedAt > top[j].completedAt
    BY <1>7, <1>10
<1>14. ASSUME NEW s \in D, s.object \notin listed
       PROVE  M = 3 /\ s.time < top[3].completedAt
    <2> DEFINE e == s.object
               c == [elementId |-> e, completedAt |-> LatestOf(e, D)]
    <2>1. c \in Q /\ c.elementId = e /\ c.completedAt = LatestOf(e, D)
        BY DEF Q, LastsOf
    <2>2. s \in On(D, e)
        BY DEF On
    <2> HIDE DEF c, e
    <2>3. s.time <= c.completedAt /\ s.time \in Nat
        <3>1. s.time <= LatestOf(e, D)
            BY <1>5, <2>2, LatestOfIs
        <3>2. s.time \in Nat
            BY <1>5, PoolRecorded DEF Recorded
        <3> QED
            BY <2>1, <3>1, <3>2
    <2>4. PICK k \in 1..N : list[k] = c
        BY <1>6, <2>1
    <2>5. ~(k \in 1..M)
        <3> SUFFICES ASSUME k \in 1..M PROVE FALSE
            OBVIOUS
        <3>1. top[k].elementId = e
            BY <1>7, <2>1, <2>4
        <3> QED
            BY <1>7, <1>14, <3>1 DEF e
    <2>6. M = 3 /\ 3 < k /\ 3 \in 1..N /\ 3 \in 1..M
        BY <1>6, <1>7, <1>8, <2>5
    <2>7. c.completedAt < list[3].completedAt
        BY <1>10, <2>4, <2>6
    <2>8. top[3] = list[3] /\ list[3].completedAt \in Nat /\ c.completedAt \in Nat
        BY <1>6, <1>7, <1>9, <2>1, <2>6
    <2> QED
        BY <2>3, <2>6, <2>7, <2>8
<1> QED
    BY <1>2, <1>7, <1>11, <1>12, <1>13, <1>14 DEF M, top

(* The last elements shown are different elements with their latest        *)
(* completions, in order, and no later one is left out, if no two          *)
(* statements have the same time.                                          *)
THEOREM LastElementsStayLatest == TimesDiffer => (Spec => []LastElementsAreLatest)
<1> SUFFICES ASSUME TimesDiffer PROVE Spec => []LastElementsAreLatest
    OBVIOUS
<1>1. IndInv => LastElementsAreLatest
    BY LatestIfLast
<1> QED
    BY <1>1, Invariance, PTL

-----------------------------------------------------------------------------
(* A list of last elements has at most three.                              *)
LEMMA AtMostThree ==
    ASSUME NEW C, C \subseteq Pool, NEW S, ListOf(S, C), metric \in LastElements
    PROVE  Len(Value(S)) <= 3
<1>1. CASE metric = "course-last-elements"
    <2> DEFINE A == At(S, {i \in DOMAIN S : S[i].verb \in CompletionVerbs /\ S[i].time # 0})
               list == [i \in DOMAIN A |-> Completion(A[i])]
               All == CompletionsOf(Pool)
    <2>1. ListOf(A, Passed(C)) /\ CourseLastElements(S) = TopThree(Latest(list))
        BY PassedLists
    <2>2. Passed(C) \subseteq Pool
        BY DEF Passed
    <2> HIDE DEF A
    <2>3. Len(A) \in Nat /\ DOMAIN A = 1..Len(A) /\ \A i \in 1..Len(A) : A[i] \in Passed(C)
        BY <2>1, ListOfTells
    <2>4. list \in Seq(All)
        <3>1. \A i \in 1..Len(A) : Completion(A[i]) \in All
            BY <2>2, <2>3 DEF CompletionsOf
        <3>2. list \in [1..Len(A) -> All]
            BY <2>3, <3>1
        <3> HIDE DEF list
        <3> QED
            BY <2>3, <3>2, SeqDef
    <2>5. \A c \in All : c.completedAt \in Nat
        BY PoolRecorded DEF CompletionsOf, Completion, Recorded
    <2> HIDE DEF list, All
    <2>6. Latest(list) \in Seq(All)
        BY <2>4, <2>5, LatestSorts
    <2>7. Len(Latest(list)) \in Nat
          /\ Len(TopThree(Latest(list))) = IF Len(Latest(list)) < 3 THEN Len(Latest(list)) ELSE 3
        BY <2>6, TopThreeIs, LenProperties
    <2>8. Value(S) = CourseLastElements(S)
        BY <1>1, ValueIs
    <2>9. Len(TopThree(Latest(list))) <= 3
        BY <2>7
    <2> QED
        BY <2>1, <2>8, <2>9
<1>2. CASE metric \in {"topic-last-elements", "user-last-elements"}
    <2> DEFINE D == Finished(metric, C, Params)
               A == At(S, {i \in DOMAIN S : Counts(metric, S[i], Params)})
               list == LatestPerElement(A)
               Q == LastsOf(D)
    <2>1. ListOf(A, D) /\ LastCompleted(metric, S, Params) = TopThree(Latest(list))
        BY FinishedLists DEF LastCompleted
    <2>2. D \subseteq Pool
        BY DEF Finished
    <2> HIDE DEF A, D
    <2>3. list \in Seq(Q) /\ \A c \in Q : c.completedAt \in Nat
        BY <2>1, <2>2, LastsList, LastsTell DEF ListOf
    <2> HIDE DEF list, Q
    <2>4. Latest(list) \in Seq(Q)
        BY <2>3, LatestSorts
    <2>5. Len(Latest(list)) \in Nat
          /\ Len(TopThree(Latest(list))) = IF Len(Latest(list)) < 3 THEN Len(Latest(list)) ELSE 3
        BY <2>4, TopThreeIs, LenProperties
    <2>6. Value(S) = LastCompleted(metric, S, Params)
        BY <1>2, ValueIs
    <2>7. Len(TopThree(Latest(list))) <= 3
        BY <2>5
    <2> QED
        BY <2>1, <2>6, <2>7
<1> QED
    BY <1>1, <1>2 DEF LastElements

(* The invariant implies the type invariant.                               *)
LEMMA Typed ==
    ASSUME IndInv
    PROVE  TypeOK
<1>1. /\ metric \in MetricIds /\ lrs \in Seq(Pool) /\ IsInjective(lrs)
      /\ entry.exists \in BOOLEAN /\ entry.upTo \in 0..Len(lrs) /\ Held
    BY DEF IndInv
<1>2. ListOf(lrs, Seen(Len(lrs))) /\ \A i \in 1..Len(lrs) : lrs[i] \in Pool
    BY <1>1, StoredLists
<1>3. ToSet(lrs) \subseteq Pool
    BY <1>2 DEF ListOf, Seen
<1>4. ToSet(entry.statements) \subseteq ToSet(lrs) /\ IsInjective(entry.statements)
    <2>1. CASE entry.exists
        <3>1. ListOf(entry.statements, Known(entry.upTo))
            BY <1>1, <2>1 DEF Held
        <3>2. Known(entry.upTo) \subseteq Known(Len(lrs))
            BY <1>1, PrefixLists
        <3> QED
            BY <1>2, <3>1, <3>2 DEF ListOf, Known
    <2>2. CASE ~entry.exists
        <3>1. entry.statements = <<>>
            BY <1>1, <2>2 DEF Held
        <3> QED
            BY <3>1, EmptyList DEF ListOf
    <2> QED
        BY <1>1, <2>1, <2>2
<1>5. metric \in LastElements => Len(shown) <= 3
    <2>1. PICK n \in 0..Len(lrs) : Gathered(shown, n)
        BY DEF IndInv
    <2>2. PICK S : ListOf(S, Known(n)) /\ shown = Value(S)
        BY <2>1 DEF Gathered
    <2>3. Known(n) \subseteq Pool
        BY <1>1, PrefixLists
    <2> QED
        BY <2>2, <2>3, AtMostThree
<1> QED
    BY <1>1, <1>3, <1>4, <1>5 DEF TypeOK

(* Every variable has its type, nothing is held twice, and at most three   *)
(* last elements are shown.                                                *)
THEOREM TypeCorrect == Spec => []TypeOK
<1>1. IndInv => TypeOK
    BY Typed
<1> QED
    BY <1>1, Invariance, PTL

===============================================================================
