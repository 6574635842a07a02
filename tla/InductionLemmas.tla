-------------------------- MODULE InductionLemmas --------------------------
(***************************************************************************)
(* Facts that the proofs about several components need: induction and      *)
(* recursion over the naturals, stated with sets and functions so that the *)
(* provers can instantiate them, the least element of a set, the numbers   *)
(* of a finite set in ascending order, which is how getOnePosition of      *)
(* Bitmap lists its bits and a LinkList its positions, and division.       *)
(***************************************************************************)
EXTENDS Integers, Sequences, FiniteSets, SequencesExt,
        FiniteSetTheorems, FunctionTheorems, WellFoundedInduction, TLAPS

-----------------------------------------------------------------------------
(* Induction and recursion.                                                *)

\* A nonempty set of naturals has a least element.
LEMMA LeastElement ==
    ASSUME NEW S \in SUBSET Nat, S # {}
    PROVE  \E x \in S : \A y \in S : x <= y
<1>1. PICK x \in S : \A y \in S : ~(<<y, x>> \in OpToRel(<, Nat))
  BY WFMin, NatLessThanWellFounded, Zenon
<1>2. \A y \in S : ~(y < x)
  BY <1>1 DEF OpToRel
<1>. QED  BY <1>2

\* So has one of integers that is bounded below, and Min is it.
LEMMA MinIsLeast ==
    ASSUME NEW S \in SUBSET Nat, S # {}
    PROVE  Min(S) \in S /\ \A y \in S : Min(S) <= y
BY LeastElement DEF Min

\* What holds of 0 and of the successor of each number that it holds of, up to
\* n, holds of every number up to n.
LEMMA Climb ==
    ASSUME NEW n \in Nat, NEW S, 0 \in S,
           \A i \in 0 .. n - 1 : i \in S => i + 1 \in S
    PROVE  0 .. n \subseteq S
<1> SUFFICES ASSUME ~(0 .. n \subseteq S) PROVE FALSE
  OBVIOUS
<1> DEFINE T == (0 .. n) \ S
<1>1. PICK x \in T : \A y \in T : x <= y
  <2>1. T \in SUBSET Nat /\ T # {}
    OBVIOUS
  <2> HIDE DEF T
  <2>. QED  BY <2>1, LeastElement
<1>2. x # 0 /\ x - 1 \in 0 .. n - 1 /\ x - 1 \in S
  BY <1>1
<1>. QED  BY <1>2

\* The functions that begin with a and continue by the function step.
Recursions(n, D, a, step) ==
  {f \in [0 .. n -> D] : f[0] = a /\ \A i \in 1 .. n : f[i] = step[<<i, f[i - 1]>>]}

\* A recursion over the numbers up to n that stays in D has a solution.
LEMMA RecursionExists ==
    ASSUME NEW n \in Nat, NEW D, NEW a \in D, NEW step \in [(1 .. n) \X D -> D]
    PROVE  Recursions(n, D, a, step) # {}
<1> DEFINE Solves(f, m) == f[0] = a /\ \A i \in 1 .. m : f[i] = step[<<i, f[i - 1]>>]
           S == {m \in 0 .. n : \E f \in [0 .. n -> D] : Solves(f, m)}
<1>1. 0 \in S
  <2> DEFINE f == [i \in 0 .. n |-> a]
  <2>1. f \in [0 .. n -> D] /\ Solves(f, 0)
    OBVIOUS
  <2> HIDE DEF f, Solves
  <2>. QED  BY <2>1
<1>2. ASSUME NEW m \in 0 .. n - 1, m \in S PROVE m + 1 \in S
  <2>1. PICK f \in [0 .. n -> D] : Solves(f, m)
    BY <1>2
  <2> DEFINE g == [f EXCEPT ![m + 1] = step[<<m + 1, f[m]>>]]
  <2>2. m \in 0 .. n /\ m + 1 \in 1 .. n /\ f[m] \in D
    OBVIOUS
  <2>3. step[<<m + 1, f[m]>>] \in D
    BY <2>2
  <2>4. g \in [0 .. n -> D]
    BY <2>3
  <2>5. g[0] = a
    BY <2>1
  <2>6. \A i \in 1 .. m + 1 : g[i] = step[<<i, g[i - 1]>>]
    <3> TAKE i \in 1 .. m + 1
    <3>1. CASE i = m + 1
      BY <3>1, <2>2
    <3>2. CASE i # m + 1
      BY <3>2, <2>1
    <3>. QED  BY <3>1, <3>2
  <2>7. Solves(g, m + 1)
    BY <2>5, <2>6
  <2> HIDE DEF g, Solves
  <2>. QED  BY <2>4, <2>7
<1>3. n \in S
  <2>1. \A m \in 0 .. n - 1 : m \in S => m + 1 \in S
    BY <1>2
  <2> HIDE DEF S
  <2>2. 0 .. n \subseteq S
    BY <1>1, <2>1, Climb, Zenon
  <2>. QED  BY <2>2
<1>. QED  BY <1>3 DEF Recursions

\* The first sequences of a sequence of sequences, joined one after the other.
Flattenings(s, X) ==
  {f \in [1 .. Len(s) -> Seq(X)] :
     f[1] = s[1] /\ \A i \in 2 .. Len(s) : f[i] = f[i - 1] \o s[i]}

\* FlattenSeq joins them all.
LEMMA FlattenBy ==
    ASSUME NEW X, NEW s \in Seq(Seq(X)), s # <<>>
    PROVE  \E f \in Flattenings(s, X) : FlattenSeq(s) = f[Len(s)]
<1> DEFINE N == Len(s)
           step == [x \in (1 .. N) \X Seq(X) |-> x[2] \o s[x[1]]]
<1>1. N \in Nat /\ N # 0 /\ \A i \in 1 .. N : s[i] \in Seq(X)
  OBVIOUS
<1>2. <<>> \in Seq(X)
  OBVIOUS
<1>3. step \in [(1 .. N) \X Seq(X) -> Seq(X)]
  <2> SUFFICES ASSUME NEW i \in 1 .. N, NEW e \in Seq(X) PROVE e \o s[i] \in Seq(X)
    OBVIOUS
  <2>1. s[i] \in Seq(X)
    BY <1>1
  <2>. QED  BY <2>1
<1>4. PICK g \in Recursions(N, Seq(X), <<>>, step) : TRUE
  <2> HIDE DEF N, step
  <2>. QED  BY <1>1, <1>2, <1>3, RecursionExists
<1>5. g \in [0 .. N -> Seq(X)] /\ g[0] = <<>> /\ \A i \in 1 .. N : g[i] = step[<<i, g[i - 1]>>]
  <2> HIDE DEF N, step
  <2>. QED  BY <1>4 DEF Recursions
<1>6. \A i \in 1 .. N : i - 1 \in 0 .. N /\ g[i - 1] \in Seq(X)
  <2>1. \A i \in 1 .. N : i - 1 \in 0 .. N
    BY <1>1
  <2> HIDE DEF N, step
  <2>. QED  BY <1>5, <2>1
<1>7. \A i \in 1 .. N, e \in Seq(X) : step[<<i, e>>] = e \o s[i]
  <2> HIDE DEF N
  <2>. QED  OBVIOUS
<1> HIDE DEF step
<1>8. \A i \in 1 .. N : g[i] = g[i - 1] \o s[i]
  <2> HIDE DEF N
  <2>. QED  BY <1>5, <1>6, <1>7
<1> DEFINE f == [i \in 1 .. N |-> g[i]]
<1>9. f \in [1 .. N -> Seq(X)] /\ \A i \in 1 .. N : f[i] = g[i]
  BY <1>1, <1>5
<1> HIDE DEF f
<1>10. f[1] = s[1]
  <2>1. 1 \in 1 .. N /\ 1 - 1 = 0
    BY <1>1
  <2>2. f[1] = g[0] \o s[1]
    <3> HIDE DEF N
    <3>. QED  BY <1>8, <1>9, <2>1
  <2>3. g[0] = <<>> /\ s[1] \in Seq(X)
    BY <1>1, <1>5, <2>1
  <2>4. \A e \in Seq(X) : <<>> \o e = e
    OBVIOUS
  <2>. QED  BY <2>2, <2>3, <2>4, Zenon
<1>11. \A i \in 2 .. N : i \in 1 .. N /\ i - 1 \in 1 .. N /\ i # 1
  BY <1>1
<1>12. \A i \in 2 .. N : f[i] = f[i - 1] \o s[i]
  <2> HIDE DEF N
  <2>. QED  BY <1>8, <1>9, <1>11, Zenon
<1>13. f \in Flattenings(s, X)
  <2>1. f \in [1 .. Len(s) -> Seq(X)]
    BY <1>9
  <2>2. \A i \in 2 .. Len(s) : f[i] = f[i - 1] \o s[i]
    BY <1>12
  <2>. QED  BY <1>10, <2>1, <2>2, Zenon DEF Flattenings
\* It is what the recursion of FlattenSeq computes.
<1> DEFINE flatten == CHOOSE h : h = [i \in 1 .. N |-> IF i = 1 THEN s[i] ELSE h[i - 1] \o s[i]]
<1>14. f = [i \in 1 .. N |-> IF i = 1 THEN s[i] ELSE f[i - 1] \o s[i]]
  <2>1. \A i \in 1 .. N : i # 1 => i \in 2 .. N
    BY <1>1
  <2>2. \A i \in 1 .. N : f[i] = IF i = 1 THEN s[i] ELSE f[i - 1] \o s[i]
    <3> HIDE DEF N
    <3>. QED  BY <1>10, <1>12, <2>1, Zenon
  <2> HIDE DEF N
  <2>. QED  BY <1>9, <2>2
<1>15. flatten = [i \in 1 .. N |-> IF i = 1 THEN s[i] ELSE flatten[i - 1] \o s[i]]
  <2> HIDE DEF N
  <2>. QED  BY <1>14
<1>16. FlattenSeq(s) = flatten[N]
  BY <1>1 DEF FlattenSeq
<1> HIDE DEF flatten
<1> DEFINE R == {i \in 0 .. N : i = 0 \/ flatten[i] = f[i]}
<1>17. 0 .. N \subseteq R
  <2>1. 0 \in R
    BY <1>1
  <2>2. ASSUME NEW i \in 0 .. N - 1, i \in R PROVE i + 1 \in R
    <3>1. i + 1 \in 1 .. N /\ i + 1 \in 0 .. N /\ (i + 1) - 1 = i /\ (i + 1 = 1 <=> i = 0)
      BY <1>1
    <3>2. flatten[i + 1] = IF i + 1 = 1 THEN s[i + 1] ELSE flatten[(i + 1) - 1] \o s[i + 1]
      <4> HIDE DEF N
      <4>. QED  BY <1>15, <3>1, Zenon
    <3>3. f[i + 1] = IF i + 1 = 1 THEN s[i + 1] ELSE f[(i + 1) - 1] \o s[i + 1]
      <4> HIDE DEF N
      <4>. QED  BY <1>14, <3>1, Zenon
    <3>4. i = 0 \/ flatten[i] = f[i]
      BY <2>2
    <3> HIDE DEF N
    <3>5. flatten[i + 1] = f[i + 1]
      BY <3>1, <3>2, <3>3, <3>4, Zenon
    <3>. QED  BY <3>1, <3>5
  <2> HIDE DEF R, N
  <2>. QED  BY <1>1, <2>1, <2>2, Climb
<1>18. flatten[N] = f[N]
  <2>1. N \in 0 .. N
    BY <1>1
  <2>2. N \in R
    BY <1>17, <2>1
  <2>. QED  BY <1>1, <2>2
<1>. QED  BY <1>13, <1>16, <1>18

LEMMA FlattenEmpty == FlattenSeq(<<>>) = <<>>
BY DEF FlattenSeq

LEMMA JoinedElements ==
    ASSUME NEW X, NEW s \in Seq(X), NEW t \in Seq(X)
    PROVE  ToSet(s \o t) = ToSet(s) \cup ToSet(t)
<1> DEFINE u == s \o t
<1>1. /\ Len(s) \in Nat /\ Len(t) \in Nat /\ Len(u) = Len(s) + Len(t) /\ u \in Seq(X)
      /\ \A i \in 1 .. Len(s) : u[i] = s[i]
      /\ \A i \in 1 .. Len(t) : u[Len(s) + i] = t[i]
  OBVIOUS
<1> HIDE DEF u
<1>2. ToSet(u) = {u[i] : i \in 1 .. Len(u)}
  <2>1. DOMAIN u = 1 .. Len(u)
    BY <1>1
  <2>. QED  BY <2>1, Zenon DEF ToSet
<1>3. ToSet(s) = {s[i] : i \in 1 .. Len(s)} /\ ToSet(t) = {t[i] : i \in 1 .. Len(t)}
  <2>1. DOMAIN s = 1 .. Len(s) /\ DOMAIN t = 1 .. Len(t)
    OBVIOUS
  <2>. QED  BY <2>1, Zenon DEF ToSet
<1>4. ASSUME NEW i \in 1 .. Len(u) PROVE u[i] \in ToSet(s) \cup ToSet(t)
  <2>1. CASE i \in 1 .. Len(s)
    BY <1>1, <1>3, <2>1
  <2>2. CASE i \notin 1 .. Len(s)
    <3>1. i - Len(s) \in 1 .. Len(t) /\ Len(s) + (i - Len(s)) = i
      BY <1>1, <2>2
    <3>2. u[i] = t[i - Len(s)]
      <4> DEFINE j == i - Len(s)
      <4> HIDE DEF j
      <4>1. j \in 1 .. Len(t) /\ Len(s) + j = i
        BY <3>1 DEF j
      <4>2. u[i] = t[j]
        BY <1>1, <4>1
      <4>. QED  BY <4>2 DEF j
    <3>. QED  BY <1>3, <3>1, <3>2
  <2>. QED  BY <2>1, <2>2
<1>5. ASSUME NEW i \in 1 .. Len(s) PROVE s[i] \in ToSet(u)
  <2>1. i \in 1 .. Len(u) /\ u[i] = s[i]
    BY <1>1
  <2>. QED  BY <1>2, <2>1
<1>6. ASSUME NEW i \in 1 .. Len(t) PROVE t[i] \in ToSet(u)
  <2>1. Len(s) + i \in 1 .. Len(u) /\ u[Len(s) + i] = t[i]
    BY <1>1
  <2>. QED  BY <1>2, <2>1
<1>. QED  BY <1>2, <1>3, <1>4, <1>5, <1>6 DEF u

\* So its elements are those of the parts.
LEMMA FlattenElements ==
    ASSUME NEW X, NEW s \in Seq(Seq(X))
    PROVE  /\ FlattenSeq(s) \in Seq(X)
           /\ ToSet(FlattenSeq(s)) = UNION {ToSet(s[i]) : i \in 1 .. Len(s)}
<1>1. Len(s) \in Nat /\ \A i \in 1 .. Len(s) : s[i] \in Seq(X)
  OBVIOUS
<1>2. CASE s = <<>>
  <2>0. <<>> \in Seq(X)
    OBVIOUS
  <2>1. FlattenSeq(s) = <<>> /\ <<>> \in Seq(X)
    BY <1>2, <2>0, FlattenEmpty, Zenon
  <2>2. Len(s) = 0 /\ DOMAIN <<>> = {}
    BY <1>2
  <2>3. 1 .. Len(s) = {}
    BY <2>2
  <2>4. ToSet(<<>>) = {}
    BY <2>2, Zenon DEF ToSet
  <2>5. UNION {ToSet(s[i]) : i \in 1 .. Len(s)} = {}
    BY <2>3
  <2>. QED  BY <2>1, <2>4, <2>5, Zenon
<1>3. CASE s # <<>>
  <2>1. PICK f \in Flattenings(s, X) : FlattenSeq(s) = f[Len(s)]
    BY <1>3, FlattenBy
  <2>2. /\ f \in [1 .. Len(s) -> Seq(X)] /\ f[1] = s[1]
        /\ \A i \in 2 .. Len(s) : f[i] = f[i - 1] \o s[i]
    BY Zenon DEF Flattenings
  <2>3. Len(s) # 0
    BY <1>3
  <2> DEFINE N == Len(s)
             R == {i \in 0 .. N : i = 0 \/ ToSet(f[i]) = UNION {ToSet(s[j]) : j \in 1 .. i}}
  <2>4. 0 .. N \subseteq R
    <3>1. 0 \in R
      BY <1>1
    <3>2. ASSUME NEW i \in 0 .. N - 1, i \in R PROVE i + 1 \in R
      <4>1. i + 1 \in 1 .. N /\ i + 1 \in 0 .. N /\ (i + 1) - 1 = i
        BY <1>1
      <4>2. CASE i = 0
        <5>1. {ToSet(s[j]) : j \in 1 .. 1} = {ToSet(s[1])}
          <6>1. \A j : j \in 1 .. 1 <=> j = 1
            OBVIOUS
          <6>. QED  BY <6>1
        <5>2. i + 1 = 1
          BY <4>2
        <5>3. ToSet(f[i + 1]) = ToSet(s[1])
          BY <2>2, <5>2, Zenon
        <5>4. UNION {ToSet(s[j]) : j \in 1 .. i + 1} = ToSet(s[1])
          BY <5>1, <5>2
        <5>. QED  BY <4>1, <5>3, <5>4
      <4>3. CASE i # 0
        <5>1. i + 1 \in 2 .. N /\ i \in 1 .. N
          BY <4>1, <4>3
        <5>2. f[i + 1] = f[(i + 1) - 1] \o s[i + 1]
          BY <2>2, <5>1, Zenon
        <5>3. f[i + 1] = f[i] \o s[i + 1]
          BY <4>1, <5>2, Zenon
        <5>4. f[i] \in Seq(X) /\ s[i + 1] \in Seq(X)
          BY <1>1, <2>2, <4>1, <5>1
        <5>5. ToSet(f[i + 1]) = ToSet(f[i]) \cup ToSet(s[i + 1])
          BY <5>3, <5>4, JoinedElements
        <5>6. ToSet(f[i]) = UNION {ToSet(s[j]) : j \in 1 .. i}
          BY <3>2, <4>3
        <5>7. \A j : j \in 1 .. i + 1 <=> j \in 1 .. i \/ j = i + 1
          BY <4>1
        <5>8. ToSet(f[i + 1]) = UNION {ToSet(s[j]) : j \in 1 .. i + 1}
          <6> DEFINE x(j) == ToSet(s[j])
                     y == ToSet(f[i + 1])
                     z == ToSet(f[i])
          <6>1. y = z \cup x(i + 1) /\ z = UNION {x(j) : j \in 1 .. i}
            BY <5>5, <5>6
          <6> HIDE DEF x, y, z
          <6>2. y = UNION {x(j) : j \in 1 .. i + 1}
            BY <5>7, <6>1
          <6>. QED  BY <6>2 DEF x, y
        <5>. QED  BY <4>1, <5>8
      <4>. QED  BY <4>2, <4>3
    <3> HIDE DEF R, N
    <3>. QED  BY <1>1, <3>1, <3>2, Climb DEF N
  <2>5. N \in R /\ N \in 1 .. N
    <3>1. N \in 0 .. N /\ N \in 1 .. N
      BY <1>1, <2>3
    <3> HIDE DEF R, N
    <3>. QED  BY <2>4, <3>1
  <2>. QED  BY <2>1, <2>2, <2>3, <2>5
<1>. QED  BY <1>2, <1>3

-----------------------------------------------------------------------------
(* The numbers of a finite set in ascending order.                         *)

LowerThan(S, d) == {e \in S : e < d}
Rank(S, d) == Cardinality(LowerThan(S, d))
Enumeration(S) == [i \in 1 .. Cardinality(S) |-> CHOOSE d \in S : Rank(S, d) = i - 1]

\* Ranks order the elements of a set as the elements are ordered.
LEMMA RankMonotone ==
    ASSUME NEW S \in SUBSET Nat, IsFiniteSet(S), NEW d \in S, NEW e \in S, d < e
    PROVE  Rank(S, d) \in Nat /\ Rank(S, e) \in Nat /\ Rank(S, d) < Rank(S, e)
<1>1. IsFiniteSet(LowerThan(S, d)) /\ IsFiniteSet(LowerThan(S, e))
  BY FS_Subset DEF LowerThan
<1>2. Rank(S, d) \in Nat /\ Rank(S, e) \in Nat
  BY <1>1, FS_CardinalityType DEF Rank
<1>3. d \notin LowerThan(S, d) /\ LowerThan(S, d) \cup {d} \in SUBSET LowerThan(S, e)
  <2>1. d \in Nat /\ e \in Nat /\ ~(d < d) /\ d < e
    OBVIOUS
  <2>2. \A x \in S : x < d => x < e
    BY <2>1
  <2>. QED  BY <2>1, <2>2 DEF LowerThan
<1>4. Cardinality(LowerThan(S, d) \cup {d}) = Rank(S, d) + 1
  BY <1>1, <1>3, FS_AddElement DEF Rank
<1>5. Cardinality(LowerThan(S, d) \cup {d}) <= Rank(S, e)
  BY <1>1, <1>3, FS_Subset DEF Rank
<1>. QED  BY <1>2, <1>4, <1>5

\* An element of a set with n elements has less than n elements below it.
LEMMA RankBound ==
    ASSUME NEW S \in SUBSET Nat, IsFiniteSet(S), NEW d \in S
    PROVE  Rank(S, d) \in 0 .. Cardinality(S) - 1
<1>1. IsFiniteSet(LowerThan(S, d)) /\ LowerThan(S, d) \in SUBSET S /\ d \notin LowerThan(S, d)
  BY FS_Subset DEF LowerThan
<1>2. Rank(S, d) \in Nat /\ Cardinality(S) \in Nat /\ Rank(S, d) <= Cardinality(S)
  BY <1>1, FS_CardinalityType, FS_Subset DEF Rank
<1>3. Rank(S, d) # Cardinality(S)
  BY <1>1, FS_Subset DEF Rank
<1>. QED  BY <1>2, <1>3

\* Each rank below the number of elements belongs to exactly one element.
LEMMA RankUnique ==
    ASSUME NEW S \in SUBSET Nat, IsFiniteSet(S), NEW d \in S, NEW e \in S,
           Rank(S, d) = Rank(S, e)
    PROVE  d = e
<1>1. CASE d < e
  BY <1>1, RankMonotone
<1>2. CASE e < d
  BY <1>2, RankMonotone
<1>3. d \in Nat /\ e \in Nat
  OBVIOUS
<1>. QED  BY <1>1, <1>2, <1>3

LEMMA RankTaken ==
    ASSUME NEW S \in SUBSET Nat, IsFiniteSet(S), NEW i \in 0 .. Cardinality(S) - 1
    PROVE  \E d \in S : Rank(S, d) = i
<1> DEFINE n == Cardinality(S)
           T == 0 .. n - 1
           f == [d \in S |-> Rank(S, d)]
<1>1. n \in Nat
  BY FS_CardinalityType
<1>2. f \in [S -> T]
  BY RankBound
<1>3. \A d, e \in S : f[d] = f[e] => d = e
  <2> TAKE d, e \in S
  <2> HAVE f[d] = f[e]
  <2>. QED  BY RankUnique
<1>4. IsFiniteSet(T) /\ Cardinality(T) = n
  BY <1>1, FS_Interval
<1>5. f \in Injection(S, T)
  BY <1>2, <1>3 DEF Injection, IsInjective
<1>6. f \in Surjection(S, T)
  <2> HIDE DEF f, T, n
  <2>1. Cardinality(S) = Cardinality(T)
    BY <1>4 DEF n
  <2>. QED  BY <1>4, <1>5, <2>1, FS_Injection
<1>. QED  BY <1>6 DEF Surjection

\* Enumeration(S) lists S, each element once and lower ones first.
LEMMA EnumerationElement ==
    ASSUME NEW S \in SUBSET Nat, IsFiniteSet(S), NEW i \in 1 .. Cardinality(S)
    PROVE  Enumeration(S)[i] \in S /\ Rank(S, Enumeration(S)[i]) = i - 1
<1>1. Cardinality(S) \in Nat /\ i - 1 \in 0 .. Cardinality(S) - 1
  BY FS_CardinalityType
<1>2. \E d \in S : Rank(S, d) = i - 1
  BY <1>1, RankTaken
<1>3. Enumeration(S)[i] = CHOOSE d \in S : Rank(S, d) = i - 1
  BY DEF Enumeration
<1>. QED  BY <1>2, <1>3

LEMMA EnumerationLists ==
    ASSUME NEW S \in SUBSET Nat, IsFiniteSet(S)
    PROVE  /\ Enumeration(S) \in Seq(S)
           /\ Len(Enumeration(S)) = Cardinality(S)
           /\ DOMAIN Enumeration(S) = 1 .. Cardinality(S)
           /\ ToSet(Enumeration(S)) = S
           /\ \A i, j \in 1 .. Cardinality(S) : i < j => Enumeration(S)[i] < Enumeration(S)[j]
<1>1. Cardinality(S) \in Nat
  BY FS_CardinalityType
<1>2. DOMAIN Enumeration(S) = 1 .. Cardinality(S)
  BY DEF Enumeration
<1>3. Enumeration(S) \in [1 .. Cardinality(S) -> S]
  BY EnumerationElement DEF Enumeration
<1>4. Enumeration(S) \in Seq(S) /\ Len(Enumeration(S)) = Cardinality(S)
  BY <1>1, <1>3
<1>5. ASSUME NEW d \in S PROVE \E i \in 1 .. Cardinality(S) : Enumeration(S)[i] = d
  <2>1. Rank(S, d) + 1 \in 1 .. Cardinality(S) /\ Rank(S, d) \in Nat
    BY <1>1, RankBound
  <2> DEFINE e == Enumeration(S)[Rank(S, d) + 1]
  <2>2. e \in S /\ Rank(S, e) = Rank(S, d)
    BY <2>1, EnumerationElement
  <2>3. e = d
    <3> HIDE DEF e
    <3>. QED  BY <2>2, RankUnique
  <2>. QED  BY <2>1, <2>3
<1>6. ToSet(Enumeration(S)) = S
  BY <1>2, <1>3, <1>5 DEF ToSet
<1>7. ASSUME NEW i \in 1 .. Cardinality(S), NEW j \in 1 .. Cardinality(S), i < j
      PROVE  Enumeration(S)[i] < Enumeration(S)[j]
  <2> DEFINE d == Enumeration(S)[i]
             e == Enumeration(S)[j]
  <2>1. d \in S /\ e \in S /\ Rank(S, d) = i - 1 /\ Rank(S, e) = j - 1
    BY EnumerationElement
  <2>2. ~(e < d)
    <3> SUFFICES ASSUME e < d PROVE FALSE
      OBVIOUS
    <3>1. Rank(S, e) < Rank(S, d)
      BY <2>1, RankMonotone
    <3>. QED  BY <1>1, <1>7, <2>1, <3>1
  <2>3. d # e
    BY <1>7, <2>1
  <2>4. d \in Nat /\ e \in Nat
    BY <2>1
  <2> HIDE DEF d, e
  <2>5. d < e
    BY <2>2, <2>3, <2>4
  <2>. QED  BY <2>5 DEF d, e
<1>. QED  BY <1>2, <1>4, <1>6, <1>7

\* There is no other list of a set that ascends.
LEMMA EnumerationUnique ==
    ASSUME NEW s \in Seq(Nat), \A i, j \in 1 .. Len(s) : i < j => s[i] < s[j]
    PROVE  /\ IsFiniteSet(ToSet(s)) /\ Cardinality(ToSet(s)) = Len(s)
           /\ s = Enumeration(ToSet(s))
<1> DEFINE S == ToSet(s)
           n == Len(s)
<1>1. n \in Nat /\ DOMAIN s = 1 .. n /\ s \in [1 .. n -> Nat]
  OBVIOUS
<1>2. S \in SUBSET Nat /\ \A i \in 1 .. n : s[i] \in S
  BY <1>1 DEF ToSet
<1>3. \A i, j \in 1 .. n : (s[i] < s[j] <=> i < j) /\ (s[i] = s[j] => i = j)
  BY <1>1
<1>4. ASSUME NEW m \in 0 .. n
      PROVE  LET T == {s[i] : i \in 1 .. m} IN IsFiniteSet(T) /\ Cardinality(T) = m
  <2> DEFINE T == {s[i] : i \in 1 .. m}
             f == [i \in 1 .. m |-> s[i]]
  <2>1. m \in Nat /\ 1 .. m \subseteq 1 .. n
    BY <1>1
  <2>2. f \in [1 .. m -> T] /\ \A t \in T : \E i \in 1 .. m : f[i] = t
    OBVIOUS
  <2>3. \A i, j \in 1 .. m : f[i] = f[j] => i = j
    BY <1>3, <2>1
  <2>4. f \in Bijection(1 .. m, T)
    BY <2>2, <2>3 DEF Bijection, Injection, Surjection, IsInjective
  <2>5. ExistsBijection(1 .. m, T)
    BY <2>4 DEF ExistsBijection
  <2>6. IsFiniteSet(1 .. m) /\ Cardinality(1 .. m) = m
    BY <2>1, FS_Interval
  <2>. QED  BY <2>5, <2>6, FS_Bijection
<1>5. S = {s[i] : i \in 1 .. n}
  BY <1>1 DEF ToSet
<1>6. IsFiniteSet(S) /\ Cardinality(S) = n
  <2>1. n \in 0 .. n
    BY <1>1
  <2> HIDE DEF S, n
  <2>. QED  BY <1>4, <1>5, <2>1, Zenon
<1>7. ASSUME NEW i \in 1 .. n PROVE Rank(S, s[i]) = i - 1
  <2>1. LowerThan(S, s[i]) = {s[j] : j \in 1 .. i - 1}
    BY <1>1, <1>3, <1>5 DEF LowerThan
  <2>2. i - 1 \in 0 .. n
    BY <1>1
  <2>. QED  BY <1>4, <2>1, <2>2 DEF Rank
<1>8. ASSUME NEW i \in 1 .. n PROVE Enumeration(S)[i] = s[i]
  <2> DEFINE d == Enumeration(S)[i]
             e == s[i]
  <2>1. d \in S /\ Rank(S, d) = i - 1
    BY <1>2, <1>6, EnumerationElement
  <2>2. e \in S /\ Rank(S, e) = i - 1
    BY <1>2, <1>7
  <2> HIDE DEF d, e, S
  <2>3. d = e
    BY <1>2, <1>6, <2>1, <2>2, RankUnique
  <2>. QED  BY <2>3 DEF d, e
<1>9. Enumeration(S) = [i \in 1 .. n |-> Enumeration(S)[i]]
  BY <1>6 DEF Enumeration
<1>. QED  BY <1>1, <1>6, <1>8, <1>9

\* A list of the elements of S in ascending order.
Ascends(s, S) ==
  s \in Seq(Nat) /\ ToSet(s) = S /\ \A i, j \in 1 .. Len(s) : i < j => s[i] < s[j]

LEMMA AppendAscends ==
    ASSUME NEW s, NEW S, Ascends(s, S), NEW v \in Nat, \A x \in S : x < v
    PROVE  Ascends(Append(s, v), S \cup {v})
<1> DEFINE t == Append(s, v)
<1>1. s \in Seq(Nat) /\ ToSet(s) = S
  BY DEF Ascends
<1>2. t \in Seq(Nat) /\ Len(t) = Len(s) + 1 /\ Len(s) \in Nat
      /\ t[Len(s) + 1] = v /\ \A i \in 1 .. Len(s) : t[i] = s[i] /\ s[i] \in S
  BY <1>1 DEF ToSet
<1> HIDE DEF t
<1>3. ToSet(t) = S \cup {v}
  <2>1. ToSet(t) = {t[i] : i \in 1 .. Len(s) + 1} /\ S = {s[i] : i \in 1 .. Len(s)}
    <3>1. DOMAIN t = 1 .. Len(t) /\ DOMAIN s = 1 .. Len(s)
      BY <1>1, <1>2
    <3>2. ToSet(t) = {t[i] : i \in DOMAIN t} /\ S = {s[i] : i \in DOMAIN s}
      BY <1>1, Zenon DEF ToSet
    <3>. QED  BY <1>2, <3>1, <3>2, Zenon
  <2>2. ASSUME NEW x \in ToSet(t) PROVE x \in S \cup {v}
    BY <1>2, <2>1
  <2>3. ASSUME NEW x \in S PROVE x \in ToSet(t)
    <3>1. PICK i \in 1 .. Len(s) : x = s[i]
      BY <2>1
    <3>2. i \in 1 .. Len(s) + 1
      BY <1>2
    <3>. QED  BY <1>2, <2>1, <3>1, <3>2
  <2>4. v \in ToSet(t)
    <3>1. Len(s) + 1 \in 1 .. Len(s) + 1
      BY <1>2
    <3>. QED  BY <1>2, <2>1, <3>1
  <2>. QED  BY <2>2, <2>3, <2>4
<1>4. ASSUME NEW i \in 1 .. Len(t), NEW j \in 1 .. Len(t), i < j PROVE t[i] < t[j]
  <2>1. i \in 1 .. Len(s) /\ t[i] = s[i] /\ s[i] \in S
    BY <1>2, <1>4
  <2>2. CASE j = Len(s) + 1
    BY <1>2, <2>1, <2>2
  <2>3. CASE j # Len(s) + 1
    <3>1. j \in 1 .. Len(s)
      BY <1>2, <2>3
    <3>2. s[i] < s[j]
      BY <1>4, <2>1, <3>1 DEF Ascends
    <3>. QED  BY <1>2, <2>1, <3>1, <3>2
  <2>. QED  BY <2>2, <2>3
<1>. QED  BY <1>2, <1>3, <1>4 DEF Ascends, t

-----------------------------------------------------------------------------
(* Recursion by rank, and the places in sequences that are joined.         *)

\* A function of D can be applied over and over.
Layers(n, D, turn) == {g \in [0 .. n -> D] : \A i \in 0 .. n - 1 : g[i + 1] = turn[g[i]]}

LEMMA LayersExist ==
    ASSUME NEW n \in Nat, NEW D, NEW a \in D, NEW turn \in [D -> D]
    PROVE  Layers(n, D, turn) # {}
<1> DEFINE step == [y \in (1 .. n) \X D |-> turn[y[2]]]
<1>1. step \in [(1 .. n) \X D -> D]
  OBVIOUS
<1>2. \A i \in 1 .. n, f \in D : step[<<i, f>>] = turn[f]
  OBVIOUS
<1> HIDE DEF step
<1>3. Recursions(n, D, a, step) # {}
  BY <1>1, RecursionExists
<1>4. PICK g : g \in Recursions(n, D, a, step)
  BY <1>3
<1>5. g \in [0 .. n -> D] /\ \A i \in 1 .. n : g[i] = step[<<i, g[i - 1]>>]
  BY <1>4 DEF Recursions
<1>6. ASSUME NEW i \in 0 .. n - 1 PROVE g[i + 1] = turn[g[i]]
  <2>1. i + 1 \in 1 .. n /\ (i + 1) - 1 = i /\ i \in 0 .. n
    OBVIOUS
  <2>2. g[i + 1] = step[<<i + 1, g[i]>>]
    BY <1>5, <2>1
  <2>. QED  BY <1>2, <1>5, <2>1, <2>2
<1>. QED  BY <1>5, <1>6 DEF Layers

\* A recursion in which each element refers to elements of lower rank only has
\* a solution.
DependsBelow(step, rank, N, S, V) ==
  /\ N \in Nat /\ rank \in [S -> 0 .. N] /\ step \in [S \X [S -> V] -> V]
  /\ \A x \in S, f, g \in [S -> V] :
       (\A y \in S : rank[y] < rank[x] => f[y] = g[y]) => step[<<x, f>>] = step[<<x, g>>]
Solves(f, step, S, V) == f \in [S -> V] /\ \A x \in S : f[x] = step[<<x, f>>]
LEMMA RankedRecursion ==
    ASSUME NEW N, NEW S, NEW V, NEW rank, NEW v0 \in V, NEW step, DependsBelow(step, rank, N, S, V)
    PROVE  \E f : Solves(f, step, S, V)
<1>. /\ N \in Nat /\ rank \in [S -> 0 .. N] /\ step \in [S \X [S -> V] -> V]
     /\ \A x \in S, f, g \in [S -> V] :
          (\A y \in S : rank[y] < rank[x] => f[y] = g[y]) => step[<<x, f>>] = step[<<x, g>>]
  BY DEF DependsBelow
<1>. PICK f0 \in [S -> V] : TRUE
  <2>1. [x \in S |-> v0] \in [S -> V]
    OBVIOUS
  <2>. QED  BY <2>1
<1> DEFINE F == [S -> V]
           turn == [f \in F |-> [x \in S |-> step[<<x, f>>]]]
<1>1. turn \in [F -> F]
  OBVIOUS
<1>2. \A f \in F, x \in S : turn[f][x] = step[<<x, f>>]
  OBVIOUS
<1>3. PICK g \in [0 .. N + 1 -> F] : \A i \in 0 .. (N + 1) - 1 : g[i + 1] = turn[g[i]]
  <2>1. PICK M : M = N + 1
    OBVIOUS
  <2>2. M \in Nat
    BY <2>1
  <2>3. f0 \in F
    OBVIOUS
  <2> HIDE DEF turn, F
  <2>4. Layers(M, F, turn) # {}
    BY <1>1, <2>2, <2>3, LayersExist
  <2>. QED  BY <2>1, <2>4 DEF Layers
<1> HIDE DEF turn
<1>4. \A i \in 0 .. N : i + 1 \in 0 .. N + 1 /\ i \in 0 .. N + 1 /\ i \in 0 .. (N + 1) - 1
  <2> SUFFICES ASSUME NEW M, M = N PROVE \A i \in 0 .. M : i + 1 \in 0 .. M + 1 /\ i \in 0 .. M + 1 /\ i \in 0 .. (M + 1) - 1
    OBVIOUS
  <2>. QED  OBVIOUS
<1>5. \A i \in 0 .. N + 1 : g[i] \in F
  <2> HIDE DEF F
  <2>. QED  OBVIOUS
<1>6. N + 1 \in 0 .. N + 1 /\ N \in 0 .. N
  OBVIOUS
<1>7. ASSUME NEW i \in 0 .. N, NEW x \in S PROVE g[i + 1][x] = step[<<x, g[i]>>]
  <2>1. g[i + 1] = turn[g[i]]
    BY <1>3, <1>4
  <2>2. g[i] \in F
    BY <1>4, <1>5
  <2> HIDE DEF F
  <2>. QED  BY <1>2, <2>1, <2>2
<1> DEFINE R == {i \in 0 .. N : \A x \in S : rank[x] < i => g[i + 1][x] = g[i][x]}
<1>8. 0 .. N \subseteq R
  <2>1. 0 \in R
    OBVIOUS
  <2>2. ASSUME NEW i \in 0 .. N - 1, i \in R PROVE i + 1 \in R
    <3>1. i + 1 \in 0 .. N /\ i \in 0 .. N
      OBVIOUS
    <3> SUFFICES ASSUME NEW x \in S, rank[x] < i + 1 PROVE g[(i + 1) + 1][x] = g[i + 1][x]
      BY <3>1
    <3>2. g[(i + 1) + 1][x] = step[<<x, g[i + 1]>>] /\ g[i + 1][x] = step[<<x, g[i]>>]
      BY <1>7, <3>1
    <3>3. \A y \in S : rank[y] < rank[x] => g[i + 1][y] = g[i][y]
      <4>1. \A y \in S : rank[y] < rank[x] => rank[y] < i
        OBVIOUS
      <4>. QED  BY <2>2, <4>1
    <3>4. g[i + 1] \in F /\ g[i] \in F
      BY <1>4, <1>5, <3>1
    <3>. QED  BY <3>2, <3>3, <3>4
  <2> HIDE DEF R
  <2>. QED  BY <2>1, <2>2, Climb
<1>9. ASSUME NEW x \in S PROVE g[N + 1][x] = step[<<x, g[N + 1]>>]
  <2>1. N \in 0 .. N /\ N \in R
    BY <1>8
  <2>2. g[N + 1][x] = step[<<x, g[N]>>]
    BY <1>7, <2>1
  <2>3. \A y \in S : rank[y] < rank[x] => g[N + 1][y] = g[N][y]
    <3>1. \A y \in S : rank[y] < rank[x] => rank[y] < N
      OBVIOUS
    <3>. QED  BY <2>1, <3>1
  <2>4. g[N + 1] \in F /\ g[N] \in F
    BY <1>4, <1>5, <1>6
  <2>. QED  BY <2>2, <2>3, <2>4
<1>10. g[N + 1] \in F
  BY <1>5, <1>6
<1>. QED  BY <1>9, <1>10 DEF Solves

\* Where the elements of the parts are in the sequence that joins them: the
\* k-th is the B[k]-th of part A[k].
PlacesOf(t, s, m, A, B) ==
  /\ A \in [1 .. Len(t) -> 1 .. m] /\ B \in [1 .. Len(t) -> Nat]
  /\ \A k \in 1 .. Len(t) : B[k] \in 1 .. Len(s[A[k]]) /\ t[k] = s[A[k]][B[k]]
  /\ \A k, l \in 1 .. Len(t) : A[k] = A[l] /\ B[k] = B[l] => k = l
  /\ \A i \in 1 .. m : \A j \in 1 .. Len(s[i]) : \E k \in 1 .. Len(t) : A[k] = i /\ B[k] = j

LEMMA PlacesJoined ==
    ASSUME NEW X, NEW s \in Seq(Seq(X)), NEW m \in 1 .. Len(s) - 1, NEW t \in Seq(X),
           NEW A, NEW B, PlacesOf(t, s, m, A, B)
    PROVE  \E C, D : PlacesOf(t \o s[m + 1], s, m + 1, C, D)
<1> DEFINE u == s[m + 1]
           w == t \o u
<1>1. m \in Nat /\ m + 1 \in 1 .. Len(s) /\ u \in Seq(X) /\ Len(t) \in Nat /\ Len(u) \in Nat
      /\ Len(s) \in Nat
  OBVIOUS
<1>2. /\ Len(w) = Len(t) + Len(u)
      /\ \A k \in 1 .. Len(t) : w[k] = t[k]
      /\ \A j \in 1 .. Len(u) : w[Len(t) + j] = u[j]
  BY <1>1
<1>3. PICK p, q, n : p = Len(t) /\ q = Len(u) /\ n = Len(w)
  OBVIOUS
<1>4. p \in Nat /\ q \in Nat /\ n = p + q
  BY <1>1, <1>2, <1>3
<1>5. \A k \in 1 .. n : (k \in 1 .. p /\ k <= p) \/ (~(k <= p) /\ k - p \in 1 .. q /\ p + (k - p) = k)
  BY <1>4
<1>6. /\ A \in [1 .. p -> 1 .. m] /\ B \in [1 .. p -> Nat]
      /\ \A k \in 1 .. p : B[k] \in 1 .. Len(s[A[k]]) /\ t[k] = s[A[k]][B[k]]
      /\ \A k, l \in 1 .. p : A[k] = A[l] /\ B[k] = B[l] => k = l
      /\ \A i \in 1 .. m : \A j \in 1 .. Len(s[i]) : \E k \in 1 .. p : A[k] = i /\ B[k] = j
  BY <1>3 DEF PlacesOf
<1> DEFINE C == [k \in 1 .. n |-> IF k <= p THEN A[k] ELSE m + 1]
           D == [k \in 1 .. n |-> IF k <= p THEN B[k] ELSE k - p]
<1>7. /\ \A k \in 1 .. p : k \in 1 .. n /\ C[k] = A[k] /\ D[k] = B[k] /\ w[k] = t[k]
      /\ \A j \in 1 .. q : p + j \in 1 .. n /\ C[p + j] = m + 1 /\ D[p + j] = j /\ w[p + j] = u[j]
  <2>1. (\A k \in 1 .. p : w[k] = t[k]) /\ (\A j \in 1 .. q : w[p + j] = u[j])
    BY <1>2, <1>3
  <2>2. /\ \A k \in 1 .. p : k \in 1 .. n /\ k <= p
        /\ \A j \in 1 .. q : p + j \in 1 .. n /\ ~(p + j <= p) /\ (p + j) - p = j
    BY <1>4
  <2>. QED  BY <2>1, <2>2
<1>8. C \in [1 .. n -> 1 .. m + 1] /\ D \in [1 .. n -> Nat]
  <2> HIDE DEF C, D
  <2>1. \A k \in 1 .. p : A[k] \in 1 .. m + 1 /\ B[k] \in Nat
    <3>1. \A a \in 1 .. m : a \in 1 .. m + 1
      BY <1>1
    <3>. QED  BY <1>6, <3>1
  <2>2. m + 1 \in 1 .. m + 1 /\ \A j \in 1 .. q : j \in Nat
    BY <1>1
  <2>3. ASSUME NEW k \in 1 .. n PROVE C[k] \in 1 .. m + 1 /\ D[k] \in Nat
    <3>1. CASE k \in 1 .. p
      BY <1>7, <2>1, <3>1
    <3>2. CASE k \notin 1 .. p
      <4>1. PICK j \in 1 .. q : k = p + j
        BY <1>5, <3>2
      <4>2. C[k] = m + 1 /\ D[k] = j
        BY <1>7, <4>1
      <4>. QED  BY <2>2, <4>2
    <3>. QED  BY <3>1, <3>2
  <2>. QED  BY <2>3 DEF C, D
<1> HIDE DEF C, D, w
<1>9. ASSUME NEW k \in 1 .. n PROVE D[k] \in 1 .. Len(s[C[k]]) /\ w[k] = s[C[k]][D[k]]
  <2>1. CASE k \in 1 .. p
    BY <1>6, <1>7, <2>1
  <2>2. CASE k \notin 1 .. p
    <3>1. PICK j \in 1 .. q : k = p + j
      BY <1>5, <2>2
    <3>2. C[k] = m + 1 /\ D[k] = j /\ w[k] = u[j]
      BY <1>7, <3>1
    <3>. QED  BY <1>3, <3>2
  <2>. QED  BY <2>1, <2>2
<1>10. ASSUME NEW k \in 1 .. n, NEW l \in 1 .. n, C[k] = C[l], D[k] = D[l] PROVE k = l
  <2>1. \A h \in 1 .. n : h \in 1 .. p <=> C[h] # m + 1
    <3> TAKE h \in 1 .. n
    <3>1. CASE h \in 1 .. p
      <4>1. C[h] \in 1 .. m
        BY <1>6, <1>7, <3>1
      <4>. QED  BY <1>1, <3>1, <4>1
    <3>2. CASE h \notin 1 .. p
      <4>1. PICK j \in 1 .. q : h = p + j
        BY <1>5, <3>2
      <4>. QED  BY <1>7, <3>2, <4>1
    <3>. QED  BY <3>1, <3>2
  <2>2. CASE k \in 1 .. p
    <3>1. l \in 1 .. p
      BY <1>10, <2>1, <2>2
    <3>. QED  BY <1>6, <1>7, <1>10, <2>2, <3>1
  <2>3. CASE k \notin 1 .. p
    <3>1. l \notin 1 .. p
      BY <1>10, <2>1, <2>3
    <3>2. PICK j \in 1 .. q : k = p + j
      BY <1>5, <2>3
    <3>3. PICK h \in 1 .. q : l = p + h
      BY <1>5, <3>1
    <3>4. D[k] = j /\ D[l] = h
      BY <1>7, <3>2, <3>3
    <3>. QED  BY <1>10, <3>2, <3>3, <3>4
  <2>. QED  BY <2>2, <2>3
<1>11. ASSUME NEW i \in 1 .. m + 1, NEW j \in 1 .. Len(s[i]) PROVE \E k \in 1 .. n : C[k] = i /\ D[k] = j
  <2>1. CASE i = m + 1
    <3>1. j \in 1 .. q
      BY <1>3, <2>1
    <3>. QED  BY <1>7, <2>1, <3>1
  <2>2. CASE i # m + 1
    <3>1. i \in 1 .. m
      BY <1>1, <2>2
    <3>2. PICK k \in 1 .. p : A[k] = i /\ B[k] = j
      BY <1>6, <3>1
    <3>. QED  BY <1>7, <3>2
  <2>. QED  BY <2>1, <2>2
<1>12. PlacesOf(w, s, m + 1, C, D)
  <2>1. \A k, l \in 1 .. n : C[k] = C[l] /\ D[k] = D[l] => k = l
    BY <1>10
  <2>2. \A i \in 1 .. m + 1 : \A j \in 1 .. Len(s[i]) : \E k \in 1 .. n : C[k] = i /\ D[k] = j
    BY <1>11
  <2>3. \A k \in 1 .. n : D[k] \in 1 .. Len(s[C[k]]) /\ w[k] = s[C[k]][D[k]]
    BY <1>9
  <2>4. n = Len(w)
    BY <1>3
  <2>5. C \in [1 .. Len(w) -> 1 .. m + 1] /\ D \in [1 .. Len(w) -> Nat]
    BY <1>8, <2>4, Zenon
  <2>6. \A k \in 1 .. Len(w) : D[k] \in 1 .. Len(s[C[k]]) /\ w[k] = s[C[k]][D[k]]
    BY <2>3, <2>4, Zenon
  <2>7. \A k, l \in 1 .. Len(w) : C[k] = C[l] /\ D[k] = D[l] => k = l
    BY <2>1, <2>4, Zenon
  <2>8. \A i \in 1 .. m + 1 : \A j \in 1 .. Len(s[i]) : \E k \in 1 .. Len(w) : C[k] = i /\ D[k] = j
    BY <2>2, <2>4, Zenon
  <2>. QED  BY <2>5, <2>6, <2>7, <2>8, Zenon DEF PlacesOf
<1>. QED  BY <1>12 DEF w

LEMMA FlattenPlaces ==
    ASSUME NEW X, NEW s \in Seq(Seq(X)), s # <<>>
    PROVE  \E A, B : PlacesOf(FlattenSeq(s), s, Len(s), A, B)
<1>1. PICK f \in Flattenings(s, X) : FlattenSeq(s) = f[Len(s)]
  BY FlattenBy
<1>2. /\ f \in [1 .. Len(s) -> Seq(X)] /\ f[1] = s[1]
      /\ \A i \in 2 .. Len(s) : f[i] = f[i - 1] \o s[i]
  BY Zenon DEF Flattenings
<1> DEFINE N == Len(s)
           R == {i \in 0 .. N : i = 0 \/ \E A, B : PlacesOf(f[i], s, i, A, B)}
<1>3. N \in Nat \ {0}
  OBVIOUS
<1>4. 0 .. N \subseteq R
  <2>1. 0 \in R
    BY <1>3
  <2>2. ASSUME NEW i \in 0 .. N - 1, i \in R PROVE i + 1 \in R
    <3>1. i + 1 \in 1 .. N /\ i + 1 \in 0 .. N
      BY <1>3
    <3>2. CASE i = 0
      <4> DEFINE t == s[1]
                 A == [k \in 1 .. Len(t) |-> 1]
                 B == [k \in 1 .. Len(t) |-> k]
      <4>1. t \in Seq(X) /\ Len(t) \in Nat
        BY <1>3
      <4>2. PlacesOf(t, s, 1, A, B)
        <5> HIDE DEF t
        <5>1. A \in [1 .. Len(t) -> 1 .. 1] /\ B \in [1 .. Len(t) -> Nat]
          BY <4>1
        <5>2. \A k \in 1 .. Len(t) : A[k] = 1 /\ B[k] = k
          OBVIOUS
        <5>3. \A j \in 1 .. 1 : j = 1
          OBVIOUS
        <5> HIDE DEF A, B
        <5>. QED  BY <5>1, <5>2, <5>3 DEF PlacesOf, t
      <4>3. f[i + 1] = t /\ i + 1 = 1
        BY <1>2, <3>2
      <4> HIDE DEF A, B, t
      <4>4. \E C, D : PlacesOf(f[i + 1], s, i + 1, C, D)
        BY <4>2, <4>3
      <4>. QED  BY <3>1, <4>4
    <3>3. CASE i # 0
      <4>1. i \in 1 .. Len(s) - 1 /\ i + 1 \in 2 .. Len(s) /\ (i + 1) - 1 = i /\ i \in 1 .. Len(s)
        BY <1>3, <3>3
      <4>2. PICK A, B : PlacesOf(f[i], s, i, A, B)
        BY <2>2, <3>3
      <4>3. f[i + 1] = f[i] \o s[i + 1] /\ f[i] \in Seq(X)
        BY <1>2, <4>1
      <4>4. \E C, D : PlacesOf(f[i] \o s[i + 1], s, i + 1, C, D)
        BY <4>1, <4>2, <4>3, PlacesJoined
      <4>5. \E C, D : PlacesOf(f[i + 1], s, i + 1, C, D)
        BY <4>3, <4>4
      <4>. QED  BY <3>1, <4>5
    <3>. QED  BY <3>2, <3>3
  <2> HIDE DEF R, N
  <2>. QED  BY <1>3, <2>1, <2>2, Climb
<1>5. N \in R /\ N # 0
  BY <1>3, <1>4
<1>. QED  BY <1>1, <1>5

-----------------------------------------------------------------------------
(* Parts of a sequence, and the sums of its first elements.                *)

\* The elements of a part of a sequence.
LEMMA PartOf ==
    ASSUME NEW s \in Seq(Nat), NEW a \in 1 .. Len(s) + 1, NEW b \in a - 1 .. Len(s)
    PROVE  /\ SubSeq(s, a, b) \in Seq(Nat)
           /\ Len(SubSeq(s, a, b)) = b - a + 1
           /\ \A i \in 1 .. b - a + 1 : SubSeq(s, a, b)[i] = s[a + i - 1]
<1>1. Len(s) \in Nat /\ \A i \in 1 .. Len(s) : s[i] \in Nat
  OBVIOUS
<1>2. SubSeq(s, a, b) = [i \in 1 .. b - a + 1 |-> s[a + i - 1]] /\ b - a + 1 \in Nat
  BY <1>1
<1>3. \A i \in 1 .. b - a + 1 : a + i - 1 \in 1 .. Len(s)
  BY <1>1
<1>. QED  BY <1>1, <1>2, <1>3

\* The sums of the first elements of a sequence.
SumsOf(s) ==
  {f \in [0 .. Len(s) -> Nat] : f[0] = 0 /\ \A i \in 1 .. Len(s) : f[i] = f[i - 1] + s[i]}

\* The recursion of the modules that add up sizes.
SumBy(s) ==
  LET sum[i \in 0 .. Len(s)] == IF i = 0 THEN 0 ELSE sum[i - 1] + s[i]
  IN sum[Len(s)]

LEMMA SumsExist ==
    ASSUME NEW s \in Seq(Nat)
    PROVE  SumsOf(s) # {}
<1> DEFINE N == Len(s)
           step == [x \in (1 .. N) \X Nat |-> x[2] + s[x[1]]]
<1>1. N \in Nat /\ \A i \in 1 .. N : s[i] \in Nat
  OBVIOUS
<1>2. step \in [(1 .. N) \X Nat -> Nat]
  BY <1>1
<1>3. PICK f \in Recursions(N, Nat, 0, step) : TRUE
  <2> HIDE DEF N, step
  <2>1. 0 \in Nat
    OBVIOUS
  <2>. QED  BY <1>1, <1>2, <2>1, RecursionExists
<1>4. f \in [0 .. N -> Nat] /\ f[0] = 0 /\ \A i \in 1 .. N : f[i] = step[<<i, f[i - 1]>>]
  <2> HIDE DEF N, step
  <2>. QED  BY <1>3 DEF Recursions
<1>5. ASSUME NEW i \in 1 .. N PROVE f[i] = f[i - 1] + s[i]
  <2>1. i - 1 \in 0 .. N
    BY <1>1
  <2>2. f[i - 1] \in Nat
    BY <1>4, <2>1
  <2>. QED  BY <1>4, <2>2
<1>6. f \in SumsOf(s)
  BY <1>4, <1>5 DEF SumsOf
<1>. QED  BY <1>6

\* SumBy is the last of them,
LEMMA SumByIs ==
    ASSUME NEW s \in Seq(Nat), NEW f \in SumsOf(s)
    PROVE  SumBy(s) = f[Len(s)]
<1> DEFINE N == Len(s)
           sum == CHOOSE g : g = [i \in 0 .. N |-> IF i = 0 THEN 0 ELSE g[i - 1] + s[i]]
<1>1. N \in Nat
  OBVIOUS
<1>2. f \in [0 .. N -> Nat] /\ f[0] = 0 /\ \A i \in 1 .. N : f[i] = f[i - 1] + s[i]
  BY DEF SumsOf
<1>3. f = [i \in 0 .. N |-> IF i = 0 THEN 0 ELSE f[i - 1] + s[i]]
  <2>1. \A i \in 0 .. N : i # 0 => i \in 1 .. N
    BY <1>1
  <2>2. \A i \in 0 .. N : f[i] = IF i = 0 THEN 0 ELSE f[i - 1] + s[i]
    BY <1>2, <2>1
  <2> HIDE DEF N
  <2>. QED  BY <1>2, <2>2
<1>4. sum = [i \in 0 .. N |-> IF i = 0 THEN 0 ELSE sum[i - 1] + s[i]]
  <2> HIDE DEF N
  <2>. QED  BY <1>3
<1>5. SumBy(s) = sum[N]
  BY DEF SumBy
<1> HIDE DEF sum
<1> DEFINE R == {i \in 0 .. N : sum[i] = f[i]}
<1>6. 0 .. N \subseteq R
  <2>1. 0 \in R
    BY <1>1, <1>2, <1>4
  <2>2. ASSUME NEW i \in 0 .. N - 1, i \in R PROVE i + 1 \in R
    <3>1. i + 1 \in 1 .. N /\ i + 1 \in 0 .. N /\ (i + 1) - 1 = i /\ i + 1 # 0
      BY <1>1
    <3>2. sum[i + 1] = sum[(i + 1) - 1] + s[i + 1]
      <4> HIDE DEF N
      <4>. QED  BY <1>4, <3>1, Zenon
    <3>3. f[i + 1] = f[(i + 1) - 1] + s[i + 1]
      <4> HIDE DEF N
      <4>. QED  BY <1>2, <3>1, Zenon
    <3>4. sum[i] = f[i]
      BY <2>2
    <3>5. sum[i + 1] = f[i + 1]
      BY <3>1, <3>2, <3>3, <3>4, Zenon
    <3>. QED  BY <3>1, <3>5
  <2> HIDE DEF R, N
  <2>. QED  BY <1>1, <2>1, <2>2, Climb
<1>7. N \in R
  BY <1>1, <1>6
<1>. QED  BY <1>5, <1>7

\* the sum of the elements before the i-th is the one before it,
LEMMA SumByBefore ==
    ASSUME NEW s \in Seq(Nat), NEW f \in SumsOf(s), NEW i \in 1 .. Len(s)
    PROVE  SumBy(SubSeq(s, 1, i - 1)) = f[i - 1]
<1> DEFINE t == SubSeq(s, 1, i - 1)
           g == [j \in 0 .. i - 1 |-> f[j]]
<1>1. Len(s) \in Nat /\ i - 1 \in Nat /\ i - 1 \in 0 .. Len(s) /\ 1 \in 1 .. Len(s) + 1
  OBVIOUS
<1>2. t \in Seq(Nat) /\ Len(t) = i - 1 /\ \A j \in 1 .. i - 1 : t[j] = s[j]
  <2>1. /\ t \in Seq(Nat) /\ Len(t) = (i - 1) - 1 + 1
        /\ \A j \in 1 .. (i - 1) - 1 + 1 : t[j] = s[1 + j - 1]
    <3>1. i - 1 \in 1 - 1 .. Len(s)
      BY <1>1
    <3>. QED  BY <1>1, <3>1, PartOf
  <2>2. (i - 1) - 1 + 1 = i - 1 /\ \A j \in 1 .. i - 1 : 1 + j - 1 = j
    BY <1>1
  <2>. QED  BY <2>1, <2>2
<1> HIDE DEF t
<1>3. f \in [0 .. Len(s) -> Nat] /\ f[0] = 0 /\ \A j \in 1 .. Len(s) : f[j] = f[j - 1] + s[j]
  BY DEF SumsOf
<1>4. g \in SumsOf(t)
  <2>1. g \in [0 .. Len(t) -> Nat] /\ g[0] = 0
    <3>1. 0 .. i - 1 \subseteq 0 .. Len(s) /\ 0 \in 0 .. i - 1
      BY <1>1
    <3>2. \A j \in 0 .. i - 1 : f[j] \in Nat
      BY <1>3, <3>1
    <3>3. g \in [0 .. i - 1 -> Nat]
      BY <3>2
    <3>. QED  BY <1>2, <1>3, <3>1, <3>3
  <2>2. ASSUME NEW j \in 1 .. Len(t) PROVE g[j] = g[j - 1] + t[j]
    <3>1. j \in 1 .. Len(s) /\ j \in 0 .. i - 1 /\ j - 1 \in 0 .. i - 1 /\ j \in 1 .. i - 1
      BY <1>1, <1>2
    <3>. QED  BY <1>2, <1>3, <3>1
  <2>. QED  BY <2>1, <2>2 DEF SumsOf
<1>5. SumBy(t) = g[Len(t)]
  <2> HIDE DEF g
  <2>. QED  BY <1>2, <1>4, SumByIs
<1>. QED  BY <1>1, <1>2, <1>5 DEF t

\* and they ascend if no element is zero.
LEMMA SumsAscend ==
    ASSUME NEW s \in Seq(Nat), NEW f \in SumsOf(s), \A i \in 1 .. Len(s) : s[i] > 0,
           NEW i \in 0 .. Len(s), NEW j \in 0 .. Len(s), i < j
    PROVE  f[i] \in Nat /\ f[j] \in Nat /\ f[i] < f[j]
<1> DEFINE N == Len(s)
           R == {m \in 0 .. N : m <= i \/ f[i] < f[m]}
<1>1. N \in Nat /\ i \in Nat
  OBVIOUS
<1>2. /\ f \in [0 .. N -> Nat]
      /\ \A m \in 1 .. N : f[m] = f[m - 1] + s[m] /\ s[m] \in Nat /\ s[m] > 0
  BY DEF SumsOf
<1>3. 0 .. N \subseteq R
  <2>1. 0 \in R
    BY <1>1
  <2>2. ASSUME NEW m \in 0 .. N - 1, m \in R PROVE m + 1 \in R
    <3>1. m + 1 \in 1 .. N /\ m + 1 \in 0 .. N /\ (m + 1) - 1 = m /\ m \in 0 .. N
      BY <1>1
    <3>2. f[m + 1] = f[m] + s[m + 1] /\ f[m] \in Nat /\ f[i] \in Nat /\ s[m + 1] \in Nat /\ s[m + 1] > 0
      <4>1. f[m + 1] = f[(m + 1) - 1] + s[m + 1] /\ s[m + 1] \in Nat /\ s[m + 1] > 0
        BY <1>2, <3>1
      <4>2. f[m] \in Nat /\ f[i] \in Nat
        BY <1>2, <3>1
      <4>. QED  BY <3>1, <4>1, <4>2
    <3>3. m <= i \/ f[i] < f[m]
      BY <2>2
    <3>4. CASE m + 1 <= i
      BY <3>1, <3>4
    <3>5. CASE ~(m + 1 <= i)
      <4>1. m = i \/ f[i] < f[m]
        BY <1>1, <3>3, <3>5
      <4>2. f[i] < f[m + 1]
        <5> DEFINE x == f[i]
                   y == f[m]
                   z == s[m + 1]
                   w == f[m + 1]
        <5>1. x \in Nat /\ y \in Nat /\ z \in Nat /\ z > 0 /\ w = y + z /\ (x = y \/ x < y)
          BY <3>2, <4>1
        <5> HIDE DEF x, y, z, w
        <5>2. x < w
          BY <5>1
        <5>. QED  BY <5>2 DEF x, w
      <4>. QED  BY <3>1, <4>2
    <3>. QED  BY <3>4, <3>5
  <2> HIDE DEF R, N
  <2>. QED  BY <1>1, <2>1, <2>2, Climb
<1>4. j \in R /\ ~(j <= i)
  BY <1>3
<1>. QED  BY <1>2, <1>4

-----------------------------------------------------------------------------
(* Division.                                                               *)

LEMMA Division ==
    ASSUME NEW k \in Nat, NEW m \in Nat \ {0}
    PROVE  k \div m \in Nat /\ k % m \in 0 .. m - 1 /\ k = (k \div m) * m + (k % m)
OBVIOUS

\* There is one quotient and one remainder.
LEMMA DivisionUnique ==
    ASSUME NEW m \in Nat \ {0}, NEW y \in Nat, NEW t \in 0 .. m - 1
    PROVE  (y * m + t) \div m = y /\ (y * m + t) % m = t
<1> DEFINE k == y * m + t
           x == k \div m
           r == k % m
<1>1. k \in Nat
  OBVIOUS
<1>2. x \in Nat /\ r \in 0 .. m - 1 /\ k = x * m + r
  BY <1>1, Division
<1>3. y * m + t = x * m + r
  BY <1>2
<1> HIDE DEF k, x, r
<1>4. ~(x < y)
  <2> SUFFICES ASSUME x < y PROVE FALSE
    OBVIOUS
  <2>1. (x + 1) * m <= y * m
    BY <1>2
  <2>2. (x + 1) * m = x * m + m
    BY <1>2
  <2>. QED  BY <1>2, <1>3, <2>1, <2>2
<1>5. ~(y < x)
  <2> SUFFICES ASSUME y < x PROVE FALSE
    OBVIOUS
  <2>1. (y + 1) * m <= x * m
    BY <1>2
  <2>2. (y + 1) * m = y * m + m
    BY <1>2
  <2>. QED  BY <1>2, <1>3, <2>1, <2>2
<1>6. x = y
  BY <1>2, <1>4, <1>5
<1>. QED  BY <1>2, <1>3, <1>6 DEF k, x, r

LEMMA DivisionMonotone ==
    ASSUME NEW m \in Nat \ {0}, NEW k \in Nat, NEW i \in Nat, k <= i
    PROVE  k \div m <= i \div m
<1> DEFINE x == k \div m
           r == k % m
           y == i \div m
           t == i % m
<1>1. x \in Nat /\ r \in 0 .. m - 1 /\ k = x * m + r
  BY Division
<1>2. y \in Nat /\ t \in 0 .. m - 1 /\ i = y * m + t
  BY Division
<1> HIDE DEF x, r, y, t
<1>3. ~(y < x)
  <2> SUFFICES ASSUME y < x PROVE FALSE
    OBVIOUS
  <2>1. (y + 1) * m <= x * m
    BY <1>1, <1>2
  <2>2. (y + 1) * m = y * m + m
    BY <1>2
  <2>. QED  BY <1>1, <1>2, <2>1, <2>2
<1>. QED  BY <1>1, <1>2, <1>3 DEF x, y

\* Dividing twice is dividing by the product.
LEMMA DivisionTwice ==
    ASSUME NEW a \in Nat \ {0}, NEW b \in Nat \ {0}, NEW k \in Nat
    PROVE  a * b \in Nat \ {0} /\ (k \div a) \div b = k \div (a * b)
<1> DEFINE x == k \div a
           r == k % a
           y == x \div b
           t == x % b
<1>1. x \in Nat /\ r \in 0 .. a - 1 /\ k = x * a + r
  BY Division
<1>2. y \in Nat /\ t \in 0 .. b - 1 /\ x = y * b + t
  BY <1>1, Division
<1> DEFINE m == a * b
<1>3. m \in Nat \ {0}
  <2>1. \A u, v \in Nat : u > 0 /\ v > 0 => u * v \in Nat /\ u * v > 0
    OBVIOUS
  <2>. QED  BY <2>1
<1> HIDE DEF x, r, y, t
<1>4. t * a + r \in 0 .. m - 1
  <2>1. t + 1 <= b /\ t \in Nat
    BY <1>2
  <2>2. (t + 1) * a <= b * a
    BY <2>1
  <2>3. (t + 1) * a = t * a + a /\ b * a = m /\ t * a \in Nat
    BY <2>1
  <2> HIDE DEF m
  <2>. QED  BY <1>1, <1>3, <2>2, <2>3
<1>5. k = y * m + (t * a + r)
  <2>1. (y * b + t) * a = y * (a * b) + t * a
    BY <1>2
  <2>2. y * m \in Nat /\ t * a \in Nat
    BY <1>2, <1>3
  <2>. QED  BY <1>1, <1>2, <2>1, <2>2
<1> DEFINE z == t * a + r
<1>6. k \div m = y
  <2> HIDE DEF m, z
  <2>. QED  BY <1>2, <1>3, <1>4, <1>5, DivisionUnique DEF z
<1>. QED  BY <1>3, <1>6 DEF x, y

=============================================================================
