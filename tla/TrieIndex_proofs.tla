-------------------------- MODULE TrieIndex_proofs --------------------------
(***************************************************************************)
(* Proofs about TrieIndex, for tries of any width and depth, any keys and  *)
(* ranges and any number of items and queries.                             *)
(***************************************************************************)
EXTENDS TrieIndex, InductionLemmas

-----------------------------------------------------------------------------
(* Nodes and digits.                                                       *)

\* PrefixCount is the function that its definition describes.
LEMMA PrefixCountDefined ==
    /\ PrefixCount \in [0 .. Depth -> Nat \ {0}]
    /\ PrefixCount[0] = 1
    /\ \A l \in 1 .. Depth : PrefixCount[l] = PrefixCount[l - 1] * Base
<1> DEFINE D == Nat \ {0}
           step == [x \in (1 .. Depth) \X D |-> x[2] * Base]
<1>1. Depth \in Nat /\ Base \in Nat \ {0} /\ 1 \in D
  BY TrieAssumption
<1>2. step \in [(1 .. Depth) \X D -> D]
  <2>1. \A x \in (1 .. Depth) \X D : x[2] \in Nat /\ x[2] > 0
    OBVIOUS
  <2>2. \A a, b \in Nat : a > 0 /\ b > 0 => a * b \in Nat /\ a * b # 0
    OBVIOUS
  <2>. QED  BY <1>1, <2>1, <2>2
<1>3. PICK f \in Recursions(Depth, D, 1, step) : TRUE
  <2> HIDE DEF D, step
  <2>. QED  BY <1>1, <1>2, RecursionExists
<1>4. ASSUME NEW i \in 1 .. Depth PROVE f[i - 1] \in D /\ f[i] = f[i - 1] * Base
  <2>1. i - 1 \in 0 .. Depth /\ f \in [0 .. Depth -> D]
    BY <1>1 DEF Recursions
  <2>2. <<i, f[i - 1]>> \in (1 .. Depth) \X D
    BY <2>1
  <2>. QED  BY <1>1, <2>1, <2>2 DEF Recursions
<1>5. f = [l \in 0 .. Depth |-> IF l = 0 THEN 1 ELSE f[l - 1] * Base]
  BY <1>1, <1>4 DEF Recursions
<1>6. PrefixCount = [l \in 0 .. Depth |-> IF l = 0 THEN 1 ELSE PrefixCount[l - 1] * Base]
  BY <1>5 DEF PrefixCount
<1> DEFINE S == {l \in 0 .. Depth : PrefixCount[l] \in D}
<1>7. 0 \in S /\ \A l \in 0 .. Depth - 1 : l \in S => l + 1 \in S
  <2>1. 0 \in S
    BY <1>1, <1>6
  <2>2. ASSUME NEW l \in 0 .. Depth - 1, l \in S PROVE l + 1 \in S
    <3>1. PrefixCount[l + 1] = PrefixCount[l] * Base
      BY <1>1, <1>6
    <3>. QED  BY <1>1, <2>2, <3>1
  <2>. QED  BY <2>1, <2>2
<1>8. 0 .. Depth \subseteq S
  <2> HIDE DEF S
  <2>. QED  BY <1>1, <1>7, Climb
<1>. QED  BY <1>1, <1>6, <1>8

\* The positions of a set of bits: each bit once, from low to high.
LEMMA OnePositions ==
    ASSUME NEW S \in SUBSET Digit
    PROVE  /\ IsFiniteSet(S)
           /\ getOnePositions(S) \in Seq(Digit)
           /\ Len(getOnePositions(S)) = Cardinality(S) /\ Cardinality(S) \in Nat
           /\ DOMAIN getOnePositions(S) = 1 .. Cardinality(S)
           /\ ToSet(getOnePositions(S)) = S
           /\ \A i, j \in 1 .. Cardinality(S) :
                i < j => getOnePositions(S)[i] < getOnePositions(S)[j]
<1>1. IsFiniteSet(S) /\ S \in SUBSET Nat /\ Cardinality(S) \in Nat
  <2>1. IsFiniteSet(Digit) /\ Digit \in SUBSET Nat
    BY TrieAssumption, FS_Interval DEF Digit
  <2>. QED  BY <2>1, FS_Subset, FS_CardinalityType
<1>2. getOnePositions(S) = Enumeration(S)
  BY DEF getOnePositions, Enumeration, Rank, LowerThan
<1>3. Seq(S) \subseteq Seq(Digit)
  OBVIOUS
<1>. QED  BY <1>1, <1>2, <1>3, EnumerationLists

LEMMA DigitLists == Digit \subseteq Nat /\ Seq(Digit) \subseteq Seq(Nat)
BY TrieAssumption DEF Digit

\* A key has a digit in each level.
LEMMA DigitOfKey ==
    ASSUME NEW k \in Nat, NEW l \in Level
    PROVE  DigitOf(k, l) \in Digit
<1>1. Depth - 1 - l \in 0 .. Depth /\ Base \in Nat \ {0}
  BY TrieAssumption DEF Level
<1>2. PrefixCount[Depth - 1 - l] \in Nat \ {0}
  BY <1>1, PrefixCountDefined
<1>3. \A p \in Nat \ {0} : k \div p \in Nat
  OBVIOUS
<1>4. \A x \in Nat, b \in Nat \ {0} : x % b \in 0 .. b - 1
  OBVIOUS
<1>. QED  BY <1>1, <1>2, <1>3, <1>4 DEF DigitOf, Digit

LEMMA RootNode == Root \in Node
<1>1. 0 \in Level /\ 0 \in 0 .. PrefixCount[0] - 1
  BY TrieAssumption, PrefixCountDefined DEF Level
<1>. QED  BY <1>1 DEF Root, Node

LEMMA NodeShape ==
    ASSUME NEW n \in Node
    PROVE  /\ n[1] \in Level /\ n[2] \in 0 .. PrefixCount[n[1]] - 1
           /\ n = <<n[1], n[2]>>
BY DEF Node

LEMMA ChildNode ==
    ASSUME NEW n \in Node, ~isLeafNode(n), NEW d \in Digit
    PROVE  Child(n, d) \in Node
<1> DEFINE l == n[1]
           p == PrefixCount[l]
<1>1. /\ l \in Level /\ n[2] \in 0 .. p - 1 /\ l + 1 \in Level
      /\ Base \in Nat \ {0} /\ d \in 0 .. Base - 1
  BY NodeShape, TrieAssumption DEF isLeafNode, Level, Digit
<1>2. l \in 0 .. Depth /\ l + 1 \in 1 .. Depth
  BY <1>1, TrieAssumption DEF Level
<1>3. p \in Nat \ {0} /\ PrefixCount[l + 1] = p * Base
  BY <1>2, PrefixCountDefined
<1>4. n[2] * Base + d \in 0 .. p * Base - 1
  <2> DEFINE x == n[2]
  <2>1. x \in Nat /\ x + 1 <= p
    BY <1>1, <1>3
  <2> HIDE DEF x, p
  <2>2. (x + 1) * Base <= p * Base
    BY <1>1, <1>3, <2>1
  <2>3. (x + 1) * Base = x * Base + Base /\ x * Base \in Nat
    BY <1>1, <2>1
  <2>4. x * Base + d \in 0 .. p * Base - 1
    BY <1>1, <1>3, <2>2, <2>3
  <2>. QED  BY <2>4 DEF x
<1>. QED  BY <1>1, <1>3, <1>4 DEF Child, Node

-----------------------------------------------------------------------------
(* Lists in ascending order.                                               *)
\* Each element is above the ones before it.
Increasing(s) == \A a, b \in 1 .. Len(s) : a < b => s[a] < s[b]

\* Appending an element adds it to the set, and keeps the order if it is above the others.
LEMMA AppendLarger ==
    ASSUME NEW s \in Seq(Nat), NEW v \in Nat
    PROVE  /\ ToSet(Append(s, v)) = ToSet(s) \cup {v}
           /\ Increasing(s) /\ (\A e \in ToSet(s) : e < v) => Increasing(Append(s, v))
<1> DEFINE u == Append(s, v)
<1>1. /\ Len(s) \in Nat /\ DOMAIN s = 1 .. Len(s) /\ Len(u) = Len(s) + 1 /\ DOMAIN u = 1 .. Len(s) + 1
      /\ u[Len(s) + 1] = v /\ \A a \in 1 .. Len(s) : u[a] = s[a]
  OBVIOUS
<1> HIDE DEF u
<1>2. ToSet(u) = ToSet(s) \cup {v}
  BY <1>1 DEF ToSet
<1>3. ASSUME Increasing(s), \A e \in ToSet(s) : e < v PROVE Increasing(u)
  <2> SUFFICES ASSUME NEW a \in 1 .. Len(u), NEW b \in 1 .. Len(u), a < b PROVE u[a] < u[b]
    BY DEF Increasing
  <2>1. a \in 1 .. Len(s) /\ u[a] = s[a] /\ s[a] \in ToSet(s)
    BY <1>1 DEF ToSet
  <2>2. CASE b = Len(s) + 1
    BY <1>1, <1>3, <2>1, <2>2
  <2>3. CASE b # Len(s) + 1
    <3>1. b \in 1 .. Len(s)
      BY <1>1, <2>3
    <3>. QED  BY <1>1, <1>3, <2>1, <3>1 DEF Increasing
  <2>. QED  BY <2>2, <2>3
<1>. QED  BY <1>2, <1>3 DEF u


-----------------------------------------------------------------------------
(* The positions that a loop of queryFromMem visits.                       *)

\* First is the place of the first element that lies in S, or one past the last.
LEMMA FirstPlace ==
    ASSUME NEW s \in Seq(Nat), NEW S
    PROVE  /\ First(s, S) \in 1 .. Len(s) + 1
           /\ \A i \in 1 .. First(s, S) - 1 : s[i] \notin S
           /\ First(s, S) <= Len(s) => s[First(s, S)] \in S
<1> DEFINE I == {i \in 1 .. Len(s) : s[i] \in S}
<1>1. Len(s) \in Nat /\ DOMAIN s = 1 .. Len(s)
  OBVIOUS
<1>2. CASE I = {}
  <2>1. ToSet(s) \cap S = {} /\ \A i \in 1 .. Len(s) : s[i] \notin S
    BY <1>1, <1>2 DEF ToSet
  <2>2. First(s, S) = Len(s) + 1
    BY <2>1 DEF First
  <2>. QED  BY <1>1, <2>1, <2>2
<1>3. CASE I # {}
  <2>1. ToSet(s) \cap S # {}
    BY <1>1, <1>3 DEF ToSet
  <2>2. First(s, S) = Min(I)
    BY <1>3, <2>1 DEF First, SelectInSeq
  <2>3. I \in SUBSET Nat
    BY <1>1
  <2> DEFINE m == Min(I)
  <2>4. m \in I /\ \A i \in I : m <= i
    <3> HIDE DEF I
    <3>. QED  BY <1>3, <2>3, MinIsLeast
  <2> HIDE DEF m
  <2>5. m \in 1 .. Len(s) /\ s[m] \in S
    BY <2>4
  <2>6. ASSUME NEW i \in 1 .. m - 1 PROVE s[i] \notin S
    <3>1. i \in 1 .. Len(s) /\ ~(m <= i)
      BY <1>1, <2>5
    <3>. QED  BY <2>4, <3>1
  <2>7. m \in 1 .. Len(s) + 1
    BY <1>1, <2>5
  <2>8. First(s, S) = m
    BY <2>2 DEF m
  <2>. QED  BY <2>5, <2>6, <2>7, <2>8
<1>. QED  BY <1>2, <1>3

\* v is the run of s from a to b: what is before it is not in low, its first
\* element is, none of it is in high, and what follows it is.
RunOf(v, s, low, high, a, b) ==
  /\ v \in Seq(Nat) /\ Len(v) = b - a + 1 /\ b >= a - 1
  /\ \A i \in 1 .. Len(v) : v[i] = s[a + i - 1]
  /\ \A i \in 1 .. a - 1 : s[i] \notin low
  /\ a <= Len(s) => s[a] \in low
  /\ \A i \in a .. b : s[i] \notin high
  /\ b < Len(s) => s[b + 1] \in high

\* A loop visits a run of the positions: those before it are too low, the one
\* that ends it is too high.
LEMMA VisitedRun ==
    ASSUME NEW n, NEW s \in Seq(Nat), NEW lo, NEW hi
    PROVE  /\ From(n, s, lo) \in 1 .. Len(s) + 1
           /\ \E b \in 0 .. Len(s) :
                RunOf(Visited(n, s, lo, hi), s, Digit \ Below(n, lo), Digit \ Below(n, hi + 1),
                      From(n, s, lo), b)
<1> DEFINE v == Visited(n, s, lo, hi)
           low == Digit \ Below(n, lo)
           high == Digit \ Below(n, hi + 1)
           a == First(s, low)
           rest == SubSeq(s, a, Len(s))
           c == First(rest, high)
           b == a + c - 2
<1>1. Len(s) \in Nat
  OBVIOUS
<1>2. /\ a \in 1 .. Len(s) + 1 /\ \A i \in 1 .. a - 1 : s[i] \notin low
      /\ a <= Len(s) => s[a] \in low
  BY FirstPlace
<1>3. v = SubSeq(rest, 1, c - 1)
  BY DEF Visited
<1> HIDE DEF low, high, v, a
<1>4. /\ rest \in Seq(Nat) /\ Len(rest) = Len(s) - a + 1
      /\ \A i \in 1 .. Len(rest) : rest[i] = s[a + i - 1]
  <2>1. Len(s) \in a - 1 .. Len(s)
    BY <1>1, <1>2
  <2>. QED  BY <1>2, <2>1, PartOf
<1> HIDE DEF rest
<1>5. /\ c \in 1 .. Len(rest) + 1 /\ \A i \in 1 .. c - 1 : rest[i] \notin high
      /\ c <= Len(rest) => rest[c] \in high
  BY <1>4, FirstPlace
<1> HIDE DEF c
<1>6. v \in Seq(Nat) /\ Len(v) = c - 1 /\ \A i \in 1 .. c - 1 : v[i] = rest[i]
  <2>1. 1 \in 1 .. Len(rest) + 1 /\ c - 1 \in 1 - 1 .. Len(rest) /\ Len(rest) \in Nat
    BY <1>4, <1>5
  <2>2. /\ v \in Seq(Nat) /\ Len(v) = (c - 1) - 1 + 1
        /\ \A i \in 1 .. (c - 1) - 1 + 1 : v[i] = rest[1 + i - 1]
    BY <1>3, <1>4, <2>1, PartOf
  <2>3. (c - 1) - 1 + 1 = c - 1 /\ \A i \in 1 .. c - 1 : 1 + i - 1 = i
    BY <2>1
  <2>. QED  BY <2>2, <2>3
<1>7. b \in 0 .. Len(s) /\ b >= a - 1 /\ c - 1 = b - a + 1
  BY <1>1, <1>2, <1>4, <1>5
<1>8. \A i \in 1 .. Len(v) : v[i] = s[a + i - 1]
  BY <1>2, <1>4, <1>5, <1>6
<1>9. ASSUME NEW i \in a .. b PROVE s[i] \notin high
  <2>1. i - a + 1 \in 1 .. c - 1 /\ i - a + 1 \in 1 .. Len(rest) /\ a + (i - a + 1) - 1 = i
    BY <1>1, <1>2, <1>4, <1>5
  <2>. QED  BY <1>4, <1>5, <2>1
<1>10. ASSUME b < Len(s) PROVE s[b + 1] \in high
  <2>1. c <= Len(rest) /\ c \in 1 .. Len(rest) /\ a + c - 1 = b + 1
    BY <1>1, <1>2, <1>4, <1>5, <1>10
  <2>. QED  BY <1>4, <1>5, <2>1
<1> HIDE DEF b
<1>11. v \in Seq(Nat) /\ Len(v) = b - a + 1
  BY <1>6, <1>7
<1>12. RunOf(v, s, low, high, a, b)
  BY <1>2, <1>7, <1>8, <1>9, <1>10, <1>11 DEF RunOf
<1>13. a = From(n, s, lo)
  BY DEF a, low, From
<1>. QED  BY <1>2, <1>7, <1>12, <1>13 DEF v, low, high

\* If the positions are those of a set of bits, it visits each whose prefix
\* lies in the range, from low to high.
LEMMA VisitedBits ==
    ASSUME NEW n \in Node, NEW B \in SUBSET Digit, NEW lo \in Nat, NEW hi \in Nat
    PROVE  /\ ToSet(Visited(n, getOnePositions(B), lo, hi))
                = {d \in B : lo <= KeyOf(n, d) /\ KeyOf(n, d) <= hi}
           /\ Increasing(Visited(n, getOnePositions(B), lo, hi))
<1> DEFINE s == getOnePositions(B)
           v == Visited(n, s, lo, hi)
           low == Digit \ Below(n, lo)
           high == Digit \ Below(n, hi + 1)
<1>1. /\ s \in Seq(Nat) /\ Len(s) \in Nat /\ ToSet(s) = B /\ DOMAIN s = 1 .. Len(s)
      /\ \A i \in 1 .. Len(s) : s[i] \in Digit
      /\ \A i, j \in 1 .. Len(s) : i < j => s[i] < s[j]
  <2>1. Seq(Digit) \subseteq Seq(Nat)
    BY TrieAssumption DEF Digit
  <2> HIDE DEF s
  <2>2. s \in Seq(Digit) /\ ToSet(s) = B /\ \A i, j \in 1 .. Len(s) : i < j => s[i] < s[j]
    BY OnePositions DEF s
  <2>. QED  BY <2>1, <2>2
<1>2. /\ Digit \subseteq Nat
      /\ \A d \in Digit : KeyOf(n, d) \in Nat /\ (d \in low <=> lo <= KeyOf(n, d))
                          /\ (d \in high <=> ~(KeyOf(n, d) <= hi))
      /\ \A d, e \in Digit : d < e => KeyOf(n, d) < KeyOf(n, e)
  <2>1. Digit \subseteq Nat /\ n[2] * Base \in Nat
    <3>1. n[2] \in Nat /\ Base \in Nat /\ Digit \subseteq Nat
      BY NodeShape, PrefixCountDefined, TrieAssumption DEF Digit
    <3>. QED  BY <3>1
  <2> DEFINE x == n[2] * Base
  <2>2. \A d \in Digit : KeyOf(n, d) = x + d
    BY DEF KeyOf
  <2> HIDE DEF x
  <2>. QED  BY <2>1, <2>2 DEF Below, x
<1>3. PICK a \in 1 .. Len(s) + 1, b \in 0 .. Len(s) : RunOf(v, s, low, high, a, b)
  <2> HIDE DEF s
  <2>. QED  BY <1>1, VisitedRun
<1> HIDE DEF v, low, high, s
<1>4. \A i \in 1 .. Len(v) : a + i - 1 \in 1 .. Len(s) /\ a + i - 1 \in a .. b
  BY <1>1, <1>3 DEF RunOf
<1>5. Increasing(v)
  <2> SUFFICES ASSUME NEW i \in 1 .. Len(v), NEW j \in 1 .. Len(v), i < j PROVE v[i] < v[j]
    BY DEF Increasing
  <2>1. a + i - 1 < a + j - 1
    BY <1>4
  <2>. QED  BY <1>1, <1>3, <1>4, <2>1 DEF RunOf
<1>6. ASSUME NEW i \in 1 .. Len(s)
      PROVE  i \in a .. b <=> lo <= KeyOf(n, s[i]) /\ KeyOf(n, s[i]) <= hi
  <2> DEFINE K(j) == KeyOf(n, s[j])
  <2>1. \A j, k \in 1 .. Len(s) : K(j) \in Nat /\ (j < k => K(j) < K(k))
    BY <1>1, <1>2
  <2>2. \A j \in 1 .. Len(s) : (s[j] \in low <=> lo <= K(j)) /\ (s[j] \in high <=> ~(K(j) <= hi))
    BY <1>1, <1>2
  <2> HIDE DEF K
  <2>3. CASE i < a
    <3>1. i \in 1 .. a - 1
      BY <2>3
    <3>2. ~(lo <= K(i))
      BY <1>3, <2>2, <3>1 DEF RunOf
    <3>. QED  BY <2>3, <3>2 DEF K
  <2>4. CASE i > b
    <3>1. b + 1 \in 1 .. Len(s) /\ s[b + 1] \in high /\ (i = b + 1 \/ b + 1 < i)
      BY <1>1, <1>3, <2>4 DEF RunOf
    <3>2. ~(K(b + 1) <= hi) /\ K(b + 1) \in Nat
      BY <2>1, <2>2, <3>1
    <3>3. ~(K(i) <= hi)
      BY <2>1, <3>1, <3>2
    <3>. QED  BY <2>4, <3>3 DEF K
  <2>5. CASE i >= a /\ i <= b
    <3>1. a \in 1 .. Len(s) /\ s[a] \in low /\ (i = a \/ a < i)
      BY <1>1, <1>3, <2>5 DEF RunOf
    <3>2. lo <= K(a) /\ K(a) \in Nat
      BY <2>1, <2>2, <3>1
    <3>3. lo <= K(i)
      BY <2>1, <3>1, <3>2
    <3>4. K(i) <= hi
      <4>1. i \in a .. b
        BY <2>5
      <4>. QED  BY <1>3, <2>2, <4>1 DEF RunOf
    <3>. QED  BY <2>5, <3>3, <3>4 DEF K
  <2>. QED  BY <1>3, <2>3, <2>4, <2>5 DEF K
<1>7. \A i \in a .. b : i \in 1 .. Len(s) /\ i - a + 1 \in 1 .. Len(v) /\ a + (i - a + 1) - 1 = i
  <2>1. Len(v) = b - a + 1 /\ Len(s) \in Nat
    BY <1>1, <1>3 DEF RunOf
  <2>. QED  BY <2>1
<1>8. ToSet(v) = {s[i] : i \in a .. b}
  <2>1. DOMAIN v = 1 .. Len(v) /\ \A i \in 1 .. Len(v) : v[i] = s[a + i - 1]
    <3>1. v \in Seq(Nat)
      BY <1>3, Zenon DEF RunOf
    <3>2. \A i \in 1 .. Len(v) : v[i] = s[a + i - 1]
      BY <1>3, Zenon DEF RunOf
    <3>. QED  BY <3>1, <3>2
  <2>2. ToSet(v) \subseteq {s[i] : i \in a .. b}
    BY <1>4, <2>1 DEF ToSet
  <2>3. ASSUME NEW i \in a .. b PROVE s[i] \in ToSet(v)
    <3>1. v[i - a + 1] = s[i] /\ i - a + 1 \in DOMAIN v
      BY <1>7, <2>1
    <3>. QED  BY <3>1 DEF ToSet
  <2>. QED  BY <2>2, <2>3
<1>9. B = {s[i] : i \in 1 .. Len(s)}
  BY <1>1 DEF ToSet
<1>10. ToSet(v) = {d \in B : lo <= KeyOf(n, d) /\ KeyOf(n, d) <= hi}
  BY <1>6, <1>7, <1>8, <1>9
<1>. QED  BY <1>5, <1>10 DEF v, s

\* The elements of the lists of a leaf at positions s.

-----------------------------------------------------------------------------
(* The way of a key through the levels.                                    *)

\* The divisors of two levels differ by the factor Base.
LEMMA Divisors ==
    ASSUME NEW l \in Level
    PROVE  /\ l \in Nat /\ Depth - 1 - l \in 0 .. Depth /\ Depth - l \in 0 .. Depth
           /\ PrefixCount[Depth - 1 - l] \in Nat \ {0} /\ PrefixCount[Depth - l] \in Nat \ {0}
           /\ PrefixCount[Depth - l] = PrefixCount[Depth - 1 - l] * Base
<1>1. /\ l \in Nat /\ Depth - 1 - l \in 0 .. Depth /\ Depth - l \in 1 .. Depth
      /\ Depth - l \in 0 .. Depth /\ Depth - l - 1 = Depth - 1 - l
  BY TrieAssumption DEF Level
<1>. QED  BY <1>1, PrefixCountDefined

\* The node above a digit and the digit make the prefix of the key.
LEMMA KeyPath ==
    ASSUME NEW k \in Nat, NEW l \in Level
    PROVE  /\ KeyOf(NodeOf(k, l), DigitOf(k, l)) = PrefixIn(l, k)
           /\ PrefixIn(l, k) \in Nat
           /\ l + 1 \in Level => Child(NodeOf(k, l), DigitOf(k, l)) = NodeOf(k, l + 1)
           /\ l = Depth - 1 => PrefixIn(l, k) = k
<1> DEFINE p == PrefixCount[Depth - 1 - l]
           x == k \div p
           y == k \div PrefixCount[Depth - l]
<1>1. /\ l \in Nat /\ p \in Nat \ {0} /\ PrefixCount[Depth - l] = p * Base
      /\ Base \in Nat \ {0} /\ Depth \in Nat
  BY Divisors, TrieAssumption
<1>2. x \in Nat /\ y = x \div Base
  <2> HIDE DEF p
  <2>1. x \in Nat
    BY <1>1, Division
  <2>2. (k \div p) \div Base = k \div (p * Base)
    BY <1>1, DivisionTwice, Zenon
  <2>. QED  BY <1>1, <2>1, <2>2
<1>3. x = y * Base + (x % Base)
  <2> HIDE DEF x, y
  <2>. QED  BY <1>1, <1>2, Division
<1>4. DigitOf(k, l) = x % Base /\ PrefixIn(l, k) = x /\ NodeOf(k, l) = <<l, y>>
  BY DEF DigitOf, PrefixIn, NodeOf
<1>5. NodeOf(k, l + 1) = <<l + 1, x>>
  <2>1. Depth - (l + 1) = Depth - 1 - l
    BY <1>1
  <2>. QED  BY <2>1 DEF NodeOf
<1>6. ASSUME l = Depth - 1 PROVE x = k
  <2>1. Depth - 1 - l = 0
    BY <1>1, <1>6
  <2>2. p = 1
    BY <2>1, PrefixCountDefined
  <2>. QED  BY <2>2
<1> HIDE DEF x, y
<1>. QED  BY <1>2, <1>3, <1>4, <1>5, <1>6 DEF KeyOf, Child

LEMMA RootOfKey ==
    ASSUME NEW k \in 0 .. PrefixCount[Depth] - 1
    PROVE  k \in Nat /\ NodeOf(k, 0) = Root
<1>1. PrefixCount[Depth] \in Nat \ {0}
  <2>1. Depth \in 0 .. Depth
    BY TrieAssumption
  <2>. QED  BY <2>1, PrefixCountDefined
<1>2. k \in Nat /\ k \div PrefixCount[Depth] = 0
  <2> DEFINE m == PrefixCount[Depth]
  <2>1. m \in Nat \ {0} /\ k \in 0 .. m - 1 /\ 0 * m + k = k
    BY <1>1
  <2> HIDE DEF m
  <2>2. (0 * m + k) \div m = 0
    BY <2>1, DivisionUnique, Zenon
  <2>. QED  BY <2>1, <2>2 DEF m
<1>3. Depth - 0 = Depth
  BY TrieAssumption
<1>. QED  BY <1>2, <1>3 DEF NodeOf, Root

\* Its nodes are nodes of the trie.
LEMMA NodeOfKey ==
    ASSUME NEW k \in 0 .. PrefixCount[Depth] - 1
    PROVE  \A l \in Level : NodeOf(k, l) \in Node
<1> DEFINE S == {l \in Level : NodeOf(k, l) \in Node}
<1>1. k \in Nat /\ 0 \in S
  <2>1. 0 \in Level
    BY TrieAssumption DEF Level
  <2>. QED  BY <2>1, RootOfKey, RootNode
<1>2. ASSUME NEW l \in 0 .. Depth - 1 - 1, l \in S PROVE l + 1 \in S
  <2>1. l \in Level /\ l + 1 \in Level /\ l # Depth - 1
    BY TrieAssumption DEF Level
  <2>2. DigitOf(k, l) \in Digit /\ Child(NodeOf(k, l), DigitOf(k, l)) = NodeOf(k, l + 1)
    BY <1>1, <2>1, DigitOfKey, KeyPath
  <2>3. NodeOf(k, l) \in Node /\ ~isLeafNode(NodeOf(k, l))
    BY <1>2, <2>1 DEF isLeafNode, NodeOf
  <2>4. Child(NodeOf(k, l), DigitOf(k, l)) \in Node
    BY <2>2, <2>3, ChildNode
  <2>. QED  BY <2>1, <2>2, <2>4
<1>3. Depth - 1 \in Nat /\ Level = 0 .. Depth - 1
  BY TrieAssumption DEF Level
<1>4. 0 .. Depth - 1 \subseteq S
  <2>1. \A l \in 0 .. Depth - 1 - 1 : l \in S => l + 1 \in S
    BY <1>2
  <2> HIDE DEF S
  <2>. QED  BY <1>1, <1>3, <2>1, Climb, Zenon
<1>. QED  BY <1>3, <1>4

LEMMA PrefixMonotone ==
    ASSUME NEW l \in Level, NEW k \in Nat, NEW i \in Nat, k <= i
    PROVE  PrefixIn(l, k) <= PrefixIn(l, i)
BY Divisors, DivisionMonotone DEF PrefixIn

-----------------------------------------------------------------------------
(* The inductive invariant.                                                *)

Thread == {"index", "command"}
Fill == [node : Node, at : {"new", "fill", "done"}, word : Nat, todo : SUBSET Digit]
Query ==
  [pc : {"idle", "walk", "spin", "abort", "dangling"}, lo : Nat, hi : Nat, before : SUBSET Nat,
   stale : BOOLEAN, late : BOOLEAN, torn : BOOLEAN, empty : BOOLEAN]
Walk == [cur : Seq(Node), next : Seq(Node), pos : Nat, scan : BOOLEAN]
Merge ==
  [list : Keys \cup {NULL}, at : Nat \ {0}, idx : Nat \ {0}, temp : Seq(Nat),
   step : {"turn", "count", "next"}]
TreeOK ==
  /\ child \in [Node -> SUBSET Digit] /\ bits \in [Node -> SUBSET Digit]
  /\ lists \in [Keys -> Seq(Nat)] /\ items \in Seq(Keys) /\ ins \in Keys \cup {NULL}
  /\ slot \in {"none", "linked", "data", "counted"}
PositionsOK ==
  cache \in [Node -> Seq(Digit) \cup {NULL}] /\ fill \in [Thread -> Fill \cup {NULL}]
WriteOK ==
  /\ pc \in {"run", "open", "write", "written", "freed", "crashed"}
  /\ bq \in Seq(Node) /\ intact \in BOOLEAN
QueryOK == q \in Query /\ walk \in Walk /\ merge \in Merge /\ ret \in Seq(Nat)
TypeOK == TreeOK /\ PositionsOK /\ WriteOK /\ QueryOK

\* The child is linked before its bit is set, and only keys that are added have
\* a list.
Linked ==
  \A n \in Node :
    /\ bits[n] \subseteq child[n]
    /\ isLeafNode(n) => \A d \in child[n] : KeyOf(n, d) \in Keys

\* A child without its bit is on the way of the key that is being added.
Settled ==
  \A n \in Node : \A d \in child[n] \ bits[n] :
    ins # NULL /\ \E l \in Level : n = NodeOf(ins, l) /\ d = DigitOf(ins, l)
Inserting ==
  /\ ins # NULL => pc \in {"run", "crashed"} /\ Len(items) > 0 /\ items[Len(items)] = ins
  /\ ins = NULL => slot = "none"

\* The entries of bitPosition are bits of the node, from low to high.
Positions ==
  \A n \in Node : cache[n] # NULL => Increasing(cache[n]) /\ ToSet(cache[n]) \subseteq bits[n]

\* A thread that fills bitPosition has the bits of a word still to store, above
\* those that are stored; what is stored comes from the words that it has read.
FillsUp(f) ==
  /\ cache[f.node] # NULL /\ f.todo \subseteq bits[f.node]
  /\ \A d \in f.todo : d < f.word * WordBits
  /\ \A e \in ToSet(cache[f.node]) : e < f.word * WordBits /\ \A d \in f.todo : e < d
Fills ==
  /\ \A t \in Thread :
       /\ fill[t] # NULL /\ fill[t].at = "new" => fill[t].todo = {}
       /\ Filling(t) => FillsUp(fill[t])
  /\ Filling("index") /\ Filling("command") => fill["index"].node # fill["command"].node

\* The index thread computes no positions before the trie is written, and those
\* of a leaf that it has recounted are those of the leaf that it writes next.
IndexFills ==
  /\ pc = "run" => fill["index"] = NULL
  /\ fill["index"] # NULL /\ fill["index"].at = "done" /\ pc # "crashed" =>
       bq # <<>> /\ Head(bq) = fill["index"].node /\ cache[fill["index"].node] # NULL

\* Before the trie is written each list holds the positions of its key, in
\* order; until it is deleted every digit of the key has its bit.
ListExact(k) == Increasing(lists[k]) /\ ToSet(lists[k]) = {v \in Done : items[v] = k}
Entered(v) == Missing(items[v]) = {}
Added ==
  /\ pc # "freed" => \A v \in Done : Entered(v)
  /\ pc = "run" => \A k \in Keys : ListExact(k)

\* What the command thread computes are the positions of the first node.
CommandFills ==
  fill["command"] # NULL =>
    q.pc \in {"walk", "spin"} /\ merge.list = NULL /\ walk.cur # <<>> /\ fill["command"].node = first

Core ==
  /\ TypeOK /\ Linked /\ Settled /\ Inserting /\ Positions /\ Fills /\ IndexFills
  /\ Added /\ CommandFills /\ FailsOnlyIncomplete
-----------------------------------------------------------------------------
(* The walk of a query that has read complete positions only and that the  *)
(* write of the trie has not overtaken.                                    *)

\* A flow that the walk has yet to return lies below a node in one of the
\* queues; in the first node its position is among those still to come.
Reached(v, s) == \E i \in 1 .. Len(s) : s[i] = NodeOf(items[v], s[i][1])
Pending(v) ==
  /\ walk.cur # <<>> /\ first = NodeOf(items[v], first[1])
  /\ \A p \in 1 .. walk.pos : cache[first][p] # DigitOf(items[v], first[1])
Covered ==
  /\ q.before \subseteq Found(q.lo, q.hi) \cap Done
  /\ \A v \in q.before :
       \/ v \in ToSet(ret) \/ Pending(v) \/ Reached(v, walk.next)
       \/ walk.cur # <<>> /\ Reached(v, Tail(walk.cur))

\* What the loops read in the first node stays as it is until they leave it.
Halfway == walk.pos > 0 \/ merge.list # NULL \/ (walk.scan /\ ~q.empty)
PosOK ==
  /\ walk.cur = <<>> => walk.pos = 0 /\ merge.list = NULL /\ ~walk.scan
  /\ Halfway =>
       cache[first] # NULL /\ fill["command"] = NULL /\ walk.pos <= Len(cache[first])
  /\ merge.list # NULL =>
       /\ isLeafNode(first) /\ walk.pos < Len(cache[first])
       /\ merge.list = KeyOf(first, cache[first][walk.pos + 1])
  /\ walk.scan /\ ~q.empty =>
       \A p \in walk.pos + 1 .. Len(cache[first]) :
         PrefixIn(first[1], q.lo) <= KeyOf(first, cache[first][p])

\* The queues hold nodes of two levels, from left to right.
InLevel(l) ==
  /\ \A i \in 1 .. Len(walk.cur) : walk.cur[i][1] = l
  /\ \A i \in 1 .. Len(walk.next) : walk.next[i][1] = l + 1
  /\ l # Depth - 1 => ret = <<>>
  /\ l = Depth - 1 => walk.next = <<>>
Leftward(s) == \A i, j \in 1 .. Len(s) : i < j => s[i][2] < s[j][2]

\* x is a prefix to the left of the position that comes next.
Behind(x) ==
  walk.cur # <<>> =>
    \/ x < first[2] * Base
    \/ \E p \in 1 .. walk.pos : x = KeyOf(first, cache[first][p])
Sweeps ==
  /\ \E l \in Level : InLevel(l)
  /\ Leftward(walk.cur) /\ Leftward(walk.next)
  /\ \A i \in 1 .. Len(walk.next) : Behind(walk.next[i][2])

\* The merge has taken what was found before up to idx, and of the list what
\* comes before Upcoming.
Low == IF q.empty THEN 0 ELSE q.lo
Upcoming == IF merge.step = "turn" THEN merge.at ELSE merge.at + 1
MergeCovers ==
  LET k == merge.list
  IN /\ merge.at <= Len(lists[k]) + 1 /\ merge.idx <= Len(ret) + 1
     /\ \A j \in 1 .. merge.idx - 1 : ret[j] \in ToSet(merge.temp)
     /\ \A i \in 1 .. Len(lists[k]) : lists[k][i] \in q.before =>
          /\ i < Upcoming => lists[k][i] \in ToSet(merge.temp)
          /\ merge.step = "next" => i <= merge.at
Returned ==
  /\ ToSet(ret) \subseteq Found(Low, q.hi) /\ Increasing(ret)
  /\ \A v \in ToSet(ret) : Behind(items[v])
MergeSorts ==
  LET k == merge.list
  IN /\ Low <= k /\ k <= q.hi
     /\ Increasing(merge.temp)
     /\ \A w \in ToSet(merge.temp) :
          /\ w \in Found(Low, q.hi)
          /\ w \in ToSet(ret) \/ items[w] = k
          /\ \A j \in merge.idx .. Len(ret) : w < ret[j]
          /\ \A i \in 1 .. Len(lists[k]) : Upcoming <= i => w < lists[k][i]
          /\ ins = k /\ Upcoming <= Len(lists[k]) + 1 => w < Len(items)

Walking == pc = "run" /\ q.pc = "walk" /\ ~q.stale /\ ~q.late
WalkExact ==
  Walking =>
    /\ Covered /\ PosOK /\ Sweeps
    /\ merge.list # NULL => MergeCovers
    /\ ~q.torn => Returned /\ (merge.list # NULL => MergeSorts)

Idle == q.pc = "idle" => merge.list = NULL /\ ret = <<>>

IInv == Core /\ Idle /\ WalkExact

-----------------------------------------------------------------------------
(* What changes which part of the invariant.                               *)

\* A step of the command thread that changes only its query.
LEMMA QueryStep ==
    ASSUME Core, UNCHANGED <<tree, positions, bq, intact>>, QueryOK',
           pc' = pc \/ (Alive /\ pc' = "crashed" /\ q'.pc = "abort"),
           fill["command"] = NULL \/ UNCHANGED <<q, walk, merge>>,
           pc = "crashed" => q'.pc = q.pc,
           q'.pc \in {"spin", "abort"} => q'.stale
    PROVE  Core'
<1>1. TypeOK'
  BY DEF Core, TypeOK, TreeOK, PositionsOK, WriteOK, tree, positions
<1>2. Linked' /\ Settled' /\ Positions'
  BY DEF Core, Linked, Settled, Positions, tree, positions
<1>3. Inserting' /\ IndexFills'
  BY DEF Core, Inserting, IndexFills, tree, positions
<1>4. Fills'
  BY DEF Core, Fills, FillsUp, Filling, tree, positions
<1>5. Added'
  BY DEF Core, Added, Entered, Missing, ListExact, Done, Alive, tree
<1>6. CommandFills'
  BY DEF Core, CommandFills, first, positions
<1>7. FailsOnlyIncomplete'
  BY DEF Core, FailsOnlyIncomplete
<1>. QED  BY <1>1, <1>2, <1>3, <1>4, <1>5, <1>6, <1>7 DEF Core

\* A step of addItem: no bit is cleared.
LEMMA AddStep ==
    ASSUME Core, UNCHANGED <<positions, pc, bq, intact, q, walk, merge, ret>>,
           \A n \in Node : bits[n] \subseteq bits'[n],
           TreeOK', Linked', Settled', Inserting', Added'
    PROVE  Core'
<1>1. TypeOK'
  BY DEF Core, TypeOK, PositionsOK, WriteOK, QueryOK, positions
<1>2. Positions'
  BY DEF Core, Positions, positions
<1>3. IndexFills' /\ CommandFills' /\ FailsOnlyIncomplete'
  BY DEF Core, IndexFills, CommandFills, first, FailsOnlyIncomplete, positions
<1>4. Fills'
  <2>1. ASSUME NEW t \in Thread, Filling(t) PROVE FillsUp(fill[t])'
    <3>1. fill[t].node \in Node
      BY <2>1 DEF Core, TypeOK, PositionsOK, Filling, Fill
    <3>2. FillsUp(fill[t])
      BY <2>1 DEF Core, Fills
    <3>3. fill[t].todo \subseteq bits'[fill[t].node]
      BY <3>1, <3>2 DEF FillsUp
    <3>. QED  BY <3>2, <3>3 DEF FillsUp, positions
  <2>. QED  BY <2>1 DEF Core, Fills, Filling, positions
<1>. QED  BY <1>1, <1>2, <1>3, <1>4 DEF Core

\* A step in which a thread computes positions.
LEMMA PositionsStep ==
    ASSUME Core, UNCHANGED <<tree, pc, bq, intact, q, walk, merge, ret>>,
           PositionsOK', Positions', Fills', IndexFills',
           fill'["command"] # NULL =>
             \/ fill["command"] # NULL /\ fill'["command"].node = fill["command"].node
             \/ Visits /\ fill'["command"].node = first
    PROVE  Core'
<1>1. TypeOK'
  BY DEF Core, TypeOK, TreeOK, WriteOK, QueryOK, tree
<1>2. Linked' /\ Settled'
  BY DEF Core, Linked, Settled, tree
<1>3. Inserting' /\ FailsOnlyIncomplete'
  BY DEF Core, Inserting, FailsOnlyIncomplete, tree
<1>4. Added'
  BY DEF Core, Added, Entered, Missing, ListExact, Done, tree
<1>5. CommandFills'
  BY DEF Core, CommandFills, first, Visits, Walks
<1>. QED  BY <1>1, <1>2, <1>3, <1>4, <1>5 DEF Core

\* A node whose positions are complete.
LEMMA CompletePositions ==
    ASSUME TreeOK, PositionsOK, Linked, Positions, NEW n \in Node,
           cache[n] # NULL \/ elemCount(n) = 0, ~Incomplete(n)
    PROVE  /\ bits[n] = child[n] \/ elemCount(n) = 0
           /\ \A junk : bitPosition(n, junk) = getOnePositions(child[n])
           /\ cache[n] # NULL => cache[n] = getOnePositions(child[n])
<1>1. /\ child[n] \in SUBSET Digit /\ bits[n] \subseteq child[n]
      /\ cache[n] # NULL => cache[n] \in Seq(Digit)
  BY DEF TreeOK, PositionsOK, Linked
<1>2. IsFiniteSet(child[n]) /\ elemCount(n) \in Nat /\ elemCount(n) = Cardinality(child[n])
  BY <1>1, OnePositions DEF elemCount
<1> DEFINE m == elemCount(n)
           c == cache[n]
           s == getOnePositions(child[n])
<1>3. CASE cache[n] # NULL
  <2>1. c \in Seq(Digit) /\ Increasing(c) /\ ToSet(c) \subseteq bits[n] /\ Len(c) = m
    BY <1>1, <1>3 DEF Positions, Incomplete
  <2>2. c \in Seq(Nat) /\ \A i, j \in 1 .. Len(c) : i < j => c[i] < c[j]
    <3>2. c \in Seq(Nat)
      BY <2>1, DigitLists
    <3>. QED  BY <2>1, <3>2 DEF Increasing
  <2>3. Cardinality(ToSet(c)) = m /\ c = Enumeration(ToSet(c))
    <3> HIDE DEF c, m
    <3>. QED  BY <2>1, <2>2, EnumerationUnique
  <2>4. ToSet(c) = child[n]
    <3>1. ToSet(c) \subseteq child[n]
      BY <1>1, <2>1
    <3>. QED  BY <1>2, <2>3, <3>1, FS_Subset
  <2>5. c = s
    <3>1. c = Enumeration(child[n])
      BY <2>3, <2>4
    <3> HIDE DEF c
    <3>. QED  BY <3>1 DEF getOnePositions, Enumeration, Rank, LowerThan
  <2>6. ASSUME NEW junk PROVE bitPosition(n, junk) = c
    <3>1. bitPosition(n, junk) = [i \in 1 .. m |-> IF i <= Len(c) THEN c[i] ELSE junk[i]]
      BY DEF bitPosition
    <3> HIDE DEF c, m
    <3>2. c = [i \in 1 .. m |-> c[i]] /\ m = Len(c)
      BY <2>1
    <3>3. \A i \in 1 .. m : i <= Len(c)
      <4>1. m \in Nat /\ \A i \in 1 .. m : i <= m
        BY <1>2 DEF m
      <4>. QED  BY <3>2, <4>1
    <3>. QED  BY <3>1, <3>2, <3>3
  <2>7. bits[n] = child[n]
    BY <1>1, <2>1, <2>4
  <2>. QED  BY <2>5, <2>6, <2>7
<1>4. CASE cache[n] = NULL
  <2>1. m = 0 /\ child[n] = {}
    BY <1>2, <1>4, FS_EmptySet
  <2>2. \A f, junk : [i \in 1 .. 0 |-> IF i <= Len(f) THEN f[i] ELSE junk[i]] = <<>>
    OBVIOUS
  <2>3. \A junk : bitPosition(n, junk) = <<>>
    BY <2>1, <2>2 DEF bitPosition
  <2>4. s = <<>>
    <3>1. Len(s) = 0 /\ s \in Seq(Digit)
      BY <1>1, <1>2, <2>1, OnePositions
    <3>. QED  BY <3>1
  <2>. QED  BY <1>4, <2>1, <2>3, <2>4
<1>. QED  BY <1>3, <1>4

-----------------------------------------------------------------------------
(* The steps of both threads that compute positions.                       *)

LEMMA CoreInit == Init => Core
<1> SUFFICES ASSUME Init PROVE Core
  OBVIOUS
<1>1. TreeOK /\ PositionsOK /\ WriteOK
  BY DEF Init, TreeOK, PositionsOK, WriteOK, Thread
<1>2. QueryOK
  BY DEF Init, QueryOK, NoQuery, NoWalk, NoMerge, Query, Walk, Merge
<1>3. Linked /\ Settled /\ Inserting /\ Positions /\ IndexFills /\ CommandFills
  BY DEF Init, Linked, Settled, Inserting, Positions, IndexFills, CommandFills
<1>4. Fills /\ FailsOnlyIncomplete
  BY DEF Init, Fills, Filling, Thread, FailsOnlyIncomplete, NoQuery
<1>5. Added
  <2>1. items = <<>> /\ DOMAIN items = {} /\ Done = {} /\ \A k \in Keys : lists[k] = <<>>
    BY DEF Init, Done
  <2>2. Increasing(<<>>) /\ ToSet(<<>>) = {}
    BY DEF Increasing, ToSet
  <2>. QED  BY <2>1, <2>2 DEF Added, ListExact
<1>. QED  BY <1>1, <1>2, <1>3, <1>4, <1>5 DEF Core, TypeOK

\* What the two threads have to do with a bitPosition.
LEMMA startFillCore ==
    ASSUME Core, NEW t \in Thread, NEW n \in Node, startFill(t, n),
           t = "index" => pc # "run",
           t = "command" => Visits /\ n = first
    PROVE  Core'
<1> DEFINE f == [node |-> n, at |-> "new", word |-> 0, todo |-> {}]
<1>1. /\ fill \in [Thread -> Fill \cup {NULL}] /\ fill[t] = NULL
      /\ fill' = [fill EXCEPT ![t] = f] /\ f \in Fill
      /\ UNCHANGED <<tree, cache, pc, bq, intact, q, walk, merge, ret>>
  BY DEF Core, TypeOK, PositionsOK, startFill, Fill, written, query
<1>2. f.node = n /\ f.at = "new" /\ f.todo = {}
  OBVIOUS
<1> HIDE DEF f
<1>3. fill'[t] = f /\ \A u \in Thread : u # t => fill'[u] = fill[u]
  BY <1>1
<1>4. PositionsOK'
  BY <1>1 DEF Core, TypeOK, PositionsOK
<1>5. Positions'
  BY <1>1 DEF Core, Positions, tree
<1>6. Fills'
  <2>1. \A u \in Thread : Filling(u)' => Filling(u) /\ fill'[u] = fill[u]
    BY <1>2, <1>3 DEF Filling
  <2>2. \A u \in Thread : Filling(u) => FillsUp(fill[u])
    BY DEF Core, Fills
  <2>3. \A u \in Thread : Filling(u)' => FillsUp(fill[u])'
    BY <1>1, <2>1, <2>2 DEF FillsUp, tree
  <2>4. \A u \in Thread : fill'[u] # NULL /\ fill'[u].at = "new" => fill'[u].todo = {}
    BY <1>2, <1>3 DEF Core, Fills
  <2>5. Filling("index")' /\ Filling("command")' => fill'["index"].node # fill'["command"].node
    BY <2>1 DEF Core, Fills, Thread
  <2>. QED  BY <2>3, <2>4, <2>5 DEF Fills
<1>7. IndexFills'
  BY <1>1, <1>2, <1>3 DEF Core, IndexFills, Thread
<1>8. fill'["command"] # NULL =>
             \/ fill["command"] # NULL /\ fill'["command"].node = fill["command"].node
             \/ Visits /\ fill'["command"].node = first
  BY <1>2, <1>3 DEF Thread
<1>. QED  BY <1>1, <1>4, <1>5, <1>6, <1>7, <1>8, PositionsStep

\* What is left of the work of a thread that has nothing more to fill.
LEMMA OverFill ==
    ASSUME NEW t \in Thread, NEW f \in Fill
    PROVE  /\ Over(t, f) \in Fill \cup {NULL}
           /\ Over(t, f) # NULL =>
                /\ t = "index" /\ Recounted(f.node)
                /\ Over(t, f).at = "done" /\ Over(t, f).node = f.node
BY DEF Over, Fill

LEMMA newBitPositionCore ==
    ASSUME Core, NEW t \in Thread, newBitPosition(t)
    PROVE  Core'
<1> DEFINE n == fill[t].node
           g == [fill[t] EXCEPT !.at = "fill"]
           F(u) == IF u = t THEN g
                   ELSE IF Filling(u) /\ fill[u].node = n THEN Over(u, fill[u]) ELSE fill[u]
<1>1. /\ fill \in [Thread -> Fill \cup {NULL}] /\ cache \in [Node -> Seq(Digit) \cup {NULL}]
      /\ fill[t] \in Fill /\ fill[t] # NULL /\ fill[t].at = "new" /\ fill[t].todo = {} /\ n \in Node
      /\ cache' = [cache EXCEPT ![n] = <<>>] /\ fill' = [u \in Thread |-> F(u)]
      /\ UNCHANGED <<tree, pc, bq, intact, q, walk, merge, ret>>
  <2>1. fill \in [Thread -> Fill \cup {NULL}] /\ cache \in [Node -> Seq(Digit) \cup {NULL}]
    BY DEF Core, TypeOK, PositionsOK
  <2>2. fill[t] # NULL /\ fill[t].at = "new"
    BY DEF newBitPosition
  <2>3. fill[t] \in Fill /\ fill[t].todo = {}
    BY <2>1, <2>2 DEF Core, Fills
  <2>4. n \in Node
    BY <2>3 DEF Fill
  <2>. QED  BY <2>1, <2>2, <2>3, <2>4 DEF newBitPosition, written, query
<1>2. g \in Fill /\ g.at = "fill" /\ g.node = n /\ g.todo = {}
  BY <1>1 DEF Fill
<1>3. \A u \in Thread : Filling(u) => fill[u] \in Fill /\ fill[u] # NULL
  BY <1>1 DEF Filling
<1> HIDE DEF n, g
<1>4. ASSUME NEW u \in Thread, u # t
      PROVE  /\ fill'[u] \in Fill \cup {NULL}
             /\ \/ fill'[u] = fill[u] /\ (Filling(u) => fill[u].node # n)
                \/ Filling(u) /\ fill[u].node = n /\ fill'[u] = NULL
                \/ /\ Filling(u) /\ fill[u].node = n /\ u = "index" /\ Recounted(n)
                   /\ fill'[u].at = "done" /\ fill'[u].node = n
  <2>1. fill'[u] = IF Filling(u) /\ fill[u].node = n THEN Over(u, fill[u]) ELSE fill[u]
    BY <1>1, <1>4
  <2>2. CASE Filling(u) /\ fill[u].node = n
    <3>1. fill[u] \in Fill /\ fill'[u] = Over(u, fill[u])
      BY <1>3, <2>1, <2>2
    <3>. QED  BY <2>2, <3>1, OverFill
  <2>3. CASE ~(Filling(u) /\ fill[u].node = n)
    BY <1>1, <2>1, <2>3
  <2>. QED  BY <2>2, <2>3
<1>5. fill'[t] = g
  BY <1>1
<1>6. /\ cache'[n] = <<>> /\ <<>> # NULL /\ \A m \in Node : m # n => cache'[m] = cache[m]
      /\ ToSet(<<>>) = {} /\ Increasing(<<>>)
  <2>1. <<>> \in Seq(Nat) /\ NULL \notin Seq(Nat)
    BY TrieAssumption
  <2>2. ToSet(<<>>) = {} /\ Increasing(<<>>)
    BY DEF ToSet, Increasing
  <2>3. cache'[n] = <<>> /\ \A m \in Node : m # n => cache'[m] = cache[m]
    BY <1>1
  <2>4. <<>> # NULL
    BY <2>1
  <2>. QED  BY <2>2, <2>3, <2>4
<1>7. PositionsOK'
  <2>1. fill' \in [Thread -> Fill \cup {NULL}]
    <3>1. \A u \in Thread : fill'[u] \in Fill \cup {NULL}
      BY <1>2, <1>4, <1>5
    <3>2. fill' = [u \in Thread |-> fill'[u]]
      <4> HIDE DEF F
      <4>. QED  BY <1>1
    <3>. QED  BY <3>1, <3>2
  <2>. QED  BY <1>1, <2>1 DEF PositionsOK
<1>8. Positions'
  <2>1. \A m \in Node : bits'[m] = bits[m]
    BY <1>1 DEF tree
  <2>. QED  BY <1>6, <2>1 DEF Core, Positions
<1>9. Fills'
  <2>1. \A u \in Thread : u # t /\ Filling(u)' => Filling(u) /\ fill'[u] = fill[u] /\ fill[u].node # n
    BY <1>4 DEF Filling
  <2>2. ASSUME NEW u \in Thread, Filling(u)' PROVE FillsUp(fill[u])'
    <3>1. CASE u = t
      <4>1. /\ fill'[u] = g /\ cache'[g.node] = <<>> /\ ToSet(cache'[g.node]) = {}
            /\ cache'[g.node] # NULL /\ g.todo = {}
        BY <1>2, <1>5, <1>6, <3>1
      <4>. QED  BY <4>1 DEF FillsUp
    <3>2. CASE u # t
      <4>1. Filling(u) /\ fill'[u] = fill[u] /\ fill[u].node # n /\ fill[u].node \in Node
        BY <1>3, <2>1, <2>2, <3>2 DEF Fill
      <4>2. FillsUp(fill[u]) /\ cache'[fill[u].node] = cache[fill[u].node]
        BY <1>6, <4>1 DEF Core, Fills
      <4>. QED  BY <1>1, <4>1, <4>2 DEF FillsUp, tree
    <3>. QED  BY <3>1, <3>2
  <2>3. \A u \in Thread : fill'[u] # NULL /\ fill'[u].at = "new" => fill'[u].todo = {}
    BY <1>2, <1>4, <1>5 DEF Core, Fills
  <2>4. Filling("index")' /\ Filling("command")' => fill'["index"].node # fill'["command"].node
    BY <1>2, <1>5, <2>1 DEF Thread
  <2>. QED  BY <2>2, <2>3, <2>4 DEF Fills
<1>10. IndexFills'
  <2>1. pc = "run" => fill["index"] = NULL /\ ~Filling("index")
    BY DEF Core, IndexFills, Filling
  <2>2. pc' = "run" => fill'["index"] = NULL
    BY <1>1, <1>4, <2>1 DEF Thread
  <2>3. ASSUME fill'["index"] # NULL, fill'["index"].at = "done", pc' # "crashed"
        PROVE  bq' # <<>> /\ Head(bq') = fill'["index"].node /\ cache'[fill'["index"].node] # NULL
    <3>1. "index" # t
      BY <1>2, <1>5, <2>3
    <3>2. CASE Filling("index") /\ Recounted(n) /\ fill'["index"].node = n
      BY <1>1, <1>6, <3>2 DEF Recounted
    <3>3. CASE fill'["index"] = fill["index"]
      <4>1. /\ bq # <<>> /\ Head(bq) = fill["index"].node /\ cache[fill["index"].node] # NULL
            /\ fill["index"].node \in Node
        BY <1>1, <2>3, <3>3 DEF Core, IndexFills, Thread, Fill
      <4>. QED  BY <1>1, <1>6, <3>3, <4>1
    <3>. QED  BY <1>4, <2>3, <3>1, <3>2, <3>3 DEF Thread
  <2>. QED  BY <2>2, <2>3 DEF IndexFills
<1>11. fill'["command"] # NULL => fill["command"] # NULL /\ fill'["command"].node = fill["command"].node
  BY <1>1, <1>2, <1>4, <1>5 DEF Thread, n
<1>. QED  BY <1>1, <1>7, <1>8, <1>9, <1>10, <1>11, PositionsStep

\* A thread goes on with its bitPosition: it stores entries or reads the next word.
LEMMA FillStep ==
    ASSUME Core, NEW t \in Thread, Filling(t), NEW n \in Node, n = fill[t].node,
           NEW g \in Fill, g.node = n, g.at = "fill", fill' = [fill EXCEPT ![t] = Still(t, g)],
           NEW s \in Seq(Digit), cache' = [cache EXCEPT ![n] = s],
           Increasing(s), ToSet(s) \subseteq bits[n], g.todo \subseteq bits[n],
           \A d \in g.todo : d < g.word * WordBits,
           \A e \in ToSet(s) : e < g.word * WordBits /\ \A d \in g.todo : e < d,
           UNCHANGED <<tree, pc, bq, intact, q, walk, merge, ret>>
    PROVE  Core'
<1>1. /\ fill \in [Thread -> Fill \cup {NULL}] /\ cache \in [Node -> Seq(Digit) \cup {NULL}]
      /\ fill[t] \in Fill /\ fill[t] # NULL
  BY DEF Core, TypeOK, PositionsOK, Filling
<1>2. \/ fill'[t] = g
      \/ fill'[t] = NULL
      \/ /\ t = "index" /\ Recounted(n)
         /\ fill'[t] # NULL /\ fill'[t].at = "done" /\ fill'[t].node = n
  BY <1>1, OverFill DEF Still
<1>3. Still(t, g) \in Fill \cup {NULL}
  BY OverFill DEF Still
<1>4. \A u \in Thread : u # t => fill'[u] = fill[u]
  BY <1>1
<1>5. cache'[n] = s /\ s # NULL /\ \A m \in Node : m # n => cache'[m] = cache[m]
  <2>1. s \in Seq(Nat) /\ NULL \notin Seq(Nat)
    BY DigitLists, TrieAssumption
  <2>. QED  BY <1>1, <2>1
<1>6. PositionsOK'
  BY <1>1, <1>3 DEF PositionsOK
<1>7. Positions'
  <2>1. \A m \in Node : bits'[m] = bits[m]
    BY DEF tree
  <2>. QED  BY <1>5, <2>1 DEF Core, Positions
<1>8. Fills'
  <2>1. \A u \in Thread : u # t /\ Filling(u)' => Filling(u) /\ fill[u].node # n
    <3>1. \A u \in Thread : u # t /\ Filling(u)' => Filling(u)
      BY <1>4 DEF Filling
    <3>2. \A u \in Thread : u # t /\ Filling(u) => fill[u].node # n
      BY DEF Core, Fills, Thread
    <3>. QED  BY <3>1, <3>2
  <2>2. ASSUME NEW u \in Thread, Filling(u)' PROVE FillsUp(fill[u])'
    <3>1. CASE u = t
      <4>1. fill'[u] = g
        BY <1>2, <2>2, <3>1 DEF Filling
      <4>2. cache'[g.node] = s /\ g.todo \subseteq bits'[g.node] /\ cache'[g.node] # NULL
        BY <1>5 DEF tree
      <4>. QED  BY <4>1, <4>2 DEF FillsUp
    <3>2. CASE u # t
      <4>1. Filling(u) /\ fill'[u] = fill[u] /\ fill[u].node # n
        BY <1>4, <2>1, <2>2, <3>2
      <4>2. fill[u].node \in Node
        BY <1>1, <4>1 DEF Filling, Fill
      <4>3. FillsUp(fill[u]) /\ cache'[fill[u].node] = cache[fill[u].node]
        BY <1>5, <4>1, <4>2 DEF Core, Fills
      <4>. QED  BY <4>1, <4>3 DEF FillsUp, tree
    <3>. QED  BY <3>1, <3>2
  <2>3. \A u \in Thread : fill'[u] # NULL /\ fill'[u].at = "new" => fill'[u].todo = {}
    BY <1>2, <1>4 DEF Core, Fills
  <2>4. Filling("index")' /\ Filling("command")' => fill'["index"].node # fill'["command"].node
    <3>1. ASSUME NEW u \in Thread, NEW w \in Thread, u # w, Filling(u)', Filling(w)', u = t
          PROVE  fill'[u].node # fill'[w].node
      <4>1. fill'[u] = g
        BY <1>2, <3>1 DEF Filling
      <4>2. fill'[w] = fill[w] /\ fill[w].node # n
        BY <1>4, <2>1, <3>1
      <4>. QED  BY <4>1, <4>2
    <3>2. "index" \in Thread /\ "command" \in Thread /\ (t = "index" \/ t = "command")
      BY DEF Thread
    <3>. QED  BY <3>1, <3>2
  <2>. QED  BY <2>2, <2>3, <2>4 DEF Fills
<1>9. IndexFills'
  <2>1. pc = "run" => t # "index" /\ fill["index"] = NULL
    BY <1>1 DEF Core, IndexFills
  <2>2. ASSUME fill'["index"] # NULL, fill'["index"].at = "done", pc' # "crashed"
        PROVE  bq' # <<>> /\ Head(bq') = fill'["index"].node /\ cache'[fill'["index"].node] # NULL
    <3>1. CASE t = "index"
      <4>1. Recounted(n) /\ fill'[t].node = n
        BY <1>2, <2>2, <3>1
      <4>. QED  BY <1>5, <3>1, <4>1 DEF Recounted
    <3>2. CASE t # "index"
      <4>1. fill'["index"] = fill["index"]
        BY <1>4, <3>2 DEF Thread
      <4>2. /\ bq # <<>> /\ Head(bq) = fill["index"].node /\ cache[fill["index"].node] # NULL
            /\ fill["index"].node \in Node
        BY <1>1, <2>2, <4>1 DEF Core, IndexFills, Thread, Fill
      <4>. QED  BY <1>5, <4>1, <4>2
    <3>. QED  BY <3>1, <3>2
  <2>. QED  BY <1>4, <2>1, <2>2 DEF IndexFills, Thread
<1>10. fill'["command"] # NULL => fill["command"] # NULL /\ fill'["command"].node = fill["command"].node
  <2>1. CASE t = "command"
    BY <1>1, <1>2, <2>1
  <2>2. CASE t # "command"
    BY <1>4, <2>2 DEF Thread
  <2>. QED  BY <2>1, <2>2
<1>. QED  BY <1>6, <1>7, <1>8, <1>9, <1>10, PositionsStep

LEMMA readWordCore == ASSUME Core, NEW t \in Thread, readWord(t) PROVE Core'
<1> DEFINE f == fill[t]
           n == f.node
           S == bits[n] \cap Word(f.word)
           g == [f EXCEPT !.word = f.word + 1, !.todo = S]
           s == cache[n]
<1>1. /\ fill \in [Thread -> Fill \cup {NULL}] /\ cache \in [Node -> Seq(Digit) \cup {NULL}]
      /\ f \in Fill /\ f # NULL /\ Filling(t) /\ n \in Node /\ FillsUp(f)
      /\ bits \in [Node -> SUBSET Digit]
  <2>1. f \in Fill /\ f # NULL /\ Filling(t) /\ FillsUp(f)
    BY DEF readWord, Core, TypeOK, PositionsOK, Fills, Filling
  <2>. QED  BY <2>1 DEF Core, TypeOK, PositionsOK, TreeOK, Fill
<1>2. s \in Seq(Digit) /\ Increasing(s) /\ ToSet(s) \subseteq bits[n] /\ ToSet(s) \subseteq Digit
  <2>1. s # NULL /\ s \in Seq(Digit)
    BY <1>1 DEF FillsUp
  <2>2. Increasing(s) /\ ToSet(s) \subseteq bits[n] /\ bits[n] \in SUBSET Digit
    BY <1>1, <2>1 DEF Core, Positions
  <2>. QED  BY <2>1, <2>2
<1>3. /\ f.word \in Nat /\ S \in SUBSET Digit /\ f.at = "fill" /\ g \in Fill
      /\ g.node = n /\ g.at = "fill" /\ g.todo = S /\ g.word = f.word + 1
  <2>1. f.word \in Nat /\ S \in SUBSET Digit /\ f.at = "fill"
    BY <1>1 DEF Fill, Filling
  <2> HIDE DEF S
  <2>2. g \in Fill /\ g.node = n /\ g.at = "fill" /\ g.todo = S /\ g.word = f.word + 1
    <3> DEFINE w == f.word + 1
    <3>1. w \in Nat /\ f \in Fill /\ g = [f EXCEPT !.word = w, !.todo = S]
      BY <1>1, <2>1
    <3> HIDE DEF f, w, g
    <3>2. g \in Fill /\ g.node = f.node /\ g.at = f.at /\ g.todo = S /\ g.word = w
      BY <2>1, <3>1 DEF Fill
    <3>. QED  BY <2>1, <3>2 DEF w
  <2>. QED  BY <2>1, <2>2
<1>4. /\ f.word * WordBits \in Nat /\ (f.word + 1) * WordBits = f.word * WordBits + WordBits
      /\ WordBits \in Nat
  <2>1. \A w, b \in Nat : w * b \in Nat /\ (w + 1) * b = w * b + b
    OBVIOUS
  <2>. QED  BY <1>3, <2>1, TrieAssumption
<1>5. \A d \in S : f.word * WordBits <= d /\ d < (f.word + 1) * WordBits
  BY DEF Word
<1>6. \A e \in ToSet(s) : e < f.word * WordBits /\ e \in Nat
  BY <1>1, <1>2, DigitLists DEF FillsUp
<1>7. /\ \A d \in g.todo : d < g.word * WordBits
      /\ \A e \in ToSet(s) : e < g.word * WordBits /\ \A d \in g.todo : e < d
  <2>1. S \subseteq Nat
    BY <1>3, DigitLists
  <2> DEFINE a == f.word * WordBits
  <2>2. a \in Nat /\ (f.word + 1) * WordBits = a + WordBits
    BY <1>4
  <2>3. \A d \in S : a <= d /\ d < (f.word + 1) * WordBits
    BY <1>5
  <2>4. \A e \in ToSet(s) : e < a /\ e \in Nat
    BY <1>6
  <2> HIDE DEF a, S, s, f
  <2>. QED  BY <1>3, <1>4, <2>1, <2>2, <2>3, <2>4
<1>8. fill' = [fill EXCEPT ![t] = Still(t, g)] /\ cache' = [cache EXCEPT ![n] = s]
  <2>1. cache' = cache
    BY DEF readWord
  <2>2. cache = [cache EXCEPT ![n] = s]
    BY <1>1
  <2>3. fill' = [fill EXCEPT ![t] = Still(t, [f EXCEPT !.word = f.word + 1, !.todo = S])]
    BY DEF readWord
  <2>. QED  BY <2>1, <2>2, <2>3
<1>9. UNCHANGED <<tree, pc, bq, intact, q, walk, merge, ret>>
  BY DEF readWord, written, query
<1>10. S \subseteq bits[n]
  OBVIOUS
<1> HIDE DEF S, g, s
<1>. QED  BY <1>1, <1>2, <1>3, <1>7, <1>8, <1>9, <1>10, FillStep

LEMMA LowestOf ==
    ASSUME NEW S \in SUBSET Digit, S # {}
    PROVE  Lowest(S) \in S /\ \A e \in S : Lowest(S) <= e
<1>1. \E d \in S : \A e \in S : d <= e
  BY DigitLists, LeastElement
<1>. QED  BY <1>1 DEF Lowest

LEMMA storePositionCore == ASSUME Core, NEW t \in Thread, storePosition(t) PROVE Core'
<1> DEFINE f == fill[t]
           n == f.node
           e == Lowest(f.todo)
           g == [f EXCEPT !.todo = @ \ {e}]
           c == cache[n]
           s == Append(c, e)
<1>1. /\ fill \in [Thread -> Fill \cup {NULL}] /\ cache \in [Node -> Seq(Digit) \cup {NULL}]
      /\ f \in Fill /\ f # NULL /\ Filling(t) /\ n \in Node /\ FillsUp(f)
      /\ bits \in [Node -> SUBSET Digit] /\ f.todo # {}
  <2>1. f \in Fill /\ f # NULL /\ Filling(t) /\ FillsUp(f) /\ f.todo # {}
    BY DEF storePosition, Core, TypeOK, PositionsOK, Fills, Filling
  <2>. QED  BY <2>1 DEF Core, TypeOK, PositionsOK, TreeOK, Fill
<1>2. c \in Seq(Digit) /\ Increasing(c) /\ ToSet(c) \subseteq bits[n] /\ ToSet(c) \subseteq Digit
  <2>1. c # NULL /\ c \in Seq(Digit)
    BY <1>1 DEF FillsUp
  <2>2. Increasing(c) /\ ToSet(c) \subseteq bits[n] /\ bits[n] \in SUBSET Digit
    BY <1>1, <2>1 DEF Core, Positions
  <2>. QED  BY <2>1, <2>2
<1>3. f.todo \in SUBSET Digit /\ f.todo \subseteq bits[n]
  BY <1>1 DEF Fill, FillsUp
<1>4. e \in f.todo /\ e \in Digit /\ e \in Nat /\ \A d \in f.todo : e <= d
  BY <1>1, <1>3, LowestOf, DigitLists
<1>5. /\ g \in Fill /\ g.node = n /\ g.at = "fill" /\ g.todo = f.todo \ {e} /\ g.word = f.word
  BY <1>1 DEF Fill, Filling
<1>6. /\ \A d \in f.todo : d < f.word * WordBits
      /\ \A x \in ToSet(c) : x < f.word * WordBits /\ \A d \in f.todo : x < d
  BY <1>1 DEF FillsUp
<1>7. /\ fill' = [fill EXCEPT ![t] = Still(t, g)] /\ cache' = [cache EXCEPT ![n] = s]
      /\ UNCHANGED <<tree, pc, bq, intact, q, walk, merge, ret>>
  BY DEF storePosition, num2pos, written, query
<1> HIDE DEF e, g, c
<1>8. ToSet(s) = ToSet(c) \cup {e} /\ Increasing(s) /\ s \in Seq(Digit)
  <2>1. c \in Seq(Nat)
    BY <1>2, DigitLists
  <2>2. \A x \in ToSet(c) : x < e
    BY <1>4, <1>6
  <2>. QED  BY <1>2, <1>4, <2>1, <2>2, AppendLarger
<1> HIDE DEF s
<1>9. ToSet(s) \subseteq bits[n] /\ g.todo \subseteq bits[n]
  BY <1>2, <1>3, <1>4, <1>5, <1>8
<1>10. /\ \A d \in g.todo : d < g.word * WordBits
       /\ \A x \in ToSet(s) : x < g.word * WordBits /\ \A d \in g.todo : x < d
  <2>1. \A d \in g.todo : d \in f.todo /\ d \in Nat /\ e < d
    <3>1. \A d \in g.todo : d \in f.todo /\ d \in Nat /\ d # e /\ e <= d
      BY <1>3, <1>4, <1>5, DigitLists
    <3>2. \A d \in Nat : e <= d /\ d # e => e < d
      BY <1>4
    <3>. QED  BY <3>1, <3>2
  <2>. QED  BY <1>4, <1>5, <1>6, <1>8, <2>1
<1>. QED  BY <1>1, <1>5, <1>7, <1>8, <1>9, <1>10, FillStep

-----------------------------------------------------------------------------
(* addItem.                                                                *)

\* A value that is being added is not Done; one that has been added is.
LEMMA DoneValues ==
    ASSUME TreeOK
    PROVE  /\ Len(items) \in Nat /\ DOMAIN items = 1 .. Len(items)
           /\ Done \subseteq DOMAIN items /\ Done \subseteq Nat
           /\ \A v \in DOMAIN items : items[v] \in Keys /\ items[v] \in Nat
           /\ ins # NULL => Done = DOMAIN items \ {Len(items)}
<1>1. items \in Seq(Keys)
  BY DEF TreeOK
<1>2. Keys \subseteq Nat
  <2>1. Depth \in 0 .. Depth
    BY TrieAssumption
  <2>2. PrefixCount[Depth] \in Nat
    BY <2>1, PrefixCountDefined
  <2>. QED  BY <2>2, TrieAssumption
<1>3. Len(items) \in Nat /\ DOMAIN items = 1 .. Len(items) /\ \A v \in DOMAIN items : items[v] \in Keys
  BY <1>1
<1>4. Done \subseteq DOMAIN items /\ (ins # NULL => Done = DOMAIN items \ {Len(items)})
  BY DEF Done
<1>5. ASSUME NEW v \in DOMAIN items PROVE v \in Nat /\ items[v] \in Keys /\ items[v] \in Nat
  <2>1. v \in Nat
    BY <1>3
  <2>2. items[v] \in Keys
    BY <1>3
  <2>. QED  BY <1>2, <2>1, <2>2
<1>6. Done \subseteq Nat
  BY <1>4, <1>5
<1>. QED  BY <1>3, <1>4, <1>5, <1>6

LEMMA addItemDone ==
    ASSUME Core, NEW k \in Keys, addItem(k)
    PROVE  /\ ins = NULL /\ ins' = k /\ k # NULL /\ k \in Nat /\ items' = Append(items, k)
           /\ items' \in Seq(Keys) /\ Len(items') = Len(items) + 1 /\ items'[Len(items) + 1] = k
           /\ \A v \in DOMAIN items : v \in DOMAIN items' /\ items'[v] = items[v]
           /\ Done' = Done /\ Done = DOMAIN items
           /\ pc = "run" /\ UNCHANGED <<child, bits, lists, slot, positions, pc, bq, intact, q, walk, merge, ret>>
<1>1. /\ ins = NULL /\ ins' = k /\ items' = Append(items, k) /\ pc = "run"
      /\ UNCHANGED <<child, bits, lists, slot, positions, pc, bq, intact, q, walk, merge, ret>>
  BY DEF addItem, written, query
<1>2. k # NULL /\ k \in Nat
  <2>1. Depth \in 0 .. Depth
    BY TrieAssumption
  <2>2. PrefixCount[Depth] \in Nat
    BY <2>1, PrefixCountDefined
  <2>. QED  BY <2>2, TrieAssumption
<1>3. items \in Seq(Keys)
  BY DEF Core, TypeOK, TreeOK
<1>4. /\ items' \in Seq(Keys) /\ Len(items') = Len(items) + 1 /\ items'[Len(items) + 1] = k
      /\ Len(items) \in Nat /\ DOMAIN items = 1 .. Len(items) /\ DOMAIN items' = 1 .. Len(items) + 1
      /\ \A v \in DOMAIN items : v \in DOMAIN items' /\ items'[v] = items[v]
  BY <1>1, <1>3
<1>5. Done = DOMAIN items /\ Done' = DOMAIN items' \ {Len(items) + 1}
  BY <1>1, <1>2, <1>4 DEF Done
<1>6. Done' = Done
  BY <1>4, <1>5
<1>. QED  BY <1>1, <1>2, <1>4, <1>5, <1>6

LEMMA addItemCore == ASSUME Core, NEW k \in Keys, addItem(k) PROVE Core'
<1>1. /\ ins = NULL /\ ins' = k /\ k # NULL /\ items' \in Seq(Keys)
      /\ Len(items') = Len(items) + 1 /\ items'[Len(items) + 1] = k
      /\ \A v \in DOMAIN items : items'[v] = items[v]
      /\ Done' = Done /\ Done = DOMAIN items /\ pc = "run"
      /\ UNCHANGED <<child, bits, lists, slot, positions, pc, bq, intact, q, walk, merge, ret>>
  BY addItemDone
<1>2. TreeOK'
  BY <1>1 DEF Core, TypeOK, TreeOK
<1>3. Linked' /\ Settled'
  BY <1>1 DEF Core, Linked, Settled
<1>4. Inserting'
  <2>1. Len(items) \in Nat
    BY DoneValues DEF Core, TypeOK
  <2>. QED  BY <1>1, <2>1 DEF Core, Inserting
<1>5. Added'
  <2>1. \A v \in Done' : Entered(v)'
    BY <1>1 DEF Core, Added, Entered, Missing
  <2>2. ASSUME NEW i \in Keys PROVE ListExact(i)'
    <3>1. {v \in Done' : items'[v] = i} = {v \in Done : items[v] = i}
      BY <1>1
    <3>. QED  BY <1>1, <3>1 DEF Core, Added, ListExact
  <2>. QED  BY <2>1, <2>2 DEF Added
<1>6. \A n \in Node : bits[n] \subseteq bits'[n]
  BY <1>1
<1>. QED  BY <1>1, <1>2, <1>3, <1>4, <1>5, <1>6, AddStep

\* The level that addItem is at.
LEMMA LevelToAdd ==
    ASSUME NEW k, Missing(k) # {}
    PROVE  FirstMissing(k) \in Missing(k) /\ FirstMissing(k) \in Level
<1>1. Missing(k) \in SUBSET Nat
  BY TrieAssumption DEF Missing, Level
<1>2. \E l \in Missing(k) : \A m \in Missing(k) : l <= m
  BY <1>1, LeastElement
<1>. QED  BY <1>2 DEF FirstMissing, Missing

\* The key that is added and its digit.
LEMMA KeyToAdd ==
    ASSUME TreeOK, ins # NULL, Missing(ins) # {}
    PROVE  /\ ins \in Keys /\ ins \in Nat /\ FirstMissing(ins) \in Level
           /\ DigitOf(ins, FirstMissing(ins)) \in Digit
           /\ NodeOf(ins, FirstMissing(ins)) \in Node
<1>1. ins \in Keys /\ ins \in Nat /\ ins \in 0 .. PrefixCount[Depth] - 1
  <2>1. PrefixCount[Depth] \in Nat
    <3>1. Depth \in 0 .. Depth
      BY TrieAssumption
    <3>. QED  BY <3>1, PrefixCountDefined
  <2>. QED  BY <2>1, TrieAssumption DEF TreeOK
<1>. QED  BY <1>1, LevelToAdd, DigitOfKey, NodeOfKey

LEMMA newChildCore == ASSUME Core, newChild PROVE Core'
<1> DEFINE l == FirstMissing(ins)
           m == NodeOf(ins, l)
           e == DigitOf(ins, l)
<1>1. l \in Level /\ e \in Digit /\ ins \in Keys /\ ins \in Nat /\ m \in Node
  BY KeyToAdd DEF Core, TypeOK, newChild
<1>2. /\ pc = "run" /\ ins # NULL /\ child' = [child EXCEPT ![m] = @ \cup {e}]
      /\ UNCHANGED <<bits, lists, slot, ins, items, positions, pc, bq, intact, q, walk, merge, ret>>
  BY DEF newChild, written, query
<1>3. isLeafNode(m) => KeyOf(m, e) \in Keys
  <2> SUFFICES ASSUME isLeafNode(m) PROVE KeyOf(m, e) = ins
    BY <1>1
  <2>1. l = Depth - 1
    BY DEF isLeafNode, NodeOf
  <2>. QED  BY <1>1, <2>1, KeyPath
<1>4. \E i \in Level : m = NodeOf(ins, i) /\ e = DigitOf(ins, i)
  BY <1>1
<1> HIDE DEF l, m, e
<1>5. ASSUME NEW n \in Node
      PROVE  child'[n] = child[n] \/ (n = m /\ child'[n] = child[n] \cup {e})
  <2>1. child \in [Node -> SUBSET Digit]
    BY DEF Core, TypeOK, TreeOK
  <2>. QED  BY <1>2, <2>1
<1>6. TreeOK'
  BY <1>1, <1>2 DEF Core, TypeOK, TreeOK
<1>7. Linked'
  BY <1>2, <1>3, <1>5 DEF Core, Linked
<1>8. Settled'
  <2>1. ASSUME NEW n \in Node, NEW d \in child'[n] \ bits'[n]
        PROVE  ins # NULL /\ \E i \in Level : n = NodeOf(ins, i) /\ d = DigitOf(ins, i)
    <3>1. CASE n = m /\ d = e
      BY <1>2, <1>4, <3>1
    <3>2. CASE ~(n = m /\ d = e)
      <4>1. d \in child[n] \ bits[n]
        BY <1>2, <1>5, <2>1, <3>2
      <4>. QED  BY <4>1 DEF Core, Settled
    <3>. QED  BY <3>1, <3>2
  <2>. QED  BY <1>2, <2>1 DEF Settled
<1>9. Inserting' /\ Added'
  BY <1>2 DEF Core, Inserting, Added, Entered, Missing, ListExact, Done
<1>10. \A n \in Node : bits[n] \subseteq bits'[n]
  BY <1>2
<1>. QED  BY <1>2, <1>6, <1>7, <1>8, <1>9, <1>10, AddStep

LEMMA setBitCore == ASSUME Core, setBit PROVE Core'
<1> DEFINE l == FirstMissing(ins)
           m == NodeOf(ins, l)
           e == DigitOf(ins, l)
<1>1. l \in Level /\ e \in Digit /\ m \in Node
  BY KeyToAdd DEF Core, TypeOK, setBit
<1>2. /\ pc = "run" /\ e \in child[m] /\ bits' = [bits EXCEPT ![m] = @ \cup {e}]
      /\ UNCHANGED <<child, lists, slot, ins, items, positions, pc, bq, intact, q, walk, merge, ret>>
  BY DEF setBit, written, query
<1> HIDE DEF l, m, e
<1>3. TreeOK'
  BY <1>1, <1>2 DEF Core, TypeOK, TreeOK
<1>4. ASSUME NEW n \in Node
      PROVE  bits[n] \subseteq bits'[n] /\ (bits'[n] = bits[n] \/ (n = m /\ bits'[n] = bits[n] \cup {e}))
  <2>1. bits \in [Node -> SUBSET Digit]
    BY DEF Core, TypeOK, TreeOK
  <2>. QED  BY <1>2, <2>1
<1>5. Linked'
  BY <1>2, <1>4 DEF Core, Linked
<1>6. Settled'
  <2>1. \A n \in Node : child'[n] \ bits'[n] \subseteq child[n] \ bits[n]
    BY <1>2, <1>4
  <2>. QED  BY <1>2, <2>1 DEF Core, Settled
<1>7. Inserting'
  BY <1>2 DEF Core, Inserting
<1>8. Added'
  <2>1. ASSUME NEW v \in Done, NEW i \in Level, pc # "freed"
        PROVE  DigitOf(items[v], i) \in bits'[NodeOf(items[v], i)]
    <3>1. items[v] \in Keys /\ DigitOf(items[v], i) \in bits[NodeOf(items[v], i)]
      BY <2>1, DoneValues DEF Core, TypeOK, Added, Entered, Missing
    <3>2. NodeOf(items[v], i) \in Node
      BY <3>1, NodeOfKey, TrieAssumption
    <3>. QED  BY <1>4, <3>1, <3>2
  <2>2. Done' = Done
    BY <1>2 DEF Done
  <2>. QED  BY <1>2, <2>1, <2>2 DEF Core, Added, Entered, Missing, ListExact
<1>. QED  BY <1>2, <1>3, <1>4, <1>5, <1>6, <1>7, <1>8, AddStep

LEMMA newNodeCore == ASSUME Core, newNode PROVE Core'
<1>1. /\ pc = "run" /\ ins # NULL /\ slot' = "linked"
      /\ UNCHANGED <<child, bits, lists, ins, items, positions, pc, bq, intact, q, walk, merge, ret>>
  BY DEF newNode, Adds, written, query
<1>2. TreeOK' /\ Linked' /\ Settled' /\ Inserting'
  BY <1>1 DEF Core, TypeOK, TreeOK, Linked, Settled, Inserting
<1>3. Added' /\ \A n \in Node : bits[n] \subseteq bits'[n]
  BY <1>1 DEF Core, Added, Entered, Missing, ListExact, Done
<1>. QED  BY <1>1, <1>2, <1>3, AddStep

\* What addElement does with the value and the list.
LEMMA addElementList ==
    ASSUME Core, pc = "run", ins # NULL, Missing(ins) = {}, addElement, UNCHANGED <<items, bits>>
    PROVE  /\ ins \in Keys /\ Len(items) \in Nat /\ lists[ins] \in Seq(Nat)
           /\ lists'[ins] = Append(lists[ins], Len(items))
           /\ lists' = [lists EXCEPT ![ins] = Append(lists[ins], Len(items))]
           /\ \A k \in Keys : k # ins => lists'[k] = lists[k]
           /\ ins' = NULL /\ slot' = "none" /\ Done' = DOMAIN items
           /\ DOMAIN items = Done \cup {Len(items)} /\ Len(items) \notin Done
           /\ items[Len(items)] = ins /\ \A v \in ToSet(lists[ins]) : v < Len(items)
<1>1. /\ ins \in Keys /\ lists \in [Keys -> Seq(Nat)] /\ items \in Seq(Keys)
      /\ Len(items) > 0 /\ items[Len(items)] = ins /\ ListExact(ins)
  BY DEF Core, TypeOK, TreeOK, Inserting, Added
<1>2. Len(items) \in Nat /\ DOMAIN items = 1 .. Len(items) /\ Done = DOMAIN items \ {Len(items)}
  BY DoneValues DEF Core, TypeOK
<1> DEFINE v == Len(items)
<1>3. lists' = [lists EXCEPT ![ins] = Append(lists[ins], v)] /\ ins' = NULL /\ slot' = "none"
  BY DEF addElement
<1>4. lists'[ins] = Append(lists[ins], v) /\ \A k \in Keys : k # ins => lists'[k] = lists[k]
  <2> HIDE DEF v
  <2>. QED  BY <1>1, <1>3
<1>5. Done' = DOMAIN items /\ v \in DOMAIN items /\ v \notin Done /\ DOMAIN items = Done \cup {v}
  BY <1>1, <1>2, <1>3 DEF Done
<1>6. \A u \in ToSet(lists[ins]) : u \in DOMAIN items /\ u # v
  BY <1>1, <1>2 DEF ListExact
<1>7. \A u \in ToSet(lists[ins]) : u < v
  BY <1>2, <1>6
<1>. QED  BY <1>1, <1>2, <1>3, <1>4, <1>5, <1>7

LEMMA HalfCore ==
    ASSUME Core, NEW w \in {"data", "counted"}, NEW o \in {"data", "counted"}, Half(w, o)
    PROVE  Core'
<1>1. /\ pc = "run" /\ ins # NULL /\ Missing(ins) = {}
      /\ UNCHANGED <<child, bits, items, positions, pc, bq, intact, q, walk, merge, ret>>
  BY DEF Half, Adds, written, query
<1>2. CASE slot' = w /\ UNCHANGED <<lists, ins>>
  <2>1. TreeOK' /\ Linked' /\ Settled' /\ Inserting'
    BY <1>1, <1>2 DEF Core, TypeOK, TreeOK, Linked, Settled, Inserting
  <2>2. Added' /\ \A n \in Node : bits[n] \subseteq bits'[n]
    BY <1>1, <1>2 DEF Core, Added, Entered, Missing, ListExact, Done
  <2>. QED  BY <1>1, <2>1, <2>2, AddStep
<1>3. CASE addElement
  <2> DEFINE v == Len(items)
             s == lists[ins]
  <2>1. /\ ins \in Keys /\ v \in Nat /\ s \in Seq(Nat) /\ lists'[ins] = Append(s, v)
        /\ lists' = [lists EXCEPT ![ins] = Append(s, v)]
        /\ \A k \in Keys : k # ins => lists'[k] = lists[k]
        /\ ins' = NULL /\ slot' = "none" /\ Done' = DOMAIN items
        /\ DOMAIN items = Done \cup {v} /\ v \notin Done
        /\ items[v] = ins /\ \A u \in ToSet(s) : u < v
    BY <1>1, <1>3, addElementList
  <2>2. TreeOK'
    <3>1. Append(s, v) \in Seq(Nat)
      <4> HIDE DEF s, v
      <4>. QED  BY <2>1
    <3> HIDE DEF s, v
    <3>. QED  BY <1>1, <2>1, <3>1 DEF Core, TypeOK, TreeOK
  <2>3. Linked' /\ Inserting'
    BY <1>1, <2>1 DEF Core, Linked, Inserting
  <2>4. Settled'
    <3>1. ASSUME NEW n \in Node, NEW d \in child[n] \ bits[n] PROVE FALSE
      <4>1. PICK l \in Level : n = NodeOf(ins, l) /\ d = DigitOf(ins, l)
        BY <3>1 DEF Core, Settled
      <4>. QED  BY <1>1, <3>1, <4>1 DEF Missing
    <3>. QED  BY <1>1, <3>1 DEF Settled
  <2>5. \A u \in Done' : Entered(u)'
    <3>1. \A u \in Done : Missing(items[u]) = {}
      BY <1>1 DEF Core, Added, Entered
    <3>2. \A u \in Done' : Missing(items[u]) = {}
      BY <1>1, <2>1, <3>1
    <3>. QED  BY <1>1, <3>2 DEF Entered, Missing
  <2>6. ASSUME NEW k \in Keys PROVE ListExact(k)'
    <3>1. ListExact(k)
      BY <1>1 DEF Core, Added
    <3>2. CASE k # ins
      <4>1. {u \in DOMAIN items : items[u] = k} = {u \in Done : items[u] = k}
        BY <2>1, <3>2
      <4>2. lists'[k] = lists[k]
        BY <2>1, <3>2
      <4>. QED  BY <1>1, <2>1, <3>1, <4>1, <4>2 DEF ListExact
    <3>3. CASE k = ins
      <4>1. {u \in DOMAIN items : items[u] = k} = {u \in Done : items[u] = k} \cup {v}
        BY <2>1, <3>3
      <4>2. ToSet(s) = {u \in Done : items[u] = k} /\ Increasing(s)
        BY <3>1, <3>3 DEF ListExact
      <4>3. lists'[k] = Append(s, v)
        BY <2>1, <3>3
      <4>4. ToSet(lists'[k]) = ToSet(s) \cup {v} /\ Increasing(lists'[k])
        <5> HIDE DEF s, v
        <5>. QED  BY <2>1, <4>2, <4>3, AppendLarger
      <4>5. Done' = DOMAIN items /\ items' = items
        BY <1>1, <2>1
      <4>. QED  BY <4>1, <4>2, <4>4, <4>5 DEF ListExact
    <3>. QED  BY <3>2, <3>3
  <2>7. Added' /\ \A n \in Node : bits[n] \subseteq bits'[n]
    BY <1>1, <2>5, <2>6 DEF Added
  <2>. QED  BY <1>1, <2>2, <2>3, <2>4, <2>7, AddStep
<1>. QED  BY <1>2, <1>3 DEF Half

-----------------------------------------------------------------------------
(* write2file and ~Trie.                                                   *)

LEMMA WriteStep ==
    ASSUME Core, ins = NULL, pc \in {"run", "open", "write", "written"}, WriteOK',
           pc' \in {"open", "write", "written", "crashed"}, pc' = "crashed" => ~intact',
           UNCHANGED <<child, bits, ins, slot, items, cache, q, walk, merge, ret>>,
           lists' \in [Keys -> Seq(Nat)],
           UNCHANGED fill \/ fill' = [fill EXCEPT !["index"] = NULL],
           fill'["index"] = NULL \/ UNCHANGED bq \/ pc' = "crashed"
    PROVE  Core'
<1>1. /\ fill \in [Thread -> Fill \cup {NULL}] /\ fill'["command"] = fill["command"]
      /\ fill'["index"] = NULL \/ fill' = fill
      /\ fill' \in [Thread -> Fill \cup {NULL}]
  BY DEF Core, TypeOK, PositionsOK, Thread
<1>2. TypeOK'
  BY <1>1 DEF Core, TypeOK, TreeOK, PositionsOK, QueryOK
<1>3. Linked' /\ Settled' /\ Inserting' /\ Positions'
  BY DEF Core, Linked, Settled, Inserting, Positions
<1>4. Fills'
  <2>1. \A t \in Thread : fill'[t] = NULL \/ fill'[t] = fill[t]
    BY <1>1 DEF Thread
  <2>2. \A t \in Thread : Filling(t)' => Filling(t) /\ fill'[t] = fill[t]
    BY <2>1 DEF Filling
  <2>3. \A t \in Thread : Filling(t)' => FillsUp(fill[t])'
    BY <2>2 DEF Core, Fills, FillsUp
  <2>. QED  BY <2>1, <2>2, <2>3 DEF Core, Fills, Thread
<1>5. IndexFills'
  BY <1>1 DEF Core, IndexFills
<1>6. Added'
  BY DEF Core, Added, Entered, Missing, Done
<1>7. CommandFills' /\ FailsOnlyIncomplete'
  BY <1>1 DEF Core, CommandFills, FailsOnlyIncomplete, first
<1>. QED  BY <1>2, <1>3, <1>4, <1>5, <1>6, <1>7 DEF Core

\* What bitPosition returns for a node are digits.
LEMMA BitPositionType ==
    ASSUME TreeOK, PositionsOK, NEW n \in Node, NEW junk \in JunkPositions,
           cache[n] # NULL \/ elemCount(n) = 0
    PROVE  /\ bitPosition(n, junk) \in Seq(Digit) /\ elemCount(n) \in Nat
           /\ Len(bitPosition(n, junk)) = elemCount(n)
<1>1. child[n] \in SUBSET Digit /\ (cache[n] # NULL => cache[n] \in Seq(Digit))
  BY DEF TreeOK, PositionsOK
<1>2. IsFiniteSet(child[n]) /\ IsFiniteSet(Digit) /\ Cardinality(child[n]) <= Cardinality(Digit)
  <2>1. IsFiniteSet(Digit)
    BY TrieAssumption, FS_Interval DEF Digit
  <2>. QED  BY <1>1, <2>1, FS_Subset
<1>3. elemCount(n) \in 0 .. Base
  <2>1. Cardinality(Digit) = Base
    BY TrieAssumption, FS_Interval DEF Digit
  <2>. QED  BY <1>2, <2>1, FS_CardinalityType, TrieAssumption DEF elemCount
<1>4. junk \in [1 .. Base -> Digit]
  BY TrieAssumption
<1> DEFINE m == elemCount(n)
           c == cache[n]
<1>5. bitPosition(n, junk) = [i \in 1 .. m |-> IF i <= Len(c) THEN c[i] ELSE junk[i]]
  BY DEF bitPosition
<1>6. m \in 0 .. Base /\ (c \in Seq(Digit) \/ m = 0)
  BY <1>1, <1>3
<1> HIDE DEF m, c
<1>7. \A i \in 1 .. m : (IF i <= Len(c) THEN c[i] ELSE junk[i]) \in Digit
  <2> TAKE i \in 1 .. m
  <2>1. c \in Seq(Digit) /\ i \in 1 .. Base
    BY <1>6, TrieAssumption
  <2>2. i <= Len(c) => c[i] \in Digit
    BY <2>1
  <2>. QED  BY <1>4, <2>1, <2>2
<1>8. bitPosition(n, junk) \in Seq(Digit) /\ Len(bitPosition(n, junk)) = m /\ m \in Nat
  BY <1>5, <1>6, <1>7, TrieAssumption
<1>. QED  BY <1>8 DEF m

\* The nodes that the index thread reads have been computed; if it has read
\* complete positions only, they are those of the children.
LEMMA ReadPositions ==
    ASSUME Core, Ready, NEW n \in Reads
    PROVE  n \in Node => cache[n] # NULL \/ elemCount(n) = 0
<1> SUFFICES ASSUME n \in Node PROVE cache[n] # NULL \/ elemCount(n) = 0
  OBVIOUS
<1>1. ~(elemCount(n) > 0 /\ cache[n] = NULL)
  BY DEF Ready, ToCompute
<1>2. elemCount(n) \in Nat
  <2>1. child[n] \in SUBSET Digit
    BY DEF Core, TypeOK, TreeOK
  <2>. QED  BY <2>1, OnePositions DEF elemCount
<1>. QED  BY <1>1, <1>2

LEMMA CompleteChildren ==
    ASSUME Core, NEW n \in Node, NEW junk, cache[n] # NULL \/ elemCount(n) = 0, ~Incomplete(n)
    PROVE  ToSet(bitPosition(n, junk)) = child[n] /\ IsInjective(bitPosition(n, junk))
<1> DEFINE s == getOnePositions(child[n])
<1>1. child[n] \in SUBSET Digit /\ bitPosition(n, junk) = s
  BY CompletePositions DEF Core, TypeOK, TreeOK
<1>2. /\ s \in Seq(Digit) /\ DOMAIN s = 1 .. Cardinality(child[n]) /\ ToSet(s) = child[n]
      /\ \A i, j \in 1 .. Cardinality(child[n]) : i < j => s[i] < s[j]
      /\ Cardinality(child[n]) \in Nat
  BY <1>1, OnePositions
<1>3. \A i \in 1 .. Cardinality(child[n]) : s[i] \in Nat
  <2> HIDE DEF s
  <2>. QED  BY <1>2, DigitLists
<1> HIDE DEF s
<1>4. ASSUME NEW i \in DOMAIN s, NEW j \in DOMAIN s, s[i] = s[j] PROVE i = j
  <2>1. i \in Nat /\ j \in Nat /\ s[i] \in Nat /\ s[j] \in Nat /\ (i < j => s[i] < s[j]) /\ (j < i => s[j] < s[i])
    BY <1>2, <1>3
  <2>. QED  BY <1>4, <2>1
<1>5. IsInjective(s)
  BY <1>4 DEF IsInjective
<1>. QED  BY <1>1, <1>2, <1>5

\* The sizes of a leaf can be read.
LEMMA SizesReadable ==
    ASSUME Core, NEW n \in Node, NEW junk,
           CountsByPosition(n) => (cache[n] # NULL \/ elemCount(n) = 0) /\ ~Incomplete(n)
    PROVE  SizeReadable(n, junk)
<1>1. CASE CountsByPosition(n)
  BY <1>1, CompleteChildren DEF SizeReadable, SizePositions
<1>2. CASE ~CountsByPosition(n)
  <2>1. bits[n] \subseteq child[n] /\ bits[n] \in SUBSET Digit
    BY DEF Core, TypeOK, TreeOK, Linked
  <2>. QED  BY <1>2, <2>1, OnePositions DEF SizeReadable, SizePositions
<1>. QED  BY <1>1, <1>2

LEMMA NotAdding == ASSUME Core, pc \notin {"run", "crashed"} PROVE ins = NULL
BY DEF Core, Inserting

LEMMA fopenCore == ASSUME Core, fopen PROVE Core'
<1>1. /\ ins = NULL /\ pc = "run" /\ pc' \in {"open", "written"}
      /\ UNCHANGED <<child, bits, lists, ins, slot, items, cache, fill, bq, intact, q, walk, merge, ret>>
  BY DEF fopen, tree, positions, written, query
<1>2. WriteOK' /\ lists' \in [Keys -> Seq(Nat)]
  BY <1>1 DEF Core, TypeOK, TreeOK, WriteOK
<1>. QED  BY <1>1, <1>2, WriteStep

LEMMA fcloseCore == ASSUME Core, fclose PROVE Core'
<1>1. /\ pc = "write" /\ pc' = "written"
      /\ UNCHANGED <<child, bits, lists, ins, slot, items, cache, fill, bq, intact, q, walk, merge, ret>>
  BY DEF fclose, tree, positions, written, query
<1>2. WriteOK' /\ lists' \in [Keys -> Seq(Nat)]
  BY <1>1 DEF Core, TypeOK, TreeOK, WriteOK
<1>. QED  BY <1>1, <1>2, NotAdding, WriteStep

\* The index thread fails only if it has read positions that are not complete.
LEMMA crashCore ==
    ASSUME Core, pc \in {"open", "write", "written"}, NEW S, Intact(S), crash, ~intact'
    PROVE  Core'
<1>1. /\ pc' = "crashed"
      /\ UNCHANGED <<child, bits, lists, ins, slot, items, cache, fill, bq, q, walk, merge, ret>>
  BY DEF crash, tree, positions, written, query
<1>2. WriteOK' /\ lists' \in [Keys -> Seq(Nat)]
  BY <1>1 DEF Core, TypeOK, TreeOK, WriteOK, Intact
<1>. QED  BY <1>1, <1>2, NotAdding, WriteStep

LEMMA write2fileReads ==
    ASSUME Core, NEW junk \in JunkPositions, write2file(junk), intact'
    PROVE  SizeReadable(Root, junk)
<1>1. pc = "open" /\ Ready /\ \A n \in Reads : ~Incomplete(n)
  BY DEF write2file, Intact
<1>2. Reads = Sized({Root})
  BY <1>1 DEF Reads
<1>3. CountsByPosition(Root) => Root \in Reads
  BY <1>2 DEF Sized
<1>. QED  BY <1>1, <1>3, RootNode, ReadPositions, SizesReadable

LEMMA write2fileCore == ASSUME Core, NEW junk \in JunkPositions, write2file(junk) PROVE Core'
<1>1. CASE ~SizeReadable(Root, junk) /\ crash
  <2>1. ~intact'
    <3>1. intact' \in BOOLEAN
      BY DEF write2file, Intact, Core, TypeOK, WriteOK
    <3>. QED  BY <1>1, <3>1, write2fileReads
  <2>. QED  BY <1>1, <2>1, crashCore DEF write2file
<1>2. CASE ~(~SizeReadable(Root, junk) /\ crash)
  <2>1. /\ pc = "open" /\ pc' = "write" /\ bq' = <<Root>> /\ fill["index"] = NULL
        /\ intact' \in BOOLEAN
        /\ UNCHANGED <<child, bits, lists, ins, slot, items, cache, fill, q, walk, merge, ret>>
    BY <1>2 DEF write2file, Ready, Intact, tree, positions, query, Core, TypeOK, WriteOK
  <2>2. WriteOK' /\ lists' \in [Keys -> Seq(Nat)]
    BY <2>1, RootNode DEF Core, TypeOK, TreeOK, WriteOK
  <2>. QED  BY <2>1, <2>2, NotAdding, WriteStep
<1>. QED  BY <1>1, <1>2

LEMMA QueueNodes ==
    ASSUME TypeOK, bq # <<>>
    PROVE  /\ Head(bq) \in Node /\ Tail(bq) \in Seq(Node)
           /\ child[Head(bq)] \in SUBSET Digit
BY DEF TypeOK, TreeOK, WriteOK

\* What an inner node reads when it is written.
LEMMA writeInterNodeReads ==
    ASSUME Core, NEW junk \in JunkPositions, writeInterNode(junk)
    PROVE  /\ Head(bq) \in Node /\ (cache[Head(bq)] # NULL \/ elemCount(Head(bq)) = 0)
           /\ intact' =>
                /\ ~Incomplete(Head(bq)) /\ ToSet(bitPosition(Head(bq), junk)) = child[Head(bq)]
                /\ \A d \in child[Head(bq)] :
                     LET c == Child(Head(bq), d)
                     IN /\ c \in Node /\ SizeReadable(c, junk)
                        /\ CountsByPosition(c) =>
                             (cache[c] # NULL \/ elemCount(c) = 0) /\ ~Incomplete(c)
<1> DEFINE cur == Head(bq)
<1>1. /\ pc = "write" /\ bq # <<>> /\ ~isLeafNode(cur) /\ Ready
      /\ intact' => \A n \in Reads : ~Incomplete(n)
  BY DEF writeInterNode, Intact
<1>2. Reads = {cur} \cup Sized({Child(cur, d) : d \in child[cur]})
  BY <1>1 DEF Reads
<1>3. cur \in Node /\ child[cur] \in SUBSET Digit
  BY <1>1, QueueNodes DEF Core
<1> HIDE DEF cur
<1>4. cur \in Reads
  BY <1>2
<1>5. cache[cur] # NULL \/ elemCount(cur) = 0
  BY <1>1, <1>3, <1>4, ReadPositions
<1>6. ASSUME intact' PROVE ~Incomplete(cur) /\ ToSet(bitPosition(cur, junk)) = child[cur]
  BY <1>1, <1>3, <1>4, <1>5, <1>6, CompleteChildren
<1>7. ASSUME intact', NEW d \in child[cur], NEW c, c = Child(cur, d)
      PROVE  /\ c \in Node /\ SizeReadable(c, junk)
             /\ CountsByPosition(c) => (cache[c] # NULL \/ elemCount(c) = 0) /\ ~Incomplete(c)
  <2>1. c \in Node
    BY <1>1, <1>3, <1>7, ChildNode
  <2>2. CountsByPosition(c) => c \in Reads
    BY <1>2, <1>7 DEF Sized
  <2>3. CountsByPosition(c) => (cache[c] # NULL \/ elemCount(c) = 0) /\ ~Incomplete(c)
    BY <1>1, <1>7, <2>1, <2>2, ReadPositions
  <2>. QED  BY <2>1, <2>3, SizesReadable
<1>. QED  BY <1>3, <1>5, <1>6, <1>7 DEF cur

LEMMA writeInterNodeCore == ASSUME Core, NEW junk \in JunkPositions, writeInterNode(junk) PROVE Core'
<1> DEFINE cur == Head(bq)
           s == bitPosition(cur, junk)
           c == [i \in DOMAIN s |-> Child(cur, s[i])]
           ok == ToSet(s) \subseteq child[cur] /\ \A i \in DOMAIN s : SizeReadable(c[i], junk)
<1>1. /\ pc = "write" /\ bq # <<>> /\ ~isLeafNode(cur) /\ Ready /\ Intact(Reads)
      /\ \/ ~ok /\ crash
         \/ /\ ok /\ bq' = Tail(bq) \o c
            /\ UNCHANGED <<tree, positions, pc, query>>
  BY DEF writeInterNode
<1>2. /\ cur \in Node /\ (cache[cur] # NULL \/ elemCount(cur) = 0) /\ Tail(bq) \in Seq(Node)
      /\ intact' \in BOOLEAN
  BY <1>1, writeInterNodeReads, QueueNodes DEF Core, TypeOK, WriteOK, Intact
<1>3. s \in Seq(Digit) /\ DOMAIN s = 1 .. Len(s) /\ Len(s) \in Nat
  BY <1>2, BitPositionType DEF Core, TypeOK
<1>4. CASE ~ok /\ crash
  <2>1. ASSUME intact' PROVE ok
    <3>1. ToSet(s) = child[cur]
      BY <2>1, writeInterNodeReads
    <3>2. ASSUME NEW i \in DOMAIN s PROVE SizeReadable(c[i], junk)
      <4>1. s[i] \in child[cur] /\ c[i] = Child(cur, s[i])
        BY <3>1, <3>2 DEF ToSet
      <4>. QED  BY <2>1, <4>1, writeInterNodeReads
    <3>. QED  BY <3>1, <3>2
  <2>2. ~intact'
    BY <1>2, <1>4, <2>1
  <2>. QED  BY <1>1, <1>4, <2>2, crashCore
<1>5. CASE bq' = Tail(bq) \o c /\ UNCHANGED <<tree, positions, pc, query>>
  <2>1. c \in Seq(Node)
    <3>1. \A i \in 1 .. Len(s) : s[i] \in Digit
      <4> HIDE DEF s
      <4>. QED  BY <1>3
    <3>2. \A i \in 1 .. Len(s) : Child(cur, s[i]) \in Node
      BY <1>1, <1>2, <3>1, ChildNode
    <3> HIDE DEF s, cur
    <3>. QED  BY <1>3, <3>2
  <2>2. bq' \in Seq(Node)
    <3> HIDE DEF c
    <3>. QED  BY <1>2, <1>5, <2>1
  <2>3. /\ UNCHANGED <<child, bits, lists, ins, slot, items, cache, fill, pc, q, walk, merge, ret>>
        /\ fill["index"] = NULL
    BY <1>1, <1>5 DEF tree, positions, query, Ready
  <2>4. WriteOK' /\ lists' \in [Keys -> Seq(Nat)]
    BY <1>1, <1>2, <2>2, <2>3 DEF Core, TypeOK, TreeOK, WriteOK
  <2>. QED  BY <1>1, <2>3, <2>4, NotAdding, WriteStep
<1>. QED  BY <1>1, <1>4, <1>5

\* What a leaf reads when it is written.
LEMMA writeLeafNodeReads ==
    ASSUME Core, NEW junk \in JunkPositions, writeLeafNode(junk)
    PROVE  /\ Head(bq) \in Node /\ cache[Head(bq)] # NULL
           /\ intact' => ~Incomplete(Head(bq)) /\ ToSet(bitPosition(Head(bq), junk)) = child[Head(bq)]
<1>1. /\ pc = "write" /\ bq # <<>> /\ fill["index"] # NULL /\ fill["index"].at = "done"
      /\ intact' => ~Incomplete(Head(bq))
  BY DEF writeLeafNode, Intact
<1>2. Head(bq) \in Node
  BY <1>1, QueueNodes DEF Core
<1>3. cache[Head(bq)] # NULL
  BY <1>1 DEF Core, IndexFills
<1>. QED  BY <1>1, <1>2, <1>3, CompleteChildren

LEMMA writeLeafNodeCore == ASSUME Core, NEW junk \in JunkPositions, writeLeafNode(junk) PROVE Core'
<1> DEFINE cur == Head(bq)
           s == bitPosition(cur, junk)
           ok == ToSet(s) \subseteq child[cur]
           left(k) == \E i \in DOMAIN s : KeyOf(cur, s[i]) = k
<1>1. /\ pc = "write" /\ bq # <<>> /\ Intact({cur})
      /\ \/ ~ok /\ crash
         \/ /\ ok /\ bq' = Tail(bq) /\ lists' = [k \in Keys |-> IF left(k) THEN <<>> ELSE lists[k]]
            /\ fill' = [fill EXCEPT !["index"] = NULL]
            /\ UNCHANGED <<child, bits, ins, slot, items, cache, pc, query>>
  BY DEF writeLeafNode
<1>2. cur \in Node /\ intact' \in BOOLEAN /\ Tail(bq) \in Seq(Node)
  BY <1>1, QueueNodes DEF Core, TypeOK, WriteOK, Intact
<1>3. CASE ~ok /\ crash
  <2>1. ~intact'
    BY <1>2, <1>3, writeLeafNodeReads
  <2>. QED  BY <1>1, <1>3, <2>1, crashCore
<1>4. CASE bq' = Tail(bq) /\ lists' = [k \in Keys |-> IF left(k) THEN <<>> ELSE lists[k]]
            /\ fill' = [fill EXCEPT !["index"] = NULL]
            /\ UNCHANGED <<child, bits, ins, slot, items, cache, pc, query>>
  <2> HIDE DEF left, cur
  <2>1. lists' \in [Keys -> Seq(Nat)]
    BY <1>4 DEF Core, TypeOK, TreeOK
  <2>2. WriteOK' /\ fill'["index"] = NULL
    BY <1>2, <1>4 DEF Core, TypeOK, WriteOK, PositionsOK, Thread
  <2>. QED  BY <1>1, <1>4, <2>1, <2>2, NotAdding, WriteStep DEF query
<1>. QED  BY <1>1, <1>3, <1>4

LEMMA destroyCore == ASSUME Core, NEW junk \in JunkPositions, destroy(junk) PROVE Core'
<1> DEFINE ok == \A n \in Node :
                 ToSet(bitPosition(n, junk)) \subseteq child[n] /\ IsInjective(bitPosition(n, junk))
<1>1. /\ pc = "written" /\ Ready /\ Intact(Reads)
      /\ \/ ~ok /\ crash
         \/ /\ pc' = "freed" /\ q' = (IF q.pc = "idle" THEN q ELSE [q EXCEPT !.pc = "dangling"])
            /\ child' = [n \in Node |-> {}] /\ bits' = [n \in Node |-> {}]
            /\ cache' = [n \in Node |-> NULL] /\ fill' = [t \in DOMAIN fill |-> NULL]
            /\ UNCHANGED <<lists, ins, slot, items, bq, walk, merge, ret>>
  BY DEF destroy, written
<1>2. Reads = Node
  BY <1>1 DEF Reads
<1>3. intact' \in BOOLEAN /\ ins = NULL
  BY <1>1, NotAdding DEF Intact, Core, TypeOK, WriteOK
<1>4. CASE ~ok /\ crash
  <2>1. ASSUME intact', NEW n \in Node
        PROVE  ToSet(bitPosition(n, junk)) \subseteq child[n] /\ IsInjective(bitPosition(n, junk))
    <3>1. ~Incomplete(n) /\ (cache[n] # NULL \/ elemCount(n) = 0)
      BY <1>1, <1>2, <2>1, ReadPositions DEF Intact
    <3>. QED  BY <3>1, CompleteChildren
  <2>2. ~intact'
    BY <1>3, <1>4, <2>1
  <2>. QED  BY <1>1, <1>4, <2>2, crashCore
<1>5. CASE /\ pc' = "freed" /\ q' = (IF q.pc = "idle" THEN q ELSE [q EXCEPT !.pc = "dangling"])
           /\ child' = [n \in Node |-> {}] /\ bits' = [n \in Node |-> {}]
           /\ cache' = [n \in Node |-> NULL] /\ fill' = [t \in DOMAIN fill |-> NULL]
           /\ UNCHANGED <<lists, ins, slot, items, bq, walk, merge, ret>>
  <2>1. q' \in Query /\ q'.pc \notin {"spin", "abort"}
    <3>1. q \in Query /\ (q.pc # "idle" => q' = [q EXCEPT !.pc = "dangling"])
      BY <1>5 DEF Core, TypeOK, QueryOK
    <3>2. CASE q.pc = "idle"
      BY <1>5, <3>1, <3>2
    <3>3. CASE q.pc # "idle"
      BY <3>1, <3>3 DEF Query
    <3>. QED  BY <3>2, <3>3
  <2>2. DOMAIN fill = Thread
    BY DEF Core, TypeOK, PositionsOK
  <2>3. TypeOK'
    BY <1>3, <1>5, <2>1, <2>2 DEF Core, TypeOK, TreeOK, PositionsOK, WriteOK, QueryOK
  <2>4. Linked' /\ Settled' /\ Inserting' /\ Positions' /\ Added'
    BY <1>3, <1>5 DEF Core, Linked, Settled, Inserting, Positions, Added
  <2>5. Fills' /\ IndexFills' /\ CommandFills' /\ FailsOnlyIncomplete'
    BY <1>5, <2>1, <2>2 DEF Fills, Filling, IndexFills, CommandFills, FailsOnlyIncomplete, Thread
  <2>. QED  BY <2>3, <2>4, <2>5 DEF Core
<1>. QED  BY <1>1, <1>4, <1>5

-----------------------------------------------------------------------------
(* The query.                                                              *)

\* What a step of the query records.
LEMMA SeenFields ==
    ASSUME q \in Query
    PROVE  /\ Seen \in Query /\ LateSeen \in Query
           /\ \A f \in {Seen, LateSeen} :
                /\ f.pc = q.pc /\ f.lo = q.lo /\ f.hi = q.hi /\ f.before = q.before
                /\ f.torn = q.torn /\ f.empty = q.empty /\ (q.stale => f.stale)
                /\ ~f.late => ~q.late /\ pc = "run"
           /\ ~Seen.stale => ~q.stale /\ ~Incomplete(first)
           /\ LateSeen.stale = q.stale
<1>1. Incomplete(first) \in BOOLEAN /\ (pc # "run") \in BOOLEAN
  BY DEF Incomplete
<1>2. Seen \in Query /\ LateSeen \in Query
  BY <1>1 DEF Seen, LateSeen, Query
<1>3. /\ \A f \in {Seen, LateSeen} :
                /\ f.pc = q.pc /\ f.lo = q.lo /\ f.hi = q.hi /\ f.before = q.before
                /\ f.torn = q.torn /\ f.empty = q.empty
      /\ Seen.stale = (q.stale \/ Incomplete(first)) /\ LateSeen.stale = q.stale
      /\ Seen.late = (q.late \/ pc # "run") /\ LateSeen.late = (q.late \/ pc # "run")
  BY DEF Seen, LateSeen, Query
<1>. QED  BY <1>1, <1>2, <1>3

\* The query that starts.
LEMMA queryFromMemFields ==
    ASSUME Core, NEW r \in Ranges, queryFromMem(r)
    PROVE  /\ q' \in Query /\ q'.pc = "walk" /\ q'.lo = r[1] /\ q'.hi = r[2]
           /\ q'.before = Found(r[1], r[2]) \cap Done /\ ~q'.stale /\ ~q'.late /\ ~q'.torn /\ ~q'.empty
           /\ walk' \in Walk /\ walk'.cur = <<Root>> /\ walk'.next = <<>> /\ walk'.pos = 0 /\ ~walk'.scan
           /\ r[1] \in Nat /\ r[2] \in Nat
<1>1. r[1] \in Nat /\ r[2] \in Nat
  <2>1. r \in (0 .. PrefixCount[Depth] - 1) \X (0 .. PrefixCount[Depth] - 1)
    BY TrieAssumption
  <2>. QED  BY <2>1
<1> DEFINE B == Found(r[1], r[2]) \cap Done
<1>2. B \in SUBSET Nat
  BY DoneValues DEF Core, TypeOK
<1>3. q' = [NoQuery EXCEPT !.pc = "walk", !.lo = r[1], !.hi = r[2], !.before = B]
  BY DEF queryFromMem
<1> HIDE DEF B
<1>4. /\ q' \in Query /\ q'.pc = "walk" /\ q'.lo = r[1] /\ q'.hi = r[2]
      /\ q'.before = B /\ ~q'.stale /\ ~q'.late /\ ~q'.torn /\ ~q'.empty
  BY <1>1, <1>2, <1>3 DEF NoQuery, Query
<1>5. /\ walk' \in Walk /\ walk'.cur = <<Root>> /\ walk'.next = <<>> /\ walk'.pos = 0 /\ ~walk'.scan
  <2>1. walk' = [NoWalk EXCEPT !.cur = <<Root>>]
    BY DEF queryFromMem
  <2>2. <<Root>> \in Seq(Node)
    BY RootNode
  <2> DEFINE s == <<Root>>
  <2>3. s \in Seq(Node) /\ walk' = [NoWalk EXCEPT !.cur = s]
    BY <2>1, <2>2
  <2> HIDE DEF s
  <2>4. /\ walk' \in Walk /\ walk'.cur = s /\ walk'.next = <<>> /\ walk'.pos = 0 /\ ~walk'.scan
    <3>1. NoWalk \in Walk /\ NoWalk.next = <<>> /\ NoWalk.pos = 0 /\ NoWalk.scan = FALSE
      BY DEF NoWalk, Walk
    <3>. QED  BY <2>3, <3>1 DEF Walk
  <2>. QED  BY <2>4 DEF s
<1>. QED  BY <1>1, <1>4, <1>5 DEF B

LEMMA queryFromMemCore == ASSUME Core, NEW r \in Ranges, queryFromMem(r) PROVE Core'
<1>1. /\ Alive /\ q.pc = "idle" /\ UNCHANGED <<tree, positions, pc, bq, intact, merge, ret>>
  BY DEF queryFromMem, written
<1>2. q' \in Query /\ q'.pc = "walk" /\ walk' \in Walk
  BY queryFromMemFields
<1>3. QueryOK'
  BY <1>1, <1>2 DEF Core, TypeOK, QueryOK
<1>4. fill["command"] = NULL /\ pc # "crashed"
  BY <1>1 DEF Core, CommandFills, Alive
<1>. QED  BY <1>1, <1>2, <1>3, <1>4, QueryStep

\* The node that is visited.
LEMMA VisitedNode ==
    ASSUME QueryOK, Visits
    PROVE  /\ first \in Node /\ Tail(walk.cur) \in Seq(Node) /\ walk.pos \in Nat
           /\ walk.cur \in Seq(Node) /\ walk.next \in Seq(Node) /\ walk.scan \in BOOLEAN
           /\ first = walk.cur[1] /\ Len(walk.cur) \in Nat \ {0}
           /\ popNode \in Walk /\ popNode.cur = Tail(walk.cur) /\ popNode.next = walk.next
           /\ popNode.pos = 0 /\ popNode.scan = FALSE
<1>1. /\ walk \in Walk /\ walk.cur \in Seq(Node) /\ walk.cur # <<>> /\ walk.next \in Seq(Node)
      /\ walk.pos \in Nat /\ walk.scan \in BOOLEAN
  BY DEF QueryOK, Walk, Visits
<1>2. /\ first \in Node /\ Tail(walk.cur) \in Seq(Node) /\ first = walk.cur[1]
      /\ Len(walk.cur) \in Nat \ {0}
  <2> DEFINE c == walk.cur
  <2>1. c \in Seq(Node) /\ c # <<>>
    BY <1>1
  <2> HIDE DEF c
  <2>2. Head(c) \in Node /\ Tail(c) \in Seq(Node) /\ Head(c) = c[1] /\ Len(c) \in Nat \ {0}
    BY <2>1
  <2>. QED  BY <2>2 DEF c, first
<1>3. /\ popNode \in Walk /\ popNode.cur = Tail(walk.cur) /\ popNode.next = walk.next
      /\ popNode.pos = 0 /\ popNode.scan = FALSE
  BY <1>1, <1>2 DEF popNode, Walk
<1>. QED  BY <1>1, <1>2, <1>3

\* A position that is read of a complete bitPosition is one of a child.
LEMMA PositionRead ==
    ASSUME Core, Visits, PositionReadable, NEW d \in OnePosition, ~Incomplete(first)
    PROVE  /\ d \in child[first] /\ d \in Digit /\ cache[first] \in Seq(Digit)
           /\ walk.pos < Len(cache[first]) /\ walk.pos + 1 \in 1 .. Len(cache[first])
           /\ d = cache[first][walk.pos + 1]
           /\ ToSet(cache[first]) = child[first] /\ bits[first] = child[first]
           /\ Len(cache[first]) = elemCount(first) /\ Increasing(cache[first])
<1> DEFINE n == first
           c == cache[n]
           p == walk.pos + 1
<1>1. n \in Node /\ walk.pos \in Nat /\ c # NULL /\ walk.pos < elemCount(n)
  BY VisitedNode DEF Core, TypeOK, PositionReadable
<1>2. PICK junk \in JunkPositions : d = bitPosition(n, junk)[p]
  BY DEF OnePosition
<1> HIDE DEF n
<1>3. /\ c \in Seq(Digit) /\ Len(c) = elemCount(n) /\ child[n] \in SUBSET Digit
      /\ Increasing(c) /\ elemCount(n) \in Nat
  <2>1. c \in Seq(Digit) /\ child[n] \in SUBSET Digit /\ Increasing(c)
    BY <1>1 DEF Core, TypeOK, TreeOK, PositionsOK, Positions
  <2>2. elemCount(n) \in Nat
    BY <2>1, OnePositions DEF elemCount
  <2>3. ~Incomplete(n)
    BY DEF n
  <2>. QED  BY <1>1, <2>1, <2>2, <2>3 DEF Incomplete
<1>4. /\ bitPosition(n, junk) = getOnePositions(child[n]) /\ c = getOnePositions(child[n])
      /\ bits[n] = child[n] \/ elemCount(n) = 0
  <2>1. ~Incomplete(n)
    BY DEF n
  <2>. QED  BY <1>1, <2>1, CompletePositions DEF Core, TypeOK
<1>5. d = c[p] /\ ToSet(c) = child[n]
  BY <1>2, <1>3, <1>4, OnePositions
<1>6. walk.pos < Len(c) /\ p \in 1 .. Len(c) /\ bits[n] = child[n]
  BY <1>1, <1>3, <1>4
<1>7. d \in ToSet(c) /\ d \in Digit
  <2> DEFINE m == p
  <2>1. m \in 1 .. Len(c) /\ d = c[m] /\ DOMAIN c = 1 .. Len(c)
    BY <1>3, <1>5, <1>6
  <2> HIDE DEF m, c
  <2>. QED  BY <1>3, <2>1 DEF ToSet
<1>. QED  BY <1>3, <1>5, <1>6, <1>7 DEF n

\* What the loops change of a walk.
LEMMA PosMoved ==
    ASSUME NEW w \in Walk, NEW u, u = [w EXCEPT !.pos = @ + 1]
    PROVE  /\ u \in Walk /\ u.cur = w.cur /\ u.next = w.next /\ u.pos = w.pos + 1
           /\ u.scan = w.scan
<1> DEFINE p == w.pos + 1
<1>1. p \in Nat /\ u = [w EXCEPT !.pos = p]
  BY DEF Walk
<1> HIDE DEF p
<1>2. u \in Walk /\ u.cur = w.cur /\ u.next = w.next /\ u.pos = p /\ u.scan = w.scan
  BY <1>1 DEF Walk
<1>. QED  BY <1>2 DEF p

LEMMA ScanBegun ==
    ASSUME NEW w \in Walk, NEW u, u = [w EXCEPT !.scan = TRUE]
    PROVE  /\ u \in Walk /\ u.cur = w.cur /\ u.next = w.next /\ u.pos = w.pos
           /\ u.scan = TRUE
BY DEF Walk

LEMMA NextAppended ==
    ASSUME NEW w \in Walk, NEW n \in Node,
           NEW u, u = [w EXCEPT !.next = Append(@, n), !.pos = @ + 1]
    PROVE  /\ u \in Walk /\ u.cur = w.cur /\ u.next = Append(w.next, n) /\ u.pos = w.pos + 1
           /\ u.scan = w.scan
<1> DEFINE p == w.pos + 1
           s == Append(w.next, n)
<1>1. p \in Nat /\ s \in Seq(Node) /\ u = [w EXCEPT !.next = s, !.pos = p]
  BY DEF Walk
<1> HIDE DEF p, s
<1>2. u \in Walk /\ u.cur = w.cur /\ u.next = s /\ u.pos = p /\ u.scan = w.scan
  BY <1>1 DEF Walk
<1>. QED  BY <1>2 DEF p, s

\* A step of the loops over the positions of a node.
LEMMA VisitStep ==
    ASSUME Core, Visits, UNCHANGED <<tree, positions, bq, intact, ret>>,
           q' \in Query, walk' \in Walk, merge' \in Merge,
           pc' = pc \/ (pc' = "crashed" /\ q'.pc = "abort"),
           q'.pc \in {"spin", "abort"} => q'.stale
    PROVE  Core'
<1>1. fill["command"] = NULL /\ Alive /\ pc # "crashed"
  BY DEF Visits, Walks, Alive
<1>2. QueryOK'
  BY DEF Core, TypeOK, QueryOK
<1>. QED  BY <1>1, <1>2, QueryStep

LEMMA StaleFails == ASSUME Core PROVE q \in Query /\ (q.pc \in {"spin", "abort"} => q.stale)
BY DEF Core, TypeOK, QueryOK, FailsOnlyIncomplete

LEMMA seekCore == ASSUME Core, NEW d, seek(d) PROVE Core'
<1>1. /\ Visits /\ q' = Seen /\ UNCHANGED <<tree, positions, pc, bq, intact, merge, ret>>
      /\ walk' \in {[walk EXCEPT !.scan = TRUE], [walk EXCEPT !.pos = @ + 1]}
  BY DEF seek, written
<1>2. /\ q' \in Query /\ (q'.pc \in {"spin", "abort"} => q'.stale)
  BY <1>1, SeenFields, StaleFails
<1>3. walk' \in Walk /\ merge' \in Merge
  BY <1>1, PosMoved, ScanBegun DEF Core, TypeOK, QueryOK
<1>. QED  BY <1>1, <1>2, <1>3, VisitStep

LEMMA endOfNodeFields ==
    ASSUME q \in Query, endOfNode
    PROVE  /\ q' \in Query /\ q'.pc = q.pc /\ q'.lo = q.lo /\ q'.hi = q.hi /\ q'.before = q.before
           /\ q'.torn = q.torn /\ q'.stale = q.stale /\ (~q'.late => ~q.late /\ pc = "run")
           /\ (~q'.empty => ~q.empty /\ (walk.scan \/ elemCount(first) # 0)) /\ (q.empty => q'.empty)
<1> DEFINE e == q.empty \/ (~walk.scan /\ elemCount(first) = 0)
           f == LateSeen
<1>1. q' = [f EXCEPT !.empty = e] /\ e \in BOOLEAN
  <2>1. LateSeen.empty = q.empty
    BY SeenFields
  <2>2. q' = [LateSeen EXCEPT !.empty = @ \/ (~walk.scan /\ elemCount(first) = 0)]
    BY DEF endOfNode
  <2>3. q.empty \in BOOLEAN
    BY DEF Query
  <2>. QED  BY <2>1, <2>2, <2>3
<1>2. /\ f \in Query /\ f.pc = q.pc /\ f.lo = q.lo /\ f.hi = q.hi /\ f.before = q.before
      /\ f.torn = q.torn /\ f.stale = q.stale /\ (~f.late => ~q.late /\ pc = "run")
  BY SeenFields
<1>3. (~e => ~q.empty /\ (walk.scan \/ elemCount(first) # 0)) /\ (q.empty => e)
  OBVIOUS
<1> HIDE DEF e, f
<1>4. /\ q' \in Query /\ q'.pc = f.pc /\ q'.lo = f.lo /\ q'.hi = f.hi /\ q'.before = f.before
      /\ q'.torn = f.torn /\ q'.stale = f.stale /\ q'.late = f.late /\ q'.empty = e
  BY <1>1, <1>2 DEF Query
<1>. QED  BY <1>2, <1>3, <1>4

LEMMA endOfNodeCore == ASSUME Core, endOfNode PROVE Core'
<1>1. /\ Visits /\ UNCHANGED <<tree, positions, pc, bq, intact, merge, ret>>
      /\ walk' \in {popNode, [walk EXCEPT !.scan = TRUE]}
  BY DEF endOfNode, written
<1>2. /\ q' \in Query /\ (q'.pc \in {"spin", "abort"} => q'.stale)
  BY endOfNodeFields, StaleFails
<1>3. walk' \in Walk /\ merge' \in Merge
  <2>1. popNode \in Walk
    BY <1>1, VisitedNode DEF Core, TypeOK
  <2>. QED  BY <1>1, <2>1 DEF Core, TypeOK, QueryOK, Walk
<1>. QED  BY <1>1, <1>2, <1>3, VisitStep

\* The pc of a query that a turn of the loops leaves.
LEMMA SeenPc ==
    ASSUME q \in Query, NEW x \in {"walk", "spin", "abort"}, NEW f, f = [Seen EXCEPT !.pc = x]
    PROVE  /\ f \in Query /\ f.pc = x /\ f.lo = q.lo /\ f.hi = q.hi /\ f.before = q.before
           /\ f.torn = q.torn /\ f.empty = q.empty
           /\ ~f.stale => ~q.stale /\ ~Incomplete(first)
           /\ ~f.late => ~q.late /\ pc = "run"
<1> DEFINE g == Seen
<1>1. /\ g \in Query /\ g.lo = q.lo /\ g.hi = q.hi /\ g.before = q.before
      /\ g.torn = q.torn /\ g.empty = q.empty
      /\ ~g.stale => ~q.stale /\ ~Incomplete(first)
      /\ ~g.late => ~q.late /\ pc = "run"
  BY SeenFields
<1>2. f = [g EXCEPT !.pc = x]
  OBVIOUS
<1> HIDE DEF g
<1>3. /\ f \in Query /\ f.pc = x /\ f.lo = g.lo /\ f.hi = g.hi /\ f.before = g.before
      /\ f.torn = g.torn /\ f.empty = g.empty /\ f.stale = g.stale /\ f.late = g.late
  BY <1>1, <1>2 DEF Query
<1>. QED  BY <1>1, <1>3

LEMMA visitInterNodeCore == ASSUME Core, NEW d \in OnePosition, visitInterNode(d) PROVE Core'
<1>1. /\ Visits /\ PositionReadable /\ ~isLeafNode(first)
      /\ UNCHANGED <<tree, positions, pc, bq, intact, merge, ret>>
  BY DEF visitInterNode, written
<1>2. q \in Query /\ walk \in Walk /\ merge' \in Merge /\ first \in Node /\ popNode \in Walk
  BY <1>1, VisitedNode DEF Core, TypeOK, QueryOK
<1>3. CASE walk' = popNode /\ q' = [Seen EXCEPT !.pc = "walk"]
  <2>1. q' \in Query /\ q'.pc = "walk"
    BY <1>2, <1>3, SeenPc
  <2>. QED  BY <1>1, <1>2, <1>3, <2>1, VisitStep
<1>4. CASE /\ d \in child[first]
           /\ walk' = [walk EXCEPT !.next = Append(@, Child(first, d)), !.pos = @ + 1]
           /\ q' = [Seen EXCEPT !.pc = "walk"]
  <2>1. q' \in Query /\ q'.pc = "walk"
    BY <1>2, <1>4, SeenPc
  <2>2. Child(first, d) \in Node
    <3>1. d \in Digit
      BY <1>2, <1>4 DEF Core, TypeOK, TreeOK
    <3>. QED  BY <1>1, <1>2, <3>1, ChildNode
  <2>3. walk' \in Walk
    <3> DEFINE c == Child(first, d)
    <3>1. c \in Node /\ walk' = [walk EXCEPT !.next = Append(@, c), !.pos = @ + 1]
      BY <1>4, <2>2
    <3> HIDE DEF c
    <3>. QED  BY <1>2, <3>1, NextAppended
  <2>. QED  BY <1>1, <1>2, <2>1, <2>3, VisitStep
<1>5. CASE d \notin child[first] /\ q' = [Seen EXCEPT !.pc = "spin"] /\ UNCHANGED walk
  <2>1. q' \in Query /\ (~q'.stale => ~Incomplete(first))
    BY <1>2, <1>5, SeenPc
  <2>2. q'.stale \in BOOLEAN
    BY <2>1 DEF Query
  <2>3. q'.stale
    BY <1>1, <1>5, <2>1, <2>2, PositionRead
  <2>. QED  BY <1>1, <1>2, <1>5, <2>1, <2>3, VisitStep
<1>. QED  BY <1>3, <1>4, <1>5 DEF visitInterNode

LEMMA NoMergeType == ASSUME NEW k \in Keys PROVE NoMerge \in Merge /\ [NoMerge EXCEPT !.list = k] \in Merge
<1>1. <<>> \in Seq(Nat) /\ 1 \in Nat \ {0}
  OBVIOUS
<1>. QED  BY <1>1 DEF NoMerge, Merge

LEMMA visitLeafNodeCore == ASSUME Core, NEW d \in OnePosition, visitLeafNode(d) PROVE Core'
<1>1. /\ Visits /\ PositionReadable /\ isLeafNode(first)
      /\ UNCHANGED <<tree, positions, bq, intact, ret>>
      /\ pc' = IF q'.pc = "abort" THEN "crashed" ELSE pc
  BY DEF visitLeafNode, written
<1>2. /\ q \in Query /\ walk \in Walk /\ merge \in Merge /\ first \in Node /\ popNode \in Walk
      /\ Seen \in Query /\ (Seen.pc \in {"spin", "abort"} => Seen.stale)
  <2>1. Seen \in Query /\ (Seen.pc \in {"spin", "abort"} => Seen.stale)
    BY SeenFields, StaleFails
  <2>. QED  BY <1>1, <2>1, VisitedNode DEF Core, TypeOK, QueryOK
<1>3. CASE walk' = popNode /\ q' = Seen /\ UNCHANGED merge
  BY <1>1, <1>2, <1>3, VisitStep
<1>4. CASE /\ d \in child[first] /\ q' = Seen
           /\ \/ walk' = [walk EXCEPT !.pos = @ + 1] /\ UNCHANGED merge
              \/ merge' = [NoMerge EXCEPT !.list = KeyOf(first, d)] /\ UNCHANGED walk
  <2>1. KeyOf(first, d) \in Keys
    BY <1>1, <1>2, <1>4 DEF Core, Linked
  <2>2. merge' \in Merge
    BY <1>2, <1>4, <2>1, NoMergeType
  <2>3. walk' \in Walk
    BY <1>2, <1>4, PosMoved
  <2>. QED  BY <1>1, <1>2, <1>4, <2>2, <2>3, VisitStep
<1>5. CASE d \notin child[first] /\ q' = [Seen EXCEPT !.pc = "abort"] /\ UNCHANGED <<walk, merge>>
  <2>1. q' \in Query /\ (~q'.stale => ~Incomplete(first))
    BY <1>2, <1>5, SeenPc
  <2>2. q'.stale \in BOOLEAN
    BY <2>1 DEF Query
  <2>3. q'.stale
    BY <1>1, <1>5, <2>1, <2>2, PositionRead
  <2>. QED  BY <1>1, <1>2, <1>5, <2>1, <2>3, VisitStep
<1>. QED  BY <1>3, <1>4, <1>5 DEF visitLeafNode

\* A step of the loop that merges a list.
LEMMA MergeStep ==
    ASSUME Core, Merges, UNCHANGED <<tree, positions, pc, bq, intact>>,
           q' \in Query, q'.pc \notin {"spin", "abort"},
           walk' \in Walk, merge' \in Merge, ret' \in Seq(Nat)
    PROVE  Core'
<1>1. fill["command"] = NULL /\ pc # "crashed"
  BY DEF Merges, Core, CommandFills, Alive
<1>2. QueryOK'
  BY DEF QueryOK
<1>. QED  BY <1>1, <1>2, QueryStep

\* What the merge reads and where it is.
LEMMA MergeTypes ==
    ASSUME Core, Merges
    PROVE  /\ q \in Query /\ q.pc = "walk" /\ walk \in Walk /\ merge \in Merge /\ ret \in Seq(Nat)
           /\ LateSeen \in Query /\ LateSeen.pc = "walk"
           /\ merge.list \in Keys /\ merge.at \in Nat \ {0} /\ merge.idx \in Nat \ {0}
           /\ merge.temp \in Seq(Nat) /\ lists[merge.list] \in Seq(Nat) /\ items \in Seq(Keys)
           /\ ELEM_NUM_EACH_NODE \in Nat \ {0} /\ Data \subseteq Nat
<1>1. /\ q \in Query /\ q.pc = "walk" /\ walk \in Walk /\ merge \in Merge /\ ret \in Seq(Nat)
      /\ lists \in [Keys -> Seq(Nat)] /\ items \in Seq(Keys)
  BY DEF Core, TypeOK, TreeOK, QueryOK, Merges
<1>2. /\ merge.list \in Keys /\ merge.at \in Nat \ {0} /\ merge.idx \in Nat \ {0}
      /\ merge.temp \in Seq(Nat)
  BY <1>1 DEF Merge, Merges
<1>3. LateSeen \in Query /\ LateSeen.pc = "walk"
  BY <1>1, SeenFields
<1>4. lists[merge.list] \in Seq(Nat)
  BY <1>1, <1>2
<1>5. Data \subseteq Nat
  <2> DEFINE s == lists[merge.list]
             i == merge.at
  <2>1. s \in Seq(Nat) /\ i \in Nat \ {0} /\ Len(items) \in Nat /\ JunkValues \subseteq Nat
    BY <1>1, <1>2, <1>4, TrieAssumption
  <2>2. Data = IF i <= Len(s) THEN {s[i]}
               ELSE IF Stored(merge.list, i) THEN {Len(items)} ELSE JunkValues \cup {Len(items)}
    BY DEF Data
  <2> HIDE DEF s, i
  <2>3. i <= Len(s) => s[i] \in Nat
    BY <2>1
  <2>. QED  BY <2>1, <2>2, <2>3
<1>. QED  BY <1>1, <1>2, <1>3, <1>4, <1>5, TrieAssumption

\* The query after a turn of the merge.
LEMMA mergeTurnSeen ==
    ASSUME q \in Query, NEW v, NEW w, mergeTurn(v, w)
    PROVE  /\ q' \in Query /\ q'.pc = q.pc /\ q'.lo = q.lo /\ q'.hi = q.hi /\ q'.before = q.before
           /\ q'.empty = q.empty /\ q'.stale = q.stale
           /\ ~q'.late => ~q.late /\ pc = "run"
           /\ ~q'.torn => ~q.torn /\ Stored(merge.list, merge.at)
<1> DEFINE e == q.torn \/ ~Stored(merge.list, merge.at)
           f == LateSeen
<1>1. q' = [f EXCEPT !.torn = e] /\ e \in BOOLEAN
  <2>1. LateSeen.torn = q.torn
    BY SeenFields
  <2>2. q' = [LateSeen EXCEPT !.torn = @ \/ ~Stored(merge.list, merge.at)]
    BY DEF mergeTurn
  <2>3. q.torn \in BOOLEAN
    BY DEF Query
  <2>. QED  BY <2>1, <2>2, <2>3
<1>2. /\ f \in Query /\ f.pc = q.pc /\ f.lo = q.lo /\ f.hi = q.hi /\ f.before = q.before
      /\ f.empty = q.empty /\ f.stale = q.stale /\ (~f.late => ~q.late /\ pc = "run")
  BY SeenFields
<1>3. ~e => ~q.torn /\ Stored(merge.list, merge.at)
  OBVIOUS
<1> HIDE DEF e, f
<1>4. /\ q' \in Query /\ q'.pc = f.pc /\ q'.lo = f.lo /\ q'.hi = f.hi /\ q'.before = f.before
      /\ q'.empty = f.empty /\ q'.stale = f.stale /\ q'.late = f.late /\ q'.torn = e
  BY <1>1, <1>2 DEF Query
<1>. QED  BY <1>2, <1>3, <1>4

\* What a turn of the merge does: it takes the next value found before, or one
\* of the list.
LEMMA mergeTurnMerge ==
    ASSUME merge \in Merge, ret \in Seq(Nat), NEW v \in Nat, NEW w \in Nat, mergeTurn(v, w)
    PROVE  /\ merge' \in Merge /\ merge'.list = merge.list /\ merge'.at = merge.at
           /\ \/ /\ merge.idx <= Len(ret) /\ v > ret[merge.idx]
                 /\ merge'.temp = Append(merge.temp, ret[merge.idx])
                 /\ merge'.idx = merge.idx + 1 /\ merge'.step = "turn"
              \/ /\ ~(merge.idx <= Len(ret) /\ v > ret[merge.idx])
                 /\ merge'.temp = Append(merge.temp, w)
                 /\ merge'.idx = merge.idx /\ merge'.step = "count"
<1>1. /\ merge.idx \in Nat \ {0} /\ merge.temp \in Seq(Nat) /\ merge.step = "turn"
      /\ Len(ret) \in Nat
  BY DEF Merge, mergeTurn
<1>2. CASE merge.idx <= Len(ret) /\ v > ret[merge.idx]
  <2> DEFINE e == ret[merge.idx]
             s == Append(merge.temp, e)
             j == merge.idx + 1
  <2>1. e \in Nat
    BY <1>1, <1>2
  <2>2. s \in Seq(Nat) /\ j \in Nat \ {0}
    <3> HIDE DEF e
    <3>. QED  BY <1>1, <2>1
  <2>3. merge' = [merge EXCEPT !.temp = s, !.idx = j]
    BY <1>2 DEF mergeTurn, OldLeft
  <2> HIDE DEF e, s, j
  <2>4. /\ merge' \in Merge /\ merge'.list = merge.list /\ merge'.at = merge.at
        /\ merge'.temp = s /\ merge'.idx = j /\ merge'.step = merge.step
    BY <2>2, <2>3 DEF Merge
  <2>. QED  BY <1>1, <1>2, <2>4 DEF s, j, e
<1>3. CASE ~(merge.idx <= Len(ret) /\ v > ret[merge.idx])
  <2> DEFINE s == Append(merge.temp, w)
  <2>1. s \in Seq(Nat)
    BY <1>1
  <2>2. merge' = [merge EXCEPT !.temp = s, !.step = "count"]
    BY <1>3 DEF mergeTurn, OldLeft
  <2> HIDE DEF s
  <2>3. /\ merge' \in Merge /\ merge'.list = merge.list /\ merge'.at = merge.at
        /\ merge'.temp = s /\ merge'.idx = merge.idx /\ merge'.step = "count"
    BY <2>1, <2>2 DEF Merge
  <2>. QED  BY <1>3, <2>3 DEF s
<1>. QED  BY <1>2, <1>3

LEMMA mergeTurnCore == ASSUME Core, NEW v \in Data, NEW w \in Data, mergeTurn(v, w) PROVE Core'
<1>1. Merges /\ UNCHANGED <<tree, positions, pc, bq, intact, walk, ret>>
  BY DEF mergeTurn, written
<1>2. /\ q \in Query /\ q.pc = "walk" /\ walk \in Walk /\ merge \in Merge /\ ret \in Seq(Nat)
      /\ v \in Nat /\ w \in Nat
  BY <1>1, MergeTypes
<1>3. q' \in Query /\ q'.pc = "walk" /\ merge' \in Merge
  BY <1>2, mergeTurnSeen, mergeTurnMerge
<1>. QED  BY <1>1, <1>2, <1>3, MergeStep

LEMMA readElemNumMerge ==
    ASSUME merge \in Merge, readElemNum
    PROVE  /\ merge' \in Merge /\ merge'.list = merge.list /\ merge'.temp = merge.temp
           /\ merge'.idx = merge.idx /\ merge.step = "count"
           /\ \/ merge.at < Counted(merge.list) /\ merge'.at = merge.at + 1 /\ merge'.step = "turn"
              \/ ~(merge.at < Counted(merge.list)) /\ merge'.at = merge.at /\ merge'.step = "next"
<1> DEFINE j == merge.at + 1
<1>1. merge.at \in Nat \ {0} /\ j \in Nat \ {0} /\ merge.step = "count"
  BY DEF Merge, readElemNum
<1>2. CASE merge.at < Counted(merge.list)
  <2>1. merge' = [merge EXCEPT !.at = j, !.step = "turn"]
    BY <1>2 DEF readElemNum
  <2> HIDE DEF j
  <2>2. /\ merge' \in Merge /\ merge'.list = merge.list /\ merge'.temp = merge.temp
        /\ merge'.idx = merge.idx /\ merge'.at = j /\ merge'.step = "turn"
    BY <1>1, <2>1 DEF Merge
  <2>. QED  BY <1>1, <1>2, <2>2 DEF j
<1>3. CASE ~(merge.at < Counted(merge.list))
  <2>1. merge' = [merge EXCEPT !.step = "next"]
    BY <1>3 DEF readElemNum
  <2>2. /\ merge' \in Merge /\ merge'.list = merge.list /\ merge'.temp = merge.temp
        /\ merge'.idx = merge.idx /\ merge'.at = merge.at /\ merge'.step = "next"
    BY <1>1, <2>1 DEF Merge
  <2>. QED  BY <1>1, <1>3, <2>2
<1>. QED  BY <1>2, <1>3

LEMMA readElemNumCore == ASSUME Core, readElemNum PROVE Core'
<1>1. Merges /\ UNCHANGED <<tree, positions, pc, bq, intact, walk, ret>> /\ q' = LateSeen
  BY DEF readElemNum, written
<1>2. /\ LateSeen \in Query /\ LateSeen.pc = "walk" /\ walk \in Walk /\ merge \in Merge /\ ret \in Seq(Nat)
  BY <1>1, MergeTypes
<1>3. merge' \in Merge
  BY <1>2, readElemNumMerge
<1>. QED  BY <1>1, <1>2, <1>3, MergeStep

\* The place where the next node of a list begins.
LEMMA NodeBegins ==
    ASSUME NEW at \in Nat \ {0}, NEW E \in Nat \ {0}, NEW m, m = (at - 1) \div E + 1
    PROVE  /\ m \in Nat \ {0} /\ m * E \in Nat /\ m * E + 1 \in Nat \ {0} /\ at <= m * E
           /\ at % E = 0 => at = m * E
<1> DEFINE x == (at - 1) \div E
<1>1. at - 1 \in Nat
  OBVIOUS
<1>2. x \in Nat /\ at - 1 = x * E + ((at - 1) % E) /\ (at - 1) % E \in 0 .. E - 1
  BY <1>1, Division
<1> DEFINE r == (at - 1) % E
<1>3. r \in 0 .. E - 1 /\ at - 1 = x * E + r
  BY <1>2
<1> HIDE DEF x, r
<1>4. x * E \in Nat /\ (x + 1) * E = x * E + E /\ m = x + 1
  BY <1>2 DEF x
<1>5. at <= m * E /\ m * E \in Nat /\ m \in Nat \ {0}
  BY <1>2, <1>3, <1>4
<1>6. ASSUME at % E = 0 PROVE at = m * E
  <2>1. PICK y \in Nat : at = y * E
    <3>1. at = (at \div E) * E + (at % E) /\ at \div E \in Nat
      BY Division
    <3>2. at = (at \div E) * E
      BY <1>6, <3>1
    <3>. QED  BY <3>1, <3>2
  <2>2. y * E \in Nat /\ x * E < y * E /\ y * E <= (x + 1) * E
    BY <1>3, <1>4, <2>1, <1>2
  <2>3. \A a, b \in Nat : a < b => (a + 1) * E <= b * E
    <3>1. ASSUME NEW a \in Nat, NEW b \in Nat, a < b PROVE (a + 1) * E <= b * E
      <4>1. a + 1 <= b /\ a + 1 \in Nat
        BY <3>1
      <4>2. \A c, d, e \in Nat : c <= d => c * e <= d * e
        OBVIOUS
      <4>. QED  BY <4>1, <4>2
    <3>. QED  BY <3>1
  <2>4. ~(y <= x)
    <3>1. \A c, d, e \in Nat : c <= d => c * e <= d * e
      OBVIOUS
    <3>2. y <= x => y * E <= x * E
      BY <1>2, <2>1, <3>1
    <3>. QED  BY <1>4, <2>2, <3>2
  <2>5. (x + 1) * E <= y * E
    BY <1>2, <2>1, <2>3, <2>4
  <2>. QED  BY <1>4, <2>1, <2>2, <2>5
<1>. QED  BY <1>5, <1>6

\* What nextNode does: it begins the next node of the list, or it ends the merge.
LEMMA nextNodeMerge ==
    ASSUME merge \in Merge, walk \in Walk, ret \in Seq(Nat), nextNode,
           NEW m, m = (merge.at - 1) \div ELEM_NUM_EACH_NODE + 1
    PROVE  \/ /\ Nodes(merge.list) > m
              /\ merge' \in Merge /\ merge'.list = merge.list /\ merge'.temp = merge.temp
              /\ merge'.idx = merge.idx /\ merge'.at = m * ELEM_NUM_EACH_NODE + 1 /\ merge'.step = "turn"
              /\ UNCHANGED <<walk, ret>>
           \/ /\ Nodes(merge.list) <= m
              /\ ret' = merge.temp \o SubSeq(ret, merge.idx, Len(ret)) /\ merge' = NoMerge
              /\ walk' = [walk EXCEPT !.pos = @ + 1]
<1>1. CASE /\ Nodes(merge.list) > m
           /\ merge' = [merge EXCEPT !.step = "turn", !.at = m * ELEM_NUM_EACH_NODE + 1]
           /\ UNCHANGED <<walk, ret>>
  <2> DEFINE j == m * ELEM_NUM_EACH_NODE + 1
  <2>1. j \in Nat \ {0} /\ merge' = [merge EXCEPT !.step = "turn", !.at = j]
    BY <1>1, NodeBegins, TrieAssumption DEF Merge
  <2> HIDE DEF j
  <2>2. /\ merge' \in Merge /\ merge'.list = merge.list /\ merge'.temp = merge.temp
        /\ merge'.idx = merge.idx /\ merge'.at = j /\ merge'.step = "turn"
    BY <2>1 DEF Merge
  <2>. QED  BY <1>1, <2>2 DEF j
<1>. QED  BY <1>1 DEF nextNode

LEMMA nextNodeCore == ASSUME Core, nextNode PROVE Core'
<1> DEFINE m == (merge.at - 1) \div ELEM_NUM_EACH_NODE + 1
<1>1. Merges /\ UNCHANGED <<tree, positions, pc, bq, intact>> /\ q' = LateSeen
  BY DEF nextNode, written
<1>2. /\ LateSeen \in Query /\ LateSeen.pc = "walk" /\ walk \in Walk /\ merge \in Merge /\ ret \in Seq(Nat)
      /\ merge.temp \in Seq(Nat) /\ merge.list \in Keys /\ merge.idx \in Nat \ {0}
  BY <1>1, MergeTypes
<1>3. \/ merge' \in Merge /\ UNCHANGED <<walk, ret>>
      \/ /\ ret' = merge.temp \o SubSeq(ret, merge.idx, Len(ret)) /\ merge' = NoMerge
         /\ walk' = [walk EXCEPT !.pos = @ + 1]
  BY <1>2, nextNodeMerge
<1>4. merge' \in Merge
  BY <1>2, <1>3, NoMergeType
<1>5. walk' \in Walk
  BY <1>2, <1>3, PosMoved
<1>6. ret' \in Seq(Nat)
  <2>1. SubSeq(ret, merge.idx, Len(ret)) \in Seq(Nat)
    <3> DEFINE i == merge.idx
    <3>1. i \in Nat \ {0} /\ ret \in Seq(Nat)
      BY <1>2
    <3> HIDE DEF i
    <3>2. SubSeq(ret, i, Len(ret)) \in Seq(Nat)
      BY <3>1
    <3>. QED  BY <3>2 DEF i
  <2> DEFINE s == SubSeq(ret, merge.idx, Len(ret))
             t == merge.temp
  <2>2. s \in Seq(Nat) /\ t \in Seq(Nat) /\ (ret' = ret \/ ret' = t \o s)
    BY <1>2, <1>3, <2>1
  <2> HIDE DEF s, t
  <2>3. t \o s \in Seq(Nat)
    BY <2>2
  <2>4. ret \in Seq(Nat)
    BY <1>2
  <2>. QED  BY <2>2, <2>3, <2>4
<1>. QED  BY <1>1, <1>2, <1>4, <1>5, <1>6, MergeStep

\* The queues change places.
LEMMA LevelBegun ==
    ASSUME NEW w \in Walk, NEW u, u = [w EXCEPT !.cur = w.next, !.next = <<>>]
    PROVE  /\ u \in Walk /\ u.cur = w.next /\ u.next = <<>> /\ u.pos = w.pos /\ u.scan = w.scan
<1> DEFINE s == w.next
           e == <<>>
<1>1. s \in Seq(Node) /\ e \in Seq(Node) /\ u = [w EXCEPT !.cur = s, !.next = e]
  BY DEF Walk
<1> HIDE DEF s, e
<1>2. u \in Walk /\ u.cur = s /\ u.next = e /\ u.pos = w.pos /\ u.scan = w.scan
  BY <1>1 DEF Walk
<1>. QED  BY <1>2 DEF s, e

LEMMA nextLevelCore == ASSUME Core, nextLevel PROVE Core'
<1>1. /\ Walks /\ q' = LateSeen /\ UNCHANGED <<tree, positions, pc, bq, intact, merge, ret>>
      /\ walk' = [walk EXCEPT !.cur = walk.next, !.next = <<>>]
  BY DEF nextLevel, written
<1>2. /\ q \in Query /\ walk \in Walk /\ LateSeen \in Query
      /\ (LateSeen.pc \in {"spin", "abort"} => LateSeen.stale)
  BY SeenFields, StaleFails DEF Core, TypeOK, QueryOK
<1>3. walk' \in Walk
  BY <1>1, <1>2, LevelBegun
<1>4. QueryOK'
  BY <1>1, <1>2, <1>3 DEF Core, TypeOK, QueryOK
<1>5. fill["command"] = NULL /\ pc # "crashed"
  BY <1>1 DEF Walks, Alive
<1>. QED  BY <1>1, <1>2, <1>4, <1>5, QueryStep

LEMMA returnCore == ASSUME Core, return PROVE Core'
<1>1. /\ Walks /\ q' = NoQuery /\ walk' = NoWalk /\ ret' = <<>>
      /\ UNCHANGED <<tree, positions, pc, bq, intact, merge>>
  BY DEF return, written
<1>2. QueryOK'
  <2>1. NoQuery \in Query /\ NoWalk \in Walk /\ <<>> \in Seq(Nat)
    BY DEF NoQuery, Query, NoWalk, Walk
  <2>. QED  BY <1>1, <2>1 DEF Core, TypeOK, QueryOK
<1>3. fill["command"] = NULL /\ pc # "crashed" /\ q'.pc = "idle"
  BY <1>1 DEF Walks, Alive, NoQuery
<1>. QED  BY <1>1, <1>2, <1>3, QueryStep

LEMMA readFreedCore == ASSUME Core, readFreed PROVE Core'
<1>1. /\ Merges /\ q' = [q EXCEPT !.pc = "dangling", !.late = TRUE]
      /\ UNCHANGED <<tree, positions, pc, bq, intact, walk, merge, ret>>
  BY DEF readFreed, written
<1>2. q' \in Query /\ q'.pc = "dangling"
  BY <1>1 DEF Core, TypeOK, QueryOK, Query
<1>. QED  BY <1>1, <1>2, MergeStep DEF Core, TypeOK, QueryOK

-----------------------------------------------------------------------------
(* Every step.                                                             *)

LEMMA CoreStep == ASSUME Core, [Next]_vars PROVE Core'
<1>1. CASE GetBitPosition
  <2>1. PICK t \in Thread : newBitPosition(t) \/ readWord(t) \/ storePosition(t)
    BY <1>1 DEF GetBitPosition, Thread
  <2>. QED  BY <2>1, newBitPositionCore, readWordCore, storePositionCore
<1>2. CASE IndexThread
  <2>1. CASE \E k \in Keys : addItem(k)
    BY <2>1, addItemCore
  <2>2. CASE newChild \/ setBit \/ newNode
    BY <2>2, newChildCore, setBitCore, newNodeCore
  <2>3. CASE writeData \/ countElement
    BY <2>3, HalfCore DEF writeData, countElement
  <2>4. CASE fopen \/ fclose
    BY <2>4, fopenCore, fcloseCore
  <2>5. CASE computePositions
    <3>1. PICK n \in ToCompute : startFill("index", n)
      BY <2>5 DEF computePositions
    <3>2. n \in Reads
      BY DEF ToCompute
    <3>3. pc # "run"
      BY <3>2 DEF Reads
    <3>4. n \in Node
      <4>1. CASE pc = "open"
        <5>1. Reads = Sized({Root})
          BY <4>1 DEF Reads
        <5>. QED  BY <3>2, <5>1, RootNode DEF Sized
      <4>2. CASE pc = "write"
        <5>1. /\ bq # <<>> /\ ~isLeafNode(Head(bq))
              /\ Reads = {Head(bq)} \cup Sized({Child(Head(bq), d) : d \in child[Head(bq)]})
          BY <3>2, <4>2 DEF Reads
        <5>2. Head(bq) \in Node /\ child[Head(bq)] \in SUBSET Digit
          BY <5>1, QueueNodes DEF Core
        <5>3. n = Head(bq) \/ \E d \in child[Head(bq)] : n = Child(Head(bq), d)
          BY <3>2, <5>1 DEF Sized
        <5>. QED  BY <5>1, <5>2, <5>3, ChildNode
      <4>3. CASE pc = "written"
        BY <3>2, <4>3 DEF Reads
      <4>4. CASE pc \notin {"open", "write", "written"}
        BY <3>2, <4>4 DEF Reads
      <4>. QED  BY <4>1, <4>2, <4>3, <4>4
    <3>. QED  BY <3>1, <3>3, <3>4, startFillCore DEF Thread
  <2>6. CASE recountLeaf
    <3>1. pc = "write" /\ bq # <<>> /\ startFill("index", Head(bq))
      BY <2>6 DEF recountLeaf
    <3>2. Head(bq) \in Node
      BY <3>1, QueueNodes DEF Core
    <3>. QED  BY <3>1, <3>2, startFillCore DEF Thread
  <2>7. CASE \E junk \in JunkPositions :
               write2file(junk) \/ writeInterNode(junk) \/ writeLeafNode(junk) \/ destroy(junk)
    BY <2>7, write2fileCore, writeInterNodeCore, writeLeafNodeCore, destroyCore
  <2>. QED  BY <1>2, <2>1, <2>2, <2>3, <2>4, <2>5, <2>6, <2>7 DEF IndexThread
<1>3. CASE CommandThread
  <2>1. CASE \E r \in Ranges : queryFromMem(r)
    BY <2>1, queryFromMemCore
  <2>2. CASE getBitPosition
    <3>1. Visits /\ startFill("command", first)
      BY <2>2 DEF getBitPosition
    <3>2. first \in Node
      BY <3>1, VisitedNode DEF Core, TypeOK
    <3>. QED  BY <3>1, <3>2, startFillCore DEF Thread
  <2>3. CASE \E d \in OnePosition : seek(d) \/ visitInterNode(d) \/ visitLeafNode(d)
    BY <2>3, seekCore, visitInterNodeCore, visitLeafNodeCore
  <2>4. CASE \E v, w \in Data : mergeTurn(v, w)
    BY <2>4, mergeTurnCore
  <2>5. CASE endOfNode \/ nextLevel \/ return \/ readFreed
    BY <2>5, endOfNodeCore, nextLevelCore, returnCore, readFreedCore
  <2>6. CASE readElemNum \/ nextNode
    BY <2>6, readElemNumCore, nextNodeCore
  <2>. QED  BY <1>3, <2>1, <2>2, <2>3, <2>4, <2>5, <2>6 DEF CommandThread
<1>4. CASE UNCHANGED vars
  BY <1>4, QueryStep, StaleFails DEF vars, query, written, Core, TypeOK, QueryOK
<1>. QED  BY <1>1, <1>2, <1>3, <1>4 DEF Next

-----------------------------------------------------------------------------
(* Steps that leave the walk alone.                                        *)

LEMMA WalkTypes ==
    ASSUME Core
    PROVE  /\ q \in Query /\ walk \in Walk /\ merge \in Merge /\ ret \in Seq(Nat)
           /\ walk.cur \in Seq(Node) /\ walk.next \in Seq(Node) /\ walk.pos \in Nat /\ walk.scan \in BOOLEAN
           /\ merge.at \in Nat \ {0} /\ merge.idx \in Nat \ {0} /\ merge.temp \in Seq(Nat)
           /\ merge.list \in Keys \cup {NULL} /\ merge.step \in {"turn", "count", "next"}
           /\ q.lo \in Nat /\ q.hi \in Nat /\ q.before \in SUBSET Nat /\ q.empty \in BOOLEAN
           /\ q.torn \in BOOLEAN /\ q.late \in BOOLEAN /\ q.stale \in BOOLEAN
           /\ TreeOK /\ lists \in [Keys -> Seq(Nat)] /\ items \in Seq(Keys)
<1>1. q \in Query /\ walk \in Walk /\ merge \in Merge /\ ret \in Seq(Nat) /\ TreeOK
  BY DEF Core, TypeOK, QueryOK
<1>2. walk.cur \in Seq(Node) /\ walk.next \in Seq(Node) /\ walk.pos \in Nat /\ walk.scan \in BOOLEAN
  BY <1>1 DEF Walk
<1>3. /\ merge.at \in Nat \ {0} /\ merge.idx \in Nat \ {0} /\ merge.temp \in Seq(Nat)
      /\ merge.list \in Keys \cup {NULL} /\ merge.step \in {"turn", "count", "next"}
  BY <1>1 DEF Merge
<1>4. /\ q.lo \in Nat /\ q.hi \in Nat /\ q.before \in SUBSET Nat /\ q.empty \in BOOLEAN
      /\ q.torn \in BOOLEAN /\ q.late \in BOOLEAN /\ q.stale \in BOOLEAN
  BY <1>1 DEF Query
<1>. QED  BY <1>1, <1>2, <1>3, <1>4 DEF TreeOK

\* The command thread computes the positions of the first node before it reads any.
LEMMA FillWalk ==
    ASSUME Core, WalkExact, UNCHANGED <<tree, pc, q, walk, merge, ret>>, Walking => ~Halfway
    PROVE  WalkExact'
<1>1. UNCHANGED <<child, bits, lists, ins, slot, items>>
  BY DEF tree
<1> SUFFICES ASSUME Walking' PROVE WalkExact'
  BY DEF WalkExact
<1>2. Walking /\ ~Halfway /\ Halfway' = Halfway
  BY DEF Walking, Halfway
<1>3. Covered /\ PosOK /\ Sweeps /\ (merge.list # NULL => MergeCovers)
      /\ (~q.torn => Returned /\ (merge.list # NULL => MergeSorts))
  BY <1>2 DEF WalkExact
<1>4. walk.pos = 0 /\ merge.list = NULL
  BY <1>2, WalkTypes DEF Halfway
<1>5. \A v : Pending(v)' = Pending(v)
  BY <1>1, <1>4 DEF Pending, first
<1>6. Covered'
  BY <1>1, <1>3, <1>5 DEF Covered, Found, Done, Reached
<1>7. PosOK'
  BY <1>2, <1>3, <1>4 DEF PosOK, Halfway
<1>8. \A x : Behind(x)' = Behind(x)
  BY <1>4 DEF Behind, first
<1>9. Sweeps'
  BY <1>3, <1>8 DEF Sweeps, InLevel, Leftward
<1>10. q'.torn \/ Returned'
  BY <1>1, <1>3, <1>8 DEF Returned, Found, Low
<1>. QED  BY <1>4, <1>6, <1>7, <1>9, <1>10 DEF WalkExact

\* A step of addItem keeps the flows that are there and adds to a list at most the
\* flow that is being added.
LEMMA TreeWalk ==
    ASSUME Core, WalkExact, UNCHANGED <<positions, pc, q, walk, merge, ret>>,
           \A v \in DOMAIN items : v \in DOMAIN items' /\ items'[v] = items[v],
           Done \subseteq Done',
           \/ UNCHANGED <<lists, items, ins>>
           \/ UNCHANGED lists /\ Len(items') = Len(items) + 1
           \/ /\ ins' = NULL /\ ins \in Keys /\ UNCHANGED items
              /\ lists' = [lists EXCEPT ![ins] = Append(@, Len(items))]
    PROVE  WalkExact'
<1>1. UNCHANGED <<cache, fill>>
  BY DEF positions
<1> SUFFICES ASSUME Walking' PROVE WalkExact'
  BY DEF WalkExact
<1>2. Walking
  BY DEF Walking
<1>3. Covered /\ PosOK /\ Sweeps /\ (merge.list # NULL => MergeCovers)
      /\ (~q.torn => Returned /\ (merge.list # NULL => MergeSorts))
  BY <1>2 DEF WalkExact
<1>4. /\ Len(items) \in Nat /\ DOMAIN items = 1 .. Len(items) /\ Done \subseteq DOMAIN items
      /\ ins # NULL => Done = DOMAIN items \ {Len(items)}
  BY DoneValues DEF Core, TypeOK
<1>5. Found(q.lo, q.hi) \subseteq Found(q.lo, q.hi)' /\ Found(Low, q.hi) \subseteq Found(Low, q.hi)'
  BY DEF Found, Low
<1>6. Covered'
  <2>1. q.before \subseteq Found(q.lo, q.hi) \cap Done
    BY <1>3 DEF Covered
  <2>2. (q.before \subseteq Found(q.lo, q.hi) \cap Done)'
    BY <1>5, <2>1
  <2>3. ASSUME NEW v \in q.before
        PROVE  /\ Pending(v)' = Pending(v)
               /\ Reached(v, walk.next)' = Reached(v, walk.next)
               /\ Reached(v, Tail(walk.cur))' = Reached(v, Tail(walk.cur))
    <3>1. items'[v] = items[v]
      BY <1>4, <2>1
    <3>. QED  BY <1>1, <3>1 DEF Pending, Reached, first
  <2>. QED  BY <1>3, <2>2, <2>3 DEF Covered
<1>7. PosOK'
  BY <1>1, <1>3 DEF PosOK, Halfway, first
<1>8. ASSUME NEW x PROVE Behind(x)' = Behind(x)
  <2>1. first' = first /\ UNCHANGED <<walk, cache>>
    BY <1>1 DEF first
  <2>. QED  BY <2>1 DEF Behind
<1>9. Sweeps'
  BY <1>3, <1>8 DEF Sweeps, InLevel, Leftward
<1>10. q'.torn \/ Returned'
  <2> SUFFICES ASSUME Returned PROVE Returned'
    BY <1>3
  <2>1. ToSet(ret) \subseteq DOMAIN items
    BY DEF Returned, Found
  <2>3. ASSUME NEW v \in ToSet(ret) PROVE Behind(items[v])'
    <3>1. items'[v] = items[v] /\ Behind(items[v])
      BY <2>1, <2>3 DEF Returned
    <3>2. first' = first /\ UNCHANGED <<walk, cache>>
      BY <1>1 DEF first
    <3>. QED  BY <3>1, <3>2 DEF Behind
  <2>. QED  BY <1>5, <2>3 DEF Returned
<1> DEFINE k == merge.list
<1>11. ASSUME k # NULL
       PROVE  /\ k \in Keys /\ lists[k] \in Seq(Nat) /\ Len(lists[k]) \in Nat
              /\ Len(lists'[k]) \in Nat /\ Len(lists[k]) <= Len(lists'[k])
              /\ \A i \in 1 .. Len(lists'[k]) :
                   \/ i \in 1 .. Len(lists[k]) /\ lists'[k][i] = lists[k][i]
                   \/ /\ i = Len(lists[k]) + 1 /\ lists'[k][i] = Len(items) /\ ins = k
                      /\ ins' = NULL /\ UNCHANGED items
  <2>1. k \in Keys /\ lists \in [Keys -> Seq(Nat)] /\ lists[k] \in Seq(Nat)
    BY <1>11, WalkTypes
  <2>2. CASE UNCHANGED lists
    BY <2>1, <2>2
  <2>3. CASE /\ ins' = NULL /\ ins \in Keys /\ UNCHANGED items
             /\ lists' = [lists EXCEPT ![ins] = Append(@, Len(items))]
    <3>1. CASE ins = k
      <4>1. lists'[k] = Append(lists[k], Len(items))
        BY <2>1, <2>3, <3>1
      <4> DEFINE s == lists[k]
      <4>2. s \in Seq(Nat) /\ lists'[k] = Append(s, Len(items))
        BY <2>1, <4>1
      <4> HIDE DEF s
      <4>3. /\ Len(s) \in Nat /\ Len(lists'[k]) = Len(s) + 1 /\ lists'[k][Len(s) + 1] = Len(items)
            /\ \A i \in 1 .. Len(s) : lists'[k][i] = s[i]
        BY <4>2, <1>4
      <4>. QED  BY <2>1, <2>3, <3>1, <4>3 DEF s
    <3>2. CASE ins # k
      <4>1. lists'[k] = lists[k]
        BY <2>1, <2>3, <3>2
      <4>. QED  BY <2>1, <4>1
    <3>. QED  BY <3>1, <3>2
  <2>. QED  BY <2>2, <2>3
<1>12. merge.list # NULL => MergeCovers'
  <2> SUFFICES ASSUME k # NULL, MergeCovers PROVE MergeCovers'
    BY <1>3
  <2>1. merge.at \in Nat /\ (Len(items) \notin q.before \/ ins = NULL)
    BY <1>3, <1>4, WalkTypes DEF Covered
  <2>2. merge'.at <= Len(lists'[k]) + 1
    <3>1. merge.at <= Len(lists[k]) + 1 /\ merge.at \in Nat
      BY WalkTypes DEF MergeCovers
    <3>. QED  BY <1>11, <3>1
  <2>3. ASSUME NEW i \in 1 .. Len(lists'[k]), lists'[k][i] \in q'.before
        PROVE  /\ i < Upcoming' => lists'[k][i] \in ToSet(merge'.temp)
               /\ merge'.step = "next" => i <= merge'.at
    <3>1. k # NULL => k \in Keys /\ k # NULL
      BY WalkTypes
    <3>2. i \in 1 .. Len(lists[k]) /\ lists'[k][i] = lists[k][i]
      <4>1. ins = k => ins # NULL
        OBVIOUS
      <4>. QED  BY <1>11, <2>1, <2>3, <4>1
    <3>3. lists[k][i] \in q.before /\ Upcoming' = Upcoming
      BY <2>3, <3>2 DEF Upcoming
    <3>. QED  BY <3>2, <3>3 DEF MergeCovers
  <2>. QED  BY <2>2, <2>3 DEF MergeCovers
<1>13. q'.torn \/ (merge.list # NULL => MergeSorts')
  <2> SUFFICES ASSUME k # NULL, MergeSorts, MergeCovers PROVE MergeSorts'
    BY <1>3
  <2>1. /\ Low' = Low /\ Upcoming' = Upcoming /\ Low <= k /\ k <= q.hi /\ Increasing(merge.temp)
    BY DEF Low, Upcoming, MergeSorts
  <2>2. ASSUME NEW w \in ToSet(merge.temp)
        PROVE  /\ w \in Found(Low, q.hi)'
               /\ w \in ToSet(ret) \/ items'[w] = k
               /\ \A j \in merge.idx .. Len(ret) : w < ret[j]
               /\ \A i \in 1 .. Len(lists'[k]) : Upcoming <= i => w < lists'[k][i]
               /\ ins' = k /\ Upcoming <= Len(lists'[k]) + 1 => w < Len(items')
    <3>1. /\ w \in Found(Low, q.hi)
          /\ w \in ToSet(ret) \/ items[w] = k
          /\ \A j \in merge.idx .. Len(ret) : w < ret[j]
          /\ \A i \in 1 .. Len(lists[k]) : Upcoming <= i => w < lists[k][i]
          /\ ins = k /\ Upcoming <= Len(lists[k]) + 1 => w < Len(items)
      BY <2>2 DEF MergeSorts
    <3>2. w \in DOMAIN items /\ items'[w] = items[w] /\ w \in 1 .. Len(items)
      BY <1>4, <3>1 DEF Found
    <3>3. \A i \in 1 .. Len(lists'[k]) : Upcoming <= i => w < lists'[k][i]
      BY <1>11, <3>1
    <3>4. ASSUME ins' = k, Upcoming <= Len(lists'[k]) + 1 PROVE w < Len(items')
      <4>1. CASE UNCHANGED <<lists, items, ins>>
        BY <3>1, <3>4, <4>1
      <4>2. CASE Len(items') = Len(items) + 1
        BY <1>4, <3>2, <4>2
      <4>. QED  BY <3>4, <4>1, <4>2
    <3>. QED  BY <1>5, <3>1, <3>2, <3>3, <3>4
  <2>. QED  BY <2>1, <2>2 DEF MergeSorts
<1>. QED  BY <1>6, <1>7, <1>9, <1>10, <1>12, <1>13 DEF WalkExact

\* The steps of the index thread before the trie is written, and of getBitPosition.
LEMMA FillStepsWalk ==
    ASSUME Core, WalkExact, NEW t \in Thread,
           newBitPosition(t) \/ readWord(t) \/ storePosition(t) \/ getBitPosition
    PROVE  WalkExact'
<1>1. UNCHANGED <<tree, pc, q, walk, merge, ret>>
  BY DEF newBitPosition, readWord, storePosition, getBitPosition, startFill, query
<1>2. ASSUME Walking PROVE ~Halfway
  <2>1. PosOK
    BY <1>2 DEF WalkExact
  <2>2. CASE getBitPosition
    BY <2>1, <2>2 DEF PosOK, getBitPosition
  <2>3. CASE newBitPosition(t) \/ readWord(t) \/ storePosition(t)
    <3>1. fill[t] # NULL
      BY <2>3 DEF newBitPosition, readWord, storePosition, Filling
    <3>2. fill["index"] = NULL
      BY <1>2 DEF Walking, Core, IndexFills
    <3>. QED  BY <2>1, <3>1, <3>2 DEF PosOK, Thread
  <2>. QED  BY <2>2, <2>3
<1>. QED  BY <1>1, <1>2, FillWalk

LEMMA AddStepsWalk ==
    ASSUME Core, WalkExact,
           newChild \/ setBit \/ newNode \/ writeData \/ countElement \/ \E k \in Keys : addItem(k)
    PROVE  WalkExact'
<1>1. CASE \E k \in Keys : addItem(k)
  <2>1. PICK k \in Keys : addItem(k)
    BY <1>1
  <2>2. /\ Len(items') = Len(items) + 1 /\ Done' = Done
        /\ \A v \in DOMAIN items : v \in DOMAIN items' /\ items'[v] = items[v]
        /\ UNCHANGED <<lists, positions, pc, q, walk, merge, ret>>
    BY <2>1, addItemDone
  <2>. QED  BY <2>2, TreeWalk
<1>2. CASE newChild \/ setBit \/ newNode
  <2>1. UNCHANGED <<lists, items, ins, positions, pc, q, walk, merge, ret>>
    BY <1>2 DEF newChild, setBit, newNode, query
  <2>2. Done' = Done
    BY <2>1 DEF Done
  <2>. QED  BY <2>1, <2>2, TreeWalk
<1>3. CASE writeData \/ countElement
  <2>1. PICK w, o \in {"data", "counted"} : Half(w, o)
    BY <1>3 DEF writeData, countElement
  <2>2. /\ pc = "run" /\ ins # NULL /\ Missing(ins) = {}
        /\ UNCHANGED <<items, bits, positions, pc, q, walk, merge, ret>>
    BY <2>1 DEF Half, Adds, query
  <2>3. CASE UNCHANGED <<lists, ins>>
    <3>1. Done' = Done
      BY <2>2, <2>3 DEF Done
    <3>. QED  BY <2>2, <2>3, <3>1, TreeWalk
  <2>4. CASE addElement
    <3>1. ins \in Keys /\ ins' = NULL /\ Done' = DOMAIN items /\ DOMAIN items = Done \cup {Len(items)}
      BY <2>2, <2>4, addElementList
    <3>2. lists' = [lists EXCEPT ![ins] = Append(@, Len(items))]
      BY <2>4 DEF addElement
    <3>3. Done \subseteq Done'
      BY <3>1
    <3>. QED  BY <2>2, <3>1, <3>2, <3>3, TreeWalk
  <2>. QED  BY <2>1, <2>3, <2>4 DEF Half
<1>. QED  BY <1>1, <1>2, <1>3

-----------------------------------------------------------------------------
(* Steps of the walk.                                                      *)

\* bitPosition has at most as many entries as the node has children, and those are
\* the children if it has as many.
LEMMA StoredPositions ==
    ASSUME Core, NEW n \in Node
    PROVE  /\ elemCount(n) \in Nat /\ (elemCount(n) = 0 => child[n] = {})
           /\ cache[n] # NULL => /\ cache[n] \in Seq(Digit) /\ Len(cache[n]) \in Nat
                                 /\ Len(cache[n]) <= elemCount(n) /\ Increasing(cache[n])
                                 /\ Len(cache[n]) = elemCount(n) => ToSet(cache[n]) = child[n]
<1>1. child[n] \in SUBSET Digit /\ (cache[n] # NULL => cache[n] \in Seq(Digit))
  BY DEF Core, TypeOK, TreeOK, PositionsOK
<1>2. IsFiniteSet(child[n]) /\ elemCount(n) \in Nat /\ elemCount(n) = Cardinality(child[n])
  BY <1>1, OnePositions DEF elemCount
<1>3. elemCount(n) = 0 => child[n] = {}
  BY <1>2, FS_EmptySet
<1>4. ASSUME cache[n] # NULL
      PROVE  /\ Len(cache[n]) \in Nat /\ Len(cache[n]) <= elemCount(n) /\ Increasing(cache[n])
             /\ Len(cache[n]) = elemCount(n) => ToSet(cache[n]) = child[n]
  <2> DEFINE c == cache[n]
  <2>1. c \in Seq(Nat) /\ Increasing(c) /\ ToSet(c) \subseteq child[n]
    BY <1>1, <1>4, DigitLists DEF Core, Positions, Linked
  <2> HIDE DEF c
  <2>2. Cardinality(ToSet(c)) = Len(c) /\ Len(c) \in Nat
    BY <2>1, EnumerationUnique DEF Increasing
  <2>. QED  BY <1>2, <2>1, <2>2, FS_Subset DEF c
<1>. QED  BY <1>1, <1>2, <1>3, <1>4

\* A flow that is pending, and where its position is.
LEMMA PendingPosition ==
    ASSUME Core, Walking, Covered, NEW v \in q.before, Pending(v)
    PROVE  /\ v \in Done /\ items[v] \in Nat /\ q.lo <= items[v] /\ items[v] <= q.hi
           /\ first[1] \in Level /\ DigitOf(items[v], first[1]) \in bits[first]
           /\ DigitOf(items[v], first[1]) \in child[first]
           /\ DigitOf(items[v], first[1]) \in Digit
           /\ KeyOf(first, DigitOf(items[v], first[1])) = PrefixIn(first[1], items[v])
           /\ PrefixIn(first[1], q.lo) <= PrefixIn(first[1], items[v])
           /\ PrefixIn(first[1], items[v]) <= PrefixIn(first[1], q.hi)
           /\ PrefixIn(first[1], items[v]) \in Nat
<1>1. v \in Done /\ q.lo <= items[v] /\ items[v] <= q.hi /\ q.lo \in Nat /\ q.hi \in Nat
  BY WalkTypes DEF Covered, Found
<1>2. items[v] \in Nat
  BY <1>1, DoneValues DEF Core, TypeOK
<1>3. first \in Node /\ first = NodeOf(items[v], first[1])
  <2> DEFINE c == walk.cur
  <2>1. c \in Seq(Node) /\ c # <<>>
    BY WalkTypes DEF Pending
  <2> HIDE DEF c
  <2>2. Head(c) \in Node
    BY <2>1
  <2>. QED  BY <2>2 DEF c, first, Pending
<1>4. first[1] \in Level
  BY <1>3, NodeShape
<1>5. DigitOf(items[v], first[1]) \in bits[first]
  BY <1>1, <1>3, <1>4 DEF Walking, Core, Added, Entered, Missing
<1>6. DigitOf(items[v], first[1]) \in child[first]
  BY <1>3, <1>5 DEF Core, Linked
<1>7. KeyOf(first, DigitOf(items[v], first[1])) = PrefixIn(first[1], items[v])
      /\ PrefixIn(first[1], items[v]) \in Nat
  <2> DEFINE l == first[1]
  <2>1. l \in Level /\ first = NodeOf(items[v], l)
    BY <1>3, <1>4
  <2> HIDE DEF l
  <2>. QED  BY <1>2, <2>1, KeyPath DEF l
<1>. QED  BY <1>1, <1>2, <1>4, <1>5, <1>6, <1>7, DigitOfKey, PrefixMonotone

\* One position further in the first node: d is not the digit of a flow to return.
LEMMA MovePos ==
    ASSUME Core, WalkExact, Walking, walk.cur # <<>>, UNCHANGED <<items, cache>>,
           NEW d, cache[first] # NULL, walk.pos < Len(cache[first]), d = cache[first][walk.pos + 1],
           walk'.cur = walk.cur, walk'.pos = walk.pos + 1
    PROVE  /\ first' = first
           /\ \A v : Pending(v) /\ DigitOf(items[v], first[1]) # d => Pending(v)'
           /\ \A x : Behind(x) => Behind(x)'
           /\ Behind(KeyOf(first, d))'
<1>1. first' = first /\ walk.pos \in Nat
  BY WalkTypes DEF first
<1>2. \A p \in 1 .. walk.pos + 1 : p \in 1 .. walk.pos \/ p = walk.pos + 1
  BY <1>1
<1>3. ASSUME NEW v, Pending(v), DigitOf(items[v], first[1]) # d PROVE Pending(v)'
  BY <1>1, <1>2, <1>3 DEF Pending
<1>4. ASSUME NEW x, Behind(x) PROVE Behind(x)'
  <2>1. \A p \in 1 .. walk.pos : p \in 1 .. walk'.pos
    BY <1>1
  <2>. QED  BY <1>1, <1>4, <2>1 DEF Behind
<1>5. Behind(KeyOf(first, d))'
  <2>1. walk.pos + 1 \in 1 .. walk'.pos
    BY <1>1
  <2>2. KeyOf(first', d) = KeyOf(first', cache'[first'][walk.pos + 1])
    BY <1>1
  <2>3. \E p \in 1 .. walk'.pos : KeyOf(first', d) = KeyOf(first', cache'[first'][p])
    BY <2>1, <2>2
  <2>. QED  BY <2>3 DEF Behind
<1>. QED  BY <1>1, <1>3, <1>4, <1>5

\* The part of the invariant for a step that changes the walk.
LEMMA WalkingNow ==
    ASSUME Core, WalkExact, Walking
    PROVE  /\ Covered /\ PosOK /\ Sweeps /\ (merge.list # NULL => MergeCovers)
           /\ ~q.torn => Returned /\ (merge.list # NULL => MergeSorts)
BY DEF WalkExact

\* The walk leaves a node: what it has found there is returned or queued.
LEMMA PopWalk ==
    ASSUME Core, WalkExact, Walking, Visits, \A v \in q.before : Pending(v) => v \in ToSet(ret),
           UNCHANGED <<tree, positions, pc, merge, ret>>, walk' = popNode,
           q'.before = q.before, q'.lo = q.lo, q'.hi = q.hi, q'.torn = q.torn, q'.empty = q.empty
    PROVE  WalkExact'
<1>1. UNCHANGED <<child, bits, lists, ins, items, cache, fill>> /\ merge.list = NULL /\ walk.cur # <<>>
  BY DEF tree, positions, Visits, Walks
<1>2. /\ Covered /\ PosOK /\ Sweeps /\ (~q.torn => Returned)
  BY WalkingNow
<1> DEFINE c == walk.cur
           t == Tail(walk.cur)
<1>3. /\ walk' \in Walk /\ walk'.cur = t /\ walk'.next = walk.next
      /\ walk'.pos = 0 /\ walk'.scan = FALSE /\ first \in Node /\ c \in Seq(Node) /\ c # <<>>
  BY <1>1, VisitedNode DEF Core, TypeOK
<1>4. /\ t \in Seq(Node) /\ Len(c) \in Nat /\ Len(t) = Len(c) - 1 /\ first = c[1] /\ 1 \in 1 .. Len(c)
      /\ \A i \in 1 .. Len(t) : i + 1 \in 1 .. Len(c) /\ t[i] = c[i + 1] /\ t[i] \in Node
      /\ t # <<>> => first' = t[1] /\ 1 \in 1 .. Len(t)
  <2>1. first' = Head(t)
    BY <1>3 DEF first
  <2> HIDE DEF t
  <2>2. t = Tail(c) /\ first = Head(c)
    BY DEF first, t
  <2> HIDE DEF c
  <2>. QED  BY <1>3, <2>1, <2>2
<1> HIDE DEF c, t
<1>5. Covered'
  <2>1. (q.before \subseteq Found(q.lo, q.hi) \cap Done)'
    BY <1>1, <1>2 DEF Covered, Found, Done
  <2>2. ASSUME NEW v \in q.before
        PROVE  \/ v \in ToSet(ret) \/ Pending(v)' \/ Reached(v, walk.next)'
               \/ (walk.cur # <<>> /\ Reached(v, Tail(walk.cur)))'
    <3>1. CASE Reached(v, walk.next)
      <4>1. Reached(v, walk.next)'
        BY <1>1, <1>3, <3>1 DEF Reached
      <4>. QED  BY <4>1
    <3>2. CASE Reached(v, t)
      <4>1. PICK i \in 1 .. Len(t) : t[i] = NodeOf(items[v], t[i][1])
        BY <3>2 DEF Reached
      <4>2. t # <<>> /\ Len(t) \in Nat
        BY <1>4, <4>1
      <4>3. CASE i = 1
        <5>1. first' = NodeOf(items[v], first'[1])
          BY <1>4, <4>1, <4>2, <4>3
        <5>2. Pending(v)'
          BY <1>1, <1>3, <4>2, <5>1 DEF Pending
        <5>. QED  BY <5>2
      <4>4. CASE i # 1
        <5>1. i - 1 \in 1 .. Len(Tail(t)) /\ Tail(t)[i - 1] = t[i]
          BY <1>4, <4>1, <4>2, <4>4
        <5> DEFINE u == Tail(walk'.cur)
        <5>2. u = Tail(t) /\ items' = items
          BY <1>1, <1>3
        <5>3. i - 1 \in 1 .. Len(u) /\ u[i - 1] = NodeOf(items'[v], u[i - 1][1])
          BY <4>1, <5>1, <5>2
        <5> HIDE DEF u
        <5>4. \E j \in 1 .. Len(u) : u[j] = NodeOf(items'[v], u[j][1])
          BY <5>3
        <5>5. Reached(v, Tail(walk.cur))'
          BY <5>4 DEF Reached, u
        <5>. QED  BY <1>3, <4>2, <5>5
      <4>. QED  BY <4>3, <4>4
    <3>3. CASE v \in ToSet(ret) \/ Pending(v)
      BY <3>3
    <3>. QED  BY <1>2, <3>1, <3>2, <3>3 DEF Covered, t
  <2>. QED  BY <2>1, <2>2 DEF Covered
<1>6. PosOK'
  BY <1>1, <1>3 DEF PosOK, Halfway
<1>7. ASSUME NEW x, Behind(x), x \in Nat PROVE Behind(x)'
  <2> SUFFICES ASSUME t # <<>> PROVE x < first'[2] * Base
    BY <1>3, <1>7 DEF Behind
  <2> DEFINE a == first[2]
             b == first'[2]
  <2>1. a \in Nat /\ b \in Nat /\ Base \in Nat \ {0} /\ a < b
    <3>1. first' = c[2] /\ 2 \in 1 .. Len(c) /\ first = c[1]
      BY <1>4
    <3>2. first' \in Node
      BY <1>3, <3>1
    <3>3. a < b
      BY <1>2, <1>4, <3>1 DEF Sweeps, Leftward, c
    <3>4. a \in Nat /\ b \in Nat
      <4>1. first[2] \in 0 .. PrefixCount[first[1]] - 1 /\ first'[2] \in 0 .. PrefixCount[first'[1]] - 1
            /\ first[1] \in 0 .. Depth /\ first'[1] \in 0 .. Depth
        BY <1>3, <3>2, NodeShape, TrieAssumption DEF Level
      <4>2. PrefixCount[first[1]] \in Nat /\ PrefixCount[first'[1]] \in Nat
        BY <4>1, PrefixCountDefined
      <4>. QED  BY <4>1, <4>2
    <3>. QED  BY <3>3, <3>4, TrieAssumption
  <2>2. x < a * Base + Base
    <3>1. CASE x < a * Base
      <4>1. a * Base \in Nat
        BY <2>1
      <4>. QED  BY <2>1, <3>1, <4>1, <1>7
    <3>2. CASE \E p \in 1 .. walk.pos : x = KeyOf(first, cache[first][p])
      <4>1. PICK p \in 1 .. walk.pos : x = a * Base + cache[first][p]
        BY <3>2 DEF KeyOf
      <4>2. cache[first][p] \in Digit
        <5>1. walk.pos > 0
          BY <4>1, WalkTypes
        <5>2. cache[first] # NULL /\ walk.pos <= Len(cache[first])
          BY <1>2, <5>1 DEF PosOK, Halfway
        <5>3. cache[first] \in Seq(Digit) /\ Len(cache[first]) \in Nat
          BY <1>3, <5>2, StoredPositions
        <5>4. p \in 1 .. Len(cache[first])
          BY <5>2, <5>3, WalkTypes
        <5>. QED  BY <5>3, <5>4
      <4>3. cache[first][p] \in Nat /\ cache[first][p] < Base
        BY <2>1, <4>2 DEF Digit
      <4>4. a * Base \in Nat
        BY <2>1
      <4> HIDE DEF a, b
      <4>. QED  BY <2>1, <4>1, <4>3, <4>4
    <3>. QED  BY <1>1, <1>7, <3>1, <3>2 DEF Behind
  <2>3. a * Base + Base <= b * Base
    <3>1. (a + 1) * Base = a * Base + Base /\ a + 1 <= b
      <4> HIDE DEF a, b
      <4>. QED  BY <2>1
    <3>2. \A e, f, g \in Nat : e <= f => e * g <= f * g
      OBVIOUS
    <3>3. (a + 1) * Base <= b * Base
      <4> HIDE DEF a, b
      <4>. QED  BY <2>1, <3>1, <3>2
    <3> HIDE DEF a, b
    <3>. QED  BY <3>1, <3>3
  <2>4. a * Base + Base \in Nat /\ b * Base \in Nat
    <3> HIDE DEF a, b
    <3>. QED  BY <2>1
  <2> HIDE DEF a
  <2>. QED  BY <1>7, <2>2, <2>3, <2>4
<1>8. Sweeps'
  <2>1. PICK l \in Level : InLevel(l)
    BY <1>2 DEF Sweeps
  <2>2. InLevel(l)'
    <3>1. \A i \in 1 .. Len(t) : t[i][1] = l
      BY <1>4, <2>1 DEF InLevel, c
    <3>. QED  BY <1>1, <1>3, <2>1, <3>1 DEF InLevel
  <2>3. Leftward(t)
    <3>1. ASSUME NEW i \in 1 .. Len(t), NEW j \in 1 .. Len(t), i < j PROVE t[i][2] < t[j][2]
      <4>1. i + 1 \in 1 .. Len(c) /\ j + 1 \in 1 .. Len(c) /\ i + 1 < j + 1
        BY <1>4, <3>1
      <4>2. c[i + 1][2] < c[j + 1][2]
        BY <1>2, <4>1 DEF Sweeps, Leftward, c
      <4>. QED  BY <1>4, <4>2
    <3>. QED  BY <3>1 DEF Leftward
  <2>4. Leftward(walk.next)' /\ Leftward(walk.cur)'
    BY <1>2, <1>3, <2>3 DEF Sweeps, Leftward
  <2>5. ASSUME NEW i \in 1 .. Len(walk'.next) PROVE Behind(walk.next[i][2])'
    <3> DEFINE x == walk.next[i][2]
    <3>1. i \in 1 .. Len(walk.next) /\ Behind(x) /\ x' = x
      BY <1>2, <1>3, <2>5 DEF Sweeps
    <3>2. x \in Nat
      <4>1. walk.next[i] \in Node
        BY <3>1, WalkTypes
      <4> DEFINE n == walk.next[i]
      <4>2. n[2] \in 0 .. PrefixCount[n[1]] - 1 /\ n[1] \in 0 .. Depth
        BY <4>1, NodeShape, TrieAssumption DEF Level
      <4>3. PrefixCount[n[1]] \in Nat
        BY <4>2, PrefixCountDefined
      <4>. QED  BY <4>2, <4>3
    <3>3. ASSUME NEW y, y = x PROVE Behind(y)'
      BY <1>7, <3>1, <3>2, <3>3
    <3>. QED  BY <1>3, <3>1, <3>3 DEF Behind
  <2>. QED  BY <2>2, <2>4, <2>5 DEF Sweeps
<1>9. q.torn \/ Returned'
  <2> SUFFICES ASSUME Returned PROVE Returned'
    BY <1>2
  <2>1. ToSet(ret) \subseteq DOMAIN items /\ \A v \in DOMAIN items : items[v] \in Nat
    BY DoneValues DEF Returned, Found, Core, TypeOK
  <2>2. ASSUME NEW v \in ToSet(ret) PROVE Behind(items[v])'
    <3>1. ASSUME NEW y, y = items[v] PROVE Behind(y)'
      BY <1>7, <2>1, <2>2, <3>1 DEF Returned
    <3>. QED  BY <1>1, <3>1 DEF Behind
  <2>. QED  BY <1>1, <2>2 DEF Returned, Found, Low
<1>. QED  BY <1>1, <1>5, <1>6, <1>8, <1>9 DEF WalkExact

LEMMA queryFromMemWalk ==
    ASSUME Core, Idle, NEW r \in Ranges, queryFromMem(r)
    PROVE  WalkExact'
<1>1. /\ q.pc = "idle" /\ UNCHANGED <<tree, positions, pc, merge, ret>>
      /\ merge.list = NULL /\ ret = <<>>
  BY DEF queryFromMem, Idle
<1>2. /\ q'.lo = r[1] /\ q'.hi = r[2] /\ q'.before = Found(r[1], r[2]) \cap Done
      /\ walk'.cur = <<Root>> /\ walk'.next = <<>> /\ walk'.pos = 0 /\ ~walk'.scan
  BY queryFromMemFields
<1>3. UNCHANGED <<child, bits, lists, ins, items, cache, fill>>
  BY <1>1 DEF tree, positions
<1>4. first' = Root /\ walk'.cur # <<>> /\ Tail(walk'.cur) = <<>> /\ Len(walk'.cur) = 1 /\ walk'.cur[1] = Root
  <2>1. \A x : Head(<<x>>) = x /\ <<x>> # <<>> /\ Tail(<<x>>) = <<>> /\ Len(<<x>>) = 1 /\ <<x>>[1] = x
    OBVIOUS
  <2>. QED  BY <1>2, <2>1 DEF first
<1>5. Root[1] = 0 /\ 0 \in Level /\ Len(<<>>) = 0 /\ ToSet(<<>>) = {}
  BY TrieAssumption DEF Root, Level, ToSet
<1>6. Covered'
  <2>1. (q.before \subseteq Found(q.lo, q.hi) \cap Done)'
    BY <1>2, <1>3 DEF Found, Done
  <2>2. ASSUME NEW v \in q'.before PROVE Pending(v)'
    <3>1. items[v] \in Keys
      BY <1>2, DoneValues DEF Core, TypeOK
    <3>2. NodeOf(items[v], 0) = Root
      BY <3>1, RootOfKey, TrieAssumption
    <3>. QED  BY <1>2, <1>3, <1>4, <1>5, <3>2 DEF Pending
  <2>. QED  BY <2>1, <2>2 DEF Covered
<1>7. PosOK'
  BY <1>1, <1>2, <1>4 DEF PosOK, Halfway
<1>8. Sweeps'
  <2>1. InLevel(0)'
    BY <1>1, <1>2, <1>4, <1>5 DEF InLevel
  <2>2. Leftward(walk.cur)' /\ Leftward(walk.next)'
    BY <1>2, <1>4, <1>5 DEF Leftward
  <2>. QED  BY <1>2, <1>5, <2>1, <2>2 DEF Sweeps
<1>9. Returned'
  <2>1. ret' = <<>> /\ Len(ret') = 0 /\ ToSet(ret') = {}
    BY <1>1, <1>5
  <2>. QED  BY <2>1 DEF Returned, Increasing
<1>. QED  BY <1>1, <1>6, <1>7, <1>8, <1>9 DEF WalkExact

\* The first node while a query visits it.
LEMMA FirstNode ==
    ASSUME Core, Visits
    PROVE  /\ walk.cur # <<>> /\ first \in Node /\ first[1] \in Level /\ first[1] \in Nat
           /\ merge.list = NULL /\ fill["command"] = NULL /\ q.pc \in {"walk", "spin"}
           /\ UNCHANGED tree => UNCHANGED <<child, bits, lists, ins, slot, items>>
           /\ UNCHANGED positions => UNCHANGED <<cache, fill>>
<1>1. first \in Node
  BY VisitedNode DEF Core, TypeOK
<1>2. first[1] \in Level
  BY <1>1, NodeShape
<1>. QED  BY <1>1, <1>2, TrieAssumption DEF Level, Visits, Walks, tree, positions

LEMMA seekWalk ==
    ASSUME Core, WalkExact, Visits, PositionReadable, NEW d \in OnePosition, seek(d)
    PROVE  WalkExact'
<1> SUFFICES ASSUME Walking' PROVE WalkExact'
  BY DEF WalkExact
<1>1. /\ q' = Seen /\ UNCHANGED <<tree, positions, pc, merge, ret>> /\ ~walk.scan
  BY DEF seek
<1>2. /\ q'.pc = q.pc /\ q'.lo = q.lo /\ q'.hi = q.hi /\ q'.before = q.before
      /\ q'.torn = q.torn /\ q'.empty = q.empty
      /\ Walking /\ ~Incomplete(first)
  <2>1. q \in Query /\ Seen \in {Seen, LateSeen}
    BY WalkTypes
  <2>. QED  BY <1>1, <2>1, SeenFields DEF Walking
<1>3. /\ walk.cur # <<>> /\ merge.list = NULL /\ fill["command"] = NULL /\ first \in Node /\ first[1] \in Level
      /\ UNCHANGED <<child, bits, lists, ins, items, cache, fill>>
  BY <1>1, FirstNode
<1>4. /\ d \in Digit /\ cache[first] \in Seq(Digit) /\ walk.pos < Len(cache[first])
      /\ walk.pos + 1 \in 1 .. Len(cache[first]) /\ d = cache[first][walk.pos + 1]
      /\ Increasing(cache[first]) /\ cache[first] # NULL
  BY <1>2, PositionRead DEF PositionReadable
<1>5. /\ Covered /\ PosOK /\ Sweeps /\ (~q.torn => Returned)
  BY <1>2, WalkingNow
<1>6. walk \in Walk /\ walk.pos \in Nat /\ Len(cache[first]) \in Nat
  BY <1>4, WalkTypes
<1> DEFINE lo == PrefixIn(first[1], q.lo)
<1>7. CASE KeyOf(first, d) >= lo
  <2>1. /\ walk'.cur = walk.cur /\ walk'.next = walk.next /\ walk'.pos = walk.pos /\ walk'.scan
    <3>1. walk' = [walk EXCEPT !.scan = TRUE]
      BY <1>7 DEF seek
    <3>. QED  BY <1>6, <3>1, ScanBegun
  <2>2. first' = first
    BY <2>1 DEF first
  <2>3. \A v : Pending(v)' = Pending(v)
    BY <1>3, <2>1, <2>2 DEF Pending
  <2>4. Covered'
    BY <1>2, <1>3, <1>1, <1>5, <2>1, <2>3 DEF Covered, Found, Done, Reached
  <2>5. ASSUME NEW p \in walk.pos + 1 .. Len(cache[first]) PROVE lo <= KeyOf(first, cache[first][p])
    <3> DEFINE b == first[2] * Base
               e == cache[first][p]
               m == walk.pos + 1
    <3>1. e \in Nat /\ d \in Nat /\ d <= e
      <4>1. p \in 1 .. Len(cache[first]) /\ m \in 1 .. Len(cache[first]) /\ m <= p
        BY <1>4, <1>6, <2>5
      <4>2. e \in Digit /\ d = cache[first][m]
        BY <1>4, <4>1
      <4>3. m < p => cache[first][m] < cache[first][p]
        BY <1>4, <4>1 DEF Increasing
      <4>4. e \in Nat /\ d \in Nat
        BY <1>4, <4>2, DigitLists
      <4>. QED  BY <4>1, <4>2, <4>3, <4>4
    <3>2. b \in Nat /\ lo \in Nat
      <4>1. first[2] \in 0 .. PrefixCount[first[1]] - 1 /\ first[1] \in 0 .. Depth
        BY <1>3, NodeShape, TrieAssumption DEF Level
      <4>2. PrefixCount[first[1]] \in Nat
        BY <4>1, PrefixCountDefined
      <4>3. first[2] \in Nat /\ Base \in Nat
        BY <4>1, <4>2, TrieAssumption
      <4>4. b \in Nat
        BY <4>3
      <4>5. lo \in Nat
        BY <1>3, KeyPath, WalkTypes
      <4>. QED  BY <4>4, <4>5
    <3>3. lo <= b + d
      <4>1. KeyOf(first, d) = b + d
        BY DEF KeyOf
      <4>2. b + d \in Nat
        BY <3>1, <3>2
      <4>. QED  BY <1>7, <3>2, <4>1, <4>2
    <3>4. KeyOf(first, e) = b + e
      BY DEF KeyOf
    <3> HIDE DEF b, e, lo
    <3>5. lo <= b + e
      BY <3>1, <3>2, <3>3
    <3>. QED  BY <3>4, <3>5 DEF e
  <2>6. PosOK'
    <3>1. \A p \in walk'.pos + 1 .. Len(cache'[first']) : PrefixIn(first'[1], q'.lo) <= KeyOf(first', cache'[first'][p])
      BY <1>2, <1>3, <2>1, <2>2, <2>5
    <3>. QED  BY <1>1, <1>3, <1>4, <1>6, <2>1, <2>2, <3>1 DEF PosOK
  <2>7. ASSUME NEW x PROVE Behind(x)' = Behind(x)
    BY <1>3, <2>1, <2>2 DEF Behind
  <2>8. Sweeps'
    BY <1>1, <1>5, <2>1, <2>7 DEF Sweeps, InLevel, Leftward
  <2>9. q.torn \/ Returned'
    BY <1>1, <1>2, <1>3, <1>5, <2>7 DEF Returned, Found, Low
  <2>. QED  BY <1>1, <1>2, <1>3, <2>4, <2>6, <2>8, <2>9 DEF WalkExact
<1>8. CASE ~(KeyOf(first, d) >= lo)
  <2>1. /\ walk'.cur = walk.cur /\ walk'.next = walk.next /\ walk'.pos = walk.pos + 1 /\ walk'.scan = walk.scan
    <3>1. walk' = [walk EXCEPT !.pos = @ + 1]
      BY <1>8 DEF seek
    <3>. QED  BY <1>6, <3>1, PosMoved
  <2>2. /\ first' = first
        /\ \A v : Pending(v) /\ DigitOf(items[v], first[1]) # d => Pending(v)'
        /\ \A x : Behind(x) => Behind(x)'
    BY <1>2, <1>3, <1>4, <2>1, MovePos
  <2>3. ASSUME NEW v \in q.before, Pending(v) PROVE Pending(v)'
    <3>1. /\ KeyOf(first, DigitOf(items[v], first[1])) = PrefixIn(first[1], items[v])
          /\ lo <= PrefixIn(first[1], items[v])
      BY <1>2, <1>5, <2>3, PendingPosition
    <3>2. lo \in Nat /\ PrefixIn(first[1], items[v]) \in Nat
      BY <1>2, <1>3, <1>5, <2>3, PendingPosition, KeyPath, WalkTypes
    <3>3. PrefixIn(first[1], items[v]) >= lo
      BY <3>1, <3>2
    <3>4. DigitOf(items[v], first[1]) # d
      BY <1>8, <3>1, <3>3
    <3>. QED  BY <2>2, <2>3, <3>4
  <2>4. Covered'
    <3>1. \A v \in q.before : (Reached(v, walk.next) => Reached(v, walk.next)')
           /\ (walk.cur # <<>> /\ Reached(v, Tail(walk.cur)) => (walk.cur # <<>> /\ Reached(v, Tail(walk.cur)))')
      BY <1>3, <2>1 DEF Reached
    <3>2. (q.before \subseteq Found(q.lo, q.hi) \cap Done)'
      BY <1>2, <1>3, <1>5 DEF Covered, Found, Done
    <3>. QED  BY <1>1, <1>2, <1>5, <2>3, <3>1, <3>2 DEF Covered
  <2>5. PosOK'
    BY <1>1, <1>3, <1>4, <1>6, <2>1, <2>2 DEF PosOK
  <2>6. Sweeps'
    BY <1>1, <1>5, <2>1, <2>2 DEF Sweeps, InLevel, Leftward
  <2>7. q.torn \/ Returned'
    BY <1>1, <1>2, <1>3, <1>5, <2>2 DEF Returned, Found, Low
  <2>. QED  BY <1>1, <1>2, <1>3, <2>4, <2>5, <2>6, <2>7 DEF WalkExact
<1>. QED  BY <1>7, <1>8

LEMMA endOfNodeWalk == ASSUME Core, WalkExact, endOfNode PROVE WalkExact'
<1> SUFFICES ASSUME Walking' PROVE WalkExact'
  BY DEF WalkExact
<1>1. /\ Visits /\ walk.pos >= elemCount(first) /\ UNCHANGED <<tree, positions, pc, merge, ret>>
  BY DEF endOfNode
<1>2. /\ q'.pc = q.pc /\ q'.lo = q.lo /\ q'.hi = q.hi /\ q'.before = q.before /\ q'.torn = q.torn
      /\ q'.empty \in BOOLEAN /\ (~q'.empty => ~q.empty /\ (walk.scan \/ elemCount(first) # 0))
      /\ (q.empty => q'.empty) /\ Walking
  <2>1. q \in Query
    BY WalkTypes
  <2>2. q' \in Query
    BY <2>1, endOfNodeFields
  <2>3. q'.empty \in BOOLEAN
    BY <2>2 DEF Query
  <2>. QED  BY <2>1, <2>3, endOfNodeFields DEF Walking
<1>3. /\ walk.cur # <<>> /\ merge.list = NULL /\ fill["command"] = NULL /\ first \in Node /\ first[1] \in Level
      /\ UNCHANGED <<child, bits, lists, ins, items, cache, fill>>
  BY <1>1, FirstNode
<1>4. /\ Covered /\ PosOK /\ Sweeps /\ (~q.torn => Returned)
  BY <1>2, WalkingNow
<1>5. walk \in Walk /\ walk.pos \in Nat /\ elemCount(first) \in Nat /\ q.lo \in Nat
  BY <1>3, WalkTypes, StoredPositions
<1>6. Halfway => /\ cache[first] # NULL /\ cache[first] \in Seq(Digit) /\ Len(cache[first]) \in Nat
                 /\ walk.pos = Len(cache[first]) /\ Len(cache[first]) = elemCount(first)
                 /\ ToSet(cache[first]) = child[first]
  <2> SUFFICES ASSUME Halfway
               PROVE  /\ cache[first] # NULL /\ cache[first] \in Seq(Digit) /\ Len(cache[first]) \in Nat
                      /\ walk.pos = Len(cache[first]) /\ Len(cache[first]) = elemCount(first)
                      /\ ToSet(cache[first]) = child[first]
    OBVIOUS
  <2>1. cache[first] # NULL /\ walk.pos <= Len(cache[first])
    BY <1>4 DEF PosOK
  <2>2. /\ cache[first] \in Seq(Digit) /\ Len(cache[first]) \in Nat /\ Len(cache[first]) <= elemCount(first)
        /\ Len(cache[first]) = elemCount(first) => ToSet(cache[first]) = child[first]
    BY <1>3, <2>1, StoredPositions
  <2>3. walk.pos = Len(cache[first]) /\ Len(cache[first]) = elemCount(first)
    BY <1>1, <1>5, <2>1, <2>2
  <2>. QED  BY <2>1, <2>2, <2>3
<1>7. ASSUME NEW v \in q.before, Pending(v) PROVE FALSE
  <2> DEFINE e == DigitOf(items[v], first[1])
  <2>1. e \in child[first]
    BY <1>2, <1>4, <1>7, PendingPosition
  <2>2. CASE Halfway
    <3>1. \A p \in 1 .. walk.pos : cache[first][p] # e
      BY <1>7 DEF Pending
    <3> DEFINE c == cache[first]
    <3>2. e \in ToSet(c) /\ DOMAIN c = 1 .. walk.pos
      BY <1>6, <2>1, <2>2
    <3>. QED  BY <3>1, <3>2 DEF ToSet
  <2>3. CASE ~Halfway
    <3>1. walk.pos = 0
      BY <1>5, <2>3 DEF Halfway
    <3>2. child[first] = {}
      BY <1>1, <1>3, <1>5, <3>1, StoredPositions
    <3>. QED  BY <2>1, <3>2
  <2>. QED  BY <2>2, <2>3
<1>8. CASE walk.scan
  <2>1. walk' = popNode /\ ((~walk.scan /\ elemCount(first) = 0) = FALSE)
    BY <1>8 DEF endOfNode
  <2>2. q'.empty = q.empty
    <3>1. q' = [LateSeen EXCEPT !.empty = @ \/ (~walk.scan /\ elemCount(first) = 0)]
      BY DEF endOfNode
    <3>2. LateSeen.empty = q.empty /\ LateSeen \in Query /\ q.empty \in BOOLEAN
      BY WalkTypes, SeenFields
    <3> DEFINE f == LateSeen
    <3>3. f \in Query /\ f.empty = q.empty /\ q' = [f EXCEPT !.empty = @ \/ FALSE]
      BY <2>1, <3>1, <3>2
    <3> HIDE DEF f
    <3>. QED  BY <3>2, <3>3 DEF Query
  <2>. QED  BY <1>1, <1>2, <1>7, <2>1, <2>2, PopWalk
<1>9. CASE ~walk.scan
  <2>1. /\ walk'.cur = walk.cur /\ walk'.next = walk.next /\ walk'.pos = walk.pos /\ walk'.scan
    <3>1. walk' = [walk EXCEPT !.scan = TRUE]
      BY <1>9 DEF endOfNode
    <3>. QED  BY <1>5, <3>1, ScanBegun
  <2>2. first' = first
    BY <2>1 DEF first
  <2>3. \A v : Pending(v)' = Pending(v)
    BY <1>3, <2>1, <2>2 DEF Pending
  <2>4. Covered'
    BY <1>2, <1>3, <1>1, <1>4, <2>1, <2>3 DEF Covered, Found, Done, Reached
  <2>5. Halfway' => Halfway
    <3>1. ASSUME ~q'.empty PROVE walk.pos > 0
      BY <1>1, <1>2, <1>5, <1>9, <3>1
    <3>. QED  BY <1>1, <2>1, <3>1 DEF Halfway
  <2>6. ASSUME walk'.scan, ~q'.empty
        PROVE  \A p \in walk'.pos + 1 .. Len(cache'[first']) : PrefixIn(first'[1], q'.lo) <= KeyOf(first', cache'[first'][p])
    <3>1. Halfway
      BY <2>5, <2>6 DEF Halfway
    <3>2. walk'.pos = Len(cache[first]) /\ Len(cache[first]) \in Nat /\ cache'[first'] = cache[first]
      BY <1>3, <1>6, <2>1, <2>2, <3>1
    <3>. QED  BY <3>2
  <2>7. PosOK'
    <3>1. Halfway' => /\ cache'[first'] # NULL /\ fill'["command"] = NULL /\ walk'.pos <= Len(cache'[first'])
      BY <1>3, <1>6, <2>1, <2>2, <2>5
    <3>. QED  BY <1>1, <1>3, <2>1, <2>6, <3>1 DEF PosOK
  <2>8. ASSUME NEW x PROVE Behind(x)' = Behind(x)
    BY <1>3, <2>1, <2>2 DEF Behind
  <2>9. Sweeps'
    BY <1>1, <1>4, <2>1, <2>8 DEF Sweeps, InLevel, Leftward
  <2>10. q.torn \/ Returned'
    <3>1. Found(Low, q.hi) \subseteq Found(Low, q.hi)'
      <4>1. Low' = Low \/ Low' = 0
        BY <1>2 DEF Low
      <4>2. Low \in Nat /\ \A v \in DOMAIN items : items[v] \in Nat
        BY <1>5, DoneValues DEF Low, Core, TypeOK
      <4>3. ASSUME NEW v \in DOMAIN items, Low <= items[v] PROVE Low' <= items[v]
        BY <4>1, <4>2, <4>3
      <4>. QED  BY <1>2, <1>3, <4>3 DEF Found
    <3>. QED  BY <1>1, <1>2, <1>3, <1>4, <2>8, <3>1 DEF Returned
  <2>. QED  BY <1>1, <1>2, <1>3, <2>4, <2>7, <2>9, <2>10 DEF WalkExact
<1>. QED  BY <1>8, <1>9

\* Of a flow that is pending the position is not above the range.
LEMMA BeyondPasses ==
    ASSUME Core, WalkExact, Walking, Visits, PositionReadable, ~Incomplete(first),
           NEW d \in OnePosition, Beyond(first, d, PrefixIn(first[1], q.hi)), NEW v \in q.before
    PROVE  ~Pending(v)
<1> SUFFICES ASSUME Pending(v) PROVE FALSE
  OBVIOUS
<1> DEFINE c == cache[first]
           e == DigitOf(items[v], first[1])
           b == first[2] * Base
           hi == PrefixIn(first[1], q.hi)
           m == walk.pos + 1
<1>1. /\ d \in Digit /\ c \in Seq(Digit) /\ m \in 1 .. Len(c) /\ d = c[m]
      /\ ToSet(c) = child[first] /\ Increasing(c) /\ walk.pos \in Nat /\ Len(c) \in Nat
  BY PositionRead, WalkTypes
<1>2. first \in Node /\ first[1] \in Level
  BY FirstNode
<1>3. /\ e \in child[first] /\ e \in Digit /\ KeyOf(first, e) <= hi
  BY PendingPosition, WalkingNow
<1>4. b \in Nat /\ hi \in Nat
  <2>1. first[2] \in 0 .. PrefixCount[first[1]] - 1 /\ first[1] \in 0 .. Depth
    BY <1>2, NodeShape, TrieAssumption DEF Level
  <2>2. PrefixCount[first[1]] \in Nat
    BY <2>1, PrefixCountDefined
  <2>3. first[2] \in Nat /\ Base \in Nat
    BY <2>1, <2>2, TrieAssumption
  <2>4. b \in Nat
    BY <2>3
  <2>5. hi \in Nat
    BY <1>2, KeyPath, WalkTypes
  <2>. QED  BY <2>4, <2>5
<1>5. KeyOf(first, e) = b + e /\ KeyOf(first, d) = b + d /\ KeyOf(first, d) > hi
  BY DEF KeyOf, Beyond
<1>6. d \in Nat /\ e \in Nat
  BY <1>1, <1>3, DigitLists
<1>7. \A p \in 1 .. walk.pos : c[p] # e
  BY DEF Pending
<1> HIDE DEF b, hi, e
<1>8. e < d
  BY <1>3, <1>4, <1>5, <1>6
<1>9. PICK p \in 1 .. Len(c) : c[p] = e
  <2> HIDE DEF c, m
  <2>. QED  BY <1>1, <1>3 DEF ToSet
<1>10. p \in Nat /\ m \in Nat /\ ~(p <= walk.pos)
  BY <1>1, <1>7, <1>9
<1>11. p = m \/ m < p
  BY <1>1, <1>10
<1>12. d <= c[p]
  <2>1. m < p => c[m] < c[p]
    BY <1>1, <1>9 DEF Increasing
  <2>. QED  BY <1>1, <1>6, <1>9, <1>11, <2>1
<1>. QED  BY <1>6, <1>8, <1>9, <1>12

\* The positions that the loop has passed are to the left of the one it reads.
LEMMA BehindPosition ==
    ASSUME Core, Walking, PosOK, walk.cur # <<>>, first \in Node,
           cache[first] # NULL, walk.pos < Len(cache[first]),
           NEW d, d = cache[first][walk.pos + 1], NEW x \in Nat, Behind(x)
    PROVE  x < KeyOf(first, d) /\ KeyOf(first, d) \in Nat
<1> DEFINE c == cache[first]
           b == first[2] * Base
           m == walk.pos + 1
<1>1. /\ c \in Seq(Digit) /\ Increasing(c) /\ walk.pos \in Nat /\ Len(c) \in Nat
      /\ m \in 1 .. Len(c) /\ d = c[m]
  <2>1. c \in Seq(Digit) /\ Increasing(c) /\ walk.pos \in Nat /\ Len(c) \in Nat
    BY StoredPositions, WalkTypes
  <2>. QED  BY <2>1
<1>2. d \in Nat
  <2>1. c \in Seq(Nat)
    BY <1>1, DigitLists
  <2> HIDE DEF c, m
  <2>. QED  BY <1>1, <2>1
<1>3. b \in Nat
  <2>1. first[2] \in 0 .. PrefixCount[first[1]] - 1 /\ first[1] \in 0 .. Depth
    BY NodeShape, TrieAssumption DEF Level
  <2>2. PrefixCount[first[1]] \in Nat
    BY <2>1, PrefixCountDefined
  <2>3. first[2] \in Nat /\ Base \in Nat
    BY <2>1, <2>2, TrieAssumption
  <2>. QED  BY <2>3
<1>4. KeyOf(first, d) = b + d
  BY DEF KeyOf
<1>5. x < b \/ \E p \in 1 .. walk.pos : x = b + c[p]
  BY DEF Behind, KeyOf
<1>6. CASE x < b
  <2> HIDE DEF b
  <2>. QED  BY <1>2, <1>3, <1>4, <1>6
<1>7. CASE \E p \in 1 .. walk.pos : x = b + c[p]
  <2>1. PICK p \in 1 .. walk.pos : x = b + c[p]
    BY <1>7
  <2>2. p \in 1 .. Len(c) /\ p < m
    BY <1>1
  <2>3. c[p] < d
    BY <1>1, <2>2 DEF Increasing
  <2>4. c[p] \in Nat
    <3>1. c \in Seq(Nat)
      BY <1>1, DigitLists
    <3> HIDE DEF c
    <3>. QED  BY <2>2, <3>1
  <2> HIDE DEF b, c
  <2>. QED  BY <1>2, <1>3, <1>4, <2>1, <2>3, <2>4
<1>. QED  BY <1>2, <1>3, <1>4, <1>5, <1>6, <1>7

\* A flow whose position is passed is returned or lies below a node that is queued;
\* the queues change only at their end.
LEMMA MovedCovers ==
    ASSUME Core, WalkExact, Walking, walk.cur # <<>>, UNCHANGED <<items, cache, ins>>,
           NEW d, cache[first] # NULL, walk.pos < Len(cache[first]), d = cache[first][walk.pos + 1],
           walk'.cur = walk.cur, walk'.pos = walk.pos + 1,
           q'.before = q.before, q'.lo = q.lo, q'.hi = q.hi,
           \A v \in q.before : v \in ToSet(ret) => v \in ToSet(ret'),
           \A v \in q.before : Reached(v, walk.next) => Reached(v, walk.next)',
           \A v \in q.before : Pending(v) /\ DigitOf(items[v], first[1]) = d
                                 => v \in ToSet(ret') \/ Reached(v, walk.next)'
    PROVE  Covered'
<1>1. Covered
  BY WalkingNow
<1>2. (q.before \subseteq Found(q.lo, q.hi) \cap Done)'
  BY <1>1 DEF Covered, Found, Done
<1>3. ASSUME NEW v \in q.before
      PROVE  \/ v \in ToSet(ret') \/ Pending(v)' \/ Reached(v, walk.next)'
             \/ (walk.cur # <<>> /\ Reached(v, Tail(walk.cur)))'
  <2>1. CASE v \in ToSet(ret) \/ Reached(v, walk.next)
    BY <2>1
  <2>2. CASE Reached(v, Tail(walk.cur))
    <3>1. (walk.cur # <<>> /\ Reached(v, Tail(walk.cur)))'
      BY <2>2 DEF Reached
    <3>. QED  BY <3>1
  <2>3. CASE Pending(v)
    <3>1. CASE DigitOf(items[v], first[1]) = d
      BY <2>3, <3>1
    <3>2. CASE DigitOf(items[v], first[1]) # d
      <4>1. Pending(v)'
        BY <2>3, <3>2, MovePos
      <4>. QED  BY <4>1
    <3>. QED  BY <3>1, <3>2
  <2>. QED  BY <1>1, <2>1, <2>2, <2>3 DEF Covered
<1>. QED  BY <1>2, <1>3 DEF Covered

LEMMA visitInterNodeWalk ==
    ASSUME Core, WalkExact, NEW d \in OnePosition, visitInterNode(d)
    PROVE  WalkExact'
<1> SUFFICES ASSUME Walking' PROVE WalkExact'
  BY DEF WalkExact
<1>1. /\ Visits /\ walk.scan /\ PositionReadable /\ ~isLeafNode(first)
      /\ UNCHANGED <<tree, positions, pc, merge, ret>>
  BY DEF visitInterNode
<1>2. q' = [Seen EXCEPT !.pc = "walk"]
  <2>1. q' # [Seen EXCEPT !.pc = "spin"]
    <3>1. ASSUME NEW f, f = [Seen EXCEPT !.pc = "spin"] PROVE f.pc = "spin"
      BY <3>1, WalkTypes, SeenPc
    <3>. QED  BY <3>1 DEF Walking
  <2>. QED  BY <2>1 DEF visitInterNode
<1>3. /\ q'.lo = q.lo /\ q'.hi = q.hi /\ q'.before = q.before /\ q'.torn = q.torn /\ q'.empty = q.empty
      /\ Walking /\ ~Incomplete(first)
  <2>1. /\ q'.lo = q.lo /\ q'.hi = q.hi /\ q'.before = q.before /\ q'.torn = q.torn /\ q'.empty = q.empty
        /\ ~q.stale /\ ~Incomplete(first) /\ ~q.late /\ pc = "run"
    BY <1>2, WalkTypes, SeenPc DEF Walking
  <2>2. q.pc = "walk"
    BY <1>1, <2>1, StaleFails DEF Visits, Walks
  <2>. QED  BY <2>1, <2>2 DEF Walking
<1>4. /\ walk.cur # <<>> /\ merge.list = NULL /\ fill["command"] = NULL /\ first \in Node
      /\ first[1] \in Level /\ first[1] \in Nat
      /\ UNCHANGED <<child, bits, lists, ins, items, cache, fill>>
  BY <1>1, FirstNode
<1>5. /\ d \in Digit /\ cache[first] \in Seq(Digit) /\ walk.pos < Len(cache[first])
      /\ walk.pos + 1 \in 1 .. Len(cache[first]) /\ d = cache[first][walk.pos + 1]
      /\ Increasing(cache[first]) /\ cache[first] # NULL /\ d \in child[first]
  BY <1>1, <1>3, PositionRead DEF PositionReadable
<1>6. /\ Covered /\ PosOK /\ Sweeps /\ (~q.torn => Returned)
  BY <1>3, WalkingNow
<1>7. walk \in Walk /\ walk.pos \in Nat /\ Len(cache[first]) \in Nat /\ walk.next \in Seq(Node)
  BY <1>5, WalkTypes
<1>8. CASE Beyond(first, d, PrefixIn(first[1], q.hi)) /\ walk' = popNode
  BY <1>1, <1>3, <1>8, BeyondPasses, PopWalk
<1>9. CASE walk' = [walk EXCEPT !.next = Append(@, Child(first, d)), !.pos = @ + 1]
  <2> DEFINE n == Child(first, d)
             s == walk.next
  <2>1. n \in Node /\ n[1] = first[1] + 1 /\ n[2] = KeyOf(first, d)
    BY <1>1, <1>4, <1>5, ChildNode DEF Child, KeyOf
  <2>2. /\ walk' \in Walk /\ walk'.cur = walk.cur /\ walk'.next = Append(s, n)
        /\ walk'.pos = walk.pos + 1 /\ walk'.scan = walk.scan
    <3>1. walk' = [walk EXCEPT !.next = Append(@, n), !.pos = @ + 1]
      BY <1>9
    <3> HIDE DEF n
    <3>. QED  BY <1>7, <2>1, <3>1, NextAppended
  <2>3. /\ first' = first
        /\ \A x : Behind(x) => Behind(x)'
        /\ Behind(KeyOf(first, d))'
    BY <1>3, <1>4, <1>5, <2>2, MovePos
  <2>4. /\ Len(s) \in Nat /\ Len(walk'.next) = Len(s) + 1 /\ walk'.next[Len(s) + 1] = n
        /\ \A i \in 1 .. Len(s) : walk'.next[i] = s[i] /\ s[i] \in Node
        /\ \A i \in 1 .. Len(s) + 1 : i \in 1 .. Len(s) \/ i = Len(s) + 1
    <3> HIDE DEF n, s
    <3>1. s \in Seq(Node)
      BY <1>7 DEF s
    <3>. QED  BY <2>1, <2>2, <3>1
  <2> HIDE DEF n, s
  <2>5. Covered'
    <3>1. ASSUME NEW v \in q.before, Reached(v, s) PROVE Reached(v, walk.next)'
      <4>1. PICK i \in 1 .. Len(s) : s[i] = NodeOf(items[v], s[i][1])
        BY <3>1 DEF Reached
      <4>2. i \in 1 .. Len(walk'.next) /\ walk'.next[i] = s[i]
        BY <2>4, <4>1
      <4>. QED  BY <1>4, <4>1, <4>2 DEF Reached
    <3>2. ASSUME NEW v \in q.before, Pending(v), DigitOf(items[v], first[1]) = d
          PROVE  Reached(v, walk.next)'
      <4>1. n = NodeOf(items[v], n[1])
        <5> DEFINE l == first[1]
        <5>1. items[v] \in Nat /\ first = NodeOf(items[v], l)
          BY <1>3, <1>6, <3>2, PendingPosition DEF Pending
        <5>2. l + 1 \in Level /\ l \in Level
          <6>1. l # Depth - 1
            BY <1>1 DEF isLeafNode
          <6>. QED  BY <1>4, <6>1, TrieAssumption DEF Level
        <5>3. Child(NodeOf(items[v], l), DigitOf(items[v], l)) = NodeOf(items[v], l + 1)
          <6> HIDE DEF l
          <6>. QED  BY <5>1, <5>2, KeyPath
        <5>. QED  BY <2>1, <3>2, <5>1, <5>3 DEF n
      <4>2. Len(s) + 1 \in 1 .. Len(walk'.next) /\ walk'.next[Len(s) + 1] = n
        BY <2>4
      <4>3. \E i \in 1 .. Len(walk'.next) : walk'.next[i] = NodeOf(items[v], walk'.next[i][1])
        BY <4>1, <4>2
      <4>. QED  BY <1>4, <4>3 DEF Reached
    <3>. QED  BY <1>1, <1>3, <1>4, <1>5, <2>2, <3>1, <3>2, MovedCovers DEF s
  <2>6. PosOK'
    <3>1. \A p \in walk'.pos + 1 .. Len(cache[first]) : p \in walk.pos + 1 .. Len(cache[first])
      BY <1>7, <2>2
    <3>2. walk'.pos <= Len(cache[first])
      BY <1>5, <1>7, <2>2
    <3>. QED  BY <1>1, <1>3, <1>4, <1>5, <1>6, <2>2, <2>3, <3>1, <3>2 DEF PosOK
  <2>7. Sweeps'
    <3>1. PICK l \in Level : InLevel(l)
      BY <1>6 DEF Sweeps
    <3>2. first[1] = l
      <4> DEFINE c == walk.cur
      <4>1. c \in Seq(Node) /\ c # <<>>
        BY <1>4, WalkTypes
      <4>2. Head(c) = c[1] /\ 1 \in 1 .. Len(c)
        <5> HIDE DEF c
        <5>. QED  BY <4>1
      <4>. QED  BY <3>1, <4>2 DEF InLevel, first
    <3>3. l # Depth - 1
      BY <1>1, <3>2 DEF isLeafNode
    <3>4. InLevel(l)'
      <4>1. \A i \in 1 .. Len(walk'.next) : walk'.next[i][1] = l + 1
        BY <2>1, <2>4, <3>1, <3>2 DEF InLevel, s
      <4>. QED  BY <1>1, <2>2, <3>1, <3>3, <4>1 DEF InLevel
    <3>5. ASSUME NEW i \in 1 .. Len(s) PROVE s[i][2] < n[2] /\ Behind(s[i][2])
      <4>1. Behind(s[i][2])
        BY <1>6, <3>5 DEF Sweeps, s
      <4> DEFINE m == s[i]
      <4>2. m[2] \in Nat
        <5>1. m \in Node
          BY <2>4, <3>5
        <5>2. m[2] \in 0 .. PrefixCount[m[1]] - 1 /\ m[1] \in 0 .. Depth
          BY <5>1, NodeShape, TrieAssumption DEF Level
        <5>3. PrefixCount[m[1]] \in Nat
          BY <5>2, PrefixCountDefined
        <5>. QED  BY <5>2, <5>3
      <4>3. m[2] < KeyOf(first, d)
        BY <1>3, <1>4, <1>5, <1>6, <4>1, <4>2, BehindPosition
      <4>. QED  BY <2>1, <4>1, <4>3
    <3>6. Leftward(walk.next)'
      <4>1. ASSUME NEW i \in 1 .. Len(s) + 1, NEW j \in 1 .. Len(s) + 1, i < j
            PROVE  walk'.next[i][2] < walk'.next[j][2]
        <5>1. i \in 1 .. Len(s) /\ walk'.next[i] = s[i]
          BY <2>4, <4>1
        <5>2. CASE j = Len(s) + 1
          BY <2>4, <3>5, <5>1, <5>2
        <5>3. CASE j \in 1 .. Len(s)
          BY <1>6, <2>4, <4>1, <5>1, <5>3 DEF Sweeps, Leftward, s
        <5>. QED  BY <2>4, <5>2, <5>3
      <4>. QED  BY <2>4, <4>1 DEF Leftward
    <3>7. ASSUME NEW i \in 1 .. Len(s) + 1 PROVE Behind(walk.next[i][2])'
      <4>1. CASE i \in 1 .. Len(s)
        <5>1. ASSUME NEW x, x = s[i][2] PROVE Behind(x)'
          BY <2>3, <3>5, <4>1, <5>1
        <5>2. walk'.next[i][2] = s[i][2]
          BY <2>4, <4>1
        <5>. QED  BY <5>1, <5>2 DEF Behind
      <4>2. CASE i = Len(s) + 1
        <5>1. walk'.next[i][2] = KeyOf(first', d)
          BY <2>1, <2>3, <2>4, <4>2
        <5>. QED  BY <2>3, <5>1 DEF Behind
      <4>. QED  BY <2>4, <4>1, <4>2
    <3>8. Leftward(walk.cur)'
      BY <1>6, <2>2 DEF Sweeps, Leftward
    <3>. QED  BY <2>4, <3>4, <3>6, <3>7, <3>8 DEF Sweeps
  <2>8. q.torn \/ Returned'
    BY <1>1, <1>3, <1>4, <1>6, <2>3 DEF Returned, Found, Low
  <2>. QED  BY <1>1, <1>3, <1>4, <2>5, <2>6, <2>7, <2>8 DEF WalkExact
<1>10. CASE d \notin child[first]
  BY <1>5, <1>10
<1>. QED  BY <1>8, <1>9, <1>10 DEF visitInterNode

\* The nodes of a list and its values: a list of m nodes has at most m times the
\* values of a node, and each of its nodes but the last is full.
LEMMA NodesOf ==
    ASSUME TreeOK, NEW k \in Keys, NEW m \in Nat
    PROVE  /\ Nodes(k) \in Nat /\ Len(lists[k]) \in Nat /\ m * ELEM_NUM_EACH_NODE \in Nat
           /\ Nodes(k) <= m => Len(lists[k]) <= m * ELEM_NUM_EACH_NODE
           /\ Nodes(k) > m => m * ELEM_NUM_EACH_NODE <= Len(lists[k])
<1> DEFINE E == ELEM_NUM_EACH_NODE
           n == Len(lists[k])
           x == (n + E - 1) \div E
           r == (n + E - 1) % E
           extra == k = ins /\ slot # "none" /\ Full(k)
<1>1. E \in Nat \ {0} /\ n \in Nat
  <2>1. lists[k] \in Seq(Nat)
    BY DEF TreeOK
  <2>. QED  BY <2>1, TrieAssumption
<1>2. Nodes(k) = x + (IF extra THEN 1 ELSE 0)
  BY DEF Nodes
<1>3. Full(k) => n % E = 0
  BY DEF Full
<1> HIDE DEF E, n, extra
<1>4. n + E - 1 \in Nat
  BY <1>1
<1>5. x \in Nat /\ r \in 0 .. E - 1 /\ n + E - 1 = x * E + r
  BY <1>1, <1>4, Division
<1> HIDE DEF x, r
<1>6. x * E \in Nat /\ m * E \in Nat /\ (x * E) + r = (n + E) - 1
  BY <1>1, <1>5
<1>7. \A c, d, e \in Nat : c <= d => c * e <= d * e
  OBVIOUS
<1>8. n <= x * E
  BY <1>1, <1>5, <1>6
<1>9. Nodes(k) \in Nat /\ (Nodes(k) = x \/ (extra /\ Nodes(k) = x + 1))
  BY <1>2, <1>5
<1>10. ASSUME Nodes(k) <= m PROVE n <= m * E
  <2>1. x <= m
    BY <1>5, <1>9, <1>10
  <2>2. x * E <= m * E
    BY <1>1, <1>5, <1>7, <2>1
  <2>. QED  BY <1>1, <1>6, <1>8, <2>2
<1>11. ASSUME Nodes(k) > m PROVE m * E <= n
  <2>1. CASE Nodes(k) = x
    <3>1. m + 1 <= x /\ m + 1 \in Nat
      BY <1>5, <1>11, <2>1
    <3>2. (m + 1) * E <= x * E
      BY <1>1, <1>5, <1>7, <3>1
    <3>3. (m + 1) * E = m * E + E
      BY <1>1
    <3>. QED  BY <1>1, <1>5, <1>6, <3>2, <3>3
  <2>2. CASE extra /\ Nodes(k) = x + 1
    <3>1. m <= x
      BY <1>5, <1>11, <2>2
    <3> DEFINE y == n \div E
    <3>2. n % E = 0
      BY <1>3, <2>2 DEF extra
    <3>3. y \in Nat /\ n = y * E
      <4>1. y \in Nat /\ n = y * E + (n % E)
        BY <1>1, Division
      <4> HIDE DEF y
      <4>2. y * E \in Nat
        BY <1>1, <4>1
      <4>. QED  BY <3>2, <4>1, <4>2
    <3> HIDE DEF y
    <3>4. x = y
      <4>1. E - 1 \in 0 .. E - 1 /\ y * E \in Nat /\ n + E - 1 = y * E + (E - 1)
        BY <1>1, <3>3
      <4>2. (y * E + (E - 1)) \div E = y
        BY <1>1, <3>3, <4>1, DivisionUnique
      <4>. QED  BY <4>1, <4>2 DEF x
    <3>5. m * E <= x * E
      BY <1>1, <1>5, <1>7, <3>1
    <3>. QED  BY <3>3, <3>4, <3>5
  <2>. QED  BY <1>9, <2>1, <2>2
<1>. QED  BY <1>1, <1>6, <1>9, <1>10, <1>11 DEF E, n

\* A flow that is pending at the position of a list is in the list.
LEMMA PendingInList ==
    ASSUME Core, Walking, Covered, walk.cur # <<>>, first \in Node, isLeafNode(first), NEW v \in q.before,
           Pending(v), NEW d, DigitOf(items[v], first[1]) = d, KeyOf(first, d) \in Keys
    PROVE  v \in ToSet(lists[KeyOf(first, d)])
<1>1. v \in Done /\ items[v] \in Nat /\ first[1] \in Level /\ KeyOf(first, d) = PrefixIn(first[1], items[v])
  BY PendingPosition
<1>2. first[1] = Depth - 1
  BY DEF isLeafNode
<1>3. PrefixIn(first[1], items[v]) = items[v]
  BY <1>1, <1>2, KeyPath
<1>4. ListExact(KeyOf(first, d))
  BY DEF Walking, Core, Added
<1>. QED  BY <1>1, <1>3, <1>4 DEF ListExact

\* A turn in a leaf.
LEMMA visitLeafNodeWalk ==
    ASSUME Core, WalkExact, NEW d \in OnePosition, visitLeafNode(d)
    PROVE  WalkExact'
<1> SUFFICES ASSUME Walking' PROVE WalkExact'
  BY DEF WalkExact
<1>1. /\ Visits /\ walk.scan /\ PositionReadable /\ isLeafNode(first)
      /\ UNCHANGED <<tree, positions, ret>> /\ q'.pc = "walk"
  BY DEF visitLeafNode, Walking
<1>2. q' = Seen /\ pc' = pc
  <2>1. ASSUME NEW f, f = [Seen EXCEPT !.pc = "abort"] PROVE f.pc = "abort"
    BY <2>1, WalkTypes, SeenPc
  <2>2. q' # [Seen EXCEPT !.pc = "abort"]
    BY <1>1, <2>1
  <2>. QED  BY <1>1, <2>2 DEF visitLeafNode
<1>3. /\ q'.lo = q.lo /\ q'.hi = q.hi /\ q'.before = q.before /\ q'.torn = q.torn /\ q'.empty = q.empty
      /\ Walking /\ ~Incomplete(first)
  <2>1. q \in Query /\ Seen \in {Seen, LateSeen}
    BY WalkTypes
  <2>. QED  BY <1>1, <1>2, <2>1, SeenFields DEF Walking
<1>4. /\ walk.cur # <<>> /\ merge.list = NULL /\ fill["command"] = NULL /\ first \in Node
      /\ first[1] \in Level /\ first[1] \in Nat /\ first[1] = Depth - 1
      /\ UNCHANGED <<child, bits, lists, ins, slot, items, cache, fill>>
  BY <1>1, FirstNode DEF isLeafNode
<1>5. /\ d \in Digit /\ cache[first] \in Seq(Digit) /\ walk.pos < Len(cache[first])
      /\ walk.pos + 1 \in 1 .. Len(cache[first]) /\ d = cache[first][walk.pos + 1]
      /\ Increasing(cache[first]) /\ cache[first] # NULL /\ d \in child[first]
  BY <1>1, <1>3, PositionRead DEF PositionReadable
<1> DEFINE k == KeyOf(first, d)
<1>6. /\ Covered /\ PosOK /\ Sweeps /\ (~q.torn => Returned)
  BY <1>3, WalkingNow
<1>7. walk \in Walk /\ walk.pos \in Nat /\ Len(cache[first]) \in Nat /\ q.hi \in Nat /\ q.lo \in Nat /\ TreeOK
  BY <1>5, WalkTypes
<1>8. PrefixIn(first[1], q.hi) = q.hi /\ PrefixIn(first[1], q.lo) = q.lo
  BY <1>4, <1>7, KeyPath
<1>9. k \in Keys /\ k \in Nat
  <2>1. k \in Keys
    BY <1>1, <1>4, <1>5 DEF Core, Linked
  <2>2. Depth \in 0 .. Depth
    BY TrieAssumption
  <2>3. PrefixCount[Depth] \in Nat
    BY <2>2, PrefixCountDefined
  <2>4. Keys \subseteq Nat
    BY <2>3, TrieAssumption
  <2> HIDE DEF k
  <2>. QED  BY <2>1, <2>4
<1>10. CASE Beyond(first, d, q.hi) /\ walk' = popNode /\ UNCHANGED merge
  <2>1. Beyond(first, d, PrefixIn(first[1], q.hi))
    BY <1>8, <1>10
  <2>. QED  BY <1>1, <1>2, <1>3, <1>10, <2>1, BeyondPasses, PopWalk
<1>11. CASE Nodes(k) = 0 /\ walk' = [walk EXCEPT !.pos = @ + 1] /\ UNCHANGED merge
  <2>1. /\ walk'.cur = walk.cur /\ walk'.next = walk.next /\ walk'.pos = walk.pos + 1 /\ walk'.scan = walk.scan
    BY <1>7, <1>11, PosMoved
  <2>2. /\ first' = first
        /\ \A x : Behind(x) => Behind(x)'
    BY <1>3, <1>4, <1>5, <2>1, MovePos
  <2>3. Covered'
    <3>1. ASSUME NEW v \in q.before, Pending(v), DigitOf(items[v], first[1]) = d PROVE FALSE
      <4>1. v \in ToSet(lists[k])
        BY <1>1, <1>3, <1>4, <1>6, <1>9, <3>1, PendingInList
      <4>2. Len(lists[k]) <= 0 * ELEM_NUM_EACH_NODE /\ Len(lists[k]) \in Nat
        BY <1>7, <1>9, <1>11, NodesOf
      <4>3. Len(lists[k]) = 0 /\ DOMAIN lists[k] = 1 .. Len(lists[k])
        <5>1. 0 * ELEM_NUM_EACH_NODE = 0
          BY TrieAssumption
        <5>2. lists[k] \in Seq(Nat)
          BY <1>7, <1>9 DEF TreeOK
        <5>. QED  BY <4>2, <5>1, <5>2
      <4>. QED  BY <4>1, <4>3 DEF ToSet
    <3>2. \A v \in q.before : Reached(v, walk.next) => Reached(v, walk.next)'
      BY <1>4, <2>1 DEF Reached
    <3>. QED  BY <1>1, <1>3, <1>4, <1>5, <2>1, <3>1, <3>2, MovedCovers
  <2>4. PosOK'
    <3>1. \A p \in walk'.pos + 1 .. Len(cache[first]) : p \in walk.pos + 1 .. Len(cache[first])
      BY <1>7, <2>1
    <3>2. walk'.pos <= Len(cache[first])
      BY <1>5, <1>7, <2>1
    <3>. QED  BY <1>1, <1>3, <1>4, <1>5, <1>6, <1>11, <2>1, <2>2, <3>1, <3>2 DEF PosOK
  <2>5. Sweeps'
    BY <1>1, <1>6, <2>1, <2>2 DEF Sweeps, InLevel, Leftward
  <2>6. q.torn \/ Returned'
    BY <1>1, <1>3, <1>4, <1>6, <2>2 DEF Returned, Found, Low
  <2>. QED  BY <1>1, <1>3, <1>4, <1>11, <2>3, <2>4, <2>5, <2>6 DEF WalkExact
<1>12. CASE ~Beyond(first, d, q.hi) /\ merge' = [NoMerge EXCEPT !.list = k] /\ UNCHANGED walk
  <2>1. /\ merge'.list = k /\ merge'.at = 1 /\ merge'.idx = 1 /\ merge'.temp = <<>> /\ merge'.step = "turn"
    BY <1>12 DEF NoMerge
  <2>2. first' = first
    BY <1>12 DEF first
  <2>3. \A v : Pending(v)' = Pending(v)
    BY <1>4, <1>12, <2>2 DEF Pending
  <2>4. Covered'
    BY <1>1, <1>3, <1>4, <1>6, <1>12, <2>3 DEF Covered, Found, Done, Reached
  <2>5. PosOK'
    BY <1>1, <1>3, <1>4, <1>5, <1>6, <1>7, <1>12, <2>1, <2>2 DEF PosOK, Halfway
  <2>6. ASSUME NEW x PROVE Behind(x)' = Behind(x)
    BY <1>4, <1>12, <2>2 DEF Behind
  <2>7. Sweeps'
    BY <1>1, <1>6, <1>12, <2>6 DEF Sweeps, InLevel, Leftward
  <2>8. q.torn \/ Returned'
    BY <1>1, <1>3, <1>4, <1>6, <2>6 DEF Returned, Found, Low
  <2>9. Upcoming' = 1 /\ ToSet(merge'.temp) = {} /\ Len(merge'.temp) = 0
    <3>1. ToSet(<<>>) = {} /\ Len(<<>>) = 0
      BY DEF ToSet
    <3>. QED  BY <2>1, <3>1 DEF Upcoming
  <2>10. MergeCovers'
    <3>1. Len(lists[k]) \in Nat /\ Len(ret) \in Nat
      BY <1>7, <1>9, NodesOf, WalkTypes
    <3>2. (1 <= Len(lists[k]) + 1) /\ (1 <= Len(ret) + 1) /\ (\A j \in 1 .. 1 - 1 : FALSE)
          /\ (\A i \in 1 .. Len(lists[k]) : ~(i < 1))
      BY <3>1
    <3>. QED  BY <1>1, <1>4, <2>1, <2>9, <3>2 DEF MergeCovers
  <2>11. MergeSorts'
    <3>1. k <= q.hi
      BY <1>7, <1>9, <1>12 DEF Beyond
    <3>2. Low <= k
      <4>1. CASE q.empty
        BY <1>9, <4>1 DEF Low
      <4>2. CASE ~q.empty
        <5>1. walk.pos + 1 \in walk.pos + 1 .. Len(cache[first])
          BY <1>5, <1>7
        <5>2. PrefixIn(first[1], q.lo) <= KeyOf(first, cache[first][walk.pos + 1])
          BY <1>1, <1>6, <4>2, <5>1 DEF PosOK
        <5>. QED  BY <1>5, <1>8, <4>2, <5>2 DEF Low
      <4>. QED  BY <4>1, <4>2
    <3>3. Increasing(merge'.temp)
      BY <2>9 DEF Increasing
    <3>4. Low' = Low
      BY <1>3 DEF Low
    <3>. QED  BY <1>3, <2>1, <2>9, <3>1, <3>2, <3>3, <3>4 DEF MergeSorts
  <2>. QED  BY <1>1, <1>3, <1>4, <2>4, <2>5, <2>7, <2>8, <2>10, <2>11 DEF WalkExact
<1>13. CASE d \notin child[first]
  BY <1>5, <1>13
<1>. QED  BY <1>8, <1>10, <1>11, <1>12, <1>13 DEF visitLeafNode

-----------------------------------------------------------------------------
(* The merge.                                                              *)

\* A query that merges a list.
LEMMA Merging ==
    ASSUME Core, WalkExact, Walking, Merges
    PROVE  /\ merge.list # NULL /\ merge.list \in Keys /\ merge.list \in Nat
           /\ walk.cur # <<>> /\ first \in Node /\ isLeafNode(first) /\ first[1] = Depth - 1
           /\ cache[first] # NULL /\ fill["command"] = NULL
           /\ walk.pos < Len(cache[first]) /\ walk.pos + 1 \in 1 .. Len(cache[first])
           /\ merge.list = KeyOf(first, cache[first][walk.pos + 1])
           /\ lists[merge.list] \in Seq(Nat) /\ Len(lists[merge.list]) \in Nat /\ Len(ret) \in Nat
           /\ merge.at \in Nat \ {0} /\ merge.idx \in Nat \ {0} /\ merge.temp \in Seq(Nat)
           /\ UNCHANGED tree => UNCHANGED <<child, bits, lists, ins, slot, items>>
           /\ UNCHANGED positions => UNCHANGED <<cache, fill>>
           /\ ListExact(merge.list)
<1>1. /\ merge.list # NULL /\ merge.list \in Keys /\ lists \in [Keys -> Seq(Nat)]
      /\ merge.at \in Nat \ {0} /\ merge.idx \in Nat \ {0} /\ merge.temp \in Seq(Nat) /\ ret \in Seq(Nat)
      /\ ListExact(merge.list)
  BY WalkTypes DEF Merges, Walking, Core, Added
<1>2. PosOK
  BY WalkingNow
<1>3. /\ walk.cur # <<>> /\ isLeafNode(first) /\ cache[first] # NULL /\ fill["command"] = NULL
      /\ walk.pos < Len(cache[first]) /\ merge.list = KeyOf(first, cache[first][walk.pos + 1])
  BY <1>1, <1>2 DEF PosOK, Halfway
<1>4. first \in Node
  <2> DEFINE c == walk.cur
  <2>1. c \in Seq(Node) /\ c # <<>>
    BY <1>3, WalkTypes
  <2> HIDE DEF c
  <2>2. Head(c) \in Node
    BY <2>1
  <2>. QED  BY <2>2 DEF c, first
<1>5. walk.pos + 1 \in 1 .. Len(cache[first])
  <2>1. Len(cache[first]) \in Nat /\ walk.pos \in Nat
    BY <1>3, <1>4, StoredPositions, WalkTypes
  <2>. QED  BY <1>3, <2>1
<1>6. lists[merge.list] \in Seq(Nat) /\ Len(lists[merge.list]) \in Nat /\ Len(ret) \in Nat
  BY <1>1
<1>7. merge.list \in Nat
  <2>1. Depth \in 0 .. Depth
    BY TrieAssumption
  <2>2. PrefixCount[Depth] \in Nat
    BY <2>1, PrefixCountDefined
  <2>3. Keys \subseteq Nat
    BY <2>2, TrieAssumption
  <2>. QED  BY <1>1, <2>3
<1>. QED  BY <1>1, <1>3, <1>4, <1>5, <1>6, <1>7 DEF isLeafNode, tree, positions

\* A turn of the merge that leaves the walk alone.
LEMMA MergeWalk ==
    ASSUME Core, WalkExact, Walking, Merges, UNCHANGED <<tree, positions, pc, walk, ret>>,
           merge'.list = merge.list,
           q'.before = q.before, q'.lo = q.lo, q'.hi = q.hi, q'.empty = q.empty, ~q'.torn => ~q.torn,
           MergeCovers', ~q'.torn => MergeSorts'
    PROVE  WalkExact'
<1>1. UNCHANGED <<child, bits, lists, ins, slot, items>> /\ UNCHANGED <<cache, fill>> /\ first' = first
  BY Merging DEF first
<1>2. /\ Covered /\ PosOK /\ Sweeps /\ (~q.torn => Returned)
  BY WalkingNow
<1>3. \A v : Pending(v)' = Pending(v)
  BY <1>1 DEF Pending
<1>4. Covered'
  BY <1>1, <1>2, <1>3 DEF Covered, Found, Done, Reached
<1>5. PosOK'
  BY <1>1, <1>2 DEF PosOK, Halfway
<1>6. ASSUME NEW x PROVE Behind(x)' = Behind(x)
  BY <1>1 DEF Behind
<1>7. Sweeps'
  BY <1>2, <1>6 DEF Sweeps, InLevel, Leftward
<1>8. q'.torn \/ Returned'
  BY <1>1, <1>2, <1>6 DEF Returned, Found, Low
<1>. QED  BY <1>4, <1>5, <1>7, <1>8 DEF WalkExact

LEMMA readElemNumWalk == ASSUME Core, WalkExact, readElemNum PROVE WalkExact'
<1> SUFFICES ASSUME Walking' PROVE WalkExact'
  BY DEF WalkExact
<1>1. Merges /\ UNCHANGED <<tree, positions, pc, walk, ret>> /\ q' = LateSeen
  BY DEF readElemNum
<1>2. /\ q'.lo = q.lo /\ q'.hi = q.hi /\ q'.before = q.before /\ q'.torn = q.torn /\ q'.empty = q.empty
      /\ Walking
  <2>1. q \in Query /\ LateSeen \in {Seen, LateSeen}
    BY WalkTypes
  <2>. QED  BY <1>1, <2>1, SeenFields DEF Walking
<1> DEFINE k == merge.list
           n == Len(lists[k])
<1>3. /\ merge'.list = k /\ merge'.temp = merge.temp
      /\ merge'.idx = merge.idx /\ merge.step = "count"
      /\ \/ merge.at < Counted(k) /\ merge'.at = merge.at + 1 /\ merge'.step = "turn"
         \/ ~(merge.at < Counted(k)) /\ merge'.at = merge.at /\ merge'.step = "next"
  BY WalkTypes, readElemNumMerge
<1>4. /\ k # NULL /\ k \in Keys /\ n \in Nat /\ merge.at \in Nat \ {0}
      /\ UNCHANGED <<child, bits, lists, ins, slot, items>>
  BY <1>1, <1>2, Merging
<1>5. MergeCovers /\ (~q.torn => MergeSorts)
  BY <1>2, <1>4, WalkingNow
<1>6. n <= Counted(k) /\ Counted(k) <= n + 1 /\ Counted(k) \in Nat
  <2> DEFINE e == IF k = ins /\ slot = "counted" THEN 1 ELSE 0
  <2>1. Counted(k) = n + e /\ (e = 0 \/ e = 1)
    BY DEF Counted
  <2> HIDE DEF n, e
  <2>. QED  BY <1>4, <2>1
<1>7. Upcoming' = Upcoming /\ Upcoming = merge.at + 1
  BY <1>3 DEF Upcoming
<1>8. /\ merge'.at <= n + 1
      /\ merge'.step = "next" => \A i \in 1 .. n : i <= merge'.at
  <2> HIDE DEF n
  <2>1. merge.at <= n + 1
    BY <1>5 DEF MergeCovers, n
  <2>. QED  BY <1>3, <1>4, <1>6, <2>1
<1>9. MergeCovers'
  BY <1>1, <1>2, <1>3, <1>4, <1>5, <1>7, <1>8 DEF MergeCovers
<1>10. q.torn \/ MergeSorts'
  BY <1>1, <1>2, <1>3, <1>4, <1>5, <1>7 DEF MergeSorts, Low, Found
<1>. QED  BY <1>1, <1>2, <1>3, <1>9, <1>10, MergeWalk

\* The list that is merged: what a value of it is, and the value that is added.
LEMMA MergedList ==
    ASSUME Core, WalkExact, Walking, Merges
    PROVE  LET k == merge.list
               s == lists[k]
           IN /\ Len(items) \in Nat /\ DOMAIN items = 1 .. Len(items)
              /\ \A i \in 1 .. Len(s) :
                   /\ s[i] \in DOMAIN items /\ items[s[i]] = k /\ s[i] \in Nat /\ s[i] <= Len(items)
                   /\ ins = k => s[i] < Len(items)
                   /\ \A j \in 1 .. Len(s) : i < j => s[i] < s[j]
              /\ ins = k => Len(items) \in DOMAIN items /\ items[Len(items)] = k
<1> DEFINE k == merge.list
           s == lists[k]
<1>1. k # NULL /\ s \in Seq(Nat) /\ Len(s) \in Nat /\ ListExact(k)
  BY Merging
<1>2. /\ Len(items) \in Nat /\ DOMAIN items = 1 .. Len(items) /\ Done \subseteq DOMAIN items
      /\ ins # NULL => Done = DOMAIN items \ {Len(items)}
  BY DoneValues DEF Core, TypeOK
<1>3. ins = k => Len(items) > 0 /\ items[Len(items)] = k
  BY <1>1 DEF Core, Inserting
<1>4. Increasing(s) /\ ToSet(s) = {v \in Done : items[v] = k}
  BY <1>1 DEF ListExact
<1>5. \A i \in 1 .. Len(s) : s[i] \in ToSet(s)
  <2> HIDE DEF s
  <2>. QED  BY <1>1 DEF ToSet
<1> HIDE DEF k, s
<1>6. ASSUME NEW i \in 1 .. Len(s)
      PROVE  /\ s[i] \in DOMAIN items /\ items[s[i]] = k /\ s[i] \in Nat /\ s[i] <= Len(items)
             /\ ins = k => s[i] < Len(items)
             /\ \A j \in 1 .. Len(s) : i < j => s[i] < s[j]
  <2>1. s[i] \in Done /\ items[s[i]] = k
    BY <1>4, <1>5
  <2>2. s[i] \in 1 .. Len(items) /\ (ins = k => s[i] # Len(items))
    BY <1>1, <1>2, <2>1
  <2>. QED  BY <1>1, <1>2, <1>4, <2>1, <2>2 DEF Increasing
<1>. QED  BY <1>2, <1>3, <1>6 DEF k, s

\* What a turn reads of the list, if the value is there.
LEMMA DataRead ==
    ASSUME Core, WalkExact, Walking, Merges, NEW v \in Data
    PROVE  LET k == merge.list
           IN /\ merge.at <= Len(lists[k]) => v = lists[k][merge.at]
              /\ Stored(k, merge.at) /\ ~(merge.at <= Len(lists[k])) => ins = k /\ v = Len(items)
BY DEF Data, Stored

LEMMA mergeTurnWalk ==
    ASSUME Core, WalkExact, NEW v \in Data, NEW w \in Data, mergeTurn(v, w)
    PROVE  WalkExact'
<1> SUFFICES ASSUME Walking' PROVE WalkExact'
  BY DEF WalkExact
<1>1. Merges /\ UNCHANGED <<tree, positions, pc, walk, ret>> /\ merge.step = "turn"
  BY DEF mergeTurn
<1>2. /\ q'.lo = q.lo /\ q'.hi = q.hi /\ q'.before = q.before /\ q'.empty = q.empty
      /\ ~q'.torn => ~q.torn /\ Stored(merge.list, merge.at)
      /\ Walking
  <2>1. q \in Query
    BY WalkTypes
  <2>. QED  BY <2>1, mergeTurnSeen DEF Walking
<1>3. v \in Nat /\ w \in Nat
  BY <1>1, MergeTypes
<1> DEFINE k == merge.list
           s == lists[k]
           n == Len(s)
           a == merge.at
           j == merge.idx
           t == merge.temp
<1>4. /\ merge'.list = k /\ merge'.at = a
      /\ \/ /\ j <= Len(ret) /\ v > ret[j]
            /\ merge'.temp = Append(t, ret[j]) /\ merge'.idx = j + 1 /\ merge'.step = "turn"
         \/ /\ ~(j <= Len(ret) /\ v > ret[j])
            /\ merge'.temp = Append(t, w) /\ merge'.idx = j /\ merge'.step = "count"
  BY <1>3, WalkTypes, mergeTurnMerge
<1>5. /\ k # NULL /\ k \in Keys /\ k \in Nat /\ s \in Seq(Nat) /\ n \in Nat /\ a \in Nat \ {0} /\ j \in Nat \ {0}
      /\ t \in Seq(Nat) /\ Len(ret) \in Nat /\ ret \in Seq(Nat)
      /\ UNCHANGED <<child, bits, lists, ins, slot, items>>
  BY <1>1, <1>2, Merging, WalkTypes
<1>6. /\ MergeCovers /\ (~q.torn => Returned /\ MergeSorts)
  BY <1>2, <1>5, WalkingNow
<1>7. /\ Len(items) \in Nat /\ DOMAIN items = 1 .. Len(items)
      /\ \A i \in 1 .. n :
           /\ s[i] \in DOMAIN items /\ items[s[i]] = k /\ s[i] \in Nat /\ s[i] <= Len(items)
           /\ ins = k => s[i] < Len(items)
           /\ \A m \in 1 .. n : i < m => s[i] < s[m]
      /\ ins = k => Len(items) \in DOMAIN items /\ items[Len(items)] = k
  BY <1>1, <1>2, MergedList
<1>8. /\ a <= n => v = s[a] /\ w = s[a]
      /\ ~q'.torn /\ ~(a <= n) => ins = k /\ v = Len(items) /\ w = Len(items)
  BY <1>1, <1>2, DataRead
<1>9. /\ a <= n + 1 /\ j <= Len(ret) + 1 /\ Upcoming = a
      /\ \A i \in 1 .. j - 1 : ret[i] \in ToSet(t)
      /\ \A i \in 1 .. n : s[i] \in q.before /\ i < a => s[i] \in ToSet(t)
  BY <1>1, <1>6 DEF MergeCovers, Upcoming
<1>10. CASE /\ j <= Len(ret) /\ v > ret[j]
            /\ merge'.temp = Append(t, ret[j]) /\ merge'.idx = j + 1 /\ merge'.step = "turn"
  <2> DEFINE e == ret[j]
  <2>1. e \in Nat /\ j \in 1 .. Len(ret) /\ e \in ToSet(ret)
    <3>1. j \in 1 .. Len(ret)
      BY <1>5, <1>10
    <3>. QED  BY <1>5, <3>1 DEF ToSet
  <2>2. ToSet(merge'.temp) = ToSet(t) \cup {e}
    <3> HIDE DEF t, e
    <3>. QED  BY <1>5, <1>10, <2>1, AppendLarger DEF e
  <2>3. Upcoming' = a
    BY <1>4, <1>10 DEF Upcoming
  <2>4. MergeCovers'
    <3>1. j + 1 <= Len(ret) + 1 /\ \A i \in 1 .. (j + 1) - 1 : i \in 1 .. j - 1 \/ i = j
      BY <1>5, <1>10
    <3>2. \A i \in 1 .. (j + 1) - 1 : ret[i] \in ToSet(merge'.temp)
      BY <1>9, <2>2, <3>1
    <3>. QED  BY <1>1, <1>2, <1>4, <1>5, <1>9, <1>10, <2>2, <2>3, <3>1, <3>2 DEF MergeCovers
  <2>5. ASSUME ~q'.torn PROVE MergeSorts'
    <3>1. Returned /\ MergeSorts
      BY <1>2, <1>6, <2>5
    <3>2. /\ e \in Found(Low, q.hi)
          /\ \A i \in j + 1 .. Len(ret) : e < ret[i]
      <4>1. \A i \in j + 1 .. Len(ret) : i \in 1 .. Len(ret) /\ j < i
        BY <1>5
      <4>. QED  BY <2>1, <3>1, <4>1 DEF Returned, Increasing
    <3>3. \A i \in 1 .. n : a <= i => e < s[i]
      <4> SUFFICES ASSUME NEW i \in 1 .. n, a <= i PROVE e < s[i]
        OBVIOUS
      <4>1. a <= n /\ a \in 1 .. n
        BY <1>5
      <4>2. v = s[a] /\ (a = i \/ s[a] < s[i]) /\ s[i] \in Nat
        <5>1. v = s[a] /\ (a < i => s[a] < s[i]) /\ s[i] \in Nat
          BY <1>7, <1>8, <4>1
        <5>2. a = i \/ a < i
          BY <1>5
        <5>. QED  BY <5>1, <5>2
      <4>3. v <= s[i]
        <5> DEFINE x == s[i]
                   y == s[a]
        <5>1. v \in Nat /\ x \in Nat /\ v = y /\ (a = i => x = y) /\ (a = i \/ y < x)
          BY <1>3, <4>2
        <5> HIDE DEF x, y
        <5>2. v <= x
          BY <5>1
        <5>. QED  BY <5>2 DEF x
      <4> DEFINE x == s[i]
      <4>4. e \in Nat /\ v \in Nat /\ x \in Nat /\ v > e /\ v <= x
        BY <1>3, <1>10, <2>1, <4>2, <4>3
      <4> HIDE DEF x, e
      <4>5. e < x
        BY <4>4
      <4>. QED  BY <4>5 DEF x
    <3>4. ins = k => e < Len(items)
      <4> SUFFICES ASSUME ins = k PROVE e < Len(items)
        OBVIOUS
      <4>1. v <= Len(items)
        <5>1. CASE a <= n
          <6>1. a \in 1 .. n
            BY <1>5, <5>1
          <6>. QED  BY <1>7, <1>8, <5>1, <6>1
        <5>2. CASE ~(a <= n)
          BY <1>7, <1>8, <2>5, <5>2
        <5>. QED  BY <5>1, <5>2
      <4>. QED  BY <1>3, <1>7, <1>10, <2>1, <4>1
    <3>5. /\ Low <= k /\ k <= q.hi /\ Increasing(t)
          /\ \A u \in ToSet(t) :
               /\ u \in Found(Low, q.hi)
               /\ u \in ToSet(ret) \/ items[u] = k
               /\ \A i \in j .. Len(ret) : u < ret[i]
               /\ \A i \in 1 .. n : a <= i => u < s[i]
               /\ ins = k /\ a <= n + 1 => u < Len(items)
      BY <1>9, <3>1 DEF MergeSorts
    <3>6. Increasing(merge'.temp)
      <4>1. \A u \in ToSet(t) : u < e
        <5>1. j \in j .. Len(ret)
          BY <1>5, <1>10
        <5>. QED  BY <3>5, <5>1
      <4> HIDE DEF t, e
      <4>. QED  BY <1>5, <1>10, <2>1, <3>5, <4>1, AppendLarger DEF e
    <3>7. \A u \in ToSet(merge'.temp) :
               /\ u \in Found(Low, q.hi)
               /\ u \in ToSet(ret) \/ items[u] = k
               /\ \A i \in j + 1 .. Len(ret) : u < ret[i]
               /\ \A i \in 1 .. n : a <= i => u < s[i]
               /\ ins = k /\ a <= n + 1 => u < Len(items)
      <4>1. \A i \in j + 1 .. Len(ret) : i \in j .. Len(ret)
        BY <1>5
      <4>. QED  BY <2>1, <2>2, <3>2, <3>3, <3>4, <3>5, <4>1
    <3>8. Low' = Low /\ Found(Low, q.hi)' = Found(Low, q.hi)
      BY <1>2, <1>5 DEF Low, Found
    <3>. QED  BY <1>1, <1>2, <1>4, <1>5, <1>10, <2>3, <3>5, <3>6, <3>7, <3>8 DEF MergeSorts
  <2>. QED  BY <1>1, <1>2, <1>4, <2>4, <2>5, MergeWalk
<1>11. CASE /\ ~(j <= Len(ret) /\ v > ret[j])
            /\ merge'.temp = Append(t, w) /\ merge'.idx = j /\ merge'.step = "count"
  <2>2. ToSet(merge'.temp) = ToSet(t) \cup {w}
    <3> HIDE DEF t
    <3>. QED  BY <1>3, <1>5, <1>11, AppendLarger
  <2>3. Upcoming' = a + 1
    BY <1>4, <1>11 DEF Upcoming
  <2>4. MergeCovers'
    <3>1. ASSUME NEW i \in 1 .. n, s[i] \in q.before, i < a + 1 PROVE s[i] \in ToSet(merge'.temp)
      <4>1. i < a \/ i = a
        BY <1>5, <3>1
      <4>2. CASE i < a
        BY <1>9, <2>2, <3>1, <4>2
      <4>3. CASE i = a
        <5>1. a <= n
          BY <1>5, <4>3
        <5>. QED  BY <1>8, <2>2, <4>3, <5>1
      <4>. QED  BY <4>1, <4>2, <4>3
    <3>. QED  BY <1>1, <1>2, <1>4, <1>5, <1>9, <1>11, <2>2, <2>3, <3>1 DEF MergeCovers
  <2>5. ASSUME ~q'.torn PROVE MergeSorts'
    <3>1. Returned /\ MergeSorts
      BY <1>2, <1>6, <2>5
    <3>2. /\ Low <= k /\ k <= q.hi /\ Increasing(t)
          /\ \A u \in ToSet(t) :
               /\ u \in Found(Low, q.hi)
               /\ u \in ToSet(ret) \/ items[u] = k
               /\ \A i \in j .. Len(ret) : u < ret[i]
               /\ \A i \in 1 .. n : a <= i => u < s[i]
               /\ ins = k /\ a <= n + 1 => u < Len(items)
      BY <1>9, <3>1 DEF MergeSorts
    <3>3. /\ w = v /\ w \in DOMAIN items /\ items[w] = k
          /\ \A u \in ToSet(t) : u < w
          /\ \A i \in 1 .. n : a + 1 <= i => w < s[i]
          /\ ins = k /\ a + 1 <= n + 1 => w < Len(items)
      <4>1. CASE a <= n
        <5>1. a \in 1 .. n /\ \A i \in 1 .. n : a + 1 <= i => a < i
          BY <1>5, <4>1
        <5>2. a <= a
          BY <1>5
        <5>. QED  BY <1>7, <1>8, <3>2, <4>1, <5>1, <5>2
      <4>2. CASE ~(a <= n)
        <5>1. \A i \in 1 .. n : ~(a + 1 <= i)
          BY <1>5, <4>2
        <5>2. ~(a + 1 <= n + 1)
          BY <1>5, <4>2
        <5>. QED  BY <1>7, <1>8, <1>9, <2>5, <3>2, <4>2, <5>1, <5>2
      <4>. QED  BY <4>1, <4>2
    <3>4. w \in Found(Low, q.hi)
      BY <3>2, <3>3 DEF Found
    <3>5. \A i \in j .. Len(ret) : w < ret[i]
      <4> SUFFICES ASSUME NEW i \in j .. Len(ret) PROVE w < ret[i]
        OBVIOUS
      <4>1. j <= Len(ret) /\ j \in 1 .. Len(ret) /\ i \in 1 .. Len(ret) /\ (j = i \/ j < i)
        BY <1>5
      <4>2. ret[j] \in Nat /\ ret[i] \in Nat /\ ret[j] \in ToSet(ret) /\ (j < i => ret[j] < ret[i])
        BY <1>5, <3>1, <4>1 DEF Returned, Increasing, ToSet
      <4>3. w <= ret[j]
        BY <1>3, <1>11, <3>3, <4>1, <4>2
      <4>4. w # ret[j]
        <5>1. Behind(items[ret[j]]) /\ ret[j] \in DOMAIN items
          BY <3>1, <4>2 DEF Returned, Found
        <5>2. items[ret[j]] \in Nat
          BY <5>1, DoneValues DEF Core, TypeOK
        <5> DEFINE x == items[ret[j]]
                   d == cache[first][walk.pos + 1]
        <5>3. /\ walk.cur # <<>> /\ first \in Node /\ cache[first] # NULL /\ walk.pos < Len(cache[first])
              /\ k = KeyOf(first, d) /\ PosOK
          BY <1>1, <1>2, Merging, WalkingNow
        <5>4. x < KeyOf(first, d)
          BY <1>2, <5>1, <5>2, <5>3, BehindPosition
        <5>5. x < k /\ x \in Nat
          BY <5>2, <5>3, <5>4
        <5>. QED  BY <1>5, <3>3, <5>5
      <4>. QED  BY <1>3, <4>1, <4>2, <4>3, <4>4
    <3>6. Increasing(merge'.temp)
      <4> HIDE DEF t
      <4>. QED  BY <1>3, <1>5, <1>11, <3>2, <3>3, AppendLarger DEF t
    <3>7. \A u \in ToSet(merge'.temp) :
               /\ u \in Found(Low, q.hi)
               /\ u \in ToSet(ret) \/ items[u] = k
               /\ \A i \in j .. Len(ret) : u < ret[i]
               /\ \A i \in 1 .. n : a + 1 <= i => u < s[i]
               /\ ins = k /\ a + 1 <= n + 1 => u < Len(items)
      <4>1. \A i \in 1 .. n : a + 1 <= i => a <= i
        BY <1>5
      <4>2. a + 1 <= n + 1 => a <= n + 1
        BY <1>5
      <4>. QED  BY <2>2, <3>2, <3>3, <3>4, <3>5, <4>1, <4>2
    <3>8. Low' = Low /\ Found(Low, q.hi)' = Found(Low, q.hi)
      BY <1>2, <1>5 DEF Low, Found
    <3>. QED  BY <1>1, <1>2, <1>4, <1>5, <1>11, <2>3, <3>2, <3>6, <3>7, <3>8 DEF MergeSorts
  <2>. QED  BY <1>1, <1>2, <1>4, <2>4, <2>5, MergeWalk
<1>. QED  BY <1>4, <1>10, <1>11

LEMMA Concatenation ==
    ASSUME NEW t \in Seq(Nat), NEW r \in Seq(Nat)
    PROVE  /\ t \o r \in Seq(Nat) /\ Len(t \o r) = Len(t) + Len(r)
           /\ \A i \in 1 .. Len(t) : (t \o r)[i] = t[i]
           /\ \A i \in 1 .. Len(r) : (t \o r)[Len(t) + i] = r[i]
OBVIOUS

\* The list and what is left of the values found before are joined.
IsJoin(u, t, s, j) ==
  /\ u \in Seq(Nat)
  /\ \A v : v \in ToSet(u) <=> v \in ToSet(t) \/ \E i \in j .. Len(s) : v = s[i]
  /\ \A i \in j .. Len(s) : s[i] \in ToSet(s)
  /\ Increasing(t) /\ Increasing(s) /\ (\A x \in ToSet(t) : \A i \in j .. Len(s) : x < s[i])
       => Increasing(u)
LEMMA JoinedValues ==
    ASSUME NEW t \in Seq(Nat), NEW s \in Seq(Nat), NEW j \in Nat \ {0}, j <= Len(s) + 1,
           NEW u, u = t \o SubSeq(s, j, Len(s))
    PROVE  IsJoin(u, t, s, j)
<1> DEFINE r == SubSeq(s, j, Len(s))
           m == Len(t)
           n == Len(s)
           c == n - j + 1
<1>1. /\ m \in Nat /\ n \in Nat /\ c \in Nat /\ r \in Seq(Nat) /\ Len(r) = c
      /\ \A i \in 1 .. c : r[i] = s[i + j - 1]
  OBVIOUS
<1>2. \A i \in 1 .. c : i + j - 1 \in j .. n
  BY <1>1
<1>3. \A i \in j .. n : i - j + 1 \in 1 .. c /\ (i - j + 1) + j - 1 = i /\ i \in 1 .. n
  BY <1>1
<1> HIDE DEF r
<1>4. /\ u = t \o r /\ u \in Seq(Nat) /\ Len(u) = m + c
      /\ \A i \in 1 .. m : u[i] = t[i]
      /\ \A i \in 1 .. c : u[m + i] = r[i]
  <2>1. u = t \o r
    BY DEF r
  <2>2. /\ u \in Seq(Nat) /\ Len(u) = Len(t) + Len(r)
        /\ \A i \in 1 .. Len(t) : u[i] = t[i]
        /\ \A i \in 1 .. Len(r) : u[Len(t) + i] = r[i]
    <3>1. r \in Seq(Nat)
      BY <1>1
    <3>. QED  BY <2>1, <3>1, Concatenation
  <2>3. Len(r) = c
    BY <1>1
  <2> HIDE DEF c
  <2>. QED  BY <2>1, <2>2, <2>3 DEF m
<1> HIDE DEF c, m, n
<1>5. \A i \in 1 .. m + c : i \in 1 .. m \/ (i - m \in 1 .. c /\ m + (i - m) = i)
  BY <1>1
<1>6. \A i \in 1 .. m : i \in 1 .. m + c
  BY <1>1
<1>7. \A i \in 1 .. c : m + i \in 1 .. m + c
  BY <1>1
<1>8. ToSet(t) = {t[i] : i \in 1 .. m} /\ ToSet(s) = {s[i] : i \in 1 .. n} /\ ToSet(u) = {u[i] : i \in 1 .. m + c}
  <2>1. DOMAIN t = 1 .. m /\ DOMAIN s = 1 .. n
    BY DEF m, n
  <2>2. DOMAIN u = 1 .. m + c
    BY <1>4
  <2>. QED  BY <2>1, <2>2 DEF ToSet
<1>9. ASSUME NEW v \in ToSet(u) PROVE v \in ToSet(t) \/ \E i \in j .. n : v = s[i]
  <2>1. PICK i \in 1 .. m + c : v = u[i]
    BY <1>8
  <2>2. CASE i \in 1 .. m
    BY <1>4, <1>8, <2>1, <2>2
  <2>3. CASE i - m \in 1 .. c /\ m + (i - m) = i
    <3> DEFINE b == i - m
    <3>1. b \in 1 .. c /\ v = u[m + b]
      BY <2>1, <2>3
    <3> HIDE DEF b
    <3>2. v = s[b + j - 1] /\ b + j - 1 \in j .. n
      BY <1>1, <1>2, <1>4, <3>1
    <3>. QED  BY <3>2
  <2>. QED  BY <1>5, <2>2, <2>3
<1>10. ASSUME NEW v \in ToSet(t) PROVE v \in ToSet(u)
  <2>1. PICK i \in 1 .. m : v = t[i]
    BY <1>8
  <2>2. v = u[i] /\ i \in 1 .. m + c
    BY <1>4, <1>6, <2>1
  <2>. QED  BY <1>8, <2>2
<1>11. ASSUME NEW i \in j .. n PROVE s[i] \in ToSet(u) /\ s[i] \in ToSet(s)
  <2> DEFINE b == i - j + 1
  <2>1. b \in 1 .. c /\ b + j - 1 = i /\ i \in 1 .. n
    BY <1>3
  <2> HIDE DEF b
  <2>2. r[b] = s[i]
    BY <1>1, <2>1
  <2>3. u[m + b] = s[i] /\ m + b \in 1 .. m + c
    BY <1>4, <1>7, <2>1, <2>2
  <2>. QED  BY <1>8, <2>1, <2>3
<1>12. ASSUME Increasing(t), Increasing(s), \A x \in ToSet(t) : \A i \in j .. n : x < s[i]
       PROVE  Increasing(u)
  <2>1. ASSUME NEW a \in 1 .. m + c, NEW b \in 1 .. m + c, a < b PROVE u[a] < u[b]
    <3>1. CASE a \in 1 .. m /\ b \in 1 .. m
      BY <1>4, <1>12, <2>1, <3>1 DEF Increasing, m
    <3>2. CASE a \in 1 .. m /\ b - m \in 1 .. c /\ m + (b - m) = b
      <4> DEFINE e == b - m
      <4>1. e \in 1 .. c /\ u[b] = u[m + e]
        BY <3>2
      <4> HIDE DEF e
      <4>2. u[b] = s[e + j - 1] /\ e + j - 1 \in j .. n
        BY <1>1, <1>2, <1>4, <4>1
      <4>3. u[a] \in ToSet(t)
        BY <1>4, <1>8, <3>2
      <4>. QED  BY <1>12, <4>2, <4>3
    <3>3. CASE a - m \in 1 .. c /\ m + (a - m) = a /\ b - m \in 1 .. c /\ m + (b - m) = b
      <4> DEFINE d == a - m
                 e == b - m
      <4>1. d \in 1 .. c /\ u[a] = u[m + d] /\ e \in 1 .. c /\ u[b] = u[m + e] /\ d < e
        <5>1. a \in Int /\ b \in Int /\ m \in Int
          BY <1>1
        <5>2. d < e
          BY <2>1, <5>1
        <5>3. u[a] = u[m + d] /\ u[b] = u[m + e]
          BY <3>3
        <5>. QED  BY <3>3, <5>2, <5>3
      <4> HIDE DEF d, e
      <4>2. u[a] = s[d + j - 1] /\ u[b] = s[e + j - 1] /\ d + j - 1 \in j .. n /\ e + j - 1 \in j .. n
        BY <1>1, <1>2, <1>4, <4>1
      <4>3. d + j - 1 < e + j - 1
        BY <1>1, <4>1
      <4>4. d + j - 1 \in 1 .. n /\ e + j - 1 \in 1 .. n
        BY <1>3, <4>2
      <4>. QED  BY <1>12, <4>2, <4>3, <4>4 DEF Increasing, n
    <3>4. CASE a - m \in 1 .. c /\ b \in 1 .. m
      BY <1>1, <2>1, <3>4
    <3>. QED  BY <1>5, <3>1, <3>2, <3>3, <3>4
  <2>. QED  BY <1>4, <2>1 DEF Increasing
<1>. QED  BY <1>4, <1>9, <1>10, <1>11, <1>12 DEF n, IsJoin

LEMMA nextNodeWalk == ASSUME Core, WalkExact, nextNode PROVE WalkExact'
<1> SUFFICES ASSUME Walking' PROVE WalkExact'
  BY DEF WalkExact
<1> DEFINE k == merge.list
           s == lists[k]
           n == Len(s)
           a == merge.at
           j == merge.idx
           t == merge.temp
           m == (a - 1) \div ELEM_NUM_EACH_NODE + 1
           e == m * ELEM_NUM_EACH_NODE
<1>1. /\ Merges /\ UNCHANGED <<tree, positions, pc>> /\ q' = LateSeen
      /\ merge.step = "next" \/ (merge.step = "count" /\ a % ELEM_NUM_EACH_NODE = 0)
  BY DEF nextNode
<1>2. /\ q'.lo = q.lo /\ q'.hi = q.hi /\ q'.before = q.before /\ q'.torn = q.torn /\ q'.empty = q.empty
      /\ Walking
  <2>1. q \in Query /\ LateSeen \in {Seen, LateSeen}
    BY WalkTypes
  <2>. QED  BY <1>1, <2>1, SeenFields DEF Walking
<1>3. /\ k # NULL /\ k \in Keys /\ k \in Nat /\ s \in Seq(Nat) /\ n \in Nat /\ a \in Nat \ {0} /\ j \in Nat \ {0}
      /\ t \in Seq(Nat) /\ Len(ret) \in Nat /\ ret \in Seq(Nat) /\ walk \in Walk /\ walk.pos \in Nat
      /\ UNCHANGED <<child, bits, lists, ins, slot, items, cache, fill>>
  BY <1>1, <1>2, Merging, WalkTypes
<1>4. /\ walk.cur # <<>> /\ first \in Node /\ isLeafNode(first) /\ first[1] = Depth - 1
      /\ cache[first] # NULL /\ fill["command"] = NULL
      /\ walk.pos < Len(cache[first]) /\ walk.pos + 1 \in 1 .. Len(cache[first])
      /\ k = KeyOf(first, cache[first][walk.pos + 1])
  BY <1>1, <1>2, Merging
<1>5. Covered /\ PosOK /\ Sweeps /\ MergeCovers /\ (~q.torn => Returned /\ MergeSorts)
  BY <1>2, <1>3, WalkingNow
<1>6. m \in Nat \ {0} /\ e \in Nat /\ a <= e /\ (a % ELEM_NUM_EACH_NODE = 0 => a = e)
  BY <1>3, NodeBegins, TrieAssumption
<1>7. /\ Nodes(k) <= m => n <= e
      /\ Nodes(k) > m => e <= n
      /\ Nodes(k) \in Nat
  BY <1>3, <1>6, NodesOf, WalkTypes
<1>8. Upcoming = a + 1
  BY <1>1 DEF Upcoming
<1>9. /\ a <= n + 1 /\ j <= Len(ret) + 1
      /\ \A i \in 1 .. j - 1 : ret[i] \in ToSet(t)
      /\ \A i \in 1 .. n : s[i] \in q.before =>
           /\ i < a + 1 => s[i] \in ToSet(t)
           /\ merge.step = "next" => i <= a
  BY <1>5, <1>8 DEF MergeCovers
<1>10. \A i \in 1 .. n : s[i] \in q.before /\ i <= e => s[i] \in ToSet(t)
  <2> SUFFICES ASSUME NEW i \in 1 .. n, s[i] \in q.before, i <= e PROVE s[i] \in ToSet(t)
    OBVIOUS
  <2>1. i <= a
    BY <1>1, <1>6, <1>9
  <2>2. i < a + 1
    BY <1>3, <2>1
  <2>. QED  BY <1>9, <2>2
<1>11. \/ /\ Nodes(k) > m
          /\ merge'.list = k /\ merge'.temp = t
          /\ merge'.idx = j /\ merge'.at = e + 1 /\ merge'.step = "turn"
          /\ UNCHANGED <<walk, ret>>
       \/ /\ Nodes(k) <= m
          /\ ret' = t \o SubSeq(ret, j, Len(ret)) /\ merge' = NoMerge
          /\ walk' = [walk EXCEPT !.pos = @ + 1]
  BY WalkTypes, nextNodeMerge
<1>12. CASE /\ Nodes(k) > m
            /\ merge'.list = k /\ merge'.temp = t
            /\ merge'.idx = j /\ merge'.at = e + 1 /\ merge'.step = "turn"
            /\ UNCHANGED <<walk, ret>>
  <2>1. Upcoming' = e + 1
    BY <1>12 DEF Upcoming
  <2>2. e <= n
    BY <1>7, <1>12
  <2> HIDE DEF e, m
  <2>3. MergeCovers'
    <3>1. e + 1 <= n + 1 /\ \A i \in 1 .. n : i < e + 1 => i <= e
      BY <1>3, <1>6, <2>2
    <3>. QED  BY <1>2, <1>3, <1>9, <1>10, <1>12, <2>1, <3>1 DEF MergeCovers
  <2>4. q.torn \/ MergeSorts'
    <3> SUFFICES ASSUME MergeSorts PROVE MergeSorts'
      BY <1>5
    <3>1. /\ Low <= k /\ k <= q.hi /\ Increasing(t)
          /\ \A u \in ToSet(t) :
               /\ u \in Found(Low, q.hi)
               /\ u \in ToSet(ret) \/ items[u] = k
               /\ \A i \in j .. Len(ret) : u < ret[i]
               /\ \A i \in 1 .. n : a + 1 <= i => u < s[i]
               /\ ins = k /\ a + 1 <= n + 1 => u < Len(items)
      BY <1>8 DEF MergeSorts
    <3>2. /\ \A i \in 1 .. n : e + 1 <= i => a + 1 <= i
          /\ e + 1 <= n + 1 => a + 1 <= n + 1
      <4>1. ASSUME NEW x \in Nat, NEW y \in Nat, NEW z \in Nat, x <= y
            PROVE  /\ \A i \in 1 .. z : y + 1 <= i => x + 1 <= i
                   /\ y + 1 <= z + 1 => x + 1 <= z + 1
        BY <4>1
      <4>2. a \in Nat /\ e \in Nat /\ n \in Nat /\ a <= e
        BY <1>3, <1>6
      <4> HIDE DEF a, n
      <4>. QED  BY <4>1, <4>2
    <3>3. Low' = Low /\ Found(Low, q.hi)' = Found(Low, q.hi)
      BY <1>2, <1>3 DEF Low, Found
    <3>. QED  BY <1>2, <1>3, <1>12, <2>1, <3>1, <3>2, <3>3 DEF MergeSorts
  <2>. QED  BY <1>1, <1>2, <1>12, <2>3, <2>4, MergeWalk
<1>13. CASE /\ Nodes(k) <= m
            /\ ret' = t \o SubSeq(ret, j, Len(ret)) /\ merge' = NoMerge
            /\ walk' = [walk EXCEPT !.pos = @ + 1]
  <2>0. n <= e
    BY <1>7, <1>13
  <2>d. PICK d : d = cache[first][walk.pos + 1]
    OBVIOUS
  <2> HIDE DEF e, m
  <2>1. /\ walk'.cur = walk.cur /\ walk'.next = walk.next /\ walk'.pos = walk.pos + 1 /\ walk'.scan = walk.scan
        /\ merge'.list = NULL
    BY <1>3, <1>13, PosMoved DEF NoMerge
  <2>2. /\ first' = first
        /\ \A x : Behind(x) => Behind(x)'
        /\ Behind(KeyOf(first, d))'
    BY <1>2, <1>3, <1>4, <2>d, <2>1, MovePos
  <2>3. /\ ret' \in Seq(Nat)
        /\ \A v : v \in ToSet(ret') <=> v \in ToSet(t) \/ \E i \in j .. Len(ret) : v = ret[i]
        /\ \A i \in j .. Len(ret) : ret[i] \in ToSet(ret)
        /\ Increasing(t) /\ Increasing(ret) /\ (\A x \in ToSet(t) : \A i \in j .. Len(ret) : x < ret[i])
             => Increasing(ret')
    <3>1. t \in Seq(Nat) /\ ret \in Seq(Nat) /\ j \in Nat \ {0} /\ j <= Len(ret) + 1
      BY <1>3, <1>9
    <3>2. PICK r : r = ret
      OBVIOUS
    <3>3. PICK u : u = t \o SubSeq(r, j, Len(r))
      OBVIOUS
    <3>4. IsJoin(u, t, r, j)
      <4> HIDE DEF t, j
      <4>. QED  BY <3>1, <3>2, <3>3, JoinedValues
    <3> HIDE DEF t, j
    <3>5. ret' = u
      BY <1>13, <3>2, <3>3
    <3>. QED  BY <3>2, <3>4, <3>5 DEF IsJoin
  <2>4. ToSet(ret) \subseteq ToSet(ret')
    <3>1. ASSUME NEW v \in ToSet(ret) PROVE v \in ToSet(ret')
      <4>0. DOMAIN ret = 1 .. Len(ret)
        BY <1>3
      <4>1. PICK i \in 1 .. Len(ret) : v = ret[i]
        BY <4>0, <3>1 DEF ToSet
      <4>2. i \in 1 .. j - 1 \/ i \in j .. Len(ret)
        BY <1>3
      <4>. QED  BY <1>9, <2>3, <4>1, <4>2
    <3>. QED  BY <3>1
  <2>5. Covered'
    <3>1. ASSUME NEW v \in q.before, Pending(v), DigitOf(items[v], first[1]) = d PROVE v \in ToSet(ret')
      <4>1. v \in ToSet(s)
        BY <1>2, <1>3, <1>4, <1>5, <2>d, <3>1, PendingInList
      <4>2. PICK i \in 1 .. n : v = s[i]
        BY <1>3, <4>1 DEF ToSet
      <4>3. i <= e
        BY <1>3, <1>6, <2>0
      <4>. QED  BY <1>10, <2>3, <3>1, <4>2, <4>3
    <3>2. \A v \in q.before : Reached(v, walk.next) => Reached(v, walk.next)'
      BY <1>3, <2>1 DEF Reached
    <3>. QED  BY <1>1, <1>2, <1>3, <1>4, <2>d, <2>1, <2>4, <3>1, <3>2, MovedCovers
  <2>6. PosOK'
    <3>0. Len(cache[first]) \in Nat
      BY <1>4, StoredPositions
    <3>1. \A p \in walk'.pos + 1 .. Len(cache[first]) : p \in walk.pos + 1 .. Len(cache[first])
      BY <1>3, <2>1
    <3>2. walk'.pos <= Len(cache[first])
      BY <1>3, <1>4, <2>1, <3>0
    <3>. QED  BY <1>2, <1>3, <1>4, <1>5, <2>1, <2>2, <3>1, <3>2 DEF PosOK
  <2>7. Sweeps'
    <3>1. PICK l \in Level : InLevel(l)
      BY <1>5 DEF Sweeps
    <3>2. first[1] = l
      <4> DEFINE c == walk.cur
      <4>1. c \in Seq(Node) /\ c # <<>>
        BY <1>4, WalkTypes
      <4>2. Head(c) = c[1] /\ 1 \in 1 .. Len(c)
        <5> HIDE DEF c
        <5>. QED  BY <4>1
      <4>. QED  BY <3>1, <4>2 DEF InLevel, first
    <3>3. InLevel(l)'
      BY <1>4, <2>1, <3>1, <3>2 DEF InLevel
    <3>4. Leftward(walk.cur)' /\ Leftward(walk.next)'
      BY <1>5, <2>1 DEF Sweeps, Leftward
    <3>5. \A i \in 1 .. Len(walk'.next) : Behind(walk.next[i][2])'
      <4>1. ASSUME NEW i \in 1 .. Len(walk.next) PROVE Behind(walk.next[i][2])'
        <5>1. ASSUME NEW x, x = walk.next[i][2] PROVE Behind(x)'
          BY <1>5, <2>2, <5>1 DEF Sweeps
        <5>. QED  BY <2>1, <5>1 DEF Behind
      <4>. QED  BY <2>1, <4>1
    <3>. QED  BY <3>3, <3>4, <3>5 DEF Sweeps
  <2>8. q.torn \/ Returned'
    <3> SUFFICES ASSUME Returned, MergeSorts PROVE Returned'
      BY <1>5
    <3>1. Low' = Low /\ Found(Low, q.hi)' = Found(Low, q.hi)
      BY <1>2, <1>3 DEF Low, Found
    <3>2. /\ Increasing(t)
          /\ \A u \in ToSet(t) :
               /\ u \in Found(Low, q.hi)
               /\ u \in ToSet(ret) \/ items[u] = k
               /\ \A i \in j .. Len(ret) : u < ret[i]
      BY DEF MergeSorts
    <3>3. ToSet(ret) \subseteq Found(Low, q.hi) /\ Increasing(ret) /\ \A v \in ToSet(ret) : Behind(items[v])
      BY DEF Returned
    <3>4. Increasing(ret')
      BY <2>3, <3>2, <3>3
    <3>5. ASSUME NEW v \in ToSet(ret') PROVE v \in Found(Low, q.hi) /\ (v \in ToSet(ret) \/ items[v] = k)
      BY <2>3, <3>2, <3>3, <3>5
    <3>6. ASSUME NEW v \in ToSet(ret') PROVE Behind(items[v])'
      <4>1. ASSUME NEW x, x = items[v] PROVE Behind(x)'
        <5>1. CASE v \in ToSet(ret)
          BY <2>2, <3>3, <4>1, <5>1
        <5>2. CASE items[v] = k
          <6>1. x = KeyOf(first, d)
            BY <1>4, <2>d, <4>1, <5>2
          <6>2. x = KeyOf(first, d)'
            BY <2>2, <6>1 DEF KeyOf
          <6>. QED  BY <2>2, <6>2 DEF Behind
        <5>. QED  BY <3>5, <5>1, <5>2
      <4>. QED  BY <1>3, <4>1 DEF Behind
    <3>. QED  BY <3>1, <3>4, <3>5, <3>6 DEF Returned
  <2>. QED  BY <1>2, <2>1, <2>5, <2>6, <2>7, <2>8 DEF WalkExact
<1>. QED  BY <1>11, <1>12, <1>13

LEMMA nextLevelWalk == ASSUME Core, WalkExact, nextLevel PROVE WalkExact'
<1> SUFFICES ASSUME Walking' PROVE WalkExact'
  BY DEF WalkExact
<1>1. /\ Walks /\ walk.cur = <<>> /\ walk.next # <<>> /\ q' = LateSeen
      /\ UNCHANGED <<tree, positions, pc, merge, ret>> /\ merge.list = NULL
      /\ walk' = [walk EXCEPT !.cur = walk.next, !.next = <<>>]
  BY DEF nextLevel, Walks
<1>2. /\ q'.lo = q.lo /\ q'.hi = q.hi /\ q'.before = q.before /\ q'.torn = q.torn /\ q'.empty = q.empty
      /\ Walking
  <2>1. q \in Query /\ LateSeen \in {Seen, LateSeen}
    BY WalkTypes
  <2>. QED  BY <1>1, <2>1, SeenFields DEF Walking
<1>3. UNCHANGED <<child, bits, lists, ins, slot, items, cache, fill>>
  BY <1>1 DEF tree, positions
<1>4. Covered /\ PosOK /\ Sweeps /\ (~q.torn => Returned)
  BY <1>2, WalkingNow
<1> DEFINE s == walk.next
<1>5. /\ walk'.cur = s /\ walk'.next = <<>> /\ walk'.pos = walk.pos /\ walk'.scan = walk.scan /\ s \in Seq(Node)
  BY <1>1, WalkTypes, LevelBegun
<1>6. walk'.pos = 0 /\ ~walk'.scan
  BY <1>1, <1>4, <1>5 DEF PosOK
<1>7. first' = s[1] /\ Len(s) \in Nat \ {0} /\ Len(<<>>) = 0
      /\ \A i \in 1 .. Len(s) : i = 1 \/ (i - 1 \in 1 .. Len(Tail(s)) /\ Tail(s)[i - 1] = s[i])
  <2>1. first' = Head(s)
    BY <1>5 DEF first
  <2>2. s # <<>>
    BY <1>1
  <2> HIDE DEF s
  <2>. QED  BY <1>5, <2>1, <2>2
<1>8. PICK l \in Level : InLevel(l)
  BY <1>4 DEF Sweeps
<1>9. l # Depth - 1 /\ l + 1 \in Level /\ ret = <<>>
  <2>1. l # Depth - 1 /\ ret = <<>>
    BY <1>1, <1>8 DEF InLevel
  <2>. QED  BY <2>1, TrieAssumption DEF Level
<1>10. ToSet(ret) = {} /\ Len(ret) = 0
  BY <1>9 DEF ToSet
<1>11. Covered'
  <2>1. (q.before \subseteq Found(q.lo, q.hi) \cap Done)'
    BY <1>2, <1>3, <1>4 DEF Covered, Found, Done
  <2>2. ASSUME NEW v \in q.before
        PROVE  Pending(v)' \/ (walk.cur # <<>> /\ Reached(v, Tail(walk.cur)))'
    <3>1. Reached(v, s)
      BY <1>1, <1>4, <1>10, <2>2 DEF Covered, Pending
    <3>2. PICK i \in 1 .. Len(s) : s[i] = NodeOf(items[v], s[i][1])
      BY <3>1 DEF Reached
    <3>3. walk'.cur # <<>>
      BY <1>1, <1>5
    <3>4. CASE i = 1
      <4>1. Pending(v)'
        BY <1>3, <1>6, <1>7, <3>2, <3>3, <3>4 DEF Pending
      <4>. QED  BY <4>1
    <3>5. CASE i - 1 \in 1 .. Len(Tail(s)) /\ Tail(s)[i - 1] = s[i]
      <4> DEFINE u == Tail(walk'.cur)
      <4>1. u = Tail(s) /\ items' = items
        BY <1>3, <1>5
      <4>2. i - 1 \in 1 .. Len(u) /\ u[i - 1] = NodeOf(items'[v], u[i - 1][1])
        BY <3>2, <3>5, <4>1
      <4> HIDE DEF u
      <4>3. \E b \in 1 .. Len(u) : u[b] = NodeOf(items'[v], u[b][1])
        BY <4>2
      <4>4. Reached(v, Tail(walk.cur))'
        BY <4>3 DEF Reached, u
      <4>. QED  BY <3>3, <4>4
    <3>. QED  BY <1>7, <3>4, <3>5
  <2>. QED  BY <1>2, <2>1, <2>2 DEF Covered
<1>12. PosOK'
  BY <1>1, <1>6 DEF PosOK, Halfway
<1>13. Sweeps'
  <2>1. InLevel(l + 1)'
    <3>1. \A i \in 1 .. Len(s) : s[i][1] = l + 1
      BY <1>8 DEF InLevel
    <3>. QED  BY <1>1, <1>5, <1>7, <1>9, <3>1 DEF InLevel
  <2>2. Leftward(walk.cur)' /\ Leftward(walk.next)'
    BY <1>4, <1>5, <1>7 DEF Sweeps, Leftward
  <2>. QED  BY <1>5, <1>7, <1>9, <2>1, <2>2 DEF Sweeps
<1>14. Returned'
  <2>1. ret' = ret
    BY <1>1
  <2>. QED  BY <1>10, <2>1 DEF Returned, Increasing
<1>. QED  BY <1>1, <1>11, <1>12, <1>13, <1>14 DEF WalkExact

-----------------------------------------------------------------------------
(* Every step keeps the invariant.                                         *)

\* What the index thread does once no flows are added.
FromWrite ==
  \/ fopen \/ computePositions \/ recountLeaf \/ fclose
  \/ \E junk \in JunkPositions :
       write2file(junk) \/ writeInterNode(junk) \/ writeLeafNode(junk) \/ destroy(junk)

LEMMA FromWritePc == ASSUME FromWrite PROVE pc' # "run"
<1>1. CASE fopen \/ fclose
  BY <1>1 DEF fopen, fclose
<1>2. CASE computePositions
  <2>1. PICK n \in ToCompute : startFill("index", n)
    BY <1>2 DEF computePositions
  <2>. QED  BY <2>1 DEF ToCompute, Reads, startFill
<1>3. CASE recountLeaf
  BY <1>3 DEF recountLeaf, startFill
<1>4. CASE \E junk \in JunkPositions : write2file(junk)
  BY <1>4 DEF write2file, crash
<1>5. CASE \E junk \in JunkPositions : writeInterNode(junk)
  BY <1>5 DEF writeInterNode, crash
<1>6. CASE \E junk \in JunkPositions : writeLeafNode(junk)
  BY <1>6 DEF writeLeafNode, crash
<1>7. CASE \E junk \in JunkPositions : destroy(junk)
  BY <1>7 DEF destroy, crash
<1>. QED  BY <1>1, <1>2, <1>3, <1>4, <1>5, <1>6, <1>7 DEF FromWrite

LEMMA IdleStep == ASSUME Core, Idle, [Next]_vars PROVE Idle'
<1>1. CASE q' = q /\ UNCHANGED <<merge, ret>>
  BY <1>1 DEF Idle
<1>2. CASE UNCHANGED vars
  BY <1>1, <1>2 DEF vars, query
<1>3. CASE GetBitPosition \/ getBitPosition \/ computePositions \/ recountLeaf
  BY <1>1, <1>3 DEF GetBitPosition, newBitPosition, readWord, storePosition, getBitPosition,
       computePositions, recountLeaf, startFill, query
<1>4. CASE newChild \/ setBit \/ newNode \/ writeData \/ countElement \/ \E k \in Keys : addItem(k)
  BY <1>1, <1>4 DEF newChild, setBit, newNode, writeData, countElement, Half, addItem, query
<1>5. CASE fopen \/ fclose \/ \E junk \in JunkPositions :
             write2file(junk) \/ writeInterNode(junk) \/ writeLeafNode(junk)
  BY <1>1, <1>5 DEF fopen, fclose, write2file, writeInterNode, writeLeafNode, crash, query
<1>6. CASE \E junk \in JunkPositions : destroy(junk)
  <2>1. \/ q' = q /\ UNCHANGED <<merge, ret>>
        \/ q.pc # "idle" /\ q' = [q EXCEPT !.pc = "dangling"]
    BY <1>6 DEF destroy, crash, query
  <2>2. q \in Query
    BY DEF Core, TypeOK, QueryOK
  <2>3. CASE q.pc # "idle" /\ q' = [q EXCEPT !.pc = "dangling"]
    <3>1. q'.pc = "dangling"
      BY <2>2, <2>3 DEF Query
    <3>. QED  BY <3>1 DEF Idle
  <2>. QED  BY <1>1, <2>1, <2>3
<1>7. CASE CommandThread
  <2>0. q \in Query
    BY DEF Core, TypeOK, QueryOK
  <2>1. CASE q'.pc # "idle"
    BY <2>1 DEF Idle
  <2>2. CASE \E r \in Ranges : queryFromMem(r)
    BY <2>1, <2>2, queryFromMemFields
  <2>3. CASE endOfNode
    BY <2>0, <2>1, <2>3, endOfNodeFields DEF endOfNode, Visits, Walks
  <2>4. CASE \E v, w \in Data : mergeTurn(v, w)
    BY <2>0, <2>1, <2>4, mergeTurnSeen DEF mergeTurn, Merges
  <2>5. CASE nextLevel \/ readElemNum \/ nextNode
    <3>1. q' = LateSeen /\ q.pc # "idle"
      BY <2>5 DEF nextLevel, readElemNum, nextNode, Walks, Merges
    <3>2. q'.pc = q.pc
      BY <2>0, <3>1, SeenFields
    <3>. QED  BY <2>1, <3>1, <3>2
  <2>6. CASE return
    BY <2>6 DEF return, Walks, Idle
  <2>7. CASE readFreed
    <3>1. q'.pc = "dangling"
      BY <2>0, <2>7 DEF readFreed, Query
    <3>. QED  BY <2>1, <3>1
  <2>8. CASE \E d \in OnePosition : seek(d)
    <3>1. q' = Seen /\ q.pc # "idle"
      BY <2>8 DEF seek, Visits, Walks
    <3>2. q'.pc = q.pc
      BY <2>0, <3>1, SeenFields
    <3>. QED  BY <2>1, <3>1, <3>2
  <2>9. CASE \E d \in OnePosition : visitInterNode(d)
    <3>1. \E x \in {"walk", "spin", "abort"} : q' = [Seen EXCEPT !.pc = x]
      BY <2>9 DEF visitInterNode
    <3>2. q'.pc # "idle"
      BY <2>0, <3>1, SeenPc
    <3>. QED  BY <2>1, <3>2
  <2>10. CASE \E d \in OnePosition : visitLeafNode(d)
    <3>1. q.pc # "idle" /\ (q' = Seen \/ \E x \in {"walk", "spin", "abort"} : q' = [Seen EXCEPT !.pc = x])
      BY <2>10 DEF visitLeafNode, Visits, Walks
    <3>2. q'.pc # "idle"
      BY <2>0, <3>1, SeenPc, SeenFields
    <3>. QED  BY <2>1, <3>2
  <2>. QED  BY <1>3, <1>7, <2>2, <2>3, <2>4, <2>5, <2>6, <2>7, <2>8, <2>9, <2>10 DEF CommandThread
<1>8. CASE IndexThread
  BY <1>3, <1>4, <1>5, <1>6, <1>8 DEF IndexThread
<1>. QED  BY <1>2, <1>3, <1>7, <1>8 DEF Next

LEMMA WalkStep == ASSUME Core, Idle, WalkExact, [Next]_vars PROVE WalkExact'
<1>1. CASE GetBitPosition \/ getBitPosition
  BY <1>1, FillStepsWalk DEF GetBitPosition, Thread
<1>2. CASE IndexThread
  <2>1. CASE FromWrite
    BY <2>1, FromWritePc DEF WalkExact, Walking
  <2>2. CASE newChild \/ setBit \/ newNode \/ writeData \/ countElement \/ \E k \in Keys : addItem(k)
    BY <2>2, AddStepsWalk
  <2>. QED  BY <1>2, <2>1, <2>2 DEF IndexThread, FromWrite
<1>3. CASE CommandThread
  <2>1. CASE \E r \in Ranges : queryFromMem(r)
    BY <2>1, queryFromMemWalk
  <2>2. CASE Visits /\ PositionReadable /\ \E d \in OnePosition : seek(d) \/ visitInterNode(d) \/ visitLeafNode(d)
    BY <2>2, seekWalk, visitInterNodeWalk, visitLeafNodeWalk
  <2>3. CASE \E v, w \in Data : mergeTurn(v, w)
    BY <2>3, mergeTurnWalk
  <2>4. CASE return
    <3>1. q'.pc = "idle"
      BY <2>4 DEF return, NoQuery
    <3>. QED  BY <3>1 DEF WalkExact, Walking
  <2>5. CASE readFreed
    <3>1. q'.pc = "dangling"
      BY <2>5 DEF readFreed, Core, TypeOK, QueryOK, Query
    <3>. QED  BY <3>1 DEF WalkExact, Walking
  <2>6. CASE endOfNode \/ nextLevel \/ readElemNum \/ nextNode
    BY <2>6, endOfNodeWalk, nextLevelWalk, readElemNumWalk, nextNodeWalk
  <2>. QED  BY <1>1, <1>3, <2>1, <2>2, <2>3, <2>4, <2>5, <2>6 DEF CommandThread
<1>4. CASE UNCHANGED vars
  <2>1. UNCHANGED <<positions, pc, q, walk, merge, ret>> /\ UNCHANGED <<child, bits, lists, ins, slot, items>>
    BY <1>4 DEF vars, query, tree
  <2>2. UNCHANGED tree
    BY <1>4 DEF vars
  <2>3. Done' = Done /\ DOMAIN items' = DOMAIN items /\ items' = items
    BY <2>1 DEF Done
  <2>. QED  BY <2>1, <2>2, <2>3, TreeWalk
<1>. QED  BY <1>1, <1>2, <1>3, <1>4 DEF Next

-----------------------------------------------------------------------------
(* What holds of the trie in memory.                                       *)

(* The invariant of the two threads of Trie.                               *)
THEOREM Invariance == Spec => []IInv
<1>1. Init => IInv
  BY CoreInit DEF Init, IInv, Idle, WalkExact, Walking, NoQuery, NoMerge
<1>2. IInv /\ [Next]_vars => IInv'
  BY CoreStep, IdleStep, WalkStep DEF IInv
<1>. QED  BY <1>1, <1>2, PTL DEF Spec

(* The loop of Trie::queryFromMem that does not advance, its failing       *)
(* assertion and the NULL pointers of write2file and ~Trie all need a node *)
(* whose bitPosition has not the positions of all its children.            *)
THEOREM FailuresNeedIncompletePositions == Spec => []FailsOnlyIncomplete
<1>1. IInv => FailsOnlyIncomplete
  BY DEF IInv, Core
<1>. QED  BY <1>1, Invariance, PTL

(* A query of the trie in memory that read positions from complete arrays  *)
(* only and was over before the write returns the flows that were there    *)
(* when it began; unless it read a value before it was written, in order,  *)
(* once, and no others than flows of the range.                            *)
THEOREM MemQueryIsExact == Spec => MemQueryExact
<1> DEFINE A == return /\ pc = "run" /\ ~q.stale /\ ~q.late
                  => /\ q.before \subseteq ToSet(ret)
                     /\ ~q.torn => /\ ToSet(ret) \subseteq Found(IF q.empty THEN 0 ELSE q.lo, q.hi)
                                   /\ ret = InOrder(ToSet(ret))
<1>1. ASSUME IInv PROVE A
  <2> SUFFICES ASSUME return, pc = "run", ~q.stale, ~q.late
               PROVE  /\ q.before \subseteq ToSet(ret)
                      /\ ~q.torn => /\ ToSet(ret) \subseteq Found(IF q.empty THEN 0 ELSE q.lo, q.hi)
                                    /\ ret = InOrder(ToSet(ret))
    OBVIOUS
  <2>1. Core /\ walk.cur = <<>> /\ walk.next = <<>> /\ q.pc \in {"walk", "spin"}
    BY <1>1 DEF return, Walks, IInv
  <2>2. q.pc = "walk"
    BY <2>1 DEF Core, FailsOnlyIncomplete
  <2>3. Covered /\ (~q.torn => Returned) /\ ret \in Seq(Nat)
    BY <1>1, <2>1, <2>2, WalkTypes DEF IInv, WalkExact, Walking
  <2>4. \A v : ~Reached(v, <<>>) /\ ~Pending(v)
    BY <2>1 DEF Reached, Pending
  <2>5. q.before \subseteq ToSet(ret)
    BY <2>1, <2>3, <2>4 DEF Covered
  <2>6. ASSUME Returned
        PROVE  /\ ToSet(ret) \subseteq Found(IF q.empty THEN 0 ELSE q.lo, q.hi)
               /\ ret = InOrder(ToSet(ret))
    <3>1. ret = Enumeration(ToSet(ret))
      BY <2>3, <2>6, EnumerationUnique DEF Returned, Increasing
    <3>2. Enumeration(ToSet(ret)) = InOrder(ToSet(ret))
      BY DEF Enumeration, InOrder, Rank, LowerThan
    <3>. QED  BY <2>6, <3>1, <3>2 DEF Returned, Low
  <2>. QED  BY <2>3, <2>5, <2>6
<1>2. IInv => [A]_vars
  BY <1>1
<1>. QED  BY <1>2, Invariance, PTL DEF MemQueryExact

-----------------------------------------------------------------------------
(* The sizes that are added up.                                            *)

LEMMA SumIs ==
    ASSUME NEW s \in Seq(Nat), NEW f \in SumsOf(s)
    PROVE  SumOf(s) = f[Len(s)]
BY SumByIs DEF SumOf, SumBy

LEMMA SumBefore ==
    ASSUME NEW s \in Seq(Nat), NEW f \in SumsOf(s), NEW i \in 1 .. Len(s)
    PROVE  SumOf(SubSeq(s, 1, i - 1)) = f[i - 1]
BY SumByBefore DEF SumOf, SumBy

\* What a leaf writes for each of its bits, and what a node writes.
KeySizes(n) ==
  [i \in 1 .. Cardinality(bits[n]) |-> ListSize(KeyOf(n, getOnePositions(bits[n])[i]))]
SizeOf(n) == HeaderSize(n) + IF ~isLeafNode(n) THEN 0 ELSE SumOf(KeySizes(n))

\* The keys below the bits of a leaf are keys with a list.
LEMMA LeafKeys ==
    ASSUME TreeOK, Linked, NEW n \in Node, isLeafNode(n)
    PROVE  /\ Cardinality(bits[n]) \in Nat
           /\ \A i \in 1 .. Cardinality(bits[n]) :
                /\ getOnePositions(bits[n])[i] \in Digit
                /\ KeyOf(n, getOnePositions(bits[n])[i]) \in Keys
<1> DEFINE s == getOnePositions(bits[n])
<1>1. bits[n] \in SUBSET Digit /\ bits[n] \subseteq child[n]
  BY DEF TreeOK, Linked
<1>2. /\ s \in Seq(Digit) /\ Cardinality(bits[n]) \in Nat /\ ToSet(s) = bits[n]
      /\ DOMAIN s = 1 .. Cardinality(bits[n])
  BY <1>1, OnePositions
<1> HIDE DEF s
<1>3. \A i \in 1 .. Cardinality(bits[n]) : s[i] \in Digit /\ s[i] \in bits[n]
  BY <1>2 DEF ToSet
<1>4. \A i \in 1 .. Cardinality(bits[n]) : KeyOf(n, s[i]) \in Keys
  BY <1>1, <1>3 DEF Linked
<1>. QED  BY <1>2, <1>3, <1>4 DEF s

LEMMA KeySizesType ==
    ASSUME TreeOK, Linked, NEW n \in Node, isLeafNode(n)
    PROVE  /\ KeySizes(n) \in Seq(Nat) /\ Len(KeySizes(n)) = Cardinality(bits[n])
           /\ \A i \in 1 .. Cardinality(bits[n]) : KeySizes(n)[i] > 0
<1> DEFINE m == Cardinality(bits[n])
<1>1. m \in Nat /\ \A i \in 1 .. m : KeyOf(n, getOnePositions(bits[n])[i]) \in Keys
  BY LeafKeys
<1>2. \A k \in Keys : ListSize(k) \in Nat /\ ListSize(k) > 0
  <2>1. \A k \in Keys : Len(lists[k]) \in Nat
    BY DEF TreeOK
  <2>. QED  BY <2>1 DEF ListSize
<1>3. \A i \in 1 .. m : KeySizes(n)[i] \in Nat /\ KeySizes(n)[i] > 0
  BY <1>1, <1>2 DEF KeySizes
<1>4. KeySizes(n) \in [1 .. m -> Nat]
  <2>1. KeySizes(n) = [i \in 1 .. m |-> KeySizes(n)[i]]
    BY DEF KeySizes
  <2> HIDE DEF m
  <2>. QED  BY <1>3, <2>1
<1> HIDE DEF m
<1>5. KeySizes(n) \in Seq(Nat) /\ Len(KeySizes(n)) = m
  BY <1>1, <1>4
<1>. QED  BY <1>3, <1>5 DEF m

LEMMA SizeType ==
    ASSUME TreeOK, Linked, NEW n \in Node
    PROVE  /\ HeaderSize(n) \in Nat /\ HeaderSize(n) > 0 /\ SizeOf(n) \in Nat
           /\ ~isLeafNode(n) => SizeOf(n) = HeaderSize(n)
           /\ isLeafNode(n) => SizeOf(n) = HeaderSize(n) + SumOf(KeySizes(n))
<1>1. HeaderSize(n) \in Nat /\ HeaderSize(n) > 0
  <2>1. elemCount(n) \in Nat
    <3>1. child[n] \in SUBSET Digit
      BY DEF TreeOK
    <3>. QED  BY <3>1, OnePositions DEF elemCount
  <2> DEFINE w == Words
             c == elemCount(n)
  <2>2. w \in Nat
    <3>1. Base + WordBits - 1 \in Nat /\ WordBits \in Nat \ {0}
      BY TrieAssumption
    <3>. QED  BY <3>1, Division DEF Words
  <2>3. HeaderSize(n) = 3 + 4 + 4 * w + 4 * c
    BY DEF HeaderSize
  <2> HIDE DEF w, c
  <2>. QED  BY <2>1, <2>2, <2>3 DEF c
<1>2. isLeafNode(n) => SumOf(KeySizes(n)) \in Nat
  <2> SUFFICES ASSUME isLeafNode(n) PROVE SumOf(KeySizes(n)) \in Nat
    OBVIOUS
  <2>1. KeySizes(n) \in Seq(Nat)
    BY KeySizesType
  <2>2. PICK f \in SumsOf(KeySizes(n)) : TRUE
    BY <2>1, SumsExist
  <2>3. SumOf(KeySizes(n)) = f[Len(KeySizes(n))]
    BY <2>1, <2>2, SumIs
  <2>4. f \in [0 .. Len(KeySizes(n)) -> Nat] /\ Len(KeySizes(n)) \in 0 .. Len(KeySizes(n))
    BY <2>1, <2>2 DEF SumsOf
  <2>. QED  BY <2>3, <2>4
<1>. QED  BY <1>1, <1>2 DEF SizeOf

\* Once no flow is added every child has its bit.
LEMMA BitsChildren ==
    ASSUME Core, pc \notin {"run", "crashed"}
    PROVE  ins = NULL /\ (\A n \in Node : bits[n] = child[n]) /\ Done = DOMAIN items
<1>1. ins = NULL
  BY NotAdding
<1>2. ASSUME NEW n \in Node PROVE bits[n] = child[n]
  <2>1. bits[n] \subseteq child[n]
    BY DEF Core, Linked
  <2>2. \A d \in child[n] \ bits[n] : FALSE
    BY <1>1 DEF Core, Settled
  <2>. QED  BY <2>1, <2>2
<1>. QED  BY <1>1, <1>2 DEF Done

\* With the positions of all children getSizeOfFile is what the node writes.
LEMMA SizeComplete ==
    ASSUME Core, pc \notin {"run", "crashed"}, NEW n \in Node, NEW junk,
           CountsByPosition(n) => (cache[n] # NULL \/ elemCount(n) = 0) /\ ~Incomplete(n)
    PROVE  getSizeOfFile(n, junk) = SizeOf(n)
<1>1. bits[n] = child[n]
  BY BitsChildren
<1>2. SizePositions(n, junk) = getOnePositions(bits[n])
  <2>1. CASE CountsByPosition(n)
    <3>1. bitPosition(n, junk) = getOnePositions(child[n])
      BY <2>1, CompletePositions DEF Core, TypeOK
    <3>. QED  BY <1>1, <2>1, <3>1 DEF SizePositions
  <2>2. CASE ~CountsByPosition(n)
    BY <2>2 DEF SizePositions
  <2>. QED  BY <2>1, <2>2
<1>3. DOMAIN getOnePositions(bits[n]) = 1 .. Cardinality(bits[n])
  BY DEF getOnePositions
<1>. QED  BY <1>2, <1>3 DEF getSizeOfFile, SizeOf, KeySizes

\* A key below a leaf has its path through the leaf.
LEMMA LeafOfKey ==
    ASSUME NEW n \in Node, isLeafNode(n), NEW d \in Digit
    PROVE  NodeOf(KeyOf(n, d), Depth - 1) = n
<1>1. /\ n[1] = Depth - 1 /\ n[2] \in Nat /\ n = <<n[1], n[2]>> /\ Depth \in Nat \ {0}
      /\ Base \in Nat \ {0} /\ d \in 0 .. Base - 1
  <2>1. PrefixCount[n[1]] \in Nat
    BY NodeShape, PrefixCountDefined, TrieAssumption DEF Level
  <2>. QED  BY <2>1, NodeShape, TrieAssumption DEF isLeafNode, Digit
<1>2. PrefixCount[Depth - (Depth - 1)] = Base
  <2>1. Depth - (Depth - 1) = 1 /\ 1 \in 1 .. Depth /\ 1 - 1 = 0
    BY <1>1
  <2>2. PrefixCount[1] = PrefixCount[1 - 1] * Base /\ PrefixCount[0] = 1
    BY <2>1, PrefixCountDefined, Zenon
  <2>. QED  BY <1>1, <2>1, <2>2
<1>3. KeyOf(n, d) \div Base = n[2]
  <2> DEFINE y == n[2]
  <2>1. y \in Nat
    BY <1>1
  <2> HIDE DEF y
  <2>2. (y * Base + d) \div Base = y
    BY <1>1, <2>1, DivisionUnique
  <2>. QED  BY <2>2 DEF KeyOf, y
<1>. QED  BY <1>1, <1>2, <1>3 DEF NodeOf

\* A node is the child of one node, by one digit.
LEMMA ChildUnique ==
    ASSUME NEW m \in Node, NEW n \in Node, NEW d \in Digit, NEW e \in Digit,
           Child(m, d) = Child(n, e)
    PROVE  m = n /\ d = e
<1>1. /\ m[1] \in Nat /\ m[2] \in Nat /\ m = <<m[1], m[2]>>
      /\ n[1] \in Nat /\ n[2] \in Nat /\ n = <<n[1], n[2]>>
      /\ Base \in Nat \ {0} /\ d \in 0 .. Base - 1 /\ e \in 0 .. Base - 1
  <2>1. \A x \in Node : x[1] \in Nat /\ x[2] \in Nat
    <3> TAKE x \in Node
    <3>1. x[1] \in Level /\ x[2] \in 0 .. PrefixCount[x[1]] - 1
      BY NodeShape
    <3>2. x[1] \in Nat /\ PrefixCount[x[1]] \in Nat
      BY <3>1, PrefixCountDefined, TrieAssumption DEF Level
    <3>. QED  BY <3>1, <3>2
  <2>. QED  BY <2>1, NodeShape, TrieAssumption DEF Digit
<1> DEFINE x == m[2]
           y == n[2]
<1>2. m[1] + 1 = n[1] + 1 /\ x * Base + d = y * Base + e
  BY DEF Child
<1>3. x \in Nat /\ y \in Nat
  BY <1>1
<1> HIDE DEF x, y
<1>4. (x * Base + d) \div Base = x /\ (x * Base + d) % Base = d
      /\ (y * Base + e) \div Base = y /\ (y * Base + e) % Base = e
  BY <1>1, <1>3, DivisionUnique
<1>5. x = y /\ d = e
  BY <1>2, <1>4, Zenon
<1>6. m[1] = n[1]
  BY <1>1, <1>2
<1>. QED  BY <1>1, <1>5, <1>6 DEF x, y

LEMMA ChildBelow ==
    ASSUME NEW n \in Node, NEW d \in Digit
    PROVE  Child(n, d) # Root
<1>1. n[1] \in Nat
  BY NodeShape, TrieAssumption DEF Level
<1>. QED  BY <1>1 DEF Child, Root

-----------------------------------------------------------------------------
(* What write2file has laid out.                                           *)

\* P is where a node is or will be in the file, D are the nodes that are
\* written, e where the nodes of the queue begin and the last one ends.
Queued(P, D, e) ==
  /\ \A i \in 1 .. Len(bq) + 1 : e[i] \in Nat
  /\ e[1] = length /\ e[Len(bq) + 1] = pos
  /\ \A i \in 1 .. Len(bq) :
       P[bq[i]] = e[i] /\ e[i + 1] = e[i] + SizeOf(bq[i]) /\ bq[i] \notin D
  /\ \A i, j \in 1 .. Len(bq) : bq[i] = bq[j] => i = j

\* The nodes that are written or queued are the root and the children of those written.
Closed(P, D) ==
  /\ Root \in D \cup ToSet(bq) /\ P[Root] = 0
  /\ \A n \in Node, d \in Digit :
       ~isLeafNode(n) => (Child(n, d) \in D \cup ToSet(bq) <=> n \in D /\ d \in bits[n])

\* An inner node has the places of its children, a leaf those of its lists,
\* which follow one another.
InnerWritten(P, n) ==
  /\ P[n] \in DOMAIN file /\ file[P[n]].set = getOnePositions(bits[n])
  /\ \A i \in 1 .. Cardinality(bits[n]) :
       file[P[n]].off[i] = P[Child(n, getOnePositions(bits[n])[i])]
HoldsFlows(s, k) ==
  s \in Seq(Nat) /\ Increasing(s) /\ ToSet(s) = {v \in DOMAIN items : items[v] = k}
ListAt(a, k) ==
  a \in DOMAIN file /\ "list" \in DOMAIN file[a] /\ HoldsFlows(file[a].list, k)
LeafWritten(P, n) ==
  /\ P[n] \in DOMAIN file /\ file[P[n]].set = getOnePositions(bits[n])
  /\ \A i \in 1 .. Cardinality(bits[n]) :
       LET a == P[n] + HeaderSize(n) + file[P[n]].off[i]
       IN /\ file[P[n]].off[i] \in Nat /\ ListAt(a, KeyOf(n, getOnePositions(bits[n])[i]))
          /\ i < Cardinality(bits[n]) =>
               file[P[n]].off[i + 1] = file[P[n]].off[i] + (4 + 8 * Len(file[a].list))
Written(P, D) ==
  /\ \A a \in DOMAIN file : a \in Nat /\ a < length
  /\ \A n \in D : IF isLeafNode(n) THEN LeafWritten(P, n) ELSE InnerWritten(P, n)

\* A leaf that is not written still has its lists.
Unwritten(D) == \A k \in Keys : NodeOf(k, Depth - 1) \notin D => ListExact(k)

Layout(P, D, e) == Queued(P, D, e) /\ Closed(P, D) /\ Written(P, D) /\ Unwritten(D)
FileLaidOut ==
  /\ pc \in {"run", "open"} => file = NULL
  /\ pc = "open" => \A k \in Keys : ListExact(k)
  /\ pc = "written" /\ file # NULL => bq = <<>>
  /\ (pc = "write" \/ (pc = "written" /\ file # NULL)) /\ intact =>
       \E P \in [Node -> Nat], D \in SUBSET Node : \E e : Layout(P, D, e)
FileInv == Core /\ FileLaidOut

LEMMA SizeKept ==
    ASSUME NEW n, UNCHANGED <<child, bits>>, isLeafNode(n) =>
             \A i \in 1 .. Cardinality(bits[n]) :
               LET k == KeyOf(n, getOnePositions(bits[n])[i]) IN lists'[k] = lists[k]
    PROVE  SizeOf(n)' = SizeOf(n) /\ HeaderSize(n)' = HeaderSize(n)
<1>1. HeaderSize(n)' = HeaderSize(n)
  BY DEF HeaderSize, elemCount
<1>2. ASSUME isLeafNode(n) PROVE KeySizes(n)' = KeySizes(n)
  BY <1>2 DEF KeySizes, ListSize
<1>. QED  BY <1>1, <1>2 DEF SizeOf

\* A step that leaves the trie and the file alone keeps the layout.
LEMMA LayoutKept ==
    ASSUME NEW P, NEW D, NEW e, Layout(P, D, e),
           UNCHANGED <<child, bits, lists, ins, items, bq, pos, file, length>>
    PROVE  Layout(P, D, e)'
<1>1. ASSUME NEW n PROVE SizeOf(n)' = SizeOf(n) /\ HeaderSize(n)' = HeaderSize(n)
  BY SizeKept
<1>2. Queued(P, D, e)'
  BY <1>1 DEF Layout, Queued
<1>3. Closed(P, D)' /\ Unwritten(D)'
  BY DEF Layout, Closed, Unwritten, ListExact, Done
<1>4. Written(P, D)'
  <2>1. Written(P, D)
    BY DEF Layout
  <2>2. \A n \in D : InnerWritten(P, n)' = InnerWritten(P, n)
    BY DEF InnerWritten
  <2>3. ASSUME NEW n \in D PROVE LeafWritten(P, n)' = LeafWritten(P, n)
    <3>1. HeaderSize(n)' = HeaderSize(n)
      BY <1>1
    <3>. QED  BY <3>1 DEF LeafWritten, ListAt, HoldsFlows
  <2>. QED  BY <2>1, <2>2, <2>3 DEF Written
<1>. QED  BY <1>2, <1>3, <1>4 DEF Layout

LEMMA FileKept ==
    ASSUME FileLaidOut, UNCHANGED <<child, bits, lists, ins, items, pc, written, intact>>
    PROVE  FileLaidOut'
<1>1. UNCHANGED <<child, bits, lists, ins, items, pc, bq, pos, file, length, intact>>
  BY DEF written
<1>2. ASSUME NEW P, NEW D, NEW e, Layout(P, D, e) PROVE Layout(P, D, e)'
  BY <1>1, <1>2, LayoutKept
<1>3. \A k \in Keys : ListExact(k)' = ListExact(k)
  BY <1>1 DEF ListExact, Done
<1>. QED  BY <1>1, <1>2, <1>3 DEF FileLaidOut

LEMMA FileInitHolds == Init => FileLaidOut
BY DEF Init, FileLaidOut

\* Before and after the trie is written there is nothing to show.
LEMMA FileOutside ==
    ASSUME FileLaidOut,
           \/ pc = "run" /\ pc' \in {"run", "written"} /\ UNCHANGED file
           \/ pc' \in {"freed", "crashed"}
    PROVE  FileLaidOut'
BY DEF FileLaidOut

LEMMA PutShape ==
    ASSUME NEW part, NEW f
    PROVE  /\ DOMAIN Put(part, f) = DOMAIN part \cup DOMAIN f
           /\ \A a \in DOMAIN part : Put(part, f)[a] = part[a]
           /\ \A a \in DOMAIN f : a \notin DOMAIN part => Put(part, f)[a] = f[a]
BY DEF Put


\* When the trie is to be written the lists hold all flows.
LEMMA fopenLays ==
    ASSUME FileInv, fopen
    PROVE  FileLaidOut'
<1>1. pc = "run" /\ pc' \in {"open", "written"} /\ UNCHANGED <<lists, ins, items, file>>
  BY DEF fopen, tree, written
<1>2. file' = NULL
  BY <1>1 DEF FileInv, FileLaidOut
<1>3. \A k \in Keys : ListExact(k)'
  BY <1>1 DEF FileInv, Core, Added, ListExact, Done
<1>. QED  BY <1>1, <1>2, <1>3 DEF FileLaidOut
\* At the beginning the root is queued and nothing is written.
LEMMA write2fileLays ==
    ASSUME FileInv, NEW junk \in JunkPositions, write2file(junk)
    PROVE  FileLaidOut'
<1>1. CASE crash
  BY <1>1, FileOutside DEF FileInv, crash
<1>2. CASE /\ pc' = "write" /\ bq' = <<Root>> /\ pos' = getSizeOfFile(Root, junk)
           /\ file' = <<>> /\ length' = 0
           /\ UNCHANGED <<tree, positions, query>>
  <2> SUFFICES ASSUME intact'
               PROVE  (\E P \in [Node -> Nat], D \in SUBSET Node : \E e : Layout(P, D, e))'
    BY <1>2 DEF FileLaidOut
  <2>1. UNCHANGED <<child, bits, lists, ins, items>>
    BY <1>2 DEF tree
  <2>2. pc = "open" /\ Ready /\ Reads = Sized({Root}) /\ \A n \in Reads : ~Incomplete(n)
    BY <1>2 DEF write2file, Reads, Intact
  <2>3. Root \in Node /\ pos' = SizeOf(Root) /\ SizeOf(Root) \in Nat
    <3>1. ASSUME CountsByPosition(Root)
          PROVE  (cache[Root] # NULL \/ elemCount(Root) = 0) /\ ~Incomplete(Root)
      <4>1. Root \in Reads
        BY <2>2, <3>1 DEF Sized
      <4>. QED  BY <2>2, <4>1, ReadPositions, RootNode DEF FileInv
    <3>2. getSizeOfFile(Root, junk) = SizeOf(Root)
      BY <2>2, <3>1, RootNode, SizeComplete DEF FileInv
    <3>. QED  BY <1>2, <3>2, RootNode, SizeType DEF FileInv, Core, TypeOK
  <2>4. SizeOf(Root)' = SizeOf(Root)
    BY <2>1, SizeKept
  <2>5. PICK p \in Nat : p = pos'
    BY <2>3
  <2> DEFINE P == [n \in Node |-> 0]
             e == <<0, p>>
  <2>6. bq' = <<Root>> /\ Len(<<Root>>) = 1 /\ e[1] = 0 /\ e[2] = p /\ ToSet(<<Root>>) = {Root}
        /\ <<Root>>[1] = Root
    BY <1>2 DEF ToSet
  <2>7. Queued(P, {}, e)'
    <3>1. \A i \in 1 .. Len(<<Root>>) : i = 1
      BY <2>6
    <3>2. P[Root] = 0 /\ p = 0 + SizeOf(Root)'
      BY <2>3, <2>4, <2>5
    <3>3. \A i \in 1 .. Len(<<Root>>) + 1 : e[i] \in Nat
      BY <2>6
    <3>4. 1 + 1 = 2
      OBVIOUS
    <3> HIDE DEF e, P
    <3>. QED  BY <1>2, <2>5, <2>6, <3>1, <3>2, <3>3, <3>4 DEF Queued
  <2>8. Closed(P, {})'
    <3>1. \A n \in Node, d \in Digit : Child(n, d) # Root
      BY ChildBelow
    <3>2. P[Root] = 0
      BY <2>3
    <3> HIDE DEF e, P
    <3>. QED  BY <2>6, <3>1, <3>2 DEF Closed
  <2>9. Written(P, {})'
    BY <1>2 DEF Written
  <2>10. Unwritten({})'
    <3>1. \A k \in Keys : ListExact(k)
      BY <2>2 DEF FileInv, FileLaidOut
    <3>. QED  BY <2>1, <3>1 DEF Unwritten, ListExact, Done
  <2>11. P \in [Node -> Nat] /\ {} \in SUBSET Node
    OBVIOUS
  <2>12. Layout(P, {}, e)'
    BY <2>7, <2>8, <2>9, <2>10 DEF Layout
  <2> HIDE DEF P, e
  <2>. QED  BY <2>11, <2>12
<1>. QED  BY <1>1, <1>2 DEF write2file

\* At the end the queue is empty.
LEMMA fcloseLays ==
    ASSUME FileInv, fclose
    PROVE  FileLaidOut'
<1>1. /\ pc = "write" /\ bq = <<>> /\ pc' = "written"
      /\ UNCHANGED <<child, bits, lists, ins, items, bq, pos, file, length, intact>>
  BY DEF fclose, tree, written
<1>2. ASSUME NEW P, NEW D, NEW e, Layout(P, D, e) PROVE Layout(P, D, e)'
  BY <1>1, <1>2, LayoutKept
<1>. QED  BY <1>1, <1>2 DEF FileInv, FileLaidOut

\* P gives the places g to the N nodes c and agrees with F elsewhere.
Placed(P, F, N, c, g) ==
  /\ \A i \in 1 .. N : P[c[i]] = g[i]
  /\ \A n \in Node : (\A i \in 1 .. N : n # c[i]) => P[n] = F[n]

LEMMA PlacesAdded ==
    ASSUME NEW F \in [Node -> Nat], NEW N \in Nat,
           NEW c \in [1 .. N -> Node], NEW g \in [1 .. N -> Nat],
           \A i, j \in 1 .. N : c[i] = c[j] => i = j
    PROVE  \E P \in [Node -> Nat] : Placed(P, F, N, c, g)
<1> DEFINE at(n) == CHOOSE i \in 1 .. N : c[i] = n
           P == [n \in Node |-> IF \E i \in 1 .. N : c[i] = n THEN g[at(n)] ELSE F[n]]
<1>1. ASSUME NEW i \in 1 .. N PROVE at(c[i]) = i
  <2>1. at(c[i]) \in 1 .. N /\ c[at(c[i])] = c[i]
    OBVIOUS
  <2> HIDE DEF at
  <2>. QED  BY <2>1
<1>2. ASSUME NEW n \in Node, \E i \in 1 .. N : c[i] = n PROVE at(n) \in 1 .. N
  BY <1>2
<1> HIDE DEF at
<1>3. P \in [Node -> Nat]
  BY <1>2
<1>4. \A i \in 1 .. N : P[c[i]] = g[i]
  BY <1>1
<1>5. \A n \in Node : (\A i \in 1 .. N : n # c[i]) => P[n] = F[n]
  OBVIOUS
<1> HIDE DEF P
<1>. QED  BY <1>3, <1>4, <1>5 DEF Placed

\* What is written of a node stays when parts are added to the file.
LEMMA InnerStays ==
    ASSUME NEW F, NEW P, NEW n, UNCHANGED bits, InnerWritten(F, n), P[n] = F[n],
           \A a \in DOMAIN file : a \in DOMAIN file' /\ file'[a] = file[a],
           \A i \in 1 .. Cardinality(bits[n]) :
             LET m == Child(n, getOnePositions(bits[n])[i]) IN P[m] = F[m]
    PROVE  InnerWritten(P, n)'
<1>1. F[n] \in DOMAIN file /\ file[F[n]].set = getOnePositions(bits[n])
  BY DEF InnerWritten
<1>2. F[n] \in DOMAIN file' /\ file'[F[n]] = file[F[n]]
  BY <1>1
<1>3. \A i \in 1 .. Cardinality(bits[n]) :
        file'[P[n]].off[i] = P[Child(n, getOnePositions(bits[n])[i])]
  BY <1>2 DEF InnerWritten
<1>. QED  BY <1>1, <1>2, <1>3 DEF InnerWritten

LEMMA LeafStays ==
    ASSUME NEW F, NEW P, NEW n, UNCHANGED <<child, bits, items>>, LeafWritten(F, n), P[n] = F[n],
           \A a \in DOMAIN file : a \in DOMAIN file' /\ file'[a] = file[a]
    PROVE  LeafWritten(P, n)'
<1> DEFINE at(i) == F[n] + HeaderSize(n) + file[F[n]].off[i]
           key(i) == KeyOf(n, getOnePositions(bits[n])[i])
<1>1. F[n] \in DOMAIN file /\ file[F[n]].set = getOnePositions(bits[n])
  BY DEF LeafWritten
<1>2. F[n] \in DOMAIN file' /\ file'[F[n]] = file[F[n]]
  BY <1>1
<1>3. HeaderSize(n)' = HeaderSize(n)
  BY DEF HeaderSize, elemCount
<1>4. ASSUME NEW i \in 1 .. Cardinality(bits[n])
      PROVE  /\ file[F[n]].off[i] \in Nat /\ ListAt(at(i), key(i))
             /\ i < Cardinality(bits[n]) =>
                  file[F[n]].off[i + 1] = file[F[n]].off[i] + (4 + 8 * Len(file[at(i)].list))
  BY DEF LeafWritten
<1> HIDE DEF key
<1>5. ASSUME NEW i \in 1 .. Cardinality(bits[n])
      PROVE  LET a == P[n] + HeaderSize(n)' + file'[P[n]].off[i]
             IN  /\ file'[P[n]].off[i] \in Nat
                 /\ a \in DOMAIN file' /\ "list" \in DOMAIN file'[a]
                 /\ file'[a].list \in Seq(Nat) /\ Increasing(file'[a].list)
                 /\ ToSet(file'[a].list) = {v \in DOMAIN items' : items'[v] = key(i)}
                 /\ i < Cardinality(bits[n]) =>
                      file'[P[n]].off[i + 1] = file'[P[n]].off[i] + (4 + 8 * Len(file'[a].list))
  <2>1. P[n] + HeaderSize(n)' + file'[P[n]].off[i] = at(i)
    BY <1>2, <1>3
  <2> HIDE DEF at
  <2>2. at(i) \in DOMAIN file /\ "list" \in DOMAIN file[at(i)] /\ HoldsFlows(file[at(i)].list, key(i))
    BY <1>4 DEF ListAt
  <2>3. at(i) \in DOMAIN file' /\ file'[at(i)] = file[at(i)]
    BY <2>2
  <2>. QED  BY <1>2, <1>4, <2>1, <2>2, <2>3 DEF HoldsFlows
<1>. QED  BY <1>1, <1>2, <1>5 DEF LeafWritten, ListAt, HoldsFlows, key

\* The bits of a node and the children below them.
LEMMA BitsOfNode ==
    ASSUME TreeOK, NEW n \in Node
    PROVE  LET s == getOnePositions(bits[n])
           IN  /\ Cardinality(bits[n]) \in Nat /\ DOMAIN s = 1 .. Cardinality(bits[n])
               /\ \A i \in 1 .. Cardinality(bits[n]) : s[i] \in Digit /\ s[i] \in bits[n]
               /\ \A d \in bits[n] : \E i \in 1 .. Cardinality(bits[n]) : s[i] = d
               /\ \A i, j \in 1 .. Cardinality(bits[n]) : s[i] = s[j] => i = j
<1> DEFINE s == getOnePositions(bits[n])
<1>1. bits[n] \in SUBSET Digit /\ Digit \subseteq Nat
  BY TrieAssumption DEF TreeOK, Digit
<1>2. /\ s \in Seq(Digit) /\ Cardinality(bits[n]) \in Nat /\ ToSet(s) = bits[n]
      /\ DOMAIN s = 1 .. Cardinality(bits[n])
      /\ \A i, j \in 1 .. Cardinality(bits[n]) : i < j => s[i] < s[j]
  BY <1>1, OnePositions
<1> HIDE DEF s
<1>3. \A i \in 1 .. Cardinality(bits[n]) : s[i] \in Digit /\ s[i] \in bits[n]
  BY <1>2 DEF ToSet
<1>4. \A d \in bits[n] : \E i \in 1 .. Cardinality(bits[n]) : s[i] = d
  BY <1>2 DEF ToSet
<1>5. \A i, j \in 1 .. Cardinality(bits[n]) : s[i] = s[j] => i = j
  <2>1. \A i \in 1 .. Cardinality(bits[n]) : s[i] \in Nat
    BY <1>1, <1>3
  <2>. QED  BY <1>2, <2>1
<1>. QED  BY <1>2, <1>3, <1>4, <1>5 DEF s

LEMMA Joined ==
    ASSUME NEW s \in Seq(Node), NEW t \in Seq(Node)
    PROVE  /\ Len(s) \in Nat /\ Len(t) \in Nat /\ Len(s \o t) = Len(s) + Len(t)
           /\ \A i \in 1 .. Len(s) : (s \o t)[i] = s[i] /\ i \in 1 .. Len(s \o t)
           /\ \A i \in 1 .. Len(t) : (s \o t)[Len(s) + i] = t[i] /\ Len(s) + i \in 1 .. Len(s \o t)
           /\ \A i \in 1 .. Len(s \o t) :
                \/ i \in 1 .. Len(s)
                \/ \E j \in 1 .. Len(t) : i = Len(s) + j
<1>1. \A i \in 1 .. Len(s \o t) : i \in 1 .. Len(s) \/ (i - Len(s) \in 1 .. Len(t) /\ i = Len(s) + (i - Len(s)))
  OBVIOUS
<1>. QED  BY <1>1

\* The queue of a node whose first is cur, when c is appended to the rest.
LEMMA QueueStep ==
    ASSUME NEW b \in Seq(Node), b # <<>>, NEW c \in Seq(Node)
    PROVE  LET u == Tail(b) \o c
           IN  /\ Len(b) \in Nat /\ Len(b) >= 1 /\ Len(c) \in Nat /\ Head(b) = b[1]
               /\ Len(u) = Len(b) - 1 + Len(c)
               /\ \A i \in 1 .. Len(b) - 1 : u[i] = b[i + 1]
               /\ \A i \in 1 .. Len(c) : u[Len(b) - 1 + i] = c[i]
               /\ \A i \in 1 .. Len(u) :
                    \/ i \in 1 .. Len(b) - 1
                    \/ \E j \in 1 .. Len(c) : i = Len(b) - 1 + j
               /\ b[1] \in Node
<1>1. Len(b) \in Nat /\ Len(b) >= 1 /\ Len(c) \in Nat /\ Head(b) = b[1] /\ b[1] \in Node
  OBVIOUS
<1> DEFINE t == Tail(b)
<1>2. t \in Seq(Node) /\ Len(t) = Len(b) - 1 /\ \A i \in 1 .. Len(b) - 1 : t[i] = b[i + 1]
  OBVIOUS
<1> HIDE DEF t
<1>3. /\ Len(t \o c) = Len(t) + Len(c)
      /\ \A i \in 1 .. Len(t) : (t \o c)[i] = t[i]
      /\ \A i \in 1 .. Len(c) : (t \o c)[Len(t) + i] = c[i]
  BY <1>2, Joined
<1>4. ASSUME NEW i \in 1 .. Len(b) - 1 + Len(c), i \notin 1 .. Len(b) - 1
      PROVE  \E j \in 1 .. Len(c) : i = Len(b) - 1 + j
  <2>1. i - (Len(b) - 1) \in 1 .. Len(c) /\ i = Len(b) - 1 + (i - (Len(b) - 1))
    BY <1>1, <1>4
  <2>. QED  BY <2>1
<1>. QED  BY <1>1, <1>2, <1>3, <1>4 DEF t

\* What writeInterNode writes when it read complete positions.
LEMMA InterNodeWrites ==
    ASSUME FileInv, NEW junk \in JunkPositions, writeInterNode(junk), pc' # "crashed", intact',
           NEW cur, cur = Head(bq), NEW s, s = getOnePositions(bits[cur])
    PROVE  LET c == [i \in DOMAIN s |-> Child(cur, s[i])]
               size == [i \in DOMAIN s |-> SizeOf(c[i])]
               offset == [i \in DOMAIN s |-> pos + SumOf(SubSeq(size, 1, i - 1))]
           IN  /\ bq' = Tail(bq) \o c /\ pos' = pos + SumOf(size)
               /\ file' = Put([a \in {length} |-> [leaf |-> FALSE, set |-> s, off |-> offset]], file)
               /\ length' = length + HeaderSize(cur)
               /\ c \in Seq(Node) /\ Len(c) = Cardinality(bits[cur])
               /\ size \in Seq(Nat) /\ Len(size) = Cardinality(bits[cur])
<1>1. /\ pc = "write" /\ bq # <<>> /\ ~isLeafNode(cur) /\ cur \in Node
  BY QueueNodes DEF writeInterNode, FileInv, Core, TypeOK
<1>2. /\ cache[cur] # NULL \/ elemCount(cur) = 0
      /\ ~Incomplete(cur)
      /\ \A d \in child[cur] :
           LET c == Child(cur, d)
           IN CountsByPosition(c) => (cache[c] # NULL \/ elemCount(c) = 0) /\ ~Incomplete(c)
  BY writeInterNodeReads DEF FileInv
<1>2a. bits[cur] = child[cur] /\ pc \notin {"run", "crashed"}
  BY <1>1, BitsChildren DEF FileInv
<1>3. bitPosition(cur, junk) = s
  BY <1>1, <1>2, <1>2a, CompletePositions DEF FileInv, Core, TypeOK
<1>4. /\ Cardinality(bits[cur]) \in Nat /\ DOMAIN s = 1 .. Cardinality(bits[cur])
      /\ \A i \in 1 .. Cardinality(bits[cur]) : s[i] \in Digit /\ s[i] \in bits[cur]
  BY <1>1, BitsOfNode DEF FileInv, Core, TypeOK
<1> DEFINE K == Cardinality(bits[cur])
           c == [i \in DOMAIN s |-> Child(cur, s[i])]
           size == [i \in DOMAIN s |-> SizeOf(c[i])]
           old == [i \in DOMAIN s |-> getSizeOfFile(c[i], junk)]
<1>5. \A i \in 1 .. K : c[i] \in Node /\ c[i] = Child(cur, s[i])
  BY <1>1, <1>4, ChildNode
<1>6. c \in Seq(Node) /\ Len(c) = K
  <2>1. c \in [1 .. K -> Node]
    BY <1>4, <1>5
  <2> HIDE DEF c
  <2>. QED  BY <1>4, <2>1
<1> HIDE DEF c
<1>7. ASSUME NEW i \in 1 .. K PROVE getSizeOfFile(c[i], junk) = SizeOf(c[i]) /\ SizeOf(c[i]) \in Nat
  <2>1. c[i] \in Node /\ s[i] \in child[cur] /\ c[i] = Child(cur, s[i])
    BY <1>4, <1>5, <1>2a
  <2>2. CountsByPosition(c[i]) => (cache[c[i]] # NULL \/ elemCount(c[i]) = 0) /\ ~Incomplete(c[i])
    BY <1>2, <2>1
  <2>. QED  BY <1>2a, <2>1, <2>2, SizeComplete, SizeType DEF FileInv, Core, TypeOK
<1>8. old = size
  BY <1>4, <1>7
<1>9. size \in Seq(Nat) /\ Len(size) = K
  <2>1. size \in [1 .. K -> Nat]
    BY <1>4, <1>7
  <2> HIDE DEF size
  <2>. QED  BY <1>4, <2>1
<1>10. LET offset == [i \in DOMAIN s |-> pos + SumOf(SubSeq(old, 1, i - 1))]
       IN  /\ bq' = Tail(bq) \o c /\ pos' = pos + SumOf(old)
           /\ file' = Put([a \in {length} |-> [leaf |-> FALSE, set |-> s, off |-> offset]], file)
           /\ length' = length + HeaderSize(cur)
  BY <1>3 DEF writeInterNode, crash, c
<1> HIDE DEF size, old
<1>. QED  BY <1>6, <1>8, <1>9, <1>10 DEF c, size

\* The nodes of a queue are those at its places.
LEMMA QueueSet ==
    ASSUME NEW b \in Seq(Node)
    PROVE  ToSet(b) = {b[i] : i \in 1 .. Len(b)}
<1>1. DOMAIN b = 1 .. Len(b)
  OBVIOUS
<1>. QED  BY <1>1, Zenon DEF ToSet

\* The children of the node that is written go to the end of the queue.
LEMMA writeInterNodeLays ==
    ASSUME FileInv, NEW junk \in JunkPositions, writeInterNode(junk)
    PROVE  FileLaidOut'
<1>1. CASE pc' = "crashed"
  BY <1>1, FileOutside DEF FileInv
<1>2. CASE pc' # "crashed"
  <2>1. /\ pc = "write" /\ bq # <<>> /\ ~isLeafNode(Head(bq)) /\ (intact' => intact)
        /\ pc' = "write" /\ UNCHANGED <<child, bits, lists, ins, items>>
    BY <1>2 DEF writeInterNode, crash, tree, Intact
  <2> SUFFICES ASSUME intact'
               PROVE  (\E P \in [Node -> Nat], D \in SUBSET Node : \E e : Layout(P, D, e))'
    BY <2>1 DEF FileLaidOut
  <2>2. PICK F \in [Node -> Nat], D \in SUBSET Node : \E e : Layout(F, D, e)
    BY <2>1 DEF FileInv, FileLaidOut
  <2>3. PICK e0 : Layout(F, D, e0)
    BY <2>2
  <2>4. PICK cur : cur = Head(bq)
    OBVIOUS
  <2>5. PICK s : s = getOnePositions(bits[cur])
    OBVIOUS
  <2>6. PICK c : c = [i \in DOMAIN s |-> Child(cur, s[i])]
    OBVIOUS
  <2>7. PICK size : size = [i \in DOMAIN s |-> SizeOf(c[i])]
    OBVIOUS
  <2>8. PICK offset : offset = [i \in DOMAIN s |-> pos + SumOf(SubSeq(size, 1, i - 1))]
    OBVIOUS
  <2>9. /\ bq' = Tail(bq) \o c /\ pos' = pos + SumOf(size)
        /\ file' = Put([a \in {length} |-> [leaf |-> FALSE, set |-> s, off |-> offset]], file)
        /\ length' = length + HeaderSize(cur)
        /\ c \in Seq(Node) /\ Len(c) = Cardinality(bits[cur])
        /\ size \in Seq(Nat) /\ Len(size) = Cardinality(bits[cur])
    BY <1>2, <2>4, <2>5, <2>6, <2>7, <2>8, InterNodeWrites
  <2>10. PICK K \in Nat : K = Cardinality(bits[cur]) /\ K = Len(c)
    BY <2>9
  <2>11. bq \in Seq(Node) /\ TypeOK /\ TreeOK /\ Linked
    BY DEF FileInv, Core, TypeOK, WriteOK
  <2>12. PICK m \in Nat : m = Len(bq) /\ m >= 1
    <3>1. Len(bq) \in Nat /\ Len(bq) >= 1
      BY <2>1, <2>11
    <3>. QED  BY <3>1
  <2>13. PICK u : u = bq'
    OBVIOUS
  <2>14. /\ Len(u) = m - 1 + K /\ cur = bq[1] /\ cur \in Node
         /\ \A i \in 1 .. m - 1 : u[i] = bq[i + 1]
         /\ \A i \in 1 .. K : u[m - 1 + i] = c[i]
         /\ \A i \in 1 .. m - 1 + K : \/ i \in 1 .. m - 1
                                      \/ \E j \in 1 .. K : i = m - 1 + j
    <3>1. /\ Len(u) = Len(bq) - 1 + Len(c) /\ Head(bq) = bq[1] /\ bq[1] \in Node
          /\ \A i \in 1 .. Len(bq) - 1 : u[i] = bq[i + 1]
          /\ \A i \in 1 .. Len(c) : u[Len(bq) - 1 + i] = c[i]
          /\ \A i \in 1 .. Len(u) : \/ i \in 1 .. Len(bq) - 1
                                   \/ \E j \in 1 .. Len(c) : i = Len(bq) - 1 + j
      <4>1. u = Tail(bq) \o c
        BY <2>9, <2>13
      <4>. QED  BY <2>1, <2>9, <2>11, <4>1, QueueStep
    <3>. QED  BY <2>4, <2>10, <2>12, <2>13, <3>1, Zenon
  <2>15. /\ DOMAIN s = 1 .. K /\ \A i \in 1 .. K : s[i] \in Digit /\ s[i] \in bits[cur]
         /\ \A d \in bits[cur] : \E i \in 1 .. K : s[i] = d
         /\ \A i, j \in 1 .. K : s[i] = s[j] => i = j
    <3> DEFINE t == getOnePositions(bits[cur])
               C == Cardinality(bits[cur])
    <3>1. /\ DOMAIN t = 1 .. C /\ \A i \in 1 .. C : t[i] \in Digit /\ t[i] \in bits[cur]
          /\ \A d \in bits[cur] : \E i \in 1 .. C : t[i] = d
          /\ \A i, j \in 1 .. C : t[i] = t[j] => i = j
      BY <2>11, <2>14, BitsOfNode
    <3>2. s = t /\ K = C
      BY <2>5, <2>10
    <3> HIDE DEF t, C
    <3>. QED  BY <3>1, <3>2
  <2>16. PICK f \in SumsOf(size) : TRUE
    BY <2>9, SumsExist
  <2>17. /\ f \in [0 .. K -> Nat] /\ f[0] = 0 /\ \A i \in 1 .. K : f[i] = f[i - 1] + size[i]
         /\ SumOf(size) = f[K] /\ \A i \in 1 .. K : SumOf(SubSeq(size, 1, i - 1)) = f[i - 1]
    <3>1. Len(size) = K
      BY <2>9, <2>10
    <3>. QED  BY <2>9, <2>16, <3>1, SumIs, SumBefore DEF SumsOf
  <2>18. /\ \A i \in 1 .. K : c[i] \in Node /\ c[i] = Child(cur, s[i]) /\ size[i] = SizeOf(c[i])
         /\ \A i \in 1 .. K : offset[i] = pos + f[i - 1]
    <3>1. \A i \in 1 .. K : c[i] \in Node
      BY <2>9, <2>10
    <3>. QED  BY <2>6, <2>7, <2>8, <2>15, <2>17, <3>1
  <2>19. /\ \A i \in 1 .. m + 1 : e0[i] \in Nat
         /\ e0[1] = length /\ e0[m + 1] = pos
         /\ \A i \in 1 .. m : F[bq[i]] = e0[i] /\ e0[i + 1] = e0[i] + SizeOf(bq[i]) /\ bq[i] \notin D
         /\ \A i, j \in 1 .. m : bq[i] = bq[j] => i = j
    BY <2>3, <2>12, Zenon DEF Layout, Queued
  <2>20. /\ Root \in D \cup ToSet(bq) /\ F[Root] = 0
         /\ \A n \in Node, d \in Digit :
              ~isLeafNode(n) => (Child(n, d) \in D \cup ToSet(bq) <=> n \in D /\ d \in bits[n])
    BY <2>3, Zenon DEF Layout, Closed
  <2>21. ToSet(bq) = {bq[i] : i \in 1 .. m} /\ ToSet(u) = {u[i] : i \in 1 .. m - 1 + K}
    <3>1. u \in Seq(Node)
      BY <2>9, <2>11, <2>1, <2>13, QueueNodes
    <3>. QED  BY <2>11, <2>12, <2>14, <3>1, QueueSet
\* The children are new.
  <2>22. cur \notin D /\ cur \in ToSet(bq)
    <3>1. 1 \in 1 .. m
      BY <2>12
    <3>. QED  BY <2>14, <2>19, <2>21, <3>1
  <2>23. \A i \in 1 .. K : c[i] \notin D /\ c[i] \notin ToSet(bq) /\ c[i] # Root
    BY <2>1, <2>4, <2>14, <2>15, <2>18, <2>20, <2>22, ChildBelow
  <2>24. \A i, j \in 1 .. K : c[i] = c[j] => i = j
    <3> SUFFICES ASSUME NEW i \in 1 .. K, NEW j \in 1 .. K, c[i] = c[j] PROVE i = j
      OBVIOUS
    <3>1. s[i] \in Digit /\ s[j] \in Digit /\ Child(cur, s[i]) = Child(cur, s[j])
      BY <2>15, <2>18
    <3>2. s[i] = s[j]
      BY <2>14, <3>1, ChildUnique
    <3>. QED  BY <2>15, <3>2
  <2>25. pos \in Nat /\ \A j \in 0 .. K : f[j] \in Nat /\ pos + f[j] \in Nat
    <3>1. m + 1 \in 1 .. m + 1
      BY <2>12
    <3>2. pos \in Nat
      BY <2>19, <3>1
    <3>. QED  BY <2>17, <3>2
\* The places of the children follow the queue.
  <2>26. PICK P \in [Node -> Nat] :
           /\ \A i \in 1 .. K : P[c[i]] = pos + f[i - 1]
           /\ \A n \in Node : (\A i \in 1 .. K : n # c[i]) => P[n] = F[n]
    <3> DEFINE g == [i \in 1 .. K |-> pos + f[i - 1]]
    <3>1. \A i \in 1 .. K : i - 1 \in 0 .. K
      BY <2>10
    <3>2. \A i \in 1 .. K : g[i] \in Nat /\ g[i] = pos + f[i - 1]
      BY <2>25, <3>1
    <3>4. g \in [1 .. K -> Nat]
      BY <3>2
    <3> HIDE DEF g
    <3>3. \E P \in [Node -> Nat] : Placed(P, F, K, c, g)
      <4>1. c \in [1 .. K -> Node]
        BY <2>9, <2>10
      <4>. QED  BY <2>24, <3>4, <4>1, PlacesAdded
    <3>. QED  BY <3>2, <3>3 DEF Placed
  <2>27. \A n \in D \cup ToSet(bq) : n \in Node /\ P[n] = F[n]
    <3>1. \A n \in D \cup ToSet(bq) : n \in Node
      BY <2>2, <2>11, <2>12, <2>21
    <3>. QED  BY <2>23, <2>26, <3>1
  <2>28. PICK e : e = [i \in 1 .. m + K |-> IF i <= m THEN e0[i + 1] ELSE pos + f[i - m]]
    OBVIOUS
  <2>29. \A i \in 1 .. m : e[i] = e0[i + 1]
    BY <2>10, <2>12, <2>28
  <2>30. \A j \in 0 .. K : e[m + j] = pos + f[j]
    <3> TAKE j \in 0 .. K
    <3>1. CASE j = 0
      <4>1. m \in 1 .. m /\ m + 0 = m
        BY <2>12
      <4>2. pos + f[0] = pos
        BY <2>17, <2>25
      <4>. QED  BY <2>19, <2>29, <3>1, <4>1, <4>2
    <3>2. CASE j # 0
      <4>1. m + j \in 1 .. m + K /\ ~(m + j <= m) /\ (m + j) - m = j
        BY <2>10, <2>12, <3>2
      <4>. QED  BY <2>28, <4>1
    <3>. QED  BY <3>1, <3>2
  <2>31. \A n \in Node : SizeOf(n)' = SizeOf(n) /\ HeaderSize(n)' = HeaderSize(n)
    BY <2>1, SizeKept
  <2>32. /\ length \in Nat /\ HeaderSize(cur) \in Nat /\ HeaderSize(cur) > 0
         /\ SizeOf(cur) = HeaderSize(cur) /\ length' = length + SizeOf(cur) /\ length < length'
    <3>1. 1 \in 1 .. m + 1
      BY <2>12
    <3>2. length \in Nat
      BY <2>19, <3>1
    <3>3. HeaderSize(cur) \in Nat /\ HeaderSize(cur) > 0 /\ SizeOf(cur) = HeaderSize(cur)
      BY <2>1, <2>4, <2>11, <2>14, SizeType
    <3>. QED  BY <2>9, <3>2, <3>3
  <2> DEFINE E == D \cup {cur}
  <2>33. Queued(P, E, e)'
    <3>1. \A i \in 1 .. m + K : e[i] \in Nat
      <4> TAKE i \in 1 .. m + K
      <4>1. CASE i \in 1 .. m
        <5>1. i + 1 \in 1 .. m + 1
          BY <4>1
        <5>. QED  BY <2>19, <2>29, <4>1, <5>1
      <4>2. CASE i \notin 1 .. m
        <5>1. i - m \in 0 .. K /\ m + (i - m) = i
          BY <2>10, <2>12, <4>2
        <5>2. e[i] = pos + f[i - m] /\ pos + f[i - m] \in Nat
          BY <2>25, <2>30, <5>1
        <5>. QED  BY <5>2
      <4>. QED  BY <4>1, <4>2
    <3>2. e[1] = length' /\ e[m + K] = pos'
      <4>1. 1 \in 1 .. m /\ K \in 0 .. K /\ 1 + 1 = 2
        BY <2>10, <2>12
      <4>2. e[1] = e0[1 + 1] /\ e0[1 + 1] = e0[1] + SizeOf(bq[1])
        BY <2>19, <2>29, <4>1
      <4>. QED  BY <2>9, <2>14, <2>17, <2>19, <2>30, <2>32, <4>1, <4>2
    <3>3. ASSUME NEW i \in 1 .. m - 1
          PROVE  /\ P[u[i]] = e[i] /\ e[i + 1] = e[i] + SizeOf(u[i]) /\ u[i] \notin E
                 /\ u[i] \in ToSet(bq)
      <4>1. i \in 1 .. m /\ i + 1 \in 1 .. m /\ u[i] = bq[i + 1] /\ i + 1 # 1 /\ 1 \in 1 .. m
        BY <2>12, <2>14
      <4>2. bq[i + 1] \in ToSet(bq) /\ bq[i + 1] \notin D /\ bq[i + 1] # cur
        BY <2>14, <2>19, <2>21, <4>1
      <4>3. P[bq[i + 1]] = e0[i + 1]
        BY <2>19, <2>27, <4>1, <4>2
      <4>4. e[i] = e0[i + 1] /\ e[i + 1] = e0[(i + 1) + 1]
        BY <2>29, <4>1
      <4>. QED  BY <2>19, <4>1, <4>2, <4>3, <4>4
    <3>4. ASSUME NEW j \in 1 .. K
          PROVE  /\ P[c[j]] = e[m - 1 + j] /\ e[(m - 1 + j) + 1] = e[m - 1 + j] + SizeOf(c[j])
                 /\ c[j] \notin E
      <4>1. j \in 0 .. K /\ j - 1 \in 0 .. K /\ m - 1 + j = m + (j - 1) /\ (m - 1 + j) + 1 = m + j
        BY <2>12
      <4>2. e[m + (j - 1)] = pos + f[j - 1] /\ e[m + j] = pos + f[j]
        BY <2>30, <4>1
      <4>3. f[j] = f[j - 1] + SizeOf(c[j]) /\ f[j - 1] \in Nat /\ pos \in Nat
        BY <2>17, <2>18, <2>25, <4>1
      <4>4. SizeOf(c[j]) \in Nat
        BY <2>11, <2>18, SizeType
      <4>5. pos + f[j] = (pos + f[j - 1]) + SizeOf(c[j])
        <5> DEFINE x == f[j - 1]
                   y == f[j]
                   z == SizeOf(c[j])
        <5>1. y = x + z /\ x \in Nat /\ z \in Nat /\ pos \in Nat
          BY <4>3, <4>4
        <5> HIDE DEF x, y, z
        <5>2. pos + y = (pos + x) + z
          BY <5>1
        <5>. QED  BY <5>2 DEF x, y, z
      <4>6. c[j] \notin E
        BY <2>22, <2>23
      <4>. QED  BY <2>26, <4>1, <4>2, <4>5, <4>6, Zenon
    <3>5. ASSUME NEW i \in 1 .. m - 1 + K
          PROVE  P[u[i]] = e[i] /\ e[i + 1] = e[i] + SizeOf(u[i])' /\ u[i] \notin E
      <4>1. CASE i \in 1 .. m - 1
        <5>1. u[i] \in Node
          BY <2>27, <3>3, <4>1
        <5>. QED  BY <2>31, <3>3, <4>1, <5>1
      <4>2. CASE \E j \in 1 .. K : i = m - 1 + j
        <5>1. PICK j \in 1 .. K : i = m - 1 + j
          BY <4>2
        <5>2. u[i] = c[j] /\ c[j] \in Node
          BY <2>14, <2>18, <5>1
        <5>3. SizeOf(c[j])' = SizeOf(c[j])
          BY <2>31, <5>2
        <5>. QED  BY <3>4, <5>1, <5>2, <5>3
      <4>. QED  BY <2>14, <4>1, <4>2
    <3>6. ASSUME NEW i \in 1 .. m - 1 + K, NEW j \in 1 .. m - 1 + K, u[i] = u[j] PROVE i = j
      <4>1. CASE i \in 1 .. m - 1 /\ j \in 1 .. m - 1
        <5>1. i + 1 \in 1 .. m /\ j + 1 \in 1 .. m /\ bq[i + 1] = bq[j + 1]
          BY <2>12, <2>14, <3>6, <4>1
        <5>2. i + 1 = j + 1
          BY <2>19, <5>1
        <5>. QED  BY <4>1, <5>2
      <4>2. CASE i \in 1 .. m - 1 /\ \E y \in 1 .. K : j = m - 1 + y
        <5>1. PICK y \in 1 .. K : j = m - 1 + y
          BY <4>2
        <5>2. u[i] \in ToSet(bq) /\ u[j] = c[y] /\ c[y] \notin ToSet(bq)
          BY <2>14, <2>23, <3>3, <4>2, <5>1
        <5>. QED  BY <3>6, <5>2
      <4>3. CASE (\E x \in 1 .. K : i = m - 1 + x) /\ j \in 1 .. m - 1
        <5>1. PICK x \in 1 .. K : i = m - 1 + x
          BY <4>3
        <5>2. u[j] \in ToSet(bq) /\ u[i] = c[x] /\ c[x] \notin ToSet(bq)
          BY <2>14, <2>23, <3>3, <4>3, <5>1
        <5>. QED  BY <3>6, <5>2
      <4>4. CASE (\E x \in 1 .. K : i = m - 1 + x) /\ \E y \in 1 .. K : j = m - 1 + y
        <5>1. PICK x \in 1 .. K : i = m - 1 + x
          BY <4>4
        <5>2. PICK y \in 1 .. K : j = m - 1 + y
          BY <4>4
        <5>3. u[i] = c[x] /\ u[j] = c[y]
          BY <2>14, <5>1, <5>2
        <5>4. x = y
          BY <2>24, <3>6, <5>3
        <5>. QED  BY <5>1, <5>2, <5>4
      <4>. QED  BY <2>14, <4>1, <4>2, <4>3, <4>4
    <3>7. bq' = u /\ Len(u) = m - 1 + K /\ (m - 1 + K) + 1 = m + K
      BY <2>10, <2>12, <2>13, <2>14
    <3> HIDE DEF E
    <3>. QED  BY <3>1, <3>2, <3>5, <3>6, <3>7 DEF Queued
  <2>34. Closed(P, E)'
    <3>1. ToSet(u) \subseteq ToSet(bq) \cup {c[i] : i \in 1 .. K}
      <4>1. ASSUME NEW i \in 1 .. m - 1 + K PROVE u[i] \in ToSet(bq) \cup {c[j] : j \in 1 .. K}
        <5>1. CASE i \in 1 .. m - 1
          <6>1. i + 1 \in 1 .. m /\ u[i] = bq[i + 1]
            BY <2>12, <2>14, <5>1
          <6>. QED  BY <2>21, <6>1
        <5>2. CASE \E j \in 1 .. K : i = m - 1 + j
          BY <2>14, <5>2
        <5>. QED  BY <2>14, <5>1, <5>2
      <4>. QED  BY <2>21, <4>1
    <3>2. \A i \in 1 .. K : c[i] \in ToSet(u)
      <4> TAKE i \in 1 .. K
      <4>1. m - 1 + i \in 1 .. m - 1 + K /\ u[m - 1 + i] = c[i]
        BY <2>10, <2>12, <2>14
      <4>. QED  BY <2>21, <4>1
    <3>3. \A n \in ToSet(bq) : n = cur \/ n \in ToSet(u)
      <4> SUFFICES ASSUME NEW i \in 1 .. m PROVE bq[i] = cur \/ bq[i] \in ToSet(u)
        BY <2>21
      <4>1. CASE i = 1
        BY <2>14, <4>1
      <4>2. CASE i # 1
        <5>1. i - 1 \in 1 .. m - 1 /\ i - 1 \in 1 .. m - 1 + K /\ (i - 1) + 1 = i
          BY <2>10, <2>12, <4>2
        <5>2. u[i - 1] = bq[i]
          BY <2>14, <5>1
        <5>. QED  BY <2>21, <5>1, <5>2
      <4>. QED  BY <4>1, <4>2
    <3>4. E \cup ToSet(u) = (D \cup ToSet(bq)) \cup {c[i] : i \in 1 .. K}
      BY <2>22, <3>1, <3>2, <3>3
    <3>5. Root \in E \cup ToSet(u) /\ P[Root] = 0
      BY <2>20, <2>27, <3>4
    <3>6. ASSUME NEW n \in Node, NEW d \in Digit, ~isLeafNode(n)
          PROVE  Child(n, d) \in E \cup ToSet(u) <=> n \in E /\ d \in bits[n]
      <4>1. Child(n, d) \in D \cup ToSet(bq) <=> n \in D /\ d \in bits[n]
        BY <2>20, <3>6
      <4>2. (\E i \in 1 .. K : Child(n, d) = c[i]) <=> n = cur /\ d \in bits[cur]
        <5>1. ASSUME NEW i \in 1 .. K, Child(n, d) = c[i] PROVE n = cur /\ d \in bits[cur]
          <6>1. s[i] \in Digit /\ Child(n, d) = Child(cur, s[i])
            BY <2>15, <2>18, <5>1
          <6>2. n = cur /\ d = s[i]
            BY <2>14, <6>1, ChildUnique
          <6>. QED  BY <2>15, <6>2
        <5>2. ASSUME n = cur, d \in bits[cur] PROVE \E i \in 1 .. K : Child(n, d) = c[i]
          <6>1. PICK i \in 1 .. K : s[i] = d
            BY <2>15, <5>2, Zenon
          <6>2. Child(n, d) = c[i]
            BY <2>18, <5>2, <6>1, Zenon
          <6>. QED  BY <6>2
        <5>. QED  BY <5>1, <5>2
      <4>. QED  BY <2>22, <3>4, <4>1, <4>2
    <3> HIDE DEF E
    <3>. QED  BY <2>1, <2>13, <3>5, <3>6 DEF Closed
  <2>35. Unwritten(E)'
    <3>1. Unwritten(D)
      BY <2>3 DEF Layout
    <3>. QED  BY <2>1, <3>1 DEF Unwritten, ListExact, Done
  <2>36. Written(P, E)'
    <3>1. Written(F, D)
      BY <2>3 DEF Layout
    <3>2. \A a \in DOMAIN file : a \in Nat /\ a < length
      BY <3>1 DEF Written
    <3> DEFINE part == [a \in {length} |-> [leaf |-> FALSE, set |-> s, off |-> offset]]
    <3>21. file' = Put(part, file)
      BY <2>9
    <3>3. \A a \in DOMAIN file : a \in DOMAIN file' /\ file'[a] = file[a]
      <4>1. \A a \in DOMAIN file : a \notin DOMAIN part
        BY <2>32, <3>2
      <4> HIDE DEF part
      <4>2. DOMAIN Put(part, file) = DOMAIN part \cup DOMAIN file
            /\ \A a \in DOMAIN file : a \notin DOMAIN part => Put(part, file)[a] = file[a]
        BY PutShape
      <4>. QED  BY <3>21, <4>1, <4>2, Zenon
    <3>4. DOMAIN file' = {length} \cup DOMAIN file
          /\ file'[length] = [leaf |-> FALSE, set |-> s, off |-> offset]
      <4>1. DOMAIN part = {length} /\ part[length] = [leaf |-> FALSE, set |-> s, off |-> offset]
        OBVIOUS
      <4> HIDE DEF part
      <4>2. DOMAIN Put(part, file) = DOMAIN part \cup DOMAIN file
            /\ \A a \in DOMAIN part : Put(part, file)[a] = part[a]
        BY PutShape
      <4>. QED  BY <3>21, <4>1, <4>2
    <3>5. \A a \in DOMAIN file' : a \in Nat /\ a < length'
      BY <2>32, <3>2, <3>4
    <3>6. ASSUME NEW n \in D
          PROVE  IF isLeafNode(n) THEN LeafWritten(P, n)' ELSE InnerWritten(P, n)'
      <4>1. n \in Node /\ P[n] = F[n]
        BY <2>27
      <4>2. CASE isLeafNode(n)
        BY <2>1, <3>1, <3>3, <4>1, <4>2, LeafStays DEF Written
      <4>3. CASE ~isLeafNode(n)
        <5>1. \A i \in 1 .. Cardinality(bits[n]) :
                LET x == Child(n, getOnePositions(bits[n])[i]) IN P[x] = F[x]
          <6> TAKE i \in 1 .. Cardinality(bits[n])
          <6> DEFINE d == getOnePositions(bits[n])[i]
          <6>1. d \in Digit /\ d \in bits[n]
            BY <2>11, <4>1, BitsOfNode
          <6> HIDE DEF d
          <6>2. Child(n, d) \in D \cup ToSet(bq)
            BY <2>20, <4>1, <4>3, <6>1
          <6>3. P[Child(n, d)] = F[Child(n, d)]
            BY <2>27, <6>2
          <6>. QED  BY <6>3 DEF d
        <5>2. InnerWritten(F, n)
          BY <3>1, <4>3 DEF Written
        <5>3. InnerWritten(P, n)'
          BY <2>1, <3>3, <4>1, <5>1, <5>2, InnerStays
        <5>. QED  BY <4>3, <5>3
      <4>. QED  BY <4>2, <4>3
    <3>7. InnerWritten(P, cur)'
      <4>1. P[cur] = length
        <5>1. 1 \in 1 .. m
          BY <2>12
        <5>. QED  BY <2>14, <2>19, <2>22, <2>27, <5>1
      <4>2. \A i \in 1 .. K : offset[i] = P[Child(cur, s[i])]
        BY <2>18, <2>26
      <4>. QED  BY <2>1, <2>5, <2>10, <3>4, <4>1, <4>2 DEF InnerWritten
    <3>8. \A n \in E : IF isLeafNode(n) THEN LeafWritten(P, n)' ELSE InnerWritten(P, n)'
      BY <2>1, <2>4, <3>6, <3>7
    <3> HIDE DEF E
    <3>. QED  BY <3>5, <3>8 DEF Written
  <2>37. E \in SUBSET Node
    BY <2>2, <2>14
  <2>38. Layout(P, E, e)'
    BY <2>33, <2>34, <2>35, <2>36 DEF Layout
  <2> HIDE DEF E
  <2>. QED  BY <2>37, <2>38
<1>. QED  BY <1>1, <1>2

\* The lists that a leaf writes, each at its own place.
ListParts(K, b, off, key) ==
  [a \in {b + off[i] : i \in 1 .. K} |->
    [list |-> lists[key[CHOOSE i \in 1 .. K : b + off[i] = a]]]]
ListsPlaced(part, K, b, off, key) ==
  /\ DOMAIN part = {b + off[i] : i \in 1 .. K}
  /\ \A i \in 1 .. K : part[b + off[i]] = [list |-> lists[key[i]]]

LEMMA ListPlaces ==
    ASSUME NEW K \in Nat, NEW b \in Nat, NEW off \in [1 .. K -> Nat], NEW key,
           \A i, j \in 1 .. K : off[i] = off[j] => i = j
    PROVE  ListsPlaced(ListParts(K, b, off, key), K, b, off, key)
<1> DEFINE at(a) == CHOOSE i \in 1 .. K : b + off[i] = a
           A == {b + off[i] : i \in 1 .. K}
           part == [a \in A |-> [list |-> lists[key[at(a)]]]]
<1>1. ASSUME NEW i \in 1 .. K PROVE at(b + off[i]) = i /\ b + off[i] \in A
  <2>1. at(b + off[i]) \in 1 .. K /\ b + off[at(b + off[i])] = b + off[i]
    OBVIOUS
  <2> DEFINE j == at(b + off[i])
  <2> HIDE DEF j
  <2>2. j \in 1 .. K /\ b + off[j] = b + off[i]
    BY <2>1 DEF j
  <2>3. off[j] \in Nat /\ off[i] \in Nat
    BY <2>2
  <2>4. off[j] = off[i]
    BY <2>2, <2>3
  <2>5. j = i
    BY <2>2, <2>4
  <2>. QED  BY <2>5 DEF j
<1> HIDE DEF at, A
<1>2. DOMAIN part = A /\ \A i \in 1 .. K : part[b + off[i]] = [list |-> lists[key[i]]]
  BY <1>1
<1>. QED  BY <1>2 DEF ListsPlaced, ListParts, at, A

\* The places of the lists of a leaf, counted from the end of its header.
LEMMA ListOffsets ==
    ASSUME TreeOK, Linked, NEW n \in Node, isLeafNode(n)
    PROVE  LET K == Cardinality(bits[n])
               off == [i \in 1 .. K |-> SumOf(SubSeq(KeySizes(n), 1, i - 1))]
               total == SumOf(KeySizes(n))
           IN  /\ K \in Nat /\ off \in [1 .. K -> Nat] /\ total \in Nat
               /\ \A i, j \in 1 .. K : off[i] = off[j] => i = j
               /\ \A i \in 1 .. K : off[i] < total
               /\ \A i \in 1 .. K : i < K => off[i + 1] = off[i] + KeySizes(n)[i]
<1> DEFINE s == KeySizes(n)
           K == Cardinality(bits[n])
           off == [i \in 1 .. K |-> SumOf(SubSeq(s, 1, i - 1))]
<1>1. K \in Nat /\ s \in Seq(Nat) /\ Len(s) = K /\ \A i \in 1 .. K : s[i] > 0
  BY LeafKeys, KeySizesType
<1> HIDE DEF s, K
<1>2. PICK f \in SumsOf(s) : TRUE
  BY <1>1, SumsExist
<1>3. f \in [0 .. K -> Nat] /\ \A i \in 1 .. K : f[i] = f[i - 1] + s[i]
  BY <1>1, <1>2 DEF SumsOf
<1>4. SumOf(s) = f[K] /\ \A i \in 1 .. K : SumOf(SubSeq(s, 1, i - 1)) = f[i - 1]
  BY <1>1, <1>2, SumIs, SumBefore
<1>5. \A i, j \in 0 .. K : i < j => f[i] \in Nat /\ f[j] \in Nat /\ f[i] < f[j]
  BY <1>1, <1>2, SumsAscend
<1>6. \A i \in 1 .. K : off[i] = f[i - 1] /\ i - 1 \in 0 .. K /\ off[i] \in Nat
  BY <1>1, <1>3, <1>4
<1>7. off \in [1 .. K -> Nat]
  BY <1>6
<1> HIDE DEF off
<1>8. ASSUME NEW i \in 1 .. K, NEW j \in 1 .. K, off[i] = off[j] PROVE i = j
  <2>1. f[i - 1] = f[j - 1] /\ i - 1 \in 0 .. K /\ j - 1 \in 0 .. K
    BY <1>6, <1>8
  <2>2. ~(i - 1 < j - 1) /\ ~(j - 1 < i - 1)
    <3>1. \A x \in Nat : ~(x < x)
      OBVIOUS
    <3>2. f[i - 1] \in Nat /\ f[j - 1] \in Nat
      BY <1>3, <2>1
    <3>. QED  BY <1>5, <2>1, <3>1, <3>2
  <2>. QED  BY <1>1, <2>2
<1>9. \A i \in 1 .. K : off[i] < f[K]
  <2> TAKE i \in 1 .. K
  <2>1. i - 1 \in 0 .. K /\ K \in 0 .. K /\ i - 1 < K
    BY <1>1
  <2>. QED  BY <1>5, <1>6, <2>1
<1>10. \A i \in 1 .. K : i < K => off[i + 1] = off[i] + s[i]
  <2> TAKE i \in 1 .. K
  <2> HAVE i < K
  <2>1. i + 1 \in 1 .. K /\ (i + 1) - 1 = i
    BY <1>1
  <2>2. off[i + 1] = f[i] /\ off[i] = f[i - 1] /\ f[i] = f[i - 1] + s[i]
    <3>1. off[i + 1] = f[(i + 1) - 1]
      BY <1>6, <2>1
    <3>. QED  BY <1>3, <1>6, <2>1, <3>1
  <2>. QED  BY <2>2
<1>11. f[K] \in Nat
  BY <1>1, <1>3
<1>. QED  BY <1>1, <1>4, <1>7, <1>8, <1>9, <1>10, <1>11 DEF off, s, K

LEMMA FirstOf ==
    ASSUME NEW s \in Seq(Nat), NEW i \in 1 .. Len(s)
    PROVE  SubSeq(s, 1, i - 1) = [j \in 1 .. i - 1 |-> s[j]]
OBVIOUS

\* What writeLeafNode adds to the file when it read complete positions.
LeafAdded(cur, s, off) ==
  /\ length' = length + SizeOf(cur)
  /\ \A a \in DOMAIN file : a \in DOMAIN file' /\ file'[a] = file[a]
  /\ length \in DOMAIN file' /\ file'[length] = [leaf |-> TRUE, set |-> s, off |-> off]
  /\ \A i \in 1 .. Cardinality(bits[cur]) :
       LET k == KeyOf(cur, s[i])
           a == length + HeaderSize(cur) + off[i]
       IN  /\ a \in DOMAIN file' /\ file'[a] = [list |-> lists[k]]
           /\ i < Cardinality(bits[cur]) => off[i + 1] = off[i] + ListSize(k)
  /\ \A a \in DOMAIN file' : a \in Nat /\ a < length'


LEMMA LeafNodeWrites ==
    ASSUME FileInv, NEW junk \in JunkPositions, writeLeafNode(junk), pc' # "crashed", intact',
           NEW cur, cur = Head(bq), NEW s, s = getOnePositions(bits[cur]), length \in Nat, \A a \in DOMAIN file : a \in Nat /\ a < length
    PROVE  \E off \in [1 .. Cardinality(bits[cur]) -> Nat] : LeafAdded(cur, s, off)
<1>1. pc = "write" /\ bq # <<>> /\ isLeafNode(cur) /\ cur \in Node /\ TreeOK /\ Linked
  BY QueueNodes DEF writeLeafNode, FileInv, Core, TypeOK
<1>2. PICK K \in Nat : K = Cardinality(bits[cur])
  BY <1>1, LeafKeys
<1>3. DOMAIN s = 1 .. K
  BY <1>2 DEF getOnePositions
<1> DEFINE size == KeySizes(cur)
           off == [i \in 1 .. K |-> SumOf(SubSeq(size, 1, i - 1))]
           total == SumOf(size)
           key == [i \in 1 .. K |-> KeyOf(cur, s[i])]
<1>4. size = [i \in DOMAIN s |-> ListSize(KeyOf(cur, s[i]))]
  BY <1>2, <1>3 DEF KeySizes
<1>5. /\ off \in [1 .. K -> Nat] /\ total \in Nat
      /\ \A i, j \in 1 .. K : off[i] = off[j] => i = j
      /\ \A i \in 1 .. K : off[i] < total
      /\ \A i \in 1 .. K : i < K => off[i + 1] = off[i] + size[i]
  BY <1>1, <1>2, ListOffsets
<1>6. PICK b \in Nat : b = length + HeaderSize(cur) /\ length < b
  <2>1. HeaderSize(cur) \in Nat /\ HeaderSize(cur) > 0
    BY <1>1, SizeType
  <2>2. length + HeaderSize(cur) \in Nat /\ length < length + HeaderSize(cur)
    BY <2>1
  <2>. QED  BY <2>2
<1> DEFINE head == [a \in {length} |-> [leaf |-> TRUE, set |-> s, off |-> off]]
           part == ListParts(K, b, off, key)
<1>7. file' = Put(head, Put(part, file)) /\ length' = b + total
  <2>1. bitPosition(cur, junk) = s
    <3>1. cache[cur] # NULL /\ ~Incomplete(cur)
      BY writeLeafNodeReads DEF FileInv
    <3>2. bits[cur] = child[cur]
      BY <1>1, BitsChildren DEF FileInv
    <3>. QED  BY <1>1, <3>1, <3>2, CompletePositions DEF FileInv, Core, TypeOK
  <2> DEFINE list == [i \in DOMAIN s |->
                        IF \E j \in 1 .. i - 1 : s[j] = s[i] THEN <<>> ELSE lists[KeyOf(cur, s[i])]]
             plain == [i \in DOMAIN s |-> lists[KeyOf(cur, s[i])]]
  <2>2. list = plain
    <3>1. ASSUME NEW i \in 1 .. K, NEW j \in 1 .. i - 1 PROVE s[j] # s[i]
      <4>1. j \in 1 .. K /\ j # i
        OBVIOUS
      <4>. QED  BY <1>1, <1>2, <4>1, BitsOfNode
    <3>. QED  BY <1>3, <3>1
  <2> DEFINE at == [i \in DOMAIN s |-> length + HeaderSize(cur)
                      + SumOf([j \in 1 .. i - 1 |-> 4 + 8 * Len(list[j])])]
             off2 == [i \in DOMAIN s |-> SumOf(SubSeq(size, 1, i - 1))]
  <2>3. /\ file' = Put([a \in {length} |-> [leaf |-> TRUE, set |-> s, off |-> off2]],
                   Put([a \in {at[i] : i \in DOMAIN s} |->
                         [list |-> list[CHOOSE i \in DOMAIN s : at[i] = a]]], file))
        /\ length' = length + HeaderSize(cur) + SumOf([i \in DOMAIN s |-> 4 + 8 * Len(list[i])])
    <3> DEFINE h == Head(bq)
               t == bitPosition(h, junk)
               list1 == [i \in DOMAIN t |->
                           IF \E j \in 1 .. i - 1 : t[j] = t[i] THEN <<>> ELSE lists[KeyOf(h, t[i])]]
               at1 == [i \in DOMAIN t |-> length + HeaderSize(h)
                         + SumOf([j \in 1 .. i - 1 |-> 4 + 8 * Len(list1[j])])]
               size1 == [i \in DOMAIN t |-> ListSize(KeyOf(h, t[i]))]
               off1 == [i \in DOMAIN t |-> SumOf(SubSeq(size1, 1, i - 1))]
               header(x, o) == [a \in {length} |-> [leaf |-> TRUE, set |-> x, off |-> o]]
               values(x, l, p) ==
                 [a \in {p[i] : i \in DOMAIN x} |-> [list |-> l[CHOOSE i \in DOMAIN x : p[i] = a]]]
               bytes(x, l) == SumOf([i \in DOMAIN x |-> 4 + 8 * Len(l[i])])
    <3>1. /\ file' = Put(header(getOnePositions(bits[h]), off1), Put(values(t, list1, at1), file))
          /\ length' = length + HeaderSize(h) + bytes(t, list1)
      BY DEF writeLeafNode, crash
    <3>2. h = cur /\ getOnePositions(bits[h]) = s
      OBVIOUS
    <3> HIDE DEF h
    <3>3. t = s
      BY <2>1, <3>2
    <3> HIDE DEF t
    <3>4. size1 = size
      BY <1>4, <3>2, <3>3
    <3>5. list1 = list
      BY <3>2, <3>3
    <3> HIDE DEF size1, list1, list, size
    <3>6. off1 = off2
      BY <3>3, <3>4
    <3>7. at1 = at
      BY <3>2, <3>3, <3>5
    <3> HIDE DEF off1, off2, at1, at, header, values, bytes
    <3>8. file' = Put(header(s, off2), Put(values(s, list, at), file))
          /\ length' = length + HeaderSize(cur) + bytes(s, list)
      BY <3>1, <3>2, <3>3, <3>5, <3>6, <3>7, Zenon
    <3>. QED  BY <3>8 DEF header, values, bytes
  <2>4. [i \in DOMAIN s |-> 4 + 8 * Len(list[i])] = size
    <3> HIDE DEF size, list
    <3>. QED  BY <1>4, <2>2 DEF ListSize
  <2>5. ASSUME NEW i \in 1 .. K
        PROVE  [j \in 1 .. i - 1 |-> 4 + 8 * Len(list[j])] = SubSeq(size, 1, i - 1)
    <3>1. size \in Seq(Nat) /\ Len(size) = K
      BY <1>1, <1>2, KeySizesType
    <3>2. \A j \in 1 .. i - 1 : j \in 1 .. K
      OBVIOUS
    <3> HIDE DEF size, list
    <3>3. \A j \in 1 .. i - 1 : size[j] = 4 + 8 * Len(list[j])
      BY <1>3, <2>4, <3>2
    <3>4. SubSeq(size, 1, i - 1) = [j \in 1 .. i - 1 |-> size[j]]
      BY <3>1, FirstOf
    <3>. QED  BY <3>3, <3>4
  <2>6. off2 = off
    BY <1>3
  <2>7. DOMAIN at = 1 .. K /\ \A i \in 1 .. K : at[i] = b + off[i]
    <3>1. \A i \in 1 .. K : SumOf([j \in 1 .. i - 1 |-> 4 + 8 * Len(list[j])]) = off[i]
      BY <2>5
    <3>2. \A i \in 1 .. K : at[i] = length + HeaderSize(cur) + SumOf([j \in 1 .. i - 1 |-> 4 + 8 * Len(list[j])])
      BY <1>3
    <3>3. DOMAIN at = 1 .. K
      BY <1>3
    <3> HIDE DEF list, off, at
    <3>. QED  BY <1>6, <3>1, <3>2, <3>3
  <2> HIDE DEF list, at, off2, size
  <2>8. [a \in {at[i] : i \in DOMAIN s} |-> [list |-> list[CHOOSE i \in DOMAIN s : at[i] = a]]] = part
    <3>1. ASSUME NEW a \in {b + off[i] : i \in 1 .. K}
          PROVE  /\ (CHOOSE i \in 1 .. K : b + off[i] = a) \in 1 .. K
                 /\ (CHOOSE i \in DOMAIN s : at[i] = a) = CHOOSE i \in 1 .. K : b + off[i] = a
      <4> HIDE DEF off
      <4>. QED  BY <1>3, <2>7, <3>1
    <3>2. {at[i] : i \in DOMAIN s} = {b + off[i] : i \in 1 .. K}
      <4> HIDE DEF off
      <4>. QED  BY <1>3, <2>7
    <3>3. \A i \in 1 .. K : list[i] = lists[key[i]]
      BY <1>3, <2>2
    <3> HIDE DEF off, key
    <3> DEFINE f(a) == [list |-> list[CHOOSE i \in DOMAIN s : at[i] = a]]
               g(a) == [list |-> lists[key[CHOOSE i \in 1 .. K : b + off[i] = a]]]
               A == {at[i] : i \in DOMAIN s}
               B == {b + off[i] : i \in 1 .. K}
    <3>4. A = B /\ \A a \in B : f(a) = g(a)
      BY <3>1, <3>2, <3>3
    <3>5. part = [a \in B |-> g(a)]
      BY DEF ListParts
    <3> HIDE DEF f, g, A, B, part
    <3>6. [a \in A |-> f(a)] = part
      BY <3>4, <3>5
    <3>. QED  BY <3>6 DEF f, A
  <2>9. length' = b + total
    BY <1>6, <2>3, <2>4 DEF size
  <2> HIDE DEF off, part, total
  <2>. QED  BY <2>3, <2>6, <2>8, <2>9, Zenon
<1>8. /\ DOMAIN part = {b + off[i] : i \in 1 .. K}
      /\ \A i \in 1 .. K : part[b + off[i]] = [list |-> lists[key[i]]]
  <2> HIDE DEF off, key, part
  <2>1. off \in [1 .. K -> Nat] /\ (\A i, j \in 1 .. K : off[i] = off[j] => i = j)
    BY <1>5
  <2>2. ListsPlaced(ListParts(K, b, off, key), K, b, off, key)
    BY <2>1, ListPlaces
  <2>. QED  BY <2>2 DEF part, ListsPlaced
<1>9. DOMAIN head = {length} /\ head[length] = [leaf |-> TRUE, set |-> s, off |-> off]
  OBVIOUS
<1>10. \A i \in 1 .. K : key[i] = KeyOf(cur, s[i]) /\ size[i] = ListSize(KeyOf(cur, s[i]))
  <2>1. \A i \in 1 .. K : size[i] = ListSize(KeyOf(cur, s[i]))
    <3> HIDE DEF size
    <3>. QED  BY <1>3, <1>4
  <2>. QED  BY <2>1
<1> HIDE DEF off, part, head, key, size, total
<1>11. \A i \in 1 .. K : b + off[i] \in Nat /\ length < b + off[i] /\ b + off[i] < b + total
  <2> TAKE i \in 1 .. K
  <2> DEFINE x == off[i]
             y == total
  <2>1. x \in Nat /\ y \in Nat /\ x < y
    BY <1>5
  <2> HIDE DEF x, y
  <2>2. b + x \in Nat /\ length < b + x /\ b + x < b + y
    BY <1>6, <2>1
  <2>. QED  BY <2>2 DEF x, y
<1>12. length < b + total
  BY <1>5, <1>6
<1>13. DOMAIN file' = {length} \cup {b + off[i] : i \in 1 .. K} \cup DOMAIN file
  <2>1. DOMAIN file' = DOMAIN head \cup DOMAIN Put(part, file)
    BY <1>7, PutShape
  <2>2. DOMAIN Put(part, file) = DOMAIN part \cup DOMAIN file
    BY PutShape
  <2>. QED  BY <1>8, <1>9, <2>1, <2>2
<1>14. file'[length] = [leaf |-> TRUE, set |-> s, off |-> off]
  <2>1. \A a \in DOMAIN head : Put(head, Put(part, file))[a] = head[a]
    BY PutShape
  <2>2. length \in DOMAIN head
    BY <1>9
  <2>. QED  BY <1>7, <1>9, <2>1, <2>2
<1>15. \A a \in DOMAIN Put(part, file) : a # length => file'[a] = Put(part, file)[a]
  <2>1. \A a \in DOMAIN Put(part, file) :
          a \notin DOMAIN head => Put(head, Put(part, file))[a] = Put(part, file)[a]
    BY PutShape
  <2>. QED  BY <1>7, <1>9, <2>1
<1>16. DOMAIN Put(part, file) = DOMAIN part \cup DOMAIN file
  BY PutShape
<1>17. \A i \in 1 .. K : file'[b + off[i]] = [list |-> lists[key[i]]]
  <2> TAKE i \in 1 .. K
  <2>1. \A a \in DOMAIN part : Put(part, file)[a] = part[a]
    BY PutShape
  <2>2. b + off[i] \in DOMAIN part /\ b + off[i] # length
    BY <1>8, <1>11
  <2>. QED  BY <1>8, <1>15, <1>16, <2>1, <2>2
<1>18. \A a \in DOMAIN file : file'[a] = file[a]
  <2> TAKE a \in DOMAIN file
  <2>1. \A x \in DOMAIN file : x \notin DOMAIN part => Put(part, file)[x] = file[x]
    BY PutShape
  <2>2. a # length /\ a \notin DOMAIN part
    <3>1. a \in Nat /\ a < length
      OBVIOUS
    <3>2. \A i \in 1 .. K : a # b + off[i]
      <4> TAKE i \in 1 .. K
      <4>1. b + off[i] \in Nat /\ length < b + off[i]
        BY <1>11
      <4>. QED  BY <3>1, <4>1
    <3>. QED  BY <1>8, <3>1, <3>2
  <2>. QED  BY <1>15, <1>16, <2>1, <2>2
<1>19. length' = length + SizeOf(cur)
  <2>1. SizeOf(cur) = HeaderSize(cur) + total /\ HeaderSize(cur) \in Nat
    BY <1>1, SizeType DEF total, size
  <2>. QED  BY <1>5, <1>6, <1>7, <2>1
<1>20. \A a \in DOMAIN file' : a \in Nat /\ a < length'
  <2> TAKE a \in DOMAIN file'
  <2>1. CASE a = length
    BY <1>7, <1>12, <2>1
  <2>2. CASE \E i \in 1 .. K : a = b + off[i]
    BY <1>7, <1>11, <2>2
  <2>3. CASE a \in DOMAIN file
    <3>1. a \in Nat /\ a < length /\ b + total \in Nat
      BY <1>5, <1>6, <2>3
    <3>. QED  BY <1>7, <1>12, <3>1
  <2>. QED  BY <1>13, <2>1, <2>2, <2>3
<1>21. \A i \in 1 .. K :
         LET k == KeyOf(cur, s[i])
             a == length + HeaderSize(cur) + off[i]
         IN  /\ a \in DOMAIN file' /\ file'[a] = [list |-> lists[k]]
             /\ i < K => off[i + 1] = off[i] + ListSize(k)
  <2> TAKE i \in 1 .. K
  <2>1. length + HeaderSize(cur) + off[i] = b + off[i]
    BY <1>6
  <2>2. b + off[i] \in DOMAIN file' /\ file'[b + off[i]] = [list |-> lists[KeyOf(cur, s[i])]]
    BY <1>10, <1>13, <1>17
  <2>3. i < K => off[i + 1] = off[i] + ListSize(KeyOf(cur, s[i]))
    BY <1>5, <1>10
  <2>. QED  BY <2>1, <2>2, <2>3
<1>22. off \in [1 .. Cardinality(bits[cur]) -> Nat]
  BY <1>2, <1>5
<1>23. (\A a \in DOMAIN file : a \in DOMAIN file' /\ file'[a] = file[a]) /\ length \in DOMAIN file'
  BY <1>13, <1>18
<1>. QED  BY <1>2, <1>14, <1>19, <1>20, <1>21, <1>22, <1>23 DEF LeafAdded

\* A leaf of the queue leaves it; its lists go to the file.
LEMMA writeLeafNodeLays ==
    ASSUME FileInv, NEW junk \in JunkPositions, writeLeafNode(junk), pc' # "crashed"
    PROVE  FileLaidOut'
<1>1. /\ pc = "write" /\ bq # <<>> /\ isLeafNode(Head(bq)) /\ bq' = Tail(bq)
      /\ UNCHANGED <<child, bits, ins, items, pc, pos>> /\ (intact' => intact)
  BY DEF writeLeafNode, crash, Intact
<1> SUFFICES ASSUME intact'
             PROVE  (\E P \in [Node -> Nat], D \in SUBSET Node : \E e : Layout(P, D, e))'
  BY <1>1 DEF FileLaidOut
<1>1a. ins = NULL /\ Done = DOMAIN items
  BY <1>1, BitsChildren DEF FileInv
<1>2. PICK P \in [Node -> Nat], D \in SUBSET Node : \E e : Layout(P, D, e)
  BY <1>1 DEF FileInv, FileLaidOut
<1>3. PICK e0 : Layout(P, D, e0)
  BY <1>2
<1>4. PICK cur : cur = Head(bq)
  OBVIOUS
<1>5. PICK s : s = getOnePositions(bits[cur])
  OBVIOUS
<1>6. bq \in Seq(Node) /\ TypeOK /\ TreeOK /\ Linked
  BY DEF FileInv, Core, TypeOK, WriteOK
<1>7. PICK m \in Nat : m = Len(bq) /\ m >= 1
  <2>1. Len(bq) \in Nat /\ Len(bq) >= 1
    BY <1>1, <1>6
  <2>. QED  BY <2>1
<1>8. PICK u : u = bq'
  OBVIOUS
<1>9. /\ cur = bq[1] /\ cur \in Node /\ isLeafNode(cur) /\ u \in Seq(Node) /\ Len(u) = m - 1
      /\ \A i \in 1 .. m - 1 : u[i] = bq[i + 1]
  <2>1. u = Tail(bq)
    BY <1>1, <1>8
  <2>. QED  BY <1>1, <1>4, <1>6, <1>7, <2>1
<1>10. /\ \A i \in 1 .. m + 1 : e0[i] \in Nat
       /\ e0[1] = length /\ e0[m + 1] = pos
       /\ \A i \in 1 .. m : P[bq[i]] = e0[i] /\ e0[i + 1] = e0[i] + SizeOf(bq[i]) /\ bq[i] \notin D
       /\ \A i, j \in 1 .. m : bq[i] = bq[j] => i = j
  BY <1>3, <1>7, Zenon DEF Layout, Queued
<1>11. /\ Root \in D \cup ToSet(bq) /\ P[Root] = 0
       /\ \A n \in Node, d \in Digit :
            ~isLeafNode(n) => (Child(n, d) \in D \cup ToSet(bq) <=> n \in D /\ d \in bits[n])
  BY <1>3, Zenon DEF Layout, Closed
<1>12. ToSet(bq) = {bq[i] : i \in 1 .. m} /\ ToSet(u) = {u[i] : i \in 1 .. m - 1}
  BY <1>6, <1>7, <1>9, QueueSet
<1>13. Written(P, D) /\ Unwritten(D)
  BY <1>3 DEF Layout
<1>14. length \in Nat /\ (\A a \in DOMAIN file : a \in Nat /\ a < length) /\ P[cur] = length
       /\ cur \notin D
  <2>1. 1 \in 1 .. m + 1 /\ 1 \in 1 .. m
    BY <1>7
  <2>. QED  BY <1>9, <1>10, <1>13, <2>1 DEF Written
<1>15. PICK K \in Nat : K = Cardinality(bits[cur])
  BY <1>6, <1>9, LeafKeys
<1>16. PICK off \in [1 .. K -> Nat] : LeafAdded(cur, s, off)
  <2>1. \E off \in [1 .. Cardinality(bits[cur]) -> Nat] : LeafAdded(cur, s, off)
    BY <1>4, <1>5, <1>14, LeafNodeWrites
  <2>. QED  BY <1>15, <2>1
<1>17. /\ length' = length + SizeOf(cur)
       /\ \A a \in DOMAIN file : a \in DOMAIN file' /\ file'[a] = file[a]
       /\ length \in DOMAIN file' /\ file'[length] = [leaf |-> TRUE, set |-> s, off |-> off]
       /\ \A i \in 1 .. K :
            LET k == KeyOf(cur, s[i])
                a == length + HeaderSize(cur) + off[i]
            IN  /\ a \in DOMAIN file' /\ file'[a] = [list |-> lists[k]]
                /\ i < K => off[i + 1] = off[i] + ListSize(k)
       /\ \A a \in DOMAIN file' : a \in Nat /\ a < length'
  BY <1>15, <1>16, Zenon DEF LeafAdded
\* The lists of the other leaves stay, and the other nodes of the queue keep their sizes.
<1>18a. ASSUME NEW k \in Keys, NodeOf(k, Depth - 1) # cur PROVE lists'[k] = lists[k]
  <2>1. lists' = [x \in Keys |-> IF \E i \in DOMAIN s : KeyOf(cur, s[i]) = x THEN <<>> ELSE lists[x]]
    <3>1. bitPosition(cur, junk) = s
      <4>1. cache[cur] # NULL /\ ~Incomplete(cur)
        BY <1>4, writeLeafNodeReads DEF FileInv
      <4>2. bits[cur] = child[cur]
        BY <1>1, <1>9, BitsChildren DEF FileInv
      <4>. QED  BY <1>5, <1>6, <1>9, <4>1, <4>2, CompletePositions DEF FileInv, Core, TypeOK
    <3> DEFINE t == bitPosition(Head(bq), junk)
    <3>2. lists' = [x \in Keys |-> IF \E i \in DOMAIN t : KeyOf(Head(bq), t[i]) = x THEN <<>> ELSE lists[x]]
      BY DEF writeLeafNode, crash
    <3>3. t = s
      BY <1>4, <3>1
    <3> HIDE DEF t
    <3>. QED  BY <1>4, <3>2, <3>3, Zenon
  <2>2. ASSUME NEW i \in DOMAIN s, KeyOf(cur, s[i]) = k PROVE FALSE
    <3>1. s[i] \in Digit
      BY <1>5, <1>6, <1>9, <2>2, BitsOfNode
    <3>. QED  BY <1>9, <1>18a, <2>2, <3>1, LeafOfKey
  <2>. QED  BY <2>1, <2>2
<1>18. \A n \in Node : HeaderSize(n)' = HeaderSize(n)
  BY <1>1 DEF HeaderSize, elemCount
<1>19. ASSUME NEW n \in Node, n # cur PROVE SizeOf(n)' = SizeOf(n)
  <2>1. ASSUME isLeafNode(n), NEW i \in 1 .. Cardinality(bits[n])
        PROVE  LET k == KeyOf(n, getOnePositions(bits[n])[i]) IN lists'[k] = lists[k]
    <3> DEFINE d == getOnePositions(bits[n])[i]
    <3>1. d \in Digit /\ KeyOf(n, d) \in Keys
      BY <1>6, <2>1, LeafKeys
    <3> HIDE DEF d
    <3>2. NodeOf(KeyOf(n, d), Depth - 1) = n
      BY <2>1, <3>1, LeafOfKey
    <3>3. lists'[KeyOf(n, d)] = lists[KeyOf(n, d)]
      BY <1>18a, <1>19, <3>1, <3>2
    <3>. QED  BY <3>3 DEF d
  <2>. QED  BY <1>1, <2>1, SizeKept
<1>20. PICK e : e = [i \in 1 .. m |-> e0[i + 1]]
  OBVIOUS
<1>21. \A i \in 1 .. m : e[i] = e0[i + 1]
  BY <1>20
<1> DEFINE E == D \cup {cur}
<1>22. Queued(P, E, e)'
  <2>1. \A i \in 1 .. m : e[i] \in Nat
    <3>1. \A i \in 1 .. m : i + 1 \in 1 .. m + 1
      BY <1>7
    <3>. QED  BY <1>10, <1>21, <3>1
  <2>2. e[1] = length' /\ e[m] = pos'
    <3>1. 1 \in 1 .. m /\ m \in 1 .. m
      BY <1>7
    <3>2. e[1] = e0[1 + 1] /\ e0[1 + 1] = e0[1] + SizeOf(bq[1])
      BY <1>10, <1>21, <3>1
    <3>3. e[m] = e0[m + 1]
      BY <1>21, <3>1
    <3>. QED  BY <1>1, <1>9, <1>10, <1>17, <3>2, <3>3
  <2>3. ASSUME NEW i \in 1 .. m - 1
        PROVE  /\ P[u[i]] = e[i] /\ e[i + 1] = e[i] + SizeOf(u[i])' /\ u[i] \notin E
    <3>1. i \in 1 .. m /\ i + 1 \in 1 .. m /\ u[i] = bq[i + 1] /\ 1 \in 1 .. m /\ i + 1 # 1
      BY <1>7, <1>9
    <3>2. u[i] # cur /\ bq[i + 1] \in Node
      <4>1. bq[i + 1] # bq[1]
        BY <1>10, <3>1
      <4>. QED  BY <1>6, <1>7, <1>9, <3>1, <4>1
    <3>3. PICK x \in Node : x = u[i] /\ x = bq[i + 1] /\ x # cur
      BY <3>1, <3>2
    <3>4. SizeOf(x)' = SizeOf(x)
      BY <1>19, <3>3
    <3>5. P[x] = e0[i + 1] /\ e0[(i + 1) + 1] = e0[i + 1] + SizeOf(x) /\ x \notin D
      BY <1>10, <3>1, <3>3
    <3>6. e[i] = e0[i + 1] /\ e[i + 1] = e0[(i + 1) + 1]
      BY <1>21, <3>1
    <3>. QED  BY <3>3, <3>4, <3>5, <3>6
  <2>4. \A i, j \in 1 .. m - 1 : u[i] = u[j] => i = j
    <3> SUFFICES ASSUME NEW i \in 1 .. m - 1, NEW j \in 1 .. m - 1, u[i] = u[j] PROVE i = j
      OBVIOUS
    <3>0. i + 1 \in 1 .. m /\ j + 1 \in 1 .. m
      BY <1>7
    <3>1. i + 1 \in 1 .. m /\ j + 1 \in 1 .. m /\ bq[i + 1] = bq[j + 1]
      BY <1>9, <3>0, Zenon
    <3>2. i + 1 = j + 1
      BY <1>10, <3>1
    <3>. QED  BY <3>2
  <2>5. bq' = u /\ Len(u) = m - 1 /\ (m - 1) + 1 = m
    BY <1>7, <1>8, <1>9
  <2> HIDE DEF E
  <2>. QED  BY <2>1, <2>2, <2>3, <2>4, <2>5 DEF Queued
<1>23. Closed(P, E)'
  <2>1. ToSet(u) \subseteq ToSet(bq)
    <3>1. ASSUME NEW i \in 1 .. m - 1 PROVE u[i] \in ToSet(bq)
      <4>1. i + 1 \in 1 .. m /\ u[i] = bq[i + 1]
        BY <1>7, <1>9
      <4>. QED  BY <1>12, <4>1
    <3>. QED  BY <1>12, <3>1
  <2>2. \A n \in ToSet(bq) : n = cur \/ n \in ToSet(u)
    <3> SUFFICES ASSUME NEW i \in 1 .. m PROVE bq[i] = cur \/ bq[i] \in ToSet(u)
      BY <1>12
    <3>1. CASE i = 1
      BY <1>9, <3>1
    <3>2. CASE i # 1
      <4>1. i - 1 \in 1 .. m - 1 /\ (i - 1) + 1 = i
        BY <1>7, <3>2
      <4>2. u[i - 1] = bq[i]
        BY <1>9, <4>1
      <4>. QED  BY <1>12, <4>1, <4>2
    <3>. QED  BY <3>1, <3>2
  <2>3. cur \in ToSet(bq)
    <3>1. 1 \in 1 .. m
      BY <1>7
    <3>. QED  BY <1>9, <1>12, <3>1
  <2>4. E \cup ToSet(u) = D \cup ToSet(bq)
    BY <2>1, <2>2, <2>3
  <2>5. ASSUME NEW n \in Node, NEW d \in Digit, ~isLeafNode(n)
        PROVE  Child(n, d) \in E \cup ToSet(u) <=> n \in E /\ d \in bits[n]
    BY <1>9, <1>11, <2>4, <2>5
  <2> HIDE DEF E
  <2>. QED  BY <1>1, <1>8, <1>11, <2>4, <2>5 DEF Closed
<1>24. Unwritten(E)'
  <2>1. ASSUME NEW k \in Keys, NodeOf(k, Depth - 1) \notin E
        PROVE  /\ Increasing(lists'[k])
               /\ ToSet(lists'[k]) = {v \in DOMAIN items' : items'[v] = k}
    <3>1. ListExact(k)
      BY <1>13, <2>1 DEF Unwritten
    <3>2. lists'[k] = lists[k]
      BY <1>18a, <2>1
    <3>. QED  BY <1>1, <1>1a, <3>1, <3>2 DEF ListExact
  <2> HIDE DEF E
  <2>2. Done' = DOMAIN items'
    BY <1>1, <1>1a DEF Done
  <2>. QED  BY <2>1, <2>2 DEF Unwritten, ListExact
<1>25. LeafWritten(P, cur)'
  <2>1. file'[P[cur]].set = s /\ file'[P[cur]].off = off /\ P[cur] \in DOMAIN file'
    BY <1>14, <1>17
  <2>2. ASSUME NEW i \in 1 .. K
        PROVE  LET a == P[cur] + HeaderSize(cur)' + file'[P[cur]].off[i]
                   k == KeyOf(cur, s[i])
               IN  /\ file'[P[cur]].off[i] \in Nat
                   /\ a \in DOMAIN file' /\ "list" \in DOMAIN file'[a]
                   /\ file'[a].list \in Seq(Nat) /\ Increasing(file'[a].list)
                   /\ ToSet(file'[a].list) = {v \in DOMAIN items' : items'[v] = k}
                   /\ i < K => file'[P[cur]].off[i + 1] =
                                 file'[P[cur]].off[i] + (4 + 8 * Len(file'[a].list))
    <3> DEFINE a == length + HeaderSize(cur) + off[i]
               k == KeyOf(cur, s[i])
    <3>1. a \in DOMAIN file' /\ file'[a] = [list |-> lists[k]]
          /\ (i < K => off[i + 1] = off[i] + ListSize(k))
      BY <1>17
    <3>2. s[i] \in Digit /\ k \in Keys
      BY <1>5, <1>6, <1>9, <1>15, LeafKeys
    <3>3. NodeOf(k, Depth - 1) = cur
      BY <1>9, <3>2, LeafOfKey
    <3>4. P[cur] + HeaderSize(cur)' + file'[P[cur]].off[i] = a
      BY <1>9, <1>14, <1>18, <2>1
    <3> HIDE DEF a, k
    <3>5. ListExact(k) /\ lists[k] \in Seq(Nat)
      BY <1>6, <1>13, <1>14, <3>2, <3>3 DEF Unwritten, TreeOK
    <3>6. "list" \in DOMAIN file'[a] /\ file'[a].list = lists[k]
      BY <3>1
    <3>7. off[i] \in Nat
      OBVIOUS
    <3>. QED  BY <1>1, <1>1a, <2>1, <3>1, <3>4, <3>5, <3>6, <3>7 DEF ListExact, ListSize, k
  <2>. QED  BY <1>1, <1>5, <1>15, <2>1, <2>2 DEF LeafWritten, ListAt, HoldsFlows
<1>26. Written(P, E)'
  <2>1. \A a \in DOMAIN file' : a \in Nat /\ a < length'
    BY <1>17
  <2>2. \A a \in DOMAIN file : a \in DOMAIN file' /\ file'[a] = file[a]
    BY <1>17
  <2>3. ASSUME NEW n \in D
        PROVE  IF isLeafNode(n) THEN LeafWritten(P, n)' ELSE InnerWritten(P, n)'
    <3>1. CASE isLeafNode(n)
      <4>1. LeafWritten(P, n)
        BY <1>13, <3>1 DEF Written
      <4>2. LeafWritten(P, n)'
        BY <1>1, <2>2, <4>1, LeafStays
      <4>. QED  BY <3>1, <4>2
    <3>2. CASE ~isLeafNode(n)
      <4>1. InnerWritten(P, n)
        BY <1>13, <3>2 DEF Written
      <4>2. InnerWritten(P, n)'
        BY <1>1, <2>2, <4>1, InnerStays
      <4>. QED  BY <3>2, <4>2
    <3>. QED  BY <3>1, <3>2
  <2>4. \A n \in E : IF isLeafNode(n) THEN LeafWritten(P, n)' ELSE InnerWritten(P, n)'
    BY <1>9, <1>25, <2>3
  <2> HIDE DEF E
  <2>. QED  BY <2>1, <2>4 DEF Written
<1>27. E \in SUBSET Node
  BY <1>2, <1>9
<1>28. Layout(P, E, e)'
  BY <1>22, <1>23, <1>24, <1>26 DEF Layout
<1> HIDE DEF E
<1>. QED  BY <1>27, <1>28

-----------------------------------------------------------------------------
(* The layout is an invariant.                                             *)

LEMMA FileStepKeeps == ASSUME FileInv, [Next]_vars PROVE FileInv'
<1>1. Core' /\ FileLaidOut
  BY CoreStep DEF FileInv
<1> SUFFICES FileLaidOut'
  BY <1>1 DEF FileInv
\* Steps that leave alone what the layout is about.
<1>2. CASE UNCHANGED <<tree, pc, written, intact>>
  <2>1. UNCHANGED <<child, bits, lists, ins, items, pc, written, intact>>
    BY <1>2 DEF tree
  <2>. QED  BY <1>1, <2>1, FileKept
<1>3. CASE UNCHANGED vars
  BY <1>2, <1>3 DEF vars
<1>4. CASE GetBitPosition \/ getBitPosition \/ computePositions \/ recountLeaf
  BY <1>2, <1>4 DEF GetBitPosition, newBitPosition, readWord, storePosition, getBitPosition,
       computePositions, recountLeaf, startFill
<1>5. CASE newChild \/ setBit \/ newNode \/ writeData \/ countElement \/ \E k \in Keys : addItem(k)
  BY <1>1, <1>5, FileOutside DEF newChild, setBit, newNode, writeData, countElement, Half, Adds, addItem, written
<1>6. CASE fopen \/ fclose
  BY <1>6, fopenLays, fcloseLays
<1>7. ASSUME NEW junk \in JunkPositions, write2file(junk) PROVE FileLaidOut'
  BY <1>7, write2fileLays
<1>8. ASSUME NEW junk \in JunkPositions, writeInterNode(junk) PROVE FileLaidOut'
  BY <1>8, writeInterNodeLays
<1>9. ASSUME NEW junk \in JunkPositions, writeLeafNode(junk) PROVE FileLaidOut'
  <2>1. CASE pc' = "crashed"
    BY <1>1, <2>1, FileOutside
  <2>2. CASE pc' # "crashed"
    BY <1>9, <2>2, writeLeafNodeLays
  <2>. QED  BY <2>1, <2>2
<1>10. ASSUME NEW junk \in JunkPositions, destroy(junk) PROVE FileLaidOut'
  BY <1>1, <1>10, FileOutside DEF destroy, crash
<1>11. CASE CommandThread
  <2>1. CASE \E d \in OnePosition : visitLeafNode(d)
    <3>1. UNCHANGED <<tree, written, intact>> /\ (pc' = pc \/ pc' = "crashed")
      BY <2>1 DEF visitLeafNode
    <3>. QED  BY <1>1, <1>2, <3>1, FileOutside
  <2>2. CASE \E r \in Ranges : queryFromMem(r)
    BY <1>2, <2>2 DEF queryFromMem
  <2>3. CASE endOfNode \/ nextLevel \/ return \/ readFreed \/ readElemNum \/ nextNode
    BY <1>2, <2>3 DEF endOfNode, nextLevel, return, readFreed, readElemNum, nextNode
  <2>4. CASE \E d \in OnePosition : seek(d) \/ visitInterNode(d)
    BY <1>2, <2>4 DEF seek, visitInterNode
  <2>5. CASE \E v, w \in Data : mergeTurn(v, w)
    BY <1>2, <2>5 DEF mergeTurn
  <2>. QED  BY <1>4, <1>11, <2>1, <2>2, <2>3, <2>4, <2>5 DEF CommandThread
<1>. QED
  BY <1>3, <1>4, <1>5, <1>6, <1>7, <1>8, <1>9, <1>10, <1>11 DEF Next, IndexThread

\* Whatever is in the file is laid out as the reader expects it.
THEOREM FileInvariance == Spec => []FileInv
<1>1. Init => FileInv
  BY CoreInit, FileInitHolds DEF FileInv
<1>2. FileInv /\ [Next]_vars => FileInv'
  BY FileStepKeeps
<1>. QED  BY <1>1, <1>2, PTL DEF Spec

-----------------------------------------------------------------------------
(* What queryFromFile reads.                                               *)

\* The file of a trie that was written: P is where a node is in the file, D are
\* the nodes that are written.
Readable(P, D) ==
  /\ Root \in D /\ P[Root] = 0
  /\ \A n \in Node, d \in Digit : ~isLeafNode(n) => (Child(n, d) \in D <=> n \in D /\ d \in bits[n])
  /\ \A n \in D : IF isLeafNode(n) THEN LeafWritten(P, n) ELSE InnerWritten(P, n)
  /\ \A n \in Node : elemCount(n) = Cardinality(bits[n])
  /\ \A v \in DOMAIN items : Missing(items[v]) = {}

LEMMA FileReadable ==
    ASSUME FileInv, pc = "written", file # NULL, intact
    PROVE  \E P \in [Node -> Nat], D \in SUBSET Node : Readable(P, D)
<1>1. PICK P \in [Node -> Nat], D \in SUBSET Node : \E e : Layout(P, D, e)
  BY DEF FileInv, FileLaidOut
<1>2. PICK e : Layout(P, D, e)
  BY <1>1
<1>3. bq = <<>>
  BY DEF FileInv, FileLaidOut
<1>4. ToSet(bq) = {}
  <2>1. DOMAIN <<>> = {}
    OBVIOUS
  <2>. QED  BY <1>3, <2>1, Zenon DEF ToSet
<1>5. \A n \in Node : elemCount(n) = Cardinality(bits[n])
  BY BitsChildren DEF FileInv, elemCount
<1>6. \A v \in DOMAIN items : Missing(items[v]) = {}
  BY BitsChildren DEF FileInv, Core, Added, Entered
<1>7. Readable(P, D)
  BY <1>2, <1>4, <1>5, <1>6 DEF Layout, Closed, Written, Readable
<1>. QED  BY <1>7

\* A node that was read is a node that is written, at its place.
Entry == [prefix : Nat, at : Nat]
AtPlace(P, D, l, f) == f \in Entry /\ <<l, f.prefix>> \in D /\ f.at = P[<<l, f.prefix>>]
Sound(P, D, l, s) == s \in Seq(Entry) /\ \A f \in ToSet(s) : AtPlace(P, D, l, f)

\* Every flow of the range is below one of those of a level.
AboveFlow(l, s, v) == \E f \in ToSet(s) : NodeOf(items[v], l) = <<l, f.prefix>>
Reaches(l, s, lo, hi) == \A v \in Found(lo, hi) : AboveFlow(l, s, v)

\* The digit of a flow of the range is set and lies in the range of the prefixes.
LEMMA FlowDigit ==
    ASSUME TreeOK, NEW P, NEW D, Readable(P, D), NEW l \in Level,
           NEW lo \in Nat, NEW hi \in Nat, NEW v \in Found(lo, hi)
    PROVE  LET k == items[v]
               d == DigitOf(k, l)
               n == NodeOf(k, l)
           IN  /\ k \in Nat /\ k \in Keys /\ d \in bits[n] /\ lo <= k /\ k <= hi
               /\ PrefixIn(l, lo) <= KeyOf(n, d) /\ KeyOf(n, d) <= PrefixIn(l, hi)
               /\ l + 1 \in Level => Child(n, d) = NodeOf(k, l + 1)
               /\ l = Depth - 1 => KeyOf(n, d) = k
               /\ d \in Digit
<1> DEFINE k == items[v]
<1>1. v \in DOMAIN items /\ lo <= k /\ k <= hi /\ k \in Keys
  BY DEF Found, TreeOK
<1>2. k \in Nat
  BY <1>1, RootOfKey, TrieAssumption
<1>3. DigitOf(k, l) \in bits[NodeOf(k, l)]
  BY <1>1 DEF Readable, Missing
<1> HIDE DEF k
<1>4. /\ KeyOf(NodeOf(k, l), DigitOf(k, l)) = PrefixIn(l, k)
      /\ l + 1 \in Level => Child(NodeOf(k, l), DigitOf(k, l)) = NodeOf(k, l + 1)
      /\ l = Depth - 1 => PrefixIn(l, k) = k
  BY <1>2, KeyPath
<1>5. PrefixIn(l, lo) <= PrefixIn(l, k) /\ PrefixIn(l, k) <= PrefixIn(l, hi)
  BY <1>1, <1>2, PrefixMonotone
<1>6. DigitOf(k, l) \in Digit
  BY <1>2, DigitOfKey
<1>. QED  BY <1>1, <1>2, <1>3, <1>4, <1>5, <1>6 DEF k

\* The digits that a loop visits are those of the node in the range, from low
\* to high; the first of them is at the place from.
Sees(n, seen, from, lo, hi) ==
  LET s == getOnePositions(bits[n])
      K == Cardinality(bits[n])
  IN  /\ K \in Nat /\ Len(s) = K /\ from \in 1 .. K + 1 /\ seen \in Seq(Nat) /\ Len(seen) \in Nat
      /\ \A j \in 1 .. Len(seen) :
           from + j - 1 \in 1 .. K /\ seen[j] = s[from + j - 1] /\ seen[j] \in bits[n]
           /\ lo <= KeyOf(n, seen[j]) /\ KeyOf(n, seen[j]) <= hi
      /\ \A d \in bits[n] : lo <= KeyOf(n, d) /\ KeyOf(n, d) <= hi
                              => \E j \in 1 .. Len(seen) : seen[j] = d
      /\ \A i, j \in 1 .. Len(seen) : i < j => seen[i] < seen[j]

LEMMA DigitsSeen ==
    ASSUME TreeOK, NEW n \in Node, NEW lo \in Nat, NEW hi \in Nat
    PROVE  LET s == getOnePositions(bits[n])
           IN  Sees(n, Visited(n, s, lo, hi), From(n, s, lo), lo, hi)
<1> DEFINE s == getOnePositions(bits[n])
           K == Cardinality(bits[n])
           seen == Visited(n, s, lo, hi)
           from == From(n, s, lo)
<1>1. bits[n] \in SUBSET Digit /\ Seq(Digit) \subseteq Seq(Nat)
  BY TrieAssumption DEF TreeOK, Digit
<1>2. s \in Seq(Nat) /\ K \in Nat /\ Len(s) = K
  BY <1>1, OnePositions
<1>3. /\ ToSet(seen) = {d \in bits[n] : lo <= KeyOf(n, d) /\ KeyOf(n, d) <= hi}
      /\ Increasing(seen)
  BY <1>1, VisitedBits
<1> HIDE DEF s, K
<1>4. /\ from \in 1 .. K + 1
      /\ \E b \in 0 .. K : RunOf(seen, s, Digit \ Below(n, lo), Digit \ Below(n, hi + 1), from, b)
  BY <1>2, VisitedRun
<1> HIDE DEF seen, from
<1>5. PICK b \in 0 .. K : RunOf(seen, s, Digit \ Below(n, lo), Digit \ Below(n, hi + 1), from, b)
  BY <1>4
<1>6. /\ seen \in Seq(Nat) /\ Len(seen) \in Nat /\ Len(seen) = b - from + 1
      /\ \A j \in 1 .. Len(seen) : seen[j] = s[from + j - 1]
  BY <1>5 DEF RunOf
<1>7. \A j \in 1 .. Len(seen) : from + j - 1 \in 1 .. K
  BY <1>2, <1>4, <1>6
<1>8. ToSet(seen) = {seen[j] : j \in 1 .. Len(seen)}
  <2>1. DOMAIN seen = 1 .. Len(seen)
    BY <1>6
  <2>. QED  BY <2>1, Zenon DEF ToSet
<1>9. \A j \in 1 .. Len(seen) : seen[j] \in bits[n] /\ lo <= KeyOf(n, seen[j]) /\ KeyOf(n, seen[j]) <= hi
  BY <1>3, <1>8
<1>10. \A d \in bits[n] : lo <= KeyOf(n, d) /\ KeyOf(n, d) <= hi => \E j \in 1 .. Len(seen) : seen[j] = d
  BY <1>3, <1>8
<1>11. \A i, j \in 1 .. Len(seen) : i < j => seen[i] < seen[j]
  BY <1>3 DEF Increasing
<1>. QED  BY <1>2, <1>4, <1>6, <1>7, <1>9, <1>10, <1>11 DEF Sees, s, K, seen, from

\* A step down reads children that are written, and those above the flows of the range.
LEMMA DownReads ==
    ASSUME TreeOK, NEW P \in [Node -> Nat], NEW D \in SUBSET Node, Readable(P, D),
           NEW l \in Level, l + 1 \in Level, NEW f, AtPlace(P, D, l, f),
           NEW lo \in Nat, NEW hi \in Nat
    PROVE  /\ Sound(P, D, l + 1, Down(l, f, lo, hi))
           /\ \A v \in Found(lo, hi) :
                NodeOf(items[v], l) = <<l, f.prefix>> => AboveFlow(l + 1, Down(l, f, lo, hi), v)
<1>0. PICK n : n = <<l, f.prefix>>
  OBVIOUS
<1> DEFINE s == getOnePositions(bits[n])
           K == Cardinality(bits[n])
           low == PrefixIn(l, lo)
           high == PrefixIn(l, hi)
           seen == Visited(n, s, low, high)
           from == From(n, s, low)
           down == Down(l, f, lo, hi)
<1>1. n \in Node /\ n \in D /\ f.at = P[n] /\ f.prefix \in Nat /\ n[1] = l /\ n[2] = f.prefix
  BY <1>0 DEF AtPlace, Entry
<1>2. l \in Nat /\ l # Depth - 1 /\ ~isLeafNode(n)
  BY <1>1, TrieAssumption DEF Level, isLeafNode
<1>3. low \in Nat /\ high \in Nat
  BY KeyPath
<1>4. file[f.at].set = s /\ \A i \in 1 .. K : file[f.at].off[i] = P[Child(n, s[i])]
  BY <1>1, <1>2 DEF Readable, InnerWritten
<1>5. down = [j \in DOMAIN seen |->
                [prefix |-> f.prefix * Base + seen[j], at |-> file[f.at].off[from + j - 1]]]
  BY <1>0, <1>4 DEF Down
<1> HIDE DEF low, high
<1>6. /\ K \in Nat /\ from \in 1 .. K + 1 /\ seen \in Seq(Nat) /\ Len(seen) \in Nat
      /\ \A j \in 1 .. Len(seen) :
           from + j - 1 \in 1 .. K /\ seen[j] = s[from + j - 1] /\ seen[j] \in bits[n]
      /\ \A d \in bits[n] : low <= KeyOf(n, d) /\ KeyOf(n, d) <= high
                              => \E j \in 1 .. Len(seen) : seen[j] = d
  <2>1. Sees(n, seen, from, low, high)
    BY <1>1, <1>3, DigitsSeen
  <2> HIDE DEF seen, from
  <2>. QED  BY <2>1, Zenon DEF Sees
<1> HIDE DEF s, K, seen, from, down
<1>7. DOMAIN seen = 1 .. Len(seen)
  BY <1>6
<1>8. ASSUME NEW j \in 1 .. Len(seen)
      PROVE  /\ down[j] = [prefix |-> f.prefix * Base + seen[j], at |-> file[f.at].off[from + j - 1]]
             /\ down[j] \in Entry /\ AtPlace(P, D, l + 1, down[j])
             /\ <<l + 1, down[j].prefix>> = Child(n, seen[j])
  <2>1. down[j] = [prefix |-> f.prefix * Base + seen[j], at |-> file[f.at].off[from + j - 1]]
    BY <1>5, <1>7
  <2>2. seen[j] \in Digit /\ seen[j] \in bits[n] /\ seen[j] \in Nat
    <3>1. bits[n] \in SUBSET Digit /\ Digit \subseteq Nat
      BY <1>1, TrieAssumption DEF TreeOK, Digit
    <3>2. seen[j] \in bits[n]
      BY <1>6
    <3>. QED  BY <3>1, <3>2
  <2>3. Child(n, seen[j]) \in Node /\ Child(n, seen[j]) \in D
    BY <1>1, <1>2, <2>2, ChildNode DEF Readable
  <2>4. file[f.at].off[from + j - 1] = P[Child(n, seen[j])]
    <3>1. from + j - 1 \in 1 .. K /\ seen[j] = s[from + j - 1]
      BY <1>6
    <3>. QED  BY <1>4, <3>1, Zenon
  <2>5. P[Child(n, seen[j])] \in Nat
    BY <2>3
  <2>6. Child(n, seen[j]) = <<l + 1, f.prefix * Base + seen[j]>>
    BY <1>1 DEF Child
  <2>7. f.prefix * Base + seen[j] \in Nat
    <3> DEFINE x == f.prefix
               y == seen[j]
    <3>1. x \in Nat /\ y \in Nat /\ Base \in Nat
      BY <1>1, <2>2, TrieAssumption
    <3> HIDE DEF x, y
    <3>2. x * Base + y \in Nat
      BY <3>1
    <3>. QED  BY <3>2 DEF x, y
  <2>. QED  BY <2>1, <2>3, <2>4, <2>5, <2>6, <2>7 DEF Entry, AtPlace
<1>9. DOMAIN down = 1 .. Len(seen)
  BY <1>5, <1>7
<1>10. down \in Seq(Entry)
  <2>1. down = [j \in 1 .. Len(seen) |-> down[j]]
    BY <1>5, <1>7
  <2>2. down \in [1 .. Len(seen) -> Entry]
    BY <1>8, <2>1
  <2>3. \A m \in Nat : [1 .. m -> Entry] \subseteq Seq(Entry)
    OBVIOUS
  <2>. QED  BY <1>6, <2>2, <2>3
<1>11. ToSet(down) = {down[j] : j \in 1 .. Len(seen)}
  BY <1>9, Zenon DEF ToSet
<1>12. Sound(P, D, l + 1, down)
  BY <1>8, <1>10, <1>11 DEF Sound
<1>13. ASSUME NEW v \in Found(lo, hi), NodeOf(items[v], l) = n
      PROVE  AboveFlow(l + 1, down, v)
  <2>1. /\ DigitOf(items[v], l) \in bits[n] /\ low <= KeyOf(n, DigitOf(items[v], l))
        /\ KeyOf(n, DigitOf(items[v], l)) <= high
        /\ Child(n, DigitOf(items[v], l)) = NodeOf(items[v], l + 1)
    BY <1>13, FlowDigit DEF low, high
  <2>2. PICK j \in 1 .. Len(seen) : seen[j] = DigitOf(items[v], l)
    BY <1>6, <2>1
  <2>3. NodeOf(items[v], l + 1) = <<l + 1, down[j].prefix>> /\ down[j] \in ToSet(down)
    BY <1>8, <1>11, <2>1, <2>2
  <2>. QED  BY <2>3 DEF AboveFlow
<1>. QED  BY <1>0, <1>12, <1>13 DEF down

\* The nodes of the next level.
NextFrontier(l, s, lo, hi) == FlattenSeq([i \in DOMAIN s |-> Down(l, s[i], lo, hi)])

LEMMA FrontierStep ==
    ASSUME TreeOK, NEW P \in [Node -> Nat], NEW D \in SUBSET Node, Readable(P, D),
           NEW l \in Level, l + 1 \in Level, NEW s, Sound(P, D, l, s),
           NEW lo \in Nat, NEW hi \in Nat
    PROVE  /\ Sound(P, D, l + 1, NextFrontier(l, s, lo, hi))
           /\ Reaches(l, s, lo, hi) => Reaches(l + 1, NextFrontier(l, s, lo, hi), lo, hi)
<1> DEFINE parts == [i \in DOMAIN s |-> Down(l, s[i], lo, hi)]
           next == NextFrontier(l, s, lo, hi)
<1>1. s \in Seq(Entry) /\ \A f \in ToSet(s) : AtPlace(P, D, l, f)
  BY DEF Sound
<1>2. Len(s) \in Nat /\ DOMAIN s = 1 .. Len(s) /\ \A i \in 1 .. Len(s) : s[i] \in ToSet(s)
  <2>1. Len(s) \in Nat /\ DOMAIN s = 1 .. Len(s)
    BY <1>1
  <2>. QED  BY <2>1 DEF ToSet
<1>3. ASSUME NEW i \in 1 .. Len(s)
      PROVE  /\ parts[i] = Down(l, s[i], lo, hi) /\ Sound(P, D, l + 1, parts[i])
             /\ \A v \in Found(lo, hi) :
                  NodeOf(items[v], l) = <<l, s[i].prefix>> => AboveFlow(l + 1, parts[i], v)
  <2>1. AtPlace(P, D, l, s[i]) /\ parts[i] = Down(l, s[i], lo, hi)
    BY <1>1, <1>2
  <2>2. PICK f : f = s[i]
    OBVIOUS
  <2>3. /\ Sound(P, D, l + 1, Down(l, f, lo, hi))
        /\ \A v \in Found(lo, hi) :
             NodeOf(items[v], l) = <<l, f.prefix>> => AboveFlow(l + 1, Down(l, f, lo, hi), v)
    BY <2>1, <2>2, DownReads
  <2> HIDE DEF parts
  <2>. QED  BY <2>1, <2>2, <2>3
<1>4. parts \in Seq(Seq(Entry)) /\ Len(parts) = Len(s)
  <2>1. parts = [i \in 1 .. Len(s) |-> parts[i]]
    BY <1>2
  <2> HIDE DEF parts
  <2>2. \A i \in 1 .. Len(s) : parts[i] \in Seq(Entry)
    BY <1>3 DEF Sound
  <2>3. parts \in [1 .. Len(s) -> Seq(Entry)]
    BY <2>1, <2>2
  <2>. QED  BY <1>2, <2>3
<1>5. next = FlattenSeq(parts)
  BY DEF NextFrontier
<1> HIDE DEF parts, next
<1>6. next \in Seq(Entry) /\ ToSet(next) = UNION {ToSet(parts[i]) : i \in 1 .. Len(s)}
  BY <1>4, <1>5, FlattenElements
<1>7. Sound(P, D, l + 1, next)
  <2>1. ASSUME NEW i \in 1 .. Len(s), NEW f \in ToSet(parts[i]) PROVE AtPlace(P, D, l + 1, f)
    BY <1>3 DEF Sound
  <2>. QED  BY <1>6, <2>1 DEF Sound
<1>8. ASSUME Reaches(l, s, lo, hi), NEW v \in Found(lo, hi) PROVE AboveFlow(l + 1, next, v)
  <2>1. PICK f \in ToSet(s) : NodeOf(items[v], l) = <<l, f.prefix>>
    BY <1>8 DEF Reaches, AboveFlow
  <2>2. PICK i \in 1 .. Len(s) : f = s[i]
    BY <1>2 DEF ToSet
  <2>3. AboveFlow(l + 1, parts[i], v)
    BY <1>3, <2>1, <2>2
  <2>4. PICK g \in ToSet(parts[i]) : NodeOf(items[v], l + 1) = <<l + 1, g.prefix>>
    BY <2>3 DEF AboveFlow
  <2>5. g \in ToSet(next)
    BY <1>6, <2>4
  <2>. QED  BY <2>4, <2>5 DEF AboveFlow
<1>. QED  BY <1>7, <1>8 DEF Reaches, next

LEMMA FrontierBegins ==
    ASSUME TreeOK, NEW P, NEW D, Readable(P, D), NEW lo, NEW hi
    PROVE  LET s == <<[prefix |-> 0, at |-> 0]>>
           IN  s \in Seq(Entry) /\ Sound(P, D, 0, s) /\ Reaches(0, s, lo, hi)
<1> DEFINE f == [prefix |-> 0, at |-> 0]
<1>1. f \in Entry /\ f.prefix = 0 /\ f.at = 0
  BY DEF Entry
<1> HIDE DEF f
<1>2. <<f>> \in Seq(Entry) /\ ToSet(<<f>>) = {f}
  <2>1. <<f>> \in Seq(Entry)
    BY <1>1
  <2>2. ToSet(<<f>>) = {f}
    BY DEF ToSet
  <2>. QED  BY <2>1, <2>2
<1>3. AtPlace(P, D, 0, f)
  BY <1>1 DEF AtPlace, Readable, Root
<1>4. ASSUME NEW v \in Found(lo, hi) PROVE AboveFlow(0, <<f>>, v)
  <2>1. items[v] \in Keys
    BY DEF Found, TreeOK
  <2>2. NodeOf(items[v], 0) = Root
    BY <2>1, RootOfKey, TrieAssumption
  <2>. QED  BY <1>1, <1>2, <2>2 DEF AboveFlow, Root
<1>. QED  BY <1>2, <1>3, <1>4 DEF Sound, Reaches, f

\* The leaves that queryFromFile reaches, each at its place, and every flow of
\* the range is below one of them.
LEMMA FrontierReads ==
    ASSUME TreeOK, NEW P \in [Node -> Nat], NEW D \in SUBSET Node, Readable(P, D),
           NEW lo \in Nat, NEW hi \in Nat
    PROVE  /\ Sound(P, D, Depth - 1, Frontier(lo, hi))
           /\ Reaches(Depth - 1, Frontier(lo, hi), lo, hi)
<1> DEFINE M == Depth - 1
           start == <<[prefix |-> 0, at |-> 0]>>
           X == Seq(Entry)
           step == [x \in (1 .. M) \X X |->
                     IF Sound(P, D, x[1] - 1, x[2]) THEN NextFrontier(x[1] - 1, x[2], lo, hi) ELSE <<>>]
<1>1. M \in Nat /\ Level = 0 .. M
  BY TrieAssumption DEF Level
<1>2. \A l \in 1 .. M : l - 1 \in Level /\ l \in Level /\ (l - 1) + 1 = l /\ l # 0 /\ l \in Nat
  BY <1>1
<1>3. start \in X /\ Sound(P, D, 0, start) /\ Reaches(0, start, lo, hi)
  BY FrontierBegins
<1> HIDE DEF start
<1>4. ASSUME NEW l \in 1 .. M, NEW s, Sound(P, D, l - 1, s)
      PROVE  /\ NextFrontier(l - 1, s, lo, hi) \in X
             /\ Sound(P, D, l, NextFrontier(l - 1, s, lo, hi))
             /\ Reaches(l - 1, s, lo, hi) => Reaches(l, NextFrontier(l - 1, s, lo, hi), lo, hi)
  <2> DEFINE k == l - 1
  <2>1. k \in Level /\ k + 1 \in Level /\ k + 1 = l /\ Sound(P, D, k, s)
    BY <1>2, <1>4
  <2> HIDE DEF k
  <2>2. /\ Sound(P, D, k + 1, NextFrontier(k, s, lo, hi))
        /\ Reaches(k, s, lo, hi) => Reaches(k + 1, NextFrontier(k, s, lo, hi), lo, hi)
    BY <2>1, FrontierStep
  <2>3. Sound(P, D, l, NextFrontier(k, s, lo, hi))
    BY <2>1, <2>2
  <2>. QED  BY <2>1, <2>2, <2>3 DEF k, Sound
<1>5. \A l \in 1 .. M, s \in X :
        step[<<l, s>>] = IF Sound(P, D, l - 1, s) THEN NextFrontier(l - 1, s, lo, hi) ELSE <<>>
  <2> HIDE DEF M, X
  <2>. QED  OBVIOUS
<1>6. step \in [(1 .. M) \X X -> X]
  <2>1. <<>> \in X
    OBVIOUS
  <2> HIDE DEF X, M
  <2>2. ASSUME NEW x \in (1 .. M) \X X
        PROVE  (IF Sound(P, D, x[1] - 1, x[2]) THEN NextFrontier(x[1] - 1, x[2], lo, hi) ELSE <<>>) \in X
    <3>1. x[1] \in 1 .. M /\ x[2] \in X
      OBVIOUS
    <3>. QED  BY <1>4, <2>1, <3>1
  <2>. QED  BY <2>2
<1> HIDE DEF step, X, M
<1>7. PICK f \in Recursions(M, X, start, step) : TRUE
  BY <1>1, <1>3, <1>6, RecursionExists
<1>8. f \in [0 .. M -> X] /\ f[0] = start /\ \A l \in 1 .. M : f[l] = step[<<l, f[l - 1]>>]
  BY <1>7 DEF Recursions
<1> DEFINE R == {l \in 0 .. M : Sound(P, D, l, f[l])}
<1>9. 0 .. M \subseteq R
  <2>1. 0 \in R
    BY <1>1, <1>3, <1>8
  <2>2. ASSUME NEW l \in 0 .. M - 1, l \in R PROVE l + 1 \in R
    <3>1. l + 1 \in 1 .. M /\ l + 1 \in 0 .. M /\ (l + 1) - 1 = l /\ l \in 0 .. M
      BY <1>1
    <3>2. f[l + 1] = step[<<l + 1, f[(l + 1) - 1]>>] /\ f[l] \in X
      BY <1>8, <3>1
    <3>3. f[l + 1] = NextFrontier((l + 1) - 1, f[l], lo, hi)
      BY <1>5, <2>2, <3>1, <3>2
    <3>4. Sound(P, D, l + 1, f[l + 1])
      BY <1>4, <2>2, <3>1, <3>3
    <3>. QED  BY <3>1, <3>4
  <2> HIDE DEF R
  <2>. QED  BY <1>1, <2>1, <2>2, Climb
<1>10. \A l \in 1 .. M : f[l] = NextFrontier(l - 1, f[l - 1], lo, hi)
  <2> TAKE l \in 1 .. M
  <2>1. l - 1 \in 0 .. M
    BY <1>1
  <2>2. Sound(P, D, l - 1, f[l - 1]) /\ f[l - 1] \in X
    BY <1>8, <1>9, <2>1
  <2>. QED  BY <1>5, <1>8, <2>2
<1> DEFINE F == CHOOSE g : g = [l \in Level |->
                    IF l = 0 THEN start
                    ELSE FlattenSeq([i \in DOMAIN g[l - 1] |-> Down(l - 1, g[l - 1][i], lo, hi)])]
<1>11. f = [l \in Level |->
              IF l = 0 THEN start
              ELSE FlattenSeq([i \in DOMAIN f[l - 1] |-> Down(l - 1, f[l - 1][i], lo, hi)])]
  <2>1. \A l \in 0 .. M : l # 0 => l \in 1 .. M
    BY <1>1
  <2>2. \A l \in 0 .. M : f[l] = IF l = 0 THEN start ELSE NextFrontier(l - 1, f[l - 1], lo, hi)
    BY <1>8, <1>10, <2>1
  <2>3. f = [l \in Level |-> IF l = 0 THEN start ELSE NextFrontier(l - 1, f[l - 1], lo, hi)]
    BY <1>1, <1>8, <2>2
  <2>. QED  BY <2>3 DEF NextFrontier
<1>12. F = [l \in Level |->
              IF l = 0 THEN start
              ELSE FlattenSeq([i \in DOMAIN F[l - 1] |-> Down(l - 1, F[l - 1][i], lo, hi)])]
  <2> DEFINE fix(g) == [l \in Level |->
                    IF l = 0 THEN start
                    ELSE FlattenSeq([i \in DOMAIN g[l - 1] |-> Down(l - 1, g[l - 1][i], lo, hi)])]
  <2>1. f = fix(f) /\ F = CHOOSE g : g = fix(g)
    BY <1>11
  <2> HIDE DEF fix, F
  <2>2. F = fix(F)
    BY <2>1
  <2>. QED  BY <2>2 DEF fix
<1>13. Frontier(lo, hi) = F[Depth - 1]
  BY DEF Frontier, start
<1> HIDE DEF F
<1>14. F[0] = start /\ \A l \in 1 .. M : F[l] = NextFrontier(l - 1, F[l - 1], lo, hi)
  <2> DEFINE at(l) == FlattenSeq([i \in DOMAIN F[l - 1] |-> Down(l - 1, F[l - 1][i], lo, hi)])
  <2>1. F = [l \in Level |-> IF l = 0 THEN start ELSE at(l)]
    BY <1>12
  <2>2. \A l : at(l) = NextFrontier(l - 1, F[l - 1], lo, hi)
    BY DEF NextFrontier
  <2> HIDE DEF at
  <2>3. 0 \in Level /\ F[0] = start
    BY <1>1, <2>1
  <2>4. \A l \in 1 .. M : F[l] = at(l)
    BY <1>2, <2>1
  <2>. QED  BY <2>2, <2>3, <2>4
<1> DEFINE T == {l \in 0 .. M : Sound(P, D, l, F[l]) /\ Reaches(l, F[l], lo, hi)}
<1>15. 0 .. M \subseteq T
  <2>1. 0 \in T
    BY <1>1, <1>3, <1>14
  <2>2. ASSUME NEW l \in 0 .. M - 1, l \in T PROVE l + 1 \in T
    <3>1. l + 1 \in 1 .. M /\ l + 1 \in 0 .. M /\ (l + 1) - 1 = l
      BY <1>1
    <3>2. F[l + 1] = NextFrontier((l + 1) - 1, F[(l + 1) - 1], lo, hi)
      BY <1>14, <3>1
    <3>3. Sound(P, D, (l + 1) - 1, F[(l + 1) - 1]) /\ Reaches((l + 1) - 1, F[(l + 1) - 1], lo, hi)
      BY <2>2, <3>1
    <3>4. Sound(P, D, l + 1, F[l + 1]) /\ Reaches(l + 1, F[l + 1], lo, hi)
      BY <1>4, <3>1, <3>2, <3>3
    <3>. QED  BY <3>1, <3>4
  <2> HIDE DEF T
  <2>. QED  BY <1>1, <2>1, <2>2, Climb
<1>16. M \in T /\ M = Depth - 1
  <2>1. M \in 0 .. M
    BY <1>1
  <2>. QED  BY <1>15, <2>1 DEF M
<1>. QED  BY <1>13, <1>16

-----------------------------------------------------------------------------
(* The lists of a leaf, read one after the other.                          *)

(* The lists of a leaf, read one after the other.                          *)

InKeyOrder(s) == \A a, b \in 1 .. Len(s) : a < b => Before(s[a], s[b])

LEMMA JoinedInKeyOrder ==
    ASSUME NEW s \in Seq(Nat), NEW t \in Seq(Nat), InKeyOrder(s), InKeyOrder(t),
           \A v \in ToSet(s), w \in ToSet(t) : Before(v, w)
    PROVE  InKeyOrder(s \o t)
<1> DEFINE u == s \o t
<1>1. /\ Len(s) \in Nat /\ Len(t) \in Nat /\ Len(u) = Len(s) + Len(t)
      /\ \A i \in 1 .. Len(s) : u[i] = s[i]
      /\ \A i \in 1 .. Len(t) : u[Len(s) + i] = t[i]
  OBVIOUS
<1> HIDE DEF u
<1>2. (\A i \in 1 .. Len(s) : s[i] \in ToSet(s)) /\ (\A i \in 1 .. Len(t) : t[i] \in ToSet(t))
  <2>1. DOMAIN s = 1 .. Len(s) /\ DOMAIN t = 1 .. Len(t)
    OBVIOUS
  <2>. QED  BY <2>1 DEF ToSet
<1>3. \A i \in 1 .. Len(u) : \/ i \in 1 .. Len(s)
                             \/ \E j \in 1 .. Len(t) : i = Len(s) + j
  <2> TAKE i \in 1 .. Len(u)
  <2>1. CASE i \in 1 .. Len(s)
    BY <2>1
  <2>2. CASE i \notin 1 .. Len(s)
    <3>1. i - Len(s) \in 1 .. Len(t) /\ i = Len(s) + (i - Len(s))
      BY <1>1, <2>2
    <3>. QED  BY <3>1
  <2>. QED  BY <2>1, <2>2
<1>4. ASSUME NEW a \in 1 .. Len(u), NEW b \in 1 .. Len(u), a < b PROVE Before(u[a], u[b])
  <2>1. CASE b \in 1 .. Len(s)
    <3>1. a \in 1 .. Len(s)
      BY <1>1, <1>4, <2>1
    <3>2. Before(s[a], s[b])
      BY <1>4, <2>1, <3>1 DEF InKeyOrder
    <3>. QED  BY <1>1, <2>1, <3>1, <3>2
  <2>2. CASE \E j \in 1 .. Len(t) : b = Len(s) + j
    <3>1. PICK j \in 1 .. Len(t) : b = Len(s) + j
      BY <2>2
    <3>2. CASE a \in 1 .. Len(s)
      BY <1>1, <1>2, <3>1, <3>2
    <3>3. CASE \E k \in 1 .. Len(t) : a = Len(s) + k
      <4>1. PICK k \in 1 .. Len(t) : a = Len(s) + k
        BY <3>3
      <4>2. k < j
        BY <1>1, <1>4, <3>1, <4>1
      <4>3. Before(t[k], t[j])
        BY <4>2 DEF InKeyOrder
      <4>. QED  BY <1>1, <3>1, <4>1, <4>3
    <3>. QED  BY <1>3, <3>2, <3>3
  <2>. QED  BY <1>3, <2>1, <2>2
<1>. QED  BY <1>4 DEF InKeyOrder, u

\* What is read of leaf n after i of the digits that are seen: the place of the
\* next list, and the flows of the keys below those digits.
Reading == [fp : Nat \cup {NULL}, ret : Seq(Nat)]
ReadSoFar(P, n, seen, from, i, r) ==
  /\ r \in Reading
  /\ from + i <= Cardinality(bits[n]) => r.fp = P[n] + HeaderSize(n) + file[P[n]].off[from + i]
  /\ ToSet(r.ret) = {v \in DOMAIN items : \E j \in 1 .. i : items[v] = KeyOf(n, seen[j])}
  /\ InKeyOrder(r.ret)

LEMMA ReadStep ==
    ASSUME TreeOK, Linked, NEW P \in [Node -> Nat], NEW D, Readable(P, D),
           NEW n \in Node, n \in D, isLeafNode(n),
           NEW seen, NEW from, NEW lo, NEW hi, Sees(n, seen, from, lo, hi),
           NEW i \in 0 .. Len(seen) - 1, NEW r, ReadSoFar(P, n, seen, from, i, r)
    PROVE  ReadSoFar(P, n, seen, from, i + 1, readFromFileAndMerge(r))
<1> DEFINE s == getOnePositions(bits[n])
<1>1. PICK K \in Nat : K = Cardinality(bits[n])
  BY DEF Sees
<1>2. /\ Len(seen) \in Nat /\ from \in 1 .. K + 1
      /\ \A j \in 1 .. Len(seen) :
           from + j - 1 \in 1 .. K /\ seen[j] = s[from + j - 1] /\ seen[j] \in bits[n]
      /\ \A j, k \in 1 .. Len(seen) : j < k => seen[j] < seen[k]
  BY <1>1, Zenon DEF Sees
<1> HIDE DEF s
<1>3. i \in Nat /\ i + 1 \in 1 .. Len(seen) /\ from + (i + 1) - 1 = from + i
  BY <1>2
<1>4. PICK m \in 1 .. K : m = from + i /\ seen[i + 1] = s[m] /\ from + (i + 1) = m + 1
  <2>1. from + i \in 1 .. K /\ seen[i + 1] = s[from + i]
    BY <1>2, <1>3
  <2>2. from + (i + 1) = (from + i) + 1
    BY <1>2, <1>3
  <2>. QED  BY <2>1, <2>2
<1>5. LeafWritten(P, n)
  BY DEF Readable
<1>6. PICK o : o = file[P[n]].off
  OBVIOUS
<1>7. PICK a : a = P[n] + HeaderSize(n) + o[m]
  OBVIOUS
<1>8. /\ o[m] \in Nat /\ ListAt(a, KeyOf(n, s[m]))
      /\ m < K => o[m + 1] = o[m] + (4 + 8 * Len(file[a].list))
  BY <1>1, <1>4, <1>5, <1>6, <1>7 DEF LeafWritten, s
<1>9. P[n] \in Nat /\ HeaderSize(n) \in Nat
  BY SizeType
<1>10. PICK list : list = file[a].list
  OBVIOUS
<1>11. PICK k : k = KeyOf(n, seen[i + 1])
  OBVIOUS
<1>12. /\ a \in DOMAIN file /\ "list" \in DOMAIN file[a]
       /\ list \in Seq(Nat) /\ Increasing(list) /\ ToSet(list) = {v \in DOMAIN items : items[v] = k}
  BY <1>4, <1>8, <1>10, <1>11, Zenon DEF ListAt, HoldsFlows
<1>13. /\ r.fp = a /\ r.ret \in Seq(Nat) /\ InKeyOrder(r.ret)
       /\ ToSet(r.ret) = {v \in DOMAIN items : \E j \in 1 .. i : items[v] = KeyOf(n, seen[j])}
  <2>1. m <= K
    BY <1>4
  <2>. QED  BY <1>1, <1>4, <1>6, <1>7, <2>1 DEF ReadSoFar, Reading
<1>14. readFromFileAndMerge(r) = [fp |-> a + 4 + 8 * Len(list), ret |-> r.ret \o list]
  BY <1>10, <1>12, <1>13 DEF readFromFileAndMerge
<1>15. PICK t : t = readFromFileAndMerge(r) /\ t.fp = a + 4 + 8 * Len(list) /\ t.ret = r.ret \o list
                /\ t = [fp |-> t.fp, ret |-> t.ret]
  BY <1>14
<1>16. a \in Nat /\ Len(list) \in Nat /\ a + 4 + 8 * Len(list) \in Nat
  <2>1. \A x, y, z \in Nat : x + y + z \in Nat /\ x + 4 + 8 * y \in Nat
    OBVIOUS
  <2>2. a \in Nat
    BY <1>7, <1>8, <1>9, <2>1
  <2>3. Len(list) \in Nat
    BY <1>12
  <2>. QED  BY <2>1, <2>2, <2>3
<1>17. t \in Reading
  <2>1. r.ret \o list \in Seq(Nat)
    BY <1>12, <1>13
  <2>. QED  BY <1>15, <1>16, <2>1 DEF Reading
<1>18. from + (i + 1) <= K => t.fp = P[n] + HeaderSize(n) + o[from + (i + 1)]
  <2> SUFFICES ASSUME m + 1 <= K PROVE t.fp = P[n] + HeaderSize(n) + o[m + 1]
    BY <1>4
  <2>1. o[m + 1] = o[m] + (4 + 8 * Len(list))
    <3>1. m < K
      BY <1>4
    <3>. QED  BY <1>8, <1>10, <3>1
  <2> DEFINE x == P[n]
             y == HeaderSize(n)
             z == o[m]
             l == Len(list)
             w == o[m + 1]
  <2>2. x \in Nat /\ y \in Nat /\ z \in Nat /\ l \in Nat /\ a = x + y + z /\ w = z + (4 + 8 * l)
    BY <1>7, <1>8, <1>9, <1>16, <2>1
  <2> HIDE DEF x, y, z, l, w
  <2>3. a + 4 + 8 * l = x + y + w
    BY <2>2
  <2>. QED  BY <1>15, <2>3 DEF x, y, l, w
<1>19. ToSet(t.ret) = ToSet(r.ret) \cup ToSet(list)
  BY <1>12, <1>13, <1>15, JoinedElements
<1>20. ToSet(t.ret) = {v \in DOMAIN items : \E j \in 1 .. i + 1 : items[v] = KeyOf(n, seen[j])}
  <2>1. \A j : j \in 1 .. i + 1 <=> j \in 1 .. i \/ j = i + 1
    BY <1>3
  <2>2. \A v \in DOMAIN items :
          (\E j \in 1 .. i + 1 : items[v] = KeyOf(n, seen[j]))
            <=> (\E j \in 1 .. i : items[v] = KeyOf(n, seen[j])) \/ items[v] = k
    BY <1>11, <2>1
  <2>. QED  BY <1>12, <1>13, <1>19, <2>2
<1>21. \A d \in Digit : KeyOf(n, d) \in Nat /\ (\A e \in Digit : e < d => KeyOf(n, e) < KeyOf(n, d))
  <2> DEFINE x == n[2] * Base
  <2>1. x \in Nat /\ Digit \subseteq Nat
    <3>1. n[2] \in Nat /\ Base \in Nat /\ Digit \subseteq Nat
      BY NodeShape, PrefixCountDefined, TrieAssumption DEF Digit
    <3>. QED  BY <3>1
  <2>2. \A d \in Digit : KeyOf(n, d) = x + d
    BY DEF KeyOf
  <2> HIDE DEF x
  <2>. QED  BY <2>1, <2>2
<1>22. ASSUME NEW v \in ToSet(r.ret), NEW w \in ToSet(list) PROVE Before(v, w)
  <2>1. PICK j \in 1 .. i : items[v] = KeyOf(n, seen[j])
    BY <1>13
  <2>2. items[w] = KeyOf(n, seen[i + 1])
    BY <1>11, <1>12
  <2>3. j \in 1 .. Len(seen) /\ j < i + 1
    BY <1>2, <1>3
  <2>4. seen[j] < seen[i + 1] /\ seen[j] \in bits[n] /\ seen[i + 1] \in bits[n]
    BY <1>2, <1>3, <2>3
  <2>5. bits[n] \in SUBSET Digit
    BY DEF TreeOK
  <2>6. KeyOf(n, seen[j]) < KeyOf(n, seen[i + 1])
    BY <1>21, <2>4, <2>5
  <2>. QED  BY <2>1, <2>2, <2>6 DEF Before
<1>23. InKeyOrder(list)
  <2> SUFFICES ASSUME NEW b \in 1 .. Len(list), NEW c \in 1 .. Len(list), b < c
               PROVE  Before(list[b], list[c])
    BY DEF InKeyOrder
  <2>1. list[b] < list[c]
    BY <1>12 DEF Increasing
  <2>2. list[b] \in ToSet(list) /\ list[c] \in ToSet(list)
    <3>1. DOMAIN list = 1 .. Len(list)
      BY <1>12
    <3>. QED  BY <3>1 DEF ToSet
  <2>3. items[list[b]] = k /\ items[list[c]] = k
    BY <1>12, <2>2
  <2>. QED  BY <2>1, <2>3 DEF Before
<1>24. InKeyOrder(t.ret)
  BY <1>12, <1>13, <1>15, <1>22, <1>23, JoinedInKeyOrder
<1>25. ReadSoFar(P, n, seen, from, i + 1, t)
  BY <1>1, <1>6, <1>17, <1>18, <1>20, <1>24 DEF ReadSoFar
<1>. QED  BY <1>15, <1>25

\* From the end of its header a leaf reads the flows of the digits that are seen.
LEMMA LeafReads ==
    ASSUME TreeOK, Linked, NEW P \in [Node -> Nat], NEW D \in SUBSET Node, Readable(P, D),
           NEW f, AtPlace(P, D, Depth - 1, f), NEW lo \in Nat, NEW hi \in Nat
    PROVE  LET found == readLeaf([fp |-> HeaderEnd(f.at), ret |-> <<>>], f, lo, hi).ret
           IN  /\ ToSet(found) = {v \in Found(lo, hi) : NodeOf(items[v], Depth - 1) = <<Depth - 1, f.prefix>>}
               /\ found \in Seq(Nat) /\ InKeyOrder(found)
<1>1. PICK n : n = <<Depth - 1, f.prefix>>
  OBVIOUS
<1>2. n \in Node /\ n \in D /\ f.at = P[n] /\ isLeafNode(n)
  BY <1>1 DEF AtPlace, isLeafNode
<1>3. PICK s : s = getOnePositions(bits[n])
  OBVIOUS
<1> DEFINE seen == Visited(n, s, lo, hi)
           from == From(n, s, lo)
<1>4. Sees(n, seen, from, lo, hi)
  BY <1>2, <1>3, DigitsSeen
<1> HIDE DEF seen, from
<1>5. PICK K \in Nat : K = Cardinality(bits[n]) /\ Len(s) = K
  BY <1>3, <1>4 DEF Sees
<1>6. PICK L \in Nat : L = Len(seen) /\ DOMAIN seen = 1 .. L
  BY <1>4 DEF Sees
<1>7. /\ from \in 1 .. K + 1
      /\ \A j \in 1 .. L : /\ seen[j] \in bits[n] /\ lo <= KeyOf(n, seen[j]) /\ KeyOf(n, seen[j]) <= hi
                           /\ from + j - 1 \in 1 .. K
      /\ \A d \in bits[n] : lo <= KeyOf(n, d) /\ KeyOf(n, d) <= hi => \E j \in 1 .. L : seen[j] = d
  BY <1>4, <1>5, <1>6, Zenon DEF Sees
<1>8. LeafWritten(P, n) /\ elemCount(n) = K
  BY <1>2, <1>5 DEF Readable
<1>9. file[f.at].set = s
  BY <1>2, <1>3, <1>8 DEF LeafWritten
\* The header ends where the lists begin.
<1>10. PICK b \in Nat : b = HeaderEnd(f.at) /\ b = P[n] + HeaderSize(n) /\ b # NULL
  <2>1. HeaderSize(n) \in Nat /\ P[n] \in Nat
    BY <1>2, SizeType
  <2> DEFINE w == Words
  <2>2. w \in Nat
    <3>1. Base + WordBits - 1 \in Nat /\ WordBits \in Nat \ {0}
      BY TrieAssumption
    <3>. QED  BY <3>1, Division DEF Words
  <2>3. HeaderEnd(f.at) = P[n] + 3 + 4 + 4 * w + 4 * K /\ HeaderSize(n) = 3 + 4 + 4 * w + 4 * K
    BY <1>2, <1>5, <1>8, <1>9 DEF HeaderEnd, HeaderSize
  <2> HIDE DEF w
  <2>4. HeaderEnd(f.at) = P[n] + HeaderSize(n)
    <3> DEFINE x == P[n]
    <3>1. x \in Nat /\ x + 3 + 4 + 4 * w + 4 * K = x + (3 + 4 + 4 * w + 4 * K)
      BY <2>1, <2>2
    <3> HIDE DEF x
    <3>. QED  BY <2>3, <3>1 DEF x
  <2>5. P[n] + HeaderSize(n) \in Nat
    BY <2>1
  <2>. QED  BY <2>4, <2>5, TrieAssumption
<1> DEFINE start == [fp |-> IF b = NULL \/ from > Len(s) THEN NULL ELSE b + file[f.at].off[from],
                     ret |-> <<>>]
           D0 == Reading
           step == [x \in (1 .. L) \X D0 |->
                     IF ReadSoFar(P, n, seen, from, x[1] - 1, x[2]) THEN readFromFileAndMerge(x[2]) ELSE start]
\* It seeks the first list of the range.
<1>11. ReadSoFar(P, n, seen, from, 0, start)
  <2>1. start.ret = <<>> /\ ToSet(<<>>) = {}
    BY DEF ToSet
  <2>2. from <= K => start.fp = b + file[P[n]].off[from] /\ file[P[n]].off[from] \in Nat
    <3> SUFFICES ASSUME from <= K
                 PROVE  start.fp = b + file[P[n]].off[from] /\ file[P[n]].off[from] \in Nat
      OBVIOUS
    <3>1. from \in 1 .. K /\ ~(from > Len(s))
      BY <1>5, <1>7
    <3>2. file[P[n]].off[from] \in Nat
      BY <1>5, <1>8, <3>1 DEF LeafWritten
    <3>. QED  BY <1>2, <1>10, <3>1, <3>2
  <2>3. ~(from <= K) => start.fp = NULL
    BY <1>5, <1>7
  <2>4. start \in Reading
    <3>1. start.fp \in Nat \cup {NULL}
      <4> HIDE DEF start
      <4>1. \A x \in Nat : b + x \in Nat
        OBVIOUS
      <4>. QED  BY <2>2, <2>3, <4>1
    <3>2. start.ret \in Seq(Nat)
      OBVIOUS
    <3>3. start = [fp |-> start.fp, ret |-> start.ret]
      OBVIOUS
    <3> HIDE DEF start
    <3>. QED  BY <3>1, <3>2, <3>3 DEF Reading
  <2>5. from + 0 = from
    BY <1>7
  <2>6. InKeyOrder(<<>>)
    BY DEF InKeyOrder
  <2>7. {v \in DOMAIN items : \E j \in 1 .. 0 : items[v] = KeyOf(n, seen[j])} = {}
    OBVIOUS
  <2> HIDE DEF start
  <2>. QED  BY <1>5, <1>10, <2>1, <2>2, <2>4, <2>5, <2>6, <2>7 DEF ReadSoFar
<1> HIDE DEF start
<1>12. ASSUME NEW i \in 1 .. L, NEW r, ReadSoFar(P, n, seen, from, i - 1, r)
       PROVE  ReadSoFar(P, n, seen, from, i, readFromFileAndMerge(r))
  <2> DEFINE j == i - 1
  <2>1. j \in 0 .. Len(seen) - 1 /\ j + 1 = i
    BY <1>6
  <2>2. ReadSoFar(P, n, seen, from, j, r)
    BY <1>12
  <2> HIDE DEF j
  <2>3. ReadSoFar(P, n, seen, from, j + 1, readFromFileAndMerge(r))
    BY <1>2, <1>4, <2>1, <2>2, ReadStep
  <2>. QED  BY <2>1, <2>3
<1>13. \A i \in 1 .. L, r \in D0 :
         step[<<i, r>>] = IF ReadSoFar(P, n, seen, from, i - 1, r) THEN readFromFileAndMerge(r) ELSE start
  <2> HIDE DEF D0
  <2>. QED  OBVIOUS
<1>14. step \in [(1 .. L) \X D0 -> D0] /\ start \in D0
  <2>1. \A i, r : ReadSoFar(P, n, seen, from, i, r) => r \in D0
    BY DEF ReadSoFar
  <2>2. start \in D0
    BY <1>11, <2>1
  <2> HIDE DEF D0
  <2>3. ASSUME NEW x \in (1 .. L) \X D0
        PROVE  (IF ReadSoFar(P, n, seen, from, x[1] - 1, x[2])
                THEN readFromFileAndMerge(x[2]) ELSE start) \in D0
    <3>1. x[1] \in 1 .. L
      OBVIOUS
    <3>. QED  BY <1>12, <2>1, <2>2, <3>1
  <2>. QED  BY <2>2, <2>3
<1> HIDE DEF step, D0
<1>15. PICK g \in Recursions(L, D0, start, step) : TRUE
  BY <1>14, RecursionExists
<1>16. g \in [0 .. L -> D0] /\ g[0] = start /\ \A i \in 1 .. L : g[i] = step[<<i, g[i - 1]>>]
  BY <1>15 DEF Recursions
<1> DEFINE R == {i \in 0 .. L : ReadSoFar(P, n, seen, from, i, g[i])}
<1>17. 0 .. L \subseteq R
  <2>1. 0 \in R
    BY <1>11, <1>16
  <2>2. ASSUME NEW i \in 0 .. L - 1, i \in R PROVE i + 1 \in R
    <3>1. i + 1 \in 1 .. L /\ i + 1 \in 0 .. L /\ (i + 1) - 1 = i /\ i \in 0 .. L
      OBVIOUS
    <3>2. g[i + 1] = step[<<i + 1, g[(i + 1) - 1]>>] /\ g[i] \in D0
      BY <1>16, <3>1
    <3>3. g[i + 1] = readFromFileAndMerge(g[i])
      BY <1>13, <2>2, <3>1, <3>2
    <3>4. ReadSoFar(P, n, seen, from, i + 1, g[i + 1])
      BY <1>12, <2>2, <3>1, <3>3
    <3>. QED  BY <3>1, <3>4
  <2> HIDE DEF R
  <2>. QED  BY <2>1, <2>2, Climb
<1>18. \A i \in 1 .. L : g[i] = readFromFileAndMerge(g[i - 1])
  <2> TAKE i \in 1 .. L
  <2>1. i - 1 \in 0 .. L
    OBVIOUS
  <2>2. ReadSoFar(P, n, seen, from, i - 1, g[i - 1]) /\ g[i - 1] \in D0
    BY <1>16, <1>17, <2>1
  <2>. QED  BY <1>13, <1>16, <2>2
<1> DEFINE read == CHOOSE h : h = [i \in 0 .. L |-> IF i = 0 THEN start ELSE readFromFileAndMerge(h[i - 1])]
<1>19. read = [i \in 0 .. L |-> IF i = 0 THEN start ELSE readFromFileAndMerge(read[i - 1])]
  <2> DEFINE fix(h) == [i \in 0 .. L |-> IF i = 0 THEN start ELSE readFromFileAndMerge(h[i - 1])]
  <2>1. \A i \in 0 .. L : i # 0 => i \in 1 .. L
    OBVIOUS
  <2>2. g = fix(g)
    <3>1. \A i \in 0 .. L : g[i] = IF i = 0 THEN start ELSE readFromFileAndMerge(g[i - 1])
      BY <1>16, <1>18, <2>1
    <3>. QED  BY <1>16, <3>1
  <2>3. read = CHOOSE h : h = fix(h)
    OBVIOUS
  <2> HIDE DEF fix, read
  <2>4. read = fix(read)
    BY <2>2, <2>3
  <2>. QED  BY <2>4 DEF fix
<1>20. readLeaf([fp |-> HeaderEnd(f.at), ret |-> <<>>], f, lo, hi) = read[L]
  <2>1. [[fp |-> HeaderEnd(f.at), ret |-> <<>>] EXCEPT
           !.fp = IF @ = NULL \/ from > Len(s) THEN NULL ELSE @ + file[f.at].off[from]] = start
    BY <1>10 DEF start
  <2> HIDE DEF start
  <2>. QED  BY <1>1, <1>6, <1>9, <2>1 DEF readLeaf, seen, from
<1> HIDE DEF read
<1> DEFINE T == {i \in 0 .. L : ReadSoFar(P, n, seen, from, i, read[i])}
<1>21. 0 .. L \subseteq T
  <2>1. 0 \in T
    BY <1>11, <1>19
  <2>2. ASSUME NEW i \in 0 .. L - 1, i \in T PROVE i + 1 \in T
    <3>1. i + 1 \in 1 .. L /\ i + 1 \in 0 .. L /\ (i + 1) - 1 = i /\ i + 1 # 0
      OBVIOUS
    <3>2. read[i + 1] = readFromFileAndMerge(read[(i + 1) - 1])
      BY <1>19, <3>1, Zenon
    <3>3. ReadSoFar(P, n, seen, from, (i + 1) - 1, read[(i + 1) - 1])
      BY <2>2, <3>1
    <3>4. ReadSoFar(P, n, seen, from, i + 1, read[i + 1])
      BY <1>12, <3>1, <3>2, <3>3
    <3>. QED  BY <3>1, <3>4
  <2> HIDE DEF T
  <2>. QED  BY <2>1, <2>2, Climb
<1>22. ReadSoFar(P, n, seen, from, L, read[L])
  <2>1. L \in 0 .. L
    OBVIOUS
  <2>. QED  BY <1>21, <2>1
<1>23. /\ ToSet(read[L].ret) = {v \in DOMAIN items : \E j \in 1 .. L : items[v] = KeyOf(n, seen[j])}
       /\ read[L].ret \in Seq(Nat) /\ InKeyOrder(read[L].ret)
  BY <1>22 DEF ReadSoFar, Reading
\* These are the flows of the range in this leaf.
<1>24. ASSUME NEW v \in DOMAIN items, NEW j \in 1 .. L, items[v] = KeyOf(n, seen[j])
       PROVE  v \in Found(lo, hi) /\ NodeOf(items[v], Depth - 1) = n
  <2>1. seen[j] \in Digit
    BY <1>2, <1>7 DEF TreeOK
  <2>2. NodeOf(KeyOf(n, seen[j]), Depth - 1) = n
    BY <1>2, <2>1, LeafOfKey
  <2>. QED  BY <1>7, <1>24, <2>2 DEF Found
<1>25. ASSUME NEW v \in Found(lo, hi), NodeOf(items[v], Depth - 1) = n
       PROVE  v \in DOMAIN items /\ \E j \in 1 .. L : items[v] = KeyOf(n, seen[j])
  <2>1. PICK l \in Level : l = Depth - 1
    BY TrieAssumption DEF Level
  <2>2. /\ DigitOf(items[v], l) \in bits[n] /\ KeyOf(n, DigitOf(items[v], l)) = items[v]
        /\ lo <= items[v] /\ items[v] <= hi
    BY <1>25, <2>1, FlowDigit
  <2>3. PICK j \in 1 .. L : seen[j] = DigitOf(items[v], l)
    BY <1>7, <2>2
  <2>. QED  BY <2>2, <2>3 DEF Found
<1>26. ToSet(read[L].ret) = {v \in Found(lo, hi) : NodeOf(items[v], Depth - 1) = n}
  <2>1. Found(lo, hi) \subseteq DOMAIN items
    BY DEF Found
  <2>. QED  BY <1>23, <1>24, <1>25, <2>1
<1>. QED  BY <1>1, <1>20, <1>23, <1>26

-----------------------------------------------------------------------------
\* What write2file lays out, queryFromFile reads back.
THEOREM FileQueryIsExact == Spec => []FileQueryExact
<1>1. FileInv => FileQueryExact
  <2> SUFFICES ASSUME FileInv, pc = "written", file # NULL, intact,
                      NEW lo \in 0 .. PrefixCount[Depth] - 1, NEW hi \in 0 .. PrefixCount[Depth] - 1,
                      Len(Frontier(lo, hi)) <= 1
               PROVE  LET found == queryFromFile(lo, hi)
                      IN  /\ ToSet(found) = Found(lo, hi)
                          /\ \A i, j \in DOMAIN found : i < j => Before(found[i], found[j])
    BY DEF FileQueryExact
  <2>1. PICK P \in [Node -> Nat], D \in SUBSET Node : Readable(P, D)
    BY FileReadable
  <2>2. TreeOK /\ Linked
    BY DEF FileInv, Core, TypeOK
  <2>3. lo \in Nat /\ hi \in Nat
    BY RootOfKey
  <2>4. PICK F : F = Frontier(lo, hi)
    OBVIOUS
  <2>5. Sound(P, D, Depth - 1, F) /\ Reaches(Depth - 1, F, lo, hi)
    BY <2>1, <2>2, <2>3, <2>4, FrontierReads
  <2>6. F \in Seq(Entry) /\ Len(F) \in Nat /\ Len(F) <= 1
    <3>1. F \in Seq(Entry)
      BY <2>5 DEF Sound
    <3>. QED  BY <2>4, <3>1
  <2>7. CASE F = <<>>
    <3>1. queryFromFile(lo, hi) = <<>>
      BY <2>4, <2>7 DEF queryFromFile
    <3>2. ToSet(<<>>) = {}
      BY DEF ToSet
    <3>3. Found(lo, hi) = {}
      BY <2>5, <2>7, <3>2, Zenon DEF Reaches, AboveFlow
    <3>. QED  BY <3>1, <3>2, <3>3
  <2>8. CASE F # <<>>
    <3>1. Len(F) = 1 /\ DOMAIN F = 1 .. 1 /\ Last(F) = F[1]
      <4>1. Len(F) # 0
        BY <2>6, <2>8
      <4>2. PICK k : k = Len(F)
        OBVIOUS
      <4>3. k \in Nat /\ k <= 1 /\ k # 0
        BY <2>6, <4>1, <4>2, Zenon
      <4>4. k = 1
        BY <4>3
      <4>5. DOMAIN F = 1 .. k
        BY <2>6, <4>2
      <4>6. Last(F) = F[k]
        BY <4>2 DEF Last
      <4>. QED  BY <4>2, <4>4, <4>5, <4>6, Zenon
    <3>2. PICK f : f = F[1]
      OBVIOUS
    <3>3. ToSet(F) = {f}
      BY <3>1, <3>2 DEF ToSet
    <3>4. AtPlace(P, D, Depth - 1, f)
      BY <2>5, <3>3 DEF Sound
    <3> DEFINE r0 == [fp |-> HeaderEnd(f.at), ret |-> <<>>]
               found == readLeaf(r0, f, lo, hi).ret
    <3>5. /\ ToSet(found) = {v \in Found(lo, hi) : NodeOf(items[v], Depth - 1) = <<Depth - 1, f.prefix>>}
          /\ found \in Seq(Nat) /\ InKeyOrder(found)
      BY <2>1, <2>2, <2>3, <3>4, LeafReads
    <3> HIDE DEF r0
    <3>6. queryFromFile(lo, hi) = found
      <4> DEFINE fix(h) == [i \in 0 .. Len(F) |-> IF i = 0 THEN r0 ELSE readLeaf(h[i - 1], F[i], lo, hi)]
                 read == CHOOSE h : h = fix(h)
                 g == [i \in 0 .. 1 |-> IF i = 0 THEN r0 ELSE readLeaf(r0, f, lo, hi)]
      <4>1. queryFromFile(lo, hi) = read[Len(F)].ret
        BY <2>4, <2>8, <3>1, <3>2 DEF queryFromFile, r0
      <4>2. g[0] = r0 /\ \A i \in 0 .. 1 : i = 0 \/ (i = 1 /\ i - 1 = 0)
        OBVIOUS
      <4>3. g = fix(g)
        <5>1. \A i \in 0 .. 1 : g[i] = IF i = 0 THEN r0 ELSE readLeaf(g[i - 1], F[i], lo, hi)
          BY <3>2, <4>2
        <5>. QED  BY <3>1, <5>1
      <4> HIDE DEF read, g
      <4>4. read = fix(read)
        <5> HIDE DEF fix
        <5>. QED  BY <4>3 DEF read
      <4>5. read[0] = r0 /\ read[1] = readLeaf(read[1 - 1], F[1], lo, hi)
        <5>1. 0 \in 0 .. Len(F) /\ 1 \in 0 .. Len(F) /\ 1 # 0
          BY <3>1
        <5>2. \A i \in 0 .. Len(F) : read[i] = IF i = 0 THEN r0 ELSE readLeaf(read[i - 1], F[i], lo, hi)
          BY <4>4
        <5>. QED  BY <5>1, <5>2, Zenon
      <4>6. 1 - 1 = 0
        OBVIOUS
      <4>. QED  BY <3>1, <3>2, <4>1, <4>5, <4>6
    <3> HIDE DEF found
    <3>7. ToSet(found) = Found(lo, hi)
      BY <2>5, <3>3, <3>5 DEF Reaches, AboveFlow
    <3>8. \A i, j \in DOMAIN found : i < j => Before(found[i], found[j])
      <4>1. DOMAIN found = 1 .. Len(found)
        BY <3>5
      <4>. QED  BY <3>5, <4>1 DEF InKeyOrder
    <3>. QED  BY <3>6, <3>7, <3>8
  <2>. QED  BY <2>7, <2>8
<1>. QED  BY <1>1, FileInvariance, PTL
=============================================================================
