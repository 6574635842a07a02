---------------------------- MODULE BTree_proofs ----------------------------
(***************************************************************************)
(* Proofs about BTree: however often nodes are split, each value inserted  *)
(* is in one leaf, once and under its key, all leaves are on one level and *)
(* every node but the root has one parent; the offsets in the file of such *)
(* a tree lead to the same contents; and while no internal node has been   *)
(* split, the keys ascend over the whole tree.                             *)
(***************************************************************************)
EXTENDS BTree, InductionLemmas

BTreeSpec == BTreeInit /\ [][BTreeNext]_treeVars

-----------------------------------------------------------------------------
(* Sequences from which splitting and adding make new ones.                *)

Distinct(s) == \A i, j \in 1 .. Len(s) : s[i] = s[j] => i = j

\* InsertAt moves the elements from the place i on up by one.
InsertedAt(t, s, i, e) ==
  /\ Len(t) = Len(s) + 1 /\ t[i] = e
  /\ \A j \in 1 .. i - 1 : t[j] = s[j]
  /\ \A j \in i .. Len(s) : t[j + 1] = s[j]
LEMMA InsertAtPlaces ==
    ASSUME NEW X, NEW s \in Seq(X), NEW i \in 1 .. Len(s) + 1, NEW e \in X
    PROVE  InsertAt(s, i, e) \in Seq(X) /\ InsertedAt(InsertAt(s, i, e), s, i, e)
<1> DEFINE a == SubSeq(s, 1, i - 1)
           b == SubSeq(s, i, Len(s))
           c == a \o <<e>>
           t == c \o b
<1>1. i \in Nat /\ Len(s) \in Nat
  OBVIOUS
<1>2. a \in Seq(X) /\ Len(a) = i - 1 /\ \A j \in 1 .. i - 1 : a[j] = s[j]
  OBVIOUS
<1>3. b \in Seq(X) /\ Len(b) = Len(s) + 1 - i /\ \A j \in 1 .. Len(s) + 1 - i : b[j] = s[i + j - 1]
  OBVIOUS
<1> HIDE DEF a, b
<1>4. c \in Seq(X) /\ Len(c) = i /\ c[i] = e /\ \A j \in 1 .. i - 1 : c[j] = a[j]
  BY <1>1, <1>2
<1> HIDE DEF c
<1>5. /\ t \in Seq(X) /\ Len(t) = Len(s) + 1
      /\ \A j \in 1 .. i : t[j] = c[j]
      /\ \A j \in 1 .. Len(s) + 1 - i : t[i + j] = b[j]
  <2>1. /\ t \in Seq(X) /\ Len(t) = Len(c) + Len(b)
        /\ \A j \in 1 .. Len(c) : t[j] = c[j]
        /\ \A j \in 1 .. Len(b) : t[Len(c) + j] = b[j]
    BY <1>3, <1>4
  <2> HIDE DEF t
  <2>2. Len(t) = Len(s) + 1
    BY <1>1, <1>3, <1>4, <2>1
  <2>. QED  BY <1>3, <1>4, <2>1, <2>2
<1> HIDE DEF t
<1>6. t[i] = e /\ \A j \in 1 .. i - 1 : t[j] = s[j]
  BY <1>1, <1>2, <1>4, <1>5
<1>7. ASSUME NEW j \in i .. Len(s) PROVE t[j + 1] = s[j]
  <2>1. PICK h : h = j + 1 - i
    OBVIOUS
  <2>2. h \in 1 .. Len(s) + 1 - i /\ i + h = j + 1 /\ i + h - 1 = j
    BY <1>1, <2>1
  <2>. QED  BY <1>3, <1>5, <2>2
<1>8. t = InsertAt(s, i, e)
  BY DEF InsertAt, t, c, a, b
<1>. QED  BY <1>5, <1>6, <1>7, <1>8 DEF InsertedAt

\* The elements are those of before and the new one.
LEMMA InsertAtElements ==
    ASSUME NEW X, NEW s \in Seq(X), NEW i \in 1 .. Len(s) + 1, NEW e \in X
    PROVE  /\ ToSet(InsertAt(s, i, e)) = ToSet(s) \cup {e}
           /\ Distinct(s) /\ e \notin ToSet(s) => Distinct(InsertAt(s, i, e))
<1>1. PICK t : t = InsertAt(s, i, e)
  OBVIOUS
<1>2. t \in Seq(X) /\ Len(t) = Len(s) + 1 /\ t[i] = e /\ i \in Nat /\ Len(s) \in Nat
      /\ (\A j \in 1 .. i - 1 : t[j] = s[j]) /\ (\A j \in i .. Len(s) : t[j + 1] = s[j])
  BY <1>1, InsertAtPlaces DEF InsertedAt
<1>3. ToSet(t) = {t[j] : j \in 1 .. Len(t)} /\ ToSet(s) = {s[j] : j \in 1 .. Len(s)}
  BY <1>2 DEF ToSet
<1>4. ASSUME NEW j \in 1 .. Len(t)
      PROVE  \/ j = i
             \/ j < i /\ j \in 1 .. Len(s) /\ t[j] = s[j]
             \/ j > i /\ j - 1 \in 1 .. Len(s) /\ t[j] = s[j - 1]
  <2>1. CASE j < i
    BY <1>2, <2>1
  <2>2. CASE j > i
    <3>1. j - 1 \in i .. Len(s) /\ (j - 1) + 1 = j /\ j - 1 \in 1 .. Len(s)
      BY <1>2, <2>2
    <3>. QED  BY <1>2, <2>2, <3>1
  <2>. QED  BY <1>2, <2>1, <2>2
<1>5. ToSet(t) \subseteq ToSet(s) \cup {e}
  BY <1>2, <1>3, <1>4
<1>6. ToSet(s) \subseteq ToSet(t)
  <2> SUFFICES ASSUME NEW j \in 1 .. Len(s) PROVE \E h \in 1 .. Len(t) : t[h] = s[j]
    BY <1>3
  <2>1. CASE j < i
    BY <1>2, <2>1
  <2>2. CASE ~(j < i)
    <3>1. j \in i .. Len(s) /\ j + 1 \in 1 .. Len(t)
      BY <1>2, <2>2
    <3>. QED  BY <1>2, <3>1
  <2>. QED  BY <2>1, <2>2
<1>7. e \in ToSet(t)
  BY <1>2, <1>3
<1>8. ASSUME Distinct(s), e \notin ToSet(s) PROVE Distinct(t)
  <2> SUFFICES ASSUME NEW j \in 1 .. Len(t), NEW h \in 1 .. Len(t), t[j] = t[h] PROVE j = h
    BY DEF Distinct
  <2>1. \A g \in 1 .. Len(s) : s[g] # e
    BY <1>3, <1>8
  <2>2. \A g, l \in 1 .. Len(s) : s[g] = s[l] => g = l
    BY <1>8 DEF Distinct
  <2>3. /\ \/ j = i \/ (j < i /\ j \in 1 .. Len(s) /\ t[j] = s[j])
           \/ (j > i /\ j - 1 \in 1 .. Len(s) /\ t[j] = s[j - 1])
        /\ \/ h = i \/ (h < i /\ h \in 1 .. Len(s) /\ t[h] = s[h])
           \/ (h > i /\ h - 1 \in 1 .. Len(s) /\ t[h] = s[h - 1])
    BY <1>4
  <2>. QED  BY <1>2, <2>1, <2>2, <2>3
<1>. QED  BY <1>1, <1>5, <1>6, <1>7, <1>8

\* An element that is replaced.
LEMMA ReplacedElements ==
    ASSUME NEW X, NEW s \in Seq(X), NEW i \in 1 .. Len(s), NEW e \in X, Distinct(s), e \notin ToSet(s)
    PROVE  LET t == [s EXCEPT ![i] = e]
           IN /\ t \in Seq(X) /\ Len(t) = Len(s) /\ Distinct(t)
              /\ ToSet(t) = (ToSet(s) \ {s[i]}) \cup {e}
<1>1. PICK t : t = [s EXCEPT ![i] = e]
  OBVIOUS
<1>2. t \in Seq(X) /\ Len(t) = Len(s) /\ t[i] = e /\ (\A j \in 1 .. Len(s) : j # i => t[j] = s[j])
  BY <1>1
<1>3. ToSet(t) = {t[j] : j \in 1 .. Len(t)} /\ ToSet(s) = {s[j] : j \in 1 .. Len(s)}
  BY <1>2 DEF ToSet
<1>4. \A g, l \in 1 .. Len(s) : s[g] = s[l] => g = l
  BY DEF Distinct
<1>5. ToSet(t) \subseteq (ToSet(s) \ {s[i]}) \cup {e}
  BY <1>2, <1>3, <1>4
<1>6. (ToSet(s) \ {s[i]}) \cup {e} \subseteq ToSet(t)
  BY <1>2, <1>3
<1>7. Distinct(t)
  BY <1>2, <1>3, <1>4 DEF Distinct
<1>. QED  BY <1>1, <1>2, <1>5, <1>6, <1>7

\* The two halves of a sequence.
LEMMA HalvedElements ==
    ASSUME NEW X, NEW s \in Seq(X), NEW m \in Nat, Len(s) = 2 * m, Distinct(s)
    PROVE  LET a == SubSeq(s, 1, m)
               b == SubSeq(s, m + 1, 2 * m)
           IN /\ a \in Seq(X) /\ Len(a) = m /\ Distinct(a)
              /\ b \in Seq(X) /\ Len(b) = m /\ Distinct(b)
              /\ ToSet(s) = ToSet(a) \cup ToSet(b) /\ ToSet(a) \cap ToSet(b) = {}
<1>1. PICK a, b : a = SubSeq(s, 1, m) /\ b = SubSeq(s, m + 1, 2 * m)
  OBVIOUS
<1>2. /\ a \in Seq(X) /\ Len(a) = m /\ \A i \in 1 .. m : a[i] = s[i]
      /\ b \in Seq(X) /\ Len(b) = m /\ \A i \in 1 .. m : b[i] = s[m + i]
  BY <1>1
<1>3. /\ ToSet(a) = {a[i] : i \in 1 .. m} /\ ToSet(b) = {b[i] : i \in 1 .. m}
      /\ ToSet(s) = {s[i] : i \in 1 .. 2 * m}
  <2>1. DOMAIN a = 1 .. m /\ DOMAIN b = 1 .. m /\ DOMAIN s = 1 .. 2 * m
    BY <1>2
  <2>. QED  BY <2>1, Zenon DEF ToSet
<1>4. \A i \in 1 .. m : i \in 1 .. 2 * m /\ m + i \in 1 .. 2 * m
  OBVIOUS
<1>5. \A i \in 1 .. 2 * m : i \in 1 .. m \/ (i - m \in 1 .. m /\ m + (i - m) = i)
  OBVIOUS
<1>6. \A i, j \in 1 .. 2 * m : s[i] = s[j] => i = j
  BY DEF Distinct
<1>7. Distinct(a) /\ Distinct(b)
  BY <1>2, <1>4, <1>6 DEF Distinct
<1>8. ToSet(s) = ToSet(a) \cup ToSet(b)
  <2>1. ToSet(s) \subseteq ToSet(a) \cup ToSet(b)
    BY <1>2, <1>3, <1>5
  <2>2. ToSet(a) \cup ToSet(b) \subseteq ToSet(s)
    BY <1>2, <1>3, <1>4
  <2>. QED  BY <2>1, <2>2
<1>9. ASSUME NEW i \in 1 .. m, NEW j \in 1 .. m, a[i] = b[j] PROVE FALSE
  <2>1. s[i] = s[m + j]
    BY <1>2, <1>9
  <2>2. i = m + j
    BY <1>4, <1>6, <2>1
  <2>. QED  BY <2>2
<1>. QED  BY <1>1, <1>2, <1>3, <1>7, <1>8, <1>9

-----------------------------------------------------------------------------
(* The search in a node stays in it.                                       *)

LEMMA HalvedInRange ==
    ASSUME NEW keys, NEW k, NEW L \in Nat \ {0}, NEW s \in [l : 1 .. L, r : 1 .. L]
    PROVE  Halved(s, keys, k) \in [l : 1 .. L, r : 1 .. L]
<1> DEFINE mid == (s.l + s.r) \div 2
<1>1. s.l \in 1 .. L /\ s.r \in 1 .. L
  OBVIOUS
<1>2. s.l < s.r => mid \in 1 .. L /\ mid + 1 \in 1 .. L
  BY <1>1
<1> HIDE DEF mid
<1>3. s.l < s.r => /\ [s EXCEPT !.r = mid] \in [l : 1 .. L, r : 1 .. L]
                   /\ [s EXCEPT !.l = mid + 1] \in [l : 1 .. L, r : 1 .. L]
                   /\ [l |-> mid, r |-> mid] \in [l : 1 .. L, r : 1 .. L]
  BY <1>2
<1>4. Halved(s, keys, k) \in {s, [s EXCEPT !.r = mid], [s EXCEPT !.l = mid + 1], [l |-> mid, r |-> mid]}
      /\ (s.l >= s.r => Halved(s, keys, k) = s)
  BY DEF Halved, mid
<1>5. s.l >= s.r \/ s.l < s.r
  BY <1>1
<1>. QED  BY <1>3, <1>4, <1>5

\* The turns of the binary search: its function exists, and findPosition is where it ends.
SearchStart(L) == [l |-> 1, r |-> L]
Searches(f, keys, k, L) ==
  f[0] = SearchStart(L) /\ \A i \in 1 .. L : f[i] = Halved(f[i - 1], keys, k)
PositionBy(f, keys, k, L) ==
  findPosition(keys, k) = IF keys = <<>> THEN 1 ELSE IF Last(keys) < k THEN 0 ELSE f[L].l
LEMMA SearchTurns ==
    ASSUME NEW keys, NEW L, L = Len(keys), L \in Nat \ {0}, NEW k
    PROVE  \E f : Searches(f, keys, k, L) /\ PositionBy(f, keys, k, L)
<1> DEFINE S == [l : 1 .. L, r : 1 .. L]
           start == [l |-> 1, r |-> L]
           step == [y \in (1 .. L) \X S |-> Halved(y[2], keys, k)]
           fix(f) == f = [n \in 0 .. L |-> IF n = 0 THEN start ELSE Halved(f[n - 1], keys, k)]
           search == CHOOSE f : fix(f)
<1>2. L \in Nat \ {0} /\ start \in S
  OBVIOUS
<1>3. step \in [(1 .. L) \X S -> S]
  <2> SUFFICES ASSUME NEW i \in 1 .. L, NEW s \in S PROVE Halved(s, keys, k) \in S
    OBVIOUS
  <2>. QED  BY <1>2, HalvedInRange
<1>4. \A i \in 1 .. L, s \in S : step[<<i, s>>] = Halved(s, keys, k)
  OBVIOUS
<1> HIDE DEF step, start
<1>5. PICK f : f \in Recursions(L, S, start, step)
  <2> HIDE DEF S
  <2>. QED  BY <1>2, <1>3, RecursionExists
<1>6. f \in [0 .. L -> S] /\ f[0] = start /\ \A i \in 1 .. L : f[i] = step[<<i, f[i - 1]>>]
  <2> HIDE DEF S
  <2>. QED  BY <1>5 DEF Recursions
<1>7. fix(f)
  <2>1. \A i \in 0 .. L : i = 0 \/ (i # 0 /\ i \in 1 .. L /\ i - 1 \in 0 .. L)
    BY <1>2
  <2> HIDE DEF S
  <2>2. \A i \in 0 .. L : f[i] = IF i = 0 THEN start ELSE Halved(f[i - 1], keys, k)
    BY <1>4, <1>6, <2>1
  <2>. QED  BY <1>6, <2>2
<1>8. fix(search)
  <2> HIDE DEF fix
  <2>. QED  BY <1>7
<1>9. \A i \in 0 .. L : search[i] = IF i = 0 THEN start ELSE Halved(search[i - 1], keys, k)
  <2> HIDE DEF search
  <2>. QED  BY <1>8
<1>10. Searches(search, keys, k, L)
  <2>1. \A i \in 1 .. L : i \in 0 .. L /\ i # 0
    OBVIOUS
  <2>2. 0 \in 0 .. L
    BY <1>2
  <2> HIDE DEF search
  <2>. QED  BY <1>9, <2>1, <2>2 DEF Searches, SearchStart, start
<1>11. PositionBy(search, keys, k, L)
  BY DEF PositionBy, findPosition, start
<1> HIDE DEF search
<1>. QED  BY <1>10, <1>11

LEMMA PositionInRange ==
    ASSUME NEW keys, Len(keys) \in Nat \ {0}, NEW k
    PROVE  findPosition(keys, k) \in 0 .. Len(keys)
<1>1. PICK L : L = Len(keys)
  OBVIOUS
<1>2. PICK f : Searches(f, keys, k, L) /\ PositionBy(f, keys, k, L)
  BY <1>1, SearchTurns
<1> DEFINE S == [l : 1 .. L, r : 1 .. L]
           R == {i \in 0 .. L : f[i] \in S}
<1>3. L \in Nat \ {0}
  BY <1>1
<1>4. f[0] \in S /\ \A i \in 1 .. L : f[i] = Halved(f[i - 1], keys, k)
  BY <1>2, <1>3 DEF Searches, SearchStart
<1>5. ASSUME NEW i \in 0 .. L - 1, i \in R PROVE i + 1 \in R
  <2>1. i + 1 \in 1 .. L /\ i + 1 \in 0 .. L /\ (i + 1) - 1 = i
    BY <1>3
  <2>2. f[i + 1] = Halved(f[i], keys, k)
    BY <1>4, <2>1
  <2>3. f[i] \in S
    BY <1>5
  <2>4. Halved(f[i], keys, k) \in S
    BY <1>3, <2>3, HalvedInRange
  <2>. QED  BY <2>1, <2>2, <2>4
<1>6. 0 \in R
  BY <1>3, <1>4
<1> HIDE DEF R
<1>7. 0 .. L \subseteq R
  BY <1>3, <1>5, <1>6, Climb
<1>8. f[L] \in S
  BY <1>3, <1>7 DEF R
<1>9. f[L].l \in 1 .. L
  BY <1>8
<1>10. keys # <<>>
  BY <1>1, <1>3
<1>. QED  BY <1>1, <1>2, <1>3, <1>9, <1>10 DEF PositionBy

-----------------------------------------------------------------------------
(* Nodes: their children or values, and what the operations do to them.    *)

LEMMA NodeFields ==
    ASSUME NEW s, NEW t
    PROVE  /\ Leaf(s, t).leaf /\ Leaf(s, t).keys = s /\ Leaf(s, t).ptr = t
           /\ ~Internal(s, t).leaf /\ Internal(s, t).keys = s /\ Internal(s, t).ptr = t
BY DEF Leaf, Internal

LEMMA RecordReplaced ==
    ASSUME NEW b, NEW s, NEW t, NEW i, NEW e
    PROVE  /\ [[leaf |-> b, keys |-> s, ptr |-> t] EXCEPT !.ptr[i] = e]
                = [leaf |-> b, keys |-> s, ptr |-> [t EXCEPT ![i] = e]]
           /\ [[leaf |-> b, keys |-> s, ptr |-> t] EXCEPT !.keys[i] = e]
                = [leaf |-> b, keys |-> [s EXCEPT ![i] = e], ptr |-> t]
           /\ [[leaf |-> b, keys |-> s, ptr |-> t] EXCEPT !.ptr[i] = Append(@, e)]
                = [leaf |-> b, keys |-> s, ptr |-> [t EXCEPT ![i] = Append(@, e)]]
<1>1. [[leaf |-> b, keys |-> s, ptr |-> t] EXCEPT !.ptr[i] = e]
        = [leaf |-> b, keys |-> s, ptr |-> [t EXCEPT ![i] = e]]
  OBVIOUS
<1>2. [[leaf |-> b, keys |-> s, ptr |-> t] EXCEPT !.keys[i] = e]
        = [leaf |-> b, keys |-> [s EXCEPT ![i] = e], ptr |-> t]
  OBVIOUS
<1>3. [[leaf |-> b, keys |-> s, ptr |-> t] EXCEPT !.ptr[i] = Append(@, e)]
        = [leaf |-> b, keys |-> s, ptr |-> [t EXCEPT ![i] = Append(@, e)]]
  OBVIOUS
<1>. QED  BY <1>1, <1>2, <1>3

\* A node with another child, key or value at the place i.
WithChild(n, i, q) == [n EXCEPT !.ptr[i] = q]
WithKey(n, i, k) == [n EXCEPT !.keys[i] = k]
WithValue(n, i, v) == [n EXCEPT !.ptr[i] = Append(@, v)]
PutAt(s, i, e) == [s EXCEPT ![i] = e]
AppendAt(s, i, e) == [s EXCEPT ![i] = Append(@, e)]

LEMMA FieldReplaced ==
    ASSUME NEW s, NEW t, NEW i, NEW e
    PROVE  /\ WithChild(Internal(s, t), i, e) = Internal(s, PutAt(t, i, e))
           /\ WithKey(Internal(s, t), i, e) = Internal(PutAt(s, i, e), t)
           /\ WithValue(Leaf(s, t), i, e) = Leaf(s, AppendAt(t, i, e))
<1>1. PICK no, yes : no = FALSE /\ yes = TRUE
  OBVIOUS
<1>2. \A x, y : /\ Internal(x, y) = [leaf |-> no, keys |-> x, ptr |-> y]
                /\ Leaf(x, y) = [leaf |-> yes, keys |-> x, ptr |-> y]
  BY <1>1 DEF Internal, Leaf
<1>3. /\ [Internal(s, t) EXCEPT !.ptr[i] = e] = Internal(s, [t EXCEPT ![i] = e])
      /\ [Internal(s, t) EXCEPT !.keys[i] = e] = Internal([s EXCEPT ![i] = e], t)
  BY <1>2, RecordReplaced
<1>4. [Leaf(s, t) EXCEPT !.ptr[i] = Append(@, e)] = Leaf(s, [t EXCEPT ![i] = Append(@, e)])
  BY <1>2, RecordReplaced
<1>. QED  BY <1>3, <1>4 DEF WithChild, WithKey, WithValue, PutAt, AppendAt

\* An internal node with L keys and as many children, the set C.
InnerOf(n, s, t, L, C) ==
  /\ n = Internal(s, t)
  /\ s \in Seq(Nat) /\ Len(s) = L
  /\ t \in Seq(Nat) /\ Len(t) = L /\ Distinct(t) /\ ToSet(t) = C
GoodInner(n, L, C) == \E s, t : InnerOf(n, s, t, L, C)

\* A leaf with L keys and as many lists, which hold the values W, each once and
\* under its key.
ListsOf(s, t, L, W, in) ==
  /\ \A i \in 1 .. L : \A j \in 1 .. Len(t[i]) : t[i][j] \in W /\ s[i] = in[t[i][j]]
  /\ \A v \in W : \E i \in 1 .. L : \E j \in 1 .. Len(t[i]) : t[i][j] = v
  /\ \A i, h \in 1 .. L : \A j \in 1 .. Len(t[i]), g \in 1 .. Len(t[h]) :
       t[i][j] = t[h][g] => i = h /\ j = g
LeafOf(n, s, t, L, W, in) ==
  /\ n = Leaf(s, t)
  /\ s \in Seq(Nat) /\ Len(s) = L
  /\ t \in Seq(Seq(Nat)) /\ Len(t) = L
  /\ ListsOf(s, t, L, W, in)
GoodLeaf(n, L, W, in) == \E s, t : LeafOf(n, s, t, L, W, in)

\* A node of the heap with its children C and its values W.
GoodNode(n, C, W, in) ==
  \/ n.leaf /\ C = {} /\ \E L \in 1 .. MAX_PER_NODE : GoodLeaf(n, L, W, in)
  \/ ~n.leaf /\ W = {} /\ \E L \in 1 .. MAX_PER_NODE : GoodInner(n, L, C)

LEMMA AddItemAt ==
    ASSUME NEW s, NEW t, NEW L \in Nat \ {0}, Len(s) = L, NEW k, NEW p
    PROVE  \E at \in 1 .. L + 1 :
             /\ addItemAt(Leaf(s, t), k, p) = Leaf(InsertAt(s, at, k), InsertAt(t, at, p))
             /\ addItemAt(Internal(s, t), k, p) = Internal(InsertAt(s, at, k), InsertAt(t, at, p))
<1>1. PICK pos : pos = findPosition(s, k)
  OBVIOUS
<1>2. pos \in 0 .. L
  BY <1>1, PositionInRange
<1>3. PICK at : at = IF pos = 0 THEN Len(s) + 1 ELSE pos
  OBVIOUS
<1>4. at \in 1 .. L + 1
  BY <1>2, <1>3
<1>5. /\ addItemAt(Leaf(s, t), k, p) = Leaf(InsertAt(s, at, k), InsertAt(t, at, p))
      /\ addItemAt(Internal(s, t), k, p) = Internal(InsertAt(s, at, k), InsertAt(t, at, p))
  BY <1>1, <1>3 DEF addItemAt, Leaf, Internal
<1>. QED  BY <1>4, <1>5

\* A child is added to an internal node, or takes the place of another.
LEMMA InnerAdd ==
    ASSUME NEW n, NEW L \in Nat \ {0}, NEW C, GoodInner(n, L, C),
           NEW k \in Nat, NEW p \in Nat, p \notin C
    PROVE  GoodInner(addItemAt(n, k, p), L + 1, C \cup {p})
<1>1. PICK s, t : InnerOf(n, s, t, L, C)
  BY DEF GoodInner
<1>0. n = Internal(s, t)
  BY <1>1 DEF InnerOf
<1>2. /\ s \in Seq(Nat) /\ Len(s) = L
      /\ t \in Seq(Nat) /\ Len(t) = L /\ Distinct(t) /\ ToSet(t) = C
  BY <1>1 DEF InnerOf
<1>3. PICK at \in 1 .. L + 1 :
        addItemAt(Internal(s, t), k, p) = Internal(InsertAt(s, at, k), InsertAt(t, at, p))
  BY <1>2, AddItemAt
<1>. at \in 1 .. Len(s) + 1 /\ at \in 1 .. Len(t) + 1
  BY <1>2
<1>4. PICK x, y : x = InsertAt(s, at, k) /\ y = InsertAt(t, at, p)
  OBVIOUS
<1>5. x \in Seq(Nat) /\ Len(x) = L + 1
  <2>1. s \in Seq(Nat) /\ at \in 1 .. Len(s) + 1 /\ Len(s) = L
    BY <1>2
  <2>2. x \in Seq(Nat) /\ InsertedAt(x, s, at, k)
    BY <1>4, <2>1, InsertAtPlaces
  <2>. QED  BY <2>1, <2>2 DEF InsertedAt
<1>6. y \in Seq(Nat) /\ Len(y) = L + 1
  <2>1. t \in Seq(Nat) /\ at \in 1 .. Len(t) + 1 /\ Len(t) = L
    BY <1>2
  <2>2. y \in Seq(Nat) /\ InsertedAt(y, t, at, p)
    BY <1>4, <2>1, InsertAtPlaces
  <2>. QED  BY <2>1, <2>2 DEF InsertedAt
<1>7. Distinct(y) /\ ToSet(y) = C \cup {p}
  BY <1>2, <1>4, InsertAtElements
<1>8. addItemAt(n, k, p) = Internal(x, y)
  BY <1>0, <1>3, <1>4
<1>. QED  BY <1>5, <1>6, <1>7, <1>8 DEF GoodInner, InnerOf

LEMMA InnerSwap ==
    ASSUME NEW n, NEW L \in Nat \ {0}, NEW C, GoodInner(n, L, C),
           NEW i \in 1 .. L, NEW q \in Nat, q \notin C
    PROVE  GoodInner(WithChild(n, i, q), L, (C \ {n.ptr[i]}) \cup {q})
<1>1. PICK s, t : InnerOf(n, s, t, L, C)
  BY DEF GoodInner
<1>0. n = Internal(s, t)
  BY <1>1 DEF InnerOf
<1>2. /\ s \in Seq(Nat) /\ Len(s) = L
      /\ t \in Seq(Nat) /\ Len(t) = L /\ Distinct(t) /\ ToSet(t) = C
  BY <1>1 DEF InnerOf
<1>3. PICK y : y = PutAt(t, i, q)
  OBVIOUS
<1>4. y \in Seq(Nat) /\ Len(y) = L /\ Distinct(y) /\ ToSet(y) = (C \ {t[i]}) \cup {q}
  <2>1. t \in Seq(Nat) /\ i \in 1 .. Len(t) /\ Len(t) = L /\ Distinct(t) /\ ToSet(t) = C
    BY <1>2
  <2>2. y \in Seq(Nat) /\ Len(y) = Len(t) /\ Distinct(y) /\ ToSet(y) = (ToSet(t) \ {t[i]}) \cup {q}
    <3>1. y \in Seq(Nat)
      BY <1>3, <2>1 DEF PutAt
    <3>2. Len(y) = Len(t)
      BY <1>3, <2>1 DEF PutAt
    <3>3. y[i] = q
      BY <1>3, <2>1 DEF PutAt
    <3>4. \A j \in 1 .. Len(t) : j # i => y[j] = t[j]
      BY <1>3, <2>1 DEF PutAt
    <3>. QED  BY <2>1, <3>1, <3>2, <3>3, <3>4, ReplacedElements
  <2>. QED  BY <2>1, <2>2
<1>5. WithChild(n, i, q) = Internal(s, y)
  BY <1>0, <1>3, FieldReplaced
<1>7. n.ptr = t
  BY <1>0, NodeFields
<1>6. InnerOf(WithChild(n, i, q), s, y, L, (C \ {n.ptr[i]}) \cup {q})
  BY <1>2, <1>4, <1>5, <1>7 DEF InnerOf
<1>. QED  BY <1>6 DEF GoodInner

\* The keys of a node do not tell which children it has.
LEMMA InnerRekeyed ==
    ASSUME NEW n, NEW L \in Nat \ {0}, NEW C, GoodInner(n, L, C), NEW i \in 1 .. L, NEW k \in Nat
    PROVE  /\ GoodInner(WithKey(n, i, k), L, C)
           /\ WithKey(n, i, k).ptr = n.ptr /\ ~WithKey(n, i, k).leaf
<1>1. PICK s, t : InnerOf(n, s, t, L, C)
  BY DEF GoodInner
<1>0. n = Internal(s, t)
  BY <1>1 DEF InnerOf
<1>2. /\ s \in Seq(Nat) /\ Len(s) = L
      /\ t \in Seq(Nat) /\ Len(t) = L /\ Distinct(t) /\ ToSet(t) = C
  BY <1>1 DEF InnerOf
<1>3. PICK x : x = PutAt(s, i, k)
  OBVIOUS
<1>4. x \in Seq(Nat) /\ Len(x) = L
  BY <1>2, <1>3 DEF PutAt
<1>5. WithKey(n, i, k) = Internal(x, t)
  BY <1>0, <1>3, FieldReplaced
<1>6. InnerOf(WithKey(n, i, k), x, t, L, C)
  BY <1>2, <1>4, <1>5 DEF InnerOf
<1>7. GoodInner(WithKey(n, i, k), L, C)
  BY <1>6 DEF GoodInner
<1>8. Internal(x, t).ptr = n.ptr /\ ~Internal(x, t).leaf
  BY <1>0, NodeFields
<1>. QED  BY <1>5, <1>7, <1>8

\* A full node has an even number of keys, and two halves.
LEMMA Halves == midIndex \in Nat \ {0} /\ 2 * midIndex = MAX_PER_NODE /\ midIndex < MAX_PER_NODE
BY BTreeAssumption DEF midIndex

LEMMA HalfSequences ==
    ASSUME NEW X, NEW s \in Seq(X), NEW m \in Nat, Len(s) = 2 * m
    PROVE  /\ SubSeq(s, 1, m) \in Seq(X) /\ Len(SubSeq(s, 1, m)) = m
           /\ SubSeq(s, m + 1, 2 * m) \in Seq(X) /\ Len(SubSeq(s, m + 1, 2 * m)) = m
<1>1. SubSeq(s, 1, m) \in Seq(X) /\ Len(SubSeq(s, 1, m)) = m
  OBVIOUS
<1>2. SubSeq(s, m + 1, 2 * m) \in Seq(X) /\ Len(SubSeq(s, m + 1, 2 * m)) = m
  OBVIOUS
<1>. QED  BY <1>1, <1>2

LEMMA HalfNodes ==
    ASSUME NEW s, NEW t, NEW m, m = midIndex
    PROVE  /\ Lower(Leaf(s, t)) = Leaf(SubSeq(s, 1, m), SubSeq(t, 1, m))
           /\ Upper(Leaf(s, t)) = Leaf(SubSeq(s, m + 1, 2 * m), SubSeq(t, m + 1, 2 * m))
           /\ Lower(Internal(s, t)) = Internal(SubSeq(s, 1, m), SubSeq(t, 1, m))
           /\ Upper(Internal(s, t)) = Internal(SubSeq(s, m + 1, 2 * m), SubSeq(t, m + 1, 2 * m))
BY DEF Leaf, Internal, Part, Lower, Upper

LEMMA InnerHalves ==
    ASSUME NEW n, NEW C, GoodInner(n, MAX_PER_NODE, C)
    PROVE  \E A, B : /\ A \cup B = C /\ A \cap B = {}
                     /\ GoodInner(Lower(n), midIndex, A) /\ GoodInner(Upper(n), midIndex, B)
<1>1. PICK m : m = midIndex
  OBVIOUS
<1>2. m \in Nat \ {0} /\ 2 * m = MAX_PER_NODE
  BY <1>1, Halves
<1>3. PICK s, t : InnerOf(n, s, t, MAX_PER_NODE, C)
  BY DEF GoodInner
<1>0. n = Internal(s, t)
  BY <1>2, <1>3 DEF InnerOf
<1>4. /\ s \in Seq(Nat) /\ Len(s) = 2 * m
      /\ t \in Seq(Nat) /\ Len(t) = 2 * m /\ Distinct(t) /\ ToSet(t) = C
  BY <1>2, <1>3 DEF InnerOf
<1>5. PICK a, b, x, y : /\ a = SubSeq(t, 1, m) /\ b = SubSeq(t, m + 1, 2 * m)
                        /\ x = SubSeq(s, 1, m) /\ y = SubSeq(s, m + 1, 2 * m)
  OBVIOUS
<1>6. Lower(n) = Internal(x, a) /\ Upper(n) = Internal(y, b)
  BY <1>0, <1>1, <1>5, HalfNodes
<1>7. /\ a \in Seq(Nat) /\ Len(a) = m /\ Distinct(a)
      /\ b \in Seq(Nat) /\ Len(b) = m /\ Distinct(b)
      /\ C = ToSet(a) \cup ToSet(b) /\ ToSet(a) \cap ToSet(b) = {}
  <2>1. m \in Nat /\ t \in Seq(Nat) /\ Len(t) = 2 * m /\ Distinct(t) /\ ToSet(t) = C
    BY <1>2, <1>4
  <2>. QED  BY <1>5, <2>1, HalvedElements
<1>8. x \in Seq(Nat) /\ Len(x) = m /\ y \in Seq(Nat) /\ Len(y) = m
  <2>1. m \in Nat /\ s \in Seq(Nat) /\ Len(s) = 2 * m
    BY <1>2, <1>4
  <2>. QED  BY <1>5, <2>1, HalfSequences
<1>9. GoodInner(Lower(n), m, ToSet(a)) /\ GoodInner(Upper(n), m, ToSet(b))
  BY <1>6, <1>7, <1>8 DEF GoodInner, InnerOf
<1>. QED  BY <1>1, <1>7, <1>9

\* Where an element of a sequence was before InsertAt put another one at the
\* place at.
Origin(at, L) == [i \in 1 .. L + 1 |-> IF i = at THEN 0 ELSE IF i < at THEN i ELSE i - 1]
Origins(o, at, L) ==
  /\ \A i \in 1 .. L + 1 : i # at => o[i] \in 1 .. L
  /\ \A i, h \in 1 .. L + 1 : i # at /\ h # at /\ o[i] = o[h] => i = h
  /\ \A h \in 1 .. L : \E i \in 1 .. L + 1 : i # at /\ o[i] = h
InsertedBy(x, s, at, e, o, L) == x[at] = e /\ \A i \in 1 .. L + 1 : i # at => x[i] = s[o[i]]

LEMMA OriginPlaces ==
    ASSUME NEW L \in Nat, NEW at \in 1 .. L + 1
    PROVE  Origins(Origin(at, L), at, L)
<1>0. PICK o : o = Origin(at, L)
  OBVIOUS
<1>1. \A i \in 1 .. L + 1 : i # at => (i < at /\ o[i] = i) \/ (i > at /\ o[i] = i - 1)
  BY <1>0 DEF Origin
<1>2. \A i \in 1 .. L + 1 : i # at => o[i] \in 1 .. L
  BY <1>1
<1>3. ASSUME NEW i \in 1 .. L + 1, NEW h \in 1 .. L + 1, i # at, h # at, o[i] = o[h] PROVE i = h
  <2>1. /\ (i < at /\ o[i] = i) \/ (i > at /\ o[i] = i - 1)
        /\ (h < at /\ o[h] = h) \/ (h > at /\ o[h] = h - 1)
    BY <1>1, <1>3
  <2>. QED  BY <1>3, <2>1
<1>4. ASSUME NEW h \in 1 .. L PROVE \E i \in 1 .. L + 1 : i # at /\ o[i] = h
  <2>1. CASE h < at
    <3>1. h \in 1 .. L + 1 /\ h # at
      BY <2>1
    <3>2. o[h] = h
      BY <1>1, <2>1, <3>1
    <3>. QED  BY <3>1, <3>2
  <2>2. CASE ~(h < at)
    <3>1. h + 1 \in 1 .. L + 1 /\ h + 1 # at /\ h + 1 > at /\ (h + 1) - 1 = h
      BY <2>2
    <3>2. o[h + 1] = h
      BY <1>1, <3>1
    <3>. QED  BY <3>1, <3>2
  <2>. QED  BY <2>1, <2>2
<1>5. Origins(o, at, L)
  BY <1>2, <1>3, <1>4 DEF Origins
<1>. QED  BY <1>0, <1>5

LEMMA InsertedOrigin ==
    ASSUME NEW X, NEW s \in Seq(X), NEW at \in 1 .. Len(s) + 1, NEW e \in X
    PROVE  InsertedBy(InsertAt(s, at, e), s, at, e, Origin(at, Len(s)), Len(s))
<1>0. PICK x, o : x = InsertAt(s, at, e) /\ o = Origin(at, Len(s))
  OBVIOUS
<1>1. x[at] = e /\ at \in Nat /\ Len(s) \in Nat
      /\ (\A j \in 1 .. at - 1 : x[j] = s[j]) /\ (\A j \in at .. Len(s) : x[j + 1] = s[j])
  BY <1>0, InsertAtPlaces DEF InsertedAt
<1>2. ASSUME NEW i \in 1 .. Len(s) + 1, i # at PROVE x[i] = s[o[i]]
  <2>1. CASE i < at
    <3>1. o[i] = i
      BY <1>0, <1>1, <2>1 DEF Origin
    <3>2. i \in 1 .. at - 1
      BY <1>1, <2>1
    <3>. QED  BY <1>1, <3>1, <3>2
  <2>2. CASE i > at
    <3>1. o[i] = i - 1
      BY <1>0, <1>1, <2>2 DEF Origin
    <3>2. i - 1 \in at .. Len(s) /\ (i - 1) + 1 = i
      BY <1>1, <2>2
    <3>3. x[i] = s[i - 1]
      BY <1>1, <3>2
    <3>. QED  BY <3>1, <3>3
  <2>. QED  BY <1>1, <1>2, <2>1, <2>2
<1>. QED  BY <1>0, <1>1, <1>2 DEF InsertedBy

\* The lists of a leaf when one is added, or one gets another value, and those
\* of its halves.
LEMMA ListsInserted ==
    ASSUME NEW s, NEW t, NEW L \in Nat, NEW W, NEW in, ListsOf(s, t, L, W, in),
           NEW at \in 1 .. L + 1, NEW o, Origins(o, at, L), NEW x, NEW y, NEW k, NEW e, NEW v,
           InsertedBy(x, s, at, k, o, L), InsertedBy(y, t, at, e, o, L),
           Len(e) = 1, e[1] = v, v \notin W, in[v] = k
    PROVE  ListsOf(x, y, L + 1, W \cup {v}, in)
<1>1. \A i \in 1 .. L : \A j \in 1 .. Len(t[i]) : t[i][j] \in W /\ s[i] = in[t[i][j]]
  BY DEF ListsOf
<1>2. \A w \in W : \E i \in 1 .. L : \E j \in 1 .. Len(t[i]) : t[i][j] = w
  BY DEF ListsOf
<1>3. \A i, h \in 1 .. L : \A j \in 1 .. Len(t[i]), g \in 1 .. Len(t[h]) :
        t[i][j] = t[h][g] => i = h /\ j = g
  BY DEF ListsOf
<1>4. x[at] = k /\ \A i \in 1 .. L + 1 : i # at => x[i] = s[o[i]]
  BY DEF InsertedBy
<1>5. y[at] = e /\ \A i \in 1 .. L + 1 : i # at => y[i] = t[o[i]]
  BY DEF InsertedBy
<1>6. /\ \A i \in 1 .. L + 1 : i # at => o[i] \in 1 .. L
      /\ \A i, h \in 1 .. L + 1 : i # at /\ h # at /\ o[i] = o[h] => i = h
      /\ \A h \in 1 .. L : \E i \in 1 .. L + 1 : i # at /\ o[i] = h
  BY DEF Origins
<1>7. ASSUME NEW i \in 1 .. L + 1, NEW j \in 1 .. Len(y[i])
      PROVE  y[i][j] \in W \cup {v} /\ x[i] = in[y[i][j]] /\ (y[i][j] = v <=> i = at)
             /\ (i = at => j = 1)
  <2>1. CASE i = at
    <3>1. y[i] = e
      BY <1>5, <2>1
    <3>2. Len(y[i]) = 1
      BY <3>1, Zenon
    <3>3. j = 1
      BY <3>2
    <3>. QED  BY <1>4, <2>1, <3>1, <3>3
  <2>2. CASE i # at
    <3>1. y[i] = t[o[i]] /\ x[i] = s[o[i]] /\ o[i] \in 1 .. L
      BY <1>4, <1>5, <1>6, <2>2
    <3>2. j \in 1 .. Len(t[o[i]])
      BY <3>1
    <3>3. t[o[i]][j] \in W /\ s[o[i]] = in[t[o[i]][j]]
      BY <1>1, <3>1, <3>2
    <3>. QED  BY <2>2, <3>1, <3>3
  <2>. QED  BY <2>1, <2>2
<1>8. ASSUME NEW w \in W \cup {v} PROVE \E i \in 1 .. L + 1 : \E j \in 1 .. Len(y[i]) : y[i][j] = w
  <2>1. CASE w = v
    <3>1. 1 \in 1 .. Len(y[at]) /\ y[at][1] = w
      BY <1>5, <2>1
    <3>. QED  BY <3>1
  <2>2. CASE w # v
    <3>1. PICK h \in 1 .. L : \E j \in 1 .. Len(t[h]) : t[h][j] = w
      BY <1>2, <2>2
    <3>2. PICK i \in 1 .. L + 1 : i # at /\ o[i] = h
      BY <1>6
    <3>3. y[i] = t[h]
      BY <1>5, <3>2
    <3>. QED  BY <3>1, <3>3
  <2>. QED  BY <2>1, <2>2
<1>9. ASSUME NEW i \in 1 .. L + 1, NEW h \in 1 .. L + 1,
             NEW j \in 1 .. Len(y[i]), NEW g \in 1 .. Len(y[h]), y[i][j] = y[h][g]
      PROVE  i = h /\ j = g
  <2>1. i = at <=> h = at
    BY <1>7, <1>9
  <2>2. CASE i = at
    BY <1>7, <2>1, <2>2
  <2>3. CASE i # at
    <3>1. y[i] = t[o[i]] /\ o[i] \in 1 .. L /\ y[h] = t[o[h]] /\ o[h] \in 1 .. L
      BY <1>5, <1>6, <2>1, <2>3
    <3>2. j \in 1 .. Len(t[o[i]]) /\ g \in 1 .. Len(t[o[h]]) /\ t[o[i]][j] = t[o[h]][g]
      BY <1>9, <3>1
    <3>3. o[i] = o[h] /\ j = g
      BY <1>3, <3>1, <3>2
    <3>. QED  BY <1>6, <2>1, <2>3, <3>3
  <2>. QED  BY <2>2, <2>3
<1>. QED  BY <1>7, <1>8, <1>9 DEF ListsOf

AppendedBy(y, t, at, v, q, L) ==
  /\ q \in Nat /\ q = Len(t[at])
  /\ Len(y[at]) = q + 1 /\ y[at][q + 1] = v /\ \A j \in 1 .. q : y[at][j] = t[at][j]
  /\ \A i \in 1 .. L : i # at => y[i] = t[i]

LEMMA ListsAppended ==
    ASSUME NEW s, NEW t, NEW L \in Nat, NEW W, NEW in, ListsOf(s, t, L, W, in),
           NEW at \in 1 .. L, NEW y, NEW q, NEW v, AppendedBy(y, t, at, v, q, L),
           v \notin W, in[v] = s[at]
    PROVE  ListsOf(s, y, L, W \cup {v}, in)
<1>. /\ q \in Nat /\ q = Len(t[at])
     /\ Len(y[at]) = q + 1 /\ y[at][q + 1] = v /\ \A j \in 1 .. q : y[at][j] = t[at][j]
     /\ \A i \in 1 .. L : i # at => y[i] = t[i]
  BY DEF AppendedBy
<1>1. \A i \in 1 .. L : \A j \in 1 .. Len(t[i]) : t[i][j] \in W /\ s[i] = in[t[i][j]]
  BY DEF ListsOf
<1>2. \A w \in W : \E i \in 1 .. L : \E j \in 1 .. Len(t[i]) : t[i][j] = w
  BY DEF ListsOf
<1>3. \A i, h \in 1 .. L : \A j \in 1 .. Len(t[i]), g \in 1 .. Len(t[h]) :
        t[i][j] = t[h][g] => i = h /\ j = g
  BY DEF ListsOf
<1>4. ASSUME NEW i \in 1 .. L, NEW j \in 1 .. Len(y[i])
      PROVE  \/ i = at /\ j = q + 1 /\ y[i][j] = v
             \/ j \in 1 .. Len(t[i]) /\ y[i][j] = t[i][j]
  <2>1. CASE i = at
    <3>1. j \in 1 .. q + 1
      BY <2>1
    <3>2. CASE j = q + 1
      BY <2>1, <3>2
    <3>3. CASE j # q + 1
      <4>1. j \in 1 .. q
        BY <3>1, <3>3
      <4>. QED  BY <2>1, <4>1
    <3>. QED  BY <3>2, <3>3
  <2>2. CASE i # at
    BY <2>2
  <2>. QED  BY <2>1, <2>2
<1>5. ASSUME NEW i \in 1 .. L, NEW j \in 1 .. Len(y[i])
      PROVE  y[i][j] \in W \cup {v} /\ s[i] = in[y[i][j]]
  <2>1. CASE i = at /\ j = q + 1 /\ y[i][j] = v
    BY <2>1
  <2>2. CASE j \in 1 .. Len(t[i]) /\ y[i][j] = t[i][j]
    BY <1>1, <2>2
  <2>. QED  BY <1>4, <2>1, <2>2
<1>6. ASSUME NEW w \in W \cup {v} PROVE \E i \in 1 .. L : \E j \in 1 .. Len(y[i]) : y[i][j] = w
  <2>1. CASE w = v
    <3>1. q + 1 \in 1 .. Len(y[at]) /\ y[at][q + 1] = w
      BY <2>1
    <3>. QED  BY <3>1
  <2>2. CASE w # v
    <3>1. PICK i \in 1 .. L : \E j \in 1 .. Len(t[i]) : t[i][j] = w
      BY <1>2, <2>2
    <3>2. PICK j \in 1 .. Len(t[i]) : t[i][j] = w
      BY <3>1
    <3>3. j \in 1 .. Len(y[i]) /\ y[i][j] = w
      <4>1. CASE i = at
        <5>1. j \in 1 .. q
          BY <4>1
        <5>. QED  BY <3>2, <4>1, <5>1
      <4>2. CASE i # at
        BY <3>2, <4>2
      <4>. QED  BY <4>1, <4>2
    <3>. QED  BY <3>3
  <2>. QED  BY <2>1, <2>2
<1>7. ASSUME NEW i \in 1 .. L, NEW h \in 1 .. L,
             NEW j \in 1 .. Len(y[i]), NEW g \in 1 .. Len(y[h]), y[i][j] = y[h][g]
      PROVE  i = h /\ j = g
  <2>1. \A l \in 1 .. L : \A f \in 1 .. Len(t[l]) : t[l][f] # v
    BY <1>1
  <2>2. /\ \/ i = at /\ j = q + 1 /\ y[i][j] = v
           \/ j \in 1 .. Len(t[i]) /\ y[i][j] = t[i][j]
        /\ \/ h = at /\ g = q + 1 /\ y[h][g] = v
           \/ g \in 1 .. Len(t[h]) /\ y[h][g] = t[h][g]
    BY <1>4
  <2>3. CASE y[i][j] = v
    BY <1>7, <2>1, <2>2, <2>3
  <2>4. CASE y[i][j] # v
    BY <1>3, <1>7, <2>2, <2>4
  <2>. QED  BY <2>3, <2>4
<1>. QED  BY <1>5, <1>6, <1>7 DEF ListsOf

\* The first half of a sequence and the second.
Halved2(s, m, a, b) == \A i \in 1 .. m : a[i] = s[i] /\ b[i] = s[m + i]
LEMMA HalfPlaces ==
    ASSUME NEW X, NEW s \in Seq(X), NEW m \in Nat, Len(s) = 2 * m
    PROVE  Halved2(s, m, SubSeq(s, 1, m), SubSeq(s, m + 1, 2 * m))
<1>1. \A i \in 1 .. m : SubSeq(s, 1, m)[i] = s[i]
  OBVIOUS
<1>2. \A i \in 1 .. m : SubSeq(s, m + 1, 2 * m)[i] = s[m + i]
  OBVIOUS
<1>. QED  BY <1>1, <1>2 DEF Halved2

ListsApart(x, a, y, b, m, W, in) ==
  \E A, B \in SUBSET Nat : /\ A \cup B = W /\ A \cap B = {}
                           /\ ListsOf(x, a, m, A, in) /\ ListsOf(y, b, m, B, in)

LEMMA ListsHalved ==
    ASSUME NEW s, NEW t, NEW m \in Nat, NEW W \in SUBSET Nat, NEW in, ListsOf(s, t, 2 * m, W, in),
           NEW x, NEW a, NEW y, NEW b,
           Halved2(s, m, x, y), Halved2(t, m, a, b)
    PROVE  ListsApart(x, a, y, b, m, W, in)
<1>. /\ \A i \in 1 .. m : x[i] = s[i] /\ a[i] = t[i]
     /\ \A i \in 1 .. m : y[i] = s[m + i] /\ b[i] = t[m + i]
  BY DEF Halved2
<1>1. \A i \in 1 .. 2 * m : \A j \in 1 .. Len(t[i]) : t[i][j] \in W /\ s[i] = in[t[i][j]]
  BY DEF ListsOf
<1>2. \A w \in W : \E i \in 1 .. 2 * m : \E j \in 1 .. Len(t[i]) : t[i][j] = w
  BY DEF ListsOf
<1>3. \A i, h \in 1 .. 2 * m : \A j \in 1 .. Len(t[i]), g \in 1 .. Len(t[h]) :
        t[i][j] = t[h][g] => i = h /\ j = g
  BY DEF ListsOf
<1>4. /\ \A i \in 1 .. m : i \in 1 .. 2 * m /\ m + i \in 1 .. 2 * m
      /\ \A i \in 1 .. 2 * m : i \in 1 .. m \/ \E h \in 1 .. m : i = m + h
  <2>1. \A i \in 1 .. 2 * m : i \in 1 .. m \/ (i - m \in 1 .. m /\ i = m + (i - m))
    OBVIOUS
  <2>. QED  BY <2>1
<1> DEFINE A == {v \in W : \E i \in 1 .. m : \E j \in 1 .. Len(a[i]) : a[i][j] = v}
           B == {v \in W : \E i \in 1 .. m : \E j \in 1 .. Len(b[i]) : b[i][j] = v}
<1>5. ASSUME NEW v \in W PROVE v \in A \/ v \in B
  <2>1. PICK i \in 1 .. 2 * m : \E j \in 1 .. Len(t[i]) : t[i][j] = v
    BY <1>2
  <2>2. CASE i \in 1 .. m
    <3>1. a[i] = t[i]
      BY <2>2
    <3>2. \E j \in 1 .. Len(a[i]) : a[i][j] = v
      BY <2>1, <3>1
    <3>. QED  BY <2>2, <3>2
  <2>3. ASSUME NEW h \in 1 .. m, i = m + h PROVE v \in B
    <3>1. b[h] = t[i]
      BY <2>3
    <3>2. \E j \in 1 .. Len(b[h]) : b[h][j] = v
      BY <2>1, <3>1
    <3>. QED  BY <3>2
  <2>. QED  BY <1>4, <2>2, <2>3
<1>6. ASSUME NEW v \in W, v \in A, v \in B PROVE FALSE
  <2>1. PICK i \in 1 .. m : \E j \in 1 .. Len(a[i]) : a[i][j] = v
    BY <1>6
  <2>2. PICK h \in 1 .. m : \E g \in 1 .. Len(b[h]) : b[h][g] = v
    BY <1>6
  <2>3. PICK j \in 1 .. Len(a[i]) : a[i][j] = v
    BY <2>1
  <2>4. PICK g \in 1 .. Len(b[h]) : b[h][g] = v
    BY <2>2
  <2>5. a[i] = t[i] /\ b[h] = t[m + h]
    OBVIOUS
  <2>6. j \in 1 .. Len(t[i]) /\ g \in 1 .. Len(t[m + h]) /\ t[i][j] = t[m + h][g]
    BY <2>3, <2>4, <2>5
  <2>7. i = m + h
    BY <1>3, <1>4, <2>6
  <2>. QED  BY <2>7
<1>7. ListsOf(x, a, m, A, in)
  <2>1. ASSUME NEW i \in 1 .. m, NEW j \in 1 .. Len(a[i]) PROVE a[i][j] \in A /\ x[i] = in[a[i][j]]
    <3>1. i \in 1 .. 2 * m /\ x[i] = s[i] /\ a[i] = t[i] /\ j \in 1 .. Len(t[i])
      BY <1>4
    <3>2. a[i][j] \in W /\ x[i] = in[a[i][j]]
      BY <1>1, <3>1
    <3>. QED  BY <3>2
  <2>2. \A v \in A : \E i \in 1 .. m : \E j \in 1 .. Len(a[i]) : a[i][j] = v
    OBVIOUS
  <2>3. ASSUME NEW i \in 1 .. m, NEW h \in 1 .. m, NEW j \in 1 .. Len(a[i]), NEW g \in 1 .. Len(a[h]),
               a[i][j] = a[h][g]
        PROVE  i = h /\ j = g
    <3>1. i \in 1 .. 2 * m /\ h \in 1 .. 2 * m /\ a[i] = t[i] /\ a[h] = t[h]
      BY <1>4
    <3>2. j \in 1 .. Len(t[i]) /\ g \in 1 .. Len(t[h]) /\ t[i][j] = t[h][g]
      BY <2>3, <3>1
    <3>. QED  BY <1>3, <3>1, <3>2
  <2> HIDE DEF A
  <2>. QED  BY <2>1, <2>2, <2>3 DEF ListsOf
<1>8. ListsOf(y, b, m, B, in)
  <2>1. ASSUME NEW i \in 1 .. m, NEW j \in 1 .. Len(b[i]) PROVE b[i][j] \in B /\ y[i] = in[b[i][j]]
    <3>1. m + i \in 1 .. 2 * m /\ y[i] = s[m + i] /\ b[i] = t[m + i] /\ j \in 1 .. Len(t[m + i])
      BY <1>4
    <3>2. b[i][j] \in W /\ y[i] = in[b[i][j]]
      BY <1>1, <3>1
    <3>. QED  BY <3>2
  <2>2. \A v \in B : \E i \in 1 .. m : \E j \in 1 .. Len(b[i]) : b[i][j] = v
    OBVIOUS
  <2>3. ASSUME NEW i \in 1 .. m, NEW h \in 1 .. m, NEW j \in 1 .. Len(b[i]), NEW g \in 1 .. Len(b[h]),
               b[i][j] = b[h][g]
        PROVE  i = h /\ j = g
    <3>1. m + i \in 1 .. 2 * m /\ m + h \in 1 .. 2 * m /\ b[i] = t[m + i] /\ b[h] = t[m + h]
      BY <1>4
    <3>2. j \in 1 .. Len(t[m + i]) /\ g \in 1 .. Len(t[m + h]) /\ t[m + i][j] = t[m + h][g]
      BY <2>3, <3>1
    <3>3. m + i = m + h /\ j = g
      BY <1>3, <3>1, <3>2
    <3>. QED  BY <3>3
  <2> HIDE DEF B
  <2>. QED  BY <2>1, <2>2, <2>3 DEF ListsOf
<1>9. A \in SUBSET Nat /\ B \in SUBSET Nat
  OBVIOUS
<1>10. A \cup B = W
  BY <1>5
<1>11. A \cap B = {}
  BY <1>6
<1> HIDE DEF A, B
<1>. QED  BY <1>7, <1>8, <1>9, <1>10, <1>11 DEF ListsApart

\* What becomes of a leaf.
LEMMA LeafAdd ==
    ASSUME NEW n, NEW L \in Nat \ {0}, NEW W, NEW in, GoodLeaf(n, L, W, in),
           NEW k \in Nat, NEW v \in Nat, v \notin W, in[v] = k
    PROVE  GoodLeaf(addItemAt(n, k, <<v>>), L + 1, W \cup {v}, in)
<1>1. PICK s, t : LeafOf(n, s, t, L, W, in)
  BY DEF GoodLeaf
<1>2. n = Leaf(s, t) /\ ListsOf(s, t, L, W, in)
  BY <1>1 DEF LeafOf
<1>3. s \in Seq(Nat) /\ Len(s) = L
  BY <1>1 DEF LeafOf
<1>4. t \in Seq(Seq(Nat)) /\ Len(t) = L
  BY <1>1 DEF LeafOf
<1>5. PICK e : e = <<v>>
  OBVIOUS
<1>6. PICK at \in 1 .. L + 1 :
        addItemAt(Leaf(s, t), k, e) = Leaf(InsertAt(s, at, k), InsertAt(t, at, e))
  <2>1. Len(s) = L
    BY <1>3
  <2>2. \E at \in 1 .. L + 1 :
          /\ addItemAt(Leaf(s, t), k, e) = Leaf(InsertAt(s, at, k), InsertAt(t, at, e))
          /\ addItemAt(Internal(s, t), k, e) = Internal(InsertAt(s, at, k), InsertAt(t, at, e))
    BY <2>1, AddItemAt
  <2>. QED  BY <2>2
<1>7. PICK x, y, o : x = InsertAt(s, at, k) /\ y = InsertAt(t, at, e) /\ o = Origin(at, L)
  OBVIOUS
<1>8. e \in Seq(Nat) /\ Len(e) = 1 /\ e[1] = v
  BY <1>5
<1>9. /\ x \in Seq(Nat) /\ Len(x) = L + 1
      /\ InsertedBy(x, s, at, k, o, L)
  <2>1. at \in 1 .. Len(s) + 1 /\ o = Origin(at, Len(s)) /\ s \in Seq(Nat) /\ Len(s) = L
    BY <1>3, <1>7
  <2>2. x \in Seq(Nat) /\ InsertedAt(x, s, at, k)
    BY <1>7, <2>1, InsertAtPlaces
  <2>3. InsertedBy(x, s, at, k, o, Len(s))
    BY <1>7, <2>1, InsertedOrigin
  <2>. QED  BY <2>1, <2>2, <2>3 DEF InsertedAt
<1>10. /\ y \in Seq(Seq(Nat)) /\ Len(y) = L + 1
       /\ InsertedBy(y, t, at, e, o, L)
  <2>1. at \in 1 .. Len(t) + 1 /\ o = Origin(at, Len(t)) /\ t \in Seq(Seq(Nat)) /\ Len(t) = L
    BY <1>4, <1>7
  <2>2. y \in Seq(Seq(Nat)) /\ InsertedAt(y, t, at, e)
    BY <1>7, <1>8, <2>1, InsertAtPlaces
  <2>3. InsertedBy(y, t, at, e, o, Len(t))
    BY <1>7, <1>8, <2>1, InsertedOrigin
  <2>. QED  BY <2>1, <2>2, <2>3 DEF InsertedAt
<1>11. Origins(o, at, L)
  BY <1>7, OriginPlaces
<1>12. ListsOf(x, y, L + 1, W \cup {v}, in)
  <2>1. Len(e) = 1 /\ e[1] = v
    BY <1>8
  <2>2. InsertedBy(x, s, at, k, o, L) /\ InsertedBy(y, t, at, e, o, L)
    BY <1>9, <1>10
  <2>. QED  BY <1>2, <1>11, <2>1, <2>2, ListsInserted
<1>13. addItemAt(n, k, <<v>>) = Leaf(x, y)
  BY <1>2, <1>5, <1>6, <1>7
<1>14. LeafOf(Leaf(x, y), x, y, L + 1, W \cup {v}, in)
  BY <1>9, <1>10, <1>12 DEF LeafOf
<1>. QED  BY <1>13, <1>14 DEF GoodLeaf

LEMMA LeafKnown ==
    ASSUME NEW n, NEW L \in Nat \ {0}, NEW W, NEW in, GoodLeaf(n, L, W, in),
           NEW at \in 1 .. L, NEW v \in Nat, v \notin W, in[v] = n.keys[at]
    PROVE  GoodLeaf(WithValue(n, at, v), L, W \cup {v}, in)
<1>1. PICK s, t : LeafOf(n, s, t, L, W, in)
  BY DEF GoodLeaf
<1>2. n = Leaf(s, t) /\ ListsOf(s, t, L, W, in)
  BY <1>1 DEF LeafOf
<1>3. s \in Seq(Nat) /\ Len(s) = L
  BY <1>1 DEF LeafOf
<1>4. t \in Seq(Seq(Nat)) /\ Len(t) = L
  BY <1>1 DEF LeafOf
<1>5. PICK y, e, q : y = AppendAt(t, at, v) /\ e = Append(t[at], v) /\ q = Len(t[at])
  OBVIOUS
<1>6. t[at] \in Seq(Nat)
  BY <1>4
<1>7. e \in Seq(Nat)
  BY <1>5, <1>6
<1>8. q \in Nat /\ Len(e) = q + 1 /\ e[q + 1] = v /\ \A j \in 1 .. q : e[j] = t[at][j]
  BY <1>5, <1>6
<1>9. y = [t EXCEPT ![at] = e]
  BY <1>5 DEF AppendAt
<1>10. y \in Seq(Seq(Nat))
  BY <1>4, <1>7, <1>9
<1>11. Len(y) = L
  BY <1>4, <1>9
<1>12. y[at] = e /\ \A i \in 1 .. L : i # at => y[i] = t[i]
  BY <1>4, <1>9
<1>13. Len(y[at]) = q + 1 /\ y[at][q + 1] = v /\ \A j \in 1 .. q : y[at][j] = t[at][j]
  BY <1>8, <1>12, Zenon
<1>14. in[v] = s[at]
  BY <1>2, NodeFields
<1>15. ListsOf(s, y, L, W \cup {v}, in)
  <2>1. \A i \in 1 .. L : i # at => y[i] = t[i]
    BY <1>12
  <2>2. q \in Nat /\ q = Len(t[at])
    BY <1>5, <1>8
  <2>3. AppendedBy(y, t, at, v, q, L)
    BY <1>13, <2>1, <2>2 DEF AppendedBy
  <2>4. L \in Nat /\ at \in 1 .. L
    OBVIOUS
  <2>. QED  BY <1>2, <1>14, <2>3, <2>4, ListsAppended
<1>16. WithValue(n, at, v) = Leaf(s, y)
  BY <1>2, <1>5, FieldReplaced
<1>17. LeafOf(Leaf(s, y), s, y, L, W \cup {v}, in)
  BY <1>3, <1>10, <1>11, <1>15 DEF LeafOf
<1>. QED  BY <1>16, <1>17 DEF GoodLeaf

LEMMA LeafHalves ==
    ASSUME NEW n, NEW W \in SUBSET Nat, NEW in, GoodLeaf(n, MAX_PER_NODE, W, in)
    PROVE  \E A, B \in SUBSET Nat :
             /\ A \cup B = W /\ A \cap B = {}
             /\ GoodLeaf(Lower(n), midIndex, A, in) /\ GoodLeaf(Upper(n), midIndex, B, in)
<1>1. PICK m : m = midIndex
  OBVIOUS
<1>2. m \in Nat \ {0} /\ 2 * m = MAX_PER_NODE
  BY <1>1, Halves
<1>3. PICK s, t : LeafOf(n, s, t, MAX_PER_NODE, W, in)
  BY DEF GoodLeaf
<1>4. n = Leaf(s, t)
  BY <1>3 DEF LeafOf
<1>5. ListsOf(s, t, 2 * m, W, in)
  BY <1>2, <1>3 DEF LeafOf
<1>6. m \in Nat /\ s \in Seq(Nat) /\ Len(s) = 2 * m
  BY <1>2, <1>3 DEF LeafOf
<1>7. m \in Nat /\ t \in Seq(Seq(Nat)) /\ Len(t) = 2 * m
  BY <1>2, <1>3 DEF LeafOf
<1>8. PICK a, b, x, y : /\ a = SubSeq(t, 1, m) /\ b = SubSeq(t, m + 1, 2 * m)
                        /\ x = SubSeq(s, 1, m) /\ y = SubSeq(s, m + 1, 2 * m)
  OBVIOUS
<1>9. Lower(n) = Leaf(x, a) /\ Upper(n) = Leaf(y, b)
  BY <1>1, <1>4, <1>8, HalfNodes
<1>10. a \in Seq(Seq(Nat)) /\ Len(a) = m /\ b \in Seq(Seq(Nat)) /\ Len(b) = m
  BY <1>7, <1>8, HalfSequences
<1>11. x \in Seq(Nat) /\ Len(x) = m /\ y \in Seq(Nat) /\ Len(y) = m
  BY <1>6, <1>8, HalfSequences
<1>12. Halved2(s, m, x, y) /\ Halved2(t, m, a, b)
  <2>1. Halved2(s, m, x, y)
    BY <1>6, <1>8, HalfPlaces
  <2>2. Halved2(t, m, a, b)
    BY <1>7, <1>8, HalfPlaces
  <2>. QED  BY <2>1, <2>2
<1>13. PICK A, B \in SUBSET Nat : /\ A \cup B = W /\ A \cap B = {}
                                  /\ ListsOf(x, a, m, A, in) /\ ListsOf(y, b, m, B, in)
  <2>1. m \in Nat
    BY <1>2
  <2>2. ListsApart(x, a, y, b, m, W, in)
    BY <1>5, <1>12, <2>1, ListsHalved
  <2>. QED  BY <2>2 DEF ListsApart
<1>14. GoodLeaf(Lower(n), m, A, in)
  BY <1>9, <1>10, <1>11, <1>13 DEF GoodLeaf, LeafOf
<1>15. GoodLeaf(Upper(n), m, B, in)
  BY <1>9, <1>10, <1>11, <1>13 DEF GoodLeaf, LeafOf
<1>. QED  BY <1>1, <1>13, <1>14, <1>15

-----------------------------------------------------------------------------
(* The heap: which node has which child and which value.                   *)

\* What f assigns to n. f names the parent of each node, or the leaf of each
\* value.
Of(f, n) == {u \in DOMAIN f : f[u] = n}

\* Tree(H, U, V, parent, home, lev, in, top): the nodes of H with their places
\* as names, U those that have a parent, V the values, lev the level, from the
\* leaves up, and top the root.
Nodes == {Leaf(s, t) : s \in Seq(Nat), t \in Seq(Seq(Nat))} \cup {Internal(s, t) : s, t \in Seq(Nat)}
Owners(U, V, D, parent, home, lev) ==
  /\ U \subseteq D /\ V \subseteq Nat
  /\ parent \in [U -> D] /\ home \in [V -> D] /\ lev \in [D -> Nat]
Levels(H, U, D, parent, lev, top) ==
  /\ \A n \in D : H[n].leaf <=> lev[n] = 0
  /\ \A c \in U : lev[parent[c]] = lev[c] + 1
  /\ top \in D /\ \A n \in D : lev[n] <= lev[top]
Tree(H, U, V, parent, home, lev, in, top) ==
  /\ H \in Seq(Nodes)
  /\ Owners(U, V, 1 .. Len(H), parent, home, lev)
  /\ \A n \in 1 .. Len(H) : GoodNode(H[n], Of(parent, n), Of(home, n), in)
  /\ Levels(H, U, 1 .. Len(H), parent, lev, top)

LEMMA NodeTyped ==
    ASSUME NEW n, NEW C, NEW W, NEW in, GoodNode(n, C, W, in)
    PROVE  n \in Nodes
<1>1. CASE \E L \in 1 .. MAX_PER_NODE : GoodLeaf(n, L, W, in)
  <2>1. PICK s, t : n = Leaf(s, t) /\ s \in Seq(Nat) /\ t \in Seq(Seq(Nat))
    BY <1>1 DEF GoodLeaf, LeafOf
  <2>. QED  BY <2>1 DEF Nodes
<1>2. CASE \E L \in 1 .. MAX_PER_NODE : GoodInner(n, L, C)
  <2>1. PICK s, t : n = Internal(s, t) /\ s \in Seq(Nat) /\ t \in Seq(Nat)
    BY <1>2 DEF GoodInner, InnerOf
  <2>. QED  BY <2>1 DEF Nodes
<1>. QED  BY <1>1, <1>2 DEF GoodNode

\* What a gives up goes to b, and both may get more.
Reassign(f, X, A, a, B, b) ==
  [u \in DOMAIN f \cup X |-> IF u \in A THEN a ELSE IF u \in B THEN b ELSE f[u]]

Shares(f, U, D, X, A, a, B, b) ==
  /\ f \in [U -> D] /\ a \in D /\ b \notin D
  /\ X \cap U = {} /\ A \cap B = {} /\ A \cup B = Of(f, a) \cup X
Reassigns(g, f, U, D, X, A, a, B, b) ==
  /\ g \in [U \cup X -> D \cup {b}] /\ (B = {} => g \in [U \cup X -> D])
  /\ Of(g, a) = A /\ Of(g, b) = B /\ \A n \in D \ {a} : Of(g, n) = Of(f, n)
  /\ \A u \in A \cup B : g[u] \in {a, b}
  /\ \A u \in U \ (A \cup B) : g[u] = f[u]

LEMMA Reassigned ==
    ASSUME NEW f, NEW U, NEW D, NEW X, NEW A, NEW a, NEW B, NEW b, Shares(f, U, D, X, A, a, B, b)
    PROVE  Reassigns(Reassign(f, X, A, a, B, b), f, U, D, X, A, a, B, b)
<1>. PICK g : g = Reassign(f, X, A, a, B, b)
  OBVIOUS
<1>. f \in [U -> D] /\ a \in D /\ b \notin D /\ X \cap U = {} /\ A \cap B = {} /\ A \cup B = Of(f, a) \cup X
  BY DEF Shares
<1>1. DOMAIN f = U /\ DOMAIN g = U \cup X
  BY DEF Reassign
<1>2. \A u \in U \cup X : g[u] = IF u \in A THEN a ELSE IF u \in B THEN b ELSE f[u]
  BY <1>1 DEF Reassign
<1>3. \A u : u \in A \cup B <=> (u \in U /\ f[u] = a) \/ u \in X
  BY <1>1 DEF Of
<1>4. \A u \in U : u \notin A \cup B => f[u] \in D /\ f[u] # a
  BY <1>3
<1>5. g \in [U \cup X -> D \cup {b}]
  <2>1. \A u \in U \cup X : g[u] \in D \cup {b}
    BY <1>2, <1>3, <1>4
  <2>. QED  BY <2>1, <1>1 DEF Reassign
<1>6. ASSUME B = {} PROVE g \in [U \cup X -> D]
  <2>1. \A u \in U \cup X : g[u] \in D
    BY <1>2, <1>3, <1>4, <1>6
  <2>. QED  BY <2>1, <1>1 DEF Reassign
<1>7. Of(g, a) = A
  <2>1. \A u \in U \cup X : g[u] = a <=> u \in A
    BY <1>2, <1>3, <1>4
  <2>2. A \subseteq U \cup X
    BY <1>3
  <2>. QED  BY <1>1, <2>1, <2>2 DEF Of
<1>8. Of(g, b) = B
  <2>1. \A u \in U \cup X : g[u] = b <=> u \in B
    BY <1>2, <1>3, <1>4
  <2>2. B \subseteq U \cup X
    BY <1>3
  <2>. QED  BY <1>1, <2>1, <2>2 DEF Of
<1>9. ASSUME NEW n \in D \ {a} PROVE Of(g, n) = Of(f, n)
  <2>1. \A u \in U \cup X : g[u] = n <=> u \in U /\ f[u] = n
    BY <1>2, <1>3, <1>4
  <2>. QED  BY <1>1, <2>1 DEF Of
<1>10. \A u \in A \cup B : g[u] \in {a, b}
  BY <1>2, <1>3
<1>11. \A u \in U \ (A \cup B) : g[u] = f[u]
  BY <1>2
<1>. QED  BY <1>5, <1>6, <1>7, <1>8, <1>9, <1>10, <1>11 DEF Reassigns

\* A heap in which a node is replaced, and one to which a node is added.
LEMMA HeapChanged ==
    ASSUME NEW H \in Seq(Nodes), NEW a \in 1 .. Len(H), NEW low \in Nodes, NEW up \in Nodes,
           NEW G, G = [H EXCEPT ![a] = low], NEW J, J = Append(G, up)
    PROVE  /\ G \in Seq(Nodes) /\ Len(G) = Len(H)
           /\ G[a] = low /\ \A n \in 1 .. Len(H) : n # a => G[n] = H[n]
           /\ J \in Seq(Nodes) /\ Len(J) = Len(H) + 1
           /\ J[Len(H) + 1] = up /\ J[a] = low
           /\ \A n \in 1 .. Len(H) : n # a => J[n] = H[n]
<1>1. G \in Seq(Nodes) /\ Len(G) = Len(H)
  OBVIOUS
<1>2. G[a] = low /\ \A n \in 1 .. Len(H) : n # a => G[n] = H[n]
  OBVIOUS
<1>3. J \in Seq(Nodes) /\ Len(J) = Len(H) + 1
  BY <1>1
<1>4. J[Len(H) + 1] = up /\ \A n \in 1 .. Len(H) : J[n] = G[n]
  BY <1>1
<1>. QED  BY <1>1, <1>2, <1>3, <1>4

LEMMA HeapExtended ==
    ASSUME NEW H \in Seq(Nodes), NEW up \in Nodes, NEW J, J = Append(H, up)
    PROVE  /\ J \in Seq(Nodes) /\ Len(J) = Len(H) + 1
           /\ J[Len(H) + 1] = up
           /\ \A n \in 1 .. Len(H) : J[n] = H[n]
OBVIOUS

\* A node that gets more children or values.
LEMMA TreeGrown ==
    ASSUME NEW H, NEW U, NEW V, NEW parent, NEW home, NEW lev, NEW in, NEW top,
           Tree(H, U, V, parent, home, lev, in, top),
           NEW a \in 1 .. Len(H), NEW n, NEW X \in SUBSET (1 .. Len(H)), NEW Y \in SUBSET Nat,
           X \cap U = {}, Y \cap V = {}, \A c \in X : lev[a] = lev[c] + 1,
           GoodNode(n, Of(parent, a) \cup X, Of(home, a) \cup Y, in),
           n.leaf <=> H[a].leaf
    PROVE  \E p, h : Tree([H EXCEPT ![a] = n], U \cup X, V \cup Y, p, h, lev, in, top)
<1>1. PICK D : D = 1 .. Len(H)
  OBVIOUS
<1>2. H \in Seq(Nodes) /\ Owners(U, V, D, parent, home, lev) /\ Levels(H, U, D, parent, lev, top)
      /\ \A m \in D : GoodNode(H[m], Of(parent, m), Of(home, m), in)
  BY <1>1 DEF Tree
<1>3. U \subseteq D /\ V \subseteq Nat /\ parent \in [U -> D] /\ home \in [V -> D] /\ lev \in [D -> Nat]
  BY <1>2 DEF Owners
<1>4. PICK b : b = Len(H) + 1
  OBVIOUS
<1>5. b \notin D /\ a \in D
  BY <1>1, <1>2, <1>4
<1>6. PICK p, h : /\ p = Reassign(parent, X, Of(parent, a) \cup X, a, {}, b)
                  /\ h = Reassign(home, Y, Of(home, a) \cup Y, a, {}, b)
  OBVIOUS
<1>7. /\ p \in [U \cup X -> D] /\ Of(p, a) = Of(parent, a) \cup X
      /\ \A m \in D \ {a} : Of(p, m) = Of(parent, m)
      /\ \A u \in U \ (Of(parent, a) \cup X) : p[u] = parent[u]
  <2>1. Shares(parent, U, D, X, Of(parent, a) \cup X, a, {}, b)
    BY <1>3, <1>5 DEF Shares
  <2>2. Reassigns(p, parent, U, D, X, Of(parent, a) \cup X, a, {}, b)
    BY <1>6, <2>1, Reassigned
  <2>. QED  BY <2>2 DEF Reassigns
<1>8. /\ h \in [V \cup Y -> D] /\ Of(h, a) = Of(home, a) \cup Y
      /\ \A m \in D \ {a} : Of(h, m) = Of(home, m)
  <2>1. Shares(home, V, D, Y, Of(home, a) \cup Y, a, {}, b)
    BY <1>3, <1>5 DEF Shares
  <2>2. Reassigns(h, home, V, D, Y, Of(home, a) \cup Y, a, {}, b)
    BY <1>6, <2>1, Reassigned
  <2>. QED  BY <2>2 DEF Reassigns
<1>9. PICK G : G = [H EXCEPT ![a] = n]
  OBVIOUS
<1>10. n \in Nodes
  BY NodeTyped
<1>11. G \in Seq(Nodes) /\ Len(G) = Len(H) /\ G[a] = n /\ \A m \in D : m # a => G[m] = H[m]
  BY <1>1, <1>2, <1>9, <1>10, HeapChanged
<1>12. Owners(U \cup X, V \cup Y, D, p, h, lev)
  BY <1>1, <1>3, <1>7, <1>8 DEF Owners
<1>13. ASSUME NEW m \in D PROVE GoodNode(G[m], Of(p, m), Of(h, m), in)
  <2>1. CASE m = a
    BY <1>7, <1>8, <1>11, <2>1
  <2>2. CASE m # a
    BY <1>2, <1>7, <1>8, <1>11, <2>2
  <2>. QED  BY <2>1, <2>2
<1>14. Levels(G, U \cup X, D, p, lev, top)
  <2>1. \A m \in D : G[m].leaf <=> lev[m] = 0
    BY <1>2, <1>5, <1>11 DEF Levels
  <2>2. ASSUME NEW c \in U \cup X PROVE lev[p[c]] = lev[c] + 1
    <3>1. CASE c \in X
      <4>1. p[c] = a
        BY <1>7, <3>1 DEF Of
      <4>. QED  BY <3>1, <4>1
    <3>2. CASE c \in Of(parent, a) /\ c \notin X
      <4>1. p[c] = a /\ parent[c] = a /\ c \in U
        BY <1>7, <3>2 DEF Of
      <4>. QED  BY <1>2, <4>1 DEF Levels
    <3>3. CASE c \notin Of(parent, a) /\ c \notin X
      <4>1. p[c] = parent[c] /\ c \in U
        BY <1>7, <3>3
      <4>. QED  BY <1>2, <4>1 DEF Levels
    <3>. QED  BY <3>1, <3>2, <3>3
  <2>. QED  BY <1>2, <2>1, <2>2 DEF Levels
<1>15. Tree(G, U \cup X, V \cup Y, p, h, lev, in, top)
  BY <1>1, <1>11, <1>12, <1>13, <1>14 DEF Tree
<1>. QED  BY <1>9, <1>15

\* A node of which a half is moved to a new one, which has no parent yet.
WithLevel(lev, b, l) == [m \in DOMAIN lev \cup {b} |-> IF m = b THEN l ELSE lev[m]]
LEMMA TreeSplit ==
    ASSUME NEW H, NEW U, NEW V, NEW parent, NEW home, NEW lev, NEW in, NEW top,
           Tree(H, U, V, parent, home, lev, in, top),
           NEW a \in 1 .. Len(H), NEW low, NEW up, NEW A, NEW B, NEW S, NEW T,
           NEW X \in SUBSET (1 .. Len(H)), NEW Y \in SUBSET Nat,
           X \cap U = {}, Y \cap V = {}, \A c \in X : lev[a] = lev[c] + 1,
           A \cap B = {}, A \cup B = Of(parent, a) \cup X,
           S \cap T = {}, S \cup T = Of(home, a) \cup Y,
           GoodNode(low, A, S, in), GoodNode(up, B, T, in),
           low.leaf <=> H[a].leaf, up.leaf <=> H[a].leaf
    PROVE  \E p, h : Tree(Append([H EXCEPT ![a] = low], up), U \cup X, V \cup Y, p, h,
                          WithLevel(lev, Len(H) + 1, lev[a]), in, top)
<1>1. PICK D : D = 1 .. Len(H)
  OBVIOUS
<1>2. H \in Seq(Nodes) /\ Owners(U, V, D, parent, home, lev) /\ Levels(H, U, D, parent, lev, top)
      /\ \A m \in D : GoodNode(H[m], Of(parent, m), Of(home, m), in)
  BY <1>1 DEF Tree
<1>3. U \subseteq D /\ V \subseteq Nat /\ parent \in [U -> D] /\ home \in [V -> D] /\ lev \in [D -> Nat]
  BY <1>2 DEF Owners
<1>4. PICK b : b = Len(H) + 1
  OBVIOUS
<1>5. b \notin D /\ a \in D /\ D \cup {b} = 1 .. b /\ b \in Nat
  BY <1>1, <1>2, <1>4
<1>6. PICK p, h, l : /\ p = Reassign(parent, X, A, a, B, b)
                     /\ h = Reassign(home, Y, S, a, T, b)
                     /\ l = WithLevel(lev, b, lev[a])
  OBVIOUS
<1>7. /\ p \in [U \cup X -> D \cup {b}] /\ Of(p, a) = A /\ Of(p, b) = B
      /\ \A m \in D \ {a} : Of(p, m) = Of(parent, m)
      /\ \A u \in A \cup B : p[u] \in {a, b}
      /\ \A u \in U \ (A \cup B) : p[u] = parent[u]
  <2>1. Shares(parent, U, D, X, A, a, B, b)
    BY <1>3, <1>5 DEF Shares
  <2>2. Reassigns(p, parent, U, D, X, A, a, B, b)
    BY <1>6, <2>1, Reassigned
  <2>. QED  BY <2>2 DEF Reassigns
<1>8. /\ h \in [V \cup Y -> D \cup {b}] /\ Of(h, a) = S /\ Of(h, b) = T
      /\ \A m \in D \ {a} : Of(h, m) = Of(home, m)
  <2>1. Shares(home, V, D, Y, S, a, T, b)
    BY <1>3, <1>5 DEF Shares
  <2>2. Reassigns(h, home, V, D, Y, S, a, T, b)
    BY <1>6, <2>1, Reassigned
  <2>. QED  BY <2>2 DEF Reassigns
<1>9. PICK G, J : G = [H EXCEPT ![a] = low] /\ J = Append(G, up)
  OBVIOUS
<1>10. low \in Nodes /\ up \in Nodes
  BY NodeTyped
<1>11. J \in Seq(Nodes) /\ Len(J) = b /\ J[a] = low /\ J[b] = up /\ \A m \in D : m # a => J[m] = H[m]
  BY <1>1, <1>2, <1>4, <1>9, <1>10, HeapChanged
<1>12. l \in [D \cup {b} -> Nat] /\ l[b] = lev[a] /\ \A m \in D : l[m] = lev[m]
  <2>1. DOMAIN lev = D /\ lev[a] \in Nat
    BY <1>3, <1>5
  <2>2. l = [m \in D \cup {b} |-> IF m = b THEN lev[a] ELSE lev[m]]
    BY <1>6, <2>1 DEF WithLevel
  <2>. QED  BY <1>3, <1>5, <2>1, <2>2
<1>13. Owners(U \cup X, V \cup Y, D \cup {b}, p, h, l)
  BY <1>1, <1>3, <1>7, <1>8, <1>12 DEF Owners
<1>14. ASSUME NEW m \in D \cup {b} PROVE GoodNode(J[m], Of(p, m), Of(h, m), in)
  <2>1. CASE m = a
    BY <1>7, <1>8, <1>11, <2>1
  <2>2. CASE m = b
    BY <1>7, <1>8, <1>11, <2>2
  <2>3. CASE m # a /\ m # b
    BY <1>2, <1>7, <1>8, <1>11, <2>3
  <2>. QED  BY <2>1, <2>2, <2>3
<1>15. Levels(J, U \cup X, D \cup {b}, p, l, top)
  <2>1. \A m \in D \cup {b} : J[m].leaf <=> l[m] = 0
    BY <1>2, <1>5, <1>11, <1>12 DEF Levels
  <2>2. ASSUME NEW c \in U \cup X PROVE l[p[c]] = l[c] + 1
    <3>1. c \in D /\ l[c] = lev[c]
      BY <1>1, <1>3, <1>12
    <3>2. CASE c \in A \cup B
      <4>1. l[p[c]] = lev[a]
        BY <1>5, <1>7, <1>12, <3>2
      <4>2. c \in X \/ (c \in U /\ parent[c] = a)
        BY <1>3, <3>2 DEF Of
      <4>3. lev[a] = lev[c] + 1
        BY <1>2, <4>2 DEF Levels
      <4>. QED  BY <3>1, <4>1, <4>3
    <3>3. CASE c \notin A \cup B
      <4>1. c \in U
        BY <3>3
      <4>2. p[c] = parent[c] /\ parent[c] \in D
        BY <1>3, <1>7, <3>3, <4>1
      <4>3. l[p[c]] = lev[parent[c]]
        BY <1>12, <4>2
      <4>. QED  BY <1>2, <3>1, <4>1, <4>3 DEF Levels
    <3>. QED  BY <3>2, <3>3
  <2>3. top \in D /\ \A m \in D : lev[m] <= lev[top]
    BY <1>2 DEF Levels
  <2>4. \A m \in D \cup {b} : l[m] <= l[top]
    BY <1>5, <1>12, <2>3
  <2>. QED  BY <2>1, <2>2, <2>3, <2>4 DEF Levels
<1>16. 1 .. Len(J) = D \cup {b}
  BY <1>5, <1>11
<1>17. Tree(J, U \cup X, V \cup Y, p, h, l, in, top)
  BY <1>11, <1>13, <1>14, <1>15, <1>16 DEF Tree
<1>. QED  BY <1>4, <1>6, <1>9, <1>17

\* A new root over the old one and the node that has no parent.
LEMMA TreeRaised ==
    ASSUME NEW H, NEW U, NEW V, NEW parent, NEW home, NEW lev, NEW in, NEW top,
           Tree(H, U, V, parent, home, lev, in, top),
           NEW c \in 1 .. Len(H), c # top, top \notin U, c \notin U, lev[c] = lev[top],
           NEW n, GoodNode(n, {top, c}, {}, in), ~n.leaf
    PROVE  \E p, l : Tree(Append(H, n), U \cup {top, c}, V, p, home, l, in, Len(H) + 1)
<1>1. PICK D : D = 1 .. Len(H)
  OBVIOUS
<1>2. H \in Seq(Nodes) /\ Owners(U, V, D, parent, home, lev) /\ Levels(H, U, D, parent, lev, top)
      /\ \A m \in D : GoodNode(H[m], Of(parent, m), Of(home, m), in)
  BY <1>1 DEF Tree
<1>3. U \subseteq D /\ V \subseteq Nat /\ parent \in [U -> D] /\ home \in [V -> D] /\ lev \in [D -> Nat]
  BY <1>2 DEF Owners
<1>4. PICK b : b = Len(H) + 1
  OBVIOUS
<1>5. b \notin D /\ c \in D /\ top \in D /\ D \cup {b} = 1 .. b /\ b \in Nat
  BY <1>1, <1>2, <1>4 DEF Levels
<1>6. PICK p, l : /\ p = [u \in U \cup {top, c} |-> IF u \in {top, c} THEN b ELSE parent[u]]
                  /\ l = WithLevel(lev, b, lev[top] + 1)
  OBVIOUS
<1>7. p \in [U \cup {top, c} -> D \cup {b}]
  BY <1>3, <1>6
<1>8. Of(p, b) = {top, c} /\ Of(home, b) = {}
  <2>1. \A u \in U : parent[u] # b
    BY <1>3, <1>5
  <2>2. \A v \in V : home[v] # b
    BY <1>3, <1>5
  <2>3. DOMAIN p = U \cup {top, c} /\ DOMAIN home = V
    BY <1>3, <1>6
  <2>4. \A u \in U \cup {top, c} : p[u] = b <=> u \in {top, c}
    BY <1>6, <2>1
  <2>5. Of(p, b) = {top, c}
    BY <2>3, <2>4 DEF Of
  <2>6. Of(home, b) = {}
    BY <2>2, <2>3 DEF Of
  <2>. QED  BY <2>5, <2>6
<1>9. ASSUME NEW m \in D PROVE Of(p, m) = Of(parent, m)
  <2>1. DOMAIN p = U \cup {top, c} /\ DOMAIN parent = U
    BY <1>3, <1>6
  <2>2. \A u \in U \cup {top, c} : p[u] = m <=> u \in U /\ parent[u] = m
    BY <1>5, <1>6
  <2>. QED  BY <2>1, <2>2 DEF Of
<1>10. n \in Nodes
  BY NodeTyped
<1>11. PICK J : J = Append(H, n)
  OBVIOUS
<1>12. J \in Seq(Nodes) /\ Len(J) = b /\ J[b] = n /\ \A m \in D : J[m] = H[m]
  BY <1>1, <1>2, <1>4, <1>10, <1>11, HeapExtended
<1>13. l \in [D \cup {b} -> Nat] /\ l[b] = lev[top] + 1 /\ \A m \in D : l[m] = lev[m]
  <2>1. DOMAIN lev = D /\ lev[top] + 1 \in Nat
    BY <1>3, <1>5
  <2>2. l = [m \in D \cup {b} |-> IF m = b THEN lev[top] + 1 ELSE lev[m]]
    BY <1>6, <2>1 DEF WithLevel
  <2>. QED  BY <1>3, <1>5, <2>1, <2>2
<1>14. Owners(U \cup {top, c}, V, D \cup {b}, p, home, l)
  BY <1>3, <1>5, <1>7, <1>13 DEF Owners
<1>15. ASSUME NEW m \in D \cup {b} PROVE GoodNode(J[m], Of(p, m), Of(home, m), in)
  <2>1. CASE m = b
    BY <1>8, <1>12, <2>1
  <2>2. CASE m \in D
    BY <1>2, <1>9, <1>12, <2>2
  <2>. QED  BY <2>1, <2>2
<1>16. Levels(J, U \cup {top, c}, D \cup {b}, p, l, b)
  <2>1. \A m \in D : H[m].leaf <=> lev[m] = 0
    BY <1>2 DEF Levels
  <2>2. l[b] # 0 /\ ~J[b].leaf
    BY <1>3, <1>5, <1>12, <1>13
  <2>3. \A m \in D \cup {b} : J[m].leaf <=> l[m] = 0
    BY <1>12, <1>13, <2>1, <2>2
  <2>4. ASSUME NEW d \in U \cup {top, c} PROVE l[p[d]] = l[d] + 1
    <3>1. CASE d \in {top, c}
      <4>1. p[d] = b /\ l[d] = lev[top]
        BY <1>5, <1>6, <1>13, <3>1
      <4>. QED  BY <1>13, <4>1
    <3>2. CASE d \notin {top, c}
      <4>1. d \in U /\ p[d] = parent[d] /\ parent[d] \in D /\ d \in D
        BY <1>3, <1>6, <3>2
      <4>2. l[p[d]] = lev[parent[d]] /\ l[d] = lev[d]
        BY <1>13, <4>1
      <4>. QED  BY <1>2, <4>1, <4>2 DEF Levels
    <3>. QED  BY <3>1, <3>2
  <2>5. ASSUME NEW m \in D \cup {b} PROVE l[m] <= l[b]
    <3>1. \A d \in D : lev[d] <= lev[top]
      BY <1>2 DEF Levels
    <3>2. \A d \in D : lev[d] \in Nat
      BY <1>3
    <3>. QED  BY <1>5, <1>13, <3>1, <3>2
  <2>. QED  BY <2>3, <2>4, <2>5 DEF Levels
<1>17. 1 .. Len(J) = D \cup {b}
  BY <1>5, <1>12
<1>18. Tree(J, U \cup {top, c}, V, p, home, l, in, b)
  BY <1>12, <1>14, <1>15, <1>16, <1>17 DEF Tree
<1>. QED  BY <1>4, <1>11, <1>18

-----------------------------------------------------------------------------
(* What the operations leave of a node, whichever half gets the item.      *)

LEMMA LeafFields ==
    ASSUME NEW n, NEW L, NEW W, NEW in, GoodLeaf(n, L, W, in)
    PROVE  n.leaf /\ Len(n.keys) = L /\ n.keys \in Seq(Nat)
<1>1. PICK s, t : LeafOf(n, s, t, L, W, in)
  BY DEF GoodLeaf
<1>2. n = Leaf(s, t) /\ s \in Seq(Nat) /\ Len(s) = L
  BY <1>1 DEF LeafOf
<1>. QED  BY <1>2, NodeFields

LEMMA InnerFields ==
    ASSUME NEW n, NEW L, NEW C, GoodInner(n, L, C)
    PROVE  /\ ~n.leaf /\ Len(n.keys) = L /\ n.keys \in Seq(Nat)
           /\ n.ptr \in Seq(Nat) /\ Len(n.ptr) = L /\ Distinct(n.ptr) /\ ToSet(n.ptr) = C
<1>1. PICK s, t : InnerOf(n, s, t, L, C)
  BY DEF GoodInner
<1>2. n = Internal(s, t) /\ s \in Seq(Nat) /\ Len(s) = L
  BY <1>1 DEF InnerOf
<1>3. t \in Seq(Nat) /\ Len(t) = L /\ Distinct(t) /\ ToSet(t) = C
  BY <1>1 DEF InnerOf
<1>4. n.keys = s /\ n.ptr = t /\ ~n.leaf
  BY <1>2, NodeFields
<1>. QED  BY <1>2, <1>3, <1>4

LEMMA InnerChild ==
    ASSUME NEW n, NEW L, NEW C, GoodInner(n, L, C), NEW i \in 1 .. L
    PROVE  n.ptr[i] \in C
<1>1. n.ptr \in Seq(Nat) /\ Len(n.ptr) = L /\ ToSet(n.ptr) = C
  BY InnerFields
<1>2. i \in DOMAIN n.ptr
  BY <1>1
<1>. QED  BY <1>1, <1>2 DEF ToSet

LEMMA LeafAddValue ==
    ASSUME NEW n, NEW L \in Nat \ {0}, NEW W, NEW in, GoodLeaf(n, L, W, in),
           NEW k \in Nat, NEW v \in Nat, v \notin W, in[v] = k
    PROVE  /\ Known(n, k) => GoodLeaf(addValue(n, k, v), L, W \cup {v}, in)
           /\ ~Known(n, k) => GoodLeaf(addValue(n, k, v), L + 1, W \cup {v}, in)
<1>1. PICK at : at = findPosition(n.keys, k)
  OBVIOUS
<1>2. ASSUME Known(n, k) PROVE GoodLeaf(addValue(n, k, v), L, W \cup {v}, in)
  <2>1. Len(n.keys) = L
    BY LeafFields
  <2>2. at \in 0 .. L
    BY <1>1, <2>1, PositionInRange
  <2>3. at # 0 /\ n.keys[at] = k
    BY <1>1, <1>2 DEF Known
  <2>4. at \in 1 .. L /\ in[v] = n.keys[at]
    BY <2>2, <2>3
  <2>5. addValue(n, k, v) = WithValue(n, at, v)
    BY <1>1, <1>2 DEF addValue, WithValue
  <2>. QED  BY <2>4, <2>5, LeafKnown
<1>3. ASSUME ~Known(n, k) PROVE GoodLeaf(addValue(n, k, v), L + 1, W \cup {v}, in)
  BY <1>3, LeafAdd DEF addValue
<1>. QED  BY <1>2, <1>3

LowerLeaf(n, k, v) == IF k > n.keys[midIndex] THEN Lower(n) ELSE addValue(Lower(n), k, v)
UpperLeaf(n, k, v) == IF k > n.keys[midIndex] THEN addValue(Upper(n), k, v) ELSE Upper(n)
SplitApart(low, up, C, W, in) ==
  \E A, B, S, T : /\ A \cap B = {} /\ A \cup B = C /\ S \cap T = {} /\ S \cup T = W
                  /\ GoodNode(low, A, S, in) /\ GoodNode(up, B, T, in)

LEMMA LeafSplit ==
    ASSUME NEW n, NEW W \in SUBSET Nat, NEW in, GoodLeaf(n, MAX_PER_NODE, W, in),
           NEW k \in Nat, NEW v \in Nat, v \notin W, in[v] = k
    PROVE  /\ SplitApart(LowerLeaf(n, k, v), UpperLeaf(n, k, v), {}, W \cup {v}, in)
           /\ LowerLeaf(n, k, v).leaf /\ UpperLeaf(n, k, v).leaf
<1>1. PICK m : m = midIndex
  OBVIOUS
<1>2. m \in Nat \ {0} /\ m \in 1 .. MAX_PER_NODE /\ m + 1 \in 1 .. MAX_PER_NODE
  <2>1. midIndex \in Nat \ {0} /\ midIndex < MAX_PER_NODE /\ MAX_PER_NODE \in Nat
    BY Halves, BTreeAssumption
  <2>. QED  BY <1>1, <2>1
<1>3. PICK A, B \in SUBSET Nat :
        /\ A \cup B = W /\ A \cap B = {}
        /\ GoodLeaf(Lower(n), m, A, in) /\ GoodLeaf(Upper(n), m, B, in)
  BY <1>1, LeafHalves
<1>4. v \notin A /\ v \notin B
  BY <1>3
<1>5. /\ \E L \in 1 .. MAX_PER_NODE : GoodLeaf(addValue(Lower(n), k, v), L, A \cup {v}, in)
      /\ \E L \in 1 .. MAX_PER_NODE : GoodLeaf(addValue(Upper(n), k, v), L, B \cup {v}, in)
  <2>1. \/ GoodLeaf(addValue(Lower(n), k, v), m, A \cup {v}, in)
        \/ GoodLeaf(addValue(Lower(n), k, v), m + 1, A \cup {v}, in)
    BY <1>2, <1>3, <1>4, LeafAddValue
  <2>2. \/ GoodLeaf(addValue(Upper(n), k, v), m, B \cup {v}, in)
        \/ GoodLeaf(addValue(Upper(n), k, v), m + 1, B \cup {v}, in)
    BY <1>2, <1>3, <1>4, LeafAddValue
  <2>. QED  BY <1>2, <2>1, <2>2
<1>6. /\ Lower(n).leaf /\ Upper(n).leaf /\ addValue(Lower(n), k, v).leaf /\ addValue(Upper(n), k, v).leaf
  BY <1>3, <1>5, LeafFields
<1>7. /\ GoodNode(Lower(n), {}, A, in) /\ GoodNode(Upper(n), {}, B, in)
      /\ GoodNode(addValue(Lower(n), k, v), {}, A \cup {v}, in)
      /\ GoodNode(addValue(Upper(n), k, v), {}, B \cup {v}, in)
  BY <1>2, <1>3, <1>5, <1>6 DEF GoodNode
<1>8. CASE k > n.keys[midIndex]
  <2>1. LowerLeaf(n, k, v) = Lower(n) /\ UpperLeaf(n, k, v) = addValue(Upper(n), k, v)
    BY <1>8 DEF LowerLeaf, UpperLeaf
  <2>2. A \cap (B \cup {v}) = {} /\ A \cup (B \cup {v}) = W \cup {v} /\ {} \cap {} = {} /\ {} \cup {} = {}
    BY <1>3, <1>4
  <2>3. SplitApart(Lower(n), addValue(Upper(n), k, v), {}, W \cup {v}, in)
    BY <1>7, <2>2 DEF SplitApart
  <2>. QED  BY <1>6, <2>1, <2>3
<1>9. CASE ~(k > n.keys[midIndex])
  <2>1. LowerLeaf(n, k, v) = addValue(Lower(n), k, v) /\ UpperLeaf(n, k, v) = Upper(n)
    BY <1>9 DEF LowerLeaf, UpperLeaf
  <2>2. (A \cup {v}) \cap B = {} /\ (A \cup {v}) \cup B = W \cup {v} /\ {} \cap {} = {} /\ {} \cup {} = {}
    BY <1>3, <1>4
  <2>3. SplitApart(addValue(Lower(n), k, v), Upper(n), {}, W \cup {v}, in)
    BY <1>7, <2>2 DEF SplitApart
  <2>. QED  BY <1>6, <2>1, <2>3
<1>. QED  BY <1>8, <1>9

LowerInner(n, k, mid, p) == IF k > mid THEN Lower(n) ELSE addItemAt(Lower(n), mid, p)
UpperInner(n, k, mid, p) == IF k > mid THEN addItemAt(Upper(n), mid, p) ELSE Upper(n)

LEMMA InnerSplit ==
    ASSUME NEW n, NEW C, NEW in, GoodInner(n, MAX_PER_NODE, C),
           NEW k, NEW mid \in Nat, NEW p \in Nat, p \notin C
    PROVE  /\ SplitApart(LowerInner(n, k, mid, p), UpperInner(n, k, mid, p), C \cup {p}, {}, in)
           /\ ~LowerInner(n, k, mid, p).leaf /\ ~UpperInner(n, k, mid, p).leaf
<1>1. PICK m : m = midIndex
  OBVIOUS
<1>2. m \in Nat \ {0} /\ m \in 1 .. MAX_PER_NODE /\ m + 1 \in 1 .. MAX_PER_NODE
  <2>1. midIndex \in Nat \ {0} /\ midIndex < MAX_PER_NODE /\ MAX_PER_NODE \in Nat
    BY Halves, BTreeAssumption
  <2>. QED  BY <1>1, <2>1
<1>3. PICK A, B :
        /\ A \cup B = C /\ A \cap B = {}
        /\ GoodInner(Lower(n), m, A) /\ GoodInner(Upper(n), m, B)
  BY <1>1, InnerHalves
<1>4. p \notin A /\ p \notin B
  BY <1>3
<1>5. /\ GoodInner(addItemAt(Lower(n), mid, p), m + 1, A \cup {p})
      /\ GoodInner(addItemAt(Upper(n), mid, p), m + 1, B \cup {p})
  BY <1>2, <1>3, <1>4, InnerAdd
<1>6. /\ ~Lower(n).leaf /\ ~Upper(n).leaf /\ ~addItemAt(Lower(n), mid, p).leaf
      /\ ~addItemAt(Upper(n), mid, p).leaf
  BY <1>3, <1>5, InnerFields
<1>7. /\ GoodNode(Lower(n), A, {}, in) /\ GoodNode(Upper(n), B, {}, in)
      /\ GoodNode(addItemAt(Lower(n), mid, p), A \cup {p}, {}, in)
      /\ GoodNode(addItemAt(Upper(n), mid, p), B \cup {p}, {}, in)
  BY <1>2, <1>3, <1>5, <1>6 DEF GoodNode
<1>8. CASE k > mid
  <2>1. LowerInner(n, k, mid, p) = Lower(n) /\ UpperInner(n, k, mid, p) = addItemAt(Upper(n), mid, p)
    BY <1>8 DEF LowerInner, UpperInner
  <2>2. A \cap (B \cup {p}) = {} /\ A \cup (B \cup {p}) = C \cup {p} /\ {} \cap {} = {} /\ {} \cup {} = {}
    BY <1>3, <1>4
  <2>3. SplitApart(Lower(n), addItemAt(Upper(n), mid, p), C \cup {p}, {}, in)
    BY <1>7, <2>2 DEF SplitApart
  <2>. QED  BY <1>6, <2>1, <2>3
<1>9. CASE ~(k > mid)
  <2>1. LowerInner(n, k, mid, p) = addItemAt(Lower(n), mid, p) /\ UpperInner(n, k, mid, p) = Upper(n)
    BY <1>9 DEF LowerInner, UpperInner
  <2>2. (A \cup {p}) \cap B = {} /\ (A \cup {p}) \cup B = C \cup {p} /\ {} \cap {} = {} /\ {} \cup {} = {}
    BY <1>3, <1>4
  <2>3. SplitApart(addItemAt(Lower(n), mid, p), Upper(n), C \cup {p}, {}, in)
    BY <1>7, <2>2 DEF SplitApart
  <2>. QED  BY <1>6, <2>1, <2>3
<1>. QED  BY <1>8, <1>9

-----------------------------------------------------------------------------
(* The invariant: the nodes are a tree but for the new half of a node that *)
(* was split, and the stack is the way from the root to the node the       *)
(* insertion has come to.                                                  *)

Above(st, p, i) == IF i = 0 THEN p ELSE st[i].at
OnWay(H, x, c) ==
  /\ x.at \in 1 .. Len(H) /\ ~H[x.at].leaf
  /\ x.pos \in 1 .. Len(H[x.at].keys) /\ H[x.at].ptr[x.pos] = c
Way(H, lev, st, p, top) ==
  /\ p \in 1 .. Len(H) /\ st \in Seq([at : Nat, pos : Nat])
  /\ Above(st, p, Len(st)) = top
  /\ \A i \in 1 .. Len(st) : OnWay(H, st[i], Above(st, p, i - 1)) /\ lev[st[i].at] = lev[p] + i

Typed(in, it) ==
  /\ in \in Seq(Nat) /\ it \in Seq(Nat) /\ Len(it) <= Len(in)
  /\ \A v \in 1 .. Len(it) : it[v] = in[v]
Idle == \E p, h, l : Tree(node, 1 .. Len(node) \ {root}, 1 .. Len(items), p, h, l, input, root)
Descending ==
  \E p, h, l : /\ Tree(node, 1 .. Len(node) \ {root}, 1 .. Len(items), p, h, l, input, root)
               /\ Way(node, l, ST, ptr, root)
Splitting ==
  /\ newLeaf \in 1 .. Len(node) \ {root, ptr} /\ midvalue \in Nat
  /\ \E p, h, l : /\ Tree(node, 1 .. Len(node) \ {root, newLeaf}, 1 .. Len(items) \cup {value},
                          p, h, l, input, root)
                  /\ Way(node, l, ST, ptr, root) /\ l[newLeaf] = l[ptr]

BTreeInv ==
  /\ Typed(input, items)
  /\ \/ pc = "idle" /\ root = NoNode /\ node = <<>> /\ items = <<>>
     \/ pc = "idle" /\ root # NoNode /\ Idle
     \/ pc = "descend" /\ root # NoNode /\ Len(items) < Len(input) /\ Descending
     \/ pc = "split" /\ root # NoNode /\ Len(items) < Len(input) /\ Splitting
  /\ pc = "idle" => ST = <<>>

-----------------------------------------------------------------------------
(* The steps.                                                              *)

LEMMA KeyTyped ==
    ASSUME Typed(input, items), Len(items) < Len(input)
    PROVE  key \in Nat /\ value \in Nat \ {0} /\ value \notin 1 .. Len(items) /\ input[value] = key
<1>1. input \in Seq(Nat) /\ items \in Seq(Nat)
  BY DEF Typed
<1>2. Len(items) + 1 \in 1 .. Len(input)
  BY <1>1
<1>. QED  BY <1>1, <1>2 DEF key, value

LEMMA ItemsAppended ==
    ASSUME NEW in, NEW it, Typed(in, it), Len(it) < Len(in)
    PROVE  /\ Typed(in, Append(it, in[Len(it) + 1]))
           /\ 1 .. Len(Append(it, in[Len(it) + 1])) = 1 .. Len(it) \cup {Len(it) + 1}
<1>1. in \in Seq(Nat) /\ it \in Seq(Nat) /\ \A v \in 1 .. Len(it) : it[v] = in[v]
  BY DEF Typed
<1>2. PICK k, t, L : k = in[Len(it) + 1] /\ t = Append(it, k) /\ L = Len(it)
  OBVIOUS
<1>3. k \in Nat /\ L \in Nat
  BY <1>1, <1>2
<1>4. t \in Seq(Nat) /\ Len(t) = L + 1 /\ t[L + 1] = k /\ \A v \in 1 .. L : t[v] = it[v]
  BY <1>1, <1>2, <1>3
<1>5. \A v \in 1 .. L + 1 : v = L + 1 \/ v \in 1 .. L
  BY <1>3
<1>6. \A v \in 1 .. L + 1 : t[v] = in[v]
  BY <1>1, <1>2, <1>4, <1>5
<1>7. L + 1 <= Len(in)
  BY <1>1, <1>2, <1>3
<1>8. 1 .. Len(t) = 1 .. L \cup {L + 1}
  BY <1>3, <1>4, <1>5
<1>. QED  BY <1>1, <1>2, <1>4, <1>6, <1>7, <1>8 DEF Typed

\* The insertion is over when every node but the root has a parent.
LEMMA Finished ==
    ASSUME Typed(input, items), Len(items) < Len(input), Inserted, input' = input, root' # NoNode,
           NEW p, NEW h, NEW l,
           Tree(node', 1 .. Len(node') \ {root'}, 1 .. Len(items) \cup {value}, p, h, l, input, root')
    PROVE  BTreeInv'
<1>1. items' = Append(items, input[Len(items) + 1]) /\ pc' = "idle" /\ ST' = <<>>
  BY DEF Inserted, key
<1>2. Typed(input', items') /\ 1 .. Len(items') = 1 .. Len(items) \cup {Len(items) + 1}
  BY <1>1, ItemsAppended
<1>3. Tree(node', 1 .. Len(node') \ {root'}, 1 .. Len(items'), p, h, l, input', root')
  BY <1>2 DEF value
<1>4. Idle'
  BY <1>3 DEF Idle
<1>. QED  BY <1>1, <1>2, <1>4 DEF BTreeInv

\* One key with one number in its list.
LEMMA SingleList ==
    ASSUME NEW in, NEW k, in[1] = k, NEW s, s[1] = k, NEW t, Len(t[1]) = 1, t[1][1] = 1
    PROVE  ListsOf(s, t, 1, {1}, in)
<1>1. \A i \in 1 .. 1 : i = 1
  OBVIOUS
<1>2. \A i \in 1 .. 1 : Len(t[i]) = 1
  BY <1>1, Zenon
<1>3. ASSUME NEW i \in 1 .. 1, NEW j \in 1 .. Len(t[i])
      PROVE  j = 1
  <2>1. PICK m : m = Len(t[i])
    OBVIOUS
  <2>2. m = 1 /\ j \in 1 .. m
    BY <1>2, <2>1, Zenon
  <2>. QED  BY <2>2
<1>4. 1 \in 1 .. 1 /\ 1 \in 1 .. Len(t[1])
  BY <1>2
<1>. QED  BY <1>1, <1>3, <1>4 DEF ListsOf

\* The first item: a leaf that is the root.
LEMMA FirstLeaf ==
    ASSUME NEW in, NEW k \in Nat, in[1] = k, NEW v, v = 1, NEW H, H = <<Leaf(<<k>>, <<<<v>>>>)>>
    PROVE  \E p, h, l : Tree(H, 1 .. Len(H) \ {1}, 1 .. 0 \cup {1}, p, h, l, in, 1)
<1>1. PICK s, t, n : s = <<k>> /\ t = <<<<v>>>> /\ n = Leaf(s, t)
  OBVIOUS
<1>2. s \in Seq(Nat) /\ Len(s) = 1 /\ s[1] = k
  BY <1>1
<1>3. t \in Seq(Seq(Nat)) /\ Len(t) = 1 /\ Len(t[1]) = 1 /\ t[1][1] = 1
  BY <1>1
<1>5. ListsOf(s, t, 1, {1}, in)
  BY <1>2, <1>3, SingleList
<1>6. GoodLeaf(n, 1, {1}, in)
  <2>1. LeafOf(n, s, t, 1, {1}, in)
    BY <1>1, <1>2, <1>3, <1>5 DEF LeafOf
  <2>. QED  BY <2>1 DEF GoodLeaf
<1>7. n.leaf /\ GoodNode(n, {}, {1}, in)
  <2>1. n.leaf
    BY <1>6, LeafFields
  <2>2. 1 \in 1 .. MAX_PER_NODE
    BY BTreeAssumption
  <2>. QED  BY <1>6, <2>1, <2>2 DEF GoodNode
<1>8. H = <<n>> /\ n \in Nodes
  BY <1>1, <1>7, NodeTyped
<1>9. H \in Seq(Nodes) /\ Len(H) = 1 /\ H[1] = n
  BY <1>8
<1>10. 1 .. Len(H) = {1} /\ 1 .. Len(H) \ {1} = {} /\ 1 .. 0 \cup {1} = {1}
  BY <1>9
<1>11. PICK p, h, l : p = [u \in {} |-> 1] /\ h = [x \in {1} |-> 1] /\ l = [m \in {1} |-> 0]
  OBVIOUS
<1>12. Of(p, 1) = {} /\ Of(h, 1) = {1}
  BY <1>11 DEF Of
<1>13. Owners({}, {1}, {1}, p, h, l)
  BY <1>11 DEF Owners
<1>14. Levels(H, {}, {1}, p, l, 1)
  BY <1>7, <1>9, <1>11 DEF Levels
<1>15. Tree(H, {}, {1}, p, h, l, in, 1)
  <2>1. \A m \in {1} : GoodNode(H[m], Of(p, m), Of(h, m), in)
    BY <1>7, <1>9, <1>12
  <2>. QED  BY <1>9, <1>10, <1>13, <1>14, <2>1 DEF Tree
<1>. QED  BY <1>10, <1>15

LEMMA AddItemStep ==
    ASSUME BTreeInv, addItem
    PROVE  BTreeInv'
<1>1. Typed(input, items) /\ pc = "idle" /\ Len(items) < Len(input) /\ input' = input /\ ST' = ST /\ ST = <<>>
  BY DEF BTreeInv, addItem
<1>2. CASE root = NoNode
  <2>1. items = <<>> /\ Len(items) = 0
    BY <1>1, <1>2 DEF BTreeInv
  <2>2. key \in Nat /\ input[1] = key /\ value = 1
    <3>1. key \in Nat /\ input[value] = key
      BY <1>1, KeyTyped
    <3>. QED  BY <2>1, <3>1 DEF value
  <2>3. /\ node' = <<Leaf(<<key>>, <<<<value>>>>)>> /\ root' = 1 /\ pc' = pc
        /\ items' = Append(items, input[Len(items) + 1])
    BY <1>2, <2>2 DEF addItem, key
  <2>4. PICK p, h, l : Tree(node', 1 .. Len(node') \ {1}, 1 .. 0 \cup {1}, p, h, l, input, 1)
    <3>1. PICK H, k, v : H = node' /\ k = key /\ v = value
      OBVIOUS
    <3>. QED  BY <2>2, <2>3, <3>1, FirstLeaf
  <2>5. Typed(input', items') /\ 1 .. Len(items') = 1 .. 0 \cup {1}
    <3>1. /\ Typed(input, Append(items, input[Len(items) + 1]))
          /\ 1 .. Len(Append(items, input[Len(items) + 1])) = 1 .. Len(items) \cup {Len(items) + 1}
      BY <1>1, ItemsAppended
    <3>. QED  BY <1>1, <2>1, <2>3, <3>1
  <2>6. Idle'
    BY <1>1, <2>3, <2>4, <2>5 DEF Idle
  <2>7. root' # NoNode
    BY <2>3, BTreeAssumption
  <2>. QED  BY <1>1, <2>3, <2>5, <2>6, <2>7 DEF BTreeInv
<1>3. CASE root # NoNode
  <2>1. pc' = "descend" /\ ptr' = root /\ UNCHANGED <<node, root, items, input, ST>>
    BY <1>1, <1>3 DEF addItem
  <2>2. PICK p, h, l : Tree(node, 1 .. Len(node) \ {root}, 1 .. Len(items), p, h, l, input, root)
    BY <1>1, <1>3 DEF BTreeInv, Idle
  <2>3. root \in 1 .. Len(node)
    BY <2>2 DEF Tree, Levels
  <2>4. Way(node, l, <<>>, root, root)
    <3>1. <<>> \in Seq([at : Nat, pos : Nat]) /\ Len(<<>>) = 0
      OBVIOUS
    <3>2. Above(<<>>, root, 0) = root
      BY DEF Above
    <3>3. \A i \in 1 .. 0 : FALSE
      OBVIOUS
    <3>. QED  BY <2>3, <3>1, <3>2, <3>3 DEF Way
  <2>5. Descending'
    BY <1>1, <2>1, <2>2, <2>4 DEF Descending
  <2>6. Typed(input', items') /\ root' # NoNode /\ Len(items') < Len(input') /\ pc' = "descend"
    BY <1>1, <1>3, <2>1
  <2>. QED  BY <2>5, <2>6 DEF BTreeInv
<1>. QED  BY <1>2, <1>3

\* What a step at the node ptr, a leaf or not, knows of it.
LEMMA AtNode ==
    ASSUME NEW U, NEW V, NEW p, NEW h, NEW l, NEW H, NEW in, NEW top,
           Tree(H, U, V, p, h, l, in, top), NEW a \in 1 .. Len(H)
    PROVE  /\ H[a].leaf => /\ Of(p, a) = {} /\ l[a] = 0 /\ Of(h, a) \in SUBSET Nat
                           /\ \E L \in 1 .. MAX_PER_NODE : GoodLeaf(H[a], L, Of(h, a), in)
           /\ ~H[a].leaf => /\ Of(h, a) = {} /\ Of(p, a) \subseteq U
                            /\ \E L \in 1 .. MAX_PER_NODE : GoodInner(H[a], L, Of(p, a))
           /\ \A c \in Of(p, a) : c \in 1 .. Len(H) /\ l[a] = l[c] + 1
           /\ l[a] \in Nat
<1>1. PICK D : D = 1 .. Len(H)
  OBVIOUS
<1>2. Owners(U, V, D, p, h, l) /\ Levels(H, U, D, p, l, top) /\ GoodNode(H[a], Of(p, a), Of(h, a), in)
  BY <1>1 DEF Tree
<1>3. U \subseteq D /\ V \subseteq Nat /\ p \in [U -> D] /\ h \in [V -> D] /\ l \in [D -> Nat]
  BY <1>2 DEF Owners
<1>4. Of(h, a) \in SUBSET Nat /\ Of(p, a) \subseteq U
  BY <1>3 DEF Of
<1>5. H[a].leaf <=> l[a] = 0
  BY <1>1, <1>2 DEF Levels
<1>6. H[a].leaf => /\ Of(p, a) = {} /\ \E L \in 1 .. MAX_PER_NODE : GoodLeaf(H[a], L, Of(h, a), in)
  BY <1>2 DEF GoodNode
<1>7. ~H[a].leaf => /\ Of(h, a) = {} /\ \E L \in 1 .. MAX_PER_NODE : GoodInner(H[a], L, Of(p, a))
  BY <1>2 DEF GoodNode
<1>8. ASSUME NEW c \in Of(p, a) PROVE c \in D /\ l[a] = l[c] + 1
  <2>1. c \in U /\ p[c] = a
    BY <1>3 DEF Of
  <2>. QED  BY <1>2, <1>3, <2>1 DEF Levels
<1>. QED  BY <1>1, <1>3, <1>4, <1>5, <1>6, <1>7, <1>8

LEMMA DescendStep ==
    ASSUME BTreeInv, descend
    PROVE  BTreeInv'
<1>1. /\ Typed(input, items) /\ pc = "descend" /\ root # NoNode /\ Len(items) < Len(input)
      /\ ~node[ptr].leaf
  BY DEF BTreeInv, descend
<1>2. PICK p, h, l : /\ Tree(node, 1 .. Len(node) \ {root}, 1 .. Len(items), p, h, l, input, root)
                     /\ Way(node, l, ST, ptr, root)
  BY <1>1 DEF BTreeInv, Descending
<1>3. PICK n, found : n = node[ptr] /\ found = findPosition(node[ptr].keys, key)
  OBVIOUS
<1>4. PICK pos : pos = IF found = 0 THEN Len(n.keys) ELSE found
  OBVIOUS
<1>5. /\ node' = IF found = 0 THEN [node EXCEPT ![ptr] = WithKey(n, pos, key)] ELSE node
      /\ ST' = <<[at |-> ptr, pos |-> pos]>> \o ST /\ ptr' = n.ptr[pos]
      /\ UNCHANGED <<input, items, root, pc>>
  BY <1>3, <1>4 DEF descend, WithKey
<1>6. ptr \in 1 .. Len(node) /\ ST \in Seq([at : Nat, pos : Nat])
  BY <1>2 DEF Way
<1>7. PICK L \in 1 .. MAX_PER_NODE : GoodInner(n, L, Of(p, ptr))
  BY <1>1, <1>2, <1>3, <1>6, AtNode
<1>8. Of(h, ptr) = {} /\ \A c \in Of(p, ptr) : c \in 1 .. Len(node) /\ l[ptr] = l[c] + 1
  BY <1>1, <1>2, <1>6, AtNode
<1>9. L \in Nat \ {0} /\ Len(n.keys) = L /\ ~n.leaf
  BY <1>7, InnerFields
<1>10. pos \in 1 .. L
  <2>1. found \in 0 .. L
    BY <1>3, <1>9, PositionInRange
  <2>. QED  BY <1>4, <1>9, <2>1
<1>11. n.ptr[pos] \in Of(p, ptr)
  BY <1>7, <1>10, InnerChild
<1>12. key \in Nat
  BY <1>1, KeyTyped
<1>13. PICK m : m = IF found = 0 THEN WithKey(n, pos, key) ELSE n
  OBVIOUS
<1>14. GoodInner(m, L, Of(p, ptr)) /\ m.ptr = n.ptr /\ ~m.leaf
  <2>1. /\ GoodInner(WithKey(n, pos, key), L, Of(p, ptr))
        /\ WithKey(n, pos, key).ptr = n.ptr /\ ~WithKey(n, pos, key).leaf
    BY <1>7, <1>9, <1>10, <1>12, InnerRekeyed
  <2>. QED  BY <1>7, <1>9, <1>13, <2>1
<1>15. node \in Seq(Nodes)
  BY <1>2 DEF Tree
<1>16. PICK H, q, S : H = node' /\ q = ptr' /\ S = ST'
  OBVIOUS
<1>17. H = [node EXCEPT ![ptr] = m]
  <2>1. CASE found = 0
    BY <1>5, <1>13, <1>16, <2>1
  <2>2. CASE found # 0
    <3>1. H = node /\ m = node[ptr]
      BY <1>3, <1>5, <1>13, <1>16, <2>2
    <3>. QED  BY <1>6, <1>15, <3>1
  <2>. QED  BY <2>1, <2>2
<1>18. Len(H) = Len(node) /\ H[ptr] = m /\ \A a \in 1 .. Len(node) : a # ptr => H[a] = node[a]
  BY <1>6, <1>15, <1>17
<1>19. \E p1, h1 : Tree(H, 1 .. Len(H) \ {root}, 1 .. Len(items), p1, h1, l, input, root)
  <2>1. GoodNode(m, Of(p, ptr) \cup {}, Of(h, ptr) \cup {}, input)
    BY <1>8, <1>14 DEF GoodNode
  <2>2. {} \in SUBSET (1 .. Len(node)) /\ {} \in SUBSET Nat /\ \A c \in {} : l[ptr] = l[c] + 1
    OBVIOUS
  <2>3. m.leaf <=> node[ptr].leaf
    BY <1>1, <1>14
  <2>4. \E p1, h1 : Tree([node EXCEPT ![ptr] = m], (1 .. Len(node) \ {root}) \cup {},
                         1 .. Len(items) \cup {}, p1, h1, l, input, root)
    BY <1>2, <1>6, <2>1, <2>2, <2>3, TreeGrown
  <2>. QED  BY <1>17, <1>18, <2>4
<1>20. Way(H, l, S, q, root)
  <2>1. PICK x : x = [at |-> ptr, pos |-> pos]
    OBVIOUS
  <2>2. x.at = ptr /\ x.pos = pos /\ x \in [at : Nat, pos : Nat]
    <3>1. ptr \in Nat /\ pos \in Nat
      BY <1>6, <1>10
    <3>. QED  BY <2>1, <3>1
  <2>3. /\ S \in Seq([at : Nat, pos : Nat]) /\ Len(S) = Len(ST) + 1 /\ S[1] = x
        /\ \A i \in 1 .. Len(ST) : S[i + 1] = ST[i]
    <3>1. S = <<x>> \o ST
      BY <1>5, <1>16, <2>1
    <3>. QED  BY <1>6, <2>2, <3>1
  <2>4. q = n.ptr[pos] /\ q \in 1 .. Len(H) /\ l[ptr] = l[q] + 1
    BY <1>5, <1>8, <1>11, <1>16, <1>18
  <2>5. \A i \in 1 .. Len(ST) : OnWay(node, ST[i], Above(ST, ptr, i - 1)) /\ l[ST[i].at] = l[ptr] + i
    BY <1>2 DEF Way
  <2>6. Len(ST) \in Nat
    BY <1>6
  <2>7. \A i \in 0 .. Len(ST) : Above(S, q, i + 1) = Above(ST, ptr, i)
    <3>1. Above(S, q, 1) = Above(ST, ptr, 0)
      BY <2>2, <2>3 DEF Above
    <3>2. ASSUME NEW i \in 1 .. Len(ST) PROVE Above(S, q, i + 1) = Above(ST, ptr, i)
      <4>1. i + 1 # 0 /\ i # 0 /\ S[i + 1] = ST[i]
        BY <2>3
      <4>. QED  BY <4>1 DEF Above
    <3>3. \A i \in 0 .. Len(ST) : i = 0 \/ i \in 1 .. Len(ST)
      BY <2>6
    <3>. QED  BY <3>1, <3>2, <3>3
  <2>8. Above(S, q, Len(S)) = root
    <3>1. Above(ST, ptr, Len(ST)) = root
      BY <1>2 DEF Way
    <3>2. Len(ST) \in 0 .. Len(ST)
      BY <2>6
    <3>. QED  BY <2>3, <2>7, <3>1, <3>2
  <2>9. ASSUME NEW y, NEW c, OnWay(node, y, c) PROVE OnWay(H, y, c)
    <3>1. /\ y.at \in 1 .. Len(node) /\ ~node[y.at].leaf
          /\ y.pos \in 1 .. Len(node[y.at].keys) /\ node[y.at].ptr[y.pos] = c
      BY <2>9 DEF OnWay
    <3>2. CASE y.at = ptr
      <4>1. Len(m.keys) = L
        BY <1>14, InnerFields
      <4>. QED  BY <1>3, <1>9, <1>14, <1>18, <3>1, <3>2, <4>1 DEF OnWay
    <3>3. CASE y.at # ptr
      BY <1>18, <3>1, <3>3 DEF OnWay
    <3>. QED  BY <3>2, <3>3
  <2>10. OnWay(H, S[1], Above(S, q, 0)) /\ l[S[1].at] = l[q] + 1
    <3>1. Above(S, q, 0) = q
      BY DEF Above
    <3>2. Len(m.keys) = L
      BY <1>14, InnerFields
    <3>3. OnWay(H, x, q)
      BY <1>6, <1>10, <1>14, <1>18, <2>2, <2>4, <3>2 DEF OnWay
    <3>. QED  BY <2>2, <2>3, <2>4, <3>1, <3>3
  <2>11. ASSUME NEW i \in 1 .. Len(S) PROVE OnWay(H, S[i], Above(S, q, i - 1)) /\ l[S[i].at] = l[q] + i
    <3>1. CASE i = 1
      BY <2>10, <3>1
    <3>2. CASE i # 1
      <4>1. PICK j : j = i - 1
        OBVIOUS
      <4>2. j \in 1 .. Len(ST) /\ i = j + 1 /\ j - 1 \in 0 .. Len(ST) /\ (j - 1) + 1 = i - 1
        BY <2>3, <2>6, <3>2, <4>1
      <4>3. S[i] = ST[j] /\ Above(S, q, i - 1) = Above(ST, ptr, j - 1)
        BY <2>3, <2>7, <4>2
      <4>4. OnWay(H, S[i], Above(S, q, i - 1))
        BY <2>5, <2>9, <4>2, <4>3
      <4>5. l[S[i].at] = l[ptr] + j
        BY <2>5, <4>2, <4>3
      <4>6. l[q] \in Nat
        BY <1>2, <1>18, <2>4, AtNode
      <4>7. l[ptr] = l[q] + 1
        BY <2>4
      <4>8. l[S[i].at] = (l[q] + 1) + j
        BY <4>5, <4>7, Zenon
      <4>9. (l[q] + 1) + j = l[q] + i
        BY <4>2, <4>6
      <4>. QED  BY <4>4, <4>8, <4>9
    <3>. QED  BY <3>1, <3>2
  <2>. QED  BY <2>3, <2>4, <2>8, <2>11 DEF Way
<1>21. Descending'
  BY <1>5, <1>16, <1>19, <1>20 DEF Descending
<1>22. Typed(input', items') /\ root' # NoNode /\ Len(items') < Len(input') /\ pc' = "descend"
  BY <1>1, <1>5
<1>. QED  BY <1>21, <1>22 DEF BTreeInv

LEMMA LeafAddItemStep ==
    ASSUME BTreeInv, leafAddItem
    PROVE  BTreeInv'
<1>1. /\ Typed(input, items) /\ pc = "descend" /\ root # NoNode /\ Len(items) < Len(input)
      /\ node[ptr].leaf /\ (Known(node[ptr], key) \/ ~IsFull(node[ptr]))
  BY DEF BTreeInv, leafAddItem
<1>2. PICK p, h, l : /\ Tree(node, 1 .. Len(node) \ {root}, 1 .. Len(items), p, h, l, input, root)
                     /\ Way(node, l, ST, ptr, root)
  BY <1>1 DEF BTreeInv, Descending
<1>3. PICK n : n = node[ptr]
  OBVIOUS
<1>4. /\ node' = [node EXCEPT ![ptr] = addValue(n, key, value)] /\ Inserted
      /\ input' = input /\ root' = root
  BY <1>3 DEF leafAddItem
<1>5. ptr \in 1 .. Len(node)
  BY <1>2 DEF Way
<1>6. PICK L \in 1 .. MAX_PER_NODE : GoodLeaf(n, L, Of(h, ptr), input)
  BY <1>1, <1>2, <1>3, <1>5, AtNode
<1>7. Of(p, ptr) = {} /\ Of(h, ptr) \subseteq 1 .. Len(items)
  <2>1. Of(p, ptr) = {}
    BY <1>1, <1>2, <1>5, AtNode
  <2>2. h \in [1 .. Len(items) -> 1 .. Len(node)]
    BY <1>2 DEF Tree, Owners
  <2>. QED  BY <2>1, <2>2 DEF Of
<1>8. /\ key \in Nat /\ value \in Nat /\ value \notin 1 .. Len(items) /\ input[value] = key
      /\ value \notin Of(h, ptr)
  BY <1>1, <1>7, KeyTyped
<1>9. PICK m : m = addValue(n, key, value)
  OBVIOUS
<1>10. L \in Nat \ {0} /\ L <= MAX_PER_NODE /\ MAX_PER_NODE \in Nat /\ Len(n.keys) = L
  BY <1>6, LeafFields, BTreeAssumption
<1>11. \E K \in 1 .. MAX_PER_NODE : GoodLeaf(m, K, Of(h, ptr) \cup {value}, input)
  <2>1. CASE Known(n, key)
    <3>1. GoodLeaf(m, L, Of(h, ptr) \cup {value}, input)
      BY <1>6, <1>8, <1>9, <1>10, <2>1, LeafAddValue
    <3>. QED  BY <3>1
  <2>2. CASE ~Known(n, key)
    <3>1. GoodLeaf(m, L + 1, Of(h, ptr) \cup {value}, input)
      BY <1>6, <1>8, <1>9, <1>10, <2>2, LeafAddValue
    <3>2. ~IsFull(n)
      BY <1>1, <1>3, <2>2
    <3>3. L + 1 \in 1 .. MAX_PER_NODE
      BY <1>10, <3>2 DEF IsFull
    <3>. QED  BY <3>1, <3>3
  <2>. QED  BY <2>1, <2>2
<1>12. m.leaf
  BY <1>11, LeafFields
<1>13. PICK H : H = node'
  OBVIOUS
<1>14. Len(H) = Len(node) /\ H = [node EXCEPT ![ptr] = m]
  <2>1. node \in Seq(Nodes)
    BY <1>2 DEF Tree
  <2>. QED  BY <1>4, <1>5, <1>9, <1>13, <2>1
<1>15. PICK p1, h1 : Tree(H, 1 .. Len(H) \ {root}, 1 .. Len(items) \cup {value}, p1, h1, l, input, root)
  <2>1. GoodNode(m, Of(p, ptr) \cup {}, Of(h, ptr) \cup {value}, input)
    BY <1>7, <1>11, <1>12 DEF GoodNode
  <2>2. {} \in SUBSET (1 .. Len(node)) /\ {value} \in SUBSET Nat /\ \A c \in {} : l[ptr] = l[c] + 1
    BY <1>8
  <2>3. m.leaf <=> node[ptr].leaf
    BY <1>1, <1>12
  <2>4. {} \cap (1 .. Len(node) \ {root}) = {} /\ {value} \cap 1 .. Len(items) = {}
    BY <1>8
  <2>5. \E p1, h1 : Tree([node EXCEPT ![ptr] = m], (1 .. Len(node) \ {root}) \cup {},
                         1 .. Len(items) \cup {value}, p1, h1, l, input, root)
    BY <1>2, <1>5, <2>1, <2>2, <2>3, <2>4, TreeGrown
  <2>. QED  BY <1>14, <2>5
<1>16. root' # NoNode
  BY <1>1, <1>4
<1>. QED  BY <1>1, <1>4, <1>13, <1>15, <1>16, Finished
LEMMA SplitLeafStep ==
    ASSUME BTreeInv, splitLeaf
    PROVE  BTreeInv'
<1>1. /\ Typed(input, items) /\ pc = "descend" /\ root # NoNode /\ Len(items) < Len(input)
      /\ node[ptr].leaf /\ IsFull(node[ptr])
  BY DEF BTreeInv, splitLeaf
<1>2. PICK p, h, l : /\ Tree(node, 1 .. Len(node) \ {root}, 1 .. Len(items), p, h, l, input, root)
                     /\ Way(node, l, ST, ptr, root)
  BY <1>1 DEF BTreeInv, Descending
<1>3. PICK n, low, up : n = node[ptr] /\ low = LowerLeaf(n, key, value) /\ up = UpperLeaf(n, key, value)
  OBVIOUS
<1>4. /\ node' = Append([node EXCEPT ![ptr] = low], up) /\ midvalue' = n.keys[midIndex]
      /\ newLeaf' = Len(node) + 1 /\ pc' = "split"
      /\ UNCHANGED <<input, items, root, ptr, ST>>
  BY <1>3 DEF splitLeaf, LowerLeaf, UpperLeaf, treeNodes
<1>5. ptr \in 1 .. Len(node) /\ node \in Seq(Nodes)
  BY <1>2 DEF Way, Tree
<1>6. PICK L \in 1 .. MAX_PER_NODE : GoodLeaf(n, L, Of(h, ptr), input)
  BY <1>1, <1>2, <1>3, <1>5, AtNode
<1>7. Of(p, ptr) = {} /\ Of(h, ptr) \subseteq 1 .. Len(items)
  <2>1. Of(p, ptr) = {}
    BY <1>1, <1>2, <1>5, AtNode
  <2>2. h \in [1 .. Len(items) -> 1 .. Len(node)]
    BY <1>2 DEF Tree, Owners
  <2>. QED  BY <2>1, <2>2 DEF Of
<1>8. /\ key \in Nat /\ value \in Nat /\ value \notin 1 .. Len(items) /\ input[value] = key
      /\ value \notin Of(h, ptr) /\ Of(h, ptr) \in SUBSET Nat
  BY <1>1, <1>7, KeyTyped
<1>9. L = MAX_PER_NODE /\ n.keys \in Seq(Nat) /\ Len(n.keys) = MAX_PER_NODE /\ MAX_PER_NODE \in Nat
  <2>1. Len(n.keys) = L /\ n.keys \in Seq(Nat)
    BY <1>6, LeafFields
  <2>2. Len(n.keys) >= MAX_PER_NODE
    BY <1>1, <1>3 DEF IsFull
  <2>. QED  BY <2>1, <2>2, BTreeAssumption
<1>10. n.keys[midIndex] \in Nat
  <2>1. midIndex \in 1 .. MAX_PER_NODE
    BY <1>9, Halves
  <2>. QED  BY <1>9, <2>1
<1>11. /\ SplitApart(low, up, {}, Of(h, ptr) \cup {value}, input)
       /\ low.leaf /\ up.leaf
  BY <1>3, <1>6, <1>8, <1>9, LeafSplit
<1>12. PICK A, B, S, T : /\ A \cap B = {} /\ A \cup B = {} /\ S \cap T = {}
                         /\ S \cup T = Of(h, ptr) \cup {value}
                         /\ GoodNode(low, A, S, input) /\ GoodNode(up, B, T, input)
  BY <1>11 DEF SplitApart
<1>13. PICK H, b, d : H = node' /\ b = Len(node) + 1 /\ d = WithLevel(l, b, l[ptr])
  OBVIOUS
<1>14. \E p1, h1 : Tree(H, 1 .. Len(node) \ {root}, 1 .. Len(items) \cup {value}, p1, h1, d, input, root)
  <2>1. {} \in SUBSET (1 .. Len(node)) /\ {value} \in SUBSET Nat /\ \A c \in {} : l[ptr] = l[c] + 1
    BY <1>8
  <2>2. {} \cap (1 .. Len(node) \ {root}) = {} /\ {value} \cap 1 .. Len(items) = {}
    BY <1>8
  <2>3. A \cup B = Of(p, ptr) \cup {}
    BY <1>7, <1>12
  <2>4. \E p1, h1 : Tree(Append([node EXCEPT ![ptr] = low], up), (1 .. Len(node) \ {root}) \cup {},
                         1 .. Len(items) \cup {value}, p1, h1,
                         WithLevel(l, Len(node) + 1, l[ptr]), input, root)
    BY <1>1, <1>2, <1>5, <1>11, <1>12, <2>1, <2>2, <2>3, TreeSplit
  <2>. QED  BY <1>4, <1>13, <2>4
<1>15. /\ Len(H) = b /\ b \in Nat /\ b \notin 1 .. Len(node) /\ 1 .. Len(H) = 1 .. Len(node) \cup {b}
       /\ \A a \in 1 .. Len(node) : a # ptr => H[a] = node[a]
  <2>1. low \in Nodes /\ up \in Nodes
    BY <1>12, NodeTyped
  <2>2. Len(H) = Len(node) + 1 /\ \A a \in 1 .. Len(node) : a # ptr => H[a] = node[a]
    BY <1>4, <1>5, <1>13, <2>1, HeapChanged
  <2>. QED  BY <1>5, <1>13, <2>2
<1>16. root \in 1 .. Len(node) /\ DOMAIN l = 1 .. Len(node)
  BY <1>2 DEF Tree, Levels, Owners
<1>17. d[b] = l[ptr] /\ \A a \in 1 .. Len(node) : d[a] = l[a]
  <2>1. \A a \in 1 .. Len(node) \cup {b} : d[a] = IF a = b THEN l[ptr] ELSE l[a]
    BY <1>13, <1>16 DEF WithLevel
  <2>. QED  BY <1>15, <2>1
<1>18. Way(H, d, ST, ptr, root)
  <2>1. /\ ST \in Seq([at : Nat, pos : Nat]) /\ Above(ST, ptr, Len(ST)) = root
        /\ \A i \in 1 .. Len(ST) : OnWay(node, ST[i], Above(ST, ptr, i - 1)) /\ l[ST[i].at] = l[ptr] + i
    BY <1>2 DEF Way
  <2>2. ASSUME NEW i \in 1 .. Len(ST)
        PROVE  OnWay(H, ST[i], Above(ST, ptr, i - 1)) /\ d[ST[i].at] = d[ptr] + i
    <3>1. ST[i].at \in 1 .. Len(node) /\ ~node[ST[i].at].leaf
      BY <2>1 DEF OnWay
    <3>2. H[ST[i].at] = node[ST[i].at] /\ ST[i].at \in 1 .. Len(H)
      BY <1>1, <1>15, <3>1
    <3>3. OnWay(H, ST[i], Above(ST, ptr, i - 1))
      BY <2>1, <3>2 DEF OnWay
    <3>4. d[ST[i].at] = l[ST[i].at] /\ d[ptr] = l[ptr]
      BY <1>5, <1>17, <3>1
    <3>. QED  BY <2>1, <3>3, <3>4
  <2>. QED  BY <1>5, <1>15, <2>1, <2>2 DEF Way
<1>19. Splitting'
  <2>1. 1 .. Len(node) \ {root} = 1 .. Len(H) \ {root, b}
    BY <1>15
  <2>2. \E p1, h1, l1 : /\ Tree(H, 1 .. Len(H) \ {root, b}, 1 .. Len(items) \cup {value},
                                p1, h1, l1, input, root)
                        /\ Way(H, l1, ST, ptr, root) /\ l1[b] = l1[ptr]
    BY <1>5, <1>14, <1>17, <1>18, <2>1
  <2>3. b \in 1 .. Len(H) \ {root, ptr}
    BY <1>5, <1>15, <1>16
  <2>4. value' = value
    BY <1>4 DEF value
  <2>5. newLeaf' = b /\ node' = H /\ midvalue' \in Nat
    BY <1>4, <1>10, <1>13
  <2>. QED  BY <1>4, <2>2, <2>3, <2>4, <2>5 DEF Splitting
<1>20. Typed(input', items') /\ root' # NoNode /\ Len(items') < Len(input') /\ pc' = "split"
  BY <1>1, <1>4
<1>. QED  BY <1>19, <1>20 DEF BTreeInv

\* The parent of the node that was split, with the upper half as its child.
LEMMA AtParent ==
    ASSUME NEW p, NEW h, NEW l, NEW U, NEW V,
           Tree(node, U, V, p, h, l, input, root), Way(node, l, ST, ptr, root), ST # <<>>,
           newLeaf \in 1 .. Len(node), newLeaf \notin U, newLeaf # ptr
    PROVE  /\ Head(ST).at \in 1 .. Len(node) /\ ~Parent.leaf /\ Of(h, Head(ST).at) = {}
           /\ ptr \in Nat /\ newLeaf \in Nat /\ l[Head(ST).at] = l[ptr] + 1
           /\ newLeaf \notin Of(p, Head(ST).at)
           /\ \E L \in 1 .. MAX_PER_NODE : \E C :
                /\ GoodInner(Parent, L, Of(p, Head(ST).at)) /\ GoodInner(WithUpper, L, C)
                /\ ptr \notin C /\ C \cup {ptr} = Of(p, Head(ST).at) \cup {newLeaf}
<1>1. PICK a, pos, n : a = Head(ST).at /\ pos = Head(ST).pos /\ n = node[a]
  OBVIOUS
<1>2. /\ ptr \in 1 .. Len(node) /\ ST \in Seq([at : Nat, pos : Nat])
      /\ \A i \in 1 .. Len(ST) : OnWay(node, ST[i], Above(ST, ptr, i - 1)) /\ l[ST[i].at] = l[ptr] + i
  BY DEF Way
<1>3. 1 \in 1 .. Len(ST) /\ Head(ST) = ST[1]
  BY <1>2
<1>4. OnWay(node, ST[1], Above(ST, ptr, 0)) /\ l[a] = l[ptr] + 1
  <2>1. OnWay(node, ST[1], Above(ST, ptr, 1 - 1)) /\ l[ST[1].at] = l[ptr] + 1
    BY <1>2, <1>3
  <2>2. 1 - 1 = 0
    OBVIOUS
  <2>. QED  BY <1>1, <1>3, <2>1, <2>2
<1>5. Above(ST, ptr, 0) = ptr
  BY DEF Above
<1>6. a \in 1 .. Len(node) /\ ~n.leaf /\ pos \in 1 .. Len(n.keys) /\ n.ptr[pos] = ptr
  BY <1>1, <1>3, <1>4, <1>5 DEF OnWay
<1>7. Of(h, a) = {} /\ Of(p, a) \subseteq U
  BY <1>1, <1>6, AtNode
<1>8. PICK L \in 1 .. MAX_PER_NODE : GoodInner(n, L, Of(p, a))
  BY <1>1, <1>6, AtNode
<1>9. Len(n.keys) = L /\ L \in Nat \ {0}
  BY <1>8, InnerFields
<1>10. ptr \in Of(p, a) /\ newLeaf \notin Of(p, a) /\ newLeaf \in Nat /\ ptr \in Nat
  BY <1>2, <1>6, <1>7, <1>8, <1>9, InnerChild
<1>11. PICK C : C = (Of(p, a) \ {ptr}) \cup {newLeaf}
  OBVIOUS
<1>12. WithUpper = WithChild(n, pos, newLeaf)
  BY <1>1 DEF WithUpper, WithChild, Parent
<1>13. GoodInner(WithUpper, L, C)
  <2>1. GoodInner(WithChild(n, pos, newLeaf), L, (Of(p, a) \ {n.ptr[pos]}) \cup {newLeaf})
    <3>1. pos \in 1 .. L
      BY <1>6, <1>9
    <3>. QED  BY <1>8, <1>9, <1>10, <3>1, InnerSwap
  <2>. QED  BY <1>6, <1>11, <1>12, <2>1
<1>14. ptr \notin C /\ C \cup {ptr} = Of(p, a) \cup {newLeaf}
  BY <1>10, <1>11
<1>15. Parent = n
  BY <1>1 DEF Parent
<1>. QED  BY <1>1, <1>4, <1>6, <1>7, <1>8, <1>10, <1>13, <1>14, <1>15

LEMMA AddToParentStep ==
    ASSUME BTreeInv, addToParent
    PROVE  BTreeInv'
<1>1. /\ Typed(input, items) /\ pc = "split" /\ root # NoNode /\ Len(items) < Len(input)
      /\ ST # <<>> /\ ~IsFull(Parent) /\ newLeaf \in 1 .. Len(node) \ {root, ptr} /\ midvalue \in Nat
  BY DEF BTreeInv, addToParent, Splitting
<1>2. PICK U : U = 1 .. Len(node) \ {root, newLeaf}
  OBVIOUS
<1>3. PICK p, h, l : /\ Tree(node, U, 1 .. Len(items) \cup {value}, p, h, l, input, root)
                     /\ Way(node, l, ST, ptr, root) /\ l[newLeaf] = l[ptr]
  BY <1>1, <1>2 DEF BTreeInv, Splitting
<1>4. PICK a : a = Head(ST).at
  OBVIOUS
<1>5. /\ newLeaf \in 1 .. Len(node) /\ newLeaf \notin U /\ newLeaf # ptr
      /\ U \cup {newLeaf} = 1 .. Len(node) \ {root}
  BY <1>1, <1>2
<1>6. /\ a \in 1 .. Len(node) /\ ~Parent.leaf /\ Of(h, a) = {}
      /\ ptr \in Nat /\ l[a] = l[ptr] + 1
  BY <1>1, <1>3, <1>4, <1>5, AtParent
<1>7. PICK L \in 1 .. MAX_PER_NODE : \E C :
        /\ GoodInner(Parent, L, Of(p, a)) /\ GoodInner(WithUpper, L, C)
        /\ ptr \notin C /\ C \cup {ptr} = Of(p, a) \cup {newLeaf}
  BY <1>1, <1>3, <1>4, <1>5, AtParent
<1>7b. PICK C :
        /\ GoodInner(Parent, L, Of(p, a)) /\ GoodInner(WithUpper, L, C)
        /\ ptr \notin C /\ C \cup {ptr} = Of(p, a) \cup {newLeaf}
  BY <1>7
<1>8. L \in Nat \ {0} /\ L + 1 \in 1 .. MAX_PER_NODE
  <2>1. Len(Parent.keys) = L
    BY <1>7b, InnerFields
  <2>. QED  BY <1>1, <2>1, BTreeAssumption DEF IsFull
<1>9. PICK m : m = addItemAt(WithUpper, midvalue, ptr)
  OBVIOUS
<1>10. GoodInner(m, L + 1, Of(p, a) \cup {newLeaf})
  <2>1. GoodInner(m, L + 1, C \cup {ptr})
    BY <1>1, <1>6, <1>7b, <1>8, <1>9, InnerAdd
  <2>. QED  BY <1>7b, <2>1
<1>11. ~m.leaf
  BY <1>10, InnerFields
<1>12. node' = [node EXCEPT ![a] = m] /\ Inserted /\ input' = input /\ root' = root
  BY <1>4, <1>9 DEF addToParent
<1>13. PICK H : H = node'
  OBVIOUS
<1>14. Len(H) = Len(node)
  <2>1. node \in Seq(Nodes)
    BY <1>3 DEF Tree
  <2>. QED  BY <1>6, <1>12, <1>13, <2>1
<1>15. PICK p1, h1 : Tree(H, 1 .. Len(H) \ {root}, 1 .. Len(items) \cup {value}, p1, h1, l, input, root)
  <2>1. GoodNode(m, Of(p, a) \cup {newLeaf}, Of(h, a) \cup {}, input)
    BY <1>6, <1>8, <1>10, <1>11 DEF GoodNode
  <2>2. {newLeaf} \in SUBSET (1 .. Len(node)) /\ {} \in SUBSET Nat
    BY <1>5
  <2>3. \A c \in {newLeaf} : l[a] = l[c] + 1
    BY <1>3, <1>6
  <2>4. m.leaf <=> node[a].leaf
    BY <1>4, <1>6, <1>11 DEF Parent
  <2>5. {newLeaf} \cap U = {} /\ {} \cap (1 .. Len(items) \cup {value}) = {}
    BY <1>5
  <2>6. \E p1, h1 : Tree([node EXCEPT ![a] = m], U \cup {newLeaf},
                         (1 .. Len(items) \cup {value}) \cup {}, p1, h1, l, input, root)
    BY <1>3, <1>6, <2>1, <2>2, <2>3, <2>4, <2>5, TreeGrown
  <2>. QED  BY <1>5, <1>12, <1>13, <1>14, <2>6
<1>16. root' # NoNode
  BY <1>1, <1>12
<1>. QED  BY <1>1, <1>12, <1>13, <1>15, <1>16, Finished

LEMMA SplitParentStep ==
    ASSUME BTreeInv, splitParent
    PROVE  BTreeInv'
<1>1. /\ Typed(input, items) /\ pc = "split" /\ root # NoNode /\ Len(items) < Len(input)
      /\ ST # <<>> /\ IsFull(Parent) /\ newLeaf \in 1 .. Len(node) \ {root, ptr}
  BY DEF BTreeInv, splitParent, Splitting
<1>2. PICK U : U = 1 .. Len(node) \ {root, newLeaf}
  OBVIOUS
<1>3. PICK p, h, l : /\ Tree(node, U, 1 .. Len(items) \cup {value}, p, h, l, input, root)
                     /\ Way(node, l, ST, ptr, root) /\ l[newLeaf] = l[ptr]
  BY <1>1, <1>2 DEF BTreeInv, Splitting
<1>4. PICK a : a = Head(ST).at
  OBVIOUS
<1>5. /\ newLeaf \in 1 .. Len(node) /\ newLeaf \notin U /\ newLeaf # ptr
      /\ U \cup {newLeaf} = 1 .. Len(node) \ {root}
  BY <1>1, <1>2
<1>6. /\ a \in 1 .. Len(node) /\ ~Parent.leaf /\ Of(h, a) = {}
      /\ ptr \in Nat /\ l[a] = l[ptr] + 1
  BY <1>1, <1>3, <1>4, <1>5, AtParent
<1>7. PICK L \in 1 .. MAX_PER_NODE : \E C :
        /\ GoodInner(Parent, L, Of(p, a)) /\ GoodInner(WithUpper, L, C)
        /\ ptr \notin C /\ C \cup {ptr} = Of(p, a) \cup {newLeaf}
  BY <1>1, <1>3, <1>4, <1>5, AtParent
<1>7b. PICK C :
        /\ GoodInner(Parent, L, Of(p, a)) /\ GoodInner(WithUpper, L, C)
        /\ ptr \notin C /\ C \cup {ptr} = Of(p, a) \cup {newLeaf}
  BY <1>7
<1>8. L = MAX_PER_NODE /\ Parent.keys \in Seq(Nat) /\ Len(Parent.keys) = MAX_PER_NODE
  <2>1. Len(Parent.keys) = L /\ Parent.keys \in Seq(Nat)
    BY <1>7b, InnerFields
  <2>2. Len(Parent.keys) >= MAX_PER_NODE
    BY <1>1 DEF IsFull
  <2>. QED  BY <2>1, <2>2, BTreeAssumption
<1>9. PICK mid : mid = Parent.keys[midIndex]
  OBVIOUS
<1>10. mid \in Nat
  <2>1. midIndex \in 1 .. Len(Parent.keys)
    BY <1>8, Halves
  <2>. QED  BY <1>8, <1>9, <2>1
<1>11. PICK low, up : low = LowerInner(WithUpper, key, mid, ptr) /\ up = UpperInner(WithUpper, key, mid, ptr)
  OBVIOUS
<1>12. /\ node' = Append([node EXCEPT ![a] = low], up) /\ midvalue' = mid
       /\ newLeaf' = Len(node) + 1 /\ ptr' = a /\ ST' = Tail(ST)
       /\ UNCHANGED <<input, items, root, pc>>
  BY <1>4, <1>9, <1>11 DEF splitParent, LowerInner, UpperInner, treeNodes
<1>13. SplitApart(low, up, Of(p, a) \cup {newLeaf}, {}, input) /\ ~low.leaf /\ ~up.leaf
  <2>1. /\ SplitApart(low, up, C \cup {ptr}, {}, input) /\ ~low.leaf /\ ~up.leaf
    BY <1>6, <1>7b, <1>8, <1>10, <1>11, InnerSplit
  <2>. QED  BY <1>7b, <2>1
<1>14. PICK A, B, S, T : /\ A \cap B = {} /\ A \cup B = Of(p, a) \cup {newLeaf}
                         /\ S \cap T = {} /\ S \cup T = {}
                         /\ GoodNode(low, A, S, input) /\ GoodNode(up, B, T, input)
  BY <1>13 DEF SplitApart
<1>15. PICK H, b, d : H = node' /\ b = Len(node) + 1 /\ d = WithLevel(l, b, l[a])
  OBVIOUS
<1>16. \E p1, h1 : Tree(H, 1 .. Len(node) \ {root}, 1 .. Len(items) \cup {value}, p1, h1, d, input, root)
  <2>1. {newLeaf} \in SUBSET (1 .. Len(node)) /\ {} \in SUBSET Nat
    BY <1>5
  <2>2. \A c \in {newLeaf} : l[a] = l[c] + 1
    BY <1>3, <1>6
  <2>3. {newLeaf} \cap U = {} /\ {} \cap (1 .. Len(items) \cup {value}) = {}
    BY <1>5
  <2>4. S \cup T = Of(h, a) \cup {}
    BY <1>6, <1>14
  <2>5. (low.leaf <=> node[a].leaf) /\ (up.leaf <=> node[a].leaf)
    BY <1>4, <1>6, <1>13 DEF Parent
  <2>6. \E p1, h1 : Tree(Append([node EXCEPT ![a] = low], up), U \cup {newLeaf},
                         (1 .. Len(items) \cup {value}) \cup {}, p1, h1,
                         WithLevel(l, Len(node) + 1, l[a]), input, root)
    BY <1>3, <1>6, <1>14, <2>1, <2>2, <2>3, <2>4, <2>5, TreeSplit
  <2>. QED  BY <1>5, <1>12, <1>15, <2>6
<1>17. node \in Seq(Nodes) /\ root \in 1 .. Len(node) /\ DOMAIN l = 1 .. Len(node)
  BY <1>3 DEF Tree, Levels, Owners
<1>18. /\ Len(H) = b /\ b \in Nat /\ b \notin 1 .. Len(node) /\ 1 .. Len(H) = 1 .. Len(node) \cup {b}
       /\ \A c \in 1 .. Len(node) : c # a => H[c] = node[c]
  <2>1. low \in Nodes /\ up \in Nodes
    BY <1>14, NodeTyped
  <2>2. Len(H) = Len(node) + 1 /\ \A c \in 1 .. Len(node) : c # a => H[c] = node[c]
    BY <1>6, <1>12, <1>15, <1>17, <2>1, HeapChanged
  <2>. QED  BY <1>15, <1>17, <2>2
<1>19. d[b] = l[a] /\ \A c \in 1 .. Len(node) : d[c] = l[c]
  <2>1. \A c \in 1 .. Len(node) \cup {b} : d[c] = IF c = b THEN l[a] ELSE l[c]
    BY <1>15, <1>17 DEF WithLevel
  <2>. QED  BY <1>18, <2>1
<1>20. PICK st : st = Tail(ST)
  OBVIOUS
<1>21. Way(H, d, st, a, root)
  <2>1. /\ ST \in Seq([at : Nat, pos : Nat]) /\ Above(ST, ptr, Len(ST)) = root
        /\ \A i \in 1 .. Len(ST) : OnWay(node, ST[i], Above(ST, ptr, i - 1)) /\ l[ST[i].at] = l[ptr] + i
    BY <1>3 DEF Way
  <2>2. /\ st \in Seq([at : Nat, pos : Nat]) /\ Len(st) = Len(ST) - 1 /\ Len(ST) \in Nat \ {0}
        /\ \A i \in 1 .. Len(ST) - 1 : st[i] = ST[i + 1]
        /\ Head(ST) = ST[1]
    BY <1>1, <1>20, <2>1
  <2>3. ASSUME NEW i \in 0 .. Len(st) PROVE Above(st, a, i) = Above(ST, ptr, i + 1)
    <3>1. CASE i = 0
      <4>1. Above(st, a, i) = a
        BY <3>1 DEF Above
      <4>2. Above(ST, ptr, i + 1) = ST[1].at
        BY <3>1 DEF Above
      <4>. QED  BY <1>4, <2>2, <4>1, <4>2
    <3>2. CASE i # 0
      <4>1. i \in 1 .. Len(ST) - 1 /\ i + 1 # 0
        BY <2>2, <3>2
      <4>. QED  BY <2>2, <3>2, <4>1 DEF Above
    <3>. QED  BY <3>1, <3>2
  <2>4. Above(st, a, Len(st)) = root
    <3>1. Len(st) \in 0 .. Len(st) /\ Len(st) + 1 = Len(ST)
      BY <2>2
    <3>. QED  BY <2>1, <2>3, <3>1
  <2>5. ASSUME NEW i \in 1 .. Len(st)
        PROVE  OnWay(H, st[i], Above(st, a, i - 1)) /\ d[st[i].at] = d[a] + i
    <3>1. i + 1 \in 1 .. Len(ST) /\ st[i] = ST[i + 1] /\ i - 1 \in 0 .. Len(st) /\ (i - 1) + 1 = i
          /\ (i + 1) - 1 = i
      BY <2>2
    <3>2. OnWay(node, ST[i + 1], Above(ST, ptr, (i + 1) - 1)) /\ l[ST[i + 1].at] = l[ptr] + (i + 1)
      BY <2>1, <3>1
    <3>3. Above(st, a, i - 1) = Above(ST, ptr, i)
      BY <2>3, <3>1
    <3>4. OnWay(node, st[i], Above(st, a, i - 1))
      BY <3>1, <3>2, <3>3
    <3>5. l[st[i].at] = l[ptr] + (i + 1)
      BY <3>1, <3>2, Zenon
    <3>6. ptr \in 1 .. Len(node)
      BY <1>3 DEF Way
    <3>7. l[ptr] \in Nat
      BY <1>3, <3>6, AtNode
    <3>8. l[st[i].at] = l[a] + i
      <4>1. l[ptr] + (i + 1) = (l[ptr] + 1) + i
        BY <3>7
      <4>. QED  BY <1>6, <3>5, <4>1, Zenon
    <3>9. st[i].at # a
      <4>1. l[a] \in Nat
        BY <1>3, <1>6, AtNode
      <4>2. l[a] + i # l[a]
        BY <4>1
      <4>. QED  BY <3>8, <4>2
    <3>10. st[i].at \in 1 .. Len(node)
      BY <3>4 DEF OnWay
    <3>11. H[st[i].at] = node[st[i].at] /\ st[i].at \in 1 .. Len(H)
      BY <1>18, <3>9, <3>10
    <3>12. OnWay(H, st[i], Above(st, a, i - 1))
      BY <3>4, <3>11 DEF OnWay
    <3>13. d[st[i].at] = l[st[i].at] /\ d[a] = l[a]
      BY <1>6, <1>19, <3>10
    <3>. QED  BY <3>8, <3>12, <3>13
  <2>. QED  BY <1>6, <1>18, <2>2, <2>4, <2>5 DEF Way
<1>22. Splitting'
  <2>1. 1 .. Len(node) \ {root} = 1 .. Len(H) \ {root, b}
    BY <1>18
  <2>2. \E p1, h1, l1 : /\ Tree(H, 1 .. Len(H) \ {root, b}, 1 .. Len(items) \cup {value},
                                p1, h1, l1, input, root)
                        /\ Way(H, l1, st, a, root) /\ l1[b] = l1[a]
    BY <1>6, <1>16, <1>19, <1>21, <2>1
  <2>3. b \in 1 .. Len(H) \ {root, a}
    BY <1>6, <1>17, <1>18
  <2>4. value' = value
    BY <1>12 DEF value
  <2>5. newLeaf' = b /\ node' = H /\ midvalue' \in Nat /\ ptr' = a /\ ST' = st
    BY <1>10, <1>12, <1>15, <1>20
  <2>. QED  BY <1>12, <2>2, <2>3, <2>4, <2>5 DEF Splitting
<1>23. Typed(input', items') /\ root' # NoNode /\ Len(items') < Len(input') /\ pc' = "split"
  BY <1>1, <1>12
<1>. QED  BY <1>22, <1>23 DEF BTreeInv

\* A node whose last key is asked for has one.
LEMMA LastKey ==
    ASSUME NEW U, NEW V, NEW p, NEW h, NEW l, NEW in, NEW top,
           Tree(node, U, V, p, h, l, in, top), NEW a \in 1 .. Len(node)
    PROVE  Last(node[a].keys) \in Nat
<1>1. \E L \in 1 .. MAX_PER_NODE : node[a].keys \in Seq(Nat) /\ Len(node[a].keys) = L
  <2>1. CASE node[a].leaf
    <3>1. PICK L \in 1 .. MAX_PER_NODE : GoodLeaf(node[a], L, Of(h, a), in)
      BY <2>1, AtNode
    <3>. QED  BY <3>1, LeafFields
  <2>2. CASE ~node[a].leaf
    <3>1. PICK L \in 1 .. MAX_PER_NODE : GoodInner(node[a], L, Of(p, a))
      BY <2>2, AtNode
    <3>. QED  BY <3>1, InnerFields
  <2>. QED  BY <2>1, <2>2
<1>2. PICK s : s = node[a].keys
  OBVIOUS
<1>3. s \in Seq(Nat) /\ Len(s) \in 1 .. Len(s)
  BY <1>1, <1>2
<1>4. s[Len(s)] \in Nat
  BY <1>3
<1>. QED  BY <1>2, <1>4 DEF Last

LEMMA SplitRootStep ==
    ASSUME BTreeInv, splitRoot
    PROVE  BTreeInv'
<1>1. /\ Typed(input, items) /\ pc = "split" /\ root # NoNode /\ Len(items) < Len(input)
      /\ ST = <<>> /\ newLeaf \in 1 .. Len(node) \ {root, ptr}
  BY DEF BTreeInv, splitRoot, Splitting
<1>2. PICK U : U = 1 .. Len(node) \ {root, newLeaf}
  OBVIOUS
<1>3. PICK p, h, l : /\ Tree(node, U, 1 .. Len(items) \cup {value}, p, h, l, input, root)
                     /\ Way(node, l, ST, ptr, root) /\ l[newLeaf] = l[ptr]
  BY <1>1, <1>2 DEF BTreeInv, Splitting
<1>4. ptr = root
  <2>1. Above(ST, ptr, Len(ST)) = root /\ Len(ST) = 0
    BY <1>1, <1>3 DEF Way
  <2>. QED  BY <2>1 DEF Above
<1>5. node \in Seq(Nodes) /\ root \in 1 .. Len(node) /\ root \in Nat /\ newLeaf \in Nat
      /\ newLeaf \in 1 .. Len(node) /\ newLeaf # root /\ newLeaf \notin U /\ root \notin U
  BY <1>1, <1>2, <1>3 DEF Tree, Levels
<1>6. PICK k1, k2 : k1 = Last(node[root].keys) /\ k2 = Last(node[newLeaf].keys)
  OBVIOUS
<1>7. k1 \in Nat /\ k2 \in Nat
  BY <1>3, <1>5, <1>6, LastKey
<1>8. PICK n, m : n = Internal(<<k1>>, <<root>>) /\ m = addItemAt(n, k2, newLeaf)
  OBVIOUS
<1>9. GoodInner(n, 1, {root})
  <2>1. PICK s, t : s = <<k1>> /\ t = <<root>>
    OBVIOUS
  <2>2. s \in Seq(Nat) /\ Len(s) = 1
    BY <1>7, <2>1
  <2>3. t \in Seq(Nat) /\ Len(t) = 1 /\ t[1] = root
    BY <1>5, <2>1
  <2>4. DOMAIN t = {1}
    BY <2>1
  <2>5. Distinct(t) /\ ToSet(t) = {root}
    BY <2>3, <2>4 DEF Distinct, ToSet
  <2>6. InnerOf(n, s, t, 1, {root})
    BY <1>8, <2>1, <2>2, <2>3, <2>5 DEF InnerOf
  <2>. QED  BY <2>6 DEF GoodInner
<1>10. GoodInner(m, 2, {root} \cup {newLeaf})
  <2>1. GoodInner(m, 1 + 1, {root} \cup {newLeaf})
    <3>1. newLeaf \notin {root} /\ 1 \in Nat \ {0}
      BY <1>5
    <3>. QED  BY <1>5, <1>7, <1>8, <1>9, <3>1, InnerAdd
  <2>2. 1 + 1 = 2
    OBVIOUS
  <2>. QED  BY <2>1, <2>2
<1>11. ~m.leaf /\ GoodNode(m, {root, newLeaf}, {}, input)
  <2>1. ~m.leaf
    BY <1>10, InnerFields
  <2>2. 2 \in 1 .. MAX_PER_NODE /\ {root} \cup {newLeaf} = {root, newLeaf}
    BY BTreeAssumption
  <2>. QED  BY <1>10, <2>1, <2>2 DEF GoodNode
<1>12. node' = Append(node, m) /\ root' = Len(node) + 1 /\ Inserted /\ input' = input
  BY <1>4, <1>6, <1>8 DEF splitRoot, treeNodes
<1>13. PICK H, b : H = node' /\ b = root'
  OBVIOUS
<1>14. Len(H) = b /\ b = Len(node) + 1 /\ 1 .. Len(H) \ {b} = U \cup {root, newLeaf} /\ b \in Nat
  <2>1. m \in Nodes
    BY <1>11, NodeTyped
  <2>2. Len(H) = Len(node) + 1
    BY <1>5, <1>12, <1>13, <2>1, HeapExtended
  <2>3. 1 .. (Len(node) + 1) \ {Len(node) + 1} = 1 .. Len(node)
    BY <1>5
  <2>. QED  BY <1>2, <1>5, <1>12, <1>13, <2>2, <2>3
<1>15. PICK p1, l1 : Tree(H, 1 .. Len(H) \ {b}, 1 .. Len(items) \cup {value}, p1, h, l1, input, b)
  <2>1. l[newLeaf] = l[root]
    BY <1>3, <1>4
  <2>2. \E p1, l1 : Tree(Append(node, m), U \cup {root, newLeaf}, 1 .. Len(items) \cup {value},
                         p1, h, l1, input, Len(node) + 1)
    BY <1>3, <1>5, <1>11, <2>1, TreeRaised
  <2>. QED  BY <1>12, <1>13, <1>14, <2>2
<1>16. root' # NoNode
  BY <1>13, <1>14, BTreeAssumption
<1>. QED  BY <1>1, <1>12, <1>13, <1>15, <1>16, Finished

-----------------------------------------------------------------------------
\* The steps that leave the variables as they are.
LEMMA StutterStep ==
    ASSUME BTreeInv, UNCHANGED treeVars
    PROVE  BTreeInv'
BY DEF BTreeInv, treeVars, Idle, Descending, Splitting, value

LEMMA BTreeInitInv ==
    ASSUME BTreeInit
    PROVE  BTreeInv
<1>1. input \in Seq(Nat)
  <2>1. input \in Seq(Key) /\ Key \subseteq Nat
    BY BTreeAssumption DEF BTreeInit
  <2>2. Len(input) \in Nat /\ DOMAIN input = 1 .. Len(input)
        /\ input = [i \in 1 .. Len(input) |-> input[i]] /\ \A i \in 1 .. Len(input) : input[i] \in Key
    BY <2>1
  <2>3. \A i \in 1 .. Len(input) : input[i] \in Nat
    BY <2>1, <2>2
  <2>4. input \in [1 .. Len(input) -> Nat]
    BY <2>2, <2>3, Zenon
  <2>. QED  BY <2>2, <2>4
<1>2. Typed(input, items)
  <2>1. items = <<>> /\ Len(items) = 0
    BY DEF BTreeInit
  <2>2. items \in Seq(Nat) /\ Len(input) \in Nat
    BY <1>1, <2>1
  <2>. QED  BY <1>1, <2>1, <2>2 DEF Typed
<1>. QED  BY <1>2 DEF BTreeInit, BTreeInv

\* Every state has the nodes of a tree, which hold the items inserted so far,
\* and, in the middle of an insertion, the way to the node it has come to.
THEOREM BTreeInvariant == BTreeSpec => []BTreeInv
<1>1. BTreeInit => BTreeInv
  BY BTreeInitInv
<1>2. BTreeInv /\ [BTreeNext]_treeVars => BTreeInv'
  BY AddItemStep, DescendStep, LeafAddItemStep, SplitLeafStep, AddToParentStep, SplitParentStep,
     SplitRootStep, StutterStep DEF BTreeNext
<1>. QED  BY <1>1, <1>2, PTL DEF BTreeSpec

-----------------------------------------------------------------------------
(* The contents: the keys with their values, from the leftmost leaf to the *)
(* rightmost.                                                              *)

Pairs == Nat \X Seq(Nat)
KeyAt(c, i) == c[i][1]
Count(c, i) == Len(c[i][2])
ValueAt(c, i, j) == c[i][2][j]

\* The values W are listed in c, each once and under its key.
Lists(c, W, in) ==
  /\ \A i \in 1 .. Len(c) : \A j \in 1 .. Count(c, i) :
       ValueAt(c, i, j) \in W /\ KeyAt(c, i) = in[ValueAt(c, i, j)]
  /\ \A v \in W : \E i \in 1 .. Len(c) : \E j \in 1 .. Count(c, i) : ValueAt(c, i, j) = v
  /\ \A i, h \in 1 .. Len(c) : \A j \in 1 .. Count(c, i), g \in 1 .. Count(c, h) :
       ValueAt(c, i, j) = ValueAt(c, h, g) => i = h /\ j = g

LEMMA ListsJoined ==
    ASSUME NEW t, NEW s, NEW m \in Nat, NEW A, NEW B, PlacesOf(t, s, m, A, B),
           NEW K, NEW W, NEW in, \A i \in 1 .. m : Lists(s[i], K[i], in),
           \A i, h \in 1 .. m : \A v : v \in K[i] /\ v \in K[h] => i = h,
           \A v : v \in W <=> \E i \in 1 .. m : v \in K[i]
    PROVE  Lists(t, W, in)
<1>1. /\ \A k \in 1 .. Len(t) : A[k] \in 1 .. m
      /\ \A k \in 1 .. Len(t) : B[k] \in 1 .. Len(s[A[k]]) /\ t[k] = s[A[k]][B[k]]
      /\ \A k, l \in 1 .. Len(t) : A[k] = A[l] /\ B[k] = B[l] => k = l
      /\ \A i \in 1 .. m : \A j \in 1 .. Len(s[i]) : \E k \in 1 .. Len(t) : A[k] = i /\ B[k] = j
  BY DEF PlacesOf
<1>2. ASSUME NEW k \in 1 .. Len(t)
      PROVE  /\ Count(t, k) = Count(s[A[k]], B[k]) /\ KeyAt(t, k) = KeyAt(s[A[k]], B[k])
             /\ \A j : ValueAt(t, k, j) = ValueAt(s[A[k]], B[k], j)
  BY <1>1 DEF Count, KeyAt, ValueAt
<1>3. ASSUME NEW i \in 1 .. m
      PROVE  /\ \A b \in 1 .. Len(s[i]) : \A j \in 1 .. Count(s[i], b) :
                  ValueAt(s[i], b, j) \in K[i] /\ KeyAt(s[i], b) = in[ValueAt(s[i], b, j)]
             /\ \A v \in K[i] : \E b \in 1 .. Len(s[i]) : \E j \in 1 .. Count(s[i], b) : ValueAt(s[i], b, j) = v
             /\ \A b, h \in 1 .. Len(s[i]) : \A j \in 1 .. Count(s[i], b), g \in 1 .. Count(s[i], h) :
                  ValueAt(s[i], b, j) = ValueAt(s[i], h, g) => b = h /\ j = g
  <2>1. Lists(s[i], K[i], in)
    OBVIOUS
  <2>. QED  BY <2>1 DEF Lists
<1>4. ASSUME NEW k \in 1 .. Len(t), NEW j \in 1 .. Count(t, k)
      PROVE  /\ ValueAt(t, k, j) \in K[A[k]] /\ ValueAt(t, k, j) \in W
             /\ KeyAt(t, k) = in[ValueAt(t, k, j)]
  <2>1. A[k] \in 1 .. m /\ B[k] \in 1 .. Len(s[A[k]]) /\ j \in 1 .. Count(s[A[k]], B[k])
    BY <1>1, <1>2
  <2>2. /\ ValueAt(s[A[k]], B[k], j) \in K[A[k]]
        /\ KeyAt(s[A[k]], B[k]) = in[ValueAt(s[A[k]], B[k], j)]
    BY <1>3, <2>1
  <2>3. ValueAt(t, k, j) = ValueAt(s[A[k]], B[k], j) /\ KeyAt(t, k) = KeyAt(s[A[k]], B[k])
    BY <1>2
  <2>. QED  BY <2>1, <2>2, <2>3
<1>5. ASSUME NEW v \in W PROVE \E k \in 1 .. Len(t) : \E j \in 1 .. Count(t, k) : ValueAt(t, k, j) = v
  <2>1. PICK i \in 1 .. m : v \in K[i]
    OBVIOUS
  <2>2. PICK b \in 1 .. Len(s[i]) : \E j \in 1 .. Count(s[i], b) : ValueAt(s[i], b, j) = v
    BY <1>3, <2>1
  <2>3. PICK k \in 1 .. Len(t) : A[k] = i /\ B[k] = b
    BY <1>1
  <2>4. Count(t, k) = Count(s[i], b) /\ \A j : ValueAt(t, k, j) = ValueAt(s[i], b, j)
    BY <1>2, <2>3
  <2>. QED  BY <2>2, <2>4
<1>6. ASSUME NEW k \in 1 .. Len(t), NEW l \in 1 .. Len(t),
             NEW j \in 1 .. Count(t, k), NEW g \in 1 .. Count(t, l), ValueAt(t, k, j) = ValueAt(t, l, g)
      PROVE  k = l /\ j = g
  <2>1. ValueAt(t, k, j) \in K[A[k]] /\ ValueAt(t, l, g) \in K[A[l]]
    BY <1>4
  <2>2. A[k] = A[l] /\ A[k] \in 1 .. m
    BY <1>1, <1>6, <2>1
  <2>3. PICK i : i = A[k]
    OBVIOUS
  <2>4. /\ i \in 1 .. m /\ B[k] \in 1 .. Len(s[i]) /\ B[l] \in 1 .. Len(s[i])
        /\ j \in 1 .. Count(s[i], B[k]) /\ g \in 1 .. Count(s[i], B[l])
        /\ ValueAt(s[i], B[k], j) = ValueAt(s[i], B[l], g)
    BY <1>1, <1>2, <1>6, <2>2, <2>3
  <2>5. B[k] = B[l] /\ j = g
    BY <1>3, <2>4
  <2>. QED  BY <1>1, <2>2, <2>5
<1>. QED  BY <1>4, <1>5, <1>6 DEF Lists

LeafContents(n) == [i \in DOMAIN n.keys |-> <<n.keys[i], n.ptr[i]>>]

LEMMA ListsOfLeaf ==
    ASSUME NEW n, NEW L \in Nat, NEW W, NEW in, GoodLeaf(n, L, W, in)
    PROVE  LeafContents(n) \in Seq(Pairs) /\ Lists(LeafContents(n), W, in)
<1>1. PICK s, t : LeafOf(n, s, t, L, W, in)
  BY DEF GoodLeaf
<1>2. n = Leaf(s, t) /\ ListsOf(s, t, L, W, in)
  BY <1>1 DEF LeafOf
<1>3. s \in Seq(Nat) /\ Len(s) = L
  BY <1>1 DEF LeafOf
<1>4. t \in Seq(Seq(Nat)) /\ Len(t) = L
  BY <1>1 DEF LeafOf
<1>5. n.keys = s /\ n.ptr = t
  BY <1>2, NodeFields
<1>6. PICK c : c = LeafContents(n)
  OBVIOUS
<1>7. DOMAIN s = 1 .. L
  BY <1>3
<1>8. c = [i \in 1 .. L |-> <<s[i], t[i]>>]
  BY <1>5, <1>6, <1>7 DEF LeafContents
<1>9. \A i \in 1 .. L : s[i] \in Nat
  BY <1>3
<1>10. \A i \in 1 .. L : t[i] \in Seq(Nat)
  BY <1>4
<1>11. \A i \in 1 .. L : <<s[i], t[i]>> \in Pairs
  BY <1>9, <1>10 DEF Pairs
<1>12. c \in Seq(Pairs) /\ Len(c) = L
  <2>1. c \in [1 .. L -> Pairs]
    BY <1>8, <1>11, Zenon
  <2>. QED  BY <2>1
<1>13. \A i \in 1 .. L : c[i][1] = s[i] /\ c[i][2] = t[i]
  BY <1>8
<1>14. Lists(c, W, in)
  <2>1. /\ \A i \in 1 .. L : \A j \in 1 .. Len(t[i]) : t[i][j] \in W /\ s[i] = in[t[i][j]]
        /\ \A v \in W : \E i \in 1 .. L : \E j \in 1 .. Len(t[i]) : t[i][j] = v
        /\ \A i, h \in 1 .. L : \A j \in 1 .. Len(t[i]), g \in 1 .. Len(t[h]) :
             t[i][j] = t[h][g] => i = h /\ j = g
    BY <1>2 DEF ListsOf
  <2>2. \A i \in 1 .. L : Count(c, i) = Len(t[i]) /\ KeyAt(c, i) = s[i]
    BY <1>13 DEF Count, KeyAt
  <2>3. \A i \in 1 .. L : \A j : ValueAt(c, i, j) = t[i][j]
    BY <1>13 DEF ValueAt
  <2>4. Len(c) = L
    BY <1>12
  <2>5. ASSUME NEW i \in 1 .. L, NEW j \in 1 .. Count(c, i)
        PROVE  ValueAt(c, i, j) \in W /\ KeyAt(c, i) = in[ValueAt(c, i, j)]
    <3>1. j \in 1 .. Len(t[i])
      BY <2>2
    <3>2. t[i][j] \in W /\ s[i] = in[t[i][j]]
      BY <2>1, <3>1
    <3>. QED  BY <2>2, <2>3, <3>2, Zenon
  <2>6. ASSUME NEW v \in W PROVE \E i \in 1 .. L : \E j \in 1 .. Count(c, i) : ValueAt(c, i, j) = v
    <3>1. PICK i \in 1 .. L : \E j \in 1 .. Len(t[i]) : t[i][j] = v
      BY <2>1
    <3>2. PICK j \in 1 .. Len(t[i]) : t[i][j] = v
      BY <3>1
    <3>3. j \in 1 .. Count(c, i) /\ ValueAt(c, i, j) = v
      BY <2>2, <2>3, <3>2, Zenon
    <3>. QED  BY <3>3
  <2>7. ASSUME NEW i \in 1 .. L, NEW h \in 1 .. L, NEW j \in 1 .. Count(c, i), NEW g \in 1 .. Count(c, h),
               ValueAt(c, i, j) = ValueAt(c, h, g)
        PROVE  i = h /\ j = g
    <3>1. j \in 1 .. Len(t[i]) /\ g \in 1 .. Len(t[h])
      BY <2>2
    <3>2. t[i][j] = t[h][g]
      BY <2>3, <2>7, Zenon
    <3>. QED  BY <2>1, <3>1, <3>2
  <2>. QED  BY <2>4, <2>5, <2>6, <2>7, Zenon DEF Lists
<1>. QED  BY <1>6, <1>12, <1>14

\* An internal node and its children.
LEMMA InnerNode ==
    ASSUME NEW U, NEW V, NEW p, NEW h, NEW l, NEW H, NEW in, NEW top,
           Tree(H, U, V, p, h, l, in, top), NEW a \in 1 .. Len(H), ~H[a].leaf
    PROVE  /\ H[a].ptr \in Seq(Nat) /\ Len(H[a].ptr) \in Nat \ {0}
           /\ Distinct(H[a].ptr) /\ ToSet(H[a].ptr) = Of(p, a)
           /\ \A i \in 1 .. Len(H[a].ptr) :
                /\ H[a].ptr[i] \in Of(p, a) /\ H[a].ptr[i] \in 1 .. Len(H)
                /\ l[a] = l[H[a].ptr[i]] + 1
           /\ \A c \in Of(p, a) : \E i \in 1 .. Len(H[a].ptr) : H[a].ptr[i] = c
<1>1. PICK L \in 1 .. MAX_PER_NODE : GoodInner(H[a], L, Of(p, a))
  BY AtNode
<1>2. PICK t : t = H[a].ptr
  OBVIOUS
<1>3. t \in Seq(Nat) /\ Len(t) = L /\ Distinct(t) /\ ToSet(t) = Of(p, a)
  BY <1>1, <1>2, InnerFields
<1>4. \A c \in Of(p, a) : c \in 1 .. Len(H) /\ l[a] = l[c] + 1
  BY AtNode
<1>5. DOMAIN t = 1 .. L
  BY <1>3
<1>6. Of(p, a) = {t[i] : i \in 1 .. L}
  BY <1>3, <1>5, Zenon DEF ToSet
<1>. QED  BY <1>2, <1>3, <1>4, <1>6

\* What one turn of the recursion makes of the contents of the other nodes.
Turn(H, n, f) ==
  IF H[n].leaf THEN LeafContents(H[n]) ELSE FlattenSeq([i \in DOMAIN H[n].ptr |-> f[H[n].ptr[i]]])
IsContents(C, H) == C = [n \in DOMAIN H |-> Turn(H, n, C)]

LEMMA ContentsChosen ==
    ASSUME NEW H, NEW top \in DOMAIN H, \E f : IsContents(f, H)
    PROVE  \E C : IsContents(C, H) /\ Contents(H, top) = C[top]
<1> DEFINE C == CHOOSE f : IsContents(f, H)
<1>1. IsContents(C, H)
  BY Zenon
<1>2. Contents(H, top) = C[top]
  BY DEF Contents, IsContents, Turn, LeafContents
<1> HIDE DEF C
<1>. QED  BY <1>1, <1>2

\* A recursion over the levels of the tree has a result.
LEMMA ContentsExist ==
    ASSUME NEW U, NEW V, NEW p, NEW h, NEW l, NEW H, NEW in, NEW top,
           Tree(H, U, V, p, h, l, in, top)
    PROVE  \E f \in [1 .. Len(H) -> Seq(Pairs)] : IsContents(f, H)
<1>1. PICK D, W, N : D = 1 .. Len(H) /\ W = Seq(Pairs) /\ N = l[top]
  OBVIOUS
<1>2. DOMAIN H = D
  <2>1. H \in Seq(Nodes)
    BY DEF Tree
  <2>. QED  BY <1>1, <2>1
<1>3. l \in [D -> 0 .. N] /\ N \in Nat
  <2>1. l \in [D -> Nat] /\ top \in D /\ \A n \in D : l[n] <= l[top]
    BY <1>1 DEF Tree, Owners, Levels
  <2>2. \A n \in D : l[n] \in 0 .. N
    BY <1>1, <2>1
  <2>. QED  BY <1>1, <2>1, <2>2
<1> DEFINE F == [D -> W]
           step == [x \in D \X F |-> Turn(H, x[1], x[2])]
<1>4. ASSUME NEW n \in D, H[n].leaf PROVE LeafContents(H[n]) \in W
  <2>1. PICK L \in 1 .. MAX_PER_NODE : GoodLeaf(H[n], L, Of(h, n), in)
    BY <1>1, <1>4, AtNode
  <2>2. L \in Nat
    BY BTreeAssumption
  <2>. QED  BY <1>1, <2>1, <2>2, ListsOfLeaf
<1>5. ASSUME NEW n \in D, ~H[n].leaf, NEW f \in F
      PROVE  /\ [i \in DOMAIN H[n].ptr |-> f[H[n].ptr[i]]] \in Seq(W)
             /\ FlattenSeq([i \in DOMAIN H[n].ptr |-> f[H[n].ptr[i]]]) \in W
  <2>1. PICK t, L : t = H[n].ptr /\ L = Len(t)
    OBVIOUS
  <2>2. t \in Seq(Nat) /\ L \in Nat /\ \A i \in 1 .. L : t[i] \in D
    BY <1>1, <1>5, <2>1, InnerNode
  <2>3. DOMAIN t = 1 .. L
    BY <2>1, <2>2
  <2>4. [i \in 1 .. L |-> f[t[i]]] \in [1 .. L -> W]
    BY <2>2
  <2>5. [i \in 1 .. L |-> f[t[i]]] \in Seq(W)
    <3> HIDE DEF F
    <3>. QED  BY <2>2, <2>4
  <2>6. FlattenSeq([i \in 1 .. L |-> f[t[i]]]) \in W
    BY <1>1, <2>5, FlattenElements
  <2>. QED  BY <2>1, <2>3, <2>5, <2>6
<1>6. step \in [D \X [D -> W] -> W]
  <2>1. ASSUME NEW n \in D, NEW f \in F PROVE Turn(H, n, f) \in W
    BY <1>4, <1>5 DEF Turn
  <2>. QED  BY <2>1
<1>7. \A n \in D, f \in F : step[<<n, f>>] = Turn(H, n, f)
  OBVIOUS
<1> HIDE DEF step
<1>8. ASSUME NEW x \in D, NEW f \in F, NEW g \in F, \A y \in D : l[y] < l[x] => f[y] = g[y]
      PROVE  step[<<x, f>>] = step[<<x, g>>]
  <2>1. CASE H[x].leaf
    BY <1>7, <2>1 DEF Turn
  <2>2. CASE ~H[x].leaf
    <3>1. PICK t, L : t = H[x].ptr /\ L = Len(t)
      OBVIOUS
    <3>2. t \in Seq(Nat) /\ L \in Nat /\ \A i \in 1 .. L : t[i] \in D /\ l[x] = l[t[i]] + 1
      BY <1>1, <2>2, <3>1, InnerNode
    <3>3. \A i \in 1 .. L : f[t[i]] = g[t[i]]
      <4>1. \A y \in D : l[y] \in Nat
        BY <1>3
      <4>. QED  BY <1>8, <3>2, <4>1
    <3>4. DOMAIN t = 1 .. L
      BY <3>1, <3>2
    <3>5. [i \in DOMAIN t |-> f[t[i]]] = [i \in DOMAIN t |-> g[t[i]]]
      BY <3>3, <3>4, Zenon
    <3>6. Turn(H, x, f) = Turn(H, x, g)
      BY <2>2, <3>1, <3>5, Zenon DEF Turn
    <3>. QED  BY <1>7, <3>6
  <2>. QED  BY <2>1, <2>2
<1>9. <<>> \in W
  BY <1>1
<1>10. PICK f \in [D -> W] : \A x \in D : f[x] = step[<<x, f>>]
  <2>1. DependsBelow(step, l, N, D, W)
    BY <1>3, <1>6, <1>8 DEF DependsBelow
  <2> HIDE DEF F
  <2>2. PICK f : Solves(f, step, D, W)
    BY <1>9, <2>1, RankedRecursion
  <2>. QED  BY <2>2 DEF Solves
<1>11. IsContents(f, H)
  <2>1. \A x \in D : f[x] = Turn(H, x, f)
    BY <1>7, <1>10
  <2>2. f = [x \in D |-> f[x]]
    BY <1>10
  <2>3. f = [x \in D |-> Turn(H, x, f)]
    BY <2>1, <2>2, Zenon
  <2>. QED  BY <1>2, <2>3 DEF IsContents
<1>. QED  BY <1>1, <1>10, <1>11

\* The contents of the tree: each value once and under its key.
LEMMA TreeContents ==
    ASSUME NEW U, NEW V, NEW p, NEW h, NEW l, NEW H, NEW in, NEW top,
           Tree(H, U, V, p, h, l, in, top), U = 1 .. Len(H) \ {top}
    PROVE  Contents(H, top) \in Seq(Pairs) /\ Lists(Contents(H, top), V, in)
<1>1. PICK D, N : D = 1 .. Len(H) /\ N = l[top]
  OBVIOUS
<1>2. DOMAIN H = D
  <2>1. H \in Seq(Nodes)
    BY DEF Tree
  <2>. QED  BY <1>1, <2>1
<1>3. /\ top \in D /\ h \in [V -> D] /\ p \in [U -> D] /\ l \in [D -> Nat] /\ N \in Nat
      /\ U = D \ {top}
      /\ \A n \in D : l[n] <= N /\ (H[n].leaf <=> l[n] = 0)
      /\ \A c \in U : l[p[c]] = l[c] + 1
  BY <1>1 DEF Tree, Owners, Levels
<1>4. PICK C : IsContents(C, H) /\ Contents(H, top) = C[top]
  BY <1>2, <1>3, ContentsExist, ContentsChosen
<1>5. \A n \in D : C[n] = Turn(H, n, C)
  <2>1. C = [n \in D |-> Turn(H, n, C)]
    BY <1>2, <1>4 DEF IsContents
  <2>2. \A n \in D : [m \in D |-> Turn(H, m, C)][n] = Turn(H, n, C)
    OBVIOUS
  <2>. QED  BY <2>1, <2>2, Zenon
\* Below the nodes on the level k.
<1> DEFINE Below(k, g) == /\ \A v \in V : l[g[v]] = k
                          /\ \A n \in D : l[n] = k => C[n] \in Seq(Pairs) /\ Lists(C[n], Of(g, n), in)
           P == {k \in 0 .. N : \E g \in [V -> D] : Below(k, g)}
<1>6. 0 \in P
  <2>1. ASSUME NEW v \in V PROVE l[h[v]] = 0
    <3>1. h[v] \in D /\ v \in Of(h, h[v])
      BY <1>3 DEF Of
    <3>2. H[h[v]].leaf
      BY <1>1, <3>1, AtNode
    <3>. QED  BY <1>3, <3>1, <3>2
  <2>2. ASSUME NEW n \in D, l[n] = 0 PROVE C[n] \in Seq(Pairs) /\ Lists(C[n], Of(h, n), in)
    <3>1. H[n].leaf
      BY <1>3, <2>2
    <3>2. PICK L \in 1 .. MAX_PER_NODE : GoodLeaf(H[n], L, Of(h, n), in)
      BY <1>1, <3>1, AtNode
    <3>3. L \in Nat
      BY BTreeAssumption
    <3>4. C[n] = LeafContents(H[n])
      BY <1>5, <3>1 DEF Turn
    <3>. QED  BY <3>2, <3>3, <3>4, ListsOfLeaf
  <2>. QED  BY <1>3, <2>1, <2>2
<1>7. ASSUME NEW k \in 0 .. N - 1, k \in P PROVE k + 1 \in P
  <2>1. PICK g \in [V -> D] : Below(k, g)
    BY <1>7
  <2>2. \A v \in V : g[v] \in U
    <3>1. \A v \in V : g[v] \in D /\ l[g[v]] = k
      BY <2>1
    <3>2. k # N
      BY <1>3
    <3>. QED  BY <1>1, <1>3, <3>1, <3>2
  <2>3. PICK f : f = [v \in V |-> p[g[v]]]
    OBVIOUS
  <2>4. f \in [V -> D] /\ \A v \in V : f[v] = p[g[v]] /\ l[f[v]] = k + 1
    <3>1. \A v \in V : p[g[v]] \in D /\ l[p[g[v]]] = l[g[v]] + 1 /\ l[g[v]] = k
      BY <1>3, <2>1, <2>2
    <3>2. f \in [V -> D]
      BY <2>3, <3>1
    <3>3. \A v \in V : f[v] = p[g[v]]
      BY <2>3
    <3>. QED  BY <3>1, <3>2, <3>3
  <2>5. ASSUME NEW n \in D, l[n] = k + 1 PROVE C[n] \in Seq(Pairs) /\ Lists(C[n], Of(f, n), in)
    <3>1. ~H[n].leaf
      <4>1. k + 1 # 0
        OBVIOUS
      <4>. QED  BY <1>3, <2>5, <4>1
    <3>2. PICK t, L : t = H[n].ptr /\ L = Len(t)
      OBVIOUS
    <3>3. /\ t \in Seq(Nat) /\ L \in Nat \ {0} /\ Distinct(t)
          /\ \A i \in 1 .. L : t[i] \in Of(p, n) /\ t[i] \in D /\ l[n] = l[t[i]] + 1
          /\ \A c \in Of(p, n) : \E i \in 1 .. L : t[i] = c
      BY <1>1, <3>1, <3>2, InnerNode
    <3>4. PICK s : s = [i \in 1 .. L |-> C[t[i]]]
      OBVIOUS
    <3>5. C[n] = FlattenSeq(s)
      <4>1. DOMAIN t = 1 .. L
        BY <3>2, <3>3
      <4>. QED  BY <1>5, <3>1, <3>2, <3>4, <4>1 DEF Turn
    <3>6. \A i \in 1 .. L : l[t[i]] = k
      <4>1. \A i \in 1 .. L : l[t[i]] \in Nat
        BY <1>3, <3>3
      <4> TAKE i \in 1 .. L
      <4>2. PICK u : u = l[t[i]]
        OBVIOUS
      <4>3. u \in Nat /\ k + 1 = u + 1
        BY <2>5, <3>3, <4>1, <4>2
      <4>4. u = k
        BY <4>3
      <4>. QED  BY <4>2, <4>4
    <3>7. \A i \in 1 .. L : s[i] = C[t[i]] /\ s[i] \in Seq(Pairs) /\ Lists(s[i], Of(g, t[i]), in)
      BY <2>1, <3>3, <3>4, <3>6
    <3>8. s \in Seq(Seq(Pairs)) /\ Len(s) = L /\ s # <<>>
      <4>1. s \in [1 .. L -> Seq(Pairs)]
        BY <3>4, <3>7
      <4>2. s \in Seq(Seq(Pairs)) /\ Len(s) = L
        BY <3>3, <4>1
      <4>. QED  BY <3>3, <4>2
    <3>9. FlattenSeq(s) \in Seq(Pairs)
      BY <3>8, FlattenElements
    <3>10. PICK A, B : PlacesOf(FlattenSeq(s), s, L, A, B)
      BY <3>8, FlattenPlaces
    <3>11. PICK K : K = [i \in 1 .. L |-> Of(g, t[i])]
      OBVIOUS
    <3>12. \A i \in 1 .. L : Lists(s[i], K[i], in)
      BY <3>7, <3>11
    <3>13. \A i \in 1 .. L : \A v : v \in K[i] <=> v \in V /\ g[v] = t[i]
      <4>1. DOMAIN g = V
        OBVIOUS
      <4>. QED  BY <3>11, <4>1 DEF Of
    <3>14. \A i, j \in 1 .. L : \A v : v \in K[i] /\ v \in K[j] => i = j
      <4>1. \A i, j \in 1 .. L : t[i] = t[j] => i = j
        BY <3>2, <3>3 DEF Distinct
      <4>. QED  BY <3>13, <4>1
    <3>15. \A v : v \in Of(f, n) <=> \E i \in 1 .. L : v \in K[i]
      <4>1. \A v : v \in Of(f, n) <=> v \in V /\ p[g[v]] = n
        BY <2>3, <2>4 DEF Of
      <4>2. \A c : c \in Of(p, n) <=> c \in U /\ p[c] = n
        BY <1>3 DEF Of
      <4>3. ASSUME NEW v \in V PROVE p[g[v]] = n <=> \E i \in 1 .. L : g[v] = t[i]
        BY <2>2, <3>3, <4>2
      <4>. QED  BY <3>13, <4>1, <4>3
    <3>16. Lists(FlattenSeq(s), Of(f, n), in)
      <4>1. L \in Nat
        BY <3>3
      <4>. QED  BY <3>10, <3>12, <3>14, <3>15, <4>1, ListsJoined
    <3>. QED  BY <3>5, <3>9, <3>16
  <2>6. Below(k + 1, f)
    BY <2>4, <2>5
  <2>7. k + 1 \in 0 .. N
    BY <1>3
  <2> HIDE DEF Below
  <2>. QED  BY <2>4, <2>6, <2>7
<1>8. N \in P
  <2> HIDE DEF P
  <2>1. 0 .. N \subseteq P
    BY <1>3, <1>6, <1>7, Climb
  <2>. QED  BY <1>3, <2>1
<1>9. PICK g \in [V -> D] : Below(N, g)
  BY <1>8
<1>10. Of(g, top) = V
  <2>1. ASSUME NEW v \in V PROVE g[v] = top
    <3>1. g[v] \in D /\ l[g[v]] = N
      BY <1>9
    <3>2. CASE g[v] # top
      <4>1. l[p[g[v]]] = N + 1 /\ p[g[v]] \in D
        BY <1>3, <3>1, <3>2
      <4>2. N + 1 <= N
        BY <1>3, <4>1
      <4>. QED  BY <1>3, <4>2
    <3>. QED  BY <3>2
  <2>2. DOMAIN g = V
    OBVIOUS
  <2>. QED  BY <2>1, <2>2 DEF Of
<1>11. C[top] \in Seq(Pairs) /\ Lists(C[top], Of(g, top), in)
  BY <1>1, <1>3, <1>9
<1>. QED  BY <1>4, <1>10, <1>11

-----------------------------------------------------------------------------
(* The property.                                                           *)

\* The leaves are all on one level.
Deepened(D, m) ==
  IF node[m].leaf THEN {0} ELSE {d + 1 : d \in UNION {D[c] : c \in ToSet(node[m].ptr)}}
IsDepths(D) == D = [m \in DOMAIN node |-> Deepened(D, m)]

LEMMA OneDepth ==
    ASSUME NEW U, NEW V, NEW p, NEW h, NEW l, NEW in, NEW top, Tree(node, U, V, p, h, l, in, top)
    PROVE  Cardinality(Depths(top)) = 1
<1>1. PICK N, A : N = l[top] /\ A = 1 .. Len(node)
  OBVIOUS
<1>2. DOMAIN node = A
  <2>1. node \in Seq(Nodes)
    BY DEF Tree
  <2>. QED  BY <1>1, <2>1
<1>3. /\ top \in A /\ l \in [A -> Nat] /\ N \in Nat
      /\ \A n \in A : l[n] <= N /\ (node[n].leaf <=> l[n] = 0)
  BY <1>1 DEF Tree, Owners, Levels
<1>4. ASSUME NEW n \in A, ~node[n].leaf
      PROVE  \E s : /\ ToSet(node[n].ptr) = s /\ s # {} /\ \A c \in s : c \in A /\ l[n] = l[c] + 1
  <2>1. PICK t, L : t = node[n].ptr /\ L = Len(t)
    OBVIOUS
  <2>2. /\ node[n].ptr \in Seq(Nat) /\ Len(node[n].ptr) \in Nat \ {0} /\ ToSet(node[n].ptr) = Of(p, n)
        /\ \A i \in 1 .. Len(node[n].ptr) :
             /\ node[n].ptr[i] \in Of(p, n) /\ node[n].ptr[i] \in 1 .. Len(node)
             /\ l[n] = l[node[n].ptr[i]] + 1
        /\ \A c \in Of(p, n) : \E i \in 1 .. Len(node[n].ptr) : node[n].ptr[i] = c
    <3>1. n \in 1 .. Len(node)
      BY <1>1, <1>4
    <3>. QED  BY <1>4, <3>1, InnerNode
  <2>2b. /\ t \in Seq(Nat) /\ L \in Nat \ {0} /\ ToSet(t) = Of(p, n)
         /\ \A i \in 1 .. L : t[i] \in Of(p, n) /\ t[i] \in A /\ l[n] = l[t[i]] + 1
         /\ \A c \in Of(p, n) : \E i \in 1 .. L : t[i] = c
    BY <1>1, <2>1, <2>2
  <2>3. 1 \in 1 .. L
    BY <2>2b
  <2>. QED  BY <2>1, <2>2b, <2>3
<1>5. IsDepths([m \in A |-> {l[m]}])
  <2>1. PICK D : D = [m \in A |-> {l[m]}]
    OBVIOUS
  <2>2. ASSUME NEW m \in A
        PROVE  D[m] = Deepened(D, m)
    <3>1. CASE node[m].leaf
      BY <1>3, <2>1, <3>1 DEF Deepened
    <3>2. CASE ~node[m].leaf
      <4>1. PICK s : ToSet(node[m].ptr) = s /\ s # {} /\ \A c \in s : c \in A /\ l[m] = l[c] + 1
        BY <1>4, <3>2
      <4>2. \A c \in s : D[c] = {l[c]}
        BY <2>1, <4>1
      <4>3. \A d \in UNION {D[c] : c \in s} : d + 1 = l[m]
        BY <4>1, <4>2
      <4>4. \E d \in UNION {D[c] : c \in s} : d + 1 = l[m]
        <5>1. PICK c : c \in s
          BY <4>1
        <5>2. l[c] \in UNION {D[b] : b \in s}
          BY <4>2, <5>1
        <5>. QED  BY <4>1, <5>1, <5>2
      <4>5. {d + 1 : d \in UNION {D[c] : c \in s}} = {l[m]}
        BY <4>3, <4>4
      <4>. QED  BY <2>1, <3>2, <4>1, <4>5 DEF Deepened
    <3>. QED  BY <3>1, <3>2
  <2>3. \A m \in A : Deepened(D, m) = {l[m]}
    BY <2>1, <2>2
  <2>4. D = [m \in A |-> Deepened(D, m)]
    BY <2>1, <2>3, Zenon
  <2>. QED  BY <1>2, <2>1, <2>4 DEF IsDepths
<1> DEFINE D == CHOOSE f : IsDepths(f)
<1>6. IsDepths(D)
  BY <1>5, Zenon
<1>7. Depths(top) = D[top]
  BY DEF Depths, IsDepths, Deepened
<1> HIDE DEF D
<1>8. ASSUME NEW m \in A
      PROVE  /\ node[m].leaf => D[m] = {0}
             /\ ~node[m].leaf => D[m] = {d + 1 : d \in UNION {D[c] : c \in ToSet(node[m].ptr)}}
  <2>1. D = [n \in A |-> Deepened(D, n)]
    BY <1>2, <1>6 DEF IsDepths
  <2>2. [n \in A |-> Deepened(D, n)][m] = Deepened(D, m)
    OBVIOUS
  <2>3. D[m] = Deepened(D, m)
    BY <2>1, <2>2, Zenon
  <2>. QED  BY <2>3 DEF Deepened
<1> DEFINE P == {k \in 0 .. N : \A m \in A : l[m] = k => D[m] = {k}}
<1>9. 0 \in P
  <2>1. \A m \in A : l[m] = 0 => D[m] = {0}
    BY <1>3, <1>8
  <2>. QED  BY <1>3, <2>1
<1>10. ASSUME NEW k \in 0 .. N - 1, k \in P PROVE k + 1 \in P
  <2>1. \A m \in A : l[m] = k => D[m] = {k}
    BY <1>10
  <2>2. ASSUME NEW m \in A, l[m] = k + 1 PROVE D[m] = {k + 1}
    <3>1. ~node[m].leaf
      <4>1. k + 1 # 0
        OBVIOUS
      <4>. QED  BY <1>3, <2>2, <4>1
    <3>2. PICK s : ToSet(node[m].ptr) = s /\ s # {} /\ \A c \in s : c \in A /\ l[m] = l[c] + 1
      BY <1>4, <3>1
    <3>3. \A c \in s : D[c] = {k}
      <4>1. \A c \in s : l[c] = k
        BY <1>3, <2>2, <3>2
      <4>. QED  BY <2>1, <3>2, <4>1
    <3>4. UNION {D[c] : c \in s} = {k}
      BY <3>2, <3>3
    <3>5. {d + 1 : d \in UNION {D[c] : c \in s}} = {k + 1}
      BY <3>4
    <3>. QED  BY <1>8, <3>1, <3>2, <3>5
  <2>3. k + 1 \in 0 .. N
    BY <1>3
  <2>. QED  BY <2>2, <2>3
<1>11. N \in P
  <2> HIDE DEF P
  <2>1. 0 .. N \subseteq P
    BY <1>3, <1>9, <1>10, Climb
  <2>. QED  BY <1>3, <2>1
<1>12. D[top] = {N}
  BY <1>1, <1>3, <1>11
<1>. QED  BY <1>7, <1>12, FS_Singleton

\* Every node but the root has one parent.
AllChildren == FlattenSeq([n \in DOMAIN node |-> IF node[n].leaf THEN <<>> ELSE node[n].ptr])

LEMMA OneParent ==
    ASSUME NEW U, NEW V, NEW p, NEW h, NEW l, NEW in, NEW top, Tree(node, U, V, p, h, l, in, top)
    PROVE  IsInjective(AllChildren) /\ ToSet(AllChildren) = U
<1>1. PICK m, s : m = Len(node) /\ s = [n \in 1 .. m |-> IF node[n].leaf THEN <<>> ELSE node[n].ptr]
  OBVIOUS
<1>2. m \in Nat \ {0} /\ DOMAIN node = 1 .. m /\ U \subseteq 1 .. m /\ p \in [U -> 1 .. m]
  <2>1. node \in Seq(Nodes) /\ top \in 1 .. Len(node)
    BY DEF Tree, Levels
  <2>2. U \subseteq 1 .. m /\ p \in [U -> 1 .. m]
    BY <1>1 DEF Tree, Owners
  <2>. QED  BY <1>1, <2>1, <2>2
<1>3. ASSUME NEW n \in 1 .. m
      PROVE  /\ s[n] \in Seq(Nat)
             /\ \A j \in 1 .. Len(s[n]) : s[n][j] \in Of(p, n)
             /\ \A i, j \in 1 .. Len(s[n]) : s[n][i] = s[n][j] => i = j
             /\ \A c \in Of(p, n) : \E j \in 1 .. Len(s[n]) : s[n][j] = c
  <2>1. CASE node[n].leaf
    <3>1. s[n] = <<>> /\ Of(p, n) = {}
      BY <1>1, <2>1, AtNode
    <3>. QED  BY <3>1
  <2>2. CASE ~node[n].leaf
    <3>1. PICK t : t = node[n].ptr
      OBVIOUS
    <3>2. /\ t \in Seq(Nat) /\ Distinct(t)
          /\ \A i \in 1 .. Len(t) : t[i] \in Of(p, n)
          /\ \A c \in Of(p, n) : \E i \in 1 .. Len(t) : t[i] = c
      BY <1>1, <2>2, <3>1, InnerNode
    <3>3. s[n] = t
      BY <1>1, <2>2, <3>1
    <3>. QED  BY <3>2, <3>3 DEF Distinct
  <2>. QED  BY <2>1, <2>2
<1>4. s \in Seq(Seq(Nat)) /\ Len(s) = m /\ s # <<>>
  <2>1. s \in [1 .. m -> Seq(Nat)]
    BY <1>1, <1>3
  <2>2. s \in Seq(Seq(Nat)) /\ Len(s) = m
    BY <1>2, <2>1
  <2>. QED  BY <1>2, <2>2
<1>5. PICK t : t = FlattenSeq(s)
  OBVIOUS
<1>6. t \in Seq(Nat)
  BY <1>4, <1>5, FlattenElements
<1>7. PICK A, B : PlacesOf(t, s, m, A, B)
  BY <1>4, <1>5, FlattenPlaces
<1>8. /\ \A k \in 1 .. Len(t) : A[k] \in 1 .. m /\ B[k] \in 1 .. Len(s[A[k]]) /\ t[k] = s[A[k]][B[k]]
      /\ \A k, j \in 1 .. Len(t) : A[k] = A[j] /\ B[k] = B[j] => k = j
      /\ \A i \in 1 .. m : \A j \in 1 .. Len(s[i]) : \E k \in 1 .. Len(t) : A[k] = i /\ B[k] = j
  BY <1>7 DEF PlacesOf
<1>9. \A k \in 1 .. Len(t) : t[k] \in U /\ p[t[k]] = A[k]
  <2>1. ASSUME NEW k \in 1 .. Len(t) PROVE t[k] \in Of(p, A[k])
    <3>1. PICK i, b : i = A[k] /\ b = B[k]
      OBVIOUS
    <3>2. i \in 1 .. m /\ b \in 1 .. Len(s[i]) /\ t[k] = s[i][b]
      BY <1>8, <3>1
    <3>3. \A j \in 1 .. Len(s[i]) : s[i][j] \in Of(p, i)
      BY <1>3, <3>2
    <3>. QED  BY <3>1, <3>2, <3>3
  <2>. QED  BY <1>2, <2>1 DEF Of
<1>10. DOMAIN t = 1 .. Len(t)
  BY <1>6
<1>11. ASSUME NEW k \in 1 .. Len(t), NEW j \in 1 .. Len(t), t[k] = t[j] PROVE k = j
  <2>1. A[k] = A[j]
    BY <1>9, <1>11
  <2>2. s[A[k]][B[k]] = s[A[k]][B[j]] /\ B[k] \in 1 .. Len(s[A[k]]) /\ B[j] \in 1 .. Len(s[A[k]])
    BY <1>8, <1>11, <2>1
  <2>3. B[k] = B[j]
    <3>1. PICK i, b, c : i = A[k] /\ b = B[k] /\ c = B[j]
      OBVIOUS
    <3>2. i \in 1 .. m
      BY <1>8, <3>1
    <3>3. \A y, z \in 1 .. Len(s[i]) : s[i][y] = s[i][z] => y = z
      BY <1>3, <3>2
    <3>. QED  BY <2>2, <3>1, <3>3
  <2>. QED  BY <1>8, <2>1, <2>3
<1>12. IsInjective(t)
  BY <1>10, <1>11 DEF IsInjective
<1>13. ASSUME NEW c \in U PROVE \E k \in 1 .. Len(t) : t[k] = c
  <2>1. p[c] \in 1 .. m /\ c \in Of(p, p[c])
    BY <1>2 DEF Of
  <2>2. PICK j \in 1 .. Len(s[p[c]]) : s[p[c]][j] = c
    BY <1>3, <2>1
  <2>3. PICK k \in 1 .. Len(t) : A[k] = p[c] /\ B[k] = j
    BY <1>8, <2>1
  <2>. QED  BY <1>8, <2>2, <2>3
<1>14. ToSet(t) = U
  <2>1. ToSet(t) = {t[k] : k \in 1 .. Len(t)}
    BY <1>10, Zenon DEF ToSet
  <2>. QED  BY <1>9, <1>13, <2>1
<1>15. t = AllChildren
  BY <1>1, <1>2, <1>5 DEF AllChildren
<1>. QED  BY <1>12, <1>14, <1>15

\* A value that is listed once has one place.
Once(all, v, k) ==
  LET places == UNION {{<<i, j>> : j \in {h \in DOMAIN all[i][2] : all[i][2][h] = v}} : i \in DOMAIN all}
  IN \E x \in places : places = {x} /\ all[x[1]][1] = k
LEMMA OnePlace ==
    ASSUME NEW all, NEW W, NEW in, NEW v \in W, Lists(all, W, in),
           DOMAIN all = 1 .. Len(all), \A i \in 1 .. Len(all) : DOMAIN all[i][2] = 1 .. Count(all, i)
    PROVE  Once(all, v, in[v])
<1> DEFINE at(i) == {h \in DOMAIN all[i][2] : all[i][2][h] = v}
           places == UNION {{<<i, j>> : j \in at(i)} : i \in DOMAIN all}
<1>1. PICK a \in 1 .. Len(all) : \E j \in 1 .. Count(all, a) : ValueAt(all, a, j) = v
  BY DEF Lists
<1>2. PICK b \in 1 .. Count(all, a) : ValueAt(all, a, b) = v
  BY <1>1
<1>3. KeyAt(all, a) = in[v]
  BY <1>2 DEF Lists
<1>4. \A i \in 1 .. Len(all) : \A j \in 1 .. Count(all, i) : ValueAt(all, i, j) = v => i = a /\ j = b
  BY <1>2 DEF Lists
<1>5. \A i \in 1 .. Len(all) : \A j : j \in at(i) <=> j \in 1 .. Count(all, i) /\ ValueAt(all, i, j) = v
  BY DEF ValueAt
<1>6. b \in at(a)
  BY <1>2, <1>5
<1>7. <<a, b>> \in places
  BY <1>6
<1>8. \A y \in places : y = <<a, b>>
  BY <1>4, <1>5
<1>9. PICK x : x = <<a, b>>
  OBVIOUS
<1>10. x \in places /\ places = {x} /\ all[x[1]][1] = in[v]
  <2>1. all[x[1]][1] = in[v]
    BY <1>3, <1>9 DEF KeyAt
  <2> HIDE DEF places
  <2>2. places = {x}
    BY <1>7, <1>8, <1>9
  <2>. QED  BY <2>1, <2>2
<1>. QED  BY <1>10 DEF Once

LEMMA Kept ==
    ASSUME BTreeInv
    PROVE  EveryValueKept
<1> SUFFICES ASSUME pc = "idle", root # NoNode PROVE EveryValueKept
  BY DEF EveryValueKept
<1>1. Typed(input, items)
  BY DEF BTreeInv
<1>2. PICK p, h, l : Tree(node, 1 .. Len(node) \ {root}, 1 .. Len(items), p, h, l, input, root)
  BY DEF BTreeInv, Idle
<1>3. Cardinality(Depths(root)) = 1
  BY <1>2, OneDepth
<1>4. IsInjective(AllChildren) /\ ToSet(AllChildren) = DOMAIN node \ {root}
  <2>1. node \in Seq(Nodes)
    BY <1>2 DEF Tree
  <2>2. DOMAIN node = 1 .. Len(node)
    BY <2>1
  <2>. QED  BY <1>2, <2>2, OneParent
<1>5. PICK all : all = Contents(node, root)
  OBVIOUS
<1>6. all \in Seq(Pairs) /\ Lists(all, 1 .. Len(items), input)
  BY <1>2, <1>5, TreeContents
<1>7. DOMAIN all = 1 .. Len(all) /\ \A i \in 1 .. Len(all) : DOMAIN all[i][2] = 1 .. Count(all, i)
  <2>1. \A i \in 1 .. Len(all) : all[i] \in Pairs
    BY <1>6
  <2>2. \A x \in Pairs : x[2] \in Seq(Nat)
    BY DEF Pairs
  <2>3. \A y \in Seq(Nat) : DOMAIN y = 1 .. Len(y)
    OBVIOUS
  <2>4. DOMAIN all = 1 .. Len(all)
    BY <1>6
  <2>. QED  BY <2>1, <2>2, <2>3, <2>4, Zenon DEF Count
<1>8. ASSUME NEW v \in DOMAIN items PROVE Once(Contents(node, root), v, items[v])
  <2>1. v \in 1 .. Len(items) /\ items[v] = input[v]
    <3>1. items \in Seq(Nat) /\ \A w \in 1 .. Len(items) : items[w] = input[w]
      BY <1>1 DEF Typed
    <3>. QED  BY <3>1
  <2>2. Once(all, v, input[v])
    BY <1>6, <1>7, <2>1, OnePlace
  <2>. QED  BY <1>5, <2>1, <2>2, Zenon
<1>9. Cardinality(Depths(root)) = 1 /\ IsInjective(AllChildren) /\ ToSet(AllChildren) = DOMAIN node \ {root}
  BY <1>3, <1>4
<1>. QED  BY <1>8, <1>9 DEF EveryValueKept, AllChildren, Once

\* However often nodes are split (BTree::splitNode), each value inserted is in
\* one leaf, once and under its key, all leaves are on one level, and every node
\* but the root has one parent.
THEOREM EveryValueKeptHolds == BTreeSpec => []EveryValueKept
<1>1. BTreeInv => EveryValueKept
  BY Kept
<1>. QED  BY <1>1, BTreeInvariant, PTL

-----------------------------------------------------------------------------
(* The order in which the nodes are written: breadth first. K[a] are the   *)
(* children of a, par[u] the parent of u.                                  *)

Kids(H) == [a \in 1 .. Len(H) |-> IF H[a].leaf THEN <<>> ELSE H[a].ptr]
Kid(K, a, k) == K[a][k]
Num(K, a) == Len(K[a])
Family(K, n, par, lev, top) ==
  /\ n \in Nat /\ top \in 1 .. n
  /\ par \in [1 .. n \ {top} -> 1 .. n] /\ lev \in [1 .. n -> Nat]
  /\ \A a \in 1 .. n : K[a] \in Seq(Nat) /\ Num(K, a) \in Nat
  /\ \A a \in 1 .. n : \A k \in 1 .. Num(K, a) : Kid(K, a, k) \in 1 .. n \ {top} /\ par[Kid(K, a, k)] = a
  /\ \A a \in 1 .. n : \A j, k \in 1 .. Num(K, a) : Kid(K, a, j) = Kid(K, a, k) => j = k
  /\ \A u \in 1 .. n \ {top} : \E k \in 1 .. Num(K, par[u]) : Kid(K, par[u], k) = u
  /\ \A u \in 1 .. n \ {top} : lev[par[u]] = lev[u] + 1
  /\ \A a \in 1 .. n : lev[a] <= lev[top]

LEMMA TreeFamily ==
    ASSUME NEW V, NEW p, NEW h, NEW l, NEW H, NEW in, NEW top,
           Tree(H, 1 .. Len(H) \ {top}, V, p, h, l, in, top)
    PROVE  Family(Kids(H), Len(H), p, l, top)
<1>1. PICK n, K : n = Len(H) /\ K = Kids(H)
  OBVIOUS
<1>2. H \in Seq(Nodes) /\ n \in Nat
  <2>1. H \in Seq(Nodes)
    BY DEF Tree
  <2>. QED  BY <1>1, <2>1
<1>3. /\ top \in 1 .. n /\ p \in [1 .. n \ {top} -> 1 .. n] /\ l \in [1 .. n -> Nat]
      /\ \A a \in 1 .. n : l[a] <= l[top]
      /\ \A u \in 1 .. n \ {top} : l[p[u]] = l[u] + 1
      /\ \A a \in 1 .. n : H[a].leaf <=> l[a] = 0
  BY <1>1 DEF Tree, Owners, Levels
<1>4. \A a \in 1 .. n : K[a] = IF H[a].leaf THEN <<>> ELSE H[a].ptr
  BY <1>1 DEF Kids
<1>5. \A a, u : u \in Of(p, a) <=> u \in 1 .. n \ {top} /\ p[u] = a
  BY <1>3 DEF Of
<1>6. ASSUME NEW a \in 1 .. n
      PROVE  /\ K[a] \in Seq(Nat) /\ Num(K, a) \in Nat
             /\ \A k \in 1 .. Num(K, a) : Kid(K, a, k) \in 1 .. n \ {top} /\ p[Kid(K, a, k)] = a
             /\ \A j, k \in 1 .. Num(K, a) : Kid(K, a, j) = Kid(K, a, k) => j = k
             /\ \A u \in 1 .. n \ {top} : p[u] = a => \E k \in 1 .. Num(K, a) : Kid(K, a, k) = u
  <2>1. CASE H[a].leaf
    <3>1. K[a] = <<>>
      BY <1>4, <2>1
    <3>2. Len(<<>>) = 0 /\ <<>> \in Seq(Nat)
      OBVIOUS
    <3>3. \A u \in 1 .. n \ {top} : p[u] # a
      <4>1. l[a] = 0
        BY <1>3, <2>1
      <4>. QED  BY <1>3, <4>1
    <3>4. Num(K, a) = 0
      BY <3>1, <3>2 DEF Num
    <3>. QED  BY <3>1, <3>2, <3>3, <3>4
  <2>2. CASE ~H[a].leaf
    <3>1. PICK t, L : t = H[a].ptr /\ L = Len(t)
      OBVIOUS
    <3>2. /\ t \in Seq(Nat) /\ L \in Nat /\ Distinct(t)
          /\ \A i \in 1 .. L : t[i] \in Of(p, a) /\ t[i] \in 1 .. n
          /\ \A c \in Of(p, a) : \E i \in 1 .. L : t[i] = c
      BY <1>1, <1>6, <2>2, <3>1, InnerNode
    <3>3. K[a] = t /\ Num(K, a) = L /\ \A k \in 1 .. L : Kid(K, a, k) = t[k]
      BY <1>4, <2>2, <3>1 DEF Num, Kid
    <3>4. \A i, j \in 1 .. L : t[i] = t[j] => i = j
      BY <3>1, <3>2 DEF Distinct
    <3>5. K[a] \in Seq(Nat) /\ Num(K, a) \in Nat
      BY <3>2, <3>3
    <3>6. /\ \A k \in 1 .. Num(K, a) : Kid(K, a, k) \in 1 .. n \ {top} /\ p[Kid(K, a, k)] = a
          /\ \A u \in 1 .. n \ {top} : p[u] = a => \E k \in 1 .. Num(K, a) : Kid(K, a, k) = u
      <4>1. \A k \in 1 .. L : t[k] \in 1 .. n \ {top} /\ p[t[k]] = a
        BY <1>5, <3>2
      <4>2. ASSUME NEW k \in 1 .. Num(K, a)
            PROVE  Kid(K, a, k) \in 1 .. n \ {top} /\ p[Kid(K, a, k)] = a
        <5>1. PICK c : c = Kid(K, a, k) /\ c = t[k] /\ k \in 1 .. L
          BY <3>3
        <5>2. c \in 1 .. n \ {top} /\ p[c] = a
          BY <4>1, <5>1
        <5>. QED  BY <5>1, <5>2, Zenon
      <4>3. ASSUME NEW u \in 1 .. n \ {top}, p[u] = a
            PROVE  \E k \in 1 .. Num(K, a) : Kid(K, a, k) = u
        <5>1. u \in Of(p, a)
          BY <1>5, <4>3, Zenon
        <5>2. PICK i \in 1 .. L : t[i] = u
          BY <3>2, <5>1
        <5>. QED  BY <3>3, <5>2
      <4>. QED  BY <4>2, <4>3
    <3>7. \A j, k \in 1 .. Num(K, a) : Kid(K, a, j) = Kid(K, a, k) => j = k
      BY <3>3, <3>4
    <3>. QED  BY <3>5, <3>6, <3>7
  <2>. QED  BY <2>1, <2>2
<1>7. \A u \in 1 .. n \ {top} : p[u] \in 1 .. n
  BY <1>3
<1>8. \A u \in 1 .. n \ {top} : \E k \in 1 .. Num(K, p[u]) : Kid(K, p[u], k) = u
  BY <1>6, <1>7
<1>9. Family(K, n, p, l, top)
  BY <1>2, <1>3, <1>6, <1>8 DEF Family
<1>. QED  BY <1>1, <1>9

\* Every node is reached from the root.
LEMMA AllReached ==
    ASSUME NEW K, NEW n, NEW par, NEW lev, NEW top, Family(K, n, par, lev, top),
           NEW P, top \in P, \A u \in 1 .. n \ {top} : par[u] \in P => u \in P
    PROVE  1 .. n \subseteq P
<1>1. /\ n \in Nat /\ top \in 1 .. n
      /\ par \in [1 .. n \ {top} -> 1 .. n] /\ lev \in [1 .. n -> Nat]
      /\ \A u \in 1 .. n \ {top} : lev[par[u]] = lev[u] + 1
      /\ \A a \in 1 .. n : lev[a] <= lev[top]
  BY DEF Family
<1>2. PICK N : N = lev[top]
  OBVIOUS
<1>3. N \in Nat /\ \A a \in 1 .. n : lev[a] \in 0 .. N
  BY <1>1, <1>2
<1> DEFINE R == {k \in 0 .. N : \A u \in 1 .. n : lev[u] >= N - k => u \in P}
<1>4. 0 \in R
  <2>1. ASSUME NEW u \in 1 .. n, lev[u] >= N - 0 PROVE u \in P
    <3>1. lev[u] = N
      BY <1>3, <2>1
    <3>2. CASE u # top
      <4>1. lev[par[u]] = N + 1 /\ par[u] \in 1 .. n
        BY <1>1, <3>1, <3>2
      <4>. QED  BY <1>3, <4>1
    <3>. QED  BY <3>2
  <2>. QED  BY <1>3, <2>1
<1>5. ASSUME NEW k \in 0 .. N - 1, k \in R PROVE k + 1 \in R
  <2>1. ASSUME NEW u \in 1 .. n, lev[u] >= N - (k + 1) PROVE u \in P
    <3>1. CASE u # top
      <4>1. lev[par[u]] = lev[u] + 1 /\ par[u] \in 1 .. n
        BY <1>1, <3>1
      <4>2. lev[par[u]] >= N - k
        BY <1>3, <2>1, <4>1
      <4>3. par[u] \in P
        BY <1>5, <4>1, <4>2
      <4>. QED  BY <3>1, <4>3
    <3>. QED  BY <3>1
  <2>. QED  BY <1>3, <2>1
<1>6. N \in R
  <2> HIDE DEF R
  <2>1. 0 .. N \subseteq R
    BY <1>3, <1>4, <1>5, Climb
  <2>. QED  BY <1>3, <2>1
<1>. QED  BY <1>3, <1>6

LEMMA Places ==
    ASSUME NEW n \in Nat
    PROVE  IsFiniteSet(1 .. n) /\ Cardinality(1 .. n) = n
BY FS_Interval

\* The places 1 .. m cannot hold more than m nodes, nor more places different ones.
LEMMA NoRoom ==
    ASSUME NEW m \in Nat, NEW n \in Nat, NEW q, \A u \in 1 .. n : \E j \in 1 .. m : q[j] = u
    PROVE  n <= m
<1>1. PICK f : f \in [1 .. n -> 1 .. m] /\ \A u \in 1 .. n : q[f[u]] = u
  <2> DEFINE f == [u \in 1 .. n |-> CHOOSE j \in 1 .. m : q[j] = u]
  <2>1. \A u \in 1 .. n : f[u] \in 1 .. m /\ q[f[u]] = u
    OBVIOUS
  <2>2. f \in [1 .. n -> 1 .. m]
    BY <2>1
  <2>. QED  BY <2>1, <2>2
<1>2. \A x, y \in 1 .. n : f[x] = f[y] => x = y
  BY <1>1
<1>3. ~(m < n)
  <2> SUFFICES ASSUME m < n PROVE FALSE
    OBVIOUS
  <2>1. IsFiniteSet(1 .. n) /\ IsFiniteSet(1 .. m)
    BY Places
  <2>2. Cardinality(1 .. m) < Cardinality(1 .. n)
    BY Places
  <2>3. f \in [1 .. n -> 1 .. m]
    BY <1>1
  <2>4. \E x, y \in 1 .. n : x # y /\ f[x] = f[y]
    BY <2>1, <2>2, <2>3, FS_PigeonHole
  <2>. QED  BY <1>2, <2>4
<1>. QED  BY <1>3

LEMMA AllDifferent ==
    ASSUME NEW m \in Nat, NEW n \in Nat, NEW q \in [1 .. m -> 1 .. n],
           \A x, y \in 1 .. m : q[x] = q[y] => x = y
    PROVE  m <= n
<1> SUFFICES ASSUME n < m PROVE FALSE
  OBVIOUS
<1>1. /\ IsFiniteSet(1 .. n) /\ Cardinality(1 .. n) = n
      /\ IsFiniteSet(1 .. m) /\ Cardinality(1 .. m) = m
  BY FS_Interval
<1>2. Cardinality(1 .. n) < Cardinality(1 .. m)
  BY <1>1
<1>3. \E x, y \in 1 .. m : x # y /\ q[x] = q[y]
  BY <1>1, <1>2, FS_PigeonHole
<1>. QED  BY <1>3

\* After i turns of the queue: q lists the nodes that have been in it, of which
\* the first i are out again; c[j] of them were in it before turn j, so that the
\* children of q[j] come after the first c[j].
Listed(q, c, i, K, n, par, top) ==
  /\ c \in [1 .. i + 1 -> Nat] /\ c[1] = 1 /\ i <= c[i + 1]
  /\ q \in [1 .. c[i + 1] -> 1 .. n] /\ q[1] = top
  /\ \A j \in 1 .. i : j <= c[j] /\ c[j + 1] = c[j] + Num(K, q[j])
  /\ \A j \in 1 .. i + 1 : c[j] <= c[i + 1]
  /\ \A j \in 1 .. i : \A k \in 1 .. Num(K, q[j]) : q[c[j] + k] = Kid(K, q[j], k)
  /\ \A x, y \in 1 .. c[i + 1] : q[x] = q[y] => x = y
  /\ \A x \in 2 .. c[i + 1] : q[x] # top /\ \E j \in 1 .. i : par[q[x]] = q[j]

\* The queue does not run empty before all nodes have been in it.
LEMMA QueueNotEmpty ==
    ASSUME NEW K, NEW n, NEW par, NEW lev, NEW top, Family(K, n, par, lev, top),
           NEW i \in 0 .. n - 1, NEW q, NEW c, Listed(q, c, i, K, n, par, top)
    PROVE  i + 1 \in 1 .. c[i + 1]
<1>1. /\ c \in [1 .. i + 1 -> Nat] /\ c[1] = 1 /\ i <= c[i + 1]
      /\ q \in [1 .. c[i + 1] -> 1 .. n] /\ q[1] = top
      /\ \A j \in 1 .. i : j <= c[j] /\ c[j + 1] = c[j] + Num(K, q[j])
      /\ \A j \in 1 .. i + 1 : c[j] <= c[i + 1]
  BY DEF Listed
<1>2. \A j \in 1 .. i : \A k \in 1 .. Num(K, q[j]) : q[c[j] + k] = Kid(K, q[j], k)
  BY DEF Listed
<1>3. /\ n \in Nat /\ top \in 1 .. n /\ par \in [1 .. n \ {top} -> 1 .. n]
      /\ \A a \in 1 .. n : Num(K, a) \in Nat
      /\ \A u \in 1 .. n \ {top} : \E k \in 1 .. Num(K, par[u]) : Kid(K, par[u], k) = u
  BY DEF Family
<1>4. i \in Nat /\ i < n /\ i + 1 \in 1 .. i + 1 /\ 1 \in 1 .. i + 1
  BY <1>3
<1>5. c[i + 1] \in Nat /\ c[i + 1] >= 1
  BY <1>1, <1>4
<1> SUFFICES ASSUME ~(i < c[i + 1]) PROVE FALSE
  BY <1>4, <1>5
<1>6. c[i + 1] = i
  BY <1>1, <1>4, <1>5
<1> DEFINE P == {q[j] : j \in 1 .. i}
<1>7. top \in P
  <2>1. 1 \in 1 .. i
    BY <1>4, <1>5, <1>6
  <2>. QED  BY <1>1, <2>1
<1>8. ASSUME NEW u \in 1 .. n \ {top}, par[u] \in P PROVE u \in P
  <2>1. PICK j \in 1 .. i : par[u] = q[j]
    BY <1>8
  <2>2. PICK k \in 1 .. Num(K, q[j]) : Kid(K, q[j], k) = u
    BY <1>3, <2>1
  <2>3. q[c[j] + k] = u
    BY <1>2, <2>1, <2>2
  <2>4. j \in 1 .. i + 1 /\ j + 1 \in 1 .. i + 1 /\ j \in 1 .. c[i + 1]
    BY <1>4, <1>6
  <2>5. q[j] \in 1 .. n /\ Num(K, q[j]) \in Nat
    BY <1>1, <1>3, <2>4
  <2>6. c[j] \in Nat /\ c[j + 1] = c[j] + Num(K, q[j]) /\ c[j + 1] <= i
    BY <1>1, <1>6, <2>4
  <2>7. c[j] + k \in 1 .. i
    BY <1>4, <2>5, <2>6
  <2>. QED  BY <2>3, <2>7
<1>9. 1 .. n \subseteq P
  <2> HIDE DEF P
  <2>. QED  BY <1>7, <1>8, AllReached
<1>10. \A u \in 1 .. n : \E j \in 1 .. i : q[j] = u
  BY <1>9
<1>11. n <= i
  BY <1>3, <1>4, <1>10, NoRoom
<1>. QED  BY <1>3, <1>4, <1>11

LEMMA TurnListed ==
    ASSUME NEW K, NEW n, NEW par, NEW lev, NEW top, Family(K, n, par, lev, top),
           NEW i \in 0 .. n - 1, NEW q, NEW c, Listed(q, c, i, K, n, par, top)
    PROVE  \E r, d : Listed(r, d, i + 1, K, n, par, top)
<1>1. PICK m, a, t : m = c[i + 1] /\ a = q[i + 1] /\ t = Num(K, a)
  OBVIOUS
<1>2. /\ c \in [1 .. i + 1 -> Nat] /\ c[1] = 1 /\ i <= m
      /\ q \in [1 .. m -> 1 .. n] /\ q[1] = top
      /\ \A j \in 1 .. i : j <= c[j] /\ c[j + 1] = c[j] + Num(K, q[j])
      /\ \A j \in 1 .. i + 1 : c[j] <= m
      /\ \A x, y \in 1 .. m : q[x] = q[y] => x = y
      /\ \A x \in 2 .. m : q[x] # top /\ \E j \in 1 .. i : par[q[x]] = q[j]
  BY <1>1 DEF Listed
<1>3. \A j \in 1 .. i : \A k \in 1 .. Num(K, q[j]) : q[c[j] + k] = Kid(K, q[j], k)
  BY DEF Listed
<1>4. n \in Nat /\ i \in Nat /\ i + 1 \in 1 .. m /\ m \in Nat /\ i + 1 \in 1 .. i + 1
  <2>1. n \in Nat
    BY DEF Family
  <2>2. i + 1 \in 1 .. m
    BY <1>1, QueueNotEmpty
  <2>3. i \in Nat /\ i + 1 \in 1 .. i + 1
    BY <2>1
  <2>. QED  BY <1>1, <1>2, <2>1, <2>2, <2>3
<1>5. /\ a \in 1 .. n /\ t \in Nat
      /\ \A k \in 1 .. t : Kid(K, a, k) \in 1 .. n \ {top} /\ par[Kid(K, a, k)] = a
      /\ \A j, k \in 1 .. t : Kid(K, a, j) = Kid(K, a, k) => j = k
  <2>1. a \in 1 .. n
    BY <1>1, <1>2, <1>4
  <2>. QED  BY <1>1, <2>1 DEF Family
<1> DEFINE r == [x \in 1 .. m + t |-> IF x <= m THEN q[x] ELSE Kid(K, a, x - m)]
           d == [j \in 1 .. i + 2 |-> IF j = i + 2 THEN m + t ELSE c[j]]
<1>6. /\ \A x \in 1 .. m : x \in 1 .. m + t /\ r[x] = q[x] /\ q[x] \in 1 .. n
      /\ \A k \in 1 .. t : m + k \in 1 .. m + t /\ r[m + k] = Kid(K, a, k)
      /\ \A x \in 1 .. m + t : x \in 1 .. m \/ \E k \in 1 .. t : x = m + k
  <2>1. \A x \in 1 .. m : x \in 1 .. m + t /\ x <= m
    BY <1>4, <1>5
  <2>2. \A k \in 1 .. t : m + k \in 1 .. m + t /\ ~(m + k <= m) /\ (m + k) - m = k
    BY <1>4, <1>5
  <2>3. ASSUME NEW x \in 1 .. m + t PROVE x \in 1 .. m \/ \E k \in 1 .. t : x = m + k
    <3>1. CASE x <= m
      BY <1>4, <1>5, <3>1
    <3>2. CASE ~(x <= m)
      <4>1. x - m \in 1 .. t /\ x = m + (x - m)
        BY <1>4, <1>5, <3>2
      <4>. QED  BY <4>1
    <3>. QED  BY <3>1, <3>2
  <2>. QED  BY <1>2, <2>1, <2>2, <2>3
<1>7. /\ \A j \in 1 .. i + 1 : j \in 1 .. i + 2 /\ d[j] = c[j] /\ c[j] \in Nat
      /\ d[i + 2] = m + t /\ (i + 1) + 1 = i + 2 /\ i + 2 \in 1 .. i + 2
      /\ \A j \in 1 .. i + 2 : j \in 1 .. i + 1 \/ j = i + 2
  BY <1>2, <1>4
<1>8. r \in [1 .. m + t -> 1 .. n]
  <2> HIDE DEF r
  <2>1. \A x \in 1 .. m + t : r[x] \in 1 .. n
    BY <1>5, <1>6
  <2>. QED  BY <2>1 DEF r
<1>9. d \in [1 .. i + 2 -> Nat]
  <2> HIDE DEF d
  <2>1. \A j \in 1 .. i + 2 : d[j] \in Nat
    BY <1>4, <1>5, <1>7
  <2>. QED  BY <2>1 DEF d
<1> HIDE DEF r, d
<1>10. /\ d[1] = 1 /\ i + 1 <= d[i + 2] /\ r[1] = top
  <2>1. 1 \in 1 .. i + 1 /\ 1 \in 1 .. m
    BY <1>4
  <2>. QED  BY <1>2, <1>4, <1>5, <1>6, <1>7, <2>1
<1>11. \A j \in 1 .. i + 2 : d[j] <= m + t
  <2>1. m <= m + t
    BY <1>4, <1>5
  <2>2. \A j \in 1 .. i + 1 : d[j] <= m + t
    BY <1>2, <1>4, <1>5, <1>7
  <2>. QED  BY <1>4, <1>5, <1>7, <2>2
<1>12. ASSUME NEW j \in 1 .. i + 1
       PROVE  /\ j <= d[j] /\ d[j + 1] = d[j] + Num(K, r[j])
              /\ \A k \in 1 .. Num(K, r[j]) : r[d[j] + k] = Kid(K, r[j], k)
  <2>1. j \in 1 .. m /\ r[j] = q[j]
    BY <1>4, <1>6
  <2>2. CASE j = i + 1
    <3>1. d[j] = m /\ d[j + 1] = m + t /\ r[j] = a
      BY <1>1, <1>4, <1>7, <2>1, <2>2
    <3>2. j <= m
      BY <2>1
    <3>. QED  BY <1>1, <1>6, <3>1, <3>2
  <2>3. CASE j # i + 1
    <3>1. j \in 1 .. i /\ j + 1 \in 1 .. i + 1
      BY <1>4, <2>3
    <3>2. d[j] = c[j] /\ d[j + 1] = c[j + 1] /\ c[j] \in Nat /\ c[j + 1] <= m
      BY <1>2, <1>7, <3>1
    <3>3. j <= d[j] /\ d[j + 1] = d[j] + Num(K, q[j])
      BY <1>2, <3>1, <3>2
    <3>4. Num(K, q[j]) \in Nat
      <4>1. q[j] \in 1 .. n
        BY <1>6, <2>1
      <4>. QED  BY <4>1 DEF Family
    <3>5. ASSUME NEW k \in 1 .. Num(K, q[j]) PROVE r[d[j] + k] = Kid(K, q[j], k)
      <4>1. c[j] + k \in 1 .. m
        BY <1>4, <3>2, <3>3, <3>4
      <4>2. r[c[j] + k] = q[c[j] + k]
        BY <1>6, <4>1
      <4>. QED  BY <1>3, <3>1, <3>2, <4>2
    <3>. QED  BY <2>1, <3>3, <3>5
  <2>. QED  BY <2>2, <2>3
<1>13. ASSUME NEW k \in 1 .. t
       PROVE  /\ r[m + k] # top /\ par[r[m + k]] = r[i + 1]
              /\ \A x \in 1 .. m : r[x] # r[m + k]
  <2>1. PICK e : e = r[m + k] /\ e = Kid(K, a, k)
    BY <1>6
  <2>2. e # top /\ par[e] = a
    BY <1>5, <2>1
  <2>3. r[i + 1] = a
    BY <1>1, <1>4, <1>6
  <2>4. ASSUME NEW x \in 1 .. m, q[x] = e PROVE FALSE
    <3>1. x # 1
      BY <1>2, <2>2, <2>4
    <3>2. x \in 2 .. m
      BY <1>4, <3>1
    <3>3. PICK j \in 1 .. i : par[q[x]] = q[j]
      BY <1>2, <3>2
    <3>4. q[j] = q[i + 1]
      BY <1>1, <2>2, <2>4, <3>3
    <3>5. j \in 1 .. m /\ j # i + 1
      BY <1>4
    <3>. QED  BY <1>2, <1>4, <3>4, <3>5
  <2>5. \A x \in 1 .. m : r[x] # e
    BY <1>6, <2>4
  <2>. QED  BY <2>1, <2>2, <2>3, <2>5
<1>14. ASSUME NEW x \in 1 .. m + t, NEW y \in 1 .. m + t, r[x] = r[y] PROVE x = y
  <2>1. CASE x \in 1 .. m /\ y \in 1 .. m
    BY <1>2, <1>6, <1>14, <2>1
  <2>2. CASE x \notin 1 .. m
    <3>1. PICK j \in 1 .. t : x = m + j
      BY <1>6, <2>2
    <3>2. y \notin 1 .. m
      BY <1>13, <1>14, <3>1
    <3>3. PICK k \in 1 .. t : y = m + k
      BY <1>6, <3>2
    <3>4. Kid(K, a, j) = Kid(K, a, k)
      BY <1>6, <1>14, <3>1, <3>3
    <3>. QED  BY <1>5, <3>1, <3>3, <3>4
  <2>3. CASE x \in 1 .. m /\ y \notin 1 .. m
    <3>1. PICK j \in 1 .. t : y = m + j
      BY <1>6, <2>3
    <3>. QED  BY <1>13, <1>14, <2>3, <3>1
  <2>. QED  BY <2>1, <2>2, <2>3
<1>15. ASSUME NEW x \in 2 .. m + t PROVE r[x] # top /\ \E j \in 1 .. i + 1 : par[r[x]] = r[j]
  <2>0. x \in 1 .. m + t
    BY <1>4, <1>5
  <2>1. CASE x \in 1 .. m
    <3>1. x \in 2 .. m /\ r[x] = q[x]
      BY <1>4, <1>6, <2>1
    <3>2. PICK j \in 1 .. i : par[q[x]] = q[j]
      BY <1>2, <3>1
    <3>3. j \in 1 .. i + 1 /\ j \in 1 .. m
      BY <1>4
    <3>4. r[j] = q[j]
      BY <1>6, <3>3
    <3>. QED  BY <1>2, <3>1, <3>2, <3>3, <3>4
  <2>2. CASE x \notin 1 .. m
    <3>1. PICK k \in 1 .. t : x = m + k
      BY <1>6, <2>0, <2>2
    <3>. QED  BY <1>4, <1>13, <3>1
  <2>. QED  BY <2>1, <2>2
<1>16. d[(i + 1) + 1] = m + t /\ (i + 1) + 1 = i + 2
  BY <1>7
<1>17. Listed(r, d, i + 1, K, n, par, top)
  <2>1. /\ d \in [1 .. (i + 1) + 1 -> Nat] /\ d[1] = 1 /\ i + 1 <= d[(i + 1) + 1]
        /\ r \in [1 .. d[(i + 1) + 1] -> 1 .. n] /\ r[1] = top
    BY <1>8, <1>9, <1>10, <1>16
  <2>2. \A j \in 1 .. (i + 1) + 1 : d[j] <= d[(i + 1) + 1]
    BY <1>11, <1>16
  <2>3. \A x, y \in 1 .. d[(i + 1) + 1] : r[x] = r[y] => x = y
    BY <1>14, <1>16
  <2>4. \A x \in 2 .. d[(i + 1) + 1] : r[x] # top /\ \E j \in 1 .. i + 1 : par[r[x]] = r[j]
    BY <1>15, <1>16
  <2>5. \A j \in 1 .. i + 1 : j <= d[j] /\ d[j + 1] = d[j] + Num(K, r[j])
    BY <1>12
  <2>6. \A j \in 1 .. i + 1 : \A k \in 1 .. Num(K, r[j]) : r[d[j] + k] = Kid(K, r[j], k)
    BY <1>12
  <2>. QED  BY <2>1, <2>2, <2>3, <2>4, <2>5, <2>6 DEF Listed
<1>. QED  BY <1>17

\* The order of all nodes.
FileOrder(q, c, K, n, top) ==
  /\ c \in [1 .. n + 1 -> 1 .. n] /\ c[1] = 1 /\ c[n + 1] = n
  /\ q \in [1 .. n -> 1 .. n] /\ q[1] = top
  /\ \A j \in 1 .. n : j <= c[j] /\ c[j + 1] = c[j] + Num(K, q[j])
  /\ \A j \in 1 .. n : \A k \in 1 .. Num(K, q[j]) : c[j] + k \in 1 .. n /\ q[c[j] + k] = Kid(K, q[j], k)
  /\ \A x, y \in 1 .. n : q[x] = q[y] => x = y

LEMMA OrderExists ==
    ASSUME NEW K, NEW n, NEW par, NEW lev, NEW top, Family(K, n, par, lev, top)
    PROVE  \E q, c : FileOrder(q, c, K, n, top)
<1>1. n \in Nat /\ top \in 1 .. n /\ \A a \in 1 .. n : Num(K, a) \in Nat
  BY DEF Family
<1> DEFINE P == {i \in 0 .. n : \E q, c : Listed(q, c, i, K, n, par, top)}
<1>2. 0 \in P
  <2> DEFINE q == [x \in 1 .. 1 |-> top]
             c == [x \in 1 .. 1 |-> 1]
  <2>1. q \in [1 .. 1 -> 1 .. n] /\ c \in [1 .. 1 -> Nat] /\ q[1] = top /\ c[1] = 1
    BY <1>1
  <2> HIDE DEF q, c
  <2>2. c \in [1 .. 0 + 1 -> Nat] /\ 0 <= c[0 + 1] /\ q \in [1 .. c[0 + 1] -> 1 .. n]
    BY <2>1
  <2>3. \A j \in 1 .. 0 + 1 : c[j] <= c[0 + 1]
    BY <2>1
  <2>4. (\A j \in 1 .. 0 : FALSE) /\ \A x \in 2 .. c[0 + 1] : FALSE
    BY <2>1
  <2>5. \A x, y \in 1 .. c[0 + 1] : x = y
    BY <2>1
  <2>6. Listed(q, c, 0, K, n, par, top)
    BY <2>1, <2>2, <2>3, <2>4, <2>5 DEF Listed
  <2>. QED  BY <1>1, <2>6
<1>3. ASSUME NEW i \in 0 .. n - 1, i \in P PROVE i + 1 \in P
  <2>1. PICK q, c : Listed(q, c, i, K, n, par, top)
    BY <1>3
  <2>2. \E r, d : Listed(r, d, i + 1, K, n, par, top)
    BY <2>1, TurnListed
  <2>3. i + 1 \in 0 .. n
    BY <1>1
  <2>. QED  BY <2>2, <2>3
<1>4. n \in P
  <2> HIDE DEF P
  <2>1. 0 .. n \subseteq P
    BY <1>1, <1>2, <1>3, Climb
  <2>. QED  BY <1>1, <2>1
<1>5. PICK q, c : Listed(q, c, n, K, n, par, top)
  BY <1>4
<1>6. PICK m : m = c[n + 1]
  OBVIOUS
<1>7. /\ c \in [1 .. n + 1 -> Nat] /\ c[1] = 1 /\ n <= m
      /\ q \in [1 .. m -> 1 .. n] /\ q[1] = top
      /\ \A j \in 1 .. n : j <= c[j] /\ c[j + 1] = c[j] + Num(K, q[j])
      /\ \A j \in 1 .. n + 1 : c[j] <= m
      /\ \A x, y \in 1 .. m : q[x] = q[y] => x = y
  BY <1>5, <1>6 DEF Listed
<1>8. \A j \in 1 .. n : \A k \in 1 .. Num(K, q[j]) : q[c[j] + k] = Kid(K, q[j], k)
  BY <1>5 DEF Listed
<1>9. m = n
  <2>1. m \in Nat
    BY <1>1, <1>6, <1>7
  <2>2. m <= n
    BY <1>1, <1>7, <2>1, AllDifferent
  <2>. QED  BY <1>1, <1>7, <2>1, <2>2
<1>10. \A j \in 1 .. n : j \in 1 .. n + 1 /\ j + 1 \in 1 .. n + 1 /\ c[j] \in Nat /\ c[j + 1] <= n
                         /\ Num(K, q[j]) \in Nat
  <2>1. \A j \in 1 .. n : j \in 1 .. n + 1 /\ j + 1 \in 1 .. n + 1
    BY <1>1
  <2>2. \A j \in 1 .. n : q[j] \in 1 .. n
    BY <1>7, <1>9
  <2>. QED  BY <1>1, <1>7, <1>9, <2>1, <2>2
<1>11. ASSUME NEW j \in 1 .. n, NEW k \in 1 .. Num(K, q[j]) PROVE c[j] + k \in 1 .. n
  <2>1. c[j] \in Nat /\ c[j] + Num(K, q[j]) <= n /\ Num(K, q[j]) \in Nat
    BY <1>7, <1>10
  <2>. QED  BY <1>1, <2>1
<1>12. c \in [1 .. n + 1 -> 1 .. n]
  <2>1. ASSUME NEW j \in 1 .. n + 1 PROVE c[j] \in 1 .. n
    <3>1. c[j] \in Nat /\ c[j] <= n
      BY <1>7, <1>9
    <3>2. c[j] >= 1
      <4>1. CASE j = n + 1
        <5>1. c[j] = n
          BY <1>6, <1>9, <4>1
        <5>. QED  BY <1>1, <5>1
      <4>2. CASE j # n + 1
        <5>1. j \in 1 .. n
          BY <1>1, <4>2
        <5>2. j <= c[j]
          BY <1>7, <5>1
        <5>. QED  BY <1>1, <3>1, <5>1, <5>2
      <4>. QED  BY <4>1, <4>2
    <3>. QED  BY <1>1, <3>1, <3>2
  <2>. QED  BY <1>7, <2>1
<1>13. FileOrder(q, c, K, n, top)
  BY <1>6, <1>7, <1>8, <1>9, <1>11, <1>12 DEF FileOrder
<1>. QED  BY <1>13

-----------------------------------------------------------------------------
(* The places of the nodes in the file: sums of sizes.                     *)

LEMMA SumOfIs ==
    ASSUME NEW s \in Seq(Nat), NEW f \in SumsOf(s)
    PROVE  SumOf(s) = f[Len(s)]
BY SumByIs DEF SumOf, SumBy

LEMMA SumOfBefore ==
    ASSUME NEW s \in Seq(Nat), NEW f \in SumsOf(s), NEW i \in 1 .. Len(s)
    PROVE  SumOf(SubSeq(s, 1, i - 1)) = f[i - 1]
BY SumByBefore DEF SumOf, SumBy

\* The sums over a part of s go on from the sum before it.
SumsOnFrom(f, b, t) ==
  /\ f[b] + SumOf(t) = f[b + Len(t)]
  /\ \A k \in 1 .. Len(t) : f[b] + SumOf(SubSeq(t, 1, k - 1)) = f[b + k - 1]
LEMMA SumsOn ==
    ASSUME NEW s \in Seq(Nat), NEW f \in SumsOf(s), NEW b \in Nat, NEW t \in Seq(Nat),
           b + Len(t) <= Len(s), \A k \in 1 .. Len(t) : t[k] = s[b + k]
    PROVE  SumsOnFrom(f, b, t)
<1>1. PICK N, M : N = Len(s) /\ M = Len(t)
  OBVIOUS
<1>2. N \in Nat /\ M \in Nat /\ b + M <= N /\ \A k \in 1 .. M : b + k \in 1 .. N
  BY <1>1
<1>3. f \in [0 .. N -> Nat] /\ \A i \in 1 .. N : f[i] = f[i - 1] + s[i]
  BY <1>1 DEF SumsOf
<1>4. PICK g : g \in SumsOf(t)
  BY SumsExist
<1>5. g \in [0 .. M -> Nat] /\ g[0] = 0 /\ \A i \in 1 .. M : g[i] = g[i - 1] + t[i]
  BY <1>1, <1>4 DEF SumsOf
<1>6. \A i \in 1 .. M : t[i] = s[b + i] /\ t[i] \in Nat
  BY <1>1
<1> DEFINE R == {k \in 0 .. M : f[b] + g[k] = f[b + k]}
<1>7. 0 .. M \subseteq R
  <2>1. 0 \in R
    <3>1. f[b] \in Nat /\ b + 0 = b
      BY <1>2, <1>3
    <3>. QED  BY <1>2, <1>5, <3>1
  <2>2. ASSUME NEW k \in 0 .. M - 1, k \in R PROVE k + 1 \in R
    <3>1. k + 1 \in 1 .. M /\ k + 1 \in 0 .. M /\ (k + 1) - 1 = k /\ k \in 0 .. M
      BY <1>2
    <3>2. b + (k + 1) \in 1 .. N /\ (b + (k + 1)) - 1 = b + k /\ b + k \in 0 .. N /\ b \in 0 .. N
      BY <1>2, <3>1
    <3>3. g[k + 1] = g[k] + t[k + 1]
      BY <1>5, <3>1
    <3>4. f[b + (k + 1)] = f[b + k] + s[b + (k + 1)]
      BY <1>3, <3>2
    <3>5. t[k + 1] = s[b + (k + 1)] /\ t[k + 1] \in Nat
      BY <1>6, <3>1
    <3>6. f[b] \in Nat /\ g[k] \in Nat /\ f[b + k] \in Nat
      BY <1>3, <1>5, <3>1, <3>2
    <3>7. f[b] + g[k] = f[b + k]
      BY <2>2
    <3>8. PICK x, y, z, e : x = f[b] /\ y = g[k] /\ z = f[b + k] /\ e = t[k + 1]
      OBVIOUS
    <3>9. x + (y + e) = z + e
      <4>1. x \in Nat /\ y \in Nat /\ z \in Nat
        BY <3>6, <3>8
      <4>2. e \in Nat
        BY <3>5, <3>8
      <4>3. x + y = z
        BY <3>7, <3>8
      <4>. QED  BY <4>1, <4>2, <4>3
    <3>10. f[b] + g[k + 1] = f[b + (k + 1)]
      BY <3>3, <3>4, <3>5, <3>8, <3>9
    <3>. QED  BY <3>1, <3>10
  <2> HIDE DEF R
  <2>. QED  BY <1>2, <2>1, <2>2, Climb
<1>8. f[b] + SumOf(t) = f[b + Len(t)]
  <2>1. SumOf(t) = g[M]
    BY <1>1, <1>4, SumOfIs
  <2>2. M \in R
    BY <1>2, <1>7
  <2>. QED  BY <1>1, <2>1, <2>2
<1>9. ASSUME NEW k \in 1 .. Len(t) PROVE f[b] + SumOf(SubSeq(t, 1, k - 1)) = f[b + k - 1]
  <2>1. SumOf(SubSeq(t, 1, k - 1)) = g[k - 1]
    BY <1>4, SumOfBefore
  <2>2. k - 1 \in 0 .. M /\ b + (k - 1) = b + k - 1
    BY <1>1, <1>2
  <2>3. k - 1 \in R
    BY <1>7, <2>2
  <2>. QED  BY <2>1, <2>2, <2>3
<1>. QED  BY <1>8, <1>9 DEF SumsOnFrom

\* Every node takes room in the file.
LEMMA SizeOfNode ==
    ASSUME NEW U, NEW V, NEW p, NEW h, NEW l, NEW H, NEW in, NEW top,
           Tree(H, U, V, p, h, l, in, top), NEW a \in 1 .. Len(H)
    PROVE  getSizeOfFile(H[a]) \in Nat /\ getSizeOfFile(H[a]) > 0
<1>1. PICK n : n = H[a]
  OBVIOUS
<1>2. CASE n.leaf
  <2>1. PICK L \in 1 .. MAX_PER_NODE : GoodLeaf(n, L, Of(h, a), in)
    BY <1>1, <1>2, AtNode
  <2>2. PICK s, t : LeafOf(n, s, t, L, Of(h, a), in)
    BY <2>1 DEF GoodLeaf
  <2>3. t \in Seq(Seq(Nat)) /\ n = Leaf(s, t)
    BY <2>2 DEF LeafOf
  <2>4. n.ptr = t
    BY <2>3, NodeFields
  <2>5. PICK z : z = [i \in DOMAIN t |-> 4 + 4 + 4 * Len(t[i])]
    OBVIOUS
  <2>6. z \in Seq(Nat)
    <3>1. \A i \in 1 .. Len(t) : t[i] \in Seq(Nat)
      BY <2>3
    <3>2. \A x \in Seq(Nat) : Len(x) \in Nat
      OBVIOUS
    <3>3. \A i \in 1 .. Len(t) : 4 + 4 + 4 * Len(t[i]) \in Nat
      BY <3>1, <3>2
    <3>4. DOMAIN t = 1 .. Len(t) /\ Len(t) \in Nat
      BY <2>3
    <3>5. z \in [1 .. Len(t) -> Nat]
      BY <2>5, <3>3, <3>4
    <3>. QED  BY <3>4, <3>5
  <2>7. SumOf(z) \in Nat
    <3>1. PICK f : f \in SumsOf(z)
      BY <2>6, SumsExist
    <3>2. SumOf(z) = f[Len(z)] /\ Len(z) \in Nat
      BY <2>6, <3>1, SumOfIs
    <3>. QED  BY <3>1, <3>2 DEF SumsOf
  <2>8. getSizeOfFile(n) = 2 + SumOf(z)
    BY <1>2, <2>4, <2>5 DEF getSizeOfFile
  <2>. QED  BY <1>1, <2>7, <2>8
<1>3. CASE ~n.leaf
  <2>1. PICK L \in 1 .. MAX_PER_NODE : GoodInner(n, L, Of(p, a))
    BY <1>1, <1>3, AtNode
  <2>2. Len(n.keys) \in Nat
    BY <2>1, InnerFields
  <2>3. getSizeOfFile(n) = 2 + 8 * Len(n.keys)
    BY <1>3 DEF getSizeOfFile
  <2>. QED  BY <1>1, <2>2, <2>3
<1>. QED  BY <1>2, <1>3

\* The sizes z of the nodes in the order q, and the places f of their ends; ix
\* finds the node that begins at a place.
SizesInOrder(H, q) == [j \in 1 .. Len(H) |-> getSizeOfFile(H[q[j]])]
PlacesTo(f, i) == {f[j - 1] : j \in 1 .. i}
Placed(H, q, f, ix, n) ==
  /\ f \in SumsOf(SizesInOrder(H, q))
  /\ \A j \in 1 .. n : ix[f[j - 1]] = j
  /\ \A i, j \in 0 .. n : i < j => f[i] < f[j]

LEMMA PlacesExist ==
    ASSUME NEW U, NEW V, NEW p, NEW h, NEW l, NEW H, NEW in, NEW top,
           Tree(H, U, V, p, h, l, in, top), NEW q \in [1 .. Len(H) -> 1 .. Len(H)]
    PROVE  \E f, ix : Placed(H, q, f, ix, Len(H))
<1>1. PICK n, z : n = Len(H) /\ z = SizesInOrder(H, q)
  OBVIOUS
<1>2. n \in Nat
  <2>1. H \in Seq(Nodes)
    BY DEF Tree
  <2>. QED  BY <1>1, <2>1
<1>3. \A j \in 1 .. n : z[j] = getSizeOfFile(H[q[j]]) /\ z[j] \in Nat /\ z[j] > 0
  <2>1. \A j \in 1 .. n : q[j] \in 1 .. Len(H)
    BY <1>1
  <2>2. \A j \in 1 .. n : getSizeOfFile(H[q[j]]) \in Nat /\ getSizeOfFile(H[q[j]]) > 0
    BY <2>1, SizeOfNode
  <2>. QED  BY <1>1, <2>2 DEF SizesInOrder
<1>4. z \in Seq(Nat) /\ Len(z) = n
  <2>1. z \in [1 .. n -> Nat]
    <3>1. z = [j \in 1 .. n |-> getSizeOfFile(H[q[j]])]
      BY <1>1 DEF SizesInOrder
    <3>2. z = [j \in 1 .. n |-> z[j]]
      BY <3>1
    <3>. QED  BY <1>3, <3>2
  <2>. QED  BY <1>2, <2>1
<1>5. PICK f : f \in SumsOf(z)
  BY <1>4, SumsExist
<1>6. \A i, j \in 0 .. n : i < j => f[i] < f[j] /\ f[i] \in Nat /\ f[j] \in Nat
  BY <1>3, <1>4, <1>5, SumsAscend
<1>7. f \in [0 .. n -> Nat]
  BY <1>4, <1>5 DEF SumsOf
<1> DEFINE ix == [at \in PlacesTo(f, n) |-> CHOOSE j \in 1 .. n : f[j - 1] = at]
<1>8. ASSUME NEW j \in 1 .. n PROVE ix[f[j - 1]] = j
  <2>1. f[j - 1] \in PlacesTo(f, n)
    BY DEF PlacesTo
  <2>2. PICK i : i = ix[f[j - 1]]
    OBVIOUS
  <2>3. i \in 1 .. n /\ f[i - 1] = f[j - 1]
    BY <2>1, <2>2
  <2>4. i - 1 \in 0 .. n /\ j - 1 \in 0 .. n
    BY <1>2, <2>3
  <2>5. ~(i - 1 < j - 1) /\ ~(j - 1 < i - 1)
    <3>1. f[j - 1] \in Nat
      BY <1>7, <2>4
    <3>. QED  BY <1>6, <2>3, <2>4, <3>1
  <2>6. i = j
    BY <1>2, <2>3, <2>4, <2>5
  <2>. QED  BY <2>2, <2>6
<1>9. Placed(H, q, f, ix, n)
  <2> HIDE DEF ix
  <2>. QED  BY <1>1, <1>5, <1>6, <1>8 DEF Placed
<1>. QED  BY <1>1, <1>9

-----------------------------------------------------------------------------
(* Writing: what each turn leaves.                                         *)

Written(H, q, c, f, j) ==
  IF H[q[j]].leaf THEN H[q[j]]
  ELSE [H[q[j]] EXCEPT !.ptr = [k \in DOMAIN Kids(H)[q[j]] |-> f[c[j] + k - 1]]]
FileOf(H, q, c, f, ix, i) == [at \in PlacesTo(f, i) |-> Written(H, q, c, f, ix[at])]
Waiting(q, c, i) == [x \in 1 .. c[i + 1] - i |-> q[i + x]]
WriteState(H, q, c, f, ix, i) ==
  [BQ |-> Waiting(q, c, i), pos |-> f[c[i + 1]], length |-> f[i], tree |-> FileOf(H, q, c, f, ix, i)]

FirstState(H, top) == [BQ |-> <<top>>, pos |-> getSizeOfFile(H[top]), length |-> 0, tree |-> <<>>]
WriteTurn(heap, w) ==
  LET cur == heap[Head(w.BQ)]
      children == IF cur.leaf THEN <<>> ELSE cur.ptr
      size == [j \in DOMAIN children |-> getSizeOfFile(heap[children[j]])]
      offset == [j \in DOMAIN children |-> w.pos + SumOf(SubSeq(size, 1, j - 1))]
  IN [BQ |-> Queued(Tail(w.BQ), children), pos |-> w.pos + SumOf(size),
      length |-> w.length + getSizeOfFile(cur),
      tree |-> Put(w.length, IF cur.leaf THEN cur ELSE [cur EXCEPT !.ptr = offset], w.tree)]

Joined(w, u, s, m, t) ==
  /\ w \in Seq(Nat) /\ Len(w) = m + t
  /\ \A x \in 1 .. m : w[x] = u[x]
  /\ \A k \in 1 .. t : w[m + k] = s[k]
LEMMA JoinedPlaces ==
    ASSUME NEW u \in Seq(Nat), NEW s \in Seq(Nat), NEW m, NEW t, Len(u) = m, Len(s) = t
    PROVE  Joined(u \o s, u, s, m, t)
BY DEF Joined

\* The queue after a turn.
TurnNeeds(q, s, i, m, t) ==
  /\ \A x \in 1 .. (m + 1) + t : q[i + x] \in Nat
  /\ \A k \in 1 .. t : s[k] = q[i + (m + 1) + k]
TurnGives(q, s, i, m, t) ==
  /\ Head([x \in 1 .. m + 1 |-> q[i + x]]) = q[i + 1]
  /\ Tail([x \in 1 .. m + 1 |-> q[i + x]]) \o s = [x \in 1 .. m + t |-> q[(i + 1) + x]]
LEMMA QueueTurn ==
    ASSUME NEW m \in Nat, NEW t \in Nat, NEW i \in Nat, NEW q, NEW s \in Seq(Nat), Len(s) = t,
           TurnNeeds(q, s, i, m, t)
    PROVE  TurnGives(q, s, i, m, t)
<1>1. PICK b : b = [x \in 1 .. m + 1 |-> q[i + x]]
  OBVIOUS
<1>2. b \in Seq(Nat) /\ Len(b) = m + 1 /\ \A x \in 1 .. m + 1 : b[x] = q[i + x]
  <2>1. \A x \in 1 .. m + 1 : q[i + x] \in Nat
    <3>1. \A x \in 1 .. m + 1 : x \in 1 .. (m + 1) + t
      OBVIOUS
    <3>. QED  BY <3>1 DEF TurnNeeds
  <2>2. b \in [1 .. m + 1 -> Nat]
    BY <1>1, <2>1
  <2>3. PICK M : M = m + 1 /\ M \in Nat
    OBVIOUS
  <2>4. b \in [1 .. M -> Nat] /\ \A x \in 1 .. M : b[x] = q[i + x]
    BY <1>1, <2>2, <2>3
  <2>5. b \in Seq(Nat) /\ Len(b) = M
    BY <2>3, <2>4
  <2>. QED  BY <2>3, <2>4, <2>5
<1>3. Head(b) = q[i + 1]
  <2>1. Head(b) = b[1] /\ 1 \in 1 .. m + 1
    BY <1>2
  <2>. QED  BY <1>2, <2>1
<1>4. Tail(b) \in Seq(Nat) /\ Len(Tail(b)) = m /\ \A x \in 1 .. m : Tail(b)[x] = b[x + 1]
  BY <1>2
<1>5. PICK u, w : u = Tail(b) /\ w = u \o s
  OBVIOUS
<1>6. /\ w \in Seq(Nat) /\ Len(w) = m + t
      /\ \A x \in 1 .. m : w[x] = Tail(b)[x]
      /\ \A k \in 1 .. t : w[m + k] = s[k]
  <2>1. u \in Seq(Nat) /\ Len(u) = m /\ s \in Seq(Nat) /\ Len(s) = t
    BY <1>4, <1>5
  <2>2. Joined(w, u, s, m, t)
    BY <1>5, <2>1, JoinedPlaces, Zenon
  <2>. QED  BY <1>5, <2>2, Zenon DEF Joined
<1>7. ASSUME NEW x \in 1 .. m + t PROVE w[x] = q[(i + 1) + x]
  <2>1. CASE x <= m
    <3>1. x \in 1 .. m /\ x + 1 \in 1 .. m + 1 /\ i + (x + 1) = (i + 1) + x
      BY <2>1
    <3>. QED  BY <1>2, <1>4, <1>6, <3>1
  <2>2. CASE ~(x <= m)
    <3>1. PICK k : k = x - m
      OBVIOUS
    <3>2. k \in 1 .. t /\ x = m + k /\ i + (m + 1) + k = (i + 1) + x
      BY <2>2, <3>1
    <3>3. s[k] = q[i + (m + 1) + k]
      BY <3>2 DEF TurnNeeds
    <3>4. w[x] = s[k]
      BY <1>6, <3>2
    <3>. QED  BY <3>2, <3>3, <3>4, Zenon
  <2>. QED  BY <2>1, <2>2
<1>8. w = [x \in 1 .. m + t |-> w[x]]
  BY <1>6
<1>9. w = [x \in 1 .. m + t |-> q[(i + 1) + x]]
  BY <1>7, <1>8, Zenon
<1>. QED  BY <1>1, <1>3, <1>5, <1>9, Zenon DEF TurnGives

\* A file with one more node.
LEMMA PutNode ==
    ASSUME NEW H, NEW q, NEW c, NEW f, NEW ix, NEW n \in Nat, Placed(H, q, f, ix, n),
           NEW i \in 0 .. n - 1, NEW e, e = Written(H, q, c, f, i + 1)
    PROVE  Put(f[i], e, FileOf(H, q, c, f, ix, i)) = FileOf(H, q, c, f, ix, i + 1)
<1>1. PICK S, T, g : S = PlacesTo(f, i) /\ T = PlacesTo(f, i + 1) /\ g = FileOf(H, q, c, f, ix, i)
  OBVIOUS
<1>2. i + 1 \in 1 .. n /\ (i + 1) - 1 = i /\ i \in Nat
  OBVIOUS
<1>3. ix[f[i]] = i + 1
  BY <1>2 DEF Placed
<1>4. T = S \cup {f[i]}
  <2>1. ASSUME NEW x \in T PROVE x \in S \cup {f[i]}
    <3>1. PICK j \in 1 .. i + 1 : x = f[j - 1]
      BY <1>1, <2>1 DEF PlacesTo
    <3>2. j \in 1 .. i \/ j = i + 1
      BY <1>2
    <3>. QED  BY <1>1, <1>2, <3>1, <3>2 DEF PlacesTo
  <2>2. S \subseteq T
    <3>1. \A j \in 1 .. i : j \in 1 .. i + 1
      BY <1>2
    <3>. QED  BY <1>1, <3>1 DEF PlacesTo
  <2>3. f[i] \in T
    <3>1. i + 1 \in 1 .. i + 1
      BY <1>2
    <3>. QED  BY <1>1, <1>2, <3>1 DEF PlacesTo
  <2>. QED  BY <2>1, <2>2, <2>3
<1>5. DOMAIN g = S /\ \A x \in S : g[x] = Written(H, q, c, f, ix[x])
  BY <1>1 DEF FileOf
<1>6. Put(f[i], e, g) = [x \in T |-> IF x = f[i] THEN e ELSE g[x]]
  BY <1>4, <1>5 DEF Put
<1>7. \A x \in T : (IF x = f[i] THEN e ELSE g[x]) = Written(H, q, c, f, ix[x])
  BY <1>3, <1>4, <1>5
<1>8. [x \in T |-> IF x = f[i] THEN e ELSE g[x]] = [x \in T |-> Written(H, q, c, f, ix[x])]
  BY <1>7, Zenon
<1>. QED  BY <1>1, <1>6, <1>8 DEF FileOf

LEMMA FirstStateIs ==
    ASSUME NEW H, NEW n, n = Len(H), n \in Nat, NEW top, NEW K, NEW q, NEW c, FileOrder(q, c, K, n, top),
           NEW f, NEW ix, Placed(H, q, f, ix, n), NEW z, z = getSizeOfFile(H[top]), z \in Nat
    PROVE  WriteState(H, q, c, f, ix, 0) = FirstState(H, top)
<1>1. c[1] = 1 /\ q[1] = top /\ 1 \in 1 .. n
  <2>1. c \in [1 .. n + 1 -> 1 .. n] /\ c[1] = 1
    BY DEF FileOrder
  <2>2. 1 \in 1 .. n + 1
    OBVIOUS
  <2>. QED  BY <2>1, <2>2 DEF FileOrder
<1>2. f[0] = 0 /\ f[1] = z
  <2>1. PICK s : s = SizesInOrder(H, q)
    OBVIOUS
  <2>2. s = [j \in 1 .. n |-> getSizeOfFile(H[q[j]])]
    BY <2>1 DEF SizesInOrder
  <2>3. Len(s) = n /\ s[1] = z
    BY <1>1, <2>2
  <2>4. f[0] = 0 /\ \A i \in 1 .. n : f[i] = f[i - 1] + s[i]
    BY <2>1, <2>3 DEF Placed, SumsOf
  <2>5. f[1] = f[1 - 1] + s[1]
    BY <1>1, <2>4
  <2>. QED  BY <2>3, <2>4, <2>5
<1>3. Waiting(q, c, 0) = <<top>>
  <2>1. 0 + 1 = 1 /\ 1 - 0 = 1
    OBVIOUS
  <2>2. Waiting(q, c, 0) = [x \in 1 .. 1 |-> q[0 + x]]
    BY <1>1, <2>1 DEF Waiting
  <2>3. \A x \in 1 .. 1 : q[0 + x] = top
    BY <1>1
  <2>. QED  BY <2>2, <2>3
<1>4. FileOf(H, q, c, f, ix, 0) = <<>>
  <2>1. PlacesTo(f, 0) = {}
    BY DEF PlacesTo
  <2>. QED  BY <2>1 DEF FileOf
<1>5. f[c[0 + 1]] = z
  BY <1>1, <1>2
<1>. QED  BY <1>2, <1>3, <1>4, <1>5 DEF WriteState, FirstState

\* The nodes a node leads to, their sizes and places, as a turn computes them.
NextNodes(cur) == IF cur.leaf THEN <<>> ELSE cur.ptr
SizesOf(heap, s) == [j \in DOMAIN s |-> getSizeOfFile(heap[s[j]])]
OffsetsOf(at, size, s) == [j \in DOMAIN s |-> at + SumOf(SubSeq(size, 1, j - 1))]
WrittenAs(cur, offset) == IF cur.leaf THEN cur ELSE [cur EXCEPT !.ptr = offset]
AfterTurn(heap, w, cur, s, size) ==
  [BQ |-> Tail(w.BQ) \o s, pos |-> w.pos + SumOf(size), length |-> w.length + getSizeOfFile(cur),
   tree |-> Put(w.length, WrittenAs(cur, OffsetsOf(w.pos, size, s)), w.tree)]
LEMMA TurnInParts ==
    ASSUME NEW heap, NEW w, NEW cur, cur = heap[Head(w.BQ)], NEW s, s = NextNodes(cur),
           NEW size, size = SizesOf(heap, s)
    PROVE  WriteTurn(heap, w) = AfterTurn(heap, w, cur, s, size)
BY Zenon DEF WriteTurn, AfterTurn, NextNodes, SizesOf, OffsetsOf, WrittenAs, Queued

\* s are the t nodes that the turn after the first i brings into the queue.
Follows(s, t, q, c, n, i) ==
  /\ c[i + 1] \in Nat /\ i + 1 <= c[i + 1] /\ c[(i + 1) + 1] = c[i + 1] + t /\ c[i + 1] + t <= n
  /\ \A k \in 1 .. t : s[k] = q[c[i + 1] + k]
  /\ \A j \in 1 .. n : q[j] \in 1 .. n
LEMMA ChildrenFollow ==
    ASSUME NEW n \in Nat, NEW K, NEW q, NEW c, NEW top, FileOrder(q, c, K, n, top),
           NEW i \in 0 .. n - 1, NEW t \in Nat, t = Num(K, q[i + 1])
    PROVE  Follows(K[q[i + 1]], t, q, c, n, i)
<1>1. PICK b : b = c[i + 1]
  OBVIOUS
<1>2. i \in Nat /\ i + 1 \in 1 .. n /\ i + 1 \in 1 .. n + 1 /\ (i + 1) + 1 \in 1 .. n + 1
  OBVIOUS
<1>3. b \in Nat /\ i + 1 <= b /\ c[(i + 1) + 1] = b + t /\ b + t <= n
  <2>1. c \in [1 .. n + 1 -> 1 .. n] /\ i + 1 <= c[i + 1] /\ c[(i + 1) + 1] = c[i + 1] + t
    BY <1>2 DEF FileOrder
  <2>2. c[(i + 1) + 1] \in 1 .. n /\ c[i + 1] \in 1 .. n
    BY <1>2, <2>1
  <2>. QED  BY <1>1, <2>1, <2>2
<1>4. \A k \in 1 .. t : K[q[i + 1]][k] = q[b + k]
  <2>1. \A k \in 1 .. t : q[b + k] = Kid(K, q[i + 1], k)
    BY <1>1, <1>2 DEF FileOrder
  <2>. QED  BY <2>1 DEF Kid
<1>5. \A j \in 1 .. n : q[j] \in 1 .. n
  BY DEF FileOrder
<1>. QED  BY <1>1, <1>3, <1>4, <1>5 DEF Follows

LEMMA Rest ==
    ASSUME NEW i \in Nat, NEW b \in Nat, i + 1 <= b, NEW m, m = b - (i + 1)
    PROVE  m \in Nat /\ b = i + (m + 1)
OBVIOUS

LEMMA TurnNeeded ==
    ASSUME NEW n \in Nat, NEW q, NEW c, NEW i \in Nat, NEW t \in Nat, NEW s, Follows(s, t, q, c, n, i)
    PROVE  \E m \in Nat : /\ TurnNeeds(q, s, i, m, t) /\ c[i + 1] - i = m + 1
                          /\ c[(i + 1) + 1] - (i + 1) = m + t
<1>1. PICK b, m : b = c[i + 1] /\ m = b - (i + 1)
  OBVIOUS
<1>2. b \in Nat /\ i + 1 <= b /\ c[(i + 1) + 1] = b + t /\ b + t <= n
  BY <1>1 DEF Follows
<1>3. m \in Nat /\ b = i + (m + 1)
  <2>1. b \in Nat /\ i + 1 <= b
    BY <1>2
  <2>2. m = b - (i + 1)
    BY <1>1
  <2>. QED  BY <2>1, <2>2, Rest
<1>4. \A x \in 1 .. (m + 1) + t : q[i + x] \in Nat
  <2>1. ASSUME NEW x \in 1 .. (m + 1) + t PROVE i + x \in 1 .. n
    BY <1>2, <1>3
  <2>2. \A y \in 1 .. n : q[y] \in Nat
    BY DEF Follows
  <2>. QED  BY <2>1, <2>2
<1>5. \A k \in 1 .. t : s[k] = q[i + (m + 1) + k]
  BY <1>1, <1>3 DEF Follows
<1>6. c[i + 1] - i = m + 1 /\ c[(i + 1) + 1] - (i + 1) = m + t
  BY <1>1, <1>2, <1>3
<1>. QED  BY <1>3, <1>4, <1>5, <1>6 DEF TurnNeeds

LEMMA QueuedNodes ==
    ASSUME NEW n \in Nat, NEW q, NEW c, NEW i \in Nat, NEW t \in Nat,
           NEW s \in Seq(Nat), Len(s) = t, Follows(s, t, q, c, n, i)
    PROVE  /\ Head(Waiting(q, c, i)) = q[i + 1]
           /\ Tail(Waiting(q, c, i)) \o s = Waiting(q, c, i + 1)
<1>1. PICK m \in Nat : /\ TurnNeeds(q, s, i, m, t) /\ c[i + 1] - i = m + 1
                       /\ c[(i + 1) + 1] - (i + 1) = m + t
  BY TurnNeeded
<1>2. TurnGives(q, s, i, m, t)
  BY <1>1, QueueTurn
<1>3. Waiting(q, c, i) = [x \in 1 .. m + 1 |-> q[i + x]]
  BY <1>1, Zenon DEF Waiting
<1>4. Waiting(q, c, i + 1) = [x \in 1 .. m + t |-> q[(i + 1) + x]]
  BY <1>1, Zenon DEF Waiting
<1>. QED  BY <1>2, <1>3, <1>4, Zenon DEF TurnGives

LEMMA SizesQueued ==
    ASSUME NEW n \in Nat, NEW H, n = Len(H), NEW q, NEW c, NEW f, NEW ix, Placed(H, q, f, ix, n),
           \A a \in 1 .. n : getSizeOfFile(H[a]) \in Nat,
           NEW i \in 0 .. n - 1, NEW t \in Nat, NEW s \in Seq(Nat), Len(s) = t, Follows(s, t, q, c, n, i)
    PROVE  SumsOnFrom(f, c[i + 1], SizesOf(H, s)) /\ Len(SizesOf(H, s)) = t
<1>1. PICK b, z, y : b = c[i + 1] /\ z = SizesOf(H, s) /\ y = SizesInOrder(H, q)
  OBVIOUS
<1>2. b \in Nat /\ b + t <= n
  BY <1>1 DEF Follows
<1>3. \A k \in 1 .. t : s[k] = q[b + k]
  BY <1>1 DEF Follows
<1>4. \A j \in 1 .. n : q[j] \in 1 .. n
  BY DEF Follows
<1>5. \A k \in 1 .. t : b + k \in 1 .. n
  BY <1>2
<1>6. z = [k \in 1 .. t |-> getSizeOfFile(H[s[k]])]
  <2>1. DOMAIN s = 1 .. t
    OBVIOUS
  <2>. QED  BY <1>1, <2>1, Zenon DEF SizesOf
<1>7. \A k \in 1 .. t : z[k] = getSizeOfFile(H[s[k]]) /\ z[k] \in Nat
  BY <1>3, <1>4, <1>5, <1>6
<1>8. z \in Seq(Nat) /\ Len(z) = t
  <2>1. z = [k \in 1 .. t |-> z[k]]
    BY <1>6
  <2>2. z \in [1 .. t -> Nat]
    BY <1>7, <2>1
  <2>. QED  BY <2>2
<1>9. y = [j \in 1 .. n |-> getSizeOfFile(H[q[j]])]
  BY <1>1, Zenon DEF SizesInOrder
<1>10. \A j \in 1 .. n : y[j] = getSizeOfFile(H[q[j]]) /\ y[j] \in Nat
  BY <1>4, <1>9
<1>11. y \in Seq(Nat) /\ Len(y) = n
  <2>1. y = [j \in 1 .. n |-> y[j]]
    BY <1>9
  <2>2. y \in [1 .. n -> Nat]
    BY <1>10, <2>1
  <2>. QED  BY <2>2
<1>12. \A k \in 1 .. t : z[k] = y[b + k]
  BY <1>3, <1>5, <1>7, <1>10
<1>13. f \in SumsOf(y)
  BY <1>1 DEF Placed
<1>14. SumsOnFrom(f, b, z)
  <2>1. b + Len(z) <= Len(y)
    BY <1>2, <1>8, <1>11
  <2>2. \A k \in 1 .. Len(z) : z[k] = y[b + k]
    BY <1>8, <1>12
  <2>. QED  BY <1>2, <1>8, <1>11, <1>13, <2>1, <2>2, SumsOn
<1>. QED  BY <1>1, <1>8, <1>14

\* The children of the node whose turn comes.
LEMMA TurnOf ==
    ASSUME NEW V, NEW p, NEW h, NEW l, NEW H, NEW in, NEW top,
           Tree(H, 1 .. Len(H) \ {top}, V, p, h, l, in, top),
           NEW q, NEW c, FileOrder(q, c, Kids(H), Len(H), top), NEW i \in 0 .. Len(H) - 1
    PROVE  \E s \in Seq(Nat) : /\ s = Kids(H)[q[i + 1]] /\ s = NextNodes(H[q[i + 1]])
                               /\ Follows(s, Len(s), q, c, Len(H), i)
<1>1. PICK n, K, a : n = Len(H) /\ K = Kids(H) /\ a = q[i + 1]
  OBVIOUS
<1>2. Family(K, n, p, l, top)
  BY <1>1, TreeFamily
<1>3. n \in Nat /\ \A u \in 1 .. n : K[u] \in Seq(Nat)
  BY <1>2 DEF Family
<1>4. a \in 1 .. n
  <2>1. i + 1 \in 1 .. n
    BY <1>1, <1>3
  <2>. QED  BY <1>1, <2>1 DEF FileOrder
<1>5. K[a] \in Seq(Nat)
  BY <1>3, <1>4
<1>6. PICK s \in Seq(Nat) : s = K[a]
  BY <1>5
<1>7. PICK t \in Nat : t = Len(s)
  OBVIOUS
<1>8. t = Num(K, q[i + 1])
  BY <1>1, <1>6, <1>7 DEF Num
<1>9. i \in 0 .. n - 1 /\ FileOrder(q, c, K, n, top)
  BY <1>1
<1>10. Follows(K[q[i + 1]], t, q, c, n, i)
  BY <1>3, <1>8, <1>9, ChildrenFollow
<1>11. s = NextNodes(H[a])
  BY <1>1, <1>4, <1>6 DEF Kids, NextNodes
<1>. QED  BY <1>1, <1>6, <1>7, <1>10, <1>11

LEMMA EndOfNode ==
    ASSUME NEW n \in Nat, NEW H, n = Len(H), NEW q, NEW f, NEW ix, Placed(H, q, f, ix, n),
           NEW i \in 0 .. n - 1
    PROVE  f[i] + getSizeOfFile(H[q[i + 1]]) = f[i + 1]
<1>1. PICK z : z = SizesInOrder(H, q)
  OBVIOUS
<1>2. z = [j \in 1 .. n |-> getSizeOfFile(H[q[j]])]
  BY <1>1, Zenon DEF SizesInOrder
<1>3. Len(z) = n /\ i + 1 \in 1 .. n /\ (i + 1) - 1 = i
  BY <1>2
<1>4. f[i + 1] = f[i] + z[i + 1]
  BY <1>1, <1>3 DEF Placed, SumsOf
<1>. QED  BY <1>2, <1>3, <1>4

\* A turn leads from one state to the next.
LEMMA NextState ==
    ASSUME NEW V, NEW p, NEW h, NEW l, NEW H, NEW in, NEW top,
           Tree(H, 1 .. Len(H) \ {top}, V, p, h, l, in, top),
           NEW q, NEW c, FileOrder(q, c, Kids(H), Len(H), top),
           NEW f, NEW ix, Placed(H, q, f, ix, Len(H)), NEW i \in 0 .. Len(H) - 1
    PROVE  WriteTurn(H, WriteState(H, q, c, f, ix, i)) = WriteState(H, q, c, f, ix, i + 1)
<1>1. PICK n : n = Len(H)
  OBVIOUS
<1>2. n \in Nat /\ i \in Nat
  <2>1. H \in Seq(Nodes)
    BY DEF Tree
  <2>2. n \in Nat
    BY <1>1, <2>1
  <2>. QED  BY <1>1, <2>2
<1>3. PICK s \in Seq(Nat) : /\ s = Kids(H)[q[i + 1]] /\ s = NextNodes(H[q[i + 1]])
                            /\ Follows(s, Len(s), q, c, Len(H), i)
  BY TurnOf
<1>4. PICK t \in Nat : t = Len(s)
  OBVIOUS
<1>5. Follows(s, t, q, c, n, i)
  BY <1>1, <1>3, <1>4, Zenon
<1>6. PICK cur, b, size, w : /\ cur = H[q[i + 1]] /\ b = c[i + 1] /\ size = SizesOf(H, s)
                             /\ w = WriteState(H, q, c, f, ix, i)
  OBVIOUS
<1>7. w.BQ = Waiting(q, c, i) /\ w.pos = f[b] /\ w.length = f[i] /\ w.tree = FileOf(H, q, c, f, ix, i)
  BY <1>6 DEF WriteState
<1>8. Head(Waiting(q, c, i)) = q[i + 1] /\ Tail(Waiting(q, c, i)) \o s = Waiting(q, c, i + 1)
  BY <1>2, <1>4, <1>5, QueuedNodes
<1>9. WriteTurn(H, w) = AfterTurn(H, w, cur, s, size)
  <2>1. cur = H[Head(w.BQ)]
    BY <1>6, <1>7, <1>8, Zenon
  <2>2. s = NextNodes(cur)
    BY <1>3, <1>6, Zenon
  <2>. QED  BY <1>6, <2>1, <2>2, TurnInParts, Zenon
<1>10. SumsOnFrom(f, b, size) /\ Len(size) = t
  <2>1. \A a \in 1 .. n : getSizeOfFile(H[a]) \in Nat
    BY <1>1, SizeOfNode
  <2>2. i \in 0 .. n - 1 /\ Placed(H, q, f, ix, n)
    BY <1>1
  <2>. QED  BY <1>1, <1>2, <1>4, <1>5, <1>6, <2>1, <2>2, SizesQueued
<1>11. c[(i + 1) + 1] = b + t
  BY <1>5, <1>6 DEF Follows
<1>12. w.pos + SumOf(size) = f[c[(i + 1) + 1]]
  BY <1>7, <1>10, <1>11, Zenon DEF SumsOnFrom
<1>13. OffsetsOf(f[b], size, s) = [k \in DOMAIN s |-> f[b + k - 1]]
  <2>1. \A k \in 1 .. t : f[b] + SumOf(SubSeq(size, 1, k - 1)) = f[b + k - 1]
    BY <1>10, Zenon DEF SumsOnFrom
  <2>2. DOMAIN s = 1 .. t
    BY <1>4
  <2>. QED  BY <2>1, <2>2, Zenon DEF OffsetsOf
<1>14. WrittenAs(cur, OffsetsOf(w.pos, size, s)) = Written(H, q, c, f, i + 1)
  BY <1>3, <1>6, <1>7, <1>13, Zenon DEF WrittenAs, Written
<1>15. Put(w.length, WrittenAs(cur, OffsetsOf(w.pos, size, s)), w.tree) = FileOf(H, q, c, f, ix, i + 1)
  <2>1. i \in 0 .. n - 1 /\ Placed(H, q, f, ix, n)
    BY <1>1
  <2>2. Put(f[i], WrittenAs(cur, OffsetsOf(w.pos, size, s)), FileOf(H, q, c, f, ix, i)) = FileOf(H, q, c, f, ix, i + 1)
    BY <1>2, <1>14, <2>1, PutNode
  <2>. QED  BY <1>7, <2>2, Zenon
<1>16. w.length + getSizeOfFile(cur) = f[i + 1]
  <2>1. i \in 0 .. n - 1 /\ Placed(H, q, f, ix, n)
    BY <1>1
  <2>2. f[i] + getSizeOfFile(H[q[i + 1]]) = f[i + 1]
    BY <1>1, <1>2, <2>1, EndOfNode
  <2>. QED  BY <1>6, <1>7, <2>2, Zenon
<1>17. Tail(w.BQ) \o s = Waiting(q, c, i + 1)
  BY <1>7, <1>8, Zenon
<1>18. AfterTurn(H, w, cur, s, size) = WriteState(H, q, c, f, ix, i + 1)
  BY <1>12, <1>15, <1>16, <1>17, Zenon DEF AfterTurn, WriteState
<1>. QED  BY <1>6, <1>9, <1>18, Zenon

\* The states of writeTree.
IsWrite(W, heap, top) ==
  W = [i \in 0 .. Len(heap) |->
        IF i = 0
        THEN [BQ |-> <<top>>, pos |-> getSizeOfFile(heap[top]), length |-> 0, tree |-> <<>>]
        ELSE LET w == W[i - 1]
                 cur == heap[Head(w.BQ)]
                 children == IF cur.leaf THEN <<>> ELSE cur.ptr
                 size == [j \in DOMAIN children |-> getSizeOfFile(heap[children[j]])]
                 offset == [j \in DOMAIN children |-> w.pos + SumOf(SubSeq(size, 1, j - 1))]
             IN [BQ |-> Queued(Tail(w.BQ), children), pos |-> w.pos + SumOf(size),
                 length |-> w.length + getSizeOfFile(cur),
                 tree |-> Put(w.length, IF cur.leaf THEN cur ELSE [cur EXCEPT !.ptr = offset],
                              w.tree)]]
LEMMA WriteChosen ==
    ASSUME NEW heap, NEW top
    PROVE  \E W : W = (CHOOSE g : IsWrite(g, heap, top)) /\ writeTree(heap, top) = W[Len(heap)].tree
BY Zenon DEF writeTree, IsWrite

LEMMA IsWriteTurns ==
    ASSUME NEW heap, NEW top, NEW W
    PROVE  IsWrite(W, heap, top) <=>
             W = [i \in 0 .. Len(heap) |-> IF i = 0 THEN FirstState(heap, top) ELSE WriteTurn(heap, W[i - 1])]
BY Zenon DEF IsWrite, FirstState, WriteTurn

\* The file that writeTree leaves.
LEMMA FileWritten ==
    ASSUME NEW V, NEW p, NEW h, NEW l, NEW H, NEW in, NEW top,
           Tree(H, 1 .. Len(H) \ {top}, V, p, h, l, in, top),
           NEW q, NEW c, FileOrder(q, c, Kids(H), Len(H), top),
           NEW f, NEW ix, Placed(H, q, f, ix, Len(H))
    PROVE  writeTree(H, top) = FileOf(H, q, c, f, ix, Len(H))
<1>1. PICK n, S : n = Len(H) /\ S = [i \in 0 .. n |-> WriteState(H, q, c, f, ix, i)]
  OBVIOUS
<1>2. n \in Nat /\ top \in 1 .. n
  <2>1. H \in Seq(Nodes) /\ top \in 1 .. Len(H)
    BY DEF Tree, Levels
  <2>2. n \in Nat
    BY <1>1, <2>1
  <2>. QED  BY <1>1, <2>1, <2>2
<1>3. S[0] = FirstState(H, top)
  <2>1. S[0] = WriteState(H, q, c, f, ix, 0)
    BY <1>1, <1>2
  <2>2. PICK z : z = getSizeOfFile(H[top]) /\ z \in Nat
    BY <1>1, <1>2, SizeOfNode
  <2>3. PICK K : K = Kids(H) /\ FileOrder(q, c, K, n, top) /\ Placed(H, q, f, ix, n)
    BY <1>1
  <2>4. WriteState(H, q, c, f, ix, 0) = FirstState(H, top)
    BY <1>1, <1>2, <2>2, <2>3, FirstStateIs
  <2>. QED  BY <2>1, <2>4
<1>4. \A i \in 0 .. n - 1 : S[i + 1] = WriteTurn(H, S[i])
  <2> TAKE i \in 0 .. n - 1
  <2>1. i \in 0 .. n /\ i + 1 \in 0 .. n /\ i \in 0 .. Len(H) - 1
    BY <1>1, <1>2
  <2>2. S[i] = WriteState(H, q, c, f, ix, i) /\ S[i + 1] = WriteState(H, q, c, f, ix, i + 1)
    BY <1>1, <2>1
  <2>3. WriteTurn(H, WriteState(H, q, c, f, ix, i)) = WriteState(H, q, c, f, ix, i + 1)
    BY <2>1, NextState
  <2>. QED  BY <2>2, <2>3, Zenon
<1>5. IsWrite(S, H, top)
  <2>1. ASSUME NEW i \in 0 .. n
        PROVE  S[i] = IF i = 0 THEN FirstState(H, top) ELSE WriteTurn(H, S[i - 1])
    <3>1. CASE i = 0
      BY <1>3, <3>1
    <3>2. CASE i # 0
      <4>1. i - 1 \in 0 .. n - 1 /\ (i - 1) + 1 = i
        BY <1>2, <3>2
      <4>2. S[(i - 1) + 1] = WriteTurn(H, S[i - 1])
        BY <1>4, <4>1
      <4>. QED  BY <3>2, <4>1, <4>2
    <3>. QED  BY <3>1, <3>2
  <2>2. S = [i \in 0 .. n |-> S[i]]
    BY <1>1
  <2>3. S = [i \in 0 .. n |-> IF i = 0 THEN FirstState(H, top) ELSE WriteTurn(H, S[i - 1])]
    BY <2>1, <2>2, Zenon
  <2>. QED  BY <1>1, <2>3, IsWriteTurns, Zenon
<1>6. PICK W : W = (CHOOSE g : IsWrite(g, H, top)) /\ writeTree(H, top) = W[Len(H)].tree
  BY WriteChosen
<1>7. IsWrite(W, H, top)
  BY <1>5, <1>6, Zenon
<1>8. W = [i \in 0 .. n |-> IF i = 0 THEN FirstState(H, top) ELSE WriteTurn(H, W[i - 1])]
  BY <1>1, <1>7, IsWriteTurns, Zenon
<1> DEFINE R == {i \in 0 .. n : W[i] = S[i]}
<1>9. 0 \in R
  BY <1>2, <1>3, <1>8
<1>10. ASSUME NEW i \in 0 .. n - 1, i \in R PROVE i + 1 \in R
  <2>1. i + 1 \in 0 .. n /\ i + 1 # 0 /\ (i + 1) - 1 = i
    BY <1>2
  <2>2. W[i + 1] = WriteTurn(H, W[i])
    BY <1>8, <2>1
  <2>3. S[i + 1] = WriteTurn(H, S[i])
    BY <1>4
  <2>4. W[i] = S[i]
    BY <1>10
  <2>. QED  BY <2>1, <2>2, <2>3, <2>4
<1>11. n \in R
  <2> HIDE DEF R
  <2>1. 0 .. n \subseteq R
    BY <1>2, <1>9, <1>10, Climb
  <2>. QED  BY <1>2, <2>1
<1>12. W[n].tree = FileOf(H, q, c, f, ix, n)
  <2>1. W[n] = WriteState(H, q, c, f, ix, n)
    BY <1>1, <1>2, <1>11
  <2>. QED  BY <2>1 DEF WriteState
<1>. QED  BY <1>1, <1>6, <1>12

-----------------------------------------------------------------------------
(* The nodes in the file.                                                  *)

\* A node with other children.
WithPtr(n, o) == [n EXCEPT !.ptr = o]

LEMMA WithPtrIs ==
    ASSUME NEW s, NEW t, NEW o
    PROVE  WithPtr(Internal(s, t), o) = Internal(s, o)
<1>1. PICK no : no = FALSE
  OBVIOUS
<1>2. \A x, y : Internal(x, y) = [leaf |-> no, keys |-> x, ptr |-> y]
  BY <1>1 DEF Internal
<1>3. [[leaf |-> no, keys |-> s, ptr |-> t] EXCEPT !.ptr = o] = [leaf |-> no, keys |-> s, ptr |-> o]
  OBVIOUS
<1>. QED  BY <1>2, <1>3, Zenon DEF WithPtr

LEMMA WriteThenRead ==
    ASSUME NEW n, NEW L, NEW C, GoodInner(n, L, C), NEW o
    PROVE  /\ ~WithPtr(n, o).leaf /\ WithPtr(n, o).keys = n.keys /\ WithPtr(n, o).ptr = o
           /\ \A u : WithPtr(WithPtr(n, o), u) = WithPtr(n, u)
<1>1. PICK s, t : n = Internal(s, t)
  BY DEF GoodInner, InnerOf
<1>2. \A u : WithPtr(n, u) = Internal(s, u) /\ WithPtr(Internal(s, o), u) = Internal(s, u)
  BY <1>1, WithPtrIs, Zenon
<1>3. n.keys = s /\ Internal(s, o).keys = s /\ ~Internal(s, o).leaf /\ Internal(s, o).ptr = o
  BY <1>1, NodeFields
<1>. QED  BY <1>2, <1>3, Zenon

LEMMA ChildrenCounted ==
    ASSUME NEW V, NEW p, NEW h, NEW l, NEW H, NEW in, NEW top,
           Tree(H, 1 .. Len(H) \ {top}, V, p, h, l, in, top), NEW a \in 1 .. Len(H)
    PROVE  /\ H[a].leaf => Num(Kids(H), a) = 0
           /\ ~H[a].leaf => \E L \in Nat : /\ Num(Kids(H), a) = L /\ GoodInner(H[a], L, Of(p, a))
                                           /\ DOMAIN H[a].keys = 1 .. L /\ Len(H[a].keys) = L
                                           /\ DOMAIN H[a].ptr = 1 .. L
                                           /\ \A k \in 1 .. L : H[a].ptr[k] = Kid(Kids(H), a, k)
<1>1. PICK K : K = Kids(H)
  OBVIOUS
<1>2. K[a] = IF H[a].leaf THEN <<>> ELSE H[a].ptr
  BY <1>1 DEF Kids
<1>3. ASSUME H[a].leaf PROVE Num(K, a) = 0
  BY <1>2, <1>3 DEF Num
<1>4. ASSUME ~H[a].leaf
      PROVE  \E L \in Nat : /\ Num(K, a) = L /\ GoodInner(H[a], L, Of(p, a))
                            /\ DOMAIN H[a].keys = 1 .. L /\ Len(H[a].keys) = L
                            /\ DOMAIN H[a].ptr = 1 .. L
                            /\ \A k \in 1 .. L : H[a].ptr[k] = Kid(K, a, k)
  <2>1. PICK L \in 1 .. MAX_PER_NODE : GoodInner(H[a], L, Of(p, a))
    BY <1>4, AtNode
  <2>2. PICK s, t : s = H[a].keys /\ t = H[a].ptr
    OBVIOUS
  <2>3. s \in Seq(Nat) /\ Len(s) = L /\ t \in Seq(Nat) /\ Len(t) = L
    BY <2>1, <2>2, InnerFields
  <2>4. DOMAIN s = 1 .. L /\ DOMAIN t = 1 .. L /\ L \in Nat
    <3>1. L \in Nat
      BY BTreeAssumption
    <3>2. DOMAIN s = 1 .. L
      BY <2>3
    <3>3. DOMAIN t = 1 .. L
      BY <2>3
    <3>. QED  BY <3>1, <3>2, <3>3
  <2>5. K[a] = t
    BY <1>2, <1>4, <2>2
  <2>6. Num(K, a) = L /\ \A k \in 1 .. L : t[k] = Kid(K, a, k)
    BY <2>3, <2>5, Zenon DEF Num, Kid
  <2>. QED  BY <2>1, <2>2, <2>3, <2>4, <2>6, Zenon
<1>. QED  BY <1>1, <1>3, <1>4, Zenon

IsWritten(w, n, c, f, j, kids) ==
  /\ n.leaf => w = n
  /\ ~n.leaf => ~w.leaf /\ w.keys = n.keys /\ w.ptr = [k \in DOMAIN kids |-> f[c[j] + k - 1]]
  /\ getSizeOfFile(w) = getSizeOfFile(n)
LEMMA WrittenAlike ==
    ASSUME NEW U, NEW V, NEW p, NEW h, NEW l, NEW H, NEW in, NEW top,
           Tree(H, U, V, p, h, l, in, top), NEW q, NEW j, NEW a \in 1 .. Len(H), a = q[j], NEW c, NEW f
    PROVE  IsWritten(Written(H, q, c, f, j), H[a], c, f, j, Kids(H)[a])
<1>. PICK n, w : n = H[a] /\ w = Written(H, q, c, f, j)
  OBVIOUS
<1>1. CASE n.leaf
  <2>1. w = n
    BY <1>1 DEF Written
  <2>. QED  BY <1>1, <2>1 DEF IsWritten
<1>2. CASE ~n.leaf
  <2>1. PICK L \in 1 .. MAX_PER_NODE : GoodInner(n, L, Of(p, a))
    BY <1>2, AtNode
  <2>2. PICK o : o = [k \in DOMAIN Kids(H)[a] |-> f[c[j] + k - 1]]
    OBVIOUS
  <2>3. w = WithPtr(n, o)
    BY <1>2, <2>2 DEF Written, WithPtr
  <2>4. ~w.leaf /\ w.keys = n.keys /\ w.ptr = o
    BY <2>1, <2>3, WriteThenRead
  <2>5. getSizeOfFile(w) = getSizeOfFile(n)
    BY <1>2, <2>4 DEF getSizeOfFile
  <2>. QED  BY <1>2, <2>2, <2>4, <2>5 DEF IsWritten
<1>. QED  BY <1>1, <1>2

FileFacts(tree, H, q, c, f, n) ==
  /\ n \in Nat \ {0} /\ f \in [0 .. n -> Nat] /\ f[0] = 0 /\ DOMAIN tree = PlacesTo(f, n)
  /\ \A j \in 1 .. n : /\ f[j - 1] \in DOMAIN tree /\ tree[f[j - 1]] = Written(H, q, c, f, j)
                       /\ getSizeOfFile(tree[f[j - 1]]) \in Nat /\ getSizeOfFile(tree[f[j - 1]]) > 0
                       /\ f[j - 1] + getSizeOfFile(tree[f[j - 1]]) = f[j]
  /\ f[n] \notin DOMAIN tree /\ DOMAIN tree \in SUBSET (0 .. f[n])
  /\ \A i, j \in 0 .. n : f[i] = f[j] => i = j
LEMMA FactsOfFile ==
    ASSUME NEW U, NEW V, NEW p, NEW h, NEW l, NEW H, NEW in, NEW top,
           Tree(H, U, V, p, h, l, in, top), NEW n, n = Len(H), NEW q \in [1 .. n -> 1 .. n],
           NEW f, NEW ix, Placed(H, q, f, ix, n), NEW c, NEW tree, tree = FileOf(H, q, c, f, ix, n)
    PROVE  FileFacts(tree, H, q, c, f, n)
<1>1. n \in Nat \ {0}
  <2>1. H \in Seq(Nodes) /\ top \in 1 .. Len(H)
    BY DEF Tree, Levels
  <2>2. n \in Nat
    BY <2>1
  <2>. QED  BY <2>1, <2>2
<1>2. f \in [0 .. n -> Nat] /\ f[0] = 0
  <2>1. f \in SumsOf(SizesInOrder(H, q))
    BY DEF Placed
  <2>2. PICK z : z = SizesInOrder(H, q)
    OBVIOUS
  <2>3. z = [j \in 1 .. n |-> getSizeOfFile(H[q[j]])]
    BY <2>2, Zenon DEF SizesInOrder
  <2>4. Len(z) = n
    BY <1>1, <2>3
  <2>. QED  BY <2>1, <2>2, <2>4 DEF SumsOf
<1>3. (\A j \in 1 .. n : ix[f[j - 1]] = j) /\ \A i, j \in 0 .. n : i < j => f[i] < f[j]
  BY DEF Placed
<1>4. DOMAIN tree = PlacesTo(f, n) /\ \A x \in DOMAIN tree : tree[x] = Written(H, q, c, f, ix[x])
  BY DEF FileOf
<1>5. \A x : x \in DOMAIN tree <=> \E j \in 1 .. n : x = f[j - 1]
  BY <1>4 DEF PlacesTo
<1>6. ASSUME NEW j \in 1 .. n
      PROVE  /\ f[j - 1] \in DOMAIN tree /\ tree[f[j - 1]] = Written(H, q, c, f, j)
             /\ getSizeOfFile(tree[f[j - 1]]) \in Nat /\ getSizeOfFile(tree[f[j - 1]]) > 0
             /\ f[j - 1] + getSizeOfFile(tree[f[j - 1]]) = f[j]
  <2>1. f[j - 1] \in DOMAIN tree /\ tree[f[j - 1]] = Written(H, q, c, f, j)
    BY <1>3, <1>4, <1>5
  <2>2. q[j] \in 1 .. Len(H)
    OBVIOUS
  <2>3. getSizeOfFile(Written(H, q, c, f, j)) = getSizeOfFile(H[q[j]])
    <3>1. PICK a : a = q[j]
      OBVIOUS
    <3>2. IsWritten(Written(H, q, c, f, j), H[a], c, f, j, Kids(H)[a])
      BY <2>2, <3>1, WrittenAlike
    <3>. QED  BY <3>1, <3>2 DEF IsWritten
  <2>4. getSizeOfFile(H[q[j]]) \in Nat /\ getSizeOfFile(H[q[j]]) > 0
    BY <2>2, SizeOfNode
  <2>5. f[j - 1] + getSizeOfFile(H[q[j]]) = f[j]
    <3>1. PICK i : i = j - 1
      OBVIOUS
    <3>2. i \in 0 .. n - 1 /\ i + 1 = j
      BY <1>1, <3>1
    <3>3. f[i] + getSizeOfFile(H[q[i + 1]]) = f[i + 1]
      BY <1>1, <3>2, EndOfNode
    <3>. QED  BY <3>1, <3>2, <3>3
  <2>. QED  BY <2>1, <2>3, <2>4, <2>5
<1>7. \A i, j \in 0 .. n : f[i] = f[j] => i = j
  <2> SUFFICES ASSUME NEW i \in 0 .. n, NEW j \in 0 .. n, f[i] = f[j] PROVE i = j
    OBVIOUS
  <2>1. PICK a : a = f[i]
    OBVIOUS
  <2>2. a \in Nat /\ ~(a < a)
    BY <1>2, <2>1
  <2>3. ~(i < j) /\ ~(j < i)
    BY <1>3, <2>1, <2>2
  <2>. QED  BY <1>1, <2>3
<1>8. f[n] \notin DOMAIN tree
  <2> SUFFICES ASSUME NEW j \in 1 .. n, f[n] = f[j - 1] PROVE FALSE
    BY <1>5
  <2>1. j - 1 \in 0 .. n /\ n \in 0 .. n /\ j - 1 # n
    BY <1>1
  <2>. QED  BY <1>7, <2>1
<1>9. DOMAIN tree \subseteq 0 .. f[n]
  <2> SUFFICES ASSUME NEW j \in 1 .. n PROVE f[j - 1] \in 0 .. f[n]
    BY <1>5
  <2>1. j - 1 \in 0 .. n /\ n \in 0 .. n /\ j - 1 < n
    BY <1>1
  <2>2. PICK a, b : a = f[j - 1] /\ b = f[n]
    OBVIOUS
  <2>3. a \in Nat /\ b \in Nat /\ a < b
    BY <1>2, <1>3, <2>1, <2>2
  <2>. QED  BY <2>2, <2>3
<1>. QED  BY <1>1, <1>2, <1>4, <1>6, <1>7, <1>8, <1>9 DEF FileFacts

-----------------------------------------------------------------------------
(* The contents of the file.                                               *)

\* The offsets of the node e lead to the nodes that the children of a became.
LedTo(H, q, f, a, e) ==
  /\ ~e.leaf
  /\ \E L \in Nat : \E z : /\ DOMAIN e.ptr = 1 .. L /\ DOMAIN H[a].ptr = 1 .. L
                           /\ \A k \in 1 .. L : /\ z[k] \in 1 .. Len(H) /\ e.ptr[k] = f[z[k] - 1]
                                                /\ q[z[k]] = H[a].ptr[k]
LEMMA OffsetsLead ==
    ASSUME NEW V, NEW p, NEW h, NEW l, NEW H, NEW in, NEW top,
           Tree(H, 1 .. Len(H) \ {top}, V, p, h, l, in, top),
           NEW q, NEW c, FileOrder(q, c, Kids(H), Len(H), top), NEW f,
           NEW j \in 1 .. Len(H), NEW e, e = Written(H, q, c, f, j), NEW a, a = q[j]
    PROVE  /\ a \in 1 .. Len(H) /\ (H[a].leaf => e = H[a])
           /\ ~H[a].leaf => LedTo(H, q, f, a, e)
<1>1. PICK n, K : n = Len(H) /\ K = Kids(H)
  OBVIOUS
<1>2. a \in 1 .. n
  <2>1. j \in 1 .. n /\ FileOrder(q, c, K, n, top)
    BY <1>1
  <2>. QED  BY <2>1 DEF FileOrder
<1>3. IsWritten(e, H[a], c, f, j, K[a])
  BY <1>1, <1>2, WrittenAlike
<1>4. ASSUME ~H[a].leaf PROVE LedTo(H, q, f, a, e)
  <2>1. PICK L \in Nat : /\ Num(K, a) = L /\ GoodInner(H[a], L, Of(p, a))
                         /\ DOMAIN H[a].keys = 1 .. L /\ DOMAIN H[a].ptr = 1 .. L
                         /\ \A k \in 1 .. L : H[a].ptr[k] = Kid(K, a, k)
    BY <1>1, <1>2, <1>4, ChildrenCounted
  <2>2. PICK kids, z, t : kids = K[a] /\ z = [k \in 1 .. L |-> c[j] + k] /\ t = H[a].ptr
    OBVIOUS
  <2>3. kids = t
    BY <1>1, <1>2, <1>4, <2>2 DEF Kids
  <2>4. ~e.leaf /\ e.ptr = [k \in DOMAIN kids |-> f[c[j] + k - 1]]
    BY <1>3, <1>4, <2>2, Zenon DEF IsWritten
  <2>5. DOMAIN t = 1 .. L /\ DOMAIN kids = 1 .. L
    BY <2>1, <2>2, <2>3
  <2>6. PICK o : o = e.ptr
    OBVIOUS
  <2>7. o = [k \in 1 .. L |-> f[c[j] + k - 1]]
    BY <2>4, <2>5, <2>6, Zenon
  <2>8. \A k \in 1 .. L : z[k] \in 1 .. n /\ o[k] = f[z[k] - 1] /\ q[z[k]] = t[k]
    <3>1. j \in 1 .. n /\ FileOrder(q, c, K, n, top)
      BY <1>1
    <3>2. \A k \in 1 .. Num(K, q[j]) : c[j] + k \in 1 .. n /\ q[c[j] + k] = Kid(K, q[j], k)
      BY <3>1 DEF FileOrder
    <3>3. \A k \in 1 .. L : c[j] + k \in 1 .. n /\ q[c[j] + k] = t[k]
      BY <2>1, <2>2, <3>2
    <3>4. \A k \in 1 .. L : z[k] = c[j] + k
      BY <2>2
    <3>5. \A k \in 1 .. L : o[k] = f[c[j] + k - 1]
      BY <2>7
    <3>6. ASSUME NEW k \in 1 .. L PROVE z[k] \in 1 .. n /\ o[k] = f[z[k] - 1] /\ q[z[k]] = t[k]
      <4>1. /\ z[k] = c[j] + k /\ o[k] = f[c[j] + k - 1]
            /\ c[j] + k \in 1 .. n /\ q[c[j] + k] = t[k]
        BY <3>3, <3>4, <3>5, <3>6, Zenon
      <4>2. PICK x : x = c[j] + k
        OBVIOUS
      <4>3. c[j] \in Nat
        BY <3>1 DEF FileOrder
      <4>4. c[j] + k - 1 = x - 1
        BY <4>2, <4>3
      <4>5. z[k] = x /\ o[k] = f[x - 1] /\ x \in 1 .. n /\ q[x] = t[k]
        BY <4>1, <4>2, <4>4, Zenon
      <4>. QED  BY <4>5, Zenon
    <3>. QED  BY <3>6
  <2>9. DOMAIN o = 1 .. L
    BY <2>7
  <2>10. \A k \in 1 .. L : z[k] \in 1 .. Len(H) /\ e.ptr[k] = f[z[k] - 1] /\ q[z[k]] = H[a].ptr[k]
    BY <1>1, <2>2, <2>6, <2>8, Zenon
  <2>11. DOMAIN e.ptr = 1 .. L /\ DOMAIN H[a].ptr = 1 .. L
    BY <2>1, <2>6, <2>9, Zenon
  <2>12. \E N \in Nat : \E y :
            /\ DOMAIN e.ptr = 1 .. N /\ DOMAIN H[a].ptr = 1 .. N
            /\ \A k \in 1 .. N : /\ y[k] \in 1 .. Len(H) /\ e.ptr[k] = f[y[k] - 1]
                                 /\ q[y[k]] = H[a].ptr[k]
    <3> WITNESS L \in Nat
    <3> WITNESS z
    <3>. QED  BY <2>10, <2>11, Zenon
  <2>. QED  BY <2>4, <2>12, Zenon DEF LedTo
<1>. QED  BY <1>1, <1>2, <1>3, <1>4, Zenon DEF IsWritten

\* The nodes below the j-th have the same contents in the file.
SameBelow(l, n, q, f, g, C, j) ==
  \A x \in 1 .. n : l[q[x]] < l[q[j]] => g[f[x - 1]] = C[q[x]]

\* What a turn makes of the node of the file at f[j - 1] is what it makes of q[j].
LEMMA SameTurn ==
    ASSUME NEW V, NEW p, NEW h, NEW l, NEW H, NEW in, NEW top,
           Tree(H, 1 .. Len(H) \ {top}, V, p, h, l, in, top),
           NEW q, NEW c, FileOrder(q, c, Kids(H), Len(H), top), NEW f,
           NEW tree, NEW j \in 1 .. Len(H), tree[f[j - 1]] = Written(H, q, c, f, j), NEW g, NEW C,
           SameBelow(l, Len(H), q, f, g, C, j)
    PROVE  Turn(tree, f[j - 1], g) = Turn(H, q[j], C)
<1>1. PICK a, e, at : a = q[j] /\ e = Written(H, q, c, f, j) /\ at = f[j - 1]
  OBVIOUS
<1>2. tree[at] = e
  BY <1>1
<1>3. a \in 1 .. Len(H) /\ (H[a].leaf => e = H[a])
  BY <1>1, OffsetsLead
<1>4. CASE H[a].leaf
  BY <1>1, <1>2, <1>3, <1>4, Zenon DEF Turn
<1>5. CASE ~H[a].leaf
  <2>1. LedTo(H, q, f, a, e)
    BY <1>1, <1>5, OffsetsLead
  <2>2. ~e.leaf
    BY <2>1, Zenon DEF LedTo
  <2>3. PICK L, z : /\ L \in Nat /\ DOMAIN e.ptr = 1 .. L /\ DOMAIN H[a].ptr = 1 .. L
                    /\ \A k \in 1 .. L : /\ z[k] \in 1 .. Len(H) /\ e.ptr[k] = f[z[k] - 1]
                                         /\ q[z[k]] = H[a].ptr[k]
    <3>1. \E L \in Nat : \E z : /\ DOMAIN e.ptr = 1 .. L /\ DOMAIN H[a].ptr = 1 .. L
                                /\ \A k \in 1 .. L : /\ z[k] \in 1 .. Len(H) /\ e.ptr[k] = f[z[k] - 1]
                                                     /\ q[z[k]] = H[a].ptr[k]
      BY <2>1, Zenon DEF LedTo
    <3>. QED  BY <3>1
  <2>4. PICK o, t : o = e.ptr /\ t = H[a].ptr
    OBVIOUS
  <2>5. /\ DOMAIN o = 1 .. L /\ DOMAIN t = 1 .. L
        /\ \A k \in 1 .. L : z[k] \in 1 .. Len(H) /\ o[k] = f[z[k] - 1] /\ q[z[k]] = t[k]
    BY <2>3, <2>4, Zenon
  <2>6. \A k \in 1 .. L : l[t[k]] < l[a]
    <3>1. t \in Seq(Nat) /\ \A i \in 1 .. Len(t) : l[a] = l[t[i]] + 1 /\ t[i] \in 1 .. Len(H)
      BY <1>3, <1>5, <2>4, InnerNode
    <3>2. Len(t) = L
      <4>1. L \in Nat /\ DOMAIN t = 1 .. L
        BY <2>3, <2>5, Zenon
      <4>2. Len(t) \in Nat /\ DOMAIN t = 1 .. Len(t)
        BY <3>1
      <4>. QED  BY <4>1, <4>2
    <3>3. l \in [1 .. Len(H) -> Nat]
      BY DEF Tree, Owners
    <3>4. \A k \in 1 .. L : l[a] = l[t[k]] + 1 /\ l[t[k]] \in Nat
      BY <3>1, <3>2, <3>3
    <3>. QED  BY <3>4
  <2>7. \A k \in 1 .. L : g[o[k]] = C[t[k]]
    <3> TAKE k \in 1 .. L
    <3>1. PICK x : x = z[k]
      OBVIOUS
    <3>2. x \in 1 .. Len(H) /\ o[k] = f[x - 1] /\ q[x] = t[k]
      BY <2>5, <3>1
    <3>3. l[q[x]] < l[q[j]]
      BY <1>1, <2>6, <3>2
    <3>4. g[f[x - 1]] = C[q[x]]
      BY <3>2, <3>3 DEF SameBelow
    <3>. QED  BY <3>2, <3>4, Zenon
  <2>8. [k \in DOMAIN o |-> g[o[k]]] = [k \in DOMAIN t |-> C[t[k]]]
    BY <2>5, <2>7, Zenon
  <2>9. Turn(tree, at, g) = FlattenSeq([k \in DOMAIN o |-> g[o[k]]])
    BY <1>2, <2>2, <2>4, Zenon DEF Turn
  <2>10. Turn(H, a, C) = FlattenSeq([k \in DOMAIN t |-> C[t[k]]])
    BY <1>5, <2>4, Zenon DEF Turn
  <2>. QED  BY <1>1, <2>8, <2>9, <2>10, Zenon
<1>. QED  BY <1>4, <1>5

LEMMA ContentsInFile ==
    ASSUME NEW V, NEW p, NEW h, NEW l, NEW H, NEW in, NEW top,
           Tree(H, 1 .. Len(H) \ {top}, V, p, h, l, in, top), NEW n, n = Len(H),
           NEW q, NEW c, FileOrder(q, c, Kids(H), n, top),
           NEW f, NEW ix, Placed(H, q, f, ix, n), NEW tree, tree = FileOf(H, q, c, f, ix, n)
    PROVE  Contents(tree, 0) = Contents(H, top)
<1>1. PICK N : N = l[top]
  OBVIOUS
<1>2. /\ n \in Nat /\ top \in 1 .. n /\ DOMAIN H = 1 .. n /\ N \in Nat
      /\ l \in [1 .. n -> Nat] /\ \A a \in 1 .. n : l[a] <= N
  <2>1. H \in Seq(Nodes)
    BY DEF Tree
  <2>2. n \in Nat /\ DOMAIN H = 1 .. n
    BY <2>1
  <2>3. l \in [1 .. n -> Nat] /\ top \in 1 .. n /\ \A a \in 1 .. n : l[a] <= N
    BY <1>1 DEF Tree, Owners, Levels
  <2>. QED  BY <1>1, <2>2, <2>3
<1>3. q \in [1 .. n -> 1 .. n] /\ (\A j \in 1 .. n : q[j] \in 1 .. n) /\ q[1] = top
  <2>1. q \in [1 .. n -> 1 .. n] /\ q[1] = top
    BY DEF FileOrder
  <2>. QED  BY <2>1
<1>4. /\ f[0] = 0 /\ DOMAIN tree = PlacesTo(f, n)
      /\ \A j \in 1 .. n : f[j - 1] \in DOMAIN tree /\ tree[f[j - 1]] = Written(H, q, c, f, j)
  <2>1. FileFacts(tree, H, q, c, f, n)
    BY <1>3, FactsOfFile
  <2>. QED  BY <2>1 DEF FileFacts
<1>5. (\A j \in 1 .. n : ix[f[j - 1]] = j) /\ \A at \in DOMAIN tree : \E j \in 1 .. n : at = f[j - 1]
  BY <1>4 DEF Placed, PlacesTo
<1>6. PICK C : IsContents(C, H) /\ Contents(H, top) = C[top]
  BY <1>2, ContentsExist, ContentsChosen
<1>7. \A a \in 1 .. n : C[a] = Turn(H, a, C)
  <2>1. C = [a \in 1 .. n |-> Turn(H, a, C)]
    BY <1>2, <1>6, Zenon DEF IsContents
  <2>2. \A a \in 1 .. n : [m \in 1 .. n |-> Turn(H, m, C)][a] = Turn(H, a, C)
    OBVIOUS
  <2>. QED  BY <2>1, <2>2, Zenon
<1>8. \E g : IsContents(g, tree)
  <2>1. PICK g : g = [at \in DOMAIN tree |-> C[q[ix[at]]]]
    OBVIOUS
  <2>2. \A j \in 1 .. n : g[f[j - 1]] = C[q[j]]
    BY <1>4, <1>5, <2>1
  <2>3. \A at \in DOMAIN tree : g[at] = Turn(tree, at, g)
    <3> TAKE at \in DOMAIN tree
    <3>1. PICK j \in 1 .. n : at = f[j - 1]
      BY <1>5
    <3>2. tree[f[j - 1]] = Written(H, q, c, f, j)
      BY <1>4
    <3>3. Turn(tree, f[j - 1], g) = Turn(H, q[j], C)
      <4>1. FileOrder(q, c, Kids(H), Len(H), top) /\ j \in 1 .. Len(H)
        OBVIOUS
      <4>2. SameBelow(l, n, q, f, g, C, j)
        BY <2>2, Zenon DEF SameBelow
      <4>3. SameBelow(l, Len(H), q, f, g, C, j)
        BY <4>2
      <4>. QED  BY <3>2, <4>1, <4>3, SameTurn
    <3>4. C[q[j]] = Turn(H, q[j], C)
      BY <1>3, <1>7
    <3>. QED  BY <2>2, <3>1, <3>3, <3>4
  <2>4. g = [at \in DOMAIN tree |-> g[at]]
    BY <2>1
  <2>5. g = [at \in DOMAIN tree |-> Turn(tree, at, g)]
    BY <2>3, <2>4, Zenon
  <2>. QED  BY <2>5, Zenon DEF IsContents
<1>9. 1 \in 1 .. n /\ 0 \in DOMAIN tree
  <2>1. 1 \in 1 .. n /\ 1 - 1 = 0
    BY <1>2
  <2>. QED  BY <1>4, <2>1
<1>10. PICK g : IsContents(g, tree) /\ Contents(tree, 0) = g[0]
  BY <1>8, <1>9, ContentsChosen
<1>11. \A at \in DOMAIN tree : g[at] = Turn(tree, at, g)
  <2>1. g = [at \in DOMAIN tree |-> Turn(tree, at, g)]
    BY <1>10, Zenon DEF IsContents
  <2>2. \A at \in DOMAIN tree : [m \in DOMAIN tree |-> Turn(tree, m, g)][at] = Turn(tree, at, g)
    OBVIOUS
  <2>. QED  BY <2>1, <2>2, Zenon
<1> DEFINE P == {k \in 0 .. N : \A j \in 1 .. n : l[q[j]] <= k => g[f[j - 1]] = C[q[j]]}
<1>12. ASSUME NEW k \in 0 .. N, \A x \in 1 .. n : l[q[x]] < k => g[f[x - 1]] = C[q[x]] PROVE k \in P
  <2>1. ASSUME NEW j \in 1 .. n, l[q[j]] <= k PROVE g[f[j - 1]] = C[q[j]]
    <3>1. \A x \in 1 .. n : l[q[x]] \in Nat
      BY <1>2, <1>3
    <3>2. \A x \in 1 .. n : l[q[x]] < l[q[j]] => g[f[x - 1]] = C[q[x]]
      BY <1>12, <2>1, <3>1
    <3>3. tree[f[j - 1]] = Written(H, q, c, f, j)
      BY <1>4
    <3>4. Turn(tree, f[j - 1], g) = Turn(H, q[j], C)
      <4>1. FileOrder(q, c, Kids(H), Len(H), top) /\ j \in 1 .. Len(H)
        OBVIOUS
      <4>2. SameBelow(l, n, q, f, g, C, j)
        BY <3>2, Zenon DEF SameBelow
      <4>3. SameBelow(l, Len(H), q, f, g, C, j)
        BY <4>2
      <4>. QED  BY <3>3, <4>1, <4>3, SameTurn
    <3>5. C[q[j]] = Turn(H, q[j], C)
      BY <1>3, <1>7
    <3>. QED  BY <1>4, <1>11, <3>4, <3>5
  <2>. QED  BY <2>1
<1>13. 0 \in P
  <2>1. \A x \in 1 .. n : ~(l[q[x]] < 0)
    BY <1>2, <1>3
  <2> HIDE DEF P
  <2>. QED  BY <1>2, <1>12, <2>1
<1>14. ASSUME NEW k \in 0 .. N - 1, k \in P PROVE k + 1 \in P
  <2>1. k + 1 \in 0 .. N
    BY <1>2
  <2>2. \A x \in 1 .. n : l[q[x]] < k + 1 => g[f[x - 1]] = C[q[x]]
    <3>1. \A x \in 1 .. n : l[q[x]] \in Nat
      BY <1>2, <1>3
    <3>. QED  BY <1>14, <3>1
  <2> HIDE DEF P
  <2>. QED  BY <1>12, <2>1, <2>2
<1>15. N \in P
  <2> HIDE DEF P
  <2>1. 0 .. N \subseteq P
    BY <1>2, <1>13, <1>14, Climb
  <2>. QED  BY <1>2, <2>1
<1>16. g[0] = C[top]
  <2>1. 1 \in 1 .. n /\ l[q[1]] <= N /\ f[1 - 1] = f[0]
    BY <1>2, <1>3
  <2>2. g[f[1 - 1]] = C[q[1]]
    BY <1>15, <2>1
  <2>. QED  BY <1>3, <1>4, <2>1, <2>2
<1>. QED  BY <1>6, <1>10, <1>16

LEMMA FileHolds ==
    ASSUME BTreeInv
    PROVE  FileHoldsTree
<1> SUFFICES ASSUME pc = "idle", root # NoNode
             PROVE  Contents(writeTree(node, root), 0) = Contents(node, root)
  BY DEF FileHoldsTree
<1>1. PICK p, h, l : Tree(node, 1 .. Len(node) \ {root}, 1 .. Len(items), p, h, l, input, root)
  BY DEF BTreeInv, Idle
<1>2. PICK q, c : FileOrder(q, c, Kids(node), Len(node), root)
  BY <1>1, TreeFamily, OrderExists
<1>3. PICK f, ix : Placed(node, q, f, ix, Len(node))
  <2>1. q \in [1 .. Len(node) -> 1 .. Len(node)]
    BY <1>2 DEF FileOrder
  <2>. QED  BY <1>1, <2>1, PlacesExist
<1>4. writeTree(node, root) = FileOf(node, q, c, f, ix, Len(node))
  BY <1>1, <1>2, <1>3, FileWritten
<1>5. Contents(FileOf(node, q, c, f, ix, Len(node)), 0) = Contents(node, root)
  BY <1>1, <1>2, <1>3, ContentsInFile
<1>. QED  BY <1>4, <1>5, Zenon

\* In the file that write2file leaves the offsets lead from its first node to the
\* same keys and values in the same order as the pointers in memory, whatever
\* nodes were split.
THEOREM FileHoldsTreeHolds == BTreeSpec => []FileHoldsTree
<1>1. BTreeInv => FileHoldsTree
  BY FileHolds
<1>. QED  BY <1>1, BTreeInvariant, PTL

-----------------------------------------------------------------------------
(* The order of the keys while no internal node has been split.            *)

Sorted(s) ==
  s \in Seq(Nat) /\ Len(s) \in Nat \ {0} /\ \A i, j \in 1 .. Len(s) : i < j => s[i] < s[j]
EndOf(s) == s[Len(s)]

LEMMA SortedUpTo ==
    ASSUME NEW s, Sorted(s), NEW i \in 1 .. Len(s), NEW j \in 1 .. Len(s), i <= j
    PROVE  s[i] \in Nat /\ s[j] \in Nat /\ s[i] <= s[j] /\ s[j] <= EndOf(s) /\ EndOf(s) \in Nat
<1>1. s \in Seq(Nat) /\ Len(s) \in Nat \ {0} /\ \A x, y \in 1 .. Len(s) : x < y => s[x] < s[y]
  BY DEF Sorted
<1>2. Len(s) \in 1 .. Len(s) /\ (j = Len(s) \/ j < Len(s)) /\ (i = j \/ i < j)
  BY <1>1
<1>3. s[i] \in Nat /\ s[j] \in Nat /\ s[Len(s)] \in Nat
  BY <1>1, <1>2
<1>4. PICK a, b, c : a = s[i] /\ b = s[j] /\ c = s[Len(s)]
  OBVIOUS
<1>5. (a = b \/ a < b) /\ (b = c \/ b < c)
  BY <1>1, <1>2, <1>4
<1>. QED  BY <1>3, <1>4, <1>5 DEF EndOf

\* The first place whose key is not below k.
FirstAt(s, k, p) ==
  /\ p \in 1 .. Len(s) /\ k <= s[p]
  /\ \A j \in 1 .. Len(s) : j < p => s[j] < k

\* The binary search keeps the place between l and r, and halves what is left.
Narrowed(s, k, b, n) ==
  /\ b.l \in 1 .. Len(s) /\ b.r \in 1 .. Len(s) /\ b.l <= b.r
  /\ k <= s[b.r] /\ \A j \in 1 .. Len(s) : j < b.l => s[j] < k
  /\ b.l = b.r \/ b.r - b.l <= n
LEMMA HalvedNarrows ==
    ASSUME NEW s, Sorted(s), NEW k \in Nat, NEW b, b \in [l : 1 .. Len(s), r : 1 .. Len(s)],
           NEW n \in Nat, NEW m, m = n - 1, Narrowed(s, k, b, n)
    PROVE  Narrowed(s, k, Halved(b, s, k), m)
<1>1. PICK l, r, mid : l = b.l /\ r = b.r /\ mid = (b.l + b.r) \div 2
  OBVIOUS
<1>2. b = [l |-> l, r |-> r] /\ l \in 1 .. Len(s) /\ r \in 1 .. Len(s) /\ Len(s) \in Nat
  BY <1>1 DEF Sorted
<1>3. /\ l <= r /\ k <= s[r] /\ (\A j \in 1 .. Len(s) : j < l => s[j] < k)
      /\ (l = r \/ r - l <= n)
  BY <1>1 DEF Narrowed
<1>4. CASE l >= r
  <2>1. Halved(b, s, k) = b
    BY <1>1, <1>4 DEF Halved
  <2>2. l = r
    BY <1>2, <1>3, <1>4
  <2>. QED  BY <1>1, <1>2, <1>3, <2>1, <2>2 DEF Narrowed
<1>5. CASE ~(l >= r)
  <2>1. l < r /\ l <= mid /\ mid < r /\ mid \in 1 .. Len(s) /\ mid + 1 \in 1 .. Len(s)
    BY <1>1, <1>2, <1>5
  <2>2. s[mid] \in Nat
    BY <2>1 DEF Sorted
  <2>3. \A j \in 1 .. Len(s) : j < mid => s[j] < s[mid]
    BY <2>1 DEF Sorted
  <2>4. \A j \in 1 .. Len(s) : s[j] \in Nat
    BY DEF Sorted
  <2>5. CASE s[mid] > k
    <3>1. PICK h : h = [b EXCEPT !.r = mid]
      OBVIOUS
    <3>2. h.l = l /\ h.r = mid /\ Halved(b, s, k) = h
      BY <1>1, <1>2, <1>5, <2>5, <3>1 DEF Halved
    <3>3. k <= s[mid] /\ mid - l <= m
      BY <1>2, <1>3, <2>1, <2>2, <2>5
    <3>. QED  BY <1>2, <1>3, <2>1, <3>2, <3>3 DEF Narrowed
  <2>6. CASE s[mid] < k
    <3>1. PICK h, e : e = mid + 1 /\ h = [b EXCEPT !.l = e]
      OBVIOUS
    <3>2. h.l = e /\ h.r = r /\ Halved(b, s, k) = h
      BY <1>1, <1>2, <1>5, <2>1, <2>2, <2>6, <3>1 DEF Halved
    <3>3. e <= r /\ r - e <= m /\ e \in 1 .. Len(s)
      BY <1>2, <1>3, <2>1, <3>1
    <3>4. \A j \in 1 .. Len(s) : j < e => j < mid \/ j = mid
      BY <2>1, <3>1
    <3>5. \A j \in 1 .. Len(s) : j < e => s[j] < k
      <4> SUFFICES ASSUME NEW j \in 1 .. Len(s), j < e PROVE s[j] < k
        OBVIOUS
      <4>1. PICK x, y : x = s[j] /\ y = s[mid]
        OBVIOUS
      <4>2. (x < y \/ x = y) /\ x \in Nat /\ y \in Nat /\ y < k
        BY <2>2, <2>3, <2>4, <2>6, <3>4, <4>1
      <4>. QED  BY <4>1, <4>2
    <3>. QED  BY <1>2, <1>3, <3>2, <3>3, <3>5 DEF Narrowed
  <2>7. CASE ~(s[mid] > k) /\ ~(s[mid] < k)
    <3>1. s[mid] = k
      BY <2>2, <2>7
    <3>2. PICK h : h = [l |-> mid, r |-> mid]
      OBVIOUS
    <3>3. h.l = mid /\ h.r = mid /\ Halved(b, s, k) = h
      BY <1>1, <1>5, <2>7, <3>2 DEF Halved
    <3>4. k <= s[mid] /\ mid <= mid
      BY <2>1, <3>1
    <3>5. \A j \in 1 .. Len(s) : j < mid => s[j] < k
      BY <2>3, <3>1
    <3>. QED  BY <2>1, <3>3, <3>4, <3>5 DEF Narrowed
  <2>. QED  BY <2>5, <2>6, <2>7
<1>. QED  BY <1>4, <1>5

LEMMA PositionIsFirst ==
    ASSUME NEW s, Sorted(s), NEW k \in Nat, NEW p, p = findPosition(s, k)
    PROVE  /\ EndOf(s) < k => p = 0
           /\ ~(EndOf(s) < k) => FirstAt(s, k, p)
<1>1. PICK L : L = Len(s)
  OBVIOUS
<1>2. L \in Nat \ {0} /\ L = Len(s) /\ s # <<>> /\ EndOf(s) = Last(s) /\ s[L] \in Nat /\ EndOf(s) = s[L]
  BY <1>1 DEF Sorted, EndOf, Last
<1>3. PICK f : Searches(f, s, k, L) /\ PositionBy(f, s, k, L)
  BY <1>1, <1>2, SearchTurns
<1>4. p = IF EndOf(s) < k THEN 0 ELSE f[L].l
  BY <1>2, <1>3 DEF PositionBy
<1>5. ASSUME ~(EndOf(s) < k) PROVE FirstAt(s, k, f[L].l)
  <2> DEFINE B == [l : 1 .. L, r : 1 .. L]
             R == {i \in 0 .. L : f[i] \in B /\ Narrowed(s, k, f[i], (L - 1) - i)}
  <2>1. f[0] \in B /\ f[0].l = 1 /\ f[0].r = L
    BY <1>2, <1>3 DEF Searches, SearchStart
  <2>2. 0 \in R
    <3>1. Narrowed(s, k, f[0], (L - 1) - 0)
      <4>1. \A j \in 1 .. L : ~(j < 1)
        OBVIOUS
      <4>2. 1 \in 1 .. L /\ L \in 1 .. L /\ 1 <= L /\ L - 1 <= (L - 1) - 0
        BY <1>2
      <4>3. k <= s[L]
        BY <1>2, <1>5
      <4>. QED  BY <1>1, <2>1, <4>1, <4>2, <4>3 DEF Narrowed
    <3>. QED  BY <1>2, <2>1, <3>1
  <2>3. ASSUME NEW i \in 0 .. L - 1, i \in R PROVE i + 1 \in R
    <3>1. i + 1 \in 1 .. L /\ i + 1 \in 0 .. L /\ (i + 1) - 1 = i /\ (L - 1) - i \in Nat
          /\ (L - 1) - (i + 1) = ((L - 1) - i) - 1
      BY <1>2
    <3>2. f[i + 1] = Halved(f[i], s, k)
      BY <1>3, <3>1 DEF Searches
    <3>3. f[i] \in B /\ Narrowed(s, k, f[i], (L - 1) - i)
      BY <2>3
    <3>4. Halved(f[i], s, k) \in B
      BY <1>2, <3>3, HalvedInRange
    <3>5. Narrowed(s, k, Halved(f[i], s, k), (L - 1) - (i + 1))
      BY <1>1, <3>1, <3>3, HalvedNarrows
    <3>. QED  BY <3>1, <3>2, <3>4, <3>5
  <2> HIDE DEF R
  <2>4. 0 .. L \subseteq R
    BY <1>2, <2>2, <2>3, Climb
  <2>5. Narrowed(s, k, f[L], (L - 1) - L)
    <3>1. L \in R
      BY <1>2, <2>4
    <3>. QED  BY <3>1 DEF R
  <2>6. PICK l, r : l = f[L].l /\ r = f[L].r
    OBVIOUS
  <2>7. /\ l \in 1 .. L /\ r \in 1 .. L /\ l <= r /\ k <= s[r]
        /\ (\A j \in 1 .. L : j < l => s[j] < k)
        /\ (l = r \/ r - l <= (L - 1) - L)
    BY <1>1, <2>5, <2>6 DEF Narrowed
  <2>8. l = r
    BY <1>2, <2>7
  <2>. QED  BY <1>1, <2>6, <2>7, <2>8 DEF FirstAt
<1>. QED  BY <1>4, <1>5

\* A key that is moved in where findPosition says keeps the keys in order.
PlaceFor(s, k) == IF findPosition(s, k) = 0 THEN Len(s) + 1 ELSE findPosition(s, k)
LEMMA AddItemPlace ==
    ASSUME NEW s, NEW t, NEW k, NEW p, NEW at, at = PlaceFor(s, k)
    PROVE  /\ addItemAt(Leaf(s, t), k, p) = Leaf(InsertAt(s, at, k), InsertAt(t, at, p))
           /\ addItemAt(Internal(s, t), k, p) = Internal(InsertAt(s, at, k), InsertAt(t, at, p))
BY DEF addItemAt, Leaf, Internal, PlaceFor

GrownBy(x, s, k) ==
  /\ Sorted(x) /\ EndOf(x) = (IF EndOf(s) < k THEN k ELSE EndOf(s))
  /\ \A i \in 1 .. Len(x) : x[i] = k \/ \E j \in 1 .. Len(s) : x[i] = s[j]

\* s without k is cut at the place at.
CutAt(s, k, at) ==
  /\ at \in 1 .. Len(s) + 1
  /\ \A j \in 1 .. Len(s) : (j < at => s[j] < k) /\ (at <= j => k < s[j])
LEMMA PlaceCuts ==
    ASSUME NEW s, Sorted(s), NEW k \in Nat, NEW at, at = PlaceFor(s, k),
           findPosition(s, k) # 0 => s[findPosition(s, k)] # k
    PROVE  CutAt(s, k, at)
<1>1. PICK p, L : p = findPosition(s, k) /\ L = Len(s)
  OBVIOUS
<1>2. L \in Nat \ {0} /\ \A j \in 1 .. L : s[j] \in Nat
  BY <1>1 DEF Sorted
<1>3. \A i, j \in 1 .. L : i <= j => s[i] <= s[j] /\ s[j] <= EndOf(s) /\ EndOf(s) \in Nat
  BY <1>1, SortedUpTo
<1>4. CASE EndOf(s) < k
  <2>1. p = 0 /\ at = L + 1
    BY <1>1, <1>4, PositionIsFirst DEF PlaceFor
  <2>2. \A j \in 1 .. L : s[j] < k /\ j < at
    BY <1>2, <1>3, <1>4, <2>1
  <2>3. \A j \in 1 .. L : ~(at <= j)
    BY <1>2, <2>1
  <2>. QED  BY <1>1, <1>2, <2>1, <2>2, <2>3 DEF CutAt
<1>5. CASE ~(EndOf(s) < k)
  <2>1. p \in 1 .. L /\ k <= s[p] /\ \A j \in 1 .. L : j < p => s[j] < k
    BY <1>1, <1>5, PositionIsFirst DEF FirstAt
  <2>2. p # 0 /\ at = p /\ s[p] # k
    BY <1>1, <1>2, <2>1 DEF PlaceFor
  <2>3. ASSUME NEW j \in 1 .. L, p <= j PROVE k < s[j]
    <3>1. PICK a, b : a = s[p] /\ b = s[j]
      OBVIOUS
    <3>2. a \in Nat /\ b \in Nat /\ a <= b /\ k <= a /\ a # k
      BY <1>2, <1>3, <2>1, <2>2, <2>3, <3>1
    <3>. QED  BY <3>1, <3>2
  <2>4. p \in 1 .. L + 1
    BY <1>2, <2>1
  <2>. QED  BY <1>1, <2>1, <2>2, <2>3, <2>4 DEF CutAt
<1>. QED  BY <1>4, <1>5

\* Where an element that was inserted stands, and the others.
Moved(x, s, k, at) ==
  /\ x \in Seq(Nat) /\ Len(x) = Len(s) + 1
  /\ \A i \in 1 .. Len(s) + 1 :
       \/ i < at /\ i \in 1 .. Len(s) /\ x[i] = s[i]
       \/ i = at /\ x[i] = k
       \/ at < i /\ i - 1 \in 1 .. Len(s) /\ x[i] = s[i - 1]
LEMMA InsertMoves ==
    ASSUME NEW s, s \in Seq(Nat), NEW k \in Nat, NEW at \in 1 .. Len(s) + 1
    PROVE  Moved(InsertAt(s, at, k), s, k, at)
<1>1. PICK x, L : x = InsertAt(s, at, k) /\ L = Len(s)
  OBVIOUS
<1>2. x \in Seq(Nat) /\ InsertedAt(x, s, at, k) /\ L \in Nat
  BY <1>1, InsertAtPlaces
<1>3. Len(x) = L + 1 /\ x[at] = k
  BY <1>1, <1>2 DEF InsertedAt
<1>4. ASSUME NEW i \in 1 .. L + 1
      PROVE  \/ i < at /\ i \in 1 .. L /\ x[i] = s[i]
             \/ i = at /\ x[i] = k
             \/ at < i /\ i - 1 \in 1 .. L /\ x[i] = s[i - 1]
  <2>1. CASE i < at
    <3>1. i \in 1 .. at - 1 /\ i \in 1 .. L
      BY <1>1, <1>2, <2>1
    <3>. QED  BY <1>2, <2>1, <3>1 DEF InsertedAt
  <2>2. CASE i = at
    BY <1>3, <2>2
  <2>3. CASE at < i
    <3>1. i - 1 \in at .. L /\ i - 1 \in 1 .. L /\ (i - 1) + 1 = i
      BY <1>1, <1>2, <2>3
    <3>2. x[(i - 1) + 1] = s[i - 1]
      BY <1>1, <1>2, <3>1 DEF InsertedAt
    <3>. QED  BY <2>3, <3>1, <3>2
  <2>. QED  BY <1>1, <1>2, <2>1, <2>2, <2>3
<1>. QED  BY <1>1, <1>2, <1>3, <1>4 DEF Moved

LEMMA InsertGrows ==
    ASSUME NEW s, Sorted(s), NEW k \in Nat, NEW at, CutAt(s, k, at)
    PROVE  GrownBy(InsertAt(s, at, k), s, k)
<1>1. PICK x, L : x = InsertAt(s, at, k) /\ L = Len(s)
  OBVIOUS
<1>2. s \in Seq(Nat) /\ L \in Nat \ {0} /\ at \in 1 .. L + 1
  BY <1>1 DEF Sorted, CutAt
<1>3. Moved(x, s, k, at)
  BY <1>1, <1>2, InsertMoves
<1>4. \A i, j \in 1 .. L : (i < j => s[i] < s[j]) /\ s[i] \in Nat
  BY <1>1 DEF Sorted
<1>5. \A j \in 1 .. L : (j < at => s[j] < k) /\ (at <= j => k < s[j])
  BY <1>1 DEF CutAt
<1>6. x \in Seq(Nat) /\ Len(x) = L + 1
  BY <1>1, <1>3 DEF Moved
<1>7. \A i \in 1 .. L + 1 : \/ i < at /\ i \in 1 .. L /\ x[i] = s[i]
                            \/ i = at /\ x[i] = k
                            \/ at < i /\ i - 1 \in 1 .. L /\ x[i] = s[i - 1]
  BY <1>1, <1>3 DEF Moved
<1>8. ASSUME NEW i \in 1 .. L + 1, NEW j \in 1 .. L + 1, i < j PROVE x[i] < x[j]
  <2>1. CASE j < at
    <3>1. x[i] = s[i] /\ x[j] = s[j] /\ i \in 1 .. L /\ j \in 1 .. L
      BY <1>2, <1>7, <1>8, <2>1
    <3>. QED  BY <1>4, <1>8, <3>1
  <2>2. CASE j = at
    <3>1. x[i] = s[i] /\ x[j] = k /\ i \in 1 .. L /\ i < at
      BY <1>2, <1>7, <1>8, <2>2
    <3>. QED  BY <1>5, <3>1
  <2>3. CASE at < j
    <3>1. x[j] = s[j - 1] /\ j - 1 \in 1 .. L /\ at <= j - 1
      BY <1>2, <1>7, <2>3
    <3>2. CASE i = at
      BY <1>5, <1>7, <3>1, <3>2
    <3>3. CASE i < at
      <4>1. x[i] = s[i] /\ i \in 1 .. L /\ i < j - 1
        BY <1>2, <1>7, <2>3, <3>1, <3>3
      <4>. QED  BY <1>4, <3>1, <4>1
    <3>4. CASE at < i
      <4>1. x[i] = s[i - 1] /\ i - 1 \in 1 .. L /\ i - 1 < j - 1
        BY <1>2, <1>7, <1>8, <3>4
      <4>. QED  BY <1>4, <3>1, <4>1
    <3>. QED  BY <1>2, <3>2, <3>3, <3>4
  <2>. QED  BY <1>2, <2>1, <2>2, <2>3
<1>9. Sorted(x)
  BY <1>2, <1>6, <1>8 DEF Sorted
<1>10. EndOf(x) = IF EndOf(s) < k THEN k ELSE EndOf(s)
  <2>1. PICK a : a = s[L]
    OBVIOUS
  <2>2. a \in Nat /\ EndOf(s) = a /\ EndOf(x) = x[L + 1]
    BY <1>1, <1>2, <1>4, <1>6, <2>1 DEF EndOf
  <2>3. CASE at = L + 1
    <3>1. x[L + 1] = k /\ a < k
      BY <1>2, <1>5, <1>7, <2>1, <2>3
    <3>. QED  BY <2>2, <3>1
  <2>4. CASE at # L + 1
    <3>1. at <= L /\ L + 1 \in 1 .. L + 1 /\ (L + 1) - 1 = L /\ at < L + 1 /\ L \in 1 .. L
      BY <1>2, <2>4
    <3>2. x[L + 1] = s[(L + 1) - 1] /\ k < s[L]
      BY <1>2, <1>5, <1>7, <3>1
    <3>3. x[L + 1] = a /\ k < a
      BY <2>1, <3>1, <3>2
    <3>4. ~(a < k)
      BY <2>2, <3>3
    <3>. QED  BY <2>2, <3>3, <3>4
  <2>. QED  BY <2>3, <2>4
<1>11. \A i \in 1 .. L + 1 : x[i] = k \/ \E j \in 1 .. L : x[i] = s[j]
  BY <1>7
<1>. QED  BY <1>1, <1>6, <1>9, <1>10, <1>11 DEF GrownBy

\* LeafNode::addItem.
LEMMA AddValueGrows ==
    ASSUME NEW s, Sorted(s), NEW t, NEW k \in Nat, NEW v, NEW n, n = Leaf(s, t)
    PROVE  addValue(n, k, v).leaf /\ GrownBy(addValue(n, k, v).keys, s, k)
<1>1. PICK p : p = findPosition(s, k)
  OBVIOUS
<1>2. n.keys = s
  BY NodeFields
<1>3. CASE Known(n, k)
  <2>1. p # 0 /\ s[p] = k
    BY <1>1, <1>2, <1>3 DEF Known
  <2>2. addValue(n, k, v) = Leaf(s, AppendAt(t, p, v))
    <3>1. addValue(n, k, v) = WithValue(n, p, v)
      BY <1>1, <1>2, <1>3 DEF addValue, WithValue
    <3>. QED  BY <3>1, FieldReplaced
  <2>3. addValue(n, k, v).leaf /\ addValue(n, k, v).keys = s
    BY <2>2, NodeFields
  <2>4. ~(EndOf(s) < k)
    <3>1. EndOf(s) < k => p = 0
      BY <1>1, PositionIsFirst
    <3>. QED  BY <2>1, <3>1
  <2>5. GrownBy(s, s, k)
    BY <2>4 DEF GrownBy
  <2>. QED  BY <2>3, <2>5
<1>4. CASE ~Known(n, k)
  <2>1. p # 0 => s[p] # k
    BY <1>1, <1>2, <1>4 DEF Known
  <2>2. PICK at : at = PlaceFor(s, k)
    OBVIOUS
  <2>3. GrownBy(InsertAt(s, at, k), s, k)
    BY <1>1, <2>1, <2>2, PlaceCuts, InsertGrows
  <2>4. addValue(n, k, v) = Leaf(InsertAt(s, at, k), InsertAt(t, at, <<v>>))
    <3>1. addValue(n, k, v) = addItemAt(n, k, <<v>>)
      BY <1>4 DEF addValue
    <3>2. PICK e : e = <<v>>
      OBVIOUS
    <3>3. addItemAt(Leaf(s, t), k, e) = Leaf(InsertAt(s, at, k), InsertAt(t, at, e))
      BY <2>2, AddItemPlace
    <3>. QED  BY <3>1, <3>2, <3>3
  <2>. QED  BY <2>3, <2>4, NodeFields
<1>. QED  BY <1>3, <1>4

AllAbove(s, b) == \A x \in 1 .. Len(s) : b < s[x]

LEMMA GrownAbove ==
    ASSUME NEW x, NEW s, NEW k, GrownBy(x, s, k), NEW b, AllAbove(s, b), b < k
    PROVE  AllAbove(x, b)
BY DEF GrownBy, AllAbove

\* A key above all others takes the place of the last (BTree::addItem).
LEMMA LastRaised ==
    ASSUME NEW K, Sorted(K), NEW L, L = Len(K), NEW k \in Nat, EndOf(K) < k, NEW J, J = PutAt(K, L, k)
    PROVE  Sorted(J) /\ Len(J) = L /\ J[L] = k /\ \A j \in 1 .. L : j # L => J[j] = K[j]
<1>1. K \in Seq(Nat) /\ L \in Nat \ {0} /\ L \in 1 .. L
  BY DEF Sorted
<1>2. J \in Seq(Nat) /\ Len(J) = L /\ J[L] = k /\ \A j \in 1 .. L : j # L => J[j] = K[j]
  BY <1>1 DEF PutAt
<1>3. ASSUME NEW i \in 1 .. L, NEW j \in 1 .. L, i < j PROVE J[i] < J[j]
  <2>1. i # L /\ J[i] = K[i] /\ (j = L \/ j # L)
    BY <1>1, <1>2, <1>3
  <2>2. CASE j = L
    <3>1. K[i] \in Nat /\ K[i] <= EndOf(K) /\ EndOf(K) \in Nat
      BY <1>1, <1>3, SortedUpTo
    <3>2. PICK a, b : a = K[i] /\ b = EndOf(K)
      OBVIOUS
    <3>3. a < k
      BY <3>1, <3>2
    <3>4. J[i] = a /\ J[j] = k
      BY <1>2, <2>1, <2>2, <3>2
    <3>. QED  BY <3>3, <3>4
  <2>3. CASE j # L
    <3>1. K[i] < K[j] /\ J[j] = K[j]
      BY <1>2, <1>3, <2>3 DEF Sorted
    <3>. QED  BY <2>1, <3>1
  <2>. QED  BY <2>2, <2>3
<1>. QED  BY <1>1, <1>2, <1>3 DEF Sorted

\* A key between those before and at i belongs at i.
LEMMA PlaceBetween ==
    ASSUME NEW K, Sorted(K), NEW i \in 1 .. Len(K), NEW mid \in Nat, i > 1 => K[i - 1] < mid, mid < K[i]
    PROVE  PlaceFor(K, mid) = i /\ CutAt(K, mid, i)
<1>1. PICK p, L : p = findPosition(K, mid) /\ L = Len(K)
  OBVIOUS
<1>2. L \in Nat \ {0} /\ \A j \in 1 .. L : K[j] \in Nat
  BY <1>1 DEF Sorted
<1>3. \A a, b \in 1 .. L : a <= b => K[a] <= K[b] /\ K[b] <= EndOf(K) /\ EndOf(K) \in Nat
  BY <1>1, SortedUpTo
<1>4. ~(EndOf(K) < mid)
  <2>1. PICK x, e : x = K[i] /\ e = EndOf(K)
    OBVIOUS
  <2>2. x \in Nat /\ x <= e /\ e \in Nat /\ mid < x
    BY <1>1, <1>2, <1>3, <2>1
  <2>. QED  BY <2>1, <2>2
<1>5. ASSUME NEW j \in 1 .. L, j < i PROVE K[j] < mid
  <2>1. i > 1 /\ i - 1 \in 1 .. L /\ j <= i - 1
    BY <1>1, <1>2, <1>5
  <2>2. PICK x, y : x = K[j] /\ y = K[i - 1]
    OBVIOUS
  <2>3. x \in Nat /\ y \in Nat /\ x <= y /\ y < mid
    BY <1>2, <1>3, <2>1, <2>2
  <2>. QED  BY <2>2, <2>3
<1>6. ASSUME NEW j \in 1 .. L, i <= j PROVE mid < K[j]
  <2>1. PICK x, y : x = K[i] /\ y = K[j]
    OBVIOUS
  <2>2. x \in Nat /\ y \in Nat /\ x <= y /\ mid < x
    BY <1>1, <1>2, <1>3, <1>6, <2>1
  <2>. QED  BY <2>1, <2>2
<1>7. p \in 1 .. L /\ mid <= K[p] /\ \A j \in 1 .. L : j < p => K[j] < mid
  BY <1>1, <1>4, PositionIsFirst DEF FirstAt
<1>8. p = i
  <2>1. ~(p < i)
    <3>1. p < i => K[p] < mid
      BY <1>5, <1>7
    <3>2. K[p] \in Nat
      BY <1>2, <1>7
    <3>3. ~(K[p] < mid)
      BY <1>7, <3>2
    <3>. QED  BY <3>1, <3>3
  <2>2. ~(i < p)
    <3>1. i < p => K[i] < mid
      BY <1>1, <1>7
    <3>2. K[i] \in Nat
      BY <1>1, <1>2
    <3>3. ~(K[i] < mid)
      BY <3>2
    <3>. QED  BY <3>1, <3>3
  <2>. QED  BY <1>1, <1>7, <2>1, <2>2
<1>9. i \in 1 .. L + 1
  BY <1>1, <1>2
<1>. QED  BY <1>1, <1>2, <1>5, <1>6, <1>8, <1>9 DEF PlaceFor, CutAt

\* The halves of a full node.
HalvesOrder(x, y, s, m) ==
  /\ Sorted(x) /\ Sorted(y) /\ EndOf(x) = s[m] /\ EndOf(y) = EndOf(s) /\ AllAbove(y, s[m])
  /\ \A b : AllAbove(s, b) => AllAbove(x, b)
LEMMA HalvesInOrder ==
    ASSUME NEW s, Sorted(s), NEW m \in Nat \ {0}, Len(s) = 2 * m
    PROVE  HalvesOrder(SubSeq(s, 1, m), SubSeq(s, m + 1, 2 * m), s, m)
<1>1. PICK x, y, L : x = SubSeq(s, 1, m) /\ y = SubSeq(s, m + 1, 2 * m) /\ L = 2 * m
  OBVIOUS
<1>2. s \in Seq(Nat) /\ \A i, j \in 1 .. L : (i < j => s[i] < s[j]) /\ s[i] \in Nat
  BY <1>1 DEF Sorted
<1>3. x \in Seq(Nat) /\ Len(x) = m /\ y \in Seq(Nat) /\ Len(y) = m
  BY <1>1, <1>2, HalfSequences
<1>4. \A i \in 1 .. m : x[i] = s[i] /\ y[i] = s[m + i]
  BY <1>1, <1>2, HalfPlaces DEF Halved2
<1>5. \A i \in 1 .. m : i \in 1 .. L /\ m + i \in 1 .. L /\ m < m + i
  BY <1>1
<1>6. Sorted(x)
  <2>1. \A i, j \in 1 .. m : i < j => x[i] < x[j]
    BY <1>2, <1>4, <1>5
  <2>. QED  BY <1>3, <2>1 DEF Sorted
<1>7. Sorted(y)
  <2>1. \A i, j \in 1 .. m : i < j => m + i < m + j
    OBVIOUS
  <2>2. \A i, j \in 1 .. m : i < j => y[i] < y[j]
    BY <1>2, <1>4, <1>5, <2>1
  <2>. QED  BY <1>3, <2>2 DEF Sorted
<1>8. EndOf(x) = s[m] /\ EndOf(y) = EndOf(s)
  <2>1. m \in 1 .. m /\ m + m = L
    BY <1>1
  <2>2. EndOf(x) = x[m] /\ EndOf(y) = y[m] /\ EndOf(s) = s[L]
    BY <1>1, <1>3 DEF EndOf
  <2>3. y[m] = s[L]
    BY <1>4, <2>1
  <2>. QED  BY <1>4, <2>1, <2>2, <2>3
<1>9. AllAbove(y, s[m])
  <2>1. m \in 1 .. m
    OBVIOUS
  <2>2. \A i \in 1 .. m : s[m] < y[i]
    BY <1>2, <1>4, <1>5, <2>1
  <2>. QED  BY <1>3, <2>2 DEF AllAbove
<1>10. ASSUME NEW b, AllAbove(s, b) PROVE AllAbove(x, b)
  <2>1. \A i \in 1 .. m : b < x[i]
    BY <1>1, <1>4, <1>5, <1>10 DEF AllAbove
  <2>. QED  BY <1>3, <2>1 DEF AllAbove
<1>. QED  BY <1>1, <1>6, <1>7, <1>8, <1>9, <1>10 DEF HalvesOrder

\* The keys of a full leaf and a new one, in two leaves (BTree::splitNode).
SplitOrder(x, y, s, k, mid) ==
  /\ Sorted(x) /\ Sorted(y) /\ EndOf(x) = mid /\ AllAbove(y, mid)
  /\ EndOf(y) = (IF mid < k /\ EndOf(s) < k THEN k ELSE EndOf(s))
  /\ \A b : (AllAbove(s, b) /\ b < k) => AllAbove(x, b)
LEMMA SplitInOrder ==
    ASSUME NEW s, Sorted(s), Len(s) = MAX_PER_NODE, NEW t, NEW n, n = Leaf(s, t), NEW k \in Nat, NEW v,
           NEW low, low = LowerLeaf(n, k, v), NEW up, up = UpperLeaf(n, k, v)
    PROVE  /\ low.leaf /\ up.leaf /\ n.keys[midIndex] \in Nat /\ n.keys[midIndex] <= EndOf(s)
           /\ SplitOrder(low.keys, up.keys, s, k, n.keys[midIndex])
<1>1. PICK m : m = midIndex
  OBVIOUS
<1>2. m \in Nat \ {0} /\ Len(s) = 2 * m /\ m \in 1 .. Len(s)
  BY <1>1, Halves
<1>3. PICK x, y, a, b, mid : /\ x = SubSeq(s, 1, m) /\ y = SubSeq(s, m + 1, 2 * m) /\ mid = s[m]
                             /\ a = SubSeq(t, 1, m) /\ b = SubSeq(t, m + 1, 2 * m)
  OBVIOUS
<1>4. HalvesOrder(x, y, s, m)
  BY <1>2, <1>3, HalvesInOrder
<1>5. n.keys[midIndex] = mid /\ mid \in Nat /\ mid <= EndOf(s)
  <2>1. s[m] \in Nat /\ s[m] <= s[m] /\ s[m] <= EndOf(s)
    BY <1>2, SortedUpTo
  <2>. QED  BY <1>1, <1>3, <2>1, NodeFields
<1>6. Lower(n) = Leaf(x, a) /\ Upper(n) = Leaf(y, b)
  BY <1>1, <1>3, HalfNodes
<1>7. /\ Sorted(x) /\ Sorted(y) /\ EndOf(x) = mid /\ EndOf(y) = EndOf(s) /\ AllAbove(y, mid)
      /\ \A c : AllAbove(s, c) => AllAbove(x, c)
  BY <1>3, <1>4 DEF HalvesOrder
<1>8. CASE k > mid
  <2>1. low = Leaf(x, a) /\ up = addValue(Upper(n), k, v) /\ mid < k
    BY <1>5, <1>6, <1>8 DEF LowerLeaf, UpperLeaf
  <2>2. up.leaf /\ GrownBy(up.keys, y, k)
    BY <1>6, <1>7, <2>1, AddValueGrows
  <2>3. low.leaf /\ low.keys = x
    BY <2>1, NodeFields
  <2>4. AllAbove(up.keys, mid)
    BY <1>7, <2>1, <2>2, GrownAbove
  <2>5. Sorted(up.keys) /\ EndOf(up.keys) = IF EndOf(s) < k THEN k ELSE EndOf(s)
    BY <1>7, <2>2 DEF GrownBy
  <2>. QED  BY <1>5, <1>7, <2>1, <2>2, <2>3, <2>4, <2>5 DEF SplitOrder
<1>9. CASE ~(k > mid)
  <2>1. low = addValue(Lower(n), k, v) /\ up = Leaf(y, b) /\ ~(mid < k)
    BY <1>5, <1>6, <1>9 DEF LowerLeaf, UpperLeaf
  <2>2. low.leaf /\ GrownBy(low.keys, x, k)
    BY <1>6, <1>7, <2>1, AddValueGrows
  <2>3. up.leaf /\ up.keys = y
    BY <2>1, NodeFields
  <2>4. \A c : (AllAbove(s, c) /\ c < k) => AllAbove(low.keys, c)
    BY <1>7, <2>2, GrownAbove
  <2>5. Sorted(low.keys) /\ EndOf(low.keys) = mid
    BY <1>7, <2>1, <2>2 DEF GrownBy
  <2>. QED  BY <1>5, <1>7, <2>1, <2>2, <2>3, <2>4, <2>5 DEF SplitOrder
<1>. QED  BY <1>8, <1>9

-----------------------------------------------------------------------------
(* A root with leaves below: the last key of each leaf is its key in the   *)
(* root, but for the leaf the insertion is in, and the keys of the next    *)
(* leaf are above it.                                                      *)

KeysAt(H, a) == H[a].keys
ChildAt(H, a, j) == H[a].ptr[j]
FitsAt(K, s, e, j) ==
  Sorted(s) /\ (j > 1 => AllAbove(s, K[j - 1])) /\ (j # e => EndOf(s) = K[j])
ChildFits(H, top, e, j) ==
  H[ChildAt(H, top, j)].leaf /\ FitsAt(KeysAt(H, top), KeysAt(H, ChildAt(H, top, j)), e, j)
BranchOrder(H, top, e) ==
  /\ ~H[top].leaf /\ Sorted(KeysAt(H, top))
  /\ \A j \in 1 .. Len(KeysAt(H, top)) : ChildFits(H, top, e, j)
Ordered(H, top) == IF H[top].leaf THEN Sorted(KeysAt(H, top)) ELSE BranchOrder(H, top, 0)

\* The key k goes to the leaf with the keys s, at the place i of the root.
Pending(K, s, i, k) ==
  /\ i \in 1 .. Len(K) /\ (i > 1 => K[i - 1] < k) /\ k <= K[i]
  /\ EndOf(s) = K[i] \/ (k = K[i] /\ EndOf(s) < k)

\* The two leaves with the keys x and y were one, at the place i of the root.
Parted(K, x, y, i, mid) ==
  /\ i \in 1 .. Len(K) /\ EndOf(x) = mid
  /\ Sorted(y) /\ EndOf(y) = K[i] /\ AllAbove(y, mid)

\* The shape of such a root, from Tree.
BranchShape(H, top, L, s, t) ==
  /\ H \in Seq(Nodes) /\ top \in 1 .. Len(H)
  /\ H[top] = Internal(s, t)
  /\ s \in Seq(Nat) /\ Len(s) = L /\ t \in Seq(Nat) /\ Len(t) = L /\ L \in Nat \ {0}
  /\ \A j \in 1 .. L : t[j] \in 1 .. Len(H) /\ t[j] # top
  /\ \A i, j \in 1 .. L : t[i] = t[j] => i = j
LEMMA ShapeOfRoot ==
    ASSUME NEW U, NEW V, NEW p, NEW h, NEW l, NEW H, NEW in, NEW top,
           Tree(H, U, V, p, h, l, in, top), ~H[top].leaf
    PROVE  \E L \in 1 .. MAX_PER_NODE : \E s, t : BranchShape(H, top, L, s, t)
<1>1. H \in Seq(Nodes) /\ top \in 1 .. Len(H)
  BY DEF Tree, Levels
<1>2. PICK L \in 1 .. MAX_PER_NODE : GoodInner(H[top], L, Of(p, top))
  BY <1>1, AtNode
<1>3. PICK s, t : InnerOf(H[top], s, t, L, Of(p, top))
  BY <1>2 DEF GoodInner
<1>4. /\ H[top] = Internal(s, t) /\ s \in Seq(Nat) /\ Len(s) = L
      /\ t \in Seq(Nat) /\ Len(t) = L /\ Distinct(t)
  BY <1>3 DEF InnerOf
<1>5. ASSUME NEW j \in 1 .. L PROVE t[j] \in 1 .. Len(H) /\ t[j] # top
  <2>1. H[top].ptr = t
    BY <1>4, NodeFields
  <2>2. t[j] \in 1 .. Len(H) /\ l[top] = l[t[j]] + 1
    <3>1. \A i \in 1 .. Len(H[top].ptr) : /\ H[top].ptr[i] \in 1 .. Len(H)
                                          /\ l[top] = l[H[top].ptr[i]] + 1
      BY <1>1, InnerNode
    <3>2. j \in 1 .. Len(H[top].ptr)
      BY <1>4, <2>1, Zenon
    <3>3. H[top].ptr[j] \in 1 .. Len(H) /\ l[top] = l[H[top].ptr[j]] + 1
      BY <3>1, <3>2, Zenon
    <3>. QED  BY <2>1, <3>3, Zenon
  <2>3. l[top] \in Nat
    BY <1>1, AtNode
  <2>4. PICK u : u = t[j]
    OBVIOUS
  <2>5. u \in 1 .. Len(H) /\ l[top] = l[u] + 1
    BY <2>2, <2>4
  <2>6. u # top
    <3>1. PICK x : x = l[top]
      OBVIOUS
    <3>2. x \in Nat /\ x # x + 1
      BY <2>3, <3>1
    <3>. QED  BY <2>5, <3>1, <3>2
  <2>. QED  BY <2>4, <2>5, <2>6
<1>6. \A i, j \in 1 .. L : t[i] = t[j] => i = j
  BY <1>4 DEF Distinct
<1>7. L \in Nat \ {0}
  BY BTreeAssumption
<1>. QED  BY <1>1, <1>4, <1>5, <1>6, <1>7 DEF BranchShape

LEMMA ShapeFields ==
    ASSUME NEW H, NEW top, NEW L, NEW s, NEW t, BranchShape(H, top, L, s, t)
    PROVE  /\ ~H[top].leaf /\ KeysAt(H, top) = s /\ Len(s) = L
           /\ \A j : ChildAt(H, top, j) = t[j]
BY NodeFields DEF BranchShape, KeysAt, ChildAt

\* BranchOrder with the keys and the children named.
LeavesFit(H, s, t, L, e) ==
  \A j \in 1 .. L : H[t[j]].leaf /\ FitsAt(s, KeysAt(H, t[j]), e, j)
LEMMA BranchByLeaves ==
    ASSUME NEW H, NEW top, NEW s, NEW t, NEW L, H[top] = Internal(s, t), Len(s) = L, NEW e
    PROVE  BranchOrder(H, top, e) <=> Sorted(s) /\ LeavesFit(H, s, t, L, e)
<1>1. ~H[top].leaf /\ KeysAt(H, top) = s /\ \A j : ChildAt(H, top, j) = t[j]
  BY NodeFields DEF KeysAt, ChildAt
<1>2. \A j : ChildFits(H, top, e, j) <=> H[t[j]].leaf /\ FitsAt(s, KeysAt(H, t[j]), e, j)
  BY <1>1, Zenon DEF ChildFits
<1>. QED  BY <1>1, <1>2 DEF BranchOrder, LeavesFit

\* descend: the leaf for k is chosen, the last key raised to k if k is above all keys.
LoweredTo(H, top, k, i) ==
  IF findPosition(KeysAt(H, top), k) = 0 THEN [H EXCEPT ![top] = WithKey(H[top], i, k)] ELSE H
LEMMA LeafChosen ==
    ASSUME NEW H, NEW top, NEW L, NEW s, NEW t, BranchShape(H, top, L, s, t), BranchOrder(H, top, 0),
           NEW k \in Nat, NEW p, p = findPosition(s, k), NEW i, i = (IF p = 0 THEN L ELSE p),
           NEW G, G = LoweredTo(H, top, k, i), NEW c, c = t[i]
    PROVE  /\ i \in 1 .. L /\ H[c].leaf /\ G[c] = H[c]
           /\ BranchOrder(G, top, i) /\ ChildAt(G, top, i) = c /\ Len(KeysAt(G, top)) = L
           /\ Pending(KeysAt(G, top), KeysAt(G, c), i, k)
<1>1. /\ H \in Seq(Nodes) /\ top \in 1 .. Len(H) /\ H[top] = Internal(s, t)
      /\ Len(s) = L /\ L \in Nat \ {0}
      /\ \A j \in 1 .. L : t[j] \in 1 .. Len(H) /\ t[j] # top
  BY DEF BranchShape
<1>2. KeysAt(H, top) = s /\ \A j : ChildAt(H, top, j) = t[j]
  BY ShapeFields
<1>3. Sorted(s) /\ LeavesFit(H, s, t, L, 0)
  BY <1>1, BranchByLeaves
<1>4. \A j \in 1 .. L : H[t[j]].leaf /\ FitsAt(s, KeysAt(H, t[j]), 0, j)
  BY <1>3 DEF LeavesFit
<1>5. ASSUME NEW j \in 1 .. L
      PROVE  /\ Sorted(KeysAt(H, t[j])) /\ EndOf(KeysAt(H, t[j])) = s[j]
             /\ j > 1 => AllAbove(KeysAt(H, t[j]), s[j - 1])
  BY <1>4 DEF FitsAt
<1>6. CASE p # 0
  <2>1. FirstAt(s, k, p) /\ i = p
    BY <1>3, <1>6, PositionIsFirst
  <2>2. i \in 1 .. L /\ k <= s[i] /\ \A j \in 1 .. L : j < i => s[j] < k
    BY <1>1, <2>1 DEF FirstAt
  <2>3. G = H /\ KeysAt(G, top) = s /\ H[c].leaf /\ ChildAt(G, top, i) = c
    BY <1>2, <1>4, <1>6, <2>2 DEF LoweredTo
  <2>4. LeavesFit(H, s, t, L, i)
    BY <1>4, <1>5 DEF LeavesFit, FitsAt
  <2>5. BranchOrder(G, top, i)
    BY <1>1, <1>3, <2>3, <2>4, BranchByLeaves
  <2>6. i > 1 => s[i - 1] < k
    BY <1>1, <2>2
  <2>7. Pending(s, KeysAt(G, c), i, k)
    <3>1. EndOf(KeysAt(G, c)) = s[i]
      BY <1>5, <2>2, <2>3
    <3>. QED  BY <1>1, <2>2, <2>6, <3>1 DEF Pending
  <2>. QED  BY <1>1, <2>2, <2>3, <2>5, <2>7
<1>7. CASE p = 0
  <2>1. i = L /\ i \in 1 .. L /\ EndOf(s) < k
    <3>1. ~(EndOf(s) < k) => p \in 1 .. Len(s)
      BY <1>3, PositionIsFirst DEF FirstAt
    <3>. QED  BY <1>1, <1>7, <3>1
  <2>2. PICK m, J : m = WithKey(H[top], i, k) /\ J = PutAt(s, i, k)
    OBVIOUS
  <2>3. m = Internal(J, t)
    BY <1>1, <2>2, FieldReplaced
  <2>4. G = [H EXCEPT ![top] = m]
    BY <1>2, <1>7, <2>2 DEF LoweredTo
  <2>5. G[top] = Internal(J, t) /\ \A a \in 1 .. Len(H) : a # top => G[a] = H[a]
    BY <1>1, <2>3, <2>4
  <2>6. Sorted(J) /\ Len(J) = L /\ J[L] = k /\ \A j \in 1 .. L : j # L => J[j] = s[j]
    BY <1>1, <1>3, <2>1, <2>2, LastRaised
  <2>7. KeysAt(G, top) = J /\ ChildAt(G, top, i) = c
    BY <2>5, NodeFields DEF KeysAt, ChildAt
  <2>8. \A j \in 1 .. L : G[t[j]] = H[t[j]] /\ KeysAt(G, t[j]) = KeysAt(H, t[j])
    BY <1>1, <2>5 DEF KeysAt
  <2>9. ASSUME NEW j \in 1 .. L PROVE G[t[j]].leaf /\ FitsAt(J, KeysAt(G, t[j]), i, j)
    <3>1. G[t[j]].leaf /\ KeysAt(G, t[j]) = KeysAt(H, t[j])
      BY <1>4, <2>8
    <3>2. j > 1 => J[j - 1] = s[j - 1]
      <4>1. j > 1 => j - 1 \in 1 .. L /\ j - 1 # L
        BY <1>1
      <4>. QED  BY <2>6, <4>1
    <3>3. j # i => J[j] = s[j]
      BY <2>1, <2>6
    <3>. QED  BY <1>5, <3>1, <3>2, <3>3 DEF FitsAt
  <2>10. BranchOrder(G, top, i)
    <3>1. LeavesFit(G, J, t, L, i)
      BY <2>9 DEF LeavesFit
    <3>. QED  BY <2>5, <2>6, <3>1, BranchByLeaves
  <2>11. Pending(J, KeysAt(G, c), i, k)
    <3>1. EndOf(KeysAt(G, c)) = EndOf(s)
      BY <1>1, <1>5, <2>1, <2>8 DEF EndOf
    <3>2. i > 1 => J[i - 1] < k
      <4>1. i > 1 => i - 1 \in 1 .. L /\ i - 1 < L /\ L \in 1 .. L
        BY <1>1, <2>1
      <4>. QED  BY <2>6, <4>1 DEF Sorted
    <3>3. k <= k
      OBVIOUS
    <3>. QED  BY <2>1, <2>6, <3>1, <3>2, <3>3 DEF Pending
  <2>. QED  BY <1>4, <2>1, <2>6, <2>7, <2>8, <2>10, <2>11
<1>. QED  BY <1>6, <1>7

\* One leaf changes.
Others(H, G, c) == \A a \in 1 .. Len(H) : a # c => G[a] = H[a]
LEMMA LeafReplaced ==
    ASSUME NEW H, NEW top, NEW L, NEW s, NEW t, BranchShape(H, top, L, s, t),
           NEW i \in 1 .. L, BranchOrder(H, top, i), NEW c, c = t[i],
           NEW G, G[c].leaf, Others(H, G, c), NEW e, FitsAt(s, KeysAt(G, c), e, i)
    PROVE  BranchOrder(G, top, e) /\ G[top] = H[top]
<1>1. /\ top \in 1 .. Len(H) /\ H[top] = Internal(s, t) /\ Len(s) = L
      /\ \A j \in 1 .. L : t[j] \in 1 .. Len(H) /\ t[j] # top
      /\ \A a, j \in 1 .. L : t[a] = t[j] => a = j
  BY DEF BranchShape
<1>1b. \A a \in 1 .. Len(H) : a # c => G[a] = H[a]
  BY DEF Others
<1>2. Sorted(s) /\ LeavesFit(H, s, t, L, i)
  BY <1>1, BranchByLeaves
<1>3. \A j \in 1 .. L : H[t[j]].leaf /\ FitsAt(s, KeysAt(H, t[j]), i, j)
  BY <1>2 DEF LeavesFit
<1>4. G[top] = H[top] /\ G[top] = Internal(s, t)
  BY <1>1, <1>1b
<1>5. ASSUME NEW j \in 1 .. L PROVE G[t[j]].leaf /\ FitsAt(s, KeysAt(G, t[j]), e, j)
  <2>1. CASE j = i
    BY <2>1
  <2>2. CASE j # i
    <3>1. G[t[j]] = H[t[j]]
      BY <1>1, <1>1b, <2>2
    <3>2. G[t[j]].leaf /\ KeysAt(G, t[j]) = KeysAt(H, t[j]) /\ FitsAt(s, KeysAt(G, t[j]), i, j)
      BY <1>3, <3>1 DEF KeysAt
    <3>. QED  BY <2>2, <3>2 DEF FitsAt
  <2>. QED  BY <2>1, <2>2
<1>6. LeavesFit(G, s, t, L, e)
  BY <1>5 DEF LeavesFit
<1>. QED  BY <1>1, <1>2, <1>4, <1>6, BranchByLeaves

\* What the key that was pending does to its leaf, with room for it and without.
LEMMA LeafGrown ==
    ASSUME NEW K, Sorted(K), NEW s, NEW k \in Nat, NEW i, Pending(K, s, i, k), FitsAt(K, s, i, i),
           NEW x, GrownBy(x, s, k)
    PROVE  FitsAt(K, x, 0, i)
<1>1. /\ i \in 1 .. Len(K) /\ (i > 1 => K[i - 1] < k) /\ k <= K[i]
      /\ EndOf(s) = K[i] \/ (k = K[i] /\ EndOf(s) < k)
  BY DEF Pending
<1>2. K[i] \in Nat
  BY <1>1 DEF Sorted
<1>3. i > 1 => AllAbove(s, K[i - 1])
  BY DEF FitsAt
<1>4. i > 1 => AllAbove(x, K[i - 1])
  BY <1>1, <1>3, GrownAbove
<1>5. Sorted(x) /\ EndOf(x) = (IF EndOf(s) < k THEN k ELSE EndOf(s))
  BY DEF GrownBy
<1>6. EndOf(x) = K[i]
  <2>1. PICK u, w : u = K[i] /\ w = EndOf(s)
    OBVIOUS
  <2>2. w = u \/ (k = u /\ w < k)
    BY <1>1, <2>1
  <2>3. EndOf(x) = IF w < k THEN k ELSE w
    BY <1>5, <2>1
  <2>4. u \in Nat /\ k <= u
    BY <1>1, <1>2, <2>1
  <2>. QED  BY <2>1, <2>2, <2>3, <2>4
<1>. QED  BY <1>4, <1>5, <1>6 DEF FitsAt

LEMMA LeafParted ==
    ASSUME NEW K, Sorted(K), NEW s, Sorted(s), NEW k \in Nat, NEW i, Pending(K, s, i, k), FitsAt(K, s, i, i),
           NEW x, NEW y, NEW mid \in Nat, mid <= EndOf(s), SplitOrder(x, y, s, k, mid)
    PROVE  FitsAt(K, x, i, i) /\ Parted(K, x, y, i, mid)
<1>1. /\ i \in 1 .. Len(K) /\ (i > 1 => K[i - 1] < k) /\ k <= K[i]
      /\ EndOf(s) = K[i] \/ (k = K[i] /\ EndOf(s) < k)
  BY DEF Pending
<1>2. K[i] \in Nat
  BY <1>1 DEF Sorted
<1>3. i > 1 => AllAbove(s, K[i - 1])
  BY DEF FitsAt
<1>4. /\ Sorted(x) /\ Sorted(y) /\ EndOf(x) = mid /\ AllAbove(y, mid)
      /\ EndOf(y) = (IF mid < k /\ EndOf(s) < k THEN k ELSE EndOf(s))
      /\ \A b : (AllAbove(s, b) /\ b < k) => AllAbove(x, b)
  BY DEF SplitOrder
<1>5. FitsAt(K, x, i, i)
  BY <1>1, <1>3, <1>4 DEF FitsAt
<1>6. EndOf(y) = K[i]
  <2>1. PICK u, w : u = K[i] /\ w = EndOf(s)
    OBVIOUS
  <2>2. w = u \/ (k = u /\ w < k)
    BY <1>1, <2>1
  <2>3. EndOf(y) = IF mid < k /\ w < k THEN k ELSE w
    BY <1>4, <2>1
  <2>4. u \in Nat /\ k <= u /\ mid <= w
    BY <1>1, <1>2, <2>1
  <2>5. CASE w = u
    <3>1. ~(w < k)
      BY <2>4, <2>5
    <3>. QED  BY <2>1, <2>3, <2>5, <3>1
  <2>6. CASE k = u /\ w < k
    <3>1. EndOf(s) \in Nat
      <4>1. Len(s) \in 1 .. Len(s)
        BY DEF Sorted
      <4>. QED  BY <4>1, SortedUpTo
    <3>2. mid < k
      BY <2>1, <2>4, <2>6, <3>1
    <3>. QED  BY <2>1, <2>3, <2>6, <3>2
  <2>. QED  BY <2>2, <2>5, <2>6
<1>. QED  BY <1>1, <1>4, <1>5, <1>6 DEF Parted

Within(u, L, R) == \A j \in 1 .. L : u[j] \in R

\* addToParent: the new leaf takes the place i, the old one comes before it under midvalue.
LEMMA LeavesJoined ==
    ASSUME NEW H, NEW top, NEW L, NEW s, NEW t, BranchShape(H, top, L, s, t),
           NEW i \in 1 .. L, BranchOrder(H, top, i), NEW c, c = t[i], NEW d \in 1 .. Len(H), H[d].leaf,
           NEW mid \in Nat, Parted(s, KeysAt(H, c), KeysAt(H, d), i, mid),
           NEW n, n = addItemAt(WithChild(H[top], i, d), mid, c)
    PROVE  \E J, u : /\ n = Internal(J, u) /\ Sorted(J) /\ Len(J) = L + 1
                     /\ LeavesFit(H, J, u, L + 1, 0) /\ Within(u, L + 1, 1 .. Len(H))
<1>1. /\ H[top] = Internal(s, t) /\ s \in Seq(Nat) /\ Len(s) = L /\ L \in Nat \ {0}
      /\ t \in Seq(Nat) /\ Len(t) = L /\ \A j \in 1 .. L : t[j] \in 1 .. Len(H)
  BY DEF BranchShape
<1>2. Sorted(s) /\ LeavesFit(H, s, t, L, i)
  BY <1>1, BranchByLeaves
<1>3. \A j \in 1 .. L : H[t[j]].leaf /\ FitsAt(s, KeysAt(H, t[j]), i, j)
  BY <1>2 DEF LeavesFit
<1>4. PICK x, y : x = KeysAt(H, c) /\ y = KeysAt(H, d)
  OBVIOUS
<1>5. /\ EndOf(x) = mid /\ Sorted(y) /\ EndOf(y) = s[i] /\ AllAbove(y, mid)
  BY <1>4 DEF Parted
<1>6. Sorted(x) /\ (i > 1 => AllAbove(x, s[i - 1]))
  BY <1>3, <1>4 DEF FitsAt
<1>7. PlaceFor(s, mid) = i /\ CutAt(s, mid, i)
  <2>1. i > 1 => s[i - 1] < mid
    <3>1. Len(x) \in 1 .. Len(x) /\ EndOf(x) = x[Len(x)]
      BY <1>6 DEF Sorted, EndOf
    <3>. QED  BY <1>5, <1>6, <3>1 DEF AllAbove
  <2>2. mid < s[i]
    <3>1. Len(y) \in 1 .. Len(y) /\ EndOf(y) = y[Len(y)]
      BY <1>5 DEF Sorted, EndOf
    <3>. QED  BY <1>5, <3>1 DEF AllAbove
  <2>. QED  BY <1>1, <1>2, <2>1, <2>2, PlaceBetween
<1>8. PICK w, J, u : w = PutAt(t, i, d) /\ J = InsertAt(s, i, mid) /\ u = InsertAt(w, i, c)
  OBVIOUS
<1>9. n = Internal(J, u)
  <2>1. WithChild(H[top], i, d) = Internal(s, w)
    BY <1>1, <1>8, FieldReplaced
  <2>2. n = addItemAt(Internal(s, w), mid, c)
    BY <2>1
  <2>3. addItemAt(Internal(s, w), mid, c) = Internal(InsertAt(s, i, mid), InsertAt(w, i, c))
    BY <1>7, AddItemPlace
  <2>. QED  BY <1>8, <2>2, <2>3
<1>10. w \in Seq(Nat) /\ Len(w) = L /\ w[i] = d /\ \A j \in 1 .. L : j # i => w[j] = t[j]
  BY <1>1, <1>8 DEF PutAt
<1>11. i \in 1 .. L + 1 /\ c \in Nat
  BY <1>1
<1>12. Moved(J, s, mid, i) /\ Moved(u, w, c, i)
  BY <1>1, <1>8, <1>10, <1>11, InsertMoves
<1>13. Sorted(J)
  BY <1>2, <1>7, <1>8, InsertGrows DEF GrownBy
<1>14. /\ Len(J) = L + 1
       /\ \A j \in 1 .. L + 1 : \/ j < i /\ j \in 1 .. L /\ J[j] = s[j]
                                \/ j = i /\ J[j] = mid
                                \/ i < j /\ j - 1 \in 1 .. L /\ J[j] = s[j - 1]
  BY <1>1, <1>12 DEF Moved
<1>15. \A j \in 1 .. L + 1 : \/ j < i /\ j \in 1 .. L /\ u[j] = w[j]
                             \/ j = i /\ u[j] = c
                             \/ i < j /\ j - 1 \in 1 .. L /\ u[j] = w[j - 1]
  BY <1>10, <1>12 DEF Moved
<1>16. ASSUME NEW j \in 1 .. L + 1 PROVE H[u[j]].leaf /\ FitsAt(J, KeysAt(H, u[j]), 0, j)
  <2>1. j \in Nat \ {0} /\ i \in Nat \ {0}
    BY <1>11
  <2>2. CASE j < i
    <3>1. u[j] = t[j] /\ J[j] = s[j] /\ j \in 1 .. L
      BY <1>10, <1>14, <1>15, <2>1, <2>2
    <3>2. j > 1 => J[j - 1] = s[j - 1]
      <4>1. j > 1 => j - 1 \in 1 .. L + 1 /\ j - 1 < i
        BY <1>1, <2>1, <2>2
      <4>. QED  BY <1>14, <2>1, <4>1
    <3>3. H[t[j]].leaf /\ FitsAt(s, KeysAt(H, t[j]), i, j)
      BY <1>3, <3>1
    <3>4. Sorted(KeysAt(H, t[j])) /\ EndOf(KeysAt(H, t[j])) = s[j] /\ (j > 1 => AllAbove(KeysAt(H, t[j]), s[j - 1]))
      BY <2>1, <2>2, <3>3 DEF FitsAt
    <3>. QED  BY <3>1, <3>2, <3>3, <3>4 DEF FitsAt
  <2>3. CASE j = i
    <3>1. u[j] = c /\ J[j] = mid
      BY <1>14, <1>15, <2>1, <2>3
    <3>2. j > 1 => J[j - 1] = s[j - 1]
      <4>1. j > 1 => j - 1 \in 1 .. L + 1 /\ j - 1 < i
        BY <1>1, <2>1, <2>3
      <4>. QED  BY <1>14, <2>1, <4>1
    <3>3. H[c].leaf
      BY <1>3
    <3>. QED  BY <1>4, <1>5, <1>6, <2>3, <3>1, <3>2, <3>3 DEF FitsAt
  <2>4. CASE j = i + 1
    <3>1. i < j /\ j - 1 = i /\ j > 1
      BY <2>1, <2>4
    <3>2. u[j] = d /\ J[j] = s[i] /\ J[j - 1] = mid
      <4>1. u[j] = w[j - 1] /\ J[j] = s[j - 1]
        BY <1>14, <1>15, <2>1, <3>1
      <4>2. J[i] = mid
        BY <1>11, <1>14, <2>1
      <4>. QED  BY <1>10, <3>1, <4>1, <4>2
    <3>. QED  BY <1>4, <1>5, <3>1, <3>2 DEF FitsAt
  <2>5. CASE i + 1 < j
    <3>1. PICK h : h = j - 1
      OBVIOUS
    <3>2. h \in 1 .. L /\ i < j /\ i < h /\ h > 1 /\ h # i /\ j > 1 /\ j - 1 = h /\ h \in 1 .. L + 1 /\ h - 1 \in 1 .. L
      BY <1>1, <2>1, <2>5, <3>1
    <3>3. u[j] = w[h] /\ J[j] = s[h] /\ J[h] = s[h - 1] /\ w[h] = t[h]
      BY <1>10, <1>14, <1>15, <2>1, <3>2
    <3>4. H[t[h]].leaf /\ FitsAt(s, KeysAt(H, t[h]), i, h)
      BY <1>3, <3>2
    <3>5. Sorted(KeysAt(H, t[h])) /\ EndOf(KeysAt(H, t[h])) = s[h] /\ AllAbove(KeysAt(H, t[h]), s[h - 1])
      BY <3>2, <3>4 DEF FitsAt
    <3>6. u[j] = t[h] /\ J[j - 1] = s[h - 1]
      BY <3>2, <3>3
    <3>. QED  BY <3>3, <3>4, <3>5, <3>6 DEF FitsAt
  <2>. QED  BY <2>1, <2>2, <2>3, <2>4, <2>5
<1>17. LeavesFit(H, J, u, L + 1, 0)
  BY <1>16 DEF LeavesFit
<1>18. Within(u, L + 1, 1 .. Len(H))
  <2>1. \A j \in 1 .. L : w[j] \in 1 .. Len(H)
    BY <1>1, <1>10
  <2>. QED  BY <1>1, <1>15, <2>1 DEF Within
<1>. QED  BY <1>9, <1>13, <1>14, <1>17, <1>18

\* splitRoot: two leaves below a new root.
LEMMA TwoLeaves ==
    ASSUME NEW H, NEW R \in SUBSET Nat, NEW a \in R, NEW d \in R, H[a].leaf, H[d].leaf,
           NEW x, x = KeysAt(H, a), NEW y, y = KeysAt(H, d),
           Sorted(x), Sorted(y), AllAbove(y, EndOf(x)),
           NEW n, n = addItemAt(Internal(<<EndOf(x)>>, <<a>>), EndOf(y), d)
    PROVE  \E J, u : /\ n = Internal(J, u) /\ Sorted(J) /\ Len(J) = 2
                     /\ LeavesFit(H, J, u, 2, 0) /\ Within(u, 2, R)
<1>1. PICK e, f, s, t : e = EndOf(x) /\ f = EndOf(y) /\ s = <<EndOf(x)>> /\ t = <<a>>
  OBVIOUS
<1>2. e \in Nat /\ f \in Nat /\ e < f
  <2>1. Len(x) \in 1 .. Len(x) /\ Len(y) \in 1 .. Len(y)
    BY DEF Sorted
  <2>2. e \in Nat /\ f \in Nat
    BY <1>1, <2>1, SortedUpTo
  <2>3. e < y[Len(y)]
    BY <1>1, <2>1 DEF AllAbove
  <2>. QED  BY <1>1, <2>2, <2>3 DEF EndOf
<1>3. s \in Seq(Nat) /\ Len(s) = 1 /\ s[1] = e /\ t \in Seq(Nat) /\ Len(t) = 1 /\ t[1] = a
  BY <1>1, <1>2
<1>4. \A j \in 1 .. 1 : j = 1
  OBVIOUS
<1>5. Sorted(s) /\ EndOf(s) = e
  <2>1. \A i, j \in 1 .. 1 : ~(i < j)
    BY <1>4
  <2>. QED  BY <1>3, <2>1 DEF Sorted, EndOf
<1>6. PlaceFor(s, f) = 2 /\ CutAt(s, f, 2)
  <2>1. findPosition(s, f) = 0
    BY <1>2, <1>5, PositionIsFirst
  <2>2. 2 \in 1 .. 1 + 1 /\ \A j \in 1 .. 1 : ~(2 <= j) /\ s[j] < f
    BY <1>2, <1>3, <1>4
  <2>. QED  BY <1>3, <2>1, <2>2 DEF PlaceFor, CutAt
<1>7. PICK J, u : J = InsertAt(s, 2, f) /\ u = InsertAt(t, 2, d)
  OBVIOUS
<1>8. n = Internal(J, u)
  BY <1>1, <1>6, <1>7, AddItemPlace
<1>9. Sorted(J)
  BY <1>2, <1>5, <1>6, <1>7, InsertGrows DEF GrownBy
<1>10. Moved(J, s, f, 2) /\ Moved(u, t, d, 2)
  <2>1. 2 \in 1 .. 1 + 1
    OBVIOUS
  <2>. QED  BY <1>2, <1>3, <1>7, <2>1, InsertMoves
<1>11. Len(J) = 2 /\ J[1] = e /\ J[2] = f /\ u[1] = a /\ u[2] = d
  <2>1. 1 \in 1 .. 1 + 1 /\ 2 \in 1 .. 1 + 1 /\ ~(2 < 1) /\ ~(2 < 2)
    OBVIOUS
  <2>. QED  BY <1>3, <1>10, <2>1 DEF Moved
<1>12. FitsAt(J, x, 0, 1) /\ FitsAt(J, y, 0, 2)
  <2>1. 2 - 1 = 1 /\ ~(1 > 1)
    OBVIOUS
  <2>. QED  BY <1>1, <1>11, <2>1 DEF FitsAt
<1>13. LeavesFit(H, J, u, 2, 0)
  <2>1. \A j \in 1 .. 2 : j = 1 \/ j = 2
    OBVIOUS
  <2>. QED  BY <1>11, <1>12, <2>1 DEF LeavesFit
<1>14. Within(u, 2, R)
  <2>1. \A j \in 1 .. 2 : j = 1 \/ j = 2
    OBVIOUS
  <2>. QED  BY <1>11, <2>1 DEF Within
<1>. QED  BY <1>8, <1>9, <1>11, <1>13, <1>14

\* A new or changed root above leaves that stay as they are.
LEMMA RootChanged ==
    ASSUME NEW H, NEW G, NEW top, NEW J, NEW u, NEW L, G[top] = Internal(J, u), Len(J) = L,
           Sorted(J), LeavesFit(H, J, u, L, 0), \A j \in 1 .. L : G[u[j]] = H[u[j]]
    PROVE  BranchOrder(G, top, 0)
<1>1. ASSUME NEW j \in 1 .. L PROVE G[u[j]].leaf /\ FitsAt(J, KeysAt(G, u[j]), 0, j)
  BY DEF LeavesFit, KeysAt
<1>2. LeavesFit(G, J, u, L, 0)
  BY <1>1 DEF LeavesFit
<1>. QED  BY <1>2, BranchByLeaves

-----------------------------------------------------------------------------
(* The invariant: while no internal node has been split the root is a leaf *)
(* or has leaves below; the keys are in order but for the one on its way.  *)

AtRoot == ST = <<>> /\ ptr = root
BelowRoot(i) ==
  ST = <<[at |-> root, pos |-> i]>> /\ ptr = ChildAt(node, root, i) /\ BranchOrder(node, root, i)
Chosen == \E i : BelowRoot(i) /\ Pending(KeysAt(node, root), KeysAt(node, ptr), i, key)
TwoParts ==
  /\ node[ptr].leaf /\ node[newLeaf].leaf
  /\ \/ /\ AtRoot /\ Sorted(KeysAt(node, ptr)) /\ Sorted(KeysAt(node, newLeaf))
        /\ AllAbove(KeysAt(node, newLeaf), EndOf(KeysAt(node, ptr)))
     \/ \E i : /\ BelowRoot(i)
               /\ Parted(KeysAt(node, root), KeysAt(node, ptr), KeysAt(node, newLeaf), i, midvalue)
InOrderNow ==
  \/ pc = "idle" /\ (root = NoNode \/ Ordered(node, root))
  \/ pc = "descend" /\ AtRoot /\ Ordered(node, root)
  \/ pc = "descend" /\ Chosen
  \/ pc = "split" /\ TwoParts
OrderInv ==
  /\ input \in Inputs /\ innerSplits \in Nat
  /\ innerSplits = 0 => InOrderNow

LEMMA LeafShape ==
    ASSUME NEW U, NEW V, NEW p, NEW h, NEW l, NEW H, NEW in, NEW top,
           Tree(H, U, V, p, h, l, in, top), NEW a \in 1 .. Len(H), H[a].leaf
    PROVE  \E s, t : H[a] = Leaf(s, t) /\ KeysAt(H, a) = s /\ s \in Seq(Nat) /\ Len(s) \in 1 .. MAX_PER_NODE
<1>1. PICK L \in 1 .. MAX_PER_NODE : GoodLeaf(H[a], L, Of(h, a), in)
  BY AtNode
<1>2. PICK s, t : LeafOf(H[a], s, t, L, Of(h, a), in)
  BY <1>1 DEF GoodLeaf
<1>3. H[a] = Leaf(s, t) /\ s \in Seq(Nat) /\ Len(s) = L
  BY <1>2 DEF LeafOf
<1>. QED  BY <1>3, NodeFields DEF KeysAt

LEMMA AddItemOrder ==
    ASSUME BTreeInv, OrderInv, addItem
    PROVE  OrderInv'
<1>1. input' = input /\ innerSplits' = innerSplits /\ ST' = ST /\ pc = "idle" /\ ST = <<>>
  BY DEF addItem, BTreeInv
<1>2. SUFFICES ASSUME innerSplits = 0 PROVE InOrderNow'
  BY <1>1 DEF OrderInv
<1>3. CASE root = NoNode
  <2>1. node' = <<Leaf(<<key>>, <<<<value>>>>)>> /\ root' = 1 /\ pc' = "idle"
    BY <1>1, <1>3 DEF addItem
  <2>2. key \in Nat
    <3>1. Typed(input, items) /\ Len(items) < Len(input)
      BY DEF BTreeInv, addItem
    <3>. QED  BY <3>1, KeyTyped
  <2>3. PICK s, t, n : s = <<key>> /\ t = <<<<value>>>> /\ n = Leaf(s, t)
    OBVIOUS
  <2>4. Sorted(s)
    <3>1. s \in Seq(Nat) /\ Len(s) = 1
      BY <2>2, <2>3
    <3>2. \A i, j \in 1 .. 1 : ~(i < j)
      OBVIOUS
    <3>. QED  BY <3>1, <3>2 DEF Sorted
  <2>5. node'[1] = n
    <3>1. node' = <<n>>
      BY <2>1, <2>3
    <3>. QED  BY <3>1
  <2>6. Ordered(node', 1)
    BY <2>3, <2>4, <2>5, NodeFields DEF Ordered, KeysAt
  <2>. QED  BY <2>1, <2>6 DEF InOrderNow
<1>4. CASE root # NoNode
  <2>1. pc' = "descend" /\ ptr' = root /\ node' = node /\ root' = root
    BY <1>4 DEF addItem
  <2>2. Ordered(node, root)
    BY <1>1, <1>2, <1>4 DEF OrderInv, InOrderNow
  <2>. QED  BY <1>1, <2>1, <2>2 DEF InOrderNow, AtRoot
<1>. QED  BY <1>3, <1>4

LEMMA DescendOrder ==
    ASSUME BTreeInv, OrderInv, descend
    PROVE  OrderInv'
<1>1. /\ input' = input /\ innerSplits' = innerSplits /\ root' = root /\ items' = items /\ pc' = pc
      /\ pc = "descend" /\ ~node[ptr].leaf
  BY DEF descend
<1>2. SUFFICES ASSUME innerSplits = 0 PROVE InOrderNow'
  BY <1>1 DEF OrderInv
<1>3. PICK p, h, l : /\ Tree(node, 1 .. Len(node) \ {root}, 1 .. Len(items), p, h, l, input, root)
                     /\ Typed(input, items) /\ Len(items) < Len(input)
  BY <1>1 DEF BTreeInv, Descending
<1>4. ~Chosen
  <2> SUFFICES ASSUME NEW i, BelowRoot(i), Pending(KeysAt(node, root), KeysAt(node, ptr), i, key) PROVE FALSE
    BY DEF Chosen
  <2>1. ptr = ChildAt(node, root, i) /\ BranchOrder(node, root, i) /\ i \in 1 .. Len(KeysAt(node, root))
    BY DEF BelowRoot, Pending
  <2>2. node[ptr].leaf
    BY <2>1 DEF BranchOrder, ChildFits
  <2>. QED  BY <1>1, <2>2
<1>5. AtRoot /\ Ordered(node, root)
  BY <1>1, <1>2, <1>4 DEF OrderInv, InOrderNow
<1>6. ptr = root /\ ST = <<>> /\ BranchOrder(node, root, 0)
  BY <1>1, <1>5 DEF AtRoot, Ordered
<1>7. PICK L \in 1 .. MAX_PER_NODE : \E s, t : BranchShape(node, root, L, s, t)
  BY <1>1, <1>3, <1>6, ShapeOfRoot
<1>8. PICK s, t : BranchShape(node, root, L, s, t)
  BY <1>7
<1>9. KeysAt(node, root) = s /\ Len(s) = L /\ node[root].keys = s /\ node[root].ptr = t
  <2>1. KeysAt(node, root) = s /\ Len(s) = L
    BY <1>8, ShapeFields
  <2>2. node[root] = Internal(s, t)
    BY <1>8 DEF BranchShape
  <2>3. Internal(s, t).keys = s /\ Internal(s, t).ptr = t
    BY NodeFields
  <2>. QED  BY <2>1, <2>2, <2>3, Zenon
<1>10. key \in Nat
  BY <1>3, KeyTyped
<1>11. PICK f, i, c, G, k : /\ f = findPosition(s, key) /\ i = (IF f = 0 THEN L ELSE f) /\ c = t[i]
                            /\ G = LoweredTo(node, root, key, i) /\ k = key
  OBVIOUS
<1>12. node' = G /\ ST' = <<[at |-> root, pos |-> i]>> \o <<>> /\ ptr' = c
  BY <1>6, <1>9, <1>11 DEF descend, LoweredTo, WithKey
<1>13. ST' = <<[at |-> root, pos |-> i]>>
  BY <1>12
<1>14. /\ BranchOrder(G, root, i) /\ ChildAt(G, root, i) = c
       /\ Pending(KeysAt(G, root), KeysAt(G, c), i, k)
  BY <1>6, <1>8, <1>10, <1>11, LeafChosen
<1>15. key' = k
  BY <1>1, <1>11 DEF key
<1>16. BelowRoot(i)' /\ Pending(KeysAt(node, root), KeysAt(node, ptr), i, key)'
  BY <1>1, <1>12, <1>13, <1>14, <1>15 DEF BelowRoot
<1>17. Chosen'
  BY <1>16 DEF Chosen
<1>. QED  BY <1>1, <1>17 DEF InOrderNow

LEMMA LeafAddItemOrder ==
    ASSUME BTreeInv, OrderInv, leafAddItem
    PROVE  OrderInv'
<1>1. /\ input' = input /\ innerSplits' = innerSplits /\ root' = root /\ pc' = "idle"
      /\ pc = "descend" /\ node[ptr].leaf
      /\ node' = [node EXCEPT ![ptr] = addValue(node[ptr], key, value)]
  BY DEF leafAddItem, Inserted
<1>2. SUFFICES ASSUME innerSplits = 0 PROVE InOrderNow'
  BY <1>1 DEF OrderInv
<1>3. PICK p, h, l : /\ Tree(node, 1 .. Len(node) \ {root}, 1 .. Len(items), p, h, l, input, root)
                     /\ Way(node, l, ST, ptr, root) /\ Typed(input, items) /\ Len(items) < Len(input)
  BY <1>1 DEF BTreeInv, Descending
<1>4. ptr \in 1 .. Len(node) /\ node \in Seq(Nodes)
  BY <1>3 DEF Way, Tree
<1>5. PICK s, t : node[ptr] = Leaf(s, t) /\ KeysAt(node, ptr) = s
  BY <1>1, <1>3, <1>4, LeafShape
<1>6. key \in Nat
  BY <1>3, KeyTyped
<1>7. PICK m, G, v, k : m = addValue(node[ptr], key, value) /\ G = node' /\ v = value /\ k = key
  OBVIOUS
<1>8. G[ptr] = m /\ KeysAt(G, ptr) = m.keys /\ \A a \in 1 .. Len(node) : a # ptr => G[a] = node[a]
  BY <1>1, <1>4, <1>7 DEF KeysAt
<1>9. Sorted(s) => m.leaf /\ GrownBy(m.keys, s, k)
  BY <1>5, <1>6, <1>7, AddValueGrows
<1>10. CASE AtRoot /\ Ordered(node, root)
  <2>1. ptr = root /\ Sorted(s)
    BY <1>1, <1>5, <1>10 DEF AtRoot, Ordered
  <2>2. Ordered(G, root)
    BY <1>8, <1>9, <2>1 DEF Ordered, GrownBy
  <2>. QED  BY <1>1, <1>7, <2>2 DEF InOrderNow
<1>11. CASE Chosen
  <2>1. PICK i : BelowRoot(i) /\ Pending(KeysAt(node, root), KeysAt(node, ptr), i, k)
    BY <1>7, <1>11 DEF Chosen
  <2>2. ptr = ChildAt(node, root, i) /\ BranchOrder(node, root, i)
    BY <2>1 DEF BelowRoot
  <2>3. PICK L \in 1 .. MAX_PER_NODE : \E x, y : BranchShape(node, root, L, x, y)
    BY <1>3, <2>2, ShapeOfRoot DEF BranchOrder
  <2>4. PICK K, y : BranchShape(node, root, L, K, y)
    BY <2>3
  <2>5. KeysAt(node, root) = K /\ Len(K) = L /\ ptr = y[i] /\ Pending(K, s, i, k)
    BY <1>5, <2>1, <2>2, <2>4, ShapeFields
  <2>6. i \in 1 .. L
    BY <2>5 DEF Pending
  <2>7. Sorted(K) /\ FitsAt(K, s, i, i)
    <3>1. Sorted(K) /\ ChildFits(node, root, i, i)
      BY <2>2, <2>5, <2>6 DEF BranchOrder
    <3>2. FitsAt(KeysAt(node, root), KeysAt(node, ChildAt(node, root, i)), i, i)
      BY <3>1 DEF ChildFits
    <3>. QED  BY <1>5, <2>2, <2>5, <3>1, <3>2
  <2>8. m.leaf /\ GrownBy(m.keys, s, k)
    BY <1>9, <2>7 DEF FitsAt
  <2>9. FitsAt(K, m.keys, 0, i)
    BY <1>6, <1>7, <2>5, <2>7, <2>8, LeafGrown
  <2>10. BranchOrder(G, root, 0)
    <3>1. Others(node, G, ptr)
      BY <1>8 DEF Others
    <3>. QED  BY <1>8, <2>2, <2>4, <2>5, <2>6, <2>8, <2>9, <3>1, LeafReplaced
  <2>. QED  BY <1>1, <1>7, <2>10 DEF InOrderNow, Ordered, BranchOrder
<1>. QED  BY <1>1, <1>2, <1>10, <1>11 DEF OrderInv, InOrderNow

LEMMA HeapParts ==
    ASSUME NEW H \in Seq(Nodes), NEW a \in 1 .. Len(H), NEW low, NEW up,
           NEW J, J = Append([H EXCEPT ![a] = low], up)
    PROVE  /\ J[Len(H) + 1] = up /\ J[a] = low
           /\ \A n \in 1 .. Len(H) : n # a => J[n] = H[n]
<1>1. PICK S : S = Nodes \cup {low, up}
  OBVIOUS
<1>2. H \in Seq(S) /\ low \in S /\ up \in S
  <2>1. \A i \in 1 .. Len(H) : H[i] \in S
    BY <1>1
  <2>. QED  BY <1>1, <2>1
<1>3. PICK G : G = [H EXCEPT ![a] = low]
  OBVIOUS
<1>4. G \in Seq(S) /\ Len(G) = Len(H) /\ G[a] = low /\ \A n \in 1 .. Len(H) : n # a => G[n] = H[n]
  BY <1>2, <1>3
<1>5. J = Append(G, up)
  BY <1>3
<1>6. J[Len(H) + 1] = up /\ \A n \in 1 .. Len(H) : J[n] = G[n]
  BY <1>2, <1>4, <1>5
<1>. QED  BY <1>4, <1>6

\* The place of the root that the way goes through.
LEMMA WayThroughRoot ==
    ASSUME NEW U, NEW V, NEW p, NEW h, NEW l, Tree(node, U, V, p, h, l, input, root),
           NEW i, BelowRoot(i), i \in 1 .. Len(KeysAt(node, root))
    PROVE  \E L \in 1 .. MAX_PER_NODE : \E K, y :
             /\ BranchShape(node, root, L, K, y) /\ KeysAt(node, root) = K /\ Len(K) = L /\ i \in 1 .. L
             /\ ptr = y[i] /\ Sorted(K) /\ FitsAt(K, KeysAt(node, ptr), i, i) /\ node[ptr].leaf
<1>1. ptr = ChildAt(node, root, i) /\ BranchOrder(node, root, i)
  BY DEF BelowRoot
<1>2. PICK L \in 1 .. MAX_PER_NODE : \E x, y : BranchShape(node, root, L, x, y)
  BY <1>1, ShapeOfRoot DEF BranchOrder
<1>3. PICK K, y : BranchShape(node, root, L, K, y)
  BY <1>2
<1>4. KeysAt(node, root) = K /\ Len(K) = L /\ ptr = y[i] /\ i \in 1 .. L
  BY <1>1, <1>3, ShapeFields
<1>5. Sorted(K) /\ ChildFits(node, root, i, i)
  BY <1>1, <1>4 DEF BranchOrder
<1>6. FitsAt(K, KeysAt(node, ptr), i, i) /\ node[ptr].leaf
  BY <1>1, <1>4, <1>5 DEF ChildFits
<1>. QED  BY <1>3, <1>4, <1>5, <1>6

LEMMA SplitLeafOrder ==
    ASSUME BTreeInv, OrderInv, splitLeaf
    PROVE  OrderInv'
<1>1. /\ input' = input /\ innerSplits' = innerSplits /\ pc = "descend" /\ pc' = "split"
      /\ node[ptr].leaf /\ IsFull(node[ptr])
  BY DEF splitLeaf
<1>2. SUFFICES ASSUME innerSplits = 0 PROVE InOrderNow'
  BY <1>1 DEF OrderInv
<1>3. PICK p, h, l : /\ Tree(node, 1 .. Len(node) \ {root}, 1 .. Len(items), p, h, l, input, root)
                     /\ Way(node, l, ST, ptr, root) /\ Typed(input, items) /\ Len(items) < Len(input)
  BY <1>1 DEF BTreeInv, Descending
<1>4. ptr \in 1 .. Len(node) /\ node \in Seq(Nodes) /\ root \in 1 .. Len(node)
  BY <1>3 DEF Way, Tree, Levels
<1>5. PICK s, t : node[ptr] = Leaf(s, t) /\ KeysAt(node, ptr) = s /\ s \in Seq(Nat) /\ Len(s) \in 1 .. MAX_PER_NODE
  BY <1>1, <1>3, <1>4, LeafShape
<1>6. Len(s) = MAX_PER_NODE
  <2>1. node[ptr].keys = s
    BY <1>5 DEF KeysAt
  <2>. QED  BY <1>1, <1>5, <2>1, BTreeAssumption DEF IsFull
<1>7. key \in Nat
  BY <1>3, KeyTyped
<1>8. PICK n, k, v, mid, d : n = node[ptr] /\ k = key /\ v = value /\ mid = n.keys[midIndex] /\ d = Len(node) + 1
  OBVIOUS
<1>9. PICK low, up, x, y : low = LowerLeaf(n, k, v) /\ up = UpperLeaf(n, k, v) /\ x = low.keys /\ y = up.keys
  OBVIOUS
<1>10. /\ node' = Append([node EXCEPT ![ptr] = low], up) /\ midvalue' = mid
       /\ newLeaf' = d /\ root' = root /\ ptr' = ptr /\ ST' = ST
  BY <1>8, <1>9 DEF splitLeaf, LowerLeaf, UpperLeaf, treeNodes
<1>11. PICK G : G = node'
  OBVIOUS
<1>12. G[d] = up /\ G[ptr] = low /\ \A a \in 1 .. Len(node) : a # ptr => G[a] = node[a]
  BY <1>4, <1>8, <1>10, <1>11, HeapParts
<1>13. KeysAt(G, ptr) = x /\ KeysAt(G, d) = y
  BY <1>9, <1>12 DEF KeysAt
<1>14. ASSUME Sorted(s)
       PROVE  low.leaf /\ up.leaf /\ mid \in Nat /\ mid <= EndOf(s) /\ SplitOrder(x, y, s, k, mid)
  BY <1>5, <1>6, <1>7, <1>8, <1>9, <1>14, SplitInOrder
<1>15. CASE AtRoot /\ Ordered(node, root)
  <2>1. ptr = root /\ ST = <<>> /\ Sorted(s)
    BY <1>1, <1>5, <1>15 DEF AtRoot, Ordered
  <2>2. Sorted(x) /\ Sorted(y) /\ AllAbove(y, EndOf(x))
    BY <1>14, <2>1 DEF SplitOrder
  <2>3. TwoParts'
    BY <1>10, <1>11, <1>12, <1>13, <1>14, <2>1, <2>2 DEF TwoParts, AtRoot
  <2>. QED  BY <1>1, <2>3 DEF InOrderNow
<1>16. CASE Chosen
  <2>1. PICK i : BelowRoot(i) /\ Pending(KeysAt(node, root), KeysAt(node, ptr), i, k)
    BY <1>8, <1>16 DEF Chosen
  <2>2. i \in 1 .. Len(KeysAt(node, root))
    BY <2>1 DEF Pending
  <2>3. PICK L \in 1 .. MAX_PER_NODE : \E K, z :
          /\ BranchShape(node, root, L, K, z) /\ KeysAt(node, root) = K /\ Len(K) = L /\ i \in 1 .. L
          /\ ptr = z[i] /\ Sorted(K) /\ FitsAt(K, KeysAt(node, ptr), i, i) /\ node[ptr].leaf
    BY <1>3, <2>1, <2>2, WayThroughRoot
  <2>4. PICK K, z :
          /\ BranchShape(node, root, L, K, z) /\ KeysAt(node, root) = K /\ Len(K) = L /\ i \in 1 .. L
          /\ ptr = z[i] /\ Sorted(K) /\ FitsAt(K, KeysAt(node, ptr), i, i) /\ node[ptr].leaf
    BY <2>3
  <2>5. Pending(K, s, i, k) /\ FitsAt(K, s, i, i) /\ Sorted(s)
    BY <1>5, <2>1, <2>4 DEF FitsAt
  <2>6. FitsAt(K, x, i, i) /\ Parted(K, x, y, i, mid)
    BY <1>7, <1>8, <1>14, <2>4, <2>5, LeafParted
  <2>7. BranchOrder(node, root, i) /\ ST = <<[at |-> root, pos |-> i]>> /\ ptr = ChildAt(node, root, i)
    BY <2>1 DEF BelowRoot
  <2>8. BranchOrder(G, root, i) /\ G[root] = node[root]
    <3>1. FitsAt(K, KeysAt(G, ptr), i, i) /\ G[ptr].leaf
      BY <1>12, <1>13, <1>14, <2>5, <2>6
    <3>2. Others(node, G, ptr)
      BY <1>12 DEF Others
    <3>3. BranchShape(node, root, L, K, z) /\ i \in 1 .. L /\ ptr = z[i]
      BY <2>4
    <3>4. BranchOrder(node, root, i)
      BY <2>7
    <3>. QED  BY <3>1, <3>2, <3>3, <3>4, LeafReplaced
  <2>9. KeysAt(G, root) = K /\ ChildAt(G, root, i) = ptr
    BY <2>4, <2>7, <2>8 DEF KeysAt, ChildAt
  <2>10. BelowRoot(i)'
    BY <1>10, <1>11, <2>7, <2>8, <2>9 DEF BelowRoot
  <2>11. Parted(KeysAt(node, root), KeysAt(node, ptr), KeysAt(node, newLeaf), i, midvalue)'
    BY <1>10, <1>11, <1>13, <2>6, <2>9
  <2>12. TwoParts'
    BY <1>10, <1>11, <1>12, <1>14, <2>5, <2>10, <2>11 DEF TwoParts
  <2>. QED  BY <1>1, <2>12 DEF InOrderNow
<1>. QED  BY <1>1, <1>2, <1>15, <1>16 DEF OrderInv, InOrderNow

LEMMA AddToParentOrder ==
    ASSUME BTreeInv, OrderInv, addToParent
    PROVE  OrderInv'
<1>1. /\ input' = input /\ innerSplits' = innerSplits /\ root' = root /\ pc = "split" /\ pc' = "idle"
      /\ ST # <<>> /\ newLeaf \in 1 .. Len(node) \ {root, ptr} /\ midvalue \in Nat
  BY DEF BTreeInv, addToParent, Splitting, Inserted
<1>2. SUFFICES ASSUME innerSplits = 0 PROVE InOrderNow'
  BY <1>1 DEF OrderInv
<1>3. PICK U : U = 1 .. Len(node) \ {root, newLeaf}
  OBVIOUS
<1>4. PICK p, h, l : Tree(node, U, 1 .. Len(items) \cup {value}, p, h, l, input, root)
  BY <1>1, <1>3 DEF BTreeInv, Splitting
<1>5. TwoParts
  BY <1>1, <1>2 DEF OrderInv, InOrderNow
<1>6. PICK i : /\ BelowRoot(i)
               /\ Parted(KeysAt(node, root), KeysAt(node, ptr), KeysAt(node, newLeaf), i, midvalue)
  BY <1>1, <1>5 DEF TwoParts, AtRoot
<1>7. i \in 1 .. Len(KeysAt(node, root))
  BY <1>6 DEF Parted
<1>8. PICK L \in 1 .. MAX_PER_NODE : \E K, z :
        /\ BranchShape(node, root, L, K, z) /\ KeysAt(node, root) = K /\ Len(K) = L /\ i \in 1 .. L
        /\ ptr = z[i] /\ Sorted(K) /\ FitsAt(K, KeysAt(node, ptr), i, i) /\ node[ptr].leaf
  BY <1>4, <1>6, <1>7, WayThroughRoot
<1>9. PICK K, z :
        /\ BranchShape(node, root, L, K, z) /\ KeysAt(node, root) = K /\ Len(K) = L /\ i \in 1 .. L
        /\ ptr = z[i] /\ Sorted(K) /\ FitsAt(K, KeysAt(node, ptr), i, i) /\ node[ptr].leaf
  BY <1>8
<1>10. PICK c, d, mid, n : c = ptr /\ d = newLeaf /\ mid = midvalue /\ n = addItemAt(WithChild(node[root], i, d), mid, c)
  OBVIOUS
<1>11. BranchOrder(node, root, i) /\ ST = <<[at |-> root, pos |-> i]>>
  BY <1>6 DEF BelowRoot
<1>12. Head(ST).at = root /\ Head(ST).pos = i
  BY <1>11
<1>13. node' = [node EXCEPT ![root] = n]
  BY <1>10, <1>12 DEF addToParent, WithUpper, WithChild, Parent
<1>14. d \in 1 .. Len(node) /\ node[d].leaf
  BY <1>1, <1>5, <1>10 DEF TwoParts
<1>15. \E J, u : /\ n = Internal(J, u) /\ Sorted(J) /\ Len(J) = L + 1
                 /\ LeavesFit(node, J, u, L + 1, 0) /\ Within(u, L + 1, 1 .. Len(node))
  <2>1. Parted(K, KeysAt(node, c), KeysAt(node, d), i, mid) /\ mid \in Nat /\ c = z[i]
    BY <1>1, <1>6, <1>9, <1>10
  <2>2. BranchShape(node, root, L, K, z) /\ i \in 1 .. L
    BY <1>9
  <2>. QED  BY <1>10, <1>11, <1>14, <2>1, <2>2, LeavesJoined
<1>16. PICK J, u : /\ n = Internal(J, u) /\ Sorted(J) /\ Len(J) = L + 1
                  /\ LeavesFit(node, J, u, L + 1, 0) /\ Within(u, L + 1, 1 .. Len(node))
  BY <1>15
<1>17. PICK G : G = node'
  OBVIOUS
<1>18. G[root] = n /\ \A a \in 1 .. Len(node) : a # root => G[a] = node[a]
  <2>1. node \in Seq(Nodes) /\ root \in 1 .. Len(node)
    BY <1>4 DEF Tree, Levels
  <2>. QED  BY <1>13, <1>17, <2>1
<1>19. \A j \in 1 .. L + 1 : G[u[j]] = node[u[j]]
  <2>1. ~node[root].leaf
    BY <1>11 DEF BranchOrder
  <2>2. ASSUME NEW j \in 1 .. L + 1 PROVE u[j] \in 1 .. Len(node) /\ u[j] # root
    BY <1>16, <2>1, <2>2 DEF Within, LeavesFit
  <2>. QED  BY <1>18, <2>2
<1>20. BranchOrder(G, root, 0)
  BY <1>16, <1>18, <1>19, RootChanged
<1>21. Ordered(G, root)
  BY <1>20 DEF Ordered, BranchOrder
<1>. QED  BY <1>1, <1>17, <1>21 DEF InOrderNow

LEMMA SplitRootOrder ==
    ASSUME BTreeInv, OrderInv, splitRoot
    PROVE  OrderInv'
<1>1. /\ input' = input /\ innerSplits' = innerSplits /\ pc = "split" /\ pc' = "idle"
      /\ ST = <<>> /\ newLeaf \in 1 .. Len(node) \ {root, ptr}
  BY DEF BTreeInv, splitRoot, Splitting, Inserted
<1>2. SUFFICES ASSUME innerSplits = 0 PROVE InOrderNow'
  BY <1>1 DEF OrderInv
<1>3. PICK U : U = 1 .. Len(node) \ {root, newLeaf}
  OBVIOUS
<1>4. PICK p, h, l : /\ Tree(node, U, 1 .. Len(items) \cup {value}, p, h, l, input, root)
                     /\ Way(node, l, ST, ptr, root)
  BY <1>1, <1>3 DEF BTreeInv, Splitting
<1>5. TwoParts
  BY <1>1, <1>2 DEF OrderInv, InOrderNow
<1>6. /\ Sorted(KeysAt(node, ptr)) /\ Sorted(KeysAt(node, newLeaf))
      /\ AllAbove(KeysAt(node, newLeaf), EndOf(KeysAt(node, ptr)))
      /\ node[ptr].leaf /\ node[newLeaf].leaf
  <2>1. ~\E i : BelowRoot(i)
    BY <1>1 DEF BelowRoot
  <2>. QED  BY <1>5, <2>1 DEF TwoParts
<1>7. PICK a, d, x, y : a = ptr /\ d = newLeaf /\ x = KeysAt(node, a) /\ y = KeysAt(node, d)
  OBVIOUS
<1>8. node \in Seq(Nodes) /\ a \in 1 .. Len(node) /\ d \in 1 .. Len(node)
  BY <1>1, <1>4, <1>7 DEF Tree, Way
<1>9. Last(node[ptr].keys) = EndOf(x) /\ Last(node[newLeaf].keys) = EndOf(y)
  BY <1>7 DEF KeysAt, EndOf, Last
<1>10. PICK n, G, b : n = addItemAt(Internal(<<EndOf(x)>>, <<a>>), EndOf(y), d) /\ G = node' /\ b = Len(node) + 1
  OBVIOUS
<1>11. G = Append(node, n) /\ root' = b
  BY <1>7, <1>9, <1>10 DEF splitRoot, treeNodes
<1>12. \E J, u : /\ n = Internal(J, u) /\ Sorted(J) /\ Len(J) = 2
                 /\ LeavesFit(node, J, u, 2, 0) /\ Within(u, 2, 1 .. Len(node))
  <2>1. PICK R : R = 1 .. Len(node)
    OBVIOUS
  <2>2. R \in SUBSET Nat /\ a \in R /\ d \in R
    BY <1>8, <2>1
  <2>3. Sorted(x) /\ Sorted(y) /\ AllAbove(y, EndOf(x)) /\ node[a].leaf /\ node[d].leaf
    BY <1>6, <1>7
  <2>4. \E J, u : /\ n = Internal(J, u) /\ Sorted(J) /\ Len(J) = 2
                  /\ LeavesFit(node, J, u, 2, 0) /\ Within(u, 2, R)
    BY <1>7, <1>10, <2>2, <2>3, TwoLeaves
  <2>. QED  BY <2>1, <2>4
<1>13. PICK J, u : /\ n = Internal(J, u) /\ Sorted(J) /\ Len(J) = 2
                  /\ LeavesFit(node, J, u, 2, 0) /\ Within(u, 2, 1 .. Len(node))
  BY <1>12
<1>14. G[b] = n /\ \A m \in 1 .. Len(node) : G[m] = node[m]
  <2>1. PICK S : S = Nodes \cup {n}
    OBVIOUS
  <2>2. node \in Seq(S) /\ n \in S
    <3>1. \A m \in 1 .. Len(node) : node[m] \in S
      BY <1>8, <2>1
    <3>. QED  BY <1>8, <2>1, <3>1
  <2>. QED  BY <1>10, <1>11, <2>2
<1>15. \A j \in 1 .. 2 : G[u[j]] = node[u[j]]
  BY <1>13, <1>14 DEF Within
<1>16. BranchOrder(G, b, 0)
  BY <1>13, <1>14, <1>15, RootChanged
<1>17. Ordered(G, b)
  BY <1>16 DEF Ordered, BranchOrder
<1>. QED  BY <1>1, <1>10, <1>11, <1>17 DEF InOrderNow

LEMMA SplitParentOrder ==
    ASSUME OrderInv, splitParent
    PROVE  OrderInv'
<1>1. innerSplits' = innerSplits + 1 /\ input' = input
  BY DEF splitParent
<1>2. innerSplits' \in Nat /\ innerSplits' # 0
  BY <1>1 DEF OrderInv
<1>. QED  BY <1>1, <1>2 DEF OrderInv

LEMMA StutterOrder ==
    ASSUME OrderInv, UNCHANGED treeVars
    PROVE  OrderInv'
BY DEF OrderInv, treeVars, InOrderNow, AtRoot, Chosen, TwoParts, BelowRoot, Ordered, key

LEMMA BTreeInitOrder ==
    ASSUME BTreeInit
    PROVE  OrderInv
BY DEF BTreeInit, OrderInv, InOrderNow

LEMMA KeysInOrder == BTreeSpec => []OrderInv
<1>1. BTreeInit => OrderInv
  BY BTreeInitOrder
<1>2. BTreeInv /\ OrderInv /\ [BTreeNext]_treeVars => OrderInv'
  BY AddItemOrder, DescendOrder, LeafAddItemOrder, SplitLeafOrder, AddToParentOrder, SplitParentOrder,
     SplitRootOrder, StutterOrder DEF BTreeNext
<1>. QED  BY <1>1, <1>2, BTreeInvariant, PTL DEF BTreeSpec

-----------------------------------------------------------------------------
(* The order of the contents.                                              *)

\* The keys of s ascend, and are not above b.
KeysUp(s) == \A i, j \in 1 .. Len(s) : i < j => KeyAt(s, i) < KeyAt(s, j)
UpTo(s, b) == \A i \in 1 .. Len(s) : KeyAt(s, i) <= b
KeysAbove(s, b) == \A i \in 1 .. Len(s) : b < KeyAt(s, i)

LEMMA JoinedUp ==
    ASSUME NEW s \in Seq(Pairs), NEW t \in Seq(Pairs), NEW b \in Nat, NEW d \in Nat, b < d,
           KeysUp(s), UpTo(s, b), KeysUp(t), UpTo(t, d), KeysAbove(t, b)
    PROVE  KeysUp(s \o t) /\ UpTo(s \o t, d)
<1>1. PICK m, n, u : m = Len(s) /\ n = Len(t) /\ u = s \o t
  OBVIOUS
<1>2. /\ m \in Nat /\ n \in Nat /\ Len(u) = m + n
      /\ \A i \in 1 .. m : u[i] = s[i] /\ KeyAt(s, i) \in Nat
      /\ \A i \in 1 .. n : u[m + i] = t[i] /\ KeyAt(t, i) \in Nat
  <2>1. \A x \in Pairs : x[1] \in Nat
    BY DEF Pairs
  <2>2. (\A i \in 1 .. m : s[i] \in Pairs) /\ \A i \in 1 .. n : t[i] \in Pairs
    BY <1>1
  <2>3. (\A i \in 1 .. m : KeyAt(s, i) \in Nat) /\ \A i \in 1 .. n : KeyAt(t, i) \in Nat
    BY <2>1, <2>2 DEF KeyAt
  <2>4. m \in Nat /\ n \in Nat /\ Len(u) = m + n
    BY <1>1
  <2>5. (\A i \in 1 .. m : u[i] = s[i]) /\ \A i \in 1 .. n : u[m + i] = t[i]
    BY <1>1
  <2>. QED  BY <2>3, <2>4, <2>5
<1>3. /\ \A i \in 1 .. m : KeyAt(u, i) = KeyAt(s, i) /\ KeyAt(u, i) \in Nat /\ KeyAt(u, i) <= b
      /\ \A i \in 1 .. n : KeyAt(u, m + i) = KeyAt(t, i) /\ KeyAt(u, m + i) \in Nat
                           /\ b < KeyAt(u, m + i) /\ KeyAt(u, m + i) <= d
  BY <1>1, <1>2 DEF KeyAt, UpTo, KeysAbove
<1>4. \A i \in 1 .. m + n : i \in 1 .. m \/ \E x \in 1 .. n : i = m + x
  <2> TAKE i \in 1 .. m + n
  <2>1. CASE i <= m
    BY <1>2, <2>1
  <2>2. CASE ~(i <= m)
    <3>1. i - m \in 1 .. n /\ i = m + (i - m)
      BY <1>2, <2>2
    <3>. QED  BY <3>1
  <2>. QED  BY <2>1, <2>2
<1>5. ASSUME NEW i \in 1 .. m + n, NEW j \in 1 .. m + n, i < j PROVE KeyAt(u, i) < KeyAt(u, j)
  <2>1. CASE i \in 1 .. m /\ j \in 1 .. m
    BY <1>1, <1>3, <1>5, <2>1 DEF KeysUp
  <2>2. CASE i \in 1 .. m /\ j \notin 1 .. m
    <3>1. PICK y \in 1 .. n : j = m + y
      BY <1>4, <2>2
    <3>2. PICK a, e : a = KeyAt(u, i) /\ e = KeyAt(u, j)
      OBVIOUS
    <3>3. a \in Nat /\ e \in Nat /\ a <= b /\ b < e
      BY <1>3, <2>2, <3>1, <3>2
    <3>. QED  BY <3>2, <3>3
  <2>3. CASE i \notin 1 .. m
    <3>1. PICK x \in 1 .. n : i = m + x
      BY <1>4, <2>3
    <3>2. j \notin 1 .. m
      BY <1>2, <1>5, <3>1
    <3>3. PICK y \in 1 .. n : j = m + y
      BY <1>4, <3>2
    <3>4. x < y
      BY <1>2, <1>5, <3>1, <3>3
    <3>5. KeyAt(t, x) < KeyAt(t, y)
      BY <1>1, <3>4 DEF KeysUp
    <3>. QED  BY <1>3, <3>1, <3>3, <3>5
  <2>. QED  BY <2>1, <2>2, <2>3
<1>6. ASSUME NEW i \in 1 .. m + n PROVE KeyAt(u, i) <= d
  <2>1. CASE i \in 1 .. m
    <3>1. PICK a : a = KeyAt(u, i)
      OBVIOUS
    <3>2. a \in Nat /\ a <= b
      BY <1>3, <2>1, <3>1
    <3>. QED  BY <3>1, <3>2
  <2>2. CASE i \notin 1 .. m
    BY <1>3, <1>4, <2>2
  <2>. QED  BY <2>1, <2>2
<1>7. KeysUp(u) /\ UpTo(u, d)
  BY <1>2, <1>5, <1>6 DEF KeysUp, UpTo
<1>. QED  BY <1>1, <1>7

\* Parts whose keys are between ascending bounds.
Between(s, b) ==
  \A i \in 1 .. Len(s) : KeysUp(s[i]) /\ UpTo(s[i], b[i]) /\ (i > 1 => KeysAbove(s[i], b[i - 1]))
LEMMA FlattenUp ==
    ASSUME NEW s \in Seq(Seq(Pairs)), s # <<>>, NEW b, Sorted(b), Len(b) = Len(s), Between(s, b)
    PROVE  KeysUp(FlattenSeq(s))
<1>1. PICK f \in Flattenings(s, Pairs) : FlattenSeq(s) = f[Len(s)]
  BY FlattenBy
<1>2. /\ f \in [1 .. Len(s) -> Seq(Pairs)] /\ f[1] = s[1]
      /\ \A i \in 2 .. Len(s) : f[i] = f[i - 1] \o s[i]
  BY Zenon DEF Flattenings
<1>3. PICK N : N = Len(s) /\ N \in Nat \ {0}
  <2>1. Len(s) \in Nat \ {0}
    OBVIOUS
  <2>. QED  BY <2>1
<1>4. /\ \A i \in 1 .. N : b[i] \in Nat /\ f[i] \in Seq(Pairs) /\ s[i] \in Seq(Pairs)
      /\ \A i, j \in 1 .. N : i < j => b[i] < b[j]
  <2>1. b \in Seq(Nat) /\ Len(b) = N /\ \A i, j \in 1 .. Len(b) : i < j => b[i] < b[j]
    BY <1>3 DEF Sorted
  <2>2. \A i \in 1 .. N : b[i] \in Nat
    BY <2>1
  <2>3. \A i \in 1 .. N : f[i] \in Seq(Pairs)
    BY <1>2, <1>3
  <2>4. \A i \in 1 .. N : s[i] \in Seq(Pairs)
    BY <1>3
  <2>. QED  BY <2>1, <2>2, <2>3, <2>4
<1>5. \A i \in 1 .. N : KeysUp(s[i]) /\ UpTo(s[i], b[i]) /\ (i > 1 => KeysAbove(s[i], b[i - 1]))
  BY <1>3 DEF Between
<1> DEFINE R == {i \in 0 .. N : i = 0 \/ (KeysUp(f[i]) /\ UpTo(f[i], b[i]))}
<1>6. 0 \in R
  BY <1>3
<1>7. ASSUME NEW i \in 0 .. N - 1, i \in R PROVE i + 1 \in R
  <2>1. i + 1 \in 0 .. N /\ i + 1 \in 1 .. N
    BY <1>3
  <2>2. CASE i = 0
    <3>1. f[i + 1] = s[i + 1]
      BY <1>2, <2>2
    <3>2. KeysUp(s[i + 1]) /\ UpTo(s[i + 1], b[i + 1])
      BY <1>5, <2>1
    <3>. QED  BY <2>1, <3>1, <3>2
  <2>3. CASE i # 0
    <3>1. i \in 1 .. N /\ i + 1 > 1 /\ (i + 1) - 1 = i /\ i < i + 1 /\ i + 1 \in 2 .. Len(s)
      BY <1>3, <2>3
    <3>2. KeysUp(f[i]) /\ UpTo(f[i], b[i])
      BY <1>7, <2>3
    <3>3. KeysUp(s[i + 1]) /\ UpTo(s[i + 1], b[i + 1]) /\ KeysAbove(s[i + 1], b[i])
      BY <1>5, <2>1, <3>1
    <3>4. f[i + 1] = f[i] \o s[i + 1]
      BY <1>2, <3>1
    <3>5. b[i] \in Nat /\ b[i + 1] \in Nat /\ b[i] < b[i + 1] /\ f[i] \in Seq(Pairs) /\ s[i + 1] \in Seq(Pairs)
      BY <1>4, <2>1, <3>1
    <3>6. PICK x, y, u, v : x = f[i] /\ y = s[i + 1] /\ u = b[i] /\ v = b[i + 1]
      OBVIOUS
    <3>7. KeysUp(x \o y) /\ UpTo(x \o y, v)
      <4>1. /\ x \in Seq(Pairs) /\ y \in Seq(Pairs) /\ u \in Nat /\ v \in Nat /\ u < v
            /\ KeysUp(x) /\ UpTo(x, u) /\ KeysUp(y) /\ UpTo(y, v) /\ KeysAbove(y, u)
        BY <3>2, <3>3, <3>5, <3>6
      <4>. QED  BY <4>1, JoinedUp
    <3>8. KeysUp(f[i + 1]) /\ UpTo(f[i + 1], b[i + 1])
      BY <3>4, <3>6, <3>7
    <3>. QED  BY <2>1, <3>8
  <2>. QED  BY <2>2, <2>3
<1>8. N \in R
  <2> HIDE DEF R
  <2>1. 0 .. N \subseteq R
    BY <1>3, <1>6, <1>7, Climb
  <2>. QED  BY <1>3, <2>1
<1>. QED  BY <1>1, <1>3, <1>8

\* The contents of a leaf whose keys ascend.
LEMMA LeafUp ==
    ASSUME NEW U, NEW V, NEW p, NEW h, NEW l, NEW H, NEW in, NEW top,
           Tree(H, U, V, p, h, l, in, top), NEW a \in 1 .. Len(H), H[a].leaf, NEW s, s = KeysAt(H, a), Sorted(s)
    PROVE  /\ LeafContents(H[a]) \in Seq(Pairs) /\ KeysUp(LeafContents(H[a]))
           /\ UpTo(LeafContents(H[a]), EndOf(s))
           /\ \A b : AllAbove(s, b) => KeysAbove(LeafContents(H[a]), b)
<1>1. PICK L \in 1 .. MAX_PER_NODE : GoodLeaf(H[a], L, Of(h, a), in)
  BY AtNode
<1>2. L \in Nat
  BY BTreeAssumption
<1>3. PICK c, t : c = LeafContents(H[a]) /\ t = H[a].ptr
  OBVIOUS
<1>4. c \in Seq(Pairs)
  BY <1>1, <1>2, <1>3, ListsOfLeaf
<1>5. s \in Seq(Nat) /\ Len(s) \in Nat
  BY DEF Sorted
<1>6. c = [i \in 1 .. Len(s) |-> <<s[i], t[i]>>]
  <2>1. DOMAIN s = 1 .. Len(s)
    BY <1>5
  <2>. QED  BY <1>3, <2>1, Zenon DEF LeafContents, KeysAt
<1>7. Len(c) = Len(s) /\ \A i \in 1 .. Len(s) : KeyAt(c, i) = s[i]
  BY <1>5, <1>6 DEF KeyAt
<1>8. KeysUp(c)
  BY <1>7 DEF KeysUp, Sorted
<1>9. UpTo(c, EndOf(s))
  <2>1. ASSUME NEW i \in 1 .. Len(s) PROVE s[i] <= EndOf(s)
    <3>1. i <= i
      BY <1>5
    <3>. QED  BY <3>1, SortedUpTo
  <2>. QED  BY <1>7, <2>1 DEF UpTo
<1>10. \A b : AllAbove(s, b) => KeysAbove(c, b)
  BY <1>7 DEF AllAbove, KeysAbove
<1>. QED  BY <1>3, <1>4, <1>8, <1>9, <1>10

LEMMA ContentsUp ==
    ASSUME NEW U, NEW V, NEW p, NEW h, NEW l, NEW H, NEW in, NEW top,
           Tree(H, U, V, p, h, l, in, top), Ordered(H, top)
    PROVE  KeysUp(Contents(H, top))
<1>1. H \in Seq(Nodes) /\ top \in 1 .. Len(H) /\ DOMAIN H = 1 .. Len(H)
  <2>1. H \in Seq(Nodes) /\ top \in 1 .. Len(H)
    BY DEF Tree, Levels
  <2>. QED  BY <2>1
<1>2. PICK C : IsContents(C, H) /\ Contents(H, top) = C[top]
  BY <1>1, ContentsExist, ContentsChosen
<1>3. \A a \in 1 .. Len(H) : C[a] = Turn(H, a, C)
  <2>1. C = [a \in 1 .. Len(H) |-> Turn(H, a, C)]
    BY <1>1, <1>2, Zenon DEF IsContents
  <2>2. \A a \in 1 .. Len(H) : [m \in 1 .. Len(H) |-> Turn(H, m, C)][a] = Turn(H, a, C)
    OBVIOUS
  <2>. QED  BY <2>1, <2>2, Zenon
<1>4. CASE H[top].leaf
  <2>1. Sorted(KeysAt(H, top))
    BY <1>4 DEF Ordered
  <2>2. C[top] = LeafContents(H[top])
    BY <1>1, <1>3, <1>4, Zenon DEF Turn
  <2>. QED  BY <1>1, <1>2, <1>4, <2>1, <2>2, LeafUp
<1>5. CASE ~H[top].leaf
  <2>1. PICK L \in 1 .. MAX_PER_NODE : \E s, t : BranchShape(H, top, L, s, t)
    BY <1>5, ShapeOfRoot
  <2>2. PICK s, t : BranchShape(H, top, L, s, t)
    BY <2>1
  <2>3. /\ H[top] = Internal(s, t) /\ s \in Seq(Nat) /\ Len(s) = L /\ t \in Seq(Nat) /\ Len(t) = L
        /\ L \in Nat \ {0} /\ \A j \in 1 .. L : t[j] \in 1 .. Len(H)
    BY <2>2 DEF BranchShape
  <2>4. Sorted(s) /\ LeavesFit(H, s, t, L, 0)
    <3>1. BranchOrder(H, top, 0)
      BY <1>5 DEF Ordered
    <3>. QED  BY <2>3, <3>1, BranchByLeaves
  <2>5. PICK z : z = [j \in 1 .. L |-> C[t[j]]]
    OBVIOUS
  <2>6. ASSUME NEW j \in 1 .. L
        PROVE  /\ z[j] \in Seq(Pairs) /\ KeysUp(z[j]) /\ UpTo(z[j], s[j])
               /\ j > 1 => KeysAbove(z[j], s[j - 1])
    <3>1. PICK a, x : a = t[j] /\ x = KeysAt(H, a)
      OBVIOUS
    <3>2. a \in 1 .. Len(H) /\ H[a].leaf /\ FitsAt(s, x, 0, j)
      BY <2>3, <2>4, <3>1 DEF LeavesFit
    <3>3. Sorted(x) /\ (j > 1 => AllAbove(x, s[j - 1])) /\ EndOf(x) = s[j]
      <4>1. j # 0
        BY <2>3
      <4>. QED  BY <3>2, <4>1 DEF FitsAt
    <3>4. z[j] = LeafContents(H[a])
      <4>1. z[j] = C[a]
        BY <2>5, <3>1
      <4>2. C[a] = LeafContents(H[a])
        BY <1>3, <3>2, Zenon DEF Turn
      <4>. QED  BY <4>1, <4>2
    <3>5. /\ LeafContents(H[a]) \in Seq(Pairs) /\ KeysUp(LeafContents(H[a]))
          /\ UpTo(LeafContents(H[a]), EndOf(x))
          /\ \A b : AllAbove(x, b) => KeysAbove(LeafContents(H[a]), b)
      BY <3>1, <3>2, <3>3, LeafUp
    <3>. QED  BY <3>3, <3>4, <3>5
  <2>7. z \in Seq(Seq(Pairs)) /\ Len(z) = L /\ z # <<>>
    <3>1. z \in [1 .. L -> Seq(Pairs)]
      BY <2>5, <2>6
    <3>2. z \in Seq(Seq(Pairs)) /\ Len(z) = L
      BY <2>3, <3>1
    <3>. QED  BY <2>3, <3>2
  <2>8. KeysUp(FlattenSeq(z))
    <3>1. Between(z, s)
      BY <2>6, <2>7 DEF Between
    <3>. QED  BY <2>3, <2>4, <2>7, <3>1, FlattenUp
  <2>9. C[top] = FlattenSeq(z)
    <3>1. H[top].ptr = t /\ DOMAIN t = 1 .. L
      <4>1. H[top].ptr = t
        BY <2>3, NodeFields
      <4>. QED  BY <2>3, <4>1
    <3>. QED  BY <1>1, <1>3, <1>5, <2>5, <3>1, Zenon DEF Turn
  <2>. QED  BY <1>2, <2>8, <2>9
<1>. QED  BY <1>4, <1>5

LEMMA Ascending ==
    ASSUME BTreeInv, OrderInv
    PROVE  KeysAscend
<1> SUFFICES ASSUME pc = "idle", root # NoNode, innerSplits = 0 PROVE KeysAscend
  BY DEF KeysAscend
<1>1. PICK p, h, l : Tree(node, 1 .. Len(node) \ {root}, 1 .. Len(items), p, h, l, input, root)
  BY DEF BTreeInv, Idle
<1>2. Ordered(node, root)
  BY DEF OrderInv, InOrderNow
<1>3. PICK all : all = Contents(node, root)
  OBVIOUS
<1>4. KeysUp(all)
  BY <1>1, <1>2, <1>3, ContentsUp
<1>5. DOMAIN all = 1 .. Len(all)
  <2>1. all \in Seq(Pairs)
    BY <1>1, <1>3, TreeContents
  <2>. QED  BY <2>1
<1>6. \A i, j \in DOMAIN all : i < j => all[i][1] < all[j][1]
  BY <1>4, <1>5 DEF KeysUp, KeyAt
<1>. QED  BY <1>3, <1>6 DEF KeysAscend

\* While no internal node has been split the keys of the leaves ascend over the
\* whole tree, so that each key has one list.
THEOREM KeysAscendHolds == BTreeSpec => []KeysAscend
<1>1. BTreeInv /\ OrderInv => KeysAscend
  BY Ascending
<1>. QED  BY <1>1, BTreeInvariant, KeysInOrder, PTL

=============================================================================
