------------------------- MODULE Structures_proofs -------------------------
(***************************************************************************)
(* What the proof system shows of the containers LinkList and Bitmap for   *)
(* every value of their constants.                                         *)
(***************************************************************************)
EXTENDS LinkList, Bitmap, InductionLemmas

-----------------------------------------------------------------------------
(* Bitmaps.                                                                *)

\* The words of a bitmap fill it.
IsBitmap(bm) ==
  /\ bm = [bitSize |-> bm.bitSize, elemSize |-> bm.elemSize, byteArray |-> bm.byteArray]
  /\ bm.elemSize \in Nat \ {0} /\ bm.bitSize = bm.elemSize * WordBits
  /\ bm.byteArray \in [0 .. bm.elemSize - 1 -> SUBSET (0 .. WordBits - 1)]

OneBits(bm) == {p \in 0 .. bm.bitSize - 1 : getBit(bm, p)}

LEMMA WordBitsPositive == WordBits \in Nat \ {0}
<1>1. \A x, y \in Nat \ {0} : x * y \in Nat \ {0}
  OBVIOUS
<1>. QED  BY <1>1, BitmapAssumption DEF WordBits

\* A bit has a place in one of the words.
LEMMA WordOfBit ==
    ASSUME NEW n \in Nat, NEW p \in 0 .. n * WordBits - 1
    PROVE  /\ p \div WordBits \in 0 .. n - 1 /\ p % WordBits \in 0 .. WordBits - 1
           /\ p = (p \div WordBits) * WordBits + (p % WordBits)
<1> DEFINE i == p \div WordBits
           b == p % WordBits
<1>1. p \in Nat /\ n * WordBits \in Nat /\ p < n * WordBits
  <2>1. \A x, y \in Nat : x * y \in Nat
    OBVIOUS
  <2>. QED  BY <2>1, WordBitsPositive
<1>2. i \in Nat /\ b \in 0 .. WordBits - 1 /\ p = i * WordBits + b
  BY <1>1, WordBitsPositive, Division
<1>3. i < n
  <2> SUFFICES ASSUME n <= i PROVE FALSE
    BY <1>2
  <2>1. \A x, y, w, r \in Nat : x <= y => ~(y * w + r < x * w)
    OBVIOUS
  <2>2. WordBits \in Nat /\ b \in Nat
    BY <1>2, WordBitsPositive
  <2> HIDE DEF i, b
  <2>. QED  BY <1>1, <1>2, <2>1, <2>2
<1>. QED  BY <1>2, <1>3

\* And each place in a word is a bit.
LEMMA BitOfWord ==
    ASSUME NEW n \in Nat, NEW i \in 0 .. n - 1, NEW b \in 0 .. WordBits - 1
    PROVE  /\ i * WordBits + b \in 0 .. n * WordBits - 1
           /\ (i * WordBits + b) \div WordBits = i /\ (i * WordBits + b) % WordBits = b
<1>1. WordBits \in Nat \ {0}
  BY WordBitsPositive
<1>2. (i * WordBits + b) \div WordBits = i /\ (i * WordBits + b) % WordBits = b
  BY <1>1, DivisionUnique
<1>3. \A x, y, w, r \in Nat : x + 1 <= y /\ r < w => x * w + r \in 0 .. y * w - 1
  <2> TAKE x, y, w, r \in Nat
  <2> HAVE x + 1 <= y /\ r < w
  <2>1. x * w \in Nat /\ y * w \in Nat /\ (x + 1) * w \in Nat
    OBVIOUS
  <2>2. (x + 1) * w <= y * w /\ (x + 1) * w = x * w + w
    OBVIOUS
  <2>. QED  BY <2>1, <2>2
<1>. QED  BY <1>1, <1>2, <1>3

\* What a change of the words leaves and changes.
LEMMA NewWords ==
    ASSUME NEW bm, IsBitmap(bm), NEW arr \in [0 .. bm.elemSize - 1 -> SUBSET (0 .. WordBits - 1)]
    PROVE  LET new == [bm EXCEPT !.byteArray = arr]
           IN /\ IsBitmap(new) /\ new.bitSize = bm.bitSize /\ new.elemSize = bm.elemSize
              /\ new.byteArray = arr
BY DEF IsBitmap

\* The one bits are those of the words.
LEMMA OneBitsOf ==
    ASSUME NEW bm, IsBitmap(bm)
    PROVE  /\ OneBits(bm) \subseteq 0 .. bm.bitSize - 1
           /\ \A i \in 0 .. bm.elemSize - 1, b \in 0 .. WordBits - 1 :
                (i * WordBits + b \in OneBits(bm)) <=> (b \in bm.byteArray[i])
<1> SUFFICES ASSUME NEW i \in 0 .. bm.elemSize - 1, NEW b \in 0 .. WordBits - 1
             PROVE  (i * WordBits + b \in OneBits(bm)) <=> (b \in bm.byteArray[i])
  BY DEF OneBits
<1> DEFINE p == i * WordBits + b
<1>1. p \in 0 .. bm.bitSize - 1 /\ p \div WordBits = i /\ p % WordBits = b
  BY BitOfWord DEF IsBitmap
<1>2. bm.bitSize \in Nat
  <2>1. \A x, y \in Nat : x * y \in Nat
    OBVIOUS
  <2>. QED  BY <2>1, WordBitsPositive DEF IsBitmap
<1> HIDE DEF p
<1>3. p < bm.bitSize
  BY <1>1, <1>2
<1>4. (p \in OneBits(bm)) <=> (b \in bm.byteArray[i])
  BY <1>1, <1>3 DEF OneBits, getBit
<1>. QED  BY <1>4 DEF p


\* A bitmap has bits.
LEMMA SizeIsNat ==
    ASSUME NEW bm, IsBitmap(bm)
    PROVE  /\ bm.elemSize \in Nat \ {0} /\ bm.bitSize \in Nat \ {0}
           /\ bm.bitSize = bm.elemSize * WordBits
<1>1. \A x, y \in Nat \ {0} : x * y \in Nat \ {0}
  OBVIOUS
<1>. QED  BY <1>1, WordBitsPositive DEF IsBitmap

\* setBit sets the positions within the bitmap and no others.
LEMMA SetBits ==
    ASSUME NEW bm, IsBitmap(bm), NEW P \in SUBSET Nat
    PROVE  LET new == setBitOf(bm, P)
           IN /\ IsBitmap(new) /\ new.bitSize = bm.bitSize /\ new.elemSize = bm.elemSize
              /\ OneBits(new) = OneBits(bm) \cup {p \in P : p < bm.bitSize}
<1> DEFINE Here(i) == {q \in P : q < bm.bitSize /\ q \div WordBits = i}
           arr == [i \in 0 .. bm.elemSize - 1 |-> bm.byteArray[i] \cup {p % WordBits : p \in Here(i)}]
           new == setBitOf(bm, P)
<1>1. bm.elemSize \in Nat /\ bm.bitSize = bm.elemSize * WordBits /\ bm.bitSize \in Nat
  <2>1. \A x, y \in Nat : x * y \in Nat
    OBVIOUS
  <2>. QED  BY <2>1, WordBitsPositive DEF IsBitmap
<1>2. ASSUME NEW q \in P, q < bm.bitSize
      PROVE  /\ q \in 0 .. bm.elemSize * WordBits - 1
             /\ q \div WordBits \in 0 .. bm.elemSize - 1 /\ q % WordBits \in 0 .. WordBits - 1
  BY <1>1, <1>2, WordOfBit
<1>3. arr \in [0 .. bm.elemSize - 1 -> SUBSET (0 .. WordBits - 1)]
  BY <1>2 DEF IsBitmap
<1>4. new = [bm EXCEPT !.byteArray = arr]
  BY DEF setBitOf, IsBitmap
<1>5. IsBitmap(new) /\ new.bitSize = bm.bitSize /\ new.elemSize = bm.elemSize /\ new.byteArray = arr
  <2> HIDE DEF arr, new
  <2>. QED  BY <1>3, <1>4, NewWords
<1>6. ASSUME NEW p \in 0 .. bm.bitSize - 1
      PROVE  (p \in OneBits(new)) <=> (p \in OneBits(bm) \/ p \in P)
  <2> DEFINE i == p \div WordBits
             b == p % WordBits
  <2>1. i \in 0 .. bm.elemSize - 1 /\ b \in 0 .. WordBits - 1 /\ p = i * WordBits + b /\ p < bm.bitSize
    BY <1>1, <1>6, WordOfBit
  <2>2. (p \in OneBits(new)) <=> (b \in arr[i])
    <3> HIDE DEF arr, new, i, b
    <3>. QED  BY <1>5, <2>1, OneBitsOf
  <2>3. (p \in OneBits(bm)) <=> (b \in bm.byteArray[i])
    <3> HIDE DEF i, b
    <3>. QED  BY <2>1, OneBitsOf
  <2>4. arr[i] = bm.byteArray[i] \cup {q % WordBits : q \in Here(i)}
    BY <2>1
  <2>5. p \in P => p \in Here(i)
    BY <2>1
  <2>6. ASSUME NEW q \in Here(i), q % WordBits = b PROVE q = p
    <3>1. q \in 0 .. bm.elemSize * WordBits - 1 /\ q \div WordBits = i
      BY <1>2
    <3>2. q = (q \div WordBits) * WordBits + (q % WordBits)
      BY <1>1, <3>1, WordOfBit
    <3>. QED  BY <2>1, <2>6, <3>1, <3>2
  <2>7. (b \in {q % WordBits : q \in Here(i)}) <=> (p \in P)
    <3> HIDE DEF i
    <3>. QED  BY <2>5, <2>6
  <2>. QED  BY <2>2, <2>3, <2>4, <2>7
<1>7. OneBits(new) \subseteq 0 .. bm.bitSize - 1 /\ OneBits(bm) \subseteq 0 .. bm.bitSize - 1
  <2> HIDE DEF new
  <2>. QED  BY <1>5, OneBitsOf
<1>8. \A p \in P : p < bm.bitSize => p \in 0 .. bm.bitSize - 1
  BY <1>1
<1>9. OneBits(new) = OneBits(bm) \cup {p \in P : p < bm.bitSize}
  <2> HIDE DEF new
  <2>1. \A p \in 0 .. bm.bitSize - 1 : p < bm.bitSize
    BY <1>1
  <2>. QED  BY <1>6, <1>7, <1>8, <2>1
<1>. QED  BY <1>5, <1>9

\* Words that come from another bitmap, up to the end of the shorter one.
LEMMA SharedWords ==
    ASSUME NEW a \in Nat, NEW b \in Nat
    PROVE  LET S == 0 .. Min({a, b}) - 1
           IN /\ S = {i \in 0 .. a - 1 : i < b}
              /\ 0 .. Cardinality(S) * WordBits - 1 =
                   {p \in 0 .. a * WordBits - 1 : p < b * WordBits}
<1> DEFINE m == Min({a, b})
<1>1. m \in {a, b} /\ m <= a /\ m <= b
  BY MinIsLeast
<1> HIDE DEF m
<1>2. m \in Nat /\ Cardinality(0 .. m - 1) = m
  <2>1. m \in Nat
    BY <1>1
  <2>2. Cardinality(0 .. m - 1) = IF 0 > m - 1 THEN 0 ELSE (m - 1) - 0 + 1
    BY <2>1, FS_Interval
  <2>. QED  BY <2>1, <2>2
<1>3. 0 .. m - 1 = {i \in 0 .. a - 1 : i < b}
  BY <1>1
<1>4. 0 .. m * WordBits - 1 = {p \in 0 .. a * WordBits - 1 : p < b * WordBits}
  <2>1. \A x, y, w \in Nat : x <= y => x * w <= y * w /\ x * w \in Nat
    OBVIOUS
  <2>2. a * WordBits \in Nat /\ b * WordBits \in Nat /\ m * WordBits \in Nat
        /\ m * WordBits <= a * WordBits /\ m * WordBits <= b * WordBits
        /\ (m * WordBits = a * WordBits \/ m * WordBits = b * WordBits)
    BY <1>1, <1>2, <2>1, WordBitsPositive
  <2>. QED  BY <2>2
<1>. QED  BY <1>2, <1>3, <1>4 DEF m

\* A bitmap holds what was set, and beyond its first byte what a clear left.
Faithful(bm, ins, left) ==
  /\ IsBitmap(bm) /\ ins \subseteq OneBits(bm)
  /\ \A p \in OneBits(bm) \ ins : p \in left /\ p >= ByteBits

\* A filter has set the bits of its k hash functions for what was inserted.
HashesKnown(k) == k \in Nat /\ \A i \in 0 .. k - 1, e \in Elems : HashCode[i][e] \in Nat
Sieve(bm, k, ins) ==
  /\ IsBitmap(bm) /\ HashesKnown(k) /\ ins \subseteq Elems
  /\ \A e \in ins, i \in 0 .. k - 1 : (HashCode[i][e] + i) % bm.bitSize \in OneBits(bm)

\* The objects are those that were constructed.
ObjectsInv ==
  /\ DOMAIN bitmaps = Maps \cup Filters /\ DOMAIN added = Maps \cup Filters
  /\ DOMAIN cleared = Maps /\ DOMAIN filters = Filters
  /\ \A f \in Filters : filters[f].elementNum \in Nat
  /\ \A f \in Filters : filters[f] = [elementNum |-> filters[f].elementNum,
                                      hashFuncNum |-> filters[f].hashFuncNum,
                                      hashFuncVec |-> filters[f].hashFuncVec]

MapsInv == \A m \in Maps : Faithful(bitmaps[m], added[m], cleared[m])

FiltersInv == \A f \in Filters : Sieve(bitmaps[f], filters[f].hashFuncNum, added[f])

\* The same of what is in the file.
FileInv ==
  bitmapFile # NoFile =>
    LET bm == Loaded(bitmapFile.kind, bitmapFile.bitmap)
    IN IF bitmapFile.filter = NoFile
       THEN Faithful(bm, bitmapFile.added, bitmapFile.cleared)
       ELSE /\ bitmapFile.filter \in [elementNum : Nat, hashFuncNum : Nat]
            /\ Sieve(bm, bitmapFile.filter.hashFuncNum, bitmapFile.added)

BitmapInv == ObjectsInv /\ MapsInv /\ FiltersInv /\ FileInv

\* A new bitmap has no one bit.
LEMMA NewBitmap ==
    ASSUME NEW n \in Nat \ {0}
    PROVE  IsBitmap(Bits(n)) /\ OneBits(Bits(n)) = {}
<1> DEFINE k == (n + WordBits - 1) \div WordBits
           bm == Bits(n)
<1>1. k \in Nat
  BY WordBitsPositive
<1>2. k > 0
  <2>1. n + WordBits - 1 \in Nat /\ WordBits <= n + WordBits - 1
    BY WordBitsPositive
  <2>2. WordBits \div WordBits <= k
    BY <2>1, WordBitsPositive, DivisionMonotone
  <2>3. (1 * WordBits + 0) \div WordBits = 1
    BY WordBitsPositive, DivisionUnique
  <2>4. 1 * WordBits + 0 = WordBits
    BY WordBitsPositive
  <2> HIDE DEF k
  <2>. QED  BY <1>1, <2>2, <2>3, <2>4
<1>3. bm = [bitSize |-> k * WordBits, elemSize |-> k, byteArray |-> [i \in 0 .. k - 1 |-> {}]]
  BY DEF Bits
<1> HIDE DEF k, bm
<1>4. IsBitmap(bm)
  BY <1>1, <1>2, <1>3 DEF IsBitmap
<1>6. ASSUME NEW p \in OneBits(bm) PROVE FALSE
  <2>1. p \in 0 .. k * WordBits - 1 /\ getBit(bm, p)
    BY <1>3 DEF OneBits
  <2>2. p \div WordBits \in 0 .. k - 1
    BY <1>1, <2>1, WordOfBit
  <2>. QED  BY <1>3, <2>1, <2>2 DEF getBit
<1>. QED  BY <1>4, <1>6 DEF bm

LEMMA InitBitmapInv == BitmapInit => BitmapInv
<1> SUFFICES ASSUME BitmapInit PROVE BitmapInv
  OBVIOUS
<1> USE DEF BitmapInit
<1>1. ObjectsInv
  BY BitmapAssumption DEF ObjectsInv
<1>2. ASSUME NEW m \in Maps PROVE Faithful(bitmaps[m], added[m], cleared[m])
  <2>1. bitmaps[m] = Bits(BitSizes[m]) /\ added[m] = {} /\ BitSizes[m] \in Nat \ {0}
    BY BitmapAssumption
  <2>2. IsBitmap(Bits(BitSizes[m])) /\ OneBits(Bits(BitSizes[m])) = {}
    BY <2>1, NewBitmap
  <2>. QED  BY <2>1, <2>2 DEF Faithful
<1>3. ASSUME NEW f \in Filters PROVE Sieve(bitmaps[f], filters[f].hashFuncNum, added[f])
  <2> DEFINE n == FilterBits(FilterSizes[f])
  <2>1. f \notin Maps
    BY BitmapAssumption
  <2>2. n > 0 /\ FilterSizes[f] \in [elementNum : Nat, hashFuncNum : Nat]
        /\ HashesKnown(FilterSizes[f].hashFuncNum)
    BY BitmapAssumption DEF HashesKnown
  <2>3. n \in Nat
    <3>1. \A x, y \in Nat : (x * y * 14427) \div 10000 \in Nat
      <4>1. \A z \in Nat : (z * 14427) \div 10000 \in Nat
        OBVIOUS
      <4>2. \A x, y \in Nat : x * y \in Nat
        OBVIOUS
      <4>. QED  BY <4>1, <4>2
    <3>. QED  BY <2>2, <3>1 DEF FilterBits
  <2>4. bitmaps[f] = Bits(n) /\ added[f] = {} /\ filters[f].hashFuncNum = FilterSizes[f].hashFuncNum
    BY <2>1
  <2> HIDE DEF n
  <2>5. IsBitmap(Bits(n))
    BY <2>2, <2>3, NewBitmap
  <2>. QED  BY <2>2, <2>4, <2>5 DEF Sieve
<1>. QED  BY <1>1, <1>2, <1>3 DEF BitmapInv, MapsInv, FiltersInv, FileInv

\* A bit is below the end of a bitmap when its word is.
LEMMA WordsBelow ==
    ASSUME NEW n \in Nat, NEW m \in Nat, NEW p \in 0 .. n * WordBits - 1
    PROVE  /\ n * WordBits \in Nat /\ m * WordBits \in Nat
           /\ (p < m * WordBits) <=> (p \div WordBits < m)
           /\ (p < m * WordBits) => p \in 0 .. m * WordBits - 1
<1> DEFINE i == p \div WordBits
           c == p % WordBits
<1>1. n * WordBits \in Nat /\ m * WordBits \in Nat
  <2>1. \A x, y \in Nat : x * y \in Nat
    OBVIOUS
  <2>. QED  BY <2>1, WordBitsPositive
<1>2. i \in 0 .. n - 1 /\ c \in 0 .. WordBits - 1 /\ p = i * WordBits + c
  BY WordOfBit
<1> HIDE DEF i, c
<1>3. ASSUME i < m PROVE p < m * WordBits
  <2>1. i \in 0 .. m - 1
    BY <1>2, <1>3
  <2>2. i * WordBits + c \in 0 .. m * WordBits - 1
    BY <1>2, <2>1, BitOfWord
  <2>. QED  BY <1>1, <1>2, <2>2
<1>4. ASSUME p < m * WordBits PROVE i < m
  <2>1. p \in 0 .. m * WordBits - 1
    BY <1>1, <1>4
  <2>2. i \in 0 .. m - 1
    BY <2>1, WordOfBit DEF i
  <2>. QED  BY <2>2
<1>5. (p < m * WordBits) => p \in 0 .. m * WordBits - 1
  BY <1>1
<1>. QED  BY <1>1, <1>3, <1>4, <1>5 DEF i

\* Words that are combined from two bitmaps up to the end of the shorter one.
Both(a, b) == 0 .. Min({a.elemSize, b.elemSize}) - 1
BothBits(a, b) == 0 .. Cardinality(Both(a, b)) * WordBits - 1
Combined(a, b, keep) ==
  [i \in 0 .. a.elemSize - 1 |->
     IF i \in Both(a, b) THEN b.byteArray[i] \cup (IF keep THEN a.byteArray[i] ELSE {})
     ELSE a.byteArray[i]]

LEMMA SharedBits ==
    ASSUME NEW a, IsBitmap(a), NEW b, IsBitmap(b), NEW keep \in BOOLEAN
    PROVE  LET new == [a EXCEPT !.byteArray = Combined(a, b, keep)]
               old == IF keep THEN OneBits(a) ELSE OneBits(a) \ BothBits(a, b)
           IN IsBitmap(new) /\ OneBits(new) = old \cup (OneBits(b) \cap BothBits(a, b))
<1> DEFINE S == Both(a, b)
           W == BothBits(a, b)
           arr == Combined(a, b, keep)
<1>10. /\ a.elemSize \in Nat /\ a.bitSize \in Nat /\ a.bitSize = a.elemSize * WordBits
       /\ b.elemSize \in Nat /\ b.bitSize \in Nat /\ b.bitSize = b.elemSize * WordBits
  BY SizeIsNat
<1>11. S = {i \in 0 .. a.elemSize - 1 : i < b.elemSize}
  BY <1>10, SharedWords DEF Both
<1>12. W = {p \in 0 .. a.elemSize * WordBits - 1 : p < b.elemSize * WordBits}
  BY <1>10, SharedWords DEF Both, BothBits
<1>13. \A i \in 0 .. a.elemSize - 1 :
         arr[i] = IF i \in S THEN b.byteArray[i] \cup (IF keep THEN a.byteArray[i] ELSE {})
                             ELSE a.byteArray[i]
  BY DEF Combined
<1>14. arr \in [0 .. a.elemSize - 1 -> SUBSET (0 .. WordBits - 1)]
  <2>1. \A i \in 0 .. a.elemSize - 1 : a.byteArray[i] \in SUBSET (0 .. WordBits - 1)
    BY DEF IsBitmap
  <2>2. \A i \in 0 .. b.elemSize - 1 : b.byteArray[i] \in SUBSET (0 .. WordBits - 1)
    BY DEF IsBitmap
  <2>3. \A i \in S : i \in 0 .. b.elemSize - 1
    BY <1>10, <1>11
  <2>. QED  BY <2>1, <2>2, <2>3 DEF Combined
<1> HIDE DEF S, W, arr
<1> DEFINE new == [a EXCEPT !.byteArray = arr]
<1>1. IsBitmap(new) /\ new.bitSize = a.bitSize /\ new.elemSize = a.elemSize /\ new.byteArray = arr
  BY <1>14, NewWords
<1> HIDE DEF new
<1>3. W = {p \in 0 .. a.bitSize - 1 : p < b.bitSize}
  BY <1>10, <1>12
<1>4. ASSUME NEW p \in 0 .. a.bitSize - 1
      PROVE  (p \in OneBits(new)) <=> \/ p \in OneBits(a) /\ (keep \/ p \notin W)
                                      \/ p \in OneBits(b) /\ p \in W
  <2> DEFINE i == p \div WordBits
             c == p % WordBits
  <2>1. i \in 0 .. a.elemSize - 1 /\ c \in 0 .. WordBits - 1 /\ p = i * WordBits + c
    BY <1>10, WordOfBit
  <2> HIDE DEF i, c
  <2>2. (p \in OneBits(new)) <=> (c \in arr[i])
    BY <1>1, <2>1, OneBitsOf
  <2>3. (p \in OneBits(a)) <=> (c \in a.byteArray[i])
    BY <2>1, OneBitsOf
  <2>4. (p < b.bitSize) <=> (i < b.elemSize)
    BY <1>10, <1>4, WordsBelow DEF i
  <2>5. (p \in W) <=> (i \in S)
    <3>1. (p \in W) <=> (p < b.bitSize)
      BY <1>3, <1>4
    <3>2. (i \in S) <=> (i < b.elemSize)
      BY <1>11, <2>1
    <3>. QED  BY <2>4, <3>1, <3>2
  <2>7. (i \in S) => ((p \in OneBits(b)) <=> (c \in b.byteArray[i]))
    <3> SUFFICES ASSUME i \in S PROVE (p \in OneBits(b)) <=> (c \in b.byteArray[i])
      OBVIOUS
    <3>1. i \in {x \in 0 .. a.elemSize - 1 : x < b.elemSize}
      BY <1>11
    <3>2. i \in 0 .. b.elemSize - 1
      BY <1>10, <3>1
    <3>. QED  BY <2>1, <3>2, OneBitsOf
  <2>6. arr[i] = IF i \in S THEN b.byteArray[i] \cup (IF keep THEN a.byteArray[i] ELSE {})
                            ELSE a.byteArray[i]
    BY <1>13, <2>1
  <2>. QED  BY <2>2, <2>3, <2>5, <2>6, <2>7
<1>5. /\ OneBits(new) \subseteq 0 .. a.bitSize - 1 /\ OneBits(a) \subseteq 0 .. a.bitSize - 1
      /\ W \subseteq 0 .. a.bitSize - 1
  BY <1>1, <1>3, OneBitsOf
<1>6. OneBits(new) = (IF keep THEN OneBits(a) ELSE OneBits(a) \ W) \cup (OneBits(b) \cap W)
  BY <1>4, <1>5
<1>. QED  BY <1>1, <1>6 DEF new, W, arr

\* memset ends where the number of words ends, taken for a number of bytes.
LEMMA ClearedBits ==
    ASSUME NEW a, IsBitmap(a),
           NEW arr, arr = [i \in DOMAIN a.byteArray |->
                             {b \in a.byteArray[i] : i * WordBits + b \notin Memset(a)}]
    PROVE  LET new == [a EXCEPT !.byteArray = arr]
           IN /\ IsBitmap(new) /\ OneBits(new) \subseteq OneBits(a)
              /\ \A p \in OneBits(new) : p >= ByteBits
<1> DEFINE new == [a EXCEPT !.byteArray = arr]
<1>1. arr \in [0 .. a.elemSize - 1 -> SUBSET (0 .. WordBits - 1)]
  BY DEF IsBitmap
<1>2. IsBitmap(new) /\ new.bitSize = a.bitSize /\ new.elemSize = a.elemSize /\ new.byteArray = arr
  BY <1>1, NewWords
<1> HIDE DEF new
<1>3. a.elemSize \in Nat /\ a.bitSize \in Nat /\ a.bitSize = a.elemSize * WordBits
  BY SizeIsNat
<1>4. ByteBits <= a.elemSize * ByteBits /\ a.elemSize * ByteBits \in Nat /\ ByteBits \in Nat
  <2>1. a.elemSize # 0
    BY DEF IsBitmap
  <2>2. \A x, y \in Nat \ {0} : y <= x * y /\ x * y \in Nat
    <3> TAKE x, y \in Nat \ {0}
    <3>1. 1 * y <= x * y
      OBVIOUS
    <3>. QED  BY <3>1
  <2>. QED  BY <1>3, <2>1, <2>2, BitmapAssumption
<1>5. ASSUME NEW p \in OneBits(new) PROVE p \in OneBits(a) /\ p >= ByteBits
  <2> DEFINE i == p \div WordBits
             c == p % WordBits
  <2>1. p \in 0 .. a.elemSize * WordBits - 1
    BY <1>2, <1>3, OneBitsOf
  <2>2. i \in 0 .. a.elemSize - 1 /\ c \in 0 .. WordBits - 1 /\ p = i * WordBits + c
    BY <1>3, <2>1, WordOfBit
  <2> HIDE DEF i, c
  <2>3. c \in arr[i]
    BY <1>2, <2>2, OneBitsOf
  <2>4. c \in a.byteArray[i] /\ p \notin Memset(a)
    BY <1>1, <2>2, <2>3 DEF IsBitmap
  <2>5. p \in OneBits(a)
    BY <2>2, <2>4, OneBitsOf
  <2>. QED  BY <1>4, <2>1, <2>4, <2>5 DEF Memset
<1>. QED  BY <1>2, <1>5 DEF new

\* What is in a bitmap is read back from either kind of file.
LEMMA ReadBack ==
    ASSUME NEW x \in Maps \cup Filters, IsBitmap(bitmaps[x]), NEW kind \in {"fd", "FILE"}
    PROVE  Loaded(kind, DumpOf(x, kind)) = bitmaps[x]
<1> DEFINE bm == bitmaps[x]
<1>1. bm = [bitSize |-> bm.bitSize, elemSize |-> bm.elemSize, byteArray |-> bm.byteArray]
      /\ bm.bitSize = bm.elemSize * WordBits
  BY DEF IsBitmap
<1> HIDE DEF bm
<1>2. CASE kind = "fd"
  BY <1>1, <1>2 DEF Loaded, DumpOf, bm
<1>3. CASE kind = "FILE"
  <2>1. kind # "fd"
    BY <1>3
  <2>. QED  BY <1>1, <2>1 DEF Loaded, DumpOf, bm
<1>. QED  BY <1>2, <1>3

\* A step that changes one bitmap and nothing else.
LEMMA MapKeeps ==
    ASSUME BitmapInv, NEW m \in Maps, NEW bm, NEW ins, NEW left, Faithful(bm, ins, left),
           bitmaps' = [bitmaps EXCEPT ![m] = bm], added' = [added EXCEPT ![m] = ins],
           DOMAIN cleared' = Maps, cleared'[m] = left,
           \A n \in Maps \ {m} : cleared'[n] = cleared[n],
           UNCHANGED <<filters, bitmapFile>>
    PROVE  BitmapInv'
<1> USE DEF BitmapInv
<1>1. m \notin Filters
  BY BitmapAssumption
<1>2. ObjectsInv'
  BY DEF ObjectsInv
<1>3. bitmaps'[m] = bm /\ added'[m] = ins
  BY DEF ObjectsInv
<1>4. \A x \in (Maps \cup Filters) \ {m} : bitmaps'[x] = bitmaps[x] /\ added'[x] = added[x]
  BY DEF ObjectsInv
<1>5. MapsInv'
  <2> SUFFICES ASSUME NEW n \in Maps
               PROVE  Faithful(bitmaps'[n], added'[n], cleared'[n])
    BY DEF MapsInv
  <2>1. n # m => Faithful(bitmaps[n], added[n], cleared[n])
    BY DEF MapsInv
  <2>2. n # m => bitmaps'[n] = bitmaps[n] /\ added'[n] = added[n] /\ cleared'[n] = cleared[n]
    BY <1>4
  <2>. QED  BY <1>3, <2>1, <2>2
<1>6. FiltersInv'
  BY <1>1, <1>4 DEF FiltersInv
<1>7. FileInv'
  BY DEF FileInv
<1>. QED  BY <1>2, <1>5, <1>6, <1>7

\* A step that changes one filter and nothing else.
LEMMA FilterKeeps ==
    ASSUME BitmapInv, NEW f \in Filters, NEW bm, NEW ins, Sieve(bm, filters'[f].hashFuncNum, ins),
           bitmaps' = [bitmaps EXCEPT ![f] = bm], added' = [added EXCEPT ![f] = ins],
           \A g \in Filters \ {f} : filters'[g] = filters[g],
           UNCHANGED <<cleared, bitmapFile>>, ObjectsInv'
    PROVE  BitmapInv'
<1> USE DEF BitmapInv
<1>1. f \notin Maps
  BY BitmapAssumption
<1>2. bitmaps'[f] = bm /\ added'[f] = ins
  BY DEF ObjectsInv
<1>3. \A x \in (Maps \cup Filters) \ {f} : bitmaps'[x] = bitmaps[x] /\ added'[x] = added[x]
  BY DEF ObjectsInv
<1>4. MapsInv'
  BY <1>1, <1>3 DEF MapsInv
<1>5. FiltersInv'
  <2> SUFFICES ASSUME NEW g \in Filters
               PROVE  Sieve(bitmaps'[g], filters'[g].hashFuncNum, added'[g])
    BY DEF FiltersInv
  <2>1. g # f => Sieve(bitmaps[g], filters[g].hashFuncNum, added[g])
    BY DEF FiltersInv
  <2>2. g # f => bitmaps'[g] = bitmaps[g] /\ added'[g] = added[g] /\ filters'[g] = filters[g]
    BY <1>3
  <2>. QED  BY <1>2, <2>1, <2>2
<1>6. FileInv'
  BY DEF FileInv
<1>. QED  BY <1>4, <1>5, <1>6

LEMMA SetBitKeeps ==
    ASSUME BitmapInv, NEW m \in Maps, NEW pos \in BitPositions, setBit(m, pos) PROVE BitmapInv'
<1> DEFINE bm == setBitOf(bitmaps[m], {pos})
<1>1. pos \in Nat
  BY BitmapAssumption
<1>2. /\ bitmaps' = [bitmaps EXCEPT ![m] = bm]
      /\ added' = [added EXCEPT ![m] = added[m] \cup {pos}]
      /\ UNCHANGED <<filters, bitmapFile, cleared>> /\ pos < bitmaps[m].bitSize
  BY DEF setBit
<1>3. Faithful(bitmaps[m], added[m], cleared[m]) /\ IsBitmap(bitmaps[m])
  BY DEF BitmapInv, MapsInv, Faithful
<1>4. /\ IsBitmap(bm)
      /\ OneBits(bm) = OneBits(bitmaps[m]) \cup {p \in {pos} : p < bitmaps[m].bitSize}
  <2>1. {pos} \in SUBSET Nat
    BY <1>1
  <2>. QED  BY <1>3, <2>1, SetBits
<1> HIDE DEF bm
<1>5. Faithful(bm, added[m] \cup {pos}, cleared[m])
  BY <1>2, <1>3, <1>4 DEF Faithful
<1>6. DOMAIN cleared' = Maps /\ cleared' = cleared
  BY <1>2 DEF BitmapInv, ObjectsInv
<1>. QED  BY <1>2, <1>5, <1>6, MapKeeps

LEMMA MergeBitsKeeps ==
    ASSUME BitmapInv, NEW m \in Maps, NEW n \in Maps, mergeBits(m, n) PROVE BitmapInv'
<1> DEFINE a == bitmaps[m]
           b == bitmaps[n]
           S == Shared(m, n)
           W == Within(m, n)
           arr == [i \in DOMAIN a.byteArray |->
                     IF i \in S THEN a.byteArray[i] \cup b.byteArray[i] ELSE a.byteArray[i]]
           bm == [a EXCEPT !.byteArray = arr]
<1>1. /\ bitmaps' = [bitmaps EXCEPT ![m] = bm]
      /\ added' = [added EXCEPT ![m] = added[m] \cup (added[n] \cap W)]
      /\ cleared' = [cleared EXCEPT ![m] = cleared[m] \cup (cleared[n] \cap W)]
      /\ UNCHANGED <<filters, bitmapFile>>
  BY DEF mergeBits
<1>2. Faithful(a, added[m], cleared[m]) /\ Faithful(b, added[n], cleared[n])
      /\ IsBitmap(a) /\ IsBitmap(b)
  BY DEF BitmapInv, MapsInv, Faithful
<1>3. arr = Combined(a, b, TRUE)
  <2>1. DOMAIN a.byteArray = 0 .. a.elemSize - 1
    BY <1>2 DEF IsBitmap
  <2>. QED  BY <2>1 DEF Combined, Both, Shared
<1>4. W = BothBits(a, b)
  BY DEF Within, BothBits, Shared, Both
<1> HIDE DEF a, b, S, W, arr
<1>7. /\ IsBitmap(bm)
      /\ OneBits(bm) = OneBits(a) \cup (OneBits(b) \cap W)
  BY <1>2, <1>3, <1>4, SharedBits
<1> HIDE DEF bm
<1>8. Faithful(bm, added[m] \cup (added[n] \cap W), cleared[m] \cup (cleared[n] \cap W))
  BY <1>2, <1>7 DEF Faithful
<1>9. /\ DOMAIN cleared' = Maps /\ cleared'[m] = cleared[m] \cup (cleared[n] \cap W)
      /\ \A l \in Maps \ {m} : cleared'[l] = cleared[l]
  BY <1>1 DEF BitmapInv, ObjectsInv
<1>. QED  BY <1>1, <1>8, <1>9, MapKeeps

LEMMA CopyKeeps ==
    ASSUME BitmapInv, NEW m \in Maps, NEW n \in Maps, copy(m, n) PROVE BitmapInv'
<1> DEFINE a == bitmaps[m]
           b == bitmaps[n]
           S == Shared(m, n)
           W == Within(m, n)
           arr == [i \in DOMAIN a.byteArray |->
                     IF i \in S THEN b.byteArray[i] ELSE a.byteArray[i]]
           bm == [a EXCEPT !.byteArray = arr]
<1>1. /\ bitmaps' = [bitmaps EXCEPT ![m] = bm]
      /\ added' = [added EXCEPT ![m] = (added[m] \ W) \cup (added[n] \cap W)]
      /\ cleared' = [cleared EXCEPT ![m] = (cleared[m] \ W) \cup (cleared[n] \cap W)]
      /\ UNCHANGED <<filters, bitmapFile>>
  BY DEF copy
<1>2. Faithful(a, added[m], cleared[m]) /\ Faithful(b, added[n], cleared[n])
      /\ IsBitmap(a) /\ IsBitmap(b)
  BY DEF BitmapInv, MapsInv, Faithful
<1>3. arr = Combined(a, b, FALSE)
  <2>1. DOMAIN a.byteArray = 0 .. a.elemSize - 1
    BY <1>2 DEF IsBitmap
  <2>. QED  BY <2>1 DEF Combined, Both, Shared
<1>4. W = BothBits(a, b)
  BY DEF Within, BothBits, Shared, Both
<1> HIDE DEF a, b, S, W, arr
<1>7. /\ IsBitmap(bm)
      /\ OneBits(bm) = (OneBits(a) \ W) \cup (OneBits(b) \cap W)
  BY <1>2, <1>3, <1>4, SharedBits
<1> HIDE DEF bm
<1>8. Faithful(bm, (added[m] \ W) \cup (added[n] \cap W), (cleared[m] \ W) \cup (cleared[n] \cap W))
  BY <1>2, <1>7 DEF Faithful
<1>9. /\ DOMAIN cleared' = Maps /\ cleared'[m] = (cleared[m] \ W) \cup (cleared[n] \cap W)
      /\ \A l \in Maps \ {m} : cleared'[l] = cleared[l]
  BY <1>1 DEF BitmapInv, ObjectsInv
<1>. QED  BY <1>1, <1>8, <1>9, MapKeeps

LEMMA ClearKeeps ==
    ASSUME BitmapInv, NEW m \in Maps, clear(m) PROVE BitmapInv'
<1> DEFINE a == bitmaps[m]
           arr == [i \in DOMAIN a.byteArray |->
                     {b \in a.byteArray[i] : i * WordBits + b \notin Memset(a)}]
           bm == [a EXCEPT !.byteArray = arr]
<1>1. /\ bitmaps' = [bitmaps EXCEPT ![m] = bm]
      /\ added' = [added EXCEPT ![m] = {}]
      /\ cleared' = [cleared EXCEPT ![m] = cleared[m] \cup added[m]]
      /\ UNCHANGED <<filters, bitmapFile>>
  BY DEF clear
<1>2. Faithful(a, added[m], cleared[m]) /\ IsBitmap(a)
  BY DEF BitmapInv, MapsInv, Faithful
<1> HIDE DEF a
<1>3. IsBitmap(bm) /\ OneBits(bm) \subseteq OneBits(a) /\ \A p \in OneBits(bm) : p >= ByteBits
  BY <1>2, ClearedBits
<1> HIDE DEF bm
<1>4. Faithful(bm, {}, cleared[m] \cup added[m])
  BY <1>2, <1>3 DEF Faithful
<1>5. /\ DOMAIN cleared' = Maps /\ cleared'[m] = cleared[m] \cup added[m]
      /\ \A l \in Maps \ {m} : cleared'[l] = cleared[l]
  BY <1>1 DEF BitmapInv, ObjectsInv
<1>. QED  BY <1>1, <1>4, <1>5, MapKeeps

LEMMA ReadBitmapKeeps ==
    ASSUME BitmapInv, NEW m \in Maps, readBitmap(m) PROVE BitmapInv'
<1> DEFINE bm == Loaded(bitmapFile.kind, bitmapFile.bitmap)
<1>1. /\ bitmaps' = [bitmaps EXCEPT ![m] = bm]
      /\ added' = [added EXCEPT ![m] = bitmapFile.added]
      /\ cleared' = [cleared EXCEPT ![m] = bitmapFile.cleared]
      /\ UNCHANGED <<filters, bitmapFile>>
  BY DEF readBitmap
<1>2. Faithful(bm, bitmapFile.added, bitmapFile.cleared)
  BY DEF readBitmap, BitmapInv, FileInv
<1>3. /\ DOMAIN cleared' = Maps /\ cleared'[m] = bitmapFile.cleared
      /\ \A l \in Maps \ {m} : cleared'[l] = cleared[l]
  BY <1>1 DEF BitmapInv, ObjectsInv
<1> HIDE DEF bm
<1>. QED  BY <1>1, <1>2, <1>3, MapKeeps

\* Without a change of the objects the invariant is about the new file.
LEMMA DumpKeeps ==
    ASSUME BitmapInv, UNCHANGED <<bitmaps, filters, added, cleared>>, FileInv' PROVE BitmapInv'
BY DEF BitmapInv, ObjectsInv, MapsInv, FiltersInv

LEMMA DumpBitmapKeeps ==
    ASSUME BitmapInv, NEW m \in Maps, NEW kind \in {"fd", "FILE"}, dump2file(m, kind)
    PROVE  BitmapInv'
<1>1. bitmapFile' = [kind |-> kind, filter |-> NoFile, bitmap |-> DumpOf(m, kind),
                     added |-> added[m], cleared |-> cleared[m]]
      /\ UNCHANGED <<bitmaps, filters, added, cleared>>
  BY DEF dump2file
<1>2. Faithful(bitmaps[m], added[m], cleared[m]) /\ IsBitmap(bitmaps[m])
  BY DEF BitmapInv, MapsInv, Faithful
<1>3. Loaded(kind, DumpOf(m, kind)) = bitmaps[m]
  BY <1>2, ReadBack
<1>4. /\ bitmapFile'.filter = NoFile /\ bitmapFile'.added = added[m]
      /\ bitmapFile'.cleared = cleared[m]
      /\ bitmapFile'.kind = kind /\ bitmapFile'.bitmap = DumpOf(m, kind)
  BY <1>1
<1>5. FileInv'
  BY <1>2, <1>3, <1>4 DEF FileInv, Loaded
<1>. QED  BY <1>1, <1>5, DumpKeeps

LEMMA DumpFilterKeeps ==
    ASSUME BitmapInv, NEW f \in Filters, NEW kind \in {"fd", "FILE"}, dumpFilter(f, kind)
    PROVE  BitmapInv'
<1> DEFINE head == [elementNum |-> filters[f].elementNum, hashFuncNum |-> filters[f].hashFuncNum]
<1>1. bitmapFile' = [kind |-> kind, filter |-> head, bitmap |-> DumpOf(f, kind), added |-> added[f]]
      /\ UNCHANGED <<bitmaps, filters, added, cleared>>
  BY DEF dumpFilter
<1>2. Sieve(bitmaps[f], filters[f].hashFuncNum, added[f]) /\ IsBitmap(bitmaps[f])
      /\ filters[f].elementNum \in Nat /\ filters[f].hashFuncNum \in Nat
  BY DEF BitmapInv, FiltersInv, Sieve, HashesKnown, ObjectsInv
<1>3. Loaded(kind, DumpOf(f, kind)) = bitmaps[f]
  BY <1>2, ReadBack
<1>4. head \in [elementNum : Nat, hashFuncNum : Nat] /\ head # NoFile
      /\ head.hashFuncNum = filters[f].hashFuncNum
  BY <1>2, BitmapAssumption
<1> HIDE DEF head
<1>5. /\ bitmapFile'.filter = head /\ bitmapFile'.added = added[f]
      /\ bitmapFile'.kind = kind /\ bitmapFile'.bitmap = DumpOf(f, kind)
  BY <1>1
<1>6. FileInv'
  BY <1>2, <1>3, <1>4, <1>5 DEF FileInv, Loaded
<1>. QED  BY <1>1, <1>6, DumpKeeps

LEMMA SetHashFuncKeeps ==
    ASSUME BitmapInv, NEW f \in Filters, setHashFunc(f) PROVE BitmapInv'
<1>1. filters' = [filters EXCEPT ![f].hashFuncVec = Indexes(f)]
      /\ UNCHANGED <<bitmaps, bitmapFile, added, cleared>>
  BY DEF setHashFunc
<1>2. \A g \in Filters : /\ filters'[g].hashFuncNum = filters[g].hashFuncNum
                         /\ filters'[g].elementNum = filters[g].elementNum
  BY <1>1 DEF BitmapInv, ObjectsInv
<1>3. ObjectsInv'
  BY <1>1 DEF BitmapInv, ObjectsInv
<1>4. MapsInv' /\ FiltersInv' /\ FileInv'
  BY <1>1, <1>2 DEF BitmapInv, MapsInv, FiltersInv, FileInv
<1>. QED  BY <1>3, <1>4 DEF BitmapInv

LEMMA ReadFilterKeeps ==
    ASSUME BitmapInv, NEW f \in Filters, readFilter(f) PROVE BitmapInv'
<1> DEFINE bm == Loaded(bitmapFile.kind, bitmapFile.bitmap)
           n == bitmapFile.filter.hashFuncNum
           new == [elementNum |-> bitmapFile.filter.elementNum, hashFuncNum |-> n,
                   hashFuncVec |-> filters[f].hashFuncVec \cap (0 .. n - 1)]
<1>1. /\ bitmaps' = [bitmaps EXCEPT ![f] = bm]
      /\ added' = [added EXCEPT ![f] = bitmapFile.added]
      /\ filters' = [filters EXCEPT ![f] = new]
      /\ UNCHANGED <<cleared, bitmapFile>>
  BY DEF readFilter
<1>2. Sieve(bm, n, bitmapFile.added) /\ bitmapFile.filter \in [elementNum : Nat, hashFuncNum : Nat]
  BY DEF readFilter, BitmapInv, FileInv
<1>3. filters'[f] = new /\ \A g \in Filters \ {f} : filters'[g] = filters[g]
  BY <1>1 DEF BitmapInv, ObjectsInv
<1>4. new.hashFuncNum = n /\ new.elementNum \in Nat
      /\ new = [elementNum |-> new.elementNum, hashFuncNum |-> new.hashFuncNum,
                hashFuncVec |-> new.hashFuncVec]
  BY <1>2
<1> HIDE DEF bm, n, new
<1>5. ObjectsInv'
  BY <1>1, <1>3, <1>4 DEF BitmapInv, ObjectsInv
<1>6. filters'[f].hashFuncNum = n
  BY <1>3, <1>4
<1>. QED  BY <1>1, <1>2, <1>3, <1>5, <1>6, FilterKeeps

LEMMA InsertElementKeeps ==
    ASSUME BitmapInv, NEW f \in Filters, NEW e \in Elems, insertElement(f, e) PROVE BitmapInv'
<1> DEFINE a == bitmaps[f]
           k == filters[f].hashFuncNum
           P == {HashBit(f, e, i) : i \in Indexes(f)}
           bm == setBitOf(a, P)
<1>1. /\ bitmaps' = [bitmaps EXCEPT ![f] = bm]
      /\ added' = [added EXCEPT ![f] = added[f] \cup {e}]
      /\ UNCHANGED <<filters, bitmapFile, cleared>>
  BY DEF insertElement
<1>2. Sieve(a, k, added[f]) /\ IsBitmap(a) /\ HashesKnown(k) /\ a.bitSize \in Nat \ {0}
  BY SizeIsNat DEF BitmapInv, FiltersInv, Sieve
<1>3. P = {(HashCode[i][e] + i) % a.bitSize : i \in 0 .. k - 1}
  BY DEF HashBit, Indexes
<1> HIDE DEF a, k, P
<1>4. ASSUME NEW i \in 0 .. k - 1
      PROVE  (HashCode[i][e] + i) % a.bitSize \in 0 .. a.bitSize - 1
  <2>1. HashCode[i][e] \in Nat /\ k \in Nat
    BY <1>2 DEF HashesKnown
  <2>2. HashCode[i][e] + i \in Nat
    BY <2>1
  <2>. QED  BY <1>2, <2>2, Division
<1>5. P \in SUBSET Nat
  BY <1>2, <1>3, <1>4
<1>6. IsBitmap(bm) /\ bm.bitSize = a.bitSize
      /\ OneBits(bm) = OneBits(a) \cup {p \in P : p < a.bitSize}
  BY <1>2, <1>5, SetBits
<1> HIDE DEF bm
<1>7. Sieve(bm, k, added[f] \cup {e})
  <2>1. IsBitmap(bm) /\ HashesKnown(k) /\ added[f] \cup {e} \subseteq Elems
    BY <1>2, <1>6 DEF Sieve
  <2>2. ASSUME NEW d \in added[f] \cup {e}, NEW i \in 0 .. k - 1
        PROVE  (HashCode[i][d] + i) % bm.bitSize \in OneBits(bm)
    <3>1. CASE d = e
      <4>1. (HashCode[i][e] + i) % a.bitSize \in P
        BY <1>3
      <4>2. (HashCode[i][e] + i) % a.bitSize < a.bitSize
        BY <1>2, <1>4
      <4>. QED  BY <1>6, <3>1, <4>1, <4>2
    <3>2. CASE d \in added[f]
      BY <1>2, <1>6, <3>2 DEF Sieve
    <3>. QED  BY <3>1, <3>2
  <2>. QED  BY <2>1, <2>2 DEF Sieve
<1>8. ObjectsInv' /\ filters'[f].hashFuncNum = k
  BY <1>1 DEF BitmapInv, ObjectsInv, k
<1>. QED  BY <1>1, <1>7, <1>8, FilterKeeps

LEMMA BitmapNextKeeps ==
    ASSUME BitmapInv, BitmapNext PROVE BitmapInv'
BY SetBitKeeps, MergeBitsKeeps, CopyKeeps, ClearKeeps, ReadBitmapKeeps, DumpBitmapKeeps,
   SetHashFuncKeeps, ReadFilterKeeps, InsertElementKeeps, DumpFilterKeeps DEF BitmapNext

\* The inductive invariant: bitmaps, filters and the file hold the bits of what
\* was set, inserted or read, and nothing else but what a clear left.
THEOREM BitmapInvariance == BitmapSpec => []BitmapInv
<1>1. BitmapInit => BitmapInv
  BY InitBitmapInv
<1>2. BitmapInv /\ [BitmapNext]_bitVars => BitmapInv'
  <2> SUFFICES ASSUME BitmapInv, [BitmapNext]_bitVars PROVE BitmapInv'
    OBVIOUS
  <2>1. CASE BitmapNext
    BY <2>1, BitmapNextKeeps
  <2>2. CASE UNCHANGED bitVars
    BY <2>2 DEF bitVars, BitmapInv, ObjectsInv, MapsInv, FiltersInv, FileInv
  <2>. QED  BY <2>1, <2>2
<1>. QED  BY <1>1, <1>2, PTL DEF BitmapSpec

\* containElement never denies an element that was inserted, whatever the sizes
\* and the hash functions of the filters are and over any sequence of files.
THEOREM NoFalseNegatives == BitmapSpec => []BloomNoFalseNegative
<1>1. BitmapInv => BloomNoFalseNegative
  <2> SUFFICES ASSUME BitmapInv, NEW f \in Filters, NEW e \in added[f], NEW i \in Indexes(f)
               PROVE  getBit(bitmaps[f], HashBit(f, e, i))
    BY DEF BloomNoFalseNegative, containElement
  <2>1. Sieve(bitmaps[f], filters[f].hashFuncNum, added[f])
    BY DEF BitmapInv, FiltersInv
  <2>2. HashBit(f, e, i) \in OneBits(bitmaps[f])
    BY <2>1 DEF Sieve, HashBit, Indexes
  <2>. QED  BY <2>2 DEF OneBits
<1>. QED  BY <1>1, BitmapInvariance, PTL

\* A turn of num2pos on a number with one one bit, q.
LEMMA ShiftedTurn ==
    ASSUME NEW q \in Nat, NEW r \in Nat
    PROVE  Shifted([num |-> {q}, ret |-> r]) =
             IF q >= ByteBits THEN [num |-> {q - ByteBits}, ret |-> r + ByteBits]
             ELSE [num |-> {q}, ret |-> r]
<1> DEFINE t == [num |-> {q}, ret |-> r]
<1>1. Beyond(t) <=> q >= ByteBits
  BY DEF Beyond
<1>2. q >= ByteBits => Rest(t) = {q - ByteBits}
  BY DEF Rest
<1>3. t.num = {q} /\ t.ret = r
  OBVIOUS
<1> HIDE DEF t
<1>. QED  BY <1>1, <1>2, <1>3 DEF Shifted, t

\* num2pos returns the position of the only one bit of a word.
LEMMA Num2Pos ==
    ASSUME NEW p \in 0 .. WordBits - 1
    PROVE  num2pos({p}) = p
<1> DEFINE D == [num : {{q} : q \in Nat}, ret : Nat]
           N == WordBytes
           a == [num |-> {p}, ret |-> 0]
           step == [x \in (1 .. N) \X D |-> Shifted(x[2])]
<1>1. N \in Nat /\ ByteBits \in Nat \ {0} /\ p \in Nat /\ p < ByteBits * N /\ WordBits \in Nat
  BY BitmapAssumption, WordBitsPositive DEF WordBits
<1>2. a \in D
  BY <1>1
<1>3. ASSUME NEW t \in D
      PROVE  /\ Shifted(t) \in D
             /\ \A q \in Nat, r \in Nat : t = [num |-> {q}, ret |-> r] =>
                  Shifted(t) = IF q >= ByteBits THEN [num |-> {q - ByteBits}, ret |-> r + ByteBits]
                               ELSE [num |-> {q}, ret |-> r]
  <2>1. PICK q \in Nat, r \in Nat : t = [num |-> {q}, ret |-> r]
    OBVIOUS
  <2>2. Shifted(t) = IF q >= ByteBits THEN [num |-> {q - ByteBits}, ret |-> r + ByteBits]
                     ELSE [num |-> {q}, ret |-> r]
    BY <2>1, ShiftedTurn
  <2>3. q >= ByteBits => q - ByteBits \in Nat /\ r + ByteBits \in Nat
    BY <1>1
  <2>4. Shifted(t) \in D
    BY <2>2, <2>3
  <2>. QED  BY <2>4, ShiftedTurn
<1>4. step \in [(1 .. N) \X D -> D]
  BY <1>3
<1>5. PICK f \in Recursions(N, D, a, step) : TRUE
  <2> HIDE DEF N, D, a, step
  <2>. QED  BY <1>1, <1>2, <1>4, RecursionExists
<1>6. /\ f \in [0 .. N -> D] /\ f[0] = a
      /\ \A k \in 1 .. N : f[k - 1] \in D /\ f[k] = Shifted(f[k - 1])
  <2>1. f \in [0 .. N -> D] /\ f[0] = a /\ \A k \in 1 .. N : f[k] = step[<<k, f[k - 1]>>]
    <3> HIDE DEF N, D, a, step
    <3>. QED  BY <1>5 DEF Recursions
  <2>2. \A k \in 1 .. N, t \in D : step[<<k, t>>] = Shifted(t)
    <3> HIDE DEF N, D
    <3>. QED  OBVIOUS
  <2>3. \A k \in 1 .. N : k - 1 \in 0 .. N
    BY <1>1
  <2>4. \A k \in 1 .. N : f[k - 1] \in D
    <3> HIDE DEF N, D
    <3>. QED  BY <2>1, <2>3
  <2>. QED  BY <2>1, <2>2, <2>4
<1>7. f = [k \in 0 .. N |-> IF k = 0 THEN a ELSE Shifted(f[k - 1])]
  <2> HIDE DEF a, D
  <2>. QED  BY <1>1, <1>6
<1> DEFINE turn == CHOOSE g : g = [k \in 0 .. N |-> IF k = 0 THEN a ELSE Shifted(g[k - 1])]
<1>8. turn = [k \in 0 .. N |-> IF k = 0 THEN a ELSE Shifted(turn[k - 1])]
  BY <1>7
<1>9. num2pos({p}) = Counted(turn[N])
  BY DEF num2pos
<1> HIDE DEF turn
<1> DEFINE B(k) == ByteBits * k
           Left(k, q, r) == /\ turn[k] = [num |-> {q}, ret |-> r] /\ q + r = p
                            /\ q < ByteBits \/ r = B(k)
           S == {k \in 0 .. N : \E q \in Nat, r \in Nat : Left(k, q, r)}
<1>10. B(0) = 0 /\ B(N) = ByteBits * N /\ \A k \in 0 .. N - 1 : B(k + 1) = B(k) + ByteBits /\ B(k) \in Nat
  <2>1. \A x, y \in Nat : x * (y + 1) = x * y + x /\ x * y \in Nat /\ x * 0 = 0
    OBVIOUS
  <2>. QED  BY <1>1, <2>1
<1> HIDE DEF B
<1>11. 0 \in S
  <2>1. turn[0] = [num |-> {p}, ret |-> 0] /\ p + 0 = p /\ 0 \in 0 .. N /\ p \in Nat /\ 0 \in Nat
    BY <1>1, <1>8
  <2>2. Left(0, p, 0)
    BY <1>10, <2>1
  <2> HIDE DEF Left
  <2>. QED  BY <2>1, <2>2, Zenon
<1>12. ASSUME NEW k \in 0 .. N - 1, k \in S PROVE k + 1 \in S
  <2>1. PICK q \in Nat, r \in Nat : Left(k, q, r)
    BY <1>12
  <2>2. turn[k + 1] = Shifted(turn[k]) /\ k + 1 \in 0 .. N
    <3>1. k + 1 \in 0 .. N /\ k + 1 # 0 /\ (k + 1) - 1 = k
      BY <1>1
    <3>2. turn[k + 1] = IF k + 1 = 0 THEN a ELSE Shifted(turn[(k + 1) - 1])
      <4> HIDE DEF a
      <4>. QED  BY <1>8, <3>1, Zenon
    <3>. QED  BY <3>1, <3>2, Zenon
  <2>3. turn[k + 1] = IF q >= ByteBits THEN [num |-> {q - ByteBits}, ret |-> r + ByteBits]
                      ELSE [num |-> {q}, ret |-> r]
    BY <2>1, <2>2, ShiftedTurn
  <2>4. CASE q >= ByteBits
    <3>1. q - ByteBits \in Nat /\ r + ByteBits \in Nat /\ (q - ByteBits) + (r + ByteBits) = p
      BY <1>1, <2>1, <2>4
    <3>2. r + ByteBits = B(k + 1)
      BY <1>1, <1>10, <2>1, <2>4
    <3>3. Left(k + 1, q - ByteBits, r + ByteBits)
      BY <2>3, <2>4, <3>1, <3>2
    <3> HIDE DEF Left
    <3>. QED  BY <2>2, <3>1, <3>3, Zenon
  <2>5. CASE q < ByteBits
    <3>1. turn[k + 1] = [num |-> {q}, ret |-> r]
      BY <1>1, <2>3, <2>5
    <3>2. Left(k + 1, q, r)
      BY <2>1, <2>5, <3>1
    <3> HIDE DEF Left
    <3>. QED  BY <2>2, <3>2, Zenon
  <2>6. q >= ByteBits \/ q < ByteBits
    BY <1>1
  <2> HIDE DEF S, Left
  <2>. QED  BY <2>4, <2>5, <2>6, Zenon
<1>13. N \in S
  <2>1. 0 .. N \subseteq S
    <3> HIDE DEF S, N
    <3>. QED  BY <1>1, <1>11, <1>12, Climb
  <2>2. N \in 0 .. N
    BY <1>1
  <2> HIDE DEF S, N
  <2>. QED  BY <2>1, <2>2, Zenon
<1>14. PICK q \in Nat, r \in Nat : Left(N, q, r)
  BY <1>13
<1>15. q < ByteBits
  BY <1>1, <1>10, <1>14
<1>16. num2pos_table({q}) = q
  BY <1>1, <1>15 DEF num2pos_table
<1>. QED  BY <1>9, <1>14, <1>16 DEF Counted

\* What getOnePosition has listed of the i-th word when tmp is left of it.
Taken(i, word, S, t) ==
  /\ t.tmp \subseteq word /\ Ascends(t.pos, S \cup {i * WordBits + b : b \in word \ t.tmp})
  /\ \A b \in word \ t.tmp, c \in t.tmp : b < c

LEMMA TakeLowestTurn ==
    ASSUME NEW i \in Nat, NEW word \in SUBSET (0 .. WordBits - 1), NEW S \in SUBSET Nat,
           \A x \in S : x < i * WordBits,
           NEW t, Taken(i, word, S, t), t.tmp # {}
    PROVE  LET u == TakeLowest(i, t)
           IN /\ Taken(i, word, S, u)
              /\ u.tmp = t.tmp \ {Min(t.tmp)} /\ Min(t.tmp) \in t.tmp
              /\ u = [pos |-> u.pos, tmp |-> u.tmp]
<1> DEFINE m == Min(t.tmp)
           v == i * WordBits + m
           u == TakeLowest(i, t)
           L == {i * WordBits + b : b \in word \ t.tmp}
<1>20. word \subseteq Nat
  BY WordBitsPositive
<1>21. t.tmp \subseteq word /\ t.tmp \subseteq Nat /\ \A b \in word \ t.tmp, c \in t.tmp : b < c
  BY <1>20, Zenon DEF Taken
<1>1. m \in t.tmp /\ \A y \in t.tmp : m <= y
  <2>1. t.tmp \in SUBSET Nat
    BY <1>21
  <2>. QED  BY <2>1, MinIsLeast
<1> HIDE DEF m
<1>2. m \in word /\ m \in 0 .. WordBits - 1 /\ m \in Nat
  BY <1>1, <1>20, <1>21
<1>3. num2pos({m}) = m
  BY <1>2, Num2Pos
<1>4. u = [pos |-> Append(t.pos, v), tmp |-> t.tmp \ {m}]
  BY <1>3 DEF TakeLowest, m
<1>5. i * WordBits \in Nat
  <2>1. \A x, y \in Nat : x * y \in Nat
    OBVIOUS
  <2>. QED  BY <2>1, WordBitsPositive
<1>6. v \in Nat
  BY <1>2, <1>5
<1>7. \A x \in S \cup L : x < v
  <2>1. \A x \in S : x < v
    BY <1>2, <1>5
  <2>2. ASSUME NEW b \in word \ t.tmp PROVE i * WordBits + b < v
    <3>1. b < m
      BY <1>1, <1>21
    <3>2. b \in Nat
      BY <1>20
    <3>. QED  BY <1>2, <1>5, <3>1, <3>2
  <2>. QED  BY <2>1, <2>2
<1>8. Ascends(Append(t.pos, v), (S \cup L) \cup {v})
  <2>1. Ascends(t.pos, S \cup L)
    BY Zenon DEF Taken
  <2> HIDE DEF v, L
  <2>. QED  BY <1>6, <1>7, <2>1, AppendAscends
<1>9. (S \cup L) \cup {v} = S \cup {i * WordBits + b : b \in word \ (t.tmp \ {m})}
  BY <1>1, <1>2
<1>10. t.tmp \ {m} \subseteq word
       /\ \A b \in word \ (t.tmp \ {m}), c \in t.tmp \ {m} : b < c
  <2>2. ASSUME NEW c \in t.tmp \ {m} PROVE m < c
    <3>1. m <= c /\ c # m /\ c \in Nat
      BY <1>1, <1>21
    <3>. QED  BY <1>2, <3>1
  <2>. QED  BY <1>21, <2>2
<1>11. u.pos = Append(t.pos, v) /\ u.tmp = t.tmp \ {m} /\ u = [pos |-> u.pos, tmp |-> u.tmp]
  <2> HIDE DEF u, v
  <2>. QED  BY <1>4
<1> HIDE DEF u, v, L
<1>12. Taken(i, word, S, u)
  BY <1>8, <1>9, <1>10, <1>11 DEF Taken
<1>. QED  BY <1>1, <1>11, <1>12 DEF u, m

\* The inner loop lists the bits of a word after those of the words before.
LEMMA OfWord ==
    ASSUME NEW i \in Nat, NEW word \in SUBSET (0 .. WordBits - 1), NEW S \in SUBSET Nat,
           NEW pos, Ascends(pos, S), \A x \in S : x < i * WordBits
    PROVE  Ascends(ofWord(i, word, pos), S \cup {i * WordBits + b : b \in word})
<1> DEFINE N == Cardinality(word)
           a == [pos |-> pos, tmp |-> word]
           D == {t \in [pos : Seq(Nat), tmp : SUBSET word] : Taken(i, word, S, t)}
           Next1(t) == IF t.tmp # {} THEN TakeLowest(i, t) ELSE t
           step == [x \in (1 .. N) \X D |-> Next1(x[2])]
<1>1. IsFiniteSet(word) /\ N \in Nat /\ word \subseteq Nat
  <2>1. IsFiniteSet(0 .. WordBits - 1) /\ 0 .. WordBits - 1 \subseteq Nat
    BY FS_Interval, WordBitsPositive
  <2>. QED  BY <2>1, FS_Subset, FS_CardinalityType
<1>2. a \in D
  <2>1. pos \in Seq(Nat)
    BY DEF Ascends
  <2>2. a \in [pos : Seq(Nat), tmp : SUBSET word] /\ a.pos = pos /\ a.tmp = word
    BY <2>1
  <2>3. S \cup {i * WordBits + b : b \in word \ word} = S
    OBVIOUS
  <2> HIDE DEF a
  <2>4. Taken(i, word, S, a)
    BY <2>2, <2>3 DEF Taken
  <2>. QED  BY <2>2, <2>4
<1>3. ASSUME NEW t \in D, t.tmp # {}
      PROVE  TakeLowest(i, t) \in D /\ TakeLowest(i, t).tmp = t.tmp \ {Min(t.tmp)}
             /\ Min(t.tmp) \in t.tmp
  <2> DEFINE u == TakeLowest(i, t)
  <2>1. Taken(i, word, S, t)
    BY Zenon
  <2>2. Taken(i, word, S, u) /\ u = [pos |-> u.pos, tmp |-> u.tmp]
        /\ u.tmp = t.tmp \ {Min(t.tmp)} /\ Min(t.tmp) \in t.tmp
    <3>1. t.tmp # {} /\ word \in SUBSET (0 .. WordBits - 1) /\ S \in SUBSET Nat /\ i \in Nat
          /\ \A x \in S : x < i * WordBits
      BY <1>3
    <3> HIDE DEF D
    <3>. QED  BY <2>1, <3>1, TakeLowestTurn
  <2> HIDE DEF u
  <2>3. u.pos \in Seq(Nat) /\ u.tmp \in SUBSET word
    <3>1. u.pos \in Seq(Nat)
      BY <2>2, Zenon DEF Taken, Ascends
    <3>2. u.tmp \subseteq word
      BY <2>2, Zenon DEF Taken
    <3>. QED  BY <3>1, <3>2
  <2>4. u \in [pos : Seq(Nat), tmp : SUBSET word]
    BY <2>2, <2>3
  <2>. QED  BY <2>2, <2>4 DEF u
<1>4. step \in [(1 .. N) \X D -> D]
  <2> SUFFICES ASSUME NEW t \in D PROVE Next1(t) \in D
    OBVIOUS
  <2> HIDE DEF D
  <2>. QED  BY <1>3
<1>5. PICK f \in Recursions(N, D, a, step) : TRUE
  <2> HIDE DEF N, D, a, step
  <2>. QED  BY <1>1, <1>2, <1>4, RecursionExists
<1>6. /\ f \in [0 .. N -> D] /\ f[0] = a
      /\ \A k \in 1 .. N : f[k - 1] \in D /\ f[k] = Next1(f[k - 1])
  <2>1. f \in [0 .. N -> D] /\ f[0] = a /\ \A k \in 1 .. N : f[k] = step[<<k, f[k - 1]>>]
    <3> HIDE DEF N, D, a, step
    <3>. QED  BY <1>5 DEF Recursions
  <2>2. \A k \in 1 .. N, t \in D : step[<<k, t>>] = Next1(t)
    <3> HIDE DEF N, D, Next1
    <3>. QED  OBVIOUS
  <2>3. \A k \in 1 .. N : k - 1 \in 0 .. N
    BY <1>1
  <2>4. \A k \in 1 .. N : f[k - 1] \in D
    <3> HIDE DEF N, D
    <3>. QED  BY <2>1, <2>3
  <2> HIDE DEF N, D, Next1, step, a
  <2>. QED  BY <2>1, <2>2, <2>4
\* Every turn finds a bit.
<1> DEFINE T == {k \in 0 .. N : Cardinality(f[k].tmp) = N - k}
<1>7. ASSUME NEW k \in 0 .. N - 1, k \in T
      PROVE  f[k].tmp # {} /\ f[k + 1] = TakeLowest(i, f[k]) /\ k + 1 \in T
  <2>1. k + 1 \in 1 .. N /\ (k + 1) - 1 = k /\ k \in 0 .. N /\ k + 1 \in 0 .. N
    BY <1>1
  <2>2. f[k] \in D /\ f[k + 1] = Next1(f[k])
    <3> HIDE DEF N, D, Next1
    <3>1. f[(k + 1) - 1] \in D /\ f[k + 1] = Next1(f[(k + 1) - 1])
      BY <1>6, <2>1, Zenon
    <3>. QED  BY <2>1, <3>1, Zenon
  <2>3. IsFiniteSet(f[k].tmp) /\ Cardinality(f[k].tmp) = N - k
    <3>1. f[k].tmp \in SUBSET word
      BY <2>2
    <3>. QED  BY <1>1, <1>7, <3>1, FS_Subset
  <2>4. f[k].tmp # {}
    BY <1>1, <2>3, FS_EmptySet
  <2>5. f[k + 1] = TakeLowest(i, f[k])
    BY <2>2, <2>4
  <2> DEFINE t == f[k]
             m == Min(t.tmp)
  <2>6. f[k + 1].tmp = t.tmp \ {m} /\ m \in t.tmp
    <3> HIDE DEF D
    <3>. QED  BY <1>3, <2>2, <2>4, <2>5
  <2> HIDE DEF t, m
  <2>7. Cardinality(t.tmp \ {m}) = Cardinality(t.tmp) - 1
    BY <2>3, <2>6, FS_RemoveElement DEF t
  <2>8. Cardinality(f[k + 1].tmp) = N - (k + 1)
    BY <1>1, <2>3, <2>6, <2>7 DEF t
  <2>. QED  BY <2>1, <2>4, <2>5, <2>8
<1>8. 0 .. N \subseteq T
  <2>1. 0 \in T
    <3>1. f[0].tmp = word /\ 0 \in 0 .. N
      BY <1>1, <1>6
    <3>. QED  BY <1>1, <3>1
  <2> HIDE DEF T, N
  <2>. QED  BY <1>1, <1>7, <2>1, Climb
<1>9. \A k \in 1 .. N : f[k] = TakeLowest(i, f[k - 1])
  <2> SUFFICES ASSUME NEW k \in 1 .. N PROVE f[k] = TakeLowest(i, f[k - 1])
    OBVIOUS
  <2>1. k - 1 \in 0 .. N - 1 /\ k - 1 \in 0 .. N /\ (k - 1) + 1 = k
    BY <1>1
  <2>2. k - 1 \in T
    BY <1>8, <2>1
  <2> HIDE DEF T, N
  <2>3. f[(k - 1) + 1] = TakeLowest(i, f[k - 1])
    BY <1>7, <2>1, <2>2
  <2>. QED  BY <2>1, <2>3
<1>10. f = [k \in 0 .. N |-> IF k = 0 THEN a ELSE TakeLowest(i, f[k - 1])]
  <2> HIDE DEF a, D
  <2>. QED  BY <1>1, <1>6, <1>9
<1> DEFINE turn == CHOOSE g : g = [k \in 0 .. N |-> IF k = 0 THEN a ELSE TakeLowest(i, g[k - 1])]
<1>11. turn = [k \in 0 .. N |-> IF k = 0 THEN a ELSE TakeLowest(i, turn[k - 1])]
  BY <1>10
<1>12. ofWord(i, word, pos) = turn[N].pos
  BY DEF ofWord
<1> HIDE DEF turn
<1> DEFINE R == {k \in 0 .. N : turn[k] = f[k]}
<1>13. 0 .. N \subseteq R
  <2>1. 0 \in R
    BY <1>1, <1>6, <1>11
  <2>2. ASSUME NEW k \in 0 .. N - 1, k \in R PROVE k + 1 \in R
    <3>1. k + 1 \in 0 .. N /\ k + 1 # 0 /\ (k + 1) - 1 = k /\ k + 1 \in 1 .. N
      BY <1>1
    <3>2. turn[k + 1] = TakeLowest(i, turn[k])
      <4>1. turn[k + 1] = IF k + 1 = 0 THEN a ELSE TakeLowest(i, turn[(k + 1) - 1])
        <5> HIDE DEF a, N
        <5>. QED  BY <1>11, <3>1, Zenon
      <4>. QED  BY <3>1, <4>1, Zenon
    <3>3. f[k + 1] = TakeLowest(i, f[k])
      <4>1. f[k + 1] = TakeLowest(i, f[(k + 1) - 1])
        <5> HIDE DEF N
        <5>. QED  BY <1>9, <3>1, Zenon
      <4>. QED  BY <3>1, <4>1, Zenon
    <3>4. turn[k] = f[k]
      BY <2>2
    <3>. QED  BY <3>1, <3>2, <3>3, <3>4
  <2> HIDE DEF R, N
  <2>. QED  BY <1>1, <2>1, <2>2, Climb
<1>14. N \in 0 .. N
  BY <1>1
<1>15. turn[N] = f[N] /\ f[N] \in D /\ Cardinality(f[N].tmp) = N - N
  <2>1. N \in R /\ N \in T
    BY <1>8, <1>13, <1>14
  <2>2. f[N] \in D
    <3> HIDE DEF D
    <3>. QED  BY <1>6, <1>14
  <2>. QED  BY <2>1, <2>2
<1>16. f[N].tmp = {}
  <2>1. f[N].tmp \in SUBSET word
    BY <1>15
  <2>2. IsFiniteSet(f[N].tmp)
    BY <1>1, <2>1, FS_Subset
  <2>3. Cardinality(f[N].tmp) = 0
    BY <1>1, <1>15
  <2>. QED  BY <2>2, <2>3, FS_EmptySet
<1>17. Taken(i, word, S, f[N])
  BY <1>15
<1>18. Ascends(f[N].pos, S \cup {i * WordBits + b : b \in word \ {}})
  BY <1>16, <1>17 DEF Taken
<1>19. word \ {} = word
  OBVIOUS
<1>. QED  BY <1>12, <1>15, <1>18, <1>19

\* The bits of the words below i.
BitsBelow(bm, i) == {p \in OneBits(bm) : p < i * WordBits}

\* getOnePosition lists the one bits in ascending order.
LEMMA GetOnePosition ==
    ASSUME NEW bm, IsBitmap(bm)
    PROVE  Ascends(getOnePosition(bm), OneBits(bm))
<1> DEFINE N == bm.elemSize
           W(i) == bm.byteArray[i]
           D(i) == {s \in Seq(Nat) : Ascends(s, BitsBelow(bm, i))}
           step == [x \in (1 .. N) \X Seq(Nat) |->
                      IF x[2] \in D(x[1] - 1) THEN ofWord(x[1] - 1, W(x[1] - 1), x[2]) ELSE <<>>]
<1>1. N \in Nat /\ WordBits \in Nat \ {0} /\ OneBits(bm) \subseteq 0 .. N * WordBits - 1
      /\ \A i \in 0 .. N : i * WordBits \in Nat
  <2>1. \A x, y \in Nat : x * y \in Nat
    OBVIOUS
  <2>. QED  BY <2>1, SizeIsNat, WordBitsPositive, OneBitsOf
<1>2. ASSUME NEW i \in 1 .. N, NEW s \in D(i - 1)
      PROVE  ofWord(i - 1, W(i - 1), s) \in D(i)
  <2> DEFINE S == BitsBelow(bm, i - 1)
             w == W(i - 1)
  <2>1. i - 1 \in 0 .. N - 1 /\ i - 1 \in Nat
    BY <1>1
  <2>2. w \in SUBSET (0 .. WordBits - 1)
    BY <2>1 DEF IsBitmap
  <2>3. S \in SUBSET Nat /\ \A x \in S : x < (i - 1) * WordBits
    BY <1>1 DEF BitsBelow
  <2>4. Ascends(s, S)
    BY Zenon
  <2> HIDE DEF S, w
  <2>5. Ascends(ofWord(i - 1, w, s), S \cup {(i - 1) * WordBits + b : b \in w})
    BY <2>1, <2>2, <2>3, <2>4, OfWord
  <2>6. S \cup {(i - 1) * WordBits + b : b \in w} = BitsBelow(bm, i)
    <3>1. (i - 1) * WordBits \in Nat /\ i * WordBits = (i - 1) * WordBits + WordBits
      <4>1. \A x, y \in Nat : (x + 1) * y = x * y + y /\ x * y \in Nat
        OBVIOUS
      <4>2. (i - 1) + 1 = i
        BY <1>1
      <4>. QED  BY <1>1, <2>1, <4>1, <4>2
    <3>2. ASSUME NEW p \in S PROVE p \in BitsBelow(bm, i)
      <4>1. p \in OneBits(bm) /\ p < (i - 1) * WordBits /\ p \in Nat
        BY <1>1 DEF S, BitsBelow
      <4>2. p < i * WordBits
        BY <1>1, <3>1, <4>1
      <4>. QED  BY <4>1, <4>2 DEF BitsBelow
    <3>3. ASSUME NEW b \in w PROVE (i - 1) * WordBits + b \in BitsBelow(bm, i)
      <4>1. b \in 0 .. WordBits - 1 /\ b \in bm.byteArray[i - 1]
        BY <2>2 DEF w
      <4>2. (i - 1) * WordBits + b \in OneBits(bm)
        BY <2>1, <4>1, OneBitsOf
      <4>3. (i - 1) * WordBits + b < i * WordBits
        BY <1>1, <3>1, <4>1
      <4>. QED  BY <4>2, <4>3 DEF BitsBelow
    <3>4. ASSUME NEW p \in BitsBelow(bm, i), p \notin S
          PROVE  p \in {(i - 1) * WordBits + b : b \in w}
      <4>1. p \in OneBits(bm) /\ p \in 0 .. N * WordBits - 1 /\ p < i * WordBits /\ p \in Nat
            /\ ~(p < (i - 1) * WordBits)
        BY <1>1, <3>4 DEF S, BitsBelow
      <4> DEFINE j == p \div WordBits
                 b == p % WordBits
      <4>2. j \in 0 .. N - 1 /\ b \in 0 .. WordBits - 1 /\ p = j * WordBits + b
        BY <1>1, <4>1, WordOfBit
      <4>3. j < i /\ ~(j < i - 1)
        <5>1. i \in Nat /\ i - 1 \in Nat /\ p \in Nat
          BY <1>1, <2>1, <4>1
        <5>2. \A m \in Nat : p < m * WordBits <=> p \div WordBits < m
          <6> HIDE DEF N
          <6>. QED  BY <1>1, <4>1, WordsBelow
        <5>3. p < i * WordBits <=> p \div WordBits < i
          BY <5>1, <5>2, Zenon
        <5>4. p < (i - 1) * WordBits <=> p \div WordBits < i - 1
          BY <5>1, <5>2, Zenon
        <5>. QED  BY <4>1, <5>3, <5>4, Zenon
      <4> HIDE DEF j, b
      <4>4. j = i - 1
        BY <1>1, <4>2, <4>3
      <4>5. b \in bm.byteArray[j]
        BY <4>1, <4>2, OneBitsOf
      <4>. QED  BY <4>2, <4>4, <4>5 DEF w
    <3>. QED  BY <3>2, <3>3, <3>4
  <2>7. Ascends(ofWord(i - 1, w, s), BitsBelow(bm, i))
    BY <2>5, <2>6
  <2>. QED  BY <2>7 DEF w, Ascends
<1>3. <<>> \in Seq(Nat) /\ <<>> \in D(0)
  <2>1. BitsBelow(bm, 0) = {}
    BY <1>1 DEF BitsBelow
  <2>2. <<>> \in Seq(Nat) /\ ToSet(<<>>) = {} /\ Len(<<>>) = 0
    BY DEF ToSet
  <2>3. Ascends(<<>>, {})
    BY <2>2 DEF Ascends
  <2>. QED  BY <2>1, <2>2, <2>3
<1>4. step \in [(1 .. N) \X Seq(Nat) -> Seq(Nat)]
  <2> SUFFICES ASSUME NEW i \in 1 .. N, NEW s \in Seq(Nat), s \in D(i - 1)
               PROVE  ofWord(i - 1, W(i - 1), s) \in Seq(Nat)
    BY <1>3
  <2>. QED  BY <1>2
<1>5. PICK f \in Recursions(N, Seq(Nat), <<>>, step) : TRUE
  <2> HIDE DEF N, step
  <2>. QED  BY <1>1, <1>3, <1>4, RecursionExists
<1>6. f \in [0 .. N -> Seq(Nat)] /\ f[0] = <<>> /\ \A i \in 1 .. N : f[i] = step[<<i, f[i - 1]>>]
  <2> HIDE DEF N, step
  <2>. QED  BY <1>5 DEF Recursions
<1>7. \A i \in 1 .. N, s \in Seq(Nat) : s \in D(i - 1) => step[<<i, s>>] = ofWord(i - 1, W(i - 1), s)
  <2> HIDE DEF N, D, W
  <2>. QED  OBVIOUS
<1> HIDE DEF step
<1> DEFINE T == {i \in 0 .. N : f[i] \in D(i)}
<1>8. ASSUME NEW i \in 0 .. N - 1, i \in T
      PROVE  f[i + 1] = ofWord(i, W(i), f[i]) /\ i + 1 \in T
  <2>1. i + 1 \in 1 .. N /\ (i + 1) - 1 = i /\ i \in 0 .. N /\ i + 1 \in 0 .. N
    BY <1>1
  <2>2. f[i] \in D(i) /\ f[i] \in Seq(Nat)
    BY <1>8
  <2> HIDE DEF D, W, N
  <2>3. f[i + 1] = step[<<i + 1, f[(i + 1) - 1]>>]
    BY <1>6, <2>1, Zenon
  <2>4. f[(i + 1) - 1] \in D((i + 1) - 1) /\ f[(i + 1) - 1] \in Seq(Nat)
    BY <2>1, <2>2
  <2>5. f[i + 1] = ofWord((i + 1) - 1, W((i + 1) - 1), f[(i + 1) - 1])
    BY <1>7, <2>1, <2>3, <2>4, Zenon
  <2>6. f[i + 1] = ofWord(i, W(i), f[i])
    BY <2>1, <2>5, Zenon
  <2>7. f[i + 1] \in D(i + 1)
    BY <1>2, <2>1, <2>4, <2>5, Zenon
  <2>. QED  BY <2>1, <2>6, <2>7
<1>9. 0 .. N \subseteq T
  <2>1. 0 \in T
    BY <1>1, <1>3, <1>6
  <2> HIDE DEF T, N
  <2>. QED  BY <1>1, <1>8, <2>1, Climb
<1>10. \A i \in 1 .. N : f[i] = ofWord(i - 1, W(i - 1), f[i - 1])
  <2> SUFFICES ASSUME NEW i \in 1 .. N PROVE f[i] = ofWord(i - 1, W(i - 1), f[i - 1])
    OBVIOUS
  <2>1. i - 1 \in 0 .. N - 1 /\ i - 1 \in 0 .. N /\ (i - 1) + 1 = i
    BY <1>1
  <2>2. i - 1 \in T
    BY <1>9, <2>1
  <2> HIDE DEF T, N, W
  <2>3. f[(i - 1) + 1] = ofWord(i - 1, W(i - 1), f[i - 1])
    BY <1>8, <2>1, <2>2
  <2>. QED  BY <2>1, <2>3
<1>11. f = [i \in 0 .. N |-> IF i = 0 THEN <<>> ELSE ofWord(i - 1, W(i - 1), f[i - 1])]
  <2> HIDE DEF W
  <2>. QED  BY <1>1, <1>6, <1>10
<1> DEFINE pos == CHOOSE g : g = [i \in 0 .. N |-> IF i = 0 THEN <<>> ELSE ofWord(i - 1, W(i - 1), g[i - 1])]
<1>12. pos = [i \in 0 .. N |-> IF i = 0 THEN <<>> ELSE ofWord(i - 1, W(i - 1), pos[i - 1])]
  BY <1>11
<1>13. getOnePosition(bm) = pos[N]
  BY DEF getOnePosition
<1> HIDE DEF pos
<1> DEFINE R == {i \in 0 .. N : pos[i] = f[i]}
<1>14. 0 .. N \subseteq R
  <2>1. 0 \in R
    BY <1>1, <1>6, <1>12
  <2>2. ASSUME NEW i \in 0 .. N - 1, i \in R PROVE i + 1 \in R
    <3>1. i + 1 \in 0 .. N /\ i + 1 # 0 /\ (i + 1) - 1 = i /\ i + 1 \in 1 .. N
      BY <1>1
    <3>2. pos[i + 1] = ofWord(i, W(i), pos[i])
      <4>1. pos[i + 1] = IF i + 1 = 0 THEN <<>> ELSE ofWord((i + 1) - 1, W((i + 1) - 1), pos[(i + 1) - 1])
        <5> HIDE DEF W, N
        <5>. QED  BY <1>12, <3>1, Zenon
      <4>. QED  BY <3>1, <4>1, Zenon
    <3>3. f[i + 1] = ofWord(i, W(i), f[i])
      <4>1. f[i + 1] = ofWord((i + 1) - 1, W((i + 1) - 1), f[(i + 1) - 1])
        <5> HIDE DEF N, W
        <5>. QED  BY <1>10, <3>1, Zenon
      <4>. QED  BY <3>1, <4>1, Zenon
    <3>4. pos[i] = f[i]
      BY <2>2
    <3>. QED  BY <3>1, <3>2, <3>3, <3>4
  <2> HIDE DEF R, N
  <2>. QED  BY <1>1, <2>1, <2>2, Climb
<1>15. N \in 0 .. N
  BY <1>1
<1>16. pos[N] = f[N] /\ Ascends(f[N], BitsBelow(bm, N))
  <2>1. N \in R /\ N \in T
    BY <1>9, <1>14, <1>15
  <2>. QED  BY <2>1
<1>17. BitsBelow(bm, N) = OneBits(bm)
  BY <1>1 DEF BitsBelow
<1>. QED  BY <1>13, <1>16, <1>17

\* getOnePosition returns in ascending order the bits that were set since the
\* last clear, and besides them only bits that clear left beyond the first byte.
THEOREM PositionsExact == BitmapSpec => []BitmapExact
<1>1. BitmapInv => BitmapExact
  <2> SUFFICES ASSUME BitmapInv, NEW m \in Maps
               PROVE  LET s == getOnePosition(bitmaps[m])
                      IN /\ \A i, j \in DOMAIN s : i < j => s[i] < s[j]
                         /\ added[m] \subseteq ToSet(s)
                         /\ ToSet(s) \ added[m] \subseteq {p \in cleared[m] : p >= ByteBits}
                         /\ ToSet(s) \subseteq 0 .. bitmaps[m].bitSize - 1
    BY Zenon DEF BitmapExact
  <2> DEFINE s == getOnePosition(bitmaps[m])
  <2>1. Faithful(bitmaps[m], added[m], cleared[m])
    BY DEF BitmapInv, MapsInv
  <2>2. Ascends(s, OneBits(bitmaps[m])) /\ OneBits(bitmaps[m]) \subseteq 0 .. bitmaps[m].bitSize - 1
    BY <2>1, GetOnePosition, OneBitsOf DEF Faithful
  <2> HIDE DEF s
  <2>3. ToSet(s) = OneBits(bitmaps[m]) /\ DOMAIN s = 1 .. Len(s)
        /\ \A i, j \in 1 .. Len(s) : i < j => s[i] < s[j]
    <3>1. s \in Seq(Nat)
      BY <2>2, Zenon DEF Ascends
    <3>2. ToSet(s) = OneBits(bitmaps[m]) /\ \A i, j \in 1 .. Len(s) : i < j => s[i] < s[j]
      BY <2>2, Zenon DEF Ascends
    <3>. QED  BY <3>1, <3>2
  <2>4. added[m] \subseteq OneBits(bitmaps[m])
        /\ OneBits(bitmaps[m]) \ added[m] \subseteq {p \in cleared[m] : p >= ByteBits}
    BY <2>1 DEF Faithful
  <2>. QED  BY <2>2, <2>3, <2>4 DEF s
<1>. QED  BY <1>1, BitmapInvariance, PTL

-----------------------------------------------------------------------------
(* Linked lists: the nodes and the pool.                                   *)

NodeSeq == Seq(Seq(Nat))

IsWalk ==
  /\ walk = [to |-> walk.to, with |-> walk.with, a |-> walk.a, b |-> walk.b,
             i |-> walk.i, j |-> walk.j]
  /\ walk.to \in Lists /\ walk.with \in Lists /\ walk.to # walk.with
  /\ walk.a \in NodeSeq /\ walk.b \in NodeSeq
  /\ walk.i \in Nat \ {0} /\ walk.j \in Nat \ {0}

ListTypes ==
  /\ nodes \in [Lists -> NodeSeq] /\ nodeCount \in [Lists -> Nat] /\ cursor \in Nat
  /\ file # NULL => file.count \in Nat
  /\ listPc \in {"run", "walk"}
  /\ listPc = "walk" => IsWalk

\* A failed assertion ends the program, and the loop of readFromFile runs until
\* it fails. Else a node that was not forgotten is free or will be freed once.
ListInv ==
  \/ listPc = "abort"
  \/ listPc = "load" /\ leaked
  \/ ListTypes /\ (leaked \/ cursor + Owned = PoolSize)

\* The places of the nodes of a list come to those of the others.
LEMMA PlacesSplit ==
    ASSUME NEW s \in [Lists -> NodeSeq], NEW S \in SUBSET Lists, NEW l \in S
    PROVE  /\ Cardinality(Places(s, S)) \in Nat /\ Cardinality(Places(s, S \ {l})) \in Nat
           /\ Len(s[l]) \in Nat
           /\ Cardinality(Places(s, S)) = Cardinality(Places(s, S \ {l})) + Len(s[l])
<1> DEFINE Of(k) == {k} \X DOMAIN s[k]
           A == Places(s, S \ {l})
<1>1. ASSUME NEW k \in Lists
      PROVE  IsFiniteSet(Of(k)) /\ Cardinality(Of(k)) = Len(s[k]) /\ Len(s[k]) \in Nat
  <2>1. s[k] \in Seq(Seq(Nat))
    BY DEF NodeSeq
  <2>2. Len(s[k]) \in Nat /\ DOMAIN s[k] = 1 .. Len(s[k])
    BY <2>1
  <2> DEFINE n == Len(s[k])
  <2>3. IsFiniteSet(1 .. n) /\ Cardinality(1 .. n) = n
    <3>1. n \in Nat
      BY <2>2
    <3> HIDE DEF n
    <3>2. n \in Int /\ 1 \in Int /\ (1 > n => n = 0) /\ n - 1 + 1 = n
      BY <3>1
    <3>. QED  BY <3>2, FS_Interval
  <2>4. IsFiniteSet({k}) /\ Cardinality({k}) = 1
    BY FS_Singleton
  <2>5. Of(k) = {k} \X (1 .. n)
    BY <2>2
  <2> HIDE DEF n
  <2> HIDE DEF Of
  <2>6. IsFiniteSet({k} \X (1 .. n)) /\ Cardinality({k} \X (1 .. n)) = 1 * n
    <3> DEFINE K == {k}
               I == 1 .. n
    <3>1. IsFiniteSet(K) /\ IsFiniteSet(I) /\ Cardinality(K) = 1 /\ Cardinality(I) = n
      BY <2>3, <2>4
    <3> HIDE DEF K, I
    <3>2. IsFiniteSet(K \X I) /\ Cardinality(K \X I) = Cardinality(K) * Cardinality(I)
      BY <3>1, FS_Product
    <3>3. IsFiniteSet(K \X I) /\ Cardinality(K \X I) = 1 * n
      BY <3>1, <3>2, Zenon
    <3>. QED  BY <3>3 DEF K, I
  <2>7. n \in Nat /\ n = Len(s[k])
    BY <2>2 DEF n
  <2>. QED  BY <2>5, <2>6, <2>7
<1>2. ASSUME NEW R \in SUBSET Lists PROVE IsFiniteSet(Places(s, R))
  <2> DEFINE P == {Of(k) : k \in R}
  <2>1. IsFiniteSet(R)
    BY LinkListAssumption, FS_Subset
  <2>2. IsFiniteSet(P)
    <3> DEFINE f == [k \in R |-> Of(k)]
    <3>1. f \in Surjection(R, P)
      BY DEF Surjection
    <3> HIDE DEF P, f
    <3>. QED  BY <2>1, <3>1, FS_Surjection
  <2>3. \A T \in P : IsFiniteSet(T)
    BY <1>1
  <2> HIDE DEF P
  <2>4. IsFiniteSet(UNION P)
    BY <2>2, <2>3, FS_UNION
  <2>. QED  BY <2>4 DEF P, Places
<1>3. IsFiniteSet(A) /\ IsFiniteSet(Places(s, S))
  BY <1>2
<1>4. Places(s, S) = A \cup Of(l) /\ A \cap Of(l) = {}
  BY DEF Places
<1> HIDE DEF A, Of
<1>5. Cardinality(A \cup Of(l)) = Cardinality(A) + Cardinality(Of(l)) - Cardinality({})
  BY <1>1, <1>3, <1>4, FS_Union
<1>6. Cardinality({}) = 0 /\ Cardinality(A) \in Nat /\ Cardinality(Places(s, S)) \in Nat
  BY <1>3, FS_EmptySet, FS_CardinalityType
<1>. QED  BY <1>1, <1>4, <1>5, <1>6 DEF A

LEMMA PlacesSame ==
    ASSUME NEW s, NEW t, NEW S, \A l \in S : s[l] = t[l]
    PROVE  Places(s, S) = Places(t, S)
BY DEF Places

\* What a change of one list does to the count.
LEMMA PlacesChange ==
    ASSUME NEW s \in [Lists -> NodeSeq], NEW t \in [Lists -> NodeSeq], NEW S \in SUBSET Lists,
           NEW l \in S, \A k \in S \ {l} : s[k] = t[k]
    PROVE  /\ Cardinality(Places(s, S)) \in Nat /\ Cardinality(Places(t, S)) \in Nat
           /\ Len(s[l]) \in Nat /\ Len(t[l]) \in Nat
           /\ Cardinality(Places(t, S)) + Len(s[l]) = Cardinality(Places(s, S)) + Len(t[l])
<1>1. Places(s, S \ {l}) = Places(t, S \ {l})
  BY PlacesSame
<1>2. /\ Cardinality(Places(s, S)) \in Nat /\ Cardinality(Places(s, S \ {l})) \in Nat
      /\ Len(s[l]) \in Nat
      /\ Cardinality(Places(s, S)) = Cardinality(Places(s, S \ {l})) + Len(s[l])
  BY PlacesSplit
<1>3. /\ Cardinality(Places(t, S)) \in Nat /\ Len(t[l]) \in Nat
      /\ Cardinality(Places(t, S)) = Cardinality(Places(t, S \ {l})) + Len(t[l])
  BY PlacesSplit
<1>. QED  BY <1>1, <1>2, <1>3

\* addElement takes a node if it needs one.
LEMMA AddedNodes ==
    ASSUME NEW s \in NodeSeq, NEW v \in Nat
    PROVE  /\ Added(s, v) \in NodeSeq
           /\ Len(Added(s, v)) = IF Full(s) THEN Len(s) + 1 ELSE Len(s)
<1>1. s \in Seq(Seq(Nat)) /\ <<v>> \in Seq(Nat)
  BY DEF NodeSeq
<1>2. CASE Full(s)
  <2>1. Added(s, v) = Append(s, <<v>>)
    BY <1>2 DEF Added
  <2>. QED  BY <1>1, <1>2, <2>1 DEF NodeSeq
<1>3. CASE ~Full(s)
  <2>1. s # <<>> /\ Len(s) \in 1 .. Len(s) /\ s[Len(s)] \in Seq(Nat)
    BY <1>1, <1>3 DEF Full
  <2>2. Append(s[Len(s)], v) \in Seq(Nat)
    BY <2>1
  <2>3. Added(s, v) = [s EXCEPT ![Len(s)] = Append(@, v)]
    BY <1>3 DEF Added
  <2>4. Added(s, v) \in Seq(Seq(Nat)) /\ Len(Added(s, v)) = Len(s)
    BY <1>1, <2>1, <2>2, <2>3
  <2>. QED  BY <1>3, <2>4 DEF NodeSeq
<1>. QED  BY <1>2, <1>3

\* Operations that leave the nodes and the pool alone, and the end of a program.
LEMMA IdleKeeps ==
    ASSUME ListTypes /\ (leaked \/ cursor + Owned = PoolSize),
           UNCHANGED <<nodes, nodeCount, cursor, file, listPc>>, leaked => leaked',
           \/ walk' = walk
           \/ listPc = "walk" /\ IsWalk' /\ Len(walk'.a) = Len(walk.a) /\ Len(walk'.b) = Len(walk.b)
              /\ walk'.with = walk.with
    PROVE  ListInv'
<1>1. ListTypes'
  BY DEF ListTypes, IsWalk
<1>2. listPc' = "walk" => Len(walk'.a) = Len(walk.a) /\ Len(walk'.b) = Len(walk.b)
                         /\ walk'.with = walk.with
  BY DEF ListTypes
<1>3. Owned' = Owned
  BY <1>2 DEF Owned
<1>. QED  BY <1>1, <1>3 DEF ListInv

\* Operations outside an intersection that change one list.
LEMMA OneListKeeps ==
    ASSUME ListTypes, listPc = "run", leaked \/ cursor + Owned = PoolSize,
           NEW l \in Lists, NEW s \in NodeSeq, NEW c \in Nat,
           nodes' = [nodes EXCEPT ![l] = s], nodeCount' = [nodeCount EXCEPT ![l] = c],
           cursor' \in Nat, file' # NULL => file'.count \in Nat, listPc' = "run", leaked => leaked',
           leaked' \/ cursor' + Len(s) = cursor + Len(nodes[l])
    PROVE  ListInv'
<1>1. nodes \in [Lists -> NodeSeq] /\ nodes' \in [Lists -> NodeSeq]
      /\ nodes'[l] = s /\ \A k \in Lists \ {l} : nodes[k] = nodes'[k]
  BY DEF ListTypes
<1>2. ListTypes'
  BY <1>1 DEF ListTypes
<1>3. CASE leaked'
  BY <1>2, <1>3 DEF ListInv
<1>4. CASE ~leaked'
  <2>1. Owned = Cardinality(Places(nodes, Lists)) /\ Owned' = Cardinality(Places(nodes', Lists))
    BY DEF Owned
  <2> DEFINE N == nodes'
  <2>2. N \in [Lists -> NodeSeq] /\ \A k \in Lists \ {l} : nodes[k] = N[k]
    BY <1>1
  <2> HIDE DEF N
  <2>3. /\ Cardinality(Places(nodes, Lists)) \in Nat /\ Cardinality(Places(N, Lists)) \in Nat
        /\ Len(nodes[l]) \in Nat /\ Len(N[l]) \in Nat
        /\ Cardinality(Places(N, Lists)) + Len(nodes[l]) = Cardinality(Places(nodes, Lists)) + Len(N[l])
    BY <1>1, <2>2, PlacesChange
  <2>4. Len(N[l]) = Len(s) /\ Cardinality(Places(N, Lists)) = Owned'
    BY <1>1, <2>1, Zenon DEF N
  <2>5. cursor + Owned = PoolSize /\ cursor' + Len(s) = cursor + Len(nodes[l])
    BY <1>4
  <2>6. cursor \in Nat /\ cursor' \in Nat
    BY DEF ListTypes
  <2>7. cursor' + Owned' = PoolSize
    <3> DEFINE p == Cardinality(Places(nodes, Lists))
               q == Cardinality(Places(N, Lists))
               x == Len(nodes[l])
               y == Len(s)
    <3>2. /\ p \in Nat /\ q \in Nat /\ x \in Nat /\ y \in Nat
          /\ q + x = p + y /\ cursor' + y = cursor + x
      BY <2>3, <2>4, <2>5, Zenon
    <3>3. Owned = p /\ Owned' = q
      BY <2>1, <2>4, Zenon
    <3> HIDE DEF p, q, x, y
    <3>4. cursor' + q = cursor + p
      <4>1. PICK c1 \in Nat, d1 \in Nat, q1 \in Nat : c1 = cursor /\ d1 = cursor' /\ q1 = q
        BY <2>6, <3>2
      <4>2. q1 + x = p + y /\ d1 + y = c1 + x /\ p \in Nat /\ x \in Nat /\ y \in Nat
        BY <3>2, <4>1, Zenon
      <4>3. d1 + q1 = c1 + p
        BY <4>2
      <4>. QED  BY <4>1, <4>3, Zenon
    <3>. QED  BY <2>5, <3>3, <3>4, Zenon
  <2>. QED  BY <1>2, <2>7 DEF ListInv
<1>. QED  BY <1>3, <1>4

LEMMA AddElementKeeps ==
    ASSUME ListInv, NEW l \in Lists, NEW v \in Positions, addElement(l, v)
    PROVE  ListInv'
<1>1. CASE Full(nodes[l]) /\ cursor = 0
  BY <1>1 DEF addElement, abort, ListInv
<1>2. CASE ~(Full(nodes[l]) /\ cursor = 0)
  <2> DEFINE s == Added(nodes[l], v)
             c == nodeCount[l] + 1
  <2>1. listPc = "run" /\ ListTypes /\ (leaked \/ cursor + Owned = PoolSize)
    BY DEF addElement, Runs, ListInv
  <2>2. /\ nodes' = [nodes EXCEPT ![l] = s] /\ nodeCount' = [nodeCount EXCEPT ![l] = c]
        /\ cursor' = (IF Full(nodes[l]) THEN cursor - 1 ELSE cursor)
        /\ file' = file /\ listPc' = listPc /\ leaked' = leaked
    BY <1>2 DEF addElement
  <2>3. nodes[l] \in NodeSeq /\ nodeCount[l] \in Nat /\ cursor \in Nat /\ v \in Nat
        /\ (file # NULL => file.count \in Nat)
    BY <2>1, LinkListAssumption DEF ListTypes
  <2>4. s \in NodeSeq /\ Len(s) = (IF Full(nodes[l]) THEN Len(nodes[l]) + 1 ELSE Len(nodes[l]))
    BY <2>3, AddedNodes
  <2>5. Len(nodes[l]) \in Nat /\ c \in Nat
    BY <2>3 DEF NodeSeq
  <2> HIDE DEF s, c
  <2>6. cursor' \in Nat /\ cursor' + Len(s) = cursor + Len(nodes[l])
    BY <1>2, <2>2, <2>3, <2>4, <2>5
  <2>. QED  BY <2>1, <2>2, <2>3, <2>4, <2>5, <2>6, OneListKeeps
<1>. QED  BY <1>1, <1>2

LEMMA EmptyNodes == <<>> \in NodeSeq /\ Len(<<>>) = 0
BY DEF NodeSeq

LEMMA NodesOfList ==
    ASSUME ListTypes, NEW l \in Lists
    PROVE  nodes[l] \in NodeSeq /\ Len(nodes[l]) \in Nat
BY DEF ListTypes, NodeSeq

LEMMA Write2fileKeeps ==
    ASSUME ListInv, NEW l \in Lists, write2file(l)
    PROVE  ListInv'
<1>1. CASE nodeCount[l] # Len(FlattenSeq(nodes[l]))
  BY <1>1 DEF write2file, abort, ListInv
<1>2. CASE nodeCount[l] = Len(FlattenSeq(nodes[l]))
  <2>1. listPc = "run" /\ ListTypes /\ (leaked \/ cursor + Owned = PoolSize)
    BY DEF write2file, Runs, ListInv
  <2>2. /\ nodes' = [nodes EXCEPT ![l] = <<>>] /\ nodeCount' = [nodeCount EXCEPT ![l] = 0]
        /\ cursor' = cursor + Len(nodes[l])
        /\ file'.count = nodeCount[l] /\ listPc' = listPc /\ leaked' = leaked
    BY <1>2 DEF write2file
  <2>3. nodeCount[l] \in Nat /\ cursor \in Nat
    BY <2>1 DEF ListTypes
  <2>4. Len(nodes[l]) \in Nat
    BY <2>1, NodesOfList
  <2>5. cursor' \in Nat /\ cursor' + 0 = cursor + Len(nodes[l])
    BY <2>2, <2>3, <2>4
  <2>. QED  BY <2>1, <2>2, <2>3, <2>5, EmptyNodes, OneListKeeps
<1>. QED  BY <1>1, <1>2

LEMMA DeleteListKeeps ==
    ASSUME ListInv, NEW l \in Lists, deleteList(l)
    PROVE  ListInv'
<1>1. listPc = "run" /\ ListTypes /\ (leaked \/ cursor + Owned = PoolSize)
  BY DEF deleteList, Runs, ListInv
<1>2. /\ nodes' = [nodes EXCEPT ![l] = <<>>] /\ nodeCount' = [nodeCount EXCEPT ![l] = 0]
      /\ cursor' = cursor + Len(nodes[l])
      /\ file' = file /\ listPc' = listPc /\ leaked' = leaked
  BY DEF deleteList
<1>3. cursor \in Nat /\ (file # NULL => file.count \in Nat)
  BY <1>1 DEF ListTypes
<1>4. Len(nodes[l]) \in Nat
  BY <1>1, NodesOfList
<1>5. cursor' \in Nat /\ cursor' + 0 = cursor + Len(nodes[l])
  BY <1>2, <1>3, <1>4
<1>. QED  BY <1>1, <1>2, <1>3, <1>5, EmptyNodes, OneListKeeps

LEMMA ReadFromFileKeeps ==
    ASSUME ListInv, NEW l \in Lists, readFromFile(l)
    PROVE  ListInv'
<1>1. listPc = "run" /\ ListTypes /\ (leaked \/ cursor + Owned = PoolSize) /\ file # NULL
  BY DEF readFromFile, Runs, ListInv
<1>2. file.count \in Nat /\ cursor \in Nat
  BY <1>1 DEF ListTypes
<1>3. CASE file.count # 0
  <2>1. listPc' = "load" /\ leaked' = (leaked \/ nodes[l] # <<>> \/ file.count > 0)
    BY <1>3 DEF readFromFile
  <2>2. file.count > 0
    BY <1>2, <1>3
  <2>. QED  BY <2>1, <2>2 DEF ListInv
<1>4. CASE file.count = 0
  <2>1. /\ nodes' = [nodes EXCEPT ![l] = <<>>] /\ nodeCount' = [nodeCount EXCEPT ![l] = 0]
        /\ cursor' = cursor /\ file' = file /\ listPc' = "run"
        /\ leaked' = (leaked \/ nodes[l] # <<>>)
    BY <1>4 DEF readFromFile
  <2>2. Len(nodes[l]) \in Nat /\ (nodes[l] = <<>> => Len(nodes[l]) = 0)
    BY <1>1, NodesOfList
  <2>3. leaked' \/ cursor' + 0 = cursor + Len(nodes[l])
    BY <1>2, <2>1, <2>2
  <2>4. cursor' \in Nat /\ (file' # NULL => file'.count \in Nat) /\ (leaked => leaked')
    BY <1>2, <2>1
  <2>. QED  BY <1>1, <2>1, <2>3, <2>4, EmptyNodes, OneListKeeps
<1>. QED  BY <1>3, <1>4

\* The lists but the one that is walked along with the result.
Others == Lists \ {walk.with}

\* An intersection takes the nodes of both lists apart and a node for the result.
LEMMA IntersectionKeeps ==
    ASSUME ListInv, NEW l \in Lists, NEW m \in Lists, intersection(l, m)
    PROVE  ListInv'
<1>1. CASE cursor = 0
  BY <1>1 DEF intersection, abort, ListInv
<1>2. CASE cursor # 0
  <2> DEFINE s == << <<>> >>
             a == nodes[l]
             b == nodes[m]
  <2>1. listPc = "run" /\ ListTypes /\ (leaked \/ cursor + Owned = PoolSize) /\ l # m
    BY DEF intersection, Runs, ListInv
  <2>2. /\ nodes' = [nodes EXCEPT ![l] = s] /\ nodeCount' = [nodeCount EXCEPT ![l] = 0]
        /\ cursor' = cursor - 1 /\ file' = file /\ listPc' = "walk" /\ leaked' = leaked
        /\ walk' = [to |-> l, with |-> m, a |-> a, b |-> b, i |-> 1, j |-> 1]
    BY <1>2 DEF intersection
  <2>3. a \in NodeSeq /\ b \in NodeSeq /\ Len(a) \in Nat /\ Len(b) \in Nat
    BY <2>1, NodesOfList
  <2>4. s \in NodeSeq /\ Len(s) = 1
    BY DEF NodeSeq
  <2> HIDE DEF s
  <2>5. nodes \in [Lists -> NodeSeq] /\ nodes' \in [Lists -> NodeSeq]
        /\ nodes'[l] = s /\ \A k \in Lists \ {l} : nodes'[k] = nodes[k]
    BY <2>1, <2>2, <2>4 DEF ListTypes
  <2>6. ListTypes'
    <3>1. cursor' \in Nat /\ nodeCount' \in [Lists -> Nat]
      BY <1>2, <2>1, <2>2 DEF ListTypes
    <3>2. IsWalk'
      BY <2>1, <2>2, <2>3 DEF IsWalk
    <3>. QED  BY <2>1, <2>2, <2>5, <3>1, <3>2 DEF ListTypes
  <2>7. CASE leaked
    BY <2>2, <2>6, <2>7 DEF ListInv
  <2>8. CASE ~leaked
    <3> DEFINE R == Lists \ {m}
               N == nodes'
               p == Cardinality(Places(nodes, Lists))
               q == Cardinality(Places(nodes, R))
               r == Cardinality(Places(N, R))
    <3>1. Owned = p /\ Owned' = r + Len(a) + Len(b)
      BY <2>1, <2>2 DEF Owned
    <3>2. p \in Nat /\ q \in Nat /\ p = q + Len(b)
      BY <2>5, PlacesSplit
    <3>3. N \in [Lists -> NodeSeq] /\ N[l] = s /\ \A k \in R \ {l} : nodes[k] = N[k]
      BY <2>5
    <3>4. R \in SUBSET Lists /\ l \in R
      BY <2>1
    <3> HIDE DEF N, R
    <3>5. r \in Nat /\ r + Len(a) = q + 1
      <4>1. /\ Cardinality(Places(N, R)) \in Nat
            /\ Cardinality(Places(N, R)) + Len(nodes[l]) = Cardinality(Places(nodes, R)) + Len(N[l])
        BY <2>5, <3>3, <3>4, PlacesChange
      <4>2. Len(N[l]) = 1
        BY <2>4, <3>3
      <4>. QED  BY <4>1, <4>2, Zenon
    <3>6. PICK d \in Nat, x \in Nat, y \in Nat, r1 \in Nat :
            d = cursor /\ x = Len(a) /\ y = Len(b) /\ r1 = r
      <4>1. cursor \in Nat
        BY <2>1 DEF ListTypes
      <4> HIDE DEF r, a, b
      <4>. QED  BY <2>3, <3>5, <4>1
    <3>7. cursor + Owned = PoolSize
      BY <2>1, <2>8
    <3> HIDE DEF p, q, r, a, b
    <3>8. cursor' = d - 1 /\ d + p = PoolSize /\ Owned' = r1 + x + y
      BY <2>2, <3>1, <3>6, <3>7
    <3>9. p = q + y /\ r1 + x = q + 1 /\ q \in Nat /\ p \in Nat
      BY <3>2, <3>5, <3>6, Zenon
    <3>10. (d - 1) + (r1 + x + y) = PoolSize
      BY <3>8, <3>9
    <3>11. cursor' + Owned' = PoolSize
      BY <3>8, <3>10, Zenon
    <3>. QED  BY <2>6, <3>11 DEF ListInv
  <2>. QED  BY <2>7, <2>8
<1>. QED  BY <1>1, <1>2

LEMMA SkipElementKeeps ==
    ASSUME ListInv, skipElement
    PROVE  ListInv'
<1>1. listPc = "walk" /\ ListTypes /\ (leaked \/ cursor + Owned = PoolSize) /\ IsWalk
  BY DEF skipElement, Walks, ListInv, ListTypes
<1>2. /\ UNCHANGED <<nodes, nodeCount, cursor, file, listPc, leaked>>
      /\ walk' = [walk EXCEPT !.j = @ + 1] \/ walk' = [walk EXCEPT !.i = @ + 1]
  BY DEF skipElement, Walks
<1>3. IsWalk' /\ walk'.a = walk.a /\ walk'.b = walk.b /\ walk'.with = walk.with
  BY <1>1, <1>2 DEF IsWalk
<1>. QED  BY <1>1, <1>2, <1>3, IdleKeeps

\* What is common goes to the list that stands for the result.
LEMMA TakeElementKeeps ==
    ASSUME ListInv, takeElement
    PROVE  ListInv'
<1> DEFINE l == walk.to
           v == Head(walk.a)[walk.i]
<1>1. listPc = "walk" /\ ListTypes /\ (leaked \/ cursor + Owned = PoolSize) /\ IsWalk
  BY DEF takeElement, Walks, ListInv, ListTypes
<1>2. CASE Full(nodes[l]) /\ cursor = 0
  BY <1>2 DEF takeElement, ListInv
<1>3. CASE ~(Full(nodes[l]) /\ cursor = 0)
  <2>1. /\ nodes' = [nodes EXCEPT ![l] = Added(@, v)]
        /\ nodeCount' = [nodeCount EXCEPT ![l] = @ + 1]
        /\ cursor' = IF Full(nodes[l]) THEN cursor - 1 ELSE cursor
        /\ walk' = Passed /\ UNCHANGED <<file, listPc, leaked>>
        /\ walk.a # <<>> /\ walk.i <= Len(Head(walk.a))
    BY <1>3 DEF takeElement, Walks, Inner
  <2>2. l \in Lists /\ l # walk.with /\ walk.with \in Lists /\ walk.a \in Seq(Seq(Nat)) /\ walk.i \in Nat \ {0}
        /\ nodes[l] \in NodeSeq /\ Len(nodes[l]) \in Nat
    BY <1>1, NodesOfList DEF IsWalk, NodeSeq
  <2>3. v \in Nat
    <3>1. Head(walk.a) \in Seq(Nat)
      BY <2>1, <2>2
    <3>. QED  BY <2>1, <2>2, <3>1
  <2> HIDE DEF l, v
  <2> DEFINE s == Added(nodes[l], v)
  <2>4. s \in NodeSeq /\ Len(s) = IF Full(nodes[l]) THEN Len(nodes[l]) + 1 ELSE Len(nodes[l])
    BY <2>2, <2>3, AddedNodes
  <2>5. nodes' = [nodes EXCEPT ![l] = s]
    BY <2>1
  <2> HIDE DEF s
  <2>6. nodes \in [Lists -> NodeSeq] /\ nodes' \in [Lists -> NodeSeq]
        /\ nodes'[l] = s /\ \A k \in Lists \ {l} : nodes'[k] = nodes[k]
    BY <1>1, <2>2, <2>4, <2>5 DEF ListTypes
  <2>7. IsWalk' /\ walk'.a = walk.a /\ walk'.b = walk.b /\ walk'.with = walk.with
    <3>1. walk' = [walk EXCEPT !.i = walk.i + 1, !.j = walk.j + 1]
      BY <2>1 DEF Passed
    <3>2. walk.i + 1 \in Nat \ {0} /\ walk.j + 1 \in Nat \ {0}
      BY <1>1 DEF IsWalk
    <3>3. walk' = [to |-> walk.to, with |-> walk.with, a |-> walk.a, b |-> walk.b,
                   i |-> walk.i + 1, j |-> walk.j + 1]
      BY <1>1, <3>1 DEF IsWalk
    <3>. QED  BY <1>1, <3>2, <3>3 DEF IsWalk
  <2>8. cursor \in Nat /\ cursor' \in Nat
    BY <1>1, <1>3, <2>1 DEF ListTypes
  <2>9. ListTypes'
    <3>1. nodeCount' \in [Lists -> Nat]
      BY <1>1, <2>1, <2>2 DEF ListTypes
    <3>. QED  BY <1>1, <2>1, <2>6, <2>7, <2>8, <3>1 DEF ListTypes
  <2>10. CASE leaked
    BY <2>1, <2>9, <2>10 DEF ListInv
  <2>11. CASE ~leaked
    <3> DEFINE N == nodes'
               p == Cardinality(Places(nodes, Others))
               q == Cardinality(Places(N, Others))
               z == Len(walk.a) + Len(walk.b)
    <3>1. Owned = p + Len(walk.a) + Len(walk.b) /\ Owned' = q + Len(walk.a) + Len(walk.b)
      BY <1>1, <2>1, <2>7 DEF Owned, Others
    <3>2. N \in [Lists -> NodeSeq] /\ N[l] = s /\ \A k \in Others \ {l} : nodes[k] = N[k]
      BY <2>6 DEF Others
    <3>3. Others \in SUBSET Lists /\ l \in Others
      BY <2>2 DEF Others
    <3> HIDE DEF N
    <3>4. p \in Nat /\ q \in Nat /\ q + Len(nodes[l]) = p + Len(s) /\ Len(s) \in Nat
      BY <2>6, <3>2, <3>3, PlacesChange
    <3>5. cursor + Owned = PoolSize
      BY <1>1, <2>11
    <3>6. Len(walk.a) \in Nat /\ Len(walk.b) \in Nat
      BY <1>1 DEF IsWalk, NodeSeq
    <3>7. PICK c1 \in Nat, d1 \in Nat, q1 \in Nat, x \in Nat, y \in Nat, z1 \in Nat, z2 \in Nat :
            /\ c1 = cursor /\ d1 = cursor' /\ q1 = q /\ x = Len(nodes[l]) /\ y = Len(s)
            /\ z1 = Len(walk.a) /\ z2 = Len(walk.b)
      BY <2>2, <2>8, <3>4, <3>6
    <3> HIDE DEF p, q
    <3>8. Full(nodes[l]) => d1 = c1 - 1 /\ y = x + 1
      BY <2>1, <2>4, <3>7
    <3>9. ~Full(nodes[l]) => d1 = c1 /\ y = x
      BY <2>1, <2>4, <3>7
    <3>10. q1 + x = p + y /\ p \in Nat /\ c1 + (p + z1 + z2) = PoolSize /\ Owned' = q1 + z1 + z2
      BY <3>1, <3>4, <3>5, <3>7, Zenon
    <3>11. d1 + y = c1 + x
      BY <3>8, <3>9
    <3>12. d1 + (q1 + z1 + z2) = PoolSize
      BY <3>10, <3>11
    <3>13. cursor' + Owned' = PoolSize
      BY <3>7, <3>10, <3>12, Zenon
    <3>. QED  BY <2>9, <3>13 DEF ListInv
  <2>. QED  BY <2>10, <2>11
<1>. QED  BY <1>2, <1>3

\* A walk leaves as many nodes as it frees.
LEMMA LeaveNodesKeeps ==
    ASSUME ListInv, leaveNodes
    PROVE  ListInv'
<1> DEFINE leaveA == walk.i > Len(Head(walk.a))
           leaveB == walk.j > Len(Head(walk.b))
           ta == IF leaveA THEN Tail(walk.a) ELSE walk.a
           tb == IF leaveB THEN Tail(walk.b) ELSE walk.b
           i1 == IF leaveA THEN 1 ELSE walk.i
           j1 == IF leaveB THEN 1 ELSE walk.j
           n == (IF leaveA THEN 1 ELSE 0) + (IF leaveB THEN 1 ELSE 0)
<1>1. listPc = "walk" /\ ListTypes /\ (leaked \/ cursor + Owned = PoolSize) /\ IsWalk
  BY DEF leaveNodes, Walks, ListInv, ListTypes
<1>2. /\ UNCHANGED <<nodes, nodeCount, file, listPc, leaked>>
      /\ walk' = [walk EXCEPT !.a = ta, !.b = tb, !.i = i1, !.j = j1]
      /\ cursor' = cursor + n /\ walk.a # <<>> /\ walk.b # <<>>
  BY DEF leaveNodes, Walks, Freed
<1>3. walk.a \in Seq(Seq(Nat)) /\ walk.b \in Seq(Seq(Nat))
  BY <1>1 DEF IsWalk, NodeSeq
<1>4. /\ ta \in NodeSeq /\ Len(walk.a) \in Nat /\ Len(ta) \in Nat
      /\ Len(ta) + (IF leaveA THEN 1 ELSE 0) = Len(walk.a)
  BY <1>2, <1>3 DEF NodeSeq
<1>5. /\ tb \in NodeSeq /\ Len(walk.b) \in Nat /\ Len(tb) \in Nat
      /\ Len(tb) + (IF leaveB THEN 1 ELSE 0) = Len(walk.b)
  BY <1>2, <1>3 DEF NodeSeq
<1>6. i1 \in Nat \ {0} /\ j1 \in Nat \ {0}
  BY <1>1 DEF IsWalk
<1> HIDE DEF leaveA, leaveB, ta, tb, i1, j1
<1>7. IsWalk' /\ walk'.a = ta /\ walk'.b = tb /\ walk'.with = walk.with
  <2>1. walk' = [to |-> walk.to, with |-> walk.with, a |-> ta, b |-> tb, i |-> i1, j |-> j1]
    BY <1>1, <1>2 DEF IsWalk
  <2>. QED  BY <1>1, <1>4, <1>5, <1>6, <2>1 DEF IsWalk
<1>8. n \in Nat /\ Len(ta) + Len(tb) + n = Len(walk.a) + Len(walk.b)
  <2>1. PICK xa \in Nat, ya \in Nat, xb \in Nat, yb \in Nat :
          xa = Len(walk.a) /\ ya = Len(ta) /\ xb = Len(walk.b) /\ yb = Len(tb)
    BY <1>4, <1>5
  <2> DEFINE da == IF leaveA THEN 1 ELSE 0
             db == IF leaveB THEN 1 ELSE 0
  <2>2. da \in Nat /\ db \in Nat /\ n = da + db
    OBVIOUS
  <2>3. ya + da = xa /\ yb + db = xb
    BY <1>4, <1>5, <2>1, Zenon
  <2> HIDE DEF n, da, db
  <2>4. ya + yb + n = xa + xb /\ n \in Nat
    BY <2>2, <2>3
  <2>. QED  BY <2>1, <2>4, Zenon
<1> HIDE DEF n
<1>9. cursor \in Nat /\ cursor' \in Nat
  BY <1>1, <1>2, <1>8 DEF ListTypes
<1>10. ListTypes'
  BY <1>1, <1>2, <1>7, <1>9 DEF ListTypes
<1>11. CASE leaked
  BY <1>2, <1>10, <1>11 DEF ListInv
<1>12. CASE ~leaked
  <2> DEFINE p == Cardinality(Places(nodes, Others))
  <2>1. Owned = p + Len(walk.a) + Len(walk.b) /\ Owned' = p + Len(ta) + Len(tb)
    BY <1>1, <1>2, <1>7 DEF Owned, Others
  <2>2. p \in Nat
    <3>1. nodes \in [Lists -> NodeSeq] /\ Others \in SUBSET Lists /\ walk.to \in Others
      BY <1>1 DEF ListTypes, IsWalk, Others
    <3>. QED  BY <3>1, PlacesSplit
  <2>3. cursor + Owned = PoolSize
    BY <1>1, <1>12
  <2> HIDE DEF p
  <2>4. cursor + (p + Len(walk.a) + Len(walk.b)) = PoolSize
    BY <2>1, <2>3, Zenon
  <2>5. (cursor + n) + (p + Len(ta) + Len(tb)) = PoolSize
    <3>1. PICK xa \in Nat, ya \in Nat, xb \in Nat, yb \in Nat, c \in Nat :
            xa = Len(walk.a) /\ ya = Len(ta) /\ xb = Len(walk.b) /\ yb = Len(tb) /\ c = cursor
      BY <1>4, <1>5, <1>9
    <3>2. ya + yb + n = xa + xb /\ n \in Nat /\ c + (p + xa + xb) = PoolSize /\ p \in Nat
      BY <1>8, <2>2, <2>4, <3>1, Zenon
    <3>3. (c + n) + (p + ya + yb) = PoolSize
      BY <3>2
    <3>. QED  BY <3>1, <3>3, Zenon
  <2>6. cursor' + Owned' = PoolSize
    BY <1>2, <2>1, <2>5, Zenon
  <2>. QED  BY <1>10, <2>6 DEF ListInv
<1>. QED  BY <1>11, <1>12

LEMMA EndIntersectionKeeps ==
    ASSUME ListInv, endIntersection
    PROVE  ListInv'
<1> DEFINE m == walk.with
<1>1. listPc = "walk" /\ ListTypes /\ (leaked \/ cursor + Owned = PoolSize) /\ IsWalk
  BY DEF endIntersection, Walks, ListInv, ListTypes
<1>2. /\ nodes' = [nodes EXCEPT ![m] = <<>>] /\ nodeCount' = [nodeCount EXCEPT ![m] = 0]
      /\ cursor' = cursor + Len(walk.a) + Len(walk.b) /\ listPc' = "run"
      /\ UNCHANGED <<file, leaked>>
  BY DEF endIntersection, Walks
<1>3. m \in Lists /\ Len(walk.a) \in Nat /\ Len(walk.b) \in Nat
  BY <1>1 DEF IsWalk, NodeSeq
<1> HIDE DEF m
<1>4. nodes' \in [Lists -> NodeSeq] /\ nodes'[m] = <<>> /\ \A k \in Lists \ {m} : nodes'[k] = nodes[k]
  BY <1>1, <1>2, <1>3, EmptyNodes DEF ListTypes
<1>5. cursor \in Nat /\ cursor' \in Nat
  <2>1. PICK x \in Nat, y \in Nat, c \in Nat : x = Len(walk.a) /\ y = Len(walk.b) /\ c = cursor
    BY <1>1, <1>3 DEF ListTypes
  <2>2. cursor' = c + x + y
    BY <1>2, <2>1, Zenon
  <2>3. \A u, v, w \in Nat : u + v + w \in Nat
    OBVIOUS
  <2>. QED  BY <2>1, <2>2, <2>3, Zenon
<1>6. ListTypes'
  <2>1. nodeCount' \in [Lists -> Nat]
    BY <1>1, <1>2, <1>3 DEF ListTypes
  <2>. QED  BY <1>1, <1>2, <1>4, <1>5, <2>1 DEF ListTypes
<1>7. CASE leaked
  BY <1>2, <1>6, <1>7 DEF ListInv
<1>8. CASE ~leaked
  <2> DEFINE N == nodes'
             p == Cardinality(Places(nodes, Lists \ {m}))
             q == Cardinality(Places(N, Lists))
  <2>1. Owned = p + Len(walk.a) + Len(walk.b) /\ Owned' = q
    BY <1>1, <1>2 DEF Owned, m
  <2>2. N \in [Lists -> NodeSeq] /\ Len(N[m]) = 0 /\ \A k \in Lists \ {m} : N[k] = nodes[k]
    BY <1>4, EmptyNodes
  <2> HIDE DEF N
  <2>3. Places(N, Lists \ {m}) = Places(nodes, Lists \ {m})
    BY <2>2, PlacesSame
  <2>4. /\ q \in Nat /\ Cardinality(Places(N, Lists \ {m})) \in Nat
        /\ q = Cardinality(Places(N, Lists \ {m})) + Len(N[m])
    BY <1>3, <2>2, PlacesSplit
  <2>5. p \in Nat /\ q = p + 0
    BY <2>2, <2>3, <2>4, Zenon
  <2> HIDE DEF p, q
  <2>6. q = p
    BY <2>5
  <2>7. cursor + (p + Len(walk.a) + Len(walk.b)) = PoolSize
    BY <1>1, <1>8, <2>1, Zenon
  <2>8. (cursor + Len(walk.a) + Len(walk.b)) + p = PoolSize
    <3>1. PICK x \in Nat, y \in Nat, c \in Nat : x = Len(walk.a) /\ y = Len(walk.b) /\ c = cursor
      BY <1>3, <1>5
    <3>2. c + (p + x + y) = PoolSize /\ p \in Nat
      BY <2>5, <2>7, <3>1, Zenon
    <3>3. (c + x + y) + p = PoolSize
      BY <3>2
    <3>. QED  BY <3>1, <3>3, Zenon
  <2>9. cursor' + Owned' = PoolSize
    BY <1>2, <2>1, <2>6, <2>8, Zenon
  <2>. QED  BY <1>6, <2>9 DEF ListInv
<1>. QED  BY <1>7, <1>8

LEMMA CopyAndMergeKeeps ==
    ASSUME ListInv, NEW l \in Lists, copyAndMerge(l)
    PROVE  ListInv'
<1>1. ListTypes /\ (leaked \/ cursor + Owned = PoolSize)
  BY DEF copyAndMerge, Runs, ListInv
<1>. QED  BY <1>1, IdleKeeps DEF copyAndMerge

LEMMA ReadFromFileAndMergeKeeps ==
    ASSUME ListInv, readFromFileAndMerge
    PROVE  ListInv'
<1>1. ListTypes /\ (leaked \/ cursor + Owned = PoolSize)
  BY DEF readFromFileAndMerge, Runs, ListInv
<1>. QED  BY <1>1, IdleKeeps DEF readFromFileAndMerge

LEMMA LoadElementKeeps ==
    ASSUME ListInv, loadElement
    PROVE  ListInv'
<1>1. listPc = "load" /\ leaked
  BY DEF loadElement, ListInv, ListTypes
<1>. QED  BY <1>1 DEF loadElement, abort, ListInv

LEMMA InitListInv == LinkListInit => ListInv
<1> SUFFICES ASSUME LinkListInit PROVE ListInv
  OBVIOUS
<1>1. nodes = [l \in Lists |-> <<>>] /\ cursor = PoolSize /\ listPc = "run"
  BY DEF LinkListInit
<1>2. ListTypes
  BY <1>1, EmptyNodes, LinkListAssumption DEF LinkListInit, ListTypes
<1>3. Places(nodes, Lists) = {}
  BY <1>1 DEF Places
<1>4. Owned = 0
  <2>1. Cardinality({}) = 0
    BY FS_EmptySet
  <2>. QED  BY <1>1, <1>3, <2>1 DEF Owned
<1>5. cursor + Owned = PoolSize
  BY <1>1, <1>4, LinkListAssumption
<1>. QED  BY <1>2, <1>5 DEF ListInv

\* Every step keeps the account of the nodes.
LEMMA LinkListNextKeeps == ListInv /\ [LinkListNext]_listVars => ListInv'
<1> SUFFICES ASSUME ListInv, [LinkListNext]_listVars PROVE ListInv'
  OBVIOUS
<1>1. CASE UNCHANGED listVars
  <2>1. CASE listPc \in {"abort", "load"}
    BY <1>1, <2>1 DEF ListInv, listVars, ListTypes
  <2>2. CASE ListTypes /\ (leaked \/ cursor + Owned = PoolSize)
    BY <1>1, <2>2, IdleKeeps DEF listVars
  <2>. QED  BY <2>1, <2>2 DEF ListInv
<1>2. CASE LinkListNext
  BY <1>2, AddElementKeeps, IntersectionKeeps, SkipElementKeeps, TakeElementKeeps,
     LeaveNodesKeeps, EndIntersectionKeeps, Write2fileKeeps, CopyAndMergeKeeps,
     ReadFromFileKeeps, DeleteListKeeps, ReadFromFileAndMergeKeeps, LoadElementKeeps
     DEF LinkListNext
<1>. QED  BY <1>1, <1>2

\* addElement, intersection, write2file, freeNode and clear: however the lists
\* are changed and intersected, a node of the pool is free or some list or walk
\* will free it, once, until readFromFile forgets nodes.
THEOREM NodesAreAccounted == LinkListSpec => []NodesAccounted
<1>1. ListInv => NodesAccounted
  BY DEF ListInv, NodesAccounted
<1>. QED  BY <1>1, InitListInv, LinkListNextKeeps, PTL DEF LinkListSpec

-----------------------------------------------------------------------------
(* Linked lists: the elements.                                             *)

\* The elements of the first nodes of a list, from node to node.
LEMMA ElementsJoined ==
    ASSUME NEW s \in NodeSeq, s # <<>>
    PROVE  \E f \in Flattenings(s, Nat) : FlattenSeq(s) = f[Len(s)]
BY FlattenBy DEF NodeSeq

\* Two lists that begin with the same nodes begin with the same elements.
LEMMA FlattenSame ==
    ASSUME NEW s, NEW t, NEW f \in Flattenings(s, Nat), NEW g \in Flattenings(t, Nat), NEW n \in Nat \ {0},
           Len(s) \in Nat, Len(t) \in Nat, n <= Len(s), n <= Len(t), \A i \in 1 .. n : s[i] = t[i]
    PROVE  f[n] = g[n]
<1> DEFINE R == {i \in 0 .. n : i = 0 \/ f[i] = g[i]}
<1>1. /\ f[1] = s[1] /\ \A i \in 2 .. Len(s) : f[i] = f[i - 1] \o s[i]
      /\ g[1] = t[1] /\ \A i \in 2 .. Len(t) : g[i] = g[i - 1] \o t[i]
  BY Zenon DEF Flattenings
<1>2. 0 .. n \subseteq R
  <2>1. 0 \in R
    OBVIOUS
  <2>2. ASSUME NEW i \in 0 .. n - 1, i \in R PROVE i + 1 \in R
    <3>1. i + 1 \in 1 .. n /\ i + 1 \in 0 .. n /\ (i + 1) - 1 = i /\ s[i + 1] = t[i + 1]
          /\ (i = 0 => i + 1 = 1) /\ (i # 0 => i + 1 \in 2 .. Len(s) /\ i + 1 \in 2 .. Len(t))
      OBVIOUS
    <3>2. CASE i = 0
      <4>1. f[i + 1] = g[i + 1]
        BY <1>1, <3>1, <3>2, Zenon
      <4>. QED  BY <3>1, <4>1
    <3>3. CASE i # 0
      <4>1. f[i + 1] = f[(i + 1) - 1] \o s[i + 1] /\ g[i + 1] = g[(i + 1) - 1] \o t[i + 1]
        BY <1>1, <3>1, <3>3, Zenon
      <4>2. f[i] = g[i]
        BY <2>2, <3>3
      <4>3. f[i + 1] = g[i + 1]
        BY <3>1, <4>1, <4>2, Zenon
      <4>. QED  BY <3>1, <4>3
    <3>. QED  BY <3>2, <3>3
  <2> HIDE DEF R
  <2>. QED  BY <2>1, <2>2, Climb
<1>3. n \in R
  BY <1>2
<1>. QED  BY <1>3

LEMMA FlattenType ==
    ASSUME NEW s \in NodeSeq
    PROVE  FlattenSeq(s) \in Seq(Nat)
<1>1. CASE s = <<>>
  <2>1. <<>> \in Seq(Nat)
    OBVIOUS
  <2>. QED  BY <1>1, <2>1, FlattenEmpty, Zenon
<1>2. CASE s # <<>>
  <2>1. PICK f \in Flattenings(s, Nat) : FlattenSeq(s) = f[Len(s)]
    BY <1>2, ElementsJoined
  <2>2. f \in [1 .. Len(s) -> Seq(Nat)]
    BY DEF Flattenings
  <2>3. Len(s) \in 1 .. Len(s)
    BY <1>2 DEF NodeSeq
  <2>. QED  BY <2>1, <2>2, <2>3
<1>. QED  BY <1>1, <1>2

LEMMA ConcatEmpty ==
    ASSUME NEW x \in Seq(Nat)
    PROVE  <<>> \o x = x /\ x \o <<>> = x
OBVIOUS

LEMMA ConcatAppend ==
    ASSUME NEW x \in Seq(Nat), NEW y \in Seq(Nat), NEW v \in Nat
    PROVE  x \o Append(y, v) = Append(x \o y, v)
OBVIOUS

LEMMA ConcatTwice ==
    ASSUME NEW x \in Seq(Nat), NEW y \in Seq(Nat), NEW z \in Seq(Nat)
    PROVE  (x \o y) \o z = x \o (y \o z)
OBVIOUS

\* A node that is appended, and an element that is appended to the last node.
LEMMA FlattenAppend ==
    ASSUME NEW s \in NodeSeq, NEW e \in Seq(Nat)
    PROVE  FlattenSeq(Append(s, e)) = FlattenSeq(s) \o e
<1> DEFINE t == Append(s, e)
           N == Len(s)
<1>1. /\ N \in Nat /\ t \in NodeSeq /\ t # <<>> /\ Len(t) = N + 1 /\ t[N + 1] = e
      /\ \A i \in 1 .. N : t[i] = s[i]
  <2>1. s \in Seq(Seq(Nat))
    BY DEF NodeSeq
  <2>2. /\ N \in Nat /\ t \in Seq(Seq(Nat)) /\ Len(t) = N + 1 /\ t[N + 1] = e
        /\ \A i \in 1 .. N : t[i] = s[i]
    BY <2>1
  <2> HIDE DEF t, N
  <2>3. t # <<>>
    <3>1. Len(<<>>) = 0 /\ N + 1 # 0
      BY <2>2
    <3>. QED  BY <2>2, <3>1, Zenon
  <2>. QED  BY <2>2, <2>3, Zenon DEF NodeSeq
<1> HIDE DEF t
<1>2. PICK g \in Flattenings(t, Nat) : FlattenSeq(t) = g[N + 1]
  BY <1>1, ElementsJoined
<1>3. g[1] = t[1] /\ \A i \in 2 .. N + 1 : g[i] = g[i - 1] \o t[i]
  BY <1>1, Zenon DEF Flattenings
<1>4. CASE s = <<>>
  <2>1. N = 0 /\ N + 1 = 1
    BY <1>4
  <2>2. FlattenSeq(t) = e
    BY <1>1, <1>2, <1>3, <2>1, Zenon
  <2>3. FlattenSeq(s) = <<>>
    BY <1>4, FlattenEmpty, Zenon
  <2>. QED  BY <2>2, <2>3, ConcatEmpty, Zenon DEF t
<1>5. CASE s # <<>>
  <2>1. PICK f \in Flattenings(s, Nat) : FlattenSeq(s) = f[N]
    BY <1>5, ElementsJoined
  <2>2. N \in Nat \ {0}
    BY <1>5 DEF NodeSeq
  <2>3. N + 1 \in 2 .. N + 1 /\ (N + 1) - 1 = N /\ N <= N /\ N <= N + 1
    BY <2>2
  <2>4. g[N + 1] = g[N] \o e
    <3>1. g[N + 1] = g[(N + 1) - 1] \o t[N + 1]
      BY <1>3, <2>3, Zenon
    <3>. QED  BY <1>1, <2>3, <3>1, Zenon
  <2>5. f[N] = g[N]
    <3> HIDE DEF N
    <3>1. Len(s) = N /\ Len(t) = N + 1 /\ N \in Nat /\ N + 1 \in Nat
      BY <1>1, <2>2 DEF N
    <3>. QED  BY <1>1, <2>1, <2>2, <2>3, <3>1, FlattenSame
  <2>. QED  BY <1>2, <2>1, <2>4, <2>5, Zenon DEF t
<1>. QED  BY <1>4, <1>5

LEMMA FlattenLast ==
    ASSUME NEW s \in NodeSeq, s # <<>>, NEW v \in Nat
    PROVE  FlattenSeq([s EXCEPT ![Len(s)] = Append(@, v)]) = Append(FlattenSeq(s), v)
<1> DEFINE t == [s EXCEPT ![Len(s)] = Append(@, v)]
           N == Len(s)
<1>1. /\ N \in Nat \ {0} /\ s[N] \in Seq(Nat)
  BY DEF NodeSeq
<1>2. Append(s[N], v) \in Seq(Nat)
  BY <1>1
<1>3. /\ t \in NodeSeq /\ t # <<>> /\ Len(t) = N /\ t[N] = Append(s[N], v)
      /\ \A i \in 1 .. N : i # N => t[i] = s[i]
  BY <1>1, <1>2 DEF NodeSeq
<1> HIDE DEF t
<1>4. PICK f \in Flattenings(s, Nat) : FlattenSeq(s) = f[N]
  BY ElementsJoined
<1>5. PICK g \in Flattenings(t, Nat) : FlattenSeq(t) = g[N]
  BY <1>3, ElementsJoined
<1>6. /\ f \in [1 .. N -> Seq(Nat)] /\ f[1] = s[1] /\ \A i \in 2 .. N : f[i] = f[i - 1] \o s[i]
      /\ g[1] = t[1] /\ \A i \in 2 .. N : g[i] = g[i - 1] \o t[i]
  BY <1>3, Zenon DEF Flattenings
<1>7. CASE N = 1
  BY <1>3, <1>4, <1>5, <1>6, <1>7, Zenon DEF t
<1>8. CASE N # 1
  <2>1. N \in 2 .. N /\ N - 1 \in Nat \ {0} /\ N - 1 <= N /\ N - 1 \in 1 .. N
        /\ \A i \in 1 .. N - 1 : s[i] = t[i]
    BY <1>1, <1>3, <1>8
  <2>2. f[N - 1] = g[N - 1]
    <3> HIDE DEF N
    <3>1. Len(s) = N /\ Len(t) = N /\ N \in Nat
      BY <1>1, <1>3 DEF N
    <3>. QED  BY <2>1, <3>1, FlattenSame
  <2>3. f[N] = f[N - 1] \o s[N] /\ g[N] = g[N - 1] \o Append(s[N], v)
    BY <1>3, <1>6, <2>1, Zenon
  <2>4. f[N - 1] \in Seq(Nat)
    BY <1>6, <2>1
  <2> HIDE DEF N
  <2>5. f[N - 1] \o Append(s[N], v) = Append(f[N - 1] \o s[N], v)
    BY <1>1, <2>4, ConcatAppend
  <2>. QED  BY <1>4, <1>5, <2>2, <2>3, <2>5, Zenon DEF t
<1>. QED  BY <1>7, <1>8

\* addElement appends the element.
LEMMA FlattenAdded ==
    ASSUME NEW s \in NodeSeq, NEW v \in Nat
    PROVE  FlattenSeq(Added(s, v)) = Append(FlattenSeq(s), v)
<1>1. CASE Full(s)
  <2>1. Added(s, v) = Append(s, <<v>>) /\ <<v>> \in Seq(Nat)
    BY <1>1 DEF Added
  <2>2. FlattenSeq(Added(s, v)) = FlattenSeq(s) \o <<v>>
    BY <2>1, FlattenAppend, Zenon
  <2>3. FlattenSeq(s) \in Seq(Nat)
    BY FlattenType
  <2>4. FlattenSeq(s) \o <<v>> = Append(FlattenSeq(s), v)
    <3> DEFINE x == FlattenSeq(s)
    <3> HIDE DEF x
    <3>1. x \in Seq(Nat)
      BY <2>3 DEF x
    <3>2. x \o <<v>> = Append(x, v)
      BY <3>1
    <3>. QED  BY <3>2 DEF x
  <2>. QED  BY <2>2, <2>4
<1>2. CASE ~Full(s)
  <2>1. Added(s, v) = [s EXCEPT ![Len(s)] = Append(@, v)] /\ s # <<>>
    BY <1>2 DEF Added, Full
  <2>. QED  BY <2>1, FlattenLast
<1>. QED  BY <1>1, <1>2

\* The elements of the first node come before the others.
LEMMA FlattenTail ==
    ASSUME NEW s \in NodeSeq, s # <<>>
    PROVE  FlattenSeq(s) = Head(s) \o FlattenSeq(Tail(s))
<1> DEFINE t == Tail(s)
           M == Len(t)
<1>1. /\ M \in Nat /\ Len(s) = M + 1 /\ t \in NodeSeq /\ Head(s) = s[1] /\ s[1] \in Seq(Nat)
      /\ \A i \in 1 .. M : t[i] = s[i + 1] /\ t[i] \in Seq(Nat)
  BY DEF NodeSeq
<1> HIDE DEF t
<1>2. PICK f \in Flattenings(s, Nat) : FlattenSeq(s) = f[M + 1]
  BY <1>1, ElementsJoined
<1>3. f[1] = s[1] /\ \A i \in 2 .. M + 1 : f[i] = f[i - 1] \o s[i]
  BY <1>1, Zenon DEF Flattenings
<1>4. CASE t = <<>>
  <2>1. M = 0 /\ M + 1 = 1
    BY <1>4
  <2>2. FlattenSeq(s) = Head(s) /\ FlattenSeq(t) = <<>>
    BY <1>1, <1>2, <1>3, <1>4, <2>1, FlattenEmpty, Zenon
  <2>. QED  BY <1>1, <2>2, ConcatEmpty, Zenon DEF t
<1>5. CASE t # <<>>
  <2>1. PICK g \in Flattenings(t, Nat) : FlattenSeq(t) = g[M]
    BY <1>1, <1>5, ElementsJoined
  <2>2. g \in [1 .. M -> Seq(Nat)] /\ g[1] = t[1] /\ \A i \in 2 .. M : g[i] = g[i - 1] \o t[i]
    BY Zenon DEF Flattenings
  <2>3. M # 0
    BY <1>1, <1>5 DEF NodeSeq
  <2> DEFINE R == {i \in 0 .. M : i = 0 \/ f[i + 1] = s[1] \o g[i]}
  <2> HIDE DEF M
  <2>4. ASSUME NEW i \in 0 .. M - 1, i \in R PROVE i + 1 \in R
    <3>1. i + 1 \in 1 .. M /\ i + 1 \in 0 .. M /\ (i + 1) + 1 \in 2 .. M + 1
          /\ ((i + 1) + 1) - 1 = i + 1 /\ s[(i + 1) + 1] = t[i + 1] /\ t[i + 1] \in Seq(Nat)
      BY <1>1
    <3>2. f[(i + 1) + 1] = f[i + 1] \o t[i + 1]
      <4>1. f[(i + 1) + 1] = f[((i + 1) + 1) - 1] \o s[(i + 1) + 1]
        BY <1>3, <3>1, Zenon
      <4>. QED  BY <3>1, <4>1, Zenon
    <3>3. CASE i = 0
      <4>1. i + 1 = 1
        BY <3>3
      <4>2. f[(i + 1) + 1] = s[1] \o g[i + 1]
        BY <1>3, <2>2, <3>2, <4>1, Zenon
      <4>. QED  BY <3>1, <4>2
    <3>4. CASE i # 0
      <4>1. i + 1 \in 2 .. M /\ (i + 1) - 1 = i /\ i \in 1 .. M
        BY <1>1, <3>4
      <4>2. g[i + 1] = g[i] \o t[i + 1]
        <5>1. g[i + 1] = g[(i + 1) - 1] \o t[i + 1]
          BY <2>2, <4>1, Zenon
        <5>. QED  BY <4>1, <5>1, Zenon
      <4>3. f[i + 1] = s[1] \o g[i]
        BY <2>4, <3>4
      <4>4. g[i] \in Seq(Nat)
        BY <2>2, <4>1
      <4>5. (s[1] \o g[i]) \o t[i + 1] = s[1] \o (g[i] \o t[i + 1])
        BY <1>1, <3>1, <4>4, ConcatTwice
      <4>6. f[(i + 1) + 1] = s[1] \o g[i + 1]
        BY <3>2, <4>2, <4>3, <4>5, Zenon
      <4>. QED  BY <3>1, <4>6
    <3>. QED  BY <3>3, <3>4
  <2>5. 0 .. M \subseteq R
    <3>1. 0 \in R
      BY <1>1
    <3> HIDE DEF R
    <3>. QED  BY <1>1, <2>4, <3>1, Climb
  <2>6. M \in R
    <3>1. M \in 0 .. M
      BY <1>1
    <3> HIDE DEF R
    <3>. QED  BY <2>5, <3>1
  <2>7. f[M + 1] = s[1] \o g[M]
    BY <2>3, <2>6
  <2>. QED  BY <1>1, <1>2, <2>1, <2>7, Zenon DEF t
<1>. QED  BY <1>4, <1>5

\* Without an empty node copyAndMerge reads the elements and nothing else.
LEMMA CellsOfNodes ==
    ASSUME NEW s \in NodeSeq, <<>> \notin ToSet(s)
    PROVE  Cells(s) = FlattenSeq(s)
<1>1. s \in Seq(Seq(Nat))
  BY DEF NodeSeq
<1>2. [i \in DOMAIN s |-> IF s[i] = <<>> THEN <<JUNK>> ELSE s[i]] = s
  BY <1>1 DEF ToSet
<1>. QED  BY <1>2 DEF Cells

\* A vector of positions that does not descend.
NotDescending(s) ==
  s \in Seq(Nat) /\ \A i, j \in 1 .. Len(s) : i < j => s[i] <= s[j]

AtMost(s, w) == \A k \in 1 .. Len(s) : s[k] <= w

LEMMA AppendNotDescending ==
    ASSUME NEW s, NotDescending(s), NEW v \in Nat, AtMost(s, v)
    PROVE  /\ NotDescending(Append(s, v))
           /\ \A w \in Nat : v <= w => AtMost(Append(s, v), w)
<1> DEFINE t == Append(s, v)
<1>1. s \in Seq(Nat)
  BY DEF NotDescending
<1>2. /\ t \in Seq(Nat) /\ Len(t) = Len(s) + 1 /\ Len(s) \in Nat /\ t[Len(s) + 1] = v
      /\ \A i \in 1 .. Len(s) : t[i] = s[i] /\ s[i] \in Nat
  BY <1>1
<1>3. \A i \in 1 .. Len(t) : i \in 1 .. Len(s) \/ i = Len(s) + 1
  BY <1>2
<1> HIDE DEF t
<1>4. AtMost(t, v)
  BY <1>2, <1>3 DEF AtMost
<1>5. ASSUME NEW i \in 1 .. Len(t), NEW j \in 1 .. Len(t), i < j PROVE t[i] <= t[j]
  <2>1. i \in 1 .. Len(s) /\ t[i] = s[i]
    BY <1>2, <1>3, <1>5
  <2>2. CASE j = Len(s) + 1
    BY <1>2, <1>4, <2>2 DEF AtMost
  <2>3. CASE j # Len(s) + 1
    <3>1. j \in 1 .. Len(s) /\ t[j] = s[j]
      BY <1>2, <1>3, <2>3
    <3>. QED  BY <1>5, <2>1, <3>1 DEF NotDescending
  <2>. QED  BY <2>2, <2>3
<1>6. ASSUME NEW w \in Nat, v <= w PROVE AtMost(t, w)
  <2> SUFFICES ASSUME NEW k \in 1 .. Len(t) PROVE t[k] <= w
    BY DEF AtMost
  <2>1. t[k] <= v /\ t[k] \in Nat
    BY <1>2, <1>3, <1>4 DEF AtMost
  <2>. QED  BY <1>6, <2>1
<1>. QED  BY <1>2, <1>5, <1>6 DEF NotDescending, t

\* The merge after n turns: the vector does not descend, nor go beyond what is next.
Merging(s, v, n, t) ==
  /\ t = [i |-> t.i, j |-> t.j, temp |-> t.temp]
  /\ t.i \in 1 .. Len(s) + 1 /\ t.j \in 1 .. Len(v) + 1 /\ t.i + t.j = n + 2
  /\ NotDescending(t.temp)
  /\ t.i <= Len(s) => AtMost(t.temp, s[t.i])
  /\ t.j <= Len(v) => AtMost(t.temp, v[t.j])

LEMMA TurnMerges ==
    ASSUME NEW s, NotDescending(s), NEW v, NotDescending(v),
           NEW n \in Nat, n < Len(s) + Len(v), NEW t, Merging(s, v, n, t)
    PROVE  Merging(s, v, n + 1, Turn(s, v, t))
<1> DEFINE u == Turn(s, v, t)
<1>1. PICK p \in Nat, q \in Nat : p = Len(s) /\ q = Len(v)
  BY DEF NotDescending
<1>2. /\ \A k \in 1 .. p : s[k] \in Nat /\ s[k] # JUNK
      /\ \A k \in 1 .. q : v[k] \in Nat /\ v[k] # JUNK
      /\ (\A k, m \in 1 .. p : k < m => s[k] <= s[m])
      /\ (\A k, m \in 1 .. q : k < m => v[k] <= v[m])
  <2>1. s \in Seq(Nat) /\ v \in Seq(Nat)
    BY DEF NotDescending
  <2>2. (\A k \in 1 .. p : s[k] \in Nat) /\ (\A k \in 1 .. q : v[k] \in Nat)
    BY <1>1, <2>1
  <2>. QED  BY <1>1, <2>2, LinkListAssumption, Zenon DEF NotDescending
<1>3. PICK i \in 1 .. p + 1, j \in 1 .. q + 1, e \in Seq(Nat) : /\ t = [i |-> i, j |-> j, temp |-> e]
        /\ i + j = n + 2 /\ NotDescending(e)
        /\ (i <= p => AtMost(e, s[i])) /\ (j <= q => AtMost(e, v[j]))
  <2>1. t.temp \in Seq(Nat)
    BY Zenon DEF Merging, NotDescending
  <2>. QED  BY <1>1, <2>1, Zenon DEF Merging
<1>4. n < p + q /\ i \in Nat /\ j \in Nat
  BY <1>1
<1>5. i <= p \/ j <= q
  BY <1>3, <1>4
<1> DEFINE x == s[i]
           y == v[j]
<1>6. (i <= p => x \in Nat /\ x # JUNK) /\ (j <= q => y \in Nat /\ y # JUNK)
  <2>1. (i <= p => i \in 1 .. p) /\ (j <= q => j \in 1 .. q)
    BY <1>4
  <2>. QED  BY <1>2, <2>1, Zenon
<1>7. /\ i + 1 <= p => x <= s[i + 1] /\ s[i + 1] \in Nat
      /\ j + 1 <= q => y <= v[j + 1] /\ v[j + 1] \in Nat
  <2>1. i + 1 <= p => i \in 1 .. p /\ i + 1 \in 1 .. p /\ i < i + 1
    BY <1>4
  <2>2. j + 1 <= q => j \in 1 .. q /\ j + 1 \in 1 .. q /\ j < j + 1
    BY <1>4
  <2>. QED  BY <1>2, <2>1, <2>2, Zenon
<1>8. t.i = i /\ t.j = j /\ t.temp = e
  BY <1>3
<1>9. CASE i <= p /\ (j > q \/ ~(x > y))
  <2>1. u = [i |-> i + 1, j |-> j, temp |-> Append(e, x)]
    <3>1. u = [t EXCEPT !.i = @ + 1, !.temp = Append(@, x)]
      BY <1>1, <1>8, <1>9, Zenon DEF Turn, GoesFirst
    <3> HIDE DEF u, x
    <3>. QED  BY <1>3, <3>1
  <2> HIDE DEF u, x, y
  <2>2. j <= q => x <= y
    BY <1>4, <1>6, <1>9
  <2>3. NotDescending(Append(e, x)) /\ \A w \in Nat : x <= w => AtMost(Append(e, x), w)
    <3>1. x \in Nat /\ AtMost(e, x)
      BY <1>3, <1>6, <1>9 DEF x
    <3>. QED  BY <1>3, <3>1, AppendNotDescending
  <2>4. i + 1 <= p => AtMost(Append(e, x), s[i + 1])
    BY <1>7, <2>3, Zenon
  <2>5. j <= q => AtMost(Append(e, x), y)
    BY <1>6, <2>2, <2>3, Zenon
  <2>6. i + 1 \in 1 .. p + 1 /\ (i + 1) + j = (n + 1) + 2
    BY <1>3, <1>4, <1>9
  <2>7. u.i = i + 1 /\ u.j = j /\ u.temp = Append(e, x)
    BY <2>1
  <2>. QED  BY <1>1, <2>1, <2>3, <2>4, <2>5, <2>6, <2>7, Zenon DEF Merging, u, y
<1>10. CASE ~(i <= p /\ (j > q \/ ~(x > y)))
  <2>1. u = [i |-> i, j |-> j + 1, temp |-> Append(e, y)]
    <3>1. ~(i <= p /\ (j > q \/ JUNK \in {x, y} \/ GoesFirst(x, y)))
      <4>1. i <= p => ~(j > q) /\ j <= q
        BY <1>4, <1>10
      <4>2. i <= p => ~(JUNK \in {x, y})
        BY <1>6, <4>1
      <4>. QED  BY <1>10, <4>1, <4>2, Zenon DEF GoesFirst
    <3>2. u = [t EXCEPT !.j = @ + 1, !.temp = Append(@, y)]
      BY <1>1, <1>8, <3>1, Zenon DEF Turn
    <3> HIDE DEF u, y
    <3>. QED  BY <1>3, <3>2
  <2> HIDE DEF u, x, y
  <2>2. j <= q /\ (i <= p => y <= x)
    BY <1>4, <1>5, <1>6, <1>10
  <2>3. NotDescending(Append(e, y)) /\ \A w \in Nat : y <= w => AtMost(Append(e, y), w)
    <3>1. y \in Nat /\ AtMost(e, y)
      BY <1>3, <1>6, <2>2 DEF y
    <3>. QED  BY <1>3, <3>1, AppendNotDescending
  <2>4. j + 1 <= q => AtMost(Append(e, y), v[j + 1])
    BY <1>7, <2>3, Zenon DEF y
  <2>5. i <= p => AtMost(Append(e, y), x)
    BY <1>6, <2>2, <2>3, Zenon
  <2>6. j + 1 \in 1 .. q + 1 /\ i + (j + 1) = (n + 1) + 2
    BY <1>3, <1>4, <2>2
  <2>7. u.i = i /\ u.j = j + 1 /\ u.temp = Append(e, y)
    BY <2>1
  <2>. QED  BY <1>1, <2>1, <2>3, <2>4, <2>5, <2>6, <2>7, Zenon DEF Merging, u, x
<1>. QED  BY <1>9, <1>10

\* copyAndMerge keeps a vector that does not descend.
LEMMA MergedNotDescending ==
    ASSUME NEW s, NotDescending(s), NEW v, NotDescending(v)
    PROVE  NotDescending(Merged(s, v))
<1> DEFINE N == Len(s) + Len(v)
           Begin == [i |-> 1, j |-> 1, temp |-> <<>>]
           D == [i : Nat, j : Nat, temp : Seq(Nat)]
           step == [x \in (1 .. N) \X D |->
                      IF Merging(s, v, x[1] - 1, x[2]) THEN Turn(s, v, x[2]) ELSE Begin]
<1>1. N \in Nat /\ Len(s) \in Nat /\ Len(v) \in Nat
  BY DEF NotDescending
<1>2. Begin \in D /\ Merging(s, v, 0, Begin)
  <2>1. Begin \in D /\ Begin.i = 1 /\ Begin.j = 1 /\ Begin.temp = <<>>
    OBVIOUS
  <2>2. <<>> \in Seq(Nat) /\ Len(<<>>) = 0 /\ 1 .. 0 = {}
    OBVIOUS
  <2>3. NotDescending(<<>>) /\ \A w : AtMost(<<>>, w)
    BY <2>2, Zenon DEF NotDescending, AtMost
  <2>4. 1 \in 1 .. Len(s) + 1 /\ 1 \in 1 .. Len(v) + 1 /\ 1 + 1 = 0 + 2
    BY <1>1
  <2> HIDE DEF N
  <2>5. Begin = [i |-> Begin.i, j |-> Begin.j, temp |-> Begin.temp]
    OBVIOUS
  <2> HIDE DEF Begin, D
  <2>. QED  BY <2>1, <2>3, <2>4, <2>5, Zenon DEF Merging
<1>3. ASSUME NEW n \in Nat, NEW t, Merging(s, v, n, t) PROVE t \in D
  <2>1. /\ t = [i |-> t.i, j |-> t.j, temp |-> t.temp]
        /\ t.i \in 1 .. Len(s) + 1 /\ t.j \in 1 .. Len(v) + 1 /\ t.temp \in Seq(Nat)
    BY <1>3, Zenon DEF Merging, NotDescending
  <2>2. t.i \in Nat /\ t.j \in Nat
    BY <1>1, <2>1
  <2>. QED  BY <2>1, <2>2
<1>4. ASSUME NEW n \in 1 .. N, NEW t, Merging(s, v, n - 1, t)
      PROVE  Merging(s, v, n, Turn(s, v, t))
  <2>1. n - 1 \in Nat /\ n - 1 < N /\ (n - 1) + 1 = n
    BY <1>1
  <2>2. Merging(s, v, (n - 1) + 1, Turn(s, v, t))
    BY <1>4, <2>1, TurnMerges
  <2>. QED  BY <2>1, <2>2
<1> HIDE DEF D, Begin
<1>5. step \in [(1 .. N) \X D -> D]
  <2> SUFFICES ASSUME NEW n \in 1 .. N, NEW t \in D, Merging(s, v, n - 1, t)
               PROVE  Turn(s, v, t) \in D
    BY <1>2
  <2>1. Merging(s, v, n, Turn(s, v, t)) /\ n \in Nat
    BY <1>1, <1>4
  <2>. QED  BY <1>3, <2>1
<1>6. PICK f \in Recursions(N, D, Begin, step) : TRUE
  <2> HIDE DEF N, step
  <2>. QED  BY <1>1, <1>2, <1>5, RecursionExists
<1>7. f \in [0 .. N -> D] /\ f[0] = Begin /\ \A n \in 1 .. N : f[n] = step[<<n, f[n - 1]>>]
  <2> HIDE DEF N, step
  <2>. QED  BY <1>6 DEF Recursions
<1>8. \A n \in 1 .. N, t \in D : Merging(s, v, n - 1, t) => step[<<n, t>>] = Turn(s, v, t)
  <2> HIDE DEF N
  <2>. QED  OBVIOUS
<1> HIDE DEF step
<1> DEFINE T == {n \in 0 .. N : Merging(s, v, n, f[n])}
<1>9. ASSUME NEW n \in 0 .. N - 1, n \in T
      PROVE  f[n + 1] = Turn(s, v, f[n]) /\ n + 1 \in T
  <2>1. n + 1 \in 1 .. N /\ (n + 1) - 1 = n /\ n \in 0 .. N /\ n + 1 \in 0 .. N
    BY <1>1
  <2>2. Merging(s, v, n, f[n]) /\ f[n] \in D
    <3> HIDE DEF N
    <3>. QED  BY <1>7, <1>9, <2>1
  <2> HIDE DEF N
  <2>3. f[n + 1] = step[<<n + 1, f[(n + 1) - 1]>>]
    BY <1>7, <2>1, Zenon
  <2>4. f[n + 1] = Turn(s, v, f[(n + 1) - 1])
    <3>1. Merging(s, v, (n + 1) - 1, f[(n + 1) - 1]) /\ f[(n + 1) - 1] \in D
      BY <2>1, <2>2, Zenon
    <3>. QED  BY <1>8, <2>1, <2>3, <3>1, Zenon
  <2>5. f[n + 1] = Turn(s, v, f[n])
    BY <2>1, <2>4, Zenon
  <2>6. Merging(s, v, n + 1, f[n + 1])
    <3>1. Merging(s, v, (n + 1) - 1, f[n])
      BY <2>1, <2>2, Zenon
    <3>. QED  BY <1>4, <2>1, <2>5, <3>1, Zenon
  <2>. QED  BY <2>1, <2>5, <2>6
<1>10. 0 .. N \subseteq T
  <2>1. 0 \in T
    BY <1>1, <1>2, <1>7
  <2> HIDE DEF T, N
  <2>. QED  BY <1>1, <1>9, <2>1, Climb
<1>11. \A n \in 1 .. N : f[n] = Turn(s, v, f[n - 1])
  <2> SUFFICES ASSUME NEW n \in 1 .. N PROVE f[n] = Turn(s, v, f[n - 1])
    OBVIOUS
  <2>1. n - 1 \in 0 .. N - 1 /\ n - 1 \in 0 .. N /\ (n - 1) + 1 = n
    BY <1>1
  <2>2. n - 1 \in T
    BY <1>10, <2>1
  <2> HIDE DEF T, N
  <2>3. f[(n - 1) + 1] = Turn(s, v, f[n - 1])
    BY <1>9, <2>1, <2>2
  <2>. QED  BY <2>1, <2>3
<1>12. f = [n \in 0 .. N |-> IF n = 0 THEN Begin ELSE Turn(s, v, f[n - 1])]
  <2> HIDE DEF N
  <2>0. \A n \in 0 .. N : n # 0 => n \in 1 .. N
    BY <1>1
  <2>. QED  BY <1>1, <1>7, <1>11, <2>0
<1> DEFINE turn == CHOOSE g : g = [n \in 0 .. N |-> IF n = 0 THEN Begin ELSE Turn(s, v, g[n - 1])]
<1>13. turn = [n \in 0 .. N |-> IF n = 0 THEN Begin ELSE Turn(s, v, turn[n - 1])]
  <2> HIDE DEF N
  <2>. QED  BY <1>12
<1>14. Merged(s, v) = turn[N].temp
  BY DEF Merged, Begin
<1> HIDE DEF turn
<1> DEFINE R == {n \in 0 .. N : turn[n] = f[n]}
<1>15. 0 .. N \subseteq R
  <2>1. 0 \in R
    <3>1. 0 \in 0 .. N
      BY <1>1
    <3>2. turn[0] = Begin
      <4> HIDE DEF N
      <4>. QED  BY <1>13, <3>1, Zenon
    <3>. QED  BY <1>7, <3>1, <3>2
  <2>2. ASSUME NEW n \in 0 .. N - 1, n \in R PROVE n + 1 \in R
    <3>1. n + 1 \in 0 .. N /\ n + 1 # 0 /\ (n + 1) - 1 = n /\ n + 1 \in 1 .. N
      BY <1>1
    <3>2. turn[n + 1] = Turn(s, v, turn[n])
      <4> HIDE DEF N
      <4>1. turn[n + 1] = IF n + 1 = 0 THEN Begin ELSE Turn(s, v, turn[(n + 1) - 1])
        BY <1>13, <3>1, Zenon
      <4>. QED  BY <3>1, <4>1, Zenon
    <3>3. f[n + 1] = Turn(s, v, f[n])
      <4> HIDE DEF N
      <4>1. f[n + 1] = Turn(s, v, f[(n + 1) - 1])
        BY <1>11, <3>1, Zenon
      <4>. QED  BY <3>1, <4>1, Zenon
    <3>4. turn[n] = f[n]
      BY <2>2
    <3>. QED  BY <3>1, <3>2, <3>3, <3>4
  <2> HIDE DEF R, N
  <2>. QED  BY <1>1, <2>1, <2>2, Climb
<1>16. N \in 0 .. N
  BY <1>1
<1>17. turn[N] = f[N] /\ Merging(s, v, N, f[N])
  <2>1. N \in R /\ N \in T
    BY <1>10, <1>15, <1>16
  <2>. QED  BY <2>1
<1>. QED  BY <1>14, <1>17, Zenon DEF Merging

\* A list holds what it should.
Holds(l) ==
  /\ Ascends(FlattenSeq(nodes[l]), held[l])
  /\ nodeCount[l] = Len(FlattenSeq(nodes[l]))

\* A walk stands at element i of the first of the nodes a, or behind the last.
AtNode(a, i) ==
  /\ a \in NodeSeq /\ i \in Nat \ {0}
  /\ Ascends(FlattenSeq(a), ToSet(FlattenSeq(a)))
  /\ a # <<>> => i <= Len(Head(a)) + 1

\* What the walk has still to see of the nodes.
Ahead(a, i) == {FlattenSeq(a)[k] : k \in i .. Len(FlattenSeq(a))}

\* What the result will still get, and what it holds.
Left == Ahead(walk.a, walk.i) \cap Ahead(walk.b, walk.j)
Found == ToSet(FlattenSeq(nodes[walk.to]))

WalkHolds ==
  /\ AtNode(walk.a, walk.i) /\ AtNode(walk.b, walk.j)
  /\ Ascends(FlattenSeq(nodes[walk.to]), Found)
  /\ nodeCount[walk.to] = Len(FlattenSeq(nodes[walk.to]))
  /\ held[walk.to] = Found \cup Left /\ held[walk.with] = {}
  /\ \A x \in Found, y \in Left : x < y

HoldInv ==
  /\ held \in [Lists -> SUBSET Nat]
  /\ listPc = "run" => \A l \in Lists : Holds(l)
  /\ listPc = "walk" => WalkHolds /\ \A l \in Lists \ {walk.to, walk.with} : Holds(l)
  /\ ~unsorted => NotDescending(ret)

LEMMA AheadStart ==
    ASSUME NEW a \in NodeSeq, NEW S, Ascends(FlattenSeq(a), S)
    PROVE  AtNode(a, 1) /\ Ahead(a, 1) = S
<1> DEFINE s == FlattenSeq(a)
<1>1. s \in Seq(Nat) /\ ToSet(s) = S
  BY Zenon DEF Ascends
<1>2. a # <<>> => 1 <= Len(Head(a)) + 1
  <2>1. a # <<>> => Head(a) \in Seq(Nat)
    BY DEF NodeSeq
  <2>. QED  BY <2>1
<1>3. Ahead(a, 1) = S
  <2>1. ToSet(s) = {s[k] : k \in 1 .. Len(s)}
    <3> HIDE DEF s
    <3>1. DOMAIN s = 1 .. Len(s)
      BY <1>1
    <3>. QED  BY <1>1, <3>1, Zenon DEF ToSet
  <2>. QED  BY <1>1, <2>1, Zenon DEF Ahead
<1>. QED  BY <1>1, <1>2, <1>3 DEF AtNode

LEMMA AheadEmpty ==
    ASSUME NEW i \in Nat \ {0}
    PROVE  Ahead(<<>>, i) = {}
<1>1. FlattenSeq(<<>>) = <<>> /\ Len(<<>>) = 0
  BY FlattenEmpty
<1>2. i .. 0 = {}
  OBVIOUS
<1>. QED  BY <1>1, <1>2, Zenon DEF Ahead

\* The element that the walk sees is the least of the rest.
LEMMA AheadElement ==
    ASSUME NEW a, NEW i, AtNode(a, i), a # <<>>, i <= Len(Head(a))
    PROVE  LET x == Head(a)[i]
           IN /\ x \in Nat /\ x \in Ahead(a, i) /\ Ahead(a, i + 1) = Ahead(a, i) \ {x}
              /\ \A y \in Ahead(a, i + 1) : x < y
              /\ AtNode(a, i + 1)
<1> DEFINE s == FlattenSeq(a)
           h == Head(a)
           r == FlattenSeq(Tail(a))
<1>1. a \in NodeSeq /\ i \in Nat \ {0} /\ Ascends(s, ToSet(s))
  BY Zenon DEF AtNode
<1>2. h \in Seq(Nat) /\ Tail(a) \in NodeSeq
  BY <1>1 DEF NodeSeq
<1>3. r \in Seq(Nat) /\ s = h \o r
  BY <1>1, <1>2, FlattenType, FlattenTail
<1>4. s \in Seq(Nat) /\ \A k, m \in 1 .. Len(s) : k < m => s[k] < s[m]
  BY <1>1, Zenon DEF Ascends
<1>5. i <= Len(h)
  OBVIOUS
<1> HIDE DEF s, h, r
<1>6. Len(s) \in Nat /\ i \in 1 .. Len(s) /\ s[i] = h[i] /\ h[i] \in Nat
  BY <1>1, <1>2, <1>3, <1>5
<1>7. \A k \in i + 1 .. Len(s) : k \in i .. Len(s) /\ i < k /\ k \in 1 .. Len(s)
  BY <1>1, <1>6
<1>8. \A k \in i .. Len(s) : k = i \/ k \in i + 1 .. Len(s)
  BY <1>1, <1>6
<1>9. Ahead(a, i) = {s[k] : k \in i .. Len(s)} /\ Ahead(a, i + 1) = {s[k] : k \in i + 1 .. Len(s)}
  BY Zenon DEF Ahead, s
<1>10. \A y \in Ahead(a, i + 1) : s[i] < y
  BY <1>4, <1>6, <1>7, <1>9, Zenon
<1>11. s[i] \in Ahead(a, i)
  <2>1. i \in i .. Len(s)
    BY <1>6
  <2>. QED  BY <1>9, <2>1
<1>12. s[i] \notin Ahead(a, i + 1)
  <2>1. ~(s[i] < s[i])
    BY <1>6
  <2>. QED  BY <1>10, <2>1, Zenon
<1>13. Ahead(a, i + 1) = Ahead(a, i) \ {s[i]}
  <2>1. ASSUME NEW y \in Ahead(a, i + 1) PROVE y \in Ahead(a, i) \ {s[i]}
    <3>1. PICK k \in i + 1 .. Len(s) : y = s[k]
      BY <1>9
    <3>2. y \in Ahead(a, i)
      BY <1>7, <1>9, <3>1
    <3>. QED  BY <1>12, <3>2
  <2>2. ASSUME NEW y \in Ahead(a, i), y # s[i] PROVE y \in Ahead(a, i + 1)
    <3>1. PICK k \in i .. Len(s) : y = s[k]
      BY <1>9
    <3>2. k \in i + 1 .. Len(s)
      BY <1>8, <2>2, <3>1
    <3>. QED  BY <1>9, <3>1, <3>2
  <2>. QED  BY <2>1, <2>2
<1>14. AtNode(a, i + 1)
  <2>1. i + 1 \in Nat \ {0} /\ i + 1 <= Len(h) + 1
    BY <1>1, <1>2, <1>5
  <2>. QED  BY <1>1, <2>1, Zenon DEF AtNode, s, h
<1>. QED  BY <1>6, <1>10, <1>11, <1>13, <1>14, Zenon DEF h

\* Behind a node the walk stands before the next one.
LEMMA AheadTail ==
    ASSUME NEW a, NEW i, AtNode(a, i), a # <<>>, i > Len(Head(a))
    PROVE  AtNode(Tail(a), 1) /\ Ahead(Tail(a), 1) = Ahead(a, i)
<1> DEFINE s == FlattenSeq(a)
           h == Head(a)
           r == FlattenSeq(Tail(a))
<1>1. a \in NodeSeq /\ i \in Nat \ {0} /\ Ascends(s, ToSet(s)) /\ i <= Len(h) + 1
  BY Zenon DEF AtNode
<1>2. h \in Seq(Nat) /\ Tail(a) \in NodeSeq
  BY <1>1 DEF NodeSeq
<1>3. r \in Seq(Nat) /\ s = h \o r
  BY <1>1, <1>2, FlattenType, FlattenTail
<1>4. s \in Seq(Nat) /\ \A k, m \in 1 .. Len(s) : k < m => s[k] < s[m]
  BY <1>1, Zenon DEF Ascends
<1>5. i > Len(h)
  OBVIOUS
<1> HIDE DEF s, h, r
<1>6. PICK p \in Nat, q \in Nat : p = Len(h) /\ q = Len(r) /\ Len(s) = p + q
  BY <1>2, <1>3
<1>7. i = p + 1
  BY <1>1, <1>5, <1>6
<1>8. \A k \in 1 .. q : r[k] = s[p + k] /\ p + k \in 1 .. p + q
  BY <1>2, <1>3, <1>6
<1>9. Ascends(r, ToSet(r))
  <2>1. ASSUME NEW k \in 1 .. q, NEW m \in 1 .. q, k < m PROVE r[k] < r[m]
    <3>1. p + k < p + m
      BY <2>1
    <3>. QED  BY <1>4, <1>6, <1>8, <3>1
  <2>. QED  BY <1>3, <1>6, <2>1 DEF Ascends
<1>10. AtNode(Tail(a), 1) /\ Ahead(Tail(a), 1) = ToSet(r)
  BY <1>2, <1>9, AheadStart DEF r
<1>11. Ahead(a, i) = {s[k] : k \in p + 1 .. p + q}
  BY <1>6, <1>7 DEF Ahead, s
<1>12. ToSet(r) = {r[k] : k \in 1 .. q}
  <2>1. DOMAIN r = 1 .. q
    BY <1>3, <1>6
  <2>. QED  BY <2>1, Zenon DEF ToSet
<1>13. {s[k] : k \in p + 1 .. p + q} = {r[k] : k \in 1 .. q}
  <2>1. \A k \in 1 .. q : p + k \in p + 1 .. p + q
    OBVIOUS
  <2>2. \A k \in p + 1 .. p + q : k - p \in 1 .. q /\ p + (k - p) = k
    OBVIOUS
  <2>3. \A k \in p + 1 .. p + q : s[k] = r[k - p]
    BY <1>8, <2>2, Zenon
  <2>4. ASSUME NEW x \in {s[k] : k \in p + 1 .. p + q} PROVE x \in {r[k] : k \in 1 .. q}
    <3>1. PICK k \in p + 1 .. p + q : x = s[k]
      OBVIOUS
    <3>. QED  BY <2>2, <2>3, <3>1
  <2>5. ASSUME NEW x \in {r[k] : k \in 1 .. q} PROVE x \in {s[k] : k \in p + 1 .. p + q}
    <3>1. PICK k \in 1 .. q : x = r[k]
      OBVIOUS
    <3>. QED  BY <1>8, <2>1, <3>1
  <2>. QED  BY <2>4, <2>5
<1>. QED  BY <1>10, <1>11, <1>12, <1>13

\* A failed assertion and a read that does not end change nothing that is held.
LEMMA StopHolds ==
    ASSUME HoldInv, listPc' \in {"abort", "load"}, held' \in [Lists -> SUBSET Nat],
           UNCHANGED <<ret, unsorted>>
    PROVE  HoldInv'
BY DEF HoldInv

\* An operation outside an intersection that changes one list.
LEMMA OneListHolds ==
    ASSUME ListTypes, HoldInv, listPc = "run", listPc' = "run",
           NEW l \in Lists, NEW s, NEW c, NEW S \in SUBSET Nat,
           nodes' = [nodes EXCEPT ![l] = s], nodeCount' = [nodeCount EXCEPT ![l] = c],
           held' = [held EXCEPT ![l] = S], UNCHANGED <<ret, unsorted>>,
           Ascends(FlattenSeq(s), S), c = Len(FlattenSeq(s))
    PROVE  HoldInv'
<1>1. /\ nodes'[l] = s /\ nodeCount'[l] = c /\ held'[l] = S /\ held' \in [Lists -> SUBSET Nat]
      /\ \A k \in Lists : k # l => nodes'[k] = nodes[k] /\ nodeCount'[k] = nodeCount[k]
                                   /\ held'[k] = held[k]
  BY DEF ListTypes, HoldInv
<1>2. ASSUME NEW k \in Lists PROVE Holds(k)'
  <2>1. CASE k = l
    BY <1>1, <2>1, Zenon DEF Holds
  <2>2. CASE k # l
    <3>1. Holds(k)
      BY DEF HoldInv
    <3>. QED  BY <1>1, <2>2, <3>1, Zenon DEF Holds
  <2>. QED  BY <2>1, <2>2
<1>3. ~unsorted' => NotDescending(ret')
  BY DEF HoldInv
<1>. QED  BY <1>1, <1>2, <1>3 DEF HoldInv

LEMMA EmptyHolds == Ascends(FlattenSeq(<<>>), {}) /\ 0 = Len(FlattenSeq(<<>>))
<1>1. <<>> \in Seq(Nat) /\ ToSet(<<>>) = {} /\ Len(<<>>) = 0 /\ 1 .. 0 = {}
  BY DEF ToSet
<1>. QED  BY <1>1, FlattenEmpty, Zenon DEF Ascends

LEMMA AddedHolds ==
    ASSUME NEW s \in NodeSeq, NEW S, Ascends(FlattenSeq(s), S),
           NEW v \in Nat, \A x \in S : x < v
    PROVE  /\ Ascends(FlattenSeq(Added(s, v)), S \cup {v})
           /\ Len(FlattenSeq(Added(s, v))) = Len(FlattenSeq(s)) + 1
<1>1. FlattenSeq(Added(s, v)) = Append(FlattenSeq(s), v)
  BY FlattenAdded
<1>2. Ascends(Append(FlattenSeq(s), v), S \cup {v})
  BY AppendAscends
<1> DEFINE x == FlattenSeq(s)
<1>3. x \in Seq(Nat)
  BY FlattenType
<1> HIDE DEF x
<1>4. Len(Append(x, v)) = Len(x) + 1
  BY <1>3
<1>. QED  BY <1>1, <1>2, <1>4, Zenon DEF x

LEMMA InRun ==
    ASSUME ListInv, HoldInv, listPc = "run"
    PROVE  ListTypes /\ \A l \in Lists : Holds(l) /\ nodes[l] \in NodeSeq
BY DEF ListInv, HoldInv, ListTypes

LEMMA AddElementHolds ==
    ASSUME ListInv, HoldInv, NEW l \in Lists, NEW v \in Positions, addElement(l, v)
    PROVE  HoldInv'
<1>1. held \in [Lists -> SUBSET Nat] /\ listPc = "run"
  BY DEF HoldInv, addElement, Runs
<1>2. CASE Full(nodes[l]) /\ cursor = 0
  <2>1. listPc' = "abort" /\ UNCHANGED <<held, ret, unsorted>>
    BY <1>2 DEF addElement, abort
  <2>. QED  BY <1>1, <2>1, StopHolds
<1>3. CASE ~(Full(nodes[l]) /\ cursor = 0)
  <2> DEFINE s == Added(nodes[l], v)
             S == held[l] \cup {v}
             c == nodeCount[l] + 1
  <2>1. /\ nodes' = [nodes EXCEPT ![l] = s] /\ nodeCount' = [nodeCount EXCEPT ![l] = c]
        /\ held' = [held EXCEPT ![l] = S] /\ listPc' = listPc /\ UNCHANGED <<ret, unsorted>>
        /\ \A e \in held[l] : e < v
    BY <1>3 DEF addElement
  <2>2. v \in Nat /\ S \in SUBSET Nat
    BY <1>1, LinkListAssumption
  <2>3. ListTypes /\ Holds(l) /\ nodes[l] \in NodeSeq
    BY <1>1, InRun
  <2>4. Ascends(FlattenSeq(s), S) /\ c = Len(FlattenSeq(s))
    BY <2>1, <2>2, <2>3, AddedHolds DEF Holds
  <2> HIDE DEF s, S, c
  <2>. QED  BY <1>1, <2>1, <2>2, <2>3, <2>4, OneListHolds
<1>. QED  BY <1>2, <1>3

LEMMA Write2fileHolds ==
    ASSUME ListInv, HoldInv, NEW l \in Lists, write2file(l)
    PROVE  HoldInv'
<1>1. held \in [Lists -> SUBSET Nat] /\ listPc = "run"
  BY DEF HoldInv, write2file, Runs
<1>2. CASE nodeCount[l] # Len(FlattenSeq(nodes[l]))
  <2>1. listPc' = "abort" /\ UNCHANGED <<held, ret, unsorted>>
    BY <1>2 DEF write2file, abort
  <2>. QED  BY <1>1, <2>1, StopHolds
<1>3. CASE nodeCount[l] = Len(FlattenSeq(nodes[l]))
  <2>1. /\ nodes' = [nodes EXCEPT ![l] = <<>>] /\ nodeCount' = [nodeCount EXCEPT ![l] = 0]
        /\ held' = [held EXCEPT ![l] = {}] /\ listPc' = listPc /\ UNCHANGED <<ret, unsorted>>
    BY <1>3 DEF write2file
  <2>2. ListTypes
    BY <1>1, InRun
  <2>. QED  BY <1>1, <2>1, <2>2, EmptyHolds, OneListHolds
<1>. QED  BY <1>2, <1>3

LEMMA DeleteListHolds ==
    ASSUME ListInv, HoldInv, NEW l \in Lists, deleteList(l)
    PROVE  HoldInv'
<1>1. listPc = "run"
  BY DEF deleteList, Runs
<1>2. /\ nodes' = [nodes EXCEPT ![l] = <<>>] /\ nodeCount' = [nodeCount EXCEPT ![l] = 0]
      /\ held' = [held EXCEPT ![l] = {}] /\ listPc' = listPc /\ UNCHANGED <<ret, unsorted>>
  BY DEF deleteList
<1>3. ListTypes
  BY <1>1, InRun
<1>. QED  BY <1>1, <1>2, <1>3, EmptyHolds, OneListHolds

LEMMA ReadFromFileHolds ==
    ASSUME ListInv, HoldInv, NEW l \in Lists, readFromFile(l)
    PROVE  HoldInv'
<1>1. held \in [Lists -> SUBSET Nat] /\ listPc = "run"
  BY DEF HoldInv, readFromFile, Runs
<1>2. CASE file.count # 0
  <2>1. listPc' = "load" /\ held' = [held EXCEPT ![l] = {}] /\ UNCHANGED <<ret, unsorted>>
    BY <1>2 DEF readFromFile
  <2>2. held' \in [Lists -> SUBSET Nat]
    BY <1>1, <2>1
  <2>. QED  BY <2>1, <2>2, StopHolds
<1>3. CASE file.count = 0
  <2>1. /\ nodes' = [nodes EXCEPT ![l] = <<>>] /\ nodeCount' = [nodeCount EXCEPT ![l] = 0]
        /\ held' = [held EXCEPT ![l] = {}] /\ listPc' = "run" /\ UNCHANGED <<ret, unsorted>>
    BY <1>3 DEF readFromFile
  <2>2. ListTypes
    BY <1>1, InRun
  <2>. QED  BY <1>1, <2>1, <2>2, EmptyHolds, OneListHolds
<1>. QED  BY <1>2, <1>3

LEMMA ReadFromFileAndMergeHolds ==
    ASSUME ListInv, HoldInv, readFromFileAndMerge
    PROVE  HoldInv'
<1>1. listPc = "run" /\ unsorted' /\ UNCHANGED <<nodes, nodeCount, listPc, held>>
  BY DEF readFromFileAndMerge, Runs
<1>2. \A l \in Lists : Holds(l)'
  BY <1>1, InRun DEF Holds
<1>. QED  BY <1>1, <1>2 DEF HoldInv

LEMMA CopyAndMergeHolds ==
    ASSUME ListInv, HoldInv, NEW l \in Lists, copyAndMerge(l)
    PROVE  HoldInv'
<1>1. /\ listPc = "run" /\ UNCHANGED <<nodes, nodeCount, listPc, held>>
      /\ ret' = Merged(Cells(nodes[l]), ret) /\ unsorted' = (unsorted \/ <<>> \in ToSet(nodes[l]))
  BY DEF copyAndMerge, Runs
<1>2. \A k \in Lists : Holds(k)'
  BY <1>1, InRun DEF Holds
<1>3. ASSUME ~unsorted' PROVE NotDescending(ret')
  <2>1. ~unsorted /\ <<>> \notin ToSet(nodes[l])
    BY <1>1, <1>3
  <2>2. Cells(nodes[l]) = FlattenSeq(nodes[l]) /\ Holds(l)
    BY <1>1, <2>1, InRun, CellsOfNodes
  <2> DEFINE s == FlattenSeq(nodes[l])
  <2>3. Ascends(s, held[l])
    BY <2>2 DEF Holds
  <2> HIDE DEF s
  <2>4. NotDescending(s)
    <3>1. s \in Seq(Nat) /\ \A i, j \in 1 .. Len(s) : i < j => s[i] < s[j]
      BY <2>3, Zenon DEF Ascends
    <3>. QED  BY <3>1 DEF NotDescending
  <2>5. NotDescending(ret)
    BY <2>1 DEF HoldInv
  <2>6. NotDescending(Merged(s, ret))
    BY <2>4, <2>5, MergedNotDescending
  <2>. QED  BY <1>1, <2>2, <2>6 DEF s
<1>. QED  BY <1>1, <1>2, <1>3 DEF HoldInv

LEMMA LoadElementHolds ==
    ASSUME ListInv, HoldInv, loadElement
    PROVE  HoldInv'
<1>1. listPc' \in {"abort", "load"} /\ UNCHANGED <<held, ret, unsorted>>
  BY DEF loadElement, abort
<1>. QED  BY <1>1, StopHolds DEF HoldInv

LEMMA InitHoldInv == LinkListInit => HoldInv
<1> SUFFICES ASSUME LinkListInit PROVE HoldInv
  OBVIOUS
<1>1. /\ nodes = [l \in Lists |-> <<>>] /\ nodeCount = [l \in Lists |-> 0]
      /\ held = [l \in Lists |-> {}] /\ listPc = "run" /\ ret = <<>>
  BY DEF LinkListInit
<1>2. \A l \in Lists : Holds(l)
  BY <1>1, EmptyHolds DEF Holds
<1>3. NotDescending(<<>>)
  <2>1. <<>> \in Seq(Nat) /\ Len(<<>>) = 0 /\ 1 .. 0 = {}
    OBVIOUS
  <2>. QED  BY <2>1, Zenon DEF NotDescending
<1>. QED  BY <1>1, <1>2, <1>3 DEF HoldInv

LEMMA InWalk ==
    ASSUME ListInv, HoldInv, listPc = "walk"
    PROVE  /\ ListTypes /\ IsWalk /\ WalkHolds
           /\ \A l \in Lists \ {walk.to, walk.with} : Holds(l)
BY DEF ListInv, HoldInv, ListTypes

LEMMA IntersectionHolds ==
    ASSUME ListInv, HoldInv, NEW l \in Lists, NEW m \in Lists, intersection(l, m)
    PROVE  HoldInv'
<1>1. held \in [Lists -> SUBSET Nat] /\ listPc = "run" /\ l # m
  BY DEF HoldInv, intersection, Runs
<1>2. CASE cursor = 0
  <2>1. listPc' = "abort" /\ UNCHANGED <<held, ret, unsorted>>
    BY <1>2 DEF intersection, abort
  <2>. QED  BY <1>1, <2>1, StopHolds
<1>3. CASE cursor # 0
  <2> DEFINE s == << <<>> >>
             a == nodes[l]
             b == nodes[m]
  <2>1. /\ nodes' = [nodes EXCEPT ![l] = s] /\ nodeCount' = [nodeCount EXCEPT ![l] = 0]
        /\ held' = [held EXCEPT ![l] = held[l] \cap held[m], ![m] = {}]
        /\ listPc' = "walk" /\ UNCHANGED <<ret, unsorted>>
        /\ walk' = [to |-> l, with |-> m, a |-> a, b |-> b, i |-> 1, j |-> 1]
    BY <1>3 DEF intersection
  <2>2. ListTypes /\ Holds(l) /\ Holds(m) /\ a \in NodeSeq /\ b \in NodeSeq /\ \A k \in Lists : Holds(k)
    BY <1>1, InRun
  <2>3. /\ nodes'[l] = s /\ nodeCount'[l] = 0
        /\ held'[l] = held[l] \cap held[m] /\ held'[m] = {} /\ held' \in [Lists -> SUBSET Nat]
        /\ \A k \in Lists \ {l, m} : nodes'[k] = nodes[k] /\ nodeCount'[k] = nodeCount[k]
                                     /\ held'[k] = held[k]
    BY <1>1, <2>1, <2>2 DEF ListTypes
  <2>4. FlattenSeq(s) = <<>>
    <3>1. s = Append(<<>>, <<>>) /\ <<>> \in Seq(Nat)
      OBVIOUS
    <3>2. FlattenSeq(s) = FlattenSeq(<<>>) \o <<>>
      BY <3>1, EmptyNodes, FlattenAppend, Zenon
    <3>. QED  BY <3>1, <3>2, FlattenEmpty, ConcatEmpty, Zenon
  <2>5. AtNode(a, 1) /\ Ahead(a, 1) = held[l] /\ AtNode(b, 1) /\ Ahead(b, 1) = held[m]
    BY <2>2, AheadStart DEF Holds
  <2> HIDE DEF s, a, b
  <2>6. walk'.to = l /\ walk'.with = m /\ walk'.a = a /\ walk'.b = b /\ walk'.i = 1 /\ walk'.j = 1
    BY <2>1
  <2>7. ToSet(<<>>) = {} /\ Ascends(<<>>, {}) /\ Len(<<>>) = 0
    BY EmptyHolds, FlattenEmpty, Zenon DEF Ascends
  <2>8. Found' = {} /\ Left' = held[l] \cap held[m]
    BY <2>3, <2>4, <2>5, <2>6, <2>7, Zenon DEF Found, Left
  <2>9. WalkHolds'
    <3>1. held'[l] = Found' \cup Left'
      BY <2>3, <2>8
    <3>2. \A x \in Found', y \in Left' : x < y
      BY <2>8
    <3>3. Ascends(FlattenSeq(nodes'[l]), Found') /\ nodeCount'[l] = Len(FlattenSeq(nodes'[l]))
      BY <2>3, <2>4, <2>7, <2>8, Zenon
    <3>. QED  BY <2>3, <2>5, <2>6, <3>1, <3>2, <3>3, Zenon DEF WalkHolds
  <2>10. \A k \in Lists \ {walk'.to, walk'.with} : Holds(k)'
    BY <2>2, <2>3, <2>6 DEF Holds
  <2>11. ~unsorted' => NotDescending(ret')
    BY <2>1 DEF HoldInv
  <2>. QED  BY <2>1, <2>3, <2>9, <2>10, <2>11, Zenon DEF HoldInv
<1>. QED  BY <1>2, <1>3

\* Steps of a walk that change nothing but the place of the walk.
LEMMA MoveHolds ==
    ASSUME ListInv, HoldInv, listPc = "walk",
           UNCHANGED <<nodes, nodeCount, held, listPc, ret, unsorted>>,
           walk'.to = walk.to, walk'.with = walk.with,
           AtNode(walk'.a, walk'.i), AtNode(walk'.b, walk'.j), Left' = Left
    PROVE  HoldInv'
<1>1. WalkHolds /\ \A l \in Lists \ {walk.to, walk.with} : Holds(l)
  BY InWalk
<1>2. Found' = Found
  BY DEF Found
<1>3. WalkHolds'
  BY <1>1, <1>2, Zenon DEF WalkHolds
<1>4. \A l \in Lists \ {walk'.to, walk'.with} : Holds(l)'
  BY <1>1 DEF Holds
<1>. QED  BY <1>3, <1>4 DEF HoldInv

\* What is below the element that the walk sees is not to come.
LEMMA BelowAhead ==
    ASSUME NEW a, NEW i, AtNode(a, i), a # <<>>, i <= Len(Head(a)), NEW y \in Nat, y < Head(a)[i]
    PROVE  y \notin Ahead(a, i)
<1> DEFINE x == Head(a)[i]
<1>1. /\ x \in Nat /\ Ahead(a, i + 1) = Ahead(a, i) \ {x}
      /\ \A z \in Ahead(a, i + 1) : x < z
  BY AheadElement
<1>2. y < x
  OBVIOUS
<1> HIDE DEF x
<1>3. y # x /\ ~(x < y)
  BY <1>1, <1>2
<1>. QED  BY <1>1, <1>3

LEMMA SkipElementHolds ==
    ASSUME ListInv, HoldInv, skipElement
    PROVE  HoldInv'
<1> DEFINE a == walk.a
           b == walk.b
           i == walk.i
           j == walk.j
           x == Head(a)[i]
           y == Head(b)[j]
<1>1. /\ listPc = "walk" /\ UNCHANGED <<nodes, nodeCount, held, listPc, ret, unsorted>>
      /\ a # <<>> /\ b # <<>> /\ i <= Len(Head(a)) /\ j <= Len(Head(b)) /\ x # y
      /\ walk' = IF x > y THEN [walk EXCEPT !.j = j + 1] ELSE [walk EXCEPT !.i = i + 1]
  BY DEF skipElement, Walks, Inner
<1>2. IsWalk /\ AtNode(a, i) /\ AtNode(b, j)
  BY <1>1, InWalk DEF WalkHolds
<1>3. /\ x \in Nat /\ x \in Ahead(a, i) /\ Ahead(a, i + 1) = Ahead(a, i) \ {x} /\ AtNode(a, i + 1)
      /\ y \in Nat /\ y \in Ahead(b, j) /\ Ahead(b, j + 1) = Ahead(b, j) \ {y} /\ AtNode(b, j + 1)
  <2> HIDE DEF a, b, i, j
  <2>. QED  BY <1>1, <1>2, AheadElement
<1>4. CASE x > y
  <2>1. walk'.to = walk.to /\ walk'.with = walk.with /\ walk'.a = a /\ walk'.b = b
        /\ walk'.i = i /\ walk'.j = j + 1
    BY <1>1, <1>2, <1>4 DEF IsWalk
  <2>2. y < x
    <3> HIDE DEF x, y
    <3>. QED  BY <1>3, <1>4
  <2>3. y \notin Ahead(a, i)
    BY <1>1, <1>2, <1>3, <2>2, BelowAhead
  <2>4. Left' = Left
    <3>1. Left = Ahead(a, i) \cap Ahead(b, j) /\ Left' = Ahead(a, i) \cap Ahead(b, j + 1)
      BY <2>1 DEF Left
    <3> HIDE DEF a, b, i, j, x, y
    <3>. QED  BY <1>3, <2>3, <3>1
  <2> HIDE DEF x, y
  <2>. QED  BY <1>1, <1>2, <1>3, <2>1, <2>4, MoveHolds, Zenon
<1>5. CASE ~(x > y)
  <2>1. walk'.to = walk.to /\ walk'.with = walk.with /\ walk'.a = a /\ walk'.b = b
        /\ walk'.i = i + 1 /\ walk'.j = j
    BY <1>1, <1>2, <1>5 DEF IsWalk
  <2>2. x < y
    <3> HIDE DEF x, y
    <3>. QED  BY <1>1, <1>3, <1>5
  <2>3. x \notin Ahead(b, j)
    BY <1>1, <1>2, <1>3, <2>2, BelowAhead
  <2>4. Left' = Left
    <3>1. Left = Ahead(a, i) \cap Ahead(b, j) /\ Left' = Ahead(a, i + 1) \cap Ahead(b, j)
      BY <2>1 DEF Left
    <3> HIDE DEF a, b, i, j, x, y
    <3>. QED  BY <1>3, <2>3, <3>1
  <2> HIDE DEF x, y
  <2>. QED  BY <1>1, <1>2, <1>3, <2>1, <2>4, MoveHolds, Zenon
<1>. QED  BY <1>4, <1>5

LEMMA LeaveNodesHolds ==
    ASSUME ListInv, HoldInv, leaveNodes
    PROVE  HoldInv'
<1> DEFINE a == walk.a
           b == walk.b
           i == walk.i
           j == walk.j
           leaveA == i > Len(Head(a))
           leaveB == j > Len(Head(b))
           ta == IF leaveA THEN Tail(a) ELSE a
           tb == IF leaveB THEN Tail(b) ELSE b
           ti == IF leaveA THEN 1 ELSE i
           tj == IF leaveB THEN 1 ELSE j
<1>1. /\ listPc = "walk" /\ UNCHANGED <<nodes, nodeCount, held, listPc, ret, unsorted>>
      /\ a # <<>> /\ b # <<>>
      /\ walk' = [walk EXCEPT !.a = ta, !.b = tb, !.i = ti, !.j = tj]
  BY DEF leaveNodes, Walks
<1>2. IsWalk /\ AtNode(a, i) /\ AtNode(b, j)
  BY <1>1, InWalk DEF WalkHolds
<1>3. AtNode(ta, ti) /\ Ahead(ta, ti) = Ahead(a, i)
  BY <1>1, <1>2, AheadTail
<1>4. AtNode(tb, tj) /\ Ahead(tb, tj) = Ahead(b, j)
  BY <1>1, <1>2, AheadTail
<1> HIDE DEF ta, tb, ti, tj
<1>5. walk'.to = walk.to /\ walk'.with = walk.with /\ walk'.a = ta /\ walk'.b = tb
      /\ walk'.i = ti /\ walk'.j = tj
  BY <1>1, <1>2 DEF IsWalk
<1>6. Left' = Left
  BY <1>3, <1>4, <1>5, Zenon DEF Left
<1>. QED  BY <1>1, <1>3, <1>4, <1>5, <1>6, MoveHolds, Zenon

LEMMA TakeElementHolds ==
    ASSUME ListInv, HoldInv, takeElement
    PROVE  HoldInv'
<1> DEFINE l == walk.to
           a == walk.a
           b == walk.b
           i == walk.i
           j == walk.j
           v == Head(a)[i]
<1>1. /\ listPc = "walk" /\ UNCHANGED <<held, ret, unsorted>>
      /\ a # <<>> /\ b # <<>> /\ i <= Len(Head(a)) /\ j <= Len(Head(b)) /\ v = Head(b)[j]
  BY DEF takeElement, Walks, Inner
<1>2. CASE Full(nodes[l]) /\ cursor = 0
  <2>1. listPc' = "abort"
    BY <1>2 DEF takeElement
  <2>. QED  BY <1>1, <2>1, StopHolds DEF HoldInv
<1>3. CASE ~(Full(nodes[l]) /\ cursor = 0)
  <2>1. /\ nodes' = [nodes EXCEPT ![l] = Added(@, v)]
        /\ nodeCount' = [nodeCount EXCEPT ![l] = @ + 1]
        /\ walk' = [walk EXCEPT !.i = i + 1, !.j = j + 1] /\ listPc' = listPc
    BY <1>3 DEF takeElement, Walks, Passed
  <2>2. ListTypes /\ IsWalk /\ WalkHolds /\ \A k \in Lists \ {l, walk.with} : Holds(k)
    BY <1>1, InWalk
  <2>3. AtNode(a, i) /\ AtNode(b, j)
    BY <2>2 DEF WalkHolds
  <2>4. /\ v \in Nat /\ v \in Ahead(a, i) /\ Ahead(a, i + 1) = Ahead(a, i) \ {v} /\ AtNode(a, i + 1)
        /\ \A y \in Ahead(a, i + 1) : v < y
        /\ v \in Ahead(b, j) /\ Ahead(b, j + 1) = Ahead(b, j) \ {v} /\ AtNode(b, j + 1)
    <3> HIDE DEF a, b, i, j
    <3>. QED  BY <1>1, <2>3, AheadElement
  <2>5. l \in Lists /\ nodes[l] \in NodeSeq
    BY <2>2 DEF IsWalk, ListTypes
  <2> DEFINE s == Added(nodes[l], v)
  <2>6. walk'.to = l /\ walk'.with = walk.with /\ walk'.a = a /\ walk'.b = b
        /\ walk'.i = i + 1 /\ walk'.j = j + 1
    BY <2>1, <2>2 DEF IsWalk
  <2>7. /\ nodes'[l] = s /\ nodeCount'[l] = nodeCount[l] + 1
        /\ \A k \in Lists : k # l => nodes'[k] = nodes[k] /\ nodeCount'[k] = nodeCount[k]
    BY <2>1, <2>2, <2>5 DEF ListTypes
  <2>8. /\ Ascends(FlattenSeq(nodes[l]), Found) /\ nodeCount[l] = Len(FlattenSeq(nodes[l]))
        /\ held[l] = Found \cup Left /\ held[walk.with] = {}
        /\ \A x \in Found, y \in Left : x < y
    BY <2>2, Zenon DEF WalkHolds
  <2>9. Left = Ahead(a, i) \cap Ahead(b, j) /\ Left' = Ahead(a, i + 1) \cap Ahead(b, j + 1)
    BY <2>6, Zenon DEF Left
  <2> HIDE DEF l, a, b, i, j, v
  <2>10. v \in Left /\ Left' = Left \ {v} /\ Left' \subseteq Ahead(a, i + 1)
    BY <2>4, <2>9
  <2>11. Ascends(FlattenSeq(s), Found \cup {v}) /\ Len(FlattenSeq(s)) = Len(FlattenSeq(nodes[l])) + 1
    BY <2>4, <2>5, <2>8, <2>10, AddedHolds
  <2> HIDE DEF s
  <2>12. Found' = Found \cup {v}
    BY <2>6, <2>7, <2>11, Zenon DEF Found, Ascends
  <2>13. WalkHolds'
    <3>1. held'[l] = Found' \cup Left'
      BY <1>1, <2>8, <2>10, <2>12
    <3>2. \A x \in Found', y \in Left' : x < y
      BY <2>4, <2>8, <2>10, <2>12
    <3>3. Ascends(FlattenSeq(nodes'[l]), Found') /\ nodeCount'[l] = Len(FlattenSeq(nodes'[l]))
      BY <2>7, <2>8, <2>11, <2>12, Zenon
    <3>4. held'[walk.with] = {}
      BY <1>1, <2>8
    <3>. QED  BY <2>4, <2>6, <3>1, <3>2, <3>3, <3>4, Zenon DEF WalkHolds
  <2>14. \A k \in Lists \ {walk'.to, walk'.with} : Holds(k)'
    BY <1>1, <2>2, <2>6, <2>7 DEF Holds
  <2>. QED  BY <1>1, <2>1, <2>13, <2>14 DEF HoldInv
<1>. QED  BY <1>2, <1>3

LEMMA EndIntersectionHolds ==
    ASSUME ListInv, HoldInv, endIntersection
    PROVE  HoldInv'
<1>1. /\ listPc = "walk" /\ UNCHANGED <<held, ret, unsorted>> /\ listPc' = "run"
      /\ walk.a = <<>> \/ walk.b = <<>>
      /\ nodes' = [nodes EXCEPT ![walk.with] = <<>>] /\ nodeCount' = [nodeCount EXCEPT ![walk.with] = 0]
  BY DEF endIntersection, Walks
<1>2. ListTypes /\ IsWalk /\ WalkHolds /\ \A k \in Lists \ {walk.to, walk.with} : Holds(k)
  BY <1>1, InWalk
<1>3. /\ walk.to \in Lists /\ walk.with \in Lists /\ walk.to # walk.with
      /\ walk.i \in Nat \ {0} /\ walk.j \in Nat \ {0}
  BY <1>2 DEF IsWalk
<1>4. Left = {}
  BY <1>1, <1>3, AheadEmpty DEF Left
<1>5. PICK l \in Lists, m \in Lists : l = walk.to /\ m = walk.with
  BY <1>3
<1>6. /\ l # m /\ nodes'[m] = <<>> /\ nodeCount'[m] = 0
      /\ \A k \in Lists : k # m => nodes'[k] = nodes[k] /\ nodeCount'[k] = nodeCount[k]
  BY <1>1, <1>2, <1>3, <1>5 DEF ListTypes
<1>7. /\ Ascends(FlattenSeq(nodes[l]), Found) /\ nodeCount[l] = Len(FlattenSeq(nodes[l]))
      /\ held[l] = Found \cup Left /\ held[m] = {}
  BY <1>2, <1>5, Zenon DEF WalkHolds
<1>8. held' = held /\ held[l] = Found
  BY <1>1, <1>4, <1>7
<1>9. ASSUME NEW k \in Lists PROVE Holds(k)'
  <2>1. CASE k = m
    <3>1. nodes'[k] = <<>> /\ nodeCount'[k] = 0 /\ held'[k] = {}
      BY <1>6, <1>7, <1>8, <2>1
    <3>. QED  BY <3>1, EmptyHolds, Zenon DEF Holds
  <2>2. CASE k = l
    <3>1. nodes'[k] = nodes[k] /\ nodeCount'[k] = nodeCount[k] /\ held'[k] = Found
      BY <1>6, <1>8, <2>2
    <3>. QED  BY <1>7, <2>2, <3>1, Zenon DEF Holds
  <2>3. CASE k # l /\ k # m
    <3>1. nodes'[k] = nodes[k] /\ nodeCount'[k] = nodeCount[k] /\ held'[k] = held[k]
      BY <1>6, <1>8, <2>3
    <3>2. Holds(k)
      BY <1>2, <1>5, <2>3
    <3>. QED  BY <3>1, <3>2, Zenon DEF Holds
  <2>. QED  BY <2>1, <2>2, <2>3
<1>. QED  BY <1>1, <1>9 DEF HoldInv

\* Every operation keeps what the lists hold.
LEMMA LinkListNextHolds == ListInv /\ HoldInv /\ [LinkListNext]_listVars => HoldInv'
<1> SUFFICES ASSUME ListInv, HoldInv, [LinkListNext]_listVars PROVE HoldInv'
  OBVIOUS
<1>1. ASSUME NEW l \in Lists, NEW v \in Positions, addElement(l, v) PROVE HoldInv'
  BY <1>1, AddElementHolds
<1>2. ASSUME NEW l \in Lists, NEW m \in Lists, intersection(l, m) PROVE HoldInv'
  BY <1>2, IntersectionHolds
<1>3. CASE skipElement
  BY <1>3, SkipElementHolds
<1>4. CASE takeElement
  BY <1>4, TakeElementHolds
<1>5. CASE leaveNodes
  BY <1>5, LeaveNodesHolds
<1>6. CASE endIntersection
  BY <1>6, EndIntersectionHolds
<1>7. ASSUME NEW l \in Lists, write2file(l) PROVE HoldInv'
  BY <1>7, Write2fileHolds
<1>8. ASSUME NEW l \in Lists, copyAndMerge(l) PROVE HoldInv'
  BY <1>8, CopyAndMergeHolds
<1>9. ASSUME NEW l \in Lists, readFromFile(l) PROVE HoldInv'
  BY <1>9, ReadFromFileHolds
<1>10. ASSUME NEW l \in Lists, deleteList(l) PROVE HoldInv'
  BY <1>10, DeleteListHolds
<1>11. CASE readFromFileAndMerge
  BY <1>11, ReadFromFileAndMergeHolds
<1>12. CASE loadElement
  BY <1>12, LoadElementHolds
<1>13. CASE UNCHANGED listVars
  BY <1>13 DEF listVars, HoldInv, Holds, WalkHolds, Found, Left
<1>. QED
  BY <1>1, <1>2, <1>3, <1>4, <1>5, <1>6, <1>7, <1>8, <1>9, <1>10, <1>11, <1>12, <1>13
  DEF LinkListNext

\* What ascends over a finite set of numbers is the set in order.
LEMMA AscendsInOrder ==
    ASSUME NEW S \in SUBSET Nat, NEW s, Ascends(s, S)
    PROVE  s = InOrder(S) /\ Len(s) = Cardinality(S)
<1>1. s \in Seq(Nat) /\ ToSet(s) = S /\ \A i, j \in 1 .. Len(s) : i < j => s[i] < s[j]
  BY Zenon DEF Ascends
<1>2. s = Enumeration(S) /\ Len(s) = Cardinality(S)
  BY <1>1, EnumerationUnique
<1>3. Enumeration(S) = InOrder(S)
  BY Zenon DEF Enumeration, InOrder, Rank, LowerThan
<1>. QED  BY <1>2, <1>3

\* What the invariant says of the lists between operations.
LEMMA HoldInvListsHold == HoldInv => ListsHold
<1> SUFFICES ASSUME HoldInv PROVE ListsHold
  OBVIOUS
<1>1. ASSUME listPc = "run", NEW l \in Lists
      PROVE  FlattenSeq(nodes[l]) = InOrder(held[l]) /\ nodeCount[l] = Cardinality(held[l])
  <2>1. Holds(l) /\ held[l] \in SUBSET Nat
    BY <1>1 DEF HoldInv
  <2>2. Ascends(FlattenSeq(nodes[l]), held[l]) /\ nodeCount[l] = Len(FlattenSeq(nodes[l]))
    BY <2>1, Zenon DEF Holds
  <2>3. FlattenSeq(nodes[l]) = InOrder(held[l]) /\ Len(FlattenSeq(nodes[l])) = Cardinality(held[l])
    BY <2>1, <2>2, AscendsInOrder, Zenon
  <2>. QED  BY <2>2, <2>3, Zenon
<1>2. ASSUME ~unsorted, NEW i \in DOMAIN ret, NEW j \in DOMAIN ret, i < j PROVE ret[i] <= ret[j]
  <2>1. NotDescending(ret)
    BY <1>2 DEF HoldInv
  <2>. QED  BY <1>2, <2>1 DEF NotDescending
<1>. QED  BY <1>1, <1>2 DEF ListsHold

\* addElement, intersection and write2file: between operations a list holds, in
\* ascending order, what was added to it or is common to it and the lists it was
\* intersected with, and nodeCount is their number; copyAndMerge keeps a vector of
\* such lists ascending.
THEOREM ListsAreHeld == LinkListSpec => []ListsHold
<1>1. LinkListInit => ListInv /\ HoldInv
  BY InitListInv, InitHoldInv
<1>2. ListInv /\ HoldInv /\ [LinkListNext]_listVars => (ListInv /\ HoldInv)'
  BY LinkListNextKeeps, LinkListNextHolds
<1>3. ListInv /\ HoldInv => ListsHold
  BY HoldInvListsHold
<1>. QED  BY <1>1, <1>2, <1>3, PTL DEF LinkListSpec

=============================================================================
