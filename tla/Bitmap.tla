------------------------------- MODULE Bitmap -------------------------------
(***************************************************************************)
(* Bitmap of Util/bitmap.h and bitmap.cpp, and BloomFilter of              *)
(* Util/bloomfilter.h, which owns one. A word of a bitmap is the set of    *)
(* its one bits; bits and words are numbered from 0. The widths are        *)
(* parameters (the code's byte has 8 bits and its word 4 bytes), so that   *)
(* clear, which counts words as bytes, and num2pos, which works byte by    *)
(* byte, keep their shape on a small word.                                 *)
(***************************************************************************)
EXTENDS Naturals, Sequences, SequencesExt, FiniteSets, FiniteSetsExt

CONSTANTS
    ByteBits, WordBytes,
    Maps,         \* plain bitmaps
    BitSizes,     \* [Maps -> Nat]: the constructor's argument
    Filters,      \* Bloom filters
    FilterSizes,  \* [Filters -> [elementNum, hashFuncNum]]
    BitPositions, \* the bits that are set in plain bitmaps
    Elems,        \* the elements of filters
    HashCode,     \* [0 .. k -> [Elems -> Nat]]: the function setHashFunc binds at an index
    MaxBitOps,    \* bound on the number of operations
    NoFile

WordBits == ByteBits * WordBytes

\* init: floor(hashFuncNum / ln 2 * elementNum) bits.
FilterBits(f) == (f.hashFuncNum * f.elementNum * 14427) \div 10000

\* The constructor of Bitmap asserts that there are bits.
ASSUME BitmapAssumption ==
  /\ ByteBits \in Nat \ {0} /\ WordBytes \in Nat \ {0} /\ BitPositions \subseteq Nat
  /\ Maps \cap Filters = {}
  /\ \A m \in Maps : BitSizes[m] \in Nat \ {0}
  /\ \A f \in Filters : /\ FilterSizes[f] \in [elementNum : Nat, hashFuncNum : Nat]
                        /\ FilterBits(FilterSizes[f]) > 0
                        /\ \A i \in 0 .. FilterSizes[f].hashFuncNum - 1, e \in Elems :
                             HashCode[i][e] \in Nat
  /\ NoFile \notin [elementNum : Nat, hashFuncNum : Nat]

VARIABLES
    bitmaps,    \* of each bitmap and each filter: bitSize, elemSize, byteArray
    filters,    \* elementNum, hashFuncNum and the bound indexes of hashFuncVec
    bitmapFile, \* what was dumped last
    added,      \* history: the bits set, or the elements inserted, since the last clear
    cleared,    \* history: the bits a clear() of the bitmap left as they were
    bitOps

bitVars == <<bitmaps, filters, bitmapFile, added, cleared, bitOps>>

\* The constructor rounds the size up to words.
Bits(bitSize) ==
  LET n == (bitSize + WordBits - 1) \div WordBits
  IN [bitSize |-> n * WordBits, elemSize |-> n, byteArray |-> [i \in 0 .. n - 1 |-> {}]]

BitmapInit ==
  /\ filters = [f \in Filters |->
                  [elementNum |-> FilterSizes[f].elementNum,
                   hashFuncNum |-> FilterSizes[f].hashFuncNum, hashFuncVec |-> {}]]
  /\ bitmaps = [x \in Maps \cup Filters |->
                  Bits(IF x \in Maps THEN BitSizes[x] ELSE FilterBits(FilterSizes[x]))]
  /\ bitmapFile = NoFile /\ bitOps = 0
  /\ added = [x \in Maps \cup Filters |-> {}] /\ cleared = [m \in Maps |-> {}]

-----------------------------------------------------------------------------
(* Bitmap.                                                                 *)

\* Mutant: the last bit is taken for one outside.
setBitShort(bm, P) ==
  [bm EXCEPT !.byteArray = [i \in DOMAIN @ |->
     @[i] \cup {p % WordBits : p \in {q \in P : q + 1 < bm.bitSize /\ q \div WordBits = i}}]]

\* setBit with each position of P; a position beyond the end is ignored.
setBitOf(bm, P) ==
  [bm EXCEPT !.byteArray = [i \in DOMAIN @ |->
     @[i] \cup {p % WordBits : p \in {q \in P : q < bm.bitSize /\ q \div WordBits = i}}]]

getBit(bm, pos) ==
  pos < bm.bitSize /\ pos % WordBits \in bm.byteArray[pos \div WordBits]

\* The table holds the position of the one bit of a byte.
num2pos_table(byte) == CHOOSE p \in 0 .. ByteBits - 1 : byte = {p}

\* num >>= 8 as long as the one bit is beyond the byte.
Beyond(t) == \E b \in t.num : b >= ByteBits
Rest(t) == {b - ByteBits : b \in {c \in t.num : c >= ByteBits}}

\* Mutant: the bytes shifted out are not counted.
ShiftedOnly(t) == IF Beyond(t) THEN [num |-> Rest(t), ret |-> t.ret] ELSE t

Shifted(t) == IF Beyond(t) THEN [num |-> Rest(t), ret |-> t.ret + ByteBits] ELSE t

\* The table is consulted when each byte but the last has had its turn.
Counted(t) == t.ret + num2pos_table(t.num)

num2pos(num) ==
  LET turn[k \in 0 .. WordBytes] ==
        IF k = 0 THEN [num |-> num, ret |-> 0] ELSE Shifted(turn[k - 1])
  IN Counted(turn[WordBytes])

\* The lowest one bit, tmp & (-tmp), is taken off the word: a turn for each.
TakeLowest(i, t) ==
  [pos |-> Append(t.pos, i * WordBits + num2pos({Min(t.tmp)})), tmp |-> t.tmp \ {Min(t.tmp)}]

ofWord(i, word, pos) ==
  LET turn[k \in 0 .. Cardinality(word)] ==
        IF k = 0 THEN [pos |-> pos, tmp |-> word] ELSE TakeLowest(i, turn[k - 1])
  IN turn[Cardinality(word)].pos

getOnePosition(bm) ==
  LET pos[i \in 0 .. bm.elemSize] ==
        IF i = 0 THEN <<>> ELSE ofWord(i - 1, bm.byteArray[i - 1], pos[i - 1])
  IN pos[bm.elemSize]

Steps == bitOps < MaxBitOps /\ bitOps' = bitOps + 1

setBit(m, pos) ==
  /\ Steps /\ pos < bitmaps[m].bitSize
  /\ bitmaps' = [bitmaps EXCEPT ![m] = setBitOf(@, {pos})]
  /\ added' = [added EXCEPT ![m] = @ \cup {pos}]
  /\ UNCHANGED <<filters, bitmapFile, cleared>>

\* merge and copy stop at the end of the shorter bitmap.
Shared(m, n) == 0 .. Min({bitmaps[m].elemSize, bitmaps[n].elemSize}) - 1
Within(m, n) == 0 .. Cardinality(Shared(m, n)) * WordBits - 1

mergeBits(m, n) ==
  /\ Steps /\ m # n
  /\ bitmaps' = [bitmaps EXCEPT ![m].byteArray =
                   [i \in DOMAIN @ |-> IF i \in Shared(m, n)
                                       THEN @[i] \cup bitmaps[n].byteArray[i] ELSE @[i]]]
  /\ added' = [added EXCEPT ![m] = @ \cup (added[n] \cap Within(m, n))]
  /\ cleared' = [cleared EXCEPT ![m] = @ \cup (cleared[n] \cap Within(m, n))]
  /\ UNCHANGED <<filters, bitmapFile>>

copy(m, n) ==
  /\ Steps /\ m # n
  /\ bitmaps' = [bitmaps EXCEPT ![m].byteArray =
                   [i \in DOMAIN @ |-> IF i \in Shared(m, n)
                                       THEN bitmaps[n].byteArray[i] ELSE @[i]]]
  /\ added' = [added EXCEPT ![m] = (@ \ Within(m, n)) \cup (added[n] \cap Within(m, n))]
  /\ cleared' = [cleared EXCEPT ![m] = (@ \ Within(m, n)) \cup (cleared[n] \cap Within(m, n))]
  /\ UNCHANGED <<filters, bitmapFile>>

\* memset gets the number of words as its number of bytes.
Memset(bm) == 0 .. bm.elemSize * ByteBits - 1

clear(m) ==
  LET bm == bitmaps[m]
  IN /\ Steps
     /\ bitmaps' = [bitmaps EXCEPT ![m].byteArray =
                      [i \in DOMAIN @ |-> {b \in @[i] : i * WordBits + b \notin Memset(bm)}]]
     /\ added' = [added EXCEPT ![m] = {}]
     /\ cleared' = [cleared EXCEPT ![m] = @ \cup added[m]]
     /\ UNCHANGED <<filters, bitmapFile>>

\* dump2file on a descriptor writes bitSize, elemSize and the words; on a FILE no bitSize.
DumpOf(x, kind) ==
  LET bm == bitmaps[x]
  IN IF kind = "fd" THEN bm ELSE [elemSize |-> bm.elemSize, byteArray |-> bm.byteArray]

\* readFromFile: a new array of the size of the file.
Loaded(kind, dump) ==
  [bitSize |-> IF kind = "fd" THEN dump.bitSize ELSE dump.elemSize * WordBits,
   elemSize |-> dump.elemSize, byteArray |-> dump.byteArray]

dump2file(m, kind) ==
  /\ Steps
  /\ bitmapFile' = [kind |-> kind, filter |-> NoFile, bitmap |-> DumpOf(m, kind),
                    added |-> added[m], cleared |-> cleared[m]]
  /\ UNCHANGED <<bitmaps, filters, added, cleared>>

readBitmap(m) ==
  /\ Steps /\ bitmapFile # NoFile /\ bitmapFile.filter = NoFile
  /\ bitmaps' = [bitmaps EXCEPT ![m] = Loaded(bitmapFile.kind, bitmapFile.bitmap)]
  /\ added' = [added EXCEPT ![m] = bitmapFile.added]
  /\ cleared' = [cleared EXCEPT ![m] = bitmapFile.cleared]
  /\ UNCHANGED <<filters, bitmapFile>>

-----------------------------------------------------------------------------
(* BloomFilter. merge and copyBitmap pass a pointer where Bitmap wants a   *)
(* reference and compile for no element type: they are left out.           *)

Indexes(f) == 0 .. filters[f].hashFuncNum - 1

\* The caller binds a function at each index before it uses the filter.
setHashFunc(f) ==
  /\ Steps /\ filters[f].hashFuncVec # Indexes(f)
  /\ filters' = [filters EXCEPT ![f].hashFuncVec = Indexes(f)]
  /\ UNCHANGED <<bitmaps, bitmapFile, added, cleared>>

Bound(f) == filters[f].hashFuncVec = Indexes(f)

HashBit(f, e, i) == (HashCode[i][e] + i) % bitmaps[f].bitSize

insertElement(f, e) ==
  /\ Steps /\ Bound(f)
  /\ bitmaps' = [bitmaps EXCEPT ![f] = setBitOf(@, {HashBit(f, e, i) : i \in Indexes(f)})]
  /\ added' = [added EXCEPT ![f] = @ \cup {e}]
  /\ UNCHANGED <<filters, bitmapFile, cleared>>

containElement(f, e) == \A i \in Indexes(f) : getBit(bitmaps[f], HashBit(f, e, i))

dumpFilter(f, kind) ==
  /\ Steps
  /\ bitmapFile' = [kind |-> kind,
                    filter |-> [elementNum |-> filters[f].elementNum,
                                hashFuncNum |-> filters[f].hashFuncNum],
                    bitmap |-> DumpOf(f, kind), added |-> added[f]]
  /\ UNCHANGED <<bitmaps, filters, added, cleared>>

\* hashFuncVec.resize keeps the functions bound below the new size.
readFilter(f) ==
  /\ Steps /\ bitmapFile # NoFile /\ bitmapFile.filter # NoFile
  /\ LET n == bitmapFile.filter.hashFuncNum
     IN filters' = [filters EXCEPT ![f] =
                      [elementNum |-> bitmapFile.filter.elementNum, hashFuncNum |-> n,
                       hashFuncVec |-> @.hashFuncVec \cap (0 .. n - 1)]]
  /\ bitmaps' = [bitmaps EXCEPT ![f] = Loaded(bitmapFile.kind, bitmapFile.bitmap)]
  /\ added' = [added EXCEPT ![f] = bitmapFile.added]
  /\ UNCHANGED <<bitmapFile, cleared>>

BitmapNext ==
  \/ \E m \in Maps, pos \in BitPositions : setBit(m, pos)
  \/ \E m, n \in Maps : mergeBits(m, n) \/ copy(m, n)
  \/ \E m \in Maps : clear(m) \/ readBitmap(m)
  \/ \E m \in Maps, kind \in {"fd", "FILE"} : dump2file(m, kind)
  \/ \E f \in Filters : setHashFunc(f) \/ readFilter(f)
  \/ \E f \in Filters, e \in Elems : insertElement(f, e)
  \/ \E f \in Filters, kind \in {"fd", "FILE"} : dumpFilter(f, kind)

BitmapSpec == BitmapInit /\ [][BitmapNext]_bitVars

-----------------------------------------------------------------------------
(* Properties.                                                             *)

(* getOnePosition of Bitmap: its positions ascend and hold every bit set   *)
(* since the last clear, over merges, copies and files into a bitmap of    *)
(* another size; what else they hold was set before a clear and lies       *)
(* beyond the first byte, which clear resets in every bitmap.              *)
BitmapExact ==
  \A m \in Maps :
    LET s == getOnePosition(bitmaps[m])
    IN /\ \A i, j \in DOMAIN s : i < j => s[i] < s[j]
       /\ added[m] \subseteq ToSet(s)
       /\ ToSet(s) \ added[m] \subseteq {p \in cleared[m] : p >= ByteBits}
       /\ ToSet(s) \subseteq 0 .. bitmaps[m].bitSize - 1

(* containElement of BloomFilter never denies an element that was          *)
(* inserted, also in a filter that was built with other sizes and read it  *)
(* from a file, once its hash functions are bound again.                   *)
BloomNoFalseNegative ==
  \A f \in Filters : Bound(f) => \A e \in added[f] : containElement(f, e)

=============================================================================
