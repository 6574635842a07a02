------------------------------ MODULE TrieIndex ------------------------------
(***************************************************************************)
(* One Trie of an index: the index thread adds items, writes the trie to   *)
(* its file and deletes it, while the command thread walks the same nodes  *)
(* in queryFromMem. The two share no lock. A node is named by its level    *)
(* and the digits above it, as a number; the digits are the bytes of a key *)
(* in the code and below Base here. The values of a trie are the positions *)
(* 1, 2, ... of its flows, in the order of arrival.                        *)
(***************************************************************************)
EXTENDS Naturals, Sequences, FiniteSets, SequencesExt

CONSTANTS
  Base,                \* MAX_PER_NODE
  Depth,               \* sizeof(KEY) * 8 / BITS_PER_NODE
  WordBits,            \* the bits of a word of the bitmap
  ELEM_NUM_EACH_NODE,  \* the values that a node of a LinkList holds
  Keys,                \* keys that are added
  Ranges,              \* pairs begin, end that are queried
  JunkPositions,       \* what a new bitPosition may hold before it is filled
  JunkValues,          \* what the data of a new LinkNode may hold before it is written
  MaxItems,            \* bound on the items added
  MaxQueries,          \* bound on the queries of the trie in memory
  NULL

Digit == 0 .. Base - 1
Level == 0 .. Depth - 1

\* How many prefixes of l digits there are.
PrefixCount[l \in 0 .. Depth] == IF l = 0 THEN 1 ELSE PrefixCount[l - 1] * Base

ASSUME TrieAssumption ==
  /\ Base \in Nat \ {0, 1} /\ Depth \in Nat \ {0}
  /\ WordBits \in Nat \ {0} /\ ELEM_NUM_EACH_NODE \in Nat \ {0}
  /\ Keys \subseteq 0 .. PrefixCount[Depth] - 1
  /\ Ranges \subseteq (0 .. PrefixCount[Depth] - 1) \X (0 .. PrefixCount[Depth] - 1)
  /\ JunkPositions \subseteq [1 .. Base -> Digit] /\ JunkValues \subseteq Nat
  /\ MaxItems \in Nat /\ MaxQueries \in Nat /\ NULL \notin Nat /\ NULL \notin Seq(Nat)

VARIABLES
  child,    \* per node the digits with a child, or in a leaf with a list
  bits,     \* per node the bits of its bitmap
  cache,    \* per node bitPosition: NULL or the entries of it that are filled
  fill,     \* per thread the bitPosition it is computing, or NULL
  lists,    \* per key the values of its LinkList that are complete
  ins,      \* the key that addItem is adding, or NULL
  slot,     \* addElement: what is done of the new value in its node
  items,    \* history: the key of each value that addItem was given
  pc,       \* index thread: run, open, write, written, freed or crashed
  bq,       \* write2file: the nodes still to be written
  pos,      \* write2file: the offset computed for the next child
  file,     \* write2file: what was written, by its place in the file
  length,   \* write2file: the bytes written
  intact,   \* history: the index thread read no incomplete positions
  q,        \* the query of the command thread; history: the matches before it
            \* began, whether it read incomplete positions, ran beside the
            \* write of the trie, read a value that was not there yet or met a
            \* node that had no child yet
  walk,     \* queryFromMem: its two queues and where it is in the first node
  merge,    \* queryFromMem: the list it merges and what it merged so far
  ret,      \* queryFromMem: the values found
  queries   \* queries started
tree == <<child, bits, lists, ins, slot, items>>
positions == <<cache, fill>>
written == <<bq, pos, file, length>>
query == <<q, walk, merge, ret, queries>>
vars == <<tree, positions, pc, written, intact, query>>

Node == UNION {{l} \X (0 .. PrefixCount[l] - 1) : l \in Level}
Root == <<0, 0>>
Child(n, d) == <<n[1] + 1, n[2] * Base + d>>
KeyOf(n, d) == n[2] * Base + d
isLeafNode(n) == n[1] = Depth - 1

(* The digit of key k that addItem looks at in level l, and the node.      *)
DigitOf(k, l) == (k \div PrefixCount[Depth - 1 - l]) % Base
NodeOf(k, l) == <<l, k \div PrefixCount[Depth - l]>>

elemCount(n) == Cardinality(child[n])

NoQuery ==
  [pc |-> "idle", lo |-> 0, hi |-> 0, before |-> {}, stale |-> FALSE, late |-> FALSE,
   torn |-> FALSE, empty |-> FALSE]
NoWalk == [cur |-> <<>>, next |-> <<>>, pos |-> 0, scan |-> FALSE]
NoMerge == [list |-> NULL, at |-> 1, idx |-> 1, temp |-> <<>>, step |-> "turn"]

Init ==
  /\ child = [n \in Node |-> {}] /\ bits = [n \in Node |-> {}]
  /\ cache = [n \in Node |-> NULL] /\ fill = [t \in {"index", "command"} |-> NULL]
  /\ lists = [k \in Keys |-> <<>>]
  /\ ins = NULL /\ slot = "none" /\ items = <<>>
  /\ pc = "run" /\ bq = <<>> /\ pos = 0 /\ file = NULL /\ length = 0 /\ intact = TRUE
  /\ q = NoQuery /\ walk = NoWalk
  /\ merge = NoMerge /\ ret = <<>> /\ queries = 0

-----------------------------------------------------------------------------
(* getBitPosition, step by step: bitPosition is the new array before any   *)
(* entry of it is filled, and the words of the bitmap are read one by one  *)
(* while addItem may set bits in them.                                     *)

Words == (Base + WordBits - 1) \div WordBits
Word(w) == {d \in Digit : w * WordBits <= d /\ d < (w + 1) * WordBits}

\* The position of the lowest bit of a word.
Lowest(S) == CHOOSE d \in S : \A e \in S : d <= e
\* Mutant: num2pos is one too high.
NextPos(S) == (Lowest(S) + 1) % Base
num2pos(S) == Lowest(S)

Alive == pc \in {"run", "open", "write", "written"}
Filling(t) == fill[t] # NULL /\ fill[t].at = "fill"

\* Thread t has found bitPosition of node n NULL, or does not ask.
startFill(t, n) ==
  /\ fill[t] = NULL
  /\ fill' = [fill EXCEPT ![t] = [node |-> n, at |-> "new", word |-> 0, todo |-> {}]]
  /\ UNCHANGED <<tree, cache, pc, written, intact, query>>

\* What writeLeafNode computes it keeps until it has used it.
Recounted(n) == pc = "write" /\ bq # <<>> /\ n = Head(bq) /\ isLeafNode(n)
Over(t, f) == IF t = "index" /\ Recounted(f.node) THEN [f EXCEPT !.at = "done", !.todo = {}] ELSE NULL
Still(t, f) == IF f.word = Words /\ f.todo = {} THEN Over(t, f) ELSE f

\* From now on both threads read the new array. If the other thread was filling
\* one for this node, nobody reads that array any more.
newBitPosition(t) ==
  /\ Alive /\ fill[t] # NULL /\ fill[t].at = "new"
  /\ LET n == fill[t].node IN
       /\ cache' = [cache EXCEPT ![n] = <<>>]
       /\ fill' = [u \in DOMAIN fill |->
            IF u = t THEN [fill[u] EXCEPT !.at = "fill"]
            ELSE IF Filling(u) /\ fill[u].node = n THEN Over(u, fill[u]) ELSE fill[u]]
  /\ UNCHANGED <<tree, pc, written, intact, query>>

readWord(t) ==
  /\ Alive /\ Filling(t) /\ fill[t].todo = {}
  /\ LET f == fill[t]
     IN fill' = [fill EXCEPT ![t] =
          Still(t, [f EXCEPT !.word = @ + 1, !.todo = bits[f.node] \intersect Word(f.word)])]
  /\ UNCHANGED <<tree, cache, pc, written, intact, query>>

storePosition(t) ==
  /\ Alive /\ Filling(t) /\ fill[t].todo # {}
  /\ LET f == fill[t] IN
       /\ cache' = [cache EXCEPT ![f.node] = Append(@, num2pos(f.todo))]
       /\ fill' = [fill EXCEPT ![t] = Still(t, [f EXCEPT !.todo = @ \ {Lowest(f.todo)}])]
  /\ UNCHANGED <<tree, pc, written, intact, query>>

(* The elemCount entries that are read of the array; those that are not    *)
(* filled are uninitialised memory.                                        *)
Incomplete(n) == cache[n] # NULL /\ Len(cache[n]) # elemCount(n)
bitPosition(n, junk) ==
  [i \in 1 .. elemCount(n) |-> IF i <= Len(cache[n]) THEN cache[n][i] ELSE junk[i]]

-----------------------------------------------------------------------------
(* The index thread adds items.                                            *)

addItem(k) ==
  /\ pc = "run" /\ ins = NULL /\ Len(items) < MaxItems
  /\ ins' = k /\ items' = Append(items, k)
  /\ UNCHANGED <<child, bits, lists, slot, positions, pc, written, intact, query>>

(* The first level on the way to k whose bit is not set.                   *)
Missing(k) == {l \in Level : DigitOf(k, l) \notin bits[NodeOf(k, l)]}
FirstMissing(k) == CHOOSE l \in Missing(k) : \A m \in Missing(k) : l <= m

(* A new node, or in a leaf a new list, and ++elemCount.                   *)
newChild ==
  /\ pc = "run" /\ ins # NULL /\ Missing(ins) # {}
  /\ LET l == FirstMissing(ins) n == NodeOf(ins, l) d == DigitOf(ins, l) IN
       /\ d \notin child[n]
       /\ child' = [child EXCEPT ![n] = @ \union {d}]
  /\ UNCHANGED <<bits, lists, ins, slot, items, positions, pc, written, intact, query>>

setBit ==
  /\ pc = "run" /\ ins # NULL /\ Missing(ins) # {}
  /\ LET l == FirstMissing(ins) n == NodeOf(ins, l) d == DigitOf(ins, l) IN
       /\ d \in child[n]
       /\ bits' = [bits EXCEPT ![n] = @ \union {d}]
  /\ UNCHANGED <<child, lists, ins, slot, items, positions, pc, written, intact, query>>

(* addElement: a full list, or an empty one, first gets a new node, which  *)
(* is linked before its data and its elem_num are written; the compiler    *)
(* orders the two writes of data[ elem_num++ ] = elem as it likes.         *)
Full(k) == Len(lists[k]) % ELEM_NUM_EACH_NODE = 0
Adds == pc = "run" /\ ins # NULL /\ Missing(ins) = {}
newNode ==
  /\ Adds /\ Full(ins) /\ slot = "none"
  /\ slot' = "linked"
  /\ UNCHANGED <<child, bits, lists, ins, items, positions, pc, written, intact, query>>

addElement ==
  /\ lists' = [lists EXCEPT ![ins] = Append(@, Len(items))]
  /\ ins' = NULL /\ slot' = "none"
Half(write, other) ==
  /\ Adds /\ (slot = "none" => ~Full(ins))
  /\ \/ slot \in {"none", "linked"} /\ slot' = write /\ UNCHANGED <<lists, ins>>
     \/ slot = other /\ addElement
  /\ UNCHANGED <<child, bits, items, positions, pc, written, intact, query>>
writeData == Half("data", "counted")
countElement == Half("counted", "data")

-----------------------------------------------------------------------------
(* write2file, breadth first. Sizes are those of the fields in the file:   *)
(* isLeaf 1, elemCount 2, the bitmap its length and its 32-bit words, an   *)
(* offset 4, a list its length and 8 for each value.                       *)

\* Mutant: the words of the bitmap are forgotten.
NoBitmap(n) == 3 + 4 + 4 * elemCount(n)
HeaderSize(n) == 3 + 4 + 4 * Words + 4 * elemCount(n)
ListSize(k) == 4 + 8 * Len(lists[k])

SumOf(s) ==
  LET sum[i \in 0 .. Len(s)] == IF i = 0 THEN 0 ELSE sum[i - 1] + s[i]
  IN sum[Len(s)]

(* The bits that are set, from low to high.                                *)
getOnePositions(S) ==
  [i \in 1 .. Cardinality(S) |-> CHOOSE d \in S : Cardinality({e \in S : e < d}) = i - 1]

(* A leaf adds up its lists by bitPosition or, if it has few, by its bits. *)
CountsByPosition(n) == isLeafNode(n) /\ elemCount(n) >= Base \div 2
SizePositions(n, junk) ==
  IF CountsByPosition(n) THEN bitPosition(n, junk) ELSE getOnePositions(bits[n])
getSizeOfFile(n, junk) ==
  HeaderSize(n) +
  IF ~isLeafNode(n) THEN 0
  ELSE LET s == SizePositions(n, junk)
       IN SumOf([i \in DOMAIN s |-> ListSize(KeyOf(n, s[i]))])

(* Reading the size of a leaf dereferences each of its lists.              *)
SizeReadable(n, junk) ==
  isLeafNode(n) => ToSet(SizePositions(n, junk)) \subseteq child[n]

(* The nodes whose bitPosition the index thread reads next. It computes    *)
(* what is NULL; then an action reads them at one moment, with anything in *)
(* the entries that are not filled, which covers all that a loop over the  *)
(* entries can see while the other thread replaces or fills the array.     *)
Sized(S) == {n \in S : CountsByPosition(n)}
Reads ==
  CASE pc = "open" -> Sized({Root})
    [] pc = "write" /\ bq # <<>> /\ ~isLeafNode(Head(bq)) ->
         {Head(bq)} \union Sized({Child(Head(bq), d) : d \in child[Head(bq)]})
    [] pc = "written" -> Node
    [] OTHER -> {}
ToCompute == {n \in Reads : elemCount(n) > 0 /\ cache[n] = NULL}
Ready == fill["index"] = NULL /\ ToCompute = {}
Intact(S) == intact' = (intact /\ ~\E n \in S : Incomplete(n))

computePositions == \E n \in ToCompute : startFill("index", n)
recountLeaf ==
  /\ pc = "write" /\ bq # <<>> /\ isLeafNode(Head(bq))
  /\ startFill("index", Head(bq))

crash == pc' = "crashed" /\ UNCHANGED <<tree, positions, written, query>>

fopen ==
  /\ pc = "run" /\ ins = NULL
  /\ pc' \in {"open", "written"}   \* or it fails
  /\ UNCHANGED <<tree, positions, written, intact, query>>

write2file(junk) ==
  /\ pc = "open" /\ Ready /\ Intact(Reads)
  /\ \/ ~SizeReadable(Root, junk) /\ crash
     \/ /\ SizeReadable(Root, junk)
        /\ pc' = "write" /\ bq' = <<Root>> /\ pos' = getSizeOfFile(Root, junk)
        /\ file' = <<>> /\ length' = 0
        /\ UNCHANGED <<tree, positions, query>>

\* The file f after an fwrite of part.
Put(part, f) == [a \in DOMAIN part \union DOMAIN f |-> IF a \in DOMAIN part THEN part[a] ELSE f[a]]

writeInterNode(junk) ==
  /\ pc = "write" /\ bq # <<>> /\ ~isLeafNode(Head(bq)) /\ Ready /\ Intact(Reads)
  /\ LET cur == Head(bq)
         s == bitPosition(cur, junk)
         c == [i \in DOMAIN s |-> Child(cur, s[i])]
         size == [i \in DOMAIN s |-> getSizeOfFile(c[i], junk)]
         offset == [i \in DOMAIN s |-> pos + SumOf(SubSeq(size, 1, i - 1))]
         ok == ToSet(s) \subseteq child[cur] /\ \A i \in DOMAIN s : SizeReadable(c[i], junk)
     IN \/ ~ok /\ crash
        \/ /\ ok
           /\ bq' = Tail(bq) \o c
           /\ pos' = pos + SumOf(size)
           /\ file' = Put([a \in {length} |->
                         [leaf |-> FALSE, set |-> getOnePositions(bits[cur]), off |-> offset]], file)
           /\ length' = length + HeaderSize(cur)
           /\ UNCHANGED <<tree, positions, pc, query>>

(* A leaf, which has recomputed bitPosition, writes where its lists start  *)
(* relative to the end of its header, then its lists, and frees them; a    *)
(* position that comes twice finds its list empty the second time.         *)
writeLeafNode(junk) ==
  /\ pc = "write" /\ bq # <<>> /\ isLeafNode(Head(bq))
  /\ fill["index"] # NULL /\ fill["index"].at = "done" /\ Intact({Head(bq)})
  /\ LET cur == Head(bq)
         s == bitPosition(cur, junk)
         size == [i \in DOMAIN s |-> ListSize(KeyOf(cur, s[i]))]
         offset == [i \in DOMAIN s |-> SumOf(SubSeq(size, 1, i - 1))]
         list == [i \in DOMAIN s |->
                    IF \E j \in 1 .. i - 1 : s[j] = s[i] THEN <<>> ELSE lists[KeyOf(cur, s[i])]]
         place == [i \in DOMAIN s |-> length + HeaderSize(cur)
                     + SumOf([j \in 1 .. i - 1 |-> 4 + 8 * Len(list[j])])]
     IN \/ ~(ToSet(s) \subseteq child[cur]) /\ crash
        \/ /\ ToSet(s) \subseteq child[cur]
           /\ bq' = Tail(bq)
           /\ file' = Put([a \in {length} |->
                            [leaf |-> TRUE, set |-> getOnePositions(bits[cur]), off |-> offset]],
                      Put([a \in {place[i] : i \in DOMAIN s} |->
                            [list |-> list[CHOOSE i \in DOMAIN s : place[i] = a]]], file))
           /\ length' = length + HeaderSize(cur) + SumOf([i \in DOMAIN s |-> 4 + 8 * Len(list[i])])
           /\ lists' = [k \in Keys |-> IF \E i \in DOMAIN s : KeyOf(cur, s[i]) = k
                                       THEN <<>> ELSE lists[k]]
           /\ fill' = [fill EXCEPT !["index"] = NULL]
           /\ UNCHANGED <<child, bits, ins, slot, items, cache, pc, pos, query>>

fclose ==
  /\ pc = "write" /\ bq = <<>>
  /\ pc' = "written"
  /\ UNCHANGED <<tree, positions, written, intact, query>>

(* ~Trie deletes what it reaches by bitPosition: a position without child  *)
(* is dereferenced, one that comes twice is deleted twice. A query that is *)
(* still under way walks over freed memory from then on.                   *)
destroy(junk) ==
  /\ pc = "written" /\ Ready /\ Intact(Reads)
  /\ LET ok == \A n \in Node :
                 ToSet(bitPosition(n, junk)) \subseteq child[n] /\ IsInjective(bitPosition(n, junk))
     IN \/ ~ok /\ crash
        \/ /\ ok
           /\ pc' = "freed"
           /\ q' = IF q.pc = "idle" THEN q ELSE [q EXCEPT !.pc = "dangling"]
           /\ child' = [n \in Node |-> {}] /\ bits' = [n \in Node |-> {}]
           /\ cache' = [n \in Node |-> NULL] /\ fill' = [t \in DOMAIN fill |-> NULL]
           /\ UNCHANGED <<lists, ins, slot, items, written, walk, merge, ret, queries>>

-----------------------------------------------------------------------------
(* queryFromMem, turn by turn of its loops.                                *)

\* The values of the flows of a range, and those whose addItem is over.
Found(lo, hi) == {v \in DOMAIN items : lo <= items[v] /\ items[v] <= hi}
Done == IF ins = NULL THEN DOMAIN items ELSE DOMAIN items \ {Len(items)}

queryFromMem(r) ==
  /\ Alive /\ q.pc = "idle" /\ queries < MaxQueries
  /\ queries' = queries + 1
  /\ q' = [NoQuery EXCEPT !.pc = "walk", !.lo = r[1], !.hi = r[2],
                          !.before = Found(r[1], r[2]) \intersect Done]
  /\ walk' = [NoWalk EXCEPT !.cur = <<Root>>]
  /\ UNCHANGED <<tree, positions, pc, written, intact, merge, ret>>

PrefixIn(l, k) == k \div PrefixCount[Depth - 1 - l]

Walks == Alive /\ q.pc \in {"walk", "spin"} /\ merge.list = NULL /\ fill["command"] = NULL
Visits == Walks /\ walk.cur # <<>>
first == Head(walk.cur)

\* getOnePosition( pos ) computes bitPosition on first use.
getBitPosition ==
  /\ Visits /\ walk.pos < elemCount(first) /\ cache[first] = NULL
  /\ startFill("command", first)

\* What it may return.
PositionReadable == cache[first] # NULL /\ walk.pos < elemCount(first)
OnePosition == {bitPosition(first, junk)[walk.pos + 1] : junk \in JunkPositions}
Seen == [q EXCEPT !.stale = @ \/ Incomplete(first), !.late = @ \/ pc # "run"]
LateSeen == [q EXCEPT !.late = @ \/ pc # "run"]

popNode == [walk EXCEPT !.cur = Tail(@), !.pos = 0, !.scan = FALSE]

\* The loop up to the first position that is not below the range, or up to the end.
seek(d) ==
  /\ Visits /\ ~walk.scan /\ PositionReadable
  /\ q' = Seen
  /\ walk' = IF KeyOf(first, d) >= PrefixIn(first[1], q.lo)
             THEN [walk EXCEPT !.scan = TRUE] ELSE [walk EXCEPT !.pos = @ + 1]
  /\ UNCHANGED <<tree, positions, pc, written, intact, merge, ret, queries>>
endOfNode ==
  /\ Visits /\ walk.pos >= elemCount(first)
  /\ q' = [LateSeen EXCEPT !.empty = @ \/ (~walk.scan /\ elemCount(first) = 0)]
  /\ walk' = IF walk.scan THEN popNode ELSE [walk EXCEPT !.scan = TRUE]
  /\ UNCHANGED <<tree, positions, pc, written, intact, merge, ret, queries>>

\* Mutant: the prefix at the end of the range is left out.
FromEnd(n, d, k) == KeyOf(n, d) >= k
Beyond(n, d, k) == KeyOf(n, d) > k

(* The loop up to the first position that is above the range.              *)
visitInterNode(d) ==
  /\ Visits /\ walk.scan /\ PositionReadable /\ ~isLeafNode(first)
  /\ \/ /\ Beyond(first, d, PrefixIn(first[1], q.hi))
        /\ walk' = popNode /\ q' = [Seen EXCEPT !.pc = "walk"]
     \/ /\ ~Beyond(first, d, PrefixIn(first[1], q.hi)) /\ d \in child[first]
        /\ walk' = [walk EXCEPT !.next = Append(@, Child(first, d)), !.pos = @ + 1]
        /\ q' = [Seen EXCEPT !.pc = "walk"]
     \/ \* a NULL child is skipped without ++pos: the loop turns again
        /\ ~Beyond(first, d, PrefixIn(first[1], q.hi)) /\ d \notin child[first]
        /\ q' = [Seen EXCEPT !.pc = "spin"] /\ UNCHANGED walk
  /\ UNCHANGED <<tree, positions, pc, written, intact, merge, ret, queries>>

(* The nodes of the list of key k, and how many of its values are counted. *)
Nodes(k) ==
  (Len(lists[k]) + ELEM_NUM_EACH_NODE - 1) \div ELEM_NUM_EACH_NODE
  + (IF k = ins /\ slot # "none" /\ Full(k) THEN 1 ELSE 0)
Counted(k) == Len(lists[k]) + (IF k = ins /\ slot = "counted" THEN 1 ELSE 0)

visitLeafNode(d) ==
  /\ Visits /\ walk.scan /\ PositionReadable /\ isLeafNode(first)
  /\ \/ /\ Beyond(first, d, q.hi)
        /\ walk' = popNode /\ q' = Seen /\ UNCHANGED merge
     \/ /\ ~Beyond(first, d, q.hi) /\ d \in child[first]
        /\ q' = Seen
        /\ \/ /\ Nodes(KeyOf(first, d)) = 0
              /\ walk' = [walk EXCEPT !.pos = @ + 1] /\ UNCHANGED merge
           \/ /\ Nodes(KeyOf(first, d)) > 0
              /\ merge' = [NoMerge EXCEPT !.list = KeyOf(first, d)] /\ UNCHANGED walk
     \/ \* getResult asserts that there is a list
        /\ ~Beyond(first, d, q.hi) /\ d \notin child[first]
        /\ q' = [Seen EXCEPT !.pc = "abort"] /\ UNCHANGED <<walk, merge>>
  /\ pc' = IF q'.pc = "abort" THEN "crashed" ELSE pc
  /\ UNCHANGED <<tree, positions, written, intact, ret, queries>>

(* The loop that merges the list into what was found so far. curA and idx2 *)
(* are at, the index of a value in the whole list.                         *)
Merges == Alive /\ q.pc = "walk" /\ merge.list # NULL
ListFreed == Nodes(merge.list) = 0
Stored(k, i) == i <= Len(lists[k]) \/ (k = ins /\ slot = "data")
Data ==
  LET k == merge.list i == merge.at
  IN IF i <= Len(lists[k]) THEN {lists[k][i]}
     ELSE IF Stored(k, i) THEN {Len(items)} ELSE JunkValues \union {Len(items)}
OldLeft == merge.idx <= Len(ret)

\* The value is read to compare it, and read again to take it. What it may be at
\* the second moment it may be at the first.
mergeTurn(v, w) ==
  /\ Merges /\ ~ListFreed /\ merge.step = "turn"
  /\ merge' = IF OldLeft /\ v > ret[merge.idx]
              THEN [merge EXCEPT !.temp = Append(@, ret[merge.idx]), !.idx = @ + 1]
              ELSE [merge EXCEPT !.temp = Append(@, w), !.step = "count"]
  /\ q' = [LateSeen EXCEPT !.torn = @ \/ ~Stored(merge.list, merge.at)]
  /\ UNCHANGED <<tree, positions, pc, written, intact, walk, ret, queries>>

\* idx2 >= curA->elem_num: a node that is full has no more in any case.
readElemNum ==
  /\ Merges /\ ~ListFreed /\ merge.step = "count" /\ merge.at % ELEM_NUM_EACH_NODE # 0
  /\ merge' = IF merge.at < Counted(merge.list)
              THEN [merge EXCEPT !.at = @ + 1, !.step = "turn"]
              ELSE [merge EXCEPT !.step = "next"]
  /\ q' = LateSeen
  /\ UNCHANGED <<tree, positions, pc, written, intact, walk, ret, queries>>

\* curA->next; if it is NULL the rest of what was found before follows.
nextNode ==
  /\ Merges /\ ~ListFreed
  /\ merge.step = "next" \/ (merge.step = "count" /\ merge.at % ELEM_NUM_EACH_NODE = 0)
  /\ LET m == (merge.at - 1) \div ELEM_NUM_EACH_NODE + 1   \* the nodes up to curA
     IN \/ /\ Nodes(merge.list) > m
           /\ merge' = [merge EXCEPT !.step = "turn", !.at = m * ELEM_NUM_EACH_NODE + 1]
           /\ UNCHANGED <<walk, ret>>
        \/ /\ Nodes(merge.list) <= m
           /\ ret' = merge.temp \o SubSeq(ret, merge.idx, Len(ret))
           /\ merge' = NoMerge /\ walk' = [walk EXCEPT !.pos = @ + 1]
  /\ q' = LateSeen
  /\ UNCHANGED <<tree, positions, pc, written, intact, queries>>

(* The other queue is the next level; the query returns when it is empty.  *)
nextLevel ==
  /\ Walks /\ walk.cur = <<>> /\ walk.next # <<>>
  /\ q' = LateSeen /\ walk' = [walk EXCEPT !.cur = walk.next, !.next = <<>>]
  /\ UNCHANGED <<tree, positions, pc, written, intact, merge, ret, queries>>
return ==
  /\ Walks /\ walk.cur = <<>> /\ walk.next = <<>>
  /\ q' = NoQuery /\ walk' = NoWalk /\ ret' = <<>>
  /\ UNCHANGED <<tree, positions, pc, written, intact, merge, queries>>

(* The list that is being merged has been written and its nodes freed.     *)
readFreed ==
  /\ Merges /\ ListFreed
  /\ q' = [q EXCEPT !.pc = "dangling", !.late = TRUE]
  /\ UNCHANGED <<tree, positions, pc, written, intact, walk, merge, ret, queries>>

-----------------------------------------------------------------------------
(* queryFromFile on a file that is complete. A node that was read is its   *)
(* prefix and its place; each level reads the headers of the next one.     *)

(* The positions of node n that a loop visits for prefixes from lo to hi:  *)
(* from the first that is not below lo up to the first that is above hi.   *)
First(s, S) ==
  IF ToSet(s) \cap S = {} THEN Len(s) + 1 ELSE SelectInSeq(s, LAMBDA d : d \in S)
Below(n, k) == {d \in Digit : KeyOf(n, d) < k}
Visited(n, s, lo, hi) ==
  LET from == First(s, Digit \ Below(n, lo))
      rest == SubSeq(s, from, Len(s))
  IN SubSeq(rest, 1, First(rest, Digit \ Below(n, hi + 1)) - 1)

\* The place among the positions s of node n at which the loops of a level begin.
From(n, s, lo) == First(s, Digit \ Below(n, lo))

Down(l, f, lo, hi) ==
  LET n == file[f.at]
      node == <<l, f.prefix>>
      seen == Visited(node, n.set, PrefixIn(l, lo), PrefixIn(l, hi))
  IN [j \in DOMAIN seen |->
        [prefix |-> f.prefix * Base + seen[j],
         at |-> n.off[From(node, n.set, PrefixIn(l, lo)) + j - 1]]]
Frontier(lo, hi) ==
  LET F[l \in Level] ==
        IF l = 0 THEN <<[prefix |-> 0, at |-> 0]>>
        ELSE FlattenSeq([i \in DOMAIN F[l - 1] |-> Down(l - 1, F[l - 1][i], lo, hi)])
  IN F[Depth - 1]

HeaderEnd(at) == at + 3 + 4 + 4 * Words + 4 * Len(file[at].set)

(* Reads the next list at r.fp, or whatever is there, and appends it.      *)
readFromFileAndMerge(r) ==
  IF r.fp \in DOMAIN file /\ "list" \in DOMAIN file[r.fp]
  THEN [fp |-> r.fp + 4 + 8 * Len(file[r.fp].list), ret |-> r.ret \o file[r.fp].list]
  ELSE [fp |-> NULL, ret |-> Append(r.ret, NULL)]

(* The leaf seeks its first list from where the file was read last.        *)
readLeaf(r, f, lo, hi) ==
  LET s == file[f.at].set
      node == <<Depth - 1, f.prefix>>
      from == From(node, s, lo)
      seen == Visited(node, s, lo, hi)
      read[i \in 0 .. Len(seen)] ==
        IF i = 0
        THEN [r EXCEPT !.fp = IF @ = NULL \/ from > Len(s) THEN NULL ELSE @ + file[f.at].off[from]]
        ELSE readFromFileAndMerge(read[i - 1])
  IN read[Len(seen)]

queryFromFile(lo, hi) ==
  LET F == Frontier(lo, hi)
      read[i \in 0 .. Len(F)] ==
        IF i = 0 THEN [fp |-> HeaderEnd(Last(F).at), ret |-> <<>>]
        ELSE readLeaf(read[i - 1], F[i], lo, hi)
  IN IF F = <<>> THEN <<>> ELSE read[Len(F)].ret

-----------------------------------------------------------------------------
GetBitPosition ==
  \E t \in {"index", "command"} :
    newBitPosition(t) \/ readWord(t) \/ storePosition(t)
IndexThread ==
  \/ \E k \in Keys : addItem(k)
  \/ newChild \/ setBit \/ newNode \/ writeData \/ countElement
  \/ fopen \/ computePositions \/ recountLeaf \/ fclose
  \/ \E junk \in JunkPositions :
       write2file(junk) \/ writeInterNode(junk) \/ writeLeafNode(junk) \/ destroy(junk)
CommandThread ==
  \/ \E r \in Ranges : queryFromMem(r)
  \/ getBitPosition \/ endOfNode \/ nextLevel \/ return \/ readFreed
  \/ Visits /\ PositionReadable /\ \E d \in OnePosition : seek(d) \/ visitInterNode(d) \/ visitLeafNode(d)
  \/ Merges /\ \E v, w \in Data : mergeTurn(v, w)
  \/ readElemNum \/ nextNode
Next == GetBitPosition \/ IndexThread \/ CommandThread
Spec == Init /\ [][Next]_vars

-----------------------------------------------------------------------------
(* Properties.                                                             *)

InOrder(S) ==
  [i \in 1 .. Cardinality(S) |-> CHOOSE d \in S : Cardinality({e \in S : e < d}) = i - 1]

(* A query of the trie in memory (Trie::queryFromMem) that read positions  *)
(* only from complete arrays and was over before the trie is written       *)
(* returns every flow of the range that was there when it began, although  *)
(* flows are added meanwhile. Unless it read a value between the moment    *)
(* addElement links or counts it and the moment it is written, it returns  *)
(* them in ascending order, once, and no flow above the range; and none    *)
(* below it, unless it met a node that addItem had made but not yet given  *)
(* a child.                                                                *)
MemQueryExact ==
  [][return /\ pc = "run" /\ ~q.stale /\ ~q.late
       => /\ q.before \subseteq ToSet(ret)
          /\ ~q.torn => /\ ToSet(ret) \subseteq Found(IF q.empty THEN 0 ELSE q.lo, q.hi)
                        /\ ret = InOrder(ToSet(ret))]_vars

(* What Trie::write2file lays out, Trie::queryFromFile reads back: for a   *)
(* range that meets one leaf it returns every flow of the range once, in   *)
(* the order of the keys and for a key in the order of the flows, provided *)
(* the index thread read complete positions only.                          *)
Before(v, w) == items[v] < items[w] \/ (items[v] = items[w] /\ v < w)
FileQueryExact ==
  (pc = "written" /\ file # NULL /\ intact) =>
    \A lo, hi \in 0 .. PrefixCount[Depth] - 1 :
      lo <= hi /\ Len(Frontier(lo, hi)) <= 1 =>
        LET found == queryFromFile(lo, hi)
        IN ToSet(found) = Found(lo, hi)
           /\ \A i, j \in DOMAIN found : i < j => Before(found[i], found[j])

(* The loop of queryFromMem that does not advance, its failing assertion   *)
(* and the NULL pointers of write2file and ~Trie all need a node whose     *)
(* bitPosition has fewer entries than the node has children: computed      *)
(* before a later flow set a bit, or not yet filled by the other thread.   *)
FailsOnlyIncomplete ==
  /\ pc = "crashed" => ~intact \/ q.pc = "abort"
  /\ q.pc \in {"spin", "abort"} => q.stale

(* assert( resultArray[idx] != NULL ) in LeafTrieNode::getResult.          *)
ResultsExist == q.pc # "abort"

=============================================================================
