-------------------------------- MODULE BTree --------------------------------
(***************************************************************************)
(* The B-tree that replaces the trie under the switch BTREE: insertion     *)
(* with its splits and the file. Its readers are no part of the model:     *)
(* LeafNode::readFromFile reads every list with LinkList::readFromFile,    *)
(* which does not return from a list that is not empty (module LinkList),  *)
(* and queryFromFile calls LinkList::merge, which is under #if 0.          *)
(* Nodes live in a heap and are named by their place in it. A key of an    *)
(* internal node is to be the greatest key below its child; a leaf has a   *)
(* list of values for each key. The values are 1, 2, ... in the order of   *)
(* insertion.                                                              *)
(***************************************************************************)
EXTENDS Naturals, Sequences, FiniteSets, SequencesExt

CONSTANTS
  MAX_PER_NODE,
  Key,
  Inputs,     \* sequences of keys that are inserted
  NoNode      \* the pointer NULL

ASSUME BTreeAssumption ==
  /\ MAX_PER_NODE \in Nat /\ MAX_PER_NODE >= 2 /\ MAX_PER_NODE % 2 = 0
  /\ Key \subseteq Nat /\ Inputs \subseteq Seq(Key)
  \* NULL is no place in the heap.
  /\ NoNode \notin Nat

VARIABLES
  input,        \* the keys to be inserted
  items,        \* history: the keys inserted so far, by their values
  node,         \* the heap: [leaf, keys, ptr], ptr the children or the lists
  root,         \* a place in the heap, or NULL
  pc,           \* idle, descend or split
  ptr,          \* the node the insertion has come to
  ST,           \* the stack of [at, pos] above it
  midvalue, newLeaf,    \* of splitNode
  innerSplits   \* history: internal nodes that were split
treeVars == <<input, items, node, root, pc, ptr, ST, midvalue, newLeaf, innerSplits>>

Leaf(keys, lists) == [leaf |-> TRUE, keys |-> keys, ptr |-> lists]
Internal(keys, children) == [leaf |-> FALSE, keys |-> keys, ptr |-> children]
treeNodes == Len(node)
IsFull(n) == Len(n.keys) >= MAX_PER_NODE

(* One turn of the binary search for k among the keys from s.l to s.r.     *)
Halved(s, keys, k) ==
  LET mid == (s.l + s.r) \div 2
  IN IF s.l >= s.r THEN s
     ELSE IF keys[mid] > k THEN [s EXCEPT !.r = mid]
     ELSE IF keys[mid] < k THEN [s EXCEPT !.l = mid + 1]
     ELSE [l |-> mid, r |-> mid]

(* The place of the first key not below k; 0 if all are.                   *)
findPosition(keys, k) ==
  LET search[n \in 0 .. Len(keys)] ==
        IF n = 0 THEN [l |-> 1, r |-> Len(keys)] ELSE Halved(search[n - 1], keys, k)
  IN IF keys = <<>> THEN 1
     ELSE IF Last(keys) < k THEN 0
     ELSE search[Len(keys)].l

(* A key and its child or list, moved in where findPosition says.          *)
addItemAt(n, k, p) ==
  LET pos == findPosition(n.keys, k)
      at == IF pos = 0 THEN Len(n.keys) + 1 ELSE pos
  IN [leaf |-> n.leaf, keys |-> InsertAt(n.keys, at, k), ptr |-> InsertAt(n.ptr, at, p)]

(* The half of a full node that stays and the half that moves.             *)
midIndex == MAX_PER_NODE \div 2
Part(n, from, to) ==
  [leaf |-> n.leaf, keys |-> SubSeq(n.keys, from, to), ptr |-> SubSeq(n.ptr, from, to)]
Lower(n) == Part(n, 1, midIndex)
\* Mutant: the upper half starts one item late.
UpperShort(n) == Part(n, midIndex + 2, 2 * midIndex)
Upper(n) == Part(n, midIndex + 1, 2 * midIndex)

BTreeInit ==
  /\ input \in Inputs /\ items = <<>>
  /\ node = <<>> /\ root = NoNode
  /\ pc = "idle" /\ ptr = NoNode /\ ST = <<>> /\ midvalue = NoNode /\ newLeaf = NoNode
  /\ innerSplits = 0

key == input[Len(items) + 1]
value == Len(items) + 1

-----------------------------------------------------------------------------
addItem ==
  /\ pc = "idle" /\ Len(items) < Len(input)
  /\ IF root = NoNode
     THEN /\ node' = <<Leaf(<<key>>, <<<<value>>>>)>> /\ root' = 1
          /\ items' = Append(items, key)
          /\ UNCHANGED <<pc, ptr>>
     ELSE pc' = "descend" /\ ptr' = root /\ UNCHANGED <<node, root, items>>
  /\ UNCHANGED <<input, ST, midvalue, newLeaf, innerSplits>>

(* A key above all others raises the last key of every level.              *)
descend ==
  /\ pc = "descend" /\ ~node[ptr].leaf
  /\ LET found == findPosition(node[ptr].keys, key)
         pos == IF found = 0 THEN Len(node[ptr].keys) ELSE found
     IN /\ node' = IF found = 0 THEN [node EXCEPT ![ptr].keys[pos] = key] ELSE node
        /\ ST' = <<[at |-> ptr, pos |-> pos]>> \o ST
        /\ ptr' = node[ptr].ptr[pos]
  /\ UNCHANGED <<input, items, root, pc, midvalue, newLeaf, innerSplits>>

Inserted ==
  /\ pc' = "idle" /\ ptr' = NoNode /\ ST' = <<>> /\ midvalue' = NoNode /\ newLeaf' = NoNode
  /\ items' = Append(items, key)

(* LeafNode::addItem: a known key gets the value, a new one a list.        *)
\* Mutant: the last key is not compared.
KnownButLast(n, k) ==
  /\ findPosition(n.keys, k) \notin {0, Len(n.keys)}
  /\ n.keys[findPosition(n.keys, k)] = k

Known(n, k) == findPosition(n.keys, k) # 0 /\ n.keys[findPosition(n.keys, k)] = k
addValue(n, k, v) ==
  IF Known(n, k) THEN [n EXCEPT !.ptr[findPosition(n.keys, k)] = Append(@, v)]
  ELSE addItemAt(n, k, <<v>>)

leafAddItem ==
  /\ pc = "descend" /\ node[ptr].leaf
  /\ Known(node[ptr], key) \/ ~IsFull(node[ptr])
  /\ node' = [node EXCEPT ![ptr] = addValue(@, key, value)]
  /\ Inserted
  /\ UNCHANGED <<input, root, innerSplits>>

(* splitNode: the upper half of a full leaf moves to a new one; the item   *)
(* goes to the half it belongs to.                                         *)
splitLeaf ==
  /\ pc = "descend" /\ node[ptr].leaf
  /\ ~Known(node[ptr], key) /\ IsFull(node[ptr])
  /\ LET full == node[ptr]
         mid == full.keys[midIndex]
         low == IF key > mid THEN Lower(full) ELSE addValue(Lower(full), key, value)
         up == IF key > mid THEN addValue(Upper(full), key, value) ELSE Upper(full)
     IN /\ node' = Append([node EXCEPT ![ptr] = low], up)
        /\ midvalue' = mid
  /\ newLeaf' = treeNodes + 1
  /\ pc' = "split"
  /\ UNCHANGED <<input, items, root, ptr, ST, innerSplits>>

(* One round of its loop: the child in the parent is now the upper half,   *)
(* and the lower half is added under midvalue if the parent has room.      *)
Parent == node[Head(ST).at]
WithUpper == [Parent EXCEPT !.ptr[Head(ST).pos] = newLeaf]

addToParent ==
  /\ pc = "split" /\ ST # <<>> /\ ~IsFull(Parent)
  /\ node' = [node EXCEPT ![Head(ST).at] = addItemAt(WithUpper, midvalue, ptr)]
  /\ Inserted
  /\ UNCHANGED <<input, root, innerSplits>>

(* A full parent is split as well. Its own middle key replaces midvalue    *)
(* before the lower half of the child is added.                            *)
splitParent ==
  /\ pc = "split" /\ ST # <<>> /\ IsFull(Parent)
  /\ LET mid == Parent.keys[midIndex]
         low == IF key > mid THEN Lower(WithUpper) ELSE addItemAt(Lower(WithUpper), mid, ptr)
         up == IF key > mid THEN addItemAt(Upper(WithUpper), mid, ptr) ELSE Upper(WithUpper)
     IN /\ node' = Append([node EXCEPT ![Head(ST).at] = low], up)
        /\ midvalue' = mid
  /\ newLeaf' = treeNodes + 1 /\ ptr' = Head(ST).at /\ ST' = Tail(ST)
  /\ innerSplits' = innerSplits + 1
  /\ UNCHANGED <<input, items, root, pc>>

splitRoot ==
  /\ pc = "split" /\ ST = <<>>
  /\ node' = Append(node,
       addItemAt(Internal(<<Last(node[ptr].keys)>>, <<ptr>>), Last(node[newLeaf].keys), newLeaf))
  /\ root' = treeNodes + 1
  /\ Inserted
  /\ UNCHANGED <<input, innerSplits>>

BTreeNext ==
  \/ addItem \/ descend \/ leafAddItem \/ splitLeaf
  \/ addToParent \/ splitParent \/ splitRoot

-----------------------------------------------------------------------------
(* The file of the tree: nodes breadth first, each offset computed from    *)
(* the sizes of the nodes before. A file is a function from the place of a *)
(* node to the node; an internal node has the places of its children.      *)

SumOf(s) ==
  LET sum[i \in 0 .. Len(s)] == IF i = 0 THEN 0 ELSE sum[i - 1] + s[i]
  IN sum[Len(s)]
getSizeOfFile(n) ==
  2 + IF n.leaf THEN SumOf([i \in DOMAIN n.ptr |-> 4 + 4 + 4 * Len(n.ptr[i])])
      ELSE 8 * Len(n.keys)

\* Mutant: the children of a node are written before the rest of its level.
Stacked(queue, children) == children \o queue
Queued(queue, children) == queue \o children

\* The file f after an fwrite of n at the place at.
Put(at, n, f) == [a \in DOMAIN f \cup {at} |-> IF a = at THEN n ELSE f[a]]

writeTree(heap, top) ==
  LET W[i \in 0 .. Len(heap)] ==
        IF i = 0
        THEN [BQ |-> <<top>>, pos |-> getSizeOfFile(heap[top]), length |-> 0, tree |-> <<>>]
        ELSE LET w == W[i - 1]
                 cur == heap[Head(w.BQ)]
                 children == IF cur.leaf THEN <<>> ELSE cur.ptr
                 size == [j \in DOMAIN children |-> getSizeOfFile(heap[children[j]])]
                 offset == [j \in DOMAIN children |-> w.pos + SumOf(SubSeq(size, 1, j - 1))]
             IN [BQ |-> Queued(Tail(w.BQ), children), pos |-> w.pos + SumOf(size),
                 length |-> w.length + getSizeOfFile(cur),
                 tree |-> Put(w.length, IF cur.leaf THEN cur ELSE [cur EXCEPT !.ptr = offset],
                              w.tree)]
  IN W[Len(heap)].tree

-----------------------------------------------------------------------------
(* Properties.                                                             *)

(* The keys with their values from the leftmost leaf to the rightmost, in  *)
(* a heap or in a file, and the levels below a node.                       *)
Contents(heap, top) ==
  LET C[n \in DOMAIN heap] ==
        IF heap[n].leaf THEN [i \in DOMAIN heap[n].keys |-> <<heap[n].keys[i], heap[n].ptr[i]>>]
        ELSE FlattenSeq([i \in DOMAIN heap[n].ptr |-> C[heap[n].ptr[i]]])
  IN C[top]
Depths(n) ==
  LET D[m \in DOMAIN node] ==
        IF node[m].leaf THEN {0} ELSE {d + 1 : d \in UNION {D[c] : c \in ToSet(node[m].ptr)}}
  IN D[n]

(* However often nodes are split (BTree::splitNode), each value inserted   *)
(* is in one leaf, once and under its key, all leaves are on one level,    *)
(* and every node but the root has one parent, so that the destructor      *)
(* frees all that were counted (assert( nodeCount == 0 ), btree.h:65).     *)
EveryValueKept ==
  (pc = "idle" /\ root # NoNode) =>
    LET all == Contents(node, root)
        children == FlattenSeq([n \in DOMAIN node |-> IF node[n].leaf THEN <<>> ELSE node[n].ptr])
    IN /\ Cardinality(Depths(root)) = 1
       /\ IsInjective(children) /\ ToSet(children) = DOMAIN node \ {root}
       /\ \A v \in DOMAIN items :
            LET places == UNION {{<<i, j>> : j \in {h \in DOMAIN all[i][2] : all[i][2][h] = v}} :
                                 i \in DOMAIN all}
            IN \E x \in places : places = {x} /\ all[x[1]][1] = items[v]

(* While no internal node has been split, insertion (BTree::addItem and    *)
(* splitNode) keeps the keys of the leaves ascending over the whole tree,  *)
(* so that a key has one list, which its next value finds: the keys in     *)
(* the root stay those that separate the leaves.                           *)
KeysAscend ==
  (pc = "idle" /\ root # NoNode /\ innerSplits = 0) =>
    LET all == Contents(node, root)
    IN \A i, j \in DOMAIN all : i < j => all[i][1] < all[j][1]

(* write2file computes the offset of a child before the nodes in front of  *)
(* it are written: in the file, the offsets lead from place 0 to the same  *)
(* keys and values in the same order as the pointers in memory, split      *)
(* nodes or not.                                                           *)
FileHoldsTree ==
  (pc = "idle" /\ root # NoNode) =>
    Contents(writeTree(node, root), 0) = Contents(node, root)

=============================================================================
