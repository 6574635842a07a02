------------------------------ MODULE LinkList ------------------------------
(***************************************************************************)
(* LinkList of Util/linklist.h: the positions of a key, in nodes of a few  *)
(* elements each that come from a pool (the build with LINKNODE_POOL; else *)
(* from the heap). A node is the sequence of its elements; its other cells *)
(* keep what the node held before, JUNK. intersection takes one step per   *)
(* turn of its inner loop and one per node it leaves behind.               *)
(***************************************************************************)
EXTENDS Naturals, Sequences, SequencesExt, FiniteSets

CONSTANTS
    ELEM_NUM_EACH_NODE,
    PoolSize,     \* the nodes of initLinkNodePool
    Lists,        \* the objects
    Positions,    \* what is added, ascending within a list as in an index
    MaxListOps,   \* bound on the number of operations
    JUNK, NULL

ASSUME LinkListAssumption ==
  /\ ELEM_NUM_EACH_NODE \in Nat \ {0} /\ PoolSize \in Nat
  /\ IsFiniteSet(Lists) /\ Positions \subseteq Nat /\ JUNK \notin Nat

VARIABLES
    nodes,      \* the nodes of each list from head to tail; <<>> is head = NULL
    nodeCount,  \* the elements of each list
    cursor,     \* the free nodes of the pool
    file,       \* what write2file wrote last: nodeCount and the elements
    ret,        \* a vector that query results are merged into
    walk,       \* an intersection under way
    listPc,     \* "run", "walk", "load" (readFromFile) or "abort" (a failed assertion)
    listOps,
    held,       \* history: what each list should hold
    leaked,     \* history: readFromFile forgot nodes
    unsorted    \* history: ret holds a list of a file or JUNK

listVars == <<nodes, nodeCount, cursor, file, ret, walk, listPc, listOps, held, leaked, unsorted>>

NoWalk == [to |-> NULL]

LinkListInit ==
  /\ nodes = [l \in Lists |-> <<>>] /\ nodeCount = [l \in Lists |-> 0]
  /\ cursor = PoolSize /\ file = NULL /\ ret = <<>> /\ walk = NoWalk
  /\ listPc = "run" /\ listOps = 0
  /\ held = [l \in Lists |-> {}] /\ leaked = FALSE /\ unsorted = FALSE

Runs == listPc = "run" /\ listOps < MaxListOps /\ listOps' = listOps + 1

abort ==
  /\ listPc' = "abort"
  /\ UNCHANGED <<nodes, nodeCount, cursor, file, ret, walk, held, leaked, unsorted>>

\* addElement: a new node if there is none or the last one is full.
Full(s) == s = <<>> \/ Len(Last(s)) >= ELEM_NUM_EACH_NODE
Added(s, v) == IF Full(s) THEN Append(s, <<v>>) ELSE [s EXCEPT ![Len(s)] = Append(@, v)]

addElement(l, v) ==
  /\ Runs /\ \A e \in held[l] : e < v
  /\ IF Full(nodes[l]) /\ cursor = 0 THEN abort
     ELSE /\ nodes' = [nodes EXCEPT ![l] = Added(@, v)]
          /\ nodeCount' = [nodeCount EXCEPT ![l] = @ + 1]
          /\ cursor' = IF Full(nodes[l]) THEN cursor - 1 ELSE cursor
          /\ held' = [held EXCEPT ![l] = @ \cup {v}]
          /\ UNCHANGED <<file, ret, walk, listPc, leaked, unsorted>>

(* intersection: the result starts with a node of its own.                 *)
intersection(l, m) ==
  /\ Runs /\ l # m
  /\ IF cursor = 0 THEN abort
     ELSE /\ walk' = [to |-> l, with |-> m, a |-> nodes[l], b |-> nodes[m], i |-> 1, j |-> 1]
          /\ nodes' = [nodes EXCEPT ![l] = << <<>> >>]
          /\ nodeCount' = [nodeCount EXCEPT ![l] = 0]
          /\ cursor' = cursor - 1
          /\ held' = [held EXCEPT ![l] = held[l] \cap held[m], ![m] = {}]
          /\ listPc' = "walk"
          /\ UNCHANGED <<file, ret, leaked, unsorted>>

Walks == listPc = "walk" /\ UNCHANGED <<listOps, file, ret, held, leaked, unsorted>>
Inner == /\ walk.a # <<>> /\ walk.b # <<>>
         /\ walk.i <= Len(Head(walk.a)) /\ walk.j <= Len(Head(walk.b))

skipElement ==
  /\ Walks /\ Inner
  /\ LET a == Head(walk.a)[walk.i]  b == Head(walk.b)[walk.j]
     IN /\ a # b
        /\ walk' = IF a > b THEN [walk EXCEPT !.j = @ + 1] ELSE [walk EXCEPT !.i = @ + 1]
  /\ UNCHANGED <<nodes, nodeCount, cursor, listPc>>

Passed == [walk EXCEPT !.i = @ + 1, !.j = @ + 1]

takeElement ==
  /\ Walks /\ Inner
  /\ LET l == walk.to  v == Head(walk.a)[walk.i]
     IN /\ v = Head(walk.b)[walk.j]
        /\ IF Full(nodes[l]) /\ cursor = 0
           THEN listPc' = "abort" /\ UNCHANGED <<nodes, nodeCount, cursor, walk>>
           ELSE /\ nodes' = [nodes EXCEPT ![l] = Added(@, v)]
                /\ nodeCount' = [nodeCount EXCEPT ![l] = @ + 1]
                /\ cursor' = IF Full(nodes[l]) THEN cursor - 1 ELSE cursor
                /\ walk' = Passed
                /\ UNCHANGED listPc

\* Mutant: of two nodes that are left together only one is freed.
FreedOne(n) == cursor + 1

Freed(n) == cursor + n

\* The nodes whose elements are used up are freed, one list at least is at a node's end.
leaveNodes ==
  /\ Walks /\ walk.a # <<>> /\ walk.b # <<>> /\ ~Inner
  /\ LET leaveA == walk.i > Len(Head(walk.a))
         leaveB == walk.j > Len(Head(walk.b))
     IN /\ walk' = [walk EXCEPT !.a = IF leaveA THEN Tail(@) ELSE @,
                                !.b = IF leaveB THEN Tail(@) ELSE @,
                                !.i = IF leaveA THEN 1 ELSE @,
                                !.j = IF leaveB THEN 1 ELSE @]
        /\ cursor' = Freed((IF leaveA THEN 1 ELSE 0) + (IF leaveB THEN 1 ELSE 0))
  /\ UNCHANGED <<nodes, nodeCount, listPc>>

\* What is left of either list is freed, and the other list cleared.
endIntersection ==
  /\ Walks
  /\ walk.a = <<>> \/ walk.b = <<>>
  /\ cursor' = cursor + Len(walk.a) + Len(walk.b)
  /\ nodes' = [nodes EXCEPT ![walk.with] = <<>>]
  /\ nodeCount' = [nodeCount EXCEPT ![walk.with] = 0]
  /\ walk' = NoWalk /\ listPc' = "run"

(* write2file: the elements go to the file, the nodes back to the pool.    *)
write2file(l) ==
  /\ Runs
  /\ IF nodeCount[l] # Len(FlattenSeq(nodes[l])) THEN abort
     ELSE /\ file' = [count |-> nodeCount[l], elems |-> FlattenSeq(nodes[l])]
          /\ cursor' = cursor + Len(nodes[l])
          /\ nodes' = [nodes EXCEPT ![l] = <<>>]
          /\ nodeCount' = [nodeCount EXCEPT ![l] = 0]
          /\ held' = [held EXCEPT ![l] = {}]
          /\ UNCHANGED <<ret, walk, listPc, leaked, unsorted>>

readFromFileAndMerge ==
  /\ Runs /\ file # NULL
  /\ ret' = ret \o SubSeq(file.elems, 1, file.count)
  /\ unsorted' = TRUE
  /\ UNCHANGED <<nodes, nodeCount, cursor, file, walk, listPc, held, leaked>>

(* copyAndMerge: the first element of a node is read before its number is  *)
(* looked at. Where JUNK goes depends on its value: here to the front.     *)
Cells(s) == FlattenSeq([i \in DOMAIN s |-> IF s[i] = <<>> THEN <<JUNK>> ELSE s[i]])

\* Mutant: an element of the vector goes first if it is not below.
VectorFirst(x, y) == x > y

\* Does the element of the list go before the one of the vector?
GoesFirst(x, y) == ~(x > y)

\* A turn of the loop takes the next element of the list or of the vector.
Turn(s, v, t) ==
  IF /\ t.i <= Len(s)
     /\ t.j > Len(v) \/ JUNK \in {s[t.i], v[t.j]} \/ GoesFirst(s[t.i], v[t.j])
  THEN [t EXCEPT !.i = @ + 1, !.temp = Append(@, s[t.i])]
  ELSE [t EXCEPT !.j = @ + 1, !.temp = Append(@, v[t.j])]
Merged(s, v) ==
  LET turn[n \in 0 .. Len(s) + Len(v)] ==
        IF n = 0 THEN [i |-> 1, j |-> 1, temp |-> <<>>] ELSE Turn(s, v, turn[n - 1])
  IN turn[Len(s) + Len(v)].temp

copyAndMerge(l) ==
  /\ Runs
  /\ ret' = Merged(Cells(nodes[l]), ret)
  /\ unsorted' = (unsorted \/ <<>> \in ToSet(nodes[l]))
  /\ UNCHANGED <<nodes, nodeCount, cursor, file, walk, listPc, held, leaked>>

(* readFromFile: the nodes of the list are forgotten, and the loop over    *)
(* the elements of the file does not advance: every turn takes a node.     *)
readFromFile(l) ==
  /\ Runs /\ file # NULL
  /\ nodes' = [nodes EXCEPT ![l] = <<>>]
  /\ nodeCount' = [nodeCount EXCEPT ![l] = file.count]
  /\ held' = [held EXCEPT ![l] = {}]
  /\ listPc' = IF file.count = 0 THEN "run" ELSE "load"
  /\ walk' = IF file.count = 0 THEN NoWalk ELSE [to |-> l]
  /\ leaked' = (leaked \/ nodes[l] # <<>> \/ file.count > 0)
  /\ UNCHANGED <<cursor, file, ret, unsorted>>

loadElement ==
  /\ listPc = "load" /\ UNCHANGED listOps
  /\ IF cursor = 0 THEN abort
     ELSE /\ nodes' = [nodes EXCEPT ![walk.to] = << <<file.elems[1]>> >>]
          /\ cursor' = cursor - 1
          /\ UNCHANGED <<nodeCount, file, ret, walk, listPc, held, leaked, unsorted>>

(* ~LinkList, and the next object in its place.                            *)
deleteList(l) ==
  /\ Runs /\ nodes[l] # <<>>
  /\ cursor' = cursor + Len(nodes[l])
  /\ nodes' = [nodes EXCEPT ![l] = <<>>]
  /\ nodeCount' = [nodeCount EXCEPT ![l] = 0]
  /\ held' = [held EXCEPT ![l] = {}]
  /\ UNCHANGED <<file, ret, walk, listPc, leaked, unsorted>>

LinkListNext ==
  \/ \E l \in Lists, v \in Positions : addElement(l, v)
  \/ \E l, m \in Lists : intersection(l, m)
  \/ skipElement \/ takeElement \/ leaveNodes \/ endIntersection
  \/ \E l \in Lists : write2file(l) \/ copyAndMerge(l) \/ readFromFile(l) \/ deleteList(l)
  \/ readFromFileAndMerge \/ loadElement

LinkListSpec == LinkListInit /\ [][LinkListNext]_listVars

-----------------------------------------------------------------------------
(* Properties.                                                             *)

InOrder(S) ==
  [i \in 1 .. Cardinality(S) |-> CHOOSE d \in S : Cardinality({e \in S : e < d}) = i - 1]

\* The nodes of the lists of S, each at its place.
Places(s, S) == UNION {{l} \X DOMAIN s[l] : l \in S}

\* How many nodes some list or the walk of an intersection will still free.
Owned ==
  IF listPc = "walk"
  THEN Cardinality(Places(nodes, Lists \ {walk.with})) + Len(walk.a) + Len(walk.b)
  ELSE Cardinality(Places(nodes, Lists))

(* newNode, freeNode, clear and ~LinkList: no operation but readFromFile   *)
(* loses a node or frees one twice, whatever lists are intersected: every  *)
(* node is free in the pool or will be freed by one owner.                 *)
NodesAccounted == listPc # "abort" /\ ~leaked => cursor + Owned = PoolSize

(* addElement, intersection, write2file: a list holds in ascending order   *)
(* what was added to it or common to it and the list it was intersected    *)
(* with, nodeCount is their number, and write2file's assertion never fails *)
(* for it; copyAndMerge keeps a vector of such lists ascending.            *)
ListsHold ==
  /\ listPc = "run" =>
       \A l \in Lists : /\ FlattenSeq(nodes[l]) = InOrder(held[l])
                       /\ nodeCount[l] = Cardinality(held[l])
  /\ ~unsorted => \A i, j \in DOMAIN ret : i < j => ret[i] <= ret[j]

=============================================================================
