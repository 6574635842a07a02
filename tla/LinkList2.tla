------------------------------ MODULE LinkList2 ------------------------------
(***************************************************************************)
(* LinkList of Util/linklist2.h: one element per node, from the heap (the  *)
(* file comments LINKNODE_POOL out). The model keeps the pointers, because *)
(* the operations disagree about them: merge and intersection leave tail   *)
(* where it was. memory is the heap: a sequence of nodes that are never    *)
(* reused, a deleted one is not live. The skip pointers are written and    *)
(* never read: only skip_pre, which is followed, is kept.                  *)
(***************************************************************************)
EXTENDS Naturals, Sequences, SequencesExt, FiniteSets

CONSTANTS
    SKIP_NUM,
    Objects2,     \* the lists
    Values2,
    MaxNodes2,    \* bound on the nodes ever made
    MaxList2Ops,  \* bound on the number of operations
    NIL           \* the pointer NULL

ASSUME LinkList2Assumption == SKIP_NUM \in Nat \ {0} /\ Values2 \subseteq Nat

VARIABLES
    memory,   \* data, next and live of each node
    lists2,   \* head, tail, skip_pre, nodeCount of each list
    file2,    \* the elements written last
    list2Pc,  \* "run", "abort" (a failed assertion) or "undefined" (a pointer followed that is NULL or deleted)
    list2Ops,
    held2,    \* history: the elements a list should hold
    spoilt    \* history: lists changed where their tail or order was not what the operation expects

list2Vars == <<memory, lists2, file2, list2Pc, list2Ops, held2, spoilt>>

Empty2 == [head |-> NIL, tail |-> NIL, skip_pre |-> NIL, nodeCount |-> 0]

LinkList2Init ==
  /\ memory = <<>> /\ lists2 = [l \in Objects2 |-> Empty2]
  /\ file2 = NIL /\ list2Pc = "run" /\ list2Ops = 0
  /\ held2 = [l \in Objects2 |-> {}] /\ spoilt = {}

Live(p) == p # NIL /\ memory[p].live
Data(p) == memory[p].data

\* The nodes that head leads to.
Chain(l) ==
  LET from[p \in DOMAIN memory \cup {NIL}] ==
        IF p = NIL THEN <<>> ELSE <<p>> \o from[memory[p].next]
  IN from[lists2[l].head]

Ends(l) == LET c == Chain(l) IN c = <<>> \/ Last(c) = lists2[l].tail

\* The heap in which seq is linked up and the nodes of gone are deleted.
Relinked(seq, gone) ==
  [p \in DOMAIN memory |->
     IF p \in gone THEN [memory[p] EXCEPT !.live = FALSE]
     ELSE IF p \in ToSet(seq)
     THEN LET i == CHOOSE i \in DOMAIN seq : seq[i] = p
          IN [memory[p] EXCEPT !.next = IF i = Len(seq) THEN NIL ELSE seq[i + 1]]
     ELSE memory[p]]

HeadOf(seq) == IF seq = <<>> THEN NIL ELSE seq[1]

-----------------------------------------------------------------------------
(* Steps of one element, on a state s: heap h, list l, pc, index i, current. *)

\* A node after tail, which nothing compares with the end of the list.
AtTail(s, v) ==
  LET n == Len(s.h) + 1
      h == Append(s.h, [data |-> v, next |-> NIL, live |-> TRUE])
  IN IF s.l.head = NIL THEN [s EXCEPT !.h = h, !.l.head = n, !.l.tail = n]
     ELSE IF s.l.tail = NIL \/ ~s.h[s.l.tail].live
     THEN [s EXCEPT !.pc = "undefined"]
     ELSE [s EXCEPT !.h = [h EXCEPT ![s.l.tail].next = n], !.l.tail = n]

\* Once set, skip_pre follows next; it is set when count reaches SKIP_NUM.
Skipped(s, count) ==
  LET moved == IF s.l.skip_pre = NIL THEN s
               ELSE IF ~s.h[s.l.skip_pre].live THEN [s EXCEPT !.pc = "undefined"]
               ELSE [s EXCEPT !.l.skip_pre = s.h[s.l.skip_pre].next]
  IN IF count = SKIP_NUM THEN [moved EXCEPT !.l.skip_pre = moved.l.head] ELSE moved

StateOf(l) == [h |-> memory, l |-> lists2[l], pc |-> "run", i |-> 0, current |-> lists2[l].head]

\* The state s of list l becomes the state of the program.
Becomes(l, s) ==
  /\ Len(s.h) <= MaxNodes2
  /\ list2Pc' = s.pc
  /\ IF s.pc = "run" THEN memory' = s.h /\ lists2' = [lists2 EXCEPT ![l] = s.l]
     ELSE UNCHANGED <<memory, lists2>>

Runs2 == list2Pc = "run" /\ list2Ops < MaxList2Ops /\ list2Ops' = list2Ops + 1

Spoils(l, so) == spoilt' = IF so THEN spoilt \cup {l} ELSE spoilt

-----------------------------------------------------------------------------
(* The operations.                                                         *)

\* Elements are added in ascending order.
addElement2(l, v) ==
  /\ Runs2 /\ \A e \in held2[l] : e < v
  /\ LET s == AtTail(StateOf(l), v)
     IN Becomes(l, IF s.pc = "run" THEN Skipped([s EXCEPT !.l.nodeCount = @ + 1], s.l.nodeCount + 1)
                   ELSE s)
  /\ held2' = [held2 EXCEPT ![l] = @ \cup {v}]
  /\ Spoils(l, ~Ends(l))
  /\ UNCHANGED file2

\* merge and merge2 start with the list whose first element is lower.
Swaps(l, m) == lists2[l].head = NIL \/ Data(lists2[m].head) < Data(lists2[l].head)
First2(l, m) == IF Swaps(l, m) THEN Chain(m) ELSE Chain(l)
Second2(l, m) == IF Swaps(l, m) THEN Chain(l) ELSE Chain(m)

\* Mutant: the nodes of the second list go in one after the other where the first fits.
MergedAtOnce(a, b) ==
  LET below == {i \in DOMAIN a : i = 1 \/ (b # <<>> /\ Data(a[i]) < Data(b[1]))}
      k == Cardinality(below)
  IN SubSeq(a, 1, k) \o b \o SubSeq(a, k + 1, Len(a))

\* A node of b goes before the first node of a, from the second on, that is not below it.
Merged2(a, b) ==
  LET m[i \in 2 .. Len(a) + 1, j \in 1 .. Len(b) + 1] ==
        IF j > Len(b) THEN SubSeq(a, i, Len(a))
        ELSE IF i > Len(a) THEN SubSeq(b, j, Len(b))
        ELSE IF Data(a[i]) < Data(b[j]) THEN <<a[i]>> \o m[i + 1, j]
        ELSE <<b[j]>> \o m[i, j + 1]
  IN <<a[1]>> \o m[2, 1]

\* All nodes of m move to l; tail and skip_pre of l stay.
Takes(l, m, seq) ==
  /\ memory' = Relinked(seq, {})
  /\ lists2' = [lists2 EXCEPT ![l].head = seq[1],
                              ![l].nodeCount = @ + lists2[m].nodeCount,
                              ![m] = Empty2]
  /\ held2' = [held2 EXCEPT ![l] = @ \cup held2[m], ![m] = {}]
  /\ UNCHANGED <<file2, list2Pc>>

merge(l, m) ==
  /\ Runs2 /\ l # m /\ lists2[m].head # NIL
  /\ Takes(l, m, Merged2(First2(l, m), Second2(l, m)))
  /\ Spoils(l, m \in spoilt)

merge2(l, m) ==
  /\ Runs2 /\ l # m /\ lists2[m].head # NIL
  /\ Takes(l, m, First2(l, m) \o Second2(l, m))
  /\ Spoils(l, TRUE)

\* The nodes of l whose element the walk finds in m; from its end on none.
Kept(l, m) ==
  LET a == Chain(l)  b == Chain(m)
      kept[i \in 1 .. Len(a) + 1, j \in 1 .. Len(b) + 1] ==
        IF i > Len(a) \/ j > Len(b) THEN <<>>
        ELSE IF Data(a[i]) > Data(b[j]) THEN kept[i, j + 1]
        ELSE (IF Data(a[i]) = Data(b[j]) THEN <<a[i]>> ELSE <<>>) \o kept[i + 1, j]
  IN kept[1, 1]

intersection2(l, m) ==
  /\ Runs2 /\ l # m
  /\ LET seq == Kept(l, m)
     IN /\ memory' = Relinked(seq, ToSet(Chain(l)) \ ToSet(seq))
        /\ lists2' = [lists2 EXCEPT ![l].head = HeadOf(seq), ![l].nodeCount = Len(seq)]
  /\ held2' = [held2 EXCEPT ![l] = @ \cap held2[m]]
  /\ Spoils(l, m \in spoilt)
  /\ UNCHANGED <<file2, list2Pc>>

Elements2(l) == LET c == Chain(l) IN [i \in DOMAIN c |-> Data(c[i])]

Gone(l) == Relinked(<<>>, ToSet(Chain(l)))

\* write2file( FILE * ): head and nodeCount are reset, tail and skip_pre are not.
writeFILE(l) ==
  /\ Runs2
  /\ file2' = [count |-> lists2[l].nodeCount, elems |-> Elements2(l),
               spoilt |-> l \in spoilt]
  /\ memory' = Gone(l)
  /\ lists2' = [lists2 EXCEPT ![l].head = NIL, ![l].nodeCount = 0]
  /\ held2' = [held2 EXCEPT ![l] = {}] /\ spoilt' = spoilt \ {l}
  /\ UNCHANGED list2Pc

(* write2file( int ) reads the next pointer of a node it has deleted: if   *)
(* the old value is there it writes all, keeping nodeCount; if ~LinkNode's *)
(* NULL is there the loop ends after one node and the assertion decides.   *)
writeFd(l) ==
  /\ Runs2
  /\ \/ /\ lists2[l].nodeCount = Len(Chain(l))
        /\ file2' = [count |-> lists2[l].nodeCount, elems |-> Elements2(l),
               spoilt |-> l \in spoilt]
        /\ memory' = Gone(l)
        /\ lists2' = [lists2 EXCEPT ![l].head = NIL]
        /\ held2' = [held2 EXCEPT ![l] = {}]
        /\ Spoils(l, lists2[l].nodeCount > 0)
        /\ UNCHANGED list2Pc
     \/ /\ lists2[l].nodeCount # Len(Chain(l)) \/ Len(Chain(l)) > 1
        /\ list2Pc' = "abort"
        /\ UNCHANGED <<memory, lists2, file2, held2, spoilt>>

\* Whole files are read: those whose count is the number of their elements.
Whole2 == file2 # NIL /\ file2.count = Len(file2.elems)

\* The elements of the file become the nodes of s; only the FILE reader moves skip_pre.
Loaded2(s, isFILE) ==
  LET step(t, v) ==
        LET u == AtTail(IF t.i = 0 THEN [t EXCEPT !.l.head = NIL] ELSE t, v)
        IN [(IF isFILE THEN Skipped(u, t.i + 1) ELSE u) EXCEPT !.i = @ + 1]
  IN FoldLeft(step, [s EXCEPT !.l.nodeCount = file2.count], file2.elems)

Holds2(l) ==
  /\ held2' = [held2 EXCEPT ![l] = ToSet(file2.elems)]
  /\ spoilt' = IF file2.spoilt THEN spoilt \cup {l} ELSE spoilt \ {l}
  /\ UNCHANGED file2

\* readFromFile( FILE * ) forgets the nodes of the list.
readFILE(l) ==
  /\ Runs2 /\ Whole2
  /\ Becomes(l, Loaded2([StateOf(l) EXCEPT !.l = Empty2], TRUE))
  /\ Holds2(l)

\* readFromFile( int ) forgets them too, but keeps them all if the file holds none.
readFd(l) ==
  /\ Runs2 /\ Whole2
  /\ Becomes(l, Loaded2(StateOf(l), FALSE))
  /\ IF file2.count > 0 THEN Holds2(l)
     ELSE Spoils(l, Chain(l) # <<>>) /\ UNCHANGED <<file2, held2>>

\* An element of the file goes after the first node that is not below it, or after tail.
MergeStep(s, v) ==
  LET reach[p \in DOMAIN s.h \cup {NIL}] ==
        IF p # NIL /\ s.h[p].data < v THEN reach[s.h[p].next] ELSE p
      c == reach[s.current]
      n == Len(s.h) + 1
      t == IF s.l.head = NIL \/ c = NIL \/ c = s.l.tail
           THEN AtTail([s EXCEPT !.current = c], v)
           ELSE [s EXCEPT !.h = Append([@ EXCEPT ![c].next = n],
                                       [data |-> v, next |-> s.h[c].next, live |-> TRUE]),
                          !.current = n]
  IN IF s.pc # "run" \/ t.pc # "run" THEN [s EXCEPT !.pc = t.pc]
     ELSE IF t.l.tail = NIL \/ ~t.h[t.l.tail].live
     THEN [t EXCEPT !.pc = "undefined"]
     ELSE IF t.h[t.l.tail].next # NIL THEN [t EXCEPT !.pc = "abort"]
     ELSE [Skipped(t, t.i + 1) EXCEPT !.i = @ + 1]

readFILEAndMerge(l) ==
  /\ Runs2 /\ Whole2
  /\ Becomes(l, FoldLeft(MergeStep, [StateOf(l) EXCEPT !.l.nodeCount = @ + file2.count], file2.elems))
  /\ held2' = [held2 EXCEPT ![l] = @ \cup ToSet(file2.elems)]
  /\ Spoils(l, \/ file2.spoilt \/ ~Ends(l)
               \/ \E v \in ToSet(file2.elems), e \in held2[l] : v <= e)
  /\ UNCHANGED file2

\* ~LinkList, and the next object in its place.
deleteList2(l) ==
  /\ Runs2 /\ lists2[l] # Empty2
  /\ memory' = Gone(l)
  /\ lists2' = [lists2 EXCEPT ![l] = Empty2]
  /\ held2' = [held2 EXCEPT ![l] = {}] /\ spoilt' = spoilt \ {l}
  /\ UNCHANGED <<file2, list2Pc>>

LinkList2Next ==
  \/ \E l \in Objects2, v \in Values2 : addElement2(l, v)
  \/ \E l, m \in Objects2 : merge(l, m) \/ merge2(l, m) \/ intersection2(l, m)
  \/ \E l \in Objects2 : writeFILE(l) \/ writeFd(l) \/ readFILE(l) \/ readFd(l)
  \/ \E l \in Objects2 : readFILEAndMerge(l) \/ deleteList2(l)

-----------------------------------------------------------------------------
(* Properties.                                                             *)

(* addElement, merge, intersection and the files: no list leads to a       *)
(* deleted node or to a node of another list. A list that was only added   *)
(* to at its end, merged, intersected and read back holds its elements in  *)
(* ascending order and nodeCount is their number, so the complaint of      *)
(* ~LinkList is never printed for it; what spoils a list is an addition    *)
(* after merge or intersection moved its end away from tail, merge2, and a *)
(* file merged into elements that are not all below the file's.            *)
List2Holds ==
  list2Pc = "run" =>
    \A l \in Objects2 :
      LET e == Elements2(l)
      IN /\ \A p \in ToSet(Chain(l)) : Live(p)
         /\ \A m \in Objects2 \ {l} : ToSet(Chain(l)) \cap ToSet(Chain(m)) = {}
         /\ l \notin spoilt =>
              /\ ToSet(e) = held2[l]
              /\ lists2[l].nodeCount = Len(e)
              /\ \A i, j \in DOMAIN e : i < j => e[i] <= e[j]

=============================================================================
