---------------------------- MODULE MCStructures ----------------------------
(* The containers that the index is built on, one of them at a time.       *)
EXTENDS LinkList, Bitmap, LinkList2, BTree

VARIABLE structure

vars == <<structure, listVars, bitVars, list2Vars, treeVars>>

MCKey == 0 .. 12
\* Up to fourteen insertions in orders that split inner nodes of four keys.
MCInputs ==
  {[i \in 1 .. 14 |-> (a * i * i + b * i + c) % 13] : a \in 0 .. 3, b \in 0 .. 12, c \in 0 .. 12}

MCBitSizes == [m \in Maps |-> IF m = "wide" THEN 12 ELSE 8]
MCFilterSizes ==
  [f \in Filters |-> IF f = "f" THEN [elementNum |-> 2, hashFuncNum |-> 2]
                                ELSE [elementNum |-> 7, hashFuncNum |-> 1]]
MCHashCode == [i \in 0 .. 1 |-> [e \in Elems |-> IF i = 0 THEN 9 * e + 2 ELSE 7 * e + 1]]

\* Without a tree there is nothing to insert.
NoTree ==
  /\ input = <<>> /\ items = <<>> /\ node = <<>> /\ root = NoNode /\ pc = "idle"
  /\ ptr = NoNode /\ ST = <<>> /\ midvalue = NoNode /\ newLeaf = NoNode /\ innerSplits = 0

Init ==
  /\ structure \in {"LinkList", "Bitmap", "LinkList2", "BTree"}
  /\ LinkListInit /\ BitmapInit /\ LinkList2Init
  /\ IF structure = "BTree" THEN BTreeInit ELSE NoTree

Next ==
  /\ UNCHANGED structure
  /\ \/ structure = "LinkList" /\ LinkListNext /\ UNCHANGED <<bitVars, list2Vars, treeVars>>
     \/ structure = "Bitmap" /\ BitmapNext /\ UNCHANGED <<listVars, list2Vars, treeVars>>
     \/ structure = "LinkList2" /\ LinkList2Next /\ UNCHANGED <<listVars, bitVars, treeVars>>
     \/ structure = "BTree" /\ BTreeNext /\ UNCHANGED <<listVars, bitVars, list2Vars>>

Spec == Init /\ [][Next]_vars

=============================================================================
