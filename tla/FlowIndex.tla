----------------------------- MODULE FlowIndex -----------------------------
(***************************************************************************)
(* What the indexes of a storage promise about each flow, without threads, *)
(* pointers, flags or files: the specification that IndexPipeline          *)
(* implements. Every field sees the flows in the order of their arrival. A *)
(* flow only ever moves forward, from the buffer to the trie to a file;    *)
(* buffer and trie move as a whole; a flow that is lost never comes back.  *)
(***************************************************************************)
EXTENDS Naturals

CONSTANTS
    Fields,    \* the indexed fields
    Flows      \* the flows, numbered in the order of their arrival

VARIABLE stage   \* stage[c][n]: how far field c has taken flow n

Stages == {"unseen", "buffered", "indexed", "persisted", "lost"}

Init == stage = [c \in Fields |-> [n \in Flows |-> "unseen"]]

\* Field c is offered the next flow, which reaches its buffer or is lost.
Offer(c) ==
    \E n \in Flows, s \in {"buffered", "lost"} :
        /\ stage[c][n] = "unseen"
        /\ \A m \in Flows : m < n => stage[c][m] # "unseen"
        /\ stage' = [stage EXCEPT ![c][n] = s]

\* The whole buffer goes to the trie.
Insert(c) ==
    stage' = [stage EXCEPT ![c] =
        [n \in Flows |-> IF @[n] = "buffered" THEN "indexed" ELSE @[n]]]

\* The whole trie goes to a file; a file it replaces is lost.
Persist(c) ==
    \E replaced \in SUBSET {n \in Flows : stage[c][n] = "persisted"} :
        stage' = [stage EXCEPT ![c] =
            [n \in Flows |-> IF n \in replaced THEN "lost"
                             ELSE IF @[n] = "indexed" THEN "persisted" ELSE @[n]]]

\* What a flow's stage becomes when its index is deleted.
Deleted(s) == IF s \in {"buffered", "indexed"} THEN "lost" ELSE s

\* The index of a field is deleted with all it holds in memory.
Drop(c) == stage' = [stage EXCEPT ![c] = [n \in Flows |-> Deleted(@[n])]]

\* The storage is closed: every index is deleted.
Close == stage' = [c \in Fields |-> [n \in Flows |-> Deleted(stage[c][n])]]

Next ==
    \/ \E c \in Fields : Offer(c) \/ Insert(c) \/ Persist(c) \/ Drop(c)
    \/ Close

Spec == Init /\ [][Next]_stage

=============================================================================
