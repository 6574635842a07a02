---------------------- MODULE IndexPipelineRefinement ----------------------
(***************************************************************************)
(* IndexPipeline implements FlowIndex: the stage of a flow is where the    *)
(* pipeline keeps it.                                                      *)
(***************************************************************************)
EXTENDS IndexPipeline

\* The flows in field c's index files.
OnDisk(c) == UNION {x.flows : x \in {y \in idxFiles : y.field = c}}

\* How far field c has taken flow n.
StageOf(c, n) ==
    IF n > Offered(c) THEN "unseen"
    ELSE IF n \in records[c] THEN "buffered"
    ELSE IF n \in trie[c] THEN "indexed"
    ELSE IF n \in OnDisk(c) THEN "persisted"
    ELSE "lost"

FI == INSTANCE FlowIndex WITH
          Flows <- 1..NumFlows,
          stage <- [c \in Fields |-> [n \in 1..NumFlows |-> StageOf(c, n)]]

\* Every behaviour of the threads is one the abstract index allows: a flow is never
\* duplicated, never overtaken, and never found again after it was lost.
ImplementsFlowIndex == FI!Spec

=============================================================================
