-------------------------- MODULE MCOffsetsResult --------------------------
(***************************************************************************)
(* Every pair of vectors of up to three positions among four: ascending,   *)
(* unordered and with repetitions.                                         *)
(***************************************************************************)
EXTENDS OffsetsResult

CONSTANTS MaxOffset, MaxLen

MCResults == UNION {[1..n -> 1..MaxOffset] : n \in 0..MaxLen}

=============================================================================
