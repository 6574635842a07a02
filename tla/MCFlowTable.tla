---------------------------- MODULE MCFlowTable ----------------------------
(***************************************************************************)
(* FlowTable on a small instance: two flows whose hashes share a bucket.   *)
(***************************************************************************)
EXTENDS FlowTable

CONSTANTS t1, t2

OneBucketTuples == {t1, t2}
OneBucketOf == [t \in OneBucketTuples |-> 1]

=============================================================================
