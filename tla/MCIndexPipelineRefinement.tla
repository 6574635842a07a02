--------------------- MODULE MCIndexPipelineRefinement ---------------------
(***************************************************************************)
(* The refinement of IndexPipeline on small instances.                     *)
(***************************************************************************)
EXTENDS IndexPipelineRefinement

=============================================================================
