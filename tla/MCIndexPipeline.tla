-------------------------- MODULE MCIndexPipeline --------------------------
(***************************************************************************)
(* IndexPipeline on small instances. A trace file of one flow makes every  *)
(* flow a dump, so that dumps overtake the index threads.                  *)
(***************************************************************************)
EXTENDS IndexPipeline

=============================================================================
