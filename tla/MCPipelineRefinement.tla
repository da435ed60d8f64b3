------------------------- MODULE MCPipelineRefinement -------------------------
(***************************************************************************)
(* The refinement on the small instances of MCConfigPipeline.              *)
(***************************************************************************)
EXTENDS MCConfigPipeline, PipelineRefinement

================================================================================
