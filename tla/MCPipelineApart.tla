-------------------------- MODULE MCPipelineApart ---------------------------
(* The small instances of MCPipeline, with the history of PipelineApart.   *)
EXTENDS MCPipeline, PipelineApart
=============================================================================
