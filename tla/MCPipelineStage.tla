--------------------------- MODULE MCPipelineStage ---------------------------
(* The instance of PipelineStage for TLC. *)
EXTENDS PipelineStage
==============================================================================
