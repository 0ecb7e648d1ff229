--------------------------- MODULE MCPipelineRun ---------------------------
(* Small instances of a pipeline step for TLC.                             *)
EXTENDS PipelineRun, TLC
=============================================================================
