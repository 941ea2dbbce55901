---------------------------- MODULE MCPipelineStore ----------------------------
(* Small instances of PipelineStore; the constants are given in the cfg files. *)
EXTENDS PipelineStore
================================================================================
