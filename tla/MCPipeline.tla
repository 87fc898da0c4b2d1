----------------------------- MODULE MCPipeline -------------------------------
(* The program sends vectors of up to three values, as basic-pipeline.ey does. *)
EXTENDS Pipeline
=============================================================================
