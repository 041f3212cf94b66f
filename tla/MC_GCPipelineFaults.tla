------------------------- MODULE MC_GCPipelineFaults --------------------------
(* The lines and streams of MC_GCPipeline, with the failure exits.        *)
EXTENDS GCPipelineFaults, MC_GCPipeline
================================================================================
