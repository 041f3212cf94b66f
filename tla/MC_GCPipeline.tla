---------------------------- MODULE MC_GCPipeline -----------------------------
(* Three lines: two on one data stream, so that its                       *)
(* invalid_line can shadow one of them, and one on a BLOCK-mapped stream.  *)
EXTENDS GCPipeline

CONSTANTS L1, L2, L3

MCLines == {L1, L2, L3}
MCStream == (L1 :> "data") @@ (L2 :> "data") @@ (L3 :> "block")
(* Two lines, one per stream, for the liveness run. *)
MCTwoLines == {L1, L3}
(* Two lines of the data stream, for the victim choice. *)
MCDataLines == {L1, L2}
MCBlockStreams == {"block"}
MCDataStreams == {"data"}

================================================================================
