----------------------------- MODULE MC_CMTCache ------------------------------
(* Two segments of two page groups, one stream of each map type.          *)
EXTENDS CMTCache

MCSegs == {0, 1}
MCGroups == {1, 2}
MCStreams == {0, 1, 2}
MCStreamType == (0 :> "sector") @@ (1 :> "block") @@ (2 :> "page")
MCLogSize == (0 :> 1) @@ (1 :> 2) @@ (2 :> 1)
================================================================================
