------------------------ MODULE MCNodeCacheRuntime ------------------------
(* The API server that keeps objects the way they are written, and both.          *)
EXTENDS NodeCacheRuntime
KeepsObjects   == {[defaults |-> FALSE, immutable |-> FALSE]}
EveryApiServer == KeepsObjects \cup {[defaults |-> TRUE, immutable |-> TRUE]}
=============================================================================
