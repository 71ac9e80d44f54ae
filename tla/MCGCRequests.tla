---------------------------- MODULE MCGCRequests ----------------------------
\* Instances of GCRequests for TLC.
EXTENDS GCRequests, TLC

CONSTANTS e1, e2, o1, o2

ExecutorSymmetry == Permutations(Executor) \cup Permutations(Owner)
=============================================================================
