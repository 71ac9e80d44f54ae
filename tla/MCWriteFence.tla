----------------------------- MODULE MCWriteFence -----------------------------
(***************************************************************************)
(* Two pods and the replacement of one of them.                            *)
(***************************************************************************)
EXTENDS WriteFence, TLC

CONSTANTS a, b, c

MCNoSkew == [r \in Replica |-> 0]
MCSkew == [r \in Replica |-> IF r = b THEN 1 ELSE 0]

FirstPodsSymmetry == Permutations(FirstPods)
=============================================================================
