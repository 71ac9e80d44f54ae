---------------------------- MODULE MCSealedBlobs ----------------------------
(* Two repositories that own one digest: the first is uploaded once, the     *)
(* second in two sessions, as after a restart.                               *)
EXTENDS SealedBlobs, TLC
CONSTANTS a, b1, b2, x, y, d, c1, c2
MCUploads == {a, b1, b2}
MCRepos == {x, y}
MCRepoOf == [u \in MCUploads |-> IF u = a THEN x ELSE y]
MCDigestOf == [u \in MCUploads |-> d]
Symmetry == Permutations({b1, b2}) \cup Permutations({c1, c2})
=============================================================================
