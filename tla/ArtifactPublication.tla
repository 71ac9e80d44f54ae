------------------------- MODULE ArtifactPublication -------------------------
(***************************************************************************)
(* What the publication of one artifact promises, whatever happens to the   *)
(* worker: layers are stored one at a time and stay, an artifact names only  *)
(* layers that are stored and stays published, a publication succeeds only   *)
(* when there is one, and it comes to an end that is final.                  *)
(***************************************************************************)
CONSTANT Layers
VARIABLES
  stored,     \* layers in the registry
  published,  \* layers of the published artifact
  outcome     \* of the publication

vars == <<stored, published, outcome>>

Init == stored = {} /\ published = {} /\ outcome = "pending"

Store ==
  /\ outcome = "pending"
  /\ \E l \in stored' \cap Layers : stored' = stored \cup {l}
  /\ UNCHANGED <<published, outcome>>

Publish ==
  /\ outcome = "pending"
  /\ published' \in (SUBSET stored) \ {{}}
  /\ UNCHANGED <<stored, outcome>>

Succeed ==
  /\ outcome = "pending" /\ published # {}
  /\ outcome' = "succeeded"
  /\ UNCHANGED <<stored, published>>

Fail ==
  /\ outcome = "pending"
  /\ outcome' = "failed"
  /\ UNCHANGED <<stored, published>>

Next ==
  \/ Store \/ Publish \/ Succeed \/ Fail

Spec == Init /\ [][Next]_vars

=============================================================================
