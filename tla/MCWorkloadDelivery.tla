------------------------ MODULE MCWorkloadDelivery ------------------------
(* The three documented deployments: node cache, shared claims, neither. The     *)
(* second digest is too large for the cache, and the size of the first one is    *)
(* known or, with shared claims, not.                                            *)
EXTENDS WorkloadDelivery
Deployed(cached, classed, first) ==
  [cache |-> cached, class |-> classed, size |-> [d \in 0..2 |-> IF d = 1 THEN first ELSE d]]
DocumentedSettings == {Deployed(TRUE, FALSE, 1), Deployed(FALSE, TRUE, 1),
                       Deployed(FALSE, TRUE, 0), Deployed(FALSE, FALSE, 1)}
=============================================================================
