-------------------------- MODULE ExclusiveCleanup --------------------------
(***************************************************************************)
(* What the DMCR maintenance gate promises to the garbage collector: the   *)
(* destructive part of a cleanup cycle (deleting repository prefixes, the  *)
(* registry's own garbage-collect, deleting direct-upload objects) runs in *)
(* at most one replica at a time.                                          *)
(***************************************************************************)
CONSTANT Replica

VARIABLE cleaners      \* the replicas whose cleanup is running

TypeOK == cleaners \in SUBSET Replica

Init == cleaners = {}

Begin(r) == /\ cleaners = {}
            /\ cleaners' = {r}

End(r) == /\ cleaners = {r}
          /\ cleaners' = {}

Next == \E r \in Replica : Begin(r) \/ End(r)

Spec == Init /\ [][Next]_cleaners
=============================================================================
