------------------------ MODULE NodeCacheRuntime_proofs ------------------------
(***************************************************************************)
(* Proofs about NodeCacheRuntime, for any number of nodes, turns, versions   *)
(* and faults. The informer may be behind, a reconcile works for many steps  *)
(* on the node it read, and the deletion of a claim names the claim alone:   *)
(* the claim of a selected node is safe because whoever is on the way to     *)
(* delete one has read a node that was not selected, and every claim of that *)
(* node was made for a selection the informer had seen by then.              *)
(***************************************************************************)
EXTENDS NodeCacheRuntime, TLAPS

(* What was read of a node is the node as it was: gone if it is gone, and of   *)
(* an earlier selection or the same one.                                      *)
Behind(o, n) ==
  node[n].exists => /\ o.exists /\ o.turn <= node[n].turn
                    /\ o.turn = node[n].turn => o.selected = node[n].selected
SeenBehind == \A n \in Nodes : Behind(seen[n].node, n)

(* A claim was made for a selection the informer has seen.                    *)
ClaimSeen == \A n \in Nodes : claim[n].exists /\ node[n].exists => claim[n].turn <= seen[n].node.turn

(* The reconcile makes claims for what it has read, and only on nodes that    *)
(* were selected then.                                                        *)
ReadBehind ==
  rec.at \in {"claim", "pod", "label"} => \A n \in rec.of :
    Behind(rec.read, n) /\ (node[n].exists => rec.read.turn <= seen[n].node.turn)
ReadSelected == rec.at \in {"claim", "pod"} => MatchesNode(rec.read)

(* Whoever is on the way to delete a claim deletes that of a past selection.  *)
ClaimPast(n) == claim[n].exists /\ MatchesNode(node[n]) => claim[n].turn < node[n].turn
Dropped == rec.at \in {"dropPod", "dropClaim"} \/ (rec.at = "label" /\ ~MatchesNode(rec.read))
DropsPast == Dropped => \A n \in rec.of : ClaimPast(n)

ClaimInv == TypeOK /\ SeenBehind /\ ClaimSeen /\ ReadBehind /\ ReadSelected /\ DropsPast

-----------------------------------------------------------------------------
(* Nothing is ready or being deleted that does not exist.                     *)
LiveOK(p) == p.phase # "pending" \/ p.deleting => p.exists

(* What the controller and Kubernetes write has its type.                     *)
LEMMA ObjectTypes ==
  ASSUME RuntimeAssumption, version \in 1..MaxVersions
  PROVE  /\ NoPod \in Pod /\ LiveOK(NoPod) /\ NoClaim \in Claim /\ NoNode \in Node
         /\ \A t \in 0..MaxTurns : /\ DesiredPod(t) \in Pod /\ LiveOK(DesiredPod(t))
                                   /\ DesiredPVC(t) \in Claim
         /\ Idle \in [at : {"idle"}, of : {{}}, read : {NoNode}]
  <1>1. MaxTurns \in Nat /\ MaxVersions \in Nat
    BY DEF RuntimeAssumption
  <1>2. NoPod \in Pod /\ LiveOK(NoPod) /\ NoClaim \in Claim /\ NoNode \in Node
    BY <1>1 DEF NoPod, LiveOK, Pod, NoClaim, Claim, NoNode, Node
  <1>3. ASSUME NEW t \in 0..MaxTurns
        PROVE  DesiredPod(t) \in Pod /\ LiveOK(DesiredPod(t)) /\ DesiredPVC(t) \in Claim
    <2>1. DesiredPod(t) \in Pod /\ DesiredPod(t).exists
      <3> DEFINE p == [NoPod EXCEPT !.exists = TRUE]
                 q == [p EXCEPT !.spec = version]
      <3>1. p \in Pod /\ p.exists
        BY <1>2 DEF Pod
      <3>2. version \in 0..MaxVersions
        BY <1>1
      <3> HIDE DEF p
      <3>3. q \in Pod /\ q.exists
        BY <3>1, <3>2 DEF Pod
      <3> HIDE DEF q
      <3>4. [q EXCEPT !.turn = t] \in Pod /\ [q EXCEPT !.turn = t].exists
        BY <3>3 DEF Pod
      <3> QED BY <3>4 DEF DesiredPod, p, q
    <2>2. DesiredPVC(t) \in Claim
      BY <1>1, <1>2 DEF DesiredPVC, Claim
    <2> QED BY <2>1, <2>2 DEF LiveOK
  <1> QED BY <1>2, <1>3 DEF Idle

(* Writes of the API server keep the types of its objects.                    *)
LEMMA PutPodTypes ==
  ASSUME TypeOK, NEW n \in Nodes, NEW p \in Pod, LiveOK(p), PutPod(n, p)
  PROVE  /\ pod' \in [Nodes -> Pod] /\ news' \subseteq Nodes \X {"node", "pod", "claim"}
         /\ \A m \in Nodes : pod'[m].phase # "pending" \/ pod'[m].deleting => pod'[m].exists
  BY DEF TypeOK, PutPod, LiveOK

LEMMA PutNodeTypes ==
  ASSUME TypeOK, NEW n \in Nodes, NEW o \in Node, PutNode(n, o)
  PROVE  node' \in [Nodes -> Node] /\ news' \subseteq Nodes \X {"node", "pod", "claim"}
  BY DEF TypeOK, PutNode

LEMMA PutClaimTypes ==
  ASSUME TypeOK, NEW n \in Nodes, NEW c \in Claim, PutClaim(n, c)
  PROVE  claim' \in [Nodes -> Claim] /\ news' \subseteq Nodes \X {"node", "pod", "claim"}
  BY DEF TypeOK, PutClaim

LEMMA DeletePodTypes ==
  ASSUME TypeOK, NEW n \in Nodes, DeletePod(n)
  PROVE  /\ pod' \in [Nodes -> Pod] /\ news' \subseteq Nodes \X {"node", "pod", "claim"}
         /\ \A m \in Nodes : pod'[m].phase # "pending" \/ pod'[m].deleting => pod'[m].exists
  <1>1. CASE ~pod[n].exists
    BY <1>1 DEF DeletePod, TypeOK
  <1>2. CASE pod[n].exists
    <2> DEFINE p == IF pod[n].phase = "pending" THEN NoPod ELSE [pod[n] EXCEPT !.deleting = TRUE]
    <2>0. pod[n] \in Pod
      BY DEF TypeOK
    <2>1. [pod[n] EXCEPT !.deleting = TRUE] \in Pod /\ LiveOK([pod[n] EXCEPT !.deleting = TRUE])
      BY <1>2, <2>0 DEF Pod, LiveOK
    <2>2. p \in Pod /\ LiveOK(p)
      BY <2>1, ObjectTypes, RuntimeAssumption DEF TypeOK
    <2>3. PutPod(n, p)
      BY <1>2 DEF DeletePod
    <2> HIDE DEF p
    <2> QED BY <2>2, <2>3, PutPodTypes
  <1> QED BY <1>1, <1>2

LEMMA DeleteClaimTypes ==
  ASSUME TypeOK, NEW n \in Nodes, DeleteClaim(n)
  PROVE  claim' \in [Nodes -> Claim] /\ news' \subseteq Nodes \X {"node", "pod", "claim"}
  <1>1. CASE ~claim[n].exists
    BY <1>1 DEF DeleteClaim, TypeOK
  <1>2. CASE claim[n].exists
    <2>0. claim[n] \in Claim
      BY DEF TypeOK
    <2>1. [claim[n] EXCEPT !.deleting = TRUE] \in Claim
      BY <2>0 DEF Claim
    <2> QED BY <1>2, <2>1, PutClaimTypes DEF DeleteClaim
  <1> QED BY <1>1, <1>2

(* The reconcile under way, and what a step makes of it.                      *)
RecType == [at : {"idle", "claim", "pod", "label", "dropPod", "dropClaim"}, of : SUBSET Nodes, read : Node]

LEMMA RecTypes ==
  ASSUME TypeOK
  PROVE  /\ rec \in RecType /\ Idle \in RecType
         /\ \A n \in Nodes : Dropping(n) \in RecType
         /\ \A a \in {"pod", "label", "dropClaim"} : [rec EXCEPT !.at = a] \in RecType
         /\ Retry => rec' \in RecType /\ queue' \subseteq Nodes
         /\ rec.read.turn \in 0..MaxTurns
  <1>1. rec \in RecType
    BY DEF TypeOK, RecType
  <1>2. Idle \in RecType
    BY ObjectTypes, RuntimeAssumption DEF TypeOK, Idle, RecType
  <1>3. \A n \in Nodes : Dropping(n) \in RecType
    BY <1>2 DEF Dropping, RecType
  <1>4. \A a \in {"pod", "label", "dropClaim"} : [rec EXCEPT !.at = a] \in RecType
    BY <1>1 DEF RecType
  <1>5. Retry => rec' \in RecType /\ queue' \subseteq Nodes
    BY <1>1, <1>2 DEF Retry, TypeOK, RecType
  <1>6. rec.read.turn \in 0..MaxTurns
    BY DEF TypeOK, Node
  <1> QED BY <1>1, <1>2, <1>3, <1>4, <1>5, <1>6

(* Types, action by action.                                                   *)
LEMMA RuntimeTypes ==
  ASSUME TypeOK, NEW n \in Nodes,
         \/ Reconcile(n) \/ EnsureClaim(n) \/ createOrReplacePod(n)
         \/ setRuntimeReadyLabel(n) \/ DropPod(n) \/ DropClaim(n)
  PROVE  TypeOK'
  <1> USE RecTypes, ObjectTypes, RuntimeAssumption
  <1>0. version \in 1..MaxVersions
    BY DEF TypeOK
  <1>1. CASE Reconcile(n)
    <2>1. rec' \in RecType
      <3>1. seen[n].node \in Node
        BY DEF TypeOK
      <3>2. CASE ~seen[n].node.exists
        BY <1>1, <3>2 DEF Reconcile
      <3>3. CASE seen[n].node.exists
        BY <1>1, <3>1, <3>3 DEF Reconcile, RecType
      <3> QED BY <3>2, <3>3
    <2> QED BY <1>1, <2>1 DEF Reconcile, TypeOK, RecType, objects, substrateVars
  <1>2. CASE EnsureClaim(n)
    <2>1. claim' \in [Nodes -> Claim] /\ news' \subseteq Nodes \X {"node", "pod", "claim"}
      <3>1. CASE PutClaim(n, DesiredPVC(rec.read.turn))
        <4>1. DesiredPVC(rec.read.turn) \in Claim
          BY <1>0
        <4> QED BY <3>1, <4>1, PutClaimTypes
      <3>2. CASE UNCHANGED <<claim, news>>
        BY <3>2 DEF TypeOK
      <3> QED BY <1>2, <3>1, <3>2 DEF EnsureClaim
    <2>2. rec' \in RecType /\ queue' \subseteq Nodes
      <3>1. CASE Goto("pod")
        BY <3>1 DEF Goto, TypeOK
      <3>2. CASE Retry
        BY <3>2
      <3> QED BY <1>2, <3>1, <3>2 DEF EnsureClaim
    <2> QED BY <1>2, <2>1, <2>2 DEF EnsureClaim, TypeOK, RecType, substrateVars
  <1>3. CASE createOrReplacePod(n)
    <2>1. /\ pod' \in [Nodes -> Pod] /\ news' \subseteq Nodes \X {"node", "pod", "claim"}
          /\ \A m \in Nodes : pod'[m].phase # "pending" \/ pod'[m].deleting => pod'[m].exists
      <3>1. CASE PutPod(n, DesiredPod(rec.read.turn))
        <4>1. DesiredPod(rec.read.turn) \in Pod /\ LiveOK(DesiredPod(rec.read.turn))
          BY <1>0
        <4> QED BY <3>1, <4>1, PutPodTypes
      <3>2. CASE UNCHANGED <<pod, news>>
        BY <3>2 DEF TypeOK
      <3>3. CASE ReplacePod(n)
        BY <3>3, DeletePodTypes DEF ReplacePod
      <3> QED BY <1>3, <3>1, <3>2, <3>3 DEF createOrReplacePod
    <2>2. rec' \in RecType /\ queue' \subseteq Nodes
      <3>1. CASE Goto("label")
        BY <3>1 DEF Goto, TypeOK
      <3>2. CASE Retry
        BY <3>2
      <3> QED BY <1>3, <3>1, <3>2 DEF createOrReplacePod, ReplacePod
    <2> QED BY <1>3, <2>1, <2>2 DEF createOrReplacePod, TypeOK, RecType, substrateVars
  <1>4. CASE setRuntimeReadyLabel(n)
    <2>1. node' \in [Nodes -> Node] /\ news' \subseteq Nodes \X {"node", "pod", "claim"}
      <3>1. CASE UNCHANGED <<node, news>>
        BY <3>1 DEF TypeOK
      <3>2. ASSUME NEW b \in BOOLEAN, PutNode(n, [node[n] EXCEPT !.label = b])
            PROVE  node' \in [Nodes -> Node] /\ news' \subseteq Nodes \X {"node", "pod", "claim"}
        <4>0. node[n] \in Node
          BY DEF TypeOK
        <4>1. [node[n] EXCEPT !.label = b] \in Node
          BY <4>0 DEF Node
        <4> QED BY <3>2, <4>1, PutNodeTypes
      <3>3. (MatchesNode(rec.read) /\ RuntimeReady(seen[n])) \in BOOLEAN
        BY DEF MatchesNode
      <3>4. \/ UNCHANGED <<node, news>>
            \/ PutNode(n, [node[n] EXCEPT !.label = MatchesNode(rec.read) /\ RuntimeReady(seen[n])])
        BY <1>4 DEF setRuntimeReadyLabel
      <3> QED BY <3>1, <3>2, <3>3, <3>4
    <2>2. rec' \in RecType /\ queue' \subseteq Nodes
      BY <1>4 DEF setRuntimeReadyLabel, TypeOK
    <2> QED BY <1>4, <2>1, <2>2 DEF setRuntimeReadyLabel, TypeOK, RecType, substrateVars
  <1>5. CASE DropPod(n)
    <2>1. rec' \in RecType /\ queue' \subseteq Nodes
      BY <1>5 DEF DropPod, Goto, TypeOK
    <2> QED BY <1>5, <2>1, DeletePodTypes DEF DropPod, TypeOK, RecType, substrateVars
  <1>6. CASE DropClaim(n)
    <2>1. rec' \in RecType /\ queue' \subseteq Nodes
      BY <1>6 DEF DropClaim, Finish, TypeOK
    <2> QED BY <1>6, <2>1, DeleteClaimTypes DEF DropClaim, TypeOK, RecType, substrateVars
  <1> QED BY <1>1, <1>2, <1>3, <1>4, <1>5, <1>6

LEMMA ControllerTypes ==
  ASSUME TypeOK, CallFails \/ Watch \/ Substrate \/ SubstrateFails \/ Restart
  PROVE  TypeOK'
  <1> USE RecTypes, RuntimeAssumption
  <1>0. faults \in 0..MaxFaults /\ MaxFaults \in Nat /\ MaxVersions \in Nat
    BY DEF TypeOK, RuntimeAssumption
  <1>1. CASE CallFails
    <2>1. faults' \in 0..MaxFaults
      BY <1>0, <1>1 DEF CallFails
    <2> QED BY <1>1, <2>1 DEF CallFails, TypeOK, RecType, objects, substrateVars
  <1>2. ASSUME NEW n \in Nodes, NEW kind \in {"node", "pod", "claim"}, See(n, kind)
        PROVE  TypeOK'
    <2>1. [node |-> IF kind = "node" THEN node[n] ELSE seen[n].node,
           pod |-> IF kind = "pod" THEN pod[n] ELSE seen[n].pod,
           claim |-> IF kind = "claim" THEN claim[n] ELSE seen[n].claim] \in [node : Node, pod : Pod, claim : Claim]
      BY DEF TypeOK
    <2>2. seen' \in [Nodes -> [node : Node, pod : Pod, claim : Claim]]
      BY <1>2, <2>1 DEF See, TypeOK
    <2>3. news' \subseteq Nodes \X {"node", "pod", "claim"} /\ queue' \subseteq Nodes
      BY <1>2 DEF See, Requests, TypeOK
    <2> QED BY <1>2, <2>2, <2>3 DEF See, TypeOK, objects, substrateVars
  <1>3. CASE Substrate
    <2>1. ReadyGroups \subseteq Nodes
      BY DEF ReadyGroups
    <2>2. CASE ReconcileGroups
      BY <2>1, <2>2 DEF ReconcileGroups, IdleSub, DesiredGroupSet, TypeOK, objects, runtimeVars
    <2>3. CASE ensureLocalStorageClass
      BY <2>3 DEF ensureLocalStorageClass, IdleSub, DesiredClass, TypeOK, objects, runtimeVars
    <2> QED BY <1>3, <2>2, <2>3 DEF Substrate
  <1>4. CASE SubstrateFails
    <2>1. faults' \in 0..MaxFaults
      BY <1>0, <1>4 DEF SubstrateFails
    <2> QED BY <1>4, <2>1 DEF SubstrateFails, IdleSub, TypeOK, objects, runtimeVars
  <1>5. CASE Restart
    <2>1. faults' \in 0..MaxFaults /\ version' \in 1..MaxVersions
      BY <1>0, <1>5 DEF Restart, TypeOK
    <2>2. seen' \in [Nodes -> [node : Node, pod : Pod, claim : Claim]]
      BY <1>5 DEF Restart, TypeOK
    <2>3. sub' \in [at : {"idle", "class"}, list : SUBSET Nodes, queued : BOOLEAN]
      BY <1>5 DEF Restart, IdleSub
    <2> QED BY <1>5, <2>1, <2>2, <2>3 DEF Restart, TypeOK, RecType, objects
  <1> QED BY <1>1, <1>2, <1>3, <1>4, <1>5 DEF Watch

LEMMA KubernetesTypes ==
  ASSUME TypeOK, NEW n \in Nodes,
         StartPod(n) \/ EndPod(n) \/ BindClaim(n) \/ EndClaim(n) \/ MakeGroup(n)
  PROVE  TypeOK'
  <1> USE ObjectTypes, RuntimeAssumption
  <1>1. CASE StartPod(n)
    <2>1. [pod[n] EXCEPT !.phase = "ready"] \in Pod /\ LiveOK([pod[n] EXCEPT !.phase = "ready"])
      <3>1. pod[n] \in Pod
        BY DEF TypeOK
      <3> QED BY <1>1, <3>1 DEF StartPod, Pod, LiveOK
    <2> QED BY <1>1, <2>1, PutPodTypes DEF StartPod, TypeOK, runtimeVars, substrateVars
  <1>2. CASE EndPod(n)
    <2>1. PutPod(n, NoPod) /\ NoPod \in Pod /\ LiveOK(NoPod)
      BY <1>2 DEF EndPod, TypeOK
    <2> QED BY <1>2, <2>1, PutPodTypes DEF EndPod, TypeOK, runtimeVars, substrateVars
  <1>3. CASE BindClaim(n)
    <2>0. claim[n] \in Claim
      BY DEF TypeOK
    <2>1. [claim[n] EXCEPT !.bound = TRUE] \in Claim
      BY <2>0 DEF Claim
    <2> QED BY <1>3, <2>1, PutClaimTypes DEF BindClaim, TypeOK, runtimeVars, substrateVars
  <1>4. CASE EndClaim(n)
    <2>1. PutClaim(n, NoClaim) /\ NoClaim \in Claim
      BY <1>4 DEF EndClaim, TypeOK
    <2> QED BY <1>4, <2>1, PutClaimTypes DEF EndClaim, TypeOK, runtimeVars, substrateVars
  <1>5. CASE MakeGroup(n)
    BY <1>5 DEF MakeGroup, PutGroup, TypeOK, objects, runtimeVars
  <1> QED BY <1>1, <1>2, <1>3, <1>4, <1>5

LEMMA EnvironmentTypes ==
  ASSUME TypeOK, Environment
  PROVE  TypeOK'
  <1> USE ObjectTypes, RuntimeAssumption
  <1>0. faults \in 0..MaxFaults /\ MaxFaults \in Nat /\ MaxTurns \in Nat
    BY DEF TypeOK, RuntimeAssumption
  <1>1. CASE EditSubstrate
    <2>1. faults' \in 0..MaxFaults
      BY <1>0, <1>1 DEF EditSubstrate
    <2>2. class' \in [exists : BOOLEAN, groups : SUBSET Nodes]
      BY <1>1 DEF EditSubstrate, TypeOK
    <2>3. sub' \in [at : {"idle", "class"}, list : SUBSET Nodes, queued : BOOLEAN]
      BY <1>1 DEF EditSubstrate, TypeOK
    <2> QED BY <1>1, <2>1, <2>2, <2>3 DEF EditSubstrate, TypeOK, objects, runtimeVars
  <1>2. ASSUME NEW n \in Nodes, ReportRuntimeUsage(n) \/ StopPod(n) PROVE TypeOK'
    <2>1. faults' \in 0..MaxFaults
      BY <1>0, <1>2 DEF ReportRuntimeUsage, StopPod
    <2>2. \E p \in Pod : LiveOK(p) /\ PutPod(n, p)
      <3>0. pod[n] \in Pod
        BY DEF TypeOK
      <3>1. [pod[n] EXCEPT !.reported = TRUE] \in Pod /\ [pod[n] EXCEPT !.phase = "failing"] \in Pod
        BY <3>0 DEF Pod
      <3>2. /\ LiveOK([pod[n] EXCEPT !.reported = TRUE]) /\ LiveOK([pod[n] EXCEPT !.phase = "failing"])
        BY <1>2 DEF ReportRuntimeUsage, StopPod, PodReady, TypeOK, Pod, LiveOK
      <3> QED BY <1>2, <3>1, <3>2 DEF ReportRuntimeUsage, StopPod
    <2> QED BY <1>2, <2>1, <2>2, PutPodTypes DEF ReportRuntimeUsage, StopPod, TypeOK, runtimeVars, substrateVars
  <1>3. ASSUME NEW n \in Nodes, EditLabel(n) PROVE TypeOK'
    <2>1. faults' \in 0..MaxFaults
      BY <1>0, <1>3 DEF EditLabel
    <2>2. [node[n] EXCEPT !.label = ~node[n].label] \in Node
      <3>1. node[n] \in Node
        BY DEF TypeOK
      <3> QED BY <3>1 DEF Node
    <2> QED BY <1>3, <2>1, <2>2, PutNodeTypes DEF EditLabel, TypeOK, runtimeVars, substrateVars
  <1>4. ASSUME NEW n \in Nodes, BreakGroup(n) PROVE TypeOK'
    <2>1. faults' \in 0..MaxFaults
      BY <1>0, <1>4 DEF BreakGroup
    <2> QED BY <1>4, <2>1 DEF BreakGroup, PutGroup, TypeOK, objects, runtimeVars
  <1>5. ASSUME NEW n \in Nodes, NEW exists \in BOOLEAN, NEW selected \in BOOLEAN, Select(n, exists, selected)
        PROVE  TypeOK'
    <2>1. [node[n] EXCEPT !.selected = selected, !.turn = node[n].turn + 1] \in Node
      <3>1. node[n] \in Node
        BY DEF TypeOK
      <3>2. node[n].turn + 1 \in 0..MaxTurns
        BY <1>0, <1>5, <3>1 DEF Select, Node
      <3> QED BY <3>1, <3>2 DEF Node
    <2>2. NoNode \in Node
      BY DEF TypeOK
    <2>3. \E o \in Node : PutNode(n, o)
      BY <1>5, <2>1, <2>2 DEF Select
    <2> QED BY <1>5, <2>3, PutNodeTypes DEF Select, TypeOK, runtimeVars, substrateVars
  <1> QED BY <1>1, <1>2, <1>3, <1>4, <1>5 DEF Environment

LEMMA TypeStep == TypeOK /\ [Next]_vars => TypeOK'
  <1> SUFFICES ASSUME TypeOK, [Next]_vars PROVE TypeOK'
    OBVIOUS
  <1>1. CASE UNCHANGED vars
    BY <1>1 DEF vars, TypeOK, objects, runtimeVars, substrateVars
  <1>2. CASE Runtime
    BY <1>2, RuntimeTypes DEF Runtime
  <1>3. CASE CallFails \/ Watch \/ Substrate \/ SubstrateFails \/ Restart
    BY <1>3, ControllerTypes
  <1>4. CASE Kubernetes
    BY <1>4, KubernetesTypes DEF Kubernetes
  <1>5. CASE Environment
    BY <1>5, EnvironmentTypes
  <1> QED BY <1>1, <1>2, <1>3, <1>4, <1>5 DEF Next

LEMMA TypeInit == Init => TypeOK
  <1> SUFFICES ASSUME Init PROVE TypeOK
    OBVIOUS
  <1> USE RuntimeAssumption
  <1>1. version \in 1..MaxVersions /\ faults \in 0..MaxFaults /\ MaxTurns \in Nat
    BY DEF Init, RuntimeAssumption
  <1>2. /\ NoPod \in Pod /\ LiveOK(NoPod) /\ NoClaim \in Claim /\ NoNode \in Node
        /\ Idle \in [at : {"idle"}, of : {{}}, read : {NoNode}]
    BY <1>1, ObjectTypes
  <1>3. rec \in [at : {"idle", "claim", "pod", "label", "dropPod", "dropClaim"}, of : SUBSET Nodes, read : Node]
    BY <1>2 DEF Init
  <1>4. node \in [Nodes -> Node]
    BY <1>1 DEF Init, Node
  <1>5. seen \in [Nodes -> [node : Node, pod : Pod, claim : Claim]]
    BY <1>2, <1>4 DEF Init
  <1>6. sub \in [at : {"idle", "class"}, list : SUBSET Nodes, queued : BOOLEAN]
    BY DEF Init, IdleSub
  <1>7. \A n \in Nodes : pod[n].phase # "pending" \/ pod[n].deleting => pod[n].exists
    BY <1>2 DEF Init, LiveOK
  <1> QED BY <1>1, <1>2, <1>3, <1>4, <1>5, <1>6, <1>7 DEF Init, TypeOK

-----------------------------------------------------------------------------
(* What most steps have in common: the selection of the nodes stays, a claim  *)
(* is one that was there or the one of the reconcile, which goes on or ends.  *)
SameNodes == \A m \in Nodes :
  /\ node'[m].exists = node[m].exists /\ node'[m].selected = node[m].selected
  /\ node'[m].turn = node[m].turn

OldClaims == \A m \in Nodes :
  claim'[m].exists => \/ claim[m].exists /\ claim'[m].turn = claim[m].turn
                      \/ /\ rec.at = "claim" /\ rec'.at = "pod" /\ m \in rec.of
                         /\ claim'[m].turn = rec.read.turn

Onward == \/ rec'.at = "idle" \/ rec' = rec
          \/ /\ rec.at \in {"claim", "pod"} /\ rec'.at \in {"pod", "label"}
             /\ rec'.of = rec.of /\ rec'.read = rec.read
          \/ Dropped /\ rec'.at \in {"dropPod", "dropClaim"} /\ rec'.of \subseteq rec.of

LEMMA CalmStep ==
  ASSUME ClaimInv, TypeOK', UNCHANGED seen, SameNodes, OldClaims, Onward
  PROVE  ClaimInv'
  <1> USE DEF ClaimInv
  <1>1. SeenBehind'
    BY DEF SeenBehind, Behind, SameNodes
  <1>2. ClaimSeen'
    BY DEF ClaimSeen, SameNodes, OldClaims, ReadBehind
  <1>3. ReadBehind'
    <2>1. SUFFICES ASSUME rec'.at \in {"claim", "pod", "label"}, NEW n \in rec'.of
                   PROVE  (Behind(rec.read, n) /\ (node[n].exists => rec.read.turn <= seen[n].node.turn))'
      BY DEF ReadBehind
    <2>2. rec.at \in {"claim", "pod", "label"} /\ rec'.of = rec.of /\ rec'.read = rec.read
      BY <2>1 DEF Onward
    <2>3. n \in Nodes
      BY <2>1, <2>2 DEF TypeOK
    <2> QED BY <2>1, <2>2, <2>3 DEF ReadBehind, Behind, SameNodes
  <1>4. ReadSelected'
    BY DEF ReadSelected, MatchesNode, Onward
  <1>5. DropsPast'
    <2>1. SUFFICES ASSUME Dropped', NEW n \in rec'.of PROVE ClaimPast(n)'
      BY DEF DropsPast
    <2>2. Dropped /\ n \in rec.of
      BY <2>1 DEF Dropped, Onward, ReadSelected
    <2>3. n \in Nodes
      BY <2>2 DEF TypeOK
    <2>4. rec'.at # "pod" \/ rec.at # "claim"
      BY <2>2 DEF Dropped
    <2> QED BY <2>2, <2>3, <2>4 DEF DropsPast, ClaimPast, MatchesNode, SameNodes, OldClaims
  <1> QED BY <1>1, <1>2, <1>3, <1>4, <1>5

LEMMA RecFields ==
  ASSUME TypeOK
  PROVE  /\ Idle.at = "idle"
         /\ \A n \in Nodes : Dropping(n).at = "dropPod" /\ Dropping(n).of = {n}
         /\ \A a : [rec EXCEPT !.at = a].of = rec.of /\ [rec EXCEPT !.at = a].read = rec.read
         /\ \A a \in {"pod", "label", "dropClaim"} : [rec EXCEPT !.at = a].at = a
         /\ \A t : DesiredPVC(t).turn = t /\ ~DesiredPVC(t).deleting
  <1>1. rec \in RecType
    BY RecTypes
  <1>2. Idle.at = "idle" /\ (\A n \in Nodes : Dropping(n).at = "dropPod" /\ Dropping(n).of = {n})
    BY DEF Idle, Dropping
  <1>3. \A a : [rec EXCEPT !.at = a].of = rec.of /\ [rec EXCEPT !.at = a].read = rec.read
    BY <1>1 DEF RecType
  <1>4. \A a \in {"pod", "label", "dropClaim"} : [rec EXCEPT !.at = a].at = a
    BY <1>1 DEF RecType
  <1>5. \A t : DesiredPVC(t).turn = t /\ ~DesiredPVC(t).deleting
    BY DEF DesiredPVC, NoClaim
  <1> QED BY <1>2, <1>3, <1>4, <1>5

(* A claim loses nothing but its binding, or goes.                            *)
LEMMA DeleteClaimEffect ==
  ASSUME TypeOK, NEW n \in Nodes, DeleteClaim(n)
  PROVE  \A m \in Nodes : /\ claim'[m].exists => claim[m].exists /\ claim'[m].turn = claim[m].turn
                          /\ m # n => claim'[m] = claim[m]
  <1>1. claim[n] \in Claim
    BY DEF TypeOK
  <1>2. CASE ~claim[n].exists
    BY <1>2 DEF DeleteClaim, TypeOK
  <1>3. CASE claim[n].exists
    <2>1. claim' = [claim EXCEPT ![n] = [claim[n] EXCEPT !.deleting = TRUE]]
      BY <1>3 DEF DeleteClaim, PutClaim
    <2>2. [claim[n] EXCEPT !.deleting = TRUE].exists /\ [claim[n] EXCEPT !.deleting = TRUE].turn = claim[n].turn
      BY <1>1, <1>3 DEF Claim
    <2> QED BY <1>3, <2>1, <2>2 DEF TypeOK
  <1> QED BY <1>2, <1>3

(* The runtime controller.                                                    *)
LEMMA RuntimeKeepsInv ==
  ASSUME ClaimInv, TypeOK', NEW n \in Nodes,
         \/ Reconcile(n) \/ EnsureClaim(n) \/ createOrReplacePod(n)
         \/ setRuntimeReadyLabel(n) \/ DropPod(n) \/ DropClaim(n)
  PROVE  ClaimInv'
  <1> USE DEF ClaimInv
  <1>1. CASE Reconcile(n)
    <2> DEFINE o == seen[n].node
    <2>1. UNCHANGED <<node, claim, seen>> /\ n \in Nodes
      BY <1>1 DEF Reconcile, objects
    <2>2. SeenBehind' /\ ClaimSeen'
      BY <2>1 DEF SeenBehind, ClaimSeen, Behind
    <2>3. CASE ~o.exists
      <3>1. rec'.at = "dropPod" /\ rec'.of = {n}
        BY <1>1, <2>3, RecFields DEF Reconcile
      <3>2. ~node[n].exists
        BY <2>3 DEF SeenBehind, Behind
      <3>3. DropsPast'
        BY <2>1, <3>1, <3>2 DEF DropsPast, ClaimPast, MatchesNode
      <3> QED BY <2>2, <3>1, <3>3 DEF ReadBehind, ReadSelected
    <2>4. CASE o.exists
      <3>1. /\ rec'.of = {n} /\ rec'.read = o
            /\ rec'.at = IF MatchesNode(o) THEN "claim" ELSE "label"
        BY <1>1, <2>4 DEF Reconcile
      <3>2. ReadBehind'
        <4>1. o \in Node
          BY DEF TypeOK
        <4>2. o.turn <= o.turn
          BY <4>1 DEF Node
        <4> QED BY <2>1, <3>1, <4>2 DEF ReadBehind, SeenBehind, Behind
      <3>3. ReadSelected'
        BY <3>1 DEF ReadSelected
      <3>4. DropsPast'
        <4>1. SUFFICES ASSUME Dropped' PROVE ClaimPast(n)'
          BY <3>1 DEF DropsPast
        <4>2. ~MatchesNode(o)
          BY <3>1, <4>1 DEF Dropped
        <4>3. claim[n].exists /\ MatchesNode(node[n]) => claim[n].turn <= o.turn /\ o.turn < node[n].turn
          <5>1. o \in Node /\ node[n] \in Node
            BY DEF TypeOK
          <5>2. o.turn \in Nat /\ node[n].turn \in Nat
            BY <5>1 DEF Node
          <5> QED BY <2>4, <4>2, <5>2 DEF ClaimSeen, SeenBehind, Behind, MatchesNode
        <4>4. claim[n] \in Claim /\ o \in Node /\ node[n] \in Node
          BY DEF TypeOK
        <4>5. claim[n].turn \in Nat /\ o.turn \in Nat /\ node[n].turn \in Nat
          BY <4>4 DEF Claim, Node
        <4> QED BY <2>1, <4>3, <4>5 DEF ClaimPast, MatchesNode
      <3> QED BY <2>2, <3>2, <3>3, <3>4
    <2> QED BY <2>3, <2>4
  <1>2. CASE EnsureClaim(n)
    <2>1. UNCHANGED <<node, seen>> /\ rec.at = "claim" /\ n \in rec.of
      BY <1>2 DEF EnsureClaim
    <2>2. CASE Retry /\ UNCHANGED claim
      BY <2>1, <2>2, RecFields, CalmStep DEF Retry, SameNodes, OldClaims, Onward
    <2>3. CASE Goto("pod") /\ (UNCHANGED claim \/ PutClaim(n, DesiredPVC(rec.read.turn)))
      <3>1. rec'.at = "pod" /\ rec'.of = rec.of /\ rec'.read = rec.read
        BY <2>3, RecFields DEF Goto
      <3>2. OldClaims
        <4>1. CASE UNCHANGED claim
          BY <4>1 DEF OldClaims
        <4>2. CASE PutClaim(n, DesiredPVC(rec.read.turn))
          <5>1. \A m \in Nodes : claim'[m] = IF m = n THEN DesiredPVC(rec.read.turn) ELSE claim[m]
            BY <4>2 DEF PutClaim, TypeOK
          <5> QED BY <2>1, <3>1, <5>1, RecFields DEF OldClaims
        <4> QED BY <2>3, <4>1, <4>2
      <3> QED BY <2>1, <3>1, <3>2, CalmStep DEF SameNodes, Onward
    <2> QED BY <1>2, <2>2, <2>3 DEF EnsureClaim
  <1>3. CASE createOrReplacePod(n)
    <2>1. UNCHANGED <<node, seen, claim>> /\ rec.at = "pod" /\ (Retry \/ Goto("label"))
      BY <1>3 DEF createOrReplacePod, ReplacePod
    <2>2. CASE Retry
      BY <2>1, <2>2, RecFields, CalmStep DEF Retry, SameNodes, OldClaims, Onward
    <2>3. CASE Goto("label")
      <3>1. rec'.at = "label" /\ rec'.of = rec.of /\ rec'.read = rec.read
        BY <2>3, RecFields DEF Goto
      <3> QED BY <2>1, <3>1, CalmStep DEF SameNodes, OldClaims, Onward
    <2> QED BY <2>1, <2>2, <2>3
  <1>4. CASE setRuntimeReadyLabel(n)
    <2>1. UNCHANGED <<seen, claim>> /\ rec.at = "label" /\ n \in rec.of
      BY <1>4 DEF setRuntimeReadyLabel
    <2>2. SameNodes
      <3>1. UNCHANGED node \/ \E b : PutNode(n, [node[n] EXCEPT !.label = b])
        BY <1>4 DEF setRuntimeReadyLabel
      <3>2. CASE UNCHANGED node
        BY <3>2 DEF SameNodes
      <3>3. ASSUME NEW b, PutNode(n, [node[n] EXCEPT !.label = b]) PROVE SameNodes
        <4>1. node[n] \in Node /\ node' = [node EXCEPT ![n] = [node[n] EXCEPT !.label = b]]
          BY <3>3 DEF TypeOK, PutNode
        <4> QED BY <4>1 DEF SameNodes, TypeOK, Node
      <3> QED BY <3>1, <3>2, <3>3
    <2>3. Onward
      <3>1. CASE rec' = Idle
        BY <3>1, RecFields DEF Onward
      <3>2. CASE rec' = Dropping(n) /\ ~MatchesNode(rec.read)
        BY <2>1, <3>2, RecFields DEF Onward, Dropped
      <3> QED BY <1>4, <3>1, <3>2 DEF setRuntimeReadyLabel, Retry
    <2> QED BY <2>1, <2>2, <2>3, CalmStep DEF OldClaims
  <1>5. CASE DropPod(n)
    <2>1. UNCHANGED <<node, seen, claim>> /\ rec.at = "dropPod" /\ Goto("dropClaim")
      BY <1>5 DEF DropPod
    <2>2. Onward
      BY <2>1, RecFields DEF Onward, Goto, Dropped
    <2> QED BY <2>1, <2>2, CalmStep DEF SameNodes, OldClaims
  <1>6. CASE DropClaim(n)
    <2>1. UNCHANGED <<node, seen>> /\ DeleteClaim(n) /\ rec' = Idle
      BY <1>6 DEF DropClaim, Finish
    <2> QED BY <2>1, RecFields, DeleteClaimEffect, CalmStep DEF SameNodes, OldClaims, Onward
  <1> QED BY <1>1, <1>2, <1>3, <1>4, <1>5, <1>6

(* Every step; what is seen and what administrators select come last.         *)
LEMMA ClaimStep == ClaimInv /\ [Next]_vars => ClaimInv'
  <1> SUFFICES ASSUME ClaimInv, [Next]_vars PROVE ClaimInv'
    OBVIOUS
  <1> USE DEF ClaimInv
  <1>0. TypeOK'
    BY TypeStep
  <1>1. ASSUME UNCHANGED <<node, claim, seen, rec>> PROVE ClaimInv'
    BY <1>0, <1>1, CalmStep DEF SameNodes, OldClaims, Onward
  <1>2. CASE UNCHANGED vars
    BY <1>1, <1>2 DEF vars, objects, runtimeVars
  <1>3. CASE Runtime
    BY <1>0, <1>3, RuntimeKeepsInv DEF Runtime
  <1>4. CASE CallFails
    BY <1>0, <1>4, RecFields, CalmStep DEF CallFails, objects, Retry, SameNodes, OldClaims, Onward
  <1>5. ASSUME NEW n \in Nodes, NEW kind \in {"node", "pod", "claim"}, See(n, kind)
        PROVE  ClaimInv'
    <2>1. UNCHANGED <<node, claim, rec>>
      BY <1>5 DEF See, objects
    <2>2. \A m \in Nodes : \/ seen'[m].node = seen[m].node
                           \/ seen'[m].node = node[m]
      BY <1>5 DEF See, TypeOK
    <2>3. \A m \in Nodes : /\ node[m].turn \in Nat /\ seen[m].node.turn \in Nat /\ claim[m].turn \in Nat
                           /\ node[m].turn <= node[m].turn
      <3>1. \A m \in Nodes : node[m] \in Node /\ seen[m].node \in Node /\ claim[m] \in Claim
        BY DEF TypeOK
      <3> QED BY <3>1 DEF Node, Claim
    <2>4. SeenBehind'
      BY <2>1, <2>2, <2>3 DEF SeenBehind, Behind
    <2>5. ClaimSeen'
      BY <2>1, <2>2, <2>3 DEF ClaimSeen, SeenBehind, Behind
    <2>6. ReadBehind'
      <3>1. \A m \in rec.of : m \in Nodes
        BY DEF TypeOK
      <3> QED BY <2>1, <2>2, <3>1 DEF ReadBehind, Behind
    <2>7. ReadSelected' /\ DropsPast'
      BY <2>1 DEF ReadSelected, DropsPast, Dropped, ClaimPast, MatchesNode
    <2> QED BY <1>0, <2>4, <2>5, <2>6, <2>7
  <1>6. CASE Substrate \/ SubstrateFails
    BY <1>1, <1>6 DEF Substrate, ReconcileGroups, ensureLocalStorageClass, SubstrateFails, objects, runtimeVars
  <1>7. CASE Restart
    <2>1. UNCHANGED <<node, claim>> /\ rec'.at = "idle" /\ (\A m \in Nodes : seen'[m].node = node[m])
      BY <1>7, RecFields DEF Restart, objects
    <2>2. \A m \in Nodes : /\ node[m].turn \in Nat /\ seen[m].node.turn \in Nat /\ claim[m].turn \in Nat
                           /\ node[m].turn <= node[m].turn
      <3>1. \A m \in Nodes : node[m] \in Node /\ seen[m].node \in Node /\ claim[m] \in Claim
        BY DEF TypeOK
      <3> QED BY <3>1 DEF Node, Claim
    <2>3. SeenBehind'
      BY <2>1, <2>2 DEF SeenBehind, Behind
    <2>4. ClaimSeen'
      BY <2>1, <2>2 DEF ClaimSeen, SeenBehind, Behind
    <2> QED BY <1>0, <2>1, <2>3, <2>4 DEF ReadBehind, ReadSelected, DropsPast, Dropped
  <1>8. ASSUME NEW n \in Nodes, StartPod(n) \/ EndPod(n) \/ BindClaim(n) \/ EndClaim(n) \/ MakeGroup(n)
        PROVE  ClaimInv'
    <2>1. CASE StartPod(n) \/ EndPod(n) \/ MakeGroup(n)
      BY <1>1, <2>1 DEF StartPod, EndPod, MakeGroup, objects, runtimeVars
    <2>2. CASE BindClaim(n) \/ EndClaim(n)
      <3>1. UNCHANGED <<node, seen, rec>>
        BY <2>2 DEF BindClaim, EndClaim, runtimeVars
      <3>2. OldClaims
        <4>1. CASE BindClaim(n)
          <5>1. claim[n] \in Claim /\ claim' = [claim EXCEPT ![n] = [claim[n] EXCEPT !.bound = TRUE]]
            BY <4>1 DEF TypeOK, BindClaim, PutClaim
          <5>2. [claim[n] EXCEPT !.bound = TRUE].exists = claim[n].exists /\ [claim[n] EXCEPT !.bound = TRUE].turn = claim[n].turn
            BY <5>1 DEF Claim
          <5> QED BY <5>1, <5>2 DEF OldClaims, TypeOK
        <4>2. CASE EndClaim(n)
          BY <4>2 DEF EndClaim, PutClaim, NoClaim, OldClaims, TypeOK
        <4> QED BY <2>2, <4>1, <4>2
      <3> QED BY <1>0, <3>1, <3>2, CalmStep DEF SameNodes, Onward
    <2> QED BY <1>8, <2>1, <2>2
  <1>9. CASE Environment
    <2>1. CASE EditSubstrate
      BY <1>1, <2>1 DEF EditSubstrate, objects, runtimeVars
    <2>2. ASSUME NEW n \in Nodes, ReportRuntimeUsage(n) \/ StopPod(n) \/ BreakGroup(n) PROVE ClaimInv'
      BY <1>1, <2>2 DEF ReportRuntimeUsage, StopPod, BreakGroup, objects, runtimeVars
    <2>3. ASSUME NEW n \in Nodes, EditLabel(n) PROVE ClaimInv'
      <3>1. UNCHANGED <<claim, seen, rec>>
        BY <2>3 DEF EditLabel, runtimeVars
      <3>2. node[n] \in Node /\ node' = [node EXCEPT ![n] = [node[n] EXCEPT !.label = ~node[n].label]]
        BY <2>3 DEF TypeOK, EditLabel, PutNode
      <3>3. SameNodes
        BY <3>2 DEF SameNodes, TypeOK, Node
      <3> QED BY <1>0, <3>1, <3>3, CalmStep DEF OldClaims, Onward
    <2>4. ASSUME NEW n \in Nodes, NEW exists \in BOOLEAN, NEW selected \in BOOLEAN, Select(n, exists, selected)
          PROVE  ClaimInv'
      <3>1. UNCHANGED <<claim, seen, rec>>
        BY <2>4 DEF Select, runtimeVars
      <3>2. \A m \in Nodes : m # n => node'[m] = node[m]
        BY <2>4 DEF Select, PutNode, TypeOK
      <3>3. node[n].exists /\ (node'[n].exists => node'[n].turn = node[n].turn + 1)
        <4>1. CASE exists
          <5>1. node[n] \in Node /\ node'[n] = [node[n] EXCEPT !.selected = selected, !.turn = node[n].turn + 1]
            BY <2>4, <4>1 DEF Select, PutNode, TypeOK
          <5>2. node'[n].turn = node[n].turn + 1
            BY <5>1 DEF Node
          <5> QED BY <2>4, <5>2 DEF Select
        <4>2. CASE ~exists
          BY <2>4, <4>2 DEF Select, PutNode, TypeOK, NoNode
        <4> QED BY <4>1, <4>2
      <3>4. /\ \A m \in Nodes : node[m].turn \in Nat /\ seen[m].node.turn \in Nat /\ claim[m].turn \in Nat
            /\ rec.read.turn \in Nat
        <4>1. /\ \A m \in Nodes : node[m] \in Node /\ seen[m].node \in Node /\ claim[m] \in Claim
              /\ rec.read \in Node
          BY DEF TypeOK
        <4> QED BY <4>1 DEF Node, Claim
      <3>5. SeenBehind'
        BY <3>1, <3>2, <3>3, <3>4 DEF SeenBehind, Behind
      <3>6. ClaimSeen'
        BY <3>1, <3>2, <3>3 DEF ClaimSeen
      <3>7. \A m \in rec.of : m \in Nodes
        BY DEF TypeOK
      <3>8. ReadBehind'
        BY <3>1, <3>2, <3>3, <3>4, <3>7 DEF ReadBehind, Behind
      <3>9. ReadSelected'
        BY <3>1 DEF ReadSelected, MatchesNode
      <3>10. DropsPast'
        <4>1. SUFFICES ASSUME Dropped, NEW m \in rec.of PROVE ClaimPast(m)'
          BY <3>1 DEF DropsPast, Dropped, MatchesNode
        <4>2. CASE m # n
          BY <3>1, <3>2, <3>7, <4>1, <4>2 DEF DropsPast, ClaimPast, MatchesNode
        <4>3. CASE m = n
          BY <3>1, <3>3, <3>4, <3>7, <4>3 DEF ClaimPast, ClaimSeen, SeenBehind, Behind, MatchesNode
        <4> QED BY <4>2, <4>3
      <3> QED BY <1>0, <3>5, <3>6, <3>8, <3>9, <3>10
    <2> QED BY <1>9, <2>1, <2>2, <2>3, <2>4 DEF Environment
  <1> QED BY <1>2, <1>3, <1>4, <1>5, <1>6, <1>7, <1>8, <1>9 DEF Next, Watch, Kubernetes

LEMMA ClaimInit == Init => ClaimInv
  <1> SUFFICES ASSUME Init PROVE ClaimInv
    OBVIOUS
  <1>1. TypeOK
    BY TypeInit
  <1>2. \A n \in Nodes : seen[n].node = node[n] /\ ~claim[n].exists /\ node[n].turn <= node[n].turn
    <2>1. SUFFICES ASSUME NEW n \in Nodes
                   PROVE  seen[n].node = node[n] /\ ~claim[n].exists /\ node[n].turn <= node[n].turn
      OBVIOUS
    <2>2. node[n].turn = 0
      BY DEF Init
    <2>3. seen[n].node = node[n] /\ ~claim[n].exists
      BY DEF Init, NoClaim
    <2> QED BY <2>2, <2>3
  <1>3. rec.at = "idle"
    BY DEF Init, Idle
  <1> QED BY <1>1, <1>2, <1>3 DEF ClaimInv, SeenBehind, Behind, ClaimSeen, ReadBehind, ReadSelected, DropsPast, Dropped

(* Only DropClaim marks a claim, and that claim is of a past selection.       *)
LEMMA KeptStep == ClaimInv /\ [Next]_vars =>
  \A n \in Nodes : Current(n, claim[n]) /\ MatchesNode(node'[n]) => ~claim'[n].deleting
  <1> SUFFICES ASSUME ClaimInv, [Next]_vars, NEW n \in Nodes, Current(n, claim[n])
               PROVE  ~claim'[n].deleting
    OBVIOUS
  <1> USE DEF ClaimInv
  <1>0. claim[n].exists /\ ~claim[n].deleting /\ MatchesNode(node[n]) /\ claim[n].turn = node[n].turn
    BY DEF Current
  <1>1. CASE UNCHANGED claim
    BY <1>0, <1>1
  <1>2. ASSUME NEW m \in Nodes, EnsureClaim(m) PROVE ~claim'[n].deleting
    <2>1. UNCHANGED claim \/ PutClaim(m, DesiredPVC(rec.read.turn))
      BY <1>2 DEF EnsureClaim
    <2>2. CASE PutClaim(m, DesiredPVC(rec.read.turn))
      <3>1. claim'[n] = claim[n] \/ claim'[n] = DesiredPVC(rec.read.turn)
        BY <2>2 DEF PutClaim, TypeOK
      <3> QED BY <1>0, <3>1, RecFields
    <2> QED BY <1>1, <2>1, <2>2
  <1>3. ASSUME NEW m \in Nodes, DropClaim(m) PROVE ~claim'[n].deleting
    <2>1. Dropped /\ m \in rec.of /\ DeleteClaim(m)
      BY <1>3 DEF DropClaim, Dropped
    <2>2. claim[n].turn \in Nat /\ node[n].turn \in Nat
      <3>1. claim[n] \in Claim /\ node[n] \in Node
        BY DEF TypeOK
      <3> QED BY <3>1 DEF Claim, Node
    <2>3. m # n
      BY <1>0, <2>1, <2>2 DEF DropsPast, ClaimPast
    <2> QED BY <1>0, <2>1, <2>3, DeleteClaimEffect
  <1>4. ASSUME NEW m \in Nodes, BindClaim(m) \/ EndClaim(m) PROVE ~claim'[n].deleting
    <2>1. CASE BindClaim(m)
      <3>1. claim[m] \in Claim /\ claim' = [claim EXCEPT ![m] = [claim[m] EXCEPT !.bound = TRUE]]
        BY <2>1 DEF TypeOK, BindClaim, PutClaim
      <3>2. [claim[m] EXCEPT !.bound = TRUE].deleting = claim[m].deleting
        BY <3>1 DEF Claim
      <3> QED BY <1>0, <3>1, <3>2 DEF TypeOK
    <2>2. CASE EndClaim(m)
      BY <1>0, <2>2 DEF EndClaim, PutClaim, NoClaim, TypeOK
    <2> QED BY <1>4, <2>1, <2>2
  <1>5. CASE Runtime
    <2>1. ASSUME NEW m \in Nodes,
                 Reconcile(m) \/ createOrReplacePod(m) \/ setRuntimeReadyLabel(m) \/ DropPod(m)
          PROVE  UNCHANGED claim
      BY <2>1 DEF Reconcile, createOrReplacePod, setRuntimeReadyLabel, DropPod, objects
    <2> QED BY <1>1, <1>2, <1>3, <1>5, <2>1 DEF Runtime
  <1>6. CASE CallFails \/ Watch \/ Substrate \/ SubstrateFails \/ Restart
    BY <1>1, <1>6 DEF CallFails, Watch, See, Substrate, ReconcileGroups, ensureLocalStorageClass,
                      SubstrateFails, Restart, objects
  <1>7. CASE Kubernetes
    <2>1. ASSUME NEW m \in Nodes, StartPod(m) \/ EndPod(m) \/ MakeGroup(m) PROVE UNCHANGED claim
      BY <2>1 DEF StartPod, EndPod, MakeGroup, objects
    <2> QED BY <1>1, <1>4, <1>7, <2>1 DEF Kubernetes
  <1>8. CASE Environment
    BY <1>1, <1>8 DEF Environment, EditSubstrate, ReportRuntimeUsage, EditLabel, StopPod, BreakGroup, Select, objects
  <1>9. CASE UNCHANGED vars
    BY <1>1, <1>9 DEF vars, objects
  <1> QED BY <1>5, <1>6, <1>7, <1>8, <1>9 DEF Next

(* Nodes, Pods, claims, what the informers have of them and the controllers'   *)
(* control state keep their types, and nothing is ready that does not exist.  *)
THEOREM TypeCorrect == Spec => []TypeOK
  <1> QED BY TypeInit, TypeStep, PTL DEF Spec

(* Whatever restarts, upgrades, failing calls, late events and edits come     *)
(* between, the cache claim of a node that has stayed selected is not deleted *)
(* (Delete of nodecacheruntime: only for a node read as not selected).      *)
THEOREM SelectedClaimStays == Spec => ClaimKept
  <1>1. Spec => []ClaimInv
    BY ClaimInit, ClaimStep, PTL DEF Spec
  <1>2. ClaimInv /\ [Next]_vars =>
          [\A n \in Nodes : Current(n, claim[n]) /\ MatchesNode(node'[n]) => ~claim'[n].deleting]_vars
    BY KeptStep
  <1> QED BY <1>1, <1>2, PTL DEF Spec, ClaimKept
================================================================================
