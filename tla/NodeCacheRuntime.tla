--------------------------- MODULE NodeCacheRuntime ---------------------------
(* The node cache plane: on every selected node the controller keeps one runtime  *)
(* Pod with the CSI driver, one claim for the cache, and a label that says both   *)
(* are ready; the substrate controller keeps the volume group set and the storage *)
(* class the claims are provisioned from. Both controllers run against events     *)
(* that arrive late, calls that fail, and a Pod that reports its usage by writing *)
(* an annotation on itself.                                                       *)
EXTENDS Naturals, FiniteSets

CONSTANTS Nodes,
          ApiServers,   \* ways the API server keeps objects, see below
          MaxTurns,     \* changes of each node's selection, its removal included
          MaxVersions, MaxFaults                               \* bounds

(* defaults: fields the controller leaves out of a Pod are stored with defaults.  *)
(* immutable: a bound claim's update that clears its volume is refused.           *)
ASSUME RuntimeAssumption ==
  /\ IsFiniteSet(Nodes)
  /\ ApiServers \subseteq [defaults : BOOLEAN, immutable : BOOLEAN]
  /\ {MaxTurns, MaxVersions, MaxFaults} \subseteq Nat /\ MaxVersions > 0

VARIABLES
  api,        \* the API server the module is deployed on
  version,    \* the settings a runtime Pod is made of: images, sizes, Secrets
  node, pod, claim,
  seen,       \* the controller's informers
  news,       \* objects written since the informers read them
  queue, rec, \* the runtime controller's requests, and the one under way
  groupSet,   \* the volume group set: missing, edited by others, as desired
  group,      \* the node's volume group
  class,      \* the storage class and the volume groups it names
  sub,        \* the substrate controller
  faults      \* failures, restarts, edits by others and usage reports so far

runtimeVars   == <<queue, rec>>
objects       == <<node, pod, claim>>
substrateVars == <<groupSet, group, class, sub>>
vars == <<api, version, objects, seen, news, runtimeVars, substrateVars, faults>>

(* turn: how often the node's selection has changed; for a Pod or a claim, the    *)
(* turn the controller had read when it was created.                              *)
Node  == [exists : BOOLEAN, selected : BOOLEAN, label : BOOLEAN, turn : 0..MaxTurns]
Pod   == [exists : BOOLEAN, spec : 0..MaxVersions, reported : BOOLEAN,
          phase : {"pending", "ready", "failing"}, deleting : BOOLEAN, turn : 0..MaxTurns]
Claim == [exists : BOOLEAN, bound : BOOLEAN, deleting : BOOLEAN, turn : 0..MaxTurns]
NoPod   == [exists |-> FALSE, spec |-> 0, reported |-> FALSE, phase |-> "pending",
            deleting |-> FALSE, turn |-> 0]
NoClaim == [exists |-> FALSE, bound |-> FALSE, deleting |-> FALSE, turn |-> 0]

MatchesNode(o) == o.exists /\ o.selected

(* Reading the node, its Pod and its claim.                                       *)
DesiredPod(turn) == [NoPod EXCEPT !.exists = TRUE, !.spec = version, !.turn = turn]
DesiredPVC(turn) == [NoClaim EXCEPT !.exists = TRUE, !.turn = turn]

(* The comparison is exact: the annotation of a usage report is a difference, and *)
(* so is every default the comparison does not take back.                         *)
podMatchesDesired(p) == p.spec = version /\ ~p.reported /\ ~api.defaults
PodReady(p)     == p.phase = "ready"
RuntimeReady(o) == PodReady(o.pod) /\ o.claim.bound

PutNode(n, o)  == node'  = [node  EXCEPT ![n] = o] /\ news' = news \cup {<<n, "node">>}
PutPod(n, p)   == pod'   = [pod   EXCEPT ![n] = p] /\ news' = news \cup {<<n, "pod">>}
PutClaim(n, c) == claim' = [claim EXCEPT ![n] = c] /\ news' = news \cup {<<n, "claim">>}

(* Mutant of DeletePod: a Pod that is not there is not ignored.                   *)
DeletePodBlind(n) == PutPod(n, [pod[n] EXCEPT !.deleting = TRUE])
(* A Pod that was never scheduled goes at once.                                   *)
DeletePod(n) ==
  IF pod[n].exists THEN PutPod(n, IF pod[n].phase = "pending" THEN NoPod ELSE [pod[n] EXCEPT !.deleting = TRUE])
                   ELSE UNCHANGED <<pod, news>>
DeleteClaim(n) ==
  IF claim[n].exists THEN PutClaim(n, [claim[n] EXCEPT !.deleting = TRUE]) ELSE UNCHANGED <<claim, news>>

-----------------------------------------------------------------------------
(* The runtime controller: one request at a time.                                 *)
NoNode == [exists |-> FALSE, selected |-> FALSE, label |-> FALSE, turn |-> 0]
Idle == [at |-> "idle", of |-> {}, read |-> NoNode]
Goto(at)  == rec' = [rec EXCEPT !.at = at] /\ UNCHANGED queue
Finish    == rec' = Idle /\ UNCHANGED queue
Dropping(n) == [Idle EXCEPT !.at = "dropPod", !.of = {n}]
Retry     == rec' = Idle /\ queue' = queue \cup rec.of

Reconcile(n) ==
  /\ rec.at = "idle" /\ n \in queue /\ queue' = queue \ {n}
  /\ LET o == seen[n].node IN
     rec' = IF ~o.exists THEN Dropping(n)
            ELSE [at |-> IF MatchesNode(o) THEN "claim" ELSE "label", of |-> {n}, read |-> o]
  /\ UNCHANGED <<api, version, objects, seen, news, substrateVars, faults>>

(* The claim is written over with the desired one; what the binder has written    *)
(* since is a difference, and the API server refuses to take it back, or the      *)
(* binder writes it again.                                                        *)
EnsureClaim(n) ==
  /\ rec.at = "claim" /\ n \in rec.of
  /\ LET c == seen[n].claim IN
     \/ /\ ~c.exists /\ ~claim[n].exists
        /\ PutClaim(n, DesiredPVC(rec.read.turn)) /\ Goto("pod")
     \/ /\ ~c.exists /\ claim[n].exists
        /\ Retry /\ UNCHANGED <<claim, news>>
     \/ /\ c.exists /\ c.bound /\ (api.immutable \/ ~claim[n].exists)
        /\ Retry /\ UNCHANGED <<claim, news>>
     \/ /\ c.exists /\ (c.bound => ~api.immutable /\ claim[n].exists)
        /\ Goto("pod") /\ UNCHANGED <<claim, news>>
  /\ UNCHANGED <<api, version, node, pod, seen, substrateVars, faults>>

(* Mutant of ReplacePod: Pod and claim go together, as for a deselected node.     *)
ReplaceBoth(n) == rec' = Dropping(n) /\ UNCHANGED <<queue, pod, news>>
(* The deletion names the Pod and has no precondition on what was read.           *)
ReplacePod(n) == DeletePod(n) /\ Goto("label")

createOrReplacePod(n) ==
  /\ rec.at = "pod" /\ n \in rec.of
  /\ LET p == seen[n].pod IN
     \/ /\ ~p.exists /\ ~pod[n].exists
        /\ PutPod(n, DesiredPod(rec.read.turn)) /\ Goto("label")
     \/ /\ ~p.exists /\ pod[n].exists
        /\ Retry /\ UNCHANGED <<pod, news>>
     \/ /\ p.exists /\ (podMatchesDesired(p) \/ p.deleting)
        /\ Goto("label") /\ UNCHANGED <<pod, news>>
     \/ /\ p.exists /\ ~podMatchesDesired(p) /\ ~p.deleting
        /\ ReplacePod(n)
  /\ UNCHANGED <<api, version, node, claim, seen, substrateVars, faults>>

(* Readiness is read from the informers again; the patch is the difference from   *)
(* the node as it was read at first.                                              *)
setRuntimeReadyLabel(n) ==
  /\ rec.at = "label" /\ n \in rec.of
  /\ LET ready == MatchesNode(rec.read) /\ RuntimeReady(seen[n]) IN
     \/ /\ rec.read.label = ready /\ UNCHANGED <<node, news>>
        /\ rec' = IF MatchesNode(rec.read) THEN Idle ELSE Dropping(n)
        /\ UNCHANGED queue
     \/ /\ rec.read.label # ready /\ node[n].exists
        /\ PutNode(n, [node[n] EXCEPT !.label = ready])
        /\ rec' = IF MatchesNode(rec.read) THEN Idle ELSE Dropping(n)
        /\ UNCHANGED queue
     \/ /\ rec.read.label # ready /\ ~node[n].exists
        /\ Retry /\ UNCHANGED <<node, news>>
  /\ UNCHANGED <<api, version, pod, claim, seen, substrateVars, faults>>

DropPod(n) ==
  /\ rec.at = "dropPod" /\ n \in rec.of /\ DeletePod(n) /\ Goto("dropClaim")
  /\ UNCHANGED <<api, version, node, claim, seen, substrateVars, faults>>
DropClaim(n) ==
  /\ rec.at = "dropClaim" /\ n \in rec.of /\ DeleteClaim(n) /\ Finish
  /\ UNCHANGED <<api, version, node, pod, seen, substrateVars, faults>>

Runtime ==
  \E n \in Nodes : \/ Reconcile(n) \/ EnsureClaim(n) \/ createOrReplacePod(n)
                   \/ setRuntimeReadyLabel(n) \/ DropPod(n) \/ DropClaim(n)

(* Any call may fail; the request is repeated.                                    *)
CallFails ==
  /\ rec.at # "idle" /\ faults < MaxFaults /\ faults' = faults + 1 /\ Retry
  /\ UNCHANGED <<api, version, objects, seen, news, substrateVars>>

(* Events of the three watches, each for an object written since the last.        *)
(* Mutant of Requests: the runtime objects are not watched.                       *)
RequestsNodes(n, kind) == IF kind = "node" THEN {n} ELSE {}
Requests(n, kind) == IF kind \in {"node", "pod", "claim"} THEN {n} ELSE {}

See(n, kind) ==
  /\ <<n, kind>> \in news /\ news' = news \ {<<n, kind>>}
  /\ seen' = [seen EXCEPT ![n] = [node  |-> IF kind = "node" THEN node[n] ELSE seen[n].node,
                                  pod   |-> IF kind = "pod" THEN pod[n] ELSE seen[n].pod,
                                  claim |-> IF kind = "claim" THEN claim[n] ELSE seen[n].claim]]
  /\ queue' = queue \cup Requests(n, kind)
  /\ UNCHANGED <<api, version, objects, rec, substrateVars, faults>>
Watch == \E n \in Nodes, kind \in {"node", "pod", "claim"} : See(n, kind)

-----------------------------------------------------------------------------
(* The substrate controller reads the API server itself; a write that lost a race *)
(* is refused and repeated.                                                       *)
IdleSub(queued) == [at |-> "idle", list |-> {}, queued |-> queued]
DesiredGroupSet       == "desired"
DesiredClass(groups)  == [exists |-> TRUE, groups |-> groups]
ReadyGroups == {n \in Nodes : group[n] = "ready"}

(* Without a ready group the class stays as it is, and the reconcile is repeated. *)
ReconcileGroups ==
  /\ sub.at = "idle" /\ sub.queued
  /\ groupSet' = DesiredGroupSet
  /\ sub' = IF ReadyGroups = {} THEN IdleSub(TRUE)
            ELSE [at |-> "class", list |-> ReadyGroups, queued |-> groupSet # DesiredGroupSet]
  /\ UNCHANGED <<api, version, objects, seen, news, runtimeVars, group, class, faults>>

ensureLocalStorageClass ==
  /\ sub.at = "class"
  /\ class' = DesiredClass(sub.list)
  /\ sub' = IdleSub(sub.queued \/ class' # class)
  /\ UNCHANGED <<api, version, objects, seen, news, runtimeVars, groupSet, group, faults>>

Substrate == ReconcileGroups \/ ensureLocalStorageClass

SubstrateFails ==
  /\ sub.at # "idle" /\ faults < MaxFaults /\ faults' = faults + 1 /\ sub' = IdleSub(TRUE)
  /\ UNCHANGED <<api, version, objects, seen, news, runtimeVars, groupSet, group, class>>

(* The controller's process starts again, possibly with new settings: its        *)
(* informers list everything, and everything there is makes a request.           *)
Restart ==
  /\ faults < MaxFaults /\ faults' = faults + 1
  /\ version' \in {v \in {version, version + 1} : v <= MaxVersions}
  /\ seen' = [n \in Nodes |-> [node |-> node[n], pod |-> pod[n], claim |-> claim[n]]]
  /\ news' = {} /\ rec' = Idle /\ sub' = IdleSub(TRUE)
  /\ queue' = {n \in Nodes : node[n].exists \/ pod[n].exists \/ claim[n].exists}
  /\ UNCHANGED <<api, objects, groupSet, group, class>>

-----------------------------------------------------------------------------
(* The runtime's cycle: it reports by patching its own Pod.                       *)
ReportRuntimeUsage(n) ==
  /\ PodReady(pod[n]) /\ faults < MaxFaults /\ faults' = faults + 1
  /\ PutPod(n, [pod[n] EXCEPT !.reported = TRUE])
  /\ UNCHANGED <<api, version, node, claim, seen, runtimeVars, substrateVars>>

(* Administrators select, deselect and remove nodes, and edit what they should    *)
(* leave alone: the ready label, the volume group set, the storage class.         *)
Select(n, exists, selected) ==
  /\ node[n].exists /\ node[n].turn < MaxTurns
  /\ exists => selected # node[n].selected
  /\ PutNode(n, IF exists THEN [node[n] EXCEPT !.selected = selected, !.turn = node[n].turn + 1] ELSE NoNode)
  /\ UNCHANGED <<api, version, pod, claim, seen, runtimeVars, substrateVars, faults>>
EditLabel(n) ==
  /\ node[n].exists /\ faults < MaxFaults /\ faults' = faults + 1
  /\ PutNode(n, [node[n] EXCEPT !.label = ~node[n].label])
  /\ UNCHANGED <<api, version, pod, claim, seen, runtimeVars, substrateVars>>
EditSubstrate ==
  /\ faults < MaxFaults /\ faults' = faults + 1
  /\ \/ groupSet = "desired" /\ groupSet' = "edited" /\ UNCHANGED class
     \/ class.exists /\ class.groups # {} /\ class' = [class EXCEPT !.groups = {}] /\ UNCHANGED groupSet
  /\ sub' = [sub EXCEPT !.queued = TRUE]
  /\ UNCHANGED <<api, version, objects, seen, news, runtimeVars, group>>

(* Kubernetes: a Pod starts on its claim, a deleted one goes, and a claim when no *)
(* Pod that was scheduled uses it. (Both also go after the node that owns them.)  *)
StartPod(n) ==
  /\ pod[n].exists /\ ~pod[n].deleting /\ ~PodReady(pod[n])
  /\ node[n].exists /\ claim[n].bound /\ ~claim[n].deleting
  /\ PutPod(n, [pod[n] EXCEPT !.phase = "ready"])
  /\ UNCHANGED <<api, version, node, claim, seen, runtimeVars, substrateVars, faults>>
StopPod(n) ==
  /\ PodReady(pod[n]) /\ faults < MaxFaults /\ faults' = faults + 1
  /\ PutPod(n, [pod[n] EXCEPT !.phase = "failing"])
  /\ UNCHANGED <<api, version, node, claim, seen, runtimeVars, substrateVars>>
EndPod(n) ==
  /\ pod[n].deleting /\ PutPod(n, NoPod)
  /\ UNCHANGED <<api, version, node, claim, seen, runtimeVars, substrateVars, faults>>
BindClaim(n) ==
  /\ claim[n].exists /\ ~claim[n].bound /\ ~claim[n].deleting
  /\ pod[n].exists /\ ~pod[n].deleting /\ group[n] = "ready" /\ n \in class.groups
  /\ PutClaim(n, [claim[n] EXCEPT !.bound = TRUE])
  /\ UNCHANGED <<api, version, node, pod, seen, runtimeVars, substrateVars, faults>>
EndClaim(n) ==
  /\ claim[n].deleting /\ pod[n].phase = "pending" /\ PutClaim(n, NoClaim)
  /\ UNCHANGED <<api, version, node, pod, seen, runtimeVars, substrateVars, faults>>

(* The storage modules: the set makes a volume group on every selected node.      *)
PutGroup(n, phase) == group' = [group EXCEPT ![n] = phase] /\ sub' = [sub EXCEPT !.queued = TRUE]
MakeGroup(n) ==
  /\ groupSet = "desired" /\ MatchesNode(node[n]) /\ group[n] # "ready"
  /\ PutGroup(n, "ready")
  /\ UNCHANGED <<api, version, objects, seen, news, runtimeVars, groupSet, class, faults>>
BreakGroup(n) ==
  /\ group[n] = "ready" /\ faults < MaxFaults /\ faults' = faults + 1 /\ PutGroup(n, "broken")
  /\ UNCHANGED <<api, version, objects, seen, news, runtimeVars, groupSet, class>>

Kubernetes == \E n \in Nodes : StartPod(n) \/ EndPod(n) \/ BindClaim(n) \/ EndClaim(n) \/ MakeGroup(n)
Environment ==
  \/ EditSubstrate
  \/ \E n \in Nodes : \/ ReportRuntimeUsage(n) \/ EditLabel(n) \/ StopPod(n) \/ BreakGroup(n)
                      \/ \E exists, selected \in BOOLEAN : Select(n, exists, selected)

Init ==
  /\ api \in ApiServers /\ version = 1
  /\ node = [n \in Nodes |-> [exists |-> TRUE, selected |-> TRUE, label |-> FALSE, turn |-> 0]]
  /\ pod = [n \in Nodes |-> NoPod] /\ claim = [n \in Nodes |-> NoClaim]
  /\ seen = [n \in Nodes |-> [node |-> node[n], pod |-> NoPod, claim |-> NoClaim]]
  /\ news = {} /\ queue = Nodes /\ rec = Idle
  /\ groupSet = "none" /\ group = [n \in Nodes |-> "none"]
  /\ class = [exists |-> FALSE, groups |-> {}] /\ sub = IdleSub(TRUE)
  /\ faults = 0

Next == Runtime \/ CallFails \/ Watch \/ Substrate \/ SubstrateFails \/ Restart \/ Kubernetes \/ Environment

(* The controllers and their watches run; Kubernetes and the storage modules do   *)
(* what they are asked for.                                                       *)
Fairness ==
  /\ WF_vars(Runtime) /\ WF_vars(Substrate) /\ WF_vars(Kubernetes)
  /\ \A n \in Nodes, kind \in {"node", "pod", "claim"} : WF_vars(See(n, kind))

Spec == Init /\ [][Next]_vars /\ Fairness
-----------------------------------------------------------------------------
(* The type of every variable; nothing is ready that does not exist.              *)
TypeOK ==
  /\ api \in ApiServers /\ version \in 1..MaxVersions
  /\ node \in [Nodes -> Node] /\ pod \in [Nodes -> Pod] /\ claim \in [Nodes -> Claim]
  /\ seen \in [Nodes -> [node : Node, pod : Pod, claim : Claim]]
  /\ news \subseteq Nodes \X {"node", "pod", "claim"}
  /\ queue \subseteq Nodes
  /\ rec \in [at : {"idle", "claim", "pod", "label", "dropPod", "dropClaim"},
              of : SUBSET Nodes, read : Node]
  /\ groupSet \in {"none", "edited", "desired"} /\ group \in [Nodes -> {"none", "broken", "ready"}]
  /\ class \in [exists : BOOLEAN, groups : SUBSET Nodes]
  /\ sub \in [at : {"idle", "class"}, list : SUBSET Nodes, queued : BOOLEAN]
  /\ faults \in 0..MaxFaults
  /\ \A n \in Nodes : pod[n].phase # "pending" \/ pod[n].deleting => pod[n].exists

(* What was made for the node's present selection, and is still in use.           *)
Current(n, o) == MatchesNode(node[n]) /\ o.exists /\ ~o.deleting /\ o.turn = node[n].turn

(* The cache is not lost to a restart, an upgrade, a replaced Pod or a late event: *)
(* the claim of a node that has stayed selected is never deleted.                 *)
ClaimKept == [][\A n \in Nodes : Current(n, claim[n]) /\ MatchesNode(node'[n]) => ~claim'[n].deleting]_vars

(* In the end a node that is not selected keeps neither Pod nor claim nor label,  *)
(* whatever the API server; the storage class names the ready groups; and, when   *)
(* the reports stop and the API server keeps what it is given, a selected node    *)
(* has its Pod on a bound claim, made of the present settings, and the label.     *)
Settled(n) ==
  IF MatchesNode(node[n])
  THEN ~api.defaults /\ ~api.immutable =>
         /\ PodReady(pod[n]) /\ pod[n].spec = version /\ ~pod[n].deleting
         /\ claim[n].bound /\ ~claim[n].deleting /\ node[n].label
  ELSE ~pod[n].exists /\ ~claim[n].exists /\ ~node[n].label
Settles == <>[]((\A n \in Nodes : Settled(n)) /\ (ReadyGroups # {} => class.groups = ReadyGroups))
=============================================================================
