------------------------------ MODULE NodeCache ------------------------------
(***************************************************************************)
(* The cache of published models on one node: the agent, which again and   *)
(* again loads what the node's Pods want, prefetches it and evicts what     *)
(* nobody needs, and the CSI driver in the same process, which mounts ready *)
(* models into Pods while the agent works.                                  *)
(*                                                                         *)
(* controller/internal/nodecache, dataplane/nodecacheruntime,               *)
(* dataplane/nodecachecsi, adapters/k8s/nodecacheruntime, and the           *)
(* materializing half of adapters/modelpack/oci.                            *)
(***************************************************************************)
EXTENDS ModelPackLayout, FiniteSets, SequencesExt

CONSTANTS
  Pods,         \* the Pods that are scheduled to the node
  Digests,      \* the artifacts
  Wants,        \* of each Pod, the artifacts its annotations may name: digest and URI
  Payload,      \* of each artifact, its manifest's layers, its config and, of the chunked layout, its index
  Size,         \* of each artifact, its size
  Limit,        \* the size the cache should have at most
  MaxBackoff,   \* the longest wait after failures, in cycles
  MaxFaults,    \* failing calls of API server, registry or kernel
  MaxKills      \* losses of the process

ASSUME CacheAssumption ==
  /\ IsFiniteSet(Digests) /\ (\A p \in Pods : \A w \in Wants[p] : w.digest \in Digests)
  /\ \A d \in Digests : Payload[d].layers \in Seq(Layers) /\ Size[d] \in Nat
  /\ MaxFaults \in Nat /\ MaxKills \in Nat /\ MaxBackoff \in Nat \ {0}

Chunked == {d \in Digests : PayloadUsesChunkedLayout(Payload[d].layers)}
Valid == {d \in Digests : ValidatePayload(Payload[d])}
Extractable == {d \in Digests : d \in Chunked => ValidateChunkIndex(Payload[d].index, Payload[d].layers)}

(* The pieces of an artifact: the chunks of its files, or its layers.        *)
Chunks == [d \in Digests |->
  IF d \in Chunked
  THEN LET files == Payload[d].index.files IN UNION {{f} \X DOMAIN files[f].chunks : f \in DOMAIN files}
  ELSE {0} \X DOMAIN Payload[d].layers]

VARIABLES
  want,       \* of each Pod, what its annotations name
  pod,        \* of each Pod, its life
  csi,        \* and where the driver is with its volume
  mount,      \* and the directory its volume is bound to
  store,      \* of each artifact, its directory in the store
  previous,   \* the directory it had before, while it is replaced
  work,       \* its work root: the chunks it holds, and the pack, when it was sent whole
  staging,    \* the artifacts with a staging directory
  lru,        \* the artifacts, least recently used first
  idle,       \* how many of them are unused for longer than the maximum age
  pc,         \* where the agent is
  desired,    \* what it has loaded
  queue,      \* what is left to prefetch
  ranged,     \* the registry has answered with a range of the pack
  plan,       \* what is left to evict
  attempts, wait,  \* failed prefetches in a row, cycles until the next one
  cut,        \* the artifacts whose eviction was interrupted
  budget      \* what is left of the bounds

vars == <<want, pod, csi, mount, store, previous, work, staging, lru, idle, pc, desired, queue, ranged, plan, attempts, wait, cut, budget>>
node == <<want, pod, csi, mount>>
disk == <<store, previous, work, staging, cut>>
usage == <<lru, idle>>
retries == <<attempts, wait>>
agent == <<pc, desired, queue, ranged, plan, attempts, wait>>

NoDir == [dir |-> FALSE, marker |-> "none", model |-> {}]
NoRoot == [root |-> FALSE, chunks |-> {}, pack |-> FALSE]

Init ==
  /\ want \in {w \in [Pods -> UNION {Wants[p] : p \in Pods}] : \A p \in Pods : w[p] \in Wants[p]}
  /\ pod = [p \in Pods |-> "absent"] /\ csi = [p \in Pods |-> "idle"] /\ mount = [p \in Pods |-> "none"]
  /\ store = [d \in Digests |-> NoDir] /\ previous = store
  /\ work = [d \in Digests |-> NoRoot] /\ staging = {} /\ cut = {}
  /\ lru = SetToSeq(Digests) /\ idle = Len(lru)
  /\ pc = "load" /\ desired = {} /\ queue = <<>> /\ ranged = FALSE /\ plan = {}
  /\ attempts = [d \in Digests |-> 0] /\ wait = attempts
  /\ budget = [faults |-> MaxFaults, kills |-> MaxKills]

Fault == budget.faults > 0 /\ budget' = [budget EXCEPT !.faults = @ - 1]

(* The process ends, and with it the cycle and the CSI calls.               *)
Exit ==
  /\ pc' = "down" /\ csi' = [p \in Pods |-> "idle"]
  /\ desired' = {} /\ queue' = <<>> /\ ranged' = FALSE /\ plan' = {}
  /\ attempts' = [d \in Digests |-> 0] /\ wait' = [d \in Digests |-> 0]

Restart ==
  /\ pc = "down"
  /\ pc' = "load"
  /\ UNCHANGED <<node, disk, usage, desired, queue, ranged, plan, retries, budget>>

-----------------------------------------------------------------------------
(* What is wanted and what is there. *)

Active == {p \in Pods : pod[p] = "active"}

(* One digest under two names is an error of the whole list.                *)
NormalizeDesiredArtifacts == \A p, q \in Active : want[p].digest = want[q].digest => want[p].uri = want[q].uri

DesiredArtifacts == {want[p].digest : p \in Active}

(* A directory is ready with a readable marker and a model path; whether the *)
(* model is complete is not looked at.                                       *)
EntryReady(e) == e.marker = "ok" /\ e.model # {}

Ready == {d \in Digests : EntryReady(store[d])}

(* An artifact is used when it is mounted and when it becomes ready.         *)
Rank(d) == CHOOSE i \in DOMAIN lru : lru[i] = d

TouchUsage(d) ==
  /\ lru' = Append(RemoveAt(lru, Rank(d)), d)
  /\ idle' = IF \E i \in 1 .. idle : lru[i] = d THEN idle - 1 ELSE idle

-----------------------------------------------------------------------------
(* The cycle: load and prefetch. *)

Backoff(n) == IF 2 ^ (n - 1) \in 1 .. MaxBackoff THEN 2 ^ (n - 1) ELSE MaxBackoff

(* Failures are forgotten for what is ready or no longer wanted.             *)
PruneFailures(wanted) == LET kept == wanted \ Ready IN
  /\ attempts' = [d \in Digests |-> IF d \in kept THEN attempts[d] ELSE 0]
  /\ wait' = [d \in Digests |-> IF d \in kept THEN wait[d] ELSE 0]

LoadDesiredArtifacts ==
  /\ pc = "load"
  /\ \/ /\ NormalizeDesiredArtifacts
        /\ desired' = DesiredArtifacts /\ PruneFailures(desired')
        /\ queue' = SetToSeq(desired' \ Ready)
        /\ pc' = "prefetch"
        /\ UNCHANGED <<csi, ranged, plan, budget>>
     \/ /\ IF NormalizeDesiredArtifacts THEN Fault ELSE UNCHANGED budget
        /\ Exit
  /\ UNCHANGED <<want, pod, mount, disk, usage>>

(* A failed artifact waits, and the next one is tried.                       *)
Fail(d) ==
  /\ attempts' = [attempts EXCEPT ![d] = IF Backoff(@ + 1) = MaxBackoff THEN @ ELSE @ + 1]
  /\ wait' = [wait EXCEPT ![d] = Backoff(attempts[d] + 1)]
  /\ queue' = Tail(queue) /\ pc' = "prefetch"

Succeed(d) ==
  /\ attempts' = [attempts EXCEPT ![d] = 0] /\ wait' = [wait EXCEPT ![d] = 0]
  /\ queue' = Tail(queue) /\ pc' = "prefetch"

EnsureDesiredArtifacts ==
  /\ pc = "prefetch"
  /\ IF queue = <<>> THEN pc' = "scan" /\ UNCHANGED queue
     ELSE IF wait[Head(queue)] > 0 THEN queue' = Tail(queue) /\ UNCHANGED pc
     ELSE pc' = "inspect" /\ UNCHANGED queue
  /\ UNCHANGED <<node, disk, usage, desired, ranged, plan, retries, budget>>

(* What is materialized already, whoever did it, is reused.                  *)
MaybeReuseMaterialization(d) == EntryReady(store[d])

(* The work root of an artifact is taken up where it was left.               *)
PrepareChunkMaterializeWorkRoot(r) == [r EXCEPT !.root = TRUE]

\* Mutant: a staging directory for the chunked layout, too.
PrepareMaterializationRootStaged(d) ==
  /\ work' = [work EXCEPT ![d] = IF d \in Chunked THEN PrepareChunkMaterializeWorkRoot(@) ELSE @]
  /\ staging' = staging \cup {d}

PrepareMaterializationRoot(d) ==
  /\ work' = [work EXCEPT ![d] = IF d \in Chunked THEN PrepareChunkMaterializeWorkRoot(@) ELSE @]
  /\ staging' = IF d \in Chunked THEN staging ELSE staging \cup {d}

(* Manifest and config are read and have to be right; a marker that cannot be *)
(* read is an error, too.                                                    *)
Materialize == LET d == Head(queue) IN
  /\ pc = "inspect"
  /\ \/ /\ \/ (d \notin Valid \/ store[d].marker = "torn") /\ UNCHANGED budget
           \/ Fault
        /\ Fail(d) /\ UNCHANGED <<work, staging>>
     \/ /\ d \in Valid /\ MaybeReuseMaterialization(d)
        /\ Succeed(d) /\ UNCHANGED <<work, staging, budget>>
     \/ /\ d \in Valid /\ store[d].marker # "torn" /\ ~MaybeReuseMaterialization(d)
        /\ PrepareMaterializationRoot(d)
        /\ pc' = "extract"
        /\ UNCHANGED <<queue, retries, budget>>
  /\ UNCHANGED <<node, store, previous, cut, usage, desired, ranged, plan>>

ExtractLayers ==
  /\ pc = "extract" /\ Head(queue) \notin Chunked
  /\ pc' = "install"
  /\ UNCHANGED <<node, disk, usage, desired, queue, ranged, plan, retries, budget>>

ChunkComplete(d, c) == c \in work[d].chunks

(* A chunk comes from the stored pack, or by a range request. A registry      *)
(* without ranges sends the whole pack, which is stored; one that has         *)
(* answered with a range has to go on like that.                             *)
LoadStoredChunk(d) ==
  \/ work[d].pack /\ UNCHANGED ranged
  \/ ~work[d].pack /\ ranged' = TRUE

StoresPack(d) == ~work[d].pack /\ ~ranged

(* Several chunks are fetched at a time, and remembered one by one.          *)
MaterializeChunk(c) == LET d == Head(queue) IN
  /\ pc = "extract" /\ d \in Chunked \cap Extractable /\ c \in Chunks[d] /\ ~ChunkComplete(d, c)
  /\ \/ LoadStoredChunk(d) /\ work' = [work EXCEPT ![d].chunks = @ \cup {c}]
     \/ StoresPack(d) /\ work' = [work EXCEPT ![d] = [work[d] EXCEPT !.chunks = @ \cup {c}, !.pack = TRUE]] /\ UNCHANGED ranged
  /\ UNCHANGED <<node, store, previous, staging, cut, usage, pc, desired, queue, plan, retries, budget>>

\* Mutant: a file that lacks a chunk is taken as extracted.
ExtractChunkedLayersEarly == LET d == Head(queue) IN
  /\ pc = "extract" /\ d \in Chunked /\ work[d].chunks # {}
  /\ pc' = "install" /\ ranged' = FALSE
  /\ UNCHANGED <<node, disk, usage, desired, queue, plan, retries, budget>>

(* The index has to be right, and a file of which all chunks are there has    *)
(* the digest of the index.                                                  *)
ExtractChunkedLayers == LET d == Head(queue) IN
  /\ pc = "extract" /\ d \in Chunked \cap Extractable /\ \A c \in Chunks[d] : ChunkComplete(d, c)
  /\ pc' = "install" /\ ranged' = FALSE
  /\ UNCHANGED <<node, disk, usage, desired, queue, plan, retries, budget>>

(* A file without its digest loses its markers.                              *)
ClearFileMarkers(d) == work' = [work EXCEPT ![d].chunks = {}]

(* A work root outlives the failure, a staging directory is removed.         *)
MaterializeFails == LET d == Head(queue) IN
  /\ pc \in {"extract", "install"} /\ (IF d \in Extractable THEN Fault ELSE UNCHANGED budget)
  /\ IF d \in Chunked
     THEN /\ UNCHANGED work \/ (work[d].chunks = Chunks[d] /\ ClearFileMarkers(d))
          /\ UNCHANGED staging
     ELSE staging' = staging \ {d} /\ UNCHANGED work
  /\ Fail(d) /\ ranged' = FALSE
  /\ UNCHANGED <<node, store, previous, cut, usage, desired, plan>>

(* What was extracted, under the path that holds the model.                  *)
ResolveModelPath(d) == IF d \in Chunked THEN work[d].chunks ELSE Chunks[d]

(* The directory a root becomes: its model path is the contract's.           *)
MaterializedModelContract(d) == [dir |-> TRUE, marker |-> "none", model |-> ResolveModelPath(d)]

Rebind(from, to, d) == [p \in Pods |-> IF want[p].digest = d /\ mount[p] = from THEN to ELSE mount[p]]

(* The directory that is in the way moves aside.                             *)
StageExistingDestination == LET d == Head(queue) IN
  /\ pc = "install"
  /\ IF store[d].dir
     THEN /\ previous' = [previous EXCEPT ![d] = store[d]] /\ store' = [store EXCEPT ![d] = NoDir]
          /\ mount' = [p \in Pods |-> IF want[p].digest # d THEN mount[p]
                                      ELSE CASE mount[p] = "previous" -> "removed"
                                             [] mount[p] = "store" -> "previous"
                                             [] OTHER -> mount[p]]
     ELSE UNCHANGED <<previous, store, mount>>
  /\ pc' = "replace"
  /\ UNCHANGED <<want, pod, csi, work, staging, cut, usage, desired, queue, ranged, plan, retries, budget>>

(* The CSI driver may have made a new directory meanwhile: rename fails.     *)
ReplaceMaterializedDestination == LET d == Head(queue) IN
  /\ pc = "replace"
  /\ IF store[d].dir
     THEN Fail(d) /\ staging' = staging \ {d} /\ UNCHANGED <<store, work, previous, mount>>
     ELSE /\ store' = [store EXCEPT ![d] = MaterializedModelContract(d)]
          /\ work' = [work EXCEPT ![d] = NoRoot] /\ staging' = staging \ {d}
          /\ previous' = [previous EXCEPT ![d] = NoDir] /\ mount' = Rebind("previous", "removed", d)
          /\ pc' = "mark" /\ UNCHANGED <<queue, retries>>
  /\ UNCHANGED <<want, pod, csi, cut, usage, desired, ranged, plan, budget>>

WriteMarker == LET d == Head(queue) IN
  /\ pc = "mark"
  /\ store' = [store EXCEPT ![d].marker = "ok"] /\ cut' = cut \ {d}
  /\ TouchUsage(d) /\ Succeed(d)
  /\ UNCHANGED <<node, previous, work, staging, desired, ranged, plan, budget>>

-----------------------------------------------------------------------------
(* The cycle: maintenance. *)

Directories == {"store", "previous", "work", "staging"} \X Digests

(* What is no entry of a ready artifact is removed, unless it bears the name *)
(* of a wanted one: the directory itself, or what its marker says.           *)
MalformedCandidates(protected) == {x \in Directories : LET d == x[2] IN
  CASE x[1] = "store" -> store[d].dir /\ ~EntryReady(store[d]) /\ d \notin protected
    [] x[1] = "previous" -> previous[d].dir /\ (previous[d].marker = "ok" => d \notin protected)
    [] x[1] = "work" -> work[d].root
    [] x[1] = "staging" -> d \in staging}

UnusedAgeCandidates(protected) == {d \in Ready \ protected : \E i \in 1 .. idle : lru[i] = d}

SizeOf(ds) == SumFunctionOnSet(Size, ds)

(* The least recently used go until the rest is small enough.                *)
SizePressureCandidates(protected, kept) ==
  {d \in kept \cap (Ready \ protected) :
     SizeOf(kept) - SizeOf({e \in kept \cap (Ready \ protected) : Rank(e) < Rank(d)}) > Limit}

\* Mutant: what is wanted is evicted when the cache is too large.
PlanEvictionUnprotected(protected) ==
  LET unused == UnusedAgeCandidates(protected)
      kept == {d \in Digests : store[d].model # {} /\ d \in (Ready \cup protected) \ unused}
  IN MalformedCandidates(protected) \cup ({"store"} \X (unused \cup SizePressureCandidates({}, kept)))

PlanEviction(protected) ==
  LET unused == UnusedAgeCandidates(protected)
      kept == {d \in Digests : store[d].model # {} /\ d \in (Ready \cup protected) \ unused}
  IN MalformedCandidates(protected) \cup ({"store"} \X (unused \cup SizePressureCandidates(protected, kept)))

Scan ==
  /\ pc = "scan"
  /\ plan' = PlanEviction(desired) /\ pc' = "evict"
  /\ UNCHANGED <<node, disk, usage, desired, queue, ranged, retries, budget>>

RemoveAll(x) == LET d == x[2] IN
  /\ store' = IF x[1] = "store" THEN [store EXCEPT ![d] = NoDir] ELSE store
  /\ previous' = IF x[1] = "previous" THEN [previous EXCEPT ![d] = NoDir] ELSE previous
  /\ work' = IF x[1] = "work" THEN [work EXCEPT ![d] = NoRoot] ELSE work
  /\ staging' = IF x[1] = "staging" THEN staging \ {d} ELSE staging
  /\ mount' = IF x[1] \in {"store", "previous"} THEN Rebind(x[1], "removed", d) ELSE mount

ApplyEvictionPlan ==
  /\ pc = "evict"
  /\ IF plan = {}
     THEN pc' = "wait" /\ UNCHANGED <<mount, store, previous, work, staging, plan>>
     ELSE \E x \in plan : RemoveAll(x) /\ plan' = plan \ {x} /\ UNCHANGED pc
  /\ UNCHANGED <<want, pod, csi, cut, usage, desired, queue, ranged, retries, budget>>

\* Mutant: the time of a failed prefetch's next attempt never comes.
TickerFrozen ==
  /\ pc = "wait"
  /\ pc' = "load"
  /\ UNCHANGED <<node, disk, usage, desired, queue, ranged, plan, retries, budget>>

Ticker ==
  /\ pc = "wait"
  /\ pc' = "load" /\ wait' = [d \in Digests |-> IF wait[d] > 0 THEN wait[d] - 1 ELSE 0]
  /\ UNCHANGED <<node, disk, usage, desired, queue, ranged, plan, attempts, budget>>

(* A kill leaves a marker half written, or a directory half removed: files   *)
(* go in any order.                                                          *)
Interrupted ==
  \/ UNCHANGED <<store, cut>>
  \/ /\ pc = "mark"
     /\ store' = [store EXCEPT ![Head(queue)].marker = "torn"] /\ UNCHANGED cut
  \/ /\ pc = "evict"
     /\ \E d \in Digests, marker \in {"none", "ok", "torn"} : \E model \in SUBSET store[d].model :
          /\ <<"store", d>> \in plan /\ store[d].dir /\ marker \in {"none", store[d].marker}
          /\ store' = [store EXCEPT ![d].marker = marker, ![d].model = model]
          /\ cut' = cut \cup {d}

Kill ==
  /\ pc # "down" /\ budget.kills > 0
  /\ budget' = [budget EXCEPT !.kills = @ - 1]
  /\ Interrupted /\ Exit
  /\ UNCHANGED <<want, pod, mount, previous, work, staging, usage>>

-----------------------------------------------------------------------------
(* The CSI driver: publish a volume, step by step. *)

CSI(p, from, to) == pc # "down" /\ csi[p] = from /\ csi' = [csi EXCEPT ![p] = to]

(* The Pod is read from the API server: it must be on the node, active and   *)
(* want the digest.                                                          *)
AuthorizePublish(p) ==
  /\ pod[p] = "active" /\ csi[p] = "idle" /\ mount[p] = "none"
  /\ \/ CSI(p, "idle", "authorized") /\ UNCHANGED budget
     \/ pc # "down" /\ Fault /\ UNCHANGED csi
  /\ UNCHANGED <<want, pod, mount, disk, usage, agent>>

ReadySource(p) ==
  /\ CSI(p, "authorized", IF EntryReady(store[want[p].digest]) THEN "ready" ELSE "idle")
  /\ UNCHANGED <<want, pod, mount, disk, usage, agent, budget>>

BindMount(p) ==
  /\ \/ /\ store[want[p].digest].model # {}
        /\ CSI(p, "ready", "mounted")
        /\ mount' = [mount EXCEPT ![p] = "store"] /\ UNCHANGED budget
     \/ /\ IF store[want[p].digest].model # {} THEN Fault ELSE UNCHANGED budget
        /\ CSI(p, "ready", "idle") /\ UNCHANGED mount
  /\ UNCHANGED <<want, pod, disk, usage, agent>>

(* The directory is made when it is no longer there.                         *)
TouchMounted(p) == LET d == want[p].digest IN
  /\ CSI(p, "mounted", "published")
  /\ store' = [store EXCEPT ![d].dir = TRUE]
  /\ TouchUsage(d)
  /\ UNCHANGED <<want, pod, mount, previous, work, staging, cut, agent, budget>>

(* A call that was lost after the mount finds the target mounted.            *)
PublishAgain(p) ==
  /\ pod[p] = "active" /\ mount[p] # "none"
  /\ CSI(p, "idle", "mounted")
  /\ UNCHANGED <<want, pod, mount, disk, usage, agent, budget>>

Unpublish(p) ==
  /\ pod[p] = "ending" /\ csi[p] \in {"idle", "published"} /\ pc # "down"
  /\ pod' = [pod EXCEPT ![p] = "gone"] /\ mount' = [mount EXCEPT ![p] = "none"]
  /\ csi' = [csi EXCEPT ![p] = "idle"]
  /\ UNCHANGED <<want, disk, usage, agent, budget>>

-----------------------------------------------------------------------------
(* Pods, and time. *)

Schedule(p) ==
  /\ pod[p] = "absent"
  /\ pod' = [pod EXCEPT ![p] = "active"]
  /\ UNCHANGED <<want, csi, mount, disk, usage, agent, budget>>

(* Deleted, but still running until its grace period is over; or ended.      *)
End(p) ==
  /\ pod[p] = "active"
  /\ pod' = [pod EXCEPT ![p] = "ending"]
  /\ UNCHANGED <<want, csi, mount, disk, usage, agent, budget>>

Age ==
  /\ idle < Len(lru)
  /\ idle' = idle + 1
  /\ UNCHANGED <<node, disk, lru, agent, budget>>

-----------------------------------------------------------------------------

RunRuntimeCycle ==
  \/ LoadDesiredArtifacts \/ EnsureDesiredArtifacts
  \/ Materialize \/ ExtractLayers
  \/ (\E c \in UNION {Chunks[d] : d \in Chunked} : MaterializeChunk(c)) \/ ExtractChunkedLayers
  \/ MaterializeFails
  \/ StageExistingDestination \/ ReplaceMaterializedDestination \/ WriteMarker
  \/ Scan \/ ApplyEvictionPlan \/ Ticker
  \/ Restart

NodePublishVolume(p) == AuthorizePublish(p) \/ ReadySource(p) \/ BindMount(p) \/ TouchMounted(p) \/ PublishAgain(p)

Next ==
  \/ RunRuntimeCycle \/ Kill \/ Age
  \/ \E p \in Pods : NodePublishVolume(p) \/ Unpublish(p) \/ Schedule(p) \/ End(p)

(* The process runs and is restarted, and the kubelet asks for a volume until *)
(* it is there. Pods come and go as they like.                               *)
Fairness == WF_vars(RunRuntimeCycle) /\ \A p \in Pods : WF_vars(NodePublishVolume(p))

Spec == Init /\ [][Next]_vars /\ Fairness

-----------------------------------------------------------------------------
Entries == UNION {[dir : BOOLEAN, marker : {"none", "torn", "ok"}, model : SUBSET Chunks[d]] : d \in Digests}
Roots == [root : BOOLEAN, chunks : SUBSET UNION {Chunks[d] : d \in Digests}, pack : BOOLEAN]

TypeOK ==
  /\ \A p \in Pods : want[p] \in Wants[p]
  /\ pod \in [Pods -> {"absent", "active", "ending", "gone"}]
  /\ csi \in [Pods -> {"idle", "authorized", "ready", "mounted", "published"}]
  /\ mount \in [Pods -> {"none", "store", "previous", "removed"}]
  /\ store \in [Digests -> Entries] /\ previous \in [Digests -> Entries]
  /\ work \in [Digests -> Roots]
  /\ \A d \in Digests : work[d] = NoRoot \/ (d \in Chunked /\ work[d].root /\ work[d].chunks \subseteq Chunks[d])
  /\ staging \subseteq Digests \ Chunked /\ cut \subseteq Digests
  /\ lru \in Seq(Digests) /\ ToSet(lru) = Digests /\ Len(lru) = Cardinality(Digests) /\ idle \in 0 .. Len(lru)
  /\ pc \in {"down", "load", "prefetch", "inspect", "extract", "install", "replace", "mark", "scan", "evict", "wait"}
  /\ desired \subseteq Digests /\ queue \in Seq(Digests) /\ plan \subseteq Directories
  /\ attempts \in [Digests -> Nat] /\ wait \in [Digests -> 0 .. MaxBackoff]
  /\ budget \in [faults : 0 .. MaxFaults, kills : 0 .. MaxKills]

(* A directory that counts as ready holds the whole model, whatever failed,  *)
(* was resumed or was replaced on the way; the exception is a directory whose *)
(* removal was interrupted by a kill.                                        *)
ReadyIsWhole == \A d \in Ready \ cut : store[d].model = Chunks[d]

MountWhole(p) == mount[p] = "store" /\ store[want[p].digest].model = Chunks[want[p].digest]

(* No step of the agent takes a file out of the volume of a running Pod that *)
(* its cycle has loaded, neither by eviction nor by replacement, while the    *)
(* directory is marked as ready.                                             *)
KeepsKnownMounts ==
  [][\A p \in Pods : pod[p] = "active" /\ want[p].digest \in desired \cap Ready /\ MountWhole(p) => MountWhole(p)']_vars

(* Every Pod gets its volume, unless its digest has two names or a marker     *)
(* that was half written.                                                     *)
GetsVolume ==
  \A p \in Pods : pod[p] = "active" ~>
    mount[p] # "none" \/ pod[p] # "active" \/ ~NormalizeDesiredArtifacts \/ store[want[p].digest].marker = "torn"

=============================================================================
