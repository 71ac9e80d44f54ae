# TLA+ models of ai-models

ai-models is a Deckhouse module that keeps a catalog of machine-learning models. A user
creates a `Model` (namespaced) or a `ClusterModel`; the controller fetches its files from a
remote source, or takes an upload, publishes them as an OCI artifact into DMCR (the module's
own registry, a distribution registry over S3 with a direct-upload helper and a garbage
collector beside it), and delivers the artifact to workloads through a cache on the nodes.

This directory holds TLA+ modules of the parts of that program whose correctness depends on
the order in which several processes act, or on what they find when they are made again:
controllers that work on what they read many calls ago, workers that may be interrupted
anywhere, replicas with their own clocks, caches that lag, and a garbage collector that
deletes what it believes nobody owns. TLC checks them on small instances; TLAPS proves every safety
invariant they check, four of them under a premise that *Proofs* names, for every value of the constants. `PROJECT.json` lists the parts of the
system, the runs, the proved theorems, the hazards and, under `map`, the lines of source
each definition stands for.

    tlc -workers 2 -config MCModelLifecycle.cfg MCModelLifecycle
    tlapm ModelLifecycle_proofs.tla

## The system and its parts

Paths are relative to `src/`; `controller` is `images/controller/internal`, `dmcr` is
`images/dmcr/internal`.

| part | state it keeps | operations | correct when |
|---|---|---|---|
| Catalog status controller (`controller/controllers/catalogstatus`) | `status` of the object | read, ensure the runtime (worker Pod or upload session), observe it, record handle, write status, charge storage, move the session on, delete the runtime | a Ready object can be served and deleted; every publication ends; nothing is deleted before what it stands for is recorded |
| Catalog cleanup controller (`controller/controllers/catalogcleanup`) | the finalizer; the cleanup-state Secret (handle, `completed-at`) | add finalizer, drain, remove artifact or stage, mark, request a collection, credit storage, remove handle and finalizer | every deletion ends, whatever it interrupts; nothing is left that nobody will remove |
| Source worker service (`controller/adapters/k8s/sourceworker`) | the worker Pod, the checkpoint Secret | get or create, recreate an interrupted worker, limit of active workers, delete | at most one worker per object; a failure is told from an interruption |
| Publication worker (`images/controller/cmd/ai-models-artifact-runtime`, `controller/dataplane/publishworker`, `controller/adapters/modelpack/oci`) | what it has resolved, selected and sent | resolve, select, reserve, cut into layers, upload, recover, push the manifest, remove the stage, leave the result | what it did survives its interruption, or is done again; the artifact is one revision, whole |
| Direct upload checkpoint (`controller/adapters/k8s/directuploadstate`) | a Secret: plan, current layer and session, completed layers, stage, phase | save, load | never ahead of what the registry stores |
| Source fetch and mirror (`controller/adapters/sourcefetch`, `sourcemirror`) | the mirror's manifest, state, objects and multipart uploads | resolve, estimate, mirror part by part, resume, read ranges | a mirrored file is the whole file of its commit |
| Formats, profiles, archives (`controller/adapters/modelformat`, `modelprofile`, `sourcefetch/archive_*`, `publishedsnapshot`, `domain/publishstate`) | none | decide format and files, find an archive's root, grade facts, show them | one decision for a model; nothing shown that is only guessed |
| Upload sessions (`controller/adapters/k8s/uploadsession*`, `controller/dataplane/uploadsession`) | the session Secret: token hash, phase, probe, multipart upload; the staging bucket | issue, probe, put, initiate, complete, abort, expire; publishing, completed, failed | what is handed over is whole and is not touched any more; a reservation ends with its upload |
| Storage ledger (`controller/domain/storagecapacity`, `adapters/k8s/storageaccounting`) | one Secret: reservations and published artifacts | reserve, release, commit, credit | the sum stays within the limit |
| DMCR maintenance gate (`dmcr/maintenance`, `dmcr/leaseutil`, `dmcr/garbagecollection/executor_lease.go`, `maintenance_gate.go`) | executor Lease, gate Lease with its sequence | acquire, renew, activate, release, expire | one cleanup at a time, covered by an unexpired gate; the gate opens again |
| DMCR write fence (`dmcr/maintenance`: `file.go`, `ack.go`, `http.go`) | gate file, ack files, ack Lease of every pod | mirror, observe, acknowledge, count the quorum, filter requests | whoever acknowledged refuses writes until the cleanup has ended; only replacements and surplus pods write beside it |
| DMCR collection requests (`dmcr/garbagecollection`: `runner.go`, `request_*.go`, `schedule.go`) | a request Secret per owner and one of the schedule | queue, arm, requeue, complete, prune, defer | done means cleaned; every request is served |
| DMCR sweep (`dmcr/garbagecollection`: `cleanup.go`, `*_inventory.go`, `publication_guard.go`) | what it listed | list live handles, list stored prefixes, delete the difference, run the registry's collector, list again | it removes all that is stale and nothing that is live |
| DMCR direct upload and sealed blobs (`dmcr/directupload`, `dmcr/sealedblob`, `dmcr/registrydriver/sealeds3`) | multipart uploads, physical objects, sealed metadata, repository links | start, sign parts, complete, verify, deduplicate, link, read | a linked digest can be read, and is that digest's |
| Chunked layers (`controller/adapters/modelpack/oci`: `chunk_layout.go`, `validation.go`, `materialize*.go`) | an index of chunks; chunk markers and packs on a node | validate, fetch chunk by chunk, install, replace | an accepted file is covered once, byte by byte |
| Node cache (`controller/nodecache`, `dataplane/nodecache*`) | the store with its markers, work roots and usage times; bind mounts | load, prefetch, materialize, touch, evict; publish and unpublish a volume | what is marked ready is whole; what is mounted stays; every Pod gets its volume |
| Node cache runtime and substrate controllers (`controller/controllers/nodecache*`, `adapters/k8s/nodecache*`) | a runtime Pod and a claim per node, a node label; volume groups and a storage class | create, replace, delete, label | claims outlive restarts; selected nodes end up with a ready runtime |
| Workload delivery (`controller/controllers/workloaddelivery`, `adapters/k8s/modeldelivery`) | annotations, gate, volumes and finalizer of a workload; shared claims | gate, resolve, patch, block, clean up | Pods do not start without their model; every workload converges |
| Monitoring and audit (`controller/monitoring`, `application/publishaudit`) | none of its own | read and export | left out |
| API types, hooks, module shell (`api`, `images/hooks`, `templates`, `bootstrap`) | declarations, certificates | render, wire | left out |

How they interact:

* `catalogstatus` and `catalogcleanup` share the object, the cleanup-state Secret, the runtime's Pods and
  Secrets and the ledger. Each works through ten and more API calls on what it read at the
  first of them; nothing excludes them from each other or from the worker but the phase
  of the object;
* the worker is driven through its Pod and checkpoint and answers through the Pod's phase, the
  checkpoint's phase and the termination message;
* the upload gateway and the controller share the session Secret;
* the cleanup controller asks the collector by creating a request Secret; the collector learns
  what is live from the cleanup-state Secrets and what is active from the phase of the Pods;
* the collector stops writers through the gate: Lease, file in every pod, refused requests;
* the node agent learns what to prefetch from the annotations of the Pods that delivery has
  rendered; its CSI driver runs in the same process and reads the same store.

What is hard: a reconcile that goes on after its object has changed; a crash or a failed call
between any two calls; Update answers that are lost; two executors that both believe they
hold a Lease; clocks; Leases that outlive their pods; copies that are listed and written back
later; a worker that is killed, cancelled, or loses its node between two durable effects, and the
one that takes over when the source has moved; patches that replace lists; and three
parties (collector, worker, cleanup) that each wait for another. `PROJECT.json` lists
every such place at its line under `hazards`, with the properties that watch it, or the reason
why none does.

## Modules

| module | what it is |
|---|---|
| `ExclusiveCleanup` | abstract: destructive cleanups run in one replica at a time |
| `MaintenanceGate` | executor Lease, gate Lease and the cycle under them, on skewed clocks; implements `ExclusiveCleanup` |
| `WriteFence` | extends `MaintenanceGate` by what carries the gate into every pod and the acknowledgements back |
| `GCRequests` | the request Secrets and the executor's loop over the copies it listed |
| `SealedBlobs` | upload sessions, sealed metadata and links of one registry, with the collector |
| `ModelLifecycle` | one object with both catalog controllers, worker, upload client, Kubernetes and collector |
| `ArtifactPublication` | abstract: the publication of one artifact |
| `LayerRange` | how a layer's content is read, part by part, from the files it is made of |
| `LayerUpload` | extends `LayerRange`: the worker's layers, sessions, checkpoint, seals and manifest |
| `ModelFormat`, `ArchiveSource`, `OllamaSource` | operators: the files that make a model, of a repository, an archive or an Ollama manifest |
| `PublishWorker` | extends the five above: the worker from its source to the artifact; implements `ArtifactPublication` |
| `ModelProfile` | operators: what a profile finds and a status shows |
| `StorageLedger` | the ledger and its operations, as one owner sees it |
| `UploadSession` | extends `StorageLedger`: gateway, session Secret, staging bucket, reconciler, deletion |
| `ModelPackLayout` | operators: the chunk index of a layer and its validation |
| `NodeCache` | extends `ModelPackLayout`: the agent and the CSI driver of one node |
| `NodeCacheRuntime` | runtime and substrate controllers |
| `WorkloadDelivery` | webhook and controller of one workload |
| `WriteFence_proofs` | the theorems about `MaintenanceGate` and `WriteFence` |
| `GarbageCollection_proofs` | those about `GCRequests` and `SealedBlobs` |
| `PublishWorker_proofs` | those about `PublishWorker` and `ModelProfile` |
| `NodeCache_proofs` | those about `ModelPackLayout` and `NodeCache` |
| `ModelLifecycle_proofs`, `UploadSession_proofs`, `NodeCacheRuntime_proofs`, `WorkloadDelivery_proofs` | those about the module of that name |
| `MC*` with its `.cfg` files | instances for TLC |

Definitions named "Mutant of" stand before the definition they change: a plausible slip in
the code they sit next to (a dropped guard, a missing write, a swapped order). No next-state
relation uses them. They show that the property they belong to would notice.

### MaintenanceGate

`exec` and `gate` are the two Leases, `phase`, `since`, `sequence` the locals of `RunLoop` and
of a cycle: idle, activating, acking, cleaning, releasing. `Get` and `Update` of a Lease
make one step because the `Update` carries the `resourceVersion` read; the time written was
read before, so it may be any between the start of the cycle and now (`\E now`). Every
replica reads its own clock (`Skew`). `ActivateAnswerLost` is an `Update` that was stored and
reported as failed, `AbandonCycle` every way of leaving the gate behind. The deadline of
the cycle (`options.go`) is `InTime`; a cancelled cleanup stops within `StopLag`.

`MarginAssumption` is what the safety rests on: `applyDefaultOptions` keeps the gate's
duration at least a minute above the cycle's timeout, and that minute has to cover clock skew
and the lag of a cancelled cleanup. The code does not check the clocks; the models assume
this and the proofs use nothing else about time.

### WriteFence

Per pod: `file` (the mirrored gate), `ackFile` per writing component, `ackLease`, and `quorum`,
the acks a running cleanup was started on. `SyncGateFile`, `ObserveGateFile`, `SyncAckLease`
are the three loops that move the gate one hop, `BeginAckedCleanup` the end of
`waitMaintenanceGateAckQuorum`. `PodStops` loses the volume and keeps the Leases, `PodStarts`
is a replacement under a new name; a stopped pod serves nobody any more. There are at most
`MaxSurge` more pods than the Deployment asks for: the template sets 0 with two replicas
(`templates/dmcr/deployment.yaml:18`), and leaves one replica to Kubernetes' default, which is one.
The quorum is the number of replicas (`deployment.yaml:242`).

Pods that were not counted are bound by no acknowledgement, and a cleanup can begin and run while one of them takes
writes. `OnlyReplacementsWrite` says how many these can be: the surplus pods and one for each counted pod
that is gone. That a quorum of all replicas leaves nobody else is a matter of counting Leases that
outlive their pods, hence the hazard at `maintenance/ack.go:222`.

### GCRequests

`request` is what `classifyRequest` makes of each Secret: absent, queued, ripe (the activation
delay is over), active, done, expired. An executor's step is `List`, then prune, then one of
arm, requeue, or gate and clean and complete, each a loop of writes over the copies in
`seen`. `fresh` says which copies still have the Secret's `resourceVersion`: `UpdateCopy` fails
otherwise, `Prune` does not look. Any executor may take a step at any time, because the
Lease is only renewed in the background; `cleaners` is kept to one by the gate. `sweeping` and
`covered` are history: which requests were last asked for before a cleanup began, and before
one that has succeeded.

### ModelLifecycle

The object is `source, life, finalizer, status`; the cleanup-state Secret `kind, completed`; the
runtime `pod, state, session`; what is stored `repository, staged, charge`; the collector's
`request, sweep`; `cs` and `cc` are the reconciles in progress, with the step they have
reached and what they decided at earlier ones. One action is one call:

* catalogstatus: `ReadObject` (decides the mode, or that there is nothing to do), then
  ensuring (`RetainedWorker`, `EnsureState`, `LookupPod`, `ReplacePod`, `WaitForSlot`, `CreatePod`;
  `IssueSession` for an upload), then persisting (`RecordHandle`, `WriteStatus`, `SyncLedger`,
  `SyncSession`, `DeleteRuntime`, `DeleteState`) in the order that `Apply` and `GoTo` take from
  the plan. `EnsureFails` is a failed call while the runtime is ensured: the code makes it
  a terminal Failed status. `StatusRetries` is a failed call later on, or a crash at any step;
* catalogcleanup: `ReadForCleanup` looks once and fixes the plan of the pass (add the finalizer,
  drain, clean, release); the other actions carry it out. `CleanupRetries` writes the reason to
  the status where the code does, `CleanupCrashes` does not;
* worker: `WorkerUploads`, `WorkerStores`, `WorkerReleasesStage`, `WorkerCompletes`,
  `WorkerSucceeds`, and its ways to fail, to be interrupted or to be terminated;
* `ClientUploads`, `ClientAborts`, `UserDeletes`; `OwnedCollected` is Kubernetes' garbage
  collection of what a ClusterModel owns (runtime objects of a namespaced Model live in
  another namespace and carry no ownerReference: `OwnerRefs` is FALSE);
* collector: `SweepChecks` (defer while Pods are active), `SweepGates`, `SweepLists`,
  `SweepDeletes`, for the one repository.

Abstractions to know. The spec is immutable and the repository's path contains the object's
UID, so one object and one repository are enough. There is one status reconcile and one
cleanup reconcile at a time, as controller-runtime keeps them per key. Reads
return the latest state: informer lag is not modelled. `terminating` is a Pod whose
deletionTimestamp is set while its process may still work until the signal reaches it. Workers of
other objects exist as `WaitForSlot` only. A failed call, a crash, a killed or cancelled worker
each spend one of `MaxFaults`. Progress, conditions, messages and events are left out.

### SealedBlobs

Two repositories share digests. `multipart`, `objects`, `metadata`, `links`, `manifests` are
what the store holds, `call` the completions under way with the step each has reached, `gc` the
cycle with the lists it works from. A completion is assemble, verify, check, then
seal and link, or link the duplicate and delete its own object; each is one action because
other completions and the collector run between any two. `CallBreaks` ends a call anywhere: its
context is that of its request. `Ages` is time: an expired token makes what a session left
behind stale. `MarkManifests` and `SweepBlob` are the registry's own collector, by what
`cleanup.go` relies on; the pass after it lists again what lost its digest. `BeginCycle` and
`CloseGate` check the active publications and close the gate.

`Drained` says whether requests admitted before the gate closed have ended when the cleanup
lists. The code does not make them; `Drained = FALSE` is the code, `TRUE` what it counts on. With
`Rereads` the verification policy is the one that reads the object again when the store gives no
checksum. The default trusts the client's digest (`verification_policy.go:29`), where
`docs/CONFIGURATION.md:103-110` describes the stricter ones. `PutManifest` is one step. The retry of a
completion whose answer was lost fails when it was deduplicated, for its object is gone: the
layer has to be sent again.

### PublishWorker and what it extends

A *scenario* is a publication: kind of source, mirrored or not, the format asked for, and the
revisions the source goes through. Contents are sequences of part names, so that a size is a
length and a digest is the content it covers. A layer has a path and is raw, packed or repacked: that is its
key, by which checkpoint, sessions and registry know it (`directUploadLayerKey`).

* `PublishWorker`: `resolved`, `selected`, `file`, `mirror`, `staged`, `reserved`. The worker
  resolves (a branch may have moved since the last worker), selects by `ModelFormat`, reserves, mirrors file
  by file and part by part with the uploads the mirror's state names, and cuts the files into layers: one file
  is a raw layer, small companions are bundled into one packed layer, an archive is packed
  again. `Confusable` and `MirrorOfTag` name the two sources for which resumption is not sound, see below;
* `LayerUpload`: `secret` is the checkpoint, `memory` the worker's copy, `session` and `sealed` what
  the registry has of each layer, `manifest` what is published. Load, plan, open or resume, parts, save, recover
  (at most `Attempts` times without progress), complete, config, manifest, inspect. `Terminate`
  cancels the worker, which still notes its end; a kill does not;
* `LayerRange`: which parts of which files make a range of a packed layer, headers and padding going
  with the file they belong to; that the range is that part of the described layer is the theorem `RangeIsLayer`;
* `ModelFormat`, `ArchiveSource`, `OllamaSource`: from kinds of files to a decision; a
  name is abstracted to the kind the code takes it for (`config`, `safetensors`, `benign`,
  `native`...).

Left out: HTTP errors beyond "the call failed", tokens, redirects, and the local path of an upload without a
session. The store lists the parts of an upload in one answer of `MaxListed` at most, so that a described layer
may go on behind what it has sent (`direct_upload_transport.go:219`).

### ModelProfile

Each fact is a record of value and confidence. `GGUFProfile`, `SafetensorsProfile` and
`DiffusersProfile` put together what the user set, the source declared, the files say and a
name hints at, `ReadyStatus` and `MetadataCondition` what of it is shown. A name is a value; of a
quantization the width that is read from its text counts. The module has no state: `MCPublishWorker` checks it
on a few summaries of each format, and that the capability rules are disjoint and known to the status.

What the model shows and the code does: of a GGUF name with "bf16" the check for "f16" finds a part
first, so that "bf16" is never reported (`gguf/profile.go:232`); a checkpoint of a known base is a
text generator whatever its head, so that a `LlamaForSequenceClassification` is Ready with a
Chat endpoint and confidence Derived (`safetensors/task.go:80`); an uploaded archive passes no
tokenizer config, so that tool calling is only found of remote sources
(`upload_archive_publish.go:119`); names with q5, q6 or fp8 count two bytes a parameter.

### StorageLedger and UploadSession

One Secret holds the ledger; an operation is repeated until its update meets no conflict, hence one
step. `ledger` is the reservation and the artifact of one upload and the sum of the others.

`session` is the Secret of the session, `link` the Secret that hands its token over, `object` and `uploads` the
staging bucket, `requests` the gateway's requests with the step each has reached, `owner` the
Model, `ctl` the reconcile, `cleanup` the deletion. A request loads the session before it takes
its replica's mutex and decides by what it loaded; its updates are re-applied to the newest Secret without
a look at the phase (`http_api.go:64`, `client.go:145`). `Disconnect` ends a request anywhere: what
it would undo runs under its own context and is not undone.

Known and excepted: the parts of a completed multipart upload can no longer be listed, and the error fails
the Model whose payload was just accepted (`AcceptedIsKept` excepts multipart and expiry); a Model that
is Ready with a refused commit keeps its reservation; uploads that are replaced stay in the bucket. Left out: names
and keys, presigned URLs, legacy tokens, and a terminating worker's late reservation
(`publish_worker_storage.go:94`), which nothing ever takes back.

### ModelPackLayout and NodeCache

`ModelPackLayout` is `validation.go`: what an index of chunks must satisfy, with the sizes in bytes and
the overflow that the code guards against at `MaxInt64`. `Tiles` is the reference: each byte of a file
is in one chunk. `MCNodeCache` compares the two on all small indices (`TilingReference`), and the proof
covers all.

`NodeCache` is one node: `pod` and `want` of each Pod, `csi` and `mount` the driver's way with its volume,
`store`, `previous`, `work`, `staging` the directories, `pc` the agent's step, `desired`, `queue`,
`plan` what it has listed. Agent and driver are goroutines of one process, so `Kill` ends both; the files stay. The
agent's cycle is load, prefetch (with a wait that doubles after each failure), scan, evict; a
materialization is inspect, extract chunk by chunk, install, replace, mark.

Known and excepted: two names for one digest stop the cycle (`GetsVolume`); a marker half written at a kill is
never repaired (`materialize.go:250`); an eviction cut short leaves a ready directory that is not whole
(`cut`); a Pod scheduled after the cycle has listed can lose its volume to that cycle's eviction
(`plan.go:55`), which `docs/FAQ.md:104` does not foresee; the work root of a failed prefetch goes with the same
cycle's maintenance, so that chunks are resumed only after a kill. Left out: the order of eviction by size, the digest check
of layers that are not chunked (the code has none), and `coordination.go`, which only the command `materialize-artifact` uses
and no controller starts.

### NodeCacheRuntime

`node`, `pod`, `claim` as the API server has them, `seen` as the informers do, `rec` the reconcile under way;
`groupSet`, `group`, `class`, `sub` the substrate. `api` is how the API server keeps objects:
with defaults for fields the controller leaves out, and with or without refusing the update of a bound claim. Both
controllers restart with other settings (`version`); the runtime Pod reports its usage on itself.

What the model shows: the usage report is an annotation of the Pod, the controller compares annotations
exactly, so that every report makes it delete the ready Pod, driver included (`service.go:163`,
`pod.go:99`), against `docs/CONFIGURATION.md:226`; a desired claim written over a bound one clears its volume
name, which an API server refuses, and the reconcile never gets past it (`service.go:131`); defaults that the
comparison does not take back delete the Pod for ever. `Settles` is stated for the API server and the silence
for which it holds. Left out: owner references and the events of removed nodes.

### WorkloadDelivery

`w` is the workload as stored, `cache` and `known` what the informers have, `ctl` the reconcile: read,
resolve, ensure the shared claim, compare, patch. The webhook acts inside `Create` and
`Edit` (`Admitted`). Patches are merge patches without a precondition: they replace whole lists by what was computed from
the cached object.

What the model shows: a template that keeps the resolved annotations while its Pod spec is replaced starts
without gate and volume (`admission.go:111`), against `docs/FAQ.md:100-107` (`StartsWithModels` excepts
that edit and no other); with the node cache and a shared storage class both set the claim has no name and every delivery
fails, and so does the claim for a model without a size for as long as it is wanted (`shared_pvc.go:132`;
`Settled` promises nothing there); a reason on the object is not removed with the reference; no watch on claims, so that the reason ClaimPending stays
until the next resync. Left out: explicit volumes of the CSI driver, claim templates of a StatefulSet, parse errors, pull
secrets, legacy projected access.

## Runs

| run | instance | shows |
|---|---|---|
| `gate` | two replicas one unit of skew apart, margin two, time to 10, three activations | types; the gate of a cleaning replica is its own and unexpired on all clocks; cycles under way have distinct sequences; cleanups exclude each other (`ExclusiveSpec`, a refinement); an activated gate is released or expires |
| `fence` | two pods and the replacement of one, quorum two, no surplus, time to 3, two activations | pods whose acks started a cleanup refuse writes until it ends; other pods write beside it only in the place of a counted one that is gone |
| `gc_requests` | one executor, one owner and the schedule, three asks | a request that reads as done was answered by a cleanup that began after it was last asked for; every pending request is served or pruned once publications leave a gap |
| `sealed_blobs` | three sessions of one digest for two repositories, two completions at a time, one damaged transfer | a published digest can be read and is that digest's, whoever else uploads, deletes or collects it; a cycle that ends leaves no orphan it was asked for |
| `sealed_blobs_admitted` | the same, with requests that outlive the closing of the gate | **violated**: what is published can be read |
| `publish_worker` | fifteen publications (Hugging Face, Ollama, a file, an archive; mirrored or not; of one or two revisions, or refused), two faults, two cancellations, one kill | what a worker resumes from mirror and checkpoint is whole and of one revision; refinement of `ArtifactPublication`; the worker ends |
| `upload_session` | one client at a time, direct or multipart, two faults, two uploads | the ledger stays within its limit; what is handed over is whole; reservations end with their upload; a payload that was accepted is not failed; the Model concludes |
| `node_cache` | two Pods that may want a chunked and a plain artifact, one fault, one kill | ready directories are whole; what a Pod known to the cycle has mounted stays; every Pod gets its volume |
| `node_cache_runtime` | one node, every behaviour of the API server, two settings, two selections, one fault | the claim of a node that stays selected is kept; in the end the selected nodes, and no other, have a ready runtime |
| `workload_delivery` | one workload, one model with two digests, all documented settings, and shared claims with a first digest of unknown size, one edit of each kind, one fault | Pods do not start without their model; the workload converges |
| `lifecycle` | either source, one fault | types; a live Ready object has a backend handle; the Pod of a success goes only after its result is recorded; deletions end; what a finished deletion leaves in the registry is swept |
| `lifecycle_publication` | either source, three faults, no deletion | publications settle |

### Bounds, and why they are enough

* Gate: exclusion, takeover and lost answers are about two parties. Two skewed replicas with a
  margin of two make the deadline and the expiry meet exactly; time 10 holds a cycle, an
  expiry and a second cycle by the other replica, and three activations a third one.
  `StartCycle` begins a cycle only if its gate can still expire within `MaxTime`, so that
  liveness does not depend on the bound. `exec.renew` and `gate.renew` are times, hence bounded.
* Fence: two pods and a quorum of both let acks of an earlier activation be seen in a later
  one (`MaxSequence = 2`), and either of them be replaced. Cycles begin at time 0 and their
  cleanup may run until time 1, past the duration of an ack Lease; the gate expires at time 2. Cycles
  spread further in time are the subject of `gate`. One component stands for the two writers of a pod, which behave the same;
  the proofs are for any number, and any surplus. The two first pods are interchangeable, hence the symmetry. The bound on
  time stops the system, so deadlock is not checked there.
* Requests: an owner who asks during the loop, and the schedule, with three asks: enough for a request to be
  asked, served, asked again during the service, and pruned. Safety is proved for any number of executors,
  which only add interleavings of loops over copies of their own.
* Sealed blobs: a digest lost by one repository and kept by the other is the hazard, so one digest and two repositories;
  three sessions let a third upload find the blob of the first while the second replaces it. `MaxCorrupt = 1`: one
  transfer may be damaged. The sessions are finite, so the system stops in the end.
* Publish worker: sizes are one or two parts, so that a layer is opened, interrupted between its parts, listed short
  (`MaxListed = 1`), also behind what was sent, and resumed. Bundles of two and three parts make the limit of a bundle (`MaxBundle`)
  be reached and passed. A publication with one more fault or kill does what it did before from a checkpoint that is
  already covered. The `GiB` of 4 rounds the working set of a profile to its boundaries.
* Upload: one request at a time with any number of retries, each of which may be broken off; the reconciler and the
  deletion are beside it at every step. With two overlapping requests on one replica and payloads of two sizes,
  `ReservationEnds` and `AcceptedIsKept` hold as well (4.2 million states, without faults) and `HandOffIsWhole` does
  not, see below; with payloads of one size all hold (2.2 million). Types, `WithinLimit` and `ReservationEnds` are
  proved for any number of overlapping requests, the others for these two cases.
* Node cache: the hazards are between one cycle, one driver call and one Pod that goes as another comes. A limit of
  two parts holds either artifact and not both, so that eviction is needed; `MaxInt64 = 9` lets an index overflow.
* Node cache runtime: nodes do not share anything but the storage class, whose list is the subject of `Settled`; one
  node that is selected, deselected and selected again is the story of each.
* Workload: references, template, spec and models each change once while the controller is anywhere; a second create gives
  the shared claim of a former workload.
* Lifecycle: one object is the whole story of one object. One fault at any place of the
  publication, the worker or the deletion is checked with everything else. `OwnerRefs` is TRUE in every run:
  Kubernetes may then collect what a deleted object owns but need not, so that the behaviours of a
  namespaced Model, for which it does not, are among those checked. What the faults
  may break together is larger for a publication, because each retry starts from what the
  last one left: `lifecycle_publication` has three, enough for a status that is never written while
  the worker starts, ends, and its result is recorded. It leaves deletions out (`KeptSpec`), and
  nothing with them: a behaviour that never settles is one in which the object is never deleted.
  The safety properties of `lifecycle` are proved for any number of faults.

Deadlock is not checked where publications, uploads, workloads or sessions come to their end and nothing is left to do.

### Fairness

* `MaintenanceGate!FairSpec`: time passes (`Tick`), and a replica that has begun a cycle gets on
  with it, because each of its calls carries a context with a deadline. Nothing makes a
  replica start a cycle or renew a Lease.
* `GCRequests!FairSpec`: delays pass; a step that cannot go on returns; and every part of the loop that
  is possible again and again is taken in the end. The last is strong fairness: a
  restart may cut any pass short, but the container is restarted each time and the API comes
  back. Without it a request is never served by an executor that dies in every pass.
* `ModelLifecycle!DeletionFairness`, of `FairSpec`: the cleanup reconciler is level-triggered and requeues every five
  seconds, the worker and the terminating Pod make progress, the collector's schedule comes round.
  `CleanArtifact` is strongly fair: the gate is closed for a part of a twenty-minute cycle while the
  cleanup is retried every few seconds. Of the status reconciler nothing is assumed: a deletion ends
  although a status reconcile stands still at any of its steps.
* `PublicationFairness`, with it in `KeptSpec`: the status is polled every second. `CreatePod` is strongly fair: a slot is
  free again and again, as other workers end. `ObserveSession(TRUE)` is: a session's Secret has a fixed
  expiry, so that it is found expired in the end. No fairness is assumed of the client, the user,
  faults, or of how a worker ends.
* `PublicationSettles` is stated under `ReadsSettle`. The checkpoint is read before the Pod; a failure
  for good that falls between the two is mistaken for an interruption and the worker is made
  again. That can happen any number of times, and the hypothesis is that it does not
  happen for ever.
* `PublishWorker`: weak fairness of `Work`: the worker runs, and one that is gone is made again (which
  `ModelLifecycle` shows of the controller). Which of its steps it takes, and how it is interrupted, is free.
* `UploadSession`: the reconciler polls every second, time passes, a worker ends. Nothing of clients, faults or other owners:
  an upload that nobody goes on with concludes by its expiry.
* `NodeCache`: the process runs and is restarted, and the kubelet repeats the publish call of each volume. Nothing of Pods.
* `NodeCacheRuntime`: both controllers and their watches run; Kubernetes binds claims, starts Pods and deletes what
  has no finalizer, and the storage modules make the groups ready. Nothing of users or restarts, which are bounded.
* `WorkloadDelivery`: the controller with its retries, and the watches of workload and models. A failing call is tried
  again by the queue, which is why `CallFails` is in the same disjunct and bounded.

`PublicationSettles` holds in one case by expiry only. When each write of the Publishing status fails until the
worker of an upload has ended and its handle is recorded, the status still reads WaitForUpload; the object
is then taken for one that waits for an upload, finds its session in the phase publishing, and stays
so until the session expires and the Model fails, its artifact stored and its handle recorded. Without the
fairness of `ObserveSession(TRUE)` TLC shows this behaviour.

## What does not hold

`sealed_blobs_admitted` is the one finding: the gate refuses requests that arrive while it is closed and waits for none that
was admitted before (`maintenance/http.go:49`). Such a completion finds no sealed metadata after the sweep,
writes metadata that names its own object, which the post-cleanup pass deletes as an orphan, and writes it over the
metadata of a digest that another repository has published meanwhile. `docs/CONFIGURATION.md:126` says the
digest resolves to the object. With `Drained = TRUE` all properties hold: the window is the only one.

The models of lifecycle, requests, fence, blobs and uploads allow the following too, which no document rules out. A property
would only say that it fails, so there is none; the hazard at the line has a note, or the theorem a premise.

1. `AckQuorumReady` counts any unexpired ack Lease of the right sequence. The Lease of a deleted pod still counts, while its
   replacement has not read the gate yet and takes writes (`maintenance/ack.go:222`). So does, with one replica, the
   surplus pod of a rolling update. `OnlyReplacementsWrite` is what remains: there are no other such pods.
2. The prune decides on listed copies and deletes by name, so a request queued again in between is deleted with its
   Secret. The next schedule makes up for it (`garbagecollection/request_result.go:62`).
3. A Pod that has succeeded does not defer the collector, and until the controller has recorded the handle nothing says the
   repository is live. A cycle that begins in this window deletes it; the Model becomes Ready without an
   artifact (`garbagecollection/publication_guard.go:51`).
4. A status reconcile under way writes the cleanup-state Secret of an object that has since gone. Nothing deletes it, and
   the collector takes the repository for live (`catalogstatus/io.go:161`).
5. The ledger is charged after Ready is written. If that call fails the object is never reconciled again, and the artifact is
   not accounted for (`catalogstatus/io.go:186`).
6. With the default verification policy (`Rereads = FALSE`) and one damaged transfer, `BlobsIntact` fails although admitted
   requests are drained: the damaged upload is believed while its checksum cannot be read, is sealed, and is linked by a second
   repository. When its completion is repeated the checksum is there, does not match, and the object that the published
   digest resolves to is deleted as the remains of a failed upload. This is why `PublishedStaysReadable` assumes
   that bytes are read again or arrive whole.
7. Upload requests load the session before they take the mutex of their replica and never load it again
   (`uploadsession/http_api.go:49`, `terminal_api.go:29`), and the probe is saved whatever the phase
   (`uploadsession/lifecycle.go:28`). Two requests that overlap with payloads of different size may then hand over
   a size that the staged object does not have (`HandOffIsWhole`); with three on two replicas a payload that was accepted can
   be failed (`AcceptedIsKept`). One client that waits for its answers, or one payload however often it is sent, does neither.

Of the publication worker:

1. A recreated worker resolves a branch again. Its checkpoint compares numbers and sizes and knows a layer by path and
   media type, so that layers of two revisions that agree in these are published as one artifact
   (`direct_upload_state.go:191`). `Confusable` names these sources.
2. The mirror of an Ollama model is located by its tag, which moves, and no digest of a blob is verified (`MirrorOfTag`).
   A file of the mirror may then be a mixture of two blobs, and, because a copy is made anew when it cannot be told whether
   the object is there, change under a checkpoint that has hashed a part of it: not even the digest a blob is stored
   under covers it. The attempt to prove the latter found this; with three faults and three cancellations TLC shows
   it for a tag that moves to a longer blob. Of all other sources `ResumesSoundly` holds.
3. A worker killed after the last part of a mirrored file and before its completion asks for the range behind the end,
   and the answer 416 is an error (`huggingface_mirror_transport.go:109`).
4. Ollama's range reader takes an answer 200, with the whole blob, for the range (`ollama_object_reader.go:46`).
5. The staged upload is deleted before the result is reported (`upload_stage_streaming.go:119`); a worker cancelled in
   between is made again and cannot find it. The Model fails although its artifact is stored.
6. A mirror that failed is not deleted (`huggingface.go:143`), its state is written over without its upload IDs
   (`huggingface.go:240`).
7. For a mirrored Ollama model the size is reserved once, for a mirrored Hugging Face model twice (`ollama.go:186`,
   `huggingface_storage_estimate.go:28`).
8. Completed layers and the current one may be more than the plan knows of; the checkpoint then refuses to be
   saved (`directuploadstate/secret.go:310`).
9. A `__MACOSX` directory beside the only directory of an archive hides it: there is no common root any more.
10. An empty file among the selected ones fails the publication (`huggingface_storage_estimate.go:52`), a license of more than
    256 KiB that of an Ollama model (`ollama_registry.go:139`).
11. The store's list of parts is read without continuation: a layer of more parts than one answer holds is never
    resumed (`dmcr/directupload/aws_backend.go:199`).

What node cache, its controllers, delivery and uploads show besides is with their modules above.

## Proofs

All are for any number of replicas, pods, executors, owners, requests, nodes and faults, from the named `ASSUME`s and,
where it is said, a premise of the theorem.

* `WriteFence_proofs`, of the gate: types, `GateCoversCleanup`, `SequenceNamesOneCycle`, and the refinement
  `Spec => Exclusive!Spec`. `GateCoversCleanup` is not inductive: while a replica still waits
  for acks its gate may already be lost to another. `GateInv` says that a cycle whose own clock is in
  time (`Covered`) owns the gate with the sequence it got and a renew time not before the cycle's start, and that
  sequences only grow. With `MarginAssumption` a gate that fresh is unexpired on every clock for
  as long as the cleanup may run, hence nobody else can activate, hence cleanups exclude each other.
* Of the fence: types, `AckersReadOnly`, and `OnlyReplacementsWrite` for a quorum of at least all replicas. `FenceInv`: a file never runs ahead of the gate's sequence, a file with the
  current sequence is exactly the mirror of the gate, an ack Lease with the sequence of a
  covered gate comes from a pod whose file is that mirror, and whoever is in the quorum of a
  running cleanup is such a pod or gone. The gate invariant is taken over, since each step is one of the gate or leaves it
  alone (`FenceIsGate`, which says no more than that). `OnlyReplacementsWrite` needs two counts besides: `PodsBounded`, no more
  pods are up than the Deployment has and the surplus, and `QuorumIsCounted`, a cleanup was begun on a quorum of
  distinct pods. Those of the quorum that are up are blocked, by `AckersReadOnly`, so the pods that write are counted against
  the ones that are gone. It assumes finitely many identities, as many as have been used.
* `GarbageCollection_proofs`, of the requests: types and `DoneMeansCleaned`. `RequestsInv` adds `CopiesSwept`: a copy that is
  still fresh equals its Secret, and what an executor is about to complete from fresh copies
  was asked for before the cleanup it finished began.
* Of the blobs: types, and that under the policy that rereads nothing damaged is ever sealed, in every case; `BlobsIntact` and
  `CycleReclaims` under the premises `Drained` and `Rereads \/ MaxCorrupt = 0`, without which the first is false (see above).
  `ContentInv` is what requests and sessions promise whatever the collector does: a repository has one completion at a time, the
  upload of a completion takes no parts any more, what is verified or sealed has its bytes. `StoreInv` adds the collector: while it
  works from its lists nobody completes anything, what it is about to delete is sealed by nobody, and what its registry sweeps is in
  no manifest. `StageInv` says of each stage of a cycle what is left to delete of that for which it answers.
* `ModelLifecycle_proofs`: types, `ReadyHasHandle`, `SuccessNotLost`. A reconcile acts for many steps on what it
  read once, so `PublicationInv` says what each step can still count on: a reconcile of a
  Ready object has only its last calls to make (`ReadyIsOver`); past the handle, a success has it
  (`SuccessRecorded`); a Pod about to be replaced or deleted as failed has not succeeded
  (`DoomedPod`); only workers succeed (`ModesAgree`); and the cleanup controller does nothing to a
  live object but add the finalizer (`CleanupWaits`).
* `PublishWorker_proofs`: types, `ResumesSoundly`, and the refinement `Spec => Publication!Spec`, for any files, layers and
  revisions. The invariant is `ResumedInv == Known /\ (Certain => CertainInv)`. `Known` holds of every source: what was fetched
  (`FetchInv`), checkpoint, copy and sessions (`SessionInv`: what a checkpoint says of a session is behind what the store has of it,
  whichever of save and part came last), and the mirror (`MirrorInv`: what is at a path is a beginning of the file selected
  there). `CertainInv` is about sources without `Confusable` and `MirrorOfTag`. The checkpoint `Fits` some revision:
  its plan is that revision's, and what was sent and hashed of its session is a beginning of one of its layers (`Covers`). A worker
  that passes `EnsureProgressPlan` has a revision of the same plan, and if it resumes the session, one with a layer of
  the same key and size; where two revisions have all that in common, the layers are equal, or the source would be `Confusable`.
  From there on each part extends a beginning to a longer one, which is `RangeIsLayer`: the part that is read
  is that part of the layer that was described. `ProcessedInv` collects the layers behind the worker until the manifest
  names them. `LayersInv` (a worker that has its layers has some, and past the manifest there is one) serves `StagedUntilPublished` and,
  with `Known`, the refinement: a layer that is completed is stored, the manifest publishes, the terminal state of the checkpoint
  ends it.
* What this rests on is proved of the operators, the value of every recursive function included: `Among`, `FlattenSeq` and the
  segments of a range. The library's theorems on induction and recursive definitions take operators, which the provers here cannot
  instantiate. Its smallest element of a set (`WFMin`) takes a set, and numbers are all that is needed: `Recursion` says that a
  step, given as a function that stays in a set, has a function that follows it, because the smallest number without one does not
  exist. What is bundled (`Partition`) need not be known: the layers are sound whatever set of files is packed.
* Of the profiles: `StatusIsTrusted`, by one lemma for each fact of each format: what the status leaves out is reported
  as partial metadata, and endpoints and modalities come from tasks that are more than a hint.
* `UploadSession_proofs`: types, `WithinLimit`, `ReservationEnds`; with one request at a time or payloads of one size also
  `HandOffIsWhole` and `AcceptedIsKept`. Types need an invariant of their own: `HandOff` records what
  `ListParts` or the session had shown earlier, so that `FoundIsHandle` is carried from step to step. Each operation
  of the ledger is a lemma: it takes a ledger within the limit to one. A reservation ends because whatever it is held for has
  something that stands for it: a session that expires, a reconcile that hands over, a worker that ends, a deletion
  (`ReservationInv`). The two others carry through every step of a request what the session was when the request read it: with one
  request only the reconciler and the deletion have come between (`WholeInv`); with one size nothing that came between
  matters (`SameInv`).
* `NodeCache_proofs`, of the layout: `AcceptedFileIsTiled`. The validation sorts the chunks of a file by offset and compares
  neighbours; the theorem says that any number of chunks that pass it cover each byte once, which is an induction over the
  chunks. It is made as the argument of a smallest counterexample (`Smallest`): no byte is the first one that no chunk, or a
  second chunk, covers.
* Of the cache: types, `ReadyIsWhole`, `KeepsKnownMounts`. `NodeInv` follows the agent: what it materializes is the head of
  its queue, which was not ready when it was listed; at each step the work root holds what the steps before have made, up to
  the marker; nobody else makes a directory ready; and a planned eviction leaves out what is wanted and ready. The proof is for any
  artifacts, sizes and number of Pods, kills included.
* `NodeCacheRuntime_proofs`: types and `ClaimKept`. The informer may be behind and the deletion of a claim has no precondition, so
  `ClaimInv` compares selections: what was read of a node is of the node's present selection or an earlier one; every claim was
  made for a selection the informer has seen; and whoever is on the way to delete a claim has read a node that was not
  selected, so that a node selected now has been selected anew since, and its claim is not of this selection.
* `WorkloadDelivery_proofs`: types and `StartsWithModels`. What the controller has read may be old, so the invariant is about the
  objects: the webhook leaves no referring workload without gate that is not stamped (`StampGates`), and a patch, merged into whatever is
  stored by then, changes stamp and mounts together unless the owner edits the Pod spec (`MountsAreStamped`).

Files, chunks and layers are sequences in the models, everything else functions over fixed sets. tlapm 1.4.5 takes any function
for a sequence when its length and its domain come up in the same proof obligation. No proof needs that: all were also
checked with that axiom restricted to sequences.

What is only model-checked:

* all liveness, because fairness and ENABLED are out of the prover's reach: `GateReopens`, `RequestsServed`, `DeletionCompletes`,
  `PublicationSettles`, `OrphanReclaimed`, `Settles` (of the worker and of the runtime), `Concludes`, `GetsVolume`, `Converges`;
* of `ModelProfile`, that the capability rules are disjoint and the rounding of the working set: facts about tables, which TLC
  evaluates as assumptions of `MCPublishWorker`;
* that `Drained` is not the code: `sealed_blobs_admitted` is a counterexample, not a theorem.

## Not modelled, and why

* Monitoring and audit: read-only. API types, hooks, templates, certificates, wiring at start: declarations, and straight-line
  code that is run once.
* `nodecache/coordination.go`: reached by the command `materialize-artifact` alone, which nothing in the repository starts
  beside another writer of its directory.
* The projected registry Secrets of a worker and of a workload (`ociregistry/projection.go`): copies of one Secret that are
  written before what uses them and deleted with it.
* Conditions, messages, progress and events: texts. `MetadataCondition` is the exception, because it is what says that
  something was left out.
* Encoding of Secrets, parsing of requests, presigned URLs, tokens, HTTP beyond the outcome of a call: the models have what is
  stored and decided.
* Of the sweep: paging of lists, its report, and the sizes it counts. Of archives: compression, and the reader's buffers. Of the
  profiles: the parsers of GGUF and safetensors headers, which deliver the facts the model starts from.
* Several Models at one time: the limit of active workers (`sourceworker/service.go:187`) is a slot that may be taken
  (`WaitForSlot`), and other owners of the ledger are one sum.

## Plan

Every part that is modelled is checked, and every safety property that a run checks is proved. What is left is the premise
`OneAtATime \/ OneSize` of the two theorems about hand-over: `AcceptedIsKept` holds for overlapping requests on one
replica in the checked instance, so that a premise about replicas should be enough for it.
