------------------------------- MODULE ModelLifecycle -------------------------------
(* One Model or ClusterModel from creation to the end of its deletion: the       *)
(* catalogstatus reconciler publishes it, the catalogcleanup reconciler takes it *)
(* down, the publication worker and the upload client act beside them, and the   *)
(* garbage collector sweeps the registry.  A step is one call to the Kubernetes  *)
(* API, to object storage or to the registry: other actors act between any two.  *)
EXTENDS Naturals

CONSTANTS Sources,    \* the kinds of source considered: "remote", "upload"
          OwnerRefs,  \* runtime objects carry an ownerReference (ClusterModel)
          MaxFaults   \* bound on failed calls, crashes and interruptions

ASSUME SourcesAssumption == Sources \subseteq {"remote", "upload"}
ASSUME OwnerRefsAssumption == OwnerRefs \in BOOLEAN
ASSUME MaxFaultsAssumption == MaxFaults \in Nat

VARIABLES
  source,      \* spec.source, immutable
  life,        \* "live", "deleting" (deletionTimestamp is set), "gone"
  finalizer,   \* metadata.finalizers holds the cleanup finalizer
  status,      \* status.phase
  kind,        \* cleanup handle in the module's Secret
  completed,   \* the Secret's completed-at annotation
  pod,         \* source worker Pod
  state,       \* direct-upload checkpoint Secret and its phase
  session,     \* upload session Secret and its phase
  repository,  \* the artifact's repository is stored in the registry
  staged,      \* the uploaded object is in the staging bucket
  charge,      \* what the storage ledger holds for the owner
  request,     \* garbage collection request of the owner
  sweep,       \* the garbage collector's cycle and what it listed
  cs,          \* the catalogstatus reconcile in progress
  cc,          \* the catalogcleanup reconcile in progress
  faults       \* failures so far

objectVars  == <<source, life, finalizer, status>>
handleVars  == <<kind, completed>>
runtimeVars == <<pod, state, session>>
storeVars   == <<repository, staged, charge>>
vars == <<objectVars, handleVars, runtimeVars, storeVars, request, sweep, cs, cc, faults>>

(* ------------------------------ vocabulary --------------------------------- *)
Phases     == {"none", "WaitForUpload", "Publishing", "Ready", "Failed", "Deleting"}
ActivePods == {"running", "stored", "failing", "terminating"}
PodPhases  == ActivePods \cup {"none", "succeeded", "failed", "interrupted"}
Ensuring   == {"retained", "state", "lookup", "replace", "slots", "issue"}
Persisting == {"handle", "status", "charge", "session", "delete", "deleteState"}
Plans      == {"none", "running", "success", "failed", "error", "staged"}
CleanupSteps == {"idle", "finalizer", "request", "pod", "state", "session", "clean",
                 "mark", "status", "credit", "unhandle", "unfinalize"}

IdleStatus  == [step |-> "idle", plan |-> "none", mode |-> "none", resuming |-> FALSE]
IdleCleanup == [step |-> "idle", plan |-> "none", kind |-> "none"]
IdleSweep   == [step |-> "idle", live |-> FALSE, asked |-> FALSE]

TypeOK ==
  /\ source \in Sources
  /\ life \in {"live", "deleting", "gone"}
  /\ finalizer \in BOOLEAN
  /\ status \in Phases
  /\ kind \in {"none", "staging", "backend"}
  /\ completed \in BOOLEAN
  /\ pod \in PodPhases
  /\ state \in {"none", "idle", "running", "completed", "failed"}
  /\ session \in {"none", "open", "uploaded", "publishing", "ended"}
  /\ repository \in BOOLEAN
  /\ staged \in BOOLEAN
  /\ charge \in {"none", "reserved", "published"}
  /\ request \in {"none", "queued", "done"}
  /\ sweep \in [step : {"idle", "checked", "gated", "listed"}, live : BOOLEAN, asked : BOOLEAN]
  /\ cs \in [step : {"idle"} \cup Ensuring \cup Persisting, plan : Plans,
             mode : {"none", "worker", "session"}, resuming : BOOLEAN]
  /\ cc \in [step : CleanupSteps, plan : {"none", "drain", "clean", "release"},
             kind : {"none", "staging", "backend"}]
  /\ faults \in 0 .. MaxFaults

Init ==
  /\ source \in Sources
  /\ life = "live" /\ finalizer = FALSE /\ status = "none"
  /\ kind = "none" /\ completed = FALSE
  /\ pod = "none" /\ state = "none" /\ session = "none"
  /\ repository = FALSE /\ staged = FALSE /\ charge = "none"
  /\ request = "none" /\ sweep = IdleSweep
  /\ cs = IdleStatus /\ cc = IdleCleanup
  /\ faults = 0

Fault == faults < MaxFaults /\ faults' = faults + 1

GateClosed == sweep.step \in {"gated", "listed"}

(* A Pod that still runs ends gracefully; one that has ended goes at once.       *)
DeletePod == pod' = IF pod \in ActivePods THEN "terminating" ELSE "none"

(* ------------------ catalogstatus: ensuring the runtime --------------------- *)
GoTo(step) ==
  cs' = [step |-> step, plan |-> cs.plan, mode |-> cs.mode, resuming |-> FALSE]

(* Mutants of Apply: the status is written before the handle is recorded; the    *)
(* runtime of a success is deleted before anything is persisted.                 *)
ApplyStatusFirst(plan) ==
  cs' = [step |-> IF plan = "staged" THEN "handle"
                  ELSE IF plan = "failed" THEN "delete" ELSE "status",
         plan |-> plan, mode |-> cs.mode, resuming |-> FALSE]
ApplyDeleteFirst(plan) ==
  cs' = [step |-> IF plan = "staged" THEN "handle"
                  ELSE IF plan \in {"success", "failed"} THEN "delete" ELSE "status",
         plan |-> plan, mode |-> cs.mode, resuming |-> FALSE]

(* The calls a plan still has to make start here: a failed runtime is deleted    *)
(* before anything is persisted, a handle is recorded before the status.         *)
Apply(plan) ==
  cs' = [step |-> IF plan \in {"success", "staged"} THEN "handle"
                  ELSE IF plan = "failed" THEN "delete" ELSE "status",
         plan |-> plan, mode |-> cs.mode, resuming |-> FALSE]

WorkerMode == \/ source = "remote"
              \/ kind = "staging"
              \/ kind = "backend" /\ status = "Publishing"

ReadObject ==
  /\ cs.step = "idle"
  /\ life = "live"
  /\ status # "Failed"
  /\ ~ (status = "Ready" /\ kind # "none")
  /\ cs' = [step |-> IF ~ WorkerMode THEN "issue"
                     ELSE IF source = "upload" /\ kind # "staging" THEN "retained"
                     ELSE "state",
            plan |-> "none",
            mode |-> IF WorkerMode THEN "worker" ELSE "session",
            resuming |-> FALSE]
  /\ UNCHANGED <<objectVars, handleVars, runtimeVars, storeVars, request, sweep, cc, faults>>

(* An upload whose stage is no longer recorded can only be resumed from a Pod    *)
(* that has succeeded; anything else is a planning error.                        *)
RetainedWorker ==
  /\ cs.step = "retained"
  /\ Apply(IF pod = "succeeded" THEN "success" ELSE "error")
  /\ UNCHANGED <<objectVars, handleVars, runtimeVars, storeVars, request, sweep, cc, faults>>

EnsureState ==
  /\ cs.step = "state"
  /\ state' = IF state = "none" THEN "idle" ELSE state
  /\ cs' = [step |-> "lookup", plan |-> "none", mode |-> cs.mode, resuming |-> state = "running"]
  /\ UNCHANGED <<objectVars, handleVars, pod, session, storeVars, request, sweep, cc, faults>>

(* Mutant of Recreated: the loss of a worker before its first layer is not seen. *)
RecreatedWhenResuming == pod \in {"interrupted", "failed"} /\ cs.resuming

Recreated == pod = "interrupted" \/ (pod = "failed" /\ cs.resuming)

LookupPod ==
  /\ cs.step = "lookup"
  /\ \/ pod = "none" /\ GoTo("slots")
     \/ Recreated /\ GoTo("replace")
     \/ pod = "succeeded" /\ Apply("success")
     \/ pod = "failed" /\ ~ Recreated /\ Apply("failed")
     \/ pod \in ActivePods /\ Apply("running")
  /\ UNCHANGED <<objectVars, handleVars, runtimeVars, storeVars, request, sweep, cc, faults>>

ReplacePod ==
  /\ cs.step = "replace"
  /\ DeletePod
  /\ GoTo("slots")
  /\ UNCHANGED <<objectVars, handleVars, state, session, storeVars, request, sweep, cc, faults>>

(* Workers of other objects fill the limit: the Model is shown as queued.        *)
WaitForSlot ==
  /\ cs.step = "slots"
  /\ Apply("running")
  /\ UNCHANGED <<objectVars, handleVars, runtimeVars, storeVars, request, sweep, cc, faults>>

CreatePod ==
  /\ cs.step = "slots"
  /\ pod = "none"
  /\ pod' = "running"
  /\ Apply("running")
  /\ UNCHANGED <<objectVars, handleVars, state, session, storeVars, request, sweep, cc, faults>>

(* CreateOrGet of the session Secret, then the session's phase; an open session  *)
(* found expired is closed first, a publishing one reads as an expired upload.   *)
ObserveSession(expired) ==
  /\ cs.step = "issue"
  /\ LET found == IF session = "none" THEN "open" ELSE session IN
     session' = IF expired /\ found = "open" THEN "ended" ELSE found
  /\ Apply(IF session' = "ended" \/ (session' = "publishing" /\ expired) THEN "failed"
           ELSE IF session' = "uploaded" THEN "staged" ELSE "running")
  /\ UNCHANGED <<objectVars, handleVars, pod, state, storeVars, request, sweep, cc, faults>>

IssueSession == \E expired \in BOOLEAN : ObserveSession(expired)

(* Any error while the runtime is ensured becomes a terminal Failed status, and  *)
(* the runtime is left as it is.                                                 *)
EnsureFails ==
  /\ cs.step \in Ensuring
  /\ Fault
  /\ Apply("error")
  /\ UNCHANGED <<objectVars, handleVars, runtimeVars, storeVars, request, sweep, cc>>

(* ------------------ catalogstatus: persisting the outcome ------------------- *)
(* Mutant of Target: a phase that is not known is passed through.                *)
TargetUnmapped == IF cs.plan = "success" THEN "Ready"
                  ELSE IF cs.plan \in {"failed", "error"} THEN "Failed"
                  ELSE IF cs.plan = "running" /\ cs.mode = "session" THEN "WaitForUpload"
                  ELSE cs.plan

Target == IF cs.plan = "success" THEN "Ready"
          ELSE IF cs.plan \in {"failed", "error"} THEN "Failed"
          ELSE IF cs.plan = "running" /\ cs.mode = "session" THEN "WaitForUpload"
          ELSE "Publishing"

Finish == cs' = IdleStatus

(* A handle that equals the recorded one is not written (catalogstatus/io.go:38): *)
(* it keeps its mark, which any other one starts without.                        *)
RecordHandle ==
  /\ cs.step = "handle"
  /\ LET wanted == IF cs.plan = "success" THEN "backend" ELSE "staging" IN
     /\ kind' = wanted
     /\ completed' = (completed /\ kind = wanted)
     /\ GoTo(IF cs.plan = "staged" /\ kind # wanted THEN "session" ELSE "status")
  /\ UNCHANGED <<objectVars, runtimeVars, storeVars, request, sweep, cc, faults>>

(* The write is repeated on a conflict, with the latest object: it fails only    *)
(* when the object is gone.  A status equal to the one read is not written, so   *)
(* that a Deleting status written since may stay.                                *)
WriteStatus ==
  /\ cs.step = "status"
  /\ IF life = "gone"
     THEN Finish /\ UNCHANGED status
     ELSE /\ \/ status' = Target
             \/ cs.plan = "running" /\ status = "Deleting" /\ UNCHANGED status
          /\ GoTo(IF cs.plan \in {"success", "failed", "error"} THEN "charge" ELSE "session")
  /\ UNCHANGED <<source, life, finalizer, handleVars, runtimeVars, storeVars, request, sweep, cc, faults>>

SyncLedger ==
  /\ cs.step = "charge"
  /\ charge' = IF cs.plan = "success" THEN "published"
               ELSE IF charge = "reserved" THEN "none" ELSE charge
  /\ GoTo("session")
  /\ UNCHANGED <<objectVars, handleVars, runtimeVars, repository, staged, request, sweep, cc, faults>>

(* The session of an upload follows: publishing, completed or failed.  What has  *)
(* ended stays so, and a session that is gone is not recreated.                  *)
Publishing(s) == IF s \in {"none", "ended"} THEN s ELSE "publishing"
Ended(s)      == IF s = "none" THEN s ELSE "ended"
SyncSession ==
  /\ cs.step = "session"
  /\ session' = IF source # "upload" THEN session
                ELSE IF cs.mode = "session"
                     THEN IF cs.plan = "staged" THEN Publishing(session) ELSE session
                ELSE IF cs.plan = "running" THEN Publishing(session) ELSE Ended(session)
  /\ IF cs.plan = "success" THEN GoTo("delete") ELSE Finish
  /\ UNCHANGED <<objectVars, handleVars, pod, state, storeVars, request, sweep, cc, faults>>

DeleteRuntime ==
  /\ cs.step = "delete"
  /\ IF cs.mode = "worker"
     THEN DeletePod /\ GoTo("deleteState") /\ UNCHANGED session
     ELSE session' = "none" /\ GoTo("status") /\ UNCHANGED pod
  /\ UNCHANGED <<objectVars, handleVars, state, storeVars, request, sweep, cc, faults>>

DeleteState ==
  /\ cs.step = "deleteState"
  /\ state' = "none"
  /\ IF cs.plan = "failed" THEN GoTo("status") ELSE Finish
  /\ UNCHANGED <<objectVars, handleVars, pod, session, storeVars, request, sweep, cc, faults>>

(* A failed call while the outcome is persisted, or a crash at any step: the     *)
(* object is reconciled again from the start.                                    *)
StatusRetries ==
  /\ cs.step # "idle"
  /\ Fault
  /\ Finish
  /\ UNCHANGED <<objectVars, handleVars, runtimeVars, storeVars, request, sweep, cc>>

(* ------------------------------ catalogcleanup ------------------------------ *)
CleanupGoesTo(step) ==
  cc' = IF step = "idle" THEN IdleCleanup
        ELSE [step |-> step, plan |-> cc.plan, kind |-> "none"]

(* A pass that begins remembers its plan, and the handle if it is to clean.      *)
CleanupPlan(plan, step) ==
  cc' = [step |-> step, plan |-> plan, kind |-> IF step = "clean" THEN kind ELSE "none"]

RuntimePresent == pod # "none" \/ state # "none" \/ session # "none"

(* One look at the object, its handle and its runtime decides the whole pass.    *)
(* Between two layers a running checkpoint holds no session token, so that the   *)
(* request that hands the token over may be left out.                            *)
ReadForCleanup ==
  /\ cc.step = "idle"
  /\ \/ life = "live" /\ ~ finalizer /\ CleanupPlan("none", "finalizer")
     \/ /\ life = "deleting" /\ kind = "none" /\ RuntimePresent
        /\ \/ CleanupPlan("drain", "pod")
           \/ state = "running" /\ CleanupPlan("drain", "request")
     \/ /\ life = "deleting" /\ kind = "none" /\ ~ RuntimePresent
        /\ CleanupPlan("release", "pod")
     \/ life = "deleting" /\ kind # "none" /\ ~ completed /\ CleanupPlan("clean", "clean")
     \/ /\ life = "deleting" /\ kind # "none" /\ completed
        /\ CleanupPlan("release", IF kind = "backend" /\ request = "none" THEN "request" ELSE "pod")
  /\ UNCHANGED <<objectVars, handleVars, runtimeVars, storeVars, request, sweep, cs, faults>>

AddFinalizer ==
  /\ cc.step = "finalizer"
  /\ finalizer' = (finalizer \/ life = "live")
  /\ CleanupGoesTo("idle")
  /\ UNCHANGED <<source, life, status, handleVars, runtimeVars, storeVars, request, sweep, cs, faults>>

EnsureRequest ==
  /\ cc.step = "request"
  /\ request' = "queued"
  /\ sweep' = [step |-> sweep.step, live |-> sweep.live, asked |-> FALSE]
  /\ CleanupGoesTo("pod")
  /\ UNCHANGED <<objectVars, handleVars, runtimeVars, storeVars, cs, faults>>

CleanupPod ==
  /\ cc.step = "pod"
  /\ DeletePod
  /\ CleanupGoesTo("state")
  /\ UNCHANGED <<objectVars, handleVars, state, session, storeVars, request, sweep, cs, faults>>

CleanupState ==
  /\ cc.step = "state"
  /\ state' = "none"
  /\ CleanupGoesTo("session")
  /\ UNCHANGED <<objectVars, handleVars, pod, session, storeVars, request, sweep, cs, faults>>

CleanupSession ==
  /\ cc.step = "session"
  /\ session' = "none"
  /\ CleanupGoesTo(IF cc.plan = "release" THEN "credit" ELSE "status")
  /\ UNCHANGED <<objectVars, handleVars, pod, state, storeVars, request, sweep, cs, faults>>

(* The handle read at the start names what is removed; the registry refuses the  *)
(* delete of a manifest while the maintenance gate is closed.                    *)
CleanArtifact ==
  /\ cc.step = "clean"
  /\ cc.kind = "backend" => ~ GateClosed
  /\ repository' = (repository /\ cc.kind # "backend")
  /\ staged' = (staged /\ cc.kind # "staging")
  /\ CleanupGoesTo("mark")
  /\ UNCHANGED <<objectVars, handleVars, runtimeVars, charge, request, sweep, cs, faults>>

(* Mutant of MarkCompleted: the annotation is not written.                       *)
MarkNothing ==
  /\ cc.step = "mark"
  /\ kind # "none"
  /\ CleanupGoesTo("status")
  /\ UNCHANGED <<objectVars, handleVars, runtimeVars, storeVars, request, sweep, cs, faults>>

(* The Secret is read again: the annotation lands on the handle it holds now.    *)
MarkCompleted ==
  /\ cc.step = "mark"
  /\ kind # "none"
  /\ completed' = TRUE
  /\ CleanupGoesTo("status")
  /\ UNCHANGED <<objectVars, kind, runtimeVars, storeVars, request, sweep, cs, faults>>

WriteDeleting ==
  /\ cc.step = "status"
  /\ status' = "Deleting"
  /\ CleanupGoesTo("idle")
  /\ UNCHANGED <<source, life, finalizer, handleVars, runtimeVars, storeVars, request, sweep, cs, faults>>

CreditLedger ==
  /\ cc.step = "credit"
  /\ charge' = "none"
  /\ CleanupGoesTo("unhandle")
  /\ UNCHANGED <<objectVars, handleVars, runtimeVars, repository, staged, request, sweep, cs, faults>>

DeleteHandle ==
  /\ cc.step = "unhandle"
  /\ kind' = "none" /\ completed' = FALSE
  /\ CleanupGoesTo("unfinalize")
  /\ UNCHANGED <<objectVars, runtimeVars, storeVars, request, sweep, cs, faults>>

RemoveFinalizer ==
  /\ cc.step = "unfinalize"
  /\ finalizer' = FALSE /\ life' = "gone" /\ status' = "none"
  /\ CleanupGoesTo("idle")
  /\ UNCHANGED <<source, handleVars, runtimeVars, storeVars, request, sweep, cs, faults>>

(* A failed call ends the pass; the reason is written to the status, unless the  *)
(* call itself writes the object or belongs to the release of the finalizer.     *)
Reported == cc.step \in {"request", "clean", "mark"} \/ (cc.plan = "drain" /\ cc.step # "status")

CleanupRetries ==
  /\ cc.step # "idle"
  /\ Fault
  /\ CleanupGoesTo(IF Reported THEN "status" ELSE "idle")
  /\ UNCHANGED <<objectVars, handleVars, runtimeVars, storeVars, request, sweep, cs>>

CleanupCrashes ==
  /\ cc.step # "idle"
  /\ Fault
  /\ CleanupGoesTo("idle")
  /\ UNCHANGED <<objectVars, handleVars, runtimeVars, storeVars, request, sweep, cs>>

(* ------------------------- worker, client, Kubernetes ----------------------- *)
Environment == <<source, finalizer, status, handleVars, request, sweep, cs, cc>>

(* Without a finalizer the deletion is immediate.  The status goes with the      *)
(* object.                                                                       *)
UserDeletes ==
  /\ life = "live"
  /\ \/ finalizer /\ life' = "deleting" /\ UNCHANGED status
     \/ ~ finalizer /\ life' = "gone" /\ status' = "none"
  /\ UNCHANGED <<source, finalizer, handleVars, runtimeVars, storeVars, request, sweep, cs, cc, faults>>

(* The gateway reserves storage at the probe and records the staged object.      *)
ClientUploads ==
  /\ session = "open"
  /\ session' = "uploaded" /\ staged' = TRUE
  /\ charge' = IF charge = "none" THEN "reserved" ELSE charge
  /\ UNCHANGED <<Environment, life, pod, state, repository, faults>>

ClientAborts ==
  /\ session = "open"
  /\ session' = "ended"
  /\ UNCHANGED <<Environment, life, pod, state, storeVars, faults>>

SourcePresent == source = "remote" \/ staged

(* The worker of a remote source reserves storage before it uploads a layer; a   *)
(* layer in progress is noted in the checkpoint, if that is still there.         *)
WorkerUploads ==
  /\ pod \in {"running", "terminating"}
  /\ state # "running"
  /\ SourcePresent
  /\ ~ GateClosed
  /\ state' = IF state = "none" THEN "none" ELSE "running"
  /\ charge' = IF source = "remote" /\ charge = "none" THEN "reserved" ELSE charge
  /\ UNCHANGED <<Environment, life, pod, session, repository, staged, faults>>

(* The manifest is pushed after the layers, by a Pod that may be terminating.    *)
WorkerStores ==
  /\ pod \in {"running", "terminating"}
  /\ state # "idle"
  /\ SourcePresent
  /\ ~ GateClosed
  /\ repository' = TRUE
  /\ pod' = IF pod = "running" THEN "stored" ELSE pod
  /\ UNCHANGED <<Environment, life, state, session, staged, charge, faults>>

(* The worker of an upload removes the staged object, and only then is the end   *)
(* noted in the checkpoint and the result left in the termination message.       *)
WorkerReleasesStage ==
  /\ pod = "stored"
  /\ staged
  /\ staged' = FALSE
  /\ UNCHANGED <<Environment, life, runtimeVars, repository, charge, faults>>

WorkerCompletes ==
  /\ pod = "stored"
  /\ ~ staged
  /\ state \notin {"none", "completed"}
  /\ state' = "completed"
  /\ UNCHANGED <<Environment, life, pod, session, storeVars, faults>>

WorkerSucceeds ==
  /\ pod = "stored"
  /\ ~ staged
  /\ state \in {"none", "completed"}
  /\ pod' = "succeeded"
  /\ UNCHANGED <<Environment, life, state, session, storeVars, faults>>

(* A failure for good is noted in the checkpoint before the Pod ends.            *)
GiveUp ==
  /\ pod' = "failing"
  /\ state' = IF state = "none" THEN "none" ELSE "failed"
  /\ UNCHANGED <<Environment, life, session, storeVars, faults>>

WorkerFails == (pod = "stored" \/ (pod = "running" /\ SourcePresent)) /\ GiveUp

(* A worker of an upload that finds no staged object can do nothing but fail.    *)
SourceMissing == pod = "running" /\ ~ SourcePresent /\ GiveUp

WorkerExits ==
  /\ pod = "failing"
  /\ pod' = "failed"
  /\ UNCHANGED <<Environment, life, state, session, storeVars, faults>>

(* A cancelled worker says so, a killed one says nothing, that of a lost node is *)
(* gone with its Pod: the checkpoint stays as it is.                             *)
WorkerInterrupted ==
  /\ pod \in {"running", "stored", "failing"}
  /\ Fault
  /\ pod' \in {"interrupted", "failed", "none"}
  /\ UNCHANGED <<Environment, life, state, session, storeVars>>

(* The end of a worker that was not cancelled in time is noted as any other.     *)
PodTerminated ==
  /\ pod = "terminating"
  /\ pod' = "none"
  /\ state' \in IF state = "none" THEN {state} ELSE {state, "completed", "failed"}
  /\ UNCHANGED <<Environment, life, session, storeVars, faults>>

(* Kubernetes collects what a deleted ClusterModel owns.                         *)
OwnedCollected ==
  /\ OwnerRefs /\ life = "gone"
  /\ \/ pod # "none" /\ DeletePod /\ pod' # pod /\ UNCHANGED <<state, session>>
     \/ state # "none" /\ state' = "none" /\ UNCHANGED <<pod, session>>
     \/ session # "none" /\ session' = "none" /\ UNCHANGED <<pod, state>>
  /\ UNCHANGED <<Environment, life, storeVars, faults>>

(* ------------------------------ garbage collection -------------------------- *)
CollectorLeaves == <<objectVars, handleVars, runtimeVars, staged, charge, cs, cc>>

(* A cycle begins for anyone's request: only active publication Pods defer it.   *)
SweepChecks ==
  /\ sweep.step = "idle"
  /\ pod \notin ActivePods
  /\ sweep' = [step |-> "checked", live |-> sweep.live, asked |-> sweep.asked]
  /\ UNCHANGED <<CollectorLeaves, repository, request, faults>>

SweepGates ==
  /\ sweep.step = "checked"
  /\ sweep' = [step |-> "gated", live |-> FALSE, asked |-> request = "queued"]
  /\ UNCHANGED <<CollectorLeaves, repository, request, faults>>

(* The handles that are live are listed before the repositories that are stored. *)
SweepLists ==
  /\ sweep.step = "gated"
  /\ sweep' = [step |-> "listed", live |-> kind = "backend", asked |-> sweep.asked]
  /\ UNCHANGED <<CollectorLeaves, repository, request, faults>>

(* Mutant of SweepDeletes: only what a request was made for is removed.          *)
SweepDeletesRequested ==
  /\ sweep.step = "listed"
  /\ repository' = (repository /\ (sweep.live \/ ~ sweep.asked))
  /\ request' = IF sweep.asked THEN "done" ELSE request
  /\ sweep' = IdleSweep
  /\ UNCHANGED <<CollectorLeaves, faults>>

SweepDeletes ==
  /\ sweep.step = "listed"
  /\ repository' = (repository /\ sweep.live)
  /\ request' = IF sweep.asked THEN "done" ELSE request
  /\ sweep' = IdleSweep
  /\ UNCHANGED <<CollectorLeaves, faults>>

SweepAborts ==
  /\ sweep.step # "idle"
  /\ Fault
  /\ sweep' = IdleSweep
  /\ UNCHANGED <<CollectorLeaves, repository, request>>

RequestExpires ==
  /\ request = "done"
  /\ request' = "none"
  /\ UNCHANGED <<CollectorLeaves, repository, sweep, faults>>

(* ------------------------------ specification ------------------------------- *)
CatalogStatus ==
  \/ ReadObject \/ RetainedWorker \/ EnsureState \/ LookupPod \/ ReplacePod
  \/ WaitForSlot \/ CreatePod \/ IssueSession
  \/ RecordHandle \/ WriteStatus \/ SyncLedger \/ SyncSession \/ DeleteRuntime \/ DeleteState

CatalogCleanup ==
  \/ ReadForCleanup \/ AddFinalizer \/ EnsureRequest \/ CleanupPod \/ CleanupState
  \/ CleanupSession \/ CleanArtifact \/ MarkCompleted \/ WriteDeleting
  \/ CreditLedger \/ DeleteHandle \/ RemoveFinalizer

Collector == SweepChecks \/ SweepGates \/ SweepLists \/ SweepDeletes

Worker ==
  \/ WorkerUploads \/ WorkerStores \/ WorkerReleasesStage \/ WorkerCompletes \/ WorkerSucceeds
  \/ SourceMissing \/ WorkerExits

Next ==
  \/ CatalogStatus \/ EnsureFails \/ StatusRetries
  \/ CatalogCleanup \/ CleanupRetries \/ CleanupCrashes
  \/ Collector \/ SweepAborts \/ RequestExpires
  \/ Worker \/ WorkerFails \/ WorkerInterrupted \/ PodTerminated \/ OwnedCollected
  \/ UserDeletes \/ ClientUploads \/ ClientAborts

Spec == Init /\ [][Next]_vars

(* The cleanup is requeued until it is done and the collector's schedule comes   *)
(* round, far slower than a cleanup is retried; a Pod ends, though nothing says  *)
(* how.                                                                          *)
DeletionFairness ==
  /\ WF_vars(CatalogCleanup) /\ SF_vars(CleanArtifact)
  /\ WF_vars(Collector)
  /\ WF_vars(Worker \/ WorkerFails \/ PodTerminated)

(* The status is polled; a slot for a worker becomes free again and again, and a *)
(* session is found expired in the end.                                          *)
PublicationFairness ==
  WF_vars(CatalogStatus) /\ SF_vars(CreatePod) /\ SF_vars(ObserveSession(TRUE))

FairSpec == Spec /\ DeletionFairness

(* -------------------------------- properties -------------------------------- *)
(* A live object that is Ready has the backend handle that its deletion and the  *)
(* collector need: the handle is recorded before the status, and no late upload  *)
(* observation replaces it.                                                      *)
ReadyHasHandle == life = "live" /\ status = "Ready" => kind = "backend"

(* The Pod that holds the result of a publication is deleted, while its object   *)
(* is live, only after the result has been turned into a backend handle.         *)
SuccessNotLost ==
  [][life' = "live" /\ pod = "succeeded" /\ pod' # "succeeded" => kind = "backend"]_vars

(* Every deletion ends, whatever the status reconciler, the worker and the       *)
(* collector were doing when it began.                                           *)
DeletionCompletes == life = "deleting" ~> life = "gone"

Settled == status \in {"Ready", "Failed"} \/ life # "live"

(* The checkpoint is read before the Pod: a failure for good that falls between  *)
(* the two is taken for one to resume.  That does not happen for ever.           *)
ReadsSettle == <>[][~ (WorkerFails \/ SourceMissing) \/ cs.step # "lookup"]_vars

(* Every publication ends, Ready or Failed, once nothing more is asked of the    *)
(* client, whatever was interrupted, resumed, queued, blocked or swept.          *)
HandedOver         == source = "remote" \/ kind = "staging"
PublicationSettles == ReadsSettle => (life = "live" /\ HandedOver ~> Settled)

(* What a finished deletion leaves in the registry without a handle is swept.    *)
OrphanReclaimed ==
  life = "gone" /\ kind = "none" /\ repository ~> ~ repository \/ kind # "none"
======================================================================================
