----------------------------- MODULE ModelLifecycle_proofs -----------------------------
(* What is proved of ModelLifecycle, for any bound on faults and any sources: the state  *)
(* keeps its types, a live Ready object has its backend handle, and the Pod that holds a *)
(* result is not deleted before that result is recorded.                                 *)
(*                                                                                       *)
(* The last two are not inductive by themselves: a reconcile works for many steps on     *)
(* what it read at its first one.  PublicationInv says what the step it has reached      *)
(* still guarantees about the object, its handle and its Pod, and that the cleanup       *)
(* reconciler does not touch an object that is live.                                     *)
EXTENDS ModelLifecycle, TLAPS

(* --------------------------------- type correctness ---------------------------------- *)
LEMMA TypesInit == Init => TypeOK
  <1> SUFFICES ASSUME Init PROVE TypeOK
    OBVIOUS
  <1>1. {finalizer, completed, repository, staged} \subseteq BOOLEAN
    BY DEF Init
  <1>2. cs = IdleStatus /\ cc = IdleCleanup /\ sweep = IdleSweep
    BY DEF Init
  <1>3. /\ cs.step = "idle"
        /\ cs \in [step : {"idle"}, plan : {"none"}, mode : {"none"}, resuming : BOOLEAN]
        /\ cc \in [step : {"idle"}, plan : {"none"}, kind : {"none"}]
        /\ sweep \in [step : {"idle"}, live : BOOLEAN, asked : BOOLEAN]
    BY <1>2 DEF IdleStatus, IdleCleanup, IdleSweep
  <1>4. source \in Sources /\ faults \in 0 .. MaxFaults
    BY MaxFaultsAssumption DEF Init
  <1>5. /\ life = "live" /\ status = "none" /\ kind = "none" /\ pod = "none" /\ state = "none"
        /\ session = "none" /\ charge = "none" /\ request = "none"
    BY DEF Init
  <1> QED BY <1>1, <1>3, <1>4, <1>5
       DEF TypeOK, Phases, ActivePods, PodPhases, Ensuring, Persisting, Plans, CleanupSteps

StatusRecords == [step : {"idle"} \cup Ensuring \cup Persisting, plan : Plans,
                  mode : {"none", "worker", "session"}, resuming : BOOLEAN]

LEMMA GoToTypes ==
  ASSUME TypeOK, NEW step \in {"idle"} \cup Ensuring \cup Persisting, GoTo(step)
  PROVE  cs' \in StatusRecords
BY DEF TypeOK, GoTo, StatusRecords

LEMMA ApplyTypes ==
  ASSUME TypeOK, NEW plan \in Plans, Apply(plan)
  PROVE  cs' \in StatusRecords
  <1>1. (IF plan \in {"success", "staged"} THEN "handle"
         ELSE IF plan = "failed" THEN "delete" ELSE "status") \in Persisting
    BY DEF Persisting
  <1> QED BY <1>1 DEF TypeOK, Apply, StatusRecords

LEMMA FinishTypes == Finish => cs' \in StatusRecords
BY DEF Finish, IdleStatus, StatusRecords, Plans

LEMMA FaultTypes == TypeOK /\ Fault => faults' \in 0 .. MaxFaults
BY MaxFaultsAssumption DEF TypeOK, Fault

(* The steps that ensure the runtime. *)
LEMMA EnsuringTypes ==
  ASSUME TypeOK,
         \/ ReadObject \/ RetainedWorker \/ EnsureState \/ LookupPod \/ ReplacePod
         \/ WaitForSlot \/ CreatePod \/ IssueSession \/ EnsureFails
  PROVE  TypeOK'
  <1> USE DEF TypeOK, Phases, ActivePods, PodPhases, Ensuring, Persisting, Plans, CleanupSteps,
              objectVars, handleVars, runtimeVars, storeVars
  <1>1. CASE ReadObject
    BY <1>1 DEF ReadObject, WorkerMode
  <1>2. CASE RetainedWorker
    BY <1>2 DEF RetainedWorker, Apply
  <1>3. CASE EnsureState
    BY <1>3 DEF EnsureState
  <1>4. CASE LookupPod
    <2>1. cs' \in StatusRecords
      BY <1>4, GoToTypes, ApplyTypes DEF LookupPod, Recreated, Ensuring, Plans
    <2> QED BY <1>4, <2>1 DEF LookupPod, StatusRecords
  <1>5. CASE ReplacePod
    BY <1>5 DEF ReplacePod, GoTo, DeletePod
  <1>6. CASE WaitForSlot
    BY <1>6 DEF WaitForSlot, Apply
  <1>7. CASE CreatePod
    BY <1>7 DEF CreatePod, Apply
  <1>8. CASE IssueSession
    BY <1>8 DEF IssueSession, ObserveSession, Apply
  <1>9. CASE EnsureFails
    <2>1. cs' \in StatusRecords
      BY <1>9, ApplyTypes DEF EnsureFails, Plans
    <2>2. faults' \in 0 .. MaxFaults
      BY <1>9, FaultTypes DEF EnsureFails
    <2> QED BY <1>9, <2>1, <2>2 DEF EnsureFails, StatusRecords
  <1> QED BY <1>1, <1>2, <1>3, <1>4, <1>5, <1>6, <1>7, <1>8, <1>9

(* The steps that persist the outcome. *)
LEMMA PersistingTypes ==
  ASSUME TypeOK,
         \/ RecordHandle \/ WriteStatus \/ SyncLedger \/ SyncSession \/ DeleteRuntime
         \/ DeleteState \/ StatusRetries
  PROVE  TypeOK'
  <1> USE DEF TypeOK, Phases, ActivePods, PodPhases, Ensuring, Persisting, Plans, CleanupSteps,
              objectVars, handleVars, runtimeVars, storeVars
  <1>1. CASE RecordHandle
    BY <1>1 DEF RecordHandle, GoTo
  <1>2. CASE WriteStatus
    <2>1. cs' \in StatusRecords
      BY <1>2, GoToTypes, FinishTypes DEF WriteStatus, Persisting
    <2> QED BY <1>2, <2>1 DEF WriteStatus, Target, StatusRecords
  <1>3. CASE SyncLedger
    BY <1>3 DEF SyncLedger, GoTo
  <1>4. CASE SyncSession
    <2>1. cs' \in StatusRecords
      BY <1>4, GoToTypes, FinishTypes DEF SyncSession, Persisting
    <2> QED BY <1>4, <2>1 DEF SyncSession, Publishing, Ended, StatusRecords
  <1>5. CASE DeleteRuntime
    <2>1. cs' \in StatusRecords
      BY <1>5, GoToTypes DEF DeleteRuntime, Persisting
    <2> QED BY <1>5, <2>1 DEF DeleteRuntime, DeletePod, StatusRecords
  <1>6. CASE DeleteState
    <2>1. cs' \in StatusRecords
      BY <1>6, GoToTypes, FinishTypes DEF DeleteState, Persisting
    <2> QED BY <1>6, <2>1 DEF DeleteState, StatusRecords
  <1>7. CASE StatusRetries
    <2>1. cs' \in StatusRecords
      BY <1>7, FinishTypes DEF StatusRetries
    <2>2. faults' \in 0 .. MaxFaults
      BY <1>7, FaultTypes DEF StatusRetries
    <2> QED BY <1>7, <2>1, <2>2 DEF StatusRetries, StatusRecords
  <1> QED BY <1>1, <1>2, <1>3, <1>4, <1>5, <1>6, <1>7

(* The cleanup reconciler. *)
LEMMA CleanupTypes ==
  ASSUME TypeOK,
         \/ ReadForCleanup \/ AddFinalizer \/ EnsureRequest \/ CleanupPod \/ CleanupState
         \/ CleanupSession \/ CleanArtifact \/ MarkCompleted \/ WriteDeleting
         \/ CreditLedger \/ DeleteHandle \/ RemoveFinalizer \/ CleanupRetries
         \/ CleanupCrashes
  PROVE  TypeOK'
  <1> USE DEF TypeOK, Phases, ActivePods, PodPhases, Ensuring, Persisting, Plans, CleanupSteps,
              objectVars, handleVars, runtimeVars, storeVars
  <1>1. CASE ReadForCleanup
    BY <1>1 DEF ReadForCleanup, CleanupPlan
  <1>2. CASE AddFinalizer
    BY <1>2 DEF AddFinalizer, CleanupGoesTo, IdleCleanup
  <1>3. CASE EnsureRequest
    BY <1>3 DEF EnsureRequest, CleanupGoesTo, IdleCleanup
  <1>4. CASE CleanupPod
    BY <1>4 DEF CleanupPod, CleanupGoesTo, IdleCleanup, DeletePod
  <1>5. CASE CleanupState
    BY <1>5 DEF CleanupState, CleanupGoesTo, IdleCleanup
  <1>6. CASE CleanupSession
    BY <1>6 DEF CleanupSession, CleanupGoesTo, IdleCleanup
  <1>7. CASE CleanArtifact
    BY <1>7 DEF CleanArtifact, CleanupGoesTo, IdleCleanup
  <1>8. CASE MarkCompleted
    BY <1>8 DEF MarkCompleted, CleanupGoesTo, IdleCleanup
  <1>9. CASE WriteDeleting
    BY <1>9 DEF WriteDeleting, CleanupGoesTo, IdleCleanup
  <1>10. CASE CreditLedger
    BY <1>10 DEF CreditLedger, CleanupGoesTo, IdleCleanup
  <1>11. CASE DeleteHandle
    <2>1. completed' \in BOOLEAN
      BY <1>11 DEF DeleteHandle
    <2> QED BY <1>11, <2>1 DEF DeleteHandle, CleanupGoesTo, IdleCleanup
  <1>12. CASE RemoveFinalizer
    <2>1. finalizer' \in BOOLEAN
      BY <1>12 DEF RemoveFinalizer
    <2> QED BY <1>12, <2>1 DEF RemoveFinalizer, CleanupGoesTo, IdleCleanup
  <1>13. CASE CleanupRetries
    <2>1. faults' \in 0 .. MaxFaults
      BY <1>13, FaultTypes DEF CleanupRetries
    <2> QED BY <1>13, <2>1 DEF CleanupRetries, CleanupGoesTo, IdleCleanup
  <1>14. CASE CleanupCrashes
    <2>1. faults' \in 0 .. MaxFaults
      BY <1>14, FaultTypes DEF CleanupCrashes
    <2> QED BY <1>14, <2>1 DEF CleanupCrashes, CleanupGoesTo, IdleCleanup
  <1> QED BY <1>1, <1>2, <1>3, <1>4, <1>5, <1>6, <1>7, <1>8, <1>9, <1>10, <1>11, <1>12, <1>13, <1>14

(* Worker, client, user and Kubernetes. *)
LEMMA EnvironmentTypes ==
  ASSUME TypeOK,
         \/ UserDeletes \/ ClientUploads \/ ClientAborts \/ WorkerUploads \/ WorkerStores
         \/ WorkerReleasesStage \/ WorkerCompletes \/ WorkerSucceeds \/ WorkerFails
         \/ SourceMissing \/ WorkerExits \/ WorkerInterrupted \/ PodTerminated
         \/ OwnedCollected
  PROVE  TypeOK'
  <1> USE DEF TypeOK, Phases, ActivePods, PodPhases, Ensuring, Persisting, Plans, CleanupSteps,
              objectVars, handleVars, runtimeVars, storeVars, Environment
  <1>1. CASE UserDeletes
    BY <1>1 DEF UserDeletes
  <1>2. CASE ClientUploads
    BY <1>2 DEF ClientUploads
  <1>3. CASE ClientAborts
    BY <1>3 DEF ClientAborts
  <1>4. CASE WorkerUploads
    BY <1>4 DEF WorkerUploads
  <1>5. CASE WorkerStores
    BY <1>5 DEF WorkerStores
  <1>6. CASE WorkerReleasesStage
    <2>1. staged' \in BOOLEAN
      BY <1>6 DEF WorkerReleasesStage
    <2> QED BY <1>6, <2>1 DEF WorkerReleasesStage
  <1>7. CASE WorkerCompletes
    BY <1>7 DEF WorkerCompletes
  <1>8. CASE WorkerSucceeds
    BY <1>8 DEF WorkerSucceeds
  <1>9. CASE WorkerFails
    BY <1>9 DEF WorkerFails, GiveUp
  <1>10. CASE SourceMissing
    BY <1>10 DEF SourceMissing, GiveUp
  <1>11. CASE WorkerExits
    BY <1>11 DEF WorkerExits
  <1>12. CASE WorkerInterrupted
    <2>1. faults' \in 0 .. MaxFaults
      BY <1>12, FaultTypes DEF WorkerInterrupted
    <2> QED BY <1>12, <2>1 DEF WorkerInterrupted
  <1>13. CASE PodTerminated
    BY <1>13 DEF PodTerminated
  <1>14. CASE OwnedCollected
    BY <1>14 DEF OwnedCollected, DeletePod
  <1> QED BY <1>1, <1>2, <1>3, <1>4, <1>5, <1>6, <1>7, <1>8, <1>9, <1>10, <1>11, <1>12, <1>13, <1>14

(* The garbage collector. *)
LEMMA CollectorTypes ==
  ASSUME TypeOK,
         \/ SweepChecks \/ SweepGates \/ SweepLists \/ SweepDeletes \/ SweepAborts
         \/ RequestExpires
  PROVE  TypeOK'
  <1> USE DEF TypeOK, Phases, ActivePods, PodPhases, Ensuring, Persisting, Plans, CleanupSteps,
              objectVars, handleVars, runtimeVars, storeVars, CollectorLeaves
  <1>1. CASE SweepChecks
    BY <1>1 DEF SweepChecks
  <1>2. CASE SweepGates
    BY <1>2 DEF SweepGates
  <1>3. CASE SweepLists
    BY <1>3 DEF SweepLists
  <1>4. CASE SweepDeletes
    BY <1>4 DEF SweepDeletes, IdleSweep
  <1>5. CASE SweepAborts
    <2>1. faults' \in 0 .. MaxFaults
      BY <1>5, FaultTypes DEF SweepAborts
    <2> QED BY <1>5, <2>1 DEF SweepAborts, IdleSweep
  <1>6. CASE RequestExpires
    BY <1>6 DEF RequestExpires
  <1> QED BY <1>1, <1>2, <1>3, <1>4, <1>5, <1>6

(* The state keeps its types, for any bound on failures and either kind of source.       *)
THEOREM LifecycleTypes == Spec => []TypeOK
  <1>1. TypeOK /\ [Next]_vars => TypeOK'
    <2> SUFFICES ASSUME TypeOK, [Next]_vars PROVE TypeOK'
      OBVIOUS
    <2>1. CASE CatalogStatus \/ EnsureFails \/ StatusRetries
      BY <2>1, EnsuringTypes, PersistingTypes DEF CatalogStatus
    <2>2. CASE CatalogCleanup \/ CleanupRetries \/ CleanupCrashes
      BY <2>2, CleanupTypes DEF CatalogCleanup
    <2>3. CASE Collector \/ SweepAborts \/ RequestExpires
      BY <2>3, CollectorTypes DEF Collector
    <2>4. CASE \/ Worker \/ WorkerFails \/ WorkerInterrupted \/ PodTerminated \/ OwnedCollected
               \/ UserDeletes \/ ClientUploads \/ ClientAborts
      BY <2>4, EnvironmentTypes DEF Worker
    <2>5. CASE UNCHANGED vars
      BY <2>5 DEF vars, objectVars, handleVars, runtimeVars, storeVars, TypeOK
    <2> QED BY <2>1, <2>2, <2>3, <2>4, <2>5 DEF Next
  <1> QED BY <1>1, TypesInit, PTL DEF Spec

(* ------------------------- what a reconcile under way guarantees --------------------- *)
(* The cleanup reconciler does nothing to a live object but add the finalizer.           *)
CleanupWaits == cc.step = "idle" \/ (cc.step = "finalizer" /\ cc.plan = "none")

(* Until its next look at the object, a reconcile of a Ready object is the one that made *)
(* it so and has only its last calls to make.                                            *)
Closing == {"charge", "session", "delete", "deleteState"}
ReadyIsOver == status = "Ready" => cs.step = "idle" \/ (cs.plan = "success" /\ cs.step \in Closing)

(* Past the handle, a success has it.                                                    *)
SuccessRecorded == cs.plan = "success" /\ cs.step \in Closing \cup {"status"} => kind = "backend"

(* A Pod about to be replaced, or deleted as failed, has not succeeded.                  *)
Doomed == {"interrupted", "failed"}
DoomedPod ==
  cs.step = "replace" \/ (cs.step = "delete" /\ cs.plan = "failed" /\ cs.mode = "worker")
    => pod \in Doomed

(* Only workers succeed, and only an outcome leads to a deletion.                        *)
ModesAgree ==
  /\ cs.plan = "success" \/ cs.step \in Ensuring \ {"issue"} => cs.mode = "worker"
  /\ cs.step = "issue" => cs.mode = "session"
  /\ cs.step = "delete" => cs.plan \in {"success", "failed"}

PublicationInv ==
  life = "live" =>
    /\ CleanupWaits /\ ReadyHasHandle /\ ReadyIsOver
    /\ SuccessRecorded /\ DoomedPod /\ ModesAgree

LEMMA GoToFields ==
  ASSUME NEW step, GoTo(step)
  PROVE  cs'.step = step /\ cs'.plan = cs.plan /\ cs'.mode = cs.mode
BY DEF GoTo

LEMMA ApplyFields ==
  ASSUME NEW plan, Apply(plan)
  PROVE  /\ cs'.plan = plan /\ cs'.mode = cs.mode
         /\ plan \in {"success", "staged"} => cs'.step = "handle"
         /\ plan = "failed" => cs'.step = "delete"
         /\ plan \notin {"success", "staged", "failed"} => cs'.step = "status"
BY DEF Apply

LEMMA FinishFields == Finish => cs'.step = "idle" /\ cs'.plan = "none"
BY DEF Finish, IdleStatus

(* Whoever leaves the two reconcilers, the status and the handle alone, and a Pod that   *)
(* has not succeeded, keeps the invariant.                                               *)
LEMMA QuietStep ==
  ASSUME PublicationInv,
         life' = "live" => life = "live" /\ UNCHANGED <<status, kind, cs, cc>>,
         life' = "live" /\ pod \in Doomed => pod' = pod
  PROVE  PublicationInv'
BY DEF PublicationInv, CleanupWaits, ReadyHasHandle, ReadyIsOver, Closing, SuccessRecorded,
       DoomedPod, Doomed, ModesAgree, Ensuring

(* A step of the status reconciler that leaves the status and the handle alone.          *)
LEMMA StatusMoves ==
  ASSUME PublicationInv, UNCHANGED <<life, status, kind, cc>>,
         life = "live" =>
           /\ ReadyIsOver' /\ SuccessRecorded' /\ DoomedPod' /\ ModesAgree'
  PROVE  PublicationInv'
BY DEF PublicationInv, CleanupWaits, ReadyHasHandle

LEMMA EnsuringKeepsInv ==
  ASSUME PublicationInv,
         \/ ReadObject \/ RetainedWorker \/ EnsureState \/ LookupPod \/ ReplacePod
         \/ WaitForSlot \/ CreatePod \/ IssueSession \/ EnsureFails
  PROVE  PublicationInv'
  <1> USE DEF objectVars, handleVars, runtimeVars, storeVars
  <1>1. UNCHANGED <<life, status, kind, cc>>
    BY DEF ReadObject, RetainedWorker, EnsureState, LookupPod, ReplacePod, WaitForSlot,
           CreatePod, IssueSession, ObserveSession, EnsureFails
  <1> SUFFICES ASSUME life = "live"
               PROVE  ReadyIsOver' /\ SuccessRecorded' /\ DoomedPod' /\ ModesAgree'
    BY <1>1, StatusMoves
  <1>2. status # "Ready"
    <2>1. CASE ReadObject
      BY <2>1 DEF ReadObject, PublicationInv, ReadyHasHandle
    <2>2. CASE ~ ReadObject
      <3>1. cs.step \in Ensuring
        BY <2>2 DEF RetainedWorker, EnsureState, LookupPod, ReplacePod, WaitForSlot,
                    CreatePod, IssueSession, ObserveSession, EnsureFails, Ensuring
      <3> QED BY <3>1 DEF PublicationInv, ReadyIsOver, Closing, Ensuring
    <2> QED BY <2>1, <2>2
  <1>3. ReadyIsOver'
    BY <1>1, <1>2 DEF ReadyIsOver
  <1>4. ASSUME NEW plan, Apply(plan), plan = "success" => cs.mode = "worker",
               plan = "failed" /\ cs.mode = "worker" => pod' \in Doomed
        PROVE  SuccessRecorded' /\ DoomedPod' /\ ModesAgree'
    BY <1>4, ApplyFields
       DEF SuccessRecorded, Closing, DoomedPod, ModesAgree, Ensuring
  <1>5. ASSUME NEW step \in Ensuring \ {"issue"}, GoTo(step), cs.mode = "worker",
               step = "replace" => pod' \in Doomed
        PROVE  SuccessRecorded' /\ DoomedPod' /\ ModesAgree'
    BY <1>5, GoToFields
       DEF SuccessRecorded, Closing, DoomedPod, ModesAgree, Ensuring
  <1>6. cs.step \in Ensuring \ {"issue"} => cs.mode = "worker"
    BY DEF PublicationInv, ModesAgree
  <1>7. CASE ReadObject
    <2>1. /\ cs'.plan = "none" /\ cs'.step \in {"issue", "retained", "state"}
          /\ cs'.mode = IF cs'.step = "issue" THEN "session" ELSE "worker"
      BY <1>7 DEF ReadObject
    <2> QED BY <1>3, <2>1 DEF SuccessRecorded, DoomedPod, ModesAgree, Ensuring
  <1>8. CASE RetainedWorker
    BY <1>3, <1>4, <1>6, <1>8 DEF RetainedWorker, Ensuring
  <1>9. CASE EnsureState
    <2>1. cs'.plan = "none" /\ cs'.step = "lookup" /\ cs'.mode = cs.mode /\ cs.mode = "worker"
      BY <1>6, <1>9 DEF EnsureState, Ensuring
    <2> QED BY <1>3, <2>1 DEF SuccessRecorded, DoomedPod, ModesAgree, Ensuring
  <1>10. CASE LookupPod
    <2>1. cs.mode = "worker" /\ pod' = pod
      BY <1>6, <1>10 DEF LookupPod, Ensuring
    <2>2. CASE \E step \in {"slots", "replace"} : GoTo(step) /\ (step = "replace" => Recreated)
      <3>1. PICK step \in {"slots", "replace"} : GoTo(step) /\ (step = "replace" => Recreated)
        BY <2>2
      <3> QED BY <1>3, <1>5, <2>1, <3>1 DEF Ensuring, Recreated, Doomed
    <2>3. CASE \E plan \in {"success", "failed", "running"} :
                 Apply(plan) /\ (plan = "failed" => pod = "failed")
      <3>1. PICK plan \in {"success", "failed", "running"} :
                 Apply(plan) /\ (plan = "failed" => pod = "failed")
        BY <2>3
      <3> QED BY <1>3, <1>4, <2>1, <3>1 DEF Doomed
    <2> QED BY <1>10, <2>2, <2>3 DEF LookupPod
  <1>11. CASE ReplacePod
    BY <1>3, <1>5, <1>6, <1>11 DEF ReplacePod, Ensuring
  <1>12. CASE WaitForSlot \/ CreatePod \/ EnsureFails
    <2>1. PICK plan \in {"running", "error"} : Apply(plan)
      BY <1>12 DEF WaitForSlot, CreatePod, EnsureFails
    <2> QED BY <1>3, <1>4, <2>1
  <1>13. CASE IssueSession
    <2>1. PICK plan \in {"failed", "staged", "running"} : Apply(plan)
      BY <1>13 DEF IssueSession, ObserveSession
    <2>2. cs.mode = "session"
      BY <1>13 DEF IssueSession, ObserveSession, PublicationInv, ModesAgree
    <2> QED BY <1>3, <1>4, <2>1, <2>2
  <1> QED BY <1>7, <1>8, <1>9, <1>10, <1>11, <1>12, <1>13

LEMMA FinishKeepsInv ==
  ASSUME PublicationInv, UNCHANGED <<life, status, kind, cc>>, Finish
  PROVE  PublicationInv'
BY StatusMoves, FinishFields
   DEF ReadyIsOver, SuccessRecorded, Closing, DoomedPod, ModesAgree, Ensuring

(* The next of the calls that persist an outcome, without a change of status or handle.  *)
LEMMA MoveKeepsInv ==
  ASSUME PublicationInv, UNCHANGED <<life, status, kind, cc>>,
         cs.step \in Closing,
         NEW step \in Closing \cup {"status"}, GoTo(step),
         step = "delete" => cs.plan = "success",
         step = "status" => cs.plan # "success"
  PROVE  PublicationInv'
  <1> SUFFICES ASSUME life = "live"
               PROVE  ReadyIsOver' /\ SuccessRecorded' /\ DoomedPod' /\ ModesAgree'
    BY StatusMoves
  <1>1. cs'.step = step /\ cs'.plan = cs.plan /\ cs'.mode = cs.mode
    BY GoToFields
  <1>2. ReadyIsOver'
    BY <1>1 DEF PublicationInv, ReadyIsOver, Closing
  <1>3. SuccessRecorded'
    BY <1>1 DEF PublicationInv, SuccessRecorded, Closing
  <1>4. DoomedPod' /\ ModesAgree'
    BY <1>1 DEF PublicationInv, DoomedPod, ModesAgree, Closing, Ensuring
  <1> QED BY <1>2, <1>3, <1>4

LEMMA PersistingKeepsInv ==
  ASSUME PublicationInv,
         \/ RecordHandle \/ WriteStatus \/ SyncLedger \/ SyncSession
         \/ DeleteRuntime \/ DeleteState \/ StatusRetries
  PROVE  PublicationInv'
  <1> USE DEF objectVars, handleVars, runtimeVars, storeVars
  <1>1. life' = life /\ cc' = cc
    BY DEF RecordHandle, WriteStatus, SyncLedger, SyncSession, DeleteRuntime, DeleteState,
           StatusRetries
  <1>2. CASE RecordHandle
    <2>1. PICK step \in {"session", "status"} : GoTo(step)
      BY <1>2 DEF RecordHandle
    <2>2. cs'.step = step /\ cs'.plan = cs.plan /\ cs'.mode = cs.mode
      BY <2>1, GoToFields
    <2>3. status' = status /\ (cs.plan = "success" => kind' = "backend")
      BY <1>2 DEF RecordHandle
    <2>4. life = "live" => status # "Ready"
      BY <1>2 DEF RecordHandle, PublicationInv, ReadyIsOver, Closing
    <2> QED BY <1>1, <2>2, <2>3, <2>4
         DEF PublicationInv, CleanupWaits, ReadyHasHandle, ReadyIsOver, SuccessRecorded,
             Closing, DoomedPod, ModesAgree, Ensuring
  <1>3. CASE WriteStatus /\ life = "live"
    <2>1. PICK step \in {"charge", "session"} : GoTo(step)
      BY <1>3 DEF WriteStatus
    <2>2. cs'.step = step /\ cs'.plan = cs.plan /\ cs'.mode = cs.mode
      BY <2>1, GoToFields
    <2>3. kind' = kind /\ (status' = "Ready" => cs.plan = "success")
      BY <1>3 DEF WriteStatus, Target
    <2>4. cs.plan = "success" => kind = "backend"
      BY <1>3 DEF WriteStatus, PublicationInv, SuccessRecorded
    <2> QED BY <1>1, <1>3, <2>2, <2>3, <2>4
         DEF PublicationInv, CleanupWaits, ReadyHasHandle, ReadyIsOver, SuccessRecorded,
             Closing, DoomedPod, ModesAgree, Ensuring
  <1>4. CASE WriteStatus /\ life # "live"
    BY <1>1, <1>4 DEF PublicationInv
  <1>5. CASE SyncLedger
    BY <1>5, MoveKeepsInv DEF SyncLedger, Closing
  <1>6. CASE SyncSession
    BY <1>6, MoveKeepsInv, FinishKeepsInv DEF SyncSession, Closing
  <1>7. CASE DeleteRuntime
    <2>1. UNCHANGED <<life, status, kind, cc>> /\ cs.step \in Closing
      BY <1>7 DEF DeleteRuntime, Closing
    <2>2. CASE cs.mode = "worker"
      BY <1>7, <2>1, <2>2, MoveKeepsInv DEF DeleteRuntime, Closing
    <2>3. CASE cs.mode # "worker" /\ life = "live"
      <3>1. cs.plan # "success"
        BY <2>3 DEF PublicationInv, ModesAgree
      <3> QED BY <1>7, <2>1, <2>3, <3>1, MoveKeepsInv DEF DeleteRuntime
    <2> QED BY <1>1, <2>2, <2>3 DEF PublicationInv
  <1>8. CASE DeleteState
    <2>1. UNCHANGED <<life, status, kind, cc>> /\ cs.step \in Closing
      BY <1>8 DEF DeleteState, Closing
    <2>2. CASE cs.plan = "failed"
      BY <1>8, <2>1, <2>2, MoveKeepsInv DEF DeleteState
    <2> QED BY <1>8, <2>1, <2>2, FinishKeepsInv DEF DeleteState
  <1>9. CASE StatusRetries
    BY <1>9, FinishKeepsInv DEF StatusRetries
  <1> QED BY <1>2, <1>3, <1>4, <1>5, <1>6, <1>7, <1>8, <1>9

(* A live object is only read and given its finalizer.                                   *)
LEMMA CleanupKeepsInv ==
  ASSUME PublicationInv, CatalogCleanup \/ CleanupRetries \/ CleanupCrashes
  PROVE  /\ PublicationInv'
         /\ life' = "live" => life = "live" /\ UNCHANGED <<status, kind, pod>>
  <1> USE DEF objectVars, handleVars, runtimeVars, storeVars
  <1>1. life' = "live" => life = "live"
    BY DEF CatalogCleanup, ReadForCleanup, AddFinalizer, EnsureRequest, CleanupPod,
           CleanupState, CleanupSession, CleanArtifact, MarkCompleted, WriteDeleting,
           CreditLedger, DeleteHandle, RemoveFinalizer, CleanupRetries, CleanupCrashes
  <1> SUFFICES ASSUME life = "live", life' = "live"
               PROVE  PublicationInv' /\ UNCHANGED <<status, kind, pod>>
    BY <1>1 DEF PublicationInv
  <1>2. CleanupWaits
    BY DEF PublicationInv
  <1>3. UNCHANGED <<status, kind, pod, cs>>
    BY <1>2
       DEF CleanupWaits, CatalogCleanup, ReadForCleanup, AddFinalizer, EnsureRequest,
           CleanupPod, CleanupState, CleanupSession, CleanArtifact, MarkCompleted,
           WriteDeleting, CreditLedger, DeleteHandle, RemoveFinalizer, CleanupRetries,
           CleanupCrashes
  <1>4. CleanupWaits'
    BY <1>2
       DEF CleanupWaits, CatalogCleanup, ReadForCleanup, AddFinalizer, EnsureRequest,
           CleanupPod, CleanupState, CleanupSession, CleanArtifact, MarkCompleted,
           WriteDeleting, CreditLedger, DeleteHandle, RemoveFinalizer, CleanupRetries,
           CleanupCrashes, CleanupPlan, CleanupGoesTo, IdleCleanup, Reported
  <1> QED BY <1>3, <1>4
       DEF PublicationInv, ReadyHasHandle, ReadyIsOver, SuccessRecorded, DoomedPod, ModesAgree

Others ==
  \/ Worker \/ WorkerFails \/ WorkerInterrupted \/ PodTerminated \/ OwnedCollected
  \/ UserDeletes \/ ClientUploads \/ ClientAborts
  \/ Collector \/ SweepAborts \/ RequestExpires

(* Nobody else changes a Pod that has ended, while its object is live.                   *)
LEMMA OthersAreQuiet ==
  ASSUME Others
  PROVE  /\ life' = "live" => life = "live" /\ UNCHANGED <<status, kind, cs, cc>>
         /\ life' = "live" /\ pod \in Doomed \cup {"succeeded"} => pod' = pod
  <1> USE DEF Environment, CollectorLeaves, objectVars, handleVars, runtimeVars, storeVars
  <1>1. CASE Worker \/ WorkerFails \/ WorkerInterrupted \/ PodTerminated
    BY <1>1 DEF Worker, WorkerUploads, WorkerStores, WorkerReleasesStage, WorkerCompletes,
                WorkerSucceeds, SourceMissing, WorkerExits, WorkerFails, GiveUp,
                WorkerInterrupted, PodTerminated, Doomed
  <1>2. CASE OwnedCollected \/ UserDeletes \/ ClientUploads \/ ClientAborts
    BY <1>2 DEF OwnedCollected, UserDeletes, ClientUploads, ClientAborts
  <1>3. CASE Collector \/ SweepAborts \/ RequestExpires
    BY <1>3 DEF Collector, SweepChecks, SweepGates, SweepLists, SweepDeletes, SweepAborts,
                RequestExpires
  <1> QED BY <1>1, <1>2, <1>3 DEF Others

LEMMA PublicationInit == Init => PublicationInv
BY DEF Init, IdleStatus, IdleCleanup, PublicationInv, CleanupWaits, ReadyHasHandle, ReadyIsOver,
       SuccessRecorded, Closing, DoomedPod, ModesAgree, Ensuring

LEMMA PublicationStep == PublicationInv /\ [Next]_vars => PublicationInv'
  <1> SUFFICES ASSUME PublicationInv, [Next]_vars PROVE PublicationInv'
    OBVIOUS
  <1>1. CASE CatalogStatus \/ EnsureFails \/ StatusRetries
    BY <1>1, EnsuringKeepsInv, PersistingKeepsInv DEF CatalogStatus
  <1>2. CASE CatalogCleanup \/ CleanupRetries \/ CleanupCrashes
    BY <1>2, CleanupKeepsInv
  <1>3. CASE Others
    BY <1>3, OthersAreQuiet, QuietStep DEF Doomed
  <1>4. CASE UNCHANGED vars
    BY <1>4, QuietStep DEF vars, objectVars, handleVars, runtimeVars
  <1> QED BY <1>1, <1>2, <1>3, <1>4 DEF Next, Others

(* A live object that is Ready has its backend handle: publishObservation                *)
(* (catalogstatus) records it before the status says Ready, and nothing that comes later *)
(* in the life of the object replaces or removes it.                                     *)
THEOREM ReadyKeepsHandle == Spec => []ReadyHasHandle
  <1>1. PublicationInv => ReadyHasHandle
    BY DEF PublicationInv, ReadyHasHandle
  <1> QED BY <1>1, PublicationInit, PublicationStep, PTL DEF Spec

(* The Pod that holds the result of a publication is not deleted, while its object is    *)
(* live, before the result is recorded as a backend handle.                              *)
THEOREM SuccessKept == Spec => SuccessNotLost
  <1>1. ASSUME PublicationInv, Next, life' = "live", pod = "succeeded", pod' # "succeeded"
        PROVE  kind = "backend"
    <2> USE <1>1 DEF objectVars, handleVars, runtimeVars, storeVars
    <2>1. ~ Others
      BY OthersAreQuiet
    <2>2. ~ (CatalogCleanup \/ CleanupRetries \/ CleanupCrashes)
      BY CleanupKeepsInv
    <2>3. CASE CatalogStatus \/ EnsureFails \/ StatusRetries
      <3>1. life = "live" /\ (ReplacePod \/ (DeleteRuntime /\ cs.mode = "worker"))
        BY <2>3 DEF CatalogStatus, ReadObject, RetainedWorker, EnsureState, LookupPod,
                    WaitForSlot, CreatePod, IssueSession, ObserveSession, EnsureFails, RecordHandle,
                    WriteStatus, SyncLedger, SyncSession, DeleteState, StatusRetries,
                    ReplacePod, DeleteRuntime
      <3>2. DoomedPod /\ SuccessRecorded /\ ModesAgree
        BY <3>1 DEF PublicationInv
      <3>3. CASE ReplacePod
        BY <3>2, <3>3 DEF ReplacePod, DoomedPod, Doomed
      <3>4. CASE DeleteRuntime /\ cs.mode = "worker"
        BY <3>2, <3>4 DEF DeleteRuntime, DoomedPod, Doomed, SuccessRecorded, Closing, ModesAgree
      <3> QED BY <3>1, <3>3, <3>4
    <2> QED BY <2>1, <2>2, <2>3 DEF Next, Others
  <1>2. PublicationInv /\ [Next]_vars =>
          [life' = "live" /\ pod = "succeeded" /\ pod' # "succeeded" => kind = "backend"]_vars
    BY <1>1
  <1> QED BY <1>2, PublicationInit, PublicationStep, PTL DEF Spec, SuccessNotLost
=========================================================================================
