------------------------ MODULE UploadSession_proofs ------------------------
(* Proofs about UploadSession, for every number of requests, replicas, sizes *)
(* and bounds: every variable keeps its type, the ledger stays within its    *)
(* capacity, and a reservation ends with its upload, whatever requests,      *)
(* reconciles and faults do in whatever order.  What is handed over is whole *)
(* and what was accepted is not failed while requests come one at a time or  *)
(* bring a payload of one size.                                              *)
EXTENDS UploadSession, TLAPS

-----------------------------------------------------------------------------
(* The ledger: what it holds stays typed and, once it fits, still fits.       *)
LedgerKept == LedgerTypeOK /\ WithinLimit

LEMMA ReserveKeeps ==
  ASSUME LedgerKept, NEW n \in PayloadSizes, Reserve(n)
  PROVE  LedgerKept'
  BY SizesAssumption DEF LedgerKept, LedgerTypeOK, WithinLimit, Fits, Reserve, Reserved, PayloadSizes

LEMMA ReleaseKeeps ==
  ASSUME LedgerKept, Release
  PROVE  LedgerKept'
  BY LedgerAssumption DEF LedgerKept, LedgerTypeOK, WithinLimit, Fits, InUse, Release, Reserved

LEMMA CommitKeeps ==
  ASSUME LedgerKept, NEW n \in PayloadSizes, Commit(n)
  PROVE  LedgerKept'
  BY SizesAssumption DEF LedgerKept, LedgerTypeOK, WithinLimit, Fits, Commit, Committed, PayloadSizes

LEMMA CreditKeeps ==
  ASSUME LedgerKept, Credit
  PROVE  LedgerKept'
  BY LedgerAssumption DEF LedgerKept, LedgerTypeOK, WithinLimit, Fits, InUse, Credit, Committed

LEMMA OthersKeep ==
  ASSUME LedgerKept, OthersMove
  PROVE  LedgerKept'
<1>1. PICK n \in 0 .. MaxOthers :
        LET l == [upload |-> ledger.upload, published |-> ledger.published, others |-> n] IN
        (n < ledger.others \/ Fits(l)) /\ ledger' = l
  BY DEF OthersMove
<1>2. n \in Nat
  BY LedgerAssumption
<1>3. QED
  BY <1>1, <1>2, LedgerAssumption DEF LedgerKept, LedgerTypeOK, WithinLimit, Fits, InUse

LEMMA LedgerUnchanged ==
  ASSUME LedgerKept, UNCHANGED ledger
  PROVE  LedgerKept'
  BY DEF LedgerKept, LedgerTypeOK, WithinLimit, Fits, InUse

-----------------------------------------------------------------------------
(* What is found in the Secret and what is recorded of it have one shape: a  *)
(* handle that is to be handed over is the size of a payload.                *)
FoundIsHandle == ctl.step = "handle" => ctl.found \in PayloadSizes
IInv == TypeOK /\ FoundIsHandle /\ WithinLimit

LEMMA SecretIsTyped ==
  ASSUME NEW phase \in Phases, NEW size \in PayloadSizes, NEW probed \in BOOLEAN,
         NEW upload \in 0 .. MaxUploads, NEW handle \in PayloadSizes
  PROVE  Secret(phase, size, probed, upload, handle) \in SecretType
  BY DEF Secret, SecretType

LEMMA ZeroIsTyped == 0 \in PayloadSizes /\ 0 \in 0 .. MaxUploads
  BY UploadBoundsAssumption DEF PayloadSizes

(* What the state machine of the Secret makes of a typed Secret.             *)
LEMMA NextSecretIsTyped ==
  ASSUME session \in SecretType, NEW n \in PayloadSizes, NEW u \in 0 .. MaxUploads
  PROVE  /\ Probed(n) \in SecretType /\ Uploading(u) \in SecretType /\ Uploaded(n) \in SecretType
         /\ \A phase \in Phases, m \in PayloadSizes : Ended(phase, m) \in SecretType
         /\ Publishing \in SecretType /\ Completed \in SecretType /\ PublishFailed \in SecretType
         /\ NoSecret \in SecretType /\ Issued \in SecretType
<1>1. /\ session.size \in PayloadSizes /\ session.probed \in BOOLEAN
      /\ session.upload \in 0 .. MaxUploads /\ session.handle \in PayloadSizes
  BY DEF SecretType
<1>2. {"probing", "uploading", "uploaded", "publishing", "completed", "failed", "issued"} \subseteq Phases
  BY DEF Phases, OpenPhases, EndedPhases
<1>3. Probed(n) \in SecretType /\ Uploading(u) \in SecretType /\ Uploaded(n) \in SecretType
  BY <1>1, <1>2, ZeroIsTyped, SecretIsTyped DEF Probed, Uploading, Uploaded
<1>4. \A phase \in Phases, m \in PayloadSizes : Ended(phase, m) \in SecretType
  BY <1>1, SecretIsTyped DEF Ended
<1>5. Publishing \in SecretType
  BY <1>1, <1>2, SecretIsTyped DEF Publishing
<1>6. Completed \in SecretType
  BY <1>2, <1>4, ZeroIsTyped DEF Completed
<1>7. PublishFailed \in SecretType
  BY <1>1, <1>2, <1>4 DEF PublishFailed
<1>8. NoSecret \in SecretType /\ Issued \in SecretType
  BY ZeroIsTyped DEF NoSecret, Issued, Secret, SecretType, Phases, OpenPhases
<1>9. QED BY <1>3, <1>4, <1>5, <1>6, <1>7, <1>8

LEMMA GoIsTyped ==
  ASSUME TypeOK, NEW r \in Requests, NEW step \in RequestSteps, Go(r, step)
  PROVE  requests' \in [Requests -> RequestType]
<1>1. IdleRequest \in RequestType
  BY ZeroIsTyped DEF IdleRequest, RequestType, RequestSteps
<1>2. [op |-> requests[r].op, step |-> step, at |-> requests[r].at, upload |-> requests[r].upload,
       size |-> requests[r].size] \in RequestType
  BY DEF TypeOK, RequestType
<1>3. QED BY <1>1, <1>2 DEF TypeOK, Go

LEMMA WriteIsTyped ==
  ASSUME IInv, NEW secret \in SecretType, WriteSecret(secret)
  PROVE  session' \in SecretType /\ ctl' \in CtlType /\ FoundIsHandle'
  BY DEF IInv, TypeOK, FoundIsHandle, WriteSecret, CtlType

LEMMA KeptIsTyped ==
  ASSUME IInv, KeepSecret
  PROVE  session' \in SecretType /\ ctl' \in CtlType /\ FoundIsHandle'
  BY DEF IInv, TypeOK, FoundIsHandle, KeepSecret

LEMMA FaultIsTyped ==
  ASSUME TypeOK, Fault \/ UNCHANGED faults
  PROVE  faults' \in 0 .. MaxFaults
  BY UploadBoundsAssumption DEF TypeOK, Fault

LEMMA SaveIsTyped ==
  ASSUME IInv, NEW r \in Requests, NEW secret \in SecretType, NEW ok \in RequestSteps, NEW failed \in RequestSteps,
         Save(r, secret, ok, failed)
  PROVE  /\ session' \in SecretType /\ ctl' \in CtlType /\ FoundIsHandle'
         /\ requests' \in [Requests -> RequestType] /\ faults' \in 0 .. MaxFaults
<1>1. WriteSecret(secret) \/ KeepSecret
  BY DEF Save, Call
<1>2. Go(r, ok) \/ Go(r, failed)
  BY DEF Save, Call
<1>3. Fault \/ UNCHANGED faults
  BY DEF Save, Call
<1>4. requests' \in [Requests -> RequestType]
  BY <1>2, GoIsTyped DEF IInv
<1>5. faults' \in 0 .. MaxFaults
  BY <1>3, FaultIsTyped DEF IInv
<1>6. session' \in SecretType /\ ctl' \in CtlType /\ FoundIsHandle'
  BY <1>1, WriteIsTyped, KeptIsTyped
<1>7. QED BY <1>4, <1>5, <1>6

-----------------------------------------------------------------------------
(* What a step of a request leaves alone, apart from the requests and faults. *)
Others == <<session, link, expired, owner, cleanup, ctl>>

LEMMA OthersAreTyped ==
  ASSUME IInv, UNCHANGED Others
  PROVE  /\ session' \in SecretType /\ link' \in {"none", "stale", "current"} /\ expired' \in BOOLEAN
         /\ owner' \in OwnerType /\ ctl' \in CtlType /\ FoundIsHandle'
         /\ cleanup' \in {"none", "clean", "session", "credit", "done"}
  BY DEF IInv, TypeOK, FoundIsHandle, Others

LEMMA ArriveIsTyped ==
  ASSUME IInv, NEW r \in Requests, Arrive(r)
  PROVE  IInv'
<1>1. ASSUME NEW op \in Ops, NEW step \in RequestSteps, NEW at \in Replicas \cup {"none"}, NEW n \in PayloadSizes,
             Admit(r, op, step, at, n)
      PROVE  requests' \in [Requests -> RequestType]
  <2>1. [op |-> op, step |-> step, at |-> at, upload |-> session.upload, size |-> n] \in RequestType
    BY DEF IInv, TypeOK, SecretType, RequestType
  <2>2. QED BY <1>1, <2>1 DEF IInv, TypeOK, Admit
<1>2. requests' \in [Requests -> RequestType]
  <2>1. CASE \E op \in Ops, n \in PayloadSizes :
               \/ op = "info" /\ Admit(r, op, "list", "none", 0)
               \/ op # "info" /\ \E at \in Replicas : Admit(r, op, "lock", at, n)
    BY <1>1, <2>1, ZeroIsTyped DEF RequestSteps
  <2>2. CASE Admit(r, "info", "expire", "none", 0) \/ Admit(r, "info", "drop", "none", 0)
    BY <1>1, <2>2, ZeroIsTyped DEF RequestSteps, Ops
  <2>3. QED BY <2>1, <2>2 DEF Arrive
<1>3. UNCHANGED <<ledger, storeVars, faults>> /\ UNCHANGED Others
  BY DEF Arrive, Others, controlVars
<1>4. LedgerKept'
  BY <1>3, LedgerUnchanged DEF IInv, TypeOK, LedgerKept
<1>5. QED BY <1>2, <1>3, <1>4, OthersAreTyped DEF IInv, TypeOK, LedgerKept, storeVars

(* The steps of a request that write the Secret.                             *)
LEMMA SavingIsTyped ==
  ASSUME IInv, NEW r \in Requests,
         Expire(r) \/ SaveProbe(r) \/ MarkUploaded(r) \/ MarkFailed(r) \/ SaveMultipart(r) \/ SyncParts(r) \/ MarkAborted(r)
  PROVE  IInv'
<1>1. requests[r].size \in PayloadSizes /\ requests[r].upload \in 0 .. MaxUploads /\ session \in SecretType
  BY DEF IInv, TypeOK, RequestType
<1>2. {"expired", "failed", "aborted"} \subseteq Phases
  BY DEF Phases, EndedPhases
<1> DEFINE Typed == /\ session' \in SecretType /\ ctl' \in CtlType /\ FoundIsHandle'
                    /\ requests' \in [Requests -> RequestType] /\ faults' \in 0 .. MaxFaults
<1>3. {"drop", "idle", "uploaded", "store", "undo", "release", "unstart", "assemble"} \subseteq RequestSteps
  BY DEF RequestSteps
<1>4. Unwind(r) \in RequestSteps
  BY DEF Unwind, RequestSteps
<1>5. Ended("expired", 0) \in SecretType /\ Ended("failed", 0) \in SecretType /\ Ended("aborted", 0) \in SecretType
  BY <1>1, <1>2, ZeroIsTyped, NextSecretIsTyped
<1>6. /\ Probed(requests[r].size) \in SecretType /\ Uploaded(requests[r].size) \in SecretType
      /\ Uploading(requests[r].upload) \in SecretType
  BY <1>1, NextSecretIsTyped
<1>7. UNCHANGED <<ledger, link, expired, storeVars, controlVars>>
  BY DEF Expire, SaveProbe, MarkUploaded, MarkFailed, SaveMultipart, SyncParts, MarkAborted
<1>8. Typed
  <2>1. CASE Expire(r)
    BY <1>3, <1>5, <2>1, SaveIsTyped DEF Expire
  <2>2. CASE SaveProbe(r)
    BY <1>3, <1>6, <2>2, SaveIsTyped DEF SaveProbe
  <2>3. CASE MarkUploaded(r)
    BY <1>3, <1>4, <1>6, <2>3, SaveIsTyped DEF MarkUploaded
  <2>4. CASE MarkFailed(r)
    BY <1>3, <1>5, <2>4, SaveIsTyped DEF MarkFailed
  <2>5. CASE SaveMultipart(r)
    BY <1>3, <1>6, <2>5, SaveIsTyped DEF SaveMultipart
  <2>6. CASE SyncParts(r)
    <3>1. CASE KeepSecret /\ Go(r, "idle") /\ UNCHANGED faults
      BY <1>3, <3>1, KeptIsTyped, GoIsTyped, FaultIsTyped DEF IInv
    <3>2. CASE Save(r, session, IF requests[r].op = "complete" THEN "assemble" ELSE "idle", "idle")
      BY <1>1, <1>3, <3>2, SaveIsTyped
    <3>3. QED BY <2>6, <3>1, <3>2 DEF SyncParts
  <2>7. CASE MarkAborted(r)
    BY <1>3, <1>5, <2>7, SaveIsTyped DEF MarkAborted
  <2>8. QED BY <2>1, <2>2, <2>3, <2>4, <2>5, <2>6, <2>7
<1>9. LedgerKept'
  BY <1>7, LedgerUnchanged DEF IInv, TypeOK, LedgerKept
<1>10. QED BY <1>7, <1>8, <1>9 DEF IInv, TypeOK, LedgerKept, storeVars, controlVars

(* The steps of a request that call the store or the ledger.                  *)
LEMMA CallingIsTyped ==
  ASSUME IInv, NEW r \in Requests,
         \/ Lock(r) \/ ReserveUpload(r) \/ StoreObject(r) \/ Stat(r) \/ Discard(r) \/ ReleaseUpload(r)
         \/ StartMultipart(r) \/ AbortStarted(r) \/ CompleteMultipart(r) \/ AbortMultipart(r) \/ Disconnect(r)
  PROVE  IInv'
<1>1. /\ requests[r].size \in PayloadSizes /\ requests[r].upload \in 0 .. MaxUploads /\ object \in PayloadSizes
      /\ requests[r].op \in Ops \cup {"none"} /\ requests[r].at \in Replicas \cup {"none"}
      /\ requests \in [Requests -> RequestType] /\ uploads \in [1 .. MaxUploads -> {"none", "open", "done", "gone"}]
  BY DEF IInv, TypeOK, RequestType
<1>2. LedgerKept
  BY DEF IInv, TypeOK, LedgerKept
<1>3. UNCHANGED Others
  BY DEF Lock, ReserveUpload, StoreObject, Stat, Discard, ReleaseUpload, StartMultipart, AbortStarted,
         CompleteMultipart, AbortMultipart, Disconnect, Others, controlVars
<1>4. \A step \in RequestSteps : Go(r, step) => requests' \in [Requests -> RequestType]
  BY GoIsTyped DEF IInv
<1>5. \A step \in RequestSteps, u \in 0 .. MaxUploads, n \in PayloadSizes :
        requests' = [requests EXCEPT ![r] = [op |-> @.op, step |-> step, at |-> @.at, upload |-> u, size |-> n]]
          => requests' \in [Requests -> RequestType]
  <2> SUFFICES ASSUME NEW step \in RequestSteps, NEW u \in 0 .. MaxUploads, NEW n \in PayloadSizes,
                      requests' = [requests EXCEPT ![r] =
                        [op |-> @.op, step |-> step, at |-> @.at, upload |-> u, size |-> n]]
               PROVE  requests' \in [Requests -> RequestType]
    OBVIOUS
  <2>1. [op |-> requests[r].op, step |-> step, at |-> requests[r].at, upload |-> u, size |-> n] \in RequestType
    BY <1>1 DEF RequestType
  <2>2. QED BY <1>1, <2>1
<1>6. {"idle", "probe", "stat", "undo", "uploaded", "discard", "fail", "save", "aborted",
       "reserve", "start", "list", "unassemble"} \subseteq RequestSteps
  BY DEF RequestSteps
<1>7. Unwind(r) \in RequestSteps /\ FirstStep(r) \in RequestSteps
  BY DEF Unwind, FirstStep, RequestSteps
<1>8. Fault \/ UNCHANGED faults
  BY DEF Lock, ReserveUpload, StoreObject, Stat, Discard, ReleaseUpload, StartMultipart, AbortStarted,
         CompleteMultipart, AbortMultipart, Disconnect, Call
<1>9. faults' \in 0 .. MaxFaults
  BY <1>8, FaultIsTyped DEF IInv
<1>10. LedgerKept'
  <2>1. CASE ReserveUpload(r)
    BY <1>1, <1>2, <2>1, ReserveKeeps, LedgerUnchanged DEF ReserveUpload, Call
  <2>2. CASE ReleaseUpload(r)
    BY <1>2, <2>2, ReleaseKeeps, LedgerUnchanged DEF ReleaseUpload, Call
  <2>3. CASE ~ (ReserveUpload(r) \/ ReleaseUpload(r))
    BY <1>2, <2>3, LedgerUnchanged DEF Lock, StoreObject, Stat, Discard, StartMultipart, AbortStarted,
                                       CompleteMultipart, AbortMultipart, Disconnect
  <2>4. QED BY <2>1, <2>2, <2>3
<1> DEFINE Typed == /\ requests' \in [Requests -> RequestType] /\ object' \in PayloadSizes
                    /\ uploads' \in [1 .. MaxUploads -> {"none", "open", "done", "gone"}]
<1>11. Typed
  <2>1. CASE Lock(r)
    BY <1>1, <1>4, <1>7, <2>1 DEF Lock, storeVars
  <2>2. CASE ReserveUpload(r) \/ ReleaseUpload(r)
    BY <1>1, <1>4, <1>6, <2>2 DEF ReserveUpload, ReleaseUpload, Call, storeVars
  <2>3. CASE StoreObject(r)
    BY <1>1, <1>4, <1>6, <2>3 DEF StoreObject, Call
  <2>4. CASE Stat(r)
    BY <1>1, <1>4, <1>5, <1>6, <1>7, <2>4 DEF Stat, storeVars
  <2>5. CASE Discard(r)
    BY <1>1, <1>4, <1>5, <1>6, <2>5, ZeroIsTyped DEF Discard
  <2>6. CASE StartMultipart(r)
    BY <1>1, <1>4, <1>5, <1>6, <2>6, ZeroIsTyped DEF StartMultipart
  <2>7. CASE AbortStarted(r)
    BY <1>1, <1>4, <1>6, <2>7 DEF AbortStarted, Call
  <2>8. CASE CompleteMultipart(r)
    BY <1>1, <1>4, <1>6, <2>8 DEF CompleteMultipart, Call, storeVars, PayloadSizes
  <2>9. CASE AbortMultipart(r)
    BY <1>1, <1>4, <1>6, <2>9 DEF AbortMultipart, Call
  <2>10. CASE Disconnect(r)
    BY <1>1, <1>4, <1>6, <2>10 DEF Disconnect, storeVars
  <2>11. QED BY <2>1, <2>2, <2>3, <2>4, <2>5, <2>6, <2>7, <2>8, <2>9, <2>10
<1>12. QED BY <1>3, <1>9, <1>10, <1>11, OthersAreTyped DEF IInv, TypeOK, LedgerKept

-----------------------------------------------------------------------------
LEMMA ReconcileIsTyped ==
  ASSUME NEW step \in CtlSteps, Reconcile(step)
  PROVE  ctl' \in CtlType /\ FoundIsHandle'
  BY ZeroIsTyped DEF Reconcile, CtlType, FoundIsHandle

(* What a step of the reconciler and of the deletion keeps of the requests.   *)
LEMMA ServedAreTyped ==
  ASSUME TypeOK, UNCHANGED <<expired, uploads, requests>>
  PROVE  /\ expired' \in BOOLEAN /\ uploads' \in [1 .. MaxUploads -> {"none", "open", "done", "gone"}]
         /\ requests' \in [Requests -> RequestType]
  BY DEF TypeOK

(* The reconciler while the session is ensured.                               *)
LEMMA EnsuringIsTyped ==
  ASSUME IInv, Issue \/ Observe \/ RotateToken \/ HandTokenOver \/ ObserveExpiry \/ ListParts \/ EnsureFails
  PROVE  IInv'
<1>1. UNCHANGED <<ledger, expired, object, uploads, requests, owner, cleanup>>
  BY DEF Issue, Observe, RotateToken, HandTokenOver, ObserveExpiry, ListParts, EnsureFails, storeVars, controlVars
<1>2. Fault \/ UNCHANGED faults
  BY DEF Issue, Observe, RotateToken, HandTokenOver, ObserveExpiry, ListParts, EnsureFails
<1>3. LedgerKept' /\ faults' \in 0 .. MaxFaults
  BY <1>1, <1>2, LedgerUnchanged, FaultIsTyped DEF IInv, TypeOK, LedgerKept
<1>4. session \in SecretType /\ link \in {"none", "stale", "current"}
  BY DEF IInv, TypeOK
<1>5. {"hand", "status", "delete", "idle", "rotate", "expire", "list", "handle"} \subseteq CtlSteps
  BY DEF CtlSteps
<1>6. Running \in CtlSteps \ {"handle"} /\ "idle" \in CtlSteps
  BY DEF Running, CtlSteps
<1> DEFINE Typed == /\ session' \in SecretType /\ link' \in {"none", "stale", "current"}
                    /\ ctl' \in CtlType /\ FoundIsHandle'
<1>7. Typed
  <2>1. CASE Issue
    BY <1>4, <1>5, <2>1, ReconcileIsTyped, NextSecretIsTyped, ZeroIsTyped DEF Issue
  <2>2. CASE Observe
    <3>1. UNCHANGED <<session, link>>
      BY <2>2 DEF Observe
    <3>2. Plan(session) \in CtlSteps
      BY <1>5, <1>6 DEF Plan
    <3>3. session.upload \in 0 .. MaxUploads /\ session.handle \in PayloadSizes
      BY <1>4 DEF SecretType
    <3>4. ctl' = [step |-> Plan(session), fresh |-> TRUE,
                  found |-> IF Plan(session) = "list" THEN session.upload
                            ELSE IF Plan(session) = "handle" THEN session.handle ELSE 0]
      BY <2>2 DEF Observe
    <3>5. ctl' \in CtlType /\ FoundIsHandle'
      BY <3>2, <3>3, <3>4, ZeroIsTyped DEF CtlType, FoundIsHandle
    <3>6. QED BY <1>4, <3>1, <3>5
  <2>3. CASE RotateToken
    BY <1>4, <1>5, <2>3, ReconcileIsTyped DEF RotateToken
  <2>4. CASE HandTokenOver
    BY <1>4, <1>5, <2>4, ReconcileIsTyped DEF HandTokenOver
  <2>5. CASE ObserveExpiry
    <3>1. Ended("expired", 0) \in SecretType
      BY <1>4, NextSecretIsTyped, ZeroIsTyped DEF Phases, EndedPhases
    <3>2. QED BY <1>4, <1>5, <2>5, <3>1, ReconcileIsTyped DEF ObserveExpiry
  <2>6. CASE ListParts
    BY <1>4, <1>5, <1>6, <2>6, ReconcileIsTyped DEF ListParts
  <2>7. CASE EnsureFails
    BY <1>4, <1>5, <2>7, ReconcileIsTyped DEF EnsureFails
  <2>8. QED BY <2>1, <2>2, <2>3, <2>4, <2>5, <2>6, <2>7
<1>8. QED BY <1>1, <1>3, <1>7, ServedAreTyped DEF IInv, TypeOK, LedgerKept

(* The reconciler once there is a handle, the worker and the deletion.         *)
LEMMA ConcludingIsTyped ==
  ASSUME IInv,
         \/ HandOff \/ MarkPublishing \/ DeleteSession \/ WriteFailed \/ FreeReservation \/ Publish \/ WorkerEnds
         \/ ObserveWorker \/ CommitPublished \/ CloseSession \/ SettleReservation \/ ReconcileFails
         \/ Delete \/ CleanStage \/ DropSession \/ CreditLedger
  PROVE  IInv'
<1>1. UNCHANGED <<expired, uploads, requests>>
  BY DEF HandOff, MarkPublishing, DeleteSession, WriteFailed, FreeReservation, Publish, WorkerEnds, ObserveWorker,
         CommitPublished, CloseSession, SettleReservation, ReconcileFails, Delete, CleanStage, DropSession,
         CreditLedger, storeVars
<1>2. Fault \/ UNCHANGED faults
  BY DEF HandOff, MarkPublishing, DeleteSession, WriteFailed, FreeReservation, Publish, WorkerEnds, ObserveWorker,
         CommitPublished, CloseSession, SettleReservation, ReconcileFails, Delete, CleanStage, DropSession,
         CreditLedger
<1>3. faults' \in 0 .. MaxFaults
  BY <1>2, FaultIsTyped DEF IInv
<1>4. LedgerKept
  BY DEF IInv, TypeOK, LedgerKept
<1>5. LedgerKept'
  <2>1. CASE FreeReservation \/ SettleReservation
    BY <1>4, <2>1, ReleaseKeeps DEF FreeReservation, SettleReservation
  <2>2. CASE CommitPublished
    <3>1. PICK n \in Sizes : Commit(n) \/ UNCHANGED ledger
      BY <2>2 DEF CommitPublished
    <3>2. QED BY <1>4, <3>1, CommitKeeps, LedgerUnchanged DEF PayloadSizes
  <2>3. CASE CreditLedger
    BY <1>4, <2>3, CreditKeeps DEF CreditLedger
  <2>4. CASE ~ (FreeReservation \/ SettleReservation \/ CommitPublished \/ CreditLedger)
    BY <1>4, <2>4, LedgerUnchanged DEF HandOff, MarkPublishing, DeleteSession, WriteFailed, Publish, WorkerEnds,
         ObserveWorker, CloseSession, ReconcileFails, Delete, CleanStage, DropSession
  <2>5. QED BY <2>1, <2>2, <2>3, <2>4
<1>6. /\ session \in SecretType /\ link \in {"none", "stale", "current"} /\ object \in PayloadSizes
      /\ owner \in OwnerType /\ ctl \in CtlType /\ FoundIsHandle
      /\ cleanup \in {"none", "clean", "session", "credit", "done"}
  BY DEF IInv, TypeOK
<1>7. owner.phase \in {"waiting", "publishing", "ready", "failed"} /\ owner.stage \in PayloadSizes
      /\ owner.worker \in {"none", "running", "succeeded", "failed"}
  BY <1>6 DEF OwnerType
<1>8. \A phase \in {"waiting", "publishing", "ready", "failed"}, stage \in PayloadSizes,
         worker \in {"none", "running", "succeeded", "failed"} : Owner(phase, stage, worker) => owner' \in OwnerType
  BY DEF Owner, OwnerType
<1>9. \A step \in CtlSteps : Reconcile(step) => ctl' \in CtlType /\ FoundIsHandle'
  BY ReconcileIsTyped
<1>10. {"mark", "idle", "status", "free", "fail", "commit", "complete", "settle"} \subseteq CtlSteps
  BY DEF CtlSteps
<1>11. Publishing \in SecretType /\ Completed \in SecretType /\ PublishFailed \in SecretType /\ NoSecret \in SecretType
  BY <1>6, NextSecretIsTyped, ZeroIsTyped
<1>12. UNCHANGED ctl => ctl' \in CtlType /\ FoundIsHandle'
  BY <1>6 DEF FoundIsHandle
<1> DEFINE Typed == /\ session' \in SecretType /\ link' \in {"none", "stale", "current"} /\ object' \in PayloadSizes
                    /\ owner' \in OwnerType /\ ctl' \in CtlType /\ FoundIsHandle'
                    /\ cleanup' \in {"none", "clean", "session", "credit", "done"}
<1>13. Typed
  <2>1. CASE HandOff
    BY <1>6, <1>7, <1>8, <1>9, <1>10, <2>1 DEF HandOff, storeVars, FoundIsHandle
  <2>2. CASE MarkPublishing
    BY <1>6, <1>9, <1>10, <1>11, <2>2 DEF MarkPublishing, storeVars, controlVars
  <2>3. CASE DeleteSession
    BY <1>6, <1>9, <1>10, <1>11, <2>3 DEF DeleteSession, storeVars, controlVars
  <2>4. CASE WriteFailed
    BY <1>6, <1>7, <1>8, <1>9, <1>10, <2>4 DEF WriteFailed, storeVars
  <2>5. CASE FreeReservation \/ SettleReservation
    BY <1>6, <1>9, <1>10, <2>5 DEF FreeReservation, SettleReservation, storeVars, controlVars
  <2>6. CASE Publish
    BY <1>6, <1>7, <1>8, <1>9, <1>10, <2>6 DEF Publish, storeVars
  <2>7. CASE WorkerEnds
    BY <1>6, <1>7, <1>8, <1>12, <2>7, ZeroIsTyped DEF WorkerEnds
  <2>8. CASE ObserveWorker
    BY <1>6, <1>7, <1>8, <1>9, <1>10, <2>8 DEF ObserveWorker, storeVars
  <2>9. CASE CommitPublished
    BY <1>6, <1>9, <1>10, <2>9 DEF CommitPublished, storeVars, controlVars
  <2>10. CASE CloseSession
    BY <1>6, <1>9, <1>10, <1>11, <2>10 DEF CloseSession, storeVars, controlVars
  <2>11. CASE ReconcileFails
    BY <1>6, <1>9, <1>10, <2>11 DEF ReconcileFails, storeVars, controlVars
  <2>12. CASE Delete \/ CleanStage \/ CreditLedger
    BY <1>6, <1>12, <2>12, ZeroIsTyped DEF Delete, CleanStage, CreditLedger, storeVars, controlVars
  <2>13. CASE DropSession
    BY <1>6, <1>11, <2>13, WriteIsTyped DEF DropSession, storeVars
  <2>14. QED BY <2>1, <2>2, <2>3, <2>4, <2>5, <2>6, <2>7, <2>8, <2>9, <2>10, <2>11, <2>12, <2>13
<1>14. QED BY <1>1, <1>3, <1>5, <1>13, ServedAreTyped DEF IInv, TypeOK, LedgerKept

(* Time and the other owners.                                                  *)
LEMMA EnvironmentIsTyped ==
  ASSUME IInv, ExpiryPasses \/ OthersUseLedger
  PROVE  IInv'
<1>1. LedgerKept'
  BY OthersKeep, LedgerUnchanged DEF IInv, TypeOK, LedgerKept, ExpiryPasses, OthersUseLedger
<1>2. UNCHANGED <<session, link, object, uploads, requests, owner, ctl, cleanup, faults>> /\ expired' \in BOOLEAN
  BY DEF IInv, TypeOK, ExpiryPasses, OthersUseLedger, storeVars, controlVars
<1>3. QED BY <1>1, <1>2 DEF IInv, TypeOK, LedgerKept, FoundIsHandle

LEMMA InvInit == Init => IInv
<1> SUFFICES ASSUME Init PROVE IInv
  OBVIOUS
<1>1. LedgerTypeOK /\ WithinLimit
  BY LedgerAssumption DEF Init, EmptyLedger, LedgerTypeOK, WithinLimit, Fits, InUse
<1>2. session \in SecretType
  BY ZeroIsTyped DEF Init, NoSecret, Secret, SecretType
<1>3. requests \in [Requests -> RequestType]
  BY ZeroIsTyped DEF Init, IdleRequest, RequestType, RequestSteps
<1>4. ctl \in CtlType /\ FoundIsHandle
  BY ZeroIsTyped DEF Init, IdleCtl, CtlType, CtlSteps, FoundIsHandle
<1>5. owner \in OwnerType /\ object \in PayloadSizes /\ faults \in 0 .. MaxFaults
  BY ZeroIsTyped, UploadBoundsAssumption DEF Init, OwnerType
<1>6. QED BY <1>1, <1>2, <1>3, <1>4, <1>5 DEF Init, IInv, TypeOK

LEMMA InvStep == IInv /\ [Next]_vars => IInv'
<1> SUFFICES ASSUME IInv, [Next]_vars PROVE IInv'
  OBVIOUS
<1>1. CASE UNCHANGED vars
  <2>1. LedgerKept'
    BY <1>1, LedgerUnchanged DEF IInv, TypeOK, LedgerKept, vars
  <2>2. QED BY <1>1, <2>1 DEF IInv, TypeOK, LedgerKept, FoundIsHandle, vars
<1>2. CASE \E r \in Requests : Arrive(r) \/ Serve(r) \/ Disconnect(r)
  BY <1>2, ArriveIsTyped, SavingIsTyped, CallingIsTyped DEF Serve
<1>3. CASE Controller \/ EnsureFails \/ ReconcileFails \/ WorkerEnds
  BY <1>3, EnsuringIsTyped, ConcludingIsTyped DEF Controller
<1>4. CASE Delete \/ CleanStage \/ DropSession \/ CreditLedger
  BY <1>4, ConcludingIsTyped
<1>5. CASE ExpiryPasses \/ OthersUseLedger
  BY <1>5, EnvironmentIsTyped
<1>6. QED BY <1>1, <1>2, <1>3, <1>4, <1>5 DEF Next

(* Every variable keeps its type: no request and no reconcile, whatever it has *)
(* read before, writes a Secret or a record the others do not know.            *)
THEOREM SessionTypeCorrect == Spec => []TypeOK
<1>1. IInv => TypeOK
  BY DEF IInv
<1>2. QED BY <1>1, InvInit, InvStep, PTL DEF Spec

(* Every byte admitted fits: however requests, reconciles, faults and the other *)
(* owners follow each other, what is reserved and published stays in the limit. *)
THEOREM CapacityHolds == Spec => []WithinLimit
<1>1. IInv => WithinLimit
  BY DEF IInv
<1>2. QED BY <1>1, InvInit, InvStep, PTL DEF Spec

-----------------------------------------------------------------------------
(* What a request never touches: the Model, its deletion, the reconciler's    *)
(* place, and a Secret that is not there.                                     *)
LEMMA RequestsKeep ==
  ASSUME NEW r \in Requests, Arrive(r) \/ Serve(r) \/ Disconnect(r)
  PROVE  /\ owner' = owner /\ cleanup' = cleanup /\ ctl'.step = ctl.step /\ ctl'.found = ctl.found
         /\ ledger'.published = ledger.published
         /\ session.phase = "none" => session'.phase = "none"
<1> USE DEF Save, Call, WriteSecret, KeepSecret, controlVars
<1>1. CASE Arrive(r) \/ Disconnect(r)
  BY <1>1 DEF Arrive, Disconnect
<1>2. CASE Expire(r) \/ SaveProbe(r) \/ MarkUploaded(r) \/ MarkFailed(r) \/ SaveMultipart(r) \/ SyncParts(r) \/ MarkAborted(r)
  BY <1>2 DEF Expire, SaveProbe, MarkUploaded, MarkFailed, SaveMultipart, SyncParts, MarkAborted
<1>3. CASE ReserveUpload(r) \/ ReleaseUpload(r)
  BY <1>3 DEF ReserveUpload, ReleaseUpload, Reserve, Release, Reserved
<1>4. CASE Lock(r) \/ StoreObject(r) \/ Stat(r) \/ Discard(r) \/ StartMultipart(r) \/ AbortStarted(r)
           \/ CompleteMultipart(r) \/ AbortMultipart(r)
  BY <1>4 DEF Lock, StoreObject, Stat, Discard, StartMultipart, AbortStarted, CompleteMultipart, AbortMultipart
<1>5. QED BY <1>1, <1>2, <1>3, <1>4 DEF Serve

(* The other owners' entries are not ours.                                    *)
LEMMA OthersKeepOurs ==
  ASSUME OthersMove
  PROVE  ledger'.published = ledger.published /\ ledger'.upload = ledger.upload
  BY DEF OthersMove

(* The reconciler acts on what it planned while the Model still waits, commits *)
(* one artifact, and a deletion leaves no session behind.                      *)
PlannedWaiting == ctl.step \in {"expire", "delete", "handle"} => owner.phase = "waiting"
CommitsOnce ==
  /\ ctl.step = "commit" => owner.phase = "ready" /\ ledger.published = 0
  /\ owner.phase \in {"waiting", "publishing"} => ledger.published = 0
GoneIsGone == cleanup \in {"credit", "done"} => session.phase = "none"

PlaceInv == PlannedWaiting /\ CommitsOnce /\ GoneIsGone

LEMMA PlaceInit == Init => PlaceInv
  BY DEF Init, IdleCtl, EmptyLedger, PlaceInv, PlannedWaiting, CommitsOnce, GoneIsGone

LEMMA PlaceStep ==
  ASSUME TypeOK, PlaceInv, [Next]_vars
  PROVE  PlaceInv'
<1> USE DEF PlaceInv, PlannedWaiting, CommitsOnce, GoneIsGone, Live, Reconcile, Owner, Running, controlVars, storeVars
<1>1. ASSUME UNCHANGED vars PROVE PlaceInv'
  BY <1>1 DEF vars
<1>2. ASSUME NEW r \in Requests, Arrive(r) \/ Serve(r) \/ Disconnect(r) PROVE PlaceInv'
  BY <1>2, RequestsKeep
<1>3. ASSUME Issue PROVE PlaceInv'
  BY <1>3 DEF Issue, Issued, Secret
<1>4. ASSUME Observe PROVE PlaceInv'
  BY <1>4 DEF Observe, Plan
<1>5. ASSUME RotateToken \/ HandTokenOver \/ ListParts \/ EnsureFails \/ ReconcileFails PROVE PlaceInv'
  BY <1>5 DEF RotateToken, HandTokenOver, ListParts, EnsureFails, ReconcileFails
<1>6. ASSUME ObserveExpiry PROVE PlaceInv'
  BY <1>6 DEF ObserveExpiry, Ended, Secret
<1>7. ASSUME HandOff PROVE PlaceInv'
  BY <1>7 DEF HandOff
<1>8. ASSUME MarkPublishing PROVE PlaceInv'
  BY <1>8 DEF MarkPublishing
<1>9. ASSUME DeleteSession PROVE PlaceInv'
  BY <1>9 DEF DeleteSession, NoSecret, Secret
<1>10. ASSUME WriteFailed \/ Publish \/ ObserveWorker PROVE PlaceInv'
  BY <1>10 DEF WriteFailed, Publish, ObserveWorker
<1>11. ASSUME FreeReservation \/ SettleReservation PROVE PlaceInv'
  BY <1>11 DEF FreeReservation, SettleReservation, Release, Reserved
<1>12. ASSUME CommitPublished PROVE PlaceInv'
  BY <1>12 DEF CommitPublished
<1>13. ASSUME CloseSession PROVE PlaceInv'
  BY <1>13 DEF CloseSession
<1>14. ASSUME WorkerEnds PROVE PlaceInv'
  BY <1>14 DEF WorkerEnds
<1>15. ASSUME Delete \/ CleanStage PROVE PlaceInv'
  BY <1>15 DEF Delete, CleanStage
<1>16. ASSUME DropSession PROVE PlaceInv'
  BY <1>16 DEF DropSession, WriteSecret, NoSecret, Secret
<1>17. ASSUME CreditLedger PROVE PlaceInv'
  BY <1>17 DEF CreditLedger, Credit, Committed
<1>18. ASSUME ExpiryPasses \/ OthersUseLedger PROVE PlaceInv'
  BY <1>18, OthersKeepOurs DEF ExpiryPasses, OthersUseLedger
<1>19. QED
  BY <1>1, <1>2, <1>3, <1>4, <1>5, <1>6, <1>7, <1>8, <1>9, <1>10, <1>11, <1>12, <1>13, <1>14, <1>15, <1>16, <1>17,
     <1>18 DEF Next, Controller

-----------------------------------------------------------------------------
(* Without a failed call a session is failed for a size that was promised, and *)
(* its request goes on to release the reservation.                             *)
Sized(r) == /\ requests[r].step = "discard" => requests[r].size # 0
            /\ requests[r].step = "fail" /\ faults = 0 => requests[r].size # 0

(* A reservation that is still held is one that something stands for: an open  *)
(* session, a request that is on its way to open one or to release it, the     *)
(* reconciler or the deletion before its release, a Model that goes on.        *)
Releasing(r) == requests[r].step \in {"probe", "undo", "release", "drop"}
Stands ==
  \/ session.phase \notin EndedPhases \cup {"none"}
  \/ \E r \in Requests : Releasing(r)
  \/ ctl.step \in {"free", "settle"}
  \/ cleanup \in {"clean", "session", "credit"}
  \/ Live /\ owner.phase \in {"waiting", "publishing"}
  \/ Live /\ owner.phase = "ready" /\ ledger.published = 0
NothingLost == faults = 0 /\ ledger.upload # 0 => Stands

(* What a request was admitted with stays with it until its object is gone.   *)
LEMMA SizedServe ==
  ASSUME TypeOK, NEW r \in Requests, NEW q \in Requests, Sized(q), Arrive(r) \/ Serve(r) \/ Disconnect(r)
  PROVE  Sized(q)'
<1> USE DEF Sized, TypeOK, Call, Save, Go, IdleRequest, Fault
<1>1. CASE Arrive(r)
  BY <1>1 DEF Arrive, Admit
<1>2. CASE Lock(r)
  BY <1>2 DEF Lock, FirstStep
<1>3. CASE Expire(r) \/ SaveProbe(r)
  BY <1>3 DEF Expire, SaveProbe
<1>4. CASE MarkUploaded(r) \/ MarkFailed(r)
  BY <1>4 DEF MarkUploaded, MarkFailed, Unwind
<1>5. CASE SaveMultipart(r) \/ SyncParts(r) \/ MarkAborted(r)
  BY <1>5 DEF SaveMultipart, SyncParts, MarkAborted
<1>6. CASE ReserveUpload(r) \/ ReleaseUpload(r) \/ StoreObject(r)
  BY <1>6 DEF ReserveUpload, ReleaseUpload, StoreObject
<1>7. CASE Stat(r)
  BY <1>7 DEF Stat, Unwind
<1>8. CASE Discard(r)
  BY <1>8 DEF Discard
<1>9. CASE StartMultipart(r) \/ AbortStarted(r)
  BY <1>9 DEF StartMultipart, AbortStarted
<1>10. CASE CompleteMultipart(r) \/ AbortMultipart(r) \/ Disconnect(r)
  BY <1>10 DEF CompleteMultipart, AbortMultipart, Disconnect
<1>11. QED BY <1>1, <1>2, <1>3, <1>4, <1>5, <1>6, <1>7, <1>8, <1>9, <1>10 DEF Serve

(* Nothing but a request's own step moves it.                                 *)
LEMMA OtherStepsKeepRequests ==
  ASSUME \/ Controller \/ EnsureFails \/ ReconcileFails \/ WorkerEnds
         \/ Delete \/ CleanStage \/ DropSession \/ CreditLedger \/ ExpiryPasses \/ OthersUseLedger
  PROVE  UNCHANGED requests /\ (faults' = 0 => faults = 0 \/ faults \notin Nat)
  BY DEF Controller, Issue, Observe, RotateToken, HandTokenOver, ObserveExpiry, ListParts, HandOff, MarkPublishing,
         DeleteSession, WriteFailed, FreeReservation, Publish, ObserveWorker, CommitPublished, CloseSession,
         SettleReservation, EnsureFails, ReconcileFails, WorkerEnds, Delete, CleanStage, DropSession, CreditLedger,
         ExpiryPasses, OthersUseLedger, Fault

Opened == session.phase \notin EndedPhases \cup {"none"}

(* A request that ends a session or reserves goes on to release, and one that *)
(* was to release has released, or has opened the session again.              *)
LEMMA RequestReleases ==
  ASSUME TypeOK, NEW r \in Requests, Sized(r), Arrive(r) \/ Serve(r) \/ Disconnect(r), faults' = 0
  PROVE  /\ \A q \in Requests \ {r} : requests'[q] = requests[q]
         /\ Opened => Opened' \/ Releasing(r)'
         /\ Releasing(r) => Opened' \/ Releasing(r)' \/ ledger'.upload = 0
         /\ ledger' = ledger \/ Releasing(r)' \/ ledger'.upload = 0
         /\ faults = 0
<1> USE DEF TypeOK, Opened, Releasing, Call, Save, WriteSecret, KeepSecret, Go, IdleRequest, Fault,
            Secret, OpenPhases, EndedPhases
<1>1. CASE Arrive(r)
  BY <1>1 DEF Arrive, Admit
<1>2. CASE Lock(r)
  BY <1>2 DEF Lock, FirstStep
<1>3. CASE Expire(r)
  BY <1>3 DEF Expire, Ended
<1>4. CASE SaveProbe(r)
  BY <1>4 DEF SaveProbe, Probed
<1>5. CASE MarkUploaded(r)
  BY <1>5 DEF MarkUploaded, Uploaded, Unwind
<1>6. CASE MarkFailed(r)
  BY <1>6 DEF MarkFailed, Ended, Sized
<1>7. CASE SaveMultipart(r)
  BY <1>7 DEF SaveMultipart, Uploading
<1>8. CASE SyncParts(r)
  BY <1>8 DEF SyncParts
<1>9. CASE MarkAborted(r)
  BY <1>9 DEF MarkAborted, Ended
<1>10. CASE ReserveUpload(r)
  BY <1>10 DEF ReserveUpload
<1>11. CASE ReleaseUpload(r)
  BY <1>11 DEF ReleaseUpload, Release, Reserved
<1>12. CASE StoreObject(r)
  BY <1>12 DEF StoreObject
<1>13. CASE Stat(r)
  BY <1>13 DEF Stat, Unwind
<1>14. CASE Discard(r)
  BY <1>14 DEF Discard
<1>15. CASE StartMultipart(r)
  BY <1>15 DEF StartMultipart
<1>16. CASE AbortStarted(r)
  BY <1>16 DEF AbortStarted
<1>17. CASE CompleteMultipart(r)
  BY <1>17 DEF CompleteMultipart, storeVars
<1>18. CASE AbortMultipart(r)
  BY <1>18 DEF AbortMultipart
<1>19. CASE Disconnect(r)
  BY <1>19 DEF Disconnect
<1>20. QED
  BY <1>1, <1>2, <1>3, <1>4, <1>5, <1>6, <1>7, <1>8, <1>9, <1>10, <1>11, <1>12, <1>13, <1>14,
     <1>15, <1>16, <1>17, <1>18, <1>19 DEF Serve

(* One step per action: none lets go of a reservation without a release.      *)
LEMMA NothingLostStep ==
  ASSUME TypeOK, PlaceInv, \A r \in Requests : Sized(r), NothingLost, [Next]_vars
  PROVE  NothingLost'
<1> SUFFICES ASSUME faults' = 0, ledger'.upload # 0
             PROVE  Stands'
  BY DEF NothingLost
<1>1. ASSUME NEW r \in Requests, Arrive(r) \/ Serve(r) \/ Disconnect(r) PROVE Stands'
  <2>1. /\ \A q \in Requests \ {r} : requests'[q] = requests[q]
        /\ Opened => Opened' \/ Releasing(r)'
        /\ Releasing(r) => Opened' \/ Releasing(r)'
        /\ ledger' = ledger \/ Releasing(r)'
        /\ faults = 0
    BY <1>1, RequestReleases
  <2>2. owner' = owner /\ cleanup' = cleanup /\ ctl'.step = ctl.step /\ ledger'.published = ledger.published
    BY <1>1, RequestsKeep
  <2>3. CASE Releasing(r)' \/ Opened'
    BY <2>3 DEF Stands, Opened
  <2>4. CASE ~ Releasing(r)' /\ ~ Opened'
    <3>1. Stands
      BY <2>1, <2>4 DEF NothingLost
    <3>2. ~ Opened /\ ~ Releasing(r)
      BY <2>1, <2>4
    <3>3. (\E q \in Requests : Releasing(q)) => \E q \in Requests : Releasing(q)'
      BY <2>1, <3>2 DEF Releasing
    <3>4. QED BY <2>2, <3>1, <3>2, <3>3 DEF Stands, Opened, Live
  <2>5. QED BY <2>3, <2>4
<1>2. ASSUME UNCHANGED requests, faults = 0, ledger'.upload = ledger.upload,
             ~ (\E r \in Requests : Releasing(r)) => (Stands => Stands')
      PROVE  Stands'
  BY <1>2 DEF NothingLost, Stands, Releasing
<1> USE DEF Stands, PlaceInv, PlannedWaiting, CommitsOnce, GoneIsGone, Live, Reconcile, Owner, controlVars,
       Fault, TypeOK
<1>3. ASSUME UNCHANGED vars PROVE Stands'
  BY <1>2, <1>3 DEF vars
<1>4. ASSUME Issue PROVE Stands'
  BY <1>2, <1>4 DEF Issue, Issued, Secret, EndedPhases
<1>5. ASSUME Observe PROVE Stands'
  BY <1>2, <1>5 DEF Observe, Plan, Running
<1>6. ASSUME RotateToken \/ HandTokenOver \/ ListParts PROVE Stands'
  BY <1>2, <1>6 DEF RotateToken, HandTokenOver, ListParts, Running
<1>7. ASSUME ObserveExpiry PROVE Stands'
  BY <1>2, <1>7 DEF ObserveExpiry
<1>8. ASSUME HandOff PROVE Stands'
  BY <1>2, <1>8 DEF HandOff
<1>9. ASSUME MarkPublishing PROVE Stands'
  BY <1>2, <1>9 DEF MarkPublishing, Publishing, Secret, EndedPhases
<1>10. ASSUME DeleteSession PROVE Stands'
  BY <1>2, <1>10 DEF DeleteSession
<1>11. ASSUME WriteFailed PROVE Stands'
  BY <1>2, <1>11 DEF WriteFailed
<1>12. ASSUME FreeReservation \/ SettleReservation PROVE Stands'
  BY <1>2, <1>12 DEF FreeReservation, SettleReservation, Release, Reserved
<1>13. ASSUME Publish \/ ObserveWorker PROVE Stands'
  BY <1>2, <1>13 DEF Publish, ObserveWorker
<1>14. ASSUME CommitPublished PROVE Stands'
  BY <1>2, <1>14 DEF CommitPublished, Commit, Committed
<1>15. ASSUME CloseSession PROVE Stands'
  BY <1>2, <1>15 DEF CloseSession
<1>16. ASSUME EnsureFails \/ ReconcileFails PROVE Stands'
  BY <1>2, <1>16 DEF EnsureFails, ReconcileFails
<1>17. ASSUME WorkerEnds PROVE Stands'
  BY <1>2, <1>17 DEF WorkerEnds
<1>18. ASSUME Delete \/ CleanStage PROVE Stands'
  BY <1>2, <1>18 DEF Delete, CleanStage
<1>19. ASSUME DropSession PROVE Stands'
  BY <1>2, <1>19 DEF DropSession, WriteSecret
<1>20. ASSUME CreditLedger PROVE Stands'
  BY <1>2, <1>20 DEF CreditLedger, Credit, Committed
<1>21. ASSUME ExpiryPasses PROVE Stands'
  BY <1>2, <1>21 DEF ExpiryPasses
<1>22. ASSUME OthersUseLedger PROVE Stands'
  BY <1>2, <1>22, OthersKeepOurs DEF OthersUseLedger
<1>23. QED
  BY <1>1, <1>3, <1>4, <1>5, <1>6, <1>7, <1>8, <1>9, <1>10, <1>11, <1>12, <1>13, <1>14, <1>15,
     <1>16, <1>17, <1>18, <1>19, <1>20, <1>21, <1>22 DEF Next, Controller

(* The inductive invariant of the reservations.                               *)
ReservationInv == IInv /\ PlaceInv /\ (\A r \in Requests : Sized(r)) /\ NothingLost

LEMMA ReservationStep == ReservationInv /\ [Next]_vars => ReservationInv'
<1> SUFFICES ASSUME ReservationInv, [Next]_vars PROVE ReservationInv'
  OBVIOUS
<1>1. IInv' /\ PlaceInv' /\ NothingLost'
  BY InvStep, PlaceStep, NothingLostStep DEF ReservationInv, IInv
<1>2. ASSUME NEW q \in Requests PROVE Sized(q)'
  <2>1. CASE \E r \in Requests : Arrive(r) \/ Serve(r) \/ Disconnect(r)
    BY <2>1, SizedServe DEF ReservationInv, IInv
  <2>2. CASE UNCHANGED vars
    BY <2>2 DEF ReservationInv, Sized, vars
  <2>3. CASE ~ (\E r \in Requests : Arrive(r) \/ Serve(r) \/ Disconnect(r)) /\ Next
    BY <2>3, OtherStepsKeepRequests DEF ReservationInv, IInv, TypeOK, Sized, Next
  <2>4. QED BY <2>1, <2>2, <2>3
<1>3. QED BY <1>1, <1>2 DEF ReservationInv

(* However many requests overlap, expire, are aborted or come too late: when   *)
(* the session is over, the Model settled or deleted and no request under way, *)
(* nothing is left reserved (releaseUploadReservation, failExpiredSession and  *)
(* the releases of the handlers between them miss no path without a fault).    *)
THEOREM ReservationEndsWithUpload == Spec => []ReservationEnds
<1>1. Init => ReservationInv
  <2> SUFFICES ASSUME Init PROVE ReservationInv
    OBVIOUS
  <2>1. IInv /\ PlaceInv
    BY InvInit, PlaceInit
  <2>2. QED BY <2>1 DEF Init, EmptyLedger, IdleRequest, ReservationInv, Sized, NothingLost
<1>2. ReservationInv => ReservationEnds
  BY DEF ReservationInv, IInv, TypeOK, NothingLost, Stands, Releasing, ReservationEnds, Settled, NoRequest, Live
<1>3. QED BY <1>1, <1>2, ReservationStep, PTL DEF Spec

-----------------------------------------------------------------------------
(* Requests one at a time: the client waits for an answer before it retries.   *)
OneAtATime == \A r, q \in Requests : r = q

(* A request that touches neither the stage nor, but for its parts, the Secret. *)
Quiet(r) == \/ requests[r].step \in {"idle", "undo", "drop"}
            \/ requests[r].op = "info" /\ requests[r].step = "list"

(* Where the reconciler is tells how far the Model is.                          *)
Planned  == ctl.step \in {"expire", "list", "rotate", "hand", "handle", "delete"} => owner.phase = "waiting"
Closing  == ctl.step \in {"free", "commit", "complete", "fail", "settle"} => owner.phase \in {"ready", "failed"}
Marking  == ctl.step = "mark" => owner.phase # "waiting"
NoWorker == owner.phase = "waiting" => owner.worker = "none"
OrderInv == Planned /\ Closing /\ Marking /\ NoWorker

(* The stage is the object the request has looked at, then the one the session *)
(* holds a handle of, then the one the Model has recorded.                      *)
Marked == session.phase = "publishing" => owner.phase # "waiting"
Staged == Live /\ owner.phase = "waiting" =>
            \A r \in Requests : requests[r].step = "uploaded" => object = requests[r].size /\ object # 0
Accepted == Live /\ owner.phase = "waiting" /\ session.phase = "uploaded" =>
              object = session.handle /\ object # 0 /\ \A r \in Requests : Quiet(r)
Read == Live /\ ctl.step = "handle" => session.phase = "uploaded" /\ session.handle = ctl.found
Handed == Live /\ owner.phase = "publishing" /\ owner.worker \in {"none", "running"} =>
            /\ object = owner.stage /\ object # 0
            /\ session.phase \in {"uploaded", "publishing"}
            /\ \A r \in Requests : Quiet(r)
WholeInv == Staged /\ Accepted /\ Read /\ Handed /\ Marked

(* One step per action: the reconciler goes on in the order of its code.        *)
LEMMA OrderStep ==
  ASSUME OrderInv, [Next]_vars
  PROVE  OrderInv'
<1> USE DEF OrderInv, Planned, Closing, Marking, NoWorker, Live, Reconcile, Owner, Running, controlVars, storeVars
<1>1. ASSUME NEW r \in Requests, Arrive(r) \/ Serve(r) \/ Disconnect(r) PROVE OrderInv'
  BY <1>1, RequestsKeep
<1>2. ASSUME UNCHANGED vars PROVE OrderInv'
  BY <1>2 DEF vars
<1>3. ASSUME Issue PROVE OrderInv'
  BY <1>3 DEF Issue
<1>4. ASSUME Observe PROVE OrderInv'
  BY <1>4 DEF Observe, Plan
<1>5. ASSUME RotateToken \/ HandTokenOver \/ ListParts PROVE OrderInv'
  BY <1>5 DEF RotateToken, HandTokenOver, ListParts
<1>6. ASSUME ObserveExpiry \/ EnsureFails \/ ReconcileFails PROVE OrderInv'
  BY <1>6 DEF ObserveExpiry, EnsureFails, ReconcileFails
<1>7. ASSUME HandOff \/ MarkPublishing PROVE OrderInv'
  BY <1>7 DEF HandOff, MarkPublishing
<1>8. ASSUME DeleteSession \/ WriteFailed PROVE OrderInv'
  BY <1>8 DEF DeleteSession, WriteFailed
<1>9. ASSUME FreeReservation \/ SettleReservation PROVE OrderInv'
  BY <1>9 DEF FreeReservation, SettleReservation
<1>10. ASSUME Publish \/ ObserveWorker PROVE OrderInv'
  BY <1>10 DEF Publish, ObserveWorker
<1>11. ASSUME CommitPublished \/ CloseSession PROVE OrderInv'
  BY <1>11 DEF CommitPublished, CloseSession
<1>12. ASSUME WorkerEnds PROVE OrderInv'
  BY <1>12 DEF WorkerEnds
<1>13. ASSUME Delete \/ CleanStage \/ CreditLedger PROVE OrderInv'
  BY <1>13 DEF Delete, CleanStage, CreditLedger
<1>14. ASSUME DropSession PROVE OrderInv'
  BY <1>14 DEF DropSession, WriteSecret
<1>15. ASSUME ExpiryPasses \/ OthersUseLedger PROVE OrderInv'
  BY <1>15 DEF ExpiryPasses, OthersUseLedger
<1>16. QED
  BY <1>1, <1>2, <1>3, <1>4, <1>5, <1>6, <1>7, <1>8, <1>9, <1>10, <1>11, <1>12, <1>13, <1>14,
     <1>15 DEF Next, Controller

(* A request that arrives when there is a handle is turned away.                *)
LEMMA WholeServe ==
  ASSUME OneAtATime, TypeOK, OrderInv, WholeInv, NEW r \in Requests, Arrive(r) \/ Serve(r) \/ Disconnect(r)
  PROVE  WholeInv'
<1>1. owner' = owner /\ cleanup' = cleanup /\ ctl'.step = ctl.step /\ ctl'.found = ctl.found
  BY RequestsKeep
<1>2. \A q \in Requests : q = r
  BY DEF OneAtATime
<1> USE <1>1, <1>2 DEF TypeOK, OrderInv, Planned, Closing, Marking, NoWorker, WholeInv, Staged, Accepted, Read,
       Handed, Marked, Quiet,
     Live, Call, Save, WriteSecret, KeepSecret, Go, IdleRequest, Secret, OpenPhases
<1>3. ASSUME Arrive(r) PROVE WholeInv'
  BY <1>3 DEF Arrive, Admit, Admits, storeVars
<1>4. ASSUME Lock(r) PROVE WholeInv'
  BY <1>4 DEF Lock, FirstStep, storeVars
<1>5. ASSUME Expire(r) PROVE WholeInv'
  BY <1>5 DEF Expire, Ended, storeVars
<1>6. ASSUME SaveProbe(r) PROVE WholeInv'
  BY <1>6 DEF SaveProbe, Probed, storeVars
<1>7. ASSUME MarkUploaded(r) PROVE WholeInv'
  BY <1>7 DEF MarkUploaded, Uploaded, Unwind, storeVars
<1>8. ASSUME MarkFailed(r) PROVE WholeInv'
  BY <1>8 DEF MarkFailed, Ended, storeVars
<1>9. ASSUME SaveMultipart(r) PROVE WholeInv'
  BY <1>9 DEF SaveMultipart, Uploading, storeVars
<1>10. ASSUME SyncParts(r) PROVE WholeInv'
  BY <1>10 DEF SyncParts, storeVars
<1>11. ASSUME MarkAborted(r) PROVE WholeInv'
  BY <1>11 DEF MarkAborted, Ended, storeVars
<1>12. ASSUME ReserveUpload(r) PROVE WholeInv'
  BY <1>12 DEF ReserveUpload, storeVars
<1>13. ASSUME ReleaseUpload(r) PROVE WholeInv'
  BY <1>13 DEF ReleaseUpload, storeVars
<1>14. ASSUME StoreObject(r) PROVE WholeInv'
  BY <1>14 DEF StoreObject
<1>15. ASSUME Stat(r) PROVE WholeInv'
  BY <1>15 DEF Stat, Unwind, storeVars
<1>16. ASSUME Discard(r) PROVE WholeInv'
  BY <1>16 DEF Discard
<1>17. ASSUME StartMultipart(r) PROVE WholeInv'
  BY <1>17 DEF StartMultipart
<1>18. ASSUME AbortStarted(r) PROVE WholeInv'
  BY <1>18 DEF AbortStarted
<1>19. ASSUME CompleteMultipart(r) PROVE WholeInv'
  BY <1>19 DEF CompleteMultipart, storeVars
<1>20. ASSUME AbortMultipart(r) PROVE WholeInv'
  BY <1>20 DEF AbortMultipart
<1>21. ASSUME Disconnect(r) PROVE WholeInv'
  BY <1>21 DEF Disconnect, storeVars
<1>22. QED
  BY <1>3, <1>4, <1>5, <1>6, <1>7, <1>8, <1>9, <1>10, <1>11, <1>12, <1>13, <1>14, <1>15, <1>16,
     <1>17, <1>18, <1>19, <1>20, <1>21 DEF Serve

(* The other steps: the worker alone removes the stage, and is then done.       *)
LEMMA WholeStep ==
  ASSUME OneAtATime, TypeOK, OrderInv, WholeInv, [Next]_vars
  PROVE  WholeInv'
<1>1. ASSUME NEW r \in Requests, Arrive(r) \/ Serve(r) \/ Disconnect(r) PROVE WholeInv'
  BY <1>1, WholeServe
<1> USE DEF TypeOK, OrderInv, Planned, Closing, Marking, NoWorker, WholeInv, Staged, Accepted, Read, Handed,
       Marked, Quiet,
     Live, Reconcile, Owner, Running, Secret, controlVars, storeVars
<1>2. ASSUME UNCHANGED vars PROVE WholeInv'
  BY <1>2 DEF vars
<1>3. ASSUME Issue PROVE WholeInv'
  BY <1>3 DEF Issue, Issued
<1>4. ASSUME Observe PROVE WholeInv'
  BY <1>4 DEF Observe, Plan
<1>5. ASSUME RotateToken \/ HandTokenOver \/ ListParts PROVE WholeInv'
  BY <1>5 DEF RotateToken, HandTokenOver, ListParts
<1>6. ASSUME ObserveExpiry PROVE WholeInv'
  BY <1>6 DEF ObserveExpiry, Ended
<1>7. ASSUME EnsureFails \/ ReconcileFails PROVE WholeInv'
  BY <1>7 DEF EnsureFails, ReconcileFails
<1>8. ASSUME HandOff PROVE WholeInv'
  BY <1>8 DEF HandOff
<1>9. ASSUME MarkPublishing PROVE WholeInv'
  BY <1>9 DEF MarkPublishing, Publishing
<1>10. ASSUME DeleteSession PROVE WholeInv'
  BY <1>10 DEF DeleteSession, NoSecret
<1>11. ASSUME WriteFailed PROVE WholeInv'
  BY <1>11 DEF WriteFailed
<1>12. ASSUME FreeReservation \/ SettleReservation PROVE WholeInv'
  BY <1>12 DEF FreeReservation, SettleReservation
<1>13. ASSUME Publish \/ ObserveWorker PROVE WholeInv'
  BY <1>13 DEF Publish, ObserveWorker
<1>14. ASSUME CommitPublished PROVE WholeInv'
  BY <1>14 DEF CommitPublished
<1>15. ASSUME CloseSession PROVE WholeInv'
  BY <1>15 DEF CloseSession, Completed, PublishFailed, Ended
<1>16. ASSUME WorkerEnds PROVE WholeInv'
  BY <1>16 DEF WorkerEnds
<1>17. ASSUME Delete \/ CleanStage \/ CreditLedger PROVE WholeInv'
  BY <1>17 DEF Delete, CleanStage, CreditLedger
<1>18. ASSUME DropSession PROVE WholeInv'
  BY <1>18 DEF DropSession, WriteSecret, NoSecret
<1>19. ASSUME ExpiryPasses \/ OthersUseLedger PROVE WholeInv'
  BY <1>19 DEF ExpiryPasses, OthersUseLedger
<1>20. QED
  BY <1>1, <1>2, <1>3, <1>4, <1>5, <1>6, <1>7, <1>8, <1>9, <1>10, <1>11, <1>12, <1>13, <1>14,
     <1>15, <1>16, <1>17, <1>18, <1>19 DEF Next, Controller

LEMMA OrderInit == Init => OrderInv /\ WholeInv
  BY DEF Init, IdleCtl, IdleRequest, NoSecret, Secret, OrderInv, Planned, Closing, Marking, NoWorker, WholeInv, Staged,
         Accepted, Read, Handed, Marked

-----------------------------------------------------------------------------
(* Every request brings a payload of one size: a retry of the same payload, at  *)
(* the same time as the first attempt, as it happens behind several replicas.   *)
OneSize == \A m, n \in Sizes : m = n

(* Then no stage is ever taken for a wrong one, and once there it stays.        *)
Going == Live /\ owner.phase \in {"waiting", "publishing"} /\ owner.worker \in {"none", "running"}
Promised(r) ==
  /\ requests[r].step \in {"reserve", "probe", "store"} => requests[r].size # 0
  /\ requests[r].step = "lock" /\ requests[r].op \in {"put", "probe"} => requests[r].size # 0
SameInv ==
  /\ \A r \in Requests : requests[r].step # "discard" /\ Promised(r)
  /\ Going =>
       /\ session.handle # 0 => object # 0
       /\ \A r \in Requests : requests[r].step = "uploaded" => object # 0
       /\ ctl.step = "handle" => object # 0 /\ ctl.found # 0
       /\ owner.phase = "publishing" => object # 0 /\ owner.stage # 0

(* No request discards, and each looks at an object before it tells of it.      *)
LEMMA SameServe ==
  ASSUME OneSize, TypeOK, SameInv, NEW r \in Requests, Arrive(r) \/ Serve(r) \/ Disconnect(r)
  PROVE  SameInv'
<1>1. owner' = owner /\ cleanup' = cleanup /\ ctl'.step = ctl.step /\ ctl'.found = ctl.found
  BY RequestsKeep
<1>2. \A m, n \in PayloadSizes : m # 0 /\ n # 0 => m = n
  BY DEF OneSize, PayloadSizes
<1>3. object \in PayloadSizes /\ \A q \in Requests : requests[q].size \in PayloadSizes
  BY DEF TypeOK, RequestType
<1>4. requests \in [Requests -> RequestType] /\ 0 \notin Sizes
  BY SizesAssumption DEF TypeOK
<1> USE <1>1, <1>4 DEF Going, Promised, SameInv, Live, Call, Save, WriteSecret, KeepSecret, Go, IdleRequest, Secret
<1>5. ASSUME Arrive(r) PROVE SameInv'
  BY <1>5 DEF Arrive, Admit, Admits, storeVars
<1>6. ASSUME Lock(r) PROVE SameInv'
  BY <1>6 DEF Lock, FirstStep, storeVars
<1>7. ASSUME Expire(r) PROVE SameInv'
  BY <1>7 DEF Expire, Ended, storeVars
<1>8. ASSUME SaveProbe(r) PROVE SameInv'
  BY <1>8 DEF SaveProbe, Probed, storeVars
<1>9. ASSUME MarkUploaded(r) PROVE SameInv'
  BY <1>9 DEF MarkUploaded, Uploaded, Unwind, storeVars
<1>10. ASSUME MarkFailed(r) PROVE SameInv'
  BY <1>10 DEF MarkFailed, Ended, storeVars
<1>11. ASSUME SaveMultipart(r) PROVE SameInv'
  BY <1>11 DEF SaveMultipart, Uploading, storeVars
<1>12. ASSUME SyncParts(r) PROVE SameInv'
  BY <1>12 DEF SyncParts, storeVars
<1>13. ASSUME MarkAborted(r) PROVE SameInv'
  BY <1>13 DEF MarkAborted, Ended, storeVars
<1>14. ASSUME ReserveUpload(r) PROVE SameInv'
  BY <1>14 DEF ReserveUpload, storeVars
<1>15. ASSUME ReleaseUpload(r) PROVE SameInv'
  BY <1>15 DEF ReleaseUpload, storeVars
<1>16. ASSUME StoreObject(r) PROVE SameInv'
  BY <1>16 DEF StoreObject
<1>17. ASSUME Stat(r) PROVE SameInv'
  BY <1>2, <1>3, <1>17 DEF Stat, Unwind, storeVars
<1>18. ASSUME Discard(r) PROVE SameInv'
  BY <1>18 DEF Discard
<1>19. ASSUME StartMultipart(r) PROVE SameInv'
  BY <1>19 DEF StartMultipart
<1>20. ASSUME AbortStarted(r) PROVE SameInv'
  BY <1>20 DEF AbortStarted
<1>21. ASSUME CompleteMultipart(r) PROVE SameInv'
  BY <1>21 DEF CompleteMultipart, storeVars
<1>22. ASSUME AbortMultipart(r) PROVE SameInv'
  BY <1>22 DEF AbortMultipart
<1>23. ASSUME Disconnect(r) PROVE SameInv'
  BY <1>23 DEF Disconnect, storeVars
<1>24. QED
  BY <1>5, <1>6, <1>7, <1>8, <1>9, <1>10, <1>11, <1>12, <1>13, <1>14, <1>15, <1>16, <1>17, <1>18,
     <1>19, <1>20, <1>21, <1>22, <1>23 DEF Serve

(* The reconciler hands over what is there, and the worker alone removes it.    *)
LEMMA SameStep ==
  ASSUME OneSize, TypeOK, OrderInv, SameInv, [Next]_vars
  PROVE  SameInv'
<1>1. ASSUME NEW r \in Requests, Arrive(r) \/ Serve(r) \/ Disconnect(r) PROVE SameInv'
  BY <1>1, SameServe
<1> USE DEF TypeOK, OrderInv, Planned, Closing, Marking, NoWorker, Going, Promised, SameInv,
     Live, Reconcile, Owner, Running, Secret, controlVars, storeVars
<1>2. ASSUME UNCHANGED vars PROVE SameInv'
  BY <1>2 DEF vars
<1>3. ASSUME Issue PROVE SameInv'
  BY <1>3 DEF Issue, Issued
<1>4. ASSUME Observe PROVE SameInv'
  BY <1>4 DEF Observe, Plan
<1>5. ASSUME RotateToken \/ HandTokenOver \/ ListParts PROVE SameInv'
  BY <1>5 DEF RotateToken, HandTokenOver, ListParts
<1>6. ASSUME ObserveExpiry PROVE SameInv'
  BY <1>6 DEF ObserveExpiry, Ended
<1>7. ASSUME EnsureFails \/ ReconcileFails PROVE SameInv'
  BY <1>7 DEF EnsureFails, ReconcileFails
<1>8. ASSUME HandOff PROVE SameInv'
  BY <1>8 DEF HandOff
<1>9. ASSUME MarkPublishing PROVE SameInv'
  BY <1>9 DEF MarkPublishing, Publishing
<1>10. ASSUME DeleteSession PROVE SameInv'
  BY <1>10 DEF DeleteSession, NoSecret
<1>11. ASSUME WriteFailed PROVE SameInv'
  BY <1>11 DEF WriteFailed
<1>12. ASSUME FreeReservation \/ SettleReservation PROVE SameInv'
  BY <1>12 DEF FreeReservation, SettleReservation
<1>13. ASSUME Publish \/ ObserveWorker PROVE SameInv'
  BY <1>13 DEF Publish, ObserveWorker
<1>14. ASSUME CommitPublished PROVE SameInv'
  BY <1>14 DEF CommitPublished
<1>15. ASSUME CloseSession PROVE SameInv'
  BY <1>15 DEF CloseSession, Completed, PublishFailed, Ended
<1>16. ASSUME WorkerEnds PROVE SameInv'
  BY <1>16 DEF WorkerEnds
<1>17. ASSUME Delete \/ CleanStage \/ CreditLedger PROVE SameInv'
  BY <1>17 DEF Delete, CleanStage, CreditLedger
<1>18. ASSUME DropSession PROVE SameInv'
  BY <1>18 DEF DropSession, WriteSecret, NoSecret
<1>19. ASSUME ExpiryPasses \/ OthersUseLedger PROVE SameInv'
  BY <1>19 DEF ExpiryPasses, OthersUseLedger
<1>20. QED
  BY <1>1, <1>2, <1>3, <1>4, <1>5, <1>6, <1>7, <1>8, <1>9, <1>10, <1>11, <1>12, <1>13, <1>14,
     <1>15, <1>16, <1>17, <1>18, <1>19 DEF Next, Controller

(* The inductive invariant of the hand-off, in either case.                     *)
StageKept == \/ OneAtATime /\ WholeInv
             \/ OneSize /\ SameInv
HandOffInv == IInv /\ OrderInv /\ StageKept

LEMMA StageInit == Init /\ (OneAtATime \/ OneSize) => HandOffInv
  BY InvInit, OrderInit DEF Init, IdleCtl, IdleRequest, NoSecret, Secret, Promised, SameInv, StageKept, HandOffInv

LEMMA StageStep == HandOffInv /\ [Next]_vars => HandOffInv'
<1>1. ASSUME HandOffInv, [Next]_vars, OneAtATime, WholeInv PROVE HandOffInv'
  <2>1. IInv' /\ OrderInv'
    BY <1>1, InvStep, OrderStep DEF HandOffInv
  <2>2. WholeInv'
    BY <1>1, WholeStep DEF HandOffInv, IInv
  <2>3. OneAtATime'
    BY <1>1 DEF OneAtATime
  <2>4. (OneAtATime /\ WholeInv)'
    BY <2>2, <2>3
  <2>5. QED BY <2>1, <2>4 DEF HandOffInv, StageKept
<1>2. ASSUME HandOffInv, [Next]_vars, OneSize, SameInv PROVE HandOffInv'
  <2>1. IInv' /\ OrderInv'
    BY <1>2, InvStep, OrderStep DEF HandOffInv
  <2>2. SameInv'
    BY <1>2, SameStep DEF HandOffInv, IInv
  <2>3. QED BY <1>2, <2>1, <2>2 DEF HandOffInv, StageKept, OneSize
<1>3. QED BY <1>1, <1>2 DEF HandOffInv, StageKept

LEMMA StageIsWhole == HandOffInv => HandOffIsWhole
<1>1. ASSUME HandOffInv, WholeInv PROVE HandOffIsWhole
  BY <1>1 DEF WholeInv, Handed, HandOffIsWhole
<1>2. ASSUME HandOffInv, OneSize, SameInv PROVE HandOffIsWhole
  BY <1>2 DEF HandOffInv, IInv, TypeOK, OwnerType, PayloadSizes, OneSize, SameInv, Going, HandOffIsWhole
<1>3. QED BY <1>1, <1>2 DEF HandOffInv, StageKept

LEMMA StageIsThere ==
  ASSUME HandOffInv, Live, owner.phase = "publishing", owner.worker = "running"
  PROVE  object # 0
  BY DEF HandOffInv, StageKept, WholeInv, Handed, SameInv, Going

(* What the Model was told is staged is there, byte for byte, until its worker  *)
(* is done with it, whatever fails, is retried late or expires.  Without the    *)
(* premise it does not hold: a handler decides by the session it loaded before  *)
(* it waited for the mutex (http_api.go:49, direct_upload_api.go:36).           *)
THEOREM HandOffHolds == ASSUME OneAtATime \/ OneSize PROVE Spec => []HandOffIsWhole
<1>1. Init => HandOffInv
  BY OneAtATime \/ OneSize, StageInit
<1>2. QED BY <1>1, StageStep, StageIsWhole, PTL DEF Spec

-----------------------------------------------------------------------------
(* While nothing fails, nothing expires and nobody deletes, a Model fails only  *)
(* with its session gone or its payload uploaded in parts.                      *)
Calm == Live /\ faults = 0 /\ ~ expired
CalmInv ==
  Calm =>
    /\ session.phase = "none" => link = "none"
    /\ session.phase # "none" /\ ctl.step # "hand" => link = "current"
    /\ ctl.step \notin {"rotate", "expire"}
    /\ ctl.step = "list" => session.phase # "none" /\ session.upload # 0
    /\ session.phase = "uploading" => session.upload # 0
    /\ owner.phase = "publishing" => owner.worker # "failed"
    /\ ctl.step = "status" \/ owner.phase = "failed" => session.phase = "none" \/ session.upload # 0
    /\ \A r \in Requests : requests[r].step = "save" => requests[r].upload # 0
    /\ ctl.step = "hand" => session.phase # "none"

(* Requests never hand a token over, and never start an upload they forget.     *)
LEMMA CalmServe ==
  ASSUME TypeOK, CalmInv, NEW r \in Requests, Arrive(r) \/ Serve(r) \/ Disconnect(r)
  PROVE  CalmInv'
<1>1. owner' = owner /\ cleanup' = cleanup /\ ctl'.step = ctl.step /\ ctl'.found = ctl.found
  BY RequestsKeep
<1> USE <1>1 DEF TypeOK, Calm, CalmInv, Live, Call, Save, WriteSecret, KeepSecret, Go, IdleRequest, Secret,
       OpenPhases, Fault
<1>3. ASSUME Arrive(r) PROVE CalmInv'
  BY <1>3 DEF Arrive, Admit
<1>4. ASSUME Lock(r) PROVE CalmInv'
  BY <1>4 DEF Lock, FirstStep, storeVars
<1>5. ASSUME Expire(r) PROVE CalmInv'
  BY <1>5 DEF Expire, Ended, storeVars
<1>6. ASSUME SaveProbe(r) PROVE CalmInv'
  BY <1>6 DEF SaveProbe, Probed, storeVars
<1>7. ASSUME MarkUploaded(r) PROVE CalmInv'
  BY <1>7 DEF MarkUploaded, Uploaded, Unwind, storeVars
<1>8. ASSUME MarkFailed(r) PROVE CalmInv'
  BY <1>8 DEF MarkFailed, Ended, storeVars
<1>9. ASSUME SaveMultipart(r) PROVE CalmInv'
  BY <1>9 DEF SaveMultipart, Uploading, storeVars
<1>10. ASSUME SyncParts(r) PROVE CalmInv'
  BY <1>10 DEF SyncParts, storeVars
<1>11. ASSUME MarkAborted(r) PROVE CalmInv'
  BY <1>11 DEF MarkAborted, Ended, storeVars
<1>12. ASSUME ReserveUpload(r) PROVE CalmInv'
  BY <1>12 DEF ReserveUpload, storeVars
<1>13. ASSUME ReleaseUpload(r) PROVE CalmInv'
  BY <1>13 DEF ReleaseUpload, storeVars
<1>14. ASSUME StoreObject(r) PROVE CalmInv'
  BY <1>14 DEF StoreObject
<1>15. ASSUME Stat(r) PROVE CalmInv'
  BY <1>15 DEF Stat, Unwind, storeVars
<1>16. ASSUME Discard(r) PROVE CalmInv'
  BY <1>16 DEF Discard
<1>17. ASSUME StartMultipart(r) PROVE CalmInv'
  BY <1>17 DEF StartMultipart
<1>18. ASSUME AbortStarted(r) PROVE CalmInv'
  BY <1>18 DEF AbortStarted
<1>19. ASSUME CompleteMultipart(r) PROVE CalmInv'
  BY <1>19 DEF CompleteMultipart, storeVars
<1>20. ASSUME AbortMultipart(r) PROVE CalmInv'
  BY <1>20 DEF AbortMultipart
<1>21. ASSUME Disconnect(r) PROVE CalmInv'
  BY <1>21 DEF Disconnect, storeVars
<1>22. QED
  BY <1>3, <1>4, <1>5, <1>6, <1>7, <1>8, <1>9, <1>10, <1>11, <1>12, <1>13, <1>14, <1>15, <1>16,
     <1>17, <1>18, <1>19, <1>20, <1>21 DEF Serve

(* The reconciler fails the Model only on its way through these steps.          *)
LEMMA CalmStep ==
  ASSUME HandOffInv, CalmInv, [Next]_vars
  PROVE  CalmInv'
<1>1. ASSUME NEW r \in Requests, Arrive(r) \/ Serve(r) \/ Disconnect(r) PROVE CalmInv'
  BY <1>1, CalmServe DEF HandOffInv, IInv
<1>0. TypeOK /\ OrderInv /\ (Live /\ owner.phase = "publishing" /\ owner.worker = "running" => object # 0)
  BY StageIsThere DEF HandOffInv, IInv
<1> USE <1>0 DEF TypeOK, OrderInv, Planned, Closing, Marking, NoWorker, Calm, CalmInv,
     Live, Reconcile, Owner, Running, Secret, controlVars, storeVars, Fault
<1>2. ASSUME UNCHANGED vars PROVE CalmInv'
  BY <1>2 DEF vars
<1>3. ASSUME Issue PROVE CalmInv'
  BY <1>3 DEF Issue, Issued
<1>4. ASSUME Observe PROVE CalmInv'
  BY <1>4 DEF Observe, Plan, OpenPhases
<1>5. ASSUME RotateToken \/ HandTokenOver \/ ListParts PROVE CalmInv'
  BY <1>5 DEF RotateToken, HandTokenOver, ListParts
<1>6. ASSUME ObserveExpiry PROVE CalmInv'
  BY <1>6 DEF ObserveExpiry, Ended
<1>7. ASSUME EnsureFails \/ ReconcileFails PROVE CalmInv'
  BY <1>7 DEF EnsureFails, ReconcileFails
<1>8. ASSUME HandOff PROVE CalmInv'
  BY <1>8 DEF HandOff
<1>9. ASSUME MarkPublishing PROVE CalmInv'
  BY <1>9 DEF MarkPublishing, Publishing
<1>10. ASSUME DeleteSession PROVE CalmInv'
  BY <1>10 DEF DeleteSession, NoSecret
<1>11. ASSUME WriteFailed PROVE CalmInv'
  BY <1>11 DEF WriteFailed
<1>12. ASSUME FreeReservation \/ SettleReservation PROVE CalmInv'
  BY <1>12 DEF FreeReservation, SettleReservation
<1>13. ASSUME Publish \/ ObserveWorker PROVE CalmInv'
  BY <1>13 DEF Publish, ObserveWorker
<1>14. ASSUME CommitPublished PROVE CalmInv'
  BY <1>14 DEF CommitPublished
<1>15. ASSUME CloseSession PROVE CalmInv'
  BY <1>15 DEF CloseSession, Completed, PublishFailed, Ended
<1>16. ASSUME WorkerEnds PROVE CalmInv'
  BY <1>16 DEF WorkerEnds
<1>17. ASSUME Delete \/ CleanStage \/ CreditLedger PROVE CalmInv'
  BY <1>17 DEF Delete, CleanStage, CreditLedger
<1>18. ASSUME DropSession PROVE CalmInv'
  BY <1>18 DEF DropSession
<1>19. ASSUME ExpiryPasses \/ OthersUseLedger PROVE CalmInv'
  BY <1>19 DEF ExpiryPasses, OthersUseLedger
<1>20. QED
  BY <1>1, <1>2, <1>3, <1>4, <1>5, <1>6, <1>7, <1>8, <1>9, <1>10, <1>11, <1>12, <1>13, <1>14,
     <1>15, <1>16, <1>17, <1>18, <1>19 DEF Next, Controller

(* The inductive invariant of what is accepted.                                 *)
KeptInv == HandOffInv /\ CalmInv

(* A payload accepted in one request, in time and without a failed call, never  *)
(* gets a failed Model for an answer: neither the expiry nor the token's        *)
(* rotation, nor a reconcile that planned by an older Secret gets in between.   *)
THEOREM AcceptedIsNeverFailed == ASSUME OneAtATime \/ OneSize PROVE Spec => []AcceptedIsKept
<1>1. Init => KeptInv
  <2>1. Init => CalmInv
    BY DEF Init, CalmInv, Calm, IdleCtl, IdleRequest, NoSecret, Secret
  <2>2. QED BY <2>1, OneAtATime \/ OneSize, StageInit DEF KeptInv
<1>2. KeptInv /\ [Next]_vars => KeptInv'
  BY StageStep, CalmStep DEF KeptInv
<1>3. KeptInv => AcceptedIsKept
  BY DEF KeptInv, CalmInv, Calm, AcceptedIsKept
<1>4. QED BY <1>1, <1>2, <1>3, PTL DEF Spec
=============================================================================
