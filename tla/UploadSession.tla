--------------------------------- MODULE UploadSession ---------------------------------
(* One upload: the session Secret, the requests the upload gateway serves for    *)
(* it, the staging bucket, the storage ledger, and the reconciler that waits     *)
(* for the upload, hands it to a publication worker and records how it ended.    *)
(* A request loads the session before it takes its replica's mutex and decides   *)
(* by what it loaded; its writes are repeated on a conflict against whatever     *)
(* the Secret holds by then.  The reconciler's writes fail on a conflict.        *)
EXTENDS StorageLedger, FiniteSets

CONSTANTS Requests,    \* HTTP requests that may be under way at a time
          Replicas,    \* gateway replicas, each with a mutex of its own
          Sizes,       \* sizes of a payload
          MaxUploads,  \* bound on the multipart uploads started
          MaxFaults    \* bound on failed calls and on requests cut short

ASSUME SizesAssumption == Sizes \subseteq Nat \ {0}
ASSUME UploadBoundsAssumption == MaxUploads \in Nat /\ MaxFaults \in Nat

VARIABLES
  session,   \* the session Secret
  link,      \* the Secret that hands the session's token over, as of that session
  expired,   \* the session's expiry has passed
  object,    \* size of the staged object, 0 when there is none
  uploads,   \* the multipart uploads of the staging bucket
  requests,  \* the requests under way
  owner,     \* the Model: phase, recorded stage, worker
  ctl,       \* the reconcile under way
  cleanup,   \* the deletion under way
  faults

vars == <<ledger, session, link, expired, object, uploads, requests, owner, ctl, cleanup, faults>>

(* ------------------------------- vocabulary ---------------------------------- *)
OpenPhases  == {"issued", "probing", "uploading"}
EndedPhases == {"completed", "failed", "aborted", "expired"}
Phases      == OpenPhases \cup {"uploaded", "publishing"} \cup EndedPhases
PayloadSizes == Sizes \cup {0}

Secret(phase, size, probed, upload, handle) ==
  [phase |-> phase, size |-> size, probed |-> probed, upload |-> upload, handle |-> handle]
NoSecret == Secret("none", 0, FALSE, 0, 0)
Issued   == Secret("issued", 0, FALSE, 0, 0)

IdleRequest == [op |-> "none", step |-> "idle", at |-> "none", upload |-> 0, size |-> 0]
IdleCtl     == [step |-> "idle", found |-> 0, fresh |-> TRUE]

Ops == {"put", "probe", "init", "info", "complete", "abort"}
RequestSteps == {"idle", "lock", "expire", "reserve", "probe", "store", "stat", "uploaded",
                 "discard", "fail", "start", "save", "unstart", "list", "assemble",
                 "unassemble", "aborted", "undo", "release", "drop"}
CtlSteps == {"idle", "expire", "list", "rotate", "hand", "handle", "mark", "delete", "status", "free",
             "commit", "complete", "fail", "settle"}

SecretType == [phase : Phases \cup {"none"}, size : PayloadSizes, probed : BOOLEAN,
               upload : 0 .. MaxUploads, handle : PayloadSizes]
RequestType == [op : Ops \cup {"none"}, step : RequestSteps, at : Replicas \cup {"none"},
                upload : 0 .. MaxUploads, size : PayloadSizes]
OwnerType == [phase : {"waiting", "publishing", "ready", "failed"}, stage : PayloadSizes,
              worker : {"none", "running", "succeeded", "failed"}]
CtlType == [step : CtlSteps, found : PayloadSizes \cup 0 .. MaxUploads, fresh : BOOLEAN]

TypeOK ==
  /\ LedgerTypeOK
  /\ session \in SecretType
  /\ link \in {"none", "stale", "current"}
  /\ expired \in BOOLEAN
  /\ object \in PayloadSizes
  /\ uploads \in [1 .. MaxUploads -> {"none", "open", "done", "gone"}]
  /\ requests \in [Requests -> RequestType]
  /\ owner \in OwnerType
  /\ ctl \in CtlType
  /\ cleanup \in {"none", "clean", "session", "credit", "done"}
  /\ faults \in 0 .. MaxFaults

Init ==
  /\ ledger = EmptyLedger
  /\ session = NoSecret /\ link = "none" /\ expired = FALSE
  /\ object = 0 /\ uploads = [u \in 1 .. MaxUploads |-> "none"]
  /\ requests = [r \in Requests |-> IdleRequest]
  /\ owner = [phase |-> "waiting", stage |-> 0, worker |-> "none"]
  /\ ctl = IdleCtl /\ cleanup = "none"
  /\ faults = 0

Fault == faults < MaxFaults /\ faults' = faults + 1

storeVars   == <<object, uploads>>
controlVars == <<owner, cleanup>>

(* A write of the Secret makes what the reconciler has read of it stale.         *)
WriteSecret(s) ==
  /\ session' = s
  /\ ctl' = [step |-> ctl.step, found |-> ctl.found, fresh |-> ctl.step \notin {"expire", "rotate"}]
KeepSecret == UNCHANGED <<session, ctl>>

(* What the state machine of the Secret makes of its current content.            *)
Probed(size) == Secret("probing", size, TRUE, session.upload, session.handle)
Uploading(u) == Secret("uploading", session.size, session.probed, u, 0)
(* Mutant of Uploaded: a phase the reconciler does not know.                     *)
UploadedUnknown(n) == Secret("staged", session.size, session.probed, session.upload, n)
Uploaded(n)  == Secret("uploaded", session.size, session.probed, session.upload, n)
Ended(phase, handle) == Secret(phase, session.size, session.probed, session.upload, handle)
Publishing   == IF session.phase \in EndedPhases THEN session
                ELSE Secret("publishing", session.size, session.probed, session.upload, session.handle)
Completed    == IF session.phase \in {"failed", "aborted", "expired"} THEN session
                ELSE Ended("completed", 0)
PublishFailed == IF session.phase \in {"completed", "aborted", "expired"} THEN session
                 ELSE Ended("failed", session.handle)

(* --------------------------- requests: the gateway ---------------------------- *)
Go(r, step) ==
  requests' = [requests EXCEPT ![r] =
    IF step = "idle" THEN IdleRequest
    ELSE [op |-> @.op, step |-> step, at |-> @.at, upload |-> @.upload, size |-> @.size]]

(* A call: it takes effect and answers, or fails with or without its effect.     *)
Call(r, effect, without, ok, failed) ==
  \/ effect /\ Go(r, ok) /\ UNCHANGED faults
  \/ Fault /\ (effect \/ without) /\ Go(r, failed)

(* A call that stores the mutated Secret, and fails when there is none.          *)
Save(r, secret, ok, failed) ==
  IF session.phase = "none"
  THEN KeepSecret /\ Go(r, failed) /\ UNCHANGED faults
  ELSE Call(r, WriteSecret(secret), KeepSecret, ok, failed)

(* What the handlers check before their first call, by what was loaded: a        *)
(* request that fails these checks changes nothing, and is left out.             *)
Admits(op, n) ==
  \/ /\ op \in {"put", "probe"}
     /\ session.phase \in {"issued", "probing"} /\ session.upload = 0
     /\ session.size \in {0, n} /\ n # 0
  \/ /\ op = "init" /\ n = 0
     /\ session.phase \in OpenPhases /\ session.probed /\ session.upload = 0
  \/ /\ op \in {"complete", "info"} /\ n = session.size
     /\ session.phase = "uploading"
  \/ op = "abort" /\ n = 0 /\ session.phase \in OpenPhases

Admit(r, op, step, at, n) ==
  requests' = [requests EXCEPT ![r] =
    [op |-> op, step |-> step, at |-> at, upload |-> session.upload, size |-> n]]

(* The session is loaded; one found expired is ended, or only released again.    *)
Arrive(r) ==
  /\ requests[r].step = "idle" /\ link = "current"
  /\ \/ /\ expired
        /\ \/ session.phase \in OpenPhases /\ Admit(r, "info", "expire", "none", 0)
           \/ session.phase = "expired" /\ Admit(r, "info", "drop", "none", 0)
     \/ /\ ~ expired
        /\ \E op \in Ops, n \in PayloadSizes :
             /\ Admits(op, n)
             /\ \/ op = "info" /\ Admit(r, op, "list", "none", 0)
                \/ op # "info" /\ \E at \in Replicas : Admit(r, op, "lock", at, n)
  /\ UNCHANGED <<ledger, session, link, expired, storeVars, controlVars, ctl, faults>>

Expire(r) ==
  /\ requests[r].step = "expire"
  /\ Save(r, Ended("expired", 0), "drop", "idle")
  /\ UNCHANGED <<ledger, link, expired, storeVars, controlVars>>

Unlocked == {"idle", "lock", "expire", "drop"}
HoldsMutex(q) == requests[q].op # "info" /\ requests[q].step \notin Unlocked
MutexFree(r) == \A q \in Requests \ {r} : requests[q].at = requests[r].at => ~ HoldsMutex(q)

FirstStep(r) ==
  CASE requests[r].op \in {"put", "probe"} -> "reserve"
    [] requests[r].op = "init" -> "start"
    [] requests[r].op = "complete" -> "list"
    [] OTHER -> IF requests[r].upload = 0 THEN "aborted" ELSE "unassemble"

Lock(r) ==
  /\ requests[r].step = "lock" /\ MutexFree(r)
  /\ Go(r, FirstStep(r))
  /\ UNCHANGED <<ledger, session, link, expired, storeVars, controlVars, ctl, faults>>

ReserveUpload(r) ==
  /\ requests[r].step = "reserve"
  /\ LET n == requests[r].size IN
     \/ Call(r, Reserve(n), UNCHANGED ledger, "probe", "idle")
     \/ ~ Fits(Reserved(n)) /\ Go(r, "idle") /\ UNCHANGED <<ledger, faults>>
  /\ UNCHANGED <<session, link, expired, storeVars, controlVars, ctl>>

(* Mutant of SaveProbe: the session is uploaded before its object is.            *)
SaveProbeFirst(r) ==
  /\ requests[r].step = "probe"
  /\ Save(r, Probed(requests[r].size), IF requests[r].op = "put" THEN "uploaded" ELSE "idle", "undo")
  /\ UNCHANGED <<ledger, link, expired, storeVars, controlVars>>

SaveProbe(r) ==
  /\ requests[r].step = "probe"
  /\ Save(r, Probed(requests[r].size), IF requests[r].op = "put" THEN "store" ELSE "idle", "undo")
  /\ UNCHANGED <<ledger, link, expired, storeVars, controlVars>>

StoreObject(r) ==
  /\ requests[r].step = "store"
  /\ Call(r, object' = requests[r].size, UNCHANGED object, "stat", "undo")
  /\ UNCHANGED <<ledger, session, link, expired, uploads, controlVars, ctl>>

(* An object of another size than promised is deleted and the session fails.     *)
(* A complete request answers its errors and leaves everything as it is.         *)
Unwind(r)   == IF requests[r].op = "put" THEN "undo" ELSE "idle"

Stat(r) ==
  /\ requests[r].step = "stat"
  /\ \/ object = 0 /\ Go(r, Unwind(r)) /\ UNCHANGED faults
     \/ object # 0 /\ requests[r].size \in {0, object} /\ UNCHANGED faults
        /\ requests' = [requests EXCEPT ![r] =
             [op |-> @.op, step |-> "uploaded", at |-> @.at, upload |-> @.upload, size |-> object]]
     \/ object # 0 /\ requests[r].size \notin {0, object} /\ Go(r, "discard") /\ UNCHANGED faults
     \/ Fault /\ Go(r, Unwind(r))
  /\ UNCHANGED <<ledger, session, link, expired, storeVars, controlVars, ctl>>

MarkUploaded(r) ==
  /\ requests[r].step = "uploaded"
  /\ Save(r, Uploaded(requests[r].size), "idle", Unwind(r))
  /\ UNCHANGED <<ledger, link, expired, storeVars, controlVars>>

(* The session is failed even when the object could not be deleted, but only a   *)
(* clean removal releases the reservation.                                       *)
Discard(r) ==
  /\ requests[r].step = "discard"
  /\ \/ object' = 0 /\ Go(r, "fail") /\ UNCHANGED faults
     \/ Fault /\ object' \in {0, object}
        /\ requests' = [requests EXCEPT ![r] =
             [op |-> @.op, step |-> "fail", at |-> @.at, upload |-> @.upload, size |-> 0]]
  /\ UNCHANGED <<ledger, session, link, expired, uploads, controlVars, ctl>>

MarkFailed(r) ==
  /\ requests[r].step = "fail"
  /\ Save(r, Ended("failed", 0), IF requests[r].size = 0 THEN "idle" ELSE "release", "idle")
  /\ UNCHANGED <<ledger, link, expired, storeVars, controlVars>>

(* Mutant of ReleaseUpload: nothing is released.                                 *)
ReleaseNothing(r) ==
  /\ requests[r].step \in {"undo", "release", "drop"}
  /\ Go(r, "idle")
  /\ UNCHANGED <<ledger, session, link, expired, storeVars, controlVars, ctl, faults>>

ReleaseUpload(r) ==
  /\ requests[r].step \in {"undo", "release", "drop"}
  /\ Call(r, Release, UNCHANGED ledger, "idle", "idle")
  /\ UNCHANGED <<session, link, expired, storeVars, controlVars, ctl>>

StartMultipart(r) ==
  /\ requests[r].step = "start"
  /\ \E u \in {v \in DOMAIN uploads : uploads[v] = "none"} :
       \/ /\ uploads' = [uploads EXCEPT ![u] = "open"]
          /\ requests' = [requests EXCEPT ![r] =
               [op |-> @.op, step |-> "save", at |-> @.at, upload |-> u, size |-> 0]]
          /\ UNCHANGED faults
       \/ /\ Fault
          /\ uploads' \in {uploads, [uploads EXCEPT ![u] = "open"]}
          /\ Go(r, "idle")
  /\ UNCHANGED <<ledger, session, link, expired, object, controlVars, ctl>>

SaveMultipart(r) ==
  /\ requests[r].step = "save"
  /\ Save(r, Uploading(requests[r].upload), "idle", "unstart")
  /\ UNCHANGED <<ledger, link, expired, storeVars, controlVars>>

AbortStarted(r) ==
  /\ requests[r].step = "unstart"
  /\ Call(r, uploads' = [uploads EXCEPT ![requests[r].upload] = "gone"], UNCHANGED uploads,
          "idle", "idle")
  /\ UNCHANGED <<ledger, session, link, expired, object, controlVars, ctl>>

(* The parts are listed at the store and saved; an upload that is no longer      *)
(* open cannot be listed, so that a completion is never repeated.                *)
SyncParts(r) ==
  /\ requests[r].step = "list"
  /\ IF requests[r].upload = 0 \/ uploads[requests[r].upload] # "open"
     THEN KeepSecret /\ Go(r, "idle") /\ UNCHANGED faults
     ELSE Save(r, session, IF requests[r].op = "complete" THEN "assemble" ELSE "idle", "idle")
  /\ UNCHANGED <<ledger, link, expired, storeVars, controlVars>>

(* The parts the client names make an object of their size.                      *)
CompleteMultipart(r) ==
  /\ requests[r].step = "assemble"
  /\ LET u == requests[r].upload IN
     IF uploads[u] # "open"
     THEN Go(r, "idle") /\ UNCHANGED <<storeVars, faults>>
     ELSE \E n \in Sizes :
            Call(r, object' = n /\ uploads' = [uploads EXCEPT ![u] = "done"],
                 UNCHANGED storeVars, "stat", "idle")
  /\ UNCHANGED <<ledger, session, link, expired, controlVars, ctl>>

(* An upload that is not found counts as aborted, a completed one as well.       *)
AbortMultipart(r) ==
  /\ requests[r].step = "unassemble"
  /\ LET u == requests[r].upload IN
     Call(r, uploads' = [uploads EXCEPT ![u] = IF @ = "open" THEN "gone" ELSE @],
          UNCHANGED uploads, "aborted", "idle")
  /\ UNCHANGED <<ledger, session, link, expired, object, controlVars, ctl>>

MarkAborted(r) ==
  /\ requests[r].step = "aborted"
  /\ Save(r, Ended("aborted", 0), "release", "idle")
  /\ UNCHANGED <<ledger, link, expired, storeVars, controlVars>>

(* The client hangs up or the replica stops: the calls that are left, those that *)
(* undo included, run under the request's context and are not made.              *)
Disconnect(r) ==
  /\ requests[r].step # "idle"
  /\ Fault /\ Go(r, "idle")
  /\ UNCHANGED <<ledger, session, link, expired, storeVars, controlVars, ctl>>

(* ------------------------ the reconciler of the Model ------------------------- *)
Live == cleanup = "none"

Reconcile(step) == ctl' = [step |-> step, found |-> 0, fresh |-> TRUE]

Running == IF link = "current" THEN "idle" ELSE "rotate"

(* Mutants of Plan: an expired session is waited for; an uploaded one is taken   *)
(* for an error.                                                                 *)
PlanForEver(s) ==
  CASE s.phase = "uploading"                   -> "list"
    [] s.phase = "uploaded" /\ s.handle # 0    -> "handle"
    [] s.phase \in {"issued", "probing", "publishing"} -> Running
    [] OTHER                                   -> "delete"
PlanUploadedError(s) ==
  CASE s.phase \in OpenPhases /\ expired      -> "expire"
    [] s.phase = "uploading"                   -> "list"
    [] s.phase = "uploaded"                    -> "status"
    [] s.phase = "publishing" /\ ~ expired     -> Running
    [] s.phase \in {"issued", "probing"}       -> Running
    [] OTHER                                   -> "delete"

Plan(s) ==
  CASE s.phase \in OpenPhases /\ expired      -> "expire"
    [] s.phase = "uploading"                   -> "list"
    [] s.phase = "uploaded" /\ s.handle # 0    -> "handle"
    [] s.phase = "publishing" /\ ~ expired     -> Running
    [] s.phase \in {"issued", "probing"}       -> Running
    [] OTHER                                   -> "delete"

(* The Secret is created, with a token that is still to be handed over.          *)
Issue ==
  /\ ctl.step = "idle" /\ Live /\ owner.phase = "waiting" /\ session.phase = "none"
  /\ session' = Issued
  /\ link' = IF link = "none" THEN "none" ELSE "stale"
  /\ Reconcile("hand")
  /\ UNCHANGED <<ledger, expired, storeVars, requests, controlVars, faults>>

(* The Secret is read; its phase decides.  The reading may be old by the time    *)
(* the reconciler acts on it.                                                    *)
Observe ==
  /\ ctl.step = "idle" /\ Live /\ owner.phase = "waiting" /\ session.phase # "none"
  /\ LET step == Plan(session) IN
     ctl' = [step |-> step, fresh |-> TRUE,
             found |-> IF step = "list" THEN session.upload
                       ELSE IF step = "handle" THEN session.handle ELSE 0]
  /\ UNCHANGED <<ledger, session, link, expired, storeVars, requests, controlVars, faults>>

(* A token nobody was handed, after a crash, is replaced by another one.         *)
RotateToken ==
  /\ ctl.step = "rotate"
  /\ Reconcile(IF ctl.fresh /\ session.phase # "none" THEN "hand" ELSE "status")
  /\ UNCHANGED <<ledger, session, link, expired, storeVars, requests, controlVars, faults>>

HandTokenOver ==
  /\ ctl.step = "hand"
  /\ link' = "current"
  /\ Reconcile("idle")
  /\ UNCHANGED <<ledger, session, expired, storeVars, requests, controlVars, faults>>

(* The update carries the version read: a conflict is an error like any other.   *)
ObserveExpiry ==
  /\ ctl.step = "expire"
  /\ IF ctl.fresh /\ session.phase # "none"
     THEN session' = Ended("expired", 0) /\ Reconcile("delete")
     ELSE Reconcile("status") /\ UNCHANGED session
  /\ UNCHANGED <<ledger, link, expired, storeVars, requests, controlVars, faults>>

(* The progress of a multipart upload is read from the store.  Listing an upload *)
(* the gateway has completed in the meantime is an error, and the end.           *)
ListParts ==
  /\ ctl.step = "list"
  /\ Reconcile(IF uploads[ctl.found] = "open" THEN Running ELSE "status")
  /\ UNCHANGED <<ledger, session, link, expired, storeVars, requests, controlVars, faults>>

Ensuring == {"expire", "list", "rotate", "hand"}

(* Any error while the session is ensured fails the Model and leaves the session. *)
EnsureFails ==
  /\ ctl.step \in Ensuring
  /\ Fault /\ Reconcile("status")
  /\ UNCHANGED <<ledger, session, link, expired, storeVars, requests, controlVars>>

Owner(phase, stage, worker) == owner' = [phase |-> phase, stage |-> stage, worker |-> worker]

(* The stage is recorded before the session hears of it.                         *)
HandOff ==
  /\ ctl.step = "handle"
  /\ Owner("publishing", ctl.found, owner.worker)
  /\ Reconcile("mark")
  /\ UNCHANGED <<ledger, session, link, expired, storeVars, requests, cleanup, faults>>

MarkPublishing ==
  /\ ctl.step = "mark"
  /\ session' = IF session.phase = "none" THEN session ELSE Publishing
  /\ Reconcile("idle")
  /\ UNCHANGED <<ledger, link, expired, storeVars, requests, controlVars, faults>>

(* A session that ended goes before the failure is written.                      *)
DeleteSession ==
  /\ ctl.step = "delete"
  /\ session' = NoSecret /\ link' = "none"
  /\ Reconcile("status")
  /\ UNCHANGED <<ledger, expired, storeVars, requests, controlVars, faults>>

WriteFailed ==
  /\ ctl.step = "status"
  /\ Owner("failed", owner.stage, owner.worker)
  /\ Reconcile("free")
  /\ UNCHANGED <<ledger, session, link, expired, storeVars, requests, cleanup, faults>>

FreeReservation ==
  /\ ctl.step = "free"
  /\ Release
  /\ Reconcile(IF owner.stage # 0 THEN "fail" ELSE "idle")
  /\ UNCHANGED <<session, link, expired, storeVars, requests, controlVars, faults>>

(* ------------------------------ the publication ------------------------------- *)
(* A worker is created, and each pass marks the session publishing.              *)
Publish ==
  /\ ctl.step = "idle" /\ Live /\ owner.phase = "publishing"
  /\ owner.worker \in {"none", "running"}
  /\ Owner("publishing", owner.stage, "running")
  /\ Reconcile("mark")
  /\ UNCHANGED <<ledger, session, link, expired, storeVars, requests, cleanup, faults>>

(* A worker that succeeds removes the stage; without the stage it fails.         *)
WorkerEnds ==
  /\ owner.worker = "running"
  /\ \/ object # 0 /\ object' = 0 /\ Owner(owner.phase, owner.stage, "succeeded")
        /\ UNCHANGED faults
     \/ object = 0 /\ UNCHANGED <<object, faults>> /\ Owner(owner.phase, owner.stage, "failed")
     \/ Fault /\ UNCHANGED object /\ Owner(owner.phase, owner.stage, "failed")
  /\ UNCHANGED <<ledger, session, link, expired, uploads, requests, ctl, cleanup>>

ObserveWorker ==
  /\ ctl.step = "idle" /\ Live /\ owner.phase = "publishing"
  /\ \/ owner.worker = "failed" /\ UNCHANGED owner
        /\ Reconcile("status")
     \/ owner.worker = "succeeded" /\ Owner("ready", owner.stage, owner.worker)
        /\ Reconcile("commit")
  /\ UNCHANGED <<ledger, session, link, expired, storeVars, requests, cleanup, faults>>

(* The artifact replaces the reservation; one that does not fit is an error, and *)
(* a Model that is Ready is not reconciled again.                                *)
CommitPublished ==
  /\ ctl.step = "commit"
  /\ \E n \in Sizes :
       IF Fits(Committed(n)) THEN Commit(n) /\ Reconcile("complete")
       ELSE UNCHANGED ledger /\ Reconcile("idle")
  /\ UNCHANGED <<session, link, expired, storeVars, requests, controlVars, faults>>

CloseSession ==
  /\ ctl.step \in {"complete", "fail"}
  /\ session' = IF session.phase = "none" THEN session
                ELSE IF ctl.step = "complete" THEN Completed ELSE PublishFailed
  /\ Reconcile("settle")
  /\ UNCHANGED <<ledger, link, expired, storeVars, requests, controlVars, faults>>

SettleReservation ==
  /\ ctl.step = "settle"
  /\ Release
  /\ Reconcile("idle")
  /\ UNCHANGED <<session, link, expired, storeVars, requests, controlVars, faults>>

(* A failed call or a crash: a Model that is not terminal is reconciled again.   *)
ReconcileFails ==
  /\ ctl.step \notin Ensuring \cup {"idle"}
  /\ Fault /\ Reconcile("idle")
  /\ UNCHANGED <<ledger, session, link, expired, storeVars, requests, controlVars>>

(* -------------------------------- the deletion -------------------------------- *)
(* A recorded stage is removed, then the session, then what the ledger holds.    *)
Delete ==
  /\ cleanup = "none"
  /\ cleanup' = IF owner.stage # 0 THEN "clean" ELSE "session"
  /\ UNCHANGED <<ledger, session, link, expired, storeVars, requests, owner, ctl, faults>>

CleanStage ==
  /\ cleanup = "clean" /\ cleanup' = "session"
  /\ object' = 0
  /\ UNCHANGED <<ledger, session, link, expired, uploads, requests, owner, ctl, faults>>

DropSession ==
  /\ cleanup = "session" /\ cleanup' = "credit"
  /\ WriteSecret(NoSecret) /\ link' = "none"
  /\ UNCHANGED <<ledger, expired, storeVars, requests, owner, faults>>

CreditLedger ==
  /\ cleanup = "credit" /\ cleanup' = "done"
  /\ Credit
  /\ UNCHANGED <<session, link, expired, storeVars, requests, owner, ctl, faults>>

(* --------------------------------- the rest ----------------------------------- *)
ExpiryPasses ==
  /\ ~ expired /\ session.phase # "none" /\ expired' = TRUE
  /\ UNCHANGED <<ledger, session, link, storeVars, requests, controlVars, ctl, faults>>

OthersUseLedger ==
  /\ OthersMove
  /\ UNCHANGED <<session, link, expired, storeVars, requests, controlVars, ctl, faults>>

Serve(r) ==
  \/ Expire(r) \/ Lock(r) \/ ReserveUpload(r) \/ SaveProbe(r) \/ StoreObject(r) \/ Stat(r)
  \/ MarkUploaded(r) \/ Discard(r) \/ MarkFailed(r) \/ ReleaseUpload(r)
  \/ StartMultipart(r) \/ SaveMultipart(r) \/ AbortStarted(r) \/ SyncParts(r)
  \/ CompleteMultipart(r) \/ AbortMultipart(r) \/ MarkAborted(r)

Controller ==
  \/ Issue \/ Observe \/ RotateToken \/ HandTokenOver \/ ObserveExpiry \/ ListParts \/ HandOff \/ MarkPublishing \/ DeleteSession
  \/ WriteFailed \/ FreeReservation \/ Publish \/ ObserveWorker \/ CommitPublished
  \/ CloseSession \/ SettleReservation

Next ==
  \/ \E r \in Requests : Arrive(r) \/ Serve(r) \/ Disconnect(r)
  \/ Controller \/ EnsureFails \/ ReconcileFails \/ WorkerEnds
  \/ Delete \/ CleanStage \/ DropSession \/ CreditLedger
  \/ ExpiryPasses \/ OthersUseLedger

(* The reconciler polls every second, time passes and a worker ends; nothing is  *)
(* assumed of clients, of faults or of the other owners.                         *)
Fairness == WF_vars(Controller) /\ WF_vars(WorkerEnds) /\ WF_vars(ExpiryPasses)

Spec == Init /\ [][Next]_vars /\ Fairness

(* -------------------------------- properties ---------------------------------- *)
NoRequest == \A r \in Requests : requests[r].step = "idle"

(* What the Model was told is staged is there, byte for byte, until its worker   *)
(* is done with it: no retried, late or expiring request touches it.             *)
HandOffIsWhole ==
  Live /\ owner.phase = "publishing" /\ owner.worker \in {"none", "running"}
    => object = owner.stage

(* A reservation never outlives its upload: with the session over, the Model     *)
(* settled or deleted and no request under way, nothing is reserved.  A Model    *)
(* that became Ready without room for its artifact keeps the reservation.        *)
Settled ==
  /\ ctl.step = "idle" /\ NoRequest
  /\ session.phase \in EndedPhases \cup {"none"}
  /\ \/ cleanup = "done"
     \/ Live /\ owner.phase = "failed"
     \/ Live /\ owner.phase = "ready" /\ ledger.published # 0
ReservationEnds == Settled /\ faults = 0 => ledger.upload = 0

(* A payload accepted in one request, in time and without a failed call, is      *)
(* never answered with a failed Model.  A multipart upload may be: its parts     *)
(* cannot be listed once it is completed.                                        *)
AcceptedIsKept ==
  session.phase = "uploaded" /\ session.upload = 0 /\ ~ expired /\ faults = 0 /\ Live
    => owner.phase # "failed"

(* Whatever clients and replicas do, the Model does not wait for ever: it is     *)
(* published, fails or is deleted.                                               *)
Concludes == <>(owner.phase \in {"ready", "failed"} \/ cleanup # "none")
=========================================================================================
