----------------------------- MODULE LayerUpload -----------------------------
(***************************************************************************)
(* The publish worker's way through the layers of one artifact: it opens an *)
(* upload session for a layer or resumes the one its checkpoint names, sends *)
(* part after part, seals the layer, and writes config and manifest when all *)
(* layers are there. The checkpoint is a Secret; the worker may be          *)
(* interrupted between any two steps and goes on from it. What the layers    *)
(* are made of and how they are read is the source's business (PublishWorker, *)
(* LayerRange).                                                             *)
(*                                                                         *)
(* controller/internal/adapters/modelpack/oci (the publishing half),        *)
(* adapters/k8s/directuploadstate, cmd/ai-models-artifact-runtime.          *)
(***************************************************************************)
EXTENDS LayerRange, FiniteSetsExt

CONSTANTS
  Attempts,          \* recoveries of one part without progress
  MaxListed,         \* parts in one answer of the store
  MaxFaults,         \* answers of helper, store or API server that go wrong
  MaxTerminations,   \* terminations of the worker by a signal
  MaxKills           \* losses of the worker without one

ASSUME UploadAssumption ==
  /\ Attempts \in Nat /\ MaxListed \in Nat \ {0}
  /\ MaxFaults \in Nat /\ MaxTerminations \in Nat /\ MaxKills \in Nat

VARIABLES
  secret,    \* the checkpoint
  memory,    \* the worker's copy of it
  pc,        \* where the worker is
  source,    \* the layers of its source, of contents part by part; raw or described
  layer,     \* the number of the layer it works on
  current,   \* its session: what was sent, and the contents its digest covers
  recoveries,
  session,   \* by a layer's key, the session opened last: its state and stored parts
  sealed,    \* by a layer's key, the blob sealed last: its contents and its digest's
  manifest,  \* by a layer's key, the blobs the manifest names
  budget     \* what is left of the bounds

upload == <<layer, current, recoveries>>
registry == <<session, sealed, manifest>>
uploadVars == <<secret, memory, pc, source, upload, registry, budget>>

Planned == DOMAIN source

(* What the checkpoint knows a layer by is its path and its media type.      *)
DirectUploadLayerKey(l) == [path |-> l.path, kind |-> l.kind]
KeysOf(layers) == {DirectUploadLayerKey(layers[l]) : l \in DOMAIN layers}
Key(l) == DirectUploadLayerKey(source[l])
NoKey == [path |-> "", kind |-> "none"]
Put(f, k, v) == [x \in DOMAIN f \cup {k} |-> IF x = k THEN v ELSE f[x]]

Size(l) == Len(source[l].data)
Raw(l) == source[l].kind = "raw"
Nothing == [layer |-> NoKey, total |-> 0, sent |-> 0, hashed |-> <<>>]
NoPlan == [layers |-> 0, size |-> 0]
PlanOf(layers) == [layers |-> Len(layers), size |-> TotalSize(layers)]
Plan == PlanOf(source)

UploadInit ==
  /\ secret = [phase |-> "Idle", plan |-> NoPlan, completed |-> <<>>, current |-> Nothing]
  /\ memory = secret
  /\ layer = 0 /\ current = Nothing /\ recoveries = 0
  /\ session = <<>>
  /\ sealed = <<>>
  /\ manifest = <<>>
  /\ budget = [faults |-> MaxFaults, terminations |-> MaxTerminations, kills |-> MaxKills]

-----------------------------------------------------------------------------
(* The checkpoint's Secret. *)

SizeOf(completed) == MapThenSumSet(LAMBDA k : Len(completed[k]), DOMAIN completed)

(* A current layer is kept only of a running upload with layers left.       *)
NormalizeState(s) ==
  IF \/ s.phase # "Running"
     \/ s.plan # NoPlan /\ s.plan = [layers |-> Cardinality(DOMAIN s.completed), size |-> SizeOf(s.completed)]
  THEN [s EXCEPT !.current = Nothing]
  ELSE s

(* More than the plan cannot have been uploaded.                            *)
ValidateProgressPlan(s) == s.plan # NoPlan =>
  /\ Cardinality(DOMAIN s.completed) <= s.plan.layers
  /\ SizeOf(s.completed) + s.current.sent <= s.plan.size

Fault == budget.faults > 0 /\ budget' = [budget EXCEPT !.faults = @ - 1]

(* A transient failure of the helper is asked again, for a while.            *)
Retried == Fault /\ pc' \in {pc, "fail"}

(* The state is normalised, validated and written; the worker's copy keeps  *)
(* what it was given.                                                       *)
Save(s, next, onError) == LET n == NormalizeState(s) IN
  /\ memory' = s
  /\ \/ /\ IF ValidateProgressPlan(n)
           THEN secret' = n /\ pc' = next
           ELSE UNCHANGED secret /\ pc' = onError
        /\ UNCHANGED budget
     \/ /\ Fault /\ ValidateProgressPlan(n)
        /\ secret' \in {secret, n} /\ pc' = onError

Running(c) == [memory EXCEPT !.phase = "Running", !.current = c]

(* No two layers may have one path, a file of a pack being apart from it.    *)
PlanPublishLayers == Planned # {} /\ \A l, m \in Planned : Key(l) = Key(m) => l = m

LoadCheckpoint ==
  /\ pc = "load"
  /\ memory' = secret
  /\ \/ pc' = (IF PlanPublishLayers THEN "plan" ELSE "fail") /\ UNCHANGED budget
     \/ pc' = "fail" /\ Fault
  /\ UNCHANGED <<secret, upload, registry>>

(* The plan of the first worker binds all later ones: number and size.       *)
EnsureProgressPlan ==
  /\ pc = "plan"
  /\ IF memory.plan = NoPlan
     THEN Save([memory EXCEPT !.plan = Plan], "next", "fail")
     ELSE /\ pc' = IF memory.plan = Plan THEN "next" ELSE "fail"
          /\ UNCHANGED <<secret, memory, budget>>
  /\ UNCHANGED <<upload, registry>>

-----------------------------------------------------------------------------
(* One layer after another. *)

Completed(l) == ~Raw(l) /\ Key(l) \in DOMAIN memory.completed
Skips(l) == Completed(l) /\ memory.completed[Key(l)] = source[l].data
Conflicts(l) == Completed(l) /\ memory.completed[Key(l)] # source[l].data

\* Mutant: a checkpoint with all layers stands for a published artifact.
UploadPublishLayerOrFinish ==
  /\ pc = "next"
  /\ IF DOMAIN memory.completed = KeysOf(source)
     THEN pc' = "published" /\ UNCHANGED layer
     ELSE layer' = layer + 1 /\ pc' = IF Skips(layer') THEN "next" ELSE "open"
  /\ current' = Nothing /\ recoveries' = 0
  /\ UNCHANGED <<secret, memory, registry, budget>>

(* A described layer that is completed is not sent again, and has to have    *)
(* the digest it was completed with; a raw one is always sent.               *)
UploadPublishLayer ==
  /\ pc = "next"
  /\ \/ layer + 1 \notin Planned /\ pc' = "config" /\ UNCHANGED layer
     \/ /\ layer + 1 \in Planned /\ layer' = layer + 1
        /\ pc' = CASE Skips(layer') -> "next" [] Conflicts(layer') -> "fail" [] OTHER -> "open"
  /\ current' = Nothing /\ recoveries' = 0
  /\ UNCHANGED <<secret, memory, registry, budget>>

(* The digest state of a raw layer is written with the parts it covers.     *)
Hashed(h, from, to) ==
  IF Raw(layer) THEN h \o OpenPublishLayerRange(source[layer], from, to - from) ELSE h

(* The helper asks the store once for the parts of a session and takes one    *)
(* answer for all of them; the next part is the one behind those.             *)
Open(l) == Key(l) \in DOMAIN session /\ session[Key(l)].state = "open"
Listed(l) == Smaller(MaxListed, Len(session[Key(l)].data))

Resumes == memory.phase = "Running" /\ memory.current.layer = Key(layer)

\* Mutant: the parts stored after the last checkpoint are not hashed again.
ResumeSessionUnhashed ==
  /\ pc = "open" /\ Resumes /\ Open(layer)
  /\ current' = [memory.current EXCEPT !.sent = Listed(layer)]
  /\ Save(Running(current'), "parts", "fail")
  /\ UNCHANGED <<layer, recoveries, registry>>

\* Mutant: the list of a session that is gone is asked for again and again.
ResumeSessionPatiently ==
  /\ pc = "open" /\ Resumes
  /\ LET c == memory.current  stored == Listed(layer) IN
       IF Open(layer)
       THEN /\ current' = [c EXCEPT !.sent = stored, !.hashed = Hashed(@, c.sent, stored)]
            /\ Save(Running(current'), "parts", "fail")
       ELSE UNCHANGED <<pc, secret, memory, current, budget>>
  /\ UNCHANGED <<layer, recoveries, registry>>

(* The helper lists the parts of the session the checkpoint names; a session *)
(* that is no longer there is an error whatever became of it (400 or 500: the *)
(* restart after a 404 has no helper that answers so). What was stored behind *)
(* the checkpoint is hashed as the source reads now.                         *)
ResumeSession ==
  /\ pc = "open" /\ Resumes
  /\ LET c == memory.current
         stored == Listed(layer)
         sound == Open(layer) /\ stored >= c.sent IN
       \/ /\ c.total = Size(layer) /\ sound
          /\ current' = [c EXCEPT !.sent = stored, !.hashed = Hashed(@, c.sent, stored)]
          /\ Save(Running(current'), "parts", "fail")
       \/ /\ c.total # Size(layer) \/ ~sound
          /\ pc' = "fail" /\ UNCHANGED <<secret, memory, current, budget>>
       \/ c.total = Size(layer) /\ Retried /\ UNCHANGED <<secret, memory, current>>
  /\ UNCHANGED <<layer, recoveries, registry>>

StartSession ==
  /\ pc = "open" /\ ~Resumes
  /\ \/ /\ session' = Put(session, Key(layer), [state |-> "open", data |-> <<>>])
        /\ current' = [layer |-> Key(layer), total |-> Size(layer), sent |-> 0, hashed |-> <<>>]
        /\ Save(Running(current'), "parts", "fail")
     \/ Retried /\ UNCHANGED <<secret, memory, session, current>>
  /\ UNCHANGED <<layer, recoveries, sealed, manifest>>

Sent(n) == [current EXCEPT !.sent = n, !.hashed = Hashed(@, current.sent, n)]

(* A part is presigned and put; what fails may have been stored.            *)
UploadPart ==
  /\ pc = "parts" /\ current.sent < Size(layer)
  /\ LET n == current.sent + 1
         open == Open(layer)
         part == OpenPublishLayerRange(source[layer], current.sent, 1)
         stored == [session EXCEPT ![Key(layer)].data = SubSeq(@, 1, current.sent) \o part] IN
       \/ /\ open /\ session' = stored
          /\ current' = Sent(n) /\ recoveries' = 0
          /\ pc' = "savePart" /\ UNCHANGED budget
       \/ /\ IF open THEN Fault /\ session' \in {session, stored} ELSE UNCHANGED <<session, budget>>
          /\ pc' = "recover" /\ UNCHANGED <<current, recoveries>>
  /\ UNCHANGED <<secret, memory, layer, sealed, manifest>>

Recovered == recoveries' = 0 /\ pc' = "savePart"
Retry(next) == /\ recoveries' = recoveries + 1
               /\ pc' = IF recoveries' > Attempts THEN "abort" ELSE next

(* After a failed part the helper's list decides where to go on: a raw layer *)
(* can be one part further or where it was, a described one anywhere, also   *)
(* behind what was sent when there are more parts than one answer holds.     *)
RecoverRawDirectBlobPart ==
  /\ pc = "recover" /\ Raw(layer) /\ Open(layer)
  /\ CASE Listed(layer) = current.sent + 1 -> current' = Sent(Listed(layer)) /\ Recovered
       [] Listed(layer) = current.sent -> UNCHANGED current /\ Retry("parts")
       [] OTHER -> pc' = "abort" /\ UNCHANGED <<current, recoveries>>
  /\ UNCHANGED <<secret, memory, layer, registry, budget>>

RecoverDirectBlobUpload ==
  /\ pc = "recover" /\ ~Raw(layer) /\ Open(layer)
  /\ current' = Sent(Listed(layer))
  /\ IF Listed(layer) > current.sent THEN Recovered ELSE Retry("savePart")
  /\ UNCHANGED <<secret, memory, layer, registry, budget>>

(* There is no list, of this session or at all.                              *)
RecoveryFails ==
  /\ pc = "recover"
  /\ IF Open(layer) THEN Fault ELSE UNCHANGED budget
  /\ pc' = "abort"
  /\ UNCHANGED <<secret, memory, upload, registry>>

SaveRunningLayer ==
  /\ pc = "savePart"
  /\ Save(Running(current), "parts", "abort")
  /\ UNCHANGED <<upload, registry>>

MarkSealing ==
  /\ pc = "parts" /\ current.sent = Size(layer)
  /\ Save(Running(current), "complete", "fail")
  /\ UNCHANGED <<upload, registry>>

(* Of a described layer the digest is the source's, of a raw one what was     *)
(* hashed while it was sent.                                                  *)
Declared == IF Raw(layer) THEN current.hashed ELSE source[layer].data

(* The helper assembles the parts, or finds that it has done so before; the *)
(* digest is the declared one. A lost answer is asked for again.            *)
CompleteDirectUpload ==
  /\ pc = "complete"
  /\ LET k == Key(layer)
         done == /\ session[k].state \in {"open", "done"}
                 /\ session' = [session EXCEPT ![k].state = "done"]
                 /\ sealed' = Put(sealed, k, [data |-> session[k].data, digest |-> Declared]) IN
       \/ done /\ pc' = "completed" /\ UNCHANGED budget
       \/ session[k].state = "expired" /\ pc' = "fail" /\ UNCHANGED <<session, sealed, budget>>
       \/ Retried /\ (done \/ UNCHANGED <<session, sealed>>)
  /\ UNCHANGED <<secret, memory, upload, manifest>>

(* A layer that was completed before is replaced in its place.                *)
MarkLayerCompleted ==
  /\ pc = "completed"
  /\ Save([Running(Nothing) EXCEPT !.completed = Put(@, Key(layer), Declared)], "next", "fail")
  /\ UNCHANGED <<upload, registry>>

-----------------------------------------------------------------------------
(* Config, manifest and the end. *)

UploadPublishConfig ==
  /\ pc = "config"
  /\ \/ pc' = "manifest" /\ UNCHANGED budget
     \/ pc' = "fail" /\ Fault
  /\ UNCHANGED <<secret, memory, upload, registry>>

(* The registry refuses a manifest with a blob it does not have.            *)
PublishManifest ==
  /\ pc = "manifest"
  /\ LET accepted == KeysOf(source) \subseteq DOMAIN sealed
         named == [k \in KeysOf(source) |-> sealed[k]] IN
       \/ IF accepted
          THEN manifest' = named /\ pc' = "inspect" /\ UNCHANGED budget
          ELSE pc' = "fail" /\ UNCHANGED <<manifest, budget>>
       \/ Fault /\ pc' = "fail" /\ manifest' \in {manifest} \cup {m \in {named} : accepted}
  /\ UNCHANGED <<secret, memory, upload, session, sealed>>

InspectPublishedModelPack ==
  /\ pc = "inspect"
  /\ \/ pc' = "published" /\ UNCHANGED budget
     \/ pc' = "fail" /\ Fault
  /\ UNCHANGED <<secret, memory, upload, registry>>

(* A Pod that ended without a result is created again while its checkpoint  *)
(* says Running.                                                            *)
Exit == pc' = IF secret.phase = "Running" THEN "down" ELSE "lost"

PersistDirectUploadTerminalState ==
  /\ pc \in {"finish", "fail"}
  /\ \/ /\ secret' = NormalizeState([secret EXCEPT !.phase = IF pc = "finish" THEN "Completed" ELSE "Failed"])
        /\ pc' = IF pc = "finish" THEN "done" ELSE "failed"
        /\ UNCHANGED budget
     \/ Fault /\ Exit /\ UNCHANGED secret
  /\ UNCHANGED <<memory, upload, registry>>

(* A worker that fails before it has asked for the completion aborts.       *)
AbortSession ==
  /\ pc = "abort"
  /\ \/ session' = [session EXCEPT ![Key(layer)].state = IF @ = "open" THEN "aborted" ELSE @] /\ UNCHANGED budget
     \/ Fault /\ UNCHANGED session
  /\ pc' = "fail"
  /\ UNCHANGED <<secret, memory, upload, sealed, manifest>>

Ended == {"down", "lost", "done", "failed"}

(* A worker that is terminated says so, and is created again in any case.   *)
Terminate ==
  /\ pc \notin Ended /\ budget.terminations > 0
  /\ budget' = [budget EXCEPT !.terminations = @ - 1]
  /\ pc' = "down"
  /\ UNCHANGED <<secret, memory, upload, registry>>

Kill ==
  /\ pc \notin Ended /\ budget.kills > 0
  /\ budget' = [budget EXCEPT !.kills = @ - 1]
  /\ Exit
  /\ UNCHANGED <<secret, memory, upload, registry>>

(* A session's token outlives it by no means.                               *)
SessionExpires(k) ==
  /\ session[k].state = "open" /\ Fault
  /\ session' = [session EXCEPT ![k].state = "expired"]
  /\ UNCHANGED <<secret, memory, pc, upload, sealed, manifest>>

UploadStep ==
  \/ LoadCheckpoint \/ EnsureProgressPlan \/ UploadPublishLayer
  \/ ResumeSession \/ StartSession \/ UploadPart
  \/ RecoverRawDirectBlobPart \/ RecoverDirectBlobUpload \/ RecoveryFails \/ SaveRunningLayer
  \/ MarkSealing \/ CompleteDirectUpload \/ MarkLayerCompleted
  \/ UploadPublishConfig \/ PublishManifest \/ InspectPublishedModelPack
  \/ PersistDirectUploadTerminalState \/ AbortSession

Interruption == Terminate \/ Kill \/ \E k \in DOMAIN session : SessionExpires(k)

-----------------------------------------------------------------------------
Contents == Seq(STRING)
Archives == {"raw", "packed", "repacked"}
LayerPaths == STRING \cup {MaterializedModelPathName}
Keys == [path : LayerPaths, kind : Archives]
LayersOfSource == [kind : Archives, path : LayerPaths, data : Contents, segments : Seq(Contents)]
Currents == [layer : Keys \cup {NoKey}, total : Nat, sent : Nat, hashed : Contents]
Sessions == [state : {"open", "done", "aborted", "expired"}, data : Contents]
Blobs == [data : Contents, digest : Contents]

ByKey(f, S) == DOMAIN f \subseteq Keys /\ f \in [DOMAIN f -> S]

IsCheckpoint(s) ==
  /\ s \in [phase : {"Idle", "Running", "Completed", "Failed"}, plan : [layers : Nat, size : Nat],
             completed : {s.completed}, current : Currents]
  /\ ByKey(s.completed, Contents)

UploadTypeOK ==
  /\ IsCheckpoint(secret) /\ IsCheckpoint(memory)
  /\ source \in Seq(LayersOfSource)
  /\ layer \in 0 .. Len(source) /\ current \in Currents /\ recoveries \in 0 .. Attempts + 1
  /\ ByKey(session, Sessions) /\ ByKey(sealed, Blobs) /\ ByKey(manifest, Blobs)
  /\ budget \in [faults : 0 .. MaxFaults, terminations : 0 .. MaxTerminations, kills : 0 .. MaxKills]

(* Whatever was interrupted and resumed, the digest a blob is stored under    *)
(* covers what was stored, each part once.                                    *)
DigestCoversLayer == \A k \in DOMAIN sealed : sealed[k].data = sealed[k].digest

(* The checkpoint is never ahead of the store: what it says was sent is     *)
(* there while the session is, and a completed layer is sealed.             *)
SentIsStored == LET c == secret.current IN
  c.layer \in DOMAIN session /\ session[c.layer].state = "open" => c.sent <= Len(session[c.layer].data)
CompletedIsSealed == DOMAIN secret.completed \subseteq DOMAIN sealed

CheckpointBehindStore == SentIsStored /\ CompletedIsSealed

=============================================================================
