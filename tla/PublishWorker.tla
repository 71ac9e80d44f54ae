---------------------------- MODULE PublishWorker ----------------------------
(***************************************************************************)
(* The publication worker from its source to the artifact: it resolves the  *)
(* source and selects the files that make a model, reserves storage, copies  *)
(* a remote source into the mirror first if it is told to, cuts the files    *)
(* into layers, uploads them (LayerUpload) and, if the source was an upload, *)
(* deletes what was staged. A worker that is created again starts over, from *)
(* what the source is by then, and goes on from mirror and checkpoint.       *)
(*                                                                         *)
(* controller/internal/dataplane/publishworker, adapters/sourcefetch,       *)
(* ports/sourcemirror, adapters/sourcemirror.                               *)
(***************************************************************************)
EXTENDS LayerUpload, ArchiveSource, OllamaSource

CONSTANTS
  Scenarios,         \* publications: kind of source, mode, format and the source's revisions
  MaxBundleFile,     \* parts of a file that is packed with others
  MaxBundle          \* parts of the files that are packed

(* Files, entries of an archive or descriptors of an Ollama manifest.        *)
Files == [root : Roots, path : STRING, kind : Kinds \cup {"link"} \cup OllamaKinds, data : Contents]

ASSUME ScenarioAssumption ==
  /\ Scenarios \subseteq [kind : {"huggingface", "ollama", "file", "archive"}, mirror : BOOLEAN,
                          requested : Formats \cup {"auto"}, revisions : Seq(Seq(Files))]
  /\ \A s \in Scenarios : s.revisions # <<>> /\ (s.kind \in {"file", "archive"} => Len(s.revisions) = 1 /\ ~s.mirror)
  /\ \A s \in Scenarios : s.kind = "huggingface" => \A r \in DOMAIN s.revisions :
       \A i, j \in DOMAIN s.revisions[r] : s.revisions[r][i].path = s.revisions[r][j].path => i = j
  /\ MaxBundleFile \in Nat /\ MaxBundle \in Nat

VARIABLES
  scenario,
  resolved,  \* the revision this worker found, or the last one did
  selected,  \* the files of it that make the model
  file,      \* the file it copies
  mirror,    \* of each snapshot and path: its object, and the upload the state names
  staged,    \* the staged upload is there
  reserved   \* in the ledger for this publication

fetching == <<scenario, resolved, selected, file, mirror, staged, reserved>>
vars == <<uploadVars, fetching>>

Remote(s) == s.kind \in {"huggingface", "ollama"}

-----------------------------------------------------------------------------
(* From files to layers. *)

LooksLikeLargeModelPayload == {"safetensors", "gguf", "componentBin"}

ShouldBundle(f, bundledBytes) ==
  /\ f.data # <<>> /\ f.kind \notin LooksLikeLargeModelPayload
  /\ Len(f.data) <= MaxBundleFile /\ bundledBytes + Len(f.data) <= MaxBundle

(* The small files of a model are packed, every other one is a layer.        *)
Partition(files) ==
  LET bytes[i \in 0 .. Len(files)] ==
        IF i = 0 THEN 0
        ELSE bytes[i - 1] + (IF ShouldBundle(files[i], bytes[i - 1]) THEN Len(files[i].data) ELSE 0) IN
    {files[i] : i \in {j \in DOMAIN files : ShouldBundle(files[j], bytes[j - 1])}}

Data(files) == [i \in DOMAIN files |-> files[i].data]
RawLayers(files) == [i \in DOMAIN files |-> RawLayer(files[i].path, files[i].data)]

BuildObjectSourcePublishLayers(files) ==
  IF Len(files) = 1
  THEN RawLayers(files)
  ELSE LET bundled == Partition(files)
           packed == Among(files, bundled) IN
         (IF packed = <<>> THEN <<>> ELSE <<PackedLayer(Data(packed))>>)
           \o RawLayers(Among(files, Range(files) \ bundled))

(* What is selected of an archive is packed again, into one layer.           *)
PublishUploadArchive(entries, files) ==
  LET written == WriteLayerArchiveFromArchiveSource(entries, files) IN
    <<RepackedLayer(Data(written))>>

LayersFor(s, r, files) ==
  IF s.kind = "archive" THEN PublishUploadArchive(s.revisions[r], files) ELSE BuildObjectSourcePublishLayers(files)

-----------------------------------------------------------------------------
(* Which files are published; none if the source makes no model.             *)

(* A Hugging Face model has weights, and every file a size.                  *)
FetchHuggingFaceProfileSummary(format, files) ==
  \E f \in Range(files) : f.kind \in RulesForFormat[format].asset /\ f.data # <<>>

DescribeHuggingFaceRemoteFiles(files) == \A f \in Range(files) : f.data # <<>>

HuggingFaceSelection(files, requested) ==
  LET selection[format \in Resolvable] == LET kept == SelectRemoteFiles(format, files) IN
        IF kept # <<>> /\ FetchHuggingFaceProfileSummary(format, kept) /\ DescribeHuggingFaceRemoteFiles(kept)
        THEN kept
        ELSE <<>> IN
    selection[ResolveRemoteFormat(files, requested)]

(* An upload that is no archive has to be one GGUF file, whatever its name,    *)
(* and be asked for as one, if as anything.                                  *)
ResolveDirectUploadStage(files, requested) ==
  IF requested \in {"auto", "gguf"} /\ files[1].kind = "gguf" /\ files[1].data # <<>> THEN files ELSE <<>>

SelectedFiles(s, r) == LET files == s.revisions[r] IN
  CASE s.kind = "huggingface" -> HuggingFaceSelection(files, s.requested)
    [] s.kind = "ollama" -> FetchOllamaModel(files)
    [] s.kind = "archive" -> InspectModelArchive(files, s.requested)
    [] s.kind = "file" -> ResolveDirectUploadStage(files, s.requested)

Layered(s, r) == LayersFor(s, r, SelectedFiles(s, r))

-----------------------------------------------------------------------------
(* The mirror: a snapshot of a Hugging Face repository is of one commit, one *)
(* of an Ollama model is of its tag.                                         *)

Locator(s, r) == IF s.kind = "ollama" THEN 1 ELSE r
NoFile == [object |-> <<>>, upload |-> "none", parts |-> <<>>]

Located(s, l) == {r \in DOMAIN s.revisions : Locator(s, r) = l}
Paths(s, l) == UNION {{f.path : f \in Range(s.revisions[r])} : r \in Located(s, l)}

Snapshot == mirror[Locator(scenario, resolved)]
Entry == Snapshot[selected[file].path]
Update(entry) == mirror' = [mirror EXCEPT ![Locator(scenario, resolved)][selected[file].path] = entry]

Mirrored == [i \in DOMAIN selected |-> [selected[i] EXCEPT !.data = Snapshot[selected[i].path].object]]

Init ==
  /\ scenario \in Scenarios
  /\ resolved = 1 /\ selected = <<>> /\ file = 1
  /\ mirror = [l \in {Locator(scenario, r) : r \in DOMAIN scenario.revisions} |->
                 [p \in Paths(scenario, l) |-> NoFile]]
  /\ staged = ~Remote(scenario) /\ reserved = 0
  /\ pc = "fetch" /\ source = <<>>
  /\ UploadInit

-----------------------------------------------------------------------------
(* The source is resolved, and room for it reserved. *)

StartUpload(files) ==
  IF files = <<>> THEN pc' = "fail" /\ UNCHANGED source ELSE pc' = "load" /\ source' = LayersFor(scenario, resolved, files)

(* Metadata, selection, profile and sizes of a remote source: a branch or    *)
(* a tag may have moved since it was resolved last.                          *)
ResolveSource ==
  /\ pc = "fetch" /\ Remote(scenario)
  /\ \/ /\ resolved' \in resolved .. Len(scenario.revisions)
        /\ selected' = SelectedFiles(scenario, resolved')
        /\ pc' = IF selected' = <<>> THEN "fail" ELSE "reserve"
        /\ UNCHANGED budget
     \/ Fault /\ pc' = "fail" /\ UNCHANGED <<resolved, selected>>
  /\ file' = 1
  /\ UNCHANGED <<secret, memory, upload, registry, source, scenario, mirror, staged, reserved>>

(* A staged upload is inspected where it is; its room was reserved before.   *)
InspectUpload ==
  /\ pc = "fetch" /\ ~Remote(scenario)
  /\ \/ /\ selected' = IF staged THEN SelectedFiles(scenario, resolved) ELSE <<>>
        /\ StartUpload(selected')
        /\ UNCHANGED budget
     \/ Fault /\ pc' = "fail" /\ UNCHANGED <<source, selected>>
  /\ UNCHANGED <<secret, memory, upload, registry, scenario, resolved, file, mirror, staged, reserved>>

(* A Hugging Face publication reserves the copy in the mirror, too, an Ollama *)
(* one does not.                                                             *)
HuggingFaceStorageReservationBytes == (IF scenario.mirror THEN 2 ELSE 1) * TotalSize(selected)
ReserveOllamaStorage == TotalSize(selected)

ReservationBytes ==
  IF scenario.kind = "huggingface" THEN HuggingFaceStorageReservationBytes ELSE ReserveOllamaStorage

ReserveRemoteStorage ==
  /\ pc = "reserve"
  /\ \/ /\ reserved' = ReservationBytes
        /\ IF scenario.mirror THEN pc' = "mirror" /\ UNCHANGED source ELSE StartUpload(selected)
        /\ UNCHANGED budget
     \/ /\ Fault /\ reserved' \in {reserved, ReservationBytes}
        /\ pc' = "fail" /\ UNCHANGED source
  /\ UNCHANGED <<secret, memory, upload, registry, scenario, resolved, selected, file, mirror, staged>>

-----------------------------------------------------------------------------
(* The copy into the mirror. *)

unfetched == <<secret, memory, upload, registry, scenario, resolved, selected, staged, reserved>>

(* The snapshot's manifest is written and its state loaded.                  *)
PrepareSourceMirror ==
  /\ pc = "mirror"
  /\ \/ pc' = "file" /\ UNCHANGED budget
     \/ pc' \in {"fail", "mirrorFail"} /\ Fault
  /\ UNCHANGED <<unfetched, source, file, mirror>>

Copied == [Entry EXCEPT !.upload = "gone", !.parts = <<>>]

(* An object that is there is the file, of whichever size.                   *)
StatFile ==
  /\ pc = "file" /\ file <= Len(selected)
  /\ LET there == Entry.object # <<>> IN
       \/ /\ there /\ Update(Copied) /\ file' = file + 1
          /\ pc' = "file" /\ UNCHANGED budget
       \/ /\ there /\ Fault
          /\ \/ Update(Copied) /\ pc' = "mirrorFail"
             \/ pc' \in {"upload", "mirrorFail"} /\ UNCHANGED mirror
          /\ UNCHANGED file
       \/ /\ ~there /\ pc' = "upload" /\ UNCHANGED <<mirror, file, budget>>
  /\ UNCHANGED <<unfetched, source>>

(* A copy goes on where the recorded upload ends. From an upload that has all *)
(* parts nothing is left to be read, and an upload that is gone has no list.  *)
EnsureUpload ==
  /\ pc = "upload"
  /\ LET started == [Entry EXCEPT !.upload = "open", !.parts = <<>>] IN
       \/ /\ Entry.upload = "none" /\ Update(started)
          /\ pc' = "download" /\ UNCHANGED budget
       \/ /\ Entry.upload = "open" /\ Len(Entry.parts) < Len(selected[file].data)
          /\ pc' = "download" /\ UNCHANGED <<mirror, budget>>
       \/ /\ \/ Entry.upload = "gone"
             \/ Entry.upload = "open" /\ Len(Entry.parts) >= Len(selected[file].data)
          /\ pc' = "mirrorFail" /\ UNCHANGED <<mirror, budget>>
       \/ /\ Fault /\ (UNCHANGED mirror \/ (Entry.upload = "none" /\ Update(started)))
          /\ pc' = "mirrorFail"
  /\ UNCHANGED <<unfetched, source, file>>

(* One part after the other of one response is put into the upload; what     *)
(* fails is not asked for again.                                              *)
DownloadPart ==
  /\ pc = "download"
  /\ LET n == Len(Entry.parts) + 1
         more == [Entry EXCEPT !.parts = Append(@, selected[file].data[n])] IN
       \/ /\ Update(more) /\ UNCHANGED budget
          /\ pc' = IF n = Len(selected[file].data) THEN "assemble" ELSE "download"
       \/ /\ Fault /\ (UNCHANGED mirror \/ Update(more))
          /\ pc' = "mirrorFail"
  /\ UNCHANGED <<unfetched, source, file>>

CompleteMultipartUpload ==
  /\ pc = "assemble"
  /\ LET assembled == [Copied EXCEPT !.object = Entry.parts] IN
       \/ /\ Update(assembled) /\ file' = file + 1
          /\ pc' = "file" /\ UNCHANGED budget
       \/ /\ Fault /\ (UNCHANGED mirror \/ Update(assembled))
          /\ pc' = "mirrorFail" /\ UNCHANGED file
  /\ UNCHANGED <<unfetched, source>>

MirrorFile == StatFile \/ EnsureUpload \/ DownloadPart \/ CompleteMultipartUpload

(* The layers are read from the mirror's objects.                            *)
MirrorPublishFiles ==
  /\ pc = "file" /\ file > Len(selected)
  /\ \/ pc' = "load" /\ source' = BuildObjectSourcePublishLayers(Mirrored) /\ UNCHANGED budget
     \/ pc' \in {"fail", "mirrorFail"} /\ Fault /\ UNCHANGED source
  /\ UNCHANGED <<unfetched, file, mirror>>

(* A failed copy is recorded as a state without any upload to go on with.    *)
FailedSnapshot(snapshot) == [p \in DOMAIN snapshot |-> [snapshot[p] EXCEPT !.upload = "none", !.parts = <<>>]]

MirrorFails ==
  /\ pc = "mirrorFail"
  /\ \/ /\ mirror' = [mirror EXCEPT ![Locator(scenario, resolved)] = FailedSnapshot(@)]
        /\ UNCHANGED budget
     \/ Fault /\ UNCHANGED mirror
  /\ pc' = "fail"
  /\ UNCHANGED <<unfetched, source, file>>

-----------------------------------------------------------------------------
(* The end, and the next worker. *)

CleanupStagedUploadObject ==
  /\ pc = "published"
  /\ \/ /\ staged' = FALSE
        /\ pc' = "finish" /\ UNCHANGED budget
     \/ /\ ~Remote(scenario) /\ Fault /\ staged' \in {staged, FALSE}
        /\ pc' = "fail"
  /\ UNCHANGED <<secret, memory, upload, registry, source, scenario, resolved, selected, file, mirror, reserved>>

\* Mutant: the next worker goes on at the file the last one was at.
RecreateWhereItWas ==
  /\ pc = "down"
  /\ pc' = "fetch" /\ source' = <<>> /\ selected' = <<>>
  /\ memory' = secret /\ layer' = 0 /\ current' = Nothing /\ recoveries' = 0
  /\ UNCHANGED <<secret, registry, budget, scenario, resolved, file, mirror, staged, reserved>>

Recreate ==
  /\ pc = "down"
  /\ pc' = "fetch" /\ source' = <<>> /\ selected' = <<>> /\ file' = 1
  /\ memory' = secret /\ layer' = 0 /\ current' = Nothing /\ recoveries' = 0
  /\ UNCHANGED <<secret, registry, budget, scenario, resolved, mirror, staged, reserved>>

Work ==
  \/ ResolveSource \/ InspectUpload \/ ReserveRemoteStorage
  \/ PrepareSourceMirror \/ MirrorFile \/ MirrorPublishFiles \/ MirrorFails
  \/ UploadStep /\ UNCHANGED <<source, fetching>>
  \/ CleanupStagedUploadObject \/ Recreate

Next ==
  \/ Work
  \/ Interruption /\ UNCHANGED <<source, fetching>>

(* The worker runs, and a Pod that is gone is created again.                *)
Spec == Init /\ [][Next]_vars /\ WF_vars(Work)

-----------------------------------------------------------------------------

TypeOK ==
  /\ UploadTypeOK
  /\ pc \in Ended \cup {"fetch", "reserve", "mirror", "file", "upload", "download", "assemble", "mirrorFail",
                        "load", "plan", "next", "open", "parts", "savePart", "recover", "complete", "completed",
                        "config", "manifest", "inspect", "published", "finish", "abort", "fail"}
  /\ resolved \in DOMAIN scenario.revisions /\ selected \in Seq(Files)
  /\ file \in 1 .. Len(selected) + 1
  /\ \A l \in DOMAIN mirror : \A p \in DOMAIN mirror[l] :
       mirror[l][p] \in [object : Contents, upload : {"none", "open", "gone"}, parts : Contents]
  /\ staged \in BOOLEAN /\ reserved \in Nat

(* Two revisions whose layers are as many and as large: the checkpoint of    *)
(* one is taken for the other's, and if a layer of theirs has one key and one *)
(* size as well, its upload, too.                                            *)
Confusable == \E r, q \in DOMAIN scenario.revisions :
  LET a == Layered(scenario, r)  b == Layered(scenario, q) IN
    /\ r # q /\ PlanOf(a) = PlanOf(b)
    /\ \E l \in DOMAIN a, m \in DOMAIN b :
         /\ DirectUploadLayerKey(a[l]) = DirectUploadLayerKey(b[m])
         /\ Len(a[l].data) = Len(b[m].data) /\ a[l].data # b[m].data

(* A mirror located by a tag that moves.                                     *)
MirrorOfTag == scenario.kind = "ollama" /\ scenario.mirror /\ Len(scenario.revisions) > 1

(* An object in the mirror is a whole file of the commit it is located by.   *)
MirrorIsWhole == ~MirrorOfTag => \A r \in DOMAIN mirror : \A p \in DOMAIN mirror[r] :
  mirror[r][p].object # <<>> =>
    \E f \in Range(scenario.revisions[r]) : f.path = p /\ mirror[r][p].object = f.data

(* What is published is one revision of the source, whatever it was while    *)
(* other workers had it.                                                     *)
ArtifactOfOneRevision == manifest # <<>> =>
  \E r \in DOMAIN scenario.revisions : LET layers == Layered(scenario, r) IN
    /\ DOMAIN manifest = KeysOf(layers)
    /\ \A l \in DOMAIN layers : manifest[DirectUploadLayerKey(layers[l])].data = layers[l].data

(* The staged upload is there until the artifact is.                         *)
StagedUntilPublished == ~Remote(scenario) /\ ~staged => manifest # <<>>

(* All of it: what makes it sound to go on from a mirror and a checkpoint.   *)
ResumesSoundly ==
  /\ CheckpointBehindStore /\ MirrorIsWhole /\ StagedUntilPublished
  /\ (DigestCoversLayer /\ ArtifactOfOneRevision) \/ MirrorOfTag \/ Confusable

(* The worker with its checkpoint implements the publication of an artifact. *)
Publication == INSTANCE ArtifactPublication WITH
  Layers <- Keys,
  stored <- DOMAIN sealed,
  published <- DOMAIN manifest,
  outcome <- CASE pc = "done" -> "succeeded" [] pc \in {"failed", "lost"} -> "failed" [] OTHER -> "pending"

PublishesArtifact == Publication!Spec

(* However often it is interrupted, the worker comes to an end.             *)
Settles == <>(pc \in {"done", "failed", "lost"})

=============================================================================
