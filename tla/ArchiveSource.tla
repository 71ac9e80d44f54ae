---------------------------- MODULE ArchiveSource ----------------------------
(***************************************************************************)
(* An uploaded archive: what makes a model of it and what is packed again.   *)
(* An entry is a file with the directory at the archive's root it lies in,   *)
(* "" for none; if all lie in one, that directory is taken away. Inspection  *)
(* and publication read the archive each for itself.                         *)
(*                                                                         *)
(* controller/internal/adapters/sourcefetch/archive_inspect*.go,            *)
(* adapters/modelpack/oci/publish_archive_source*.go, for tar and zip alike. *)
(***************************************************************************)
EXTENDS ModelFormat, LayerRange

(* Symbolic and hard links make the archive refused.                        *)
ClassifyArchiveEntry(entry) == entry.kind # "link"

NoRoot == ""
Roots == STRING \cup {NoRoot}

(* Every file counts, also those no format keeps.                            *)
DeriveArchiveRootPrefix(entries) ==
  LET roots == {entry.root : entry \in Range(entries)} IN
    IF \E root \in roots : roots = {root} THEN CHOOSE root \in roots : TRUE ELSE NoRoot

DroppedRoots == {"__MACOSX"}

(* In a directory there is neither a root config nor a pipeline's index.     *)
Below(kind) == CASE kind = "config" -> "companion" [] kind = "index" -> "other" [] OTHER -> kind

NormalizedArchiveFile(entry, prefix) ==
  IF entry.root = prefix
  THEN [entry EXCEPT !.root = NoRoot]
  ELSE [entry EXCEPT !.kind = IF entry.root \in DroppedRoots THEN "hidden"
                              ELSE IF entry.root = NoRoot THEN @ ELSE Below(@)]

Normalized(entries) ==
  LET normalized[prefix \in Roots] == [i \in DOMAIN entries |-> NormalizedArchiveFile(entries[i], prefix)] IN
    normalized[DeriveArchiveRootPrefix(entries)]

(* A Safetensors or Diffusers model has a config and weights in it that are   *)
(* not empty; of a GGUF model the first file is looked at.                    *)
SummarizeSafetensorsLikeArchive(format, files) ==
  /\ \E file \in Range(files) : file.kind \in RulesForFormat[format].config /\ file.data # <<>>
  /\ \E file \in Range(files) : file.kind \in RulesForFormat[format].asset /\ file.data # <<>>

SummarizeGGUFArchive(files) ==
  LET found == OfKind(files, {"gguf"}) IN
    found # <<>> /\ found[1].data # <<>>

SummarizeArchive(format, files) ==
  IF format = "gguf" THEN SummarizeGGUFArchive(files) ELSE SummarizeSafetensorsLikeArchive(format, files)

(* The files that are selected, none if the archive is refused.              *)
PrepareArchiveInspection(files, requested) ==
  LET inspected[format \in Resolvable] == LET kept == SelectRemoteFiles(format, files) IN
        IF kept # <<>> /\ SummarizeArchive(format, kept) THEN kept ELSE <<>> IN
    inspected[ResolveRemoteFormat(files, requested)]

InspectModelArchive(entries, requested) ==
  IF \A entry \in Range(entries) : ClassifyArchiveEntry(entry)
  THEN PrepareArchiveInspection(Normalized(entries), requested)
  ELSE <<>>

(* For the layer the archive is read again: of the entries with their prefix  *)
(* taken away those that were selected.                                      *)
WriteLayerArchiveFromArchiveSource(entries, selected) ==
  Among(Normalized(entries), Range(selected))

=============================================================================
