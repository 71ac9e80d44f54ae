--------------------------- MODULE ModelPackLayout ---------------------------
(***************************************************************************)
(* The layouts of an artifact. Its manifest names layers to be extracted one *)
(* by one, or packs and one index of files; the index cuts each file into     *)
(* chunks and says in which range of which pack each chunk is stored. Chunks  *)
(* are written at their offsets in any order, so an index is accepted only if *)
(* they tile the file.                                                       *)
(*                                                                         *)
(* controller/internal/adapters/modelpack/oci, chunk_layout.go and            *)
(* validation.go. Blobs and paths are values; "" is none.                    *)
(***************************************************************************)
EXTENDS Naturals, Sequences

CONSTANTS
  MaxChunkPayload,  \* of a chunk and of its stored form: maxChunkPayloadBytes
  MaxInt64

ASSUME LimitAssumption == MaxChunkPayload \in Nat /\ MaxInt64 \in Nat

ChunkPackMediaTypes == {"pack", "pack.zstd"}
Layers == [mediaType : STRING, digest : STRING, size : Nat]

Chunk == [index : Nat, offset : Nat, size : Nat, stored : Nat, compression : STRING,
          pack : STRING, packOffset : Nat, packLength : Nat]
ChunkFiles == [path : STRING, size : Nat, chunks : Seq(Chunk)]
IndexPacks == [id : STRING, digest : STRING, size : Nat, mediaType : STRING]

Distinct(s, key) == \A i, j \in DOMAIN s : s[i][key] = s[j][key] => i = j

(* An index needs packs, and packs an index; there is no second one of        *)
(* either.                                                                   *)
LayersOf(manifest, types) == {i \in DOMAIN manifest : manifest[i].mediaType \in types}

ClassifyManifestLayers(manifest) ==
  LET indexes == LayersOf(manifest, {"index"})
      packs == LayersOf(manifest, ChunkPackMediaTypes) IN
    /\ \A i \in DOMAIN manifest : manifest[i].digest # ""
    /\ \A i \in indexes \cup packs : manifest[i].size > 0
    /\ \A i, j \in indexes : i = j
    /\ \A i, j \in packs : manifest[i].digest = manifest[j].digest => i = j
    /\ indexes = {} <=> packs = {}

PayloadUsesChunkedLayout(manifest) ==
  ClassifyManifestLayers(manifest) /\ LayersOf(manifest, {"index"}) # {}

(* The config names the layers, each of them unless the layout is chunked.   *)
ValidateModelPackConfigBlob(config, manifest) ==
  /\ config.type = "layers" \/ (config.type = "chunked" /\ PayloadUsesChunkedLayout(manifest))
  /\ config.diffIds # <<>> /\ \A i \in DOMAIN config.diffIds : config.diffIds[i] # ""
  /\ PayloadUsesChunkedLayout(manifest) \/ Len(config.diffIds) = Len(manifest)

ValidatePayload(payload) ==
  /\ payload.layers # <<>> /\ ClassifyManifestLayers(payload.layers)
  /\ ValidateModelPackConfigBlob(payload.config, payload.layers)

(* The packs of the index are those of the manifest, each once.              *)
ValidateChunkIndexPacks(packs, manifest) ==
  /\ packs # <<>> /\ Distinct(packs, "id") /\ Distinct(packs, "digest")
  /\ \A i \in DOMAIN packs : LET pack == packs[i] IN
       /\ pack.id # "" /\ pack.digest # "" /\ pack.size > 0
       /\ \E l \in LayersOf(manifest, ChunkPackMediaTypes) :
            manifest[l].digest = pack.digest /\ manifest[l].size = pack.size /\ manifest[l].mediaType = pack.mediaType
  /\ \A l \in LayersOf(manifest, ChunkPackMediaTypes) : \E i \in DOMAIN packs : packs[i].digest = manifest[l].digest

(* A chunk of either form fits into memory and lies in its pack.             *)
ValidateChunkIndexChunk(chunk, packs) ==
  /\ chunk.size \in 1 .. MaxChunkPayload /\ chunk.stored \in 1 .. MaxChunkPayload
  /\ chunk.compression \in {"", "none", "zstd"}
  /\ chunk.packLength \in 1 .. MaxChunkPayload /\ chunk.packOffset + chunk.packLength <= MaxInt64
  /\ chunk.stored = chunk.packLength
  /\ \E i \in DOMAIN packs : packs[i].id = chunk.pack /\ chunk.packOffset + chunk.packLength <= packs[i].size

(* Sorted by offset, the chunks have the indexes 0, 1, ..., the first begins  *)
(* the file, each other one begins where the one before it ends, and the      *)
(* last ends the file.                                                       *)
ByIndex(chunks) == [n \in 0 .. Len(chunks) - 1 |-> chunks[CHOOSE i \in DOMAIN chunks : chunks[i].index = n]]

ValidateChunkIndexFile(file, packs) ==
  /\ file.size > 0 /\ file.chunks # <<>>
  /\ {file.chunks[i].index : i \in DOMAIN file.chunks} = 0 .. Len(file.chunks) - 1
  /\ LET chunk == ByIndex(file.chunks)  last == Len(file.chunks) - 1 IN
       /\ \A n \in 0 .. last : ValidateChunkIndexChunk(chunk[n], packs) /\ chunk[n].offset + chunk[n].size <= MaxInt64
       /\ chunk[0].offset = 0
       /\ \A n \in 1 .. last : chunk[n].offset = chunk[n - 1].offset + chunk[n - 1].size
       /\ chunk[last].offset + chunk[last].size = file.size

ValidateChunkIndex(index, manifest) ==
  /\ index.schemaVersion = "modelpack.chunked.v1" /\ index.chunkSize \in 1 .. MaxChunkPayload
  /\ ValidateChunkIndexPacks(index.packs, manifest)
  /\ index.files # <<>> /\ Distinct(index.files, "path")
  /\ \A f \in DOMAIN index.files : index.files[f].path # "." /\ ValidateChunkIndexFile(index.files[f], index.packs)

-----------------------------------------------------------------------------
(* What the validation is for. *)

Bytes(chunk) == chunk.offset .. (chunk.offset + chunk.size) - 1

(* Written in any order, the chunks of an accepted file write every byte of   *)
(* it exactly once and none behind its end.                                  *)
Tiles(file) ==
  /\ \A b \in 0 .. file.size - 1 : \E i \in DOMAIN file.chunks : b \in Bytes(file.chunks[i])
  /\ \A i \in DOMAIN file.chunks : Bytes(file.chunks[i]) \subseteq 0 .. file.size - 1
  /\ \A i, j \in DOMAIN file.chunks : i # j => Bytes(file.chunks[i]) \cap Bytes(file.chunks[j]) = {}

=============================================================================
