----------------------------- MODULE LayerRange -----------------------------
(***************************************************************************)
(* How a layer is read. Its digest is taken over the layer as it is written  *)
(* from first to last file; its parts are read by offset and length, on one  *)
(* of three other ways: a range of the one file, the ranges of those files   *)
(* of a pack that the part lies in, or a repacked archive of which all but   *)
(* the part is thrown away.                                                 *)
(*                                                                         *)
(* controller/internal/adapters/modelpack/oci, publish_object_source*.go,   *)
(* publish_archive_*.go. The header and the padding of a file in a pack go  *)
(* with the file.                                                           *)
(***************************************************************************)
EXTENDS Naturals, Sequences, SequencesExt

Smaller(m, n) == IF m < n THEN m ELSE n

(* The layer from its files: what is described.                              *)
DescribeGeneratedArchiveLayer(files) == FlattenSeq(files)

(* A pack has one path, a file that is a layer its own, below it.            *)
MaterializedModelPathName == "model"

RawLayer(path, data) == [kind |-> "raw", path |-> path, data |-> data, segments |-> <<data>>]
Archive(kind, files) ==
  [kind |-> kind, path |-> MaterializedModelPathName, data |-> DescribeGeneratedArchiveLayer(files),
   segments |-> files]
PackedLayer(files) == Archive("packed", files)
RepackedLayer(files) == Archive("repacked", files)

(* The bytes of files or layers.                                             *)
TotalSize(items) == Len(FlattenSeq([i \in DOMAIN items |-> items[i].data]))

OpenRawObjectSourceLayerRange(layer, offset, length) == SubSeq(layer.segments[1], offset + 1, offset + length)

(* What of a segment at currentOffset belongs to the range of what remains    *)
(* behind startOffset.                                                       *)
IntersectArchiveSegment(currentOffset, segmentSize, startOffset, remaining) ==
  IF startOffset < currentOffset + segmentSize /\ remaining > 0
  THEN LET start == IF startOffset > currentOffset THEN startOffset - currentOffset ELSE 0 IN
         [start |-> start, length |-> Smaller(remaining, segmentSize - start)]
  ELSE [start |-> 0, length |-> 0]

(* One segment of the pack: what is not in the range is passed over.         *)
WriteSegment(written, segment, startOffset) ==
  LET cut == IntersectArchiveSegment(written.at, Len(segment), startOffset, written.remaining) IN
    [at |-> written.at + Len(segment), remaining |-> written.remaining - cut.length,
     out |-> written.out \o SubSeq(segment, cut.start + 1, cut.start + cut.length)]

WriteRangedObjectSourceArchive(layer, offset, length) ==
  LET written[i \in 0 .. Len(layer.segments)] ==
        IF i = 0 THEN [at |-> 0, remaining |-> length, out |-> <<>>]
        ELSE WriteSegment(written[i - 1], layer.segments[i], offset) IN
    written[Len(layer.segments)].out

(* The archive is made once more up to the end of the range.                 *)
OpenGeneratedArchiveLayerRange(layer, offset, length) ==
  LET again == DescribeGeneratedArchiveLayer(layer.segments) IN
    SubSeq(again, offset + 1, Smaller(offset + length, Len(again)))

OpenPublishLayerRange(layer, offset, length) ==
  CASE layer.kind = "raw" -> OpenRawObjectSourceLayerRange(layer, offset, length)
    [] layer.kind = "packed" -> WriteRangedObjectSourceArchive(layer, offset, length)
    [] layer.kind = "repacked" -> OpenGeneratedArchiveLayerRange(layer, offset, length)

=============================================================================
