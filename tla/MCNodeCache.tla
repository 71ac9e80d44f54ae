----------------------------- MODULE MCNodeCache -----------------------------
(* A chunked and a plain artifact. One Pod wants either, the other the first *)
(* under a name of its own.                                                  *)
EXTENDS NodeCache
CONSTANTS p1, p2, a, b, u1, u2
MCPods == {p1, p2}
MCDigests == {a, b}
MCWants == (p1 :> {[digest |-> a, uri |-> u1], [digest |-> b, uri |-> u2]}) @@ (p2 :> {[digest |-> a, uri |-> u2]})

(* Two chunks out of order in one pack, the other artifact of one layer.     *)
PieceOf(i, at) == [index |-> i, offset |-> at, size |-> 1, stored |-> 2, compression |-> "zstd",
                   pack |-> "0", packOffset |-> 2 - 2 * i, packLength |-> 2]
MCPayload ==
  (a :> [layers |-> <<[mediaType |-> "index", digest |-> "i", size |-> 1],
                      [mediaType |-> "pack.zstd", digest |-> "p", size |-> 4]>>,
         config |-> [type |-> "chunked", diffIds |-> <<"i">>],
         index |-> [schemaVersion |-> "modelpack.chunked.v1", chunkSize |-> 1,
                    packs |-> <<[id |-> "0", digest |-> "p", size |-> 4, mediaType |-> "pack.zstd"]>>,
                    files |-> <<[path |-> "f", size |-> 2, chunks |-> <<PieceOf(1, 1), PieceOf(0, 0)>>]>>]]) @@
  (b :> [layers |-> <<[mediaType |-> "layer", digest |-> "l", size |-> 1]>>,
         config |-> [type |-> "layers", diffIds |-> <<"l">>]])
MCSize == (a :> 2) @@ (b :> 1)

(* The validation of a file accepts what tiles it in the order of the indexes,*)
(* and nothing else, of up to three chunks that lie in their pack.           *)
SmallChunks == {[PieceOf(0, 0) EXCEPT !.index = i, !.offset = o, !.size = n] : i \in 0 .. 2, o \in 0 .. 2, n \in 0 .. 2}
InOrder(file) == \A i, j \in DOMAIN file.chunks :
  file.chunks[i].index < file.chunks[j].index <=> file.chunks[i].offset < file.chunks[j].offset
ASSUME TilingReference ==
  \A size \in 0 .. 3 : \A chunks \in UNION {[1 .. n -> SmallChunks] : n \in 0 .. 3} :
    LET file == [path |-> "f", size |-> size, chunks |-> chunks] IN
      ValidateChunkIndexFile(file, MCPayload[a].index.packs) <=>
        /\ size > 0 /\ chunks # <<>> /\ (\A i \in DOMAIN chunks : chunks[i].size > 0 /\ chunks[i].index < Len(chunks))
        /\ Distinct(chunks, "index") /\ InOrder(file) /\ Tiles(file)
=============================================================================
