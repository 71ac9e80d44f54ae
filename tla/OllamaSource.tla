----------------------------- MODULE OllamaSource -----------------------------
(***************************************************************************)
(* A model of the Ollama registry: a manifest whose descriptors name a       *)
(* config, one model layer and at most one layer of parameters and of a       *)
(* license each. Only the model layer is published.                          *)
(*                                                                         *)
(* controller/internal/adapters/sourcefetch/ollama.go, ollama_registry.go.  *)
(* A descriptor is a record of the kind and the data of its blob; the model   *)
(* layer's kind says what its first bytes are, the config's which format it   *)
(* declares.                                                                *)
(***************************************************************************)
EXTENDS ModelFormat

OllamaKinds == {"foreignConfig", "noGguf", "params", "license"}
ModelLayers == {"gguf", "noGguf"}
SmallBlob == 1   \* parts of a blob that is read as a whole, at most

ValidateOllamaDescriptor(descriptor) == descriptor.data # <<>>

(* Exactly one model layer.                                                  *)
SelectOllamaModelLayer(manifest) == LET models == OfKind(manifest, ModelLayers) IN
  IF Len(models) = 1 /\ ValidateOllamaDescriptor(models[1]) THEN models ELSE <<>>

(* At most one layer of another type.                                        *)
SelectOllamaLayer(manifest, kind) == LET layers == OfKind(manifest, {kind}) IN
  layers = <<>> \/ (Len(layers) = 1 /\ ValidateOllamaDescriptor(layers[1]))

ValidateOllamaManifest(manifest) ==
  /\ \A config \in Range(OfKind(manifest, {"config", "foreignConfig"})) : ValidateOllamaDescriptor(config)
  /\ SelectOllamaModelLayer(manifest) # <<>>

FetchBlobBytes(descriptor) == ValidateOllamaDescriptor(descriptor) /\ Len(descriptor.data) <= SmallBlob

DecodeOllamaConfig(manifest) ==
  \A config \in Range(OfKind(manifest, {"config", "foreignConfig"})) :
    FetchBlobBytes(config) /\ config.kind = "config"

(* What is not needed has to be right, too, when it is there.                *)
FetchOllamaOptional(manifest) == \A kind \in {"params", "license"} :
  /\ SelectOllamaLayer(manifest, kind)
  /\ \A layer \in Range(OfKind(manifest, {kind})) : FetchBlobBytes(layer)

ProbeGGUF(models) == \A model \in Range(models) : model.kind = "gguf"

(* The file to publish, none if the model is refused.                        *)
FetchOllamaModel(manifest) == LET models == SelectOllamaModelLayer(manifest) IN
  IF /\ ValidateOllamaManifest(manifest) /\ DecodeOllamaConfig(manifest)
     /\ FetchOllamaOptional(manifest) /\ ProbeGGUF(models)
  THEN models
  ELSE <<>>

=============================================================================
