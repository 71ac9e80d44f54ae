----------------------------- MODULE ModelFormat -----------------------------
(***************************************************************************)
(* Which files of a source make a model: each input format classifies every *)
(* file as kept, dropped or refused, needs a root config and an asset of its *)
(* own, and a source of unknown format is the one format that accepts it.    *)
(*                                                                         *)
(* controller/internal/adapters/modelformat. A file is a record with a kind  *)
(* (what the classifiers tell apart of its path), its path and its data.     *)
(***************************************************************************)
EXTENDS Naturals, Sequences, SequencesExt

(* model_index.json, the root config.json, tokenizers and other companions,  *)
(* scripts, exports for other runtimes, documents, native code and archives, *)
(* weights by extension, a .bin weight of a component, what lies below a     *)
(* directory that is dropped, and the rest.                                  *)
Kinds == {"index", "config", "companion", "script", "export", "benign", "native",
          "safetensors", "gguf", "componentBin", "hidden", "other"}

(* A Diffusers pipeline may have weights of either kind.                     *)
DiffusersRules ==
  [config |-> {"index"}, asset |-> {"safetensors", "componentBin"}, reject |-> {"native"}]

(* A pipeline's index makes it no Safetensors model.                         *)
SafetensorsRules ==
  [config |-> {"config"}, asset |-> {"safetensors"}, reject |-> {"native", "index"}]

(* A GGUF file needs no config.                                              *)
GGUFRules ==
  [config |-> {}, asset |-> {"gguf"}, reject |-> {"native"}]

Formats == {"diffusers", "safetensors", "gguf"}
RulesForFormat ==
  [diffusers |-> DiffusersRules, safetensors |-> SafetensorsRules, gguf |-> GGUFRules]

(* A config.json is a companion where it is not the config.                  *)
Kept(rules) == rules.config \cup rules.asset \cup {"config", "companion"}

(* Those of a list that are chosen, in its order.                            *)
Among(list, chosen) ==
  LET taken[i \in 0 .. Len(list)] ==
        IF i = 0 THEN <<>>
        ELSE IF list[i] \in chosen THEN Append(taken[i - 1], list[i]) ELSE taken[i - 1] IN
    taken[Len(list)]

OfKind(files, kinds) == Among(files, {file \in Range(files) : file.kind \in kinds})

KindsOf(files) == {file.kind : file \in Range(files)}

ValidateState(rules, kinds) ==
  /\ rules.config # {} => rules.config \cap kinds # {}
  /\ rules.asset \cap kinds # {}

Accepts(format, files) == LET rules == RulesForFormat[format]  kinds == KindsOf(files) IN
  rules.reject \cap kinds = {} /\ ValidateState(rules, kinds)

(* The files that are published, in the source's order; none if the format   *)
(* does not accept the source.                                               *)
SelectRemoteFiles(format, files) ==
  IF format \in Formats /\ Accepts(format, files)
  THEN OfKind(files, Kept(RulesForFormat[format]))
  ELSE <<>>

(* No format or more than one is an error.                                   *)
DetectRemoteFormat(files) == LET matches == {f \in Formats : Accepts(f, files)} IN
  IF \E f \in Formats : matches = {f} THEN CHOOSE f \in matches : TRUE ELSE "unknown"

Resolvable == Formats \cup {"unknown"}
ResolveRemoteFormat(files, requested) ==
  IF requested # "auto" THEN requested ELSE DetectRemoteFormat(files)

=============================================================================
