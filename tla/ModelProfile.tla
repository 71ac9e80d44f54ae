---------------------------- MODULE ModelProfile ----------------------------
(***************************************************************************)
(* What a publication finds out about its model, and what of it is shown to  *)
(* the Model's users. Each format has a profile of its own that puts together *)
(* what a user set, the source declared, the files say or their names hint    *)
(* at; every fact carries how far it can be trusted, and the status of a      *)
(* ready Model shows only those that can be.                                 *)
(*                                                                         *)
(* controller/internal/adapters/modelprofile, publishedsnapshot/profile.go, *)
(* domain/publishstate/conditions_ready.go. A name is a value and "" none; of *)
(* a quantization only the width counts that is read from its name. Sizes are *)
(* exact where the code rounds a float.                                      *)
(***************************************************************************)
EXTENDS Naturals

CONSTANT GiB
ASSUME GiBAssumption == GiB \in Nat \ {0}

Confidences == {"Exact", "Derived", "Declared", "Estimated", "Hint", ""}
ReliablePublicFact(confidence) == confidence \in {"Exact", "Derived", "Declared"}
LowConfidence(confidence) == confidence \in {"Estimated", "Hint"}

(* A fact that is not there has no confidence.                               *)
Text(value, confidence) == [value |-> value, confidence |-> IF value = "" THEN "" ELSE confidence]
Number(value, confidence) == [value |-> value, confidence |-> IF value = 0 THEN "" ELSE confidence]
NoText == Text("", "")
NoNumber == Number(0, "")

Prefer(text, other) == IF text.value # "" THEN text ELSE other

-----------------------------------------------------------------------------
(* Tasks and what a server of them offers. *)

Rule(tasks, endpoints, features) == [tasks |-> tasks, endpoints |-> endpoints, features |-> features]

capabilityRules == {
  Rule({"text-generation", "text2text-generation", "summarization", "conversational"}, {"Chat", "TextGeneration"}, {}),
  Rule({"feature-extraction", "embeddings", "text-embeddings-inference", "sentence-similarity"}, {"Embeddings"}, {}),
  Rule({"rerank", "reranker", "text-ranking"}, {"Rerank"}, {}),
  Rule({"automatic-speech-recognition", "speech-to-text"}, {"SpeechToText"}, {"AudioInput"}),
  Rule({"text-to-speech"}, {"TextToSpeech"}, {"AudioOutput"}),
  Rule({"text-to-audio", "text-to-music", "audio-generation"}, {"AudioGeneration"}, {"AudioOutput"}),
  Rule({"translation", "translation_xx_to_yy"}, {"Translation"}, {}),
  Rule({"image-classification", "zero-shot-image-classification"}, {"ImageClassification"}, {"VisionInput"}),
  Rule({"object-detection", "zero-shot-object-detection"}, {"ObjectDetection"}, {"VisionInput"}),
  Rule({"image-segmentation"}, {"ImageSegmentation"}, {"VisionInput"}),
  Rule({"image-to-text", "image-text-to-text"}, {"Chat", "ImageToText"}, {"VisionInput", "MultiModalInput"}),
  Rule({"visual-question-answering", "document-question-answering"},
       {"VisualQuestionAnswering"}, {"VisionInput", "MultiModalInput"}),
  Rule({"text-to-image", "image-generation", "unconditional-image-generation"}, {"ImageGeneration"}, {"ImageOutput"}),
  Rule({"image-to-image", "image-variation", "inpainting", "image-inpainting"},
       {"ImageGeneration"}, {"VisionInput", "ImageOutput"}),
  Rule({"text-to-video", "video-generation"}, {"VideoGeneration"}, {"VideoOutput"}),
  Rule({"image-to-video"}, {"VideoGeneration"}, {"VisionInput", "VideoOutput"}),
  Rule({"video-to-video"}, {"VideoGeneration"}, {"VideoInput", "VideoOutput"}) }

(* A task is in one rule at most.                                            *)
ResolveCapabilities(task) == LET rules == {rule \in capabilityRules : task \in rule.tasks} IN
  [endpoints |-> UNION {rule.endpoints : rule \in rules}, features |-> UNION {rule.features : rule \in rules}]

CapabilitiesOf(task) ==
  IF ReliablePublicFact(task.confidence) THEN ResolveCapabilities(task.value) ELSE [endpoints |-> {}, features |-> {}]

DeclaredSourceTasks(declared) == {declared} \ {""}

(* What the user set, the source declares, the files say, the source hints.  *)
ResolveTask(explicit, declared, derived, hint) ==
  Prefer(Text(explicit, "Exact"),
         Prefer(Text(declared, "Declared"), Prefer(Text(derived, "Derived"), Text(hint, "Hint"))))

-----------------------------------------------------------------------------
(* Sizes. *)

Widths == {"", "4bit", "8bit", "other"}
Precisions == {"", "int4", "int8", "bf16", "fp16", "fp32"}

HalfBytesPerParameter(precision, quantization) ==
  CASE quantization = "4bit" -> 1
    [] quantization = "8bit" -> 2
    [] OTHER -> CASE precision = "int4" -> 1 [] precision = "int8" -> 2 [] precision = "fp32" -> 8 [] OTHER -> 4

EstimateParameterCountFromBytes(bytes, precision, quantization) ==
  (2 * bytes) \div HalfBytesPerParameter(precision, quantization)

(* A quarter more than the weights, in whole GiB.                            *)
EstimatedWorkingSetGiB(bytes, parameters, precision, quantization) ==
  LET estimated == IF bytes > 0 THEN bytes ELSE (parameters * HalfBytesPerParameter(precision, quantization)) \div 2 IN
    (5 * estimated + 4 * GiB - 1) \div (4 * GiB)

(* The precision a quantization or, failing that, the file says.             *)
DetectPrecision(dtype, quantization) ==
  CASE quantization = "4bit" -> "int4" [] quantization = "8bit" -> "int8" [] OTHER -> dtype

-----------------------------------------------------------------------------
(* GGUF: all there is to see is the file's name and size; the manifest of an *)
(* Ollama model declares more.                                               *)

(* Of a name with "bf16" the check for "f16", which comes first, finds a part.*)
GGUFPrecision(name) ==
  IF name.quantization = "" THEN (IF name.dtype = "" THEN "" ELSE "fp16") ELSE DetectPrecision("", name.quantization)
GGUFQuantization(name) == IF name.quantization = "" /\ name.dtype # "" THEN "other" ELSE name.quantization

(* What the name says or the size makes likely.                              *)
ResolveFromSummary(name, bytes) == LET quantization == GGUFQuantization(name) IN
  [family |-> [value |-> name.family, confidence |-> "Hint"],
   quantization |-> Text(quantization, "Hint"),
   parameters |-> IF name.parameters > 0
                  THEN [value |-> name.parameters, confidence |-> "Hint"]
                  ELSE [value |-> EstimateParameterCountFromBytes(bytes, GGUFPrecision(name), quantization),
                        confidence |-> "Estimated"]]

DeclaredText(text, value) == IF value = "" THEN text ELSE [value |-> value, confidence |-> "Declared"]
DeclaredNumber(number, value) == IF value = 0 THEN number ELSE [value |-> value, confidence |-> "Declared"]

GGUFProfile(asked, name, declared) ==
  LET seen == ResolveFromSummary(name, asked.bytes)
      task == ResolveTask(asked.task, asked.declaredTask, "", asked.hint) IN
    [format |-> "GGUF", task |-> task, sourceTasks |-> DeclaredSourceTasks(asked.declaredTask),
     family |-> DeclaredText(seen.family, declared.family),
     architecture |-> DeclaredText(NoText, declared.architecture),
     quantization |-> DeclaredText(seen.quantization, declared.quantization),
     parameters |-> DeclaredNumber(seen.parameters, declared.parameters),
     context |-> DeclaredNumber(NoNumber, declared.context),
     endpoints |-> CapabilitiesOf(task).endpoints, features |-> CapabilitiesOf(task).features]

-----------------------------------------------------------------------------
(* Safetensors: the config. An architecture is a base name with a head.      *)

DetectQuantization(q) ==
  CASE q.bits = 4 \/ (q.bits = 0 /\ q.in4bit) -> "4bit"
    [] q.bits = 8 \/ (q.bits = 0 /\ ~q.in4bit /\ q.in8bit) -> "8bit"
    [] OTHER -> IF q.bits > 0 \/ q.method # "" THEN "other" ELSE ""

ResolveFamily(config) == Prefer(Text(config.modelType, "Exact"), Text(config.base, "Derived"))

knownBases == {"Qwen3", "Qwen2", "Qwen2Moe", "Llama", "Mistral", "Mixtral", "Phi3", "Phi", "Gemma", "GPTNeoX", "Falcon"}

(* A base that is known is taken for a text generator, whatever its head.    *)
InferTaskFromCheckpoint(config) ==
  CASE config.base \in knownBases -> "text-generation"
    [] OTHER -> CASE config.head = "ForCausalLM" -> "text-generation"
                  [] config.head = "ForConditionalGeneration" -> "text2text-generation"
                  [] config.head = "ForSequenceClassification" -> "text-classification"
                  [] config.head = "ForTokenClassification" -> "token-classification"
                  [] config.head = "ForQuestionAnswering" -> "question-answering"
                  [] config.head = "ForMaskedLM" -> "fill-mask"
                  [] OTHER -> ""

InferMultimodalTaskFromCheckpoint(config) == IF config.vision THEN "image-text-to-text" ELSE ""

(* "any-to-any" says nothing but that it is worth to look for an image.       *)
ResolveCheckpointTask(config, explicit, declared, hint) ==
  LET multimodal == IF "any-to-any" \in {declared, hint} THEN InferMultimodalTaskFromCheckpoint(config) ELSE "" IN
    ResolveTask(explicit, IF declared = "any-to-any" THEN "" ELSE declared,
                IF multimodal # "" THEN multimodal ELSE InferTaskFromCheckpoint(config), hint)

TransformerParameters(d) ==
  LET kv == IF d.heads > 0 /\ d.kvHeads > 0 THEN d.kvHeads * (d.hidden \div d.heads) ELSE d.hidden
      perLayer == 2 * d.hidden * d.hidden + 2 * d.hidden * kv + 3 * d.hidden * d.intermediate IN
    d.vocab * d.hidden + d.layers * perLayer

ResolveParameterCount(config, bytes, precision, quantization) ==
  LET d == config.dimensions IN
  IF config.parameters > 0
  THEN [value |-> config.parameters, confidence |-> "Exact"]
  ELSE IF 0 \in {d.hidden, d.intermediate, d.layers, d.vocab}
  THEN Number(EstimateParameterCountFromBytes(bytes, precision, quantization), "Estimated")
  ELSE [value |-> TransformerParameters(d), confidence |-> "Estimated"]

SafetensorsProfile(asked, config, toolTemplate) ==
  LET task == ResolveCheckpointTask(config, asked.task, asked.declaredTask, asked.hint)
      quantization == DetectQuantization(config.quantization) IN
    [format |-> "Safetensors", task |-> task, sourceTasks |-> DeclaredSourceTasks(asked.declaredTask),
     family |-> ResolveFamily(config),
     architecture |-> Text(config.architecture, "Exact"),
     quantization |-> Text(quantization, "Exact"),
     parameters |-> ResolveParameterCount(config, asked.bytes, DetectPrecision(config.dtype, quantization), quantization),
     context |-> Number(config.context, "Exact"),
     endpoints |-> CapabilitiesOf(task).endpoints,
     features |-> CapabilitiesOf(task).features \cup (IF toolTemplate THEN {"ToolCalling"} ELSE {})]

-----------------------------------------------------------------------------
(* Diffusers: the class of the pipeline, by what its name contains.          *)

pipelineTasks == {"image-to-video", "text-to-video", "video-to-video", "image-to-image", "inpainting",
                  "text-to-image", "text-to-audio", ""}

DiffusersProfile(asked, pipeline) ==
  LET task == ResolveTask(asked.task, asked.declaredTask, pipeline.task, asked.hint) IN
    [format |-> "Diffusers", task |-> task, sourceTasks |-> DeclaredSourceTasks(asked.declaredTask),
     family |-> Text(pipeline.family, "Derived"),
     architecture |-> Text(pipeline.class, "Exact"),
     quantization |-> NoText, parameters |-> NoNumber, context |-> NoNumber,
     endpoints |-> CapabilitiesOf(task).endpoints, features |-> CapabilitiesOf(task).features]

ResolveProfile(input) ==
  CASE input.format = "diffusers" -> DiffusersProfile(input.asked, input.pipeline)
    [] input.format = "safetensors" -> SafetensorsProfile(input.asked, input.config, input.toolTemplate)
    [] input.format = "gguf" -> GGUFProfile(input.asked, input.name, input.declared)

-----------------------------------------------------------------------------
(* The status of a ready Model. *)

KnownPublicEndpointTypes ==
  {"Chat", "TextGeneration", "Embeddings", "Rerank", "SpeechToText", "TextToSpeech", "Translation",
   "ImageClassification", "ObjectDetection", "ImageSegmentation", "ImageToText", "VisualQuestionAnswering",
   "ImageGeneration", "VideoGeneration", "AudioGeneration"}
KnownPublicFeatureTypes ==
  {"VisionInput", "AudioInput", "AudioOutput", "ImageOutput", "VideoInput", "VideoOutput", "MultiModalInput",
   "ToolCalling"}

PublicText(fact) == IF ReliablePublicFact(fact.confidence) THEN fact.value ELSE ""
PublicNumber(fact) == IF fact.value > 0 /\ ReliablePublicFact(fact.confidence) THEN fact.value ELSE 0

HasPartialConfidence(profile) ==
  \/ \E fact \in {profile.task, profile.family, profile.architecture, profile.quantization} :
       fact.value # "" /\ LowConfidence(fact.confidence)
  \/ \E fact \in {profile.parameters, profile.context} : fact.value > 0 /\ LowConfidence(fact.confidence)

MetadataCondition(profile) ==
  IF HasPartialConfidence(profile) THEN "ModelMetadataPartial" ELSE "ModelMetadataCalculated"

ReadyStatus(profile) ==
  [format |-> profile.format, sourceTasks |-> profile.sourceTasks,
   family |-> PublicText(profile.family), architecture |-> PublicText(profile.architecture),
   quantization |-> PublicText(profile.quantization),
   parameters |-> PublicNumber(profile.parameters), context |-> PublicNumber(profile.context),
   endpoints |-> IF ReliablePublicFact(profile.task.confidence)
                 THEN profile.endpoints \cap KnownPublicEndpointTypes ELSE {},
   features |-> profile.features \cap KnownPublicFeatureTypes,
   metadata |-> MetadataCondition(profile)]

-----------------------------------------------------------------------------
(* What a profile is made from. *)

Asked == [task : STRING, declaredTask : STRING, hint : STRING, bytes : Nat]
GGUFNames == [family : STRING, parameters : Nat, quantization : Widths, dtype : {"", "fp16", "bf16"}]
DeclaredFacts == [family : STRING, architecture : STRING, quantization : STRING, parameters : Nat, context : Nat]
Dimensions == [hidden : Nat, intermediate : Nat, layers : Nat, vocab : Nat, heads : Nat, kvHeads : Nat]
Configs ==
  [architecture : STRING, base : STRING, head : STRING, modelType : STRING, vision : BOOLEAN, dtype : Precisions,
   quantization : [method : STRING, bits : Nat, in4bit : BOOLEAN, in8bit : BOOLEAN],
   parameters : Nat, context : Nat, dimensions : Dimensions]
Pipelines == [class : STRING, task : pipelineTasks, family : STRING]

(* The summary a source makes of its files, and what it was asked for.       *)
Summaries == [asked : Asked, name : GGUFNames, declared : DeclaredFacts, config : Configs, toolTemplate : BOOLEAN,
              pipeline : Pipelines, format : {"diffusers", "safetensors", "gguf"}]

(* What users may rely on. *)

(* What a profile found and the status does not show is announced: metadata   *)
(* that are called calculated are all there is.                              *)
NothingOmittedSilently(profile) == LET status == ReadyStatus(profile) IN
  status.metadata = "ModelMetadataCalculated" =>
    /\ status.family = profile.family.value /\ status.architecture = profile.architecture.value
    /\ status.quantization = profile.quantization.value
    /\ status.parameters = profile.parameters.value /\ status.context = profile.context.value
    /\ profile.task.value # "" => status.endpoints = ResolveCapabilities(profile.task.value).endpoints

(* A hint at a task, alone, makes no Model offer an endpoint or a modality,   *)
(* although the status looks at the task's confidence for endpoints only.    *)
NoHintIsOffered(profile) == LET status == ReadyStatus(profile) IN
  ~ReliablePublicFact(profile.task.confidence) => status.endpoints = {} /\ status.features \subseteq {"ToolCalling"}

=============================================================================
