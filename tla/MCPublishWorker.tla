--------------------------- MODULE MCPublishWorker ---------------------------
(* Sources of one to three layers, of one or two revisions; and what the     *)
(* profiles of models find out, on a few summaries of each format.           *)
EXTENDS PublishWorker, ModelProfile

At(path, kind, data) == [root |-> "", path |-> path, kind |-> kind, data |-> data]
F(kind, data) == At(kind, kind, data)
In(root, kind, data) == [F(kind, data) EXCEPT !.root = root]

Safetensors == <<F("config", <<"c">>), F("safetensors", <<"w1", "w2">>), F("benign", <<"r">>)>>
Finetuned == <<F("config", <<"c">>), F("safetensors", <<"v1", "v2">>)>>
Grown == <<F("config", <<"d">>), F("safetensors", <<"v1">>), At("second", "safetensors", <<"x1", "x2">>)>>
Diffusers == <<F("index", <<"i">>), F("companion", <<"t1", "t2">>), F("componentBin", <<"b">>)>>
Resplit == <<F("gguf", <<"g1">>), At("second", "gguf", <<"g2", "g3">>)>>
Split == <<F("gguf", <<"h1", "h2">>), At("second", "gguf", <<"h3">>)>>
Ambiguous == Append(Safetensors, F("gguf", <<"g">>))
Native == Append(Safetensors, F("native", <<"n">>))
Empty == Append(Safetensors, F("companion", <<>>))
Small == <<F("config", <<"c">>), F("safetensors", <<"s">>)>>
Packed == <<In("m", "config", <<"c">>), In("m", "benign", <<"r">>), In("m", "safetensors", <<"s">>)>>
Stray == Append(Packed, In("__MACOSX", "hidden", <<"x">>))
Linked == Append(Packed, In("m", "link", <<>>))
Loose == <<In("a", "gguf", <<"u">>), In("b", "config", <<"c">>), In("__MACOSX", "hidden", <<"x">>)>>
Weightless == <<F("config", <<"c">>), F("safetensors", <<>>)>>
Ollama(a, b) == <<F("config", <<"c">>), F("gguf", <<a, b>>), F("license", <<"l">>)>>
Unlicensed == <<F("config", <<"c">>), F("gguf", <<"o">>), F("license", <<"l1", "l2">>)>>
Foreign == <<F("foreignConfig", <<"c">>), F("gguf", <<"o">>)>>

Publish(kind, mirrored, format, revisions) ==
  [kind |-> kind, mirror |-> mirrored, requested |-> format, revisions |-> revisions]

MCScenarios == {
  Publish("huggingface", FALSE, "auto", <<Safetensors>>),
  Publish("huggingface", FALSE, "auto", <<Safetensors, Finetuned>>),
  Publish("huggingface", FALSE, "gguf", <<Resplit, Split>>),
  Publish("huggingface", TRUE, "safetensors", <<Small, Grown>>),
  Publish("huggingface", FALSE, "auto", <<Diffusers>>),
  Publish("huggingface", FALSE, "auto", <<Ambiguous, Native, Empty>>),
  Publish("ollama", TRUE, "auto", <<Ollama("o1", "o2"), Ollama("p1", "p2")>>),
  Publish("ollama", FALSE, "auto", <<Foreign, Unlicensed, Ollama("o1", "o2")>>),
  Publish("file", FALSE, "auto", <<<<F("gguf", <<"u1", "u2">>)>>>>),
  Publish("file", FALSE, "auto", <<<<F("noGguf", <<"u">>)>>>>),
  Publish("archive", FALSE, "auto", <<Packed>>),
  Publish("archive", FALSE, "auto", <<Stray>>),
  Publish("archive", FALSE, "auto", <<Linked>>),
  Publish("archive", FALSE, "auto", <<Loose>>),
  Publish("archive", FALSE, "safetensors", <<Weightless>>) }
-----------------------------------------------------------------------------
MCAsked == [task : {"", "rerank"}, declaredTask : {"", "any-to-any", "text-generation"}, hint : {"", "text-to-image", "any-to-any"},
            bytes : {9}]
MCNames == [family : {"", "m"}, parameters : {0, 7}, quantization : Widths, dtype : {"", "fp16", "bf16"}]
MCDeclared == [family : {"f"}, architecture : {"", "a"}, quantization : {"", "q"}, parameters : {0, 3}, context : {0, 4}]
MCConfigs ==
  [architecture : {"", "LlamaForSequenceClassification"}, base : {"", "Llama"}, head : {"", "ForSequenceClassification"},
   modelType : {"", "t"}, vision : BOOLEAN, dtype : {"bf16"},
   quantization : [method : {"gptq"}, bits : {0, 4}, in4bit : BOOLEAN, in8bit : {FALSE}],
   parameters : {0, 5}, context : {8},
   dimensions : [hidden : {0, 4}, intermediate : {2}, layers : {2}, vocab : {3}, heads : {2}, kvHeads : {1}]]
MCPipelines == [class : {"", "FluxPipeline"}, task : pipelineTasks, family : {"", "flux"}]

(* Bounded checks of the profiles: what PublishWorker_proofs proves of all  *)
(* them, that every task is in one rule, that the status knows all that the   *)
(* rules offer, and that a working set holds the weights.                    *)
Trusted(profile) == NothingOmittedSilently(profile) /\ NoHintIsOffered(profile)

ASSUME ProfileReference ==
  /\ \A asked \in MCAsked, name \in MCNames, declared \in MCDeclared : Trusted(GGUFProfile(asked, name, declared))
  /\ \A asked \in MCAsked, config \in MCConfigs : Trusted(SafetensorsProfile(asked, config, TRUE))
  /\ \A asked \in MCAsked, pipeline \in MCPipelines : Trusted(DiffusersProfile(asked, pipeline))
ASSUME CapabilityReference == \A rule \in capabilityRules :
  /\ \A other \in capabilityRules : rule = other \/ rule.tasks \cap other.tasks = {}
  /\ rule.endpoints \subseteq KnownPublicEndpointTypes /\ rule.features \subseteq KnownPublicFeatureTypes
ASSUME WorkingSetReference == \A bytes \in 1 .. 20, quantization \in Widths :
  EstimatedWorkingSetGiB(bytes, 0, "", quantization) * GiB \in bytes .. 2 * bytes + GiB
=============================================================================
