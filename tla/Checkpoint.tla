------------------------------ MODULE Checkpoint ------------------------------
(***************************************************************************)
(* The weights of a Qwen MoE model, from the files of a Hugging Face       *)
(* checkpoint to the parameters of the compiled model: load_state_dict     *)
(* (modules/checkpoint.py), get_state_dict (model_base.py), and            *)
(* convert_qwen_moe_to_neuron_state_dict with its two fine-tuning          *)
(* overlays.  A tensor is known by what it was made from.                  *)
(***************************************************************************)
EXTENDS Integers, Sequences, SequencesExt, FiniteSets

CONSTANTS
  NumLayers, NumCheckpointExperts,
  Kernels          \* the routers a model is built with

ASSUME CheckpointAssumption ==
  /\ NumLayers \in Nat \ {0} /\ NumCheckpointExperts \in Nat \ {0}
  /\ Kernels \subseteq {"topk_softmax", "hierarchical", "hash_routing"}

LayerIds == 0..(NumLayers - 1)
ExpertIds == 0..(NumCheckpointExperts - 1)
None == -1   \* the layer or the expert of a name that has none

\* A name in a state dict; hf is whether it has the prefix "model.".
Name(layer, part, expert) == [hf |-> FALSE, layer |-> layer, part |-> part, expert |-> expert]

HfName(name) == [name EXCEPT !.hf = TRUE]
PlainName(name) == [name EXCEPT !.hf = FALSE]

LmHead == Name(None, "lm_head", None)
Projections == {"gate_proj", "up_proj", "down_proj"}
SharedParts == {"shared_expert.gate_proj", "shared_expert.up_proj", "shared_expert.down_proj"}

\* The shared expert's names in the model, and what the checkpoint calls them.
OldSharedPart ==
  [part \in {"shared_experts.gate_proj", "shared_experts.up_proj", "shared_experts.down_proj"} |->
     CASE part = "shared_experts.gate_proj" -> "shared_expert.gate_proj"
       [] part = "shared_experts.up_proj" -> "shared_expert.up_proj"
       [] part = "shared_experts.down_proj" -> "shared_expert.down_proj"]

\* The names of a layer that the checkpoint has, prefixes aside, and of its experts.
LayerNames(l) ==
  {Name(l, part, None) : part \in SharedParts \cup
     {"q_proj.weight", "q_proj.bias", "o_proj.weight", "gate", "shared_expert_gate"}}
ExpertNames(l) == {Name(l, p, e) : p \in Projections, e \in ExpertIds}

\* A tensor of a name, from a file or made up of zeros, and what was merged into it.
Tensor(name, from) == [name |-> name, from |-> from, tune |-> "none"]

\* dict.update
Updated(sd, new) ==
  [n \in DOMAIN sd \cup DOMAIN new |-> IF n \in DOMAIN new THEN new[n] ELSE sd[n]]

\* A parameter is one tensor, or a stack of them.
One(name, from) == <<Tensor(name, from)>>

------------------------------------------------------------------------------
(* Files *)

\* model.safetensors, its index, pytorch_model.bin, its index: the first there is.
Formats == <<"safetensors", "safetensors_index", "bin", "bin_index">>

Sharded(format) == format \in {"safetensors_index", "bin_index"}

\* The names in each file of a sharded checkpoint: a layer a file, and the rest.
FileNames(shard) ==
  IF shard = None THEN {LmHead} ELSE LayerNames(shard) \cup ExpertNames(shard)

\* Fine-tuned weights: halves of LoRA pairs and whole tensors of experts, and tensors
\* of the router.
ExpertTunes ==
  LET first == Name(0, "gate_proj", 0)
      last == Name(NumLayers - 1, "down_proj", 0)
  IN  [loraA : {{}, {first}, {first, last}}, loraB : {{}, {first}},
       whole : {{}, {last, Name(0, "gate", None)}}]

RouterTensors(l) == {Name(l, "linear_router", None), Name(l, "linear_group", None)}

RouterTunes ==
  {{}} \cup {UNION {RouterTensors(l) : l \in ls} : ls \in SUBSET LayerIds}
    \cup {{Name(l, "linear_router", None) : l \in LayerIds}}

VARIABLES
  stored,     \* the checkpoint's directory, the fine-tuning files and the router kernel
  stage,      \* how far the model is loaded
  unread,     \* files still to be read
  layer,      \* the layer to convert next
  stateDict,  \* model_sd
  module      \* the routers' parameters when the modules were built

checkpointVars == <<stored, stage, unread, layer, stateDict, module>>

Stored ==
  [formats : SUBSET ToSet(Formats), overlap : BOOLEAN, kernel : Kernels,
   experts : ExpertTunes, router : RouterTunes]

CheckpointInit ==
  /\ stored \in Stored
  /\ stage = "build"
  /\ unread = {} /\ layer = 0 /\ stateDict = <<>> /\ module = <<>>

Format == Formats[CHOOSE i \in DOMAIN Formats :
            /\ Formats[i] \in stored.formats
            /\ \A j \in 1..(i - 1) : Formats[j] \notin stored.formats]

------------------------------------------------------------------------------
(* Building the modules *)

\* The parameters of a router; hash routing has none.
RouterParts ==
  CASE stored.kernel = "hash_routing" -> {}
    [] stored.kernel = "hierarchical" -> {"linear_router", "linear_group"}
    [] OTHER -> {"linear_router"}

\* RouterFactory.create for every layer.  _maybe_load_finetune_checkpoint drops the layer
\* of a name: of the tensors that now share one, the last in the file remains.
BuildRouters ==
  /\ stage = "build"
  /\ LET Tuned(part) == {n \in stored.router : n.part = part}
     IN  IF stored.router # {} /\ \E part \in RouterParts : Tuned(part) = {}
         THEN stage' = "failed" /\ UNCHANGED module
         ELSE /\ stage' = "open"
              /\ \E last \in [RouterParts -> stored.router \cup {LmHead}] :
                   /\ \A part \in RouterParts :
                        IF Tuned(part) = {} THEN last[part] = LmHead ELSE last[part] \in Tuned(part)
                   /\ module' =
                        [n \in {Name(l, part, None) : l \in LayerIds, part \in RouterParts} |->
                           IF last[n.part] = LmHead
                           THEN One(n, "initial") ELSE One(last[n.part], "router_ft")]
  /\ UNCHANGED <<stored, unread, layer, stateDict>>

------------------------------------------------------------------------------
(* load_state_dict *)

OpenCheckpoint ==
  /\ stage = "open"
  /\ IF stored.formats = {} THEN stage' = "failed" /\ UNCHANGED unread
     ELSE /\ stage' = "read"
          /\ unread' = LayerIds \cup {None}
  /\ UNCHANGED <<stored, layer, stateDict, module>>

\* What a file adds.  With overlap the rest repeats a tensor of the first layer.
FileTensors(shard) ==
  LET names == FileNames(shard)
                 \cup (IF stored.overlap /\ shard = None THEN {Name(0, "gate", None)} ELSE {})
  IN  [n \in {IF n = LmHead THEN n ELSE HfName(n) : n \in names} |->
         One(PlainName(n), Format)]

\* The only file of a checkpoint that is not sharded: all of it.
ReadWhole ==
  /\ stage = "read" /\ ~Sharded(Format)
  /\ stateDict' = [n \in UNION {DOMAIN FileTensors(s) : s \in unread} |->
                     One(PlainName(n), Format)]
  /\ unread' = {} /\ stage' = "rename"
  /\ UNCHANGED <<stored, layer, module>>

\* _load_from_files reads the files in no particular order and refuses a second tensor
\* of a name.
ReadFile ==
  /\ stage = "read" /\ Sharded(Format)
  /\ \E shard \in unread :
       IF DOMAIN FileTensors(shard) \cap DOMAIN stateDict = {}
       THEN /\ stateDict' = Updated(stateDict, FileTensors(shard))
            /\ unread' = unread \ {shard}
            /\ stage' = IF unread' = {} THEN "rename" ELSE "read"
       ELSE stage' = "failed" /\ UNCHANGED <<stateDict, unread>>
  /\ UNCHANGED <<stored, layer, module>>

\* get_state_dict takes the prefix "model." off every name that has it.
StripPrefix ==
  /\ stage = "rename"
  /\ stateDict' = [n \in {PlainName(m) : m \in DOMAIN stateDict} |->
                     IF n \in DOMAIN stateDict THEN stateDict[n] ELSE stateDict[HfName(n)]]
  /\ stage' = "experts"
  /\ UNCHANGED <<stored, unread, layer, module>>

------------------------------------------------------------------------------
(* convert_qwen_moe_to_neuron_state_dict *)

\* _apply_ft_overlay: names that the state dict lacks are skipped with a warning.
Overlaid(sd, names, from) ==
  [n \in DOMAIN sd |-> IF n \in names THEN One(n, from) ELSE sd[n]]

\* A LoRA pair is merged into the weight it belongs to; half a pair is skipped.  Without
\* a first half, the file's expert weights replace the checkpoint's.
OverlayExperts ==
  /\ stage = "experts"
  /\ stateDict' =
       IF stored.experts.loraA # {}
       THEN [n \in DOMAIN stateDict |->
               IF n \in stored.experts.loraA \cap stored.experts.loraB
               THEN <<[Head(stateDict[n]) EXCEPT !.tune = "lora"]>> ELSE stateDict[n]]
       ELSE Overlaid(stateDict, {n \in stored.experts.whole : n.expert # None}, "expert_ft")
  /\ stage' = "layers"
  /\ UNCHANGED <<stored, unread, layer, module>>

\* Fault: the last expert comes first.
WrongStack(sd, l, part) ==
  [i \in 1..NumCheckpointExperts |-> Head(sd[Name(l, part, NumCheckpointExperts - i)])]

\* The experts' projections side by side, in the order of the experts.
Stack(sd, l, part) ==
  [i \in 1..NumCheckpointExperts |-> Head(sd[Name(l, part, i - 1)])]

\* What a layer gets: a bias of zeros where there is none, the router under its new name,
\* a group head of zeros, stacks of experts, the shared expert under its new name.
Converted(sd, l) ==
  LET New(part) == Name(l, part, None)
      parts == {"linear_router", "gate_up_proj", "down_proj", "shared_experts.gate"}
                 \cup DOMAIN OldSharedPart
                 \cup (IF New("o_proj.bias") \in DOMAIN sd THEN {} ELSE {"o_proj.bias"})
                 \cup (IF stored.kernel = "hierarchical" THEN {"linear_group"} ELSE {})
      Value(part) ==
        CASE part \in {"o_proj.bias", "linear_group"} -> One(New(part), "zeros")
          [] part = "linear_router" -> sd[New("gate")]
          [] part = "gate_up_proj" -> Stack(sd, l, "gate_proj") \o Stack(sd, l, "up_proj")
          [] part = "down_proj" -> Stack(sd, l, "down_proj")
          [] part = "shared_experts.gate" -> sd[New("shared_expert_gate")]
          [] OTHER -> sd[New(OldSharedPart[part])]
  IN  [n \in {New(part) : part \in parts} |-> Value(n.part)]

\* The names that the conversion of a layer deletes.
Consumed(l) ==
  {Name(l, part, None) : part \in SharedParts \cup {"gate", "shared_expert_gate"}}
    \cup ExpertNames(l)

ConvertLayer ==
  /\ stage = "layers" /\ layer < NumLayers
  /\ stateDict' = Updated([n \in DOMAIN stateDict \ Consumed(layer) |-> stateDict[n]],
                          Converted(stateDict, layer))
  /\ layer' = layer + 1
  /\ UNCHANGED <<stored, stage, unread, module>>

OverlayRouter ==
  /\ stage = "layers" /\ layer = NumLayers
  /\ stateDict' = Overlaid(stateDict, stored.router, "router_ft")
  /\ stage' = "converted"
  /\ UNCHANGED <<stored, unread, layer, module>>

\* load_neuron_model_on_cpu: load_state_dict(strict=False) replaces every parameter of
\* the modules that the state dict names.
LoadModules ==
  /\ stage = "converted"
  /\ module' = [n \in DOMAIN module |-> IF n \in DOMAIN stateDict THEN stateDict[n] ELSE module[n]]
  /\ stage' = "loaded"
  /\ UNCHANGED <<stored, unread, layer, stateDict>>

CheckpointNext ==
  \/ BuildRouters \/ OpenCheckpoint \/ ReadWhole \/ ReadFile \/ StripPrefix
  \/ OverlayExperts \/ ConvertLayer \/ OverlayRouter \/ LoadModules

------------------------------------------------------------------------------

\* What an expert's projection is made of, by the files alone.
ExpertTensor(l, p, e) ==
  LET n == Name(l, p, e)
      paired == {m \in stored.experts.loraA : m \in stored.experts.loraB}
  IN  IF stored.experts.loraA = {} /\ n \in stored.experts.whole THEN Tensor(n, "expert_ft")
      ELSE [Tensor(n, Format) EXCEPT !.tune = IF n \in paired THEN "lora" ELSE "none"]

\* The experts of a layer are in their order, gate projections before up projections.
LayerArrives(l) ==
  LET At(part) == stateDict[Name(l, part, None)]
      All(p) == [i \in 1..NumCheckpointExperts |-> ExpertTensor(l, p, i - 1)]
  IN  /\ At("gate_up_proj") = All("gate_proj") \o All("up_proj")
      /\ At("down_proj") = All("down_proj")
      /\ At("o_proj.weight") = One(Name(l, "o_proj.weight", None), Format)
      /\ At("shared_experts.up_proj") = One(Name(l, "shared_expert.up_proj", None), Format)

\* Every layer has its own router, fine-tuned where the file has that layer.
RoutersArrive ==
  /\ DOMAIN module = {Name(l, part, None) : l \in LayerIds, part \in RouterParts}
  /\ \A n \in DOMAIN module :
       module[n] = IF n \in stored.router THEN One(n, "router_ft")
                   ELSE IF n.part = "linear_router" THEN One(Name(n.layer, "gate", None), Format)
                   ELSE One(n, "zeros")

\* convert_qwen_moe_to_neuron_state_dict, router_ft_checkpoint, expert_ft_checkpoint:
\* a model that loads has in each layer the experts of that layer, with the fine-tuning
\* of just those they name, and that layer's router, whatever layer the router was built
\* from; nothing keeps the name or the place of a single expert.
WeightsArrive ==
  stage = "loaded" =>
    /\ \A l \in LayerIds : LayerArrives(l)
    /\ RoutersArrive
    /\ \A n \in DOMAIN stateDict : n.expert = None /\ ~n.hf
==============================================================================
