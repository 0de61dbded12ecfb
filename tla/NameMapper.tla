------------------------------ MODULE NameMapper ------------------------------
(***************************************************************************)
(* trace/tensor_name_mapper.py: the table of a compiled graph names its    *)
(* tensors input0, input1, ..., and the mapper tells from slots and shapes *)
(* which layer and part of the model each one is.  A shape is the sequence *)
(* of its dimensions, <<>> when the table gives none; a name is a layer,   *)
(* -1 for none, a part, and the variable where the name spells it out.     *)
(***************************************************************************)
EXTENDS Integers, SequencesExt, FiniteSetsExt, TLC

CONSTANTS
  Graphs,     \* by name: a table's nodes, what each is, and the transfers of a profile
  NoName      \* no variable in a name, no table entry

\* Python's None is not the name of a tensor.
ASSUME GraphsAssumption ==
  \A g \in DOMAIN Graphs :
    /\ Graphs[g].nodes \in Seq(ToSet(Graphs[g].nodes))
    /\ \A n \in ToSet(Graphs[g].nodes) : n.variable # NoName

VARIABLES
  graph,
  mapper,     \* the configuration found by auto_detect_config
  listed,     \* nodes of the table that are in the catalog
  catalog,    \* by_variable
  transfers,  \* DMA variables still to be resolved
  resolved    \* what resolve_dma found for each of the others

mapperVars == <<graph, mapper, listed, catalog, transfers, resolved>>

Table == Graphs[graph].nodes
Nodes == ToSet(Table)
InputNodes == {n \in Nodes : n.variable.kind = "input"}
OutputNodes == {n \in Nodes : n.variable.kind = "output"}

------------------------------------------------------------------------------
(* Shapes *)

\* classify_kv_shape: a cache of one sequence, with the positions before or after
\* the heads.
KvLayout(s) ==
  IF Len(s) # 4 \/ ~(s[1] = 1 /\ s[4] \in {64, 128}) THEN "none"
  ELSE IF s[2] >= 8 /\ s[3] <= 32 THEN "bshd"
  ELSE IF s[2] <= 32 /\ s[3] >= 8 THEN "bhsd"
  ELSE "none"

IsKv(s) == KvLayout(s) # "none"

IsWorkspace(s) == Len(s) = 5 /\ s[1] = 8 /\ s[2] = 128 /\ s[5] = 128

IsKeyTile(s) == s = <<128, 16, 2, 64>>

IsValueTile(s) == Len(s) = 5 /\ SubSeq(s, 1, 4) = <<128, 16, 2, 2>>

PlausibleExperts(n) == n \in 4..256

IsExpertShape(s) ==
  \/ Len(s) = 2 /\ PlausibleExperts(s[1]) /\ s[2] >= 512
  \/ Len(s) = 3 /\ PlausibleExperts(s[1]) /\ s[3] >= 512

------------------------------------------------------------------------------
(* What a mapper finds out about its graph *)

\* _looks_like_qwen_moe_graph
LooksLikeQwen ==
  LET experts == Cardinality({n \in InputNodes : IsExpertShape(n.shape)})
      caches  == Cardinality({n \in InputNodes : KvLayout(n.shape) = "bhsd"})
  IN  experts >= 12 \/ (experts >= 2 /\ caches >= 4)

KvNodes(nodes) == {n \in nodes : IsKv(n.shape)}

\* Two caches a layer, or the default of the class.
LayerCount(default) ==
  LET n == Cardinality(KvNodes(InputNodes))
  IN  IF n = 0 THEN default ELSE Max({1, n \div 2})

\* The last input of the table with two dimensions of which the first is in S.
LastMatrix(S) ==
  LET found == SelectSeq(Table, LAMBDA n :
                 n.variable.kind = "input" /\ Len(n.shape) = 2 /\ n.shape[1] \in S)
  IN  IF found = <<>> THEN <<>> ELSE Last(found).shape

Llama == [class |-> "llama", layers |-> LayerCount(16), hidden |-> 2048]

\* The intermediate size that each weight suggests, in the order of the table.
MoeCandidates(hidden, experts, tp) ==
  LET Of(n) ==
        LET s == n.shape
        IN CASE Len(s) = 2 /\ s[1] = hidden /\ s[2] \in 257..(hidden - 1) -> <<s[2]>>
             [] Len(s) = 2 /\ s[2] = hidden /\ s[1] \in 257..(hidden - 1) -> <<s[1]>>
             [] Len(s) = 3 /\ s[1] = experts /\ s[2] = hidden /\ s[3] < hidden ->
                  <<Max({1, (s[3] * tp) \div 2})>>
             [] Len(s) = 3 /\ s[1] = experts /\ s[3] = hidden /\ s[2] < hidden ->
                  <<Max({1, s[2] * tp})>>
             [] OTHER -> <<>>
  IN  FlattenSeq([i \in DOMAIN Table |-> Of(Table[i])])

\* _infer_moe_intermediate_size: the most frequent candidate, the first one of equals.
MoeIntermediate(hidden, experts, tp) ==
  LET all     == MoeCandidates(hidden, experts, tp)
      found   == SelectSeq(all, LAMBDA c : c >= 352 /\ c # 512)
      Count(c) == Cardinality({i \in DOMAIN found : found[i] = c})
      First(c) == Min({i \in DOMAIN found : found[i] = c})
  IN  IF all = <<>> THEN 1408
      ELSE IF found = <<>> THEN Max(ToSet(all))
      ELSE CHOOSE c \in ToSet(found) : \A d \in ToSet(found) :
             Count(d) < Count(c) \/ (Count(d) = Count(c) /\ First(c) <= First(d))

\* QwenMoENameMapper.auto_detect_config.  The number of heads is always 16.
Qwen ==
  LET caches  == KvNodes(InputNodes)
      first   == CHOOSE n \in caches : \A o \in caches : n.variable.index <= o.variable.index
      lmHead  == LastMatrix(Nat \ 0..100000)
      vocab   == LastMatrix(5001..100000)
      expert  == {n.shape[1] : n \in {m \in InputNodes \ caches : IsExpertShape(m.shape)}}
      experts == IF expert = {} THEN 60 ELSE Max(expert)
      tp      == IF vocab # <<>> /\ lmHead # <<>> THEN Max({1, lmHead[1] \div vocab[1]}) ELSE 4
      hidden  == IF vocab # <<>> THEN vocab[2] ELSE IF lmHead # <<>> THEN 4 * lmHead[2] ELSE 2048
      headDim == IF caches = {} THEN 128 ELSE first.shape[4]
  IN  [class |-> "qwen", layers |-> LayerCount(24), hidden |-> hidden, experts |-> experts,
       proj |-> (16 * headDim) \div tp, moe |-> MoeIntermediate(hidden, experts, tp)]

------------------------------------------------------------------------------
(* Slots of one shape *)

\* _build_layer_groups: the numbers of the inputs of each shape.
LayerGroups ==
  [shape \in {n.shape : n \in InputNodes} |->
     {n.variable.index : n \in {o \in InputNodes : o.shape = shape}}]

\* _build_kv_slots: the numbers of the caches among the inputs and the outputs.
CacheSlots ==
  [input  |-> {n.variable.index : n \in KvNodes(InputNodes)},
   output |-> {n.variable.index : n \in KvNodes(OutputNodes)}]

\* create_mapper_for_tensors
NewMapper ==
  (IF LooksLikeQwen THEN Qwen ELSE Llama) @@ [groups |-> LayerGroups, caches |-> CacheSlots]

\* Places before a slot among others, by number.
PositionIn(slots, n) == Cardinality({i \in slots : i < n.variable.index})

Position(n) == PositionIn(mapper.groups[n.shape], n)

GroupSize(shape) == Cardinality(mapper.groups[shape])

\* How many slots of a shape each layer has, and whether one more comes last: none
\* for a size that fits no such pattern.
GroupKinds(shape) ==
  LET size == GroupSize(shape)
  IN  {k \in [each : {1, 2, 3}, extra : {0, 1}] : size = k.each * mapper.layers + k.extra}
        \cup {k \in {[each |-> 9, extra |-> 0]} : size = 9 * mapper.layers}

\* Fault: the trailing slot of a group is taken as one of a layer.
WrongIsTrailing(n) == FALSE

\* _is_final_norm_slot
IsTrailing(n) ==
  Position(n) = GroupSize(n.shape) - 1 /\ \E k \in GroupKinds(n.shape) : k.extra = 1

\* _layer_index_in_group.  No size fits two patterns when there are two layers or more.
LayerIndex(n) ==
  IF GroupSize(n.shape) = 1 THEN 0
  ELSE IF GroupKinds(n.shape) = {} \/ IsTrailing(n) THEN -1
  ELSE Position(n) \div (CHOOSE k \in GroupKinds(n.shape) : TRUE).each

------------------------------------------------------------------------------
(* Names *)

Info(layer, part, category) ==
  [name |-> [layer |-> layer, part |-> part, of |-> NoName], category |-> category]

Own(variable, part, category) ==
  [name |-> [layer |-> -1, part |-> part, of |-> variable], category |-> category]

\* A layer's part, or a part that names its variable when the layer is not known.
InLayer(n, part, category) ==
  IF LayerIndex(n) >= 0 THEN Info(LayerIndex(n), part, category)
  ELSE Own(n.variable, part, category)

\* The mappers are lists of rules, of which the first that applies counts.
Rule(applies, info) == [applies |-> applies, info |-> info]

FirstRule(rules) == rules[CHOOSE i \in DOMAIN rules : rules[i].applies
                                    /\ \A j \in 1..(i - 1) : ~rules[j].applies].info

\* Keys and values alternate.
KvInfo(position, keys, values) ==
  Info(position \div 2, IF position % 2 = 0 THEN keys ELSE values, "kv_cache")

Unknown(n) == Own(n.variable, "unknown", "unknown")

FinalNorm == Info(-1, "final_norm", "norm_weight")

\* The first slots are the same in both classes.  Every other slot with the shape of a
\* cache is among the cache's slots, so that the guesses for caches by the slot's
\* number or by the shape alone are never reached.
CommonRules(n) ==
  << Rule(n.variable.index = 0, Info(-1, "tokens", "runtime_input")),
     Rule(n.variable.index = 1, Info(-1, "position", "runtime_input")),
     Rule(n.variable.index = 2, Info(-1, "attention_mask", "runtime_input")),
     Rule(IsKv(n.shape), KvInfo(PositionIn(mapper.caches.input, n), "cache_k", "cache_v")) >>

\* _map_nxdi_decode_shape
TiledRules(n) ==
  LET s == n.shape
      Staging == <<"kv_staging_0", "kv_staging_1", "kv_staging_2">>[(Position(n) % 3) + 1]
      Norm == <<"attention_norm", "mlp_norm">>[(Position(n) % 2) + 1]
  IN
  << Rule(IsWorkspace(s), InLayer(n, Staging, "kv_cache")),
     Rule(IsKeyTile(s), InLayer(n, "cache_k_tile", "kv_cache")),
     Rule(IsValueTile(s), InLayer(n, "cache_v_tile", "kv_cache")),
     Rule(Len(s) = 6 /\ s[1] = 4 /\ s[6] = 128, InLayer(n, "qkv_tile", "attention_weight")),
     Rule(Len(s) = 6 /\ s[1] = 2 /\ s[2] = 128, InLayer(n, "wo", "attention_weight")),
     Rule(s = <<128, 16>> /\ IsTrailing(n), FinalNorm),
     Rule(s = <<128, 16>>, InLayer(n, Norm, "norm_weight")),
     Rule(Len(s) = 2 /\ s[1] > 100000, Info(-1, "embedding", "embedding")),
     Rule(Len(s) = 2 /\ s[1] > 5000 /\ s[2] = mapper.hidden, Info(-1, "output", "weight")) >>

\* _map_layer_weight
LayerWeights ==
  << [part |-> "wq", category |-> "attention_weight"],
     [part |-> "wk", category |-> "attention_weight"],
     [part |-> "attention_norm", category |-> "norm_weight"],
     [part |-> "wv", category |-> "attention_weight"],
     [part |-> "wo", category |-> "attention_weight"],
     [part |-> "gate_proj", category |-> "mlp_weight"],
     [part |-> "up_proj", category |-> "mlp_weight"],
     [part |-> "mlp_norm", category |-> "norm_weight"],
     [part |-> "down_proj", category |-> "mlp_weight"] >>

\* The fixed order of slots of a dense graph.
IndexRules(n) ==
  LET embedding == 3 + 2 * mapper.layers
      after     == n.variable.index - embedding - 1   \* slots after the embedding
      weight    == LayerWeights[(after % 9) + 1]
      total     == 9 * mapper.layers
  IN
  << Rule(after = -1, Info(-1, "embedding", "embedding")),
     Rule(after \in 0..(total - 1), Info(after \div 9, weight.part, weight.category)),
     Rule(after = total, Info(-1, "output", "weight")),
     Rule(after = total + 1, FinalNorm) >>

\* _infer_from_shape
InferRules(n) ==
  << Rule(Len(n.shape) = 2 /\ n.shape[1] > 10000, Info(-1, "embedding_like", "embedding")),
     Rule(Len(n.shape) = 1, Own(n.variable, "norm", "norm_weight")) >>

\* LLaMANameMapper._map_input_tensor
LlamaInput(n) ==
  FirstRule(CommonRules(n) \o TiledRules(n) \o IndexRules(n) \o InferRules(n)
            \o << Rule(Len(n.shape) >= 5, Own(n.variable, "activation", "runtime_input")),
                  Rule(TRUE, Unknown(n)) >>)

\* _map_moe_weight_shape.  A slot whose layer is not known gets no name here.
MoeRules(n) ==
  LET s     == n.shape
      layer == LayerIndex(n)
      H     == mapper.hidden
      E     == mapper.experts
      at    == Position(n)
      Shard(part) ==
        IF GroupSize(s) # 3 * mapper.layers THEN part
        ELSE part \o <<".tp0", ".tp1", ".tp2">>[(at % 3) + 1]
      InKnownLayer(applies, part, category) ==
        Rule(layer >= 0 /\ applies, Info(layer, part, category))
      Projection == IF GroupSize(s) = mapper.layers THEN "qkv_proj"
                    ELSE <<"wq", "wk", "wv">>[(at % 3) + 1]
      Down == IF GroupSize(s) = 2 * mapper.layers
              THEN <<"shared_down_proj", "shared_down_buffer">>[(at % 2) + 1] ELSE "shared_down_proj"
  IN
  << Rule(Len(s) = 2 /\ s[1] > 50000, Info(-1, "output", "output_weight")),
     Rule(Len(s) = 2 /\ s[1] > 5000 /\ s[2] = H, Info(-1, "embedding", "embedding")),
     Rule(s = <<H>> /\ IsTrailing(n), FinalNorm),
     InKnownLayer(s = <<H>>, "norm", "norm_weight"),
     InKnownLayer(s = <<E, H>>, "router", "moe_weight"),
     InKnownLayer(Len(s) = 3 /\ s[1] = E /\ s[2] = H /\ s[3] # H, "gate_up", "moe_weight"),
     InKnownLayer(Len(s) = 3 /\ s[1] = E /\ s[3] = H /\ s[2] < H, "down_proj", "moe_weight"),
     InKnownLayer(s = <<H, mapper.proj>>, Projection, "attention_weight"),
     InKnownLayer(s = <<mapper.proj, H>>, Shard("wo"), "attention_weight"),
     InKnownLayer(s = <<H, mapper.moe>>, <<"shared_gate_proj", "shared_up_proj">>[(at % 2) + 1],
                  "mlp_weight"),
     InKnownLayer(s = <<mapper.moe, H>>, Down, "mlp_weight"),
     InKnownLayer(s = <<1, H>>, "input_layernorm", "norm_weight"),
     InKnownLayer(s = <<mapper.proj>>, Shard("bias"), "attention_weight") >>

\* QwenMoENameMapper._map_input_tensor
QwenInput(n) ==
  FirstRule(CommonRules(n) \o MoeRules(n) \o InferRules(n) \o << Rule(TRUE, Unknown(n)) >>)

\* _map_output_tensor
Output(n) ==
  FirstRule(
    << Rule(n.variable.index = 0, Info(-1, "logits", "output_weight")),
       Rule(IsKv(n.shape),
            KvInfo(PositionIn(mapper.caches.output, n), "cache_k_out", "cache_v_out")),
       Rule(TRUE, Own(n.variable, "output", "output_weight")) >>)

\* _map_weight_tensor: constants of the compiler, known by their names or as small.
CompilerWeight(n) ==
  IF n.variable.kind = "compiler" \/ (Len(n.shape) \in 1..4 /\ Max(ToSet(n.shape)) <= 256)
  THEN Own(n.variable, "compiler_constant", "runtime_input")
  ELSE Own(n.variable, "weight", "weight")

\* map_tensor, whose cache of results changes none.
MapTensor(n) ==
  CASE n.variable.kind = "input" -> IF mapper.class = "qwen" THEN QwenInput(n) ELSE LlamaInput(n)
    [] n.variable.kind = "output" -> Output(n)
    [] n.variable.kind \notin {"input", "output"} /\ n.type = "WEIGHT" -> CompilerWeight(n)
    [] OTHER -> Unknown(n)

\* mapper_category_to_sim
SimCategory(category) ==
  CASE category = "kv_cache" -> "KV_CACHE"
    [] category \in {"attention_weight", "mlp_weight", "moe_weight", "embedding", "norm_weight",
                     "weight", "output_weight"} -> "WEIGHT"
    [] category = "runtime_input" -> "ACTIVATION"
    [] OTHER -> "OTHER"

------------------------------------------------------------------------------
(* The catalog: NeffTensorCatalog *)

Entry(variable, name, category, bytes, type) ==
  [variable |-> variable, name |-> name, category |-> category, bytes |-> bytes, type |-> type]

\* _entry_from_node
EntryOf(n) ==
  LET info == MapTensor(n)
  IN  Entry(n.variable, info.name, SimCategory(info.category), n.bytes, n.type)

\* Fault: the id is the name alone.
WrongTensorId(e) == [name |-> e.name, slot |-> NoName]

\* tensor_id: only a slot of the table keeps its number.
TensorId(e) ==
  [name |-> e.name, slot |-> IF e.variable.kind \in {"input", "output"} THEN e.variable ELSE NoName]

EntriesOfSize(n) == SelectSeq([i \in DOMAIN Table |-> catalog[Table[i].variable]],
                       LAMBDA e : e.bytes = n)

\* A variable that stands for an entry of the catalog keeps all but its size.
StandsFor(d, e) == Entry(d.variable, e.name, e.category, Max({d.bytes, e.bytes}), e.type)

Temporary(d, category) ==
  Entry(d.variable, [layer |-> -1, part |-> "temporary", of |-> d.variable], category, d.bytes, "IN")

\* _category_from_dma_shape
ShapeCategory(s) ==
  IF IsKv(s) \/ IsWorkspace(s) \/ IsKeyTile(s) \/ IsValueTile(s) THEN "KV_CACHE"
  ELSE IF Len(s) = 2 /\ s[1] > 1000 THEN "WEIGHT" ELSE "OTHER"

\* The entries of one category, when there is just one.
Sole(entries, category) ==
  LET found == SelectSeq(entries, LAMBDA e : e.category = category)
  IN  IF Len(found) = 1 THEN found ELSE <<>>

\* _pick_ambiguous, of several entries; a transfer from a weight never comes here.
Picked(entries, d) ==
  IF Len(entries) = 1 THEN entries
  ELSE IF Sole(entries, "KV_CACHE") # <<>> THEN Sole(entries, "KV_CACHE")
  ELSE IF d.remote THEN Sole(entries, "ACTIVATION") ELSE <<>>

\* resolve_dma: by name, by the names in a list, by the kind of temporary, by size, and
\* by shape.  NoName stands for None.
ResolveDma(d) ==
  LET listedIn == SelectSeq(d.parts, LAMBDA v : v \in DOMAIN catalog)
      ofWeight == SelectSeq(EntriesOfSize(d.bytes), LAMBDA e : e.type = "WEIGHT")
      entries  == Picked(EntriesOfSize(d.bytes), d)
  IN  CASE d.variable \in DOMAIN catalog -> catalog[d.variable]
        [] d.variable \notin DOMAIN catalog /\ listedIn # <<>> ->
             StandsFor(d, catalog[Head(listedIn)])
        [] OTHER ->
             IF d.variable.kind = "moved" THEN Temporary(d, "ACTIVATION")
             ELSE IF d.variable.kind \in {"input", "output"} THEN NoName
             ELSE IF d.fromWeight THEN
               IF Len(ofWeight) = 1 THEN StandsFor(d, ofWeight[1])
               ELSE [Temporary(d, "WEIGHT") EXCEPT !.type = "WEIGHT"]
             ELSE IF entries # <<>> THEN StandsFor(d, entries[1])
             ELSE Temporary(d, ShapeCategory(d.shape))

------------------------------------------------------------------------------

MapperInit ==
  /\ graph \in DOMAIN Graphs
  /\ mapper = NoName /\ listed = 0 /\ catalog = <<>>
  /\ transfers = Graphs[graph].transfers /\ resolved = <<>>

CreateMapper ==
  /\ mapper = NoName
  /\ mapper' = NewMapper
  /\ UNCHANGED <<graph, listed, catalog, transfers, resolved>>

AddNode ==
  /\ mapper # NoName /\ listed < Len(Table)
  /\ listed' = listed + 1
  /\ LET e == EntryOf(Table[listed + 1])
     IN catalog' = [v \in DOMAIN catalog \cup {e.variable} |->
                      IF v = e.variable THEN e ELSE catalog[v]]
  /\ UNCHANGED <<graph, mapper, transfers, resolved>>

ResolveTransfer ==
  /\ listed = Len(Table) /\ transfers # <<>>
  /\ transfers' = Tail(transfers)
  /\ resolved' = [d \in DOMAIN resolved \cup {Head(transfers)} |->
                    IF d = Head(transfers) THEN ResolveDma(d) ELSE resolved[d]]
  /\ UNCHANGED <<graph, mapper, listed, catalog>>

MapperNext == CreateMapper \/ AddNode \/ ResolveTransfer
==============================================================================
