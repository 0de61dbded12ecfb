------------------------------- MODULE MCIngest -------------------------------
(***************************************************************************)
(* A small instance of Profile.  Rows: a weight and a cache in the NEFF    *)
(* table, a temporary that resolves by size, unattributed DMA spread over  *)
(* four categories, rows below the minimum or on other routes, and two     *)
(* layers.  Tables: the slots that TENSOR_MAPPER_AUDIT.md observes (4.1,   *)
(* 4.2) and the dense layout of the class comment of LLaMANameMapper, for  *)
(* models of a few layers.                                                 *)
(***************************************************************************)
EXTENDS Profile

MCCatalog == [w |-> 3, kv |-> 2]
MCBySize == (3 :> "weight") @@ (2 :> "kv_cache")
MCTargets == <<[id |-> "traffic_weight", weight |-> 1], [id |-> "traffic_hidden", weight |-> 1],
               [id |-> "traffic_kv", weight |-> 6], [id |-> "traffic_other", weight |-> 1]>>

MCLayers ==
  (0 :> <<[start |-> 1, end |-> 2], [start |-> 2, end |-> 3]>>)
  @@ (1 :> <<[start |-> 2, end |-> 2]>>)

Row(v, r, n, t) == [variable |-> v, route |-> r, bytes |-> n, at |-> t]

MCRows ==
  {Row("w", "load", 3, 2), Row("w", "spill", 2, 1), Row("kv", "dynamic", 5, 2),
   Row("tmp", "output", 3, 1), Row("tmp", "load", 5, 3), Row("unknown", "load", 3, 2),
   Row("unknown", "dynamic", 3, 2), Row("unknown", "dynamic", 9, 1),
   Row("w", "load", 1, 1), Row("w", "internal", 3, 1)}

MCOtherRows == {Row("w", "load", 3, 2), Row("w", "spill", 5, 3), Row("unknown", "dynamic", 9, 2)}

Options(devices) == [aggregate : BOOLEAN, skip : BOOLEAN, dma : devices]

\* A core alone with up to three rows, and two cores with up to two rows each.
MCInputs ==
  Options([{1} -> SeqOf(MCRows, 3)])
  \cup Options({(0 :> s) @@ (1 :> u) : s \in SeqOf(MCRows, 2), u \in SeqOf(MCOtherRows, 2)})

------------------------------------------------------------------------------
(* Tables *)

\* The slots of one shape in a layer, or of the whole graph.
Kind(shape, category, bytes, parts) ==
  [shape |-> shape, category |-> category, bytes |-> bytes, parts |-> parts]

Cache(shape) == Kind(shape, "KV_CACHE", 4, <<"cache_k", "cache_v">>)

Parameter(shape, parts) == Kind(shape, "WEIGHT", 5, parts)

Runtime ==
  << Kind(<<1, 1>>, "ACTIVATION", 1, <<"tokens">>), Kind(<<1, 256>>, "ACTIVATION", 1, <<"position">>),
     Kind(<<1, 1>>, "ACTIVATION", 1, <<"attention_mask">>) >>

TiledLlama ==
  [cache |-> Cache(<<1, 2, 256, 64>>),
   layer |-> << Kind(<<8, 128, 16, 2, 128>>, "KV_CACHE", 6,
                     <<"kv_staging_0", "kv_staging_1", "kv_staging_2">>),
                Parameter(<<4, 64, 2, 4, 4, 128>>, <<"qkv_tile">>),
                Parameter(<<128, 16>>, <<"attention_norm", "mlp_norm">>),
                Kind(<<128, 16, 2, 64>>, "KV_CACHE", 7, <<"cache_k_tile">>),
                Parameter(<<2, 128, 16, 4, 2, 32>>, <<"wo">>),
                Kind(<<128, 16, 2, 2, 32>>, "KV_CACHE", 7, <<"cache_v_tile">>) >>,
   whole |-> << Parameter(<<128256, 512>>, <<"embedding">>), Parameter(<<32064, 2048>>, <<"output">>),
                Parameter(<<128, 16>>, <<"final_norm">>) >>,
   constant |-> <<128, 128, 1, 1>>]

QwenMoe(projections) ==
  [cache |-> Cache(<<1, 4, 256, 128>>),
   layer |-> << Parameter(<<60, 2048>>, <<"router">>), Parameter(<<60, 2048, 704>>, <<"gate_up">>),
                Parameter(<<60, 352, 2048>>, <<"down_proj">>), Parameter(<<2048, 512>>, projections),
                Parameter(<<512, 2048>>, <<"wo.tp0", "wo.tp1", "wo.tp2">>),
                Parameter(<<2048>>, <<"norm", "norm", "norm">>),
                Parameter(<<512>>, <<"bias.tp0", "bias.tp1", "bias.tp2">>),
                Parameter(<<2048, 1408>>, <<"shared_gate_proj", "shared_up_proj">>),
                Parameter(<<1408, 2048>>, <<"shared_down_proj", "shared_down_buffer">>),
                Parameter(<<1, 2048>>, <<"input_layernorm">>) >>,
   whole |-> << Parameter(<<151936, 512>>, <<"output">>), Parameter(<<37984, 2048>>, <<"embedding">>),
                Parameter(<<2048>>, <<"final_norm">>) >>,
   constant |-> <<64, 128, 1, 1>>]

DenseLlama ==
  [cache |-> Cache(<<1, 128, 2, 64>>),
   first |-> Parameter(<<128256, 512>>, <<"embedding">>),
   layer |-> << Parameter(<<2048, 512>>, <<"wq">>), Parameter(<<128, 2048>>, <<"wk">>),
                Parameter(<<2048>>, <<"attention_norm">>), Parameter(<<128, 2048>>, <<"wv">>),
                Parameter(<<512, 2048>>, <<"wo">>), Parameter(<<2048, 2048>>, <<"gate_proj", "up_proj">>),
                Parameter(<<2048>>, <<"mlp_norm">>), Parameter(<<2048, 2048>>, <<"down_proj">>) >>,
   whole |-> << Parameter(<<32064, 2048>>, <<"output">>), Parameter(<<2048>>, <<"final_norm">>) >>,
   constant |-> <<32, 128, 1, 1>>]

Slot(kind, layer, i) ==
  [shape |-> kind.shape, bytes |-> kind.bytes, layer |-> layer, part |-> kind.parts[i],
   category |-> kind.category]

SlotsOfKind(kind, layer) == [i \in DOMAIN kind.parts |-> Slot(kind, layer, i)]

SlotsOfKinds(kinds, layer) ==
  FlattenSeq([k \in DOMAIN kinds |-> SlotsOfKind(kinds[k], layer)])

LayerSlots(kinds, layers, byLayer) ==
  IF byLayer THEN FlattenSeq([l \in 1..layers |-> SlotsOfKinds(kinds, l - 1)])
  ELSE FlattenSeq([k \in DOMAIN kinds |->
         FlattenSeq([l \in 1..layers |-> SlotsOfKind(kinds[k], l - 1)])])

Outputs(layout, layers) ==
  LET updated == [layout.cache EXCEPT !.parts = <<"cache_k_out", "cache_v_out">>]
  IN  SlotsOfKind(Kind(<<128256>>, "WEIGHT", 8, <<"logits">>), -1)
        \o LayerSlots(<<updated>>, layers, TRUE)

Constants(layout) ==
  SlotsOfKinds(<<Kind(layout.constant, "ACTIVATION", 9, <<"compiler_constant">>),
                 Kind(layout.constant, "ACTIVATION", 10, <<"compiler_constant">>)>>, -1)

\* DMA variables: a list with a cache and one without, temporaries of the size of one
\* tensor, of several and of none, one from a weight, a collective, a slot that is not
\* in the table, and one with the shape of a cache.
MCTransfers ==
  LET V(kind, i) == [kind |-> kind, index |-> i]
      D(v, parts, n, fromWeight, remote, shape) ==
        [variable |-> v, parts |-> parts, bytes |-> n, fromWeight |-> fromWeight,
         remote |-> remote, shape |-> shape]
  IN <<D(V("other", 1), <<V("input", 99), V("input", 4)>>, 9, FALSE, FALSE, <<>>),
       D(V("other", 2), <<V("input", 98)>>, 8, FALSE, FALSE, <<>>),
       D(V("other", 3), <<>>, 5, FALSE, TRUE, <<2048, 1>>),
       D(V("other", 4), <<>>, 9, TRUE, FALSE, <<>>),
       D(V("other", 5), <<>>, 77, FALSE, FALSE, <<1, 128, 2, 64>>),
       D(V("moved", 1), <<>>, 8, FALSE, FALSE, <<>>),
       D(V("input", 99), <<>>, 8, FALSE, FALSE, <<>>),
       D(V("input", 3), <<>>, 2, FALSE, FALSE, <<>>)>>

TableOf(inputs, outputs, constants, reversed) ==
  LET Named(slots, kind, type) ==
        [i \in DOMAIN slots |->
           [variable |-> [kind |-> kind, index |-> i - 1], shape |-> slots[i].shape,
            type |-> type, bytes |-> slots[i].bytes, meant |-> slots[i]]]
      all == Named(inputs, "input", "IN") \o Named(outputs, "output", "OUT")
               \o Named(constants, "compiler", "WEIGHT")
  IN [nodes |-> IF reversed THEN Reverse(all) ELSE all,
      meant |-> [v \in {n.variable : n \in ToSet(all)} |->
                   (CHOOSE n \in ToSet(all) : n.variable = v).meant],
      transfers |-> MCTransfers]

Layout(name) ==
  CASE name = "llama"    -> TiledLlama
    [] name = "qwen"     -> QwenMoe(<<"qkv_proj">>)
    [] name = "qwen wqkv" -> QwenMoe(<<"wq", "wk", "wv">>)

\* Slots in the order of the layers or of the kinds, the caches before or after them.
MixedSlots(g) ==
  LET caches == LayerSlots(<<Layout(g.layout).cache>>, g.layers, TRUE)
      others == LayerSlots(Layout(g.layout).layer, g.layers, g.byLayer)
  IN SlotsOfKinds(Runtime, -1)
       \o (IF g.cachesLast THEN others \o caches ELSE caches \o others)
       \o SlotsOfKinds(Layout(g.layout).whole, -1)

DenseSlots(g) ==
  SlotsOfKinds(Runtime, -1) \o LayerSlots(<<DenseLlama.cache>>, g.layers, TRUE)
    \o SlotsOfKind(DenseLlama.first, -1) \o LayerSlots(DenseLlama.layer, g.layers, TRUE)
    \o SlotsOfKinds(DenseLlama.whole, -1)

GraphsByName ==
  [g \in [layout : {"llama", "qwen", "qwen wqkv"}, layers : 2..3, byLayer : BOOLEAN,
          cachesLast : BOOLEAN, reversed : BOOLEAN]
           \cup [layout : {"dense"}, layers : 2..3, byLayer : {TRUE}, cachesLast : {FALSE},
                reversed : BOOLEAN]
   |-> LET slots  == IF g.layout = "dense" THEN DenseSlots(g) ELSE MixedSlots(g)
           layout == IF g.layout = "dense" THEN DenseLlama ELSE Layout(g.layout)
       IN TableOf(slots, Outputs(layout, g.layers), Constants(layout), g.reversed)]

\* As a function that is computed once.
MCGraphs == GraphsByName @@ <<>>
==============================================================================
