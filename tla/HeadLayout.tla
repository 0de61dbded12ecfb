------------------------------ MODULE HeadLayout ------------------------------
(***************************************************************************)
(* Attention heads on the ranks of a tensor-parallel group (gqa.py).  The  *)
(* weights of a projection are the sequence of its heads: the head of the  *)
(* checkpoint by its number from 0, or NoHead for a block of zeros.  Scales *)
(* and biases are padded and replicated as the weights are.                *)
(***************************************************************************)
EXTENDS Integers, SequencesExt, FiniteSetsExt

CONSTANTS TpDegrees, HeadCounts   \* bounds for the checks

ASSUME HeadAssumption == TpDegrees \subseteq Nat \ {0} /\ HeadCounts \subseteq Nat \ {0}

VARIABLES
  arranged,   \* tp_degree, the attention's numbers of heads, and fused_qkv
  weights     \* the heads of the projections' weights: queries, keys (and values), outputs

headVars == <<arranged, weights>>

NoHead == -1

\* The heads of the checkpoint.
SourceHeads(n) == [i \in 1..n |-> i - 1]

\* determine_sharding_strategy, without a desired one.
DetermineShardingStrategy(tp, kv) ==
  IF tp % kv = 0 THEN "replicate-to-tp-degree" ELSE "convert-to-mha"

\* get_number_of_extra_heads is from the neuronx library: up to the next multiple.
PaddedHeads(q, tp) == ((q + tp - 1) \div tp) * tp

\* get_shardable_head_counts, of the keys and values.
ShardableKvHeads(tp, q, kv) ==
  CASE q = kv -> PaddedHeads(q, tp)
    [] q # kv /\ kv >= tp /\ kv % tp = 0 -> kv
    [] OTHER -> IF DetermineShardingStrategy(tp, kv) = "replicate-to-tp-degree"
                THEN tp ELSE PaddedHeads(q, tp)

\* _maybe_pad_interleaved: zeros after every group of the source.
PadInterleaved(heads, target, groupSize) ==
  LET groups == Len(heads) \div groupSize
      width  == groupSize + (target - Len(heads)) \div groups
  IN [i \in 1..(groups * width) |->
       LET place == (i - 1) % width
       IN IF place < groupSize THEN heads[((i - 1) \div width) * groupSize + place + 1]
          ELSE NoHead]

\* _maybe_pad_tail: as many zeros as turn each of the source's heads into
\* target / source of them.
PadTail(heads, source, target) ==
  heads \o [i \in 1..((Len(heads) \div source) * target - Len(heads)) |-> NoHead]

\* _replicate_kv: repeat_interleave.
ReplicateKv(heads, repeats) ==
  [i \in 1..(Len(heads) * repeats) |-> heads[(i - 1) \div repeats + 1]]

\* Zeros at the end although the keys are replicated in place.
WrongShardQ(tp, q, kv) == PadTail(SourceHeads(q), q, PaddedHeads(q, tp))

\* preshard_hook of the query projection.
ShardQ(tp, q, kv) ==
  IF DetermineShardingStrategy(tp, kv) = "replicate-to-tp-degree"
  THEN PadInterleaved(SourceHeads(q), PaddedHeads(q, tp), q \div kv)
  ELSE PadTail(SourceHeads(q), q, PaddedHeads(q, tp))

\* preshard_hook of the key and value projections.
ShardKv(tp, q, kv) ==
  LET replicates == DetermineShardingStrategy(tp, kv) = "replicate-to-tp-degree"
      target == ShardableKvHeads(tp, q, kv)
      heads == IF target = kv THEN SourceHeads(kv)
               ELSE ReplicateKv(SourceHeads(kv), IF replicates THEN tp \div kv ELSE q \div kv)
  IN IF replicates THEN heads ELSE PadTail(heads, kv, target)

\* preshard_hook of the output projection, whose columns are for the heads.
ShardO(tp, q, kv) ==
  IF DetermineShardingStrategy(tp, kv) = "replicate-to-tp-degree"
  THEN PadInterleaved(SourceHeads(q), PaddedHeads(q, tp), q \div kv)
  ELSE PadTail(SourceHeads(q), q, PaddedHeads(q, tp))

\* ColumnParallelLinear gives each rank an equal run of rows.
OfRank(heads, tp, rank) ==
  LET n == Len(heads) \div tp IN SubSeq(heads, rank * n + 1, (rank + 1) * n)

\* A fused weight is loaded as the shares of its three parts, for the numbers of heads
\* it is marked with.
FusedOfRank(Q, K, tp, rank) ==
  OfRank(Q, tp, rank) \o OfRank(K, tp, rank) \o OfRank(K, tp, rank)

\* GroupQueryAttention_QKV.forward: what the rank takes for its queries and its keys.
HeadsOfRank(a, w, rank) ==
  LET ends  == PaddedHeads(a.q, a.tp) \div a.tp
      keys  == ShardableKvHeads(a.tp, a.q, a.kv) \div a.tp
      fused == FusedOfRank(w.queries, w.keys, a.tp, rank)
  IN IF a.fused
     THEN [queries |-> SubSeq(fused, 1, ends), keys |-> SubSeq(fused, ends + 1, ends + keys)]
     ELSE [queries |-> OfRank(w.queries, a.tp, rank), keys |-> OfRank(w.keys, a.tp, rank)]

\* repeat_kv in the attention of a rank: the key head that a query head attends to.
PartnerOf(queries, keys, i) == keys[(i - 1) \div (Len(queries) \div Len(keys)) + 1]

HeadInit ==
  /\ arranged \in {a \in [tp : TpDegrees, q : HeadCounts, kv : HeadCounts,
                       fused : BOOLEAN] :
                     a.kv <= a.q /\ a.q % a.kv = 0}
  /\ weights = <<>>

\* The checkpoint is loaded: each projection's hook rewrites its weights.
Preshard ==
  /\ weights = <<>>
  /\ weights' = [queries |-> ShardQ(arranged.tp, arranged.q, arranged.kv),
                 keys |-> ShardKv(arranged.tp, arranged.q, arranged.kv),
                 outputs |-> ShardO(arranged.tp, arranged.q, arranged.kv)]
  /\ UNCHANGED arranged

------------------------------------------------------------------------------

\* The layouts of grouped heads that do not have to become one key head a query head,
\* for which preshard_hook pads the replicated keys once more.
KeepsGroups(tp, q, kv) == q = kv \/ tp % kv = 0 \/ kv % tp = 0

\* gqa.py: "Q heads are padded interleaved to retain correct alignment between Q and
\* K/V heads".  No query head of the checkpoint is lost or doubled, the weights have the
\* layers' sizes, and on its rank every query head meets the key head of its group and
\* its own columns of the output projection.
HeadsStayAligned ==
  LET tp == arranged.tp
      q  == arranged.q
      kv == arranged.kv
  IN weights # <<>> /\ KeepsGroups(tp, q, kv) =>
       /\ Len(weights.queries) = PaddedHeads(q, tp)
       /\ Len(weights.keys) = ShardableKvHeads(tp, q, kv)
       /\ \A h \in 0..(q - 1) :
            Cardinality({i \in DOMAIN weights.queries : weights.queries[i] = h}) = 1
       /\ \A rank \in 0..(tp - 1) :
            LET here    == HeadsOfRank(arranged, weights, rank)
                outputs == OfRank(weights.outputs, tp, rank)
            IN \A i \in DOMAIN here.queries :
                 here.queries[i] # NoHead =>
                   /\ PartnerOf(here.queries, here.keys, i) = here.queries[i] \div (q \div kv)
                   /\ outputs[i] = here.queries[i]
==============================================================================
