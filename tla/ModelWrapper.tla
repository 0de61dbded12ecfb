---------------------------- MODULE ModelWrapper ----------------------------
(***************************************************************************)
(* How a call reaches a model that was compiled for a fixed batch size     *)
(* (model_wrapper.py): calls are cut into batches, the last batch is       *)
(* filled up, and rows are sorted by cache line and the answers put back.  *)
(*                                                                         *)
(* A row of a call is the line of its sequence (its seq_id) with           *)
(*   - the prompt's tokens, padded to the longest one compiled, and their  *)
(*     number (context encoding), or                                       *)
(*   - its newest token and the position of that token (token generation). *)
(* The answer to a row is the tokens that its logits are computed from, so *)
(* that an answer tells which sequence it belongs to.                      *)
(***************************************************************************)
EXTENDS KVCache, Buckets

CONSTANTS
  MaxContext,   \* the longest prompt the context encoding model is compiled for
  MinBucket,    \* the smallest bucket (128 in model_base.py)
  Pad           \* the tokenizer's padding token

ContextBuckets == GenerateBuckets(MinBucket, MaxContext)
GenerationBuckets == GenerateBuckets(MinBucket, MaxLength)

\* pad_to_max_compiled_seq: a prompt padded on the right.
PromptRow(line, prompt) ==
  [line |-> line, length |-> Len(prompt),
   tokens |-> [i \in 1..MaxContext |-> IF i <= Len(prompt) THEN prompt[i] ELSE Pad]]

\* What the bucket kernel takes for the prompt's length.
CountedLength(row) == Cardinality({i \in DOMAIN row.tokens : row.tokens[i] # Pad})

\* NeuronBaseModel.forward, encoding prompts: the logits are those of the last
\* token, which only sees the tokens before it.
EncodeContext(cache, continuous, rows) ==
  LET bucket == ContextBucket(ContextBuckets, {CountedLength(rows[i]) : i \in DOMAIN rows})
  IN [cache |-> PrefillCache(cache, continuous, rows, bucket),
      answers |-> [i \in DOMAIN rows |->
        SubSeq(rows[i].tokens, 1, Min({rows[i].length, bucket}))]]

\* NeuronBaseModel.forward, one token further: it attends to the cache and itself.
GenerateToken(cache, rows) ==
  LET bucket == GenerationBucket(GenerationBuckets, {rows[i].position : i \in DOMAIN rows})
  IN [cache |-> DecodeCache(cache, rows, bucket),
      answers |-> [i \in DOMAIN rows |->
        Append(CachedContext(cache, rows, i, bucket), rows[i].token)]]

SortsBefore(rows, k, i) ==
  rows[k].line < rows[i].line \/ (rows[k].line = rows[i].line /\ k < i)

\* argsort(seq_ids): the place of the row with the j-th smallest line.
Argsort(rows) ==
  [j \in DOMAIN rows |->
     CHOOSE i \in DOMAIN rows :
       Cardinality({k \in DOMAIN rows : SortsBefore(rows, k, i)}) = j - 1]

\* _reorder_helper.
Reordered(rows) == [j \in DOMAIN rows |-> rows[Argsort(rows)[j]]]

\* The sorting permutation applied once more, in place of its inverse.
WrongRestored(rows, answers) == [i \in DOMAIN rows |-> answers[Argsort(rows)[i]]]

\* index_select by the lines as they were before the sorting.
Restored(rows, answers) == [i \in DOMAIN rows |-> answers[rows[i].line + 1]]

\* _forward: rows are sorted when the lines that they name are all lines.
Forward(model(_), continuous, batchSize, rows) ==
  IF continuous /\ batchSize = MaxBatch
  THEN LET out == model(Reordered(rows))
       IN [out EXCEPT !.answers = Restored(rows, @)]
  ELSE model(rows)

\* Line 0 for all rows to fill, which the comment in _forward_with_pad warns of.
WrongUnusedLines(rows) == [i \in 1..(MaxBatch - Len(rows)) |-> 0]

\* The lines that no row names, in their order.
UnusedLines(rows) ==
  LET unused == Lines \ {rows[i].line : i \in DOMAIN rows}
  IN [i \in 1..Cardinality(unused) |->
        CHOOSE l \in unused : Cardinality({m \in unused : m < l}) = i - 1]

\* _forward_with_pad: rows of zeros for the lines that the call does not name.
Filled(rows, filler(_)) ==
  rows \o [i \in DOMAIN UnusedLines(rows) |-> filler(UnusedLines(rows)[i])]

ForwardWithPad(model(_), filler(_), continuous, batchSize, rows) ==
  LET out == Forward(model, continuous, batchSize, Filled(rows, filler))
  IN [out EXCEPT !.answers = SubSeq(@, 1, Len(rows))]

PromptFiller(line) ==
  [line |-> line, length |-> 1, tokens |-> [i \in 1..MaxContext |-> Zero]]

TokenFiller(line) == [line |-> line, token |-> Zero, position |-> 0]

\* forward: the rows in batches of the compiled size, one after another on the
\* same cache.
Batches(batchSize, rows) ==
  [b \in 1..((Len(rows) + batchSize - 1) \div batchSize) |->
     SubSeq(rows, (b - 1) * batchSize + 1, Min({b * batchSize, Len(rows)}))]

InBatches(model(_, _), filler(_), continuous, batchSize, cache, rows) ==
  LET batches == Batches(batchSize, rows)
      Call(c, batch) ==
        IF Len(batch) = batchSize
        THEN Forward(LAMBDA r : model(c, r), continuous, batchSize, batch)
        ELSE ForwardWithPad(LAMBDA r : model(c, r), filler, continuous, batchSize, batch)
      done[b \in 0..Len(batches)] ==
        IF b = 0 THEN [cache |-> cache, answers |-> <<>>]
        ELSE LET before == done[b - 1]
                 out == Call(before.cache, batches[b])
             IN [cache |-> out.cache, answers |-> before.answers \o out.answers]
  IN done[Len(batches)]

ContextEncodingModel(cache, continuous, batchSize, rows) ==
  InBatches(LAMBDA c, r : EncodeContext(c, continuous, r), PromptFiller,
            continuous, batchSize, cache, rows)

TokenGenerationModel(cache, continuous, batchSize, rows) ==
  InBatches(LAMBDA c, r : GenerateToken(c, r), TokenFiller,
            continuous, batchSize, cache, rows)
==============================================================================
