----------------------------- MODULE Generation -----------------------------
(***************************************************************************)
(* A whole batch generated by the HuggingFace loop (_sample of             *)
(* hf_adapter.py) around the compiled models: prompts are padded on the    *)
(* right to one width, the attention mask is what tells the loop where a   *)
(* row's next token goes, and a flag tells whether the cache holds the     *)
(* batch.  A call may fail on the device; who goes on then has to reset.   *)
(***************************************************************************)
EXTENDS ModelWrapper

CONSTANTS
  TextShapes,       \* [prompt, own]: lengths of prompts and of what the model adds to them
  EosToken,         \* the token after that
  MaxGenerations    \* bound on the calls of generate

\* As in Serving, prompts have two tokens at least and the longest leaves room for one
\* more; and no token of a text pads or ends it.
ASSUME GenerationAssumption ==
  /\ MaxGenerations \in Nat
  /\ \A shape \in TextShapes :
       shape.prompt \in 2..MaxContext /\ shape.prompt < MaxLength /\ shape.own \in Nat
  /\ \A g \in 0..MaxGenerations, i \in 1..MaxBatch, p \in Positions :
       <<<<g, i>>, p>> \notin {Pad, EosToken}

VARIABLES
  generation,     \* the calls so far
  caller,          \* what generate_on_neuron is doing
  texts,          \* the texts of the batch, one for each row
  inputIds,       \* input_ids: the rows so far, all of one width
  shown,          \* for each row, the ones of its attention mask
  maskWidth,
  unfinished,     \* unfinished_sequences
  kvPopulated,    \* kv_cache_populated
  deviceCache

generationVars ==
  <<generation, caller, texts, inputIds, shown, maskWidth, unfinished, kvPopulated, deviceCache>>

BatchRows == 1..MaxBatch

TextLength(text) == text.prompt + text.own

\* The token at position p of a text.
TextAt(text, p) == IF p < TextLength(text) THEN <<text.tag, p>> ELSE EosToken

\* The model itself: it continues the texts of the batch, and what it says of other
\* contexts is not known.
NextToken(context) ==
  LET n == Len(context)
      begun == {i \in BatchRows :
                  /\ n <= TextLength(texts[i])
                  /\ \A p \in 1..n : context[p] = TextAt(texts[i], p - 1)}
  IN IF begun = {} THEN Zero ELSE TextAt(texts[CHOOSE i \in begun : TRUE], n)

PromptWidth == Max({texts[i].prompt : i \in DOMAIN texts})

GenerationInit ==
  /\ generation = 0 /\ caller = "idle"
  /\ texts = <<>> /\ inputIds = <<>>
  /\ shown = <<>> /\ maskWidth = 0
  /\ unfinished = {}
  /\ kvPopulated = FALSE
  /\ deviceCache = EmptyCache

\* generate: as many prompts as the model has rows, padded by the tokenizer.
Generate(shapes) ==
  LET width == Max({shapes[i].prompt : i \in BatchRows})
      text(i) == [tag |-> <<generation, i>>, prompt |-> shapes[i].prompt, own |-> shapes[i].own]
  IN /\ caller = "idle" /\ generation < MaxGenerations
     /\ generation' = generation + 1
     /\ caller' = "sampling"
     /\ texts' = [i \in BatchRows |-> text(i)]
     /\ inputIds' = [i \in BatchRows |-> [c \in 1..width |->
          IF c <= shapes[i].prompt THEN TextAt(text(i), c - 1) ELSE Pad]]
     /\ shown' = [i \in BatchRows |-> shapes[i].prompt]
     /\ maskWidth' = width
     /\ unfinished' = BatchRows
     /\ UNCHANGED <<kvPopulated, deviceCache>>

\* prepare_inputs_for_generation: the running count of ones, less one, and 1 where
\* the mask has a zero; the greatest of a row.
LastPosition(i) == Max({shown[i] - 1} \cup {1 : z \in (shown[i] + 1)..maskWidth})

\* _get_model_outputs: with the cache populated, the input is the last column.
CallModel ==
  IF kvPopulated
  THEN TokenGenerationModel(deviceCache, FALSE, MaxBatch,
         [i \in BatchRows |->
            [line |-> i - 1, token |-> Last(inputIds[i]), position |-> LastPosition(i) + 1]])
  ELSE ContextEncodingModel(deviceCache, FALSE, MaxBatch,
         [i \in BatchRows |->
            [PromptRow(i - 1, inputIds[i]) EXCEPT !.length = LastPosition(i) + 1]])

\* Fault: the flag as it is after the call, not before it.
WrongMaskGrows == TRUE

\* _update_model_kwargs_for_generation: not for the token that the prompts gave.
MaskGrows == kvPopulated

\* One turn of the loop.
SampleNext ==
  /\ caller = "sampling" /\ unfinished # {}
  /\ LET out == CallModel IN
       /\ deviceCache' = out.cache
       /\ inputIds' = [i \in BatchRows |->
            Append(inputIds[i], IF i \in unfinished THEN NextToken(out.answers[i]) ELSE Pad)]
  /\ shown' = [i \in BatchRows |-> shown[i] + IF MaskGrows THEN 1 ELSE 0]
  /\ maskWidth' = maskWidth + IF MaskGrows THEN 1 ELSE 0
  /\ unfinished' = {i \in unfinished :
       Last(inputIds'[i]) # EosToken /\ Len(inputIds'[i]) < MaxLength}
  /\ kvPopulated' = TRUE
  /\ UNCHANGED <<generation, caller, texts>>

\* generate_on_neuron: the output is returned and the flag reset.
ReturnOutput ==
  /\ caller = "sampling" /\ unfinished = {}
  /\ caller' = "idle" /\ kvPopulated' = FALSE
  /\ UNCHANGED <<generation, texts, inputIds, shown, maskWidth, unfinished, deviceCache>>

\* The device fails, before or after it wrote the cache; the exception leaves
\* generate_on_neuron before its reset.
CallFails ==
  /\ caller = "sampling" /\ unfinished # {}
  /\ deviceCache' \in {deviceCache, CallModel.cache}
  /\ caller' = "failed"
  /\ UNCHANGED <<generation, texts, inputIds, shown, maskWidth, unfinished, kvPopulated>>

\* reset, which whoever goes on owes the model.
ResetModel ==
  /\ caller = "failed"
  /\ caller' = "idle" /\ kvPopulated' = FALSE
  /\ UNCHANGED <<generation, texts, inputIds, shown, maskWidth, unfinished, deviceCache>>

GenerationNext ==
  \/ \E shapes \in [BatchRows -> TextShapes] : Generate(shapes)
  \/ SampleNext \/ ReturnOutput \/ CallFails \/ ResetModel

GenerationSpec == GenerationInit /\ [][GenerationNext]_generationVars

------------------------------------------------------------------------------

\* The c-th column of a row: its prompt, padding, what the model adds up to and with
\* the end of the text, and padding again.
OwnText(text, c) ==
  LET p == text.prompt + c - PromptWidth - 1
  IN IF c <= text.prompt THEN TextAt(text, c - 1)
     ELSE IF c <= PromptWidth \/ p > TextLength(text) THEN Pad
     ELSE TextAt(text, p)

\* Every row is continued as if it were alone: neither the padding before its first
\* own token, nor rows that ended earlier, nor what an earlier or a failed batch left in
\* the cache reaches it, although the place of each token is only known from a mask
\* that grows one turn later than the row (_sample, prepare_inputs_for_generation).
GeneratesOwnText ==
  \A i \in DOMAIN inputIds : \A c \in DOMAIN inputIds[i] :
    inputIds[i][c] = OwnText(texts[i], c)
==============================================================================
