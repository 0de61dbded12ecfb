------------------------------ MODULE Inference ------------------------------
(***************************************************************************)
(* A model in its uses (NeuronConfig, generate): it is compiled for some   *)
(* lengths, its checkpoint is converted, its weights are laid out for the  *)
(* cores or kept in the directory of a traced model, requests of a         *)
(* scheduler are served in batches, a batch is generated as a whole, one   *)
(* sequence is decoded with the help of a draft model, the cores of a      *)
(* group share one sequence's cache, or a call passes the router of a      *)
(* layer of experts.  All run in one thread.                               *)
(***************************************************************************)
EXTENDS Serving, Speculation, FlashDecoding, HeadLayout, Routing, Checkpoint, Artifacts,
  Generation

CONSTANT BucketBound   \* bound on the lengths that a model is compiled for

ASSUME InferenceAssumption == BucketBound \in Nat

VARIABLES
  use,
  limits,    \* the least bucket and the maximal length of the model that is compiled
  buckets    \* its buckets, once it is compiled

Uses ==
  {"compiled", "converted", "kept", "loaded", "served", "generated", "assisted", "sharded",
   "routed"}

bucketVars == <<limits, buckets>>
weightVars == <<headVars, checkpointVars, artifactVars>>
modelVars == <<bucketVars, weightVars>>
inferenceVars ==
  <<use, modelVars, servingVars, generationVars, specVars, flashVars, routingVars>>

\* The parts that are not in use stay as one of their initial states.
InferenceInit ==
  /\ use \in Uses
  /\ limits \in {l \in (1..BucketBound) \X (1..BucketBound) : l[1] <= l[2]}
  /\ use # "compiled" => limits = <<1, 1>>
  /\ buckets = <<>>
  /\ use # "converted" => stored = CHOOSE s \in Stored : TRUE
  /\ CheckpointInit
  /\ ArtifactsInit
  /\ HeadInit
  /\ use # "loaded" => arranged = [tp |-> 1, q |-> 1, kv |-> 1, fused |-> FALSE]
  /\ ServingInit
  /\ use # "served" => ~config.continuous
  /\ GenerationInit
  /\ SpecInit
  /\ use # "assisted" => Range(greedy) = {Eos}
  /\ FlashInit
  /\ RoutingInit
  /\ use # "routed" =>
       /\ router = "topk_softmax"
       /\ scores = [t \in RoutedTokens |-> CHOOSE row \in ScoreRows : TRUE]

Compile ==
  /\ use = "compiled" /\ buckets = <<>>
  /\ buckets' = GenerateBuckets(limits[1], limits[2])
  /\ UNCHANGED <<use, limits, weightVars, servingVars, generationVars, specVars, flashVars,
                 routingVars>>

Convert ==
  /\ use = "converted" /\ CheckpointNext
  /\ UNCHANGED <<use, bucketVars, headVars, artifactVars, servingVars, generationVars,
                 specVars, flashVars, routingVars>>

KeepArtifacts ==
  /\ use = "kept" /\ ArtifactsNext
  /\ UNCHANGED <<use, bucketVars, headVars, checkpointVars, servingVars, generationVars,
                 specVars, flashVars, routingVars>>

LoadWeights ==
  /\ use = "loaded" /\ Preshard
  /\ UNCHANGED <<use, bucketVars, checkpointVars, artifactVars, servingVars, generationVars,
                 specVars, flashVars, routingVars>>

Serve ==
  /\ use = "served" /\ ServingNext
  /\ UNCHANGED <<use, modelVars, generationVars, specVars, flashVars, routingVars>>

GenerateBatch ==
  /\ use = "generated" /\ GenerationNext
  /\ UNCHANGED <<use, modelVars, servingVars, specVars, flashVars, routingVars>>

AssistedDecoding ==
  /\ use = "assisted" /\ SpecNext
  /\ UNCHANGED <<use, modelVars, servingVars, generationVars, flashVars, routingVars>>

DecodeSharded ==
  /\ use = "sharded" /\ FlashNext
  /\ UNCHANGED <<use, modelVars, servingVars, generationVars, specVars, routingVars>>

RouteCall ==
  /\ use = "routed" /\ Route
  /\ UNCHANGED <<use, modelVars, servingVars, generationVars, specVars, flashVars>>

InferenceNext ==
  \/ Compile \/ Convert \/ KeepArtifacts \/ LoadWeights
  \/ Serve \/ GenerateBatch \/ AssistedDecoding \/ DecodeSharded \/ RouteCall

\* Assisted decoding is a while True of one thread: it goes on as long as it can.
\* Nothing makes a scheduler or a caller ask for more.
InferenceSpec ==
  InferenceInit /\ [][InferenceNext]_inferenceVars /\ WF_inferenceVars(AssistedDecoding)

------------------------------------------------------------------------------

\* Every round of assisted decoding adds a token: the loop ends.
AssistedTerminates == use = "assisted" ~> specAt = "done"

\* generate_buckets and the two bucket kernels: the lengths compiled grow up to the
\* maximum, and a call gets the smallest of them that has room, for the prompt or
\* for one more token.
BucketIsTightest ==
  buckets # <<>> =>
    /\ \A i \in DOMAIN buckets : i > 1 => buckets[i - 1] < buckets[i]
    /\ \A n \in 1..limits[2] :
         /\ ContextBucket(buckets, {n}) = Min({b \in Range(buckets) : b >= n})
         /\ GenerationBucket(buckets, {n - 1}) = Min({b \in Range(buckets) : b >= n})
==============================================================================
