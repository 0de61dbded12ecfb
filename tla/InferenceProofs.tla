--------------------------- MODULE InferenceProofs ---------------------------
(***************************************************************************)
(* Proofs about the uses of a model: a run command loads what it asks for, *)
(* assisted decoding says what the target alone would say, a call gets the *)
(* tightest bucket, the cores of a group attend to each earlier position   *)
(* once, a checkpoint arrives whole, requests that are served in batches   *)
(* see caches of their own, the rows of a generated batch are continued as *)
(* if they were alone, routers keep what they promise and heads meet those *)
(* of their group; for any command lines, lengths, vocabularies, groups,   *)
(* layers, batches, experts, heads and orders of calls.                    *)
(***************************************************************************)
EXTENDS Inference, SumTheorems, FiniteSetTheorems, FunctionTheorems

------------------------------------------------------------------------------
(* Traced models *)

\* A state dict of a command that belongs to directory d, cut once, for rank k.
Slice(d, k, file) ==
  \E r \in CommandLines : Directory(r) = d /\ file = StateDict(r, <<k>>)

\* What is readable in a directory was written by commands that belong to it, and each
\* rank's file is its own slice.
OwnFiles(d) ==
  /\ traced[d].config # Nothing =>
       traced[d].config \in CommandLines /\ Directory(traced[d].config) = d
  /\ traced[d].graph \notin {Nothing, Torn} =>
       traced[d].graph \in CommandLines /\ Directory(traced[d].graph) = d
  /\ \A k \in WeightRanks :
       traced[d].weights[k] \notin {Nothing, Torn} => Slice(d, k, traced[d].weights[k])

\* After a finished command all weights are that command's.
FinishedFiles(d) ==
  finished[d] # Nothing =>
    /\ finished[d] \in CommandLines /\ Directory(finished[d]) = d
    /\ \A k \in 0..(finished[d].tp - 1) :
         traced[d].weights[k] = StateDict(finished[d], <<k>>)

\* A running command: its directory counts as unfinished, the state dict in memory is
\* whole before the first rank and cut for this rank alone before it is saved, and the
\* ranks before have their slices.
Running ==
  phase # "idle" =>
    /\ request \in CommandLines
    /\ finished[Here] = Nothing
    /\ phase \in {"trace", "shard", "slice", "save"}
    /\ phase \in {"slice", "save"} =>
         /\ rank \in 0..(request.tp - 1)
         /\ \A k \in 0..(rank - 1) : traced[Here].weights[k] = StateDict(request, <<k>>)
    /\ phase = "slice" /\ rank = 0 => checkpoint = StateDict(request, <<>>)
    /\ phase = "save" => checkpoint = StateDict(request, <<rank>>)

\* The files that there can be.
Weights == [of : CommandLines, cuts : {<<k>> : k \in WeightRanks}] \cup {Nothing, Torn}

TracedDirectory ==
  [config : CommandLines \cup {Nothing}, graph : CommandLines \cup {Nothing, Torn},
   weights : [WeightRanks -> Weights]]

FilesTypeOK ==
  /\ traced \in [Directories -> TracedDirectory]
  /\ finished \in [Directories -> CommandLines \cup {Nothing}]

ArtifactsInv ==
  /\ FilesTypeOK
  /\ \A d \in Directories : OwnFiles(d) /\ FinishedFiles(d)
  /\ Running
  /\ RunsWhatWasAsked

\* Command lines of one directory have their kernel and their ranks in common.
LEMMA DirectoryTells ==
  ASSUME NEW q \in CommandLines, NEW r \in CommandLines, Directory(q) = Directory(r)
  PROVE  q.kernel = r.kernel /\ q.tp = r.tp
  BY DEF Directory

\* Ranks of a command are ranks, and its directory is one.
LEMMA RanksOf ==
  ASSUME NEW r \in CommandLines
  PROVE  /\ Directory(r) \in Directories
         /\ r.tp \in Nat \ {0}
         /\ 0..(r.tp - 1) \subseteq WeightRanks
  BY ArtifactsAssumption DEF Directories, WeightRanks

\* Before the first command every directory is empty.
LEMMA ArtifactsInitHolds == ArtifactsInit => ArtifactsInv
  BY DEF ArtifactsInit, ArtifactsInv, FilesTypeOK, TracedDirectory, Weights, OwnFiles, FinishedFiles, Running,
         RunsWhatWasAsked

\* A command begins: its directory is unfinished from the config on.
LEMMA BeginKeeps ==
  ASSUME ArtifactsInv, NEW r \in CommandLines, NEW next \in {"trace", "shard"}, Begin(r, next)
  PROVE  ArtifactsInv'
<1> DEFINE here == Directory(r)
<1>1. here \in Directories
  BY RanksOf
<1>2. /\ traced' = [traced EXCEPT ![here].config = r]
      /\ finished' = [finished EXCEPT ![here] = Nothing]
      /\ request' = r /\ phase' = next /\ device' = device
  BY DEF Begin
<1>3. FilesTypeOK'
  BY <1>1, <1>2 DEF ArtifactsInv, FilesTypeOK, TracedDirectory
<1>4. ASSUME NEW d \in Directories
      PROVE  /\ traced'[d].config = IF d = here THEN r ELSE traced[d].config
             /\ traced'[d].graph = traced[d].graph
             /\ traced'[d].weights = traced[d].weights
             /\ finished'[d] = IF d = here THEN Nothing ELSE finished[d]
  BY <1>1, <1>2 DEF ArtifactsInv, FilesTypeOK, TracedDirectory
<1>5. ASSUME NEW d \in Directories PROVE OwnFiles(d)' /\ FinishedFiles(d)'
  <2>1. OwnFiles(d) /\ FinishedFiles(d)
    BY DEF ArtifactsInv
  <2>2. OwnFiles(d)'
    BY <1>4, <2>1 DEF OwnFiles, Slice
  <2>3. FinishedFiles(d)'
    BY <1>4, <2>1 DEF FinishedFiles
  <2> QED
    BY <2>2, <2>3
<1>6. Running'
  BY <1>1, <1>2, <1>4 DEF Running, Here
<1>7. RunsWhatWasAsked'
  BY <1>2 DEF ArtifactsInv, RunsWhatWasAsked
<1> QED
  BY <1>3, <1>5, <1>6, <1>7 DEF ArtifactsInv

\* model.pt is written.
LEMMA SaveGraphKeeps ==
  ASSUME ArtifactsInv, SaveGraph
  PROVE  ArtifactsInv'
<1>1. request \in CommandLines /\ Here \in Directories /\ finished[Here] = Nothing
  BY RanksOf DEF ArtifactsInv, Running, SaveGraph, Here
<1>2. /\ traced' = [traced EXCEPT ![Here].graph = request]
      /\ finished' = finished /\ request' = request /\ phase' = "shard" /\ device' = device
  BY DEF SaveGraph
<1>3. FilesTypeOK'
  BY <1>1, <1>2 DEF ArtifactsInv, FilesTypeOK, TracedDirectory
<1>4. ASSUME NEW d \in Directories
      PROVE  /\ traced'[d].config = traced[d].config
             /\ traced'[d].graph = IF d = Here THEN request ELSE traced[d].graph
             /\ traced'[d].weights = traced[d].weights
  BY <1>1, <1>2 DEF ArtifactsInv, FilesTypeOK, TracedDirectory
<1>5. ASSUME NEW d \in Directories PROVE OwnFiles(d)' /\ FinishedFiles(d)'
  <2>1. OwnFiles(d) /\ FinishedFiles(d)
    BY DEF ArtifactsInv
  <2>2. OwnFiles(d)'
    BY <1>1, <1>4, <2>1 DEF OwnFiles, Slice, Here
  <2>3. FinishedFiles(d)'
    BY <1>2, <1>4, <2>1 DEF FinishedFiles
  <2> QED
    BY <2>2, <2>3
<1>6. Running'
  BY <1>1, <1>2 DEF Running, Here
<1>7. RunsWhatWasAsked'
  BY <1>2 DEF ArtifactsInv, RunsWhatWasAsked
<1> QED
  BY <1>3, <1>5, <1>6, <1>7 DEF ArtifactsInv

\* The steps that only touch the state dict in memory.
LEMMA LoadOrSliceKeeps ==
  ASSUME ArtifactsInv, LoadCheckpoint \/ SliceRank
  PROVE  ArtifactsInv'
<1>1. /\ traced' = traced /\ finished' = finished /\ request' = request /\ device' = device
      /\ request \in CommandLines
  BY DEF ArtifactsInv, Running, LoadCheckpoint, SliceRank
<1>2. FilesTypeOK' /\ RunsWhatWasAsked'
  BY <1>1 DEF ArtifactsInv, FilesTypeOK, RunsWhatWasAsked
<1>3. \A d \in Directories : OwnFiles(d)' /\ FinishedFiles(d)'
  BY <1>1 DEF ArtifactsInv, OwnFiles, FinishedFiles
<1>4. Running'
  <2>1. CASE LoadCheckpoint
    BY <1>1, <2>1, RanksOf DEF ArtifactsInv, Running, LoadCheckpoint, Here
  <2>2. CASE SliceRank
    <3>1. CheckpointFor(rank) = StateDict(request, <<>>)
      BY <2>2 DEF ArtifactsInv, Running, SliceRank, CheckpointFor
    <3>2. checkpoint' = StateDict(request, <<rank>>)
      <4>1. checkpoint' = [StateDict(request, <<>>) EXCEPT !.cuts = Append(@, rank)]
        BY <2>2, <3>1 DEF SliceRank
      <4>2. Append(<<>>, rank) = <<rank>>
        BY <2>2 DEF ArtifactsInv, Running, SliceRank
      <4> QED
        BY <4>1, <4>2 DEF StateDict
    <3> QED
      BY <1>1, <2>2, <3>2 DEF ArtifactsInv, Running, SliceRank, Here
  <2> QED
    BY <2>1, <2>2
<1> QED
  BY <1>2, <1>3, <1>4 DEF ArtifactsInv

\* A rank is saved; after the last one the directory is finished.
LEMMA SaveRankKeeps ==
  ASSUME ArtifactsInv, SaveRank
  PROVE  ArtifactsInv'
<1>1. /\ request \in CommandLines /\ Here \in Directories /\ finished[Here] = Nothing
      /\ rank \in 0..(request.tp - 1) /\ rank \in WeightRanks
      /\ checkpoint = StateDict(request, <<rank>>)
      /\ request.tp \in Nat \ {0}
      /\ 0..(request.tp - 1) \subseteq WeightRanks
      /\ \A k \in 0..(rank - 1) : traced[Here].weights[k] = StateDict(request, <<k>>)
  BY RanksOf DEF ArtifactsInv, Running, SaveRank, Here
<1>2. traced' = [traced EXCEPT ![Here].weights[rank] = checkpoint] /\ device' = device
  BY DEF SaveRank
<1>3. traced' \in [Directories -> TracedDirectory]
  <2>1. checkpoint \in Weights
    BY <1>1 DEF Weights, StateDict
  <2> QED
    BY <1>1, <1>2, <2>1 DEF ArtifactsInv, FilesTypeOK, TracedDirectory
<1>4. ASSUME NEW d \in Directories, NEW k \in WeightRanks
      PROVE  /\ traced'[d].config = traced[d].config
             /\ traced'[d].graph = traced[d].graph
             /\ traced'[d].weights[k] =
                  IF d = Here /\ k = rank THEN StateDict(request, <<k>>)
                  ELSE traced[d].weights[k]
  BY <1>1, <1>2 DEF ArtifactsInv, FilesTypeOK, TracedDirectory
<1>5. ASSUME NEW d \in Directories PROVE OwnFiles(d)'
  <2>1. OwnFiles(d)
    BY DEF ArtifactsInv
  <2> QED
    BY <1>1, <1>4, <2>1 DEF OwnFiles, Slice, Here
<1>6. ASSUME NEW k \in 0..rank PROVE traced'[Here].weights[k] = StateDict(request, <<k>>)
  <2>1. k \in WeightRanks /\ k \in 0..(request.tp - 1)
    BY <1>1
  <2>2. k = rank \/ k \in 0..(rank - 1)
    BY <1>1
  <2> QED
    BY <1>1, <1>4, <2>1, <2>2
<1>7. ASSUME NEW d \in Directories, finished[d] # Nothing
      PROVE  /\ d # Here
             /\ finished[d] \in CommandLines /\ Directory(finished[d]) = d
             /\ \A k \in 0..(finished[d].tp - 1) :
                  traced'[d].weights[k] = StateDict(finished[d], <<k>>)
  <2>1. FinishedFiles(d) /\ d # Here
    BY <1>1, <1>7 DEF ArtifactsInv
  <2>2. 0..(finished[d].tp - 1) \subseteq WeightRanks
    BY <1>7, <2>1, RanksOf DEF FinishedFiles
  <2> QED
    BY <1>4, <1>7, <2>1, <2>2 DEF FinishedFiles
<1>8. CASE rank + 1 < request.tp
  <2>1. /\ finished' = finished /\ request' = request
        /\ rank' = rank + 1 /\ phase' = "slice"
    BY <1>8 DEF SaveRank
  <2>2. FilesTypeOK'
    BY <1>3, <2>1 DEF ArtifactsInv, FilesTypeOK
  <2>3. \A d \in Directories : FinishedFiles(d)'
    BY <1>7, <2>1 DEF FinishedFiles
  <2>4. Running'
    BY <1>1, <1>6, <1>8, <2>1 DEF Running, Here
  <2> QED
    BY <1>2, <1>5, <2>2, <2>3, <2>4 DEF ArtifactsInv, RunsWhatWasAsked
<1>9. CASE ~(rank + 1 < request.tp)
  <2>1. finished' = [finished EXCEPT ![Here] = request] /\ phase' = "idle"
    BY <1>9 DEF SaveRank
  <2>2. FilesTypeOK'
    BY <1>1, <1>3, <2>1 DEF ArtifactsInv, FilesTypeOK
  <2>3. rank = request.tp - 1
    BY <1>1, <1>9
  <2>4. ASSUME NEW d \in Directories PROVE FinishedFiles(d)'
    <3>1. CASE d = Here
      <4>1. finished'[d] = request
        BY <1>1, <2>1, <3>1 DEF ArtifactsInv, FilesTypeOK, TracedDirectory
      <4> QED
        BY <1>1, <1>6, <2>3, <3>1, <4>1 DEF FinishedFiles, Here
    <3>2. CASE d # Here
      <4>1. finished'[d] = finished[d]
        BY <2>1, <3>2 DEF ArtifactsInv, FilesTypeOK, TracedDirectory
      <4> QED
        BY <1>7, <4>1 DEF FinishedFiles
    <3> QED
      BY <3>1, <3>2
  <2>5. Running'
    BY <2>1 DEF Running
  <2> QED
    BY <1>2, <1>5, <2>2, <2>4, <2>5 DEF ArtifactsInv, RunsWhatWasAsked
<1> QED
  BY <1>8, <1>9

\* A command is killed: the file it was writing may be torn, and its directory is one
\* that no command finished.
LEMMA KillKeeps ==
  ASSUME ArtifactsInv, Kill
  PROVE  ArtifactsInv'
<1>1. /\ request \in CommandLines /\ Here \in Directories /\ finished[Here] = Nothing
      /\ finished' = finished /\ device' = device /\ phase' = "idle"
      /\ phase = "save" => rank \in WeightRanks
  BY RanksOf DEF ArtifactsInv, Running, Kill, Here
<1>2. FilesTypeOK'
  <2>1. CASE traced' = traced
    BY <1>1, <2>1 DEF ArtifactsInv, FilesTypeOK, TracedDirectory
  <2>2. CASE traced' = [traced EXCEPT ![Here].graph = Torn]
    BY <1>1, <2>2 DEF ArtifactsInv, FilesTypeOK, TracedDirectory
  <2>3. CASE phase = "save" /\ traced' = [traced EXCEPT ![Here].weights[rank] = Torn]
    BY <1>1, <2>3 DEF ArtifactsInv, FilesTypeOK, TracedDirectory, Weights
  <2> QED
    BY <2>1, <2>2, <2>3 DEF Kill
<1>3. ASSUME NEW d \in Directories
      PROVE  /\ traced'[d].config = traced[d].config
             /\ traced'[d].graph \in {traced[d].graph, Torn}
             /\ d # Here => traced'[d] = traced[d]
             /\ \A k \in WeightRanks : traced'[d].weights[k] \in {traced[d].weights[k], Torn}
  <2>1. CASE traced' = traced
    BY <2>1
  <2>2. CASE traced' = [traced EXCEPT ![Here].graph = Torn]
    BY <1>1, <2>2 DEF ArtifactsInv, FilesTypeOK, TracedDirectory
  <2>3. CASE phase = "save" /\ traced' = [traced EXCEPT ![Here].weights[rank] = Torn]
    BY <1>1, <2>3 DEF ArtifactsInv, FilesTypeOK, TracedDirectory, Weights
  <2> QED
    BY <2>1, <2>2, <2>3 DEF Kill
<1>4. ASSUME NEW d \in Directories PROVE OwnFiles(d)' /\ FinishedFiles(d)'
  <2>1. OwnFiles(d) /\ FinishedFiles(d)
    BY DEF ArtifactsInv
  <2>2. OwnFiles(d)'
    BY <1>3, <2>1 DEF OwnFiles, Slice
  <2>3. FinishedFiles(d)'
    BY <1>1, <1>3, <2>1 DEF FinishedFiles
  <2> QED
    BY <2>2, <2>3
<1> QED
  BY <1>1, <1>2, <1>4 DEF ArtifactsInv, Running, RunsWhatWasAsked

\* A run command loads: what its directory holds is what it asks for.
LEMMA RunKeeps ==
  ASSUME ArtifactsInv, NEW r \in CommandLines, RunCommand(r)
  PROVE  ArtifactsInv'
<1> DEFINE d == Directory(r)
           dir == traced[d]
<1>1. d \in Directories /\ OwnFiles(d) /\ FinishedFiles(d) /\ Loadable(dir)
  BY RanksOf DEF ArtifactsInv, RunCommand
<1>2. /\ dir.config \in CommandLines /\ dir.config.kernel = r.kernel /\ dir.config.tp = r.tp
      /\ dir.graph \in CommandLines /\ dir.graph.kernel = r.kernel
      /\ Directory(dir.config) = d
  BY <1>1, DirectoryTells DEF OwnFiles, Loadable
<1>3. device' = [asked |-> r, config |-> dir.config, graph |-> dir.graph,
                 weights |-> [k \in 0..(r.tp - 1) |-> dir.weights[k]],
                 after |-> finished[d]]
  BY <1>2 DEF RunCommand
<1>4. ASSUME NEW k \in 0..(r.tp - 1)
      PROVE  /\ dir.weights[k].cuts = <<k>>
             /\ dir.weights[k].of.kernel = r.kernel
             /\ finished[d] # Nothing => dir.weights[k] = StateDict(finished[d], <<k>>)
  <2>1. k \in WeightRanks /\ dir.weights[k] \notin {Nothing, Torn}
    BY <1>1, <1>2, RanksOf DEF Loadable
  <2>2. PICK q \in CommandLines : Directory(q) = d /\ dir.weights[k] = StateDict(q, <<k>>)
    BY <1>1, <2>1 DEF OwnFiles, Slice
  <2>3. dir.weights[k].cuts = <<k>> /\ dir.weights[k].of = q
    BY <2>2 DEF StateDict
  <2>4. q.kernel = r.kernel
    BY <2>2, DirectoryTells
  <2>5. ASSUME finished[d] # Nothing PROVE dir.weights[k] = StateDict(finished[d], <<k>>)
    <3>1. finished[d].tp = r.tp
      BY <1>1, <2>5, DirectoryTells DEF FinishedFiles
    <3> QED
      BY <1>1, <2>5, <3>1 DEF FinishedFiles
  <2> QED
    BY <2>3, <2>4, <2>5
<1>5. RunsWhatWasAsked'
  BY <1>2, <1>3, <1>4 DEF RunsWhatWasAsked
<1>6. /\ traced' = traced /\ finished' = finished /\ request' = request
      /\ phase' = phase /\ rank' = rank /\ checkpoint' = checkpoint
  BY DEF RunCommand
<1> QED
  BY <1>5, <1>6 DEF ArtifactsInv, FilesTypeOK, OwnFiles, FinishedFiles, Running, Here

\* Every step of a command, or of another use, keeps the invariant.
LEMMA ArtifactsStepKeeps ==
  ASSUME ArtifactsInv, [ArtifactsNext]_artifactVars
  PROVE  ArtifactsInv'
<1>1. ASSUME NEW r \in CommandLines, CompileCommand(r) PROVE ArtifactsInv'
  BY <1>1, BeginKeeps DEF CompileCommand
<1>2. ASSUME NEW r \in CommandLines, ShardOnlyCommand(r) PROVE ArtifactsInv'
  BY <1>2, BeginKeeps DEF ShardOnlyCommand
<1>3. ASSUME NEW r \in CommandLines, RunCommand(r) PROVE ArtifactsInv'
  BY <1>3, RunKeeps
<1>4. CASE SaveGraph
  BY <1>4, SaveGraphKeeps
<1>5. CASE LoadCheckpoint \/ SliceRank
  BY <1>5, LoadOrSliceKeeps
<1>6. CASE SaveRank
  BY <1>6, SaveRankKeeps
<1>7. CASE Kill
  BY <1>7, KillKeeps
<1>8. CASE UNCHANGED artifactVars
  BY <1>8 DEF artifactVars, ArtifactsInv, FilesTypeOK, OwnFiles, FinishedFiles, Running, Here,
              RunsWhatWasAsked
<1> QED
  BY <1>1, <1>2, <1>3, <1>4, <1>5, <1>6, <1>7, <1>8 DEF ArtifactsNext

\* The other uses of a model leave the traced directories alone.
LEMMA UsesKeepArtifacts ==
  [InferenceNext]_inferenceVars => [ArtifactsNext]_artifactVars
<1>1. ASSUME InferenceNext PROVE ArtifactsNext \/ UNCHANGED artifactVars
  BY <1>1 DEF InferenceNext, Compile, Convert, KeepArtifacts, LoadWeights, Serve, GenerateBatch,
              AssistedDecoding, DecodeSharded, RouteCall, weightVars, modelVars
<1>2. ASSUME UNCHANGED inferenceVars PROVE UNCHANGED artifactVars
  BY <1>2 DEF inferenceVars, modelVars, weightVars
<1> QED
  BY <1>1, <1>2

\* Whatever was compiled, sharded and killed before, and for any number of ranks, a run
\* command loads a model.pt and weights of its own kernel, one slice for each rank, and
\* after a finished command that command's weights (default_traced_path,
\* compile_shard_only, load).
THEOREM RunsAreAsked == InferenceSpec => []RunsWhatWasAsked
<1>1. InferenceInit => ArtifactsInv
  BY ArtifactsInitHolds DEF InferenceInit
<1>2. ArtifactsInv /\ [InferenceNext]_inferenceVars => ArtifactsInv'
  BY ArtifactsStepKeeps, UsesKeepArtifacts
<1>3. ArtifactsInv => RunsWhatWasAsked
  BY DEF ArtifactsInv
<1> QED
  BY <1>1, <1>2, <1>3, PTL DEF InferenceSpec

------------------------------------------------------------------------------
(* Greatest and least numbers *)

\* A set of numbers up to a bound has a greatest one.
LEMMA GreatestIs ==
  ASSUME NEW b \in Nat, NEW S \in SUBSET (0..b), S # {}
  PROVE  Max(S) \in S /\ \A y \in S : y <= Max(S)
<1> DEFINE Reached == {n \in Nat : \A T \in SUBSET (0..n) : T # {} => \E x \in T : \A y \in T : x >= y}
<1>1. 0 \in Reached
  <2>1. ASSUME NEW T \in SUBSET (0..0), T # {} PROVE \E x \in T : \A y \in T : x >= y
    <3>1. 0..0 = {0}
      OBVIOUS
    <3>2. 0 \in T /\ \A y \in T : y = 0
      BY <2>1, <3>1
    <3> QED
      BY <3>2
  <2> QED
    BY <2>1
<1>2. ASSUME NEW n \in Nat, n \in Reached PROVE n + 1 \in Reached
  <2>1. ASSUME NEW T \in SUBSET (0..(n + 1)), T # {} PROVE \E x \in T : \A y \in T : x >= y
    <3>1. CASE n + 1 \in T
      BY <2>1, <3>1
    <3>2. CASE n + 1 \notin T
      <4>1. T \in SUBSET (0..n)
        BY <2>1, <3>2
      <4> QED
        BY <1>2, <2>1, <4>1
    <3> QED
      BY <3>1, <3>2
  <2> QED
    BY <2>1
<1>3. Nat \subseteq Reached
  <2> HIDE DEF Reached
  <2> QED
    BY <1>1, <1>2, NatSetInduction
<1>4. \E x \in S : \A y \in S : x >= y
  BY <1>3
<1>5. Max(S) \in S /\ \A y \in S : Max(S) >= y
  BY <1>4 DEF Max
<1>6. \A y \in S : y \in Nat
  OBVIOUS
<1> QED
  BY <1>5, <1>6

\* A set of positions has a least one.
LEMMA LeastIs ==
  ASSUME NEW b \in Nat, NEW S \in SUBSET (0..b), S # {}
  PROVE  Min(S) \in S /\ \A y \in S : Min(S) <= y
<1> DEFINE T == {b - x : x \in S}
<1>1. T \in SUBSET (0..b) /\ T # {}
  <2>1. \A x \in S : b - x \in 0..b
    OBVIOUS
  <2>2. PICK x \in S : TRUE
    OBVIOUS
  <2>3. b - x \in T
    OBVIOUS
  <2> QED
    BY <2>1, <2>3
<1>2. Max(T) \in T /\ \A y \in T : y <= Max(T)
  <2> HIDE DEF T
  <2> QED
    BY <1>1, GreatestIs
<1>3. PICK x \in S : Max(T) = b - x
  BY <1>2
<1>4. \A y \in S : b - y <= b - x
  BY <1>2, <1>3
<1>5. \E z \in S : \A y \in S : z <= y
  BY <1>4
<1> QED
  BY <1>5 DEF Min

------------------------------------------------------------------------------
(* Assisted decoding *)

\* The lesser of two numbers.
LEMMA LesserIs ==
  ASSUME NEW a \in Int, NEW b \in Int
  PROVE  Min({a, b}) = IF a <= b THEN a ELSE b
<1>1. \E x \in {a, b} : \A y \in {a, b} : x <= y
  BY SMT
<1>2. Min({a, b}) \in {a, b} /\ \A y \in {a, b} : Min({a, b}) <= y
  BY <1>1 DEF Min
<1> QED
  BY <1>2

\* Before the end there is room for another pass, nothing yet returned but the first
\* token ends the text, and the loop's counters, the cache and the output agree.
Aligned ==
  /\ currPos = PromptLength + Len(returned) - 2
  /\ curLen = PromptLength + Len(returned) - 1
  /\ curLen + SpecLength <= MaxLen
  /\ targetKV \in [Generated -> Tokens]
  /\ \A i \in 1..(Len(returned) - 1) : targetKV[PromptLength + i - 1] = returned[i]
  /\ \A i \in 2..Len(returned) : returned[i] # Eos

\* Only the last proposal may end the text, and then the draft has stopped.
Proposed ==
  /\ candidates \in Seq(Tokens) /\ Len(candidates) <= AssistTokens
  /\ \A i \in 1..(Len(candidates) - 1) : candidates[i] # Eos
  /\ specAt = "draft" => Len(candidates) < AssistTokens /\ \A i \in DOMAIN candidates : candidates[i] # Eos
  /\ specAt = "verify" => candidates # <<>>

SpecInv ==
  /\ greedy \in [1..(MaxLen - PromptLength + 1) -> Tokens]
  /\ specAt \in {"first", "draft", "verify", "done"}
  /\ returned \in Seq(Tokens) /\ Len(returned) <= Len(greedy)
  /\ \A i \in 1..Len(returned) : returned[i] = greedy[i]
  /\ \A i \in 2..(Len(returned) - 1) : returned[i] # Eos
  /\ specAt = "first" =>
       /\ returned = <<>> /\ candidates = <<>> /\ targetKV \in [Generated -> Tokens]
       /\ currPos = PromptLength - 1 /\ curLen = PromptLength
  /\ specAt \in {"draft", "verify"} => Len(returned) >= 1 /\ Aligned /\ Proposed

\* The constants are numbers, and the target's continuation is a sequence.
LEMMA SpecConstants ==
  /\ PromptLength \in Nat /\ PromptLength >= 1 /\ MaxLen \in Nat /\ SpecLength \in Nat
  /\ AssistTokens \in Nat /\ AssistTokens >= 1 /\ AssistTokens <= SpecLength
  /\ PromptLength + SpecLength <= MaxLen
  /\ Eos \in Tokens
  /\ \A g \in [1..(MaxLen - PromptLength + 1) -> Tokens] :
       g \in Seq(Tokens) /\ Len(g) = MaxLen - PromptLength + 1
<1>1. /\ PromptLength \in Nat /\ PromptLength >= 1 /\ MaxLen \in Nat /\ AssistTokens \in 1..SpecLength
      /\ PromptLength + SpecLength <= MaxLen /\ Eos \in Tokens
  BY SpeculationAssumption
<1>2. SpecLength \in Nat
  BY SpeculationAssumption
<1> QED
  BY <1>1, <1>2

\* What two sequences become when they are put one after the other.
LEMMA Joined ==
  ASSUME NEW X, NEW s \in Seq(X), NEW t \in Seq(X)
  PROVE  /\ s \o t \in Seq(X) /\ Len(s \o t) = Len(s) + Len(t)
         /\ \A i \in 1..Len(s) : (s \o t)[i] = s[i]
         /\ \A j \in 1..Len(t) : (s \o t)[Len(s) + j] = t[j]
  OBVIOUS

\* The beginning of a sequence.
LEMMA Beginning ==
  ASSUME NEW X, NEW s \in Seq(X), NEW n \in 0..Len(s)
  PROVE  /\ SubSeq(s, 1, n) \in Seq(X) /\ Len(SubSeq(s, 1, n)) = n
         /\ \A i \in 1..n : SubSeq(s, 1, n)[i] = s[i]
<1>1. SubSeq(s, 1, n) = [i \in 1..n |-> s[i]] /\ n \in Nat
  OBVIOUS
<1>2. \A i \in 1..n : s[i] \in X
  OBVIOUS
<1> QED
  BY <1>1, <1>2

\* What is listed from 1 on is a sequence.
LEMMA ListIs ==
  ASSUME NEW X, NEW n \in Nat, NEW s, DOMAIN s = 1..n, s = [i \in 1..n |-> s[i]],
         \A i \in 1..n : s[i] \in X
  PROVE  s \in Seq(X) /\ Len(s) = n
  OBVIOUS

\* A prefix, position by position.
LEMMA PrefixIs ==
  ASSUME NEW s \in Seq(Tokens), NEW t \in Seq(Tokens)
  PROVE  IsPrefix(s, t) <=> Len(s) <= Len(t) /\ \A i \in 1..Len(s) : s[i] = t[i]
<1>1. ASSUME Len(s) <= Len(t)
      PROVE  /\ SubSeq(s, 1, Len(s)) = [i \in 1..Len(s) |-> s[i]]
             /\ SubSeq(t, 1, Len(s)) = [i \in 1..Len(s) |-> t[i]]
  BY <1>1
<1>2. ASSUME Len(s) <= Len(t), \A i \in 1..Len(s) : s[i] = t[i]
      PROVE  IsPrefix(s, t)
  BY <1>1, <1>2 DEF IsPrefix
<1>3. ASSUME IsPrefix(s, t)
      PROVE  Len(s) <= Len(t) /\ \A i \in 1..Len(s) : s[i] = t[i]
  <2>1. Len(s) <= Len(t) /\ [i \in 1..Len(s) |-> s[i]] = [i \in 1..Len(s) |-> t[i]]
    BY <1>1, <1>3 DEF IsPrefix
  <2>2. \A i \in 1..Len(s) : [j \in 1..Len(s) |-> s[j]][i] = [j \in 1..Len(s) |-> t[j]][i]
    BY <2>1
  <2> QED
    BY <2>1, <2>2
<1> QED
  BY <1>2, <1>3

\* The tokens of a pass: the newest one, then the proposals but the last.
LEMMA PassInputIs ==
  ASSUME SpecInv, specAt = "verify"
  PROVE  /\ PassInput \in Seq(Tokens) /\ Len(PassInput) = SpecLength
         /\ PassInput[1] = returned[Len(returned)]
         /\ \A j \in 1..(Len(candidates) - 1) : PassInput[j + 1] = candidates[j]
<1> DEFINE fed == <<Last(returned)>> \o Front(candidates)
           padding == [i \in 1..(SpecLength - Len(fed)) |-> Eos]
<1>1. /\ returned \in Seq(Tokens) /\ Len(returned) >= 1
      /\ candidates \in Seq(Tokens) /\ Len(candidates) >= 1 /\ Len(candidates) <= SpecLength
  BY SpecConstants DEF SpecInv, Proposed
<1>2. Last(returned) \in Tokens /\ Last(returned) = returned[Len(returned)]
  BY <1>1 DEF Last
<1>3. /\ Front(candidates) \in Seq(Tokens) /\ Len(Front(candidates)) = Len(candidates) - 1
      /\ \A j \in 1..(Len(candidates) - 1) : Front(candidates)[j] = candidates[j]
  <2>1. Len(candidates) - 1 \in 0..Len(candidates)
    BY <1>1
  <2> QED
    BY <1>1, <2>1, Beginning DEF Front
<1>4. /\ fed \in Seq(Tokens) /\ Len(fed) = Len(candidates) /\ fed[1] = returned[Len(returned)]
      /\ \A j \in 1..(Len(candidates) - 1) : fed[j + 1] = candidates[j]
  <2> DEFINE front == Front(candidates)
             newest == Last(returned)
  <2>1. front \in Seq(Tokens) /\ newest \in Tokens
    BY <1>2, <1>3
  <2> HIDE DEF front, newest
  <2>2. /\ <<newest>> \o front \in Seq(Tokens) /\ Len(<<newest>> \o front) = 1 + Len(front)
        /\ (<<newest>> \o front)[1] = newest
        /\ \A j \in 1..Len(front) : (<<newest>> \o front)[j + 1] = front[j]
    BY <2>1
  <2> QED
    BY <1>1, <1>2, <1>3, <2>2 DEF front, newest
<1>5. padding \in Seq(Tokens) /\ Len(padding) = SpecLength - Len(candidates)
  <2> HIDE DEF fed
  <2>1. /\ SpecLength - Len(candidates) \in Nat /\ Eos \in Tokens
        /\ padding = [i \in 1..(SpecLength - Len(candidates)) |-> Eos]
    BY <1>1, <1>4, SpecConstants
  <2> HIDE DEF padding
  <2> QED
    BY <2>1
<1>6. PassInput = fed \o padding
  BY DEF PassInput
<1> HIDE DEF fed, padding
<1>7. /\ fed \o padding \in Seq(Tokens) /\ Len(fed \o padding) = Len(fed) + Len(padding)
      /\ \A j \in 1..Len(fed) : (fed \o padding)[j] = fed[j]
  BY <1>4, <1>5, Joined
<1> QED
  BY <1>1, <1>4, <1>5, <1>6, <1>7, SpecConstants

\* The i-th logits of a pass are computed from the output and the proposals before.
LEMMA SeenIs ==
  ASSUME SpecInv, specAt = "verify", NEW i \in 1..Len(candidates)
  PROVE  /\ Seen(i) \in Seq(Tokens) /\ Len(Seen(i)) = Len(returned) + i - 1
         /\ \A k \in 1..Len(returned) : Seen(i)[k] = returned[k]
         /\ \A j \in 1..(i - 1) : Seen(i)[Len(returned) + j] = candidates[j]
<1> DEFINE n == Len(returned)
           cached == [p \in 1..(currPos - PromptLength + 1) |-> targetKV[PromptLength + p - 1]]
           now == SubSeq(PassInput, 1, i)
<1>1. /\ returned \in Seq(Tokens) /\ n \in Nat /\ n >= 1 /\ n <= MaxLen - PromptLength + 1
      /\ candidates \in Seq(Tokens) /\ Len(candidates) <= SpecLength
      /\ currPos - PromptLength + 1 = n - 1 /\ Aligned
  BY SpecConstants DEF SpecInv, Proposed, Aligned
<1>2. /\ cached \in Seq(Tokens) /\ Len(cached) = n - 1
      /\ \A k \in 1..(n - 1) : cached[k] = returned[k]
  <2>1. cached = [p \in 1..(n - 1) |-> targetKV[PromptLength + p - 1]]
    BY <1>1
  <2>2. \A p \in 1..(n - 1) : targetKV[PromptLength + p - 1] = returned[p] /\ returned[p] \in Tokens
    BY <1>1 DEF Aligned
  <2> HIDE DEF n, cached
  <2>3. n - 1 \in Nat /\ \A p \in 1..(n - 1) : cached[p] = returned[p] /\ cached[p] \in Tokens
    <3>1. n - 1 \in Nat
      BY <1>1
    <3> QED
      BY <2>1, <2>2, <3>1
  <2>4. DOMAIN cached = 1..(n - 1) /\ cached = [p \in 1..(n - 1) |-> cached[p]]
    BY <2>1
  <2> QED
    BY <2>3, <2>4, ListIs
<1>3. /\ now \in Seq(Tokens) /\ Len(now) = i /\ now[1] = returned[n]
      /\ \A j \in 1..(i - 1) : now[j + 1] = candidates[j]
  <2>1. now = [j \in 1..i |-> PassInput[j]] /\ i \in 1..Len(PassInput)
    BY <1>1, PassInputIs, SpecConstants
  <2>2. \A j \in 1..(i - 1) : j \in 1..(Len(candidates) - 1) /\ j + 1 \in 1..i
    BY <1>1
  <2>3. \A j \in 1..i : PassInput[j] \in Tokens
    BY <2>1, PassInputIs
  <2> HIDE DEF now
  <2> QED
    BY <2>1, <2>2, <2>3, PassInputIs
<1>4. Seen(i) = cached \o now
  BY DEF Seen
<1> HIDE DEF cached, now, n
<1>5. /\ cached \o now \in Seq(Tokens) /\ Len(cached \o now) = (n - 1) + i
      /\ \A k \in 1..(n - 1) : (cached \o now)[k] = cached[k]
      /\ \A j \in 1..i : (cached \o now)[(n - 1) + j] = now[j]
  <2>1. i \in Nat /\ Len(cached) = n - 1 /\ Len(now) = i
    BY <1>2, <1>3
  <2>2. /\ cached \o now \in Seq(Tokens) /\ Len(cached \o now) = Len(cached) + Len(now)
        /\ \A k \in 1..Len(cached) : (cached \o now)[k] = cached[k]
        /\ \A j \in 1..Len(now) : (cached \o now)[Len(cached) + j] = now[j]
    <3>1. cached \in Seq(Tokens) /\ now \in Seq(Tokens)
      BY <1>2, <1>3
    <3> QED
      BY <3>1, Joined
  <2> QED
    BY <2>1, <2>2
<1>6. \A k \in 1..n : (cached \o now)[k] = returned[k]
  <2>1. (cached \o now)[n] = returned[n]
    <3>1. 1 \in 1..i /\ (n - 1) + 1 = n
      BY <1>1
    <3> QED
      BY <1>3, <1>5, <3>1
  <2>2. \A k \in 1..n : k = n \/ k \in 1..(n - 1)
    BY <1>1
  <2> QED
    BY <1>2, <1>5, <2>1, <2>2
<1>7. \A j \in 1..(i - 1) : (cached \o now)[n + j] = candidates[j]
  <2>1. \A j \in 1..(i - 1) : j + 1 \in 1..i /\ (n - 1) + (j + 1) = n + j
    BY <1>1
  <2> QED
    BY <1>3, <1>5, <2>1
<1> QED
  BY <1>1, <1>4, <1>5, <1>6, <1>7 DEF n

\* While the proposals agree with the target, its next token is the text's.
LEMMA TargetFollows ==
  ASSUME SpecInv, specAt = "verify", NEW i \in 1..Len(candidates),
         Len(returned) + i <= Len(greedy),
         \A j \in 1..(i - 1) : candidates[j] = greedy[Len(returned) + j]
  PROVE  TargetNext(Seen(i)) = {greedy[Len(returned) + i]}
<1> DEFINE n == Len(returned)
           seen == Seen(i)
<1>1. /\ returned \in Seq(Tokens) /\ n \in Nat /\ greedy \in Seq(Tokens)
      /\ \A k \in 1..n : returned[k] = greedy[k]
  BY SpecConstants DEF SpecInv
<1>2. /\ seen \in Seq(Tokens) /\ Len(seen) = n + i - 1
      /\ \A k \in 1..n : seen[k] = returned[k]
      /\ \A j \in 1..(i - 1) : seen[n + j] = candidates[j]
  BY SeenIs
<1> HIDE DEF n, seen
<1>3. i \in Nat /\ Len(greedy) \in Nat /\ n + i <= Len(greedy)
      /\ \A j \in 1..(i - 1) : candidates[j] = greedy[n + j]
  BY <1>1 DEF n
<1>4. ASSUME NEW k \in 1..Len(seen) PROVE seen[k] = greedy[k]
  <2>1. CASE k <= n
    BY <1>1, <1>2, <2>1
  <2>2. CASE k > n
    <3>1. k - n \in 1..(i - 1) /\ n + (k - n) = k
      BY <1>1, <1>2, <1>3, <2>2
    <3> QED
      BY <1>2, <1>3, <3>1
  <2> QED
    BY <1>1, <1>2, <2>1, <2>2
<1>5. IsPrefix(seen, greedy) /\ Len(seen) < Len(greedy) /\ Len(seen) + 1 = n + i
  <2>1. Len(seen) < Len(greedy) /\ Len(seen) + 1 = n + i
    BY <1>1, <1>2, <1>3
  <2> QED
    BY <1>1, <1>2, <1>4, <2>1, PrefixIs
<1>6. TargetNext(seen) = {greedy[n + i]}
  BY <1>5 DEF TargetNext
<1> QED
  BY <1>6 DEF seen, n

\* The proposals that a pass accepts, and how many it does.
MatchesOf(out) == Min({Matches(out), MaxLen - curLen - 1})

\* Proposals are accepted only as far as all of them match, and fit.
LEMMA MatchesAre ==
  ASSUME SpecInv, specAt = "verify", NEW out \in [1..SpecLength -> Tokens]
  PROVE  /\ MatchesOf(out) \in 0..(Len(candidates) - 1)
         /\ Len(returned) + MatchesOf(out) + 1 <= Len(greedy)
         /\ \A i \in 1..MatchesOf(out) : candidates[i] = out[i]
<1> DEFINE b == Len(candidates) - 1
           ms == {m \in 0..b : \A i \in 1..m : candidates[i] = out[i]}
<1>1. /\ candidates \in Seq(Tokens) /\ b \in Nat /\ Len(returned) \in Nat
      /\ Len(greedy) = MaxLen - PromptLength + 1 /\ curLen = PromptLength + Len(returned) - 1
      /\ MaxLen - curLen - 1 \in Nat
  BY SpecConstants DEF SpecInv, Proposed, Aligned
<1>2. ms \in SUBSET (0..b) /\ 0 \in ms
  BY <1>1
<1>3. Matches(out) = Max(ms)
  BY DEF Matches
<1> HIDE DEF b
<1>4. Matches(out) \in ms
  <2> HIDE DEF ms
  <2> QED
    BY <1>1, <1>2, <1>3, GreatestIs
<1>5. Matches(out) \in 0..b /\ \A i \in 1..Matches(out) : candidates[i] = out[i]
  BY <1>4
<1>6. MatchesOf(out) \in 0..Matches(out) /\ MatchesOf(out) <= MaxLen - curLen - 1
  BY <1>1, <1>5, LesserIs DEF MatchesOf
<1>7. /\ MatchesOf(out) \in 0..b
      /\ \A i \in 1..MatchesOf(out) : candidates[i] = out[i]
  BY <1>1, <1>5, <1>6
<1>8. Len(returned) + MatchesOf(out) + 1 <= Len(greedy)
  BY <1>1, <1>6, <1>7, SpecConstants
<1> QED
  BY <1>7, <1>8 DEF b

\* What a pass adds to the output is the text's continuation, whatever was proposed.
LEMMA VerifyFollows ==
  ASSUME SpecInv, specAt = "verify", NEW out \in [1..SpecLength -> Tokens],
         \A i \in 1..SpecLength : out[i] \in TargetNext(Seen(i))
  PROVE  \A i \in 1..(MatchesOf(out) + 1) : out[i] = greedy[Len(returned) + i]
<1> DEFINE n == Len(returned)
           m == MatchesOf(out)
           Good == {k \in Nat : \A i \in 1..k : i <= m + 1 => out[i] = greedy[n + i]}
<1>1. /\ m \in Nat /\ m + 1 <= Len(candidates) /\ Len(candidates) <= SpecLength
      /\ Len(candidates) \in Nat /\ SpecLength \in Nat /\ n \in Nat /\ Len(greedy) \in Nat
      /\ n + m + 1 <= Len(greedy) /\ \A i \in 1..m : candidates[i] = out[i]
  BY MatchesAre, SpecConstants DEF SpecInv, Proposed
<1> HIDE DEF m, n
<1>2. 0 \in Good
  OBVIOUS
<1>3. ASSUME NEW k \in Nat, k \in Good PROVE k + 1 \in Good
  <2>1. ASSUME k + 1 <= m + 1 PROVE out[k + 1] = greedy[n + (k + 1)]
    <3>1. /\ k + 1 \in 1..Len(candidates) /\ k + 1 \in 1..SpecLength
          /\ n + (k + 1) <= Len(greedy) /\ k <= m
      BY <1>1, <2>1
    <3>2. \A j \in 1..((k + 1) - 1) : candidates[j] = greedy[n + j]
      <4>1. \A j \in 1..((k + 1) - 1) : j \in 1..k /\ j \in 1..m /\ j <= m + 1
        BY <1>1, <3>1
      <4> QED
        BY <1>1, <1>3, <4>1
    <3>3. TargetNext(Seen(k + 1)) = {greedy[n + (k + 1)]}
      BY <3>1, <3>2, TargetFollows DEF n
    <3> QED
      BY <3>1, <3>3
  <2>2. \A i \in 1..(k + 1) : i \in 1..k \/ i = k + 1
    OBVIOUS
  <2> QED
    BY <1>3, <2>1, <2>2
<1>4. Nat \subseteq Good
  <2> HIDE DEF Good
  <2> QED
    BY <1>2, <1>3, NatSetInduction
<1>5. m + 1 \in Good
  <2> HIDE DEF Good
  <2> QED
    BY <1>1, <1>4
<1>6. \A i \in 1..(m + 1) : i <= m + 1
  BY <1>1
<1> QED
  BY <1>5, <1>6 DEF m, n

\* The prompt is encoded and the target says its first token.
LEMMA FirstTokenKeeps ==
  ASSUME SpecInv, FirstToken
  PROVE  SpecInv'
<1>1. /\ returned = <<>> /\ candidates = <<>> /\ targetKV \in [Generated -> Tokens]
      /\ currPos = PromptLength - 1 /\ curLen = PromptLength /\ specAt' = "draft"
      /\ UNCHANGED <<greedy, candidates, targetKV, currPos, curLen>>
  BY DEF FirstToken, SpecInv
<1>2. /\ greedy \in Seq(Tokens) /\ Len(greedy) = MaxLen - PromptLength + 1
      /\ greedy \in [1..(MaxLen - PromptLength + 1) -> Tokens]
  BY SpecConstants DEF SpecInv
<1>3. IsPrefix(<<>>, greedy) /\ Len(<<>>) < Len(greedy)
  <2> DEFINE none == <<>>
  <2>1. none \in Seq(Tokens) /\ Len(none) = 0 /\ Len(greedy) >= 1
    BY <1>2, SpecConstants
  <2> HIDE DEF none
  <2>2. Len(greedy) \in Nat /\ greedy \in Seq(Tokens)
    BY <1>2
  <2>3. Len(none) < Len(greedy) /\ Len(none) <= Len(greedy)
    BY <2>1, <2>2
  <2>4. \A k \in 1..Len(none) : none[k] = greedy[k]
    BY <2>1
  <2>5. IsPrefix(none, greedy)
    BY <2>1, <2>2, <2>3, <2>4, PrefixIs
  <2> QED
    BY <2>3, <2>5 DEF none
<1>4. returned' = <<greedy[1]>> /\ greedy[1] \in Tokens
  BY <1>2, <1>3, SpecConstants DEF FirstToken, TargetNext
<1>5. /\ returned' \in Seq(Tokens) /\ Len(returned') = 1 /\ returned'[1] = greedy[1]
  BY <1>4
<1>6. candidates' \in Seq(Tokens) /\ Len(candidates') = 0
  BY <1>1
<1>7. Aligned'
  BY <1>1, <1>5, SpecConstants DEF Aligned, Generated
<1>8. Proposed'
  BY <1>1, <1>6, SpecConstants DEF Proposed
<1> QED
  BY <1>1, <1>2, <1>5, <1>7, <1>8, SpecConstants DEF SpecInv

\* The draft proposes one more token.
LEMMA DraftTokenKeeps ==
  ASSUME SpecInv, NEW t \in Tokens, DraftToken(t)
  PROVE  SpecInv'
<1> DEFINE proposed == Append(candidates, t)
           n == Len(candidates)
<1>1. /\ specAt = "draft" /\ candidates' = proposed
      /\ specAt' = IF DraftEnds(proposed) THEN "verify" ELSE "draft"
      /\ UNCHANGED <<greedy, returned, targetKV, currPos, curLen>>
  BY DEF DraftToken
<1>2. /\ candidates \in Seq(Tokens) /\ n \in Nat /\ n < AssistTokens
      /\ \A i \in 1..n : candidates[i] # Eos
  BY <1>1 DEF SpecInv, Proposed
<1>3. /\ proposed \in Seq(Tokens) /\ Len(proposed) = n + 1 /\ proposed[n + 1] = t
      /\ \A i \in 1..n : proposed[i] = candidates[i]
  BY <1>2
<1> HIDE DEF proposed, n
<1>4. DraftEnds(proposed) <=> (n + 1 = AssistTokens \/ t = Eos)
  BY <1>3 DEF DraftEnds, Last
<1>5. Proposed'
  <2>1. \A i \in 1..(Len(proposed) - 1) : proposed[i] # Eos
    BY <1>2, <1>3
  <2>2. ~DraftEnds(proposed) => n + 1 < AssistTokens /\ \A i \in 1..(n + 1) : proposed[i] # Eos
    BY <1>2, <1>3, <1>4, SpecConstants
  <2>3. proposed # <<>> /\ n + 1 <= AssistTokens /\ DOMAIN proposed = 1..(n + 1)
    BY <1>2, <1>3, SpecConstants
  <2> QED
    BY <1>1, <1>3, <2>1, <2>2, <2>3 DEF Proposed
<1>6. Aligned'
  BY <1>1 DEF SpecInv, Aligned
<1> QED
  BY <1>1, <1>5, <1>6 DEF SpecInv

\* A pass of the target adds what it accepts to the output, and to its cache what it was
\* shown: counters, cache and output stay aligned.
LEMMA VerifyKeeps ==
  ASSUME SpecInv, NEW out \in [1..SpecLength -> Tokens], Verify(out)
  PROVE  SpecInv'
<1> DEFINE n == Len(returned)
           m == MatchesOf(out)
           valid == SubSeq(out, 1, m + 1)
<1>1. /\ specAt = "verify" /\ \A i \in 1..SpecLength : out[i] \in TargetNext(Seen(i))
      /\ returned' = returned \o valid /\ candidates' = <<>> /\ greedy' = greedy
      /\ targetKV' = [p \in Generated |->
           IF p \in currPos + 1 .. currPos + SpecLength THEN PassInput[p - currPos] ELSE targetKV[p]]
      /\ currPos' = currPos + Len(valid) /\ curLen' = curLen + Len(valid)
      /\ specAt' = IF Last(returned') = Eos \/ curLen + Len(valid) >= MaxLen
                      \/ MaxLen - (curLen + Len(valid)) < SpecLength
                   THEN "done" ELSE "draft"
  BY DEF Verify, Accepted, MatchesOf
<1>2. /\ returned \in Seq(Tokens) /\ \A i \in 1..n : returned[i] = greedy[i]
      /\ greedy \in Seq(Tokens) /\ Len(greedy) = MaxLen - PromptLength + 1
      /\ greedy \in [1..(MaxLen - PromptLength + 1) -> Tokens]
      /\ Aligned /\ Proposed
      /\ \A i \in 1..m : candidates[i] = out[i]
  BY <1>1, MatchesAre, SpecConstants DEF SpecInv
<1>20. /\ m \in Nat /\ m + 1 <= Len(candidates) /\ Len(candidates) <= SpecLength
       /\ n + m + 1 <= MaxLen - PromptLength + 1
       /\ Len(candidates) \in Nat /\ n \in Nat /\ n >= 1
       /\ PromptLength \in Nat /\ PromptLength >= 1 /\ MaxLen \in Nat /\ SpecLength \in Nat
       /\ currPos = PromptLength + n - 2 /\ curLen = PromptLength + n - 1
  <2>1. m \in 0..(Len(candidates) - 1) /\ n + m + 1 <= Len(greedy)
    BY <1>1, MatchesAre
  <2>2. Len(candidates) \in Nat /\ Len(candidates) <= AssistTokens /\ n \in Nat /\ n >= 1
    BY <1>1, <1>2 DEF SpecInv, Proposed
  <2> HIDE DEF m
  <2>3. m \in Nat /\ m + 1 <= Len(candidates)
    BY <2>1, <2>2
  <2> QED
    BY <1>2, <2>1, <2>2, <2>3, SpecConstants DEF Aligned
<1>3. \A i \in 1..(m + 1) : out[i] = greedy[n + i]
  BY <1>1, VerifyFollows
<1>4. /\ valid \in Seq(Tokens) /\ Len(valid) = m + 1
      /\ \A i \in 1..(m + 1) : valid[i] = out[i]
  <2>1. out \in Seq(Tokens) /\ Len(out) = SpecLength
    BY SpecConstants
  <2>2. m + 1 \in 0..Len(out)
    BY <1>20, <2>1
  <2> HIDE DEF m
  <2> QED
    BY <2>1, <2>2, Beginning
<1> HIDE DEF m, n, valid
<1>5. /\ returned' \in Seq(Tokens) /\ Len(returned') = n + m + 1
      /\ \A i \in 1..n : returned'[i] = returned[i]
      /\ \A j \in 1..(m + 1) : returned'[n + j] = out[j]
  <2>1. /\ returned \o valid \in Seq(Tokens) /\ Len(returned \o valid) = Len(returned) + Len(valid)
        /\ \A i \in 1..Len(returned) : (returned \o valid)[i] = returned[i]
        /\ \A j \in 1..Len(valid) : (returned \o valid)[Len(returned) + j] = valid[j]
    <3>1. returned \in Seq(Tokens) /\ valid \in Seq(Tokens)
      BY <1>2, <1>4
    <3> QED
      BY <3>1, Joined
  <2>2. Len(returned) = n /\ Len(valid) = m + 1 /\ returned' = returned \o valid
    BY <1>1, <1>4 DEF n
  <2>3. returned' \in Seq(Tokens) /\ Len(returned') = n + m + 1
    BY <1>20, <2>1, <2>2
  <2>4. \A i \in 1..n : returned'[i] = returned[i]
    BY <2>1, <2>2
  <2>5. ASSUME NEW j \in 1..(m + 1) PROVE returned'[n + j] = out[j]
    BY <1>4, <2>1, <2>2, <2>5
  <2> QED
    BY <2>3, <2>4, <2>5
<1>6. \A i \in 1..(n + m + 1) : i \in 1..n \/ (i - n \in 1..(m + 1) /\ n + (i - n) = i)
  BY <1>20
<1>7. \A i \in 1..Len(returned') : returned'[i] = greedy[i]
  <2>1. ASSUME NEW i \in 1..(n + m + 1) PROVE returned'[i] = greedy[i]
    <3>1. CASE i \in 1..n
      BY <1>2, <1>5, <3>1
    <3>2. CASE i - n \in 1..(m + 1) /\ n + (i - n) = i
      BY <1>3, <1>5, <3>2
    <3> QED
      BY <1>6, <3>1, <3>2
  <2> QED
    BY <1>5, <2>1
<1>8. \A i \in 2..(n + m) : returned'[i] # Eos
  <2>1. ASSUME NEW i \in 2..(n + m) PROVE returned'[i] # Eos
    <3>1. CASE i \in 1..n
      BY <1>2, <1>5, <3>1 DEF Aligned, n
    <3>2. CASE i \notin 1..n
      <4>1. i - n \in 1..m /\ i - n \in 1..(m + 1) /\ n + (i - n) = i /\ i - n \in 1..(Len(candidates) - 1)
        BY <1>20, <3>2
      <4>2. returned'[i] = candidates[i - n]
        BY <1>2, <1>5, <4>1
      <4> QED
        BY <1>2, <4>1, <4>2 DEF Proposed
    <3> QED
      BY <3>1, <3>2
  <2> QED
    BY <2>1
<1>9. ASSUME specAt' = "draft" PROVE Aligned' /\ Proposed'
  <2>1. /\ Last(returned') # Eos /\ curLen + (m + 1) < MaxLen
        /\ ~(MaxLen - (curLen + (m + 1)) < SpecLength)
    BY <1>1, <1>4, <1>9, SpecConstants DEF Aligned, n
  <2>2. returned'[n + m + 1] # Eos
    BY <1>5, <2>1 DEF Last
  <2>3. /\ currPos = PromptLength + n - 2 /\ curLen = PromptLength + n - 1
        /\ currPos' = currPos + (m + 1) /\ curLen' = curLen + (m + 1)
        /\ targetKV \in [Generated -> Tokens]
        /\ \A i \in 1..(n - 1) : targetKV[PromptLength + i - 1] = returned[i]
    BY <1>1, <1>2, <1>4 DEF Aligned, n
  <2>4. curLen' + SpecLength <= MaxLen
    BY <1>20, <2>1, <2>3
  <2>5. /\ PassInput \in Seq(Tokens) /\ Len(PassInput) = SpecLength /\ PassInput[1] = returned[n]
        /\ \A j \in 1..(Len(candidates) - 1) : PassInput[j + 1] = candidates[j]
    BY <1>1, PassInputIs DEF n
  <2>6. targetKV' \in [Generated -> Tokens]
    <3>1. ASSUME NEW p \in Generated
          PROVE  (IF p \in currPos + 1 .. currPos + SpecLength THEN PassInput[p - currPos] ELSE targetKV[p])
                   \in Tokens
      <4>1. CASE p \in currPos + 1 .. currPos + SpecLength
        <5>1. p - currPos \in 1..Len(PassInput)
          BY <1>20, <2>5, <3>1, <4>1 DEF Generated
        <5> QED
          BY <2>5, <4>1, <5>1
      <4>2. CASE ~(p \in currPos + 1 .. currPos + SpecLength)
        BY <2>3, <3>1, <4>2
      <4> QED
        BY <4>1, <4>2
    <3> QED
      BY <1>1, <3>1
  <2>7. ASSUME NEW i \in 1..(n + m) PROVE targetKV'[PromptLength + i - 1] = returned'[i]
    <3> DEFINE p == PromptLength + i - 1
    <3>1. p \in Generated /\ p \in Int /\ i \in Int
      BY <1>20 DEF Generated
    <3>2. CASE i < n
      <4>1. ~(p \in currPos + 1 .. currPos + SpecLength) /\ i \in 1..(n - 1) /\ i \in 1..n
        BY <1>20, <3>2
      <4> QED
        BY <1>1, <1>5, <2>3, <3>1, <4>1
    <3>3. CASE i = n
      <4>1. p \in currPos + 1 .. currPos + SpecLength /\ p - currPos = 1 /\ i \in 1..n
        BY <1>20, <3>3
      <4> QED
        BY <1>1, <1>5, <2>5, <3>1, <3>3, <4>1
    <3>4. CASE i > n
      <4> DEFINE j == i - n
      <4>1. /\ p \in currPos + 1 .. currPos + SpecLength /\ p - currPos = j + 1
            /\ j \in 1..m /\ j \in 1..(Len(candidates) - 1) /\ j \in 1..(m + 1) /\ n + j = i
        BY <1>20, <3>4
      <4>2. targetKV'[p] = PassInput[j + 1]
        BY <1>1, <3>1, <4>1
      <4> HIDE DEF j, p
      <4> QED
        BY <1>2, <1>5, <2>5, <4>1, <4>2 DEF p
    <3> QED
      BY <1>20, <3>1, <3>2, <3>3, <3>4
  <2>8. \A i \in 2..Len(returned') : returned'[i] # Eos
    <3>1. \A i \in 2..(n + m + 1) : i \in 2..(n + m) \/ i = n + m + 1
      BY <1>20
    <3> QED
      BY <1>5, <1>8, <2>2, <3>1
  <2>9. Aligned'
    <3>1. /\ Len(returned') = n + m + 1 /\ currPos' = (PromptLength + n - 2) + (m + 1)
          /\ curLen' = (PromptLength + n - 1) + (m + 1)
      BY <1>5, <2>3
    <3>2. /\ Len(returned') - 1 = n + m /\ currPos' = PromptLength + Len(returned') - 2
          /\ curLen' = PromptLength + Len(returned') - 1
      BY <1>20, <3>1
    <3> QED
      BY <2>4, <2>6, <2>7, <2>8, <3>2 DEF Aligned, Generated
  <2>10. Proposed'
    BY <1>1, <1>9, SpecConstants DEF Proposed
  <2> QED
    BY <2>9, <2>10
<1>10. /\ specAt' \in {"draft", "done"}
       /\ Len(returned') - 1 = n + m /\ Len(returned') <= Len(greedy) /\ Len(returned') >= 1
  BY <1>1, <1>2, <1>5, <1>20
<1>11. \A i \in 2..(Len(returned') - 1) : returned'[i] # Eos
  BY <1>8, <1>10
<1> QED
  BY <1>1, <1>2, <1>5, <1>7, <1>9, <1>10, <1>11 DEF SpecInv

\* Before the first token everything is empty.
LEMMA SpecInitHolds ==
  ASSUME SpecInit
  PROVE  SpecInv
<1> DEFINE none == <<>>
<1>1. /\ greedy \in [1..(MaxLen - PromptLength + 1) -> Tokens] /\ specAt = "first"
      /\ candidates = none /\ returned = none /\ currPos = PromptLength - 1 /\ curLen = PromptLength
      /\ targetKV \in [Generated -> Tokens]
  BY SpecConstants DEF SpecInit
<1>2. greedy \in Seq(Tokens) /\ Len(greedy) = MaxLen - PromptLength + 1 /\ Len(greedy) \in Nat
  BY <1>1, SpecConstants
<1>3. none \in Seq(Tokens) /\ Len(none) = 0
  OBVIOUS
<1>4. returned \in Seq(Tokens) /\ Len(returned) = 0 /\ Len(returned) <= Len(greedy)
  <2> HIDE DEF none
  <2> QED
    BY <1>1, <1>2, <1>3
<1>5. /\ \A i \in 1..Len(returned) : returned[i] = greedy[i]
      /\ \A i \in 2..(Len(returned) - 1) : returned[i] # Eos
  <2>1. 1..Len(returned) = {} /\ 2..(Len(returned) - 1) = {}
    BY <1>4
  <2> QED
    BY <2>1
<1> QED
  BY <1>1, <1>4, <1>5 DEF SpecInv

\* The other uses leave assisted decoding alone.
LEMMA UsesSpeculate ==
  [InferenceNext]_inferenceVars => [SpecNext]_specVars
<1>1. ASSUME InferenceNext PROVE SpecNext \/ UNCHANGED specVars
  BY <1>1 DEF InferenceNext, Compile, Convert, KeepArtifacts, LoadWeights, Serve, GenerateBatch,
              AssistedDecoding, DecodeSharded, RouteCall
<1>2. ASSUME UNCHANGED inferenceVars PROVE UNCHANGED specVars
  BY <1>2 DEF inferenceVars
<1> QED
  BY <1>1, <1>2

\* What the draft proposes never changes the text: assisted decoding returns a prefix of
\* what the target alone would say, for any vocabulary, any lengths and quotas of
\* proposals, and any proposals (_standard_assisted_decoding).
THEOREM AssistanceChangesNothing == InferenceSpec => []OutputIsGreedy
<1>1. InferenceInit => SpecInv
  BY SpecInitHolds DEF InferenceInit
<1>2. SpecInv /\ [InferenceNext]_inferenceVars => SpecInv'
  <2> SUFFICES ASSUME SpecInv, [SpecNext]_specVars PROVE SpecInv'
    BY UsesSpeculate
  <2>1. CASE FirstToken
    BY <2>1, FirstTokenKeeps
  <2>2. ASSUME NEW t \in Tokens, DraftToken(t) PROVE SpecInv'
    BY <2>2, DraftTokenKeeps
  <2>3. ASSUME NEW out \in [1..SpecLength -> Tokens], Verify(out) PROVE SpecInv'
    BY <2>3, VerifyKeeps
  <2>4. CASE UNCHANGED specVars
    BY <2>4 DEF specVars, SpecInv, Aligned, Proposed
  <2> QED
    BY <2>1, <2>2, <2>3, <2>4 DEF SpecNext
<1>3. SpecInv => OutputIsGreedy
  BY PrefixIs, SpecConstants DEF SpecInv, OutputIsGreedy
<1> QED
  BY <1>1, <1>2, <1>3, PTL DEF InferenceSpec

------------------------------------------------------------------------------
(* Buckets *)

\* The powers of two are what their recursive definition says.
LEMMA Pow2Unfolds == Pow2 = [e \in Nat |-> IF e = 0 THEN 1 ELSE 2 * Pow2[e - 1]]
<1> DEFINE Upto(n) == {g \in [0..n -> Nat] : g[0] = 1 /\ \A i \in 1..n : g[i] = 2 * g[i - 1]}
           Reached == {n \in Nat : Upto(n) # {}}
<1>1. 0 \in Reached
  <2>1. [i \in 0..0 |-> 1] \in Upto(0)
    OBVIOUS
  <2> QED
    BY <2>1
<1>2. ASSUME NEW n \in Nat, n \in Reached PROVE n + 1 \in Reached
  <2>1. PICK g \in [0..n -> Nat] : g[0] = 1 /\ \A i \in 1..n : g[i] = 2 * g[i - 1]
    BY <1>2
  <2> DEFINE h == [i \in 0..(n + 1) |-> IF i <= n THEN g[i] ELSE 2 * g[n]]
  <2>2. h \in [0..(n + 1) -> Nat] /\ h[0] = 1
    BY <2>1
  <2>3. ASSUME NEW i \in 1..(n + 1) PROVE h[i] = 2 * h[i - 1]
    <3>1. CASE i <= n
      BY <2>1, <3>1
    <3>2. CASE i = n + 1
      BY <2>1, <3>2
    <3> QED
      BY <3>1, <3>2
  <2> HIDE DEF h
  <2>4. h \in Upto(n + 1)
    BY <2>2, <2>3
  <2> HIDE DEF Upto
  <2> QED
    BY <2>4
<1>3. \A n \in Nat : Upto(n) # {}
  <2>1. Nat \subseteq Reached
    <3> HIDE DEF Reached
    <3> QED
      BY <1>1, <1>2, NatSetInduction
  <2> QED
    BY <2>1
<1> DEFINE part(n) == CHOOSE g : g \in Upto(n)
           whole == [n \in Nat |-> part(n)[n]]
<1>4. ASSUME NEW n \in Nat
      PROVE  /\ part(n) \in [0..n -> Nat] /\ part(n)[0] = 1
             /\ \A i \in 1..n : part(n)[i] = 2 * part(n)[i - 1]
  <2>1. part(n) \in Upto(n)
    BY <1>3
  <2> QED
    BY <2>1
<1> HIDE DEF part
<1>5. ASSUME NEW m \in Nat, NEW n \in Nat PROVE \A i \in Nat : i <= m /\ i <= n => part(m)[i] = part(n)[i]
  <2> DEFINE Same == {i \in Nat : i <= m /\ i <= n => part(m)[i] = part(n)[i]}
  <2>1. 0 \in Same
    BY <1>4
  <2>2. ASSUME NEW i \in Nat, i \in Same PROVE i + 1 \in Same
    <3>1. SUFFICES ASSUME i + 1 <= m, i + 1 <= n PROVE part(m)[i + 1] = part(n)[i + 1]
      OBVIOUS
    <3>2. i + 1 \in 1..m /\ i + 1 \in 1..n /\ (i + 1) - 1 = i /\ i <= m /\ i <= n
      BY <3>1
    <3>3. part(m)[i + 1] = 2 * part(m)[i] /\ part(n)[i + 1] = 2 * part(n)[i]
      BY <1>4, <3>2
    <3> QED
      BY <2>2, <3>2, <3>3
  <2>3. Nat \subseteq Same
    <3> HIDE DEF Same
    <3> QED
      BY <2>1, <2>2, NatSetInduction
  <2> QED
    BY <2>3
<1>6. ASSUME NEW e \in Nat PROVE whole[e] = IF e = 0 THEN 1 ELSE 2 * whole[e - 1]
  <2>1. CASE e = 0
    BY <1>4, <2>1
  <2>2. CASE e # 0
    <3>1. e - 1 \in Nat /\ e \in 1..e /\ e - 1 <= e
      BY <2>2
    <3>2. part(e)[e] = 2 * part(e)[e - 1] /\ part(e)[e - 1] = part(e - 1)[e - 1]
      BY <1>4, <1>5, <3>1
    <3> QED
      BY <2>2, <3>1, <3>2
  <2> QED
    BY <2>1, <2>2
<1>7. whole = [e \in Nat |-> IF e = 0 THEN 1 ELSE 2 * whole[e - 1]]
  <2> DEFINE other == [e \in Nat |-> IF e = 0 THEN 1 ELSE 2 * whole[e - 1]]
  <2>1. \A e \in Nat : whole[e] = other[e]
    BY <1>6
  <2> QED
    BY <2>1
<1> HIDE DEF whole
<1> QED
  BY <1>7 DEF Pow2

\* They double, and each is more than its exponent.
LEMMA PowersDouble ==
  /\ Pow2[0] = 1
  /\ \A e \in Nat : Pow2[e] \in Nat /\ Pow2[e + 1] = 2 * Pow2[e] /\ Pow2[e] > e
<1>1. Pow2[0] = 1 /\ \A e \in Nat : Pow2[e + 1] = 2 * Pow2[e]
  <2>1. \A e \in Nat : Pow2[e] = IF e = 0 THEN 1 ELSE 2 * Pow2[e - 1]
    BY Pow2Unfolds
  <2>2. \A e \in Nat : e + 1 \in Nat /\ e + 1 # 0 /\ (e + 1) - 1 = e
    OBVIOUS
  <2> QED
    BY <2>1, <2>2
<1> DEFINE Grown == {e \in Nat : Pow2[e] \in Nat /\ Pow2[e] > e}
<1>2. 0 \in Grown
  BY <1>1
<1>3. ASSUME NEW e \in Nat, e \in Grown PROVE e + 1 \in Grown
  BY <1>1, <1>3
<1>4. Nat \subseteq Grown
  <2> HIDE DEF Grown
  <2> QED
    BY <1>2, <1>3, NatSetInduction
<1> QED
  BY <1>1, <1>4

\* The powers of sums are products, and the powers grow.
LEMMA PowersMultiply ==
  \A a, b \in Nat : Pow2[a + b] = Pow2[a] * Pow2[b] /\ (a < b => Pow2[a] < Pow2[b])
<1> SUFFICES ASSUME NEW a \in Nat
             PROVE  \A b \in Nat : Pow2[a + b] = Pow2[a] * Pow2[b] /\ (a < b => Pow2[a] < Pow2[b])
  OBVIOUS
<1> DEFINE Good == {b \in Nat : Pow2[a + b] = Pow2[a] * Pow2[b] /\ (a < b => Pow2[a] < Pow2[b])}
<1>1. 0 \in Good
  BY PowersDouble
<1>2. ASSUME NEW b \in Nat, b \in Good PROVE b + 1 \in Good
  <2> DEFINE p == Pow2[a]
             q == Pow2[b]
  <2>1. /\ p \in Nat /\ q \in Nat /\ p > a /\ Pow2[b + 1] = 2 * q
        /\ Pow2[a + (b + 1)] = 2 * Pow2[a + b] /\ Pow2[a + b] = p * q
    <3>1. a + b \in Nat /\ a + (b + 1) = (a + b) + 1
      OBVIOUS
    <3> QED
      BY <1>2, <3>1, PowersDouble
  <2>2. Pow2[a + (b + 1)] = p * (2 * q)
    <3> HIDE DEF p, q
    <3> QED
      BY <2>1, Z3
  <2>3. ASSUME a < b + 1 PROVE p < 2 * q
    <3>1. CASE a = b
      BY <2>1, <3>1
    <3>2. CASE a < b
      BY <1>2, <2>1, <3>2
    <3> QED
      BY <2>3, <3>1, <3>2
  <2> QED
    BY <2>1, <2>2, <2>3
<1>3. Nat \subseteq Good
  <2> HIDE DEF Good
  <2> QED
    BY <1>1, <1>2, NatSetInduction
<1> QED
  BY <1>3

\* The logarithms exist; the rounded one rounds up by less than a half.
LEMMA LogarithmsAre ==
  ASSUME NEW n \in Nat \ {0}
  PROVE  /\ FloorLog2(n) \in Nat
         /\ RoundLog2(n) \in Nat /\ Pow2[2 * RoundLog2(n)] <= 2 * n * n
<1>1. \E e \in 0..n : Pow2[e] <= n /\ n < Pow2[e + 1]
  <2> DEFINE S == {e \in 0..n : Pow2[e] <= n}
             h == Max(S)
  <2>1. S \in SUBSET (0..n) /\ 0 \in S
    BY PowersDouble
  <2>2. h \in S /\ \A y \in S : y <= h
    <3> HIDE DEF S
    <3> QED
      BY <2>1, GreatestIs
  <2> HIDE DEF h
  <2>3. h \in 0..n /\ Pow2[h] <= n /\ h + 1 \notin S
    BY <2>2
  <2>4. n < Pow2[h + 1]
    BY <2>3, PowersDouble
  <2> QED
    BY <2>3, <2>4
<1>2. \E e \in 0..n : Pow2[2 * e] <= 2 * n * n /\ n * n < Pow2[2 * e + 1]
  <2> DEFINE S == {e \in 0..n : Pow2[2 * e] <= 2 * n * n}
             h == Max(S)
             nn == n * n
  <2>1. nn \in Nat /\ nn >= 1 /\ 2 * n * n = 2 * nn
    BY Z3
  <2>2. S \in SUBSET (0..n) /\ 0 \in S
    BY <2>1, PowersDouble
  <2>3. h \in S /\ \A y \in S : y <= h
    <3> HIDE DEF S
    <3> QED
      BY <2>2, GreatestIs
  <2> HIDE DEF h
  <2>4. h \in 0..n /\ Pow2[2 * h] <= 2 * n * n /\ h + 1 \notin S
    BY <2>3
  <2>5. /\ 2 * h \in Nat /\ Pow2[2 * h] \in Nat /\ Pow2[2 * h + 1] = 2 * Pow2[2 * h]
        /\ Pow2[2 * (h + 1)] = 2 * Pow2[2 * h + 1]
    <3>1. 2 * h \in Nat /\ 2 * h + 1 \in Nat /\ 2 * (h + 1) = (2 * h + 1) + 1
      BY <2>4
    <3> QED
      BY <3>1, PowersDouble
  <2>6. nn < Pow2[2 * h + 1]
    <3>1. CASE h = n
      <4> DEFINE p == Pow2[n]
      <4>1. p \in Nat /\ p > n
        BY PowersDouble
      <4>2. Pow2[2 * h] = p * p
        <5>1. n + n = 2 * h
          BY <3>1
        <5> QED
          BY <5>1, PowersMultiply
      <4>3. n * n <= p * p
        <5> HIDE DEF p
        <5> QED
          BY <4>1, Z3
      <4> HIDE DEF p
      <4> QED
        BY <2>1, <2>5, <4>2, <4>3
    <3>2. CASE h # n
      <4>1. h + 1 \in 0..n
        BY <2>4, <3>2
      <4>2. ~(Pow2[2 * (h + 1)] <= 2 * n * n)
        BY <2>4, <4>1
      <4> HIDE DEF nn
      <4> QED
        BY <2>1, <2>5, <4>2
    <3> QED
      BY <3>1, <3>2
  <2> QED
    BY <2>4, <2>6
<1> QED
  BY <1>1, <1>2 DEF FloorLog2, RoundLog2

\* The buckets grow, and the last is the maximum.
LEMMA BucketsGrow ==
  ASSUME NEW least \in Nat \ {0}, NEW most \in Nat \ {0}, NEW bs, bs = GenerateBuckets(least, most)
  PROVE  /\ bs \in Seq(Nat) /\ Len(bs) >= 1 /\ bs[Len(bs)] = most
         /\ \A i, j \in 1..Len(bs) : i < j => bs[i] < bs[j]
<1>1. CASE least = most
  BY <1>1 DEF GenerateBuckets
<1>2. CASE least # most
  <2> DEFINE low == FloorLog2(least)
             high == RoundLog2(most)
             k == Max({0, high - low})
             powers == [i \in 1..k |-> Pow2[low + i - 1]]
  <2>1. low \in Nat /\ high \in Nat /\ Pow2[2 * high] <= 2 * most * most
    BY LogarithmsAre
  <2>2. bs = powers \o <<most>>
    BY <1>2 DEF GenerateBuckets
  <2> HIDE DEF low, high
  <2>3. k \in Nat /\ (k >= 1 => k = high - low)
    <3>1. \E x \in {0, high - low} : \A y \in {0, high - low} : x >= y
      BY <2>1
    <3>2. k \in {0, high - low} /\ k >= 0
      BY <3>1 DEF Max
    <3> QED
      BY <2>1, <3>2
  <2> HIDE DEF k
  <2>4. \A i \in 1..k : low + i - 1 \in Nat /\ Pow2[low + i - 1] \in Nat
    BY <2>1, <2>3, PowersDouble
  <2>5. powers \in Seq(Nat) /\ Len(powers) = k
    BY <2>3, <2>4
  <2>6. /\ bs \in Seq(Nat) /\ Len(bs) = k + 1 /\ bs[k + 1] = most
        /\ \A i \in 1..k : bs[i] = powers[i]
    <3> HIDE DEF powers
    <3> QED
      BY <2>2, <2>3, <2>5
  <2>7. \A i \in 1..k : bs[i] = Pow2[low + i - 1]
    BY <2>6
  <2>8. ASSUME NEW i \in 1..k PROVE Pow2[low + i - 1] < most
    <3> DEFINE e == low + i - 1
               p == Pow2[e]
    <3>1. e \in Nat /\ e < high /\ high \in Nat
      BY <2>1, <2>3
    <3>2. e + e + 2 \in Nat /\ e + e + 2 <= 2 * high /\ e + e \in Nat
      BY <3>1
    <3>3. Pow2[e + e + 2] = 4 * (p * p)
      <4>1. Pow2[e + e] = p * p
        BY <3>1, PowersMultiply
      <4>2. Pow2[(e + e) + 1] = 2 * Pow2[e + e] /\ Pow2[((e + e) + 1) + 1] = 2 * Pow2[(e + e) + 1]
        BY <3>2, PowersDouble
      <4>3. e + e + 2 = ((e + e) + 1) + 1
        BY <3>1
      <4>4. Pow2[e + e] \in Nat
        BY <3>2, PowersDouble
      <4> HIDE DEF e, p
      <4> QED
        BY <4>1, <4>2, <4>3, <4>4
    <3>4. Pow2[e + e + 2] <= Pow2[2 * high]
      <4>1. 2 * high \in Nat /\ (e + e + 2 = 2 * high \/ e + e + 2 < 2 * high)
        BY <3>1, <3>2
      <4> DEFINE d == e + e + 2
                 f == 2 * high
      <4>2. d \in Nat /\ f \in Nat /\ (d = f \/ d < f)
        BY <3>2, <4>1
      <4> HIDE DEF d, f
      <4>3. Pow2[d] \in Nat /\ Pow2[f] \in Nat
        BY <4>2, PowersDouble
      <4>4. d < f => Pow2[d] < Pow2[f]
        BY <4>2, PowersMultiply, Zenon
      <4>5. d = f => Pow2[d] = Pow2[f]
        BY Zenon
      <4>6. Pow2[d] <= Pow2[f]
        BY <4>2, <4>3, <4>4, <4>5
      <4> QED
        BY <4>6 DEF d, f
    <3>5. p \in Nat
      BY <3>1, PowersDouble
    <3>6. 4 * (p * p) <= 2 * most * most
      <4>1. Pow2[2 * high] \in Nat /\ 2 * most * most \in Nat /\ p * p \in Nat
        <5>1. 2 * high \in Nat
          BY <2>1
        <5> HIDE DEF p
        <5> QED
          BY <3>5, <5>1, PowersDouble
      <4> HIDE DEF p, e
      <4> QED
        BY <2>1, <3>3, <3>4, <4>1
    <3> HIDE DEF p
    <3>7. p < most
      BY <3>5, <3>6, Z3
    <3> QED
      BY <3>7 DEF p
  <2>9. ASSUME NEW i \in 1..Len(bs), NEW j \in 1..Len(bs), i < j PROVE bs[i] < bs[j]
    <3>1. CASE j = k + 1
      <4>1. i \in 1..k
        BY <2>3, <2>6, <2>9, <3>1
      <4> QED
        BY <2>6, <2>7, <2>8, <3>1, <4>1
    <3>2. CASE j # k + 1
      <4>1. i \in 1..k /\ j \in 1..k
        BY <2>3, <2>6, <2>9, <3>2
      <4>2. low + i - 1 \in Nat /\ low + j - 1 \in Nat /\ low + i - 1 < low + j - 1
        BY <2>1, <2>9, <4>1
      <4> QED
        BY <2>7, <4>1, <4>2, PowersMultiply
    <3> QED
      BY <3>1, <3>2
  <2> QED
    BY <2>3, <2>6, <2>9
<1> QED
  BY <1>1, <1>2

\* What a call gets: the smallest bucket that is not too small for it.
LEMMA BucketsChosen ==
  ASSUME NEW least \in Nat \ {0}, NEW most \in Nat \ {0}, NEW bs, bs = GenerateBuckets(least, most),
         NEW n \in 1..most
  PROVE  /\ ContextBucket(bs, {n}) \in Range(bs) /\ ContextBucket(bs, {n}) >= n
         /\ GenerationBucket(bs, {n - 1}) = ContextBucket(bs, {n})
         /\ \A b \in Range(bs) : b >= n => b >= ContextBucket(bs, {n})
<1>1. /\ bs \in Seq(Nat) /\ Len(bs) >= 1 /\ bs[Len(bs)] = most
      /\ \A i, j \in 1..Len(bs) : i < j => bs[i] < bs[j]
  BY BucketsGrow
<1> DEFINE fits == {i \in 1..Len(bs) : ~(bs[i] < n)}
           first == Min(fits)
<1>2. DOMAIN bs = 1..Len(bs) /\ Len(bs) \in Nat /\ \A i \in 1..Len(bs) : bs[i] \in Nat
  BY <1>1
<1>3. fits \in SUBSET (0..Len(bs)) /\ fits # {}
  <2>1. Len(bs) \in fits
    BY <1>1, <1>2
  <2> QED
    BY <1>2, <2>1
<1>4. first \in fits /\ \A i \in fits : first <= i
  <2> HIDE DEF fits
  <2> QED
    BY <1>2, <1>3, LeastIs
<1>5. FirstIndex(bs, LAMBDA b : b < n) = first
  BY <1>2, <1>3 DEF FirstIndex
<1>6. FirstIndex(bs, LAMBDA b : b <= n - 1) = first
  <2>1. fits = {i \in DOMAIN bs : ~(bs[i] <= n - 1)}
    BY <1>2
  <2> QED
    BY <1>2, <1>3, <2>1 DEF FirstIndex
<1>7. \A x \in Nat : Max({x}) = x
  BY DEF Max
<1>8. first \in Nat /\ first \in 1..Len(bs) /\ bs[first] >= n
  BY <1>2, <1>4
<1> HIDE DEF first
<1>9. ContextBucket(bs, {n}) = bs[first]
  <2> DEFINE index(m) == FirstIndex(bs, LAMBDA b : b < m)
  <2>1. index(n) = first
    BY <1>5
  <2>2. ContextBucket(bs, {n}) = bs[Max({index(m) : m \in {n}})]
    BY DEF ContextBucket
  <2> HIDE DEF index
  <2>3. {index(m) : m \in {n}} = {first}
    BY <2>1
  <2> QED
    BY <1>7, <1>8, <2>2, <2>3
<1>10. GenerationBucket(bs, {n - 1}) = bs[first]
  <2> DEFINE index(p) == FirstIndex(bs, LAMBDA b : b <= p)
  <2>1. index(n - 1) = first
    BY <1>6
  <2>2. GenerationBucket(bs, {n - 1}) = bs[Max({index(p) : p \in {n - 1}})]
    BY DEF GenerationBucket
  <2> HIDE DEF index
  <2>3. {index(p) : p \in {n - 1}} = {first}
    BY <2>1
  <2> QED
    BY <1>7, <1>8, <2>2, <2>3
<1>11. Range(bs) = {bs[i] : i \in 1..Len(bs)}
  BY <1>2 DEF Range
<1>12. ASSUME NEW i \in 1..Len(bs), bs[i] >= n PROVE bs[i] >= bs[first]
  <2>1. i \in fits /\ first <= i
    BY <1>2, <1>4, <1>12
  <2>2. i = first \/ first < i
    BY <1>8, <2>1
  <2> QED
    BY <1>1, <1>2, <1>8, <2>2
<1> QED
  BY <1>8, <1>9, <1>10, <1>11, <1>12

\* The model is compiled for nothing yet, or for the lengths that generate_buckets lists.
CompiledInv ==
  /\ limits \in {l \in (1..BucketBound) \X (1..BucketBound) : l[1] <= l[2]}
  /\ buckets = <<>> \/ buckets = GenerateBuckets(limits[1], limits[2])

\* Whatever lengths a model is compiled for, they grow up to the maximum, and a prompt or
\* a new token gets the smallest of them that has room (generate_buckets,
\* context_encoder_bk, token_generation_bk).
THEOREM BucketsAreTight == InferenceSpec => []BucketIsTightest
<1>1. InferenceInit => CompiledInv
  BY DEF InferenceInit, CompiledInv
<1>2. CompiledInv /\ [InferenceNext]_inferenceVars => CompiledInv'
  <2>1. ASSUME CompiledInv, Compile PROVE CompiledInv'
    BY <2>1 DEF CompiledInv, Compile
  <2>2. ASSUME InferenceNext PROVE Compile \/ UNCHANGED bucketVars
    BY <2>2 DEF InferenceNext, Convert, KeepArtifacts, LoadWeights, Serve, GenerateBatch,
                AssistedDecoding, DecodeSharded, RouteCall, modelVars
  <2>3. ASSUME UNCHANGED inferenceVars PROVE UNCHANGED bucketVars
    BY <2>3 DEF inferenceVars, modelVars
  <2>4. ASSUME CompiledInv, UNCHANGED bucketVars PROVE CompiledInv'
    BY <2>4 DEF CompiledInv, bucketVars
  <2> QED
    BY <2>1, <2>2, <2>3, <2>4
<1>3. CompiledInv => BucketIsTightest
  <2> SUFFICES ASSUME CompiledInv, buckets # <<>> PROVE BucketIsTightest
    BY DEF BucketIsTightest
  <2> DEFINE least == limits[1]
             most == limits[2]
  <2>1. least \in Nat \ {0} /\ most \in Nat \ {0} /\ buckets = GenerateBuckets(least, most)
    BY InferenceAssumption DEF CompiledInv
  <2> HIDE DEF least, most
  <2>2. \A i \in DOMAIN buckets : i > 1 => buckets[i - 1] < buckets[i]
    <3>1. /\ buckets \in Seq(Nat) /\ Len(buckets) >= 1
          /\ \A i, j \in 1..Len(buckets) : i < j => buckets[i] < buckets[j]
      BY <2>1, BucketsGrow
    <3>2. \A i \in 1..Len(buckets) : i > 1 => i - 1 \in 1..Len(buckets) /\ i - 1 < i
      BY <3>1
    <3>3. DOMAIN buckets = 1..Len(buckets)
      BY <3>1
    <3> QED
      BY <3>1, <3>2, <3>3
  <2>3. ASSUME NEW n \in 1..most
        PROVE  /\ ContextBucket(buckets, {n}) = Min({b \in Range(buckets) : b >= n})
               /\ GenerationBucket(buckets, {n - 1}) = Min({b \in Range(buckets) : b >= n})
    <3> DEFINE roomy == {b \in Range(buckets) : b >= n}
               chosen == ContextBucket(buckets, {n})
    <3>1. chosen \in roomy /\ (\A b \in roomy : chosen <= b) /\ GenerationBucket(buckets, {n - 1}) = chosen
      BY <2>1, BucketsChosen
    <3>2. \A b \in roomy : b \in Nat
      <4>1. buckets \in Seq(Nat)
        BY <2>1, BucketsGrow
      <4> QED
        BY <4>1 DEF Range
    <3> HIDE DEF roomy, chosen
    <3>3. Min(roomy) \in roomy /\ \A b \in roomy : Min(roomy) <= b
      BY <3>1 DEF Min
    <3>4. Min(roomy) = chosen
      BY <3>1, <3>2, <3>3
    <3> QED
      BY <3>1, <3>4 DEF roomy, chosen
  <2> QED
    BY <2>2, <2>3 DEF BucketIsTightest, most
<1> QED
  BY <1>1, <1>2, <1>3, PTL DEF InferenceSpec

------------------------------------------------------------------------------
(* Flash decoding *)

\* Positions are dealt to the cores in turn: a core's slot has one position, and a
\* position one core and slot.
LEMMA PositionsDealt ==
  /\ \A p \in Nat : /\ p % GroupSize \in Ranks /\ p \div GroupSize \in Nat
                    /\ (p % GroupSize) + GroupSize * (p \div GroupSize) = p
  /\ \A r \in Ranks, s \in Nat :
       /\ r + GroupSize * s \in Nat
       /\ (r + GroupSize * s) % GroupSize = r /\ (r + GroupSize * s) \div GroupSize = s
<1>1. GroupSize \in Nat \ {0}
  BY FlashAssumption
<1> DEFINE g == GroupSize
<1>2. ASSUME NEW p \in Nat
      PROVE  /\ p % g \in 0..(g - 1) /\ p \div g \in Nat /\ (p % g) + g * (p \div g) = p
  <2> HIDE DEF g
  <2>1. g \in Nat \ {0}
    BY <1>1 DEF g
  <2>2. p % g \in 0..(g - 1)
    BY <2>1, Z3
  <2>3. p \div g \in Nat
    BY <2>1, Z3
  <2>4. (p % g) + g * (p \div g) = p
    BY <2>1, Z3
  <2> QED
    BY <2>2, <2>3, <2>4
<1>3. ASSUME NEW r \in 0..(g - 1), NEW s \in Nat
      PROVE  /\ r + g * s \in Nat /\ (r + g * s) % g = r /\ (r + g * s) \div g = s
  <2> HIDE DEF g
  <2>1. g \in Nat \ {0}
    BY <1>1 DEF g
  <2>2. r \in Nat /\ r < g
    BY <2>1
  <2>3. r + g * s \in Nat
    BY <2>1, <2>2, Z3
  <2>4. (r + g * s) % g = r /\ (r + g * s) \div g = s
    BY <2>1, <2>2, Z3
  <2> QED
    BY <2>3, <2>4
<1> QED
  BY <1>2, <1>3 DEF Ranks

\* Earlier columns hold earlier positions.
LEMMA ColumnsGrow ==
  \A r \in Ranks, q \in Ranks, s \in Nat, t \in Nat :
    s < t => r + GroupSize * s < q + GroupSize * t
<1> SUFFICES ASSUME NEW r \in Ranks, NEW q \in Ranks, NEW s \in Nat, NEW t \in Nat, s < t
             PROVE  r + GroupSize * s < q + GroupSize * t
  OBVIOUS
<1> DEFINE g == GroupSize
<1>1. g \in Nat \ {0} /\ r \in Nat /\ r < g /\ q \in Nat
  BY FlashAssumption DEF Ranks
<1> HIDE DEF g
<1>2. g * s + g <= g * t
  BY <1>1, Z3
<1>3. g * s \in Nat /\ g * t \in Nat
  BY <1>1, Z3
<1>4. r + g * s < q + g * t
  BY <1>1, <1>2, <1>3
<1> QED
  BY <1>4 DEF g

\* The bucket of a position: it has room for it, and its columns are whole.
LEMMA FlashBuckets ==
  ASSUME NEW f \in {FlashPrompt, FlashLength}, NEW n \in 1..f,
         NEW b, b = ContextBucket(GenerateBuckets(FlashBucket, f), {n})
  PROVE  /\ b \in Nat /\ n <= b /\ b <= f /\ b % GroupSize = 0
         /\ b = GroupSize * SlotsOf(b) /\ SlotsOf(b) \in Nat \ {0} /\ SlotsOf(b) <= SlotsOf(FlashLength)
         /\ SlotsOf(FlashLength) \in Nat
<1>1. /\ FlashLength \in Nat \ {0} /\ FlashPrompt \in Nat \ {0} /\ FlashPrompt <= FlashLength
      /\ FlashBucket \in Nat \ {0} /\ f \in Nat \ {0} /\ f <= FlashLength /\ GroupSize \in Nat \ {0}
  BY FlashAssumption
<1> DEFINE bs == GenerateBuckets(FlashBucket, f)
<1>2. b \in Range(bs) /\ n <= b
  <2> HIDE DEF bs
  <2>1. n \in 1..f /\ b = ContextBucket(bs, {n}) /\ bs = GenerateBuckets(FlashBucket, f)
    BY DEF bs
  <2>2. /\ ContextBucket(bs, {n}) \in Range(bs) /\ ContextBucket(bs, {n}) >= n
    BY <1>1, <2>1, BucketsChosen
  <2> QED
    BY <2>1, <2>2
<1>3. bs \in Seq(Nat) /\ \A i \in 1..Len(bs) : bs[i] <= f
  <2> HIDE DEF bs
  <2>1. /\ bs \in Seq(Nat) /\ Len(bs) >= 1 /\ bs[Len(bs)] = f
        /\ \A i, j \in 1..Len(bs) : i < j => bs[i] < bs[j]
    BY <1>1, BucketsGrow DEF bs
  <2>2. ASSUME NEW i \in 1..Len(bs) PROVE bs[i] <= f
    <3>1. i = Len(bs) \/ i < Len(bs)
      BY <2>1
    <3>2. Len(bs) \in 1..Len(bs) /\ bs[i] \in Nat
      BY <2>1
    <3> QED
      BY <1>1, <2>1, <3>1, <3>2
  <2> QED
    BY <2>1, <2>2
<1>4. b \in Nat /\ b <= f
  <2>1. PICK i \in 1..Len(bs) : b = bs[i]
    <3> HIDE DEF bs
    <3>1. DOMAIN bs = 1..Len(bs)
      BY <1>3
    <3>2. b \in {bs[i] : i \in 1..Len(bs)}
      BY <1>2, <3>1 DEF Range
    <3> QED
      BY <3>2
  <2> HIDE DEF bs
  <2> QED
    BY <1>3, <2>1
<1>5. b % GroupSize = 0
  BY <1>2, FlashAssumption
<1>6. b = GroupSize * (b \div GroupSize) /\ b \div GroupSize \in Nat
  <2>1. b \div GroupSize \in Nat /\ (b % GroupSize) + GroupSize * (b \div GroupSize) = b
    BY <1>4, PositionsDealt
  <2>2. GroupSize * (b \div GroupSize) \in Nat
    BY <1>1, <2>1, Z3
  <2> QED
    BY <1>4, <1>5, <2>1, <2>2
<1>7. b \div GroupSize # 0
  BY <1>1, <1>2, <1>4, <1>6
<1>8. FlashLength \div GroupSize \in Nat /\ FlashLength < GroupSize * (FlashLength \div GroupSize) + GroupSize
  <2>1. /\ FlashLength \div GroupSize \in Nat /\ FlashLength % GroupSize \in Ranks
        /\ (FlashLength % GroupSize) + GroupSize * (FlashLength \div GroupSize) = FlashLength
    BY <1>1, PositionsDealt
  <2>2. GroupSize * (FlashLength \div GroupSize) \in Nat
    BY <1>1, <2>1, Z3
  <2>3. FlashLength % GroupSize \in Nat /\ FlashLength % GroupSize < GroupSize
    BY <1>1, <2>1 DEF Ranks
  <2> QED
    BY <1>1, <2>1, <2>2, <2>3
<1>9. b \div GroupSize <= FlashLength \div GroupSize
  <2> DEFINE g == GroupSize
             s == b \div GroupSize
             t == FlashLength \div GroupSize
  <2>1. /\ g \in Nat \ {0} /\ s \in Nat /\ t \in Nat /\ g * s <= FlashLength
        /\ FlashLength < g * t + g /\ FlashLength \in Nat
    BY <1>1, <1>4, <1>6, <1>8
  <2> HIDE DEF g, s, t
  <2>2. ASSUME t < s PROVE FALSE
    <3>1. g * t + g <= g * s
      BY <2>1, <2>2, Z3
    <3>2. g * t \in Nat /\ g * s \in Nat
      BY <2>1, Z3
    <3> QED
      BY <2>1, <3>1, <3>2
  <2>3. s <= t
    BY <2>1, <2>2
  <2> QED
    BY <2>3 DEF s, t
<1> QED
  BY <1>2, <1>4, <1>5, <1>6, <1>7, <1>8, <1>9 DEF SlotsOf

\* The bucket of a new token's position.
LEMMA FlashBucketIs ==
  ASSUME NEW p \in 0..(FlashLength - 1), NEW b, b = FlashBucketOf(p)
  PROVE  /\ b \in Nat /\ p < b /\ b <= FlashLength /\ b % GroupSize = 0
         /\ b = GroupSize * SlotsOf(b) /\ SlotsOf(b) \in Nat \ {0} /\ SlotsOf(b) <= SlotsOf(FlashLength)
         /\ SlotsOf(FlashLength) \in Nat
<1> DEFINE bs == GenerateBuckets(FlashBucket, FlashLength)
           n == p + 1
<1>1. FlashLength \in Nat \ {0} /\ FlashBucket \in Nat \ {0}
  BY FlashAssumption
<1>2. n \in 1..FlashLength /\ n - 1 = p
  BY <1>1
<1> HIDE DEF bs, n
<1>3. GenerationBucket(bs, {n - 1}) = ContextBucket(bs, {n})
  BY <1>1, <1>2, BucketsChosen DEF bs
<1>4. b = ContextBucket(bs, {n})
  BY <1>2, <1>3 DEF FlashBucketOf, bs
<1>5. /\ b \in Nat /\ n <= b /\ b <= FlashLength /\ b % GroupSize = 0
      /\ b = GroupSize * SlotsOf(b) /\ SlotsOf(b) \in Nat \ {0} /\ SlotsOf(b) <= SlotsOf(FlashLength)
      /\ SlotsOf(FlashLength) \in Nat
  BY <1>2, <1>4, FlashBuckets DEF bs
<1> QED
  BY <1>1, <1>5 DEF n

\* The caches have their sizes, and as long as no garbage has gone to a held position,
\* every slot of a held position holds it.
FlashInv ==
  /\ held \in 0..FlashLength /\ prompted \in 0..held
  /\ shard \in [Ranks -> [Slots -> 0..FlashLength \cup {NoEntry}]]
  /\ (\A p \in prompted..(held - 1) : p <= FlashBucketOf(p) - GroupSize) =>
       \A r \in Ranks, s \in Slots : r + GroupSize * s < held => shard[r][s] = r + GroupSize * s

\* The whole prompt is dealt out.
LEMMA EncodeKeeps ==
  ASSUME FlashInv, NEW n \in 1..FlashPrompt, FlashEncode(n)
  PROVE  FlashInv'
<1> DEFINE b == ContextBucket(GenerateBuckets(FlashBucket, FlashPrompt), {n})
<1>1. /\ b \in Nat /\ n <= b /\ b <= FlashPrompt /\ b = GroupSize * SlotsOf(b)
      /\ SlotsOf(b) \in Nat /\ SlotsOf(b) <= SlotsOf(FlashLength) /\ SlotsOf(FlashLength) \in Nat
  BY FlashBuckets
<1>2. /\ shard' = [r \in Ranks |-> [s \in Slots |->
           IF s < SlotsOf(b) THEN r + GroupSize * s ELSE shard[r][s]]]
      /\ prompted' = n /\ held' = n
  BY DEF FlashEncode
<1> HIDE DEF b
<1>3. FlashPrompt \in Nat /\ FlashLength \in Nat /\ FlashPrompt <= FlashLength /\ GroupSize \in Nat \ {0}
  BY FlashAssumption
<1>4. 0 \in Ranks
  BY <1>3 DEF Ranks
<1>5. ASSUME NEW r \in Ranks, NEW s \in Slots, s < SlotsOf(b) PROVE r + GroupSize * s < b
  <2>1. s \in Nat /\ r + GroupSize * s < 0 + GroupSize * SlotsOf(b)
    <3>1. s \in Nat
      BY <1>1 DEF Slots
    <3> QED
      BY <1>1, <1>4, <1>5, <3>1, ColumnsGrow
  <2>2. r + GroupSize * s \in Nat
    BY <2>1, PositionsDealt
  <2> QED
    BY <1>1, <2>1, <2>2
<1>6. ASSUME NEW r \in Ranks, NEW s \in Slots, r + GroupSize * s < n PROVE s < SlotsOf(b)
  <2>1. s \in Nat /\ SlotsOf(b) \in Nat /\ r + GroupSize * s \in Nat
    <3>1. s \in Nat
      BY <1>1 DEF Slots
    <3> QED
      BY <1>1, <3>1, PositionsDealt
  <2>2. ASSUME SlotsOf(b) <= s PROVE FALSE
    <3>1. CASE SlotsOf(b) = s
      <4>1. r \in Nat
        BY <1>3 DEF Ranks
      <4>2. r + b < n
        BY <1>1, <1>6, <3>1
      <4> QED
        BY <1>1, <4>1, <4>2
    <3>2. CASE SlotsOf(b) < s
      <4>1. 0 + GroupSize * SlotsOf(b) < r + GroupSize * s
        BY <1>4, <2>1, <3>2, ColumnsGrow
      <4> QED
        BY <1>1, <1>6, <2>1, <4>1
    <3> QED
      BY <2>1, <2>2, <3>1, <3>2
  <2> QED
    BY <2>1, <2>2
<1>7. shard' \in [Ranks -> [Slots -> 0..FlashLength \cup {NoEntry}]]
  <2>1. ASSUME NEW r \in Ranks, NEW s \in Slots
        PROVE  (IF s < SlotsOf(b) THEN r + GroupSize * s ELSE shard[r][s]) \in 0..FlashLength \cup {NoEntry}
    <3>1. CASE s < SlotsOf(b)
      <4>1. s \in Nat
        BY <1>1 DEF Slots
      <4>2. r + GroupSize * s \in Nat /\ r + GroupSize * s < b
        BY <1>5, <3>1, <4>1, PositionsDealt
      <4> QED
        BY <1>1, <1>3, <3>1, <4>2
    <3>2. CASE ~(s < SlotsOf(b))
      BY <3>2 DEF FlashInv
    <3> QED
      BY <3>1, <3>2
  <2> QED
    BY <1>2, <2>1
<1>8. ASSUME NEW r \in Ranks, NEW s \in Slots, r + GroupSize * s < n
      PROVE  shard'[r][s] = r + GroupSize * s
  BY <1>2, <1>6, <1>8
<1>9. held' \in 0..FlashLength /\ prompted' \in 0..held'
  BY <1>1, <1>2, <1>3
<1> QED
  BY <1>2, <1>7, <1>8, <1>9 DEF FlashInv

\* The core of the new position writes it to the position's slot, and the other cores
\* write their garbage, to slots of later positions unless the bucket is full.
LEMMA DecodeKeeps ==
  ASSUME FlashInv, FlashDecode
  PROVE  FlashInv'
<1> DEFINE b == FlashBucketOf(held)
           g == GroupSize
<1>1. /\ held \in 0..(FlashLength - 1) /\ held' = held + 1 /\ prompted' = prompted
      /\ shard' = [r \in Ranks |-> [shard[r] EXCEPT ![WriteSlot(r, held)] = held]]
      /\ prompted \in 0..held /\ FlashLength \in Nat /\ g \in Nat \ {0}
  BY FlashAssumption DEF FlashDecode, FlashInv
<1>2. /\ b \in Nat /\ held < b /\ b % g = 0 /\ b = g * SlotsOf(b)
      /\ SlotsOf(b) \in Nat \ {0} /\ SlotsOf(b) <= SlotsOf(FlashLength) /\ SlotsOf(FlashLength) \in Nat
  BY <1>1, FlashBucketIs
<1> DEFINE own == held % g
           slot == held \div g
           last == SlotsOf(b) - 1
<1>3. own \in Ranks /\ slot \in Nat /\ own + g * slot = held
  <2>1. held \in Nat
    BY <1>1
  <2> QED
    BY <2>1, PositionsDealt
<1>4. slot < SlotsOf(b)
  <2> DEFINE n == SlotsOf(b)
  <2>1. own \in Nat /\ 0 \in Ranks /\ g * n \in Nat /\ n \in Nat /\ g * n = b
    BY <1>1, <1>2, <1>3 DEF Ranks
  <2> HIDE DEF n, own, slot, b
  <2>2. CASE slot = n
    BY <1>1, <1>2, <1>3, <2>1, <2>2
  <2>3. CASE n < slot
    <3>1. 0 + g * n < own + g * slot
      BY <1>3, <2>1, <2>3, ColumnsGrow DEF g
    <3> QED
      BY <1>1, <1>2, <1>3, <2>1, <3>1
  <2> QED
    BY <1>3, <2>1, <2>2, <2>3 DEF n
<1>5. ASSUME NEW r \in Ranks
      PROVE  WriteSlot(r, held) = IF r = own THEN slot ELSE last
  BY DEF WriteSlot, ActiveRank
<1>6. slot \in Slots /\ last \in Slots
  <2> HIDE DEF b, slot
  <2> QED
    BY <1>2, <1>3, <1>4 DEF Slots
<1> HIDE DEF own, slot, last
<1>7. ASSUME NEW r \in Ranks, NEW s \in Slots
      PROVE  shard'[r][s] = IF s = (IF r = own THEN slot ELSE last) THEN held ELSE shard[r][s]
  BY <1>1, <1>5, <1>6 DEF FlashInv
<1>8. shard' \in [Ranks -> [Slots -> 0..FlashLength \cup {NoEntry}]]
  <2>1. held \in 0..FlashLength
    BY DEF FlashInv
  <2> QED
    BY <1>1, <1>5, <1>6, <2>1 DEF FlashInv
<1>9. ASSUME \A p \in prompted'..(held' - 1) : p <= FlashBucketOf(p) - GroupSize,
             NEW r \in Ranks, NEW s \in Slots, r + g * s < held'
      PROVE  shard'[r][s] = r + g * s
  <2>1. held <= b - g /\ \A p \in prompted..(held - 1) : p <= FlashBucketOf(p) - GroupSize
    <3>1. held \in prompted'..(held' - 1) /\ \A p \in prompted..(held - 1) : p \in prompted'..(held' - 1)
      BY <1>1
    <3> QED
      BY <1>9, <3>1
  <2>2. \A q \in Ranks, t \in Slots : q + g * t < held => shard[q][t] = q + g * t
    BY <2>1 DEF FlashInv
  <2>3. s \in Nat /\ r \in Nat /\ r + g * s \in Nat
    <3>1. s \in Nat /\ r \in Nat
      BY <1>1, <1>2 DEF Slots, Ranks
    <3> QED
      BY <3>1, PositionsDealt
  <2>4. r + g * s = held <=> r = own /\ s = slot
    <3>1. (r + g * s) % g = r /\ (r + g * s) \div g = s
      BY <2>3, PositionsDealt
    <3> QED
      BY <1>3, <3>1 DEF own, slot
  <2>5. ASSUME r # own, s = last PROVE ~(r + g * s < held')
    <3> DEFINE n == SlotsOf(b)
    <3>1. g * s = b - g
      <4>1. n \in Nat /\ s = n - 1 /\ b = g * n
        BY <1>2, <2>5 DEF last
      <4> HIDE DEF n, b, g
      <4>2. g * (n - 1) = g * n - g
        BY <1>1, <4>1, Z3
      <4> QED
        BY <4>1, <4>2
    <3>2. r + g * s # held
      BY <2>4, <2>5
    <3> HIDE DEF b, g
    <3> QED
      BY <1>1, <1>2, <2>1, <2>3, <3>1, <3>2
  <2>6. CASE r + g * s = held
    BY <1>7, <2>4, <2>6
  <2>7. CASE r + g * s # held
    <3>1. r + g * s < held
      <4> DEFINE p == r + g * s
      <4>1. p \in Nat /\ p < held + 1 /\ p # held
        BY <1>1, <1>9, <2>3, <2>7
      <4> HIDE DEF p
      <4>2. p < held
        BY <1>1, <4>1
      <4> QED
        BY <4>2 DEF p
    <3>2. s # (IF r = own THEN slot ELSE last)
      BY <1>9, <2>4, <2>5, <2>7
    <3> QED
      BY <1>7, <2>2, <3>1, <3>2
  <2> QED
    BY <2>6, <2>7
<1>10. held' \in 0..FlashLength /\ prompted' \in 0..held'
  BY <1>1
<1> QED
  BY <1>8, <1>9, <1>10 DEF FlashInv, g

\* The masks leave the slots of the earlier positions.
LEMMA MasksLeaveThePast ==
  ASSUME NEW p \in Nat, NEW r \in Ranks, NEW s \in Nat
  PROVE  PriorMask(r, p, s) <=> r + GroupSize * s < p
<1> DEFINE g == GroupSize
           own == p % g
           slot == p \div g
<1>1. own \in Ranks /\ slot \in Nat /\ own + g * slot = p /\ r + g * s \in Nat
  BY PositionsDealt
<1>2. (s < slot => r + g * s < own + g * slot) /\ (slot < s => own + g * slot < r + g * s)
  BY <1>1, ColumnsGrow
<1>3. PriorMask(r, p, s) <=> s < slot \/ (s = slot /\ ~(r + g * s >= p \/ own = r))
  BY DEF PriorMask, ActiveRank
<1>4. s = slot /\ own = r => r + g * s = p
  BY <1>1
<1> HIDE DEF own, slot
<1> DEFINE q == r + g * s
<1>5. /\ q \in Nat /\ p \in Nat /\ s \in Nat /\ slot \in Nat
      /\ (s < slot => q < p) /\ (slot < s => p < q)
      /\ (s = slot /\ own = r => q = p)
      /\ (PriorMask(r, p, s) <=> s < slot \/ (s = slot /\ ~(q >= p \/ own = r)))
  BY <1>1, <1>2, <1>3, <1>4
<1> HIDE DEF q
<1>6. PriorMask(r, p, s) <=> q < p
  BY <1>5
<1> QED
  BY <1>6 DEF q

\* The cores of a group attend to each earlier position once.
LEMMA GroupAttends ==
  ASSUME FlashInv, \A p \in prompted..(held - 1) : p <= FlashBucketOf(p) - GroupSize,
         held \in 1..(FlashLength - 1)
  PROVE  /\ {shard[c[1]][c[2]] : c \in Attended} = 0..(held - 1)
         /\ Cardinality(Attended) = held
<1> DEFINE b == FlashBucketOf(held)
           g == GroupSize
           columns == 0..(SlotsOf(b) - 1)
           cell == [p \in 0..(held - 1) |-> <<p % g, p \div g>>]
<1>1. /\ b \in Nat /\ held < b /\ b = g * SlotsOf(b) /\ g \in Nat \ {0}
      /\ SlotsOf(b) \in Nat \ {0} /\ SlotsOf(b) <= SlotsOf(FlashLength) /\ SlotsOf(FlashLength) \in Nat
      /\ FlashLength \in Nat
  <2>1. held \in 0..(FlashLength - 1) /\ FlashLength \in Nat /\ g \in Nat \ {0}
    BY FlashAssumption
  <2> QED
    BY <2>1, FlashBucketIs
<1>2. \A c : c \in Attended <=> c \in Ranks \X columns /\ c[1] + g * c[2] < held
  <2>1. ASSUME NEW c \in Ranks \X columns PROVE PriorMask(c[1], held, c[2]) <=> c[1] + g * c[2] < held
    <3>1. c[1] \in Ranks /\ c[2] \in Nat /\ held \in Nat
      BY <1>1
    <3> QED
      BY <3>1, MasksLeaveThePast
  <2> QED
    BY <2>1 DEF Attended
<1>3. \A c \in Ranks \X columns : c[1] \in Ranks /\ c[2] \in Slots /\ c[2] \in Nat /\ c = <<c[1], c[2]>>
  BY <1>1 DEF Slots
<1>4. \A c \in Attended : /\ shard[c[1]][c[2]] = c[1] + g * c[2] /\ c[1] + g * c[2] \in 0..(held - 1)
                         /\ cell[c[1] + g * c[2]] = c
  <2> SUFFICES ASSUME NEW c \in Attended
               PROVE  /\ shard[c[1]][c[2]] = c[1] + g * c[2] /\ c[1] + g * c[2] \in 0..(held - 1)
                      /\ cell[c[1] + g * c[2]] = c
    OBVIOUS
  <2>1. c[1] \in Ranks /\ c[2] \in Slots /\ c[2] \in Nat /\ c = <<c[1], c[2]>> /\ c[1] + g * c[2] < held
    BY <1>2, <1>3
  <2>2. shard[c[1]][c[2]] = c[1] + g * c[2]
    BY <2>1 DEF FlashInv
  <2>3. /\ c[1] + g * c[2] \in Nat
        /\ (c[1] + g * c[2]) % g = c[1] /\ (c[1] + g * c[2]) \div g = c[2]
    BY <2>1, PositionsDealt
  <2>4. c[1] + g * c[2] \in 0..(held - 1)
    <3> DEFINE p == c[1] + g * c[2]
    <3>1. p \in Nat /\ p < held /\ held \in Nat
      BY <2>1, <2>3
    <3> HIDE DEF p
    <3>2. p \in 0..(held - 1)
      BY <3>1
    <3> QED
      BY <3>2 DEF p
  <2> QED
    BY <2>1, <2>2, <2>3, <2>4
<1>5. ASSUME NEW p \in 0..(held - 1)
      PROVE  /\ cell[p] \in Attended /\ cell[p][1] + g * cell[p][2] = p
  <2> DEFINE own == p % g
             slot == p \div g
  <2>1. p \in Nat /\ p < held /\ held \in Nat
    OBVIOUS
  <2>2. own \in Ranks /\ slot \in Nat /\ own + g * slot = p
    BY <2>1, PositionsDealt
  <2>3. slot < SlotsOf(b)
    <3> DEFINE n == SlotsOf(b)
    <3>1. own \in Nat /\ 0 \in Ranks /\ g * n \in Nat /\ n \in Nat /\ g * n = b
      BY <1>1, <2>2 DEF Ranks
    <3> HIDE DEF n, own, slot, b
    <3>2. CASE slot = n
      BY <1>1, <2>1, <2>2, <3>1, <3>2
    <3>3. CASE n < slot
      <4>1. 0 + g * n < own + g * slot
        BY <2>2, <3>1, <3>3, ColumnsGrow DEF g
      <4> QED
        BY <1>1, <2>1, <2>2, <3>1, <4>1
    <3> QED
      BY <2>2, <3>1, <3>2, <3>3 DEF n
  <2>4. cell[p] = <<own, slot>>
    OBVIOUS
  <2> HIDE DEF own, slot, cell, b
  <2>5. cell[p] \in Ranks \X columns /\ cell[p][1] = own /\ cell[p][2] = slot
    BY <1>1, <2>2, <2>3, <2>4
  <2> HIDE DEF columns
  <2> QED
    BY <1>2, <2>1, <2>2, <2>5
<1>6. {shard[c[1]][c[2]] : c \in Attended} = 0..(held - 1)
  <2> HIDE DEF cell, g
  <2>1. ASSUME NEW p \in 0..(held - 1) PROVE \E c \in Attended : p = shard[c[1]][c[2]]
    <3>1. cell[p] \in Attended /\ shard[cell[p][1]][cell[p][2]] = p
      BY <1>4, <1>5
    <3> QED
      BY <3>1
  <2> QED
    BY <1>4, <2>1
<1>7. Cardinality(Attended) = held
  <2>1. cell \in Bijection(0..(held - 1), Attended)
    <3> HIDE DEF g
    <3>1. cell \in [0..(held - 1) -> Attended]
      <4>1. cell = [p \in 0..(held - 1) |-> cell[p]]
        OBVIOUS
      <4> HIDE DEF cell
      <4> QED
        BY <1>5, <4>1
    <3> HIDE DEF cell
    <3>2. \A p, q \in 0..(held - 1) : cell[p] = cell[q] => p = q
      BY <1>5
    <3>3. \A c \in Attended : \E p \in 0..(held - 1) : cell[p] = c
      BY <1>4
    <3> QED
      BY <3>1, <3>2, <3>3 DEF Bijection, Injection, Surjection, IsInjective
  <2>2. IsFiniteSet(0..(held - 1)) /\ Cardinality(0..(held - 1)) = held
    <3>1. held - 1 \in Int /\ held \in Nat /\ (held - 1) - 0 + 1 = held /\ ~(0 > held - 1)
      OBVIOUS
    <3> QED
      BY <3>1, FS_Interval
  <2>3. ExistsBijection(0..(held - 1), Attended)
    BY <2>1 DEF ExistsBijection
  <2> QED
    BY <2>2, <2>3, FS_Bijection
<1> QED
  BY <1>6, <1>7

\* The other uses leave the caches of flash decoding alone.
LEMMA UsesKeepShards ==
  [InferenceNext]_inferenceVars => [FlashNext]_flashVars
<1>1. ASSUME InferenceNext PROVE FlashNext \/ UNCHANGED flashVars
  BY <1>1 DEF InferenceNext, Compile, Convert, KeepArtifacts, LoadWeights, Serve, GenerateBatch,
              AssistedDecoding, DecodeSharded, RouteCall
<1>2. ASSUME UNCHANGED inferenceVars PROVE UNCHANGED flashVars
  BY <1>2 DEF inferenceVars
<1> QED
  BY <1>1, <1>2

\* For any group of cores, lengths and buckets that the group divides, and any prompt: as
\* long as no token has gone to the last slots of its bucket, the cores of the group
\* attend to each earlier position exactly once (mask_util, get_cache_size and the writes
\* of kv_cache_manager).
THEOREM EachPositionOnce == InferenceSpec => []AttendsToPrefixBeforeLastSlots
<1>1. InferenceInit => FlashInv
  <2> SUFFICES ASSUME FlashInit PROVE FlashInv
    BY DEF InferenceInit
  <2>1. held = 0 /\ prompted = 0 /\ FlashLength \in Nat
    BY FlashAssumption DEF FlashInit
  <2>2. ASSUME NEW r \in Ranks, NEW s \in Slots PROVE ~(r + GroupSize * s < held)
    <3>1. s \in Nat
      BY DEF Slots
    <3>2. r + GroupSize * s \in Nat
      BY <3>1, PositionsDealt
    <3> QED
      BY <2>1, <3>2
  <2>3. shard \in [Ranks -> [Slots -> 0..FlashLength \cup {NoEntry}]]
    BY DEF FlashInit
  <2> QED
    BY <2>1, <2>2, <2>3 DEF FlashInv
<1>2. FlashInv /\ [InferenceNext]_inferenceVars => FlashInv'
  <2> SUFFICES ASSUME FlashInv, [FlashNext]_flashVars PROVE FlashInv'
    BY UsesKeepShards
  <2>1. ASSUME NEW n \in 1..FlashPrompt, FlashEncode(n) PROVE FlashInv'
    BY <2>1, EncodeKeeps
  <2>2. CASE FlashDecode
    BY <2>2, DecodeKeeps
  <2>3. CASE UNCHANGED flashVars
    BY <2>3 DEF flashVars, FlashInv
  <2> QED
    BY <2>1, <2>2, <2>3 DEF FlashNext
<1>3. FlashInv => AttendsToPrefixBeforeLastSlots
  BY GroupAttends DEF AttendsToPrefixBeforeLastSlots, GroupAttendsToPrefix
<1> QED
  BY <1>1, <1>2, <1>3, PTL DEF InferenceSpec

------------------------------------------------------------------------------
(* Checkpoints *)

\* The names of a layer in a checkpoint, prefixes aside.
NamesOf(l) == LayerNames(l) \cup ExpertNames(l)

Shards == LayerIds \cup {None}

\* A tensor as it is in the files.
AsStored(n) == One(PlainName(n), Format)

\* All names of the files, with and without their prefix.
PlainNames == {LmHead} \cup UNION {NamesOf(l) : l \in LayerIds}
PrefixedNames == {LmHead} \cup {HfName(n) : n \in UNION {NamesOf(l) : l \in LayerIds}}

\* While files are read the state dict has the names of those read before.
ReadingFiles ==
  stage = "read" =>
    /\ unread \subseteq Shards
    /\ ~Sharded(Format) => unread = Shards
    /\ DOMAIN stateDict = UNION {DOMAIN FileTensors(s) : s \in Shards \ unread}
    /\ \A n \in DOMAIN stateDict : stateDict[n] = AsStored(n)

\* All files are read; the prefixes are off.
FilesRead ==
  /\ stage = "rename" =>
       /\ DOMAIN stateDict = PrefixedNames
       /\ \A n \in DOMAIN stateDict : stateDict[n] = AsStored(n)
  /\ stage = "experts" =>
       /\ DOMAIN stateDict = PlainNames
       /\ \A n \in DOMAIN stateDict : stateDict[n] = One(n, Format)

\* A layer that is still in the checkpoint's form, its experts fine-tuned.
InOldForm(l) ==
  /\ NamesOf(l) \subseteq DOMAIN stateDict
  /\ \A n \in LayerNames(l) : stateDict[n] = One(n, Format)
  /\ \A p \in Projections, e \in ExpertIds :
       stateDict[Name(l, p, e)] = <<ExpertTensor(l, p, e)>>

\* All experts of a layer side by side.
AllExperts(l, p) == [i \in 1..NumCheckpointExperts |-> ExpertTensor(l, p, i - 1)]

NewParts == {"gate_up_proj", "down_proj", "o_proj.weight", "shared_experts.up_proj"}

\* A layer in the model's form.
InNewForm(l) ==
  /\ \A part \in NewParts : Name(l, part, None) \in DOMAIN stateDict
  /\ LayerArrives(l)

\* The parameters of a layer's router before and after its fine-tuning.
UntunedRouter(n) ==
  IF n.part = "linear_router" THEN One(Name(n.layer, "gate", None), Format) ELSE One(n, "zeros")

TunedRouter(n) == IF n \in stored.router THEN One(n, "router_ft") ELSE UntunedRouter(n)

RouterNamesOf(l) == {Name(l, part, None) : part \in RouterParts}

\* Layers are converted one by one; experts' names are left only of those to come.
Converting ==
  stage = "layers" =>
    /\ layer \in 0..NumLayers
    /\ \A l \in LayerIds : l >= layer => InOldForm(l)
    /\ \A l \in LayerIds : l < layer =>
         /\ InNewForm(l)
         /\ \A n \in RouterNamesOf(l) : n \in DOMAIN stateDict /\ stateDict[n] = UntunedRouter(n)
    /\ \A n \in DOMAIN stateDict :
         /\ ~n.hf
         /\ n.expert # None => n.layer \in LayerIds /\ n.layer >= layer /\ n \in ExpertNames(n.layer)

AllConverted ==
  stage = "converted" =>
    /\ \A l \in LayerIds :
         /\ InNewForm(l)
         /\ \A n \in RouterNamesOf(l) : n \in DOMAIN stateDict /\ stateDict[n] = TunedRouter(n)
    /\ \A n \in DOMAIN stateDict : n.expert = None /\ ~n.hf

Stages ==
  {"build", "failed", "open", "read", "rename", "experts", "layers", "converted", "loaded"}

CheckpointInv ==
  /\ stored \in Stored
  /\ stage \in Stages
  /\ stage \in {"build", "open"} => stateDict = <<>>
  /\ stage \in Stages \ {"layers", "converted", "loaded", "failed"} => layer = 0
  /\ stage \notin {"build", "failed"} => DOMAIN module = UNION {RouterNamesOf(l) : l \in LayerIds}
  /\ ReadingFiles /\ FilesRead /\ Converting /\ AllConverted
  /\ WeightsArrive

\* Names, with and without the prefix.
FileParts ==
  Projections \cup SharedParts
    \cup {"lm_head", "q_proj.weight", "q_proj.bias", "o_proj.weight", "gate", "shared_expert_gate"}

NameSet == [hf : BOOLEAN, layer : Int, part : FileParts, expert : Int]

\* A prefix that is put on a name comes off again, and one that is not there does not.
LEMMA PrefixComesOff ==
  ASSUME NEW n \in NameSet, n.hf = FALSE
  PROVE  /\ HfName(n) \in NameSet /\ HfName(n).hf = TRUE
         /\ PlainName(HfName(n)) = n
         /\ PlainName(n) = n
  BY DEF NameSet, HfName, PlainName

\* The names of a layer have no prefix and tell their layer.
LEMMA NamesTell ==
  ASSUME NEW l \in LayerIds, NEW n \in NamesOf(l)
  PROVE  /\ n \in NameSet /\ n.hf = FALSE /\ n.layer = l /\ n.part # "lm_head"
         /\ n # LmHead /\ l # None
<1>1. PICK part \in FileParts, e \in Int : n = Name(l, part, e) /\ part # "lm_head"
  <2>1. CASE n \in LayerNames(l)
    <3>1. None \in Int
      BY DEF None
    <3>2. PICK part \in SharedParts \cup
                 {"q_proj.weight", "q_proj.bias", "o_proj.weight", "gate", "shared_expert_gate"} :
            n = Name(l, part, None)
      BY <2>1 DEF LayerNames
    <3>3. part \in FileParts /\ part # "lm_head"
      BY <3>2 DEF SharedParts, FileParts
    <3> QED
      BY <3>1, <3>2, <3>3
  <2>2. CASE n \in ExpertNames(l)
    <3>1. PICK part \in Projections, e \in ExpertIds : n = Name(l, part, e)
      BY <2>2 DEF ExpertNames
    <3>2. part \in FileParts /\ part # "lm_head"
      BY <3>1 DEF Projections, FileParts
    <3>3. e \in Int
      BY <3>1, CheckpointAssumption DEF ExpertIds
    <3> QED
      BY <3>1, <3>2, <3>3
  <2> QED
    BY <2>1, <2>2 DEF NamesOf
<1>2. l # None /\ l \in Int
  BY CheckpointAssumption DEF LayerIds, None
<1>3. n \in NameSet /\ n.hf = FALSE /\ n.layer = l /\ n.part = part
  BY <1>1, <1>2 DEF Name, NameSet
<1>4. LmHead.part = "lm_head"
  BY DEF LmHead, Name
<1> QED
  BY <1>1, <1>2, <1>3, <1>4

\* The one name that is in no layer.
LEMMA LmHeadIs == LmHead \in NameSet /\ LmHead.hf = FALSE
<1>1. None \in Int
  BY DEF None
<1> QED
  BY <1>1 DEF LmHead, Name, NameSet, FileParts

\* The same of the names of all layers.
LEMMA AllNamesTell ==
  ASSUME NEW n \in UNION {NamesOf(l) : l \in LayerIds}
  PROVE  n \in NameSet /\ n.hf = FALSE
<1>1. PICK l \in LayerIds : n \in NamesOf(l)
  OBVIOUS
<1> QED
  BY <1>1, NamesTell

\* What the files hold: a layer a file, and the rest.
LEMMA FilesHold ==
  /\ \A l \in LayerIds :
       /\ DOMAIN FileTensors(l) = {HfName(n) : n \in NamesOf(l)}
       /\ \A n \in DOMAIN FileTensors(l) : FileTensors(l)[n] = AsStored(n)
  /\ DOMAIN FileTensors(None) =
       {LmHead} \cup (IF stored.overlap THEN {HfName(Name(0, "gate", None))} ELSE {})
  /\ \A n \in DOMAIN FileTensors(None) : FileTensors(None)[n] = AsStored(n)
<1>1. ASSUME NEW l \in LayerIds
      PROVE  DOMAIN FileTensors(l) = {HfName(n) : n \in NamesOf(l)}
  <2>1. l # None
    BY CheckpointAssumption DEF LayerIds, None
  <2>2. DOMAIN FileTensors(l) = {IF n = LmHead THEN n ELSE HfName(n) : n \in NamesOf(l)}
    BY <2>1 DEF FileTensors, FileNames, NamesOf
  <2>3. \A n \in NamesOf(l) : n # LmHead
    BY NamesTell
  <2> QED
    BY <2>2, <2>3
<1>2. ASSUME NEW s, NEW n \in DOMAIN FileTensors(s) PROVE FileTensors(s)[n] = AsStored(n)
  BY <1>2 DEF FileTensors, AsStored
<1>3. DOMAIN FileTensors(None) =
        {LmHead} \cup (IF stored.overlap THEN {HfName(Name(0, "gate", None))} ELSE {})
  <2>1. Name(0, "gate", None) # LmHead
    BY DEF Name, LmHead
  <2>2. DOMAIN FileTensors(None) =
          {IF n = LmHead THEN n ELSE HfName(n) :
             n \in {LmHead} \cup (IF stored.overlap THEN {Name(0, "gate", None)} ELSE {})}
    BY DEF FileTensors, FileNames
  <2> QED
    BY <2>1, <2>2
<1> QED
  BY <1>1, <1>2, <1>3

\* All files together have all names.
LEMMA FilesHaveAll == UNION {DOMAIN FileTensors(s) : s \in Shards} = PrefixedNames
<1>1. UNION {DOMAIN FileTensors(s) : s \in Shards} =
        DOMAIN FileTensors(None) \cup UNION {DOMAIN FileTensors(l) : l \in LayerIds}
  BY DEF Shards
<1>2. UNION {DOMAIN FileTensors(l) : l \in LayerIds} =
        {HfName(n) : n \in UNION {NamesOf(l) : l \in LayerIds}}
  <2>1. UNION {DOMAIN FileTensors(l) : l \in LayerIds} =
          UNION {{HfName(n) : n \in NamesOf(l)} : l \in LayerIds}
    BY FilesHold
  <2> QED
    BY <2>1
<1>3. Name(0, "gate", None) \in UNION {NamesOf(l) : l \in LayerIds}
  <2>1. 0 \in LayerIds
    BY CheckpointAssumption DEF LayerIds
  <2>2. Name(0, "gate", None) \in NamesOf(0)
    BY DEF NamesOf, LayerNames
  <2> QED
    BY <2>1, <2>2
<1> QED
  BY <1>1, <1>2, <1>3, FilesHold DEF PrefixedNames

\* Before the modules are built there is nothing to be wrong.
LEMMA CheckpointInitHolds == CheckpointInit => CheckpointInv
  BY DEF CheckpointInit, CheckpointInv, Stages, ReadingFiles, FilesRead, Converting,
         AllConverted, WeightsArrive

\* Routers are built before anything is read.
LEMMA BuildKeeps ==
  ASSUME CheckpointInv, BuildRouters
  PROVE  CheckpointInv'
<1>1. /\ stage = "build" /\ stage' \in {"open", "failed"}
      /\ UNCHANGED <<stored, unread, layer, stateDict>>
  BY DEF BuildRouters
<1>2. stage' = "open" => DOMAIN module' = UNION {RouterNamesOf(l) : l \in LayerIds}
  <2> SUFFICES ASSUME stage' = "open"
               PROVE  DOMAIN module' = {Name(l, part, None) : l \in LayerIds, part \in RouterParts}
    BY DEF RouterNamesOf
  <2> QED
    BY DEF BuildRouters
<1>3. RouterParts' = RouterParts
  BY <1>1 DEF RouterParts
<1> QED
  BY <1>1, <1>2, <1>3 DEF CheckpointInv, Stages, ReadingFiles, FilesRead, Converting,
    AllConverted, WeightsArrive, RouterNamesOf

\* A checkpoint is opened with all its files unread.
LEMMA OpenKeeps ==
  ASSUME CheckpointInv, OpenCheckpoint
  PROVE  CheckpointInv'
<1>1. stage = "open" /\ UNCHANGED <<stored, layer, stateDict, module>> /\ stateDict = <<>>
  BY DEF OpenCheckpoint, CheckpointInv
<1>2. stage' = "failed" \/ (stage' = "read" /\ unread' = Shards)
  BY DEF OpenCheckpoint, Shards
<1>3. RouterParts' = RouterParts
  BY <1>1 DEF RouterParts
<1>4. ReadingFiles'
  BY <1>1, <1>2 DEF ReadingFiles
<1> QED
  BY <1>1, <1>2, <1>3, <1>4 DEF CheckpointInv, Stages, FilesRead, Converting,
    AllConverted, WeightsArrive, RouterNamesOf

\* Each file adds its names, and the last completes them.
LEMMA ReadKeeps ==
  ASSUME CheckpointInv, ReadWhole \/ ReadFile
  PROVE  CheckpointInv'
<1>1. /\ stage = "read" /\ stage' \in {"read", "rename", "failed"}
      /\ UNCHANGED <<stored, layer, module>>
  BY DEF ReadWhole, ReadFile
<1>2. RouterParts' = RouterParts /\ Format' = Format
  BY <1>1 DEF RouterParts, Format
<1>3. \A n : AsStored(n)' = AsStored(n)
  BY <1>2 DEF AsStored, One, Tensor
<1>4. \A s : FileTensors(s)' = FileTensors(s)
  BY <1>1, <1>2 DEF FileTensors
<1>5. CASE ReadWhole
  <2>1. stage' = "rename" /\ unread = Shards
    BY <1>5 DEF ReadWhole, CheckpointInv, ReadingFiles
  <2>2. stateDict' = [n \in PrefixedNames |-> AsStored(n)]
    BY <1>5, <2>1, FilesHaveAll DEF ReadWhole, AsStored
  <2>3. FilesRead'
    BY <2>1, <2>2, <1>3 DEF FilesRead, PrefixedNames
  <2> QED
    BY <1>1, <1>2, <2>1, <2>3 DEF CheckpointInv, Stages, ReadingFiles, Converting,
      AllConverted, WeightsArrive, RouterNamesOf
<1>6. CASE ReadFile
  <2>1. PICK file \in unread :
          IF DOMAIN FileTensors(file) \cap DOMAIN stateDict = {}
          THEN /\ stateDict' = Updated(stateDict, FileTensors(file))
               /\ unread' = unread \ {file}
               /\ stage' = IF unread' = {} THEN "rename" ELSE "read"
          ELSE stage' = "failed" /\ UNCHANGED <<stateDict, unread>>
    BY <1>6 DEF ReadFile
  <2>2. CASE stage' = "failed"
    BY <1>1, <1>2, <2>2 DEF CheckpointInv, Stages, ReadingFiles, FilesRead, Converting,
      AllConverted, WeightsArrive, RouterNamesOf
  <2>3. CASE stage' # "failed"
    <3>1. /\ stateDict' = Updated(stateDict, FileTensors(file))
          /\ unread' = unread \ {file}
          /\ stage' = IF unread' = {} THEN "rename" ELSE "read"
      BY <2>1, <2>3
    <3>2. /\ unread \subseteq Shards
          /\ DOMAIN stateDict = UNION {DOMAIN FileTensors(s) : s \in Shards \ unread}
          /\ \A n \in DOMAIN stateDict : stateDict[n] = AsStored(n)
          /\ Sharded(Format)
      BY <1>1, <1>6 DEF CheckpointInv, ReadingFiles, ReadFile
    <3>3. \A n \in DOMAIN FileTensors(file) : FileTensors(file)[n] = AsStored(n)
      BY <3>2, FilesHold DEF Shards
    <3>4. DOMAIN stateDict' = DOMAIN FileTensors(file) \cup DOMAIN stateDict
      BY <3>1 DEF Updated
    <3>5. \A n \in DOMAIN stateDict' : stateDict'[n] = AsStored(n)
      BY <3>1, <3>2, <3>3 DEF Updated
    <3>6. DOMAIN stateDict' = UNION {DOMAIN FileTensors(s) : s \in Shards \ unread'}
      BY <3>1, <3>2, <3>4
    <3>7. unread' = {} => DOMAIN stateDict' = PrefixedNames
      BY <3>6, FilesHaveAll
    <3>8. ReadingFiles'
      BY <1>2, <1>3, <1>4, <3>1, <3>2, <3>5, <3>6 DEF ReadingFiles, Sharded
    <3>9. FilesRead'
      BY <1>3, <3>1, <3>5, <3>7 DEF FilesRead, PrefixedNames
    <3> QED
      BY <1>1, <1>2, <3>1, <3>8, <3>9 DEF CheckpointInv, Stages, Converting,
        AllConverted, WeightsArrive, RouterNamesOf
  <2> QED
    BY <2>2, <2>3
<1> QED
  BY <1>5, <1>6

\* Prefixes come off all names and no two names meet.
LEMMA StripKeeps ==
  ASSUME CheckpointInv, StripPrefix
  PROVE  CheckpointInv'
<1>1. /\ stage = "rename" /\ stage' = "experts" /\ UNCHANGED <<stored, unread, layer, module>>
      /\ DOMAIN stateDict = PrefixedNames
      /\ \A n \in DOMAIN stateDict : stateDict[n] = AsStored(n)
  BY DEF StripPrefix, CheckpointInv, FilesRead
<1>2. RouterParts' = RouterParts /\ Format' = Format
  BY <1>1 DEF RouterParts, Format
<1>3. {PlainName(m) : m \in DOMAIN stateDict} = PlainNames
  <2>1. PlainName(LmHead) = LmHead
    BY LmHeadIs, PrefixComesOff
  <2>2. \A n \in UNION {NamesOf(l) : l \in LayerIds} : PlainName(HfName(n)) = n
    BY AllNamesTell, PrefixComesOff
  <2> DEFINE all == UNION {NamesOf(l) : l \in LayerIds}
  <2>3. {PlainName(m) : m \in {HfName(n) : n \in all}} = all
    BY <2>2
  <2>4. {PlainName(m) : m \in DOMAIN stateDict} =
          {PlainName(LmHead)} \cup {PlainName(m) : m \in {HfName(n) : n \in all}}
    BY <1>1 DEF PrefixedNames
  <2> QED
    BY <2>1, <2>3, <2>4 DEF PlainNames
<1>4. DOMAIN stateDict' = PlainNames
  BY <1>3 DEF StripPrefix
<1>5. ASSUME NEW n \in PlainNames PROVE stateDict'[n] = One(n, Format)
  <2>1. stateDict'[n] = IF n \in DOMAIN stateDict THEN stateDict[n] ELSE stateDict[HfName(n)]
    BY <1>3 DEF StripPrefix
  <2>2. PlainName(n) = n
    BY AllNamesTell, LmHeadIs, PrefixComesOff DEF PlainNames
  <2>3. n \in DOMAIN stateDict => stateDict'[n] = One(n, Format)
    BY <1>1, <2>1, <2>2 DEF AsStored
  <2>4. n # LmHead => HfName(n) \in DOMAIN stateDict /\ PlainName(HfName(n)) = n
    BY <1>1, AllNamesTell, PrefixComesOff DEF PlainNames, PrefixedNames
  <2>5. n = LmHead => n \in DOMAIN stateDict
    BY <1>1 DEF PrefixedNames
  <2> QED
    BY <1>1, <2>1, <2>3, <2>4, <2>5 DEF AsStored
<1>6. FilesRead'
  BY <1>1, <1>2, <1>4, <1>5 DEF FilesRead, One, Tensor
<1> QED
  BY <1>1, <1>2, <1>6 DEF CheckpointInv, Stages, ReadingFiles, Converting,
    AllConverted, WeightsArrive, RouterNamesOf

\* A name tells what it is made of.
LEMMA NameTells ==
  ASSUME NEW l, NEW part, NEW e
  PROVE  /\ Name(l, part, e).layer = l
         /\ Name(l, part, e).part = part
         /\ Name(l, part, e).expert = e
  BY DEF Name

\* What fine-tuning names: experts, and of the whole tensors a gate.
LEMMA TunesName ==
  ASSUME stored \in Stored
  PROVE  /\ \A n \in stored.experts.loraA \cup stored.experts.loraB : n.expert # None
         /\ \A n \in stored.router : n.part \in {"linear_router", "linear_group"}
<1>1. 0 # None
  BY DEF None
<1>2. stored.experts \in ExpertTunes /\ stored.router \in RouterTunes
  BY DEF Stored
<1>3. \A n \in stored.experts.loraA \cup stored.experts.loraB : n.expert = 0
  BY <1>2, NameTells DEF ExpertTunes
<1>4. ASSUME NEW l PROVE \A n \in RouterTensors(l) : n.part \in {"linear_router", "linear_group"}
  BY NameTells DEF RouterTensors
<1>5. \A n \in stored.router : n.part \in {"linear_router", "linear_group"}
  BY <1>2, <1>4, NameTells DEF RouterTunes
<1> QED
  BY <1>1, <1>3, <1>5

\* A tensor into which nothing was merged.
LEMMA Unmerged ==
  ASSUME NEW n, NEW from
  PROVE  [Tensor(n, from) EXCEPT !.tune = "none"] = Tensor(n, from)
  BY DEF Tensor

\* Fine-tuning of experts changes just those that it names.
LEMMA OverlayExpertsKeeps ==
  ASSUME CheckpointInv, OverlayExperts
  PROVE  CheckpointInv'
<1>1. /\ stage = "experts" /\ stage' = "layers" /\ layer = 0
      /\ UNCHANGED <<stored, unread, layer, module>>
      /\ stored \in Stored
      /\ DOMAIN stateDict = PlainNames
      /\ \A n \in DOMAIN stateDict : stateDict[n] = One(n, Format)
  BY DEF OverlayExperts, CheckpointInv, FilesRead, Stages
<1>2. RouterParts' = RouterParts /\ Format' = Format
  BY <1>1 DEF RouterParts, Format
<1>3. \A l, p, e : ExpertTensor(l, p, e)' = ExpertTensor(l, p, e)
  BY <1>1, <1>2 DEF ExpertTensor
<1>4. DOMAIN stateDict' = PlainNames
  BY <1>1 DEF OverlayExperts, Overlaid
<1>5. ASSUME NEW n \in PlainNames, n.expert = None PROVE stateDict'[n] = One(n, Format)
  <2>1. n \notin stored.experts.loraA
    BY <1>1, <1>5, TunesName
  <2> QED
    BY <1>1, <1>5, <2>1 DEF OverlayExperts, Overlaid
<1>6. ASSUME NEW l \in LayerIds, NEW p \in Projections, NEW e \in ExpertIds
      PROVE  stateDict'[Name(l, p, e)] = <<ExpertTensor(l, p, e)>>
  <2> DEFINE n == Name(l, p, e)
             A == stored.experts.loraA
             B == stored.experts.loraB
  <2>1. n \in PlainNames /\ n.expert # None
    <3>1. n \in NamesOf(l)
      BY DEF NamesOf, ExpertNames
    <3>2. e # None
      BY CheckpointAssumption DEF ExpertIds, None
    <3> QED
      BY <3>1, <3>2, NameTells DEF PlainNames
  <2> HIDE DEF n
  <2>2. stateDict[n] = <<Tensor(n, Format)>> /\ Head(stateDict[n]) = Tensor(n, Format)
    BY <1>1, <2>1 DEF One
  <2>3. CASE A # {} /\ n \in A \cap B
    <3>1. stateDict'[n] = <<[Head(stateDict[n]) EXCEPT !.tune = "lora"]>>
      BY <1>1, <2>1, <2>3 DEF OverlayExperts
    <3>2. ExpertTensor(l, p, e) = [Tensor(n, Format) EXCEPT !.tune = "lora"]
      BY <2>3 DEF ExpertTensor, n
    <3> QED
      BY <2>2, <3>1, <3>2 DEF n
  <2>4. CASE A # {} /\ n \notin A \cap B
    <3>1. stateDict'[n] = stateDict[n]
      BY <1>1, <2>1, <2>4 DEF OverlayExperts
    <3>2. ExpertTensor(l, p, e) = [Tensor(n, Format) EXCEPT !.tune = "none"]
      BY <2>4 DEF ExpertTensor, n
    <3> QED
      BY <2>2, <3>1, <3>2, Unmerged DEF n
  <2>5. CASE A = {} /\ n \in stored.experts.whole
    <3>1. stateDict'[n] = One(n, "expert_ft")
      BY <1>1, <2>1, <2>5 DEF OverlayExperts, Overlaid
    <3>2. ExpertTensor(l, p, e) = Tensor(n, "expert_ft")
      BY <2>5 DEF ExpertTensor, n
    <3> QED
      BY <3>1, <3>2 DEF One, n
  <2>6. CASE A = {} /\ n \notin stored.experts.whole
    <3>1. stateDict'[n] = stateDict[n]
      BY <1>1, <2>1, <2>6 DEF OverlayExperts, Overlaid
    <3>2. ExpertTensor(l, p, e) = [Tensor(n, Format) EXCEPT !.tune = "none"]
      BY <2>6 DEF ExpertTensor, n
    <3> QED
      BY <2>2, <3>1, <3>2, Unmerged DEF n
  <2> QED
    BY <2>3, <2>4, <2>5, <2>6 DEF n
<1>7. ASSUME NEW l \in LayerIds PROVE InOldForm(l)'
  <2>1. NamesOf(l) \subseteq DOMAIN stateDict'
    BY <1>4 DEF PlainNames
  <2>2. \A n \in LayerNames(l) : n \in PlainNames /\ n.expert = None
    BY NameTells DEF PlainNames, NamesOf, LayerNames
  <2> QED
    BY <1>2, <1>3, <1>5, <1>6, <2>1, <2>2 DEF InOldForm, One, Tensor
<1>8. ASSUME NEW n \in DOMAIN stateDict', n.expert # None
      PROVE  n.layer \in LayerIds /\ n.layer >= 0 /\ n \in ExpertNames(n.layer)
  <2>1. n # LmHead
    BY <1>8, NameTells DEF LmHead
  <2>2. PICK l \in LayerIds : n \in NamesOf(l)
    BY <1>4, <2>1 DEF PlainNames
  <2>3. n \in ExpertNames(l)
    BY <1>8, <2>2, NameTells DEF NamesOf, LayerNames
  <2>4. n.layer = l
    BY <2>3, NameTells DEF ExpertNames
  <2> QED
    BY <2>3, <2>4, CheckpointAssumption DEF LayerIds
<1>10. ASSUME NEW n \in DOMAIN stateDict' PROVE n.hf = FALSE
  BY <1>4, LmHeadIs, AllNamesTell DEF PlainNames
<1>9. Converting'
  <2>1. layer' = 0 /\ 0 \in 0..NumLayers /\ \A l \in LayerIds : ~(l < 0)
    BY <1>1, CheckpointAssumption DEF LayerIds
  <2> QED
    BY <1>7, <1>8, <1>10, <2>1 DEF Converting
<1> QED
  BY <1>1, <1>2, <1>9 DEF CheckpointInv, Stages, ReadingFiles, FilesRead,
    AllConverted, WeightsArrive, RouterNamesOf

\* The experts of a layer that is still in the checkpoint's form.
LEMMA StackIs ==
  ASSUME NEW l \in LayerIds, InOldForm(l), NEW p \in Projections
  PROVE  Stack(stateDict, l, p) = AllExperts(l, p)
<1>1. ASSUME NEW i \in 1..NumCheckpointExperts
      PROVE  Head(stateDict[Name(l, p, i - 1)]) = ExpertTensor(l, p, i - 1)
  <2>1. i - 1 \in ExpertIds
    BY CheckpointAssumption DEF ExpertIds
  <2>2. stateDict[Name(l, p, i - 1)] = <<ExpertTensor(l, p, i - 1)>>
    BY <2>1 DEF InOldForm
  <2> QED
    BY <2>2
<1> QED
  BY <1>1 DEF Stack, AllExperts

\* What a layer gets: names of its own, without experts and without the output
\* projection's weight, and the values of its new form.
LEMMA ConvertedIs ==
  ASSUME NEW l \in LayerIds, InOldForm(l),
         NEW c, c = Converted(stateDict, l)
  PROVE  /\ \A n \in DOMAIN c :
              \E part : n = Name(l, part, None) /\ part # "o_proj.weight"
         /\ \A part \in NewParts \ {"o_proj.weight"} : Name(l, part, None) \in DOMAIN c
         /\ c[Name(l, "gate_up_proj", None)] =
              AllExperts(l, "gate_proj") \o AllExperts(l, "up_proj")
         /\ c[Name(l, "down_proj", None)] = AllExperts(l, "down_proj")
         /\ c[Name(l, "shared_experts.up_proj", None)] =
              One(Name(l, "shared_expert.up_proj", None), Format)
         /\ \A n \in RouterNamesOf(l) : n \in DOMAIN c /\ c[n] = UntunedRouter(n)
<1> DEFINE New(part) == Name(l, part, None)
           sd == stateDict
           parts == {"linear_router", "gate_up_proj", "down_proj", "shared_experts.gate"}
                 \cup DOMAIN OldSharedPart
                 \cup (IF New("o_proj.bias") \in DOMAIN sd THEN {} ELSE {"o_proj.bias"})
                 \cup (IF stored.kernel = "hierarchical" THEN {"linear_group"} ELSE {})
           Value(part) ==
             CASE part \in {"o_proj.bias", "linear_group"} -> One(New(part), "zeros")
               [] part = "linear_router" -> sd[New("gate")]
               [] part = "gate_up_proj" -> Stack(sd, l, "gate_proj") \o Stack(sd, l, "up_proj")
               [] part = "down_proj" -> Stack(sd, l, "down_proj")
               [] part = "shared_experts.gate" -> sd[New("shared_expert_gate")]
               [] OTHER -> sd[New(OldSharedPart[part])]
<1>1. c = [n \in {New(part) : part \in parts} |-> Value(n.part)]
  BY DEF Converted
<1>2. /\ DOMAIN OldSharedPart =
           {"shared_experts.gate_proj", "shared_experts.up_proj", "shared_experts.down_proj"}
      /\ OldSharedPart["shared_experts.up_proj"] = "shared_expert.up_proj"
  BY DEF OldSharedPart
<1>3. "o_proj.weight" \notin parts
  BY <1>2
<1>4. {"linear_router", "gate_up_proj", "down_proj", "shared_experts.up_proj"} \subseteq parts
  BY <1>2
<1>5. stored.kernel = "hierarchical" => "linear_group" \in parts
  OBVIOUS
<1>6. /\ Value("gate_up_proj") = Stack(sd, l, "gate_proj") \o Stack(sd, l, "up_proj")
      /\ Value("down_proj") = Stack(sd, l, "down_proj")
      /\ Value("linear_router") = sd[New("gate")]
      /\ Value("linear_group") = One(New("linear_group"), "zeros")
      /\ Value("shared_experts.up_proj") = sd[New("shared_expert.up_proj")]
  BY <1>2
<1>7. ASSUME NEW part \in parts PROVE New(part) \in DOMAIN c /\ c[New(part)] = Value(part)
  <2> HIDE DEF Value, parts
  <2> QED
    BY <1>1, NameTells
<1>8. sd[New("gate")] = One(New("gate"), Format)
  BY DEF InOldForm, LayerNames
<1>9. sd[New("shared_expert.up_proj")] = One(New("shared_expert.up_proj"), Format)
  BY DEF InOldForm, LayerNames, SharedParts
<1>10. {"gate_proj", "up_proj", "down_proj"} \subseteq Projections
  BY DEF Projections
<1> HIDE DEF Value, parts
<1>11. ASSUME NEW n \in RouterNamesOf(l) PROVE n \in DOMAIN c /\ c[n] = UntunedRouter(n)
  <2>1. PICK part \in RouterParts : n = New(part)
    BY DEF RouterNamesOf
  <2>2. part = "linear_router" \/ (part = "linear_group" /\ stored.kernel = "hierarchical")
    BY DEF RouterParts
  <2>3. n.part = part /\ n.layer = l
    BY <2>1, NameTells
  <2> QED
    BY <1>4, <1>5, <1>6, <1>7, <1>8, <2>1, <2>2, <2>3 DEF UntunedRouter
<1>12. \A n \in DOMAIN c : \E part : n = Name(l, part, None) /\ part # "o_proj.weight"
  BY <1>1, <1>3
<1>13. \A part \in NewParts \ {"o_proj.weight"} : Name(l, part, None) \in DOMAIN c
  BY <1>4, <1>7 DEF NewParts
<1> QED
  BY <1>4, <1>6, <1>7, <1>9, <1>10, <1>11, <1>12, <1>13, StackIs

\* A layer is converted; those before and after it stay as they are.
LEMMA ConvertKeeps ==
  ASSUME CheckpointInv, ConvertLayer
  PROVE  CheckpointInv'
<1> DEFINE c == Converted(stateDict, layer)
           rest == [n \in DOMAIN stateDict \ Consumed(layer) |-> stateDict[n]]
<1>1. /\ stage = "layers" /\ stage' = "layers" /\ layer \in LayerIds /\ layer' = layer + 1
      /\ layer \in Int /\ layer' \in 0..NumLayers
      /\ UNCHANGED <<stored, unread, module>>
      /\ stateDict' = Updated(rest, c)
      /\ stored \in Stored
      /\ Converting
  BY CheckpointAssumption DEF ConvertLayer, CheckpointInv, Converting, LayerIds
<1>2. RouterParts' = RouterParts /\ Format' = Format
  BY <1>1 DEF RouterParts, Format
<1>3. /\ \A l, p, e : ExpertTensor(l, p, e)' = ExpertTensor(l, p, e)
      /\ \A l, p : AllExperts(l, p)' = AllExperts(l, p)
      /\ \A n : UntunedRouter(n)' = UntunedRouter(n)
      /\ \A l : RouterNamesOf(l)' = RouterNamesOf(l)
  BY <1>1, <1>2 DEF ExpertTensor, AllExperts, UntunedRouter, RouterNamesOf, One, Tensor
<1>4. InOldForm(layer)
  BY <1>1, CheckpointAssumption DEF Converting, LayerIds
<1>5. /\ \A n \in DOMAIN c : \E part : n = Name(layer, part, None) /\ part # "o_proj.weight"
      /\ \A part \in NewParts \ {"o_proj.weight"} : Name(layer, part, None) \in DOMAIN c
      /\ c[Name(layer, "gate_up_proj", None)] =
           AllExperts(layer, "gate_proj") \o AllExperts(layer, "up_proj")
      /\ c[Name(layer, "down_proj", None)] = AllExperts(layer, "down_proj")
      /\ c[Name(layer, "shared_experts.up_proj", None)] =
           One(Name(layer, "shared_expert.up_proj", None), Format)
      /\ \A n \in RouterNamesOf(layer) : n \in DOMAIN c /\ c[n] = UntunedRouter(n)
  BY <1>1, <1>4, ConvertedIs
<1> HIDE DEF c
<1>6. /\ DOMAIN stateDict' = (DOMAIN stateDict \ Consumed(layer)) \cup DOMAIN c
      /\ \A n \in DOMAIN c : stateDict'[n] = c[n]
      /\ \A n \in DOMAIN stateDict \ (Consumed(layer) \cup DOMAIN c) :
           n \in DOMAIN stateDict' /\ stateDict'[n] = stateDict[n]
  BY <1>1 DEF Updated
<1>7. ASSUME NEW n \in DOMAIN stateDict, n.layer # layer
      PROVE  n \in DOMAIN stateDict' /\ stateDict'[n] = stateDict[n]
  <2>1. n \notin DOMAIN c
    BY <1>5, <1>7, NameTells
  <2>2. n \notin Consumed(layer)
    BY <1>7, NameTells DEF Consumed, ExpertNames
  <2> QED
    BY <1>6, <2>1, <2>2
<1>8. ASSUME NEW l \in LayerIds, l >= layer' PROVE InOldForm(l)'
  <2>1. l # layer /\ InOldForm(l)
    BY <1>1, <1>8, CheckpointAssumption DEF Converting, LayerIds
  <2>2. \A n \in NamesOf(l) : n \in DOMAIN stateDict /\ n.layer = l
    BY <2>1, NamesTell DEF InOldForm
  <2>3. \A n \in NamesOf(l) : n \in DOMAIN stateDict' /\ stateDict'[n] = stateDict[n]
    BY <1>7, <2>1, <2>2
  <2>4. \A n \in LayerNames(l) : stateDict'[n] = One(n, Format)
    BY <2>1, <2>3 DEF InOldForm, NamesOf
  <2>5. \A p \in Projections, e \in ExpertIds :
          stateDict'[Name(l, p, e)] = <<ExpertTensor(l, p, e)>>
    BY <2>1, <2>3 DEF InOldForm, NamesOf, ExpertNames
  <2> QED
    BY <1>2, <1>3, <2>3, <2>4, <2>5 DEF InOldForm, One, Tensor
<1>9. ASSUME NEW l \in LayerIds, l < layer
      PROVE  /\ InNewForm(l)'
             /\ \A n \in RouterNamesOf(l) : n \in DOMAIN stateDict' /\ stateDict'[n] = UntunedRouter(n)
  <2>1. /\ l # layer /\ InNewForm(l)
        /\ \A n \in RouterNamesOf(l) : n \in DOMAIN stateDict /\ stateDict[n] = UntunedRouter(n)
    BY <1>1, <1>9 DEF Converting
  <2>2. \A part \in NewParts :
          /\ Name(l, part, None) \in DOMAIN stateDict'
          /\ stateDict'[Name(l, part, None)] = stateDict[Name(l, part, None)]
    BY <1>7, <2>1, NameTells DEF InNewForm
  <2>3. InNewForm(l)'
    BY <1>2, <1>3, <2>1, <2>2 DEF InNewForm, LayerArrives, AllExperts, NewParts, One, Tensor
  <2>4. \A n \in RouterNamesOf(l) : n.layer = l
    BY NameTells DEF RouterNamesOf
  <2> QED
    BY <1>7, <2>1, <2>3, <2>4
<1>10. ASSUME NEW l \in LayerIds, l = layer
       PROVE  /\ InNewForm(l)'
              /\ \A n \in RouterNamesOf(l) : n \in DOMAIN stateDict' /\ stateDict'[n] = UntunedRouter(n)
  <2>1. Name(layer, "o_proj.weight", None) \notin DOMAIN c
    BY <1>5, NameTells
  <2>2. Name(layer, "o_proj.weight", None) \notin Consumed(layer)
    <3>1. \A e \in ExpertIds : e # None
      BY CheckpointAssumption DEF ExpertIds, None
    <3> QED
      BY <3>1, NameTells DEF Consumed, ExpertNames, SharedParts
  <2>3. /\ Name(layer, "o_proj.weight", None) \in DOMAIN stateDict
        /\ stateDict[Name(layer, "o_proj.weight", None)] =
             One(Name(layer, "o_proj.weight", None), Format)
    BY <1>4 DEF InOldForm, NamesOf, LayerNames
  <2> QED
    BY <1>2, <1>3, <1>5, <1>6, <1>10, <2>1, <2>2, <2>3 DEF InNewForm, LayerArrives, AllExperts,
      NewParts, One, Tensor
<1>11. ASSUME NEW n \in DOMAIN stateDict'
       PROVE  /\ ~n.hf
              /\ n.expert # None =>
                   n.layer \in LayerIds /\ n.layer >= layer + 1 /\ n \in ExpertNames(n.layer)
  <2>1. CASE n \in DOMAIN c
    BY <1>5, <2>1 DEF Name
  <2>2. CASE n \in DOMAIN stateDict \ Consumed(layer)
    <3>1. ~n.hf
      BY <1>1, <2>2 DEF Converting
    <3>2. ASSUME n.expert # None
          PROVE  n.layer \in LayerIds /\ n.layer >= layer /\ n \in ExpertNames(n.layer)
      BY <1>1, <2>2, <3>2 DEF Converting
    <3>3. n.expert # None => n.layer # layer
      BY <2>2, <3>2 DEF Consumed
    <3> QED
      BY <1>1, <3>1, <3>2, <3>3, CheckpointAssumption DEF LayerIds
  <2> QED
    BY <1>6, <2>1, <2>2
<1>12. Converting'
  <2>1. \A l \in LayerIds : l < layer' => l < layer \/ l = layer
    BY <1>1, CheckpointAssumption DEF LayerIds
  <2> QED
    BY <1>1, <1>3, <1>8, <1>9, <1>10, <1>11, <2>1 DEF Converting
<1> QED
  BY <1>1, <1>2, <1>3, <1>12 DEF CheckpointInv, Stages, ReadingFiles, FilesRead,
    AllConverted, WeightsArrive

\* Fine-tuning of the routers comes last and touches nothing else.
LEMMA OverlayRouterKeeps ==
  ASSUME CheckpointInv, OverlayRouter
  PROVE  CheckpointInv'
<1>1. /\ stage = "layers" /\ stage' = "converted" /\ layer = NumLayers
      /\ UNCHANGED <<stored, unread, layer, module>>
      /\ stateDict' = Overlaid(stateDict, stored.router, "router_ft")
      /\ stored \in Stored
      /\ Converting
  BY DEF OverlayRouter, CheckpointInv
<1>2. RouterParts' = RouterParts /\ Format' = Format
  BY <1>1 DEF RouterParts, Format
<1>3. /\ \A l, p : AllExperts(l, p)' = AllExperts(l, p)
      /\ \A n : UntunedRouter(n)' = UntunedRouter(n) /\ TunedRouter(n)' = TunedRouter(n)
      /\ \A l : RouterNamesOf(l)' = RouterNamesOf(l)
  BY <1>1, <1>2 DEF AllExperts, ExpertTensor, TunedRouter, UntunedRouter, RouterNamesOf, One, Tensor
<1>4. /\ DOMAIN stateDict' = DOMAIN stateDict
      /\ \A n \in DOMAIN stateDict :
           stateDict'[n] = IF n \in stored.router THEN One(n, "router_ft") ELSE stateDict[n]
  BY <1>1 DEF Overlaid
<1>5. ASSUME NEW l \in LayerIds
      PROVE  /\ InNewForm(l)'
             /\ \A n \in RouterNamesOf(l) : n \in DOMAIN stateDict' /\ stateDict'[n] = TunedRouter(n)
  <2>1. /\ InNewForm(l)
        /\ \A n \in RouterNamesOf(l) : n \in DOMAIN stateDict /\ stateDict[n] = UntunedRouter(n)
    BY <1>1, CheckpointAssumption DEF Converting, LayerIds
  <2>2. \A part \in NewParts : Name(l, part, None) \notin stored.router
    BY <1>1, TunesName, NameTells DEF NewParts
  <2>3. \A part \in NewParts :
          /\ Name(l, part, None) \in DOMAIN stateDict'
          /\ stateDict'[Name(l, part, None)] = stateDict[Name(l, part, None)]
    BY <1>4, <2>1, <2>2 DEF InNewForm
  <2>4. InNewForm(l)'
    BY <1>2, <1>3, <2>1, <2>3 DEF InNewForm, LayerArrives, AllExperts, NewParts, One, Tensor
  <2> QED
    BY <1>4, <2>1, <2>4 DEF TunedRouter
<1>6. \A n \in DOMAIN stateDict' : n.expert = None /\ ~n.hf
  BY <1>1, <1>4, CheckpointAssumption DEF Converting, LayerIds
<1>7. AllConverted'
  BY <1>3, <1>5, <1>6 DEF AllConverted
<1> QED
  BY <1>1, <1>2, <1>3, <1>7 DEF CheckpointInv, Stages, ReadingFiles, FilesRead, Converting,
    WeightsArrive

\* The modules take the state dict's parameters.
LEMMA LoadKeeps ==
  ASSUME CheckpointInv, LoadModules
  PROVE  CheckpointInv'
<1>1. /\ stage = "converted" /\ stage' = "loaded"
      /\ UNCHANGED <<stored, unread, layer, stateDict>>
      /\ module' = [n \in DOMAIN module |-> IF n \in DOMAIN stateDict THEN stateDict[n] ELSE module[n]]
      /\ DOMAIN module = UNION {RouterNamesOf(l) : l \in LayerIds}
      /\ stored \in Stored
      /\ AllConverted
  BY DEF LoadModules, CheckpointInv
<1>2. RouterParts' = RouterParts /\ Format' = Format
  BY <1>1 DEF RouterParts, Format
<1>3. \A l : RouterNamesOf(l)' = RouterNamesOf(l)
  BY <1>2 DEF RouterNamesOf
<1>4. UNION {RouterNamesOf(l) : l \in LayerIds} =
        {Name(l, part, None) : l \in LayerIds, part \in RouterParts}
  BY DEF RouterNamesOf
<1>5. ASSUME NEW n \in DOMAIN module PROVE module'[n] = TunedRouter(n)
  BY <1>1, <1>5 DEF AllConverted
<1>6. /\ \A l, p, e : ExpertTensor(l, p, e)' = ExpertTensor(l, p, e)
      /\ \A n, from : One(n, from)' = One(n, from)
  BY <1>1, <1>2 DEF ExpertTensor, One, Tensor
<1>7. \A l \in LayerIds : InNewForm(l)
  BY <1>1 DEF AllConverted
<1>8. \A n \in DOMAIN stateDict : n.expert = None /\ ~n.hf
  BY <1>1 DEF AllConverted
<1>9. \A l \in LayerIds : LayerArrives(l)'
  BY <1>1, <1>2, <1>6, <1>7 DEF InNewForm, LayerArrives
<1>10. RoutersArrive'
  <2>1. DOMAIN module' = {Name(l, part, None) : l \in LayerIds, part \in RouterParts}
    BY <1>1, <1>4
  <2>2. ASSUME NEW n \in DOMAIN module'
        PROVE  module'[n] = IF n \in stored.router THEN One(n, "router_ft")
                            ELSE IF n.part = "linear_router"
                            THEN One(Name(n.layer, "gate", None), Format)
                            ELSE One(n, "zeros")
    BY <1>1, <1>5 DEF TunedRouter, UntunedRouter
  <2> QED
    BY <1>1, <1>2, <1>6, <2>1, <2>2 DEF RoutersArrive
<1>11. WeightsArrive'
  BY <1>1, <1>8, <1>9, <1>10 DEF WeightsArrive
<1> QED
  BY <1>1, <1>2, <1>3, <1>11 DEF CheckpointInv, Stages, ReadingFiles, FilesRead, Converting,
    AllConverted

\* The other uses leave the checkpoint alone.
LEMMA UsesConvert ==
  [InferenceNext]_inferenceVars => [CheckpointNext]_checkpointVars
<1>1. ASSUME InferenceNext PROVE CheckpointNext \/ UNCHANGED checkpointVars
  BY <1>1 DEF InferenceNext, Compile, Convert, KeepArtifacts, LoadWeights, Serve, GenerateBatch,
              AssistedDecoding, DecodeSharded, RouteCall, modelVars, weightVars
<1>2. ASSUME UNCHANGED inferenceVars PROVE UNCHANGED checkpointVars
  BY <1>2 DEF inferenceVars, modelVars, weightVars
<1> QED
  BY <1>1, <1>2

\* For any number of layers and experts, any format of a checkpoint, order of its files and
\* set of fine-tuned tensors: a model that loads has every layer's experts in their order
\* and every layer's own router (load_state_dict, get_state_dict,
\* convert_qwen_moe_to_neuron_state_dict).
THEOREM FilesArrive == InferenceSpec => []WeightsArrive
<1>1. InferenceInit => CheckpointInv
  BY CheckpointInitHolds DEF InferenceInit
<1>2. CheckpointInv /\ [InferenceNext]_inferenceVars => CheckpointInv'
  <2> SUFFICES ASSUME CheckpointInv, [CheckpointNext]_checkpointVars PROVE CheckpointInv'
    BY UsesConvert
  <2>1. CASE BuildRouters
    BY <2>1, BuildKeeps
  <2>2. CASE OpenCheckpoint
    BY <2>2, OpenKeeps
  <2>3. CASE ReadWhole \/ ReadFile
    BY <2>3, ReadKeeps
  <2>4. CASE StripPrefix
    BY <2>4, StripKeeps
  <2>5. CASE OverlayExperts
    BY <2>5, OverlayExpertsKeeps
  <2>6. CASE ConvertLayer
    BY <2>6, ConvertKeeps
  <2>7. CASE OverlayRouter
    BY <2>7, OverlayRouterKeeps
  <2>8. CASE LoadModules
    BY <2>8, LoadKeeps
  <2>9. CASE UNCHANGED checkpointVars
    <3>1. /\ UNCHANGED <<stored, stage, unread, layer, stateDict, module>>
          /\ RouterParts' = RouterParts /\ Format' = Format
      BY <2>9 DEF checkpointVars, RouterParts, Format
    <3>2. /\ \A n : AsStored(n)' = AsStored(n)
          /\ \A n, from : One(n, from)' = One(n, from)
          /\ \A l, p, e : ExpertTensor(l, p, e)' = ExpertTensor(l, p, e)
      BY <3>1 DEF AsStored, ExpertTensor, One, Tensor
    <3>3. \A s : FileTensors(s)' = FileTensors(s)
      BY <3>1 DEF FileTensors
    <3>4. ReadingFiles' /\ FilesRead'
      <4>1. ReadingFiles'
        BY <3>1, <3>2, <3>3 DEF CheckpointInv, ReadingFiles
      <4>2. FilesRead'
        BY <3>1, <3>2 DEF CheckpointInv, FilesRead, PrefixedNames, PlainNames
      <4> QED
        BY <4>1, <4>2
    <3>5. /\ \A l : RouterNamesOf(l)' = RouterNamesOf(l)
          /\ \A n : UntunedRouter(n)' = UntunedRouter(n) /\ TunedRouter(n)' = TunedRouter(n)
      BY <3>1, <3>2 DEF RouterNamesOf, TunedRouter, UntunedRouter
    <3>6. \A l : LayerArrives(l)' = LayerArrives(l)
      BY <3>1, <3>2 DEF LayerArrives
    <3>7. \A l : InOldForm(l)' = InOldForm(l) /\ InNewForm(l)' = InNewForm(l)
      BY <3>1, <3>2, <3>6 DEF InOldForm, InNewForm
    <3>8. Converting' /\ AllConverted'
      BY <3>1, <3>5, <3>7 DEF CheckpointInv, Converting, AllConverted
    <3>9. WeightsArrive'
      BY <3>1, <3>2, <3>6 DEF CheckpointInv, WeightsArrive, RoutersArrive
    <3> QED
      BY <3>1, <3>4, <3>5, <3>8, <3>9 DEF CheckpointInv
  <2> QED
    BY <2>1, <2>2, <2>3, <2>4, <2>5, <2>6, <2>7, <2>8, <2>9 DEF CheckpointNext
<1>3. CheckpointInv => WeightsArrive
  BY DEF CheckpointInv
<1> QED
  BY <1>1, <1>2, <1>3, PTL DEF InferenceSpec

------------------------------------------------------------------------------
(* Batches *)

Below(S, l) == {m \in S : m < l}

\* The numbers of a finite set have the ranks 0, 1, 2 and so on.
LEMMA RanksExist ==
  ASSUME NEW S \in SUBSET Int, IsFiniteSet(S)
  PROVE  /\ Cardinality(S) \in Nat
         /\ \A l \in S : Cardinality(Below(S, l)) \in 0..(Cardinality(S) - 1)
         /\ \A k, l \in S : Cardinality(Below(S, k)) = Cardinality(Below(S, l)) => k = l
         /\ \A i \in 0..(Cardinality(S) - 1) : \E l \in S : Cardinality(Below(S, l)) = i
<1> DEFINE n == Cardinality(S)
           ranking == [l \in S |-> Cardinality(Below(S, l))]
<1>1. n \in Nat
  BY FS_CardinalityType
<1>2. ASSUME NEW l \in S PROVE Cardinality(Below(S, l)) \in 0..(n - 1)
  <2>1. Below(S, l) \in SUBSET S /\ l \notin Below(S, l)
    BY DEF Below
  <2>2. IsFiniteSet(Below(S, l)) /\ Cardinality(Below(S, l)) <= n /\ Cardinality(Below(S, l)) # n
    BY <2>1, FS_Subset
  <2>3. Cardinality(Below(S, l)) \in Nat
    BY <2>2, FS_CardinalityType
  <2> QED
    BY <1>1, <2>2, <2>3
<1>3. ASSUME NEW k \in S, NEW l \in S, k < l
      PROVE  Cardinality(Below(S, k)) # Cardinality(Below(S, l))
  <2>1. Below(S, k) \in SUBSET Below(S, l) /\ k \in Below(S, l) /\ k \notin Below(S, k)
    <3>1. k \in Int /\ l \in Int /\ \A m \in S : m \in Int /\ (m < k => m < l)
      BY <1>3
    <3>2. \A m \in Below(S, k) : m \in Below(S, l)
      BY <3>1 DEF Below
    <3>3. k \in Below(S, l) /\ k \notin Below(S, k)
      BY <1>3, <3>1 DEF Below
    <3> QED
      BY <3>2, <3>3
  <2>2. IsFiniteSet(Below(S, l))
    <3>1. Below(S, l) \in SUBSET S
      BY DEF Below
    <3> QED
      BY <3>1, FS_Subset
  <2> QED
    BY <2>1, <2>2, FS_Subset
<1>4. \A k, l \in S : Cardinality(Below(S, k)) = Cardinality(Below(S, l)) => k = l
  BY <1>3
<1>5. ranking \in Injection(S, 0..(n - 1))
  <2>1. ranking \in [S -> 0..(n - 1)]
    BY <1>2
  <2>2. \A k, l \in S : ranking[k] = ranking[l] => k = l
    BY <1>4
  <2> HIDE DEF ranking
  <2> QED
    BY <2>1, <2>2 DEF Injection, IsInjective
<1>6. ranking \in Surjection(S, 0..(n - 1))
  <2>1. IsFiniteSet(0..(n - 1)) /\ Cardinality(0..(n - 1)) = n
    BY <1>1, FS_Interval
  <2> HIDE DEF ranking
  <2> QED
    BY <1>5, <2>1, FS_Injection
<1>7. \A i \in 0..(n - 1) : \E l \in S : ranking[l] = i
  <2> HIDE DEF ranking
  <2> QED
    BY <1>6 DEF Surjection
<1> QED
  BY <1>1, <1>2, <1>4, <1>7

\* The rows of a call name different lines; without continuous batching these are the
\* rows' own places.
Spread(rows) ==
  /\ \A i \in DOMAIN rows : rows[i].line \in Lines
  /\ \A i, j \in DOMAIN rows : rows[i].line = rows[j].line => i = j

Placed(rows) == \A i \in DOMAIN rows : rows[i].line = i - 1

\* The rows that fill a batch name the other lines, and where a call names the first
\* lines in turn they go on with the next.
LEMMA UnusedLinesAre ==
  ASSUME NEW n \in 1..MaxBatch, NEW rows, DOMAIN rows = 1..n, Len(rows) = n, Spread(rows)
  PROVE  /\ DOMAIN UnusedLines(rows) = 1..(MaxBatch - n)
         /\ \A i \in 1..(MaxBatch - n) :
              /\ UnusedLines(rows)[i] \in Lines
              /\ \A j \in 1..n : UnusedLines(rows)[i] # rows[j].line
         /\ \A i, j \in 1..(MaxBatch - n) : UnusedLines(rows)[i] = UnusedLines(rows)[j] => i = j
         /\ Placed(rows) => \A i \in 1..(MaxBatch - n) : UnusedLines(rows)[i] = n + i - 1
<1> DEFINE named == {rows[i].line : i \in 1..n}
           unused == Lines \ named
           line == [i \in 1..n |-> rows[i].line]
           U == UnusedLines(rows)
<1>0. MaxBatch \in Nat /\ n \in Nat
  BY ServingAssumption
<1>1. IsFiniteSet(Lines) /\ Cardinality(Lines) = MaxBatch
  BY <1>0, FS_Interval DEF Lines
<1>2. IsFiniteSet(named) /\ Cardinality(named) = n /\ named \in SUBSET Lines
  <2>1. line \in [1..n -> named] /\ named \in SUBSET Lines
    BY DEF Spread
  <2>2. line \in Surjection(1..n, named)
    BY <2>1 DEF Surjection
  <2>3. line \in Injection(1..n, named)
    <3>1. \A i, j \in 1..n : line[i] = line[j] => i = j
      BY DEF Spread
    <3> HIDE DEF line, named
    <3> QED
      BY <2>1, <3>1 DEF Injection, IsInjective
  <2>4. IsFiniteSet(1..n) /\ Cardinality(1..n) = n
    BY <1>0, FS_Interval
  <2> HIDE DEF line, named
  <2> QED
    BY <2>1, <2>2, <2>3, <2>4, FS_Surjection
<1>3. IsFiniteSet(unused) /\ Cardinality(unused) = MaxBatch - n /\ unused \in SUBSET Int
  <2>1. Lines \cap named = named
    BY <1>2
  <2>2. Lines \in SUBSET Int
    BY <1>0 DEF Lines
  <2> HIDE DEF named
  <2>3. IsFiniteSet(unused) /\ Cardinality(unused) = Cardinality(Lines) - Cardinality(Lines \cap named)
    BY <1>1, FS_Difference
  <2>4. Cardinality(unused) = MaxBatch - n
    BY <1>1, <1>2, <2>1, <2>3
  <2> QED
    BY <2>2, <2>3, <2>4
<1>4. U = [i \in 1..Cardinality(unused) |-> CHOOSE l \in unused : Cardinality(Below(unused, l)) = i - 1]
  BY DEF UnusedLines, Below
<1> HIDE DEF U, unused
<1>5. ASSUME NEW i \in 1..(MaxBatch - n)
      PROVE  U[i] \in unused /\ Cardinality(Below(unused, U[i])) = i - 1
  <2>1. i - 1 \in 0..(Cardinality(unused) - 1)
    BY <1>0, <1>3
  <2>2. \E l \in unused : Cardinality(Below(unused, l)) = i - 1
    BY <1>3, <2>1, RanksExist
  <2>3. U[i] = CHOOSE l \in unused : Cardinality(Below(unused, l)) = i - 1
    BY <1>3, <1>4
  <2> QED
    BY <2>2, <2>3
<1>6. ASSUME NEW i \in 1..(MaxBatch - n), NEW j \in 1..(MaxBatch - n), U[i] = U[j] PROVE i = j
  <2>1. i - 1 = j - 1
    BY <1>5, <1>6
  <2> QED
    BY <1>0, <2>1
<1>7. ASSUME Placed(rows), NEW i \in 1..(MaxBatch - n) PROVE U[i] = n + i - 1
  <2>1. unused = n..(MaxBatch - 1)
    <3>1. named = 0..(n - 1)
      <4>1. named = {i1 - 1 : i1 \in 1..n}
        BY <1>7 DEF Placed
      <4>2. \A l \in 0..(n - 1) : l + 1 \in 1..n /\ l = (l + 1) - 1
        BY <1>0
      <4>3. \A i1 \in 1..n : i1 - 1 \in 0..(n - 1)
        BY <1>0
      <4> HIDE DEF named
      <4> QED
        BY <4>1, <4>2, <4>3
    <3> HIDE DEF named
    <3> QED
      BY <1>0, <3>1 DEF Lines, unused
  <2>2. n + i - 1 \in unused
    BY <1>0, <2>1
  <2>3. Below(unused, n + i - 1) = n..(n + i - 2)
    BY <1>0, <2>1 DEF Below
  <2>4. Cardinality(Below(unused, n + i - 1)) = i - 1
    BY <1>0, <2>3, FS_Interval
  <2> QED
    <3>1. U[i] \in unused /\ Cardinality(Below(unused, U[i])) = i - 1
      BY <1>5
    <3>2. \A k, l \in unused : Cardinality(Below(unused, k)) = Cardinality(Below(unused, l)) => k = l
      BY <1>3, RanksExist
    <3> QED
      BY <2>2, <2>4, <3>1, <3>2
<1>8. \A i \in 1..(MaxBatch - n) : U[i] \in Lines /\ \A j \in 1..n : U[i] # rows[j].line
  BY <1>5 DEF unused
<1>9. DOMAIN U = 1..(MaxBatch - n)
  BY <1>3, <1>4
<1> QED
  BY <1>6, <1>7, <1>8, <1>9 DEF U

\* A full batch whose rows name different lines has a row for each line, and sorting
\* puts it at the place of its line.
LEMMA ReorderedIs ==
  ASSUME NEW rows, DOMAIN rows = 1..MaxBatch, Spread(rows)
  PROVE  /\ DOMAIN Reordered(rows) = 1..MaxBatch
         /\ \A i \in 1..MaxBatch : Reordered(rows)[rows[i].line + 1] = rows[i]
         /\ \A l \in Lines : \E i \in 1..MaxBatch : rows[i].line = l
<1> DEFINE line == [i \in 1..MaxBatch |-> rows[i].line]
           Smaller(i) == {k \in 1..MaxBatch : SortsBefore(rows, k, i)}
<1>0. MaxBatch \in Nat
  BY ServingAssumption
<1>1. /\ IsFiniteSet(1..MaxBatch) /\ Cardinality(1..MaxBatch) = MaxBatch
      /\ IsFiniteSet(Lines) /\ Cardinality(Lines) = MaxBatch
  <2>1. IsFiniteSet(1..MaxBatch) /\ Cardinality(1..MaxBatch) = MaxBatch
    BY <1>0, FS_Interval
  <2>2. IsFiniteSet(0..(MaxBatch - 1)) /\ Cardinality(0..(MaxBatch - 1)) = MaxBatch
    <3>1. MaxBatch - 1 \in Int /\ (0 > MaxBatch - 1 => MaxBatch = 0) /\ (MaxBatch - 1) - 0 + 1 = MaxBatch
      BY <1>0
    <3> QED
      BY <3>1, FS_Interval
  <2> QED
    BY <2>1, <2>2 DEF Lines
<1>2. line \in Injection(1..MaxBatch, Lines)
  <2>1. line \in [1..MaxBatch -> Lines] /\ \A i, j \in 1..MaxBatch : line[i] = line[j] => i = j
    BY DEF Spread
  <2> HIDE DEF line
  <2> QED
    BY <2>1 DEF Injection, IsInjective
<1>3. line \in Surjection(1..MaxBatch, Lines)
  <2> HIDE DEF line
  <2> QED
    BY <1>1, <1>2, FS_Injection
<1>4. \A l \in Lines : \E i \in 1..MaxBatch : line[i] = l
  <2> HIDE DEF line
  <2> QED
    BY <1>3 DEF Surjection
<1>5. ASSUME NEW i \in 1..MaxBatch PROVE Cardinality(Smaller(i)) = rows[i].line
  <2> DEFINE small == [k \in Smaller(i) |-> rows[k].line]
             lower == 0..(rows[i].line - 1)
  <2>0. \A k \in 1..MaxBatch : rows[k].line \in Nat /\ rows[k].line < MaxBatch
    BY <1>0 DEF Spread, Lines
  <2>1. Smaller(i) = {k \in 1..MaxBatch : rows[k].line < rows[i].line}
    <3>1. \A k \in 1..MaxBatch : rows[k].line = rows[i].line => ~(k < i)
      BY <1>0 DEF Spread
    <3> QED
      BY <3>1 DEF SortsBefore
  <2>2. small \in [Smaller(i) -> lower]
    BY <2>0, <2>1
  <2>3. \A k, m \in Smaller(i) : small[k] = small[m] => k = m
    BY DEF Spread
  <2>4. \A l \in lower : \E k \in Smaller(i) : small[k] = l
    <3>1. ASSUME NEW l \in lower PROVE \E k \in Smaller(i) : small[k] = l
      <4>1. l \in Lines /\ l < rows[i].line
        BY <1>0, <2>0 DEF Lines
      <4>2. PICK k \in 1..MaxBatch : rows[k].line = l
        BY <1>4, <4>1
      <4>3. k \in Smaller(i)
        BY <2>1, <4>1, <4>2
      <4> QED
        BY <4>2, <4>3
    <3> QED
      BY <3>1
  <2>5. IsFiniteSet(lower) /\ Cardinality(lower) = rows[i].line
    BY <2>0, FS_Interval
  <2> HIDE DEF small, lower
  <2>6. small \in Injection(Smaller(i), lower)
    BY <2>2, <2>3 DEF Injection, IsInjective
  <2>7. small \in Surjection(Smaller(i), lower)
    BY <2>2, <2>4 DEF Surjection
  <2> QED
    BY <2>5, <2>6, <2>7, FS_Injection
<1>6. DOMAIN Reordered(rows) = 1..MaxBatch
  BY DEF Reordered
<1>7. ASSUME NEW i \in 1..MaxBatch PROVE Reordered(rows)[rows[i].line + 1] = rows[i]
  <2> DEFINE j == rows[i].line + 1
             place == CHOOSE k \in 1..MaxBatch : Cardinality(Smaller(k)) = j - 1
  <2>1. j \in 1..MaxBatch /\ j - 1 = rows[i].line
    BY <1>0 DEF Spread, Lines
  <2>2. Argsort(rows)[j] = place
    BY <2>1 DEF Argsort
  <2>3. place \in 1..MaxBatch /\ Cardinality(Smaller(place)) = j - 1
    <3> HIDE DEF j, Smaller
    <3> QED
      BY <1>5, <2>1
  <2>4. rows[place].line = rows[i].line
    <3> HIDE DEF j, Smaller, place
    <3> QED
      BY <1>5, <2>1, <2>3
  <2>5. place = i
    <3> HIDE DEF j, Smaller, place
    <3> QED
      BY <2>3, <2>4 DEF Spread
  <2> HIDE DEF place
  <2> QED
    BY <2>1, <2>2, <2>5 DEF Reordered
<1> QED
  BY <1>4, <1>6, <1>7
\* A bucket has room for every row of a call, and is no longer than the longest.
LEMMA RoomForPrompts ==
  ASSUME NEW least \in Nat \ {0}, NEW most \in Nat \ {0}, NEW bs, bs = GenerateBuckets(least, most),
         NEW S \in SUBSET (0..most), S # {}
  PROVE  /\ ContextBucket(bs, S) \in 0..most
         /\ \A n \in S : ContextBucket(bs, S) >= n
<1> DEFINE index(n) == FirstIndex(bs, LAMBDA b : b < n)
           all == {index(n) : n \in S}
           last == Max(all)
<1>1. /\ bs \in Seq(Nat) /\ Len(bs) >= 1 /\ bs[Len(bs)] = most
      /\ \A i, j \in 1..Len(bs) : i < j => bs[i] < bs[j]
  BY BucketsGrow
<1>2. DOMAIN bs = 1..Len(bs) /\ Len(bs) \in Nat /\ \A i \in 1..Len(bs) : bs[i] \in Nat
  BY <1>1
<1>3. ASSUME NEW n \in 0..most PROVE index(n) \in 1..Len(bs) /\ bs[index(n)] >= n
  <2> DEFINE fits == {i \in 1..Len(bs) : ~(bs[i] < n)}
  <2>1. fits \in SUBSET (0..Len(bs)) /\ fits # {}
    <3>1. Len(bs) \in fits
      BY <1>1, <1>2
    <3> QED
      BY <1>2, <3>1
  <2>2. index(n) = Min(fits)
    BY <1>2, <2>1 DEF FirstIndex
  <2>3. Min(fits) \in fits
    <3> HIDE DEF fits
    <3> QED
      BY <1>2, <2>1, LeastIs
  <2> HIDE DEF index
  <2> QED
    BY <1>2, <2>2, <2>3
<1>4. ContextBucket(bs, S) = bs[last]
  BY DEF ContextBucket
<1> HIDE DEF index
<1>5. all \in SUBSET (0..Len(bs)) /\ all # {}
  <2>1. \A n \in S : index(n) \in 0..Len(bs)
    BY <1>2, <1>3
  <2>2. all # {}
    OBVIOUS
  <2> QED
    BY <2>1, <2>2
<1>6. last \in all /\ \A i \in all : i <= last
  <2> HIDE DEF all
  <2> QED
    BY <1>2, <1>5, GreatestIs
<1>7. last \in 1..Len(bs)
  BY <1>3, <1>6
<1> HIDE DEF last
<1>8. ASSUME NEW i \in 1..Len(bs), NEW j \in 1..Len(bs), i <= j PROVE bs[i] <= bs[j]
  <2>1. i = j \/ i < j
    BY <1>2, <1>8
  <2> QED
    BY <1>1, <1>2, <2>1
<1>9. ASSUME NEW n \in S PROVE bs[last] >= n
  <2>1. index(n) \in 1..Len(bs) /\ bs[index(n)] >= n /\ index(n) <= last
    BY <1>3, <1>6
  <2>2. bs[index(n)] <= bs[last]
    BY <1>7, <1>8, <2>1
  <2> QED
    BY <1>2, <1>7, <2>1, <2>2
<1>10. bs[last] <= most
  BY <1>1, <1>2, <1>7, <1>8
<1> QED
  BY <1>2, <1>4, <1>7, <1>9, <1>10

\* A call for one token more finds a bucket with room for each row's place.
LEMMA RoomForTokens ==
  ASSUME NEW least \in Nat \ {0}, NEW most \in Nat \ {0}, NEW bs, bs = GenerateBuckets(least, most),
         NEW S \in SUBSET (0..(most - 1)), S # {}
  PROVE  /\ GenerationBucket(bs, S) \in 0..most
         /\ \A p \in S : GenerationBucket(bs, S) > p
<1> DEFINE next == {p + 1 : p \in S}
           index(n) == FirstIndex(bs, LAMBDA b : b < n)
           beyond(p) == FirstIndex(bs, LAMBDA b : b <= p)
<1>1. next \in SUBSET (0..most) /\ next # {}
  OBVIOUS
<1>2. bs \in Seq(Nat)
  BY BucketsGrow
<1>3. ASSUME NEW p \in S PROVE beyond(p) = index(p + 1)
  <2>1. \A i \in DOMAIN bs : bs[i] <= p <=> bs[i] < p + 1
    BY <1>2
  <2>2. {i \in DOMAIN bs : ~(bs[i] <= p)} = {i \in DOMAIN bs : ~(bs[i] < p + 1)}
    BY <2>1
  <2> QED
    BY <2>2 DEF FirstIndex
<1>4. GenerationBucket(bs, S) = bs[Max({beyond(p) : p \in S})]
  BY DEF GenerationBucket
<1>5. ContextBucket(bs, next) = bs[Max({index(n) : n \in next})]
  BY DEF ContextBucket
<1>6. {beyond(p) : p \in S} = {index(n) : n \in next}
  <2> HIDE DEF beyond, index
  <2> QED
    BY <1>3
<1>7. ContextBucket(bs, next) \in 0..most /\ \A n \in next : ContextBucket(bs, next) >= n
  <2> HIDE DEF next
  <2> QED
    BY <1>1, RoomForPrompts
<1>8. GenerationBucket(bs, S) = ContextBucket(bs, next)
  BY <1>4, <1>5, <1>6
<1>9. ASSUME NEW p \in S PROVE GenerationBucket(bs, S) > p
  <2>1. p + 1 \in next /\ p \in Nat
    OBVIOUS
  <2> HIDE DEF next
  <2>2. ContextBucket(bs, next) >= p + 1 /\ ContextBucket(bs, next) \in Nat
    BY <1>7, <2>1
  <2> QED
    BY <1>8, <2>1, <2>2
<1> HIDE DEF next
<1> QED
  BY <1>7, <1>8, <1>9

\* Caches and rows of tokens of any set.
CachesOf(X) == [Lines -> [Positions -> X]]
TokenRows(X) == [line : Lines, token : X, position : Positions]
PromptRows(X) == [line : Lines, length : 1..MaxContext, tokens : [1..MaxContext -> X]]

Fill(rows, f) == rows \o [i \in DOMAIN UnusedLines(rows) |-> f[UnusedLines(rows)[i]]]

\* A batch that is filled up has a row for every line.
LEMMA FilledIs ==
  ASSUME NEW T, NEW rows \in Seq(T), NEW n \in 1..MaxBatch, Len(rows) = n, Spread(rows),
         NEW f \in [Lines -> T], \A l \in Lines : f[l].line = l
  PROVE  /\ Fill(rows, f) \in [1..MaxBatch -> T] /\ \A i \in 1..n : Fill(rows, f)[i] = rows[i]
         /\ Spread(Fill(rows, f)) /\ (Placed(rows) => Placed(Fill(rows, f)))
<1> DEFINE all == Fill(rows, f)
           U == UnusedLines(rows)
           more == [i \in DOMAIN U |-> f[U[i]]]
<1>0. MaxBatch \in Nat /\ n \in Nat /\ DOMAIN rows = 1..n /\ MaxBatch - n \in Nat
  BY ServingAssumption
<1>1. /\ DOMAIN U = 1..(MaxBatch - n)
      /\ \A i \in 1..(MaxBatch - n) : U[i] \in Lines /\ \A j \in 1..n : U[i] # rows[j].line
      /\ \A i, j \in 1..(MaxBatch - n) : U[i] = U[j] => i = j
      /\ Placed(rows) => \A i \in 1..(MaxBatch - n) : U[i] = n + i - 1
  BY <1>0, UnusedLinesAre
<1> HIDE DEF U
<1>2. more \in Seq(T) /\ Len(more) = MaxBatch - n
  <2>1. DOMAIN more = 1..(MaxBatch - n) /\ \A i \in 1..(MaxBatch - n) : more[i] \in T
    BY <1>1
  <2>2. more = [i \in 1..(MaxBatch - n) |-> more[i]]
    BY <1>1
  <2> HIDE DEF more
  <2> QED
    BY <1>0, <2>1, <2>2, ListIs
<1>3. \A i \in 1..(MaxBatch - n) : more[i] = f[U[i]] /\ more[i].line = U[i]
  BY <1>1
<1>4. all = rows \o more
  BY DEF U, Fill
<1> HIDE DEF more, all
<1>5. all \in Seq(T) /\ Len(all) = MaxBatch /\ DOMAIN all = 1..MaxBatch
  <2>1. all \in Seq(T) /\ Len(all) = Len(rows) + Len(more)
    <3>1. rows \o more \in Seq(T) /\ Len(rows \o more) = Len(rows) + Len(more)
      BY <1>2
    <3> QED
      BY <1>4, <3>1, Zenon
  <2>2. Len(all) = MaxBatch
    BY <1>0, <1>2, <2>1
  <2> QED
    BY <2>1, <2>2
<1>6. \A i \in 1..n : i \in 1..MaxBatch /\ all[i] = rows[i]
  <2>1. \A i \in 1..Len(rows) : all[i] = rows[i]
    BY <1>2, <1>4, Joined
  <2> QED
    BY <1>0, <2>1
<1>7. ASSUME NEW i \in 1..MaxBatch, ~(i \in 1..n)
      PROVE  i - n \in 1..(MaxBatch - n) /\ all[i] = more[i - n]
  <2>1. \A j \in 1..Len(more) : all[Len(rows) + j] = more[j]
    <3>1. ASSUME NEW s \in Seq(T), NEW t \in Seq(T)
          PROVE  \A j \in 1..Len(t) : (s \o t)[Len(s) + j] = t[j]
      BY Joined
    <3> QED
      BY <1>2, <1>4, <3>1, Zenon
  <2>2. i - n \in 1..(MaxBatch - n) /\ n + (i - n) = i
    BY <1>0, <1>7
  <2>3. all[n + (i - n)] = more[i - n]
    BY <1>2, <2>1, <2>2
  <2> QED
    BY <2>2, <2>3
<1>8. all \in [1..MaxBatch -> T]
  <2>1. \A s \in Seq(T) : s \in [1..Len(s) -> T]
    OBVIOUS
  <2> QED
    BY <1>5, <2>1
<1>9. Spread(all)
  <2>1. ASSUME NEW i \in 1..MaxBatch PROVE all[i].line \in Lines
    <3>1. CASE i \in 1..n
      BY <1>0, <1>6, <3>1 DEF Spread
    <3>2. CASE ~(i \in 1..n)
      <4>1. i - n \in 1..(MaxBatch - n) /\ all[i] = more[i - n]
        BY <1>7, <3>2
      <4> QED
        BY <1>1, <1>3, <4>1
    <3> QED
      BY <3>1, <3>2
  <2>2. \A i \in 1..MaxBatch :
          ~(i \in 1..n) => all[i].line = more[i - n].line /\ i - n \in 1..(MaxBatch - n)
    BY <1>7
  <2>3. ASSUME NEW i \in 1..MaxBatch, NEW j \in 1..MaxBatch, all[i].line = all[j].line PROVE i = j
    <3>1. CASE i \in 1..n /\ j \in 1..n
      BY <1>0, <1>6, <2>3, <3>1 DEF Spread
    <3>2. CASE i \in 1..n /\ ~(j \in 1..n)
      <4>1. all[i] = rows[i] /\ all[j].line = U[j - n] /\ j - n \in 1..(MaxBatch - n)
        BY <1>3, <1>6, <2>2, <3>2
      <4>2. U[j - n] # rows[i].line
        BY <1>1, <3>2, <4>1
      <4> QED
        BY <2>3, <4>1, <4>2
    <3>3. CASE ~(i \in 1..n) /\ j \in 1..n
      <4>1. all[j] = rows[j] /\ all[i].line = U[i - n] /\ i - n \in 1..(MaxBatch - n)
        BY <1>3, <1>6, <2>2, <3>3
      <4>2. U[i - n] # rows[j].line
        BY <1>1, <3>3, <4>1
      <4> QED
        BY <2>3, <4>1, <4>2
    <3>4. CASE ~(i \in 1..n) /\ ~(j \in 1..n)
      <4>1. U[i - n] = U[j - n] /\ i - n \in 1..(MaxBatch - n) /\ j - n \in 1..(MaxBatch - n)
        BY <1>3, <2>3, <2>2, <3>4
      <4>2. i - n = j - n
        BY <1>1, <4>1
      <4> QED
        BY <1>0, <4>2
    <3> QED
      BY <3>1, <3>2, <3>3, <3>4
  <2> QED
    BY <1>5, <2>1, <2>3 DEF Spread
<1>10. ASSUME Placed(rows) PROVE Placed(all)
  <2>1. ASSUME NEW i \in 1..MaxBatch PROVE all[i].line = i - 1
    <3>1. CASE i \in 1..n
      BY <1>0, <1>6, <1>10, <3>1 DEF Placed
    <3>2. CASE ~(i \in 1..n)
      <4>1. i - n \in 1..(MaxBatch - n) /\ all[i].line = U[i - n]
        BY <1>3, <1>7, <3>2
      <4>2. U[i - n] = n + (i - n) - 1
        BY <1>1, <1>10, <4>1
      <4> QED
        BY <1>0, <4>1, <4>2
    <3> QED
      BY <3>1, <3>2
  <2> QED
    BY <1>5, <2>1 DEF Placed
<1> QED
  BY <1>6, <1>8, <1>9, <1>10 DEF all

\* The same for the whole batch.
LEMMA SortedIs ==
  ASSUME NEW T, NEW rows \in [1..MaxBatch -> T], Spread(rows)
  PROVE  /\ Reordered(rows) \in [1..MaxBatch -> T]
         /\ \A i \in 1..MaxBatch : rows[i].line \in Lines /\ rows[i].line + 1 \in 1..MaxBatch
         /\ \A i \in 1..MaxBatch : Reordered(rows)[rows[i].line + 1] = rows[i]
         /\ \A l \in Lines : \E i \in 1..MaxBatch : rows[i].line = l
<1>0. MaxBatch \in Nat /\ DOMAIN rows = 1..MaxBatch
  BY ServingAssumption
<1>1. \A i \in 1..MaxBatch : rows[i].line \in Lines /\ rows[i].line + 1 \in 1..MaxBatch
  BY <1>0 DEF Spread, Lines
<1>2. \A l \in Lines : \E i \in 1..MaxBatch : rows[i].line = l
  BY <1>0, ReorderedIs
<1>3. \A i \in 1..MaxBatch : Reordered(rows)[rows[i].line + 1] = rows[i]
  BY <1>0, ReorderedIs
<1>4. ASSUME NEW j \in 1..MaxBatch PROVE Reordered(rows)[j] \in T
  <2>1. j - 1 \in Lines
    BY <1>0 DEF Lines
  <2>2. PICK i \in 1..MaxBatch : rows[i].line = j - 1
    BY <1>2, <2>1
  <2>3. rows[i].line + 1 = j
    BY <1>0, <2>2
  <2> QED
    BY <1>3, <2>3
<1>5. Reordered(rows) = [j \in 1..MaxBatch |-> Reordered(rows)[j]]
  BY <1>0 DEF Reordered
<1> QED
  BY <1>1, <1>2, <1>3, <1>4, <1>5

\* What a full batch in the order of the lines becomes: row l + 1 goes to line l.
PassedOn(X, kv, rows, out) ==
  /\ out = [cache |-> out.cache, answers |-> out.answers]
  /\ out.cache \in CachesOf(X)
  /\ \A l \in Lines : \A p \in Positions :
       out.cache[l][p] = IF p = rows[l + 1].position THEN rows[l + 1].token ELSE kv[l][p]
  /\ out.answers = [i \in 1..MaxBatch |->
       Append([p \in 1..rows[i].position |-> kv[i - 1][p - 1]], rows[i].token)]

\* The model on a whole batch in the order of the lines.
LEMMA GenerateTokenIs ==
  ASSUME NEW X, NEW kv \in CachesOf(X), NEW rows \in [1..MaxBatch -> TokenRows(X)],
         MaxLength > 0
  PROVE  PassedOn(X, kv, rows, GenerateToken(kv, rows))
<1> DEFINE out == GenerateToken(kv, rows)
           placesOf == {rows[i].position : i \in 1..MaxBatch}
           bucket == GenerationBucket(GenerationBuckets, placesOf)
<1>0. MaxBatch \in Nat \ {0} /\ MaxLength \in Nat \ {0} /\ MinBucket \in Nat \ {0} /\ DOMAIN rows = 1..MaxBatch
  BY ServingAssumption
<1>1. \A i \in 1..MaxBatch : /\ rows[i].position \in Positions /\ rows[i].position \in Nat
                             /\ rows[i].token \in X
  <2>1. \A i \in 1..MaxBatch : rows[i] \in TokenRows(X)
    OBVIOUS
  <2>2. Positions \in SUBSET Nat
    BY <1>0 DEF Positions
  <2> QED
    BY <2>1, <2>2 DEF TokenRows
<1>2. placesOf \in SUBSET (0..(MaxLength - 1)) /\ placesOf # {}
  <2>1. 1 \in 1..MaxBatch
    BY <1>0
  <2> QED
    BY <1>1, <2>1 DEF Positions
<1>3. \A i \in 1..MaxBatch : rows[i].position < bucket
  <2> HIDE DEF bucket, placesOf
  <2>1. \A p \in placesOf : GenerationBucket(GenerationBuckets, placesOf) > p
          /\ GenerationBucket(GenerationBuckets, placesOf) \in 0..MaxLength
    BY <1>0, <1>2, RoomForTokens DEF GenerationBuckets
  <2>2. \A i \in 1..MaxBatch : rows[i].position \in placesOf
    BY DEF placesOf
  <2>3. \A i \in 1..MaxBatch : bucket > rows[i].position /\ bucket \in 0..MaxLength
    BY <2>1, <2>2 DEF bucket
  <2> QED
    BY <1>0, <1>1, <2>3
<1>4. /\ out.cache = DecodeCache(kv, rows, bucket)
      /\ out.answers = [i \in 1..MaxBatch |-> Append(CachedContext(kv, rows, i, bucket), rows[i].token)]
      /\ out = [cache |-> out.cache, answers |-> out.answers]
  BY <1>0 DEF GenerateToken
<1> HIDE DEF bucket, out
<1>5. ASSUME NEW l \in Lines PROVE l + 1 \in 1..MaxBatch
  BY <1>0 DEF Lines
<1>6. \A l \in Lines : kv[l] \in [Positions -> X]
  BY DEF CachesOf
<1>7. out.cache = [l \in Lines |-> [kv[l] EXCEPT ![rows[l + 1].position] = rows[l + 1].token]]
  BY <1>3, <1>4, <1>5 DEF DecodeCache
<1>8. out.cache \in CachesOf(X)
  BY <1>1, <1>5, <1>6, <1>7 DEF CachesOf
<1>9. ASSUME NEW l \in Lines, NEW p \in Positions
      PROVE  out.cache[l][p] = IF p = rows[l + 1].position THEN rows[l + 1].token ELSE kv[l][p]
  BY <1>1, <1>5, <1>6, <1>7
<1>10. \A i \in 1..MaxBatch :
         CachedContext(kv, rows, i, bucket) = [p \in 1..rows[i].position |-> kv[i - 1][p - 1]]
  BY <1>3 DEF CachedContext
<1> QED
  BY <1>4, <1>8, <1>9, <1>10 DEF out, PassedOn

\* What rows in any order become: each goes to its own line and is answered from it.
Continued(X, kv, n, rows, out) ==
  /\ out = [cache |-> out.cache, answers |-> out.answers]
  /\ out.cache \in CachesOf(X)
  /\ \A i \in 1..n : \A p \in Positions :
       out.cache[rows[i].line][p] =
         IF p = rows[i].position THEN rows[i].token ELSE kv[rows[i].line][p]
  /\ out.answers = [i \in 1..n |->
       Append([p \in 1..rows[i].position |-> kv[rows[i].line][p - 1]], rows[i].token)]

Forwarded(kv, continuous, rows) ==
  Forward(LAMBDA r : GenerateToken(kv, r), continuous, MaxBatch, rows)

\* _forward: rows are sorted and the answers put back, or are in order already.
LEMMA ForwardedIs ==
  ASSUME NEW X, NEW kv \in CachesOf(X), NEW rows \in [1..MaxBatch -> TokenRows(X)],
         MaxLength > 0, Spread(rows), NEW continuous \in BOOLEAN, ~continuous => Placed(rows)
  PROVE  Continued(X, kv, MaxBatch, rows, Forwarded(kv, continuous, rows))
<1> DEFINE sorted == IF continuous THEN Reordered(rows) ELSE rows
           made == GenerateToken(kv, sorted)
           out == Forwarded(kv, continuous, rows)
<1>0. MaxBatch \in Nat \ {0} /\ DOMAIN rows = 1..MaxBatch
  BY ServingAssumption
<1>1. /\ sorted \in [1..MaxBatch -> TokenRows(X)]
      /\ \A i \in 1..MaxBatch : rows[i].line + 1 \in 1..MaxBatch /\ sorted[rows[i].line + 1] = rows[i]
  <2>1. /\ Reordered(rows) \in [1..MaxBatch -> TokenRows(X)]
        /\ \A i \in 1..MaxBatch : rows[i].line + 1 \in 1..MaxBatch
        /\ \A i \in 1..MaxBatch : Reordered(rows)[rows[i].line + 1] = rows[i]
    BY SortedIs
  <2>2. CASE continuous
    BY <2>1, <2>2
  <2>3. CASE ~continuous
    <3>1. \A i \in 1..MaxBatch : rows[i].line + 1 = i
      BY <1>0, <2>3 DEF Placed
    <3> QED
      BY <2>1, <2>3, <3>1
  <2> QED
    BY <2>2, <2>3
<1>2. \A i \in 1..MaxBatch : rows[i].line \in Lines
  BY <1>0 DEF Spread
<1>3. out = IF continuous THEN [made EXCEPT !.answers = Restored(rows, made.answers)] ELSE made
  BY DEF Forwarded, Forward
<1> HIDE DEF sorted
<1> HIDE DEF made, out
<1>4. PassedOn(X, kv, sorted, made)
  BY <1>1, GenerateTokenIs DEF made
<1>5. /\ made = [cache |-> made.cache, answers |-> made.answers]
      /\ made.cache \in CachesOf(X)
      /\ \A l \in Lines : \A p \in Positions :
           made.cache[l][p] = IF p = sorted[l + 1].position THEN sorted[l + 1].token ELSE kv[l][p]
      /\ made.answers = [i \in 1..MaxBatch |->
           Append([p \in 1..sorted[i].position |-> kv[i - 1][p - 1]], sorted[i].token)]
  BY <1>4 DEF PassedOn
<1>6. out.cache = made.cache
  BY <1>3, <1>5
<1>7. ASSUME NEW i \in 1..MaxBatch
      PROVE  made.answers[rows[i].line + 1] =
               Append([p \in 1..rows[i].position |-> kv[rows[i].line][p - 1]], rows[i].token)
  <2>1. (rows[i].line + 1) - 1 = rows[i].line
    BY <1>0, <1>2 DEF Lines
  <2>2. made.answers[rows[i].line + 1] =
          Append([p \in 1..sorted[rows[i].line + 1].position |-> kv[(rows[i].line + 1) - 1][p - 1]],
                 sorted[rows[i].line + 1].token)
    BY <1>1, <1>5
  <2>3. sorted[rows[i].line + 1] = rows[i]
    BY <1>1
  <2> QED
    BY <2>1, <2>2, <2>3, Zenon
<1>8. out.answers = [i \in 1..MaxBatch |-> made.answers[rows[i].line + 1]]
  <2>1. CASE continuous
    BY <1>0, <1>3, <1>5, <2>1 DEF Restored
  <2>2. CASE ~continuous
    <3>1. \A i \in 1..MaxBatch : rows[i].line + 1 = i
      BY <1>0, <2>2 DEF Placed
    <3>2. made.answers = [i \in 1..MaxBatch |-> made.answers[i]]
      BY <1>5
    <3> QED
      BY <1>3, <2>2, <3>1, <3>2
  <2> QED
    BY <2>1, <2>2
<1>9. ASSUME NEW i \in 1..MaxBatch, NEW p \in Positions
      PROVE  out.cache[rows[i].line][p] =
               IF p = rows[i].position THEN rows[i].token ELSE kv[rows[i].line][p]
  BY <1>1, <1>2, <1>5, <1>6
<1>10. out = [cache |-> out.cache, answers |-> out.answers]
  BY <1>3, <1>5
<1> QED
  BY <1>5, <1>6, <1>7, <1>8, <1>9, <1>10 DEF out, Continued

\* A call of the token generation model is one batch, full or filled up.
Called(kv, continuous, rows) ==
  IF Len(rows) = MaxBatch
  THEN Forward(LAMBDA r : GenerateToken(kv, r), continuous, MaxBatch, rows)
  ELSE ForwardWithPad(LAMBDA r : GenerateToken(kv, r), TokenFiller, continuous, MaxBatch, rows)

\* A batch that is not full is filled up with rows of the lines that it does not name.
LEMMA CalledIs ==
  ASSUME NEW X, Zero \in X, NEW kv \in CachesOf(X), NEW rows \in Seq(TokenRows(X)),
         NEW n \in 1..MaxBatch, Len(rows) = n,
         MaxLength > 0, Spread(rows), NEW continuous \in BOOLEAN, ~continuous => Placed(rows)
  PROVE  Continued(X, kv, n, rows, Called(kv, continuous, rows))
<1>0. MaxBatch \in Nat /\ n \in Nat /\ MaxLength \in Nat
  BY ServingAssumption
<1>1. CASE n = MaxBatch
  <2>1. rows \in [1..MaxBatch -> TokenRows(X)]
    BY <1>0, <1>1
  <2>2. Called(kv, continuous, rows) = Forwarded(kv, continuous, rows)
    BY <1>1 DEF Called, Forwarded
  <2> QED
    BY <1>1, <2>1, <2>2, ForwardedIs
<1>2. CASE n # MaxBatch
  <2> DEFINE filler == [l \in Lines |-> TokenFiller(l)]
             all == Fill(rows, filler)
             whole == Forwarded(kv, continuous, all)
             out == Called(kv, continuous, rows)
  <2>1. filler \in [Lines -> TokenRows(X)] /\ \A l \in Lines : filler[l].line = l
    <3>1. \A l \in Lines : TokenFiller(l) \in TokenRows(X) /\ TokenFiller(l).line = l
      <4>1. 0 \in Positions
        BY <1>0 DEF Positions
      <4> QED
        BY <4>1 DEF TokenFiller, TokenRows
    <3> QED
      BY <3>1
  <2>2. Filled(rows, TokenFiller) = all
    <3>1. \A i \in DOMAIN UnusedLines(rows) : UnusedLines(rows)[i] \in Lines
      <4>1. DOMAIN rows = 1..n
        BY <1>0
      <4> QED
        BY <1>0, <4>1, UnusedLinesAre
    <3> QED
      BY <3>1 DEF Filled, Fill
  <2>3. out = [whole EXCEPT !.answers = SubSeq(whole.answers, 1, n)]
    BY <1>2, <2>2 DEF Called, Forwarded, ForwardWithPad
  <2> HIDE DEF filler, all
  <2>4. /\ all \in [1..MaxBatch -> TokenRows(X)] /\ \A i \in 1..n : all[i] = rows[i]
        /\ Spread(all) /\ (Placed(rows) => Placed(all))
    BY <2>1, FilledIs DEF all
  <2>5. Continued(X, kv, MaxBatch, all, whole)
    BY <2>4, ForwardedIs
  <2> HIDE DEF whole, out
  <2>6. /\ whole = [cache |-> whole.cache, answers |-> whole.answers]
        /\ whole.cache \in CachesOf(X)
        /\ \A i \in 1..MaxBatch : \A p \in Positions :
             whole.cache[all[i].line][p] =
               IF p = all[i].position THEN all[i].token ELSE kv[all[i].line][p]
        /\ whole.answers = [i \in 1..MaxBatch |->
             Append([p \in 1..all[i].position |-> kv[all[i].line][p - 1]], all[i].token)]
    BY <2>5 DEF Continued
  <2>7. SubSeq(whole.answers, 1, n) = [i \in 1..n |-> whole.answers[i]]
    <3> DEFINE s == whole.answers
               S == {s[i] : i \in 1..MaxBatch}
    <3>1. DOMAIN s = 1..MaxBatch /\ s = [i \in 1..MaxBatch |-> s[i]]
      BY <2>6
    <3> HIDE DEF s
    <3>2. s \in Seq(S) /\ Len(s) = MaxBatch
      BY <1>0, <3>1, ListIs
    <3> HIDE DEF S
    <3>3. SubSeq(s, 1, n) = [i \in 1..n |-> s[i]]
      BY <1>0, <3>2
    <3> QED
      BY <3>3 DEF s
  <2>8. \A i \in 1..n : i \in 1..MaxBatch /\ all[i] = rows[i]
    BY <1>0, <2>4
  <2>9. out.cache = whole.cache /\ out.answers = [i \in 1..n |-> whole.answers[i]]
        /\ out = [cache |-> out.cache, answers |-> out.answers]
    BY <2>3, <2>6, <2>7
  <2>10. out.answers = [i \in 1..n |->
           Append([p \in 1..rows[i].position |-> kv[rows[i].line][p - 1]], rows[i].token)]
    <3>1. \A i \in 1..n : whole.answers[i] =
            Append([p \in 1..all[i].position |-> kv[all[i].line][p - 1]], all[i].token)
      BY <2>6, <2>8
    <3>2. \A i \in 1..n : whole.answers[i] =
            Append([p \in 1..rows[i].position |-> kv[rows[i].line][p - 1]], rows[i].token)
      BY <2>8, <3>1
    <3> QED
      BY <2>9, <3>2
  <2>11. \A i \in 1..n : \A p \in Positions :
           out.cache[rows[i].line][p] =
             IF p = rows[i].position THEN rows[i].token ELSE kv[rows[i].line][p]
    <3>1. \A i \in 1..n : \A p \in Positions :
            whole.cache[all[i].line][p] =
              IF p = all[i].position THEN all[i].token ELSE kv[all[i].line][p]
      BY <2>6, <2>8
    <3>2. \A i \in 1..n : \A p \in Positions :
            whole.cache[rows[i].line][p] =
              IF p = rows[i].position THEN rows[i].token ELSE kv[rows[i].line][p]
      BY <2>8, <3>1
    <3> QED
      BY <2>9, <3>2
  <2> QED
    BY <2>6, <2>9, <2>10, <2>11 DEF out, Continued
<1> QED
  BY <1>1, <1>2

\* A call that fits in a batch is one batch.
LEMMA OneBatch ==
  ASSUME NEW T, NEW rows \in Seq(T), Len(rows) \in 1..MaxBatch
  PROVE  Len(Batches(MaxBatch, rows)) = 1 /\ Batches(MaxBatch, rows)[1] = rows
<1> DEFINE n == Len(rows)
<1>0. MaxBatch \in Nat \ {0} /\ n \in Nat /\ n >= 1 /\ n <= MaxBatch
  BY ServingAssumption
<1>1. (n + MaxBatch - 1) \div MaxBatch = 1
  <2>1. n + MaxBatch - 1 = MaxBatch * 1 + (n - 1) /\ n - 1 \in 0..(MaxBatch - 1)
    BY <1>0
  <2> QED
    BY <1>0, <2>1
<1>2. Min({1 * MaxBatch, n}) = n
  BY <1>0, LesserIs
<1>3. SubSeq(rows, (1 - 1) * MaxBatch + 1, n) = rows
  <2>1. (1 - 1) * MaxBatch + 1 = 1
    BY <1>0
  <2>2. SubSeq(rows, 1, n) = rows
    BY <1>0
  <2> QED
    BY <2>1, <2>2
<1>4. Batches(MaxBatch, rows) = [b \in 1..1 |-> SubSeq(rows, (b - 1) * MaxBatch + 1, Min({b * MaxBatch, n}))]
  BY <1>1 DEF Batches
<1>5. Batches(MaxBatch, rows)[1] = rows
  <2>1. 1 \in 1..1
    OBVIOUS
  <2>2. Batches(MaxBatch, rows)[1] = SubSeq(rows, (1 - 1) * MaxBatch + 1, Min({1 * MaxBatch, n}))
    BY <1>4, <2>1, Zenon
  <2> QED
    BY <1>2, <1>3, <2>2, Zenon
<1>6. Len(Batches(MaxBatch, rows)) = 1
  <2> DEFINE s == Batches(MaxBatch, rows)
  <2>1. DOMAIN s = 1..1 /\ s = [i \in 1..1 |-> s[i]]
    BY <1>4
  <2>2. \A i \in 1..1 : s[i] \in {rows}
    BY <1>5
  <2> HIDE DEF s
  <2>3. Len(s) = 1
    BY <2>1, <2>2, ListIs
  <2> QED
    BY <2>3 DEF s
<1> QED
  BY <1>5, <1>6

\* A call for tokens is one batch.
LEMMA TokenGenerationIs ==
  ASSUME NEW X, Zero \in X, NEW kv \in CachesOf(X), NEW rows \in Seq(TokenRows(X)),
         NEW n \in 1..MaxBatch, Len(rows) = n,
         MaxLength > 0, Spread(rows), NEW continuous \in BOOLEAN, ~continuous => Placed(rows)
  PROVE  Continued(X, kv, n, rows, TokenGenerationModel(kv, continuous, MaxBatch, rows))
<1> DEFINE batches == Batches(MaxBatch, rows)
           start == [cache |-> kv, answers |-> <<>>]
           Step(before, b) ==
             [cache |-> Called(before.cache, continuous, batches[b]).cache,
              answers |-> before.answers \o Called(before.cache, continuous, batches[b]).answers]
           Runs(f) == f = [b \in 0..Len(batches) |-> IF b = 0 THEN start ELSE Step(f[b - 1], b)]
           out == Called(kv, continuous, rows)
<1>1. Len(batches) = 1 /\ batches[1] = rows
  BY OneBatch
<1>2. TokenGenerationModel(kv, continuous, MaxBatch, rows) = (CHOOSE f : Runs(f))[Len(batches)]
  BY DEF TokenGenerationModel, InBatches, Called
<1>3. Runs([b \in 0..1 |-> IF b = 0 THEN start ELSE Step(start, 1)])
  <2> DEFINE f == [b \in 0..1 |-> IF b = 0 THEN start ELSE Step(start, 1)]
  <2> HIDE DEF start, Step
  <2>1. f = [b \in 0..1 |-> IF b = 0 THEN start ELSE Step(f[b - 1], b)]
    OBVIOUS
  <2> QED
    BY <1>1, <2>1
<1>4. PICK f : f = (CHOOSE g : Runs(g)) /\ Runs(f)
  <2> HIDE DEF Runs
  <2> QED
    BY <1>3
<1>5. f[1] = Step(start, 1)
  <2> HIDE DEF start, Step
  <2> QED
    BY <1>1, <1>4
<1>6. f[1] = [cache |-> out.cache, answers |-> <<>> \o out.answers]
  BY <1>1, <1>5
<1>7. Continued(X, kv, n, rows, out)
  BY CalledIs
<1> HIDE DEF out
<1>8. <<>> \o out.answers = out.answers
  <2> DEFINE s == out.answers
             S == {s[i] : i \in 1..n}
  <2>1. DOMAIN s = 1..n /\ s = [i \in 1..n |-> s[i]]
    BY <1>7 DEF Continued
  <2> HIDE DEF s
  <2>2. s \in Seq(S)
    <3>1. n \in Nat
      BY ServingAssumption
    <3>2. \A i \in 1..n : s[i] \in S
      OBVIOUS
    <3> HIDE DEF S
    <3> QED
      BY <2>1, <3>1, <3>2, ListIs
  <2> HIDE DEF S
  <2>3. <<>> \o s = s
    BY <2>2
  <2> QED
    BY <2>3 DEF s
<1>9. f[1] = out
  BY <1>6, <1>7, <1>8 DEF Continued
<1> QED
  BY <1>1, <1>2, <1>4, <1>7, <1>9

\* The prompt of a row is no longer than the kernel counts.
Counts(row) == CountedLength(row) >= row.length

\* What prompts become: each is in its own line and answered by itself; and lines that no
\* row names keep what they hold.
Encoded(X, n, rows, out) ==
  /\ out = [cache |-> out.cache, answers |-> out.answers]
  /\ out.cache \in CachesOf(X)
  /\ out.answers = [i \in 1..n |-> out.answers[i]]
  /\ \A i \in 1..n : Counts(rows[i]) =>
       /\ out.answers[i] = SubSeq(rows[i].tokens, 1, rows[i].length)
       /\ \A p \in Positions :
            p < rows[i].length => out.cache[rows[i].line][p] = rows[i].tokens[p + 1]

OthersKept(kv, n, rows, out) ==
  \A l \in Lines : (\A i \in 1..n : rows[i].line # l) => out.cache[l] = kv[l]

\* The model on the prompts of some lines.
LEMMA EncodeContextIs ==
  ASSUME NEW X, NEW kv \in CachesOf(X), NEW n \in 1..MaxBatch, NEW rows \in [1..n -> PromptRows(X)],
         Spread(rows), NEW continuous \in BOOLEAN, ~continuous => Placed(rows) /\ n = MaxBatch
  PROVE  /\ Encoded(X, n, rows, EncodeContext(kv, continuous, rows))
         /\ OthersKept(kv, n, rows, EncodeContext(kv, continuous, rows))
<1> DEFINE counted == {CountedLength(rows[i]) : i \in 1..n}
           bucket == ContextBucket(ContextBuckets, counted)
           out == EncodeContext(kv, continuous, rows)
<1>0. MaxBatch \in Nat /\ n \in Nat /\ n >= 1 /\ MaxContext \in Nat /\ MinBucket \in Nat \ {0} /\ DOMAIN rows = 1..n
  BY ServingAssumption
<1>1. \A i \in 1..n : /\ rows[i].line \in Lines /\ rows[i].length \in 1..MaxContext
                      /\ rows[i].tokens \in [1..MaxContext -> X]
  <2>1. \A i \in 1..n : rows[i] \in PromptRows(X)
    OBVIOUS
  <2> QED
    BY <2>1 DEF PromptRows
<1>2. MaxContext \in Nat \ {0}
  <2>1. rows[1].length \in 1..MaxContext
    BY <1>0, <1>1
  <2> QED
    BY <1>0, <2>1
<1>3. \A i \in 1..n : CountedLength(rows[i]) \in 0..MaxContext
  <2>1. ASSUME NEW i \in 1..n PROVE CountedLength(rows[i]) \in 0..MaxContext
    <3> DEFINE own == {c \in DOMAIN rows[i].tokens : rows[i].tokens[c] # Pad}
    <3>1. own \in SUBSET (1..MaxContext)
      BY <1>1
    <3>2. IsFiniteSet(1..MaxContext) /\ Cardinality(1..MaxContext) = MaxContext
      BY <1>2, FS_Interval
    <3> HIDE DEF own
    <3>3. Cardinality(own) \in Nat /\ Cardinality(own) <= MaxContext
      <4>1. IsFiniteSet(own) /\ Cardinality(own) <= Cardinality(1..MaxContext)
        BY <3>1, <3>2, FS_Subset
      <4> QED
        BY <3>2, <4>1, FS_CardinalityType
    <3> QED
      BY <1>2, <3>3 DEF CountedLength, own
  <2> QED
    BY <2>1
<1>4. counted \in SUBSET (0..MaxContext) /\ counted # {}
  <2>1. 1 \in 1..n
    BY <1>0
  <2> QED
    BY <1>3, <2>1
<1>5. bucket \in 0..MaxContext /\ \A i \in 1..n : bucket >= CountedLength(rows[i])
  <2> HIDE DEF counted
  <2>1. /\ ContextBucket(ContextBuckets, counted) \in 0..MaxContext
        /\ \A c \in counted : ContextBucket(ContextBuckets, counted) >= c
    BY <1>0, <1>2, <1>4, RoomForPrompts DEF ContextBuckets
  <2>2. \A i \in 1..n : CountedLength(rows[i]) \in counted
    BY DEF counted
  <2> QED
    BY <2>1, <2>2
<1>6. /\ out.cache = PrefillCache(kv, continuous, rows, bucket)
      /\ out.answers = [i \in 1..n |-> SubSeq(rows[i].tokens, 1, Min({rows[i].length, bucket}))]
      /\ out = [cache |-> out.cache, answers |-> out.answers]
  BY <1>0 DEF EncodeContext
<1> HIDE DEF bucket, out
<1>7. ASSUME NEW i \in 1..n, NEW p \in Positions
      PROVE  out.cache[rows[i].line][p] =
               IF p >= bucket THEN kv[rows[i].line][p] ELSE rows[i].tokens[p + 1]
  <2> DEFINE l == rows[i].line
  <2>1. l \in Lines
    BY <1>1
  <2>2. CASE continuous
    <3>1. {j \in DOMAIN rows : PrefillLine(rows, j) = l} = {i}
      BY <1>0 DEF Spread, PrefillLine
    <3>2. (CHOOSE j \in {i} : TRUE) = i
      OBVIOUS
    <3>3. out.cache[l][p] =
            IF p >= bucket THEN kv[l][p]
            ELSE LET writers == {j \in DOMAIN rows : PrefillLine(rows, j) = l}
                 IN IF writers = {} THEN kv[l][p]
                    ELSE rows[CHOOSE j \in writers : TRUE].tokens[p + 1]
      BY <1>6, <2>1, <2>2 DEF PrefillCache
    <3> QED
      BY <3>1, <3>2, <3>3
  <2>3. CASE ~continuous
    <3>1. l = i - 1 /\ l + 1 = i
      BY <1>0, <2>3 DEF Placed
    <3>2. out.cache[l][p] = IF p >= bucket THEN kv[l][p] ELSE rows[l + 1].tokens[p + 1]
      BY <1>6, <2>1, <2>3 DEF PrefillCache
    <3> QED
      BY <3>1, <3>2
  <2> QED
    BY <2>2, <2>3
<1>8. ASSUME NEW l \in Lines, \A i \in 1..n : rows[i].line # l
      PROVE  out.cache[l] = kv[l]
  <2>1. CASE continuous
    <3>1. {j \in DOMAIN rows : PrefillLine(rows, j) = l} = {}
      BY <1>0, <1>8 DEF PrefillLine
    <3>2. out.cache[l] = [p \in Positions |-> kv[l][p]]
      BY <1>6, <2>1, <3>1 DEF PrefillCache
    <3>3. kv[l] \in [Positions -> X]
      BY DEF CachesOf
    <3> QED
      BY <3>2, <3>3
  <2>2. CASE ~continuous
    <3>1. l + 1 \in 1..n /\ rows[l + 1].line = l
      BY <1>0, <2>2 DEF Placed, Lines
    <3> QED
      BY <1>8, <3>1
  <2> QED
    BY <2>1, <2>2
<1>9. out.cache \in CachesOf(X)
  <2>1. out.cache = [l \in Lines |-> [p \in Positions |-> out.cache[l][p]]]
    BY <1>6 DEF PrefillCache
  <2>2. ASSUME NEW l \in Lines, NEW p \in Positions PROVE out.cache[l][p] \in X
    <3>1. kv[l][p] \in X
      BY DEF CachesOf
    <3>2. CASE \A i \in 1..n : rows[i].line # l
      BY <1>8, <3>1, <3>2
    <3>3. CASE \E i \in 1..n : rows[i].line = l
      <4>1. PICK i \in 1..n : rows[i].line = l
        BY <3>3
      <4>2. ~(p >= bucket) => p + 1 \in 1..MaxContext
        BY <1>0, <1>5, ServingAssumption DEF Positions
      <4> QED
        BY <1>1, <1>7, <3>1, <4>1, <4>2
    <3> QED
      BY <3>2, <3>3
  <2> QED
    BY <2>1, <2>2 DEF CachesOf
<1>10. ASSUME NEW i \in 1..n, Counts(rows[i])
       PROVE  /\ out.answers[i] = SubSeq(rows[i].tokens, 1, rows[i].length)
              /\ \A p \in Positions :
                   p < rows[i].length => out.cache[rows[i].line][p] = rows[i].tokens[p + 1]
  <2>1. rows[i].length <= bucket /\ rows[i].length \in Nat /\ bucket \in Nat
    BY <1>1, <1>3, <1>5, <1>10 DEF Counts
  <2>2. Min({rows[i].length, bucket}) = rows[i].length
    BY <2>1, LesserIs
  <2>3. \A p \in Positions : p \in Int
    BY ServingAssumption DEF Positions
  <2>4. \A p \in Positions : p < rows[i].length => ~(p >= bucket)
    BY <2>1, <2>3
  <2> QED
    BY <1>6, <1>7, <2>2, <2>4
<1> QED
  BY <1>6, <1>8, <1>9, <1>10 DEF out, Encoded, OthersKept

\* Sorting the rows of a full batch and putting the answers back changes nothing.
PromptsForwarded(kv, continuous, rows) ==
  Forward(LAMBDA r : EncodeContext(kv, continuous, r), continuous, MaxBatch, rows)

\* _forward on a whole batch of prompts.
LEMMA PromptsForwardedIs ==
  ASSUME NEW X, NEW kv \in CachesOf(X), NEW rows \in [1..MaxBatch -> PromptRows(X)],
         Spread(rows), NEW continuous \in BOOLEAN, ~continuous => Placed(rows)
  PROVE  Encoded(X, MaxBatch, rows, PromptsForwarded(kv, continuous, rows))
<1> DEFINE sorted == Reordered(rows)
           made == EncodeContext(kv, TRUE, sorted)
           out == PromptsForwarded(kv, continuous, rows)
<1>0. MaxBatch \in Nat \ {0} /\ DOMAIN rows = 1..MaxBatch /\ MaxBatch \in 1..MaxBatch
  BY ServingAssumption
<1>1. CASE ~continuous
  <2>1. out = EncodeContext(kv, continuous, rows)
    BY <1>1 DEF PromptsForwarded, Forward
  <2> QED
    BY <1>0, <1>1, <2>1, EncodeContextIs
<1>2. CASE continuous
  <2>1. /\ sorted \in [1..MaxBatch -> PromptRows(X)]
        /\ \A i \in 1..MaxBatch : rows[i].line \in Lines /\ rows[i].line + 1 \in 1..MaxBatch
        /\ \A i \in 1..MaxBatch : sorted[rows[i].line + 1] = rows[i]
        /\ \A l \in Lines : \E i \in 1..MaxBatch : rows[i].line = l
    BY SortedIs
  <2>2. Placed(sorted)
    <3>1. ASSUME NEW j \in 1..MaxBatch PROVE sorted[j].line = j - 1
      <4>1. j - 1 \in Lines
        BY <1>0 DEF Lines
      <4>2. PICK i \in 1..MaxBatch : rows[i].line = j - 1
        BY <2>1, <4>1
      <4>3. rows[i].line + 1 = j
        BY <1>0, <4>2
      <4> QED
        BY <2>1, <4>2, <4>3
    <3>2. DOMAIN sorted = 1..MaxBatch
      BY <2>1
    <3> HIDE DEF sorted
    <3> QED
      BY <3>1, <3>2 DEF Placed
  <2>3. Spread(sorted)
    <3>1. DOMAIN sorted = 1..MaxBatch
      BY <2>1
    <3> HIDE DEF sorted
    <3> QED
      BY <1>0, <2>2, <3>1 DEF Placed, Spread, Lines
  <2>4. Encoded(X, MaxBatch, sorted, made)
    <3> HIDE DEF sorted
    <3>1. sorted \in [1..MaxBatch -> PromptRows(X)]
      BY <2>1
    <3> QED
      BY <1>0, <2>3, <3>1, EncodeContextIs DEF made
  <2>5. out = [made EXCEPT !.answers = Restored(rows, made.answers)]
    BY <1>2 DEF PromptsForwarded, Forward
  <2> HIDE DEF sorted, made, out
  <2>6. /\ made = [cache |-> made.cache, answers |-> made.answers]
        /\ made.cache \in CachesOf(X)
        /\ \A i \in 1..MaxBatch : Counts(sorted[i]) =>
             /\ made.answers[i] = SubSeq(sorted[i].tokens, 1, sorted[i].length)
             /\ \A p \in Positions :
                  p < sorted[i].length => made.cache[sorted[i].line][p] = sorted[i].tokens[p + 1]
    BY <2>4 DEF Encoded
  <2>7. /\ out = [cache |-> out.cache, answers |-> out.answers]
        /\ out.cache = made.cache
        /\ out.answers = [i \in 1..MaxBatch |-> made.answers[rows[i].line + 1]]
    BY <1>0, <2>5, <2>6 DEF Restored
  <2>8. ASSUME NEW i \in 1..MaxBatch, Counts(rows[i])
        PROVE  /\ out.answers[i] = SubSeq(rows[i].tokens, 1, rows[i].length)
               /\ \A p \in Positions :
                    p < rows[i].length => out.cache[rows[i].line][p] = rows[i].tokens[p + 1]
    <3>1. PICK j \in 1..MaxBatch : j = rows[i].line + 1 /\ sorted[j] = rows[i]
      BY <2>1
    <3>2. /\ made.answers[j] = SubSeq(rows[i].tokens, 1, rows[i].length)
          /\ \A p \in Positions :
               p < rows[i].length => made.cache[rows[i].line][p] = rows[i].tokens[p + 1]
      BY <2>6, <2>8, <3>1
    <3> QED
      BY <2>7, <3>1, <3>2
  <2>9. out.answers = [i \in 1..MaxBatch |-> out.answers[i]]
    BY <2>7
  <2> QED
    BY <2>6, <2>7, <2>8, <2>9 DEF out, Encoded
<1> QED
  BY <1>1, <1>2

\* A call of the context encoding model, in one batch, full or filled up.
PromptsCalled(kv, continuous, size, rows) ==
  IF Len(rows) = size
  THEN Forward(LAMBDA r : EncodeContext(kv, continuous, r), continuous, size, rows)
  ELSE ForwardWithPad(LAMBDA r : EncodeContext(kv, continuous, r), PromptFiller, continuous, size, rows)

\* A batch of prompts, full or filled up.
LEMMA PromptsCalledIs ==
  ASSUME NEW X, Zero \in X, NEW kv \in CachesOf(X), NEW rows \in Seq(PromptRows(X)),
         NEW n \in 1..MaxBatch, Len(rows) = n, Spread(rows),
         NEW continuous \in BOOLEAN, ~continuous => Placed(rows)
  PROVE  Encoded(X, n, rows, PromptsCalled(kv, continuous, MaxBatch, rows))
<1>0. MaxBatch \in Nat /\ n \in Nat /\ MaxContext \in Nat \ {0} /\ DOMAIN rows = 1..n
  <2>1. rows[1] \in PromptRows(X) /\ n \in Nat /\ n >= 1
    BY ServingAssumption
  <2>2. rows[1].length \in 1..MaxContext
    BY <2>1 DEF PromptRows
  <2>3. MaxContext \in Nat \ {0}
    BY <2>2, ServingAssumption
  <2>4. DOMAIN rows = 1..n
    OBVIOUS
  <2> QED
    BY <2>1, <2>3, <2>4, ServingAssumption
<1>1. CASE n = MaxBatch
  <2>1. rows \in [1..MaxBatch -> PromptRows(X)]
    BY <1>0, <1>1
  <2>2. PromptsCalled(kv, continuous, MaxBatch, rows) = PromptsForwarded(kv, continuous, rows)
    BY <1>1 DEF PromptsCalled, PromptsForwarded
  <2> QED
    BY <1>1, <2>1, <2>2, PromptsForwardedIs
<1>2. CASE n # MaxBatch
  <2> DEFINE filler == [l \in Lines |-> PromptFiller(l)]
             all == Fill(rows, filler)
             whole == PromptsForwarded(kv, continuous, all)
             out == PromptsCalled(kv, continuous, MaxBatch, rows)
  <2>1. filler \in [Lines -> PromptRows(X)] /\ \A l \in Lines : filler[l].line = l
    <3>1. \A l \in Lines : PromptFiller(l) \in PromptRows(X) /\ PromptFiller(l).line = l
      <4>1. 1 \in 1..MaxContext
        BY <1>0
      <4>2. [c \in 1..MaxContext |-> Zero] \in [1..MaxContext -> X]
        OBVIOUS
      <4> QED
        BY <4>1, <4>2 DEF PromptFiller, PromptRows
    <3> QED
      BY <3>1
  <2>2. Filled(rows, PromptFiller) = all
    <3>1. \A i \in DOMAIN UnusedLines(rows) : UnusedLines(rows)[i] \in Lines
      BY <1>0, UnusedLinesAre
    <3> QED
      BY <3>1 DEF Filled, Fill
  <2>3. out = [whole EXCEPT !.answers = SubSeq(whole.answers, 1, n)]
    BY <1>2, <2>2 DEF PromptsCalled, PromptsForwarded, ForwardWithPad
  <2> HIDE DEF filler, all
  <2>4. /\ all \in [1..MaxBatch -> PromptRows(X)] /\ \A i \in 1..n : all[i] = rows[i]
        /\ Spread(all) /\ (Placed(rows) => Placed(all))
    BY <2>1, FilledIs DEF all
  <2>5. Encoded(X, MaxBatch, all, whole)
    BY <2>4, PromptsForwardedIs
  <2> HIDE DEF whole, out
  <2>6. /\ whole = [cache |-> whole.cache, answers |-> whole.answers]
        /\ whole.cache \in CachesOf(X)
        /\ whole.answers = [i \in 1..MaxBatch |-> whole.answers[i]]
        /\ \A i \in 1..MaxBatch : Counts(all[i]) =>
             /\ whole.answers[i] = SubSeq(all[i].tokens, 1, all[i].length)
             /\ \A p \in Positions :
                  p < all[i].length => whole.cache[all[i].line][p] = all[i].tokens[p + 1]
    BY <2>5 DEF Encoded
  <2>7. SubSeq(whole.answers, 1, n) = [i \in 1..n |-> whole.answers[i]]
    <3> DEFINE s == whole.answers
               S == {s[i] : i \in 1..MaxBatch}
    <3>1. DOMAIN s = 1..MaxBatch /\ s = [i \in 1..MaxBatch |-> s[i]]
      BY <2>6
    <3> HIDE DEF s
    <3>2. s \in Seq(S) /\ Len(s) = MaxBatch
      BY <1>0, <3>1, ListIs
    <3> HIDE DEF S
    <3>3. SubSeq(s, 1, n) = [i \in 1..n |-> s[i]]
      BY <1>0, <3>2
    <3> QED
      BY <3>3 DEF s
  <2>8. \A i \in 1..n : i \in 1..MaxBatch /\ all[i] = rows[i]
    BY <1>0, <2>4
  <2>9. out.cache = whole.cache /\ out.answers = [i \in 1..n |-> whole.answers[i]]
        /\ out = [cache |-> out.cache, answers |-> out.answers]
    BY <2>3, <2>6, <2>7
  <2>10. ASSUME NEW i \in 1..n, Counts(rows[i])
         PROVE  /\ out.answers[i] = SubSeq(rows[i].tokens, 1, rows[i].length)
                /\ \A p \in Positions :
                     p < rows[i].length => out.cache[rows[i].line][p] = rows[i].tokens[p + 1]
    <3>1. i \in 1..MaxBatch /\ all[i] = rows[i]
      BY <2>8
    <3>2. /\ whole.answers[i] = SubSeq(rows[i].tokens, 1, rows[i].length)
          /\ \A p \in Positions :
               p < rows[i].length => whole.cache[rows[i].line][p] = rows[i].tokens[p + 1]
      BY <2>6, <2>10, <3>1
    <3> QED
      BY <2>9, <3>2
  <2>11. out.answers = [i \in 1..n |-> out.answers[i]]
    BY <2>9
  <2> QED
    BY <2>6, <2>9, <2>10, <2>11 DEF out, Encoded
<1> QED
  BY <1>1, <1>2

\* The batches of a call one after another on the same cache.
PromptStep(continuous, size, batches, before, b) ==
  [cache |-> PromptsCalled(before.cache, continuous, size, batches[b]).cache,
   answers |-> before.answers \o PromptsCalled(before.cache, continuous, size, batches[b]).answers]

PromptRuns(kv, continuous, size, batches, k, f) ==
  f = [b \in 0..k |-> IF b = 0 THEN [cache |-> kv, answers |-> <<>>]
                      ELSE PromptStep(continuous, size, batches, f[b - 1], b)]

\* The batches of a call run one after another.
LEMMA PromptRunsExist ==
  ASSUME NEW kv, NEW continuous, NEW size, NEW batches, NEW k \in Nat
  PROVE  \E f : PromptRuns(kv, continuous, size, batches, k, f)
<1> DEFINE start == [cache |-> kv, answers |-> <<>>]
           Step(before, b) == PromptStep(continuous, size, batches, before, b)
           Solves(m, f) == f = [b \in 0..m |-> IF b = 0 THEN start ELSE Step(f[b - 1], b)]
           Reached == {m \in Nat : \E f : Solves(m, f)}
<1> HIDE DEF start, Step
<1>1. 0 \in Reached
  <2>1. Solves(0, [b \in 0..0 |-> start])
    OBVIOUS
  <2> QED
    BY <2>1
<1>2. ASSUME NEW m \in Nat, m \in Reached PROVE m + 1 \in Reached
  <2>1. PICK f : Solves(m, f)
    BY <1>2
  <2> DEFINE g == [b \in 0..(m + 1) |-> IF b = m + 1 THEN Step(f[m], b) ELSE f[b]]
  <2>2. ASSUME NEW b \in 0..(m + 1) PROVE g[b] = IF b = 0 THEN start ELSE Step(g[b - 1], b)
    <3>1. CASE b = m + 1
      <4>1. g[b] = Step(f[m], b) /\ g[b - 1] = f[m] /\ b # 0
        BY <3>1
      <4> QED
        BY <3>1, <4>1
    <3>2. CASE b # m + 1
      <4>1. b \in 0..m /\ g[b] = f[b] /\ (b # 0 => g[b - 1] = f[b - 1])
        BY <3>2
      <4>2. f[b] = IF b = 0 THEN start ELSE Step(f[b - 1], b)
        BY <2>1, <4>1
      <4> QED
        BY <4>1, <4>2
    <3> QED
      BY <3>1, <3>2
  <2>3. g = [b \in 0..(m + 1) |-> g[b]]
    OBVIOUS
  <2> HIDE DEF g
  <2>4. Solves(m + 1, g)
    BY <2>2, <2>3
  <2> QED
    BY <2>4
<1>3. k \in Reached
  <2> HIDE DEF Reached
  <2> QED
    BY <1>1, <1>2, NatSetInduction
<1> QED
  BY <1>3 DEF PromptRuns, start, Step

\* What the context encoding model returns is the last of them.
LEMMA ContextEncodingRuns ==
  ASSUME NEW kv, NEW continuous, NEW size, NEW rows, Len(Batches(size, rows)) \in Nat
  PROVE  \E f : /\ PromptRuns(kv, continuous, size, Batches(size, rows), Len(Batches(size, rows)), f)
                /\ ContextEncodingModel(kv, continuous, size, rows) = f[Len(Batches(size, rows))]
<1> DEFINE batches == Batches(size, rows)
           Runs(f) == PromptRuns(kv, continuous, size, batches, Len(batches), f)
<1>1. ContextEncodingModel(kv, continuous, size, rows) = (CHOOSE f : Runs(f))[Len(batches)]
  BY DEF ContextEncodingModel, InBatches, PromptsCalled, PromptRuns, PromptStep
<1>2. \E f : Runs(f)
  BY PromptRunsExist
<1> HIDE DEF Runs
<1>3. Runs(CHOOSE f : Runs(f))
  BY <1>2
<1> QED
  BY <1>1, <1>3 DEF Runs

\* A model that encodes whole batches.
LEMMA WholeBatchEncoded ==
  ASSUME NEW X, Zero \in X, NEW kv \in CachesOf(X), NEW rows \in Seq(PromptRows(X)),
         NEW n \in 1..MaxBatch, Len(rows) = n, Spread(rows),
         NEW continuous \in BOOLEAN, ~continuous => Placed(rows)
  PROVE  Encoded(X, n, rows, ContextEncodingModel(kv, continuous, MaxBatch, rows))
<1> DEFINE out == PromptsCalled(kv, continuous, MaxBatch, rows)
           batches == Batches(MaxBatch, rows)
<1>1. Len(batches) = 1 /\ batches[1] = rows
  BY OneBatch
<1>2. PICK f : /\ PromptRuns(kv, continuous, MaxBatch, batches, 1, f)
               /\ ContextEncodingModel(kv, continuous, MaxBatch, rows) = f[1]
  <2>1. Len(batches) \in Nat
    BY <1>1
  <2>2. \E f : /\ PromptRuns(kv, continuous, MaxBatch, batches, Len(batches), f)
               /\ ContextEncodingModel(kv, continuous, MaxBatch, rows) = f[Len(batches)]
    BY <2>1, ContextEncodingRuns
  <2> HIDE DEF batches
  <2> QED
    BY <1>1, <2>2
<1> HIDE DEF batches
<1>3. f[0] = [cache |-> kv, answers |-> <<>>] /\ f[1] = PromptStep(continuous, MaxBatch, batches, f[0], 1)
  BY <1>2 DEF PromptRuns
<1>4. f[1] = [cache |-> out.cache, answers |-> <<>> \o out.answers]
  BY <1>1, <1>3 DEF PromptStep
<1>5. Encoded(X, n, rows, out)
  BY PromptsCalledIs
<1> HIDE DEF out
<1>6. <<>> \o out.answers = out.answers
  <2> DEFINE s == out.answers
             S == {s[i] : i \in 1..n}
  <2>1. DOMAIN s = 1..n /\ s = [i \in 1..n |-> s[i]]
    BY <1>5 DEF Encoded
  <2> HIDE DEF s
  <2>2. s \in Seq(S)
    <3>1. n \in Nat
      BY ServingAssumption
    <3>2. \A i \in 1..n : s[i] \in S
      OBVIOUS
    <3> HIDE DEF S
    <3> QED
      BY <2>1, <3>1, <3>2, ListIs
  <2> HIDE DEF S
  <2>3. <<>> \o s = s
    BY <2>2
  <2> QED
    BY <2>3 DEF s
<1>7. f[1] = out
  BY <1>4, <1>5, <1>6 DEF Encoded
<1> QED
  BY <1>2, <1>5, <1>7

\* A model that encodes row after row, for which no row is filled.
LEMMA RowsEncoded ==
  ASSUME NEW X, NEW kv \in CachesOf(X), NEW rows \in Seq(PromptRows(X)),
         NEW n \in 1..MaxBatch, Len(rows) = n, Spread(rows), MaxBatch # 1
  PROVE  /\ Encoded(X, n, rows, ContextEncodingModel(kv, TRUE, 1, rows))
         /\ OthersKept(kv, n, rows, ContextEncodingModel(kv, TRUE, 1, rows))
<1> DEFINE batches == Batches(1, rows)
<1>0. n \in Nat /\ MaxBatch \in Nat \ {0} /\ DOMAIN rows = 1..n
  BY ServingAssumption
<1>1. Len(batches) = n /\ \A b \in 1..n : batches[b] = <<rows[b]>>
  <2>1. (n + 1 - 1) \div 1 = n
    BY <1>0
  <2>2. batches = [b \in 1..n |-> SubSeq(rows, (b - 1) * 1 + 1, Min({b * 1, n}))]
    BY <2>1 DEF Batches
  <2>3. ASSUME NEW b \in 1..n PROVE batches[b] = <<rows[b]>>
    <3>1. (b - 1) * 1 + 1 = b /\ b * 1 = b /\ b \in Int /\ b <= n
      BY <1>0
    <3>2. Min({b, n}) = b
      BY <1>0, <3>1, LesserIs
    <3>3. SubSeq(rows, b, b) = <<rows[b]>>
      <4>1. SubSeq(rows, b, b) = [i \in 1..1 |-> rows[b]]
        <5>1. SubSeq(rows, b, b) = [i \in 1..(1 + b - b) |-> rows[i + b - 1]]
          BY <1>0
        <5>2. 1 + b - b = 1 /\ \A i \in 1..1 : i + b - 1 = b
          BY <1>0
        <5> QED
          BY <5>1, <5>2
      <4>2. <<rows[b]>> = [i \in 1..1 |-> rows[b]]
        OBVIOUS
      <4> QED
        BY <4>1, <4>2
    <3>4. batches[b] = SubSeq(rows, (b - 1) * 1 + 1, Min({b * 1, n}))
      BY <2>2, Zenon
    <3> QED
      BY <3>1, <3>2, <3>3, <3>4, Zenon
  <2>4. Len(batches) = n
    <3> DEFINE S == {batches[b] : b \in 1..n}
    <3>1. DOMAIN batches = 1..n /\ batches = [b \in 1..n |-> batches[b]]
      BY <2>2
    <3>2. \A b \in 1..n : batches[b] \in S
      OBVIOUS
    <3> HIDE DEF S, batches
    <3> QED
      BY <1>0, <3>1, <3>2, ListIs
  <2> QED
    BY <2>3, <2>4
<1>2. PICK f : /\ PromptRuns(kv, TRUE, 1, batches, n, f)
               /\ ContextEncodingModel(kv, TRUE, 1, rows) = f[n]
  <2>1. Len(batches) \in Nat
    BY <1>0, <1>1
  <2>2. \E f : /\ PromptRuns(kv, TRUE, 1, batches, Len(batches), f)
               /\ ContextEncodingModel(kv, TRUE, 1, rows) = f[Len(batches)]
    <3>1. ASSUME NEW continuous, NEW size, Len(Batches(size, rows)) \in Nat
          PROVE  \E f : /\ PromptRuns(kv, continuous, size, Batches(size, rows), Len(Batches(size, rows)), f)
                        /\ ContextEncodingModel(kv, continuous, size, rows) = f[Len(Batches(size, rows))]
      BY <3>1, ContextEncodingRuns
    <3> QED
      BY <2>1, <3>1, Zenon
  <2> HIDE DEF batches
  <2> QED
    BY <1>1, <2>2
<1> HIDE DEF batches
<1> DEFINE Good == {b \in Nat : b <= n => Encoded(X, b, rows, f[b]) /\ OthersKept(kv, b, rows, f[b])}
<1>3. 0 \in Good
  <2>1. f[0] = [cache |-> kv, answers |-> <<>>]
    BY <1>0, <1>2 DEF PromptRuns
  <2>2. Encoded(X, 0, rows, f[0])
    BY <2>1 DEF Encoded
  <2>3. OthersKept(kv, 0, rows, f[0])
    BY <2>1 DEF OthersKept
  <2> QED
    BY <2>2, <2>3
<1>4. ASSUME NEW b \in Nat, b \in Good, b + 1 <= n
      PROVE  Encoded(X, b + 1, rows, f[b + 1]) /\ OthersKept(kv, b + 1, rows, f[b + 1])
  <2> DEFINE c == f[b].cache
             row == rows[b + 1]
             out == EncodeContext(c, TRUE, <<row>>)
             next == f[b + 1]
  <2>0. b + 1 \in 1..n /\ b \in 0..n /\ b <= n /\ (b + 1) - 1 = b
    BY <1>0, <1>4
  <2>1. Encoded(X, b, rows, f[b]) /\ OthersKept(kv, b, rows, f[b])
    BY <1>4, <2>0
  <2>2. c \in CachesOf(X) /\ row \in PromptRows(X) /\ row.line \in Lines
    BY <1>0, <2>0, <2>1 DEF Encoded, Spread
  <2>3. Encoded(X, 1, <<row>>, out) /\ OthersKept(c, 1, <<row>>, out)
    <3> DEFINE one == <<row>>
    <3>1. one \in [1..1 -> PromptRows(X)] /\ 1 \in 1..MaxBatch /\ DOMAIN one = 1..1 /\ one[1] = row
      BY <1>0, <2>2
    <3> HIDE DEF one, row, c
    <3>2. Spread(one)
      BY <2>2, <3>1 DEF Spread
    <3>3. TRUE \in BOOLEAN
      OBVIOUS
    <3> QED
      BY <2>2, <3>1, <3>2, <3>3, EncodeContextIs DEF one
  <2>4. PromptsCalled(c, TRUE, 1, <<row>>) = out
    BY DEF PromptsCalled, Forward
  <2>5. next = [cache |-> out.cache, answers |-> f[b].answers \o out.answers]
    <3>1. next = PromptStep(TRUE, 1, batches, f[b], b + 1)
      BY <1>2, <2>0 DEF PromptRuns
    <3>2. batches[b + 1] = <<row>>
      BY <1>1, <2>0
    <3> QED
      BY <2>4, <3>1, <3>2 DEF PromptStep
  <2>6. next = [cache |-> next.cache, answers |-> next.answers] /\ next.cache = out.cache
    BY <2>5
  <2>7. /\ next.answers = [i \in 1..(b + 1) |-> next.answers[i]]
        /\ \A i \in 1..b : next.answers[i] = f[b].answers[i]
        /\ next.answers[b + 1] = out.answers[1]
    <3> DEFINE s == f[b].answers
               t == out.answers
               S == {s[i] : i \in 1..b} \cup {t[1]}
    <3>1. DOMAIN s = 1..b /\ s = [i \in 1..b |-> s[i]] /\ DOMAIN t = 1..1 /\ t = [i \in 1..1 |-> t[i]]
      BY <2>1, <2>3 DEF Encoded
    <3>2. next.answers = s \o t
      <4> HIDE DEF next, out, c
      <4> QED
        BY <2>5
    <3> HIDE DEF s, t, next
    <3>3. (\A i \in 1..b : s[i] \in S) /\ \A i \in 1..1 : t[i] \in S
      OBVIOUS
    <3> HIDE DEF S
    <3>4. s \in Seq(S) /\ Len(s) = b
      BY <3>1, <3>3, ListIs
    <3>5. t \in Seq(S) /\ Len(t) = 1
      BY <3>1, <3>3, ListIs
    <3>6. /\ s \o t \in Seq(S) /\ Len(s \o t) = b + 1
          /\ \A i \in 1..b : (s \o t)[i] = s[i]
          /\ (s \o t)[b + 1] = t[1]
      <4>0. ASSUME NEW u \in Seq(S), NEW v \in Seq(S)
            PROVE  /\ u \o v \in Seq(S) /\ Len(u \o v) = Len(u) + Len(v)
                   /\ \A i \in 1..Len(u) : (u \o v)[i] = u[i]
                   /\ \A j \in 1..Len(v) : (u \o v)[Len(u) + j] = v[j]
        BY Joined
      <4>1. /\ s \o t \in Seq(S) /\ Len(s \o t) = Len(s) + Len(t)
            /\ \A i \in 1..Len(s) : (s \o t)[i] = s[i]
            /\ \A j \in 1..Len(t) : (s \o t)[Len(s) + j] = t[j]
        BY <3>4, <3>5, <4>0, Zenon
      <4>2. 1 \in 1..1
        OBVIOUS
      <4> QED
        BY <3>4, <3>5, <4>1, <4>2
    <3>7. \A u \in Seq(S) : u = [i \in 1..Len(u) |-> u[i]]
      OBVIOUS
    <3>8. s \o t = [i \in 1..(b + 1) |-> (s \o t)[i]]
      BY <3>6, <3>7, Zenon
    <3> QED
      BY <3>2, <3>6, <3>8 DEF s, t
  <2>8. ASSUME NEW l \in Lines, row.line # l PROVE next.cache[l] = c[l]
    <3>1. \A i \in 1..1 : <<row>>[i].line # l
      BY <2>8
    <3> QED
      BY <2>3, <2>6, <3>1 DEF OthersKept
  <2>9. ASSUME NEW i \in 1..(b + 1), Counts(rows[i])
        PROVE  /\ next.answers[i] = SubSeq(rows[i].tokens, 1, rows[i].length)
               /\ \A p \in Positions :
                    p < rows[i].length => next.cache[rows[i].line][p] = rows[i].tokens[p + 1]
    <3>1. CASE i = b + 1
      <4>1. rows[i] = row
        BY <3>1
      <4>2. /\ out.answers[1] = SubSeq(row.tokens, 1, row.length)
            /\ \A p \in Positions : p < row.length => out.cache[row.line][p] = row.tokens[p + 1]
        <5>1. <<row>>[1] = row /\ 1 \in 1..1
          OBVIOUS
        <5>2. Counts(row)
          BY <2>9, <4>1
        <5> HIDE DEF row, out
        <5> QED
          BY <2>3, <5>1, <5>2 DEF Encoded
      <4> HIDE DEF row, out, next
      <4> QED
        BY <2>6, <2>7, <3>1, <4>1, <4>2
    <3>2. CASE i # b + 1
      <4>1. i \in 1..b /\ i \in 1..n
        BY <2>0, <3>2
      <4>2. rows[i].line \in Lines /\ row.line # rows[i].line
        BY <1>0, <2>0, <3>2, <4>1 DEF Spread
      <4>3. next.cache[rows[i].line] = c[rows[i].line]
        BY <2>8, <4>2
      <4>4. /\ f[b].answers[i] = SubSeq(rows[i].tokens, 1, rows[i].length)
            /\ \A p \in Positions : p < rows[i].length => c[rows[i].line][p] = rows[i].tokens[p + 1]
        BY <2>1, <2>9, <4>1 DEF Encoded
      <4> HIDE DEF row, out, next, c
      <4> QED
        BY <2>7, <4>1, <4>3, <4>4
    <3> QED
      BY <3>1, <3>2
  <2>10. next.cache \in CachesOf(X)
    BY <2>3, <2>6 DEF Encoded
  <2>11. ASSUME NEW l \in Lines, \A i \in 1..(b + 1) : rows[i].line # l PROVE next.cache[l] = kv[l]
    <3>1. row.line # l /\ \A i \in 1..b : rows[i].line # l
      BY <2>0, <2>11
    <3> QED
      BY <2>1, <2>8, <3>1 DEF OthersKept
  <2> HIDE DEF next
  <2>12. Encoded(X, b + 1, rows, next)
    BY <2>6, <2>7, <2>9, <2>10 DEF Encoded
  <2>13. OthersKept(kv, b + 1, rows, next)
    BY <2>11 DEF OthersKept
  <2> QED
    BY <2>12, <2>13 DEF next
<1>5. n \in Good
  <2>1. \A b \in Nat : b \in Good => b + 1 \in Good
    <3> SUFFICES ASSUME NEW b \in Nat, b \in Good, b + 1 <= n
                 PROVE  Encoded(X, b + 1, rows, f[b + 1]) /\ OthersKept(kv, b + 1, rows, f[b + 1])
      OBVIOUS
    <3> HIDE DEF Good
    <3> QED
      BY <1>4
  <2> HIDE DEF Good
  <2> QED
    BY <1>0, <1>3, <2>1, NatSetInduction
<1>6. Encoded(X, n, rows, f[n]) /\ OthersKept(kv, n, rows, f[n])
  BY <1>0, <1>5
<1> HIDE DEF Good
<1> QED
  BY <1>2, <1>6, Zenon

------------------------------------------------------------------------------
(* Served requests *)

ServedTokens == {Zero, Pad} \cup (Requests \X Positions)

ServingTypeOK ==
  /\ config \in [continuous : BOOLEAN, contextBatch : ContextBatches]
  /\ config.continuous = FALSE => config.contextBatch = MaxBatch
  /\ arrived \in 0..MaxRequests
  /\ Live \in SUBSET (1..arrived)
  /\ lineOf \in [Live -> Lines]
  /\ length \in [Live -> 1..MaxLength]
  /\ cache \in CachesOf(ServedTokens)

\* Requests have lines of their own.
OwnLines == \A q, r \in Live : lineOf[q] = lineOf[r] => q = r

ServingInv == ServingTypeOK /\ OwnLines /\ CacheHoldsOwnTokens

\* What the caller gets for a request is what the cache holds of it: its own tokens.
Contexts == [r \in Live |-> [i \in 1..length[r] |-> cache[lineOf[r]][i - 1]]]

\* They are the requests' own tokens.
LEMMA ContextsAre ==
  ASSUME ServingInv
  PROVE  Contexts = [r \in Live |-> Prompt(r, length[r])]
<1>1. ASSUME NEW r \in Live, NEW i \in 1..length[r] PROVE cache[lineOf[r]][i - 1] = Token(r, i - 1)
  <2>1. length[r] \in Nat /\ i - 1 \in 0..(length[r] - 1)
    BY ServingAssumption DEF ServingInv, ServingTypeOK
  <2> QED
    BY <2>1 DEF ServingInv, CacheHoldsOwnTokens
<1>2. ASSUME NEW r \in Live
      PROVE  [i \in 1..length[r] |-> cache[lineOf[r]][i - 1]] = Prompt(r, length[r])
  BY <1>1 DEF Prompt
<1> QED
  BY <1>2 DEF Contexts

\* An order of a set names each of its members once.
LEMMA OrdersAre ==
  ASSUME NEW S, IsFiniteSet(S), NEW s \in Orders(S)
  PROVE  /\ Cardinality(S) \in Nat /\ s \in [1..Cardinality(S) -> S]
         /\ \A i, j \in 1..Cardinality(S) : s[i] = s[j] => i = j
         /\ \A x \in S : \E i \in 1..Cardinality(S) : s[i] = x
         /\ s \in Seq(S) /\ Len(s) = Cardinality(S) /\ DOMAIN s = 1..Cardinality(S)
<1> DEFINE n == Cardinality(S)
<1>1. n \in Nat
  BY FS_CardinalityType
<1>2. s \in [1..n -> S] /\ \A i, j \in 1..n : s[i] = s[j] => i = j
  BY DEF Orders, SetToSeqs
<1>3. IsFiniteSet(1..n) /\ Cardinality(1..n) = n
  BY <1>1, FS_Interval
<1> HIDE DEF n
<1>4. s \in Injection(1..n, S)
  BY <1>2 DEF Injection, IsInjective
<1>5. s \in Surjection(1..n, S)
  BY <1>3, <1>4, FS_Injection DEF n
<1>6. \A x \in S : \E i \in 1..n : s[i] = x
  BY <1>5 DEF Surjection
<1>7. s \in Seq(S) /\ Len(s) = n /\ DOMAIN s = 1..n
  BY <1>1, <1>2
<1> QED
  BY <1>1, <1>2, <1>6, <1>7 DEF n

\* No more requests are served than there are lines.
LEMMA LiveFits ==
  ASSUME ServingInv
  PROVE  IsFiniteSet(Live) /\ Cardinality(Live) \in 0..MaxBatch
<1>1. IsFiniteSet(Lines) /\ Cardinality(Lines) = MaxBatch /\ MaxBatch \in Nat
  <2>1. MaxBatch \in Nat /\ MaxBatch - 1 \in Int /\ (MaxBatch - 1) - 0 + 1 = MaxBatch
        /\ (0 > MaxBatch - 1 => MaxBatch = 0)
    BY ServingAssumption
  <2>2. IsFiniteSet(0..(MaxBatch - 1)) /\ Cardinality(0..(MaxBatch - 1)) = MaxBatch
    BY <2>1, FS_Interval
  <2> QED
    BY <2>1, <2>2 DEF Lines
<1>2. lineOf \in Injection(Live, Lines)
  BY DEF ServingInv, ServingTypeOK, OwnLines, Injection, IsInjective
<1>3. IsFiniteSet(Live) /\ Cardinality(Live) <= MaxBatch
  BY <1>1, <1>2, FS_Injection
<1> QED
  BY <1>1, <1>3, FS_CardinalityType

\* A decode appends one token of its own to each request's line and answers in the order
\* of the call.
LEMMA DecodeIs ==
  ASSUME ServingInv, NEW rs \in Orders(Live), Decode(rs)
  PROVE  /\ cache' \in CachesOf(ServedTokens)
         /\ \A r \in Live : \A p \in Positions :
              cache'[lineOf[r]][p] = IF p = length[r] THEN Token(r, p) ELSE cache[lineOf[r]][p]
         /\ answered' = [i \in DOMAIN rs |-> <<rs[i], Prompt(rs[i], length[rs[i]] + 1)>>]
<1> DEFINE n == Cardinality(Live)
           rows == [i \in DOMAIN rs |->
                      [line |-> lineOf[rs[i]], token |-> Token(rs[i], length[rs[i]]),
                       position |-> length[rs[i]]]]
           out == TokenGenerationModel(cache, config.continuous, MaxBatch, rows)
<1>1. /\ n \in 0..MaxBatch /\ rs \in [1..n -> Live] /\ DOMAIN rs = 1..n /\ Len(rs) = n
      /\ \A i, j \in 1..n : rs[i] = rs[j] => i = j
      /\ \A r \in Live : \E i \in 1..n : rs[i] = r
  BY LiveFits, OrdersAre
<1>2. /\ MaxBatch \in Nat /\ MaxLength \in Nat /\ rs # <<>> /\ \A r \in Live : length[r] < MaxLength
      /\ ~config.continuous => \A i \in DOMAIN rs : lineOf[rs[i]] = i - 1
  BY ServingAssumption DEF Decode, MayDecode
<1>3. n \in 1..MaxBatch
  <2>1. n # 0
    <3>1. ASSUME n = 0 PROVE rs = <<>>
      BY <1>1, <3>1
    <3> QED
      BY <1>2, <3>1
  <2> QED
    BY <1>1, <1>2, <2>1
<1>4. cache' = out.cache /\ answered' = [i \in DOMAIN rs |-> <<rs[i], out.answers[i]>>]
  BY DEF Decode
<1> HIDE DEF n
<1>5. ASSUME NEW r \in Live
      PROVE  /\ lineOf[r] \in Lines /\ length[r] \in Positions /\ length[r] \in Nat
             /\ Token(r, length[r]) \in ServedTokens
  <2>1. length[r] \in Nat /\ length[r] < MaxLength /\ lineOf[r] \in Lines
    BY <1>2 DEF ServingInv, ServingTypeOK
  <2>2. r \in Requests
    BY ServingAssumption DEF ServingInv, ServingTypeOK, Requests
  <2>3. length[r] \in Positions
    BY <1>2, <2>1 DEF Positions
  <2> QED
    BY <2>1, <2>2, <2>3 DEF ServedTokens, Token
<1>6. /\ DOMAIN rows = 1..n
      /\ \A i \in 1..n : /\ rows[i].line = lineOf[rs[i]] /\ rows[i].position = length[rs[i]]
                         /\ rows[i].token = Token(rs[i], length[rs[i]])
                         /\ rows[i] \in TokenRows(ServedTokens)
  <2>1. ASSUME NEW i \in 1..n PROVE rows[i] \in TokenRows(ServedTokens)
    <3>1. rs[i] \in Live
      BY <1>1
    <3> QED
      BY <1>1, <1>5, <3>1 DEF TokenRows
  <2> QED
    BY <1>1, <2>1
<1>7. rows = [i \in 1..n |-> rows[i]]
  BY <1>1
<1> HIDE DEF rows
<1>8. rows \in Seq(TokenRows(ServedTokens)) /\ Len(rows) = n
  <2>1. n \in Nat
    BY <1>2, <1>3
  <2> QED
    BY <1>6, <1>7, <2>1, ListIs
<1>9. Spread(rows)
  <2>1. \A i \in 1..n : rs[i] \in Live
    BY <1>1
  <2>2. \A i \in 1..n : rows[i].line \in Lines
    BY <1>5, <1>6, <2>1
  <2>3. \A i, j \in 1..n : rows[i].line = rows[j].line => i = j
    BY <1>1, <1>6, <2>1 DEF ServingInv, OwnLines
  <2> QED
    BY <1>6, <2>2, <2>3 DEF Spread
<1>10. ~config.continuous => Placed(rows)
  BY <1>1, <1>2, <1>6 DEF Placed
<1>11. Continued(ServedTokens, cache, n, rows, out)
  <2>1. config.continuous \in BOOLEAN /\ cache \in CachesOf(ServedTokens) /\ Zero \in ServedTokens
    BY DEF ServingInv, ServingTypeOK, ServedTokens
  <2>2. MaxLength > 0
    <3>1. 1 \in 1..n
      BY <1>2, <1>3
    <3>2. length[rs[1]] \in Nat /\ length[rs[1]] < MaxLength
      BY <1>1, <1>2, <1>5, <3>1
    <3> QED
      BY <1>2, <3>2
  <2> QED
    BY <1>3, <1>8, <1>9, <1>10, <2>1, <2>2, TokenGenerationIs
<1> HIDE DEF out
<1>12. ASSUME NEW r \in Live, NEW p \in Positions
       PROVE  cache'[lineOf[r]][p] = IF p = length[r] THEN Token(r, p) ELSE cache[lineOf[r]][p]
  <2>1. PICK i \in 1..n : rs[i] = r
    BY <1>1
  <2>2. out.cache[rows[i].line][p] =
          IF p = rows[i].position THEN rows[i].token ELSE cache[rows[i].line][p]
    BY <1>11 DEF Continued
  <2> QED
    BY <1>4, <1>6, <2>1, <2>2
<1>13. ASSUME NEW i \in 1..n PROVE out.answers[i] = Prompt(rs[i], length[rs[i]] + 1)
  <2> DEFINE r == rs[i]
  <2>1. r \in Live /\ length[r] \in Nat
    BY <1>1, <1>5
  <2>2. out.answers[i] = Append([p \in 1..length[r] |-> cache[lineOf[r]][p - 1]], Token(r, length[r]))
    <3>1. out.answers[i] = Append([p \in 1..rows[i].position |-> cache[rows[i].line][p - 1]], rows[i].token)
      BY <1>11 DEF Continued
    <3> QED
      BY <1>6, <3>1
  <2>3. [p \in 1..length[r] |-> cache[lineOf[r]][p - 1]] = Prompt(r, length[r])
    <3>1. Contexts[r] = Prompt(r, length[r])
      BY <2>1, ContextsAre
    <3> QED
      BY <2>1, <3>1 DEF Contexts
  <2>4. Append(Prompt(r, length[r]), Token(r, length[r])) = Prompt(r, length[r] + 1)
    <3> DEFINE S == {Token(r, p) : p \in Nat}
               m == length[r]
               s == Prompt(r, m)
    <3>1. DOMAIN s = 1..m /\ s = [p \in 1..m |-> s[p]] /\ \A p \in 1..m : s[p] = Token(r, p - 1) /\ s[p] \in S
      BY <2>1 DEF Prompt
    <3> HIDE DEF s, S, m
    <3>2. s \in Seq(S) /\ Len(s) = m
      BY <2>1, <3>1, ListIs DEF m
    <3>3. Append(s, Token(r, m)) = [p \in 1..(m + 1) |-> IF p <= m THEN s[p] ELSE Token(r, m)]
      BY <2>1, <3>2 DEF m
    <3>4. \A p \in 1..(m + 1) : (IF p <= m THEN s[p] ELSE Token(r, m)) = Token(r, p - 1)
      BY <2>1, <3>1 DEF m
    <3> QED
      BY <3>3, <3>4 DEF Prompt, s, m
  <2> QED
    BY <2>2, <2>3, <2>4
<1>14. answered' = [i \in DOMAIN rs |-> <<rs[i], Prompt(rs[i], length[rs[i]] + 1)>>]
  BY <1>1, <1>4, <1>13
<1>15. cache' \in CachesOf(ServedTokens)
  BY <1>4, <1>11 DEF Continued
<1> QED
  BY <1>12, <1>14, <1>15

\* What an admission does: each new request's prompt goes into its line and is its answer,
\* and the lines of the others are left alone.
Admitted(n, lines, lengths) ==
  /\ DOMAIN lines = 1..n /\ Len(lines) = n /\ arrived + n <= MaxRequests
  /\ \A i \in 1..n : /\ lines[i] \in Lines /\ lengths[i] \in PromptLengths
                     /\ lengths[i] \in 2..MaxContext
  /\ \A i, j \in 1..n : lines[i] = lines[j] => i = j
  /\ \A i \in 1..n : \A r \in Live : lines[i] # lineOf[r]
  /\ cache' \in CachesOf(ServedTokens)
  /\ \A i \in 1..n : \A p \in 0..(lengths[i] - 1) : cache'[lines[i]][p] = Token(arrived + i, p)
  /\ \A r \in Live : cache'[lineOf[r]] = cache[lineOf[r]]
  /\ answered' = [i \in 1..n |-> <<arrived + i, Prompt(arrived + i, lengths[i])>>]

\* An admission does that.
LEMMA AdmitIs ==
  ASSUME ServingInv, NEW L \in SUBSET Lines, L # {}, NEW lines \in Orders(L),
         NEW lengths \in [DOMAIN lines -> PromptLengths], Admit(lines, lengths)
  PROVE  \E n \in 1..MaxBatch : Admitted(n, lines, lengths)
<1> DEFINE n == Cardinality(L)
           rows == [i \in DOMAIN lines |-> PromptRow(lines[i], Prompt(arrived + i, lengths[i]))]
           out == ContextEncodingModel(cache, config.continuous, config.contextBatch, rows)
<1>0. /\ MaxBatch \in Nat \ {0} /\ MaxContext \in Nat /\ MaxLength \in Nat /\ MaxContext <= MaxLength
      /\ MaxRequests \in Nat /\ arrived \in Nat /\ PromptLengths \in SUBSET (2..MaxContext)
  BY ServingAssumption DEF ServingInv, ServingTypeOK
<1>1. IsFiniteSet(L) /\ n \in 1..MaxBatch
  <2>1. IsFiniteSet(Lines) /\ Cardinality(Lines) = MaxBatch
    <3>1. MaxBatch - 1 \in Int /\ (MaxBatch - 1) - 0 + 1 = MaxBatch /\ ~(0 > MaxBatch - 1)
      BY <1>0
    <3> QED
      BY <1>0, <3>1, FS_Interval DEF Lines
  <2>2. IsFiniteSet(L) /\ Cardinality(L) <= MaxBatch
    BY <2>1, FS_Subset
  <2>3. Cardinality(L) \in Nat /\ Cardinality(L) # 0
    BY <2>2, FS_CardinalityType, FS_EmptySet
  <2> QED
    BY <1>0, <2>2, <2>3
<1>2. /\ lines \in [1..n -> L] /\ DOMAIN lines = 1..n /\ Len(lines) = n
      /\ \A i, j \in 1..n : lines[i] = lines[j] => i = j
  BY <1>1, OrdersAre
<1> HIDE DEF n
<1>3. /\ arrived + n <= MaxRequests /\ MayAdmit(lines)
      /\ cache' = out.cache
      /\ answered' = [i \in 1..n |-> <<arrived + i, out.answers[i]>>]
  BY <1>2 DEF Admit
<1>4. ASSUME NEW i \in 1..n
      PROVE  /\ lines[i] \in Lines /\ lengths[i] \in PromptLengths /\ lengths[i] \in 2..MaxContext
             /\ arrived + i \in Requests /\ lengths[i] \in 1..MaxContext /\ lengths[i] <= MaxLength
  <2>1. i \in Nat /\ i >= 1 /\ i <= n /\ n \in Nat /\ arrived + n <= MaxRequests
    BY <1>1, <1>3
  <2>2. arrived + i \in Requests
    BY <1>0, <2>1 DEF Requests
  <2>3. lines[i] \in Lines
    BY <1>2
  <2>4. lengths[i] \in PromptLengths
    BY <1>2
  <2>5. lengths[i] \in 2..MaxContext
    BY <1>0, <2>4
  <2> QED
    BY <1>0, <2>2, <2>3, <2>4, <2>5
<1>5. ASSUME NEW i \in 1..n
      PROVE  /\ rows[i] \in PromptRows(ServedTokens)
             /\ rows[i].line = lines[i] /\ rows[i].length = lengths[i]
             /\ \A c \in 1..lengths[i] : rows[i].tokens[c] = Token(arrived + i, c - 1)
             /\ Counts(rows[i])
  <2> DEFINE q == arrived + i
             m == lengths[i]
             prompt == Prompt(q, m)
             tokens == [c \in 1..MaxContext |-> IF c <= m THEN prompt[c] ELSE Pad]
  <2>1. /\ q \in Requests /\ m \in 1..MaxContext /\ m \in Nat /\ m <= MaxLength
        /\ m <= MaxContext /\ lines[i] \in Lines
    BY <1>0, <1>4
  <2>2. Len(prompt) = m /\ \A c \in 1..m : prompt[c] = Token(q, c - 1)
    <3> HIDE DEF q, m
    <3>1. DOMAIN prompt = 1..m /\ prompt = [c \in 1..m |-> prompt[c]]
          /\ \A c \in 1..m : prompt[c] = Token(q, c - 1)
      BY DEF Prompt
    <3> DEFINE S == {prompt[c] : c \in 1..m}
    <3>2. \A c \in 1..m : prompt[c] \in S
      OBVIOUS
    <3> HIDE DEF S, prompt
    <3> QED
      BY <2>1, <3>1, <3>2, ListIs
  <2>3. rows[i] = [line |-> lines[i], length |-> m, tokens |-> tokens]
    BY <1>2, <2>2 DEF PromptRow
  <2> HIDE DEF q, m, prompt
  <2>4. \A c \in 1..m : c - 1 \in Positions /\ Token(q, c - 1) \in ServedTokens /\ Token(q, c - 1) # Pad
    <3>1. \A c \in 1..m : c - 1 \in Positions
      BY <1>0, <2>1 DEF Positions
    <3>2. \A p \in Positions : Token(q, p) # Pad
      BY <2>1, ServingAssumption DEF Token, Requests
    <3>3. \A p \in Positions : Token(q, p) \in ServedTokens
      BY <2>1 DEF ServedTokens, Token
    <3> QED
      BY <3>1, <3>2, <3>3
  <2>5. tokens \in [1..MaxContext -> ServedTokens]
    <3>1. ASSUME NEW c \in 1..MaxContext
          PROVE  (IF c <= m THEN prompt[c] ELSE Pad) \in ServedTokens
      <4>1. CASE c <= m
        <5>1. c \in 1..m
          BY <1>0, <4>1
        <5> QED
          BY <2>2, <2>4, <4>1, <5>1
      <4>2. CASE ~(c <= m)
        BY <4>2 DEF ServedTokens
      <4> QED
        BY <4>1, <4>2
    <3> QED
      BY <3>1
  <2>6. \A c \in 1..m : c \in 1..MaxContext /\ tokens[c] = Token(q, c - 1)
    BY <1>0, <2>1, <2>2
  <2>7. \A c \in 1..MaxContext : tokens[c] # Pad <=> c \in 1..m
    <3>1. ASSUME NEW c \in 1..MaxContext, c \in 1..m PROVE tokens[c] # Pad
      BY <2>4, <2>6, <3>1
    <3>2. ASSUME NEW c \in 1..MaxContext, ~(c \in 1..m) PROVE tokens[c] = Pad
      <4>1. ~(c <= m)
        BY <1>0, <2>1, <3>2
      <4> QED
        BY <4>1
    <3> QED
      BY <3>1, <3>2
  <2>8. DOMAIN tokens = 1..MaxContext
    OBVIOUS
  <2> HIDE DEF tokens
  <2>9. {c \in DOMAIN tokens : tokens[c] # Pad} = 1..m
    BY <2>6, <2>7, <2>8
  <2>10. Cardinality(1..m) = m
    BY <2>1, FS_Interval
  <2>11. Counts(rows[i])
    <3>1. CountedLength(rows[i]) = Cardinality({c \in DOMAIN tokens : tokens[c] # Pad})
      <4>1. rows[i].tokens = tokens
        BY <2>3
      <4> QED
        BY <4>1, Zenon DEF CountedLength
    <3>2. rows[i].length = m
      BY <2>3
    <3>3. CountedLength(rows[i]) = m
      BY <2>9, <2>10, <3>1, Zenon
    <3> QED
      BY <2>1, <3>2, <3>3 DEF Counts
  <2>12. rows[i] \in PromptRows(ServedTokens)
    BY <2>1, <2>3, <2>5 DEF PromptRows
  <2> QED
    BY <2>3, <2>6, <2>11, <2>12 DEF q, m
<1>6. rows = [i \in 1..n |-> rows[i]] /\ DOMAIN rows = 1..n
  BY <1>2
<1> HIDE DEF rows
<1>7. rows \in Seq(PromptRows(ServedTokens)) /\ Len(rows) = n
  <2>1. n \in Nat
    BY <1>0, <1>1
  <2> QED
    BY <1>5, <1>6, <2>1, ListIs
<1>8. Spread(rows)
  BY <1>2, <1>4, <1>5, <1>6 DEF Spread
<1>9. ~config.continuous => Placed(rows)
  <2>1. ~config.continuous => \A i \in 1..n : lines[i] = i - 1
    <3>1. ~config.continuous => lines = [i \in 1..n |-> i - 1]
      BY <1>2, <1>3 DEF MayAdmit
    <3> QED
      BY <3>1
  <2> QED
    BY <1>5, <1>6, <2>1 DEF Placed
<1>10. \A i \in 1..n : \A r \in Live : lines[i] # lineOf[r]
  <2>1. Range(lines) \cap Range(lineOf) = {}
    BY <1>3 DEF MayAdmit
  <2>2. DOMAIN lines = 1..n /\ DOMAIN lineOf = Live
    BY <1>2 DEF Live
  <2> QED
    BY <2>1, <2>2 DEF Range
<1>11. /\ Encoded(ServedTokens, n, rows, out)
       /\ Live = {} \/ OthersKept(cache, n, rows, out)
  <2>1. config.continuous \in BOOLEAN /\ cache \in CachesOf(ServedTokens) /\ Zero \in ServedTokens
        /\ config.contextBatch \in {1, MaxBatch}
    BY ServingAssumption DEF ServingInv, ServingTypeOK, ServedTokens
  <2>2. CASE config.contextBatch = MaxBatch
    <3>1. Encoded(ServedTokens, n, rows, ContextEncodingModel(cache, config.continuous, MaxBatch, rows))
      BY <1>1, <1>7, <1>8, <1>9, <2>1, WholeBatchEncoded
    <3>2. Live = {}
      BY <1>3, <2>2 DEF MayAdmit
    <3> QED
      BY <2>2, <3>1, <3>2
  <2>3. CASE config.contextBatch # MaxBatch
    <3>1. config.continuous = TRUE /\ config.contextBatch = 1 /\ MaxBatch # 1
      BY <2>1, <2>3 DEF ServingInv, ServingTypeOK
    <3>2. /\ Encoded(ServedTokens, n, rows, ContextEncodingModel(cache, TRUE, 1, rows))
          /\ OthersKept(cache, n, rows, ContextEncodingModel(cache, TRUE, 1, rows))
      BY <1>1, <1>7, <1>8, <2>1, <3>1, RowsEncoded
    <3>3. out = ContextEncodingModel(cache, TRUE, 1, rows)
      BY <3>1, Zenon
    <3> HIDE DEF out
    <3> QED
      BY <3>2, <3>3, Zenon
  <2> QED
    BY <2>2, <2>3
<1> HIDE DEF out
<1>12. ASSUME NEW i \in 1..n
       PROVE  /\ out.answers[i] = Prompt(arrived + i, lengths[i])
              /\ \A p \in 0..(lengths[i] - 1) : cache'[lines[i]][p] = Token(arrived + i, p)
  <2>1. /\ out.answers[i] = SubSeq(rows[i].tokens, 1, lengths[i])
        /\ \A p \in Positions : p < lengths[i] => out.cache[lines[i]][p] = rows[i].tokens[p + 1]
    BY <1>5, <1>11 DEF Encoded
  <2>2. lengths[i] \in Nat /\ lengths[i] <= MaxLength /\ lengths[i] <= MaxContext
    BY <1>0, <1>4
  <2>3. ASSUME NEW p \in 0..(lengths[i] - 1) PROVE cache'[lines[i]][p] = Token(arrived + i, p)
    <3>1. p \in Positions /\ p < lengths[i] /\ p + 1 \in 1..lengths[i] /\ (p + 1) - 1 = p
      BY <1>0, <2>2 DEF Positions
    <3>2. rows[i].tokens[p + 1] = Token(arrived + i, (p + 1) - 1)
      BY <1>5, <3>1
    <3> QED
      BY <1>3, <2>1, <3>1, <3>2
  <2>4. SubSeq(rows[i].tokens, 1, lengths[i]) = Prompt(arrived + i, lengths[i])
    <3> DEFINE s == rows[i].tokens
               m == lengths[i]
    <3>1. s \in [1..MaxContext -> ServedTokens]
      BY <1>5 DEF PromptRows
    <3>2. \A c \in 1..m : s[c] = Token(arrived + i, c - 1)
      BY <1>5
    <3>3. m \in Nat /\ m <= MaxContext /\ MaxContext \in Nat
      BY <1>0, <2>2
    <3> HIDE DEF s, m
    <3>4. s \in Seq(ServedTokens) /\ Len(s) = MaxContext
      <4>1. DOMAIN s = 1..MaxContext /\ s = [c \in 1..MaxContext |-> s[c]]
            /\ \A c \in 1..MaxContext : s[c] \in ServedTokens
        BY <3>1
      <4> QED
        BY <3>3, <4>1, ListIs
    <3>5. SubSeq(s, 1, m) = [c \in 1..m |-> s[c]]
      BY <3>3, <3>4
    <3> QED
      BY <3>2, <3>5 DEF Prompt, s, m
  <2> QED
    BY <2>1, <2>3, <2>4
<1>13. ASSUME NEW r \in Live PROVE cache'[lineOf[r]] = cache[lineOf[r]]
  <2>1. lineOf[r] \in Lines /\ \A i \in 1..n : rows[i].line # lineOf[r]
    BY <1>5, <1>10 DEF ServingInv, ServingTypeOK
  <2> QED
    BY <1>3, <1>11, <2>1 DEF OthersKept
<1>14. answered' = [i \in 1..n |-> <<arrived + i, Prompt(arrived + i, lengths[i])>>]
  BY <1>3, <1>12
<1>15. cache' \in CachesOf(ServedTokens)
  BY <1>3, <1>11 DEF Encoded
<1> QED
  BY <1>1, <1>2, <1>3, <1>4, <1>10, <1>12, <1>13, <1>14, <1>15 DEF Admitted

\* The callers see the requests' own tokens, and they see them after a step, too.
SeesOwnTokens == Contexts = [r \in Live |-> Prompt(r, length[r])]

\* The invariant says so before and after a step.
LEMMA ContextsNext == ServingInv' => SeesOwnTokens'
<1>1. ServingInv => SeesOwnTokens
  BY ContextsAre DEF SeesOwnTokens
<1> QED
  BY <1>1, PTL

\* A list of prompts has the lengths that it says.
LEMMA PromptIs ==
  ASSUME NEW r, NEW m \in Nat
  PROVE  /\ Len(Prompt(r, m)) = m
         /\ Append(Prompt(r, m), Token(r, m)) = Prompt(r, m + 1)
<1> DEFINE S == {Token(r, p) : p \in Nat}
           s == Prompt(r, m)
<1>1. DOMAIN s = 1..m /\ s = [p \in 1..m |-> s[p]] /\ \A p \in 1..m : s[p] = Token(r, p - 1) /\ s[p] \in S
  BY DEF Prompt
<1>0. Token(r, m) \in S
  OBVIOUS
<1> HIDE DEF s, S
<1>2. s \in Seq(S) /\ Len(s) = m
  BY <1>1, ListIs
<1>3. Append(s, Token(r, m)) = [p \in 1..(m + 1) |-> IF p <= m THEN s[p] ELSE Token(r, m)]
  <2> DEFINE t == Token(r, m)
  <2>1. t \in S
    BY <1>0
  <2> HIDE DEF t
  <2>2. Append(s, t) = [p \in 1..(m + 1) |-> IF p <= m THEN s[p] ELSE t]
    <3>1. Append(s, t) \in Seq(S) /\ Len(Append(s, t)) = m + 1
      BY <1>2, <2>1
    <3>2. \A p \in 1..(m + 1) : Append(s, t)[p] = IF p <= m THEN s[p] ELSE t
      BY <1>2, <2>1
    <3> DEFINE u == Append(s, t)
    <3>3. u \in Seq(S) /\ Len(u) = m + 1 /\ \A p \in 1..(m + 1) : u[p] = IF p <= m THEN s[p] ELSE t
      BY <3>1, <3>2
    <3> HIDE DEF u
    <3>4. DOMAIN u = 1..(m + 1) /\ u = [p \in 1..(m + 1) |-> u[p]]
      BY <3>3
    <3> QED
      BY <3>3, <3>4 DEF u
  <2> QED
    BY <2>2 DEF t
<1>4. \A p \in 1..(m + 1) : (IF p <= m THEN s[p] ELSE Token(r, m)) = Token(r, p - 1)
  BY <1>1
<1> QED
  BY <1>2, <1>3, <1>4 DEF Prompt, s

\* An admission keeps the invariant, and to the callers new requests begin.
LEMMA AdmitKeeps ==
  ASSUME ServingInv, NEW L \in SUBSET Lines, L # {}, NEW lines \in Orders(L),
         NEW lengths \in [DOMAIN lines -> PromptLengths], Admit(lines, lengths)
  PROVE  ServingInv' /\ Private!Begin
<1>0. PICK n \in 1..MaxBatch : Admitted(n, lines, lengths)
  BY AdmitIs
<1>1. /\ DOMAIN lines = 1..n /\ Len(lines) = n /\ arrived + n <= MaxRequests
      /\ \A i \in 1..n : /\ lines[i] \in Lines /\ lengths[i] \in PromptLengths
                         /\ lengths[i] \in 2..MaxContext
      /\ \A i, j \in 1..n : lines[i] = lines[j] => i = j
      /\ \A i \in 1..n : \A r \in Live : lines[i] # lineOf[r]
      /\ cache' \in CachesOf(ServedTokens)
      /\ \A i \in 1..n : \A p \in 0..(lengths[i] - 1) : cache'[lines[i]][p] = Token(arrived + i, p)
      /\ \A r \in Live : cache'[lineOf[r]] = cache[lineOf[r]]
      /\ answered' = [i \in 1..n |-> <<arrived + i, Prompt(arrived + i, lengths[i])>>]
  BY <1>0 DEF Admitted
<1> DEFINE new == (arrived + 1)..(arrived + n)
<1>2. /\ arrived \in Nat /\ n \in Nat /\ n >= 1 /\ MaxRequests \in Nat /\ MaxContext \in Nat
      /\ MaxLength \in Nat /\ MaxContext <= MaxLength
  BY ServingAssumption, <1>1 DEF ServingInv, ServingTypeOK
<1>3. /\ arrived' = arrived + n /\ config' = config
      /\ lineOf' = [q \in Live \cup new |-> IF q \in new THEN lines[q - arrived] ELSE lineOf[q]]
      /\ length' = [q \in Live \cup new |-> IF q \in new THEN lengths[q - arrived] ELSE length[q]]
  BY <1>1 DEF Admit
<1>4. Live' = Live \cup new
  BY <1>3 DEF Live
<1>5. \A q \in Live : q \in 1..arrived /\ ~(q \in new)
  BY <1>2 DEF ServingInv, ServingTypeOK
<1>6. \A q \in new : q - arrived \in 1..n /\ arrived + (q - arrived) = q
  BY <1>2
<1>7. \A i \in 1..n : arrived + i \in new /\ (arrived + i) - arrived = i
  BY <1>2
<1> HIDE DEF new
<1>8. \A q \in Live : lineOf'[q] = lineOf[q] /\ length'[q] = length[q]
  BY <1>3, <1>5
<1>9. \A i \in 1..n : lineOf'[arrived + i] = lines[i] /\ length'[arrived + i] = lengths[i]
  BY <1>3, <1>7
<1>10. ASSUME NEW q \in Live' PROVE q \in Live \/ \E i \in 1..n : q = arrived + i
  BY <1>4, <1>6
<1>11. ServingTypeOK'
  <2>1. arrived' \in 0..MaxRequests
    BY <1>1, <1>2, <1>3
  <2>2. Live' \in SUBSET (1..arrived')
    <3>1. new \subseteq 1..arrived'
      BY <1>2, <1>3 DEF new
    <3>2. 1..arrived \subseteq 1..arrived'
      BY <1>2, <1>3
    <3> QED
      BY <1>4, <1>5, <3>1, <3>2
  <2>3. ASSUME NEW q \in Live' PROVE lineOf'[q] \in Lines /\ length'[q] \in 1..MaxLength
    <3>1. CASE q \in Live
      BY <1>8, <3>1 DEF ServingInv, ServingTypeOK
    <3>2. CASE \E i \in 1..n : q = arrived + i
      <4>1. PICK i \in 1..n : q = arrived + i
        BY <3>2
      <4>2. lengths[i] \in 1..MaxLength
        BY <1>1, <1>2
      <4> QED
        BY <1>1, <1>9, <4>1, <4>2
    <3> QED
      BY <1>10, <3>1, <3>2
  <2>4. lineOf' \in [Live' -> Lines] /\ length' \in [Live' -> 1..MaxLength]
    <3>1. lineOf' = [q \in Live' |-> lineOf'[q]] /\ length' = [q \in Live' |-> length'[q]]
      BY <1>3, <1>4
    <3> QED
      BY <2>3, <3>1
  <2>5. /\ config' \in [continuous : BOOLEAN, contextBatch : ContextBatches]
        /\ config'.continuous = FALSE => config'.contextBatch = MaxBatch
    BY <1>3, Zenon DEF ServingInv, ServingTypeOK
  <2> QED
    BY <1>1, <2>1, <2>2, <2>4, <2>5 DEF ServingTypeOK
<1>12. OwnLines'
  <2>1. ASSUME NEW q \in Live', NEW r \in Live', lineOf'[q] = lineOf'[r] PROVE q = r
    <3>1. CASE q \in Live /\ r \in Live
      BY <1>8, <2>1, <3>1 DEF ServingInv, OwnLines
    <3>2. CASE (\E i \in 1..n : q = arrived + i) /\ (\E i \in 1..n : r = arrived + i)
      BY <1>1, <1>9, <2>1, <3>2
    <3>3. CASE q \in Live /\ (\E i \in 1..n : r = arrived + i)
      BY <1>1, <1>8, <1>9, <2>1, <3>3
    <3>4. CASE r \in Live /\ (\E i \in 1..n : q = arrived + i)
      BY <1>1, <1>8, <1>9, <2>1, <3>4
    <3> QED
      BY <1>10, <3>1, <3>2, <3>3, <3>4
  <2> QED
    BY <2>1 DEF OwnLines
<1>13. CacheHoldsOwnTokens'
  <2>1. ASSUME NEW q \in Live', NEW p \in 0..(length'[q] - 1) PROVE cache'[lineOf'[q]][p] = Token(q, p)
    <3>1. CASE q \in Live
      <4>1. lineOf'[q] = lineOf[q] /\ p \in 0..(length[q] - 1)
        BY <1>8, <2>1, <3>1
      <4>2. cache'[lineOf[q]] = cache[lineOf[q]]
        BY <1>1, <3>1
      <4>3. cache[lineOf[q]][p] = Token(q, p)
        BY <3>1, <4>1 DEF ServingInv, CacheHoldsOwnTokens
      <4> QED
        BY <4>1, <4>2, <4>3
    <3>2. CASE \E i \in 1..n : q = arrived + i
      BY <1>1, <1>9, <2>1, <3>2
    <3> QED
      BY <1>10, <3>1, <3>2
  <2>2. \A q, p : Token(q, p)' = Token(q, p)
    OBVIOUS
  <2> QED
    BY <2>1 DEF CacheHoldsOwnTokens
<1>14. ServingInv'
  BY <1>11, <1>12, <1>13 DEF ServingInv
<1>15. Private!Begin
  <2> DEFINE after == Contexts'
             named == [i \in 1..n |-> arrived + i]
  <2>1. after = [r \in Live' |-> Prompt(r, length'[r])] /\ Contexts = [r \in Live |-> Prompt(r, length[r])]
    BY <1>14, ContextsNext, ContextsAre DEF SeesOwnTokens
  <2>2. Private!Named = named
    BY <1>1 DEF Private!Named
  <2>3. named # <<>> /\ IsInjective(named)
    <3>1. DOMAIN named = 1..n /\ 1 \in 1..n
      BY <1>2
    <3>2. \A i, j \in 1..n : named[i] = named[j] => i = j
      BY <1>2
    <3> QED
      BY <3>1, <3>2 DEF IsInjective
  <2>4. Range(named) = new
    BY <1>6, <1>7 DEF Range
  <2>5. new \subseteq Requests /\ new \cap Live = {}
    BY <1>1, <1>2, <1>5 DEF Requests, new
  <2>6. DOMAIN after = Live \cup new
    BY <1>4, <2>1
  <2>7. \A r \in Live : after[r] = Contexts[r]
    BY <1>4, <1>8, <2>1
  <2>8. \A r \in new : \E m \in PromptLengths : after[r] = [i \in 1..m |-> Token(r, i - 1)]
    <3>1. ASSUME NEW r \in new PROVE \E m \in PromptLengths : after[r] = Prompt(r, m)
      <4>1. PICK i \in 1..n : r = arrived + i
        BY <1>6
      <4>2. after[r] = Prompt(r, lengths[i])
        BY <1>4, <1>9, <2>1, <4>1
      <4> QED
        BY <1>1, <4>2
    <3> QED
      BY <3>1 DEF Prompt
  <2>9. \A i \in 1..n : answered'[i] = <<named[i], after[named[i]]>>
    BY <1>1, <1>4, <1>7, <1>9, <2>1
  <2>10. DOMAIN Contexts = Live /\ DOMAIN answered' = 1..n
    BY <1>1 DEF Contexts
  <2>11. Private!Replied
    BY <2>2, <2>9, <2>10 DEF Private!Replied, Contexts
  <2> HIDE DEF named
  <2>12. Private!Serving = Live
    BY DEF Private!Serving
  <2>13. Private!Range(Private!Named) = new /\ Private!IsInjective(Private!Named)
    BY <2>2, <2>3, <2>4, Zenon DEF Private!Range, Private!IsInjective, Range, IsInjective
  <2>14. Private!Range(Private!Named) \subseteq Requests \ Private!Serving
    BY <2>5, <2>12, <2>13
  <2>15. Private!Named # <<>>
    BY <2>2, <2>3
  <2> QED
    BY <2>6, <2>7, <2>8, <2>11, <2>12, <2>13, <2>14, <2>15, Zenon DEF Private!Begin, Contexts
<1> QED
  BY <1>14, <1>15

\* A decode keeps the invariant, and to the callers their requests go on.
LEMMA DecodeServesOn ==
  ASSUME ServingInv, NEW rs \in Orders(Live), Decode(rs)
  PROVE  ServingInv' /\ Private!Continue
<1> DEFINE n == Cardinality(Live)
<1>1. /\ n \in Nat /\ rs \in [1..n -> Live] /\ DOMAIN rs = 1..n /\ Len(rs) = n
      /\ \A i, j \in 1..n : rs[i] = rs[j] => i = j
      /\ \A r \in Live : \E i \in 1..n : rs[i] = r
  BY LiveFits, OrdersAre
<1> HIDE DEF n
<1>2. /\ cache' \in CachesOf(ServedTokens)
      /\ \A r \in Live : \A p \in Positions :
           cache'[lineOf[r]][p] = IF p = length[r] THEN Token(r, p) ELSE cache[lineOf[r]][p]
      /\ answered' = [i \in DOMAIN rs |-> <<rs[i], Prompt(rs[i], length[rs[i]] + 1)>>]
  BY DecodeIs
<1>3. /\ config' = config /\ arrived' = arrived /\ lineOf' = lineOf /\ Live' = Live
      /\ length' = [r \in Live |-> length[r] + 1]
      /\ rs # <<>> /\ \A r \in Live : length[r] < MaxLength
  BY DEF Decode, MayDecode, Live
<1>4. MaxLength \in Nat /\ \A r \in Live : length[r] \in 1..MaxLength /\ length[r] \in Nat
  BY ServingAssumption DEF ServingInv, ServingTypeOK
<1>5. ServingTypeOK'
  <2>1. length' \in [Live' -> 1..MaxLength]
    BY <1>3, <1>4
  <2>2. /\ config' \in [continuous : BOOLEAN, contextBatch : ContextBatches]
        /\ config'.continuous = FALSE => config'.contextBatch = MaxBatch
    BY <1>3, Zenon DEF ServingInv, ServingTypeOK
  <2>3. arrived' \in 0..MaxRequests /\ Live' \in SUBSET (1..arrived') /\ lineOf' \in [Live' -> Lines]
    BY <1>3 DEF ServingInv, ServingTypeOK
  <2> QED
    BY <1>2, <2>1, <2>2, <2>3 DEF ServingTypeOK
<1>6. OwnLines'
  BY <1>3 DEF ServingInv, OwnLines
<1>7. CacheHoldsOwnTokens'
  <2>1. ASSUME NEW r \in Live', NEW p \in 0..(length'[r] - 1) PROVE cache'[lineOf'[r]][p] = Token(r, p)
    <3>1. /\ r \in Live /\ length'[r] = length[r] + 1 /\ lineOf'[r] = lineOf[r]
          /\ length[r] \in Nat /\ length[r] < MaxLength
      BY <1>3, <1>4
    <3>2. p \in Positions /\ (p = length[r] \/ p \in 0..(length[r] - 1))
      BY <1>4, <3>1 DEF Positions
    <3>3. cache'[lineOf[r]][p] = IF p = length[r] THEN Token(r, p) ELSE cache[lineOf[r]][p]
      BY <1>2, <3>1, <3>2
    <3>4. p \in 0..(length[r] - 1) => cache[lineOf[r]][p] = Token(r, p)
      BY <3>1 DEF ServingInv, CacheHoldsOwnTokens
    <3> QED
      BY <3>1, <3>2, <3>3, <3>4
  <2> QED
    BY <2>1 DEF CacheHoldsOwnTokens
<1>8. ServingInv'
  BY <1>5, <1>6, <1>7 DEF ServingInv
<1>9. Private!Continue
  <2> DEFINE after == Contexts'
  <2>1. after = [r \in Live |-> Prompt(r, length[r] + 1)] /\ Contexts = [r \in Live |-> Prompt(r, length[r])]
    <3>1. after = [r \in Live' |-> Prompt(r, length'[r])]
      BY <1>8, ContextsNext DEF SeesOwnTokens
    <3>2. \A r \in Live : length'[r] = length[r] + 1
      BY <1>3
    <3> QED
      BY <1>3, <3>1, <3>2, ContextsAre
  <2>2. Private!Named = rs
    <3>1. rs = [i \in 1..n |-> rs[i]]
      BY <1>1
    <3>2. Private!Named = [i \in 1..n |-> rs[i]]
      BY <1>1, <1>2 DEF Private!Named
    <3> QED
      BY <3>1, <3>2
  <2>3. IsInjective(rs)
    BY <1>1 DEF IsInjective
  <2>4. Range(rs) = Live
    BY <1>1 DEF Range
  <2>5. \A i \in 1..n : answered'[i] = <<rs[i], after[rs[i]]>>
    <3>1. \A i \in 1..n : rs[i] \in Live /\ answered'[i] = <<rs[i], Prompt(rs[i], length[rs[i]] + 1)>>
      BY <1>1, <1>2
    <3> QED
      BY <2>1, <3>1
  <2>6. DOMAIN Contexts = Live /\ DOMAIN answered' = 1..n
    BY <1>1, <1>2 DEF Contexts
  <2>7. Private!Replied
    BY <2>2, <2>5, <2>6 DEF Private!Replied, Contexts
  <2>8. Private!Serving = Live
    BY DEF Private!Serving
  <2>9. Private!Range(Private!Named) = Live /\ Private!IsInjective(Private!Named)
    BY <2>2, <2>3, <2>4, Zenon DEF Private!Range, Private!IsInjective, Range, IsInjective
  <2>10. ASSUME NEW r \in Live
         PROVE  /\ Len(Contexts[r]) = length[r]
                /\ after[r] = Append(Contexts[r], Token(r, Len(Contexts[r])))
    <3>1. Contexts[r] = Prompt(r, length[r]) /\ after[r] = Prompt(r, length[r] + 1)
      BY <2>1
    <3> QED
      BY <1>4, <3>1, PromptIs
  <2>11. \A r \in Private!Serving : Len(Contexts[r]) < MaxLength
    BY <1>3, <2>8, <2>10
  <2>12. after = [r \in Private!Serving |-> Append(Contexts[r], Token(r, Len(Contexts[r])))]
    <3>1. after = [r \in Live |-> after[r]]
      BY <2>1
    <3> QED
      BY <2>8, <2>10, <3>1
  <2>13. Private!Named # <<>>
    BY <1>3, <2>2
  <2> QED
    BY <2>7, <2>8, <2>9, <2>11, <2>12, <2>13, Zenon DEF Private!Continue, Contexts
<1> QED
  BY <1>8, <1>9

\* When requests are done the others keep what they have.
LEMMA FinishKeeps ==
  ASSUME ServingInv, NEW R \in SUBSET Live, Finish(R)
  PROVE  ServingInv' /\ Private!End
<1> DEFINE rest == Live \ R
<1>1. /\ config' = config /\ arrived' = arrived /\ cache' = cache /\ answered' = <<>>
      /\ lineOf' = [r \in rest |-> lineOf[r]] /\ length' = [r \in rest |-> length[r]]
  BY DEF Finish, Restrict
<1>2. Live' = rest /\ rest \subseteq Live
  BY <1>1 DEF Live
<1>3. \A r \in rest : lineOf'[r] = lineOf[r] /\ length'[r] = length[r]
  BY <1>1
<1> HIDE DEF rest
<1>4. ServingInv'
  <2>1. ServingTypeOK'
    <3>1. /\ config' \in [continuous : BOOLEAN, contextBatch : ContextBatches]
          /\ config'.continuous = FALSE => config'.contextBatch = MaxBatch
      BY <1>1, Zenon DEF ServingInv, ServingTypeOK
    <3>2. arrived' \in 0..MaxRequests /\ Live' \in SUBSET (1..arrived') /\ cache' \in CachesOf(ServedTokens)
      BY <1>1, <1>2 DEF ServingInv, ServingTypeOK
    <3>3. lineOf' \in [Live' -> Lines] /\ length' \in [Live' -> 1..MaxLength]
      BY <1>1, <1>2 DEF ServingInv, ServingTypeOK
    <3> QED
      BY <3>1, <3>2, <3>3 DEF ServingTypeOK
  <2>2. OwnLines'
    BY <1>2, <1>3 DEF ServingInv, OwnLines
  <2>3. CacheHoldsOwnTokens'
    BY <1>1, <1>2, <1>3 DEF ServingInv, CacheHoldsOwnTokens
  <2> QED
    BY <2>1, <2>2, <2>3 DEF ServingInv
<1>5. Private!End
  <2>1. Contexts' = [r \in rest |-> Contexts[r]]
    <3>1. Contexts' = [r \in Live' |-> Prompt(r, length'[r])] /\ Contexts = [r \in Live |-> Prompt(r, length[r])]
      BY <1>4, ContextsNext, ContextsAre DEF SeesOwnTokens
    <3> QED
      BY <1>2, <1>3, <3>1
  <2>2. Private!Serving = Live
    BY DEF Private!Serving
  <2>3. \E S \in SUBSET Private!Serving : Contexts' = [r \in S |-> Contexts[r]]
    BY <1>2, <2>1, <2>2
  <2> QED
    BY <1>1, <2>3, Zenon DEF Private!End, Contexts
<1> QED
  BY <1>4, <1>5

\* No request is served in the beginning.
LEMMA ServingInitHolds == ServingInit => ServingInv /\ Private!PrivateInit
<1> SUFFICES ASSUME ServingInit PROVE ServingInv /\ Private!PrivateInit
  OBVIOUS
<1>1. lineOf = <<>> /\ length = <<>> /\ arrived = 0 /\ answered = <<>> /\ cache = EmptyCache
  BY DEF ServingInit
<1>2. Live = {} /\ DOMAIN length = {}
  BY <1>1 DEF Live
<1>3. ServingTypeOK
  <2>1. /\ config \in [continuous : BOOLEAN, contextBatch : ContextBatches]
        /\ config.continuous = FALSE => config.contextBatch = MaxBatch
    BY Zenon DEF ServingInit
  <2>2. arrived \in 0..MaxRequests /\ Live \in SUBSET (1..arrived)
    BY <1>1, <1>2, ServingAssumption
  <2>3. lineOf \in [Live -> Lines] /\ length \in [Live -> 1..MaxLength]
    BY <1>1, <1>2
  <2>4. cache \in CachesOf(ServedTokens)
    BY <1>1 DEF EmptyCache, CachesOf, ServedTokens
  <2> QED
    BY <2>1, <2>2, <2>3, <2>4 DEF ServingTypeOK
<1>4. ServingInv
  BY <1>2, <1>3 DEF ServingInv, OwnLines, CacheHoldsOwnTokens
<1>5. Contexts = <<>>
  BY <1>2 DEF Contexts
<1> QED
  BY <1>1, <1>4, <1>5 DEF Private!PrivateInit, Contexts

\* Only serving changes what is served.
LEMMA UsesKeepServing == [InferenceNext]_inferenceVars => [ServingNext]_servingVars
<1>1. ASSUME InferenceNext PROVE ServingNext \/ UNCHANGED servingVars
  BY <1>1 DEF InferenceNext, Compile, Convert, KeepArtifacts, LoadWeights, Serve, GenerateBatch,
              AssistedDecoding, DecodeSharded, RouteCall
<1>2. ASSUME UNCHANGED inferenceVars PROVE UNCHANGED servingVars
  BY <1>2 DEF inferenceVars
<1> QED
  BY <1>1, <1>2

\* A step keeps the invariant and is a step of private caches.
LEMMA ServingStep ==
  ASSUME ServingInv, [ServingNext]_servingVars
  PROVE  ServingInv' /\ [Private!PrivateNext]_<<Contexts, answered>>
<1>1. ASSUME NEW L \in (SUBSET Lines) \ {{}}, NEW lines \in Orders(L),
             NEW lengths \in [DOMAIN lines -> PromptLengths], Admit(lines, lengths)
      PROVE  ServingInv' /\ Private!PrivateNext
  <2>1. L \in SUBSET Lines /\ L # {}
    OBVIOUS
  <2> QED
    BY <1>1, <2>1, AdmitKeeps DEF Private!PrivateNext
<1>2. ASSUME NEW rs \in Orders(Live), Decode(rs) PROVE ServingInv' /\ Private!PrivateNext
  BY <1>2, DecodeServesOn DEF Private!PrivateNext
<1>3. ASSUME NEW R \in SUBSET Live, Finish(R) PROVE ServingInv' /\ Private!PrivateNext
  BY <1>3, FinishKeeps DEF Private!PrivateNext
<1>4. ASSUME UNCHANGED servingVars PROVE ServingInv' /\ UNCHANGED <<Contexts, answered>>
  <2>1. /\ config' = config /\ arrived' = arrived /\ cache' = cache /\ lineOf' = lineOf
        /\ length' = length /\ answered' = answered
    BY <1>4 DEF servingVars
  <2>2. Live' = Live
    BY <2>1 DEF Live
  <2>3. ServingTypeOK' /\ OwnLines' /\ CacheHoldsOwnTokens'
    BY <2>1, <2>2 DEF ServingInv, ServingTypeOK, OwnLines, CacheHoldsOwnTokens
  <2>4. Contexts' = Contexts
    BY <2>1, <2>2 DEF Contexts
  <2> QED
    BY <2>1, <2>3, <2>4 DEF ServingInv
<1> QED
  BY <1>1, <1>2, <1>3, <1>4, Zenon DEF ServingNext

\* For any number of lines and requests, any buckets and compiled batch sizes and any
\* order of calls: the tokens of a request stay in its own line, whatever batches, filled
\* rows and earlier requests go through that line and its neighbours (update_cache under
\* ModelWrapper.forward).
THEOREM LinesAreOwn == InferenceSpec => []CacheHoldsOwnTokens
<1>1. InferenceInit => ServingInv
  BY ServingInitHolds DEF InferenceInit
<1>2. ServingInv /\ [InferenceNext]_inferenceVars => ServingInv'
  BY UsesKeepServing, ServingStep
<1>3. ServingInv => CacheHoldsOwnTokens
  BY DEF ServingInv
<1> QED
  BY <1>1, <1>2, <1>3, PTL DEF InferenceSpec

\* Serving in batches implements private caches: to the callers every request has a cache
\* of its own, and answers come in the order of the call (ModelWrapper.forward, whose rows
\* are sorted by line, filled and reordered).
THEOREM BatchesArePrivate == InferenceSpec => ServesPrivately
<1>1. InferenceInit => ServingInv /\ Private!PrivateInit
  BY ServingInitHolds DEF InferenceInit
<1>2. ServingInv /\ [InferenceNext]_inferenceVars
        => ServingInv' /\ [Private!PrivateNext]_<<Contexts, answered>>
  BY UsesKeepServing, ServingStep
<1> QED
  BY <1>1, <1>2, PTL DEF InferenceSpec, ServesPrivately, Private!PrivateSpec, Contexts

------------------------------------------------------------------------------
(* Generated batches *)

Tags == (0..MaxGenerations) \X BatchRows
GeneratedTokens == {Zero, Pad, EosToken} \cup (Tags \X Nat)

\* The columns of a batch: the mask lags one behind once the cache is populated.
Columns == maskWidth + IF kvPopulated THEN 1 ELSE 0

\* The tokens of a row that are its own, once its padding is taken away.
Own(i) == texts[i].prompt + Columns - PromptWidth

\* A batch of texts with room for one more column.
GenerationBatch ==
  /\ texts \in [BatchRows -> [tag : Tags, prompt : 2..MaxContext, own : Nat]]
  /\ \A i, k \in BatchRows : texts[i].tag = texts[k].tag => i = k
  /\ \A i \in BatchRows : texts[i].prompt < MaxLength

\* How far the loop is: rows, mask and unfinished rows follow from the number of columns.
Turns ==
  /\ maskWidth \in Nat /\ maskWidth >= PromptWidth /\ Columns <= MaxLength
  /\ ~kvPopulated => maskWidth = PromptWidth
  /\ inputIds = [i \in BatchRows |-> [c \in 1..Columns |-> OwnText(texts[i], c)]]
  /\ shown = [i \in BatchRows |-> texts[i].prompt + maskWidth - PromptWidth]
  /\ unfinished = {i \in BatchRows : Columns < MaxLength /\ Own(i) <= TextLength(texts[i])}

\* The cache holds all but the newest token of the texts that go on.
Populated ==
  \A i \in unfinished : \A p \in 0..(shown[i] - 1) : deviceCache[i - 1][p] = TextAt(texts[i], p)

GenerationInv ==
  /\ generation \in 0..MaxGenerations
  /\ caller \in {"idle", "sampling", "failed"}
  /\ kvPopulated \in BOOLEAN
  /\ deviceCache \in CachesOf(GeneratedTokens)
  /\ caller = "idle" => ~kvPopulated
  /\ caller # "idle" => GenerationBatch /\ Turns
  /\ caller = "sampling" /\ kvPopulated => Populated
  /\ GeneratesOwnText

\* The width of a batch leaves room for one more column, too.
WidthFits ==
  /\ PromptWidth \in 2..MaxContext /\ PromptWidth < MaxLength
  /\ \A i \in BatchRows : texts[i].prompt \in 2..PromptWidth

\* A batch has such a width.
LEMMA WidthIs == GenerationBatch => WidthFits
<1> SUFFICES ASSUME GenerationBatch PROVE WidthFits
  OBVIOUS
<1> DEFINE S == {texts[i].prompt : i \in BatchRows}
<1>1. MaxBatch \in Nat \ {0} /\ MaxContext \in Nat /\ MaxLength \in Nat
  BY ServingAssumption
<1>2. \A i \in BatchRows : texts[i].prompt \in 2..MaxContext /\ texts[i].prompt < MaxLength
  BY DEF GenerationBatch
<1>3. S \in SUBSET (0..MaxContext)
  BY <1>1, <1>2
<1>4. S # {}
  <2>1. 1 \in BatchRows
    BY <1>1 DEF BatchRows
  <2> QED
    BY <2>1
<1>5. PromptWidth = Max(S)
  BY DEF PromptWidth, GenerationBatch
<1>6. Max(S) \in S /\ \A x \in S : x <= Max(S)
  <2> HIDE DEF S
  <2> QED
    BY <1>1, <1>3, <1>4, GreatestIs
<1>7. \A i \in BatchRows : texts[i].prompt <= PromptWidth
  BY <1>5, <1>6
<1>8. PromptWidth \in 2..MaxContext /\ PromptWidth < MaxLength
  BY <1>2, <1>5, <1>6
<1> QED
  BY <1>1, <1>2, <1>7, <1>8 DEF WidthFits

\* The tokens of a text are its own: they neither pad nor end it.
LEMMA TokensAre ==
  ASSUME GenerationBatch, NEW i \in BatchRows, NEW p \in Nat
  PROVE  /\ TextLength(texts[i]) \in Nat /\ TextLength(texts[i]) >= texts[i].prompt
         /\ TextAt(texts[i], p) \in GeneratedTokens
         /\ p < TextLength(texts[i]) => TextAt(texts[i], p) = <<texts[i].tag, p>>
         /\ p \in Positions /\ p < TextLength(texts[i]) => TextAt(texts[i], p) \notin {Pad, EosToken}
         /\ p >= TextLength(texts[i]) => TextAt(texts[i], p) = EosToken
<1>1. texts[i].tag \in Tags /\ texts[i].prompt \in 2..MaxContext /\ texts[i].own \in Nat /\ MaxContext \in Nat
  BY ServingAssumption DEF GenerationBatch
<1>2. TextLength(texts[i]) \in Nat /\ TextLength(texts[i]) >= texts[i].prompt
  BY <1>1 DEF TextLength
<1>3. p < TextLength(texts[i]) => TextAt(texts[i], p) = <<texts[i].tag, p>>
  BY DEF TextAt
<1>4. p >= TextLength(texts[i]) => TextAt(texts[i], p) = EosToken
  BY <1>2 DEF TextAt
<1>5. <<texts[i].tag, p>> \in Tags \X Nat
  BY <1>1
<1>6. TextAt(texts[i], p) \in GeneratedTokens
  BY <1>5, Zenon DEF TextAt, GeneratedTokens
<1>7. p \in Positions => <<texts[i].tag, p>> \notin {Pad, EosToken}
  <2>1. PICK g \in 0..MaxGenerations, k \in 1..MaxBatch : texts[i].tag = <<g, k>>
    BY <1>1 DEF Tags, BatchRows
  <2> QED
    BY <2>1, GenerationAssumption
<1> QED
  BY <1>2, <1>3, <1>4, <1>6, <1>7

\* What a model says of the beginning of a text is the text's next token.
LEMMA NextTokenIs ==
  ASSUME GenerationBatch, NEW i \in BatchRows, NEW m \in Nat, m >= 1, m <= TextLength(texts[i])
  PROVE  NextToken([c \in 1..m |-> TextAt(texts[i], c - 1)]) = TextAt(texts[i], m)
<1> DEFINE context == [c \in 1..m |-> TextAt(texts[i], c - 1)]
           begun == {k \in BatchRows :
                       /\ Len(context) <= TextLength(texts[k])
                       /\ \A p \in 1..Len(context) : context[p] = TextAt(texts[k], p - 1)}
<1>1. Len(context) = m /\ \A p \in 1..m : context[p] = TextAt(texts[i], p - 1)
  <2>1. DOMAIN context = 1..m /\ context = [c \in 1..m |-> context[c]]
        /\ \A c \in 1..m : context[c] \in GeneratedTokens
    BY TokensAre
  <2> HIDE DEF context
  <2>2. Len(context) = m
    BY <2>1, ListIs
  <2> QED
    BY <2>2 DEF context
<1> HIDE DEF context
<1>2. i \in begun
  BY <1>1
<1>3. ASSUME NEW k \in begun PROVE k = i
  <2>1. k \in BatchRows /\ context[1] = TextAt(texts[k], 1 - 1) /\ context[1] = TextAt(texts[i], 1 - 1)
    BY <1>1, <1>3
  <2>2. \A j \in BatchRows : 0 < TextLength(texts[j])
    <3>1. ASSUME NEW j \in BatchRows PROVE 0 < TextLength(texts[j])
      <4>1. /\ TextLength(texts[j]) \in Nat /\ TextLength(texts[j]) >= texts[j].prompt
            /\ texts[j].prompt \in 2..PromptWidth /\ PromptWidth \in 2..MaxContext /\ MaxContext \in Nat
        BY TokensAre, WidthIs, ServingAssumption DEF WidthFits
      <4> QED
        BY <4>1
    <3> QED
      BY <3>1
  <2>3. TextAt(texts[k], 0) = <<texts[k].tag, 0>> /\ TextAt(texts[i], 0) = <<texts[i].tag, 0>>
    BY <2>1, <2>2 DEF TextAt
  <2>4. texts[k].tag = texts[i].tag
    BY <2>1, <2>2, <2>3
  <2> QED
    BY <2>1, <2>4 DEF GenerationBatch
<1>4. (CHOOSE k \in begun : TRUE) = i
  BY <1>2, <1>3
<1>5. NextToken(context) = IF begun = {} THEN Zero ELSE TextAt(texts[CHOOSE k \in begun : TRUE], Len(context))
  BY DEF NextToken
<1> HIDE DEF begun
<1> QED
  BY <1>1, <1>2, <1>4, <1>5 DEF context

\* What a call does for the rows that go on.
AnsweredBy(out) ==
  /\ out.cache \in CachesOf(GeneratedTokens)
  /\ \A i \in unfinished :
       /\ out.answers[i] = [c \in 1..Own(i) |-> TextAt(texts[i], c - 1)]
       /\ \A p \in 0..(Own(i) - 1) : out.cache[i - 1][p] = TextAt(texts[i], p)

\* Where a turn of the loop finds the rows.
InTurn ==
  /\ GenerationBatch /\ Turns
  /\ MaxBatch \in Nat \ {0} /\ MaxContext \in Nat /\ MaxLength \in Nat /\ MaxLength > 0
  /\ PromptWidth \in 2..MaxContext /\ PromptWidth < MaxLength
  /\ Columns \in Nat /\ Columns < MaxLength /\ maskWidth \in Nat /\ maskWidth >= PromptWidth
  /\ \A i \in BatchRows :
       /\ i \in 1..MaxBatch /\ i - 1 \in Lines
       /\ texts[i].prompt \in 2..PromptWidth
       /\ shown[i] = texts[i].prompt + maskWidth - PromptWidth /\ shown[i] \in Nat
       /\ shown[i] >= 2 /\ shown[i] < MaxLength
       /\ LastPosition(i) = shown[i] - 1
       /\ Own(i) = (IF kvPopulated THEN shown[i] + 1 ELSE shown[i])
       /\ Own(i) \in Nat /\ Own(i) >= 2 /\ Own(i) < MaxLength
       /\ Len(inputIds[i]) = Columns
       /\ \A c \in 1..Columns : inputIds[i][c] = OwnText(texts[i], c)
  /\ unfinished \subseteq BatchRows
  /\ \A i \in unfinished : Own(i) <= TextLength(texts[i])

\* The invariant finds them there.
LEMMA TurnIs ==
  ASSUME GenerationInv, caller = "sampling", unfinished # {}
  PROVE  InTurn
<1>1. GenerationBatch /\ Turns
  BY DEF GenerationInv
<1>2. /\ MaxBatch \in Nat \ {0} /\ MaxContext \in Nat /\ MaxLength \in Nat
      /\ PromptWidth \in 2..MaxContext /\ PromptWidth < MaxLength
      /\ \A i \in BatchRows : texts[i].prompt \in 2..PromptWidth
  BY <1>1, WidthIs, ServingAssumption DEF WidthFits
<1>3. /\ maskWidth \in Nat /\ maskWidth >= PromptWidth /\ kvPopulated \in BOOLEAN
      /\ unfinished \subseteq BatchRows
      /\ \A i \in unfinished : Own(i) <= TextLength(texts[i])
      /\ Columns < MaxLength
  BY <1>1 DEF Turns, GenerationInv
<1>4. Columns \in Nat /\ Columns >= maskWidth
  BY <1>3 DEF Columns
<1>5. ASSUME NEW i \in BatchRows
      PROVE  /\ i \in 1..MaxBatch /\ i - 1 \in Lines
             /\ shown[i] = texts[i].prompt + maskWidth - PromptWidth /\ shown[i] \in Nat
             /\ shown[i] >= 2 /\ shown[i] < MaxLength
             /\ Own(i) = (IF kvPopulated THEN shown[i] + 1 ELSE shown[i])
             /\ Own(i) \in Nat /\ Own(i) >= 2 /\ Own(i) < MaxLength
  <2>1. i \in 1..MaxBatch /\ i - 1 \in Lines
    BY <1>2 DEF BatchRows, Lines
  <2>2. shown[i] = texts[i].prompt + maskWidth - PromptWidth
    BY <1>1 DEF Turns
  <2>3. texts[i].prompt \in Nat /\ texts[i].prompt >= 2 /\ texts[i].prompt <= PromptWidth /\ PromptWidth \in Nat
    BY <1>2
  <2>4. shown[i] \in Nat /\ shown[i] >= 2 /\ shown[i] < MaxLength
    BY <1>2, <1>3, <1>4, <2>2, <2>3
  <2>5. Own(i) = (IF kvPopulated THEN shown[i] + 1 ELSE shown[i])
    BY <1>3, <2>2, <2>3 DEF Own, Columns
  <2>6. Own(i) \in Nat /\ Own(i) >= 2
    BY <2>4, <2>5
  <2>7. Own(i) < MaxLength
    BY <1>2, <1>3, <1>4, <2>3 DEF Own
  <2> QED
    BY <2>1, <2>2, <2>4, <2>5, <2>6, <2>7
<1>6. ASSUME NEW i \in BatchRows PROVE LastPosition(i) = shown[i] - 1
  <2> DEFINE S == {shown[i] - 1} \cup {1 : z \in (shown[i] + 1)..maskWidth}
             n == shown[i] - 1
  <2>1. n \in Nat /\ n >= 1
    BY <1>5
  <2>2. n \in S /\ \A x \in S : x = n \/ x = 1
    OBVIOUS
  <2>3. S \in SUBSET (0..n) /\ S # {}
    BY <2>1, <2>2
  <2> HIDE DEF n, S
  <2>4. Max(S) \in S /\ \A x \in S : x <= Max(S)
    BY <2>1, <2>3, GreatestIs
  <2>5. Max(S) = n
    <3>1. n <= Max(S)
      BY <2>2, <2>4
    <3>2. CASE Max(S) = n
      BY <3>2
    <3>3. CASE Max(S) = 1
      BY <2>1, <3>1, <3>3
    <3> QED
      BY <2>2, <2>4, <3>2, <3>3
  <2> QED
    BY <2>5 DEF LastPosition, S, n
<1>7. ASSUME NEW i \in BatchRows
      PROVE  Len(inputIds[i]) = Columns /\ \A c \in 1..Columns : inputIds[i][c] = OwnText(texts[i], c)
  <2> DEFINE row == inputIds[i]
  <2>1. row = [c \in 1..Columns |-> OwnText(texts[i], c)]
    BY <1>1 DEF Turns
  <2>2. DOMAIN row = 1..Columns /\ row = [c \in 1..Columns |-> row[c]]
        /\ \A c \in 1..Columns : row[c] = OwnText(texts[i], c)
    BY <2>1
  <2> DEFINE S == {row[c] : c \in 1..Columns}
  <2>3. \A c \in 1..Columns : row[c] \in S
    OBVIOUS
  <2> HIDE DEF row, S
  <2>4. Len(row) = Columns
    BY <1>4, <2>2, <2>3, ListIs
  <2> QED
    BY <2>2, <2>4 DEF row
<1>8. MaxLength > 0
  BY <1>2, <1>3, <1>4
<1> QED
  BY <1>1, <1>2, <1>3, <1>4, <1>5, <1>6, <1>7, <1>8, Zenon DEF InTurn

\* The first call encodes the prompts, the padding of the shorter ones included.
LEMMA FirstCallIs ==
  ASSUME GenerationInv, caller = "sampling", unfinished # {}, ~kvPopulated
  PROVE  AnsweredBy(CallModel)
<1> DEFINE rows == [i \in BatchRows |-> [PromptRow(i - 1, inputIds[i]) EXCEPT !.length = LastPosition(i) + 1]]
           out == ContextEncodingModel(deviceCache, FALSE, MaxBatch, rows)
<1>1. InTurn
  BY TurnIs
<1>2. CallModel = out
  BY DEF CallModel
<1>3. /\ MaxBatch \in Nat \ {0} /\ MaxContext \in Nat /\ BatchRows = 1..MaxBatch
      /\ Columns = PromptWidth /\ PromptWidth \in 2..MaxContext /\ PromptWidth < MaxLength
      /\ MaxLength \in Nat /\ GenerationBatch
      /\ deviceCache \in CachesOf(GeneratedTokens)
  <2>1. maskWidth = PromptWidth
    BY DEF GenerationInv, Turns
  <2>2. Columns = PromptWidth
    BY <1>1, <2>1 DEF Columns, InTurn
  <2> QED
    BY <1>1, <2>2 DEF InTurn, BatchRows, GenerationInv
<1>4. ASSUME NEW i \in BatchRows
      PROVE  /\ rows[i] \in PromptRows(GeneratedTokens)
             /\ rows[i].line = i - 1 /\ i - 1 \in Lines
             /\ rows[i].length = texts[i].prompt /\ Own(i) = texts[i].prompt
             /\ \A c \in 1..texts[i].prompt : rows[i].tokens[c] = TextAt(texts[i], c - 1)
             /\ Counts(rows[i])
  <2> DEFINE m == texts[i].prompt
             tokens == [c \in 1..MaxContext |-> IF c <= Columns THEN inputIds[i][c] ELSE Pad]
  <2>1. /\ m \in 2..PromptWidth /\ Len(inputIds[i]) = Columns
        /\ \A c \in 1..Columns : inputIds[i][c] = OwnText(texts[i], c)
        /\ i - 1 \in Lines /\ LastPosition(i) = shown[i] - 1 /\ Own(i) = shown[i]
        /\ shown[i] = m + maskWidth - PromptWidth
    BY <1>1 DEF InTurn
  <2>2. maskWidth = PromptWidth
    BY DEF GenerationInv, Turns
  <2>3. LastPosition(i) + 1 = m /\ Own(i) = m
    BY <1>3, <2>1, <2>2
  <2>4. rows[i] = [line |-> i - 1, length |-> m, tokens |-> tokens]
    BY <2>1, <2>3 DEF PromptRow
  <2>5. m \in Nat /\ m >= 2 /\ m <= MaxContext /\ m <= Columns /\ m < MaxLength
    BY <1>3, <2>1
  <2>6. ASSUME NEW c \in 1..m
        PROVE  /\ c \in 1..MaxContext /\ tokens[c] = TextAt(texts[i], c - 1)
               /\ tokens[c] \in GeneratedTokens /\ tokens[c] # Pad
    <3>1. /\ c \in 1..MaxContext /\ c \in 1..Columns /\ c <= m /\ c - 1 \in Nat /\ c - 1 \in Positions
          /\ c - 1 < m /\ c <= Columns
      BY <1>3, <2>5 DEF Positions
    <3>2. tokens[c] = TextAt(texts[i], c - 1)
      BY <2>1, <3>1 DEF OwnText
    <3>3. c - 1 < TextLength(texts[i])
      BY <1>3, <2>5, <3>1, TokensAre
    <3> QED
      BY <1>3, <3>1, <3>2, <3>3, TokensAre
  <2>7. ASSUME NEW c \in 1..MaxContext, ~(c \in 1..m) PROVE tokens[c] = Pad
    <3>1. ~(c <= m) /\ c \in Nat
      BY <1>3, <2>5, <2>7
    <3>2. CASE c <= Columns
      <4>1. c \in 1..Columns /\ c <= PromptWidth
        BY <1>3, <3>1, <3>2
      <4> QED
        BY <2>1, <3>1, <3>2, <4>1 DEF OwnText
    <3>3. CASE ~(c <= Columns)
      BY <3>3
    <3> QED
      BY <3>2, <3>3
  <2>8. DOMAIN tokens = 1..MaxContext
    OBVIOUS
  <2>9. tokens = [c \in 1..MaxContext |-> tokens[c]]
    OBVIOUS
  <2> HIDE DEF tokens, m
  <2>10. tokens \in [1..MaxContext -> GeneratedTokens]
    <3>1. \A c \in 1..MaxContext : tokens[c] \in GeneratedTokens
      BY <2>6, <2>7 DEF GeneratedTokens
    <3> QED
      BY <2>9, <3>1
  <2>11. {c \in DOMAIN tokens : tokens[c] # Pad} = 1..m
    BY <2>6, <2>7, <2>8
  <2>12. Cardinality(1..m) = m
    BY <2>5, FS_Interval
  <2>13. Counts(rows[i])
    <3>1. rows[i].tokens = tokens /\ rows[i].length = m
      BY <2>4
    <3>2. CountedLength(rows[i]) = m
      BY <2>11, <2>12, <3>1, Zenon DEF CountedLength
    <3> QED
      BY <2>5, <3>1, <3>2 DEF Counts
  <2>14. m \in 1..MaxContext
    BY <1>3, <2>5
  <2>15. rows[i] \in PromptRows(GeneratedTokens)
    BY <2>1, <2>4, <2>10, <2>14 DEF PromptRows
  <2> QED
    BY <2>1, <2>3, <2>4, <2>6, <2>13, <2>15 DEF m
<1>5. DOMAIN rows = 1..MaxBatch /\ rows = [i \in 1..MaxBatch |-> rows[i]]
  BY <1>3
<1> HIDE DEF rows
<1>6. rows \in Seq(PromptRows(GeneratedTokens)) /\ Len(rows) = MaxBatch
  <2>1. MaxBatch \in Nat /\ \A i \in 1..MaxBatch : rows[i] \in PromptRows(GeneratedTokens)
    BY <1>3, <1>4
  <2> QED
    BY <1>5, <2>1, ListIs
<1>7. Placed(rows) /\ Spread(rows)
  <2>1. \A i \in 1..MaxBatch : rows[i].line = i - 1 /\ i - 1 \in Lines
    BY <1>3, <1>4
  <2> QED
    BY <1>3, <1>5, <2>1 DEF Placed, Spread
<1>8. Encoded(GeneratedTokens, MaxBatch, rows, out)
  <2>1. MaxBatch \in 1..MaxBatch /\ FALSE \in BOOLEAN /\ Zero \in GeneratedTokens
    BY <1>3 DEF GeneratedTokens
  <2> HIDE DEF out
  <2>2. \A b \in BOOLEAN : Encoded(GeneratedTokens, MaxBatch, rows, ContextEncodingModel(deviceCache, b, MaxBatch, rows))
    BY <1>3, <1>6, <1>7, <2>1, WholeBatchEncoded
  <2> QED
    BY <2>1, <2>2, Zenon DEF out
<1> HIDE DEF out
<1>9. ASSUME NEW i \in unfinished
      PROVE  /\ out.answers[i] = [c \in 1..Own(i) |-> TextAt(texts[i], c - 1)]
             /\ \A p \in 0..(Own(i) - 1) : out.cache[i - 1][p] = TextAt(texts[i], p)
  <2> DEFINE m == texts[i].prompt
  <2>1. i \in 1..MaxBatch /\ i \in BatchRows /\ m \in 2..PromptWidth
    BY <1>1, <1>3 DEF InTurn
  <2>2. /\ out.answers[i] = SubSeq(rows[i].tokens, 1, m)
        /\ \A p \in Positions : p < m => out.cache[i - 1][p] = rows[i].tokens[p + 1]
    BY <1>4, <1>8, <2>1 DEF Encoded
  <2>3. m \in Nat /\ m <= MaxContext /\ m < MaxLength /\ Own(i) = m
    BY <1>3, <1>4, <2>1
  <2>4. ASSUME NEW p \in 0..(m - 1) PROVE out.cache[i - 1][p] = TextAt(texts[i], p)
    <3>1. p \in Positions /\ p < m /\ p + 1 \in 1..m /\ (p + 1) - 1 = p
      BY <1>3, <2>3 DEF Positions
    <3>2. rows[i].tokens[p + 1] = TextAt(texts[i], (p + 1) - 1)
      BY <1>4, <2>1, <3>1
    <3> QED
      BY <2>2, <3>1, <3>2
  <2>5. SubSeq(rows[i].tokens, 1, m) = [c \in 1..m |-> TextAt(texts[i], c - 1)]
    <3> DEFINE s == rows[i].tokens
    <3>1. s \in [1..MaxContext -> GeneratedTokens]
      BY <1>4, <2>1 DEF PromptRows
    <3>2. \A c \in 1..m : s[c] = TextAt(texts[i], c - 1)
      BY <1>4, <2>1
    <3> HIDE DEF s, m
    <3>3. s \in Seq(GeneratedTokens) /\ Len(s) = MaxContext
      <4>1. DOMAIN s = 1..MaxContext /\ s = [c \in 1..MaxContext |-> s[c]]
            /\ \A c \in 1..MaxContext : s[c] \in GeneratedTokens
        BY <3>1
      <4> QED
        BY <1>3, <4>1, ListIs
    <3>4. SubSeq(s, 1, m) = [c \in 1..m |-> s[c]]
      BY <1>3, <2>3, <3>3
    <3> QED
      BY <3>2, <3>4 DEF s
  <2> QED
    BY <2>2, <2>3, <2>4, <2>5
<1> QED
  BY <1>2, <1>8, <1>9 DEF AnsweredBy, Encoded

\* What a column of a row is.
LEMMA OwnTextIs ==
  ASSUME GenerationBatch, NEW i \in BatchRows, NEW c \in Nat, c >= 1
  PROVE  /\ OwnText(texts[i], c) \in GeneratedTokens
         /\ c > PromptWidth =>
              OwnText(texts[i], c) =
                IF texts[i].prompt + c - PromptWidth - 1 > TextLength(texts[i]) THEN Pad
                ELSE TextAt(texts[i], texts[i].prompt + c - PromptWidth - 1)
<1> DEFINE m == texts[i].prompt
           p == m + c - PromptWidth - 1
<1>1. m \in Nat /\ PromptWidth \in Nat /\ m <= PromptWidth /\ TextLength(texts[i]) \in Nat
  BY WidthIs, TokensAre, ServingAssumption DEF WidthFits
<1>2. OwnText(texts[i], c) =
        IF c <= m THEN TextAt(texts[i], c - 1)
        ELSE IF c <= PromptWidth \/ p > TextLength(texts[i]) THEN Pad ELSE TextAt(texts[i], p)
  BY DEF OwnText
<1> HIDE DEF m
<1>3. c > PromptWidth => ~(c <= m) /\ ~(c <= PromptWidth) /\ p \in Nat
  BY <1>1
<1>4. c > PromptWidth =>
        OwnText(texts[i], c) = IF p > TextLength(texts[i]) THEN Pad ELSE TextAt(texts[i], p)
  BY <1>2, <1>3
<1>5. OwnText(texts[i], c) \in GeneratedTokens
  <2>1. CASE c <= m
    <3>1. c - 1 \in Nat
      OBVIOUS
    <3> QED
      BY <1>2, <2>1, <3>1, TokensAre
  <2>2. CASE ~(c <= m) /\ c > PromptWidth
    <3>1. TextAt(texts[i], p) \in GeneratedTokens
      BY <1>3, <2>2, TokensAre
    <3> QED
      BY <1>4, <2>2, <3>1 DEF GeneratedTokens
  <2>3. CASE ~(c <= m) /\ ~(c > PromptWidth)
    <3>1. c <= PromptWidth
      BY <1>1, <2>3
    <3> QED
      BY <1>2, <2>3, <3>1 DEF GeneratedTokens
  <2> QED
    BY <2>1, <2>2, <2>3
<1> QED
  BY <1>4, <1>5 DEF m

\* A later call takes the last column, at the place that the mask says.
LEMMA LaterCallIs ==
  ASSUME GenerationInv, caller = "sampling", unfinished # {}, kvPopulated
  PROVE  AnsweredBy(CallModel)
<1> DEFINE rows == [i \in BatchRows |->
                      [line |-> i - 1, token |-> Last(inputIds[i]), position |-> LastPosition(i) + 1]]
           out == TokenGenerationModel(deviceCache, FALSE, MaxBatch, rows)
<1>1. InTurn
  BY TurnIs
<1>2. CallModel = out
  BY DEF CallModel
<1>3. /\ MaxBatch \in Nat \ {0} /\ BatchRows = 1..MaxBatch /\ MaxLength \in Nat /\ MaxLength > 0
      /\ Columns \in Nat /\ maskWidth \in Nat /\ maskWidth >= PromptWidth /\ Columns = maskWidth + 1
      /\ PromptWidth \in Nat
      /\ GenerationBatch /\ deviceCache \in CachesOf(GeneratedTokens) /\ Populated
  BY <1>1, ServingAssumption DEF Columns, InTurn, BatchRows, GenerationInv
<1>4. ASSUME NEW i \in BatchRows
      PROVE  /\ rows[i] \in TokenRows(GeneratedTokens)
             /\ rows[i].line = i - 1 /\ i - 1 \in Lines
             /\ rows[i].position = shown[i] /\ Own(i) = shown[i] + 1 /\ shown[i] \in Nat
             /\ shown[i] < MaxLength /\ shown[i] >= 2
             /\ rows[i].token = OwnText(texts[i], Columns)
             /\ shown[i] = texts[i].prompt + Columns - PromptWidth - 1
  <2>1. /\ i - 1 \in Lines /\ LastPosition(i) = shown[i] - 1 /\ Own(i) = shown[i] + 1
        /\ shown[i] \in Nat /\ shown[i] < MaxLength /\ shown[i] >= 2 /\ Len(inputIds[i]) = Columns
        /\ \A c \in 1..Columns : inputIds[i][c] = OwnText(texts[i], c)
        /\ shown[i] = texts[i].prompt + maskWidth - PromptWidth /\ texts[i].prompt \in 2..PromptWidth
    BY <1>1 DEF InTurn
  <2>2. Columns \in 1..Columns
    BY <1>3
  <2>3. Last(inputIds[i]) = OwnText(texts[i], Columns)
    BY <2>1, <2>2 DEF Last
  <2>4. OwnText(texts[i], Columns) \in GeneratedTokens
    <3>1. Columns >= 1
      BY <1>3
    <3> QED
      BY <1>3, <3>1, OwnTextIs
  <2>5. LastPosition(i) + 1 = shown[i] /\ shown[i] \in Positions
    BY <1>3, <2>1 DEF Positions
  <2>6. rows[i] = [line |-> i - 1, token |-> OwnText(texts[i], Columns), position |-> shown[i]]
    BY <2>3, <2>5
  <2>7. shown[i] = texts[i].prompt + Columns - PromptWidth - 1
    BY <1>3, <2>1
  <2>8. rows[i] \in TokenRows(GeneratedTokens)
    BY <2>1, <2>4, <2>5, <2>6 DEF TokenRows
  <2> HIDE DEF rows
  <2> QED
    BY <2>1, <2>6, <2>7, <2>8
<1>5. DOMAIN rows = 1..MaxBatch /\ rows = [i \in 1..MaxBatch |-> rows[i]]
  BY <1>3
<1> HIDE DEF rows
<1>6. rows \in Seq(TokenRows(GeneratedTokens)) /\ Len(rows) = MaxBatch
  <2>1. MaxBatch \in Nat /\ \A i \in 1..MaxBatch : rows[i] \in TokenRows(GeneratedTokens)
    BY <1>3, <1>4
  <2> QED
    BY <1>5, <2>1, ListIs
<1>7. Placed(rows) /\ Spread(rows)
  <2>1. \A i \in 1..MaxBatch : rows[i].line = i - 1 /\ i - 1 \in Lines
    BY <1>3, <1>4
  <2> QED
    BY <1>3, <1>5, <2>1 DEF Placed, Spread
<1>8. Continued(GeneratedTokens, deviceCache, MaxBatch, rows, out)
  <2>1. MaxBatch \in 1..MaxBatch /\ FALSE \in BOOLEAN /\ Zero \in GeneratedTokens
    BY <1>3 DEF GeneratedTokens
  <2> HIDE DEF out
  <2>2. \A b \in BOOLEAN :
          Continued(GeneratedTokens, deviceCache, MaxBatch, rows, TokenGenerationModel(deviceCache, b, MaxBatch, rows))
    BY <1>3, <1>6, <1>7, <2>1, TokenGenerationIs
  <2> QED
    BY <2>1, <2>2, Zenon DEF out
<1> HIDE DEF out
<1>9. ASSUME NEW i \in unfinished
      PROVE  /\ out.answers[i] = [c \in 1..Own(i) |-> TextAt(texts[i], c - 1)]
             /\ \A p \in 0..(Own(i) - 1) : out.cache[i - 1][p] = TextAt(texts[i], p)
  <2> DEFINE m == shown[i]
             before == [p \in 1..m |-> deviceCache[i - 1][p - 1]]
             t == TextAt(texts[i], m)
  <2>1. i \in BatchRows /\ i \in 1..MaxBatch /\ Own(i) <= TextLength(texts[i])
    BY <1>1, <1>3 DEF InTurn
  <2>2. m \in Nat /\ Own(i) = m + 1 /\ m < MaxLength
    BY <1>4, <2>1
  <2>3. rows[i].token = t /\ rows[i].position = m /\ rows[i].line = i - 1
    <3>1. texts[i].prompt + Columns - PromptWidth - 1 = m /\ Columns > PromptWidth
      BY <1>3, <1>4, <2>1
    <3>2. TextLength(texts[i]) \in Nat /\ ~(m > TextLength(texts[i]))
      BY <1>3, <2>1, <2>2, TokensAre
    <3>3. OwnText(texts[i], Columns) =
            IF texts[i].prompt + Columns - PromptWidth - 1 > TextLength(texts[i]) THEN Pad
            ELSE TextAt(texts[i], texts[i].prompt + Columns - PromptWidth - 1)
      <4>1. Columns >= 1
        BY <1>3
      <4> QED
        BY <1>3, <2>1, <3>1, <4>1, OwnTextIs
    <3>4. OwnText(texts[i], Columns) = TextAt(texts[i], m)
      BY <3>1, <3>2, <3>3
    <3> QED
      BY <1>4, <2>1, <3>4
  <2>4. out.answers[i] = Append(before, t)
    <3>1. out.answers[i] =
            Append([p \in 1..rows[i].position |-> deviceCache[rows[i].line][p - 1]], rows[i].token)
      BY <1>8, <2>1 DEF Continued
    <3> QED
      BY <2>3, <3>1
  <2>5. \A p \in 0..(m - 1) : deviceCache[i - 1][p] = TextAt(texts[i], p)
    BY <1>3 DEF Populated
  <2>6. Append(before, t) = [c \in 1..(m + 1) |-> TextAt(texts[i], c - 1)]
    <3>1. ASSUME NEW c \in 1..m PROVE before[c] = TextAt(texts[i], c - 1) /\ before[c] \in GeneratedTokens
      <4>1. c - 1 \in 0..(m - 1) /\ c - 1 \in Nat
        BY <2>2
      <4>2. before[c] = TextAt(texts[i], c - 1)
        BY <2>5, <4>1
      <4> QED
        BY <1>3, <2>1, <4>1, <4>2, TokensAre
    <3>2. DOMAIN before = 1..m /\ before = [c \in 1..m |-> before[c]]
      OBVIOUS
    <3>3. t \in GeneratedTokens /\ t = TextAt(texts[i], (m + 1) - 1)
      <4>1. (m + 1) - 1 = m
        BY <2>2
      <4> QED
        BY <1>3, <2>1, <2>2, <4>1, TokensAre
    <3> HIDE DEF before, t, m
    <3>4. before \in Seq(GeneratedTokens) /\ Len(before) = m
      BY <2>2, <3>1, <3>2, ListIs
    <3> DEFINE u == Append(before, t)
    <3>5. u \in Seq(GeneratedTokens) /\ Len(u) = m + 1
          /\ \A c \in 1..(m + 1) : u[c] = IF c <= m THEN before[c] ELSE t
      BY <2>2, <3>3, <3>4
    <3> HIDE DEF u
    <3>6. DOMAIN u = 1..(m + 1) /\ u = [c \in 1..(m + 1) |-> u[c]]
      BY <2>2, <3>5
    <3>7. \A c \in 1..(m + 1) : u[c] = TextAt(texts[i], c - 1)
      <4>1. ASSUME NEW c \in 1..(m + 1) PROVE u[c] = TextAt(texts[i], c - 1)
        <5>1. CASE c <= m
          <6>1. c \in 1..m
            BY <2>2, <5>1
          <6> QED
            BY <3>1, <3>5, <5>1, <6>1
        <5>2. CASE ~(c <= m)
          <6>1. c = m + 1
            BY <2>2, <5>2
          <6> QED
            BY <3>3, <3>5, <5>2, <6>1
        <5> QED
          BY <5>1, <5>2
      <4> QED
        BY <4>1
    <3> QED
      BY <3>6, <3>7 DEF u
  <2>7. ASSUME NEW p \in 0..(Own(i) - 1) PROVE out.cache[i - 1][p] = TextAt(texts[i], p)
    <3>1. p \in Positions /\ (p = m \/ p \in 0..(m - 1))
      BY <1>3, <2>2 DEF Positions
    <3>2. out.cache[i - 1][p] = IF p = m THEN t ELSE deviceCache[i - 1][p]
      <4>1. out.cache[rows[i].line][p] =
              IF p = rows[i].position THEN rows[i].token ELSE deviceCache[rows[i].line][p]
        BY <1>8, <2>1, <3>1 DEF Continued
      <4> QED
        BY <2>3, <4>1
    <3> QED
      BY <2>5, <3>1, <3>2
  <2> QED
    BY <2>2, <2>4, <2>6, <2>7
<1> QED
  BY <1>2, <1>8, <1>9 DEF AnsweredBy, Continued

\* Every call of the loop does that.
LEMMA CallIs ==
  ASSUME GenerationInv, caller = "sampling", unfinished # {}
  PROVE  AnsweredBy(CallModel)
<1>1. kvPopulated \in BOOLEAN
  BY DEF GenerationInv
<1> QED
  BY <1>1, FirstCallIs, LaterCallIs

\* The rows of a batch are its texts.
LEMMA TurnsShow == GenerationBatch /\ Turns => GeneratesOwnText
<1> SUFFICES ASSUME GenerationBatch, Turns PROVE GeneratesOwnText
  OBVIOUS
<1>1. inputIds = [i \in BatchRows |-> [c \in 1..Columns |-> OwnText(texts[i], c)]]
  BY DEF Turns
<1> QED
  BY <1>1 DEF GeneratesOwnText

\* Both hold after a step, too.
LEMMA BatchNext ==
  /\ GenerationBatch' => WidthFits'
  /\ GenerationBatch' /\ Turns' => GeneratesOwnText'
<1>1. GenerationBatch => WidthFits
  BY WidthIs
<1>2. GenerationBatch /\ Turns => GeneratesOwnText
  BY TurnsShow
<1> QED
  BY <1>1, <1>2, PTL

\* A turn of the loop gives every row its next own column.
LEMMA SampleKeeps ==
  ASSUME GenerationInv, SampleNext
  PROVE  GenerationInv'
<1> DEFINE out == CallModel
           more(i) == IF i \in unfinished THEN NextToken(out.answers[i]) ELSE Pad
<1>1. /\ caller = "sampling" /\ unfinished # {}
      /\ deviceCache' = out.cache
      /\ inputIds' = [i \in BatchRows |-> Append(inputIds[i], more(i))]
      /\ shown' = [i \in BatchRows |-> shown[i] + IF kvPopulated THEN 1 ELSE 0]
      /\ maskWidth' = maskWidth + IF kvPopulated THEN 1 ELSE 0
      /\ unfinished' = {i \in unfinished : Last(inputIds'[i]) # EosToken /\ Len(inputIds'[i]) < MaxLength}
      /\ kvPopulated' = TRUE
      /\ generation' = generation /\ caller' = caller /\ texts' = texts
  BY DEF SampleNext, MaskGrows
<1>2. InTurn
  BY <1>1, TurnIs
<1>3. AnsweredBy(out)
  BY <1>1, CallIs
<1>4. /\ GenerationBatch /\ Turns /\ Columns \in Nat /\ Columns < MaxLength /\ MaxLength \in Nat
      /\ PromptWidth \in Nat /\ maskWidth \in Nat /\ maskWidth >= PromptWidth /\ Columns >= PromptWidth
      /\ unfinished \subseteq BatchRows /\ kvPopulated \in BOOLEAN
  <2>1. /\ GenerationBatch /\ Turns /\ Columns \in Nat /\ Columns < MaxLength /\ MaxLength \in Nat
        /\ PromptWidth \in Nat /\ maskWidth \in Nat /\ maskWidth >= PromptWidth
        /\ unfinished \subseteq BatchRows /\ kvPopulated \in BOOLEAN
    BY <1>2, ServingAssumption DEF InTurn, GenerationInv
  <2>2. Columns >= maskWidth
    BY <2>1 DEF Columns
  <2> QED
    BY <2>1, <2>2
<1>5. PromptWidth' = PromptWidth /\ maskWidth' = Columns /\ Columns' = Columns + 1
  <2>1. PromptWidth' = PromptWidth
    BY <1>1 DEF PromptWidth
  <2>2. maskWidth' = Columns
    BY <1>1 DEF Columns
  <2>3. Columns' = maskWidth' + 1
    BY <1>1 DEF Columns
  <2> QED
    BY <2>1, <2>2, <2>3
<1>6. ASSUME NEW i \in BatchRows
      PROVE  /\ Own(i)' = Own(i) + 1 /\ Own(i) \in Nat /\ Own(i) < MaxLength /\ Own(i) >= 1
             /\ Own(i) = texts[i].prompt + Columns - PromptWidth
             /\ shown[i] + (IF kvPopulated THEN 1 ELSE 0) = Own(i)
             /\ Len(inputIds[i]) = Columns
             /\ inputIds[i] \in Seq(GeneratedTokens)
             /\ \A c \in 1..Columns : inputIds[i][c] = OwnText(texts[i], c)
             /\ \A c : OwnText(texts[i], c)' = OwnText(texts[i], c)
             /\ TextLength(texts[i])' = TextLength(texts[i]) /\ TextLength(texts[i]) \in Nat
  <2>1. /\ Own(i) = (IF kvPopulated THEN shown[i] + 1 ELSE shown[i]) /\ shown[i] \in Nat
        /\ Own(i) \in Nat /\ Own(i) >= 2 /\ Own(i) < MaxLength
        /\ Len(inputIds[i]) = Columns /\ texts[i].prompt \in 2..PromptWidth
        /\ \A c \in 1..Columns : inputIds[i][c] = OwnText(texts[i], c)
    BY <1>2 DEF InTurn
  <2>2. Own(i) = texts[i].prompt + Columns - PromptWidth
    BY DEF Own
  <2>3. Own(i)' = texts[i].prompt + (Columns + 1) - PromptWidth
    BY <1>1, <1>5 DEF Own
  <2>4. Own(i)' = Own(i) + 1
    <3>1. texts[i].prompt \in Nat
      BY <1>4, <2>1
    <3> QED
      BY <1>4, <2>2, <2>3, <3>1
  <2>5. shown[i] + (IF kvPopulated THEN 1 ELSE 0) = Own(i) /\ Own(i) >= 1
    BY <1>4, <2>1
  <2>6. \A c : OwnText(texts[i], c)' = OwnText(texts[i], c)
    BY <1>1, <1>5 DEF OwnText
  <2>7. TextLength(texts[i])' = TextLength(texts[i])
    BY <1>1 DEF TextLength
  <2>8. TextLength(texts[i]) \in Nat
    BY <1>4, TokensAre
  <2>9. inputIds[i] \in Seq(GeneratedTokens)
    <3> DEFINE s == inputIds[i]
    <3>1. s = [c \in 1..Columns |-> OwnText(texts[i], c)]
      BY <1>4 DEF Turns
    <3>2. \A c \in 1..Columns : OwnText(texts[i], c) \in GeneratedTokens
      <4>1. \A c \in 1..Columns : c \in Nat /\ c >= 1
        BY <1>4
      <4> QED
        BY <1>4, <4>1, OwnTextIs
    <3>3. DOMAIN s = 1..Columns /\ s = [c \in 1..Columns |-> s[c]]
          /\ \A c \in 1..Columns : s[c] \in GeneratedTokens
      BY <3>1, <3>2
    <3> HIDE DEF s
    <3>4. s \in Seq(GeneratedTokens)
      BY <1>4, <3>3, ListIs
    <3> QED
      BY <3>4 DEF s
  <2> QED
    BY <2>1, <2>2, <2>4, <2>5, <2>6, <2>7, <2>8, <2>9
<1>7. ASSUME NEW i \in BatchRows
      PROVE  /\ more(i) = OwnText(texts[i], Columns + 1) /\ more(i) \in GeneratedTokens
             /\ i \in unfinished => more(i) = TextAt(texts[i], Own(i))
  <2>1. Columns + 1 > PromptWidth /\ Columns + 1 \in Nat /\ Columns + 1 >= 1
        /\ texts[i].prompt + (Columns + 1) - PromptWidth - 1 = Own(i)
    <3>1. texts[i].prompt \in Nat
      BY <1>4 DEF GenerationBatch
    <3> QED
      BY <1>4, <1>6, <3>1
  <2>2. OwnText(texts[i], Columns + 1) = IF Own(i) > TextLength(texts[i]) THEN Pad ELSE TextAt(texts[i], Own(i))
    <3>1. OwnText(texts[i], Columns + 1) =
            IF texts[i].prompt + (Columns + 1) - PromptWidth - 1 > TextLength(texts[i]) THEN Pad
            ELSE TextAt(texts[i], texts[i].prompt + (Columns + 1) - PromptWidth - 1)
      BY <1>4, <2>1, OwnTextIs
    <3> QED
      BY <2>1, <3>1
  <2>3. OwnText(texts[i], Columns + 1) \in GeneratedTokens
    BY <1>4, <2>1, OwnTextIs
  <2>4. CASE i \in unfinished
    <3>1. Own(i) <= TextLength(texts[i])
      BY <1>2, <2>4 DEF InTurn
    <3>2. out.answers[i] = [c \in 1..Own(i) |-> TextAt(texts[i], c - 1)]
      BY <1>3, <2>4 DEF AnsweredBy
    <3>3. NextToken(out.answers[i]) = TextAt(texts[i], Own(i))
      BY <1>4, <1>6, <3>1, <3>2, NextTokenIs
    <3>4. more(i) = TextAt(texts[i], Own(i))
      BY <2>4, <3>3
    <3>5. ~(Own(i) > TextLength(texts[i]))
      BY <1>6, <3>1
    <3> QED
      BY <2>2, <2>3, <3>4, <3>5
  <2>5. CASE i \notin unfinished
    <3>1. Own(i) > TextLength(texts[i])
      BY <1>4, <1>6, <2>5 DEF Turns
    <3>2. more(i) = Pad
      BY <2>5
    <3> QED
      BY <2>2, <2>3, <2>5, <3>1, <3>2
  <2> QED
    BY <2>4, <2>5
<1> HIDE DEF out, more
<1>8. ASSUME NEW i \in BatchRows
      PROVE  /\ inputIds'[i] = [c \in 1..(Columns + 1) |-> OwnText(texts[i], c)]
             /\ Len(inputIds'[i]) = Columns + 1 /\ Last(inputIds'[i]) = more(i)
  <2> DEFINE s == inputIds[i]
             u == inputIds'[i]
  <2>1. u = Append(s, more(i)) /\ s \in Seq(GeneratedTokens) /\ Len(s) = Columns /\ more(i) \in GeneratedTokens
    BY <1>1, <1>6, <1>7
  <2>2. \A c \in 1..Columns : s[c] = OwnText(texts[i], c)
    BY <1>6
  <2> HIDE DEF s, u
  <2>3. u \in Seq(GeneratedTokens) /\ Len(u) = Columns + 1
        /\ \A c \in 1..(Columns + 1) : u[c] = IF c <= Columns THEN s[c] ELSE more(i)
    BY <1>4, <2>1
  <2>4. DOMAIN u = 1..(Columns + 1) /\ u = [c \in 1..(Columns + 1) |-> u[c]]
    BY <1>4, <2>3
  <2>5. Last(u) = more(i)
    <3>1. Columns + 1 \in 1..(Columns + 1) /\ ~(Columns + 1 <= Columns)
      BY <1>4
    <3>2. u[Columns + 1] = more(i)
      BY <2>3, <3>1
    <3> QED
      BY <2>3, <3>2 DEF Last
  <2>6. ASSUME NEW c \in 1..(Columns + 1) PROVE u[c] = OwnText(texts[i], c)
    <3>1. CASE c <= Columns
      <4>1. c \in 1..Columns
        BY <1>4, <3>1
      <4> QED
        BY <2>2, <2>3, <3>1, <4>1
    <3>2. CASE ~(c <= Columns)
      <4>1. c = Columns + 1
        BY <1>4, <3>2
      <4> QED
        BY <1>7, <2>3, <3>2, <4>1
    <3> QED
      BY <3>1, <3>2
  <2> QED
    BY <2>3, <2>4, <2>5, <2>6 DEF u
<1>9. ASSUME NEW i \in unfinished
      PROVE  more(i) # EosToken <=> Own(i) + 1 <= TextLength(texts[i])
  <2>1. i \in BatchRows /\ Own(i) \in Positions /\ Own(i) <= TextLength(texts[i])
    <3>1. i \in BatchRows
      BY <1>4
    <3>2. Own(i) \in Positions
      BY <1>4, <1>6, <3>1 DEF Positions
    <3> QED
      BY <1>2, <3>1, <3>2 DEF InTurn
  <2>2. CASE Own(i) < TextLength(texts[i])
    <3>1. TextAt(texts[i], Own(i)) \notin {Pad, EosToken}
      BY <1>4, <1>6, <2>1, <2>2, TokensAre
    <3> QED
      BY <1>6, <1>7, <2>1, <2>2, <3>1
  <2>3. CASE ~(Own(i) < TextLength(texts[i]))
    <3>1. Own(i) >= TextLength(texts[i])
      BY <1>6, <2>1, <2>3
    <3>2. TextAt(texts[i], Own(i)) = EosToken
      BY <1>4, <1>6, <2>1, <3>1, TokensAre
    <3> QED
      BY <1>6, <1>7, <2>1, <2>3, <3>2
  <2> QED
    BY <2>2, <2>3
<1>10. unfinished' = {i \in BatchRows : Columns + 1 < MaxLength /\ Own(i) + 1 <= TextLength(texts[i])}
  <2>1. ASSUME NEW i \in unfinished'
        PROVE  i \in BatchRows /\ Columns + 1 < MaxLength /\ Own(i) + 1 <= TextLength(texts[i])
    <3>1. i \in unfinished /\ Last(inputIds'[i]) # EosToken /\ Len(inputIds'[i]) < MaxLength
      BY <1>1, <2>1
    <3>2. i \in BatchRows
      BY <1>4, <3>1
    <3> QED
      BY <1>8, <1>9, <3>1, <3>2
  <2>2. ASSUME NEW i \in BatchRows, Columns + 1 < MaxLength, Own(i) + 1 <= TextLength(texts[i])
        PROVE  i \in unfinished'
    <3>1. Columns < MaxLength /\ Own(i) <= TextLength(texts[i])
      BY <1>4, <1>6, <2>2
    <3>2. i \in unfinished
      BY <1>4, <3>1 DEF Turns
    <3> QED
      BY <1>1, <1>8, <1>9, <2>2, <3>2
  <2> QED
    BY <2>1, <2>2
<1>11. Turns'
  <2>1. maskWidth' \in Nat /\ maskWidth' >= PromptWidth' /\ Columns' <= MaxLength
    BY <1>4, <1>5
  <2>2. inputIds' = [i \in BatchRows |-> [c \in 1..Columns' |-> OwnText(texts[i], c)']]
    <3>1. inputIds' = [i \in BatchRows |-> inputIds'[i]]
      BY <1>1
    <3>2. \A i \in BatchRows : inputIds'[i] = [c \in 1..Columns' |-> OwnText(texts[i], c)']
      BY <1>5, <1>6, <1>8
    <3> QED
      BY <3>1, <3>2
  <2>3. shown' = [i \in BatchRows |-> texts'[i].prompt + maskWidth' - PromptWidth']
    <3>1. \A i \in BatchRows : shown[i] + (IF kvPopulated THEN 1 ELSE 0) = texts'[i].prompt + maskWidth' - PromptWidth'
      BY <1>1, <1>5, <1>6
    <3> QED
      BY <1>1, <3>1
  <2>4. unfinished' = {i \in BatchRows : Columns' < MaxLength /\ Own(i)' <= TextLength(texts[i])'}
    BY <1>5, <1>6, <1>10
  <2> QED
    BY <1>1, <2>1, <2>2, <2>3, <2>4 DEF Turns
<1>12. GenerationBatch'
  BY <1>1, <1>4 DEF GenerationBatch
<1>13. Populated'
  <2>1. ASSUME NEW i \in unfinished', NEW p \in 0..(shown'[i] - 1)
        PROVE  deviceCache'[i - 1][p] = TextAt(texts[i], p)'
    <3>1. i \in unfinished /\ i \in BatchRows
      BY <1>1, <1>4
    <3>2. shown'[i] = Own(i)
      BY <1>1, <1>6, <3>1
    <3>3. TextAt(texts[i], p)' = TextAt(texts[i], p)
      BY <1>1 DEF TextAt, TextLength
    <3>4. out.cache[i - 1][p] = TextAt(texts[i], p)
      BY <1>3, <2>1, <3>1, <3>2 DEF AnsweredBy
    <3> QED
      BY <1>1, <3>3, <3>4
  <2> QED
    BY <2>1 DEF Populated
<1>14. deviceCache' \in CachesOf(GeneratedTokens)
  BY <1>1, <1>3 DEF AnsweredBy
<1>15. generation' \in 0..MaxGenerations /\ caller' = "sampling" /\ kvPopulated' = TRUE
  BY <1>1 DEF GenerationInv
<1> QED
  BY <1>11, <1>12, <1>13, <1>14, <1>15, BatchNext DEF GenerationInv

\* A new batch: its prompts, padded to the width of the longest.
LEMMA GenerateKeeps ==
  ASSUME GenerationInv, NEW shapes \in [BatchRows -> TextShapes], Generate(shapes)
  PROVE  GenerationInv'
<1> DEFINE width == Max({shapes[i].prompt : i \in BatchRows})
           text(i) == [tag |-> <<generation, i>>, prompt |-> shapes[i].prompt, own |-> shapes[i].own]
<1>1. /\ caller = "idle" /\ generation < MaxGenerations /\ generation' = generation + 1
      /\ caller' = "sampling" /\ texts' = [i \in BatchRows |-> text(i)]
      /\ inputIds' = [i \in BatchRows |-> [c \in 1..width |->
           IF c <= shapes[i].prompt THEN TextAt(text(i), c - 1) ELSE Pad]]
      /\ shown' = [i \in BatchRows |-> shapes[i].prompt]
      /\ maskWidth' = width /\ unfinished' = BatchRows
      /\ kvPopulated' = kvPopulated /\ deviceCache' = deviceCache
  BY DEF Generate
<1>2. generation \in 0..MaxGenerations /\ MaxGenerations \in Nat /\ ~kvPopulated
      /\ MaxLength \in Nat /\ MaxContext \in Nat
  BY <1>1, GenerationAssumption, ServingAssumption DEF GenerationInv
<1>3. \A i \in BatchRows : /\ shapes[i].prompt \in 2..MaxContext /\ shapes[i].prompt < MaxLength
                           /\ shapes[i].own \in Nat
  BY GenerationAssumption
<1>4. GenerationBatch'
  <2>1. \A i \in BatchRows : text(i) \in [tag : Tags, prompt : 2..MaxContext, own : Nat]
    BY <1>2, <1>3 DEF Tags
  <2>2. texts' \in [BatchRows -> [tag : Tags, prompt : 2..MaxContext, own : Nat]]
    BY <1>1, <2>1
  <2>3. \A i, k \in BatchRows : texts'[i].tag = texts'[k].tag => i = k
    BY <1>1
  <2>4. \A i \in BatchRows : texts'[i].prompt < MaxLength
    BY <1>1, <1>3
  <2> QED
    BY <2>2, <2>3, <2>4 DEF GenerationBatch
<1>5. PromptWidth' = width /\ Columns' = width
  <2>1. {texts'[i].prompt : i \in DOMAIN texts'} = {shapes[i].prompt : i \in BatchRows}
    BY <1>1
  <2>2. PromptWidth' = width
    BY <2>1 DEF PromptWidth
  <2>3. Columns' = maskWidth' + 0
    BY <1>1, <1>2 DEF Columns
  <2>4. width \in Nat
    BY <1>2, <1>4, <2>2, BatchNext DEF WidthFits
  <2> QED
    BY <1>1, <2>2, <2>3, <2>4
<1>6. /\ width \in Nat /\ width < MaxLength
      /\ \A i \in BatchRows : shapes[i].prompt \in 2..width
  <2>1. /\ PromptWidth' \in 2..MaxContext /\ PromptWidth' < MaxLength
        /\ \A i \in BatchRows : texts'[i].prompt \in 2..PromptWidth'
    BY <1>4, BatchNext DEF WidthFits
  <2>2. \A i \in BatchRows : texts'[i].prompt = shapes[i].prompt
    BY <1>1
  <2> HIDE DEF width
  <2> QED
    BY <1>2, <1>5, <2>1, <2>2
<1>7. ASSUME NEW i \in BatchRows
      PROVE  /\ texts'[i] = text(i) /\ texts'[i].prompt = shapes[i].prompt
             /\ Own(i)' = shapes[i].prompt /\ Own(i)' <= TextLength(texts[i])'
             /\ \A c \in 1..width : OwnText(texts[i], c)' =
                  IF c <= shapes[i].prompt THEN TextAt(text(i), c - 1) ELSE Pad
  <2>1. texts'[i] = text(i) /\ texts'[i].prompt = shapes[i].prompt /\ texts'[i].own = shapes[i].own
    BY <1>1
  <2>2. shapes[i].prompt \in Nat /\ shapes[i].own \in Nat
    BY <1>2, <1>3
  <2> HIDE DEF width, text
  <2>3. Own(i)' = shapes[i].prompt
    <3>1. Own(i)' = texts'[i].prompt + Columns' - PromptWidth'
      BY DEF Own
    <3> QED
      BY <1>5, <1>6, <2>1, <2>2, <3>1
  <2>4. TextLength(texts[i])' = shapes[i].prompt + shapes[i].own
    BY <2>1 DEF TextLength
  <2>5. ASSUME NEW c \in 1..width
        PROVE  OwnText(texts[i], c)' = IF c <= shapes[i].prompt THEN TextAt(text(i), c - 1) ELSE Pad
    <3>1. c <= PromptWidth'
      BY <1>5, <1>6
    <3>2. TextAt(texts[i], c - 1)' = TextAt(text(i), c - 1)
      BY <2>1 DEF TextAt, TextLength
    <3> QED
      BY <2>1, <3>1, <3>2 DEF OwnText
  <2> QED
    BY <2>1, <2>2, <2>3, <2>4, <2>5
<1>8. Turns'
  <2>1. maskWidth' \in Nat /\ maskWidth' >= PromptWidth' /\ Columns' <= MaxLength /\ maskWidth' = PromptWidth'
    BY <1>1, <1>2, <1>5, <1>6
  <2>2. inputIds' = [i \in BatchRows |-> [c \in 1..Columns' |-> OwnText(texts[i], c)']]
    BY <1>1, <1>5, <1>7
  <2>3. shown' = [i \in BatchRows |-> texts'[i].prompt + maskWidth' - PromptWidth']
    <3>1. \A i \in BatchRows : texts'[i].prompt + maskWidth' - PromptWidth' = shapes[i].prompt
      <4>1. \A i \in BatchRows : shapes[i].prompt \in Nat
        BY <1>2, <1>3
      <4> HIDE DEF width
      <4> QED
        BY <1>1, <1>5, <1>6, <1>7, <4>1
    <3> QED
      BY <1>1, <3>1
  <2>4. unfinished' = {i \in BatchRows : Columns' < MaxLength /\ Own(i)' <= TextLength(texts[i])'}
    BY <1>1, <1>5, <1>6, <1>7
  <2> QED
    BY <2>1, <2>2, <2>3, <2>4 DEF Turns
<1>9. /\ generation' \in 0..MaxGenerations /\ caller' = "sampling" /\ kvPopulated' \in BOOLEAN /\ ~kvPopulated'
      /\ deviceCache' \in CachesOf(GeneratedTokens)
  BY <1>1, <1>2 DEF GenerationInv
<1> QED
  BY <1>4, <1>8, <1>9, BatchNext DEF GenerationInv

\* What a step that leaves the rows alone keeps.
LEMMA SameBatch ==
  ASSUME UNCHANGED <<texts, inputIds, shown, maskWidth, unfinished, kvPopulated>>
  PROVE  /\ GenerationBatch => GenerationBatch'
         /\ Turns => Turns'
<1>1. PromptWidth' = PromptWidth /\ Columns' = Columns
  BY DEF PromptWidth, Columns
<1>2. \A i : Own(i)' = Own(i) /\ TextLength(texts[i])' = TextLength(texts[i])
  BY <1>1 DEF Own, TextLength
<1>3. \A i, c : OwnText(texts[i], c)' = OwnText(texts[i], c)
  BY <1>1 DEF OwnText, TextAt, TextLength
<1>4. GenerationBatch => GenerationBatch'
  BY DEF GenerationBatch
<1>5. ASSUME Turns PROVE Turns'
  <2>1. inputIds' = [i \in BatchRows |-> [c \in 1..Columns' |-> OwnText(texts[i], c)']]
    BY <1>1, <1>3, <1>5 DEF Turns
  <2>2. unfinished' = {i \in BatchRows : Columns' < MaxLength /\ Own(i)' <= TextLength(texts[i])'}
    BY <1>1, <1>2, <1>5 DEF Turns
  <2>3. shown' = [i \in BatchRows |-> texts'[i].prompt + maskWidth' - PromptWidth']
    BY <1>1, <1>5 DEF Turns
  <2> QED
    BY <1>1, <1>5, <2>1, <2>2, <2>3 DEF Turns
<1> QED
  BY <1>4, <1>5

\* The same for the property itself.
LEMMA SameRows ==
  ASSUME UNCHANGED <<texts, inputIds>>, GeneratesOwnText
  PROVE  GeneratesOwnText'
<1>1. PromptWidth' = PromptWidth
  BY DEF PromptWidth
<1>2. \A i, c : OwnText(texts[i], c)' = OwnText(texts[i], c)
  BY <1>1 DEF OwnText, TextAt, TextLength
<1> QED
  BY <1>2 DEF GeneratesOwnText

\* A call that fails, the reset that follows it, and the return of a finished batch.
LEMMA LeaveKeeps ==
  ASSUME GenerationInv, CallFails \/ ResetModel \/ ReturnOutput
  PROVE  GenerationInv'
<1>1. CASE CallFails
  <2>1. /\ caller = "sampling" /\ unfinished # {} /\ caller' = "failed"
        /\ deviceCache' \in {deviceCache, CallModel.cache}
        /\ UNCHANGED <<generation, texts, inputIds, shown, maskWidth, unfinished, kvPopulated>>
    BY <1>1 DEF CallFails
  <2>2. deviceCache' \in CachesOf(GeneratedTokens)
    BY <2>1, CallIs DEF AnsweredBy, GenerationInv
  <2>3. GenerationBatch' /\ Turns' /\ GeneratesOwnText'
    BY <2>1, SameBatch, SameRows DEF GenerationInv
  <2>4. generation' \in 0..MaxGenerations /\ kvPopulated' \in BOOLEAN
    BY <2>1 DEF GenerationInv
  <2> QED
    BY <2>1, <2>2, <2>3, <2>4 DEF GenerationInv
<1>2. CASE ResetModel \/ ReturnOutput
  <2>1. /\ caller' = "idle" /\ kvPopulated' = FALSE
        /\ UNCHANGED <<generation, texts, inputIds, deviceCache>>
    BY <1>2 DEF ResetModel, ReturnOutput
  <2>2. GeneratesOwnText'
    BY <2>1, SameRows DEF GenerationInv
  <2>3. generation' \in 0..MaxGenerations /\ deviceCache' \in CachesOf(GeneratedTokens)
    BY <2>1 DEF GenerationInv
  <2> QED
    BY <2>1, <2>2, <2>3 DEF GenerationInv
<1> QED
  BY <1>1, <1>2

\* Only the generation of batches changes them.
LEMMA UsesKeepBatches == [InferenceNext]_inferenceVars => [GenerationNext]_generationVars
<1>1. ASSUME InferenceNext PROVE GenerationNext \/ UNCHANGED generationVars
  BY <1>1 DEF InferenceNext, Compile, Convert, KeepArtifacts, LoadWeights, Serve, GenerateBatch,
              AssistedDecoding, DecodeSharded, RouteCall
<1>2. ASSUME UNCHANGED inferenceVars PROVE UNCHANGED generationVars
  BY <1>2 DEF inferenceVars
<1> QED
  BY <1>1, <1>2

\* For any shapes of a batch's texts, any buckets and any failures of calls: every row is
\* continued as if it were alone (_sample and prepare_inputs_for_generation of
\* hf_adapter.py, generate_on_neuron).
THEOREM RowsAreOwn == InferenceSpec => []GeneratesOwnText
<1>1. InferenceInit => GenerationInv
  <2> SUFFICES ASSUME GenerationInit PROVE GenerationInv
    BY DEF InferenceInit
  <2>1. EmptyCache \in CachesOf(GeneratedTokens)
    BY DEF EmptyCache, CachesOf, GeneratedTokens
  <2>2. inputIds = <<>> /\ generation = 0 /\ caller = "idle" /\ kvPopulated = FALSE
        /\ deviceCache = EmptyCache
    BY DEF GenerationInit
  <2>3. GeneratesOwnText
    BY <2>2 DEF GeneratesOwnText
  <2>4. generation \in 0..MaxGenerations
    BY <2>2, GenerationAssumption
  <2> QED
    BY <2>1, <2>2, <2>3, <2>4 DEF GenerationInv
<1>2. GenerationInv /\ [InferenceNext]_inferenceVars => GenerationInv'
  <2> SUFFICES ASSUME GenerationInv, [GenerationNext]_generationVars PROVE GenerationInv'
    BY UsesKeepBatches
  <2>1. ASSUME NEW shapes \in [BatchRows -> TextShapes], Generate(shapes) PROVE GenerationInv'
    BY <2>1, GenerateKeeps
  <2>2. CASE SampleNext
    BY <2>2, SampleKeeps
  <2>3. CASE CallFails \/ ResetModel \/ ReturnOutput
    BY <2>3, LeaveKeeps
  <2>4. CASE UNCHANGED generationVars
    <3>1. UNCHANGED <<generation, caller, texts, inputIds, shown, maskWidth, unfinished, kvPopulated,
                      deviceCache>>
      BY <2>4 DEF generationVars
    <3>2. (GenerationBatch => GenerationBatch') /\ (Turns => Turns') /\ GeneratesOwnText'
      BY <3>1, SameBatch, SameRows DEF GenerationInv
    <3>3. Populated => Populated'
      BY <3>1 DEF Populated, TextAt, TextLength
    <3> QED
      BY <3>1, <3>2, <3>3 DEF GenerationInv
  <2> QED
    BY <2>1, <2>2, <2>3, <2>4 DEF GenerationNext
<1>3. GenerationInv => GeneratesOwnText
  BY DEF GenerationInv
<1> QED
  BY <1>1, <1>2, <1>3, PTL DEF InferenceSpec

------------------------------------------------------------------------------
(* Routers *)

\* torch.topk returns different members of the set, in falling order, and leaves no
\* better one.
LEMMA TopKIs ==
  ASSUME NEW S, IsFiniteSet(S), NEW value, \A x \in S : value[x] \in Int,
         NEW tie, \A x \in S : tie[x] \in Int, \A x, y \in S : tie[x] = tie[y] => x = y,
         NEW k \in Nat, k <= Cardinality(S)
  PROVE  LET top == TopKOf(S, value, k, tie)
         IN  /\ top \in [1..k -> S]
             /\ \A i, j \in 1..k : top[i] = top[j] => i = j
             /\ \A i, j \in 1..k : i < j => value[top[i]] >= value[top[j]]
             /\ \A i \in 1..k : \A x \in S :
                  (\A j \in 1..k : top[j] # x) => value[top[i]] >= value[x]
<1> DEFINE Before(y, x) == value[y] > value[x] \/ (tie[y] < tie[x] /\ value[y] = value[x])
           order == {p \in S \X S : Before(p[1], p[2])}
           Rank(x) == Cardinality(Earlier(S, order, x))
           top == TopKOf(S, value, k, tie)
           n == Cardinality(S)
<1>1. \A x, y \in S : <<y, x>> \in order <=> Before(y, x)
  OBVIOUS
<1>2. StrictOrder(S, order)
  <2>1. \A x \in S : ~Before(x, x)
    OBVIOUS
  <2>2. \A x, y \in S : x # y => Before(x, y) \/ Before(y, x)
    OBVIOUS
  <2>3. \A x, y, z \in S : Before(x, y) /\ Before(y, z) => Before(x, z)
    OBVIOUS
  <2> HIDE DEF Before, order
  <2> QED
    BY <1>1, <2>1, <2>2, <2>3 DEF StrictOrder
<1>3. /\ n \in Nat
      /\ \A x, y \in S : Rank(x) = Rank(y) => x = y
      /\ \A i \in 0..(n - 1) : \E x \in S : Rank(x) = i
  <2> HIDE DEF order
  <2> QED
    BY <1>2, RanksAre
<1>4. \A x \in S : Earlier(S, order, x) = {y \in S : Before(y, x)}
  <2> HIDE DEF Before, order
  <2> QED
    BY <1>1 DEF Earlier
<1>5. top = [i \in 1..k |-> CHOOSE x \in S : Rank(x) = i - 1]
  <2> DEFINE Ahead(x) == {y \in S : Before(y, x)}
  <2>1. top = [i \in 1..k |-> CHOOSE x \in S : Cardinality(Ahead(x)) = i - 1]
    BY DEF TopKOf
  <2>2. \A x \in S : Ahead(x) = Earlier(S, order, x)
    BY <1>4
  <2> HIDE DEF Ahead, order, top
  <2> DEFINE A(i) == CHOOSE x \in S : Cardinality(Ahead(x)) = i - 1
             B(i) == CHOOSE x \in S : Rank(x) = i - 1
  <2>3. \A i : A(i) = B(i)
    BY <2>2
  <2>4. top = [i \in 1..k |-> A(i)]
    BY <2>1
  <2>5. top = [i \in 1..k |-> B(i)]
    <3> HIDE DEF A, B
    <3> QED
      BY <2>3, <2>4
  <2> QED
    BY <2>5
<1>6. ASSUME NEW i \in 1..k PROVE top[i] \in S /\ Rank(top[i]) = i - 1
  <2>1. i - 1 \in 0..(n - 1)
    BY <1>3
  <2> HIDE DEF Rank, top
  <2>2. top[i] = CHOOSE x \in S : Rank(x) = i - 1
    BY <1>5
  <2> QED
    BY <1>3, <2>1, <2>2
<1>7. ASSUME NEW x \in S, NEW y \in S, Rank(x) < Rank(y) PROVE value[x] >= value[y]
  <2>1. ~Before(y, x)
    <3> SUFFICES ASSUME Before(y, x) PROVE FALSE
      OBVIOUS
    <3>1. Earlier(S, order, y) \in SUBSET Earlier(S, order, x)
      <4> HIDE DEF order, Before
      <4>1. <<y, x>> \in order
        BY <1>1
      <4> QED
        BY <1>2, <4>1 DEF StrictOrder, Earlier
    <3>2. IsFiniteSet(Earlier(S, order, x))
      BY FS_Subset DEF Earlier
    <3> HIDE DEF order
    <3>3. Rank(y) <= Rank(x) /\ Rank(x) \in Nat /\ Rank(y) \in Nat
      BY <3>1, <3>2, FS_Subset, FS_CardinalityType
    <3> HIDE DEF Rank
    <3> QED
      BY <1>7, <3>3
  <2> QED
    BY <2>1
<1> HIDE DEF Rank, top
<1>8. top \in [1..k -> S]
  BY <1>5, <1>6
<1>9. \A i, j \in 1..k : top[i] = top[j] => i = j
  <2> SUFFICES ASSUME NEW i \in 1..k, NEW j \in 1..k, top[i] = top[j] PROVE i = j
    OBVIOUS
  <2>1. i - 1 = j - 1
    BY <1>6
  <2> QED
    BY <2>1
<1>10. \A i, j \in 1..k : i < j => value[top[i]] >= value[top[j]]
  <2> SUFFICES ASSUME NEW i \in 1..k, NEW j \in 1..k, i < j PROVE value[top[i]] >= value[top[j]]
    OBVIOUS
  <2>1. Rank(top[i]) < Rank(top[j])
    BY <1>6
  <2> QED
    BY <1>6, <1>7, <2>1
<1>11. ASSUME NEW i \in 1..k, NEW x \in S, \A j \in 1..k : top[j] # x
       PROVE  value[top[i]] >= value[x]
  <2>1. Rank(x) \in Nat
    <3>1. IsFiniteSet(Earlier(S, order, x))
      BY FS_Subset DEF Earlier
    <3> QED
      BY <3>1, FS_CardinalityType DEF Rank
  <2>2. ~(Rank(x) + 1 \in 1..k)
    <3> SUFFICES ASSUME Rank(x) + 1 \in 1..k PROVE FALSE
      OBVIOUS
    <3>1. Rank(top[Rank(x) + 1]) = Rank(x) /\ top[Rank(x) + 1] \in S
      BY <1>6, <2>1
    <3> QED
      BY <1>3, <1>11, <3>1
  <2>3. Rank(top[i]) < Rank(x)
    BY <1>6, <2>1, <2>2
  <2> QED
    BY <1>6, <1>7, <2>3
<1> QED
  BY <1>8, <1>9, <1>10, <1>11 DEF top

\* The members that are picked are as many as asked for.
LEMMA PickedAre ==
  ASSUME NEW f, NEW k \in Nat, DOMAIN f = 1..k
  PROVE  /\ IsFiniteSet(Range(f)) /\ Cardinality(Range(f)) <= k /\ Cardinality(Range(f)) \in Nat
         /\ (\A i, j \in 1..k : f[i] = f[j] => i = j) => Cardinality(Range(f)) = k
<1> DEFINE g == [i \in 1..k |-> f[i]]
<1>1. g \in Surjection(1..k, Range(f))
  BY DEF Surjection, Range
<1>2. IsFiniteSet(1..k) /\ Cardinality(1..k) = k
  BY FS_Interval
<1>3. /\ IsFiniteSet(Range(f)) /\ Cardinality(Range(f)) <= k
      /\ Cardinality(Range(f)) = k <=> g \in Injection(1..k, Range(f))
  <2> HIDE DEF g
  <2> QED
    BY <1>1, <1>2, FS_Surjection
<1>4. (\A i, j \in 1..k : f[i] = f[j] => i = j) => g \in Injection(1..k, Range(f))
  BY DEF Injection, IsInjective, Range
<1> QED
  BY <1>3, <1>4, FS_CardinalityType

\* Members that are better than all others are picked first.
LEMMA TopKFromBest ==
  ASSUME NEW S, IsFiniteSet(S), NEW value, \A x \in S : value[x] \in Int,
         NEW tie, \A x \in S : tie[x] \in Int, \A x, y \in S : tie[x] = tie[y] => x = y,
         NEW k \in Nat, NEW best \in SUBSET S, k <= Cardinality(best),
         \A x \in best, y \in S \ best : value[x] > value[y]
  PROVE  Range(TopKOf(S, value, k, tie)) \subseteq best
<1> DEFINE top == TopKOf(S, value, k, tie)
<1>1. /\ IsFiniteSet(best) /\ Cardinality(best) \in Nat
      /\ k <= Cardinality(S)
  BY FS_Subset, FS_CardinalityType
<1>2. /\ top \in [1..k -> S]
      /\ \A i, j \in 1..k : top[i] = top[j] => i = j
      /\ \A i \in 1..k : \A x \in S : (\A j \in 1..k : top[j] # x) => value[top[i]] >= value[x]
  BY <1>1, TopKIs
<1> HIDE DEF top
<1>3. IsFiniteSet(Range(top)) /\ Cardinality(Range(top)) = k
  BY <1>2, PickedAre
<1>4. ASSUME NEW i \in 1..k, top[i] \notin best PROVE FALSE
  <2>1. PICK x \in best : x \notin Range(top)
    <3> SUFFICES ASSUME best \subseteq Range(top) PROVE FALSE
      OBVIOUS
    <3>1. top[i] \in Range(top)
      BY <1>2 DEF Range
    <3>2. best \subseteq Range(top) \ {top[i]}
      BY <1>4
    <3>3. IsFiniteSet(Range(top) \ {top[i]}) /\ Cardinality(Range(top) \ {top[i]}) = k - 1
      BY <1>3, <3>1, FS_RemoveElement
    <3>4. Cardinality(best) <= k - 1
      BY <3>2, <3>3, FS_Subset
    <3> QED
      BY <1>1, <3>4
  <2>2. \A j \in 1..k : top[j] # x
    BY <1>2, <2>1 DEF Range
  <2>3. value[top[i]] >= value[x] /\ top[i] \in S
    BY <1>2, <2>2
  <2>4. value[x] > value[top[i]] /\ x \in S
    BY <1>4, <2>3
  <2> QED
    BY <2>3, <2>4
<1> QED
  BY <1>2, <1>4 DEF Range, top

\* Ties are broken among the experts, the groups and the tokens.
LEMMA TiesAre ==
  ASSUME NEW tie \in Ties
  PROVE  LET all == Experts \cup RoutedTokens \cup (0..(NumGroups - 1))
         IN  /\ \A x \in all : tie[x] \in Int
             /\ \A x, y \in all : tie[x] = tie[y] => x = y
<1> DEFINE pair == {NumExperts - 1, NumTokens}
           m == Max(pair)
           all == Experts \cup RoutedTokens \cup (0..(NumGroups - 1))
<1>1. NumExperts - 1 \in Nat /\ NumTokens \in Nat /\ NumGroups <= NumExperts /\ NumGroups \in Nat
  BY RoutingAssumption
<1>2. m \in Nat /\ NumExperts - 1 <= m /\ NumTokens <= m
  <2>1. pair \in SUBSET (0..(NumExperts + NumTokens)) /\ pair # {} /\ NumExperts + NumTokens \in Nat
    <3>1. NumExperts - 1 \in 0..(NumExperts + NumTokens) /\ NumTokens \in 0..(NumExperts + NumTokens)
          /\ NumExperts + NumTokens \in Nat
      BY RoutingAssumption
    <3> QED
      BY <3>1
  <2> HIDE DEF pair
  <2>2. m \in pair /\ \A y \in pair : y <= m
    BY <2>1, GreatestIs
  <2> QED
    BY <1>1, <2>2 DEF pair
<1> HIDE DEF m
<1>3. all \subseteq 0..m
  <2>1. NumExperts \in Nat
    BY RoutingAssumption
  <2> QED
    BY <1>1, <1>2, <2>1 DEF Experts, RoutedTokens
<1>4. tie \in [0..m -> 0..m] /\ IsInjective(tie)
  BY DEF Ties, m
<1> QED
  BY <1>3, <1>4 DEF IsInjective

\* A scored token.
LEMMA ScoresAre ==
  ASSUME NEW t \in RoutedTokens, scores \in [RoutedTokens -> ScoreRows]
  PROVE  \A e \in Experts : scores[t][e] \in Nat \ {0}
<1>1. scores[t] \in [Experts -> Nat \ {0}]
  BY RoutingAssumption
<1> QED
  BY <1>1

\* expert_choice.py: tokens only choose experts that picked them.
LEMMA ChosenByExperts ==
  ASSUME NEW tie, ExpertChoiceRoute(tie), scores' = scores
  PROVE  \A e \in Experts : Load(e)' <= TokensPerExpert
<1> SUFFICES ASSUME NEW e \in Experts PROVE Load(e)' <= TokensPerExpert
  OBVIOUS
<1> DEFINE n == TokensPerExpert
           top == TopKOf(RoutedTokens, [t \in RoutedTokens |-> scores[t][e]], n, tie)
           mine == {t \in RoutedTokens : e \in affine'[t]}
<1>1. n \in Nat
  <2> DEFINE q == CeilDiv(TopK * NumTokens, NumExperts)
             pair == {1, q}
  <2>1. q \in Nat
    <3>1. TopK * NumTokens + NumExperts - 1 \in Nat /\ NumExperts \in Nat \ {0}
      <4>1. TopK \in Nat /\ NumTokens \in Nat /\ NumExperts \in Nat \ {0}
        BY RoutingAssumption
      <4>2. TopK * NumTokens \in Nat
        BY <4>1
      <4> QED
        BY <4>1, <4>2
    <3> QED
      BY <3>1 DEF CeilDiv
  <2> HIDE DEF q
  <2>2. pair \in SUBSET (0..(1 + q)) /\ pair # {} /\ 1 + q \in Nat
    <3>1. 1 \in 0..(1 + q) /\ q \in 0..(1 + q) /\ 1 + q \in Nat
      BY <2>1
    <3> QED
      BY <3>1
  <2> HIDE DEF pair
  <2>3. Max(pair) \in pair
    BY <2>2, GreatestIs
  <2>4. Max(pair) \in Nat
    BY <2>1, <2>3 DEF pair
  <2> QED
    BY <2>4 DEF TokensPerExpert, pair, q
<1>2. DOMAIN top = 1..n
  BY DEF TopKOf
<1>3. IsFiniteSet(Range(top)) /\ Cardinality(Range(top)) <= n /\ Cardinality(Range(top)) \in Nat
  <2> HIDE DEF top, n
  <2> QED
    BY <1>1, <1>2, PickedAre
<1>4. mine \subseteq Range(top)
  <2> SUFFICES ASSUME NEW t \in RoutedTokens, e \in affine'[t] PROVE t \in Range(top)
    OBVIOUS
  <2>1. Masked(t, e, tie) > 0
    BY DEF ExpertChoiceRoute
  <2>2. t \in Picks(e, n, tie)
    BY <2>1 DEF Masked
  <2> QED
    BY <2>2 DEF Picks
<1>5. IsFiniteSet(mine) /\ Cardinality(mine) <= Cardinality(Range(top)) /\ Cardinality(mine) \in Nat
  <2> HIDE DEF mine, top
  <2> QED
    BY <1>3, <1>4, FS_Subset, FS_CardinalityType
<1>6. Load(e)' = Cardinality(mine)
  BY DEF Load
<1> QED
  BY <1>1, <1>3, <1>5, <1>6

\* The division of one number by another.
LEMMA DividedIs ==
  ASSUME NEW a \in Nat, NEW m \in Nat \ {0}, NEW g \in Nat
  PROVE  /\ a \div m \in Nat
         /\ m * (a \div m) <= a /\ a < m * (a \div m) + m
         /\ (a \div m = g) <=> (m * g <= a /\ a < m * g + m)
<1> DEFINE q == a \div m
<1>1. q \in Nat /\ m * q <= a /\ a < m * q + m
  OBVIOUS
<1> HIDE DEF q
<1>2. ASSUME m * g <= a, a < m * g + m, g < q PROVE FALSE
  <2>1. q = g + 1 + (q - g - 1) /\ q - g - 1 \in Nat
    BY <1>1, <1>2
  <2>2. m * q = m * g + m + m * (q - g - 1) /\ m * (q - g - 1) \in Nat /\ m * g \in Nat /\ m * q \in Nat
    BY <1>1, <2>1
  <2> QED
    BY <1>1, <1>2, <2>2
<1>3. ASSUME m * g <= a, a < m * g + m, q < g PROVE FALSE
  <2>1. g = q + 1 + (g - q - 1) /\ g - q - 1 \in Nat
    BY <1>1, <1>3
  <2>2. m * g = m * q + m + m * (g - q - 1) /\ m * (g - q - 1) \in Nat /\ m * g \in Nat /\ m * q \in Nat
    BY <1>1, <2>1
  <2> QED
    BY <1>1, <1>3, <2>2
<1>4. (m * g <= a /\ a < m * g + m) => q = g
  BY <1>1, <1>2, <1>3
<1> QED
  BY <1>1, <1>4 DEF q

\* The experts of a group.
GroupWidth == NumExperts \div NumGroups

\* The experts are split evenly, and the visible groups have enough of them.
LEMMA GroupsAre ==
  /\ NumGroups \in Nat \ {0} /\ NumExperts \in Nat \ {0} /\ TopK \in Nat /\ TopkGroup \in Nat
  /\ GroupWidth \in Nat /\ GroupWidth >= 2
  /\ GroupWidth * NumGroups = NumExperts
  /\ TopK <= GroupWidth * TopkGroup
  /\ TopkGroup <= NumGroups /\ TopK <= NumExperts
<1>1. /\ NumGroups \in Nat \ {0} /\ NumExperts \in Nat \ {0} /\ TopK \in Nat /\ TopkGroup \in Nat
      /\ TopkGroup <= NumGroups /\ TopK <= NumExperts
      /\ NumExperts % NumGroups = 0 /\ 2 * NumGroups <= NumExperts
      /\ TopK <= TopkGroup * GroupWidth
  BY RoutingAssumption DEF GroupWidth
<1>2. GroupWidth \in Nat /\ NumExperts = NumGroups * GroupWidth
  <2> DEFINE q == NumExperts \div NumGroups
  <2>1. q \in Nat /\ NumExperts = NumGroups * q + (NumExperts % NumGroups)
    BY <1>1
  <2> QED
    BY <1>1, <2>1 DEF GroupWidth
<1>3. NumGroups * GroupWidth = GroupWidth * NumGroups /\ TopkGroup * GroupWidth = GroupWidth * TopkGroup
  BY <1>1, <1>2
<1>4. GroupWidth >= 2
  <2>1. CASE GroupWidth = 0
    BY <1>1, <1>2, <2>1
  <2>2. CASE GroupWidth = 1
    BY <1>1, <1>2, <2>2
  <2> QED
    BY <1>2, <2>1, <2>2
<1> QED
  BY <1>1, <1>2, <1>3, <1>4

\* The experts of one group.
LEMMA GroupIs ==
  ASSUME NEW g \in 0..(NumGroups - 1)
  PROVE  /\ Visible({g}) = (GroupWidth * g)..(GroupWidth * g + GroupWidth - 1)
         /\ IsFiniteSet(Visible({g})) /\ Cardinality(Visible({g})) = GroupWidth
         /\ Visible({g}) \subseteq Experts
<1> DEFINE m == GroupWidth
<1>1. m \in Nat /\ m >= 2 /\ m * NumGroups = NumExperts /\ NumGroups \in Nat \ {0} /\ g \in Nat
      /\ NumExperts \in Nat
  BY GroupsAre
<1>2. m * g \in Nat /\ m * g + m <= NumExperts
  <2>1. NumGroups = g + 1 + (NumGroups - g - 1) /\ NumGroups - g - 1 \in Nat
    BY <1>1
  <2> DEFINE r == NumGroups - g - 1
  <2>2. m * (g + 1 + r) = m * g + m + m * r /\ m * r \in Nat /\ m * g \in Nat
    <3>1. r \in Nat
      BY <2>1
    <3> HIDE DEF r
    <3> QED
      BY <1>1, <3>1
  <2>3. NumExperts = m * (g + 1 + r)
    BY <1>1, <2>1
  <2> HIDE DEF m, r
  <2> QED
    BY <1>1, <2>2, <2>3
<1>3. \A e \in Experts : GroupOf(e) = g <=> m * g <= e /\ e < m * g + m
  <2>1. \A e \in Experts : e \in Nat
    BY <1>1 DEF Experts
  <2>2. \A e \in Experts : GroupOf(e) = e \div m
    BY DEF GroupOf, GroupWidth
  <2> HIDE DEF m
  <2> QED
    BY <1>1, <2>1, <2>2, DividedIs
<1>4. Visible({g}) = {e \in Experts : m * g <= e /\ e < m * g + m}
  BY <1>3 DEF Visible
<1> HIDE DEF m
<1>5. Visible({g}) = (m * g)..(m * g + m - 1)
  <2> DEFINE a == m * g
  <2>1. a \in Nat /\ a + m <= NumExperts /\ Visible({g}) = {e \in Experts : a <= e /\ e < a + m}
    BY <1>2, <1>4
  <2> HIDE DEF a
  <2>2. \A e : e \in Visible({g}) <=> e \in a..(a + m - 1)
    <3>1. \A e : e \in Experts <=> e \in Int /\ 0 <= e /\ e <= NumExperts - 1
      BY <1>1 DEF Experts
    <3>2. m \in Nat /\ NumExperts \in Nat
      BY <1>1
    <3>3. \A e : e \in Visible({g}) <=> e \in Experts /\ a <= e /\ e < a + m
      BY <2>1
    <3>4. a \in Nat /\ a + m <= NumExperts
      BY <2>1
    <3>5. \A e : e \in a..(a + m - 1) <=> e \in Int /\ a <= e /\ e <= a + m - 1
      BY <3>2, <3>4
    <3>6. \A e \in Int : (0 <= e /\ e <= NumExperts - 1 /\ a <= e /\ e < a + m) <=> (a <= e /\ e <= a + m - 1)
      BY <3>2, <3>4
    <3> QED
      BY <3>1, <3>3, <3>5, <3>6
  <2>3. Visible({g}) = a..(a + m - 1)
    BY <2>2
  <2> QED
    BY <2>3 DEF a
<1>6. IsFiniteSet(Visible({g})) /\ Cardinality(Visible({g})) = m
  <2> DEFINE a == m * g
  <2>1. a \in Nat /\ Visible({g}) = a..(a + m - 1)
    BY <1>2, <1>5
  <2> HIDE DEF a
  <2>2. IsFiniteSet(a..(a + m - 1)) /\ Cardinality(a..(a + m - 1)) = (a + m - 1) - a + 1
    BY <1>1, <2>1, FS_Interval
  <2> QED
    BY <1>1, <2>1, <2>2
<1> QED
  BY <1>4, <1>5, <1>6 DEF m

\* The experts of several groups.
LEMMA VisibleAre ==
  ASSUME NEW groups \in SUBSET (0..(NumGroups - 1))
  PROVE  /\ IsFiniteSet(Visible(groups)) /\ IsFiniteSet(groups) /\ Cardinality(groups) \in Nat
         /\ Cardinality(Visible(groups)) = GroupWidth * Cardinality(groups)
         /\ Visible(groups) \subseteq Experts
<1> DEFINE Good == {s \in SUBSET groups : /\ IsFiniteSet(Visible(s))
                                          /\ Cardinality(Visible(s)) = GroupWidth * Cardinality(s)}
<1>1. IsFiniteSet(groups)
  <2>1. IsFiniteSet(0..(NumGroups - 1))
    BY GroupsAre, FS_Interval
  <2> QED
    BY <2>1, FS_Subset
<1>2. {} \in Good
  <2>1. Visible({}) = {}
    BY DEF Visible
  <2> QED
    BY <2>1, FS_EmptySet, GroupsAre
<1>3. ASSUME NEW s \in SUBSET groups, s # {}, \A x \in s : s \ {x} \in Good PROVE s \in Good
  <2>1. PICK x \in s : TRUE
    BY <1>3
  <2> DEFINE r == s \ {x}
  <2>2. /\ IsFiniteSet(Visible(r)) /\ Cardinality(Visible(r)) = GroupWidth * Cardinality(r)
    BY <1>3
  <2>3. IsFiniteSet(s) /\ Cardinality(s) \in Nat /\ Cardinality(r) = Cardinality(s) - 1 /\ Cardinality(r) \in Nat
    BY <1>1, FS_Subset, FS_CardinalityType, FS_RemoveElement
  <2>4. IsFiniteSet(Visible({x})) /\ Cardinality(Visible({x})) = GroupWidth
    BY GroupIs
  <2>5. Visible(s) = Visible(r) \cup Visible({x}) /\ Visible(r) \cap Visible({x}) = {}
    BY DEF Visible
  <2> HIDE DEF r
  <2>6. /\ IsFiniteSet(Visible(s)) /\ Cardinality(Visible(s)) = Cardinality(Visible(r)) + Cardinality(Visible({x})) - Cardinality({})
    BY <2>2, <2>4, <2>5, FS_Union
  <2>7. Cardinality(Visible(s)) = GroupWidth * Cardinality(r) + GroupWidth /\ GroupWidth * Cardinality(r) \in Nat
    BY <2>2, <2>3, <2>4, <2>6, FS_EmptySet, GroupsAre
  <2>8. GroupWidth * Cardinality(s) = GroupWidth * Cardinality(r) + GroupWidth
    <3>1. Cardinality(s) = Cardinality(r) + 1
      BY <2>3
    <3> QED
      BY <2>3, <3>1, GroupsAre
  <2> QED
    BY <2>6, <2>7, <2>8
<1>4. groups \in Good
  <2> HIDE DEF Good
  <2> QED
    BY <1>1, <1>2, <1>3, SubsetInduction
<1> QED
  BY <1>1, <1>4, FS_CardinalityType DEF Visible

\* Visible experts are of the visible groups.
LEMMA OfGroups ==
  ASSUME NEW groups \in SUBSET (0..(NumGroups - 1)), NEW chosen \in SUBSET Visible(groups)
  PROVE  Cardinality({GroupOf(e) : e \in chosen}) <= Cardinality(groups)
<1>1. {GroupOf(e) : e \in chosen} \subseteq groups
  BY DEF Visible
<1>2. IsFiniteSet(groups)
  BY VisibleAre
<1> QED
  BY <1>1, <1>2, FS_Subset

\* hierarchical_routing.py: the chosen experts are of topk_group groups.
LEMMA HierarchicalKeeps ==
  ASSUME NEW tie \in Ties, HierarchicalRoute(tie), scores \in [RoutedTokens -> ScoreRows]
  PROVE  \A t \in RoutedTokens : Cardinality({GroupOf(e) : e \in Range(expertIndex'[t])}) <= TopkGroup
<1>1. PICK groups \in [RoutedTokens -> kSubset(TopkGroup, 0..(NumGroups - 1))] :
        expertIndex' = [t \in RoutedTokens |-> TopKOf(Visible(groups[t]), scores[t], TopK, tie)]
  BY DEF HierarchicalRoute
<1> SUFFICES ASSUME NEW t \in RoutedTokens
             PROVE  Cardinality({GroupOf(e) : e \in Range(expertIndex'[t])}) <= TopkGroup
  OBVIOUS
<1> DEFINE mine == groups[t]
           top == TopKOf(Visible(mine), scores[t], TopK, tie)
<1>2. mine \in SUBSET (0..(NumGroups - 1)) /\ Cardinality(mine) = TopkGroup
  BY DEF kSubset
<1>3. expertIndex'[t] = top
  BY <1>1
<1> HIDE DEF mine
<1>4. /\ IsFiniteSet(Visible(mine)) /\ TopK <= Cardinality(Visible(mine)) /\ Visible(mine) \subseteq Experts
      /\ TopK \in Nat
  BY <1>2, VisibleAre, GroupsAre
<1>5. \A x \in Visible(mine) : scores[t][x] \in Int
  BY <1>4, ScoresAre
<1>6. (\A x \in Visible(mine) : tie[x] \in Int) /\ (\A x, y \in Visible(mine) : tie[x] = tie[y] => x = y)
  BY <1>4, TiesAre
<1>7. top \in [1..TopK -> Visible(mine)]
  BY <1>4, <1>5, <1>6, TopKIs
<1>8. Range(top) \in SUBSET Visible(mine)
  <2> HIDE DEF top
  <2> QED
    BY <1>7 DEF Range
<1> HIDE DEF top
<1> QED
  BY <1>2, <1>3, <1>8, OfGroups

\* The sum of a group's two best scores.
LEMMA GroupScoreIs ==
  ASSUME NEW tie \in Ties, scores \in [RoutedTokens -> ScoreRows], NEW t \in RoutedTokens,
         NEW g \in 0..(NumGroups - 1)
  PROVE  GroupScore(t, g, tie) \in Int
<1> DEFINE top == TopKOf(Visible({g}), scores[t], 2, tie)
<1>1. /\ IsFiniteSet(Visible({g})) /\ 2 <= Cardinality(Visible({g})) /\ Visible({g}) \subseteq Experts
  BY GroupIs, GroupsAre
<1>2. \A x \in Visible({g}) : scores[t][x] \in Int
  <2>1. \A e \in Experts : scores[t][e] \in Int
    BY ScoresAre
  <2> QED
    BY <1>1, <2>1
<1>3. (\A x \in Visible({g}) : tie[x] \in Int) /\ (\A x, y \in Visible({g}) : tie[x] = tie[y] => x = y)
  BY <1>1, TiesAre
<1>4. top \in [1..2 -> Visible({g})]
  BY <1>1, <1>2, <1>3, TopKIs
<1> HIDE DEF top
<1>5. IsFiniteSet(Range(top)) /\ Range(top) \subseteq Visible({g})
  <2>1. DOMAIN top = 1..2 /\ 2 \in Nat
    BY <1>4
  <2> QED
    BY <1>4, <2>1, PickedAre DEF Range
<1>6. SumFunctionOnSet(scores[t], Range(top)) \in Int
  BY <1>2, <1>5, SumInt
<1> QED
  BY <1>6 DEF GroupScore, top

\* group_limited_topk.py: masked experts score zero, so that the chosen ones are of
\* topk_group groups.
LEMMA GroupLimitedKeeps ==
  ASSUME NEW tie \in Ties, GroupLimitedRoute(tie), scores \in [RoutedTokens -> ScoreRows]
  PROVE  \A t \in RoutedTokens : Cardinality({GroupOf(e) : e \in Range(expertIndex'[t])}) <= TopkGroup
<1> SUFFICES ASSUME NEW t \in RoutedTokens
             PROVE  Cardinality({GroupOf(e) : e \in Range(expertIndex'[t])}) <= TopkGroup
  OBVIOUS
<1> DEFINE all == 0..(NumGroups - 1)
           worth == [g \in all |-> GroupScore(t, g, tie)]
           best == TopKOf(all, worth, TopkGroup, tie)
           groups == Range(best)
           value == [e \in Experts |-> GroupLimitedScore(t, e, tie)]
           top == TopKOf(Experts, value, TopK, tie)
<1>1. expertIndex'[t] = top
  BY DEF GroupLimitedRoute
<1>2. best \in [1..TopkGroup -> all] /\ (\A i, j \in 1..TopkGroup : best[i] = best[j] => i = j)
  <2>1. IsFiniteSet(all) /\ Cardinality(all) = NumGroups /\ TopkGroup \in Nat /\ TopkGroup <= NumGroups
    BY GroupsAre, FS_Interval
  <2>2. \A g \in all : worth[g] \in Int
    BY GroupScoreIs
  <2>3. (\A x \in all : tie[x] \in Int) /\ (\A x, y \in all : tie[x] = tie[y] => x = y)
    BY TiesAre
  <2> HIDE DEF all, worth
  <2> QED
    BY <2>1, <2>2, <2>3, TopKIs
<1>3. groups \in SUBSET all /\ Cardinality(groups) = TopkGroup
  <2>1. DOMAIN best = 1..TopkGroup /\ TopkGroup \in Nat
    BY <1>2, GroupsAre
  <2> HIDE DEF best, all
  <2>2. Cardinality(Range(best)) = TopkGroup
    BY <1>2, <2>1, PickedAre
  <2>3. Range(best) \in SUBSET all
    BY <1>2 DEF Range
  <2> QED
    BY <2>2, <2>3
<1>4. \A e \in Experts : value[e] = IF e \in Visible(groups) THEN scores[t][e] ELSE 0
  BY DEF GroupLimitedScore
<1> HIDE DEF best, groups, worth
<1>5. /\ Visible(groups) \in SUBSET Experts /\ TopK \in Nat /\ TopK <= Cardinality(Visible(groups))
  BY <1>3, VisibleAre, GroupsAre
<1>6. IsFiniteSet(Experts)
  BY GroupsAre, FS_Interval DEF Experts
<1>7. \A e \in Experts : value[e] \in Int
  BY <1>4, ScoresAre
<1>8. (\A x \in Experts : tie[x] \in Int) /\ (\A x, y \in Experts : tie[x] = tie[y] => x = y)
  BY TiesAre
<1>9. \A x \in Visible(groups), y \in Experts \ Visible(groups) : value[x] > value[y]
  <2>1. \A x \in Visible(groups) : value[x] \in Nat \ {0}
    BY <1>4, <1>5, ScoresAre
  <2>2. \A y \in Experts \ Visible(groups) : value[y] = 0
    BY <1>4
  <2> HIDE DEF value
  <2> QED
    BY <2>1, <2>2
<1> HIDE DEF value
<1>10. Range(top) \in SUBSET Visible(groups)
  BY <1>5, <1>6, <1>7, <1>8, <1>9, TopKFromBest
<1> HIDE DEF top
<1> QED
  BY <1>1, <1>3, <1>10, OfGroups

\* A set of numbers with the predecessors of its members holds the first ones.
LEMMA FirstOnesAre ==
  ASSUME NEW n \in Nat, NEW P \in SUBSET (1..n), \A k \in 1..n : k + 1 \in P => k \in P
  PROVE  /\ Cardinality(P) \in 0..n
         /\ P = 1..Cardinality(P)
<1>1. CASE P = {}
  <2>1. Cardinality(P) = 0
    BY <1>1, FS_EmptySet
  <2> QED
    BY <1>1, <2>1
<1>2. CASE P # {}
  <2> DEFINE h == Max(P)
  <2>1. P \in SUBSET (0..n)
    OBVIOUS
  <2>2. h \in P /\ \A y \in P : y <= h
    BY <1>2, <2>1, GreatestIs
  <2> HIDE DEF h
  <2> DEFINE Good == {d \in Nat : h - d >= 1 => h - d \in P}
  <2>3. 0 \in Good
    BY <2>2
  <2>4. \A d \in Nat : d \in Good => d + 1 \in Good
    <3> SUFFICES ASSUME NEW d \in Nat, d \in Good, h - (d + 1) >= 1 PROVE h - (d + 1) \in P
      OBVIOUS
    <3>1. h \in 1..n
      BY <2>2
    <3>2. h - d \in P /\ h - (d + 1) \in 1..n /\ (h - (d + 1)) + 1 = h - d
      BY <3>1
    <3> QED
      BY <3>2
  <2>5. Nat \subseteq Good
    <3> HIDE DEF Good
    <3> QED
      BY <2>3, <2>4, NatSetInduction
  <2>6. \A j \in 1..h : j \in P
    <3> SUFFICES ASSUME NEW j \in 1..h PROVE j \in P
      OBVIOUS
    <3>1. h - j \in Nat /\ h - (h - j) = j
      BY <2>2
    <3> QED
      BY <2>5, <3>1
  <2>7. P = 1..h
    <3>1. \A j \in P : j \in 1..h
      BY <2>2
    <3> QED
      BY <2>6, <3>1
  <2>8. Cardinality(P) = h
    BY <2>2, <2>7, FS_Interval
  <2> QED
    BY <2>2, <2>7, <2>8
<1> QED
  BY <1>1, <1>2

\* The largest of a number and zero.
LEMMA PositivePart ==
  ASSUME NEW a \in Int
  PROVE  Max({0, a}) = IF a >= 0 THEN a ELSE 0
<1>1. \E x \in {0, a} : \A y \in {0, a} : x >= y
  OBVIOUS
<1>2. Max({0, a}) \in {0, a} /\ \A y \in {0, a} : Max({0, a}) >= y
  BY <1>1 DEF Max
<1> QED
  BY <1>2

\* A larger number of the smaller factor.
LEMMA ProductsGrow ==
  ASSUME NEW k \in Nat, NEW a \in Nat, NEW b \in Nat, a <= b
  PROVE  k * a <= k * b /\ k * a \in Nat /\ k * b \in Nat /\ (k + 1) * a = k * a + a
<1>1. b = a + (b - a) /\ b - a \in Nat
  OBVIOUS
<1>2. k * (a + (b - a)) = k * a + k * (b - a) /\ k * (b - a) \in Nat /\ k * a \in Nat
  BY <1>1
<1>3. (k + 1) * a = k * a + a
  OBVIOUS
<1> QED
  BY <1>1, <1>2, <1>3

\* The first m of the n falling numbers z are above the threshold that their running sum
\* S and the unit u give, and g holds what they exceed it by.
Exceed(n, z, u, S, m, g) ==
  /\ n \in Nat \ {0} /\ u \in Nat \ {0} /\ m \in 1..n
  /\ \A k \in 1..n : z[k] \in Nat
  /\ \A j, k \in 1..n : j < k => z[j] >= z[k]
  /\ \A k \in 0..n : S[k] = SumFunctionOnSet(z, 1..k)
  /\ \A k \in 1..n : k <= m <=> u + k * z[k] > S[k]
  /\ \A k \in 1..n : g[k] = Max({0, m * z[k] - (S[m] - u)})

\* The entries up to the last one above the threshold exceed it by as many units.
LEMMA ExcessOfFirst ==
  ASSUME NEW n, NEW z, NEW u, NEW S, NEW m, NEW g, Exceed(n, z, u, S, m, g)
  PROVE  SumFunctionOnSet(g, 1..n) = m * u
<1> USE DEF Exceed
<1>1. (\A k \in 0..n : S[k] \in Int) /\ \A k \in 0..(n - 1) : S[k + 1] = S[k] + z[k + 1]
  <2>1. \A k \in 1..n : z[k] \in Int
    OBVIOUS
  <2>2. \A k \in 0..n : SumFunctionOnSet(z, 1..k) \in Int
    BY <2>1, RunningSum
  <2>3. \A k \in 0..(n - 1) :
          SumFunctionOnSet(z, 1..(k + 1)) = SumFunctionOnSet(z, 1..k) + z[k + 1]
    BY <2>1, RunningSum
  <2>4. \A k \in 0..(n - 1) : k + 1 \in 0..n /\ k \in 0..n
    OBVIOUS
  <2> QED
    BY <2>2, <2>3, <2>4
<1> DEFINE c == S[m] - u
<1>2. c \in Int /\ S[m] \in Int /\ m \in Nat
  BY <1>1
<1>3. \A j, k \in 1..n : j <= k => z[j] >= z[k]
  <2> SUFFICES ASSUME NEW j \in 1..n, NEW k \in 1..n, j <= k PROVE z[j] >= z[k]
    OBVIOUS
  <2>1. j < k \/ j = k
    OBVIOUS
  <2>2. z[j] \in Nat /\ z[k] \in Nat
    OBVIOUS
  <2>3. CASE j < k
    BY <2>3
  <2>4. CASE j = k
    BY <2>2, <2>4
  <2> QED
    BY <2>1, <2>3, <2>4
<1>4. \A k \in 1..m : k \in 1..n /\ g[k] = m * z[k] - c
  <2> SUFFICES ASSUME NEW k \in 1..m PROVE k \in 1..n /\ g[k] = m * z[k] - c
    OBVIOUS
  <2>1. k \in 1..n /\ k <= m
    OBVIOUS
  <2>2. u + m * z[m] > S[m]
    OBVIOUS
  <2>3. z[m] <= z[k] /\ z[m] \in Nat /\ z[k] \in Nat
    BY <1>3, <2>1
  <2>4. m * z[m] <= m * z[k] /\ m * z[m] \in Nat /\ m * z[k] \in Nat
    BY <1>2, <2>3, ProductsGrow
  <2>5. m * z[k] - c >= 0 /\ m * z[k] - c \in Int
    <3> DEFINE a == m * z[m]
               b == m * z[k]
    <3>1. u + a > S[m] /\ a <= b /\ a \in Nat /\ b \in Nat
      BY <2>2, <2>4
    <3> HIDE DEF a, b
    <3>2. b - c >= 0 /\ b - c \in Int
      BY <1>2, <3>1
    <3> QED
      BY <3>2 DEF b
  <2>6. g[k] = Max({0, m * z[k] - c})
    BY <2>1
  <2> HIDE DEF c
  <2> QED
    BY <2>1, <2>5, <2>6, PositivePart
<1>5. \A k \in (m + 1)..n : k \in 1..n /\ g[k] = 0
  <2> SUFFICES ASSUME NEW k \in (m + 1)..n PROVE k \in 1..n /\ g[k] = 0
    OBVIOUS
  <2> DEFINE next == m + 1
  <2>1. k \in 1..n /\ next \in 1..n /\ m \in 0..(n - 1) /\ ~(next <= m) /\ next <= k
    OBVIOUS
  <2>2. S[next] = S[m] + z[next]
    BY <1>1, <2>1
  <2>3. next * z[next] = m * z[next] + z[next]
    <3>1. z[next] \in Nat /\ z[next] <= z[next]
      BY <2>1
    <3> DEFINE b == z[next]
    <3>2. b \in Nat /\ b <= b /\ m \in Nat
      BY <1>2, <3>1
    <3> HIDE DEF b
    <3>3. (m + 1) * b = m * b + b
      BY <3>2, ProductsGrow
    <3> QED
      BY <3>3 DEF b
  <2> HIDE DEF next
  <2>4. ~(u + next * z[next] > S[next])
    BY <2>1
  <2>5. z[k] <= z[next] /\ z[k] \in Nat /\ z[next] \in Nat
    BY <1>3, <2>1
  <2>6. m * z[k] <= m * z[next] /\ m * z[k] \in Nat /\ m * z[next] \in Nat
    BY <1>2, <2>5, ProductsGrow
  <2>7. m * z[k] - c <= 0 /\ m * z[k] - c \in Int
    <3> DEFINE a == m * z[k]
               b == m * z[next]
               d == next * z[next]
    <3>1. ~(u + d > S[m] + z[next]) /\ d = b + z[next] /\ a <= b /\ a \in Nat /\ b \in Nat
      BY <2>2, <2>3, <2>4, <2>6
    <3> HIDE DEF a, b, d
    <3>2. a - c <= 0 /\ a - c \in Int
      BY <1>2, <2>5, <3>1
    <3> QED
      BY <3>2 DEF a
  <2>8. g[k] = Max({0, m * z[k] - c})
    BY <2>1
  <2> DEFINE w == m * z[k] - c
  <2>9. g[k] = Max({0, w}) /\ w <= 0 /\ w \in Int
    BY <2>7, <2>8
  <2> HIDE DEF w, c
  <2>10. g[k] = 0
    BY <2>9, PositivePart
  <2> QED
    BY <2>1, <2>10
<1>6. \A k \in 1..m : z[k] \in Int /\ g[k] \in Int
  <2> SUFFICES ASSUME NEW k \in 1..m PROVE z[k] \in Int /\ g[k] \in Int
    OBVIOUS
  <2>1. z[k] \in Nat /\ g[k] = m * z[k] - c
    BY <1>4
  <2>2. m * z[k] \in Nat
    BY <1>2, <2>1, ProductsGrow
  <2> HIDE DEF c
  <2> QED
    BY <1>2, <2>1, <2>2
<1> DEFINE rest == (m + 1)..n
<1>7. IsFiniteSet(1..m) /\ Cardinality(1..m) = m /\ IsFiniteSet(rest)
  BY <1>2, FS_Interval
<1>8. 1..n = (1..m) \cup rest /\ (1..m) \cap rest = {}
  <2>1. \A k : k \in 1..n <=> k \in 1..m \/ k \in (m + 1)..n
    OBVIOUS
  <2>2. \A k \in 1..m : k \notin (m + 1)..n
    OBVIOUS
  <2> QED
    BY <2>1, <2>2
<1>9. \A k \in rest : g[k] = 0
  BY <1>5
<1> HIDE DEF rest, c
<1>10. SumFunctionOnSet(g, 1..n) = SumFunctionOnSet(g, 1..m) + SumFunctionOnSet(g, rest)
  <2> DEFINE R == 1..m
  <2>1. \A k \in R \cup rest : g[k] \in Int
    BY <1>6, <1>9
  <2>2. IsFiniteSet(R) /\ IsFiniteSet(rest) /\ R \cap rest = {} /\ 1..n = R \cup rest
    BY <1>7, <1>8
  <2> HIDE DEF R
  <2>3. SumFunctionOnSet(g, R \cup rest) = SumFunctionOnSet(g, R) + SumFunctionOnSet(g, rest)
    BY ONLY <2>1, <2>2, SumUnion
  <2> QED
    BY <2>2, <2>3 DEF R
<1>11. SumFunctionOnSet(g, rest) = 0
  BY <1>7, <1>9, SumZero
<1>12. SumFunctionOnSet(g, 1..m) = m * S[m] - m * c
  <2>1. \A k \in 1..m : z[k] \in Int /\ g[k] = m * z[k] - c
    BY <1>4, <1>6
  <2>2. m \in Int
    OBVIOUS
  <2> DEFINE R == 1..m
  <2>3. IsFiniteSet(R) /\ Cardinality(R) = m /\ \A k \in R : z[k] \in Int /\ g[k] = m * z[k] - c
    BY <1>7, <2>1
  <2> HIDE DEF R
  <2>4. SumFunctionOnSet(g, R) = m * SumFunctionOnSet(z, R) - Cardinality(R) * c
    <3>1. IsFiniteSet(R) /\ m \in Int /\ c \in Int
      BY <1>2, <2>2, <2>3
    <3>2. \A k \in R : z[k] \in Int /\ g[k] = m * z[k] - c
      BY <2>3
    <3> QED
      BY ONLY <3>1, <3>2, SumAffine, ZenonT(30)
  <2>5. SumFunctionOnSet(z, R) = S[m]
    BY DEF R
  <2>6. SumFunctionOnSet(g, R) = m * S[m] - m * c
    BY <2>3, <2>4, <2>5
  <2> QED
    BY <2>6 DEF R
<1>13. m * S[m] - m * c = m * u /\ m * u \in Int
  <2>1. S[m] = c + u /\ u \in Int /\ m \in Int
    BY <1>2 DEF c
  <2>2. m * (c + u) = m * c + m * u /\ m * c \in Int /\ m * u \in Int
    BY <1>2, <2>1, Distributed
  <2> DEFINE a == m * c
             b == m * u
  <2>3. m * S[m] = a + b /\ a \in Int /\ b \in Int
    BY <2>1, <2>2
  <2> HIDE DEF a, b
  <2>4. m * S[m] - a = b
    BY <2>3
  <2> QED
    BY <2>2, <2>4 DEF a, b
<1> QED
  BY <1>10, <1>11, <1>12, <1>13

\* The numbers z fall, P are those above the threshold that their running sum and the unit
\* u give, and g holds what they exceed it by.
Excess(n, z, u, P, g) ==
  /\ n \in Nat \ {0} /\ u \in Nat \ {0}
  /\ \A k \in 1..n : z[k] \in Nat
  /\ \A j, k \in 1..n : j < k => z[j] >= z[k]
  /\ P = {k \in 1..n : u + k * z[k] > SumFunctionOnSet(z, 1..k)}
  /\ \A k \in 1..n :
       g[k] = Max({0, Cardinality(P) * z[k] - (SumFunctionOnSet(z, 1..Cardinality(P)) - u)})

\* The entries above the threshold are the first ones, and what they exceed it by adds
\* up to the unit as often as there are such entries.
LEMMA ExcessAddsUp ==
  ASSUME NEW n, NEW z, NEW u, NEW P, NEW g, Excess(n, z, u, P, g)
  PROVE  SumFunctionOnSet(g, 1..n) = Cardinality(P) * u
<1> USE DEF Excess
<1> DEFINE S == [k \in 0..n |-> SumFunctionOnSet(z, 1..k)]
<1>1. /\ \A k \in 0..n : S[k] = SumFunctionOnSet(z, 1..k) /\ S[k] \in Int
      /\ \A k \in 0..(n - 1) : S[k + 1] = S[k] + z[k + 1]
      /\ S[0] = 0
  <2>1. n \in Nat /\ \A k \in 1..n : z[k] \in Int
    OBVIOUS
  <2>2. \A k \in 0..n : SumFunctionOnSet(z, 1..k) \in Int
    BY <2>1, RunningSum
  <2>3. \A k \in 0..(n - 1) :
          SumFunctionOnSet(z, 1..(k + 1)) = SumFunctionOnSet(z, 1..k) + z[k + 1]
    BY <2>1, RunningSum
  <2>4. SumFunctionOnSet(z, 1..0) = 0
    BY <2>1, RunningSum
  <2>5. 0 \in 0..n /\ \A k \in 0..(n - 1) : k + 1 \in 0..n /\ k \in 0..n
    OBVIOUS
  <2> QED
    BY <2>2, <2>3, <2>4, <2>5
<1>2. \A k \in 1..n : S[k] = SumFunctionOnSet(z, 1..k)
  BY <1>1
<1> HIDE DEF S
<1>3. P = {k \in 1..n : u + k * z[k] > S[k]}
  BY <1>2
<1>4. \A k \in 1..n : k + 1 \in P => k \in P
  <2> SUFFICES ASSUME NEW k \in 1..n, k + 1 \in P PROVE k \in P
    OBVIOUS
  <2> DEFINE next == k + 1
  <2>1. next \in 1..n /\ k < next /\ k \in 0..(n - 1) /\ k \in 0..n
    BY <1>3
  <2>2. S[next] = S[k] + z[next] /\ S[k] \in Int
    BY <1>1, <2>1
  <2>3. z[next] \in Nat /\ z[k] \in Nat /\ k \in Nat /\ z[next] <= z[k]
    BY <2>1
  <2>4. k * z[next] <= k * z[k] /\ k * z[next] \in Nat /\ k * z[k] \in Nat
        /\ next * z[next] = k * z[next] + z[next]
    BY <2>3, ProductsGrow
  <2>5. u + next * z[next] > S[next]
    BY <1>3
  <2> HIDE DEF next
  <2> DEFINE a == k * z[next]
             b == k * z[k]
             c == next * z[next]
  <2>6. u + c > S[k] + z[next] /\ c = a + z[next] /\ a <= b /\ a \in Nat /\ b \in Nat
    BY <2>2, <2>4, <2>5
  <2> HIDE DEF a, b, c
  <2>7. u + b > S[k]
    BY <2>2, <2>3, <2>6
  <2> QED
    BY <1>3, <2>7 DEF b
<1>5. PICK m \in 0..n : m = Cardinality(P) /\ P = 1..m
  <2>1. P \in SUBSET (1..n) /\ n \in Nat
    BY <1>3
  <2> QED
    BY <1>4, <2>1, FirstOnesAre
<1>6. m \in 1..n
  <2>1. 1 \in 1..n /\ 0 \in 0..(n - 1) /\ z[1] \in Nat
    OBVIOUS
  <2>2. S[0 + 1] = S[0] + z[0 + 1]
    BY <1>1, <2>1
  <2>3. S[1] = z[1] /\ 1 * z[1] = z[1]
    BY <1>1, <2>1, <2>2
  <2>4. u + 1 * z[1] > S[1]
    BY <2>1, <2>3
  <2>5. 1 \in P
    BY <1>3, <2>1, <2>4
  <2>6. 1 \in 1..m
    BY <1>5, <2>5
  <2> QED
    BY <2>6
<1>7. \A k \in 1..n : k <= m <=> u + k * z[k] > S[k]
  <2>1. \A k \in 1..n : k \in P <=> u + k * z[k] > S[k]
    BY <1>3
  <2>2. \A k \in 1..n : k \in 1..m <=> k <= m
    BY <1>6
  <2> QED
    BY <1>5, <2>1, <2>2
<1>8. \A k \in 1..n : g[k] = Max({0, m * z[k] - (S[m] - u)})
  BY <1>2, <1>5, <1>6
<1>9. \A k \in 0..n : S[k] = SumFunctionOnSet(z, 1..k)
  BY <1>1
<1>10. SumFunctionOnSet(g, 1..n) = m * u
  <2>1. Exceed(n, z, u, S, m, g)
    BY <1>6, <1>7, <1>8, <1>9 DEF Exceed
  <2> QED
    BY <2>1, ExcessOfFirst
<1> QED
  BY <1>5, <1>10

\* sparsemax_topk.py: the scores it ranks by are a distribution.
LEMMA SparsemaxKeeps ==
  ASSUME scores \in [RoutedTokens -> ScoreRows], NEW t \in RoutedTokens
  PROVE  SumFunction([e \in Experts |-> Sparsemax(t, e)]) = SupportSize(t) * Unit
<1> DEFINE n == NumExperts
           own == [e \in Experts |-> e]
           order == TopKOf(Experts, scores[t], n, own)
           z == Sorted(t)
           P == {k \in 1..n : Unit + k * z[k] > SumFunctionOnSet(z, 1..k)}
           value == [e \in Experts |-> Sparsemax(t, e)]
           g == [k \in 1..n |-> value[order[k]]]
<1>1. n \in Nat \ {0} /\ Unit \in Nat \ {0} /\ n <= Cardinality(Experts)
      /\ IsFiniteSet(Experts) /\ Cardinality(Experts) = n /\ Experts \subseteq Int
  <2>1. NumExperts \in Nat \ {0} /\ Unit \in Nat \ {0}
    BY RoutingAssumption
  <2>2. IsFiniteSet(Experts) /\ Cardinality(Experts) = NumExperts
    BY <2>1, FS_Interval DEF Experts
  <2> QED
    BY <2>1, <2>2 DEF Experts
<1>2. \A e \in Experts : scores[t][e] \in Nat /\ scores[t][e] \in Int
  BY ScoresAre
<1>3. /\ order \in [1..n -> Experts]
      /\ \A i, j \in 1..n : order[i] = order[j] => i = j
      /\ \A i, j \in 1..n : i < j => scores[t][order[i]] >= scores[t][order[j]]
  <2>1. (\A e \in Experts : own[e] \in Int) /\ (\A x, y \in Experts : own[x] = own[y] => x = y)
    BY <1>1
  <2> HIDE DEF own
  <2> DEFINE S == Experts
             f == scores[t]
  <2>2. n \in Nat /\ n <= Cardinality(S) /\ IsFiniteSet(S) /\ \A x \in S : f[x] \in Int
    BY <1>1, <1>2
  <2> HIDE DEF S, f, n
  <2> QED
    BY <2>1, <2>2, TopKIs DEF S, f
<1>4. \A k \in 1..n : z[k] = scores[t][order[k]] /\ z[k] \in Nat
  BY <1>2, <1>3 DEF Sorted
<1>5. Renames(order, 1..n, Experts)
  <2>1. DOMAIN order = 1..n /\ n \in Nat
    BY <1>1, <1>3
  <2>2. IsFiniteSet(Range(order)) /\ Cardinality(Range(order)) = n
    BY <1>3, <2>1, PickedAre
  <2>3. Range(order) \subseteq Experts
    BY <1>3 DEF Range
  <2>4. Range(order) = Experts
    BY <1>1, <2>2, <2>3, FS_Subset
  <2> QED
    BY <1>3, <2>1, <2>4 DEF Renames, Range
<1>6. \A i, j \in 1..n : i < j => z[i] >= z[j]
  BY <1>3, <1>4
<1>7. SupportSize(t) = Cardinality(P)
  BY DEF SupportSize, SumTop
<1>8. \A k \in 1..n : value[order[k]] = g[k]
      /\ g[k] = Max({0, Cardinality(P) * z[k] - (SumFunctionOnSet(z, 1..Cardinality(P)) - Unit)})
  BY <1>3, <1>4, <1>7 DEF Sparsemax, SumTop
<1>9. DOMAIN value = Experts
  OBVIOUS
<1> HIDE DEF order, own, z, g, value
<1>10. SumFunctionOnSet(g, 1..n) = Cardinality(P) * Unit
  <2> DEFINE Q == P
  <2>1. Q = {k \in 1..n : Unit + k * z[k] > SumFunctionOnSet(z, 1..k)}
    OBVIOUS
  <2>2. \A k \in 1..n :
          g[k] = Max({0, Cardinality(Q) * z[k] - (SumFunctionOnSet(z, 1..Cardinality(Q)) - Unit)})
    BY <1>8
  <2> HIDE DEF Q, P
  <2>3. \A k \in 1..n : z[k] \in Nat
    BY <1>4
  <2>4. SumFunctionOnSet(g, 1..n) = Cardinality(Q) * Unit
    <3> HIDE DEF n
    <3>1. Excess(n, z, Unit, Q, g)
      BY <1>1, <1>6, <2>1, <2>2, <2>3 DEF Excess
    <3> QED
      BY <3>1, ExcessAddsUp
  <2> QED
    BY <2>4 DEF Q
<1>11. \A k \in 1..n : g[k] \in Int
  <2> SUFFICES ASSUME NEW k \in 1..n PROVE g[k] \in Int
    OBVIOUS
  <2> DEFINE m == Cardinality(P)
             c == SumFunctionOnSet(z, 1..m)
             a == m * z[k] - (c - Unit)
  <2>1. m \in 0..n
    <3>1. P \subseteq 1..n /\ IsFiniteSet(1..n) /\ Cardinality(1..n) = n
      BY <1>1, FS_Interval
    <3> HIDE DEF P
    <3>2. Cardinality(P) <= n /\ Cardinality(P) \in Nat
      BY <3>1, FS_Subset, FS_CardinalityType
    <3> QED
      BY <1>1, <3>2
  <2> HIDE DEF m
  <2>2. c \in Int
    <3>1. IsFiniteSet(1..m)
      BY <1>1, <2>1, FS_Interval
    <3>2. \A i \in 1..m : z[i] \in Int
      BY <1>1, <1>4, <2>1
    <3> QED
      BY <3>1, <3>2, SumInt
  <2>3. g[k] = Max({0, a})
    BY <1>8 DEF m
  <2> HIDE DEF c
  <2>4. m * z[k] \in Nat
    <3>1. m \in Nat /\ z[k] \in Nat /\ z[k] <= z[k]
      BY <1>1, <1>4, <2>1
    <3> QED
      BY <3>1, ProductsGrow
  <2>5. a \in Int
    BY <1>1, <2>2, <2>4
  <2> HIDE DEF a
  <2> QED
    BY <2>3, <2>5, PositivePart
<1>12. SumFunctionOnSet(g, 1..n) = SumFunctionOnSet(value, Experts)
  <2>1. IsFiniteSet(1..n)
    BY <1>1, FS_Interval
  <2>2. \A k \in 1..n : g[k] \in Int /\ value[order[k]] = g[k]
    BY <1>8, <1>11
  <2> DEFINE S == 1..n
             T == Experts
  <2>3. Renames(order, S, T) /\ IsFiniteSet(S) /\ \A k \in S : g[k] \in Int /\ value[order[k]] = g[k]
    BY <1>5, <2>1, <2>2
  <2> HIDE DEF S, T
  <2>4. SumFunctionOnSet(g, S) = SumFunctionOnSet(value, T)
    BY ONLY <2>3, SumRenamed
  <2> QED
    BY <2>4 DEF S, T
<1>13. SumFunction(value) = SumFunctionOnSet(value, Experts)
  BY ONLY <1>9 DEF SumFunction
<1> QED
  <2>1. SumFunction(value) = Cardinality(P) * Unit
    BY ONLY <1>10, <1>12, <1>13
  <2> QED
    BY <1>7, <2>1 DEF value

\* The scores of the call, and what the routers promise but for sparsemax, which does it
\* before it picks anything.
RoutingInv ==
  /\ scores \in [RoutedTokens -> ScoreRows]
  /\ Routed =>
       /\ router = "expert_choice" => \A e \in Experts : Load(e) <= TokensPerExpert
       /\ router \in {"hierarchical", "group_limited_topk"} =>
            \A t \in RoutedTokens :
              Cardinality({GroupOf(e) : e \in Range(expertIndex[t])}) <= TopkGroup

\* A routed call.
LEMMA RouteKeeps == RoutingInv /\ Route => RoutingInv'
<1> SUFFICES ASSUME RoutingInv, Route PROVE RoutingInv'
  OBVIOUS
<1>1. scores \in [RoutedTokens -> ScoreRows] /\ scores' = scores /\ router' = router
  BY DEF RoutingInv, Route
<1>2. PICK tie \in Ties :
        /\ router = "expert_choice" => ExpertChoiceRoute(tie)
        /\ router = "hierarchical" => HierarchicalRoute(tie)
        /\ router = "group_limited_topk" => GroupLimitedRoute(tie)
  BY DEF Route, RanksByScore
<1>3. router' = "expert_choice" => \A e \in Experts : Load(e)' <= TokensPerExpert
  BY <1>1, <1>2, ChosenByExperts
<1>4. router' \in {"hierarchical", "group_limited_topk"} =>
        \A t \in RoutedTokens : Cardinality({GroupOf(e) : e \in Range(expertIndex'[t])}) <= TopkGroup
  BY <1>1, <1>2, HierarchicalKeeps, GroupLimitedKeeps
<1> QED
  BY <1>1, <1>3, <1>4 DEF RoutingInv

\* Only routed calls change them.
LEMMA UsesKeepRouting == [InferenceNext]_inferenceVars => [Route]_routingVars
<1>1. ASSUME InferenceNext PROVE Route \/ UNCHANGED routingVars
  BY <1>1 DEF InferenceNext, Compile, Convert, KeepArtifacts, LoadWeights, Serve, GenerateBatch,
              AssistedDecoding, DecodeSharded, RouteCall
<1>2. ASSUME UNCHANGED inferenceVars PROVE UNCHANGED routingVars
  BY <1>2 DEF inferenceVars
<1> QED
  BY <1>1, <1>2

\* For any experts, tokens, scores, groups and ties: no expert works for more tokens than
\* its share, a token's experts are of topk_group groups, and sparsemax ranks by a
\* distribution (expert_choice.py, hierarchical_routing.py, group_limited_topk.py,
\* sparsemax_topk.py).
THEOREM RoutersKeepTheirWord == InferenceSpec => []RoutersKeepPromises
<1>1. InferenceInit => RoutingInv
  BY DEF InferenceInit, RoutingInit, RoutingInv, Routed
<1>2. RoutingInv /\ [InferenceNext]_inferenceVars => RoutingInv'
  <2> SUFFICES ASSUME RoutingInv, [Route]_routingVars PROVE RoutingInv'
    BY UsesKeepRouting
  <2>1. CASE Route
    BY <2>1, RouteKeeps
  <2>2. CASE UNCHANGED routingVars
    BY <2>2 DEF routingVars, RoutingInv, Routed, Load
  <2> QED
    BY <2>1, <2>2
<1>3. RoutingInv => RoutersKeepPromises
  BY SparsemaxKeeps DEF RoutingInv, RoutersKeepPromises
<1> QED
  BY <1>1, <1>2, <1>3, PTL DEF InferenceSpec

------------------------------------------------------------------------------
(* Heads *)

\* Quotient and remainder.
LEMMA DividesInto ==
  ASSUME NEW a \in Nat, NEW m \in Nat \ {0}
  PROVE  a \div m \in Nat /\ a % m \in 0..(m - 1) /\ a = m * (a \div m) + (a % m)
  OBVIOUS

\* What they are is seen from the number.
LEMMA DividesAs ==
  ASSUME NEW a \in Nat, NEW m \in Nat \ {0}, NEW g \in Nat, NEW r \in 0..(m - 1), a = m * g + r
  PROVE  a \div m = g /\ a % m = r
<1>1. m * g \in Nat /\ m * g <= a /\ a < m * g + m
  <2>1. m * g \in Nat
    OBVIOUS
  <2> DEFINE p == m * g
  <2>2. a = p + r /\ p \in Nat
    BY <2>1
  <2> HIDE DEF p
  <2>3. p <= a /\ a < p + m
    BY <2>2
  <2> QED
    BY <2>1, <2>3 DEF p
<1>2. a \div m = g
  BY <1>1, DividedIs
<1>3. a = m * (a \div m) + (a % m) /\ a % m \in 0..(m - 1)
  BY DividesInto
<1> DEFINE p == m * g
           s == a % m
<1>4. a = p + s /\ a = p + r /\ p \in Nat /\ s \in Int
  <2> DEFINE d == a \div m
  <2>1. d = g /\ a = m * d + s /\ s \in Int
    BY <1>2, <1>3
  <2> HIDE DEF d, s
  <2>2. a = m * g + s
    BY <2>1
  <2> QED
    BY <1>1, <2>1, <2>2
<1> HIDE DEF p, s
<1>5. s = r
  BY <1>4
<1> QED
  BY <1>2, <1>5 DEF s

\* Quotients of multiples.
LEMMA MultiplesDivide ==
  ASSUME NEW m \in Nat \ {0}, NEW g \in Nat
  PROVE  m * g \in Nat /\ (m * g) \div m = g /\ (g * m) \div m = g /\ (m * g) % m = 0 /\ m * g = g * m
<1>1. m * g \in Nat /\ m * g = g * m
  OBVIOUS
<1> DEFINE p == m * g
<1>2. p \in Nat /\ p = m * g + 0 /\ 0 \in 0..(m - 1)
  BY <1>1
<1> HIDE DEF p
<1>3. p \div m = g /\ p % m = 0
  BY <1>2, DividesAs
<1> QED
  BY <1>1, <1>3 DEF p

\* The queries Q and the keys K of an attention with q query heads for kv key heads are
\* laid out on tp ranks, N of the ones and k of the others on each: the head of a query
\* is there once, and a query head finds the key head of its group on its rank.
Laid(Q, K, tp, q, kv, N, k) ==
  /\ N \in Nat \ {0} /\ k \in Nat \ {0}
  /\ PaddedHeads(q, tp) = N * tp /\ ShardableKvHeads(tp, q, kv) = k * tp
  /\ Q \in Seq(Int) /\ Len(Q) = N * tp
  /\ K \in Seq(Int) /\ Len(K) = k * tp
  /\ \A h \in 0..(q - 1) : \E i \in 1..(N * tp) : \A j \in 1..(N * tp) : Q[j] = h <=> j = i
  /\ \A r \in 0..(tp - 1) : \A i \in 1..N :
       Q[r * N + i] # NoHead =>
         /\ (i - 1) \div (N \div k) + 1 \in 1..k
         /\ K[r * k + ((i - 1) \div (N \div k) + 1)] = Q[r * N + i] \div (q \div kv)

\* A rank's share.
LEMMA ShareIs ==
  ASSUME NEW tp \in Nat \ {0}, NEW n \in Nat, NEW H \in Seq(Int), Len(H) = n * tp,
         NEW r \in 0..(tp - 1)
  PROVE  /\ OfRank(H, tp, r) \in Seq(Int)
         /\ Len(OfRank(H, tp, r)) = n
         /\ \A i \in 1..n : OfRank(H, tp, r)[i] = H[r * n + i]
<1>1. Len(H) \div tp = n
  BY MultiplesDivide
<1>2. OfRank(H, tp, r) = SubSeq(H, r * n + 1, (r + 1) * n)
  BY <1>1 DEF OfRank
<1> DEFINE a == r * n
           b == (r + 1) * n
           l == n * tp
<1>3. a \in Nat /\ b = a + n /\ b <= l /\ l \in Nat /\ n \in Nat
  <2>1. a \in Nat /\ b = a + n
    OBVIOUS
  <2>2. r + 1 \in Nat /\ tp \in Nat /\ r + 1 <= tp
    OBVIOUS
  <2>3. n * (r + 1) <= n * tp /\ n * tp \in Nat
    BY <2>2, ProductsGrow
  <2>4. n * (r + 1) = b
    OBVIOUS
  <2> QED
    BY <2>1, <2>3, <2>4
<1>4. OfRank(H, tp, r) = SubSeq(H, a + 1, b) /\ Len(H) = l
  BY <1>2
<1> HIDE DEF a, b, l
<1>5. \A i \in 1..n : a + i \in 1..l /\ i + (a + 1) - 1 = a + i
  BY <1>3
<1>6. SubSeq(H, a + 1, b) \in Seq(Int) /\ Len(SubSeq(H, a + 1, b)) = n
  BY <1>3, <1>4
<1>7. \A i \in 1..n : SubSeq(H, a + 1, b)[i] = H[a + i]
  <2> SUFFICES ASSUME NEW i \in 1..n PROVE SubSeq(H, a + 1, b)[i] = H[a + i]
    OBVIOUS
  <2>1. i \in 1..(b - (a + 1) + 1) /\ a + 1 \in Int /\ b \in Int
    BY <1>3
  <2>2. SubSeq(H, a + 1, b)[i] = H[(a + 1) + i - 1]
    BY <1>3, <1>4, <2>1
  <2>3. (a + 1) + i - 1 = a + i
    BY <1>3
  <2> QED
    BY <2>2, <2>3
<1> QED
  BY <1>4, <1>6, <1>7 DEF a

\* The parts of a fused share.
LEMMA PartsOfFused ==
  ASSUME NEW A \in Seq(Int), NEW B \in Seq(Int), NEW C \in Seq(Int)
  PROVE  /\ SubSeq((A \o B) \o C, 1, Len(A)) = A
         /\ SubSeq((A \o B) \o C, Len(A) + 1, Len(A) + Len(B)) = B
<1> DEFINE a == Len(A)
           b == Len(B)
           c == Len(C)
           S == (A \o B) \o C
<1>1. a \in Nat /\ b \in Nat /\ c \in Nat /\ S \in Seq(Int) /\ Len(S) = a + b + c
  OBVIOUS
<1>2. (\A i \in 1..a : S[i] = A[i]) /\ \A i \in 1..b : S[a + i] = B[i]
  OBVIOUS
<1>3. A \in [1..a -> Int] /\ B \in [1..b -> Int]
  OBVIOUS
<1> HIDE DEF a, b, c, S
<1> DEFINE s == SubSeq(S, 1, a)
           r == SubSeq(S, a + 1, a + b)
<1>4. s \in [1..a -> Int] /\ r \in [1..b -> Int]
  <2>1. s \in Seq(Int) /\ Len(s) = a
    BY <1>1
  <2>2. r \in Seq(Int) /\ Len(r) = b
    BY <1>1
  <2> HIDE DEF s, r
  <2> QED
    BY <2>1, <2>2
<1>5. \A i \in 1..a : s[i] = A[i]
  BY <1>1, <1>2
<1>6. \A i \in 1..b : r[i] = B[i]
  BY <1>1, <1>2
<1> HIDE DEF s, r
<1>7. s = A
  <2>1. s = [i \in 1..a |-> s[i]] /\ A = [i \in 1..a |-> A[i]]
    BY <1>3, <1>4
  <2>2. [i \in 1..a |-> s[i]] = [i \in 1..a |-> A[i]]
    BY <1>5
  <2> QED
    BY <2>1, <2>2
<1>8. r = B
  <2>1. r = [i \in 1..b |-> r[i]] /\ B = [i \in 1..b |-> B[i]]
    BY <1>3, <1>4
  <2>2. [i \in 1..b |-> r[i]] = [i \in 1..b |-> B[i]]
    BY <1>6
  <2> QED
    BY <2>1, <2>2
<1> QED
  BY <1>7, <1>8 DEF a, b, s, r, S

\* Fused or not, a rank takes its share of the queries and of the keys.
LEMMA SharesOfRank ==
  ASSUME NEW a, NEW w, NEW N, NEW k, NEW r, a.tp \in Nat \ {0}, r \in 0..(a.tp - 1),
         Laid(w.queries, w.keys, a.tp, a.q, a.kv, N, k)
  PROVE  /\ HeadsOfRank(a, w, r).queries = OfRank(w.queries, a.tp, r)
         /\ HeadsOfRank(a, w, r).keys = OfRank(w.keys, a.tp, r)
<1> DEFINE Q == w.queries
           K == w.keys
           A == OfRank(Q, a.tp, r)
           B == OfRank(K, a.tp, r)
           tp == a.tp
<1>1. /\ tp \in Nat \ {0} /\ r \in 0..(tp - 1) /\ N \in Nat /\ k \in Nat
      /\ N \in Nat \ {0} /\ k \in Nat \ {0}
      /\ PaddedHeads(a.q, tp) = N * tp /\ ShardableKvHeads(tp, a.q, a.kv) = k * tp
      /\ Q \in Seq(Int) /\ Len(Q) = N * tp /\ K \in Seq(Int) /\ Len(K) = k * tp
  BY DEF Laid
<1>2. A \in Seq(Int) /\ Len(A) = N /\ B \in Seq(Int) /\ Len(B) = k
  <2> HIDE DEF tp
  <2>1. OfRank(Q, tp, r) \in Seq(Int) /\ Len(OfRank(Q, tp, r)) = N
    BY <1>1, ShareIs
  <2>2. OfRank(K, tp, r) \in Seq(Int) /\ Len(OfRank(K, tp, r)) = k
    BY <1>1, ShareIs
  <2> QED
    BY <2>1, <2>2 DEF tp
<1>3. PaddedHeads(a.q, tp) \div tp = N /\ ShardableKvHeads(tp, a.q, a.kv) \div tp = k
  <2> HIDE DEF tp
  <2>1. (N * tp) \div tp = N /\ (k * tp) \div tp = k
    BY <1>1, MultiplesDivide
  <2> QED
    BY <1>1, <2>1
<1>4. FusedOfRank(w.queries, w.keys, a.tp, r) = (A \o B) \o B
  BY DEF FusedOfRank
<1> HIDE DEF A, B
<1>5. SubSeq((A \o B) \o B, 1, N) = A /\ SubSeq((A \o B) \o B, N + 1, N + k) = B
  BY <1>2, PartsOfFused
<1>6. CASE a.fused
  <2>1. HeadsOfRank(a, w, r) =
          [queries |-> SubSeq((A \o B) \o B, 1, N), keys |-> SubSeq((A \o B) \o B, N + 1, N + k)]
    BY <1>3, <1>4, <1>6 DEF HeadsOfRank
  <2>2. HeadsOfRank(a, w, r) = [queries |-> A, keys |-> B]
    BY <1>5, <2>1, Zenon
  <2> QED
    BY <2>2 DEF A, B
<1>7. CASE ~a.fused
  <2>1. HeadsOfRank(a, w, r) = [queries |-> A, keys |-> B]
    BY <1>7 DEF HeadsOfRank, A, B
  <2> QED
    BY <2>1 DEF A, B
<1> QED
  BY <1>6, <1>7

\* A layout of this kind is aligned.
LEMMA LaidIsAligned ==
  ASSUME NEW N, NEW k, arranged.tp \in Nat \ {0}, weights.outputs = weights.queries,
         Laid(weights.queries, weights.keys, arranged.tp, arranged.q, arranged.kv, N, k)
  PROVE  HeadsStayAligned
<1> DEFINE tp == arranged.tp
           q == arranged.q
           kv == arranged.kv
           Q == weights.queries
           K == weights.keys
<1>1. /\ tp \in Nat \ {0} /\ N \in Nat /\ k \in Nat
      /\ PaddedHeads(q, tp) = N * tp /\ ShardableKvHeads(tp, q, kv) = k * tp
      /\ Q \in Seq(Int) /\ Len(Q) = N * tp /\ K \in Seq(Int) /\ Len(K) = k * tp
      /\ \A h \in 0..(q - 1) : \E i \in 1..(N * tp) : \A j \in 1..(N * tp) : Q[j] = h <=> j = i
      /\ \A r \in 0..(tp - 1) : \A i \in 1..N :
           Q[r * N + i] # NoHead =>
             /\ (i - 1) \div (N \div k) + 1 \in 1..k
             /\ K[r * k + ((i - 1) \div (N \div k) + 1)] = Q[r * N + i] \div (q \div kv)
  BY DEF Laid
<1>2. \A h \in 0..(q - 1) : Cardinality({i \in DOMAIN Q : Q[i] = h}) = 1
  <2> SUFFICES ASSUME NEW h \in 0..(q - 1) PROVE Cardinality({i \in DOMAIN Q : Q[i] = h}) = 1
    OBVIOUS
  <2> DEFINE l == N * tp
  <2>1. DOMAIN Q = 1..l
    BY <1>1
  <2> HIDE DEF l, Q
  <2>2. PICK i \in 1..l : \A j \in 1..l : Q[j] = h <=> j = i
    BY <1>1 DEF l, Q
  <2>3. {j \in DOMAIN Q : Q[j] = h} = {i}
    BY <2>1, <2>2
  <2> QED
    BY <2>3, FS_Singleton
<1>3. ASSUME NEW r \in 0..(tp - 1)
      PROVE  LET here    == HeadsOfRank(arranged, weights, r)
                 outputs == OfRank(weights.outputs, tp, r)
             IN \A i \in DOMAIN here.queries :
                  here.queries[i] # NoHead =>
                    /\ PartnerOf(here.queries, here.keys, i) = here.queries[i] \div (q \div kv)
                    /\ outputs[i] = here.queries[i]
  <2> DEFINE here == HeadsOfRank(arranged, weights, r)
             A == OfRank(Q, tp, r)
             B == OfRank(K, tp, r)
  <2>1. here.queries = A /\ here.keys = B
    <3>1. /\ arranged.tp \in Nat \ {0} /\ r \in 0..(arranged.tp - 1)
          /\ Laid(weights.queries, weights.keys, arranged.tp, arranged.q, arranged.kv, N, k)
      OBVIOUS
    <3>2. /\ HeadsOfRank(arranged, weights, r).queries = OfRank(weights.queries, arranged.tp, r)
          /\ HeadsOfRank(arranged, weights, r).keys = OfRank(weights.keys, arranged.tp, r)
      BY <3>1, SharesOfRank
    <3> QED
      BY ONLY <3>2
  <2>2. /\ A \in Seq(Int) /\ Len(A) = N /\ \A i \in 1..N : A[i] = Q[r * N + i]
        /\ B \in Seq(Int) /\ Len(B) = k /\ \A i \in 1..k : B[i] = K[r * k + i]
    <3>1. r \in 0..(tp - 1)
      OBVIOUS
    <3>2. /\ tp \in Nat \ {0} /\ N \in Nat /\ k \in Nat
          /\ Q \in Seq(Int) /\ Len(Q) = N * tp /\ K \in Seq(Int) /\ Len(K) = k * tp
      BY <1>1
    <3> HIDE DEF tp, Q, K
    <3>3. OfRank(Q, tp, r) \in Seq(Int) /\ Len(OfRank(Q, tp, r)) = N
          /\ \A i \in 1..N : OfRank(Q, tp, r)[i] = Q[r * N + i]
      BY ONLY <3>1, <3>2, ShareIs
    <3>4. OfRank(K, tp, r) \in Seq(Int) /\ Len(OfRank(K, tp, r)) = k
          /\ \A i \in 1..k : OfRank(K, tp, r)[i] = K[r * k + i]
      BY ONLY <3>1, <3>2, ShareIs
    <3> QED
      BY <3>3, <3>4
  <2> SUFFICES \A i \in 1..N : A[i] # NoHead => PartnerOf(A, B, i) = A[i] \div (q \div kv)
    <3>1. DOMAIN A = 1..N /\ OfRank(weights.outputs, tp, r) = A
      BY <2>2
    <3> HIDE DEF here, A, B
    <3> QED
      BY <2>1, <3>1 DEF here
  <2> SUFFICES ASSUME NEW i \in 1..N, A[i] # NoHead
               PROVE  PartnerOf(A, B, i) = A[i] \div (q \div kv)
    OBVIOUS
  <2>3. A[i] = Q[r * N + i]
    BY <2>2
  <2> DEFINE p == (i - 1) \div (N \div k) + 1
  <2>4. p \in 1..k /\ K[r * k + p] = A[i] \div (q \div kv)
    <3>1. r \in 0..(tp - 1) /\ Q[r * N + i] # NoHead
      BY <2>3
    <3>2. \A s \in 0..(tp - 1) : \A j \in 1..N :
            Q[s * N + j] # NoHead =>
              /\ (j - 1) \div (N \div k) + 1 \in 1..k
              /\ K[s * k + ((j - 1) \div (N \div k) + 1)] = Q[s * N + j] \div (q \div kv)
      BY <1>1
    <3>3. i \in 1..N
      OBVIOUS
    <3> HIDE DEF Q, K, tp, A, q, kv
    <3> QED
      BY ONLY <2>3, <3>1, <3>2, <3>3, Zenon
  <2>5. B[p] = K[r * k + p]
    BY <2>2, <2>4
  <2>6. PartnerOf(A, B, i) = B[p]
    BY <2>2 DEF PartnerOf
  <2> QED
    BY <2>4, <2>5, <2>6
<1> HIDE DEF Q, K
<1>4. Len(Q) = PaddedHeads(q, tp) /\ Len(K) = ShardableKvHeads(tp, q, kv)
  BY <1>1
<1> QED
  BY <1>2, <1>3, <1>4 DEF HeadsStayAligned, Q, K

\* The numbers below a product are those with a quotient below one factor and a
\* remainder below the other.
LEMMA Digits ==
  ASSUME NEW n \in Nat \ {0}, NEW w \in Nat \ {0}
  PROVE  /\ n * w \in Nat
         /\ \A a \in 0..(n * w - 1) : a \in Nat /\ a \div w \in 0..(n - 1) /\ a % w \in 0..(w - 1)
                                      /\ a = w * (a \div w) + (a % w)
         /\ \A x \in 0..(n - 1), y \in 0..(w - 1) : w * x + y \in 0..(n * w - 1)
<1> DEFINE l == n * w
<1>1. l \in Nat
  OBVIOUS
<1>2. ASSUME NEW a \in 0..(l - 1)
      PROVE  a \in Nat /\ a \div w \in 0..(n - 1) /\ a % w \in 0..(w - 1) /\ a = w * (a \div w) + (a % w)
  <2> DEFINE d == a \div w
             r == a % w
  <2>1. a \in Nat /\ a < l
    BY <1>1
  <2>2. d \in Nat /\ r \in 0..(w - 1) /\ a = w * d + r
    BY <2>1, DividesInto
  <2> HIDE DEF d, r
  <2>3. d <= n - 1
    <3> SUFFICES ASSUME d > n - 1 PROVE FALSE
      BY <2>2
    <3>1. n <= d /\ n \in Nat /\ w \in Nat
      BY <2>2
    <3>2. w * n <= w * d /\ w * n \in Nat /\ w * d \in Nat
      BY <2>2, <3>1, ProductsGrow
    <3>3. w * n = l
      OBVIOUS
    <3> DEFINE p == w * d
    <3>4. a = p + r /\ l <= p /\ p \in Nat
      BY <2>2, <3>2, <3>3
    <3> HIDE DEF p, l
    <3> QED
      BY <1>1, <2>1, <2>2, <3>4
  <2>4. d \in 0..(n - 1)
    BY <2>2, <2>3
  <2> QED
    BY <2>1, <2>2, <2>4 DEF d, r
<1>3. ASSUME NEW x \in 0..(n - 1), NEW y \in 0..(w - 1) PROVE w * x + y \in 0..(l - 1)
  <2>1. x + 1 \in Nat /\ x \in Nat /\ x + 1 <= n /\ w \in Nat
    OBVIOUS
  <2>2. w * (x + 1) <= w * n /\ w * (x + 1) \in Nat /\ w * n \in Nat
    BY <2>1, ProductsGrow
  <2>3. w * (x + 1) = w * x + w /\ w * x \in Nat /\ w * n = l
    BY <2>1
  <2> DEFINE p == w * x
  <2>4. p + w <= l /\ p \in Nat
    BY <2>2, <2>3
  <2> HIDE DEF p, l
  <2>5. p + y \in 0..(l - 1)
    BY <1>1, <2>4
  <2> QED
    BY <2>5 DEF p
<1> QED
  BY <1>1, <1>2, <1>3

\* A factor that is not zero can be left out.
LEMMA ProductsCancel ==
  ASSUME NEW m \in Nat \ {0}, NEW a \in Nat, NEW b \in Nat, m * a <= m * b
  PROVE  a <= b
<1> SUFFICES ASSUME b + 1 <= a PROVE FALSE
  OBVIOUS
<1>1. m * (b + 1) <= m * a /\ m * (b + 1) \in Nat /\ m * a \in Nat
  <2>1. m \in Nat /\ b + 1 \in Nat /\ b + 1 <= a
    OBVIOUS
  <2> QED
    BY <2>1, ProductsGrow
<1>2. m * (b + 1) = m * b + m /\ m * b \in Nat
  OBVIOUS
<1> DEFINE p == m * b
           s == m * a
<1>3. p + m <= s /\ s <= p /\ p \in Nat /\ s \in Nat
  BY <1>1, <1>2
<1> HIDE DEF p, s
<1> QED
  BY <1>3

\* Each of the ranks gets as many of the padded heads.
LEMMA PaddedAre ==
  ASSUME NEW q \in Nat \ {0}, NEW tp \in Nat \ {0}
  PROVE  LET n == (q + tp - 1) \div tp
         IN n \in Nat \ {0} /\ PaddedHeads(q, tp) = n * tp /\ n * tp \in Nat /\ q <= n * tp
            /\ n * tp = tp * n /\ n * tp <= q + tp - 1
<1> DEFINE a == q + tp - 1
           n == a \div tp
<1>1. a \in Nat /\ a >= 0
  OBVIOUS
<1>2. n \in Nat /\ tp * n <= a /\ a < tp * n + tp
  <2> HIDE DEF a
  <2> QED
    BY <1>1, DividesInto, DividedIs
<1> HIDE DEF n
<1>3. n * tp = tp * n /\ n * tp \in Nat
  BY <1>2
<1> DEFINE p == n * tp
<1>4. p \in Nat /\ p <= a /\ a < p + tp
  BY <1>2, <1>3
<1> HIDE DEF p
<1>5. q <= p
  BY <1>4
<1>6. n # 0
  <2> SUFFICES ASSUME n = 0 PROVE FALSE
    OBVIOUS
  <2>1. p = 0
    BY DEF p
  <2> QED
    BY <1>5, <2>1
<1>7. PaddedHeads(q, tp) = n * tp
  BY DEF PaddedHeads, n
<1>8. n \in Nat \ {0} /\ PaddedHeads(q, tp) = n * tp /\ n * tp \in Nat /\ q <= n * tp
      /\ n * tp = tp * n /\ n * tp <= q + tp - 1
  BY <1>2, <1>3, <1>4, <1>5, <1>6, <1>7 DEF p
<1> QED
  BY <1>8 DEF n

\* Groups of g heads, each with zeros up to a width of w, one group after the other.
Interleaved(Q, n, w, g) ==
  /\ n \in Nat \ {0} /\ w \in Nat \ {0} /\ g \in 1..w
  /\ Q \in Seq(Int) /\ Len(Q) = n * w
  /\ \A i \in 1..(n * w) :
       Q[i] = IF (i - 1) % w < g THEN g * ((i - 1) \div w) + ((i - 1) % w) ELSE NoHead

\* Every head is in one place.
LEMMA InterleavedOnce ==
  ASSUME NEW Q, NEW n, NEW w, NEW g, Interleaved(Q, n, w, g)
  PROVE  \A h \in 0..(n * g - 1) : \E i \in 1..(n * w) : \A j \in 1..(n * w) : Q[j] = h <=> j = i
<1> SUFFICES ASSUME NEW h \in 0..(n * g - 1)
             PROVE  \E i \in 1..(n * w) : \A j \in 1..(n * w) : Q[j] = h <=> j = i
  OBVIOUS
<1> DEFINE l == n * w
           x == h \div g
           y == h % g
           i == w * x + y + 1
<1>1. n \in Nat \ {0} /\ w \in Nat \ {0} /\ g \in Nat \ {0} /\ g <= w
  BY DEF Interleaved
<1>2. x \in 0..(n - 1) /\ y \in 0..(g - 1) /\ h = g * x + y /\ h \in Nat
  BY <1>1, Digits
<1> HIDE DEF x, y
<1>3. y \in 0..(w - 1) /\ x \in Nat
  BY <1>1, <1>2
<1>4. w * x + y \in 0..(l - 1) /\ l \in Nat
  BY <1>1, <1>2, <1>3, Digits
<1>5. i \in 1..l
  <2> DEFINE a == w * x + y
  <2> HIDE DEF a, l
  <2>1. a + 1 \in 1..l
    BY <1>4 DEF a
  <2> QED
    BY <2>1 DEF a
<1>6. ASSUME NEW j \in 1..l PROVE Q[j] = h <=> j = i
  <2> DEFINE a == j - 1
             d == a \div w
             r == a % w
  <2>1. a \in 0..(l - 1) /\ a + 1 = j
    <3> HIDE DEF l
    <3> QED
      BY <1>4
  <2> HIDE DEF a
  <2>2. d \in 0..(n - 1) /\ r \in 0..(w - 1) /\ a = w * d + r
    BY <1>1, <2>1, Digits
  <2>3. Q[j] = IF r < g THEN g * d + r ELSE NoHead
    BY DEF Interleaved, a
  <2> HIDE DEF d, r
  <2>4. ASSUME Q[j] = h PROVE j = i
    <3>1. r < g
      BY <1>2, <2>3, <2>4 DEF NoHead
    <3>2. h = g * d + r /\ r \in 0..(g - 1) /\ d \in Nat
      BY <1>1, <2>2, <2>3, <2>4, <3>1
    <3>3. x = d /\ y = r
      BY <1>1, <1>2, <3>2, DividesAs DEF x, y
    <3> QED
      BY <2>1, <2>2, <3>3
  <2>5. ASSUME j = i PROVE Q[j] = h
    <3>1. a = w * x + y
      <4> DEFINE p == w * x + y
      <4>1. p \in Int /\ j = p + 1
        BY <1>4, <2>5
      <4> HIDE DEF p, l
      <4>2. a = p
        BY <2>1, <4>1
      <4> QED
        BY <4>2 DEF p
    <3>2. a \in Nat
      <4> HIDE DEF l
      <4> QED
        BY <1>4, <2>1
    <3>3. d = x /\ r = y
      BY <1>1, <1>3, <3>1, <3>2, DividesAs DEF d, r
    <3>4. r < g
      BY <1>1, <1>2, <3>3
    <3> QED
      BY <1>2, <2>3, <3>3, <3>4
  <2> QED
    BY <2>4, <2>5
<1> HIDE DEF i, l
<1>7. \E e \in 1..l : \A j \in 1..l : Q[j] = h <=> j = e
  BY <1>5, <1>6
<1> QED
  BY <1>7 DEF l

\* The ranks of a group of the source, m of them with N heads each, have the heads of
\* that group.
GroupsKept(Q, n, N, m, g) ==
  \A r \in 0..(n * m - 1), i \in 1..N :
    Q[r * N + i] # NoHead => Q[r * N + i] \div g = r \div m

\* They have them in interleaved heads.
LEMMA InterleavedGroups ==
  ASSUME NEW Q, NEW n, NEW N \in Nat \ {0}, NEW m \in Nat \ {0}, NEW g, Interleaved(Q, n, N * m, g)
  PROVE  GroupsKept(Q, n, N, m, g)
<1> SUFFICES ASSUME NEW r \in 0..(n * m - 1), NEW i \in 1..N, Q[r * N + i] # NoHead
             PROVE  Q[r * N + i] \div g = r \div m
  BY DEF GroupsKept
<1> DEFINE w == N * m
           x == r \div m
           y == r % m
           a == w * x + (N * y + (i - 1))
           p == r * N + i
<1>1. n \in Nat \ {0} /\ w \in Nat \ {0} /\ g \in Nat \ {0} /\ g <= w /\ N \in Nat /\ m \in Nat
  BY DEF Interleaved
<1>2. x \in 0..(n - 1) /\ y \in 0..(m - 1) /\ r = m * x + y /\ r \in Nat
  BY <1>1, Digits
<1> HIDE DEF x, y
<1> DEFINE z == N * y + (i - 1)
<1>3. z \in 0..(w - 1)
  <2>1. i - 1 \in 0..(N - 1)
    OBVIOUS
  <2>2. m * N = w
    BY <1>1
  <2>3. z \in 0..(m * N - 1)
    BY <1>2, <2>1, Digits
  <2> QED
    BY <2>2, <2>3
<1>4. w * x + z \in 0..(n * w - 1) /\ n * w \in Nat
  <2> HIDE DEF z, w
  <2> QED
    BY <1>1, <1>2, <1>3, Digits
<1>5. p = w * x + z + 1
  <2>1. r * N = w * x + N * y /\ N * y \in Nat /\ w * x \in Nat
    <3>1. x \in Nat /\ y \in Nat
      BY <1>2
    <3>2. (m * x + y) * N = (m * x) * N + y * N /\ (m * x) * N = w * x /\ y * N = N * y
          /\ N * y \in Nat /\ w * x \in Nat
      BY <1>1, <3>1
    <3> QED
      BY <1>2, <3>2
  <2> DEFINE b == N * y
             c == w * x
             d == r * N
  <2>2. d = c + b /\ b \in Nat /\ c \in Nat
    BY <2>1
  <2> HIDE DEF b, c, d
  <2>3. d + i = c + (b + (i - 1)) + 1
    BY <2>2
  <2> QED
    BY <2>3 DEF b, c, d
<1> HIDE DEF p, z, w
<1> DEFINE e == w * x
<1>6. e + z \in 0..(n * w - 1) /\ p - 1 = e + z /\ p \in 1..(n * w) /\ e \in Nat /\ z \in Nat
  <2> DEFINE l == n * w
  <2>1. e \in Nat
    BY <1>1, <1>2
  <2>2. e + z \in 0..(l - 1) /\ l \in Nat /\ p = e + z + 1 /\ z \in Nat
    BY <1>1, <1>3, <1>4, <1>5
  <2> HIDE DEF l, e
  <2>3. e + z \in 0..(l - 1) /\ p - 1 = e + z /\ p \in 1..l
    BY <2>1, <2>2
  <2> QED
    BY <2>1, <2>2, <2>3 DEF l
<1>7. (p - 1) \div w = x /\ (p - 1) % w = z
  <2>1. p - 1 \in Nat /\ x \in Nat
    BY <1>2, <1>6
  <2> QED
    BY <1>1, <1>3, <1>6, <2>1, DividesAs
<1>8. Q[p] = IF z < g THEN g * x + z ELSE NoHead
  BY <1>6, <1>7 DEF Interleaved, w
<1>9. Q[p] # NoHead
  BY DEF p
<1>10. z \in 0..(g - 1) /\ Q[p] = g * x + z
  BY <1>1, <1>3, <1>8, <1>9
<1>11. Q[p] \in Nat /\ x \in Nat
  <2>1. x \in Nat /\ z \in Nat
    BY <1>2, <1>6
  <2>2. g * x \in Nat
    BY <1>1, <2>1
  <2> QED
    BY <1>10, <2>1, <2>2
<1>12. Q[p] \div g = x
  BY <1>1, <1>10, <1>11, DividesAs
<1> QED
  BY <1>12 DEF p, x

\* The heads of the checkpoint are their numbers.
LEMMA SourceIs ==
  ASSUME NEW n \in Nat
  PROVE  /\ SourceHeads(n) \in Seq(Int) /\ Len(SourceHeads(n)) = n
         /\ \A i \in 1..n : SourceHeads(n)[i] = i - 1
  BY DEF SourceHeads

\* The query heads where the keys are replicated.
LEMMA QueriesInterleaved ==
  ASSUME NEW kv \in Nat \ {0}, NEW m \in Nat \ {0}, NEW g \in Nat \ {0}, NEW N \in Nat \ {0},
         kv * g <= N * (m * kv)
  PROVE  Interleaved(PadInterleaved(SourceHeads(kv * g), N * (m * kv), g), kv, N * m, g)
<1> DEFINE q == kv * g
           w == N * m
           H == SourceHeads(q)
           target == N * (m * kv)
           Q == PadInterleaved(H, target, g)
<1>1. q \in Nat /\ w \in Nat \ {0} /\ target = kv * w /\ kv * w \in Nat /\ q <= kv * w
  BY MultiplesDivide
<1>2. g <= w
  <2>1. g \in Nat /\ w \in Nat
    BY <1>1
  <2> HIDE DEF w, target
  <2> QED
    BY <1>1, <2>1, ProductsCancel
<1>3. H \in Seq(Int) /\ Len(H) = q /\ \A i \in 1..q : H[i] = i - 1
  <2> HIDE DEF q
  <2> QED
    BY <1>1, SourceIs
<1>4. q \div g = kv /\ (target - q) \div kv = w - g
  <2>1. q \div g = kv
    BY MultiplesDivide
  <2> DEFINE d == w - g
  <2>2. d \in Nat /\ w = g + d
    BY <1>1, <1>2
  <2> HIDE DEF d, w
  <2>3. kv * w = kv * g + kv * d /\ kv * d \in Nat /\ kv * g \in Nat
    <3>1. kv \in Int /\ g \in Int /\ d \in Int
      BY <2>2
    <3>2. kv * (g + d) = kv * g + kv * d
      BY <3>1, Distributed
    <3> QED
      BY <2>2, <3>2
  <2>4. target - q = kv * d
    <3> DEFINE e == kv * d
    <3>1. target = q + e /\ q \in Nat /\ e \in Nat
      BY <1>1, <2>3
    <3> HIDE DEF e, target, q
    <3>2. target - q = e
      BY <3>1
    <3> QED
      BY <3>2 DEF e
  <2>5. (kv * d) \div kv = d
    BY <2>2, MultiplesDivide
  <2> QED
    BY <2>1, <2>4, <2>5 DEF d
<1>5. g + (w - g) = w
  BY <1>1
<1>6. Q = [i \in 1..(kv * w) |->
             IF (i - 1) % w < g THEN H[((i - 1) \div w) * g + ((i - 1) % w) + 1] ELSE NoHead]
  BY <1>3, <1>4, <1>5 DEF PadInterleaved
<1> HIDE DEF H, Q, target, w
<1>7. ASSUME NEW i \in 1..(kv * w)
      PROVE  Q[i] = IF (i - 1) % w < g THEN g * ((i - 1) \div w) + ((i - 1) % w) ELSE NoHead
  <2> DEFINE a == i - 1
             d == a \div w
             r == a % w
             l == kv * w
  <2>1. a \in 0..(l - 1)
    <3> HIDE DEF l
    <3> QED
      BY <1>1 DEF l
  <2> HIDE DEF a
  <2>2. d \in 0..(kv - 1) /\ r \in 0..(w - 1)
    BY <1>1, <2>1, Digits
  <2>3. Q[i] = IF r < g THEN H[d * g + r + 1] ELSE NoHead
    BY <1>6 DEF a
  <2> HIDE DEF d, r, l
  <2>4. ASSUME r < g PROVE H[d * g + r + 1] = g * d + r
    <3>1. r \in 0..(g - 1)
      BY <1>1, <2>2, <2>4
    <3>2. g * d + r \in 0..(q - 1)
      BY <2>2, <3>1, Digits
    <3>3. d * g = g * d /\ g * d \in Nat
      BY <2>2
    <3> DEFINE e == g * d
    <3>4. e + r + 1 \in 1..q /\ (e + r + 1) - 1 = e + r
      <4>1. e + r \in 0..(q - 1) /\ e \in Nat /\ r \in Nat /\ q \in Nat
        BY <1>1, <3>1, <3>2, <3>3
      <4> HIDE DEF e, q
      <4> QED
        BY <4>1
    <3>5. H[e + r + 1] = e + r
      <4> HIDE DEF e, q
      <4> QED
        BY <1>3, <3>4
    <3> QED
      BY <3>3, <3>5
  <2>5. Q[i] = IF r < g THEN g * d + r ELSE NoHead
    BY <2>3, <2>4
  <2> QED
    BY <2>5 DEF a, d, r
<1>8. Q \in Seq(Int) /\ Len(Q) = kv * w
  <2>1. \A i \in 1..(kv * w) : Q[i] \in Int
    <3> SUFFICES ASSUME NEW i \in 1..(kv * w) PROVE Q[i] \in Int
      OBVIOUS
    <3> DEFINE a == i - 1
               d == a \div w
               r == a % w
               l == kv * w
    <3>1. a \in 0..(l - 1)
      <4> HIDE DEF l
      <4> QED
        BY <1>1 DEF l
    <3> HIDE DEF a
    <3>2. d \in 0..(kv - 1) /\ r \in 0..(w - 1)
      BY <1>1, <3>1, Digits
    <3>3. Q[i] = IF r < g THEN g * d + r ELSE NoHead
      BY <1>7 DEF a
    <3> HIDE DEF d, r
    <3>4. g * d \in Int /\ r \in Int /\ NoHead \in Int
      BY <3>2 DEF NoHead
    <3> QED
      BY <3>3, <3>4
  <2> DEFINE l == kv * w
  <2>2. l \in Nat /\ Q = [i \in 1..l |-> Q[i]] /\ \A i \in 1..l : Q[i] \in Int
    BY <1>1, <1>6, <2>1
  <2> HIDE DEF l
  <2>3. Q \in Seq(Int) /\ Len(Q) = l
    BY <2>2
  <2> QED
    BY <2>3 DEF l
<1>9. Interleaved(Q, kv, w, g)
  BY <1>1, <1>2, <1>7, <1>8 DEF Interleaved
<1> QED
  BY <1>9 DEF Q, H, w, target

\* The key heads where they are replicated, one for each rank.
LEMMA KeysReplicated ==
  ASSUME NEW kv \in Nat \ {0}, NEW m \in Nat \ {0}
  PROVE  /\ ReplicateKv(SourceHeads(kv), m) \in Seq(Int)
         /\ Len(ReplicateKv(SourceHeads(kv), m)) = m * kv
         /\ \A i \in 1..(m * kv) : ReplicateKv(SourceHeads(kv), m)[i] = (i - 1) \div m
<1> DEFINE l == kv * m
           K == ReplicateKv(SourceHeads(kv), m)
<1>1. l \in Nat /\ l = m * kv
  BY MultiplesDivide
<1>2. Len(SourceHeads(kv)) = kv /\ \A i \in 1..kv : SourceHeads(kv)[i] = i - 1
  BY SourceIs
<1>3. K = [i \in 1..l |-> SourceHeads(kv)[(i - 1) \div m + 1]]
  BY <1>2 DEF ReplicateKv
<1>4. ASSUME NEW i \in 1..l PROVE K[i] = (i - 1) \div m /\ K[i] \in Int
  <2> DEFINE a == i - 1
             d == a \div m
  <2>1. a \in 0..(l - 1)
    <3> HIDE DEF l
    <3> QED
      BY <1>1
  <2> HIDE DEF a
  <2>2. d \in 0..(kv - 1)
    BY <2>1, Digits
  <2>3. K[i] = SourceHeads(kv)[d + 1]
    <3> HIDE DEF K
    <3> QED
      BY <1>3 DEF a
  <2> HIDE DEF d, K
  <2>4. d + 1 \in 1..kv /\ (d + 1) - 1 = d /\ d \in Int
    BY <2>2
  <2> QED
    BY <1>2, <2>3, <2>4 DEF a, d
<1>5. K \in Seq(Int) /\ Len(K) = l
  <2> HIDE DEF K, l
  <2>1. K = [i \in 1..l |-> K[i]] /\ \A i \in 1..l : K[i] \in Int
    BY <1>3, <1>4
  <2> QED
    BY <1>1, <2>1
<1> HIDE DEF K
<1>6. \A i \in 1..(m * kv) : K[i] = (i - 1) \div m
  BY <1>1, <1>4
<1> QED
  BY <1>1, <1>5, <1>6 DEF K

\* Replicated once, they stay.
LEMMA ReplicatedOnce ==
  ASSUME NEW kv \in Nat \ {0}
  PROVE  ReplicateKv(SourceHeads(kv), 1) = SourceHeads(kv)
<1>1. Len(SourceHeads(kv)) = kv /\ \A i \in 1..kv : SourceHeads(kv)[i] = i - 1
  BY SourceIs
<1>2. kv * 1 = kv /\ \A i \in 1..kv : (i - 1) \div 1 + 1 = i
  OBVIOUS
<1>3. ReplicateKv(SourceHeads(kv), 1) = [i \in 1..kv |-> SourceHeads(kv)[i]]
  BY <1>1, <1>2 DEF ReplicateKv
<1>4. SourceHeads(kv) = [i \in 1..kv |-> SourceHeads(kv)[i]]
  BY DEF SourceHeads
<1> QED
  BY <1>3, <1>4

\* One sequence of heads after another.
LEMMA AppendedHeads ==
  ASSUME NEW A \in Seq(Int), NEW B \in Seq(Int)
  PROVE  /\ A \o B \in Seq(Int) /\ Len(A \o B) = Len(A) + Len(B)
         /\ \A i \in 1..Len(A) : (A \o B)[i] = A[i]
         /\ \A i \in 1..Len(B) : (A \o B)[Len(A) + i] = B[i]
  OBVIOUS

\* The heads with zeros at the end.
LEMMA PadTailIs ==
  ASSUME NEW n \in Nat \ {0}, NEW p \in Nat, n <= p
  PROVE  LET T == PadTail(SourceHeads(n), n, p)
         IN  /\ T \in Seq(Int) /\ Len(T) = p
             /\ \A i \in 1..p : T[i] = IF i <= n THEN i - 1 ELSE NoHead
<1> DEFINE H == SourceHeads(n)
           Z == [i \in 1..(p - n) |-> NoHead]
<1>1. H \in Seq(Int) /\ Len(H) = n /\ \A i \in 1..n : H[i] = i - 1
  BY SourceIs
<1>2. (n \div n) * p - n = p - n /\ p - n \in Nat
  <2>1. n * 1 = n /\ (n * 1) \div n = 1
    <3>1. 1 \in Nat
      OBVIOUS
    <3> QED
      BY <3>1, MultiplesDivide
  <2>2. n \div n = 1 /\ 1 * p = p
    BY <2>1
  <2> QED
    BY <2>2
<1>3. Z \in Seq(Int) /\ Len(Z) = p - n /\ \A i \in 1..(p - n) : Z[i] = NoHead
  BY <1>2 DEF NoHead
<1>4. PadTail(H, n, p) = H \o Z
  BY <1>1, <1>2 DEF PadTail
<1> HIDE DEF H, Z
<1>5. H \o Z \in Seq(Int) /\ Len(H \o Z) = p
  <2>1. H \o Z \in Seq(Int) /\ Len(H \o Z) = Len(H) + Len(Z)
    BY <1>1, <1>3, AppendedHeads
  <2>2. n + (p - n) = p
    OBVIOUS
  <2> QED
    BY <1>1, <1>3, <2>1, <2>2
<1>6. \A i \in 1..p : (H \o Z)[i] = IF i <= n THEN i - 1 ELSE NoHead
  <2> SUFFICES ASSUME NEW i \in 1..p PROVE (H \o Z)[i] = IF i <= n THEN i - 1 ELSE NoHead
    OBVIOUS
  <2>1. CASE i <= n
    <3>1. i \in 1..n
      BY <2>1
    <3>2. (H \o Z)[i] = H[i]
      BY <1>1, <1>3, <3>1, AppendedHeads
    <3> QED
      BY <1>1, <2>1, <3>1, <3>2
  <2>2. CASE i > n
    <3>1. i - n \in 1..(p - n) /\ n + (i - n) = i
      BY <2>2
    <3>2. (H \o Z)[n + (i - n)] = Z[i - n]
      BY <1>1, <1>3, <3>1, AppendedHeads
    <3>3. Z[i - n] = NoHead
      BY <1>3, <3>1
    <3>4. (H \o Z)[i] = NoHead
      BY <3>1, <3>2, <3>3
    <3> QED
      BY <2>2, <3>4
  <2>3. i <= n \/ i > n
    OBVIOUS
  <2> QED
    BY ONLY <2>1, <2>2, <2>3, Zenon
<1>7. PadTail(H, n, p) \in Seq(Int) /\ Len(PadTail(H, n, p)) = p
      /\ \A i \in 1..p : PadTail(H, n, p)[i] = IF i <= n THEN i - 1 ELSE NoHead
  BY <1>4, <1>5, <1>6
<1> QED
  BY <1>7 DEF H

\* The heads without any.
LEMMA UnpaddedIs ==
  ASSUME NEW n \in Nat \ {0}
  PROVE  /\ PadTail(SourceHeads(n), n, n) \in Seq(Int) /\ Len(PadTail(SourceHeads(n), n, n)) = n
         /\ \A i \in 1..n : PadTail(SourceHeads(n), n, n)[i] = i - 1
<1>1. n \in Nat /\ n <= n
  OBVIOUS
<1> QED
  BY <1>1, PadTailIs

\* Ranks that share a key head of the checkpoint are laid out.
LEMMA ReplicatedAreLaid ==
  ASSUME NEW tp \in Nat \ {0}, NEW q \in Nat \ {0}, NEW kv \in Nat \ {0}, q % kv = 0, tp % kv = 0
  PROVE  \E N, k : Laid(ShardQ(tp, q, kv), ShardKv(tp, q, kv), tp, q, kv, N, k)
<1> DEFINE g == q \div kv
           m == tp \div kv
           N == (q + tp - 1) \div tp
           Q == ShardQ(tp, q, kv)
           K == ShardKv(tp, q, kv)
<1>1. g \in Nat \ {0} /\ q = kv * g /\ m \in Nat \ {0} /\ tp = kv * m /\ tp = m * kv
  <2>1. g \in Nat /\ q = kv * g + (q % kv) /\ m \in Nat /\ tp = kv * m + (tp % kv)
    BY DividesInto
  <2> HIDE DEF g, m
  <2>2. kv * g \in Nat /\ kv * m \in Nat /\ kv * 0 = 0 /\ kv * m = m * kv
    BY <2>1
  <2>3. q = kv * g /\ tp = kv * m
    BY <2>1, <2>2
  <2>4. g # 0 /\ m # 0
    BY <2>2, <2>3
  <2> QED
    BY <2>1, <2>2, <2>3, <2>4
<1>2. N \in Nat \ {0} /\ PaddedHeads(q, tp) = N * tp /\ N * tp \in Nat /\ q <= N * tp
  <2> HIDE DEF N
  <2> QED
    BY PaddedAre DEF N
<1> HIDE DEF N
<1>3. Interleaved(Q, kv, N * m, g)
  <2>1. Q = PadInterleaved(SourceHeads(q), PaddedHeads(q, tp), g)
    BY DEF ShardQ, DetermineShardingStrategy
  <2> HIDE DEF g, m, Q
  <2>2. kv * g <= N * (m * kv)
    BY <1>1, <1>2
  <2>3. Interleaved(PadInterleaved(SourceHeads(kv * g), N * (m * kv), g), kv, N * m, g)
    BY <1>1, <1>2, <2>2, QueriesInterleaved
  <2>4. Q = PadInterleaved(SourceHeads(kv * g), N * (m * kv), g)
    BY <1>1, <1>2, <2>1
  <2> QED
    BY <2>3, <2>4
<1>4. ShardableKvHeads(tp, q, kv) = tp
  <2>1. DetermineShardingStrategy(tp, kv) = "replicate-to-tp-degree"
    BY DEF DetermineShardingStrategy
  <2>2. CASE q = kv
    <3>1. N = 1
      <4> HIDE DEF m
      <4>1. kv <= tp
        <5>1. kv * 1 <= kv * m /\ kv * 1 = kv
          <6>1. 1 <= m /\ 1 \in Nat /\ m \in Nat /\ kv \in Nat
            BY <1>1
          <6> QED
            BY <6>1, ProductsGrow
        <5> QED
          BY <1>1, <5>1
      <4>2. q + tp - 1 = tp * 1 + (q - 1) /\ q - 1 \in 0..(tp - 1) /\ q + tp - 1 \in Nat /\ 1 \in Nat
        BY <2>2, <4>1
      <4>3. (q + tp - 1) \div tp = 1
        BY <4>2, DividesAs
      <4> QED
        BY <4>3 DEF N
    <3>2. PaddedHeads(q, tp) = tp
      BY <1>2, <3>1
    <3> QED
      BY <2>2, <3>2 DEF ShardableKvHeads
  <2>3. CASE q # kv /\ kv >= tp /\ kv % tp = 0
    <3> HIDE DEF m
    <3>1. kv = tp
      <4>1. kv * m <= kv * 1
        BY <1>1, <2>3
      <4>2. m \in Nat /\ 1 \in Nat
        BY <1>1
      <4>3. m <= 1
        BY <4>1, <4>2, ProductsCancel
      <4>4. m = 1
        BY <1>1, <4>3
      <4> QED
        BY <1>1, <4>4
    <3> QED
      BY <2>3, <3>1 DEF ShardableKvHeads
  <2>4. CASE q # kv /\ ~(kv >= tp /\ kv % tp = 0)
    BY <2>1, <2>4 DEF ShardableKvHeads
  <2> QED
    BY <2>2, <2>3, <2>4
<1>5. K = ReplicateKv(SourceHeads(kv), m)
  <2>1. K = IF tp = kv THEN SourceHeads(kv) ELSE ReplicateKv(SourceHeads(kv), m)
    BY <1>4 DEF ShardKv, DetermineShardingStrategy
  <2>2. CASE tp = kv
    <3>1. m = 1
      <4>1. (kv * 1) \div kv = 1 /\ kv * 1 = kv
        <5>1. 1 \in Nat
          OBVIOUS
        <5> QED
          BY <5>1, MultiplesDivide
      <4> QED
        BY <2>2, <4>1
    <3> QED
      BY <2>1, <2>2, <3>1, ReplicatedOnce
  <2> QED
    BY <2>1, <2>2
<1>6. K \in Seq(Int) /\ Len(K) = tp /\ \A i \in 1..tp : K[i] = (i - 1) \div m
  <2> HIDE DEF K, m
  <2> QED
    BY <1>1, <1>5, KeysReplicated
<1> HIDE DEF Q, K, m, g
<1>7. Q \in Seq(Int) /\ Len(Q) = N * tp /\ kv * (N * m) = N * tp
  <2>1. kv * (N * m) = N * tp
    BY <1>1, <1>2
  <2> QED
    BY <1>3, <2>1 DEF Interleaved
<1>8. \A h \in 0..(q - 1) : \E i \in 1..(N * tp) : \A j \in 1..(N * tp) : Q[j] = h <=> j = i
  <2> DEFINE heads == 0..(kv * g - 1)
             places == 1..(kv * (N * m))
  <2>1. \A h \in heads : \E i \in places : \A j \in places : Q[j] = h <=> j = i
    BY <1>3, InterleavedOnce
  <2>2. places = 1..(N * tp) /\ heads = 0..(q - 1)
    BY <1>1, <1>7
  <2> HIDE DEF heads, places
  <2> QED
    BY <2>1, <2>2
<1>9. ASSUME NEW r \in 0..(tp - 1), NEW i \in 1..N, Q[r * N + i] # NoHead
      PROVE  /\ (i - 1) \div (N \div 1) + 1 \in 1..1
             /\ K[r * 1 + ((i - 1) \div (N \div 1) + 1)] = Q[r * N + i] \div (q \div kv)
  <2>1. N \div 1 = N
    BY <1>2
  <2>2. (i - 1) \div N = 0
    <3>1. i - 1 \in Nat /\ i - 1 \in 0..(N - 1) /\ 0 \in Nat /\ i - 1 = N * 0 + (i - 1)
      BY <1>2
    <3> QED
      BY <1>2, <3>1, DividesAs
  <2>3. r * 1 + (0 + 1) = r + 1 /\ r + 1 \in 1..tp /\ (r + 1) - 1 = r
    OBVIOUS
  <2>4. K[r + 1] = r \div m
    BY <1>6, <2>3
  <2>5. Q[r * N + i] \div g = r \div m
    <3>1. r \in 0..(kv * m - 1)
      BY <1>1
    <3>2. GroupsKept(Q, kv, N, m, g)
      BY <1>1, <1>2, <1>3, InterleavedGroups
    <3> QED
      BY <1>9, <3>1, <3>2 DEF GroupsKept
  <2> QED
    BY <2>1, <2>2, <2>3, <2>4, <2>5 DEF g
<1>10. Laid(Q, K, tp, q, kv, N, 1)
  <2>1. 1 * tp = tp /\ 1 \in Nat \ {0}
    OBVIOUS
  <2> QED
    BY <1>2, <1>4, <1>6, <1>7, <1>8, <1>9, <2>1 DEF Laid
<1> QED
  BY <1>10 DEF Q, K

\* One key head for each query head: both are padded alike.
LEMMA PairsAreLaid ==
  ASSUME NEW tp \in Nat \ {0}, NEW q \in Nat \ {0}, tp % q # 0
  PROVE  \E N, k : Laid(ShardQ(tp, q, q), ShardKv(tp, q, q), tp, q, q, N, k)
<1> DEFINE N == (q + tp - 1) \div tp
           p == N * tp
           T == PadTail(SourceHeads(q), q, p)
<1>1. N \in Nat \ {0} /\ PaddedHeads(q, tp) = p /\ p \in Nat /\ q <= p
  <2> HIDE DEF N
  <2> QED
    BY PaddedAre DEF N
<1> HIDE DEF N
<1>2. T \in Seq(Int) /\ Len(T) = p /\ \A i \in 1..p : T[i] = IF i <= q THEN i - 1 ELSE NoHead
  <2> HIDE DEF p
  <2> QED
    BY <1>1, PadTailIs
<1>3. q \div q = 1
  <2>1. q * 1 = q /\ (q * 1) \div q = 1
    <3>1. 1 \in Nat
      OBVIOUS
    <3> QED
      BY <3>1, MultiplesDivide
  <2> QED
    BY <2>1
<1>4. DetermineShardingStrategy(tp, q) = "convert-to-mha" /\ ShardableKvHeads(tp, q, q) = p
  BY <1>1 DEF DetermineShardingStrategy, ShardableKvHeads
<1>5. ShardQ(tp, q, q) = T
  BY <1>1, <1>4 DEF ShardQ
<1>6. ShardKv(tp, q, q) = T
  <2>1. ReplicateKv(SourceHeads(q), q \div q) = SourceHeads(q)
    BY <1>3, ReplicatedOnce
  <2> HIDE DEF p
  <2> QED
    BY <1>4, <2>1 DEF ShardKv
<1> HIDE DEF T
<1>7. \A h \in 0..(q - 1) : \E i \in 1..p : \A j \in 1..p : T[j] = h <=> j = i
  <2> HIDE DEF p
  <2> SUFFICES ASSUME NEW h \in 0..(q - 1) PROVE \E i \in 1..p : \A j \in 1..p : T[j] = h <=> j = i
    OBVIOUS
  <2>1. h + 1 \in 1..p
    BY <1>1
  <2>2. ASSUME NEW j \in 1..p PROVE T[j] = h <=> j = h + 1
    <3>1. T[j] = IF j <= q THEN j - 1 ELSE NoHead
      BY <1>2
    <3> QED
      BY <1>1, <3>1 DEF NoHead
  <2> QED
    BY <2>1, <2>2
<1>8. ASSUME NEW r \in 0..(tp - 1), NEW i \in 1..N, T[r * N + i] # NoHead
      PROVE  /\ (i - 1) \div (N \div N) + 1 \in 1..N
             /\ T[r * N + ((i - 1) \div (N \div N) + 1)] = T[r * N + i] \div (q \div q)
  <2>1. N \div N = 1
    <3>1. N * 1 = N /\ (N * 1) \div N = 1
      <4>1. 1 \in Nat
        OBVIOUS
      <4> QED
        BY <1>1, <4>1, MultiplesDivide
    <3> QED
      BY <3>1
  <2>2. (i - 1) \div 1 + 1 = i
    BY <1>1
  <2> DEFINE e == r * N + i
  <2>3. e \in 1..p
    <3>1. i - 1 \in 0..(N - 1)
      BY <1>1
    <3>2. N * r + (i - 1) \in 0..(tp * N - 1) /\ tp * N \in Nat
      BY <1>1, <3>1, Digits
    <3>3. N * r = r * N /\ tp * N = p /\ r * N \in Nat
      BY <1>1
    <3> DEFINE d == r * N
    <3>4. d + (i - 1) \in 0..(p - 1) /\ p \in Nat /\ d \in Nat
      BY <1>1, <3>2, <3>3
    <3> HIDE DEF d, p
    <3>5. d + i \in 1..p
      BY <3>4
    <3> QED
      BY <3>5 DEF d
  <2>4. T[e] # NoHead
    BY <1>8
  <2> HIDE DEF e, p
  <2>5. T[e] = e - 1 /\ e - 1 \in Nat
    <3>1. T[e] = IF e <= q THEN e - 1 ELSE NoHead
      BY <1>2, <2>3
    <3>2. T[e] = e - 1
      BY <2>4, <3>1
    <3>3. e - 1 \in Nat
      BY <1>1, <2>3
    <3> QED
      BY <3>2, <3>3
  <2>6. T[e] \div 1 = T[e]
    BY <2>5
  <2> QED
    BY <1>3, <2>1, <2>2, <2>6 DEF e
<1>9. Laid(T, T, tp, q, q, N, N)
  BY <1>1, <1>2, <1>4, <1>7, <1>8 DEF Laid
<1> QED
  BY <1>5, <1>6, <1>9

\* More key heads than ranks: nothing is padded or replicated.
LEMMA DividedAreLaid ==
  ASSUME NEW tp \in Nat \ {0}, NEW q \in Nat \ {0}, NEW kv \in Nat \ {0}, q % kv = 0, kv % tp = 0,
         q # kv, tp % kv # 0
  PROVE  \E N, k : Laid(ShardQ(tp, q, kv), ShardKv(tp, q, kv), tp, q, kv, N, k)
<1> DEFINE g == q \div kv
           k == kv \div tp
           N == k * g
           H == SourceHeads(q)
           K == SourceHeads(kv)
<1>1. g \in Nat \ {0} /\ q = kv * g /\ k \in Nat \ {0} /\ kv = k * tp
  <2>1. g \in Nat /\ q = kv * g + (q % kv) /\ k \in Nat /\ kv = tp * k + (kv % tp)
    BY DividesInto
  <2> HIDE DEF g, k
  <2>2. kv * g \in Nat /\ tp * k \in Nat /\ kv * 0 = 0 /\ tp * 0 = 0 /\ tp * k = k * tp
    BY <2>1
  <2>3. q = kv * g /\ kv = k * tp /\ kv = tp * k
    BY <2>1, <2>2
  <2>4. g # 0 /\ k # 0
    BY <2>2, <2>3
  <2> QED
    BY <2>1, <2>3, <2>4
<1> HIDE DEF k
<1>2. N \in Nat \ {0} /\ q = N * tp /\ q = tp * N
  <2> HIDE DEF g
  <2>1. N \in Nat \ {0}
    BY <1>1, MultiplesDivide
  <2>2. (k * tp) * g = N * tp /\ N * tp = tp * N
    BY <1>1
  <2> QED
    BY <1>1, <2>1, <2>2
<1>3. PaddedHeads(q, tp) = q
  <2> HIDE DEF N
  <2> DEFINE a == q + tp - 1
  <2>1. a = tp * N + (tp - 1) /\ a \in Nat /\ tp - 1 \in 0..(tp - 1) /\ N \in Nat
    <3> DEFINE b == tp * N
    <3>1. q = b
      BY <1>2
    <3> HIDE DEF b
    <3>2. a = b + (tp - 1) /\ a \in Nat /\ tp - 1 \in 0..(tp - 1)
      BY <3>1
    <3> QED
      BY <1>2, <3>2 DEF b
  <2> HIDE DEF a
  <2>2. a \div tp = N
    BY <2>1, DividesAs
  <2> QED
    BY <1>2, <2>2 DEF PaddedHeads, a
<1>4. ShardableKvHeads(tp, q, kv) = kv
  <2>1. kv >= tp
    <3>1. tp * 1 <= tp * k /\ tp * 1 = tp /\ tp * k = k * tp
      <4>1. 1 <= k /\ 1 \in Nat /\ k \in Nat /\ tp \in Nat
        BY <1>1
      <4>2. tp * 1 <= tp * k
        BY <4>1, ProductsGrow
      <4> QED
        BY <1>1, <4>2
    <3> QED
      BY <1>1, <3>1
  <2> QED
    BY <2>1 DEF ShardableKvHeads
<1>5. DetermineShardingStrategy(tp, kv) = "convert-to-mha"
  BY DEF DetermineShardingStrategy
<1>6. /\ PadTail(SourceHeads(q), q, q) \in Seq(Int) /\ Len(PadTail(SourceHeads(q), q, q)) = q
      /\ \A i \in 1..q : PadTail(SourceHeads(q), q, q)[i] = i - 1
  BY UnpaddedIs
<1>7. /\ PadTail(SourceHeads(kv), kv, kv) \in Seq(Int) /\ Len(PadTail(SourceHeads(kv), kv, kv)) = kv
      /\ \A i \in 1..kv : PadTail(SourceHeads(kv), kv, kv)[i] = i - 1
  BY ONLY kv \in Nat \ {0}, UnpaddedIs
<1> DEFINE Q == ShardQ(tp, q, kv)
           W == ShardKv(tp, q, kv)
<1>8. Q \in Seq(Int) /\ Len(Q) = q /\ \A i \in 1..q : Q[i] = i - 1
  BY <1>3, <1>5, <1>6 DEF ShardQ
<1>9. W \in Seq(Int) /\ Len(W) = kv /\ \A i \in 1..kv : W[i] = i - 1
  BY <1>4, <1>5, <1>7 DEF ShardKv
<1> HIDE DEF Q, W
<1>10. \A h \in 0..(q - 1) : \E i \in 1..q : \A j \in 1..q : Q[j] = h <=> j = i
  <2> SUFFICES ASSUME NEW h \in 0..(q - 1) PROVE \E i \in 1..q : \A j \in 1..q : Q[j] = h <=> j = i
    OBVIOUS
  <2>1. h + 1 \in 1..q
    OBVIOUS
  <2>2. \A j \in 1..q : Q[j] = h <=> j = h + 1
    BY <1>8
  <2> QED
    BY <2>1, <2>2
<1>11. N \div k = g
  <2> HIDE DEF g
  <2> QED
    BY <1>1, MultiplesDivide
<1>12. ASSUME NEW r \in 0..(tp - 1), NEW i \in 1..N
       PROVE  /\ (i - 1) \div (N \div k) + 1 \in 1..k
              /\ W[r * k + ((i - 1) \div (N \div k) + 1)] = Q[r * N + i] \div (q \div kv)
  <2> DEFINE a == i - 1
             d == a \div g
             e == a % g
             x == k * r + d
  <2>1. a \in 0..(k * g - 1) /\ a + 1 = i /\ a \in 0..(N - 1)
    <3>1. i \in 1..N /\ N \in Nat
      BY <1>2
    <3> HIDE DEF N
    <3>2. a \in 0..(N - 1) /\ a + 1 = i
      BY <3>1
    <3> QED
      BY <3>2 DEF N
  <2> HIDE DEF a, g
  <2>2. d \in 0..(k - 1) /\ e \in 0..(g - 1) /\ a = g * d + e
    BY <1>1, <2>1, Digits
  <2> HIDE DEF d, e
  <2>3. x \in 0..(kv - 1) /\ k * r = r * k /\ k * r \in Nat
    <3>1. x \in 0..(tp * k - 1)
      BY <1>1, <2>2, Digits
    <3>2. tp * k = kv /\ k * r = r * k /\ k * r \in Nat
      BY <1>1
    <3> QED
      BY <3>1, <3>2
  <2>4. N * r + a \in 0..(q - 1) /\ N * r = r * N /\ N * r \in Nat
    <3>1. N * r + a \in 0..(tp * N - 1)
      <4> HIDE DEF N
      <4> QED
        BY <1>2, <2>1, Digits
    <3>2. N * r = r * N /\ N * r \in Nat
      <4> HIDE DEF N
      <4> QED
        BY <1>2
    <3> QED
      BY <1>2, <3>1, <3>2
  <2>5. N * r + a = g * x + e /\ N * r + a \in Nat
    <3>1. k \in Int /\ g \in Int /\ d \in Int /\ r \in Int
      BY <1>1, <2>2
    <3>2. g * (k * r + d) = (k * g) * r + g * d /\ (k * g) * r \in Int /\ g * d \in Int
      BY <3>1
    <3> DEFINE b == g * x
               c == N * r
               f == g * d
    <3>3. b = c + f /\ a = f + e /\ c \in Nat /\ f \in Int /\ e \in Int /\ a \in Nat
      BY <2>1, <2>2, <2>4, <3>2
    <3> HIDE DEF b, c, f
    <3>4. c + a = b + e /\ c + a \in Nat
      BY <3>3
    <3> QED
      BY <3>4 DEF b, c
  <2>6. (N * r + a) \div g = x
    <3>1. x \in Nat
      BY <2>3
    <3> HIDE DEF x, N
    <3> QED
      BY <1>1, <2>2, <2>5, <3>1, DividesAs
  <2>7. Q[r * N + i] = N * r + a
    <3> DEFINE c == r * N
    <3>1. c \in Nat /\ c + a \in 0..(q - 1) /\ N * r = c
      BY <2>4
    <3> HIDE DEF c
    <3>2. c + i \in 1..q /\ (c + i) - 1 = c + a
      BY <2>1, <3>1
    <3>3. Q[c + i] = c + a
      BY <1>8, <3>2
    <3> QED
      BY <3>1, <3>3 DEF c
  <2>8. W[r * k + (d + 1)] = x
    <3> DEFINE c == r * k
    <3>1. c \in Nat /\ c + d \in 0..(kv - 1) /\ x = c + d
      BY <2>3
    <3> HIDE DEF c, x
    <3>2. c + (d + 1) \in 1..kv /\ (c + (d + 1)) - 1 = c + d
      BY <2>2, <3>1
    <3>3. W[c + (d + 1)] = c + d
      BY <1>9, <3>2
    <3> QED
      BY <3>1, <3>3 DEF c
  <2>9. d + 1 \in 1..k
    BY <1>1, <2>2
  <2> HIDE DEF x
  <2> QED
    BY <1>11, <2>6, <2>7, <2>8, <2>9 DEF d, a, g
<1>13. Laid(Q, W, tp, q, kv, N, k)
  <2> HIDE DEF N
  <2>1. PaddedHeads(q, tp) = N * tp /\ Len(Q) = N * tp /\ 1..q = 1..(N * tp)
    BY <1>2, <1>3, <1>8
  <2>2. \A h \in 0..(q - 1) : \E i \in 1..(N * tp) : \A j \in 1..(N * tp) : Q[j] = h <=> j = i
    <3> DEFINE places == 1..q
    <3>1. \A h \in 0..(q - 1) : \E i \in places : \A j \in places : Q[j] = h <=> j = i
      BY <1>10
    <3>2. places = 1..(N * tp)
      BY <2>1
    <3> HIDE DEF places
    <3> QED
      BY ONLY <3>1, <3>2
  <2> QED
    BY <1>1, <1>2, <1>4, <1>8, <1>9, <1>12, <2>1, <2>2 DEF Laid
<1> QED
  BY <1>13 DEF Q, W

\* Loaded weights are the shards of the arranged heads.
HeadInv ==
  /\ arranged.tp \in Nat \ {0} /\ arranged.q \in Nat \ {0} /\ arranged.kv \in Nat \ {0}
  /\ arranged.q % arranged.kv = 0
  /\ weights # <<>> =>
       weights = [queries |-> ShardQ(arranged.tp, arranged.q, arranged.kv),
                  keys |-> ShardKv(arranged.tp, arranged.q, arranged.kv),
                  outputs |-> ShardO(arranged.tp, arranged.q, arranged.kv)]

\* Their heads are aligned.
LEMMA LoadedAreAligned == HeadInv => HeadsStayAligned
<1> SUFFICES ASSUME HeadInv, weights # <<>>, KeepsGroups(arranged.tp, arranged.q, arranged.kv)
             PROVE  HeadsStayAligned
  BY DEF HeadsStayAligned
<1> DEFINE tp == arranged.tp
           q == arranged.q
           kv == arranged.kv
<1>1. /\ tp \in Nat \ {0} /\ q \in Nat \ {0} /\ kv \in Nat \ {0} /\ q % kv = 0
      /\ weights.queries = ShardQ(tp, q, kv) /\ weights.keys = ShardKv(tp, q, kv)
      /\ weights.outputs = weights.queries
  BY DEF HeadInv, ShardQ, ShardO
<1>2. q = kv \/ tp % kv = 0 \/ kv % tp = 0
  BY DEF KeepsGroups
<1>3. \E N, k : Laid(weights.queries, weights.keys, tp, q, kv, N, k)
  <2> HIDE DEF tp, q, kv
  <2>1. CASE tp % kv = 0
    BY <1>1, <2>1, ReplicatedAreLaid
  <2>2. CASE tp % kv # 0 /\ q = kv
    BY <1>1, <2>2, PairsAreLaid
  <2>3. CASE tp % kv # 0 /\ q # kv /\ kv % tp = 0
    BY <1>1, <2>3, DividedAreLaid
  <2> QED
    BY <1>2, <2>1, <2>2, <2>3
<1> QED
  BY <1>1, <1>3, LaidIsAligned

\* Only the loading of weights changes them.
LEMMA UsesKeepHeads == [InferenceNext]_inferenceVars => [Preshard]_headVars
<1>1. ASSUME InferenceNext PROVE Preshard \/ UNCHANGED headVars
  BY <1>1 DEF InferenceNext, Compile, Convert, KeepArtifacts, LoadWeights, Serve, GenerateBatch,
              AssistedDecoding, DecodeSharded, RouteCall, modelVars, weightVars
<1>2. ASSUME UNCHANGED inferenceVars PROVE UNCHANGED headVars
  BY <1>2 DEF inferenceVars, modelVars, weightVars
<1> QED
  BY <1>1, <1>2

\* For any degree and any numbers of heads whose groups the code keeps: no query head is
\* lost or doubled, and on its rank it meets its group's key head and its own columns of
\* the output projection (gqa.py).
THEOREM HeadsMeetTheirGroups == InferenceSpec => []HeadsStayAligned
<1>1. InferenceInit => HeadInv
  BY HeadAssumption DEF InferenceInit, HeadInit, HeadInv
<1>2. HeadInv /\ [InferenceNext]_inferenceVars => HeadInv'
  <2> SUFFICES ASSUME HeadInv, [Preshard]_headVars PROVE HeadInv'
    BY UsesKeepHeads
  <2>1. CASE Preshard
    BY <2>1 DEF Preshard, HeadInv
  <2>2. CASE UNCHANGED headVars
    BY <2>2 DEF headVars, HeadInv
  <2> QED
    BY <2>1, <2>2
<1> QED
  BY <1>1, <1>2, LoadedAreAligned, PTL DEF InferenceSpec
==============================================================================
