------------------------------ MODULE Artifacts ------------------------------
(***************************************************************************)
(* The directories of traced models (run_qwen_moe_trn2.py): compile writes *)
(* the config, model.pt and a file of weights for each rank, shard-only    *)
(* all but model.pt, and run loads them.  A command may be killed wherever *)
(* it is, as it is when the host runs out of memory.                       *)
(***************************************************************************)
EXTENDS Integers, Sequences

CONSTANTS
  CommandLines,       \* command lines: [kernel, tune, groups, tp]
  MaxCommands,    \* bound on the commands that are given
  Untuned,        \* no --router-ft-checkpoint
  Nothing, Torn   \* no file, and a file that was being written when its command died

ASSUME ArtifactsAssumption ==
  /\ MaxCommands \in Nat
  /\ \A r \in CommandLines : r.tp \in Nat \ {0}
  /\ Nothing \notin CommandLines /\ Torn \notin CommandLines

VARIABLES
  traced,      \* the directories: config, model.pt and the weights of the ranks
  commands,    \* how many were given
  request,     \* the command line of the command that is running
  phase,       \* what it does next
  rank,        \* the rank whose weights are next
  checkpoint,  \* the state dict in memory
  device,      \* the model that the last run command loaded
  finished     \* the last command to write a directory, if it got to its end

artifactVars == <<traced, commands, request, phase, rank, checkpoint, device, finished>>

\* Fault: the directory's name leaves the kernel out.
WrongDirectory(r) == <<r.tune # Untuned, r.tp>>

\* default_traced_path: the kernel and the degree of parallelism, and whether there is a
\* fine-tuned router.  Which one, and the router's own parameters, are left out.
Directory(r) == <<r.kernel, r.tune # Untuned, r.tp>>

Directories == {Directory(r) : r \in CommandLines}
WeightRanks == UNION {0..(r.tp - 1) : r \in CommandLines}

\* convert_qwen_moe_to_neuron_state_dict for a request, whole or cut for some ranks.
StateDict(r, cuts) == [of |-> r, cuts |-> cuts]

ArtifactsInit ==
  /\ traced = [d \in Directories |->
                 [config |-> Nothing, graph |-> Nothing, weights |-> [k \in WeightRanks |-> Nothing]]]
  /\ commands = 0 /\ phase = "idle" /\ rank = 0
  /\ request = Nothing /\ checkpoint = Nothing /\ device = Nothing
  /\ finished = [d \in Directories |-> Nothing]

Here == Directory(request)

\* trace and trace_shard_only up to the config: saved before anything else.
Begin(r, next) ==
  /\ phase = "idle" /\ commands < MaxCommands
  /\ commands' = commands + 1
  /\ request' = r /\ phase' = next
  /\ traced' = [traced EXCEPT ![Directory(r)].config = r]
  /\ finished' = [finished EXCEPT ![Directory(r)] = Nothing]
  /\ UNCHANGED <<rank, checkpoint, device>>

CompileCommand(r) == Begin(r, "trace")

\* shard-only wants a model.pt; it does not look into it.
ShardOnlyCommand(r) == traced[Directory(r)].graph # Nothing /\ Begin(r, "shard")

\* builder.trace and torch.jit.save.
SaveGraph ==
  /\ phase = "trace"
  /\ traced' = [traced EXCEPT ![Here].graph = request]
  /\ phase' = "shard"
  /\ UNCHANGED <<commands, request, rank, checkpoint, device, finished>>

\* shard_checkpoint loads the checkpoint and then calls for each rank.
LoadCheckpoint ==
  /\ phase = "shard"
  /\ checkpoint' = StateDict(request, <<>>)
  /\ rank' = 0 /\ phase' = "slice"
  /\ UNCHANGED <<traced, commands, request, device, finished>>

\* Ranks after the first reload what the one before cut up and dropped.
CheckpointFor(k) == IF k > 0 THEN StateDict(request, <<>>) ELSE checkpoint

\* get_sharded_checkpoint cuts the tensors in place.
SliceRank ==
  /\ phase = "slice"
  /\ checkpoint' = [CheckpointFor(rank) EXCEPT !.cuts = Append(@, rank)]
  /\ phase' = "save"
  /\ UNCHANGED <<traced, commands, request, rank, device, finished>>

SaveRank ==
  /\ phase = "save"
  /\ traced' = [traced EXCEPT ![Here].weights[rank] = checkpoint]
  /\ checkpoint' = Nothing
  /\ IF rank + 1 < request.tp
     THEN rank' = rank + 1 /\ phase' = "slice" /\ UNCHANGED <<request, finished>>
     ELSE /\ rank' = 0 /\ phase' = "idle" /\ request' = Nothing
          /\ finished' = [finished EXCEPT ![Here] = request]
  /\ UNCHANGED <<commands, device>>

\* The command dies; the file that it was writing may be torn.
Kill ==
  /\ phase # "idle"
  /\ traced' \in {traced}
       \cup (IF phase = "trace" THEN {[traced EXCEPT ![Here].graph = Torn]} ELSE {})
       \cup (IF phase = "save" THEN {[traced EXCEPT ![Here].weights[rank] = Torn]} ELSE {})
  /\ phase' = "idle" /\ rank' = 0 /\ request' = Nothing /\ checkpoint' = Nothing
  /\ UNCHANGED <<commands, device, finished>>

\* What load needs: every file there and readable.
Loadable(dir) ==
  /\ dir.config # Nothing
  /\ dir.graph \notin {Nothing, Torn}
  /\ \A k \in 0..(dir.config.tp - 1) : dir.weights[k] \notin {Nothing, Torn}

\* load_neuron_model: the config, model.pt, and the weights of the ranks in the config.
RunCommand(r) ==
  /\ phase = "idle" /\ commands < MaxCommands
  /\ Loadable(traced[Directory(r)])
  /\ commands' = commands + 1
  /\ LET dir == traced[Directory(r)]
     IN  device' = [asked |-> r, config |-> dir.config, graph |-> dir.graph,
                    weights |-> [k \in 0..(dir.config.tp - 1) |-> dir.weights[k]],
                    after |-> finished[Directory(r)]]
  /\ UNCHANGED <<traced, request, phase, rank, checkpoint, finished>>

ArtifactsNext ==
  \/ \E r \in CommandLines : CompileCommand(r) \/ ShardOnlyCommand(r) \/ RunCommand(r)
  \/ SaveGraph \/ LoadCheckpoint \/ SliceRank \/ SaveRank \/ Kill

ArtifactsSpec == ArtifactsInit /\ [][ArtifactsNext]_artifactVars

------------------------------------------------------------------------------

\* default_traced_path: "each of the 10 router variants gets its own NEFF cache
\* directory"; shard-only: "reuse existing model.pt (after OOM at shard)".  Whatever was
\* killed before, a model that runs has the router and the ranks that were asked for,
\* in model.pt and in the weights, and every rank its own slice, cut once.  After a
\* command that finished, they are all slices of that command's one state dict.
RunsWhatWasAsked ==
  device # Nothing =>
    /\ Directory(device.asked) = Directory(device.config)
    /\ device.graph.kernel = device.asked.kernel
    /\ DOMAIN device.weights = 0..(device.asked.tp - 1)
    /\ \A k \in DOMAIN device.weights :
         /\ device.weights[k].cuts = <<k>>
         /\ device.weights[k].of.kernel = device.asked.kernel
         /\ device.after # Nothing => device.weights[k] = StateDict(device.after, <<k>>)
==============================================================================
