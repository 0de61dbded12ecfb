# A TLA+ model of dmsim and its profiler

`dmsim` (`src/src/dmsim`) replays a memory trace of an LLM decode step, taken from an AWS Neuron
profile, on a *differentiated* memory hierarchy: per-core PSUM/SBUF scratch, per-core StRAM,
chip-wide LtRAM and HBM.  It places every tensor in a home level, replays the trace while tracking
where each tensor is, and charges latency, energy and refresh.  `src/scripts/run_memory_sweep.py`
compares hierarchies of one die area.  `src/profiler` holds the program that is profiled: a Qwen
mixture-of-experts model with exchangeable routers on an adapted copy of the NxD inference library.

All of it is sequential.  What is hard are long sequences of legal events that leave tables in
disagreement with each other (residency, occupants, byte counts; cache lines, masks, positions),
rules that exist twice and must agree (the simulator and placement's replay of the trace), order
and position arithmetic (slots of a compiled graph, heads of a rank, batches sorted by line), and
commands that are killed between two files.

Paths below are relative to `src/src/dmsim`, and where the profiled model is the subject to
`src/profiler/nxd_inference/modules` or to `src/profiler`, unless they start with `src/`.

## Inventory

### dmsim

| Component | State | Operations | What can go wrong |
|---|---|---|---|
| Residency in the simulator (`sim/engine.py`, `sim/residency.py`) | `residency` (home and resident level of each tensor), `fast_buffers[core][level]`, `pools[level]` | seed and bootstrap homes; access (in place, or a move that installs and may evict); kernel end (wipe) | a tensor taken for resident where it is not; byte counts that drift; capacity over-run |
| Accounting (`sim/engine.py`) | `SimulationResult`, `prev_t_ns` | charge a hop or a local read; charge refresh between events | ledgers that do not add up; lost or doubled refresh ticks |
| Costs (`sim/transfer.py`, `config/models.py`) | none | latency, energy, link bandwidth | - |
| Placement (`policies/placement.py`) | `homes`, `by_level`, pools being spilled | desired level, fallback walk, capacity pass with spilling | endless walks, homes in disabled levels, stale snapshot of a level, wrong victims |
| Placement replay (`sim/placement_replay.py`) | its own residency and buffers, `retention`, `home_hop_bytes` | as the simulator, reads only | disagreement with the simulator |
| Trace schema (`trace/schema.py`) | the events | parse, sort by time | order of simultaneous events |
| Lifetime analysis (`trace/lifetime_analysis.py`) | active kernels, tensors in SBUF, stints | the same events once more | disagreement with the simulator, core defaults |
| Ingest (`trace/neuron_json_ingest.py`) | aggregation buckets, synthetic tensors | filter, aggregate, split in proportion, sort, downsample, merge cores | bytes lost or invented, events reordered, boundary arithmetic |
| Name mapper (`trace/tensor_name_mapper.py`) | groups of slots, catalog | detect the model, give slots a layer and a meaning, resolve transfers | one odd slot shifts all that follow; ids that collide |
| Configuration, area budget (`config/loader.py`, `config/area_budget.py`) | capacities of a hierarchy | load a file, trade SBUF/HBM area for StRAM/LtRAM | comparisons of different areas |
| Memory sweep (`src/scripts/run_memory_sweep.py`, `cli.py compare`) | generated files, reports | loops over tiers, technologies, fractions, spill orders | a report of stale hierarchies |
| Report, adapter, plots | none | text and figures out | I/O only |

`run_simulation` calls `assign_home_levels`, which calls `build_retention_by_residency_replay` for
every level that is over-full; the result, `homes`, is all that placement hands to the simulator.
Simulator, replay and lifetime analysis each read the same sorted events and share no state.

### The profiled model

| Component | State | Operations | What can go wrong |
|---|---|---|---|
| Cache and batching (`autobucketing.py`, `kvcache/`, `model_wrapper.py`, `model_base.py`) | the cache's lines | choose a bucket, sort, split and fill up a batch, encode prompts, generate tokens | a filled row on a live line, an answer to another request, stale entries |
| Generation loop (`hf_adapter.py`, `nxd_inference/runner.py`) | `input_ids`, attention mask, `kv_cache_populated` | sample until all rows end; reset | a token one position off, a batch in a cache of another |
| Assisted decoding (`hf_adapter.py`) | candidates, positions, both caches | draft, verify, accept | output that the target alone would not give; no progress |
| Flash decoding (`flashdecode/`, `kvcache/`) | the shards of one sequence's cache | prefill, decode | a position attended to twice or not at all |
| Head layout (`gqa.py`) | projections | pad, replicate, fuse, cut by rank | a query head that meets another group's keys |
| Routers (`qwen_moe/routers/`) | none | choose experts | overload, experts of wrong groups |
| Checkpoint conversion (`checkpoint.py`, `model_base.py`, `qwen_moe/neuron_modeling_qwen_moe.py`) | the state dict | read files, rename, fuse experts, overlay fine-tuned weights | an overlay that is lost or lands in another layer |
| Traced models (`run_qwen_moe_trn2.py`, `model_base.py`) | a directory: config, `model.pt`, weights of each rank | compile, shard-only, run; any of them killed | a graph with weights of another model |
| Other scripts | - | start profiles, draw figures | out of scope |

## Modules

| Module | Models | Correspondence |
|---|---|---|
| `Hierarchy` | static inputs | levels, tensors, capacities, homes as constants with assumptions |
| `Buffers` | `FastBufferState`, `LevelPoolState` | a dict is its key sequence (insertion order decides who is evicted), a size per tensor and the running `used_bytes` |
| `Residency` | tables of the simulator | `SeedHome`, `BootstrapHome`: one loop iteration each; `AccessInPlace`, `AccessMoves`: `_handle_access`; `KernelEnd`: `_handle_kernel_boundary` |
| `ResidencyProperties` | - | properties, and the classes of traces they are about |
| `ScratchCache` | abstract specification | per-core caches of live copies (`cached`) over what is stored (`stored`): a load drops at most one other tensor, a write away leaves a stale copy, a wipe takes from both |
| `Costs` | `transfer.py` | whole ns and pJ, bandwidth as ns per byte |
| `Engine` | `run_simulation` | `Residency` with a clock and `SimulationResult`; each handler charges refresh for the gap first |
| `Replay` | `placement_replay.py` | its own copy of the rules, not an instance of `Residency` |
| `Lockstep` | simulator and replay, and what retention is worth | one trace drives both, their loops over the homes go together; and it drives a second instance of `Residency` with some homes moved |
| `Placement` | `placement.py` | a program counter and one action per loop iteration |
| `Configuration` | `loader.py`, `area_budget.py` | `LoadHierarchy` and what it refuses; each trade with its truncations to bytes |
| `Sweep` | `run_memory_sweep.py`, `compare` | one action per loop iteration; generated files are a function from paths |
| `Experiment` | what is fixed before a simulation | composes `Sweep` (`part = "hierarchies"`) and `Placement` (`"homes"`) |
| `Lifetime` | `lifetime_analysis.py` | one pass over the events: first and last touch, active kernels, stints in SBUF, and every tensor's bin at the end |
| `LifetimeLockstep` | lifetime analysis and simulator | one trace drives both; `simTime` is the time the simulator had a tensor in SBUF |
| `Ingest` | `neuron_json_ingest.py` | `SkipRow`, `AggregateRow`, `EmitRow`: one iteration over the DMA rows; `FlushBucket`: one over the buckets; `FinishCore`: the rest of `ingest_neuron_json_profile`; `Merge`: `merge_traces` and the last cap |
| `NameMapper` | `tensor_name_mapper.py` | detection, then one catalogued node and one resolved transfer a step; a name is a record of layer, part and variable |
| `Profile` | a profile directory | composes `NameMapper` (`part = "table"`) and `Ingest` (`"rows"`) |
| `Buckets` | `autobucketing.py` | operators |
| `KVCache` | `kv_cache_manager.py` | one layer of one core; an entry stands for the token it was computed from |
| `ModelWrapper` | `model_wrapper.py`, calls of `model_base.py` | a call is a sequence of rows, an answer the tokens its logits are computed from |
| `PrivateCaches` | abstract specification | each request has a cache of its own; no lines, batches or filled rows |
| `Serving` | requests of a scheduler | `Admit`, `Decode`, `Finish`: every batch in every order; refines `PrivateCaches` |
| `Generation` | `_sample`, `generate_on_neuron` | one turn of the loop a step; calls fail before or after they wrote the cache |
| `Speculation` | `_standard_assisted_decoding` | the draft proposes anything |
| `FlashDecoding` | `flashdecode/`, its writes in `kv_cache_manager.py` | one shard per core of a group |
| `HeadLayout` | `gqa.py` | a weight is the sequence of its heads |
| `Routing` | `routers/` | one call of one router for all scores |
| `Checkpoint` | `checkpoint.py`, the conversion | one file, layer or overlay a step; a tensor is what it was made from |
| `Artifacts` | directories of traced models | one file a step; a command may die at each |
| `Inference` | a model in its uses | composes the nine above; `use` says which one runs |
| `MC*` | instances for TLC | |
| `SumTheorems` | - | lemmas: induction, and what a sum over a function returns |
| `ResidencyProofs`, `EngineProofs`, `LockstepProofs`, `LifetimeProofs`, `PlacementProofs`, `IngestProofs`, `InferenceProofs` | proofs | below |

The trace is the environment: any sequence of events from a finite set.  A core without an entry in
`fast_buffers` and a core with empty buffers differ (a chip-wide kernel end reaches only the
former's complement), so the keys are a variable, `buffered`.  `kernel_start` changes nothing in the
tables and is an action of `Engine` only.  Accesses of unknown tensors raise before any state
changes and are left out.  A replay bootstraps pools that nothing reads; they are left out.

The parts of `Experiment`, `Profile` and `Inference` that are not in use keep one of their initial
states.  They are compositions for checking only: nothing in the code runs two of them at a time, so
a product of their state spaces would show nothing.

Of the callers of the inference library, which are not in the repository, the models assume: a
decode names every request that is being served, a batch of prompts is encoded one by one or whole,
prompts have two tokens or more and no padding token among them, and whoever goes on after a failed
call resets the model first.  The observations below say what happens otherwise.

Operators named `Wrong...` are faults: each stands next to the definition it would replace, and the
mutation runs listed in `PROJECT.json` substitute it to show that a property can fail.  No
specification uses them.

## Runs

| Run | Shows | Instance |
|---|---|---|
| `residency_mixed` | `ScratchBacked`, `BytesBalance`, `HomesReserved`, `ChipWipeResets`, `TypeOK` | 3 tensors of sizes 1 and 2, homes in LtRAM, StRAM and HBM, 2 cores, transfers of 1 or 2 units, SBUF of 3: evictions, re-installs of another size, stale copies after flushes, staging into a full StRAM |
| `residency_ingest` | `WithinCapacity`, `ImplementsScratchCache` | 4 tensors of one size, whole-tensor transfers, SBUF of 2 |
| `engine_accounting` | `LedgersBalance`, `RefreshTelescopes` | `MaxEvents` = 4 events, gaps of 0, 1 and 4 against refresh intervals of 2 and 3 |
| `lockstep` | `SameResidency`, `ReplayCountsChargedHops`, `RetentionIsBenefit` | 4 tensors, two of them in LtRAM and one of these spilled in the second simulation, SBUF of 2, reads into scratch and staging reads; `MaxHops` = 7 charged hops |
| `placement` | `FindsNearestFallback`, `HomesFit`, `SpillsByRetention`, `SpillsNoMoreThanNeeded`, `Terminates` | 4 tensors over 2 cores; the shipped fallbacks with every assignment of desired levels, and every map of fallbacks over every nonempty set of enabled levels |
| | `ComparisonsAreIsoArea` | sweeps over the shipped fractions for 1 to 3 cores; comparisons of files that trade StRAM, LtRAM or both, with odd capacities, missing densities and no budget; `Gib` = 4 bytes, whole densities |
| `lifetime` | `StintsBoundResidency`, `StintsAreResidency`, `EndedKernelsInactive`, `LongerLivesRankHigher` | `MaxEvents` = 5 events, gaps of 0, 2 and 3, bins of 1, 3, 5 and 8; 4 tensors, two of which compete for the SBUF of core 0; boundaries of core 1 or without a core id |
| `ingest` | `BytesConserved`, `CatalogBytesExact`, `AccessesFindTensors`, `CoreOrderKept`, `CapRespected` | one core with up to 3 DMA rows out of 10, or two with up to 2 each; aggregated or not, unattributed rows skipped or not; `MinBytes` = 2, `Cap` = 8, `CapFloor` = 5 |
| | `SlotsKeepTheirMeaning`, `IdsAreUnique` | Llama and Qwen graphs of 2 and 3 layers, with the compiler's slots in either order |
| `inference` | `ServesPrivately`, `CacheHoldsOwnTokens` | 3 cache lines of 5 positions, 4 requests, prompts of 2 and 3 tokens, with and without continuous batching |
| | `GeneratesOwnText` | 2 batches of 3 rows, texts of three shapes, one of which ends at once; calls that fail |
| | `OutputIsGreedy`, `AssistedTerminates` | 3 tokens, 3 proposals a round, any draft, texts of up to 6 |
| | `AttendsToPrefixBeforeLastSlots` | 4 cores, 32 positions, prompts of up to 16 |
| | `BucketIsTightest` | every pair of lengths up to `BucketBound` = 20 |
| | `HeadsStayAligned` | tensor parallelism of 1 to 8, 1 to 12 heads of either kind |
| | `RoutersKeepPromises` | 4 experts, top-2, 3 tokens, 2 groups, five rows of scores with and without ties |
| | `WeightsArrive` | 2 layers, 2 experts; every format and combination of formats, every fine-tuning file |
| | `RunsWhatWasAsked` | 4 command lines over 2 ranks, in two pairs that share a directory, `MaxCommands` = 4 |
| `residency_other_core` | violates `ChipWipeResets` | 4 tensors without core ids, accesses on core 1 |
| `lockstep_writes` | violates `ReplayCountsChargedHops` | scratch writes among the reads |
| `placement_cascade` | violates `AllHomesFit` | the policy example of `sim/README.md` |
| `flash_decoding` | violates `GroupAttendsToPrefix` | 4 cores, 64 positions, decoded to the end of a bucket |

The state spaces of the residency runs are finite without any bound.  Two cores are enough because
the rules mention at most the event's core, the tensor's core and "all others"; three tensors make
an eviction whose victim is neither the newcomer nor the tensor read next, four make two of them in
one buffer.  The evictions, wipes and re-reads that a count of hops needs to go wrong fit in
`MaxHops`, as the mutants show: each property is refuted under its own bounds by a plausible bug.

The longest scenario that the properties of `lifetime` need, a stint that a wipe ends and another
after it, takes four events of `MaxEvents`; the gaps reach every bin. In `ingest` a single row
spreads over up to four categories, so three rows already exceed `Cap` by far, and two cores at
their own cap of `CapFloor` exceed it again at the merge: both downsamplings happen, with a step
over 1.  Two and three layers are the numbers with which a group of *layers + 1* slots, two
alternating kinds and a kind of its own are all different.

Capacities of a few bytes make every truncation to bytes a large share of a level, so an area that
is off by more than truncation shows.  In `inference` three lines make a batch with a filled row, a
row in use and a free one; a fourth request takes over a line; lengths reach the last position.
Four cores of a group have ranks before, at and after the one that owns a position, and 32
positions fill the smallest bucket and go on to the next.  Four commands suffice for two that are killed at
different ranks, one that finishes and one that runs.

Deadlock is checked in every run but `engine_accounting`, `lifetime`, `ingest`, `inference` and
`flash_decoding`, whose traces, profiles and texts end.

*Fairness.*  `Terminates` is checked under weak fairness of `ExperimentNext`: `assign_home_levels`
and the sweep are single threads that wait for nothing, so they take their next step.
`AssistedTerminates` assumes it of `AssistedDecoding` alone, for the same reason: it is a
`while True` in one call.  A scheduler, a caller of `generate` or of the command line may stop at
any time, and nothing is assumed of them.  No other run assumes fairness; the simulator's loop is
bounded by the trace and promises no progress of its own.

### Disagreements with the documentation

1. *Kernel ends of another core.*  In a single-core profile of core 1 tensors carry no core id and
   count as core 0's.  A kernel end without a core id clears the buffers of core 1, then resets the
   residency of tensors of the wiped cores only, and core 0 is not one of them
   (`sim/engine.py:355`).  `src/README.md:133` promises a reload from home.  `ChipWipeIsComplete`
   shows that this cannot happen while accesses stay on their tensors' cores.
2. *Writes in the replay* are skipped (`sim/placement_replay.py:62`), so its residency is not the
   simulator's once the trace writes into scratch.
3. *Cascading spills* (`policies/placement.py:133`): a level's members are fixed before the pass, and
   what an earlier level spills into it is never counted.  With the shipped policies, which send all
   overflow of SBUF, StRAM and LtRAM to HBM, homes fit (`HomesFit`).
4. *Flash decoding* (`src/profiler/nxd_inference/modules/kvcache/kv_cache_manager.py:180`): the
   cores that do not own a new position write it to their last slot, "treat last pos as garbage",
   but the layout of `flashdecode/util.py:41` keeps positions there.
   `AttendsToPrefixBeforeLastSlots` shows that nothing else is wrong with it.

### Observations without a run of their own

dmsim:

- Retention of a StRAM tensor is always 0 (`sim/placement_replay.py:73`): reads of StRAM homes are
  direct and never hop, so victims of an over-full StRAM are picked by id, whatever the policy's
  order. `RetentionIsBenefit` holds of LtRAM only.
- `src/docs/LIFETIME_ANALYSIS_AUDIT.md` (2.3) calls it correct that a write into sbuf starts no stint,
  "install is read-driven, matching engine". The engine installs on such writes as well
  (`sim/engine.py:396`), so on a trace with scratch writes stints may also understate residency.
  `StintsBoundResidency` is therefore stated for traces that fill SBUF by reads.
- The same document (2.2) takes stints for exact on baseline HBM traces; evictions make them too
  long there too, which is why `StintsAreResidency` leaves out the tensors that strayed.
- A `kernel_start` without a core id activates its kernel on core 0 only, a `kernel_end` ends it
  everywhere (`trace/lifetime_analysis.py:164`).
- Aggregation resolves a bucket by its total (`trace/neuron_json_ingest.py:624`) and makes its
  tensor as large as that total (`:630`): placement then reserves a tensor's traffic, not its size.
- A transfer that matches a tensor of the NEFF table by size only becomes a tensor of its own when
  the table's entry is an indexed input, since the index is not part of the name it resolves to.
- `_downsample_events` divides by zero, or slices from the end, once kernel boundaries alone reach
  the limit; `CapAssumption` excludes it.
- The Qwen rules of the name mapper take two alternating slots per layer for gate and up; where the
  graph has one of that shape per layer (`src/docs/TENSOR_MAPPER_AUDIT.md` 4.2 lists one), even
  layers' are named gate and odd layers' up. The mapper also needs two layers or more and variable
  names that differ.
- The area budget gives a StRAM of global scope the area that one core gives up, although all cores
  shrink, and does not scale an LtRAM per core; fractions over 1 are clamped for SBUF only. Areas
  agree only if the nominal capacities are those of the file. `AREA_BUDGET.md` describes per-core
  StRAM and chip-wide LtRAM, which is what `ComparisonsAreIsoArea` is checked for.
- `src/tests/test_area_budget.py:39` expects densities that the technology files no longer have. The
  files of the sweep and their baseline give SBUF the technology `tsmc_n22_sram`; only
  `src/configs/hierarchy/trainium2_diff_mem.yaml:24` gives it `sbuf_trainium2`.

The profiled model:

- Assisted decoding may return one token more than `max_length` (`hf_adapter.py:364`), and never
  compares its very first token with the end of text. A prompt as long as the speculation is taken
  for a verification (`model_base.py:802`); the speculative gather of logits uses absolute positions
  (`:323`).
- `generate_on_neuron` resets the model after its loop but not when the loop raises
  (`src/profiler/nxd_inference/runner.py:274`): the next batch would be decoded in the failed one's
  cache. `ResetModel` is therefore a step that callers owe.
- A prompt of one token among longer ones gets a wrong position (`hf_adapter.py:144`), and a batch
  of only such prompts is taken for token generation. Padding tokens inside of a prompt are not
  counted (`autobucketing.py:86`); overlong prompts are cut.
- When fewer rows than lines are encoded at once, the filled-up `seq_ids` have the wrong length
  (`model_wrapper.py:219`).
- Heads that have to become one key head a query head are padded a second time (`gqa.py:543`),
  against `gqa.py:21`; `KeepsGroups` leaves these layouts out.
- A router is built with the fine-tuned tensor of the *last* layer in every layer, since the prefix
  with the layer's number is stripped (`qwen_moe/routers/__init__.py:160`). Only the converted state dict,
  loaded later, repairs it, which is what `WeightsArrive` checks.
- The conversion never adds the `slot_weights` of soft_moe nor the `e_score_correction_bias` of
  group-limited routing, and the overlay skips unknown names, against
  `qwen_moe/routers/group_limited_topk.py:107`.
- The fused kernel of group-limited routing weighs experts by the biased scores and masks groups
  with 0 (`qwen_moe/routers/fused_router_kernel.py:84`); the hash router's bigrams run over the ends of the rows of a
  flattened batch (`qwen_moe/routers/hash_routing.py:167`).
- A traced directory is named by whether there is a fine-tuning file, not by which, nor by the
  router's arguments. A shard-only command may put weights of another file, or of another number of
  groups, beside a `model.pt`, and a killed one leaves the weights of two models, which nothing
  detects; `RunsWhatWasAsked` states what is left of the promise. The compiler's work directory is
  shared by all routers.
- `flashdecode/mask_test_cpu.py` calls `mask_util` with a keyword it does not have.

## Proofs

Each theorem holds for all values of the constants that meet the assumptions of the module: any
number of cores, tensors and levels, any capacities and trace; any map of fallbacks; any command
lines, ranks, lengths and vocabularies.

| Theorem | States | Needs |
|---|---|---|
| `TypeCorrect` | `Spec => []TypeOK` | nothing more |
| `HomesStayReserved` | `Spec => []HomesReserved` | nothing more |
| `ByteCountsBalance` | `Spec => []BytesBalance` | nothing more |
| `PoolsNeverOverfull` | no chip-wide pool is ever over its capacity | `HomesFitPools`, `WholeTensorTrace` |
| `NeverOverfull` | `Spec => []WithinCapacity` | `HomesFitPools`, `OneTile(n)` |
| `ScratchIsBacked` | `Spec => []ScratchBacked` | `HomesPersist`, `ScratchIsPerCore`, `HomeCoreTrace` |
| `ChipWipeIsComplete` | `Spec => ChipWipeResets` | the same |
| `ResidencyImplementsScratchCache` | `Spec => ImplementsScratchCache` | the same, `DefaultIsScratch`, `ScratchOnlyTrace`; by way of `DistinctInvariant` |
| `EngineRefinesResidency` | `EngineSpec => Spec` | nothing more |
| `LedgersAlwaysBalance` | `EngineSpec => []LedgersBalance` | nothing more |
| `RefreshAlwaysTelescopes` | `EngineSpec => []RefreshTelescopes` | `PositiveSizes` |
| `ReplayFollowsSimulator` | `LockSpec => []SameResidency` | `DeepestIsPool`, `ReadOnlyTrace` |
| `ReplayCountsExactly` | `LockSpec => []ReplayCountsChargedHops` | the same |
| `RetentionIsWorth` | `BenefitSpec => []RetentionIsBenefit` | the same, `SpillsBetweenPools`, `SpilledReadsScratch` |
| `EndedKernelsStayInactive` | `LifetimeSpec => []EndedKernelsInactive` | nothing more |
| `StintsNeverUnderstate` | `LifetimeSpec => []StintsBoundResidency` | `SbufIsScratch`, `SbufFilledByReads`, `HomesPersist`, `HomeCoreTrace` |
| `StintsAreExact` | `LifetimeSpec => []StintsAreResidency` | the same |
| `LongerLivesNeverRankLower` | `LifetimeSpec => []LongerLivesRankHigher` | nothing more |
| `WalkFindsNearest` | `Spec => []FindsNearestFallback` of `Placement` | nothing more |
| `AlwaysSpillsByRetention` | `Spec => []SpillsByRetention` | nothing more |
| `NeverSpillsTooMuch` | `Spec => []SpillsNoMoreThanNeeded` | nothing more |
| `HomesAlwaysFit` | `Spec => []HomesFit` | nothing more; the property itself is about policies whose overflow goes straight to HBM |
| `SweepsAreIsoArea` | `ExperimentSpec => []ComparisonsAreIsoArea` | nothing more; compared files are refused or as `Comparable` says |
| `NoBytesInvented` | `ProfileSpec => []BytesConserved` | nothing more |
| `SlotsKeepTheirBytes` | `ProfileSpec => []CatalogBytesExact` | nothing more |
| `TensorsAlwaysFound` | `ProfileSpec => []AccessesFindTensors` | nothing more |
| `CapAlwaysUsedUp` | `ProfileSpec => []CapRespected` | nothing more |
| `CoreOrderAlwaysKept` | `ProfileSpec => []CoreOrderKept` | nothing more |
| `IdsStayUnique` | `ProfileSpec => []IdsAreUnique` | nothing more |
| `RunsAreAsked` | `InferenceSpec => []RunsWhatWasAsked` | nothing more |
| `AssistanceChangesNothing` | `InferenceSpec => []OutputIsGreedy` | nothing more |
| `BucketsAreTight` | `InferenceSpec => []BucketIsTightest` | nothing more |
| `EachPositionOnce` | `InferenceSpec => []AttendsToPrefixBeforeLastSlots` | nothing more |
| `FilesArrive` | `InferenceSpec => []WeightsArrive` | nothing more |
| `LinesAreOwn` | `InferenceSpec => []CacheHoldsOwnTokens` | nothing more |
| `BatchesArePrivate` | `InferenceSpec => ServesPrivately` | nothing more |
| `RowsAreOwn` | `InferenceSpec => []GeneratesOwnText` | nothing more |
| `HeadsMeetTheirGroups` | `InferenceSpec => []HeadsStayAligned` | nothing more; the property itself is about the layouts of `KeepsGroups` |
| `RoutersKeepTheirWord` | `InferenceSpec => []RoutersKeepPromises` | nothing more |

"Nothing more" means the named assumptions of the modules, which TLC evaluates on every run.  A
theorem about placement holds of the `Experiment` that the runs check as well: an experiment that
places is a behaviour of `Placement` (`ExperimentPlaces`).

Some of these assumptions say more than what type a constant has.  `FilesAssumption`: a file that is
compared with the baseline is refused, or it is as `src/docs/AREA_BUDGET.md` describes such files, with the
baseline's nominal PSUM, SBUF and HBM, per-core or chip-wide StRAM and chip-wide LtRAM; the
observations above tell what happens otherwise.  `ConfigurationAssumption` takes areas in units that
every density divides, so that only the code's truncations to bytes are left.  `RoutingAssumption`
has positive scores: those of softmax and sigmoid are, and sparsemax returns the same when all scores
grow by the same.  A trained `e_score_correction_bias` could make those of group-limited routing
negative; the conversion never delivers one.  It also takes the groups that are kept to hold top-k
experts, which `hierarchical_routing.py` checks and `group_limited_topk.py:84` does not: a
group-limited router configured otherwise is left out.  `CatalogAssumption` has the table `BySize`
without tensors of category `other` and traffic placeholders; an unattributed transfer of their size
is spread, as in `neuron_json_ingest.py:520`, but a variable outside of the table that has their size
keeps its own name in the model.

The hypotheses are facts about the shipped configurations (only per-core scratch is wiped, nothing
is homed in it, the default target is part of it, the deepest level is chip-wide, weights spill from
LtRAM to HBM) and about the traces of `merge_traces` and of a profile of core 0 (accesses on the
tensors' cores, whole tensors of one tile size, SBUF the only fast buffer they fill).
`HomesFitPools` is what `HomesAlwaysFit` shows of placement.  The run `residency_other_core` shows
that `HomeCoreTrace` is needed, `lockstep_writes` that `ReadOnlyTrace` is, and `TensorsAlwaysFound`
that merged traces keep to their tensors' cores.

*Sums.*  A running counter is compared with a sum over a set of any size.  `SumTheorems` shows that
`SumFunctionOnSet` satisfies its recursion whatever element the fold takes next, by induction on the
subsets of a finite set; induction is stated over a set of numbers or of subsets (`NatSetInduction`,
`SubsetInduction`), since the provers take no operator as a parameter.

*Residency.*  The lemmas at the head of `ResidencyProofs` state what the dictionary operations
return.  `TypeCorrect` is inductive by itself, with one lemma for each way to install.

`BytesBalance` needs beside the sum that the insertion order lists no tensor twice, or dropping its
first entry would take away bytes that are still counted.  `WithinCapacity` follows in two parts: a
pool lets in only what fits, unless a home is installed, and of homes it holds those of
`HomesFitPools` only; a fast buffer evicts until the tensor fits, which one eviction achieves where
all tensors have one size.

`HomesReserved` speaks of states in which the homes are installed; its inductive form
`HomesReservedInv` says before that, of each tensor, that the loop it belongs to has still to come
to it.  Every later step adds to a pool or resizes an occupant, and none removes one.

`ScratchBacked` needs no strengthening against accesses; `ChipWipeResets` and the refinement do.
`ScratchInv` adds `OnOwnCore` (a fast buffer's occupants belong to its core, and that core is in
`buffered`, so a chip-wide wipe reaches it, and an eviction can only touch a tensor of the loading
core) and `StartsAtHome` (the two loops leave residency alone, so the first event finds the abstract
cache empty).  The refinement also needs `DistinctOccupants`, proved as `DistinctInvariant`: the
insertion order of a buffer lists no tensor twice.  Otherwise dropping the first entry could leave
the victim stored, and the abstract cache would have no step for it.

*Accounting.*  Every step of `Engine` is one of `Residency` or leaves its tables alone, so the
theorems above hold of the event loop.  `LedgersBalance` is inductive with the types of the ledgers:
each handler adds the same amount to a total and to one level or core.  `RefreshTelescopes` relates
the ticks charged gap by gap to those of the whole span; `TelescopeInv` carries, of each level, that
no more ticks have been charged than were due since the first event, and as many where it has held
data all along.  A level that holds data keeps holding it only if its occupants have bytes, hence
`PositiveSizes`: a tensor of size zero would leave an occupied pool with no used byte, which the code
takes for empty.

*Replay.*  `LockInv` says that the two sets of tables are equal and that, until the first event, all
tensors are at home, which is what the replay assumes without looking and the simulator reads from
its table.  Each way to install is compared once (`SameInstall`).

For the retention there are three sets of tables.  `Twins` says that the second simulation has the
same buffers and every tensor where the first has it, but for spilled homes, and that no spilled
tensor is staged in its spill target, where it could not be told from one at home.  `BenefitInv`
then compares the retention with the time that the second simulation has taken longer, event by
event.  The hypotheses leave out what makes the replay's count another one: StRAM as a pool, whose
reads in place it skips, and reads of spilled tensors across another link than the default one.

*Lifetimes.*  `EndedKernelsInactive` is not inductive: an end with a core id takes the kernel from
that core only, and the bare property does not say that it is active nowhere else. `ActiveInv` adds
where it may be: on the core its start put it on, core 0 if the start had none.

`StintsBoundResidency` compares totals at the end of a trace.  `StintInv` compares them on the way:
a tensor in SBUF has an open stint on its own core (`StintsFollow`), and the closed stints with the
open one up to now are no less than the time the simulator had it there (`TimesAgree`), with
equality until one of its evictions goes unseen.  `LongerLivesRankHigher` follows from `BinInv`, the
bins being those of the lifetimes, and from the fact that the bins of a span and the rule of half
the span are each monotonic in the lifetime.

*Placement.*  `WalkInv` says that the levels the walk has visited are the first levels of the chain
of fallbacks, all different and none of them an enabled level; the chain is a function of its own, so
the proof does not depend on how the loop got there.  When the walk meets a level again, the chain
has closed, and everything it could still reach has been visited.

`PassInv` covers the pass over the levels: `by_level` is what each level held before the pass and a
tensor is listed once (`ListedInv`), levels that are done with have what they may keep
(`SettledInv`), and the level at hand has lost the top of its ranking, of which the last one still
had to go (`SpillInv`).  Capacity that a spill fills elsewhere is not looked at again, which is
why `HomesFit` is about policies that send all overflow to HBM (`HbmInv`).  TLC checks `WalkInv` and
`PassInv` on the instance of the run `placement`.

*Areas.*  A report is made of two hierarchies that were loaded at different times.  `SweepInv` says
that the file loaded last is the one written for the job and percentage at hand, and that the
baseline was loaded for the same cores.  The rest is about files: the donor's capacity is truncated
to bytes and the recipient's share of its area to bytes of another density, and for any number of
pools that donate to one recipient the two parts never exceed the nominal area and fall short of it
by less than a byte in each (`SplitIsIsoArea`).  The die is the sum of PSUM, which is the same in both,
of SBUF with StRAM (`SramIsIsoArea`, one recipient for each core or one for the chip) and of HBM with
LtRAM (`HbmIsIsoArea`).

*Ingest.*  `ChipInv` keeps the books of the core at work: the rows read so far, the buckets and the
accesses, by keys of variable and route.  `SlotsExact` is `CatalogBytesExact` and inductive with the
types, one of which is that no two buckets have one key.  `BytesBounded` counts the spreads: rows of
unattributed transfers fall into a single bucket, so while that bucket is open one of them has not
lost anything yet (`Open`).  That a spread loses fewer than `MinBytes` is shown of the portions
(`PortionsAre`): the shares of the first categories never exceed their part of the weight
(`AllocatedFits`), so the last category has what is left, and it drops that only below the minimum.
`Housed` says that no tensor is smaller than an access to it, since sizes only grow.

The order of events is stated by positions: `InOrder` lists a finite set in a strict order
(`OrderIs`, by counting what comes before each element), and Python's stable sorts and filters are
instances of it.  Sorted, sliced and merged lists then hold events of the lists they were made from
(`SortedIs`, `ListedIs`, `DownsampledIs`, `PlacesAre`), with as many boundaries.  `TracesOK` says of
every finished core what its trace is, also with several downsamplings on the way, and that the
chip's trace is the merged one.  The cap is used up because a step that is a quotient rounded down
never runs past the list (`StepIs`).

`CoreOrderKept` compares what the chip's trace has of a core with the core's own profile, through
up to two thinnings, the merge and two stable sorts.  A core's trace lists the kernel boundaries
before the accesses (`KernelsFirst`, a part of `TraceGood`), so thinning it takes the boundaries and
then accesses at growing positions (`Thinned`).  Every event of the sorted trace then has a position
in the core's list; these positions grow (`EarlierFirst`: at different times by the sort, at equal
times since it is stable), and a growing list of positions is the only one of its set
(`PositionsUnique`), which makes it the subsequence that the property asks for.

*Ids.*  `CatalogInv` says that an entry keeps its variable and, where it is no slot of the table,
has a name that spells it.  TLC checks `ChipInv` and `CatalogInv` on the instance of the run
`ingest`.

*Traced models.*  `RunsWhatWasAsked` is about the loaded model; `ArtifactsInv` carries it back to the
files: a directory only ever holds files of its own kind and slices cut once (`OwnFiles`), a
directory whose last command finished holds that command's slices (`FinishedFiles`), and a command
that is writing has the files of the ranks before its own (`Running`).

*Assisted decoding.*  `OutputIsGreedy` says nothing of the cache.  `SpecInv` adds that the cache
holds the output up to its last token at the positions that the mask shows (`Aligned`), so the i-th
logits of a pass are computed from the output and the i - 1 proposals before, and those are the
target's own as long as all of them have matched.  Rejected proposals stay in the cache behind the
mask until the next pass overwrites them.  `Proposed` says that only the last proposal may end the
text, which is never among those compared.

*Buckets and flash decoding.*  The powers of two are a function (`Pow2`), since the provers know
nothing of exponents; the rounded logarithm is shown to exist and to round up by less than a half,
so that the last power of two listed is less than the maximum.  `FlashInv` says that, as long as no
garbage went to a position that is held, every slot of a held position holds it: the cores that do
not keep a new position write to the last column of the bucket, whose positions are later ones
unless the bucket is full.  The masks then leave exactly the slots of earlier positions
(`MasksLeaveThePast`), and dealing out positions is a bijection.

*Checkpoints.*  `WeightsArrive` is about the model that is loaded.  `CheckpointInv` says of each
earlier stage which names the state dict has and what each of them holds: while files are read, just
the names of the files read so far; while layers are converted, the new form of the layers behind
and the old form of those ahead, so no overlay meets a name of the other form.  What the routers
were built with is left open until the state dict replaces it.

*Batches.*  A call is first proved for itself, from the inside out: the model on a whole batch
(`GenerateTokenIs`, `EncodeContextIs`), rows that are sorted by their lines and answers that are put
back (`SortedIs`: when all lines are named, a row's rank is its line), rows that are filled up with
the lines not named, whose ranks number them (`RanksExist`, `FilledIs`), and calls that are one
batch or, one row at a time, many (`OneBatch`, `RowsEncoded`).  `Continued` and `Encoded` are the
results: a row's line gets the row's tokens and nothing else, and its answer is computed from them.
Continuous batches of single rows leave all other lines alone (`OthersKept`); whole batches do not,
which is why they are admitted only to an empty cache.

`ServingInv` is `CacheHoldsOwnTokens` with the types and with lines of their own for all requests
(`OwnLines`).  It gives the mapping to `PrivateCaches` its value, each request's own prompt
(`SeesOwnTokens`), and an admission, a decode and a finish are then a `Begin`, a `Continue` and an
`End` there.  `GenerationInv` states rows, mask and unfinished rows as functions of the number of
columns (`Turns`); the cache holds all but the newest token of the rows that go on (`Populated`) from
the first call until the flag is reset, so what an earlier or a failed batch left there is never
read.

*Heads.*  `HeadInv` says that the loaded weights are the shards of the arranged heads, so
`HeadsStayAligned` is a statement about `ShardQ`, `ShardKv` and `ShardO`.  It holds of any layout in which
the key heads divide the query heads into runs of one length that the ranks do not cut (`Laid`,
`LaidIsAligned`), and there are three ways to get one: as many key heads as query heads, padded at the
end (`PairsAreLaid`); key heads replicated to the ranks and queries padded group by group
(`ReplicatedAreLaid`); and key heads that the ranks divide among them (`DividedAreLaid`).  That padding
keeps every head exactly once is a fact about digits (`InterleavedOnce`): a place of a padded group is
a group and a place in it in one way only.

*Routers.*  `TopKOf` picks by rank: the scores and the tie order put all candidates in one strict order
(`TopKIs`), so the picked ones are different and the best (`TopKFromBest`).  The sparsemax support is
found from the sorted scores: they fall while the running sum grows, so the entries above the
threshold are the first ones (`FirstOnesAre`), and their excess over it adds up to one unit
(`ExcessAddsUp`).  `RoutingInv` holds the scores of the call.  The tokens that
keep a weight of an expert of expert_choice are among those it picked (`ChosenByExperts`); experts
outside of the best groups are ranked with a score of zero, which is below all others since these
are positive, so no token gets one while the best groups have enough (`OfGroups`).

TLC checks `ArtifactsInv`, `SpecInv`, `CompiledInv`, `FlashInv`, `CheckpointInv`, `ServingInv` and
`GenerationInv` (of texts up to a length) on the instance of the run `inference`.

*Only model-checked:* `Terminates` and `AssistedTerminates`, since liveness is out of the prover's
reach, and `SlotsKeepTheirMeaning`, which is about the tables of known layouts and not about any
table: a proof would only evaluate the mapper on them.

## What is not modelled

- Floating-point costs and times are whole numbers; `int(lat_spill - lat_pool)` does not truncate;
  fractions of an area budget are percentages.
- `SimulationResult.total_time_ns`, a maximum taken at the end, and the report derived from it.
- In `Placement` the retention of a tensor is a constant. The code computes it once for each
  over-full pool from the homes at that time; `Lockstep` checks that computation.
- Tensors come in the order of their ids.
- In `Ingest` the name mapper is a table from variables and transfer sizes to tensors, and in
  `NameMapper` the regular expressions have done their part. `load_to_sbuf` annotations (they only
  enlarge tensors), runtime tensor events (off by default), `classify.py` and the choice of the
  files to read are left out. Portions are exact quotients.
- Of lifetime analysis, the statistics per bin and category.
- Of the hierarchy files, YAML, paths, and fields that only the simulator's costs read.
- Of the inference library, left padding, Medusa trees, sampling, quantized weights, LoRA serving
  and its cache of adapters, and everything numeric: kernels, Sinkhorn's iterations, the mixing of
  slots of soft_moe.
- Of the commands, explicit directories, the compiler's work directory and the resolution of model
  paths.
- The metrics report, the plot scripts, and scripts that start another program or run one model
  without this library (`run_llama32_1b_trn2.py`, `src/profiler/llama`): they keep no state that a
  property could be about.

## Plan

1. (done) Residency, its abstract cache, accounting, replay, placement; proofs about residency.
2. (done) `Lifetime` in lockstep with `Residency`, and the proof about kernel ends; the proof that
   the replay follows the simulator.
3. (done) From profile to trace: `Ingest`, `NameMapper`.
4. (done) `Configuration` and `Sweep`: comparisons of one die area.
5. (done) The profiled model: `Serving` as a refinement of private caches, `Generation`,
   `Speculation`, `FlashDecoding`, `HeadLayout`, `Routing`, `Checkpoint`, `Artifacts` with its
   proof.
6. Left: left padding and Medusa in `ModelWrapper`; adapters of LoRA serving; scales of quantized
   checkpoints; a run of the cap at and below the number of kernel boundaries, which
   `CapAssumption` excludes; `Placement` with `Replay` for its retention.
7. (done) Proofs about sums, capacities, accounting, retention, stints, placement, areas, assisted
   decoding, buckets, flash decoding, checkpoints, served requests, generated batches, heads,
   routers, ingest, the order of its events, and ids.
8. Proofs left: `SlotsKeepTheirMeaning` for layouts of any number of layers.
