------------------------------ MODULE Hierarchy ------------------------------
(***************************************************************************)
(* The static inputs of one simulation: the resolved memory hierarchy, the *)
(* tensors of the trace and the homes that placement gave them             *)
(* (config/models.py, trace/schema.py).  Sizes are whole units of bytes.   *)
(***************************************************************************)
EXTENDS Integers, Sequences, FiniteSets, Functions

CONSTANTS
  Tensors,        \* tensor ids of the trace
  TensorOrder,    \* the order of trace.tensors, which dicts built from it keep
  TensorBytes,    \* TensorRecord.bytes
  TensorCore,     \* TensorRecord.core_id, NoCore when it is null
  Cores,          \* NeuronCore ids
  CoreZero,       \* core 0, the default of every missing core id
  NoCore,         \* Python's None as a core id
  Levels,         \* ids of the hierarchy's levels, disabled ones included
  Enabled,        \* the enabled levels
  Deepest,        \* enabled_levels[-1]
  PerCore,        \* levels whose scope is "per_core"
  OffChip,        \* levels whose interconnect domain is "off_chip"
  WipeLevels,     \* kernel.wipe_levels_on_boundary
  Capacity,       \* capacity_bytes of each level
  DefaultTarget,  \* policy.default_access_target
  Home            \* home_level of each tensor, the result of placement

ASSUME TensorsAssumption ==
  /\ TensorOrder \in Seq(Tensors)
  /\ Range(TensorOrder) = Tensors
  /\ TensorBytes \in [Tensors -> Nat]
  /\ TensorCore \in [Tensors -> Cores \cup {NoCore}]
  /\ CoreZero \in Cores
  /\ NoCore \notin Cores

ASSUME LevelsAssumption ==
  /\ Enabled \subseteq Levels
  /\ Deepest \in Enabled
  /\ PerCore \subseteq Levels
  /\ OffChip \subseteq Levels
  /\ WipeLevels \subseteq Levels
  /\ Capacity \in [Levels -> Nat]
  /\ DefaultTarget \in Levels
  /\ Home \in [Tensors -> Enabled]

\* A hierarchy lists its levels and a chip its cores.
ASSUME FinitenessAssumption == IsFiniteSet(Levels) /\ IsFiniteSet(Cores)

\* The chip-wide pools that run_simulation creates.
ChipPools == Enabled \ PerCore

\* _tensor_core_id: a tensor without a core belongs to core 0.
CoreOf(t) == IF TensorCore[t] = NoCore THEN CoreZero ELSE TensorCore[t]

\* Homes survive a kernel boundary: no tensor is homed in wiped scratch.
HomesPersist == \A t \in Tensors : Home[t] \notin WipeLevels

\* Only per-core scratch is wiped, as in every hierarchy of configs/.
ScratchIsPerCore == WipeLevels \subseteq PerCore
==============================================================================
