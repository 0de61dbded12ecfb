------------------------------ MODULE Residency ------------------------------
(***************************************************************************)
(* What the simulator tracks about where tensors are (sim/engine.py): the  *)
(* resident level of each tensor, the per-core fast buffers and the        *)
(* chip-wide pools.  The trace is the environment: any sequence of         *)
(* accesses and kernel ends drawn from two constant sets.  kernel_start    *)
(* returns at once and is a stuttering step.  Costs are in Engine.         *)
(***************************************************************************)
EXTENDS Buffers

CONSTANTS
  Accesses,    \* the access events the trace may hold
  KernelEnds   \* the core_id a kernel_end event may carry

AccessEvent ==
  [tensor : Tensors, op : {"read", "write"}, target : Levels, bytes : Nat, core : Cores]

ASSUME TraceAssumption ==
  /\ Accesses \subseteq AccessEvent
  /\ KernelEnds \subseteq Cores \cup {NoCore}

VARIABLES
  resident,   \* resident_level of each tensor
  fast,       \* fast_buffers[core][level]; a missing buffer is an empty one
  buffered,   \* the keys of fast_buffers
  pool,       \* pools[level]
  seeding,    \* homes that _seed_home_allocations has still to look at
  booting     \* homes that _bootstrap_near_memory_homes has still to look at

vars == <<resident, fast, buffered, pool, seeding, booting>>

TypeOK ==
  /\ resident \in [Tensors -> Levels]
  /\ fast \in [Cores -> [PerCore -> Buffer]]
  /\ buffered \subseteq Cores
  /\ pool \in [ChipPools -> Buffer]
  /\ seeding \in Seq(Tensors)
  /\ booting \in Seq(Tensors)

\* _seed_home_allocations takes the homes in the deepest level (a per-core one
\* only if kernels do not wipe it), _bootstrap_near_memory_homes the other homes.
Seeded(t) == Home[t] = Deepest /\ ~(Deepest \in PerCore /\ Deepest \in WipeLevels)

Bootstrapped(t) == Home[t] # Deepest /\ Home[t] \notin WipeLevels

Init ==
  /\ resident = Home
  /\ fast = [c \in Cores |-> [l \in PerCore |-> EmptyBuffer]]
  /\ buffered = {}
  /\ pool = [l \in ChipPools |-> EmptyBuffer]
  /\ seeding = TensorOrder
  /\ booting = TensorOrder

\* Events are handled once both loops are done.
Loaded == seeding = <<>> /\ booting = <<>>

------------------------------------------------------------------------------
(* Installing into a fast buffer *)

\* Fault: room is looked for without counting the newcomer.
WrongVictims(b, l, t, n) ==
  IF ~Holds(b, t) /\ b.used > Capacity[l] /\ b.order # <<>>
  THEN {Head(b.order)}
  ELSE {}

\* _evict_from_fast_buffer: a newcomer that does not fit costs the buffer its
\* oldest occupant, and one only.  An occupant is replaced whatever its new size.
Victims(b, l, t, n) ==
  IF ~Holds(b, t) /\ b.used + n > Capacity[l] /\ b.order # <<>>
  THEN {Head(b.order)}
  ELSE {}

Installed(b, l, t, n) ==
  Put(IF Victims(b, l, t, n) = {} THEN b ELSE DropOldest(b), t, n)

\* Fault: the residency of an evicted tensor is not reset.
WrongResidentAfter(victims, t, l) == [resident EXCEPT ![t] = l]

\* The resident levels once the victims went home and t arrived at level l.
ResidentAfter(victims, t, l) ==
  [u \in Tensors |-> IF u = t THEN l ELSE IF u \in victims THEN Home[u] ELSE resident[u]]

InstallInFastBuffer(c, l, t, n) ==
  /\ resident' = ResidentAfter(Victims(fast[c][l], l, t, n), t, l)
  /\ fast' = [fast EXCEPT ![c][l] = Installed(@, l, t, n)]
  /\ buffered' = buffered \cup {c}
  /\ UNCHANGED pool

\* Fault: a full pool evicts like a fast buffer.
WrongEvictingMove(l, t, n) ==
  /\ resident' = [resident EXCEPT ![t] = l]
  /\ pool' = IF l \in ChipPools
             THEN [pool EXCEPT ![l] = Put(IF CanFit(@, Capacity[l], n) \/ Holds(@, t)
                                          THEN @ ELSE DropOldest(@), t, n)]
             ELSE pool
  /\ UNCHANGED <<fast, buffered>>

\* Moving to a chip-wide level: the pool takes t if it fits or is there already,
\* and otherwise (or for a disabled level) only the resident level changes.
MoveToChipLevel(l, t, n) ==
  /\ resident' = [resident EXCEPT ![t] = l]
  /\ pool' = IF l \in ChipPools /\ (CanFit(pool[l], Capacity[l], n) \/ Holds(pool[l], t))
             THEN [pool EXCEPT ![l] = Put(@, t, n)]
             ELSE pool
  /\ UNCHANGED <<fast, buffered>>

------------------------------------------------------------------------------
(* Actions *)

\* A tensor is installed at home whatever room there is, or left out.
InstallHome(t, chosen) ==
  \/ /\ chosen /\ Home[t] \in PerCore
     /\ InstallInFastBuffer(CoreOf(t), Home[t], t, TensorBytes[t])
  \/ /\ chosen /\ Home[t] \in ChipPools
     /\ pool' = [pool EXCEPT ![Home[t]] = Put(@, t, TensorBytes[t])]
     /\ UNCHANGED <<resident, fast, buffered>>
  \/ /\ ~chosen
     /\ UNCHANGED <<resident, fast, buffered, pool>>

\* One iteration of the loop of _seed_home_allocations.
SeedHome ==
  /\ seeding # <<>>
  /\ seeding' = Tail(seeding)
  /\ InstallHome(Head(seeding), Seeded(Head(seeding)))
  /\ UNCHANGED booting

\* One iteration of the loop of _bootstrap_near_memory_homes.
BootstrapHome ==
  /\ seeding = <<>> /\ booting # <<>>
  /\ booting' = Tail(booting)
  /\ InstallHome(Head(booting), Bootstrapped(Head(booting)))
  /\ UNCHANGED seeding

Preinstall == SeedHome \/ BootstrapHome

\* _source_level_for_access: an off-chip write is a flush out of scratch.
Source(a) ==
  IF a.op = "write" /\ a.target \in OffChip THEN DefaultTarget ELSE resident[a.tensor]

\* _is_direct_stram_read: a tensor at home in StRAM is read in place.
DirectStramRead(a) ==
  /\ a.op = "read"
  /\ a.target = DefaultTarget
  /\ Home[a.tensor] = "stram"
  /\ resident[a.tensor] = Home[a.tensor]

StaysInPlace(a) == DirectStramRead(a) \/ Source(a) = a.target

AccessInPlace(a) ==
  /\ Loaded
  /\ StaysInPlace(a)
  /\ UNCHANGED vars

AccessMoves(a) ==
  /\ Loaded
  /\ ~StaysInPlace(a)
  /\ \/ a.target \in PerCore /\ InstallInFastBuffer(a.core, a.target, a.tensor, a.bytes)
     \/ a.target \notin PerCore /\ MoveToChipLevel(a.target, a.tensor, a.bytes)
  /\ UNCHANGED <<seeding, booting>>

\* _kernel_wipe_cores: the event's core, or every core with fast-buffer state.
WipedCores(e) ==
  IF e # NoCore THEN {e}
  ELSE IF buffered = {} /\ WipeLevels # {} THEN {CoreZero} ELSE buffered

\* Fault: the buffers are wiped and the residency is not.
WrongResidentAfterWipe(cores) == resident

ResidentAfterWipe(cores) ==
  [t \in Tensors |-> IF CoreOf(t) \in cores /\ resident[t] \in WipeLevels
                     THEN Home[t] ELSE resident[t]]

KernelEnd(e) ==
  /\ Loaded
  /\ resident' = ResidentAfterWipe(WipedCores(e))
  /\ fast' = [c \in Cores |-> [l \in PerCore |->
                IF c \in WipedCores(e) /\ l \in WipeLevels THEN EmptyBuffer ELSE fast[c][l]]]
  /\ UNCHANGED <<buffered, pool, seeding, booting>>

Access(a) == AccessInPlace(a) \/ AccessMoves(a)

Next ==
  \/ Preinstall
  \/ \E a \in Accesses : Access(a)
  \/ \E e \in KernelEnds : KernelEnd(e)

Spec == Init /\ [][Next]_vars
==============================================================================
