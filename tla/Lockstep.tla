------------------------------- MODULE Lockstep -------------------------------
(***************************************************************************)
(* The simulator and placement's replay on one trace: every event drives   *)
(* both.  They were given the same homes, so what the replay counts should *)
(* be what the simulator charges (placement_replay.py: "matches simulator  *)
(* hop charging").  And what its retention is worth is the difference to a *)
(* second simulation of the trace, with some tensors homed in the spill    *)
(* target instead of the pool level.                                       *)
(***************************************************************************)
EXTENDS ResidencyProperties, Costs

CONSTANTS
  PoolLevel, SpillTarget,   \* the over-full level and its fallback
  MaxHops                   \* bound on the hops the simulator charges

ASSUME PoolAssumption == {PoolLevel, SpillTarget} \subseteq Levels

VARIABLES
  rResident, rFast, rBuffered, rBooting, retention, homeHopBytes,   \* the replay
  poolHops,   \* bytes the simulator's reads moved out of the pool level, their home
  hops        \* hops charged so far

R == INSTANCE Replay WITH
       resident <- rResident, fast <- rFast, buffered <- rBuffered, booting <- rBooting

replayVars == <<rResident, rFast, rBuffered, rBooting, retention, homeHopBytes>>

lockVars == <<vars, replayVars, poolHops, hops>>

LockInit ==
  /\ Init
  /\ R!Init
  /\ poolHops = [t \in Tensors |-> 0]
  /\ hops = 0

\* The simulator and the replay each install the homes before their first event, tensor
\* by tensor.  Neither sees the other, so their loops may as well go together.
EngineSeeds == SeedHome /\ UNCHANGED <<replayVars, poolHops, hops>>

BothBootstrap == BootstrapHome /\ R!Bootstrap /\ UNCHANGED <<poolHops, hops>>

\* What the simulator charges for a: _charge_path from the home level, or not.
Charge(a) ==
  IF StaysInPlace(a) THEN UNCHANGED <<poolHops, hops>>
  ELSE /\ hops < MaxHops
       /\ hops' = hops + 1
       /\ poolHops' = IF a.op = "read" /\ Source(a) = Home[a.tensor] /\ Source(a) = PoolLevel
                      THEN [poolHops EXCEPT ![a.tensor] = @ + a.bytes]
                      ELSE poolHops

BothAccess(a) ==
  /\ Loaded /\ rBooting = <<>>
  /\ Charge(a)
  /\ Access(a)
  /\ R!Skip(a) \/ R!Read(a)

BothKernelEnd(e) ==
  /\ Loaded /\ rBooting = <<>>
  /\ KernelEnd(e)
  /\ R!KernelEnd(e)
  /\ UNCHANGED <<poolHops, hops>>

LockNext ==
  \/ EngineSeeds
  \/ BothBootstrap
  \/ \E a \in Accesses : BothAccess(a)
  \/ \E e \in KernelEnds : BothKernelEnd(e)

LockSpec == LockInit /\ [][LockNext]_lockVars

------------------------------------------------------------------------------
(* The second simulation *)

CONSTANT Spilled   \* the tensors moved from the pool level to the spill target

ASSUME SpilledAssumption ==
  /\ SpillTarget \in Enabled
  /\ \A t \in Spilled : t \in Tensors /\ Home[t] = PoolLevel

VARIABLES
  sResident, sFast, sBuffered, sPool, sSeeding, sBooting,   \* the second simulation
  extraTime   \* ns the second simulation has charged beyond the first

SpilledHome == [t \in Tensors |-> IF t \in Spilled THEN SpillTarget ELSE Home[t]]

S == INSTANCE Residency WITH
       Home <- SpilledHome, resident <- sResident, fast <- sFast,
       buffered <- sBuffered, pool <- sPool, seeding <- sSeeding, booting <- sBooting

spilledVars == <<sResident, sFast, sBuffered, sPool, sSeeding, sBooting>>

benefitVars == <<lockVars, spilledVars, extraTime>>

\* The latency _handle_access charges for a tensor read from source: a local read
\* in place, a hop, or nothing for a write in place.
AccessTime(a, inPlace, source) ==
  IF ~inPlace THEN HopLatency(source, a.target, a.bytes)
  ELSE IF a.op = "read" THEN LocalLatency(source, a.bytes)
  ELSE 0

BenefitInit == LockInit /\ S!Init /\ extraTime = 0

\* The second simulation installs its homes too before the first event, and again
\* nothing sees how far its loops are.
AllSeed == EngineSeeds /\ S!SeedHome /\ UNCHANGED extraTime

AllBootstrap == BothBootstrap /\ S!BootstrapHome /\ UNCHANGED extraTime

AllAccess(a) ==
  /\ BothAccess(a)
  /\ S!Access(a)
  /\ extraTime' = extraTime + AccessTime(a, S!StaysInPlace(a), S!Source(a))
                            - AccessTime(a, StaysInPlace(a), Source(a))

AllKernelEnd(e) == BothKernelEnd(e) /\ S!KernelEnd(e) /\ UNCHANGED extraTime

BenefitNext ==
  \/ AllSeed
  \/ AllBootstrap
  \/ \E a \in Accesses : AllAccess(a)
  \/ \E e \in KernelEnds : AllKernelEnd(e)

BenefitSpec == BenefitInit /\ [][BenefitNext]_benefitVars

------------------------------------------------------------------------------

ReadOnlyTrace == \A a \in Accesses : a.op = "read"

\* Once both have installed the homes, the replay has every tensor and every fast
\* buffer where the simulator has it.
SameResidency ==
  Loaded /\ rBooting = <<>> =>
    /\ rResident = resident
    /\ rFast = fast

\* placement_replay.py: the reads that the replay counts as a hop from home are
\* "matching when the simulator charges a home-level DMA", tensor by tensor.
ReplayCountsChargedHops == homeHopBytes = poolHops

\* The retention of the spilled tensors is the time that leaving them in the pool
\* level saves (placement_replay.py: "Per-tensor benefit (ns) of homing in
\* pool_level vs spill_target"), whatever was evicted or wiped on the way.
RetentionIsBenefit ==
  extraTime = SumFunctionOnSet(retention, Spilled)
==============================================================================
