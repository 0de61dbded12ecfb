---------------------------- MODULE LockstepProofs ----------------------------
(***************************************************************************)
(* Proofs about the simulator and placement's replay: on every trace of    *)
(* reads the replay has each tensor where the simulator has it, and counts *)
(* the bytes of exactly the hops that the simulator charges; and what it   *)
(* retains is what homing the tensors elsewhere would have cost.           *)
(***************************************************************************)
EXTENDS ResidencyProofs, Lockstep

\* The deepest level is a chip-wide one (hbm in every hierarchy): the replay installs no
\* homes there.
DeepestIsPool == Deepest \notin PerCore

\* The replay's tables are the simulator's, and until the first event all tensors are at
\* home.
LockInv ==
  /\ TypeOK
  /\ rResident = resident /\ rFast = fast /\ rBuffered = buffered /\ rBooting = booting
  /\ ~Loaded => resident = Home
  /\ homeHopBytes = poolHops

\* The replay's buffers are the simulator's.
LEMMA SameBuffers ==
  /\ R!EmptyBuffer = EmptyBuffer
  /\ \A t : R!CoreOf(t) = CoreOf(t)
  /\ \A b, t : R!Holds(b, t) <=> Holds(b, t)
  /\ \A b : R!DropOldest(b) = DropOldest(b)
  /\ \A b, t, n : R!Put(b, t, n) = Put(b, t, n)
<1>1. \A b, t : R!Holds(b, t) <=> Holds(b, t)
  BY DEF R!Holds, Holds, R!Range, Range
<1>2. \A b, t, n : R!Put(b, t, n) = Put(b, t, n)
  BY <1>1 DEF R!Put, Put
<1> QED
  BY <1>1, <1>2 DEF R!EmptyBuffer, EmptyBuffer, R!CoreOf, CoreOf, R!DropOldest, DropOldest

\* Both install into a fast buffer by the same rule.
LEMMA SameInstall ==
  ASSUME LockInv, NEW c \in Cores, NEW l \in PerCore, NEW t \in Tensors, NEW n \in Nat,
         InstallInFastBuffer(c, l, t, n), R!Install(c, l, t, n)
  PROVE  rResident' = resident' /\ rFast' = fast' /\ rBuffered' = buffered'
<1> DEFINE b == fast[c][l]
<1>1. R!NeedsRoom(b, l, t, n) <=> Victims(b, l, t, n) # {}
  BY SameBuffers DEF R!NeedsRoom, Victims
<1>2. Victims(b, l, t, n) # {} => Victims(b, l, t, n) = {Head(b.order)}
  BY DEF Victims
<1>3. rResident' = resident'
  BY <1>1, <1>2 DEF InstallInFastBuffer, ResidentAfter, R!Install, LockInv
<1>4. fast' = [fast EXCEPT ![c][l] = Installed(b, l, t, n)]
  BY DEF InstallInFastBuffer
<1>5. rFast' = [fast EXCEPT ![c][l] = Installed(b, l, t, n)]
  BY <1>1, SameBuffers DEF R!Install, LockInv, Installed
<1> QED
  BY <1>3, <1>4, <1>5 DEF InstallInFastBuffer, R!Install, LockInv

\* The homes of the simulator's first loop are in the chip-wide pool.
LEMMA SeedsKeep ==
  ASSUME DeepestIsPool, LockInv, TypeOK', EngineSeeds
  PROVE  LockInv'
<1> DEFINE t == Head(seeding)
<1>1. seeding # <<>> /\ t \in Tensors
  BY DEF EngineSeeds, SeedHome, LockInv, TypeOK
<1>2. UNCHANGED <<resident, fast, buffered>>
  <2>1. Seeded(t) => Home[t] \notin PerCore
    BY DEF Seeded, DeepestIsPool
  <2> QED
    BY <2>1 DEF EngineSeeds, SeedHome, InstallHome
<1> QED
  BY <1>1, <1>2 DEF EngineSeeds, SeedHome, LockInv, Loaded, replayVars

\* The other homes are installed by both.
LEMMA BootstrapKeeps ==
  ASSUME LockInv, TypeOK', BothBootstrap
  PROVE  LockInv'
<1> DEFINE t == Head(booting)
<1>1. /\ booting # <<>> /\ t \in Tensors /\ resident = Home
      /\ CoreOf(t) \in Cores /\ Home[t] \in Enabled /\ TensorBytes[t] \in Nat
  BY HomeAndCore, TensorsAssumption
     DEF BothBootstrap, BootstrapHome, LockInv, TypeOK, Loaded
<1>2. R!Bootstrapped(t) <=> Bootstrapped(t)
  BY DEF R!Bootstrapped, Bootstrapped
<1>3. rResident' = resident' /\ rFast' = fast' /\ rBuffered' = buffered' /\ resident' = Home
  <2>1. CASE Bootstrapped(t) /\ Home[t] \in PerCore
    <3>1. InstallInFastBuffer(CoreOf(t), Home[t], t, TensorBytes[t])
      BY <2>1 DEF BothBootstrap, BootstrapHome, InstallHome, ChipPools
    <3>2. R!Install(CoreOf(t), Home[t], t, TensorBytes[t])
      BY <1>2, <2>1, SameBuffers DEF BothBootstrap, R!Bootstrap, LockInv
    <3>3. resident' = Home
      BY <1>1, <3>1, LevelsAssumption DEF InstallInFastBuffer, ResidentAfter
    <3> QED
      BY <1>1, <2>1, <3>1, <3>2, <3>3, SameInstall
  <2>2. CASE Bootstrapped(t) /\ Home[t] \notin PerCore
    <3>1. UNCHANGED <<resident, fast, buffered>>
      BY <2>2 DEF BothBootstrap, BootstrapHome, InstallHome
    <3>2. R!Install(CoreOf(t), Home[t], t, TensorBytes[t])
      BY <1>2, <2>2, SameBuffers DEF BothBootstrap, R!Bootstrap, LockInv
    <3>3. rResident' = Home /\ UNCHANGED <<rFast, rBuffered>>
      BY <1>1, <2>2, <3>2, LevelsAssumption DEF R!Install, LockInv
    <3> QED
      BY <1>1, <3>1, <3>3 DEF LockInv
  <2>3. CASE ~Bootstrapped(t)
    <3>1. UNCHANGED <<resident, fast, buffered>>
      BY <2>3 DEF BothBootstrap, BootstrapHome, InstallHome
    <3>2. UNCHANGED <<rResident, rFast, rBuffered>>
      BY <1>2, <2>3 DEF BothBootstrap, R!Bootstrap, LockInv
    <3> QED
      BY <1>1, <3>1, <3>2 DEF LockInv
  <2> QED
    BY <2>1, <2>2, <2>3
<1>4. rBooting' = booting' /\ homeHopBytes' = poolHops'
  BY DEF BothBootstrap, BootstrapHome, R!Bootstrap, LockInv
<1> QED
  BY <1>3, <1>4 DEF LockInv

\* A read: the simulator stays in place where the replay skips it or finds the tensor at
\* the target, and charges a hop from home where the replay counts one.
LEMMA ReadKeeps ==
  ASSUME ReadOnlyTrace, LockInv, TypeOK', NEW a \in Accesses, BothAccess(a)
  PROVE  LockInv'
<1> DEFINE t == a.tensor
<1>1. /\ t \in Tensors /\ a.target \in Levels /\ a.bytes \in Nat /\ a.core \in Cores
      /\ a.op = "read" /\ Source(a) = resident[t]
  BY TraceAssumption DEF AccessEvent, ReadOnlyTrace, Source
<1>2. R!DirectStramRead(a) <=> DirectStramRead(a)
  BY <1>1 DEF R!DirectStramRead, DirectStramRead, LockInv
<1>3. Loaded /\ Loaded'
  BY DEF BothAccess, Access, AccessInPlace, AccessMoves, Loaded, vars
<1>4. CASE DirectStramRead(a)
  <2>1. AccessInPlace(a)
    BY <1>4 DEF BothAccess, Access, AccessMoves, StaysInPlace
  <2>2. R!Skip(a)
    BY <1>2, <1>4 DEF BothAccess, R!Read
  <2>3. UNCHANGED <<poolHops, hops>>
    BY <1>4 DEF BothAccess, Charge, StaysInPlace
  <2> QED
    BY <1>3, <2>1, <2>2, <2>3 DEF LockInv, AccessInPlace, vars, R!Skip, R!vars
<1>5. CASE ~DirectStramRead(a)
  <2>1. R!Read(a)
    BY <1>1, <1>2, <1>5 DEF BothAccess, R!Skip
  <2>2. CASE resident[t] = a.target
    <3>1. AccessInPlace(a) /\ UNCHANGED <<poolHops, hops>>
      BY <1>1, <2>2 DEF BothAccess, Access, AccessMoves, StaysInPlace, Charge
    <3>2. UNCHANGED <<rResident, rFast, rBuffered, rBooting, homeHopBytes>>
      BY <2>1, <2>2 DEF R!Read, R!Count, R!HomeHop, LockInv
    <3> QED
      BY <1>3, <3>1, <3>2 DEF LockInv, AccessInPlace, vars
  <2>3. CASE resident[t] # a.target
    <3>1. ~StaysInPlace(a) /\ AccessMoves(a)
      BY <1>1, <1>5, <2>3 DEF BothAccess, Access, AccessInPlace, StaysInPlace
    <3>2. R!Install(a.core, a.target, t, a.bytes) /\ UNCHANGED rBooting
      BY <2>1, <2>3 DEF R!Read, LockInv
    <3>3. rResident' = resident' /\ rFast' = fast' /\ rBuffered' = buffered'
      <4>1. CASE a.target \in PerCore
        BY <1>1, <3>1, <3>2, <4>1, SameInstall DEF AccessMoves
      <4>2. CASE a.target \notin PerCore
        BY <3>1, <3>2, <4>2 DEF AccessMoves, MoveToChipLevel, R!Install, LockInv
      <4> QED
        BY <4>1, <4>2
    <3>4. homeHopBytes' = poolHops'
      <4>1. R!HomeHop(a) <=> Source(a) = Home[t] /\ Source(a) = PoolLevel
        BY <1>1, <2>3 DEF R!HomeHop, LockInv
      <4>2. CASE R!HomeHop(a)
        BY <1>1, <2>1, <3>1, <4>1, <4>2 DEF R!Read, R!Count, BothAccess, Charge, LockInv
      <4>3. CASE ~R!HomeHop(a)
        BY <1>1, <2>1, <3>1, <4>1, <4>3 DEF R!Read, R!Count, BothAccess, Charge, LockInv
      <4> QED
        BY <4>2, <4>3
    <3> QED
      BY <1>3, <3>1, <3>2, <3>3, <3>4 DEF LockInv, AccessMoves
  <2> QED
    BY <2>2, <2>3
<1> QED
  BY <1>4, <1>5

\* A kernel end wipes the same cores in both.
LEMMA KernelEndKeeps ==
  ASSUME LockInv, TypeOK', NEW e \in KernelEnds, BothKernelEnd(e)
  PROVE  LockInv'
<1>1. Loaded'
  BY DEF BothKernelEnd, KernelEnd, Loaded
<1>2. WipeLevels # {} => R!WipedCores(e) = WipedCores(e)
  BY DEF R!WipedCores, WipedCores, LockInv
<1>3. rResident' = resident' /\ rFast' = fast'
  <2>1. CASE WipeLevels = {}
    BY <2>1, SameBuffers DEF BothKernelEnd, KernelEnd, R!KernelEnd, ResidentAfterWipe, LockInv
  <2>2. CASE WipeLevels # {}
    BY <1>2, <2>2, SameBuffers DEF BothKernelEnd, KernelEnd, R!KernelEnd, ResidentAfterWipe, LockInv
  <2> QED
    BY <2>1, <2>2
<1> QED
  BY <1>1, <1>3 DEF BothKernelEnd, KernelEnd, R!KernelEnd, LockInv

\* Every step keeps the invariant.
LEMMA LockSteps ==
  ASSUME DeepestIsPool, ReadOnlyTrace, LockInv, [LockNext]_lockVars
  PROVE  LockInv'
<1>1. [Next]_vars
  BY DEF LockNext, lockVars, EngineSeeds, BothBootstrap, BothAccess, BothKernelEnd, Next,
         Preinstall, Access
<1>2. TypeOK'
  BY <1>1, TypeNext DEF LockInv
<1>3. CASE EngineSeeds
  BY <1>2, <1>3, SeedsKeep
<1>4. CASE BothBootstrap
  BY <1>2, <1>4, BootstrapKeeps
<1>5. ASSUME NEW a \in Accesses, BothAccess(a) PROVE LockInv'
  BY <1>2, <1>5, ReadKeeps
<1>6. ASSUME NEW e \in KernelEnds, BothKernelEnd(e) PROVE LockInv'
  BY <1>2, <1>6, KernelEndKeeps
<1>7. CASE UNCHANGED lockVars
  BY <1>2, <1>7 DEF lockVars, vars, replayVars, LockInv, Loaded
<1> QED
  BY <1>3, <1>4, <1>5, <1>6, <1>7 DEF LockNext

\* So it always holds.
LEMMA LockInvariant ==
  ASSUME DeepestIsPool, ReadOnlyTrace
  PROVE  LockSpec => []LockInv
<1>1. LockInit => LockInv
  BY TypeInit, SameBuffers DEF LockInit, LockInv, Init, R!Init, Loaded
<1>2. LockInv /\ [LockNext]_lockVars => LockInv'
  BY LockSteps
<1> QED
  BY <1>1, <1>2, PTL DEF LockSpec

\* On every trace of reads, after any evictions, staging moves and kernel ends, the replay
\* has every tensor and every buffer where the simulator has it (placement_replay.py
\* against engine.py).
THEOREM ReplayFollowsSimulator ==
  ASSUME DeepestIsPool, ReadOnlyTrace
  PROVE  LockSpec => []SameResidency
<1>1. LockInv => SameResidency
  BY DEF LockInv, SameResidency
<1> QED
  BY <1>1, LockInvariant, PTL

\* And so it counts, tensor by tensor, the bytes of exactly the hops from home that the
\* simulator charges ("matches simulator hop charging").
THEOREM ReplayCountsExactly ==
  ASSUME DeepestIsPool, ReadOnlyTrace
  PROVE  LockSpec => []ReplayCountsChargedHops
<1>1. LockInv => ReplayCountsChargedHops
  BY DEF LockInv, ReplayCountsChargedHops
<1> QED
  BY <1>1, LockInvariant, PTL

------------------------------------------------------------------------------
(* What the retention is worth *)

\* The pool and its spill target are chip-wide levels, other than StRAM, whose reads the
\* replay does not count (ltram and hbm in every policy of configs/ that spills weights).
SpillsBetweenPools ==
  /\ {PoolLevel, SpillTarget} \cap PerCore = {}
  /\ "stram" \notin {PoolLevel, SpillTarget}
  /\ SpillTarget # PoolLevel

\* The spilled tensors are never staged in either level, and are read into levels that are
\* linked to them like the default target (ingest only reads into it).
SpilledReadsScratch ==
  \A a \in Accesses : a.tensor \in Spilled =>
    /\ a.target \notin {PoolLevel, SpillTarget}
    /\ a.target \in OffChip <=> DefaultTarget \in OffChip

\* Where the second simulation has a tensor that the first has at level l.
Moved(t, l) == IF t \in Spilled /\ l = PoolLevel THEN SpillTarget ELSE l

\* Both simulations have the same buffers, and the same levels but for the spilled homes.
Twins ==
  /\ sFast = fast /\ sBuffered = buffered /\ sSeeding = seeding /\ sBooting = booting
  /\ sResident = [t \in Tensors |-> Moved(t, resident[t])]
  /\ \A t \in Spilled : resident[t] # SpillTarget

BenefitInv ==
  /\ LockInv /\ Twins
  /\ retention \in [Tensors -> Int]
  /\ RetentionIsBenefit

\* The buffers of the second simulation are the first's.
LEMMA TwinBuffers ==
  /\ S!EmptyBuffer = EmptyBuffer
  /\ \A t : S!CoreOf(t) = CoreOf(t)
  /\ \A b, l, t, n : S!Victims(b, l, t, n) = Victims(b, l, t, n)
  /\ \A b, l, t, n : S!Installed(b, l, t, n) = Installed(b, l, t, n)
<1>1. \A b, t : S!Holds(b, t) <=> Holds(b, t)
  BY DEF S!Holds, Holds, S!Range, Range
<1>2. \A b, t, n : S!Put(b, t, n) = Put(b, t, n)
  BY <1>1 DEF S!Put, Put
<1>3. \A b : S!DropOldest(b) = DropOldest(b)
  BY DEF S!DropOldest, DropOldest
<1>4. \A b, l, t, n : S!Victims(b, l, t, n) = Victims(b, l, t, n)
  BY <1>1 DEF S!Victims, Victims
<1>5. \A b, l, t, n : S!Installed(b, l, t, n) = Installed(b, l, t, n)
  BY <1>2, <1>3, <1>4 DEF S!Installed, Installed
<1> QED
  BY <1>4, <1>5 DEF S!EmptyBuffer, EmptyBuffer, S!CoreOf, CoreOf

\* An install into a fast buffer evicts the same tensor in both; each sends it home.
LEMMA TwinsInstall ==
  ASSUME SpillsBetweenPools, LockInv, Twins, NEW c \in Cores, NEW l \in PerCore,
         NEW t \in Tensors, NEW n \in Nat,
         InstallInFastBuffer(c, l, t, n), S!InstallInFastBuffer(c, l, t, n),
         seeding' = sSeeding', booting' = sBooting'
  PROVE  Twins'
<1> DEFINE victims == Victims(fast[c][l], l, t, n)
<1>1. l \notin {PoolLevel, SpillTarget}
  BY DEF SpillsBetweenPools
<1>2. resident' = ResidentAfter(victims, t, l)
  BY DEF InstallInFastBuffer
<1>3. sResident' = S!ResidentAfter(victims, t, l)
  BY TwinBuffers DEF S!InstallInFastBuffer, Twins
<1>4. sFast' = fast' /\ sBuffered' = buffered'
  BY TwinBuffers DEF InstallInFastBuffer, S!InstallInFastBuffer, Twins
<1>5. ASSUME NEW u \in Tensors PROVE S!ResidentAfter(victims, t, l)[u] = Moved(u, resident'[u])
  BY <1>1, <1>2, SpilledAssumption
     DEF S!ResidentAfter, ResidentAfter, SpilledHome, Moved, Twins
<1>6. sResident' = [u \in Tensors |-> Moved(u, resident'[u])]
  BY <1>3, <1>5 DEF S!ResidentAfter
<1>7. ASSUME NEW u \in Spilled PROVE resident'[u] # SpillTarget
  BY <1>1, <1>2, SpilledAssumption DEF ResidentAfter, Twins, SpillsBetweenPools
<1> QED
  BY <1>4, <1>6, <1>7 DEF Twins, Moved

\* Homes in chip-wide pools change neither the levels nor the fast buffers.
LEMMA TwinsSeed ==
  ASSUME DeepestIsPool, LockInv, Twins, AllSeed
  PROVE  Twins'
<1> DEFINE t == Head(seeding)
<1>1. UNCHANGED <<resident, fast, buffered>>
  <2>1. Seeded(t) => Home[t] \notin PerCore
    BY DEF Seeded, DeepestIsPool
  <2> QED
    BY <2>1 DEF AllSeed, EngineSeeds, SeedHome, InstallHome
<1>2. UNCHANGED <<sResident, sFast, sBuffered>>
  <2>1. S!Seeded(t) => SpilledHome[t] \notin PerCore
    BY DEF S!Seeded, DeepestIsPool
  <2> QED
    BY <2>1 DEF AllSeed, S!SeedHome, S!InstallHome, Twins
<1>3. seeding' = sSeeding' /\ booting' = sBooting'
  BY DEF AllSeed, EngineSeeds, SeedHome, S!SeedHome, Twins
<1> QED
  BY <1>1, <1>2, <1>3 DEF Twins, Moved

\* A spilled tensor is homed in a pool in both; any other has the same home in both.
LEMMA TwinsBootstrap ==
  ASSUME SpillsBetweenPools, LockInv, Twins, AllBootstrap
  PROVE  Twins'
<1> DEFINE t == Head(booting)
<1>1. /\ t \in Tensors /\ CoreOf(t) \in Cores /\ TensorBytes[t] \in Nat
      /\ booting' = Tail(booting) /\ sBooting' = Tail(booting) /\ UNCHANGED <<seeding, sSeeding>>
      /\ InstallHome(t, Bootstrapped(t)) /\ S!InstallHome(t, S!Bootstrapped(t))
  BY HomeAndCore, TensorsAssumption
     DEF AllBootstrap, BothBootstrap, BootstrapHome, S!BootstrapHome, LockInv, TypeOK, Twins
<1>2. CASE t \in Spilled \/ ~Bootstrapped(t) \/ Home[t] \notin PerCore
  <2>1. Bootstrapped(t) => Home[t] \notin PerCore
    BY <1>2, SpilledAssumption DEF SpillsBetweenPools
  <2>2. S!Bootstrapped(t) => SpilledHome[t] \notin PerCore
    BY <1>1, <1>2 DEF SpillsBetweenPools, S!Bootstrapped, Bootstrapped, SpilledHome
  <2>3. UNCHANGED <<resident, fast, buffered>>
    BY <1>1, <2>1 DEF InstallHome
  <2>4. UNCHANGED <<sResident, sFast, sBuffered>>
    BY <1>1, <2>2 DEF S!InstallHome
  <2> QED
    BY <1>1, <2>3, <2>4 DEF Twins, Moved
<1>3. CASE t \notin Spilled /\ Bootstrapped(t) /\ Home[t] \in PerCore
  <2>1. SpilledHome[t] = Home[t]
    BY <1>1, <1>3 DEF SpilledHome
  <2>2. S!Bootstrapped(t)
    BY <1>3, <2>1 DEF S!Bootstrapped, Bootstrapped
  <2>3. InstallInFastBuffer(CoreOf(t), Home[t], t, TensorBytes[t])
    BY <1>1, <1>3 DEF InstallHome, ChipPools
  <2>4. S!InstallInFastBuffer(CoreOf(t), Home[t], t, TensorBytes[t])
    BY <1>1, <1>3, <2>1, <2>2, TwinBuffers DEF S!InstallHome, S!ChipPools
  <2> QED
    BY <1>1, <1>3, <2>3, <2>4, TwinsInstall DEF Twins
<1> QED
  BY <1>2, <1>3

\* On reads both simulations stay in place or move together, from the same level unless a
\* spilled tensor is read from home.
LEMMA SourcesTwin ==
  ASSUME SpillsBetweenPools, SpilledReadsScratch, ReadOnlyTrace, LockInv, Twins,
         NEW a \in Accesses
  PROVE  /\ S!StaysInPlace(a) <=> StaysInPlace(a)
         /\ Source(a) = resident[a.tensor] /\ Source(a) \in Levels
         /\ S!Source(a) = Moved(a.tensor, Source(a))
         /\ StaysInPlace(a) => S!Source(a) = Source(a)
<1> DEFINE t == a.tensor
<1>1. t \in Tensors /\ a.op = "read"
  BY TraceAssumption DEF AccessEvent, ReadOnlyTrace
<1>2. /\ Source(a) = resident[t] /\ Source(a) \in Levels
      /\ S!Source(a) = Moved(t, Source(a))
  BY <1>1 DEF Source, S!Source, Twins, LockInv, TypeOK
<1>3. CASE t \in Spilled
  <2>1. Home[t] = PoolLevel /\ SpilledHome[t] = SpillTarget
    BY <1>1, <1>3, SpilledAssumption DEF SpilledHome
  <2>2. ~DirectStramRead(a) /\ ~S!DirectStramRead(a)
    BY <2>1 DEF DirectStramRead, S!DirectStramRead, SpillsBetweenPools
  <2>3. a.target \notin {PoolLevel, SpillTarget}
    BY <1>3 DEF SpilledReadsScratch
  <2> QED
    BY <1>2, <2>2, <2>3 DEF StaysInPlace, S!StaysInPlace, Moved
<1>4. CASE t \notin Spilled
  <2>1. SpilledHome[t] = Home[t] /\ S!Source(a) = Source(a) /\ sResident[t] = resident[t]
    BY <1>1, <1>2, <1>4 DEF SpilledHome, Moved, Twins
  <2>2. DirectStramRead(a) <=> S!DirectStramRead(a)
    BY <2>1 DEF DirectStramRead, S!DirectStramRead
  <2> QED
    BY <1>2, <2>1, <2>2 DEF StaysInPlace, S!StaysInPlace
<1> QED
  BY <1>3, <1>4

\* An access moves the tensor alike in both simulations.
LEMMA TwinsAccess ==
  ASSUME SpillsBetweenPools, SpilledReadsScratch, ReadOnlyTrace, LockInv, Twins,
         NEW a \in Accesses, AllAccess(a)
  PROVE  Twins'
<1> DEFINE t == a.tensor
<1>1. /\ t \in Tensors /\ a.target \in Levels /\ a.bytes \in Nat /\ a.core \in Cores
  BY TraceAssumption DEF AccessEvent
<1>2. CASE StaysInPlace(a)
  <2>1. UNCHANGED vars
    BY <1>2 DEF AllAccess, BothAccess, Access, AccessMoves, AccessInPlace
  <2>2. UNCHANGED spilledVars
    BY <1>2, SourcesTwin
       DEF AllAccess, S!Access, S!AccessMoves, S!AccessInPlace, S!vars, spilledVars
  <2> QED
    BY <2>1, <2>2 DEF vars, spilledVars, Twins, Moved
<1>3. CASE ~StaysInPlace(a)
  <2>1. AccessMoves(a) /\ S!AccessMoves(a)
    BY <1>3, SourcesTwin DEF AllAccess, BothAccess, Access, AccessInPlace, S!Access, S!AccessInPlace
  <2>2. seeding' = sSeeding' /\ booting' = sBooting'
    BY <2>1 DEF AccessMoves, S!AccessMoves, Twins
  <2>3. CASE a.target \in PerCore
    <3>1. InstallInFastBuffer(a.core, a.target, t, a.bytes)
      BY <2>1, <2>3 DEF AccessMoves
    <3>2. S!InstallInFastBuffer(a.core, a.target, t, a.bytes)
      BY <2>1, <2>3 DEF S!AccessMoves
    <3> QED
      BY <1>1, <2>2, <2>3, <3>1, <3>2, TwinsInstall
  <2>4. CASE a.target \notin PerCore
    <3>1. resident' = [resident EXCEPT ![t] = a.target] /\ UNCHANGED <<fast, buffered>>
      BY <2>1, <2>4 DEF AccessMoves, MoveToChipLevel
    <3>2. sResident' = [sResident EXCEPT ![t] = a.target] /\ UNCHANGED <<sFast, sBuffered>>
      BY <2>1, <2>4 DEF S!AccessMoves, S!MoveToChipLevel
    <3>3. t \in Spilled => a.target \notin {PoolLevel, SpillTarget}
      BY DEF SpilledReadsScratch
    <3>4. sResident' = [u \in Tensors |-> Moved(u, resident'[u])]
      BY <1>1, <3>1, <3>2, <3>3 DEF Twins, Moved, LockInv, TypeOK
    <3>5. \A u \in Spilled : resident'[u] # SpillTarget
      BY <1>1, <3>1, <3>3, SpilledAssumption DEF Twins, LockInv, TypeOK
    <3> QED
      BY <2>2, <3>1, <3>2, <3>4, <3>5 DEF Twins, Moved
  <2> QED
    BY <2>3, <2>4
<1> QED
  BY <1>2, <1>3

\* A kernel end sends the wiped tensors of the same cores home in both.
LEMMA TwinsKernelEnd ==
  ASSUME SpillsBetweenPools, LockInv, Twins, NEW e \in KernelEnds, AllKernelEnd(e)
  PROVE  Twins'
<1>1. S!WipedCores(e) = WipedCores(e)
  BY DEF S!WipedCores, WipedCores, Twins
<1>2. fast' = sFast' /\ buffered' = sBuffered' /\ seeding' = sSeeding' /\ booting' = sBooting'
  BY <1>1, TwinBuffers DEF AllKernelEnd, BothKernelEnd, KernelEnd, S!KernelEnd, Twins
<1>3. resident' = ResidentAfterWipe(WipedCores(e)) /\ sResident' = S!ResidentAfterWipe(WipedCores(e))
  BY <1>1 DEF AllKernelEnd, BothKernelEnd, KernelEnd, S!KernelEnd
<1>4. ASSUME NEW u \in Tensors PROVE sResident'[u] = Moved(u, resident'[u])
  <2>1. CASE u \in Spilled
    <3>1. Home[u] = PoolLevel /\ SpilledHome[u] = SpillTarget
      BY <2>1, SpilledAssumption DEF SpilledHome
    <3> QED
      BY <1>3, <2>1, <3>1, TwinBuffers DEF ResidentAfterWipe, S!ResidentAfterWipe, Moved, Twins
  <2>2. CASE u \notin Spilled
    BY <1>3, <2>2, TwinBuffers
       DEF ResidentAfterWipe, S!ResidentAfterWipe, SpilledHome, Moved, Twins
  <2> QED
    BY <2>1, <2>2
<1>5. sResident' = [u \in Tensors |-> Moved(u, resident'[u])]
  BY <1>3, <1>4 DEF S!ResidentAfterWipe
<1>6. \A u \in Spilled : resident'[u] # SpillTarget
  BY <1>3, SpilledAssumption DEF ResidentAfterWipe, Twins, SpillsBetweenPools
<1> QED
  BY <1>2, <1>5, <1>6 DEF Twins, Moved

\* Latencies are whole numbers.
LEMMA LatenciesAreInt ==
  ASSUME NEW k \in Levels, NEW l \in Levels, NEW n \in Nat
  PROVE  HopLatency(k, l, n) \in Int /\ LocalLatency(k, n) \in Int
<1>1. LinkTime(k, l) \in Nat /\ OnChipTime \in Nat
  BY CostsAssumption DEF LinkTime
<1>2. n * LinkTime(k, l) \in Int /\ n * OnChipTime \in Int
  BY <1>1
<1>3. ReadLatency[k] \in Int /\ WriteLatency[l] \in Int
  BY CostsAssumption
<1> QED
  BY <1>2, <1>3 DEF HopLatency, LocalLatency

\* Reading from the spill target instead of the pool costs what the replay counts,
\* wherever the tensor is read to.
LEMMA SavingIsCost ==
  ASSUME NEW k \in Levels, NEW n \in Nat, k \in OffChip <=> DefaultTarget \in OffChip
  PROVE  HopLatency(SpillTarget, k, n) - HopLatency(PoolLevel, k, n) = R!Saving(n)
<1> DEFINE x == n * LinkTime(SpillTarget, k)
           y == n * LinkTime(PoolLevel, k)
<1>1. LinkTime(SpillTarget, k) = LinkTime(SpillTarget, DefaultTarget)
  BY DEF LinkTime
<1>2. LinkTime(PoolLevel, k) = LinkTime(PoolLevel, DefaultTarget)
  BY DEF LinkTime
<1>3. x \in Int /\ y \in Int
  <2>1. LinkTime(SpillTarget, k) \in Nat /\ LinkTime(PoolLevel, k) \in Nat
    BY CostsAssumption DEF LinkTime
  <2> QED
    BY <2>1
<1>4. /\ ReadLatency[SpillTarget] \in Int /\ ReadLatency[PoolLevel] \in Int
      /\ WriteLatency[k] \in Int /\ WriteLatency[DefaultTarget] \in Int
  BY CostsAssumption, PoolAssumption, LevelsAssumption
<1>5. /\ HopLatency(SpillTarget, k, n) = ReadLatency[SpillTarget] + x + WriteLatency[k]
      /\ HopLatency(PoolLevel, k, n) = ReadLatency[PoolLevel] + y + WriteLatency[k]
  BY DEF HopLatency
<1>6. R!Saving(n) = (ReadLatency[SpillTarget] + x + WriteLatency[DefaultTarget])
                    - (ReadLatency[PoolLevel] + y + WriteLatency[DefaultTarget])
  BY <1>1, <1>2 DEF R!Saving, R!HopLatency, R!LinkTime, HopLatency, LinkTime
<1> HIDE DEF x, y
<1> QED
  BY <1>3, <1>4, <1>5, <1>6

\* One read: the second simulation takes longer by what the replay adds to the retention
\* of the tensor, and only if that tensor is spilled and at home.
LEMMA AccessPays ==
  ASSUME SpillsBetweenPools, SpilledReadsScratch, ReadOnlyTrace, BenefitInv,
         NEW a \in Accesses, AllAccess(a)
  PROVE  retention' \in [Tensors -> Int] /\ RetentionIsBenefit'
<1> DEFINE t == a.tensor
           counted == ~StaysInPlace(a) /\ resident[t] = Home[t] /\ Home[t] = PoolLevel
           saving == R!Saving(a.bytes)
<1>1. /\ t \in Tensors /\ a.target \in Levels /\ a.bytes \in Nat /\ a.op = "read"
      /\ retention \in [Tensors -> Int]
      /\ Spilled \subseteq Tensors /\ IsFiniteSet(Spilled)
  BY TraceAssumption, SpilledAssumption, TensorsFinite, FS_Subset
     DEF AccessEvent, ReadOnlyTrace, BenefitInv
<1>2. LockInv /\ Twins
  BY DEF BenefitInv
<1>3. saving \in Int
  <2>1. /\ HopLatency(SpillTarget, DefaultTarget, a.bytes) \in Int
        /\ HopLatency(PoolLevel, DefaultTarget, a.bytes) \in Int
    BY <1>1, LatenciesAreInt, PoolAssumption, LevelsAssumption
  <2>2. HopLatency(SpillTarget, DefaultTarget, a.bytes)
          - HopLatency(PoolLevel, DefaultTarget, a.bytes) = saving
    BY <1>1, SavingIsCost, LevelsAssumption
  <2> QED
    BY <2>1, <2>2
<1>4. retention' = IF counted THEN [retention EXCEPT ![t] = @ + saving] ELSE retention
  <2>1. R!DirectStramRead(a) <=> DirectStramRead(a)
    BY <1>1, <1>2 DEF R!DirectStramRead, DirectStramRead, LockInv
  <2>2. Source(a) = resident[t]
    BY <1>1 DEF Source
  <2>3. CASE DirectStramRead(a)
    <3>1. retention' = retention
      BY <2>1, <2>3 DEF AllAccess, BothAccess, R!Read, R!Skip, R!vars
    <3> QED
      BY <2>3, <3>1 DEF StaysInPlace
  <2>4. CASE ~DirectStramRead(a)
    <3>1. R!Read(a)
      BY <1>1, <2>1, <2>4 DEF AllAccess, BothAccess, R!Skip
    <3>2. R!HomeHop(a) <=> counted
      BY <1>1, <1>2, <2>2, <2>4 DEF R!HomeHop, StaysInPlace, LockInv
    <3> QED
      BY <3>1, <3>2 DEF R!Read, R!Count
  <2> QED
    BY <2>3, <2>4
<1>5. extraTime' = extraTime + (IF counted /\ t \in Spilled THEN saving ELSE 0)
  <2> DEFINE there == AccessTime(a, S!StaysInPlace(a), S!Source(a))
             here == AccessTime(a, StaysInPlace(a), Source(a))
  <2>1. extraTime' = extraTime + there - here
    BY DEF AllAccess
  <2>2. extraTime \in Int
    <3>1. \A u \in Spilled : retention[u] \in Int
      BY <1>1
    <3> QED
      BY <1>1, <3>1, SumInt DEF BenefitInv, RetentionIsBenefit
  <2>3. /\ S!StaysInPlace(a) <=> StaysInPlace(a)
        /\ Source(a) = resident[t] /\ Source(a) \in Levels
        /\ S!Source(a) = Moved(t, Source(a))
        /\ StaysInPlace(a) => S!Source(a) = Source(a)
    BY <1>2, SourcesTwin
  <2>4. there \in Int /\ here \in Int
    <3>1. S!Source(a) \in Levels
      BY <2>3, PoolAssumption DEF Moved
    <3> QED
      BY <1>1, <2>3, <3>1, LatenciesAreInt DEF AccessTime
  <2>5. CASE counted /\ t \in Spilled
    <3>1. S!Source(a) = SpillTarget /\ Source(a) = PoolLevel
      BY <2>3, <2>5 DEF Moved
    <3>2. /\ there = HopLatency(SpillTarget, a.target, a.bytes)
          /\ here = HopLatency(PoolLevel, a.target, a.bytes)
      BY <2>3, <2>5, <3>1 DEF AccessTime
    <3>3. there - here = saving
      BY <1>1, <2>5, <3>2, SavingIsCost DEF SpilledReadsScratch
    <3> HIDE DEF there, here, saving, counted
    <3> QED
      BY <1>3, <2>1, <2>2, <2>4, <2>5, <3>3
  <2>6. CASE ~(counted /\ t \in Spilled)
    <3>1. S!Source(a) = Source(a)
      BY <1>1, <2>3, <2>6, SpilledAssumption DEF Moved
    <3>2. there = here
      BY <2>3, <3>1 DEF AccessTime
    <3> HIDE DEF there, here, saving, counted
    <3> QED
      BY <2>1, <2>2, <2>4, <2>6, <3>2
  <2> QED
    BY <2>5, <2>6
<1> HIDE DEF counted, saving
<1>6. retention' \in [Tensors -> Int]
  BY <1>1, <1>3, <1>4
<1>7. \A u \in Spilled : retention[u] \in Int /\ retention'[u] \in Int
  BY <1>1, <1>6
<1>8. SumFunctionOnSet(retention', Spilled) =
        SumFunctionOnSet(retention, Spilled) + (IF counted /\ t \in Spilled THEN saving ELSE 0)
  <2>1. SumFunctionOnSet(retention, Spilled) \in Int
    BY <1>1, <1>7, SumInt
  <2>2. CASE counted /\ t \in Spilled
    <3>1. retention'[t] = retention[t] + saving
      BY <1>1, <1>4, <2>2
    <3>2. \A u \in Spilled \ {t} : retention[u] = retention'[u]
      BY <1>1, <1>4, <2>2
    <3>3. SumFunctionOnSet(retention', Spilled) =
            SumFunctionOnSet(retention, Spilled) + retention'[t] - retention[t]
      <4> DEFINE after == retention'
      <4>1. \A u \in Spilled : retention[u] \in Int /\ after[u] \in Int
        BY <1>7
      <4>2. t \in Spilled /\ IsFiniteSet(Spilled) /\ \A u \in Spilled \ {t} : retention[u] = after[u]
        BY <1>1, <2>2, <3>2
      <4>3. SumFunctionOnSet(after, Spilled) = SumFunctionOnSet(retention, Spilled) + after[t] - retention[t]
        <5> HIDE DEF after, t
        <5> QED
          BY <4>1, <4>2, SumUpdate
      <4> QED
        BY <4>3
    <3> QED
      BY <1>1, <1>3, <2>1, <2>2, <3>1, <3>3
  <2>3. CASE ~(counted /\ t \in Spilled)
    <3>1. \A u \in Spilled : retention[u] = retention'[u]
      BY <1>1, <1>4, <2>3
    <3>2. SumFunctionOnSet(retention, Spilled) = SumFunctionOnSet(retention', Spilled)
      BY <1>1, <3>1, SumSame
    <3> QED
      BY <2>1, <2>3, <3>2
  <2> QED
    BY <2>2, <2>3
<1>9. RetentionIsBenefit'
  BY <1>5, <1>8 DEF BenefitInv, RetentionIsBenefit
<1> QED
  BY <1>6, <1>9

\* Initially every tensor is at home in both, and nothing has been charged or counted.
LEMMA BenefitInitially ==
  ASSUME SpillsBetweenPools, BenefitInit
  PROVE  BenefitInv
<1>1. LockInv
  BY TypeInit, SameBuffers DEF BenefitInit, LockInit, LockInv, Init, R!Init, Loaded
<1>2. Twins
  <2>1. sResident = SpilledHome /\ resident = Home
    BY DEF BenefitInit, LockInit, Init, S!Init
  <2>2. \A t \in Tensors : SpilledHome[t] = Moved(t, Home[t])
    BY SpilledAssumption DEF SpilledHome, Moved
  <2>3. sResident = [t \in Tensors |-> Moved(t, resident[t])]
    BY <2>1, <2>2 DEF SpilledHome
  <2>4. \A t \in Spilled : resident[t] # SpillTarget
    BY <2>1, SpilledAssumption DEF SpillsBetweenPools
  <2>5. sFast = fast /\ sBuffered = buffered /\ sSeeding = seeding /\ sBooting = booting
    BY TwinBuffers DEF BenefitInit, LockInit, Init, S!Init
  <2> QED
    BY <2>3, <2>4, <2>5 DEF Twins
<1>3. retention = [t \in Tensors |-> 0] /\ extraTime = 0
  BY DEF BenefitInit, LockInit, R!Init
<1>4. IsFiniteSet(Spilled) /\ \A t \in Spilled : retention[t] = 0
  BY <1>3, SpilledAssumption, TensorsFinite, FS_Subset
<1>5. SumFunctionOnSet(retention, Spilled) = 0
  BY <1>4, SumZero
<1> QED
  BY <1>1, <1>2, <1>3, <1>5 DEF BenefitInv, RetentionIsBenefit

\* The steps of the three keep it.
LEMMA BenefitSteps ==
  ASSUME DeepestIsPool, SpillsBetweenPools, SpilledReadsScratch, ReadOnlyTrace,
         BenefitInv, [BenefitNext]_benefitVars
  PROVE  BenefitInv'
<1>1. [LockNext]_lockVars
  BY DEF BenefitNext, AllSeed, AllBootstrap, AllAccess, AllKernelEnd, LockNext, benefitVars
<1>2. LockInv'
  BY <1>1, LockSteps DEF BenefitInv
<1>3. Twins'
  <2>1. CASE UNCHANGED benefitVars
    BY <2>1 DEF benefitVars, lockVars, vars, spilledVars, BenefitInv, Twins, Moved
  <2> QED
    BY <2>1, TwinsSeed, TwinsBootstrap, TwinsAccess, TwinsKernelEnd DEF BenefitNext, BenefitInv
<1>4. retention' \in [Tensors -> Int] /\ RetentionIsBenefit'
  <2>1. CASE UNCHANGED <<retention, extraTime>>
    BY <2>1 DEF BenefitInv, RetentionIsBenefit
  <2>2. CASE AllSeed \/ AllBootstrap \/ UNCHANGED benefitVars
    BY <2>1, <2>2 DEF AllSeed, EngineSeeds, AllBootstrap, BothBootstrap, R!Bootstrap, benefitVars,
                      lockVars, replayVars
  <2>3. ASSUME NEW e \in KernelEnds, AllKernelEnd(e) PROVE UNCHANGED <<retention, extraTime>>
    BY <2>3 DEF AllKernelEnd, BothKernelEnd, R!KernelEnd
  <2> QED
    BY <2>1, <2>2, <2>3, AccessPays DEF BenefitNext
<1> QED
  BY <1>2, <1>3, <1>4 DEF BenefitInv

\* The retention that placement ranks weights by is the time that homing them in the spill
\* target would have cost, on every trace of reads, whatever was evicted or wiped on the
\* way and however many tensors are spilled at once (placement_replay.py: "Per-tensor
\* benefit (ns) of homing in pool_level vs spill_target").
THEOREM RetentionIsWorth ==
  ASSUME DeepestIsPool, SpillsBetweenPools, SpilledReadsScratch, ReadOnlyTrace
  PROVE  BenefitSpec => []RetentionIsBenefit
<1>1. BenefitInit => BenefitInv
  BY BenefitInitially
<1>2. BenefitInv /\ [BenefitNext]_benefitVars => BenefitInv'
  BY BenefitSteps
<1>3. BenefitInv => RetentionIsBenefit
  BY DEF BenefitInv
<1> QED
  BY <1>1, <1>2, <1>3, PTL DEF BenefitSpec

\* The spilled simulation runs beside the other two without disturbing them, so what is
\* proved of the simulator and the replay holds with it too.
LEMMA BenefitIsLock == BenefitSpec => LockSpec
<1>1. BenefitInit => LockInit
  BY DEF BenefitInit
<1>2. [BenefitNext]_benefitVars => [LockNext]_lockVars
  BY DEF BenefitNext, AllSeed, AllBootstrap, AllAccess, AllKernelEnd, LockNext, benefitVars
<1> QED
  BY <1>1, <1>2, PTL DEF BenefitSpec, LockSpec
==============================================================================
