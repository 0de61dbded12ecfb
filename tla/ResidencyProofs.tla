--------------------------- MODULE ResidencyProofs ---------------------------
(***************************************************************************)
(* Proofs about Residency for every hierarchy, placement and trace: type   *)
(* correctness, the reservations of the home pools, the byte counts of the *)
(* buffers, balanced always and within capacity for whole-tensor traces,   *)
(* and, where accesses run on the tensors' own cores, scratch: what is     *)
(* taken for resident there is there, a chip-wide kernel end leaves        *)
(* nothing, and the tables implement ScratchCache.                         *)
(***************************************************************************)
EXTENDS ResidencyProperties, SumTheorems

(* What the dictionary operations of Buffers preserve and return. *)

\* The empty buffer of a cleared or missing level is a buffer without occupants.
LEMMA EmptyBufferType ==
  /\ EmptyBuffer \in Buffer
  /\ \A t \in Tensors : ~Holds(EmptyBuffer, t)
  BY SMT DEF EmptyBuffer, Buffer, Holds, Range

\* install leaves a well-formed buffer.
LEMMA PutType ==
  ASSUME NEW b \in Buffer, NEW t \in Tensors, NEW n \in Nat
  PROVE  Put(b, t, n) \in Buffer
<1>1. b.order \in Seq(Tensors) /\ b.size \in [Tensors -> Nat] /\ b.used \in Int
  BY DEF Buffer
<1>2. (IF Holds(b, t) THEN b.order ELSE Append(b.order, t)) \in Seq(Tensors)
  BY <1>1
<1>3. [b.size EXCEPT ![t] = n] \in [Tensors -> Nat]
  BY <1>1
<1>4. b.used + n - (IF Holds(b, t) THEN b.size[t] ELSE 0) \in Int
  BY <1>1
<1> QED
  BY <1>2, <1>3, <1>4 DEF Put, Buffer

\* After install the occupants are the old ones and the newcomer.
LEMMA PutHolds ==
  ASSUME NEW b \in Buffer, NEW t \in Tensors, NEW n \in Nat, NEW u \in Tensors
  PROVE  Holds(Put(b, t, n), u) <=> (u = t \/ Holds(b, u))
<1>1. b.order \in Seq(Tensors)
  BY DEF Buffer
<1>2. Put(b, t, n).order = IF Holds(b, t) THEN b.order ELSE Append(b.order, t)
  BY DEF Put
<1>3. CASE Holds(b, t)
  BY <1>2, <1>3 DEF Holds
<1>4. CASE ~Holds(b, t)
  <2>1. Put(b, t, n).order = Append(b.order, t)
    BY <1>2, <1>4
  <2>2. /\ DOMAIN Append(b.order, t) = 1..(Len(b.order) + 1)
        /\ Append(b.order, t)[Len(b.order) + 1] = t
        /\ \A i \in 1..Len(b.order) : Append(b.order, t)[i] = b.order[i]
    BY <1>1
  <2>3. DOMAIN b.order = 1..Len(b.order) /\ Len(b.order) \in Nat
    BY <1>1
  <2>4. u = t => \E i \in DOMAIN Append(b.order, t) : u = Append(b.order, t)[i]
    BY <2>2, <2>3
  <2>5. Holds(b, u) => \E i \in DOMAIN Append(b.order, t) : u = Append(b.order, t)[i]
    BY <2>2, <2>3 DEF Holds, Range
  <2>6. ASSUME NEW i \in DOMAIN Append(b.order, t), u = Append(b.order, t)[i], u # t
        PROVE  Holds(b, u)
    <3>1. i \in 1..Len(b.order)
      BY <2>2, <2>3, <2>6
    <3> QED
      BY <2>2, <2>3, <2>6, <3>1 DEF Holds, Range
  <2> QED
    BY <2>1, <2>4, <2>5, <2>6 DEF Holds, Range
<1> QED
  BY <1>3, <1>4

\* Dropping the oldest occupant of a buffer that has one leaves a buffer.
LEMMA DropOldestType ==
  ASSUME NEW b \in Buffer, b.order # <<>>
  PROVE  DropOldest(b) \in Buffer /\ Head(b.order) \in Tensors
<1>1. b.order \in Seq(Tensors) /\ b.size \in [Tensors -> Nat] /\ b.used \in Int
  BY DEF Buffer
<1>2. Head(b.order) \in Tensors /\ Tail(b.order) \in Seq(Tensors)
  BY <1>1
<1>3. [b.size EXCEPT ![Head(b.order)] = 0] \in [Tensors -> Nat]
  BY <1>1
<1>4. b.used - b.size[Head(b.order)] \in Int
  BY <1>1, <1>2
<1> QED
  BY <1>2, <1>3, <1>4 DEF DropOldest, Buffer

\* The members of a sequence other than its head are in its tail, and no others.
LEMMA TailRange ==
  ASSUME NEW s \in Seq(Tensors), s # <<>>, NEW u
  PROVE  /\ u \in Range(s) /\ u # Head(s) => u \in Range(Tail(s))
         /\ u \in Range(Tail(s)) => u \in Range(s)
<1>1. /\ DOMAIN s = 1..Len(s) /\ Len(s) \in Nat \ {0}
      /\ DOMAIN Tail(s) = 1..(Len(s) - 1)
      /\ \A j \in 1..(Len(s) - 1) : Tail(s)[j] = s[j + 1]
      /\ Head(s) = s[1]
  BY SMT
<1>2. ASSUME NEW i \in DOMAIN s, u = s[i], u # Head(s)
      PROVE  u \in Range(Tail(s))
  <2>1. i - 1 \in 1..(Len(s) - 1) /\ Tail(s)[i - 1] = s[i]
    BY <1>1, <1>2
  <2> QED
    BY <1>1, <1>2, <2>1 DEF Range
<1>3. ASSUME NEW j \in DOMAIN Tail(s), u = Tail(s)[j]
      PROVE  u \in Range(s)
  <2>1. j + 1 \in DOMAIN s /\ s[j + 1] = u
    BY <1>1, <1>3
  <2> QED
    BY <2>1 DEF Range
<1> QED
  BY <1>2, <1>3 DEF Range

\* Every other occupant stays, and nobody comes.
LEMMA DropOldestHolds ==
  ASSUME NEW b \in Buffer, b.order # <<>>, NEW u \in Tensors
  PROVE  /\ Holds(b, u) /\ u # Head(b.order) => Holds(DropOldest(b), u)
         /\ Holds(DropOldest(b), u) => Holds(b, u)
<1>1. b.order \in Seq(Tensors)
  BY DEF Buffer
<1>2. DropOldest(b).order = Tail(b.order)
  BY DEF DropOldest
<1> QED
  BY <1>1, <1>2, TailRange DEF Holds

------------------------------------------------------------------------------
(* Dictionaries have distinct keys *)

Distinct(b) == IsInjective(b.order)

\* An empty buffer lists nothing twice.
LEMMA EmptyBufferDistinct == Distinct(EmptyBuffer)
  BY DEF Distinct, EmptyBuffer, IsInjective

\* install keeps the keys distinct.
LEMMA PutDistinct ==
  ASSUME NEW b \in Buffer, NEW t \in Tensors, NEW n \in Nat, Distinct(b)
  PROVE  Distinct(Put(b, t, n))
<1>1. b.order \in Seq(Tensors)
  BY DEF Buffer
<1>2. CASE Holds(b, t)
  BY <1>2 DEF Put, Distinct
<1>3. CASE ~Holds(b, t)
  <2>1. Put(b, t, n).order = Append(b.order, t)
    BY <1>3 DEF Put
  <2>2. /\ DOMAIN Append(b.order, t) = 1..(Len(b.order) + 1)
        /\ Append(b.order, t)[Len(b.order) + 1] = t
        /\ \A i \in 1..Len(b.order) : Append(b.order, t)[i] = b.order[i]
        /\ DOMAIN b.order = 1..Len(b.order) /\ Len(b.order) \in Nat
    BY <1>1
  <2>3. \A i \in 1..Len(b.order) : b.order[i] # t
    BY <1>3, <2>2 DEF Holds, Range
  <2>4. \A i, j \in 1..Len(b.order) : b.order[i] = b.order[j] => i = j
    BY <2>2 DEF Distinct, IsInjective
  <2> SUFFICES ASSUME NEW i \in 1..(Len(b.order) + 1), NEW j \in 1..(Len(b.order) + 1),
                      Append(b.order, t)[i] = Append(b.order, t)[j]
               PROVE  i = j
    BY <2>1, <2>2 DEF Distinct, IsInjective
  <2> QED
    BY <2>2, <2>3, <2>4
<1> QED
  BY <1>2, <1>3

\* Dropping the oldest occupant keeps them distinct, and the dropped one is gone.
LEMMA DropOldestDistinct ==
  ASSUME NEW b \in Buffer, b.order # <<>>, Distinct(b)
  PROVE  /\ Distinct(DropOldest(b))
         /\ ~Holds(DropOldest(b), Head(b.order))
<1>1. b.order \in Seq(Tensors)
  BY DEF Buffer
<1>2. /\ DOMAIN b.order = 1..Len(b.order) /\ Len(b.order) \in Nat \ {0}
      /\ DOMAIN Tail(b.order) = 1..(Len(b.order) - 1)
      /\ \A j \in 1..(Len(b.order) - 1) : Tail(b.order)[j] = b.order[j + 1]
      /\ Head(b.order) = b.order[1]
  BY <1>1
<1>3. \A i, j \in 1..Len(b.order) : b.order[i] = b.order[j] => i = j
  BY <1>2 DEF Distinct, IsInjective
<1>4. DropOldest(b).order = Tail(b.order)
  BY DEF DropOldest
<1>5. ASSUME NEW i \in 1..(Len(b.order) - 1), NEW j \in 1..(Len(b.order) - 1),
             Tail(b.order)[i] = Tail(b.order)[j]
      PROVE  i = j
  BY <1>2, <1>3, <1>5
<1>6. ASSUME NEW j \in 1..(Len(b.order) - 1)
      PROVE  Tail(b.order)[j] # Head(b.order)
  BY <1>2, <1>3
<1>7. Distinct(DropOldest(b))
  BY <1>2, <1>4, <1>5 DEF Distinct, IsInjective
<1>8. ~Holds(DropOldest(b), Head(b.order))
  BY <1>2, <1>4, <1>6 DEF Holds, Range
<1> QED
  BY <1>7, <1>8

------------------------------------------------------------------------------
(* What an install returns *)

\* Every tensor has a core and an enabled home.
LEMMA HomeAndCore ==
  ASSUME NEW t \in Tensors
  PROVE  CoreOf(t) \in Cores /\ Home[t] \in Enabled /\ Home[t] \in Levels
  BY TensorsAssumption, LevelsAssumption DEF CoreOf

\* What an install into a fast buffer returns: a buffer that holds the newcomer
\* and whatever is not evicted, and nothing that was not there.
LEMMA InstalledBuffer ==
  ASSUME NEW b \in Buffer, NEW l \in Levels, NEW t \in Tensors, NEW n \in Nat
  PROVE  /\ Installed(b, l, t, n) \in Buffer
         /\ Victims(b, l, t, n) \subseteq Tensors
         /\ Holds(Installed(b, l, t, n), t)
         /\ \A u \in Tensors \ Victims(b, l, t, n) :
              Holds(b, u) => Holds(Installed(b, l, t, n), u)
         /\ \A u \in Tensors \ {t} : Holds(Installed(b, l, t, n), u) => Holds(b, u)
         /\ \A u \in Victims(b, l, t, n) : Holds(b, u)
<1>1. CASE Victims(b, l, t, n) = {}
  BY <1>1, PutType, PutHolds DEF Installed
<1>2. CASE Victims(b, l, t, n) # {}
  <2>1. b.order # <<>> /\ Victims(b, l, t, n) = {Head(b.order)}
    BY <1>2 DEF Victims
  <2>2. DropOldest(b) \in Buffer /\ Head(b.order) \in Tensors
    BY <2>1, DropOldestType
  <2>3. Installed(b, l, t, n) = Put(DropOldest(b), t, n)
    BY <1>2 DEF Installed
  <2>4. \A u \in Tensors : /\ Holds(b, u) /\ u # Head(b.order) => Holds(DropOldest(b), u)
                           /\ Holds(DropOldest(b), u) => Holds(b, u)
    BY <2>1, DropOldestHolds
  <2>5. Holds(b, Head(b.order))
    <3>1. b.order \in Seq(Tensors)
      BY DEF Buffer
    <3>2. 1 \in DOMAIN b.order /\ Head(b.order) = b.order[1]
      BY <2>1, <3>1
    <3> QED
      BY <3>2 DEF Holds, Range
  <2> QED
    BY <2>1, <2>2, <2>3, <2>4, <2>5, PutType, PutHolds
<1> QED
  BY <1>1, <1>2

------------------------------------------------------------------------------
(* Type correctness *)

\* An install into a fast buffer keeps the types.
LEMMA InstallInFastBufferType ==
  ASSUME TypeOK, NEW c \in Cores, NEW l \in PerCore, NEW t \in Tensors, NEW n \in Nat,
         InstallInFastBuffer(c, l, t, n)
  PROVE  /\ resident' \in [Tensors -> Levels]
         /\ fast' \in [Cores -> [PerCore -> Buffer]]
         /\ buffered' \subseteq Cores
         /\ pool' \in [ChipPools -> Buffer]
<1>1. l \in Levels /\ fast[c][l] \in Buffer
  BY LevelsAssumption DEF TypeOK
<1>2. Installed(fast[c][l], l, t, n) \in Buffer
  BY <1>1, InstalledBuffer
<1>3. fast' = [fast EXCEPT ![c] = [fast[c] EXCEPT ![l] = Installed(fast[c][l], l, t, n)]]
  BY DEF InstallInFastBuffer, TypeOK
<1>4. fast' \in [Cores -> [PerCore -> Buffer]]
  BY <1>2, <1>3 DEF TypeOK
<1>5. resident' \in [Tensors -> Levels]
  BY <1>1, HomeAndCore DEF InstallInFastBuffer, ResidentAfter, TypeOK
<1> QED
  BY <1>4, <1>5 DEF InstallInFastBuffer, TypeOK

\* So does a move to a chip-wide level.
LEMMA MoveToChipLevelType ==
  ASSUME TypeOK, NEW l \in Levels, NEW t \in Tensors, NEW n \in Nat,
         MoveToChipLevel(l, t, n)
  PROVE  /\ resident' \in [Tensors -> Levels]
         /\ fast' \in [Cores -> [PerCore -> Buffer]]
         /\ buffered' \subseteq Cores
         /\ pool' \in [ChipPools -> Buffer]
<1>1. resident' \in [Tensors -> Levels]
  BY DEF MoveToChipLevel, TypeOK
<1>2. ASSUME l \in ChipPools
      PROVE  [pool EXCEPT ![l] = Put(@, t, n)] \in [ChipPools -> Buffer]
  <2>1. Put(pool[l], t, n) \in Buffer
    BY <1>2, PutType DEF TypeOK
  <2> QED
    BY <2>1, <1>2 DEF TypeOK
<1>3. pool' \in [ChipPools -> Buffer]
  BY <1>2 DEF MoveToChipLevel, TypeOK
<1> QED
  BY <1>1, <1>3 DEF MoveToChipLevel, TypeOK

\* And the installation of a home.
LEMMA InstallHomeType ==
  ASSUME TypeOK, NEW t \in Tensors, NEW chosen, InstallHome(t, chosen)
  PROVE  /\ resident' \in [Tensors -> Levels]
         /\ fast' \in [Cores -> [PerCore -> Buffer]]
         /\ buffered' \subseteq Cores
         /\ pool' \in [ChipPools -> Buffer]
<1>1. CASE Home[t] \in PerCore /\ InstallInFastBuffer(CoreOf(t), Home[t], t, TensorBytes[t])
  <2>1. TensorBytes[t] \in Nat
    BY TensorsAssumption
  <2> QED
    BY <1>1, <2>1, HomeAndCore, InstallInFastBufferType
<1>2. CASE /\ Home[t] \in ChipPools
           /\ pool' = [pool EXCEPT ![Home[t]] = Put(@, t, TensorBytes[t])]
           /\ UNCHANGED <<resident, fast, buffered>>
  <2>1. Put(pool[Home[t]], t, TensorBytes[t]) \in Buffer
    BY <1>2, PutType, TensorsAssumption DEF TypeOK
  <2> QED
    BY <1>2, <2>1 DEF TypeOK
<1>3. CASE UNCHANGED <<resident, fast, buffered, pool>>
  BY <1>3 DEF TypeOK
<1> QED
  BY <1>1, <1>2, <1>3 DEF InstallHome

\* The initial state has the types.
LEMMA TypeInit == Init => TypeOK
<1> SUFFICES ASSUME Init PROVE TypeOK
  OBVIOUS
<1>1. resident \in [Tensors -> Levels]
  BY LevelsAssumption DEF Init
<1> QED
  BY <1>1, EmptyBufferType, TensorsAssumption DEF Init, TypeOK

\* Every step keeps the types.
LEMMA TypeNext == TypeOK /\ [Next]_vars => TypeOK'
<1> SUFFICES ASSUME TypeOK, [Next]_vars PROVE TypeOK'
  OBVIOUS
<1>1. CASE SeedHome
  <2>1. Head(seeding) \in Tensors /\ Tail(seeding) \in Seq(Tensors)
    BY <1>1 DEF SeedHome, TypeOK
  <2> QED
    BY <1>1, <2>1, InstallHomeType DEF SeedHome, TypeOK
<1>2. CASE BootstrapHome
  <2>1. Head(booting) \in Tensors /\ Tail(booting) \in Seq(Tensors)
    BY <1>2 DEF BootstrapHome, TypeOK
  <2> QED
    BY <1>2, <2>1, InstallHomeType DEF BootstrapHome, TypeOK
<1>3. ASSUME NEW a \in Accesses, AccessInPlace(a)
      PROVE  TypeOK'
  BY <1>3 DEF AccessInPlace, vars, TypeOK
<1>4. ASSUME NEW a \in Accesses, AccessMoves(a)
      PROVE  TypeOK'
  <2>1. a.tensor \in Tensors /\ a.target \in Levels /\ a.bytes \in Nat /\ a.core \in Cores
    BY TraceAssumption DEF AccessEvent
  <2>2. CASE a.target \in PerCore /\ InstallInFastBuffer(a.core, a.target, a.tensor, a.bytes)
    BY <1>4, <2>1, <2>2, InstallInFastBufferType DEF AccessMoves, TypeOK
  <2>3. CASE MoveToChipLevel(a.target, a.tensor, a.bytes)
    BY <1>4, <2>1, <2>3, MoveToChipLevelType DEF AccessMoves, TypeOK
  <2> QED
    BY <1>4, <2>2, <2>3 DEF AccessMoves
<1>5. ASSUME NEW e \in KernelEnds, KernelEnd(e)
      PROVE  TypeOK'
  <2>1. resident' \in [Tensors -> Levels]
    BY <1>5, HomeAndCore DEF KernelEnd, ResidentAfterWipe, TypeOK
  <2>2. fast' \in [Cores -> [PerCore -> Buffer]]
    BY <1>5, EmptyBufferType DEF KernelEnd, TypeOK
  <2> QED
    BY <1>5, <2>1, <2>2 DEF KernelEnd, TypeOK
<1>6. CASE UNCHANGED vars
  BY <1>6 DEF vars, TypeOK
<1> QED
  BY <1>1, <1>2, <1>3, <1>4, <1>5, <1>6 DEF Next, Preinstall, Access

\* Whatever the trace, the tables of the simulator keep their types: every
\* tensor is resident in a level and every buffer is a dictionary of tensors.
THEOREM TypeCorrect == Spec => []TypeOK
  BY TypeInit, TypeNext, PTL DEF Spec

------------------------------------------------------------------------------
(* Reservations *)

\* A chip-wide home that kernels do not wipe has been reserved, or one of the two
\* loops has still to come to it.
HomesReservedInv ==
  \A t \in Tensors :
    Home[t] \in ChipPools \ WipeLevels =>
      \/ Holds(pool[Home[t]], t)
      \/ Seeded(t) /\ t \in Range(seeding)
      \/ Bootstrapped(t) /\ t \in Range(booting)

\* A pool that takes a tensor keeps the others.
LEMMA PoolsKeep ==
  ASSUME TypeOK, NEW l \in ChipPools, NEW t \in Tensors, NEW n \in Nat,
         pool' = [pool EXCEPT ![l] = Put(@, t, n)]
  PROVE  /\ \A k \in ChipPools, u \in Tensors : Holds(pool[k], u) => Holds(pool'[k], u)
         /\ Holds(pool'[l], t)
<1>1. pool'[l] = Put(pool[l], t, n) /\ \A k \in ChipPools \ {l} : pool'[k] = pool[k]
  BY DEF TypeOK
<1>2. pool[l] \in Buffer
  BY DEF TypeOK
<1> QED
  BY <1>1, <1>2, PutHolds

\* Installing a home reserves it if it was chosen, and keeps the reservations.
LEMMA InstallHomeKeeps ==
  ASSUME TypeOK, NEW t \in Tensors, NEW chosen, InstallHome(t, chosen)
  PROVE  /\ \A k \in ChipPools, u \in Tensors : Holds(pool[k], u) => Holds(pool'[k], u)
         /\ chosen /\ Home[t] \in ChipPools => Holds(pool'[Home[t]], t)
<1>1. CASE /\ chosen /\ Home[t] \in ChipPools
           /\ pool' = [pool EXCEPT ![Home[t]] = Put(@, t, TensorBytes[t])]
  BY <1>1, PoolsKeep, TensorsAssumption
<1>2. CASE chosen /\ Home[t] \in PerCore /\ pool' = pool
  BY <1>2 DEF ChipPools
<1>3. CASE ~chosen /\ pool' = pool
  BY <1>3
<1> QED
  BY <1>1, <1>2, <1>3 DEF InstallHome, InstallInFastBuffer

\* Before the loops every home is still to come.
LEMMA HomesReservedInit == Init => HomesReservedInv
<1> SUFFICES ASSUME Init, NEW t \in Tensors, Home[t] \in ChipPools \ WipeLevels
             PROVE  \/ Seeded(t) /\ t \in Range(seeding)
                    \/ Bootstrapped(t) /\ t \in Range(booting)
  BY DEF HomesReservedInv
<1>1. t \in Range(seeding) /\ t \in Range(booting)
  BY TensorsAssumption DEF Init
<1>2. Seeded(t) \/ Bootstrapped(t)
  BY DEF Seeded, Bootstrapped, ChipPools
<1> QED
  BY <1>1, <1>2

\* A home is installed when its turn comes, and never leaves its pool.
LEMMA HomesReservedNext ==
  TypeOK /\ HomesReservedInv /\ [Next]_vars => HomesReservedInv'
<1> SUFFICES ASSUME TypeOK, HomesReservedInv, [Next]_vars PROVE HomesReservedInv'
  OBVIOUS
<1>1. CASE SeedHome
  <2>1. Head(seeding) \in Tensors /\ seeding \in Seq(Tensors) /\ seeding # <<>>
    BY <1>1 DEF SeedHome, TypeOK
  <2>2. \A t \in Range(seeding) : t = Head(seeding) \/ t \in Range(seeding')
    BY <1>1, <2>1, TailRange DEF SeedHome
  <2>3. /\ \A k \in ChipPools, u \in Tensors : Holds(pool[k], u) => Holds(pool'[k], u)
        /\ Seeded(Head(seeding)) /\ Home[Head(seeding)] \in ChipPools
             => Holds(pool'[Home[Head(seeding)]], Head(seeding))
    BY <1>1, <2>1, InstallHomeKeeps DEF SeedHome
  <2>4. booting' = booting
    BY <1>1 DEF SeedHome
  <2> QED
    BY <2>2, <2>3, <2>4 DEF HomesReservedInv, Seeded, Bootstrapped
<1>2. CASE BootstrapHome
  <2>1. Head(booting) \in Tensors /\ booting \in Seq(Tensors) /\ booting # <<>>
    BY <1>2 DEF BootstrapHome, TypeOK
  <2>2. \A t \in Range(booting) : t = Head(booting) \/ t \in Range(booting')
    BY <1>2, <2>1, TailRange DEF BootstrapHome
  <2>3. /\ \A k \in ChipPools, u \in Tensors : Holds(pool[k], u) => Holds(pool'[k], u)
        /\ Bootstrapped(Head(booting)) /\ Home[Head(booting)] \in ChipPools
             => Holds(pool'[Home[Head(booting)]], Head(booting))
    BY <1>2, <2>1, InstallHomeKeeps DEF BootstrapHome
  <2>4. seeding' = seeding
    BY <1>2 DEF BootstrapHome
  <2> QED
    BY <2>2, <2>3, <2>4 DEF HomesReservedInv, Seeded, Bootstrapped
<1>3. ASSUME NEW a \in Accesses, AccessMoves(a)
      PROVE  HomesReservedInv'
  <2>1. a.tensor \in Tensors /\ a.target \in Levels /\ a.bytes \in Nat
    BY TraceAssumption DEF AccessEvent
  <2>2. \/ pool' = pool
        \/ /\ a.target \in ChipPools
           /\ pool' = [pool EXCEPT ![a.target] = Put(@, a.tensor, a.bytes)]
    BY <1>3 DEF AccessMoves, InstallInFastBuffer, MoveToChipLevel
  <2>3. \A k \in ChipPools, u \in Tensors : Holds(pool[k], u) => Holds(pool'[k], u)
    BY <2>1, <2>2, PoolsKeep
  <2>4. seeding' = seeding /\ booting' = booting
    BY <1>3 DEF AccessMoves
  <2> QED
    BY <2>3, <2>4 DEF HomesReservedInv, Seeded, Bootstrapped
<1>4. ASSUME UNCHANGED <<pool, seeding, booting>>
      PROVE  HomesReservedInv'
  BY <1>4 DEF HomesReservedInv, Seeded, Bootstrapped
<1> QED
  BY <1>1, <1>2, <1>3, <1>4 DEF Next, Preinstall, Access, AccessInPlace, KernelEnd, vars

\* Whatever the trace stages into the pools, a tensor homed in one keeps its
\* reservation there from the first event on.
THEOREM HomesStayReserved == Spec => []HomesReserved
<1>1. HomesReservedInv => HomesReserved
  <2>1. \A t : t \notin Range(<<>>)
    BY DEF Range
  <2> QED
    BY <2>1 DEF HomesReservedInv, HomesReserved, Loaded
<1> QED
  BY <1>1, HomesReservedInit, HomesReservedNext, TypeCorrect, PTL DEF Spec

------------------------------------------------------------------------------
(* Byte counts *)

\* A trace has finitely many tensors: they are listed.
LEMMA TensorsFinite == IsFiniteSet(Tensors)
<1>1. TensorOrder \in Seq(Tensors) /\ Range(TensorOrder) = Tensors
  BY TensorsAssumption
<1>2. DOMAIN TensorOrder = 1..Len(TensorOrder) /\ Len(TensorOrder) \in Nat
  BY <1>1
<1>3. IsFiniteSet(DOMAIN TensorOrder)
  BY <1>2, FS_Interval
<1>4. TensorOrder \in Surjection(DOMAIN TensorOrder, Tensors)
  BY <1>1, <1>2 DEF Surjection, Range
<1> QED
  BY <1>3, <1>4, FS_Surjection

\* The occupants of a buffer are finitely many tensors.
LEMMA OccupantsFinite ==
  ASSUME NEW b \in Buffer
  PROVE  Range(b.order) \subseteq Tensors /\ IsFiniteSet(Range(b.order))
<1>1. Range(b.order) \subseteq Tensors
  BY DEF Buffer, Range
<1> QED
  BY <1>1, TensorsFinite, FS_Subset

\* The occupants after an install, and after the oldest is dropped.
LEMMA OccupantsAfter ==
  ASSUME NEW b \in Buffer, Distinct(b)
  PROVE  /\ \A t \in Tensors, n \in Nat : Range(Put(b, t, n).order) = Range(b.order) \cup {t}
         /\ b.order # <<>> => /\ Head(b.order) \in Range(b.order)
                              /\ Range(DropOldest(b).order) = Range(b.order) \ {Head(b.order)}
<1>1. ASSUME NEW t \in Tensors, NEW n \in Nat
      PROVE  Range(Put(b, t, n).order) = Range(b.order) \cup {t}
  <2>1. Range(Put(b, t, n).order) \subseteq Tensors /\ Range(b.order) \subseteq Tensors
    BY PutType, OccupantsFinite
  <2>2. \A u \in Tensors :
          u \in Range(Put(b, t, n).order) <=> u = t \/ u \in Range(b.order)
    BY PutHolds DEF Holds
  <2> QED
    BY <2>1, <2>2
<1>2. ASSUME b.order # <<>>
      PROVE  /\ Head(b.order) \in Range(b.order)
             /\ Range(DropOldest(b).order) = Range(b.order) \ {Head(b.order)}
  <2>1. b.order \in Seq(Tensors) /\ DropOldest(b).order = Tail(b.order)
    BY DEF Buffer, DropOldest
  <2>2. 1 \in DOMAIN b.order /\ Head(b.order) = b.order[1]
    BY <1>2, <2>1
  <2>3. \A u : /\ u \in Range(b.order) /\ u # Head(b.order) => u \in Range(Tail(b.order))
               /\ u \in Range(Tail(b.order)) => u \in Range(b.order)
    BY <1>2, <2>1, TailRange
  <2>4. Head(b.order) \notin Range(Tail(b.order))
    BY <1>2, <2>1, DropOldestDistinct DEF Holds
  <2>5. Head(b.order) \in Range(b.order)
    BY <2>2 DEF Range
  <2> QED
    BY <2>1, <2>3, <2>4, <2>5
<1> QED
  BY <1>1, <1>2

\* An empty buffer balances.
LEMMA EmptyBufferBalances == BooksBalance(EmptyBuffer)
<1>1. Range(EmptyBuffer.order) = {} /\ EmptyBuffer.used = 0
  BY DEF EmptyBuffer, Range
<1> QED
  BY <1>1, EmptyBufferDistinct, SumEmpty DEF BooksBalance, Distinct

\* install counts the newcomer's bytes, or what an occupant's size changes by.
LEMMA PutBalances ==
  ASSUME NEW b \in Buffer, NEW t \in Tensors, NEW n \in Nat, BooksBalance(b)
  PROVE  BooksBalance(Put(b, t, n))
<1> DEFINE old == Range(b.order)
           size == [b.size EXCEPT ![t] = n]
<1>1. /\ old \subseteq Tensors /\ IsFiniteSet(old)
      /\ Range(Put(b, t, n).order) = old \cup {t}
      /\ IsInjective(Put(b, t, n).order)
  BY OccupantsFinite, OccupantsAfter, PutDistinct DEF BooksBalance, Distinct
<1>2. /\ b.size \in [Tensors -> Nat] /\ size[t] = n
      /\ \A u \in Tensors : size[u] \in Nat /\ b.size[u] \in Nat
      /\ \A u \in Tensors \ {t} : size[u] = b.size[u]
  BY DEF Buffer
<1>3. SumFunctionOnSet(size, old \cup {t})
        = b.used + n - (IF t \in old THEN b.size[t] ELSE 0)
  <2>1. b.used = SumFunctionOnSet(b.size, old) /\ b.used \in Int
    BY DEF BooksBalance, Buffer
  <2>2. CASE t \in old
    <3>1. old \cup {t} = old
      BY <2>2
    <3>2. SumFunctionOnSet(size, old) = SumFunctionOnSet(b.size, old) + size[t] - b.size[t]
      <4> HIDE DEF size
      <4> QED
        BY <1>1, <1>2, <2>2, SumUpdate
    <3> QED
      BY <1>2, <2>1, <2>2, <3>1, <3>2
  <2>3. CASE t \notin old
    <3>1. SumFunctionOnSet(size, old) = SumFunctionOnSet(b.size, old)
      <4> HIDE DEF size
      <4> QED
        BY <1>1, <1>2, <2>3, SumSame
    <3>2. SumFunctionOnSet(size, old \cup {t}) = size[t] + SumFunctionOnSet(size, old)
      <4>1. \A u \in old \cup {t} : size[u] \in Int
        BY <1>1, <1>2
      <4> HIDE DEF size, old
      <4> QED
        BY <1>1, <2>3, <4>1, SumInsert
    <3> QED
      BY <1>2, <2>1, <2>3, <3>1, <3>2
  <2> QED
    BY <2>2, <2>3
<1> QED
  BY <1>1, <1>3 DEF BooksBalance, Put, Holds

\* An evicted occupant's bytes are given back.
LEMMA DropOldestBalances ==
  ASSUME NEW b \in Buffer, b.order # <<>>, BooksBalance(b)
  PROVE  BooksBalance(DropOldest(b))
<1> DEFINE old == Range(b.order)
           h == Head(b.order)
           size == [b.size EXCEPT ![h] = 0]
<1>1. /\ old \subseteq Tensors /\ IsFiniteSet(old) /\ h \in old /\ IsFiniteSet(old \ {h})
      /\ Range(DropOldest(b).order) = old \ {h}
      /\ IsInjective(DropOldest(b).order)
  BY OccupantsFinite, OccupantsAfter, DropOldestDistinct, FS_Subset DEF BooksBalance, Distinct
<1>2. /\ \A u \in Tensors : b.size[u] \in Nat
      /\ \A u \in Tensors \ {h} : size[u] = b.size[u]
      /\ b.used \in Int
  BY DEF Buffer
<1>3. b.used = b.size[h] + SumFunctionOnSet(b.size, old \ {h})
  BY <1>1, <1>2, SumRemove DEF BooksBalance
<1>4. SumFunctionOnSet(size, old \ {h}) = SumFunctionOnSet(b.size, old \ {h})
  <2> HIDE DEF size
  <2> QED
    BY <1>1, <1>2, SumSame
<1>5. SumFunctionOnSet(b.size, old \ {h}) \in Int
  BY <1>1, <1>2, SumInt
<1>6. DropOldest(b).used = b.used - b.size[h] /\ DropOldest(b).size = size
  BY DEF DropOldest
<1>7. b.size[h] \in Int
  BY <1>1, <1>2
<1> HIDE DEF size, h, old
<1> QED
  BY <1>1, <1>2, <1>3, <1>4, <1>5, <1>6, <1>7 DEF BooksBalance

\* An install into a fast buffer balances, eviction included.
LEMMA InstalledBalances ==
  ASSUME NEW b \in Buffer, NEW l \in Levels, NEW t \in Tensors, NEW n \in Nat, BooksBalance(b)
  PROVE  BooksBalance(Installed(b, l, t, n))
<1>1. CASE Victims(b, l, t, n) = {}
  BY <1>1, PutBalances DEF Installed
<1>2. CASE Victims(b, l, t, n) # {}
  <2>1. b.order # <<>>
    BY <1>2 DEF Victims
  <2>2. DropOldest(b) \in Buffer /\ BooksBalance(DropOldest(b))
    BY <2>1, DropOldestType, DropOldestBalances
  <2> QED
    BY <1>2, <2>2, PutBalances DEF Installed
<1> QED
  BY <1>1, <1>2

------------------------------------------------------------------------------
(* What every buffer keeps, whatever the trace *)

\* The sizes an install of t may have: its own, or what an access of it moves.
SizesOf(t) == {TensorBytes[t]} \cup {a.bytes : a \in {b \in Accesses : b.tensor = t}}

\* Sizes are numbers, and accesses move bytes of their tensors.
LEMMA SizesAreNat ==
  /\ \A t \in Tensors : SizesOf(t) \subseteq Nat /\ TensorBytes[t] \in SizesOf(t)
  /\ \A a \in Accesses : a.tensor \in Tensors /\ a.bytes \in SizesOf(a.tensor)
  BY TensorsAssumption, TraceAssumption DEF SizesOf, AccessEvent

\* A set of buffers for each core and level that holds the wiped buffer, if the level is
\* wiped, and that no install leaves, is left by no fast buffer.
LEMMA FastBuffersStay ==
  ASSUME NEW F, TypeOK, [Next]_vars,
         \A c \in Cores, l \in PerCore : fast[c][l] \in F[c][l],
         \A c \in Cores, l \in PerCore \cap WipeLevels : EmptyBuffer \in F[c][l],
         \A c \in Cores, l \in PerCore : \A b \in F[c][l] \cap Buffer :
           \A t \in Tensors : \A n \in SizesOf(t) : Installed(b, l, t, n) \in F[c][l]
  PROVE  \A c \in Cores, l \in PerCore : fast'[c][l] \in F[c][l]
<1>1. ASSUME NEW d \in Cores, NEW k \in PerCore, NEW t \in Tensors, NEW n \in SizesOf(t),
             InstallInFastBuffer(d, k, t, n)
      PROVE  \A c \in Cores, l \in PerCore : fast'[c][l] \in F[c][l]
  <2>1. fast \in [Cores -> [PerCore -> Buffer]]
    BY DEF TypeOK
  <2>2. fast' = [fast EXCEPT ![d][k] = Installed(@, k, t, n)]
    BY <1>1 DEF InstallInFastBuffer
  <2>3. \A c \in Cores, l \in PerCore :
          fast'[c][l] = IF c = d /\ l = k THEN Installed(fast[d][k], k, t, n) ELSE fast[c][l]
    BY <2>1, <2>2
  <2>4. fast[d][k] \in F[d][k] \cap Buffer
    BY <2>1
  <2> QED
    BY <2>3, <2>4
<1>2. ASSUME NEW t \in Tensors, NEW chosen, InstallHome(t, chosen)
      PROVE  \A c \in Cores, l \in PerCore : fast'[c][l] \in F[c][l]
  <2>1. CASE Home[t] \in PerCore /\ InstallInFastBuffer(CoreOf(t), Home[t], t, TensorBytes[t])
    BY <1>1, <2>1, HomeAndCore, SizesAreNat
  <2>2. CASE fast' = fast
    BY <2>2
  <2> QED
    BY <1>2, <2>1, <2>2 DEF InstallHome
<1>3. CASE SeedHome
  <2>1. Head(seeding) \in Tensors
    BY <1>3 DEF SeedHome, TypeOK
  <2> QED
    BY <1>2, <1>3, <2>1 DEF SeedHome
<1>4. CASE BootstrapHome
  <2>1. Head(booting) \in Tensors
    BY <1>4 DEF BootstrapHome, TypeOK
  <2> QED
    BY <1>2, <1>4, <2>1 DEF BootstrapHome
<1>5. ASSUME NEW a \in Accesses, AccessMoves(a)
      PROVE  \A c \in Cores, l \in PerCore : fast'[c][l] \in F[c][l]
  <2>1. a.tensor \in Tensors /\ a.bytes \in SizesOf(a.tensor) /\ a.core \in Cores
    BY SizesAreNat, TraceAssumption DEF AccessEvent
  <2>2. CASE a.target \in PerCore /\ InstallInFastBuffer(a.core, a.target, a.tensor, a.bytes)
    BY <1>1, <2>1, <2>2
  <2>3. CASE MoveToChipLevel(a.target, a.tensor, a.bytes)
    BY <2>3 DEF MoveToChipLevel
  <2> QED
    BY <1>5, <2>2, <2>3 DEF AccessMoves
<1>6. ASSUME NEW e \in KernelEnds, KernelEnd(e)
      PROVE  \A c \in Cores, l \in PerCore : fast'[c][l] \in F[c][l]
  BY <1>6 DEF KernelEnd
<1>7. ASSUME UNCHANGED vars
      PROVE  \A c \in Cores, l \in PerCore : fast'[c][l] \in F[c][l]
  BY <1>7 DEF vars
<1> QED
  BY <1>3, <1>4, <1>5, <1>6, <1>7 DEF Next, Preinstall, Access, AccessInPlace

\* A loop comes to a tensor at home in the pool.
HomeArrives(l, t, n) ==
  /\ Home[t] = l /\ n = TensorBytes[t]
  /\ \/ /\ seeding # <<>> /\ t = Head(seeding) /\ Seeded(t)
        /\ seeding' = Tail(seeding) /\ booting' = booting
     \/ /\ seeding = <<>> /\ booting # <<>> /\ t = Head(booting) /\ Bootstrapped(t)
        /\ booting' = Tail(booting) /\ seeding' = seeding

\* An access stages a tensor that fits in the pool, or is there already.
MoveArrives(l, t, n) ==
  /\ Loaded
  /\ CanFit(pool[l], Capacity[l], n) \/ Holds(pool[l], t)
  /\ \E a \in Accesses : t = a.tensor /\ n = a.bytes

PoolStep(l) ==
  \/ pool'[l] = pool[l]
  \/ \E t \in Tensors : \E n \in SizesOf(t) :
       pool'[l] = Put(pool[l], t, n) /\ (HomeArrives(l, t, n) \/ MoveArrives(l, t, n))

\* A pool changes in no other way.
LEMMA PoolSteps ==
  ASSUME TypeOK, [Next]_vars, NEW l \in ChipPools
  PROVE  PoolStep(l)
<1>1. ASSUME NEW t \in Tensors, NEW chosen, InstallHome(t, chosen)
      PROVE  \/ pool'[l] = pool[l]
             \/ chosen /\ Home[t] = l /\ pool'[l] = Put(pool[l], t, TensorBytes[t])
  BY <1>1 DEF InstallHome, InstallInFastBuffer, TypeOK
<1>2. CASE SeedHome
  <2>1. Head(seeding) \in Tensors
    BY <1>2 DEF SeedHome, TypeOK
  <2> QED
    BY <1>1, <1>2, <2>1, SizesAreNat DEF SeedHome, PoolStep, HomeArrives
<1>3. CASE BootstrapHome
  <2>1. Head(booting) \in Tensors
    BY <1>3 DEF BootstrapHome, TypeOK
  <2> QED
    BY <1>1, <1>3, <2>1, SizesAreNat DEF BootstrapHome, PoolStep, HomeArrives
<1>4. ASSUME NEW a \in Accesses, AccessMoves(a)
      PROVE  PoolStep(l)
  <2>1. CASE a.target \in PerCore /\ InstallInFastBuffer(a.core, a.target, a.tensor, a.bytes)
    BY <2>1 DEF InstallInFastBuffer, PoolStep
  <2>2. CASE MoveToChipLevel(a.target, a.tensor, a.bytes) /\ pool'[l] # pool[l]
    <3>1. /\ pool'[l] = Put(pool[l], a.tensor, a.bytes)
          /\ CanFit(pool[l], Capacity[l], a.bytes) \/ Holds(pool[l], a.tensor)
      BY <2>2 DEF MoveToChipLevel, TypeOK
    <3>2. a.tensor \in Tensors /\ a.bytes \in SizesOf(a.tensor) /\ Loaded
      BY <1>4, SizesAreNat DEF AccessMoves
    <3> QED
      BY <3>1, <3>2 DEF PoolStep, MoveArrives
  <2> QED
    BY <1>4, <2>1, <2>2 DEF AccessMoves, PoolStep
<1>5. CASE UNCHANGED pool
  BY <1>5 DEF PoolStep
<1> QED
  BY <1>2, <1>3, <1>4, <1>5 DEF Next, Preinstall, Access, AccessInPlace, KernelEnd, vars

------------------------------------------------------------------------------
(* The byte counts balance *)

\* Empty buffers balance.
LEMMA BytesBalanceInit == Init => BytesBalance
  BY EmptyBufferBalances DEF Init, BytesBalance

\* Every step keeps the counts with the occupants.
LEMMA BytesBalanceNext == TypeOK /\ BytesBalance /\ [Next]_vars => BytesBalance'
<1> SUFFICES ASSUME TypeOK, BytesBalance, [Next]_vars PROVE BytesBalance'
  OBVIOUS
<1> DEFINE F == [c \in Cores |-> [l \in PerCore |-> {b \in Buffer : BooksBalance(b)}]]
<1>1. \A c \in Cores, l \in PerCore : fast[c][l] \in F[c][l]
  BY DEF TypeOK, BytesBalance
<1>2. \A c \in Cores, l \in PerCore \cap WipeLevels : EmptyBuffer \in F[c][l]
  BY EmptyBufferType, EmptyBufferBalances
<1>3. ASSUME NEW c \in Cores, NEW l \in PerCore, NEW b \in F[c][l], NEW t \in Tensors,
             NEW n \in SizesOf(t)
      PROVE  Installed(b, l, t, n) \in F[c][l]
  <2>1. b \in Buffer /\ BooksBalance(b) /\ l \in Levels /\ n \in Nat
    BY LevelsAssumption, SizesAreNat
  <2> QED
    BY <2>1, InstalledBuffer, InstalledBalances
<1> HIDE DEF F
<1>4. \A c \in Cores, l \in PerCore : fast'[c][l] \in F[c][l]
  BY <1>1, <1>2, <1>3, FastBuffersStay
<1>5. ASSUME NEW l \in ChipPools PROVE BooksBalance(pool'[l])
  <2>1. pool[l] \in Buffer /\ BooksBalance(pool[l])
    BY DEF TypeOK, BytesBalance
  <2>2. \A t \in Tensors : \A n \in SizesOf(t) : BooksBalance(Put(pool[l], t, n))
    BY <2>1, SizesAreNat, PutBalances
  <2>3. PoolStep(l)
    BY PoolSteps
  <2> QED
    BY <2>1, <2>2, <2>3 DEF PoolStep
<1> QED
  BY <1>4, <1>5 DEF BytesBalance, F

\* Whatever resizes, evictions and wipes the trace brings, the running byte count of
\* every buffer and pool is the sum over its distinct occupants.
THEOREM ByteCountsBalance == Spec => []BytesBalance
  BY TypeCorrect, BytesBalanceInit, BytesBalanceNext, PTL DEF Spec

------------------------------------------------------------------------------
(* The byte counts stay within capacity *)

\* Placement reserves the homes of every pool (_spill_over_capacity_homes).
HomesFitPools ==
  \A l \in ChipPools :
    SumFunctionOnSet(TensorBytes, {t \in Tensors : Home[t] = l}) <= Capacity[l]

\* Tensors and accesses are whole tiles of one size, and a tile fits in a fast buffer.
OneTile(n) ==
  /\ n \in Nat
  /\ \A t \in Tensors : SizesOf(t) = {n}
  /\ \A l \in PerCore : n <= Capacity[l]

\* A pool holds whole tensors within its capacity, and until the trace begins it
\* holds homes only.
PoolWithin(l) ==
  /\ BooksBalance(pool[l])
  /\ pool[l].used <= Capacity[l]
  /\ \A t \in Range(pool[l].order) : pool[l].size[t] = TensorBytes[t]
  /\ ~Loaded => \A t \in Range(pool[l].order) : Home[t] = l

PoolsWithin == \A l \in ChipPools : PoolWithin(l)

\* Once the trace has begun, it has begun.
LEMMA LoadedStays ==
  ASSUME TypeOK, [Next]_vars, Loaded
  PROVE  Loaded'
  BY DEF Next, Preinstall, SeedHome, BootstrapHome, Access, AccessInPlace, AccessMoves,
         KernelEnd, Loaded, vars

\* Empty pools are within their capacity.
LEMMA PoolsWithinInit == Init => PoolsWithin
<1> SUFFICES ASSUME Init, NEW l \in ChipPools PROVE PoolWithin(l)
  BY DEF PoolsWithin
<1>1. pool[l] = EmptyBuffer
  BY DEF Init
<1>2. Capacity[l] \in Nat
  BY LevelsAssumption DEF ChipPools
<1>3. Range(EmptyBuffer.order) = {} /\ EmptyBuffer.used = 0
  BY DEF EmptyBuffer, Range
<1> QED
  BY <1>1, <1>2, <1>3, EmptyBufferBalances DEF PoolWithin

\* Homes fit, and what else enters a pool is let in only where there is room.
LEMMA PoolsWithinNext ==
  ASSUME HomesFitPools, WholeTensorTrace, TypeOK, PoolsWithin, [Next]_vars
  PROVE  PoolsWithin'
<1> SUFFICES ASSUME NEW l \in ChipPools PROVE PoolWithin(l)'
  BY DEF PoolsWithin
<1>1. PoolWithin(l) /\ PoolStep(l) /\ pool[l] \in Buffer
  BY PoolSteps DEF PoolsWithin, TypeOK
<1>2. CASE pool'[l] = pool[l]
  BY <1>1, <1>2, LoadedStays DEF PoolWithin
<1>3. ASSUME NEW t \in Tensors, NEW n \in SizesOf(t), pool'[l] = Put(pool[l], t, n),
             HomeArrives(l, t, n) \/ MoveArrives(l, t, n)
      PROVE  PoolWithin(l)'
  <2> DEFINE b == pool[l]
             q == Put(b, t, n)
  <2>1. n = TensorBytes[t] /\ n \in Nat
    BY <1>3, SizesAreNat DEF HomeArrives, MoveArrives, WholeTensorTrace
  <2>2. q \in Buffer /\ BooksBalance(q) /\ Range(q.order) = Range(b.order) \cup {t}
    BY <1>1, <2>1, PutType, PutBalances, OccupantsAfter DEF PoolWithin, BooksBalance, Distinct
  <2>3. /\ Range(b.order) \subseteq Tensors /\ Range(q.order) \subseteq Tensors
        /\ IsFiniteSet(Range(q.order))
    BY <1>1, <2>2, OccupantsFinite
  <2>4. /\ b.size \in [Tensors -> Nat] /\ b.used \in Int /\ Capacity[l] \in Nat
        /\ q.size = [b.size EXCEPT ![t] = n]
        /\ q.used = b.used + n - (IF Holds(b, t) THEN b.size[t] ELSE 0)
    BY <1>1, LevelsAssumption DEF Buffer, Put, ChipPools
  <2>5. \A u \in Range(q.order) : q.size[u] = TensorBytes[u]
    BY <1>1, <2>1, <2>2, <2>3, <2>4 DEF PoolWithin
  <2>6. CASE HomeArrives(l, t, n)
    <3> DEFINE homes == {u \in Tensors : Home[u] = l}
    <3>1. ~Loaded /\ Home[t] = l
      BY <2>6 DEF HomeArrives, Loaded
    <3>2. \A u \in Range(q.order) : Home[u] = l
      BY <1>1, <2>2, <3>1 DEF PoolWithin
    <3>3. Range(q.order) \in SUBSET homes /\ IsFiniteSet(homes)
      BY <2>3, <3>2, TensorsFinite, FS_Subset
    <3>4. q.used = SumFunctionOnSet(TensorBytes, Range(q.order))
      <4>1. q.used = SumFunctionOnSet(q.size, Range(q.order))
        BY <2>2 DEF BooksBalance
      <4>2. SumFunctionOnSet(q.size, Range(q.order))
              = SumFunctionOnSet(TensorBytes, Range(q.order))
        BY <2>3, <2>5, SumSame
      <4> QED
        BY <4>1, <4>2
    <3>5. \A u \in homes : TensorBytes[u] \in Nat
      BY TensorsAssumption
    <3>6. SumFunctionOnSet(TensorBytes, Range(q.order)) <= SumFunctionOnSet(TensorBytes, homes)
      BY <3>3, <3>5, SumSubset
    <3>7. SumFunctionOnSet(TensorBytes, homes) <= Capacity[l]
      BY DEF HomesFitPools
    <3>8. SumFunctionOnSet(TensorBytes, homes) \in Int /\ q.used \in Int
      BY <2>2, <3>3, <3>5, SumInt DEF Buffer
    <3>9. q.used <= Capacity[l]
      BY <2>4, <3>4, <3>6, <3>7, <3>8
    <3> QED
      BY <1>3, <2>2, <2>5, <3>2, <3>9 DEF PoolWithin
  <2>7. CASE MoveArrives(l, t, n)
    <3>1. Loaded /\ Loaded'
      BY <2>7, LoadedStays DEF MoveArrives
    <3>2. Holds(b, t) => b.size[t] = n
      BY <1>1, <2>1 DEF PoolWithin, Holds
    <3>3. b.used <= Capacity[l]
      BY <1>1 DEF PoolWithin
    <3>4. CanFit(b, Capacity[l], n) \/ Holds(b, t)
      BY <2>7 DEF MoveArrives
    <3>5. q.used <= Capacity[l]
      BY <2>1, <2>4, <3>2, <3>3, <3>4 DEF CanFit
    <3> QED
      BY <1>3, <2>2, <2>5, <3>1, <3>5 DEF PoolWithin
  <2> QED
    BY <1>3, <2>6, <2>7
<1> QED
  BY <1>1, <1>2, <1>3 DEF PoolStep

\* sim/README: "placement spill reserves capacity up front".  If the homes fit and
\* accesses move whole tensors, no pool is ever filled beyond its capacity, although
\* pools never evict.
THEOREM PoolsNeverOverfull ==
  ASSUME HomesFitPools, WholeTensorTrace
  PROVE  Spec => [](\A l \in ChipPools : pool[l].used <= Capacity[l])
<1>1. PoolsWithin => \A l \in ChipPools : pool[l].used <= Capacity[l]
  BY DEF PoolsWithin, PoolWithin
<1>2. TypeOK /\ PoolsWithin /\ [Next]_vars => PoolsWithin'
  BY PoolsWithinNext
<1> QED
  BY <1>1, <1>2, PoolsWithinInit, TypeCorrect, PTL DEF Spec

\* Buffers of tiles of size n, filled to at most the given capacity.
Tiled(n, capacity) ==
  {b \in Buffer : /\ BooksBalance(b)
                  /\ b.used <= capacity
                  /\ \A t \in Range(b.order) : b.size[t] = n}

\* With tiles of one size, the one occupant that is evicted makes the room.
LEMMA InstalledTiled ==
  ASSUME NEW l \in Levels, NEW t \in Tensors, NEW n \in Nat, n <= Capacity[l],
         NEW b \in Tiled(n, Capacity[l])
  PROVE  Installed(b, l, t, n) \in Tiled(n, Capacity[l])
<1> DEFINE q == Installed(b, l, t, n)
<1>1. /\ b \in Buffer /\ BooksBalance(b) /\ b.used <= Capacity[l] /\ Distinct(b)
      /\ \A u \in Range(b.order) : b.size[u] = n
      /\ Range(b.order) \subseteq Tensors
  BY OccupantsFinite DEF Tiled, BooksBalance, Distinct
<1>2. /\ b.size \in [Tensors -> Nat] /\ b.used \in Int /\ Capacity[l] \in Nat
      /\ b.order = <<>> => b.used = 0
  <2>1. b.order = <<>> => Range(b.order) = {}
    BY DEF Range
  <2> QED
    BY <1>1, <2>1, SumEmpty, LevelsAssumption DEF Buffer, BooksBalance
<1>3. q \in Buffer /\ BooksBalance(q)
  BY <1>1, InstalledBuffer, InstalledBalances
<1>4. ASSUME Victims(b, l, t, n) = {}
      PROVE  q \in Tiled(n, Capacity[l])
  <2>1. q = Put(b, t, n) /\ Range(q.order) = Range(b.order) \cup {t}
    BY <1>1, <1>4, OccupantsAfter DEF Installed
  <2>2. q.size = [b.size EXCEPT ![t] = n]
    BY <2>1 DEF Put
  <2>3. \A u \in Range(q.order) : q.size[u] = n
    BY <1>1, <1>2, <2>1, <2>2
  <2>4. Holds(b, t) \/ b.used + n <= Capacity[l] \/ b.order = <<>>
    <3>1. ~(~Holds(b, t) /\ b.used + n > Capacity[l] /\ b.order # <<>>)
      BY <1>4 DEF Victims
    <3> QED
      BY <1>2, <3>1
  <2>5. q.used = b.used + n - (IF Holds(b, t) THEN b.size[t] ELSE 0)
    BY <2>1 DEF Put
  <2>6. Holds(b, t) => b.size[t] = n
    BY <1>1 DEF Holds
  <2>7. q.used <= Capacity[l]
    BY <1>1, <1>2, <2>4, <2>5, <2>6
  <2> HIDE DEF q
  <2> QED
    BY <1>3, <2>3, <2>7 DEF Tiled
<1>5. ASSUME Victims(b, l, t, n) # {}
      PROVE  q \in Tiled(n, Capacity[l])
  <2> DEFINE d == DropOldest(b)
             h == Head(b.order)
  <2>1. b.order # <<>> /\ ~Holds(b, t) /\ q = Put(d, t, n)
    BY <1>5 DEF Victims, Installed
  <2>2. /\ d \in Buffer /\ Distinct(d)
        /\ h \in Range(b.order) /\ Range(d.order) = Range(b.order) \ {h}
    BY <1>1, <2>1, DropOldestType, DropOldestDistinct, OccupantsAfter
  <2>3. d.size = [b.size EXCEPT ![h] = 0] /\ d.used = b.used - b.size[h]
    BY DEF DropOldest
  <2>4. /\ Range(q.order) = Range(d.order) \cup {t}
        /\ q.size = [d.size EXCEPT ![t] = n]
        /\ q.used = d.used + n - (IF Holds(d, t) THEN d.size[t] ELSE 0)
    <3> HIDE DEF d, q
    <3>1. Range(q.order) = Range(d.order) \cup {t}
      BY <2>1, <2>2, OccupantsAfter
    <3> QED
      BY <2>1, <3>1 DEF Put
  <2>5. ~Holds(d, t)
    BY <2>1, <2>2 DEF Holds
  <2>6. b.size[h] = n
    BY <1>1, <2>2
  <2>7. q.used <= Capacity[l]
    <3> HIDE DEF d, q
    <3> QED
      BY <1>1, <1>2, <2>3, <2>4, <2>5, <2>6
  <2>8. \A u \in Range(q.order) : q.size[u] = n
    <3> HIDE DEF d, q, h
    <3> QED
      BY <1>1, <1>2, <2>2, <2>3, <2>4
  <2> HIDE DEF q
  <2> QED
    BY <1>3, <2>7, <2>8 DEF Tiled
<1> QED
  BY <1>4, <1>5

\* Every fast buffer holds tiles within its capacity.
FastTiled(n) ==
  \A c \in Cores, l \in PerCore : fast[c][l] \in Tiled(n, Capacity[l])

\* An empty buffer holds no tile.
LEMMA EmptyTiled ==
  ASSUME NEW l \in Levels, NEW n
  PROVE  EmptyBuffer \in Tiled(n, Capacity[l])
<1>1. Capacity[l] \in Nat
  BY LevelsAssumption
<1>2. Range(EmptyBuffer.order) = {} /\ EmptyBuffer.used = 0
  BY DEF EmptyBuffer, Range
<1> QED
  BY <1>1, <1>2, EmptyBufferType, EmptyBufferBalances DEF Tiled

\* A fast buffer that lets a tile in has evicted one, unless there was room.
LEMMA FastTiledNext ==
  ASSUME NEW n, OneTile(n), TypeOK, FastTiled(n), [Next]_vars
  PROVE  FastTiled(n)'
<1> DEFINE F == [c \in Cores |-> [l \in PerCore |-> Tiled(n, Capacity[l])]]
<1>1. \A c \in Cores, l \in PerCore : fast[c][l] \in F[c][l]
  BY DEF FastTiled
<1>2. \A c \in Cores, l \in PerCore \cap WipeLevels : EmptyBuffer \in F[c][l]
  BY EmptyTiled, LevelsAssumption
<1>3. ASSUME NEW c \in Cores, NEW l \in PerCore, NEW b \in F[c][l], NEW t \in Tensors,
             NEW k \in SizesOf(t)
      PROVE  Installed(b, l, t, k) \in F[c][l]
  <2>1. k = n /\ n \in Nat /\ n <= Capacity[l] /\ l \in Levels
    BY LevelsAssumption DEF OneTile
  <2> QED
    BY <2>1, InstalledTiled
<1> HIDE DEF F
<1>4. \A c \in Cores, l \in PerCore : fast'[c][l] \in F[c][l]
  BY <1>1, <1>2, <1>3, FastBuffersStay
<1> QED
  BY <1>4 DEF FastTiled, F

\* If moreover everything is a whole tile of one size, evicting one occupant is
\* always enough: no fast buffer is ever filled beyond its capacity either.
THEOREM NeverOverfull ==
  ASSUME HomesFitPools, NEW n, OneTile(n)
  PROVE  Spec => []WithinCapacity
<1>1. WholeTensorTrace
  BY SizesAreNat DEF OneTile, WholeTensorTrace
<1>2. Init => FastTiled(n)
  BY EmptyTiled, LevelsAssumption DEF Init, FastTiled
<1>3. TypeOK /\ FastTiled(n) /\ [Next]_vars => FastTiled(n)'
  BY FastTiledNext
<1>4. FastTiled(n) => \A c \in Cores, l \in PerCore : fast[c][l].used <= Capacity[l]
  BY DEF FastTiled, Tiled
<1>5. Spec => [](\A l \in ChipPools : pool[l].used <= Capacity[l])
  BY <1>1, PoolsNeverOverfull
<1>6. FastTiled(n) /\ (\A l \in ChipPools : pool[l].used <= Capacity[l]) => WithinCapacity
  BY <1>4 DEF WithinCapacity
<1> QED
  BY <1>2, <1>3, <1>5, <1>6, TypeCorrect, PTL DEF Spec

------------------------------------------------------------------------------
(* Scratch, for traces whose accesses run on the tensors' own cores. *)

\* Occupants are on their own core, and that core is one that has buffers.
OnOwnCore ==
  \A c \in Cores, l \in PerCore, t \in Tensors :
    Holds(fast[c][l], t) => c = CoreOf(t) /\ c \in buffered

\* Before the first event every tensor is at home.
StartsAtHome == ~Loaded => resident = Home

ScratchInv == ScratchBacked /\ OnOwnCore /\ StartsAtHome

\* What an install into a fast buffer of the tensor's own core does to the buffers.
LEMMA InstallKeepsScratch ==
  ASSUME TypeOK, HomesPersist, ScratchIsPerCore, ScratchBacked, OnOwnCore,
         NEW t \in Tensors, NEW l \in PerCore, NEW n \in Nat,
         InstallInFastBuffer(CoreOf(t), l, t, n)
  PROVE  ScratchBacked' /\ OnOwnCore'
<1> DEFINE c == CoreOf(t)
           b == fast[c][l]
<1>1. c \in Cores /\ l \in Levels /\ b \in Buffer
  BY HomeAndCore, LevelsAssumption DEF TypeOK
<1>2. fast'[c][l] = Installed(b, l, t, n)
  BY <1>1 DEF InstallInFastBuffer, TypeOK
<1>3. \A d \in Cores, k \in PerCore : <<d, k>> # <<c, l>> => fast'[d][k] = fast[d][k]
  BY <1>1 DEF InstallInFastBuffer, TypeOK
<1>4. resident' = ResidentAfter(Victims(b, l, t, n), t, l) /\ buffered' = buffered \cup {c}
  BY DEF InstallInFastBuffer
<1>5. /\ Holds(fast'[c][l], t)
      /\ \A u \in Tensors \ Victims(b, l, t, n) : Holds(b, u) => Holds(fast'[c][l], u)
      /\ \A u \in Tensors \ {t} : Holds(fast'[c][l], u) => Holds(b, u)
  BY <1>1, <1>2, InstalledBuffer
<1>6. ScratchBacked'
  <2> SUFFICES ASSUME NEW u \in Tensors, resident'[u] \in WipeLevels
               PROVE  Holds(fast'[CoreOf(u)][resident'[u]], u)
    BY DEF ScratchBacked, CoreOf
  <2>1. CASE u = t
    <3>1. resident'[u] = l
      BY <1>4, <2>1 DEF ResidentAfter
    <3> QED
      BY <1>5, <2>1, <3>1
  <2>2. CASE u # t
    <3>1. u \notin Victims(b, l, t, n)
      BY <1>4, <2>2 DEF ResidentAfter, HomesPersist
    <3>2. resident'[u] = resident[u]
      BY <1>4, <2>2, <3>1 DEF ResidentAfter
    <3>3. Holds(fast[CoreOf(u)][resident[u]], u)
      BY <3>2 DEF ScratchBacked
    <3>4. CoreOf(u) \in Cores /\ resident[u] \in PerCore
      BY <3>2, HomeAndCore DEF ScratchIsPerCore
    <3> QED
      BY <1>3, <1>5, <3>1, <3>2, <3>3, <3>4
  <2> QED
    BY <2>1, <2>2
<1>7. OnOwnCore'
  <2> SUFFICES ASSUME NEW d \in Cores, NEW k \in PerCore, NEW u \in Tensors,
                      Holds(fast'[d][k], u)
               PROVE  d = CoreOf(u) /\ d \in buffered'
    BY DEF OnOwnCore, CoreOf
  <2>1. CASE u = t /\ d = c
    BY <1>4, <2>1
  <2>2. CASE ~(u = t /\ d = c /\ k = l)
    <3>1. Holds(fast[d][k], u)
      BY <1>3, <1>5, <2>2
    <3> QED
      BY <1>4, <3>1 DEF OnOwnCore
  <2> QED
    BY <2>1, <2>2
<1> QED
  BY <1>6, <1>7

\* So does the installation of a home.
LEMMA InstallHomeKeepsScratch ==
  ASSUME TypeOK, HomesPersist, ScratchIsPerCore, ScratchInv, ~Loaded,
         NEW t \in Tensors, NEW chosen, InstallHome(t, chosen)
  PROVE  ScratchBacked' /\ OnOwnCore' /\ resident' = Home
<1>1. CASE /\ Home[t] \in PerCore
           /\ InstallInFastBuffer(CoreOf(t), Home[t], t, TensorBytes[t])
  <2>1. ScratchBacked' /\ OnOwnCore'
    BY <1>1, InstallKeepsScratch, TensorsAssumption DEF ScratchInv
  <2>2. resident = Home /\ DOMAIN Home = Tensors
    BY LevelsAssumption DEF ScratchInv, StartsAtHome
  <2>3. resident' = [u \in Tensors |-> Home[u]]
    BY <1>1, <2>2 DEF InstallInFastBuffer, ResidentAfter
  <2> QED
    BY <2>1, <2>2, <2>3, LevelsAssumption
<1>2. CASE UNCHANGED <<resident, fast, buffered>>
  BY <1>2 DEF ScratchInv, ScratchBacked, OnOwnCore, StartsAtHome
<1> QED
  BY <1>1, <1>2 DEF InstallHome

\* At first everything is at home and nothing in scratch.
LEMMA ScratchInit == HomesPersist /\ Init => ScratchInv
<1> SUFFICES ASSUME HomesPersist, Init PROVE ScratchInv
  OBVIOUS
<1>1. ScratchBacked
  BY DEF Init, HomesPersist, ScratchBacked
<1>2. OnOwnCore
  BY EmptyBufferType DEF Init, OnOwnCore
<1> QED
  BY <1>1, <1>2 DEF Init, ScratchInv, StartsAtHome

\* Loads, evictions, flushes and wipes keep what is taken for resident backed.
LEMMA ScratchNext ==
  ASSUME HomesPersist, ScratchIsPerCore, HomeCoreTrace, TypeOK, ScratchInv, [Next]_vars
  PROVE  ScratchInv'
<1>1. CASE SeedHome
  <2>1. Head(seeding) \in Tensors /\ ~Loaded
    BY <1>1 DEF SeedHome, Loaded, TypeOK
  <2> QED
    BY <1>1, <2>1, InstallHomeKeepsScratch DEF SeedHome, ScratchInv, StartsAtHome
<1>2. CASE BootstrapHome
  <2>1. Head(booting) \in Tensors /\ ~Loaded
    BY <1>2 DEF BootstrapHome, Loaded, TypeOK
  <2> QED
    BY <1>2, <2>1, InstallHomeKeepsScratch DEF BootstrapHome, ScratchInv, StartsAtHome
<1>3. ASSUME NEW a \in Accesses, AccessMoves(a)
      PROVE  ScratchInv'
  <2>1. /\ a.tensor \in Tensors /\ a.target \in Levels /\ a.bytes \in Nat
        /\ a.core = CoreOf(a.tensor)
    BY TraceAssumption DEF AccessEvent, HomeCoreTrace
  <2>2. StartsAtHome'
    BY <1>3 DEF AccessMoves, Loaded, StartsAtHome
  <2>3. CASE a.target \in PerCore /\ InstallInFastBuffer(a.core, a.target, a.tensor, a.bytes)
    BY <2>1, <2>2, <2>3, InstallKeepsScratch DEF ScratchInv
  <2>4. CASE a.target \notin PerCore /\ MoveToChipLevel(a.target, a.tensor, a.bytes)
    <3>1. /\ fast' = fast /\ buffered' = buffered
          /\ \A u \in Tensors : resident'[u] = IF u = a.tensor THEN a.target ELSE resident[u]
      BY <2>4 DEF MoveToChipLevel, TypeOK
    <3>2. ScratchBacked'
      BY <2>4, <3>1 DEF ScratchInv, ScratchBacked, ScratchIsPerCore, CoreOf
    <3>3. OnOwnCore'
      BY <3>1 DEF ScratchInv, OnOwnCore, CoreOf
    <3> QED
      BY <2>2, <3>2, <3>3 DEF ScratchInv
  <2> QED
    BY <1>3, <2>3, <2>4 DEF AccessMoves
<1>4. ASSUME NEW e \in KernelEnds, KernelEnd(e)
      PROVE  ScratchInv'
  <2>1. ScratchBacked'
    <3> SUFFICES ASSUME NEW t \in Tensors, resident'[t] \in WipeLevels
                 PROVE  Holds(fast'[CoreOf(t)][resident'[t]], t)
      BY DEF ScratchBacked, CoreOf
    <3>1. resident'[t] = resident[t] /\ CoreOf(t) \notin WipedCores(e)
      BY <1>4 DEF KernelEnd, ResidentAfterWipe, HomesPersist
    <3>2. CoreOf(t) \in Cores /\ resident[t] \in PerCore
      BY <3>1, HomeAndCore DEF ScratchIsPerCore
    <3>3. fast'[CoreOf(t)][resident[t]] = fast[CoreOf(t)][resident[t]]
      BY <1>4, <3>1, <3>2 DEF KernelEnd
    <3> QED
      BY <3>1, <3>3 DEF ScratchInv, ScratchBacked
  <2>2. OnOwnCore'
    <3> SUFFICES ASSUME NEW c \in Cores, NEW l \in PerCore, NEW t \in Tensors,
                        Holds(fast'[c][l], t)
                 PROVE  c = CoreOf(t) /\ c \in buffered
      BY <1>4 DEF OnOwnCore, CoreOf, KernelEnd
    <3>1. fast'[c][l] = fast[c][l]
      BY <1>4, EmptyBufferType DEF KernelEnd
    <3> QED
      BY <3>1 DEF ScratchInv, OnOwnCore
  <2>3. StartsAtHome'
    BY <1>4 DEF KernelEnd, Loaded, StartsAtHome
  <2> QED
    BY <2>1, <2>2, <2>3 DEF ScratchInv
<1>5. CASE UNCHANGED vars
  BY <1>5 DEF vars, ScratchInv, ScratchBacked, OnOwnCore, StartsAtHome, Loaded, CoreOf
<1> QED
  BY <1>1, <1>2, <1>3, <1>4, <1>5 DEF Next, Preinstall, Access, AccessInPlace

\* ScratchInv is an invariant of such traces.
LEMMA ScratchInvariant ==
  ASSUME HomesPersist, ScratchIsPerCore, HomeCoreTrace
  PROVE  Spec => []ScratchInv
<1>1. Init => ScratchInv
  BY ScratchInit
<1>2. TypeOK /\ ScratchInv /\ [Next]_vars => ScratchInv'
  BY ScratchNext
<1> QED
  BY <1>1, <1>2, TypeCorrect, PTL DEF Spec

\* On the tensors' own cores, a tensor taken for resident in scratch is an occupant
\* of that buffer, in every hierarchy that wipes per-core scratch only and homes
\* nothing there.
THEOREM ScratchIsBacked ==
  ASSUME HomesPersist, ScratchIsPerCore, HomeCoreTrace
  PROVE  Spec => []ScratchBacked
<1>1. ScratchInv => ScratchBacked
  BY DEF ScratchInv
<1> QED
  BY <1>1, ScratchInvariant, PTL

------------------------------------------------------------------------------
(* Kernel ends *)

\* The cores that a chip-wide kernel end wipes are those of all scratch residents.
LEMMA ChipWipe ==
  ASSUME ScratchIsPerCore, TypeOK, ScratchInv, NEW t \in Tensors, resident[t] \in WipeLevels
  PROVE  CoreOf(t) \in WipedCores(NoCore)
<1>1. Holds(fast[CoreOf(t)][resident[t]], t) /\ resident[t] \in PerCore
  BY DEF ScratchInv, ScratchBacked, ScratchIsPerCore
<1>2. CoreOf(t) \in buffered
  BY <1>1, HomeAndCore DEF ScratchInv, OnOwnCore
<1> QED
  BY <1>2 DEF WipedCores

\* On the tensors' own cores a chip-wide kernel end leaves nothing resident in
\* scratch: a kernel end without a core id misses no core that matters.
THEOREM ChipWipeIsComplete ==
  ASSUME HomesPersist, ScratchIsPerCore, HomeCoreTrace
  PROVE  Spec => ChipWipeResets
<1>1. ASSUME TypeOK, ScratchInv, KernelEnd(NoCore), NEW t \in Tensors
      PROVE  resident'[t] \notin WipeLevels
  <2>1. resident'[t] = IF CoreOf(t) \in WipedCores(NoCore) /\ resident[t] \in WipeLevels
                       THEN Home[t] ELSE resident[t]
    BY <1>1 DEF KernelEnd, ResidentAfterWipe
  <2> QED
    BY <1>1, <2>1, ChipWipe DEF HomesPersist
<1>2. TypeOK /\ ScratchInv =>
        [KernelEnd(NoCore) => \A t \in Tensors : resident'[t] \notin WipeLevels]_vars
  BY <1>1
<1> QED
  BY <1>2, TypeCorrect, ScratchInvariant, PTL DEF ChipWipeResets

------------------------------------------------------------------------------
(* Residency implements ScratchCache: on traces that stay on the tensors'  *)
(* own cores and move them into no other fast buffer, every step of the    *)
(* tables is a load, a leave or a wipe of the abstract cache, or a stutter.*)

\* No buffer ever has two entries for one tensor.
DistinctOccupants == \A c \in Cores, l \in PerCore : Distinct(fast[c][l])

\* An install keeps the occupants distinct, and the evicted one is gone.
LEMMA InstalledDistinct ==
  ASSUME NEW b \in Buffer, NEW l \in Levels, NEW t \in Tensors, NEW n \in Nat, Distinct(b)
  PROVE  /\ Distinct(Installed(b, l, t, n))
         /\ \A u \in Victims(b, l, t, n) : u # t /\ ~Holds(Installed(b, l, t, n), u)
<1>1. CASE Victims(b, l, t, n) = {}
  BY <1>1, PutDistinct DEF Installed
<1>2. CASE Victims(b, l, t, n) # {}
  <2>1. b.order # <<>> /\ Victims(b, l, t, n) = {Head(b.order)} /\ ~Holds(b, t)
    BY <1>2 DEF Victims
  <2>2. DropOldest(b) \in Buffer /\ Head(b.order) \in Tensors
    BY <2>1, DropOldestType
  <2>3. Distinct(DropOldest(b)) /\ ~Holds(DropOldest(b), Head(b.order))
    BY <2>1, DropOldestDistinct
  <2>4. Installed(b, l, t, n) = Put(DropOldest(b), t, n)
    BY <1>2 DEF Installed
  <2>5. Head(b.order) # t
    BY <2>1, InstalledBuffer
  <2> QED
    BY <2>1, <2>2, <2>3, <2>4, <2>5, PutDistinct, PutHolds
<1> QED
  BY <1>1, <1>2

\* An install lists the tensor once.
LEMMA InstallDistinct ==
  ASSUME TypeOK, DistinctOccupants, NEW c \in Cores, NEW l \in PerCore,
         NEW t \in Tensors, NEW n \in Nat, InstallInFastBuffer(c, l, t, n)
  PROVE  DistinctOccupants'
<1>1. l \in Levels /\ fast[c][l] \in Buffer /\ Distinct(fast[c][l])
  BY LevelsAssumption DEF TypeOK, DistinctOccupants
<1>2. Distinct(Installed(fast[c][l], l, t, n))
  BY <1>1, InstalledDistinct
<1>3. /\ fast'[c][l] = Installed(fast[c][l], l, t, n)
      /\ \A d \in Cores, k \in PerCore : <<d, k>> # <<c, l>> => fast'[d][k] = fast[d][k]
  BY DEF InstallInFastBuffer, TypeOK
<1> QED
  BY <1>2, <1>3 DEF DistinctOccupants

\* No buffer ever lists a tensor twice.
LEMMA DistinctInvariant == Spec => []DistinctOccupants
<1>1. Init => DistinctOccupants
  BY EmptyBufferDistinct DEF Init, DistinctOccupants
<1>2. ASSUME TypeOK, DistinctOccupants, [Next]_vars
      PROVE  DistinctOccupants'
  <2>1. ASSUME NEW t \in Tensors, NEW chosen, InstallHome(t, chosen)
        PROVE  DistinctOccupants'
    <3>1. CASE /\ Home[t] \in PerCore
               /\ InstallInFastBuffer(CoreOf(t), Home[t], t, TensorBytes[t])
      BY <1>2, <3>1, InstallDistinct, HomeAndCore, TensorsAssumption
    <3>2. CASE UNCHANGED fast
      BY <1>2, <3>2 DEF DistinctOccupants
    <3> QED
      BY <2>1, <3>1, <3>2 DEF InstallHome
  <2>2. CASE SeedHome
    <3>1. Head(seeding) \in Tensors
      BY <1>2, <2>2 DEF SeedHome, TypeOK
    <3> QED
      BY <2>1, <2>2, <3>1 DEF SeedHome
  <2>3. CASE BootstrapHome
    <3>1. Head(booting) \in Tensors
      BY <1>2, <2>3 DEF BootstrapHome, TypeOK
    <3> QED
      BY <2>1, <2>3, <3>1 DEF BootstrapHome
  <2>4. ASSUME NEW a \in Accesses, AccessMoves(a)
        PROVE  DistinctOccupants'
    <3>1. a.tensor \in Tensors /\ a.bytes \in Nat /\ a.core \in Cores
      BY TraceAssumption DEF AccessEvent
    <3>2. CASE a.target \in PerCore /\ InstallInFastBuffer(a.core, a.target, a.tensor, a.bytes)
      BY <1>2, <3>1, <3>2, InstallDistinct
    <3>3. CASE MoveToChipLevel(a.target, a.tensor, a.bytes)
      BY <1>2, <3>3 DEF MoveToChipLevel, DistinctOccupants
    <3> QED
      BY <2>4, <3>2, <3>3 DEF AccessMoves
  <2>5. ASSUME NEW e \in KernelEnds, KernelEnd(e)
        PROVE  DistinctOccupants'
    BY <1>2, <2>5, EmptyBufferDistinct DEF KernelEnd, DistinctOccupants
  <2>6. CASE UNCHANGED fast
    BY <1>2, <2>6 DEF DistinctOccupants
  <2> QED
    BY <1>2, <2>2, <2>3, <2>4, <2>5, <2>6 DEF Next, Preinstall, Access, AccessInPlace, vars
<1> QED
  BY <1>1, <1>2, TypeCorrect, PTL DEF Spec

------------------------------------------------------------------------------
(* The refinement *)

\* What a move does to the residents of scratch: only the moved tensor and the
\* victims of its arrival change.
LEMMA ResidentAfterInScratch ==
  ASSUME TypeOK, HomesPersist, DefaultIsScratch, NEW t \in Tensors, NEW l \in Levels,
         NEW victims \in SUBSET Tensors, resident' = ResidentAfter(victims, t, l)
  PROVE  InScratch' = IF l = DefaultTarget
                      THEN (InScratch \ victims) \cup {t}
                      ELSE InScratch \ (victims \cup {t})
<1>1. \A u \in Tensors : resident'[u] = IF u = t THEN l
                                        ELSE IF u \in victims THEN Home[u] ELSE resident[u]
  BY DEF ResidentAfter
<1>2. \A u \in Tensors : Home[u] # DefaultTarget
  BY DEF HomesPersist, DefaultIsScratch
<1>3. ASSUME NEW u \in Tensors
      PROVE  u \in InScratch' <=> resident'[u] = DefaultTarget
  BY DEF InScratch
<1>4. ASSUME NEW u \in Tensors
      PROVE  u \in InScratch <=> resident[u] = DefaultTarget
  BY DEF InScratch
<1>5. InScratch \subseteq Tensors /\ InScratch' \subseteq Tensors
  BY DEF InScratch
<1> QED
  BY <1>1, <1>2, <1>3, <1>4, <1>5

\* A load: the tensor arrives, and at most one of its own core goes.
LEMMA LoadRefines ==
  ASSUME TypeOK, ScratchInv, DistinctOccupants, HomesPersist, ScratchIsPerCore, DefaultIsScratch,
         NEW t \in Tensors, NEW n \in Nat, t \notin InScratch,
         InstallInFastBuffer(CoreOf(t), DefaultTarget, t, n)
  PROVE  Cache!Load(t)
<1> DEFINE b == fast[CoreOf(t)][DefaultTarget]
           victims == Victims(b, DefaultTarget, t, n)
<1>1. DefaultTarget \in PerCore /\ DefaultTarget \in Levels /\ CoreOf(t) \in Cores
  BY HomeAndCore, LevelsAssumption DEF DefaultIsScratch, ScratchIsPerCore
<1>2. b \in Buffer /\ Distinct(b)
  BY <1>1 DEF TypeOK, DistinctOccupants
<1>3. /\ victims \subseteq Tensors
      /\ Holds(Installed(b, DefaultTarget, t, n), t)
      /\ \A u \in Tensors \ victims : Holds(b, u) => Holds(Installed(b, DefaultTarget, t, n), u)
      /\ \A u \in Tensors \ {t} : Holds(Installed(b, DefaultTarget, t, n), u) => Holds(b, u)
      /\ \A u \in victims : Holds(b, u)
  BY <1>1, <1>2, InstalledBuffer
<1>4. \A u \in victims : u # t /\ ~Holds(Installed(b, DefaultTarget, t, n), u)
  BY <1>1, <1>2, InstalledDistinct
<1>5. \A u \in victims : CoreOf(u) = CoreOf(t)
  BY <1>1, <1>3 DEF ScratchInv, OnOwnCore
<1>6. InScratch' = (InScratch \ victims) \cup {t}
  BY <1>1, <1>3, ResidentAfterInScratch DEF InstallInFastBuffer
<1>7. StoredInScratch' = (StoredInScratch \ victims) \cup {t}
  <2>1. \A c \in Cores : fast'[c][DefaultTarget] =
          IF c = CoreOf(t) THEN Installed(b, DefaultTarget, t, n) ELSE fast[c][DefaultTarget]
    BY <1>1 DEF InstallInFastBuffer, TypeOK
  <2>2. ASSUME NEW u \in Tensors
        PROVE  u \in StoredInScratch' <=> u \in (StoredInScratch \ victims) \cup {t}
    <3>1. CoreOf(u) \in Cores
      BY HomeAndCore
    <3>2. u \in StoredInScratch' <=> Holds(fast'[CoreOf(u)][DefaultTarget], u)
      BY DEF StoredInScratch, CoreOf
    <3>3. u \in StoredInScratch <=> Holds(fast[CoreOf(u)][DefaultTarget], u)
      BY DEF StoredInScratch
    <3>4. CASE CoreOf(u) = CoreOf(t)
      BY <1>3, <1>4, <2>1, <3>1, <3>2, <3>3, <3>4
    <3>5. CASE CoreOf(u) # CoreOf(t)
      BY <1>5, <2>1, <3>1, <3>2, <3>3, <3>5
    <3> QED
      BY <3>4, <3>5
  <2>3. StoredInScratch' \subseteq Tensors /\ StoredInScratch \subseteq Tensors
    BY DEF StoredInScratch
  <2> QED
    BY <2>2, <2>3
<1>8. CASE victims = {}
  <2>1. Cache!Replace({}, t)
    BY <1>6, <1>7, <1>8 DEF Cache!Replace
  <2> QED
    BY <2>1 DEF Cache!Load
<1>9. CASE victims # {}
  <2>1. PICK u \in victims : TRUE
    BY <1>9
  <2>2. victims = {u}
    BY <2>1 DEF Victims
  <2>3. u \in Tensors /\ CoreOf(u) = CoreOf(t) /\ u # t /\ Holds(b, u)
    BY <1>3, <1>4, <1>5, <2>1
  <2>4. u \in (StoredInScratch \ {t}) \cap Cache!OwnedBy({[v \in Tensors |-> CoreOf(v)][t]})
    BY <2>3 DEF Cache!OwnedBy, StoredInScratch
  <2>5. Cache!Replace({u}, t)
    BY <1>6, <1>7, <2>2 DEF Cache!Replace
  <2> QED
    BY <2>4, <2>5 DEF Cache!Load
<1> QED
  BY <1>8, <1>9

\* An access moves its tensor into scratch, out of it, or past it.
LEMMA AccessRefines ==
  ASSUME TypeOK, ScratchInv, DistinctOccupants, HomesPersist, ScratchIsPerCore,
         DefaultIsScratch, HomeCoreTrace, ScratchOnlyTrace, NEW a \in Accesses, AccessMoves(a)
  PROVE  [Cache!Next]_(Cache!cacheVars)
<1>1. /\ a.tensor \in Tensors /\ a.target \in Levels /\ a.bytes \in Nat
      /\ a.core = CoreOf(a.tensor)
  BY TraceAssumption DEF AccessEvent, HomeCoreTrace
<1>2. CASE a.target \in PerCore /\ InstallInFastBuffer(a.core, a.target, a.tensor, a.bytes)
  <2>1. a.target = DefaultTarget
    BY <1>2 DEF ScratchOnlyTrace
  <2>2. a.tensor \notin InScratch
    BY <2>1 DEF AccessMoves, StaysInPlace, Source, DefaultIsScratch, InScratch
  <2>3. Cache!Load(a.tensor)
    BY <1>1, <1>2, <2>1, <2>2, LoadRefines
  <2> QED
    BY <1>1, <2>3 DEF Cache!Next
<1>3. CASE a.target \notin PerCore /\ MoveToChipLevel(a.target, a.tensor, a.bytes)
  <2>1. a.target # DefaultTarget
    BY <1>3 DEF DefaultIsScratch, ScratchIsPerCore
  <2>2. resident' = ResidentAfter({}, a.tensor, a.target)
    BY <1>1, <1>3 DEF MoveToChipLevel, ResidentAfter, TypeOK
  <2>3. InScratch' = InScratch \ {a.tensor}
    BY <1>1, <2>1, <2>2, ResidentAfterInScratch
  <2>4. StoredInScratch' = StoredInScratch
    BY <1>3 DEF MoveToChipLevel, StoredInScratch, CoreOf
  <2>5. CASE a.tensor \in InScratch
    <3>1. Cache!Leave(a.tensor)
      BY <2>3, <2>4, <2>5 DEF Cache!Leave
    <3> QED
      BY <1>1, <3>1 DEF Cache!Next
  <2>6. CASE a.tensor \notin InScratch
    BY <2>3, <2>4, <2>6 DEF Cache!cacheVars
  <2> QED
    BY <2>5, <2>6
<1> QED
  BY <1>2, <1>3 DEF AccessMoves

\* What a kernel end leaves in scratch: the tensors of the cores it does not wipe.
LEMMA KernelEndLeaves ==
  ASSUME TypeOK, HomesPersist, ScratchIsPerCore, DefaultIsScratch,
         NEW e \in KernelEnds, KernelEnd(e), NEW t \in Tensors
  PROVE  /\ t \in InScratch' <=> t \in InScratch /\ CoreOf(t) \notin WipedCores(e)
         /\ t \in StoredInScratch' <=> t \in StoredInScratch /\ CoreOf(t) \notin WipedCores(e)
<1>1. resident'[t] = IF CoreOf(t) \in WipedCores(e) /\ resident[t] \in WipeLevels
                     THEN Home[t] ELSE resident[t]
  BY DEF KernelEnd, ResidentAfterWipe
<1>2. CoreOf(t) \in Cores /\ DefaultTarget \in PerCore /\ DefaultTarget \in WipeLevels
  BY HomeAndCore DEF DefaultIsScratch, ScratchIsPerCore
<1>3. fast'[CoreOf(t)][DefaultTarget] = IF CoreOf(t) \in WipedCores(e) THEN EmptyBuffer
                                        ELSE fast[CoreOf(t)][DefaultTarget]
  BY <1>2 DEF KernelEnd
<1>4. t \in InScratch' <=> t \in InScratch /\ CoreOf(t) \notin WipedCores(e)
  BY <1>1, <1>2 DEF InScratch, HomesPersist
<1>5. t \in StoredInScratch' <=> Holds(fast'[CoreOf(t)][DefaultTarget], t)
  BY DEF StoredInScratch, CoreOf
<1>6. t \in StoredInScratch <=> Holds(fast[CoreOf(t)][DefaultTarget], t)
  BY DEF StoredInScratch
<1>7. ~Holds(EmptyBuffer, t)
  BY EmptyBufferType
<1> QED
  BY <1>3, <1>4, <1>5, <1>6, <1>7

\* A kernel end wipes the cache of its core, or of the whole chip.
LEMMA KernelEndRefines ==
  ASSUME TypeOK, ScratchInv, HomesPersist, ScratchIsPerCore, DefaultIsScratch,
         NEW e \in KernelEnds, KernelEnd(e)
  PROVE  Cache!Next
<1>1. \A t \in Tensors :
        /\ t \in InScratch' <=> t \in InScratch /\ CoreOf(t) \notin WipedCores(e)
        /\ t \in StoredInScratch' <=> t \in StoredInScratch /\ CoreOf(t) \notin WipedCores(e)
  BY KernelEndLeaves
<1>2. /\ InScratch \subseteq Tensors /\ InScratch' \subseteq Tensors
      /\ StoredInScratch \subseteq Tensors /\ StoredInScratch' \subseteq Tensors
  BY DEF InScratch, StoredInScratch
<1>3. CASE e # NoCore
  <2>1. e \in Cores /\ WipedCores(e) = {e}
    BY <1>3, TraceAssumption DEF WipedCores
  <2>2. \A t \in Tensors : t \in Cache!OwnedBy({e}) <=> CoreOf(t) \in {e}
    BY DEF Cache!OwnedBy
  <2>3. Cache!Wipe({e})
    BY <1>1, <1>2, <2>1, <2>2 DEF Cache!Wipe
  <2> QED
    BY <2>1, <2>3 DEF Cache!Next
<1>4. CASE e = NoCore
  <2>1. \A t \in InScratch : CoreOf(t) \in WipedCores(e)
    BY <1>4, ChipWipe DEF InScratch, DefaultIsScratch
  <2>2. \A t \in StoredInScratch : CoreOf(t) \in WipedCores(e)
    <3>1. \A t \in StoredInScratch : CoreOf(t) \in buffered
      BY HomeAndCore
      DEF StoredInScratch, ScratchInv, OnOwnCore, DefaultIsScratch, ScratchIsPerCore
    <3> QED
      BY <1>4, <3>1 DEF WipedCores
  <2>3. InScratch' = {} /\ StoredInScratch' = {}
    BY <1>1, <1>2, <2>1, <2>2
  <2> QED
    BY <2>3 DEF Cache!Next, Cache!WipeChip
<1> QED
  BY <1>3, <1>4

\* Installing a home does not touch scratch.
LEMMA InstallHomeRefines ==
  ASSUME TypeOK, ScratchInv, HomesPersist, ScratchIsPerCore, DefaultIsScratch, ~Loaded,
         NEW t \in Tensors, NEW chosen, InstallHome(t, chosen)
  PROVE  UNCHANGED Cache!cacheVars
<1>1. InScratch' = InScratch
  <2>1. resident' = resident
    BY InstallHomeKeepsScratch DEF ScratchInv, StartsAtHome
  <2> QED
    BY <2>1 DEF InScratch
<1>2. \A c \in Cores : fast'[c][DefaultTarget] = fast[c][DefaultTarget]
  <2>1. Home[t] # DefaultTarget /\ DefaultTarget \in PerCore
    BY DEF HomesPersist, DefaultIsScratch, ScratchIsPerCore
  <2> QED
    BY <2>1, HomeAndCore DEF InstallHome, InstallInFastBuffer, TypeOK
<1>3. StoredInScratch' = StoredInScratch
  <2>1. \A u \in Tensors : CoreOf(u)' = CoreOf(u)
    BY DEF CoreOf
  <2> QED
    BY <1>2, <2>1, HomeAndCore DEF StoredInScratch
<1> QED
  BY <1>1, <1>3 DEF Cache!cacheVars

\* Every step of the tables is a step of the abstract cache, or none.
LEMMA StepRefines ==
  ASSUME TypeOK, ScratchInv, DistinctOccupants, HomesPersist, ScratchIsPerCore,
         DefaultIsScratch, HomeCoreTrace, ScratchOnlyTrace, [Next]_vars
  PROVE  [Cache!Next]_(Cache!cacheVars)
<1>1. CASE SeedHome
  <2>1. Head(seeding) \in Tensors /\ ~Loaded
    BY <1>1 DEF SeedHome, Loaded, TypeOK
  <2> QED
    BY <1>1, <2>1, InstallHomeRefines DEF SeedHome
<1>2. CASE BootstrapHome
  <2>1. Head(booting) \in Tensors /\ ~Loaded
    BY <1>2 DEF BootstrapHome, Loaded, TypeOK
  <2> QED
    BY <1>2, <2>1, InstallHomeRefines DEF BootstrapHome
<1>3. ASSUME NEW a \in Accesses, AccessMoves(a)
      PROVE  [Cache!Next]_(Cache!cacheVars)
  BY <1>3, AccessRefines
<1>4. ASSUME NEW e \in KernelEnds, KernelEnd(e)
      PROVE  [Cache!Next]_(Cache!cacheVars)
  BY <1>4, KernelEndRefines
<1>5. CASE UNCHANGED vars
  BY <1>5 DEF vars, InScratch, StoredInScratch, CoreOf, Cache!cacheVars
<1> QED
  BY <1>1, <1>2, <1>3, <1>4, <1>5 DEF Next, Preinstall, Access, AccessInPlace

\* The tables begin as an empty cache.
LEMMA InitRefines ==
  ASSUME HomesPersist, ScratchIsPerCore, DefaultIsScratch, Init
  PROVE  Cache!Init
<1>1. InScratch = {}
  BY DEF Init, HomesPersist, DefaultIsScratch, InScratch
<1>2. StoredInScratch = {}
  <2>1. \A t \in Tensors : fast[CoreOf(t)][DefaultTarget] = EmptyBuffer
    BY HomeAndCore DEF Init, DefaultIsScratch, ScratchIsPerCore
  <2> QED
    BY <2>1, EmptyBufferType DEF StoredInScratch
<1> QED
  BY <1>1, <1>2 DEF Cache!Init

\* The residency tables implement the scratch cache for every such hierarchy,
\* placement and trace: evictions and wipes take a tensor out of the residency
\* table and the buffer at once, and only ever on the core they belong to.
THEOREM ResidencyImplementsScratchCache ==
  ASSUME HomesPersist, ScratchIsPerCore, DefaultIsScratch, HomeCoreTrace, ScratchOnlyTrace
  PROVE  Spec => ImplementsScratchCache
<1>1. Init => Cache!Init
  BY InitRefines
<1>2. TypeOK /\ ScratchInv /\ DistinctOccupants /\ [Next]_vars
        => [Cache!Next]_(Cache!cacheVars)
  BY StepRefines
<1> QED
  BY <1>1, <1>2, TypeCorrect, ScratchInvariant, DistinctInvariant, PTL
  DEF Spec, ImplementsScratchCache, Cache!Spec
==============================================================================
