-------------------------------- MODULE Replay --------------------------------
(***************************************************************************)
(* build_retention_by_residency_replay (sim/placement_replay.py): placement *)
(* replays the trace with its own copy of the residency rules to rank the  *)
(* tensors of an over-full level by what homing them there saves.  Writes  *)
(* are skipped.  The pools it fills while bootstrapping are never read and *)
(* are left out.                                                           *)
(***************************************************************************)
EXTENDS Buffers, Costs

CONSTANTS
  PoolLevel,     \* the over-full level
  SpillTarget    \* where its victims would go

VARIABLES
  resident, fast, buffered,   \* as in the engine
  booting,                    \* homes still to be looked at
  retention,                  \* ns saved by homing the tensor in the pool level
  homeHopBytes                \* bytes on the hops that saved it

vars == <<resident, fast, buffered, booting, retention, homeHopBytes>>

Bootstrapped(t) == Home[t] # Deepest /\ Home[t] \notin WipeLevels

Init ==
  /\ resident = Home
  /\ fast = [c \in Cores |-> [l \in PerCore |-> EmptyBuffer]]
  /\ buffered = {}
  /\ booting = TensorOrder
  /\ retention = [t \in Tensors |-> 0]
  /\ homeHopBytes = [t \in Tensors |-> 0]

\* Fault: the check for room ignores that the tensor may be there already.
WrongNeedsRoom(b, l, t, n) == b.used + n > Capacity[l] /\ b.order # <<>>

NeedsRoom(b, l, t, n) ==
  ~Holds(b, t) /\ b.used + n > Capacity[l] /\ b.order # <<>>

\* _install_in_fast_buffer and _evict_from_fast_buffer; chip levels are skipped.
Install(c, l, t, n) ==
  LET b     == fast[c][l]
      evict == NeedsRoom(b, l, t, n)
  IN  IF l \in PerCore
      THEN /\ fast' = [fast EXCEPT ![c][l] = Put(IF evict THEN DropOldest(b) ELSE b, t, n)]
           /\ buffered' = buffered \cup {c}
           /\ resident' = [u \in Tensors |->
                             IF u = t THEN l
                             ELSE IF evict /\ u = Head(b.order) THEN Home[u]
                             ELSE resident[u]]
      ELSE /\ resident' = [resident EXCEPT ![t] = l]
           /\ UNCHANGED <<fast, buffered>>

\* One iteration of the loop of _bootstrap.
Bootstrap ==
  /\ booting # <<>>
  /\ booting' = Tail(booting)
  /\ LET t == Head(booting)
     IN  \/ Bootstrapped(t) /\ Install(CoreOf(t), Home[t], t, TensorBytes[t])
         \/ ~Bootstrapped(t) /\ UNCHANGED <<resident, fast, buffered>>
  /\ UNCHANGED <<retention, homeHopBytes>>

DirectStramRead(a) ==
  /\ a.target = DefaultTarget
  /\ Home[a.tensor] = "stram"
  /\ resident[a.tensor] = Home[a.tensor]

\* A read that pays an interconnect hop from the pool level, the tensor's home.
HomeHop(a) ==
  /\ resident[a.tensor] # a.target
  /\ resident[a.tensor] = Home[a.tensor]
  /\ Home[a.tensor] = PoolLevel

Saving(n) == HopLatency(SpillTarget, DefaultTarget, n) - HopLatency(PoolLevel, DefaultTarget, n)

\* Fault: a hop counts wherever it starts.
WrongCount(a) ==
  /\ retention' = [retention EXCEPT ![a.tensor] = @ + Saving(a.bytes)]
  /\ homeHopBytes' = [homeHopBytes EXCEPT ![a.tensor] = @ + a.bytes]

Count(a) ==
  IF HomeHop(a)
  THEN /\ retention' = [retention EXCEPT ![a.tensor] = @ + Saving(a.bytes)]
       /\ homeHopBytes' = [homeHopBytes EXCEPT ![a.tensor] = @ + a.bytes]
  ELSE UNCHANGED <<retention, homeHopBytes>>

Skip(a) ==
  /\ booting = <<>>
  /\ a.op # "read" \/ DirectStramRead(a)
  /\ UNCHANGED vars

Read(a) ==
  /\ booting = <<>>
  /\ a.op = "read" /\ ~DirectStramRead(a)
  /\ Count(a)
  /\ IF resident[a.tensor] # a.target
     THEN Install(a.core, a.target, a.tensor, a.bytes)
     ELSE UNCHANGED <<resident, fast, buffered>>
  /\ UNCHANGED booting

\* _kernel_wipe_cores, where core 0 stands in whenever no core has a buffer.
WipedCores(e) ==
  IF e # NoCore THEN {e} ELSE IF buffered = {} THEN {CoreZero} ELSE buffered

KernelEnd(e) ==
  /\ booting = <<>>
  /\ resident' = [t \in Tensors |->
                    IF CoreOf(t) \in WipedCores(e) /\ resident[t] \in WipeLevels
                    THEN Home[t] ELSE resident[t]]
  /\ fast' = [c \in Cores |-> [l \in PerCore |->
                IF c \in WipedCores(e) /\ l \in WipeLevels THEN EmptyBuffer ELSE fast[c][l]]]
  /\ UNCHANGED <<buffered, booting, retention, homeHopBytes>>
==============================================================================
