------------------------- MODULE ResidencyProperties -------------------------
(***************************************************************************)
(* The properties of Residency, and the classes of traces they are about.  *)
(***************************************************************************)
EXTENDS Residency

\* Every access runs on the core that the tensor record names (or core 0).
\* merge_traces and single-core ingest of core 0 write such traces.
HomeCoreTrace == \A a \in Accesses : a.core = CoreOf(a.tensor)

\* The only fast buffer the trace moves tensors into is the default target.
ScratchOnlyTrace == \A a \in Accesses : a.target \in PerCore => a.target = DefaultTarget

\* The default target is on-chip scratch that kernels wipe (sbuf in every policy).
DefaultIsScratch == DefaultTarget \in WipeLevels \ OffChip

\* Every access moves the whole tensor.
WholeTensorTrace == \A a \in Accesses : a.bytes = TensorBytes[a.tensor]

------------------------------------------------------------------------------

\* A tensor that the simulator takes for resident in wiped scratch is an
\* occupant of that buffer on its core, so a read it charges as a scratch hit
\* finds a copy, whatever evictions, flushes, staging moves and kernel ends of
\* either core came before (_handle_access against _handle_kernel_boundary).
ScratchBacked ==
  \A t \in Tensors :
    resident[t] \in WipeLevels => Holds(fast[CoreOf(t)][resident[t]], t)

\* used_bytes is the sum over distinct occupants in every buffer and pool, after
\* any mix of resizes, evictions and wipes: refresh energy is charged from it.
BytesBalance ==
  /\ \A c \in Cores, l \in PerCore : BooksBalance(fast[c][l])
  /\ \A l \in ChipPools : BooksBalance(pool[l])

\* sim/README: "Home-tier chip pools never evict".  Whatever is staged into a
\* pool, the tensors homed there keep their reservation.
HomesReserved ==
  Loaded => \A t \in Tensors :
    Home[t] \in ChipPools \ WipeLevels => Holds(pool[Home[t]], t)

\* With tiles of one size, dropping one occupant is enough to admit the next: no fast
\* buffer is ever filled beyond its capacity.  sim/README: "placement spill reserves
\* capacity up front": neither is a pool, which never evicts.
WithinCapacity ==
  /\ \A c \in Cores, l \in PerCore : fast[c][l].used <= Capacity[l]
  /\ \A l \in ChipPools : pool[l].used <= Capacity[l]

\* README: "kernel_end wipes PSUM/SBUF fast buffers and resets residency so the next
\* access reloads from home".  After a chip-wide kernel end nothing is taken for
\* resident in wiped scratch.
ChipWipeResets ==
  [][KernelEnd(NoCore) => \A t \in Tensors : resident'[t] \notin WipeLevels]_vars

\* The residency tables and the fast buffers implement the abstract scratch cache:
\* evictions and wipes take a tensor out of both or of neither, an eviction only
\* touches the loading core, and only a write leaves a stale copy.
InScratch == {t \in Tensors : resident[t] = DefaultTarget}

StoredInScratch == {t \in Tensors : Holds(fast[CoreOf(t)][DefaultTarget], t)}

Cache == INSTANCE ScratchCache WITH
           Owner <- [t \in Tensors |-> CoreOf(t)],
           cached <- InScratch,
           stored <- StoredInScratch

ImplementsScratchCache == Cache!Spec
==============================================================================
