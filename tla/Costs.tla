-------------------------------- MODULE Costs --------------------------------
(***************************************************************************)
(* Latency and energy of one access (sim/transfer.py), in whole ns and pJ. *)
(* The bandwidths of models.py are given by their inverse, ns per unit of  *)
(* bytes.                                                                  *)
(***************************************************************************)
EXTENDS Hierarchy

CONSTANTS
  ReadLatency, WriteLatency,   \* tech.access latencies of each level
  ReadEnergy, WriteEnergy,     \* tech.access energies per bit of each level
  OnChipTime, DmaTime          \* ns per byte on chip and over DMA

ASSUME CostsAssumption ==
  /\ {ReadLatency, WriteLatency, ReadEnergy, WriteEnergy} \subseteq [Levels -> Nat]
  /\ {OnChipTime, DmaTime} \subseteq Nat

\* link_bandwidth_GBs: on-chip bandwidth if both ends are on chip, else DMA.
LinkTime(from, to) == IF {from, to} \cap OffChip = {} THEN OnChipTime ELSE DmaTime

HopLatency(from, to, n) == ReadLatency[from] + n * LinkTime(from, to) + WriteLatency[to]

LocalLatency(l, n) == ReadLatency[l] + n * OnChipTime

AccessEnergy(l, op, n) == 8 * n * (IF op = "read" THEN ReadEnergy[l] ELSE WriteEnergy[l])

HopEnergy(from, to, n) == AccessEnergy(from, "read", n) + AccessEnergy(to, "write", n)
==============================================================================
