------------------------------ MODULE MCLockstep ------------------------------
(***************************************************************************)
(* Small instances of Lockstep: two LtRAM weights, one                     *)
(* StRAM cache and one HBM tensor over two cores, where the scratch of     *)
(* core 0 holds two tensors of the three that are read there.              *)
(***************************************************************************)
EXTENDS Lockstep

MCTensors == {"v", "w", "k", "h"}
MCTensorOrder == <<"h", "v", "k", "w">>
MCLevels == {"sbuf", "stram", "ltram", "hbm"}
MCPerCore == {"sbuf", "stram"}
MCOffChip == {"ltram", "hbm"}
MCWipeLevels == {"sbuf"}
MCHome == [v |-> "ltram", w |-> "ltram", k |-> "stram", h |-> "hbm"]
MCTensorCore == [v |-> NoCore, w |-> 0, k |-> 0, h |-> 1]
MCBytes == [v |-> 1, w |-> 2, k |-> 1, h |-> 1]
MCCapacity == [sbuf |-> 2, stram |-> 1, ltram |-> 2, hbm |-> 3]
MCReadLatency == [sbuf |-> 1, stram |-> 2, ltram |-> 3, hbm |-> 5]
MCWriteLatency == [sbuf |-> 1, stram |-> 2, ltram |-> 7, hbm |-> 5]
MCEnergy == [l \in MCLevels |-> 1]

Event(t, o, l, n) ==
  [tensor |-> t, op |-> o, target |-> l, bytes |-> n, core |-> CoreOf(t)]

\* Reads into scratch, of whole tensors and of one unit.
MCReads == {Event(t, "read", "sbuf", n) : t \in Tensors, n \in 1..2}

\* Reads that stage HBM and LtRAM tensors in StRAM and LtRAM as well.
MCStagedReads == MCReads \cup {Event("h", "read", "stram", 1), Event("v", "read", "stram", 1),
                              Event("h", "read", "ltram", 1)}

\* Scratch writes beside the reads, as ingest writes them.
MCReadsAndWrites == MCReads \cup {Event("w", "write", "sbuf", 1)}

MCKernelEnds == {1, NoCore}
==============================================================================
