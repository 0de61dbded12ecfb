------------------------------ MODULE MCLifetime ------------------------------
(***************************************************************************)
(* A small instance of LifetimeLockstep: two HBM tensors that compete for  *)
(* the SBUF of core 0, one HBM and one StRAM tensor on core 1.             *)
(***************************************************************************)
EXTENDS LifetimeLockstep

MCTensors == {"v", "x", "h", "k"}
MCTensorOrder == <<"v", "x", "h", "k">>
MCLevels == {"sbuf", "stram", "hbm"}
MCPerCore == {"sbuf", "stram"}
MCHome == [v |-> "hbm", x |-> "hbm", h |-> "hbm", k |-> "stram"]
MCTensorCore == [v |-> NoCore, x |-> 0, h |-> 1, k |-> 1]
MCBytes == [t \in MCTensors |-> 1]
MCCapacity == [sbuf |-> 1, stram |-> 1, hbm |-> 3]

Event(t, o, l) == [tensor |-> t, op |-> o, target |-> l, bytes |-> 1, core |-> CoreOf(t)]

\* Reads into SBUF, the only way it is filled, and a flush.
MCAccesses == {Event(t, "read", "sbuf") : t \in Tensors} \cup {Event("h", "write", "hbm")}

MCKernelEnds == {1, NoCore}
MCGaps == {0, 2, 3}
==============================================================================
