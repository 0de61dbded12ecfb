------------------------------- MODULE MCEngine -------------------------------
(***************************************************************************)
(* A small instance of Engine: one LtRAM weight on core 0, one StRAM cache *)
(* and one HBM tensor on core 1, with StRAM and HBM refreshed.             *)
(***************************************************************************)
EXTENDS Engine

MCTensors == {"w", "k", "h"}
MCTensorOrder == <<"h", "w", "k">>
MCLevels == {"sbuf", "stram", "ltram", "hbm"}
MCPerCore == {"sbuf", "stram"}
MCOffChip == {"ltram", "hbm"}
MCWipeLevels == {"sbuf"}
MCHome == [w |-> "ltram", k |-> "stram", h |-> "hbm"]
MCTensorCore == [w |-> NoCore, k |-> 1, h |-> 1]
MCBytes == [w |-> 2, k |-> 1, h |-> 1]
MCCapacity == [sbuf |-> 1, stram |-> 1, ltram |-> 2, hbm |-> 3]

\* Costs that tell the levels and the directions apart.
MCReadLatency == [sbuf |-> 1, stram |-> 2, ltram |-> 3, hbm |-> 5]
MCWriteLatency == [sbuf |-> 1, stram |-> 2, ltram |-> 7, hbm |-> 5]
MCReadEnergy == [sbuf |-> 1, stram |-> 1, ltram |-> 2, hbm |-> 3]
MCWriteEnergy == [sbuf |-> 1, stram |-> 2, ltram |-> 5, hbm |-> 3]
MCRefreshInterval == [sbuf |-> 0, stram |-> 2, ltram |-> 0, hbm |-> 3]
MCRefreshEnergy == [sbuf |-> 0, stram |-> 1, ltram |-> 0, hbm |-> 2]

Event(t, o, l, n) ==
  [tensor |-> t, op |-> o, target |-> l, bytes |-> n, core |-> CoreOf(t)]

MCAccesses ==
  {Event("w", "read", "sbuf", 1), Event("w", "write", "hbm", 1),
   Event("k", "read", "sbuf", 1), Event("k", "write", "sbuf", 1),
   Event("h", "read", "sbuf", 1), Event("h", "write", "stram", 1)}

MCKernelEnds == {1, NoCore}
==============================================================================
