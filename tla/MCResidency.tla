----------------------------- MODULE MCResidency -----------------------------
(***************************************************************************)
(* Small instances of Residency: the five levels of trainium2_diff_mem     *)
(* without PSUM, two cores, and tensors homed as decode_tiered homes them. *)
(***************************************************************************)
EXTENDS ResidencyProperties

MCTensors == {"w", "k", "h", "x"}
MCTensorOrder == <<"h", "w", "k", "x">>
MCLevels == {"sbuf", "stram", "ltram", "hbm"}
MCPerCore == {"sbuf", "stram"}
MCOffChip == {"ltram", "hbm"}
MCWipeLevels == {"sbuf"}
MCHome == [w |-> "ltram", k |-> "stram", h |-> "hbm", x |-> "hbm"]
MCTensorCore == [w |-> NoCore, k |-> CoreZero, h |-> CoreZero, x |-> 1]

\* Three of the tensors, where sizes and staging make the state space large.
MCFewTensors == {"w", "k", "h"}
MCFewOrder == <<"h", "w", "k">>
MCFewHome == Restrict(MCHome, MCFewTensors)
MCFewCore == [w |-> NoCore, k |-> CoreZero, h |-> 1]
MCFewBytes == [w |-> 2, k |-> 1, h |-> 2]

\* Sizes that differ, buffers that hold two of the tensors at most.
MCCapacity == [sbuf |-> 3, stram |-> 1, ltram |-> 3, hbm |-> 4]

\* One tile size.
MCUniformBytes == [t \in MCTensors |-> 1]
MCUniformCapacity == [sbuf |-> 2, stram |-> 1, ltram |-> 2, hbm |-> 3]

Event(t, o, l, n, c) == [tensor |-> t, op |-> o, target |-> l, bytes |-> n, core |-> c]

OnHomeCore(t, o, l, n) == Event(t, o, l, n, CoreOf(t))

\* What a normalised trace may hold on the tensors' own cores: reads and writes
\* of scratch, staging into near memory and flushes, of whole tensors or parts.
MCMixedAccesses ==
  {OnHomeCore(t, "read", "sbuf", n) : t \in Tensors, n \in 1..2}
  \cup {OnHomeCore(t, "write", "hbm", n) : t \in Tensors, n \in 1..2}
  \cup {OnHomeCore("w", "write", "stram", 1), OnHomeCore("k", "write", "sbuf", 1),
        OnHomeCore("h", "write", "ltram", 1)}

\* What ingest writes: reads into scratch and flushes to HBM.
MCIngestAccesses ==
  {OnHomeCore(t, "read", "sbuf", TensorBytes[t]) : t \in Tensors}
  \cup {OnHomeCore(t, "write", l, TensorBytes[t]) : t \in Tensors, l \in {"sbuf", "ltram", "hbm"}}

\* Nothing is homed in a core's StRAM (decode_ltram_only, baseline_hbm).
MCChipHome == [MCHome EXCEPT !["k"] = "hbm"]
MCNoTensorCore == [t \in MCTensors |-> NoCore]
MCOtherCoreAccesses == {Event(t, "read", "sbuf", TensorBytes[t], 1) : t \in Tensors}
MCChipWideEnds == {NoCore}

MCKernelEnds == Cores \cup {NoCore}
==============================================================================
