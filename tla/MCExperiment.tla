----------------------------- MODULE MCExperiment -----------------------------
(***************************************************************************)
(* Small instances of Experiment: placements of four tensors over two      *)
(* cores, with sizes that over-fill StRAM and LtRAM in several ways and    *)
(* ties in retention; sweeps over the shipped fractions and comparisons of *)
(* files that trade StRAM, LtRAM or both, on few bytes of whole densities. *)
(***************************************************************************)
EXTENDS Experiment

MCTensors == {"t1", "t2", "t3", "t4"}
MCTensorOrder == <<"t1", "t2", "t3", "t4">>
MCBytes == [t1 |-> 1, t2 |-> 2, t3 |-> 1, t4 |-> 2]
MCCoreOf == [t1 |-> 0, t2 |-> 0, t3 |-> 0, t4 |-> 1]
MCLevelOrder == <<"sbuf", "stram", "ltram", "hbm">>
MCPerCore == {"sbuf", "stram"}
MCCapacity == [sbuf |-> 2, stram |-> 2, ltram |-> 3, hbm |-> 9]
MCRetention == [t1 |-> 5, t2 |-> 3, t3 |-> 3, t4 |-> 8]
MCHopBytes == [t1 |-> 1, t2 |-> 4, t3 |-> 2, t4 |-> 2]

\* configs/policies: every level falls back to HBM, which is always enabled.
ShippedFallback == [sbuf |-> "hbm", stram |-> "hbm", ltram |-> "hbm"]

ShippedConfigs ==
  [enabled : {{"sbuf", "hbm"} \cup near : near \in SUBSET {"stram", "ltram"}},
   desired : [MCTensors -> {"stram", "ltram", "hbm"}],
   fallback : {ShippedFallback},
   victims : {"best_case", "worst_case"}]

\* Any map of fallbacks over any enabled levels, HBM or no HBM.
AnyConfigs ==
  [enabled : (SUBSET Range(MCLevelOrder)) \ {{}},
   desired : {[t1 |-> "stram", t2 |-> "ltram", t3 |-> "ltram", t4 |-> "ltram"],
              [t \in MCTensors |-> "stram"]},
   fallback : UNION {[ls -> Range(MCLevelOrder)] :
                ls \in {{"sbuf", "stram", "ltram"}, {"sbuf", "stram", "ltram", "hbm"}}},
   victims : {"best_case"}]

\* sim/README's example policy, which spills StRAM into LtRAM.
CascadeConfigs ==
  [enabled : {Range(MCLevelOrder)},
   desired : [MCTensors -> {"stram", "ltram"}],
   fallback : {[sbuf |-> "hbm", stram |-> "ltram", ltram |-> "hbm"]},
   victims : {"best_case"}]

MCConfigs == ShippedConfigs \cup AnyConfigs

------------------------------------------------------------------------------
MCDensity ==
  [psum_trainium2 |-> 3, tsmc_n22_sram |-> 3, edram_1t1c |-> 7, edram_3t |-> 5,
   rram |-> 2, feram |-> 10, hbm_trainium2 |-> 11, hbm_unmeasured |-> Unset,
   ltram_unmeasured |-> Unset]
MCArea == 100 * 2310

MCFractions == <<10, 25, 50, 75>>
MCCoreCounts == {1, 2, 3}

\* Files that keep to AREA_BUDGET.md's scopes: LtRAM and HBM per chip.
Trades ==
  {Hierarchy(Level("stram", stram, "edram_1t1c", scope, capacity),
             Level("ltram", ltram, "feram", "per_chip", 0),
             Budget(TRUE, pcts[1], pcts[2])) :
     stram \in BOOLEAN, ltram \in BOOLEAN, scope \in {"per_core", "per_chip"},
     capacity \in {0, 5, Unset}, pcts \in {0, 33, 100} \X {0, 67, 100}}

\* Files with the capacities of the instance and of the level itself for nominals, with a
\* reference density, without a density, without a domain, without any budget.
Odd ==
  LET trade == Hierarchy(Level("stram", TRUE, "edram_1t1c", "per_core", 0),
                         Level("ltram", TRUE, "rram", "per_chip", 0), Budget(TRUE, 40, 70))
  IN  {[trade EXCEPT !.budget.nominalSbuf = Unset, !.budget.nominalHbmGib = 0],
       [trade EXCEPT !.levels[5].tech = "hbm_unmeasured"],
       [trade EXCEPT !.levels[4].tech = "ltram_unmeasured"],
       [trade EXCEPT !.domains = @ \ {"stram"}],
       [trade EXCEPT !.budget.enabled = FALSE],
       [trade EXCEPT !.levels = [i \in DOMAIN @ |-> [@[i] EXCEPT !.enabled = FALSE]]],
       [trade EXCEPT !.levels[2].enabled = FALSE]}

MCFiles == Trades \cup Odd
===============================================================================
