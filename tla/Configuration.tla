---------------------------- MODULE Configuration ----------------------------
(***************************************************************************)
(* load_hierarchy (config/loader.py) and apply_area_budget                 *)
(* (config/area_budget.py): a hierarchy file becomes levels with           *)
(* capacities, and the budget repurposes fractions of the die area of SBUF *)
(* and HBM for StRAM and LtRAM.                                            *)
(*                                                                         *)
(* Fractions are percentages and densities whole numbers of bits per unit  *)
(* of area, so that every truncation to bytes is exact: the rounding of    *)
(* floating-point numbers is left out.                                     *)
(***************************************************************************)
EXTENDS Integers, Sequences, SequencesExt

CONSTANTS
  Density,        \* cell_density_bits_per_um2 of each technology, Unset where it has none
  Gib,            \* bytes in a GiB
  Area,           \* a whole number of area units that every density divides
  Unset           \* Python's None

Scopes == {"per_core", "per_chip", "global"}

\* LevelConfig: the level as the file has it.
LevelConfig ==
  [id : {"psum", "sbuf", "stram", "ltram", "hbm"}, enabled : BOOLEAN,
   tech : DOMAIN Density, scope : Scopes, capacity : Int \cup {Unset}]

\* AreaBudgetConfig
AreaBudgetConfig ==
  [enabled : BOOLEAN, nominalSbuf : Nat \cup {Unset}, nominalHbmGib : Nat \cup {Unset},
   sbufDensity : Nat \ {0}, hbmDensity : Nat \ {0},
   stramPct : 0..100, ltramPct : 0..100]

\* HierarchyConfig, with the hbm_gib_per_chip of the instance it names and the levels
\* that interconnect.level_domain has.
HierarchyConfig ==
  [levels : Seq(LevelConfig), domains : SUBSET {"psum", "sbuf", "stram", "ltram", "hbm"},
   hbmGib : Nat, budget : AreaBudgetConfig]

ASSUME ConfigurationAssumption ==
  /\ \A t \in DOMAIN Density : Density[t] = Unset \/ Density[t] \in Nat \ {0}
  /\ Gib \in Nat \ {0}
  /\ Unset \notin Int
  /\ Area \in Nat \ {0}
  /\ \A t \in DOMAIN Density : Density[t] # Unset => Area % (100 * Density[t]) = 0

\* A file has the level and enables it.
HasLevel(file, id) == \E i \in DOMAIN file.levels : file.levels[i].id = id /\ file.levels[i].enabled

LevelOf(file, id) == file.levels[CHOOSE i \in DOMAIN file.levels : file.levels[i].id = id]

\* A value Python takes for false: missing, or zero.
OrElse(value, other) == IF value \in {Unset, 0} THEN other ELSE value

\* _capacity_from_area_budget: the capacity in the file is a placeholder.
CapacityFromAreaBudget(file, id) ==
  /\ file.budget.enabled
  /\ id \in {"stram", "ltram"} /\ HasLevel(file, id)
  /\ HasLevel(file, IF id = "stram" THEN "sbuf" ELSE "hbm")

\* HBM's capacity is the instance's.
DeclaredCapacity(file, level) ==
  IF level.id = "hbm" THEN file.hbmGib * Gib ELSE level.capacity

------------------------------------------------------------------------------
(* The area budget *)

\* _density: the technology's own, or the budget's reference density of the level.
DensityOf(level, fallback) ==
  IF Density[level.tech] # Unset THEN Density[level.tech] ELSE fallback

\* _area_for_bytes, in units of which Area are one unit of the densities.
AreaForBytes(bytes, density) == bytes * 8 * (Area \div density)

\* _bytes_for_area
BytesForArea(area, density) == (area * density) \div (8 * Area)

\* Fault: the recipient gets the donor's bytes instead of its area.
WrongSplitByAreaFraction(nominal, donor, recipient, pct, pools) ==
  [donor |-> (nominal * (100 - pct)) \div 100,
   recipient |-> (pct * nominal * pools) \div 100]

\* _split_by_area_fraction
SplitByAreaFraction(nominal, donor, recipient, pct, pools) ==
  LET replaced == pct * (AreaForBytes(nominal * pools, donor) \div 100)
  IN  [donor |-> (nominal * (100 - pct)) \div 100,
       recipient |-> BytesForArea(replaced, recipient)]

\* A trade takes place if the file enables donor and recipient.
Trading(file, donor, recipient) ==
  file.budget.enabled /\ HasLevel(file, donor) /\ HasLevel(file, recipient)

TradingSram(file) == Trading(file, "sbuf", "stram")
TradingHbm(file) == Trading(file, "hbm", "ltram")

\* A recipient needs a density of its own: no reference stands in for it.
MissesDensity(file) ==
  \/ TradingSram(file) /\ Density[LevelOf(file, "stram").tech] = Unset
  \/ TradingHbm(file) /\ Density[LevelOf(file, "ltram").tech] = Unset

\* The capacities before any trade, the nominal ones under a budget.
NominalCapacity(file, level) ==
  IF ~file.budget.enabled \/ ~level.enabled THEN DeclaredCapacity(file, level)
  ELSE IF level.id = "sbuf" THEN OrElse(file.budget.nominalSbuf, level.capacity)
  ELSE IF level.id = "hbm" THEN OrElse(file.budget.nominalHbmGib, file.hbmGib) * Gib
  ELSE DeclaredCapacity(file, level)

\* An StRAM that the whole chip shares has the area of every core's SBUF.
StramSplit(file, cores) ==
  LET sbuf == LevelOf(file, "sbuf")
      stram == LevelOf(file, "stram")
  IN  SplitByAreaFraction(NominalCapacity(file, sbuf),
        DensityOf(sbuf, file.budget.sbufDensity), Density[stram.tech], file.budget.stramPct,
        IF stram.scope = "per_chip" THEN Max({1, cores}) ELSE 1)

LtramSplit(file) ==
  LET hbm == LevelOf(file, "hbm")
      ltram == LevelOf(file, "ltram")
  IN  SplitByAreaFraction(NominalCapacity(file, hbm),
        DensityOf(hbm, file.budget.hbmDensity), Density[ltram.tech], file.budget.ltramPct, 1)

\* apply_area_budget: the capacity it leaves a level with
ApplyAreaBudget(file, level, cores) ==
  IF level.id = "sbuf" /\ TradingSram(file) THEN Max({0, StramSplit(file, cores).donor})
  ELSE IF level.id = "stram" /\ TradingSram(file) THEN StramSplit(file, cores).recipient
  ELSE IF level.id = "hbm" /\ TradingHbm(file) THEN LtramSplit(file).donor
  ELSE IF level.id = "ltram" /\ TradingHbm(file) THEN LtramSplit(file).recipient
  ELSE NominalCapacity(file, level)

------------------------------------------------------------------------------
(* Loading *)

\* A file that load_hierarchy refuses: no level enabled, a level without a domain, an
\* enabled one without a capacity that the budget would fill, or without a density.
Refused(file) ==
  \/ ~\E i \in DOMAIN file.levels : file.levels[i].enabled
  \/ \E i \in DOMAIN file.levels : file.levels[i].id \notin file.domains
  \/ \E i \in DOMAIN file.levels :
       LET level == file.levels[i]
           capacity == DeclaredCapacity(file, level)
       IN  /\ level.enabled
           /\ ~(capacity # Unset /\ (capacity > 0 \/ CapacityFromAreaBudget(file, level.id)))
  \/ MissesDensity(file)

\* load_hierarchy, of a file it does not refuse: levels are numbered from 0 along the
\* enabled ones; a disabled one has index -1 and the capacity of the file.
LoadHierarchy(file, cores) ==
  LET Index(i) == Cardinality({j \in 1..(i - 1) : file.levels[j].enabled})
  IN  [cores |-> cores,
       levels |-> [i \in DOMAIN file.levels |->
         LET level == file.levels[i]
         IN  IF level.enabled
             THEN [id |-> level.id, index |-> Index(i), enabled |-> TRUE, tech |-> level.tech,
                   scope |-> level.scope, capacity |-> ApplyAreaBudget(file, level, cores)]
             ELSE [id |-> level.id, index |-> -1, enabled |-> FALSE, tech |-> level.tech,
                   scope |-> level.scope, capacity |-> OrElse(level.capacity, 0)]]]
==============================================================================
