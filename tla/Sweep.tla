-------------------------------- MODULE Sweep --------------------------------
(***************************************************************************)
(* scripts/run_memory_sweep.py and the compare command of cli.py: loading  *)
(* the hierarchies that are simulated against each other on one trace.     *)
(* The simulations are the subject of other modules; a report keeps the    *)
(* hierarchies and the spill order they were made with.                    *)
(***************************************************************************)
EXTENDS Configuration

CONSTANTS
  Fractions,       \* --fractions, in their order
  Files,           \* hierarchy files a user compares with the baseline
  CoreCounts,      \* trace.metadata.num_neuron_cores
  SbufBytes, PsumBytes, HbmGib,   \* the nominal capacities of the files
  SbufDensity, HbmDensity         \* the reference densities of AreaBudgetConfig

SpillOrders == <<"best_case", "worst_case">>

\* LTRAM_TECHS and STRAM_TECHS
TierTechs == [ltram |-> <<"rram", "feram">>, stram |-> <<"edram_1t1c", "edram_3t">>]

VARIABLES
  request,     \* the command line: what to do and for how many cores
  step,        \* where the command is
  jobs,        \* tiers and technologies still to be swept
  fractions,   \* percentages the present job has still to visit
  orders,      \* spill orders the present percentage has still to visit
  disk,        \* configs/hierarchy/generated
  baseline, candidate,   \* the loaded hierarchies, Unset before
  reports      \* what has been reported

sweepVars == <<request, step, jobs, fractions, orders, disk, baseline, candidate, reports>>

Level(id, enabled, tech, scope, capacity) ==
  [id |-> id, enabled |-> enabled, tech |-> tech, scope |-> scope, capacity |-> capacity]

Budget(enabled, stramPct, ltramPct) ==
  [enabled |-> enabled, nominalSbuf |-> SbufBytes, nominalHbmGib |-> HbmGib,
   sbufDensity |-> SbufDensity, hbmDensity |-> HbmDensity, stramPct |-> stramPct, ltramPct |-> ltramPct]

\* The files of configs/hierarchy: only StRAM, LtRAM and the budget differ.
Hierarchy(stram, ltram, budget) ==
  [levels |-> <<Level("psum", TRUE, "psum_trainium2", "per_core", PsumBytes),
                Level("sbuf", TRUE, "tsmc_n22_sram", "per_core", SbufBytes),
                stram, ltram,
                Level("hbm", TRUE, "hbm_trainium2", "per_chip", Unset)>>,
   domains |-> {"psum", "sbuf", "stram", "ltram", "hbm"},
   hbmGib |-> HbmGib, budget |-> budget]

NoStram == Level("stram", FALSE, "edram_1t1c", "per_core", 0)
NoLtram == Level("ltram", FALSE, "rram", "per_chip", 0)

\* trainium2_baseline.yaml
BaselineFile == Hierarchy(NoStram, NoLtram, Budget(FALSE, 0, 0))

\* The density by which the area of a level is measured
DieDensity(level) == DensityOf(level, IF level.id = "hbm" THEN HbmDensity ELSE SbufDensity)

\* A file that differs from the baseline as AREA_BUDGET.md describes it: it has the nominal
\* PSUM, SBUF and HBM, of the same densities, and StRAM and LtRAM in the scopes it names
\* there with what a budget gives them.
Comparable(file) ==
  /\ file \in HierarchyConfig /\ DOMAIN file.levels = 1..5
  /\ \A i \in 1..5 : file.levels[i].id = BaselineFile.levels[i].id
  /\ \A i \in {1, 2, 5} :
       LET level == file.levels[i]
           own   == BaselineFile.levels[i]
       IN  /\ level.enabled /\ level.scope = own.scope
           /\ NominalCapacity(file, level) = DeclaredCapacity(BaselineFile, own)
           /\ DieDensity(level) = DieDensity(own)
  /\ DieDensity(file.levels[2]) = DensityOf(file.levels[2], file.budget.sbufDensity)
  /\ DieDensity(file.levels[5]) = DensityOf(file.levels[5], file.budget.hbmDensity)
  /\ file.levels[3].enabled \/ file.levels[4].enabled => file.budget.enabled
  /\ file.levels[3].enabled => file.levels[3].scope \in {"per_core", "per_chip"}
  /\ file.levels[4].enabled => file.levels[4].scope = "per_chip"

ASSUME SweepAssumption ==
  /\ {SbufBytes, PsumBytes, HbmGib} \subseteq Nat
  /\ \A d \in {SbufDensity, HbmDensity} : d \in Nat \ {0} /\ Area % (100 * d) = 0
  /\ Fractions \in Seq(0..100)
  /\ CoreCounts \subseteq Nat \ {0}
  /\ {"psum_trainium2", "tsmc_n22_sram", "hbm_trainium2"} \subseteq DOMAIN Density
  /\ \A tech \in ToSet(TierTechs.ltram \o TierTechs.stram) :
       tech \in DOMAIN Density /\ Density[tech] # Unset

\* The files a user compares are such files, or are refused.
ASSUME FilesAssumption == \A file \in Files : Refused(file) \/ Comparable(file)

\* _hierarchy_yaml_ltram and _hierarchy_yaml_stram
Template(tier, tech, pct) ==
  IF tier = "ltram"
  THEN Hierarchy(NoStram, Level("ltram", TRUE, tech, "per_chip", 0), Budget(TRUE, 0, pct))
  ELSE Hierarchy(Level("stram", TRUE, tech, "per_core", 0), NoLtram, Budget(TRUE, pct, 0))

TierJobs(tier) == [i \in DOMAIN TierTechs[tier] |-> [tier |-> tier, tech |-> TierTechs[tier][i]]]

\* --tier ltram or stram with one technology, or all of both
JobLists ==
  {<<job>> : job \in ToSet(TierJobs("ltram") \o TierJobs("stram"))}
    \cup {TierJobs("ltram") \o TierJobs("stram")}

SweepInit ==
  /\ request \in [file : Files \cup {Unset}, cores : CoreCounts]
  /\ step = IF request.file = Unset THEN "jobs" ELSE "compare"
  /\ jobs \in IF request.file = Unset THEN JobLists ELSE {<<>>}
  /\ fractions = <<>> /\ orders = <<>> /\ disk = <<>>
  /\ baseline = Unset /\ candidate = Unset /\ reports = <<>>

------------------------------------------------------------------------------
(* run_tier_tech_sweep *)

\* The baseline is loaded once for a tier and technology.
StartJob ==
  /\ step = "jobs" /\ jobs # <<>>
  /\ step' = "fractions"
  /\ baseline' = LoadHierarchy(BaselineFile, request.cores)
  /\ fractions' = Fractions
  /\ UNCHANGED <<request, jobs, orders, disk, candidate, reports>>

\* write_hierarchy: one path for each tier, percentage and technology
Path == <<Head(jobs).tier, Head(fractions), Head(jobs).tech>>

WriteHierarchy ==
  /\ step = "fractions" /\ fractions # <<>>
  /\ step' = "load"
  /\ disk' = [path \in DOMAIN disk \cup {Path} |->
                IF path = Path THEN Template(Head(jobs).tier, Head(jobs).tech, Head(fractions))
                ELSE disk[path]]
  /\ UNCHANGED <<request, jobs, fractions, orders, baseline, candidate, reports>>

LoadCandidate ==
  /\ step = "load"
  /\ step' = "orders"
  /\ candidate' = LoadHierarchy(disk[Path], request.cores)
  /\ orders' = SpillOrders
  /\ UNCHANGED <<request, jobs, fractions, disk, baseline, reports>>

Report(pct, order) ==
  [pct |-> pct, order |-> order, baseline |-> baseline', candidate |-> candidate']

\* run_one_compare simulates both and reports; neither run changes a hierarchy.
RunOneCompare ==
  /\ step = "orders" /\ orders # <<>>
  /\ UNCHANGED <<baseline, candidate>>
  /\ reports' = Append(reports, Report(Head(fractions), Head(orders)))
  /\ orders' = Tail(orders)
  /\ UNCHANGED <<request, step, jobs, fractions, disk>>

NextFraction ==
  /\ step = "orders" /\ orders = <<>>
  /\ step' = "fractions" /\ fractions' = Tail(fractions)
  /\ UNCHANGED <<request, jobs, orders, disk, baseline, candidate, reports>>

\* The consolidated file is written and the next job begins.
NextJob ==
  /\ step = "fractions" /\ fractions = <<>>
  /\ step' = "jobs" /\ jobs' = Tail(jobs)
  /\ reports' = <<>>
  /\ UNCHANGED <<request, fractions, orders, disk, baseline, candidate>>

Swept ==
  /\ step = "jobs" /\ jobs = <<>>
  /\ step' = "end"
  /\ UNCHANGED <<request, jobs, fractions, orders, disk, baseline, candidate, reports>>

------------------------------------------------------------------------------
(* dmsim compare *)

Compare ==
  /\ step = "compare" /\ ~Refused(request.file)
  /\ step' = "end"
  /\ baseline' = LoadHierarchy(BaselineFile, request.cores)
  /\ candidate' = LoadHierarchy(request.file, request.cores)
  /\ reports' = <<Report(request.file.budget.ltramPct, "best_case")>>
  /\ UNCHANGED <<request, jobs, fractions, orders, disk>>

\* load_hierarchy raises ValueError and nothing is simulated.
Refuse ==
  /\ step = "compare" /\ Refused(request.file)
  /\ step' = "end"
  /\ UNCHANGED <<request, jobs, fractions, orders, disk, baseline, candidate, reports>>

SweepEnd == step = "end" /\ UNCHANGED sweepVars

SweepNext ==
  \/ StartJob \/ WriteHierarchy \/ LoadCandidate \/ RunOneCompare
  \/ NextFraction \/ NextJob \/ Swept
  \/ Compare \/ Refuse \/ SweepEnd

------------------------------------------------------------------------------
(* Properties *)

\* The number of copies of a level that a chip has.
Copies(h, level) == IF level.scope = "per_core" THEN h.cores ELSE 1

\* The area of so many bytes of every enabled level, all copies counted.
Die(h, bytes) ==
  SumFunction([i \in DOMAIN h.levels |->
    IF h.levels[i].enabled
    THEN Copies(h, h.levels[i]) * AreaForBytes(bytes[i], DieDensity(h.levels[i]))
    ELSE 0])

Capacities(h) == [i \in DOMAIN h.levels |-> h.levels[i].capacity]

\* AREA_BUDGET.md: the hierarchies "model fixed on-die area".  Every candidate of a
\* sweep or comparison has the die area of its baseline, short of it only by what was
\* truncated: less than one byte in each copy of a level.
ComparisonsAreIsoArea ==
  \A i \in DOMAIN reports :
    LET new == Die(reports[i].candidate, Capacities(reports[i].candidate))
        old == Die(reports[i].baseline, Capacities(reports[i].baseline))
    IN  /\ new <= old
        /\ old - new < Die(reports[i].candidate, [l \in DOMAIN reports[i].candidate.levels |-> 1])
==============================================================================
