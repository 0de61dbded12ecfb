------------------------------ MODULE Experiment ------------------------------
(***************************************************************************)
(* What is fixed before a simulation: the hierarchies that are compared,   *)
(* and the homes of a trace's tensors in one of them.                      *)
(***************************************************************************)
EXTENDS Placement, Sweep

VARIABLE part   \* "hierarchies" or "homes"

experimentVars == <<part, vars, sweepVars>>

\* The part that is left out stays as one of its initial states.
ExperimentInit ==
  /\ part \in {"hierarchies", "homes"}
  /\ SweepInit
  /\ part = "homes" => request.file = Unset /\ Len(jobs) > 1
  /\ part = "hierarchies" => config = CHOOSE c \in Configs : TRUE
  /\ Init

LoadHierarchies == part = "hierarchies" /\ SweepNext /\ UNCHANGED <<part, vars>>

AssignHomes == part = "homes" /\ Next /\ UNCHANGED <<part, sweepVars>>

ExperimentNext == LoadHierarchies \/ AssignHomes

\* Placement and the sweep are sequential programs: they keep running until they end.
ExperimentSpec == ExperimentInit /\ [][ExperimentNext]_experimentVars /\ WF_experimentVars(ExperimentNext)

\* assign_home_levels returns: no map of fallbacks, cyclic ones included, keeps the
\* walk or the spilling going for ever.  What it returns homes every tensor in an
\* enabled level, since run_simulation indexes its pools and fast buffers with the
\* homes.  And a sweep visits its jobs and percentages to the end.
Terminates ==
  <>IF part = "homes" THEN pc = "done" /\ \A t \in Tensors : homes[t] \in config.enabled
                      ELSE step = "end"
==============================================================================
