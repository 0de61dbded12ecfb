-------------------------------- MODULE Engine --------------------------------
(***************************************************************************)
(* run_simulation: the event loop over a time-sorted trace, the residency  *)
(* rules of Residency with what each step adds to SimulationResult, and    *)
(* the refresh energy charged for the time between two events.             *)
(***************************************************************************)
EXTENDS ResidencyProperties, Costs

CONSTANTS
  RefreshInterval,   \* effective_refresh_interval_s of each level in ns, 0 for None
  RefreshEnergy,     \* refresh energy per bit of each level
  Starts,            \* times the first event may have
  Gaps,              \* times that may pass between two events
  MaxEvents          \* bound on the length of the trace

ASSUME EngineAssumption ==
  /\ {RefreshInterval, RefreshEnergy} \subseteq [Levels -> Nat]
  /\ Starts \subseteq Nat
  /\ Gaps \subseteq Nat
  /\ MaxEvents \in Nat

VARIABLES
  start,    \* t_ns of the first event
  now,      \* prev_t_ns
  events,   \* events handled so far
  result    \* SimulationResult

engineVars == <<vars, start, now, events, result>>

\* SimulationResult before the first event.  Per-level latency and energy are kept
\* doubled: a hop gives half to each end.
NoResult ==
  [timeByCore |-> [c \in Cores |-> 0], totalEnergy |-> 0,
   levelLatency2 |-> [l \in Levels |-> 0], levelEnergy2 |-> [l \in Levels |-> 0],
   hops |-> [h \in Levels \X Levels |-> 0],
   hbmRead |-> 0, hbmWrite |-> 0, crossRead |-> 0, crossWrite |-> 0,
   kernelWipes |-> 0, refreshEnergy |-> 0, refreshCycles |-> [l \in Levels |-> 0]]

EngineInit ==
  /\ Init
  /\ start \in Starts
  /\ now = start
  /\ events = 0
  /\ result = NoResult

------------------------------------------------------------------------------
(* Charging *)

When(condition, n) == IF condition THEN n ELSE 0

\* _charge_local_access
ChargeLocal(r, l, op, n, c) ==
  LET latency == LocalLatency(l, n)
      energy  == AccessEnergy(l, op, n)
  IN  [r EXCEPT !.timeByCore[c] = @ + latency,
                !.totalEnergy = @ + energy,
                !.levelLatency2[l] = @ + 2 * latency,
                !.levelEnergy2[l] = @ + 2 * energy]

\* Fault: the arriving level's share of the energy is not recorded.
WrongChargePath(r, from, to, n, c) ==
  LET latency == HopLatency(from, to, n)
      energy  == HopEnergy(from, to, n)
  IN  [r EXCEPT !.timeByCore[c] = @ + latency,
                !.totalEnergy = @ + energy,
                !.levelLatency2[from] = @ + latency,
                !.levelLatency2[to] = @ + latency,
                !.levelEnergy2[from] = @ + energy]

\* _charge_path: one direct hop, its cost split evenly between the two levels.
ChargePath(r, from, to, n, c) ==
  LET latency == HopLatency(from, to, n)
      energy  == HopEnergy(from, to, n)
      crosses == (from \in OffChip) # (to \in OffChip)
  IN  [r EXCEPT !.timeByCore[c] = @ + latency,
                !.totalEnergy = @ + energy,
                !.levelLatency2[from] = @ + latency,
                !.levelLatency2[to] = @ + latency,
                !.levelEnergy2[from] = @ + energy,
                !.levelEnergy2[to] = @ + energy,
                !.hops[<<from, to>>] = @ + 1,
                !.hbmRead = @ + When(from = "hbm", n),
                !.hbmWrite = @ + When(to = "hbm", n),
                !.crossRead = @ + When(crosses /\ from \in OffChip, n),
                !.crossWrite = @ + When(crosses /\ to \in OffChip, n)]

\* What _handle_access charges: nothing for a write that stays in place.
ChargeAccess(r, a) ==
  IF DirectStramRead(a) THEN ChargeLocal(r, Home[a.tensor], "read", a.bytes, a.core)
  ELSE IF Source(a) # a.target THEN ChargePath(r, Source(a), a.target, a.bytes, a.core)
  ELSE IF a.op = "write" THEN r
  ELSE ChargeLocal(r, a.target, a.op, a.bytes, a.core)

\* Bytes that refresh keeps alive at a level, over all cores or in its pool.
Occupied(l) ==
  IF l \in PerCore THEN SumFunction([c \in Cores |-> fast[c][l].used]) ELSE pool[l].used

\* Fault: the ticks of the gap are counted from its length alone.
WrongRefreshes(l, end) ==
  IF l \in Enabled /\ RefreshInterval[l] # 0 /\ Occupied(l) > 0
  THEN (end - now) \div RefreshInterval[l]
  ELSE 0

\* Multiples of the interval passed since the last event, if there is data.
Refreshes(l, end) ==
  IF l \in Enabled /\ RefreshInterval[l] # 0 /\ Occupied(l) > 0
  THEN end \div RefreshInterval[l] - now \div RefreshInterval[l]
  ELSE 0

\* _apply_refresh_energy_between(now, end), charged before the event at end.
ChargeRefresh(r, end) ==
  LET refreshes == [l \in Levels |-> Refreshes(l, end)]
      energy    == [l \in Levels |->
                      IF refreshes[l] = 0 THEN 0
                      ELSE refreshes[l] * 8 * Occupied(l) * RefreshEnergy[l]]
  IN  [r EXCEPT !.refreshEnergy = @ + SumFunction(energy),
                !.totalEnergy = @ + SumFunction(energy),
                !.refreshCycles = [l \in Levels |-> @[l] + refreshes[l]],
                !.levelEnergy2 = [l \in Levels |-> @[l] + 2 * energy[l]]]

------------------------------------------------------------------------------
(* The event loop *)

Install == Preinstall /\ UNCHANGED <<start, now, events, result>>

\* The first event sets the clock; later ones let a gap pass.
Times == IF events = 0 THEN {now} ELSE {now + gap : gap \in Gaps}

NextEventAt(end) ==
  /\ events < MaxEvents
  /\ now' = end
  /\ events' = events + 1
  /\ UNCHANGED start

HandleAccess(a, end) ==
  /\ NextEventAt(end)
  /\ Access(a)
  /\ result' = ChargeAccess(ChargeRefresh(result, end), a)

HandleKernelEnd(e, end) ==
  /\ NextEventAt(end)
  /\ KernelEnd(e)
  /\ result' = [ChargeRefresh(result, end) EXCEPT !.kernelWipes = @ + 1]

HandleKernelStart(end) ==
  /\ Loaded
  /\ NextEventAt(end)
  /\ result' = ChargeRefresh(result, end)
  /\ UNCHANGED vars

EngineNext ==
  \/ Install
  \/ \E end \in Times :
       \/ \E a \in Accesses : HandleAccess(a, end)
       \/ \E e \in KernelEnds : HandleKernelEnd(e, end)
       \/ HandleKernelStart(end)

EngineSpec == EngineInit /\ [][EngineNext]_engineVars

------------------------------------------------------------------------------
(* Properties *)

\* The breakdown by level accounts for all the energy, refresh included, and for
\* all the latency the cores were charged (_accumulate_level against the totals).
LedgersBalance ==
  /\ SumFunction(result.levelEnergy2) = 2 * result.totalEnergy
  /\ SumFunction(result.levelLatency2) = 2 * SumFunction(result.timeByCore)

\* However the trace cuts time into events, a level that holds data from the start
\* is refreshed once per multiple of its interval, and no level more often.
HoldsDataThroughout(l) ==
  \E t \in Tensors : Home[t] = l /\ TensorBytes[t] > 0 /\ (Seeded(t) \/ Bootstrapped(t))

RefreshTelescopes ==
  \A l \in Enabled :
    RefreshInterval[l] # 0 =>
      LET due == now \div RefreshInterval[l] - start \div RefreshInterval[l]
      IN  /\ result.refreshCycles[l] <= due
          /\ HoldsDataThroughout(l) => result.refreshCycles[l] = due
==============================================================================
