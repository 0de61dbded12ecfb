----------------------------- MODULE EngineProofs -----------------------------
(***************************************************************************)
(* Proofs about the event loop: it is a run of Residency, its breakdowns   *)
(* account for the totals, and refresh is charged once for each multiple   *)
(* of a level's interval, however the trace cuts time into events.         *)
(***************************************************************************)
EXTENDS Engine, ResidencyProofs

------------------------------------------------------------------------------
(* The event loop moves tensors as Residency does *)

\* Every step of the event loop is one of residency, or leaves its tables alone.
LEMMA EngineSteps == [EngineNext]_engineVars => [Next]_vars
  BY DEF EngineNext, engineVars, Install, HandleAccess, HandleKernelEnd, HandleKernelStart, Next

\* Whatever run_simulation charges, the tables it keeps are those of Residency: all that is
\* proved of them holds in the event loop.
THEOREM EngineRefinesResidency == EngineSpec => Spec
<1>1. EngineInit => Init
  BY DEF EngineInit
<1> QED
  BY <1>1, EngineSteps, PTL DEF EngineSpec, Spec

------------------------------------------------------------------------------
(* Types *)

\* The result with the values its counters can have.
SimulationResult ==
  [timeByCore : [Cores -> Int], totalEnergy : Int,
   levelLatency2 : [Levels -> Int], levelEnergy2 : [Levels -> Int],
   hops : [Levels \X Levels -> Int],
   hbmRead : Int, hbmWrite : Int, crossRead : Int, crossWrite : Int,
   kernelWipes : Int, refreshEnergy : Int, refreshCycles : [Levels -> Int]]

EngineTypeOK ==
  /\ TypeOK
  /\ start \in Nat /\ now \in Nat /\ events \in Nat
  /\ result \in SimulationResult

\* Latencies and energies are counts.
LEMMA CostTypes ==
  ASSUME NEW from \in Levels, NEW to \in Levels, NEW n \in Nat
  PROVE  /\ HopLatency(from, to, n) \in Nat
         /\ LocalLatency(to, n) \in Nat
         /\ \A op : AccessEnergy(to, op, n) \in Nat
         /\ HopEnergy(from, to, n) \in Nat
<1>1. /\ ReadLatency[from] \in Nat /\ ReadLatency[to] \in Nat /\ WriteLatency[to] \in Nat
      /\ ReadEnergy[from] \in Nat /\ ReadEnergy[to] \in Nat /\ WriteEnergy[to] \in Nat
      /\ WriteEnergy[from] \in Nat /\ OnChipTime \in Nat /\ DmaTime \in Nat
  BY CostsAssumption
<1>2. \A k \in Nat : n * k \in Nat /\ 8 * n * k \in Nat
  OBVIOUS
<1>3. LinkTime(from, to) \in Nat
  BY <1>1 DEF LinkTime
<1>4. \A l \in {from, to} : \A op : AccessEnergy(l, op, n) \in Nat
  BY <1>1, <1>2 DEF AccessEnergy
<1> QED
  BY <1>1, <1>2, <1>3, <1>4 DEF HopLatency, LocalLatency, HopEnergy

\* Quotients of times are integers, and grow with the time.
LEMMA Quotients ==
  ASSUME NEW i \in Nat \ {0}, NEW a \in Nat, NEW b \in Nat
  PROVE  /\ a \div i \in Nat
         /\ a <= b => a \div i <= b \div i
<1>1. /\ a \div i \in Nat /\ b \div i \in Nat
      /\ i * (a \div i) <= a /\ b < i * (b \div i) + i
  OBVIOUS
<1>2. ASSUME a <= b, b \div i < a \div i PROVE FALSE
  <2>1. (b \div i) + 1 <= a \div i
    BY <1>1, <1>2
  <2>2. \A x, y \in Nat : x + 1 <= y => i * x + i <= i * y
    OBVIOUS
  <2>3. i * (b \div i) + i <= i * (a \div i)
    BY <1>1, <2>1, <2>2
  <2>4. i * (b \div i) \in Int /\ i * (a \div i) \in Int
    BY <1>1
  <2> QED
    BY <1>1, <1>2, <2>3, <2>4
<1> QED
  BY <1>1, <1>2

\* What a level holds is a number of bytes.
LEMMA OccupiedType ==
  ASSUME TypeOK, NEW l \in Enabled
  PROVE  Occupied(l) \in Int
<1>1. CASE l \in PerCore
  <2>1. \A c \in Cores : fast[c][l].used \in Int
    BY <1>1 DEF TypeOK, Buffer
  <2>2. SumFunctionOnSet([c \in Cores |-> fast[c][l].used], Cores) \in Int
    BY <2>1, FinitenessAssumption, SumInt
  <2> QED
    BY <1>1, <2>2 DEF Occupied, SumFunction
<1>2. CASE l \notin PerCore
  BY <1>2 DEF Occupied, TypeOK, ChipPools, Buffer
<1> QED
  BY <1>1, <1>2

\* The refreshes of a gap, and the energy they cost, are integers.
LEMMA RefreshTypes ==
  ASSUME TypeOK, now \in Nat, NEW end \in Nat, NEW l \in Levels
  PROVE  /\ Refreshes(l, end) \in Int
         /\ Refreshes(l, end) # 0 => Refreshes(l, end) * 8 * Occupied(l) * RefreshEnergy[l] \in Int
<1>1. RefreshInterval[l] \in Nat /\ RefreshEnergy[l] \in Nat
  BY EngineAssumption
<1>2. RefreshInterval[l] # 0 =>
        end \div RefreshInterval[l] \in Nat /\ now \div RefreshInterval[l] \in Nat
  BY <1>1, Quotients
<1>3. Refreshes(l, end) \in Int
  BY <1>2 DEF Refreshes
<1>4. ASSUME Refreshes(l, end) # 0
      PROVE  Refreshes(l, end) * 8 * Occupied(l) * RefreshEnergy[l] \in Int
  <2>1. Occupied(l) \in Int
    BY <1>4, OccupiedType DEF Refreshes
  <2>2. \A x, y, z \in Int : x * 8 * y * z \in Int
    OBVIOUS
  <2> QED
    BY <1>1, <1>3, <2>1, <2>2
<1> QED
  BY <1>3, <1>4

------------------------------------------------------------------------------
(* The ledgers *)

\* The breakdowns of a result account for its totals.
Balanced(r) ==
  /\ SumFunction(r.levelEnergy2) = 2 * r.totalEnergy
  /\ SumFunction(r.levelLatency2) = 2 * SumFunction(r.timeByCore)

\* g is f with n added to one entry.
Bumps(g, f, S, x, n) ==
  /\ g \in [S -> Int]
  /\ g[x] = f[x] + n
  /\ \A y \in S \ {x} : g[y] = f[y]

\* An EXCEPT does that.
LEMMA ExceptBumps ==
  ASSUME NEW S, NEW f \in [S -> Int], NEW x \in S, NEW n \in Int
  PROVE  Bumps([f EXCEPT ![x] = @ + n], f, S, x, n)
  BY DEF Bumps

\* Adding to one entry adds to the sum.
LEMMA SumBump ==
  ASSUME NEW S, IsFiniteSet(S), NEW f \in [S -> Int], NEW x \in S, NEW n \in Int,
         NEW g, Bumps(g, f, S, x, n)
  PROVE  /\ SumFunction(g) = SumFunction(f) + n
         /\ SumFunction(f) \in Int
<1>1. /\ DOMAIN g = S /\ DOMAIN f = S
      /\ \A y \in S : f[y] \in Int /\ g[y] \in Int
      /\ \A y \in S \ {x} : f[y] = g[y]
      /\ g[x] = f[x] + n
  BY DEF Bumps
<1>2. SumFunctionOnSet(g, S) = SumFunctionOnSet(f, S) + g[x] - f[x]
  BY <1>1, SumUpdate
<1>3. SumFunctionOnSet(f, S) \in Int
  BY <1>1, SumInt
<1> QED
  BY <1>1, <1>2, <1>3 DEF SumFunction

\* A local access is recorded once, at its level and its core.
LEMMA ChargeLocalBalances ==
  ASSUME NEW r \in SimulationResult, Balanced(r), NEW l \in Levels, NEW op, NEW n \in Nat,
         NEW c \in Cores
  PROVE  ChargeLocal(r, l, op, n, c) \in SimulationResult /\ Balanced(ChargeLocal(r, l, op, n, c))
<1> DEFINE latency == LocalLatency(l, n)
           energy == AccessEnergy(l, op, n)
           q == ChargeLocal(r, l, op, n, c)
<1>1. latency \in Int /\ energy \in Int /\ 2 * latency \in Int /\ 2 * energy \in Int
  BY CostTypes
<1>2. /\ r.timeByCore \in [Cores -> Int] /\ r.totalEnergy \in Int
      /\ r.levelLatency2 \in [Levels -> Int] /\ r.levelEnergy2 \in [Levels -> Int]
  BY DEF SimulationResult
<1> HIDE DEF latency, energy
<1>3. /\ q.timeByCore = [r.timeByCore EXCEPT ![c] = @ + latency]
      /\ q.totalEnergy = r.totalEnergy + energy
      /\ q.levelLatency2 = [r.levelLatency2 EXCEPT ![l] = @ + 2 * latency]
      /\ q.levelEnergy2 = [r.levelEnergy2 EXCEPT ![l] = @ + 2 * energy]
  BY DEF ChargeLocal, SimulationResult, latency, energy
<1>4. /\ Bumps(q.timeByCore, r.timeByCore, Cores, c, latency)
      /\ Bumps(q.levelLatency2, r.levelLatency2, Levels, l, 2 * latency)
      /\ Bumps(q.levelEnergy2, r.levelEnergy2, Levels, l, 2 * energy)
  <2> HIDE DEF q
  <2> QED
    BY <1>1, <1>2, <1>3 DEF Bumps
<1>5. q \in SimulationResult
  <2>1. /\ q.timeByCore \in [Cores -> Int] /\ q.totalEnergy \in Int
        /\ q.levelLatency2 \in [Levels -> Int] /\ q.levelEnergy2 \in [Levels -> Int]
    <3> HIDE DEF q
    <3> QED
      BY <1>1, <1>2, <1>3, <1>4 DEF Bumps
  <2> QED
    BY <2>1 DEF ChargeLocal, SimulationResult
<1> HIDE DEF q
<1>6. /\ SumFunction(q.timeByCore) = SumFunction(r.timeByCore) + latency
      /\ SumFunction(r.timeByCore) \in Int
  BY <1>1, <1>2, <1>4, FinitenessAssumption, SumBump
<1>7. SumFunction(q.levelLatency2) = SumFunction(r.levelLatency2) + 2 * latency
  BY <1>1, <1>2, <1>4, FinitenessAssumption, SumBump
<1>8. SumFunction(q.levelEnergy2) = SumFunction(r.levelEnergy2) + 2 * energy
  BY <1>1, <1>2, <1>4, FinitenessAssumption, SumBump
<1>9. Balanced(q)
  BY <1>1, <1>2, <1>3, <1>6, <1>7, <1>8 DEF Balanced
<1> QED
  BY <1>5, <1>9 DEF q

\* Adding the same to two entries, or twice to one, adds it twice.
LEMMA SumBumpTwice ==
  ASSUME NEW S, IsFiniteSet(S), NEW f \in [S -> Int], NEW x \in S, NEW y \in S, NEW n \in Int,
         NEW h, Bumps(h, f, S, x, n), NEW g, Bumps(g, h, S, y, n)
  PROVE  SumFunction(g) = SumFunction(f) + 2 * n
<1>1. SumFunction(h) = SumFunction(f) + n /\ SumFunction(f) \in Int
  BY SumBump
<1>2. SumFunction(g) = SumFunction(h) + n
  BY SumBump DEF Bumps
<1> QED
  BY <1>1, <1>2

\* A hop is recorded in halves at its two ends.
LEMMA ChargePathBalances ==
  ASSUME NEW r \in SimulationResult, Balanced(r), NEW from \in Levels, NEW to \in Levels,
         NEW n \in Nat, NEW c \in Cores
  PROVE  ChargePath(r, from, to, n, c) \in SimulationResult /\ Balanced(ChargePath(r, from, to, n, c))
<1> DEFINE latency == HopLatency(from, to, n)
           energy == HopEnergy(from, to, n)
           q == ChargePath(r, from, to, n, c)
           midLatency2 == [r.levelLatency2 EXCEPT ![from] = @ + latency]
           midEnergy2 == [r.levelEnergy2 EXCEPT ![from] = @ + energy]
<1>1. latency \in Int /\ energy \in Int
  BY CostTypes
<1>2. /\ r.timeByCore \in [Cores -> Int] /\ r.totalEnergy \in Int
      /\ r.levelLatency2 \in [Levels -> Int] /\ r.levelEnergy2 \in [Levels -> Int]
      /\ r.hops \in [Levels \X Levels -> Int]
      /\ r.hbmRead \in Int /\ r.hbmWrite \in Int /\ r.crossRead \in Int /\ r.crossWrite \in Int
  BY DEF SimulationResult
<1> HIDE DEF latency, energy
<1>3. /\ q.timeByCore = [r.timeByCore EXCEPT ![c] = @ + latency]
      /\ q.totalEnergy = r.totalEnergy + energy
      /\ q.levelLatency2 = [midLatency2 EXCEPT ![to] = @ + latency]
      /\ q.levelEnergy2 = [midEnergy2 EXCEPT ![to] = @ + energy]
  BY DEF ChargePath, SimulationResult, latency, energy
<1>4. /\ Bumps(midLatency2, r.levelLatency2, Levels, from, latency)
      /\ Bumps(midEnergy2, r.levelEnergy2, Levels, from, energy)
  BY <1>1, <1>2 DEF Bumps
<1> HIDE DEF midLatency2, midEnergy2
<1>5. /\ Bumps(q.timeByCore, r.timeByCore, Cores, c, latency)
      /\ Bumps(q.levelLatency2, midLatency2, Levels, to, latency)
      /\ Bumps(q.levelEnergy2, midEnergy2, Levels, to, energy)
  <2> HIDE DEF q
  <2> QED
    BY <1>1, <1>2, <1>3, <1>4 DEF Bumps
<1>6. q \in SimulationResult
  <2>1. /\ q.timeByCore \in [Cores -> Int] /\ q.totalEnergy \in Int
        /\ q.levelLatency2 \in [Levels -> Int] /\ q.levelEnergy2 \in [Levels -> Int]
    <3> HIDE DEF q
    <3> QED
      BY <1>1, <1>2, <1>3, <1>5 DEF Bumps
  <2>2. \A b : When(b, n) \in Int
    BY DEF When
  <2>3. [r.hops EXCEPT ![<<from, to>>] = @ + 1] \in [Levels \X Levels -> Int]
    BY <1>2
  <2>4. /\ q.hops = [r.hops EXCEPT ![<<from, to>>] = @ + 1]
        /\ q.hbmRead \in Int /\ q.hbmWrite \in Int /\ q.crossRead \in Int /\ q.crossWrite \in Int
    BY <1>2, <2>2 DEF ChargePath, SimulationResult
  <2>5. /\ q.kernelWipes \in Int /\ q.refreshEnergy \in Int
        /\ q.refreshCycles \in [Levels -> Int]
    BY DEF ChargePath, SimulationResult
  <2>6. DOMAIN q = DOMAIN r
    BY DEF ChargePath
  <2>7. q = [x \in DOMAIN r |-> q[x]]
    BY DEF ChargePath
  <2> HIDE DEF q
  <2> QED
    BY <1>2, <2>1, <2>3, <2>4, <2>5, <2>6, <2>7 DEF SimulationResult
<1> HIDE DEF q
<1>7. /\ SumFunction(q.timeByCore) = SumFunction(r.timeByCore) + latency
      /\ SumFunction(r.timeByCore) \in Int
  BY <1>1, <1>2, <1>5, FinitenessAssumption, SumBump
<1>8. SumFunction(q.levelLatency2) = SumFunction(r.levelLatency2) + 2 * latency
  BY <1>1, <1>2, <1>4, <1>5, FinitenessAssumption, SumBumpTwice
<1>9. SumFunction(q.levelEnergy2) = SumFunction(r.levelEnergy2) + 2 * energy
  BY <1>1, <1>2, <1>4, <1>5, FinitenessAssumption, SumBumpTwice
<1>10. Balanced(q)
  BY <1>1, <1>2, <1>3, <1>7, <1>8, <1>9 DEF Balanced
<1> QED
  BY <1>6, <1>10 DEF q

\* Refresh energy is recorded at the levels that are refreshed.
LEMMA ChargeRefreshBalances ==
  ASSUME TypeOK, now \in Nat, NEW r \in SimulationResult, Balanced(r), NEW end \in Nat
  PROVE  /\ ChargeRefresh(r, end) \in SimulationResult
         /\ Balanced(ChargeRefresh(r, end))
         /\ \A l \in Levels :
              ChargeRefresh(r, end).refreshCycles[l] = r.refreshCycles[l] + Refreshes(l, end)
<1> DEFINE refreshes == [l \in Levels |-> Refreshes(l, end)]
           energy == [l \in Levels |->
                        IF refreshes[l] = 0 THEN 0
                        ELSE refreshes[l] * 8 * Occupied(l) * RefreshEnergy[l]]
           total == SumFunction(energy)
           q == ChargeRefresh(r, end)
           levelEnergy2 == [l \in Levels |-> r.levelEnergy2[l] + 2 * energy[l]]
           refreshCycles == [l \in Levels |-> r.refreshCycles[l] + refreshes[l]]
<1>1. refreshes \in [Levels -> Int] /\ energy \in [Levels -> Int]
  BY RefreshTypes
<1>2. /\ r.timeByCore \in [Cores -> Int] /\ r.totalEnergy \in Int
      /\ r.levelLatency2 \in [Levels -> Int] /\ r.levelEnergy2 \in [Levels -> Int]
      /\ r.refreshEnergy \in Int /\ r.refreshCycles \in [Levels -> Int]
  BY DEF SimulationResult
<1>3. total \in Int
  <2> HIDE DEF energy
  <2> QED
    BY <1>1, FinitenessAssumption, SumInt DEF SumFunction
<1>4. q = [r EXCEPT !.refreshEnergy = @ + total, !.totalEnergy = @ + total,
                    !.refreshCycles = [l \in Levels |-> @[l] + refreshes[l]],
                    !.levelEnergy2 = [l \in Levels |-> @[l] + 2 * energy[l]]]
  BY DEF ChargeRefresh
<1> HIDE DEF q, total
<1>5. levelEnergy2 \in [Levels -> Int] /\ refreshCycles \in [Levels -> Int]
  <2> HIDE DEF refreshes, energy
  <2> QED
    BY <1>1, <1>2
<1>6. SumFunction(levelEnergy2) = SumFunction(r.levelEnergy2) + 2 * total
  <2> DEFINE twice == [l \in Levels |-> energy[l] + energy[l]]
  <2> HIDE DEF energy
  <2>1. SumFunctionOnSet(twice, Levels)
          = SumFunctionOnSet(energy, Levels) + SumFunctionOnSet(energy, Levels)
    BY <1>1, FinitenessAssumption, SumPlus
  <2>2. SumFunctionOnSet(levelEnergy2, Levels)
          = SumFunctionOnSet(r.levelEnergy2, Levels) + SumFunctionOnSet(twice, Levels)
    <3>1. \A l \in Levels : /\ r.levelEnergy2[l] \in Int /\ twice[l] \in Int
                            /\ levelEnergy2[l] = r.levelEnergy2[l] + twice[l]
      BY <1>1, <1>2
    <3> HIDE DEF levelEnergy2, twice
    <3> QED
      BY <3>1, FinitenessAssumption, SumPlus
  <2>3. DOMAIN levelEnergy2 = Levels /\ DOMAIN r.levelEnergy2 = Levels /\ DOMAIN energy = Levels
    BY <1>1, <1>2
  <2>4. total = SumFunctionOnSet(energy, Levels)
    BY <2>3 DEF SumFunction, total
  <2> HIDE DEF levelEnergy2, twice
  <2> QED
    BY <1>3, <2>1, <2>2, <2>3, <2>4 DEF SumFunction
<1>7. /\ q.levelEnergy2 = levelEnergy2 /\ q.totalEnergy = r.totalEnergy + total
      /\ q.levelLatency2 = r.levelLatency2 /\ q.timeByCore = r.timeByCore
      /\ q.refreshCycles = refreshCycles /\ q.refreshEnergy = r.refreshEnergy + total
  <2> HIDE DEF refreshes, energy
  <2> QED
    BY <1>4 DEF SimulationResult
<1>8. q \in SimulationResult
  <2>1. /\ q.hops \in [Levels \X Levels -> Int] /\ q.kernelWipes \in Int
        /\ q.hbmRead \in Int /\ q.hbmWrite \in Int /\ q.crossRead \in Int /\ q.crossWrite \in Int
        /\ DOMAIN q = DOMAIN r /\ q = [x \in DOMAIN r |-> q[x]]
    <3> HIDE DEF refreshes, energy
    <3> QED
      BY <1>4 DEF SimulationResult
  <2> HIDE DEF levelEnergy2, refreshCycles
  <2> QED
    BY <1>2, <1>3, <1>5, <1>7, <2>1 DEF SimulationResult
<1>9. Balanced(q)
  <2> HIDE DEF levelEnergy2
  <2> QED
    BY <1>2, <1>3, <1>6, <1>7 DEF Balanced
<1>10. \A l \in Levels : q.refreshCycles[l] = r.refreshCycles[l] + Refreshes(l, end)
  BY <1>7
<1> QED
  BY <1>8, <1>9, <1>10 DEF q

\* An access is charged at its levels and its core.
LEMMA ChargeAccessBalances ==
  ASSUME TypeOK, NEW r \in SimulationResult, Balanced(r), NEW a \in Accesses
  PROVE  /\ ChargeAccess(r, a) \in SimulationResult /\ Balanced(ChargeAccess(r, a))
         /\ ChargeAccess(r, a).refreshCycles = r.refreshCycles
<1>1. /\ a.tensor \in Tensors /\ a.target \in Levels /\ a.bytes \in Nat /\ a.core \in Cores
      /\ Home[a.tensor] \in Levels
  BY TraceAssumption, HomeAndCore DEF AccessEvent
<1>2. Source(a) \in Levels
  BY <1>1, LevelsAssumption DEF Source, TypeOK
<1>3. \A l, op, n, c : ChargeLocal(r, l, op, n, c).refreshCycles = r.refreshCycles
  BY DEF ChargeLocal, SimulationResult
<1>4. \A from, to, n, c : ChargePath(r, from, to, n, c).refreshCycles = r.refreshCycles
  BY DEF ChargePath, SimulationResult
<1>5. \A l \in Levels : \A op : /\ ChargeLocal(r, l, op, a.bytes, a.core) \in SimulationResult
                                /\ Balanced(ChargeLocal(r, l, op, a.bytes, a.core))
  BY <1>1, ChargeLocalBalances
<1>6. /\ ChargePath(r, Source(a), a.target, a.bytes, a.core) \in SimulationResult
      /\ Balanced(ChargePath(r, Source(a), a.target, a.bytes, a.core))
  BY <1>1, <1>2, ChargePathBalances
<1> QED
  BY <1>1, <1>3, <1>4, <1>5, <1>6 DEF ChargeAccess

\* Every event lets some time pass, refreshes what is held and adds its own charges,
\* which are no refreshes.
LEMMA EventSteps ==
  ASSUME EngineTypeOK, Balanced(result), [EngineNext]_engineVars, result' # result \/ now' # now
  PROVE  /\ Loaded /\ events' = events + 1 /\ now' \in Times /\ now' \in Nat /\ now <= now'
         /\ start' = start
         /\ result' \in SimulationResult /\ Balanced(result')
         /\ \A l \in Levels :
              result'.refreshCycles[l] = result.refreshCycles[l] + Refreshes(l, now')
<1> DEFINE r == ChargeRefresh(result, now')
<1>1. PICK end \in Times : \/ \E a \in Accesses : HandleAccess(a, end)
                           \/ \E e \in KernelEnds : HandleKernelEnd(e, end)
                           \/ HandleKernelStart(end)
  BY DEF EngineNext, Install, engineVars
<1>2. now' = end /\ events' = events + 1 /\ start' = start
  BY <1>1 DEF HandleAccess, HandleKernelEnd, HandleKernelStart, NextEventAt
<1>3. now' \in Nat /\ now <= now'
  BY <1>1, <1>2, EngineAssumption DEF Times, EngineTypeOK
<1>4. /\ r \in SimulationResult /\ Balanced(r)
      /\ \A l \in Levels : r.refreshCycles[l] = result.refreshCycles[l] + Refreshes(l, now')
  BY <1>3, ChargeRefreshBalances DEF EngineTypeOK
<1> HIDE DEF r
<1>5. ASSUME NEW a \in Accesses, HandleAccess(a, end)
      PROVE  /\ Loaded /\ result' \in SimulationResult /\ Balanced(result')
             /\ result'.refreshCycles = r.refreshCycles
  <2>1. Loaded /\ result' = ChargeAccess(r, a)
    BY <1>2, <1>5 DEF HandleAccess, Access, AccessInPlace, AccessMoves, r
  <2> QED
    BY <1>4, <2>1, ChargeAccessBalances DEF EngineTypeOK
<1>6. ASSUME NEW e \in KernelEnds, HandleKernelEnd(e, end)
      PROVE  /\ Loaded /\ result' \in SimulationResult /\ Balanced(result')
             /\ result'.refreshCycles = r.refreshCycles
  <2>1. Loaded /\ result' = [r EXCEPT !.kernelWipes = @ + 1]
    BY <1>2, <1>6 DEF HandleKernelEnd, KernelEnd, r
  <2>2. result' \in SimulationResult
    BY <1>4, <2>1 DEF SimulationResult
  <2>3. /\ result'.levelEnergy2 = r.levelEnergy2 /\ result'.totalEnergy = r.totalEnergy
        /\ result'.levelLatency2 = r.levelLatency2 /\ result'.timeByCore = r.timeByCore
        /\ result'.refreshCycles = r.refreshCycles
    BY <1>4, <2>1 DEF SimulationResult
  <2> QED
    BY <1>4, <2>1, <2>2, <2>3 DEF Balanced
<1>7. ASSUME HandleKernelStart(end)
      PROVE  Loaded /\ result' = r
  BY <1>2, <1>7 DEF HandleKernelStart, r
<1> QED
  BY <1>1, <1>2, <1>3, <1>4, <1>5, <1>6, <1>7

\* The types of the event loop, and the balance of the books it keeps.
EngineInv ==
  /\ EngineTypeOK
  /\ Balanced(result)

\* Nothing has been charged at first.
LEMMA EngineInvInit == EngineInit => EngineInv
<1> SUFFICES ASSUME EngineInit PROVE EngineInv
  OBVIOUS
<1>1. TypeOK
  BY TypeInit DEF EngineInit
<1>2. start \in Nat /\ now \in Nat /\ events \in Nat
  BY EngineAssumption DEF EngineInit
<1>3. result = NoResult /\ NoResult \in SimulationResult
  BY DEF EngineInit, NoResult, SimulationResult
<1>4. /\ SumFunctionOnSet([l \in Levels |-> 0], Levels) = 0
      /\ SumFunctionOnSet([c \in Cores |-> 0], Cores) = 0
  BY FinitenessAssumption, SumZero
<1>5. Balanced(NoResult)
  BY <1>4 DEF Balanced, NoResult, SumFunction
<1> QED
  BY <1>1, <1>2, <1>3, <1>5 DEF EngineInv, EngineTypeOK

\* Whatever is charged goes to a total and to its part.
LEMMA EngineInvNext == EngineInv /\ [EngineNext]_engineVars => EngineInv'
<1> SUFFICES ASSUME EngineInv, [EngineNext]_engineVars PROVE EngineInv'
  OBVIOUS
<1>1. TypeOK'
  BY EngineSteps, TypeNext DEF EngineInv, EngineTypeOK
<1>2. CASE result' # result \/ now' # now
  BY <1>1, <1>2, EventSteps DEF EngineInv, EngineTypeOK
<1>3. CASE result' = result /\ now' = now
  <2>1. start' = start /\ (events' = events \/ events' = events + 1)
    BY DEF EngineNext, engineVars, Install, HandleAccess, HandleKernelEnd, HandleKernelStart,
           NextEventAt
  <2> QED
    BY <1>1, <1>3, <2>1 DEF EngineInv, EngineTypeOK, Balanced
<1> QED
  BY <1>2, <1>3

\* Whatever the trace, the breakdown by level accounts for all the energy, refresh
\* included, and for all the latency the cores are charged.
THEOREM LedgersAlwaysBalance == EngineSpec => []LedgersBalance
<1>1. EngineInv => LedgersBalance
  BY DEF EngineInv, Balanced, LedgersBalance
<1> QED
  BY <1>1, EngineInvInit, EngineInvNext, PTL DEF EngineSpec

------------------------------------------------------------------------------
(* What is refreshed *)

\* Every tensor has a byte and every access moves one.
PositiveSizes == \A t \in Tensors : \A n \in SizesOf(t) : n > 0

\* Balanced buffers whose occupants all have bytes.
Positive == {b \in Buffer : BooksBalance(b) /\ \A u \in Range(b.order) : b.size[u] > 0}

AllPositive ==
  /\ \A c \in Cores, l \in PerCore : fast[c][l] \in Positive
  /\ \A l \in ChipPools : pool[l] \in Positive

\* Such a buffer counts some bytes if it has an occupant.
LEMMA PositiveUsed ==
  ASSUME NEW b \in Positive
  PROVE  b.used \in Nat /\ (b.order # <<>> => b.used > 0)
<1>1. /\ b \in Buffer /\ b.used = SumFunctionOnSet(b.size, Range(b.order))
      /\ \A u \in Range(b.order) : b.size[u] > 0
  BY DEF Positive, BooksBalance
<1>2. IsFiniteSet(Range(b.order)) /\ Range(b.order) \subseteq Tensors
  BY <1>1, OccupantsFinite
<1>3. \A u \in Range(b.order) : b.size[u] \in Nat
  BY <1>1, <1>2 DEF Buffer
<1>4. /\ SumFunctionOnSet(b.size, Range(b.order)) \in Nat
      /\ \A u \in Range(b.order) : b.size[u] <= SumFunctionOnSet(b.size, Range(b.order))
  BY <1>2, <1>3, SumNat
<1>5. ASSUME b.order # <<>> PROVE b.used > 0
  <2>1. Head(b.order) \in Range(b.order)
    BY <1>1, <1>5, OccupantsAfter DEF Positive, BooksBalance, Distinct
  <2> QED
    BY <1>1, <1>3, <1>4, <2>1
<1> QED
  BY <1>1, <1>4, <1>5

\* install keeps all sizes positive, and leaves an occupant.
LEMMA PutPositive ==
  ASSUME NEW b \in Positive, NEW t \in Tensors, NEW n \in Nat, n > 0
  PROVE  Put(b, t, n) \in Positive /\ Put(b, t, n).order # <<>>
<1> DEFINE q == Put(b, t, n)
<1>1. /\ b \in Buffer /\ BooksBalance(b) /\ Distinct(b)
      /\ \A u \in Range(b.order) : b.size[u] > 0
      /\ Range(b.order) \subseteq Tensors /\ b.size \in [Tensors -> Nat]
  BY OccupantsFinite DEF Positive, BooksBalance, Distinct, Buffer
<1>2. q \in Buffer /\ BooksBalance(q) /\ Range(q.order) = Range(b.order) \cup {t}
  BY <1>1, PutType, PutBalances, OccupantsAfter
<1>3. q.size = [b.size EXCEPT ![t] = n]
  BY DEF Put
<1> HIDE DEF q
<1>4. \A u \in Range(q.order) : q.size[u] > 0
  BY <1>1, <1>2, <1>3
<1>5. q.order # <<>>
  <2>1. Range(<<>>) = {}
    BY DEF Range
  <2> QED
    BY <1>2, <2>1
<1>6. q \in Positive /\ q.order # <<>>
  BY <1>2, <1>4, <1>5 DEF Positive
<1> QED
  BY <1>6 DEF q

\* So does an install into a fast buffer.
LEMMA InstalledPositive ==
  ASSUME NEW b \in Positive, NEW l \in Levels, NEW t \in Tensors, NEW n \in Nat, n > 0
  PROVE  Installed(b, l, t, n) \in Positive /\ Installed(b, l, t, n).order # <<>>
<1>1. CASE Victims(b, l, t, n) = {}
  BY <1>1, PutPositive DEF Installed
<1>2. CASE Victims(b, l, t, n) # {}
  <2> DEFINE d == DropOldest(b)
             h == Head(b.order)
  <2>1. /\ b.order # <<>> /\ b \in Buffer /\ BooksBalance(b) /\ Distinct(b)
        /\ \A u \in Range(b.order) : b.size[u] > 0
        /\ Range(b.order) \subseteq Tensors /\ b.size \in [Tensors -> Nat]
    BY <1>2, OccupantsFinite DEF Victims, Positive, BooksBalance, Distinct, Buffer
  <2>2. d \in Buffer /\ BooksBalance(d) /\ Range(d.order) = Range(b.order) \ {h}
    BY <2>1, DropOldestType, DropOldestBalances, OccupantsAfter
  <2>3. d.size = [b.size EXCEPT ![h] = 0]
    BY DEF DropOldest
  <2> HIDE DEF d, h
  <2>4. \A u \in Range(d.order) : d.size[u] > 0
    BY <2>1, <2>2, <2>3
  <2>5. d \in Positive
    BY <2>2, <2>4 DEF Positive
  <2>6. Put(d, t, n) \in Positive /\ Put(d, t, n).order # <<>>
    BY <2>5, PutPositive
  <2> QED
    BY <1>2, <2>6 DEF Installed, d
<1> QED
  BY <1>1, <1>2

\* An empty buffer has no occupant without bytes.
LEMMA EmptyPositive == EmptyBuffer \in Positive
<1>1. Range(EmptyBuffer.order) = {}
  BY DEF EmptyBuffer, Range
<1> QED
  BY <1>1, EmptyBufferType, EmptyBufferBalances DEF Positive

\* No step puts a tensor without bytes into a buffer.
LEMMA AllPositiveNext ==
  ASSUME PositiveSizes, TypeOK, AllPositive, [Next]_vars
  PROVE  AllPositive'
<1> DEFINE F == [c \in Cores |-> [l \in PerCore |-> Positive]]
<1>1. /\ \A c \in Cores, l \in PerCore : fast[c][l] \in F[c][l]
      /\ \A c \in Cores, l \in PerCore \cap WipeLevels : EmptyBuffer \in F[c][l]
  BY EmptyPositive DEF AllPositive
<1>2. ASSUME NEW c \in Cores, NEW l \in PerCore, NEW b \in F[c][l], NEW t \in Tensors,
             NEW n \in SizesOf(t)
      PROVE  Installed(b, l, t, n) \in F[c][l]
  <2>1. n \in Nat /\ n > 0 /\ l \in Levels
    BY SizesAreNat, LevelsAssumption DEF PositiveSizes
  <2> QED
    BY <2>1, InstalledPositive
<1> HIDE DEF F
<1>3. \A c \in Cores, l \in PerCore : fast'[c][l] \in F[c][l]
  BY <1>1, <1>2, FastBuffersStay
<1>4. ASSUME NEW l \in ChipPools PROVE pool'[l] \in Positive
  <2>1. pool[l] \in Positive /\ PoolStep(l)
    BY PoolSteps DEF AllPositive
  <2>2. \A t \in Tensors : \A n \in SizesOf(t) : Put(pool[l], t, n) \in Positive
    BY <2>1, SizesAreNat, PutPositive DEF PositiveSizes
  <2> QED
    BY <2>1, <2>2 DEF PoolStep
<1> QED
  BY <1>3, <1>4 DEF AllPositive, F

\* The buffer or pool that t was installed in at the start has an occupant.
Filled(t) ==
  IF Home[t] \in PerCore THEN fast[CoreOf(t)][Home[t]].order # <<>>
  ELSE pool[Home[t]].order # <<>>

\* The two loops fill the home of every tensor they choose.
FilledInv ==
  \A t \in Tensors :
    /\ Seeded(t) => Filled(t) \/ t \in Range(seeding)
    /\ Bootstrapped(t) => Filled(t) \/ t \in Range(booting)

\* A home that is filled stays filled: kernels wipe none that the loops choose, and an
\* eviction makes room for a newcomer.
LEMMA FilledStays ==
  ASSUME PositiveSizes, TypeOK, AllPositive, [Next]_vars,
         NEW t \in Tensors, Seeded(t) \/ Bootstrapped(t), Filled(t)
  PROVE  Filled(t)'
<1>1. CASE Home[t] \in PerCore
  <2> DEFINE d == CoreOf(t)
             k == Home[t]
             F == [c \in Cores |-> [l \in PerCore |->
                     {b \in Positive : c = d /\ l = k => b.order # <<>>}]]
  <2>1. d \in Cores /\ k \in PerCore \ WipeLevels /\ fast[d][k].order # <<>>
    BY <1>1, HomeAndCore DEF Seeded, Bootstrapped, Filled
  <2>2. /\ \A c \in Cores, l \in PerCore : fast[c][l] \in F[c][l]
        /\ \A c \in Cores, l \in PerCore \cap WipeLevels : EmptyBuffer \in F[c][l]
    BY <2>1, EmptyPositive DEF AllPositive
  <2>3. ASSUME NEW c \in Cores, NEW l \in PerCore, NEW b \in F[c][l], NEW u \in Tensors,
               NEW n \in SizesOf(u)
        PROVE  Installed(b, l, u, n) \in F[c][l]
    <3>1. n \in Nat /\ n > 0 /\ l \in Levels /\ b \in Positive
      BY SizesAreNat, LevelsAssumption DEF PositiveSizes
    <3> QED
      BY <3>1, InstalledPositive
  <2>4. \A c \in Cores, l \in PerCore : fast'[c][l] \in F[c][l]
    <3> HIDE DEF F
    <3> QED
      BY <2>2, <2>3, FastBuffersStay
  <2> QED
    BY <1>1, <2>1, <2>4 DEF Filled
<1>2. CASE Home[t] \notin PerCore
  <2>1. Home[t] \in ChipPools
    BY <1>2, HomeAndCore DEF ChipPools
  <2>2. PoolStep(Home[t]) /\ pool[Home[t]] \in Positive
    BY <2>1, PoolSteps DEF AllPositive
  <2>3. \A u \in Tensors : \A n \in SizesOf(u) : Put(pool[Home[t]], u, n).order # <<>>
    BY <2>2, SizesAreNat, PutPositive DEF PositiveSizes
  <2> QED
    BY <1>2, <2>2, <2>3 DEF PoolStep, Filled
<1> QED
  BY <1>1, <1>2

\* Installing a home fills it.
LEMMA InstallFills ==
  ASSUME PositiveSizes, TypeOK, AllPositive, NEW t \in Tensors, InstallHome(t, TRUE)
  PROVE  Filled(t)'
<1>1. TensorBytes[t] \in Nat /\ TensorBytes[t] > 0 /\ CoreOf(t) \in Cores /\ Home[t] \in Levels
  BY SizesAreNat, HomeAndCore DEF PositiveSizes
<1>2. CASE Home[t] \in PerCore
  <2>1. fast' = [fast EXCEPT ![CoreOf(t)][Home[t]] =
                   Installed(fast[CoreOf(t)][Home[t]], Home[t], t, TensorBytes[t])]
    BY <1>2 DEF InstallHome, InstallInFastBuffer, ChipPools
  <2>2. fast'[CoreOf(t)][Home[t]]
          = Installed(fast[CoreOf(t)][Home[t]], Home[t], t, TensorBytes[t])
    BY <1>1, <1>2, <2>1 DEF TypeOK
  <2> QED
    BY <1>1, <1>2, <2>2, InstalledPositive DEF AllPositive, Filled
<1>3. CASE Home[t] \notin PerCore
  <2>1. Home[t] \in ChipPools
    BY <1>3, HomeAndCore DEF ChipPools
  <2>2. pool'[Home[t]] = Put(pool[Home[t]], t, TensorBytes[t])
    BY <1>3, <2>1 DEF InstallHome, TypeOK
  <2> QED
    BY <1>1, <1>3, <2>1, <2>2, PutPositive DEF AllPositive, Filled
<1> QED
  BY <1>2, <1>3

\* No home is installed at first.
LEMMA FilledInit == Init => FilledInv /\ AllPositive
  BY TensorsAssumption, EmptyPositive DEF Init, FilledInv, AllPositive

\* Homes that are installed stay, until a kernel wipes them.
LEMMA FilledNext ==
  ASSUME PositiveSizes, TypeOK, AllPositive, FilledInv, [Next]_vars
  PROVE  FilledInv'
<1> SUFFICES ASSUME NEW t \in Tensors
             PROVE  /\ Seeded(t) => Filled(t)' \/ t \in Range(seeding')
                    /\ Bootstrapped(t) => Filled(t)' \/ t \in Range(booting')
  BY DEF FilledInv, Seeded, Bootstrapped
<1>1. (Seeded(t) \/ Bootstrapped(t)) /\ Filled(t) => Filled(t)'
  BY FilledStays
<1>2. CASE SeedHome
  <2>1. Head(seeding) \in Tensors /\ seeding \in Seq(Tensors) /\ seeding # <<>>
    BY <1>2 DEF SeedHome, TypeOK
  <2>2. t \in Range(seeding) => t = Head(seeding) \/ t \in Range(seeding')
    BY <1>2, <2>1, TailRange DEF SeedHome
  <2>3. t = Head(seeding) /\ Seeded(t) => Filled(t)'
    BY <1>2, <2>1, InstallFills DEF SeedHome
  <2>4. booting' = booting
    BY <1>2 DEF SeedHome
  <2> QED
    BY <1>1, <2>2, <2>3, <2>4 DEF FilledInv
<1>3. CASE BootstrapHome
  <2>1. Head(booting) \in Tensors /\ booting \in Seq(Tensors) /\ booting # <<>>
    BY <1>3 DEF BootstrapHome, TypeOK
  <2>2. t \in Range(booting) => t = Head(booting) \/ t \in Range(booting')
    BY <1>3, <2>1, TailRange DEF BootstrapHome
  <2>3. t = Head(booting) /\ Bootstrapped(t) => Filled(t)'
    BY <1>3, <2>1, InstallFills DEF BootstrapHome
  <2>4. seeding' = seeding
    BY <1>3 DEF BootstrapHome
  <2> QED
    BY <1>1, <2>2, <2>3, <2>4 DEF FilledInv
<1>4. CASE UNCHANGED <<seeding, booting>>
  BY <1>1, <1>4 DEF FilledInv
<1> QED
  BY <1>2, <1>3, <1>4
     DEF Next, Preinstall, Access, AccessInPlace, AccessMoves, KernelEnd, vars

\* Once the trace begins, a level that holds data from the start holds some bytes.
LEMMA OccupiedThroughout ==
  ASSUME TypeOK, AllPositive, FilledInv, Loaded, NEW l \in Enabled, HoldsDataThroughout(l)
  PROVE  Occupied(l) > 0
<1>1. PICK t \in Tensors : Home[t] = l /\ (Seeded(t) \/ Bootstrapped(t))
  BY DEF HoldsDataThroughout
<1>2. Filled(t)
  <2>1. Range(<<>>) = {}
    BY DEF Range
  <2> QED
    BY <1>1, <2>1 DEF FilledInv, Loaded
<1>3. CASE l \in PerCore
  <2> DEFINE used == [c \in Cores |-> fast[c][l].used]
  <2>1. \A c \in Cores : used[c] \in Nat
    BY <1>3, PositiveUsed DEF AllPositive
  <2>2. CoreOf(t) \in Cores /\ used[CoreOf(t)] > 0
    BY <1>1, <1>2, <1>3, HomeAndCore, PositiveUsed DEF AllPositive, Filled
  <2> HIDE DEF used
  <2>3. /\ SumFunctionOnSet(used, Cores) \in Nat
        /\ used[CoreOf(t)] <= SumFunctionOnSet(used, Cores)
    BY <2>1, <2>2, FinitenessAssumption, SumNat
  <2>4. SumFunctionOnSet(used, Cores) > 0
    BY <2>1, <2>2, <2>3
  <2>5. Occupied(l) = SumFunctionOnSet(used, Cores)
    BY <1>3 DEF Occupied, SumFunction, used
  <2> QED
    BY <2>4, <2>5
<1>4. CASE l \notin PerCore
  <2>1. l \in ChipPools /\ pool[l] \in Positive /\ pool[l].order # <<>>
    BY <1>1, <1>2, <1>4 DEF ChipPools, AllPositive, Filled
  <2> QED
    BY <1>4, <2>1, PositiveUsed DEF Occupied
<1> QED
  BY <1>3, <1>4

\* The multiples of l's interval since the trace began.
Due(l) == now \div RefreshInterval[l] - start \div RefreshInterval[l]

\* The refreshes of a gap are what it adds to those due, or none.
LEMMA RefreshesOfGap ==
  ASSUME EngineTypeOK, NEW l \in Enabled, RefreshInterval[l] # 0, now' \in Nat, now <= now',
         start' = start
  PROVE  /\ Refreshes(l, now') \in Int /\ Due(l) \in Int /\ Due(l)' \in Int
         /\ Refreshes(l, now') <= Due(l)' - Due(l)
         /\ Occupied(l) > 0 => Refreshes(l, now') = Due(l)' - Due(l)
<1> DEFINE i == RefreshInterval[l]
<1>1. i \in Nat \ {0}
  BY EngineAssumption, LevelsAssumption
<1>2. /\ now \div i \in Nat /\ now' \div i \in Nat /\ start \div i \in Nat
      /\ now \div i <= now' \div i
  BY <1>1, Quotients DEF EngineTypeOK
<1>3. Refreshes(l, now') = IF Occupied(l) > 0 THEN now' \div i - now \div i ELSE 0
  BY DEF Refreshes
<1>4. Due(l) = now \div i - start \div i /\ Due(l)' = now' \div i - start \div i
  BY DEF Due
<1> HIDE DEF i
<1> QED
  BY <1>2, <1>3, <1>4

\* No level is refreshed more often than is due, and one that holds data throughout
\* not less often.
TelescopeInv ==
  /\ EngineInv
  /\ AllPositive
  /\ FilledInv
  /\ \A l \in Enabled :
       RefreshInterval[l] # 0 =>
         /\ result.refreshCycles[l] <= Due(l)
         /\ HoldsDataThroughout(l) => result.refreshCycles[l] = Due(l)

\* At the first event no refresh is due.
LEMMA TelescopeInit == EngineInit => TelescopeInv
<1> SUFFICES ASSUME EngineInit PROVE TelescopeInv
  OBVIOUS
<1>1. EngineInv /\ AllPositive /\ FilledInv
  BY EngineInvInit, FilledInit DEF EngineInit
<1>2. ASSUME NEW l \in Enabled, RefreshInterval[l] # 0
      PROVE  result.refreshCycles[l] = 0 /\ Due(l) = 0
  <2>1. result.refreshCycles[l] = 0
    BY LevelsAssumption DEF EngineInit, NoResult
  <2>2. RefreshInterval[l] \in Nat \ {0} /\ start \in Nat /\ now = start
    BY <1>2, EngineAssumption, LevelsAssumption DEF EngineInit
  <2>3. start \div RefreshInterval[l] \in Nat
    BY <2>2, Quotients
  <2> QED
    BY <2>1, <2>2, <2>3 DEF Due
<1> QED
  BY <1>1, <1>2 DEF TelescopeInv

\* Each gap charges no more than becomes due in it, and no less where data is held.
LEMMA TelescopeNext ==
  ASSUME PositiveSizes, TelescopeInv, [EngineNext]_engineVars
  PROVE  TelescopeInv'
<1>1. EngineInv' /\ TypeOK /\ [Next]_vars
  BY EngineInvNext, EngineSteps DEF TelescopeInv, EngineInv, EngineTypeOK
<1>2. AllPositive' /\ FilledInv'
  BY <1>1, AllPositiveNext, FilledNext DEF TelescopeInv
<1>3. \A l : HoldsDataThroughout(l)' <=> HoldsDataThroughout(l)
  BY DEF HoldsDataThroughout, Seeded, Bootstrapped
<1>4. ASSUME NEW l \in Enabled, RefreshInterval[l] # 0
      PROVE  /\ result'.refreshCycles[l] <= Due(l)'
             /\ HoldsDataThroughout(l) => result'.refreshCycles[l] = Due(l)'
  <2>1. /\ result.refreshCycles[l] <= Due(l)
        /\ HoldsDataThroughout(l) => result.refreshCycles[l] = Due(l)
        /\ result.refreshCycles[l] \in Int
    BY <1>4, LevelsAssumption DEF TelescopeInv, EngineInv, EngineTypeOK, SimulationResult
  <2>2. CASE result' # result \/ now' # now
    <3>1. /\ Loaded /\ now' \in Nat /\ now <= now' /\ start' = start
          /\ result'.refreshCycles[l] = result.refreshCycles[l] + Refreshes(l, now')
      BY <2>2, EventSteps, LevelsAssumption DEF TelescopeInv, EngineInv
    <3>2. /\ Refreshes(l, now') \in Int /\ Due(l) \in Int /\ Due(l)' \in Int
          /\ Refreshes(l, now') <= Due(l)' - Due(l)
          /\ Occupied(l) > 0 => Refreshes(l, now') = Due(l)' - Due(l)
      BY <1>4, <3>1, RefreshesOfGap DEF TelescopeInv, EngineInv
    <3>3. HoldsDataThroughout(l) => Occupied(l) > 0
      BY <1>1, <3>1, OccupiedThroughout DEF TelescopeInv
    <3> QED
      BY <2>1, <3>1, <3>2, <3>3
  <2>3. CASE result' = result /\ now' = now
    <3>1. start' = start
      BY DEF EngineNext, engineVars, Install, HandleAccess, HandleKernelEnd,
             HandleKernelStart, NextEventAt
    <3>2. Due(l)' = Due(l)
      BY <2>3, <3>1 DEF Due
    <3> QED
      BY <2>1, <2>3, <3>2
  <2> QED
    BY <2>2, <2>3
<1> QED
  BY <1>1, <1>2, <1>3, <1>4 DEF TelescopeInv

\* However the trace cuts time into events, a level that holds data from the start is
\* refreshed once per multiple of its interval, and no level more often
\* (_apply_refresh_energy_between).
THEOREM RefreshAlwaysTelescopes ==
  ASSUME PositiveSizes
  PROVE  EngineSpec => []RefreshTelescopes
<1>1. TelescopeInv => RefreshTelescopes
  BY DEF TelescopeInv, Due, RefreshTelescopes
<1>2. TelescopeInv /\ [EngineNext]_engineVars => TelescopeInv'
  BY TelescopeNext
<1> QED
  BY <1>1, <1>2, TelescopeInit, PTL DEF EngineSpec
==============================================================================
