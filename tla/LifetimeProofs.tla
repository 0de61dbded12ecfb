---------------------------- MODULE LifetimeProofs ----------------------------
(***************************************************************************)
(* Proofs about lifetime analysis: a kernel that has ended is active on no *)
(* core, the reported time in SBUF is never less than the simulator's, and *)
(* the bins are ordered by lifetime.                                       *)
(***************************************************************************)
EXTENDS LifetimeLockstep, ResidencyProofs

ActiveTypeOK == active \in [Cores -> SUBSET Kernels]

\* Where a kernel that has not ended may be active: only there where its start put it.
ActiveWhereStarted ==
  \A c \in Cores, k \in Kernels : k \in active[c] =>
    \E p \in opened : p[1] = k /\ (IF p[2] = NoCore THEN c = CoreZero ELSE c = p[2])

ActiveInv == ActiveTypeOK /\ ActiveWhereStarted

\* A start adds the kernel to the active ones of its core and to those not ended.
LEMMA StartKeepsActiveInv ==
  ASSUME ActiveInv, NEW k \in Kernels, NEW e \in Starts, NEW end,
         BothKernelStart(k, e, end)
  PROVE  ActiveInv'
<1> DEFINE at == IF e = NoCore THEN CoreZero ELSE e
<1>1. at \in Cores
  BY TensorsAssumption, LifetimeAssumption
<1>2. active' = [active EXCEPT ![at] = @ \cup {k}] /\ opened' = opened \cup {<<k, e>>}
  BY DEF BothKernelStart, L!KernelStart
<1>3. ActiveTypeOK'
  BY <1>1, <1>2 DEF ActiveInv, ActiveTypeOK
<1>4. ASSUME NEW c \in Cores, NEW j \in Kernels, j \in active'[c]
      PROVE  \E p \in opened' : p[1] = j /\ (IF p[2] = NoCore THEN c = CoreZero ELSE c = p[2])
  <2>1. CASE j \in active[c]
    BY <2>1, <1>2 DEF ActiveInv, ActiveWhereStarted
  <2>2. CASE j \notin active[c]
    <3>1. c = at /\ j = k
      BY <2>2, <1>2, <1>4 DEF ActiveInv, ActiveTypeOK
    <3>2. <<k, e>> \in opened'
      BY <1>2
    <3>3. <<k, e>>[1] = k /\ <<k, e>>[2] = e
      OBVIOUS
    <3>4. IF e = NoCore THEN c = CoreZero ELSE c = e
      BY <3>1
    <3> QED BY <3>1, <3>2, <3>3, <3>4
  <2> QED BY <2>1, <2>2
<1> QED BY <1>3, <1>4 DEF ActiveInv, ActiveWhereStarted

\* An end takes the kernel from its start's core, or from every core that has any.
LEMMA EndKeepsActiveInv ==
  ASSUME ActiveInv, NEW p \in opened, NEW e \in KernelEnds, NEW end,
         BothKernelEnd(p, e, end)
  PROVE  ActiveInv'
<1> DEFINE k == p[1]
           Stays(c) == IF c \in L!KernelEndCores(e) THEN active[c] \ {k} ELSE active[c]
<1>1. active' = [c \in Cores |-> Stays(c)] /\ opened' = opened \ {p} /\ e \in {p[2], NoCore}
  BY DEF BothKernelEnd, L!KernelEnd
<1>2. ActiveTypeOK'
  BY <1>1 DEF ActiveInv, ActiveTypeOK
<1>3. ASSUME NEW c \in Cores, NEW j \in Kernels, j \in active'[c]
      PROVE  \E q \in opened' : q[1] = j /\ (IF q[2] = NoCore THEN c = CoreZero ELSE c = q[2])
  <2>1. j \in active[c]
    BY <1>1, <1>3
  <2>2. PICK q \in opened : q[1] = j /\ (IF q[2] = NoCore THEN c = CoreZero ELSE c = q[2])
    BY <2>1 DEF ActiveInv, ActiveWhereStarted
  <2>3. q # p
    <3>1. SUFFICES ASSUME j = k PROVE q # p
      BY <2>2
    <3>2. c \notin L!KernelEndCores(e)
      BY <1>1, <1>3, <3>1
    <3>3. e # NoCore
      BY <3>2, <2>1 DEF L!KernelEndCores
    <3>4. c # e /\ e = p[2]
      BY <1>1, <3>2, <3>3 DEF L!KernelEndCores
    <3> QED BY <2>2, <3>3, <3>4
  <2> QED BY <1>1, <2>2, <2>3
<1> QED BY <1>2, <1>3 DEF ActiveInv, ActiveWhereStarted

\* _kernel_end_cores: at any time, on any trace whose kernels end on the core they
\* started on or for the whole chip, a kernel that has ended is active on no core.
THEOREM EndedKernelsStayInactive == LifetimeSpec => []EndedKernelsInactive
<1>1. LifetimeInit => ActiveInv
  BY DEF LifetimeInit, L!Init, ActiveInv, ActiveTypeOK, ActiveWhereStarted
<1>2. ASSUME ActiveInv, [LifetimeNext]_allVars PROVE ActiveInv'
  <2>1. ASSUME UNCHANGED <<active, opened>> PROVE ActiveInv'
    BY <1>2, <2>1 DEF ActiveInv, ActiveTypeOK, ActiveWhereStarted
  <2>2. CASE Installs
    BY <2>1, <2>2 DEF Installs, analysis, traceVars
  <2>3. ASSUME NEW end \in Times, NEW a \in Accesses, BothAccess(a, end) PROVE ActiveInv'
    BY <2>1, <2>3 DEF BothAccess, L!Access
  <2>4. ASSUME NEW end \in Times, NEW k \in Kernels, NEW e \in Starts, BothKernelStart(k, e, end)
        PROVE  ActiveInv'
    BY <1>2, <2>4, StartKeepsActiveInv
  <2>5. ASSUME NEW end \in Times, NEW p \in opened, NEW e \in KernelEnds, BothKernelEnd(p, e, end)
        PROVE  ActiveInv'
    BY <1>2, <2>5, EndKeepsActiveInv
  <2>6. CASE TraceEnds
    BY <2>1, <2>6 DEF TraceEnds, L!Finish
  <2>7. CASE UNCHANGED allVars
    BY <2>1, <2>7 DEF allVars, analysis, traceVars
  <2> QED BY <1>2, <2>2, <2>3, <2>4, <2>5, <2>6, <2>7 DEF LifetimeNext
<1>3. ActiveInv => EndedKernelsInactive
  BY DEF ActiveInv, ActiveWhereStarted, EndedKernelsInactive
<1> QED BY <1>1, <1>2, <1>3, PTL DEF LifetimeSpec

------------------------------------------------------------------------------
(* Stints in SBUF *)

\* SBUF is per-core scratch that kernels wipe, no home, and only reads bring a tensor
\* there (every policy of configs/, and every trace that ingest writes).
SbufIsScratch == "sbuf" \in PerCore \cap WipeLevels

SbufFilledByReads == \A a \in Accesses : a.target = "sbuf" => a.op = "read"

\* An open stint of t, on its core, and its length at the time at.
Open(t) == t \in DOMAIN inSbuf[CoreOf(t)]

StintSoFar(t, at) == IF Open(t) THEN at - inSbuf[CoreOf(t)][t] ELSE 0

Reported(t) == sbufTotal[t] + StintSoFar(t, now)

StintsTypeOK ==
  /\ now \in Nat
  /\ simTime \in [Tensors -> Int] /\ sbufTotal \in [Tensors -> Int]
  /\ inSbuf = [c \in Cores |-> inSbuf[c]]
  /\ \A c \in Cores : \A t \in DOMAIN inSbuf[c] :
       t \in Tensors /\ c = CoreOf(t) /\ inSbuf[c][t] \in Int

\* In the simulator a tensor enters SBUF by an event, on a core that then has buffers.
SimInv ==
  /\ TypeOK
  /\ ~Loaded => resident = Home
  /\ \A t \in Tensors : resident[t] = "sbuf" => CoreOf(t) \in buffered

\* While the trace goes on a tensor in SBUF has an open stint, and only a strayed one has
\* a stint without being there.
StintsFollow ==
  ~ended =>
    /\ \A t \in Tensors : resident[t] = "sbuf" => Open(t)
    /\ \A t \in Tensors \ strayed : Open(t) => resident[t] = "sbuf"

TimesAgree ==
  /\ \A t \in Tensors : simTime[t] <= Reported(t)
  /\ \A t \in Tensors \ strayed : simTime[t] = Reported(t)

StintInv == StintsTypeOK /\ SimInv /\ StintsFollow /\ TimesAgree

\* The analysis sums by the same operator.
LEMMA SameSum == \A f, X : L!SumFunctionOnSet(f, X) = SumFunctionOnSet(f, X)
  BY DEF L!SumFunctionOnSet, L!FoldFunctionOnSet, L!MapThenFoldSet,
         SumFunctionOnSet, FoldFunctionOnSet, MapThenFoldSet

\* A tensor has stints on its own core only, so what ends on a set of cores is that
\* stint or nothing.
LEMMA SpentIsStint ==
  ASSUME StintsTypeOK, NEW t \in Tensors, NEW cores \in SUBSET Cores, NEW at \in Int
  PROVE  /\ L!Spent(t, cores, at) = IF CoreOf(t) \in cores THEN StintSoFar(t, at) ELSE 0
         /\ StintSoFar(t, at) \in Int
<1> DEFINE there == {c \in cores : t \in DOMAIN inSbuf[c]}
           spent == [c \in there |-> at - inSbuf[c][t]]
<1>1. L!Spent(t, cores, at) = SumFunctionOnSet(spent, there)
  BY SameSum DEF L!Spent
<1>2. there \subseteq {CoreOf(t)}
  BY DEF StintsTypeOK
<1>3. CASE CoreOf(t) \in cores /\ Open(t)
  <2>1. there = {CoreOf(t)} /\ inSbuf[CoreOf(t)][t] \in Int
    BY <1>2, <1>3 DEF Open, StintsTypeOK
  <2>2. spent[CoreOf(t)] = at - inSbuf[CoreOf(t)][t] /\ spent[CoreOf(t)] \in Int
    BY <2>1
  <2>3. SumFunctionOnSet(spent, there) = spent[CoreOf(t)]
    <3> HIDE DEF spent
    <3> QED
      BY <2>1, <2>2, SumSingle
  <2> QED
    BY <1>1, <1>3, <2>2, <2>3 DEF StintSoFar
<1>4. CASE ~(CoreOf(t) \in cores /\ Open(t))
  <2>1. there = {}
    BY <1>2, <1>4 DEF Open
  <2>2. StintSoFar(t, at) \in Int
    BY HomeAndCore DEF StintSoFar, Open, StintsTypeOK
  <2>3. SumFunctionOnSet(spent, there) = 0
    <3> HIDE DEF spent
    <3> QED
      BY <2>1, SumEmpty
  <2> QED
    BY <1>1, <1>4, <2>2, <2>3 DEF StintSoFar
<1> QED
  BY <1>3, <1>4

\* The stints an access opens and how far it takes the reported time.
LEMMA AccessStint ==
  ASSUME HomeCoreTrace, StintsTypeOK, NEW a \in Accesses, NEW end \in Nat, BothAccess(a, end)
  PROVE  /\ StintsTypeOK'
         /\ \A t \in Tensors :
              /\ Open(t)' <=> Open(t) \/ (t = a.tensor /\ L!StartsStint(a))
              /\ Reported(t)' = Reported(t) + (IF Open(t) THEN end - now ELSE 0)
<1> DEFINE q == a.tensor
           c == a.core
<1>1. /\ q \in Tensors /\ c \in Cores /\ c = CoreOf(q)
  BY TraceAssumption DEF AccessEvent, HomeCoreTrace
<1>2. /\ now' = end
      /\ simTime' = [t \in Tensors |-> simTime[t] + IF resident[t] = "sbuf" THEN end - now ELSE 0]
      /\ sbufTotal' = sbufTotal
  BY DEF BothAccess, EventAt, L!Access
<1>3. inSbuf' = IF L!StartsStint(a) THEN [inSbuf EXCEPT ![c] = L!With(@, q, end)] ELSE inSbuf
  BY DEF BothAccess, L!Access
<1>4. simTime' \in [Tensors -> Int] /\ sbufTotal' \in [Tensors -> Int] /\ now' \in Nat
  BY <1>2 DEF StintsTypeOK
<1>5. \A k \in Cores :
        inSbuf'[k] = IF L!StartsStint(a) /\ k = c THEN L!With(inSbuf[c], q, end) ELSE inSbuf[k]
  BY <1>1, <1>3 DEF StintsTypeOK
<1>6. inSbuf' = [k \in Cores |-> inSbuf'[k]]
  BY <1>3 DEF StintsTypeOK
<1>7. /\ DOMAIN L!With(inSbuf[c], q, end) = DOMAIN inSbuf[c] \cup {q}
      /\ L!With(inSbuf[c], q, end)[q] = end
      /\ \A t \in DOMAIN inSbuf[c] \ {q} : L!With(inSbuf[c], q, end)[t] = inSbuf[c][t]
  BY DEF L!With
<1>8. ASSUME NEW k \in Cores, NEW t \in DOMAIN inSbuf'[k]
      PROVE  t \in Tensors /\ k = CoreOf(t) /\ inSbuf'[k][t] \in Int
  BY <1>1, <1>5, <1>7, <1>8 DEF StintsTypeOK
<1>9. StintsTypeOK'
  BY <1>4, <1>6, <1>8, HomeAndCore DEF StintsTypeOK, CoreOf
<1>10. ASSUME NEW t \in Tensors
       PROVE  /\ Open(t)' <=> Open(t) \/ (t = q /\ L!StartsStint(a))
              /\ Reported(t)' = Reported(t) + (IF Open(t) THEN end - now ELSE 0)
  <2>1. CoreOf(t) \in Cores /\ CoreOf(t)' = CoreOf(t) /\ sbufTotal[t] \in Int /\ now \in Int
    BY HomeAndCore DEF CoreOf, StintsTypeOK
  <2>2. CASE t = q /\ L!StartsStint(a)
    <3>1. ~Open(t) /\ Open(t)' /\ inSbuf'[c][t] = end
      BY <1>1, <1>5, <1>7, <2>1, <2>2 DEF Open, L!StartsStint
    <3> QED
      BY <1>1, <1>2, <2>1, <2>2, <3>1 DEF Reported, StintSoFar
  <2>3. CASE ~(t = q /\ L!StartsStint(a))
    <3>1. Open(t)' <=> Open(t)
      BY <1>1, <1>5, <1>7, <2>1, <2>3 DEF Open
    <3>2. Open(t) => inSbuf'[CoreOf(t)][t] = inSbuf[CoreOf(t)][t] /\ inSbuf[CoreOf(t)][t] \in Int
      BY <1>1, <1>5, <1>7, <2>1, <2>3 DEF Open, StintsTypeOK
    <3> QED
      BY <1>2, <2>1, <2>3, <3>1, <3>2 DEF Reported, StintSoFar
  <2> QED
    BY <2>2, <2>3
<1> QED
  BY <1>9, <1>10

\* Ending stints on some cores at a time closes what is open there and reports it.
LEMMA EndsStints ==
  ASSUME StintsTypeOK, NEW cores \in SUBSET Cores, NEW at \in Nat, L!EndStints(cores, at),
         now' = at, simTime' \in [Tensors -> Int]
  PROVE  /\ StintsTypeOK'
         /\ \A t \in Tensors :
              /\ Open(t)' <=> Open(t) /\ CoreOf(t) \notin cores
              /\ Reported(t)' = Reported(t) + (IF Open(t) THEN at - now ELSE 0)
<1>1. /\ sbufTotal' = [t \in Tensors |-> sbufTotal[t] + L!Spent(t, cores, at)]
      /\ inSbuf' = [c \in Cores |-> IF c \in cores THEN L!NoEntries ELSE inSbuf[c]]
  BY DEF L!EndStints, L!SbufWithout
<1>2. DOMAIN L!NoEntries = {}
  BY DEF L!NoEntries
<1>3. \A t \in Tensors : L!Spent(t, cores, at) = IF CoreOf(t) \in cores THEN StintSoFar(t, at) ELSE 0
  BY SpentIsStint
<1>4. \A t \in Tensors : StintSoFar(t, at) \in Int
  BY SpentIsStint
<1>5. sbufTotal' \in [Tensors -> Int]
  BY <1>1, <1>3, <1>4 DEF StintsTypeOK
<1>6. \A c \in Cores : inSbuf'[c] = IF c \in cores THEN L!NoEntries ELSE inSbuf[c]
  BY <1>1
<1>7. ASSUME NEW c \in Cores, NEW t \in DOMAIN inSbuf'[c]
      PROVE  t \in Tensors /\ c = CoreOf(t) /\ inSbuf'[c][t] \in Int
  BY <1>2, <1>6, <1>7 DEF StintsTypeOK
<1>8. inSbuf' = [c \in Cores |-> inSbuf'[c]]
  BY <1>1
<1>9. StintsTypeOK'
  BY <1>5, <1>7, <1>8 DEF StintsTypeOK, CoreOf
<1>10. ASSUME NEW t \in Tensors
       PROVE  /\ Open(t)' <=> Open(t) /\ CoreOf(t) \notin cores
              /\ Reported(t)' = Reported(t) + (IF Open(t) THEN at - now ELSE 0)
  <2>1. /\ CoreOf(t) \in Cores /\ CoreOf(t)' = CoreOf(t) /\ sbufTotal[t] \in Int /\ now \in Int
        /\ Open(t) => inSbuf[CoreOf(t)][t] \in Int
    BY HomeAndCore DEF CoreOf, StintsTypeOK, Open
  <2>2. Open(t)' <=> Open(t) /\ CoreOf(t) \notin cores
    BY <1>2, <1>6, <2>1 DEF Open
  <2>3. sbufTotal'[t] = sbufTotal[t] + IF CoreOf(t) \in cores THEN StintSoFar(t, at) ELSE 0
    BY <1>1, <1>3
  <2>4. CoreOf(t) \notin cores => inSbuf'[CoreOf(t)] = inSbuf[CoreOf(t)]
    BY <1>6, <2>1
  <2>5. Reported(t)' = sbufTotal'[t] + (IF Open(t)' THEN at - inSbuf'[CoreOf(t)][t] ELSE 0)
    BY <2>1 DEF Reported, StintSoFar
  <2>6. CASE CoreOf(t) \in cores
    BY <2>1, <2>2, <2>3, <2>5, <2>6 DEF Reported, StintSoFar
  <2>7. CASE CoreOf(t) \notin cores
    BY <2>1, <2>2, <2>3, <2>4, <2>5, <2>7 DEF Reported, StintSoFar
  <2> QED
    BY <2>2, <2>6, <2>7
<1> QED
  BY <1>9, <1>10

\* Installing the homes leaves every tensor at home.
LEMMA InstallsStayHome ==
  ASSUME SimInv, Preinstall
  PROVE  ~Loaded /\ resident = Home /\ resident' = Home
<1>1. ~Loaded /\ resident = Home
  BY DEF Preinstall, SeedHome, BootstrapHome, Loaded, SimInv
<1>2. ASSUME NEW t \in Tensors, NEW chosen, InstallHome(t, chosen) PROVE resident' = Home
  <2>1. ASSUME NEW n, InstallInFastBuffer(CoreOf(t), Home[t], t, n) PROVE resident' = Home
    BY <1>1, <2>1, LevelsAssumption DEF InstallInFastBuffer, ResidentAfter
  <2> QED
    BY <1>1, <1>2, <2>1 DEF InstallHome
<1>3. seeding # <<>> => Head(seeding) \in Tensors
  BY DEF SimInv, TypeOK
<1>4. booting # <<>> => Head(booting) \in Tensors
  BY DEF SimInv, TypeOK
<1> QED
  BY <1>1, <1>2, <1>3, <1>4 DEF Preinstall, SeedHome, BootstrapHome

\* Every step of the simulator keeps its part of the invariant.
LEMMA SimSteps ==
  ASSUME SbufIsScratch, HomesPersist, HomeCoreTrace, SimInv, [Next]_vars
  PROVE  SimInv'
<1>1. TypeOK'
  BY TypeNext DEF SimInv
<1>2. \A t \in Tensors : Home[t] # "sbuf"
  BY DEF SbufIsScratch, HomesPersist
<1>3. CASE Preinstall
  BY <1>1, <1>2, <1>3, InstallsStayHome DEF SimInv
<1>4. ASSUME NEW a \in Accesses, Access(a) PROVE SimInv'
  <2>1. Loaded'
    BY <1>4 DEF Access, AccessInPlace, AccessMoves, Loaded, vars
  <2>2. CASE AccessInPlace(a)
    BY <1>1, <2>1, <2>2 DEF AccessInPlace, vars, SimInv, CoreOf
  <2>3. CASE AccessMoves(a)
    <3>1. ASSUME NEW t \in Tensors, resident'[t] = "sbuf" PROVE CoreOf(t) \in buffered'
      BY <1>2, <2>3, <3>1
         DEF AccessMoves, InstallInFastBuffer, ResidentAfter, MoveToChipLevel, SimInv, TypeOK,
             HomeCoreTrace, SbufIsScratch
    <3> QED
      BY <1>1, <2>1, <3>1 DEF SimInv, CoreOf
  <2> QED
    BY <1>4, <2>2, <2>3 DEF Access
<1>5. ASSUME NEW e \in KernelEnds, KernelEnd(e) PROVE SimInv'
  <2>1. Loaded' /\ buffered' = buffered
    BY <1>5 DEF KernelEnd, Loaded
  <2>2. ASSUME NEW t \in Tensors, resident'[t] = "sbuf" PROVE resident[t] = "sbuf"
    BY <1>2, <1>5, <2>2 DEF KernelEnd, ResidentAfterWipe
  <2> QED
    BY <1>1, <2>1, <2>2 DEF SimInv, CoreOf
<1>6. CASE UNCHANGED vars
  BY <1>1, <1>6 DEF vars, SimInv, Loaded, CoreOf
<1> QED
  BY <1>3, <1>4, <1>5, <1>6 DEF Next

\* An access that moves its tensor puts it where it said; no other tensor enters SBUF.
LEMMA AccessEnters ==
  ASSUME SbufIsScratch, HomesPersist, SimInv, NEW a \in Accesses, Access(a)
  PROVE  /\ StaysInPlace(a) => resident' = resident
         /\ ~StaysInPlace(a) => resident'[a.tensor] = a.target
         /\ \A t \in Tensors : resident'[t] = "sbuf" =>
              resident[t] = "sbuf" \/ (t = a.tensor /\ ~StaysInPlace(a) /\ a.target = "sbuf")
<1>1. a.tensor \in Tensors /\ resident \in [Tensors -> Levels]
  BY TraceAssumption DEF AccessEvent, SimInv, TypeOK
<1>2. \A t \in Tensors : Home[t] # "sbuf"
  BY DEF SbufIsScratch, HomesPersist
<1>3. CASE StaysInPlace(a)
  BY <1>3 DEF Access, AccessInPlace, AccessMoves, vars
<1>4. CASE ~StaysInPlace(a)
  <2>1. AccessMoves(a)
    BY <1>4 DEF Access, AccessInPlace
  <2> QED
    BY <1>1, <1>2, <1>4, <2>1
       DEF AccessMoves, InstallInFastBuffer, ResidentAfter, MoveToChipLevel
<1> QED
  BY <1>3, <1>4

\* Events come in time order.
LEMMA TimesGoOn ==
  ASSUME now \in Nat, NEW end \in Times
  PROVE  end \in Nat /\ now <= end
  BY LifetimeAssumption DEF Times

\* Between two events the simulator's time grows for what is in SBUF and the reported time
\* for what has a stint.
LEMMA TimesGrow ==
  ASSUME StintInv, NEW end \in Nat, now <= end, EventAt(end), strayed \subseteq strayed',
         \A t \in Tensors : Reported(t)' = Reported(t) + (IF Open(t) THEN end - now ELSE 0)
  PROVE  TimesAgree'
<1>1. /\ ~ended /\ now \in Int
      /\ \A t \in Tensors : simTime[t] \in Int /\ Reported(t) \in Int
  BY SpentIsStint DEF EventAt, StintInv, StintsTypeOK, Reported
<1>2. \A t \in Tensors :
        simTime'[t] = simTime[t] + IF resident[t] = "sbuf" THEN end - now ELSE 0
  BY DEF EventAt
<1>3. ASSUME NEW t \in Tensors PROVE simTime'[t] <= Reported(t)'
  <2>1. simTime[t] <= Reported(t) /\ (resident[t] = "sbuf" => Open(t))
    BY <1>1 DEF StintInv, TimesAgree, StintsFollow
  <2> HIDE DEF Reported, Open
  <2> QED
    BY <1>1, <1>2, <2>1
<1>4. ASSUME NEW t \in Tensors \ strayed' PROVE simTime'[t] = Reported(t)'
  <2>1. simTime[t] = Reported(t) /\ (resident[t] = "sbuf" <=> Open(t))
    BY <1>1 DEF StintInv, TimesAgree, StintsFollow
  <2> HIDE DEF Reported, Open
  <2> QED
    BY <1>1, <1>2, <2>1
<1> QED
  BY <1>3, <1>4 DEF TimesAgree

\* A read into SBUF opens the stint of a tensor that was not there; what leaves SBUF by
\* an access, or is read in place, strays.
LEMMA StintAccess ==
  ASSUME SbufIsScratch, SbufFilledByReads, HomesPersist, HomeCoreTrace,
         StintInv, NEW a \in Accesses, NEW end \in Times, BothAccess(a, end)
  PROVE  StintInv'
<1> DEFINE q == a.tensor
<1>1. StintsTypeOK /\ SimInv /\ ~ended /\ ~ended' /\ Access(a) /\ EventAt(end)
  BY DEF StintInv, BothAccess, EventAt
<1>2. end \in Nat /\ now <= end
  BY <1>1, TimesGoOn DEF StintsTypeOK
<1>3. SimInv'
  BY <1>1, SimSteps DEF Next
<1>4. /\ StintsTypeOK'
      /\ \A t \in Tensors :
           /\ Open(t)' <=> Open(t) \/ (t = q /\ L!StartsStint(a))
           /\ Reported(t)' = Reported(t) + (IF Open(t) THEN end - now ELSE 0)
  BY <1>1, <1>2, AccessStint
<1>5. strayed' = strayed \cup Strays(a)
  BY DEF BothAccess
<1>6. TimesAgree'
  <2>1. \A t \in Tensors : Reported(t)' = Reported(t) + (IF Open(t) THEN end - now ELSE 0)
    BY <1>4
  <2> QED
    BY <1>1, <1>2, <1>5, <2>1, TimesGrow
<1>7. /\ StaysInPlace(a) => resident' = resident
      /\ ~StaysInPlace(a) => resident'[q] = a.target
      /\ \A t \in Tensors : resident'[t] = "sbuf" =>
           resident[t] = "sbuf" \/ (t = q /\ ~StaysInPlace(a) /\ a.target = "sbuf")
  BY <1>1, AccessEnters
<1>8. \A t \in Tensors : resident[t] = "sbuf" => Open(t)
  BY <1>1 DEF StintInv, StintsFollow
<1>9. ASSUME NEW t \in Tensors, resident'[t] = "sbuf" PROVE Open(t)'
  <2>1. CASE resident[t] = "sbuf"
    BY <1>4, <1>8, <2>1
  <2>2. CASE resident[t] # "sbuf"
    <3>1. t = q /\ a.target = "sbuf" /\ a.op = "read"
      BY <1>7, <1>9, <2>2 DEF SbufFilledByReads
    <3>2. Open(t) \/ L!StartsStint(a)
      BY <3>1 DEF L!StartsStint, Open, HomeCoreTrace
    <3> QED
      BY <1>4, <3>1, <3>2
  <2> QED
    BY <2>1, <2>2
<1>10. ASSUME NEW t \in Tensors \ strayed', Open(t)' PROVE resident'[t] = "sbuf"
  <2>1. t \notin strayed /\ t \notin Strays(a)
    BY <1>5, <1>10
  <2>2. CASE Open(t)
    <3>1. resident[t] = "sbuf"
      BY <1>1, <2>1, <2>2 DEF StintInv, StintsFollow
    <3> QED
      BY <2>1, <3>1 DEF Strays
  <2>3. CASE ~Open(t)
    <3>1. t = q /\ a.op = "read" /\ a.target = "sbuf"
      BY <1>4, <1>10, <2>3 DEF L!StartsStint
    <3>2. ~DirectStramRead(a)
      BY <2>1, <3>1 DEF Strays
    <3>3. ~StaysInPlace(a)
      BY <1>8, <2>3, <3>1, <3>2 DEF StaysInPlace, Source
    <3> QED
      BY <1>7, <3>1, <3>3
  <2> QED
    BY <2>2, <2>3
<1>11. StintsFollow'
  BY <1>9, <1>10 DEF StintsFollow
<1> QED
  BY <1>3, <1>4, <1>6, <1>11 DEF StintInv

\* A kernel end reaches the core of every tensor in SBUF and of every stint, with or
\* without a core id: both end, or neither does.
LEMMA StintKernelEnd ==
  ASSUME SbufIsScratch, HomesPersist, HomeCoreTrace, StintInv, NEW p \in opened,
         NEW e \in KernelEnds, NEW end \in Times, BothKernelEnd(p, e, end)
  PROVE  StintInv'
<1>1. /\ StintsTypeOK /\ SimInv /\ ~ended /\ KernelEnd(e) /\ EventAt(end)
      /\ L!EndStints(L!WipedCores(e), end)
  BY DEF StintInv, BothKernelEnd, EventAt, L!KernelEnd
<1>2. end \in Nat /\ now <= end
  BY <1>1, TimesGoOn DEF StintsTypeOK
<1>3. SimInv'
  BY <1>1, SimSteps DEF Next
<1>4. now' = end /\ simTime' \in [Tensors -> Int] /\ strayed' = strayed
  BY <1>1, <1>2 DEF EventAt, StintsTypeOK, BothKernelEnd
<1>5. L!WipedCores(e) \in SUBSET Cores
  BY TraceAssumption DEF L!WipedCores
<1>6. /\ StintsTypeOK'
      /\ \A t \in Tensors :
           /\ Open(t)' <=> Open(t) /\ CoreOf(t) \notin L!WipedCores(e)
           /\ Reported(t)' = Reported(t) + (IF Open(t) THEN end - now ELSE 0)
  BY <1>1, <1>2, <1>4, <1>5, EndsStints
<1>7. TimesAgree'
  <2>1. \A t \in Tensors : Reported(t)' = Reported(t) + (IF Open(t) THEN end - now ELSE 0)
    BY <1>6
  <2> QED
    BY <1>1, <1>2, <1>4, <2>1, TimesGrow
<1>8. ASSUME NEW t \in Tensors, resident[t] = "sbuf"
      PROVE  /\ Open(t)
             /\ CoreOf(t) \in L!WipedCores(e) <=> CoreOf(t) \in WipedCores(e)
             /\ resident'[t] = "sbuf" <=> CoreOf(t) \notin WipedCores(e)
  <2>1. Open(t) /\ CoreOf(t) \in buffered
    BY <1>1, <1>8 DEF StintInv, StintsFollow, SimInv
  <2>2. CoreOf(t) \in L!WipedCores(e) <=> CoreOf(t) \in WipedCores(e)
    BY <2>1, HomeAndCore DEF L!WipedCores, WipedCores, Open
  <2>3. resident'[t] = "sbuf" <=> CoreOf(t) \notin WipedCores(e)
    BY <1>1, <1>8 DEF KernelEnd, ResidentAfterWipe, SbufIsScratch, HomesPersist
  <2> QED
    BY <2>1, <2>2, <2>3
<1>9. ASSUME NEW t \in Tensors, resident'[t] = "sbuf" PROVE Open(t)'
  <2>1. resident[t] = "sbuf"
    BY <1>1, <1>9 DEF KernelEnd, ResidentAfterWipe, SbufIsScratch, HomesPersist
  <2> QED
    BY <1>6, <1>8, <1>9, <2>1
<1>10. ASSUME NEW t \in Tensors \ strayed', Open(t)' PROVE resident'[t] = "sbuf"
  <2>1. Open(t) /\ CoreOf(t) \notin L!WipedCores(e)
    BY <1>6, <1>10
  <2>2. resident[t] = "sbuf"
    BY <1>1, <1>4, <1>10, <2>1 DEF StintInv, StintsFollow
  <2> QED
    BY <1>8, <2>1, <2>2
<1>11. StintsFollow'
  BY <1>9, <1>10 DEF StintsFollow
<1> QED
  BY <1>3, <1>6, <1>7, <1>11 DEF StintInv

\* A kernel start only lets time pass.
LEMMA StintKernelStart ==
  ASSUME StintInv, NEW k \in Kernels, NEW e \in Starts, NEW end \in Times,
         BothKernelStart(k, e, end)
  PROVE  StintInv'
<1>1. /\ StintsTypeOK /\ EventAt(end) /\ now' = end /\ ended' = ended
      /\ UNCHANGED vars /\ UNCHANGED <<inSbuf, sbufTotal, strayed>>
  BY DEF StintInv, BothKernelStart, EventAt, L!KernelStart
<1>2. end \in Nat /\ now <= end
  BY <1>1, TimesGoOn DEF StintsTypeOK
<1>3. StintsTypeOK'
  BY <1>1, <1>2 DEF StintsTypeOK, EventAt, CoreOf
<1>4. ASSUME NEW t \in Tensors
      PROVE  Reported(t)' = Reported(t) + (IF Open(t) THEN end - now ELSE 0)
  <2>1. /\ Open(t)' <=> Open(t)
        /\ Open(t) => inSbuf[CoreOf(t)][t] \in Int
        /\ sbufTotal[t] \in Int /\ now \in Int
    BY <1>1, HomeAndCore DEF Open, CoreOf, StintsTypeOK
  <2>2. Reported(t)' = sbufTotal[t] + (IF Open(t) THEN end - inSbuf[CoreOf(t)][t] ELSE 0)
    BY <1>1, <2>1 DEF Reported, StintSoFar, CoreOf
  <2> QED
    BY <1>2, <2>1, <2>2 DEF Reported, StintSoFar
<1>5. TimesAgree'
  BY <1>1, <1>2, <1>4, TimesGrow
<1>6. SimInv' /\ StintsFollow'
  BY <1>1 DEF vars, StintInv, SimInv, TypeOK, Loaded, StintsFollow, Open, CoreOf
<1> QED
  BY <1>3, <1>5, <1>6 DEF StintInv

\* The end of the trace closes all stints and reports them.
LEMMA StintTraceEnds ==
  ASSUME StintInv, TraceEnds
  PROVE  StintInv'
<1>1. /\ StintsTypeOK /\ now \in Nat /\ now' = now /\ UNCHANGED vars /\ UNCHANGED <<simTime, strayed>>
      /\ ended' /\ L!EndStints(Cores, now) /\ simTime' \in [Tensors -> Int]
  BY DEF StintInv, StintsTypeOK, TraceEnds, L!Finish
<1>2. /\ StintsTypeOK'
      /\ \A t \in Tensors : Reported(t)' = Reported(t) + (IF Open(t) THEN now - now ELSE 0)
  BY <1>1, EndsStints
<1>3. \A t \in Tensors : Reported(t) \in Int
  BY <1>1, SpentIsStint DEF Reported, StintsTypeOK
<1>4. \A t \in Tensors : Reported(t)' = Reported(t)
  <2> HIDE DEF Reported
  <2> QED
    BY <1>1, <1>2, <1>3
<1>5. TimesAgree'
  BY <1>1, <1>4 DEF StintInv, TimesAgree
<1>6. SimInv' /\ StintsFollow'
  BY <1>1 DEF vars, StintInv, SimInv, TypeOK, Loaded, StintsFollow, CoreOf
<1> QED
  BY <1>2, <1>5, <1>6 DEF StintInv

\* Before the trace nothing is in SBUF and there are no stints.
LEMMA StintInitially ==
  ASSUME SbufIsScratch, HomesPersist, LifetimeInit
  PROVE  StintInv
<1>1. /\ Init /\ now = 0 /\ simTime = [t \in Tensors |-> 0] /\ strayed = {}
      /\ inSbuf = [c \in Cores |-> L!NoEntries] /\ sbufTotal = [t \in Tensors |-> 0]
  BY DEF LifetimeInit, L!Init
<1>2. DOMAIN L!NoEntries = {}
  BY DEF L!NoEntries
<1>3. StintsTypeOK
  <2>1. \A c \in Cores : DOMAIN inSbuf[c] = {}
    BY <1>1, <1>2
  <2> QED
    BY <1>1, <2>1 DEF StintsTypeOK
<1>4. \A t \in Tensors : ~Open(t) /\ resident[t] # "sbuf"
  BY <1>1, <1>2, HomeAndCore DEF Open, Init, SbufIsScratch, HomesPersist
<1>5. SimInv
  <2>1. TypeOK /\ resident = Home
    BY <1>1, TypeInit DEF Init
  <2> QED
    BY <1>4, <2>1 DEF SimInv
<1>6. TimesAgree
  BY <1>1, <1>4 DEF TimesAgree, Reported, StintSoFar
<1> QED
  BY <1>3, <1>4, <1>5, <1>6 DEF StintInv, StintsFollow

\* Every step keeps the invariant.
LEMMA StintSteps ==
  ASSUME SbufIsScratch, SbufFilledByReads, HomesPersist, HomeCoreTrace,
         StintInv, [LifetimeNext]_allVars
  PROVE  StintInv'
<1>1. CASE Installs
  <2>1. /\ UNCHANGED <<now, ended, simTime, strayed, inSbuf, sbufTotal>>
        /\ Preinstall /\ SimInv /\ ~Loaded
    BY <1>1 DEF Installs, analysis, traceVars, StintInv, Preinstall, SeedHome, BootstrapHome, Loaded
  <2>2. SimInv'
    BY <2>1, SimSteps DEF Next
  <2>3. \A t \in Tensors : resident[t] # "sbuf" /\ resident'[t] # "sbuf"
    BY <2>1, InstallsStayHome DEF HomesPersist, SbufIsScratch
  <2>4. \A t \in Tensors : Open(t)' <=> Open(t)
    BY <2>1 DEF Open, CoreOf
  <2>5. StintsFollow'
    BY <2>1, <2>3, <2>4 DEF StintInv, StintsFollow
  <2> QED
    BY <2>1, <2>2, <2>5
       DEF StintInv, StintsTypeOK, TimesAgree, Reported, StintSoFar, Open, CoreOf
<1>2. CASE UNCHANGED allVars
  BY <1>2 DEF allVars, vars, analysis, traceVars, StintInv, StintsTypeOK, SimInv, TypeOK, Loaded,
              StintsFollow, TimesAgree, Reported, StintSoFar, Open, CoreOf
<1> QED
  BY <1>1, <1>2, StintAccess, StintKernelStart, StintKernelEnd, StintTraceEnds DEF LifetimeNext

\* The properties are about the reported time.
LEMMA ReportedIsSbufTime ==
  ASSUME StintInv
  PROVE  StintsBoundResidency /\ StintsAreResidency
<1>1. \A t \in Tensors : SbufTime(t) = Reported(t)
  BY SpentIsStint, HomeAndCore DEF StintInv, StintsTypeOK, SbufTime, Reported
<1> QED
  BY <1>1 DEF StintInv, TimesAgree, StintsBoundResidency, StintsAreResidency

\* The reported time in SBUF is never less than the time the simulator has the tensor
\* there, on any trace that fills SBUF by reads on the tensors' own cores, whatever is
\* evicted, staged, flushed or wiped (LIFETIME_ANALYSIS_AUDIT.md, 2.2: it "may overstate").
THEOREM StintsNeverUnderstate ==
  ASSUME SbufIsScratch, SbufFilledByReads, HomesPersist, HomeCoreTrace
  PROVE  LifetimeSpec => []StintsBoundResidency
<1>1. LifetimeInit => StintInv
  BY StintInitially
<1>2. StintInv /\ [LifetimeNext]_allVars => StintInv'
  BY StintSteps
<1>3. StintInv => StintsBoundResidency
  BY ReportedIsSbufTime
<1> QED
  BY <1>1, <1>2, <1>3, PTL DEF LifetimeSpec

\* And it is exact for the tensors that only kernel ends drop, those of the whole chip
\* included ("matches engine._handle_kernel_boundary").
THEOREM StintsAreExact ==
  ASSUME SbufIsScratch, SbufFilledByReads, HomesPersist, HomeCoreTrace
  PROVE  LifetimeSpec => []StintsAreResidency
<1>1. LifetimeInit => StintInv
  BY StintInitially
<1>2. StintInv /\ [LifetimeNext]_allVars => StintInv'
  BY StintSteps
<1>3. StintInv => StintsAreResidency
  BY ReportedIsSbufTime
<1> QED
  BY <1>1, <1>2, <1>3, PTL DEF LifetimeSpec

------------------------------------------------------------------------------
(* Bins *)

\* The first and last touch of a tensor are in order, and the bins, once there are any,
\* are those of the lifetimes.
BinInv ==
  /\ now \in Nat
  /\ DOMAIN firstT \subseteq DOMAIN lastT
  /\ \A t \in DOMAIN firstT :
       firstT[t] \in Int /\ lastT[t] \in Int /\ firstT[t] <= lastT[t] /\ lastT[t] <= now
  /\ bin # L!NoEntries =>
       /\ ended
       /\ bin = [t \in DOMAIN firstT |-> L!Bins[L!Classify(lastT[t] - firstT[t], now - 0)]]

\* A longer lifetime never has an earlier bin, on any trace.
LEMMA ClassifyMonotone ==
  ASSUME NEW x \in Nat, NEW y \in Nat, NEW span \in Int, x <= y
  PROVE  /\ L!Classify(x, span) \in 1..6 /\ L!Classify(y, span) \in 1..6
         /\ L!Classify(x, span) <= L!Classify(y, span)
  BY LifetimeAssumption DEF L!Classify

\* The bins have different names.
LEMMA RankOfBin == \A i \in 1..6 : Rank(L!Bins[i]) = i
<1>1. \A i, j \in 1..6 : L!Bins[i] = L!Bins[j] => i = j
  BY DEF L!Bins
<1> QED
  BY <1>1 DEF Rank

\* Events keep first and last touch in order; the end of the trace makes the bins.
LEMMA BinSteps ==
  ASSUME BinInv, [LifetimeNext]_allVars
  PROVE  BinInv'
<1>1. ASSUME UNCHANGED <<firstT, lastT, bin, ended, now>> PROVE BinInv'
  BY <1>1 DEF BinInv, L!NoEntries
<1>2. CASE Installs \/ UNCHANGED allVars
  BY <1>1, <1>2 DEF Installs, analysis, traceVars, allVars
<1>3. ASSUME NEW end \in Times, EventAt(end), UNCHANGED <<firstT, lastT, bin>> PROVE BinInv'
  <2>1. now' = end /\ end \in Nat /\ now <= end /\ bin = L!NoEntries
    BY <1>3, TimesGoOn DEF BinInv, EventAt
  <2> QED
    BY <1>3, <2>1 DEF BinInv, L!NoEntries
<1>4. ASSUME NEW end \in Times, NEW k \in Kernels, NEW e \in Starts, BothKernelStart(k, e, end)
      PROVE  BinInv'
  BY <1>3, <1>4 DEF BothKernelStart, L!KernelStart
<1>5. ASSUME NEW end \in Times, NEW p \in opened, NEW e \in KernelEnds, BothKernelEnd(p, e, end)
      PROVE  BinInv'
  BY <1>3, <1>5 DEF BothKernelEnd, L!KernelEnd
<1>6. ASSUME NEW end \in Times, NEW a \in Accesses, BothAccess(a, end) PROVE BinInv'
  <2>1. now' = end /\ end \in Nat /\ now <= end /\ now \in Nat /\ bin = L!NoEntries /\ bin' = bin
    BY <1>6, TimesGoOn DEF BinInv, EventAt, BothAccess, L!Access
  <2>2. /\ firstT' = IF a.tensor \in DOMAIN firstT THEN firstT ELSE L!With(firstT, a.tensor, end)
        /\ lastT' = L!With(lastT, a.tensor, end)
    BY <1>6 DEF BothAccess, L!Access
  <2>3. /\ DOMAIN firstT' = DOMAIN firstT \cup {a.tensor}
        /\ DOMAIN lastT' = DOMAIN lastT \cup {a.tensor}
    BY <2>2 DEF L!With
  <2>4. ASSUME NEW t \in DOMAIN firstT'
        PROVE  /\ firstT'[t] \in Int /\ lastT'[t] \in Int
               /\ firstT'[t] <= lastT'[t] /\ lastT'[t] <= end
    <3>1. lastT'[t] = IF t = a.tensor THEN end ELSE lastT[t]
      BY <2>2, <2>3, <2>4 DEF L!With, BinInv
    <3>2. firstT'[t] = IF t \in DOMAIN firstT THEN firstT[t] ELSE end
      BY <2>2, <2>3, <2>4 DEF L!With
    <3> QED
      BY <2>1, <2>3, <2>4, <3>1, <3>2 DEF BinInv
  <2> QED
    BY <2>1, <2>3, <2>4 DEF BinInv, L!NoEntries
<1>7. CASE TraceEnds
  BY <1>7 DEF TraceEnds, L!Finish, BinInv, L!NoEntries, L!Classify, L!Bins
<1> QED
  BY <1>2, <1>4, <1>5, <1>6, <1>7 DEF LifetimeNext

\* On every trace, a tensor that lives longer never lands in an earlier bin than another,
\* although half of the span may make any lifetime persistent (classify_lifetime).
THEOREM LongerLivesNeverRankLower == LifetimeSpec => []LongerLivesRankHigher
<1>1. LifetimeInit => BinInv
  BY DEF LifetimeInit, L!Init, BinInv, L!NoEntries
<1>2. BinInv /\ [LifetimeNext]_allVars => BinInv'
  BY BinSteps
<1>3. BinInv => LongerLivesRankHigher
  <2> SUFFICES ASSUME BinInv, NEW t \in DOMAIN bin, NEW u \in DOMAIN bin,
                      lastT[t] - firstT[t] <= lastT[u] - firstT[u]
               PROVE  Rank(bin[t]) <= Rank(bin[u])
    BY DEF LongerLivesRankHigher
  <2> DEFINE x == lastT[t] - firstT[t]
             y == lastT[u] - firstT[u]
             span == now - 0
  <2>1. /\ t \in DOMAIN firstT /\ u \in DOMAIN firstT
        /\ bin[t] = L!Bins[L!Classify(x, span)] /\ bin[u] = L!Bins[L!Classify(y, span)]
    BY DEF BinInv, L!NoEntries
  <2>2. x \in Nat /\ y \in Nat /\ x <= y /\ span \in Int
    BY <2>1 DEF BinInv
  <2> HIDE DEF x, y, span
  <2>3. /\ L!Classify(x, span) \in 1..6 /\ L!Classify(y, span) \in 1..6
        /\ L!Classify(x, span) <= L!Classify(y, span)
    BY <2>2, ClassifyMonotone
  <2> QED
    BY <2>1, <2>3, RankOfBin
<1> QED
  BY <1>1, <1>2, <1>3, PTL DEF LifetimeSpec
==============================================================================
