--------------------------- MODULE LifetimeLockstep ---------------------------
(***************************************************************************)
(* Lifetime analysis beside the simulator, on one trace: what it reports   *)
(* as time in SBUF against the time the simulator has the tensor there.    *)
(***************************************************************************)
EXTENDS ResidencyProperties

CONSTANTS
  Kernels, MicroEnd, ShortEnd, MediumEnd, LongEnd,   \* as in Lifetime
  Starts,      \* core ids that a kernel_start may carry
  Gaps,        \* times that may pass between two events
  MaxEvents    \* bound on the length of the trace

ASSUME LifetimeAssumption ==
  /\ Starts \subseteq Cores \cup {NoCore}
  /\ Gaps \subseteq Nat
  /\ MaxEvents \in Nat
  /\ {MicroEnd, ShortEnd, MediumEnd, LongEnd} \subseteq Nat
  /\ 0 < MicroEnd /\ MicroEnd < ShortEnd /\ ShortEnd < MediumEnd /\ MediumEnd < LongEnd

VARIABLES
  firstT, lastT, active, spans, inSbuf, sbufTotal, bin,   \* the analysis
  now, events,   \* time of the last event, which starts at 0, and their number
  ended,         \* the analysis has seen the whole trace
  opened,        \* <<kernel, core id>> of the kernels that have not ended
  simTime,       \* time the simulator had each tensor in SBUF
  strayed        \* tensors it had there for less than a stint

L == INSTANCE Lifetime

analysis == <<firstT, lastT, active, spans, inSbuf, sbufTotal, bin>>

traceVars == <<now, events, ended, opened>>

allVars == <<vars, analysis, traceVars, simTime, strayed>>

LifetimeInit ==
  /\ Init
  /\ L!Init
  /\ now = 0 /\ events = 0 /\ ended = FALSE /\ opened = {}
  /\ simTime = [t \in Tensors |-> 0]
  /\ strayed = {}

Installs == Preinstall /\ UNCHANGED <<analysis, traceVars, simTime, strayed>>

\* The next event of the trace comes at the time end.
EventAt(end) ==
  /\ Loaded /\ ~ended /\ events < MaxEvents
  /\ now' = end
  /\ events' = events + 1
  /\ simTime' = [t \in Tensors |-> simTime[t] + IF resident[t] = "sbuf" THEN end - now ELSE 0]
  /\ UNCHANGED ended

\* An access may evict or move tensors that a stint goes on for, and a StRAM tensor
\* read in place never arrives.
Strays(a) ==
  {t \in Tensors : resident[t] = "sbuf" /\ resident'[t] # "sbuf"}
  \cup (IF DirectStramRead(a) THEN {a.tensor} ELSE {})

BothAccess(a, end) ==
  /\ EventAt(end)
  /\ Access(a)
  /\ L!Access(a, end)
  /\ strayed' = strayed \cup Strays(a)
  /\ UNCHANGED opened

BothKernelStart(k, e, end) ==
  /\ EventAt(end)
  /\ \A p \in opened : p[1] # k
  /\ L!KernelStart(k, e, end)
  /\ opened' = opened \cup {<<k, e>>}
  /\ UNCHANGED <<vars, strayed>>

\* A kernel ends on the core it started on, or for the whole chip.
BothKernelEnd(p, e, end) ==
  /\ EventAt(end)
  /\ e \in {p[2], NoCore}
  /\ KernelEnd(e)
  /\ L!KernelEnd(p[1], e, end)
  /\ opened' = opened \ {p}
  /\ UNCHANGED strayed

TraceEnds ==
  /\ Loaded /\ ~ended /\ events > 0
  /\ L!Finish(0, now)
  /\ ended' = TRUE
  /\ UNCHANGED <<vars, now, events, opened, simTime, strayed>>

Times == IF events = 0 THEN {now} ELSE {now + gap : gap \in Gaps}

LifetimeNext ==
  \/ Installs
  \/ \E end \in Times :
       \/ \E a \in Accesses : BothAccess(a, end)
       \/ \E k \in Kernels, e \in Starts : BothKernelStart(k, e, end)
       \/ \E p \in opened, e \in KernelEnds : BothKernelEnd(p, e, end)
  \/ TraceEnds

LifetimeSpec == LifetimeInit /\ [][LifetimeNext]_allVars

------------------------------------------------------------------------------
(* Properties *)

\* Time in SBUF so far, open stints included.
SbufTime(t) == sbufTotal[t] + L!Spent(t, Cores, now)

\* LIFETIME_ANALYSIS_AUDIT.md, 2.2: after placement "SBUF stint stats may overstate
\* scratch residency".  They never understate it: whatever the simulator evicts,
\* flushes or reads in place, a tensor is in SBUF at most as long as reported, on
\* traces that fill SBUF by reads.
StintsBoundResidency == \A t \in Tensors : simTime[t] <= SbufTime(t)

\* And they are exact for a tensor that the simulator only drops at kernel ends
\* ("matches engine._handle_kernel_boundary"), those of the whole chip included.
StintsAreResidency == \A t \in Tensors \ strayed : simTime[t] = SbufTime(t)

\* _kernel_end_cores: a kernel that has ended is active on no core, so no later access
\* counts it, even if its end came without the core id of its start.
EndedKernelsInactive ==
  \A c \in Cores, k \in Kernels : k \in active[c] => \E p \in opened : p[1] = k

\* A tensor that lives longer never lands in an earlier bin, although the rule of half
\* the span cuts across the bins' bounds (classify_lifetime).
Rank(b) == CHOOSE i \in 1..6 : L!Bins[i] = b

LongerLivesRankHigher ==
  \A t, u \in DOMAIN bin :
    lastT[t] - firstT[t] <= lastT[u] - firstT[u] => Rank(bin[t]) <= Rank(bin[u])
==============================================================================
