------------------------------- MODULE Lifetime -------------------------------
(***************************************************************************)
(* analyze_trace_lifetimes (trace/lifetime_analysis.py): one pass over the *)
(* events in time order that keeps, for every tensor, when it was touched, *)
(* which kernels ran on the core that touched it and how long it stayed in *)
(* SBUF.  It knows neither homes nor capacities.  Of the list of stints    *)
(* only the sum is kept.                                                   *)
(***************************************************************************)
EXTENDS Hierarchy

CONSTANTS
  Kernels,                                   \* kernel ids
  MicroEnd, ShortEnd, MediumEnd, LongEnd     \* _BIN_UPPER_NS: 1, 10, 100 and 1000 ms

VARIABLES
  firstT, lastT,   \* first and last access of every touched tensor
  active,          \* active_kernels[core], an absent list is an empty set
  spans,           \* tensor_kernels
  inSbuf,          \* in_sbuf[core]: start of the stint of each tensor there
  sbufTotal,       \* sum of the stints of each tensor that have ended
  bin              \* the bin of each touched tensor, once the trace has ended

lifetimeVars == <<firstT, lastT, active, spans, inSbuf, sbufTotal, bin>>

Bins == <<"point", "micro", "short", "medium", "long", "persistent">>

\* An empty dict.
NoEntries == [t \in {} |-> 0]

With(d, t, v) == [u \in DOMAIN d \cup {t} |-> IF u = t THEN v ELSE d[u]]

Init ==
  /\ firstT = NoEntries
  /\ lastT = NoEntries
  /\ active = [c \in Cores |-> {}]
  /\ spans = [t \in Tensors |-> {}]
  /\ inSbuf = [c \in Cores |-> NoEntries]
  /\ sbufTotal = [t \in Tensors |-> 0]
  /\ bin = NoEntries

------------------------------------------------------------------------------
(* Kernel boundaries *)

\* A kernel_start without a core id counts as core 0's.
KernelStart(k, e, at) ==
  /\ active' = [active EXCEPT ![IF e = NoCore THEN CoreZero ELSE e] = @ \cup {k}]
  /\ UNCHANGED <<firstT, lastT, spans, inSbuf, sbufTotal, bin>>

\* Fault: a kernel_end without a core id counts as core 0's as well.
WrongKernelEndCores(e) == {IF e = NoCore THEN CoreZero ELSE e}

\* _kernel_end_cores.  Cores without an active kernel have none to lose.
KernelEndCores(e) == IF e # NoCore THEN {e} ELSE {c \in Cores : active[c] # {}}

\* Fault: a chip-wide end empties SBUF on core 0 only.
WrongWipedCores(e) == {IF e = NoCore THEN CoreZero ELSE e}

WipedCores(e) == IF e # NoCore THEN {e} ELSE {c \in Cores : DOMAIN inSbuf[c] # {}}

\* The stints of t that end at the time at when cores are wiped.
Spent(t, cores, at) ==
  LET there == {c \in cores : t \in DOMAIN inSbuf[c]}
  IN  SumFunctionOnSet([c \in there |-> at - inSbuf[c][t]], there)

SbufWithout(cores) == [c \in Cores |-> IF c \in cores THEN NoEntries ELSE inSbuf[c]]

EndStints(cores, at) ==
  /\ sbufTotal' = [t \in Tensors |-> sbufTotal[t] + Spent(t, cores, at)]
  /\ inSbuf' = SbufWithout(cores)

KernelEnd(k, e, at) ==
  /\ active' = [c \in Cores |-> IF c \in KernelEndCores(e) THEN active[c] \ {k} ELSE active[c]]
  /\ EndStints(WipedCores(e), at)
  /\ UNCHANGED <<firstT, lastT, spans, bin>>

------------------------------------------------------------------------------
(* Accesses *)

\* Fault: every read starts a stint.
WrongStartsStint(a) == a.op = "read" /\ a.target = "sbuf"

\* Only a read into SBUF of a tensor that is not there yet starts a stint.
StartsStint(a) ==
  /\ a.op = "read" /\ a.target = "sbuf"
  /\ a.tensor \notin DOMAIN inSbuf[a.core]

\* Events come in time order: the first touch stays first.
Access(a, at) ==
  /\ firstT' = IF a.tensor \in DOMAIN firstT THEN firstT ELSE With(firstT, a.tensor, at)
  /\ lastT' = With(lastT, a.tensor, at)
  /\ spans' = [spans EXCEPT ![a.tensor] = @ \cup active[a.core]]
  /\ inSbuf' = IF StartsStint(a)
               THEN [inSbuf EXCEPT ![a.core] = With(@, a.tensor, at)]
               ELSE inSbuf
  /\ UNCHANGED <<active, sbufTotal, bin>>

------------------------------------------------------------------------------
(* The result *)

\* Fault: half of the span makes a lifetime persistent only below the last bins.
WrongClassify(lifetime, span) ==
  IF lifetime = 0 THEN 1
  ELSE IF lifetime >= LongEnd THEN 6
  ELSE IF lifetime >= MediumEnd THEN 5
  ELSE IF span >= MicroEnd /\ 2 * lifetime >= span THEN 6
  ELSE IF lifetime >= ShortEnd THEN 4
  ELSE IF lifetime >= MicroEnd THEN 3
  ELSE 2

\* classify_lifetime, as a position in Bins.
Classify(lifetime, span) ==
  IF lifetime = 0 THEN 1
  ELSE IF span >= MicroEnd /\ 2 * lifetime >= span THEN 6
  ELSE IF lifetime >= LongEnd THEN 6
  ELSE IF lifetime >= MediumEnd THEN 5
  ELSE IF lifetime >= ShortEnd THEN 4
  ELSE IF lifetime >= MicroEnd THEN 3
  ELSE 2

\* After the last event the open stints end with the trace and the tensors are binned.
Finish(start, end) ==
  /\ EndStints(Cores, end)
  /\ bin' = [t \in DOMAIN firstT |-> Bins[Classify(lastT[t] - firstT[t], end - start)]]
  /\ UNCHANGED <<firstT, lastT, active, spans>>
==============================================================================
