-------------------------------- MODULE Ingest --------------------------------
(***************************************************************************)
(* ingest_all_neuron_cores (trace/neuron_json_ingest.py): the DMA rows of  *)
(* each profiled core become a trace of accesses and kernel boundaries,    *)
(* and the cores' traces become one.  The name mapper is reduced to a      *)
(* table from variables and sizes to tensors; annotations and the runtime  *)
(* tensor events, which are off by default, are left out.                  *)
(***************************************************************************)
EXTENDS Integers, SequencesExt, TLC

CONSTANTS
  Inputs,    \* what a run may be given: two options and the DMA rows of each core
  Catalog,   \* bytes of each slot of the NEFF table
  BySize,    \* tensor that any other variable resolves to when its transfer has the size
             \* of a tensor of the table: its semantic name, without the input's index
  Targets,   \* the assigner's categories but ACTIVATION, with their weights
  Layers,    \* layer_summary of each core: start and end times
  MinBytes,  \* min_transfer_bytes
  Cap,       \* max_access_events, 0 for None
  CapFloor,  \* the least cap of one core, 5000
  NoCore     \* Python's None as a core id, and the missing prefix of a tensor id

\* What a mapped route does.  The routes of a dynamic DMA are unknown at both ends.
AccessOf ==
  [load    |-> [op |-> "read",  target |-> "sbuf"],
   spill   |-> [op |-> "write", target |-> "hbm"],
   output  |-> [op |-> "write", target |-> "sbuf"],
   dynamic |-> [op |-> "read",  target |-> "sbuf"]]

VARIABLES
  input,
  todo,       \* the cores whose traces are not finished; the first is at work
  rows,       \* its DMA rows still to be read
  buckets,    \* its aggregation buckets, in the order of the dict
  accesses,   \* its accesses so far
  tensors,    \* bytes of its tensors
  traces,     \* the finished trace of each core
  trace       \* the chip's trace, once merged

ingestVars == <<input, todo, rows, buckets, accesses, tensors, traces, trace>>

NoTrace == [tensors |-> {}, events |-> <<>>]

Kernels(c) == 2 * Len(Layers[c])

\* A profile lists at least one core.
ASSUME InputsAssumption ==
  \A i \in Inputs :
    /\ {i.aggregate, i.skip} \subseteq BOOLEAN
    /\ DOMAIN i.dma # {} /\ DOMAIN i.dma \subseteq Int /\ IsFiniteSet(DOMAIN i.dma)
    /\ NoCore \notin DOMAIN i.dma
    /\ \A c \in DOMAIN i.dma :
         /\ i.dma[c] \in Seq(Range(i.dma[c]))
         /\ \A row \in Range(i.dma[c]) :
              row \in [variable : {row.variable}, route : {row.route}, bytes : Nat, at : Int]
         /\ Layers[c] \in Seq(Range(Layers[c]))
         /\ \A layer \in Range(Layers[c]) : {layer.start, layer.end} \subseteq Int

\* by_size is built from the entries of the table, whose slots are called input0, output0
\* and so on: no other tensor has such a name.
ASSUME CatalogAssumption ==
  /\ MinBytes \in Nat \ {0}
  /\ Catalog \in [DOMAIN Catalog -> Nat]
  /\ DOMAIN BySize \subseteq Range(Catalog)
  /\ ({"unknown"} \cup Range(BySize)) \cap DOMAIN Catalog = {}

\* _ProportionalCategoryAssigner.from_catalog never leaves targets empty, and a weight is
\* at least 1.
ASSUME TargetsAssumption ==
  /\ Targets \in Seq(Range(Targets)) \ {<<>>}
  /\ \A target \in Range(Targets) : target.weight \in Nat \ {0} /\ target.id \notin DOMAIN Catalog

\* Without room for an access beside the kernel boundaries _downsample_events divides
\* by zero or slices with a negative bound.
ASSUME CapAssumption ==
  /\ {Cap, CapFloor} \subseteq Nat
  /\ Cap = 0 \/ \A i \in Inputs :
       /\ \A c \in DOMAIN i.dma : Kernels(c) < CapFloor
       /\ SumFunction([c \in DOMAIN i.dma |-> Kernels(c)]) < Cap

\* The elements of S in the order that holds the pairs of an earlier and a later one.
InOrder(S, order) ==
  [k \in 1..Cardinality(S) |->
     CHOOSE x \in S : Cardinality({y \in S : <<y, x>> \in order}) = k - 1]

Ascending(S) == {p \in S \X S : p[1] < p[2]}

FirstRows(i, cores) == IF cores = <<>> THEN <<>> ELSE i.dma[Head(cores)]

Init ==
  /\ input \in Inputs
  /\ todo = InOrder(DOMAIN input.dma, Ascending(DOMAIN input.dma))
  /\ rows = FirstRows(input, todo)
  /\ buckets = <<>>
  /\ accesses = <<>>
  /\ tensors = Catalog
  /\ traces = [c \in DOMAIN input.dma |-> NoTrace]
  /\ trace = NoTrace

------------------------------------------------------------------------------
(* DMA rows *)

\* _map_dma_to_access and the size filter.
Accepted(row) ==
  /\ row.bytes >= MinBytes
  /\ row.route \in DOMAIN AccessOf
  /\ row.route = "dynamic" => ~input.skip

Unattributed(row) == row.variable = "unknown" /\ row.route = "dynamic"

InCatalog(variable) == variable \in DOMAIN Catalog

Resolve(variable, n) ==
  IF InCatalog(variable) THEN variable
  ELSE IF n \in DOMAIN BySize THEN BySize[n]
  ELSE variable

\* An unattributed transfer is spread over categories unless its size names a tensor.  The
\* check of neuron_json_ingest.py:520, which spreads it all the same if that tensor's category
\* is OTHER or its name begins with hbm_traffic, is folded into BySize: it holds no such tensor.
Spreads(row) == Unattributed(row) /\ row.bytes \notin DOMAIN BySize

\* A tensor is as large as the largest transfer seen.
Sized(d, t, n) ==
  [u \in DOMAIN d \cup {t} |-> IF u # t THEN d[u]
                               ELSE IF t \in DOMAIN d /\ d[t] > n THEN d[t] ELSE n]

AccessEvent(t, route, n, at) ==
  [type |-> "access", at |-> at, core |-> Head(todo), tensor |-> <<NoCore, t>>,
   op |-> AccessOf[route].op, target |-> AccessOf[route].target, bytes |-> n]

\* Fault: the operation is not part of a bucket's key.
WrongSameKey(bucket, row) == bucket.variable = row.variable

SameKey(bucket, row) == bucket.variable = row.variable /\ bucket.route = row.route

\* A bucket keeps the time of its first row.
Bucketed(row) ==
  IF \E i \in DOMAIN buckets : SameKey(buckets[i], row)
  THEN [i \in DOMAIN buckets |->
          IF SameKey(buckets[i], row) THEN [buckets[i] EXCEPT !.bytes = @ + row.bytes]
                                      ELSE buckets[i]]
  ELSE Append(buckets, row)

------------------------------------------------------------------------------
(* Spreading unattributed bytes *)

Weight == SumFunction([i \in DOMAIN Targets |-> Targets[i].weight])

\* The portion of n bytes that category i gets when spent went to those before it: in
\* proportion, the rest for the last one, and 0 where that is below the minimum.
Portion(n, i, spent) ==
  LET share == IF i = Len(Targets) THEN n - spent ELSE (n * Targets[i].weight) \div Weight
  IN  IF share < MinBytes THEN 0 ELSE share

\* Fault: a portion that is dropped counts as allocated.
WrongAllocated(n) ==
  LET spent[i \in 0..Len(Targets)] ==
        IF i = 0 THEN 0 ELSE spent[i - 1] + (n * Targets[i].weight) \div Weight
  IN  spent

\* What went to the first categories, when a portion below the minimum goes to those
\* after it.
Allocated(n) ==
  LET spent[i \in 0..Len(Targets)] ==
        IF i = 0 THEN 0 ELSE spent[i - 1] + Portion(n, i, spent[i - 1])
  IN  spent

Portions(n) == [i \in DOMAIN Targets |-> Portion(n, i, Allocated(n)[i - 1])]

\* _append_proportional_accesses, for a row or a bucket.
Spread(row) ==
  LET portions == Portions(row.bytes)
      served   == {i \in DOMAIN Targets : portions[i] > 0}
      kept     == InOrder(served, Ascending(served))
      Largest(t) ==
        Max({portions[i] : i \in {j \in served : Targets[j].id = t}}
              \cup (IF t \in DOMAIN tensors THEN {tensors[t]} ELSE {}))
  IN  /\ accesses' = accesses \o [j \in DOMAIN kept |->
           AccessEvent(Targets[kept[j]].id, row.route, portions[kept[j]], row.at)]
      /\ tensors' = [t \in DOMAIN tensors \cup {Targets[i].id : i \in served} |-> Largest(t)]

------------------------------------------------------------------------------
(* One core: _build_from_device_dma and ingest_neuron_json_profile *)

TakeRow == rows # <<>> /\ rows' = Tail(rows) /\ UNCHANGED <<input, todo, traces, trace>>

SkipRow ==
  /\ TakeRow
  /\ ~Accepted(Head(rows))
  /\ UNCHANGED <<buckets, accesses, tensors>>

\* The tensor of a row is recorded when the row is read, also when it is aggregated.
Recorded(row) ==
  IF Spreads(row) THEN tensors ELSE Sized(tensors, Resolve(row.variable, row.bytes), row.bytes)

AggregateRow ==
  /\ TakeRow
  /\ Accepted(Head(rows)) /\ input.aggregate
  /\ buckets' = Bucketed(Head(rows))
  /\ tensors' = Recorded(Head(rows))
  /\ UNCHANGED accesses

EmitAccess(row) ==
  /\ accesses' = Append(accesses,
                   AccessEvent(Resolve(row.variable, row.bytes), row.route, row.bytes, row.at))
  /\ tensors' = Sized(tensors, Resolve(row.variable, row.bytes), row.bytes)

EmitRow ==
  /\ TakeRow
  /\ Accepted(Head(rows)) /\ ~input.aggregate
  /\ IF Spreads(Head(rows)) THEN Spread(Head(rows)) ELSE EmitAccess(Head(rows))
  /\ UNCHANGED buckets

\* A bucket resolves by its total; an unattributed one is spread whatever its rows
\* resolved to.
FlushBucket ==
  /\ rows = <<>> /\ buckets # <<>>
  /\ buckets' = Tail(buckets)
  /\ IF Unattributed(Head(buckets)) THEN Spread(Head(buckets)) ELSE EmitAccess(Head(buckets))
  /\ UNCHANGED <<input, todo, rows, traces, trace>>

\* Python's sorted by time, which is stable: events of one time stay in the order that
\* their positions have.
Sorted(events, order) ==
  LET sooner == {p \in (DOMAIN events) \X (DOMAIN events) :
                   \/ events[p[1]].at < events[p[2]].at
                   \/ events[p[1]].at = events[p[2]].at /\ p \in order}
      at == InOrder(DOMAIN events, sooner)
  IN  [k \in DOMAIN at |-> events[at[k]]]

ByTime(events) == Sorted(events, Ascending(DOMAIN events))

\* _kernel_events_from_layers: a start and an end for every layer, without a core id.
KernelEvents(c) ==
  [j \in 1..Kernels(c) |->
     LET idx == (j + 1) \div 2
         layer == Layers[c][idx]
     IN  [type |-> IF j % 2 = 1 THEN "kernel_start" ELSE "kernel_end",
          at |-> IF j % 2 = 1 THEN layer.start ELSE layer.end,
          core |-> NoCore, kernel |-> <<NoCore, idx>>]]

IsAccess(e) == e.type = "access"

IsKernel(e) == e.type # "access"

\* The elements of s at the positions in S.
Sublist(s, S) ==
  LET at == InOrder(S, Ascending(S)) IN [k \in DOMAIN at |-> s[at[k]]]

KernelsOf(events) == Sublist(events, {i \in DOMAIN events : IsKernel(events[i])})

AccessesOf(events) == Sublist(events, {i \in DOMAIN events : IsAccess(events[i])})

\* Fault: the slice forgets the kernel boundaries.
WrongDownsampled(events, limit) ==
  LET kernels == KernelsOf(events)
      reads   == AccessesOf(events)
      room    == limit - Len(kernels)
      step    == IF Len(reads) \div room = 0 THEN 1 ELSE Len(reads) \div room
      sampled == [i \in 1..((Len(reads) - 1) \div step + 1) |-> reads[(i - 1) * step + 1]]
  IN  IF Len(reads) <= room THEN kernels \o reads
      ELSE kernels \o SubSeq(sampled, 1, IF Len(sampled) < limit THEN Len(sampled) ELSE limit)

\* Fault: the kernel boundaries come last.
WrongOrderDownsampled(events, limit) ==
  LET room == limit - Len(KernelsOf(events))
  IN  SubSeq(AccessesOf(events), 1, room) \o KernelsOf(events)

\* _downsample_events: every kernel boundary and every step-th access, up to the limit.
Downsampled(events, limit) ==
  LET kernels == KernelsOf(events)
      reads   == AccessesOf(events)
      room    == limit - Len(kernels)
      step    == IF Len(reads) \div room = 0 THEN 1 ELSE Len(reads) \div room
      sampled == [i \in 1..room |-> reads[(i - 1) * step + 1]]
  IN  IF Len(reads) <= room THEN kernels \o reads ELSE kernels \o sampled

Capped(events, limit) ==
  IF Cap # 0 /\ Len(events) > limit THEN Downsampled(events, limit) ELSE events

CoreCap ==
  LET share == Cap \div Cardinality(DOMAIN input.dma)
  IN  IF share > CapFloor THEN share ELSE CapFloor

FinishCore ==
  /\ todo # <<>> /\ rows = <<>> /\ buckets = <<>>
  /\ traces' = [traces EXCEPT ![Head(todo)] =
       [tensors |-> {[id |-> <<NoCore, t>>, bytes |-> tensors[t], core |-> NoCore] :
                       t \in DOMAIN tensors},
        events |-> Capped(KernelEvents(Head(todo)) \o ByTime(accesses), CoreCap)]]
  /\ todo' = Tail(todo)
  /\ rows' = FirstRows(input, Tail(todo))
  /\ accesses' = <<>>
  /\ tensors' = Catalog
  /\ UNCHANGED <<input, buckets, trace>>

------------------------------------------------------------------------------
(* The chip: merge_traces *)

\* Fault: the boundaries keep the missing core id.
WrongOnCore(e, c) ==
  IF IsAccess(e) THEN [e EXCEPT !.tensor[1] = c] ELSE [e EXCEPT !.kernel[1] = c]

\* The event of core c, with its ids made unique and the core's id.
OnCore(e, c) ==
  IF IsAccess(e) THEN [e EXCEPT !.tensor[1] = c, !.core = c]
  ELSE [e EXCEPT !.kernel[1] = c, !.core = c]

\* Places of the cores' events, one core after the other.
Places == UNION {{c} \X (DOMAIN traces[c].events) : c \in DOMAIN traces}

CoreByCore ==
  {p \in Places \X Places :
     p[1][1] < p[2][1] \/ (p[1][1] = p[2][1] /\ p[1][2] < p[2][2])}

\* The trace of a single core is taken as it is.
Merged ==
  IF Cardinality(DOMAIN traces) = 1 THEN traces[CHOOSE c \in DOMAIN traces : TRUE]
  ELSE [tensors |-> UNION {{[r EXCEPT !.id[1] = c, !.core = c] : r \in traces[c].tensors} :
                             c \in DOMAIN traces},
        events |-> Sorted([p \in Places |-> OnCore(traces[p[1]].events[p[2]], p[1])], CoreByCore)]

Merge ==
  /\ todo = <<>> /\ trace = NoTrace
  /\ trace' = [Merged EXCEPT !.events = Capped(@, Cap)]
  /\ UNCHANGED <<input, todo, rows, buckets, accesses, tensors, traces>>

Next == SkipRow \/ AggregateRow \/ EmitRow \/ FlushBucket \/ FinishCore \/ Merge

Spec == Init /\ [][Next]_ingestVars

------------------------------------------------------------------------------
(* What ingest must keep of a profile, stated about all its rows and not   *)
(* about the steps that handle them.                                       *)

Working == todo # <<>>

\* The rows of the core at work that have been read and were not skipped.
AllRows == input.dma[Head(todo)]

RowsRead == {i \in 1..(Len(AllRows) - Len(rows)) : Accepted(AllRows[i])}

\* Bytes of the elements of s at the positions in S.
BytesAt(s, S) == SumFunctionOnSet([i \in DOMAIN s |-> s[i].bytes], S)

\* No bytes are invented, and each spread loses fewer than MinBytes, the remainder that
\* _append_proportional_accesses finds too small for its last category.
BytesConserved ==
  Working =>
    LET spread  == Cardinality({i \in RowsRead : Unattributed(AllRows[i])})
        pending == BytesAt(accesses, DOMAIN accesses) + BytesAt(buckets, DOMAIN buckets)
    IN  /\ pending <= BytesAt(AllRows, RowsRead)
        /\ BytesAt(AllRows, RowsRead) <= pending + spread * (MinBytes - 1)

\* What a slot's accesses and rows are.
AccessesTo(v, op) ==
  {i \in DOMAIN accesses : accesses[i].tensor = <<NoCore, v>> /\ accesses[i].op = op}

OfSlot(row, v, op) == row.variable = v /\ AccessOf[row.route].op = op

\* A slot of the NEFF table keeps every byte, per operation, whether rows are aggregated
\* or not and however its rows alternate with others.
CatalogBytesExact ==
  Working =>
    \A v \in DOMAIN Catalog, op \in {"read", "write"} :
      BytesAt(accesses, AccessesTo(v, op))
        + BytesAt(buckets, {i \in DOMAIN buckets : OfSlot(buckets[i], v, op)})
      = BytesAt(AllRows, {i \in RowsRead : OfSlot(AllRows[i], v, op)})

\* Every access of a finished trace is of a tensor of its trace that is at least as
\* large as the transfer: run_simulation raises on an unknown tensor, and placement
\* reserves TensorRecord.bytes.  What the simulator's scratch rules need besides: after
\* a merge the access runs on that tensor's core, and every kernel boundary names the
\* core it is for.
AccessesFindTensors ==
  \A i \in DOMAIN trace.events :
    LET e      == trace.events[i]
        merged == Cardinality(DOMAIN input.dma) > 1
    IN  IF IsAccess(e)
        THEN \E r \in trace.tensors :
               r.id = e.tensor /\ r.bytes >= e.bytes /\ (merged => r.core = e.core)
        ELSE merged => e.core = e.kernel[1] /\ e.core # NoCore

\* s is u without some of its elements.
IsSubsequence(s, u) == \E S \in SUBSET DOMAIN u : s = Sublist(u, S)

\* The events of core c among events.
EventsOf(events, c) == Sublist(events, {i \in DOMAIN events : events[i].core = c})

\* parsed_events sorts the trace that is written by time, as the traces of the cores
\* would be.  Merging and downsampling then drop accesses of a core but never reorder
\* its events, so a boundary stays before the accesses of the same time.
CoreOrderKept ==
  trace # NoTrace /\ Cardinality(DOMAIN input.dma) > 1 =>
    \A c \in DOMAIN traces :
      LET whole == ByTime(traces[c].events)
          kept  == EventsOf(ByTime(trace.events), c)
      IN  /\ IsSubsequence(kept, [i \in DOMAIN whole |-> OnCore(whole[i], c)])
          /\ Len(KernelsOf(kept)) = Kernels(c)

\* cli.py: "Cap access events after ingest".  The cap is respected, and used up before
\* any access is dropped.
CapRespected ==
  trace # NoTrace /\ Cap # 0 =>
    LET offered == SumFunction([c \in DOMAIN traces |-> Len(traces[c].events)])
    IN  Len(trace.events) = IF offered > Cap THEN Cap ELSE offered
==============================================================================
