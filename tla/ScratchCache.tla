----------------------------- MODULE ScratchCache -----------------------------
(***************************************************************************)
(* What the simulator promises about scratch, abstractly: each NeuronCore  *)
(* has a cache for the tensors it owns.  A tensor is cached only while it  *)
(* is stored there.  Loading one drops at most one other tensor of the     *)
(* same core, a write may leave a stale copy behind, and a kernel boundary *)
(* empties the cache of one core or of the whole chip.  Residency          *)
(* implements it on the traces that ingest writes.                         *)
(***************************************************************************)
CONSTANTS
  Tensors,
  Cores,
  Owner     \* the core of each tensor

VARIABLES
  cached,   \* the tensors whose live copy is in their core's scratch
  stored    \* the tensors with a copy there, stale ones included

cacheVars == <<cached, stored>>

OwnedBy(cores) == {t \in Tensors : Owner[t] \in cores}

Init == cached = {} /\ stored = {}

\* The tensors in dropped make room for t.
Replace(dropped, t) ==
  /\ cached' = (cached \ dropped) \cup {t}
  /\ stored' = (stored \ dropped) \cup {t}

Load(t) ==
  /\ t \notin cached
  /\ \/ Replace({}, t)
     \/ \E u \in (stored \ {t}) \cap OwnedBy({Owner[t]}) : Replace({u}, t)

\* A write moves the tensor elsewhere and its copy becomes stale.
Leave(t) ==
  /\ t \in cached
  /\ cached' = cached \ {t}
  /\ UNCHANGED stored

Wipe(cores) ==
  /\ cached' = cached \ OwnedBy(cores)
  /\ stored' = stored \ OwnedBy(cores)

WipeChip == cached' = {} /\ stored' = {}

Next ==
  \/ \E t \in Tensors : Load(t) \/ Leave(t)
  \/ \E c \in Cores : Wipe({c})
  \/ WipeChip

Spec == Init /\ [][Next]_cacheVars
==============================================================================
