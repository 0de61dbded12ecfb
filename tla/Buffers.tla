------------------------------- MODULE Buffers -------------------------------
(***************************************************************************)
(* FastBufferState and LevelPoolState (sim/residency.py): a Python dict of *)
(* occupants, which keeps insertion order, and a running byte count.  The  *)
(* dict is its key sequence and a size for every tensor, 0 for the absent. *)
(***************************************************************************)
EXTENDS Hierarchy

Buffer == [order : Seq(Tensors), size : [Tensors -> Nat], used : Int]

EmptyBuffer == [order |-> <<>>, size |-> [t \in Tensors |-> 0], used |-> 0]

Holds(b, t) == t \in Range(b.order)

\* Fault for the mutation runs: the old size of an occupant is not given back.
WrongPut(b, t, n) ==
  [order |-> IF Holds(b, t) THEN b.order ELSE Append(b.order, t),
   size  |-> [b.size EXCEPT ![t] = n],
   used  |-> b.used + n]

\* Fault: a resize records the change instead of the new size.
WrongResize(b, t, n) ==
  [order |-> IF Holds(b, t) THEN b.order ELSE Append(b.order, t),
   size  |-> [b.size EXCEPT ![t] = n - @],
   used  |-> b.used + n - b.size[t]]

\* install: replace the size of an occupant in place, or append a new one.
Put(b, t, n) ==
  [order |-> IF Holds(b, t) THEN b.order ELSE Append(b.order, t),
   size  |-> [b.size EXCEPT ![t] = n],
   used  |-> b.used + n - (IF Holds(b, t) THEN b.size[t] ELSE 0)]

\* next(iter(occupants)) and its pop: the first inserted occupant goes.
DropOldest(b) ==
  [order |-> Tail(b.order),
   size  |-> [b.size EXCEPT ![Head(b.order)] = 0],
   used  |-> b.used - b.size[Head(b.order)]]

CanFit(b, capacity, n) == b.used + n <= capacity

\* The byte count is the sum of the sizes of distinct occupants.
BooksBalance(b) ==
  /\ IsInjective(b.order)
  /\ b.used = SumFunctionOnSet(b.size, Range(b.order))
==============================================================================
