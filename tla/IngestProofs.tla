---------------------------- MODULE IngestProofs ----------------------------
(***************************************************************************)
(* Proofs about Profile for every profile, table, category list and cap:   *)
(* the books of the bytes while a core's rows are read, aggregated and     *)
(* spread; what a finished and a merged trace hold; the cap; and the ids   *)
(* of the catalog.  The constants' assumptions are those of Ingest and     *)
(* NameMapper.                                                             *)
(***************************************************************************)
EXTENDS Profile, SumTheorems, FunctionTheorems

\* Numbers of a list.
LEMMA RowsAre ==
  ASSUME NEW S, NEW s, NEW n \in Nat, DOMAIN s = 1..n, s = [i \in 1..n |-> s[i]],
         \A i \in 1..n : s[i] \in S
  PROVE  s \in Seq(S) /\ Len(s) = n
  OBVIOUS

\* The list of a set's elements in an order holds each of them once.
LEMMA OrderIs ==
  ASSUME NEW S, IsFiniteSet(S), NEW order, StrictOrder(S, order)
  PROVE  /\ Cardinality(S) \in Nat
         /\ InOrder(S, order) \in [1..Cardinality(S) -> S]
         /\ \A k, l \in 1..Cardinality(S) : InOrder(S, order)[k] = InOrder(S, order)[l] => k = l
         /\ \A x \in S : \E k \in 1..Cardinality(S) : InOrder(S, order)[k] = x
         /\ \A k, l \in 1..Cardinality(S) :
              k < l => <<InOrder(S, order)[k], InOrder(S, order)[l]>> \in order
<1> DEFINE n == Cardinality(S)
           f == InOrder(S, order)
           Rank(x) == Cardinality(Earlier(S, order, x))
<1>1. /\ n \in Nat
      /\ \A x, y \in S : Rank(x) = Rank(y) => x = y
      /\ \A k \in 0..(n - 1) : \E x \in S : Rank(x) = k
  BY RanksAre
<1>2. ASSUME NEW k \in 1..n PROVE f[k] \in S /\ Rank(f[k]) = k - 1
  <2>1. f[k] = CHOOSE x \in S : Rank(x) = k - 1
    BY DEF InOrder, Earlier
  <2>2. k - 1 \in 0..(n - 1)
    BY <1>1
  <2>3. \E x \in S : Rank(x) = k - 1
    BY <1>1, <2>2
  <2> HIDE DEF Rank, f
  <2> QED
    BY <2>1, <2>3
<1>3. f \in [1..n -> S]
  <2>1. f = [k \in 1..n |-> f[k]]
    <3> DEFINE At(k) == CHOOSE x \in S : Cardinality({y \in S : <<y, x>> \in order}) = k - 1
    <3>1. f = [k \in 1..n |-> At(k)]
      BY DEF InOrder
    <3> HIDE DEF f, At, n
    <3> QED
      BY <3>1
  <2> HIDE DEF f
  <2> QED
    BY <1>2, <2>1
<1>4. \A k, l \in 1..n : f[k] = f[l] => k = l
  <2> SUFFICES ASSUME NEW k \in 1..n, NEW l \in 1..n, f[k] = f[l] PROVE k = l
    OBVIOUS
  <2> HIDE DEF f, Rank
  <2>1. k - 1 = l - 1
    BY <1>2
  <2> QED
    BY <1>1, <2>1
<1>5. ASSUME NEW x \in S PROVE Rank(x) \in 0..(n - 1)
  <2>1. Earlier(S, order, x) \in SUBSET S /\ x \notin Earlier(S, order, x)
    BY DEF Earlier, StrictOrder
  <2>2. IsFiniteSet(Earlier(S, order, x)) /\ Rank(x) <= n /\ Rank(x) # n
    BY <2>1, FS_Subset
  <2>3. Rank(x) \in Nat
    BY <2>2, FS_CardinalityType
  <2> QED
    BY <1>1, <2>2, <2>3
<1>6. ASSUME NEW x \in S PROVE \E k \in 1..n : f[k] = x
  <2> DEFINE k == Rank(x) + 1
  <2>1. k \in 1..n /\ k - 1 = Rank(x)
    <3> HIDE DEF Rank
    <3> QED
      BY <1>1, <1>5
  <2>2. f[k] \in S /\ Rank(f[k]) = Rank(x)
    <3> HIDE DEF Rank, f, k
    <3> QED
      BY <1>2, <2>1
  <2>3. f[k] = x
    BY <1>1, <2>2
  <2> QED
    BY <2>1, <2>3
<1>7. ASSUME NEW k \in 1..n, NEW l \in 1..n, k < l PROVE <<f[k], f[l]>> \in order
  <2> SUFFICES ASSUME <<f[k], f[l]>> \notin order PROVE FALSE
    OBVIOUS
  <2> DEFINE x == f[k]
             y == f[l]
  <2>1. x \in S /\ y \in S /\ Rank(x) = k - 1 /\ Rank(y) = l - 1
    BY <1>2
  <2>2. x # y
    <3> HIDE DEF Rank, x, y
    <3> QED
      BY <1>7, <2>1
  <2>3. <<y, x>> \in order
    <3> HIDE DEF f
    <3> QED
      BY <2>1, <2>2 DEF StrictOrder
  <2>4. Earlier(S, order, y) \in SUBSET Earlier(S, order, x)
    <3> HIDE DEF f, x, y
    <3> QED
      BY <2>1, <2>3 DEF Earlier, StrictOrder
  <2>5. Earlier(S, order, x) \in SUBSET S
    BY DEF Earlier
  <2>6. Rank(y) <= Rank(x)
    <3> HIDE DEF f, x, y
    <3>1. IsFiniteSet(Earlier(S, order, x))
      BY <2>5, FS_Subset
    <3> QED
      BY <2>4, <3>1, FS_Subset
  <2> HIDE DEF Rank, x, y
  <2> QED
    BY <1>7, <2>1, <2>6
<1> QED
  BY <1>1, <1>3, <1>4, <1>6, <1>7

\* u lists the elements of s at the places in S, each once.
Lists(u, s, S) ==
  \E at : Renames(at, 1..Cardinality(S), S) /\ u = [k \in 1..Cardinality(S) |-> s[at[k]]]

\* Ascending orders any numbers.
LEMMA AscendingIs ==
  ASSUME NEW S \in SUBSET Int
  PROVE  StrictOrder(S, Ascending(S))
<1>1. \A x, y \in S : <<x, y>> \in Ascending(S) <=> x < y
  BY DEF Ascending
<1> QED
  BY <1>1 DEF StrictOrder

\* The list that follows an order over a finite set lists the set.
LEMMA ListedInOrder ==
  ASSUME NEW s, NEW S, IsFiniteSet(S), NEW order, StrictOrder(S, order)
  PROVE  LET at == InOrder(S, order) IN Lists([k \in DOMAIN at |-> s[at[k]]], s, S)
<1> DEFINE at == InOrder(S, order)
<1>1. /\ at \in [1..Cardinality(S) -> S]
      /\ \A k, l \in 1..Cardinality(S) : at[k] = at[l] => k = l
      /\ \A x \in S : \E k \in 1..Cardinality(S) : at[k] = x
  BY OrderIs
<1> HIDE DEF at
<1>2. DOMAIN at = 1..Cardinality(S)
  BY <1>1
<1>3. Lists([k \in DOMAIN at |-> s[at[k]]], s, S)
  BY <1>1, <1>2 DEF Lists, Renames
<1> QED
  BY <1>3 DEF at

\* A sublist has the elements at its places.
LEMMA SublistIs ==
  ASSUME NEW s, NEW S \in SUBSET Int, IsFiniteSet(S)
  PROVE  Lists(Sublist(s, S), s, S)
<1>1. StrictOrder(S, Ascending(S))
  BY AscendingIs
<1>2. LET at == InOrder(S, Ascending(S)) IN Lists([k \in DOMAIN at |-> s[at[k]]], s, S)
  BY <1>1, ListedInOrder
<1> QED
  BY <1>2 DEF Sublist

\* Pairs of an earlier and a later event: by time, then by an order of their positions.
Sooner(events, order) ==
  {p \in (DOMAIN events) \X (DOMAIN events) :
     \/ events[p[1]].at < events[p[2]].at
     \/ events[p[1]].at = events[p[2]].at /\ p \in order}

Precedes(events, order, x, y) ==
  events[x].at < events[y].at \/ (events[x].at = events[y].at /\ <<x, y>> \in order)

\* The events by time are a strict order.
LEMMA SoonerIs ==
  ASSUME NEW events, NEW order, StrictOrder(DOMAIN events, order),
         \A x \in DOMAIN events : events[x].at \in Int
  PROVE  /\ StrictOrder(DOMAIN events, Sooner(events, order))
         /\ \A x, y \in DOMAIN events :
              <<x, y>> \in Sooner(events, order) <=> Precedes(events, order, x, y)
<1> DEFINE D == DOMAIN events
           sooner == Sooner(events, order)
<1>1. \A x, y \in D : <<x, y>> \in sooner <=> Precedes(events, order, x, y)
  BY DEF Sooner, Precedes
<1>2. StrictOrder(D, sooner)
  <2> DEFINE t == [x \in D |-> events[x].at]
  <2>1. \A x \in D : t[x] \in Int /\ events[x].at = t[x]
    OBVIOUS
  <2>2. \A x, y \in D : <<x, y>> \in sooner <=> t[x] < t[y] \/ (t[x] = t[y] /\ <<x, y>> \in order)
    BY <1>1 DEF Precedes
  <2>3. /\ \A x \in D : <<x, x>> \notin order
        /\ \A x, y \in D : x # y => <<x, y>> \in order \/ <<y, x>> \in order
        /\ \A x, y, z \in D : <<x, y>> \in order /\ <<y, z>> \in order => <<x, z>> \in order
    BY DEF StrictOrder
  <2> HIDE DEF sooner, t, D
  <2>4. ASSUME NEW x \in D PROVE <<x, x>> \notin sooner
    <3>1. t[x] \in Int /\ <<x, x>> \notin order
      BY <2>1, <2>3
    <3> QED
      BY <2>2, <3>1
  <2>5. ASSUME NEW x \in D, NEW y \in D, x # y
        PROVE  <<x, y>> \in sooner \/ <<y, x>> \in sooner
    <3>1. t[x] \in Int /\ t[y] \in Int /\ (<<x, y>> \in order \/ <<y, x>> \in order)
      BY <2>1, <2>3, <2>5
    <3>2. t[x] < t[y] \/ (t[x] = t[y] /\ <<x, y>> \in order)
            \/ t[y] < t[x] \/ (t[y] = t[x] /\ <<y, x>> \in order)
      BY <3>1
    <3> QED
      BY <2>2, <3>2
  <2>6. ASSUME NEW x \in D, NEW y \in D, NEW z \in D, <<x, y>> \in sooner, <<y, z>> \in sooner
        PROVE  <<x, z>> \in sooner
    <3>1. t[x] \in Int /\ t[y] \in Int /\ t[z] \in Int
      BY <2>1
    <3>2. t[x] < t[y] \/ (t[x] = t[y] /\ <<x, y>> \in order)
      BY <2>2, <2>6
    <3>3. t[y] < t[z] \/ (t[y] = t[z] /\ <<y, z>> \in order)
      BY <2>2, <2>6
    <3>4. t[x] < t[z] \/ (t[x] = t[z] /\ <<x, z>> \in order)
      BY <2>3, <3>1, <3>2, <3>3
    <3> QED
      BY <2>2, <3>4
  <2> QED
    BY <2>4, <2>5, <2>6 DEF StrictOrder
<1> QED
  BY <1>1, <1>2

\* Sorting puts every event in a place, the earlier before the later ones.
LEMMA SortedAt ==
  ASSUME NEW events, IsFiniteSet(DOMAIN events), NEW order, StrictOrder(DOMAIN events, order),
         \A x \in DOMAIN events : events[x].at \in Int,
         NEW n, n = Cardinality(DOMAIN events)
  PROVE  \E at :
           /\ n \in Nat /\ Renames(at, 1..n, DOMAIN events)
           /\ Sorted(events, order) = [k \in 1..n |-> events[at[k]]]
           /\ \A k, l \in 1..n : k < l => Precedes(events, order, at[k], at[l])
<1> DEFINE D == DOMAIN events
           sooner == Sooner(events, order)
           at == InOrder(D, sooner)
<1>1. StrictOrder(D, sooner) /\ \A x, y \in D : <<x, y>> \in sooner <=> Precedes(events, order, x, y)
  BY SoonerIs
<1>2. Sorted(events, order) = [k \in DOMAIN at |-> events[at[k]]]
  BY DEF Sorted, Sooner
<1> HIDE DEF sooner
<1>3. /\ n \in Nat /\ at \in [1..n -> D]
      /\ \A k, l \in 1..n : at[k] = at[l] => k = l
      /\ \A x \in D : \E k \in 1..n : at[k] = x
      /\ \A k, l \in 1..n : k < l => <<at[k], at[l]>> \in sooner
  <2> HIDE DEF D
  <2> QED
    BY <1>1, OrderIs DEF D
<1> HIDE DEF at
<1>4. DOMAIN at = 1..n /\ Renames(at, 1..n, D) /\ \A k \in 1..n : at[k] \in D
  BY <1>3 DEF Renames
<1>5. \A k, l \in 1..n : k < l => Precedes(events, order, at[k], at[l])
  BY <1>1, <1>3, <1>4
<1> QED
  BY <1>2, <1>3, <1>4, <1>5

\* Sorting neither drops nor repeats an event.
LEMMA SortedIs ==
  ASSUME NEW events, IsFiniteSet(DOMAIN events), NEW order, StrictOrder(DOMAIN events, order),
         \A x \in DOMAIN events : events[x].at \in Int
  PROVE  Lists(Sorted(events, order), events, DOMAIN events)
BY SortedAt DEF Lists

KernelsAmong(list, S) == {x \in S : IsKernel(list[x])}

\* What a list tells of the elements it lists: they are as many, the same ones, and as
\* many of them are kernel boundaries.
LEMMA ListTells ==
  ASSUME NEW u, NEW s, NEW S, IsFiniteSet(S), Lists(u, s, S)
  PROVE  /\ Cardinality(S) \in Nat
         /\ DOMAIN u = 1..Cardinality(S)
         /\ u = [k \in 1..Cardinality(S) |-> u[k]]
         /\ \A k \in 1..Cardinality(S) : \E x \in S : u[k] = s[x]
         /\ \A x \in S : \E k \in 1..Cardinality(S) : u[k] = s[x]
         /\ Cardinality(KernelsAmong(u, 1..Cardinality(S))) = Cardinality(KernelsAmong(s, S))
<1> DEFINE n == Cardinality(S)
<1>1. n \in Nat
  BY FS_CardinalityType
<1>2. PICK at : Renames(at, 1..n, S) /\ u = [k \in 1..n |-> s[at[k]]]
  BY DEF Lists
<1> USE DEF Renames
<1> DEFINE A == {k \in 1..n : IsKernel(u[k])}
           B == {x \in S : IsKernel(s[x])}
           c == [k \in A |-> at[k]]
<1>3. \A k \in 1..n : u[k] = s[at[k]] /\ at[k] \in S
  BY <1>2
<1>4. c \in Surjection(A, B)
  <2>1. \A k \in A : at[k] \in B
    BY <1>3
  <2>2. \A x \in B : \E k \in A : at[k] = x
    BY <1>2, <1>3
  <2> QED
    BY <2>1, <2>2 DEF Surjection
<1>5. c \in Injection(A, B)
  <2>1. \A k, l \in A : c[k] = c[l] => k = l
    BY <1>2
  <2> HIDE DEF c, A, B
  <2> QED
    BY <1>4, <2>1 DEF Surjection, Injection, IsInjective
<1>6. IsFiniteSet(A)
  <2>1. IsFiniteSet(1..n) /\ A \in SUBSET (1..n)
    BY <1>1, FS_Interval
  <2> QED
    BY <2>1, FS_Subset
<1>7. Cardinality(A) = Cardinality(B)
  <2> HIDE DEF A, B, c
  <2> QED
    BY <1>4, <1>5, <1>6, FS_Surjection
<1>8. DOMAIN u = 1..n /\ u = [k \in 1..n |-> u[k]]
  BY <1>2
<1> QED
  BY <1>1, <1>2, <1>3, <1>7, <1>8 DEF KernelsAmong

------------------------------------------------------------------------------
(* Bytes of a list *)

BytesKnown(s, S) == IsFiniteSet(S) /\ S \in SUBSET DOMAIN s /\ \A x \in S : s[x].bytes \in Nat

\* Known bytes sum to a natural number.
LEMMA BytesAre ==
  ASSUME NEW s, NEW S, BytesKnown(s, S)
  PROVE  BytesAt(s, S) \in Nat
<1> DEFINE f == [i \in DOMAIN s |-> s[i].bytes]
<1>1. IsFiniteSet(S) /\ \A x \in S : f[x] \in Nat
  BY DEF BytesKnown
<1> HIDE DEF f
<1>2. SumFunctionOnSet(f, S) \in Nat
  BY <1>1, SumNat
<1> QED
  BY <1>2 DEF BytesAt, f

\* Nothing sums to nothing.
LEMMA BytesNone ==
  ASSUME NEW s
  PROVE  BytesAt(s, {}) = 0
BY SumEmpty DEF BytesAt

\* Elements of one size sum alike.
LEMMA BytesSame ==
  ASSUME NEW s, NEW u, NEW S, BytesKnown(s, S), S \in SUBSET DOMAIN u,
         \A x \in S : u[x].bytes = s[x].bytes
  PROVE  BytesAt(u, S) = BytesAt(s, S)
<1> DEFINE f == [i \in DOMAIN s |-> s[i].bytes]
           g == [i \in DOMAIN u |-> u[i].bytes]
<1>1. IsFiniteSet(S) /\ \A x \in S : f[x] = g[x]
  BY DEF BytesKnown
<1> HIDE DEF f, g
<1>2. SumFunctionOnSet(f, S) = SumFunctionOnSet(g, S)
  BY <1>1, SumSame
<1> QED
  BY <1>2 DEF BytesAt, f, g

\* One more element.
LEMMA BytesWith ==
  ASSUME NEW s, NEW S, NEW x, x \notin S, BytesKnown(s, S \cup {x})
  PROVE  BytesAt(s, S \cup {x}) = BytesAt(s, S) + s[x].bytes
<1> DEFINE f == [i \in DOMAIN s |-> s[i].bytes]
<1>1. IsFiniteSet(S \cup {x}) /\ x \in S \cup {x} /\ x \in DOMAIN s
  BY DEF BytesKnown
<1>2. \A y \in S \cup {x} : f[y] \in Nat
  BY DEF BytesKnown
<1>3. IsFiniteSet(S) /\ f[x] = s[x].bytes
  BY <1>1, FS_Subset
<1> HIDE DEF f
<1>4. \A y \in S \cup {x} : f[y] \in Int
  BY <1>2
<1>5. SumFunctionOnSet(f, S \cup {x}) = f[x] + SumFunctionOnSet(f, S)
  BY <1>3, <1>4, SumInsert
<1>6. SumFunctionOnSet(f, S) \in Nat /\ f[x] \in Nat
  BY <1>2, <1>3, SumNat
<1>7. SumFunctionOnSet(f, S \cup {x}) = SumFunctionOnSet(f, S) + f[x]
  BY <1>5, <1>6
<1> QED
  BY <1>3, <1>7 DEF BytesAt, f

\* One element changes.
LEMMA BytesChanged ==
  ASSUME NEW s, NEW u, NEW S, NEW x \in S, BytesKnown(s, S), BytesKnown(u, S),
         \A y \in S \ {x} : u[y].bytes = s[y].bytes
  PROVE  BytesAt(u, S) = BytesAt(s, S) + u[x].bytes - s[x].bytes
<1> DEFINE f == [i \in DOMAIN s |-> s[i].bytes]
           g == [i \in DOMAIN u |-> u[i].bytes]
<1>1. IsFiniteSet(S) /\ (\A y \in S : f[y] \in Int /\ g[y] \in Int) /\ \A y \in S \ {x} : f[y] = g[y]
  BY DEF BytesKnown
<1>2. f[x] = s[x].bytes /\ g[x] = u[x].bytes
  BY DEF BytesKnown
<1> HIDE DEF f, g
<1>3. SumFunctionOnSet(g, S) = SumFunctionOnSet(f, S) + g[x] - f[x]
  BY <1>1, SumUpdate
<1> QED
  BY <1>2, <1>3 DEF BytesAt, f, g

\* The elements of s at S are at T in u.
Moved(u, T, s, S) ==
  \E b : Renames(b, S, T) /\ \A x \in S : b[x] \in DOMAIN u /\ u[b[x]].bytes = s[x].bytes

\* They sum alike there.
LEMMA BytesMoved ==
  ASSUME NEW s, NEW S, BytesKnown(s, S), NEW u, NEW T, Moved(u, T, s, S)
  PROVE  BytesAt(u, T) = BytesAt(s, S)
<1> DEFINE f == [i \in DOMAIN s |-> s[i].bytes]
           g == [i \in DOMAIN u |-> u[i].bytes]
<1>1. PICK b : Renames(b, S, T) /\ \A x \in S : b[x] \in DOMAIN u /\ u[b[x]].bytes = s[x].bytes
  BY DEF Moved
<1>2. IsFiniteSet(S) /\ \A x \in S : f[x] \in Int /\ g[b[x]] = f[x]
  BY <1>1 DEF BytesKnown
<1> HIDE DEF f, g
<1>3. SumFunctionOnSet(f, S) = SumFunctionOnSet(g, T)
  BY <1>1, <1>2, SumRenamed
<1> QED
  BY <1>3 DEF BytesAt, f, g

\* Two lists one after the other.
LEMMA BytesJoined ==
  ASSUME NEW X, NEW s \in Seq(X), NEW t \in Seq(X),
         NEW S \in SUBSET (1..Len(s)), NEW T \in SUBSET (1..Len(t)),
         \A i \in S : s[i].bytes \in Nat, \A j \in T : t[j].bytes \in Nat
  PROVE  BytesAt(s \o t, S \cup {Len(s) + j : j \in T}) = BytesAt(s, S) + BytesAt(t, T)
<1> DEFINE u == s \o t
           V == {Len(s) + j : j \in T}
<1>1. /\ Len(s) \in Nat /\ Len(t) \in Nat /\ DOMAIN s = 1..Len(s) /\ DOMAIN t = 1..Len(t)
      /\ DOMAIN u = 1..(Len(s) + Len(t))
      /\ \A i \in 1..Len(s) : u[i] = s[i]
      /\ \A j \in 1..Len(t) : u[Len(s) + j] = t[j]
  <2>1. u \in Seq(X) /\ Len(u) = Len(s) + Len(t)
    OBVIOUS
  <2>2. \A i \in 1..Len(s) : u[i] = s[i]
    OBVIOUS
  <2>3. \A j \in 1..Len(t) : u[Len(s) + j] = t[j]
    OBVIOUS
  <2> HIDE DEF u
  <2> QED
    BY <2>1, <2>2, <2>3
<1> HIDE DEF u
<1>2. IsFiniteSet(S) /\ IsFiniteSet(T)
  <2>1. IsFiniteSet(1..Len(s)) /\ IsFiniteSet(1..Len(t))
    BY <1>1, FS_Interval
  <2> QED
    BY <2>1, FS_Subset
<1>3. BytesKnown(s, S) /\ BytesKnown(t, T)
  BY <1>1, <1>2 DEF BytesKnown
<1>4. S \in SUBSET DOMAIN u /\ \A x \in S : u[x].bytes = s[x].bytes
  BY <1>1
<1>5. BytesAt(u, S) = BytesAt(s, S)
  BY <1>3, <1>4, BytesSame
<1>6. \A j \in T : Len(s) + j \in DOMAIN u /\ u[Len(s) + j].bytes = t[j].bytes
  BY <1>1
<1>7. BytesAt(u, V) = BytesAt(t, T)
  <2>1. Moved(u, V, t, T)
    <3> DEFINE b == [j \in T |-> Len(s) + j]
    <3>1. Renames(b, T, V)
      BY <1>1 DEF Renames
    <3>2. \A j \in T : b[j] \in DOMAIN u /\ u[b[j]].bytes = t[j].bytes
      BY <1>6
    <3> HIDE DEF b, V
    <3> QED
      BY <3>1, <3>2 DEF Moved
  <2> HIDE DEF V
  <2> QED
    BY <1>3, <2>1, BytesMoved
<1>8. S \cap V = {}
  BY <1>1
<1>9. IsFiniteSet(V)
  <2>1. V \in SUBSET (1..(Len(s) + Len(t)))
    BY <1>1
  <2>2. IsFiniteSet(1..(Len(s) + Len(t)))
    BY <1>1, FS_Interval
  <2> QED
    BY <2>1, <2>2, FS_Subset
<1> DEFINE g == [i \in DOMAIN u |-> u[i].bytes]
<1>10. \A x \in S \cup V : g[x] \in Int
  <2>1. \A x \in S : g[x] = s[x].bytes
    BY <1>4
  <2>2. ASSUME NEW j \in T PROVE g[Len(s) + j] = t[j].bytes
    BY <1>6
  <2> HIDE DEF g
  <2>3. \A x \in V : \E j \in T : g[x] = t[j].bytes
    BY <2>2
  <2> HIDE DEF V
  <2> QED
    BY <2>1, <2>3
<1> HIDE DEF g, V
<1>11. SumFunctionOnSet(g, S \cup V) = SumFunctionOnSet(g, S) + SumFunctionOnSet(g, V)
  BY <1>2, <1>8, <1>9, <1>10, SumUnion
<1>12. BytesAt(u, S \cup V) = BytesAt(s, S) + BytesAt(t, T)
  BY <1>5, <1>7, <1>11 DEF BytesAt, g
<1> QED
  BY <1>12 DEF u, V

------------------------------------------------------------------------------
(* Portions *)

Categories == Len(Targets)

Weights == [i \in 1..Categories |-> Targets[i].weight]

\* What TargetsAssumption gives: every category has a weight, and so have all together.
LEMMA TargetsAre ==
  /\ Categories \in Nat \ {0} /\ DOMAIN Targets = 1..Categories /\ IsFiniteSet(1..Categories)
  /\ \A i \in 1..Categories : Weights[i] \in Nat \ {0} /\ Targets[i].weight = Weights[i]
  /\ \A i \in 1..Categories : Targets[i].id \notin DOMAIN Catalog
  /\ Weight = SumFunctionOnSet(Weights, 1..Categories) /\ Weight \in Nat \ {0}
  /\ MinBytes \in Nat \ {0}
<1>1. Targets \in Seq(Range(Targets)) /\ Targets # <<>>
  BY TargetsAssumption
<1>2. Categories \in Nat \ {0} /\ DOMAIN Targets = 1..Categories
  BY <1>1 DEF Categories
<1>3. \A i \in 1..Categories : Targets[i] \in Range(Targets)
  BY <1>2 DEF Range
<1>4. \A i \in 1..Categories : Targets[i].weight \in Nat \ {0} /\ Targets[i].id \notin DOMAIN Catalog
  BY <1>3, TargetsAssumption
<1>5. \A i \in 1..Categories : Weights[i] \in Nat \ {0} /\ Targets[i].weight = Weights[i]
  BY <1>4 DEF Weights
<1>6. IsFiniteSet(1..Categories)
  BY <1>2, FS_Interval
<1>7. Weight = SumFunctionOnSet(Weights, 1..Categories)
  <2>1. DOMAIN Weights = 1..Categories /\ [i \in DOMAIN Targets |-> Targets[i].weight] = Weights
    BY <1>2 DEF Weights
  <2> QED
    BY <2>1 DEF Weight, SumFunction, FoldFunction, SumFunctionOnSet
<1>8. Weight \in Nat /\ Weights[1] <= Weight
  <2>1. 1 \in 1..Categories /\ \A i \in 1..Categories : Weights[i] \in Nat
    BY <1>2, <1>5
  <2> QED
    BY <1>6, <1>7, <2>1, SumNat
<1>9. Weight # 0
  <2>1. Weights[1] \in Nat \ {0}
    BY <1>2, <1>5
  <2> QED
    BY <1>8, <2>1
<1> QED
  BY <1>2, <1>4, <1>5, <1>6, <1>7, <1>8, <1>9, CatalogAssumption

\* What Allocated defines exists.
LEMMA AllocatedIs ==
  ASSUME NEW n
  PROVE  /\ DOMAIN Allocated(n) = 0..Categories
         /\ Allocated(n)[0] = 0
         /\ \A i \in 1..Categories : Allocated(n)[i] = Allocated(n)[i - 1] + Portion(n, i, Allocated(n)[i - 1])
<1> DEFINE Step(before, i) == before + Portion(n, i, before)
           Solves(m, f) == f = [i \in 0..m |-> IF i = 0 THEN 0 ELSE Step(f[i - 1], i)]
           Reached == {m \in Nat : \E f : Solves(m, f)}
<1> HIDE DEF Step
<1>1. 0 \in Reached
  <2>1. Solves(0, [i \in 0..0 |-> 0])
    OBVIOUS
  <2> QED
    BY <2>1
<1>2. ASSUME NEW m \in Nat, m \in Reached PROVE m + 1 \in Reached
  <2>1. PICK f : Solves(m, f)
    BY <1>2
  <2> DEFINE g == [i \in 0..(m + 1) |-> IF i = m + 1 THEN Step(f[m], i) ELSE f[i]]
  <2>2. ASSUME NEW i \in 0..(m + 1) PROVE g[i] = IF i = 0 THEN 0 ELSE Step(g[i - 1], i)
    <3>1. CASE i = m + 1
      <4>1. g[i] = Step(f[m], i) /\ g[i - 1] = f[m] /\ i # 0
        BY <3>1
      <4> QED
        BY <3>1, <4>1
    <3>2. CASE i # m + 1
      <4>1. i \in 0..m /\ g[i] = f[i] /\ (i # 0 => g[i - 1] = f[i - 1])
        BY <3>2
      <4>2. f[i] = IF i = 0 THEN 0 ELSE Step(f[i - 1], i)
        BY <2>1, <4>1
      <4> QED
        BY <4>1, <4>2
    <3> QED
      BY <3>1, <3>2
  <2>3. g = [i \in 0..(m + 1) |-> g[i]]
    OBVIOUS
  <2> HIDE DEF g
  <2>4. Solves(m + 1, g)
    BY <2>2, <2>3
  <2> QED
    BY <2>4
<1>3. Categories \in Reached
  <2> HIDE DEF Reached
  <2> QED
    BY <1>1, <1>2, NatSetInduction, TargetsAre
<1>4. Solves(Categories, Allocated(n))
  <2>1. Allocated(n) = CHOOSE f : Solves(Categories, f)
    BY DEF Allocated, Step, Categories
  <2>2. \E f : Solves(Categories, f)
    BY <1>3
  <2> HIDE DEF Solves
  <2> QED
    BY <2>1, <2>2
<1> DEFINE f == Allocated(n)
<1>5. f = [i \in 0..Categories |-> IF i = 0 THEN 0 ELSE Step(f[i - 1], i)]
  BY <1>4
<1> HIDE DEF f
<1>6. DOMAIN f = 0..Categories /\ \A i \in 0..Categories : f[i] = IF i = 0 THEN 0 ELSE Step(f[i - 1], i)
  BY <1>5
<1>7. f[0] = 0 /\ \A i \in 1..Categories : f[i] = Step(f[i - 1], i)
  BY <1>6, TargetsAre
<1> QED
  BY <1>6, <1>7 DEF f, Step

\* A quotient is not above the number divided.
LEMMA QuotientIs ==
  ASSUME NEW a \in Nat, NEW b \in Nat \ {0}
  PROVE  a \div b \in Nat /\ b * (a \div b) <= a
  OBVIOUS

\* Products of naturals are naturals.
LEMMA ProductIs == \A a, b \in Nat : a * b \in Nat
  OBVIOUS

\* A common factor.
LEMMA FactorIs ==
  ASSUME NEW a \in Nat, NEW b \in Nat, NEW c \in Nat
  PROVE  a * (b + c) = a * b + a * c
  OBVIOUS

\* Of two products the smaller one with the larger factor has the smaller other one.
LEMMA FactorFits ==
  ASSUME NEW a \in Nat \ {0}, NEW b \in Nat, NEW c \in Nat, NEW n \in Nat, c <= a, a * b <= n * c
  PROVE  b <= n
<1>1. n * c <= n * a
  <2>1. PICK d \in Nat : a = c + d
    <3>1. a - c \in Nat /\ a = c + (a - c)
      OBVIOUS
    <3> QED
      BY <3>1
  <2>2. n * a = n * c + n * d /\ n * d \in Nat /\ n * c \in Nat
    BY <2>1, FactorIs, ProductIs
  <2> QED
    BY <2>2
<1>2. ASSUME n < b PROVE FALSE
  <2>1. PICK d \in Nat \ {0} : b = n + d
    <3>1. b - n \in Nat \ {0} /\ b = n + (b - n)
      BY <1>2
    <3> QED
      BY <3>1
  <2>2. a * b = a * n + a * d /\ a * n \in Nat /\ a * d \in Nat
    BY <2>1, FactorIs, ProductIs
  <2>3. a * d # 0
    BY <2>1
  <2>4. a * n = n * a
    OBVIOUS
  <2> QED
    BY <1>1, <2>2, <2>3, <2>4
<1> QED
  BY <1>2

\* The weight of the first i categories.
Prefix(i) == SumFunctionOnSet(Weights, 1..i)

\* The weights of the first categories add up to the weight of all.
LEMMA PrefixGrows ==
  /\ Prefix(0) = 0
  /\ \A i \in 0..Categories : Prefix(i) \in Nat /\ Prefix(i) <= Weight
  /\ \A i \in 1..Categories : Prefix(i) = Prefix(i - 1) + Weights[i]
<1>1. Prefix(0) = 0
  <2>1. 1..0 = {}
    OBVIOUS
  <2> QED
    BY <2>1, SumEmpty DEF Prefix
<1>2. /\ Categories \in Nat /\ IsFiniteSet(1..Categories) /\ \A i \in 1..Categories : Weights[i] \in Nat
      /\ Weight = SumFunctionOnSet(Weights, 1..Categories)
  BY TargetsAre
<1>3. ASSUME NEW i \in 0..Categories PROVE Prefix(i) \in Nat /\ Prefix(i) <= Weight
  <2>1. 1..i \in SUBSET (1..Categories)
    BY <1>2
  <2>2. IsFiniteSet(1..i) /\ \A j \in 1..i : Weights[j] \in Nat
    BY <1>2, <2>1, FS_Subset
  <2>3. Prefix(i) \in Nat
    BY <2>2, SumNat DEF Prefix
  <2>4. Prefix(i) <= Weight
    BY <1>2, <2>1, SumSubset DEF Prefix
  <2> QED
    BY <2>3, <2>4
<1>4. ASSUME NEW i \in 1..Categories PROVE Prefix(i) = Prefix(i - 1) + Weights[i]
  <2>1. i - 1 \in 0..Categories /\ 1..i = (1..(i - 1)) \cup {i} /\ i \notin 1..(i - 1)
    BY <1>2
  <2>2. 1..(i - 1) \in SUBSET (1..Categories)
    BY <1>2
  <2>3. IsFiniteSet(1..(i - 1)) /\ \A j \in (1..(i - 1)) \cup {i} : Weights[j] \in Int
    BY <1>2, <2>2, FS_Subset
  <2> DEFINE S == 1..(i - 1)
  <2> HIDE DEF S
  <2>4. SumFunctionOnSet(Weights, S \cup {i}) = Weights[i] + SumFunctionOnSet(Weights, S)
    BY <2>1, <2>3, SumInsert DEF S
  <2>5. SumFunctionOnSet(Weights, S) \in Nat /\ Weights[i] \in Nat
    BY <1>2, <1>3, <2>1 DEF S, Prefix
  <2>6. Prefix(i) = SumFunctionOnSet(Weights, S \cup {i}) /\ Prefix(i - 1) = SumFunctionOnSet(Weights, S)
    BY <2>1, Zenon DEF Prefix, S
  <2> QED
    BY <2>4, <2>5, <2>6
<1> QED
  BY <1>1, <1>3, <1>4

\* A portion is nothing or at least MinBytes.
LEMMA PortionIs ==
  ASSUME NEW n \in Nat, NEW i \in 1..Categories, NEW spent \in Nat, i = Categories => spent <= n
  PROVE  /\ Portion(n, i, spent) \in Nat
         /\ Portion(n, i, spent) = 0 \/ Portion(n, i, spent) >= MinBytes
         /\ i # Categories => Weight * Portion(n, i, spent) <= n * Weights[i]
         /\ i = Categories => spent + Portion(n, i, spent) <= n
                                /\ n <= spent + Portion(n, i, spent) + (MinBytes - 1)
<1>1. /\ Weight \in Nat \ {0} /\ MinBytes \in Nat \ {0} /\ Weights[i] \in Nat
      /\ Targets[i].weight = Weights[i]
  BY TargetsAre
<1> DEFINE share == IF i = Categories THEN n - spent ELSE (n * Weights[i]) \div Weight
<1>2. Portion(n, i, spent) = IF share < MinBytes THEN 0 ELSE share
  BY <1>1 DEF Portion, Categories
<1>3. CASE i = Categories
  <2>1. share = n - spent
    BY <1>3
  <2> HIDE DEF share
  <2> QED
    BY <1>1, <1>2, <1>3, <2>1
<1>4. CASE i # Categories
  <2>1. n * Weights[i] \in Nat
    BY <1>1, ProductIs
  <2>2. share \in Nat /\ Weight * share <= n * Weights[i]
    <3>1. share = (n * Weights[i]) \div Weight
      BY <1>4
    <3> DEFINE a == n * Weights[i]
    <3> HIDE DEF a
    <3>2. a \div Weight \in Nat /\ Weight * (a \div Weight) <= a
      BY <1>1, <2>1, QuotientIs DEF a
    <3> QED
      BY <3>1, <3>2 DEF a
  <2>3. Weight * 0 = 0
    BY <1>1
  <2> HIDE DEF share
  <2> QED
    BY <1>1, <1>2, <1>4, <2>1, <2>2, <2>3
<1> QED
  BY <1>3, <1>4

\* Before the last category no more has been allocated than the weights allow.
LEMMA AllocatedFits ==
  ASSUME NEW n \in Nat, NEW i \in 0..(Categories - 1)
  PROVE  Allocated(n)[i] \in Nat /\ Allocated(n)[i] <= n
<1> DEFINE f == Allocated(n)
           Good == {j \in Nat : j < Categories => f[j] \in Nat /\ Weight * f[j] <= n * Prefix(j)}
<1>1. /\ Categories \in Nat /\ Weight \in Nat \ {0} /\ f[0] = 0
      /\ \A j \in 1..Categories : f[j] = f[j - 1] + Portion(n, j, f[j - 1])
  BY TargetsAre, AllocatedIs
<1> HIDE DEF f
<1>2. 0 \in Good
  <2>1. Weight * 0 = 0 /\ n * Prefix(0) = 0
    BY <1>1, PrefixGrows
  <2> QED
    BY <1>1, <2>1
<1>3. ASSUME NEW j \in Nat, j \in Good PROVE j + 1 \in Good
  <2> SUFFICES ASSUME j + 1 < Categories
               PROVE  f[j + 1] \in Nat /\ Weight * f[j + 1] <= n * Prefix(j + 1)
    OBVIOUS
  <2> DEFINE p == Portion(n, j + 1, f[j])
  <2>1. j + 1 \in 1..Categories /\ j + 1 # Categories /\ (j + 1) - 1 = j /\ j \in 0..Categories
    BY <1>1
  <2>2. f[j] \in Nat /\ Weight * f[j] <= n * Prefix(j)
    BY <1>1, <1>3
  <2>3. p \in Nat /\ Weight * p <= n * Weights[j + 1]
    BY <2>1, <2>2, PortionIs
  <2>4. f[j + 1] = f[j] + p
    BY <1>1, <2>1
  <2>5. Prefix(j + 1) = Prefix(j) + Weights[j + 1] /\ Prefix(j) \in Nat /\ Weights[j + 1] \in Nat
    BY <2>1, PrefixGrows, TargetsAre
  <2> HIDE DEF p
  <2>6. Weight * f[j + 1] = Weight * f[j] + Weight * p
    BY <1>1, <2>2, <2>3, <2>4, FactorIs
  <2>7. n * Prefix(j + 1) = n * Prefix(j) + n * Weights[j + 1]
    BY <2>5, FactorIs
  <2>8. Weight * f[j] \in Nat /\ Weight * p \in Nat /\ n * Prefix(j) \in Nat /\ n * Weights[j + 1] \in Nat
    BY <1>1, <2>2, <2>3, <2>5, ProductIs
  <2> QED
    BY <2>2, <2>3, <2>4, <2>6, <2>7, <2>8
<1>4. i \in Good
  <2>1. i \in Nat
    BY <1>1
  <2> HIDE DEF Good
  <2> QED
    BY <1>2, <1>3, <2>1, NatSetInduction
<1>5. f[i] \in Nat /\ Weight * f[i] <= n * Prefix(i) /\ i \in 0..Categories
  BY <1>1, <1>4
<1>6. f[i] <= n
  <2>1. Prefix(i) \in Nat /\ Prefix(i) <= Weight
    BY <1>5, PrefixGrows
  <2> QED
    BY <1>1, <1>5, <2>1, FactorFits
<1> QED
  BY <1>5, <1>6 DEF f

\* The portions of n bytes leave fewer than MinBytes over.
LEMMA PortionsAre ==
  ASSUME NEW n \in Nat
  PROVE  /\ Portions(n) \in [1..Categories -> Nat]
         /\ \A i \in 1..Categories : Portions(n)[i] = 0 \/ Portions(n)[i] >= MinBytes
         /\ SumFunctionOnSet(Portions(n), 1..Categories) <= n
         /\ n <= SumFunctionOnSet(Portions(n), 1..Categories) + (MinBytes - 1)
<1> DEFINE f == Allocated(n)
           p == Portions(n)
<1>1. /\ Categories \in Nat \ {0} /\ DOMAIN Targets = 1..Categories /\ MinBytes \in Nat \ {0} /\ f[0] = 0
      /\ \A i \in 1..Categories : f[i] = f[i - 1] + Portion(n, i, f[i - 1])
  BY TargetsAre, AllocatedIs
<1>2. \A i \in 0..(Categories - 1) : f[i] \in Nat /\ f[i] <= n
  BY AllocatedFits
<1>3. p = [i \in 1..Categories |-> Portion(n, i, f[i - 1])]
  BY <1>1 DEF Portions
<1> HIDE DEF f, p
<1>4. ASSUME NEW i \in 1..Categories
      PROVE  /\ p[i] = Portion(n, i, f[i - 1]) /\ f[i] = f[i - 1] + p[i] /\ f[i - 1] \in Nat
             /\ p[i] \in Nat /\ (p[i] = 0 \/ p[i] >= MinBytes)
             /\ i = Categories => f[i] <= n /\ n <= f[i] + (MinBytes - 1)
  <2>1. i - 1 \in 0..(Categories - 1)
    BY <1>1
  <2>2. f[i - 1] \in Nat /\ f[i - 1] <= n
    BY <1>2, <2>1
  <2>3. p[i] = Portion(n, i, f[i - 1]) /\ f[i] = f[i - 1] + Portion(n, i, f[i - 1])
    BY <1>1, <1>3
  <2> QED
    BY <2>2, <2>3, PortionIs
<1> DEFINE Good == {i \in Nat : i <= Categories => SumFunctionOnSet(p, 1..i) = f[i]}
<1>5. 0 \in Good
  <2>1. 1..0 = {}
    OBVIOUS
  <2>2. SumFunctionOnSet(p, 1..0) = 0
    BY <2>1, SumEmpty
  <2> QED
    BY <1>1, <2>2
<1>6. ASSUME NEW i \in Nat, i \in Good PROVE i + 1 \in Good
  <2> SUFFICES ASSUME i + 1 <= Categories PROVE SumFunctionOnSet(p, 1..(i + 1)) = f[i + 1]
    OBVIOUS
  <2> DEFINE S == 1..i
  <2>1. i + 1 \in 1..Categories /\ 1..(i + 1) = S \cup {i + 1} /\ i + 1 \notin S
        /\ (i + 1) - 1 = i /\ \A j \in S \cup {i + 1} : j \in 1..Categories
    BY <1>1
  <2>2. IsFiniteSet(S)
    BY FS_Interval
  <2>3. \A j \in S \cup {i + 1} : p[j] \in Int
    BY <1>4, <2>1
  <2>4. SumFunctionOnSet(p, S) = f[i]
    BY <1>1, <1>6
  <2> HIDE DEF S
  <2>5. SumFunctionOnSet(p, S \cup {i + 1}) = p[i + 1] + SumFunctionOnSet(p, S)
    BY <2>1, <2>2, <2>3, SumInsert
  <2>6. f[i + 1] = f[i] + p[i + 1] /\ f[i] \in Nat /\ p[i + 1] \in Nat
    BY <1>4, <2>1
  <2>7. SumFunctionOnSet(p, 1..(i + 1)) = SumFunctionOnSet(p, S \cup {i + 1})
    BY <2>1, Zenon
  <2> QED
    BY <2>4, <2>5, <2>6, <2>7
<1>7. Categories \in Good
  <2> HIDE DEF Good
  <2> QED
    BY <1>1, <1>5, <1>6, NatSetInduction
<1>8. SumFunctionOnSet(p, 1..Categories) = f[Categories]
  BY <1>1, <1>7
<1>9. Categories \in 1..Categories
  BY <1>1
<1>10. p \in [1..Categories -> Nat]
  BY <1>3, <1>4
<1> QED
  BY <1>4, <1>8, <1>9, <1>10 DEF p

------------------------------------------------------------------------------
(* The core at work *)

Profiled == UNION {UNION {Range(i.dma[c]) : c \in DOMAIN i.dma} : i \in Inputs}

Variables == {row.variable : row \in Profiled}

RowSet == [variable : Variables, route : {row.route : row \in Profiled}, bytes : Nat, at : Int]

Ids == Variables \cup DOMAIN Catalog \cup Range(BySize) \cup {Targets[i].id : i \in 1..Categories}

ProfiledCores == UNION {DOMAIN i.dma : i \in Inputs}

AccessSet ==
  [type : {"access"}, at : Int, core : ProfiledCores, tensor : {NoCore} \X Ids,
   op : {"read", "write"}, target : {"sbuf", "hbm"}, bytes : Nat]

KeyOf(row) == <<row.variable, row.route>>

Keyed(list, S, K) == {i \in S : KeyOf(list[i]) \in K}

\* The bytes of a list's rows with a key in K.
KeyBytes(list, K) == BytesAt(list, Keyed(list, DOMAIN list, K))

HasKey(list, k) == \E i \in DOMAIN list : KeyOf(list[i]) = k

\* A bucket has a key of its own.
BucketsOK(list) ==
  /\ list \in Seq(RowSet)
  /\ \A i \in DOMAIN list : list[i].route \in DOMAIN AccessOf
  /\ \A i, j \in DOMAIN list : KeyOf(list[i]) = KeyOf(list[j]) => i = j

\* The rows to be read are the last ones of the core's, and a bucket has a key of its own.
IngestTypeOK ==
  /\ input \in Inputs
  /\ todo \in Seq(DOMAIN input.dma)
  /\ Working =>
       /\ rows \in Seq(RowSet) /\ Len(rows) <= Len(AllRows)
       /\ \A k \in 1..Len(rows) : rows[k] = AllRows[Len(AllRows) - Len(rows) + k]
  /\ ~Working => rows = <<>> /\ buckets = <<>> /\ accesses = <<>>
  /\ BucketsOK(buckets)
  /\ accesses \in Seq(AccessSet)
  /\ tensors \in [DOMAIN tensors -> Nat] /\ DOMAIN tensors \subseteq Ids

SpreadRows == {i \in RowsRead : Unattributed(AllRows[i])}

RowBytes(K) == BytesAt(AllRows, Keyed(AllRows, RowsRead, K))

Keys == Variables \X {row.route : row \in Profiled}

SpreadKey == <<"unknown", "dynamic">>

SlotKeys(v, op) == {v} \X {r \in DOMAIN AccessOf : AccessOf[r].op = op}

\* A spread that is still to come: no two buckets are alike.
Open == IF HasKey(buckets, SpreadKey) THEN 1 ELSE 0

\* The rows of a core.
LEMMA RowsOfCore ==
  ASSUME NEW i \in Inputs, NEW c \in DOMAIN i.dma
  PROVE  /\ i.dma[c] \in Seq(RowSet)
         /\ Len(Layers[c]) \in Nat
         /\ \A k \in 1..Len(Layers[c]) : Layers[c][k].start \in Int /\ Layers[c][k].end \in Int
<1>1. /\ i.dma[c] \in Seq(Range(i.dma[c]))
      /\ \A row \in Range(i.dma[c]) :
           row \in [variable : {row.variable}, route : {row.route}, bytes : Nat, at : Int]
      /\ Layers[c] \in Seq(Range(Layers[c]))
      /\ \A layer \in Range(Layers[c]) : {layer.start, layer.end} \subseteq Int
  BY InputsAssumption
<1>2. Range(i.dma[c]) \subseteq RowSet
  <2>1. ASSUME NEW row \in Range(i.dma[c]) PROVE row \in RowSet
    <3>1. row \in [variable : {row.variable}, route : {row.route}, bytes : Nat, at : Int]
      BY <1>1
    <3>2. row \in Profiled
      BY DEF Profiled
    <3>3. row.variable \in Variables /\ row.route \in {r.route : r \in Profiled}
      BY <3>2 DEF Variables
    <3> QED
      BY <3>1, <3>3 DEF RowSet
  <2> QED
    BY <2>1
<1>3. i.dma[c] \in Seq(RowSet)
  BY <1>1, <1>2
<1>4. Len(Layers[c]) \in Nat /\ \A k \in 1..Len(Layers[c]) : Layers[c][k] \in Range(Layers[c])
  BY <1>1 DEF Range
<1> QED
  BY <1>1, <1>3, <1>4

\* The fields of a row.
LEMMA RowFields ==
  ASSUME NEW row \in RowSet
  PROVE  row.bytes \in Nat /\ row.at \in Int /\ row.variable \in Variables
  BY DEF RowSet

\* While a core is at work its rows are known.
LEMMA AtWork ==
  ASSUME IngestTypeOK, Working
  PROVE  /\ Head(todo) \in DOMAIN input.dma /\ Head(todo) \in ProfiledCores
         /\ AllRows \in Seq(RowSet) /\ Len(AllRows) \in Nat /\ DOMAIN AllRows = 1..Len(AllRows)
         /\ Len(rows) \in Nat /\ RowsRead \in SUBSET (1..Len(AllRows)) /\ IsFiniteSet(RowsRead)
         /\ \A S \in SUBSET RowsRead : BytesKnown(AllRows, S)
<1>1. todo \in Seq(DOMAIN input.dma) /\ todo # <<>> /\ input \in Inputs
  BY DEF IngestTypeOK, Working
<1>2. Head(todo) \in DOMAIN input.dma
  BY <1>1
<1>3. Head(todo) \in ProfiledCores
  BY <1>1, <1>2 DEF ProfiledCores
<1>4. AllRows \in Seq(RowSet)
  BY <1>1, <1>2, RowsOfCore DEF AllRows
<1>5. Len(AllRows) \in Nat /\ DOMAIN AllRows = 1..Len(AllRows)
  BY <1>4
<1>6. rows \in Seq(RowSet) /\ Len(rows) \in Nat
  BY DEF IngestTypeOK
<1>7. RowsRead \in SUBSET (1..Len(AllRows))
  BY <1>5, <1>6 DEF RowsRead
<1>8. IsFiniteSet(RowsRead)
  <2>1. IsFiniteSet(1..Len(AllRows))
    BY <1>5, FS_Interval
  <2> QED
    BY <1>7, <2>1, FS_Subset
<1>9. ASSUME NEW S \in SUBSET RowsRead PROVE BytesKnown(AllRows, S)
  <2>1. S \in SUBSET DOMAIN AllRows
    BY <1>5, <1>7
  <2>2. \A x \in S : AllRows[x] \in RowSet
    BY <1>4, <1>5, <2>1
  <2>3. IsFiniteSet(S)
    BY <1>8, FS_Subset
  <2> QED
    BY <2>1, <2>2, <2>3, RowFields DEF BytesKnown
<1> QED
  BY <1>2, <1>3, <1>4, <1>5, <1>6, <1>7, <1>8, <1>9

\* The next row, and what has been read after it.
NextRow == Len(AllRows) - Len(rows) + 1

\* TakeRow takes the next row of the core at work: it counts as read when it is accepted.
LEMMA RowTaken ==
  ASSUME IngestTypeOK, TakeRow
  PROVE  /\ Working /\ Working' /\ AllRows' = AllRows
         /\ Head(rows) \in RowSet /\ Head(rows) = AllRows[NextRow] /\ NextRow \in DOMAIN AllRows
         /\ NextRow \notin RowsRead
         /\ RowsRead' = IF Accepted(Head(rows)) THEN RowsRead \cup {NextRow} ELSE RowsRead
         /\ rows' \in Seq(RowSet) /\ Len(rows') <= Len(AllRows)
         /\ \A k \in 1..Len(rows') : rows'[k] = AllRows[Len(AllRows) - Len(rows') + k]
<1>1. /\ rows # <<>> /\ rows' = Tail(rows) /\ todo' = todo /\ input' = input
  BY DEF TakeRow
<1>2. Working /\ Working'
  BY <1>1 DEF IngestTypeOK, Working
<1>3. /\ rows \in Seq(RowSet) /\ Len(rows) <= Len(AllRows)
      /\ \A k \in 1..Len(rows) : rows[k] = AllRows[Len(AllRows) - Len(rows) + k]
  BY <1>2 DEF IngestTypeOK
<1>4. AllRows \in Seq(RowSet) /\ Len(AllRows) \in Nat /\ DOMAIN AllRows = 1..Len(AllRows)
  BY <1>2, AtWork
<1>5. AllRows' = AllRows
  BY <1>1 DEF AllRows
<1> DEFINE a == AllRows
           n == Len(rows)
<1> HIDE DEF a
<1>6. /\ n \in Nat \ {0} /\ Head(rows) = rows[1] /\ Head(rows) \in RowSet
      /\ rows' \in Seq(RowSet) /\ Len(rows') = n - 1
      /\ \A k \in 1..(n - 1) : rows'[k] = rows[k + 1]
  BY <1>1, <1>3
<1>7. Head(rows) = AllRows[NextRow] /\ NextRow \in DOMAIN AllRows
  <2>1. 1 \in 1..n
    BY <1>6
  <2>2. rows[1] = AllRows[Len(AllRows) - n + 1]
    BY <1>3, <2>1
  <2>3. Len(AllRows) - n + 1 \in 1..Len(AllRows)
    BY <1>3, <1>4, <1>6
  <2> QED
    BY <1>4, <1>6, <2>2, <2>3 DEF NextRow
<1>8. Len(AllRows) - Len(rows') = NextRow /\ Len(AllRows) - n = NextRow - 1 /\ NextRow \in Nat
  BY <1>3, <1>4, <1>6 DEF NextRow
<1>10. RowsRead' = {i \in 1..NextRow : Accepted(AllRows[i])}
  <2>1. RowsRead' = {i \in 1..(Len(AllRows) - Len(rows')) : Accepted(AllRows[i])}
    BY <1>1, <1>5 DEF RowsRead, Accepted
  <2> QED
    BY <1>8, <2>1
<1>11. RowsRead = {i \in 1..(NextRow - 1) : Accepted(AllRows[i])}
  BY <1>8 DEF RowsRead
<1>12. NextRow \notin RowsRead
  BY <1>8, <1>11
<1>13. 1..NextRow = (1..(NextRow - 1)) \cup {NextRow}
  BY <1>7, <1>4
<1>14. RowsRead' = IF Accepted(Head(rows)) THEN RowsRead \cup {NextRow} ELSE RowsRead
  <2> HIDE DEF n
  <2>1. Accepted(Head(rows)) <=> Accepted(AllRows[NextRow])
    BY <1>7
  <2>2. \A i : i \in RowsRead' <=> (i \in 1..(NextRow - 1) \/ i = NextRow) /\ Accepted(AllRows[i])
    BY <1>10, <1>13
  <2>3. \A i : i \in RowsRead <=> i \in 1..(NextRow - 1) /\ Accepted(AllRows[i])
    BY <1>11
  <2> QED
    BY <2>1, <2>2, <2>3
<1>15. \A k \in 1..Len(rows') : rows'[k] = AllRows[Len(AllRows) - Len(rows') + k]
  <2>1. ASSUME NEW k \in 1..(n - 1) PROVE rows'[k] = AllRows[Len(AllRows) - (n - 1) + k]
    <3>1. k + 1 \in 1..n /\ Len(AllRows) - n + (k + 1) = Len(AllRows) - (n - 1) + k
      BY <1>4, <1>6
    <3>2. rows[k + 1] = AllRows[Len(AllRows) - n + (k + 1)]
      BY <1>3, <3>1
    <3> QED
      BY <1>6, <3>1, <3>2
  <2> QED
    BY <1>6, <2>1
<1>16. Len(rows') <= Len(AllRows)
  BY <1>3, <1>4, <1>6
<1> QED
  BY <1>2, <1>5, <1>6, <1>7, <1>12, <1>14, <1>15, <1>16

------------------------------------------------------------------------------
(* What handling a row or a bucket adds *)

\* A finite set of numbers has a greatest one.
LEMMA LargestIs ==
  ASSUME NEW S \in SUBSET Nat, IsFiniteSet(S), S # {}
  PROVE  Max(S) \in S /\ \A y \in S : y <= Max(S)
<1> DEFINE Good == {s \in SUBSET S : s # {} => \E x \in s : \A y \in s : y <= x}
<1>1. {} \in Good
  OBVIOUS
<1>2. ASSUME NEW s \in SUBSET S, s # {}, \A x \in s : s \ {x} \in Good
      PROVE  s \in Good
  <2>1. PICK x \in s : TRUE
    BY <1>2
  <2> DEFINE r == s \ {x}
  <2>2. r \in Good /\ x \in Nat /\ \A y \in s : y \in Nat
    BY <1>2
  <2>3. CASE r = {}
    <3>1. \A y \in s : y = x
      BY <2>3
    <3> QED
      BY <2>1, <2>2, <3>1
  <2>4. CASE r # {}
    <3>1. PICK z \in r : \A y \in r : y <= z
      BY <2>2, <2>4
    <3>2. CASE z <= x
      <4>1. \A y \in s : y <= x
        BY <2>2, <3>1, <3>2
      <4> QED
        BY <2>1, <4>1
    <3>3. CASE ~(z <= x)
      <4>1. \A y \in s : y <= z
        BY <2>2, <3>1, <3>3
      <4> QED
        BY <3>1, <4>1
    <3> QED
      BY <3>2, <3>3
  <2> QED
    BY <2>3, <2>4
<1>3. S \in Good
  <2> HIDE DEF Good
  <2> QED
    BY <1>1, <1>2, SubsetInduction
<1>4. PICK x \in S : \A y \in S : y <= x
  BY <1>3
<1>5. \E z \in S : \A y \in S : z >= y
  <2>1. \A y \in S : y \in Nat
    OBVIOUS
  <2> QED
    BY <1>4, <2>1
<1>6. Max(S) \in S /\ \A y \in S : Max(S) >= y
  BY <1>5 DEF Max
<1>7. \A y \in S : y \in Nat
  OBVIOUS
<1> QED
  BY <1>6, <1>7

\* Every size of d is kept or exceeded in e.
Covers(e, d) ==
  /\ e \in [DOMAIN e -> Nat] /\ DOMAIN d \subseteq DOMAIN e
  /\ \A u \in DOMAIN d : d[u] <= e[u]

HasRoom(d, t, n) == t \in DOMAIN d /\ n <= d[t]

\* Recording a transfer makes room for it and shrinks no tensor.
LEMMA SizedIs ==
  ASSUME NEW d, d \in [DOMAIN d -> Nat], NEW t, NEW n \in Nat
  PROVE  Covers(Sized(d, t, n), d) /\ HasRoom(Sized(d, t, n), t, n)
         /\ DOMAIN Sized(d, t, n) = DOMAIN d \cup {t}
<1> DEFINE e == Sized(d, t, n)
<1>1. e = [u \in DOMAIN d \cup {t} |-> IF u # t THEN d[u]
                                        ELSE IF t \in DOMAIN d /\ d[t] > n THEN d[t] ELSE n]
  BY DEF Sized
<1>2. \A u \in DOMAIN d : d[u] \in Nat
  OBVIOUS
<1> HIDE DEF e
<1>3. DOMAIN e = DOMAIN d \cup {t} /\ \A u \in DOMAIN d \cup {t} :
        e[u] = IF u # t THEN d[u] ELSE IF t \in DOMAIN d /\ d[t] > n THEN d[t] ELSE n
  BY <1>1
<1>4. \A u \in DOMAIN e : e[u] \in Nat
  BY <1>2, <1>3
<1>5. e \in [DOMAIN e -> Nat]
  BY <1>1, <1>4
<1>6. \A u \in DOMAIN d : d[u] <= e[u]
  BY <1>2, <1>3
<1>7. t \in DOMAIN e /\ n <= e[t]
  BY <1>2, <1>3
<1> QED
  BY <1>3, <1>5, <1>6, <1>7 DEF Covers, HasRoom, e

\* One more element in a list.
LEMMA BytesAppended ==
  ASSUME NEW X, NEW s \in Seq(X), \A x \in X : x.bytes \in Nat, NEW e \in X,
         NEW S \in SUBSET (1..Len(s))
  PROVE  /\ BytesAt(Append(s, e), S) = BytesAt(s, S)
         /\ BytesAt(Append(s, e), S \cup {Len(s) + 1}) = BytesAt(s, S) + e.bytes
<1> DEFINE u == Append(s, e)
           n == Len(s)
<1>1. /\ n \in Nat /\ DOMAIN s = 1..n /\ DOMAIN u = 1..(n + 1) /\ u[n + 1] = e
      /\ \A i \in 1..n : u[i] = s[i] /\ s[i] \in X
  OBVIOUS
<1>2. IsFiniteSet(S)
  <2>1. IsFiniteSet(1..n)
    BY <1>1, FS_Interval
  <2> QED
    BY <2>1, FS_Subset
<1>3. BytesKnown(s, S)
  BY <1>1, <1>2 DEF BytesKnown
<1> HIDE DEF u
<1>4. S \in SUBSET DOMAIN u /\ \A x \in S : u[x].bytes = s[x].bytes
  BY <1>1
<1>5. BytesAt(u, S) = BytesAt(s, S)
  BY <1>3, <1>4, BytesSame
<1>6. BytesKnown(u, S \cup {n + 1}) /\ n + 1 \notin S
  <2>1. IsFiniteSet(S \cup {n + 1})
    BY <1>2, FS_AddElement
  <2>2. \A x \in S \cup {n + 1} : x \in DOMAIN u /\ u[x].bytes \in Nat
    BY <1>1
  <2>3. n + 1 \notin S
    BY <1>1
  <2> QED
    BY <2>1, <2>2, <2>3 DEF BytesKnown
<1>7. BytesAt(u, S \cup {n + 1}) = BytesAt(u, S) + u[n + 1].bytes
  BY <1>6, BytesWith
<1> QED
  BY <1>1, <1>5, <1>7 DEF u

\* A list without its first element.
LEMMA BytesOfTail ==
  ASSUME NEW X, NEW s \in Seq(X), \A x \in X : x.bytes \in Nat, s # <<>>,
         NEW S \in SUBSET (1..Len(s)), NEW T \in SUBSET (1..Len(Tail(s))),
         \A i \in 1..Len(Tail(s)) : i \in T <=> i + 1 \in S
  PROVE  BytesAt(s, S) = BytesAt(Tail(s), T) + IF 1 \in S THEN Head(s).bytes ELSE 0
<1> DEFINE u == Tail(s)
           n == Len(s)
           R == S \ {1}
<1>1. /\ n \in Nat \ {0} /\ DOMAIN s = 1..n /\ Len(u) = n - 1 /\ DOMAIN u = 1..(n - 1)
      /\ Head(s) = s[1] /\ (\A i \in 1..n : s[i] \in X) /\ \A i \in 1..(n - 1) : u[i] = s[i + 1]
  OBVIOUS
<1> HIDE DEF u, n
<1>2. S \in SUBSET (1..n) /\ T \in SUBSET (1..(n - 1)) /\ \A i \in 1..(n - 1) : i \in T <=> i + 1 \in S
  BY <1>1 DEF u, n
<1>3. IsFiniteSet(1..n) /\ IsFiniteSet(1..(n - 1))
  BY <1>1, FS_Interval
<1>4. IsFiniteSet(S) /\ IsFiniteSet(R) /\ IsFiniteSet(T)
  BY <1>2, <1>3, FS_Subset
<1>5. BytesKnown(s, S) /\ BytesKnown(s, R)
  BY <1>1, <1>2, <1>4 DEF BytesKnown
<1>6. BytesKnown(u, T)
  <2>1. \A i \in T : i \in DOMAIN u /\ u[i].bytes \in Nat
    BY <1>1, <1>2
  <2> QED
    BY <1>4, <2>1 DEF BytesKnown
<1>7. BytesAt(s, R) = BytesAt(u, T)
  <2>1. Moved(s, R, u, T)
    <3> DEFINE b == [i \in T |-> i + 1]
    <3>1. \A i \in T : i \in 1..(n - 1) /\ i + 1 \in R /\ i + 1 \in DOMAIN s /\ u[i] = s[i + 1]
      BY <1>1, <1>2
    <3>2. \A x \in R : x - 1 \in T /\ (x - 1) + 1 = x
      BY <1>1, <1>2
    <3>3. Renames(b, T, R)
      BY <1>2, <3>1, <3>2 DEF Renames
    <3>4. \A i \in T : b[i] \in DOMAIN s /\ s[b[i]].bytes = u[i].bytes
      BY <3>1
    <3> HIDE DEF b, R
    <3> QED
      BY <3>3, <3>4 DEF Moved
  <2> HIDE DEF R
  <2> QED
    BY <1>6, <2>1, BytesMoved
<1>8. CASE 1 \in S
  <2>1. S = R \cup {1} /\ 1 \notin R
    BY <1>8
  <2> HIDE DEF R
  <2>2. BytesAt(s, R \cup {1}) = BytesAt(s, R) + s[1].bytes
    BY <1>5, <2>1, BytesWith
  <2> QED
    BY <1>1, <1>7, <1>8, <2>1, <2>2 DEF u
<1>9. CASE 1 \notin S
  <2>1. S = R
    BY <1>9
  <2>2. BytesAt(u, T) \in Nat
    BY <1>6, BytesAre
  <2> HIDE DEF R
  <2> QED
    BY <1>7, <1>9, <2>1, <2>2 DEF u
<1> QED
  BY <1>8, <1>9

\* The accesses of a list to a slot.
To(list, v, op) == {i \in DOMAIN list : list[i].tensor = <<NoCore, v>> /\ list[i].op = op}

Total(list) == BytesAt(list, DOMAIN list)

\* Every access of the core at work has a tensor that is as large.
Housed == \A i \in DOMAIN accesses : HasRoom(tensors, accesses[i].tensor[2], accesses[i].bytes)

\* A row or a bucket has become accesses, of all its bytes but some that are lost.
Delivered(row, lost) ==
  /\ accesses' \in Seq(AccessSet)
  /\ Covers(tensors', tensors) /\ DOMAIN tensors' \subseteq Ids
  /\ Housed => Housed'
  /\ Total(accesses') + lost = Total(accesses) + row.bytes
  /\ \A v \in DOMAIN Catalog, op \in {"read", "write"} :
       BytesAt(accesses', To(accesses', v, op))
         = BytesAt(accesses, To(accesses, v, op)) + IF OfSlot(row, v, op) THEN row.bytes ELSE 0

\* The accesses of the mapped routes.
LEMMA RouteIs ==
  ASSUME NEW r \in DOMAIN AccessOf
  PROVE  AccessOf[r].op \in {"read", "write"} /\ AccessOf[r].target \in {"sbuf", "hbm"}
BY DEF AccessOf

\* A variable resolves to a slot of the table only when it is that slot.
LEMMA ResolveIs ==
  ASSUME NEW row \in RowSet
  PROVE  /\ Resolve(row.variable, row.bytes) \in Ids
         /\ \A v \in DOMAIN Catalog : Resolve(row.variable, row.bytes) = v <=> row.variable = v
<1>1. row.variable \in Variables
  BY RowFields
<1>2. Resolve(row.variable, row.bytes) \in Variables \cup DOMAIN Catalog \cup Range(BySize)
  BY <1>1 DEF Resolve, InCatalog, Range
<1>3. \A n \in DOMAIN BySize : BySize[n] \notin DOMAIN Catalog
  BY CatalogAssumption DEF Range
<1> QED
  BY <1>1, <1>2, <1>3 DEF Resolve, InCatalog, Ids

\* An access is well formed and keeps its tensor, its operation and its bytes.
LEMMA AccessIs ==
  ASSUME IngestTypeOK, Working, NEW t \in Ids, NEW r \in DOMAIN AccessOf, NEW n \in Nat, NEW at \in Int
  PROVE  /\ AccessEvent(t, r, n, at) \in AccessSet
         /\ AccessEvent(t, r, n, at).tensor = <<NoCore, t>>
         /\ AccessEvent(t, r, n, at).op = AccessOf[r].op
         /\ AccessEvent(t, r, n, at).bytes = n
<1>1. Head(todo) \in ProfiledCores
  BY AtWork
<1>2. AccessOf[r].op \in {"read", "write"} /\ AccessOf[r].target \in {"sbuf", "hbm"}
  BY RouteIs
<1> QED
  BY <1>1, <1>2 DEF AccessEvent, AccessSet

\* The fields of an access.
LEMMA AccessFields ==
  ASSUME NEW e \in AccessSet
  PROVE  /\ e.bytes \in Nat /\ e.at \in Int /\ e.type = "access" /\ e.core \in ProfiledCores
         /\ e.tensor = <<NoCore, e.tensor[2]>>
  BY DEF AccessSet

\* A tensor that had room has it when no size shrinks.
LEMMA RoomKept ==
  ASSUME NEW d, NEW e, d \in [DOMAIN d -> Nat], Covers(e, d), NEW t, NEW n \in Nat, HasRoom(d, t, n)
  PROVE  HasRoom(e, t, n)
<1>1. t \in DOMAIN d /\ n <= d[t] /\ d[t] \in Nat /\ t \in DOMAIN e /\ e[t] \in Nat /\ d[t] <= e[t]
  BY DEF Covers, HasRoom
<1> QED
  BY <1>1 DEF HasRoom

\* An access for a row or a bucket delivers all of its bytes.
LEMMA EmitDelivers ==
  ASSUME IngestTypeOK, Working, NEW row \in RowSet, row.route \in DOMAIN AccessOf, EmitAccess(row)
  PROVE  Delivered(row, 0)
<1> DEFINE t == Resolve(row.variable, row.bytes)
           e == AccessEvent(t, row.route, row.bytes, row.at)
           n == Len(accesses)
<1>1. /\ accesses' = Append(accesses, e) /\ tensors' = Sized(tensors, t, row.bytes)
      /\ accesses \in Seq(AccessSet) /\ tensors \in [DOMAIN tensors -> Nat] /\ DOMAIN tensors \subseteq Ids
  BY DEF EmitAccess, IngestTypeOK
<1>2. /\ t \in Ids /\ (\A v \in DOMAIN Catalog : t = v <=> row.variable = v)
      /\ row.bytes \in Nat /\ row.at \in Int
  BY ResolveIs, RowFields
<1>3. /\ e \in AccessSet /\ e.tensor = <<NoCore, t>> /\ e.op = AccessOf[row.route].op
      /\ e.bytes = row.bytes
  <2> HIDE DEF t
  <2> QED
    BY <1>2, AccessIs
<1> HIDE DEF t, e
<1>4. /\ accesses' \in Seq(AccessSet) /\ n \in Nat /\ DOMAIN accesses = 1..n
      /\ DOMAIN accesses' = 1..(n + 1) /\ accesses'[n + 1] = e
      /\ \A i \in 1..n : accesses'[i] = accesses[i] /\ accesses[i] \in AccessSet
  BY <1>1, <1>3
<1>5. \A x \in AccessSet : x.bytes \in Nat
  BY AccessFields
<1>6. /\ Covers(tensors', tensors) /\ HasRoom(tensors', t, row.bytes)
      /\ DOMAIN tensors' \subseteq Ids
  <2>1. /\ Covers(Sized(tensors, t, row.bytes), tensors)
        /\ HasRoom(Sized(tensors, t, row.bytes), t, row.bytes)
        /\ DOMAIN Sized(tensors, t, row.bytes) = DOMAIN tensors \cup {t}
    BY <1>1, <1>2, SizedIs
  <2> QED
    BY <1>1, <1>2, <2>1
<1>12. n \in Nat
  BY <1>4
<1>13. IsFiniteSet(1..n)
  BY <1>12, FS_Interval
<1>7. ASSUME Housed PROVE Housed'
  <2>1. ASSUME NEW i \in 1..(n + 1)
        PROVE  HasRoom(tensors', accesses'[i].tensor[2], accesses'[i].bytes)
    <3>1. CASE i = n + 1
      BY <1>3, <1>4, <1>6, <3>1
    <3>2. CASE i # n + 1
      <4>1. i \in 1..n
        BY <1>4, <3>2
      <4>2. HasRoom(tensors, accesses[i].tensor[2], accesses[i].bytes) /\ accesses[i].bytes \in Nat
        BY <1>4, <1>5, <1>7, <4>1 DEF Housed
      <4> QED
        BY <1>1, <1>4, <1>6, <4>1, <4>2, RoomKept
    <3> QED
      BY <3>1, <3>2
  <2> QED
    BY <1>4, <2>1 DEF Housed
<1>8. ASSUME NEW S \in SUBSET (1..n)
      PROVE  /\ BytesAt(accesses', S) = BytesAt(accesses, S)
             /\ BytesAt(accesses', S \cup {n + 1}) = BytesAt(accesses, S) + row.bytes
  BY <1>1, <1>3, <1>5, BytesAppended
<1>9. Total(accesses') = Total(accesses) + row.bytes
  <2>1. 1..(n + 1) = (1..n) \cup {n + 1}
    BY <1>4
  <2> QED
    BY <1>4, <1>8, <2>1 DEF Total
<1>10. ASSUME NEW v \in DOMAIN Catalog, NEW op \in {"read", "write"}
       PROVE  BytesAt(accesses', To(accesses', v, op))
                = BytesAt(accesses, To(accesses, v, op)) + IF OfSlot(row, v, op) THEN row.bytes ELSE 0
  <2> DEFINE S == To(accesses, v, op)
  <2>1. S \in SUBSET (1..n)
    BY <1>4 DEF To
  <2>2. OfSlot(row, v, op) <=> e.tensor = <<NoCore, v>> /\ e.op = op
    BY <1>2, <1>3 DEF OfSlot
  <2>3. \A i : i \in To(accesses', v, op) <=> i \in S \/ (i = n + 1 /\ OfSlot(row, v, op))
    BY <1>4, <2>2 DEF To
  <2>4. BytesAt(accesses, S) \in Nat
    <3>1. \A x \in S : x \in DOMAIN accesses /\ accesses[x].bytes \in Nat
      BY <1>4, <1>5, <2>1
    <3>3. IsFiniteSet(S)
      BY <1>13, <2>1, FS_Subset
    <3>4. BytesKnown(accesses, S)
      BY <3>1, <3>3 DEF BytesKnown
    <3> QED
      BY <3>4, BytesAre
  <2> HIDE DEF S
  <2>5. CASE OfSlot(row, v, op)
    <3>1. To(accesses', v, op) = S \cup {n + 1}
      BY <2>3, <2>5
    <3>2. BytesAt(accesses', S \cup {n + 1}) = BytesAt(accesses, S) + row.bytes
      BY <1>8, <2>1
    <3>3. BytesAt(accesses', To(accesses', v, op)) = BytesAt(accesses, S) + row.bytes
      BY <3>1, <3>2
    <3> QED
      BY <2>5, <3>3 DEF S
  <2>6. CASE ~OfSlot(row, v, op)
    <3>1. To(accesses', v, op) = S
      BY <2>3, <2>6
    <3>2. BytesAt(accesses', S) = BytesAt(accesses, S)
      BY <1>8, <2>1
    <3>3. BytesAt(accesses', To(accesses', v, op)) = BytesAt(accesses, S) + 0
      BY <2>4, <3>1, <3>2
    <3> QED
      BY <2>6, <3>3 DEF S
  <2> QED
    BY <2>5, <2>6
<1>11. Total(accesses') + 0 = Total(accesses) + row.bytes
  <2>1. BytesKnown(accesses, DOMAIN accesses)
    BY <1>4, <1>5, <1>13 DEF BytesKnown
  <2>2. Total(accesses) \in Nat
    BY <2>1, BytesAre DEF Total
  <2> QED
    BY <1>2, <1>9, <2>2
<1> QED
  BY <1>4, <1>6, <1>7, <1>10, <1>11 DEF Delivered

\* What the portions of a transfer are to a list that follows them in order.
LEMMA ServedAre ==
  ASSUME NEW n \in Nat
  PROVE  LET p      == Portions(n)
             served == {i \in DOMAIN Targets : p[i] > 0}
             kept   == InOrder(served, Ascending(served))
         IN  /\ IsFiniteSet(served) /\ served \subseteq 1..Categories
             /\ Cardinality(served) \in Nat /\ DOMAIN kept = 1..Cardinality(served)
             /\ Renames(kept, 1..Cardinality(served), served)
             /\ \A i \in served : p[i] \in Nat
             /\ SumFunctionOnSet(p, served) \in Nat
             /\ SumFunctionOnSet(p, served) <= n
             /\ n <= SumFunctionOnSet(p, served) + (MinBytes - 1)
<1> DEFINE p      == Portions(n)
           served == {i \in DOMAIN Targets : p[i] > 0}
           kept   == InOrder(served, Ascending(served))
           rest   == (1..Categories) \ served
           m      == Cardinality(served)
<1>1. Categories \in Nat \ {0} /\ DOMAIN Targets = 1..Categories /\ IsFiniteSet(1..Categories)
  BY TargetsAre
<1>2. /\ p \in [1..Categories -> Nat]
      /\ SumFunctionOnSet(p, 1..Categories) <= n
      /\ n <= SumFunctionOnSet(p, 1..Categories) + (MinBytes - 1)
  BY PortionsAre
<1> HIDE DEF p
<1>3. served \subseteq 1..Categories /\ IsFiniteSet(served) /\ IsFiniteSet(rest)
  BY <1>1, FS_Subset
<1>4. StrictOrder(served, Ascending(served))
  <2>1. served \in SUBSET Int
    BY <1>3
  <2> HIDE DEF served
  <2> QED
    BY <2>1, AscendingIs
<1>5. /\ m \in Nat /\ kept \in [1..m -> served]
      /\ \A k, l \in 1..m : kept[k] = kept[l] => k = l
      /\ \A x \in served : \E k \in 1..m : kept[k] = x
  <2> HIDE DEF served
  <2> QED
    BY <1>3, <1>4, OrderIs
<1>6. DOMAIN kept = 1..m /\ Renames(kept, 1..m, served)
  <2> HIDE DEF kept, served, m
  <2> QED
    BY <1>5 DEF Renames
<1>7. \A i \in served : p[i] \in Nat
  BY <1>2, <1>3
<1>8. SumFunctionOnSet(p, 1..Categories) = SumFunctionOnSet(p, served)
  <2>1. \A x \in rest : p[x] = 0
    BY <1>1, <1>2
  <2>2. served \cup rest = 1..Categories /\ served \cap rest = {}
    BY <1>3
  <2>3. \A x \in served \cup rest : p[x] \in Int
    BY <1>2, <2>2
  <2> HIDE DEF served, rest
  <2>4. SumFunctionOnSet(p, served \cup rest) = SumFunctionOnSet(p, served) + SumFunctionOnSet(p, rest)
    BY <1>3, <2>2, <2>3, SumUnion
  <2>5. SumFunctionOnSet(p, rest) = 0
    BY <1>3, <2>1, SumZero
  <2>6. SumFunctionOnSet(p, served) \in Nat
    BY <1>3, <1>7, SumNat
  <2>7. SumFunctionOnSet(p, 1..Categories) = SumFunctionOnSet(p, served \cup rest)
    BY <2>2, Zenon
  <2> QED
    BY <2>4, <2>5, <2>6, <2>7
<1>9. SumFunctionOnSet(p, served) \in Nat
  <2> HIDE DEF served
  <2> QED
    BY <1>3, <1>7, SumNat
<1> HIDE DEF served, kept, m
<1> QED
  BY <1>2, <1>3, <1>5, <1>6, <1>7, <1>8, <1>9 DEF p, served, kept, m

\* The numbers up to n are finitely many.
LEMMA UpToIsFinite == \A n \in Nat : IsFiniteSet(1..n)
  BY FS_Interval

\* The elements of two sequences, one after the other.
LEMMA JoinedIs ==
  ASSUME NEW X, NEW s \in Seq(X), NEW t \in Seq(X)
  PROVE  /\ s \o t \in Seq(X) /\ DOMAIN (s \o t) = 1..(Len(s) + Len(t))
         /\ Len(s) \in Nat /\ Len(t) \in Nat /\ DOMAIN s = 1..Len(s) /\ DOMAIN t = 1..Len(t)
         /\ \A i \in 1..Len(s) : (s \o t)[i] = s[i]
         /\ \A i \in 1..(Len(s) + Len(t)) :
              i \notin 1..Len(s) => i - Len(s) \in 1..Len(t) /\ (s \o t)[i] = t[i - Len(s)]
<1> DEFINE u == s \o t
<1>1. /\ Len(s) \in Nat /\ Len(t) \in Nat /\ DOMAIN s = 1..Len(s) /\ DOMAIN t = 1..Len(t)
      /\ u \in Seq(X) /\ DOMAIN u = 1..(Len(s) + Len(t))
  OBVIOUS
<1>2. \A i \in 1..Len(s) : u[i] = s[i]
  OBVIOUS
<1>3. \A j \in 1..Len(t) : u[Len(s) + j] = t[j]
  OBVIOUS
<1> HIDE DEF u
<1>4. \A i \in 1..(Len(s) + Len(t)) :
        i \notin 1..Len(s) => i - Len(s) \in 1..Len(t) /\ Len(s) + (i - Len(s)) = i
  BY <1>1
<1>5. \A i \in 1..(Len(s) + Len(t)) :
        i \notin 1..Len(s) => i - Len(s) \in 1..Len(t) /\ u[i] = t[i - Len(s)]
  BY <1>3, <1>4
<1> QED
  BY <1>1, <1>2, <1>5 DEF u

\* The bytes of two lists are those of the one list of both.
LEMMA TotalJoined ==
  ASSUME NEW X, \A x \in X : x.bytes \in Nat, NEW s \in Seq(X), NEW t \in Seq(X)
  PROVE  Total(s \o t) = Total(s) + Total(t)
<1> DEFINE S == 1..Len(s)
           T == 1..Len(t)
           U == 1..(Len(s) + Len(t))
<1>1. /\ Len(s) \in Nat /\ Len(t) \in Nat /\ DOMAIN s = S /\ DOMAIN t = T
      /\ DOMAIN (s \o t) = U
  BY JoinedIs
<1>2. /\ \A i \in S : s[i].bytes \in Nat
      /\ \A j \in T : t[j].bytes \in Nat
  BY <1>1
<1>3. /\ \A i \in U : i \in S \/ (i - Len(s) \in T /\ Len(s) + (i - Len(s)) = i)
      /\ \A i \in S : i \in U
      /\ \A j \in T : Len(s) + j \in U
  BY <1>1
<1>4. S \in SUBSET (1..Len(s)) /\ T \in SUBSET (1..Len(t))
  OBVIOUS
<1> HIDE DEF S, T, U
<1>5. BytesAt(s \o t, S \cup {Len(s) + j : j \in T}) = BytesAt(s, S) + BytesAt(t, T)
  BY <1>2, <1>4, BytesJoined
<1>6. S \cup {Len(s) + j : j \in T} = U
  <2>1. ASSUME NEW i PROVE i \in U <=> i \in S \cup {Len(s) + j : j \in T}
    BY <1>3, Zenon
  <2> QED
    BY <2>1
<1> QED
  BY <1>1, <1>5, <1>6 DEF Total

\* A spread delivers all but fewer than MinBytes, and nothing to a slot of the table.
LEMMA SpreadDelivers ==
  ASSUME IngestTypeOK, Working, NEW row \in RowSet, row.route \in DOMAIN AccessOf, Spread(row),
         row.variable \notin DOMAIN Catalog
  PROVE  \E lost \in 0..(MinBytes - 1) : Delivered(row, lost)
<1> DEFINE p      == Portions(row.bytes)
           served == {i \in DOMAIN Targets : p[i] > 0}
           kept   == InOrder(served, Ascending(served))
           m      == Cardinality(served)
           n      == Len(accesses)
           new    == [j \in DOMAIN kept |->
                        AccessEvent(Targets[kept[j]].id, row.route, p[kept[j]], row.at)]
           Sizes(t) == {p[i] : i \in {j \in served : Targets[j].id = t}}
                         \cup (IF t \in DOMAIN tensors THEN {tensors[t]} ELSE {})
           all == DOMAIN tensors \cup {Targets[i].id : i \in served}
<1>1. /\ accesses' = accesses \o new
      /\ tensors' = [t \in all |-> Max(Sizes(t))]
  BY DEF Spread
<1>2. /\ IsFiniteSet(served) /\ served \subseteq 1..Categories
      /\ m \in Nat /\ DOMAIN kept = 1..m
      /\ Renames(kept, 1..m, served)
      /\ \A i \in served : p[i] \in Nat
      /\ SumFunctionOnSet(p, served) \in Nat
      /\ SumFunctionOnSet(p, served) <= row.bytes
      /\ row.bytes <= SumFunctionOnSet(p, served) + (MinBytes - 1)
  <2>1. row.bytes \in Nat
    BY RowFields
  <2> QED
    BY <2>1, ServedAre
<1>3. row.bytes \in Nat /\ row.at \in Int /\ MinBytes \in Nat \ {0}
  BY RowFields, TargetsAre
<1> HIDE DEF p, served, kept, m, all
<1>4. \A j \in 1..m : kept[j] \in served /\ kept[j] \in 1..Categories /\ p[kept[j]] \in Nat
  BY <1>2 DEF Renames
<1>5. \A i \in served : Targets[i].id \in Ids /\ Targets[i].id \notin DOMAIN Catalog
  BY <1>2, TargetsAre DEF Ids
<1>6. \A j \in 1..m : /\ new[j] \in AccessSet
                      /\ new[j].tensor = <<NoCore, Targets[kept[j]].id>>
                      /\ new[j].bytes = p[kept[j]]
  <2> SUFFICES ASSUME NEW j \in 1..m
               PROVE  /\ new[j] \in AccessSet
                      /\ new[j].tensor = <<NoCore, Targets[kept[j]].id>>
                      /\ new[j].bytes = p[kept[j]]
    OBVIOUS
  <2>1. Targets[kept[j]].id \in Ids /\ p[kept[j]] \in Nat
    BY <1>4, <1>5
  <2>2. new[j] = AccessEvent(Targets[kept[j]].id, row.route, p[kept[j]], row.at)
    BY <1>2
  <2> HIDE DEF new
  <2> QED
    BY <1>3, <2>1, <2>2, AccessIs
<1>7. new \in Seq(AccessSet) /\ Len(new) = m /\ DOMAIN new = 1..m
  <2>1. DOMAIN new = 1..m /\ new = [j \in 1..m |-> new[j]]
    BY <1>2
  <2> HIDE DEF new
  <2> QED
    BY <1>2, <1>6, <2>1, RowsAre
<1> HIDE DEF new
<1>8. /\ accesses \in Seq(AccessSet) /\ tensors \in [DOMAIN tensors -> Nat] /\ DOMAIN tensors \subseteq Ids
      /\ n \in Nat /\ DOMAIN accesses = 1..n
      /\ \A i \in 1..n : accesses[i] \in AccessSet
  BY DEF IngestTypeOK
<1>9. /\ accesses' \in Seq(AccessSet) /\ DOMAIN accesses' = 1..(n + m)
      /\ \A i \in 1..n : accesses'[i] = accesses[i]
      /\ \A i \in 1..(n + m) : i \notin 1..n => i - n \in 1..m /\ accesses'[i] = new[i - n]
  BY <1>1, <1>7, <1>8, JoinedIs
<1>10. \A x \in AccessSet : x.bytes \in Nat
  BY AccessFields
<1>11. IsFiniteSet(1..n) /\ IsFiniteSet(1..m)
  BY <1>2, <1>8, UpToIsFinite
<1>12. BytesKnown(accesses, 1..n)
  BY <1>8, <1>10, <1>11 DEF BytesKnown
<1>13. Total(accesses) \in Nat
  BY <1>8, <1>12, BytesAre DEF Total
<1>14. Total(new) = SumFunctionOnSet(p, served)
  <2> DEFINE f == [j \in DOMAIN new |-> new[j].bytes]
  <2>1. \A j \in 1..m : f[j] \in Int /\ p[kept[j]] = f[j]
    BY <1>4, <1>6, <1>7
  <2> HIDE DEF f
  <2> DEFINE M == 1..m
  <2>2. IsFiniteSet(M) /\ Renames(kept, M, served) /\ \A j \in M : f[j] \in Int /\ p[kept[j]] = f[j]
    BY <1>2, <1>11, <2>1
  <2> HIDE DEF M
  <2>3. SumFunctionOnSet(f, M) = SumFunctionOnSet(p, served)
    BY <2>2, SumRenamed
  <2>4. Total(new) = SumFunctionOnSet(f, M)
    BY <1>7 DEF Total, BytesAt, f, M
  <2> QED
    BY <2>3, <2>4
<1>15. Total(accesses') = Total(accesses) + Total(new)
  BY <1>1, <1>7, <1>8, <1>10, TotalJoined
<1> DEFINE lost == row.bytes - Total(new)
<1>16. lost \in 0..(MinBytes - 1) /\ Total(accesses') + lost = Total(accesses) + row.bytes
  BY <1>2, <1>3, <1>13, <1>14, <1>15
<1>17. ASSUME NEW v \in DOMAIN Catalog, NEW op \in {"read", "write"}
       PROVE  BytesAt(accesses', To(accesses', v, op))
                = BytesAt(accesses, To(accesses, v, op)) + IF OfSlot(row, v, op) THEN row.bytes ELSE 0
  <2> DEFINE S == To(accesses, v, op)
  <2>1. S \in SUBSET (1..n)
    BY <1>8 DEF To
  <2>2. To(accesses', v, op) = S
    <3>1. ASSUME NEW i \in 1..(n + m), i \notin 1..n PROVE accesses'[i].tensor # <<NoCore, v>>
      <4>1. i - n \in 1..m /\ accesses'[i] = new[i - n]
        BY <1>9, <3>1
      <4>2. Targets[kept[i - n]].id \notin DOMAIN Catalog
        BY <1>4, <1>5, <4>1
      <4> QED
        BY <1>6, <4>1, <4>2
    <3>2. \A i : i \in To(accesses', v, op) <=> i \in S
      BY <1>2, <1>8, <1>9, <3>1 DEF To
    <3> QED
      BY <3>2
  <2>3. IsFiniteSet(S)
    BY <1>11, <2>1, FS_Subset
  <2> HIDE DEF S
  <2>4. BytesKnown(accesses, S)
    BY <1>8, <1>10, <2>1, <2>3 DEF BytesKnown
  <2>5. S \in SUBSET DOMAIN accesses' /\ \A x \in S : accesses'[x].bytes = accesses[x].bytes
    BY <1>2, <1>8, <1>9, <2>1
  <2>6. BytesAt(accesses', S) = BytesAt(accesses, S) /\ BytesAt(accesses, S) \in Nat
    BY <2>4, <2>5, BytesSame, BytesAre
  <2>7. ~OfSlot(row, v, op)
    BY DEF OfSlot
  <2>8. BytesAt(accesses', To(accesses', v, op)) = BytesAt(accesses, S) + 0
    BY <2>2, <2>6
  <2> QED
    BY <2>7, <2>8 DEF S
<1>18. \A t \in all : Sizes(t) \in SUBSET Nat /\ IsFiniteSet(Sizes(t)) /\ Sizes(t) # {}
  <2> SUFFICES ASSUME NEW t \in all
               PROVE  Sizes(t) \in SUBSET Nat /\ IsFiniteSet(Sizes(t)) /\ Sizes(t) # {}
    OBVIOUS
  <2> DEFINE A == {j \in served : Targets[j].id = t}
             B == {p[i] : i \in A}
             D == IF t \in DOMAIN tensors THEN {tensors[t]} ELSE {}
  <2>1. IsFiniteSet(A) /\ A \subseteq served
    BY <1>2, FS_Subset
  <2>2. IsFiniteSet(B)
    <3> DEFINE g == [i \in A |-> p[i]]
    <3>1. g \in Surjection(A, B)
      BY DEF Surjection
    <3> HIDE DEF A, B, g
    <3> QED
      BY <2>1, <3>1, FS_Surjection
  <2>3. IsFiniteSet(D)
    BY FS_EmptySet, FS_Singleton
  <2>4. IsFiniteSet(B \cup D)
    <3> HIDE DEF B, D
    <3> QED
      BY <2>2, <2>3, FS_Union
  <2>5. B \subseteq Nat /\ D \subseteq Nat
    BY <1>2, <1>8
  <2>6. B \cup D # {}
    BY DEF all
  <2> QED
    BY <2>4, <2>5, <2>6
<1>19. \A t \in all : tensors'[t] \in Sizes(t) /\ \A y \in Sizes(t) : y <= tensors'[t]
  <2> SUFFICES ASSUME NEW t \in all
               PROVE  tensors'[t] \in Sizes(t) /\ \A y \in Sizes(t) : y <= tensors'[t]
    OBVIOUS
  <2>1. Sizes(t) \in SUBSET Nat /\ IsFiniteSet(Sizes(t)) /\ Sizes(t) # {} /\ tensors'[t] = Max(Sizes(t))
    BY <1>1, <1>18
  <2> HIDE DEF Sizes
  <2> QED
    BY <2>1, LargestIs
<1>20. Covers(tensors', tensors) /\ DOMAIN tensors' \subseteq Ids
  <2>1. tensors' \in [all -> Nat] /\ DOMAIN tensors' = all
    <3>1. \A t \in all : tensors'[t] \in Nat
      <4> HIDE DEF Sizes
      <4> QED
        BY <1>18, <1>19
    <3> HIDE DEF Sizes
    <3> QED
      BY <1>1, <3>1
  <2>2. DOMAIN tensors \subseteq all /\ all \subseteq Ids
    BY <1>5, <1>8 DEF all
  <2>3. \A u \in DOMAIN tensors : tensors[u] <= tensors'[u]
    BY <1>19, <2>2
  <2> QED
    BY <2>1, <2>2, <2>3 DEF Covers
<1>21. \A j \in 1..m : HasRoom(tensors', Targets[kept[j]].id, p[kept[j]])
  <2> SUFFICES ASSUME NEW j \in 1..m PROVE HasRoom(tensors', Targets[kept[j]].id, p[kept[j]])
    OBVIOUS
  <2> DEFINE t == Targets[kept[j]].id
  <2>1. t \in all /\ p[kept[j]] \in Sizes(t)
    BY <1>4 DEF all
  <2>2. DOMAIN tensors' = all
    BY <1>1
  <2>3. p[kept[j]] <= tensors'[t]
    <3> HIDE DEF Sizes, t
    <3> QED
      BY <1>19, <2>1
  <2> QED
    BY <2>1, <2>2, <2>3 DEF HasRoom
<1>22. ASSUME Housed PROVE Housed'
  <2>1. ASSUME NEW i \in 1..(n + m)
        PROVE  HasRoom(tensors', accesses'[i].tensor[2], accesses'[i].bytes)
    <3>1. CASE i \notin 1..n
      <4>1. i - n \in 1..m /\ accesses'[i] = new[i - n]
        BY <1>9, <3>1
      <4>2. accesses'[i].tensor[2] = Targets[kept[i - n]].id /\ accesses'[i].bytes = p[kept[i - n]]
        BY <1>6, <4>1
      <4> QED
        BY <1>21, <4>1, <4>2
    <3>2. CASE i \in 1..n
      <4>1. HasRoom(tensors, accesses[i].tensor[2], accesses[i].bytes) /\ accesses[i].bytes \in Nat
        BY <1>8, <1>10, <1>22, <3>2 DEF Housed
      <4>2. HasRoom(tensors', accesses[i].tensor[2], accesses[i].bytes)
        BY <1>8, <1>20, <4>1, RoomKept
      <4> QED
        BY <1>9, <3>2, <4>2
    <3> QED
      BY <3>1, <3>2
  <2> QED
    BY <1>9, <2>1 DEF Housed
<1> HIDE DEF lost
<1>23. Delivered(row, lost)
  BY <1>9, <1>16, <1>17, <1>20, <1>22 DEF Delivered
<1> QED
  BY <1>16, <1>23

------------------------------------------------------------------------------
(* Buckets *)

\* SameKey compares keys.
LEMMA KeyIs == \A a, b : SameKey(a, b) <=> KeyOf(a) = KeyOf(b)
BY DEF SameKey, KeyOf

\* The rows of a list.
LEMMA ListIs ==
  ASSUME NEW list \in Seq(RowSet)
  PROVE  /\ Len(list) \in Nat /\ DOMAIN list = 1..Len(list) /\ IsFiniteSet(DOMAIN list)
         /\ \A i \in DOMAIN list : list[i] \in RowSet /\ list[i].bytes \in Nat
         /\ \A S \in SUBSET DOMAIN list : BytesKnown(list, S)
<1>1. Len(list) \in Nat /\ DOMAIN list = 1..Len(list) /\ \A i \in DOMAIN list : list[i] \in RowSet
  OBVIOUS
<1>2. IsFiniteSet(DOMAIN list)
  BY <1>1, UpToIsFinite
<1>3. \A i \in DOMAIN list : list[i].bytes \in Nat
  BY <1>1, RowFields
<1>4. ASSUME NEW S \in SUBSET DOMAIN list PROVE BytesKnown(list, S)
  <2>1. IsFiniteSet(S)
    BY <1>2, FS_Subset
  <2> QED
    BY <1>3, <2>1 DEF BytesKnown
<1> QED
  BY <1>1, <1>2, <1>3, <1>4

\* The bytes of a key are a natural number.
LEMMA KeyBytesAre ==
  ASSUME NEW list \in Seq(RowSet), NEW K
  PROVE  KeyBytes(list, K) \in Nat
<1>1. Keyed(list, DOMAIN list, K) \in SUBSET DOMAIN list
  BY DEF Keyed
<1>2. BytesKnown(list, Keyed(list, DOMAIN list, K))
  BY <1>1, ListIs
<1> QED
  BY <1>2, BytesAre DEF KeyBytes

\* A row goes to the bucket of its key, which may be new.
LEMMA BucketedIs ==
  ASSUME BucketsOK(buckets), NEW row \in RowSet, row.route \in DOMAIN AccessOf
  PROVE  /\ BucketsOK(Bucketed(row))
         /\ \A k : HasKey(Bucketed(row), k) <=> HasKey(buckets, k) \/ k = KeyOf(row)
         /\ \A K : KeyBytes(Bucketed(row), K)
                     = KeyBytes(buckets, K) + IF KeyOf(row) \in K THEN row.bytes ELSE 0
<1> DEFINE u == Bucketed(row)
           n == Len(buckets)
<1>1. /\ buckets \in Seq(RowSet) /\ n \in Nat /\ DOMAIN buckets = 1..n
      /\ \A i \in 1..n : buckets[i] \in RowSet /\ buckets[i].bytes \in Nat
      /\ \A i \in 1..n : buckets[i].route \in DOMAIN AccessOf
      /\ \A i, j \in 1..n : KeyOf(buckets[i]) = KeyOf(buckets[j]) => i = j
  BY ListIs DEF BucketsOK
<1>2. row.bytes \in Nat
  BY RowFields
<1>3. CASE \E i \in DOMAIN buckets : SameKey(buckets[i], row)
  <2>1. PICK x \in 1..n : KeyOf(buckets[x]) = KeyOf(row)
    BY <1>1, <1>3, KeyIs
  <2>2. \A i \in 1..n : SameKey(buckets[i], row) <=> i = x
    BY <1>1, <2>1, KeyIs
  <2> DEFINE b == [buckets[x] EXCEPT !.bytes = @ + row.bytes]
  <2>3. b \in RowSet /\ KeyOf(b) = KeyOf(buckets[x]) /\ b.bytes = buckets[x].bytes + row.bytes
        /\ b.route = buckets[x].route
    <3>1. buckets[x] \in RowSet /\ buckets[x].bytes + row.bytes \in Nat
      BY <1>1, <1>2, <2>1
    <3> QED
      BY <3>1 DEF RowSet, KeyOf
  <2>4. u = [i \in 1..n |-> IF i = x THEN b ELSE buckets[i]]
    <3>1. u = [i \in DOMAIN buckets |->
                 IF SameKey(buckets[i], row) THEN [buckets[i] EXCEPT !.bytes = @ + row.bytes]
                                             ELSE buckets[i]]
      BY <1>3 DEF Bucketed
    <3> HIDE DEF u
    <3> QED
      BY <1>1, <2>2, <3>1
  <2> HIDE DEF u, b
  <2>5. DOMAIN u = 1..n /\ u[x] = b /\ \A i \in 1..n : i # x => u[i] = buckets[i]
    BY <2>1, <2>4
  <2>6. \A i \in 1..n : u[i] \in RowSet
    BY <1>1, <2>3, <2>5
  <2>7. u \in Seq(RowSet)
    <3>1. u = [i \in 1..n |-> u[i]]
      BY <2>4, <2>5
    <3> QED
      BY <1>1, <2>5, <2>6, <3>1, RowsAre
  <2>8. \A i \in 1..n : KeyOf(u[i]) = KeyOf(buckets[i]) /\ u[i].route = buckets[i].route
    BY <2>3, <2>5
  <2>9. BucketsOK(u)
    BY <1>1, <2>5, <2>7, <2>8 DEF BucketsOK
  <2>10. ASSUME NEW k PROVE HasKey(u, k) <=> HasKey(buckets, k) \/ k = KeyOf(row)
    BY <1>1, <2>1, <2>5, <2>8 DEF HasKey
  <2>11. ASSUME NEW K
         PROVE  KeyBytes(u, K) = KeyBytes(buckets, K) + IF KeyOf(row) \in K THEN row.bytes ELSE 0
    <3> DEFINE S == Keyed(buckets, DOMAIN buckets, K)
    <3>1. Keyed(u, DOMAIN u, K) = S
      BY <1>1, <2>5, <2>8 DEF Keyed
    <3>2. S \in SUBSET DOMAIN buckets /\ S \in SUBSET DOMAIN u /\ (x \in S <=> KeyOf(row) \in K)
      BY <1>1, <2>1, <2>5 DEF Keyed
    <3>3. BytesKnown(buckets, S) /\ BytesKnown(u, S)
      BY <1>1, <2>7, <3>2, ListIs
    <3>4. BytesAt(buckets, S) \in Nat
      BY <3>3, BytesAre
    <3>5. \A y \in S \ {x} : u[y].bytes = buckets[y].bytes
      BY <1>1, <2>5, <3>2
    <3> HIDE DEF S
    <3>6. CASE x \in S
      <4>1. BytesAt(u, S) = BytesAt(buckets, S) + u[x].bytes - buckets[x].bytes
        BY <3>3, <3>5, <3>6, BytesChanged
      <4>2. u[x].bytes = buckets[x].bytes + row.bytes /\ buckets[x].bytes \in Nat
        BY <1>1, <2>1, <2>3, <2>5
      <4>3. BytesAt(u, S) = BytesAt(buckets, S) + row.bytes
        BY <1>2, <3>4, <4>1, <4>2
      <4> QED
        BY <3>1, <3>2, <3>6, <4>3 DEF KeyBytes, S
    <3>7. CASE x \notin S
      <4>1. \A y \in S : u[y].bytes = buckets[y].bytes
        BY <3>5, <3>7
      <4>2. BytesAt(u, S) = BytesAt(buckets, S)
        BY <3>2, <3>3, <4>1, BytesSame
      <4>3. BytesAt(u, S) = BytesAt(buckets, S) + 0
        BY <3>4, <4>2
      <4> QED
        BY <3>1, <3>2, <3>7, <4>3 DEF KeyBytes, S
    <3> QED
      BY <3>6, <3>7
  <2> QED
    BY <2>9, <2>10, <2>11 DEF u
<1>4. CASE ~\E i \in DOMAIN buckets : SameKey(buckets[i], row)
  <2>1. u = Append(buckets, row)
    BY <1>4 DEF Bucketed
  <2>2. \A i \in 1..n : KeyOf(buckets[i]) # KeyOf(row)
    BY <1>1, <1>4, KeyIs
  <2> HIDE DEF u
  <2>3. /\ u \in Seq(RowSet) /\ DOMAIN u = 1..(n + 1) /\ u[n + 1] = row
        /\ \A i \in 1..n : u[i] = buckets[i]
    BY <1>1, <2>1
  <2>4. BucketsOK(u)
    <3>1. \A i \in 1..(n + 1) : i = n + 1 \/ i \in 1..n
      BY <1>1
    <3>2. \A i \in 1..(n + 1) : u[i].route \in DOMAIN AccessOf
      BY <1>1, <2>3, <3>1
    <3>3. \A i, j \in 1..(n + 1) : KeyOf(u[i]) = KeyOf(u[j]) => i = j
      BY <1>1, <2>2, <2>3, <3>1
    <3> QED
      BY <2>3, <3>2, <3>3 DEF BucketsOK
  <2>5. ASSUME NEW k PROVE HasKey(u, k) <=> HasKey(buckets, k) \/ k = KeyOf(row)
    <3>1. \A i : i \in 1..(n + 1) <=> i = n + 1 \/ i \in 1..n
      BY <1>1
    <3> QED
      BY <1>1, <2>3, <3>1 DEF HasKey
  <2>6. ASSUME NEW K
        PROVE  KeyBytes(u, K) = KeyBytes(buckets, K) + IF KeyOf(row) \in K THEN row.bytes ELSE 0
    <3> DEFINE S == Keyed(buckets, DOMAIN buckets, K)
    <3>1. S \in SUBSET (1..n)
      BY <1>1 DEF Keyed
    <3>2. \A i : i \in Keyed(u, DOMAIN u, K) <=> i \in S \/ (i = n + 1 /\ KeyOf(row) \in K)
      <4>1. \A i : i \in 1..(n + 1) <=> i = n + 1 \/ i \in 1..n
        BY <1>1
      <4> QED
        BY <1>1, <2>3, <4>1 DEF Keyed
    <3>3. BytesAt(buckets, S) \in Nat
      BY <1>1, KeyBytesAre DEF KeyBytes
    <3>4. \A r \in RowSet : r.bytes \in Nat
      BY RowFields
    <3> HIDE DEF S
    <3>5. /\ BytesAt(u, S) = BytesAt(buckets, S)
          /\ BytesAt(u, S \cup {n + 1}) = BytesAt(buckets, S) + row.bytes
      <4>1. buckets \in Seq(RowSet) /\ S \in SUBSET (1..Len(buckets))
        BY <1>1, <3>1
      <4>2. /\ BytesAt(Append(buckets, row), S) = BytesAt(buckets, S)
            /\ BytesAt(Append(buckets, row), S \cup {Len(buckets) + 1}) = BytesAt(buckets, S) + row.bytes
        BY <3>4, <4>1, BytesAppended
      <4> QED
        BY <2>1, <4>2
    <3>6. CASE KeyOf(row) \in K
      <4>1. Keyed(u, DOMAIN u, K) = S \cup {n + 1}
        BY <3>2, <3>6
      <4> QED
        BY <3>5, <3>6, <4>1 DEF KeyBytes, S
    <3>7. CASE KeyOf(row) \notin K
      <4>1. Keyed(u, DOMAIN u, K) = S
        BY <3>2, <3>7
      <4>2. BytesAt(u, S) = BytesAt(buckets, S) + 0
        BY <3>3, <3>5
      <4> QED
        BY <3>7, <4>1, <4>2 DEF KeyBytes, S
    <3> QED
      BY <3>6, <3>7
  <2> QED
    BY <2>4, <2>5, <2>6 DEF u
<1> QED
  BY <1>3, <1>4

\* The first bucket is taken off.
LEMMA TakenOff ==
  ASSUME NEW list, BucketsOK(list), list # <<>>
  PROVE  /\ Head(list) \in RowSet /\ Head(list).route \in DOMAIN AccessOf
         /\ BucketsOK(Tail(list))
         /\ \A k : HasKey(list, k) <=> HasKey(Tail(list), k) \/ k = KeyOf(Head(list))
         /\ ~HasKey(Tail(list), KeyOf(Head(list)))
         /\ \A K : KeyBytes(list, K)
                     = KeyBytes(Tail(list), K) + IF KeyOf(Head(list)) \in K THEN Head(list).bytes ELSE 0
<1> DEFINE u == Tail(list)
           h == Head(list)
           n == Len(list)
<1>1. /\ list \in Seq(RowSet) /\ n \in Nat /\ DOMAIN list = 1..n
      /\ \A i \in 1..n : list[i] \in RowSet /\ list[i].bytes \in Nat
      /\ \A i \in 1..n : list[i].route \in DOMAIN AccessOf
      /\ \A i, j \in 1..n : KeyOf(list[i]) = KeyOf(list[j]) => i = j
  BY ListIs DEF BucketsOK
<1>2. /\ n \in Nat \ {0} /\ h = list[1] /\ u \in Seq(RowSet) /\ Len(u) = n - 1
      /\ DOMAIN u = 1..(n - 1)
      /\ \A i \in 1..(n - 1) : u[i] = list[i + 1]
  BY <1>1
<1>3. h \in RowSet /\ h.route \in DOMAIN AccessOf
  BY <1>1, <1>2
<1> HIDE DEF u, h
<1>4. \A i \in 1..(n - 1) : i + 1 \in 1..n
  BY <1>1
<1>5. BucketsOK(u)
  <2>1. \A i \in 1..(n - 1) : u[i].route \in DOMAIN AccessOf
    BY <1>1, <1>2, <1>4
  <2>2. ASSUME NEW i \in 1..(n - 1), NEW j \in 1..(n - 1), KeyOf(u[i]) = KeyOf(u[j]) PROVE i = j
    <3>1. KeyOf(list[i + 1]) = KeyOf(list[j + 1])
      BY <1>2, <2>2
    <3>2. i + 1 = j + 1
      BY <1>1, <1>4, <3>1
    <3> QED
      BY <3>2
  <2> QED
    BY <1>2, <2>1, <2>2 DEF BucketsOK
<1>6. \A i \in 1..n : i = 1 \/ (i - 1 \in 1..(n - 1) /\ (i - 1) + 1 = i)
  BY <1>1
<1>7. ASSUME NEW k PROVE HasKey(list, k) <=> HasKey(u, k) \/ k = KeyOf(h)
  <2>1. HasKey(list, k) => HasKey(u, k) \/ k = KeyOf(h)
    <3> SUFFICES ASSUME NEW i \in 1..n, KeyOf(list[i]) = k PROVE HasKey(u, k) \/ k = KeyOf(h)
      BY <1>1 DEF HasKey
    <3>1. CASE i = 1
      BY <1>2, <3>1
    <3>2. CASE i # 1
      <4>1. i - 1 \in 1..(n - 1) /\ (i - 1) + 1 = i
        BY <1>6, <3>2
      <4>2. u[i - 1] = list[i]
        BY <1>2, <4>1
      <4> QED
        BY <1>2, <4>1, <4>2 DEF HasKey
    <3> QED
      BY <3>1, <3>2
  <2>2. HasKey(u, k) => HasKey(list, k)
    BY <1>1, <1>2, <1>4 DEF HasKey
  <2>3. HasKey(list, KeyOf(h))
    <3>1. 1 \in 1..n
      BY <1>2
    <3> QED
      BY <1>1, <1>2, <3>1 DEF HasKey
  <2> QED
    BY <2>1, <2>2, <2>3
<1>8. ~HasKey(u, KeyOf(h))
  <2>1. 1 \in 1..n /\ \A i \in 1..(n - 1) : i + 1 # 1
    BY <1>2
  <2> QED
    BY <1>1, <1>2, <1>4, <2>1 DEF HasKey
<1>9. ASSUME NEW K
      PROVE  KeyBytes(list, K) = KeyBytes(u, K) + IF KeyOf(h) \in K THEN h.bytes ELSE 0
  <2> DEFINE S == Keyed(list, DOMAIN list, K)
             T == Keyed(u, DOMAIN u, K)
  <2>1. S \in SUBSET (1..n) /\ T \in SUBSET (1..(n - 1))
    BY <1>1, <1>2 DEF Keyed
  <2>2. \A i \in 1..(n - 1) : i \in T <=> i + 1 \in S
    BY <1>1, <1>2, <1>4 DEF Keyed
  <2>3. 1 \in S <=> KeyOf(h) \in K
    <3>1. 1 \in 1..n
      BY <1>2
    <3> QED
      BY <1>1, <1>2, <3>1 DEF Keyed
  <2>4. \A r \in RowSet : r.bytes \in Nat
    BY RowFields
  <2> HIDE DEF S, T
  <2>5. T \in SUBSET (1..Len(Tail(list))) /\ \A i \in 1..Len(Tail(list)) : i \in T <=> i + 1 \in S
    BY <1>2, <2>1, <2>2 DEF u
  <2>6. BytesAt(list, S) = BytesAt(u, T) + IF 1 \in S THEN h.bytes ELSE 0
    BY <1>1, <2>1, <2>4, <2>5, BytesOfTail DEF u, h
  <2> QED
    BY <2>3, <2>6 DEF KeyBytes, S, T
<1> QED
  BY <1>3, <1>5, <1>7, <1>8, <1>9 DEF u, h

------------------------------------------------------------------------------
(* The books of the core at work *)

Pending == Total(accesses) + KeyBytes(buckets, Keys)

\* Each spread so far lost fewer than MinBytes.
BytesBounded ==
  /\ Open <= Cardinality(SpreadRows)
  /\ Pending <= RowBytes(Keys)
  /\ RowBytes(Keys) <= Pending + (Cardinality(SpreadRows) - Open) * (MinBytes - 1)

SlotsExact ==
  \A v \in DOMAIN Catalog, op \in {"read", "write"} :
    BytesAt(accesses, To(accesses, v, op)) + KeyBytes(buckets, SlotKeys(v, op))
      = RowBytes(SlotKeys(v, op))

BooksOK == Working => BytesBounded /\ SlotsExact

\* The keys of a row: a spread row has SpreadKey, a slot's row one of the slot's keys.
LEMMA KeysAre ==
  ASSUME NEW row \in RowSet
  PROVE  /\ KeyOf(row) \in Keys
         /\ Unattributed(row) <=> KeyOf(row) = SpreadKey
         /\ row.route \in DOMAIN AccessOf =>
              \A v, op : OfSlot(row, v, op) <=> KeyOf(row) \in SlotKeys(v, op)
BY DEF RowSet, KeyOf, Keys, Unattributed, SpreadKey, OfSlot, SlotKeys

\* All rows are keyed.
LEMMA AllKeyed ==
  ASSUME NEW list \in Seq(RowSet), NEW S \in SUBSET DOMAIN list
  PROVE  Keyed(list, S, Keys) = S
<1>1. \A i \in S : list[i] \in RowSet
  BY ListIs
<1> QED
  BY <1>1, KeysAre DEF Keyed

\* Reading a row adds its bytes to what its key has.
LEMMA RowCounted ==
  ASSUME IngestTypeOK, TakeRow, Accepted(Head(rows))
  PROVE  /\ \A K : RowBytes(K)' = RowBytes(K) + IF KeyOf(Head(rows)) \in K THEN Head(rows).bytes ELSE 0
         /\ Cardinality(SpreadRows) \in Nat
         /\ Cardinality(SpreadRows') = Cardinality(SpreadRows) + IF Unattributed(Head(rows)) THEN 1 ELSE 0
<1> DEFINE a == AllRows
           x == NextRow
           r == Head(rows)
<1>1. /\ Working /\ AllRows' = AllRows /\ r \in RowSet /\ r = a[x] /\ x \in DOMAIN a
      /\ x \notin RowsRead /\ RowsRead' = RowsRead \cup {x}
  BY RowTaken
<1>2. /\ a \in Seq(RowSet) /\ RowsRead \in SUBSET DOMAIN a /\ IsFiniteSet(RowsRead)
  BY <1>1, AtWork
<1> HIDE DEF a, x, r
<1>3. ASSUME NEW K
      PROVE  RowBytes(K)' = RowBytes(K) + IF KeyOf(r) \in K THEN r.bytes ELSE 0
  <2> DEFINE S == Keyed(a, RowsRead, K)
             T == Keyed(a, RowsRead \cup {x}, K)
  <2>1. RowBytes(K) = BytesAt(a, S)
    BY DEF RowBytes, a
  <2>2. RowBytes(K)' = BytesAt(a, T)
    BY <1>1 DEF RowBytes, a, Keyed, KeyOf
  <2>3. S \in SUBSET DOMAIN a /\ T \in SUBSET DOMAIN a /\ x \notin S
        /\ \A i : i \in T <=> i \in S \/ (i = x /\ KeyOf(r) \in K)
    BY <1>1, <1>2 DEF Keyed
  <2> HIDE DEF S, T
  <2>4. BytesKnown(a, S) /\ BytesKnown(a, T)
    BY <1>2, <2>3, ListIs
  <2>5. BytesAt(a, S) \in Nat
    BY <2>4, BytesAre
  <2>6. CASE KeyOf(r) \in K
    <3>1. T = S \cup {x}
      BY <2>3, <2>6
    <3>2. BytesAt(a, S \cup {x}) = BytesAt(a, S) + a[x].bytes
      BY <2>3, <2>4, <3>1, BytesWith
    <3> QED
      BY <1>1, <2>1, <2>2, <2>6, <3>1, <3>2
  <2>7. CASE KeyOf(r) \notin K
    <3>1. T = S
      BY <2>3, <2>7
    <3>2. BytesAt(a, T) = BytesAt(a, S) + 0
      BY <2>5, <3>1
    <3> QED
      BY <2>1, <2>2, <2>7, <3>2
  <2> QED
    BY <2>6, <2>7
<1>4. SpreadRows \in SUBSET RowsRead /\ IsFiniteSet(SpreadRows) /\ Cardinality(SpreadRows) \in Nat
  <2>1. SpreadRows \in SUBSET RowsRead
    BY DEF SpreadRows
  <2> QED
    BY <1>2, <2>1, FS_Subset, FS_CardinalityType
<1>5. \A i : i \in SpreadRows' <=> i \in SpreadRows \/ (i = x /\ Unattributed(r))
  <2>1. SpreadRows' = {i \in RowsRead \cup {x} : Unattributed(a[i])}
    BY <1>1 DEF SpreadRows, a, Unattributed
  <2>2. SpreadRows = {i \in RowsRead : Unattributed(a[i])}
    BY DEF SpreadRows, a
  <2> QED
    BY <1>1, <2>1, <2>2
<1>6. CASE Unattributed(r)
  <2>1. SpreadRows' = SpreadRows \cup {x} /\ x \notin SpreadRows
    BY <1>1, <1>4, <1>5, <1>6
  <2>2. Cardinality(SpreadRows \cup {x}) = Cardinality(SpreadRows) + 1
    BY <1>4, <2>1, FS_AddElement
  <2> QED
    BY <1>3, <1>4, <1>6, <2>1, <2>2 DEF r
<1>7. CASE ~Unattributed(r)
  <2>1. SpreadRows' = SpreadRows
    BY <1>5, <1>7
  <2> QED
    BY <1>3, <1>4, <1>7, <2>1 DEF r
<1> QED
  BY <1>6, <1>7

\* An accepted row has a mapped route.
LEMMA AcceptedIs == \A row : Accepted(row) => row.route \in DOMAIN AccessOf
BY DEF Accepted

\* The handling of a row or of a bucket.
LEMMA HandledDelivers ==
  ASSUME IngestTypeOK, Working, NEW row \in RowSet, row.route \in DOMAIN AccessOf,
         (Unattributed(row) /\ Spread(row)) \/ EmitAccess(row)
  PROVE  \E lost \in 0..(MinBytes - 1) : Delivered(row, lost) /\ (lost # 0 => Unattributed(row))
<1>1. MinBytes \in Nat \ {0}
  BY TargetsAre
<1>2. CASE EmitAccess(row)
  <2>1. Delivered(row, 0)
    BY <1>2, EmitDelivers
  <2> QED
    BY <1>1, <2>1
<1>3. CASE Unattributed(row) /\ Spread(row)
  <2>1. row.variable \notin DOMAIN Catalog
    BY <1>3, CatalogAssumption DEF Unattributed
  <2>2. PICK lost \in 0..(MinBytes - 1) : Delivered(row, lost)
    BY <1>3, <2>1, SpreadDelivers
  <2> QED
    BY <1>3, <2>2
<1> QED
  BY <1>2, <1>3

\* The bound holds on, with d bytes more, k spreads and room for fewer than m + 1 bytes in each.
LEMMA Balanced ==
  ASSUME NEW m \in Nat, NEW lost \in 0..m, NEW k \in Nat, NEW l \in Nat, NEW d \in Nat,
         NEW p \in Nat, NEW q \in Nat, NEW a \in Nat, NEW b \in Nat,
         p <= a, a <= p + k * m, q + lost = p + d, b = a + d, k <= l, lost # 0 => k + 1 <= l
  PROVE  q <= b /\ b <= q + l * m
<1>1. k * m \in Nat /\ l * m \in Nat
  BY ProductIs
<1>2. PICK e \in Nat : l = k + e
  <2>1. l - k \in Nat /\ l = k + (l - k)
    OBVIOUS
  <2> QED
    BY <2>1
<1>3. l * m = k * m + e * m /\ e * m \in Nat
  <2>1. m * (k + e) = m * k + m * e
    BY FactorIs
  <2>2. m * (k + e) = (k + e) * m /\ m * k = k * m /\ m * e = e * m
    OBVIOUS
  <2> QED
    BY <1>2, <2>1, <2>2, ProductIs
<1>4. lost <= e * m
  <2>1. CASE lost = 0
    BY <1>3, <2>1
  <2>2. CASE lost # 0
    <3>1. PICK f \in Nat : e = 1 + f
      <4>1. e - 1 \in Nat /\ e = 1 + (e - 1)
        BY <1>2, <2>2
      <4> QED
        BY <4>1
    <3>2. m * (1 + f) = m * 1 + m * f /\ m * f \in Nat
      BY FactorIs, ProductIs
    <3>3. m * (1 + f) = e * m /\ m * 1 = m
      BY <3>1
    <3> QED
      BY <3>2, <3>3
  <2> QED
    BY <2>1, <2>2
<1> QED
  BY <1>1, <1>3, <1>4

\* The state after a row.
LEMMA RowTyped ==
  ASSUME IngestTypeOK, TakeRow, BucketsOK(buckets'), accesses' \in Seq(AccessSet),
         tensors' \in [DOMAIN tensors' -> Nat], DOMAIN tensors' \subseteq Ids
  PROVE  IngestTypeOK'
<1>1. /\ Working /\ Working' /\ AllRows' = AllRows
      /\ rows' \in Seq(RowSet) /\ Len(rows') <= Len(AllRows)
      /\ \A k \in 1..Len(rows') : rows'[k] = AllRows[Len(AllRows) - Len(rows') + k]
  BY RowTaken
<1>2. input' = input /\ todo' = todo /\ input \in Inputs /\ todo \in Seq(DOMAIN input.dma)
  BY DEF IngestTypeOK, TakeRow
<1>3. Working' => /\ rows' \in Seq(RowSet) /\ Len(rows') <= Len(AllRows')
                  /\ \A k \in 1..Len(rows') : rows'[k] = AllRows'[Len(AllRows') - Len(rows') + k]
  BY <1>1
<1> QED
  BY <1>1, <1>2, <1>3 DEF IngestTypeOK

\* The bytes of accesses are a natural number.
LEMMA TotalNat ==
  ASSUME NEW list \in Seq(AccessSet)
  PROVE  Total(list) \in Nat
<1>1. /\ Len(list) \in Nat /\ DOMAIN list = 1..Len(list)
      /\ \A i \in DOMAIN list : list[i] \in AccessSet
  OBVIOUS
<1>2. IsFiniteSet(DOMAIN list) /\ \A i \in DOMAIN list : list[i].bytes \in Nat
  BY <1>1, UpToIsFinite, AccessFields
<1>3. BytesKnown(list, DOMAIN list)
  BY <1>2 DEF BytesKnown
<1> QED
  BY <1>3, BytesAre DEF Total

\* The bytes of the core at work are natural numbers.
LEMMA TotalIs ==
  ASSUME IngestTypeOK
  PROVE  /\ Total(accesses) \in Nat
         /\ \A v, op : BytesAt(accesses, To(accesses, v, op)) \in Nat
         /\ \A K : KeyBytes(buckets, K) \in Nat
<1>1. accesses \in Seq(AccessSet) /\ buckets \in Seq(RowSet)
  BY DEF IngestTypeOK, BucketsOK
<1>2. /\ Len(accesses) \in Nat /\ DOMAIN accesses = 1..Len(accesses)
      /\ \A i \in DOMAIN accesses : accesses[i] \in AccessSet
  BY <1>1
<1>3. IsFiniteSet(DOMAIN accesses) /\ \A i \in DOMAIN accesses : accesses[i].bytes \in Nat
  BY <1>2, UpToIsFinite, AccessFields
<1>4. ASSUME NEW S \in SUBSET DOMAIN accesses PROVE BytesAt(accesses, S) \in Nat
  <2>1. IsFiniteSet(S)
    BY <1>3, FS_Subset
  <2>2. BytesKnown(accesses, S)
    BY <1>3, <2>1 DEF BytesKnown
  <2> QED
    BY <2>2, BytesAre
<1>5. \A v, op : To(accesses, v, op) \in SUBSET DOMAIN accesses
  BY DEF To
<1> QED
  BY <1>1, <1>4, <1>5, KeyBytesAre DEF Total

\* The bytes of the rows read and the numbers of spreads are natural numbers.
LEMMA RowBytesAre ==
  ASSUME IngestTypeOK, Working
  PROVE  (\A K : RowBytes(K) \in Nat) /\ Cardinality(SpreadRows) \in Nat /\ Open \in {0, 1}
<1>1. RowsRead \in SUBSET DOMAIN AllRows /\ IsFiniteSet(RowsRead)
      /\ \A S \in SUBSET RowsRead : BytesKnown(AllRows, S)
  BY AtWork
<1>2. ASSUME NEW K PROVE RowBytes(K) \in Nat
  <2>1. Keyed(AllRows, RowsRead, K) \in SUBSET RowsRead
    BY DEF Keyed
  <2> QED
    BY <1>1, <2>1, BytesAre DEF RowBytes
<1>3. Cardinality(SpreadRows) \in Nat
  <2>1. SpreadRows \in SUBSET RowsRead
    BY DEF SpreadRows
  <2> QED
    BY <1>1, <2>1, FS_Subset, FS_CardinalityType
<1> QED
  BY <1>2, <1>3 DEF Open

IngestInv == IngestTypeOK /\ BooksOK /\ Housed

\* SkipRow preserves the invariant: nothing is read.
LEMMA SkipKeeps ==
  ASSUME IngestInv, SkipRow
  PROVE  IngestInv'
<1>1. /\ TakeRow /\ ~Accepted(Head(rows)) /\ buckets' = buckets /\ accesses' = accesses
      /\ tensors' = tensors
  BY DEF SkipRow
<1>2. IngestTypeOK /\ Working /\ AllRows' = AllRows /\ RowsRead' = RowsRead
  BY <1>1, RowTaken DEF IngestInv
<1>3. IngestTypeOK'
  <2>1. /\ BucketsOK(buckets) /\ accesses \in Seq(AccessSet)
        /\ tensors \in [DOMAIN tensors -> Nat] /\ DOMAIN tensors \subseteq Ids
    BY <1>2 DEF IngestTypeOK
  <2>2. /\ BucketsOK(buckets') /\ accesses' \in Seq(AccessSet)
        /\ tensors' \in [DOMAIN tensors' -> Nat] /\ DOMAIN tensors' \subseteq Ids
    BY <1>1, <2>1
  <2> QED
    BY <1>1, <1>2, <2>2, RowTyped
<1>4. Housed'
  BY <1>1 DEF IngestInv, Housed
<1>5. \A K : RowBytes(K)' = RowBytes(K)
  BY <1>2 DEF RowBytes, Keyed, KeyOf
<1>6. SpreadRows' = SpreadRows /\ Open' = Open /\ Pending' = Pending
  BY <1>1, <1>2 DEF SpreadRows, Open, Pending, HasKey, Unattributed
<1>7. BooksOK'
  <2>1. BytesBounded /\ SlotsExact
    BY <1>2 DEF IngestInv, BooksOK
  <2>2. BytesBounded'
    BY <1>5, <1>6, <2>1 DEF BytesBounded
  <2>3. SlotsExact'
    BY <1>1, <1>5, <2>1 DEF SlotsExact
  <2> QED
    BY <2>2, <2>3 DEF BooksOK
<1> QED
  BY <1>3, <1>4, <1>7 DEF IngestInv

\* AggregateRow preserves the invariant: the row's bytes go to the bucket of its key.
LEMMA AggregateKeeps ==
  ASSUME IngestInv, AggregateRow
  PROVE  IngestInv'
<1> DEFINE r == Head(rows)
           m == MinBytes - 1
           s == Cardinality(SpreadRows)
           one == IF Unattributed(r) THEN 1 ELSE 0
<1>1. /\ TakeRow /\ Accepted(r) /\ buckets' = Bucketed(r) /\ accesses' = accesses
      /\ tensors' = Recorded(r)
  BY DEF AggregateRow
<1>2. IngestTypeOK /\ Working /\ r \in RowSet /\ r.route \in DOMAIN AccessOf /\ r.bytes \in Nat
  BY <1>1, RowTaken, AcceptedIs, RowFields DEF IngestInv
<1>3. /\ \A K : RowBytes(K)' = RowBytes(K) + IF KeyOf(r) \in K THEN r.bytes ELSE 0
      /\ s \in Nat /\ Cardinality(SpreadRows') = s + one
  BY <1>1, <1>2, RowCounted
<1>4. /\ BucketsOK(buckets')
      /\ \A k : HasKey(buckets', k) <=> HasKey(buckets, k) \/ k = KeyOf(r)
      /\ \A K : KeyBytes(buckets', K) = KeyBytes(buckets, K) + IF KeyOf(r) \in K THEN r.bytes ELSE 0
  <2>1. BucketsOK(buckets)
    BY <1>2 DEF IngestTypeOK
  <2> HIDE DEF r
  <2> QED
    BY <1>1, <1>2, <2>1, BucketedIs
<1>5. Covers(tensors', tensors) /\ DOMAIN tensors' \subseteq Ids
  <2>1. tensors \in [DOMAIN tensors -> Nat] /\ DOMAIN tensors \subseteq Ids
    BY <1>2 DEF IngestTypeOK
  <2>2. Covers(tensors, tensors)
    BY <2>1 DEF Covers
  <2> DEFINE t == Resolve(r.variable, r.bytes)
  <2>3. t \in Ids
    <3> HIDE DEF r
    <3> QED
      BY <1>2, ResolveIs
  <2> HIDE DEF r, t
  <2>4. /\ Covers(Sized(tensors, t, r.bytes), tensors)
        /\ DOMAIN Sized(tensors, t, r.bytes) = DOMAIN tensors \cup {t}
    BY <1>2, <2>1, SizedIs
  <2>5. tensors' = tensors \/ tensors' = Sized(tensors, t, r.bytes)
    BY <1>1 DEF Recorded, t
  <2> QED
    BY <2>1, <2>2, <2>3, <2>4, <2>5
<1> HIDE DEF r, s
<1>6. IngestTypeOK'
  <2>1. accesses' \in Seq(AccessSet) /\ tensors' \in [DOMAIN tensors' -> Nat]
    BY <1>1, <1>2, <1>5 DEF IngestTypeOK, Covers
  <2> QED
    BY <1>1, <1>2, <1>4, <1>5, <2>1, RowTyped
<1>7. Housed'
  <2>1. ASSUME NEW i \in DOMAIN accesses
        PROVE  HasRoom(tensors', accesses[i].tensor[2], accesses[i].bytes)
    <3>1. accesses[i] \in AccessSet /\ tensors \in [DOMAIN tensors -> Nat]
      BY <1>2 DEF IngestTypeOK
    <3>2. HasRoom(tensors, accesses[i].tensor[2], accesses[i].bytes) /\ accesses[i].bytes \in Nat
      BY <3>1, AccessFields DEF IngestInv, Housed
    <3> QED
      BY <1>5, <3>1, <3>2, RoomKept
  <2> QED
    BY <1>1, <2>1 DEF Housed
<1>8. BytesBounded /\ SlotsExact
  BY <1>2 DEF IngestInv, BooksOK
<1>9. KeyOf(r) \in Keys /\ (Unattributed(r) <=> KeyOf(r) = SpreadKey)
      /\ \A v, op : OfSlot(r, v, op) <=> KeyOf(r) \in SlotKeys(v, op)
  BY <1>2, KeysAre
<1>10. /\ Total(accesses) \in Nat /\ (\A K : KeyBytes(buckets, K) \in Nat)
       /\ (\A K : RowBytes(K) \in Nat) /\ Open \in {0, 1} /\ m \in Nat /\ one \in {0, 1}
       /\ \A v, op : BytesAt(accesses, To(accesses, v, op)) \in Nat
  BY <1>2, TotalIs, RowBytesAre, TargetsAre
<1>11. Open' = (IF HasKey(buckets, SpreadKey) \/ Unattributed(r) THEN 1 ELSE 0)
  BY <1>4, <1>9 DEF Open
<1>12. BytesBounded'
  <2>1. Pending' = Pending + r.bytes /\ RowBytes(Keys)' = RowBytes(Keys) + r.bytes
    <3>1. KeyBytes(buckets', Keys) = KeyBytes(buckets, Keys) + r.bytes
      BY <1>4, <1>9
    <3>2. Pending' = Total(accesses) + KeyBytes(buckets', Keys)
      BY <1>1 DEF Pending
    <3>3. Pending' = Pending + r.bytes
      BY <1>2, <1>10, <3>1, <3>2 DEF Pending
    <3> QED
      BY <1>3, <1>9, <3>3
  <2>2. /\ Open <= s /\ Pending <= RowBytes(Keys)
        /\ RowBytes(Keys) <= Pending + (s - Open) * m
    BY <1>8 DEF BytesBounded, s
  <2>3. Open' <= s + one /\ s - Open <= (s + one) - Open'
        /\ s - Open \in Nat /\ (s + one) - Open' \in Nat
    BY <1>3, <1>10, <1>11, <2>2 DEF Open
  <2>4. Pending \in Nat /\ Pending' \in Nat /\ RowBytes(Keys) \in Nat /\ RowBytes(Keys)' \in Nat
    BY <1>2, <1>10, <2>1 DEF Pending
  <2> DEFINE k == s - Open
             l == (s + one) - Open'
  <2>5. /\ Pending' + 0 = Pending + r.bytes /\ 0 \in 0..m /\ k <= l /\ k \in Nat /\ l \in Nat
        /\ RowBytes(Keys) <= Pending + k * m
    BY <1>10, <2>1, <2>2, <2>3, <2>4
  <2> HIDE DEF k, l, m
  <2>6. Pending' <= RowBytes(Keys)' /\ RowBytes(Keys)' <= Pending' + l * m
    BY <1>2, <1>10, <2>1, <2>2, <2>4, <2>5, Balanced
  <2> QED
    BY <1>3, <2>3, <2>6 DEF BytesBounded, l, m
<1>13. SlotsExact'
  <2> SUFFICES ASSUME NEW v \in DOMAIN Catalog, NEW op \in {"read", "write"}
               PROVE  BytesAt(accesses', To(accesses', v, op)) + KeyBytes(buckets', SlotKeys(v, op))
                        = RowBytes(SlotKeys(v, op))'
    BY DEF SlotsExact
  <2> DEFINE K == SlotKeys(v, op)
             a == BytesAt(accesses, To(accesses, v, op))
             d == IF KeyOf(r) \in K THEN r.bytes ELSE 0
  <2>1. a + KeyBytes(buckets, K) = RowBytes(K) /\ a \in Nat /\ KeyBytes(buckets, K) \in Nat /\ d \in Nat
    BY <1>2, <1>8, <1>10 DEF SlotsExact
  <2>2. KeyBytes(buckets', K) = KeyBytes(buckets, K) + d /\ RowBytes(K)' = RowBytes(K) + d
    BY <1>3, <1>4
  <2>3. BytesAt(accesses', To(accesses', v, op)) = a
    BY <1>1
  <2> HIDE DEF K, a, d
  <2>4. a + KeyBytes(buckets', K) = RowBytes(K)'
    BY <2>1, <2>2
  <2> QED
    BY <2>3, <2>4 DEF K
<1> QED
  BY <1>6, <1>7, <1>12, <1>13 DEF IngestInv, BooksOK

\* EmitRow preserves the invariant: the row's bytes are delivered, or fewer than MinBytes
\* of a spread are lost.
LEMMA EmitKeeps ==
  ASSUME IngestInv, EmitRow
  PROVE  IngestInv'
<1> DEFINE r == Head(rows)
           m == MinBytes - 1
           s == Cardinality(SpreadRows)
           one == IF Unattributed(r) THEN 1 ELSE 0
<1>1. /\ TakeRow /\ Accepted(r) /\ buckets' = buckets
      /\ (Unattributed(r) /\ Spread(r)) \/ EmitAccess(r)
  BY DEF EmitRow, Spreads
<1>2. IngestTypeOK /\ Working /\ r \in RowSet /\ r.route \in DOMAIN AccessOf /\ r.bytes \in Nat
  BY <1>1, RowTaken, AcceptedIs, RowFields DEF IngestInv
<1>3. /\ \A K : RowBytes(K)' = RowBytes(K) + IF KeyOf(r) \in K THEN r.bytes ELSE 0
      /\ s \in Nat /\ Cardinality(SpreadRows') = s + one
  BY <1>1, <1>2, RowCounted
<1> HIDE DEF r, s
<1>4. PICK lost \in 0..m : Delivered(r, lost) /\ (lost # 0 => Unattributed(r))
  BY <1>1, <1>2, HandledDelivers
<1>5. /\ accesses' \in Seq(AccessSet) /\ Covers(tensors', tensors) /\ DOMAIN tensors' \subseteq Ids
      /\ Housed => Housed'
      /\ Total(accesses') + lost = Total(accesses) + r.bytes
      /\ \A v \in DOMAIN Catalog, op \in {"read", "write"} :
           BytesAt(accesses', To(accesses', v, op))
             = BytesAt(accesses, To(accesses, v, op)) + IF OfSlot(r, v, op) THEN r.bytes ELSE 0
  BY <1>4 DEF Delivered
<1>6. IngestTypeOK'
  <2>1. BucketsOK(buckets') /\ tensors' \in [DOMAIN tensors' -> Nat]
    BY <1>1, <1>2, <1>5 DEF IngestTypeOK, Covers
  <2> QED
    BY <1>1, <1>2, <1>5, <2>1, RowTyped
<1>7. Housed'
  BY <1>5 DEF IngestInv
<1>8. BytesBounded /\ SlotsExact
  BY <1>2 DEF IngestInv, BooksOK
<1>9. KeyOf(r) \in Keys /\ (Unattributed(r) <=> KeyOf(r) = SpreadKey)
      /\ \A v, op : OfSlot(r, v, op) <=> KeyOf(r) \in SlotKeys(v, op)
  BY <1>2, KeysAre
<1>10. /\ Total(accesses) \in Nat /\ (\A K : KeyBytes(buckets, K) \in Nat) /\ Total(accesses') \in Nat
       /\ (\A K : RowBytes(K) \in Nat) /\ Open \in {0, 1} /\ m \in Nat /\ one \in {0, 1}
       /\ \A v, op : BytesAt(accesses, To(accesses, v, op)) \in Nat
  <2>1. Total(accesses') \in Nat
    BY <1>5, TotalNat
  <2> QED
    BY <1>2, <2>1, TotalIs, RowBytesAre, TargetsAre
<1>11. Open' = Open
  BY <1>1 DEF Open, HasKey
<1>12. BytesBounded'
  <2>1. Pending' + lost = Pending + r.bytes /\ RowBytes(Keys)' = RowBytes(Keys) + r.bytes
    <3>1. Pending' = Total(accesses') + KeyBytes(buckets, Keys)
      BY <1>1 DEF Pending
    <3>2. Pending' + lost = Pending + r.bytes
      BY <1>2, <1>5, <1>10, <3>1 DEF Pending
    <3> QED
      BY <1>3, <1>9, <3>2
  <2>2. /\ Open <= s /\ Pending <= RowBytes(Keys)
        /\ RowBytes(Keys) <= Pending + (s - Open) * m
    BY <1>8 DEF BytesBounded, s
  <2>3. Open <= s + one /\ s - Open <= (s + one) - Open
        /\ s - Open \in Nat /\ (s + one) - Open \in Nat
        /\ (lost # 0 => (s - Open) + 1 <= (s + one) - Open)
    BY <1>3, <1>4, <1>10, <2>2
  <2>4. Pending \in Nat /\ Pending' \in Nat /\ RowBytes(Keys) \in Nat /\ RowBytes(Keys)' \in Nat
    <3>1. Pending' = Total(accesses') + KeyBytes(buckets, Keys)
      BY <1>1 DEF Pending
    <3> QED
      BY <1>2, <1>10, <2>1, <3>1 DEF Pending
  <2> DEFINE k == s - Open
             l == (s + one) - Open
  <2>5. /\ k <= l /\ k \in Nat /\ l \in Nat /\ RowBytes(Keys) <= Pending + k * m
        /\ (lost # 0 => k + 1 <= l)
    BY <2>2, <2>3
  <2> HIDE DEF k, l, m
  <2>6. Pending' <= RowBytes(Keys)' /\ RowBytes(Keys)' <= Pending' + l * m
    BY <1>2, <1>10, <2>1, <2>2, <2>4, <2>5, Balanced
  <2> QED
    BY <1>3, <1>11, <2>3, <2>6 DEF BytesBounded, l, m
<1>13. SlotsExact'
  <2> SUFFICES ASSUME NEW v \in DOMAIN Catalog, NEW op \in {"read", "write"}
               PROVE  BytesAt(accesses', To(accesses', v, op)) + KeyBytes(buckets', SlotKeys(v, op))
                        = RowBytes(SlotKeys(v, op))'
    BY DEF SlotsExact
  <2> DEFINE K == SlotKeys(v, op)
             a == BytesAt(accesses, To(accesses, v, op))
             d == IF KeyOf(r) \in K THEN r.bytes ELSE 0
  <2>1. a + KeyBytes(buckets, K) = RowBytes(K) /\ a \in Nat /\ KeyBytes(buckets, K) \in Nat /\ d \in Nat
    BY <1>2, <1>8, <1>10 DEF SlotsExact
  <2>2. KeyBytes(buckets', K) = KeyBytes(buckets, K) /\ RowBytes(K)' = RowBytes(K) + d
    BY <1>1, <1>3
  <2>3. BytesAt(accesses', To(accesses', v, op)) = a + d
    BY <1>5, <1>9
  <2> HIDE DEF K, a, d
  <2>4. (a + d) + KeyBytes(buckets', K) = RowBytes(K)'
    BY <2>1, <2>2
  <2> QED
    BY <2>3, <2>4 DEF K
<1> QED
  BY <1>6, <1>7, <1>12, <1>13 DEF IngestInv, BooksOK

\* FlushBucket preserves the invariant: the bytes leave the bucket and are delivered.
LEMMA FlushKeeps ==
  ASSUME IngestInv, FlushBucket
  PROVE  IngestInv'
<1> DEFINE r == Head(buckets)
           m == MinBytes - 1
           s == Cardinality(SpreadRows)
<1>1. /\ rows = <<>> /\ buckets # <<>> /\ buckets' = Tail(buckets)
      /\ (Unattributed(r) /\ Spread(r)) \/ EmitAccess(r)
      /\ input' = input /\ todo' = todo /\ rows' = rows
  BY DEF FlushBucket
<1>2. IngestTypeOK /\ Working /\ BucketsOK(buckets)
  BY <1>1 DEF IngestInv, IngestTypeOK
<1>3. /\ r \in RowSet /\ r.route \in DOMAIN AccessOf /\ BucketsOK(buckets')
      /\ \A k : HasKey(buckets, k) <=> HasKey(buckets', k) \/ k = KeyOf(r)
      /\ ~HasKey(buckets', KeyOf(r))
      /\ \A K : KeyBytes(buckets, K) = KeyBytes(buckets', K) + IF KeyOf(r) \in K THEN r.bytes ELSE 0
  BY <1>1, <1>2, TakenOff
<1> HIDE DEF r, s
<1>4. PICK lost \in 0..m : Delivered(r, lost) /\ (lost # 0 => Unattributed(r))
  BY <1>1, <1>2, <1>3, HandledDelivers
<1>5. /\ accesses' \in Seq(AccessSet) /\ Covers(tensors', tensors) /\ DOMAIN tensors' \subseteq Ids
      /\ Housed => Housed'
      /\ Total(accesses') + lost = Total(accesses) + r.bytes
      /\ \A v \in DOMAIN Catalog, op \in {"read", "write"} :
           BytesAt(accesses', To(accesses', v, op))
             = BytesAt(accesses, To(accesses, v, op)) + IF OfSlot(r, v, op) THEN r.bytes ELSE 0
  BY <1>4 DEF Delivered
<1>6. AllRows' = AllRows /\ RowsRead' = RowsRead /\ Working'
  <2>1. AllRows' = AllRows /\ Working'
    BY <1>1, <1>2 DEF AllRows, Working
  <2> QED
    BY <1>1, <2>1 DEF RowsRead, Accepted
<1>7. IngestTypeOK'
  <2>1. tensors' \in [DOMAIN tensors' -> Nat] /\ input' \in Inputs /\ todo' \in Seq(DOMAIN input'.dma)
    BY <1>1, <1>2, <1>5 DEF IngestTypeOK, Covers
  <2>2. /\ rows' \in Seq(RowSet) /\ Len(rows') <= Len(AllRows')
        /\ \A k \in 1..Len(rows') : rows'[k] = AllRows'[Len(AllRows') - Len(rows') + k]
    BY <1>1, <1>2, <1>6 DEF IngestTypeOK
  <2> QED
    BY <1>3, <1>5, <1>6, <2>1, <2>2 DEF IngestTypeOK
<1>8. Housed'
  BY <1>5 DEF IngestInv
<1>9. BytesBounded /\ SlotsExact
  BY <1>2 DEF IngestInv, BooksOK
<1>10. KeyOf(r) \in Keys /\ (Unattributed(r) <=> KeyOf(r) = SpreadKey)
       /\ \A v, op : OfSlot(r, v, op) <=> KeyOf(r) \in SlotKeys(v, op)
  BY <1>3, KeysAre
<1>11. /\ Total(accesses) \in Nat /\ (\A K : KeyBytes(buckets, K) \in Nat) /\ Total(accesses') \in Nat
       /\ (\A K : KeyBytes(buckets', K) \in Nat) /\ r.bytes \in Nat
       /\ (\A K : RowBytes(K) \in Nat) /\ Open \in {0, 1} /\ m \in Nat /\ s \in Nat
       /\ \A v, op : BytesAt(accesses, To(accesses, v, op)) \in Nat
  <2>1. \A K : KeyBytes(buckets', K) \in Nat
    BY <1>3, KeyBytesAre DEF BucketsOK
  <2> QED
    BY <1>2, <1>3, <1>5, <2>1, TotalNat, TotalIs, RowBytesAre, TargetsAre, RowFields DEF s
<1>12. \A K : RowBytes(K)' = RowBytes(K)
  BY <1>6 DEF RowBytes, Keyed, KeyOf
<1>13. Cardinality(SpreadRows') = s
  <2>1. SpreadRows' = SpreadRows
    BY <1>6 DEF SpreadRows, Unattributed
  <2> QED
    BY <2>1 DEF s
<1>14. Open' \in {0, 1} /\ Open' <= Open /\ (Unattributed(r) => Open = 1 /\ Open' = 0)
  BY <1>3, <1>10 DEF Open
<1>15. BytesBounded'
  <2> DEFINE k == s - Open
             l == s - Open'
  <2>1. Pending' + lost = Pending
    <3>1. Pending' = Total(accesses') + KeyBytes(buckets', Keys)
      BY DEF Pending
    <3>2. KeyBytes(buckets, Keys) = KeyBytes(buckets', Keys) + r.bytes
      BY <1>3, <1>10
    <3>3. Pending = Total(accesses) + (KeyBytes(buckets', Keys) + r.bytes)
      BY <3>2 DEF Pending
    <3>4. /\ Total(accesses) \in Nat /\ Total(accesses') \in Nat /\ KeyBytes(buckets', Keys) \in Nat
          /\ r.bytes \in Nat /\ lost \in Nat
      BY <1>4, <1>11
    <3> QED
      BY <1>5, <3>1, <3>3, <3>4
  <2>2. /\ Open <= s /\ Pending <= RowBytes(Keys)
        /\ RowBytes(Keys) <= Pending + (s - Open) * m
    BY <1>9 DEF BytesBounded, s
  <2>3. /\ Open' <= s /\ k <= l /\ k \in Nat /\ l \in Nat /\ (lost # 0 => k + 1 <= l)
        /\ RowBytes(Keys) <= Pending + k * m
    <3>1. Open \in {0, 1} /\ s \in Nat /\ Open' \in {0, 1}
      BY <1>11, <1>14
    <3>2. lost # 0 => Open = 1 /\ Open' = 0
      BY <1>4, <1>14
    <3>3. Open' <= Open /\ Open <= s
      BY <1>14, <2>2
    <3>4. /\ Open' <= s /\ s - Open <= s - Open' /\ s - Open \in Nat /\ s - Open' \in Nat
          /\ (Open = 1 /\ Open' = 0 => (s - Open) + 1 <= s - Open')
      <4> DEFINE o == Open
                 q == Open'
      <4>1. o \in {0, 1} /\ q \in {0, 1} /\ q <= o /\ o <= s /\ s \in Nat
        BY <3>1, <3>3
      <4> HIDE DEF o, q
      <4>2. q <= s /\ s - o <= s - q /\ s - o \in Nat /\ s - q \in Nat
            /\ (o = 1 /\ q = 0 => (s - o) + 1 <= s - q)
        BY <4>1
      <4> QED
        BY <4>2 DEF o, q
    <3> QED
      BY <2>2, <3>2, <3>4
  <2>4. Pending \in Nat /\ Pending' \in Nat /\ RowBytes(Keys) \in Nat /\ RowBytes(Keys)' = RowBytes(Keys)
    <3>1. Pending' = Total(accesses') + KeyBytes(buckets', Keys)
      BY DEF Pending
    <3> QED
      BY <1>11, <1>12, <3>1 DEF Pending
  <2> HIDE DEF k, l, m
  <2>5. Pending' + lost = Pending + 0 /\ RowBytes(Keys)' = RowBytes(Keys) + 0 /\ RowBytes(Keys)' \in Nat
    <3>1. Pending + 0 = Pending /\ RowBytes(Keys) + 0 = RowBytes(Keys)
      BY <2>4
    <3> QED
      BY <2>1, <2>4, <3>1
  <2>7. m \in Nat
    BY <1>11
  <2>6. Pending' <= RowBytes(Keys)' /\ RowBytes(Keys)' <= Pending' + l * m
    <3> DEFINE p == Pending
               q == Pending'
               a == RowBytes(Keys)
               b == RowBytes(Keys)'
    <3>1. /\ p \in Nat /\ q \in Nat /\ a \in Nat /\ b \in Nat /\ 0 \in Nat
          /\ p <= a /\ a <= p + k * m /\ q + lost = p + 0 /\ b = a + 0
          /\ k \in Nat /\ l \in Nat /\ k <= l /\ (lost # 0 => k + 1 <= l)
      BY <2>2, <2>3, <2>4, <2>5
    <3> HIDE DEF p, q, a, b
    <3>2. q <= b /\ b <= q + l * m
      BY <2>7, <3>1, Balanced
    <3> QED
      BY <3>2 DEF p, q, a, b
  <2> QED
    BY <1>13, <2>3, <2>6 DEF BytesBounded, l, m
<1>16. SlotsExact'
  <2> SUFFICES ASSUME NEW v \in DOMAIN Catalog, NEW op \in {"read", "write"}
               PROVE  BytesAt(accesses', To(accesses', v, op)) + KeyBytes(buckets', SlotKeys(v, op))
                        = RowBytes(SlotKeys(v, op))'
    BY DEF SlotsExact
  <2> DEFINE K == SlotKeys(v, op)
             a == BytesAt(accesses, To(accesses, v, op))
             d == IF KeyOf(r) \in K THEN r.bytes ELSE 0
  <2>1. /\ a + KeyBytes(buckets, K) = RowBytes(K) /\ a \in Nat /\ KeyBytes(buckets, K) \in Nat
        /\ d \in Nat /\ KeyBytes(buckets', K) \in Nat
    BY <1>9, <1>11 DEF SlotsExact
  <2>2. KeyBytes(buckets, K) = KeyBytes(buckets', K) + d /\ RowBytes(K)' = RowBytes(K)
    BY <1>3, <1>12
  <2>3. BytesAt(accesses', To(accesses', v, op)) = a + d
    BY <1>5, <1>10
  <2> HIDE DEF K, a, d
  <2>4. (a + d) + KeyBytes(buckets', K) = RowBytes(K)'
    BY <2>1, <2>2
  <2> QED
    BY <2>3, <2>4 DEF K
<1> QED
  BY <1>7, <1>8, <1>15, <1>16 DEF IngestInv, BooksOK

\* A core whose rows are all to come.
LEMMA CoreOpens ==
  ASSUME NEW i \in Inputs, NEW cores \in Seq(DOMAIN i.dma), cores # <<>>
  PROVE  FirstRows(i, cores) = i.dma[Head(cores)] /\ FirstRows(i, cores) \in Seq(RowSet)
<1>1. Head(cores) \in DOMAIN i.dma
  OBVIOUS
<1> QED
  BY <1>1, RowsOfCore DEF FirstRows

\* The books of a core balance before its first row.
LEMMA NothingRead ==
  ASSUME RowsRead = {}, accesses = <<>>, buckets = <<>>
  PROVE  BytesBounded /\ SlotsExact
<1>1. \A K : RowBytes(K) = 0
  <2>1. \A K : Keyed(AllRows, RowsRead, K) = {}
    BY DEF Keyed
  <2> QED
    BY <2>1, BytesNone DEF RowBytes
<1>2. \A K : KeyBytes(buckets, K) = 0
  <2>1. \A K : Keyed(buckets, DOMAIN buckets, K) = {}
    BY DEF Keyed
  <2> QED
    BY <2>1, BytesNone DEF KeyBytes
<1>3. Total(accesses) = 0 /\ \A v, op : BytesAt(accesses, To(accesses, v, op)) = 0
  <2>1. DOMAIN accesses = {} /\ \A v, op : To(accesses, v, op) = {}
    BY DEF To
  <2> QED
    BY <2>1, BytesNone DEF Total
<1>4. SpreadRows = {} /\ Open = 0
  BY DEF SpreadRows, Open, HasKey
<1>5. Cardinality(SpreadRows) = 0
  BY <1>4, FS_EmptySet
<1>6. 0 * (MinBytes - 1) = 0
  BY TargetsAre
<1>7. BytesBounded
  BY <1>1, <1>2, <1>3, <1>4, <1>5, <1>6 DEF BytesBounded, Pending
<1>8. SlotsExact
  BY <1>1, <1>2, <1>3 DEF SlotsExact
<1> QED
  BY <1>7, <1>8

\* The state when a core is opened, or when there is none left.
Fresh ==
  /\ input \in Inputs /\ todo \in Seq(DOMAIN input.dma) /\ rows = FirstRows(input, todo)
  /\ buckets = <<>> /\ accesses = <<>> /\ tensors = Catalog

\* Such a state satisfies the invariant.
LEMMA Opened == Fresh => IngestInv
<1> SUFFICES ASSUME Fresh PROVE IngestInv
  OBVIOUS
<1>0. /\ input \in Inputs /\ todo \in Seq(DOMAIN input.dma) /\ rows = FirstRows(input, todo)
      /\ buckets = <<>> /\ accesses = <<>> /\ tensors = Catalog
  BY DEF Fresh
<1> USE <1>0
<1>1. Working => /\ rows = AllRows /\ rows \in Seq(RowSet)
  <2> SUFFICES ASSUME Working PROVE rows = AllRows /\ rows \in Seq(RowSet)
    OBVIOUS
  <2> QED
    BY CoreOpens DEF Working, AllRows
<1>2. ~Working => rows = <<>>
  BY DEF Working, FirstRows
<1>3. BucketsOK(<<>>)
  BY DEF BucketsOK
<1>4. Catalog \in [DOMAIN Catalog -> Nat] /\ DOMAIN Catalog \subseteq Ids
  BY CatalogAssumption DEF Ids
<1>5. accesses \in Seq(AccessSet)
  OBVIOUS
<1>6. Working => /\ rows \in Seq(RowSet) /\ Len(rows) <= Len(AllRows)
                 /\ \A k \in 1..Len(rows) : rows[k] = AllRows[Len(AllRows) - Len(rows) + k]
  <2> SUFFICES ASSUME Working
               PROVE  /\ rows \in Seq(RowSet) /\ Len(rows) <= Len(AllRows)
                      /\ \A k \in 1..Len(rows) : rows[k] = AllRows[Len(AllRows) - Len(rows) + k]
    OBVIOUS
  <2>1. rows = AllRows /\ rows \in Seq(RowSet)
    BY <1>1
  <2>2. Len(rows) \in Nat /\ Len(AllRows) = Len(rows)
    BY <2>1
  <2>3. \A k \in 1..Len(rows) : Len(AllRows) - Len(rows) + k = k
    BY <2>2
  <2> QED
    BY <2>1, <2>2, <2>3
<1>7. IngestTypeOK
  BY <1>2, <1>3, <1>4, <1>5, <1>6 DEF IngestTypeOK
<1>8. Housed
  BY DEF Housed
<1>9. BooksOK
  <2> SUFFICES ASSUME Working PROVE BytesBounded /\ SlotsExact
    BY DEF BooksOK
  <2>1. Len(AllRows) - Len(rows) = 0
    <3>1. Len(rows) \in Nat /\ Len(AllRows) = Len(rows)
      BY <1>1
    <3> QED
      BY <3>1
  <2>2. RowsRead = {}
    BY <2>1 DEF RowsRead
  <2> QED
    BY <2>2, NothingRead
<1> QED
  BY <1>7, <1>8, <1>9 DEF IngestInv

------------------------------------------------------------------------------
(* Finished traces *)

KernelPlaces(list) == KernelsAmong(list, DOMAIN list)

KernelCount(list) == Cardinality(KernelPlaces(list))

\* u has only elements of list.
Within(u, list) == \A i \in DOMAIN u : \E j \in DOMAIN list : u[i] = list[j]

\* The positions of a sequence.
LEMMA SequenceIs ==
  ASSUME NEW X, NEW s \in Seq(X)
  PROVE  /\ Len(s) \in Nat /\ DOMAIN s = 1..Len(s) /\ IsFiniteSet(DOMAIN s)
         /\ Cardinality(DOMAIN s) = Len(s) /\ \A i \in DOMAIN s : s[i] \in X
<1>1. Len(s) \in Nat /\ DOMAIN s = 1..Len(s) /\ \A i \in DOMAIN s : s[i] \in X
  OBVIOUS
<1> DEFINE n == Len(s)
<1>2. n \in Nat
  BY <1>1
<1> HIDE DEF n
<1>3. IsFiniteSet(1..n) /\ Cardinality(1..n) = n
  <2>1. Cardinality(1..n) = IF 1 <= n THEN n - 1 + 1 ELSE 0
    BY <1>2, FS_Interval
  <2>2. (IF 1 <= n THEN n - 1 + 1 ELSE 0) = n
    BY <1>2
  <2> QED
    BY <1>2, <2>1, <2>2, UpToIsFinite
<1> QED
  BY <1>1, <1>3 DEF n

\* u has only the elements of s at S.
From(u, s, S) == \A k \in DOMAIN u : \E x \in S : u[k] = s[x]

\* A list of elements of a sequence is a sequence.
LEMMA ListedIs ==
  ASSUME NEW X, NEW s \in Seq(X), NEW S \in SUBSET DOMAIN s, NEW u, Lists(u, s, S)
  PROVE  /\ u \in Seq(X) /\ Len(u) = Cardinality(S) /\ IsFiniteSet(S) /\ Within(u, s)
         /\ KernelCount(u) = Cardinality(KernelsAmong(s, S))
         /\ From(u, s, S)
<1>1. IsFiniteSet(S) /\ \A x \in S : s[x] \in X
  BY SequenceIs, FS_Subset
<1>2. /\ Cardinality(S) \in Nat /\ DOMAIN u = 1..Cardinality(S)
      /\ u = [k \in 1..Cardinality(S) |-> u[k]]
      /\ \A k \in 1..Cardinality(S) : \E x \in S : u[k] = s[x]
      /\ Cardinality(KernelsAmong(u, 1..Cardinality(S))) = Cardinality(KernelsAmong(s, S))
  BY <1>1, ListTells
<1>3. \A k \in 1..Cardinality(S) : u[k] \in X
  BY <1>1, <1>2
<1>4. u \in Seq(X) /\ Len(u) = Cardinality(S)
  BY <1>2, <1>3, RowsAre
<1>5. KernelCount(u) = Cardinality(KernelsAmong(s, S))
  BY <1>2 DEF KernelCount, KernelPlaces
<1>6. Within(u, s)
  BY <1>2 DEF Within
<1> QED
  BY <1>1, <1>2, <1>4, <1>5, <1>6 DEF From

\* The positions that downsampling takes are positions of the list.
LEMMA StepIs ==
  ASSUME NEW n \in Nat, NEW room \in Nat \ {0}, room < n
  PROVE  LET step == IF n \div room = 0 THEN 1 ELSE n \div room
         IN  \A i \in 1..room : (i - 1) * step + 1 \in 1..n
<1> DEFINE q == n \div room
<1>1. q \in Nat /\ room * q <= n
  BY QuotientIs
<1>2. q # 0
  BY QuotientIs
<1> HIDE DEF q
<1>3. ASSUME NEW i \in 1..room PROVE (i - 1) * q + 1 \in 1..n
  <2>1. PICK d \in Nat : room = (i - 1) + (d + 1)
    <3>1. room - i \in Nat /\ room = (i - 1) + ((room - i) + 1)
      OBVIOUS
    <3> QED
      BY <3>1
  <2> DEFINE a == i - 1
  <2>2. a \in Nat /\ d + 1 \in Nat
    OBVIOUS
  <2> HIDE DEF a
  <2>3. q * (a + (d + 1)) = q * a + q * (d + 1) /\ q * (d + 1) = q * d + q * 1
    BY <1>1, <2>2, FactorIs
  <2>4. q * a \in Nat /\ q * d \in Nat /\ q * 1 = q
    BY <1>1, <2>2, ProductIs
  <2>5. room * q = q * (a + (d + 1)) /\ q * a = a * q
    BY <1>1, <2>1, <2>2 DEF a
  <2>6. a * q + 1 \in 1..n
    BY <1>1, <1>2, <2>3, <2>4, <2>5
  <2> QED
    BY <2>6 DEF a
<1> QED
  BY <1>2, <1>3 DEF q

\* u has only elements of s and t.
Mixed(u, s, t) ==
  \A i \in DOMAIN u : (\E j \in DOMAIN s : u[i] = s[j]) \/ \E j \in DOMAIN t : u[i] = t[j]

\* A list of kernel boundaries and then accesses.
LEMMA BoundariesFirst ==
  ASSUME NEW X, NEW s \in Seq(X), NEW t \in Seq(X),
         \A i \in DOMAIN s : IsKernel(s[i]), \A i \in DOMAIN t : IsAccess(t[i])
  PROVE  /\ KernelCount(s \o t) = Len(s) /\ s \o t \in Seq(X) /\ Len(s \o t) = Len(s) + Len(t)
         /\ Mixed(s \o t, s, t)
<1> DEFINE u == s \o t
           n == Len(s)
           m == Len(t)
<1>1. /\ u \in Seq(X) /\ DOMAIN u = 1..(n + m)
      /\ n \in Nat /\ m \in Nat /\ DOMAIN s = 1..n /\ DOMAIN t = 1..m
      /\ \A i \in 1..n : u[i] = s[i]
      /\ \A i \in 1..(n + m) : i \notin 1..n => i - n \in 1..m /\ u[i] = t[i - n]
  BY JoinedIs
<1>2. Len(u) = n + m
  OBVIOUS
<1>3. Cardinality(DOMAIN s) = n
  BY SequenceIs
<1> HIDE DEF u, n, m
<1>4. \A i \in 1..n : i \in 1..(n + m)
  BY <1>1
<1>5. KernelPlaces(u) = DOMAIN s
  <2>1. \A i \in 1..n : IsKernel(u[i])
    BY <1>1
  <2>2. \A i \in 1..(n + m) : i \notin 1..n => ~IsKernel(u[i])
    BY <1>1 DEF IsKernel, IsAccess
  <2> QED
    BY <1>1, <1>4, <2>1, <2>2 DEF KernelPlaces, KernelsAmong
<1>6. \A i \in DOMAIN u : (\E j \in DOMAIN s : u[i] = s[j]) \/ \E j \in DOMAIN t : u[i] = t[j]
  BY <1>1
<1> QED
  BY <1>1, <1>2, <1>3, <1>5, <1>6 DEF KernelCount, Mixed, u, n, m

\* Downsampling a list beyond the limit keeps the boundaries and fills up the limit.
LEMMA DownsampledIs ==
  ASSUME NEW X, NEW s \in Seq(X), NEW limit \in Nat, limit < Len(s), KernelCount(s) < limit
  PROVE  /\ Downsampled(s, limit) \in Seq(X) /\ Len(Downsampled(s, limit)) = limit
         /\ KernelCount(Downsampled(s, limit)) = KernelCount(s)
         /\ Within(Downsampled(s, limit), s)
<1> DEFINE KS == KernelPlaces(s)
           RS == {i \in DOMAIN s : IsAccess(s[i])}
           kernels == KernelsOf(s)
           reads == AccessesOf(s)
           room == limit - Len(kernels)
           step == IF Len(reads) \div room = 0 THEN 1 ELSE Len(reads) \div room
           sampled == [i \in 1..room |-> reads[(i - 1) * step + 1]]
<1>1. /\ Len(s) \in Nat /\ DOMAIN s = 1..Len(s) /\ IsFiniteSet(DOMAIN s)
      /\ Cardinality(DOMAIN s) = Len(s) /\ \A i \in DOMAIN s : s[i] \in X
  BY SequenceIs
<1>2. /\ KS \subseteq DOMAIN s /\ RS \subseteq DOMAIN s /\ RS = DOMAIN s \ KS
      /\ \A i \in KS : IsKernel(s[i])
      /\ \A i \in RS : IsAccess(s[i])
  BY DEF KernelPlaces, KernelsAmong, IsKernel, IsAccess
<1>3. IsFiniteSet(KS) /\ IsFiniteSet(RS) /\ KS \in SUBSET Int /\ RS \in SUBSET Int
  <2>1. KS \in SUBSET Int /\ RS \in SUBSET Int
    BY <1>1, <1>2
  <2> QED
    BY <1>1, <1>2, <2>1, FS_Subset
<1>4. Lists(kernels, s, KS) /\ Lists(reads, s, RS)
  <2>1. kernels = Sublist(s, KS) /\ reads = Sublist(s, RS)
    BY DEF KernelsOf, AccessesOf, KernelPlaces, KernelsAmong
  <2> HIDE DEF kernels, reads, KS, RS
  <2> QED
    BY <1>3, <2>1, SublistIs
<1> HIDE DEF KS, RS, kernels, reads
<1>5. /\ kernels \in Seq(X) /\ Len(kernels) = Cardinality(KS)
      /\ \A k \in DOMAIN kernels : \E x \in KS : kernels[k] = s[x]
  <2>1. KS \in SUBSET DOMAIN s /\ Lists(kernels, s, KS)
    BY <1>2, <1>4
  <2>2. kernels \in Seq(X) /\ Len(kernels) = Cardinality(KS) /\ From(kernels, s, KS)
    BY <2>1, ListedIs
  <2> QED
    BY <2>2 DEF From
<1>6. /\ reads \in Seq(X) /\ Len(reads) = Cardinality(RS)
      /\ \A k \in DOMAIN reads : \E x \in RS : reads[k] = s[x]
  <2>1. RS \in SUBSET DOMAIN s /\ Lists(reads, s, RS)
    BY <1>2, <1>4
  <2>2. reads \in Seq(X) /\ Len(reads) = Cardinality(RS) /\ From(reads, s, RS)
    BY <2>1, ListedIs
  <2> QED
    BY <2>2 DEF From
<1>7. Cardinality(RS) = Len(s) - Cardinality(KS) /\ Cardinality(KS) \in Nat /\ Cardinality(RS) \in Nat
  <2>1. KS \cap DOMAIN s = KS /\ DOMAIN s \cap KS = KS
    BY <1>2
  <2>2. Cardinality(DOMAIN s \ KS) = Cardinality(DOMAIN s) - Cardinality(DOMAIN s \cap KS)
    BY <1>1, FS_Difference
  <2> QED
    BY <1>1, <1>2, <1>3, <2>1, <2>2, FS_CardinalityType
<1>8. KernelCount(s) = Cardinality(KS)
  BY DEF KernelCount, KS
<1>9. room \in Nat \ {0} /\ room < Len(reads) /\ Len(kernels) + room = limit
      /\ Len(reads) \in Nat /\ DOMAIN reads = 1..Len(reads)
  <2>1. Len(reads) \in Nat /\ DOMAIN reads = 1..Len(reads)
    BY <1>6
  <2> QED
    BY <1>1, <1>5, <1>6, <1>7, <1>8, <2>1
<1> HIDE DEF room
<1>10. \A i \in 1..room : (i - 1) * step + 1 \in 1..Len(reads)
  BY <1>9, StepIs
<1> HIDE DEF step
<1>11. /\ DOMAIN sampled = 1..room /\ sampled = [i \in 1..room |-> sampled[i]]
       /\ \A i \in 1..room : \E x \in RS : sampled[i] = s[x]
  BY <1>6, <1>9, <1>10
<1> HIDE DEF sampled
<1>12. \A i \in 1..room : sampled[i] \in X /\ IsAccess(sampled[i])
  BY <1>1, <1>2, <1>11
<1>13. sampled \in Seq(X) /\ Len(sampled) = room
  BY <1>9, <1>11, <1>12, RowsAre
<1>14. \A k \in DOMAIN kernels : IsKernel(kernels[k])
  BY <1>2, <1>5
<1>15. Downsampled(s, limit) = kernels \o sampled
  BY <1>9 DEF Downsampled, kernels, reads, room, step, sampled
<1>16. /\ KernelCount(kernels \o sampled) = Len(kernels) /\ kernels \o sampled \in Seq(X)
       /\ Len(kernels \o sampled) = Len(kernels) + Len(sampled)
       /\ Mixed(kernels \o sampled, kernels, sampled)
  BY <1>5, <1>11, <1>12, <1>13, <1>14, BoundariesFirst
<1> DEFINE u == kernels \o sampled
<1> HIDE DEF u
<1>17. Within(u, s)
  <2>1. \A k \in DOMAIN kernels : \E x \in DOMAIN s : kernels[k] = s[x]
    BY <1>2, <1>5
  <2>2. \A k \in DOMAIN sampled : \E x \in DOMAIN s : sampled[k] = s[x]
    BY <1>2, <1>11
  <2> QED
    BY <1>16, <2>1, <2>2 DEF Within, Mixed, u
<1>18. Len(u) = limit /\ KernelCount(u) = KernelCount(s) /\ u \in Seq(X)
  BY <1>5, <1>8, <1>9, <1>13, <1>16 DEF u
<1> QED
  BY <1>15, <1>17, <1>18 DEF u

\* The cap keeps the boundaries and is used up.
LEMMA CappedIs ==
  ASSUME NEW X, NEW s \in Seq(X), NEW limit \in Nat, Cap # 0 => KernelCount(s) < limit
  PROVE  /\ Capped(s, limit) \in Seq(X)
         /\ KernelCount(Capped(s, limit)) = KernelCount(s)
         /\ Within(Capped(s, limit), s)
         /\ Len(Capped(s, limit)) = IF Cap # 0 /\ Len(s) > limit THEN limit ELSE Len(s)
<1>1. CASE Cap # 0 /\ Len(s) > limit
  <2>1. Capped(s, limit) = Downsampled(s, limit)
    BY <1>1 DEF Capped
  <2>2. limit < Len(s)
    BY <1>1
  <2> QED
    BY <1>1, <2>1, <2>2, DownsampledIs
<1>2. CASE ~(Cap # 0 /\ Len(s) > limit)
  <2>1. Capped(s, limit) = s
    BY <1>2 DEF Capped
  <2>2. Within(s, s)
    BY DEF Within
  <2> QED
    BY <1>2, <2>1, <2>2
<1> QED
  BY <1>1, <1>2

------------------------------------------------------------------------------
(* The order of events *)

\* Positions in the order of their numbers.
Positions(S) == InOrder(S, Ascending(S))

Increasing(g, n) == \A k, l \in 1..n : k < l => g[k] < g[l]

\* The positions of a set are listed in increasing order.
LEMMA PositionsAre ==
  ASSUME NEW S \in SUBSET Int, IsFiniteSet(S)
  PROVE  /\ Cardinality(S) \in Nat /\ DOMAIN Positions(S) = 1..Cardinality(S)
         /\ Renames(Positions(S), 1..Cardinality(S), S)
         /\ Increasing(Positions(S), Cardinality(S))
<1> DEFINE g == Positions(S)
           n == Cardinality(S)
<1>1. StrictOrder(S, Ascending(S)) /\ \A x, y \in S : <<x, y>> \in Ascending(S) <=> x < y
  BY AscendingIs DEF Ascending
<1>2. /\ n \in Nat /\ g \in [1..n -> S]
      /\ \A k, l \in 1..n : g[k] = g[l] => k = l
      /\ \A x \in S : \E k \in 1..n : g[k] = x
      /\ \A k, l \in 1..n : k < l => <<g[k], g[l]>> \in Ascending(S)
  BY <1>1, OrderIs DEF Positions
<1> HIDE DEF g, n
<1>3. \A k \in 1..n : g[k] \in S
  BY <1>2
<1>4. Increasing(g, n)
  BY <1>1, <1>2, <1>3 DEF Increasing
<1>5. DOMAIN g = 1..n /\ Renames(g, 1..n, S)
  BY <1>2 DEF Renames
<1> QED
  BY <1>2, <1>4, <1>5 DEF g, n

\* An increasing list has as many numbers as places.
LEMMA IncreasingCounts ==
  ASSUME NEW n \in Nat, NEW g, \A k \in 1..n : g[k] \in Int, Increasing(g, n)
  PROVE  IsFiniteSet({g[k] : k \in 1..n}) /\ Cardinality({g[k] : k \in 1..n}) = n
<1> DEFINE S == {g[k] : k \in 1..n}
           h == [k \in 1..n |-> g[k]]
<1>1. \A k, l \in 1..n : g[k] = g[l] => k = l
  <2> SUFFICES ASSUME NEW k \in 1..n, NEW l \in 1..n, g[k] = g[l] PROVE k = l
    OBVIOUS
  <2>1. g[k] \in Int /\ g[l] \in Int /\ ~(k < l) /\ ~(l < k)
    BY DEF Increasing
  <2> QED
    BY <2>1
<1>2. h \in Surjection(1..n, S)
  BY DEF Surjection
<1>3. h \in Injection(1..n, S)
  BY <1>1 DEF Injection, IsInjective
<1>4. IsFiniteSet(1..n) /\ Cardinality(1..n) = n
  <2>1. Cardinality(1..n) = IF 1 <= n THEN n - 1 + 1 ELSE 0
    BY FS_Interval
  <2>2. (IF 1 <= n THEN n - 1 + 1 ELSE 0) = n
    OBVIOUS
  <2> QED
    BY <2>1, <2>2, UpToIsFinite
<1>5. IsFiniteSet(S) /\ (Cardinality(S) = Cardinality(1..n) <=> h \in Injection(1..n, S))
  <2> HIDE DEF h, S
  <2> QED
    BY <1>2, <1>4, FS_Surjection
<1> QED
  BY <1>3, <1>4, <1>5

\* An increasing list of numbers is the one of its set.
LEMMA PositionsUnique ==
  ASSUME NEW n \in Nat, NEW g, g \in [1..n -> Int], Increasing(g, n),
         NEW S, S = {g[k] : k \in 1..n}
  PROVE  IsFiniteSet(S) /\ S \in SUBSET Int /\ Cardinality(S) = n /\ Positions(S) = g
<1>1. S \in SUBSET Int /\ \A k \in 1..n : g[k] \in S /\ g[k] \in Int
  OBVIOUS
<1>2. IsFiniteSet(S) /\ Cardinality(S) = n
  BY IncreasingCounts
<1> DEFINE order == Ascending(S)
           Rank(x) == Cardinality(Earlier(S, order, x))
<1>3. StrictOrder(S, order) /\ \A x, y \in S : <<x, y>> \in order <=> x < y
  BY <1>1, AscendingIs DEF Ascending
<1>4. \A x, y \in S : Rank(x) = Rank(y) => x = y
  <2> HIDE DEF order
  <2> QED
    BY <1>2, <1>3, RanksAre
<1>5. ASSUME NEW k \in 1..n PROVE Rank(g[k]) = k - 1
  <2> DEFINE m == k - 1
  <2>1. m \in Nat /\ 1..m \subseteq 1..n /\ \A j \in 1..m : j < k
    OBVIOUS
  <2>2. \A j \in 1..n : j \notin 1..m => ~(g[j] < g[k])
    <3> SUFFICES ASSUME NEW j \in 1..n, j \notin 1..m, g[j] < g[k] PROVE FALSE
      OBVIOUS
    <3>1. j = k \/ k < j
      OBVIOUS
    <3>2. g[j] \in Int /\ g[k] \in Int
      BY <1>1
    <3> QED
      BY <3>1, <3>2 DEF Increasing
  <2>3. Earlier(S, order, g[k]) = {x \in S : x < g[k]}
    <3> HIDE DEF order
    <3> QED
      BY <1>1, <1>3 DEF Earlier
  <2> HIDE DEF m
  <2>4. {x \in S : x < g[k]} = {g[j] : j \in 1..m}
    <3>1. \A j \in 1..m : j \in 1..n /\ g[j] < g[k]
      BY <2>1 DEF Increasing
    <3> QED
      BY <1>1, <2>2, <3>1
  <2>5. Increasing(g, m) /\ \A j \in 1..m : g[j] \in Int
    BY <1>1, <2>1 DEF Increasing
  <2>6. Cardinality({g[j] : j \in 1..m}) = m
    BY <2>1, <2>5, IncreasingCounts
  <2> QED
    BY <2>3, <2>4, <2>6 DEF m
<1>6. ASSUME NEW k \in 1..n PROVE Positions(S)[k] = g[k]
  <2>1. Positions(S)[k] = CHOOSE x \in S : Rank(x) = k - 1
    BY <1>2 DEF Positions, InOrder, Earlier
  <2> HIDE DEF Rank
  <2>2. g[k] \in S /\ Rank(g[k]) = k - 1
    BY <1>1, <1>5
  <2> QED
    BY <1>4, <2>1, <2>2
<1>7. DOMAIN Positions(S) = 1..n /\ Positions(S) = [k \in 1..n |-> Positions(S)[k]]
  <2>1. Positions(S) \in [1..n -> S]
    BY <1>1, <1>2, PositionsAre DEF Renames
  <2> QED
    BY <2>1
<1>8. Positions(S) = g
  <2> DEFINE f == Positions(S)
  <2>1. f = [k \in 1..n |-> f[k]] /\ \A k \in 1..n : f[k] = g[k]
    BY <1>6, <1>7
  <2> HIDE DEF f
  <2>2. f = [k \in 1..n |-> g[k]]
    BY <2>1
  <2> QED
    BY <2>2 DEF f
<1> QED
  BY <1>1, <1>2, <1>8

\* The events of s by time, and of one time in the order of s.
LEMMA ByTimeAt ==
  ASSUME NEW X, NEW s \in Seq(X), \A i \in 1..Len(s) : s[i].at \in Int
  PROVE  \E at :
           /\ Renames(at, 1..Len(s), 1..Len(s))
           /\ ByTime(s) = [k \in 1..Len(s) |-> s[at[k]]]
           /\ \A k, l \in 1..Len(s) :
                k < l => s[at[k]].at < s[at[l]].at \/ (s[at[k]].at = s[at[l]].at /\ at[k] < at[l])
<1> DEFINE D == DOMAIN s
           order == Ascending(D)
           n == Len(s)
<1>1. n \in Nat /\ D = 1..n /\ IsFiniteSet(D) /\ Cardinality(D) = n
  BY SequenceIs
<1>2. ByTime(s) = Sorted(s, order)
  BY DEF ByTime
<1> HIDE DEF n
<1>3. D \in SUBSET Int
  BY <1>1
<1>4. StrictOrder(D, order) /\ \A x, y \in D : <<x, y>> \in order <=> x < y
  <2> HIDE DEF D
  <2> QED
    BY <1>3, AscendingIs DEF Ascending
<1> HIDE DEF order
<1>5. \A i \in D : s[i].at \in Int
  BY <1>1 DEF n
<1>6. PICK at :
        /\ Renames(at, 1..n, D)
        /\ Sorted(s, order) = [k \in 1..n |-> s[at[k]]]
        /\ \A k, l \in 1..n : k < l => Precedes(s, order, at[k], at[l])
  BY <1>1, <1>4, <1>5, SortedAt
<1>7. \A k \in 1..n : at[k] \in D
  BY <1>6 DEF Renames
<1>8. \A k, l \in 1..n :
        k < l => s[at[k]].at < s[at[l]].at \/ (s[at[k]].at = s[at[l]].at /\ at[k] < at[l])
  <2> HIDE DEF D
  <2> QED
    BY <1>4, <1>6, <1>7 DEF Precedes
<1>9. Renames(at, 1..n, 1..n)
  BY <1>1, <1>6
<1> QED
  BY <1>2, <1>6, <1>8, <1>9 DEF n

\* The cap takes events in order, except that boundaries may move before accesses.
Thinned(u, s, at) ==
  /\ at \in [1..Len(u) -> 1..Len(s)]
  /\ \A i \in 1..Len(u) : u[i] = s[at[i]]
  /\ \A i, j \in 1..Len(u) : i < j => at[i] < at[j] \/ (at[i] # at[j] /\ IsKernel(u[i]) /\ IsAccess(u[j]))
  /\ \A x \in 1..Len(s) : IsKernel(s[x]) => \E i \in 1..Len(u) : at[i] = x

\* Downsampling takes the boundaries, and then every so many of the accesses.
LEMMA DownsampledAt ==
  ASSUME NEW X, NEW s \in Seq(X), NEW limit \in Nat, limit < Len(s), KernelCount(s) < limit
  PROVE  \E at : Thinned(Downsampled(s, limit), s, at)
<1> DEFINE KS == {i \in DOMAIN s : IsKernel(s[i])}
           RS == {i \in DOMAIN s : IsAccess(s[i])}
           kernels == KernelsOf(s)
           reads == AccessesOf(s)
           k0 == Len(kernels)
           room == limit - Len(kernels)
           step == IF Len(reads) \div room = 0 THEN 1 ELSE Len(reads) \div room
           sampled == [i \in 1..room |-> reads[(i - 1) * step + 1]]
           gk == Positions(KS)
           gr == Positions(RS)
           at == [i \in 1..limit |-> IF i <= k0 THEN gk[i] ELSE gr[(i - k0 - 1) * step + 1]]
<1>1. /\ Len(s) \in Nat /\ DOMAIN s = 1..Len(s) /\ IsFiniteSet(DOMAIN s)
      /\ Cardinality(DOMAIN s) = Len(s)
  BY SequenceIs
<1>2. /\ KS \subseteq DOMAIN s /\ RS \subseteq DOMAIN s /\ RS = DOMAIN s \ KS
      /\ \A i \in KS : IsKernel(s[i])
      /\ \A i \in RS : IsAccess(s[i])
      /\ \A i \in DOMAIN s : IsKernel(s[i]) => i \in KS
  BY DEF IsKernel, IsAccess
<1>3. IsFiniteSet(KS) /\ IsFiniteSet(RS) /\ KS \in SUBSET Int /\ RS \in SUBSET Int
  <2>1. KS \in SUBSET Int /\ RS \in SUBSET Int
    BY <1>1, <1>2
  <2> QED
    BY <1>1, <1>2, <2>1, FS_Subset
<1>4. /\ kernels = [k \in DOMAIN gk |-> s[gk[k]]] /\ reads = [k \in DOMAIN gr |-> s[gr[k]]]
      /\ KernelCount(s) = Cardinality(KS)
  BY DEF KernelsOf, AccessesOf, Sublist, Positions, KernelCount, KernelPlaces, KernelsAmong
<1> HIDE DEF KS, RS, gk, gr
<1> DEFINE nk == Cardinality(KS)
           nr == Cardinality(RS)
<1>5. /\ nk \in Nat /\ DOMAIN gk = 1..nk /\ Renames(gk, 1..nk, KS) /\ Increasing(gk, nk)
      /\ nr \in Nat /\ DOMAIN gr = 1..nr /\ Renames(gr, 1..nr, RS) /\ Increasing(gr, nr)
  BY <1>3, PositionsAre DEF gk, gr
<1>6. nr = Len(s) - nk
  <2>1. DOMAIN s \cap KS = KS
    BY <1>2
  <2>2. Cardinality(DOMAIN s \ KS) = Cardinality(DOMAIN s) - Cardinality(DOMAIN s \cap KS)
    BY <1>1, FS_Difference
  <2> QED
    BY <1>1, <1>2, <2>1, <2>2
<1> HIDE DEF nk, nr, kernels, reads
<1>7. kernels \in Seq(X) /\ Len(kernels) = nk /\ reads \in Seq(X) /\ Len(reads) = nr
  <2>1. /\ \A k \in 1..nk : gk[k] \in DOMAIN s
        /\ \A k \in 1..nr : gr[k] \in DOMAIN s
    BY <1>2, <1>5 DEF Renames
  <2>2. /\ DOMAIN kernels = 1..nk /\ kernels = [k \in 1..nk |-> kernels[k]]
        /\ \A k \in 1..nk : kernels[k] \in X
    BY <1>1, <1>4, <1>5, <2>1
  <2>3. /\ DOMAIN reads = 1..nr /\ reads = [k \in 1..nr |-> reads[k]]
        /\ \A k \in 1..nr : reads[k] \in X
    BY <1>1, <1>4, <1>5, <2>1
  <2>4. kernels \in Seq(X) /\ Len(kernels) = nk
    BY <1>5, <2>2, RowsAre
  <2> QED
    BY <1>5, <2>3, <2>4, RowsAre
<1>8. k0 = nk /\ room \in Nat \ {0} /\ room < nr /\ limit = nk + room
  <2>1. KernelCount(s) = nk
    BY <1>4 DEF nk
  <2> QED
    BY <1>1, <1>5, <1>6, <1>7, <2>1
<1>9. Downsampled(s, limit) = kernels \o sampled
  <2>1. Downsampled(s, limit) = IF Len(reads) <= room THEN kernels \o reads ELSE kernels \o sampled
    BY DEF Downsampled, kernels, reads
  <2>2. ~(Len(reads) <= room)
    BY <1>5, <1>7, <1>8
  <2> QED
    BY <2>1, <2>2
<1> HIDE DEF room, k0
<1>10. \A i \in 1..room : (i - 1) * step + 1 \in 1..nr
  BY <1>5, <1>7, <1>8, StepIs
<1>11. step \in Nat \ {0}
  <2>1. nr \div room \in Nat
    BY <1>5, <1>8, QuotientIs
  <2> QED
    BY <1>7, <2>1
<1> HIDE DEF step
<1> DEFINE t == [i \in 1..room |-> (i - 1) * step + 1]
<1>12. \A i \in 1..room : t[i] = (i - 1) * step + 1 /\ t[i] \in 1..nr
  BY <1>10
<1>13. Increasing(t, room)
  <2> SUFFICES ASSUME NEW i \in 1..room, NEW j \in 1..room, i < j PROVE t[i] < t[j]
    BY DEF Increasing
  <2> DEFINE a == i - 1
             b == j - i - 1
  <2>1. a \in Nat /\ b \in Nat /\ j - 1 = a + (b + 1) /\ b + 1 \in Nat
    BY <1>8
  <2> HIDE DEF a, b
  <2>2. step * (a + (b + 1)) = step * a + step * (b + 1) /\ step * (b + 1) = step * b + step * 1
    BY <1>11, <2>1, FactorIs
  <2>3. step * a \in Nat /\ step * b \in Nat /\ step * 1 = step
    BY <1>11, <2>1, ProductIs
  <2>4. t[i] = a * step + 1 /\ t[j] = (a + (b + 1)) * step + 1
    BY <1>12, <2>1 DEF a
  <2>5. a * step = step * a /\ (a + (b + 1)) * step = step * (a + (b + 1))
    BY <1>11, <2>1
  <2> QED
    BY <1>11, <2>2, <2>3, <2>4, <2>5
<1>14. at = [i \in 1..limit |-> IF i <= nk THEN gk[i] ELSE gr[t[i - nk]]]
  <2>1. \A i \in 1..limit : ~(i <= nk) => i - nk \in 1..room /\ t[i - nk] = (i - nk - 1) * step + 1
    BY <1>5, <1>8
  <2> QED
    BY <1>8, <2>1
<1>15. sampled = [i \in 1..room |-> reads[t[i]]]
  OBVIOUS
<1> HIDE DEF t, at, sampled
<1> DEFINE u == kernels \o sampled
<1>16. /\ Len(u) = limit
       /\ \A i \in 1..limit : i <= nk => i \in 1..nk /\ u[i] = kernels[i]
       /\ \A i \in 1..limit : ~(i <= nk) => i - nk \in 1..room /\ u[i] = sampled[i - nk]
  <2>1. sampled \in Seq(X) /\ Len(sampled) = room
    <3>1. \A i \in 1..room : reads[t[i]] \in X
      BY <1>7, <1>12
    <3>2. /\ DOMAIN sampled = 1..room /\ sampled = [i \in 1..room |-> sampled[i]]
          /\ \A i \in 1..room : sampled[i] \in X
      BY <1>15, <3>1
    <3> QED
      BY <1>8, <3>2, RowsAre
  <2> HIDE DEF u
  <2>2. /\ \A i \in 1..nk : u[i] = kernels[i]
        /\ \A i \in 1..(nk + room) : i \notin 1..nk => i - nk \in 1..room /\ u[i] = sampled[i - nk]
    <3>1. kernels \in Seq(X) /\ Len(kernels) = nk
      BY <1>7
    <3>2. /\ \A i \in 1..Len(kernels) : (kernels \o sampled)[i] = kernels[i]
          /\ \A i \in 1..(Len(kernels) + Len(sampled)) :
               i \notin 1..Len(kernels) =>
                 /\ i - Len(kernels) \in 1..Len(sampled)
                 /\ (kernels \o sampled)[i] = sampled[i - Len(kernels)]
      BY <2>1, <3>1, JoinedIs
    <3> QED
      BY <2>1, <3>1, <3>2 DEF u
  <2>3. nk \in Nat /\ room \in Nat
    BY <1>5, <1>8
  <2>4. Len(u) = nk + room
    <3>1. kernels \in Seq(X) /\ Len(kernels) = nk
      BY <1>7
    <3>2. Len(kernels \o sampled) = Len(kernels) + Len(sampled)
      BY <2>1, <3>1
    <3> QED
      BY <2>1, <2>3, <3>1, <3>2 DEF u
  <2> QED
    BY <1>8, <2>2, <2>4
<1> HIDE DEF u
<1>17. /\ \A i \in 1..nk : kernels[i] = s[gk[i]] /\ gk[i] \in KS
       /\ \A i \in 1..nr : reads[i] = s[gr[i]] /\ gr[i] \in RS
  BY <1>4, <1>5 DEF Renames
<1>18. ASSUME NEW i \in 1..limit
       PROVE  /\ i <= nk => i \in 1..nk /\ at[i] = gk[i] /\ at[i] \in KS /\ u[i] = s[at[i]]
              /\ ~(i <= nk) => /\ i - nk \in 1..room /\ t[i - nk] \in 1..nr
                               /\ at[i] = gr[t[i - nk]] /\ at[i] \in RS /\ u[i] = s[at[i]]
  <2>1. CASE i <= nk
    BY <1>14, <1>16, <1>17, <2>1
  <2>2. CASE ~(i <= nk)
    BY <1>12, <1>14, <1>15, <1>16, <1>17, <2>2
  <2> QED
    BY <2>1, <2>2
<1>19. /\ at \in [1..limit -> 1..Len(s)] /\ \A i \in 1..limit : u[i] = s[at[i]]
  <2>1. \A i \in 1..limit : at[i] \in 1..Len(s) /\ u[i] = s[at[i]]
    BY <1>1, <1>2, <1>18
  <2>2. at = [i \in 1..limit |-> at[i]]
    BY <1>14
  <2> QED
    BY <2>1, <2>2
<1>20. ASSUME NEW i \in 1..limit, NEW j \in 1..limit, i < j
       PROVE  at[i] < at[j] \/ (at[i] # at[j] /\ IsKernel(u[i]) /\ IsAccess(u[j]))
  <2>1. CASE j <= nk
    <3>1. i <= nk
      BY <1>5, <1>20, <2>1
    <3> QED
      BY <1>5, <1>18, <1>20, <2>1, <3>1 DEF Increasing
  <2>2. CASE i <= nk /\ ~(j <= nk)
    <3>1. at[i] \in KS /\ u[i] = s[at[i]] /\ at[j] \in RS /\ u[j] = s[at[j]]
      BY <1>18, <2>2
    <3>2. IsKernel(u[i]) /\ IsAccess(u[j])
      BY <1>2, <3>1
    <3>3. at[i] # at[j]
      BY <1>2, <3>1
    <3> QED
      BY <3>2, <3>3
  <2>3. CASE ~(i <= nk) /\ ~(j <= nk)
    <3>1. i - nk \in 1..room /\ j - nk \in 1..room
      BY <1>18, <2>3
    <3>2. i - nk < j - nk
      BY <1>5, <1>20
    <3>3. t[i - nk] < t[j - nk]
      BY <1>13, <3>1, <3>2 DEF Increasing
    <3> QED
      BY <1>5, <1>18, <2>3, <3>3 DEF Increasing
  <2> QED
    BY <1>5, <1>20, <2>1, <2>2, <2>3
<1>21. ASSUME NEW x \in 1..Len(s), IsKernel(s[x]) PROVE \E i \in 1..limit : at[i] = x
  <2>1. x \in KS
    BY <1>1, <1>2, <1>21
  <2>2. PICK i \in 1..nk : gk[i] = x
    BY <1>5, <2>1 DEF Renames
  <2>3. i \in 1..limit /\ i <= nk
    BY <1>5, <1>8
  <2> QED
    BY <1>18, <2>2, <2>3
<1>22. Thinned(u, s, at)
  BY <1>16, <1>19, <1>20, <1>21 DEF Thinned
<1> QED
  BY <1>9, <1>22 DEF u

\* The kernel boundaries precede the accesses.
KernelsFirst(s) == \A i, j \in 1..Len(s) : IsKernel(s[i]) /\ IsAccess(s[j]) => i < j

\* The cap takes events in order, except that boundaries may move before accesses.
LEMMA CappedAt ==
  ASSUME NEW X, NEW s \in Seq(X), NEW limit \in Nat, Cap # 0 => KernelCount(s) < limit
  PROVE  \E at : Thinned(Capped(s, limit), s, at)
<1>1. CASE Cap # 0 /\ Len(s) > limit
  <2>1. Capped(s, limit) = Downsampled(s, limit)
    BY <1>1 DEF Capped
  <2>2. limit < Len(s)
    BY <1>1
  <2> QED
    BY <1>1, <2>1, <2>2, DownsampledAt
<1>2. CASE ~(Cap # 0 /\ Len(s) > limit)
  <2>1. Capped(s, limit) = s
    BY <1>2 DEF Capped
  <2> DEFINE at == [i \in 1..Len(s) |-> i]
  <2>2. Len(s) \in Nat /\ \A i \in 1..Len(s) : at[i] = i
    OBVIOUS
  <2>3. at \in [1..Len(s) -> 1..Len(s)]
    OBVIOUS
  <2> HIDE DEF at
  <2>4. Thinned(s, s, at)
    BY <2>2, <2>3 DEF Thinned
  <2> QED
    BY <2>1, <2>4
<1> QED
  BY <1>1, <1>2

\* Boundaries stay before the accesses when the cap takes events.
LEMMA FirstKept ==
  ASSUME NEW s, NEW u, Len(s) \in Nat, Len(u) \in Nat, KernelsFirst(s),
         NEW at, Thinned(u, s, at)
  PROVE  KernelsFirst(u)
<1> SUFFICES ASSUME NEW i \in 1..Len(u), NEW j \in 1..Len(u), IsKernel(u[i]), IsAccess(u[j]), ~(i < j)
             PROVE  FALSE
  BY DEF KernelsFirst
<1>1. at[i] \in 1..Len(s) /\ at[j] \in 1..Len(s) /\ u[i] = s[at[i]] /\ u[j] = s[at[j]]
  BY DEF Thinned
<1>2. at[i] < at[j]
  BY <1>1 DEF KernelsFirst
<1>3. i # j /\ ~IsKernel(u[j])
  BY DEF IsKernel, IsAccess
<1>4. j < i
  BY <1>3
<1>5. at[j] < at[i]
  BY <1>3, <1>4 DEF Thinned
<1> QED
  BY <1>1, <1>2, <1>5

\* A list of boundaries and then accesses has the boundaries first.
LEMMA FirstOf ==
  ASSUME NEW X, NEW s \in Seq(X), NEW t \in Seq(X),
         \A i \in DOMAIN s : IsKernel(s[i]), \A i \in DOMAIN t : IsAccess(t[i])
  PROVE  KernelsFirst(s \o t)
<1> DEFINE u == s \o t
           n == Len(s)
           m == Len(t)
<1>1. /\ u \in Seq(X) /\ DOMAIN u = 1..(n + m)
      /\ n \in Nat /\ m \in Nat /\ DOMAIN s = 1..n /\ DOMAIN t = 1..m
      /\ \A i \in 1..n : u[i] = s[i]
      /\ \A i \in 1..(n + m) : i \notin 1..n => i - n \in 1..m /\ u[i] = t[i - n]
  BY JoinedIs
<1>2. Len(u) = n + m
  OBVIOUS
<1> HIDE DEF u, n, m
<1>3. \A i \in 1..n : ~IsAccess(u[i])
  BY <1>1 DEF IsKernel, IsAccess
<1>4. \A i \in 1..(n + m) : i \notin 1..n => ~IsKernel(u[i])
  BY <1>1 DEF IsKernel, IsAccess
<1>5. ASSUME NEW i \in 1..Len(u), NEW j \in 1..Len(u), IsKernel(u[i]), IsAccess(u[j]) PROVE i < j
  <2>1. i \in 1..n /\ j \notin 1..n
    BY <1>2, <1>3, <1>4, <1>5
  <2> QED
    BY <1>1, <1>2, <2>1
<1> QED
  BY <1>5 DEF KernelsFirst, u

------------------------------------------------------------------------------
(* What FinishCore makes *)

KernelSet ==
  [type : {"kernel_start", "kernel_end"}, at : Int, core : {NoCore}, kernel : {NoCore} \X Nat]

EventSet == AccessSet \cup KernelSet

Records == [id : {NoCore} \X Ids, bytes : Nat, core : {NoCore}]

Houses(records, e) == \E r \in records : r.id = e.tensor /\ r.bytes >= e.bytes

\* What a core's trace is once it is finished.
TraceGood(tr, c) ==
  /\ tr \in [tensors : SUBSET Records, events : Seq(EventSet)]
  /\ KernelCount(tr.events) = Kernels(c) /\ KernelsFirst(tr.events)
  /\ \A i \in DOMAIN tr.events : IsAccess(tr.events[i]) => Houses(tr.tensors, tr.events[i])

\* A sequence over a set is one over a larger set.
LEMMA WiderIs ==
  ASSUME NEW A, NEW B, A \subseteq B, NEW s \in Seq(A)
  PROVE  s \in Seq(B) /\ \A i \in DOMAIN s : s[i] \in A
OBVIOUS

\* An event is an access or a kernel boundary.
LEMMA EventIs ==
  ASSUME NEW e \in EventSet
  PROVE  /\ e.at \in Int
         /\ IsAccess(e) => e \in AccessSet
         /\ IsKernel(e) => e \in KernelSet
BY DEF EventSet, AccessSet, KernelSet, IsAccess, IsKernel

\* The cores of a profile.
LEMMA CoresAre ==
  ASSUME NEW i \in Inputs
  PROVE  /\ DOMAIN i.dma # {} /\ DOMAIN i.dma \subseteq Int /\ IsFiniteSet(DOMAIN i.dma)
         /\ NoCore \notin DOMAIN i.dma /\ Cardinality(DOMAIN i.dma) \in Nat \ {0}
         /\ \A c \in DOMAIN i.dma : Kernels(c) \in Nat
<1>1. /\ DOMAIN i.dma # {} /\ DOMAIN i.dma \subseteq Int /\ IsFiniteSet(DOMAIN i.dma)
      /\ NoCore \notin DOMAIN i.dma
  BY InputsAssumption
<1>2. Cardinality(DOMAIN i.dma) \in Nat /\ Cardinality(DOMAIN i.dma) # 0
  BY <1>1, FS_CardinalityType, FS_EmptySet
<1>3. \A c \in DOMAIN i.dma : Len(Layers[c]) \in Nat
  BY RowsOfCore
<1>4. \A c \in DOMAIN i.dma : Kernels(c) \in Nat
  BY <1>3 DEF Kernels
<1> QED
  BY <1>1, <1>2, <1>4

\* A core has two boundaries for every layer.
LEMMA KernelEventsAre ==
  ASSUME NEW i \in Inputs, NEW c \in DOMAIN i.dma
  PROVE  /\ KernelEvents(c) \in Seq(KernelSet) /\ Len(KernelEvents(c)) = Kernels(c)
         /\ \A j \in DOMAIN KernelEvents(c) : IsKernel(KernelEvents(c)[j])
<1> DEFINE n == Len(Layers[c])
           u == KernelEvents(c)
<1>1. n \in Nat /\ \A k \in 1..n : Layers[c][k].start \in Int /\ Layers[c][k].end \in Int
  BY RowsOfCore
<1>2. Kernels(c) = 2 * n /\ 2 * n \in Nat
  BY <1>1 DEF Kernels
<1>3. ASSUME NEW j \in 1..(2 * n) PROVE u[j] \in KernelSet
  <2> DEFINE idx == (j + 1) \div 2
             layer == Layers[c][idx]
  <2>1. u[j] = [type |-> IF j % 2 = 1 THEN "kernel_start" ELSE "kernel_end",
                at |-> IF j % 2 = 1 THEN layer.start ELSE layer.end,
                core |-> NoCore, kernel |-> <<NoCore, idx>>]
    BY <1>2 DEF KernelEvents
  <2>2. idx \in 1..n /\ idx \in Nat
    BY <1>1
  <2>3. layer.start \in Int /\ layer.end \in Int
    BY <1>1, <2>2
  <2> HIDE DEF idx, layer, u
  <2> QED
    BY <2>1, <2>2, <2>3 DEF KernelSet
<1>4. DOMAIN u = 1..(2 * n) /\ u = [j \in 1..(2 * n) |-> u[j]]
  BY <1>2 DEF KernelEvents
<1> HIDE DEF u, n
<1> DEFINE m == 2 * n
<1>5. m \in Nat /\ DOMAIN u = 1..m /\ u = [j \in 1..m |-> u[j]] /\ \A j \in 1..m : u[j] \in KernelSet
  BY <1>2, <1>3, <1>4
<1> HIDE DEF m
<1>6. u \in Seq(KernelSet) /\ Len(u) = m
  BY <1>5, RowsAre
<1>7. \A j \in 1..m : IsKernel(u[j])
  BY <1>5 DEF KernelSet, IsKernel
<1> QED
  BY <1>2, <1>5, <1>6, <1>7 DEF u, m

\* Sorting by time keeps the accesses.
LEMMA ByTimeIs ==
  ASSUME NEW s \in Seq(AccessSet)
  PROVE  ByTime(s) \in Seq(AccessSet) /\ Within(ByTime(s), s)
<1>1. DOMAIN s \in SUBSET Int /\ IsFiniteSet(DOMAIN s) /\ \A i \in DOMAIN s : s[i] \in AccessSet
  BY SequenceIs
<1>2. \A i \in DOMAIN s : s[i].at \in Int
  BY <1>1, AccessFields
<1> DEFINE D == DOMAIN s
<1>3. StrictOrder(D, Ascending(D))
  <2> HIDE DEF D
  <2>1. D \in SUBSET Int
    BY <1>1 DEF D
  <2> QED
    BY <2>1, AscendingIs
<1>4. Lists(Sorted(s, Ascending(D)), s, D)
  BY <1>1, <1>2, <1>3, SortedIs
<1>5. Lists(ByTime(s), s, D) /\ D \in SUBSET DOMAIN s
  BY <1>4 DEF ByTime
<1> HIDE DEF D
<1> QED
  BY <1>5, ListedIs

\* The trace that FinishCore makes.
LEMMA FinishedIs ==
  ASSUME IngestInv, Working,
         NEW tr, tr = [tensors |-> {[id |-> <<NoCore, t>>, bytes |-> tensors[t], core |-> NoCore] :
                                      t \in DOMAIN tensors},
                       events |-> Capped(KernelEvents(Head(todo)) \o ByTime(accesses), CoreCap)]
  PROVE  TraceGood(tr, Head(todo))
<1> DEFINE c == Head(todo)
           ks == KernelEvents(c)
           as == ByTime(accesses)
           records == {[id |-> <<NoCore, t>>, bytes |-> tensors[t], core |-> NoCore] :
                         t \in DOMAIN tensors}
<1>1. /\ IngestTypeOK /\ Housed /\ input \in Inputs /\ accesses \in Seq(AccessSet)
      /\ tensors \in [DOMAIN tensors -> Nat] /\ DOMAIN tensors \subseteq Ids
  BY DEF IngestInv, IngestTypeOK
<1>2. c \in DOMAIN input.dma
  BY <1>1, AtWork
<1> HIDE DEF c
<1>3. /\ ks \in Seq(KernelSet) /\ Len(ks) = Kernels(c) /\ Kernels(c) \in Nat
      /\ \A j \in DOMAIN ks : IsKernel(ks[j])
  BY <1>1, <1>2, KernelEventsAre, CoresAre
<1>4. as \in Seq(AccessSet) /\ Within(as, accesses)
  BY <1>1, ByTimeIs
<1> HIDE DEF ks, as
<1>5. ks \in Seq(EventSet) /\ as \in Seq(EventSet) /\ \A j \in DOMAIN as : as[j] \in AccessSet
  <2>1. KernelSet \subseteq EventSet /\ AccessSet \subseteq EventSet
    BY DEF EventSet
  <2> QED
    BY <1>3, <1>4, <2>1, WiderIs
<1>6. \A j \in DOMAIN as : IsAccess(as[j])
  BY <1>5 DEF AccessSet, IsAccess
<1> DEFINE whole == ks \o as
<1>7. /\ KernelCount(whole) = Kernels(c) /\ whole \in Seq(EventSet) /\ Mixed(whole, ks, as)
  BY <1>3, <1>5, <1>6, BoundariesFirst
<1>71. KernelsFirst(whole)
  BY <1>3, <1>5, <1>6, FirstOf
<1> HIDE DEF whole
<1>8. CoreCap \in Nat /\ (Cap # 0 => Kernels(c) < CoreCap)
  <2>1. Cap \in Nat /\ CapFloor \in Nat /\ (Cap # 0 => Kernels(c) < CapFloor)
    BY <1>1, <1>2, CapAssumption
  <2>2. Cardinality(DOMAIN input.dma) \in Nat \ {0}
    BY <1>1, CoresAre
  <2>3. Cap \div Cardinality(DOMAIN input.dma) \in Nat
    BY <2>1, <2>2, QuotientIs
  <2> DEFINE share == Cap \div Cardinality(DOMAIN input.dma)
  <2>4. CoreCap = IF share > CapFloor THEN share ELSE CapFloor
    BY DEF CoreCap
  <2>5. share \in Nat
    BY <2>3
  <2> HIDE DEF share
  <2> QED
    BY <1>3, <2>1, <2>4, <2>5
<1> DEFINE kept == Capped(whole, CoreCap)
<1>9. kept \in Seq(EventSet) /\ KernelCount(kept) = Kernels(c) /\ Within(kept, whole)
  BY <1>7, <1>8, CappedIs
<1>91. KernelsFirst(kept)
  <2>1. PICK at : Thinned(kept, whole, at)
    BY <1>7, <1>8, CappedAt
  <2>2. Len(whole) \in Nat /\ Len(kept) \in Nat
    BY <1>7, <1>9
  <2> HIDE DEF kept
  <2> QED
    BY <1>71, <2>1, <2>2, FirstKept
<1> HIDE DEF kept
<1>10. tr = [tensors |-> records, events |-> kept]
  BY DEF kept, whole, ks, as, c
<1>11. records \in SUBSET Records
  BY <1>1 DEF Records
<1>12. ASSUME NEW i \in DOMAIN kept, IsAccess(kept[i]) PROVE Houses(records, kept[i])
  <2>1. PICK j \in DOMAIN whole : kept[i] = whole[j]
    BY <1>9 DEF Within
  <2>2. \A k \in DOMAIN ks : ~IsAccess(ks[k])
    BY <1>3 DEF IsAccess, IsKernel
  <2>3. PICK k \in DOMAIN as : whole[j] = as[k]
    BY <1>7, <1>12, <2>1, <2>2 DEF Mixed
  <2>4. PICK l \in DOMAIN accesses : as[k] = accesses[l]
    BY <1>4 DEF Within
  <2>5. /\ HasRoom(tensors, accesses[l].tensor[2], accesses[l].bytes) /\ accesses[l].bytes \in Nat
        /\ accesses[l].tensor = <<NoCore, accesses[l].tensor[2]>>
    <3>1. accesses[l] \in AccessSet
      BY <1>1
    <3> QED
      BY <1>1, <3>1, AccessFields DEF Housed
  <2> DEFINE t == accesses[l].tensor[2]
             r == [id |-> <<NoCore, t>>, bytes |-> tensors[t], core |-> NoCore]
  <2>6. r \in records /\ r.id = accesses[l].tensor /\ r.bytes >= accesses[l].bytes
    <3>1. t \in DOMAIN tensors /\ accesses[l].bytes <= tensors[t] /\ tensors[t] \in Nat
      BY <1>1, <2>5 DEF HasRoom
    <3> QED
      BY <2>5, <3>1
  <2> HIDE DEF r, records
  <2> QED
    BY <2>1, <2>3, <2>4, <2>6 DEF Houses
<1> HIDE DEF records
<1>13. TraceGood(tr, c)
  <2>1. tr.tensors = records /\ tr.events = kept
    BY <1>10
  <2>2. tr \in [tensors : SUBSET Records, events : Seq(EventSet)]
    BY <1>9, <1>10, <1>11
  <2> QED
    BY <1>9, <1>91, <1>12, <2>1, <2>2 DEF TraceGood
<1> QED
  BY <1>13 DEF c

------------------------------------------------------------------------------
(* The merged trace *)

\* An event on a core has the core's id, and its tensor's or its kernel's id has it too.
LEMMA OnCoreIs ==
  ASSUME NEW e \in EventSet, NEW c
  PROVE  /\ OnCore(e, c).at = e.at /\ OnCore(e, c).core = c
         /\ IsAccess(OnCore(e, c)) <=> IsAccess(e)
         /\ IsAccess(e) => OnCore(e, c).tensor = <<c, e.tensor[2]>> /\ OnCore(e, c).bytes = e.bytes
         /\ ~IsAccess(e) => OnCore(e, c).kernel[1] = c
<1>1. CASE IsAccess(e)
  <2>1. e \in [type : {"access"}, at : Int, core : ProfiledCores, tensor : {NoCore} \X Ids,
               op : {"read", "write"}, target : {"sbuf", "hbm"}, bytes : Nat]
    BY <1>1, EventIs DEF AccessSet
  <2>2. OnCore(e, c) = [e EXCEPT !.tensor[1] = c, !.core = c]
    BY <1>1 DEF OnCore
  <2> DEFINE f == [e EXCEPT !.tensor[1] = c, !.core = c]
  <2>3. f.at = e.at /\ f.core = c /\ f.type = e.type /\ f.bytes = e.bytes
    BY <2>1
  <2>4. f.tensor = <<c, e.tensor[2]>>
    BY <2>1
  <2> HIDE DEF f
  <2> QED
    BY <1>1, <2>2, <2>3, <2>4 DEF f, IsAccess
<1>2. CASE ~IsAccess(e)
  <2>1. e \in [type : {"kernel_start", "kernel_end"}, at : Int, core : {NoCore},
               kernel : {NoCore} \X Nat]
    BY <1>2, EventIs DEF IsAccess, IsKernel, KernelSet
  <2>2. OnCore(e, c) = [e EXCEPT !.kernel[1] = c, !.core = c]
    BY <1>2 DEF OnCore
  <2> DEFINE f == [e EXCEPT !.kernel[1] = c, !.core = c]
  <2>3. f.at = e.at /\ f.core = c /\ f.type = e.type
    BY <2>1
  <2>4. f.kernel[1] = c
    BY <2>1
  <2> HIDE DEF f
  <2> QED
    BY <1>2, <2>2, <2>3, <2>4 DEF f, IsAccess
<1> QED
  BY <1>1, <1>2

TracesDone == /\ input \in Inputs /\ DOMAIN traces = DOMAIN input.dma
              /\ \A c \in DOMAIN traces : TraceGood(traces[c], c)

Lengths == [c \in DOMAIN traces |-> Len(traces[c].events)]

Boundaries == [c \in DOMAIN traces |-> Kernels(c)]

\* The trace of a finished core.
LEMMA TraceIs ==
  ASSUME TracesDone, NEW c \in DOMAIN traces
  PROVE  /\ traces[c].events \in Seq(EventSet) /\ traces[c].tensors \in SUBSET Records
         /\ traces[c] = [tensors |-> traces[c].tensors, events |-> traces[c].events]
         /\ DOMAIN traces[c].events = 1..Len(traces[c].events)
         /\ IsFiniteSet(DOMAIN traces[c].events)
         /\ Cardinality(DOMAIN traces[c].events) = Len(traces[c].events)
         /\ Len(traces[c].events) \in Nat
         /\ KernelCount(traces[c].events) = Kernels(c) /\ KernelsFirst(traces[c].events)
         /\ \A k \in DOMAIN traces[c].events :
              /\ traces[c].events[k] \in EventSet
              /\ IsAccess(traces[c].events[k]) => Houses(traces[c].tensors, traces[c].events[k])
<1> DEFINE tr == traces[c]
<1>1. TraceGood(tr, c)
  BY DEF TracesDone
<1> HIDE DEF tr
<1>2. tr \in [tensors : SUBSET Records, events : Seq(EventSet)]
  BY <1>1 DEF TraceGood
<1>3. /\ tr.events \in Seq(EventSet) /\ tr.tensors \in SUBSET Records
      /\ tr = [tensors |-> tr.tensors, events |-> tr.events]
  BY <1>2
<1> DEFINE s == tr.events
<1> HIDE DEF s
<1>4. s \in Seq(EventSet)
  BY <1>3 DEF s
<1>5. /\ Len(s) \in Nat /\ DOMAIN s = 1..Len(s) /\ IsFiniteSet(DOMAIN s)
      /\ Cardinality(DOMAIN s) = Len(s) /\ \A i \in DOMAIN s : s[i] \in EventSet
  BY <1>4, SequenceIs
<1> QED
  BY <1>1, <1>3, <1>4, <1>5 DEF TraceGood, s, tr

\* The cores' events have as many places, which CoreByCore orders.
LEMMA PlacesAre ==
  ASSUME TracesDone
  PROVE  /\ IsFiniteSet(Places) /\ Cardinality(Places) = SumFunctionOnSet(Lengths, DOMAIN traces)
         /\ StrictOrder(Places, CoreByCore)
         /\ \A p \in Places : p[1] \in DOMAIN traces /\ p[2] \in DOMAIN traces[p[1]].events
<1> DEFINE C == DOMAIN traces
           D == [c \in C |-> DOMAIN traces[c].events]
<1>1. IsFiniteSet(C) /\ C \subseteq Int
  BY CoresAre DEF TracesDone
<1>2. \A c \in C : IsFiniteSet(D[c]) /\ Lengths[c] = Cardinality(D[c]) /\ D[c] \subseteq Nat
  BY TraceIs DEF Lengths
<1>3. Places = UNION {{c} \X D[c] : c \in C}
  BY DEF Places
<1>4. \A p : p \in Places <=> \E c \in C : \E k \in D[c] : p = <<c, k>>
  <2> HIDE DEF C, D
  <2> QED
    BY <1>3
<1>5. IsFiniteSet(Places) /\ Cardinality(Places) = SumFunctionOnSet(Lengths, C)
  <2> HIDE DEF C, D
  <2>1. /\ IsFiniteSet(UNION {{c} \X D[c] : c \in C})
        /\ Cardinality(UNION {{c} \X D[c] : c \in C}) = SumFunctionOnSet(Lengths, C)
    BY <1>1, <1>2, CountFamily
  <2> QED
    BY <1>3, <2>1
<1>6. \A p \in Places : p = <<p[1], p[2]>> /\ p[1] \in Int /\ p[2] \in Int
                          /\ p[1] \in C /\ p[2] \in D[p[1]]
  <2> SUFFICES ASSUME NEW p \in Places
               PROVE  p = <<p[1], p[2]>> /\ p[1] \in Int /\ p[2] \in Int /\ p[1] \in C /\ p[2] \in D[p[1]]
    OBVIOUS
  <2> HIDE DEF C, D
  <2>1. PICK c \in C : \E k \in D[c] : p = <<c, k>>
    BY <1>4
  <2>2. PICK k \in D[c] : p = <<c, k>>
    BY <2>1
  <2>3. c \in Int /\ k \in Int
    BY <1>1, <1>2
  <2> QED
    BY <2>2, <2>3
<1>7. \A p, q \in Places :
        <<p, q>> \in CoreByCore <=> p[1] < q[1] \/ (p[1] = q[1] /\ p[2] < q[2])
  BY DEF CoreByCore
<1>8. StrictOrder(Places, CoreByCore)
  <2> DEFINE P == Places
             order == CoreByCore
  <2>1. /\ \A p \in P : p = <<p[1], p[2]>> /\ p[1] \in Int /\ p[2] \in Int
        /\ \A p, q \in P : <<p, q>> \in order <=> p[1] < q[1] \/ (p[1] = q[1] /\ p[2] < q[2])
    BY <1>6, <1>7
  <2> HIDE DEF P, order
  <2>2. ASSUME NEW p \in P PROVE <<p, p>> \notin order
    BY <2>1
  <2>3. ASSUME NEW p \in P, NEW q \in P, p # q PROVE <<p, q>> \in order \/ <<q, p>> \in order
    <3>1. p[1] # q[1] \/ p[2] # q[2]
      BY <2>1, <2>3
    <3>2. p[1] \in Int /\ p[2] \in Int /\ q[1] \in Int /\ q[2] \in Int
      BY <2>1
    <3> QED
      BY <2>1, <3>1, <3>2
  <2>4. ASSUME NEW p \in P, NEW q \in P, NEW r \in P, <<p, q>> \in order, <<q, r>> \in order
        PROVE  <<p, r>> \in order
    <3>1. /\ p[1] \in Int /\ p[2] \in Int /\ q[1] \in Int /\ q[2] \in Int
          /\ r[1] \in Int /\ r[2] \in Int
      BY <2>1
    <3>2. /\ p[1] < q[1] \/ (p[1] = q[1] /\ p[2] < q[2])
          /\ q[1] < r[1] \/ (q[1] = r[1] /\ q[2] < r[2])
      BY <2>1, <2>4
    <3>3. p[1] < r[1] \/ (p[1] = r[1] /\ p[2] < r[2])
      BY <3>1, <3>2
    <3> QED
      BY <2>1, <3>3
  <2>5. StrictOrder(P, order)
    BY <2>2, <2>3, <2>4 DEF StrictOrder
  <2> QED
    BY <2>5 DEF P, order
<1> QED
  BY <1>5, <1>6, <1>8

\* What AccessesFindTensors says of an event.
Fits(e, records, merged) ==
  IF IsAccess(e)
  THEN \E r \in records : r.id = e.tensor /\ r.bytes >= e.bytes /\ (merged => r.core = e.core)
  ELSE merged => e.core = e.kernel[1] /\ e.core # NoCore

Several == Cardinality(DOMAIN input.dma) > 1

\* What holds of the merged trace.
MergedOK(m) ==
  /\ m = [tensors |-> m.tensors, events |-> m.events]
  /\ \E X : m.events \in Seq(X)
  /\ Len(m.events) = SumFunctionOnSet(Lengths, DOMAIN traces)
  /\ KernelCount(m.events) = SumFunctionOnSet(Boundaries, DOMAIN traces)
  /\ \A i \in DOMAIN m.events : Fits(m.events[i], m.tensors, Several)

\* The trace of a single core.
LEMMA OneCore ==
  ASSUME TracesDone, Cardinality(DOMAIN traces) = 1
  PROVE  MergedOK(Merged)
<1> DEFINE c == CHOOSE d \in DOMAIN traces : TRUE
           tr == traces[c]
<1>1. PICK x : DOMAIN traces = {x}
  <2>1. IsFiniteSet(DOMAIN traces)
    BY CoresAre DEF TracesDone
  <2> QED
    BY <2>1, FS_Singleton
<1>2. c = x /\ c \in DOMAIN traces
  BY <1>1
<1>3. Merged = tr
  BY DEF Merged
<1> HIDE DEF c
<1>4. /\ tr.events \in Seq(EventSet) /\ tr = [tensors |-> tr.tensors, events |-> tr.events]
      /\ KernelCount(tr.events) = Kernels(c) /\ Len(tr.events) \in Nat
      /\ \A k \in DOMAIN tr.events :
           IsAccess(tr.events[k]) => Houses(tr.tensors, tr.events[k])
  BY <1>2, TraceIs
<1>5. ~Several
  BY DEF Several, TracesDone
<1>6. \A i \in DOMAIN tr.events : Fits(tr.events[i], tr.tensors, Several)
  BY <1>4, <1>5 DEF Fits, Houses
<1>7. SumFunctionOnSet(Lengths, DOMAIN traces) = Len(tr.events)
  <2>1. Lengths[c] = Len(tr.events) /\ Lengths[c] \in Int /\ DOMAIN traces = {c}
    BY <1>1, <1>2, <1>4 DEF Lengths
  <2> HIDE DEF tr
  <2> QED
    BY <2>1, SumSingle
<1>8. SumFunctionOnSet(Boundaries, DOMAIN traces) = Kernels(c)
  <2>1. Boundaries[c] = Kernels(c) /\ Boundaries[c] \in Int /\ DOMAIN traces = {c}
    <3>1. c \in DOMAIN input.dma /\ input \in Inputs
      BY <1>2 DEF TracesDone
    <3>2. Kernels(c) \in Nat
      BY <3>1, CoresAre
    <3> QED
      BY <1>1, <1>2, <3>2 DEF Boundaries
  <2> QED
    BY <2>1, SumSingle
<1> HIDE DEF tr
<1>9. \E X : tr.events \in Seq(X)
  BY <1>4
<1> QED
  BY <1>3, <1>4, <1>6, <1>7, <1>8, <1>9 DEF MergedOK

\* A record of core c, with its id made unique.
LEMMA RecordIs ==
  ASSUME NEW r \in Records, NEW c
  PROVE  LET s == [r EXCEPT !.id[1] = c, !.core = c]
         IN  s.id = <<c, r.id[2]>> /\ s.bytes = r.bytes /\ s.core = c
<1>1. r \in [id : {NoCore} \X Ids, bytes : Nat, core : {NoCore}]
  BY DEF Records
<1> DEFINE s == [r EXCEPT !.id[1] = c, !.core = c]
<1>2. s.bytes = r.bytes /\ s.core = c
  BY <1>1
<1>3. s.id = <<c, r.id[2]>>
  BY <1>1
<1> QED
  BY <1>2, <1>3

\* The records of core c in the chip's trace.
RecordsOf(c) == {[r EXCEPT !.id[1] = c, !.core = c] : r \in traces[c].tensors}

\* The merged trace of several cores.
LEMMA SeveralCores ==
  ASSUME TracesDone, Cardinality(DOMAIN traces) # 1
  PROVE  MergedOK(Merged)
<1> DEFINE C == DOMAIN traces
           P == Places
           f == [p \in P |-> OnCore(traces[p[1]].events[p[2]], p[1])]
           records == UNION {RecordsOf(c) : c \in C}
           u == Sorted(f, CoreByCore)
           K == [c \in C |-> KernelPlaces(traces[c].events)]
<1>1. Merged = [tensors |-> records, events |-> u]
  BY DEF Merged, RecordsOf
<1>2. /\ IsFiniteSet(P) /\ Cardinality(P) = SumFunctionOnSet(Lengths, C)
      /\ StrictOrder(P, CoreByCore)
      /\ \A p \in P : p[1] \in C /\ p[2] \in DOMAIN traces[p[1]].events
  BY PlacesAre
<1>3. ASSUME NEW p \in P
      PROVE  /\ f[p].at \in Int
             /\ IsKernel(f[p]) <=> IsKernel(traces[p[1]].events[p[2]])
             /\ Fits(f[p], records, Several)
  <2> DEFINE c == p[1]
             e == traces[c].events[p[2]]
  <2>1. c \in C /\ e \in EventSet /\ (IsAccess(e) => Houses(traces[c].tensors, e))
        /\ traces[c].tensors \in SUBSET Records
    BY <1>2, TraceIs
  <2>2. f[p] = OnCore(e, c)
    OBVIOUS
  <2> HIDE DEF e, c, f, records
  <2>3. /\ f[p].at = e.at /\ f[p].core = c
        /\ IsAccess(f[p]) <=> IsAccess(e)
        /\ IsAccess(e) => f[p].tensor = <<c, e.tensor[2]>> /\ f[p].bytes = e.bytes
        /\ ~IsAccess(e) => f[p].kernel[1] = c
    BY <2>1, <2>2, OnCoreIs
  <2>4. e.at \in Int
    BY <2>1, EventIs
  <2>5. IsKernel(f[p]) <=> IsKernel(e)
    BY <2>3 DEF IsKernel, IsAccess
  <2>6. Fits(f[p], records, Several)
    <3>1. CASE IsAccess(e)
      <4>1. PICK r \in traces[c].tensors : r.id = e.tensor /\ r.bytes >= e.bytes
        BY <2>1, <3>1 DEF Houses
      <4> DEFINE s == [r EXCEPT !.id[1] = c, !.core = c]
      <4>2. s \in records
        <5>1. c \in DOMAIN traces
          BY <2>1
        <5> HIDE DEF c
        <5>2. s \in RecordsOf(c)
          BY <4>1, Zenon DEF RecordsOf
        <5> HIDE DEF s
        <5> QED
          BY <5>1, <5>2, Zenon DEF records
      <4>3. r \in Records
        BY <2>1
      <4>4. s.id = <<c, r.id[2]>> /\ s.bytes = r.bytes /\ s.core = c
        BY <4>3, RecordIs
      <4> HIDE DEF s
      <4>5. s.id = f[p].tensor /\ s.bytes >= f[p].bytes /\ s.core = f[p].core
        BY <2>3, <3>1, <4>1, <4>4
      <4> QED
        BY <2>3, <3>1, <4>2, <4>5 DEF Fits
    <3>2. CASE ~IsAccess(e)
      <4>1. c # NoCore
        BY <2>1, CoresAre DEF TracesDone
      <4> QED
        BY <2>3, <3>2, <4>1 DEF Fits
    <3> QED
      BY <3>1, <3>2
  <2> QED
    BY <2>3, <2>4, <2>5, <2>6 DEF e, c
<1>4. DOMAIN f = P
  OBVIOUS
<1>5. Lists(u, f, P)
  <2> HIDE DEF f, P
  <2> QED
    BY <1>2, <1>3, <1>4, SortedIs
<1>6. K = [c \in C |-> K[c]] /\ \A c \in C : IsFiniteSet(K[c]) /\ Boundaries[c] = Cardinality(K[c])
  <2> SUFFICES ASSUME NEW c \in C PROVE IsFiniteSet(K[c]) /\ Boundaries[c] = Cardinality(K[c])
    OBVIOUS
  <2>1. IsFiniteSet(DOMAIN traces[c].events) /\ KernelCount(traces[c].events) = Kernels(c)
    BY TraceIs
  <2>2. K[c] = KernelPlaces(traces[c].events) /\ K[c] \subseteq DOMAIN traces[c].events
    BY DEF KernelPlaces, KernelsAmong
  <2>3. IsFiniteSet(K[c])
    BY <2>1, <2>2, FS_Subset
  <2> QED
    BY <2>1, <2>2, <2>3 DEF KernelCount, Boundaries
<1>7. KernelsAmong(f, P) = UNION {{c} \X K[c] : c \in C}
  <2>1. \A p : p \in P <=> \E c \in C : \E k \in DOMAIN traces[c].events : p = <<c, k>>
    BY DEF Places
  <2>2. ASSUME NEW c \in C, NEW k \in DOMAIN traces[c].events
        PROVE  IsKernel(f[<<c, k>>]) <=> k \in K[c]
    <3> DEFINE p == <<c, k>>
    <3>1. p \in P /\ p[1] = c /\ p[2] = k
      BY <2>1
    <3>2. k \in K[c] <=> IsKernel(traces[c].events[k])
      BY DEF KernelPlaces, KernelsAmong
    <3> HIDE DEF P, f, p, K
    <3>3. IsKernel(f[p]) <=> IsKernel(traces[p[1]].events[p[2]])
      BY <1>3, <3>1
    <3> QED
      BY <3>1, <3>2, <3>3 DEF p
  <2>3. \A c \in C : K[c] \subseteq DOMAIN traces[c].events
    BY DEF KernelPlaces, KernelsAmong
  <2> HIDE DEF P, f, K, C
  <2>4. ASSUME NEW p PROVE p \in KernelsAmong(f, P) <=> \E c \in C : \E k \in K[c] : p = <<c, k>>
    BY <2>1, <2>2, <2>3 DEF KernelsAmong
  <2>5. ASSUME NEW p
        PROVE  p \in UNION {{c} \X K[c] : c \in C} <=> \E c \in C : \E k \in K[c] : p = <<c, k>>
    OBVIOUS
  <2> QED
    BY <2>4, <2>5
<1>8. Cardinality(KernelsAmong(f, P)) = SumFunctionOnSet(Boundaries, C)
  <2>1. IsFiniteSet(C)
    BY CoresAre DEF TracesDone
  <2> HIDE DEF P, f, K, C
  <2>2. Cardinality(UNION {{c} \X K[c] : c \in C}) = SumFunctionOnSet(Boundaries, C)
    BY <1>6, <2>1, CountFamily
  <2> QED
    BY <1>7, <2>2
<1> HIDE DEF u, f, P, K
<1>9. /\ Cardinality(P) \in Nat /\ DOMAIN u = 1..Cardinality(P) /\ u = [k \in 1..Cardinality(P) |-> u[k]]
      /\ \A k \in 1..Cardinality(P) : \E x \in P : u[k] = f[x]
      /\ Cardinality(KernelsAmong(u, 1..Cardinality(P))) = Cardinality(KernelsAmong(f, P))
  BY <1>2, <1>5, ListTells
<1> DEFINE X == {f[p] : p \in P}
<1>10. u \in Seq(X) /\ Len(u) = Cardinality(P)
  <2>1. \A k \in 1..Cardinality(P) : u[k] \in X
    BY <1>9
  <2> HIDE DEF X
  <2> QED
    BY <1>9, <2>1, RowsAre
<1>11. KernelCount(u) = SumFunctionOnSet(Boundaries, C)
  BY <1>8, <1>9 DEF KernelCount, KernelPlaces
<1>12. \A i \in DOMAIN u : Fits(u[i], records, Several)
  <2> HIDE DEF records
  <2> QED
    BY <1>3, <1>9
<1> HIDE DEF records, X
<1>13. \E Y : u \in Seq(Y)
  BY <1>10
<1> QED
  BY <1>1, <1>2, <1>10, <1>11, <1>12, <1>13 DEF MergedOK

------------------------------------------------------------------------------
(* The order of the merged trace *)

\* The event at a place of the cores' traces.
EventAt(p) == traces[p[1]].events[p[2]]

\* Each event of u is the one at its place, on its core.
Placed(u, place, n) ==
  /\ n \in Nat /\ DOMAIN u = 1..n /\ place \in [1..n -> Places]
  /\ \A k, l \in 1..n : place[k] = place[l] => k = l
  /\ \A k \in 1..n : u[k] = OnCore(EventAt(place[k]), place[k][1])

AllBoundaries(place, n) == \A p \in Places : IsKernel(EventAt(p)) => \E k \in 1..n : place[k] = p

\* Of one core, the earlier events are those that its trace has first by time.
EarlierFirst(place, n) ==
  \A k, l \in 1..n :
    k < l /\ place[k][1] = place[l][1] =>
      \/ EventAt(place[k]).at < EventAt(place[l]).at
      \/ EventAt(place[k]).at = EventAt(place[l]).at /\ place[k][2] < place[l][2]

\* What a place and its event are.
LEMMA PlaceIs ==
  ASSUME TracesDone, NEW p \in Places
  PROVE  /\ p[1] \in DOMAIN traces /\ p[2] \in 1..Len(traces[p[1]].events) /\ p[2] \in Int
         /\ EventAt(p) \in EventSet /\ EventAt(p).at \in Int
         /\ OnCore(EventAt(p), p[1]).at = EventAt(p).at /\ OnCore(EventAt(p), p[1]).core = p[1]
         /\ IsKernel(OnCore(EventAt(p), p[1])) <=> IsKernel(EventAt(p))
         /\ IsAccess(OnCore(EventAt(p), p[1])) <=> IsAccess(EventAt(p))
<1> DEFINE c == p[1]
<1>1. c \in DOMAIN traces /\ p[2] \in DOMAIN traces[c].events
  BY PlacesAre
<1> HIDE DEF c
<1>2. /\ DOMAIN traces[c].events = 1..Len(traces[c].events) /\ Len(traces[c].events) \in Nat
      /\ traces[c].events[p[2]] \in EventSet
  BY <1>1, TraceIs
<1>3. EventAt(p) \in EventSet /\ EventAt(p).at \in Int
  BY <1>2, EventIs DEF EventAt, c
<1>4. /\ OnCore(EventAt(p), c).at = EventAt(p).at /\ OnCore(EventAt(p), c).core = c
      /\ IsAccess(OnCore(EventAt(p), c)) <=> IsAccess(EventAt(p))
  BY <1>3, OnCoreIs
<1> QED
  BY <1>1, <1>2, <1>3, <1>4 DEF c, IsKernel, IsAccess

\* The events of several cores are merged by time, those of one core in their order.
LEMMA MergedAt ==
  ASSUME TracesDone, Cardinality(DOMAIN traces) # 1
  PROVE  \E place, n :
           /\ Placed(Merged.events, place, n) /\ AllBoundaries(place, n) /\ EarlierFirst(place, n)
<1> DEFINE P == Places
           f == [p \in P |-> OnCore(EventAt(p), p[1])]
           m == Sorted(f, CoreByCore)
           n == Cardinality(P)
<1>1. Merged.events = m
  BY DEF Merged, EventAt
<1>2. IsFiniteSet(P) /\ StrictOrder(P, CoreByCore)
  BY PlacesAre
<1>3. \A p \in P : f[p].at = EventAt(p).at /\ f[p].at \in Int /\ EventAt(p).at \in Int
  BY PlaceIs
<1>4. DOMAIN f = P /\ \A p \in P : f[p] = OnCore(EventAt(p), p[1])
  OBVIOUS
<1>5. \A p, q \in P : <<p, q>> \in CoreByCore /\ p[1] = q[1] => p[2] < q[2]
  <2>1. \A p \in P : p[1] \in Int
    <3>1. DOMAIN traces \subseteq Int
      BY CoresAre DEF TracesDone
    <3> QED
      BY <3>1, PlaceIs
  <2>2. \A p, q \in P : <<p, q>> \in CoreByCore <=> p[1] < q[1] \/ (p[1] = q[1] /\ p[2] < q[2])
    BY DEF CoreByCore
  <2> HIDE DEF P
  <2>3. ASSUME NEW p \in P, NEW q \in P, <<p, q>> \in CoreByCore, p[1] = q[1] PROVE p[2] < q[2]
    <3>1. p[1] \in Int /\ ~(p[1] < q[1])
      BY <2>1, <2>3
    <3> QED
      BY <2>2, <2>3, <3>1
  <2> QED
    BY <2>3
<1> HIDE DEF P, f
<1>6. PICK place :
        /\ n \in Nat /\ Renames(place, 1..n, P)
        /\ m = [k \in 1..n |-> f[place[k]]]
        /\ \A k, l \in 1..n : k < l => Precedes(f, CoreByCore, place[k], place[l])
  BY <1>2, <1>3, <1>4, SortedAt
<1> HIDE DEF m, n
<1>7. /\ place \in [1..n -> P] /\ \A k \in 1..n : place[k] \in P
      /\ \A k, l \in 1..n : place[k] = place[l] => k = l
      /\ \A p \in P : \E k \in 1..n : place[k] = p
  BY <1>6 DEF Renames
<1>8. DOMAIN m = 1..n /\ \A k \in 1..n : m[k] = OnCore(EventAt(place[k]), place[k][1])
  BY <1>4, <1>6, <1>7
<1>9. Placed(m, place, n) /\ AllBoundaries(place, n)
  BY <1>6, <1>7, <1>8 DEF Placed, AllBoundaries, P
<1>10. EarlierFirst(place, n)
  <2> SUFFICES ASSUME NEW k \in 1..n, NEW l \in 1..n, k < l, place[k][1] = place[l][1]
               PROVE  \/ EventAt(place[k]).at < EventAt(place[l]).at
                      \/ EventAt(place[k]).at = EventAt(place[l]).at /\ place[k][2] < place[l][2]
    BY DEF EarlierFirst
  <2>1. place[k] \in P /\ place[l] \in P /\ Precedes(f, CoreByCore, place[k], place[l])
    BY <1>6, <1>7
  <2> QED
    BY <1>3, <1>5, <2>1 DEF Precedes
<1> QED
  BY <1>1, <1>9, <1>10

\* Thinning and sorting once more keeps the places, every boundary and each core's order.
LEMMA WrittenAt ==
  ASSUME TracesDone, \A c \in DOMAIN traces : KernelsFirst(traces[c].events),
         NEW X, NEW m \in Seq(X), NEW e \in Seq(X), NEW at, Thinned(e, m, at),
         NEW place, Placed(m, place, Len(m)),
         AllBoundaries(place, Len(m)), EarlierFirst(place, Len(m))
  PROVE  \E there :
           /\ Placed(ByTime(e), there, Len(e)) /\ AllBoundaries(there, Len(e))
           /\ EarlierFirst(there, Len(e))
<1> DEFINE n == Len(e)
           mid == [i \in 1..n |-> place[at[i]]]
<1>1. n \in Nat /\ Len(m) \in Nat
  OBVIOUS
<1> HIDE DEF n
<1>2. \A i \in 1..n : at[i] \in 1..Len(m) /\ place[at[i]] \in Places /\ e[i] = m[at[i]]
  BY DEF Thinned, Placed, n
<1>3. \A i \in 1..n :
        /\ mid[i] = place[at[i]] /\ mid[i] \in Places
        /\ e[i] = OnCore(EventAt(mid[i]), mid[i][1])
        /\ e[i].at = EventAt(mid[i]).at /\ e[i].at \in Int
        /\ IsKernel(e[i]) <=> IsKernel(EventAt(mid[i]))
        /\ IsAccess(e[i]) <=> IsAccess(EventAt(mid[i]))
  <2> SUFFICES ASSUME NEW i \in 1..n
               PROVE  /\ mid[i] = place[at[i]] /\ mid[i] \in Places
                      /\ e[i] = OnCore(EventAt(mid[i]), mid[i][1])
                      /\ e[i].at = EventAt(mid[i]).at /\ e[i].at \in Int
                      /\ IsKernel(e[i]) <=> IsKernel(EventAt(mid[i]))
                      /\ IsAccess(e[i]) <=> IsAccess(EventAt(mid[i]))
    OBVIOUS
  <2>1. mid[i] = place[at[i]] /\ mid[i] \in Places
    BY <1>2
  <2>2. e[i] = OnCore(EventAt(mid[i]), mid[i][1])
    BY <1>2, <2>1 DEF Placed
  <2> HIDE DEF mid
  <2>3. /\ OnCore(EventAt(mid[i]), mid[i][1]).at = EventAt(mid[i]).at /\ EventAt(mid[i]).at \in Int
        /\ IsKernel(OnCore(EventAt(mid[i]), mid[i][1])) <=> IsKernel(EventAt(mid[i]))
        /\ IsAccess(OnCore(EventAt(mid[i]), mid[i][1])) <=> IsAccess(EventAt(mid[i]))
    BY <2>1, PlaceIs
  <2> QED
    BY <2>1, <2>2, <2>3
<1>4. \A i, j \in 1..n : mid[i] = mid[j] => i = j
  <2> SUFFICES ASSUME NEW i \in 1..n, NEW j \in 1..n, mid[i] = mid[j], i # j PROVE FALSE
    OBVIOUS
  <2>1. at[i] = at[j] /\ at[i] \in Int
    BY <1>2 DEF Placed
  <2>2. i < j \/ j < i
    OBVIOUS
  <2> QED
    BY <2>1, <2>2 DEF Thinned, n
<1> HIDE DEF mid
\* Of one core, what is earlier in e is so in the core's trace when the times are the same.
<1>5. ASSUME NEW i \in 1..n, NEW j \in 1..n, i < j, mid[i][1] = mid[j][1],
             EventAt(mid[i]).at = EventAt(mid[j]).at
      PROVE  mid[i][2] < mid[j][2]
  <2>1. at[i] < at[j] \/ (IsKernel(e[i]) /\ IsAccess(e[j]))
    BY <1>5 DEF Thinned, n
  <2>2. EventAt(mid[i]).at \in Int
    BY <1>3
  <2>3. CASE at[i] < at[j]
    <3>1. at[i] \in 1..Len(m) /\ at[j] \in 1..Len(m) /\ mid[i] = place[at[i]] /\ mid[j] = place[at[j]]
      BY <1>2, <1>3
    <3>2. place[at[i]][1] = place[at[j]][1]
      BY <1>5, <3>1
    <3>3. \/ EventAt(place[at[i]]).at < EventAt(place[at[j]]).at
          \/ EventAt(place[at[i]]).at = EventAt(place[at[j]]).at /\ place[at[i]][2] < place[at[j]][2]
      BY <2>3, <3>1, <3>2 DEF EarlierFirst
    <3>4. EventAt(mid[i]).at < EventAt(mid[j]).at \/ mid[i][2] < mid[j][2]
      BY <3>1, <3>3
    <3> QED
      BY <1>5, <2>2, <3>4
  <2>4. CASE IsKernel(e[i]) /\ IsAccess(e[j])
    <3> DEFINE c == mid[i][1]
    <3>1. IsKernel(EventAt(mid[i])) /\ IsAccess(EventAt(mid[j]))
      BY <1>3, <2>4
    <3>2. c \in DOMAIN traces /\ {mid[i][2], mid[j][2]} \subseteq 1..Len(traces[c].events)
      BY <1>3, <1>5, PlaceIs
    <3>3. EventAt(mid[i]) = traces[c].events[mid[i][2]] /\ EventAt(mid[j]) = traces[c].events[mid[j][2]]
      BY <1>5 DEF EventAt
    <3> HIDE DEF c
    <3> QED
      BY <3>1, <3>2, <3>3 DEF KernelsFirst
  <2> QED
    BY <2>1, <2>3, <2>4
<1>6. PICK by :
        /\ Renames(by, 1..n, 1..n)
        /\ ByTime(e) = [k \in 1..n |-> e[by[k]]]
        /\ \A k, l \in 1..n :
             k < l => e[by[k]].at < e[by[l]].at \/ (e[by[k]].at = e[by[l]].at /\ by[k] < by[l])
  <2>1. \A i \in 1..Len(e) : e[i].at \in Int
    BY <1>3 DEF n
  <2> QED
    BY <2>1, ByTimeAt DEF n
<1>7. /\ \A k \in 1..n : by[k] \in 1..n
      /\ \A k, l \in 1..n : by[k] = by[l] => k = l
      /\ \A i \in 1..n : \E k \in 1..n : by[k] = i
  BY <1>6 DEF Renames
<1> DEFINE there == [k \in 1..n |-> mid[by[k]]]
<1>8. \A k \in 1..n : there[k] = mid[by[k]]
  OBVIOUS
<1>9. Placed(ByTime(e), there, n)
  <2>1. there \in [1..n -> Places]
    BY <1>3, <1>7
  <2> HIDE DEF there
  <2>2. \A k, l \in 1..n : there[k] = there[l] => k = l
    <3> SUFFICES ASSUME NEW k \in 1..n, NEW l \in 1..n, there[k] = there[l] PROVE k = l
      OBVIOUS
    <3>1. by[k] \in 1..n /\ by[l] \in 1..n /\ mid[by[k]] = mid[by[l]]
      BY <1>7, <1>8
    <3>2. by[k] = by[l]
      BY <1>4, <3>1
    <3> QED
      BY <1>7, <3>2
  <2>3. DOMAIN ByTime(e) = 1..n /\ \A k \in 1..n : ByTime(e)[k] = e[by[k]]
    BY <1>6
  <2>4. \A k \in 1..n : ByTime(e)[k] = OnCore(EventAt(there[k]), there[k][1])
    <3> SUFFICES ASSUME NEW k \in 1..n
                 PROVE  ByTime(e)[k] = OnCore(EventAt(there[k]), there[k][1])
      OBVIOUS
    <3>1. by[k] \in 1..n /\ there[k] = mid[by[k]] /\ ByTime(e)[k] = e[by[k]]
      BY <1>7, <1>8, <2>3
    <3>2. e[by[k]] = OnCore(EventAt(mid[by[k]]), mid[by[k]][1])
      BY <1>3, <3>1
    <3> QED
      BY <3>1, <3>2
  <2> QED
    BY <1>1, <2>1, <2>2, <2>3, <2>4 DEF Placed
<1> HIDE DEF there
<1>10. AllBoundaries(there, n)
  <2> SUFFICES ASSUME NEW p \in Places, IsKernel(EventAt(p)) PROVE \E k \in 1..n : there[k] = p
    BY DEF AllBoundaries
  <2>1. PICK x \in 1..Len(m) : place[x] = p
    BY DEF AllBoundaries
  <2>2. IsKernel(m[x])
    <3>1. m[x] = OnCore(EventAt(p), p[1])
      BY <2>1 DEF Placed
    <3> QED
      BY <3>1, PlaceIs
  <2>3. PICK i \in 1..n : at[i] = x
    BY <2>2 DEF Thinned, n
  <2>4. PICK k \in 1..n : by[k] = i
    BY <1>7
  <2> QED
    BY <1>3, <1>8, <2>1, <2>3, <2>4
<1>11. EarlierFirst(there, n)
  <2> SUFFICES ASSUME NEW k \in 1..n, NEW l \in 1..n, k < l, there[k][1] = there[l][1]
               PROVE  \/ EventAt(there[k]).at < EventAt(there[l]).at
                      \/ EventAt(there[k]).at = EventAt(there[l]).at /\ there[k][2] < there[l][2]
    BY DEF EarlierFirst
  <2>1. by[k] \in 1..n /\ by[l] \in 1..n /\ there[k] = mid[by[k]] /\ there[l] = mid[by[l]]
    BY <1>7, <1>8
  <2>2. e[by[k]].at < e[by[l]].at \/ (e[by[k]].at = e[by[l]].at /\ by[k] < by[l])
    BY <1>6
  <2>3. e[by[k]].at = EventAt(there[k]).at /\ e[by[l]].at = EventAt(there[l]).at
    BY <1>3, <2>1
  <2> QED
    BY <1>5, <2>1, <2>2, <2>3
<1> QED
  BY <1>9, <1>10, <1>11 DEF n

\* The events of a core in such a list are its trace by time, without some accesses.
LEMMA CoreOrder ==
  ASSUME TracesDone, NEW b, NEW place, NEW n, Placed(b, place, n),
         AllBoundaries(place, n), EarlierFirst(place, n), NEW c \in DOMAIN traces,
         NEW kept, kept = EventsOf(b, c), NEW whole, whole = ByTime(traces[c].events)
  PROVE  /\ IsSubsequence(kept, [i \in DOMAIN whole |-> OnCore(whole[i], c)])
         /\ Len(KernelsOf(kept)) = Kernels(c)
<1> DEFINE s == traces[c].events
           w == [i \in DOMAIN whole |-> OnCore(whole[i], c)]
           K == {i \in DOMAIN b : b[i].core = c}
           g == Positions(K)
           m == Cardinality(K)
           h == [j \in 1..m |-> place[g[j]][2]]
<1>1. /\ s \in Seq(EventSet) /\ DOMAIN s = 1..Len(s) /\ Len(s) \in Nat
      /\ KernelCount(s) = Kernels(c) /\ \A i \in 1..Len(s) : s[i] \in EventSet /\ s[i].at \in Int
  BY TraceIs, EventIs
<1>2. /\ n \in Nat /\ DOMAIN b = 1..n /\ \A k \in 1..n : place[k] \in Places
      /\ \A k, l \in 1..n : place[k] = place[l] => k = l
      /\ \A k \in 1..n : b[k] = OnCore(EventAt(place[k]), place[k][1]) /\ b[k].core = place[k][1]
  BY PlaceIs DEF Placed
<1>3. K = {k \in 1..n : place[k][1] = c} /\ K \in SUBSET Int /\ IsFiniteSet(K)
  <2>1. K \in SUBSET (1..n) /\ IsFiniteSet(1..n)
    BY <1>2, UpToIsFinite
  <2> QED
    BY <1>2, <2>1, FS_Subset
<1> HIDE DEF K, s
<1>4. /\ m \in Nat /\ DOMAIN g = 1..m /\ Renames(g, 1..m, K) /\ Increasing(g, m)
      /\ \A j \in 1..m : g[j] \in K
  BY <1>3, PositionsAre DEF Renames
<1> HIDE DEF g, m
<1>5. kept = [j \in 1..m |-> b[g[j]]]
  BY <1>4 DEF EventsOf, Sublist, Positions, K, g
<1>6. \A p \in Places : p[1] = c => p[2] \in 1..Len(s) /\ EventAt(p) = s[p[2]] /\ p = <<c, p[2]>>
  <2> SUFFICES ASSUME NEW p \in Places, p[1] = c
               PROVE  p[2] \in 1..Len(s) /\ EventAt(p) = s[p[2]] /\ p = <<c, p[2]>>
    OBVIOUS
  <2>1. p[2] \in 1..Len(s) /\ EventAt(p) = s[p[2]]
    BY PlaceIs DEF EventAt, s
  <2>2. \E d, k : p = <<d, k>>
    BY DEF Places
  <2> QED
    BY <2>1, <2>2
<1>7. \A k \in 1..Len(s) : <<c, k>> \in Places
  BY <1>1 DEF Places, s
<1>8. \A j \in 1..m :
        /\ g[j] \in 1..n /\ place[g[j]] = <<c, h[j]>> /\ h[j] \in 1..Len(s)
        /\ kept[j] = OnCore(s[h[j]], c)
  <2> SUFFICES ASSUME NEW j \in 1..m
               PROVE  /\ g[j] \in 1..n /\ place[g[j]] = <<c, h[j]>> /\ h[j] \in 1..Len(s)
                      /\ kept[j] = OnCore(s[h[j]], c)
    OBVIOUS
  <2>1. g[j] \in 1..n /\ place[g[j]][1] = c /\ place[g[j]] \in Places /\ h[j] = place[g[j]][2]
    BY <1>2, <1>3, <1>4
  <2>2. kept[j] = b[g[j]]
    BY <1>5
  <2> HIDE DEF h
  <2> QED
    BY <1>2, <1>6, <2>1, <2>2
<1> HIDE DEF h
<1>9. \A j, l \in 1..m : j < l =>
        /\ h[j] # h[l]
        /\ s[h[j]].at < s[h[l]].at \/ (s[h[j]].at = s[h[l]].at /\ h[j] < h[l])
  <2> SUFFICES ASSUME NEW j \in 1..m, NEW l \in 1..m, j < l
               PROVE  /\ h[j] # h[l]
                      /\ s[h[j]].at < s[h[l]].at \/ (s[h[j]].at = s[h[l]].at /\ h[j] < h[l])
    OBVIOUS
  <2>1. g[j] < g[l] /\ g[j] \in 1..n /\ g[l] \in 1..n
    BY <1>4, <1>8 DEF Increasing
  <2>2. place[g[j]] = <<c, h[j]>> /\ place[g[l]] = <<c, h[l]>>
    BY <1>8
  <2>3. place[g[j]] # place[g[l]]
    BY <1>2, <2>1
  <2>4. EventAt(place[g[j]]) = s[h[j]] /\ EventAt(place[g[l]]) = s[h[l]]
    BY <2>2 DEF EventAt, s
  <2>5. place[g[j]][1] = c /\ place[g[l]][1] = c /\ place[g[j]][2] = h[j] /\ place[g[l]][2] = h[l]
    BY <2>2
  <2> QED
    BY <2>1, <2>2, <2>3, <2>4, <2>5 DEF EarlierFirst
<1>10. PICK at :
         /\ Renames(at, 1..Len(s), 1..Len(s))
         /\ ByTime(s) = [k \in 1..Len(s) |-> s[at[k]]]
         /\ \A k, l \in 1..Len(s) :
              k < l => s[at[k]].at < s[at[l]].at \/ (s[at[k]].at = s[at[l]].at /\ at[k] < at[l])
  BY <1>1, ByTimeAt
<1> DEFINE q == [j \in 1..m |-> CHOOSE x \in 1..Len(s) : at[x] = h[j]]
<1>11. \A j \in 1..m : q[j] \in 1..Len(s) /\ at[q[j]] = h[j]
  <2> SUFFICES ASSUME NEW j \in 1..m PROVE q[j] \in 1..Len(s) /\ at[q[j]] = h[j]
    OBVIOUS
  <2>1. \E x \in 1..Len(s) : at[x] = h[j]
    BY <1>8, <1>10 DEF Renames
  <2>2. q[j] = CHOOSE x \in 1..Len(s) : at[x] = h[j]
    OBVIOUS
  <2> HIDE DEF q
  <2> QED
    BY <2>1, <2>2
<1>12. q \in [1..m -> Int]
  <2>1. q = [j \in 1..m |-> q[j]] /\ \A j \in 1..m : q[j] \in Int
    BY <1>11
  <2> HIDE DEF q
  <2> QED
    BY <2>1
<1> HIDE DEF q
<1>13. Increasing(q, m)
  <2> SUFFICES ASSUME NEW j \in 1..m, NEW l \in 1..m, j < l, ~(q[j] < q[l]) PROVE FALSE
    BY DEF Increasing
  <2>1. q[j] \in 1..Len(s) /\ q[l] \in 1..Len(s) /\ at[q[j]] = h[j] /\ at[q[l]] = h[l]
    BY <1>11
  <2>2. h[j] # h[l] /\ (s[h[j]].at < s[h[l]].at \/ (s[h[j]].at = s[h[l]].at /\ h[j] < h[l]))
    BY <1>9
  <2>3. q[l] < q[j]
    BY <2>1, <2>2
  <2>4. s[h[l]].at < s[h[j]].at \/ (s[h[l]].at = s[h[j]].at /\ h[l] < h[j])
    BY <1>10, <2>1, <2>3
  <2>5. /\ s[h[j]].at \in Int /\ s[h[l]].at \in Int /\ h[j] \in Int /\ h[l] \in Int
    BY <1>1, <1>8
  <2> QED
    BY <2>2, <2>4, <2>5
<1> DEFINE T == {q[j] : j \in 1..m}
<1>14. Positions(T) = q /\ T \in SUBSET (1..Len(s))
  <2>1. T \in SUBSET (1..Len(s))
    BY <1>11
  <2>2. T = {q[j] : j \in 1..m}
    OBVIOUS
  <2> HIDE DEF T
  <2> QED
    BY <1>4, <1>12, <1>13, <2>1, <2>2, PositionsUnique
<1> HIDE DEF T
<1>15. whole = ByTime(s) /\ DOMAIN w = 1..Len(s) /\ \A i \in 1..Len(s) : w[i] = OnCore(s[at[i]], c)
  BY <1>10 DEF s
<1> HIDE DEF w
<1>16. kept = Sublist(w, T)
  <2>1. DOMAIN Positions(T) = 1..m
    BY <1>12, <1>14
  <2>2. Sublist(w, T) = [k \in DOMAIN Positions(T) |-> w[Positions(T)[k]]]
    BY DEF Sublist, Positions
  <2>3. Sublist(w, T) = [k \in 1..m |-> w[q[k]]]
    BY <1>14, <2>1, <2>2
  <2>4. \A k \in 1..m : w[q[k]] = OnCore(s[h[k]], c)
    BY <1>11, <1>15
  <2>5. kept = [k \in 1..m |-> kept[k]] /\ \A k \in 1..m : kept[k] = OnCore(s[h[k]], c)
    BY <1>5, <1>8
  <2> HIDE DEF w
  <2>6. Sublist(w, T) = [k \in 1..m |-> OnCore(s[h[k]], c)]
    BY <2>3, <2>4
  <2>7. kept = [k \in 1..m |-> OnCore(s[h[k]], c)]
    BY <2>5
  <2> QED
    BY <2>6, <2>7
<1>17. IsSubsequence(kept, w)
  BY <1>14, <1>15, <1>16 DEF IsSubsequence
<1>18. Len(KernelsOf(kept)) = Kernels(c)
  <2> DEFINE A == {j \in DOMAIN kept : IsKernel(kept[j])}
             B == KernelPlaces(s)
             to == [j \in A |-> h[j]]
  <2>1. DOMAIN kept = 1..m
    BY <1>5
  <2>2. \A j \in 1..m : IsKernel(kept[j]) <=> IsKernel(s[h[j]])
    <3> SUFFICES ASSUME NEW j \in 1..m PROVE IsKernel(kept[j]) <=> IsKernel(s[h[j]])
      OBVIOUS
    <3>1. s[h[j]] \in EventSet /\ kept[j] = OnCore(s[h[j]], c)
      BY <1>1, <1>8
    <3> QED
      BY <3>1, OnCoreIs DEF IsKernel, IsAccess
  <2>3. \A x \in B : x \in 1..Len(s) /\ IsKernel(s[x])
    BY <1>1 DEF KernelPlaces, KernelsAmong
  <2>4. \A j \in A : h[j] \in B
    BY <1>1, <1>8, <2>1, <2>2 DEF KernelPlaces, KernelsAmong
  <2>5. \A x \in B : \E j \in A : h[j] = x
    <3> SUFFICES ASSUME NEW x \in B PROVE \E j \in A : h[j] = x
      OBVIOUS
    <3> HIDE DEF B
    <3>1. <<c, x>> \in Places /\ IsKernel(EventAt(<<c, x>>))
      BY <1>7, <2>3 DEF EventAt, s
    <3>2. PICK k \in 1..n : place[k] = <<c, x>>
      BY <3>1 DEF AllBoundaries
    <3>3. k \in K
      BY <1>3, <3>2
    <3>4. PICK j \in 1..m : g[j] = k
      BY <1>4, <3>3 DEF Renames
    <3>5. h[j] = x
      BY <1>8, <3>2, <3>4
    <3> QED
      BY <2>1, <2>2, <2>3, <3>4, <3>5
  <2>6. \A j, l \in A : h[j] = h[l] => j = l
    <3> SUFFICES ASSUME NEW j \in 1..m, NEW l \in 1..m, h[j] = h[l], j # l PROVE FALSE
      BY <2>1
    <3>1. j < l \/ l < j
      OBVIOUS
    <3> QED
      BY <1>9, <3>1
  <2> HIDE DEF B
  <2>7. to \in Surjection(A, B)
    <3>1. to \in [A -> B]
      BY <2>4
    <3>2. \A x \in B : \E j \in A : to[j] = x
      BY <2>5
    <3> HIDE DEF to, A
    <3> QED
      BY <3>1, <3>2 DEF Surjection
  <2>8. to \in Injection(A, B)
    <3>1. to \in [A -> B]
      BY <2>4
    <3>2. \A j, l \in A : to[j] = to[l] => j = l
      BY <2>6
    <3> HIDE DEF to, A
    <3> QED
      BY <3>1, <3>2 DEF Injection, IsInjective
  <2>9. A \in SUBSET (1..m) /\ A \in SUBSET Int /\ IsFiniteSet(A)
    <3>1. A \in SUBSET (1..m) /\ A \in SUBSET Int
      BY <2>1
    <3>2. IsFiniteSet(1..m)
      BY <1>4, UpToIsFinite
    <3> QED
      BY <3>1, <3>2, FS_Subset
  <2>10. Cardinality(A) = Cardinality(B) /\ Cardinality(A) \in Nat
    <3> HIDE DEF A, to
    <3> QED
      BY <2>7, <2>8, <2>9, FS_Surjection, FS_CardinalityType
  <2>11. Cardinality(B) = Kernels(c)
    BY <1>1 DEF KernelCount, B
  <2>12. KernelsOf(kept) = [k \in DOMAIN Positions(A) |-> kept[Positions(A)[k]]]
    BY DEF KernelsOf, Sublist, Positions
  <2>13. DOMAIN Positions(A) = 1..Cardinality(A)
    <3> HIDE DEF A
    <3> QED
      BY <2>9, PositionsAre
  <2>14. Len(KernelsOf(kept)) = Cardinality(A)
    <3> HIDE DEF A
    <3>1. KernelsOf(kept) = [k \in 1..Cardinality(A) |-> kept[Positions(A)[k]]]
      BY <2>12, <2>13
    <3> QED
      BY <2>10, <3>1
  <2> QED
    BY <2>10, <2>11, <2>14
<1> QED
  BY <1>17, <1>18 DEF w

------------------------------------------------------------------------------
(* The invariant *)

\* The cores that are not to come have their traces, and the chip's trace is merged of them.
TracesOK ==
  /\ DOMAIN traces = DOMAIN input.dma
  /\ \A c \in DOMAIN traces : (\A k \in DOMAIN todo : todo[k] # c) => TraceGood(traces[c], c)
  /\ trace = NoTrace \/ (todo = <<>> /\ trace = [Merged EXCEPT !.events = Capped(@, Cap)])

ChipInv == IngestInv /\ TracesOK

\* The initial states satisfy the invariant.
LEMMA InitIs ==
  ASSUME Init
  PROVE  ChipInv
<1> DEFINE C == DOMAIN input.dma
<1>1. /\ input \in Inputs /\ todo = InOrder(C, Ascending(C)) /\ rows = FirstRows(input, todo)
      /\ buckets = <<>> /\ accesses = <<>> /\ tensors = Catalog /\ DOMAIN traces = C
      /\ trace = NoTrace
  BY DEF Init
<1>2. IsFiniteSet(C) /\ C \subseteq Int
  BY <1>1, CoresAre
<1> DEFINE n == Cardinality(C)
<1>3. /\ n \in Nat /\ todo \in [1..n -> C]
      /\ \A x \in C : \E k \in 1..n : todo[k] = x
  <2> HIDE DEF C
  <2>1. StrictOrder(C, Ascending(C))
    BY <1>2, AscendingIs
  <2> QED
    BY <1>1, <1>2, <2>1, OrderIs
<1> HIDE DEF n
<1>4. todo \in Seq(C) /\ DOMAIN todo = 1..n
  <2> HIDE DEF C
  <2>1. DOMAIN todo = 1..n /\ todo = [k \in 1..n |-> todo[k]] /\ \A k \in 1..n : todo[k] \in C
    BY <1>3
  <2> QED
    BY <1>3, <2>1, RowsAre
<1>5. IngestInv
  <2>1. Fresh
    BY <1>1, <1>4 DEF Fresh
  <2> QED
    BY <2>1, Opened
<1>6. TracesOK
  BY <1>1, <1>3, <1>4 DEF TracesOK
<1> QED
  BY <1>5, <1>6 DEF ChipInv

\* While a core is at work no trace changes.
LEMMA TracesKept ==
  ASSUME TracesOK, Working, UNCHANGED <<input, todo, traces, trace>>
  PROVE  TracesOK'
<1>1. trace = NoTrace /\ trace' = NoTrace
  BY DEF TracesOK, Working
<1>2. /\ DOMAIN traces' = DOMAIN input'.dma
      /\ \A c \in DOMAIN traces' : (\A k \in DOMAIN todo' : todo'[k] # c) => TraceGood(traces'[c], c)
  BY DEF TracesOK
<1> QED
  BY <1>1, <1>2 DEF TracesOK

\* FinishCore preserves the invariant: the finished trace is good, and the next core opens.
LEMMA FinishKeeps ==
  ASSUME ChipInv, FinishCore
  PROVE  ChipInv'
<1> DEFINE c == Head(todo)
           tr == [tensors |-> {[id |-> <<NoCore, t>>, bytes |-> tensors[t], core |-> NoCore] :
                                 t \in DOMAIN tensors},
                  events |-> Capped(KernelEvents(Head(todo)) \o ByTime(accesses), CoreCap)]
<1>1. /\ todo # <<>> /\ todo' = Tail(todo) /\ rows' = FirstRows(input, Tail(todo))
      /\ traces' = [traces EXCEPT ![c] = tr] /\ buckets = <<>> /\ buckets' = buckets
      /\ accesses' = <<>> /\ tensors' = Catalog /\ input' = input /\ trace' = trace
  BY DEF FinishCore
<1>2. IngestInv /\ IngestTypeOK /\ input \in Inputs /\ todo \in Seq(DOMAIN input.dma) /\ Working
  BY <1>1 DEF ChipInv, IngestInv, IngestTypeOK, Working
<1>3. TraceGood(tr, c)
  <2> HIDE DEF c
  <2> DEFINE u == tr
  <2>1. u = tr
    OBVIOUS
  <2>2. TraceGood(u, Head(todo))
    BY <1>2, <2>1, FinishedIs
  <2> QED
    BY <2>2 DEF c
<1> HIDE DEF tr
<1>4. IngestInv'
  <2>1. Tail(todo) \in Seq(DOMAIN input.dma)
    BY <1>1, <1>2
  <2>2. Fresh'
    BY <1>1, <1>2, <2>1 DEF Fresh, FirstRows
  <2> QED
    BY <2>2, Opened, PTL
<1>5. DOMAIN traces = DOMAIN input.dma /\ c \in DOMAIN traces /\ trace = NoTrace
  BY <1>1, <1>2 DEF ChipInv, TracesOK
<1>6. ASSUME NEW d \in DOMAIN traces, \A k \in DOMAIN todo' : todo'[k] # d
      PROVE  TraceGood(traces'[d], d)
  <2>1. CASE d = c
    BY <1>1, <1>3, <1>5, <2>1
  <2>2. CASE d # c
    <3>1. ASSUME NEW k \in DOMAIN todo PROVE todo[k] # d
      <4>1. k \in 1..Len(todo) /\ Len(todo) \in Nat /\ c = todo[1] /\ Len(Tail(todo)) = Len(todo) - 1
        BY <1>1, <1>2
      <4>2. CASE k = 1
        BY <2>2, <4>1, <4>2
      <4>3. CASE k # 1
        <5>1. k - 1 \in DOMAIN Tail(todo) /\ Tail(todo)[k - 1] = todo[k]
          BY <1>1, <1>2, <4>1, <4>3
        <5> QED
          BY <1>1, <1>6, <5>1
      <4> QED
        BY <4>2, <4>3
    <3>2. TraceGood(traces[d], d)
      BY <3>1 DEF ChipInv, TracesOK
    <3> QED
      BY <1>1, <2>2, <3>2
  <2> QED
    BY <2>1, <2>2
<1>7. DOMAIN traces' = DOMAIN traces
  BY <1>1
<1>8. TracesOK'
  BY <1>1, <1>5, <1>6, <1>7 DEF TracesOK
<1> QED
  BY <1>4, <1>8 DEF ChipInv

\* The merged trace depends on the cores' traces alone.
LEMMA MergedSame ==
  ASSUME traces' = traces
  PROVE  Merged' = Merged /\ Capped(Merged.events, Cap)' = Capped(Merged.events, Cap)
<1>1. Merged' = Merged
  BY DEF Merged, Sorted, Places, CoreByCore, OnCore, InOrder, IsAccess
<1>2. Capped(Merged.events, Cap)' = Capped(Merged.events, Cap)
  BY <1>1 DEF Capped, Downsampled, KernelsOf, AccessesOf, Sublist, InOrder, Ascending, IsKernel, IsAccess
<1> QED
  BY <1>1, <1>2

\* Merge preserves the invariant.
LEMMA MergeKeeps ==
  ASSUME ChipInv, Merge
  PROVE  ChipInv'
<1>1. /\ todo = <<>> /\ trace' = [Merged EXCEPT !.events = Capped(@, Cap)]
      /\ UNCHANGED <<input, todo, rows, buckets, accesses, tensors, traces>>
  BY DEF Merge
<1>2. ~Working /\ ~Working'
  BY <1>1 DEF Working
<1>3. IngestTypeOK'
  <2>1. IngestTypeOK
    BY DEF ChipInv, IngestInv
  <2> QED
    BY <1>1, <1>2, <2>1 DEF IngestTypeOK, BucketsOK, KeyOf
<1>4. Housed'
  BY <1>1 DEF ChipInv, IngestInv, Housed, HasRoom
<1>5. BooksOK'
  BY <1>2 DEF BooksOK
<1>6. traces' = traces
  BY <1>1
<1>7. TracesOK'
  <2>1. Merged' = Merged /\ Capped(Merged.events, Cap)' = Capped(Merged.events, Cap)
    BY <1>6, MergedSame
  <2> QED
    BY <1>1, <1>6, <2>1 DEF ChipInv, TracesOK
<1> QED
  BY <1>3, <1>4, <1>5, <1>7 DEF ChipInv, IngestInv

\* A stutter preserves the invariant.
LEMMA Stutters ==
  ASSUME ChipInv, UNCHANGED ingestVars
  PROVE  ChipInv'
<1>1. UNCHANGED <<input, todo, rows, buckets, accesses, tensors, traces, trace>>
  BY DEF ingestVars
<1>2. IngestTypeOK'
  BY <1>1 DEF ChipInv, IngestInv, IngestTypeOK, BucketsOK, KeyOf, Working, AllRows
<1>3. Housed'
  BY <1>1 DEF ChipInv, IngestInv, Housed, HasRoom
<1>4. BooksOK'
  <2>1. Working' = Working /\ AllRows' = AllRows /\ RowsRead' = RowsRead
    BY <1>1 DEF Working, AllRows, RowsRead, Accepted
  <2>2. \A K : RowBytes(K)' = RowBytes(K)
    BY <2>1 DEF RowBytes, Keyed, KeyOf
  <2>3. SpreadRows' = SpreadRows /\ Open' = Open /\ Pending' = Pending
    BY <1>1, <2>1 DEF SpreadRows, Open, Pending, HasKey, Unattributed
  <2>4. BytesBounded' <=> BytesBounded
    BY <2>2, <2>3 DEF BytesBounded
  <2>5. SlotsExact' <=> SlotsExact
    BY <1>1, <2>2 DEF SlotsExact
  <2> QED
    BY <2>1, <2>4, <2>5 DEF ChipInv, IngestInv, BooksOK
<1>5. TracesOK'
  <2>1. traces' = traces
    BY <1>1
  <2>2. Merged' = Merged /\ Capped(Merged.events, Cap)' = Capped(Merged.events, Cap)
    BY <2>1, MergedSame
  <2> QED
    BY <1>1, <2>2 DEF ChipInv, TracesOK
<1> QED
  BY <1>2, <1>3, <1>4, <1>5 DEF ChipInv, IngestInv

\* Every step keeps the invariant.
LEMMA StepKeeps == ChipInv /\ [Next]_ingestVars => ChipInv'
<1> SUFFICES ASSUME ChipInv, [Next]_ingestVars PROVE ChipInv'
  OBVIOUS
<1>0. IngestInv /\ IngestTypeOK /\ TracesOK
  BY DEF ChipInv, IngestInv
<1>1. CASE SkipRow
  <2>1. Working /\ UNCHANGED <<input, todo, traces, trace>>
    BY <1>0, <1>1, RowTaken DEF SkipRow, TakeRow
  <2> QED
    BY <1>0, <1>1, <2>1, SkipKeeps, TracesKept DEF ChipInv
<1>2. CASE AggregateRow
  <2>1. Working /\ UNCHANGED <<input, todo, traces, trace>>
    BY <1>0, <1>2, RowTaken DEF AggregateRow, TakeRow
  <2> QED
    BY <1>0, <1>2, <2>1, AggregateKeeps, TracesKept DEF ChipInv
<1>3. CASE EmitRow
  <2>1. Working /\ UNCHANGED <<input, todo, traces, trace>>
    BY <1>0, <1>3, RowTaken DEF EmitRow, TakeRow
  <2> QED
    BY <1>0, <1>3, <2>1, EmitKeeps, TracesKept DEF ChipInv
<1>4. CASE FlushBucket
  <2>1. Working /\ UNCHANGED <<input, todo, traces, trace>>
    BY <1>0, <1>4 DEF FlushBucket, IngestTypeOK
  <2> QED
    BY <1>0, <1>4, <2>1, FlushKeeps, TracesKept DEF ChipInv
<1>5. CASE FinishCore
  BY <1>5, FinishKeeps
<1>6. CASE Merge
  BY <1>6, MergeKeeps
<1>7. CASE UNCHANGED ingestVars
  BY <1>7, Stutters
<1> QED
  BY <1>1, <1>2, <1>3, <1>4, <1>5, <1>6, <1>7 DEF Next

------------------------------------------------------------------------------
(* What the invariant says *)

\* The invariant implies that no bytes are invented.
LEMMA ConservedIs ==
  ASSUME ChipInv
  PROVE  BytesConserved
<1> SUFFICES ASSUME Working PROVE BytesConserved
  BY DEF BytesConserved
<1>1. IngestTypeOK /\ BytesBounded /\ buckets \in Seq(RowSet)
  BY DEF ChipInv, IngestInv, BooksOK, IngestTypeOK, BucketsOK
<1>2. /\ Total(accesses) \in Nat /\ (\A K : KeyBytes(buckets, K) \in Nat)
      /\ (\A K : RowBytes(K) \in Nat) /\ Cardinality(SpreadRows) \in Nat /\ Open \in {0, 1}
  BY <1>1, TotalIs, RowBytesAre
<1> DEFINE m == MinBytes - 1
           l == Cardinality(SpreadRows)
           k == l - Open
           p == Pending
           a == RowBytes(Keys)
<1>3. m \in Nat /\ l \in Nat /\ k \in Nat /\ k <= l /\ p \in Nat /\ a \in Nat
  <2>1. MinBytes \in Nat \ {0}
    BY TargetsAre
  <2>2. p \in Nat /\ a \in Nat
    BY <1>2 DEF Pending
  <2>3. Open <= l
    BY <1>1 DEF BytesBounded
  <2> HIDE DEF p, a
  <2> QED
    BY <1>2, <2>1, <2>2, <2>3
<1>4. p <= a /\ a <= p + k * m
  BY <1>1 DEF BytesBounded
<1> HIDE DEF m, l, k, p, a
<1>5. p <= a /\ a <= p + l * m
  <2>1. 0 \in 0..m /\ 0 \in Nat /\ p + 0 = p + 0 /\ a = a + 0
    BY <1>3
  <2> QED
    BY <1>3, <1>4, <2>1, Balanced
<1>6. BytesAt(AllRows, RowsRead) = a
  <2>1. AllRows \in Seq(RowSet) /\ RowsRead \in SUBSET DOMAIN AllRows
    BY <1>1, AtWork
  <2>2. Keyed(AllRows, RowsRead, Keys) = RowsRead
    BY <2>1, AllKeyed
  <2> QED
    BY <2>2 DEF a, RowBytes
<1>7. BytesAt(accesses, DOMAIN accesses) + BytesAt(buckets, DOMAIN buckets) = p
  <2>1. Keyed(buckets, DOMAIN buckets, Keys) = DOMAIN buckets
    BY <1>1, AllKeyed
  <2> QED
    BY <2>1 DEF p, Pending, Total, KeyBytes
<1>8. Cardinality({i \in RowsRead : Unattributed(AllRows[i])}) = l
  BY DEF l, SpreadRows
<1> QED
  BY <1>5, <1>6, <1>7, <1>8 DEF BytesConserved, m

\* The rows of a slot are those with its keys.
LEMMA SlotKeyed ==
  ASSUME NEW list \in Seq(RowSet), NEW S \in SUBSET DOMAIN list,
         \A i \in S : list[i].route \in DOMAIN AccessOf, NEW v, NEW op
  PROVE  {i \in S : OfSlot(list[i], v, op)} = Keyed(list, S, SlotKeys(v, op))
<1>1. ASSUME NEW i \in S PROVE OfSlot(list[i], v, op) <=> KeyOf(list[i]) \in SlotKeys(v, op)
  <2>1. list[i] \in RowSet
    BY ListIs
  <2> QED
    BY <2>1, KeysAre
<1> QED
  BY <1>1 DEF Keyed

\* The invariant implies that slots keep their bytes.
LEMMA ExactIs ==
  ASSUME ChipInv
  PROVE  CatalogBytesExact
<1> SUFFICES ASSUME Working, NEW v \in DOMAIN Catalog, NEW op \in {"read", "write"}
             PROVE  BytesAt(accesses, AccessesTo(v, op))
                      + BytesAt(buckets, {i \in DOMAIN buckets : OfSlot(buckets[i], v, op)})
                    = BytesAt(AllRows, {i \in RowsRead : OfSlot(AllRows[i], v, op)})
  BY DEF CatalogBytesExact
<1>1. IngestTypeOK /\ SlotsExact /\ BucketsOK(buckets)
  BY DEF ChipInv, IngestInv, BooksOK, IngestTypeOK
<1> DEFINE K == SlotKeys(v, op)
<1>2. BytesAt(accesses, To(accesses, v, op)) + KeyBytes(buckets, K) = RowBytes(K)
  BY <1>1 DEF SlotsExact
<1>3. AccessesTo(v, op) = To(accesses, v, op)
  BY DEF AccessesTo, To
<1>4. {i \in DOMAIN buckets : OfSlot(buckets[i], v, op)} = Keyed(buckets, DOMAIN buckets, K)
  BY <1>1, SlotKeyed DEF BucketsOK
<1>5. {i \in RowsRead : OfSlot(AllRows[i], v, op)} = Keyed(AllRows, RowsRead, K)
  <2>1. AllRows \in Seq(RowSet) /\ RowsRead \in SUBSET DOMAIN AllRows
    BY <1>1, AtWork
  <2>2. \A i \in RowsRead : AllRows[i].route \in DOMAIN AccessOf
    <3>1. \A i \in RowsRead : Accepted(AllRows[i])
      BY DEF RowsRead
    <3> QED
      BY <3>1, AcceptedIs
  <2> QED
    BY <2>1, <2>2, SlotKeyed
<1> HIDE DEF K
<1> QED
  BY <1>2, <1>3, <1>4, <1>5 DEF KeyBytes, RowBytes, K

\* The trace of the chip.
LEMMA ChipTrace ==
  ASSUME ChipInv, trace # NoTrace
  PROVE  /\ TracesDone /\ MergedOK(Merged) /\ trace.tensors = Merged.tensors
         /\ Cap \in Nat /\ (Cap # 0 => KernelCount(Merged.events) < Cap)
         /\ trace.events = Capped(Merged.events, Cap)
         /\ Within(trace.events, Merged.events)
         /\ Len(trace.events) = IF Cap # 0 /\ Len(Merged.events) > Cap THEN Cap
                                ELSE Len(Merged.events)
<1>1. /\ todo = <<>> /\ trace = [Merged EXCEPT !.events = Capped(@, Cap)]
      /\ DOMAIN traces = DOMAIN input.dma /\ input \in Inputs
  BY DEF ChipInv, IngestInv, IngestTypeOK, TracesOK
<1>2. TracesDone
  BY <1>1 DEF ChipInv, TracesOK, TracesDone
<1>3. MergedOK(Merged)
  BY <1>2, OneCore, SeveralCores
<1> DEFINE m == Merged
<1> HIDE DEF m
<1>4. /\ m = [tensors |-> m.tensors, events |-> m.events]
      /\ KernelCount(m.events) = SumFunctionOnSet(Boundaries, DOMAIN traces)
  BY <1>3 DEF MergedOK, m
<1>5. PICK X : m.events \in Seq(X)
  BY <1>3 DEF MergedOK, m
<1>6. trace.tensors = m.tensors /\ trace.events = Capped(m.events, Cap)
  <2>1. trace = [m EXCEPT !.events = Capped(@, Cap)]
    BY <1>1 DEF m
  <2> QED
    BY <1>4, <2>1
<1>7. Cap \in Nat /\ (Cap # 0 => KernelCount(m.events) < Cap)
  <2>1. Cap \in Nat
    BY CapAssumption
  <2>2. ASSUME Cap # 0 PROVE SumFunction([c \in DOMAIN input.dma |-> Kernels(c)]) < Cap
    BY <1>1, <2>2, CapAssumption
  <2>3. [c \in DOMAIN input.dma |-> Kernels(c)] = Boundaries /\ DOMAIN Boundaries = DOMAIN traces
    BY <1>1 DEF Boundaries
  <2>4. SumFunction(Boundaries) = SumFunctionOnSet(Boundaries, DOMAIN traces)
    BY <2>3 DEF SumFunction, FoldFunction, SumFunctionOnSet
  <2> QED
    BY <1>4, <2>1, <2>2, <2>3, <2>4
<1>8. /\ Within(Capped(m.events, Cap), m.events)
      /\ Len(Capped(m.events, Cap)) = IF Cap # 0 /\ Len(m.events) > Cap THEN Cap ELSE Len(m.events)
  BY <1>5, <1>7, CappedIs
<1> QED
  BY <1>2, <1>3, <1>6, <1>7, <1>8 DEF m

\* The invariant implies that accesses find their tensors.
LEMMA TensorsFound ==
  ASSUME ChipInv
  PROVE  AccessesFindTensors
<1>1. CASE trace = NoTrace
  <2>1. DOMAIN trace.events = {}
    BY <1>1 DEF NoTrace
  <2> QED
    BY <2>1 DEF AccessesFindTensors
<1>2. CASE trace # NoTrace
  <2>1. /\ MergedOK(Merged) /\ trace.tensors = Merged.tensors
        /\ Within(trace.events, Merged.events)
    BY <1>2, ChipTrace
  <2>2. ASSUME NEW i \in DOMAIN trace.events PROVE Fits(trace.events[i], trace.tensors, Several)
    <3>1. PICK j \in DOMAIN Merged.events : trace.events[i] = Merged.events[j]
      BY <2>1 DEF Within
    <3>2. Fits(Merged.events[j], Merged.tensors, Several)
      BY <2>1 DEF MergedOK
    <3> QED
      BY <2>1, <3>1, <3>2
  <2> QED
    BY <2>2 DEF AccessesFindTensors, Fits, Several
<1> QED
  BY <1>1, <1>2

\* The invariant implies that the cap is respected and used up.
LEMMA CapIs ==
  ASSUME ChipInv
  PROVE  CapRespected
<1> SUFFICES ASSUME trace # NoTrace, Cap # 0 PROVE CapRespected
  BY DEF CapRespected
<1>1. /\ MergedOK(Merged)
      /\ Len(trace.events) = IF Len(Merged.events) > Cap THEN Cap ELSE Len(Merged.events)
  BY ChipTrace
<1>2. Len(Merged.events) = SumFunctionOnSet(Lengths, DOMAIN traces)
  BY <1>1 DEF MergedOK
<1>3. SumFunction([c \in DOMAIN traces |-> Len(traces[c].events)]) = SumFunctionOnSet(Lengths, DOMAIN traces)
  <2>1. [c \in DOMAIN traces |-> Len(traces[c].events)] = Lengths /\ DOMAIN Lengths = DOMAIN traces
    BY DEF Lengths
  <2> QED
    BY <2>1 DEF SumFunction, FoldFunction, SumFunctionOnSet
<1> QED
  BY <1>1, <1>2, <1>3 DEF CapRespected

\* The invariant implies that no core's events are reordered and no boundary is lost.
LEMMA OrderKept ==
  ASSUME ChipInv
  PROVE  CoreOrderKept
<1> SUFFICES ASSUME trace # NoTrace, Cardinality(DOMAIN input.dma) > 1 PROVE CoreOrderKept
  BY DEF CoreOrderKept
<1> DEFINE m == Merged.events
           e == trace.events
<1>1. TracesDone /\ e = Capped(m, Cap) /\ MergedOK(Merged)
  BY ChipTrace
<1>2. PICK X : m \in Seq(X)
  BY <1>1 DEF MergedOK
<1>3. Cap \in Nat /\ (Cap # 0 => KernelCount(m) < Cap)
  BY <1>1, ChipTrace
<1>4. DOMAIN traces = DOMAIN input.dma /\ Cardinality(DOMAIN traces) # 1
  BY <1>1 DEF TracesDone
<1>5. PICK place, n : /\ Placed(m, place, n) /\ AllBoundaries(place, n) /\ EarlierFirst(place, n)
  BY <1>1, <1>4, MergedAt
<1> HIDE DEF m, e
<1>6. n = Len(m)
  <2>1. n \in Nat /\ DOMAIN m = 1..n
    BY <1>5 DEF Placed
  <2> QED
    BY <1>2, <2>1
<1>7. e \in Seq(X) /\ \E at : Thinned(e, m, at)
  BY <1>1, <1>2, <1>3, CappedIs, CappedAt
<1>8. \A c \in DOMAIN traces : KernelsFirst(traces[c].events)
  BY <1>1, TraceIs
<1>9. PICK there : /\ Placed(ByTime(e), there, Len(e)) /\ AllBoundaries(there, Len(e))
                   /\ EarlierFirst(there, Len(e))
  BY <1>1, <1>2, <1>5, <1>6, <1>7, <1>8, WrittenAt
<1>10. ASSUME NEW c \in DOMAIN traces,
              NEW whole, whole = ByTime(traces[c].events),
              NEW kept, kept = EventsOf(ByTime(e), c)
       PROVE  /\ IsSubsequence(kept, [i \in DOMAIN whole |-> OnCore(whole[i], c)])
              /\ Len(KernelsOf(kept)) = Kernels(c)
  BY <1>1, <1>9, <1>10, CoreOrder
<1> QED
  BY <1>10 DEF CoreOrderKept, e

------------------------------------------------------------------------------
(* The theorems *)

\* The invariant holds in every state.
LEMMA InvAlways == ProfileSpec => []ChipInv
<1>1. ProfileInit => ChipInv
  BY InitIs DEF ProfileInit
<1>2. ChipInv /\ [ProfileNext]_profileVars => ChipInv'
  <2>1. [ProfileNext]_profileVars => [Next]_ingestVars
    BY DEF ProfileNext, MapTable, IngestRows, profileVars
  <2> QED
    BY <2>1, StepKeeps
<1> QED
  BY <1>1, <1>2, PTL DEF ProfileSpec

\* However the rows of a core are skipped, aggregated, resolved and spread, the accesses and
\* buckets hold no more bytes than the rows read, and each spread of _append_proportional_accesses
\* loses fewer than min_transfer_bytes.
THEOREM NoBytesInvented == ProfileSpec => []BytesConserved
<1>1. ChipInv => BytesConserved
  BY ConservedIs
<1> QED
  BY <1>1, InvAlways, PTL

\* The accesses to a slot of the NEFF table, with what waits in its buckets, have every byte
\* that its rows had, per operation.
THEOREM SlotsKeepTheirBytes == ProfileSpec => []CatalogBytesExact
<1>1. ChipInv => CatalogBytesExact
  BY ExactIs
<1> QED
  BY <1>1, InvAlways, PTL

\* Every access of the written trace is of a tensor of that trace that is as large as the
\* transfer; after merge_traces it runs on the tensor's core, and every boundary has its core.
THEOREM TensorsAlwaysFound == ProfileSpec => []AccessesFindTensors
<1>1. ChipInv => AccessesFindTensors
  BY TensorsFound
<1> QED
  BY <1>1, InvAlways, PTL

\* The written trace has as many events as the cores' traces together, or as the cap allows
\* when they are more, for every cap with room for the kernel boundaries.
THEOREM CapAlwaysUsedUp == ProfileSpec => []CapRespected
<1>1. ChipInv => CapRespected
  BY CapIs
<1> QED
  BY <1>1, InvAlways, PTL

\* Each core's events stand in the sorted chip trace in the order in which the core's own trace
\* would have them: merging and downsampling drop accesses only, and keep every boundary
\* before the accesses that had it before them.
THEOREM CoreOrderAlwaysKept == ProfileSpec => []CoreOrderKept
<1>1. ChipInv => CoreOrderKept
  BY OrderKept
<1> QED
  BY <1>1, InvAlways, PTL

------------------------------------------------------------------------------
(* Ids of the catalog *)

\* An entry keeps its variable, and one that is no slot has a name that spells it.
Spelled(e, v) ==
  e.variable = v /\ v # NoName /\ (v.kind \notin {"input", "output"} => e.name.of = v)

CatalogInv ==
  /\ graph \in DOMAIN Graphs /\ listed \in Nat
  /\ IsFiniteSet(DOMAIN catalog)
  /\ \A v \in DOMAIN catalog : Spelled(catalog[v], v)

\* The name of what is no slot spells its variable.
LEMMA OwnName ==
  ASSUME NEW n, n.variable.kind \notin {"input", "output"}
  PROVE  MapTensor(n).name.of = n.variable
<1>1. MapTensor(n) = CompilerWeight(n) \/ MapTensor(n) = Unknown(n)
  <2>1. CASE n.type = "WEIGHT"
    BY <2>1 DEF MapTensor
  <2>2. CASE n.type # "WEIGHT"
    BY <2>2 DEF MapTensor
  <2> QED
    BY <2>1, <2>2
<1>2. CompilerWeight(n).name.of = n.variable
  BY DEF CompilerWeight, Own
<1>3. Unknown(n).name.of = n.variable
  BY DEF Unknown, Own
<1> QED
  BY <1>1, <1>2, <1>3

\* AddNode preserves the invariant.
LEMMA NodeAdded ==
  ASSUME CatalogInv, AddNode
  PROVE  CatalogInv'
<1> DEFINE n == Table[listed + 1]
           e == EntryOf(n)
<1>1. /\ listed < Len(Table) /\ listed' = listed + 1 /\ graph' = graph
      /\ catalog' = [v \in DOMAIN catalog \cup {e.variable} |-> IF v = e.variable THEN e ELSE catalog[v]]
  BY DEF AddNode
<1>2. listed \in Nat /\ graph \in DOMAIN Graphs
  BY DEF CatalogInv
<1>3. n.variable # NoName
  <2>1. Table \in Seq(ToSet(Table)) /\ \A m \in ToSet(Table) : m.variable # NoName
    BY <1>2, GraphsAssumption DEF Table
  <2>2. listed + 1 \in DOMAIN Table
    BY <1>1, <1>2, <2>1
  <2> QED
    BY <2>1, <2>2 DEF ToSet
<1> HIDE DEF n
<1>4. e.variable = n.variable /\ e.name = MapTensor(n).name
  BY DEF EntryOf, Entry
<1> HIDE DEF e
<1>5. Spelled(e, e.variable)
  BY <1>3, <1>4, OwnName DEF Spelled
<1>6. DOMAIN catalog' = DOMAIN catalog \cup {e.variable}
  BY <1>1
<1>7. IsFiniteSet(DOMAIN catalog')
  BY <1>6, FS_AddElement DEF CatalogInv
<1>8. \A v \in DOMAIN catalog' : Spelled(catalog'[v], v)
  BY <1>1, <1>5, <1>6 DEF CatalogInv
<1>9. graph' \in DOMAIN Graphs /\ listed' \in Nat
  BY <1>1, <1>2
<1> QED
  BY <1>7, <1>8, <1>9 DEF CatalogInv

\* Every step preserves the invariant.
LEMMA CatalogStep == CatalogInv /\ [ProfileNext]_profileVars => CatalogInv'
<1> SUFFICES ASSUME CatalogInv, [ProfileNext]_profileVars PROVE CatalogInv'
  OBVIOUS
<1>1. CASE AddNode
  BY <1>1, NodeAdded
<1>2. CASE UNCHANGED <<graph, listed, catalog>>
  <2>1. graph' = graph /\ listed' = listed /\ catalog' = catalog
    BY <1>2
  <2> QED
    BY <2>1 DEF CatalogInv, Spelled
<1>3. AddNode \/ UNCHANGED <<graph, listed, catalog>>
  <2>1. CASE MapTable
    BY <2>1 DEF MapTable, MapperNext, CreateMapper, ResolveTransfer
  <2>2. CASE IngestRows
    BY <2>2 DEF IngestRows, mapperVars
  <2>3. CASE UNCHANGED profileVars
    BY <2>3 DEF profileVars, mapperVars
  <2> QED
    BY <2>1, <2>2, <2>3 DEF ProfileNext
<1> QED
  BY <1>1, <1>2, <1>3

\* The invariant implies that ids are unique.
LEMMA UniqueIs ==
  ASSUME CatalogInv
  PROVE  IdsAreUnique
<1> DEFINE S == DOMAIN catalog
           f == [v \in S |-> TensorId(catalog[v])]
           T == {TensorId(catalog[v]) : v \in S}
<1>1. ASSUME NEW v \in S, NEW w \in S, TensorId(catalog[v]) = TensorId(catalog[w])
      PROVE  v = w
  <2>1. Spelled(catalog[v], v) /\ Spelled(catalog[w], w)
    BY DEF CatalogInv
  <2> DEFINE a == catalog[v]
             b == catalog[w]
  <2> HIDE DEF a, b
  <2>2. /\ TensorId(a).name = a.name /\ TensorId(b).name = b.name
        /\ TensorId(a).slot = (IF a.variable.kind \in {"input", "output"} THEN a.variable ELSE NoName)
        /\ TensorId(b).slot = (IF b.variable.kind \in {"input", "output"} THEN b.variable ELSE NoName)
    BY DEF TensorId
  <2> QED
    BY <1>1, <2>1, <2>2 DEF a, b, Spelled
<1>2. ExistsBijection(S, T)
  <2>1. f \in [S -> T] /\ (\A v, w \in S : f[v] = f[w] => v = w) /\ \A t \in T : \E v \in S : f[v] = t
    BY <1>1
  <2> HIDE DEF f, S, T
  <2> QED
    BY <2>1 DEF ExistsBijection, Bijection, Injection, IsInjective, Surjection
<1>3. IsFiniteSet(S)
  BY DEF CatalogInv
<1> HIDE DEF f, S, T
<1>4. Cardinality(S) = Cardinality(T)
  BY <1>2, <1>3, FS_Bijection
<1> QED
  BY <1>4 DEF IdsAreUnique, S, T

\* The entries of the catalog have different ids, whatever names the mapper finds: a slot's id
\* has its number, and the name of anything else spells its variable.
THEOREM IdsStayUnique == ProfileSpec => []IdsAreUnique
<1>1. ProfileInit => CatalogInv
  <2> SUFFICES ASSUME ProfileInit PROVE CatalogInv
    OBVIOUS
  <2>1. graph \in DOMAIN Graphs /\ listed = 0 /\ catalog = <<>>
    BY DEF ProfileInit, MapperInit
  <2>2. DOMAIN catalog = {}
    BY <2>1
  <2> QED
    BY <2>1, <2>2, FS_EmptySet DEF CatalogInv
<1>2. CatalogInv => IdsAreUnique
  BY UniqueIs
<1> QED
  BY <1>1, <1>2, CatalogStep, PTL DEF ProfileSpec
=============================================================================
