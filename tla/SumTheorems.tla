----------------------------- MODULE SumTheorems -----------------------------
(***************************************************************************)
(* What the sums over a function (SumFunctionOnSet) return, whatever order *)
(* the fold takes the elements in, and the ranks of ordered elements.      *)
(* Induction is stated over sets of numbers and of subsets, so that the    *)
(* provers need no operator parameter.                                     *)
(***************************************************************************)
EXTENDS Integers, FiniteSets, Functions, FiniteSetTheorems, WellFoundedInduction, TLAPS

------------------------------------------------------------------------------
(* Induction *)

\* A set with 0 that is closed under successor holds every natural number.
LEMMA NatSetInduction ==
  ASSUME NEW S, 0 \in S, \A n \in Nat : n \in S => n + 1 \in S
  PROVE  Nat \subseteq S
<1> DEFINE T == Nat \ S
<1> SUFFICES ASSUME T # {} PROVE FALSE
  OBVIOUS
<1> DEFINE Less == {ss \in Nat \X Nat : ss[1] < ss[2]}
<1>0. IsWellFoundedOn(Less, Nat)
  BY NatLessThanWellFounded DEF OpToRel
<1> HIDE DEF Less
<1>1. PICK x \in T : \A y \in T : ~ (<<y, x>> \in Less)
  BY <1>0, WFMin
<1>2. x \in Nat /\ x # 0
  OBVIOUS
<1>3. x - 1 \in Nat /\ x - 1 < x /\ (x - 1) + 1 = x
  BY <1>2
<1>4. x - 1 \in S
  BY <1>1, <1>2, <1>3 DEF Less
<1> QED
  BY <1>3, <1>4

\* What a subset of a finite set and its cardinality lose with one element.
LEMMA SubsetCardinality ==
  ASSUME NEW S, IsFiniteSet(S), NEW s \in SUBSET S
  PROVE  /\ IsFiniteSet(s) /\ Cardinality(s) \in Nat
         /\ Cardinality(s) = 0 <=> s = {}
         /\ \A x \in s : IsFiniteSet(s \ {x}) /\ Cardinality(s \ {x}) = Cardinality(s) - 1
<1>1. IsFiniteSet(s)
  BY FS_Subset
<1>2. Cardinality(s) \in Nat /\ (Cardinality(s) = 0 <=> s = {})
  BY <1>1, FS_CardinalityType, FS_EmptySet
<1>3. \A x \in s : IsFiniteSet(s \ {x}) /\ Cardinality(s \ {x}) = Cardinality(s) - 1
  BY <1>1, FS_RemoveElement
<1> QED
  BY <1>1, <1>2, <1>3

\* A set of subsets of S that has the empty one, and each subset that has some
\* member whose removal leads into the set, has them all.
LEMMA SubsetInduction ==
  ASSUME NEW S, IsFiniteSet(S), NEW Good, {} \in Good,
         \A s \in SUBSET S : s # {} /\ (\A x \in s : s \ {x} \in Good) => s \in Good
  PROVE  SUBSET S \subseteq Good
<1> DEFINE Reached == {n \in Nat : \A s \in SUBSET S : Cardinality(s) = n => s \in Good}
<1>1. 0 \in Reached
  <2>1. ASSUME NEW s \in SUBSET S, Cardinality(s) = 0 PROVE s \in Good
    BY <2>1, SubsetCardinality
  <2> QED
    BY <2>1
<1>2. ASSUME NEW n \in Nat, n \in Reached
      PROVE  n + 1 \in Reached
  <2>1. ASSUME NEW s \in SUBSET S, Cardinality(s) = n + 1
        PROVE  s \in Good
    <3>1. s # {} /\ \A x \in s : Cardinality(s \ {x}) = n /\ s \ {x} \in SUBSET S
      BY <2>1, SubsetCardinality
    <3>2. \A x \in s : s \ {x} \in Good
      BY <1>2, <3>1
    <3> QED
      BY <3>1, <3>2
  <2> QED
    BY <2>1
<1> HIDE DEF Reached
<1>3. Nat \subseteq Reached
  BY <1>1, <1>2, NatSetInduction
<1>4. ASSUME NEW s \in SUBSET S PROVE s \in Good
  <2>1. Cardinality(s) \in Nat
    BY SubsetCardinality
  <2> QED
    BY <1>3, <2>1 DEF Reached
<1> QED
  BY <1>4

------------------------------------------------------------------------------
(* The function that the fold is defined by *)

Pick(s) == CHOOSE x \in s : TRUE

\* g gives the sums of f over the subsets of S, one element at a time.
GivesSums(g, f, S) ==
  g = [s \in SUBSET S |-> IF s = {} THEN 0 ELSE f[Pick(s)] + g[s \ {Pick(s)}]]

\* The choice from a set is one of its members.
LEMMA PickIn == \A s : s # {} => Pick(s) \in s
  BY DEF Pick

\* There is such a function for every finite set.
LEMMA SumsExist ==
  ASSUME NEW f, NEW S, IsFiniteSet(S)
  PROVE  \E g : GivesSums(g, f, S)
<1> DEFINE Small(n) == {s \in SUBSET S : Cardinality(s) <= n}
           Sum(g, s) == IF s = {} THEN 0 ELSE f[Pick(s)] + g[s \ {Pick(s)}]
           Solves(g, n) == \A s \in Small(n) : g[s] = Sum(g, s)
           Reached == {n \in Nat : \E g : Solves(g, n)}
<1>0. ASSUME NEW s \in SUBSET S
      PROVE  /\ Cardinality(s) \in Nat /\ Cardinality(s) <= Cardinality(S)
             /\ (Cardinality(s) = 0 <=> s = {})
             /\ s # {} => /\ s \ {Pick(s)} \in SUBSET S
                          /\ Cardinality(s \ {Pick(s)}) = Cardinality(s) - 1
  <2>1. Cardinality(s) <= Cardinality(S)
    BY FS_Subset
  <2> QED
    BY <2>1, SubsetCardinality, PickIn
<1>1. 0 \in Reached
  <2> DEFINE g == [s \in Small(0) |-> 0]
  <2>1. ASSUME NEW s \in Small(0) PROVE s = {}
    <3>1. s \in SUBSET S /\ Cardinality(s) <= 0
      OBVIOUS
    <3>2. Cardinality(s) \in Nat /\ (Cardinality(s) = 0 <=> s = {})
      BY <3>1, SubsetCardinality
    <3> QED
      BY <3>1, <3>2
  <2>2. Solves(g, 0)
    BY <2>1
  <2> QED
    BY <2>2
<1>2. ASSUME NEW n \in Nat, n \in Reached
      PROVE  n + 1 \in Reached
  <2>1. PICK g : Solves(g, n)
    BY <1>2
  <2> DEFINE h == [s \in Small(n + 1) |-> Sum(g, s)]
  <2>2. ASSUME NEW s \in Small(n + 1), s # {}
        PROVE  s \ {Pick(s)} \in Small(n) /\ s \ {Pick(s)} \in Small(n + 1)
    BY <1>0, <2>2
  <2>3. ASSUME NEW s \in Small(n) PROVE g[s] = Sum(g, s)
    BY <2>1
  <2>4. ASSUME NEW s \in Small(n + 1) PROVE h[s] = Sum(g, s)
    OBVIOUS
  <2> HIDE DEF h, Small
  <2>5. ASSUME NEW s \in Small(n + 1) PROVE h[s] = Sum(h, s)
    <3>1. CASE s = {}
      BY <3>1, <2>4
    <3>2. CASE s # {}
      <4>1. h[s \ {Pick(s)}] = g[s \ {Pick(s)}]
        BY <3>2, <2>2, <2>3, <2>4
      <4> QED
        BY <3>2, <4>1, <2>4
    <3> QED
      BY <3>1, <3>2
  <2>6. Solves(h, n + 1)
    BY <2>5
  <2> HIDE DEF Solves
  <2> QED
    BY <2>6
<1>3. Nat \subseteq Reached
  <2> HIDE DEF Reached
  <2> QED
    BY <1>1, <1>2, NatSetInduction
<1>4. PICK g : Solves(g, Cardinality(S))
  BY <1>3, <1>0
<1>5. \A s \in SUBSET S : s \in Small(Cardinality(S))
  BY <1>0
<1> DEFINE h == [s \in SUBSET S |-> g[s]]
<1>6. h = [s \in SUBSET S |-> IF s = {} THEN 0 ELSE f[Pick(s)] + h[s \ {Pick(s)}]]
  BY <1>4, <1>5
<1> HIDE DEF h
<1> QED
  BY <1>6 DEF GivesSums

\* The solutions over a set and over one of its subsets agree on that subset.
LEMMA SumsAgree ==
  ASSUME NEW f, NEW S, IsFiniteSet(S), NEW T \in SUBSET S, NEW g, NEW h,
         GivesSums(g, f, S), GivesSums(h, f, T)
  PROVE  \A s \in SUBSET T : g[s] = h[s]
<1> DEFINE Good == {s \in SUBSET T : g[s] = h[s]}
<1>1. \A s \in SUBSET S : g[s] = IF s = {} THEN 0 ELSE f[Pick(s)] + g[s \ {Pick(s)}]
  BY DEF GivesSums
<1>2. \A s \in SUBSET T : h[s] = IF s = {} THEN 0 ELSE f[Pick(s)] + h[s \ {Pick(s)}]
  BY DEF GivesSums
<1>3. IsFiniteSet(T)
  BY FS_Subset
<1>4. {} \in Good
  BY <1>1, <1>2
<1>5. ASSUME NEW s \in SUBSET T, s # {}, \A x \in s : s \ {x} \in Good
      PROVE  s \in Good
  <2>1. g[s \ {Pick(s)}] = h[s \ {Pick(s)}]
    BY <1>5, PickIn
  <2>2. g[s] = f[Pick(s)] + g[s \ {Pick(s)}] /\ h[s] = f[Pick(s)] + h[s \ {Pick(s)}]
    BY <1>1, <1>2, <1>5
  <2> QED
    BY <2>1, <2>2
<1> HIDE DEF Good
<1>6. SUBSET T \subseteq Good
  BY <1>3, <1>4, <1>5, SubsetInduction
<1> QED
  BY <1>6 DEF Good

\* The sum is what the chosen solution gives.
LEMMA SumIsSolution ==
  ASSUME NEW f, NEW S, IsFiniteSet(S)
  PROVE  \E g : GivesSums(g, f, S) /\ SumFunctionOnSet(f, S) = g[S]
<1> DEFINE g == CHOOSE g : GivesSums(g, f, S)
<1>1. GivesSums(g, f, S)
  BY SumsExist
<1>2. SumFunctionOnSet(f, S) = g[S]
  BY DEF SumFunctionOnSet, FoldFunctionOnSet, MapThenFoldSet, GivesSums, Pick
<1> QED
  BY <1>1, <1>2

\* The empty sum is 0.
LEMMA SumEmpty ==
  ASSUME NEW f
  PROVE  SumFunctionOnSet(f, {}) = 0
<1>1. IsFiniteSet({})
  BY FS_EmptySet
<1>2. PICK g : GivesSums(g, f, {}) /\ SumFunctionOnSet(f, {}) = g[{}]
  BY <1>1, SumIsSolution
<1> QED
  BY <1>2 DEF GivesSums

\* The fold takes out the element it chooses.
LEMMA SumPick ==
  ASSUME NEW f, NEW S, IsFiniteSet(S), S # {}
  PROVE  SumFunctionOnSet(f, S) = f[Pick(S)] + SumFunctionOnSet(f, S \ {Pick(S)})
<1> DEFINE T == S \ {Pick(S)}
<1>1. IsFiniteSet(T) /\ T \in SUBSET S /\ Pick(S) \in S
  BY FS_Subset, PickIn
<1>2. PICK g : GivesSums(g, f, S) /\ SumFunctionOnSet(f, S) = g[S]
  BY SumIsSolution
<1>3. PICK h : GivesSums(h, f, T) /\ SumFunctionOnSet(f, T) = h[T]
  BY <1>1, SumIsSolution
<1>4. g[T] = h[T]
  BY <1>1, <1>2, <1>3, SumsAgree
<1>5. g[S] = f[Pick(S)] + g[T]
  BY <1>2 DEF GivesSums
<1> QED
  BY <1>2, <1>3, <1>4, <1>5

\* The sum over one element.
LEMMA SumSingle ==
  ASSUME NEW f, NEW x, f[x] \in Int
  PROVE  SumFunctionOnSet(f, {x}) = f[x]
<1>1. IsFiniteSet({x}) /\ {x} # {} /\ Pick({x}) = x
  BY FS_Singleton, PickIn
<1>2. {x} \ {x} = {}
  OBVIOUS
<1> QED
  BY <1>1, <1>2, SumPick, SumEmpty

------------------------------------------------------------------------------
(* The laws of sums *)

\* The sum of integers is an integer.
LEMMA SumInt ==
  ASSUME NEW S, IsFiniteSet(S), NEW f, \A x \in S : f[x] \in Int
  PROVE  SumFunctionOnSet(f, S) \in Int
<1> DEFINE Good == {s \in SUBSET S : SumFunctionOnSet(f, s) \in Int}
<1>1. {} \in Good
  BY SumEmpty
<1>2. ASSUME NEW s \in SUBSET S, s # {}, \A x \in s : s \ {x} \in Good
      PROVE  s \in Good
  <2>1. IsFiniteSet(s) /\ Pick(s) \in s
    BY <1>2, FS_Subset, PickIn
  <2>2. SumFunctionOnSet(f, s) = f[Pick(s)] + SumFunctionOnSet(f, s \ {Pick(s)})
    BY <1>2, <2>1, SumPick
  <2> QED
    BY <1>2, <2>1, <2>2
<1> HIDE DEF Good
<1>3. SUBSET S \subseteq Good
  BY <1>1, <1>2, SubsetInduction
<1> QED
  BY <1>3 DEF Good

\* Any member can be taken out first.
LEMMA SumRemove ==
  ASSUME NEW S, IsFiniteSet(S), NEW f, \A x \in S : f[x] \in Int
  PROVE  \A x \in S : SumFunctionOnSet(f, S) = f[x] + SumFunctionOnSet(f, S \ {x})
<1> DEFINE Sum(s) == SumFunctionOnSet(f, s)
           Good == {s \in SUBSET S : \A x \in s : Sum(s) = f[x] + Sum(s \ {x})}
<1>0. \A s \in SUBSET S : IsFiniteSet(s) /\ Sum(s) \in Int
  BY FS_Subset, SumInt
<1>1. {} \in Good
  OBVIOUS
<1>2. ASSUME NEW s \in SUBSET S, s # {}, \A x \in s : s \ {x} \in Good
      PROVE  s \in Good
  <2> DEFINE p == Pick(s)
  <2>1. IsFiniteSet(s) /\ p \in s
    BY <1>2, FS_Subset, PickIn
  <2>2. Sum(s) = f[p] + Sum(s \ {p})
    BY <1>2, <2>1, SumPick
  <2>3. ASSUME NEW x \in s, x # p
        PROVE  Sum(s) = f[x] + Sum(s \ {x})
    <3>1. Sum(s \ {p}) = f[x] + Sum((s \ {p}) \ {x})
      BY <1>2, <2>1, <2>3
    <3>2. Sum(s \ {x}) = f[p] + Sum((s \ {p}) \ {x})
      <4>1. (s \ {x}) \ {p} = (s \ {p}) \ {x}
        OBVIOUS
      <4> QED
        BY <1>2, <2>1, <2>3, <4>1
    <3>3. f[x] \in Int /\ f[p] \in Int /\ Sum((s \ {p}) \ {x}) \in Int
      BY <1>0, <2>1
    <3> HIDE DEF Sum, p
    <3> QED
      BY <2>2, <3>1, <3>2, <3>3
  <2> HIDE DEF Sum, p
  <2> QED
    BY <2>2, <2>3
<1> HIDE DEF Good
<1>3. SUBSET S \subseteq Good
  BY <1>1, <1>2, SubsetInduction
<1> QED
  BY <1>3 DEF Good

\* A newcomer adds its value.
LEMMA SumInsert ==
  ASSUME NEW S, IsFiniteSet(S), NEW x, x \notin S, NEW f, \A y \in S \cup {x} : f[y] \in Int
  PROVE  SumFunctionOnSet(f, S \cup {x}) = f[x] + SumFunctionOnSet(f, S)
<1>1. IsFiniteSet(S \cup {x})
  BY FS_AddElement
<1>2. (S \cup {x}) \ {x} = S
  OBVIOUS
<1> QED
  BY <1>1, <1>2, SumRemove

\* Only the values on the set matter.
LEMMA SumSame ==
  ASSUME NEW S, IsFiniteSet(S), NEW f, NEW g, \A x \in S : f[x] = g[x]
  PROVE  SumFunctionOnSet(f, S) = SumFunctionOnSet(g, S)
<1> DEFINE Good == {s \in SUBSET S : SumFunctionOnSet(f, s) = SumFunctionOnSet(g, s)}
<1>1. {} \in Good
  BY SumEmpty
<1>2. ASSUME NEW s \in SUBSET S, s # {}, \A x \in s : s \ {x} \in Good
      PROVE  s \in Good
  <2>1. IsFiniteSet(s) /\ Pick(s) \in s
    BY <1>2, FS_Subset, PickIn
  <2>2. /\ SumFunctionOnSet(f, s) = f[Pick(s)] + SumFunctionOnSet(f, s \ {Pick(s)})
        /\ SumFunctionOnSet(g, s) = g[Pick(s)] + SumFunctionOnSet(g, s \ {Pick(s)})
    BY <1>2, <2>1, SumPick
  <2> QED
    BY <1>2, <2>1, <2>2
<1> HIDE DEF Good
<1>3. SUBSET S \subseteq Good
  BY <1>1, <1>2, SubsetInduction
<1> QED
  BY <1>3 DEF Good

\* One value changes the sum by what it changes.
LEMMA SumUpdate ==
  ASSUME NEW S, IsFiniteSet(S), NEW f, NEW g, NEW x \in S,
         \A y \in S : f[y] \in Int /\ g[y] \in Int, \A y \in S \ {x} : f[y] = g[y]
  PROVE  SumFunctionOnSet(g, S) = SumFunctionOnSet(f, S) + g[x] - f[x]
<1>1. IsFiniteSet(S \ {x})
  BY FS_Subset
<1>2. SumFunctionOnSet(f, S \ {x}) = SumFunctionOnSet(g, S \ {x})
  BY <1>1, SumSame
<1>3. SumFunctionOnSet(f, S \ {x}) \in Int
  BY <1>1, SumInt
<1>4. /\ SumFunctionOnSet(f, S) = f[x] + SumFunctionOnSet(f, S \ {x})
      /\ SumFunctionOnSet(g, S) = g[x] + SumFunctionOnSet(g, S \ {x})
  BY SumRemove
<1> QED
  BY <1>2, <1>3, <1>4

\* A sum of sums is the sum of the pointwise ones.
LEMMA SumPlus ==
  ASSUME NEW S, IsFiniteSet(S), NEW f, NEW g, NEW h,
         \A x \in S : f[x] \in Int /\ g[x] \in Int /\ h[x] = f[x] + g[x]
  PROVE  SumFunctionOnSet(h, S) = SumFunctionOnSet(f, S) + SumFunctionOnSet(g, S)
<1> DEFINE Sum(e, s) == SumFunctionOnSet(e, s)
           Good == {s \in SUBSET S : Sum(h, s) = Sum(f, s) + Sum(g, s)}
<1>1. {} \in Good
  BY SumEmpty
<1>2. ASSUME NEW s \in SUBSET S, s # {}, \A x \in s : s \ {x} \in Good
      PROVE  s \in Good
  <2> DEFINE p == Pick(s)
             t == s \ {p}
  <2>1. IsFiniteSet(s) /\ IsFiniteSet(t) /\ p \in s
    BY <1>2, FS_Subset, PickIn
  <2>2. /\ Sum(f, s) = f[p] + Sum(f, t) /\ Sum(g, s) = g[p] + Sum(g, t)
        /\ Sum(h, s) = h[p] + Sum(h, t)
    BY <1>2, <2>1, SumPick
  <2>3. Sum(f, t) \in Int /\ Sum(g, t) \in Int
    BY <2>1, SumInt
  <2>4. f[p] \in Int /\ g[p] \in Int /\ h[p] = f[p] + g[p]
    BY <2>1
  <2>5. Sum(h, t) = Sum(f, t) + Sum(g, t)
    BY <1>2, <2>1
  <2> HIDE DEF Sum, t, p
  <2> QED
    BY <2>2, <2>3, <2>4, <2>5
<1> HIDE DEF Good
<1>3. SUBSET S \subseteq Good
  BY <1>1, <1>2, SubsetInduction
<1> QED
  BY <1>3 DEF Good

\* Larger values have the larger sum.
LEMMA SumMonotone ==
  ASSUME NEW S, IsFiniteSet(S), NEW f, NEW g,
         \A x \in S : f[x] \in Int /\ g[x] \in Int /\ f[x] <= g[x]
  PROVE  SumFunctionOnSet(f, S) <= SumFunctionOnSet(g, S)
<1> DEFINE Sum(e, s) == SumFunctionOnSet(e, s)
           Good == {s \in SUBSET S : Sum(f, s) <= Sum(g, s)}
<1>1. {} \in Good
  BY SumEmpty
<1>2. ASSUME NEW s \in SUBSET S, s # {}, \A x \in s : s \ {x} \in Good
      PROVE  s \in Good
  <2> DEFINE p == Pick(s)
             t == s \ {p}
  <2>1. IsFiniteSet(s) /\ IsFiniteSet(t) /\ p \in s
    BY <1>2, FS_Subset, PickIn
  <2>2. Sum(f, s) = f[p] + Sum(f, t) /\ Sum(g, s) = g[p] + Sum(g, t)
    BY <1>2, <2>1, SumPick
  <2>3. Sum(f, t) \in Int /\ Sum(g, t) \in Int
    BY <2>1, SumInt
  <2>4. f[p] \in Int /\ g[p] \in Int /\ f[p] <= g[p]
    BY <2>1
  <2>5. Sum(f, t) <= Sum(g, t)
    BY <1>2, <2>1
  <2> HIDE DEF Sum, t, p
  <2> QED
    BY <2>2, <2>3, <2>4, <2>5
<1> HIDE DEF Good
<1>3. SUBSET S \subseteq Good
  BY <1>1, <1>2, SubsetInduction
<1> QED
  BY <1>3 DEF Good

\* A sum of zeros is zero.
LEMMA SumZero ==
  ASSUME NEW S, IsFiniteSet(S), NEW f, \A x \in S : f[x] = 0
  PROVE  SumFunctionOnSet(f, S) = 0
<1> DEFINE Good == {s \in SUBSET S : SumFunctionOnSet(f, s) = 0}
<1>1. {} \in Good
  BY SumEmpty
<1>2. ASSUME NEW s \in SUBSET S, s # {}, \A x \in s : s \ {x} \in Good
      PROVE  s \in Good
  <2>1. IsFiniteSet(s) /\ Pick(s) \in s
    BY <1>2, FS_Subset, PickIn
  <2>2. SumFunctionOnSet(f, s) = f[Pick(s)] + SumFunctionOnSet(f, s \ {Pick(s)})
    BY <1>2, <2>1, SumPick
  <2> QED
    BY <1>2, <2>1, <2>2
<1> HIDE DEF Good
<1>3. SUBSET S \subseteq Good
  BY <1>1, <1>2, SubsetInduction
<1> QED
  BY <1>3 DEF Good

\* A sum of counts is a count, and no part of it exceeds it.
LEMMA SumNat ==
  ASSUME NEW S, IsFiniteSet(S), NEW f, \A x \in S : f[x] \in Nat
  PROVE  /\ SumFunctionOnSet(f, S) \in Nat
         /\ \A x \in S : f[x] <= SumFunctionOnSet(f, S)
<1> DEFINE zero == [x \in S |-> 0]
<1>1. ASSUME NEW s \in SUBSET S PROVE SumFunctionOnSet(f, s) \in Nat
  <2>1. IsFiniteSet(s)
    BY FS_Subset
  <2>2. SumFunctionOnSet(zero, s) = 0
    BY <2>1, SumZero
  <2>3. SumFunctionOnSet(zero, s) <= SumFunctionOnSet(f, s)
    BY <2>1, SumMonotone
  <2>4. SumFunctionOnSet(f, s) \in Int
    BY <2>1, SumInt
  <2> QED
    BY <2>2, <2>3, <2>4
<1>2. ASSUME NEW x \in S PROVE f[x] <= SumFunctionOnSet(f, S)
  <2>1. SumFunctionOnSet(f, S) = f[x] + SumFunctionOnSet(f, S \ {x})
    BY SumRemove
  <2>2. SumFunctionOnSet(f, S \ {x}) \in Nat
    BY <1>1
  <2> QED
    BY <2>1, <2>2
<1> QED
  BY <1>1, <1>2

\* Part of the counts has no larger sum.
LEMMA SumSubset ==
  ASSUME NEW S, IsFiniteSet(S), NEW f, \A x \in S : f[x] \in Nat, NEW T \in SUBSET S
  PROVE  SumFunctionOnSet(f, T) <= SumFunctionOnSet(f, S)
<1> DEFINE Sum(s) == SumFunctionOnSet(f, s)
           Good == {s \in SUBSET S : \A t \in SUBSET s : Sum(t) <= Sum(s)}
<1>0. \A s \in SUBSET S : IsFiniteSet(s) /\ Sum(s) \in Nat
  BY FS_Subset, SumNat
<1>1. {} \in Good
  BY <1>0
<1>2. ASSUME NEW s \in SUBSET S, s # {}, \A x \in s : s \ {x} \in Good
      PROVE  s \in Good
  <2> SUFFICES ASSUME NEW t \in SUBSET s, t # s PROVE Sum(t) <= Sum(s)
    BY <1>0
  <2>1. PICK x \in s : x \notin t
    OBVIOUS
  <2>2. Sum(t) <= Sum(s \ {x})
    BY <1>2, <2>1
  <2>3. Sum(s) = f[x] + Sum(s \ {x})
    BY <1>0, SumRemove
  <2>4. f[x] \in Nat /\ Sum(s \ {x}) \in Nat /\ Sum(t) \in Nat
    BY <1>0
  <2> HIDE DEF Sum
  <2> QED
    BY <2>2, <2>3, <2>4
<1> HIDE DEF Good
<1>3. SUBSET S \subseteq Good
  BY <1>1, <1>2, SubsetInduction
<1> QED
  BY <1>3 DEF Good

\* Sets without a common element sum separately.
LEMMA SumUnion ==
  ASSUME NEW S, IsFiniteSet(S), NEW T, IsFiniteSet(T), S \cap T = {},
         NEW f, \A x \in S \cup T : f[x] \in Int
  PROVE  SumFunctionOnSet(f, S \cup T) = SumFunctionOnSet(f, S) + SumFunctionOnSet(f, T)
<1> DEFINE Sum(s) == SumFunctionOnSet(f, s)
           Good == {t \in SUBSET T : Sum(S \cup t) = Sum(S) + Sum(t)}
<1>0. ASSUME NEW t \in SUBSET T
      PROVE  IsFiniteSet(t) /\ IsFiniteSet(S \cup t) /\ Sum(t) \in Int /\ Sum(S) \in Int
  <2>1. IsFiniteSet(t) /\ IsFiniteSet(S \cup t)
    BY FS_Subset, FS_Union
  <2> QED
    BY <2>1, SumInt
<1>1. {} \in Good
  <2>1. Sum({}) = 0 /\ S \cup {} = S /\ Sum(S) \in Int
    BY <1>0, SumEmpty
  <2> QED
    BY <2>1
<1>2. ASSUME NEW t \in SUBSET T, t # {}, \A x \in t : t \ {x} \in Good
      PROVE  t \in Good
  <2>1. PICK x \in t : TRUE
    BY <1>2
  <2> DEFINE r == t \ {x}
  <2>2. r \in SUBSET T /\ r \in Good
    BY <1>2
  <2>3. Sum(t) = f[x] + Sum(r)
    <3>1. IsFiniteSet(r) /\ x \notin r /\ t = r \cup {x} /\ \A y \in r \cup {x} : f[y] \in Int
      BY <1>0, <2>2
    <3> HIDE DEF r
    <3> QED
      BY <3>1, SumInsert
  <2>4. Sum(S \cup t) = f[x] + Sum(S \cup r)
    <3>1. /\ IsFiniteSet(S \cup r) /\ x \notin S \cup r /\ S \cup t = (S \cup r) \cup {x}
          /\ \A y \in (S \cup r) \cup {x} : f[y] \in Int
      BY <1>0, <2>2
    <3> DEFINE q == S \cup r
    <3> HIDE DEF r, q
    <3>2. SumFunctionOnSet(f, q \cup {x}) = f[x] + SumFunctionOnSet(f, q)
      BY <3>1, SumInsert DEF q
    <3> QED
      BY <3>1, <3>2 DEF q
  <2>5. Sum(S \cup r) = Sum(S) + Sum(r) /\ Sum(r) \in Int /\ Sum(S) \in Int /\ f[x] \in Int
    BY <1>0, <2>2
  <2>6. Sum(S \cup t) = Sum(S) + Sum(t)
    <3> HIDE DEF r, Sum
    <3> QED
      BY <2>3, <2>4, <2>5
  <2> QED
    BY <2>6
<1>3. T \in Good
  <2> HIDE DEF Good
  <2> QED
    BY <1>1, <1>2, SubsetInduction
<1> QED
  BY <1>3

\* b gives every element of S a name of its own in T and leaves no name over.
Renames(b, S, T) ==
  /\ b \in [S -> T]
  /\ \A x, y \in S : b[x] = b[y] => x = y
  /\ \A z \in T : \E x \in S : b[x] = z

\* A renaming of the elements leaves a sum.
LEMMA SumRenamed ==
  ASSUME NEW S, IsFiniteSet(S), NEW T, NEW b, Renames(b, S, T),
         NEW f, NEW g, \A x \in S : f[x] \in Int /\ g[b[x]] = f[x]
  PROVE  SumFunctionOnSet(f, S) = SumFunctionOnSet(g, T)
<1> USE DEF Renames
<1> DEFINE Image(s) == {b[x] : x \in s}
           Good == {s \in SUBSET S : SumFunctionOnSet(f, s) = SumFunctionOnSet(g, Image(s))}
<1>1. {} \in Good
  <2>1. Image({}) = {}
    OBVIOUS
  <2> QED
    BY <2>1, SumEmpty
<1>2. ASSUME NEW s \in SUBSET S, s # {}, \A x \in s : s \ {x} \in Good
      PROVE  s \in Good
  <2>1. PICK x \in s : TRUE
    BY <1>2
  <2> DEFINE r == s \ {x}
  <2>2. r \in SUBSET S /\ r \in Good /\ IsFiniteSet(r)
    BY <1>2, FS_Subset
  <2>3. SumFunctionOnSet(f, s) = f[x] + SumFunctionOnSet(f, r)
    <3>1. x \notin r /\ s = r \cup {x} /\ \A y \in r \cup {x} : f[y] \in Int
      OBVIOUS
    <3> HIDE DEF r
    <3> QED
      BY <2>2, <3>1, SumInsert
  <2>4. SumFunctionOnSet(g, Image(s)) = g[b[x]] + SumFunctionOnSet(g, Image(r))
    <3>1. Image(s) = Image(r) \cup {b[x]} /\ b[x] \notin Image(r)
      OBVIOUS
    <3>2. IsFiniteSet(Image(r))
      <4> DEFINE c == [y \in r |-> b[y]]
      <4>1. c \in Surjection(r, Image(r))
        BY DEF Surjection
      <4> HIDE DEF c, Image
      <4> QED
        BY <2>2, <4>1, FS_Surjection
    <3>3. \A z \in Image(r) \cup {b[x]} : g[z] \in Int
      OBVIOUS
    <3> DEFINE q == Image(r)
    <3> HIDE DEF r, Image, q
    <3>4. SumFunctionOnSet(g, q \cup {b[x]}) = g[b[x]] + SumFunctionOnSet(g, q)
      BY <3>1, <3>2, <3>3, SumInsert DEF q
    <3> QED
      BY <3>1, <3>4 DEF q
  <2>5. SumFunctionOnSet(f, r) = SumFunctionOnSet(g, Image(r)) /\ g[b[x]] = f[x]
    BY <2>1, <2>2
  <2>6. SumFunctionOnSet(f, s) = SumFunctionOnSet(g, Image(s))
    BY <2>3, <2>4, <2>5
  <2> QED
    BY <2>6
<1>3. S \in Good
  <2> HIDE DEF Good
  <2> QED
    BY <1>1, <1>2, SubsetInduction
<1>4. Image(S) = T
  OBVIOUS
<1> QED
  BY <1>3, <1>4

\* Products of sums.
LEMMA Distributed ==
  ASSUME NEW a \in Int, NEW b \in Int, NEW c \in Int
  PROVE  a * (b + c) = a * b + a * c /\ (b + c) * a = b * a + c * a /\ a * b \in Int
  OBVIOUS

\* The sum of a multiple less a constant.
LEMMA SumAffine ==
  ASSUME NEW S, IsFiniteSet(S), NEW f, NEW h, NEW a \in Int, NEW c \in Int,
         \A x \in S : f[x] \in Int /\ h[x] = a * f[x] - c
  PROVE  SumFunctionOnSet(h, S) = a * SumFunctionOnSet(f, S) - Cardinality(S) * c
<1> DEFINE Sum(g, s) == SumFunctionOnSet(g, s)
           Good == {s \in SUBSET S : Sum(h, s) = a * Sum(f, s) - Cardinality(s) * c}
<1>1. {} \in Good
  <2>1. Sum(h, {}) = 0 /\ Sum(f, {}) = 0 /\ Cardinality({}) = 0
    BY SumEmpty, FS_EmptySet
  <2> QED
    BY <2>1
<1>2. ASSUME NEW s \in SUBSET S, s # {}, \A x \in s : s \ {x} \in Good PROVE s \in Good
  <2>1. PICK x \in s : TRUE
    BY <1>2
  <2> DEFINE r == s \ {x}
             n == Cardinality(r)
             F == Sum(f, r)
  <2>2. Sum(h, r) = a * F - n * c
    BY <1>2
  <2>3. IsFiniteSet(s) /\ IsFiniteSet(r) /\ Cardinality(s) = n + 1 /\ n \in Nat
    BY SubsetCardinality
  <2>4. (\A y \in s : f[y] \in Int /\ h[y] \in Int) /\ f[x] \in Int /\ h[x] = a * f[x] - c
    OBVIOUS
  <2>5. Sum(h, s) = h[x] + Sum(h, r) /\ Sum(f, s) = f[x] + F
    BY <2>3, <2>4, SumRemove
  <2>6. F \in Int
    BY <2>3, <2>4, SumInt
  <2> HIDE DEF F, n, Sum
  <2>7. Sum(h, s) = (a * f[x] - c) + (a * F - n * c)
    BY <2>2, <2>4, <2>5
  <2>8. a * (f[x] + F) = a * f[x] + a * F /\ (n + 1) * c = n * c + c
        /\ a * f[x] \in Int /\ a * F \in Int /\ n * c \in Int
    <3>1. f[x] \in Int /\ n \in Int /\ 1 \in Int
      BY <2>3, <2>4
    <3>2. 1 * c = c
      OBVIOUS
    <3> QED
      BY <2>6, <3>1, <3>2, Distributed
  <2>9. Sum(h, s) = a * Sum(f, s) - Cardinality(s) * c
    <3> DEFINE p == a * f[x]
               q == a * F
               m == n * c
    <3>1. Sum(h, s) = (p - c) + (q - m) /\ p \in Int /\ q \in Int /\ m \in Int
      BY <2>7, <2>8
    <3>2. a * Sum(f, s) = p + q /\ Cardinality(s) * c = m + c
      BY <2>3, <2>5, <2>8
    <3> HIDE DEF p, q, m
    <3> QED
      BY <3>1, <3>2
  <2> QED
    BY <2>9
<1>3. S \in Good
  <2> HIDE DEF Good
  <2> QED
    BY <1>1, <1>2, SubsetInduction
<1> QED
  BY <1>3

\* What the running sum of a sequence of numbers grows by.
LEMMA RunningSum ==
  ASSUME NEW n \in Nat, NEW z, \A k \in 1..n : z[k] \in Int
  PROVE  /\ SumFunctionOnSet(z, 1..0) = 0
         /\ \A k \in 0..n : SumFunctionOnSet(z, 1..k) \in Int
         /\ \A k \in 0..(n - 1) :
              SumFunctionOnSet(z, 1..(k + 1)) = SumFunctionOnSet(z, 1..k) + z[k + 1]
<1>1. SumFunctionOnSet(z, 1..0) = 0
  <2>1. 1..0 = {}
    OBVIOUS
  <2> QED
    BY <2>1, SumEmpty
<1>2. ASSUME NEW k \in 0..n PROVE IsFiniteSet(1..k) /\ SumFunctionOnSet(z, 1..k) \in Int
  <2>1. IsFiniteSet(1..k)
    BY FS_Interval
  <2>2. \A i \in 1..k : z[i] \in Int
    OBVIOUS
  <2> QED
    BY <2>1, <2>2, SumInt
<1>3. ASSUME NEW k \in 0..(n - 1)
      PROVE  SumFunctionOnSet(z, 1..(k + 1)) = SumFunctionOnSet(z, 1..k) + z[k + 1]
  <2>1. k + 1 \in 1..n /\ k \in 0..n /\ k + 1 \notin 1..k
    OBVIOUS
  <2>2. 1..(k + 1) = (1..k) \cup {k + 1}
    <3>1. \A i : i \in 1..(k + 1) <=> i \in 1..k \/ i = k + 1
      OBVIOUS
    <3> QED
      BY <3>1
  <2>3. \A i \in (1..k) \cup {k + 1} : z[i] \in Int
    OBVIOUS
  <2>4. IsFiniteSet(1..k) /\ SumFunctionOnSet(z, 1..k) \in Int /\ z[k + 1] \in Int
    BY <1>2, <2>1
  <2>5. SumFunctionOnSet(z, (1..k) \cup {k + 1}) = z[k + 1] + SumFunctionOnSet(z, 1..k)
    BY <2>1, <2>3, <2>4, SumInsert
  <2> DEFINE a == SumFunctionOnSet(z, 1..k)
             b == SumFunctionOnSet(z, 1..(k + 1))
  <2>6. b = z[k + 1] + a /\ a \in Int
    BY <2>2, <2>4, <2>5
  <2> HIDE DEF a, b
  <2>7. b = a + z[k + 1]
    BY <2>4, <2>6
  <2> QED
    BY <2>7 DEF a, b
<1> QED
  BY <1>1, <1>2, <1>3

\* The elements of a family of sets, each with the name of its set, are as many as those
\* of the sets together.
LEMMA CountFamily ==
  ASSUME NEW C, IsFiniteSet(C), NEW P, NEW n, \A c \in C : IsFiniteSet(P[c]) /\ n[c] = Cardinality(P[c])
  PROVE  /\ IsFiniteSet(UNION {{c} \X P[c] : c \in C})
         /\ Cardinality(UNION {{c} \X P[c] : c \in C}) = SumFunctionOnSet(n, C)
<1> DEFINE Family(s) == UNION {{c} \X P[c] : c \in s}
           Good == {s \in SUBSET C : /\ IsFiniteSet(Family(s))
                                     /\ Cardinality(Family(s)) = SumFunctionOnSet(n, s)}
<1>1. {} \in Good
  <2>1. Family({}) = {}
    OBVIOUS
  <2> QED
    BY <2>1, SumEmpty, FS_EmptySet
<1>2. ASSUME NEW s \in SUBSET C, s # {}, \A x \in s : s \ {x} \in Good
      PROVE  s \in Good
  <2>1. PICK x \in s : TRUE
    BY <1>2
  <2> DEFINE r == s \ {x}
             own == {x} \X P[x]
  <2>2. r \in SUBSET C /\ r \in Good /\ IsFiniteSet(r)
    BY <1>2, FS_Subset
  <2>3. SumFunctionOnSet(n, s) = n[x] + SumFunctionOnSet(n, r)
    <3>1. x \notin r /\ s = r \cup {x}
      OBVIOUS
    <3>2. \A y \in r \cup {x} : n[y] \in Int
      <4>1. \A y \in C : n[y] \in Int
        BY FS_CardinalityType
      <4> QED
        BY <4>1
    <3> HIDE DEF r
    <3> QED
      BY <2>2, <3>1, <3>2, SumInsert
  <2>4. IsFiniteSet(own) /\ Cardinality(own) = n[x]
    <3>1. IsFiniteSet({x}) /\ Cardinality({x}) = 1 /\ IsFiniteSet(P[x]) /\ n[x] = Cardinality(P[x])
      BY FS_Singleton
    <3>2. Cardinality(P[x]) \in Nat
      BY <3>1, FS_CardinalityType
    <3>3. IsFiniteSet(own) /\ Cardinality(own) = 1 * Cardinality(P[x])
      BY <3>1, FS_Product
    <3> QED
      BY <3>1, <3>2, <3>3
  <2>5. Family(s) = Family(r) \cup own /\ Family(r) \cap own = {}
    OBVIOUS
  <2>6. /\ IsFiniteSet(Family(s))
        /\ Cardinality(Family(s)) = Cardinality(Family(r)) + Cardinality(own)
               - Cardinality({})
    <3>1. IsFiniteSet(Family(r))
      BY <2>2
    <3> DEFINE q == Family(r)
    <3> HIDE DEF Family, own, r, q
    <3>2. IsFiniteSet(q \cup own) /\ Cardinality(q \cup own) = Cardinality(q) + Cardinality(own) - Cardinality(q \cap own)
      BY <2>4, <3>1, FS_Union DEF q
    <3> QED
      BY <2>5, <3>2 DEF q
  <2>7. Cardinality({}) = 0 /\ Cardinality(Family(r)) \in Nat /\ n[x] \in Nat
    <3>1. IsFiniteSet(Family(r)) /\ IsFiniteSet(P[x]) /\ n[x] = Cardinality(P[x])
      BY <2>2
    <3> HIDE DEF Family
    <3> QED
      BY <3>1, FS_EmptySet, FS_CardinalityType
  <2>8. IsFiniteSet(Family(s)) /\ Cardinality(Family(s)) = SumFunctionOnSet(n, s)
    <3>1. Cardinality(Family(r)) = SumFunctionOnSet(n, r)
      BY <2>2
    <3> HIDE DEF Family, own, r
    <3> QED
      BY <2>3, <2>4, <2>6, <2>7, <3>1
  <2> QED
    BY <2>8
<1>3. C \in Good
  <2> HIDE DEF Good
  <2> QED
    BY <1>1, <1>2, SubsetInduction
<1> QED
  BY <1>3

------------------------------------------------------------------------------
(* Ranks *)

\* A strict total order.
StrictOrder(S, order) ==
  /\ \A x \in S : <<x, x>> \notin order
  /\ \A x, y \in S : x # y => <<x, y>> \in order \/ <<y, x>> \in order
  /\ \A x, y, z \in S : <<x, y>> \in order /\ <<y, z>> \in order => <<x, z>> \in order

Earlier(S, order, x) == {y \in S : <<y, x>> \in order}

\* In a strict order the elements of a finite set have the ranks 0, 1, 2 and so on.
LEMMA RanksAre ==
  ASSUME NEW S, IsFiniteSet(S), NEW order, StrictOrder(S, order)
  PROVE  /\ Cardinality(S) \in Nat
         /\ \A x, y \in S :
              Cardinality(Earlier(S, order, x)) = Cardinality(Earlier(S, order, y)) => x = y
         /\ \A k \in 0..(Cardinality(S) - 1) : \E x \in S : Cardinality(Earlier(S, order, x)) = k
<1> DEFINE n == Cardinality(S)
           before(x) == Earlier(S, order, x)
           rank == [x \in S |-> Cardinality(before(x))]
<1>1. n \in Nat
  BY FS_CardinalityType
<1>2. ASSUME NEW x \in S PROVE IsFiniteSet(before(x)) /\ Cardinality(before(x)) \in 0..(n - 1)
  <2>1. before(x) \in SUBSET S /\ x \notin before(x)
    BY DEF Earlier, StrictOrder
  <2> HIDE DEF before
  <2>2. IsFiniteSet(before(x)) /\ Cardinality(before(x)) <= n /\ Cardinality(before(x)) # n
    BY <2>1, FS_Subset
  <2>3. Cardinality(before(x)) \in Nat
    BY <2>2, FS_CardinalityType
  <2> QED
    BY <1>1, <2>2, <2>3
<1>3. ASSUME NEW x \in S, NEW y \in S, <<x, y>> \in order
      PROVE  Cardinality(before(x)) # Cardinality(before(y))
  <2>1. before(x) \in SUBSET before(y) /\ x \in before(y) /\ x \notin before(x)
    BY <1>3 DEF Earlier, StrictOrder
  <2>2. IsFiniteSet(before(y))
    BY <1>2
  <2> HIDE DEF before
  <2> QED
    BY <2>1, <2>2, FS_Subset
<1>4. \A x, y \in S : Cardinality(before(x)) = Cardinality(before(y)) => x = y
  BY <1>3 DEF StrictOrder
<1>5. rank \in Injection(S, 0..(n - 1))
  <2>1. rank \in [S -> 0..(n - 1)]
    BY <1>2
  <2>2. \A x, y \in S : rank[x] = rank[y] => x = y
    BY <1>4
  <2> HIDE DEF rank
  <2> QED
    BY <2>1, <2>2 DEF Injection, IsInjective
<1>6. rank \in Surjection(S, 0..(n - 1))
  <2>1. IsFiniteSet(0..(n - 1)) /\ Cardinality(0..(n - 1)) = n
    BY <1>1, FS_Interval
  <2> HIDE DEF rank
  <2> QED
    BY <1>5, <2>1, FS_Injection
<1>7. \A i \in 0..(n - 1) : \E x \in S : rank[x] = i
  <2> HIDE DEF rank
  <2> QED
    BY <1>6 DEF Surjection
<1> QED
  BY <1>1, <1>4, <1>7
==============================================================================
