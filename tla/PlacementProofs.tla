--------------------------- MODULE PlacementProofs ---------------------------
(***************************************************************************)
(* Proofs about assign_home_levels, for every policy: the walk along the   *)
(* fallbacks finds the nearest enabled level, whatever cycles the map has, *)
(* and the capacity pass spills each pool by retention, until it fits and  *)
(* not further.  And about the sweep and the comparison of hierarchies:    *)
(* what is simulated against the baseline has the baseline's die area.     *)
(***************************************************************************)
EXTENDS Experiment, SumTheorems

PlacementTypeOK ==
  /\ config \in Configs
  /\ unplaced \in Seq(Tensors)
  /\ homes = [t \in Tensors |-> homes[t]]
  /\ byLevel \in [Levels -> SUBSET Tensors]
  /\ pending \in Seq(Levels) /\ IsInjective(pending)
  /\ walk \in [from : Levels, current : Levels, visited : SUBSET Levels]
  /\ pc = "fallback" => unplaced # <<>>
  /\ pc \in {"target", "spill"} => pending # <<>> /\ walk.from = Head(pending)

\* What a policy says is about levels of the hierarchy.
LEMMA ConfigTypes ==
  ASSUME config \in Configs
  PROVE  /\ config.enabled \subseteq Levels
         /\ \A l : FallbackFor(l) \in Levels
         /\ \A t \in Tensors : config.desired[t] \in Levels
         /\ config.victims \in {"best_case", "worst_case"}
<1>1. config \in Config
  BY PlacementAssumption
<1>2. PICK ls \in SUBSET Levels : config.fallback \in [ls -> Levels]
  BY <1>1 DEF Config
<1>3. "hbm" \in Levels
  BY PlacementAssumption
<1>4. \A l : FallbackFor(l) \in Levels
  BY <1>2, <1>3 DEF FallbackFor
<1> QED
  BY <1>1, <1>4 DEF Config

\* The rest of a list of different items does not hold the first.
LEMMA TailOfInjective ==
  ASSUME NEW X, NEW s \in Seq(X), s # <<>>, IsInjective(s)
  PROVE  /\ Head(s) \in X /\ Tail(s) \in Seq(X) /\ IsInjective(Tail(s))
         /\ Range(Tail(s)) = Range(s) \ {Head(s)} /\ Head(s) \in Range(s)
<1>1. /\ Len(s) \in Nat \ {0} /\ DOMAIN s = 1..Len(s) /\ Head(s) = s[1]
      /\ Tail(s) \in Seq(X) /\ DOMAIN Tail(s) = 1..(Len(s) - 1)
      /\ \A i \in 1..(Len(s) - 1) : Tail(s)[i] = s[i + 1]
  OBVIOUS
<1>2. \A i, j \in 1..Len(s) : s[i] = s[j] => i = j
  BY <1>1 DEF IsInjective
<1>3. IsInjective(Tail(s))
  BY <1>1, <1>2 DEF IsInjective
<1>4. ASSUME NEW x \in Range(Tail(s)) PROVE x \in Range(s) \ {Head(s)}
  <2>1. PICK i \in 1..(Len(s) - 1) : x = s[i + 1]
    BY <1>1, <1>4 DEF Range
  <2> QED
    BY <1>1, <1>2, <2>1 DEF Range
<1>5. ASSUME NEW x \in Range(s) \ {Head(s)} PROVE x \in Range(Tail(s))
  <2>1. PICK i \in 1..Len(s) : x = s[i]
    BY <1>1, <1>5 DEF Range
  <2>2. i # 1 /\ i - 1 \in 1..(Len(s) - 1) /\ Tail(s)[i - 1] = s[i]
    BY <1>1, <1>5, <2>1
  <2> QED
    BY <1>1, <2>1, <2>2 DEF Range
<1>6. Head(s) \in X /\ Head(s) \in Range(s)
  BY <1>1 DEF Range
<1> QED
  BY <1>1, <1>3, <1>4, <1>5, <1>6

\* The types hold initially and are kept.
LEMMA PlacementTypeInit == Init => PlacementTypeOK
<1> SUFFICES ASSUME Init PROVE PlacementTypeOK
  OBVIOUS
<1>1. IsInjective(<<>>)
  BY DEF IsInjective
<1> QED
  BY <1>1, PlacementAssumption DEF Init, PlacementTypeOK

\* Every step of placement keeps the types.
LEMMA PlacementTypeNext == PlacementTypeOK /\ [Next]_vars => PlacementTypeOK'
<1> SUFFICES ASSUME PlacementTypeOK, [Next]_vars PROVE PlacementTypeOK'
  OBVIOUS
<1>1. ASSUME NEW l, NEW t, Place(t, l), unplaced # <<>> PROVE PlacementTypeOK'
  <2>1. /\ Tail(unplaced) \in Seq(Tensors) /\ unplaced' = Tail(unplaced) /\ pc' = "assign"
        /\ UNCHANGED <<config, byLevel, pending, walk>> /\ homes' = [homes EXCEPT ![t] = l]
    BY <1>1 DEF Place, PlacementTypeOK
  <2> QED
    BY <2>1 DEF PlacementTypeOK
<1>2. CASE PlaceDesired \/ PlaceAtFallback \/ PlaceAtLastResort
  <2>2. CASE PlaceDesired
    BY <1>1, <2>2 DEF PlaceDesired
  <2>3. CASE PlaceAtFallback
    BY <1>1, <2>3 DEF PlaceAtFallback, PlacementTypeOK
  <2>4. CASE PlaceAtLastResort
    BY <1>1, <2>4 DEF PlaceAtLastResort, PlacementTypeOK
  <2> QED
    BY <1>2, <2>2, <2>3, <2>4
<1>3. CASE BeginEnforcing
  BY <1>3, PlacementAssumption DEF BeginEnforcing, PlacementTypeOK
<1>4. ASSUME pending # <<>>, pending' = Tail(pending), pc' = "enforce",
             UNCHANGED <<config, unplaced, homes, byLevel, walk>>
      PROVE  PlacementTypeOK'
  BY <1>4, TailOfInjective DEF PlacementTypeOK
<1>5. CASE SkipLevel
  BY <1>4, <1>5 DEF SkipLevel
<1>6. CASE NoSpillTarget \/ LevelFits
  BY <1>4, <1>6 DEF NoSpillTarget, LevelFits, LeaveLevel, PlacementTypeOK
<1>7. CASE Spill
  BY <1>7 DEF Spill, PlacementTypeOK
<1>8. CASE FollowFallback
  <2>1. walk' \in [from : Levels, current : Levels, visited : SUBSET Levels] /\ walk'.from = walk.from
    BY <1>8, ConfigTypes DEF FollowFallback, WalkOn, PlacementTypeOK
  <2> QED
    BY <1>8, <2>1 DEF FollowFallback, PlacementTypeOK
<1>9. CASE BeginFallback \/ EnterLevel
  <2>1. PICK l \in Levels : walk' = WalkFrom(l) /\ (EnterLevel => l = Head(pending))
    BY <1>9, ConfigTypes DEF BeginFallback, EnterLevel, PlacementTypeOK
  <2>2. walk' \in [from : Levels, current : Levels, visited : SUBSET Levels] /\ walk'.from = l
    BY <2>1, ConfigTypes DEF WalkFrom, PlacementTypeOK
  <2> QED
    BY <1>9, <2>1, <2>2 DEF BeginFallback, EnterLevel, PlacementTypeOK
<1>10. CASE FoundSpillTarget \/ Finish \/ Returned \/ UNCHANGED vars
  BY <1>10 DEF FoundSpillTarget, Finish, Returned, vars, PlacementTypeOK
<1> QED
  BY <1>2, <1>3, <1>5, <1>6, <1>7, <1>8, <1>9, <1>10 DEF Next

------------------------------------------------------------------------------
(* The walk along the fallbacks *)

\* What a sequence lists is finite.
LEMMA ListedFinite ==
  ASSUME NEW X, NEW s \in Seq(X)
  PROVE  IsFiniteSet(Range(s))
<1>1. DOMAIN s = 1..Len(s) /\ Len(s) \in Nat
  OBVIOUS
<1>2. s \in Surjection(DOMAIN s, Range(s))
  <2>1. s \in [DOMAIN s -> Range(s)]
    BY DEF Range
  <2> QED
    BY <2>1 DEF Surjection, Range
<1>3. IsFiniteSet(DOMAIN s)
  BY <1>1, FS_Interval
<1> QED
  BY <1>2, <1>3, FS_Surjection

\* Levels are finitely many, since they are listed.
LEMMA LevelsFinite == IsFiniteSet(Levels) /\ Cardinality(Levels) \in Nat \ {0}
<1>1. LevelOrder \in Seq(Levels) /\ Levels # {}
  BY PlacementAssumption
<1>2. IsFiniteSet(Levels)
  BY <1>1, ListedFinite DEF Levels
<1> QED
  BY <1>1, <1>2, FS_CardinalityType, FS_EmptySet

\* The chain of fallbacks is the function its definition asks for.
LEMMA ChainIs ==
  ASSUME NEW l
  PROVE  Chain(l) = [k \in 0..Cardinality(Levels) |->
                       IF k = 0 THEN l ELSE FallbackFor(Chain(l)[k - 1])]
<1> DEFINE Solves(g, n) == g = [k \in 0..n |-> IF k = 0 THEN l ELSE FallbackFor(g[k - 1])]
           Reached == {n \in Nat : \E g : Solves(g, n)}
<1>1. 0 \in Reached
  <2>1. Solves([k \in 0..0 |-> l], 0)
    OBVIOUS
  <2> QED
    BY <2>1
<1>2. ASSUME NEW n \in Nat, n \in Reached PROVE n + 1 \in Reached
  <2>1. PICK g : Solves(g, n)
    BY <1>2
  <2> DEFINE h == [k \in 0..(n + 1) |-> IF k = n + 1 THEN FallbackFor(g[n]) ELSE g[k]]
  <2>2. \A k \in 0..n : g[k] = IF k = 0 THEN l ELSE FallbackFor(g[k - 1])
    BY <2>1
  <2>3. ASSUME NEW k \in 0..(n + 1)
        PROVE  h[k] = IF k = 0 THEN l ELSE FallbackFor(h[k - 1])
    <3>1. CASE k = n + 1
      BY <3>1
    <3>2. CASE k = 0
      BY <2>2, <3>2
    <3>3. CASE k # n + 1 /\ k # 0
      <4>1. k \in 0..n /\ k - 1 \in 0..(n + 1) /\ k - 1 # n + 1
        BY <3>3
      <4> QED
        BY <2>2, <3>3, <4>1
    <3> QED
      BY <3>1, <3>2, <3>3
  <2>4. Solves(h, n + 1)
    BY <2>3
  <2> HIDE DEF h, Solves
  <2> QED
    BY <2>4
<1>3. Nat \subseteq Reached
  <2> HIDE DEF Reached
  <2> QED
    BY <1>1, <1>2, NatSetInduction
<1>4. \E g : Solves(g, Cardinality(Levels))
  BY <1>3, LevelsFinite
<1> QED
  BY <1>4 DEF Chain

\* Where the walk has been: the first levels of the chain, all different, none of
\* them an enabled level other than the one it left.
Walked(n) ==
  /\ walk.visited = {Chain(walk.from)[j] : j \in 0..n}
  /\ walk.current = FallbackFor(Chain(walk.from)[n])
  /\ Cardinality(walk.visited) = n + 1
  /\ \A j \in 0..n : Chain(walk.from)[j] \notin config.enabled \ {walk.from}

WalkInv ==
  pc \in {"fallback", "target"} => \E n \in 0..(Cardinality(Levels) - 1) : Walked(n)

\* A walk begins at the level it leaves.
LEMMA WalkBegins ==
  ASSUME NEW l \in Levels, walk' = WalkFrom(l), config' = config
  PROVE  WalkInv'
<1>1. /\ walk' = [from |-> l, current |-> FallbackFor(l), visited |-> {l}]
      /\ FallbackFor(l)' = FallbackFor(l)
  BY DEF WalkFrom, FallbackFor
<1>2. Chain(walk.from)' = Chain(l)
  <2>1. walk'.from = l
    BY <1>1
  <2> QED
    BY <2>1 DEF Chain, FallbackFor
<1>3. Chain(l)[0] = l /\ 0 \in 0..(Cardinality(Levels) - 1)
  BY ChainIs, LevelsFinite
<1>4. {Chain(l)[j] : j \in 0..0} = {l}
  BY <1>3
<1>5. Walked(0)'
  <2>1. walk'.from = l /\ walk'.current = FallbackFor(l) /\ walk'.visited = {l}
    BY <1>1
  <2>2. FallbackFor(Chain(walk.from)[0])' = walk'.current
    BY <1>2, <1>3, <2>1 DEF FallbackFor
  <2>3. Cardinality(walk'.visited) = 0 + 1
    BY <2>1, FS_Singleton
  <2>4. \A j \in 0..0 : Chain(walk.from)'[j] = l
    BY <1>2, <1>3
  <2> QED
    BY <1>2, <1>4, <2>1, <2>2, <2>3, <2>4 DEF Walked
<1> QED
  BY <1>3, <1>5 DEF WalkInv

\* A step of the walk leaves one more level behind.
LEMMA WalkGoesOn ==
  ASSUME PlacementTypeOK, WalkInv, FollowFallback
  PROVE  WalkInv'
<1>1. PICK n \in 0..(Cardinality(Levels) - 1) : Walked(n)
  BY DEF WalkInv, FollowFallback
<1> DEFINE chain == Chain(walk.from)
<1>2. /\ walk \in [from : Levels, current : Levels, visited : SUBSET Levels]
      /\ walk' = WalkOn /\ config' = config
      /\ walk.current \notin walk.visited /\ walk.current \notin config.enabled
  BY DEF PlacementTypeOK, FollowFallback, WalkLoops, WalkArrives
<1>3. /\ walk'.from = walk.from /\ walk'.visited = walk.visited \cup {walk.current}
      /\ walk'.current = FallbackFor(walk.current)
  BY <1>2 DEF WalkOn
<1>4. Chain(walk.from)' = chain
  BY <1>2, <1>3 DEF Chain, FallbackFor
<1>5. IsFiniteSet(walk.visited) /\ Cardinality(walk'.visited) = n + 2
  BY <1>1, <1>2, <1>3, LevelsFinite, FS_Subset, FS_AddElement DEF Walked
<1>6. Cardinality(walk'.visited) <= Cardinality(Levels)
  BY <1>2, <1>3, LevelsFinite, FS_Subset
<1>7. n + 1 \in 0..(Cardinality(Levels) - 1) /\ n + 1 \in 0..Cardinality(Levels)
  BY <1>5, <1>6, LevelsFinite
<1>8. chain[n + 1] = walk.current
  <2>1. chain[n + 1] = FallbackFor(chain[(n + 1) - 1])
    <3> DEFINE N == Cardinality(Levels)
    <3>1. chain = [k \in 0..N |-> IF k = 0 THEN walk.from ELSE FallbackFor(chain[k - 1])]
      BY ChainIs
    <3>2. n + 1 \in 0..N /\ n + 1 # 0
      BY <1>7
    <3> HIDE DEF chain, N
    <3> QED
      BY <3>1, <3>2
  <2> QED
    BY <1>1, <2>1 DEF Walked
<1>9. walk'.visited = {chain[j] : j \in 0..(n + 1)}
  <2>1. 0..(n + 1) = (0..n) \cup {n + 1}
    BY <1>7
  <2> QED
    BY <1>1, <1>3, <1>8, <2>1 DEF Walked
<1>10. \A j \in 0..(n + 1) : chain[j] \notin config.enabled \ {walk.from}
  <2>1. \A j \in 0..(n + 1) : j \in 0..n \/ j = n + 1
    BY <1>7
  <2> QED
    BY <1>1, <1>2, <1>8, <2>1 DEF Walked
<1>11. FallbackFor(chain[n + 1])' = FallbackFor(chain[n + 1])'
  OBVIOUS
<1>12. walk'.current = (IF chain[n + 1] \in DOMAIN config'.fallback
                        THEN config'.fallback[chain[n + 1]] ELSE "hbm")
  BY <1>2, <1>3, <1>8 DEF FallbackFor
<1>13. Walked(n + 1)'
  <2> HIDE DEF chain
  <2>1. FallbackFor(Chain(walk.from)[n + 1])' = walk'.current
    BY <1>4, <1>12 DEF FallbackFor
  <2>2. Cardinality(walk'.visited) = (n + 1) + 1
    BY <1>5, <1>7
  <2> QED
    BY <1>2, <1>3, <1>4, <1>9, <1>10, <2>1, <2>2 DEF Walked
<1> QED
  BY <1>7, <1>13 DEF WalkInv

\* The walk holds nothing initially, and no other step touches it.
LEMMA WalkInvInit == Init => WalkInv
  BY DEF Init, WalkInv

\* Every step keeps to the chain of fallbacks.
LEMMA WalkInvNext == PlacementTypeOK /\ WalkInv /\ [Next]_vars => WalkInv'
<1> SUFFICES ASSUME PlacementTypeOK, WalkInv, [Next]_vars PROVE WalkInv'
  OBVIOUS
<1>1. CASE FollowFallback
  BY <1>1, WalkGoesOn
<1>2. CASE BeginFallback
  <2>1. config.desired[Head(unplaced)] \in Levels
    BY <1>2, ConfigTypes DEF BeginFallback, PlacementTypeOK
  <2> QED
    BY <1>2, <2>1, WalkBegins DEF BeginFallback
<1>3. CASE EnterLevel
  <2>1. Head(pending) \in Levels
    BY <1>3, TailOfInjective DEF EnterLevel, PlacementTypeOK
  <2> QED
    BY <1>3, <2>1, WalkBegins DEF EnterLevel
<1>4. CASE PlaceDesired \/ PlaceAtFallback \/ PlaceAtLastResort
  BY <1>4 DEF PlaceDesired, PlaceAtFallback, PlaceAtLastResort, Place, WalkInv
<1>5. CASE BeginEnforcing \/ SkipLevel \/ NoSpillTarget \/ FoundSpillTarget
  BY <1>5 DEF BeginEnforcing, SkipLevel, NoSpillTarget, FoundSpillTarget, LeaveLevel, WalkInv
<1>6. CASE Spill \/ LevelFits \/ Finish
  BY <1>6 DEF Spill, LevelFits, LeaveLevel, Finish, WalkInv
<1>7. CASE Returned \/ UNCHANGED vars
  <2>1. UNCHANGED vars
    BY <1>7 DEF Returned
  <2>2. pc' = pc /\ config' = config /\ walk' = walk
    BY <2>1 DEF vars
  <2>3. Chain(walk.from)' = Chain(walk.from)
    BY <2>2 DEF Chain, FallbackFor
  <2>4. ASSUME NEW n, Walked(n) PROVE Walked(n)'
    <3>1. FallbackFor(Chain(walk.from)[n])' = FallbackFor(Chain(walk.from)[n])
      BY <2>2, <2>3 DEF FallbackFor
    <3> QED
      BY <2>2, <2>3, <2>4, <3>1 DEF Walked
  <2> QED
    BY <2>2, <2>4 DEF WalkInv
<1> QED
  BY <1>1, <1>2, <1>3, <1>4, <1>5, <1>6, <1>7 DEF Next

\* Where the walk stops says where it has been: an arrival is the first good level of
\* the chain, and a loop has seen the whole chain.
LEMMA WalkIsNearest ==
  ASSUME PlacementTypeOK, WalkInv
  PROVE  FindsNearestFallback
<1> SUFFICES ASSUME pc \in {"fallback", "target"} PROVE FindsNearestFallback
  BY DEF FindsNearestFallback
<1> DEFINE chain == Chain(walk.from)
           N == Cardinality(Levels)
           Good(k) == chain[k] \in config.enabled \ {walk.from}
<1>1. PICK n \in 0..(N - 1) : Walked(n)
  BY DEF WalkInv
<1>2. N \in Nat \ {0} /\ n \in Nat /\ n + 1 \in 0..N /\ n \in 0..N
  BY LevelsFinite
<1>3. chain = [k \in 0..N |-> IF k = 0 THEN walk.from ELSE FallbackFor(chain[k - 1])]
  BY ChainIs
<1> HIDE DEF chain, N
<1>4. /\ DOMAIN chain = 0..N /\ chain[0] = walk.from
      /\ \A k \in 1..N : chain[k] = FallbackFor(chain[k - 1])
  BY <1>2, <1>3
<1>5. /\ walk.visited = {chain[j] : j \in 0..n} /\ walk.current = FallbackFor(chain[n])
      /\ \A j \in 0..n : ~Good(j)
  BY <1>1 DEF Walked, chain
<1>6. chain[n + 1] = walk.current
  <2>1. n + 1 \in 1..N /\ (n + 1) - 1 = n
    BY <1>2
  <2> QED
    BY <1>4, <1>5, <2>1
<1>7. ASSUME WalkArrives
      PROVE  \E k \in 0..N : Good(k) /\ chain[k] = walk.current /\ \A j \in 0..(k - 1) : ~Good(j)
  <2>1. walk.current \notin walk.visited /\ walk.current \in config.enabled
    BY <1>7 DEF WalkArrives, WalkLoops
  <2>2. walk.from \in walk.visited
    BY <1>2, <1>4, <1>5
  <2>3. Good(n + 1)
    BY <1>6, <2>1, <2>2
  <2>4. \A j \in 0..((n + 1) - 1) : ~Good(j)
    BY <1>2, <1>5
  <2> QED
    BY <1>2, <1>6, <2>3, <2>4
<1>8. ASSUME WalkLoops PROVE \A k \in 0..N : ~Good(k)
  <2>1. ASSUME NEW l \in walk.visited PROVE FallbackFor(l) \in walk.visited
    <3>1. PICK j \in 0..n : l = chain[j]
      BY <1>5, <2>1
    <3>2. CASE j = n
      BY <1>5, <1>8, <3>1, <3>2 DEF WalkLoops
    <3>3. CASE j # n
      <4>1. j + 1 \in 0..n /\ j + 1 \in 1..N /\ (j + 1) - 1 = j
        BY <1>2, <3>3
      <4> QED
        BY <1>4, <1>5, <3>1, <4>1
    <3> QED
      BY <3>2, <3>3
  <2> DEFINE Seen == {k \in Nat : k \in 0..N => chain[k] \in walk.visited}
  <2>2. 0 \in Seen
    BY <1>2, <1>4, <1>5
  <2>3. ASSUME NEW k \in Nat, k \in Seen PROVE k + 1 \in Seen
    <3>1. CASE k + 1 \in 0..N
      <4>1. k \in 0..N /\ k + 1 \in 1..N /\ (k + 1) - 1 = k
        BY <1>2, <3>1
      <4> QED
        BY <1>4, <2>1, <2>3, <4>1
    <3> QED
      BY <3>1
  <2>4. Nat \subseteq Seen
    <3> HIDE DEF Seen
    <3> QED
      BY <2>2, <2>3, NatSetInduction
  <2>5. ASSUME NEW k \in 0..N PROVE ~Good(k)
    <3>1. k \in Nat /\ chain[k] \in walk.visited
      BY <1>2, <2>4
    <3> QED
      BY <1>5, <3>1
  <2> QED
    BY <2>5
<1> QED
  BY <1>4, <1>7, <1>8 DEF FindsNearestFallback, chain

\* _resolve_spill_target, in assign_home_levels and in its capacity pass alike, stops at
\* the nearest enabled level along policy.fallback_by_level, and reports none only if the
\* whole chain, cycles included, holds none.
THEOREM WalkFindsNearest == Spec => []FindsNearestFallback
<1>1. Init => PlacementTypeOK /\ WalkInv
  BY PlacementTypeInit, WalkInvInit
<1>2. PlacementTypeOK /\ WalkInv /\ [Next]_vars => PlacementTypeOK' /\ WalkInv'
  BY PlacementTypeNext, WalkInvNext
<1>3. PlacementTypeOK /\ WalkInv => FindsNearestFallback
  BY WalkIsNearest
<1> QED
  BY <1>1, <1>2, <1>3, PTL DEF Spec

------------------------------------------------------------------------------
(* The order of the victims *)

\* Tensors are finitely many, and sets of them have a size.
LEMMA TotalIsNat ==
  /\ IsFiniteSet(Tensors)
  /\ \A ts \in SUBSET Tensors : Total(ts) \in Nat
  /\ \A ts \in SUBSET Tensors : \A v \in ts : Total(ts \ {v}) + Bytes[v] = Total(ts)
  /\ Total({}) = 0
<1>1. /\ TensorOrder \in Seq(Tensors) /\ Range(TensorOrder) = Tensors
      /\ \A t \in Tensors : Bytes[t] \in Nat
  BY PlacementAssumption
<1>2. IsFiniteSet(Tensors)
  BY <1>1, ListedFinite
<1>3. ASSUME NEW ts \in SUBSET Tensors
      PROVE  /\ Total(ts) \in Nat
             /\ \A v \in ts : Total(ts \ {v}) + Bytes[v] = Total(ts)
  <2>1. IsFiniteSet(ts) /\ (\A t \in ts : Bytes[t] \in Nat)
    BY <1>1, <1>2, FS_Subset
  <2>2. Total(ts) \in Nat
    BY <2>1, SumNat DEF Total
  <2>3. ASSUME NEW v \in ts PROVE Total(ts \ {v}) + Bytes[v] = Total(ts)
    <3>1. IsFiniteSet(ts \ {v}) /\ \A t \in ts \ {v} : Bytes[t] \in Nat
      BY <2>1, FS_Subset
    <3>2. Total(ts \ {v}) \in Nat
      BY <3>1, SumNat DEF Total
    <3>3. Total(ts) = Bytes[v] + Total(ts \ {v})
      <4>1. \A t \in ts : Bytes[t] \in Int
        BY <2>1
      <4> QED
        BY <2>1, <4>1, SumRemove DEF Total
    <3> QED
      BY <2>1, <3>2, <3>3
  <2> QED
    BY <2>2, <2>3
<1>4. Total({}) = 0
  BY SumEmpty DEF Total
<1> QED
  BY <1>2, <1>3, <1>4

\* The ids of the tensors break every tie, so the victims are in a strict total order.
LEMMA VictimsOrdered ==
  /\ \A t, u \in Tensors : t # u => SpillsBefore(t, u) \/ SpillsBefore(u, t)
  /\ \A t, u, w \in Tensors : SpillsBefore(t, u) /\ SpillsBefore(u, w) => SpillsBefore(t, w)
<1>1. /\ TensorOrder \in Seq(Tensors) /\ Range(TensorOrder) = Tensors
      /\ \A t \in Tensors : Retention[t] \in Int /\ HopBytes[t] \in Int
  BY PlacementAssumption
<1>2. \A t \in Tensors : Position(t) \in Int /\ TensorOrder[Position(t)] = t
  <2>1. ASSUME NEW t \in Tensors PROVE Position(t) \in Int /\ TensorOrder[Position(t)] = t
    <3>1. \E i \in DOMAIN TensorOrder : TensorOrder[i] = t
      BY <1>1 DEF Range
    <3>2. Position(t) \in DOMAIN TensorOrder /\ TensorOrder[Position(t)] = t
      BY <3>1 DEF Position
    <3>3. DOMAIN TensorOrder = 1..Len(TensorOrder) /\ Len(TensorOrder) \in Nat
      BY <1>1
    <3> QED
      BY <3>2, <3>3
  <2> QED
    BY <2>1
<1>3. \A t, u \in Tensors : t # u => SpillsBefore(t, u) \/ SpillsBefore(u, t)
  <2>1. ASSUME NEW t \in Tensors, NEW u \in Tensors, t # u
        PROVE  SpillsBefore(t, u) \/ SpillsBefore(u, t)
    <3>1. Position(t) # Position(u)
      BY <1>2, <2>1
    <3> QED
      BY <1>1, <1>2, <3>1 DEF SpillsBefore
  <2> QED
    BY <2>1
<1>4. \A t, u, w \in Tensors : SpillsBefore(t, u) /\ SpillsBefore(u, w) => SpillsBefore(t, w)
  BY <1>1, <1>2 DEF SpillsBefore
<1> QED
  BY <1>3, <1>4

\* A pool that is not empty has a victim, which goes before the rest of the pool.
LEMMA VictimIsFirst ==
  ASSUME NEW g \in SUBSET Tensors, g # {}
  PROVE  Victim(g) \in g /\ \A u \in g \ {Victim(g)} : SpillsBefore(Victim(g), u)
<1> DEFINE First(v, s) == v \in s /\ \A u \in s \ {v} : SpillsBefore(v, u)
           Good == {s \in SUBSET Tensors : s # {} => \E v \in Tensors : First(v, s)}
<1>1. {} \in Good
  OBVIOUS
<1>2. ASSUME NEW s \in SUBSET Tensors, s # {}, \A x \in s : s \ {x} \in Good
      PROVE  s \in Good
  <2>1. PICK x \in s : TRUE
    BY <1>2
  <2>2. CASE s \ {x} = {}
    <3>1. First(x, s)
      BY <2>2
    <3> QED
      BY <3>1
  <2>3. CASE s \ {x} # {}
    <3>1. PICK v \in Tensors : First(v, s \ {x})
      BY <1>2, <2>3
    <3>2. v # x /\ v \in s /\ x \in Tensors /\ \A u \in (s \ {x}) \ {v} : SpillsBefore(v, u)
      BY <3>1
    <3>3. CASE SpillsBefore(v, x)
      <4>1. First(v, s)
        BY <3>2, <3>3
      <4> QED
        BY <4>1
    <3>4. CASE SpillsBefore(x, v)
      <4>1. ASSUME NEW u \in s \ {x} PROVE SpillsBefore(x, u)
        <5>1. u = v \/ SpillsBefore(v, u)
          BY <3>2, <4>1
        <5> QED
          BY <3>2, <3>4, <4>1, <5>1, VictimsOrdered
      <4>2. First(x, s)
        BY <4>1
      <4> QED
        BY <4>2
    <3> QED
      BY <3>2, <3>3, <3>4, VictimsOrdered
  <2> QED
    BY <2>2, <2>3
<1>3. SUBSET Tensors \subseteq Good
  <2> HIDE DEF Good
  <2> QED
    BY <1>1, <1>2, TotalIsNat, SubsetInduction
<1>4. \E v \in g : \A u \in g \ {v} : SpillsBefore(v, u)
  BY <1>3
<1> QED
  BY <1>4 DEF Victim

------------------------------------------------------------------------------
(* The capacity pass *)

\* What a pool has spilled goes before all it keeps.
RankedPool(g, l) ==
  \A v \in SpilledFrom(g, l), s \in KeptIn(g, l) : SpillsBefore(v, s)

\* Some victim of the pool was still too much for it.
LastVictimNeeded(g, l) ==
  \E v \in SpilledFrom(g, l) : Total(KeptIn(g, l)) + Bytes[v] > Capacity[l]

\* What the pass leaves behind in a level: pools that are ranked, that fit if they have
\* spilled, and that fit in any case where the overflow has somewhere to go.
SettledPool(g, l) ==
  /\ RankedPool(g, l)
  /\ SpilledFrom(g, l) # {} => Total(KeptIn(g, l)) <= Capacity[l] /\ LastVictimNeeded(g, l)
  /\ FallsBackToHbm /\ l # "hbm" => Total(KeptIn(g, l)) <= Capacity[l]

Settled(l) == \A g \in Pools(l) : SettledPool(g, l)

\* No tensor has left its level.
Untouched(l) == \A t \in byLevel[l] : homes[t] = l

Enforcing == pc \in {"enforce", "target", "spill", "done"}

\* A tensor is listed at one level, by_level is what a level held before the pass, and
\* only the level being spilled has lost some of it.
ListedInv ==
  /\ \A l, m \in Levels : l # m => byLevel[l] \cap byLevel[m] = {}
  /\ \A l \in Range(pending) : (pc = "spill" /\ l = walk.from) \/ Untouched(l)
  /\ (~Enforcing \/ pc = "done") => pending = <<>>

\* The levels that the pass is done with are settled.
SettledInv == Enforcing => \A l \in config.enabled \ Range(pending) : Settled(l)

\* The level being spilled: its over-full pools and their target.
TargetInv ==
  /\ pc \in {"fallback", "target"} => walk.from \in walk.visited
  /\ pc = "target" => walk.from \in config.enabled /\ groups = OverFull(walk.from)

SpillInv ==
  pc = "spill" =>
    /\ walk.from \in config.enabled /\ walk.current # walk.from
    /\ groups = {KeptIn(g, walk.from) : g \in OverFull(walk.from)}
    /\ \A g \in Pools(walk.from) :
         /\ RankedPool(g, walk.from)
         /\ SpilledFrom(g, walk.from) # {} =>
              g \in OverFull(walk.from) /\ LastVictimNeeded(g, walk.from)

\* Where everything falls back to HBM, it is the only target.
HbmInv ==
  FallsBackToHbm =>
    /\ pc \in {"target", "spill"} => walk.current = "hbm"
    /\ pc = "target" => walk.visited = {walk.from}
    /\ Enforcing => \A l \in Levels \ {"hbm"} : \A t \in Tensors : homes[t] = l => t \in byLevel[l]

PassInv ==
  /\ PlacementTypeOK
  /\ ListedInv
  /\ SettledInv
  /\ TargetInv
  /\ SpillInv
  /\ HbmInv

\* The pools of a level split its tensors.
LEMMA PoolsSplit ==
  ASSUME PlacementTypeOK, NEW l \in Levels
  PROVE  /\ \A g \in Pools(l) : g \subseteq byLevel[l] /\ g \subseteq Tensors
         /\ \A g, h \in Pools(l) : g # h => g \cap h = {}
<1>1. byLevel[l] \subseteq Tensors
  BY DEF PlacementTypeOK
<1> QED
  BY <1>1 DEF Pools

\* A level whose tensors stay where they are keeps its pools as they are.
LEMMA SettledStays ==
  ASSUME NEW l, config' = config, byLevel' = byLevel,
         \A g \in Pools(l) : \A t \in g : homes'[t] = homes[t]
  PROVE  /\ Pools(l)' = Pools(l) /\ OverFull(l)' = OverFull(l)
         /\ \A g \in Pools(l) : /\ KeptIn(g, l)' = KeptIn(g, l)
                                /\ SpilledFrom(g, l)' = SpilledFrom(g, l)
                                /\ RankedPool(g, l) => RankedPool(g, l)'
                                /\ LastVictimNeeded(g, l) => LastVictimNeeded(g, l)'
         /\ Settled(l) => Settled(l)'
<1>1. Pools(l)' = Pools(l)
  BY DEF Pools
<1>2. OverFull(l)' = OverFull(l)
  BY <1>1 DEF OverFull
<1>3. ASSUME NEW g \in Pools(l)
      PROVE  /\ KeptIn(g, l)' = KeptIn(g, l) /\ SpilledFrom(g, l)' = SpilledFrom(g, l)
             /\ RankedPool(g, l) => RankedPool(g, l)'
             /\ LastVictimNeeded(g, l) => LastVictimNeeded(g, l)'
             /\ SettledPool(g, l) => SettledPool(g, l)'
  <2>1. KeptIn(g, l)' = KeptIn(g, l) /\ SpilledFrom(g, l)' = SpilledFrom(g, l)
    BY DEF KeptIn, SpilledFrom
  <2>2. RankedPool(g, l) => RankedPool(g, l)'
    BY <2>1 DEF RankedPool, SpillsBefore
  <2>3. LastVictimNeeded(g, l) => LastVictimNeeded(g, l)'
    BY <2>1 DEF LastVictimNeeded
  <2>4. FallsBackToHbm' <=> FallsBackToHbm
    BY DEF FallsBackToHbm, FallbackFor
  <2> QED
    BY <2>1, <2>2, <2>3, <2>4 DEF SettledPool
<1> QED
  BY <1>1, <1>2, <1>3 DEF Settled

\* A level nothing has been spilled from is settled if its pools fit or nothing can be
\* spilled from it.
LEMMA UntouchedSettled ==
  ASSUME PlacementTypeOK, NEW l \in Levels, Untouched(l),
         OverFull(l) = {} \/ l = "hbm" \/ ~FallsBackToHbm, l \in config.enabled
  PROVE  Settled(l)
<1>1. ASSUME NEW g \in Pools(l) PROVE SettledPool(g, l)
  <2>1. KeptIn(g, l) = g /\ SpilledFrom(g, l) = {}
    BY PoolsSplit DEF KeptIn, SpilledFrom, Untouched
  <2>2. g \in SUBSET Tensors /\ Total(g) \in Nat /\ Capacity[l] \in Nat
    BY PoolsSplit, TotalIsNat, PlacementAssumption
  <2>3. FallsBackToHbm /\ l # "hbm" => ~(Total(g) > Capacity[l])
    BY DEF OverFull
  <2> QED
    BY <2>1, <2>2, <2>3 DEF SettledPool, RankedPool
<1> QED
  BY <1>1 DEF Settled

\* Before the pass nothing is listed and no level is over-full.
LEMMA PassInit == Init => PassInv
<1> SUFFICES ASSUME Init PROVE PassInv
  OBVIOUS
<1>1. PlacementTypeOK
  BY PlacementTypeInit
<1>2. Range(pending) = {} /\ pending = <<>> /\ pc = "assign" /\ \A l \in Levels : byLevel[l] = {}
  BY DEF Init, Range
<1>3. ListedInv
  BY <1>2 DEF ListedInv
<1> QED
  BY <1>1, <1>2, <1>3 DEF PassInv, SettledInv, TargetInv, SpillInv, HbmInv, Enforcing

\* Giving a tensor its home, and looking for a fallback, come before the pass.
LEMMA AssignKeepsPass ==
  ASSUME PassInv, PlacementTypeOK', pc \in {"assign", "fallback"}, pc' \in {"assign", "fallback"},
         UNCHANGED <<config, byLevel, pending, groups>>,
         pc' = "fallback" => walk'.from \in walk'.visited
  PROVE  PassInv'
<1>1. pending = <<>> /\ Range(pending) = {} /\ \A l, m \in Levels : l # m => byLevel[l] \cap byLevel[m] = {}
  BY DEF PassInv, ListedInv, Enforcing, Range
<1>2. ListedInv'
  BY <1>1 DEF ListedInv
<1> QED
  BY <1>2 DEF PassInv, SettledInv, TargetInv, SpillInv, HbmInv, Enforcing

\* A step of the pass that moves no tensor leaves settled levels settled.
LEMMA StillSettled ==
  ASSUME UNCHANGED <<config, byLevel, homes>>
  PROVE  \A l : /\ Settled(l) => Settled(l)'
                /\ OverFull(l)' = OverFull(l) /\ Pools(l)' = Pools(l)
                /\ Untouched(l)' <=> Untouched(l)
<1>1. \A l : Untouched(l)' <=> Untouched(l)
  BY DEF Untouched
<1> QED
  BY <1>1, SettledStays

\* A step that moves no tensor and stays within the pass.
LEMMA PassingOn ==
  ASSUME PassInv, PlacementTypeOK', Enforcing, pc' \in {"enforce", "target"}, pc # "spill",
         UNCHANGED <<config, byLevel, homes, pending>>,
         TargetInv', FallsBackToHbm /\ pc' = "target" => walk'.current = "hbm" /\ walk'.visited = {walk'.from}
  PROVE  PassInv'
<1>1. ListedInv' /\ SettledInv'
  BY StillSettled DEF PassInv, ListedInv, SettledInv, Enforcing
<1>2. SpillInv'
  BY DEF SpillInv
<1>3. FallsBackToHbm' <=> FallsBackToHbm
  BY DEF FallsBackToHbm, FallbackFor
<1>4. HbmInv'
  BY <1>3 DEF PassInv, HbmInv, Enforcing
<1> QED
  BY <1>1, <1>2, <1>4 DEF PassInv

\* The walk goes on, which it never does where everything falls back to HBM.
LEMMA FollowKeepsPass ==
  ASSUME PassInv, PlacementTypeOK', FollowFallback
  PROVE  PassInv'
<1>1. /\ walk \in [from : Levels, current : Levels, visited : SUBSET Levels]
      /\ walk' = WalkOn /\ ~WalkLoops /\ ~WalkArrives /\ pc' = pc
      /\ UNCHANGED <<config, byLevel, homes, pending, groups>>
  BY DEF PassInv, PlacementTypeOK, FollowFallback
<1>2. walk'.from = walk.from /\ walk'.visited = walk.visited \cup {walk.current}
  BY <1>1 DEF WalkOn
<1>3. walk'.from \in walk'.visited
  BY <1>2 DEF PassInv, TargetInv, FollowFallback
<1>4. CASE pc = "fallback"
  BY <1>1, <1>3, <1>4, AssignKeepsPass
<1>5. CASE pc = "target"
  <2>1. OverFull(walk.from)' = OverFull(walk.from)
    <3>1. OverFull(walk.from)' = OverFull(walk.from)
      BY <1>1, <1>2 DEF OverFull, Pools
    <3> QED
      BY <3>1
  <2>2. TargetInv'
    BY <1>1, <1>2, <1>3, <1>5, <2>1 DEF PassInv, TargetInv
  <2>3. ~FallsBackToHbm
    BY <1>1, <1>5 DEF PassInv, HbmInv, FallsBackToHbm, WalkArrives
  <2> QED
    BY <1>1, <1>5, <2>2, <2>3, PassingOn DEF Enforcing
<1> QED
  BY <1>4, <1>5 DEF FollowFallback

\* The pass starts from the homes that the tensors were given.
LEMMA BeginKeepsPass ==
  ASSUME PassInv, PlacementTypeOK', BeginEnforcing
  PROVE  PassInv'
<1>1. /\ byLevel' = [l \in Levels |-> {t \in Tensors : homes[t] = l}]
      /\ pending' = LevelOrder /\ pc' = "enforce" /\ UNCHANGED <<config, homes>>
  BY DEF BeginEnforcing
<1>2. Range(pending') = Levels /\ config.enabled \subseteq Levels
  BY <1>1, ConfigTypes DEF Levels, PassInv, PlacementTypeOK
<1>3. ListedInv'
  <2>1. \A l, m \in Levels : l # m => byLevel'[l] \cap byLevel'[m] = {}
    BY <1>1
  <2>2. \A l \in Range(pending') : Untouched(l)'
    BY <1>1, <1>2 DEF Untouched
  <2> QED
    BY <1>1, <2>1, <2>2 DEF ListedInv, Enforcing
<1>4. SettledInv'
  BY <1>1, <1>2 DEF SettledInv
<1>5. HbmInv'
  BY <1>1 DEF HbmInv
<1> QED
  BY <1>1, <1>3, <1>4, <1>5 DEF PassInv, TargetInv, SpillInv

\* An over-full level is entered: the walk starts, and with HBM as every fallback it
\* has arrived unless the level is HBM itself.
LEMMA EnterKeepsPass ==
  ASSUME PassInv, PlacementTypeOK', EnterLevel
  PROVE  PassInv'
<1> DEFINE l == Head(pending)
<1>1. /\ pc = "enforce" /\ pc' = "target" /\ groups' = OverFull(l) /\ OverFull(l) # {}
      /\ walk' = WalkFrom(l) /\ UNCHANGED <<config, homes, byLevel, pending>>
  BY DEF EnterLevel
<1>2. l \in config.enabled
  BY <1>1 DEF OverFull
<1>3. walk'.from = l /\ walk'.visited = {l} /\ walk'.current = FallbackFor(l)
  BY <1>1 DEF WalkFrom
<1>4. OverFull(walk.from)' = OverFull(l)
  BY <1>1, <1>3 DEF OverFull, Pools
<1>5. TargetInv'
  BY <1>1, <1>2, <1>3, <1>4 DEF TargetInv
<1>6. FallsBackToHbm => walk'.current = "hbm"
  BY <1>2, <1>3 DEF FallsBackToHbm
<1> QED
  BY <1>1, <1>3, <1>5, <1>6, PassingOn DEF Enforcing

\* A level is left settled.
LEMMA LeaveKeepsPass ==
  ASSUME PassInv, PlacementTypeOK', Enforcing, pending # <<>>, pending' = Tail(pending),
         pc' = "enforce", UNCHANGED <<config, byLevel, homes>>,
         Head(pending) \in config.enabled => Settled(Head(pending))
  PROVE  PassInv'
<1>1. /\ Range(pending') = Range(pending) \ {Head(pending)} /\ Head(pending) \in Range(pending)
      /\ pc = "spill" => walk.from = Head(pending)
  BY TailOfInjective DEF PassInv, PlacementTypeOK
<1>2. ListedInv'
  <2>1. \A m \in Range(pending') : Untouched(m)'
    BY <1>1, StillSettled DEF PassInv, ListedInv
  <2>2. \A m, k \in Levels : m # k => byLevel'[m] \cap byLevel'[k] = {}
    BY DEF PassInv, ListedInv
  <2> QED
    BY <2>1, <2>2 DEF ListedInv, Enforcing
<1>3. SettledInv'
  <2>1. ASSUME NEW m \in config.enabled \ Range(pending') PROVE Settled(m)
    BY <1>1, <2>1 DEF PassInv, SettledInv
  <2> QED
    BY <2>1, StillSettled DEF SettledInv
<1>4. FallsBackToHbm' <=> FallsBackToHbm
  BY DEF FallsBackToHbm, FallbackFor
<1>5. HbmInv'
  BY <1>4 DEF PassInv, HbmInv, Enforcing
<1> QED
  BY <1>2, <1>3, <1>5 DEF PassInv, TargetInv, SpillInv

\* Leaving a level that has nothing to spill, or nowhere to spill it.
LEMMA SkipKeepsPass ==
  ASSUME PassInv, PlacementTypeOK', SkipLevel \/ NoSpillTarget
  PROVE  PassInv'
<1> DEFINE l == Head(pending)
<1>1. /\ Enforcing /\ pc # "spill" /\ pending # <<>> /\ pending' = Tail(pending) /\ pc' = "enforce"
      /\ UNCHANGED <<config, byLevel, homes>>
  BY DEF SkipLevel, NoSpillTarget, LeaveLevel, Enforcing, PassInv, PlacementTypeOK
<1>2. l \in Levels /\ Untouched(l)
  BY <1>1, TailOfInjective DEF PassInv, PlacementTypeOK, ListedInv
<1>3. OverFull(l) = {} \/ l = "hbm" \/ ~FallsBackToHbm
  <2>1. CASE NoSpillTarget
    BY <2>1 DEF NoSpillTarget, WalkLoops, PassInv, HbmInv, PlacementTypeOK
  <2> QED
    BY <2>1 DEF SkipLevel
<1>4. l \in config.enabled => Settled(l)
  BY <1>2, <1>3, UntouchedSettled DEF PassInv
<1> QED
  BY <1>1, <1>4, LeaveKeepsPass

\* When no pool of the level is over any more, each has spilled what it had to.
LEMMA FitsKeepsPass ==
  ASSUME PassInv, PlacementTypeOK', LevelFits
  PROVE  PassInv'
<1> DEFINE l == walk.from
<1>1. /\ pc = "spill" /\ pending # <<>> /\ l = Head(pending) /\ pending' = Tail(pending)
      /\ pc' = "enforce" /\ UNCHANGED <<config, byLevel, homes>> /\ PlacementTypeOK
      /\ \A h \in groups : ~StillOver(h)
  BY DEF LevelFits, LeaveLevel, PassInv, PlacementTypeOK
<1>2. /\ l \in config.enabled /\ l \in Levels
      /\ groups = {KeptIn(g, l) : g \in OverFull(l)}
      /\ \A g \in Pools(l) : /\ RankedPool(g, l)
                             /\ SpilledFrom(g, l) # {} => g \in OverFull(l) /\ LastVictimNeeded(g, l)
  BY <1>1 DEF PassInv, SpillInv, PlacementTypeOK
<1>3. ASSUME NEW g \in Pools(l) PROVE SettledPool(g, l)
  <2>1. g \in SUBSET Tensors /\ KeptIn(g, l) \in SUBSET Tensors
    BY <1>1, <1>2, PoolsSplit DEF KeptIn
  <2>2. Total(KeptIn(g, l)) \in Nat /\ Total(g) \in Nat /\ Capacity[l] \in Nat
    BY <1>2, <2>1, TotalIsNat, PlacementAssumption
  <2>3. Total(KeptIn(g, l)) <= Capacity[l]
    <3>1. CASE g \in OverFull(l)
      <4>1. ~StillOver(KeptIn(g, l))
        BY <1>1, <1>2, <3>1
      <4>2. KeptIn(g, l) = {} \/ ~(Total(KeptIn(g, l)) > Capacity[l])
        BY <4>1 DEF StillOver
      <4>3. KeptIn(g, l) = {} => Total(KeptIn(g, l)) = 0
        BY TotalIsNat
      <4> QED
        BY <2>2, <4>2, <4>3
    <3>2. CASE g \notin OverFull(l)
      <4>1. ~(Total(g) > Capacity[l])
        BY <1>2, <3>2 DEF OverFull
      <4>2. KeptIn(g, l) = g
        BY <1>2, <3>2 DEF KeptIn, SpilledFrom
      <4> QED
        BY <2>2, <4>1, <4>2
    <3> QED
      BY <3>1, <3>2
  <2> QED
    BY <1>2, <2>3 DEF SettledPool
<1>4. Settled(l)
  BY <1>3 DEF Settled
<1> QED
  BY <1>1, <1>4, LeaveKeepsPass DEF Enforcing

\* A target other than the level is found before anything is spilled from it.
LEMMA TargetKeepsPass ==
  ASSUME PassInv, PlacementTypeOK', FoundSpillTarget
  PROVE  PassInv'
<1> DEFINE l == walk.from
<1>1. /\ pc = "target" /\ pc' = "spill" /\ WalkArrives /\ PlacementTypeOK
      /\ UNCHANGED <<config, byLevel, homes, pending, groups, walk>>
  BY DEF FoundSpillTarget, PassInv
<1>2. /\ l \in Levels /\ l \in config.enabled /\ groups = OverFull(l) /\ walk.current # l
      /\ l = Head(pending) /\ pending # <<>>
  BY <1>1 DEF PassInv, TargetInv, WalkArrives, WalkLoops, PlacementTypeOK
<1>3. Untouched(l)
  BY <1>1, <1>2, TailOfInjective DEF PassInv, PlacementTypeOK, ListedInv
<1>4. ASSUME NEW g \in Pools(l)
      PROVE  KeptIn(g, l) = g /\ SpilledFrom(g, l) = {} /\ RankedPool(g, l)
  BY <1>1, <1>2, <1>3, PoolsSplit DEF KeptIn, SpilledFrom, Untouched, RankedPool
<1>5. groups = {KeptIn(g, l) : g \in OverFull(l)}
  BY <1>2, <1>4 DEF OverFull
<1>6. SpillInv
  BY <1>1, <1>2, <1>4, <1>5 DEF SpillInv
<1>7. ListedInv' /\ SettledInv'
  BY <1>1, StillSettled DEF PassInv, ListedInv, SettledInv, Enforcing
<1>8. SpillInv'
  <2>1. groups' = {KeptIn(g, l)' : g \in OverFull(l)}
    BY <1>1, <1>5 DEF KeptIn
  <2>2. \A g \in Pools(l) : RankedPool(g, l)' /\ SpilledFrom(g, l)' = {}
    BY <1>1, <1>4, SettledStays
  <2> QED
    BY <1>1, <1>2, <2>1, <2>2, StillSettled DEF SpillInv
<1>9. FallsBackToHbm' <=> FallsBackToHbm
  BY <1>1 DEF FallsBackToHbm, FallbackFor
<1>10. HbmInv'
  BY <1>1, <1>9 DEF PassInv, HbmInv, Enforcing
<1> QED
  BY <1>1, <1>7, <1>8, <1>10 DEF PassInv, TargetInv

\* One victim leaves its pool: it goes before what the pool keeps, and the pool was
\* over its capacity with it.
LEMMA SpillKeepsPass ==
  ASSUME PassInv, PlacementTypeOK', Spill
  PROVE  PassInv'
<1>0. PICK l : l = walk.from
  OBVIOUS
<1>1. /\ pc = "spill" /\ pc' = "spill" /\ UNCHANGED <<config, unplaced, byLevel, pending, walk>>
      /\ l = Head(pending) /\ pending # <<>> /\ l \in Levels /\ walk.current # l
      /\ l \in config.enabled /\ l \in Range(pending) /\ walk.current \in Levels
  BY <1>0, TailOfInjective DEF Spill, PassInv, PlacementTypeOK, SpillInv
<1>2. PICK h \in groups : /\ StillOver(h)
                          /\ homes' = [homes EXCEPT ![Victim(h)] = walk.current]
                          /\ groups' = (groups \ {h}) \cup {h \ {Victim(h)}}
  BY DEF Spill
<1>3. PICK g \in OverFull(l) : h = KeptIn(g, l)
  BY <1>0, <1>1, <1>2 DEF PassInv, SpillInv
<1> DEFINE v == Victim(h)
<1>4. /\ g \in Pools(l) /\ g \subseteq byLevel[l] /\ h \subseteq g /\ h \in SUBSET Tensors
      /\ \A k \in Pools(l) : k \subseteq byLevel[l] /\ (k # g => g \cap k = {})
  BY <1>1, <1>3, PoolsSplit DEF PassInv, OverFull, KeptIn
<1>5. v \in h /\ (\A u \in h \ {v} : SpillsBefore(v, u)) /\ Total(h) > Capacity[l]
  BY <1>1, <1>2, <1>4, <1>0, VictimIsFirst DEF StillOver
<1> HIDE DEF v
<1>6. v \in Tensors /\ v \in g /\ v \in byLevel[l] /\ homes' = [homes EXCEPT ![v] = walk.current]
  BY <1>2, <1>4, <1>5 DEF v
<1>7. homes'[v] = walk.current /\ \A t \in Tensors \ {v} : homes'[t] = homes[t]
  BY <1>6 DEF PassInv, PlacementTypeOK
<1>8. \A m \in Levels \ {l} : \A t \in byLevel[m] : t \in Tensors /\ homes'[t] = homes[t]
  BY <1>1, <1>6, <1>7 DEF PassInv, ListedInv, PlacementTypeOK
<1>9. ListedInv'
  <2>1. \A m \in Range(pending) \ {l} : m \in Levels /\ Untouched(m)
    BY <1>1 DEF PassInv, ListedInv, PlacementTypeOK, Range
  <2>2. \A m \in Range(pending) \ {l} : Untouched(m)'
    BY <1>1, <1>8, <2>1 DEF Untouched
  <2> QED
    BY <1>0, <1>1, <2>2 DEF PassInv, ListedInv, Enforcing
<1>10. SettledInv'
  <2>1. ASSUME NEW m \in config.enabled \ Range(pending) PROVE Settled(m)'
    <3>1. m \in Levels \ {l} /\ Settled(m)
      BY <1>1, <2>1, ConfigTypes DEF PassInv, PlacementTypeOK, SettledInv, Enforcing
    <3>2. \A k \in Pools(m) : \A t \in k : homes'[t] = homes[t]
      BY <1>8, <3>1, PoolsSplit DEF PassInv
    <3> QED
      BY <1>1, <3>1, <3>2, SettledStays
  <2> QED
    BY <1>1, <2>1 DEF SettledInv
<1>11. Pools(l)' = Pools(l) /\ OverFull(l)' = OverFull(l) /\ OverFull(l) \subseteq Pools(l)
  BY <1>1 DEF Pools, OverFull
<1>12. KeptIn(g, l)' = h \ {v} /\ SpilledFrom(g, l)' = SpilledFrom(g, l) \cup {v}
  <2>1. KeptIn(g, l)' = {t \in g : homes'[t] = l} /\ SpilledFrom(g, l)' = {t \in g : homes'[t] # l}
    BY DEF KeptIn, SpilledFrom
  <2>2. h = {t \in g : homes[t] = l} /\ g \subseteq Tensors
    BY <1>1, <1>3, <1>4, PoolsSplit DEF KeptIn, PassInv
  <2> QED
    BY <1>1, <1>5, <1>6, <1>7, <2>1, <2>2 DEF SpilledFrom
<1>13. ASSUME NEW k \in Pools(l), k # g
       PROVE  \A t \in k : homes'[t] = homes[t]
  BY <1>1, <1>4, <1>6, <1>7, <1>13, PoolsSplit DEF PassInv
<1>14. RankedPool(g, l)' /\ LastVictimNeeded(g, l)'
  <2>1. RankedPool(g, l)
    BY <1>0, <1>1, <1>4 DEF PassInv, SpillInv
  <2>2. \A t, u : SpillsBefore(t, u)' <=> SpillsBefore(t, u)
    BY <1>1 DEF SpillsBefore
  <2>3. RankedPool(g, l)'
    BY <1>3, <1>5, <1>12, <2>1, <2>2 DEF RankedPool
  <2>4. Total(h \ {v}) + Bytes[v] > Capacity[l]
    BY <1>4, <1>5, TotalIsNat
  <2>5. LastVictimNeeded(g, l)'
    BY <1>12, <2>4 DEF LastVictimNeeded
  <2> QED
    BY <2>3, <2>5
<1>15. ASSUME NEW k \in Pools(l), k # g
       PROVE  /\ KeptIn(k, l)' = KeptIn(k, l) /\ SpilledFrom(k, l)' = SpilledFrom(k, l)
              /\ RankedPool(k, l) => RankedPool(k, l)'
              /\ LastVictimNeeded(k, l) => LastVictimNeeded(k, l)'
  <2>1. KeptIn(k, l)' = KeptIn(k, l) /\ SpilledFrom(k, l)' = SpilledFrom(k, l)
    BY <1>13, <1>15 DEF KeptIn, SpilledFrom
  <2>2. \A t, u : SpillsBefore(t, u)' <=> SpillsBefore(t, u)
    BY <1>1 DEF SpillsBefore
  <2>3. RankedPool(k, l) => RankedPool(k, l)'
    BY <2>1, <2>2 DEF RankedPool
  <2>4. LastVictimNeeded(k, l) => LastVictimNeeded(k, l)'
    BY <2>1 DEF LastVictimNeeded
  <2> QED
    BY <2>1, <2>3, <2>4
<1>16. groups' = {KeptIn(k, l)' : k \in OverFull(l)}
  <2>1. groups = {KeptIn(k, l) : k \in OverFull(l)}
    BY <1>0, <1>1 DEF PassInv, SpillInv
  <2>2. \A k \in OverFull(l) \ {g} : KeptIn(k, l)' = KeptIn(k, l) /\ KeptIn(k, l) # h
    BY <1>4, <1>5, <1>11, <1>15 DEF KeptIn
  <2>3. groups' = (groups \ {h}) \cup {h \ {v}}
    BY <1>2 DEF v
  <2> QED
    BY <1>3, <1>12, <2>1, <2>2, <2>3
<1>17. SpillInv'
  <2>1. ASSUME NEW k \in Pools(l)
        PROVE  /\ RankedPool(k, l)'
               /\ SpilledFrom(k, l)' # {} => k \in OverFull(l) /\ LastVictimNeeded(k, l)'
    BY <1>0, <1>1, <1>3, <1>14, <1>15 DEF PassInv, SpillInv
  <2> QED
    BY <1>0, <1>1, <1>11, <1>16, <2>1 DEF SpillInv
<1>18. HbmInv'
  <2>1. FallsBackToHbm' <=> FallsBackToHbm
    BY <1>1 DEF FallsBackToHbm, FallbackFor
  <2>2. FallsBackToHbm => \A m \in Levels \ {"hbm"} : \A t \in Tensors : homes'[t] = m => t \in byLevel[m]
    BY <1>1, <1>6, <1>7 DEF PassInv, HbmInv, Enforcing
  <2> QED
    BY <1>1, <2>1, <2>2 DEF PassInv, HbmInv, Enforcing
<1> QED
  BY <1>1, <1>9, <1>10, <1>17, <1>18 DEF PassInv, TargetInv

\* The pass ends when it has visited every level, and an ended pass changes nothing.
LEMMA EndKeepsPass ==
  ASSUME PassInv, PlacementTypeOK', Finish \/ Returned \/ UNCHANGED vars
  PROVE  PassInv'
<1>1. /\ UNCHANGED <<config, byLevel, homes, pending, groups, walk>>
      /\ pc' = pc \/ (pc = "enforce" /\ pc' = "done" /\ pending = <<>>)
  BY DEF Finish, Returned, vars
<1>2. ListedInv' /\ SettledInv'
  BY <1>1, StillSettled DEF PassInv, ListedInv, SettledInv, Enforcing
<1>3. TargetInv'
  BY <1>1, StillSettled DEF PassInv, TargetInv, OverFull, Pools
<1>4. SpillInv'
  <2>1. \A g, l : KeptIn(g, l)' = KeptIn(g, l) /\ SpilledFrom(g, l)' = SpilledFrom(g, l)
    BY <1>1 DEF KeptIn, SpilledFrom
  <2>2. \A g, l : (RankedPool(g, l)' <=> RankedPool(g, l))
                  /\ (LastVictimNeeded(g, l)' <=> LastVictimNeeded(g, l))
    BY <1>1, <2>1 DEF RankedPool, LastVictimNeeded, SpillsBefore
  <2>3. \A l : OverFull(l)' = OverFull(l) /\ Pools(l)' = Pools(l)
    BY <1>1, StillSettled
  <2> QED
    BY <1>1, <2>1, <2>2, <2>3 DEF PassInv, SpillInv, OverFull, Pools
<1>5. FallsBackToHbm' <=> FallsBackToHbm
  BY <1>1 DEF FallsBackToHbm, FallbackFor
<1>6. HbmInv'
  BY <1>1, <1>5 DEF PassInv, HbmInv, Enforcing
<1> QED
  BY <1>2, <1>3, <1>4, <1>6 DEF PassInv

\* Every step of assign_home_levels keeps the invariant.
LEMMA PassNext == PassInv /\ [Next]_vars => PassInv'
<1> SUFFICES ASSUME PassInv, [Next]_vars PROVE PassInv'
  OBVIOUS
<1>1. PlacementTypeOK'
  BY PlacementTypeNext DEF PassInv
<1>2. CASE PlaceDesired \/ PlaceAtFallback \/ PlaceAtLastResort
  BY <1>1, <1>2, AssignKeepsPass DEF PlaceDesired, PlaceAtFallback, PlaceAtLastResort, Place
<1>3. CASE BeginFallback
  <2>1. walk'.from \in walk'.visited
    BY <1>3 DEF BeginFallback, WalkFrom
  <2> QED
    BY <1>1, <1>3, <2>1, AssignKeepsPass DEF BeginFallback
<1>4. CASE FollowFallback
  BY <1>1, <1>4, FollowKeepsPass
<1>5. CASE BeginEnforcing
  BY <1>1, <1>5, BeginKeepsPass
<1>6. CASE SkipLevel \/ NoSpillTarget
  BY <1>1, <1>6, SkipKeepsPass
<1>7. CASE EnterLevel
  BY <1>1, <1>7, EnterKeepsPass
<1>8. CASE FoundSpillTarget
  BY <1>1, <1>8, TargetKeepsPass
<1>9. CASE Spill
  BY <1>1, <1>9, SpillKeepsPass
<1>10. CASE LevelFits
  BY <1>1, <1>10, FitsKeepsPass
<1>11. CASE Finish \/ Returned \/ UNCHANGED vars
  BY <1>1, <1>11, EndKeepsPass
<1> QED
  BY <1>2, <1>3, <1>4, <1>5, <1>6, <1>7, <1>8, <1>9, <1>10, <1>11 DEF Next

\* So it holds throughout.
LEMMA PassInvariant == Spec => []PassInv
  BY PassInit, PassNext, PTL DEF Spec

\* When the pass is over, every enabled level is settled.
LEMMA DoneIsSettled ==
  ASSUME PassInv, pc = "done"
  PROVE  \A l \in config.enabled : l \in Levels /\ \A g \in Pools(l) : SettledPool(g, l)
<1>1. Range(pending) = {} /\ config.enabled \subseteq Levels
  BY ConfigTypes DEF PassInv, PlacementTypeOK, ListedInv, Enforcing, Range
<1> QED
  BY <1>1 DEF PassInv, SettledInv, Settled, Enforcing

\* The capacity pass, whatever the policy, spills by _spill_victim_key: with best_case no
\* tensor is spilled while a less valuable one of its pool stays, and with worst_case none
\* while a more valuable one stays, however the passes of the other levels interleave with
\* the homes that this one reads.
THEOREM AlwaysSpillsByRetention == Spec => []SpillsByRetention
<1>1. ASSUME PassInv PROVE SpillsByRetention
  <2> SUFFICES ASSUME pc = "done", NEW l \in config.enabled, NEW g \in Pools(l),
                      NEW v \in SpilledFrom(g, l), NEW s \in KeptIn(g, l)
               PROVE  IF config.victims = "best_case"
                      THEN Retention[v] <= Retention[s]
                      ELSE Retention[v] >= Retention[s]
    BY DEF SpillsByRetention
  <2>1. SpillsBefore(v, s)
    BY <1>1, DoneIsSettled DEF SettledPool, RankedPool
  <2>2. v \in Tensors /\ s \in Tensors
    BY <1>1, DoneIsSettled, PoolsSplit DEF SpilledFrom, KeptIn, PassInv
  <2>3. Retention[v] \in Int /\ Retention[s] \in Int
    BY <2>2, PlacementAssumption
  <2>4. config.victims \in {"best_case", "worst_case"}
    BY <1>1, ConfigTypes DEF PassInv, PlacementTypeOK
  <2> QED
    BY <2>1, <2>3, <2>4 DEF SpillsBefore
<1> QED
  BY <1>1, PassInvariant, PTL

\* The capacity pass stops as soon as a pool fits: what it leaves is within the capacity,
\* and one of its victims had to go.
THEOREM NeverSpillsTooMuch == Spec => []SpillsNoMoreThanNeeded
<1>1. ASSUME PassInv PROVE SpillsNoMoreThanNeeded
  BY <1>1, DoneIsSettled DEF SpillsNoMoreThanNeeded, SettledPool, LastVictimNeeded
<1> QED
  BY <1>1, PassInvariant, PTL

\* With policies that send every overflow to HBM, which all the shipped ones are, the
\* homes that assign_home_levels returns fit in every level but HBM, for any trace.
THEOREM HomesAlwaysFit == Spec => []HomesFit
<1>1. ASSUME PassInv PROVE HomesFit
  <2> SUFFICES ASSUME FallsBackToHbm, pc = "done", NEW l \in config.enabled \ {"hbm"}
               PROVE  IF l \in PerCore
                      THEN \A c \in Range(CoreOf) :
                             Total({t \in Tensors : homes[t] = l /\ CoreOf[t] = c}) <= Capacity[l]
                      ELSE Total({t \in Tensors : homes[t] = l}) <= Capacity[l]
    BY DEF HomesFit, AllHomesFit
  <2>1. l \in Levels /\ \A g \in Pools(l) : Total(KeptIn(g, l)) <= Capacity[l]
    BY <1>1, DoneIsSettled DEF SettledPool
  <2>2. /\ \A t \in Tensors : homes[t] = l => t \in byLevel[l]
        /\ byLevel[l] \subseteq Tensors
    BY <1>1, <2>1 DEF PassInv, HbmInv, Enforcing, PlacementTypeOK
  <2>3. CASE l \in PerCore
    <3>1. ASSUME NEW c \in Range(CoreOf)
          PROVE  Total({t \in Tensors : homes[t] = l /\ CoreOf[t] = c}) <= Capacity[l]
      <4> DEFINE g == {t \in byLevel[l] : CoreOf[t] = c}
      <4>1. g \in Pools(l)
        BY <2>3 DEF Pools
      <4>2. KeptIn(g, l) = {t \in Tensors : homes[t] = l /\ CoreOf[t] = c}
        BY <2>2 DEF KeptIn
      <4> QED
        BY <2>1, <4>1, <4>2
    <3> QED
      BY <2>3, <3>1
  <2>4. CASE l \notin PerCore
    <3>1. byLevel[l] \in Pools(l)
      BY <2>4 DEF Pools
    <3>2. KeptIn(byLevel[l], l) = {t \in Tensors : homes[t] = l}
      BY <2>2 DEF KeptIn
    <3> QED
      BY <2>1, <2>4, <3>1, <3>2
  <2> QED
    BY <2>3, <2>4
<1> QED
  BY <1>1, PassInvariant, PTL

\* Placing the tensors of an experiment, or loading its hierarchies instead, is a
\* behaviour of assign_home_levels, so the theorems above are about experiments too.
LEMMA ExperimentPlaces == ExperimentSpec => Spec
<1>1. ExperimentInit => Init
  BY DEF ExperimentInit
<1>2. [ExperimentNext]_experimentVars => [Next]_vars
  BY DEF ExperimentNext, LoadHierarchies, AssignHomes, experimentVars, vars
<1> QED
  BY <1>1, <1>2, PTL DEF ExperimentSpec, Spec

------------------------------------------------------------------------------
(* Areas *)

\* A product divided by one of its factors is the other.
LEMMA DivisionUndoes ==
  ASSUME NEW q \in Nat, NEW d \in Nat \ {0}
  PROVE  (q * d) \div d = q
  OBVIOUS

\* A quotient is the largest number whose product with the divisor fits.
LEMMA QuotientFits ==
  ASSUME NEW a \in Nat, NEW b \in Nat \ {0}
  PROVE  a \div b \in Nat /\ b * (a \div b) <= a /\ a < b * (a \div b) + b
  OBVIOUS

\* What remains of a common factor.
LEMMA Cancelled ==
  ASSUME NEW a \in Nat, NEW b \in Nat, NEW r \in Nat \ {0}
  PROVE  /\ a * r <= b * r => a <= b
         /\ a * r < b * r => a < b
<1>1. ASSUME b < a PROVE b * r < a * r
  <2>1. PICK e \in Nat \ {0} : a = b + e
    <3>1. a - b \in Nat \ {0} /\ a = b + (a - b)
      BY <1>1
    <3> QED
      BY <3>1
  <2>2. a * r = (b * r) + (e * r)
    BY <2>1
  <2>3. e * r > 0 /\ b * r \in Nat
    BY <2>1
  <2> QED
    BY <2>2, <2>3
<1>2. a * r \in Nat /\ b * r \in Nat
  OBVIOUS
<1>3. a = b => a * r = b * r
  OBVIOUS
<1> QED
  BY <1>1, <1>2, <1>3

\* A number of units of area for every density that divides them.
LEMMA UnitIs ==
  ASSUME NEW d \in Nat \ {0}, Area % (100 * d) = 0
  PROVE  \E k \in Nat \ {0} : Area \div d = 100 * k /\ Area = (100 * k) * d
<1> DEFINE m == 100 * d
           k == Area \div m
<1>1. Area \in Nat \ {0} /\ m \in Nat \ {0}
  BY ConfigurationAssumption
<1>2. Area = m * k /\ k \in Nat
  <2> HIDE DEF m
  <2>1. Area % m = 0
    BY DEF m
  <2> QED
    BY <1>1, <2>1
<1> HIDE DEF k
<1>3. k # 0
  BY <1>1, <1>2
<1>4. Area = (100 * k) * d
  BY <1>2
<1>5. (100 * k) \in Nat
  BY <1>2
<1>6. Area \div d = 100 * k
  BY <1>4, <1>5, DivisionUndoes
<1> QED
  BY <1>2, <1>3, <1>4, <1>6

\* A density by which an area can be measured in whole units.
Measures(d) == d \in Nat \ {0} /\ Area % (100 * d) = 0

\* The donor's rest and the recipient have together the donor's area, but for less than a
\* byte in each of them: m pools with n bytes each, of density d, give a part of their area
\* to a recipient of density r.
IsoSplit(n, m, d, r, donor, recipient) ==
  /\ donor \in Nat /\ recipient \in Nat
  /\ AreaForBytes(1, d) \in Nat \ {0} /\ AreaForBytes(1, r) \in Nat \ {0}
  /\ AreaForBytes(donor, d) \in Nat /\ AreaForBytes(recipient, r) \in Nat
  /\ AreaForBytes(n, d) \in Nat
  /\ (m * AreaForBytes(donor, d)) + AreaForBytes(recipient, r) <= m * AreaForBytes(n, d)
  /\ m * AreaForBytes(n, d)
       < (m * AreaForBytes(donor, d)) + AreaForBytes(recipient, r)
           + (m * AreaForBytes(1, d)) + AreaForBytes(1, r)

\* That is how a fraction of p percent is split.
LEMMA SplitIsIsoArea ==
  ASSUME NEW n \in Nat, NEW m \in Nat \ {0}, NEW p \in 0..100,
         NEW d, Measures(d), NEW r, Measures(r)
  PROVE  IsoSplit(n, m, d, r, SplitByAreaFraction(n, d, r, p, m).donor,
                              SplitByAreaFraction(n, d, r, p, m).recipient)
<1> DEFINE donor == SplitByAreaFraction(n, d, r, p, m).donor
           recipient == SplitByAreaFraction(n, d, r, p, m).recipient
<1>0. /\ donor = SplitByAreaFraction(n, d, r, p, m).donor
      /\ recipient = SplitByAreaFraction(n, d, r, p, m).recipient
      /\ d \in Nat \ {0} /\ Area % (100 * d) = 0 /\ r \in Nat \ {0} /\ Area % (100 * r) = 0
  BY DEF Measures
<1> d \in Nat \ {0} /\ r \in Nat \ {0}
  BY DEF Measures
<1> HIDE DEF donor, recipient
<1>1. PICK kd \in Nat \ {0} : Area \div d = 100 * kd /\ Area = (100 * kd) * d
  BY <1>0, UnitIs
<1>2. PICK kr \in Nat \ {0} : Area \div r = 100 * kr /\ Area = (100 * kr) * r
  BY <1>0, UnitIs
<1> DEFINE x == (n * m) * 8 * kd
           q == 100 - p
<1>3. x \in Nat /\ q \in Nat /\ p \in Nat /\ p + q = 100
  <2>1. n * m \in Nat
    OBVIOUS
  <2>2. (n * m) * 8 \in Nat
    BY <2>1
  <2> QED
    BY <2>2
<1>4. donor = (n * q) \div 100 /\ n * q \in Nat
  BY <1>0, <1>3 DEF SplitByAreaFraction
<1>5. donor \in Nat /\ 100 * donor <= n * q /\ n * q < (100 * donor) + 100
  <2> HIDE DEF q
  <2> QED
    BY <1>4, QuotientFits
<1>6. AreaForBytes(n * m, d) \div 100 = x
  <2>1. AreaForBytes(n * m, d) = x * 100
    BY <1>1 DEF AreaForBytes
  <2> HIDE DEF x
  <2> QED
    BY <1>3, <2>1, DivisionUndoes
<1> DEFINE y == p * x
<1>7. recipient = (y * r) \div (8 * Area)
  BY <1>0, <1>6 DEF SplitByAreaFraction, BytesForArea
<1> HIDE DEF x, q
<1>8. y \in Nat
  BY <1>3
<1> HIDE DEF y
<1> DEFINE z == 800 * kr
<1>9. 8 * Area = z * r /\ z \in Nat \ {0}
  BY <1>2
<1> HIDE DEF z
<1>10. recipient \in Nat /\ z * recipient <= y /\ y < (z * recipient) + z
  <2>1. y * r \in Nat /\ z * r \in Nat \ {0}
    BY <1>8, <1>9
  <2>2. /\ recipient \in Nat /\ (z * r) * recipient <= y * r
        /\ y * r < ((z * r) * recipient) + (z * r)
    BY <1>7, <1>9, <2>1, QuotientFits
  <2>3. z * recipient \in Nat /\ (z * recipient) + z \in Nat
    BY <1>9, <2>2
  <2>4. (z * r) * recipient = (z * recipient) * r
    BY <1>9, <2>2
  <2>5. ((z * r) * recipient) + (z * r) = ((z * recipient) + z) * r
    BY <1>9, <2>2, <2>4
  <2> QED
    BY <1>8, <2>2, <2>3, <2>4, <2>5, Cancelled
<1> DEFINE w == 8 * m * kd
<1>11. w \in Nat \ {0}
  OBVIOUS
<1>12. /\ AreaForBytes(recipient, r) = z * recipient /\ AreaForBytes(1, r) = z
       /\ m * AreaForBytes(donor, d) = (100 * donor) * w /\ m * AreaForBytes(1, d) = 100 * w
       /\ m * AreaForBytes(n, d) = 100 * x
  <2>1. AreaForBytes(recipient, r) = z * recipient /\ AreaForBytes(1, r) = z
    BY <1>2, <1>10 DEF AreaForBytes, z
  <2>2. AreaForBytes(donor, d) = donor * 8 * (100 * kd) /\ AreaForBytes(1, d) = 8 * (100 * kd)
        /\ AreaForBytes(n, d) = n * 8 * (100 * kd)
    BY <1>1 DEF AreaForBytes
  <2>3. m * (donor * 8 * (100 * kd)) = (100 * donor) * w
    BY <1>5
  <2>4. m * (8 * (100 * kd)) = 100 * w
    OBVIOUS
  <2>5. m * (n * 8 * (100 * kd)) = 100 * x
    BY DEF x
  <2> QED
    BY <2>1, <2>2, <2>3, <2>4, <2>5
<1>13. x = n * w
  BY DEF x
<1> HIDE DEF w
<1> DEFINE v == q * x
<1>14. (100 * donor) * w <= v /\ v < ((100 * donor) * w) + (100 * w) /\ v + y = 100 * x /\ v \in Nat
  <2>1. v = (n * q) * w
    BY <1>3, <1>11, <1>13
  <2>2. /\ (100 * donor) * w <= (n * q) * w
        /\ (n * q) * w < ((100 * donor) + 100) * w
    <3>1. 100 * donor \in Nat /\ (100 * donor) + 100 \in Nat
      BY <1>5
    <3>2. \A a, b \in Nat : (b * w < a * w => b < a) /\ (b * w <= a * w => b <= a)
      BY <1>11, Cancelled
    <3>3. \A a, b \in Nat : a * w \in Nat
      BY <1>11
    <3> HIDE DEF v
    <3>4. (100 * donor) * w \in Nat /\ (n * q) * w \in Nat /\ ((100 * donor) + 100) * w \in Nat
      BY <1>4, <3>1, <3>3
    <3>5. ~((n * q) * w < (100 * donor) * w) /\ ~(((100 * donor) + 100) * w <= (n * q) * w)
      BY <1>4, <1>5, <3>1, <3>2
    <3> QED
      BY <3>4, <3>5
  <2>3. ((100 * donor) + 100) * w = ((100 * donor) * w) + (100 * w)
    BY <1>5, <1>11
  <2>4. v + y = (p + q) * x
    BY <1>3 DEF y
  <2>5. v \in Nat
    BY <1>3
  <2> QED
    BY <1>3, <2>1, <2>2, <2>3, <2>4, <2>5
<1> HIDE DEF v
<1>15. /\ AreaForBytes(1, d) \in Nat \ {0} /\ AreaForBytes(1, r) \in Nat \ {0}
       /\ AreaForBytes(donor, d) \in Nat /\ AreaForBytes(recipient, r) \in Nat
       /\ AreaForBytes(n, d) \in Nat
  <2>1. AreaForBytes(1, d) \in Nat \ {0} /\ AreaForBytes(1, r) \in Nat \ {0}
    BY <1>1, <1>2 DEF AreaForBytes
  <2>2. AreaForBytes(recipient, r) \in Nat
    BY <1>9, <1>10, <1>12
  <2>3. donor * 8 \in Nat /\ n * 8 \in Nat /\ 100 * kd \in Nat
    BY <1>5
  <2>4. AreaForBytes(donor, d) \in Nat /\ AreaForBytes(n, d) \in Nat
    BY <1>1, <2>3 DEF AreaForBytes
  <2> QED
    BY <2>1, <2>2, <2>4
<1>16. /\ (100 * donor) * w \in Nat /\ 100 * w \in Nat /\ z * recipient \in Nat
  BY <1>5, <1>9, <1>10, <1>11
<1> HIDE DEF z
<1>17. IsoSplit(n, m, d, r, donor, recipient)
  BY <1>3, <1>5, <1>8, <1>9, <1>10, <1>12, <1>14, <1>15, <1>16 DEF IsoSplit
<1> QED
  BY <1>0, <1>17

------------------------------------------------------------------------------
(* Dies *)

\* The part of a level in the area of a die.
DieTerm(h, bytes, i) ==
  IF h.levels[i].enabled
  THEN Copies(h, h.levels[i]) * AreaForBytes(bytes[i], DieDensity(h.levels[i]))
  ELSE 0

\* The area of a die of five levels is the sum of their parts.
LEMMA DieIs ==
  ASSUME NEW h, DOMAIN h.levels = 1..5, NEW bytes, \A i \in 1..5 : DieTerm(h, bytes, i) \in Int
  PROVE  Die(h, bytes) = DieTerm(h, bytes, 1) + DieTerm(h, bytes, 2) + DieTerm(h, bytes, 3)
                           + DieTerm(h, bytes, 4) + DieTerm(h, bytes, 5)
<1> DEFINE f == [i \in 1..5 |-> DieTerm(h, bytes, i)]
           Sum(S) == SumFunctionOnSet(f, S)
<1>1. \A i \in 1..5 : f[i] = DieTerm(h, bytes, i) /\ f[i] \in Int
  OBVIOUS
<1>2. Die(h, bytes) = Sum(1..5)
  BY DEF Die, DieTerm, SumFunction
<1>3. ASSUME NEW n \in 1..5 PROVE Sum(1..n) = f[n] + Sum(1..(n - 1))
  <2> DEFINE S == 1..(n - 1)
  <2>1. IsFiniteSet(S) /\ n \notin S
    BY FS_Interval
  <2>2. S \cup {n} = 1..n
    OBVIOUS
  <2>3. \A y \in S \cup {n} : f[y] \in Int
    BY <1>1, <2>2
  <2> HIDE DEF S, f
  <2>4. SumFunctionOnSet(f, S \cup {n}) = f[n] + SumFunctionOnSet(f, S)
    BY <2>1, <2>3, SumInsert
  <2>5. SumFunctionOnSet(f, 1..n) = f[n] + SumFunctionOnSet(f, S)
    BY <2>2, <2>4
  <2> QED
    BY <2>5 DEF S
<1>4. Sum(1..0) = 0
  <2>1. 1..0 = {}
    OBVIOUS
  <2>2. SumFunctionOnSet(f, {}) = 0
    BY SumEmpty
  <2> HIDE DEF f
  <2> QED
    BY <2>1, <2>2
<1> DEFINE T(n) == Sum(1..n)
<1>5. T(0) = 0 /\ \A n \in 1..5 : T(n) = f[n] + T(n - 1)
  BY <1>3, <1>4
<1> HIDE DEF T
<1>6. T(1) = f[1] + T(0) /\ T(2) = f[2] + T(1) /\ T(3) = f[3] + T(2) /\ T(4) = f[4] + T(3)
      /\ T(5) = f[5] + T(4)
  <2>1. 1 - 1 = 0 /\ 2 - 1 = 1 /\ 3 - 1 = 2 /\ 4 - 1 = 3 /\ 5 - 1 = 4
    OBVIOUS
  <2> QED
    BY <1>5, <2>1
<1>7. Die(h, bytes) = T(5)
  BY <1>2 DEF T
<1> HIDE DEF f
<1> QED
  BY <1>1, <1>5, <1>6, <1>7

\* A loaded hierarchy has the levels of its file.
LEMMA LoadedIs ==
  ASSUME NEW file, DOMAIN file.levels = 1..5, NEW cores, NEW h, h = LoadHierarchy(file, cores)
  PROVE  /\ h.cores = cores /\ DOMAIN h.levels = 1..5
         /\ \A i \in 1..5 :
              /\ file.levels[i].enabled <=> h.levels[i].enabled
              /\ h.levels[i].id = file.levels[i].id
              /\ h.levels[i].tech = file.levels[i].tech
              /\ h.levels[i].scope = file.levels[i].scope
              /\ file.levels[i].enabled
                   => h.levels[i].capacity = ApplyAreaBudget(file, file.levels[i], cores)
<1>1. h.cores = cores /\ DOMAIN h.levels = 1..5
  BY DEF LoadHierarchy
<1>2. SUFFICES ASSUME NEW i \in 1..5
               PROVE  /\ file.levels[i].enabled <=> h.levels[i].enabled
                      /\ h.levels[i].id = file.levels[i].id
                      /\ h.levels[i].tech = file.levels[i].tech
                      /\ h.levels[i].scope = file.levels[i].scope
                      /\ file.levels[i].enabled
                           => h.levels[i].capacity = ApplyAreaBudget(file, file.levels[i], cores)
  BY <1>1
<1>3. CASE file.levels[i].enabled
  <2>1. \E k : h.levels[i] = [id |-> file.levels[i].id, index |-> k, enabled |-> TRUE,
                 tech |-> file.levels[i].tech, scope |-> file.levels[i].scope,
                 capacity |-> ApplyAreaBudget(file, file.levels[i], cores)]
    BY <1>3 DEF LoadHierarchy
  <2> QED
    BY <1>3, <2>1
<1>4. CASE ~file.levels[i].enabled
  <2>1. \E k : h.levels[i] = [id |-> file.levels[i].id, index |-> -1, enabled |-> FALSE,
                 tech |-> file.levels[i].tech, scope |-> file.levels[i].scope,
                 capacity |-> k]
    BY <1>4 DEF LoadHierarchy
  <2> QED
    BY <1>4, <2>1
<1> QED
  BY <1>3, <1>4

\* The levels of a file that can be compared are found by their names.
LEMMA LevelsFound ==
  ASSUME NEW file, Comparable(file)
  PROVE  /\ DOMAIN file.levels = 1..5
         /\ file.levels[1].id = "psum" /\ file.levels[2].id = "sbuf" /\ file.levels[3].id = "stram"
         /\ file.levels[4].id = "ltram" /\ file.levels[5].id = "hbm"
         /\ LevelOf(file, "sbuf") = file.levels[2] /\ LevelOf(file, "stram") = file.levels[3]
         /\ LevelOf(file, "ltram") = file.levels[4] /\ LevelOf(file, "hbm") = file.levels[5]
         /\ HasLevel(file, "sbuf") /\ HasLevel(file, "hbm")
         /\ HasLevel(file, "stram") <=> file.levels[3].enabled
         /\ HasLevel(file, "ltram") <=> file.levels[4].enabled
<1>1. /\ DOMAIN file.levels = 1..5
      /\ \A i \in 1..5 : file.levels[i].id = BaselineFile.levels[i].id
      /\ file.levels[2].enabled /\ file.levels[5].enabled
  BY DEF Comparable
<1>2. /\ BaselineFile.levels[1].id = "psum" /\ BaselineFile.levels[2].id = "sbuf"
      /\ BaselineFile.levels[3].id = "stram" /\ BaselineFile.levels[4].id = "ltram"
      /\ BaselineFile.levels[5].id = "hbm"
  BY DEF BaselineFile, Hierarchy, Level, NoStram, NoLtram
<1>3. /\ file.levels[1].id = "psum" /\ file.levels[2].id = "sbuf" /\ file.levels[3].id = "stram"
      /\ file.levels[4].id = "ltram" /\ file.levels[5].id = "hbm"
  BY <1>1, <1>2
<1>4. \A i \in 1..5 : /\ file.levels[i].id = "sbuf" <=> i = 2
                      /\ file.levels[i].id = "stram" <=> i = 3
                      /\ file.levels[i].id = "ltram" <=> i = 4
                      /\ file.levels[i].id = "hbm" <=> i = 5
  <2>1. \A i \in 1..5 : i = 1 \/ i = 2 \/ i = 3 \/ i = 4 \/ i = 5
    OBVIOUS
  <2> QED
    BY <1>3, <2>1
<1>5. /\ LevelOf(file, "sbuf") = file.levels[2] /\ LevelOf(file, "stram") = file.levels[3]
      /\ LevelOf(file, "ltram") = file.levels[4] /\ LevelOf(file, "hbm") = file.levels[5]
  <2>1. \A id, i : i \in 1..5 /\ (\A j \in 1..5 : file.levels[j].id = id <=> j = i)
          => LevelOf(file, id) = file.levels[i]
    BY <1>1 DEF LevelOf
  <2> QED
    BY <1>4, <2>1
<1>6. /\ HasLevel(file, "sbuf") /\ HasLevel(file, "hbm")
      /\ HasLevel(file, "stram") <=> file.levels[3].enabled
      /\ HasLevel(file, "ltram") <=> file.levels[4].enabled
  BY <1>1, <1>4 DEF HasLevel
<1> QED
  BY <1>1, <1>3, <1>5, <1>6

\* The larger of a number and one it is not below.
LEMMA LargerIs ==
  ASSUME NEW n \in Int, NEW k \in Int, k <= n
  PROVE  Max({k, n}) = n
<1> DEFINE P(x) == x \in {k, n} /\ \A y \in {k, n} : x >= y
<1>1. P(n) /\ \A x : P(x) => x = n
  OBVIOUS
<1>2. Max({k, n}) = CHOOSE x : P(x)
  BY DEF Max
<1> HIDE DEF P
<1> QED
  BY <1>1, <1>2

\* Every density that an area is measured by divides the whole number of units.
LEMMA DensitiesDivide ==
  ASSUME NEW level, level.tech \in DOMAIN Density
  PROVE  Measures(DieDensity(level))
<1>1. CASE Density[level.tech] = Unset
  BY <1>1, SweepAssumption DEF DieDensity, DensityOf, Measures
<1>2. CASE Density[level.tech] # Unset
  BY <1>2, ConfigurationAssumption DEF DieDensity, DensityOf, Measures
<1> QED
  BY <1>1, <1>2

\* The area of c pools of n bytes each
Share(c, n, d) == c * AreaForBytes(n, d)

\* An area is a number of units.
LEMMA AreaIs ==
  ASSUME NEW n \in Nat, NEW d, Measures(d), NEW c \in Nat \ {0}
  PROVE  /\ AreaForBytes(n, d) \in Nat /\ AreaForBytes(1, d) \in Nat \ {0}
         /\ Share(c, n, d) \in Nat /\ Share(c, 1, d) \in Nat \ {0}
<1>1. PICK k \in Nat \ {0} : Area \div d = 100 * k
  BY UnitIs DEF Measures
<1>2. 100 * k \in Nat \ {0} /\ n * 8 \in Nat
  OBVIOUS
<1>3. AreaForBytes(n, d) \in Nat /\ AreaForBytes(1, d) \in Nat \ {0}
  BY <1>1, <1>2 DEF AreaForBytes
<1>4. \A a \in Nat, b \in Nat \ {0} : c * a \in Nat /\ c * b \in Nat \ {0}
  OBVIOUS
<1> QED
  BY <1>3, <1>4 DEF Share

\* One byte of every level
OneByte(h) == [i \in DOMAIN h.levels |-> 1]

\* The area of a level, and that of one byte of it
Taken(h, i) == DieTerm(h, Capacities(h), i)
Rounding(h, i) == DieTerm(h, OneByte(h), i)

\* How many copies a chip of so many cores has of a level
CopiesOf(level, cores) == IF level.scope = "per_core" THEN cores ELSE 1

\* The area of a loaded level by what its file says of it.
LEMMA TakenIs ==
  ASSUME NEW file, Comparable(file), NEW cores \in Nat \ {0}, NEW h, h = LoadHierarchy(file, cores),
         NEW i \in 1..5
  PROVE  /\ file.levels[i].enabled
              => /\ Taken(h, i) = Share(CopiesOf(file.levels[i], cores),
                                       ApplyAreaBudget(file, file.levels[i], cores),
                                       DieDensity(file.levels[i]))
                 /\ Rounding(h, i) = Share(CopiesOf(file.levels[i], cores), 1,
                                          DieDensity(file.levels[i]))
         /\ ~file.levels[i].enabled => Taken(h, i) = 0 /\ Rounding(h, i) = 0
<1>1. DOMAIN file.levels = 1..5
  BY LevelsFound
<1>2. /\ h.cores = cores /\ DOMAIN h.levels = 1..5
      /\ file.levels[i].enabled <=> h.levels[i].enabled
      /\ h.levels[i].id = file.levels[i].id
      /\ h.levels[i].tech = file.levels[i].tech
      /\ h.levels[i].scope = file.levels[i].scope
      /\ file.levels[i].enabled
           => h.levels[i].capacity = ApplyAreaBudget(file, file.levels[i], cores)
  BY <1>1, LoadedIs
<1>3. DieDensity(h.levels[i]) = DieDensity(file.levels[i])
  BY <1>2 DEF DieDensity, DensityOf
<1>4. Copies(h, h.levels[i]) = CopiesOf(file.levels[i], cores)
  BY <1>2 DEF Copies, CopiesOf
<1>5. Capacities(h)[i] = h.levels[i].capacity /\ OneByte(h)[i] = 1
  BY <1>2 DEF Capacities, OneByte
<1> QED
  BY <1>2, <1>3, <1>4, <1>5 DEF Taken, Rounding, DieTerm, Share

\* What a file says of its levels and its budget.
LEMMA FileTypes ==
  ASSUME NEW file, Comparable(file)
  PROVE  /\ \A i \in 1..5 : /\ file.levels[i].tech \in DOMAIN Density
                            /\ file.levels[i].enabled \in BOOLEAN
                            /\ file.levels[i].capacity \in Int \cup {Unset}
         /\ file.budget \in AreaBudgetConfig
         /\ file.budget.stramPct \in 0..100 /\ file.budget.ltramPct \in 0..100
         /\ file.hbmGib \in Nat
<1>1. DOMAIN file.levels = 1..5
  BY LevelsFound
<1>2. file.levels \in Seq(LevelConfig) /\ file.budget \in AreaBudgetConfig /\ file.hbmGib \in Nat
  BY DEF Comparable, HierarchyConfig
<1>3. ASSUME NEW i \in 1..5 PROVE file.levels[i] \in LevelConfig
  <2>1. \A s \in Seq(LevelConfig) : \A j \in DOMAIN s : s[j] \in LevelConfig
    OBVIOUS
  <2> QED
    BY <1>1, <1>2, <2>1
<1>4. \A l \in LevelConfig : /\ l.tech \in DOMAIN Density /\ l.enabled \in BOOLEAN
                             /\ l.capacity \in Int \cup {Unset}
  BY DEF LevelConfig
<1>5. file.budget.stramPct \in 0..100 /\ file.budget.ltramPct \in 0..100
  BY <1>2 DEF AreaBudgetConfig
<1> QED
  BY <1>2, <1>3, <1>4, <1>5

\* SBUF and StRAM have together the area of the nominal SBUF, but for their rounding.
LEMMA SramIsIsoArea ==
  ASSUME NEW file, Comparable(file), NEW cores \in Nat \ {0}, NEW h, h = LoadHierarchy(file, cores),
         file.levels[3].enabled => Density[file.levels[3].tech] # Unset,
         NEW n \in Nat, n = NominalCapacity(file, file.levels[2]),
         NEW d, d = DieDensity(file.levels[2])
  PROVE  /\ {Taken(h, 2), Rounding(h, 2), Taken(h, 3), Rounding(h, 3)} \subseteq Nat
         /\ Taken(h, 2) + Taken(h, 3) <= Share(cores, n, d)
         /\ Share(cores, n, d) <= Taken(h, 2) + Taken(h, 3) + Rounding(h, 2) + Rounding(h, 3)
<1> DEFINE donor == ApplyAreaBudget(file, file.levels[2], cores)
           recipient == ApplyAreaBudget(file, file.levels[3], cores)
           r == DieDensity(file.levels[3])
           c == CopiesOf(file.levels[3], cores)
<1>1. /\ file.levels[2].id = "sbuf" /\ file.levels[3].id = "stram"
      /\ LevelOf(file, "sbuf") = file.levels[2] /\ LevelOf(file, "stram") = file.levels[3]
      /\ HasLevel(file, "sbuf")
      /\ HasLevel(file, "stram") <=> file.levels[3].enabled
  BY LevelsFound
<1>2. /\ file.levels[2].enabled /\ file.levels[2].scope = "per_core"
      /\ d = DensityOf(file.levels[2], file.budget.sbufDensity)
      /\ file.levels[3].enabled => file.budget.enabled /\ file.levels[3].scope \in {"per_core", "per_chip"}
  <2>1. BaselineFile.levels[2].scope = "per_core"
    BY DEF BaselineFile, Hierarchy, Level
  <2> QED
    BY <2>1 DEF Comparable
<1>3. file.levels[2].tech \in DOMAIN Density /\ file.levels[3].tech \in DOMAIN Density
      /\ file.budget.stramPct \in 0..100
  BY FileTypes
<1>4. Measures(d) /\ Measures(r)
  BY <1>3, DensitiesDivide
<1>5. /\ Taken(h, 2) = Share(cores, donor, d) /\ Rounding(h, 2) = Share(cores, 1, d)
      /\ file.levels[3].enabled
           => Taken(h, 3) = Share(c, recipient, r) /\ Rounding(h, 3) = Share(c, 1, r)
      /\ ~file.levels[3].enabled => Taken(h, 3) = 0 /\ Rounding(h, 3) = 0
  <2>1. 2 \in 1..5 /\ 3 \in 1..5
    OBVIOUS
  <2>2. /\ Taken(h, 2) = Share(cores, donor, d) /\ Rounding(h, 2) = Share(cores, 1, d)
    <3>1. CopiesOf(file.levels[2], cores) = cores
      BY <1>2 DEF CopiesOf
    <3>2. /\ Taken(h, 2) = Share(CopiesOf(file.levels[2], cores), donor, DieDensity(file.levels[2]))
          /\ Rounding(h, 2) = Share(CopiesOf(file.levels[2], cores), 1, DieDensity(file.levels[2]))
      BY <1>2, <2>1, TakenIs
    <3> QED
      BY <3>1, <3>2
  <2>3. /\ file.levels[3].enabled
           => Taken(h, 3) = Share(c, recipient, r) /\ Rounding(h, 3) = Share(c, 1, r)
        /\ ~file.levels[3].enabled => Taken(h, 3) = 0 /\ Rounding(h, 3) = 0
    BY <2>1, TakenIs
  <2> QED
    BY <2>2, <2>3
<1>6. CASE ~file.levels[3].enabled
  <2>1. donor = n
    BY <1>1, <1>6 DEF ApplyAreaBudget, TradingSram, Trading
  <2>2. Share(cores, n, d) \in Nat /\ Share(cores, 1, d) \in Nat
    BY <1>4, AreaIs
  <2> HIDE DEF donor
  <2> QED
    BY <1>5, <1>6, <2>1, <2>2
<1>7. CASE file.levels[3].enabled
  <2> DEFINE p == file.budget.stramPct
             m == IF file.levels[3].scope = "per_chip" THEN cores ELSE 1
             split == SplitByAreaFraction(n, d, r, p, m)
  <2>1. Max({1, cores}) = cores
    BY LargerIs
  <2>2. r = Density[file.levels[3].tech]
    BY <1>7 DEF DieDensity, DensityOf
  <2>3. TradingSram(file) /\ StramSplit(file, cores) = split
    BY <1>1, <1>2, <1>7, <2>1, <2>2 DEF TradingSram, Trading, StramSplit
  <2>4. donor = Max({0, split.donor}) /\ recipient = split.recipient
    BY <1>1, <2>3 DEF ApplyAreaBudget
  <2>5. m \in Nat \ {0} /\ p \in 0..100
    BY <1>3
  <2> HIDE DEF p, m, donor, recipient, r, c
  <2>6. IsoSplit(n, m, d, r, split.donor, split.recipient)
    BY <1>4, <2>5, SplitIsIsoArea
  <2>7. donor = split.donor
    <3>1. split.donor \in Nat
      BY <2>6 DEF IsoSplit
    <3> QED
      BY <2>4, <3>1, LargerIs
  <2>8. IsoSplit(n, m, d, r, donor, recipient)
    BY <2>4, <2>6, <2>7
  <2> HIDE DEF split
  <2> DEFINE ad == AreaForBytes(donor, d)
             ar == AreaForBytes(recipient, r)
             an == AreaForBytes(n, d)
             ud == AreaForBytes(1, d)
             ur == AreaForBytes(1, r)
  <2>9. /\ Taken(h, 2) = cores * ad /\ Rounding(h, 2) = cores * ud
        /\ Taken(h, 3) = c * ar /\ Rounding(h, 3) = c * ur
    BY <1>5, <1>7 DEF Share
  <2>10. {ad, ar, an, ud, ur} \subseteq Nat
    BY <2>8 DEF IsoSplit
  <2>11. (m * ad) + ar <= m * an /\ m * an < (m * ad) + ar + (m * ud) + ur
    BY <2>8 DEF IsoSplit
  <2> HIDE DEF ad, ar, an, ud, ur
  <2>12. {cores * ad, cores * ar, cores * an, cores * ud, cores * ur} \subseteq Nat
    BY <2>10
  <2>13. CASE file.levels[3].scope = "per_chip"
    <3>1. m = cores /\ c = 1
      BY <2>13 DEF m, c, CopiesOf
    <3>2. c * ar = ar /\ c * ur = ur
      BY <2>10, <3>1
    <3>3. (cores * ad) + ar <= cores * an /\ cores * an < (cores * ad) + ar + (cores * ud) + ur
      BY <2>11, <3>1
    <3>4. Share(cores, n, d) = cores * an
      BY DEF an, Share
    <3> QED
      BY <2>9, <2>10, <2>12, <3>2, <3>3, <3>4
  <2>14. CASE file.levels[3].scope = "per_core"
    <3>1. m = 1 /\ c = cores
      BY <2>14 DEF m, c, CopiesOf
    <3>2. ad + ar <= an /\ an <= ad + ar + ud + ur
      BY <2>10, <2>11, <3>1
    <3>3. cores * (ad + ar) <= cores * an /\ cores * an <= cores * (ad + ar + ud + ur)
      <4>1. \A a, b \in Nat : a <= b => cores * a <= cores * b
        <5>1. ASSUME NEW a \in Nat, NEW b \in Nat, a <= b PROVE cores * a <= cores * b
          <6>1. PICK e \in Nat : b = a + e
            <7>1. b - a \in Nat /\ b = a + (b - a)
              BY <5>1
            <7> QED
              BY <7>1
          <6>2. cores * b = (cores * a) + (cores * e) /\ cores * e \in Nat /\ cores * a \in Nat
            BY <6>1
          <6> QED
            BY <6>2
        <5> QED
          BY <5>1
      <4>2. ad + ar \in Nat /\ ad + ar + ud + ur \in Nat /\ an \in Nat
        BY <2>10
      <4> QED
        BY <3>2, <4>1, <4>2
    <3>4. /\ cores * (ad + ar) = (cores * ad) + (cores * ar)
          /\ cores * (ad + ar + ud + ur)
               = (cores * ad) + (cores * ar) + (cores * ud) + (cores * ur)
      BY <2>10
    <3>5. Share(cores, n, d) = cores * an
      BY DEF an, Share
    <3>6. c * ar = cores * ar /\ c * ur = cores * ur
      BY <3>1
    <3> QED
      BY <2>9, <2>12, <3>3, <3>4, <3>5, <3>6
  <2> QED
    BY <1>2, <1>7, <2>13, <2>14
<1> QED
  BY <1>6, <1>7

\* HBM and LtRAM have together the area of the nominal HBM, but for their rounding.
LEMMA HbmIsIsoArea ==
  ASSUME NEW file, Comparable(file), NEW cores \in Nat \ {0}, NEW h, h = LoadHierarchy(file, cores),
         file.levels[4].enabled => Density[file.levels[4].tech] # Unset,
         NEW n \in Nat, n = NominalCapacity(file, file.levels[5]),
         NEW d, d = DieDensity(file.levels[5])
  PROVE  /\ {Taken(h, 4), Rounding(h, 4), Taken(h, 5), Rounding(h, 5)} \subseteq Nat
         /\ Taken(h, 5) + Taken(h, 4) <= Share(1, n, d)
         /\ Share(1, n, d) <= Taken(h, 5) + Taken(h, 4) + Rounding(h, 5) + Rounding(h, 4)
<1> DEFINE donor == ApplyAreaBudget(file, file.levels[5], cores)
           recipient == ApplyAreaBudget(file, file.levels[4], cores)
           r == DieDensity(file.levels[4])
<1>1. /\ file.levels[5].id = "hbm" /\ file.levels[4].id = "ltram"
      /\ LevelOf(file, "hbm") = file.levels[5] /\ LevelOf(file, "ltram") = file.levels[4]
      /\ HasLevel(file, "hbm")
      /\ HasLevel(file, "ltram") <=> file.levels[4].enabled
  BY LevelsFound
<1>2. /\ file.levels[5].enabled /\ file.levels[5].scope = "per_chip"
      /\ d = DensityOf(file.levels[5], file.budget.hbmDensity)
      /\ file.levels[4].enabled => file.budget.enabled /\ file.levels[4].scope = "per_chip"
  <2>1. BaselineFile.levels[5].scope = "per_chip"
    BY DEF BaselineFile, Hierarchy, Level
  <2> QED
    BY <2>1 DEF Comparable
<1>3. file.levels[5].tech \in DOMAIN Density /\ file.levels[4].tech \in DOMAIN Density
      /\ file.budget.ltramPct \in 0..100
  BY FileTypes
<1>4. Measures(d) /\ Measures(r)
  BY <1>3, DensitiesDivide
<1>5. /\ Taken(h, 5) = Share(1, donor, d) /\ Rounding(h, 5) = Share(1, 1, d)
      /\ file.levels[4].enabled => Taken(h, 4) = Share(1, recipient, r) /\ Rounding(h, 4) = Share(1, 1, r)
      /\ ~file.levels[4].enabled => Taken(h, 4) = 0 /\ Rounding(h, 4) = 0
  <2>1. 4 \in 1..5 /\ 5 \in 1..5
    OBVIOUS
  <2>2. /\ CopiesOf(file.levels[5], cores) = 1
        /\ file.levels[4].enabled => CopiesOf(file.levels[4], cores) = 1
    BY <1>2 DEF CopiesOf
  <2>3. /\ Taken(h, 5) = Share(CopiesOf(file.levels[5], cores), donor, DieDensity(file.levels[5]))
        /\ Rounding(h, 5) = Share(CopiesOf(file.levels[5], cores), 1, DieDensity(file.levels[5]))
    BY <1>2, <2>1, TakenIs
  <2>4. /\ file.levels[4].enabled
           => /\ Taken(h, 4) = Share(CopiesOf(file.levels[4], cores), recipient, r)
              /\ Rounding(h, 4) = Share(CopiesOf(file.levels[4], cores), 1, r)
        /\ ~file.levels[4].enabled => Taken(h, 4) = 0 /\ Rounding(h, 4) = 0
    BY <2>1, TakenIs
  <2> HIDE DEF donor, recipient, r
  <2> QED
    BY <2>2, <2>3, <2>4
<1>6. CASE ~file.levels[4].enabled
  <2>1. donor = n
    BY <1>1, <1>6 DEF ApplyAreaBudget, TradingHbm, Trading
  <2>2. Share(1, n, d) \in Nat /\ Share(1, 1, d) \in Nat
    BY <1>4, AreaIs
  <2> HIDE DEF donor
  <2> QED
    BY <1>5, <1>6, <2>1, <2>2
<1>7. CASE file.levels[4].enabled
  <2> DEFINE p == file.budget.ltramPct
             split == SplitByAreaFraction(n, d, r, p, 1)
  <2>2. r = Density[file.levels[4].tech]
    BY <1>7 DEF DieDensity, DensityOf
  <2>3. TradingHbm(file) /\ LtramSplit(file) = split
    BY <1>1, <1>2, <1>7, <2>2 DEF TradingHbm, Trading, LtramSplit
  <2>4. donor = split.donor /\ recipient = split.recipient
    BY <1>1, <2>3 DEF ApplyAreaBudget
  <2>5. p \in 0..100
    BY <1>3
  <2> HIDE DEF p, donor, recipient, r
  <2>6. IsoSplit(n, 1, d, r, split.donor, split.recipient)
    <3>1. \A m \in Nat \ {0} : IsoSplit(n, m, d, r, SplitByAreaFraction(n, d, r, p, m).donor,
                                         SplitByAreaFraction(n, d, r, p, m).recipient)
      BY <1>4, <2>5, SplitIsIsoArea
    <3>2. 1 \in Nat \ {0}
      OBVIOUS
    <3> HIDE DEF p
    <3> QED
      BY <3>1, <3>2
  <2>8. IsoSplit(n, 1, d, r, donor, recipient)
    BY <2>4, <2>6
  <2> HIDE DEF split
  <2> DEFINE ad == AreaForBytes(donor, d)
             ar == AreaForBytes(recipient, r)
             an == AreaForBytes(n, d)
             ud == AreaForBytes(1, d)
             ur == AreaForBytes(1, r)
  <2>9. /\ Taken(h, 5) = 1 * ad /\ Rounding(h, 5) = 1 * ud
        /\ Taken(h, 4) = 1 * ar /\ Rounding(h, 4) = 1 * ur
    BY <1>5, <1>7 DEF Share
  <2>10. {ad, ar, an, ud, ur} \subseteq Nat
    BY <2>8 DEF IsoSplit
  <2>11. (1 * ad) + ar <= 1 * an /\ 1 * an < (1 * ad) + ar + (1 * ud) + ur
    BY <2>8 DEF IsoSplit
  <2>12. Share(1, n, d) = 1 * an
    BY DEF Share
  <2> HIDE DEF ad, ar, an, ud, ur
  <2> QED
    BY <2>9, <2>10, <2>11, <2>12
<1> QED
  BY <1>6, <1>7

\* The files of configs/hierarchy are such as can be compared.
LEMMA HierarchiesCompare ==
  ASSUME NEW stram \in LevelConfig, stram.id = "stram", stram.scope = "per_core",
         NEW ltram \in LevelConfig, ltram.id = "ltram", ltram.scope = "per_chip",
         NEW b \in BOOLEAN, NEW s \in 0..100, NEW l \in 0..100,
         stram.enabled \/ ltram.enabled => b
  PROVE  Comparable(Hierarchy(stram, ltram, Budget(b, s, l)))
<1> DEFINE file == Hierarchy(stram, ltram, Budget(b, s, l))
           psum == Level("psum", TRUE, "psum_trainium2", "per_core", PsumBytes)
           sbuf == Level("sbuf", TRUE, "tsmc_n22_sram", "per_core", SbufBytes)
           hbm == Level("hbm", TRUE, "hbm_trainium2", "per_chip", Unset)
<1>1. /\ file.levels = <<psum, sbuf, stram, ltram, hbm>>
      /\ file.budget = Budget(b, s, l) /\ file.hbmGib = HbmGib
      /\ file.domains = {"psum", "sbuf", "stram", "ltram", "hbm"}
      /\ file = [levels |-> file.levels, domains |-> file.domains, hbmGib |-> HbmGib,
                 budget |-> file.budget]
  BY DEF Hierarchy
<1>2. psum \in LevelConfig /\ sbuf \in LevelConfig /\ hbm \in LevelConfig
  BY SweepAssumption DEF Level, LevelConfig, Scopes
<1>3. /\ Budget(b, s, l) \in AreaBudgetConfig
      /\ Budget(b, s, l).enabled = b /\ Budget(b, s, l).sbufDensity = SbufDensity
      /\ Budget(b, s, l).hbmDensity = HbmDensity
      /\ Budget(b, s, l).nominalSbuf = SbufBytes /\ Budget(b, s, l).nominalHbmGib = HbmGib
  BY SweepAssumption DEF Budget, AreaBudgetConfig
<1>4. /\ psum.id = "psum" /\ psum.enabled /\ psum.scope = "per_core" /\ psum.capacity = PsumBytes
      /\ sbuf.id = "sbuf" /\ sbuf.enabled /\ sbuf.scope = "per_core" /\ sbuf.capacity = SbufBytes
      /\ hbm.id = "hbm" /\ hbm.enabled /\ hbm.scope = "per_chip"
  BY DEF Level
<1>5. /\ BaselineFile.levels = <<psum, sbuf, NoStram, NoLtram, hbm>>
      /\ NoStram.id = "stram" /\ NoLtram.id = "ltram"
      /\ BaselineFile.hbmGib = HbmGib
  BY DEF BaselineFile, Hierarchy, NoStram, NoLtram, Level
<1> HIDE DEF file, psum, sbuf, hbm
<1>6. /\ file.levels[1] = psum /\ file.levels[2] = sbuf /\ file.levels[3] = stram
      /\ file.levels[4] = ltram /\ file.levels[5] = hbm /\ DOMAIN file.levels = 1..5
      /\ file.levels \in Seq(LevelConfig)
  <2>1. <<psum, sbuf, stram, ltram, hbm>> \in Seq(LevelConfig)
    BY <1>2
  <2> QED
    BY <1>1, <2>1
<1>7. /\ BaselineFile.levels[1] = psum /\ BaselineFile.levels[2] = sbuf
      /\ BaselineFile.levels[3] = NoStram /\ BaselineFile.levels[4] = NoLtram
      /\ BaselineFile.levels[5] = hbm
  BY <1>5
<1>8. file \in HierarchyConfig
  BY <1>1, <1>3, <1>6, SweepAssumption DEF HierarchyConfig
<1>9. \A i \in 1..5 : file.levels[i].id = BaselineFile.levels[i].id
  <2>1. \A i \in 1..5 : i = 1 \/ i = 2 \/ i = 3 \/ i = 4 \/ i = 5
    OBVIOUS
  <2> QED
    BY <1>5, <1>6, <1>7, <2>1
<1>10. /\ NominalCapacity(file, psum) = DeclaredCapacity(BaselineFile, psum)
       /\ NominalCapacity(file, sbuf) = DeclaredCapacity(BaselineFile, sbuf)
       /\ NominalCapacity(file, hbm) = DeclaredCapacity(BaselineFile, hbm)
  <2>1. file.budget.enabled = b /\ file.budget.nominalSbuf = SbufBytes
        /\ file.budget.nominalHbmGib = HbmGib
    BY <1>1, <1>3
  <2>2. OrElse(SbufBytes, SbufBytes) = SbufBytes /\ OrElse(HbmGib, HbmGib) = HbmGib
    BY DEF OrElse
  <2> QED
    BY <1>1, <1>4, <1>5, <2>1, <2>2 DEF NominalCapacity, DeclaredCapacity
<1>11. ASSUME NEW i \in {1, 2, 5}
       PROVE  /\ file.levels[i].enabled /\ file.levels[i].scope = BaselineFile.levels[i].scope
              /\ NominalCapacity(file, file.levels[i])
                   = DeclaredCapacity(BaselineFile, BaselineFile.levels[i])
              /\ DieDensity(file.levels[i]) = DieDensity(BaselineFile.levels[i])
  BY <1>4, <1>6, <1>7, <1>10
<1>12. /\ DieDensity(file.levels[2]) = DensityOf(file.levels[2], file.budget.sbufDensity)
       /\ DieDensity(file.levels[5]) = DensityOf(file.levels[5], file.budget.hbmDensity)
  BY <1>1, <1>3, <1>4, <1>6 DEF DieDensity
<1>13. /\ file.levels[3].enabled \/ file.levels[4].enabled => file.budget.enabled
       /\ file.levels[3].enabled => file.levels[3].scope \in {"per_core", "per_chip"}
       /\ file.levels[4].enabled => file.levels[4].scope = "per_chip"
  BY <1>1, <1>3, <1>6
<1>14. Comparable(file)
  BY <1>6, <1>8, <1>9, <1>11, <1>12, <1>13 DEF Comparable
<1> QED
  BY <1>14 DEF file
\* The baseline, and the files that a sweep writes
LEMMA FilesCompare ==
  /\ Comparable(BaselineFile)
  /\ ~BaselineFile.budget.enabled
  /\ ~BaselineFile.levels[3].enabled /\ ~BaselineFile.levels[4].enabled
  /\ \A tier \in {"ltram", "stram"} : \A tech \in ToSet(TierTechs[tier]), pct \in 0..100 :
       /\ Comparable(Template(tier, tech, pct))
       /\ \A i \in {3, 4} : Template(tier, tech, pct).levels[i].enabled
            => Density[Template(tier, tech, pct).levels[i].tech] # Unset
<1>1. /\ ToSet(TierTechs["ltram"]) = {"rram", "feram"}
      /\ ToSet(TierTechs["stram"]) = {"edram_1t1c", "edram_3t"}
  BY DEF TierTechs, ToSet
<1>2. \A tier \in {"ltram", "stram"} : \A tech \in ToSet(TierTechs[tier]) :
        tech \in DOMAIN Density /\ Density[tech] # Unset
  <2>1. ToSet(TierTechs.ltram \o TierTechs.stram) = {"rram", "feram", "edram_1t1c", "edram_3t"}
    BY DEF TierTechs, ToSet
  <2> QED
    BY <1>1, <2>1, SweepAssumption
<1>3. \A tech \in DOMAIN Density : \A on \in BOOLEAN :
        /\ Level("stram", on, tech, "per_core", 0) \in LevelConfig
        /\ Level("ltram", on, tech, "per_chip", 0) \in LevelConfig
  BY DEF Level, LevelConfig, Scopes
<1>4. \A id, on, tech, scope : /\ Level(id, on, tech, scope, 0).id = id
                              /\ Level(id, on, tech, scope, 0).enabled = on
                              /\ Level(id, on, tech, scope, 0).tech = tech
                              /\ Level(id, on, tech, scope, 0).scope = scope
  BY DEF Level
<1>5. NoStram \in LevelConfig /\ NoLtram \in LevelConfig
  BY <1>1, <1>2, <1>3 DEF NoStram, NoLtram
<1>6. /\ NoStram.id = "stram" /\ ~NoStram.enabled /\ NoStram.scope = "per_core"
      /\ NoLtram.id = "ltram" /\ ~NoLtram.enabled /\ NoLtram.scope = "per_chip"
  BY DEF NoStram, NoLtram, Level
<1>7. \A stram, ltram, b : /\ Hierarchy(stram, ltram, b).levels[3] = stram
                          /\ Hierarchy(stram, ltram, b).levels[4] = ltram
                          /\ Hierarchy(stram, ltram, b).budget = b
  BY DEF Hierarchy
<1>8. Comparable(BaselineFile)
  <2>1. 0 \in 0..100 /\ FALSE \in BOOLEAN
    OBVIOUS
  <2>2. Comparable(Hierarchy(NoStram, NoLtram, Budget(FALSE, 0, 0)))
    BY <1>5, <1>6, <2>1, HierarchiesCompare
  <2> QED
    BY <2>2 DEF BaselineFile
<1>9. ~BaselineFile.budget.enabled /\ ~BaselineFile.levels[3].enabled /\ ~BaselineFile.levels[4].enabled
  BY <1>6, <1>7 DEF BaselineFile, Budget
<1>10. ASSUME NEW tech \in ToSet(TierTechs["ltram"]), NEW pct \in 0..100
       PROVE  /\ Comparable(Template("ltram", tech, pct))
              /\ \A i \in {3, 4} : Template("ltram", tech, pct).levels[i].enabled
                   => Density[Template("ltram", tech, pct).levels[i].tech] # Unset
  <2> DEFINE ltram == Level("ltram", TRUE, tech, "per_chip", 0)
  <2>1. Template("ltram", tech, pct) = Hierarchy(NoStram, ltram, Budget(TRUE, 0, pct))
    BY DEF Template
  <2>2. tech \in DOMAIN Density /\ Density[tech] # Unset
    BY <1>2
  <2>3. ltram \in LevelConfig /\ ltram.id = "ltram" /\ ltram.enabled /\ ltram.tech = tech
        /\ ltram.scope = "per_chip"
    <3>1. ltram \in LevelConfig
      BY <1>3, <2>2
    <3>2. /\ ltram.id = "ltram" /\ ltram.enabled = TRUE /\ ltram.tech = tech /\ ltram.scope = "per_chip"
      BY DEF Level
    <3> HIDE DEF ltram
    <3> QED
      BY <3>1, <3>2
  <2> HIDE DEF ltram
  <2>4. 0 \in 0..100 /\ TRUE \in BOOLEAN
    OBVIOUS
  <2>5. Comparable(Hierarchy(NoStram, ltram, Budget(TRUE, 0, pct)))
    BY <1>5, <1>6, <2>3, <2>4, HierarchiesCompare
  <2>6. /\ Template("ltram", tech, pct).levels[4] = ltram
        /\ Template("ltram", tech, pct).levels[3] = NoStram
    <3>1. /\ Hierarchy(NoStram, ltram, Budget(TRUE, 0, pct)).levels[4] = ltram
          /\ Hierarchy(NoStram, ltram, Budget(TRUE, 0, pct)).levels[3] = NoStram
      BY DEF Hierarchy
    <3> QED
      BY <2>1, <3>1
  <2>7. ASSUME NEW i \in {3, 4}, Template("ltram", tech, pct).levels[i].enabled
        PROVE  Density[Template("ltram", tech, pct).levels[i].tech] # Unset
    BY <1>6, <2>2, <2>3, <2>6, <2>7
  <2> QED
    BY <2>1, <2>5, <2>7
<1>11. ASSUME NEW tech \in ToSet(TierTechs["stram"]), NEW pct \in 0..100
       PROVE  /\ Comparable(Template("stram", tech, pct))
              /\ \A i \in {3, 4} : Template("stram", tech, pct).levels[i].enabled
                   => Density[Template("stram", tech, pct).levels[i].tech] # Unset
  <2> DEFINE stram == Level("stram", TRUE, tech, "per_core", 0)
  <2>1. Template("stram", tech, pct) = Hierarchy(stram, NoLtram, Budget(TRUE, pct, 0))
    BY DEF Template
  <2>2. tech \in DOMAIN Density /\ Density[tech] # Unset
    BY <1>2
  <2>3. stram \in LevelConfig /\ stram.id = "stram" /\ stram.enabled /\ stram.tech = tech
        /\ stram.scope = "per_core"
    <3>1. stram \in LevelConfig
      BY <1>3, <2>2
    <3>2. /\ stram.id = "stram" /\ stram.enabled = TRUE /\ stram.tech = tech /\ stram.scope = "per_core"
      BY DEF Level
    <3> HIDE DEF stram
    <3> QED
      BY <3>1, <3>2
  <2> HIDE DEF stram
  <2>4. 0 \in 0..100 /\ TRUE \in BOOLEAN
    OBVIOUS
  <2>5. Comparable(Hierarchy(stram, NoLtram, Budget(TRUE, pct, 0)))
    BY <1>5, <1>6, <2>3, <2>4, HierarchiesCompare
  <2>6. /\ Template("stram", tech, pct).levels[3] = stram
        /\ Template("stram", tech, pct).levels[4] = NoLtram
    <3>1. /\ Hierarchy(stram, NoLtram, Budget(TRUE, pct, 0)).levels[3] = stram
          /\ Hierarchy(stram, NoLtram, Budget(TRUE, pct, 0)).levels[4] = NoLtram
      BY DEF Hierarchy
    <3> QED
      BY <2>1, <3>1
  <2>7. ASSUME NEW i \in {3, 4}, Template("stram", tech, pct).levels[i].enabled
        PROVE  Density[Template("stram", tech, pct).levels[i].tech] # Unset
    BY <1>6, <2>2, <2>3, <2>6, <2>7
  <2> QED
    BY <2>1, <2>5, <2>7
<1> QED
  BY <1>8, <1>9, <1>10, <1>11

\* A hierarchy has the die area of another, short of it by less than a byte of each level.
IsoArea(new, old) ==
  /\ Die(new, Capacities(new)) <= Die(old, Capacities(old))
  /\ Die(old, Capacities(old)) - Die(new, Capacities(new)) < Die(new, OneByte(new))

\* The recipients of a file have densities of their own.
Dense(file) == \A i \in {3, 4} : file.levels[i].enabled => Density[file.levels[i].tech] # Unset

\* A file that can be compared and is not refused has them.
LEMMA AcceptedIsDense ==
  ASSUME NEW file, Comparable(file), ~Refused(file)
  PROVE  Dense(file)
<1>1. /\ LevelOf(file, "stram") = file.levels[3] /\ LevelOf(file, "ltram") = file.levels[4]
      /\ HasLevel(file, "sbuf") /\ HasLevel(file, "hbm")
      /\ HasLevel(file, "stram") <=> file.levels[3].enabled
      /\ HasLevel(file, "ltram") <=> file.levels[4].enabled
  BY LevelsFound
<1>2. file.levels[3].enabled \/ file.levels[4].enabled => file.budget.enabled
  BY DEF Comparable
<1>3. ~MissesDensity(file)
  BY DEF Refused
<1>4. /\ file.levels[3].enabled => Density[file.levels[3].tech] # Unset
      /\ file.levels[4].enabled => Density[file.levels[4].tech] # Unset
  BY <1>1, <1>2, <1>3 DEF MissesDensity, TradingSram, TradingHbm, Trading
<1> QED
  BY <1>4 DEF Dense

\* The nominal capacities are numbers of bytes.
LEMMA NominalIs ==
  ASSUME NEW file, Comparable(file)
  PROVE  /\ NominalCapacity(file, file.levels[1]) = PsumBytes
         /\ NominalCapacity(file, file.levels[2]) = SbufBytes
         /\ NominalCapacity(file, file.levels[5]) = HbmGib * Gib
         /\ PsumBytes \in Nat /\ SbufBytes \in Nat /\ HbmGib * Gib \in Nat
<1>1. \A i \in {1, 2, 5} :
        NominalCapacity(file, file.levels[i]) = DeclaredCapacity(BaselineFile, BaselineFile.levels[i])
  BY DEF Comparable
<1>2. /\ DeclaredCapacity(BaselineFile, BaselineFile.levels[1]) = PsumBytes
      /\ DeclaredCapacity(BaselineFile, BaselineFile.levels[2]) = SbufBytes
      /\ DeclaredCapacity(BaselineFile, BaselineFile.levels[5]) = HbmGib * Gib
  BY DEF DeclaredCapacity, BaselineFile, Hierarchy, Level
<1>3. PsumBytes \in Nat /\ SbufBytes \in Nat /\ HbmGib \in Nat /\ Gib \in Nat
  BY SweepAssumption, ConfigurationAssumption
<1> QED
  BY <1>1, <1>2, <1>3

\* PSUM keeps its capacity.
LEMMA PsumIsKept ==
  ASSUME NEW file, Comparable(file), NEW cores \in Nat \ {0}, NEW h, h = LoadHierarchy(file, cores)
  PROVE  /\ Taken(h, 1) = Share(cores, PsumBytes, DieDensity(file.levels[1]))
         /\ Taken(h, 1) \in Nat /\ Rounding(h, 1) \in Nat \ {0}
<1>1. file.levels[1].id = "psum"
  BY LevelsFound
<1>2. file.levels[1].enabled /\ file.levels[1].scope = "per_core"
  <2>1. BaselineFile.levels[1].scope = "per_core"
    BY DEF BaselineFile, Hierarchy, Level
  <2> QED
    BY <2>1 DEF Comparable
<1>3. ApplyAreaBudget(file, file.levels[1], cores) = PsumBytes /\ PsumBytes \in Nat
  BY <1>1, NominalIs DEF ApplyAreaBudget
<1>4. CopiesOf(file.levels[1], cores) = cores
  BY <1>2 DEF CopiesOf
<1>5. Measures(DieDensity(file.levels[1]))
  <2>1. 1 \in 1..5
    OBVIOUS
  <2>2. file.levels[1].tech \in DOMAIN Density
    BY <2>1, FileTypes
  <2> QED
    BY <2>2, DensitiesDivide
<1>6. /\ Taken(h, 1) = Share(CopiesOf(file.levels[1], cores),
                              ApplyAreaBudget(file, file.levels[1], cores), DieDensity(file.levels[1]))
      /\ Rounding(h, 1) = Share(CopiesOf(file.levels[1], cores), 1, DieDensity(file.levels[1]))
  <2>1. 1 \in 1..5
    OBVIOUS
  <2> QED
    BY <1>2, <2>1, TakenIs
<1>7. Share(cores, PsumBytes, DieDensity(file.levels[1])) \in Nat
      /\ Share(cores, 1, DieDensity(file.levels[1])) \in Nat \ {0}
  BY <1>3, <1>5, AreaIs
<1> QED
  BY <1>3, <1>4, <1>6, <1>7

\* Loaded for the same cores, a file that can be compared has the die area of the baseline.
LEMMA FilesAreIsoArea ==
  ASSUME NEW file, Comparable(file), Dense(file), NEW cores \in Nat \ {0}
  PROVE  IsoArea(LoadHierarchy(file, cores), LoadHierarchy(BaselineFile, cores))
<1> DEFINE new == LoadHierarchy(file, cores)
           old == LoadHierarchy(BaselineFile, cores)
           sram == Share(cores, SbufBytes, DieDensity(file.levels[2]))
           hbm == Share(1, HbmGib * Gib, DieDensity(file.levels[5]))
           psum == Share(cores, PsumBytes, DieDensity(file.levels[1]))
<1>1. /\ Comparable(BaselineFile)
      /\ ~BaselineFile.levels[3].enabled /\ ~BaselineFile.levels[4].enabled
  BY FilesCompare
<1>2. /\ DieDensity(file.levels[1]) = DieDensity(BaselineFile.levels[1])
      /\ DieDensity(file.levels[2]) = DieDensity(BaselineFile.levels[2])
      /\ DieDensity(file.levels[5]) = DieDensity(BaselineFile.levels[5])
  BY DEF Comparable
<1>3. /\ Taken(new, 1) = psum /\ Taken(new, 1) \in Nat /\ Rounding(new, 1) \in Nat \ {0}
      /\ Taken(old, 1) = psum
  BY <1>1, <1>2, PsumIsKept
<1>4. /\ {Taken(new, 2), Rounding(new, 2), Taken(new, 3), Rounding(new, 3)} \subseteq Nat
      /\ Taken(new, 2) + Taken(new, 3) <= sram
      /\ sram <= Taken(new, 2) + Taken(new, 3) + Rounding(new, 2) + Rounding(new, 3)
  <2>1. file.levels[3].enabled => Density[file.levels[3].tech] # Unset
    BY DEF Dense
  <2> QED
    BY <2>1, NominalIs, SramIsIsoArea
<1>5. /\ {Taken(new, 4), Rounding(new, 4), Taken(new, 5), Rounding(new, 5)} \subseteq Nat
      /\ Taken(new, 5) + Taken(new, 4) <= hbm
      /\ hbm <= Taken(new, 5) + Taken(new, 4) + Rounding(new, 5) + Rounding(new, 4)
  <2>1. file.levels[4].enabled => Density[file.levels[4].tech] # Unset
    BY DEF Dense
  <2> QED
    BY <2>1, NominalIs, HbmIsIsoArea
<1>6. /\ Taken(old, 2) = sram /\ Taken(old, 3) = 0
      /\ Taken(old, 5) = hbm /\ Taken(old, 4) = 0
  <2>1. /\ BaselineFile.levels[2].id = "sbuf" /\ BaselineFile.levels[5].id = "hbm"
        /\ HasLevel(BaselineFile, "stram") <=> BaselineFile.levels[3].enabled
        /\ HasLevel(BaselineFile, "ltram") <=> BaselineFile.levels[4].enabled
    BY <1>1, LevelsFound
  <2>2. /\ ApplyAreaBudget(BaselineFile, BaselineFile.levels[2], cores) = SbufBytes
        /\ ApplyAreaBudget(BaselineFile, BaselineFile.levels[5], cores) = HbmGib * Gib
    <3>1. ~TradingSram(BaselineFile) /\ ~TradingHbm(BaselineFile)
      BY <1>1, <2>1 DEF TradingSram, TradingHbm, Trading
    <3>2. /\ NominalCapacity(BaselineFile, BaselineFile.levels[2]) = SbufBytes
          /\ NominalCapacity(BaselineFile, BaselineFile.levels[5]) = HbmGib * Gib
      BY <1>1, NominalIs
    <3> QED
      BY <2>1, <3>1, <3>2 DEF ApplyAreaBudget
  <2>3. /\ BaselineFile.levels[2].enabled /\ BaselineFile.levels[5].enabled
        /\ CopiesOf(BaselineFile.levels[2], cores) = cores
        /\ CopiesOf(BaselineFile.levels[5], cores) = 1
    BY DEF BaselineFile, Hierarchy, Level, CopiesOf
  <2>4. 2 \in 1..5 /\ 3 \in 1..5 /\ 4 \in 1..5 /\ 5 \in 1..5
    OBVIOUS
  <2>5. Taken(old, 2) = Share(CopiesOf(BaselineFile.levels[2], cores),
                               ApplyAreaBudget(BaselineFile, BaselineFile.levels[2], cores),
                               DieDensity(BaselineFile.levels[2]))
    BY <1>1, <2>3, <2>4, TakenIs
  <2>6. Taken(old, 5) = Share(CopiesOf(BaselineFile.levels[5], cores),
                               ApplyAreaBudget(BaselineFile, BaselineFile.levels[5], cores),
                               DieDensity(BaselineFile.levels[5]))
    BY <1>1, <2>3, <2>4, TakenIs
  <2>7. Taken(old, 3) = 0 /\ Taken(old, 4) = 0
    BY <1>1, <2>4, TakenIs
  <2> QED
    BY <1>2, <2>2, <2>3, <2>5, <2>6, <2>7
<1>7. psum \in Nat /\ sram \in Nat /\ hbm \in Nat
  <2>1. psum \in Nat
    BY <1>3
  <2>2. 2 \in 1..5 /\ 5 \in 1..5
    OBVIOUS
  <2>3. Measures(DieDensity(file.levels[2])) /\ Measures(DieDensity(file.levels[5]))
    BY <2>2, FileTypes, DensitiesDivide
  <2>4. SbufBytes \in Nat /\ HbmGib * Gib \in Nat /\ 1 \in Nat \ {0}
    BY NominalIs
  <2>5. sram \in Nat
    BY <2>3, <2>4, AreaIs
  <2>6. hbm \in Nat
    <3> DEFINE k == HbmGib * Gib
    <3>1. k \in Nat
      BY <2>4
    <3> HIDE DEF k
    <3>2. Share(1, k, DieDensity(file.levels[5])) \in Nat
      BY <2>3, <2>4, <3>1, AreaIs
    <3> QED
      BY <3>2 DEF k
  <2> QED
    BY <2>1, <2>5, <2>6
<1>8. DOMAIN new.levels = 1..5 /\ DOMAIN old.levels = 1..5
  BY <1>1, LevelsFound, LoadedIs
<1> HIDE DEF new, old, psum, sram, hbm
<1>9. /\ Die(new, Capacities(new)) = Taken(new, 1) + Taken(new, 2) + Taken(new, 3) + Taken(new, 4) + Taken(new, 5)
      /\ Die(new, OneByte(new)) = Rounding(new, 1) + Rounding(new, 2) + Rounding(new, 3) + Rounding(new, 4) + Rounding(new, 5)
      /\ Die(old, Capacities(old)) = Taken(old, 1) + Taken(old, 2) + Taken(old, 3) + Taken(old, 4) + Taken(old, 5)
  <2>1. \A i \in 1..5 : i = 1 \/ i = 2 \/ i = 3 \/ i = 4 \/ i = 5
    OBVIOUS
  <2>2. \A i \in 1..5 : /\ DieTerm(new, Capacities(new), i) \in Int
                        /\ DieTerm(new, OneByte(new), i) \in Int
                        /\ DieTerm(old, Capacities(old), i) \in Int
    BY <1>3, <1>4, <1>5, <1>6, <1>7, <2>1 DEF Taken, Rounding
  <2>3. Die(new, Capacities(new)) = Taken(new, 1) + Taken(new, 2) + Taken(new, 3) + Taken(new, 4) + Taken(new, 5)
    BY <1>8, <2>2, DieIs DEF Taken
  <2>4. Die(new, OneByte(new)) = Rounding(new, 1) + Rounding(new, 2) + Rounding(new, 3) + Rounding(new, 4) + Rounding(new, 5)
    BY <1>8, <2>2, DieIs DEF Rounding
  <2>5. Die(old, Capacities(old)) = Taken(old, 1) + Taken(old, 2) + Taken(old, 3) + Taken(old, 4) + Taken(old, 5)
    BY <1>8, <2>2, DieIs DEF Taken
  <2> QED
    BY <2>3, <2>4, <2>5
<1>10. IsoArea(new, old)
  <2> DEFINE t(i) == Taken(new, i)
             u(i) == Rounding(new, i)
  <2>1. /\ t(1) \in Nat /\ t(2) \in Nat /\ t(3) \in Nat /\ t(4) \in Nat /\ t(5) \in Nat
        /\ u(1) \in Nat \ {0} /\ u(2) \in Nat /\ u(3) \in Nat /\ u(4) \in Nat /\ u(5) \in Nat
    BY <1>3, <1>4, <1>5
  <2>2. /\ t(1) = psum
        /\ t(2) + t(3) <= sram /\ sram <= t(2) + t(3) + u(2) + u(3)
        /\ t(5) + t(4) <= hbm /\ hbm <= t(5) + t(4) + u(5) + u(4)
    BY <1>3, <1>4, <1>5
  <2>3. /\ Die(new, Capacities(new)) = t(1) + t(2) + t(3) + t(4) + t(5)
        /\ Die(new, OneByte(new)) = u(1) + u(2) + u(3) + u(4) + u(5)
        /\ Die(old, Capacities(old)) = psum + sram + 0 + 0 + hbm
    BY <1>3, <1>6, <1>9
  <2> HIDE DEF t, u
  <2>4. t(1) + t(2) + t(3) + t(4) + t(5) <= psum + sram + 0 + 0 + hbm
    BY <1>7, <2>1, <2>2
  <2>5. (psum + sram + 0 + 0 + hbm) - (t(1) + t(2) + t(3) + t(4) + t(5)) < u(1) + u(2) + u(3) + u(4) + u(5)
    <3>1. sram - (t(2) + t(3)) <= u(2) + u(3)
      BY <1>7, <2>1, <2>2
    <3>2. hbm - (t(5) + t(4)) <= u(5) + u(4)
      BY <1>7, <2>1, <2>2
    <3>3. u(1) > 0 /\ u(1) \in Nat
      BY <2>1
    <3>4. (psum + sram + 0 + 0 + hbm) - (t(1) + t(2) + t(3) + t(4) + t(5))
            = (sram - (t(2) + t(3))) + (hbm - (t(5) + t(4)))
      BY <1>7, <2>1, <2>2
    <3> QED
      BY <1>7, <2>1, <3>1, <3>2, <3>3, <3>4
  <2> QED
    BY <2>3, <2>4, <2>5 DEF IsoArea
<1> QED
  BY <1>10 DEF new, old

------------------------------------------------------------------------------
(* The sweep and the comparison *)

\* The files whose hierarchies a report may have
Eligible == {file \in HierarchyConfig : Comparable(file) /\ Dense(file)}

\* What a report says for so many cores.
ReportsFor(cores) ==
  [pct : 0..100, order : {"best_case", "worst_case"},
   baseline : {LoadHierarchy(BaselineFile, cores)},
   candidate : {LoadHierarchy(file, cores) : file \in Eligible}]

\* The tiers and technologies that can be swept
SweepJob ==
  {[tier |-> "ltram", tech |-> tech] : tech \in ToSet(TierTechs["ltram"])}
    \cup {[tier |-> "stram", tech |-> tech] : tech \in ToSet(TierTechs["stram"])}

\* The file that the present percentage of the present job is written to
Written == Template(Head(jobs).tier, Head(jobs).tech, Head(fractions))

\* What is loaded is what was written last, for the same job, percentage and cores.
SweepInv ==
  /\ request.cores \in CoreCounts
  /\ step = "compare" => request.file \in Files
  /\ jobs \in Seq(SweepJob) /\ fractions \in Seq(0..100)
  /\ orders \in Seq({"best_case", "worst_case"})
  /\ step \in {"fractions", "load", "orders"}
       => jobs # <<>> /\ baseline = LoadHierarchy(BaselineFile, request.cores)
  /\ step \in {"load", "orders"} => fractions # <<>>
  /\ step = "load" => disk[Path] = Written
  /\ step = "orders" => candidate = LoadHierarchy(Written, request.cores)
  /\ reports \in Seq(ReportsFor(request.cores))

\* What is written for a job is eligible.
LEMMA WrittenIsEligible ==
  ASSUME NEW job \in SweepJob, NEW pct \in 0..100
  PROVE  Template(job.tier, job.tech, pct) \in Eligible
<1>1. job.tier \in {"ltram", "stram"} /\ job.tech \in ToSet(TierTechs[job.tier])
  BY DEF SweepJob
<1>2. Comparable(Template(job.tier, job.tech, pct)) /\ Dense(Template(job.tier, job.tech, pct))
  BY <1>1, FilesCompare DEF Dense
<1>3. Template(job.tier, job.tech, pct) \in HierarchyConfig
  BY <1>2 DEF Comparable
<1> QED
  BY <1>2, <1>3 DEF Eligible

\* Every list of jobs that a command line asks for has jobs of the sweep.
LEMMA JobsAre == JobLists \subseteq Seq(SweepJob)
<1>1. /\ TierTechs["ltram"] = <<"rram", "feram">> /\ TierTechs["stram"] = <<"edram_1t1c", "edram_3t">>
      /\ ToSet(TierTechs["ltram"]) = {"rram", "feram"}
      /\ ToSet(TierTechs["stram"]) = {"edram_1t1c", "edram_3t"}
  BY DEF TierTechs, ToSet
<1>2. ASSUME NEW tier \in {"ltram", "stram"} PROVE TierJobs(tier) \in Seq(SweepJob)
  <2>1. DOMAIN TierTechs[tier] = 1..2
    BY <1>1
  <2>2. \A i \in 1..2 : TierTechs[tier][i] \in ToSet(TierTechs[tier])
    BY <2>1 DEF ToSet
  <2>3. \A i \in 1..2 : [tier |-> tier, tech |-> TierTechs[tier][i]] \in SweepJob
    BY <2>2 DEF SweepJob
  <2>4. TierJobs(tier) = [i \in 1..2 |-> [tier |-> tier, tech |-> TierTechs[tier][i]]]
    BY <2>1 DEF TierJobs
  <2> QED
    BY <2>3, <2>4
<1>3. TierJobs("ltram") \o TierJobs("stram") \in Seq(SweepJob)
  BY <1>2
<1>4. \A s \in Seq(SweepJob) : \A job \in ToSet(s) : <<job>> \in Seq(SweepJob)
  BY DEF ToSet
<1> QED
  BY <1>3, <1>4 DEF JobLists

\* The invariant holds before anything is loaded.
LEMMA SweepInvInit == SweepInit => SweepInv
<1> SUFFICES ASSUME SweepInit PROVE SweepInv
  OBVIOUS
<1>1. request.cores \in CoreCounts /\ request.file \in Files \cup {Unset}
  BY DEF SweepInit
<1>2. jobs \in Seq(SweepJob)
  <2>1. jobs \in JobLists \/ jobs = <<>>
    BY DEF SweepInit
  <2>2. <<>> \in Seq(SweepJob)
    OBVIOUS
  <2>3. JobLists \subseteq Seq(SweepJob)
    BY JobsAre
  <2> QED
    BY <2>1, <2>2, <2>3
<1>3. step \in {"jobs", "compare"} /\ (step = "compare" => request.file \in Files)
  BY <1>1 DEF SweepInit
<1>4. fractions = <<>> /\ orders = <<>> /\ reports = <<>>
  BY DEF SweepInit
<1> QED
  BY <1>1, <1>2, <1>3, <1>4 DEF SweepInv

\* Every step of the sweep keeps it.
LEMMA SweepInvStep == SweepInv /\ SweepNext => SweepInv'
<1> SUFFICES ASSUME SweepInv, SweepNext PROVE SweepInv'
  OBVIOUS
<1> USE DEF SweepInv
<1>1. CASE StartJob
  <2>1. Fractions \in Seq(0..100)
    BY SweepAssumption
  <2> QED
    BY <1>1, <2>1 DEF StartJob
<1>2. CASE WriteHierarchy
  <2>1. Path' = Path /\ Written' = Written
    BY <1>2 DEF WriteHierarchy, Path, Written
  <2>2. disk' = [path \in DOMAIN disk \cup {Path} |-> IF path = Path THEN Written ELSE disk[path]]
    BY <1>2 DEF WriteHierarchy, Written
  <2>3. disk'[Path] = Written
    BY <2>2
  <2> QED
    BY <1>2, <2>1, <2>3 DEF WriteHierarchy
<1>3. CASE LoadCandidate
  <2>1. Written' = Written
    BY <1>3 DEF LoadCandidate, Written
  <2>2. candidate' = LoadHierarchy(Written, request.cores)
    BY <1>3 DEF LoadCandidate
  <2>3. orders' \in Seq({"best_case", "worst_case"})
    BY <1>3 DEF LoadCandidate, SpillOrders
  <2> QED
    BY <1>3, <2>1, <2>2, <2>3 DEF LoadCandidate
<1>4. CASE RunOneCompare
  <2>1. Written' = Written /\ request' = request /\ baseline' = baseline /\ candidate' = candidate
    BY <1>4 DEF RunOneCompare, Written
  <2>2. Head(jobs) \in SweepJob /\ Head(fractions) \in 0..100 /\ Head(orders) \in {"best_case", "worst_case"}
        /\ Tail(orders) \in Seq({"best_case", "worst_case"})
    BY <1>4 DEF RunOneCompare
  <2>3. Written \in Eligible
    BY <2>2, WrittenIsEligible DEF Written
  <2>4. Report(Head(fractions), Head(orders)) \in ReportsFor(request.cores)
    BY <1>4, <2>1, <2>2, <2>3 DEF RunOneCompare, Report, ReportsFor
  <2>5. reports' \in Seq(ReportsFor(request.cores))
    BY <1>4, <2>4 DEF RunOneCompare
  <2> QED
    BY <1>4, <2>1, <2>2, <2>5 DEF RunOneCompare
<1>5. CASE NextFraction
  <2>1. Tail(fractions) \in Seq(0..100)
    BY <1>5 DEF NextFraction
  <2> QED
    BY <1>5, <2>1 DEF NextFraction
<1>6. CASE NextJob
  <2>1. Tail(jobs) \in Seq(SweepJob)
    BY <1>6 DEF NextJob
  <2>2. reports' \in Seq(ReportsFor(request.cores))
    BY <1>6 DEF NextJob
  <2> QED
    BY <1>6, <2>1, <2>2 DEF NextJob
<1>7. CASE Swept
  BY <1>7 DEF Swept
<1>8. CASE Compare
  <2>1. request.file \in Files /\ ~Refused(request.file)
    BY <1>8 DEF Compare
  <2>2. Comparable(request.file)
    BY <2>1, FilesAssumption
  <2>3. request.file \in Eligible
    BY <2>1, <2>2, AcceptedIsDense DEF Eligible, Comparable
  <2>4. request.file.budget.ltramPct \in 0..100
    BY <2>2, FileTypes
  <2>5. Report(request.file.budget.ltramPct, "best_case") \in ReportsFor(request.cores)
    BY <1>8, <2>3, <2>4 DEF Compare, Report, ReportsFor
  <2>6. reports' \in Seq(ReportsFor(request.cores))
    BY <1>8, <2>5 DEF Compare
  <2> QED
    BY <1>8, <2>6 DEF Compare
<1>9. CASE Refuse
  BY <1>9 DEF Refuse
<1>10. CASE SweepEnd
  BY <1>10 DEF SweepEnd, sweepVars, Path, Written
<1> QED
  BY <1>1, <1>2, <1>3, <1>4, <1>5, <1>6, <1>7, <1>8, <1>9, <1>10 DEF SweepNext

\* What is reported for the same cores has the die area of the baseline.
LEMMA ReportsAreIsoArea == SweepInv => ComparisonsAreIsoArea
<1> SUFFICES ASSUME SweepInv, NEW i \in DOMAIN reports
             PROVE  IsoArea(reports[i].candidate, reports[i].baseline)
  BY DEF ComparisonsAreIsoArea, IsoArea, OneByte
<1>1. reports[i] \in ReportsFor(request.cores)
  BY DEF SweepInv
<1>2. PICK file \in Eligible : reports[i].candidate = LoadHierarchy(file, request.cores)
  BY <1>1 DEF ReportsFor
<1>3. reports[i].baseline = LoadHierarchy(BaselineFile, request.cores)
  BY <1>1 DEF ReportsFor
<1>4. request.cores \in Nat \ {0}
  BY SweepAssumption DEF SweepInv
<1>5. Comparable(file) /\ Dense(file)
  BY DEF Eligible
<1> QED
  BY <1>2, <1>3, <1>4, <1>5, FilesAreIsoArea

\* Every candidate that a sweep or a comparison reports on was loaded for the same cores as its
\* baseline, from the file of its own tier, technology and percentage, and the two have the
\* same die area, but for the bytes that are truncated (run_memory_sweep.py, area_budget.py).
THEOREM SweepsAreIsoArea == ExperimentSpec => []ComparisonsAreIsoArea
<1>1. ExperimentInit => SweepInv
  BY SweepInvInit DEF ExperimentInit
<1>2. SweepInv /\ [ExperimentNext]_experimentVars => SweepInv'
  <2> SUFFICES ASSUME SweepInv, [ExperimentNext]_experimentVars PROVE SweepInv'
    OBVIOUS
  <2>1. CASE LoadHierarchies
    BY <2>1, SweepInvStep DEF LoadHierarchies
  <2>2. CASE UNCHANGED sweepVars
    BY <2>2 DEF sweepVars, SweepInv, Path, Written
  <2> QED
    BY <2>1, <2>2 DEF ExperimentNext, AssignHomes, experimentVars
<1>3. SweepInv => ComparisonsAreIsoArea
  BY ReportsAreIsoArea
<1> QED
  BY <1>1, <1>2, <1>3, PTL DEF ExperimentSpec
==============================================================================
