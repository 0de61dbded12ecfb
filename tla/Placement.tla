------------------------------ MODULE Placement ------------------------------
(***************************************************************************)
(* assign_home_levels (policies/placement.py): the desired level of each   *)
(* tensor's category, the fallback of a disabled level, and the capacity   *)
(* pass that spills tensors out of over-full levels.  Every loop iteration *)
(* is a step, so the walk along the fallbacks may be of any shape.         *)
(***************************************************************************)
EXTENDS Integers, Sequences, FiniteSets, Functions

CONSTANTS
  Tensors,
  TensorOrder,   \* trace.tensors, in the order of their ids
  Bytes,         \* TensorRecord.bytes
  CoreOf,        \* TensorRecord.core_id, 0 when null
  LevelOrder,    \* hierarchy.levels
  PerCore,       \* levels of scope "per_core"
  Capacity,
  Retention,     \* retention of each tensor in the level it may be spilled from
  HopBytes,      \* its home_hop_bytes
  Configs,       \* the policies and enabled sets to place under
  NoLevel        \* Python's None as a level

Levels == Range(LevelOrder)

Config ==
  [enabled : SUBSET Levels, desired : [Tensors -> Levels],
   fallback : UNION {[ls -> Levels] : ls \in SUBSET Levels},
   victims : {"best_case", "worst_case"}]

ASSUME PlacementAssumption ==
  /\ TensorOrder \in Seq(Tensors) /\ IsInjective(TensorOrder) /\ Range(TensorOrder) = Tensors
  /\ Bytes \in [Tensors -> Nat]
  /\ LevelOrder \in Seq(Levels) /\ IsInjective(LevelOrder)
  /\ "hbm" \in Levels /\ PerCore \subseteq Levels
  /\ Capacity \in [Levels -> Nat]
  /\ Retention \in [Tensors -> Int] /\ HopBytes \in [Tensors -> Nat]
  /\ Configs \subseteq Config
  /\ \A config \in Configs : config.enabled # {}
  /\ NoLevel \notin Levels

VARIABLES
  config,    \* the policy and the enabled levels
  pc,        \* where assign_home_levels is
  unplaced,  \* tensors still to be given a home
  homes,     \* homes, NoLevel before a tensor has one
  byLevel,   \* by_level, filled once before the capacity pass
  pending,   \* levels the capacity pass has still to visit
  groups,    \* over-full pools of the level, one per core or one for the chip
  walk       \* _resolve_spill_target: where it started, is, and has been

vars == <<config, pc, unplaced, homes, byLevel, pending, groups, walk>>

\* policy.fallback_by_level.get(level_id, "hbm")
FallbackFor(l) == IF l \in DOMAIN config.fallback THEN config.fallback[l] ELSE "hbm"

\* Fault: the level the walk starts from is not marked as visited.
WrongWalkFrom(l) == [from |-> l, current |-> FallbackFor(l), visited |-> {}]

\* _resolve_spill_target begins at the first fallback, having visited the level.
WalkFrom(l) == [from |-> l, current |-> FallbackFor(l), visited |-> {l}]

Init ==
  /\ config \in Configs
  /\ pc = "assign"
  /\ unplaced = TensorOrder
  /\ homes = [t \in Tensors |-> NoLevel]
  /\ byLevel = [l \in Levels |-> {}]
  /\ pending = <<>>
  /\ groups = {}
  /\ walk = [from |-> "hbm", current |-> "hbm", visited |-> {"hbm"}]

------------------------------------------------------------------------------
(* The walk along policy.fallback_by_level *)

\* Fault: levels already visited are not remembered.
WrongWalkOn == [walk EXCEPT !.current = FallbackFor(walk.current)]

WalkOn == [walk EXCEPT !.current = FallbackFor(walk.current),
                       !.visited = @ \cup {walk.current}]

WalkLoops == walk.current \in walk.visited

WalkArrives == ~WalkLoops /\ walk.current \in config.enabled

FollowFallback ==
  /\ pc \in {"fallback", "target"}
  /\ ~WalkLoops /\ ~WalkArrives
  /\ walk' = WalkOn
  /\ UNCHANGED <<config, pc, unplaced, homes, byLevel, pending, groups>>

------------------------------------------------------------------------------
(* Desired homes *)

Place(t, l) ==
  /\ homes' = [homes EXCEPT ![t] = l]
  /\ unplaced' = Tail(unplaced)
  /\ pc' = "assign"
  /\ UNCHANGED <<config, byLevel, pending, groups, walk>>

PlaceDesired ==
  /\ pc = "assign" /\ unplaced # <<>>
  /\ config.desired[Head(unplaced)] \in config.enabled
  /\ Place(Head(unplaced), config.desired[Head(unplaced)])

BeginFallback ==
  /\ pc = "assign" /\ unplaced # <<>>
  /\ config.desired[Head(unplaced)] \notin config.enabled
  /\ pc' = "fallback"
  /\ walk' = WalkFrom(config.desired[Head(unplaced)])
  /\ UNCHANGED <<config, unplaced, homes, byLevel, pending, groups>>

PlaceAtFallback ==
  /\ pc = "fallback" /\ WalkArrives
  /\ Place(Head(unplaced), walk.current)

\* hbm, or without it the first member of a set of strings, whose order Python
\* does not fix.
LastResort == IF "hbm" \in config.enabled THEN {"hbm"} ELSE config.enabled

PlaceAtLastResort ==
  /\ pc = "fallback" /\ WalkLoops
  /\ \E l \in LastResort : Place(Head(unplaced), l)

------------------------------------------------------------------------------
(* The capacity pass *)

BeginEnforcing ==
  /\ pc = "assign" /\ unplaced = <<>>
  /\ pc' = "enforce"
  /\ byLevel' = [l \in Levels |-> {t \in Tensors : homes[t] = l}]
  /\ pending' = LevelOrder
  /\ UNCHANGED <<config, unplaced, homes, groups, walk>>

Total(ts) == SumFunctionOnSet(Bytes, ts)

\* The pools of a level: its tensors, split by core if the level is per core.
Pools(l) ==
  IF l \in PerCore
  THEN {{t \in byLevel[l] : CoreOf[t] = c} : c \in Range(CoreOf)}
  ELSE {byLevel[l]}

OverFull(l) ==
  IF l \in config.enabled THEN {g \in Pools(l) : Total(g) > Capacity[l]} ELSE {}

SkipLevel ==
  /\ pc = "enforce" /\ pending # <<>>
  /\ OverFull(Head(pending)) = {}
  /\ pending' = Tail(pending)
  /\ UNCHANGED <<config, pc, unplaced, homes, byLevel, groups, walk>>

EnterLevel ==
  /\ pc = "enforce" /\ pending # <<>>
  /\ OverFull(Head(pending)) # {}
  /\ pc' = "target"
  /\ groups' = OverFull(Head(pending))
  /\ walk' = WalkFrom(Head(pending))
  /\ UNCHANGED <<config, unplaced, homes, byLevel, pending>>

LeaveLevel ==
  /\ pc' = "enforce"
  /\ pending' = Tail(pending)
  /\ groups' = {}
  /\ UNCHANGED <<config, unplaced, homes, byLevel, walk>>

NoSpillTarget == pc = "target" /\ WalkLoops /\ LeaveLevel

FoundSpillTarget ==
  /\ pc = "target" /\ WalkArrives
  /\ pc' = "spill"
  /\ UNCHANGED <<config, unplaced, homes, byLevel, pending, groups, walk>>

Position(t) == CHOOSE i \in DOMAIN TensorOrder : TensorOrder[i] = t

\* Fault: worst_case keeps the key of best_case.
WrongSpillsBefore(t, u) ==
  \/ Retention[t] < Retention[u]
  \/ Retention[t] = Retention[u] /\ HopBytes[t] < HopBytes[u]
  \/ Retention[t] = Retention[u] /\ HopBytes[t] = HopBytes[u] /\ Position(t) < Position(u)

\* _spill_victim_key: by retention, then bytes (both negated for worst_case), then id.
SpillsBefore(t, u) ==
  LET worst == config.victims = "worst_case"
  IN  \/ IF worst THEN Retention[t] > Retention[u] ELSE Retention[t] < Retention[u]
      \/ /\ Retention[t] = Retention[u]
         /\ \/ IF worst THEN HopBytes[t] > HopBytes[u] ELSE HopBytes[t] < HopBytes[u]
            \/ HopBytes[t] = HopBytes[u] /\ Position(t) < Position(u)

Victim(g) == CHOOSE v \in g : \A u \in g \ {v} : SpillsBefore(v, u)

\* Fault: a pool that is exactly full is spilled from.
WrongStillOver(g) == g # {} /\ Total(g) >= Capacity[walk.from]

\* Fault: one victim for each over-full pool.
WrongOneVictim(g) == g # {} /\ g \in OverFull(walk.from)

StillOver(g) == g # {} /\ Total(g) > Capacity[walk.from]

\* One victim of one pool; the pools of different cores do not affect each other.
Spill ==
  /\ pc = "spill"
  /\ \E g \in groups :
       /\ StillOver(g)
       /\ homes' = [homes EXCEPT ![Victim(g)] = walk.current]
       /\ groups' = (groups \ {g}) \cup {g \ {Victim(g)}}
  /\ UNCHANGED <<config, pc, unplaced, byLevel, pending, walk>>

LevelFits ==
  /\ pc = "spill"
  /\ \A g \in groups : ~StillOver(g)
  /\ LeaveLevel

Finish ==
  /\ pc = "enforce" /\ pending = <<>>
  /\ pc' = "done"
  /\ UNCHANGED <<config, unplaced, homes, byLevel, pending, groups, walk>>

\* assign_home_levels has returned.
Returned == pc = "done" /\ UNCHANGED vars

Next ==
  \/ FollowFallback
  \/ PlaceDesired \/ BeginFallback \/ PlaceAtFallback \/ PlaceAtLastResort
  \/ BeginEnforcing \/ SkipLevel \/ EnterLevel
  \/ NoSpillTarget \/ FoundSpillTarget \/ Spill \/ LevelFits
  \/ Finish \/ Returned

Spec == Init /\ [][Next]_vars

------------------------------------------------------------------------------
(* Properties *)

\* The k-th level along the fallbacks from l.
Chain(l) ==
  LET at[k \in 0..Cardinality(Levels)] == IF k = 0 THEN l ELSE FallbackFor(at[k - 1])
  IN  at

\* The walk stops at the nearest enabled level along the fallbacks that is not the
\* one it left, and gives up only if there is none.
FindsNearestFallback ==
  pc \in {"fallback", "target"} =>
    LET chain == Chain(walk.from)
        Good(k) == chain[k] \in config.enabled \ {walk.from}
    IN  /\ WalkArrives => \E k \in DOMAIN chain :
              /\ Good(k) /\ chain[k] = walk.current
              /\ \A j \in 0..(k - 1) : ~Good(j)
        /\ WalkLoops => \A k \in DOMAIN chain : ~Good(k)

KeptIn(g, l) == {t \in g : homes[t] = l}

SpilledFrom(g, l) == {t \in g : homes[t] # l}

\* models.py: best_case spills the least valuable tensors first, worst_case the
\* most valuable: every spilled tensor ranks with or before every kept one.
SpillsByRetention ==
  pc = "done" =>
    \A l \in config.enabled : \A g \in Pools(l) :
      \A v \in SpilledFrom(g, l), s \in KeptIn(g, l) :
        IF config.victims = "best_case"
        THEN Retention[v] <= Retention[s]
        ELSE Retention[v] >= Retention[s]

\* A pool spills until it fits and not further: its last victim was still too
\* much for it.
SpillsNoMoreThanNeeded ==
  pc = "done" =>
    \A l \in config.enabled : \A g \in Pools(l) :
      SpilledFrom(g, l) # {} =>
        /\ Total(KeptIn(g, l)) <= Capacity[l]
        /\ \E v \in SpilledFrom(g, l) : Total(KeptIn(g, l)) + Bytes[v] > Capacity[l]

\* sim/README: "placement spill reserves capacity up front".  When placement is
\* done, the tensors homed in a level other than the last resort fit in it.
AllHomesFit ==
  pc = "done" =>
    \A l \in config.enabled \ {"hbm"} :
      IF l \in PerCore
      THEN \A c \in Range(CoreOf) :
             Total({t \in Tensors : homes[t] = l /\ CoreOf[t] = c}) <= Capacity[l]
      ELSE Total({t \in Tensors : homes[t] = l}) <= Capacity[l]

\* The shipped policies send every level's overflow straight to HBM.
FallsBackToHbm ==
  "hbm" \in config.enabled /\ \A l \in config.enabled : FallbackFor(l) = "hbm"

HomesFit == FallsBackToHbm => AllHomesFit
==============================================================================
