------------------------------- MODULE Routing -------------------------------
(***************************************************************************)
(* The exchangeable routers of the mixture-of-experts model (qwen_moe/     *)
(* routers): how one call picks experts for its tokens.  Scores are        *)
(* integers, since softmax, sigmoid and the linear layer only matter by    *)
(* the order they give; a tie goes either way.  They are positive: softmax *)
(* and sigmoid are, and sparsemax does not change when all scores grow by  *)
(* the same.                                                               *)
(***************************************************************************)
EXTENDS Integers, FiniteSetsExt, SequencesExt

CONSTANTS
  NumExperts, TopK,
  NumTokens,               \* of the call, all rows of the batch flattened
  ScoreRows,               \* the scores that a token may get
  NumGroups, TopkGroup,    \* n_group, topk_group
  Unit                     \* what one score point of sparsemax is divided into

Experts == 0..(NumExperts - 1)
RoutedTokens == 1..NumTokens

\* hierarchical_routing.py:70 checks that the groups kept hold TopK experts;
\* group_limited_topk.py:84-93 does not, and this leaves out the calls for which they hold
\* fewer.  Scores are positive as sigmoids are: a trained e_score_correction_bias, which the
\* conversion never delivers, is left out too.
ASSUME RoutingAssumption ==
  /\ NumExperts \in Nat \ {0} /\ TopK \in 1..NumExperts /\ NumTokens \in Nat \ {0}
  /\ ScoreRows \subseteq [Experts -> Nat \ {0}] /\ Unit \in Nat \ {0}
  /\ NumGroups \in 1..NumExperts /\ NumExperts % NumGroups = 0
  /\ 2 * NumGroups <= NumExperts
  /\ TopkGroup \in 1..NumGroups
  /\ TopK <= TopkGroup * (NumExperts \div NumGroups)

\* ROUTER_REGISTRY.  The first set rank experts by their scores, which each of them
\* computes in another way: softmax, sigmoid, balanced or summed over slots.
RanksByScore ==
  {"topk_softmax", "topk_softmax_over_topk", "topk_sigmoid", "sinkhorn_balanced", "soft_moe"}

RouterNames ==
  RanksByScore \cup {"group_limited_topk", "sparsemax_topk", "hierarchical", "hash_routing",
                     "expert_choice", "base_layer"}

VARIABLES
  router,
  scores,         \* scores[t][e]
  expertIndex,    \* expert_index: the experts of each token, best first
  affine          \* the experts of each token with an affinity other than zero

routingVars == <<router, scores, expertIndex, affine>>

RoutingInit ==
  /\ router \in RouterNames
  /\ scores \in [RoutedTokens -> ScoreRows]
  /\ expertIndex = <<>> /\ affine = <<>>

\* torch.topk: k members of S by falling value.  It says nothing about equal values:
\* they come in any order, the same for all rows of a call.
TopKOf(S, value, k, tie) ==
  LET Ahead(x) ==
        {y \in S : value[y] > value[x] \/ (tie[y] < tie[x] /\ value[y] = value[x])}
  IN  [i \in 1..k |-> CHOOSE x \in S : Cardinality(Ahead(x)) = i - 1]

Ties ==
  LET numbers == 0..Max({NumExperts - 1, NumTokens})
  IN {tie \in [numbers -> numbers] : IsInjective(tie)}

\* The best experts, all with some weight.
TopKRoute(tie) ==
  /\ expertIndex' = [t \in RoutedTokens |-> TopKOf(Experts, scores[t], TopK, tie)]
  /\ affine' = [t \in RoutedTokens |-> Range(expertIndex'[t])]

\* The scores of a token in falling order.
Sorted(t) ==
  LET order == TopKOf(Experts, scores[t], NumExperts, [e \in Experts |-> e])
  IN  [k \in 1..NumExperts |-> scores[t][order[k]]]

\* cumsum
SumTop(t, k) == SumFunctionOnSet(Sorted(t), 1..k)

\* sparsemax: k_max, the scores that stay above the threshold.
SupportSize(t) ==
  Cardinality({k \in 1..NumExperts : Unit + k * Sorted(t)[k] > SumTop(t, k)})

\* clamp(z - tau), times k_max.
Sparsemax(t, e) ==
  LET size == SupportSize(t)
  IN  Max({0, size * scores[t][e] - (SumTop(t, size) - Unit)})

SparsemaxRoute(tie) ==
  /\ expertIndex' = [t \in RoutedTokens |->
         TopKOf(Experts, [e \in Experts |-> Sparsemax(t, e)], TopK, tie)]
  /\ affine' = [t \in RoutedTokens |-> {e \in Range(expertIndex'[t]) : Sparsemax(t, e) > 0}]

GroupOf(e) == e \div (NumExperts \div NumGroups)

\* HierarchicalRouter: the best groups, by a linear layer of their own that says
\* anything, then the best of their experts.
WrongVisible(groups) == Experts

Visible(groups) == {e \in Experts : GroupOf(e) \in groups}

HierarchicalRoute(tie) ==
  \E groups \in [RoutedTokens -> kSubset(TopkGroup, 0..(NumGroups - 1))] :
    /\ expertIndex' = [t \in RoutedTokens |->
         TopKOf(Visible(groups[t]), scores[t], TopK, tie)]
    /\ affine' = [t \in RoutedTokens |-> Range(expertIndex'[t])]

\* _scores_group_limited: a group is worth its two best experts; the experts of other
\* groups score zero, which is less than any sigmoid, whose bias is zero unless trained.
GroupScore(t, g, tie) ==
  SumFunctionOnSet(scores[t], Range(TopKOf(Visible({g}), scores[t], 2, tie)))

GroupLimitedScore(t, e, tie) ==
  LET worth  == [g \in 0..(NumGroups - 1) |-> GroupScore(t, g, tie)]
      groups == TopKOf(0..(NumGroups - 1), worth, TopkGroup, tie)
  IN IF e \in Visible(Range(groups)) THEN scores[t][e] ELSE 0

GroupLimitedRoute(tie) ==
  /\ expertIndex' = [t \in RoutedTokens |->
       TopKOf(Experts, [e \in Experts |-> GroupLimitedScore(t, e, tie)], TopK, tie)]
  /\ affine' = [t \in RoutedTokens |->
       {e \in Range(expertIndex'[t]) : GroupLimitedScore(t, e, tie) > 0}]

\* HashRouter: an expert by the token's id or its hidden state, which says anything,
\* and those at multiples of _PRIME from it, all with the same weight.
Prime == 7

HashRoute ==
  \E base \in [RoutedTokens -> Experts] :
    /\ expertIndex' = [t \in RoutedTokens |->
         [k \in 1..TopK |-> (base[t] + (k - 1) * Prime) % NumExperts]]
    /\ affine' = [t \in RoutedTokens |-> Range(expertIndex'[t])]

CeilDiv(a, b) == (a + b - 1) \div b

TokensPerExpert == Max({1, CeilDiv(TopK * NumTokens, NumExperts)})

\* The tokens that an expert picks: n of them by score.
Picks(e, n, tie) == Range(TopKOf(RoutedTokens, [t \in RoutedTokens |-> scores[t][e]], n, tie))

\* The token's own choice among all experts, as for the other routers.
WrongMasked(t, e, tie) == scores[t][e]

\* masked_scores, of scores by the softmax over tokens: zero for a token that the expert did not pick.
Masked(t, e, tie) == IF t \in Picks(e, TokensPerExpert, tie) THEN scores[t][e] ELSE 0

ExpertChoiceRoute(tie) ==
  /\ expertIndex' = [t \in RoutedTokens |->
       TopKOf(Experts, [e \in Experts |-> Masked(t, e, tie)], TopK, tie)]
  /\ affine' = [t \in RoutedTokens |->
       {e \in Range(expertIndex'[t]) : Masked(t, e, tie) > 0}]

Capacity == Max({1, CeilDiv(NumTokens, NumExperts)})

Claimants(t, tie) == {e \in Experts : t \in Picks(e, Capacity, tie)}

\* BaseLayerRouter: every expert claims its share; a token goes to its best claimant,
\* and without one to the expert it scores best.
Adjudicated(t, e, tie) ==
  IF Claimants(t, tie) = {} \/ e \in Claimants(t, tie) THEN scores[t][e] ELSE -1

BaseLayerRoute(tie) ==
  /\ expertIndex' = [t \in RoutedTokens |->
       TopKOf(Experts, [e \in Experts |-> Adjudicated(t, e, tie)], TopK, tie)]
  /\ affine' = [t \in RoutedTokens |-> {Head(expertIndex'[t])}]

Route ==
  /\ expertIndex = <<>>
  /\ \E tie \in Ties :
       \/ router \in RanksByScore /\ TopKRoute(tie)
       \/ router = "group_limited_topk" /\ GroupLimitedRoute(tie)
       \/ router = "hash_routing" /\ HashRoute
       \/ router = "sparsemax_topk" /\ SparsemaxRoute(tie)
       \/ router = "hierarchical" /\ HierarchicalRoute(tie)
       \/ router = "expert_choice" /\ ExpertChoiceRoute(tie)
       \/ router = "base_layer" /\ BaseLayerRoute(tie)
  /\ UNCHANGED <<router, scores>>

------------------------------------------------------------------------------

Routed == expertIndex # <<>>

Load(e) == Cardinality({t \in RoutedTokens : e \in affine[t]})

\* What the routers' descriptions promise.  expert_choice.py: "each expert picks the
\* T_per_expert highest-scoring tokens": no expert works for more tokens than its share,
\* although tokens choose once more among the experts that picked them.
\* hierarchical_routing.py, group_limited_topk.py: a token's experts are of at most
\* topk_group groups.  sparsemax_topk.py: the scores it ranks by are a distribution.
RoutersKeepPromises ==
  Routed =>
    /\ router = "expert_choice" => \A e \in Experts : Load(e) <= TokensPerExpert
    /\ router \in {"hierarchical", "group_limited_topk"} =>
         \A t \in RoutedTokens :
           Cardinality({GroupOf(e) : e \in Range(expertIndex[t])}) <= TopkGroup
    /\ router = "sparsemax_topk" =>
         \A t \in RoutedTokens :
           SumFunction([e \in Experts |-> Sparsemax(t, e)]) = SupportSize(t) * Unit
==============================================================================
