----------------------------- MODULE MCInference -----------------------------
EXTENDS Inference

MCTpDegrees == 1..8
MCHeadCounts == 1..12

MCCommandLines ==
  {[kernel |-> "topk_softmax", tune |-> t, groups |-> 2, tp |-> 2] : t \in {"first", "second"}}
    \cup {[kernel |-> "hierarchical", tune |-> "first", groups |-> g, tp |-> 2] : g \in {2, 4}}

MCTextShapes ==
  {[prompt |-> 2, own |-> 3], [prompt |-> 3, own |-> 3], [prompt |-> 2, own |-> 0]}

MCScoreRows ==
  {[e \in Experts |-> row[e + 1]] :
     row \in {<<4, 3, 2, 1>>, <<1, 4, 3, 2>>, <<2, 2, 1, 4>>, <<3, 3, 3, 1>>, <<4, 3, 1, 2>>}}
==============================================================================
