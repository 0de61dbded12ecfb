---------------------------- MODULE PrivateCaches ----------------------------
(***************************************************************************)
(* What serving in batches promises: as if every request had a cache of    *)
(* its own.  There are no lines, batches, buckets or filled rows here; an  *)
(* answer depends on the request's own tokens and on nothing else, and the *)
(* answers come in the order in which the caller named the requests.       *)
(***************************************************************************)
EXTENDS Integers, Sequences, SequencesExt

CONSTANTS Requests, PromptLengths, MaxLength, TokenOf(_, _)

VARIABLES
  contexts,   \* the tokens of each request that is being served
  replies     \* for each row of the last call the request and its answer

Serving == DOMAIN contexts

PrivateInit == contexts = <<>> /\ replies = <<>>

\* The requests that a call names, in its order.
Named == [i \in DOMAIN replies' |-> replies'[i][1]]

Replied == \A i \in DOMAIN replies' : replies'[i] = <<Named[i], contexts'[Named[i]]>>

Begin ==
  /\ Named # <<>> /\ IsInjective(Named) /\ Range(Named) \subseteq Requests \ Serving
  /\ DOMAIN contexts' = Serving \cup Range(Named)
  /\ \A r \in Serving : contexts'[r] = contexts[r]
  /\ \A r \in Range(Named) : \E n \in PromptLengths :
       contexts'[r] = [i \in 1..n |-> TokenOf(r, i - 1)]
  /\ Replied

Continue ==
  /\ Named # <<>> /\ IsInjective(Named) /\ Range(Named) = Serving
  /\ \A r \in Serving : Len(contexts[r]) < MaxLength
  /\ contexts' = [r \in Serving |-> Append(contexts[r], TokenOf(r, Len(contexts[r])))]
  /\ Replied

End ==
  /\ \E R \in SUBSET Serving : contexts' = [r \in R |-> contexts[r]]
  /\ replies' = <<>>

PrivateNext == Begin \/ Continue \/ End

PrivateSpec == PrivateInit /\ [][PrivateNext]_<<contexts, replies>>
==============================================================================
