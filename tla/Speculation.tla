----------------------------- MODULE Speculation -----------------------------
(***************************************************************************)
(* Assisted decoding of one sequence (hf_adapter.py,                       *)
(* _standard_assisted_decoding): a draft model proposes tokens, the target *)
(* model checks all of them in one pass and its cache keeps them.  What    *)
(* the draft proposes is left open; the target is greedy, so that it has   *)
(* one continuation of the prompt, and says anything once it has been      *)
(* shown other tokens.                                                     *)
(***************************************************************************)
EXTENDS Integers, SequencesExt, FiniteSetsExt

CONSTANTS
  Tokens, Eos,
  PromptLength,
  MaxLen,         \* stopping_criteria[0].max_length
  SpecLength,     \* speculation_length, which the target is compiled for
  AssistTokens    \* num_assistant_tokens, the proposals of a round

\* The first pass has room; the loop checks before every other one.
ASSUME SpeculationAssumption ==
  /\ Eos \in Tokens
  /\ PromptLength \in Nat \ {0} /\ MaxLen \in Nat
  /\ SpecLength \in Nat /\ AssistTokens \in 1..SpecLength /\ PromptLength + SpecLength <= MaxLen

VARIABLES
  greedy,       \* the target's continuation of the prompt
  specAt,       \* "first", "draft", "verify" or "done"
  candidates,   \* candidate_input_ids: this round's proposals
  returned,     \* returned_ids after the prompt
  targetKV,     \* the target's cache: the token at each position after the prompt
  currPos,      \* curr_pos: the last position the attention mask shows
  curLen        \* cur_len

specVars == <<greedy, specAt, candidates, returned, targetKV, currPos, curLen>>

Generated == PromptLength..(MaxLen + 1)

SpecInit ==
  /\ greedy \in [1..(MaxLen - PromptLength + 1) -> Tokens]
  /\ specAt = "first"
  /\ candidates = <<>> /\ returned = <<>>
  /\ targetKV = [p \in Generated |-> Eos]
  /\ currPos = PromptLength - 1
  /\ curLen = PromptLength

\* The target's tokens after the prompt and these: its own, or anything.
TargetNext(seen) ==
  IF IsPrefix(seen, greedy) /\ Len(seen) < Len(greedy) THEN {greedy[Len(seen) + 1]} ELSE Tokens

\* The target encodes the prompt.
FirstToken ==
  /\ specAt = "first"
  /\ \E t \in TargetNext(<<>>) : returned' = <<t>>
  /\ specAt' = "draft"
  /\ UNCHANGED <<greedy, candidates, targetKV, currPos, curLen>>

\* The draft stops at its quota or at the end of text.
DraftEnds(proposed) == Len(proposed) = AssistTokens \/ Last(proposed) = Eos

DraftToken(t) ==
  LET proposed == Append(candidates, t)
  IN /\ specAt = "draft"
     /\ candidates' = proposed
     /\ specAt' = IF DraftEnds(proposed) THEN "verify" ELSE "draft"
     /\ UNCHANGED <<greedy, returned, targetKV, currPos, curLen>>

\* The tokens of the pass: the newest one and the proposals but the last, filled up
\* with padding (Eos).
PassInput ==
  LET shown == <<Last(returned)>> \o Front(candidates)
  IN shown \o [i \in 1..(SpecLength - Len(shown)) |-> Eos]

\* What the i-th logits of the pass are computed from: the cache as far as the mask
\* shows it, and the tokens of the pass so far.
Seen(i) ==
  [p \in 1..(currPos - PromptLength + 1) |-> targetKV[PromptLength + p - 1]]
    \o SubSeq(PassInput, 1, i)

\* All equal proposals instead of the leading ones.
WrongMatches(out) ==
  Cardinality({i \in 1..(Len(candidates) - 1) : candidates[i] = out[i]})

\* n_matches: the leading proposals that the target would have chosen.
Matches(out) ==
  Max({m \in 0..(Len(candidates) - 1) : \A i \in 1..m : candidates[i] = out[i]})

\* The matching tokens without the target's own.
WrongAccepted(out, n) == SubSeq(out, 1, n)

\* valid_tokens: the matching tokens and the one that the target adds.
Accepted(out, n) == SubSeq(out, 1, n + 1)

Verify(out) ==
  LET valid == Accepted(out, Min({Matches(out), MaxLen - curLen - 1}))
      length == curLen + Len(valid)
  IN /\ specAt = "verify"
     /\ \A i \in 1..SpecLength : out[i] \in TargetNext(Seen(i))
     /\ returned' = returned \o valid
     /\ targetKV' = [p \in Generated |->
          IF p \in currPos + 1 .. currPos + SpecLength
          THEN PassInput[p - currPos] ELSE targetKV[p]]
     /\ currPos' = currPos + Len(valid)
     /\ curLen' = length
     /\ candidates' = <<>>
     /\ specAt' = IF Last(returned') = Eos \/ length >= MaxLen \/ MaxLen - length < SpecLength
                  THEN "done" ELSE "draft"
     /\ UNCHANGED greedy

SpecNext ==
  \/ FirstToken
  \/ \E t \in Tokens : DraftToken(t)
  \/ \E out \in [1..SpecLength -> Tokens] : Verify(out)

------------------------------------------------------------------------------

\* Whatever the draft proposes, the output is what the target alone would say: the
\* proposals, the logits they are compared with, the positions they are cached at
\* and the mask that shows them stay aligned from round to round.  Nothing follows an
\* end of text, except after the very first token, which the code never compares with
\* it: a proposal of Eos is never among the tokens compared.
OutputIsGreedy ==
  /\ IsPrefix(returned, greedy)
  /\ \A i \in 2..(Len(returned) - 1) : returned[i] # Eos
==============================================================================
