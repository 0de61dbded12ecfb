------------------------------- MODULE Buckets -------------------------------
(***************************************************************************)
(* The sequence lengths a model is compiled for, and the choice of one of  *)
(* them for a call (autobucketing.py).                                     *)
(***************************************************************************)
EXTENDS Integers, FiniteSetsExt, SequencesExt

\* 2**e
Pow2[e \in Nat] == IF e = 0 THEN 1 ELSE 2 * Pow2[e - 1]

FloorLog2(n) == CHOOSE e \in 0..n : Pow2[e] <= n /\ n < Pow2[e + 1]

\* round(log2(n)): n is at least 2^(e - 1/2) and less than 2^(e + 1/2).
RoundLog2(n) == CHOOSE e \in 0..n : Pow2[2 * e] <= 2 * n * n /\ n * n < Pow2[2 * e + 1]

\* The power of two nearest to the maximum is kept.
WrongGenerateBuckets(minLength, maxLength) ==
  IF minLength = maxLength THEN <<maxLength>>
  ELSE LET low == FloorLog2(minLength)
           high == RoundLog2(maxLength)
       IN [i \in 1..Max({0, high - low + 1}) |-> Pow2[low + i - 1]] \o <<maxLength>>

\* generate_buckets: powers of two and the maximum itself, which replaces the
\* power of two nearest to it.
GenerateBuckets(minLength, maxLength) ==
  IF minLength = maxLength THEN <<maxLength>>
  ELSE LET low == FloorLog2(minLength)
           high == RoundLog2(maxLength)
       IN [i \in 1..Max({0, high - low}) |-> Pow2[low + i - 1]] \o <<maxLength>>

\* argmin over a row of zeros and ones: the first bucket that is not too small,
\* or the first of all when every one is.
FirstIndex(buckets, tooSmall(_)) ==
  LET fits == {i \in DOMAIN buckets : ~tooSmall(buckets[i])}
  IN IF fits = {} THEN 1 ELSE Min(fits)

\* context_encoder_bk: the bucket for rows of these many tokens, the largest of
\* the rows' buckets.
ContextBucket(buckets, lengths) ==
  buckets[Max({FirstIndex(buckets, LAMBDA b : b < n) : n \in lengths})]

\* <= mistaken for <.
WrongGenerationBucket(buckets, positions) ==
  buckets[Max({FirstIndex(buckets, LAMBDA b : b < p) : p \in positions})]

\* token_generation_bk: the bucket for rows whose new tokens go to these positions.
GenerationBucket(buckets, positions) ==
  buckets[Max({FirstIndex(buckets, LAMBDA b : b <= p) : p \in positions})]
==============================================================================
