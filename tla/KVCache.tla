------------------------------- MODULE KVCache -------------------------------
(***************************************************************************)
(* The key-value cache of a compiled model (kv_cache_manager.py), for one  *)
(* layer and one core, padded on the right.  An entry stands for the key   *)
(* and value of the token it was computed from.                            *)
(***************************************************************************)
EXTENDS Integers, Sequences

CONSTANTS
  MaxBatch,    \* cache lines
  MaxLength,   \* positions of a line
  Zero         \* what a new cache holds, and the token that fills missing rows

Lines == 0..(MaxBatch - 1)
Positions == 0..(MaxLength - 1)

EmptyCache == [l \in Lines |-> [p \in Positions |-> Zero]]

\* The line a row of a prefill is written to: the row's own place, as for a batch
\* that is served as a whole.
WrongPrefillLine(rows, i) == i - 1

PrefillLine(rows, i) == rows[i].line

\* update_cache while encoding prompts: the first bucket positions of the lines
\* named are replaced (scatter over seq_ids), or of all lines by the rows in turn.
PrefillCache(cache, continuous, rows, bucket) ==
  [l \in Lines |-> [p \in Positions |->
     IF p >= bucket THEN cache[l][p]
     ELSE IF continuous
     THEN LET writers == {i \in DOMAIN rows : PrefillLine(rows, i) = l}
          IN IF writers = {} THEN cache[l][p]
             ELSE rows[CHOOSE i \in writers : TRUE].tokens[p + 1]
     ELSE rows[l + 1].tokens[p + 1]]]

\* update_cache for one new token a row: row i goes to line i, whatever its seq_id,
\* if its position is in the slice of the line that the bucket works on.
DecodeCache(cache, rows, bucket) ==
  [l \in Lines |->
     IF rows[l + 1].position < bucket
     THEN [cache[l] EXCEPT ![rows[l + 1].position] = rows[l + 1].token]
     ELSE cache[l]]

\* get_cache, as far as the row's attention mask lets it see: line i serves row i.
CachedContext(cache, rows, i, bucket) ==
  [p \in 1..IF rows[i].position < bucket THEN rows[i].position ELSE bucket |->
     cache[i - 1][p - 1]]
==============================================================================
