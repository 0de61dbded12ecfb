---------------------------- MODULE FlashDecoding ----------------------------
(***************************************************************************)
(* Flash decoding: the cores that share a key-value head split the cache   *)
(* of a sequence by position (flashdecode/util.py, kv_cache_manager.py,    *)
(* flashdecode_attention.py).  One sequence, padded on the right; an entry *)
(* of a core's cache is the position whose key and value it holds.         *)
(***************************************************************************)
EXTENDS Buckets

CONSTANTS
  GroupSize,     \* num_cores_per_group
  FlashLength,   \* max_length, in positions of the whole group
  FlashPrompt,   \* max_context_length
  FlashBucket,   \* the smallest bucket
  NoEntry        \* what a new cache holds

ASSUME FlashAssumption ==
  /\ GroupSize \in Nat \ {0} /\ FlashLength \in Nat /\ FlashBucket \in Nat \ {0}
  /\ FlashPrompt \in 1..FlashLength
  /\ \A f \in {FlashPrompt, FlashLength} :
       \A b \in Range(GenerateBuckets(FlashBucket, f)) : b % GroupSize = 0

VARIABLES
  shard,      \* shard[r][s]: slot s of core r of the group
  prompted,   \* the prompt's length
  held        \* positions of the sequence so far

flashVars == <<shard, prompted, held>>

Ranks == 0..(GroupSize - 1)

\* cache_size: the slots of a core for a bucket.
SlotsOf(bucket) == bucket \div GroupSize
Slots == 0..(SlotsOf(FlashLength) - 1)

FlashInit ==
  /\ shard = [r \in Ranks |-> [s \in Slots |-> NoEntry]]
  /\ prompted = 0 /\ held = 0

\* Every core computes all keys and values of the prompt, keeps each GroupSize-th
\* from its rank on, and writes them to the slots of the bucket.
FlashEncode(n) ==
  LET bucket == ContextBucket(GenerateBuckets(FlashBucket, FlashPrompt), {n})
  IN /\ held = 0
     /\ shard' = [r \in Ranks |-> [s \in Slots |->
          IF s < SlotsOf(bucket) THEN r + GroupSize * s ELSE shard[r][s]]]
     /\ prompted' = n /\ held' = n

\* active_masks: the one core that keeps the position.
ActiveRank(rank, position) == position % GroupSize = rank

\* The comparison of the last column turned round.
WrongPriorMask(rank, position, s) ==
  \/ s < position \div GroupSize
  \/ s = position \div GroupSize /\ ~ActiveRank(rank, position)

\* prior_masks: the columns before the position's, and of its own column the ranks
\* whose position is in the past.
PriorMask(rank, position, s) ==
  \/ s < position \div GroupSize
  \/ /\ s = position \div GroupSize
     /\ ~(rank + GroupSize * s >= position \/ ActiveRank(rank, position))

FlashBucketOf(position) ==
  GenerationBucket(GenerateBuckets(FlashBucket, FlashLength), {position})

\* The slot that a core writes a new token to: the token's, or "garbage_pos".
WriteSlot(rank, position) ==
  IF ActiveRank(rank, position) THEN position \div GroupSize
  ELSE SlotsOf(FlashBucketOf(position)) - 1

FlashDecode ==
  /\ held \in 1..(FlashLength - 1)
  /\ shard' = [r \in Ranks |-> [shard[r] EXCEPT ![WriteSlot(r, held)] = held]]
  /\ held' = held + 1
  /\ UNCHANGED prompted

FlashNext == (\E n \in 1..FlashPrompt : FlashEncode(n)) \/ FlashDecode

FlashSpec == FlashInit /\ [][FlashNext]_flashVars

------------------------------------------------------------------------------

\* What the group attends to for the next token, besides the token itself: the
\* slots of the bucket that the masks of the cores leave.
Attended ==
  {c \in Ranks \X (0..(SlotsOf(FlashBucketOf(held)) - 1)) : PriorMask(c[1], held, c[2])}

\* util.py: the layout in which every slot of every core holds a position.  The
\* cores of a group attend to each earlier position exactly once.
GroupAttendsToPrefix ==
  held \in 1..(FlashLength - 1) =>
    /\ {shard[c[1]][c[2]] : c \in Attended} = 0..(held - 1)
    /\ Cardinality(Attended) = held

\* The same, as long as no token has gone to the last slots of its bucket, where
\* the other cores put their garbage.
AttendsToPrefixBeforeLastSlots ==
  (\A p \in prompted..(held - 1) : p <= FlashBucketOf(p) - GroupSize) => GroupAttendsToPrefix
==============================================================================
