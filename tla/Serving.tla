------------------------------- MODULE Serving -------------------------------
(***************************************************************************)
(* Requests served in batches: a scheduler outside this code admits        *)
(* requests to cache lines and asks for the next token of all of them, in  *)
(* whatever order it likes; the wrapped models answer.                     *)
(***************************************************************************)
EXTENDS ModelWrapper

CONSTANTS
  MaxRequests,     \* bound on the requests of a run
  PromptLengths,   \* of their prompts
  ContextBatches   \* ctx_batch_size: one row or all lines

\* tkg_batch_size is max_batch_size.  Prompts have two tokens at least and no
\* padding token among them.
ASSUME ServingAssumption ==
  /\ MaxBatch \in Nat \ {0} /\ MaxRequests \in Nat
  /\ MaxContext \in Nat /\ MaxLength \in Nat /\ MaxContext <= MaxLength /\ MinBucket \in Nat \ {0}
  /\ PromptLengths \subseteq 2..MaxContext
  /\ ContextBatches \subseteq {1, MaxBatch}
  /\ \A r \in 1..MaxRequests, p \in Positions : <<r, p>> # Pad

VARIABLES
  config,    \* [continuous, contextBatch]: as compiled
  arrived,   \* the requests so far, numbered as they arrive
  cache,
  lineOf,    \* the line of each request that is being served
  length,    \* its tokens so far
  answered   \* for each row of the last call, unless requests left since:
             \* the request and the answer

servingVars == <<config, arrived, cache, lineOf, length, answered>>

Requests == 1..MaxRequests

Live == DOMAIN lineOf

Token(r, p) == <<r, p>>
Prompt(r, n) == [i \in 1..n |-> Token(r, i - 1)]

Orders(S) == SetToSeqs(S)

ServingInit ==
  /\ config \in [continuous : BOOLEAN, contextBatch : ContextBatches]
  /\ ~config.continuous => config.contextBatch = MaxBatch
  /\ arrived = 0
  /\ cache = EmptyCache
  /\ lineOf = <<>> /\ length = <<>>
  /\ answered = <<>>

\* The scheduler's part: free lines for the next requests.  Without continuous
\* batching a batch starts when the last one is done and its rows are the lines in
\* turn; with it, a model that encodes whole batches finds no other line in use.
MayAdmit(lines) ==
  /\ Range(lines) \cap Range(lineOf) = {}
  /\ config.contextBatch = MaxBatch => Live = {}
  /\ ~config.continuous => lines = [i \in DOMAIN lines |-> i - 1]

Admit(lines, lengths) ==
  LET r(i) == arrived + i
      out == ContextEncodingModel(cache, config.continuous, config.contextBatch,
               [i \in DOMAIN lines |-> PromptRow(lines[i], Prompt(r(i), lengths[i]))])
      admitted == arrived + 1 .. arrived + Len(lines)
  IN /\ arrived + Len(lines) <= MaxRequests
     /\ MayAdmit(lines)
     /\ arrived' = arrived + Len(lines)
     /\ cache' = out.cache
     /\ lineOf' = [q \in Live \cup admitted |->
                     IF q \in admitted THEN lines[q - arrived] ELSE lineOf[q]]
     /\ length' = [q \in Live \cup admitted |->
                     IF q \in admitted THEN lengths[q - arrived] ELSE length[q]]
     /\ answered' = [i \in DOMAIN lines |-> <<r(i), out.answers[i]>>]
     /\ UNCHANGED config

\* A decode names every live request: rows that fill a batch write to the lines
\* that it does not name.
MayDecode(rs) ==
  /\ rs # <<>>
  /\ \A r \in Live : length[r] < MaxLength
  /\ ~config.continuous => \A i \in DOMAIN rs : lineOf[rs[i]] = i - 1

Decode(rs) ==
  LET out == TokenGenerationModel(cache, config.continuous, MaxBatch,
               [i \in DOMAIN rs |->
                  [line |-> lineOf[rs[i]], token |-> Token(rs[i], length[rs[i]]),
                   position |-> length[rs[i]]]])
  IN /\ MayDecode(rs)
     /\ cache' = out.cache
     /\ length' = [r \in Live |-> length[r] + 1]
     /\ answered' = [i \in DOMAIN rs |-> <<rs[i], out.answers[i]>>]
     /\ UNCHANGED <<config, arrived, lineOf>>

\* Requests are done; their lines keep what they held.
Finish(R) ==
  /\ R # {} /\ (config.continuous \/ R = Live)
  /\ lineOf' = Restrict(lineOf, Live \ R)
  /\ length' = Restrict(length, Live \ R)
  /\ answered' = <<>>
  /\ UNCHANGED <<config, arrived, cache>>

ServingNext ==
  \/ \E L \in (SUBSET Lines) \ {{}} : \E lines \in Orders(L) :
       \E lengths \in [DOMAIN lines -> PromptLengths] : Admit(lines, lengths)
  \/ \E rs \in Orders(Live) : Decode(rs)
  \/ \E R \in SUBSET Live : Finish(R)

ServingSpec == ServingInit /\ [][ServingNext]_servingVars

------------------------------------------------------------------------------

\* The tokens of a request are in its own line, whatever batches, filled rows and
\* earlier requests went through that line and its neighbours (KVCacheManager.
\* update_cache under ModelWrapper.forward).
CacheHoldsOwnTokens ==
  \A r \in Live : \A p \in 0..(length[r] - 1) : cache[lineOf[r]][p] = Token(r, p)

\* Serving in batches looks to every caller as if each request had a cache of its
\* own: an answer is computed from all tokens of its request and no others, and
\* answers come in the order of the call although the rows are sorted by line.
Private == INSTANCE PrivateCaches WITH
  TokenOf <- Token,
  contexts <- [r \in Live |-> [i \in 1..length[r] |-> cache[lineOf[r]][i - 1]]],
  replies <- answered

ServesPrivately == Private!PrivateSpec
==============================================================================
