-------------------------- MODULE SpeculativeDecode --------------------------
(***************************************************************************)
(* Why speculation does not change the output: the fixed decode cycle over *)
(* a paged KV cache (runtime/fixed_decode.py with the acceptance of        *)
(* GreedyAccept), in main-stream order.  The target model is any function  *)
(* of the tokens that the cache holds up to a position; the draft model    *)
(* may propose anything.  Every cycle writes the KV of all K + 1 submitted *)
(* tokens, rejected ones included: the next cycle has to overwrite them    *)
(* before any position that counts can attend to them.  A completed slot   *)
(* keeps executing from a rewound position inside its own blocks.          *)
(***************************************************************************)
EXTENDS GreedyAccept

CONSTANTS
  Slots,        \* rows of the batch
  BlockSize,    \* tokens of a KV block
  Blocks,       \* physical KV blocks
  BlockTable,   \* block_table: logical to physical block, per slot
  Prompt,       \* what a slot's cache holds at handoff, then its last token
  Budget,       \* tokens after which a slot may be parked
  MaxLength,    \* bound: tokens of a context after which decoding stops
  Stale,        \* bound: contents that an uninitialised cache may have
  Model(_)      \* argmax of the target after a sequence of tokens

LastBlock == (MaxLength + 2 * K) \div BlockSize

PagedAssumption ==
  /\ BlockSize \in Nat \ {0}
  /\ MaxLength \in Nat
  /\ Budget \in Nat \ {0}
  /\ BlockTable \in [Slots -> [0..LastBlock -> Blocks]]
  /\ Prompt \in [Slots -> Seq(Tokens) \ {<<>>}]
  /\ \A s \in Slots : Len(Prompt[s]) <= MaxLength
  /\ \A s, t \in Slots : \A b, c \in 0..LastBlock :
       BlockTable[s][b] = BlockTable[t][c] => s = t /\ b = c

\* The target always has a choice, for any context it can be given.
ModelAssumption ==
  \A n \in 1..(MaxLength + 2 * K) : \A ctx \in [1..n -> Tokens] :
    Model(ctx) \in Tokens

VARIABLES
  cache,        \* token whose KV each physical slot holds
  context,      \* prompt and accepted output of each slot, in order
  numComputed,  \* num_computed_tokens
  lastToken,    \* last_sampled_tokens
  draft,        \* draft_tokens
  active        \* active_mask

vars == <<cache, context, numComputed, lastToken, draft, active>>

\* target_slot_mapping: physical block and offset of a slot's position
SlotMapping(s, position) ==
  <<BlockTable[s][position \div BlockSize], position % BlockSize>>

PhysicalSlots == Blocks \X (0..(BlockSize - 1))

StaleAssumption == Stale \subseteq [PhysicalSlots -> Tokens]

\* The prompt positions that prefill has stored in a physical slot
Prefilled(x) ==
  {w \in Slots \X (0..MaxLength) : /\ w[2] < Len(Prompt[w[1]]) - 1
                                  /\ SlotMapping(w[1], w[2]) = x}

PrefilledCache(stale) ==
  [x \in PhysicalSlots |->
     IF Prefilled(x) = {} THEN stale[x]
     ELSE LET w == CHOOSE w \in Prefilled(x) : TRUE IN Prompt[w[1]][w[2] + 1]]

Init ==
  /\ context = Prompt
  /\ numComputed = [s \in Slots |-> Len(Prompt[s]) - 1]
  /\ lastToken = [s \in Slots |-> Prompt[s][Len(Prompt[s])]]
  /\ draft \in [Slots -> Drafts]
  /\ active = [s \in Slots |-> TRUE]
  /\ \E stale \in Stale : cache = PrefilledCache(stale)

-----------------------------------------------------------------------------
\* target_input_ids: the last sampled token, then the draft
TargetId(s, j) == IF j = 0 THEN lastToken[s] ELSE draft[s][j]

\* target_positions
TargetPosition(s, j) == numComputed[s] + j

\* The submitted columns whose KV goes to a physical slot
Writers(x) ==
  {w \in Slots \X (0..K) : SlotMapping(w[1], TargetPosition(w[1], w[2])) = x}

\* Mutated form: only the submitted columns that fit the current block.
CacheWithinBlock ==
  [x \in PhysicalSlots |->
     LET w == CHOOSE w \in Writers(x) : TRUE
     IN  IF Writers(x) = {} THEN cache[x]
         ELSE IF (numComputed[w[1]] % BlockSize) + w[2] >= BlockSize THEN cache[x]
         ELSE TargetId(w[1], w[2])]

CacheAfterTarget ==
  [x \in PhysicalSlots |->
     IF Writers(x) = {} THEN cache[x]
     ELSE LET w == CHOOSE w \in Writers(x) : TRUE IN TargetId(w[1], w[2])]

\* Causal attention: column j sees the slot's cache up to its own position.
Attended(s, j) ==
  [i \in 1..(TargetPosition(s, j) + 1) |->
     CacheAfterTarget[SlotMapping(s, i - 1)]]

Predicted(s) == [c \in 1..(K + 1) |-> Model(Attended(s, c - 1))]

\* One decode cycle: target pass, acceptance, advance_state of the live slots,
\* and the proposer's next draft.
Cycle ==
  /\ \A s \in Slots : active[s] => Len(context[s]) < MaxLength
  /\ cache' = CacheAfterTarget
  /\ LET row == [s \in Slots |-> GreedyRow(draft[s], Predicted(s))]
         count == [s \in Slots |-> IF active[s]
                                   THEN GreedyCount(draft[s], Predicted(s))
                                   ELSE 0]
     IN  /\ context' = [s \in Slots |->
                          context[s] \o SubSeq(row[s], 1, count[s])]
         /\ lastToken' = [s \in Slots |-> IF count[s] > 0
                                          THEN row[s][count[s]]
                                          ELSE lastToken[s]]
         /\ numComputed' = [s \in Slots |-> numComputed[s] + count[s]]
  /\ draft' \in [Slots -> Drafts]
  /\ UNCHANGED active

\* _park_completed, for a slot that has its budget
ParkedPosition(s) ==
  Len(Prompt[s]) - 1 +
    (IF Budget > 2 * BlockSize THEN Budget - 2 * BlockSize ELSE 0)

Park(s) ==
  /\ active[s]
  /\ Len(context[s]) - Len(Prompt[s]) >= Budget
  /\ numComputed' = [numComputed EXCEPT ![s] = ParkedPosition(s)]
  /\ active' = [active EXCEPT ![s] = FALSE]
  /\ UNCHANGED <<cache, context, lastToken, draft>>

Next == Cycle \/ \E s \in Slots : Park(s)

Spec == Init /\ [][Next]_vars

-----------------------------------------------------------------------------
TypeOK ==
  /\ cache \in [PhysicalSlots -> Tokens]
  /\ context \in [Slots -> Seq(Tokens)]
  /\ numComputed \in [Slots -> Nat]
  /\ lastToken \in [Slots -> Tokens]
  /\ draft \in [Slots -> Drafts]
  /\ active \in [Slots -> BOOLEAN]

\* Every token after the prompt is the target's greedy choice after all the
\* tokens before it, whatever was drafted, accepted or rejected.
Lossless ==
  \A s \in Slots : \A i \in (Len(Prompt[s]) + 1)..Len(context[s]) :
    context[s][i] = Model(SubSeq(context[s], 1, i - 1))

\* The cache of a live slot holds its context up to the last token: no KV of
\* a rejected draft and no write of another slot is left where it counts.
CacheHoldsContext ==
  \A s \in Slots :
    active[s] =>
      /\ numComputed[s] = Len(context[s]) - 1
      /\ lastToken[s] = context[s][Len(context[s])]
      /\ \A p \in 0..(numComputed[s] - 1) :
           cache[SlotMapping(s, p)] = context[s][p + 1]
=============================================================================
