----------------------------- MODULE FixedDecode -----------------------------
(***************************************************************************)
(* The device state of the fixed decode loop (runtime/fixed_decode.py) and *)
(* the transitions that the main stream applies to it.  A cohort of Slots  *)
(* decodes in lock step; in every cycle a slot submits its last sampled    *)
(* token and Width - 1 draft tokens to the target model, and keeps between *)
(* one and Width of the tokens the target emits.                           *)
(*                                                                         *)
(* A token is named by the position it has in the greedy continuation of   *)
(* its own request, so "the right token" is the one whose name is its      *)
(* position; Wrong is any other token (of a parked slot, or computed from  *)
(* stale inputs).  A draft is named by the token it was proposed after.    *)
(* Sequence lengths, slot mappings and the derived attention metadata are  *)
(* functions of the base position and are represented by it.               *)
(***************************************************************************)
EXTENDS Integers, Sequences

CONSTANTS
  Slots,   \* the rows of the fixed batch
  Width,   \* target tokens per slot and cycle: speculative_tokens + 1
  Wrong    \* a token that is not the one its position calls for

ASSUME DecodeAssumption ==
  /\ Width \in Nat \ {0}
  /\ Wrong \notin Nat

VARIABLES
  numComputed,  \* num_computed_tokens
  emitted,      \* emitted_token_count
  active,       \* active_mask
  lastToken,    \* last_sampled_tokens
  draft,        \* draft_tokens
  targetIds,    \* target_input_ids: the last token and the draft submitted
  targetBase,   \* first of the slot's target_positions
  accepted,     \* valid columns of the acceptance buffer (accepted_tokens)
  numSampled    \* num_sampled, masked by active_mask

decodeVars == <<numComputed, emitted, active, lastToken, draft,
                targetIds, targetBase, accepted, numSampled>>

DecodeTypeOK ==
  /\ numComputed \in [Slots -> Nat]
  /\ emitted \in [Slots -> Nat]
  /\ active \in [Slots -> BOOLEAN]
  /\ lastToken \in [Slots -> Nat \cup {Wrong}]
  /\ draft \in [Slots -> Nat \cup {Wrong}]
  /\ targetIds \in [Slots -> [last : Nat \cup {Wrong}, draft : Nat \cup {Wrong}]]
  /\ targetBase \in [Slots -> Nat]
  /\ accepted \in [Slots -> Seq(Nat \cup {Wrong})]
  /\ \A s \in Slots : Len(accepted[s]) \in 0..Width
  /\ numSampled \in [Slots -> 0..Width]

\* The handoff binds the bootstrap buffers.  The last sampled token of a slot
\* is not yet in the KV cache: it belongs at the first uncomputed position.
\* The target, acceptance and count buffers are overwritten before any read.
DecodeInit(position) ==
  /\ numComputed = position
  /\ emitted = [s \in Slots |-> 0]
  /\ active = [s \in Slots |-> TRUE]
  /\ lastToken = position
  /\ draft = position
  /\ targetIds = [s \in Slots |-> [last |-> position[s], draft |-> position[s]]]
  /\ targetBase = position
  /\ accepted = [s \in Slots |-> <<>>]
  /\ numSampled = [s \in Slots |-> 0]

-----------------------------------------------------------------------------
\* prepare_target_ids: only the token ids, from the committed draft.
PrepareTargetIds ==
  targetIds' = [s \in Slots |-> [last |-> lastToken[s], draft |-> draft[s]]]

\* prepare_target_inputs: token ids and geometry from the current counts.
PrepareTargetInputs ==
  /\ PrepareTargetIds
  /\ targetBase' = numComputed

\* The target's predictions for slot s are those of its request only if the
\* last token was submitted at the position it belongs to, and the draft that
\* the acceptance compares with them is the draft that was submitted.
Grounded(s, n) ==
  /\ targetIds[s].last = targetBase[s]
  /\ n > 1 => targetIds[s].draft = draft[s]

AcceptedRow(s, n) ==
  [i \in 1..n |-> IF Grounded(s, n) THEN targetBase[s] + i ELSE Wrong]

\* Target forward pass and greedy acceptance: every slot, parked or not, gets
\* at least one and at most Width tokens.  They land in the reused buffer.
Accept(counts) ==
  accepted' = [s \in Slots |-> AcceptedRow(s, counts[s])]

\* Mutated form: parked slots keep committing.
UnmaskedCount(s) == Len(accepted[s])

\* The count a slot commits: acceptance counts masked by active_mask.
MaskedCount(s) == IF active[s] THEN Len(accepted[s]) ELSE 0

\* advance_state
Advance ==
  /\ numSampled' = [s \in Slots |-> MaskedCount(s)]
  /\ lastToken' = [s \in Slots |-> IF MaskedCount(s) > 0
                                   THEN accepted[s][MaskedCount(s)]
                                   ELSE lastToken[s]]
  /\ numComputed' = [s \in Slots |-> numComputed[s] + MaskedCount(s)]
  /\ emitted' = [s \in Slots |-> emitted[s] + MaskedCount(s)]
=============================================================================
