----------------------------- MODULE GreedyAccept -----------------------------
(***************************************************************************)
(* Greedy verification of a draft (runtime/greedy_accept.py and            *)
(* runtime/fixed_acceptance.py), for one row of the batch.  predicted is   *)
(* the argmax of the target at the K + 1 submitted positions: its first K  *)
(* entries judge the K draft tokens, its last one is the bonus token.      *)
(***************************************************************************)
EXTENDS Integers, Sequences, FiniteSets

CONSTANTS
  Tokens,  \* the target vocabulary
  K,       \* speculative_tokens
  Pad      \* -1, an unused output column

AcceptAssumption ==
  /\ K \in Nat \ {0}
  /\ Tokens # {}
  /\ Pad \notin Tokens

Drafts == [1..K -> Tokens]

\* Mutated form: every matching column, wherever it is.
AnyMatch(draft, predicted) == {i \in 1..K : draft[i] = predicted[i]}

\* cumprod of the column-wise matches: columns whose whole prefix matches
LeadingMatch(draft, predicted) ==
  {i \in 1..K : \A j \in 1..i : draft[j] = predicted[j]}

AcceptedDrafts(draft, predicted) == Cardinality(LeadingMatch(draft, predicted))

\* The recovery token follows the accepted prefix; the gather index is clamped
\* to the last draft column because a full match takes the bonus token.
FinalToken(draft, predicted) ==
  LET n == AcceptedDrafts(draft, predicted)
  IN  IF n = K THEN predicted[K + 1]
      ELSE predicted[IF n > K - 1 THEN K ELSE n + 1]

\* greedy_accept: the row and its count
GreedyRow(draft, predicted) ==
  LET n == AcceptedDrafts(draft, predicted)
  IN  [i \in 1..(K + 1) |-> IF i <= n THEN draft[i]
                            ELSE IF i = n + 1 THEN FinalToken(draft, predicted)
                            ELSE Pad]

\* Mutated form: every column is counted, padding included.
FullCount(draft, predicted) == K + 1

GreedyCount(draft, predicted) == AcceptedDrafts(draft, predicted) + 1
=============================================================================
