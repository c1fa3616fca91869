--------------------------- MODULE GhostPublication ---------------------------
(***************************************************************************)
(* The ghost publication ledger (runtime/ghost_publication.py): while a    *)
(* cohort is still decoded, a request that has reached its limit may be    *)
(* answered early; the Scheduler settles the whole cohort once, later, and *)
(* the caller withholds the rows that were published before.  The Runtime  *)
(* that appends tokens, the Scheduler and the caller that sends the        *)
(* replies are not in this file; they are modelled by what the ledger asks *)
(* of them.  The code fixes twelve requests.                               *)
(***************************************************************************)
EXTENDS Integers, Sequences

CONSTANTS
  Requests,
  Tokens,
  MaxTokens,   \* max_tokens: the length of a complete reply
  Surplus,     \* bound: tokens the Runtime appends beyond it
  Nothing

Outputs == UNION {[1..n -> Tokens] : n \in 0..MaxTokens}

ASSUME GhostAssumption ==
  /\ MaxTokens \in Nat \ {0}
  /\ Surplus \in Nat
  /\ Nothing \notin Outputs

VARIABLES
  prior,     \* how many tokens each client had before the Runtime took over
  runtime,   \* the tokens the Runtime has appended since
  early,     \* _early: the new tokens of each published segment, or Nothing
  settled,   \* _settled
  failed,    \* _failed
  final,     \* the new tokens of the settlement, Nothing before it
  replies    \* the outputs sent to each client: published segments and,
             \* after the settlement, the rows that are not withheld

ledger == <<early, settled, failed>>
vars == <<prior, runtime, ledger, final, replies>>

Init ==
  /\ prior \in [Requests -> 0..MaxTokens]
  /\ runtime = [r \in Requests |-> <<>>]
  /\ early = [r \in Requests |-> Nothing]
  /\ settled = FALSE /\ failed = FALSE
  /\ final = [r \in Requests |-> Nothing]
  /\ replies = [r \in Requests |-> <<>>]

Early == {r \in Requests : early[r] # Nothing}

Remaining(r) == MaxTokens - prior[r]

(* The Runtime goes on for published requests too.                         *)
AppendToken(r) ==
  /\ ~settled /\ Len(runtime[r]) < MaxTokens - prior[r] + Surplus
  /\ \E token \in Tokens : runtime' = [runtime EXCEPT ![r] = Append(@, token)]
  /\ UNCHANGED <<prior, ledger, final, replies>>

Segment(r) == SubSeq(runtime[r], 1, Remaining(r))

\* Mutated form: a cohort that has failed still publishes.
PublishAfterFailure(r) ==
  /\ ~settled
  /\ early[r] = Nothing
  /\ Remaining(r) > 0 /\ Len(runtime[r]) >= Remaining(r)
  /\ early' = [early EXCEPT ![r] = Segment(r)]
  /\ replies' = [replies EXCEPT ![r] = Append(@, Segment(r))]
  /\ UNCHANGED <<prior, runtime, settled, failed, final>>

Publish(r) ==
  /\ ~settled /\ ~failed
  /\ early[r] = Nothing
  /\ Remaining(r) > 0 /\ Len(runtime[r]) >= Remaining(r)
  /\ early' = [early EXCEPT ![r] = Segment(r)]
  /\ replies' = [replies EXCEPT ![r] = Append(@, Segment(r))]
  /\ UNCHANGED <<prior, runtime, settled, failed, final>>

(* The Scheduler ends each request at its limit; its tokens are those of   *)
(* the Runtime or, after a fault, others.                                  *)
Settlements ==
  {outputs \in [Requests -> Outputs] :
     \A r \in Requests : Len(outputs[r]) = Remaining(r)}

(* The caller sends the rows that settle_once did not list as published.   *)
SendRows(outputs, withheld) ==
  replies' = [r \in Requests |-> IF r \in withheld THEN replies[r]
                                 ELSE Append(replies[r], outputs[r])]

\* Mutated form: the settlement is taken as it comes.
SettleUnchecked(outputs) ==
  /\ ~settled /\ ~failed
  /\ settled' = TRUE /\ final' = outputs /\ SendRows(outputs, Early)
  /\ UNCHANGED <<prior, runtime, early, failed>>

(* settle_once; a settlement of other requests is refused without effect.  *)
SettleOnce(outputs) ==
  /\ ~settled /\ ~failed
  /\ \/ /\ \A r \in Early : outputs[r] = early[r]
        /\ settled' = TRUE /\ final' = outputs /\ SendRows(outputs, Early)
        /\ UNCHANGED failed
     \/ /\ \E r \in Early : outputs[r] # early[r]
        /\ failed' = TRUE /\ UNCHANGED <<settled, final, replies>>
  /\ UNCHANGED <<prior, runtime, early>>

FailContinuation ==
  /\ ~settled
  /\ failed' = TRUE
  /\ UNCHANGED <<prior, runtime, early, settled, final, replies>>

Next ==
  \/ \E r \in Requests : AppendToken(r) \/ Publish(r)
  \/ \E outputs \in Settlements : SettleOnce(outputs)
  \/ FailContinuation

Spec == Init /\ [][Next]_vars
=============================================================================
