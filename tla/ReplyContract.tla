---------------------------- MODULE ReplyContract ----------------------------
(***************************************************************************)
(* What the clients of a cohort may rely on: the output promised to a      *)
(* client is promised once and stands, whatever happens to the cohort; a   *)
(* settled cohort has promised an output to each of them; a failed one     *)
(* promises nothing more.                                                  *)
(***************************************************************************)
CONSTANTS Requests, Outputs, Nothing

VARIABLES promise, verdict

Init ==
  /\ promise = [r \in Requests |-> Nothing]
  /\ verdict = "open"

Promise(r) ==
  /\ verdict = "open" /\ promise[r] = Nothing
  /\ \E output \in Outputs : promise' = [promise EXCEPT ![r] = output]
  /\ UNCHANGED verdict

Settle ==
  /\ verdict = "open" /\ verdict' = "settled"
  /\ promise' \in [Requests -> Outputs]
  /\ \A r \in Requests : promise[r] # Nothing => promise'[r] = promise[r]

Fail ==
  /\ verdict = "open" /\ verdict' = "failed"
  /\ UNCHANGED promise

Next == (\E r \in Requests : Promise(r)) \/ Settle \/ Fail

Spec == Init /\ [][Next]_<<promise, verdict>>
=============================================================================
