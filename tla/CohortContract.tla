--------------------------- MODULE CohortContract ---------------------------
(***************************************************************************)
(* What the serving control plane may rely on when it hands a cohort over  *)
(* (runtime/fixed_serving.py): until a request has all the tokens it asked *)
(* for, every decode cycle gives it at least one and at most Width more;   *)
(* then the whole cohort is delivered at once, each request with exactly   *)
(* its own next tokens.  Speculation, parking, mirrors and streams are     *)
(* invisible here.                                                         *)
(***************************************************************************)
EXTENDS Integers

CONSTANTS Slots, Width

VARIABLES
  origin,   \* position of each request when the cohort starts
  budget,   \* tokens each request still has to produce
  served,   \* how many of them it has produced
  result    \* what the control plane has been given

contractVars == <<origin, budget, served, result>>

Nothing == [s \in Slots |-> <<>>]
Exactly == [s \in Slots |-> [i \in 1..budget[s] |-> origin[s] + i]]

Init ==
  /\ origin \in [Slots -> Nat]
  /\ budget \in [Slots -> Nat \ {0}]
  /\ served = [s \in Slots |-> 0]
  /\ result = Nothing

\* One cycle: every unfinished request advances, finished ones do not.
Cycle ==
  /\ result = Nothing
  /\ \E s \in Slots : served[s] < budget[s]
  /\ served' \in [Slots -> Nat]
  /\ \A s \in Slots :
       IF served[s] = budget[s] THEN served'[s] = served[s]
       ELSE served[s] < served'[s] /\ served'[s] <= served[s] + Width
                                   /\ served'[s] <= budget[s]
  /\ UNCHANGED <<origin, budget, result>>

Deliver ==
  /\ result = Nothing
  /\ \A s \in Slots : served[s] = budget[s]
  /\ result' = Exactly
  /\ UNCHANGED <<origin, budget, served>>

Next == Cycle \/ Deliver

\* The cohort is eventually delivered.
Delivery == <>(result = Exactly)

Spec == Init /\ [][Next]_contractVars
FairSpec == Spec /\ Delivery
=============================================================================
