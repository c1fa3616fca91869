------------------------------ MODULE TaskHistory -----------------------------
(***************************************************************************)
(* What the task ledger promises its coordinator, whatever files it keeps: *)
(* loops are worked on one at a time, each is settled once, by one final   *)
(* verdict, and nothing is opened or settled in a completed task.          *)
(***************************************************************************)
CONSTANTS Loops, Verdicts, Nothing

VARIABLES
  settled,   \* the verdict of each settled loop, Nothing for the others
  current,   \* the loop being worked on, or Nothing
  completed

vars == <<settled, current, completed>>

Init == /\ settled = [l \in Loops |-> Nothing]
        /\ current = Nothing
        /\ completed = FALSE

Open(l) ==
  /\ ~completed /\ current = Nothing /\ settled[l] = Nothing
  /\ current' = l
  /\ UNCHANGED <<settled, completed>>

Settle(v) ==
  /\ ~completed /\ current # Nothing
  /\ settled' = [settled EXCEPT ![current] = v]
  /\ current' = Nothing
  /\ UNCHANGED completed

Complete ==
  /\ current = Nothing
  /\ completed' = TRUE
  /\ UNCHANGED <<settled, current>>

Next == \/ \E l \in Loops : Open(l)
        \/ \E v \in Verdicts : Settle(v)
        \/ Complete

Spec == Init /\ [][Next]_vars
=============================================================================
