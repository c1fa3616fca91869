----------------------------- MODULE MCTaskLedger -----------------------------
(***************************************************************************)
(* Instances of the task ledger for TLC.                                   *)
(***************************************************************************)
EXTENDS TaskLedgerProperties, TLC

CONSTANTS l1, l2, l3, c1, r1, r2, k1, k2

Good == [status |-> "pass", correctness |-> "pass", metric |-> TRUE]
Bad == [status |-> "fail", correctness |-> "fail", metric |-> FALSE]

GoodOrBad == {Good, Bad}
OnlyGood == {Good}
AnyScope == SUBSET Cases
Unscoped == {{}}
AcceptedOrNot == {"ACCEPTED", "INCONCLUSIVE"}
NoPivot == Verdicts \ {"PIVOTED"}
NoReplacement == {{}}
ReplaceOne == {{}, {k1}}
Two == {l1, l2}
Three == {l1, l2, l3}
\* The loops and the run ids of an instance are interchangeable.
Interchangeable == Permutations(Loops) \cup Permutations(RunIds)
=============================================================================
