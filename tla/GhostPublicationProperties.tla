---------------------- MODULE GhostPublicationProperties ----------------------
(***************************************************************************)
(* Properties of early publication, and what its clients rely on.          *)
(***************************************************************************)
EXTENDS GhostPublication

\* The variables of the ledger, the Runtime and the clients keep their types,
\* and a cohort is never settled and failed at once.
TypeOK ==
  /\ prior \in [Requests -> 0..MaxTokens]
  /\ runtime \in [Requests -> Seq(Tokens)]
  /\ early \in [Requests -> Outputs \cup {Nothing}]
  /\ settled \in BOOLEAN /\ failed \in BOOLEAN /\ ~(settled /\ failed)
  /\ final \in [Requests -> Outputs \cup {Nothing}]
  /\ replies \in [Requests -> Seq(Outputs)]

\* A client is answered at most once, early or at the settlement; after the
\* settlement everyone is answered with exactly what was settled, though the
\* Runtime went on after the early answers and the Scheduler may disagree.
AnsweredOnce ==
  \A r \in Requests :
    /\ Len(replies[r]) <= 1
    /\ early[r] # Nothing => replies[r] = <<early[r]>>
    /\ settled => replies[r] = <<final[r]>>

\* An early answer completes the request: with the tokens the client had
\* before it is as long as the limit, and it is what the Runtime produced.
EarlyAnswerComplete ==
  \A r \in Requests : early[r] # Nothing =>
    /\ prior[r] + Len(early[r]) = MaxTokens
    /\ early[r] = SubSeq(runtime[r], 1, Len(early[r]))

(* What has been promised to a client: its first answer.                   *)
Promised == [r \in Requests |-> IF replies[r] = <<>> THEN Nothing ELSE replies[r][1]]
Verdict == IF settled THEN "settled" ELSE IF failed THEN "failed" ELSE "open"

Contract == INSTANCE ReplyContract WITH promise <- Promised, verdict <- Verdict
\* The ledger keeps what it promises to the clients: no answer is changed or
\* taken back, and a cohort that has failed answers nobody any more.
KeepsContract == Contract!Spec
=============================================================================
