--------------------------- MODULE CohortProperties ---------------------------
(***************************************************************************)
(* What a served cohort promises, and the invariants that make it so.      *)
(***************************************************************************)
EXTENDS CohortServing

\* The target pass runs on the geometry of the current counts and on the
\* tokens just committed, whichever way it was prepared: a scratch computed
\* on the side stream is never older than a rewind of the counts.
TargetInputsCurrent ==
  phase = "target" =>
    \A s \in Slots :
      /\ targetBase[s] = numComputed[s]
      /\ targetIds[s] = [last |-> lastToken[s], draft |-> draft[s]]

\* The proposer reads Host mirrors and device metadata of the same target
\* pass: the lagged counts land exactly once, also across a parking.
DraftSeesOneTargetPass ==
  phase = "serve" =>
    \A s \in Slots :
      /\ seqLensCpu[s] = commonSeqLens[s]
      /\ numComputedCpu[s] + Width = commonSeqLens[s]

\* The progress the serving loop reads is the device's, exactly one cycle old.
ProgressLagsOneCycle ==
  phase = "serve" => \A s \in Slots : committed[s] + numSampled[s] = emitted[s]

\* No target pass and no scheduled geometry leaves the KV blocks the
\* scheduler reserved for the slot, from its handoff position on.
InReservation(s, base) ==
  /\ initialPosition[s] <= base
  /\ base + Width <= initialPosition[s] + Reserve

WithinReservation ==
  \A s \in Slots : /\ InReservation(s, targetBase[s])
                   /\ InReservation(s, scratchBase[s])

\* The serving output is the first `remaining` tokens of each request's own
\* continuation: no token lost, repeated, taken from a parked slot's passes or
\* from a pass over stale inputs, or left in an overwritten buffer.
OutputIsContinuation ==
  phase \in {"done", "validated"} =>
    \A s \in Slots :
      output[s] = [i \in 1..remaining[s] |-> initialPosition[s] + i]

\* None of the runtime's own RuntimeErrors is reachable: no scratch is left
\* unconsumed, max(remaining) + 1 cycles suffice, the output is complete.
NeverFails == phase # "failed"

\* The post-run gate validate_host_mirrors passes.
MirrorGatePasses == phase = "validated" => MirrorsAgree

\* A parked slot stays parked, emits nothing and keeps its rewound position,
\* although it keeps executing.
KeepParked ==
  \A s \in parked :
    /\ s \in parked'
    /\ emitted'[s] = emitted[s]
    /\ numComputed'[s] = numComputed[s]

ParkedStaysFrozen == [][KeepParked]_vars

\* The cohort is always served to the end, and passes its gate.
CohortCompletes == <>(phase = "validated")

\* The cohort implements the contract: tokens beyond a request's budget do not
\* count, and the output is delivered by the assembly.
Served(s) == IF emitted[s] < remaining[s] THEN emitted[s] ELSE remaining[s]

Contract == INSTANCE CohortContract WITH
  origin <- initialPosition,
  budget <- remaining,
  served <- [s \in Slots |-> Served(s)],
  result <- output

\* Every cycle of the cohort is a cycle of the contract or invisible to it,
\* the assembly delivers, and delivery happens.
ImplementsContract == Contract!FairSpec
=============================================================================
