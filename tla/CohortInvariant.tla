--------------------------- MODULE CohortInvariant ---------------------------
(***************************************************************************)
(* The inductive invariant behind the properties of CohortProperties, one  *)
(* named part per idea.  It holds when count copies land in time.          *)
(***************************************************************************)
EXTENDS CohortProperties

\* A count that the device has emitted and the Host has not yet committed: in
\* the pending copy, and between advance and launch in the device buffer.
InFlight(s) ==
  IF hostCopy = "idle" THEN 0
  ELSE IF hostCopy = "launched" THEN numSampled[s] ELSE hostCount[s]

Uncommitted(s) ==
  InFlight(s) + IF phase = "propose" THEN numSampled[s] ELSE 0

\* The copy protocol: which cycle's counts the pending copy carries.
CopyProtocol ==
  /\ phase = "propose" => hostCopy # "launched"
  /\ phase = "serve" => hostCopy # "idle"
  /\ phase # "propose" /\ hostCopy = "done" => hostCount = numSampled
  /\ phase = "validated" => hostCopy = "idle"

\* The mirrors and what is under way add up to the device state.
MirrorsAddUp ==
  \A s \in Slots :
    /\ committed[s] + Uncommitted(s) = emitted[s]
    /\ seqLensCpu[s] + Uncommitted(s) = numComputed[s] + Width
    /\ numComputedCpu[s] + Width = seqLensCpu[s]

\* The scratch is consumed before the counts move, and never older than they.
ScratchProtocol ==
  /\ phase \in {"target", "advance"} => scheduled = "none"
  /\ phase = "propose" /\ mode = "serial" => scheduled = "none"
  /\ scheduled = "ready" => scratchBase = numComputed

\* The target pass of the current cycle and the counts it led to.
CycleInputs ==
  \A s \in Slots :
    /\ phase \in {"target", "advance"} =>
         /\ targetBase[s] = numComputed[s]
         /\ targetIds[s] = [last |-> lastToken[s], draft |-> draft[s]]
    /\ phase = "advance" => accepted[s] # <<>>
    /\ phase \in {"propose", "serve"} =>
         /\ numSampled[s] = MaskedCount(s)
         /\ accepted[s] # <<>>
         /\ numComputed[s] = targetBase[s] + numSampled[s]
    /\ phase = "serve" => commonSeqLens[s] = targetBase[s] + Width

\* Host and device agree on which slots are parked; parked slots have their
\* budget, and a cohort is assembled only when all are parked.
ParkingAgrees ==
  /\ \A s \in Slots : active[s] <=> s \notin parked
  /\ \A s \in parked : committed[s] >= remaining[s]
  /\ phase \in {"assemble", "done", "validated"} => parked = Slots

\* Where a slot is, and how far a live slot may have passed its budget: it
\* starts a cycle only if it was short of it one cycle ago.
Before(s) == emitted[s] - numSampled[s]

Positions ==
  /\ Reserved(remaining)
  /\ \A s \in parked : numComputed[s] = ParkedPosition(s)
  /\ \A s \in Slots \ parked :
       /\ numComputed[s] = initialPosition[s] + emitted[s]
       /\ phase \in {"prepare", "target", "advance"} => Before(s) < remaining[s]
       /\ Before(s) < remaining[s] + Width
       /\ Before(s) >= 0

\* Every live slot gains a token per cycle.
Pace ==
  \A s \in Slots \ parked :
    /\ phase \in {"prepare", "target", "advance"} => emitted[s] >= cycles
    /\ phase = "propose" => Before(s) >= cycles
    /\ phase = "serve" => Before(s) >= cycles - 1 /\ emitted[s] >= cycles

\* Tokens: a live slot continues its own request, and what is staged of any
\* slot is its continuation as far as its budget goes.
Continues(s, k) ==
  /\ Len(history[s]) = k
  /\ \A i \in 1..k : history[s][i] = initialPosition[s] + i

Tokens ==
  /\ \A s \in Slots \ parked :
       /\ lastToken[s] = numComputed[s]
       /\ phase \in {"advance", "propose", "serve"} =>
            \A i \in 1..Len(accepted[s]) : accepted[s][i] = targetBase[s] + i
       /\ Continues(s, IF phase \in {"propose", "serve"}
                       THEN Before(s) ELSE emitted[s])
  /\ \A s \in parked :
       /\ Len(history[s]) >= remaining[s]
       /\ \A i \in 1..remaining[s] : history[s][i] = initialPosition[s] + i
  /\ OutputIsContinuation
  /\ phase \notin {"done", "validated"} => output = [s \in Slots |-> <<>>]

IInv ==
  /\ TypeOK
  /\ phase # "failed"
  /\ CopyProtocol
  /\ MirrorsAddUp
  /\ ScratchProtocol
  /\ CycleInputs
  /\ ParkingAgrees
  /\ Positions
  /\ WithinReservation
  /\ Pace
  /\ Tokens
=============================================================================
