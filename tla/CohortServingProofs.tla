------------------------ MODULE CohortServingProofs ------------------------
(***************************************************************************)
(* A served cohort, proved for every batch, width, block size, reservation *)
(* and set of output budgets.  First, one lemma per action: it preserves   *)
(* the invariant IInv of CohortInvariant.  CopyTimely is the hypothesis    *)
(* that a count copy has landed before the next cycle overwrites the       *)
(* buffer it reads.  Then the promises: the properties of CohortProperties *)
(* follow from the invariant, and the cohort implements CohortContract.    *)
(***************************************************************************)
EXTENDS CohortInvariant, SequenceTheorems, WellFoundedInduction, TLAPS

\* The numeric state of one slot, from the type invariant.
LEMMA Numbers ==
  ASSUME TypeOK, NEW s \in Slots
  PROVE  /\ Width \in Nat \ {0} /\ BlockSize \in Nat \ {0} /\ Reserve \in Nat
         /\ cycles \in Nat
         /\ numComputed[s] \in Nat /\ emitted[s] \in Nat
         /\ targetBase[s] \in Nat /\ scratchBase[s] \in Nat
         /\ numSampled[s] \in 0..Width /\ hostCount[s] \in 0..Width
         /\ committed[s] \in Nat
         /\ seqLensCpu[s] \in Nat /\ numComputedCpu[s] \in Nat
         /\ initialPosition[s] \in Nat /\ remaining[s] \in Nat \ {0}
  BY DecodeAssumption, ServingAssumption
     DEF TypeOK, DecodeTypeOK, MirrorTypeOK, ScheduleTypeOK

\* The token rows of one slot, from the type invariant.
LEMMA Rows ==
  ASSUME TypeOK, NEW s \in Slots
  PROVE  /\ lastToken[s] \in Nat \cup {Wrong}
         /\ accepted[s] \in Seq(Nat \cup {Wrong})
         /\ Len(accepted[s]) \in 0..Width
         /\ history[s] \in Seq(Nat \cup {Wrong})
  BY DEF TypeOK, DecodeTypeOK

\* Wherever the counts of a slot stand, a target pass over them stays in its
\* reservation: a live slot has overshot its budget by less than two widths, a
\* parked one sits two blocks below its end.
LEMMA CountsInReservation ==
  ASSUME IInv, NEW s \in Slots
  PROVE  InReservation(s, numComputed[s])
<1> USE OvershootFitsTwoBlocks DEF IInv, Positions, Before, Reserved, InReservation
<1>1. /\ Width \in Nat \ {0} /\ BlockSize \in Nat /\ Reserve \in Nat
      /\ remaining[s] \in Nat \ {0} /\ initialPosition[s] \in Nat
      /\ emitted[s] \in Nat /\ numSampled[s] \in 0..Width
  BY Numbers
<1>2. CASE s \in parked
  BY <1>1, <1>2 DEF ParkedPosition
<1>3. CASE s \notin parked
  BY <1>1, <1>3
<1> QED
  BY <1>2, <1>3

\* A target pass yields as many tokens as the acceptance counts.
LEMMA RowType ==
  ASSUME TypeOK, NEW s \in Slots, NEW n \in 1..Width
  PROVE  /\ AcceptedRow(s, n) \in Seq(Nat \cup {Wrong})
         /\ Len(AcceptedRow(s, n)) = n
<1>1. targetBase[s] \in Nat
  BY DEF TypeOK, DecodeTypeOK
<1>2. AcceptedRow(s, n) \in [1..n -> Nat \cup {Wrong}]
  BY <1>1 DEF AcceptedRow
<1> QED
  BY <1>2 DEF AcceptedRow

\* What advance_state commits of a slot: nothing, or its whole row.
LEMMA CommittedCount ==
  ASSUME TypeOK, NEW s \in Slots
  PROVE  /\ MaskedCount(s) \in 0..Width
         /\ MaskedCount(s) # 0 => active[s] /\ MaskedCount(s) = Len(accepted[s])
         /\ MaskedCount(s) # 0 => accepted[s][MaskedCount(s)] \in Nat \cup {Wrong}
  BY DecodeAssumption DEF TypeOK, DecodeTypeOK, MaskedCount

\* Every output budget is below the cycle bound of run(): the maximum over the
\* cohort exists, because budgets fit into the reservation.
LEMMA BudgetBound ==
  ASSUME TypeOK, Reserved(remaining), NEW t \in Slots
  PROVE  remaining[t] < MaxCycles /\ MaxCycles \in Nat
<1> DEFINE budgets == {remaining[s] : s \in Slots}
           bounds == {n \in Nat : \A b \in budgets : b <= n}
<1>1. /\ \A b \in budgets : b \in Nat \ {0}
      /\ budgets # {}
      /\ remaining[t] \in budgets
  BY ServingAssumption DEF TypeOK
<1>2. Reserve \in bounds
  BY ServingAssumption, <1>1 DEF Reserved
<1>3. PICK m \in bounds : \A n \in bounds : ~(n < m)
  <2>1. PICK m \in bounds : \A n \in bounds : <<n, m>> \notin OpToRel(<, Nat)
    <3> HIDE DEF bounds
    <3> QED
      BY <1>2, NatLessThanWellFounded, WFMin, bounds \subseteq Nat DEF bounds
  <2> QED
    BY <2>1 DEF OpToRel
<1>4. m \in budgets
  <2> SUFFICES ASSUME m \notin budgets PROVE FALSE
    OBVIOUS
  <2>1. \A b \in budgets : b < m
    BY <1>1
  <2>2. m - 1 \in bounds
    <3>1. PICK b \in budgets : b \in Nat \ {0} /\ b < m
      BY <1>1, <2>1
    <3> HIDE DEF budgets
    <3>2. m - 1 \in Nat /\ \A c \in budgets : c <= m - 1
      BY <1>1, <2>1, <3>1
    <3> QED
      BY <3>2
  <2> QED
    BY <1>3, <2>2
<1>5. \A b \in budgets : m >= b
  BY <1>1
<1>6. Max(budgets) \in budgets /\ \A b \in budgets : Max(budgets) >= b
  <2> HIDE DEF budgets
  <2> QED
    BY <1>4, <1>5 DEF Max
<1>7. MaxCycles = Max(budgets) + 1
  BY DEF MaxCycles
<1> HIDE DEF budgets
<1> QED
  BY <1>1, <1>6, <1>7

\* What advance_state does to one slot.
LEMMA AdvanceCounts ==
  ASSUME IInv, AdvanceState, NEW s \in Slots
  PROVE  /\ numSampled'[s] = MaskedCount(s)
         /\ numSampled'[s] \in 0..Width
         /\ emitted'[s] = emitted[s] + numSampled'[s]
         /\ numComputed'[s] = numComputed[s] + numSampled'[s]
         /\ emitted[s] \in Nat /\ numComputed[s] \in Nat
         /\ targetBase[s] = numComputed[s]
         /\ s \in parked => numSampled'[s] = 0 /\ lastToken'[s] = lastToken[s]
         /\ s \notin parked => /\ numSampled'[s] = Len(accepted[s])
                               /\ numSampled'[s] # 0
                               /\ lastToken'[s] = accepted[s][numSampled'[s]]
<1>1. TypeOK /\ phase = "advance"
  BY DEF IInv, AdvanceState
<1>2. /\ MaskedCount(s) \in 0..Width
      /\ emitted[s] \in Nat /\ numComputed[s] \in Nat
  BY <1>1, CommittedCount DEF TypeOK, DecodeTypeOK
<1>3. /\ targetBase[s] = numComputed[s]
      /\ accepted[s] # <<>>
      /\ active[s] <=> s \notin parked
  BY <1>1 DEF IInv, CycleInputs, ParkingAgrees
<1>4. /\ s \in parked => MaskedCount(s) = 0
      /\ s \notin parked => MaskedCount(s) = Len(accepted[s])
  BY <1>3 DEF MaskedCount
<1>5. Len(accepted[s]) # 0
  BY <1>1, <1>3 DEF TypeOK, DecodeTypeOK
<1>6. Advance
  BY DEF AdvanceState
<1> QED
  BY <1>2, <1>3, <1>4, <1>5, <1>6 DEF Advance

\* advance_state and the overlap launch.
LEMMA AdvanceStateStep ==
  ASSUME CopyTimely, IInv, AdvanceState
  PROVE  IInv'
<1>1. /\ phase = "advance" /\ phase' = "propose" /\ scheduled = "none"
      /\ hostCopy # "launched" /\ TypeOK
  BY DEF IInv, AdvanceState, HostCopySynchronized, ScratchProtocol, LaunchOverlap
<1>2. /\ UNCHANGED <<active, draft, targetIds, targetBase, accepted,
                     mirrorVars, cycles, initialPosition, remaining, parked,
                     history, output, mode, scratchBase>>
      /\ scheduled' = IF mode = "overlap" THEN "launched" ELSE "none"
  BY <1>1 DEF AdvanceState, LaunchOverlap
<1>3. DecodeTypeOK'
  <2>1. /\ numSampled' \in [Slots -> 0..Width]
        /\ numComputed' \in [Slots -> Nat]
        /\ emitted' \in [Slots -> Nat]
    <3>1. /\ numSampled' = [s \in Slots |-> MaskedCount(s)]
          /\ numComputed' = [s \in Slots |-> numComputed[s] + MaskedCount(s)]
          /\ emitted' = [s \in Slots |-> emitted[s] + MaskedCount(s)]
      BY DEF AdvanceState, Advance
    <3>2. ASSUME NEW s \in Slots
          PROVE  /\ MaskedCount(s) \in 0..Width
                 /\ numComputed[s] + MaskedCount(s) \in Nat
                 /\ emitted[s] + MaskedCount(s) \in Nat
      BY <1>1, CommittedCount, Numbers, Rows
    <3> QED
      BY <3>1, <3>2
  <2>2. lastToken' \in [Slots -> Nat \cup {Wrong}]
    <3>1. lastToken' = [s \in Slots |-> IF MaskedCount(s) > 0
                                       THEN accepted[s][MaskedCount(s)]
                                       ELSE lastToken[s]]
      BY DEF AdvanceState, Advance
    <3>2. ASSUME NEW s \in Slots
          PROVE  (IF MaskedCount(s) > 0 THEN accepted[s][MaskedCount(s)]
                                        ELSE lastToken[s]) \in Nat \cup {Wrong}
      BY <1>1, CommittedCount, Numbers, Rows
    <3> QED
      BY <3>1, <3>2
  <2> QED
    BY <1>1, <1>2, <2>1, <2>2 DEF TypeOK, DecodeTypeOK
<1>4. TypeOK'
  BY <1>1, <1>2, <1>3
     DEF TypeOK, MirrorTypeOK, ScheduleTypeOK, Phases, mirrorVars
<1>5. CopyProtocol' /\ ScratchProtocol'
  BY <1>1, <1>2, ModeAssumption DEF IInv, CopyProtocol, ScratchProtocol, mirrorVars
<1>6. MirrorsAddUp'
  <2> SUFFICES ASSUME NEW s \in Slots
      PROVE (/\ committed[s] + Uncommitted(s) = emitted[s]
             /\ seqLensCpu[s] + Uncommitted(s) = numComputed[s] + Width
             /\ numComputedCpu[s] + Width = seqLensCpu[s])'
    BY DEF MirrorsAddUp
  <2>1. /\ committed[s] + InFlight(s) = emitted[s]
        /\ seqLensCpu[s] + InFlight(s) = numComputed[s] + Width
        /\ numComputedCpu[s] + Width = seqLensCpu[s]
        /\ InFlight(s) \in Nat
    <3>1. InFlight(s) \in Nat
      BY <1>1, Numbers DEF InFlight
    <3>2. Uncommitted(s) = InFlight(s)
      BY <1>1, <3>1 DEF Uncommitted
    <3> QED
      BY <3>1, <3>2 DEF IInv, MirrorsAddUp
  <2>2. Uncommitted(s)' = InFlight(s) + numSampled'[s]
    BY <1>1, <1>2, <2>1 DEF Uncommitted, InFlight, mirrorVars
  <2>3. UNCHANGED <<committed, seqLensCpu, numComputedCpu>>
    BY <1>2 DEF mirrorVars
  <2>4. /\ numSampled'[s] \in Nat
        /\ emitted'[s] = emitted[s] + numSampled'[s]
        /\ numComputed'[s] = numComputed[s] + numSampled'[s]
    BY AdvanceCounts
  <2>5. /\ committed[s] + (InFlight(s) + numSampled'[s]) = emitted'[s]
        /\ seqLensCpu[s] + (InFlight(s) + numSampled'[s]) = numComputed'[s] + Width
        /\ numComputedCpu[s] + Width = seqLensCpu[s]
    <3>1. /\ committed[s] \in Nat /\ seqLensCpu[s] \in Nat
          /\ numComputedCpu[s] \in Nat /\ Width \in Nat
          /\ emitted[s] \in Nat /\ numComputed[s] \in Nat
      BY <1>1, Numbers
    <3> HIDE DecodeAssumption, ServingAssumption
    <3> QED
      BY <2>1, <2>4, <3>1
  <2> QED
    BY <2>2, <2>3, <2>5
<1>7. CycleInputs' /\ ParkingAgrees'
  BY <1>1, <1>2, AdvanceCounts DEF IInv, CycleInputs, ParkingAgrees, MaskedCount, mirrorVars
<1>8. ASSUME NEW s \in Slots PROVE Before(s)' = emitted[s]
  BY <1>8, AdvanceCounts DEF Before
<1>9. Positions'
  <2>1. \A s \in parked : numComputed'[s] = ParkedPosition(s)
    <3> SUFFICES ASSUME NEW s \in parked PROVE numComputed'[s] = ParkedPosition(s)
      OBVIOUS
    <3>1. s \in Slots /\ numComputed[s] = ParkedPosition(s)
      BY <1>1 DEF IInv, Positions, TypeOK
    <3> QED
      BY <1>1, <3>1, AdvanceCounts, Numbers
  <2>2. ASSUME NEW s \in Slots \ parked
        PROVE  /\ numComputed'[s] = initialPosition[s] + emitted'[s]
               /\ emitted[s] < remaining[s] + Width
               /\ emitted[s] >= 0
    <3>1. /\ numComputed[s] = initialPosition[s] + emitted[s]
          /\ emitted[s] - numSampled[s] < remaining[s]
      BY <1>1 DEF IInv, Positions, Before
    <3>2. /\ numSampled'[s] \in Nat
          /\ emitted'[s] = emitted[s] + numSampled'[s]
          /\ numComputed'[s] = numComputed[s] + numSampled'[s]
      BY AdvanceCounts
    <3> QED
      BY <1>1, <3>1, <3>2, Numbers
  <2> QED
    BY <1>1, <1>2, <1>8, <2>1, <2>2 DEF IInv, Positions, Reserved, ParkedPosition
<1>10. WithinReservation'
  BY <1>2 DEF IInv, WithinReservation, InReservation
<1>11. Pace'
  BY <1>1, <1>2, <1>8 DEF IInv, Pace
<1>12. Tokens'
  <2>1. ASSUME NEW s \in Slots \ parked
        PROVE  /\ lastToken'[s] = numComputed'[s]
               /\ \A i \in 1..Len(accepted[s]) : accepted[s][i] = targetBase[s] + i
               /\ Continues(s, Before(s)')
    <3>1. /\ \A i \in 1..Len(accepted[s]) : accepted[s][i] = targetBase[s] + i
          /\ Continues(s, emitted[s])
      BY <1>1 DEF IInv, Tokens
    <3> QED
      BY <1>8, <3>1, AdvanceCounts
  <2> QED
    BY <1>1, <1>2, <2>1 DEF IInv, Tokens, Continues, OutputIsContinuation
<1> QED
  BY <1>1, <1>4, <1>5, <1>6, <1>7, <1>9, <1>10, <1>11, <1>12 DEF IInv

\* What is pending and synchronised is what is in flight.
LEMMA SynchronizedCount ==
  ASSUME TypeOK, hostCopy # "launched", NEW s \in Slots
  PROVE  PendingCount(s) = InFlight(s) /\ PendingCount(s) \in 0..Width
<1>1. hostCount[s] \in 0..Width /\ hostCopy \in {"idle", "launched", "done"} /\ Width \in Nat
  BY Numbers DEF TypeOK, MirrorTypeOK
<1> QED
  BY <1>1 DEF PendingCount, InFlight

\* Committing and moving the mirrors keeps them natural numbers.
LEMMA MirrorTypes ==
  ASSUME TypeOK, NEW parking \in SUBSET Slots, NEW position \in [Slots -> Nat],
         ParkCompletedSlots(parking, position)
  PROVE  MirrorTypeOK'
<1>1. hostCopy # "launched"
  BY DEF ParkCompletedSlots, HostCopySynchronized
<1>2. ASSUME NEW s \in Slots
      PROVE  /\ committed[s] + PendingCount(s) \in Nat
             /\ (IF s \in parking THEN position[s] + Width
                   ELSE seqLensCpu[s] + PendingCount(s)) \in Nat
             /\ (IF s \in parking THEN position[s]
                   ELSE numComputedCpu[s] + PendingCount(s)) \in Nat
  <2>1. /\ PendingCount(s) \in 0..Width /\ Width \in Nat
        /\ committed[s] \in Nat /\ seqLensCpu[s] \in Nat
        /\ numComputedCpu[s] \in Nat /\ position[s] \in Nat
    BY <1>1, SynchronizedCount, Numbers
  <2> QED
    BY <2>1
<1> QED
  BY <1>2 DEF ParkCompletedSlots, TypeOK, MirrorTypeOK

\* The proposer, with its mirror commit and the next count copy.
LEMMA ProposeStep ==
  ASSUME CopyTimely, IInv, Propose
  PROVE  IInv'
<1>1. /\ phase = "propose" /\ phase' = "serve" /\ TypeOK
      /\ hostCopy # "launched" /\ hostCopy' = "launched"
      /\ cycles' = cycles + 1
  BY DEF IInv, Propose, ScratchProtocol, CommitAndLaunchHostCopy, HostCopySynchronized
<1>2. UNCHANGED <<numComputed, emitted, active, lastToken, targetIds,
                  targetBase, accepted, numSampled, initialPosition, remaining,
                  parked, history, output, hostCount, mode>>
  BY DEF Propose, LaunchSerial, CommitAndLaunchHostCopy
<1>3. ASSUME NEW s \in Slots
      PROVE  /\ PendingCount(s) \in Nat /\ PendingCount(s) = InFlight(s)
             /\ committed'[s] = committed[s] + PendingCount(s)
             /\ seqLensCpu'[s] = seqLensCpu[s] + PendingCount(s)
             /\ numComputedCpu'[s] = numComputedCpu[s] + PendingCount(s)
             /\ commonSeqLens'[s] = targetBase[s] + Width
  BY <1>1, SynchronizedCount, Numbers DEF Propose, CommitAndLaunchHostCopy
<1>4. TypeOK'
  <2>1. DecodeTypeOK'
    BY <1>1, <1>2 DEF Propose, TypeOK, DecodeTypeOK
  <2>2. MirrorTypeOK'
    <3>1. ASSUME NEW s \in Slots
          PROVE  /\ committed[s] + PendingCount(s) \in Nat
                 /\ seqLensCpu[s] + PendingCount(s) \in Nat
                 /\ numComputedCpu[s] + PendingCount(s) \in Nat
                 /\ targetBase[s] + Width \in Nat
      BY <1>1, <1>3, Numbers
    <3> QED
      BY <1>1, <1>2, <3>1 DEF Propose, CommitAndLaunchHostCopy, TypeOK, MirrorTypeOK
  <2>3. ScheduleTypeOK'
    BY <1>1 DEF Propose, LaunchSerial, TypeOK, DecodeTypeOK, ScheduleTypeOK
  <2> QED
    BY <1>1, <1>2, <2>1, <2>2, <2>3 DEF TypeOK, Phases
<1>5. CopyProtocol' /\ ScratchProtocol'
  BY <1>1, <1>2 DEF IInv, Propose, LaunchSerial, CopyProtocol, ScratchProtocol
<1>6. MirrorsAddUp'
  <2> SUFFICES ASSUME NEW s \in Slots
      PROVE (/\ committed[s] + Uncommitted(s) = emitted[s]
             /\ seqLensCpu[s] + Uncommitted(s) = numComputed[s] + Width
             /\ numComputedCpu[s] + Width = seqLensCpu[s])'
    BY DEF MirrorsAddUp
  <2>1. Uncommitted(s) = PendingCount(s) + numSampled[s]
    BY <1>1, <1>3 DEF Uncommitted
  <2>2. Uncommitted(s)' = numSampled[s]
    BY <1>1, <1>2, Numbers DEF Uncommitted, InFlight
  <2>3. /\ committed[s] + (PendingCount(s) + numSampled[s]) = emitted[s]
        /\ seqLensCpu[s] + (PendingCount(s) + numSampled[s]) = numComputed[s] + Width
        /\ numComputedCpu[s] + Width = seqLensCpu[s]
    BY <2>1 DEF IInv, MirrorsAddUp
  <2>4. /\ committed'[s] + numSampled[s] = emitted[s]
        /\ seqLensCpu'[s] + numSampled[s] = numComputed[s] + Width
        /\ numComputedCpu'[s] + Width = seqLensCpu'[s]
    BY <1>1, <1>3, <2>3, Numbers
  <2> QED
    BY <1>2, <2>2, <2>4
<1>7. CycleInputs'
  BY <1>1, <1>2, <1>3 DEF IInv, CycleInputs, MaskedCount
<1>8. ParkingAgrees'
  <2>1. ASSUME NEW s \in parked PROVE committed'[s] >= remaining[s]
    <3>1. s \in Slots /\ committed[s] >= remaining[s]
      BY <1>1 DEF IInv, ParkingAgrees, TypeOK
    <3> QED
      BY <1>1, <1>3, <3>1, Numbers
  <2> QED
    BY <1>1, <1>2, <2>1 DEF IInv, ParkingAgrees
<1>9. Positions'
  BY <1>1, <1>2 DEF IInv, Positions, Before, Reserved, ParkedPosition
<1>10. WithinReservation'
  BY <1>2, CountsInReservation
     DEF IInv, WithinReservation, InReservation, Propose, LaunchSerial
<1>11. Pace'
  <2>1. ASSUME NEW s \in Slots \ parked
        PROVE  Before(s) >= cycles' - 1 /\ emitted[s] >= cycles'
    <3>1. /\ Before(s) >= cycles
          /\ numSampled[s] = Len(accepted[s]) /\ numSampled[s] # 0
      <4>1. /\ Before(s) >= cycles /\ active[s] /\ accepted[s] # <<>>
            /\ numSampled[s] = MaskedCount(s)
        BY <1>1 DEF IInv, Pace, ParkingAgrees, CycleInputs
      <4> QED
        BY <1>1, <4>1, Numbers, Rows DEF MaskedCount
    <3> QED
      BY <1>1, <3>1, Numbers DEF Before
  <2> QED
    BY <1>1, <1>2, <2>1 DEF Pace, Before
<1>12. Tokens'
  BY <1>1, <1>2 DEF IInv, Tokens, Continues, Before, OutputIsContinuation
<1> QED
  BY <1>1, <1>4, <1>5, <1>6, <1>7, <1>8, <1>9, <1>10, <1>11, <1>12 DEF IInv

\* The target prepared from the scheduled scratch.
LEMMA PrepareScheduledStep ==
  ASSUME CopyTimely, IInv, PrepareScheduled
  PROVE  IInv'
<1>1. /\ phase = "prepare" /\ phase' = "target" /\ TypeOK
      /\ scheduled = "ready" /\ scratchBase = numComputed
      /\ scheduled' = "none" /\ targetBase' = numComputed
      /\ targetIds' = [s \in Slots |-> [last |-> lastToken[s], draft |-> draft[s]]]
  BY DEF IInv, PrepareScheduled, CommitScheduled, ScheduleSynchronized,
         PrepareTargetIds, ScratchProtocol, TypeOK, ScheduleTypeOK
<1>2. UNCHANGED <<numComputed, emitted, active, lastToken, draft, accepted,
                  numSampled, mirrorVars, cycles, initialPosition, remaining,
                  parked, history, output, mode, scratchBase>>
  BY DEF PrepareScheduled, CommitScheduled
<1>3. TypeOK'
  BY <1>1, <1>2 DEF TypeOK, DecodeTypeOK, MirrorTypeOK, ScheduleTypeOK, Phases,
                    mirrorVars
<1>4. CopyProtocol' /\ ScratchProtocol' /\ CycleInputs'
  BY <1>1, <1>2 DEF IInv, CopyProtocol, ScratchProtocol, CycleInputs, mirrorVars
<1>5. MirrorsAddUp'
  BY <1>1, <1>2 DEF IInv, MirrorsAddUp, Uncommitted, InFlight, mirrorVars
<1>6. ParkingAgrees' /\ Positions' /\ Pace'
  BY <1>1, <1>2 DEF IInv, ParkingAgrees, Positions, Before, Reserved,
                    ParkedPosition, Pace, mirrorVars
<1>7. WithinReservation'
  BY <1>1, <1>2, CountsInReservation DEF IInv, WithinReservation, InReservation
<1>8. Tokens'
  BY <1>1, <1>2 DEF IInv, Tokens, Continues, Before, OutputIsContinuation
<1> QED
  BY <1>1, <1>3, <1>4, <1>5, <1>6, <1>7, <1>8 DEF IInv

\* The target prepared from the current counts.
LEMMA PrepareFallbackStep ==
  ASSUME CopyTimely, IInv, PrepareFallback
  PROVE  IInv'
<1>1. /\ phase = "prepare" /\ phase' = "target" /\ TypeOK
      /\ scheduled = "none" /\ targetBase' = numComputed
      /\ targetIds' = [s \in Slots |-> [last |-> lastToken[s], draft |-> draft[s]]]
  BY DEF IInv, PrepareFallback, PrepareTargetInputs, PrepareTargetIds
<1>2. UNCHANGED <<numComputed, emitted, active, lastToken, draft, accepted,
                  numSampled, mirrorVars, scheduleVars, cycles,
                  initialPosition, remaining, parked, history, output>>
  BY DEF PrepareFallback
<1>3. TypeOK'
  BY <1>1, <1>2 DEF TypeOK, DecodeTypeOK, MirrorTypeOK, ScheduleTypeOK, Phases,
                    mirrorVars, scheduleVars
<1>4. CopyProtocol' /\ ScratchProtocol' /\ CycleInputs'
  BY <1>1, <1>2 DEF IInv, CopyProtocol, ScratchProtocol, CycleInputs,
                    mirrorVars, scheduleVars
<1>5. MirrorsAddUp'
  BY <1>1, <1>2 DEF IInv, MirrorsAddUp, Uncommitted, InFlight, mirrorVars
<1>6. ParkingAgrees' /\ Positions' /\ Pace'
  BY <1>1, <1>2 DEF IInv, ParkingAgrees, Positions, Before, Reserved,
                    ParkedPosition, Pace, mirrorVars
<1>7. WithinReservation'
  BY <1>1, <1>2, CountsInReservation
     DEF IInv, WithinReservation, InReservation, scheduleVars
<1>8. Tokens'
  BY <1>1, <1>2 DEF IInv, Tokens, Continues, Before, OutputIsContinuation
<1> QED
  BY <1>1, <1>3, <1>4, <1>5, <1>6, <1>7, <1>8 DEF IInv

\* The target pass and the acceptance.
LEMMA TargetAndAcceptStep ==
  ASSUME CopyTimely, IInv, TargetAndAccept
  PROVE  IInv'
<1>1. /\ phase = "target" /\ phase' = "advance" /\ TypeOK
  BY DEF IInv, TargetAndAccept
<1>2. UNCHANGED <<numComputed, emitted, active, lastToken, draft, targetIds,
                  targetBase, numSampled, mirrorVars, scheduleVars, cycles,
                  initialPosition, remaining, parked, history, output>>
  BY DEF TargetAndAccept
<1>3. PICK counts \in [Slots -> 1..Width] : Accept(counts)
  BY DEF TargetAndAccept
<1>4. ASSUME NEW s \in Slots
      PROVE  /\ accepted'[s] = AcceptedRow(s, counts[s])
             /\ accepted'[s] \in Seq(Nat \cup {Wrong})
             /\ Len(accepted'[s]) = counts[s]
             /\ counts[s] \in 1..Width
  BY <1>1, <1>3, RowType DEF Accept
<1>5. TypeOK'
  <2>1. /\ accepted' \in [Slots -> Seq(Nat \cup {Wrong})]
        /\ \A s \in Slots : Len(accepted'[s]) \in 0..Width
    BY <1>3, <1>4, DecodeAssumption DEF Accept
  <2> QED
    BY <1>1, <1>2, <2>1 DEF TypeOK, DecodeTypeOK, MirrorTypeOK, ScheduleTypeOK,
                            Phases, mirrorVars, scheduleVars
<1>6. CopyProtocol' /\ ScratchProtocol'
  BY <1>1, <1>2 DEF IInv, CopyProtocol, ScratchProtocol, mirrorVars, scheduleVars
<1>7. CycleInputs'
  <2>1. \A s \in Slots : accepted'[s] # <<>>
    BY <1>4
  <2> QED
    BY <1>1, <1>2, <2>1 DEF IInv, CycleInputs
<1>8. MirrorsAddUp'
  BY <1>1, <1>2 DEF IInv, MirrorsAddUp, Uncommitted, InFlight, mirrorVars
<1>9. ParkingAgrees' /\ Positions' /\ Pace'
  BY <1>1, <1>2 DEF IInv, ParkingAgrees, Positions, Before, Reserved,
                    ParkedPosition, Pace, mirrorVars
<1>10. WithinReservation'
  BY <1>2 DEF IInv, WithinReservation, InReservation, scheduleVars
<1>11. Tokens'
  <2>1. ASSUME NEW s \in Slots \ parked, NEW i \in 1..Len(accepted'[s])
        PROVE  accepted'[s][i] = targetBase[s] + i
    <3>1. /\ targetBase[s] = numComputed[s]
          /\ targetIds[s] = [last |-> lastToken[s], draft |-> draft[s]]
          /\ lastToken[s] = numComputed[s]
      BY <1>1 DEF IInv, CycleInputs, Tokens
    <3>2. Grounded(s, counts[s])
      BY <3>1 DEF Grounded
    <3>3. accepted'[s] = [j \in 1..counts[s] |-> targetBase[s] + j]
      BY <1>4, <3>2 DEF AcceptedRow
    <3> QED
      BY <1>4, <3>3
  <2> QED
    BY <1>1, <1>2, <2>1 DEF IInv, Tokens, Continues, Before, OutputIsContinuation
<1> QED
  BY <1>1, <1>5, <1>6, <1>7, <1>8, <1>9, <1>10, <1>11 DEF IInv

\* The count copy lands.
LEMMA HostCopyStreamStep ==
  ASSUME CopyTimely, IInv, HostCopyStream
  PROVE  IInv'
<1>1. /\ hostCopy = "launched" /\ hostCopy' = "done" /\ hostCount' = numSampled
      /\ UNCHANGED <<committed, seqLensCpu, numComputedCpu, commonSeqLens>>
      /\ UNCHANGED <<decodeVars, scheduleVars, servingVars>>
      /\ TypeOK
  BY DEF IInv, HostCopyStream, RunHostCopy
<1>2. TypeOK'
  BY <1>1 DEF TypeOK, DecodeTypeOK, MirrorTypeOK, ScheduleTypeOK, Phases,
              decodeVars, scheduleVars, servingVars
<1>3. CopyProtocol' /\ MirrorsAddUp'
  BY <1>1 DEF IInv, CopyProtocol, MirrorsAddUp, Uncommitted, InFlight,
              decodeVars, servingVars
<1>4. ScratchProtocol' /\ CycleInputs' /\ ParkingAgrees' /\ Positions'
  BY <1>1 DEF IInv, ScratchProtocol, CycleInputs, MaskedCount, ParkingAgrees,
              Positions, Before, Reserved, ParkedPosition,
              decodeVars, scheduleVars, servingVars
<1>5. WithinReservation'
  BY <1>1 DEF IInv, WithinReservation, InReservation,
              decodeVars, scheduleVars, servingVars
<1>6. Pace' /\ Tokens'
  BY <1>1 DEF IInv, Pace, Before, Tokens, Continues, OutputIsContinuation,
              decodeVars, servingVars
<1> QED
  BY <1>1, <1>2, <1>3, <1>4, <1>5, <1>6 DEF IInv, servingVars

\* The scheduled geometry lands.
LEMMA ScheduleStreamStep ==
  ASSUME CopyTimely, IInv, ScheduleStream
  PROVE  IInv'
<1>1. /\ scheduled = "launched" /\ scheduled' = "ready"
      /\ scratchBase' = numComputed /\ mode' = mode
      /\ UNCHANGED <<decodeVars, mirrorVars, servingVars>>
      /\ TypeOK
  BY DEF IInv, ScheduleStream, RunScheduleStream
<1>2. TypeOK'
  BY <1>1 DEF TypeOK, DecodeTypeOK, MirrorTypeOK, ScheduleTypeOK, Phases,
              decodeVars, mirrorVars, servingVars
<1>3. CopyProtocol' /\ MirrorsAddUp'
  BY <1>1 DEF IInv, CopyProtocol, MirrorsAddUp, Uncommitted, InFlight,
              decodeVars, mirrorVars, servingVars
<1>4. ScratchProtocol' /\ CycleInputs' /\ ParkingAgrees' /\ Positions'
  BY <1>1 DEF IInv, ScratchProtocol, CycleInputs, MaskedCount, ParkingAgrees,
              Positions, Before, Reserved, ParkedPosition,
              decodeVars, mirrorVars, servingVars
<1>5. WithinReservation'
  BY <1>1, CountsInReservation
     DEF IInv, WithinReservation, InReservation, decodeVars, servingVars
<1>6. Pace' /\ Tokens'
  BY <1>1 DEF IInv, Pace, Before, Tokens, Continues, OutputIsContinuation,
              decodeVars, servingVars
<1> QED
  BY <1>1, <1>2, <1>3, <1>4, <1>5, <1>6 DEF IInv, servingVars

\* Nothing changes.
LEMMA StutterStep ==
  ASSUME IInv, UNCHANGED vars
  PROVE  IInv'
<1> USE DEF vars, decodeVars, mirrorVars, scheduleVars, servingVars
<1>1. TypeOK'
  BY DEF IInv, TypeOK, DecodeTypeOK, MirrorTypeOK, ScheduleTypeOK
<1>2. CopyProtocol' /\ MirrorsAddUp' /\ ScratchProtocol' /\ CycleInputs'
  BY DEF IInv, CopyProtocol, MirrorsAddUp, Uncommitted, InFlight,
         ScratchProtocol, CycleInputs, MaskedCount
<1>3. ParkingAgrees' /\ Positions' /\ WithinReservation' /\ Pace' /\ Tokens'
  BY DEF IInv, ParkingAgrees, Positions, Before, Reserved, ParkedPosition,
         WithinReservation, InReservation, Pace, Tokens, Continues,
         OutputIsContinuation
<1> QED
  BY <1>1, <1>2, <1>3 DEF IInv

\* What staging the acceptance buffer adds to a slot's history.
LEMMA StagedHistory ==
  ASSUME IInv, phase = "serve", StageHistory, NEW s \in Slots
  PROVE  /\ history'[s] \in Seq(Nat \cup {Wrong})
         /\ Len(history'[s]) = Len(history[s]) + numSampled[s]
         /\ \A i \in 1..Len(history[s]) : history'[s][i] = history[s][i]
         /\ \A i \in 1..numSampled[s] :
              history'[s][Len(history[s]) + i] = accepted[s][i]
         /\ numSampled[s] <= Len(accepted[s])
<1> DEFINE staged == SubSeq(accepted[s], 1, numSampled[s])
<1>1. TypeOK
  BY DEF IInv
<1>2. numSampled[s] \in Nat /\ numSampled[s] <= Len(accepted[s])
  <2>1. numSampled[s] = MaskedCount(s)
    BY DEF IInv, CycleInputs
  <2> QED
    BY <1>1, <2>1, Rows DEF MaskedCount
<1>3. /\ history[s] \in Seq(Nat \cup {Wrong})
      /\ accepted[s] \in Seq(Nat \cup {Wrong})
  BY <1>1, Rows
<1>4. /\ staged \in Seq(Nat \cup {Wrong})
      /\ Len(staged) = numSampled[s]
      /\ \A i \in 1..numSampled[s] : staged[i] = accepted[s][i]
  <2>1. \A i \in 1..numSampled[s] : accepted[s][i] \in Nat \cup {Wrong}
    BY <1>2, <1>3
  <2> QED
    BY <1>2, <2>1, SubSeqProperties
<1>5. history'[s] = history[s] \o staged
  BY DEF StageHistory
<1> HIDE DEF staged
<1>6. /\ history'[s] \in Seq(Nat \cup {Wrong})
      /\ Len(history'[s]) = Len(history[s]) + numSampled[s]
      /\ \A i \in 1..Len(history[s]) + numSampled[s] : history'[s][i] =
            IF i <= Len(history[s]) THEN history[s][i] ELSE staged[i - Len(history[s])]
  <2>1. /\ history[s] \o staged \in Seq(Nat \cup {Wrong})
        /\ Len(history[s] \o staged) = Len(history[s]) + Len(staged)
        /\ \A i \in 1..Len(history[s]) + Len(staged) : (history[s] \o staged)[i] =
              IF i <= Len(history[s]) THEN history[s][i] ELSE staged[i - Len(history[s])]
    BY <1>3, <1>4, ConcatProperties
  <2> QED
    BY <1>4, <1>5, <2>1
<1>7. \A i \in 1..Len(history[s]) : history'[s][i] = history[s][i]
  BY <1>2, <1>3, <1>6
<1>8. ASSUME NEW i \in 1..numSampled[s]
      PROVE  history'[s][Len(history[s]) + i] = accepted[s][i]
  <2>1. /\ Len(history[s]) + i \in 1..Len(history[s]) + numSampled[s]
        /\ ~(Len(history[s]) + i <= Len(history[s]))
        /\ (Len(history[s]) + i) - Len(history[s]) = i
    BY <1>2, <1>3
  <2> QED
    BY <1>4, <1>6, <2>1
<1> QED
  BY <1>2, <1>6, <1>7, <1>8

\* At the serving point the progress of a slot is what it had one cycle ago.
LEMMA ProgressAtServe ==
  ASSUME IInv, phase = "serve", NEW s \in Slots
  PROVE  committed[s] = Before(s)
<1>1. TypeOK /\ hostCopy # "idle" /\ (hostCopy = "done" => hostCount = numSampled)
  BY DEF IInv, CopyProtocol
<1>2. InFlight(s) = numSampled[s] /\ Uncommitted(s) = numSampled[s]
  <2>1. hostCopy \in {"launched", "done"} /\ numSampled[s] \in Nat
    <3>1. hostCopy \in {"launched", "done"}
      BY <1>1 DEF TypeOK, MirrorTypeOK
    <3> QED
      BY <1>1, <3>1, Numbers
  <2>2. InFlight(s) = numSampled[s]
    BY <1>1, <2>1 DEF InFlight
  <2> QED
    BY <2>1, <2>2 DEF Uncommitted
<1>3. committed[s] + numSampled[s] = emitted[s]
  BY <1>2 DEF IInv, MirrorsAddUp
<1> QED
  BY <1>1, <1>3, Numbers DEF Before

\* The serving loop does not run out of cycles.
LEMMA ServeDoesNotFail ==
  ASSUME IInv, phase = "serve"
  PROVE  PhaseAfterServe \in {"assemble", "prepare"}
<1> SUFFICES ASSUME cycles = MaxCycles PROVE Completed = Slots
  BY DEF PhaseAfterServe
<1>1. ASSUME NEW s \in Slots PROVE committed[s] >= remaining[s]
  <2>1. CASE s \in parked
    BY <2>1 DEF IInv, ParkingAgrees
  <2>2. CASE s \notin parked
    <3>1. Before(s) >= cycles - 1
      BY <2>2 DEF IInv, Pace
    <3>2. remaining[s] < MaxCycles /\ MaxCycles \in Nat
      BY BudgetBound DEF IInv, Positions
    <3>3. TypeOK
      BY DEF IInv
    <3> QED
      BY <3>1, <3>2, <3>3, ProgressAtServe, Numbers
  <2> QED
    BY <2>1, <2>2
<1> QED
  BY <1>1 DEF Completed, Progress

\* Staging a live slot continues its own request up to what it has emitted.
LEMMA StagedContinuation ==
  ASSUME IInv, phase = "serve", StageHistory, NEW s \in Slots \ parked
  PROVE  /\ Len(history'[s]) = emitted[s]
         /\ \A i \in 1..emitted[s] : history'[s][i] = initialPosition[s] + i
<1>1. TypeOK
  BY DEF IInv
<1>2. /\ Len(history[s]) = Before(s)
      /\ \A i \in 1..Before(s) : history[s][i] = initialPosition[s] + i
      /\ \A i \in 1..Len(accepted[s]) : accepted[s][i] = targetBase[s] + i
  BY DEF IInv, Tokens, Continues
<1>3. /\ numComputed[s] = targetBase[s] + numSampled[s]
      /\ numComputed[s] = initialPosition[s] + emitted[s]
  BY DEF IInv, CycleInputs, Positions
<1>4. targetBase[s] = initialPosition[s] + Before(s)
  BY <1>1, <1>3, Numbers DEF Before
<1>5. Len(history'[s]) = emitted[s]
  BY <1>1, <1>2, Numbers, StagedHistory DEF Before
<1>6. ASSUME NEW i \in 1..emitted[s]
      PROVE  history'[s][i] = initialPosition[s] + i
  <2>1. CASE i <= Before(s)
    <3>1. i \in 1..Len(history[s])
      BY <1>1, <1>2, <2>1, Numbers DEF Before
    <3> QED
      BY <1>2, <3>1, StagedHistory
  <2>2. CASE ~(i <= Before(s))
    <3>1. /\ i - Before(s) \in 1..numSampled[s]
          /\ Before(s) + (i - Before(s)) = i
          /\ targetBase[s] + (i - Before(s)) = initialPosition[s] + i
      BY <1>1, <1>4, <2>2, Numbers DEF Before
    <3>2. i - Before(s) \in 1..Len(accepted[s])
      <4>1. numSampled[s] <= Len(accepted[s])
        BY StagedHistory
      <4>2. numSampled[s] \in Nat /\ Len(accepted[s]) \in Nat
        BY <1>1, Numbers, Rows
      <4> QED
        BY <3>1, <4>1, <4>2
    <3>3. history'[s][Before(s) + (i - Before(s))] = accepted[s][i - Before(s)]
      BY <1>2, <3>1, StagedHistory
    <3>4. accepted[s][i - Before(s)] = targetBase[s] + (i - Before(s))
      BY <1>2, <3>2
    <3> QED
      BY <3>1, <3>3, <3>4
  <2> QED
    BY <2>1, <2>2
<1> QED
  BY <1>5, <1>6

\* What is staged of a parked slot keeps its budget's worth of continuation.
LEMMA StagedParked ==
  ASSUME IInv, phase = "serve", StageHistory, NEW s \in parked
  PROVE  /\ Len(history'[s]) >= remaining[s]
         /\ \A i \in 1..remaining[s] : history'[s][i] = initialPosition[s] + i
<1>1. TypeOK /\ s \in Slots
  BY DEF IInv, TypeOK
<1>2. /\ Len(history[s]) >= remaining[s]
      /\ \A i \in 1..remaining[s] : history[s][i] = initialPosition[s] + i
  BY DEF IInv, Tokens
<1>3. /\ Len(history'[s]) = Len(history[s]) + numSampled[s]
      /\ \A i \in 1..Len(history[s]) : history'[s][i] = history[s][i]
      /\ Len(history[s]) \in Nat
  BY <1>1, StagedHistory, Rows
<1>4. remaining[s] \in Nat /\ numSampled[s] \in Nat
  BY <1>1, Numbers
<1> QED
  BY <1>2, <1>3, <1>4

\* The serving loop finds no newly completed slot.
LEMMA KeepServingStep ==
  ASSUME CopyTimely, IInv, KeepServing
  PROVE  IInv'
<1>1. /\ phase = "serve" /\ StageHistory /\ TypeOK
      /\ phase' \in {"assemble", "prepare"}
      /\ phase' = "assemble" => Completed = Slots
      /\ Completed \subseteq parked
  BY ServeDoesNotFail DEF IInv, KeepServing, PhaseAfterServe
<1>2. UNCHANGED <<decodeVars, mirrorVars, scheduleVars, cycles,
                  initialPosition, remaining, parked, output>>
  BY DEF KeepServing
<1> USE DEF decodeVars, mirrorVars
<1>3. TypeOK'
  <2>1. history' \in [Slots -> Seq(Nat \cup {Wrong})]
    BY <1>1, StagedHistory DEF StageHistory
  <2> QED
    BY <1>1, <1>2, <2>1 DEF TypeOK, DecodeTypeOK, MirrorTypeOK, ScheduleTypeOK,
                            Phases, scheduleVars
<1>4. CopyProtocol' /\ ScratchProtocol' /\ CycleInputs'
  BY <1>1, <1>2 DEF IInv, CopyProtocol, ScratchProtocol, CycleInputs, scheduleVars
<1>5. MirrorsAddUp'
  BY <1>1, <1>2 DEF IInv, MirrorsAddUp, Uncommitted, InFlight
<1>6. ParkingAgrees'
  BY <1>1, <1>2 DEF IInv, ParkingAgrees, TypeOK
<1>7. Positions'
  <2>1. ASSUME NEW s \in Slots \ parked PROVE Before(s) < remaining[s]
    BY <1>1, <2>1, ProgressAtServe, Numbers DEF Completed, Progress
  <2> QED
    BY <1>1, <1>2, <2>1 DEF IInv, Positions, Before, Reserved, ParkedPosition
<1>8. WithinReservation'
  BY <1>2 DEF IInv, WithinReservation, InReservation, scheduleVars
<1>9. Pace'
  BY <1>1, <1>2 DEF IInv, Pace
<1>10. Tokens'
  BY <1>1, <1>2, StagedContinuation, StagedParked
     DEF IInv, Tokens, Continues, OutputIsContinuation
<1> QED
  BY <1>1, <1>3, <1>4, <1>5, <1>6, <1>7, <1>8, <1>9, <1>10 DEF IInv

\* Parked positions are natural numbers.
LEMMA ParkedPositionType ==
  ASSUME TypeOK
  PROVE  [s \in Slots |-> ParkedPosition(s)] \in [Slots -> Nat]
<1>1. ASSUME NEW s \in Slots PROVE ParkedPosition(s) \in Nat
  BY Numbers DEF ParkedPosition
<1> QED
  BY <1>1

\* The serving loop parks the newly completed slots.
LEMMA ParkCompletedStep ==
  ASSUME CopyTimely, IInv, ParkCompleted
  PROVE  IInv'
<1> DEFINE parking == Completed \ parked
           position == [s \in Slots |-> ParkedPosition(s)]
<1>1. /\ phase = "serve" /\ StageHistory /\ TypeOK
      /\ phase' \in {"assemble", "prepare"}
      /\ phase' = "assemble" => Completed = Slots
      /\ parked' = parked \cup parking
      /\ scheduled' = "none"
      /\ ParkCompletedSlots(parking, position)
      /\ hostCopy = "done" /\ hostCopy' = "idle"
      /\ parking \subseteq Slots
      /\ parked \subseteq Slots
  BY ServeDoesNotFail
     DEF IInv, ParkCompleted, PhaseAfterServe, InvalidateScheduled, CopyProtocol,
         ParkCompletedSlots, HostCopySynchronized, TypeOK, MirrorTypeOK, Completed
<1>2. UNCHANGED <<emitted, lastToken, draft, targetIds, targetBase, accepted,
                  numSampled, cycles, initialPosition, remaining, output,
                  hostCount, mode, scratchBase>>
  BY DEF ParkCompleted, InvalidateScheduled, ParkCompletedSlots
<1>3. ASSUME NEW s \in Slots
      PROVE  /\ PendingCount(s) = numSampled[s]
             /\ committed[s] + numSampled[s] = emitted[s]
             /\ seqLensCpu[s] + numSampled[s] = numComputed[s] + Width
             /\ numComputedCpu[s] + Width = seqLensCpu[s]
  <2>1. hostCount = numSampled
    BY <1>1 DEF IInv, CopyProtocol
  <2>2. PendingCount(s) = numSampled[s] /\ Uncommitted(s) = numSampled[s]
    BY <1>1, <2>1, Numbers DEF PendingCount, Uncommitted, InFlight
  <2> QED
    BY <2>2 DEF IInv, MirrorsAddUp
<1>4. ASSUME NEW s \in Slots
      PROVE  /\ numComputed'[s] = IF s \in parking THEN ParkedPosition(s)
                                                   ELSE numComputed[s]
             /\ active'[s] = (active[s] /\ s \notin parking)
             /\ committed'[s] = emitted[s]
  BY <1>1, <1>3 DEF ParkCompleted, ParkCompletedSlots
<1>5. ASSUME NEW s \in parking
      PROVE  /\ s \in Slots \ parked
             /\ committed[s] >= remaining[s] /\ emitted[s] >= remaining[s]
  <2>1. s \in Slots \ parked /\ committed[s] >= remaining[s]
    BY DEF Completed, Progress
  <2> QED
    BY <1>1, <1>3, <2>1, Numbers
<1>6. ASSUME NEW s \in Slots \ parked' PROVE s \in Slots \ parked /\ s \notin parking
  BY <1>1
<1>7. TypeOK'
  <2>1. history' \in [Slots -> Seq(Nat \cup {Wrong})]
    BY <1>1, StagedHistory DEF StageHistory
  <2>2. MirrorTypeOK'
    BY <1>1, MirrorTypes, ParkedPositionType
  <2>3. numComputed' \in [Slots -> Nat] /\ active' \in [Slots -> BOOLEAN]
    BY <1>1, ParkedPositionType DEF ParkCompleted, TypeOK, DecodeTypeOK
  <2> QED
    BY <1>1, <1>2, <2>1, <2>2, <2>3 DEF TypeOK, DecodeTypeOK, ScheduleTypeOK, Phases
<1>8. CopyProtocol' /\ ScratchProtocol' /\ CycleInputs'
  BY <1>1 DEF CopyProtocol, ScratchProtocol, CycleInputs
<1>9. MirrorsAddUp'
  <2> SUFFICES ASSUME NEW s \in Slots
      PROVE (/\ committed[s] + Uncommitted(s) = emitted[s]
             /\ seqLensCpu[s] + Uncommitted(s) = numComputed[s] + Width
             /\ numComputedCpu[s] + Width = seqLensCpu[s])'
    BY DEF MirrorsAddUp
  <2>1. Uncommitted(s)' = 0
    BY <1>1 DEF Uncommitted, InFlight
  <2>2. /\ seqLensCpu'[s] = numComputed'[s] + Width
        /\ numComputedCpu'[s] = numComputed'[s]
    <3>1. CASE s \in parking
      BY <1>1, <1>4, <3>1 DEF ParkCompletedSlots
    <3>2. CASE s \notin parking
      <4>1. /\ seqLensCpu'[s] = seqLensCpu[s] + numSampled[s]
            /\ numComputedCpu'[s] = numComputedCpu[s] + numSampled[s]
            /\ numComputed'[s] = numComputed[s]
        BY <1>1, <1>3, <1>4, <3>2 DEF ParkCompletedSlots
      <4> QED
        BY <1>1, <1>3, <4>1, Numbers
    <3> QED
      BY <3>1, <3>2
  <2>3. /\ committed'[s] \in Nat /\ emitted'[s] \in Nat /\ committed'[s] = emitted'[s]
        /\ seqLensCpu'[s] \in Nat /\ numComputedCpu'[s] \in Nat
    BY <1>2, <1>4, <1>7 DEF TypeOK, DecodeTypeOK, MirrorTypeOK
  <2> QED
    BY <2>1, <2>2, <2>3
<1>10. ParkingAgrees'
  <2>1. ASSUME NEW s \in parked' PROVE committed'[s] >= remaining[s]
    <3>1. CASE s \in parked
      <4>1. s \in Slots /\ committed[s] >= remaining[s]
        BY <1>1, <3>1 DEF IInv, ParkingAgrees
      <4> QED
        BY <1>1, <1>3, <1>4, <4>1, Numbers
    <3>2. CASE s \in parking
      BY <1>4, <1>5, <3>2
    <3> QED
      BY <1>1, <3>1, <3>2
  <2>2. \A s \in Slots : active'[s] <=> s \notin parked'
    BY <1>1, <1>4 DEF IInv, ParkingAgrees
  <2>3. phase' \in {"assemble", "done", "validated"} => parked' = Slots
    BY <1>1
  <2> QED
    BY <1>2, <2>1, <2>2, <2>3 DEF ParkingAgrees
<1>11. Positions'
  <2>1. ASSUME NEW s \in parked' PROVE numComputed'[s] = ParkedPosition(s)
    BY <1>1, <1>4, <2>1 DEF IInv, Positions
  <2>2. ASSUME NEW s \in Slots \ parked'
        PROVE  /\ numComputed'[s] = initialPosition[s] + emitted[s]
               /\ Before(s) < remaining[s]
               /\ Before(s) < remaining[s] + Width
               /\ Before(s) >= 0
    <3>1. s \in Slots \ parked /\ s \notin parking
      BY <1>6
    <3>2. Before(s) < remaining[s]
      BY <1>1, <3>1, ProgressAtServe, Numbers DEF Completed, Progress
    <3> QED
      BY <1>4, <3>1, <3>2 DEF IInv, Positions
  <2> QED
    BY <1>2, <2>1, <2>2 DEF IInv, Positions, Reserved, ParkedPosition, Before
<1>12. WithinReservation'
  BY <1>2 DEF IInv, WithinReservation, InReservation
<1>13. Pace'
  BY <1>1, <1>2, <1>6 DEF IInv, Pace
<1>14. Tokens'
  <2>1. ASSUME NEW s \in Slots \ parked'
        PROVE  /\ lastToken[s] = numComputed'[s]
               /\ Len(history'[s]) = emitted[s]
               /\ \A i \in 1..emitted[s] : history'[s][i] = initialPosition[s] + i
    BY <1>1, <1>4, <1>6, StagedContinuation DEF IInv, Tokens
  <2>2. ASSUME NEW s \in parked'
        PROVE  /\ Len(history'[s]) >= remaining[s]
               /\ \A i \in 1..remaining[s] : history'[s][i] = initialPosition[s] + i
    <3>1. CASE s \in parked
      BY <1>1, <3>1, StagedParked
    <3>2. CASE s \in parking
      <4>1. /\ Len(history'[s]) = emitted[s]
            /\ \A i \in 1..emitted[s] : history'[s][i] = initialPosition[s] + i
        BY <1>1, <1>5, <3>2, StagedContinuation
      <4>2. emitted[s] >= remaining[s] /\ emitted[s] \in Nat /\ remaining[s] \in Nat
        BY <1>1, <1>5, <3>2, Numbers
      <4> QED
        BY <4>1, <4>2
    <3> QED
      BY <1>1, <3>1, <3>2
  <2>3. output = [s \in Slots |-> <<>>]
    BY <1>1 DEF IInv, Tokens
  <2> QED
    BY <1>1, <1>2, <2>1, <2>2, <2>3 DEF Tokens, Continues, OutputIsContinuation
<1> QED
  BY <1>1, <1>7, <1>8, <1>9, <1>10, <1>11, <1>12, <1>13, <1>14 DEF IInv

\* The output is cut from the staged history.
LEMMA AssembleOutputStep ==
  ASSUME CopyTimely, IInv, AssembleOutput
  PROVE  IInv'
<1>1. phase = "assemble" /\ TypeOK /\ parked = Slots /\ scheduled' = "none"
  BY DEF IInv, AssembleOutput, ParkingAgrees, InvalidateScheduled
<1>2. UNCHANGED <<decodeVars, mirrorVars, cycles, initialPosition, remaining,
                  parked, history, mode, scratchBase>>
  BY DEF AssembleOutput, InvalidateScheduled
<1>3. ASSUME NEW s \in Slots
      PROVE  /\ output'[s] \in Seq(Nat \cup {Wrong})
             /\ Len(output'[s]) = remaining[s]
             /\ output'[s] = [i \in 1..remaining[s] |-> initialPosition[s] + i]
  <2>1. /\ Len(history[s]) >= remaining[s]
        /\ \A i \in 1..remaining[s] : history[s][i] = initialPosition[s] + i
    BY <1>1 DEF IInv, Tokens
  <2>2. /\ remaining[s] \in Nat \ {0} /\ initialPosition[s] \in Nat
        /\ Len(history[s]) \in Nat
    BY <1>1, Numbers, Rows
  <2>3. output'[s] = SubSeq(history[s], 1, remaining[s])
    <3>1. output'[s] = SubSeq(history[s], 1, IF Len(history[s]) < remaining[s]
                                            THEN Len(history[s]) ELSE remaining[s])
      BY DEF AssembleOutput
    <3>2. ~(Len(history[s]) < remaining[s])
      BY <2>1, <2>2
    <3> QED
      BY <3>1, <3>2
  <2>4. \A i \in 1..remaining[s] : history[s][i] \in Nat
    BY <2>1, <2>2
  <2>5. /\ output'[s] \in Seq(Nat)
        /\ Len(output'[s]) = remaining[s]
        /\ \A i \in 1..remaining[s] : output'[s][i] = history[s][i]
    BY <2>2, <2>3, <2>4, SubSeqProperties
  <2>6. output'[s] = [i \in 1..remaining[s] |-> initialPosition[s] + i]
    <3>1. output'[s] = [i \in 1..Len(output'[s]) |-> output'[s][i]]
      BY <2>5
    <3>2. \A i \in 1..remaining[s] : output'[s][i] = initialPosition[s] + i
      BY <2>1, <2>5
    <3> QED
      BY <2>5, <3>1, <3>2
  <2> QED
    BY <2>5, <2>6
<1>4. phase' = "done"
  BY <1>3 DEF AssembleOutput
<1> USE DEF decodeVars, mirrorVars
<1>5. TypeOK'
  <2>1. output' \in [Slots -> Seq(Nat \cup {Wrong})]
    BY <1>3 DEF AssembleOutput
  <2> QED
    BY <1>1, <1>2, <1>4, <2>1 DEF TypeOK, DecodeTypeOK, MirrorTypeOK,
                                  ScheduleTypeOK, Phases
<1>6. CopyProtocol' /\ ScratchProtocol' /\ CycleInputs'
  BY <1>1, <1>2, <1>4 DEF IInv, CopyProtocol, ScratchProtocol, CycleInputs
<1>7. MirrorsAddUp'
  BY <1>1, <1>2, <1>4 DEF IInv, MirrorsAddUp, Uncommitted, InFlight
<1>8. ParkingAgrees' /\ Positions' /\ Pace'
  BY <1>1, <1>2, <1>4 DEF IInv, ParkingAgrees, Positions, Before, Reserved,
                          ParkedPosition, Pace
<1>9. WithinReservation'
  BY <1>2 DEF IInv, WithinReservation, InReservation
<1>10. Tokens'
  BY <1>1, <1>2, <1>3, <1>4 DEF IInv, Tokens, OutputIsContinuation
<1> QED
  BY <1>4, <1>5, <1>6, <1>7, <1>8, <1>9, <1>10 DEF IInv

\* The post-run gate commits what is pending.
LEMMA ValidateHostMirrorsStep ==
  ASSUME CopyTimely, IInv, ValidateHostMirrors
  PROVE  IInv'
<1>1. /\ phase = "done" /\ phase' = "validated" /\ TypeOK /\ parked = Slots
      /\ ParkCompletedSlots({}, committed)
      /\ hostCopy # "launched" /\ hostCopy' = "idle"
  BY DEF IInv, ValidateHostMirrors, CommitHostMirrors, ParkCompletedSlots,
         HostCopySynchronized, ParkingAgrees
<1>2. UNCHANGED <<decodeVars, scheduleVars, cycles, initialPosition, remaining,
                  parked, history, output>>
  BY DEF ValidateHostMirrors
<1>3. ASSUME NEW s \in Slots
      PROVE  /\ committed'[s] = emitted[s]
             /\ seqLensCpu'[s] = numComputed[s] + Width
             /\ numComputedCpu'[s] = numComputed[s]
             /\ committed'[s] >= committed[s]
  <2>1. PendingCount(s) \in Nat /\ Uncommitted(s) = PendingCount(s)
    BY <1>1, SynchronizedCount, Numbers DEF Uncommitted
  <2>2. /\ committed[s] + PendingCount(s) = emitted[s]
        /\ seqLensCpu[s] + PendingCount(s) = numComputed[s] + Width
        /\ numComputedCpu[s] + Width = seqLensCpu[s]
    BY <2>1 DEF IInv, MirrorsAddUp
  <2>3. /\ committed'[s] = committed[s] + PendingCount(s)
        /\ seqLensCpu'[s] = seqLensCpu[s] + PendingCount(s)
        /\ numComputedCpu'[s] = numComputedCpu[s] + PendingCount(s)
    BY <1>1 DEF ParkCompletedSlots
  <2> QED
    BY <1>1, <2>1, <2>2, <2>3, Numbers
<1> USE DEF decodeVars, scheduleVars
<1>4. TypeOK'
  <2>1. MirrorTypeOK'
    BY <1>1, MirrorTypes DEF TypeOK, MirrorTypeOK
  <2> QED
    BY <1>1, <1>2, <2>1 DEF TypeOK, DecodeTypeOK, ScheduleTypeOK, Phases
<1>5. CopyProtocol' /\ ScratchProtocol' /\ CycleInputs'
  BY <1>1, <1>2 DEF IInv, CopyProtocol, ScratchProtocol, CycleInputs
<1>6. MirrorsAddUp'
  <2> SUFFICES ASSUME NEW s \in Slots
      PROVE (/\ committed[s] + Uncommitted(s) = emitted[s]
             /\ seqLensCpu[s] + Uncommitted(s) = numComputed[s] + Width
             /\ numComputedCpu[s] + Width = seqLensCpu[s])'
    BY DEF MirrorsAddUp
  <2>1. Uncommitted(s)' = 0
    BY <1>1 DEF Uncommitted, InFlight
  <2>2. /\ emitted[s] \in Nat /\ numComputed[s] \in Nat /\ Width \in Nat
    BY <1>1, Numbers
  <2> QED
    BY <1>2, <1>3, <2>1, <2>2
<1>7. ParkingAgrees'
  <2>1. ASSUME NEW s \in Slots PROVE committed'[s] >= remaining[s]
    BY <1>1, <1>3, Numbers DEF IInv, ParkingAgrees
  <2> QED
    BY <1>1, <1>2, <2>1 DEF IInv, ParkingAgrees
<1>8. Positions' /\ Pace'
  BY <1>1, <1>2 DEF IInv, Positions, Before, Reserved, ParkedPosition, Pace
<1>9. WithinReservation'
  BY <1>2 DEF IInv, WithinReservation, InReservation
<1>10. Tokens'
  BY <1>1, <1>2 DEF IInv, Tokens, OutputIsContinuation
<1> QED
  BY <1>1, <1>4, <1>5, <1>6, <1>7, <1>8, <1>9, <1>10 DEF IInv
-----------------------------------------------------------------------------

\* The invariant holds initially.
LEMMA InitIInv == Init => IInv
<1> SUFFICES ASSUME Init PROVE IInv
  OBVIOUS
<1> USE DecodeAssumption, ServingAssumption
<1>1. /\ initialPosition \in [Slots -> Nat] /\ remaining \in [Slots -> Nat \ {0}]
      /\ DecodeInit(initialPosition) /\ MirrorInit(initialPosition)
      /\ ScheduleInit(initialPosition) /\ Reserved(remaining)
      /\ phase = "prepare" /\ cycles = 0 /\ parked = {}
      /\ history = [s \in Slots |-> <<>>] /\ output = [s \in Slots |-> <<>>]
  BY DEF Init
<1>2. TypeOK
  <2>1. DecodeTypeOK
    BY <1>1 DEF DecodeInit, DecodeTypeOK
  <2>2. MirrorTypeOK
    BY <1>1 DEF MirrorInit, MirrorTypeOK
  <2>3. ScheduleTypeOK
    BY <1>1 DEF ScheduleInit, ScheduleTypeOK
  <2> QED
    BY <1>1, <2>1, <2>2, <2>3 DEF TypeOK, Phases
<1>3. CopyProtocol /\ ScratchProtocol /\ CycleInputs
  BY <1>1 DEF CopyProtocol, ScratchProtocol, CycleInputs, MirrorInit, ScheduleInit
<1>4. MirrorsAddUp
  <2>1. ASSUME NEW s \in Slots PROVE Uncommitted(s) = 0
    BY <1>1 DEF Uncommitted, InFlight, MirrorInit
  <2>2. ASSUME NEW s \in Slots
        PROVE  /\ committed[s] = 0 /\ emitted[s] = 0
               /\ seqLensCpu[s] = numComputed[s] + Width
               /\ numComputedCpu[s] = numComputed[s] /\ numComputed[s] \in Nat
    BY <1>1 DEF MirrorInit, DecodeInit
  <2>3. ASSUME NEW s \in Slots
        PROVE  /\ committed[s] + 0 = emitted[s]
               /\ seqLensCpu[s] + 0 = numComputed[s] + Width
               /\ numComputedCpu[s] + Width = seqLensCpu[s]
    BY <2>2
  <2> QED
    BY <2>1, <2>3 DEF MirrorsAddUp
<1>5. ParkingAgrees /\ Positions /\ Pace
  BY <1>1 DEF ParkingAgrees, Positions, Before, Pace, DecodeInit
<1>6. WithinReservation
  <2>1. ASSUME NEW s \in Slots
        PROVE  /\ targetBase[s] = initialPosition[s]
               /\ scratchBase[s] = initialPosition[s]
               /\ initialPosition[s] \in Nat /\ remaining[s] \in Nat
               /\ remaining[s] + 2 * BlockSize <= Reserve
    BY <1>1 DEF Reserved, DecodeInit, ScheduleInit
  <2>2. Width <= 2 * BlockSize
    BY OvershootFitsTwoBlocks
  <2>3. ASSUME NEW s \in Slots PROVE InReservation(s, initialPosition[s])
    BY <2>1, <2>2 DEF InReservation
  <2> QED
    BY <2>1, <2>3 DEF WithinReservation
<1>7. Tokens
  BY <1>1 DEF Tokens, Continues, OutputIsContinuation, DecodeInit
<1> QED
  BY <1>1, <1>2, <1>3, <1>4, <1>5, <1>6, <1>7 DEF IInv

\* Every step of the system preserves the invariant.
LEMMA NextIInv ==
  ASSUME CopyTimely
  PROVE  IInv /\ [Next]_vars => IInv'
<1> SUFFICES ASSUME IInv, [Next]_vars PROVE IInv'
  OBVIOUS
<1>1. CASE PrepareScheduled    BY <1>1, PrepareScheduledStep
<1>2. CASE PrepareFallback     BY <1>2, PrepareFallbackStep
<1>3. CASE TargetAndAccept     BY <1>3, TargetAndAcceptStep
<1>4. CASE AdvanceState        BY <1>4, AdvanceStateStep
<1>5. CASE Propose             BY <1>5, ProposeStep
<1>6. CASE KeepServing         BY <1>6, KeepServingStep
<1>7. CASE ParkCompleted       BY <1>7, ParkCompletedStep
<1>8. CASE AssembleOutput      BY <1>8, AssembleOutputStep
<1>9. CASE ValidateHostMirrors BY <1>9, ValidateHostMirrorsStep
<1>10. CASE HostCopyStream     BY <1>10, HostCopyStreamStep
<1>11. CASE ScheduleStream     BY <1>11, ScheduleStreamStep
<1>12. CASE UNCHANGED vars     BY <1>12, StutterStep
<1> QED
  BY <1>1, <1>2, <1>3, <1>4, <1>5, <1>6, <1>7, <1>8, <1>9, <1>10, <1>11, <1>12
     DEF Next, HostThread

\* The inductive invariant holds throughout.
THEOREM Invariance ==
  ASSUME CopyTimely
  PROVE  Spec => []IInv
BY InitIInv, NextIInv, PTL DEF Spec

\* The state keeps its types: in particular no count exceeds the width of its
\* buffer and no position becomes negative when a slot is rewound.
THEOREM TypeCorrect ==
  ASSUME CopyTimely
  PROVE  Spec => []TypeOK
<1>1. IInv => TypeOK
  BY DEF IInv
<1> QED
  BY <1>1, Invariance, PTL

\* Every target pass runs on the geometry and tokens of the current counts,
\* scheduled ahead or rebuilt (extreme_decode.py, _verify).
THEOREM CurrentTargetInputs ==
  ASSUME CopyTimely
  PROVE  Spec => []TargetInputsCurrent
<1>1. IInv => TargetInputsCurrent
  BY DEF IInv, CycleInputs, TargetInputsCurrent
<1> QED
  BY <1>1, Invariance, PTL

\* The proposer's Host mirrors and device metadata describe the same target pass
\* (vllm_dspark_handoff.py, _commit_host_mirrors and refresh_fixed_common).
THEOREM OneTargetPass ==
  ASSUME CopyTimely
  PROVE  Spec => []DraftSeesOneTargetPass
<1>1. ASSUME IInv, phase = "serve", NEW s \in Slots
      PROVE  /\ seqLensCpu[s] = commonSeqLens[s]
             /\ numComputedCpu[s] + Width = commonSeqLens[s]
  <2>1. TypeOK
    BY <1>1 DEF IInv
  <2>3. /\ committed[s] + Uncommitted(s) = emitted[s]
        /\ seqLensCpu[s] + Uncommitted(s) = numComputed[s] + Width
        /\ numComputedCpu[s] + Width = seqLensCpu[s]
    BY <1>1 DEF IInv, MirrorsAddUp
  <2>4. Uncommitted(s) = numSampled[s]
    <3>1. hostCopy \in {"launched", "done"} /\ (hostCopy = "done" => hostCount = numSampled)
      BY <1>1, <2>1 DEF IInv, CopyProtocol, TypeOK, MirrorTypeOK
    <3>2. InFlight(s) = numSampled[s]
      BY <3>1 DEF InFlight
    <3> QED
      BY <1>1, <2>1, <3>2, Numbers DEF Uncommitted
  <2>5. /\ numComputed[s] = targetBase[s] + numSampled[s]
        /\ commonSeqLens[s] = targetBase[s] + Width
    BY <1>1 DEF IInv, CycleInputs
  <2> QED
    BY <2>1, <2>3, <2>4, <2>5, Numbers
<1>2. IInv => DraftSeesOneTargetPass
  BY <1>1 DEF DraftSeesOneTargetPass
<1> QED
  BY <1>2, Invariance, PTL

\* The progress that run() reads is exactly one cycle old
\* (fixed_serving.py, _committed_progress).
THEOREM OneCycleLag ==
  ASSUME CopyTimely
  PROVE  Spec => []ProgressLagsOneCycle
<1>1. ASSUME IInv, phase = "serve", NEW s \in Slots
      PROVE  committed[s] + numSampled[s] = emitted[s]
  <2>1. TypeOK
    BY <1>1 DEF IInv
  <2> QED
    BY <1>1, <2>1, ProgressAtServe, Numbers DEF Before
<1>2. IInv => ProgressLagsOneCycle
  BY <1>1 DEF ProgressLagsOneCycle
<1> QED
  BY <1>2, Invariance, PTL

\* Neither a target pass nor a scheduled geometry leaves the reserved KV blocks
\* (fixed_serving.py, __init__ and _park_completed).
THEOREM ReservationRespected ==
  ASSUME CopyTimely
  PROVE  Spec => []WithinReservation
<1>1. IInv => WithinReservation
  BY DEF IInv
<1> QED
  BY <1>1, Invariance, PTL

\* The output of the cohort is each request's own next tokens, in order
\* (fixed_serving.py, run).
THEOREM CorrectOutput ==
  ASSUME CopyTimely
  PROVE  Spec => []OutputIsContinuation
<1>1. IInv => OutputIsContinuation
  BY DEF IInv, Tokens
<1> QED
  BY <1>1, Invariance, PTL

\* No RuntimeError of the serving loop is reachable: in particular the cycle
\* bound max(remaining) + 1 suffices (fixed_serving.py, run).
THEOREM NoRuntimeError ==
  ASSUME CopyTimely
  PROVE  Spec => []NeverFails
<1>1. IInv => NeverFails
  BY DEF IInv, NeverFails
<1> QED
  BY <1>1, Invariance, PTL

\* The post-run gate validate_host_mirrors passes.
THEOREM GatePasses ==
  ASSUME CopyTimely
  PROVE  Spec => []MirrorGatePasses
<1>1. ASSUME IInv, phase = "validated", NEW s \in Slots
      PROVE  /\ committed[s] = emitted[s]
             /\ seqLensCpu[s] = numComputed[s] + Width
             /\ numComputedCpu[s] = numComputed[s]
  <2>1. TypeOK /\ hostCopy = "idle"
    BY <1>1 DEF IInv, CopyProtocol
  <2>2. Uncommitted(s) = 0
    BY <1>1, <2>1 DEF Uncommitted, InFlight
  <2>3. /\ committed[s] + 0 = emitted[s]
        /\ seqLensCpu[s] + 0 = numComputed[s] + Width
        /\ numComputedCpu[s] + Width = seqLensCpu[s]
    BY <1>1, <2>2 DEF IInv, MirrorsAddUp
  <2> QED
    BY <2>1, <2>3, Numbers
<1>2. IInv => MirrorGatePasses
  BY <1>1 DEF MirrorGatePasses, MirrorsAgree
<1> QED
  BY <1>2, Invariance, PTL

\* A parked slot emits nothing and stays where it was rewound to.
THEOREM ParkedFrozen ==
  ASSUME CopyTimely
  PROVE  Spec => ParkedStaysFrozen
<1>1. ASSUME IInv, [Next]_vars PROVE [KeepParked]_vars
  <2> USE DEF KeepParked
  <2>1. parked \subseteq Slots /\ TypeOK
    BY <1>1 DEF IInv, TypeOK
  <2>2. CASE AdvanceState
    <3> SUFFICES ASSUME NEW s \in parked
                 PROVE  /\ s \in parked'
                        /\ emitted'[s] = emitted[s]
                        /\ numComputed'[s] = numComputed[s]
      OBVIOUS
    <3>1. parked' = parked /\ s \in Slots
      BY <2>1, <2>2 DEF AdvanceState
    <3> QED
      BY <1>1, <2>2, <3>1, AdvanceCounts
  <2>3. CASE ParkCompleted
    BY <2>1, <2>3 DEF ParkCompleted, TypeOK, DecodeTypeOK
  <2>4. CASE PrepareScheduled \/ PrepareFallback \/ TargetAndAccept
             \/ Propose \/ KeepServing
    BY <2>4 DEF PrepareScheduled, PrepareFallback, TargetAndAccept, Propose,
                KeepServing, decodeVars
  <2>5. CASE AssembleOutput \/ ValidateHostMirrors
             \/ HostCopyStream \/ ScheduleStream
    BY <2>5 DEF AssembleOutput, ValidateHostMirrors, HostCopyStream,
                ScheduleStream, decodeVars, servingVars
  <2> QED
    BY <1>1, <2>2, <2>3, <2>4, <2>5 DEF Next, HostThread
<1> QED
  BY <1>1, Invariance, PTL DEF Spec, ParkedStaysFrozen

\* How far a request is served by a step that emits.
LEMMA ServedGrows ==
  ASSUME IInv, AdvanceState, NEW s \in Slots
  PROVE  /\ Served(s) \in Nat /\ Served(s)' \in Nat
         /\ IF Served(s) = remaining[s] THEN Served(s)' = Served(s)
            ELSE /\ Served(s) < Served(s)'
                 /\ Served(s)' <= Served(s) + Width
                 /\ Served(s)' <= remaining[s]
<1>1. TypeOK /\ phase = "advance" /\ remaining' = remaining
  BY DEF IInv, AdvanceState
<1>2. /\ emitted[s] \in Nat /\ remaining[s] \in Nat /\ Width \in Nat
      /\ committed[s] \in Nat
  BY <1>1, Numbers
<1>3. /\ numSampled'[s] \in 0..Width /\ emitted'[s] = emitted[s] + numSampled'[s]
      /\ s \notin parked => numSampled'[s] # 0
  BY AdvanceCounts
<1>4. s \in parked => emitted[s] >= remaining[s]
  <2> SUFFICES ASSUME s \in parked PROVE emitted[s] >= remaining[s]
    OBVIOUS
  <2>1. committed[s] >= remaining[s]
    BY DEF IInv, ParkingAgrees
  <2>2. Uncommitted(s) \in Nat
    BY <1>1, Numbers DEF Uncommitted, InFlight
  <2>3. committed[s] + Uncommitted(s) = emitted[s]
    BY DEF IInv, MirrorsAddUp
  <2> QED
    BY <1>2, <2>1, <2>2, <2>3
<1>5. /\ Served(s) = IF emitted[s] < remaining[s] THEN emitted[s] ELSE remaining[s]
      /\ Served(s)' = IF emitted'[s] < remaining[s] THEN emitted'[s] ELSE remaining[s]
  BY <1>1 DEF Served
<1> QED
  BY <1>2, <1>3, <1>4, <1>5

\* Every step of the cohort is a step of the contract or invisible to it.
LEMMA ContractStep ==
  ASSUME CopyTimely, IInv, [Next]_vars
  PROVE  [Contract!Next]_(Contract!contractVars)
<1>1. TypeOK /\ IInv'
  BY NextIInv DEF IInv
<1>2. CASE AdvanceState
  <2>1. phase = "advance" /\ UNCHANGED <<initialPosition, remaining, output>>
    BY <1>2 DEF AdvanceState
  <2>2. output = [s \in Slots |-> <<>>]
    BY <2>1 DEF IInv, Tokens
  <2>3. CASE \A s \in Slots : Served(s) = remaining[s]
    BY <1>2, <2>1, <2>3, ServedGrows DEF Contract!contractVars
  <2>4. CASE \E s \in Slots : Served(s) # remaining[s]
    <3>1. PICK t \in Slots : Served(t) # remaining[t]
      BY <2>4
    <3>2. Served(t) < remaining[t]
      BY <1>1, <3>1, Numbers DEF Served
    <3>3. Contract!Cycle
      BY <1>2, <2>1, <2>2, <3>2, ServedGrows DEF Contract!Cycle, Contract!Nothing
    <3> QED
      BY <3>3 DEF Contract!Next
  <2> QED
    BY <2>3, <2>4
<1>3. CASE AssembleOutput
  <2>1. /\ phase = "assemble" /\ parked = Slots
        /\ UNCHANGED <<initialPosition, remaining, emitted>>
        /\ output = [s \in Slots |-> <<>>]
    BY <1>3 DEF IInv, AssembleOutput, ParkingAgrees, decodeVars, Tokens
  <2>2. ASSUME NEW s \in Slots PROVE Served(s) = remaining[s]
    <3>1. committed[s] >= remaining[s] /\ committed[s] + InFlight(s) = emitted[s]
      <4>1. InFlight(s) \in Nat /\ committed[s] \in Nat
        BY <1>1, Numbers DEF InFlight
      <4>2. committed[s] + Uncommitted(s) = emitted[s] /\ Uncommitted(s) = InFlight(s)
        BY <2>1, <4>1 DEF IInv, MirrorsAddUp, Uncommitted
      <4> QED
        BY <2>1, <4>2 DEF IInv, ParkingAgrees
    <3>2. /\ InFlight(s) \in Nat /\ committed[s] \in Nat
          /\ remaining[s] \in Nat /\ emitted[s] \in Nat
      BY <1>1, Numbers DEF InFlight
    <3>3. ~(emitted[s] < remaining[s])
      BY <3>1, <3>2
    <3> QED
      BY <3>3 DEF Served
  <2>3. phase' = "done"
    BY <1>1, <1>3 DEF IInv, AssembleOutput
  <2>4. output' = [s \in Slots |-> [i \in 1..remaining[s] |-> initialPosition[s] + i]]
    <3>1. output' = [s \in Slots |-> output'[s]]
      BY <1>3 DEF AssembleOutput
    <3>2. \A s \in Slots : output'[s] = [i \in 1..remaining[s] |-> initialPosition[s] + i]
      BY <1>1, <2>1, <2>3 DEF IInv, Tokens, OutputIsContinuation
    <3> QED
      BY <3>1, <3>2
  <2>5. Contract!Deliver
    BY <2>1, <2>2, <2>4
       DEF Contract!Deliver, Contract!Nothing, Contract!Exactly, Served
  <2> QED
    BY <2>5 DEF Contract!Next
<1>4. CASE UNCHANGED <<initialPosition, remaining, emitted, output>>
  BY <1>4 DEF Contract!contractVars, Served
<1>5. CASE PrepareScheduled \/ PrepareFallback \/ TargetAndAccept \/ Propose
           \/ KeepServing \/ ParkCompleted
  BY <1>4, <1>5 DEF PrepareScheduled, PrepareFallback, TargetAndAccept, Propose,
                    KeepServing, ParkCompleted, decodeVars
<1>6. CASE ValidateHostMirrors \/ HostCopyStream \/ ScheduleStream
  BY <1>4, <1>6 DEF ValidateHostMirrors, HostCopyStream, ScheduleStream,
                    decodeVars, servingVars
<1>7. CASE UNCHANGED vars
  BY <1>4, <1>7 DEF vars, decodeVars, servingVars
<1> QED
  BY <1>2, <1>3, <1>5, <1>6, <1>7 DEF Next, HostThread

\* The cohort implements the contract of CohortContract, for the safety part:
\* served counts and output refine it step by step.
THEOREM ContractImplemented ==
  ASSUME CopyTimely
  PROVE  Spec => Contract!Spec
<1>1. Init => Contract!Init
  <2> SUFFICES ASSUME Init PROVE Contract!Init
    OBVIOUS
  <2>1. /\ initialPosition \in [Slots -> Nat] /\ remaining \in [Slots -> Nat \ {0}]
        /\ output = [s \in Slots |-> <<>>] /\ emitted = [s \in Slots |-> 0]
    BY ServingAssumption DEF Init, DecodeInit
  <2>2. ASSUME NEW s \in Slots PROVE Served(s) = 0
    <3>1. emitted[s] = 0 /\ remaining[s] \in Nat \ {0}
      BY <2>1
    <3>2. emitted[s] < remaining[s]
      BY <3>1
    <3> QED
      BY <3>1, <3>2 DEF Served
  <2> QED
    BY <2>1, <2>2 DEF Contract!Init, Contract!Nothing
<1>2. IInv /\ [Next]_vars => [Contract!Next]_(Contract!contractVars)
  BY ContractStep
<1> QED
  BY <1>1, <1>2, Invariance, PTL DEF Spec, Contract!Spec
=============================================================================
