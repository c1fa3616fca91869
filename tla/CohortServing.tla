---------------------------- MODULE CohortServing ----------------------------
(***************************************************************************)
(* One cohort served by FixedCohortServing.run (runtime/fixed_serving.py)  *)
(* on ExtremeDecodeRuntime.step (runtime/extreme_decode.py) with the       *)
(* proposer's Host mirrors.  The Host thread issues one cycle after the    *)
(* other; phase is its place in the cycle.  Main-stream work takes effect  *)
(* when it is issued.  The two side streams take effect later: between     *)
(* their launch and the first wait on their event, at a moment of their    *)
(* own.  The Host only branches on values it has synchronised, so issuing  *)
(* main-stream work eagerly loses no interleaving with the side streams.   *)
(***************************************************************************)
EXTENDS HostMirror, ScheduledMetadata, FiniteSetsExt

CONSTANTS
  BlockSize,     \* tokens of a KV block
  Reserve,       \* EXTREME_RUNTIME_RESERVE_TOKENS
  RemainingSet,  \* output budgets a request may enter the cohort with
  PositionSet,   \* token counts a request may enter the cohort with
  CopyTimely     \* TRUE: a count copy lands before the next cycle's advance

ASSUME ServingAssumption ==
  /\ Slots # {} /\ IsFiniteSet(Slots)
  /\ BlockSize \in Nat \ {0}
  /\ Reserve \in Nat
  /\ RemainingSet \subseteq Nat \ {0}
  /\ PositionSet \subseteq Nat
  /\ CopyTimely \in BOOLEAN

\* Speculation may run past the output limit for the cycle that crosses it,
\* for the cycle that the lagging progress lets through, and for the geometry
\* scheduled behind that one.  Width 8 and blocks of 32 tokens satisfy it.
ASSUME OvershootFitsTwoBlocks == 3 * Width <= 2 * BlockSize + 1

VARIABLES
  phase,            \* where the Host thread is
  cycles,           \* steps completed by run()
  initialPosition,  \* _initial_positions
  remaining,        \* self.remaining
  parked,           \* _parked, as the set of parked slots
  history,          \* staged tokens of each slot, the counted columns of
                    \* token_history in cycle order
  output            \* token_ids of the FixedCohortOutput

servingVars == <<phase, cycles, initialPosition, remaining, parked, history,
                 output>>

vars == <<decodeVars, mirrorVars, scheduleVars, servingVars>>

Phases == {"prepare", "target", "advance", "propose", "serve", "assemble",
           "done", "validated", "failed"}

TypeOK ==
  /\ DecodeTypeOK
  /\ MirrorTypeOK
  /\ ScheduleTypeOK
  /\ phase \in Phases
  /\ cycles \in Nat
  /\ initialPosition \in [Slots -> Nat]
  /\ remaining \in [Slots -> Nat \ {0}]
  /\ parked \in SUBSET Slots
  /\ history \in [Slots -> Seq(Nat \cup {Wrong})]
  /\ output \in [Slots -> Seq(Nat \cup {Wrong})]

\* FixedCohortServing.__init__ refuses a cohort whose KV reservation is short.
Reserved(budget) == \A s \in Slots : budget[s] + 2 * BlockSize <= Reserve

Init ==
  /\ initialPosition \in [Slots -> PositionSet]
  /\ remaining \in [Slots -> RemainingSet]
  /\ Reserved(remaining)
  /\ DecodeInit(initialPosition)
  /\ MirrorInit(initialPosition)
  /\ ScheduleInit(initialPosition)
  /\ phase = "prepare"
  /\ cycles = 0
  /\ parked = {}
  /\ history = [s \in Slots |-> <<>>]
  /\ output = [s \in Slots |-> <<>>]

\* Mutated form: no cycle for the lag of the progress mirror.
MaxCyclesNoLag == Max({remaining[s] : s \in Slots})

MaxCycles == Max({remaining[s] : s \in Slots}) + 1

\* _committed_progress of a runtime whose baseline is zero
Progress(s) == committed[s]

Completed == {s \in Slots : Progress(s) >= remaining[s]}

\* A completed slot is rewound into its own reserved KV blocks.
ParkedPosition(s) ==
  initialPosition[s] +
    (IF remaining[s] > 2 * BlockSize THEN remaining[s] - 2 * BlockSize ELSE 0)

-----------------------------------------------------------------------------
\* ExtremeDecodeRuntime.step

\* The prepared target: scheduled geometry if there is one, else rebuilt.
PrepareScheduled ==
  /\ phase = "prepare"
  /\ CommitScheduled
  /\ phase' = "target"
  /\ UNCHANGED <<numComputed, emitted, active, lastToken, draft, accepted,
                 numSampled, mirrorVars, cycles, initialPosition, remaining,
                 parked, history, output>>

PrepareFallback ==
  /\ phase = "prepare"
  /\ scheduled = "none"
  /\ PrepareTargetInputs
  /\ phase' = "target"
  /\ UNCHANGED <<numComputed, emitted, active, lastToken, draft, accepted,
                 numSampled, mirrorVars, scheduleVars, cycles,
                 initialPosition, remaining, parked, history, output>>

\* The target pass and the greedy acceptance of its argmax.
TargetAndAccept ==
  /\ phase = "target"
  /\ \E counts \in [Slots -> 1..Width] : Accept(counts)
  /\ phase' = "advance"
  /\ UNCHANGED <<numComputed, emitted, active, lastToken, draft, targetIds,
                 targetBase, numSampled, mirrorVars, scheduleVars, cycles,
                 initialPosition, remaining, parked, history, output>>

\* advance_state, then the overlap launch.  Nothing orders the count copy of
\* the previous cycle before advance_state overwrites the buffer it reads:
\* that the copy has landed by then is the code's timing argument CopyTimely.
AdvanceState ==
  /\ phase = "advance"
  /\ CopyTimely => HostCopySynchronized
  /\ Advance
  /\ LaunchOverlap
  /\ phase' = IF mode = "overlap" /\ scheduled # "none"
              THEN "failed" ELSE "propose"
  /\ UNCHANGED <<active, draft, targetIds, targetBase, accepted, mirrorVars,
                 cycles, initialPosition, remaining, parked, history, output>>

\* The proposer, the serial launch and the draft commit.
Propose ==
  /\ phase = "propose"
  /\ CommitAndLaunchHostCopy
  /\ LaunchSerial
  /\ draft' = lastToken
  /\ cycles' = cycles + 1
  /\ phase' = IF mode = "serial" /\ scheduled # "none"
              THEN "failed" ELSE "serve"
  /\ UNCHANGED <<numComputed, emitted, active, lastToken, targetIds,
                 targetBase, accepted, numSampled, initialPosition, remaining,
                 parked, history, output>>

-----------------------------------------------------------------------------
\* FixedCohortServing.run, after each step

\* Mutated form: every cycle is staged at the same history index.
StageInPlace ==
  history' = [s \in Slots |-> SubSeq(accepted[s], 1, numSampled[s])]

\* The acceptance buffer is staged before the next cycle reuses it.
StageHistory ==
  history' = [s \in Slots |->
                history[s] \o SubSeq(accepted[s], 1, numSampled[s])]

\* Mutated form: the first completed slot ends the cohort.
PhaseAfterAnyCompleted ==
  IF Completed # {} THEN "assemble"
  ELSE IF cycles = MaxCycles THEN "failed" ELSE "prepare"

\* The loop breaks when every slot has completed, judged on the progress read
\* before parking; running out of cycles is the RuntimeError of its else.
PhaseAfterServe ==
  IF Completed = Slots THEN "assemble"
  ELSE IF cycles = MaxCycles THEN "failed" ELSE "prepare"

KeepServing ==
  /\ phase = "serve"
  /\ Completed \ parked = {}
  /\ StageHistory
  /\ phase' = PhaseAfterServe
  /\ UNCHANGED <<decodeVars, mirrorVars, scheduleVars, cycles,
                 initialPosition, remaining, parked, output>>

\* _park_completed: drop the scheduled scratch, move the mirrors, rewind the
\* device counts and stop the slots' output.
ParkCompleted ==
  LET parking == Completed \ parked
      position == [s \in Slots |-> ParkedPosition(s)]
  IN  /\ phase = "serve"
      /\ parking # {}
      /\ StageHistory
      /\ InvalidateScheduled
      /\ ParkCompletedSlots(parking, position)
      /\ numComputed' = [s \in Slots |-> IF s \in parking THEN position[s]
                                                          ELSE numComputed[s]]
      /\ active' = [s \in Slots |-> active[s] /\ s \notin parking]
      /\ parked' = parked \cup parking
      /\ phase' = PhaseAfterServe
      /\ UNCHANGED <<emitted, lastToken, draft, targetIds, targetBase,
                     accepted, numSampled, cycles, initialPosition, remaining,
                     output>>

\* The last scheduled scratch has no consumer; the output is cut to length.
AssembleOutput ==
  /\ phase = "assemble"
  /\ InvalidateScheduled
  /\ output' = [s \in Slots |->
       SubSeq(history[s], 1, IF Len(history[s]) < remaining[s]
                             THEN Len(history[s]) ELSE remaining[s])]
  /\ phase' = IF \A s \in Slots : Len(output'[s]) = remaining[s]
              THEN "done" ELSE "failed"
  /\ UNCHANGED <<decodeVars, mirrorVars, cycles, initialPosition, remaining,
                 parked, history>>

\* The caller's post-run gate.
ValidateHostMirrors ==
  /\ phase = "done"
  /\ CommitHostMirrors
  /\ phase' = "validated"
  /\ UNCHANGED <<decodeVars, scheduleVars, cycles, initialPosition, remaining,
                 parked, history, output>>

-----------------------------------------------------------------------------
\* The side streams

HostCopyStream ==
  /\ RunHostCopy
  /\ UNCHANGED <<decodeVars, scheduleVars, servingVars>>

ScheduleStream ==
  /\ RunScheduleStream
  /\ UNCHANGED <<decodeVars, mirrorVars, servingVars>>

HostThread ==
  \/ PrepareScheduled
  \/ PrepareFallback
  \/ TargetAndAccept
  \/ AdvanceState
  \/ Propose
  \/ KeepServing
  \/ ParkCompleted
  \/ AssembleOutput
  \/ ValidateHostMirrors

Next == HostThread \/ HostCopyStream \/ ScheduleStream

\* The Host loop never blocks but on an event, and a device stream runs what
\* was enqueued on it.
Fairness ==
  /\ WF_vars(HostThread)
  /\ WF_vars(HostCopyStream)
  /\ WF_vars(ScheduleStream)

Spec == Init /\ [][Next]_vars
FairSpec == Spec /\ Fairness
=============================================================================
