-------------------------- MODULE ScheduledMetadata --------------------------
(***************************************************************************)
(* Next-target metadata computed ahead of time (runtime/extreme_decode.py).*)
(* In the "overlap" mode a private scratch is filled on a side stream      *)
(* while the proposer runs; in the "serial" mode it is filled after the    *)
(* proposer; "off" rebuilds the geometry in every cycle.  The scratch is   *)
(* committed by the next cycle, or invalidated when a slot is parked.      *)
(***************************************************************************)
EXTENDS FixedDecode

CONSTANT ScheduleModes   \* the EXTREME_SCHEDULE_NEXT_TARGET_METADATA values

ASSUME ModeAssumption == ScheduleModes \subseteq {"off", "serial", "overlap"}

VARIABLES
  mode,         \* _schedule_mode, fixed when the runtime is built
  scheduled,    \* _schedule_pending: "none", or the scratch is "launched"
                \* (its side stream has still to run) or "ready"
  scratchBase   \* geometry held by the scratch, as its base positions

scheduleVars == <<mode, scheduled, scratchBase>>

ScheduleTypeOK ==
  /\ mode \in ScheduleModes
  /\ scheduled \in {"none", "launched", "ready"}
  /\ scratchBase \in [Slots -> Nat]

ScheduleInit(position) ==
  /\ mode \in ScheduleModes
  /\ scheduled = "none"
  /\ scratchBase = position

-----------------------------------------------------------------------------
\* Scheduling on the side stream, at the launch point of the overlap mode.
LaunchOverlap ==
  /\ scheduled' = IF mode = "overlap" THEN "launched" ELSE scheduled
  /\ UNCHANGED <<mode, scratchBase>>

\* Scheduling on the main stream, at the launch point of the serial mode.
LaunchSerial ==
  /\ scheduled' = IF mode = "serial" THEN "ready" ELSE scheduled
  /\ scratchBase' = IF mode = "serial" THEN numComputed ELSE scratchBase
  /\ UNCHANGED mode

\* The side stream reads the counts at any moment after the launch.
RunScheduleStream ==
  /\ scheduled = "launched"
  /\ scratchBase' = numComputed
  /\ scheduled' = "ready"
  /\ UNCHANGED mode

\* Whoever waits for the side stream's event: the main stream before the
\* commit, the Host before an invalidation.
ScheduleSynchronized == scheduled # "launched"

\* _commit_next_target_metadata: geometry from the scratch, fresh token ids.
CommitScheduled ==
  /\ scheduled # "none"
  /\ ScheduleSynchronized
  /\ targetBase' = scratchBase
  /\ PrepareTargetIds
  /\ scheduled' = "none"
  /\ UNCHANGED <<mode, scratchBase>>

\* Mutated form: the scratch survives a parking.
KeepScheduled == ScheduleSynchronized /\ UNCHANGED scheduleVars

\* invalidate_scheduled_metadata: returns early when nothing is pending.
InvalidateScheduled ==
  /\ ScheduleSynchronized
  /\ scheduled' = "none"
  /\ UNCHANGED <<mode, scratchBase>>
=============================================================================
