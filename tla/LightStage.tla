----------------------------- MODULE LightStage -----------------------------
(***************************************************************************)
(* LightStageRecorder (src/runtime/light_stage_observer.py) and the calls  *)
(* that src/scripts/loop081_light_bridge_patch_run655.py adds to decode    *)
(* cycle, serving loop and runner.  A fixed pool of device events is       *)
(* created and recorded once while the service warms up, and then used     *)
(* again by every observed cohort.  A record is only queued on the stream: *)
(* the device executes it later, in order, and `query' asks whether the    *)
(* latest record of an event has been executed.                            *)
(***************************************************************************)
EXTENDS Integers, Sequences

CONSTANTS MaxCycles,     \* cycles the pool has events for; no cohort needs more
          WarmCohorts,   \* cohorts served before the measured arm opens
          Cohorts,       \* bound: cohorts the service gets
          Slots          \* requests of a cohort

LightStageAssumption ==
  /\ MaxCycles \in Nat \ {0} /\ Slots \in Nat \ {0}
  /\ Cohorts \in Nat /\ WarmCohorts \in 0..Cohorts

LABELS == <<"cycle_begin", "target_before", "target_after", "proposer_before", "proposer_after">>
Terminal == MaxCycles * Len(LABELS)     \* the event that ends a cohort, last of the pool
Events == 0..Terminal

VARIABLES stream,      \* events whose records the device has not executed, in order
          generation,  \* generation[e]: how often event e was recorded
          executed,    \* executed[e]: the latest executed record of e and its device time
          now,         \* device time
          recorder,    \* the Host's state of the recorder
          served,      \* cohorts the runner has started
          pc,          \* where the runner is
          cycle,       \* state.cycle_index of the cohort being served
          parked,      \* its parked slots
          packets      \* the exported packets
vars == <<stream, generation, executed, now, recorder, served, pc, cycle, parked, packets>>
device == <<stream, generation, executed, now>>
cohort == <<served, cycle, parked>>

Idle == [active |-> FALSE, cohort |-> WarmCohorts, next |-> 0, terminal |-> -1, classes |-> <<>>]
Warm == [cohort |-> 0, cycle |-> 0]     \* what a warm record, or none, stands for

Init == /\ stream = [k \in 1..(Terminal + 1) |-> [event |-> k - 1, mark |-> Warm]]
        /\ generation = [e \in Events |-> 1]
        /\ executed = [e \in Events |-> [generation |-> 0, mark |-> Warm, time |-> 0]]
        /\ now = 0 /\ recorder = Idle /\ packets = {}
        /\ served = 0 /\ pc = "waiting" /\ cycle = 0 /\ parked = 0

\* The device executes the oldest record.
ExecuteRecord ==
  /\ stream # <<>>
  /\ LET record == Head(stream) IN
     executed' = [executed EXCEPT ![record.event] =
                    [generation |-> @.generation + 1, mark |-> record.mark, time |-> now + 1]]
  /\ stream' = Tail(stream) /\ now' = now + 1
  /\ UNCHANGED <<generation, recorder, cohort, pc, packets>>

Query(e) == executed[e].generation = generation[e]

\* _record: the event gets a new generation, on the stream.
Record(e) ==
  /\ generation' = [generation EXCEPT ![e] = @ + 1]
  /\ stream' = Append(stream, [event |-> e, mark |-> [cohort |-> served, cycle |-> cycle]])
  /\ UNCHANGED <<executed, now>>

Raise == pc' = "raised" /\ UNCHANGED <<device, recorder, cycle, parked, packets>>

\* The arm file is absent: the cohort is served without the recorder.
ServeUnobserved ==
  /\ pc = "waiting" /\ served < Cohorts /\ stream = <<>>
  /\ served' = served + 1
  /\ UNCHANGED <<device, recorder, pc, cycle, parked, packets>>

\* Mutated form: a recorder that is still active begins again.
MayBeginAnyway(c) == c = recorder.cohort + 1 /\ Query(Terminal)
MayBegin(c) == ~recorder.active /\ c = recorder.cohort + 1 /\ Query(Terminal)
BeginCohort ==
  /\ pc = "waiting" /\ served < Cohorts
  /\ served' = served + 1
  /\ \/ /\ MayBegin(served + 1)
        /\ recorder' = [Idle EXCEPT !.active = TRUE, !.cohort = served + 1]
        /\ pc' = "step" /\ cycle' = 0 /\ parked' = 0
        /\ UNCHANGED <<device, packets>>
     \/ ~MayBegin(served + 1) /\ Raise

\* The step marks its stages one after the other; cycle_index counts up after the last.
Stage == recorder.next - cycle * Len(LABELS)
InOrder == recorder.active /\ recorder.terminal = -1 /\ cycle < MaxCycles
           /\ Stage \in 0..(Len(LABELS) - 1)
Mark ==
  /\ pc = "step" /\ UNCHANGED served
  /\ IF InOrder
     THEN /\ Record(recorder.next)
          /\ recorder' = [recorder EXCEPT !.next = @ + 1]
          /\ pc' = IF Stage = Len(LABELS) - 1 THEN "parking" ELSE "step"
          /\ UNCHANGED <<cycle, parked, packets>>
     ELSE Raise

\* The serving loop parks completed slots and reports the cycle's classes; the pool's
\* MaxCycles is at least the serving loop's bound, at which every slot is parked.
LastServedCycle == MaxCycles - 1
ClassFits(after) == recorder.active /\ cycle = Len(recorder.classes) /\ after \in parked..Slots
                    /\ recorder.next >= (cycle + 1) * Len(LABELS)
ClassRow ==
  /\ pc = "parking" /\ UNCHANGED served
  /\ \E after \in parked..Slots :
       /\ cycle >= LastServedCycle => after = Slots
       /\ IF ClassFits(after)
          THEN /\ recorder' = [recorder EXCEPT !.classes = Append(@, [before |-> parked, after |-> after])]
               /\ parked' = after
               /\ \/ after = Slots /\ pc' = "ending" /\ UNCHANGED cycle
                  \/ after < Slots /\ pc' = "step" /\ cycle' = cycle + 1
               /\ UNCHANGED <<device, packets>>
          ELSE Raise

MayEnd == recorder.active /\ recorder.terminal = -1 /\ cycle + 1 = Len(recorder.classes)
          /\ recorder.next = (cycle + 1) * Len(LABELS)
RecordTerminal ==
  /\ pc = "ending" /\ UNCHANGED served
  /\ IF MayEnd
     THEN /\ Record(Terminal)
          /\ recorder' = [recorder EXCEPT !.terminal = cycle]
          /\ pc' = "draining" /\ UNCHANGED <<cycle, parked, packets>>
     ELSE Raise

\* The copy of the cohort's history to the Host waits for the stream.
Drain ==
  /\ pc = "draining" /\ stream = <<>>
  /\ pc' = "exporting" /\ UNCHANGED <<device, recorder, cohort, packets>>

Used == [k \in 1..(recorder.next + 1) |-> IF k <= recorder.next THEN k - 1 ELSE Terminal]
Packet == [cohort |-> served, classes |-> recorder.classes,
           events |-> [k \in DOMAIN Used |-> executed[Used[k]]]]
MayExport == /\ recorder.active /\ recorder.terminal = cycle /\ recorder.cohort = served
             /\ Len(recorder.classes) = cycle + 1 /\ recorder.next = (cycle + 1) * Len(LABELS)
             /\ \A k \in DOMAIN Used : Query(Used[k])
             /\ \A k \in 1..recorder.next : executed[Used[k]].time <= executed[Used[k + 1]].time
Export ==
  /\ pc = "exporting" /\ UNCHANGED served
  /\ IF MayExport
     THEN /\ packets' = packets \union {Packet}
          /\ recorder' = [recorder EXCEPT !.active = FALSE]
          /\ pc' = "waiting" /\ UNCHANGED <<device, cycle, parked>>
     ELSE Raise

\* Something else of the cohort raises; the runner goes on, the recorder stays active.
AbortCohort ==
  /\ pc \in {"step", "parking", "ending", "draining"}
  /\ pc' = "waiting" /\ UNCHANGED <<device, recorder, cohort, packets>>

Next == \/ ExecuteRecord \/ ServeUnobserved \/ BeginCohort \/ Mark \/ ClassRow
        \/ RecordTerminal \/ Drain \/ Export \/ AbortCohort
Spec == Init /\ [][Next]_vars

-----------------------------------------------------------------------------
(***************************************************************************)
(* What an observed cohort may rely on: the pool is quiet when it begins,  *)
(* the recorder does not stop the service once it has begun, and the       *)
(* packet is about this cohort alone.                                      *)
(***************************************************************************)

Marks == [cohort : 0..Cohorts, cycle : 0..(MaxCycles - 1)]

\* Every variable has its type; a cohort never needs a cycle the pool has no events for
\* (MAX_CYCLES against the max_cycles of the serving loop).
TypeOK ==
  /\ stream \in Seq([event : Events, mark : Marks])
  /\ generation \in [Events -> 1..(Cohorts + 1)]
  /\ executed \in [Events -> [generation : 0..(Cohorts + 1), mark : Marks, time : 0..now]]
  /\ now \in Nat /\ served \in 0..Cohorts
  /\ recorder.cohort \in WarmCohorts..Cohorts
  /\ recorder.next \in 0..Terminal /\ recorder.terminal \in -1..(MaxCycles - 1)
  /\ pc \in {"waiting", "step", "parking", "ending", "draining", "exporting", "raised"}
  /\ cycle \in 0..(MaxCycles - 1) /\ parked \in 0..Slots

\* begin_cohort asks for the terminal event only, and nothing waits: still no event of the
\* pool has a record the device has yet to execute, so none is recorded again too early.
PoolQuiet == recorder.active /\ recorder.next = 0 => \A e \in Events : Query(e)

\* Only begin_cohort may refuse (an arm opened too early, a cohort left out, one that was
\* cut short): an observed cohort is never stopped by mark, class_row, terminal or export.
OnlyBeginRaises == pc = "raised" => ~recorder.active \/ recorder.cohort # served

\* A packet is the story of one cohort: every event is that cohort's record, the first
\* five times (cycle + 1) of the pool and then the terminal one, in cycle order and stream
\* order, and its class rows lead from no slot parked to all of them without a gap.
PacketOfOneCohort ==
  \A p \in packets :
    LET cycles == Len(p.classes) IN
    /\ Len(p.events) = cycles * Len(LABELS) + 1
    /\ \A k \in DOMAIN p.events :
         p.events[k].mark = [cohort |-> p.cohort,
                             cycle |-> IF k = Len(p.events) THEN cycles - 1
                                       ELSE (k - 1) \div Len(LABELS)]
    /\ \A k \in 1..(Len(p.events) - 1) : p.events[k].time < p.events[k + 1].time
    /\ p.classes[1].before = 0 /\ p.classes[cycles].after = Slots
    /\ \A c \in 1..(cycles - 1) : p.classes[c].after = p.classes[c + 1].before
=============================================================================
