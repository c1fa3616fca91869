----------------------------- MODULE SlotRefresh -----------------------------
(***************************************************************************)
(* The refresh of the draft groups' slot mappings in every decode cycle    *)
(* (bootstrap/vllm_dspark_handoff.py, _refresh_draft_context_slots): group *)
(* by group, the blocks of the positions the target has just processed are *)
(* looked up in the group's block table.  In the first cycles each lookup  *)
(* is guarded, at the price of a device synchronization.  Of a table only  *)
(* the negative blocks are kept, its holes; of a mapping, the positions it *)
(* was computed from.                                                      *)
(***************************************************************************)
EXTENDS Integers

CONSTANTS
  Requests,
  GroupCount,
  BlockSize,     \* per group
  Columns,       \* width of each group's block table
  Width,         \* target_tokens_per_request
  Horizon,       \* the cycles that are guarded
  MaxComputed,   \* largest value of num_computed_tokens' dtype
  ParkRewind,    \* two KV blocks, see FixedCohortServing._park_completed
  Positions,     \* the positions at which a request may start
  Budgets,       \* the output tokens it may still produce
  Tables,        \* the sets of holes a block table may have
  Layouts,       \* which mappings may share memory with which tables
  MaxCycle,      \* bound: cycles
  MaxChanges     \* bound: replacements of block tables

Groups == 1..GroupCount
Cells == Requests \X Nat

ASSUME SlotRefreshAssumption ==
  /\ GroupCount \in Nat \ {0}
  /\ BlockSize \in [Groups -> Nat \ {0}] /\ Columns \in [Groups -> Nat \ {0}]
  /\ Width \in Nat \ {0} /\ Horizon \in Nat \ {0}
  /\ MaxComputed \in Nat /\ Width <= MaxComputed
  /\ ParkRewind \in Nat
  /\ Positions \subseteq 0..MaxComputed /\ Budgets \subseteq Nat \ {0}
  /\ Tables \subseteq SUBSET Cells /\ Layouts \subseteq SUBSET (Groups \X Groups)
  /\ MaxCycle \in Nat /\ MaxChanges \in Nat

VARIABLES
  cycle,      \* cycle_index
  origin,     \* the positions at which the cohort started
  position,   \* num_computed_tokens
  remaining,  \* output tokens each request may still produce
  emitted,    \* emitted_token_count
  parked,     \* the requests that have been parked
  holes,      \* the cells of each group's block table with a negative block
  overlaps,   \* <<g, h>>: the mapping of g shares memory with the table of h
  identity,   \* counts what id, address, layout and version tell of a binding
  turn,       \* the group to be refreshed, 0 between two refreshes
  slots,      \* each mapping: "unset", "valid" or "wild"
  raised      \* "no" or the error that has ended the cohort

cohort == <<cycle, origin, position, remaining, emitted, parked>>
tables == <<holes, overlaps, identity>>
vars == <<cohort, tables, turn, slots, raised>>

Init ==
  /\ cycle = 0
  /\ origin \in [Requests -> Positions] /\ position = origin
  /\ remaining \in [Requests -> Budgets]
  /\ emitted = [r \in Requests |-> 0]
  /\ parked = {}
  /\ holes \in [Groups -> Tables]
  /\ overlaps \in Layouts
  /\ identity = [g \in Groups |-> 0]
  /\ turn = 0
  /\ slots = [g \in Groups |-> "unset"]
  /\ raised = "no"

Idle == turn = 0 /\ raised = "no"

(***************************************************************************)
(* The refresh.                                                            *)
(***************************************************************************)
Touched(r) == position[r]..(position[r] + Width - 1)

OutOfRange(g) ==
  \E r \in Requests : \E p \in Touched(r) : p \div BlockSize[g] \notin 0..(Columns[g] - 1)

HitsHole(g) ==
  \E r \in Requests : \E p \in Touched(r) : <<r, p \div BlockSize[g]>> \in holes[g]

BeginRefresh == Idle /\ cycle < MaxCycle /\ turn' = 1 /\ UNCHANGED <<cohort, tables, slots, raised>>

(* The write of a mapping reaches the tables that share its memory, and a  *)
(* version counter, where there is one, sees it.                           *)
WriteMapping(g, content) ==
  /\ slots' = [slots EXCEPT ![g] = content]
  /\ LET shared == {h \in Groups : <<g, h>> \in overlaps}
     IN  \E table \in [shared -> Tables], seen \in SUBSET shared :
           /\ holes' = [h \in Groups |-> IF h \in shared THEN table[h] ELSE holes[h]]
           /\ identity' = [h \in Groups |-> IF h \in seen THEN identity[h] + 1 ELSE identity[h]]
  /\ turn' = turn + 1
  /\ UNCHANGED <<cohort, overlaps, raised>>

RefreshGroup(guard) ==
  /\ turn \in Groups /\ raised = "no"
  /\ \/ /\ guard /\ OutOfRange(turn)
        /\ raised' = "outside" /\ UNCHANGED <<cohort, tables, turn, slots>>
     \/ /\ guard /\ ~OutOfRange(turn) /\ HitsHole(turn)
        /\ raised' = "negative" /\ UNCHANGED <<cohort, tables, turn, slots>>
     \/ /\ ~guard /\ (OutOfRange(turn) \/ HitsHole(turn))
        /\ WriteMapping(turn, "wild")
     \/ /\ ~OutOfRange(turn) /\ ~HitsHole(turn)
        /\ WriteMapping(turn, "valid")

(***************************************************************************)
(* Around the refresh: acceptance, parking and replaced block tables.      *)
(***************************************************************************)

Wrapped(n) == IF n > MaxComputed THEN n - 2 * (MaxComputed + 1) ELSE n

AdvanceState ==
  /\ turn = GroupCount + 1 /\ turn' = 0
  /\ cycle' = cycle + 1
  /\ \E accepted \in [Requests -> 0..Width] :
       /\ \A r \in parked : accepted[r] = 0
       /\ position' = [r \in Requests |-> Wrapped(position[r] + accepted[r])]
       /\ emitted' = [r \in Requests |-> emitted[r] + accepted[r]]
  /\ UNCHANGED <<origin, remaining, parked, tables, slots, raised>>

ParkedPosition(r) ==
  origin[r] + (IF remaining[r] > ParkRewind THEN remaining[r] - ParkRewind ELSE 0)

(* A position that the dtype cannot hold is an error of torch.tensor.      *)
ParkCompleted(r) ==
  /\ Idle /\ r \notin parked /\ emitted[r] >= remaining[r]
  /\ \/ /\ ParkedPosition(r) <= MaxComputed
        /\ parked' = parked \cup {r}
        /\ position' = [position EXCEPT ![r] = ParkedPosition(r)]
        /\ UNCHANGED raised
     \/ /\ ParkedPosition(r) > MaxComputed
        /\ raised' = "overflow" /\ UNCHANGED <<parked, position>>
  /\ UNCHANGED <<cycle, origin, remaining, emitted, tables, turn, slots>>

(* A rebinding, or a write that the table's version counter sees.          *)
ChangeTable(g) ==
  /\ Idle /\ identity[g] < MaxChanges
  /\ identity' = [identity EXCEPT ![g] = @ + 1]
  /\ \E table \in Tables : holes' = [holes EXCEPT ![g] = table]
  /\ UNCHANGED <<cohort, overlaps, turn, slots, raised>>

Surroundings ==
  \/ AdvanceState
  \/ \E r \in Requests : ParkCompleted(r)
  \/ \E g \in Groups : ChangeTable(g)

Next == BeginRefresh \/ RefreshGroup(cycle < Horizon) \/ Surroundings

Spec == Init /\ [][Next]_vars
=============================================================================
