-------------------------------- MODULE Device --------------------------------
(***************************************************************************)
(* Parts of the fixed program around its device state that share no        *)
(* variables, side by side: a behaviour is one of the paged cache under    *)
(* speculation, of the replayed target, of the target's metadata or of the *)
(* light recorder, while the other three rest in an initial state.  So     *)
(* every property below is the property of one of them.                    *)
(***************************************************************************)
EXTENDS Integers, Sequences

CONSTANTS
  Tokens, K, Pad, Slots, BlockSize, Blocks, BlockTable, Prompt, Budget, MaxLength, Stale,
  Model(_),                                              \* of the speculation
  Pages, Mutable, Tensors, Limit, MaxCycle,              \* of the replay
  BatchSize, Width, TpSizes, GroupRatios, ManagerSize, ManagerTable,
  MaxComputed,                                           \* of the metadata
  MaxCycles, WarmCohorts, Cohorts, NumSlots              \* of the recorder

VARIABLES
  part,     \* the one that moves
  cache, context, numComputed, lastToken, draft, active,
  parity, cycle, step, run, targets, pages, inflight, metadata, snapshot, saved, restoring,
  reads, returned,
  tpSize, computed, bound, scratch, prepared,
  stream, generation, executed, now, recorder, served, pc, stage, parked, packets

speculationVars == <<cache, context, numComputed, lastToken, draft, active>>
replayVars == <<parity, cycle, step, run, targets, pages, inflight, metadata, snapshot,
                saved, restoring, reads, returned>>
metadataVars == <<tpSize, computed, bound, scratch, prepared>>
recorderVars == <<stream, generation, executed, now, recorder, served, pc, stage, parked,
                  packets>>
vars == <<part, speculationVars, replayVars, metadataVars, recorderVars>>

Decode == INSTANCE SpeculativeDecode
Replay == INSTANCE TargetReplay WITH cache <- pages
Metadata == INSTANCE TargetMetadata WITH
  BlockSize <- ManagerSize, BlockTable <- ManagerTable, active <- bound
Recorder == INSTANCE LightStage WITH Slots <- NumSlots, cycle <- stage

ASSUME SpeculationAssumption ==
  /\ Decode!AcceptAssumption /\ Decode!PagedAssumption
  /\ Decode!ModelAssumption /\ Decode!StaleAssumption
ASSUME ReplayAssumption == Replay!TargetReplayAssumption
ASSUME MetadataAssumption == Metadata!TargetMetadataAssumption
ASSUME RecorderAssumption == Recorder!LightStageAssumption

\* What rests does so in one of its initial states.
SpeculationRests ==
  /\ cache = Decode!PrefilledCache(CHOOSE stale \in Stale : TRUE)
  /\ draft = [s \in Slots |-> [i \in 1..K |-> CHOOSE token \in Tokens : TRUE]]
MetadataRests ==
  /\ tpSize = CHOOSE size \in TpSizes : TRUE
  /\ computed = [r \in 0..(BatchSize - 1) |-> 0]

Init ==
  /\ part \in {"speculation", "replay", "metadata", "recorder"}
  /\ Metadata!Init /\ (part # "metadata" => MetadataRests)
  /\ Replay!Init /\ (part # "replay" => ~parity)
  /\ Recorder!Init
  /\ Decode!Init /\ (part # "speculation" => SpeculationRests)

Next ==
  /\ UNCHANGED part
  /\ \/ /\ part = "speculation" /\ Decode!Next
        /\ UNCHANGED <<replayVars, metadataVars, recorderVars>>
     \/ /\ part = "replay" /\ Replay!Next
        /\ UNCHANGED <<speculationVars, metadataVars, recorderVars>>
     \/ /\ part = "metadata" /\ Metadata!Next
        /\ UNCHANGED <<speculationVars, replayVars, recorderVars>>
     \/ /\ part = "recorder" /\ Recorder!Next
        /\ UNCHANGED <<speculationVars, replayVars, metadataVars>>

Spec == Init /\ [][Next]_vars

-----------------------------------------------------------------------------
\* The variables of the part that moves keep their types.
TypeOK ==
  /\ part = "speculation" => Decode!TypeOK
  /\ part = "replay" => Replay!TypeOK
  /\ part = "metadata" => Metadata!TypeOK
  /\ part = "recorder" => Recorder!TypeOK

\* Speculation: every token of the output is the target's greedy choice.
Lossless == part = "speculation" => Decode!Lossless

\* Speculation: the cache of a live slot holds its context.
CacheHoldsContext == part = "speculation" => Decode!CacheHoldsContext

\* Replay: executions that are compared have read the same caches and metadata, each
\* restoration passes its verification and each snapshot is consumed.
ComparesLikeWithLike == part = "replay" => Replay!LikeWithLike /\ Replay!NeverFails

\* Replay: a replayed cycle leaves behind what one execution would have.
LeavesOneExecution == part = "replay" => Replay!LeavesOneExecution

\* Metadata: each token of the cohort is computed by exactly one rank, from the metadata
\* of the pass at hand, and sees exactly the keys up to its own position.
RanksAttendAsOne ==
  part = "metadata" =>
    Metadata!EachTokenOnce /\ Metadata!PreparedIsCurrent /\ Metadata!AttendsCausally

\* Metadata: the audit's manifest has exactly the pages that a pass writes.
ManifestIsExact == part = "metadata" => Metadata!ManifestIsExact

\* Recorder: no record of the pool is outstanding when a cohort begins, an observed cohort
\* is never stopped by its recorder, and a packet is about one cohort, complete and in
\* order.
CohortsKeptApart ==
  part = "recorder" =>
    Recorder!PoolQuiet /\ Recorder!OnlyBeginRaises /\ Recorder!PacketOfOneCohort
=============================================================================
