------------------------------ MODULE HostMirror ------------------------------
(***************************************************************************)
(* The Host mirrors of the DSpark proposer (bootstrap/vllm_dspark_handoff):*)
(* the accepted counts of a cycle are copied to pinned Host memory on a    *)
(* side stream and added to the mirrors one cycle later, just before the   *)
(* proposer reads them.  The device memory that the copy reads is the      *)
(* num_sampled buffer of FixedDecode, reused by every cycle.               *)
(***************************************************************************)
EXTENDS FixedDecode

VARIABLES
  hostCopy,        \* "idle", or a pending copy: "launched", then "done"
  hostCount,       \* _host_count_copy, the pinned destination
  committed,       \* _committed_emitted_count
  seqLensCpu,      \* the seq_lens_cpu mirrors
  numComputedCpu,  \* the num_computed_tokens_cpu mirrors
  commonSeqLens    \* seq_lens of the proposer's common attention metadata

mirrorVars == <<hostCopy, hostCount, committed, seqLensCpu, numComputedCpu,
                commonSeqLens>>

MirrorTypeOK ==
  /\ hostCopy \in {"idle", "launched", "done"}
  /\ hostCount \in [Slots -> 0..Width]
  /\ committed \in [Slots -> Nat]
  /\ seqLensCpu \in [Slots -> Nat]
  /\ numComputedCpu \in [Slots -> Nat]
  /\ commonSeqLens \in [Slots -> Nat]

\* The bootstrap mirrors describe the first target pass.
MirrorInit(position) ==
  /\ hostCopy = "idle"
  /\ hostCount = [s \in Slots |-> 0]
  /\ committed = [s \in Slots |-> 0]
  /\ seqLensCpu = [s \in Slots |-> position[s] + Width]
  /\ numComputedCpu = position
  /\ commonSeqLens = [s \in Slots |-> position[s] + Width]

-----------------------------------------------------------------------------
\* event.synchronize(): the Host waits until the copy has landed.
HostCopySynchronized == hostCopy # "launched"

\* Mutated form: the last copied count, pending or not.
StaleCount(s) == hostCount[s]

\* What _commit_host_mirrors adds; it returns early when nothing is pending.
PendingCount(s) == IF hostCopy = "done" THEN hostCount[s] ELSE 0

\* _commit_host_mirrors followed, in the proposer, by a new
\* _launch_host_count_copy, and by refresh_fixed_common.
CommitAndLaunchHostCopy ==
  /\ HostCopySynchronized
  /\ committed' = [s \in Slots |-> committed[s] + PendingCount(s)]
  /\ seqLensCpu' = [s \in Slots |-> seqLensCpu[s] + PendingCount(s)]
  /\ numComputedCpu' = [s \in Slots |-> numComputedCpu[s] + PendingCount(s)]
  /\ hostCopy' = "launched"
  /\ commonSeqLens' = [s \in Slots |-> targetBase[s] + Width]
  /\ UNCHANGED hostCount

\* The side stream runs the copy at any moment after the launch.
RunHostCopy ==
  /\ hostCopy = "launched"
  /\ hostCount' = numSampled
  /\ hostCopy' = "done"
  /\ UNCHANGED <<committed, seqLensCpu, numComputedCpu, commonSeqLens>>

\* Mutated form: the mirrors are moved while a count is still pending.
ParkBeforeCommit(parking, position) ==
  /\ seqLensCpu' = [s \in Slots |->
       IF s \in parking THEN position[s] + Width ELSE seqLensCpu[s]]
  /\ numComputedCpu' = [s \in Slots |->
       IF s \in parking THEN position[s] ELSE numComputedCpu[s]]
  /\ UNCHANGED <<hostCopy, hostCount, committed, commonSeqLens>>

\* park_completed_slots: the pending counts are committed for every slot
\* before the mirrors of the parked ones are moved to their new position.
ParkCompletedSlots(parking, position) ==
  /\ HostCopySynchronized
  /\ committed' = [s \in Slots |-> committed[s] + PendingCount(s)]
  /\ seqLensCpu' = [s \in Slots |->
       IF s \in parking THEN position[s] + Width
                        ELSE seqLensCpu[s] + PendingCount(s)]
  /\ numComputedCpu' = [s \in Slots |->
       IF s \in parking THEN position[s]
                        ELSE numComputedCpu[s] + PendingCount(s)]
  /\ hostCopy' = "idle"
  /\ UNCHANGED <<hostCount, commonSeqLens>>

\* validate_host_mirrors commits what is pending and compares.
CommitHostMirrors == ParkCompletedSlots({}, committed)

MirrorsAgree ==
  \A s \in Slots :
    /\ committed[s] = emitted[s]
    /\ seqLensCpu[s] = numComputed[s] + Width
    /\ numComputedCpu[s] = numComputed[s]
=============================================================================
