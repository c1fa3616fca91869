----------------------------- MODULE TargetReplay -----------------------------
(***************************************************************************)
(* Replaying the target from one physical pre-state (diagnostics/target_   *)
(* page_audit.py: observe, execute_with_self_replay, _execute_cp_fork_     *)
(* parity) with the transactional snapshot of the pages it may write       *)
(* (runtime/assets.py: snapshot_pages, CacheSlotSnapshot).  The main stream *)
(* does what the Host has enqueued, in its order; the writes of the        *)
(* overlap stream land later, each at a moment of its own.                 *)
(*                                                                         *)
(* A page holds the cycle and the execution that wrote it, <<0, 0>> at     *)
(* first; so does a metadata tensor, with execution 0 when the cycle has   *)
(* prepared it.                                                            *)
(***************************************************************************)
EXTENDS Naturals, Sequences

CONSTANTS
  Pages,        \* physical pages of the caches
  Mutable,      \* those of the mutable tensors, which are captured whole
  Tensors,      \* the metadata tensors of the target
  Limit,        \* the cycles that are audited
  MaxCycle      \* bound: cycles

TargetReplayAssumption ==
  /\ Mutable \subseteq Pages /\ Limit \in Nat /\ MaxCycle \in Nat \ {0}

Nothing == <<>>

VARIABLES
  parity,     \* EXTREME_CP_FORK_PARITY: five executions, each synchronized
  cycle,      \* cycle_index, from 1
  step,       \* what the Host does next, or the error it has raised
  run,        \* the executions of this cycle so far
  targets,    \* the pages this cycle's target writes and the tensors it changes
  cache,      \* the content of the pages
  inflight,   \* the writes that have not landed
  metadata,   \* the content of the metadata tensors
  snapshot,   \* pending_snapshot: captured content by page, or Nothing
  saved,      \* pending_metadata
  restoring,  \* the rows still to be restored
  reads,      \* what each execution of the cycle has read
  returned    \* the execution whose output the cycle goes on with

pre == <<snapshot, saved>>
vars ==
  <<parity, cycle, step, run, targets, cache, inflight, metadata, pre, restoring, reads, returned>>

Init ==
  /\ parity \in BOOLEAN
  /\ cycle = 1 /\ step = "observe" /\ run = 0
  /\ targets = [pages |-> {}, tensors |-> {}]
  /\ cache = [p \in Pages |-> <<0, 0>>] /\ inflight = {}
  /\ metadata = [t \in Tensors |-> <<1, 0>>]
  /\ snapshot = Nothing /\ saved = Nothing
  /\ restoring = {} /\ reads = <<>> /\ returned = 0

LandWrite ==
  \E write \in inflight :
    /\ cache' = [cache EXCEPT ![write.page] = write.content]
    /\ inflight' = inflight \ {write}
    /\ UNCHANGED <<cycle, step, run, targets, metadata, pre, restoring, reads, returned>>

(* torch.npu.synchronize: the Host waits for every stream.                 *)
Synchronize == inflight = {}

Audited == cycle <= Limit

(***************************************************************************)
(* observe: the manifest and the snapshot.                                 *)
(***************************************************************************)
(* That the target writes nothing outside the manifest is what the         *)
(* classification of its write sources claims.                             *)
TargetsWithin(pages) ==
  \E written \in SUBSET pages, tensors \in SUBSET Tensors :
    targets' = [pages |-> written, tensors |-> tensors]

SkipAudit ==
  /\ step = "observe" /\ ~Audited
  /\ TargetsWithin(Pages)
  /\ step' = "execute"
  /\ UNCHANGED <<cycle, run, cache, inflight, metadata, pre, restoring, reads, returned>>

(* A snapshot that no replay has consumed is an error.                      *)
TakeSnapshot(candidates) ==
  /\ step' = IF snapshot = Nothing THEN "execute" ELSE "unconsumed snapshot"
  /\ snapshot' = IF snapshot = Nothing THEN [p \in candidates |-> cache[p]] ELSE snapshot
  /\ saved' = IF snapshot = Nothing THEN metadata ELSE saved

\* Mutated form: what is still on its way is not waited for.
CaptureAtOnce(candidates) ==
  /\ step = "observe" /\ Audited /\ candidates # {}
  /\ TargetsWithin(candidates) /\ TakeSnapshot(candidates)
  /\ UNCHANGED <<cycle, run, cache, inflight, metadata, restoring, reads, returned>>

Capture(candidates) ==
  /\ step = "observe" /\ Audited /\ candidates # {}
  /\ Synchronize
  /\ TargetsWithin(candidates) /\ TakeSnapshot(candidates)
  /\ UNCHANGED <<cycle, run, cache, inflight, metadata, restoring, reads, returned>>

(* A manifest with a missing, doubled, unknown or out-of-bounds entry, one *)
(* without a page, or one that the compressor operator contradicts.        *)
RejectManifest ==
  /\ step = "observe" /\ Audited
  /\ step' = "manifest rejected"
  /\ UNCHANGED <<cycle, run, targets, cache, inflight, metadata, pre, restoring, reads, returned>>

(***************************************************************************)
(* execute: the target orders its own streams, so that it reads what its   *)
(* earlier passes have written.                                            *)
(***************************************************************************)

LastRun == IF ~Audited THEN 1 ELSE IF parity THEN 5 ELSE 3

Content == <<cycle, run + 1>>

ExecuteTarget ==
  /\ step = "execute" /\ inflight = {}
  /\ reads' = Append(reads, [cache |-> cache, metadata |-> metadata])
  /\ \E late \in SUBSET targets.pages :
       /\ cache' = [p \in Pages |-> IF p \in targets.pages \ late THEN Content ELSE cache[p]]
       /\ inflight' = [page : late, content : {Content}]
  /\ metadata' = [t \in Tensors |-> IF t \in targets.tensors THEN Content ELSE metadata[t]]
  /\ run' = run + 1
  /\ step' = IF Audited /\ parity THEN "synchronize" ELSE "executed"
  /\ UNCHANGED <<cycle, targets, pre, restoring, returned>>

SynchronizeExecution ==
  /\ step = "synchronize" /\ Synchronize
  /\ step' = "executed"
  /\ UNCHANGED <<cycle, run, targets, cache, inflight, metadata, pre, restoring, reads, returned>>

(***************************************************************************)
(* restore, and the verification that follows it.                          *)
(***************************************************************************)

BeginRestore ==
  /\ step = "executed" /\ run < LastRun
  /\ Synchronize
  /\ restoring' = DOMAIN snapshot /\ step' = "restore"
  /\ UNCHANGED <<cycle, run, targets, cache, inflight, metadata, pre, reads, returned>>

RestoreRow ==
  /\ step = "restore"
  /\ \E p \in restoring :
       /\ cache' = [cache EXCEPT ![p] = snapshot[p]]
       /\ restoring' = restoring \ {p}
  /\ UNCHANGED <<cycle, step, run, targets, inflight, metadata, pre, reads, returned>>

RestoreMetadata ==
  /\ step = "restore" /\ restoring = {} /\ Synchronize
  /\ metadata' = saved /\ step' = "verify"
  /\ UNCHANGED <<cycle, run, targets, cache, inflight, pre, restoring, reads, returned>>

VerifyRestored ==
  /\ step = "verify" /\ Synchronize
  /\ step' = IF (\A p \in DOMAIN snapshot : cache[p] = snapshot[p]) /\ metadata = saved
             THEN "execute" ELSE "pre-state not restored"
  /\ UNCHANGED <<cycle, run, targets, cache, inflight, metadata, pre, restoring, reads, returned>>

(***************************************************************************)
(* The output of the last execution goes on.                               *)
(***************************************************************************)
\* Mutated form: the output of the live execution goes on.
ReturnFirst ==
  /\ step = "executed" /\ run = LastRun
  /\ returned' = 1 /\ snapshot' = Nothing /\ saved' = Nothing
  /\ step' = "advance"
  /\ UNCHANGED <<cycle, run, targets, cache, inflight, metadata, restoring, reads>>

ReturnLast ==
  /\ step = "executed" /\ run = LastRun
  /\ returned' = run /\ snapshot' = Nothing /\ saved' = Nothing
  /\ step' = "advance"
  /\ UNCHANGED <<cycle, run, targets, cache, inflight, metadata, restoring, reads>>

(* The rest of the cycle, and the metadata of the next one.                *)
NextCycle ==
  /\ step = "advance" /\ cycle < MaxCycle
  /\ cycle' = cycle + 1 /\ run' = 0 /\ reads' = <<>> /\ step' = "observe"
  /\ metadata' = [t \in Tensors |-> <<cycle + 1, 0>>]
  /\ UNCHANGED <<targets, cache, inflight, pre, restoring, returned>>

Next ==
  /\ UNCHANGED parity
  /\ \/ LandWrite \/ SkipAudit \/ RejectManifest \/ ExecuteTarget \/ SynchronizeExecution
     \/ BeginRestore \/ RestoreRow \/ RestoreMetadata \/ VerifyRestored \/ ReturnLast \/ NextCycle
     \/ \E manifest \in SUBSET Pages : Capture(manifest \cup Mutable)

Spec == Init /\ [][Next]_vars

-----------------------------------------------------------------------------
(***************************************************************************)
(* Properties of the replay of the target.                                 *)
(***************************************************************************)

Executions == 0..(IF parity THEN 5 ELSE 3)

Contents == (0..MaxCycle) \X Executions

\* The variables keep their types; a write that has not landed is of an
\* execution that has begun, and a page has at most one of them.
TypeOK ==
  /\ parity \in BOOLEAN /\ cycle \in 1..MaxCycle /\ run \in Executions /\ returned \in Executions
  /\ step \in {"observe", "manifest rejected", "execute", "synchronize", "executed", "restore",
               "verify", "pre-state not restored", "unconsumed snapshot", "advance"}
  /\ targets \in [pages : SUBSET Pages, tensors : SUBSET Tensors]
  /\ cache \in [Pages -> Contents] /\ metadata \in [Tensors -> Contents]
  /\ inflight \subseteq [page : Pages, content : Contents]
  /\ \A w, x \in inflight : w.page = x.page => w = x
  /\ snapshot = Nothing \/ snapshot \in [DOMAIN snapshot -> Contents]
  /\ saved = Nothing \/ saved \in [Tensors -> Contents]
  /\ restoring \subseteq Pages
  /\ Len(reads) = run

\* The executions that are compared have all read the same caches and the
\* same metadata: what differs between them is the target's doing.
LikeWithLike == \A i, j \in DOMAIN reads : reads[i] = reads[j]

Landed(p) ==
  IF \E w \in inflight : w.page = p
  THEN (CHOOSE w \in inflight : w.page = p).content
  ELSE cache[p]

\* A replayed cycle leaves behind what one execution would have: the pages
\* and tensors that the target writes are those of the execution whose output
\* goes on, and no other page differs from what the first execution read.
LeavesOneExecution ==
  step = "advance" =>
    /\ \A p \in Pages :
         Landed(p) = IF p \in targets.pages THEN <<cycle, returned>> ELSE reads[1].cache[p]
    /\ \A t \in Tensors :
         metadata[t] = IF t \in targets.tensors THEN <<cycle, returned>> ELSE <<cycle, 0>>

\* The pre-state is restored whenever it is verified, and each snapshot is
\* consumed before the next one is taken.
NeverFails == step \notin {"pre-state not restored", "unconsumed snapshot"}
=============================================================================
