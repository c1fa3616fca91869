# Verified models of Inference-Foundry

This directory holds TLA+ modules that model the decode runtime of
Inference-Foundry, its diagnostics and guards, its input-token cache, the
ledger of its experiments and the host scripts that run them; the TLC runs that
check them on small instances; and TLAPS proofs that extend the most important
results to every instance. It is meant to be kept beside the code:
`PROJECT.json` ties every definition to the lines it models.

## 1. The system and its parts

Inference-Foundry is a performance-research repository around one product: a
fixed-shape decode runtime for a speculative (DSpark) DeepSeek model. Twelve
requests, a *cohort*, are taken out of the serving framework's scheduler, and
decoded in lock step by a loop that the scheduler does not enter again until
every request has all its tokens. Around it stand a bootstrap that binds the
framework's objects, diagnostics, a ledger of experiments, guarded controllers
that patch and restore an installed framework for one measurement, and tooling
that delegates shell work to an external agent.

| Component | Source | State it keeps | Operations |
|---|---|---|---|
| Fixed decode state machine | `runtime/fixed_decode.py`, `fixed_acceptance.py` | per-slot token counts, last token, draft, active mask, the reused target/acceptance/count buffers | bind, prepare target inputs (ids, geometry), advance |
| Greedy acceptance | `runtime/greedy_accept.py` | none | accept the leading matches of a draft plus one token |
| Extreme decode cycle | `runtime/extreme_decode.py` | schedule mode, pending scratch, events | `step`, launch / commit / invalidate scheduled metadata |
| DSpark handoff | `bootstrap/vllm_dspark_handoff.py` | Host mirrors of lengths and progress, the pending count copy, draft slot mappings | commit mirrors, launch copy, park, validate, refresh slots |
| Fixed cohort serving | `runtime/fixed_serving.py` | remaining budgets, initial positions, parked flags, token history | admission, `run` loop, parking, output assembly |
| Target metadata | `runtime/target_metadata.py` | per-rank geometry, active and prepared ahead | update, make scratch, commit |
| Startup slot certificate | `runtime/startup_slot_certificate.py`, patch run678 | identities of bound tables, next permitted cycle | build once, permit eight cycles |
| Ghost publication ledger | `runtime/ghost_publication.py` | early segments, settled/failed | publish, settle once, fail |
| Runtime assets, page audit | `runtime/assets.py`, `diagnostics/target_page_audit.py` | snapshots of pages and metadata | observe, replay, restore, verify |
| Light stage recorder | `runtime/light_stage_observer.py`, patch run655 | a pool of device events reused by every cohort | begin, mark, class row, terminal, export |
| Input token cache | `serving/input_token_cache.py` | LRU rows, byte count | encode, concurrently |
| Task ledger | `scripts/taskctl.py` | task index, loops, runs, decisions, knowledge, baselines, each a file | about twenty commands |
| Source patches, guarded controllers | `scripts/loop080_mixed_patch_run580.py`, `run_loop080_mixed_run580.sh` | installed sources, backups, manifest, a lock, the service | check, install, restore; serve, measure, stop, clean up |
| Phase runner | `glm5-3/runtime/phase_runner.py` | one record and one log per phase; a child process | `run_phase` |
| Zcode bridge | `glm5-3/scripts/zcode_bridge.py` | job, claim, bridge record and result; a CLI process | run, validate |
| AISBench adapter | `glm5-3/adapters/aisbench/` | phase artifacts, counter snapshots, CSV and JSONL results | rounds of a warmup and a full phase |
| Bootstrap, target adapter, other observers, analysis | the rest of `bootstrap/`, `runtime/`, `diagnostics/`, `scripts/` | one-time bindings, recorded evidence | bind, observe or post-process |

How they interact. `FixedCohortServing.run` calls `ExtremeDecodeRuntime.step`
once per cycle. A step prepares the target's inputs (`FixedDecodeRuntime`),
runs the target model, accepts, advances the device state, and calls the
proposer (the DSpark handoff) for the next draft. The serving loop then stages
the cycle's tokens, reads the proposer's lagged progress mirror and parks the
slots that have reached their limit: it drops scheduled metadata, moves the
Host mirrors and rewinds the device counts. There is one Host thread; it issues
work to a main device stream, and two side streams run on their own: one copies
each cycle's accepted counts to Host memory, one (in the `overlap` mode)
computes the geometry of the next target pass.

What is hard here, and what makes each part correct:

- *Side streams.* The Host launches work whose sources and destinations are
  buffers that the next cycle reuses. Correct: whoever reads a side stream's
  result gets the result of the cycle it believes in.
- *Lag.* The progress that the loop acts on is one cycle old, so slots run past
  their limits. Correct: never out of the KV blocks reserved for them, and the
  loop bound and the output account for it.
- *Parking.* A finished slot keeps executing at a rewound position while Host
  mirrors, device counts, a pending count copy and a scheduled scratch all
  still describe the position it had. Correct: all of them move together.
- *Speculation.* Rejected tokens leave KV behind. Correct: the output is what
  the target alone would have produced.
- *Token cache.* Renderer threads choose, read and fill a cache in separate lock
  sections, while the tokenizer may be replaced. Correct: a call returns its own
  tokens, and the cache's accounts stay exact and bounded.
- *Ledger.* A command writes several files, each atomically, one after the
  other, and may be refused or cut short in between; commands name a loop by its
  directory, whatever the index says of it. Correct: no loop is forgotten or
  settled twice, and knowledge, baselines and evidence level follow from final
  decisions.
- *Shortcuts of the cycle.* Metadata prepared ahead, a certificate that replaces
  device guards, an audit that runs the target several times on one cache, a
  recorder whose events are used again. Correct: each is indistinguishable from
  the plain cycle, and stale ones are refused.
- *Early answers.* A reply that was sent cannot be taken back. Correct: one
  answer per request, and the settlement agrees with it.
- *Host scripts.* Child processes that ignore SIGTERM, descendants that keep
  stdout, kills between two writes, services that restart or outlive their
  controller. Correct: no success without its evidence, no command started
  twice, no source changed under a service that runs, and every supervised run
  comes to an end.

## 2. Modules

| Module | Models | Role |
|---|---|---|
| `FixedDecode`, `HostMirror`, `ScheduledMetadata` | `fixed_decode.py`, `fixed_acceptance.py`; `vllm_dspark_handoff.py`; the scheduling part of `extreme_decode.py` | device state; mirrors, count copy, gate; scratch and its side stream |
| `CohortServing` | `fixed_serving.py` and `ExtremeDecodeRuntime.step` | composes the three; the specification |
| `CohortContract` | what the control plane relies on | abstract specification |
| `CohortProperties`, `CohortInvariant`, `CohortServingProofs` | | properties and refinement mapping; inductive invariant; TLAPS proofs |
| `GreedyAccept`, `SpeculativeDecode` | `greedy_accept.py`; `run_cycle` over a paged KV cache | why speculation is lossless |
| `TargetMetadata` | `target_metadata.py`, `_table_pages` of the audit | rank slices and metadata, active and prepared; properties |
| `TargetReplay` | `target_page_audit.py`, `assets.py` | replay of the target from one pre-state; properties |
| `LightStage` | `light_stage_observer.py`, patch run655 | the event pool across cohorts; properties |
| `SlotRefresh` | `_refresh_draft_context_slots`, `advance_state`, parking | the guarded refresh: abstract specification |
| `StartupCertificate` | `startup_slot_certificate.py`, patch run678 | the refresh with the certificate |
| `StartupCertificateProperties`, `StartupCertificateProofs` | | properties, refinement; TLAPS proofs |
| `GhostPublication`, `ReplyContract` | `ghost_publication.py` | the ledger with its environment; what clients rely on |
| `GhostPublicationProperties`, `GhostPublicationProofs` | | properties, refinement mapping; TLAPS proofs |
| `TaskLedger`, `TaskHistory` | `scripts/taskctl.py` | each command as its writes, crashes; the abstract history |
| `TaskLedgerProperties`, `TaskLedgerInvariant`, `TaskLedgerProofs` | | properties, refinement mapping, claims that fail; inductive invariants; TLAPS proofs |
| `TokenCache`, `TokenCacheProperties`, `TokenCacheProofs` | `serving/input_token_cache.py` | a step per lock section; properties; TLAPS proofs |
| `PhaseRunner`, `PhaseRunnerProperties`, `PhaseRunnerProofs` | `phase_runner.py` | `run_phase` by statements with child, descendants, clock, signals; TLAPS proofs |
| `ZcodeBridge` | `zcode_bridge.py` | run and validate with crashes, timeouts, late agents; properties |
| `PrefixBench` | `prefix_bench.py`, `hit_rate_collector.py`, `result_writer.py` | rounds, counters, result files, kills; properties |
| `SourcePatch`, `GuardedRun` | patch script and controller of run580 | commands that check, install, restore; the run around them; properties |
| `Device`, `DeviceProofs` | | the parts around the device state, side by side, and their properties, see below; TLAPS proofs |
| `HostScripts`, `HostScriptsProofs` | | the same for the scripts of the Host |
| `MCDevice`, `MCHostScripts`, `MCTaskLedger`, `MCTokenCache`, `MCPhaseRunner`, `MCStartupCertificate` | | instances for TLC |

The two unions. `Device` puts `SpeculativeDecode`, `TargetReplay`,
`TargetMetadata` and `LightStage` side by side, `HostScripts` does so with
`ZcodeBridge`, `PrefixBench`, `GuardedRun` and `PhaseRunner`. These components
share no variable, so an interleaving of two of them shows nothing that each
alone does not. A variable `part` therefore says, from the initial state on, which
of them moves; the others rest in an initial state. The states of a union are
the sum of its parts' states, each property is one part's, and the mutant of each
property is in that part. Both unions are parameterised by the constants of their
parts and ASSUME the parts' assumptions (`TargetReplayAssumption` and so on) for
them; the proofs are about the unions as they are run.

### Correspondence to the code

`CohortServing` has one action per step of the Host thread, and `phase` is the
place of that thread:

| Action | Code |
|---|---|
| `PrepareScheduled`, `PrepareFallback` | `step`: commit the scheduled geometry, or rebuild it |
| `TargetAndAccept` | target forward, logits, greedy acceptance: any count in `1..Width` for every slot, parked ones too |
| `AdvanceState` | `advance_state`, then the overlap launch (a RuntimeError if a scratch is still pending) |
| `Propose` | `_execute`: commit mirrors, launch the count copy, refresh the common metadata; serial launch; draft commit |
| `KeepServing`, `ParkCompleted` | `run` after `step`: staging, progress, `_park_completed`, the break and the `else` |
| `AssembleOutput` | draining the last scratch and building `token_ids`, with its completeness check |
| `ValidateHostMirrors` | the post-run gate |
| `HostCopyStream`, `ScheduleStream` | the two side streams, at any moment after their launch |

Abstractions. A token is named by the position that its own request's greedy
continuation gives it, and `Wrong` is any other; so "the output is right" is an
equation on positions, and a target pass on stale inputs yields `Wrong`.
`Grounded` says when a pass is right: the last token sits at the position it
belongs to, and the draft that is judged is the draft that was submitted. A
draft is named by the token it follows. Sequence lengths, slot mappings and
attention metadata are functions of the base position and are represented by
it. Main-stream work takes effect when it is issued: the Host branches only on
values it has synchronised, so nothing the side streams could observe is lost;
the one thing that issue order does hide, a count copy so late that the next
cycle's `advance_state` overtakes it, is modelled by allowing `AdvanceState`
while the copy is still pending. The runtime is built afresh for each cohort,
so the progress baseline is zero. Statistics, profiling scopes and event
recorders change no decode state and are left out, as is the mirrorless CPU
path that only the unit tests use.

`SpeculativeDecode` is the complement: tokens have values, the KV cache has
physical blocks reached through a block table, the target is a function of what
the cache holds, and the draft model may propose anything. It works in
main-stream order, because `TargetInputsCurrent` has already shown that every
pass sees current inputs.

`TaskLedger` has one variable per file, or per field where the commands treat
fields apart (`index.json` is four, `state.json` three), and `op` is the command
under way: the file it writes next and its arguments. A command's first
action makes all its checks and its first write; each later write is an action
of its own.

| Command | Actions |
|---|---|
| `init-task`, `add-case` | `Init`, `AddCase` |
| `new-loop` | `NewLoop` (directory), `WriteLoopState`, `WriteLoopDecision`, `WriteLoopDelta`, `WriteLoopInIndex`, `WriteLoopStatus` |
| `new-run` | `NewRun` (manifest), `WriteRunState`, `WriteLoopStatus` |
| `finish-run` | `FinishRun` (manifest), `WriteResult`, `WriteResultState`, `WriteLoopStatus` |
| `compare` | `Compare` |
| `stage-knowledge`, `stage-baseline` | `StageKnowledge`, `StageBaseline`, each followed by `WriteLoopStatus` |
| `verdict` | `DecideLoop` (decision), `WriteVerdictState` (and the checks that follow it), `WriteKnowledge`, `WriteBaselines` (`apply_knowledge_delta`), `WriteLoopIndex`, `WriteVerdictInIndex`, `WriteLoopStatus` |
| `compact`, `close-task` | `Compact`, `CloseTask` |
| interruption | `Crash`: the rest of the command's writes do not happen |

Commands do not overlap: the tool takes no lock, and the task has one
coordinator that issues them one after the other. What a command line may say
is free where the code does not check it, so the comparability, goal and gate
arguments, which only make `verdict` and `close-task` refuse, are part of the
choice whether the command is issued at all; `--update-baseline` is kept,
because it is refused late. An outcome keeps its status, its correctness and
whether it has a metric; names and units of metrics, texts, `replaced_by` and
the derived files (journals, events, reports, resume pack, the task's status)
are left out. Of a loop's `status.md` it is kept whether it exists (`rendered`),
because `validate` asks for it. The directory and the manifest of a run count as
one write, and so do a loop's directory, mode and cases. `crashes` is the
sequence of the loops whose command was cut short.

Two files that `validate` requires are written last, and a crash before them is
reported by it. `new-loop` writes `index.json` (`taskctl.py:713`) and then the
loop's `status.md` (714), which the next command of that loop writes again.
`finish-run` records the manifest (833) and then `result.json` (834), which no
command writes later. `LedgerValidates` therefore has two parts. `DataValidates`
is what `validate` checks of the data of index, loops and baselines, and holds
after every write and every crash. `LateFiles` says that the two gaps are the only
ones: unless a command of that loop was cut short, a missing status or result is
the very next write, and after one crash a status is missing only of a loop
without runs, or while the loop's next command is on its way to write it. What
`validate` requires beside these is in `BaselinesProven` (the run behind a
baseline exists) or left out with its data: the texts that `new-loop` writes before
the index, case groups, kinds of knowledge, well-formed lines. A crash falls
between two writes, never inside one: `atomic_text` renames, and that an appended
line is not torn is assumed. `init-task` is the initial state, so a crash inside it
is not modelled.

`TokenCache` has a step per lock section of `cached_tokenize_prompt` and
`encode`, and one for what lies between two of them; `calls[t]` is the place and
the local variables of thread `t`.

| Action | Code |
|---|---|
| `Start`, `SelectCache` | `get_tokenizer`; under `_init_lock`, the renderer's cache or a new one |
| `LookUp` | the first section of `encode`: `move_to_end` and the row, or a miss |
| `Tokenize`, `TokenizeFails` | the tokenizer call without a lock, and the test that the row can fit |
| `Insert` | the second section: another thread's row, or the new row and the eviction loop |
| `Finish` | `_build_tokens_prompt` |
| `ReplaceTokenizer` | external: `get_tokenizer` returns another object from now on |

A key is a text with its options, tokens are named by tokenizer and key, and a
row's cost is given by its key. Rows are kept in the order of the `OrderedDict`,
and a cache that the renderer has dropped is still used by the calls that chose
it. Prompts that bypass the cache are left out.

`SlotRefresh` and `StartupCertificate` follow one refresh after the other, group
by group. Of a block table only its negative blocks (holes) are kept, of a
mapping whether it was computed from valid lookups.

| Action | Code |
|---|---|
| `BeginRefresh`, `RefreshGroup` | `_refresh_draft_context_slots` with its two guards |
| `AdvanceState`, `ParkCompleted` | positions move by `1..Width` or are rewound (wrapping at the integer's width) |
| `ChangeTable` | external: the framework rebinds or rewrites a table |
| `BuildCertificate`, `Permit`, `Refuse` | `build`, the outcomes of `permits` |
| `BeginCertifiedRefresh` | the patched refresh: guards within the horizon unless the certificate permits |

A write that reaches a table's memory through an alias may or may not be seen by a
version counter; a framework that rewrites a table in place without a version
counter is excluded: "read-only table ownership is the primary invariant", says
the code. Cycles are not skipped: the
runtime has no path on which a cycle runs without its refresh.

`GhostPublication` has `Publish`, `SettleOnce`, `FailContinuation` with the
ledger's refusals as guards, and external `AppendToken` and `SendRows`. The
scheduler ends every request at its limit, so it settles with outputs of exactly
the remaining length, whose tokens may be any (`Settlements`); that the ledger
then refuses what contradicts an early answer is the point.

`TargetMetadata` updates or prepares the ranks, advances and parks. The kernels
of the sparse operators are external; what they make of a rank's metadata
(`RowIn`, `KeysSeen`) is their reference definition. `TargetReplay` keeps of a
page which cycle and execution wrote it. Writes of the overlap stream land at a
moment of their own; an execution starts when the earlier ones have landed,
because the target orders its own streams. Aliases of storage are reduced to
pages. `LightStage` queues event records; the device executes them in order and
later. `begin_cohort`, `mark`, `class_row`, `terminal` and the export raise where
the code does.

`PhaseRunner` is `run_phase` statement by statement; signals, the clock, the
child and whoever holds its stdout move in between. `concurrent`, fixed
initially, says whether the calls may overlap. Any write, callback or start of
the child may fail (`StepFails` and the second disjuncts of the steps). `sigint`
says what SIGINT does to a call: it "raises" KeyboardInterrupt until
`InstallHandlers`, has "raised" it, or is "noted" by the handler. Before that it
may strike in the try block (`KeyboardInterrupt`), inside `Popen` too, where the
child has been started and the call never gets to know it (child "lost"), and
again in the `except` handler (`EscapeHandler`): the interrupted `stop_child()`
(`phase_runner.py:93-100`, called at 148) is not resumed, `finally` publishes the
record, and the call ends by the exception ("raised") with its child running.
`EndedChildStopped` has this exception and no other. In the `finally` block, with
the old handlers back, a signal or a failed write may also keep the record from
being published; the child is stopped by then. That the calls of `stop_child()`
themselves succeed (the runner may signal its child and wait for it) is assumed.
`ZcodeBridge` has the claim, the
records, the wait with its timeout, TERM, grace and KILL, and the judgement by
`run` and by a later `validate`. Its results are documents of a small set, valid
and invalid in one field each.

`PrefixBench`: what a phase's command does is reduced to how `run_phase` ends;
one endpoint and one engine stand for all; a row is named by invocation, round
and phase. `GuardedRun`: one patch command per run at a time; the lock's
descriptor is inherited by that command; the service reads the sources when it
starts. A restore by hand is issued only when no controller holds the lock: the
command does not take it, so this is assumed of operators.

Operators whose comment begins with "Mutated form" are mutation tests: each is
a plausible mistake in the definition that follows it, and the run that checks
the listed property fails when it is put in that definition's place.

### Assumptions on constants

- `OvershootFitsTwoBlocks`: `3 * Width <= 2 * BlockSize + 1`. The code reserves
  `remaining + 2 * block_size` and says the final target "may cross the exact
  output boundary by seven positions". The worst case is larger: a slot crosses
  its limit (up to `Width - 1`), is given one more cycle by the lag (`Width`),
  and has the geometry of another one scheduled (`Width`). With width 8 and
  blocks of 32 or more tokens all of it fits; the assumption says what has to
  stay true if either changes. The third width is needed by the overlap and
  serial modes only.
- `CopyTimely`: see the copy race below.

- `PagedAssumption`: the block tables of two slots share no block, and a prompt
  ends within the length that its slot may have; the framework's reservation
  gives both.
- `ModelAssumption`: the target, external, maps every context that occurs to a
  token. `StaleAssumption`: what the cache held before is tokens, any tokens.
- `TargetMetadataAssumption`: a row of the block table covers the positions of a
  pass, and compression ratios are positive; the table's rows are as long as the
  context limit in the code.
- `ZcodeBridgeAssumption`: calls of `run` and of `validate` are different calls,
  and none of them is the value that stands for a missing file.
- `SlotRefreshAssumption`, `GhostAssumption`, `PhaseRunnerAssumption`,
  `TargetReplayAssumption`, `LightStageAssumption`, `PrefixBenchAssumption`,
  `SourcePatchAssumption` and their like state the types of the constants only: at
  least one cycle, source, round or slot, and warm-up cohorts that are among the
  cohorts.

## 3. Runs

| Run | Checks | Instance |
|---|---|---|
| `cohort` | `TargetInputsCurrent`, `DraftSeesOneTargetPass`, `ProgressLagsOneCycle`, `WithinReservation`, `NeverFails`, `CohortCompletes`, `ImplementsContract` | 2 slots, width 3, blocks of 4, budgets 2 and 9, all modes; about 855,000 states |
| `device` | `TypeOK`, `Lossless`, `CacheHoldsContext`, `ComparesLikeWithLike`, `LeavesOneExecution`, `RanksAttendAsOne`, `ManifestIsExact`, `CohortsKeptApart` | see below; about 162,000 states |
| `host_scripts` | `TypeOK`, `CliUnderControl`, `ValidMeansCleanExit`, `RowsAreComplete`, `PatchesAreWhole`, `EveryRunEnds`, `RowsEarned`, `NoChangeUnderService`, `SuccessMeansRestored` | see below; about 274,000 states |
| `ledger` | `IndexAgrees`, `BaselinesProven`, `KnowledgeFromDecidedLoops`, `ReplacementsResolvable`, `TaskHistorySpec` | 2 loops, 1 case, 1 run id, 2 knowledge ids of which one is replaced, good and bad outcomes, accepted and inconclusive verdicts, one crash; about 2,266,000 states up to symmetry |
| `ledger_evidence` | `EvidenceBacked` | 3 loops, baseline and optimization, benchmark and profile runs; about 428,000 states |
| `token_cache` | `OwnTokens`, `CachesSound`, `InsertedRowStays` | 2 threads, 4 keys, 2 tokenizers, 3 caches of at most 2 rows and 3 units; about 407,000 states |
| `phase_runner` | `SuccessIsGenuine`, `ChildSupervised`, `RecordNotOverwritten` | 2 calls, at once or one after the other, 1 block of output; about 3,679,000 states up to symmetry |
| `ghost_publication` | `AnsweredOnce`, `KeepsContract` | 2 requests, 2 tokens, limit 2, one surplus token |
| `startup_certificate` | `UsedThroughout`, `KeepsGuards` | 2 requests, 2 groups with blocks of 2 and 1, horizon 2, 3 cycles, one change of a table |
| `cohort_copy_race` | `ProgressLagsOneCycle`, violated | 1 slot, width 2, `CopyTimely` false |
| `ledger_ended_loop` | `EndedLoopIsFrozen`, violated | 2 loops, 2 run ids, no crash |
| `ledger_refused_verdict` | `RestingActiveLoopIsPending`, violated | the same |

What they show.

- *cohort.* Whatever the acceptance counts are and whenever the side streams
  run, every target pass uses current geometry and tokens, the proposer sees one
  consistent pass, progress is exactly one cycle old and no KV write leaves the
  reservation. The cohort is always served to the end, and what the control plane
  sees is the contract: one to `Width` tokens per unfinished request and cycle,
  then one delivery with exactly the requested tokens. The remaining invariants
  of `CohortProperties` (types, output, gate, parked slots) are proved.
- *device.* Speculation: every accepted token is the target's greedy choice after
  all tokens before it, and the cache of a live slot holds its context exactly,
  with any drafts, rejected KV left behind and parked slots that keep writing.
  Replay: executions that are compared have read the same caches and metadata
  although writes land late, and the cycle goes on with the cache of the
  execution whose output it returns. Metadata: for 1, 2 and 4 ranks and
  compression ratios 1, 2 and 4, every token is computed by one rank, from the
  metadata of the pass at hand, and sees exactly the keys before it; the page
  manifest is what the pass writes. Recorder: the pool is quiet when a cohort
  begins, the recorder stops nobody afterwards, and a packet holds the times of
  one cohort, in order.
- *host_scripts.* Bridge: one CLI per job, stopped before a run answers that it
  timed out, and VALID only for a result of a CLI that exited 0 unprompted, also
  when its agents write later. Benchmark: over two invocations of up to two
  rounds with restarts and kills, hits are served hits or are refused, each row
  is earned by a phase that succeeded, and exit 0 means that every phase is in
  both files. Guarded run: patched sources have their backups, a service runs its
  own run's patch, no source changes under it, and success means restored.
  Every run of the bridge and every phase comes to an end.
- *ledger.* At whatever write a command is cut short, the data pass the checks of
  `validate`, and of its required files only a new loop's `status.md` and the
  result of a recorded run can be missing, by a command of that loop cut short
  before it; an undecided loop of the task is the active one, every baseline
  has a good run of an accepted loop behind it, the loop index, appended to by
  `verdict` and rebuilt by `compact`, lists the closed loops once each with their
  decisions, knowledge carries a final decision, and a replacement staged earlier
  never meets an unknown id. To a reader of the index a verdict is one step: the
  ledger implements `TaskHistory`.
- *ledger_evidence.* E2, E3 and E4 of `index.json` cannot be reached by an order
  of loops that lacks the accepted loop, comparison or profile they stand for.
- *token_cache.* Two calls that miss on one key, hit, insert and evict in any
  order while the tokenizer is replaced: every call returns its own tokens, each
  cache counts exactly the bytes of its rows, and a row too large to be kept
  evicts none.
- *phase_runner.* However calls on one phase race, crash, are signalled, time
  out or are left with descendants that hold stdout: one of them starts a child,
  none that comes back leaves it running unless SIGINT interrupted it before its
  handlers were installed, and `succeeded` is recorded only for a child that
  exited 0 unprompted and whose output is complete in the log.
- *ghost_publication.* No request is answered twice, and the settlement agrees
  with what was answered early, or is refused.
- *startup_certificate.* A refresh without guards is always one whose guards
  would have passed; and an eligible certificate spares all of them.
- *cohort_copy_race* (finding). `_launch_host_count_copy` makes the copy stream
  wait for the main stream, but nothing makes the main stream wait for the copy
  before the next `advance_state` overwrites `num_sampled`. If the copy is delayed
  past that point, the mirror is given the next cycle's counts. The comments rely
  on "hundreds of milliseconds" of target pass, and `ACHIEVABLE_BOUND.md` measures
  a margin of 53 ms which it calls "local instrumented normal-path slack" and no
  "universal source-level happens-before proof"; every other cohort result here
  holds under that timing argument, `CopyTimely = TRUE`.
- *ledger_ended_loop* (finding). `INCONCLUSIVE` is missing among the ended
  states, so such a loop still takes runs and changes, even after `close-task`.
- *ledger_refused_verdict* (finding). A verdict refused for
  `--update-baseline` has written its decision: the task can then neither decide
  the loop again, nor open another, nor be closed. A crash in `verdict` after
  the decision leads to the same state; the run needs none.

Seen while modelling, and expressed by the limits of the properties above rather
than by runs of their own:

- `finish-run` does not ask whether the loop has ended: a run open at the verdict
  may fail afterwards, in an accepted loop. Such a result, late and beside the run
  that the verdict judged, needs two runs in a loop that is accepted; the passing
  ledger runs have one run id, so that `BaselinesProven` and `EvidenceBacked` keep
  holding then is proved (section 4) and not model-checked.
- A crash of `new-loop` after the index, or of `finish-run` after the manifest,
  leaves a task that `validate` rejects (`LateFiles`); nothing can complete the
  run (`finish-run` refuses it), the loop's next command mends the status.
- A second SIGINT of `run_phase`, or a first one after a failed record write,
  escapes from `stop_child()` while the handlers are not installed yet: the record
  says `starting` or `running`, and the child runs on (`EndedChildStopped`).
- Of two calls of `run_phase` at once, the one that loses the exclusive log has
  already replaced the other's record (`RecordNotOverwritten` is stated for calls
  one after the other).
- `execute_aisbench_phase` names its artifacts by phase only, so that a second
  round in one directory is always refused before its warmup.
- `write_csv` truncates the file before it writes it again; a kill in between
  loses the earlier rows (`JsonlInCsv` is stated for a file with rows).
- A killed patch command leaves its `.run580.tmp` file, and every later restore
  refuses until somebody removes it (`PatchedIsRecoverable` speaks of the
  backups).
- The patch command takes no lock: a restore by hand beside a controller may
  overwrite that run's patch.

Bounds, and why they are enough. Two slots are the least at which one is parked
while the other runs, and slots interact only through the cohort's loop bound
and completion test. The budgets include one below two blocks (the rewind is
clamped at the handoff position) and one above that several cycles are needed
for. Width 3 makes partial acceptance, full acceptance and a single token
different; the overshoot bound is tight for the chosen block sizes
(`3 * 3 = 2 * 4 + 1`). Deadlock is not checked: the cohort stops after its gate,
and that it does not stop earlier is `CohortCompletes`.

In `device`, speculation has 2 slots, 2 draft tokens over a binary vocabulary,
blocks of 2 and contexts up to 5, so that several cycles cross block boundaries
after a rejection; replay has 2 audited cycles and 1 plain one, two ordinary pages
and one captured whole, two metadata tensors, self replay and parity replay;
metadata has 2 requests of width 3, which 4 ranks cut unevenly and within
requests, up to 4 tokens computed before a pass and blocks of 2; the recorder has a pool of 3 cycles,
one warm-up cohort and 3 cohorts, so that events are reused. In `host_scripts`,
two bridges and a validator share a directory; two invocations of up to two
rounds let artifacts of one meet the other; two controllers with patches of two
sources each are the least at which an install is half done and another run
follows; one call of `run_phase` is enough for its liveness, two are in
`phase_runner`. `MaxQueries`, `MaxBlocks`, `MaxInvocations`, `MaxRounds`,
`MaxCycle`, `MaxChanges`, `MaxComputed`, `Cohorts`, `Surplus` and `MaxCrashes` are
the bounds. All of these systems may stop, so deadlock is checked for the token
cache only.

For the ledger two loops are the least at which one inherits knowledge,
baselines and an index from another, and the third of `ledger_evidence` is what
E4 needs (baseline, profiled, iterated). A crash leaves its loop as it is for
good, so that a second crash adds nothing but another such loop; one crash
between every two writes, followed by every command, covers the cases. Knowledge
ids play no part in evidence levels, which depend on modes and kinds only.
`REJECTED` and `PIVOTED` are treated like `INCONCLUSIVE` in what they reduce, and
are left to the proofs. `Scopes`, `Issued` and `Replaceable` are further bounds;
loops and run ids are symmetric.

For the token cache, the costs 1 to 4 against a bound of 3 give a pair that fits,
pairs that do not, a row that fills the cache alone and one that never fits, and
two rows with cheap keys meet the bound on entries. Two tokenizers and three
caches let the renderer go away from a tokenizer and come back to it, with a
call still at the first cache; `Caches` is the bound on such changes.

For the certificate, a horizon of 2 of 3 cycles has a certified, a last
certified and a guarded cycle; positions and budgets put a request at the end of
its table and of the integer, and the layouts let a mapping overwrite its own or
another group's table.

Fairness. `WF` on the cohort's Host thread: it is a loop that blocks on nothing but
events of the side streams. `WF` on each side stream: a device stream runs what
was enqueued on it. No fairness is assumed for acceptance counts; a cohort that
always gets one token per cycle still completes. For bridge and phase runner `WF`
on the supervisor's own steps (its process is scheduled), on the clock (timeouts
and seconds pass) and on the delivery of SIGKILL by the kernel; nothing is
assumed of the child, the CLI or their descendants. The ledger is driven by its
coordinator, the controllers by operators, caches and recorder by their callers:
no fairness, and no liveness property.

## 4. Proofs

`CohortServingProofs` proves, for every finite set of slots, every width, block
size, reservation, budget and position that satisfies the assumptions, and
under `CopyTimely`:

| Theorem | Statement |
|---|---|
| `Invariance` | `Spec => []IInv` |
| `TypeCorrect` ... `GatePasses` | `Spec => []P` for each state predicate of `CohortProperties`: those that `cohort` checks, and the types, the output, the gate and the parked slots |
| `ParkedFrozen` | `Spec => ParkedStaysFrozen` |
| `ContractImplemented` | `Spec => Contract!Spec`: the safety part of `ImplementsContract` |

The argument. None of the properties is inductive: that the progress lags by
one cycle depends on which cycle's counts the pending copy carries, the
reservation on how far a slot could be when its progress was read, the output
on what is in the acceptance buffer between acceptance and staging.
`CohortInvariant!IInv` names these facts, one conjunct per idea:

- `CopyProtocol`, `MirrorsAddUp`: mirrors plus what is under way (a pending
  copy, and between advance and launch the device buffer) equal the device
  state; this is where `CopyTimely` is used.
- `ScratchProtocol`: a scratch is consumed before the counts move, and a ready
  one equals the counts.
- `CycleInputs`: inputs of the current pass and the counts it led to.
- `ParkingAgrees`, `Positions`: `active_mask` and the Host's flags agree; a
  parked slot is at its rewound position; a live slot started its last cycle
  within `Width` of its limit. `WithinReservation` follows from it.
- `Pace`: every live slot gains a token per cycle; hence the loop bound.
- `Tokens`: what is staged is the continuation, as far as the budget goes.

There is one lemma per action (`AdvanceStateStep`,
`ProposeStep`, `ParkCompletedStep`, ...): the action preserves `IInv`. Below
each there is a step per conjunct. `NextIInv` joins them. The contract is proved
from `IInv` by `ServedGrows` (`AdvanceState` is a `Cycle` of the contract, the
only other visible step being `AssembleOutput`, its `Deliver`).

`TaskLedgerProofs` proves, for any sets of loops, cases, run ids, knowledge ids,
modes and outcomes, and any number of crashes:

| Theorem | Statement |
|---|---|
| `LedgerInvariance`, `LedgerTypes` | `Spec => []IInv`, `Spec => []FilesTypeOK` |
| `NoLoopForgotten`, `AlwaysValid`, `KnowledgeDecided`, `BaselinesStandOnRuns`, `ReplacementsApply` | `Spec => []P` for `UndecidedIsActive`, `LedgerValidates`, `KnowledgeFromDecidedLoops`, `BaselinesProven`, `ReplacementsResolvable` |
| `IndexNeverDisagrees` | `Spec => []IndexAgrees` |
| `EvidenceIsBacked` | `Spec => []EvidenceBacked` |
| `LedgerImplementsHistory` | `Spec => TaskHistorySpec` |

The argument. What holds between commands is not inductive, because a command
is spread over several steps: `TaskLedgerInvariant!IInv` adds what is known at
each write. `Creating` says which files of the new loop exist at each write of
`new-loop` and that no other loop is active; `Deciding` that the decision stands
before anything is reduced, and that the loop is the active one once the index
has been read, which is why a verdict settles the loop it names; `Recording`
that a result is written once, for a recorded run, so that evidence already used
never changes; `StagedProven` and `StagedResolvable` carry the checks made at
staging to the moment of reduction (results and known ids only grow); `Reduced`
says the same of knowledge and baselines. `LateKept` carries `LateFiles`: `NoRun`
and `RunsFollow` (a loop whose state says FROZEN has no run that a finished
command made), `StatusLate` and `ResultLate` (who may miss which file, and at which
write). There is one lemma per action. `HistoryStep` maps `WriteLoopInIndex` to `Open`, `WriteVerdictInIndex` to
`Settle`, `CloseTask` to `Complete`, and every other step to a stutter; the one
that needs care is `DecideLoop`, which changes a decision and is invisible
because an undecided loop of the order is the active one.

The loop index needs an invariant of its own, `IndexKept`: the active loop is
the last of the order, so the row that `verdict` appends for it follows all
others, and `op` tells whether that row is there yet (it must be before the last
write clears the active loop, also when a crash lets that loop rest between the
two). `compact` rebuilds the rows in a loop over the order; what it has collected
after `n` loops (`Collected`) is shown loop by loop, from the existence of the
recursive function in `Rebuilt` on (`RebuildExists`). The evidence level rests on
`EvidenceKept`: each level names a closed accepted loop, two different ones for
E4. `AlwaysLasting` says that no step takes from an accepted loop its verdict,
mode, comparison or profile, so only the write that raises the level needs an
argument (`VerdictBacks`): the loop it closes is not among those closed before.

`TokenCacheProofs` proves `OwnTokensAlways` (`Spec => []OwnTokens`),
`CachesStaySound` (`Spec => []CachesSound`) and the action property
`InsertionsStay` (`Spec => InsertedRowStays`), for any threads, keys, tokenizers,
caches, costs and bounds. `IInv` says that the renderer and each call hold a cache
that was made for the tokenizer they hold (`CacheOfTokenizer`), that a cache holds
only tokens of that tokenizer (`RowsOfOwner`), and what a call carries from
`tokenize` to its return (`TokensOfCall`). How many rows are evicted does not
matter to it. The accounts do: `AInv` adds that every cache is `Exact` (keys once,
bytes the sum of its rows, both bounds kept) and that a row about to be inserted
`FitsAlone`. The sum over the rows is a recursive function, `CostOfFirst`; lemmas
give its existence and what it does when a row is appended (`AppendedSums`), moved
to the end (`MovedSums`) or dropped at the front (`KeptSums`). `MovedIsExact` and
`InsertedIsExact` carry the two lock sections; the eviction stops at a row that
fits alone, which is why the inserted row survives.

`DeviceProofs` proves every property of the `device` run, each part from an
inductive invariant of its own; `DeviceIInv` says that the invariant of the part
that moves holds.

| Theorem | Statement |
|---|---|
| `SpeculationIsLossless`, `CacheIsContext` | `Spec => []Lossless`, `Spec => []CacheHoldsContext` |
| `AuditComparesAlike`, `AuditLeavesOneExecution` | `Spec => []ComparesLikeWithLike`, `Spec => []LeavesOneExecution` |
| `RanksAttend`, `ManifestExact` | `Spec => []RanksAttendAsOne`, `Spec => []ManifestIsExact` |
| `CohortsApart`, `TypeCorrect` | `Spec => []CohortsKeptApart`, `Spec => []TypeOK` |

- `SpeculationIInv`: any vocabulary, model, draft width and block size.
  `WithinBlocks` bounds where a slot writes, live or parked, so that two positions
  are never stored in one place; `CacheHoldsContext` and `Lossless` then carry each
  other: the pass reads the context, so what it accepts is greedy, and the rows it
  writes first are the ones that a rejection has left wrong.
- `ReplayIInv`: `SnapshotKept` (from the first execution to the last the snapshot
  is what the first one has read), `ReadsAgree` (all executions so far have read
  the same) and `Progress` (which pages the current execution has written or has in
  flight, at each step of the Host).
- `MetadataIInv`: a scratch, and a prepared rank, is `Refreshed` from the positions
  at hand, whatever order refreshes, commits and cycles come in. The rest is about
  the data: cumulative lengths telescope (`RunningSum`), a commit in place equals a
  refresh (`CommitIsRefresh`), every query position is in one rank's slice, and
  the manifest follows from the division of positions into blocks.
- `RecorderIInv`: the stream is what the cohort has recorded and the device not yet
  executed (`StreamIsSuffix`), an event is recorded once per cohort
  (`GenerationsCount`), executed records carry increasing times
  (`ExecutedInOrder`), and `RunnerProgress` ties the recorder's counters to the
  place of the runner, so that only `begin_cohort` can raise.

`HostScriptsProofs` proves every safety property of the `host_scripts` run, for
any bridges, validators, rounds, invocations, queries, runs and sources:

| Theorem | Statement |
|---|---|
| `CliIsUnderControl`, `ValidIsCleanExit` | `Spec => []CliUnderControl`, `Spec => []ValidMeansCleanExit` |
| `CompleteRows`, `EarnedRows` | `Spec => []RowsAreComplete`, `Spec => RowsEarned` |
| `WholePatches`, `SourcesUnderService`, `SuccessIsRestored` | `Spec => []PatchesAreWhole`, `Spec => NoChangeUnderService`, `Spec => SuccessMeansRestored` |
| `TypeCorrect` | `Spec => []TypeOK` |

- `BridgeIInv`: `RunSound` ties a run's record to its place and to its CLI (an exit
  code in the record is the CLI's own, a timeout leads through TERM, grace and
  KILL), `FilesSound` says that the bridge record is that of the run with the claim,
  `CallSound` what a call has read and answered.
- `BenchIInv`: `PhaseEarned` (the phase at hand has succeeded, from its own log),
  `CountersSound` (between the snapshots the counters gain no more than was
  served, or the delta is refused), `RowsKept` (rows of the JSONL file are in the CSV
  file, also while the CSV file is being written), `PhasesDone` (the phases before
  the one at hand have their rows).
- `GuardedIInv`: `OneAtATime` (the lock is with one run, also through a command that
  outlives its controller), `CommandSound` (what a command has saved and written
  by each of its steps), `OfflineMeansStopped` (where sources may change no
  service runs); the action properties follow from it.
- The fourth part is the phase runner: its theorems are taken from
  `PhaseRunnerProofs` by INSTANCE.

`PhaseRunnerProofs` proves, for any number of calls, at once or not, and any
amount of output: `TypeCorrect`, `AtMostOneChild`, `NoChildLeft` and from them
`ChildIsSupervised`, `GenuineSuccess`; and, for calls that do not overlap,
`RecordStays` (an action property) and `ReportIsRecorded`. `IInv` has one
conjunct per idea of the code: the exclusive log names who may have started the
child (`LogOwned`), where a child can be at each statement (`ChildAt`), what the
record's marks and the drained pipe mean (`Marked`, `Drained`, `Genuine`); `ChildAt`
also says where a child may be left behind, namely after an exception of SIGINT. That no
record is replaced needs a second invariant, `OneAtATime`: one call is under way,
and from its first record on the file is its own.

`GhostPublicationProofs` proves `TypeCorrect`, `AnswersOnce`,
`EarlyAnswersComplete` and `ContractKept` (`Spec => KeepsContract`, the ledger
implements `ReplyContract`) for any requests, tokens and limits; the invariant
adds that nobody is answered before a settlement but by an early segment, and
that the segment is what the runtime had produced up to the limit.

`StartupCertificateProofs` proves `Invariance`, `TypeCorrect`, `Covers`
(`CertificateCovers`), `Used` and `GuardsKept` (the certified refresh implements
`SlotRefresh`) for any block sizes, tables, layouts, positions and horizon. The
invariant says that no position leaves the certified span before the horizon
(`WithinDtype`, `EmittedBounded`: what `NoOverflow` of the build check buys), that no
mapping shares memory with a certified table and no request is near its limit
(`Separate`), and that a skipped guard belongs to
a certificate that is still eligible.

Model-checked only: liveness under fairness, which is beyond the prover:
`CohortCompletes`, the delivery half of `ImplementsContract` (its safety half is
`ContractImplemented`) and `EveryRunEnds`. Every other property that a passing run
checks is also a theorem. Theorems on induction over an arbitrary predicate cannot
be used, so what the recursive functions of the modules compute (`CostOfFirst`,
`Rebuilt`, `LocalQueryStart`) is proved from a closed form, or by looking at the
least number at which it could be wrong (`UpTo`). `SelectSeq` cannot be unfolded,
which is why `Rebuilt` is written as the loop of `cmd_compact`.

## 5. Not modelled

- The model's arithmetic, collective communication across ranks, and graph
  capture: external to this code's control.
- Framework admission and KV reservation: the models start at the handoff, with
  the reservation that `FixedCohortServing` checks. Bootstrap and target adapter
  bind objects once and check addresses; their result is the initial state.
- Parts named `not_modelled` or `partly` in `PROJECT.json`, each with its reason:
  the installer of the token cache, the stateless mode file, the storage inventory
  at bootstrap, `delegate_zcode.py` (one subprocess and a record) and the
  simulator, observers other than the light recorder, datasets and log parsing of
  the AISBench adapter.
- Patches and controllers of other runs. The patch scripts share the commands of
  run580 and the controllers its cleanup, with other sources, arms and
  measurements; one of each is modelled.
- Analysis scripts: several hundred single-pass computations over recorded files
  (`analyze_*`, `check_*`, `loopNNN_*`), which keep no state and react to nothing.
- Archives. Of the roughly 304,000 lines that count as implementation, about
  three quarters are recorded evidence and framework maps (`evidence/*`,
  `framework-maps/*`): dozens of copies of a patched 7,000-line framework runner and
  of the installed third-party framework. They are data of past runs; no program
  of this repository executes them in place, and modelling a copy would say nothing
  about the system. Most of the rest are experiment scripts of the kinds
  above. The modules cover the code that keeps state or runs concurrently, and
  this is a small share of all lines.

## 6. Plan

Done: the cohort with its contract and proofs; speculation; task ledger; token
cache; phase runner; Zcode bridge; ghost publication; startup certificate;
target metadata; target replay; light recorder; prefix benchmark; patches and
guarded runs.

What would add most next:

1. The ghost publication ledger composed with the cohort: early segments taken
   from the staged history, the settlement from `AssembleOutput`.
2. `SpeculativeDecode` as a refinement of an abstract decoder that appends the
   target's greedy token, so that losslessness is an implementation and the
   cohort's `Tokens` could stand on it.
3. Abstract specifications for the bridge (one job, one outcome) and for the
   guarded run (sources are original or one run's patch), and the proofs that both
   are implemented.
