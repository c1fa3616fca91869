------------------------------ MODULE TaskLedger ------------------------------
(***************************************************************************)
(* The task ledger (scripts/taskctl.py): one task, its loops, their runs,  *)
(* decisions and staged changes, and the knowledge, baselines and indexes  *)
(* reduced from them.  Every variable but op and crashes is a file, or a   *)
(* file per loop or run.  Each file is replaced or appended to atomically; *)
(* a command writes several of them, one after the other, and may stop     *)
(* between two writes: op is the command under way and its next write.     *)
(* Commands do not overlap: one coordinator issues them.  Logs, reports,   *)
(* the task's status and the resume pack are derived from these files and  *)
(* left out; of a loop's status.md only whether it exists is kept.         *)
(***************************************************************************)
EXTENDS Naturals, Sequences, FiniteSets, Functions

CONSTANTS
  Loops,       \* loop ids
  Cases,       \* case ids
  RunIds,      \* run ids of a loop and case
  Knowledge,   \* knowledge ids
  Modes,       \* the LOOP_MODES in use
  Kinds,       \* the run kinds in use
  Outcomes,    \* what finish-run may report
  Scopes,      \* bound: the sets of cases that a loop may be frozen to
  Issued,      \* bound: the verdicts that are issued
  Replaceable, \* bound: the sets of ids that a knowledge change may replace
  MaxCrashes,  \* bound: how often a command may be cut short
  Nothing

Runs == Cases \X RunIds
CaseOf(run) == run[1]

EvidenceKinds == {"test", "simulation", "benchmark", "profile"}
Verdicts == {"ACCEPTED", "REJECTED", "INCONCLUSIVE", "PIVOTED"}

\* A result: status, correctness, and whether a metric was reported.
AnyOutcome == [status : {"pass", "fail", "error", "invalid"},
               correctness : {"pass", "fail", "not-applicable", "invalid"},
               metric : BOOLEAN]

\* What is kept of a knowledge entry, a loop's staged changes, a baseline and
\* a run's manifest.
Entries == [source : Loops, verdict : Verdicts, deprecated : BOOLEAN]
Deltas == [changes : SUBSET [id : Knowledge, replaces : SUBSET Knowledge],
           baselines : [Cases -> Runs \cup {Nothing}]]
Baselines == [loop : Loops, run : Runs]
Manifests == [status : {"PLANNED", "RECORDED"}, kind : Kinds]

ASSUME LedgerAssumption ==
  /\ Modes \subseteq {"spec", "design", "implementation", "correctness",
                      "baseline", "optimization", "integration"}
  /\ Kinds \subseteq EvidenceKinds \cup {"design-check", "build", "review"}
  /\ Outcomes \subseteq AnyOutcome
  /\ Issued \subseteq Verdicts
  /\ Scopes \subseteq SUBSET Cases
  /\ Replaceable \subseteq SUBSET Knowledge
  /\ MaxCrashes \in Nat
  /\ Nothing \notin Loops /\ Nothing \notin Runs /\ Nothing \notin AnyOutcome
  /\ Nothing \notin Verdicts \cup {"PENDING", "FROZEN", "RUNNING", "EVALUATING"}
  /\ Nothing \notin Entries /\ Nothing \notin Deltas
  /\ Nothing \notin Baselines /\ Nothing \notin Manifests

VARIABLES
  completed,   \* index.json: status is COMPLETED
  active,      \* index.json: active_loop
  order,       \* index.json: loop_order
  evidence,    \* index.json: evidence_level, as 0..4
  cases,       \* cases.json
  knowledge,   \* knowledge-state.json: id -> entry or Nothing
  baselines,   \* baselines.json: case -> [loop, run] or Nothing
  loopIndex,   \* loop-index.jsonl
  rendered,    \* loops with a status.md
  dirs,        \* loops whose directory exists
  mode,        \* state.json: mode of the loop, chosen with its directory
  scope,       \* state.json: cases the loop is frozen to, chosen likewise
  state,       \* state.json: status, or Nothing when the file is missing
  decision,    \* decision.json: result, or Nothing
  delta,       \* knowledge-delta.json: staged changes and baselines
  manifest,    \* manifest.json: [status, kind] per loop and run, or Nothing
  result,      \* result.json: outcome per loop and run, or Nothing
  compared,    \* loops with a comparable line in comparisons.jsonl
  op,          \* the command under way: its next write and its arguments
  crashes      \* the loops whose command was cut short, one entry each time

indexVars == <<completed, active, order, evidence>>
reducedVars == <<knowledge, baselines, loopIndex, rendered>>
loopVars == <<dirs, mode, scope, state, decision, delta>>
runVars == <<manifest, result, compared>>
vars == <<indexVars, cases, reducedVars, loopVars, runVars, op, crashes>>

Idle == [write |-> "none", loop |-> Nothing, run |-> Nothing,
         outcome |-> Nothing, verdict |-> Nothing, updateBaseline |-> FALSE]

Writing(file) == op.write = file
Then(file) == op' = [op EXCEPT !.write = file]
Done == op' = Idle

EmptyDelta == [changes |-> {}, baselines |-> [c \in Cases |-> Nothing]]

\* init-task
Init ==
  /\ completed = FALSE /\ active = Nothing /\ order = <<>> /\ evidence = 0
  /\ cases = {}
  /\ knowledge = [k \in Knowledge |-> Nothing]
  /\ baselines = [c \in Cases |-> Nothing]
  /\ loopIndex = <<>>
  /\ rendered = {}
  /\ dirs = {}
  /\ mode = [l \in Loops |-> Nothing]
  /\ scope = [l \in Loops |-> {}]
  /\ state = [l \in Loops |-> Nothing]
  /\ decision = [l \in Loops |-> Nothing]
  /\ delta = [l \in Loops |-> Nothing]
  /\ manifest = [l \in Loops |-> [r \in Runs |-> Nothing]]
  /\ result = [l \in Loops |-> [r \in Runs |-> Nothing]]
  /\ compared = {}
  /\ op = Idle
  /\ crashes = <<>>

-----------------------------------------------------------------------------
\* add-case
AddCase(c) ==
  /\ op = Idle
  /\ ~completed
  /\ c \notin cases
  /\ cases' = cases \cup {c}
  /\ UNCHANGED <<indexVars, reducedVars, loopVars, runVars, op, crashes>>

\* new-loop: its checks, then the directory
NewLoop(l, m, frozen) ==
  /\ op = Idle
  /\ ~completed
  /\ active = Nothing
  /\ l \notin dirs
  /\ frozen \subseteq cases
  /\ dirs' = dirs \cup {l}
  /\ mode' = [mode EXCEPT ![l] = m]
  /\ scope' = [scope EXCEPT ![l] = frozen]
  /\ op' = [Idle EXCEPT !.write = "loop state", !.loop = l]
  /\ UNCHANGED <<indexVars, cases, reducedVars, state, decision, delta,
                 runVars, crashes>>

WriteLoopState ==
  /\ Writing("loop state")
  /\ state' = [state EXCEPT ![op.loop] = "FROZEN"]
  /\ Then("loop decision")
  /\ UNCHANGED <<indexVars, cases, reducedVars, dirs, mode, scope, decision,
                 delta, runVars, crashes>>

WriteLoopDecision ==
  /\ Writing("loop decision")
  /\ decision' = [decision EXCEPT ![op.loop] = "PENDING"]
  /\ Then("loop delta")
  /\ UNCHANGED <<indexVars, cases, reducedVars, dirs, mode, scope, state,
                 delta, runVars, crashes>>

WriteLoopDelta ==
  /\ Writing("loop delta")
  /\ delta' = [delta EXCEPT ![op.loop] = EmptyDelta]
  /\ Then("loop index")
  /\ UNCHANGED <<indexVars, cases, reducedVars, dirs, mode, scope, state,
                 decision, runVars, crashes>>

WriteLoopInIndex ==
  /\ Writing("loop index")
  /\ active' = op.loop
  /\ order' = Append(order, op.loop)
  /\ Then("loop status")
  /\ UNCHANGED <<completed, evidence, cases, reducedVars, loopVars, runVars,
                 crashes>>

\* render_loop_status, the last write of the commands that change a loop: it
\* reads the loop's state and decision, and fails without them.
WriteLoopStatus ==
  /\ Writing("loop status")
  /\ rendered' = rendered \cup {l \in {op.loop} : decision[l] # Nothing}
  /\ Done
  /\ UNCHANGED <<indexVars, cases, knowledge, baselines, loopIndex, loopVars,
                 runVars, crashes>>

-----------------------------------------------------------------------------
\* What new-run, stage-knowledge and stage-baseline take for an ended loop.
Ended(l) == state[l] \in {"ACCEPTED", "REJECTED", "PIVOTED"}

\* new-run: its checks, then the run directory with a planned manifest
NewRun(l, r, kind) ==
  /\ op = Idle
  /\ state[l] # Nothing /\ ~Ended(l)
  /\ kind \in EvidenceKinds => CaseOf(r) \in cases
  /\ scope[l] # {} => CaseOf(r) \in scope[l]
  /\ manifest[l][r] = Nothing
  /\ manifest' = [manifest EXCEPT ![l][r] = [status |-> "PLANNED", kind |-> kind]]
  /\ op' = [Idle EXCEPT !.write = "run state", !.loop = l, !.run = r]
  /\ UNCHANGED <<indexVars, cases, reducedVars, loopVars, result, compared,
                 crashes>>

WriteRunState ==
  /\ Writing("run state")
  /\ state' = [state EXCEPT ![op.loop] = "RUNNING"]
  /\ Then("loop status")
  /\ UNCHANGED <<indexVars, cases, reducedVars, dirs, mode, scope, decision,
                 delta, runVars, crashes>>

\* finish-run: the manifest first, then the result and the loop's state
FinishRun(l, r, outcome) ==
  /\ op = Idle
  /\ state[l] # Nothing
  /\ manifest[l][r] # Nothing /\ manifest[l][r].status = "PLANNED"
  /\ manifest' = [manifest EXCEPT ![l][r].status = "RECORDED"]
  /\ op' = [Idle EXCEPT !.write = "result", !.loop = l, !.run = r,
                        !.outcome = outcome]
  /\ UNCHANGED <<indexVars, cases, reducedVars, loopVars, result, compared,
                 crashes>>

WriteResult ==
  /\ Writing("result")
  /\ result' = [result EXCEPT ![op.loop][op.run] = op.outcome]
  /\ Then("result state")
  /\ UNCHANGED <<indexVars, cases, reducedVars, loopVars, manifest, compared,
                 crashes>>

WriteResultState ==
  /\ Writing("result state")
  /\ state' = [state EXCEPT ![op.loop] = "EVALUATING"]
  /\ Then("loop status")
  /\ UNCHANGED <<indexVars, cases, reducedVars, dirs, mode, scope, decision,
                 delta, runVars, crashes>>

\* compare, when the two runs are declared comparable
Compare(l, before, after) ==
  /\ op = Idle
  /\ l \in dirs
  /\ \A x \in {before, after} : result[x[1]][x[2]] # Nothing
                                /\ result[x[1]][x[2]].metric
  /\ CaseOf(before[2]) = CaseOf(after[2])
  /\ compared' = compared \cup {l}
  /\ UNCHANGED <<indexVars, cases, reducedVars, loopVars, manifest, result, op,
                 crashes>>

ChangeIds(staged) == {change.id : change \in staged.changes}
Known == {k \in Knowledge : knowledge[k] # Nothing}

\* Mutated form: replaced ids are not looked up.
StageUnknownReplacement(l, k, replaces) ==
  /\ op = Idle
  /\ state[l] # Nothing /\ ~Ended(l)
  /\ delta[l] # Nothing
  /\ k \notin ChangeIds(delta[l]) \cup replaces
  /\ delta' = [delta EXCEPT ![l].changes =
                  @ \cup {[id |-> k, replaces |-> replaces]}]
  /\ op' = [Idle EXCEPT !.write = "loop status", !.loop = l]
  /\ UNCHANGED <<indexVars, cases, reducedVars, dirs, mode, scope, state,
                 decision, runVars, crashes>>

StageKnowledge(l, k, replaces) ==
  /\ op = Idle
  /\ state[l] # Nothing /\ ~Ended(l)
  /\ delta[l] # Nothing
  /\ k \notin ChangeIds(delta[l]) \cup replaces
  /\ replaces \subseteq Known \cup ChangeIds(delta[l])
  /\ delta' = [delta EXCEPT ![l].changes =
                  @ \cup {[id |-> k, replaces |-> replaces]}]
  /\ op' = [Idle EXCEPT !.write = "loop status", !.loop = l]
  /\ UNCHANGED <<indexVars, cases, reducedVars, dirs, mode, scope, state,
                 decision, runVars, crashes>>

Passed(outcome) ==
  /\ outcome # Nothing
  /\ outcome.status = "pass" /\ outcome.correctness = "pass" /\ outcome.metric

StageBaseline(l, r) ==
  /\ op = Idle
  /\ state[l] # Nothing /\ ~Ended(l)
  /\ Passed(result[l][r])
  /\ CaseOf(r) \in cases
  /\ delta[l] # Nothing
  /\ delta' = [delta EXCEPT ![l].baselines[CaseOf(r)] = r]
  /\ op' = [Idle EXCEPT !.write = "loop status", !.loop = l]
  /\ UNCHANGED <<indexVars, cases, reducedVars, dirs, mode, scope, state,
                 decision, runVars, crashes>>

-----------------------------------------------------------------------------
\* verdict: every completed run of the loop is evidence
Results(l) == {result[l][r] : r \in Runs} \ {Nothing}

Acceptable(l) ==
  /\ \A x \in Results(l) : x.correctness \notin {"fail", "invalid"}
  /\ \E x \in Results(l) : x.status = "pass"
  /\ mode[l] = "correctness" => \E x \in Results(l) : x.correctness = "pass"
  /\ mode[l] \in {"baseline", "optimization"} => \E x \in Results(l) : Passed(x)
  /\ mode[l] = "optimization" => l \in compared

\* Mutated form: a final verdict can be issued again.
DecideAgain(l, v, updateBaseline) ==
  /\ op = Idle
  /\ state[l] # Nothing
  /\ decision[l] # Nothing
  /\ Results(l) # {}
  /\ v = "ACCEPTED" => Acceptable(l)
  /\ decision' = [decision EXCEPT ![l] = v]
  /\ op' = [Idle EXCEPT !.write = "verdict state", !.loop = l, !.verdict = v,
                        !.updateBaseline = updateBaseline]
  /\ UNCHANGED <<indexVars, cases, reducedVars, dirs, mode, scope, state, delta,
                 runVars, crashes>>

\* The checks of verdict, then the decision file.
DecideLoop(l, v, updateBaseline) ==
  /\ op = Idle
  /\ state[l] # Nothing
  /\ decision[l] = "PENDING"
  /\ Results(l) # {}
  /\ v = "ACCEPTED" => Acceptable(l)
  /\ decision' = [decision EXCEPT ![l] = v]
  /\ op' = [Idle EXCEPT !.write = "verdict state", !.loop = l, !.verdict = v,
                        !.updateBaseline = updateBaseline]
  /\ UNCHANGED <<indexVars, cases, reducedVars, dirs, mode, scope, state, delta,
                 runVars, crashes>>

\* The state file; only then is the verdict compared with the index and with
\* its own --update-baseline, and refused.
WriteVerdictState ==
  /\ Writing("verdict state")
  /\ state' = [state EXCEPT ![op.loop] = op.verdict]
  /\ IF active = op.loop /\ (op.updateBaseline => op.verdict = "ACCEPTED")
     THEN Then("knowledge")
     ELSE Done
  /\ UNCHANGED <<indexVars, cases, reducedVars, dirs, mode, scope, decision,
                 delta, runVars, crashes>>

Entry(l, v) == [source |-> l, verdict |-> v, deprecated |-> FALSE]
Replaced(staged) == UNION {change.replaces : change \in staged.changes}

\* apply_knowledge_delta: every staged change, then every replacement
WriteKnowledge ==
  /\ Writing("knowledge")
  /\ LET staged == delta[op.loop]
         applied == [k \in Knowledge |-> IF k \in ChangeIds(staged)
                                         THEN Entry(op.loop, op.verdict)
                                         ELSE knowledge[k]]
     IN  IF \A k \in Replaced(staged) : applied[k] # Nothing
         THEN /\ knowledge' = [k \in Knowledge |->
                   IF k \in Replaced(staged)
                   THEN [applied[k] EXCEPT !.deprecated = TRUE]
                   ELSE applied[k]]
              /\ Then("baselines")
         ELSE Done /\ UNCHANGED knowledge
  /\ UNCHANGED <<indexVars, cases, baselines, loopIndex, rendered, loopVars,
                 runVars, crashes>>

\* Mutated form: staged baselines are applied whatever the verdict.
WriteAllBaselines ==
  /\ Writing("baselines")
  /\ baselines' = [c \in Cases |->
       IF delta[op.loop].baselines[c] # Nothing
       THEN [loop |-> op.loop, run |-> delta[op.loop].baselines[c]]
       ELSE baselines[c]]
  /\ Then("loop-index")
  /\ UNCHANGED <<indexVars, cases, knowledge, loopIndex, rendered, loopVars,
                 runVars, crashes>>

WriteBaselines ==
  /\ Writing("baselines")
  /\ baselines' = [c \in Cases |->
       IF op.verdict = "ACCEPTED" /\ delta[op.loop].baselines[c] # Nothing
       THEN [loop |-> op.loop, run |-> delta[op.loop].baselines[c]]
       ELSE baselines[c]]
  /\ Then("loop-index")
  /\ UNCHANGED <<indexVars, cases, knowledge, loopIndex, rendered, loopVars,
                 runVars, crashes>>

WriteLoopIndex ==
  /\ Writing("loop-index")
  /\ loopIndex' = Append(loopIndex, [loop |-> op.loop, verdict |-> op.verdict])
  /\ Then("verdict index")
  /\ UNCHANGED <<indexVars, cases, knowledge, baselines, rendered, loopVars,
                 runVars, crashes>>

Profiled(l) ==
  \E r \in Runs : result[l][r] # Nothing /\ manifest[l][r].kind = "profile"

\* Mutated form: an optimization loop counts as profiled.
EvidenceWithoutProfile(l) ==
  CASE mode[l] \in {"implementation", "correctness"} -> 1
    [] mode[l] = "baseline" -> 2
    [] mode[l] = "optimization" /\ evidence \in 1..2 -> 3
    [] mode[l] = "optimization" /\ evidence \in 3..4 -> 4
    [] OTHER -> evidence

\* evidence_level after an accepted loop
EvidenceAfter(l) ==
  CASE mode[l] \in {"implementation", "correctness"} -> 1
    [] mode[l] = "baseline" -> 2
    [] mode[l] = "optimization" /\ Profiled(l) /\ evidence \in 1..2 -> 3
    [] mode[l] = "optimization" /\ evidence \in 3..4 -> 4
    [] OTHER -> evidence

WriteVerdictInIndex ==
  /\ Writing("verdict index")
  /\ active' = Nothing
  /\ evidence' = IF op.verdict = "ACCEPTED" THEN EvidenceAfter(op.loop)
                                            ELSE evidence
  /\ Then("loop status")
  /\ UNCHANGED <<completed, order, cases, reducedVars, loopVars, runVars,
                 crashes>>

-----------------------------------------------------------------------------
\* compact: the loop index is rebuilt from the decisions
\* Mutated form: loops that were not accepted are dropped from the index.
AcceptedOnly(l) == decision[l] = "ACCEPTED"

Decided(l) == decision[l] # "PENDING"

\* The rows of the decided loops, in the order of the task.
Rebuilt ==
  LET rows[n \in 0..Len(order)] ==
        IF n = 0 THEN <<>>
        ELSE IF Decided(order[n])
             THEN Append(rows[n - 1],
                         [loop |-> order[n], verdict |-> decision[order[n]]])
             ELSE rows[n - 1]
  IN  rows[Len(order)]

Compact ==
  /\ op = Idle
  /\ loopIndex' = Rebuilt
  /\ UNCHANGED <<indexVars, cases, knowledge, baselines, rendered, loopVars,
                 runVars, op, crashes>>

\* Mutated form: the task is closed beside its active loop.
CloseBesideActive ==
  /\ op = Idle
  /\ completed' = TRUE
  /\ UNCHANGED <<active, order, evidence, cases, reducedVars, loopVars, runVars,
                 op, crashes>>

\* close-task, with its gates passed
CloseTask ==
  /\ op = Idle
  /\ active = Nothing
  /\ completed' = TRUE
  /\ UNCHANGED <<active, order, evidence, cases, reducedVars, loopVars, runVars,
                 op, crashes>>

\* The process is interrupted between two writes.
Crash ==
  /\ op.write # "none"
  /\ Len(crashes) < MaxCrashes
  /\ crashes' = Append(crashes, op.loop)
  /\ Done
  /\ UNCHANGED <<indexVars, cases, reducedVars, loopVars, runVars>>

Command ==
  \/ \E c \in Cases : AddCase(c)
  \/ \E l \in Loops, m \in Modes, frozen \in Scopes : NewLoop(l, m, frozen)
  \/ \E l \in Loops, r \in Runs, kind \in Kinds : NewRun(l, r, kind)
  \/ \E l \in Loops, r \in Runs, x \in Outcomes : FinishRun(l, r, x)
  \/ \E l \in Loops, before, after \in Loops \X Runs : Compare(l, before, after)
  \/ \E l \in Loops, k \in Knowledge, replaces \in Replaceable :
       StageKnowledge(l, k, replaces)
  \/ \E l \in Loops, r \in Runs : StageBaseline(l, r)
  \/ \E l \in Loops, v \in Issued, b \in BOOLEAN : DecideLoop(l, v, b)
  \/ Compact
  \/ CloseTask

Write ==
  \/ WriteLoopState \/ WriteLoopDecision \/ WriteLoopDelta \/ WriteLoopInIndex
  \/ WriteRunState
  \/ WriteResult \/ WriteResultState
  \/ WriteVerdictState \/ WriteKnowledge \/ WriteBaselines \/ WriteLoopIndex
  \/ WriteVerdictInIndex
  \/ WriteLoopStatus

Next == Command \/ Write \/ Crash

Spec == Init /\ [][Next]_vars
=============================================================================
