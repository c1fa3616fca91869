----------------------------- MODULE HostScripts -----------------------------
(***************************************************************************)
(* The scripts on the Host that share no state, side by side: a behaviour  *)
(* is one of the Zcode bridge, of the prefix-cache benchmark, of the       *)
(* guarded diagnostic runs or of the phase runner, while the others rest   *)
(* where they start.  So every property below is the property of one       *)
(* component.                                                              *)
(***************************************************************************)
EXTENDS Naturals, Sequences, FiniteSets

CONSTANTS
  Nothing,
  Bridges, Validators, WorkType, Results,    \* of the bridge
  MaxRounds, MaxInvocations, MaxQueries,     \* of the benchmark
  Runs, NumSources,                          \* of the guarded runs
  Runners, MaxBlocks                         \* of the phase runner

VARIABLES
  part,     \* the component that moves
  pc, rec, claim, bridge, result, seen, handoff, cli, sent, elapsed,
  step, invocation, rounds, round, phase, recorded, accepted, counters, served,
  before, after, parsed, csv, existing, jsonl, code,
  source, tmp, saved, cmd, ctl, service,
  concurrent, call, dict, file, log, copied, watched, limited, sigint, late, asked, overdue,
  child, piped, signal, holders

Bridge == INSTANCE ZcodeBridge
Bench == INSTANCE PrefixBench
Guarded == INSTANCE GuardedRun WITH Original <- Nothing, None <- Nothing
Phase == INSTANCE PhaseRunnerProperties WITH
  pc <- call, rec <- dict, elapsed <- late, sent <- signal

ASSUME BridgeAssumption == Bridge!ZcodeBridgeAssumption
ASSUME BenchAssumption == Bench!PrefixBenchAssumption
ASSUME GuardedAssumption == Guarded!SourcePatchAssumption
ASSUME PhaseAssumption == Phase!PhaseRunnerAssumption

bridgeVars == <<pc, rec, claim, bridge, result, seen, handoff, cli, sent, elapsed>>
benchVars ==
  <<step, invocation, rounds, round, phase, recorded, accepted, counters, served,
    before, after, parsed, csv, existing, jsonl, code>>
guardedVars == <<source, tmp, saved, cmd, ctl, service>>
callVars == <<call, dict, file, log, copied, watched, limited, sigint, late, asked, overdue,
              child, piped, signal, holders>>
phaseVars == <<concurrent, callVars>>
vars == <<part, bridgeVars, benchVars, guardedVars, phaseVars>>

Init ==
  /\ part \in {"zcode bridge", "prefix bench", "guarded run", "phase runner"}
  /\ Bridge!Init /\ Bench!Init /\ Guarded!Init
  /\ Phase!Init /\ ~concurrent
  /\ part # "phase runner" => \A r \in Runners : ~limited[r]

Next ==
  /\ UNCHANGED part
  /\ \/ /\ part = "zcode bridge" /\ Bridge!Next
        /\ UNCHANGED <<benchVars, guardedVars, phaseVars>>
     \/ /\ part = "prefix bench" /\ Bench!Next
        /\ UNCHANGED <<bridgeVars, guardedVars, phaseVars>>
     \/ /\ part = "guarded run" /\ Guarded!Next
        /\ UNCHANGED <<bridgeVars, benchVars, phaseVars>>
     \/ /\ part = "phase runner" /\ Phase!Next
        /\ UNCHANGED <<bridgeVars, benchVars, guardedVars>>

(* What bridge and phase runner assume of their scheduling, where they move. *)
Fairness ==
  /\ \A b \in Bridges :
       /\ WF_bridgeVars(part = "zcode bridge" /\ Bridge!BridgeStep(b))
       /\ WF_bridgeVars(part = "zcode bridge" /\ Bridge!TimeoutPasses(b))
       /\ WF_bridgeVars(part = "zcode bridge" /\ Bridge!CliKilled(b))
  /\ \A r \in Runners :
       /\ WF_callVars(part = "phase runner" /\ Phase!RunnerStep(r))
       /\ WF_callVars(part = "phase runner" /\ Phase!TimeoutPasses(r))
       /\ WF_callVars(part = "phase runner" /\ Phase!SecondPasses(r))
       /\ WF_callVars(part = "phase runner" /\ Phase!ChildKilled(r))

Spec == Init /\ [][Next]_vars /\ Fairness

-----------------------------------------------------------------------------
\* The variables of the components keep their types.
TypeOK == Bridge!TypeOK /\ Bench!TypeOK /\ Guarded!TypeOK /\ Phase!TypeOK

\* Zcode bridge: the job's CLI is started at most once, and a run that answers after a
\* timeout has stopped it.
CliUnderControl == Bridge!OneCli /\ Bridge!AnsweredMeansStopped

\* Zcode bridge: VALID is only said of what the job's own CLI left when it
\* had exited 0 by itself.
ValidMeansCleanExit == Bridge!ValidMeansCleanExit

\* Zcode bridge and phase runner: every run of the bridge ends, and so does every call of
\* run_phase that is limited, asked to stop or without its child.
EveryRunEnds == Bridge!EveryRunEnds /\ Phase!EveryPhaseEnds

\* Benchmark: the hits of a row were served in its phase, a CSV file with rows has every
\* row of the JSONL file, and exit code 0 means that every phase has its rows.
RowsAreComplete == Bench!HitsWereServed /\ Bench!JsonlInCsv /\ Bench!ZeroMeansComplete

\* Benchmark: a row is written for a phase that succeeded, from its own log.
RowsEarned == Bench!RowsEarned

\* Guarded run: installed sources with a patch can be recovered, and a service has loaded
\* the complete patch of its run.
PatchesAreWhole == Guarded!PatchedIsRecoverable /\ Guarded!ServiceRunsItsPatch

\* Guarded run: the sources do not change under a live service.
NoChangeUnderService == Guarded!NoChangeUnderService

\* Guarded run: success means a stopped service and original sources.
SuccessMeansRestored == Guarded!SuccessMeansRestored
=============================================================================
