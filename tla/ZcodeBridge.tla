----------------------------- MODULE ZcodeBridge -----------------------------
(***************************************************************************)
(* The Zcode bridge (glm5-3/scripts/zcode_bridge.py): `run` hands one job  *)
(* to a CLI under a timeout and judges what it left, `validate` judges the *)
(* same files later.  Calls share one job directory: the claim, the bridge *)
(* record and the result, each replaced by one rename.  The CLI and the    *)
(* agents it leaves behind write the result whenever they like.            *)
(***************************************************************************)
EXTENDS Integers, FiniteSets

CONSTANTS
  Bridges,     \* calls of `run`
  Validators,  \* calls of `validate`
  WorkType,    \* the job's execution.work_type
  Results,     \* the documents a CLI may leave as its result
  Nothing

Documents == [job : {"own", "other"}, status : {"running", "completed", "failed"},
              inner_exit_code : {"null", "zero", "nonzero"},
              acceptance : {"passed", "failed", "unverified"},
              processes : BOOLEAN]

ExitCodes == {"zero", "nonzero", "SIGTERM", "SIGKILL"}

ZcodeBridgeAssumption ==
  /\ WorkType \in {"analysis", "command", "persistent"}
  /\ Results \subseteq Documents
  /\ Bridges \cap Validators = {}
  /\ Nothing \notin Bridges /\ Nothing \notin ExitCodes /\ Nothing \notin {"VALID", "INVALID"}

VARIABLES
  pc,       \* the next step of each call
  rec,      \* the bridge dict of each run
  claim,    \* the run that created job.claim, or Nothing
  bridge,   \* bridge.json, or Nothing
  result,   \* the result file: the run whose CLI wrote it and the document
  seen,     \* the result each call has read
  handoff,  \* the answer of each call: Nothing, "VALID" or "INVALID"
  cli,      \* the CLI of each run: "none", "running" or how it exited
  sent,     \* the last signal sent to its group
  elapsed   \* whether its timeout has passed

files == <<claim, bridge, result>>
cliVars == <<cli, sent, elapsed>>
vars == <<pc, rec, files, seen, handoff, cliVars>>

Calls == Bridges \cup Validators
NewBridge == [exit |-> Nothing, timed_out |-> FALSE, error |-> FALSE]

Init ==
  /\ pc = [c \in Calls |-> "idle"]
  /\ rec = [b \in Bridges |-> NewBridge]
  /\ claim = Nothing /\ bridge = Nothing /\ result = Nothing
  /\ seen = [c \in Calls |-> Nothing]
  /\ handoff = [c \in Calls |-> Nothing]
  /\ cli = [b \in Bridges |-> "none"]
  /\ sent = [b \in Bridges |-> "none"]
  /\ elapsed = [b \in Bridges |-> FALSE]

At(c, label) == pc[c] = label
Goto(c, label) == pc' = [pc EXCEPT ![c] = label]
Answer(c, verdict) ==
  /\ handoff' = [handoff EXCEPT ![c] = verdict]
  /\ Goto(c, "answered")
Ended(c) == pc[c] \in {"answered", "dead"}
Waiting(b) == pc[b] \in {"wait", "term", "grace", "reap"}

(* validate_result, without the checks of wording and evidence.            *)
Accepts(document) ==
  /\ document.job = "own"
  /\ document.status = "completed" =>
       /\ document.acceptance = "passed"
       /\ document.inner_exit_code # "nonzero"
       /\ WorkType # "analysis" => document.inner_exit_code = "zero"
  /\ document.status = "running" => document.processes

Valid(written) == written # Nothing /\ Accepts(written.document)

\* Mutated form: the exit code decides, a timeout does not.
ExitedZero(dict) == dict.exit = "zero" /\ ~dict.error

CleanExit(dict) == dict.exit = "zero" /\ ~dict.timed_out /\ ~dict.error

(***************************************************************************)
(* run_job                                                                 *)
(***************************************************************************)
CheckDirectory(b) ==
  /\ At(b, "idle")
  /\ \/ result = Nothing /\ bridge = Nothing /\ Goto(b, "claim") /\ UNCHANGED handoff
     \/ (result # Nothing \/ bridge # Nothing) /\ Answer(b, "INVALID")
  /\ UNCHANGED <<rec, files, seen, cliVars>>

Claim(b) ==
  /\ At(b, "claim")
  /\ \/ claim = Nothing /\ claim' = b /\ Goto(b, "record") /\ UNCHANGED handoff
     \/ claim # Nothing /\ Answer(b, "INVALID") /\ UNCHANGED claim
  /\ UNCHANGED <<rec, bridge, result, seen, cliVars>>

\* Mutated form: a failed write ends the program without an answer.
RecordJobOrRaise(b) ==
  /\ At(b, "record")
  /\ \/ bridge' = [by |-> b, dict |-> rec[b]] /\ Goto(b, "spawn") /\ UNCHANGED handoff
     \/ Goto(b, "answered") /\ UNCHANGED <<bridge, handoff>>
  /\ UNCHANGED <<rec, claim, result, seen, cliVars>>

(* A failed write before the CLI is started is answered by main.           *)
RecordJob(b) ==
  /\ At(b, "record")
  /\ \/ bridge' = [by |-> b, dict |-> rec[b]] /\ Goto(b, "spawn") /\ UNCHANGED handoff
     \/ Answer(b, "INVALID") /\ UNCHANGED bridge
  /\ UNCHANGED <<rec, claim, result, seen, cliVars>>

StartCli(b) ==
  /\ At(b, "spawn")
  /\ \/ cli' = [cli EXCEPT ![b] = "running"] /\ Goto(b, "announce") /\ UNCHANGED rec
     \/ /\ rec' = [rec EXCEPT ![b].error = TRUE]
        /\ Goto(b, "finish") /\ UNCHANGED cli
  /\ UNCHANGED <<files, seen, handoff, sent, elapsed>>

(* A failed write after the start is taken for a CLI error: run_job goes on *)
(* to its end and leaves the CLI to itself.                                *)
RecordPid(b) ==
  /\ At(b, "announce")
  /\ \/ bridge' = [by |-> b, dict |-> rec[b]] /\ Goto(b, "wait") /\ UNCHANGED rec
     \/ /\ rec' = [rec EXCEPT ![b].error = TRUE]
        /\ Goto(b, "finish") /\ UNCHANGED bridge
  /\ UNCHANGED <<claim, result, seen, handoff, cliVars>>

WaitForCli(b) ==
  /\ At(b, "wait")
  /\ \/ /\ cli[b] \in ExitCodes
        /\ rec' = [rec EXCEPT ![b].exit = cli[b]]
        /\ Goto(b, "finish")
     \/ /\ elapsed[b] /\ cli[b] = "running"
        /\ rec' = [rec EXCEPT ![b].timed_out = TRUE]
        /\ Goto(b, "term")
  /\ UNCHANGED <<files, seen, handoff, cliVars>>

\* Mutated form: TERM is sent and the CLI is waited for without KILL.
TermCli(b) ==
  /\ \/ /\ At(b, "term")
        /\ sent' = [sent EXCEPT ![b] = "TERM"]
        /\ Goto(b, "reap") /\ UNCHANGED rec
     \/ /\ At(b, "reap") /\ cli[b] \in ExitCodes
        /\ rec' = [rec EXCEPT ![b].exit = cli[b]]
        /\ Goto(b, "finish") /\ UNCHANGED sent
  /\ UNCHANGED <<files, seen, handoff, cli, elapsed>>

\* Mutated form: the CLI is told to stop and not waited for.
AbandonCli(b) ==
  /\ At(b, "term")
  /\ sent' = [sent EXCEPT ![b] = "TERM"]
  /\ Goto(b, "finish")
  /\ UNCHANGED <<rec, files, seen, handoff, cli, elapsed>>

StopCli(b) ==
  /\ \/ /\ At(b, "term")
        /\ sent' = [sent EXCEPT ![b] = "TERM"]
        /\ Goto(b, "grace") /\ UNCHANGED rec
     \/ /\ At(b, "grace") /\ cli[b] = "running"
        /\ sent' = [sent EXCEPT ![b] = "KILL"]
        /\ Goto(b, "reap") /\ UNCHANGED rec
     \/ /\ pc[b] \in {"grace", "reap"} /\ cli[b] \in ExitCodes
        /\ rec' = [rec EXCEPT ![b].exit = cli[b]]
        /\ Goto(b, "finish") /\ UNCHANGED sent
  /\ UNCHANGED <<files, seen, handoff, cli, elapsed>>

RecordFinished(b) ==
  /\ At(b, "finish")
  /\ \/ bridge' = [by |-> b, dict |-> rec[b]] /\ Goto(b, "judge") /\ UNCHANGED handoff
     \/ Answer(b, "INVALID") /\ UNCHANGED bridge
  /\ UNCHANGED <<rec, claim, result, seen, cliVars>>

JudgeRun(b) ==
  /\ At(b, "judge")
  /\ seen' = [seen EXCEPT ![b] = IF CleanExit(rec[b]) THEN result ELSE Nothing]
  /\ Answer(b, IF Valid(seen'[b]) THEN "VALID" ELSE "INVALID")
  /\ UNCHANGED <<rec, files, cliVars>>

Crash(b) ==
  /\ ~At(b, "idle") /\ ~Ended(b)
  /\ Goto(b, "dead")
  /\ UNCHANGED <<rec, files, seen, handoff, cliVars>>

(***************************************************************************)
(* validate: the result is read and judged first, then the bridge.         *)
(***************************************************************************)
ReadResult(v) ==
  /\ At(v, "idle")
  /\ seen' = [seen EXCEPT ![v] = result]
  /\ \/ Valid(result) /\ Goto(v, "bridge") /\ UNCHANGED handoff
     \/ ~Valid(result) /\ Answer(v, "INVALID")
  /\ UNCHANGED <<rec, files, cliVars>>

ReadBridge(v) ==
  /\ At(v, "bridge")
  /\ Answer(v, IF bridge # Nothing /\ CleanExit(bridge.dict) THEN "VALID" ELSE "INVALID")
  /\ UNCHANGED <<rec, files, seen, cliVars>>

(***************************************************************************)
(* The CLI, the agents it has started, and the clock.                      *)
(***************************************************************************)
WriteResult(b) ==
  /\ cli[b] # "none"
  /\ \E document \in Results : result' = [by |-> b, document |-> document]
  /\ UNCHANGED <<pc, rec, claim, bridge, seen, handoff, cliVars>>

CliExits(b) ==
  /\ cli[b] = "running"
  /\ \E code \in {"zero", "nonzero"} \cup (IF sent[b] # "none" THEN {"SIGTERM"} ELSE {}) :
       cli' = [cli EXCEPT ![b] = code]
  /\ UNCHANGED <<pc, rec, files, seen, handoff, sent, elapsed>>

CliKilled(b) ==
  /\ cli[b] = "running" /\ sent[b] = "KILL"
  /\ cli' = [cli EXCEPT ![b] = "SIGKILL"]
  /\ UNCHANGED <<pc, rec, files, seen, handoff, sent, elapsed>>

TimeoutPasses(b) ==
  /\ Waiting(b) /\ ~elapsed[b]
  /\ elapsed' = [elapsed EXCEPT ![b] = TRUE]
  /\ UNCHANGED <<pc, rec, files, seen, handoff, cli, sent>>

BridgeStep(b) ==
  \/ CheckDirectory(b) \/ Claim(b) \/ RecordJob(b) \/ StartCli(b) \/ RecordPid(b)
  \/ WaitForCli(b) \/ StopCli(b) \/ RecordFinished(b) \/ JudgeRun(b)

Next ==
  \/ \E b \in Bridges :
       \/ BridgeStep(b) \/ Crash(b) \/ WriteResult(b)
       \/ CliExits(b) \/ CliKilled(b) \/ TimeoutPasses(b)
  \/ \E v \in Validators : ReadResult(v) \/ ReadBridge(v)

(* The bridge's process keeps being scheduled, time passes, and the kernel *)
(* delivers SIGKILL.  Nothing is assumed of the CLI.                       *)
Fairness ==
  \A b \in Bridges :
    /\ WF_vars(BridgeStep(b)) /\ WF_vars(TimeoutPasses(b)) /\ WF_vars(CliKilled(b))

Spec == Init /\ [][Next]_vars /\ Fairness

-----------------------------------------------------------------------------
(***************************************************************************)
(* Properties of the Zcode bridge.                                         *)
(***************************************************************************)

Dicts == [exit : ExitCodes \cup {Nothing}, timed_out : BOOLEAN, error : BOOLEAN]
Written == [by : Bridges, document : Results] \cup {Nothing}

\* The variables of the calls, the files and the CLIs keep their types, and
\* an answer stands exactly where a call has come to its end.
TypeOK ==
  /\ pc \in [Calls -> {"idle", "claim", "record", "spawn", "announce", "wait", "term",
                       "grace", "reap", "finish", "judge", "bridge", "answered", "dead"}]
  /\ rec \in [Bridges -> Dicts]
  /\ claim \in Bridges \cup {Nothing}
  /\ bridge \in [by : Bridges, dict : Dicts] \cup {Nothing}
  /\ result \in Written
  /\ seen \in [Calls -> Written]
  /\ handoff \in [Calls -> {Nothing, "VALID", "INVALID"}]
  /\ cli \in [Bridges -> {"none", "running"} \cup ExitCodes]
  /\ sent \in [Bridges -> {"none", "TERM", "KILL"}]
  /\ elapsed \in [Bridges -> BOOLEAN]
  /\ \A c \in Calls : handoff[c] # Nothing <=> pc[c] = "answered"

\* The job's CLI is started at most once, whichever calls race for its
\* directory, crash in it or come back to it.
OneCli ==
  \A b, o \in Bridges : cli[b] # "none" /\ cli[o] # "none" => b = o

\* VALID, from run or from a later validate, is only said of a result that the
\* claimant's own CLI left, when that CLI has exited 0 by itself and never been
\* signalled: not of a result that arrives after a timeout, after a CLI that
\* exited 0 while it was stopped, or after a crash of the bridge.
ValidMeansCleanExit ==
  \A c \in Calls : handoff[c] = "VALID" =>
    /\ Valid(seen[c]) /\ seen[c].by = claim
    /\ cli[claim] = "zero" /\ sent[claim] = "none"

\* A run that answers leaves a running CLI behind only if writing its pid
\* failed: not after a timeout, whatever the CLI does with SIGTERM.
AnsweredMeansStopped ==
  \A b \in Bridges :
    At(b, "answered") /\ cli[b] = "running" => rec[b].error /\ ~rec[b].timed_out

\* Every run ends, although its CLI may never exit by itself.
EveryRunEnds == \A b \in Bridges : ~At(b, "idle") ~> Ended(b)
=============================================================================
