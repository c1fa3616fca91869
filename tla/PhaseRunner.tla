----------------------------- MODULE PhaseRunner -----------------------------
(***************************************************************************)
(* The phase runner (glm5-3/runtime/phase_runner.py).  run_phase starts a  *)
(* child in a session of its own, copies the child's stdout to an          *)
(* exclusive log, stops the child on a timeout, a signal or a              *)
(* cancellation, and keeps a JSON record of the phase.  Runners are calls  *)
(* for ONE phase, all with the same record and log path: retries, or       *)
(* processes that run at once.  Between two steps of a runner its child,   *)
(* the child's descendants, the clock and other runners take theirs.  Any  *)
(* step may fail, and SIGINT may come at any step; only stop_child's own   *)
(* calls succeed: a runner may signal its child and wait for it.           *)
(***************************************************************************)
EXTENDS Integers, FiniteSets

CONSTANTS
  Runners,
  MaxBlocks,    \* bound: blocks written to one child's stdout
  Nothing

ExitCodes == {"zero", "nonzero", "SIGTERM", "SIGKILL"}
Final == {"timed_out", "cancelled", "succeeded", "failed", "error"}
Dicts == [status : Final \cup {"starting", "running"},
          exit : ExitCodes \cup {Nothing},
          timed_out : BOOLEAN, cancelled : BOOLEAN, error : BOOLEAN]
Files == [by : Runners, dict : Dicts]

ASSUME PhaseRunnerAssumption ==
  /\ Nothing \notin Runners \cup Files
  /\ MaxBlocks \in Nat

VARIABLES
  concurrent, \* whether calls may begin while another one runs
  pc,        \* the next step of each runner
  rec,       \* the runner's record dict
  file,      \* the record file: its writer and the dict, or Nothing
  log,       \* the runner that created the log file, or Nothing
  copied,    \* blocks of stdout the runner has written to the log
  piped,     \* blocks written into the child's stdout
  watched,   \* whether stdout is registered with the selector
  limited,   \* whether the call has a timeout
  sigint,    \* SIGINT "raises" KeyboardInterrupt, has "raised" it, is "noted"
  elapsed,   \* whether that timeout has passed
  asked,     \* interrupted, or cancel_requested() answers True
  overdue,   \* the exit was seen more than a second ago: "no", "seen", "yes"
  child,     \* "none", "running", how it exited, or "lost" inside Popen
  sent,      \* the last signal stop_child sent to the child's group
  holders    \* who has the write end of stdout: "child", "group", "escaped"

runnerVars == <<pc, rec, file, log, copied, watched>>
clockVars == <<limited, sigint, elapsed, asked, overdue>>
childVars == <<child, piped, sent, holders>>
callVars == <<runnerVars, clockVars, childVars>>
vars == <<concurrent, callVars>>

NoRecord == [status |-> "starting", exit |-> Nothing, timed_out |-> FALSE,
             cancelled |-> FALSE, error |-> FALSE]
Exited(r) == child[r] \in ExitCodes

Init ==
  /\ concurrent \in BOOLEAN
  /\ pc = [r \in Runners |-> "idle"]
  /\ rec = [r \in Runners |-> NoRecord]
  /\ file = Nothing
  /\ log = Nothing
  /\ copied = [r \in Runners |-> 0]
  /\ piped = [r \in Runners |-> 0]
  /\ watched = [r \in Runners |-> FALSE]
  /\ limited \in [Runners -> BOOLEAN]
  /\ sigint = [r \in Runners |-> "raises"]
  /\ elapsed = [r \in Runners |-> FALSE]
  /\ asked = [r \in Runners |-> FALSE]
  /\ overdue = [r \in Runners |-> "no"]
  /\ child = [r \in Runners |-> "none"]
  /\ sent = [r \in Runners |-> "none"]
  /\ holders = [r \in Runners |-> {}]

At(r, step) == pc[r] = step
Goto(r, step) == pc' = [pc EXCEPT ![r] = step]
(* A call reports the phase by its record ("returned": as its result or in *)
(* a PhaseExecutionError), or comes back by an exception of its own.       *)
Ended(r) == pc[r] \in {"refused", "returned", "raised", "dead"}
(* atomic_json replaces the whole file in one rename.                      *)
Publish(r, dict) == file' = [by |-> r, dict |-> dict]
(* An exception goes to the handler, whose first act is stop_child().      *)
Raise(r) ==
  /\ rec' = [rec EXCEPT ![r].error = TRUE]
  /\ Goto(r, "stop")

(***************************************************************************)
(* Steps of a runner.                                                      *)
(***************************************************************************)
\* Mutated form: only the log is looked at.
CheckLogOnly(r) ==
  /\ At(r, "idle")
  /\ concurrent \/ \A o \in Runners : At(o, "idle") \/ Ended(o)
  /\ Goto(r, IF log # Nothing THEN "refused" ELSE "start")
  /\ UNCHANGED <<rec, file, log, copied, watched, clockVars, childVars>>

CheckArtifacts(r) ==
  /\ At(r, "idle")
  /\ concurrent \/ \A o \in Runners : At(o, "idle") \/ Ended(o)
  /\ Goto(r, IF file # Nothing \/ log # Nothing THEN "refused" ELSE "start")
  /\ UNCHANGED <<rec, file, log, copied, watched, clockVars, childVars>>

RecordStarting(r) ==
  /\ At(r, "start")
  /\ \/ Publish(r, rec[r]) /\ Goto(r, "open")
     \/ (Publish(r, rec[r]) \/ UNCHANGED file) /\ Goto(r, "raised")
  /\ UNCHANGED <<rec, log, copied, watched, clockVars, childVars>>

OpenLog(r) ==
  /\ At(r, "open")
  /\ \/ log = Nothing /\ log' = r /\ Goto(r, "spawn") /\ UNCHANGED rec
     \/ log # Nothing /\ Raise(r) /\ UNCHANGED log
  /\ UNCHANGED <<file, copied, watched, clockVars, childVars>>

Spawn(r) ==
  /\ child' = [child EXCEPT ![r] = "running"]
  /\ holders' = [holders EXCEPT ![r] = {"child"}]

(* Popen, or reading the identity of the child it started, may fail.       *)
StartChild(r) ==
  /\ At(r, "spawn")
  /\ \/ /\ Spawn(r)
        /\ rec' = [rec EXCEPT ![r].status = "running"]
        /\ Goto(r, "announce")
     \/ Raise(r) /\ (Spawn(r) \/ UNCHANGED <<child, holders>>)
  /\ UNCHANGED <<file, log, copied, watched, clockVars, piped, sent>>

RecordRunning(r) ==
  /\ At(r, "announce")
  /\ Publish(r, rec[r])
  /\ Goto(r, "install")
  /\ UNCHANGED <<rec, log, copied, watched, clockVars, childVars>>

(* The handlers of both signals, then the selector, which may fail.  From   *)
(* here SIGINT is noted: by the handler, or, where the call is not in the  *)
(* main thread and installs none, by another thread.                       *)
InstallHandlers(r) ==
  /\ At(r, "install")
  /\ sigint' = [sigint EXCEPT ![r] = "noted"]
  /\ \/ /\ watched' = [watched EXCEPT ![r] = TRUE]
        /\ Goto(r, "loop")
        /\ UNCHANGED rec
     \/ Raise(r) /\ UNCHANGED watched
  /\ UNCHANGED <<file, log, copied, limited, elapsed, asked, overdue, childVars>>

MustStop(r) == child[r] = "running" /\ (elapsed[r] \/ asked[r])

(* The while condition, the clock and the decision to stop the child.      *)
Supervise(r) ==
  /\ At(r, "loop")
  /\ watched[r] \/ child[r] = "running"
  /\ \/ /\ MustStop(r)
        /\ rec' = [rec EXCEPT ![r].timed_out = elapsed[r],
                              ![r].cancelled = ~elapsed[r]]
        /\ Goto(r, "stop")
     \/ ~MustStop(r) /\ Goto(r, "read") /\ UNCHANGED rec
  /\ UNCHANGED <<file, log, copied, watched, clockVars, childVars>>

(* A write of the record or the log, the heartbeat or a callback fails.    *)
StepFails(r) ==
  /\ pc[r] \in {"announce", "install", "loop", "read", "close"}
  /\ Raise(r)
  /\ UNCHANGED <<file, log, copied, watched, clockVars, childVars>>

LeaveLoop(r) ==
  /\ At(r, "loop")
  /\ ~watched[r] /\ child[r] # "running"
  /\ Goto(r, "close")
  /\ UNCHANGED <<rec, file, log, copied, watched, clockVars, childVars>>

(* stop_child: TERM, a second's grace, KILL.  It returns to the loop, or to *)
(* the exception handler that called it.                                   *)
AfterStop(r) == IF rec[r].error THEN "except" ELSE "read"

\* Mutated form: a child that outlives TERM is left alone.
TermOnly(r) ==
  /\ \/ /\ At(r, "stop") /\ child[r] = "running"
        /\ sent' = [sent EXCEPT ![r] = "TERM"]
        /\ Goto(r, AfterStop(r))
     \/ /\ At(r, "stop") /\ child[r] # "running"
        /\ Goto(r, AfterStop(r)) /\ UNCHANGED sent
  /\ UNCHANGED <<rec, file, log, copied, watched, clockVars, child, piped,
                 holders>>

StopChild(r) ==
  /\ \/ /\ At(r, "stop") /\ child[r] = "running"
        /\ sent' = [sent EXCEPT ![r] = "TERM"]
        /\ Goto(r, "grace")
     \/ /\ At(r, "grace") /\ child[r] = "running"
        /\ sent' = [sent EXCEPT ![r] = "KILL"]
        /\ Goto(r, "reap")
     \/ /\ pc[r] \in {"stop", "grace", "reap"} /\ child[r] # "running"
        /\ Goto(r, AfterStop(r)) /\ UNCHANGED sent
  /\ UNCHANGED <<rec, file, log, copied, watched, clockVars, child, piped,
                 holders>>

EndOfFile(r) == holders[r] = {} /\ copied[r] = piped[r]

(* One select with its short timeout, then the look at the child.          *)
ReadOutput(r) ==
  /\ At(r, "read")
  /\ \/ /\ watched[r] /\ copied[r] < piped[r]
        /\ copied' = [copied EXCEPT ![r] = @ + 1]
        /\ UNCHANGED watched
     \/ /\ watched[r] /\ EndOfFile(r)
        /\ watched' = [watched EXCEPT ![r] = FALSE]
        /\ UNCHANGED copied
     \/ /\ ~watched[r] \/ (copied[r] = piped[r] /\ ~EndOfFile(r))
        /\ UNCHANGED <<copied, watched>>
  /\ overdue' = [overdue EXCEPT ![r] = IF Exited(r) /\ @ = "no" THEN "seen" ELSE @]
  /\ \/ ~(watched'[r] /\ overdue[r] = "yes") /\ Goto(r, "loop") /\ UNCHANGED rec
     \/ watched'[r] /\ overdue[r] = "yes" /\ Raise(r)   \* descendants retain stdout
  /\ UNCHANGED <<file, log, limited, sigint, elapsed, asked, childVars>>

\* Mutated form: a stopped phase is judged by its exit code alone.
StatusByExitCode(r) == IF child[r] = "zero" THEN "succeeded" ELSE "failed"

FinalStatus(r) ==
  IF rec[r].timed_out THEN "timed_out"
  ELSE IF rec[r].cancelled THEN "cancelled"
  ELSE IF child[r] = "zero" THEN "succeeded" ELSE "failed"

CloseLog(r) ==
  /\ At(r, "close")
  /\ rec' = [rec EXCEPT ![r].exit = child[r], ![r].status = FinalStatus(r)]
  /\ Goto(r, "publish")
  /\ UNCHANGED <<file, log, copied, watched, clockVars, childVars>>

(* The rest of the handler: the error, then the exit, then the status.     *)
WithExit(r) ==
  [rec[r] EXCEPT !.exit = IF child[r] \in ExitCodes THEN child[r] ELSE Nothing]

RecordError(r) ==
  /\ At(r, "except")
  /\ rec' = [rec EXCEPT ![r] = [WithExit(r) EXCEPT !.status = "error"]]
  /\ Goto(r, "publish")
  /\ UNCHANGED <<file, log, copied, watched, clockVars, childVars>>

(* finally: the old handlers are back when the record is published, so it   *)
(* may end early, by SIGINT or a failed write.  An exception that escaped   *)
(* the handler goes on after it.                                           *)
RecordFinal(r) ==
  /\ pc[r] \in {"publish", "escape"}
  /\ \/ Publish(r, rec[r]) /\ Goto(r, IF At(r, "publish") THEN "returned" ELSE "raised")
     \/ (Publish(r, rec[r]) \/ UNCHANGED file) /\ Goto(r, "raised")
  /\ UNCHANGED <<rec, log, copied, watched, clockVars, childVars>>

(***************************************************************************)
(* Signals, cancellation and the clock.                                    *)
(***************************************************************************)
(* SIGTERM while its handler is not installed, SIGKILL or a power failure   *)
(* ends the runner.                                                        *)
Crash(r) ==
  /\ ~At(r, "idle") /\ ~Ended(r)
  /\ Goto(r, "dead")
  /\ UNCHANGED <<rec, file, log, copied, watched, clockVars, childVars>>

(* SIGINT in the try block, its handler not yet installed.  Inside Popen    *)
(* it may strike when the child has been started and not yet returned: the  *)
(* child runs on, its pipe closed, and the call never gets to know it.      *)
KeyboardInterrupt(r) ==
  /\ sigint[r] # "noted" /\ pc[r] \in {"open", "spawn", "announce", "install"}
  /\ sigint' = [sigint EXCEPT ![r] = "raised"]
  /\ Raise(r)
  /\ \/ UNCHANGED <<child, holders>>
     \/ At(r, "spawn") /\ Spawn(r)
     \/ At(r, "spawn") /\ child' = [child EXCEPT ![r] = "lost"] /\ UNCHANGED holders
  /\ UNCHANGED <<file, log, copied, watched, limited, elapsed, asked, overdue, piped, sent>>

(* SIGINT in the exception handler, none of run_phase's installed: the rest *)
(* of it, stop_child() first, is not run.                                  *)
EscapeHandler(r) ==
  /\ sigint[r] # "noted" /\ rec[r].error
  /\ sigint' = [sigint EXCEPT ![r] = "raised"]
  /\ \/ /\ pc[r] \in {"stop", "grace", "reap", "except"}
        /\ rec' = [rec EXCEPT ![r].error = FALSE]
     \/ /\ At(r, "except")
        /\ \E dict \in {rec[r], WithExit(r), [WithExit(r) EXCEPT !.status = "error"]} :
             rec' = [rec EXCEPT ![r] = dict]
  /\ Goto(r, "escape")
  /\ UNCHANGED <<file, log, copied, watched, limited, elapsed, asked, overdue, childVars>>

(* The clock and the request to stop count where the loop looks at them.   *)
InLoop(r) == pc[r] \in {"loop", "stop", "grace", "reap", "read"} /\ ~rec[r].error

(* A handled signal, or a callback that answers True from now on.          *)
AskToStop(r) ==
  /\ InLoop(r) /\ ~asked[r]
  /\ asked' = [asked EXCEPT ![r] = TRUE]
  /\ UNCHANGED <<runnerVars, limited, sigint, elapsed, overdue, childVars>>

TimeoutPasses(r) ==
  /\ InLoop(r) /\ limited[r] /\ ~elapsed[r]
  /\ elapsed' = [elapsed EXCEPT ![r] = TRUE]
  /\ UNCHANGED <<runnerVars, limited, sigint, asked, overdue, childVars>>

SecondPasses(r) ==
  /\ InLoop(r) /\ overdue[r] = "seen"
  /\ overdue' = [overdue EXCEPT ![r] = "yes"]
  /\ UNCHANGED <<runnerVars, limited, sigint, elapsed, asked, childVars>>

(***************************************************************************)
(* The child and its descendants.  The end of the call closes the pipe.    *)
(***************************************************************************)
WriteOutput(r) ==
  /\ ~Ended(r) /\ holders[r] # {} /\ piped[r] < MaxBlocks
  /\ piped' = [piped EXCEPT ![r] = @ + 1]
  /\ UNCHANGED <<runnerVars, clockVars, child, sent, holders>>

(* A descendant inherits stdout, in the child's group or outside it.       *)
Fork(r) ==
  /\ ~Ended(r) /\ child[r] = "running" /\ holders[r] = {"child"}
  /\ \E place \in {"group", "escaped"} :
       holders' = [holders EXCEPT ![r] = @ \cup {place}]
  /\ UNCHANGED <<runnerVars, clockVars, child, piped, sent>>

CloseOutput(r) ==
  /\ ~Ended(r)
  /\ \E h \in holders[r] : holders' = [holders EXCEPT ![r] = @ \ {h}]
  /\ UNCHANGED <<runnerVars, clockVars, child, piped, sent>>

(* The child ends by itself or by a signal; KILL takes its whole group.    *)
ChildExits(r) ==
  /\ child[r] = "running"
  /\ \E code \in {"zero", "nonzero"} \cup (IF sent[r] # "none" THEN {"SIGTERM"} ELSE {}) :
       child' = [child EXCEPT ![r] = code]
  /\ holders' = [holders EXCEPT ![r] = @ \ {"child"}]
  /\ UNCHANGED <<runnerVars, clockVars, piped, sent>>

ChildKilled(r) ==
  /\ child[r] = "running" /\ sent[r] = "KILL"
  /\ child' = [child EXCEPT ![r] = "SIGKILL"]
  /\ holders' = [holders EXCEPT ![r] = @ \ {"child", "group"}]
  /\ UNCHANGED <<runnerVars, clockVars, piped, sent>>

RunnerStep(r) ==
  \/ RecordStarting(r) \/ OpenLog(r) \/ StartChild(r) \/ RecordRunning(r)
  \/ InstallHandlers(r) \/ Supervise(r) \/ LeaveLoop(r) \/ StopChild(r)
  \/ ReadOutput(r) \/ CloseLog(r) \/ RecordError(r)
  \/ RecordFinal(r)

Step ==
  \E r \in Runners :
    \/ CheckArtifacts(r) \/ RunnerStep(r) \/ StepFails(r)
    \/ Crash(r) \/ KeyboardInterrupt(r) \/ EscapeHandler(r) \/ AskToStop(r)
    \/ TimeoutPasses(r) \/ SecondPasses(r)
    \/ WriteOutput(r) \/ Fork(r) \/ CloseOutput(r) \/ ChildExits(r) \/ ChildKilled(r)

Next == Step /\ UNCHANGED concurrent

(* The runner's process keeps being scheduled, time passes, and the kernel *)
(* delivers SIGKILL.  Nothing is assumed of the child's own behaviour.     *)
Fairness ==
  \A r \in Runners :
    /\ WF_callVars(RunnerStep(r))
    /\ WF_callVars(TimeoutPasses(r)) /\ WF_callVars(SecondPasses(r))
    /\ WF_callVars(ChildKilled(r))

Spec == Init /\ [][Next]_vars /\ Fairness
=============================================================================
