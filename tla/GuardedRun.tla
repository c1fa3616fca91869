----------------------------- MODULE GuardedRun -----------------------------
(***************************************************************************)
(* The controller of a guarded diagnostic run,                             *)
(* src/scripts/run_loop080_mixed_run580.sh: under a lock it patches the    *)
(* installed sources, starts the service, measures and stops it, and its   *)
(* EXIT trap restores the sources.  Signals, failures and SIGKILL can come *)
(* at any moment.  The lock's descriptor is inherited by the patch command *)
(* and so is held as long as controller or command lives.                  *)
(***************************************************************************)
EXTENDS SourcePatch

CONSTANT None              \* no service

VARIABLES ctl,      \* ctl[r]: the controller of run r
          service   \* None, or the run that started the service and the sources it loaded
vars == <<source, tmp, saved, cmd, ctl, service>>

NotStarted == [pc |-> "new", started |-> FALSE, ok |-> TRUE, code |-> 0]
Init == PatchInit /\ ctl = [r \in Runs |-> NotStarted] /\ service = None

Body == {"preflight", "check", "install", "installing", "arm", "serving",
         "stopping", "verifying", "ending"}
Trap == {"trap_stop", "trap_verify", "trap_restore", "restoring", "trap_compare"}
Holds(r) == ctl[r].pc \in Body \union Trap
LockFree == \A r \in Runs : ~Holds(r) /\ ~Running(r)

Go(r, pc) == ctl' = [ctl EXCEPT ![r].pc = pc]
\* set -e, or a signal's exit: the EXIT trap runs with the code of the failure.
Fail(r) == ctl' = [ctl EXCEPT ![r].pc = "trap_stop", ![r].code = 1]
Stopped == service = None

\* The lock is taken and the output directory is new: a run has one controller, ever.
StartController(r) ==
  /\ ctl[r].pc = "new" /\ LockFree
  /\ Go(r, "preflight") /\ UNCHANGED <<files, cmd, service>>

VerifyPrestart(r) ==
  /\ ctl[r].pc = "preflight"
  /\ IF Stopped THEN Go(r, "check") ELSE Fail(r)
  /\ UNCHANGED <<files, cmd, service>>
\* The sources' hashes are taken and `check' finds them original.
Check(r) ==
  /\ ctl[r].pc = "check"
  /\ IF \A k \in Sources : source[k] = Original THEN Go(r, "install") ELSE Fail(r)
  /\ UNCHANGED <<files, cmd, service>>
Install(r) ==
  /\ ctl[r].pc = "install"
  /\ Become(r, "preparing") /\ Go(r, "installing") /\ UNCHANGED <<files, service>>
InstallEnds(r) ==
  /\ ctl[r].pc = "installing" /\ ~Running(r)
  /\ IF cmd[r].pc = "done" THEN Go(r, "arm") ELSE Fail(r)
  /\ UNCHANGED <<files, cmd, service>>

\* run_arm: RUN_STARTED is set before the service is launched; it may never come up.
StartService(r) ==
  /\ ctl[r].pc = "arm" /\ Stopped
  /\ ctl' = [ctl EXCEPT ![r].pc = "serving", ![r].started = TRUE]
  /\ service' \in {None, [run |-> r, loaded |-> source]}
  /\ UNCHANGED <<files, cmd>>
Measure(r) ==
  /\ ctl[r].pc = "serving" /\ service # None
  /\ Go(r, "stopping") /\ UNCHANGED <<files, cmd, service>>
\* stop_owned ends the service with this run's tag, and nothing else.
Owned(r) == service # None /\ service.run = r
AfterStop(r) == IF Owned(r) THEN None ELSE service
StopService(r) ==
  /\ ctl[r].pc = "stopping"
  /\ service' = AfterStop(r) /\ Go(r, "verifying") /\ UNCHANGED <<files, cmd>>
VerifyStopped(r) ==
  /\ ctl[r].pc = "verifying" /\ Stopped
  /\ ctl' = [ctl EXCEPT ![r].pc = "ending", ![r].started = FALSE]
  /\ UNCHANGED <<files, cmd, service>>
EndRun(r) ==
  /\ ctl[r].pc = "ending"
  /\ Go(r, "trap_stop") /\ UNCHANGED <<files, cmd, service>>
\* Any other command fails, or INT or TERM arrives; bash waits for its child first.
RunFails(r) ==
  /\ ctl[r].pc \in Body \ {"installing"}
  /\ Fail(r) /\ UNCHANGED <<files, cmd, service>>

\* cleanup.  `ok' is that stop and idleness are proven; a failing stop proves nothing.
TrapStop(r) ==
  /\ ctl[r].pc = "trap_stop"
  /\ \/ ~ctl[r].started /\ Go(r, "trap_verify") /\ UNCHANGED service
     \/ ctl[r].started /\ service' = AfterStop(r) /\ Go(r, "trap_verify")
     \/ ctl[r].started /\ ctl' = [ctl EXCEPT ![r].pc = "trap_restore", ![r].ok = FALSE]
        /\ service' \in {service, AfterStop(r)}
  /\ UNCHANGED <<files, cmd>>
TrapVerify(r) ==
  /\ ctl[r].pc = "trap_verify"
  /\ \E proven \in {Stopped, FALSE} :
       ctl' = [ctl EXCEPT ![r].pc = "trap_restore", ![r].ok = proven]
  /\ UNCHANGED <<files, cmd, service>>
\* Mutated form: the sources are restored whether or not the service stopped.
MayRestoreAnyway(r) == saved[r].manifest
MayRestoreNow(r) == saved[r].manifest /\ ctl[r].ok
TrapRestore(r) ==
  /\ ctl[r].pc = "trap_restore"
  /\ IF MayRestoreNow(r) THEN Become(r, "checking") /\ Go(r, "restoring")
                         ELSE Become(r, "none") /\ Go(r, "trap_compare")
  /\ UNCHANGED <<files, service>>
RestoreEnds(r) ==
  /\ ctl[r].pc = "restoring" /\ ~Running(r)
  /\ Go(r, "trap_compare") /\ UNCHANGED <<files, cmd, service>>
\* Mutated form: only the code of the run itself counts.
CodeOfRun(r) == ctl[r].code
FinalCode(r) == IF /\ ctl[r].code = 0 /\ ctl[r].ok /\ cmd[r].pc = "done"
                   /\ \A k \in Sources : source[k] = Original
                THEN 0 ELSE 1
TrapCompare(r) ==
  /\ ctl[r].pc = "trap_compare"
  /\ ctl' = [ctl EXCEPT ![r].pc = "exited", ![r].code = FinalCode(r)]
  /\ UNCHANGED <<files, cmd, service>>
\* The traps of INT and TERM are still set in the cleanup, the EXIT trap no longer is.
SecondSignal(r) ==
  /\ ctl[r].pc \in Trap /\ ~Running(r)
  /\ ctl' = [ctl EXCEPT ![r].pc = "exited", ![r].code = 130]
  /\ UNCHANGED <<files, cmd, service>>

\* SIGKILL ends the controller; its patch command goes on.
KillController(r) ==
  /\ Holds(r)
  /\ ctl' = [ctl EXCEPT ![r].pc = "exited", ![r].code = 137]
  /\ UNCHANGED <<files, cmd, service>>
\* The service dies, or an operator stops it.
ServiceEnds == service # None /\ service' = None /\ UNCHANGED <<files, cmd, ctl>>
\* An operator restores what a controller has left behind, with the service offline and
\* no controller alive: the command itself takes no lock, so this is assumed of operators.
RestoreByHand(r) ==
  /\ ctl[r].pc = "exited" /\ LockFree /\ Stopped /\ r \in {source[k] : k \in Sources}
  /\ Become(r, "checking") /\ UNCHANGED <<files, ctl, service>>

ControllerStep(r) ==
  \/ StartController(r) \/ VerifyPrestart(r) \/ Check(r) \/ Install(r) \/ InstallEnds(r)
  \/ StartService(r) \/ Measure(r) \/ StopService(r) \/ VerifyStopped(r) \/ EndRun(r)
  \/ RunFails(r) \/ TrapStop(r) \/ TrapVerify(r) \/ TrapRestore(r) \/ RestoreEnds(r)
  \/ TrapCompare(r) \/ SecondSignal(r) \/ KillController(r) \/ RestoreByHand(r)
Next == \/ \E r \in Runs : ControllerStep(r)
        \/ \E r \in Runs : CommandStep(r) /\ UNCHANGED <<ctl, service>>
        \/ ServiceEnds
Spec == Init /\ [][Next]_vars

-----------------------------------------------------------------------------
(***************************************************************************)
(* What the lock, the patch commands and the EXIT trap are there for.      *)
(***************************************************************************)

\* Every variable has its type; backups only ever hold original sources.
TypeOK ==
  /\ source \in [Sources -> Runs \union {Original}]
  /\ tmp \in [Runs -> SUBSET Sources]
  /\ saved \in [Runs -> [exists : BOOLEAN, backups : SUBSET Sources, manifest : BOOLEAN]]
  /\ \A r \in Runs : cmd[r].at \in Sources /\ (cmd[r].writing => cmd[r].at \in tmp[r])
  /\ \A r \in Runs : ctl[r].pc \in Body \union Trap \union {"new", "exited"}
  /\ service # None => service.run \in Runs

\* As long as one installed source carries a patch, the run it belongs to has its manifest
\* and every original saved, whatever was killed or failed on the way.
PatchedIsRecoverable ==
  \A r \in Runs : r \in {source[k] : k \in Sources}
                    => saved[r].manifest /\ saved[r].backups = Sources

\* A service only ever loaded the complete patch of the run that started it: never half a
\* patch, the originals, or what an earlier run left behind.
ServiceRunsItsPatch == service # None => \A k \in Sources : service.loaded[k] = service.run

\* The installed sources of a live service do not change under it, by the cleanup, by a
\* patch command that outlives its controller or by hand.
NoChangeUnderService ==
  [][service # None /\ service' = service => source' = source]_vars

\* A controller that reports success has left the service stopped and every source
\* original.
SuccessMeansRestored ==
  [][\A r \in Runs : ctl[r].pc # "exited" /\ ctl'[r].pc = "exited" /\ ctl'[r].code = 0
        => service' = None /\ \A k \in Sources : source'[k] = Original]_vars
=============================================================================
