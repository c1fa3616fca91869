------------------------ MODULE PhaseRunnerProperties ------------------------
(***************************************************************************)
(* Properties of the phase runner.                                         *)
(***************************************************************************)
EXTENDS PhaseRunner

Steps == {"idle", "start", "open", "spawn", "announce", "install", "loop", "stop",
          "grace", "reap", "read", "close", "except", "publish", "escape",
          "refused", "returned", "raised", "dead"}

\* The types of all that calls change.
CallsTypeOK ==
  /\ pc \in [Runners -> Steps]
  /\ rec \in [Runners -> Dicts]
  /\ file \in Files \cup {Nothing}
  /\ log \in Runners \cup {Nothing}
  /\ copied \in [Runners -> 0..MaxBlocks]
  /\ piped \in [Runners -> 0..MaxBlocks]
  /\ watched \in [Runners -> BOOLEAN]
  /\ limited \in [Runners -> BOOLEAN]
  /\ sigint \in [Runners -> {"raises", "raised", "noted"}]
  /\ elapsed \in [Runners -> BOOLEAN]
  /\ asked \in [Runners -> BOOLEAN]
  /\ overdue \in [Runners -> {"no", "seen", "yes"}]
  /\ child \in [Runners -> {"none", "running", "lost"} \cup ExitCodes]
  /\ sent \in [Runners -> {"none", "TERM", "KILL"}]
  /\ holders \in [Runners -> SUBSET {"child", "group", "escaped"}]

\* The variables of the runners, the files and the children keep their types;
\* a record never holds the exit of a process that was not started.
TypeOK == concurrent \in BOOLEAN /\ CallsTypeOK

Succeeded(r) == At(r, "returned") /\ rec[r].status = "succeeded"

\* run_phase returns normally only for a child that ended by itself with exit
\* code 0, never for one that was being stopped for a timeout, a signal or a
\* cancellation and exited 0 meanwhile; and then nobody can write to the
\* phase's output any more and the log has every block that was written.
SuccessIsGenuine ==
  \A r \in Runners : Succeeded(r) =>
    /\ child[r] = "zero" /\ sent[r] = "none"
    /\ holders[r] = {} /\ copied[r] = piped[r]

\* A call that comes back, by its record or by an exception, leaves a child
\* running only when SIGINT has interrupted it before its handlers were
\* installed, while it started the child or while it stopped it for an earlier
\* exception.  No failed step leaves a child behind, no signal once the handlers
\* are installed, no child that ignores SIGTERM; and a child behind a record
\* that the call reports is one that Popen never returned.
EndedChildStopped ==
  \A r \in Runners : pc[r] \in {"returned", "raised"} =>
    /\ child[r] \in {"running", "lost"} => sigint[r] = "raised"
    /\ child[r] = "running" => At(r, "raised")

\* The phase's command is started at most once, however many calls are made,
\* crash or race for the same artifacts.
OneChild ==
  \A r, o \in Runners : child[r] # "none" /\ child[o] # "none" => r = o

\* So one process at most is ever the phase's child, and no call that has come
\* back has left it running, unless SIGINT interrupted it before its handlers.
ChildSupervised == OneChild /\ EndedChildStopped

\* Of calls that follow one another, a record is rewritten only by the one that
\* created it: a phase whose artifacts exist is refused, also after a crash, so
\* what is recorded of it stays.  (Calls at once overwrite each other's record.)
RecordNotOverwritten ==
  [][file # Nothing /\ ~concurrent => file'.by = file.by]_file

Reported ==
  \A r \in Runners : At(r, "returned") => file = [by |-> r, dict |-> rec[r]]

\* Of calls that follow one another, what each caller was told is what the
\* record file says.
ReportedIsRecorded == ~concurrent => Reported

\* A call with a timeout, one that was asked to stop and one whose child has
\* exited come to an end, although the child may ignore SIGTERM, write on, or
\* leave descendants that keep its stdout open.
EveryPhaseEnds ==
  \A r \in Runners :
    (limited[r] /\ ~At(r, "idle")) \/ asked[r] \/ Exited(r) ~> Ended(r)
=============================================================================
