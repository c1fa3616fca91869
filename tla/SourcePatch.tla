----------------------------- MODULE SourcePatch -----------------------------
(***************************************************************************)
(* The reversible patches of installed sources:                            *)
(* src/scripts/loop080_mixed_patch_run580.py, whose commands check,        *)
(* install and restore the other runs' patch scripts share.  An install    *)
(* saves every source, writes the manifest and then replaces one source    *)
(* after the other; each replacement writes a temporary file beside the    *)
(* source and renames it.  Commands can fail or be killed at every step.   *)
(***************************************************************************)
EXTENDS Naturals, FiniteSets

CONSTANTS Runs,         \* the diagnostic runs, each with a patch of its own
          NumSources,   \* sources that a patch replaces, in the order of SOURCES
          Original      \* the pinned content of a source

SourcePatchAssumption == NumSources \in Nat \ {0} /\ Original \notin Runs

Sources == 1..NumSources

VARIABLES source,   \* source[k]: Original, or the run whose patch it carries
          tmp,      \* tmp[r]: sources with a temporary file of run r beside them
          saved,    \* saved[r]: the state directory of run r
          cmd       \* cmd[r]: the patch command of run r that is running or ran last
files == <<source, tmp, saved>>

NoCommand == [pc |-> "none", at |-> 1, writing |-> FALSE]
EmptyState == [exists |-> FALSE, backups |-> {}, manifest |-> FALSE]
Running(r) == cmd[r].pc \notin {"none", "done", "failed"}

PatchInit == /\ source = [k \in Sources |-> Original]
             /\ tmp = [r \in Runs |-> {}]
             /\ saved = [r \in Runs |-> EmptyState]
             /\ cmd = [r \in Runs |-> NoCommand]

Become(r, pc) == cmd' = [cmd EXCEPT ![r] = [NoCommand EXCEPT !.pc = pc]]
\* The loop goes on to the next source, or the command to what follows the loop.
Advance(r, after) ==
  IF cmd[r].at < NumSources
  THEN cmd' = [cmd EXCEPT ![r].at = @ + 1, ![r].writing = FALSE]
  ELSE Become(r, after)

\* prepared: every source still has its pinned content, or the command raises.
Prepared(r) ==
  /\ cmd[r].pc = "preparing"
  /\ IF source[cmd[r].at] = Original THEN Advance(r, "saving") ELSE Become(r, "failed")
  /\ UNCHANGED files

\* Mutated form: the manifest follows the first saved source.
SaveFirst(r) ==
  /\ cmd[r].pc = "saving"
  /\ saved' = [saved EXCEPT ![r].exists = TRUE, ![r].backups = @ \union {cmd[r].at}]
  /\ Become(r, "manifest")
  /\ UNCHANGED <<source, tmp>>
\* The state directory is made, once, and each source saved in it.
SaveSource(r) ==
  /\ cmd[r].pc = "saving"
  /\ IF cmd[r].at = 1 /\ saved[r].exists
     THEN Become(r, "failed") /\ UNCHANGED saved
     ELSE /\ saved' = [saved EXCEPT ![r].exists = TRUE, ![r].backups = @ \union {cmd[r].at}]
          /\ Advance(r, "manifest")
  /\ UNCHANGED <<source, tmp>>

WriteManifest(r) ==
  /\ cmd[r].pc = "manifest"
  /\ saved' = [saved EXCEPT ![r].manifest = TRUE]
  /\ Become(r, "installing") /\ UNCHANGED <<source, tmp>>

\* What each loop writes, and where a command goes when a write of its loop raises.
Wanted(r) == IF cmd[r].pc = "installing" THEN r ELSE Original
OnError(r) == IF cmd[r].pc = "installing" THEN "undoing" ELSE "failed"
After(r) == CASE cmd[r].pc = "installing" -> "recording"
              [] cmd[r].pc = "undoing"    -> "failed"
              [] cmd[r].pc = "restoring"  -> "recording"
InLoop(r) == cmd[r].pc \in {"installing", "undoing", "restoring"} /\ ~cmd[r].writing

\* install replaces every source, the undoing those that carry this patch, restore
\* those that are not the original.
Replaces(r) == CASE cmd[r].pc = "installing" -> TRUE
                 [] cmd[r].pc = "undoing"    -> source[cmd[r].at] = r
                 [] cmd[r].pc = "restoring"  -> source[cmd[r].at] # Original
Skip(r) == InLoop(r) /\ ~Replaces(r) /\ Advance(r, After(r)) /\ UNCHANGED files

\* atomic: a temporary file left behind, or a source changed meanwhile, stops the loop.
OpenTemporary(r) ==
  /\ InLoop(r) /\ Replaces(r)
  /\ IF \/ cmd[r].at \in tmp[r]
        \/ cmd[r].pc = "installing" /\ source[cmd[r].at] # Original
     THEN Become(r, OnError(r)) /\ UNCHANGED tmp
     ELSE /\ tmp' = [tmp EXCEPT ![r] = @ \union {cmd[r].at}]
          /\ cmd' = [cmd EXCEPT ![r].writing = TRUE]
  /\ UNCHANGED <<source, saved>>

ReplaceSource(r) ==
  /\ cmd[r].writing
  /\ source' = [source EXCEPT ![cmd[r].at] = Wanted(r)]
  /\ tmp' = [tmp EXCEPT ![r] = @ \ {cmd[r].at}]
  /\ Advance(r, After(r))
  /\ UNCHANGED saved

\* restore checks manifest, backups and installed contents before it changes any source.
MayRestore(r) == /\ saved[r].manifest /\ saved[r].backups = Sources
                 /\ \A k \in Sources : source[k] \in {Original, r}
CheckRestore(r) ==
  /\ cmd[r].pc = "checking"
  /\ Become(r, IF MayRestore(r) THEN "restoring" ELSE "failed")
  /\ UNCHANGED files

RecordCommand(r) == cmd[r].pc = "recording" /\ Become(r, "done") /\ UNCHANGED files

\* A write fails or the keyboard interrupts the command: an install in its loop undoes
\* what it did, anything else gives up.  A temporary file that was begun stays.
CommandFails(r) == Running(r) /\ Become(r, OnError(r)) /\ UNCHANGED files
KillCommand(r) == Running(r) /\ Become(r, "none") /\ UNCHANGED files

CommandStep(r) == \/ Prepared(r) \/ SaveSource(r) \/ WriteManifest(r) \/ Skip(r)
                  \/ OpenTemporary(r) \/ ReplaceSource(r) \/ CheckRestore(r)
                  \/ RecordCommand(r) \/ CommandFails(r) \/ KillCommand(r)
=============================================================================
