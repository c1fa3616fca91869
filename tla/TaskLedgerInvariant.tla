-------------------------- MODULE TaskLedgerInvariant --------------------------
(***************************************************************************)
(* The inductive invariant behind the properties of TaskLedgerProperties:  *)
(* what holds of the files between any two writes.                         *)
(***************************************************************************)
EXTENDS TaskLedgerProperties

\* The writes of new-loop, and those of verdict.
Creates == {"loop state", "loop decision", "loop delta", "loop index"}
Reduces == {"knowledge", "baselines", "loop-index", "verdict index"}

\* Files exist for the loops of the order, and only in loop directories.
Registered ==
  /\ active # Nothing => active \in Indexed
  /\ completed => active = Nothing
  /\ UndecidedIsActive
  /\ \A l \in Loops :
       /\ l \in Indexed => /\ l \in dirs /\ state[l] # Nothing
                        /\ decision[l] # Nothing /\ delta[l] # Nothing
       /\ l \notin dirs => /\ state[l] = Nothing /\ decision[l] = Nothing
                           /\ delta[l] = Nothing

\* new-loop under way: no loop is active, the new one is not in the order yet,
\* and its files appear one after the other.
Creating ==
  op.write \in Creates =>
    /\ op.loop \in dirs /\ op.loop \notin Indexed
    /\ active = Nothing /\ ~completed
    /\ state[op.loop] \in {"FROZEN", Nothing}
    /\ op.write # "loop state" => state[op.loop] # Nothing
    /\ (decision[op.loop] = Nothing) <=>
         (op.write \in {"loop state", "loop decision"})
    /\ (delta[op.loop] = Nothing) <=> (op.write # "loop index")

\* verdict under way: the decision is written, and the loop is the active one
\* once the index has been read.
Deciding ==
  /\ op.write \in {"verdict state"} \cup Reduces =>
       /\ op.loop \in Loops /\ op.verdict \in Verdicts
       /\ decision[op.loop] = op.verdict
  /\ op.write \in Reduces => active = op.loop
  /\ \A l \in Loops : state[l] \in Verdicts => decision[l] = state[l]

\* new-run or finish-run under way, or the last write of a command; a result
\* belongs to a recorded run and is written once.
Recording ==
  /\ op.write \in {"run state", "result", "result state", "loop status"} =>
       op.loop \in Loops /\ state[op.loop] # Nothing
  /\ op.write = "result" => /\ op.run \in Runs /\ op.outcome \in Outcomes
                            /\ result[op.loop][op.run] = Nothing
                            /\ manifest[op.loop][op.run] # Nothing
                            /\ manifest[op.loop][op.run].status = "RECORDED"
  /\ \A l \in Loops, r \in Runs : result[l][r] # Nothing =>
       manifest[l][r] # Nothing /\ manifest[l][r].status = "RECORDED"

\* Staged baselines are proven, whatever becomes of the loop.
StagedProven ==
  \A l \in Loops, c \in Cases :
    delta[l] # Nothing /\ delta[l].baselines[c] # Nothing =>
      /\ c \in cases
      /\ CaseOf(delta[l].baselines[c]) = c
      /\ Passed(result[l][delta[l].baselines[c]])

\* Staged replacements can be applied, now and later.
StagedResolvable ==
  \A l \in Loops : delta[l] # Nothing =>
    Replaced(delta[l]) \subseteq Known \cup ChangeIds(delta[l])

\* Knowledge and baselines come from decided loops.
Reduced ==
  /\ KnowledgeFromDecidedLoops
  /\ \A k \in Known : delta[knowledge[k].source] # Nothing
  /\ BaselinesProven
  /\ \A c \in Cases : baselines[c] # Nothing => c \in cases

IInv ==
  /\ FilesTypeOK
  /\ Registered
  /\ Creating
  /\ Deciding
  /\ Recording
  /\ StagedProven
  /\ StagedResolvable
  /\ Reduced

-----------------------------------------------------------------------------
\* A loop has runs only after its state; a loop being created has none, and one
\* whose run or verdict is being recorded has some.
NoRun(l) == \A r \in Runs : manifest[l][r] = Nothing

RunsFollow ==
  /\ \A l \in Loops : state[l] = Nothing => NoRun(l)
  /\ op.write \in Creates => NoRun(op.loop)
  /\ op.write \in {"result", "result state", "verdict state"} => ~NoRun(op.loop)

\* The two late files.  A loop in the order without its status has no run, until
\* a run is planned by the command that will write the status.
StatusLate ==
  \A l \in Loops : l \in Indexed \ rendered =>
    /\ l \notin Range(crashes) => Writing("loop status") /\ op.loop = l /\ Unrun(l)
    /\ Len(crashes) = 1 =>
         Unrun(l) \/ (op.loop = l /\ op.write \in {"run state", "loop status"})

ResultLate ==
  \A l \in Loops, r \in Runs : ResultMissing(l, r) /\ l \notin Range(crashes) =>
    Writing("result") /\ op.loop = l /\ op.run = r

LateKept == RunsFollow /\ StatusLate /\ ResultLate

-----------------------------------------------------------------------------
Rows == [loop : Loops, verdict : Verdicts]

\* The loop index and the command under way: verdict finds no row of its loop
\* and leaves one before it clears the active loop, the last of the order.
IndexKept ==
  /\ loopIndex \in Seq(Rows)
  /\ LoopIndexFaithful
  /\ active # Nothing => order # <<>> /\ active = order[Len(order)]
  /\ op.write \in {"verdict state", "knowledge", "baselines", "loop-index"} =>
       ~LoopIndexed(op.loop)
  /\ op.write = "verdict index" => LoopIndexed(op.loop)

\* The evidence level and the closed loops that it stands on.
ClosedAccepted(m) == {l \in Accepted(m) : l # active}

EvidenceKept ==
  /\ \A l \in Loops : decision[l] = "ACCEPTED" /\ mode[l] = "optimization" =>
       l \in compared
  /\ evidence = 2 => ClosedAccepted("baseline") # {}
  /\ evidence \in 3..4 => \E l \in ClosedAccepted("optimization") : Profiled(l)
  /\ evidence = 4 => \E k, l \in ClosedAccepted("optimization") : k # l
=============================================================================
