------------------------- MODULE TaskLedgerProperties -------------------------
(***************************************************************************)
(* Properties of the task ledger of scripts/taskctl.py.                    *)
(***************************************************************************)
EXTENDS TaskLedger

Writes == {"none", "loop state", "loop decision", "loop delta", "loop index",
           "run state", "result", "result state", "verdict state",
           "knowledge", "baselines", "loop-index", "verdict index",
           "loop status"}

Commands == [write : Writes, loop : Loops \cup {Nothing},
             run : Runs \cup {Nothing},
             outcome : Outcomes \cup {Nothing},
             verdict : Verdicts \cup {Nothing},
             updateBaseline : BOOLEAN]
States == {"FROZEN", "RUNNING", "EVALUATING", Nothing} \cup Verdicts
Decisions == {"PENDING", Nothing} \cup Verdicts

\* Every file but the loop index holds a value of its type, and the command
\* under way is one of those that write several files.
FilesTypeOK ==
  /\ completed \in BOOLEAN
  /\ active \in Loops \cup {Nothing}
  /\ order \in Seq(Loops)
  /\ evidence \in 0..4
  /\ cases \subseteq Cases
  /\ knowledge \in [Knowledge -> Entries \cup {Nothing}]
  /\ baselines \in [Cases -> Baselines \cup {Nothing}]
  /\ rendered \subseteq Loops
  /\ dirs \subseteq Loops
  /\ mode \in [Loops -> Modes \cup {Nothing}]
  /\ scope \in [Loops -> SUBSET Cases]
  /\ state \in [Loops -> States]
  /\ decision \in [Loops -> Decisions]
  /\ delta \in [Loops -> Deltas \cup {Nothing}]
  /\ manifest \in [Loops -> [Runs -> Manifests \cup {Nothing}]]
  /\ result \in [Loops -> [Runs -> Outcomes \cup {Nothing}]]
  /\ compared \subseteq Loops
  /\ op \in Commands
  /\ crashes \in Seq(Loops) /\ Len(crashes) <= MaxCrashes

\* Every file holds a value that the code could have written; the loop index
\* holds decided loops only.
TypeOK == FilesTypeOK /\ loopIndex \in Seq([loop : Loops, verdict : Verdicts])

Indexed == Range(order)

\* A loop of the task that has no verdict is the active one: neither a crash
\* inside new-loop nor one inside verdict leaves an undecided loop that the
\* index has forgotten, so a completed task has no undecided loop.
UndecidedIsActive ==
  \A l \in Loops : l \in Indexed /\ decision[l] = "PENDING" => active = l

\* What validate requires of the index, the loops' data and the baselines holds
\* after every write and every crash: the active loop is in the order, a
\* completed task has none, each loop of the order has its state, decision and
\* staged changes and its cases are registered, a status that is a verdict is
\* the decision, and a baseline's case is registered.
DataValidates ==
  /\ active # Nothing => active \in Indexed
  /\ completed => active = Nothing
  /\ \A l \in Loops :
       /\ l \in Indexed => /\ l \in dirs /\ state[l] # Nothing
                        /\ decision[l] # Nothing /\ delta[l] # Nothing
                        /\ scope[l] \subseteq cases
       /\ state[l] \in Verdicts => decision[l] = state[l]
  /\ \A c \in Cases : baselines[c] # Nothing => c \in cases

Unrun(l) == state[l] = "FROZEN" /\ \A r \in Runs : manifest[l][r] = Nothing
ResultMissing(l, r) ==
  /\ manifest[l][r] # Nothing /\ manifest[l][r].status = "RECORDED"
  /\ result[l][r] = Nothing

\* The two files that validate requires and the code writes last: new-loop puts
\* a loop in the order before it writes the loop's status.md, and finish-run
\* records a run before it writes its result.  Between the two writes, and after
\* a crash there, validate fails.  These are the only ways: unless a command of
\* that loop was cut short, a missing file is the next write; and a single crash
\* leaves the status missing only of a loop that has no run yet, or while the
\* next command of the loop, which ends by writing it, is under way.
LateFiles ==
  \A l \in Loops :
    /\ l \in Indexed \ rendered =>
         /\ l \notin Range(crashes) => Writing("loop status") /\ op.loop = l
         /\ Len(crashes) = 1 => op.loop = l \/ Unrun(l)
    /\ l \notin Range(crashes) => \A r \in Runs : ResultMissing(l, r) =>
         Writing("result") /\ op.loop = l /\ op.run = r

LedgerValidates == DataValidates /\ LateFiles

\* Each piece of task knowledge carries the final decision of the loop that
\* staged it, whatever loops replaced or superseded it later.
KnowledgeFromDecidedLoops ==
  \A k \in Known : LET l == knowledge[k].source
                   IN  /\ decision[l] = knowledge[k].verdict
                       /\ k \in ChangeIds(delta[l])

\* A baseline comes from an accepted loop and from a run of it on that case
\* that passed, was correct and reported a metric.
BaselinesProven ==
  \A c \in Cases : baselines[c] # Nothing =>
    LET b == baselines[c]
    IN  /\ decision[b.loop] = "ACCEPTED"
        /\ CaseOf(b.run) = c
        /\ Passed(result[b.loop][b.run])

\* When a verdict reduces the staged changes, every replaced id is there:
\* apply_knowledge_delta never stops in the middle of a verdict.
ReplacementsResolvable ==
  Writing("knowledge") =>
    Replaced(delta[op.loop]) \subseteq Known \cup ChangeIds(delta[op.loop])

LoopIndexed(l) == \E i \in DOMAIN loopIndex : loopIndex[i].loop = l

\* The loop index, appended to by verdict and rebuilt by compact, lists every
\* closed loop once, in the task's order, with the decision of that loop.
LoopIndexFaithful ==
  /\ \A i \in DOMAIN loopIndex :
       /\ loopIndex[i].loop \in Indexed
       /\ loopIndex[i].verdict = decision[loopIndex[i].loop]
  /\ \A i, j \in DOMAIN loopIndex : i < j =>
       \E m, n \in DOMAIN order : /\ m < n
                                  /\ order[m] = loopIndex[i].loop
                                  /\ order[n] = loopIndex[j].loop
  /\ \A l \in Loops : l \in Indexed /\ l # active => LoopIndexed(l)

\* Together: the files hold values that the code could have written, and the
\* index, the loop index and the loops' own files tell one story.
IndexAgrees == TypeOK /\ UndecidedIsActive /\ LedgerValidates /\ LoopIndexFaithful

Accepted(m) ==
  {l \in Loops : l \in Indexed /\ decision[l] = "ACCEPTED" /\ mode[l] = m}

\* The evidence level of the task is backed by loops: benchmarked needs an
\* accepted baseline loop, profiled an accepted and compared optimization loop
\* with a recorded profile, iterated a second accepted optimization loop.
EvidenceBacked ==
  /\ evidence = 2 => Accepted("baseline") # {}
  /\ evidence \in 3..4 => \E l \in Accepted("optimization") :
                            Profiled(l) /\ l \in compared
  /\ evidence = 4 => Cardinality(Accepted("optimization")) >= 2

\* The ledger implements the history it stands for: loops open one at a time
\* and settle once, by a final verdict, before the task completes.
History == INSTANCE TaskHistory WITH
  settled <- [l \in Loops |-> IF l \in Indexed /\ l # active THEN decision[l]
                                                          ELSE Nothing],
  current <- active
TaskHistorySpec == History!Spec

-----------------------------------------------------------------------------

\* What the command line tool says of an ended loop: no run and no knowledge
\* or baseline change is added to it.
Closed(l) == l \in Indexed /\ l # active
EndedLoopIsFrozen ==
  [][\A l \in Loops : Closed(l) =>
       /\ delta'[l] = delta[l]
       /\ \A r \in Runs :
            manifest[l][r] = Nothing => manifest'[l][r] = Nothing]_vars

\* A verdict that the command line tool refuses leaves the loop undecided: at
\* rest the active loop is one that can still get its verdict.
RestingActiveLoopIsPending ==
  op = Idle /\ active # Nothing => decision[active] = "PENDING"
=============================================================================
