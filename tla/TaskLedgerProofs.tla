------------------------- MODULE TaskLedgerProofs -------------------------
(***************************************************************************)
(* The task ledger, proved: its invariant holds after every write and      *)
(* every interruption, for any number of loops, cases, runs, knowledge ids *)
(* and crashes, and its files implement the history of TaskHistory.  One   *)
(* lemma per step: it first says what the step leaves alone and what it    *)
(* writes, then goes through the parts of TaskLedgerInvariant.  The loop   *)
(* index, the evidence level and the files that are written last have      *)
(* invariants of their own, which rest on the first.                       *)
(***************************************************************************)
EXTENDS TaskLedgerInvariant, SequenceTheorems, FiniteSetTheorems,
        WellFoundedInduction, TLAPS

\* Nothing is none of the values that a file may hold.
LEMMA NothingElse ==
  /\ Nothing \notin Loops /\ Nothing \notin Runs /\ Nothing \notin Outcomes
  /\ Nothing \notin Verdicts \cup {"PENDING", "FROZEN", "RUNNING", "EVALUATING"}
  /\ Nothing \notin Entries /\ Nothing \notin Deltas
  /\ Nothing \notin Baselines /\ Nothing \notin Manifests
BY LedgerAssumption

\* The next write of a command keeps the command's arguments.
LEMMA ThenKeepsArguments ==
  ASSUME op \in Commands, NEW file \in Writes, Then(file)
  PROVE  /\ op' \in Commands
         /\ op'.write = file /\ op'.loop = op.loop /\ op'.run = op.run
         /\ op'.outcome = op.outcome /\ op'.verdict = op.verdict
BY DEF Then, Commands

\* A finished or interrupted command leaves no write behind.
LEMMA DoneIsIdle ==
  ASSUME Done
  PROVE  op' \in Commands /\ op'.write = "none"
BY DEF Done, Idle, Commands, Writes

\* What staged changes, baselines and knowledge entries refer to.
LEMMA ReferenceTypes ==
  ASSUME FilesTypeOK
  PROVE  /\ delta \in [Loops -> Deltas \cup {Nothing}]
         /\ baselines \in [Cases -> Baselines \cup {Nothing}]
         /\ knowledge \in [Knowledge -> Entries \cup {Nothing}]
         /\ \A d \in Deltas, c \in Cases : d.baselines[c] \in Runs \cup {Nothing}
         /\ \A b \in Baselines : b.loop \in Loops /\ b.run \in Runs
         /\ \A e \in Entries : e.source \in Loops /\ e.verdict \in Verdicts
BY DEF FilesTypeOK, Deltas, Baselines, Entries

\* Baselines stay proven while accepted loops stay accepted and results stay.
LEMMA BaselinesStayProven ==
  ASSUME FilesTypeOK, BaselinesProven, UNCHANGED baselines,
         \A l \in Loops : decision[l] = "ACCEPTED" => decision'[l] = "ACCEPTED",
         \A l \in Loops, r \in Runs :
            result[l][r] # Nothing => result'[l][r] = result[l][r]
  PROVE  BaselinesProven'
<1> SUFFICES ASSUME NEW c \in Cases, baselines[c] # Nothing
             PROVE  /\ decision'[baselines[c].loop] = "ACCEPTED"
                    /\ CaseOf(baselines[c].run) = c
                    /\ Passed(result'[baselines[c].loop][baselines[c].run])
  BY DEF BaselinesProven
<1>1. baselines[c].loop \in Loops /\ baselines[c].run \in Runs
  BY ReferenceTypes
<1>2. /\ decision[baselines[c].loop] = "ACCEPTED"
      /\ CaseOf(baselines[c].run) = c
      /\ Passed(result[baselines[c].loop][baselines[c].run])
  BY DEF BaselinesProven
<1> QED
  BY <1>1, <1>2 DEF Passed

\* The command under way works on a loop.
LEMMA LoopOfWrite ==
  ASSUME IInv, op.write # "none"
  PROVE  op \in Commands /\ op.loop \in Loops
<1>1. op \in Commands /\ dirs \subseteq Loops
  BY DEF IInv, FilesTypeOK
<1>2. op.write \in Writes
  BY <1>1 DEF Commands
<1>3. op.write \in Creates \cup {"verdict state"} \cup Reduces
                   \cup {"run state", "result", "result state", "loop status"}
  BY <1>2 DEF Writes, Creates, Reduces
<1>4. CASE op.write \in Creates
  BY <1>1, <1>4 DEF IInv, Creating
<1>5. CASE op.write \in {"verdict state"} \cup Reduces
  BY <1>1, <1>5 DEF IInv, Deciding
<1>6. CASE op.write \in {"run state", "result", "result state", "loop status"}
  BY <1>1, <1>6 DEF IInv, Recording
<1> QED
  BY <1>3, <1>4, <1>5, <1>6

\* What is in a sequence of loops once another is appended.
LEMMA AppendedLoop ==
  ASSUME NEW s \in Seq(Loops), NEW l \in Loops
  PROVE  Range(Append(s, l)) = Range(s) \cup {l}
<1>1. /\ Len(Append(s, l)) = Len(s) + 1
      /\ \A i \in 1..Len(s) : Append(s, l)[i] = s[i]
      /\ Append(s, l)[Len(s) + 1] = l
      /\ Append(s, l) \in Seq(Loops)
  BY AppendProperties
<1>2. /\ DOMAIN s = 1..Len(s) /\ Len(s) \in Nat
      /\ DOMAIN Append(s, l) = 1..(Len(s) + 1)
  BY <1>1, LenProperties
<1> QED
  BY <1>1, <1>2 DEF Range

\* A loop is in the order when it was, or when it is the one appended.
LEMMA AppendedInOrder ==
  ASSUME order \in Seq(Loops), NEW l \in Loops, order' = Append(order, l)
  PROVE  /\ order' \in Seq(Loops)
         /\ Indexed' = Indexed \cup {l}
BY AppendedLoop, AppendProperties DEF Indexed

LEMMA AddCaseStep ==
  ASSUME IInv, NEW c \in Cases, AddCase(c)
  PROVE  IInv'
<1> USE NothingElse DEF IInv
<1>1. UNCHANGED <<completed, active, order, evidence, knowledge, baselines,
                  rendered, dirs, mode, scope, state, decision, delta, manifest,
                  result, compared, op, crashes>>
  BY DEF AddCase, vars, indexVars, reducedVars, loopVars, runVars
<1>2. Indexed' = Indexed
  BY <1>1 DEF Indexed
<1>3. cases \subseteq cases' /\ cases' \subseteq Cases
  BY LedgerAssumption DEF AddCase, FilesTypeOK
<1>4. FilesTypeOK'
  BY <1>1, <1>3 DEF FilesTypeOK
<1>5. Registered'
  BY <1>1, <1>2 DEF Registered, UndecidedIsActive, Verdicts
<1>6. Creating'
  BY <1>1, <1>2 DEF Creating, Creates
<1>7. Deciding'
  BY <1>1 DEF Deciding, Reduces, Verdicts
<1>8. Recording'
  BY <1>1 DEF Recording
<1>9. StagedProven'
  BY <1>1, <1>3 DEF StagedProven, Passed
<1>10. StagedResolvable'
  BY <1>1 DEF StagedResolvable, Known
<1>11. Reduced'
  BY <1>1, <1>3 DEF Reduced, KnowledgeFromDecidedLoops, BaselinesProven, Known,
                    Passed
<1> QED
  BY <1>4, <1>5, <1>6, <1>7, <1>8, <1>9, <1>10, <1>11

LEMMA NewLoopStep ==
  ASSUME IInv, NEW l \in Loops, NEW m \in Modes, NEW frozen \in Scopes, NewLoop(l, m, frozen)
  PROVE  IInv'
<1> USE NothingElse DEF IInv
<1>1. UNCHANGED <<completed, active, order, evidence, cases, knowledge,
                  baselines, rendered, state, decision, delta, manifest, result,
                  compared, crashes>>
  BY DEF NewLoop, vars, indexVars, reducedVars, loopVars, runVars
<1>2. Indexed' = Indexed
  BY <1>1 DEF Indexed
<1>3. op.write = "none" /\ ~completed /\ active = Nothing /\ l \notin dirs
  BY DEF NewLoop, Idle
<1>4. /\ state[l] = Nothing /\ decision[l] = Nothing /\ delta[l] = Nothing
      /\ l \notin Indexed
  BY <1>3 DEF Registered
<1>5. dirs' = dirs \cup {l} /\ dirs' \subseteq Loops
      /\ mode' \in [Loops -> Modes \cup {Nothing}] /\ scope' \in [Loops -> SUBSET Cases]
  BY LedgerAssumption DEF NewLoop, FilesTypeOK
<1>6. op' \in Commands /\ op'.write = "loop state" /\ op'.loop = l
  BY LedgerAssumption DEF NewLoop, Idle, Commands, Writes
<1>7. FilesTypeOK'
  BY <1>1, <1>5, <1>6 DEF FilesTypeOK
<1>8. Registered'
  BY <1>1, <1>2, <1>5 DEF Registered, UndecidedIsActive, Verdicts
<1>9. Creating'
  BY <1>1, <1>2, <1>3, <1>4, <1>5, <1>6 DEF Creating, Creates
<1>10. Deciding'
  BY <1>1, <1>6 DEF Deciding, Reduces, Verdicts
<1>11. Recording'
  BY <1>1, <1>6 DEF Recording
<1>12. StagedProven'
  BY <1>1 DEF StagedProven, Passed
<1>13. StagedResolvable'
  BY <1>1 DEF StagedResolvable, Known
<1>14. Reduced'
  BY <1>1 DEF Reduced, KnowledgeFromDecidedLoops, BaselinesProven, Known, Passed
<1> QED
  BY <1>7, <1>8, <1>9, <1>10, <1>11, <1>12, <1>13, <1>14

LEMMA WriteLoopStateStep ==
  ASSUME IInv, WriteLoopState
  PROVE  IInv'
<1> USE NothingElse DEF IInv
<1>1. UNCHANGED <<completed, active, order, evidence, cases, knowledge,
                  baselines, rendered, dirs, mode, scope, decision, delta,
                  manifest, result, compared, crashes>>
  BY DEF WriteLoopState, vars, indexVars, reducedVars, loopVars, runVars
<1>2. Indexed' = Indexed
  BY <1>1 DEF Indexed
<1>3. op.write = "loop state"
  BY DEF WriteLoopState, Writing
<1>4. op \in Commands /\ op.loop \in Loops
  BY <1>3, LoopOfWrite
<1>5. op' \in Commands /\ op'.write = "loop decision" /\ op'.loop = op.loop
      /\ op'.run = op.run /\ op'.outcome = op.outcome /\ op'.verdict = op.verdict
  BY <1>4, ThenKeepsArguments DEF WriteLoopState, Writes
<1>6. /\ op.loop \in dirs /\ op.loop \notin Indexed
      /\ active = Nothing /\ ~completed
      /\ decision[op.loop] = Nothing /\ delta[op.loop] = Nothing
  BY <1>3 DEF Creating, Creates
<1>7. /\ state' \in [Loops -> States] /\ state'[op.loop] = "FROZEN"
      /\ \A x \in Loops \ {op.loop} : state'[x] = state[x]
  BY <1>4, LedgerAssumption DEF WriteLoopState, FilesTypeOK, States
<1>8. FilesTypeOK'
  BY <1>1, <1>5, <1>7 DEF FilesTypeOK
<1>9. Registered'
  BY <1>1, <1>2, <1>6, <1>7 DEF Registered, UndecidedIsActive, Verdicts
<1>10. Creating'
  BY <1>1, <1>2, <1>3, <1>5, <1>7 DEF Creating, Creates
<1>11. Deciding'
  BY <1>1, <1>5, <1>7 DEF Deciding, Reduces, Verdicts
<1>12. Recording'
  BY <1>1, <1>5 DEF Recording
<1>13. StagedProven'
  BY <1>1 DEF StagedProven, Passed
<1>14. StagedResolvable'
  BY <1>1 DEF StagedResolvable, Known
<1>15. Reduced'
  BY <1>1 DEF Reduced, KnowledgeFromDecidedLoops, BaselinesProven, Known, Passed
<1> QED
  BY <1>8, <1>9, <1>10, <1>11, <1>12, <1>13, <1>14, <1>15

LEMMA WriteLoopDecisionStep ==
  ASSUME IInv, WriteLoopDecision
  PROVE  IInv'
<1> USE NothingElse DEF IInv
<1>1. UNCHANGED <<completed, active, order, evidence, cases, knowledge,
                  baselines, rendered, dirs, mode, scope, state, delta,
                  manifest, result, compared, crashes>>
  BY DEF WriteLoopDecision, vars, indexVars, reducedVars, loopVars, runVars
<1>2. Indexed' = Indexed
  BY <1>1 DEF Indexed
<1>3. op.write = "loop decision"
  BY DEF WriteLoopDecision, Writing
<1>4. op \in Commands /\ op.loop \in Loops
  BY <1>3, LoopOfWrite
<1>5. op' \in Commands /\ op'.write = "loop delta" /\ op'.loop = op.loop
      /\ op'.run = op.run /\ op'.outcome = op.outcome /\ op'.verdict = op.verdict
  BY <1>4, ThenKeepsArguments DEF WriteLoopDecision, Writes
<1>6. /\ op.loop \in dirs /\ op.loop \notin Indexed
      /\ active = Nothing /\ ~completed
      /\ decision[op.loop] = Nothing /\ delta[op.loop] = Nothing
      /\ state[op.loop] # Nothing /\ state[op.loop] \notin Verdicts
  BY <1>3 DEF Creating, Creates, Verdicts
<1>7. /\ decision' \in [Loops -> Decisions] /\ decision'[op.loop] = "PENDING"
      /\ \A x \in Loops \ {op.loop} : decision'[x] = decision[x]
  BY <1>4, LedgerAssumption DEF WriteLoopDecision, FilesTypeOK, Decisions
<1>8. /\ delta \in [Loops -> Deltas \cup {Nothing}]
      /\ baselines \in [Cases -> Baselines \cup {Nothing}]
      /\ knowledge \in [Knowledge -> Entries \cup {Nothing}]
      /\ \A d \in Deltas, c \in Cases : d.baselines[c] \in Runs \cup {Nothing}
      /\ \A b \in Baselines : b.loop \in Loops /\ b.run \in Runs
      /\ \A e \in Entries : e.source \in Loops /\ e.verdict \in Verdicts
  BY ReferenceTypes
<1>9. FilesTypeOK'
  BY <1>1, <1>5, <1>7 DEF FilesTypeOK
<1>10. Registered'
  BY <1>1, <1>2, <1>6, <1>7 DEF Registered, UndecidedIsActive, Verdicts
<1>11. Creating'
  BY <1>1, <1>2, <1>3, <1>5, <1>7 DEF Creating, Creates
<1>12. Deciding'
  BY <1>1, <1>5, <1>6, <1>7 DEF Deciding, Reduces, Verdicts
<1>13. Recording'
  BY <1>1, <1>5 DEF Recording
<1>14. StagedProven'
  BY <1>1 DEF StagedProven, Passed
<1>15. StagedResolvable'
  BY <1>1 DEF StagedResolvable, Known
<1>16. Reduced'
  <2>1. KnowledgeFromDecidedLoops'
    BY <1>1, <1>6, <1>7, <1>8 DEF Reduced, KnowledgeFromDecidedLoops, Known
  <2>2. (\A x \in Known : delta[knowledge[x].source] # Nothing)'
    BY <1>1 DEF Reduced, Known
  <2>3. BaselinesProven'
    BY <1>1, <1>6, <1>7, BaselinesStayProven DEF Reduced, Verdicts
  <2>4. (\A x \in Cases : baselines[x] # Nothing => x \in cases)'
    BY <1>1 DEF Reduced
  <2> QED
    BY <2>1, <2>2, <2>3, <2>4 DEF Reduced
<1> QED
  BY <1>9, <1>10, <1>11, <1>12, <1>13, <1>14, <1>15, <1>16

LEMMA WriteLoopDeltaStep ==
  ASSUME IInv, WriteLoopDelta
  PROVE  IInv'
<1> USE NothingElse DEF IInv
<1>1. UNCHANGED <<completed, active, order, evidence, cases, knowledge,
                  baselines, rendered, dirs, mode, scope, state, decision,
                  manifest, result, compared, crashes>>
  BY DEF WriteLoopDelta, vars, indexVars, reducedVars, loopVars, runVars
<1>2. Indexed' = Indexed
  BY <1>1 DEF Indexed
<1>3. op.write = "loop delta"
  BY DEF WriteLoopDelta, Writing
<1>4. op \in Commands /\ op.loop \in Loops
  BY <1>3, LoopOfWrite
<1>5. op' \in Commands /\ op'.write = "loop index" /\ op'.loop = op.loop
      /\ op'.run = op.run /\ op'.outcome = op.outcome /\ op'.verdict = op.verdict
  BY <1>4, ThenKeepsArguments DEF WriteLoopDelta, Writes
<1>6. /\ op.loop \in dirs /\ op.loop \notin Indexed
      /\ active = Nothing /\ ~completed
      /\ decision[op.loop] # Nothing /\ delta[op.loop] = Nothing
      /\ state[op.loop] # Nothing /\ state[op.loop] \notin Verdicts
  BY <1>3 DEF Creating, Creates, Verdicts
<1>7. /\ EmptyDelta \in Deltas /\ Replaced(EmptyDelta) = {}
      /\ \A c \in Cases : EmptyDelta.baselines[c] = Nothing
  BY DEF EmptyDelta, Deltas, Replaced
<1>8. /\ delta' \in [Loops -> Deltas \cup {Nothing}] /\ delta'[op.loop] = EmptyDelta
      /\ \A x \in Loops \ {op.loop} : delta'[x] = delta[x]
  BY <1>4, <1>7, LedgerAssumption DEF WriteLoopDelta, FilesTypeOK
<1>9. /\ delta \in [Loops -> Deltas \cup {Nothing}]
      /\ baselines \in [Cases -> Baselines \cup {Nothing}]
      /\ knowledge \in [Knowledge -> Entries \cup {Nothing}]
      /\ \A d \in Deltas, c \in Cases : d.baselines[c] \in Runs \cup {Nothing}
      /\ \A b \in Baselines : b.loop \in Loops /\ b.run \in Runs
      /\ \A e \in Entries : e.source \in Loops /\ e.verdict \in Verdicts
  BY ReferenceTypes
<1>10. FilesTypeOK'
  BY <1>1, <1>5, <1>8 DEF FilesTypeOK
<1>11. Registered'
  BY <1>1, <1>2, <1>6, <1>8 DEF Registered, UndecidedIsActive, Verdicts
<1>12. Creating'
  BY <1>1, <1>2, <1>3, <1>5, <1>7, <1>8 DEF Creating, Creates
<1>13. Deciding'
  BY <1>1, <1>5 DEF Deciding, Reduces, Verdicts
<1>14. Recording'
  BY <1>1, <1>5 DEF Recording
<1>15. StagedProven'
  <2> SUFFICES ASSUME NEW l \in Loops, NEW c \in Cases,
                      delta'[l] # Nothing, delta'[l].baselines[c] # Nothing
               PROVE  /\ c \in cases
                      /\ CaseOf(delta'[l].baselines[c]) = c
                      /\ Passed(result[l][delta'[l].baselines[c]])
    BY <1>1 DEF StagedProven
  <2>1. l # op.loop
    BY <1>7, <1>8
  <2>2. delta'[l] = delta[l]
    BY <1>8, <2>1
  <2> QED
    BY <2>2 DEF StagedProven
<1>16. StagedResolvable'
  BY <1>1, <1>7, <1>8 DEF StagedResolvable, Known
<1>17. Reduced'
  <2>1. KnowledgeFromDecidedLoops'
    BY <1>1, <1>6, <1>8, <1>9 DEF Reduced, KnowledgeFromDecidedLoops, Known
  <2>2. (\A x \in Known : delta[knowledge[x].source] # Nothing)'
    <3> SUFFICES ASSUME NEW x \in Knowledge, knowledge[x] # Nothing
                 PROVE  delta'[knowledge[x].source] # Nothing
      BY <1>1 DEF Known
    <3>1. knowledge[x].source \in Loops /\ delta[knowledge[x].source] # Nothing
      BY <1>9 DEF Reduced, Known
    <3> QED
      BY <1>6, <1>8, <3>1
  <2>3. BaselinesProven'
    BY <1>1 DEF Reduced, BaselinesProven, Passed
  <2>4. (\A x \in Cases : baselines[x] # Nothing => x \in cases)'
    BY <1>1 DEF Reduced
  <2> QED
    BY <2>1, <2>2, <2>3, <2>4 DEF Reduced
<1> QED
  BY <1>10, <1>11, <1>12, <1>13, <1>14, <1>15, <1>16, <1>17

LEMMA WriteLoopInIndexStep ==
  ASSUME IInv, WriteLoopInIndex
  PROVE  IInv'
<1> USE NothingElse DEF IInv
<1>1. UNCHANGED <<completed, evidence, cases, knowledge, baselines, rendered,
                  dirs, mode, scope, state, decision, delta, manifest, result,
                  compared, crashes>>
  BY DEF WriteLoopInIndex, vars, indexVars, reducedVars, loopVars, runVars
<1>2. op.write = "loop index"
  BY DEF WriteLoopInIndex, Writing
<1>3. op \in Commands /\ op.loop \in Loops
  BY <1>2, LoopOfWrite
<1>4. op' \in Commands /\ op'.write = "loop status" /\ op'.loop = op.loop
  BY <1>3, ThenKeepsArguments DEF WriteLoopInIndex, Writes
<1>5. /\ op.loop \in dirs /\ op.loop \notin Indexed
      /\ active = Nothing /\ ~completed
      /\ state[op.loop] # Nothing /\ decision[op.loop] # Nothing
      /\ delta[op.loop] # Nothing
  BY <1>2 DEF Creating, Creates
<1>6. active' = op.loop
  BY LedgerAssumption DEF WriteLoopInIndex
<1>7. order' \in Seq(Loops)
      /\ Indexed' = Indexed \cup {op.loop}
  BY <1>3, LedgerAssumption, AppendedInOrder DEF WriteLoopInIndex, FilesTypeOK
<1>8. FilesTypeOK'
  BY <1>1, <1>3, <1>4, <1>6, <1>7 DEF FilesTypeOK
<1>9. Registered'
  BY <1>1, <1>5, <1>6, <1>7 DEF Registered, UndecidedIsActive, Verdicts
<1>10. Creating'
  BY <1>4 DEF Creating, Creates
<1>11. Deciding'
  BY <1>1, <1>4 DEF Deciding, Reduces, Verdicts
<1>12. Recording'
  BY <1>1, <1>3, <1>4, <1>5 DEF Recording
<1>13. StagedProven'
  BY <1>1 DEF StagedProven, Passed
<1>14. StagedResolvable'
  BY <1>1 DEF StagedResolvable, Known
<1>15. Reduced'
  BY <1>1 DEF Reduced, KnowledgeFromDecidedLoops, BaselinesProven, Known, Passed
<1> QED
  BY <1>8, <1>9, <1>10, <1>11, <1>12, <1>13, <1>14, <1>15

LEMMA NewRunStep ==
  ASSUME IInv, NEW l \in Loops, NEW r \in Runs, NEW kind \in Kinds, NewRun(l, r, kind)
  PROVE  IInv'
<1> USE NothingElse DEF IInv
<1>1. UNCHANGED <<completed, active, order, evidence, cases, knowledge,
                  baselines, rendered, dirs, mode, scope, state, decision,
                  delta, result, compared, crashes>>
  BY DEF NewRun, vars, indexVars, reducedVars, loopVars, runVars
<1>2. Indexed' = Indexed
  BY <1>1 DEF Indexed
<1>3. op.write = "none" /\ state[l] # Nothing /\ manifest[l][r] = Nothing
  BY DEF NewRun, Idle
<1>4. /\ manifest' \in [Loops -> [Runs -> Manifests \cup {Nothing}]]
      /\ \A x \in Loops, y \in Runs : manifest[x][y] # Nothing => manifest'[x][y] = manifest[x][y]
  BY LedgerAssumption DEF NewRun, FilesTypeOK, Manifests
<1>5. op' \in Commands /\ op'.write = "run state" /\ op'.loop = l
  BY LedgerAssumption DEF NewRun, Idle, Commands, Writes
<1>6. FilesTypeOK'
  BY <1>1, <1>4, <1>5 DEF FilesTypeOK
<1>7. Registered'
  BY <1>1, <1>2 DEF Registered, UndecidedIsActive, Verdicts
<1>8. Creating'
  BY <1>5 DEF Creating, Creates
<1>9. Deciding'
  BY <1>1, <1>5 DEF Deciding, Reduces, Verdicts
<1>10. Recording'
  <2>1. (op.write \in {"run state", "result", "result state", "loop status"} =>
            op.loop \in Loops /\ state[op.loop] # Nothing)'
    BY <1>1, <1>3, <1>5 DEF Recording
  <2>2. (op.write = "result" =>
            /\ op.run \in Runs /\ op.outcome \in Outcomes
            /\ result[op.loop][op.run] = Nothing
            /\ manifest[op.loop][op.run] # Nothing
            /\ manifest[op.loop][op.run].status = "RECORDED")'
    BY <1>5 DEF Recording
  <2>3. ASSUME NEW y \in Loops, NEW z \in Runs, result'[y][z] # Nothing
        PROVE  manifest'[y][z] # Nothing /\ manifest'[y][z].status = "RECORDED"
    <3>1. manifest[y][z] # Nothing /\ manifest[y][z].status = "RECORDED"
      BY <1>1, <2>3 DEF Recording
    <3> QED
      BY <1>4, <3>1
  <2> QED
    BY <2>1, <2>2, <2>3 DEF Recording
<1>11. StagedProven'
  BY <1>1 DEF StagedProven, Passed
<1>12. StagedResolvable'
  BY <1>1 DEF StagedResolvable, Known
<1>13. Reduced'
  BY <1>1 DEF Reduced, KnowledgeFromDecidedLoops, BaselinesProven, Known, Passed
<1> QED
  BY <1>6, <1>7, <1>8, <1>9, <1>10, <1>11, <1>12, <1>13

LEMMA WriteRunStateStep ==
  ASSUME IInv, WriteRunState
  PROVE  IInv'
<1> USE NothingElse DEF IInv
<1>1. UNCHANGED <<completed, active, order, evidence, cases, knowledge,
                  baselines, rendered, dirs, mode, scope, decision, delta,
                  manifest, result, compared, crashes>>
  BY DEF WriteRunState, vars, indexVars, reducedVars, loopVars, runVars
<1>2. Indexed' = Indexed
  BY <1>1 DEF Indexed
<1>3. op.write = "run state"
  BY DEF WriteRunState, Writing
<1>4. op \in Commands /\ op.loop \in Loops
  BY <1>3, LoopOfWrite
<1>5. op' \in Commands /\ op'.write = "loop status" /\ op'.loop = op.loop
  BY <1>4, ThenKeepsArguments DEF WriteRunState, Writes
<1>6. op.loop \in dirs /\ state[op.loop] # Nothing
  BY <1>3 DEF Recording, Registered
<1>7. /\ state' \in [Loops -> States] /\ state'[op.loop] = "RUNNING"
      /\ \A x \in Loops \ {op.loop} : state'[x] = state[x]
  BY <1>4, LedgerAssumption DEF WriteRunState, FilesTypeOK, States
<1>8. FilesTypeOK'
  BY <1>1, <1>5, <1>7 DEF FilesTypeOK
<1>9. Registered'
  BY <1>1, <1>2, <1>6, <1>7 DEF Registered, UndecidedIsActive, Verdicts
<1>10. Creating'
  BY <1>5 DEF Creating, Creates
<1>11. Deciding'
  BY <1>1, <1>5, <1>7 DEF Deciding, Reduces, Verdicts
<1>12. Recording'
  BY <1>1, <1>4, <1>5, <1>7 DEF Recording
<1>13. StagedProven'
  BY <1>1 DEF StagedProven, Passed
<1>14. StagedResolvable'
  BY <1>1 DEF StagedResolvable, Known
<1>15. Reduced'
  BY <1>1 DEF Reduced, KnowledgeFromDecidedLoops, BaselinesProven, Known, Passed
<1> QED
  BY <1>8, <1>9, <1>10, <1>11, <1>12, <1>13, <1>14, <1>15

LEMMA FinishRunStep ==
  ASSUME IInv, NEW l \in Loops, NEW r \in Runs, NEW outcome \in Outcomes, FinishRun(l, r, outcome)
  PROVE  IInv'
<1> USE NothingElse DEF IInv
<1>1. UNCHANGED <<completed, active, order, evidence, cases, knowledge,
                  baselines, rendered, dirs, mode, scope, state, decision,
                  delta, result, compared, crashes>>
  BY DEF FinishRun, vars, indexVars, reducedVars, loopVars, runVars
<1>2. Indexed' = Indexed
  BY <1>1 DEF Indexed
<1>3. op.write = "none" /\ state[l] # Nothing
      /\ manifest[l][r] # Nothing /\ manifest[l][r].status = "PLANNED"
  BY DEF FinishRun, Idle
<1>4. /\ manifest' \in [Loops -> [Runs -> Manifests \cup {Nothing}]]
      /\ manifest'[l][r] \in Manifests /\ manifest'[l][r].status = "RECORDED"
      /\ \A x \in Loops, y \in Runs : x # l \/ y # r => manifest'[x][y] = manifest[x][y]
  BY <1>1, <1>3, LedgerAssumption DEF FinishRun, FilesTypeOK, Manifests
<1>5. op' \in Commands /\ op'.write = "result" /\ op'.loop = l /\ op'.run = r
      /\ op'.outcome = outcome
  BY LedgerAssumption DEF FinishRun, Idle, Commands, Writes
<1>6. FilesTypeOK'
  BY <1>1, <1>4, <1>5 DEF FilesTypeOK
<1>7. Registered'
  BY <1>1, <1>2 DEF Registered, UndecidedIsActive, Verdicts
<1>8. Creating'
  BY <1>5 DEF Creating, Creates
<1>9. Deciding'
  BY <1>1, <1>5 DEF Deciding, Reduces, Verdicts
<1>10. Recording'
  <2>1. (op.write \in {"run state", "result", "result state", "loop status"} =>
            op.loop \in Loops /\ state[op.loop] # Nothing)'
    BY <1>1, <1>3, <1>5 DEF Recording
  <2>2. (op.write = "result" =>
            /\ op.run \in Runs /\ op.outcome \in Outcomes
            /\ result[op.loop][op.run] = Nothing
            /\ manifest[op.loop][op.run] # Nothing
            /\ manifest[op.loop][op.run].status = "RECORDED")'
    BY <1>1, <1>3, <1>4, <1>5 DEF Recording
  <2>3. (\A y \in Loops, z \in Runs : result[y][z] # Nothing =>
            manifest[y][z] # Nothing /\ manifest[y][z].status = "RECORDED")'
    BY <1>1, <1>3, <1>4 DEF Recording
  <2> QED
    BY <2>1, <2>2, <2>3 DEF Recording
<1>11. StagedProven'
  BY <1>1 DEF StagedProven, Passed
<1>12. StagedResolvable'
  BY <1>1 DEF StagedResolvable, Known
<1>13. Reduced'
  BY <1>1 DEF Reduced, KnowledgeFromDecidedLoops, BaselinesProven, Known, Passed
<1> QED
  BY <1>6, <1>7, <1>8, <1>9, <1>10, <1>11, <1>12, <1>13

LEMMA WriteResultStep ==
  ASSUME IInv, WriteResult
  PROVE  IInv'
<1> USE NothingElse DEF IInv
<1>1. UNCHANGED <<completed, active, order, evidence, cases, knowledge,
                  baselines, rendered, dirs, mode, scope, state, decision,
                  delta, manifest, compared, crashes>>
  BY DEF WriteResult, vars, indexVars, reducedVars, loopVars, runVars
<1>2. Indexed' = Indexed
  BY <1>1 DEF Indexed
<1>3. op.write = "result"
  BY DEF WriteResult, Writing
<1>4. op \in Commands /\ op.loop \in Loops
  BY <1>3, LoopOfWrite
<1>5. op' \in Commands /\ op'.write = "result state" /\ op'.loop = op.loop
      /\ op'.run = op.run /\ op'.outcome = op.outcome /\ op'.verdict = op.verdict
  BY <1>4, ThenKeepsArguments DEF WriteResult, Writes
<1>6. op.run \in Runs /\ op.outcome \in Outcomes /\ result[op.loop][op.run] = Nothing
      /\ state[op.loop] # Nothing /\ manifest[op.loop][op.run] # Nothing
      /\ manifest[op.loop][op.run].status = "RECORDED"
  BY <1>3, LedgerAssumption DEF WriteResult, Recording
<1>7. /\ result' \in [Loops -> [Runs -> Outcomes \cup {Nothing}]]
      /\ \A x \in Loops, y \in Runs : x # op.loop \/ y # op.run => result'[x][y] = result[x][y]
  BY <1>4, <1>6, LedgerAssumption DEF WriteResult, FilesTypeOK
<1>8. \A x \in Loops, y \in Runs : result[x][y] # Nothing => result'[x][y] = result[x][y]
  BY <1>6, <1>7
<1>9. /\ delta \in [Loops -> Deltas \cup {Nothing}]
      /\ baselines \in [Cases -> Baselines \cup {Nothing}]
      /\ knowledge \in [Knowledge -> Entries \cup {Nothing}]
      /\ \A d \in Deltas, c \in Cases : d.baselines[c] \in Runs \cup {Nothing}
      /\ \A b \in Baselines : b.loop \in Loops /\ b.run \in Runs
      /\ \A e \in Entries : e.source \in Loops /\ e.verdict \in Verdicts
  BY ReferenceTypes
<1>10. FilesTypeOK'
  BY <1>1, <1>5, <1>7 DEF FilesTypeOK
<1>11. Registered'
  BY <1>1, <1>2 DEF Registered, UndecidedIsActive, Verdicts
<1>12. Creating'
  BY <1>5 DEF Creating, Creates
<1>13. Deciding'
  BY <1>1, <1>5 DEF Deciding, Reduces, Verdicts
<1>14. Recording'
  <2>1. (op.write \in {"run state", "result", "result state", "loop status"} =>
            op.loop \in Loops /\ state[op.loop] # Nothing)'
    BY <1>1, <1>3, <1>5 DEF Recording
  <2>2. (op.write = "result" =>
            /\ op.run \in Runs /\ op.outcome \in Outcomes
            /\ result[op.loop][op.run] = Nothing
            /\ manifest[op.loop][op.run] # Nothing
            /\ manifest[op.loop][op.run].status = "RECORDED")'
    BY <1>5 DEF Recording
  <2>3. ASSUME NEW y \in Loops, NEW z \in Runs, result'[y][z] # Nothing
        PROVE  manifest'[y][z] # Nothing /\ manifest'[y][z].status = "RECORDED"
    <3>1. CASE y = op.loop /\ z = op.run
      BY <1>1, <1>6, <3>1
    <3>2. CASE y # op.loop \/ z # op.run
      <4>1. result[y][z] # Nothing
        BY <1>7, <2>3, <3>2
      <4> QED
        BY <1>1, <4>1 DEF Recording
    <3> QED
      BY <3>1, <3>2
  <2> QED
    BY <2>1, <2>2, <2>3 DEF Recording
<1>15. StagedProven'
  BY <1>1, <1>8, <1>9 DEF StagedProven, Passed
<1>16. StagedResolvable'
  BY <1>1 DEF StagedResolvable, Known
<1>17. Reduced'
  <2>1. KnowledgeFromDecidedLoops'
    BY <1>1 DEF Reduced, KnowledgeFromDecidedLoops, Known
  <2>2. (\A x \in Known : delta[knowledge[x].source] # Nothing)'
    BY <1>1 DEF Reduced, Known
  <2>3. BaselinesProven'
    BY <1>1, <1>6, <1>7, <1>9 DEF Reduced, BaselinesProven, Passed
  <2>4. (\A x \in Cases : baselines[x] # Nothing => x \in cases)'
    BY <1>1 DEF Reduced
  <2> QED
    BY <2>1, <2>2, <2>3, <2>4 DEF Reduced
<1> QED
  BY <1>10, <1>11, <1>12, <1>13, <1>14, <1>15, <1>16, <1>17

LEMMA WriteResultStateStep ==
  ASSUME IInv, WriteResultState
  PROVE  IInv'
<1> USE NothingElse DEF IInv
<1>1. UNCHANGED <<completed, active, order, evidence, cases, knowledge,
                  baselines, rendered, dirs, mode, scope, decision, delta,
                  manifest, result, compared, crashes>>
  BY DEF WriteResultState, vars, indexVars, reducedVars, loopVars, runVars
<1>2. Indexed' = Indexed
  BY <1>1 DEF Indexed
<1>3. op.write = "result state"
  BY DEF WriteResultState, Writing
<1>4. op \in Commands /\ op.loop \in Loops
  BY <1>3, LoopOfWrite
<1>5. op' \in Commands /\ op'.write = "loop status" /\ op'.loop = op.loop
  BY <1>4, ThenKeepsArguments DEF WriteResultState, Writes
<1>6. op.loop \in dirs /\ state[op.loop] # Nothing
  BY <1>3 DEF Recording, Registered
<1>7. /\ state' \in [Loops -> States] /\ state'[op.loop] = "EVALUATING"
      /\ \A x \in Loops \ {op.loop} : state'[x] = state[x]
  BY <1>4, LedgerAssumption DEF WriteResultState, FilesTypeOK, States
<1>8. FilesTypeOK'
  BY <1>1, <1>5, <1>7 DEF FilesTypeOK
<1>9. Registered'
  BY <1>1, <1>2, <1>6, <1>7 DEF Registered, UndecidedIsActive, Verdicts
<1>10. Creating'
  BY <1>5 DEF Creating, Creates
<1>11. Deciding'
  BY <1>1, <1>5, <1>7 DEF Deciding, Reduces, Verdicts
<1>12. Recording'
  BY <1>1, <1>4, <1>5, <1>7 DEF Recording
<1>13. StagedProven'
  BY <1>1 DEF StagedProven, Passed
<1>14. StagedResolvable'
  BY <1>1 DEF StagedResolvable, Known
<1>15. Reduced'
  BY <1>1 DEF Reduced, KnowledgeFromDecidedLoops, BaselinesProven, Known, Passed
<1> QED
  BY <1>8, <1>9, <1>10, <1>11, <1>12, <1>13, <1>14, <1>15

LEMMA CompareStep ==
  ASSUME IInv, NEW l \in Loops, NEW before \in Loops \X Runs, NEW after \in Loops \X Runs, Compare(l, before, after)
  PROVE  IInv'
<1> USE NothingElse DEF IInv
<1>1. UNCHANGED <<completed, active, order, evidence, cases, knowledge,
                  baselines, rendered, dirs, mode, scope, state, decision,
                  delta, manifest, result, op, crashes>>
  BY DEF Compare, vars, indexVars, reducedVars, loopVars, runVars
<1>2. Indexed' = Indexed
  BY <1>1 DEF Indexed
<1>3. compared' \subseteq Loops
  BY LedgerAssumption DEF Compare, FilesTypeOK
<1>4. FilesTypeOK'
  BY <1>1, <1>3 DEF FilesTypeOK
<1>5. Registered'
  BY <1>1, <1>2 DEF Registered, UndecidedIsActive, Verdicts
<1>6. Creating'
  BY <1>1, <1>2 DEF Creating, Creates
<1>7. Deciding'
  BY <1>1 DEF Deciding, Reduces, Verdicts
<1>8. Recording'
  BY <1>1 DEF Recording
<1>9. StagedProven'
  BY <1>1 DEF StagedProven, Passed
<1>10. StagedResolvable'
  BY <1>1 DEF StagedResolvable, Known
<1>11. Reduced'
  BY <1>1 DEF Reduced, KnowledgeFromDecidedLoops, BaselinesProven, Known, Passed
<1> QED
  BY <1>4, <1>5, <1>6, <1>7, <1>8, <1>9, <1>10, <1>11

LEMMA StageKnowledgeStep ==
  ASSUME IInv, NEW l \in Loops, NEW k \in Knowledge, NEW replaces \in Replaceable, StageKnowledge(l, k, replaces)
  PROVE  IInv'
<1> USE NothingElse DEF IInv
<1>1. UNCHANGED <<completed, active, order, evidence, cases, knowledge,
                  baselines, rendered, dirs, mode, scope, state, decision,
                  manifest, result, compared,
                  crashes>>
  BY DEF StageKnowledge, vars, indexVars, reducedVars, loopVars, runVars
<1>0. /\ op' \in Commands /\ op'.write = "loop status" /\ op'.loop = l
      /\ state[l] # Nothing
  BY LedgerAssumption DEF StageKnowledge, Idle, Commands, Writes
<1>2. Indexed' = Indexed
  BY <1>1 DEF Indexed
<1>3. op.write = "none" /\ delta[l] # Nothing /\ replaces \subseteq Known \cup ChangeIds(delta[l])
  BY DEF StageKnowledge, Idle
<1>4. /\ delta[l] \in Deltas
      /\ [id |-> k, replaces |-> replaces] \in [id : Knowledge, replaces : SUBSET Knowledge]
  BY LedgerAssumption DEF StageKnowledge, FilesTypeOK
<1>5. /\ delta' \in [Loops -> Deltas \cup {Nothing}] /\ delta'[l] \in Deltas
      /\ delta'[l].changes = delta[l].changes \cup {[id |-> k, replaces |-> replaces]}
      /\ delta'[l].baselines = delta[l].baselines
      /\ \A x \in Loops \ {l} : delta'[x] = delta[x]
  BY <1>4, LedgerAssumption DEF StageKnowledge, FilesTypeOK, Deltas
<1>6. ChangeIds(delta'[l]) = ChangeIds(delta[l]) \cup {k}
      /\ Replaced(delta'[l]) = Replaced(delta[l]) \cup replaces
  <2> DEFINE new == [id |-> k, replaces |-> replaces]
  <2>1. new.id = k /\ new.replaces = replaces
    OBVIOUS
  <2>2. delta'[l].changes = delta[l].changes \cup {new}
    BY <1>5
  <2> HIDE DEF new
  <2>3. ChangeIds(delta'[l]) = ChangeIds(delta[l]) \cup {k}
    BY <2>1, <2>2 DEF ChangeIds
  <2>4. Replaced(delta'[l]) = Replaced(delta[l]) \cup replaces
    <3>1. \A x : x \in Replaced(delta'[l]) <=>
                \E change \in delta[l].changes \cup {new} : x \in change.replaces
      BY <2>2 DEF Replaced
    <3>2. \A x : x \in Replaced(delta[l]) <=>
                \E change \in delta[l].changes : x \in change.replaces
      BY DEF Replaced
    <3> QED
      BY <2>1, <3>1, <3>2
  <2> QED
    BY <2>3, <2>4
<1>7. /\ delta \in [Loops -> Deltas \cup {Nothing}]
      /\ baselines \in [Cases -> Baselines \cup {Nothing}]
      /\ knowledge \in [Knowledge -> Entries \cup {Nothing}]
      /\ \A d \in Deltas, c \in Cases : d.baselines[c] \in Runs \cup {Nothing}
      /\ \A b \in Baselines : b.loop \in Loops /\ b.run \in Runs
      /\ \A e \in Entries : e.source \in Loops /\ e.verdict \in Verdicts
  BY ReferenceTypes
<1>8. FilesTypeOK'
  BY <1>0, <1>1, <1>5 DEF FilesTypeOK
<1>9. Registered'
  BY <1>1, <1>2, <1>3, <1>5 DEF Registered, UndecidedIsActive, Verdicts
<1>10. Creating'
  BY <1>0 DEF Creating, Creates
<1>11. Deciding'
  BY <1>0, <1>1 DEF Deciding, Reduces, Verdicts
<1>12. Recording'
  BY <1>0, <1>1 DEF Recording
<1>13. StagedProven'
  BY <1>1, <1>3, <1>5 DEF StagedProven, Passed
<1>14. StagedResolvable'
  BY <1>1, <1>3, <1>5, <1>6 DEF StagedResolvable, Known
<1>15. Reduced'
  <2>1. KnowledgeFromDecidedLoops'
    BY <1>1, <1>5, <1>6, <1>7 DEF Reduced, KnowledgeFromDecidedLoops, Known
  <2>2. (\A x \in Known : delta[knowledge[x].source] # Nothing)'
    BY <1>1, <1>5, <1>7 DEF Reduced, Known
  <2>3. BaselinesProven'
    BY <1>1 DEF Reduced, BaselinesProven, Passed
  <2>4. (\A x \in Cases : baselines[x] # Nothing => x \in cases)'
    BY <1>1 DEF Reduced
  <2> QED
    BY <2>1, <2>2, <2>3, <2>4 DEF Reduced
<1> QED
  BY <1>8, <1>9, <1>10, <1>11, <1>12, <1>13, <1>14, <1>15

LEMMA StageBaselineStep ==
  ASSUME IInv, NEW l \in Loops, NEW r \in Runs, StageBaseline(l, r)
  PROVE  IInv'
<1> USE NothingElse DEF IInv
<1>1. UNCHANGED <<completed, active, order, evidence, cases, knowledge,
                  baselines, rendered, dirs, mode, scope, state, decision,
                  manifest, result, compared,
                  crashes>>
  BY DEF StageBaseline, vars, indexVars, reducedVars, loopVars, runVars
<1>0. /\ op' \in Commands /\ op'.write = "loop status" /\ op'.loop = l
      /\ state[l] # Nothing
  BY LedgerAssumption DEF StageBaseline, Idle, Commands, Writes
<1>2. Indexed' = Indexed
  BY <1>1 DEF Indexed
<1>3. op.write = "none" /\ delta[l] # Nothing /\ Passed(result[l][r]) /\ CaseOf(r) \in cases /\ CaseOf(r) \in Cases
  BY DEF StageBaseline, Idle, Runs, CaseOf
<1>4. /\ delta' \in [Loops -> Deltas \cup {Nothing}] /\ delta'[l] \in Deltas
      /\ delta'[l].changes = delta[l].changes
      /\ delta'[l].baselines[CaseOf(r)] = r
      /\ \A c \in Cases \ {CaseOf(r)} : delta'[l].baselines[c] = delta[l].baselines[c]
      /\ \A x \in Loops \ {l} : delta'[x] = delta[x]
  BY <1>3, LedgerAssumption, ZenonT(40) DEF StageBaseline, FilesTypeOK, Deltas
<1>5. ChangeIds(delta'[l]) = ChangeIds(delta[l]) /\ Replaced(delta'[l]) = Replaced(delta[l])
  BY <1>4 DEF ChangeIds, Replaced
<1>6. /\ delta \in [Loops -> Deltas \cup {Nothing}]
      /\ baselines \in [Cases -> Baselines \cup {Nothing}]
      /\ knowledge \in [Knowledge -> Entries \cup {Nothing}]
      /\ \A d \in Deltas, c \in Cases : d.baselines[c] \in Runs \cup {Nothing}
      /\ \A b \in Baselines : b.loop \in Loops /\ b.run \in Runs
      /\ \A e \in Entries : e.source \in Loops /\ e.verdict \in Verdicts
  BY ReferenceTypes
<1>7. FilesTypeOK'
  BY <1>0, <1>1, <1>4 DEF FilesTypeOK
<1>8. Registered'
  BY <1>1, <1>2, <1>3, <1>4 DEF Registered, UndecidedIsActive, Verdicts
<1>9. Creating'
  BY <1>0 DEF Creating, Creates
<1>10. Deciding'
  BY <1>0, <1>1 DEF Deciding, Reduces, Verdicts
<1>11. Recording'
  BY <1>0, <1>1 DEF Recording
<1>12. StagedProven'
  BY <1>1, <1>3, <1>4 DEF StagedProven, Passed
<1>13. StagedResolvable'
  BY <1>1, <1>3, <1>4, <1>5 DEF StagedResolvable, Known
<1>14. Reduced'
  <2>1. KnowledgeFromDecidedLoops'
    BY <1>1, <1>4, <1>5, <1>6 DEF Reduced, KnowledgeFromDecidedLoops, Known
  <2>2. (\A x \in Known : delta[knowledge[x].source] # Nothing)'
    BY <1>1, <1>4, <1>6 DEF Reduced, Known
  <2>3. BaselinesProven'
    BY <1>1 DEF Reduced, BaselinesProven, Passed
  <2>4. (\A x \in Cases : baselines[x] # Nothing => x \in cases)'
    BY <1>1 DEF Reduced
  <2> QED
    BY <2>1, <2>2, <2>3, <2>4 DEF Reduced
<1> QED
  BY <1>7, <1>8, <1>9, <1>10, <1>11, <1>12, <1>13, <1>14

LEMMA DecideLoopStep ==
  ASSUME IInv, NEW l \in Loops, NEW v \in Issued, NEW update \in BOOLEAN, DecideLoop(l, v, update)
  PROVE  IInv'
<1> USE NothingElse DEF IInv
<1>1. UNCHANGED <<completed, active, order, evidence, cases, knowledge,
                  baselines, rendered, dirs, mode, scope, state, delta,
                  manifest, result, compared, crashes>>
  BY DEF DecideLoop, vars, indexVars, reducedVars, loopVars, runVars
<1>2. Indexed' = Indexed
  BY <1>1 DEF Indexed
<1>3. op.write = "none" /\ decision[l] = "PENDING"
  BY DEF DecideLoop, Idle
<1>4. \A k \in Knowledge : knowledge[k] # Nothing => knowledge[k].verdict # "PENDING"
  BY DEF FilesTypeOK, Entries, Verdicts
<1>6. v \in Verdicts
  BY LedgerAssumption
<1>7. /\ decision' \in [Loops -> Decisions] /\ decision'[l] = v
      /\ \A x \in Loops \ {l} : decision'[x] = decision[x]
  BY LedgerAssumption DEF DecideLoop, FilesTypeOK, Decisions
<1>8. op' \in Commands /\ op'.write = "verdict state" /\ op'.loop = l
      /\ op'.verdict = v
  BY LedgerAssumption DEF DecideLoop, Idle, Commands, Writes
<1>9. /\ delta \in [Loops -> Deltas \cup {Nothing}]
      /\ baselines \in [Cases -> Baselines \cup {Nothing}]
      /\ knowledge \in [Knowledge -> Entries \cup {Nothing}]
      /\ \A d \in Deltas, c \in Cases : d.baselines[c] \in Runs \cup {Nothing}
      /\ \A b \in Baselines : b.loop \in Loops /\ b.run \in Runs
      /\ \A e \in Entries : e.source \in Loops /\ e.verdict \in Verdicts
  BY ReferenceTypes
<1>10. FilesTypeOK'
  BY <1>1, <1>7, <1>8 DEF FilesTypeOK
<1>11. Registered'
  BY <1>1, <1>2, <1>3, <1>6, <1>7 DEF Registered, UndecidedIsActive, Verdicts
<1>12. Creating'
  BY <1>8 DEF Creating, Creates
<1>13. Deciding'
  BY <1>1, <1>3, <1>6, <1>7, <1>8 DEF Deciding, Reduces, Verdicts
<1>14. Recording'
  BY <1>1, <1>8 DEF Recording
<1>15. StagedProven'
  BY <1>1 DEF StagedProven, Passed
<1>16. StagedResolvable'
  BY <1>1 DEF StagedResolvable, Known
<1>17. Reduced'
  <2>1. KnowledgeFromDecidedLoops'
    BY <1>1, <1>3, <1>4, <1>7, <1>9 DEF Reduced, KnowledgeFromDecidedLoops,
                                        Known
  <2>2. (\A x \in Known : delta[knowledge[x].source] # Nothing)'
    BY <1>1 DEF Reduced, Known
  <2>3. BaselinesProven'
    BY <1>1, <1>3, <1>7, <1>9 DEF Reduced, BaselinesProven, Passed
  <2>4. (\A x \in Cases : baselines[x] # Nothing => x \in cases)'
    BY <1>1 DEF Reduced
  <2> QED
    BY <2>1, <2>2, <2>3, <2>4 DEF Reduced
<1> QED
  BY <1>10, <1>11, <1>12, <1>13, <1>14, <1>15, <1>16, <1>17

LEMMA WriteVerdictStateStep ==
  ASSUME IInv, WriteVerdictState
  PROVE  IInv'
<1> USE NothingElse DEF IInv
<1>1. UNCHANGED <<completed, active, order, evidence, cases, knowledge,
                  baselines, rendered, dirs, mode, scope, decision, delta,
                  manifest, result, compared, crashes>>
  BY DEF WriteVerdictState, vars, indexVars, reducedVars, loopVars, runVars
<1>2. Indexed' = Indexed
  BY <1>1 DEF Indexed
<1>3. op.write = "verdict state"
  BY DEF WriteVerdictState, Writing
<1>4. op \in Commands /\ op.loop \in Loops
  BY <1>3, LoopOfWrite
<1>5. op.loop \in dirs /\ op.verdict \in Verdicts /\ decision[op.loop] = op.verdict
  BY <1>3 DEF Deciding, Registered
<1>6. /\ state' \in [Loops -> States] /\ state'[op.loop] = op.verdict
      /\ \A x \in Loops \ {op.loop} : state'[x] = state[x]
  BY <1>3, LedgerAssumption DEF WriteVerdictState, FilesTypeOK, Deciding, States
<1>7. /\ op' \in Commands
      /\ \/ op'.write = "none"
         \/ /\ op'.write = "knowledge" /\ op'.loop = op.loop
            /\ op'.verdict = op.verdict /\ active = op.loop
  BY <1>4, LedgerAssumption, ThenKeepsArguments,
     DoneIsIdle DEF WriteVerdictState, Writes
<1>8. FilesTypeOK'
  BY <1>1, <1>6, <1>7 DEF FilesTypeOK
<1>9. Registered'
  BY <1>1, <1>2, <1>5, <1>6 DEF Registered, UndecidedIsActive, Verdicts
<1>10. Creating'
  BY <1>7 DEF Creating, Creates
<1>11. Deciding'
  BY <1>1, <1>3, <1>6, <1>7 DEF Deciding, Reduces, Verdicts
<1>12. Recording'
  BY <1>1, <1>7 DEF Recording
<1>13. StagedProven'
  BY <1>1 DEF StagedProven, Passed
<1>14. StagedResolvable'
  BY <1>1 DEF StagedResolvable, Known
<1>15. Reduced'
  BY <1>1 DEF Reduced, KnowledgeFromDecidedLoops, BaselinesProven, Known, Passed
<1> QED
  BY <1>8, <1>9, <1>10, <1>11, <1>12, <1>13, <1>14, <1>15

LEMMA WriteKnowledgeStep ==
  ASSUME IInv, WriteKnowledge
  PROVE  IInv'
<1> USE NothingElse DEF IInv
<1>1. UNCHANGED <<completed, active, order, evidence, cases, baselines,
                  rendered, dirs, mode, scope, state, decision, delta, manifest,
                  result, compared, crashes>>
  BY DEF WriteKnowledge, vars, indexVars, reducedVars, loopVars, runVars
<1>2. Indexed' = Indexed
  BY <1>1 DEF Indexed
<1>3. op.write = "knowledge"
  BY DEF WriteKnowledge, Writing
<1>4. op \in Commands /\ op.loop \in Loops
  BY <1>3, LoopOfWrite
<1>5. active = op.loop /\ decision[op.loop] = op.verdict /\ delta[op.loop] # Nothing
      /\ op.verdict \in Verdicts
  BY <1>3 DEF Deciding, Reduces, Registered
<1>6. /\ knowledge' \in [Knowledge -> Entries \cup {Nothing}]
      /\ \A k \in Knowledge :
           \/ knowledge'[k] = knowledge[k]
           \/ /\ knowledge'[k] # Nothing
              /\ knowledge'[k].source = op.loop /\ knowledge'[k].verdict = op.verdict
              /\ k \in ChangeIds(delta[op.loop])
           \/ /\ knowledge[k] # Nothing /\ knowledge'[k] # Nothing
              /\ knowledge'[k].source = knowledge[k].source
              /\ knowledge'[k].verdict = knowledge[k].verdict
  <2> DEFINE staged == delta[op.loop]
             applied == [k \in Knowledge |-> IF k \in ChangeIds(staged)
                                             THEN Entry(op.loop, op.verdict)
                                             ELSE knowledge[k]]
  <2>1. knowledge \in [Knowledge -> Entries \cup {Nothing}]
    BY DEF FilesTypeOK
  <2>2. /\ Entry(op.loop, op.verdict) \in Entries
        /\ Entry(op.loop, op.verdict).source = op.loop
        /\ Entry(op.loop, op.verdict).verdict = op.verdict
    BY <1>4, <1>5 DEF Entry, Entries
  <2>3. \A e \in Entries : /\ [e EXCEPT !.deprecated = TRUE] \in Entries
                           /\ [e EXCEPT !.deprecated = TRUE].source = e.source
                           /\ [e EXCEPT !.deprecated = TRUE].verdict = e.verdict
    BY DEF Entries
  <2>4. \/ knowledge' = knowledge
        \/ /\ \A k \in Replaced(staged) : applied[k] # Nothing
           /\ knowledge' = [k \in Knowledge |->
                 IF k \in Replaced(staged)
                 THEN [applied[k] EXCEPT !.deprecated = TRUE]
                 ELSE applied[k]]
    BY DEF WriteKnowledge
  <2>5. CASE knowledge' = knowledge
    BY <2>1, <2>5
  <2>6. CASE /\ \A k \in Replaced(staged) : applied[k] # Nothing
             /\ knowledge' = [k \in Knowledge |->
                   IF k \in Replaced(staged)
                   THEN [applied[k] EXCEPT !.deprecated = TRUE]
                   ELSE applied[k]]
    <3>1. ASSUME NEW k \in Knowledge
          PROVE  /\ applied[k] \in Entries \cup {Nothing}
                 /\ k \in ChangeIds(staged) =>
                      applied[k] = Entry(op.loop, op.verdict)
                 /\ k \notin ChangeIds(staged) => applied[k] = knowledge[k]
      BY <2>1, <2>2
    <3> HIDE DEF applied
    <3>2. ASSUME NEW k \in Knowledge
          PROVE  /\ knowledge'[k] \in Entries \cup {Nothing}
                 /\ applied[k] = Nothing => knowledge'[k] = Nothing
                 /\ applied[k] # Nothing => /\ knowledge'[k] # Nothing
                                           /\ knowledge'[k].source = applied[k].source
                                           /\ knowledge'[k].verdict = applied[k].verdict
      BY <2>3, <2>6, <3>1
    <3>3. knowledge' \in [Knowledge -> Entries \cup {Nothing}]
      BY <2>6, <3>2
    <3> QED
      BY <2>2, <3>1, <3>2, <3>3
  <2> QED
    BY <2>4, <2>5, <2>6
<1>7. /\ op' \in Commands
      /\ \/ op'.write = "none"
         \/ /\ op'.write = "baselines" /\ op'.loop = op.loop
            /\ op'.verdict = op.verdict
  BY <1>4, LedgerAssumption, ThenKeepsArguments, DoneIsIdle DEF WriteKnowledge,
                                                                Writes
<1>9. FilesTypeOK'
  BY <1>1, <1>6, <1>7 DEF FilesTypeOK
<1>10. Registered'
  BY <1>1, <1>2 DEF Registered, UndecidedIsActive, Verdicts
<1>11. Creating'
  BY <1>7 DEF Creating, Creates
<1>12. Deciding'
  BY <1>1, <1>3, <1>7 DEF Deciding, Reduces, Verdicts
<1>13. Recording'
  BY <1>1, <1>7 DEF Recording
<1>14. StagedProven'
  BY <1>1 DEF StagedProven, Passed
<1>15. StagedResolvable'
  BY <1>1, <1>6 DEF StagedResolvable, Known
<1>16. Reduced'
  <2>1. KnowledgeFromDecidedLoops'
    BY <1>1, <1>5, <1>6 DEF Reduced, KnowledgeFromDecidedLoops, Known
  <2>2. (\A x \in Known : delta[knowledge[x].source] # Nothing)'
    BY <1>1, <1>5, <1>6 DEF Reduced, Known
  <2>3. BaselinesProven'
    BY <1>1 DEF Reduced, BaselinesProven, Passed
  <2>4. (\A x \in Cases : baselines[x] # Nothing => x \in cases)'
    BY <1>1 DEF Reduced
  <2> QED
    BY <2>1, <2>2, <2>3, <2>4 DEF Reduced
<1> QED
  BY <1>9, <1>10, <1>11, <1>12, <1>13, <1>14, <1>15, <1>16

LEMMA WriteBaselinesStep ==
  ASSUME IInv, WriteBaselines
  PROVE  IInv'
<1> USE NothingElse DEF IInv
<1>1. UNCHANGED <<completed, active, order, evidence, cases, knowledge,
                  rendered, dirs, mode, scope, state, decision, delta, manifest,
                  result, compared, crashes>>
  BY DEF WriteBaselines, vars, indexVars, reducedVars, loopVars, runVars
<1>2. Indexed' = Indexed
  BY <1>1 DEF Indexed
<1>3. op.write = "baselines"
  BY DEF WriteBaselines, Writing
<1>4. op \in Commands /\ op.loop \in Loops
  BY <1>3, LoopOfWrite
<1>5. op' \in Commands /\ op'.write = "loop-index" /\ op'.loop = op.loop
      /\ op'.run = op.run /\ op'.outcome = op.outcome /\ op'.verdict = op.verdict
  BY <1>4, ThenKeepsArguments DEF WriteBaselines, Writes
<1>6. active = op.loop /\ decision[op.loop] = op.verdict /\ delta[op.loop] # Nothing
  BY <1>3 DEF Deciding, Reduces, Registered
<1>7. /\ baselines' \in [Cases -> Baselines \cup {Nothing}]
      /\ \A c \in Cases :
           \/ baselines'[c] = baselines[c]
           \/ /\ op.verdict = "ACCEPTED" /\ delta[op.loop].baselines[c] # Nothing
              /\ baselines'[c].loop = op.loop
              /\ baselines'[c].run = delta[op.loop].baselines[c]
  BY <1>4, <1>6, LedgerAssumption DEF WriteBaselines, FilesTypeOK, Baselines,
                                      Deltas
<1>9. FilesTypeOK'
  BY <1>1, <1>5, <1>7 DEF FilesTypeOK
<1>10. Registered'
  BY <1>1, <1>2 DEF Registered, UndecidedIsActive, Verdicts
<1>11. Creating'
  BY <1>5 DEF Creating, Creates
<1>12. Deciding'
  BY <1>1, <1>3, <1>5 DEF Deciding, Reduces, Verdicts
<1>13. Recording'
  BY <1>1, <1>5 DEF Recording
<1>14. StagedProven'
  BY <1>1 DEF StagedProven, Passed
<1>15. StagedResolvable'
  BY <1>1 DEF StagedResolvable, Known
<1>16. Reduced'
  <2>1. KnowledgeFromDecidedLoops'
    BY <1>1 DEF Reduced, KnowledgeFromDecidedLoops, Known
  <2>2. (\A x \in Known : delta[knowledge[x].source] # Nothing)'
    BY <1>1 DEF Reduced, Known
  <2>3. BaselinesProven'
    BY <1>1, <1>4, <1>6, <1>7 DEF Reduced, BaselinesProven, StagedProven
  <2>4. (\A x \in Cases : baselines[x] # Nothing => x \in cases)'
    BY <1>1, <1>4, <1>6, <1>7 DEF Reduced, StagedProven
  <2> QED
    BY <2>1, <2>2, <2>3, <2>4 DEF Reduced
<1> QED
  BY <1>9, <1>10, <1>11, <1>12, <1>13, <1>14, <1>15, <1>16

LEMMA WriteLoopIndexStep ==
  ASSUME IInv, WriteLoopIndex
  PROVE  IInv'
<1> USE NothingElse DEF IInv
<1>1. UNCHANGED <<completed, active, order, evidence, cases, knowledge,
                  baselines, rendered, dirs, mode, scope, state, decision,
                  delta, manifest, result, compared, crashes>>
  BY DEF WriteLoopIndex, vars, indexVars, reducedVars, loopVars, runVars
<1>2. Indexed' = Indexed
  BY <1>1 DEF Indexed
<1>3. op.write = "loop-index"
  BY DEF WriteLoopIndex, Writing
<1>4. op \in Commands /\ op.loop \in Loops
  BY <1>3, LoopOfWrite
<1>5. op' \in Commands /\ op'.write = "verdict index" /\ op'.loop = op.loop
      /\ op'.run = op.run /\ op'.outcome = op.outcome /\ op'.verdict = op.verdict
  BY <1>4, ThenKeepsArguments DEF WriteLoopIndex, Writes
<1>6. FilesTypeOK'
  BY <1>1, <1>5 DEF FilesTypeOK
<1>7. Registered'
  BY <1>1, <1>2 DEF Registered, UndecidedIsActive, Verdicts
<1>8. Creating'
  BY <1>5 DEF Creating, Creates
<1>9. Deciding'
  BY <1>1, <1>3, <1>5 DEF Deciding, Reduces, Verdicts
<1>10. Recording'
  BY <1>1, <1>5 DEF Recording
<1>11. StagedProven'
  BY <1>1 DEF StagedProven, Passed
<1>12. StagedResolvable'
  BY <1>1 DEF StagedResolvable, Known
<1>13. Reduced'
  BY <1>1 DEF Reduced, KnowledgeFromDecidedLoops, BaselinesProven, Known, Passed
<1> QED
  BY <1>6, <1>7, <1>8, <1>9, <1>10, <1>11, <1>12, <1>13

LEMMA WriteVerdictInIndexStep ==
  ASSUME IInv, WriteVerdictInIndex
  PROVE  IInv'
<1> USE NothingElse DEF IInv
<1>1. UNCHANGED <<completed, order, cases, knowledge, baselines, rendered, dirs,
                  mode, scope, state, decision, delta, manifest, result,
                  compared, crashes>>
  BY DEF WriteVerdictInIndex, vars, indexVars, reducedVars, loopVars, runVars
<1>2. Indexed' = Indexed
  BY <1>1 DEF Indexed
<1>3. op.write = "verdict index"
  BY DEF WriteVerdictInIndex, Writing
<1>4. op \in Commands /\ op.loop \in Loops
  BY <1>3, LoopOfWrite
<1>5. op' \in Commands /\ op'.write = "loop status" /\ op'.loop = op.loop
  BY <1>4, ThenKeepsArguments DEF WriteVerdictInIndex, Writes
<1>6. EvidenceAfter(op.loop) \in 0..4
  BY DEF FilesTypeOK, EvidenceAfter
<1>7. active' = Nothing /\ evidence' \in 0..4
  BY <1>6, LedgerAssumption DEF WriteVerdictInIndex, FilesTypeOK
<1>8. /\ decision[op.loop] \in Verdicts /\ active = op.loop
      /\ state[op.loop] # Nothing
  BY <1>3, <1>4 DEF Deciding, Reduces, Registered
<1>9. FilesTypeOK'
  BY <1>1, <1>5, <1>7 DEF FilesTypeOK
<1>10. Registered'
  BY <1>1, <1>2, <1>7, <1>8 DEF Registered, UndecidedIsActive, Verdicts
<1>11. Creating'
  BY <1>5 DEF Creating, Creates
<1>12. Deciding'
  BY <1>1, <1>5 DEF Deciding, Reduces, Verdicts
<1>13. Recording'
  BY <1>1, <1>4, <1>5, <1>8 DEF Recording
<1>14. StagedProven'
  BY <1>1 DEF StagedProven, Passed
<1>15. StagedResolvable'
  BY <1>1 DEF StagedResolvable, Known
<1>16. Reduced'
  BY <1>1 DEF Reduced, KnowledgeFromDecidedLoops, BaselinesProven, Known, Passed
<1> QED
  BY <1>9, <1>10, <1>11, <1>12, <1>13, <1>14, <1>15, <1>16

LEMMA WriteLoopStatusStep ==
  ASSUME IInv, WriteLoopStatus
  PROVE  IInv'
<1> USE NothingElse DEF IInv
<1>1. UNCHANGED <<completed, active, order, evidence, cases, knowledge, baselines,
                  dirs, mode, scope, state, decision, delta, manifest, result,
                  compared, crashes>>
  BY DEF WriteLoopStatus, vars, indexVars, loopVars, runVars
<1>2. Indexed' = Indexed
  BY <1>1 DEF Indexed
<1>3. op' \in Commands /\ op'.write = "none"
  BY DoneIsIdle DEF WriteLoopStatus
<1>4. op.loop \in Loops
  BY LoopOfWrite DEF WriteLoopStatus, Writing
<1>5. rendered' \subseteq Loops
  BY <1>4, LedgerAssumption DEF WriteLoopStatus, FilesTypeOK
<1>6. FilesTypeOK'
  BY <1>1, <1>3, <1>5 DEF FilesTypeOK
<1>7. Registered'
  BY <1>1, <1>2 DEF Registered, UndecidedIsActive, Verdicts
<1>8. Creating'
  BY <1>3 DEF Creating, Creates
<1>9. Deciding'
  BY <1>1, <1>3 DEF Deciding, Reduces, Verdicts
<1>10. Recording'
  BY <1>1, <1>3 DEF Recording
<1>11. StagedProven'
  BY <1>1 DEF StagedProven, Passed
<1>12. StagedResolvable'
  BY <1>1 DEF StagedResolvable, Known
<1>13. Reduced'
  BY <1>1 DEF Reduced, KnowledgeFromDecidedLoops, BaselinesProven, Known, Passed
<1> QED
  BY <1>6, <1>7, <1>8, <1>9, <1>10, <1>11, <1>12, <1>13

LEMMA CompactStep ==
  ASSUME IInv, Compact
  PROVE  IInv'
<1> USE NothingElse DEF IInv
<1>1. UNCHANGED <<completed, active, order, evidence, cases, knowledge,
                  baselines, rendered, dirs, mode, scope, state, decision,
                  delta, manifest, result, compared, op, crashes>>
  BY DEF Compact, vars, indexVars, reducedVars, loopVars, runVars
<1>2. Indexed' = Indexed
  BY <1>1 DEF Indexed
<1>3. FilesTypeOK'
  BY <1>1 DEF FilesTypeOK
<1>4. Registered'
  BY <1>1, <1>2 DEF Registered, UndecidedIsActive, Verdicts
<1>5. Creating'
  BY <1>1, <1>2 DEF Creating, Creates
<1>6. Deciding'
  BY <1>1 DEF Deciding, Reduces, Verdicts
<1>7. Recording'
  BY <1>1 DEF Recording
<1>8. StagedProven'
  BY <1>1 DEF StagedProven, Passed
<1>9. StagedResolvable'
  BY <1>1 DEF StagedResolvable, Known
<1>10. Reduced'
  BY <1>1 DEF Reduced, KnowledgeFromDecidedLoops, BaselinesProven, Known, Passed
<1> QED
  BY <1>3, <1>4, <1>5, <1>6, <1>7, <1>8, <1>9, <1>10

LEMMA CloseTaskStep ==
  ASSUME IInv, CloseTask
  PROVE  IInv'
<1> USE NothingElse DEF IInv
<1>1. UNCHANGED <<active, order, evidence, cases, knowledge, baselines,
                  rendered, dirs, mode, scope, state, decision, delta, manifest,
                  result, compared, op, crashes>>
  BY DEF CloseTask, vars, indexVars, reducedVars, loopVars, runVars
<1>2. Indexed' = Indexed
  BY <1>1 DEF Indexed
<1>3. active = Nothing /\ completed' = TRUE
  BY LedgerAssumption DEF CloseTask
<1>4. op.write = "none"
  BY LedgerAssumption DEF CloseTask, Idle
<1>5. FilesTypeOK'
  BY <1>1, <1>3 DEF FilesTypeOK
<1>6. Registered'
  BY <1>1, <1>2, <1>3 DEF Registered, UndecidedIsActive, Verdicts
<1>7. Creating'
  BY <1>1, <1>4 DEF Creating, Creates
<1>8. Deciding'
  BY <1>1 DEF Deciding, Reduces, Verdicts
<1>9. Recording'
  BY <1>1 DEF Recording
<1>10. StagedProven'
  BY <1>1 DEF StagedProven, Passed
<1>11. StagedResolvable'
  BY <1>1 DEF StagedResolvable, Known
<1>12. Reduced'
  BY <1>1 DEF Reduced, KnowledgeFromDecidedLoops, BaselinesProven, Known, Passed
<1> QED
  BY <1>5, <1>6, <1>7, <1>8, <1>9, <1>10, <1>11, <1>12

LEMMA CrashStep ==
  ASSUME IInv, Crash
  PROVE  IInv'
<1> USE NothingElse DEF IInv
<1>1. UNCHANGED <<completed, active, order, evidence, cases, knowledge,
                  baselines, rendered, dirs, mode, scope, state, decision,
                  delta, manifest, result, compared>>
  BY DEF Crash, vars, indexVars, reducedVars, loopVars, runVars
<1>2. Indexed' = Indexed
  BY <1>1 DEF Indexed
<1>3. op' \in Commands /\ op'.write = "none"
  BY DoneIsIdle DEF Crash
<1>4. crashes' \in Seq(Loops) /\ Len(crashes') <= MaxCrashes
  <2>1. op.loop \in Loops
    BY LoopOfWrite DEF Crash
  <2>2. Len(crashes') = Len(crashes) + 1 /\ crashes' \in Seq(Loops)
    BY <2>1, AppendProperties DEF Crash, FilesTypeOK
  <2>3. Len(crashes) \in Nat /\ Len(crashes) < MaxCrashes
    BY LenProperties DEF Crash, FilesTypeOK
  <2> QED
    BY <2>2, <2>3, LedgerAssumption
<1>5. FilesTypeOK'
  BY <1>1, <1>3, <1>4 DEF FilesTypeOK
<1>6. Registered'
  BY <1>1, <1>2 DEF Registered, UndecidedIsActive, Verdicts
<1>7. Creating'
  BY <1>3 DEF Creating, Creates
<1>8. Deciding'
  BY <1>1, <1>3 DEF Deciding, Reduces, Verdicts
<1>9. Recording'
  BY <1>1, <1>3 DEF Recording
<1>10. StagedProven'
  BY <1>1 DEF StagedProven, Passed
<1>11. StagedResolvable'
  BY <1>1 DEF StagedResolvable, Known
<1>12. Reduced'
  BY <1>1 DEF Reduced, KnowledgeFromDecidedLoops, BaselinesProven, Known, Passed
<1> QED
  BY <1>5, <1>6, <1>7, <1>8, <1>9, <1>10, <1>11, <1>12
-----------------------------------------------------------------------------

\* init-task establishes the invariant.
LEMMA InitIInv == Init => IInv
<1> SUFFICES ASSUME Init PROVE IInv
  OBVIOUS
<1>1. Indexed = {}
  BY DEF Init, Indexed, Range
<1>2. op \in Commands /\ op.write = "none"
  BY DEF Init, Idle, Commands, Writes
<1>3. FilesTypeOK
  <2>1. /\ completed \in BOOLEAN /\ active \in Loops \cup {Nothing}
        /\ cases \subseteq Cases /\ dirs \subseteq Loops
        /\ compared \subseteq Loops /\ rendered \subseteq Loops
    BY DEF Init
  <2>2. MaxCrashes \in Nat
    BY LedgerAssumption
  <2>3. /\ order \in Seq(Loops) /\ evidence \in 0..4
        /\ crashes \in Seq(Loops) /\ Len(crashes) <= MaxCrashes
    BY <2>2, EmptySeq DEF Init
  <2>4. /\ knowledge \in [Knowledge -> Entries \cup {Nothing}]
        /\ baselines \in [Cases -> Baselines \cup {Nothing}]
        /\ mode \in [Loops -> Modes \cup {Nothing}]
        /\ scope \in [Loops -> SUBSET Cases]
    BY DEF Init
  <2>5. /\ state \in [Loops -> States] /\ decision \in [Loops -> Decisions]
        /\ delta \in [Loops -> Deltas \cup {Nothing}]
    BY DEF Init, States, Decisions
  <2>6. /\ manifest \in [Loops -> [Runs -> Manifests \cup {Nothing}]]
        /\ result \in [Loops -> [Runs -> Outcomes \cup {Nothing}]]
    BY DEF Init
  <2> QED
    BY <1>2, <2>1, <2>3, <2>4, <2>5, <2>6 DEF FilesTypeOK
<1>4. Known = {}
  BY DEF Init, Known
<1>5. Registered
  BY <1>1 DEF Init, Registered, UndecidedIsActive
<1>6. Creating /\ Deciding
  BY <1>2, NothingElse DEF Init, Creating, Deciding, Creates, Reduces
<1>7. Recording
  BY <1>2 DEF Init, Recording
<1>8. StagedProven /\ StagedResolvable
  BY DEF Init, StagedProven, StagedResolvable
<1>9. Reduced
  BY <1>4 DEF Init, Reduced, KnowledgeFromDecidedLoops, BaselinesProven
<1> QED
  BY <1>3, <1>5, <1>6, <1>7, <1>8, <1>9 DEF IInv

\* Every step preserves it.
LEMMA NextIInv == IInv /\ [Next]_vars => IInv'
<1> SUFFICES ASSUME IInv, [Next]_vars PROVE IInv'
  OBVIOUS
<1>1. CASE Command
  <2>1. CASE \E c \in Cases : AddCase(c)
    BY <2>1, AddCaseStep
  <2>2. CASE \E l \in Loops, m \in Modes, frozen \in Scopes :
               NewLoop(l, m, frozen)
    BY <2>2, NewLoopStep
  <2>3. CASE \E l \in Loops, r \in Runs, kind \in Kinds : NewRun(l, r, kind)
    BY <2>3, NewRunStep
  <2>4. CASE \E l \in Loops, r \in Runs, x \in Outcomes : FinishRun(l, r, x)
    BY <2>4, FinishRunStep
  <2>5. CASE \E l \in Loops, before, after \in Loops \X Runs :
               Compare(l, before, after)
    BY <2>5, CompareStep
  <2>6. CASE \E l \in Loops, k \in Knowledge, replaces \in Replaceable :
               StageKnowledge(l, k, replaces)
    BY <2>6, StageKnowledgeStep
  <2>7. CASE \E l \in Loops, r \in Runs : StageBaseline(l, r)
    BY <2>7, StageBaselineStep
  <2>8. CASE \E l \in Loops, v \in Issued, b \in BOOLEAN : DecideLoop(l, v, b)
    BY <2>8, DecideLoopStep
  <2>9. CASE Compact \/ CloseTask
    BY <2>9, CompactStep, CloseTaskStep
  <2> QED
    BY <1>1, <2>1, <2>2, <2>3, <2>4, <2>5, <2>6, <2>7, <2>8, <2>9 DEF Command
<1>2. CASE Write
  <2>1. CASE WriteLoopState \/ WriteLoopDecision \/ WriteLoopDelta
             \/ WriteLoopInIndex
    BY <2>1, WriteLoopStateStep, WriteLoopDecisionStep, WriteLoopDeltaStep,
       WriteLoopInIndexStep
  <2>2. CASE WriteRunState \/ WriteResult \/ WriteResultState
    BY <2>2, WriteRunStateStep, WriteResultStep, WriteResultStateStep
  <2>3. CASE WriteVerdictState \/ WriteKnowledge \/ WriteBaselines
             \/ WriteLoopIndex \/ WriteVerdictInIndex
    BY <2>3, WriteVerdictStateStep, WriteKnowledgeStep, WriteBaselinesStep,
       WriteLoopIndexStep, WriteVerdictInIndexStep
  <2>4. CASE WriteLoopStatus
    BY <2>4, WriteLoopStatusStep
  <2> QED
    BY <1>2, <2>1, <2>2, <2>3, <2>4 DEF Write
<1>3. CASE Crash
  BY <1>3, CrashStep
<1>4. CASE UNCHANGED vars
  <2>1. /\ UNCHANGED <<completed, active, order, evidence, cases>>
        /\ UNCHANGED <<knowledge, baselines, rendered>>
        /\ UNCHANGED <<dirs, mode, scope, state, decision, delta>>
        /\ UNCHANGED <<manifest, result, compared, op, crashes>>
    BY <1>4 DEF vars, indexVars, reducedVars, loopVars, runVars
  <2>2. FilesTypeOK' /\ Registered' /\ Creating' /\ Deciding'
    BY <2>1 DEF IInv, FilesTypeOK, Registered, Indexed, UndecidedIsActive,
                Creating, Deciding
  <2>3. Recording' /\ StagedProven' /\ StagedResolvable'
    BY <2>1 DEF IInv, Recording, StagedProven, StagedResolvable, Known
  <2>4. Reduced'
    BY <2>1 DEF IInv, Reduced, KnowledgeFromDecidedLoops, BaselinesProven, Known
  <2> QED
    BY <2>2, <2>3, <2>4 DEF IInv
<1> QED
  BY <1>1, <1>2, <1>3, <1>4 DEF Next

\* The files of the ledger satisfy the invariant after every write of every
\* command, and after every crash between two writes.
THEOREM LedgerInvariance == Spec => []IInv
<1> QED
  BY InitIInv, NextIInv, PTL DEF Spec

-----------------------------------------------------------------------------
\* Each file keeps the type that its command wrote.
THEOREM LedgerTypes == Spec => []FilesTypeOK
<1>1. IInv => FilesTypeOK
  BY DEF IInv
<1> QED
  BY <1>1, LedgerInvariance, PTL

\* The order of new-loop's and verdict's writes never loses an undecided loop:
\* it is the active loop of the index.
THEOREM NoLoopForgotten == Spec => []UndecidedIsActive
<1>1. IInv => UndecidedIsActive
  BY DEF IInv, Registered
<1> QED
  BY <1>1, LedgerInvariance, PTL

\* A loop is frozen to registered cases; cases are never removed.
ScopesRegistered == \A l \in Loops : scope[l] \subseteq cases

LEMMA ScopesStep ==
  IInv /\ ScopesRegistered /\ [Next]_vars => ScopesRegistered'
<1> SUFFICES ASSUME IInv, ScopesRegistered, [Next]_vars PROVE ScopesRegistered'
  OBVIOUS
<1>1. ASSUME NEW l \in Loops, NEW m \in Modes, NEW frozen \in Scopes,
             NewLoop(l, m, frozen)
      PROVE  ScopesRegistered'
  BY <1>1 DEF NewLoop, IInv, FilesTypeOK, ScopesRegistered
<1>2. ASSUME NEW c \in Cases, AddCase(c)
      PROVE  ScopesRegistered'
  BY <1>2 DEF AddCase, loopVars, ScopesRegistered
<1>3. ASSUME UNCHANGED <<cases, scope>>
      PROVE  ScopesRegistered'
  BY <1>3 DEF ScopesRegistered
<1>4. CASE Write \/ Crash \/ UNCHANGED vars
  BY <1>3, <1>4 DEF Write, WriteLoopState, WriteLoopDecision, WriteLoopDelta,
     WriteLoopInIndex, WriteRunState, WriteResult, WriteResultState,
     WriteVerdictState, WriteKnowledge, WriteBaselines, WriteLoopIndex,
     WriteVerdictInIndex, WriteLoopStatus, Crash, vars, loopVars
<1>5. CASE Command
  BY <1>1, <1>2, <1>3, <1>5 DEF Command, NewRun, FinishRun, Compare,
     StageKnowledge, StageBaseline, DecideLoop, Compact, CloseTask, loopVars
<1> QED
  BY <1>4, <1>5 DEF Next

-----------------------------------------------------------------------------
LEMMA LateInit == Init => LateKept
<1> SUFFICES ASSUME Init PROVE LateKept
  OBVIOUS
<1>1. Indexed = {} /\ op.write = "none"
  BY DEF Init, Indexed, Range, Idle
<1>2. \A l \in Loops : NoRun(l)
  BY DEF Init, NoRun
<1>3. RunsFollow
  BY <1>1, <1>2 DEF RunsFollow, Creates
<1>4. StatusLate
  BY <1>1 DEF StatusLate
<1>5. ResultLate
  BY <1>2 DEF ResultLate, ResultMissing, NoRun
<1> QED
  BY <1>3, <1>4, <1>5 DEF LateKept

\* A run is planned for a loop that has its state, and results and verdicts come
\* after a run.
LEMMA RunsStep == IInv /\ RunsFollow /\ [Next]_vars => RunsFollow'
<1> SUFFICES ASSUME IInv, RunsFollow, [Next]_vars PROVE RunsFollow'
  OBVIOUS
<1> USE NothingElse
<1>0. /\ op.write # "none" => op \in Commands /\ op.loop \in Loops
      /\ state \in [Loops -> States]
      /\ manifest \in [Loops -> [Runs -> Manifests \cup {Nothing}]]
  BY LoopOfWrite DEF IInv, FilesTypeOK
<1>1. ASSUME UNCHANGED <<manifest, state, op>> PROVE RunsFollow'
  BY <1>1 DEF RunsFollow, NoRun
<1>2. ASSUME UNCHANGED <<manifest, state>>,
             op'.write \notin Creates \cup {"result", "result state", "verdict state"}
      PROVE  RunsFollow'
  BY <1>2 DEF RunsFollow, NoRun
<1>3. ASSUME UNCHANGED <<manifest, state>>, op.write \in Creates,
             NEW file \in Creates, Then(file)
      PROVE  RunsFollow'
  <2>1. op'.write = file /\ op'.loop = op.loop
    BY <1>0, <1>3, ThenKeepsArguments DEF Creates, Writes
  <2>2. file \notin {"result", "result state", "verdict state"}
    BY <1>3 DEF Creates
  <2> QED
    BY <1>3, <2>1, <2>2 DEF RunsFollow, NoRun
<1>4. ASSUME NEW l \in Loops, NEW m \in Modes, NEW frozen \in Scopes,
             NewLoop(l, m, frozen)
      PROVE  RunsFollow'
  <2>1. l \notin dirs /\ UNCHANGED <<manifest, state>>
        /\ op'.write = "loop state" /\ op'.loop = l
    BY <1>4 DEF NewLoop, Idle, runVars
  <2>2. state[l] = Nothing
    BY <2>1 DEF IInv, Registered
  <2> QED
    BY <2>1, <2>2 DEF RunsFollow, NoRun
<1>5. CASE WriteLoopState
  <2>1. /\ op.write = "loop state" /\ UNCHANGED manifest
        /\ op'.write = "loop decision" /\ op'.loop = op.loop
        /\ \A x \in Loops : state'[x] = Nothing => state[x] = Nothing
    BY <1>0, <1>5, ThenKeepsArguments DEF WriteLoopState, Writing, Writes, runVars
  <2> QED
    BY <2>1 DEF RunsFollow, NoRun, Creates
<1>6. CASE WriteLoopDecision \/ WriteLoopDelta
  BY <1>3, <1>6 DEF WriteLoopDecision, WriteLoopDelta, Writing, Creates, runVars
<1>7. ASSUME NEW l \in Loops, NEW r \in Runs, NEW kind \in Kinds, NewRun(l, r, kind)
      PROVE  RunsFollow'
  <2>1. /\ state[l] # Nothing /\ UNCHANGED state /\ op'.write = "run state"
        /\ \A x \in Loops \ {l} : manifest'[x] = manifest[x]
    BY <1>0, <1>7 DEF NewRun, Idle, loopVars
  <2> QED
    BY <2>1 DEF RunsFollow, NoRun, Creates
<1>8. ASSUME NEW l \in Loops, NEW r \in Runs, NEW x \in Outcomes, FinishRun(l, r, x)
      PROVE  RunsFollow'
  <2>1. /\ state[l] # Nothing /\ UNCHANGED state
        /\ op'.write = "result" /\ op'.loop = l
        /\ \A y \in Loops \ {l} : manifest'[y] = manifest[y]
    BY <1>0, <1>8 DEF FinishRun, Idle, loopVars
  <2>2. manifest'[l][r] # Nothing
    <3>1. manifest[l][r] \in Manifests
      BY <1>0, <1>8 DEF FinishRun
    <3>2. manifest'[l][r] = [manifest[l][r] EXCEPT !.status = "RECORDED"]
      BY <1>0, <1>8 DEF FinishRun
    <3> QED
      BY <3>1, <3>2 DEF Manifests
  <2> QED
    BY <2>1, <2>2, ZenonT(40) DEF RunsFollow, NoRun, Creates
<1>9. CASE WriteRunState \/ WriteResultState \/ WriteVerdictState
  <2>1. /\ UNCHANGED manifest
        /\ \A x \in Loops : state'[x] = Nothing => state[x] = Nothing
    <3>1. /\ op.write # "none" /\ UNCHANGED manifest
          /\ \/ state' = [state EXCEPT ![op.loop] = "RUNNING"]
             \/ state' = [state EXCEPT ![op.loop] = "EVALUATING"]
             \/ state' = [state EXCEPT ![op.loop] = op.verdict]
                /\ op.write = "verdict state"
      BY <1>9 DEF WriteRunState, WriteResultState, WriteVerdictState, Writing, runVars
    <3>2. op.write = "verdict state" => op.verdict \in Verdicts
      BY DEF IInv, Deciding
    <3> QED
      BY <1>0, <3>1, <3>2
  <2>2. op'.write \in {"none", "loop status", "knowledge"}
    <3>1. op \in Commands
      BY <1>0, <1>9 DEF WriteRunState, WriteResultState, WriteVerdictState, Writing
    <3>2. Then("loop status") \/ Then("knowledge") \/ Done
      BY <1>9 DEF WriteRunState, WriteResultState, WriteVerdictState
    <3> QED
      BY <3>1, <3>2, ThenKeepsArguments, DoneIsIdle DEF Writes
  <2> QED
    BY <2>1, <2>2 DEF RunsFollow, NoRun, Creates
<1>10. CASE WriteResult
  <2>1. /\ op.write = "result" /\ UNCHANGED <<manifest, state>>
        /\ op'.write = "result state" /\ op'.loop = op.loop
    BY <1>0, <1>10, ThenKeepsArguments DEF WriteResult, Writing, Writes, loopVars
  <2> QED
    BY <2>1 DEF RunsFollow, NoRun, Creates
<1>11. ASSUME NEW l \in Loops, NEW v \in Issued, NEW b \in BOOLEAN,
              DecideLoop(l, v, b)
       PROVE  RunsFollow'
  <2>1. /\ UNCHANGED <<manifest, state>>
        /\ op'.write = "verdict state" /\ op'.loop = l /\ Results(l) # {}
    BY <1>11 DEF DecideLoop, Idle, runVars
  <2>2. ~NoRun(l)
    BY <2>1 DEF Results, NoRun, IInv, Recording
  <2> QED
    BY <2>1, <2>2 DEF RunsFollow, NoRun, Creates
<1>12. CASE WriteLoopInIndex \/ WriteKnowledge \/ WriteBaselines \/ WriteLoopIndex
            \/ WriteVerdictInIndex \/ WriteLoopStatus \/ Crash
  <2>1. UNCHANGED <<manifest, state>>
    BY <1>12 DEF WriteLoopInIndex, WriteKnowledge, WriteBaselines, WriteLoopIndex,
       WriteVerdictInIndex, WriteLoopStatus, Crash, loopVars, runVars
  <2>2. op'.write \in {"none", "loop status", "baselines", "loop-index",
                       "verdict index"}
    <3>1. op \in Commands
      BY <1>0, <1>12 DEF WriteLoopInIndex, WriteKnowledge, WriteBaselines,
         WriteLoopIndex, WriteVerdictInIndex, WriteLoopStatus, Crash, Writing
    <3>2. \/ Then("loop status") \/ Then("baselines") \/ Then("loop-index")
          \/ Then("verdict index") \/ Done
      BY <1>12 DEF WriteLoopInIndex, WriteKnowledge, WriteBaselines, WriteLoopIndex,
         WriteVerdictInIndex, WriteLoopStatus, Crash
    <3> QED
      BY <3>1, <3>2, ThenKeepsArguments, DoneIsIdle DEF Writes
  <2> QED
    BY <1>2, <2>1, <2>2 DEF Creates
<1>13. ASSUME NEW l \in Loops,
              \/ \E k \in Knowledge, replaces \in Replaceable :
                   StageKnowledge(l, k, replaces)
              \/ \E r \in Runs : StageBaseline(l, r)
       PROVE  RunsFollow'
  <2>1. UNCHANGED <<manifest, state>> /\ op'.write = "loop status"
    BY <1>13 DEF StageKnowledge, StageBaseline, Idle, runVars
  <2> QED
    BY <1>2, <2>1 DEF Creates
<1>14. CASE \/ \E c \in Cases : AddCase(c)
            \/ \E l \in Loops, before, after \in Loops \X Runs :
                 Compare(l, before, after)
            \/ Compact \/ CloseTask \/ UNCHANGED vars
  BY <1>1, <1>14 DEF AddCase, Compare, Compact, CloseTask, vars, loopVars, runVars
<1> QED
  BY <1>4, <1>5, <1>6, <1>7, <1>8, <1>9, <1>10, <1>11, <1>12, <1>13, <1>14
     DEF Next, Command, Write

\* A status stays late only of a loop that keeps having no run, unless the write
\* of the status follows.
LEMMA StatusKept ==
  ASSUME StatusLate, UNCHANGED <<order, crashes>>, rendered \subseteq rendered',
         op.write \notin {"run state", "loop status"},
         \A l \in Loops : Unrun(l) =>
            (state'[l] = "FROZEN" /\ \A r \in Runs : manifest'[l][r] = Nothing)
            \/ (op'.loop = l /\ op'.write \in {"run state", "loop status"})
  PROVE  StatusLate'
<1>1. Indexed' = Indexed
  BY DEF Indexed
<1> SUFFICES ASSUME NEW l \in Loops, l \in Indexed, l \notin rendered
             PROVE  /\ l \in Range(crashes)
                    /\ Len(crashes) = 1 => Unrun(l)
  BY <1>1 DEF StatusLate, Unrun
<1> QED
  BY DEF StatusLate, Writing

LEMMA StatusStep == IInv /\ RunsFollow /\ StatusLate /\ [Next]_vars => StatusLate'
<1> SUFFICES ASSUME IInv, RunsFollow, StatusLate, [Next]_vars PROVE StatusLate'
  OBVIOUS
<1> USE NothingElse
<1>0. /\ op.write # "none" => op \in Commands /\ op.loop \in Loops
      /\ state \in [Loops -> States]
      /\ manifest \in [Loops -> [Runs -> Manifests \cup {Nothing}]]
      /\ crashes \in Seq(Loops)
  BY LoopOfWrite DEF IInv, FilesTypeOK
<1>1. ASSUME op.write \notin {"run state", "loop status"},
             UNCHANGED <<order, rendered, crashes, manifest, state>>
      PROVE  StatusLate'
  BY <1>1, StatusKept DEF Unrun
<1>2. CASE \/ \E c \in Cases : AddCase(c)
           \/ \E l \in Loops, m \in Modes, frozen \in Scopes :
                NewLoop(l, m, frozen)
           \/ \E l \in Loops, before, after \in Loops \X Runs :
                Compare(l, before, after)
           \/ \E l \in Loops, k \in Knowledge, replaces \in Replaceable :
                StageKnowledge(l, k, replaces)
           \/ \E l \in Loops, r \in Runs : StageBaseline(l, r)
           \/ \E l \in Loops, v \in Issued, b \in BOOLEAN : DecideLoop(l, v, b)
           \/ Compact \/ CloseTask
  <2>1. op = Idle
    BY <1>2 DEF AddCase, NewLoop, Compare, StageKnowledge, StageBaseline, DecideLoop,
       Compact, CloseTask
  <2>2. UNCHANGED <<order, rendered, crashes, manifest, state>>
    BY <1>2 DEF AddCase, NewLoop, Compare, StageKnowledge, StageBaseline, DecideLoop,
       Compact, CloseTask, indexVars, reducedVars, loopVars, runVars
  <2> QED
    BY <1>1, <2>1, <2>2 DEF Idle
<1>3. CASE WriteLoopDecision \/ WriteLoopDelta \/ WriteResult \/ WriteKnowledge
           \/ WriteBaselines \/ WriteLoopIndex \/ WriteVerdictInIndex
  <2>1. op.write \notin {"run state", "loop status"}
    BY <1>3 DEF WriteLoopDecision, WriteLoopDelta, WriteResult, WriteKnowledge,
       WriteBaselines, WriteLoopIndex, WriteVerdictInIndex, Writing
  <2>2. UNCHANGED <<order, rendered, crashes, manifest, state>>
    BY <1>3 DEF WriteLoopDecision, WriteLoopDelta, WriteResult, WriteKnowledge,
       WriteBaselines, WriteLoopIndex, WriteVerdictInIndex, indexVars, reducedVars,
       loopVars, runVars
  <2> QED
    BY <1>1, <2>1, <2>2
<1>4. ASSUME NEW l \in Loops, NEW r \in Runs, NEW kind \in Kinds, NewRun(l, r, kind)
      PROVE  StatusLate'
  <2>1. /\ op.write = "none" /\ op'.loop = l /\ op'.write = "run state"
        /\ UNCHANGED <<order, rendered, crashes, state>>
        /\ \A x \in Loops \ {l} : manifest'[x] = manifest[x]
    BY <1>0, <1>4 DEF NewRun, Idle, indexVars, reducedVars, loopVars
  <2> QED
    BY <2>1, StatusKept DEF Unrun
<1>5. ASSUME NEW l \in Loops, NEW r \in Runs, NEW x \in Outcomes, FinishRun(l, r, x)
      PROVE  StatusLate'
  <2>1. /\ op.write = "none" /\ manifest[l][r] # Nothing
        /\ UNCHANGED <<order, rendered, crashes, state>>
        /\ \A y \in Loops \ {l} : manifest'[y] = manifest[y]
    BY <1>0, <1>5 DEF FinishRun, Idle, indexVars, reducedVars, loopVars
  <2> QED
    BY <2>1, StatusKept DEF Unrun
<1>6. CASE WriteLoopState
  <2>1. /\ op.write = "loop state"
        /\ UNCHANGED <<order, rendered, crashes, manifest>>
        /\ \A x \in Loops : state[x] = "FROZEN" => state'[x] = "FROZEN"
    BY <1>0, <1>6 DEF WriteLoopState, Writing, indexVars, reducedVars, runVars
  <2> QED
    BY <2>1, StatusKept DEF Unrun
<1>7. CASE WriteResultState \/ WriteVerdictState
  <2>1. /\ op.write \in {"result state", "verdict state"}
        /\ UNCHANGED <<order, rendered, crashes, manifest>>
        /\ \A x \in Loops \ {op.loop} : state'[x] = state[x]
    BY <1>0, <1>7 DEF WriteResultState, WriteVerdictState, Writing, indexVars,
       reducedVars, runVars
  <2>2. ~NoRun(op.loop)
    BY <2>1 DEF RunsFollow
  <2> QED
    BY <2>1, <2>2, StatusKept DEF Unrun, NoRun
<1>8. CASE WriteLoopInIndex
  <2>1. /\ op.write = "loop index" /\ op.loop \in Loops
        /\ op'.write = "loop status" /\ op'.loop = op.loop
        /\ UNCHANGED <<rendered, crashes, manifest, state>>
    BY <1>0, <1>8, ThenKeepsArguments DEF WriteLoopInIndex, Writing, Writes,
       reducedVars, loopVars, runVars
  <2>2. Indexed' = Indexed \cup {op.loop}
    BY <1>8, <2>1, AppendedInOrder DEF WriteLoopInIndex, IInv, FilesTypeOK
  <2>3. Unrun(op.loop)
    BY <2>1 DEF IInv, Creating, Creates, RunsFollow, NoRun, Unrun
  <2> QED
    BY <2>1, <2>2, <2>3 DEF StatusLate, Unrun, Writing
<1>9. CASE WriteRunState
  <2>1. /\ op.write = "run state" /\ op'.write = "loop status" /\ op'.loop = op.loop
        /\ UNCHANGED <<order, rendered, crashes, manifest>>
        /\ \A x \in Loops \ {op.loop} : state'[x] = state[x]
    BY <1>0, <1>9, ThenKeepsArguments DEF WriteRunState, Writing, Writes, indexVars,
       reducedVars, runVars
  <2>2. Indexed' = Indexed
    BY <2>1 DEF Indexed
  <2> QED
    BY <2>1, <2>2 DEF StatusLate, Unrun, Writing
<1>10. CASE WriteLoopStatus
  <2>1. /\ op.write = "loop status" /\ op.loop \in Loops
        /\ UNCHANGED <<order, crashes, manifest, state>>
        /\ rendered' = rendered \cup {l \in {op.loop} : decision[l] # Nothing}
    BY <1>0, <1>10 DEF WriteLoopStatus, Writing, indexVars, loopVars, runVars
  <2>2. Indexed' = Indexed
    BY <2>1 DEF Indexed
  <2>3. op.loop \in Indexed => op.loop \in rendered'
    BY <2>1 DEF IInv, Registered
  <2> QED
    BY <2>1, <2>2, <2>3, ZenonT(40) DEF StatusLate, Unrun, Writing
<1>11. CASE Crash
  <2>1. /\ op.loop \in Loops /\ crashes' = Append(crashes, op.loop)
        /\ UNCHANGED <<order, rendered, manifest, state>>
    BY <1>0, <1>11 DEF Crash, indexVars, reducedVars, loopVars, runVars
  <2>2. Range(crashes') = Range(crashes) \cup {op.loop}
    BY <1>0, <2>1, AppendedLoop
  <2>3. Len(crashes') = Len(crashes) + 1 /\ Len(crashes) \in Nat
    BY <1>0, <2>1, AppendProperties, LenProperties
  <2>4. Len(crashes) = 0 => Range(crashes) = {}
    BY <1>0, LenProperties DEF Range
  <2>5. Indexed' = Indexed
    BY <2>1 DEF Indexed
  <2>6. SUFFICES ASSUME NEW l \in Loops, l \in Indexed, l \notin rendered
                 PROVE  /\ l \in Range(crashes) \cup {op.loop}
                        /\ Len(crashes) + 1 = 1 => Unrun(l)
    BY <2>1, <2>2, <2>3, <2>5, ZenonT(40) DEF StatusLate, Unrun
  <2>7. l \notin Range(crashes) => op.loop = l /\ Unrun(l)
    BY <2>6 DEF StatusLate
  <2> QED
    BY <2>3, <2>4, <2>7
<1>12. CASE UNCHANGED vars
  BY <1>12 DEF vars, indexVars, reducedVars, loopVars, runVars, StatusLate, Indexed,
     Unrun, Writing
<1> QED
  BY <1>2, <1>3, <1>4, <1>5, <1>6, <1>7, <1>8, <1>9, <1>10, <1>11, <1>12
     DEF Next, Command, Write

\* A run is recorded by the command that writes its result next.
LEMMA ResultStep == IInv /\ ResultLate /\ [Next]_vars => ResultLate'
<1> SUFFICES ASSUME IInv, ResultLate, [Next]_vars PROVE ResultLate'
  OBVIOUS
<1> USE NothingElse
<1>0. /\ op.write # "none" => op \in Commands /\ op.loop \in Loops
      /\ manifest \in [Loops -> [Runs -> Manifests \cup {Nothing}]]
      /\ result \in [Loops -> [Runs -> Outcomes \cup {Nothing}]]
      /\ crashes \in Seq(Loops)
  BY LoopOfWrite DEF IInv, FilesTypeOK
<1>1. ASSUME op.write # "result", UNCHANGED <<manifest, result, crashes>>
      PROVE  ResultLate'
  BY <1>1 DEF ResultLate, ResultMissing, Writing
<1>2. ASSUME NEW l \in Loops, NEW r \in Runs, NEW kind \in Kinds, NewRun(l, r, kind)
      PROVE  ResultLate'
  <2>1. /\ op.write = "none" /\ UNCHANGED <<result, crashes>>
        /\ manifest'[l][r] = [status |-> "PLANNED", kind |-> kind]
        /\ \A x \in Loops, y \in Runs :
             x # l \/ y # r => manifest'[x][y] = manifest[x][y]
    BY <1>0, <1>2 DEF NewRun, Idle
  <2> QED
    BY <2>1 DEF ResultLate, ResultMissing, Writing
<1>3. ASSUME NEW l \in Loops, NEW r \in Runs, NEW x \in Outcomes, FinishRun(l, r, x)
      PROVE  ResultLate'
  <2>1. /\ op.write = "none" /\ UNCHANGED <<result, crashes>>
        /\ op'.write = "result" /\ op'.loop = l /\ op'.run = r
        /\ \A y \in Loops, z \in Runs :
             y # l \/ z # r => manifest'[y][z] = manifest[y][z]
    BY <1>0, <1>3 DEF FinishRun, Idle
  <2> QED
    BY <2>1 DEF ResultLate, ResultMissing, Writing
<1>4. CASE WriteResult
  <2>1. /\ op.write = "result" /\ op.run \in Runs /\ op.outcome # Nothing
        /\ UNCHANGED <<manifest, crashes>>
    BY <1>4 DEF WriteResult, Writing, IInv, Recording
  <2>2. /\ result'[op.loop][op.run] = op.outcome
        /\ \A x \in Loops, y \in Runs :
             x # op.loop \/ y # op.run => result'[x][y] = result[x][y]
    BY <1>0, <1>4, <2>1 DEF WriteResult
  <2> QED
    BY <2>1, <2>2 DEF ResultLate, ResultMissing, Writing
<1>5. CASE Crash
  <2>1. /\ op.loop \in Loops /\ crashes' = Append(crashes, op.loop)
        /\ UNCHANGED <<manifest, result>>
    BY <1>0, <1>5 DEF Crash, runVars
  <2>2. Range(crashes') = Range(crashes) \cup {op.loop}
    BY <1>0, <2>1, AppendedLoop
  <2> QED
    BY <2>1, <2>2 DEF ResultLate, ResultMissing, Writing
<1>6. CASE UNCHANGED vars
  BY <1>6 DEF vars, runVars, ResultLate, ResultMissing, Writing
<1>7. CASE Write /\ ~WriteResult
  <2>1. op.write # "result"
    BY <1>7 DEF Write, WriteLoopState, WriteLoopDecision, WriteLoopDelta,
       WriteLoopInIndex, WriteRunState, WriteResultState, WriteVerdictState,
       WriteKnowledge, WriteBaselines, WriteLoopIndex, WriteVerdictInIndex,
       WriteLoopStatus, Writing
  <2>2. UNCHANGED <<manifest, result, crashes>>
    BY <1>7 DEF Write, WriteLoopState, WriteLoopDecision, WriteLoopDelta,
       WriteLoopInIndex, WriteRunState, WriteResultState, WriteVerdictState,
       WriteKnowledge, WriteBaselines, WriteLoopIndex, WriteVerdictInIndex,
       WriteLoopStatus, runVars
  <2> QED
    BY <1>1, <2>1, <2>2
<1>8. CASE \/ \E c \in Cases : AddCase(c)
           \/ \E l \in Loops, m \in Modes, frozen \in Scopes :
                NewLoop(l, m, frozen)
           \/ \E l \in Loops, before, after \in Loops \X Runs :
                Compare(l, before, after)
           \/ \E l \in Loops, k \in Knowledge, replaces \in Replaceable :
                StageKnowledge(l, k, replaces)
           \/ \E l \in Loops, r \in Runs : StageBaseline(l, r)
           \/ \E l \in Loops, v \in Issued, b \in BOOLEAN : DecideLoop(l, v, b)
           \/ Compact \/ CloseTask
  <2>1. op = Idle
    BY <1>8 DEF AddCase, NewLoop, Compare, StageKnowledge, StageBaseline, DecideLoop,
       Compact, CloseTask
  <2>2. UNCHANGED <<manifest, result, crashes>>
    BY <1>8 DEF AddCase, NewLoop, Compare, StageKnowledge, StageBaseline, DecideLoop,
       Compact, CloseTask, runVars
  <2> QED
    BY <1>1, <2>1, <2>2 DEF Idle
<1> QED
  BY <1>2, <1>3, <1>4, <1>5, <1>6, <1>7, <1>8 DEF Next, Command

LEMMA LateStep == IInv /\ LateKept /\ [Next]_vars => LateKept'
BY RunsStep, StatusStep, ResultStep DEF LateKept

\* What validate checks of the index, the loops' data and the baselines holds
\* between any two writes and after any number of crashes.  The two files that
\* it requires and the code writes last, a loop's status and a recorded run's
\* result, are missing only while they are the next write, or of a loop that
\* had a command cut short.
THEOREM AlwaysValid == Spec => []LedgerValidates
<1>1. Init => ScopesRegistered
  BY DEF Init, ScopesRegistered
<1>2. IInv /\ ScopesRegistered => DataValidates
  BY DEF IInv, Registered, Deciding, Reduced, DataValidates, ScopesRegistered
<1>3. LateKept => LateFiles
  BY DEF LateKept, StatusLate, ResultLate, LateFiles
<1> QED
  BY <1>1, <1>2, <1>3, ScopesStep, LateInit, LateStep, LedgerInvariance, PTL
     DEF Spec, LedgerValidates

\* Knowledge of the task carries the final decision of the loop it came from.
THEOREM KnowledgeDecided == Spec => []KnowledgeFromDecidedLoops
<1>1. IInv => KnowledgeFromDecidedLoops
  BY DEF IInv, Reduced
<1> QED
  BY <1>1, LedgerInvariance, PTL

\* Baselines stand on an accepted loop and a passed, correct, measured run.
THEOREM BaselinesStandOnRuns == Spec => []BaselinesProven
<1>1. IInv => BaselinesProven
  BY DEF IInv, Reduced
<1> QED
  BY <1>1, LedgerInvariance, PTL

\* apply_knowledge_delta finds every id that a staged change replaces.
THEOREM ReplacementsApply == Spec => []ReplacementsResolvable
<1>1. IInv => ReplacementsResolvable
  <2> SUFFICES ASSUME IInv, Writing("knowledge") PROVE
        Replaced(delta[op.loop]) \subseteq Known \cup ChangeIds(delta[op.loop])
    BY DEF ReplacementsResolvable
  <2>1. op.loop \in Loops /\ active = op.loop
    BY NothingElse DEF IInv, Deciding, Reduces, Writing
  <2>2. delta[op.loop] # Nothing
    BY <2>1, NothingElse DEF IInv, Registered
  <2> QED
    BY <2>1, <2>2 DEF IInv, StagedResolvable
<1> QED
  BY <1>1, LedgerInvariance, PTL

-----------------------------------------------------------------------------
\* What the history calls settled: the decisions of the loops of the order
\* that are not active.
Settled == [l \in Loops |-> IF l \in Indexed /\ l # active THEN decision[l]
                                                         ELSE Nothing]

\* A step that leaves the index alone, and the decisions of the loops of the
\* order that are not active, leaves the history alone.
LEMMA HistoryStutter ==
  ASSUME UNCHANGED <<completed, active, order>>,
         \A l \in Loops :
            l \in Indexed /\ l # active => decision'[l] = decision[l]
  PROVE  UNCHANGED <<Settled, active, completed>>
<1>1. Indexed' = Indexed
  BY DEF Indexed
<1> QED
  BY <1>1 DEF Settled

\* Every step of the ledger is a step of its history, or none: the index entry
\* opens a loop, the last write of verdict settles it, close-task completes.
LEMMA HistoryStep == IInv /\ [Next]_vars => [History!Next]_(History!vars)
<1> SUFFICES ASSUME IInv, [Next]_vars
             PROVE  History!Next \/ UNCHANGED <<Settled, active, completed>>
  BY DEF History!vars, Settled
<1>1. CASE WriteLoopInIndex
  <2>1. /\ op.loop \in Loops /\ op.loop \notin Indexed /\ active = Nothing
        /\ ~completed
    BY <1>1, LoopOfWrite DEF WriteLoopInIndex, Writing, IInv, Creating, Creates
  <2>2. active' = op.loop /\ UNCHANGED <<completed, decision>>
    BY <1>1 DEF WriteLoopInIndex, loopVars
  <2>3. Indexed' = Indexed \cup {op.loop}
    BY <1>1, <2>1, AppendedInOrder DEF WriteLoopInIndex, IInv, FilesTypeOK
  <2>4. Settled[op.loop] = Nothing /\ Settled' = Settled
    BY <2>1, <2>2, <2>3, NothingElse DEF Settled
  <2>5. History!Open(op.loop)
    BY <2>1, <2>2, <2>4 DEF History!Open, Settled
  <2>6. \E l \in Loops : History!Open(l)
    BY <2>1, <2>5
  <2> QED
    BY <2>6 DEF History!Next
<1>2. CASE WriteVerdictInIndex
  <2>1. /\ op.loop \in Loops /\ op.verdict \in Verdicts
        /\ decision[op.loop] = op.verdict /\ active = op.loop
    BY <1>2 DEF WriteVerdictInIndex, Writing, IInv, Deciding, Reduces
  <2>2. ~completed /\ active # Nothing /\ active \in Indexed
    BY <2>1, NothingElse DEF IInv, Registered
  <2>3. active' = Nothing /\ UNCHANGED <<completed, order, decision>>
    BY <1>2 DEF WriteVerdictInIndex, loopVars
  <2>4. Indexed' = Indexed
    BY <2>3 DEF Indexed
  <2>5. Settled' = [Settled EXCEPT ![active] = op.verdict]
    BY <2>1, <2>2, <2>3, <2>4, NothingElse DEF Settled
  <2>6. PICK v \in Verdicts : v = op.verdict
    BY <2>1
  <2>7. History!Settle(v)
    BY <2>2, <2>3, <2>5, <2>6 DEF History!Settle, Settled
  <2> QED
    BY <2>7 DEF History!Next
<1>3. CASE CloseTask
  <2>1. /\ active = Nothing /\ completed' = TRUE
        /\ UNCHANGED <<active, order, decision>>
    BY <1>3 DEF CloseTask, loopVars
  <2>2. UNCHANGED Settled
    BY <2>1 DEF Settled, Indexed
  <2>3. History!Complete
    BY <2>1, <2>2 DEF History!Complete, Settled
  <2> QED
    BY <2>3 DEF History!Next
<1>4. CASE WriteLoopDecision
  <2>1. op.loop \in Loops /\ op.loop \notin Indexed
    BY <1>4, LoopOfWrite DEF WriteLoopDecision, Writing, IInv, Creating, Creates
  <2>2. /\ UNCHANGED <<completed, active, order>>
        /\ decision' = [decision EXCEPT ![op.loop] = "PENDING"]
    BY <1>4 DEF WriteLoopDecision, indexVars
  <2>3. \A l \in Loops : l \in Indexed /\ l # active => decision'[l] = decision[l]
    BY <2>1, <2>2 DEF IInv, FilesTypeOK
  <2> QED
    BY <2>2, <2>3, HistoryStutter
<1>5. ASSUME NEW l \in Loops, NEW v \in Issued, NEW b \in BOOLEAN,
             DecideLoop(l, v, b)
      PROVE  UNCHANGED <<Settled, active, completed>>
  <2>1. /\ UNCHANGED <<completed, active, order>>
        /\ decision' = [decision EXCEPT ![l] = v] /\ decision[l] = "PENDING"
    BY <1>5 DEF DecideLoop, indexVars
  <2>2. l \in Indexed => l = active
    BY <2>1 DEF IInv, Registered, UndecidedIsActive
  <2>3. \A k \in Loops : k \in Indexed /\ k # active => decision'[k] = decision[k]
    BY <2>1, <2>2 DEF IInv, FilesTypeOK
  <2> QED
    BY <2>1, <2>3, HistoryStutter
<1>6. ASSUME UNCHANGED <<completed, active, order, decision>>
      PROVE  UNCHANGED <<Settled, active, completed>>
  BY <1>6 DEF Settled, Indexed
<1>7. CASE WriteLoopState \/ WriteLoopDelta \/ WriteRunState \/ WriteResult
           \/ WriteResultState \/ WriteVerdictState \/ Crash
  BY <1>6, <1>7 DEF WriteLoopState, WriteLoopDelta, WriteRunState, WriteResult,
     WriteResultState, WriteVerdictState, Crash, indexVars, loopVars
<1>8. CASE WriteKnowledge \/ WriteBaselines \/ WriteLoopIndex
           \/ WriteLoopStatus \/ Compact
  BY <1>6, <1>8 DEF WriteKnowledge, WriteBaselines, WriteLoopIndex,
     WriteLoopStatus, Compact, indexVars, loopVars
<1>9. CASE UNCHANGED vars
  BY <1>6, <1>9 DEF vars, indexVars, loopVars
<1>10. CASE \E c \in Cases : AddCase(c)
  BY <1>6, <1>10 DEF AddCase, indexVars, loopVars
<1>11. CASE \E l \in Loops, m \in Modes, frozen \in Scopes :
              NewLoop(l, m, frozen)
  BY <1>6, <1>11 DEF NewLoop, indexVars
<1>12. CASE \E l \in Loops, r \in Runs :
              \/ \E kind \in Kinds : NewRun(l, r, kind)
              \/ \E x \in Outcomes : FinishRun(l, r, x)
              \/ StageBaseline(l, r)
  BY <1>6, <1>12, ZenonT(40) DEF NewRun, FinishRun, StageBaseline, indexVars, loopVars
<1>13. CASE \E l \in Loops, before, after \in Loops \X Runs :
              Compare(l, before, after)
  BY <1>6, <1>13 DEF Compare, indexVars, loopVars
<1>14. CASE \E l \in Loops, k \in Knowledge, replaces \in Replaceable :
              StageKnowledge(l, k, replaces)
  BY <1>6, <1>14 DEF StageKnowledge, indexVars
<1> QED
  BY <1>1, <1>2, <1>3, <1>4, <1>5, <1>7, <1>8, <1>9, <1>10, <1>11, <1>12,
     <1>13, <1>14 DEF Next, Command, Write

\* The ledger implements its history: loops are opened one at a time, settled
\* once by their final decision, and none is opened or settled in a completed
\* task, whatever write a command is interrupted at.
THEOREM LedgerImplementsHistory == Spec => TaskHistorySpec
<1>1. Init => History!Init
  <2> SUFFICES ASSUME Init PROVE History!Init
    OBVIOUS
  <2>1. Indexed = {}
    BY DEF Init, Indexed, Range
  <2> QED
    BY <2>1 DEF Init, History!Init
<1>2. IInv /\ [Next]_vars => [History!Next]_(History!vars)
  BY HistoryStep
<1> QED
  BY <1>1, <1>2, LedgerInvariance, PTL DEF Spec, TaskHistorySpec, History!Spec

-----------------------------------------------------------------------------
\* A set of the numbers up to n that has 0 and, with a number, the next is all
\* of them: there is no least number that it lacks.
LEMMA UpTo ==
  ASSUME NEW n \in Nat, NEW P, 0 \in P, \A m \in 1..n : m - 1 \in P => m \in P
  PROVE  0..n \subseteq P
<1> SUFFICES ASSUME (0..n) \ P # {} PROVE FALSE
  OBVIOUS
<1> DEFINE R == OpToRel(<, Nat)
           T == (0..n) \ P
<1>1. IsWellFoundedOn(R, Nat)
  BY NatLessThanWellFounded
<1>0. T \subseteq Nat /\ T # {}
  OBVIOUS
<1> HIDE DEF R, T
<1>2. PICK m \in T : \A y \in T : <<y, m>> \notin R
  BY <1>0, <1>1, WFMin
<1>3. \A y \in T : ~(y < m)
  BY <1>0, <1>2 DEF R, OpToRel
<1>4. m \in (0..n) \ P /\ \A y \in (0..n) \ P : ~(y < m)
  BY <1>2, <1>3 DEF T
<1>5. m # 0 /\ m - 1 \in 0..n /\ m \in 1..n /\ m - 1 < m
  BY <1>4
<1>6. m - 1 \in P
  BY <1>4, <1>5
<1> QED
  BY <1>4, <1>5, <1>6

\* What compact has rebuilt once it has looked at the first n loops.
RowOf(l) == [loop |-> l, verdict |-> decision[l]]
RowsTyped(rows, n) ==
  /\ rows \in Seq(Rows)
  /\ \A i \in DOMAIN rows : \E m \in 1..n : rows[i] = RowOf(order[m])
RowsInOrder(rows, n) ==
  \A i, j \in DOMAIN rows : i < j =>
    \E m, k \in 1..n : m < k /\ order[m] = rows[i].loop /\ order[k] = rows[j].loop
RowsComplete(rows, n) ==
  \A m \in 1..n : Decided(order[m]) =>
    \E i \in DOMAIN rows : rows[i].loop = order[m]
Collected(rows, n) ==
  RowsTyped(rows, n) /\ RowsInOrder(rows, n) /\ RowsComplete(rows, n)

\* The loops of the order have a row once they are decided.
LEMMA RowTyped ==
  ASSUME IInv, NEW m \in 1..Len(order)
  PROVE  /\ order[m] \in Loops
         /\ RowOf(order[m]).loop = order[m]
         /\ RowOf(order[m]).verdict = decision[order[m]]
         /\ Decided(order[m]) => RowOf(order[m]) \in Rows
<1>1. order \in Seq(Loops) /\ decision \in [Loops -> Decisions]
  BY DEF IInv, FilesTypeOK
<1>2. DOMAIN order = 1..Len(order)
  BY <1>1, LenProperties
<1>3. order[m] \in Loops
  BY <1>1, ElementOfSeq
<1>4. order[m] \in Indexed
  BY <1>2 DEF Indexed, Range
<1>5. decision[order[m]] # Nothing
  BY <1>3, <1>4 DEF IInv, Registered
<1> QED
  BY <1>1, <1>3, <1>5 DEF RowOf, Rows, Decided, Decisions

LEMMA CollectedNone == Collected(<<>>, 0)
<1>1. <<>> \in Seq(Rows) /\ DOMAIN <<>> = {} /\ 1..0 = {}
  BY EmptySeq
<1> QED
  BY <1>1 DEF Collected, RowsTyped, RowsInOrder, RowsComplete

\* An undecided loop is passed over.
LEMMA PassedOver ==
  ASSUME NEW n \in Nat \ {0}, NEW rows, Collected(rows, n - 1), ~Decided(order[n])
  PROVE  Collected(rows, n)
<1>1. 1..(n - 1) \subseteq 1..n /\ \A m \in 1..n : m # n => m \in 1..(n - 1)
  OBVIOUS
<1>2. RowsTyped(rows, n)
  BY <1>1 DEF Collected, RowsTyped
<1>3. RowsInOrder(rows, n)
  BY <1>1 DEF Collected, RowsInOrder
<1>4. RowsComplete(rows, n)
  BY <1>1 DEF Collected, RowsComplete
<1> QED
  BY <1>2, <1>3, <1>4 DEF Collected

\* A decided loop gets the next row.
LEMMA Collects ==
  ASSUME IInv, NEW n \in 1..Len(order), NEW rows, Collected(rows, n - 1),
         Decided(order[n]), NEW grown, grown = Append(rows, RowOf(order[n]))
  PROVE  Collected(grown, n)
<1>0. /\ n \in Nat /\ n \in 1..n /\ 1..(n - 1) \subseteq 1..n
      /\ \A m \in 1..(n - 1) : m < n
      /\ \A m \in 1..n : m # n => m \in 1..(n - 1)
  <2>1. Len(order) \in Nat
    BY LenProperties DEF IInv, FilesTypeOK
  <2> QED
    BY <2>1
<1>1. RowOf(order[n]) \in Rows /\ RowOf(order[n]).loop = order[n]
  BY RowTyped
<1>2. rows \in Seq(Rows)
  BY DEF Collected, RowsTyped
<1>3. /\ grown \in Seq(Rows) /\ Len(grown) = Len(rows) + 1
      /\ \A i \in 1..Len(rows) : grown[i] = rows[i]
      /\ grown[Len(rows) + 1] = RowOf(order[n])
  BY <1>1, <1>2, AppendProperties
<1> DEFINE last == Len(rows) + 1
<1>4. /\ Len(rows) \in Nat /\ DOMAIN rows = 1..Len(rows)
      /\ DOMAIN grown = 1..last
  BY <1>2, <1>3, LenProperties
<1>5. /\ \A i \in DOMAIN grown : i = last \/ i \in DOMAIN rows
      /\ \A i \in DOMAIN rows : i \in DOMAIN grown /\ grown[i] = rows[i] /\ i < last
      /\ last \in DOMAIN grown /\ grown[last] = RowOf(order[n])
      /\ \A i, j \in DOMAIN grown : i < j => i \in DOMAIN rows
  BY <1>3, <1>4
<1> HIDE DEF last
<1>6. RowsTyped(grown, n)
  <2> SUFFICES ASSUME NEW i \in DOMAIN grown
               PROVE  \E m \in 1..n : grown[i] = RowOf(order[m])
    BY <1>3 DEF RowsTyped
  <2>1. CASE i = last
    BY <2>1, <1>0, <1>5
  <2>2. CASE i \in DOMAIN rows
    <3>1. PICK m \in 1..(n - 1) : rows[i] = RowOf(order[m])
      BY <2>2 DEF Collected, RowsTyped
    <3> QED
      BY <2>2, <3>1, <1>0, <1>5
  <2> QED
    BY <2>1, <2>2, <1>5
<1>7. RowsInOrder(grown, n)
  <2> SUFFICES ASSUME NEW i \in DOMAIN grown, NEW j \in DOMAIN grown, i < j
               PROVE  \E m, k \in 1..n : /\ m < k /\ order[m] = grown[i].loop
                                         /\ order[k] = grown[j].loop
    BY DEF RowsInOrder
  <2>1. i \in DOMAIN rows /\ grown[i] = rows[i]
    BY <1>5
  <2>2. CASE j = last
    <3>1. PICK m \in 1..(n - 1) : rows[i] = RowOf(order[m])
      BY <2>1 DEF Collected, RowsTyped
    <3>2. RowOf(order[m]).loop = order[m]
      BY DEF RowOf
    <3> QED
      BY <2>1, <2>2, <3>1, <3>2, <1>0, <1>1, <1>5
  <2>3. CASE j \in DOMAIN rows
    <3>1. PICK m, k \in 1..(n - 1) : /\ m < k /\ order[m] = rows[i].loop
                                     /\ order[k] = rows[j].loop
      BY <2>1, <2>3 DEF Collected, RowsInOrder
    <3> QED
      BY <2>1, <2>3, <3>1, <1>0, <1>5
  <2> QED
    BY <2>2, <2>3, <1>5
<1>8. RowsComplete(grown, n)
  <2> SUFFICES ASSUME NEW m \in 1..n, Decided(order[m])
               PROVE  \E i \in DOMAIN grown : grown[i].loop = order[m]
    BY DEF RowsComplete
  <2>1. CASE m = n
    BY <2>1, <1>1, <1>5
  <2>2. CASE m # n
    <3>1. m \in 1..(n - 1)
      BY <2>2, <1>0
    <3>2. PICK i \in DOMAIN rows : rows[i].loop = order[m]
      BY <3>1 DEF Collected, RowsComplete
    <3> QED
      BY <3>2, <1>5
  <2> QED
    BY <2>1, <2>2
<1> QED
  BY <1>6, <1>7, <1>8 DEF Collected

\* The rows after the first n loops, and what compact makes of one more.
Extended(rows, n) ==
  IF Decided(order[n]) THEN Append(rows, RowOf(order[n])) ELSE rows
Rebuilds(f) ==
  f = [n \in 0..Len(order) |-> IF n = 0 THEN <<>> ELSE Extended(f[n - 1], n)]

\* compact's loop over the order has a result: the rows of n - 1 loops extend
\* to those of n.
LEMMA RebuildExists ==
  ASSUME order \in Seq(Loops)
  PROVE  \E f : Rebuilds(f)
<1> DEFINE Upto(f, m) == /\ f[0] = <<>>
                         /\ \A n \in 1..m : f[n] = Extended(f[n - 1], n)
           P == {m \in 0..Len(order) :
                   \E f : f = [n \in 0..m |-> f[n]] /\ Upto(f, m)}
<1>1. Len(order) \in Nat
  BY LenProperties
<1>2. 0 \in P
  <2> DEFINE z == [n \in 0..0 |-> <<>>]
  <2>1. z = [n \in 0..0 |-> z[n]] /\ z[0] = <<>> /\ \A n \in 1..0 : FALSE
    OBVIOUS
  <2>2. 0 \in 0..Len(order)
    BY <1>1
  <2> HIDE DEF z
  <2>3. Upto(z, 0)
    BY <2>1
  <2> HIDE DEF Upto
  <2> QED
    BY <2>1, <2>2, <2>3
<1>3. ASSUME NEW m \in 1..Len(order), m - 1 \in P PROVE m \in P
  <2>1. PICK f : f = [n \in 0..(m - 1) |-> f[n]] /\ Upto(f, m - 1)
    BY <1>3
  <2>2. m \in Nat /\ m # 0 /\ m \in 0..Len(order) /\ 0 \in 0..m
    BY <1>1
  <2> DEFINE g == [n \in 0..m |-> IF n = m THEN Extended(f[m - 1], m) ELSE f[n]]
  <2>3. g = [n \in 0..m |-> g[n]] /\ g[0] = <<>>
    <3>1. g = [n \in 0..m |-> g[n]]
      OBVIOUS
    <3>2. g[0] = f[0]
      BY <2>2
    <3> QED
      BY <3>1, <3>2, <2>1
  <2>4. ASSUME NEW n \in 1..m PROVE g[n] = Extended(g[n - 1], n)
    <3>1. n \in 0..m /\ n - 1 \in 0..m /\ n - 1 # m
      BY <2>2
    <3>2. g[n - 1] = f[n - 1]
      BY <3>1
    <3>3. CASE n = m
      BY <3>1, <3>2, <3>3
    <3>4. CASE n # m
      <4>1. n \in 1..(m - 1)
        BY <3>4, <2>2
      <4>2. f[n] = Extended(f[n - 1], n)
        BY <2>1, <4>1
      <4>3. g[n] = f[n]
        BY <3>1, <3>4
      <4> HIDE DEF g
      <4> QED
        BY <3>2, <4>2, <4>3
    <3> QED
      BY <3>3, <3>4
  <2> HIDE DEF g
  <2>5. Upto(g, m)
    BY <2>3, <2>4
  <2> HIDE DEF Upto
  <2> QED
    BY <2>2, <2>3, <2>5
<1>4. Len(order) \in P
  <2>1. 0..Len(order) \subseteq P
    <3> HIDE DEF P
    <3> QED
      BY <1>1, <1>2, <1>3, UpTo
  <2>2. Len(order) \in 0..Len(order)
    BY <1>1
  <2> HIDE DEF P
  <2> QED
    BY <2>1, <2>2
<1>5. PICK f : f = [n \in 0..Len(order) |-> f[n]] /\ Upto(f, Len(order))
  BY <1>4
<1>6. ASSUME NEW n \in 0..Len(order)
      PROVE  f[n] = IF n = 0 THEN <<>> ELSE Extended(f[n - 1], n)
  BY <1>1, <1>5
<1> QED
  BY <1>5, <1>6 DEF Rebuilds

\* compact's loop index has the decided loops of the order, in order.
LEMMA RebuiltCollects ==
  ASSUME IInv
  PROVE  Collected(Rebuilt, Len(order))
<1>1. order \in Seq(Loops)
  BY DEF IInv, FilesTypeOK
<1> DEFINE f == CHOOSE g : Rebuilds(g)
<1>2. Rebuilt = f[Len(order)]
  BY DEF Rebuilt, Rebuilds, Extended, RowOf
<1>3. Rebuilds(f)
  BY <1>1, RebuildExists
<1> HIDE DEF f
<1>4. Len(order) \in Nat /\ Len(order) \in 0..Len(order) /\ 0 \in 0..Len(order)
  <2>1. Len(order) \in Nat
    BY <1>1, LenProperties
  <2> QED
    BY <2>1
<1>5. \A n \in 0..Len(order) :
        f[n] = IF n = 0 THEN <<>> ELSE Extended(f[n - 1], n)
  BY <1>3 DEF Rebuilds
<1> DEFINE P == {n \in 0..Len(order) : Collected(f[n], n)}
<1>6. 0 \in P
  <2>1. f[0] = <<>>
    BY <1>4, <1>5
  <2>2. Collected(f[0], 0)
    BY <2>1, CollectedNone
  <2> QED
    BY <2>2, <1>4
<1>7. ASSUME NEW n \in 1..Len(order), n - 1 \in P PROVE n \in P
  <2>1. n \in Nat \ {0} /\ n \in 0..Len(order)
    BY <1>4
  <2>2. f[n] = Extended(f[n - 1], n)
    BY <2>1, <1>5
  <2>3. Collected(f[n - 1], n - 1)
    BY <1>7
  <2>4. CASE Decided(order[n])
    <3>1. f[n] = Append(f[n - 1], RowOf(order[n]))
      BY <2>2, <2>4 DEF Extended
    <3>2. Collected(f[n], n)
      BY <2>3, <2>4, <3>1, Collects
    <3> QED
      BY <3>2, <2>1
  <2>5. CASE ~Decided(order[n])
    <3>1. f[n] = f[n - 1]
      BY <2>2, <2>5 DEF Extended
    <3>2. Collected(f[n - 1], n)
      BY <2>1, <2>3, <2>5, PassedOver
    <3> QED
      BY <3>1, <3>2, <2>1
  <2> QED
    BY <2>4, <2>5
<1>8. Len(order) \in P
  <2> HIDE DEF P
  <2> QED
    BY <1>4, <1>6, <1>7, UpTo
<1> QED
  BY <1>2, <1>8
-----------------------------------------------------------------------------
\* The writes of verdict before its row is in the loop index.
BeforeRow == {"verdict state", "knowledge", "baselines", "loop-index"}
WriteKept ==
  /\ op.write \in BeforeRow => \A i \in DOMAIN loopIndex : loopIndex[i].loop # op.loop
  /\ op.write = "verdict index" => \E i \in DOMAIN loopIndex : loopIndex[i].loop = op.loop

LEMMA IndexKeptParts ==
  IndexKept <=> /\ loopIndex \in Seq(Rows)
                /\ LoopIndexFaithful
                /\ active # Nothing => order # <<>> /\ active = order[Len(order)]
                /\ WriteKept
BY DEF IndexKept, WriteKept, BeforeRow, LoopIndexed

\* What the rows of the loop index say of their loops.
LEMMA RowsSay ==
  ASSUME IInv, IndexKept, NEW i \in DOMAIN loopIndex
  PROVE  /\ loopIndex[i] \in Rows
         /\ loopIndex[i].loop \in Loops /\ loopIndex[i].loop \in Indexed
         /\ decision[loopIndex[i].loop] = loopIndex[i].verdict
         /\ decision[loopIndex[i].loop] \in Verdicts
<1>1. loopIndex \in Seq(Rows) /\ DOMAIN loopIndex = 1..Len(loopIndex)
  BY LenProperties DEF IndexKept
<1>2. loopIndex[i] \in Rows
  BY <1>1, ElementOfSeq
<1> QED
  BY <1>2 DEF Rows, IndexKept, LoopIndexFaithful

\* The rows follow the order, and every closed loop has one.
LEMMA RowsFollow ==
  ASSUME IndexKept
  PROVE  \A i, j \in DOMAIN loopIndex : i < j =>
           \E m, n \in DOMAIN order : /\ m < n
                                      /\ order[m] = loopIndex[i].loop
                                      /\ order[n] = loopIndex[j].loop
<1>1. LoopIndexFaithful
  BY DEF IndexKept
<1> QED
  BY <1>1 DEF LoopIndexFaithful

LEMMA ClosedHaveRows ==
  ASSUME IndexKept
  PROVE  \A l \in Loops : l \in Indexed /\ l # active =>
           \E i \in DOMAIN loopIndex : loopIndex[i].loop = l
<1>1. LoopIndexFaithful
  BY DEF IndexKept
<1> QED
  BY <1>1 DEF LoopIndexFaithful, LoopIndexed

\* A step that keeps the index files and the decisions of the loops with a row.
LEMMA SameLoopIndex ==
  ASSUME IInv, IndexKept, UNCHANGED <<loopIndex, order, active>>,
         \A l \in Loops : l \in Indexed /\ decision[l] \in Verdicts =>
            decision'[l] = decision[l],
         WriteKept'
  PROVE  IndexKept'
<1>1. Indexed' = Indexed
  BY DEF Indexed
<1>2. \A i \in DOMAIN loopIndex :
        decision'[loopIndex[i].loop] = decision[loopIndex[i].loop]
  BY RowsSay
<1>3. LoopIndexFaithful'
  <2>1. \A i \in DOMAIN loopIndex' :
          /\ loopIndex'[i].loop \in Indexed'
          /\ loopIndex'[i].verdict = decision'[loopIndex'[i].loop]
    BY <1>1, <1>2, RowsSay
  <2>2. \A i, j \in DOMAIN loopIndex' : i < j =>
          \E m, n \in DOMAIN order' : /\ m < n
                                      /\ order'[m] = loopIndex'[i].loop
                                      /\ order'[n] = loopIndex'[j].loop
    BY RowsFollow
  <2>3. \A l \in Loops : l \in Indexed' /\ l # active' =>
          \E i \in DOMAIN loopIndex' : loopIndex'[i].loop = l
    BY <1>1, ClosedHaveRows
  <2> QED
    BY <2>1, <2>2, <2>3 DEF LoopIndexFaithful, LoopIndexed
<1>4. /\ loopIndex' \in Seq(Rows)
      /\ active' # Nothing => order' # <<>> /\ active' = order'[Len(order')]
  BY DEF IndexKept
<1> QED
  BY <1>3, <1>4 DEF IndexKept, WriteKept, BeforeRow, LoopIndexed

\* A command that is no verdict is under way, or none.
LEMMA OtherWrite ==
  ASSUME op'.write \notin BeforeRow \cup {"verdict index"}
  PROVE  WriteKept'
BY DEF WriteKept

LEMMA IdleOrDone ==
  /\ op = Idle => op.write = "none"
  /\ Done => op'.write = "none"
  /\ "none" \notin BeforeRow \cup {"verdict index"}
BY DEF Idle, Done, BeforeRow

\* The write of a loop's status concerns no row.
LEMMA StatusWrite ==
  ASSUME op \in Commands, Then("loop status")
  PROVE  op'.write = "loop status"
         /\ op'.write \notin BeforeRow \cup {"verdict index"}
BY ThenKeepsArguments DEF Writes, BeforeRow

\* new-loop decides nothing about a loop of the order.
LEMMA NewDecisionKeeps ==
  ASSUME IInv, IndexKept, WriteLoopDecision
  PROVE  IndexKept'
<1>1. /\ UNCHANGED <<loopIndex, order, active>>
      /\ decision' = [decision EXCEPT ![op.loop] = "PENDING"]
  BY DEF WriteLoopDecision, indexVars, reducedVars
<1>2. op.loop \notin Indexed
  BY DEF WriteLoopDecision, Writing, IInv, Creating, Creates
<1>3. \A l \in Loops : l \in Indexed => decision'[l] = decision[l]
  BY <1>1, <1>2 DEF IInv, FilesTypeOK
<1>4. op \in Commands
  BY DEF IInv, FilesTypeOK
<1>5. op'.write = "loop delta"
  BY <1>4, ThenKeepsArguments DEF WriteLoopDecision, Writes
<1>6. WriteKept'
  BY <1>5, OtherWrite DEF BeforeRow
<1> QED
  BY <1>1, <1>3, <1>6, SameLoopIndex

\* verdict decides a loop that has no row.
LEMMA DecideKeeps ==
  ASSUME IInv, IndexKept, NEW l \in Loops, NEW v \in Issued, NEW b \in BOOLEAN,
         DecideLoop(l, v, b)
  PROVE  IndexKept'
<1>1. /\ UNCHANGED <<loopIndex, order, active>>
      /\ decision[l] = "PENDING"
      /\ decision' = [decision EXCEPT ![l] = v]
      /\ op' = [Idle EXCEPT !.write = "verdict state", !.loop = l, !.verdict = v,
                            !.updateBaseline = b]
  BY DEF DecideLoop, indexVars, reducedVars
<1>2. op'.write = "verdict state" /\ op'.loop = l
  BY <1>1 DEF Idle
<1>3. \A k \in Loops : decision[k] \in Verdicts => decision'[k] = decision[k]
  BY <1>1 DEF IInv, FilesTypeOK, Verdicts
<1>4. \A i \in DOMAIN loopIndex : loopIndex[i].loop # l
  BY <1>1, RowsSay DEF Verdicts
<1>5. WriteKept'
  BY <1>1, <1>2, <1>4 DEF WriteKept
<1> QED
  BY <1>1, <1>3, <1>5, SameLoopIndex

\* The writes of verdict before its row leave the loop index alone.
LEMMA VerdictWriteKeeps ==
  ASSUME IInv, IndexKept, WriteVerdictState \/ WriteKnowledge \/ WriteBaselines
  PROVE  IndexKept'
<1>1. UNCHANGED <<loopIndex, order, active, decision>>
  BY DEF WriteVerdictState, WriteKnowledge, WriteBaselines, indexVars,
         reducedVars, loopVars
<1>2. op \in Commands
  BY DEF IInv, FilesTypeOK
<1>3. op.write \in BeforeRow
  BY DEF WriteVerdictState, WriteKnowledge, WriteBaselines, Writing, BeforeRow
<1>4. Done \/ \E file \in {"knowledge", "baselines", "loop-index"} : Then(file)
  BY DEF WriteVerdictState, WriteKnowledge, WriteBaselines
<1>5. CASE Done
  BY <1>1, <1>5, IdleOrDone, OtherWrite, SameLoopIndex
<1>6. ASSUME NEW file \in {"knowledge", "baselines", "loop-index"}, Then(file)
      PROVE  IndexKept'
  <2>1. op'.write = file /\ op'.loop = op.loop
    BY <1>2, <1>6, ThenKeepsArguments DEF Writes
  <2>2. op'.write # "verdict index"
    BY <2>1
  <2>3. \A i \in DOMAIN loopIndex : loopIndex[i].loop # op.loop
    BY <1>3, IndexKeptParts DEF WriteKept
  <2>4. WriteKept'
    BY <1>1, <2>1, <2>2, <2>3 DEF WriteKept
  <2> QED
    BY <1>1, <2>4, SameLoopIndex
<1> QED
  BY <1>4, <1>5, <1>6

\* The row of a verdict: its loop is the last of the order and had none.
LEMMA WriteRowKeeps ==
  ASSUME IInv, IndexKept, WriteLoopIndex
  PROVE  IndexKept'
<1>1. /\ UNCHANGED <<order, active, decision>>
      /\ op.write = "loop-index"
      /\ loopIndex' = Append(loopIndex, [loop |-> op.loop, verdict |-> op.verdict])
  BY DEF WriteLoopIndex, indexVars, loopVars, Writing
<1>2. /\ op.loop \in Loops /\ op.verdict \in Verdicts
      /\ decision[op.loop] = op.verdict /\ active = op.loop
  BY <1>1 DEF IInv, Deciding, Reduces
<1>3. /\ active \in Indexed /\ order # <<>> /\ active = order[Len(order)]
      /\ \A i \in DOMAIN loopIndex : loopIndex[i].loop # op.loop
  BY <1>1, <1>2, NothingElse, IndexKeptParts DEF IInv, Registered, WriteKept,
     BeforeRow
<1> DEFINE row == [loop |-> op.loop, verdict |-> op.verdict]
           last == Len(loopIndex) + 1
<1>4. row \in Rows /\ row.loop = op.loop /\ row.verdict = op.verdict
  BY <1>2 DEF Rows
<1> HIDE DEF row
<1>5. loopIndex \in Seq(Rows)
  BY DEF IndexKept
<1>6. /\ loopIndex' \in Seq(Rows) /\ Len(loopIndex') = last
      /\ \A i \in 1..Len(loopIndex) : loopIndex'[i] = loopIndex[i]
      /\ loopIndex'[last] = row
  BY <1>1, <1>4, <1>5, AppendProperties DEF row
<1>7. /\ Len(loopIndex) \in Nat /\ DOMAIN loopIndex = 1..Len(loopIndex)
      /\ DOMAIN loopIndex' = 1..last
  BY <1>5, <1>6, LenProperties
<1>8. /\ \A i \in DOMAIN loopIndex' : i = last \/ i \in DOMAIN loopIndex
      /\ \A i \in DOMAIN loopIndex :
            i \in DOMAIN loopIndex' /\ loopIndex'[i] = loopIndex[i]
      /\ last \in DOMAIN loopIndex'
      /\ \A i, j \in DOMAIN loopIndex' : i < j => i \in DOMAIN loopIndex
  BY <1>6, <1>7
<1> HIDE DEF last
<1>9. Indexed' = Indexed
  BY <1>1 DEF Indexed
<1>10. \A i \in DOMAIN loopIndex' :
         /\ loopIndex'[i].loop \in Indexed
         /\ loopIndex'[i].verdict = decision[loopIndex'[i].loop]
  BY <1>2, <1>3, <1>4, <1>6, <1>8, RowsSay
<1>11. ASSUME NEW i \in DOMAIN loopIndex', NEW j \in DOMAIN loopIndex', i < j
       PROVE  \E m, n \in DOMAIN order : /\ m < n
                                         /\ order[m] = loopIndex'[i].loop
                                         /\ order[n] = loopIndex'[j].loop
  <2>1. i \in DOMAIN loopIndex /\ loopIndex'[i] = loopIndex[i]
    BY <1>8, <1>11
  <2>2. CASE j \in DOMAIN loopIndex
    <3>1. loopIndex'[j] = loopIndex[j]
      BY <1>8, <2>2
    <3> QED
      BY <1>11, <2>1, <2>2, <3>1, RowsFollow
  <2>3. CASE j = last
    <3>1. /\ order \in Seq(Loops) /\ Len(order) \in Nat
          /\ DOMAIN order = 1..Len(order)
      BY LenProperties DEF IInv, FilesTypeOK
    <3>2. loopIndex[i].loop \in Indexed
      BY <2>1, RowsSay
    <3>3. PICK m \in DOMAIN order : order[m] = loopIndex[i].loop
      BY <3>2 DEF Indexed, Range
    <3>4. order[m] # order[Len(order)]
      BY <1>2, <1>3, <2>1, <3>3
    <3>5. m < Len(order) /\ Len(order) \in DOMAIN order
      BY <3>1, <3>3, <3>4
    <3>6. order[Len(order)] = loopIndex'[j].loop
      BY <1>2, <1>3, <1>4, <1>6, <2>3
    <3> QED
      BY <2>1, <3>3, <3>5, <3>6
  <2> QED
    BY <1>8, <2>2, <2>3
<1>12. \A l \in Loops : l \in Indexed /\ l # active =>
         \E i \in DOMAIN loopIndex' : loopIndex'[i].loop = l
  <2> SUFFICES ASSUME NEW l \in Loops, l \in Indexed, l # active
               PROVE  \E i \in DOMAIN loopIndex' : loopIndex'[i].loop = l
    OBVIOUS
  <2>1. PICK i \in DOMAIN loopIndex : loopIndex[i].loop = l
    BY ClosedHaveRows
  <2> QED
    BY <1>8, <2>1
<1>13. LoopIndexFaithful'
  BY <1>1, <1>9, <1>10, <1>11, <1>12 DEF LoopIndexFaithful, LoopIndexed
<1>14. op \in Commands
  BY DEF IInv, FilesTypeOK
<1>15. op'.write = "verdict index" /\ op'.loop = op.loop
  BY <1>14, ThenKeepsArguments DEF WriteLoopIndex, Writes
<1>16. WriteKept'
  BY <1>4, <1>6, <1>8, <1>15 DEF WriteKept, BeforeRow
<1>17. active' # Nothing => order' # <<>> /\ active' = order'[Len(order')]
  BY <1>1, <1>3
<1> QED
  BY <1>6, <1>13, <1>16, <1>17 DEF IndexKept, WriteKept, BeforeRow, LoopIndexed

\* A loop appended to the order is its last.
LEMMA AppendedLast ==
  ASSUME order \in Seq(Loops), NEW l \in Loops, order' = Append(order, l)
  PROVE  /\ \A m \in DOMAIN order : m \in DOMAIN order' /\ order'[m] = order[m]
         /\ order' # <<>> /\ order'[Len(order')] = l
<1>1. /\ order' \in Seq(Loops) /\ order' # <<>> /\ Len(order') = Len(order) + 1
      /\ \A m \in 1..Len(order) : order'[m] = order[m]
      /\ order'[Len(order) + 1] = l
  BY AppendProperties
<1>2. /\ Len(order) \in Nat /\ DOMAIN order = 1..Len(order)
      /\ DOMAIN order' = 1..(Len(order) + 1)
  BY <1>1, LenProperties
<1> QED
  BY <1>1, <1>2

\* The index entry of a new loop: no loop was active, so all others have a row.
LEMMA OpenKeeps ==
  ASSUME IInv, IndexKept, WriteLoopInIndex
  PROVE  IndexKept'
<1>1. /\ UNCHANGED <<loopIndex, decision>>
      /\ op.write = "loop index"
      /\ active' = op.loop /\ order' = Append(order, op.loop)
      /\ Then("loop status")
  BY DEF WriteLoopInIndex, reducedVars, loopVars, Writing
<1>2. op.loop \in Loops /\ op.loop \notin Indexed /\ active = Nothing
  BY <1>1, LoopOfWrite DEF IInv, Creating, Creates
<1>3. order \in Seq(Loops) /\ Len(order) \in Nat /\ DOMAIN order = 1..Len(order)
  BY LenProperties DEF IInv, FilesTypeOK
<1>3a. loopIndex' = loopIndex
  BY <1>1
<1>4. /\ \A m \in DOMAIN order : m \in DOMAIN order' /\ order'[m] = order[m]
      /\ order' # <<>> /\ active' = order'[Len(order')]
  BY <1>1, <1>2, <1>3, AppendedLast
<1>7. Indexed' = Indexed \cup {op.loop}
  BY <1>1, <1>2, <1>3, AppendedInOrder
<1>8. \A i \in DOMAIN loopIndex' :
        /\ loopIndex'[i].loop \in Indexed'
        /\ loopIndex'[i].verdict = decision'[loopIndex'[i].loop]
  BY <1>1, <1>7, RowsSay
<1>9. \A i, j \in DOMAIN loopIndex' : i < j =>
        \E m, n \in DOMAIN order' : /\ m < n
                                    /\ order'[m] = loopIndex'[i].loop
                                    /\ order'[n] = loopIndex'[j].loop
  <2> SUFFICES ASSUME NEW i \in DOMAIN loopIndex, NEW j \in DOMAIN loopIndex, i < j
               PROVE  \E m, n \in DOMAIN order' : /\ m < n
                                                  /\ order'[m] = loopIndex[i].loop
                                                  /\ order'[n] = loopIndex[j].loop
    BY <1>3a
  <2>1. PICK m, n \in DOMAIN order : /\ m < n /\ order[m] = loopIndex[i].loop
                                     /\ order[n] = loopIndex[j].loop
    BY RowsFollow
  <2> QED
    BY <2>1, <1>4
<1>10. \A l \in Loops : l \in Indexed' /\ l # active' =>
         \E i \in DOMAIN loopIndex' : loopIndex'[i].loop = l
  BY <1>1, <1>2, <1>7, NothingElse, ClosedHaveRows
<1>11. LoopIndexFaithful'
  BY <1>8, <1>9, <1>10 DEF LoopIndexFaithful, LoopIndexed
<1>12. WriteKept'
  BY <1>1, StatusWrite, OtherWrite DEF IInv, FilesTypeOK
<1>13. loopIndex' \in Seq(Rows)
  BY <1>1 DEF IndexKept
<1> QED
  BY <1>4, <1>11, <1>12, <1>13 DEF IndexKept, WriteKept, BeforeRow, LoopIndexed

\* The last write of verdict: the loop that it closes has its row.
LEMMA CloseKeeps ==
  ASSUME IInv, IndexKept, WriteVerdictInIndex
  PROVE  IndexKept'
<1>1. /\ UNCHANGED <<loopIndex, order, decision>>
      /\ op.write = "verdict index" /\ active' = Nothing /\ Then("loop status")
  BY DEF WriteVerdictInIndex, reducedVars, loopVars, Writing
<1>2. active = op.loop
  BY <1>1 DEF IInv, Deciding, Reduces
<1>3. \E i \in DOMAIN loopIndex : loopIndex[i].loop = op.loop
  BY <1>1, IndexKeptParts DEF WriteKept
<1>3a. loopIndex' = loopIndex
  BY <1>1
<1>4. Indexed' = Indexed
  BY <1>1 DEF Indexed
<1>5. \A i \in DOMAIN loopIndex' :
        /\ loopIndex'[i].loop \in Indexed'
        /\ loopIndex'[i].verdict = decision'[loopIndex'[i].loop]
  BY <1>1, <1>4, RowsSay
<1>6. \A i, j \in DOMAIN loopIndex' : i < j =>
        \E m, n \in DOMAIN order' : /\ m < n
                                    /\ order'[m] = loopIndex'[i].loop
                                    /\ order'[n] = loopIndex'[j].loop
  <2> SUFFICES ASSUME NEW i \in DOMAIN loopIndex, NEW j \in DOMAIN loopIndex, i < j
               PROVE  \E m, n \in DOMAIN order' : /\ m < n
                                                  /\ order'[m] = loopIndex[i].loop
                                                  /\ order'[n] = loopIndex[j].loop
    BY <1>3a
  <2>1. PICK m, n \in DOMAIN order : /\ m < n /\ order[m] = loopIndex[i].loop
                                     /\ order[n] = loopIndex[j].loop
    BY RowsFollow
  <2> QED
    BY <2>1, <1>1
<1>7. \A l \in Loops : l \in Indexed' /\ l # active' =>
        \E i \in DOMAIN loopIndex' : loopIndex'[i].loop = l
  BY <1>1, <1>2, <1>3, <1>4, ClosedHaveRows
<1>8. LoopIndexFaithful'
  BY <1>5, <1>6, <1>7 DEF LoopIndexFaithful, LoopIndexed
<1>9. WriteKept'
  BY <1>1, StatusWrite, OtherWrite DEF IInv, FilesTypeOK
<1>10. loopIndex' \in Seq(Rows)
  BY <1>1 DEF IndexKept
<1> QED
  BY <1>1, <1>8, <1>9, <1>10 DEF IndexKept, WriteKept, BeforeRow, LoopIndexed

\* compact: the rebuilt rows say the same.
LEMMA CompactKeeps ==
  ASSUME IInv, IndexKept, Compact
  PROVE  IndexKept'
<1>1. /\ UNCHANGED <<order, active, decision, op>>
      /\ op = Idle /\ loopIndex' = Rebuilt
  BY DEF Compact, indexVars, loopVars
<1>2. Collected(loopIndex', Len(order))
  BY <1>1, RebuiltCollects
<1>3. /\ order \in Seq(Loops) /\ Len(order) \in Nat /\ DOMAIN order = 1..Len(order)
      /\ decision \in [Loops -> Decisions]
  BY LenProperties DEF IInv, FilesTypeOK
<1>4. Indexed' = Indexed /\ \A m \in 1..Len(order) : order[m] \in Indexed
  BY <1>1, <1>3 DEF Indexed, Range
<1>5. \A i \in DOMAIN loopIndex' :
        /\ loopIndex'[i].loop \in Indexed'
        /\ loopIndex'[i].verdict = decision'[loopIndex'[i].loop]
  <2> SUFFICES ASSUME NEW i \in DOMAIN loopIndex'
               PROVE  /\ loopIndex'[i].loop \in Indexed
                      /\ loopIndex'[i].verdict = decision[loopIndex'[i].loop]
    BY <1>1, <1>4
  <2>1. PICK m \in 1..Len(order) : loopIndex'[i] = RowOf(order[m])
    BY <1>2 DEF Collected, RowsTyped
  <2> QED
    BY <2>1, <1>4, RowTyped
<1>6. \A i, j \in DOMAIN loopIndex' : i < j =>
        \E m, n \in DOMAIN order' : /\ m < n
                                    /\ order'[m] = loopIndex'[i].loop
                                    /\ order'[n] = loopIndex'[j].loop
  BY <1>1, <1>2, <1>3 DEF Collected, RowsInOrder
<1>7. \A l \in Loops : l \in Indexed' /\ l # active' =>
        \E i \in DOMAIN loopIndex' : loopIndex'[i].loop = l
  <2> SUFFICES ASSUME NEW l \in Loops, l \in Indexed, l # active
               PROVE  \E i \in DOMAIN loopIndex' : loopIndex'[i].loop = l
    BY <1>1, <1>4
  <2>1. PICK m \in 1..Len(order) : order[m] = l
    BY <1>3 DEF Indexed, Range
  <2>2. Decided(order[m])
    BY <2>1 DEF IInv, Registered, UndecidedIsActive, Decided
  <2> QED
    BY <1>2, <2>1, <2>2 DEF Collected, RowsComplete
<1>8. LoopIndexFaithful'
  BY <1>5, <1>6, <1>7 DEF LoopIndexFaithful, LoopIndexed
<1>9. WriteKept'
  BY <1>1, IdleOrDone, OtherWrite
<1>10. /\ loopIndex' \in Seq(Rows)
       /\ active' # Nothing => order' # <<>> /\ active' = order'[Len(order')]
  BY <1>1, <1>2 DEF Collected, RowsTyped, IndexKept
<1> QED
  BY <1>8, <1>9, <1>10 DEF IndexKept, WriteKept, BeforeRow, LoopIndexed

\* Every other step leaves the index, the rows and the decisions alone, and no
\* write of verdict under way that was not.
LEMMA OthersKeep ==
  ASSUME IInv, IndexKept, UNCHANGED <<loopIndex, order, active, decision>>,
         op'.write \notin BeforeRow \cup {"verdict index"} \/ UNCHANGED op
  PROVE  IndexKept'
<1>1. WriteKept'
  <2>1. CASE UNCHANGED op
    BY <2>1, IndexKeptParts DEF WriteKept
  <2> QED
    BY <2>1, OtherWrite
<1> QED
  BY <1>1, SameLoopIndex

LEMMA IndexStep == IInv /\ IndexKept /\ [Next]_vars => IndexKept'
<1> SUFFICES ASSUME IInv, IndexKept, [Next]_vars PROVE IndexKept'
  OBVIOUS
<1>0. op \in Commands
  BY DEF IInv, FilesTypeOK
<1>1. CASE Command
  <2>1. CASE Compact
    BY <2>1, CompactKeeps
  <2>2. CASE \E l \in Loops, v \in Issued, b \in BOOLEAN : DecideLoop(l, v, b)
    BY <2>2, DecideKeeps
  <2>3. CASE \/ \E c \in Cases : AddCase(c)
             \/ \E l \in Loops, before, after \in Loops \X Runs :
                  Compare(l, before, after)
             \/ CloseTask
    <3>1. UNCHANGED <<loopIndex, order, active, decision, op>>
      BY <2>3 DEF AddCase, Compare, CloseTask, indexVars, reducedVars, loopVars
    <3> QED
      BY <3>1, OthersKeep
  <2>4. ASSUME NEW l \in Loops, NEW m \in Modes, NEW frozen \in Scopes,
               NewLoop(l, m, frozen)
        PROVE  IndexKept'
    <3>1. /\ UNCHANGED <<loopIndex, order, active, decision>>
          /\ op'.write = "loop state"
      BY <2>4 DEF NewLoop, indexVars, reducedVars, Idle
    <3> QED
      BY <3>1, OthersKeep DEF BeforeRow
  <2>5. ASSUME NEW l \in Loops, NEW r \in Runs, NEW kind \in Kinds,
               NewRun(l, r, kind)
        PROVE  IndexKept'
    <3>1. /\ UNCHANGED <<loopIndex, order, active, decision>>
          /\ op'.write = "run state"
      BY <2>5 DEF NewRun, indexVars, reducedVars, loopVars, Idle
    <3> QED
      BY <3>1, OthersKeep DEF BeforeRow
  <2>6. ASSUME NEW l \in Loops, NEW r \in Runs, NEW x \in Outcomes,
               FinishRun(l, r, x)
        PROVE  IndexKept'
    <3>1. /\ UNCHANGED <<loopIndex, order, active, decision>>
          /\ op'.write = "result"
      BY <2>6 DEF FinishRun, indexVars, reducedVars, loopVars, Idle
    <3> QED
      BY <3>1, OthersKeep DEF BeforeRow
  <2>7. ASSUME NEW l \in Loops,
               \/ \E k \in Knowledge, replaces \in Replaceable :
                    StageKnowledge(l, k, replaces)
               \/ \E r \in Runs : StageBaseline(l, r)
        PROVE  IndexKept'
    <3>1. /\ UNCHANGED <<loopIndex, order, active, decision>>
          /\ op'.write = "loop status"
      BY <2>7 DEF StageKnowledge, StageBaseline, indexVars, reducedVars, Idle
    <3> QED
      BY <3>1, OthersKeep DEF BeforeRow
  <2> QED
    BY <1>1, <2>1, <2>2, <2>3, <2>4, <2>5, <2>6, <2>7 DEF Command
<1>2. CASE Write
  <2>1. CASE WriteLoopState \/ WriteLoopDelta \/ WriteResult
    <3>1. UNCHANGED <<loopIndex, order, active, decision>>
      BY <2>1 DEF WriteLoopState, WriteLoopDelta, WriteResult, indexVars,
         reducedVars, loopVars
    <3>2. \E file \in {"loop decision", "loop index", "result state"} : Then(file)
      BY <2>1 DEF WriteLoopState, WriteLoopDelta, WriteResult
    <3>3. op'.write \in {"loop decision", "loop index", "result state"}
      BY <1>0, <3>2, ThenKeepsArguments DEF Writes
    <3> QED
      BY <3>1, <3>3, OthersKeep DEF BeforeRow
  <2>2. CASE WriteRunState \/ WriteResultState
    <3>1. UNCHANGED <<loopIndex, order, active, decision>> /\ Then("loop status")
      BY <2>2 DEF WriteRunState, WriteResultState, indexVars, reducedVars
    <3> QED
      BY <1>0, <3>1, StatusWrite, OthersKeep
  <2>3. CASE WriteLoopDecision
    BY <2>3, NewDecisionKeeps
  <2>4. CASE WriteLoopInIndex
    BY <2>4, OpenKeeps
  <2>5. CASE WriteVerdictState \/ WriteKnowledge \/ WriteBaselines
    BY <2>5, VerdictWriteKeeps
  <2>6. CASE WriteLoopIndex
    BY <2>6, WriteRowKeeps
  <2>7. CASE WriteVerdictInIndex
    BY <2>7, CloseKeeps
  <2>8. CASE WriteLoopStatus
    <3>1. UNCHANGED <<loopIndex, order, active, decision>> /\ Done
      BY <2>8 DEF WriteLoopStatus, indexVars, loopVars
    <3> QED
      BY <3>1, IdleOrDone, OthersKeep
  <2> QED
    BY <1>2, <2>1, <2>2, <2>3, <2>4, <2>5, <2>6, <2>7, <2>8 DEF Write
<1>3. CASE Crash
  <2>1. UNCHANGED <<loopIndex, order, active, decision>> /\ Done
    BY <1>3 DEF Crash, indexVars, reducedVars, loopVars
  <2> QED
    BY <2>1, IdleOrDone, OthersKeep
<1>4. CASE UNCHANGED vars
  <2>1. UNCHANGED <<loopIndex, order, active, decision, op>>
    BY <1>4 DEF vars, indexVars, reducedVars, loopVars
  <2> QED
    BY <2>1, OthersKeep
<1> QED
  BY <1>1, <1>2, <1>3, <1>4 DEF Next

LEMMA InitIndex == Init => IndexKept
<1> SUFFICES ASSUME Init PROVE IndexKept
  OBVIOUS
<1>1. /\ loopIndex = <<>> /\ order = <<>> /\ active = Nothing
      /\ op.write = "none"
  BY DEF Init, Idle
<1>2. <<>> \in Seq(Rows) /\ DOMAIN loopIndex = {} /\ Indexed = {}
  BY <1>1, EmptySeq DEF Indexed, Range
<1> QED
  BY <1>1, <1>2 DEF IndexKept, LoopIndexFaithful, LoopIndexed

\* The index, the loop index and the loops' own files tell one story between
\* any two writes, and whatever write a command is cut short at: files of their
\* types, no forgotten loop, the data as validate requires them, and a loop index
\* that lists every closed loop in order with its decision, appended or rebuilt.
\* Of the files that validate requires, status.md of a new loop and result.json of
\* a recorded run are missing only while they are the next write, or of a loop
\* that had a command cut short.
THEOREM IndexNeverDisagrees == Spec => []IndexAgrees
<1>1. Spec => []IndexKept
  BY InitIndex, IndexStep, LedgerInvariance, PTL DEF Spec
<1>2. IInv /\ IndexKept /\ UndecidedIsActive /\ LedgerValidates => IndexAgrees
  BY DEF IInv, IndexKept, IndexAgrees, TypeOK, Rows
<1> QED
  BY <1>1, <1>2, LedgerInvariance, NoLoopForgotten, AlwaysValid, PTL

-----------------------------------------------------------------------------
\* What an accepted loop keeps whatever happens to the task later: its verdict
\* and mode, its comparison, its profiles, and that it is closed.
Lasting ==
  \A l \in Loops :
    /\ decision[l] = "ACCEPTED" => decision'[l] = "ACCEPTED" /\ mode'[l] = mode[l]
    /\ l \in compared => l \in compared'
    /\ Profiled(l) => Profiled(l)'
    /\ l \in Indexed /\ l # active => l \in Indexed' /\ l # active'

\* The files that Lasting is about, where a step leaves them alone.
LEMMA DecisionsLast ==
  ASSUME FilesTypeOK, UNCHANGED <<decision, mode, compared, manifest, result, order, active>>
  PROVE  Lasting
<1>1. Indexed' = Indexed
  BY DEF Indexed
<1> QED
  BY <1>1 DEF Lasting, Profiled

LEMMA NewLoopLasts ==
  ASSUME IInv, NEW l \in Loops, NEW m \in Modes, NEW frozen \in Scopes,
         NewLoop(l, m, frozen)
  PROVE  Lasting
<1>1. /\ UNCHANGED <<decision, compared, manifest, result, order, active>>
      /\ l \notin dirs /\ mode' = [mode EXCEPT ![l] = m]
  BY DEF NewLoop, indexVars, runVars
<1>2. Indexed' = Indexed
  BY <1>1 DEF Indexed
<1>3. decision[l] = Nothing
  BY <1>1 DEF IInv, Registered
<1>4. \A k \in Loops : decision[k] = "ACCEPTED" => mode'[k] = mode[k]
  BY <1>1, <1>3, NothingElse DEF IInv, FilesTypeOK, Verdicts
<1> QED
  BY <1>1, <1>2, <1>4 DEF Lasting, Profiled

LEMMA NewDecisionLasts ==
  ASSUME IInv, WriteLoopDecision
  PROVE  Lasting
<1>1. /\ UNCHANGED <<mode, compared, manifest, result, order, active>>
      /\ decision' = [decision EXCEPT ![op.loop] = "PENDING"]
      /\ op.write = "loop decision"
  BY DEF WriteLoopDecision, indexVars, runVars, Writing
<1>2. Indexed' = Indexed
  BY <1>1 DEF Indexed
<1>3. decision[op.loop] = Nothing
  BY <1>1 DEF IInv, Creating, Creates
<1>4. \A k \in Loops : decision[k] = "ACCEPTED" => decision'[k] = "ACCEPTED"
  BY <1>1, <1>3, NothingElse DEF IInv, FilesTypeOK, Verdicts
<1> QED
  BY <1>1, <1>2, <1>4 DEF Lasting, Profiled

LEMMA DecideLasts ==
  ASSUME IInv, NEW l \in Loops, NEW v \in Issued, NEW b \in BOOLEAN,
         DecideLoop(l, v, b)
  PROVE  Lasting
<1>1. /\ UNCHANGED <<mode, compared, manifest, result, order, active>>
      /\ decision[l] = "PENDING" /\ decision' = [decision EXCEPT ![l] = v]
  BY DEF DecideLoop, indexVars, runVars
<1>2. Indexed' = Indexed
  BY <1>1 DEF Indexed
<1>3. \A k \in Loops : decision[k] = "ACCEPTED" => decision'[k] = "ACCEPTED"
  BY <1>1 DEF IInv, FilesTypeOK
<1> QED
  BY <1>1, <1>2, <1>3 DEF Lasting, Profiled

LEMMA OpenLasts ==
  ASSUME IInv, WriteLoopInIndex
  PROVE  Lasting
<1>1. /\ UNCHANGED <<decision, mode, compared, manifest, result>>
      /\ op.write = "loop index"
      /\ active' = op.loop /\ order' = Append(order, op.loop)
  BY DEF WriteLoopInIndex, loopVars, runVars, Writing
<1>2. op.loop \in Loops /\ op.loop \notin Indexed /\ order \in Seq(Loops)
  BY <1>1, LoopOfWrite DEF IInv, Creating, Creates, FilesTypeOK
<1>3. Indexed' = Indexed \cup {op.loop}
  BY <1>1, <1>2, AppendedInOrder
<1> QED
  BY <1>1, <1>2, <1>3 DEF Lasting, Profiled

LEMMA CloseLasts ==
  ASSUME IInv, WriteVerdictInIndex
  PROVE  Lasting
<1>1. /\ UNCHANGED <<decision, mode, compared, manifest, result, order>>
      /\ active' = Nothing
  BY DEF WriteVerdictInIndex, loopVars, runVars
<1>2. Indexed' = Indexed
  BY <1>1 DEF Indexed
<1> QED
  BY <1>1, <1>2, NothingElse DEF Lasting, Profiled

\* A result is never taken back, and its run keeps its kind.
LEMMA ProfilesLast ==
  ASSUME IInv, UNCHANGED <<decision, mode, compared, order, active>>,
         \A l \in Loops, r \in Runs : result[l][r] # Nothing =>
            result'[l][r] # Nothing /\ manifest'[l][r].kind = manifest[l][r].kind
  PROVE  Lasting
<1>1. Indexed' = Indexed
  BY DEF Indexed
<1>2. \A l \in Loops : Profiled(l) => Profiled(l)'
  BY DEF Profiled
<1> QED
  BY <1>1, <1>2 DEF Lasting

LEMMA NewRunLasts ==
  ASSUME IInv, NEW l \in Loops, NEW r \in Runs, NEW kind \in Kinds,
         NewRun(l, r, kind)
  PROVE  Lasting
<1>1. /\ UNCHANGED <<decision, mode, compared, order, active, result>>
      /\ manifest[l][r] = Nothing
      /\ manifest' = [manifest EXCEPT ![l][r] = [status |-> "PLANNED", kind |-> kind]]
  BY DEF NewRun, indexVars, loopVars
<1>2. result[l][r] = Nothing
  BY <1>1 DEF IInv, Recording
<1>3. ASSUME NEW k \in Loops, NEW s \in Runs, result[k][s] # Nothing
      PROVE  manifest'[k][s] = manifest[k][s]
  BY <1>1, <1>2, <1>3 DEF IInv, FilesTypeOK
<1> QED
  BY <1>1, <1>3, ProfilesLast

LEMMA FinishRunLasts ==
  ASSUME IInv, NEW l \in Loops, NEW r \in Runs, NEW x \in Outcomes,
         FinishRun(l, r, x)
  PROVE  Lasting
<1>1. /\ UNCHANGED <<decision, mode, compared, order, active, result>>
      /\ manifest[l][r] # Nothing /\ manifest[l][r].status = "PLANNED"
      /\ manifest' = [manifest EXCEPT ![l][r].status = "RECORDED"]
  BY DEF FinishRun, indexVars, loopVars
<1>2. result[l][r] = Nothing
  BY <1>1 DEF IInv, Recording
<1>3. ASSUME NEW k \in Loops, NEW s \in Runs, result[k][s] # Nothing
      PROVE  manifest'[k][s] = manifest[k][s]
  BY <1>1, <1>2, <1>3 DEF IInv, FilesTypeOK
<1> QED
  BY <1>1, <1>3, ProfilesLast

LEMMA WriteResultLasts ==
  ASSUME IInv, WriteResult
  PROVE  Lasting
<1>1. /\ UNCHANGED <<decision, mode, compared, order, active, manifest>>
      /\ op.write = "result"
      /\ result' = [result EXCEPT ![op.loop][op.run] = op.outcome]
  BY DEF WriteResult, indexVars, loopVars, Writing
<1>2. op.loop \in Loops /\ op.run \in Runs /\ op.outcome # Nothing
  BY <1>1, NothingElse DEF IInv, Recording
<1>3. ASSUME NEW k \in Loops, NEW s \in Runs, result[k][s] # Nothing
      PROVE  result'[k][s] # Nothing
  BY <1>1, <1>2, <1>3 DEF IInv, FilesTypeOK
<1> QED
  BY <1>1, <1>3, ProfilesLast

LEMMA CompareLasts ==
  ASSUME IInv, NEW l \in Loops, NEW before, NEW after, Compare(l, before, after)
  PROVE  Lasting
<1>1. /\ UNCHANGED <<decision, mode, manifest, result, order, active>>
      /\ compared \subseteq compared'
  BY DEF Compare, indexVars, loopVars
<1>2. Indexed' = Indexed
  BY <1>1 DEF Indexed
<1> QED
  BY <1>1, <1>2 DEF Lasting, Profiled

\* No step takes from an accepted loop what its acceptance stood on.
LEMMA AlwaysLasting == IInv /\ [Next]_vars => Lasting
<1> SUFFICES ASSUME IInv, [Next]_vars PROVE Lasting
  OBVIOUS
<1>0. FilesTypeOK
  BY DEF IInv
<1>1. CASE Command
  <2>1. CASE \E l \in Loops, m \in Modes, frozen \in Scopes :
               NewLoop(l, m, frozen)
    BY <2>1, NewLoopLasts
  <2>2. CASE \E l \in Loops, r \in Runs, kind \in Kinds : NewRun(l, r, kind)
    BY <2>2, NewRunLasts
  <2>3. CASE \E l \in Loops, r \in Runs, x \in Outcomes : FinishRun(l, r, x)
    BY <2>3, FinishRunLasts
  <2>4. CASE \E l \in Loops, before, after \in Loops \X Runs :
               Compare(l, before, after)
    BY <2>4, CompareLasts
  <2>5. CASE \E l \in Loops, v \in Issued, b \in BOOLEAN : DecideLoop(l, v, b)
    BY <2>5, DecideLasts
  <2>6. CASE \/ \E c \in Cases : AddCase(c)
             \/ \E l \in Loops, k \in Knowledge, replaces \in Replaceable :
                  StageKnowledge(l, k, replaces)
             \/ \E l \in Loops, r \in Runs : StageBaseline(l, r)
             \/ Compact \/ CloseTask
    <3>1. UNCHANGED <<decision, mode, compared, manifest, result, order, active>>
      BY <2>6 DEF AddCase, StageKnowledge, StageBaseline, Compact, CloseTask,
         indexVars, loopVars, runVars
    <3> QED
      BY <1>0, <3>1, DecisionsLast
  <2> QED
    BY <1>1, <2>1, <2>2, <2>3, <2>4, <2>5, <2>6 DEF Command
<1>2. CASE Write
  <2>1. CASE WriteLoopDecision
    BY <2>1, NewDecisionLasts
  <2>2. CASE WriteLoopInIndex
    BY <2>2, OpenLasts
  <2>3. CASE WriteResult
    BY <2>3, WriteResultLasts
  <2>4. CASE WriteVerdictInIndex
    BY <2>4, CloseLasts
  <2>5. CASE WriteLoopState \/ WriteLoopDelta \/ WriteRunState
             \/ WriteResultState \/ WriteVerdictState
    <3>1. UNCHANGED <<decision, mode, compared, manifest, result, order, active>>
      BY <2>5 DEF WriteLoopState, WriteLoopDelta, WriteRunState,
         WriteResultState, WriteVerdictState, indexVars, runVars
    <3> QED
      BY <1>0, <3>1, DecisionsLast
  <2>6. CASE WriteKnowledge \/ WriteBaselines \/ WriteLoopIndex \/ WriteLoopStatus
    <3>1. UNCHANGED <<decision, mode, compared, manifest, result, order, active>>
      BY <2>6 DEF WriteKnowledge, WriteBaselines, WriteLoopIndex, WriteLoopStatus,
         indexVars, loopVars, runVars
    <3> QED
      BY <1>0, <3>1, DecisionsLast
  <2> QED
    BY <1>2, <2>1, <2>2, <2>3, <2>4, <2>5, <2>6 DEF Write
<1>3. CASE Crash \/ UNCHANGED vars
  <2>1. UNCHANGED <<decision, mode, compared, manifest, result, order, active>>
    BY <1>3 DEF Crash, vars, indexVars, loopVars, runVars
  <2> QED
    BY <1>0, <2>1, DecisionsLast
<1> QED
  BY <1>1, <1>2, <1>3 DEF Next

\* The four parts of EvidenceKept.
ComparedWhenAccepted ==
  \A l \in Loops : decision[l] = "ACCEPTED" /\ mode[l] = "optimization" =>
    l \in compared
BackedAs(level) ==
  /\ level = 2 => ClosedAccepted("baseline") # {}
  /\ level \in 3..4 => \E l \in ClosedAccepted("optimization") : Profiled(l)
  /\ level = 4 => \E k, l \in ClosedAccepted("optimization") : k # l

LEMMA EvidenceKeptParts == EvidenceKept <=> ComparedWhenAccepted /\ BackedAs(evidence)
BY DEF EvidenceKept, ComparedWhenAccepted, BackedAs

\* A closed accepted loop stays one.
LEMMA ClosedLast ==
  ASSUME Lasting, NEW m
  PROVE  ClosedAccepted(m) \subseteq ClosedAccepted(m)'
BY DEF Lasting, ClosedAccepted, Accepted

LEMMA BackedLasts ==
  ASSUME Lasting, NEW level, BackedAs(level)
  PROVE  BackedAs(level)'
<1>1. /\ ClosedAccepted("baseline") \subseteq ClosedAccepted("baseline")'
      /\ ClosedAccepted("optimization") \subseteq ClosedAccepted("optimization")'
  BY ClosedLast
<1>2. \A l \in ClosedAccepted("optimization") : Profiled(l) => Profiled(l)'
  BY DEF Lasting, ClosedAccepted, Accepted
<1>3. level = 2 => ClosedAccepted("baseline")' # {}
  BY <1>1 DEF BackedAs
<1>4. level \in 3..4 => \E l \in ClosedAccepted("optimization")' : Profiled(l)'
  BY <1>1, <1>2 DEF BackedAs
<1>5. level = 4 => \E k, l \in ClosedAccepted("optimization")' : k # l
  BY <1>1 DEF BackedAs
<1> QED
  BY <1>3, <1>4, <1>5 DEF BackedAs

\* An optimization loop is accepted only when compared; its mode is older than
\* its decision.
LEMMA ComparedStep ==
  ASSUME IInv, ComparedWhenAccepted, [Next]_vars
  PROVE  ComparedWhenAccepted'
<1>1. Lasting
  BY AlwaysLasting
<1>2. CASE \E l \in Loops, m \in Modes, frozen \in Scopes : NewLoop(l, m, frozen)
  <2>1. PICK l \in Loops, m \in Modes, frozen \in Scopes : NewLoop(l, m, frozen)
    BY <1>2
  <2>2. UNCHANGED decision /\ l \notin dirs /\ mode' = [mode EXCEPT ![l] = m]
    BY <2>1 DEF NewLoop
  <2>3. decision[l] # "ACCEPTED"
    BY <2>2, NothingElse DEF IInv, Registered, Verdicts
  <2>4. \A k \in Loops : decision'[k] = "ACCEPTED" => mode'[k] = mode[k]
    BY <2>2, <2>3 DEF IInv, FilesTypeOK
  <2> QED
    BY <1>1, <2>2, <2>4 DEF ComparedWhenAccepted, Lasting
<1>3. CASE \E l \in Loops, v \in Issued, b \in BOOLEAN : DecideLoop(l, v, b)
  <2>1. PICK l \in Loops, v \in Issued, b \in BOOLEAN : DecideLoop(l, v, b)
    BY <1>3
  <2>2. /\ v = "ACCEPTED" => Acceptable(l)
        /\ decision' = [decision EXCEPT ![l] = v] /\ UNCHANGED <<mode, compared>>
    BY <2>1 DEF DecideLoop, runVars
  <2>3. ASSUME NEW k \in Loops, decision'[k] = "ACCEPTED", mode'[k] = "optimization"
        PROVE  k \in compared'
    <3>1. CASE k = l
      BY <2>2, <2>3, <3>1 DEF Acceptable, IInv, FilesTypeOK
    <3>2. CASE k # l
      BY <2>2, <2>3, <3>2 DEF ComparedWhenAccepted, IInv, FilesTypeOK
    <3> QED
      BY <3>1, <3>2
  <2> QED
    BY <2>3 DEF ComparedWhenAccepted
<1>4. CASE WriteLoopDecision
  <2>1. decision' = [decision EXCEPT ![op.loop] = "PENDING"] /\ UNCHANGED mode
    BY <1>4 DEF WriteLoopDecision
  <2>2. \A k \in Loops : decision'[k] = "ACCEPTED" => decision[k] = "ACCEPTED"
    BY <2>1 DEF IInv, FilesTypeOK
  <2> QED
    BY <1>1, <2>1, <2>2 DEF ComparedWhenAccepted, Lasting
<1>5. ASSUME UNCHANGED <<decision, mode>>
      PROVE  ComparedWhenAccepted'
  BY <1>1, <1>5 DEF ComparedWhenAccepted, Lasting
<1>6. CASE \/ \E c \in Cases : AddCase(c)
           \/ \E l \in Loops, r \in Runs, kind \in Kinds : NewRun(l, r, kind)
           \/ \E l \in Loops, r \in Runs, x \in Outcomes : FinishRun(l, r, x)
           \/ \E l \in Loops, before, after \in Loops \X Runs :
                Compare(l, before, after)
           \/ \E l \in Loops, k \in Knowledge, replaces \in Replaceable :
                StageKnowledge(l, k, replaces)
           \/ \E l \in Loops, r \in Runs : StageBaseline(l, r)
           \/ Compact \/ CloseTask
  BY <1>5, <1>6 DEF AddCase, NewRun, FinishRun, Compare, StageKnowledge,
     StageBaseline, Compact, CloseTask, loopVars
<1>7. CASE \/ WriteLoopState \/ WriteLoopDelta \/ WriteLoopInIndex \/ WriteRunState
           \/ WriteResult \/ WriteResultState \/ WriteVerdictState
           \/ WriteKnowledge \/ WriteBaselines \/ WriteLoopIndex
           \/ WriteVerdictInIndex \/ WriteLoopStatus \/ Crash \/ UNCHANGED vars
  BY <1>5, <1>7 DEF WriteLoopState, WriteLoopDelta, WriteLoopInIndex,
     WriteRunState, WriteResult, WriteResultState, WriteVerdictState,
     WriteKnowledge, WriteBaselines, WriteLoopIndex, WriteVerdictInIndex,
     WriteLoopStatus, Crash, vars, loopVars
<1> QED
  BY <1>2, <1>3, <1>4, <1>6, <1>7 DEF Next, Command, Write

\* A closed loop of the order, accepted and of mode m.
LEMMA ClosedNow ==
  ASSUME NEW l \in Loops, NEW m, l \in Indexed', l # active',
         decision'[l] = "ACCEPTED", mode'[l] = m
  PROVE  l \in ClosedAccepted(m)'
BY DEF ClosedAccepted, Accepted

\* The verdict that raises the level closes the loop that the level needs.
LEMMA VerdictBacks ==
  ASSUME IInv, NEW old \in 0..4, old = evidence, BackedAs(old),
         NEW new, new = evidence', WriteVerdictInIndex
  PROVE  BackedAs(new)'
<1>1. /\ UNCHANGED <<decision, mode, manifest, result, order>>
      /\ active' = Nothing
      /\ op.write = "verdict index"
  BY DEF WriteVerdictInIndex, loopVars, runVars, Writing
<1>2. PICK l \in Loops : l = op.loop
  BY <1>1 DEF IInv, Deciding, Reduces
<1>3. /\ active = l /\ l \in Indexed /\ decision[l] = op.verdict
  BY <1>1, <1>2, NothingElse DEF IInv, Deciding, Reduces, Registered
<1>4. Indexed' = Indexed
  BY <1>1 DEF Indexed
<1>5. Lasting
  BY CloseLasts
<1>6. CASE new = old
  BY <1>5, <1>6, BackedLasts
<1>7. CASE op.verdict = "ACCEPTED"
  <2>1. new = EvidenceAfter(l)
    BY <1>2, <1>7 DEF WriteVerdictInIndex
  <2>2. ASSUME NEW m, mode[l] = m
        PROVE  l \in ClosedAccepted(m)'
    BY <2>2, <1>1, <1>3, <1>4, <1>7, NothingElse, ClosedNow
  <2>3. CASE mode[l] \in {"implementation", "correctness"}
    <3>1. new = 1
      BY <2>1, <2>3 DEF EvidenceAfter
    <3> QED
      BY <3>1 DEF BackedAs
  <2>4. CASE mode[l] = "baseline"
    <3>1. new = 2
      BY <2>1, <2>4 DEF EvidenceAfter
    <3>2. l \in ClosedAccepted("baseline")'
      BY <2>2, <2>4
    <3> QED
      BY <3>1, <3>2 DEF BackedAs
  <2>5. CASE mode[l] = "optimization" /\ Profiled(l) /\ old \in 1..2
    <3>1. new = 3
      BY <2>1, <2>5 DEF EvidenceAfter
    <3>2. Profiled(l)'
      BY <1>5, <2>5 DEF Lasting
    <3>3. l \in ClosedAccepted("optimization")'
      BY <2>2, <2>5
    <3> QED
      BY <3>1, <3>2, <3>3 DEF BackedAs
  <2>6. CASE mode[l] = "optimization" /\ old \in 3..4
    <3>1. new = 4
      BY <2>1, <2>6 DEF EvidenceAfter
    <3>2. PICK k \in ClosedAccepted("optimization") : Profiled(k)
      BY <2>6 DEF BackedAs
    <3>3. k \in Loops /\ k # l
      BY <1>3, <3>2 DEF ClosedAccepted, Accepted
    <3>4. k \in ClosedAccepted("optimization")' /\ Profiled(k)'
      BY <1>5, <3>2, <3>3, ClosedLast DEF Lasting
    <3>5. l \in ClosedAccepted("optimization")'
      BY <2>2, <2>6
    <3> QED
      BY <3>1, <3>3, <3>4, <3>5 DEF BackedAs
  <2>7. CASE /\ mode[l] \notin {"implementation", "correctness", "baseline"}
             /\ ~(mode[l] = "optimization" /\ Profiled(l) /\ old \in 1..2)
             /\ ~(mode[l] = "optimization" /\ old \in 3..4)
    <3>1. new = old
      BY <2>1, <2>7 DEF EvidenceAfter
    <3> QED
      BY <3>1, <1>6
  <2> QED
    BY <2>3, <2>4, <2>5, <2>6, <2>7
<1>8. CASE op.verdict # "ACCEPTED"
  BY <1>6, <1>8 DEF WriteVerdictInIndex
<1> QED
  BY <1>7, <1>8

LEMMA EvidenceStep == IInv /\ EvidenceKept /\ [Next]_vars => EvidenceKept'
<1> SUFFICES ASSUME IInv, EvidenceKept, [Next]_vars PROVE EvidenceKept'
  OBVIOUS
<1>1. ComparedWhenAccepted /\ BackedAs(evidence)
  BY EvidenceKeptParts
<1>2. ComparedWhenAccepted'
  BY <1>1, ComparedStep
<1>3. PICK old \in 0..4 : old = evidence
  BY DEF IInv, FilesTypeOK
<1>4. \E new : new = evidence'
  OBVIOUS
<1>5. PICK new : new = evidence'
  BY <1>4
<1>6. BackedAs(old)
  BY <1>1, <1>3
<1>7. ASSUME WriteVerdictInIndex PROVE BackedAs(new)'
  BY <1>3, <1>5, <1>6, <1>7, VerdictBacks
<1>8. ASSUME UNCHANGED evidence PROVE BackedAs(new)'
  <2>1. BackedAs(old)'
    BY <1>6, AlwaysLasting, BackedLasts
  <2> QED
    BY <2>1, <1>3, <1>5, <1>8
<1>9. WriteVerdictInIndex \/ UNCHANGED evidence
  BY DEF Next, Command, Write, AddCase, NewLoop, NewRun, FinishRun, Compare,
     StageKnowledge, StageBaseline, DecideLoop, Compact, CloseTask,
     WriteLoopState, WriteLoopDecision, WriteLoopDelta, WriteLoopInIndex,
     WriteRunState, WriteResult, WriteResultState, WriteVerdictState,
     WriteKnowledge, WriteBaselines, WriteLoopIndex, WriteLoopStatus, Crash, vars,
     indexVars
<1>10. BackedAs(new)'
  BY <1>7, <1>8, <1>9
<1> QED
  BY <1>2, <1>5, <1>10 DEF EvidenceKept, ComparedWhenAccepted, BackedAs

\* The loops of the order are finitely many.
LEMMA FiniteOrder ==
  ASSUME order \in Seq(Loops)
  PROVE  IsFiniteSet(Indexed)
<1>1. Len(order) \in Nat /\ order \in [1..Len(order) -> Loops]
  BY LenProperties
<1>2. IsFiniteSet(1..Len(order))
  BY <1>1, FS_Interval
<1>3. order \in Surjection(1..Len(order), Indexed)
  BY <1>1 DEF Surjection, Indexed, Range
<1> QED
  BY <1>2, <1>3, FS_Surjection

LEMMA TwoOfMany ==
  ASSUME NEW S, IsFiniteSet(S), NEW k \in S, NEW l \in S, k # l
  PROVE  Cardinality(S) >= 2
<1>1. IsFiniteSet({k}) /\ Cardinality({k}) = 1
  BY FS_Singleton
<1>2. /\ IsFiniteSet({k} \cup {l})
      /\ Cardinality({k} \cup {l}) = Cardinality({k}) + 1
  <2>1. l \notin {k}
    OBVIOUS
  <2>2. /\ IsFiniteSet({k} \cup {l})
        /\ Cardinality({k} \cup {l}) =
             IF l \in {k} THEN Cardinality({k}) ELSE Cardinality({k}) + 1
    BY <1>1, FS_AddElement, Zenon
  <2> QED
    BY <2>1, <2>2
<1>3. {k} \cup {l} \in SUBSET S
  OBVIOUS
<1>4. Cardinality({k} \cup {l}) <= Cardinality(S) /\ Cardinality(S) \in Nat
  BY <1>3, FS_Subset, FS_CardinalityType
<1> QED
  BY <1>1, <1>2, <1>4

\* The evidence level that the index claims is backed by loops: a level of 2 by
\* an accepted baseline loop, 3 by an accepted and compared optimization loop
\* with a recorded profile, 4 by a second one, however the modes of the loops
\* follow each other and whatever results arrive after their verdicts.
THEOREM EvidenceIsBacked == Spec => []EvidenceBacked
<1>1. Init => EvidenceKept
  BY NothingElse DEF Init, EvidenceKept, Verdicts
<1>2. Spec => []EvidenceKept
  BY <1>1, EvidenceStep, LedgerInvariance, PTL DEF Spec
<1>3. IInv /\ EvidenceKept => EvidenceBacked
  <2> SUFFICES ASSUME IInv, EvidenceKept PROVE EvidenceBacked
    OBVIOUS
  <2>1. /\ \A m : ClosedAccepted(m) \subseteq Accepted(m)
        /\ Accepted("optimization") \subseteq Indexed
        /\ Accepted("optimization") \subseteq compared
    BY DEF ClosedAccepted, Accepted, EvidenceKept
  <2>2. evidence = 2 => Accepted("baseline") # {}
    BY <2>1 DEF EvidenceKept
  <2>3. evidence \in 3..4 => \E l \in Accepted("optimization") :
                               Profiled(l) /\ l \in compared
    BY <2>1 DEF EvidenceKept
  <2>4. evidence = 4 => Cardinality(Accepted("optimization")) >= 2
    <3> SUFFICES ASSUME evidence = 4
                 PROVE  Cardinality(Accepted("optimization")) >= 2
      OBVIOUS
    <3>1. PICK k, l \in ClosedAccepted("optimization") : k # l
      BY DEF EvidenceKept
    <3>2. IsFiniteSet(Accepted("optimization"))
      BY <2>1, FiniteOrder, FS_Subset DEF IInv, FilesTypeOK
    <3> QED
      BY <2>1, <3>1, <3>2, TwoOfMany
  <2> QED
    BY <2>2, <2>3, <2>4 DEF EvidenceBacked
<1> QED
  BY <1>2, <1>3, LedgerInvariance, PTL
=============================================================================
