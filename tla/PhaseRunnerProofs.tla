-------------------------- MODULE PhaseRunnerProofs --------------------------
(***************************************************************************)
(* For any number of calls, at once or one after the other, and any amount *)
(* of output: at most one child is started, a call that comes back leaves  *)
(* none running, unless SIGINT interrupted it before its handlers were     *)
(* installed, and a success is a clean and complete one.  Without          *)
(* concurrent calls, the record is the first call's and says what that     *)
(* call reported.                                                          *)
(***************************************************************************)
EXTENDS PhaseRunnerProperties, TLAPS

(***************************************************************************)
(* The inductive invariant, a conjunction of facts about each runner.      *)
(***************************************************************************)
(* Only the creator of the log starts a child.                             *)
LogOwned(r) == child[r] # "none" \/ At(r, "spawn") => log = r

(* A child exists in and after the loop, and is stopped where it must be:   *)
(* what leaves it running, or unknown to the call, is a KeyboardInterrupt. *)
ChildAt(r) ==
  /\ pc[r] \in {"idle", "start", "open", "spawn"} => child[r] = "none"
  /\ pc[r] \in {"announce", "install", "loop", "read", "close"} => child[r] \notin {"none", "lost"}
  /\ pc[r] \in {"stop", "grace", "reap"} /\ ~rec[r].error => child[r] \notin {"none", "lost"}
  /\ pc[r] \in {"close", "except", "publish", "returned"} => child[r] # "running"
  /\ pc[r] \in {"escape", "raised"} /\ child[r] = "running" => sigint[r] = "raised"
  /\ child[r] = "lost" => sigint[r] = "raised"

(* After an exception the loop is not entered again.                       *)
ErrorStops(r) ==
  rec[r].error => pc[r] \in {"stop", "grace", "reap", "except", "publish", "escape",
                             "returned", "raised", "dead"}

(* A child is signalled only for a reason that the record keeps, if the    *)
(* handler comes to record it.                                             *)
Marked(r) ==
  sent[r] # "none" \/ pc[r] \in {"stop", "grace", "reap"} =>
    \/ rec[r].timed_out \/ rec[r].cancelled \/ rec[r].error
    \/ pc[r] \in {"escape", "raised", "dead"}

(* Stdout is unregistered only at its end.                                 *)
Drained(r) ==
  /\ pc[r] \in {"loop", "stop", "grace", "reap", "read", "close"} =>
       rec[r].error \/ watched[r] \/ EndOfFile(r)
  /\ At(r, "close") => ~watched[r]

Genuine(r) ==
  rec[r].status = "succeeded" =>
    /\ pc[r] \in {"publish", "escape", "returned", "raised", "dead"}
    /\ child[r] = "zero" /\ sent[r] = "none" /\ EndOfFile(r)

Control(r) ==
  /\ LogOwned(r) /\ ChildAt(r) /\ ErrorStops(r) /\ Marked(r) /\ Drained(r) /\ Genuine(r)

IInv == CallsTypeOK /\ \A r \in Runners : Control(r)

(* What a step leaves as it is for a runner.                               *)
SameFor(c) ==
  /\ pc'[c] = pc[c] /\ rec'[c] = rec[c] /\ watched'[c] = watched[c]
  /\ copied'[c] = copied[c] /\ piped'[c] = piped[c]
  /\ child'[c] = child[c] /\ sent'[c] = sent[c] /\ holders'[c] = holders[c]
  /\ sigint'[c] = sigint[c]

LEMMA FrameKeeps ==
  ASSUME NEW c \in Runners, Control(c), SameFor(c), log' = log \/ log = Nothing
  PROVE  Control(c)'
<1>1. LogOwned(c)'
  BY PhaseRunnerAssumption DEF Control, SameFor, LogOwned, At
<1>2. ChildAt(c)' /\ ErrorStops(c)' /\ Marked(c)'
  BY DEF Control, SameFor, ChildAt, ErrorStops, Marked
<1>3. Drained(c)' /\ Genuine(c)'
  BY DEF Control, SameFor, Drained, Genuine, EndOfFile, At
<1>. QED  BY <1>1, <1>2, <1>3 DEF Control

LEMMA InitIInv == Init => IInv
<1>. SUFFICES ASSUME Init PROVE IInv
  OBVIOUS
<1>1. NoRecord \in Dicts
  BY DEF NoRecord, Dicts, Final
<1>2. CallsTypeOK
  BY <1>1, PhaseRunnerAssumption DEF Init, CallsTypeOK, Steps
<1>3. ASSUME NEW r \in Runners PROVE Control(r)
  BY DEF Init, NoRecord, Control, LogOwned, ChildAt, ErrorStops, Marked, Drained, Genuine, At
<1>. QED  BY <1>2, <1>3 DEF IInv

(***************************************************************************)
(* Changes of a record.                                                    *)
(***************************************************************************)
LEMMA PutFacts ==
  ASSUME CallsTypeOK, NEW r \in Runners, NEW dict \in Dicts, rec' = [rec EXCEPT ![r] = dict]
  PROVE  rec' \in [Runners -> Dicts] /\ rec'[r] = dict
  BY DEF CallsTypeOK

LEMMA RaiseFacts ==
  ASSUME CallsTypeOK, NEW r \in Runners, Raise(r)
  PROVE  /\ rec' \in [Runners -> Dicts] /\ pc' \in [Runners -> Steps]
         /\ pc'[r] = "stop" /\ rec'[r].error /\ rec'[r].status = rec[r].status
         /\ \A c \in Runners \ {r} : pc'[c] = pc[c] /\ rec'[c] = rec[c]
<1>1. rec[r] \in Dicts /\ rec' = [rec EXCEPT ![r] = [rec[r] EXCEPT !.error = TRUE]]
  BY DEF CallsTypeOK, Raise
<1>2. [rec[r] EXCEPT !.error = TRUE] \in Dicts
  BY <1>1 DEF Dicts
<1>3. rec'[r] = [rec[r] EXCEPT !.error = TRUE]
  BY <1>1 DEF CallsTypeOK
<1>4. rec'[r].error /\ rec'[r].status = rec[r].status
  BY <1>1, <1>3 DEF Dicts
<1>. QED  BY <1>1, <1>2, <1>4 DEF CallsTypeOK, Raise, Goto, Steps

(* An exception in the try block may find the child started, or lost.      *)
LEMMA RaiseKeeps ==
  ASSUME IInv, NEW r \in Runners, Raise(r),
         pc[r] \in {"open", "spawn", "announce", "install", "loop", "read", "close"},
         UNCHANGED <<file, log, watched, copied, piped, sent>>, CallsTypeOK',
         \A c \in Runners \ {r} :
           child'[c] = child[c] /\ holders'[c] = holders[c] /\ sigint'[c] = sigint[c],
         child'[r] = child[r] \/ pc[r] = "spawn",
         child'[r] = "lost" => sigint'[r] = "raised"
  PROVE  IInv'
<1>. USE PhaseRunnerAssumption DEF IInv
<1>2. ASSUME NEW c \in Runners, c # r PROVE Control(c)'
  <2>1. SameFor(c)
    BY <1>2, RaiseFacts DEF SameFor
  <2>. QED  BY <2>1, FrameKeeps
<1>3. Control(r)'
  BY RaiseFacts DEF Control, LogOwned, ChildAt, ErrorStops, Marked, Drained, Genuine, At
<1>. QED  BY <1>2, <1>3

(* Most exceptions leave all but the record and the next step alone.       *)
LEMMA FailKeeps ==
  ASSUME IInv, NEW r \in Runners, Raise(r),
         pc[r] \in {"open", "spawn", "announce", "install", "loop", "read", "close"},
         UNCHANGED <<file, log, watched, copied, clockVars, childVars>>
  PROVE  IInv'
<1>. USE DEF IInv, clockVars, childVars
<1>1. CallsTypeOK'
  BY RaiseFacts DEF CallsTypeOK
<1>2. child'[r] = "lost" => sigint'[r] = "raised"
  BY DEF Control, ChildAt
<1>. QED  BY <1>1, <1>2, RaiseKeeps

LEMMA CheckArtifactsKeeps ==
  ASSUME IInv, NEW r \in Runners, CheckArtifacts(r) PROVE IInv'
<1>. USE PhaseRunnerAssumption DEF IInv, CheckArtifacts, At, Goto, clockVars, childVars
<1>1. CallsTypeOK'
  BY DEF CallsTypeOK, Steps
<1>2. ASSUME NEW c \in Runners, c # r PROVE Control(c)'
  <2>1. SameFor(c)
    BY <1>2 DEF CallsTypeOK, SameFor
  <2>. QED  BY <2>1, FrameKeeps
<1>3. Control(r)'
  <2>1. LogOwned(r)' /\ ChildAt(r)'
    BY DEF CallsTypeOK, Control, LogOwned, ChildAt
  <2>2. ErrorStops(r)' /\ Marked(r)'
    BY DEF CallsTypeOK, Control, ErrorStops, Marked
  <2>3. Drained(r)' /\ Genuine(r)'
    BY DEF CallsTypeOK, Control, Drained, Genuine, EndOfFile
  <2>. QED  BY <2>1, <2>2, <2>3 DEF Control
<1>. QED  BY <1>1, <1>2, <1>3

LEMMA RecordStartingKeeps ==
  ASSUME IInv, NEW r \in Runners, RecordStarting(r) PROVE IInv'
<1>. USE PhaseRunnerAssumption DEF IInv, RecordStarting, At, Goto, Publish, clockVars, childVars
<1>1. CallsTypeOK'
  <2>1. file' \in Files \cup {Nothing}
    BY DEF CallsTypeOK, Files
  <2>. QED  BY <2>1 DEF CallsTypeOK, Steps
<1>2. ASSUME NEW c \in Runners, c # r PROVE Control(c)'
  <2>1. SameFor(c)
    BY <1>2 DEF CallsTypeOK, SameFor
  <2>. QED  BY <2>1, FrameKeeps
<1>3. Control(r)'
  <2>1. LogOwned(r)' /\ ChildAt(r)'
    BY DEF CallsTypeOK, Control, LogOwned, ChildAt
  <2>2. ErrorStops(r)' /\ Marked(r)'
    BY DEF CallsTypeOK, Control, ErrorStops, Marked
  <2>3. Drained(r)' /\ Genuine(r)'
    BY DEF CallsTypeOK, Control, Drained, Genuine, EndOfFile
  <2>. QED  BY <2>1, <2>2, <2>3 DEF Control
<1>. QED  BY <1>1, <1>2, <1>3

LEMMA OpenLogKeeps ==
  ASSUME IInv, NEW r \in Runners, OpenLog(r) PROVE IInv'
<1>. USE PhaseRunnerAssumption DEF IInv, OpenLog, At, clockVars, childVars
<1>1. CASE log = Nothing /\ log' = r /\ Goto(r, "spawn") /\ UNCHANGED rec
  <2>1. CallsTypeOK'
    BY <1>1 DEF Goto, CallsTypeOK, Steps
  <2>2. ASSUME NEW c \in Runners, c # r PROVE Control(c)'
    <3>1. SameFor(c)
      BY <1>1, <2>2 DEF Goto, CallsTypeOK, SameFor
    <3>. QED  BY <1>1, <3>1, FrameKeeps
  <2>3. Control(r)'
    BY <1>1 DEF Goto, CallsTypeOK, Control, LogOwned, ChildAt, ErrorStops, Marked, Drained,
                Genuine, EndOfFile
  <2>. QED  BY <2>1, <2>2, <2>3
<1>2. CASE Raise(r) /\ UNCHANGED log
  BY <1>2, FailKeeps
<1>. QED  BY <1>1, <1>2

LEMMA StartChildKeeps ==
  ASSUME IInv, NEW r \in Runners, StartChild(r) PROVE IInv'
<1>. USE PhaseRunnerAssumption DEF IInv, StartChild, Spawn, At
<1>1. CASE /\ Spawn(r)
           /\ rec' = [rec EXCEPT ![r].status = "running"]
           /\ Goto(r, "announce")
  <2>. DEFINE dict == [rec[r] EXCEPT !.status = "running"]
  <2>1. rec[r] \in Dicts /\ rec' = [rec EXCEPT ![r] = dict]
    BY <1>1 DEF CallsTypeOK
  <2>2. /\ dict \in Dicts /\ dict.status = "running" /\ dict.error = rec[r].error
        /\ dict.timed_out = rec[r].timed_out /\ dict.cancelled = rec[r].cancelled
    BY <2>1 DEF Dicts
  <2>. HIDE DEF dict
  <2>6. rec' \in [Runners -> Dicts] /\ rec'[r] = dict
    BY <2>1, <2>2, PutFacts
  <2>3. CallsTypeOK'
    BY <1>1, <2>6 DEF Goto, CallsTypeOK, Steps, clockVars
  <2>4. ASSUME NEW c \in Runners, c # r PROVE Control(c)'
    <3>1. SameFor(c)
      BY <1>1, <2>4 DEF Goto, CallsTypeOK, SameFor, clockVars
    <3>. QED  BY <3>1, FrameKeeps
  <2>5. Control(r)'
    BY <1>1, <2>2, <2>6 DEF Goto, CallsTypeOK, Control, LogOwned, ChildAt, ErrorStops, Marked,
                      Drained, Genuine
  <2>. QED  BY <2>3, <2>4, <2>5
<1>2. CASE Raise(r) /\ UNCHANGED <<child, holders>>
  BY <1>2, FailKeeps DEF clockVars, childVars
<1>3. CASE Raise(r) /\ Spawn(r)
  <2>1. CallsTypeOK'
    BY <1>3, RaiseFacts DEF CallsTypeOK, clockVars
  <2>2. /\ child'[r] # "lost"
        /\ \A c \in Runners \ {r} : child'[c] = child[c] /\ holders'[c] = holders[c]
    BY <1>3 DEF CallsTypeOK
  <2>. QED  BY <1>3, <2>1, <2>2, RaiseKeeps DEF clockVars
<1>. QED  BY <1>1, <1>2, <1>3

LEMMA RecordRunningKeeps ==
  ASSUME IInv, NEW r \in Runners, RecordRunning(r) PROVE IInv'
<1>. USE PhaseRunnerAssumption DEF IInv, RecordRunning, At, Goto, Publish, clockVars, childVars
<1>1. CallsTypeOK'
  BY DEF CallsTypeOK, Files, Steps
<1>2. ASSUME NEW c \in Runners, c # r PROVE Control(c)'
  <2>1. SameFor(c)
    BY <1>2 DEF CallsTypeOK, SameFor
  <2>. QED  BY <2>1, FrameKeeps
<1>3. Control(r)'
  <2>1. LogOwned(r)' /\ ChildAt(r)'
    BY DEF CallsTypeOK, Control, LogOwned, ChildAt
  <2>2. ErrorStops(r)' /\ Marked(r)'
    BY DEF CallsTypeOK, Control, ErrorStops, Marked
  <2>3. Drained(r)' /\ Genuine(r)'
    BY DEF CallsTypeOK, Control, Drained, Genuine, EndOfFile
  <2>. QED  BY <2>1, <2>2, <2>3 DEF Control
<1>. QED  BY <1>1, <1>2, <1>3

LEMMA InstallHandlersKeeps ==
  ASSUME IInv, NEW r \in Runners, InstallHandlers(r) PROVE IInv'
<1>. USE PhaseRunnerAssumption DEF IInv, InstallHandlers, At, childVars
<1>1. CASE watched' = [watched EXCEPT ![r] = TRUE] /\ Goto(r, "loop") /\ UNCHANGED rec
  <2>1. CallsTypeOK'
    BY <1>1 DEF Goto, CallsTypeOK, Steps
  <2>2. ASSUME NEW c \in Runners, c # r PROVE Control(c)'
    <3>1. SameFor(c)
      BY <1>1, <2>2 DEF Goto, CallsTypeOK, SameFor
    <3>. QED  BY <3>1, FrameKeeps
  <2>3. Control(r)'
    <3>1. LogOwned(r)' /\ ChildAt(r)'
      BY <1>1 DEF Goto, CallsTypeOK, Control, LogOwned, ChildAt
    <3>2. ErrorStops(r)' /\ Marked(r)'
      BY <1>1 DEF Goto, CallsTypeOK, Control, ErrorStops, Marked
    <3>3. Drained(r)' /\ Genuine(r)'
      BY <1>1 DEF Goto, CallsTypeOK, Control, Drained, Genuine, EndOfFile
    <3>. QED  BY <3>1, <3>2, <3>3 DEF Control
  <2>. QED  BY <2>1, <2>2, <2>3
<1>2. CASE Raise(r) /\ UNCHANGED watched
  <2>1. CallsTypeOK'
    BY <1>2, RaiseFacts DEF CallsTypeOK
  <2>2. child[r] # "lost" /\ \A c \in Runners \ {r} : sigint'[c] = sigint[c]
    BY DEF CallsTypeOK, Control, ChildAt
  <2>. QED  BY <1>2, <2>1, <2>2, RaiseKeeps
<1>. QED  BY <1>1, <1>2

LEMMA SuperviseKeeps ==
  ASSUME IInv, NEW r \in Runners, Supervise(r) PROVE IInv'
<1>. USE PhaseRunnerAssumption DEF IInv, Supervise, At, clockVars, childVars
<1>1. ASSUME NEW c \in Runners, c # r PROVE Control(c)'
  <2>1. SameFor(c)
    BY <1>1 DEF Goto, CallsTypeOK, SameFor
  <2>. QED  BY <2>1, FrameKeeps
<1>2. CASE ~MustStop(r) /\ Goto(r, "read") /\ UNCHANGED rec
  <2>1. CallsTypeOK'
    BY <1>2 DEF Goto, CallsTypeOK, Steps
  <2>2. Control(r)'
    BY <1>2 DEF Goto, CallsTypeOK, Control, LogOwned, ChildAt, ErrorStops, Marked, Drained,
                Genuine, EndOfFile
  <2>. QED  BY <1>1, <2>1, <2>2
<1>3. CASE /\ MustStop(r)
           /\ rec' = [rec EXCEPT ![r].timed_out = elapsed[r],
                                 ![r].cancelled = ~elapsed[r]]
           /\ Goto(r, "stop")
  <2>. DEFINE dict == [rec[r] EXCEPT !.timed_out = elapsed[r], !.cancelled = ~elapsed[r]]
  <2>1. rec[r] \in Dicts /\ elapsed[r] \in BOOLEAN /\ rec' = [rec EXCEPT ![r] = dict]
    BY <1>3 DEF CallsTypeOK
  <2>2. dict \in Dicts
    BY <2>1 DEF Dicts
  <2>6. /\ dict.timed_out \/ dict.cancelled
        /\ dict.error = rec[r].error /\ dict.status = rec[r].status
    BY <2>1 DEF Dicts
  <2>. HIDE DEF dict
  <2>7. rec' = [rec EXCEPT ![r] = dict] /\ CallsTypeOK
    BY <2>1
  <2>3. rec' \in [Runners -> Dicts] /\ rec'[r] = dict
    BY <2>2, <2>7, PutFacts
  <2>4. CallsTypeOK'
    BY <1>3, <2>3 DEF Goto, CallsTypeOK, Steps
  <2>5. pc'[r] = "stop" /\ pc[r] = "loop" /\ sent'[r] = sent[r]
    BY <1>3 DEF Goto, CallsTypeOK
  <2>8. LogOwned(r)' /\ ChildAt(r)' /\ ErrorStops(r)'
    BY <1>3, <2>6, <2>3, <2>5 DEF Control, LogOwned, ChildAt, ErrorStops
  <2>9. Marked(r)'
    BY <1>3, <2>6, <2>3, <2>5 DEF Control, Marked
  <2>10. Drained(r)' /\ Genuine(r)'
    BY <1>3, <2>6, <2>3, <2>5 DEF Control, ErrorStops, Drained, Genuine, EndOfFile
  <2>. QED  BY <1>1, <2>4, <2>8, <2>9, <2>10 DEF Control
<1>. QED  BY <1>2, <1>3

LEMMA StepFailsKeeps ==
  ASSUME IInv, NEW r \in Runners, StepFails(r) PROVE IInv'
  BY FailKeeps DEF StepFails

LEMMA LeaveLoopKeeps ==
  ASSUME IInv, NEW r \in Runners, LeaveLoop(r) PROVE IInv'
<1>. USE PhaseRunnerAssumption DEF IInv, LeaveLoop, At, Goto, clockVars, childVars
<1>1. CallsTypeOK'
  BY DEF CallsTypeOK, Steps
<1>2. ASSUME NEW c \in Runners, c # r PROVE Control(c)'
  <2>1. SameFor(c)
    BY <1>2 DEF CallsTypeOK, SameFor
  <2>. QED  BY <2>1, FrameKeeps
<1>3. Control(r)'
  <2>1. LogOwned(r)' /\ ChildAt(r)'
    BY DEF CallsTypeOK, Control, LogOwned, ChildAt
  <2>2. ErrorStops(r)' /\ Marked(r)'
    BY DEF CallsTypeOK, Control, ErrorStops, Marked
  <2>3. Drained(r)' /\ Genuine(r)'
    BY DEF CallsTypeOK, Control, Drained, Genuine, EndOfFile
  <2>. QED  BY <2>1, <2>2, <2>3 DEF Control
<1>. QED  BY <1>1, <1>2, <1>3

LEMMA StopChildKeeps ==
  ASSUME IInv, NEW r \in Runners, StopChild(r) PROVE IInv'
<1>. USE PhaseRunnerAssumption DEF IInv, StopChild, At, clockVars
<1>1. /\ AfterStop(r) \in Steps
      /\ \/ Goto(r, "grace") /\ sent' = [sent EXCEPT ![r] = "TERM"]
         \/ Goto(r, "reap") /\ sent' = [sent EXCEPT ![r] = "KILL"]
         \/ Goto(r, AfterStop(r)) /\ UNCHANGED sent
  BY DEF AfterStop, Steps
<1>2. CallsTypeOK'
  BY <1>1 DEF Goto, CallsTypeOK, Steps
<1>3. ASSUME NEW c \in Runners, c # r PROVE Control(c)'
  <2>1. SameFor(c)
    BY <1>3 DEF Goto, CallsTypeOK, SameFor
  <2>. QED  BY <2>1, FrameKeeps
<1>4. Control(r)'
  <2>1. LogOwned(r)' /\ ChildAt(r)'
    BY DEF Goto, CallsTypeOK, Control, LogOwned, ChildAt, AfterStop
  <2>2. ErrorStops(r)' /\ Marked(r)'
    BY DEF Goto, CallsTypeOK, Control, ErrorStops, Marked, AfterStop
  <2>3. Drained(r)' /\ Genuine(r)'
    BY DEF Goto, CallsTypeOK, Control, Drained, Genuine, EndOfFile, AfterStop
  <2>. QED  BY <2>1, <2>2, <2>3 DEF Control
<1>. QED  BY <1>2, <1>3, <1>4

LEMMA ReadOutputKeeps ==
  ASSUME IInv, NEW r \in Runners, ReadOutput(r) PROVE IInv'
<1>. USE PhaseRunnerAssumption DEF IInv, At, childVars
<1>1. /\ pc[r] = "read" /\ UNCHANGED <<file, log, limited, sigint, elapsed, asked>>
      /\ UNCHANGED <<child, piped, sent, holders>>
      /\ overdue' \in [Runners -> {"no", "seen", "yes"}]
  BY DEF ReadOutput, CallsTypeOK
<1>2. /\ copied' \in [Runners -> 0..MaxBlocks] /\ watched' \in [Runners -> BOOLEAN]
      /\ \A c \in Runners \ {r} : copied'[c] = copied[c] /\ watched'[c] = watched[c]
  <2>1. CASE copied' = [copied EXCEPT ![r] = @ + 1] /\ copied[r] < piped[r] /\ UNCHANGED watched
    BY <2>1 DEF CallsTypeOK
  <2>2. CASE watched' = [watched EXCEPT ![r] = FALSE] /\ UNCHANGED copied
    BY <2>2 DEF CallsTypeOK
  <2>3. CASE UNCHANGED <<copied, watched>>
    BY <2>3 DEF CallsTypeOK
  <2>. QED  BY <2>1, <2>2, <2>3 DEF ReadOutput
<1>3. \/ Goto(r, "loop") /\ UNCHANGED rec
      \/ Raise(r)
  BY DEF ReadOutput
<1>4. /\ rec' \in [Runners -> Dicts] /\ pc' \in [Runners -> Steps]
      /\ \A c \in Runners \ {r} : pc'[c] = pc[c] /\ rec'[c] = rec[c]
      /\ \/ pc'[r] = "loop" /\ rec'[r] = rec[r]
         \/ pc'[r] = "stop" /\ rec'[r].error /\ rec'[r].status = rec[r].status
  <2>1. CASE Goto(r, "loop") /\ UNCHANGED rec
    BY <2>1 DEF Goto, CallsTypeOK, Steps
  <2>. QED  BY <2>1, <1>3, RaiseFacts
<1>5. CallsTypeOK'
  BY <1>1, <1>2, <1>4 DEF CallsTypeOK
<1>6. ASSUME NEW c \in Runners, c # r PROVE Control(c)'
  <2>1. SameFor(c)
    BY <1>1, <1>2, <1>4, <1>6 DEF SameFor
  <2>. QED  BY <1>1, <2>1, FrameKeeps
<1>7. Control(r)'
  <2>1. LogOwned(r)' /\ ChildAt(r)'
    BY <1>1, <1>4 DEF Control, LogOwned, ChildAt
  <2>2. ErrorStops(r)' /\ Marked(r)'
    BY <1>1, <1>4 DEF Control, ErrorStops, Marked
  <2>3. Genuine(r)'
    BY <1>1, <1>4 DEF Control, Genuine
  <2>4. watched'[r] \/ EndOfFile(r)'
    <3>1. CASE watched[r] /\ UNCHANGED watched
      BY <3>1
    <3>2. CASE watched[r] /\ EndOfFile(r) /\ UNCHANGED copied
      BY <1>1, <3>2 DEF EndOfFile
    <3>3. CASE ~watched[r] /\ UNCHANGED <<copied, watched>>
      BY <1>1, <3>3 DEF EndOfFile, Control, Drained, ErrorStops
    <3>. QED  BY <3>1, <3>2, <3>3 DEF ReadOutput, CallsTypeOK
  <2>. QED  BY <1>4, <2>1, <2>2, <2>3, <2>4 DEF Control, Drained
<1>. QED  BY <1>5, <1>6, <1>7

LEMMA SucceededStatus ==
  ASSUME NEW r, rec[r] \in Dicts, FinalStatus(r) = "succeeded"
  PROVE  child[r] = "zero" /\ ~rec[r].timed_out /\ ~rec[r].cancelled
  BY DEF FinalStatus

LEMMA CloseLogKeeps ==
  ASSUME IInv, NEW r \in Runners, CloseLog(r) PROVE IInv'
<1>. USE PhaseRunnerAssumption DEF IInv, CloseLog, At, clockVars, childVars
<1>. DEFINE dict == [rec[r] EXCEPT !.exit = child[r], !.status = FinalStatus(r)]
<1>1. rec[r] \in Dicts /\ child[r] \in ExitCodes /\ FinalStatus(r) \in Final
  BY DEF CallsTypeOK, Control, ChildAt, FinalStatus, Final
<1>2. rec' = [rec EXCEPT ![r] = dict]
  OBVIOUS
<1>3. /\ dict \in Dicts /\ dict.status = FinalStatus(r) /\ dict.error = rec[r].error
      /\ dict.timed_out = rec[r].timed_out /\ dict.cancelled = rec[r].cancelled
  BY <1>1 DEF Dicts
<1>. HIDE DEF dict
<1>4. rec' \in [Runners -> Dicts] /\ rec'[r] = dict
  BY <1>2, <1>3, PutFacts
<1>5. CallsTypeOK'
  BY <1>4 DEF Goto, CallsTypeOK, Steps
<1>6. ASSUME NEW c \in Runners, c # r PROVE Control(c)'
  <2>1. SameFor(c)
    BY <1>6 DEF Goto, CallsTypeOK, SameFor
  <2>. QED  BY <2>1, FrameKeeps
<1>7. pc'[r] = "publish"
  BY DEF Goto, CallsTypeOK
<1>8. LogOwned(r)' /\ ChildAt(r)' /\ ErrorStops(r)' /\ Marked(r)' /\ Drained(r)'
  BY <1>3, <1>4, <1>7 DEF Control, LogOwned, ChildAt, ErrorStops, Marked, Drained
<1>9. Genuine(r)'
  <2>1. SUFFICES ASSUME FinalStatus(r) = "succeeded"
                 PROVE  child[r] = "zero" /\ sent[r] = "none" /\ EndOfFile(r)
    BY <1>3, <1>4, <1>7 DEF Genuine, EndOfFile
  <2>2. child[r] = "zero" /\ ~rec[r].timed_out /\ ~rec[r].cancelled
    BY <1>1, <2>1, SucceededStatus
  <2>3. ~rec[r].error
    BY DEF Control, ErrorStops
  <2>. QED  BY <2>2, <2>3 DEF Control, Marked, Drained, CallsTypeOK
<1>. QED  BY <1>5, <1>6, <1>8, <1>9 DEF Control

(* What the handler has written into the record, as far as it came.        *)
LEMMA HandledFacts ==
  ASSUME CallsTypeOK, NEW r \in Runners
  PROVE  LET exit == WithExit(r)
             all == [exit EXCEPT !.status = "error"]
         IN  /\ exit \in Dicts /\ exit.status = rec[r].status
             /\ exit.error = rec[r].error
             /\ all \in Dicts /\ all.status = "error" /\ all.error = rec[r].error
             /\ all.timed_out = rec[r].timed_out /\ all.cancelled = rec[r].cancelled
<1>. DEFINE code == IF child[r] \in ExitCodes THEN child[r] ELSE Nothing
<1>1. rec[r] \in Dicts /\ code \in ExitCodes \cup {Nothing}
  BY DEF CallsTypeOK
<1>2. WithExit(r) = [rec[r] EXCEPT !.exit = code]
  BY DEF WithExit
<1>. HIDE DEF code
<1>. QED  BY <1>1, <1>2 DEF Dicts, Final

LEMMA RecordErrorKeeps ==
  ASSUME IInv, NEW r \in Runners, RecordError(r) PROVE IInv'
<1>. USE PhaseRunnerAssumption DEF IInv, RecordError, At, clockVars, childVars
<1>. DEFINE dict == [WithExit(r) EXCEPT !.status = "error"]
<1>2. rec' = [rec EXCEPT ![r] = dict]
  OBVIOUS
<1>3. /\ dict \in Dicts /\ dict.status = "error" /\ dict.error = rec[r].error
      /\ dict.timed_out = rec[r].timed_out /\ dict.cancelled = rec[r].cancelled
  BY HandledFacts DEF IInv
<1>. HIDE DEF dict
<1>4. rec' \in [Runners -> Dicts] /\ rec'[r] = dict
  BY <1>2, <1>3, PutFacts
<1>5. CallsTypeOK'
  BY <1>4 DEF Goto, CallsTypeOK, Steps
<1>6. ASSUME NEW c \in Runners, c # r PROVE Control(c)'
  <2>1. SameFor(c)
    BY <1>6 DEF Goto, CallsTypeOK, SameFor
  <2>. QED  BY <2>1, FrameKeeps
<1>7. pc'[r] = "publish"
  BY DEF Goto, CallsTypeOK
<1>8. Control(r)'
  BY <1>3, <1>4, <1>7
  DEF Control, LogOwned, ChildAt, ErrorStops, Marked, Drained, Genuine
<1>. QED  BY <1>5, <1>6, <1>8

LEMMA RecordFinalKeeps ==
  ASSUME IInv, NEW r \in Runners, RecordFinal(r) PROVE IInv'
<1>. USE PhaseRunnerAssumption DEF IInv, RecordFinal, At, Goto, Publish, clockVars, childVars
<1>1. CallsTypeOK'
  <2>1. file' \in Files \cup {Nothing}
    BY DEF CallsTypeOK, Files
  <2>. QED  BY <2>1 DEF CallsTypeOK, Steps
<1>2. ASSUME NEW c \in Runners, c # r PROVE Control(c)'
  <2>1. SameFor(c)
    BY <1>2 DEF CallsTypeOK, SameFor
  <2>. QED  BY <2>1, FrameKeeps
<1>3. Control(r)'
  <2>1. LogOwned(r)' /\ ChildAt(r)'
    BY DEF CallsTypeOK, Control, LogOwned, ChildAt
  <2>2. ErrorStops(r)' /\ Marked(r)'
    BY DEF CallsTypeOK, Control, ErrorStops, Marked
  <2>3. Drained(r)' /\ Genuine(r)'
    BY DEF CallsTypeOK, Control, Drained, Genuine, EndOfFile
  <2>. QED  BY <2>1, <2>2, <2>3 DEF Control
<1>. QED  BY <1>1, <1>2, <1>3

LEMMA CrashKeeps ==
  ASSUME IInv, NEW r \in Runners, Crash(r) PROVE IInv'
<1>. USE PhaseRunnerAssumption DEF IInv, Crash, At, Goto, clockVars, childVars
<1>1. CallsTypeOK'
  BY DEF CallsTypeOK, Steps
<1>2. ASSUME NEW c \in Runners, c # r PROVE Control(c)'
  <2>1. SameFor(c)
    BY <1>2 DEF CallsTypeOK, SameFor
  <2>. QED  BY <2>1, FrameKeeps
<1>3. Control(r)'
  <2>1. LogOwned(r)' /\ ChildAt(r)'
    BY DEF CallsTypeOK, Control, LogOwned, ChildAt
  <2>2. ErrorStops(r)' /\ Marked(r)'
    BY DEF CallsTypeOK, Control, ErrorStops, Marked
  <2>3. Drained(r)' /\ Genuine(r)'
    BY DEF CallsTypeOK, Control, Drained, Genuine, EndOfFile
  <2>. QED  BY <2>1, <2>2, <2>3 DEF Control
<1>. QED  BY <1>1, <1>2, <1>3

LEMMA KeyboardInterruptKeeps ==
  ASSUME IInv, NEW r \in Runners, KeyboardInterrupt(r) PROVE IInv'
<1>. USE DEF IInv, KeyboardInterrupt, Spawn, At
<1>1. CallsTypeOK'
  BY RaiseFacts DEF CallsTypeOK
<1>2. /\ sigint'[r] = "raised"
      /\ \A c \in Runners \ {r} :
           child'[c] = child[c] /\ holders'[c] = holders[c] /\ sigint'[c] = sigint[c]
      /\ child'[r] = child[r] \/ pc[r] = "spawn"
  BY DEF CallsTypeOK
<1>. QED  BY <1>1, <1>2, RaiseKeeps

LEMMA EscapeHandlerKeeps ==
  ASSUME IInv, NEW r \in Runners, EscapeHandler(r) PROVE IInv'
<1>. USE PhaseRunnerAssumption DEF IInv, At, Goto, childVars
<1>1. /\ pc[r] \in {"stop", "grace", "reap", "except"}
      /\ pc' = [pc EXCEPT ![r] = "escape"] /\ sigint' = [sigint EXCEPT ![r] = "raised"]
      /\ UNCHANGED <<file, log, copied, watched, limited, elapsed, asked, overdue, childVars>>
  BY DEF EscapeHandler
<1>2. PICK dict \in Dicts : /\ rec' = [rec EXCEPT ![r] = dict]
                           /\ dict.status \in {rec[r].status, "error"}
  <2>1. [rec[r] EXCEPT !.error = FALSE] \in Dicts /\ rec[r] \in Dicts
    <3>1. rec[r] \in Dicts
      BY DEF CallsTypeOK
    <3>. QED  BY <3>1 DEF Dicts
  <2>2. CASE rec' = [rec EXCEPT ![r].error = FALSE]
    <3>1. rec' = [rec EXCEPT ![r] = [rec[r] EXCEPT !.error = FALSE]]
      BY <2>2
    <3>2. [rec[r] EXCEPT !.error = FALSE].status = rec[r].status
      BY <2>1 DEF Dicts
    <3>. QED  BY <2>1, <3>1, <3>2
  <2>3. CASE \E dict \in {rec[r], WithExit(r), [WithExit(r) EXCEPT !.status = "error"]} :
               rec' = [rec EXCEPT ![r] = dict]
    <3>1. PICK dict : /\ rec' = [rec EXCEPT ![r] = dict]
                      /\ \/ dict = rec[r] \/ dict = WithExit(r)
                         \/ dict = [WithExit(r) EXCEPT !.status = "error"]
      BY <2>3
    <3>2. dict \in Dicts /\ dict.status \in {rec[r].status, "error"}
      BY <2>1, <3>1, HandledFacts
    <3>. QED  BY <3>1, <3>2
  <2>. QED  BY <2>2, <2>3 DEF EscapeHandler
<1>3. rec' \in [Runners -> Dicts] /\ rec'[r] = dict
  BY <1>2, PutFacts
<1>4. CallsTypeOK'
  BY <1>1, <1>3 DEF CallsTypeOK, Steps
<1>5. ASSUME NEW c \in Runners, c # r PROVE Control(c)'
  <2>1. SameFor(c)
    BY <1>1, <1>2, <1>5 DEF CallsTypeOK, SameFor
  <2>. QED  BY <1>1, <2>1, FrameKeeps
<1>6. pc'[r] = "escape" /\ sigint'[r] = "raised"
  BY <1>1 DEF CallsTypeOK
<1>7. Control(r)'
  BY <1>1, <1>2, <1>3, <1>6
  DEF Control, LogOwned, ChildAt, ErrorStops, Marked, Drained, Genuine
<1>. QED  BY <1>4, <1>5, <1>7

LEMMA AskToStopKeeps ==
  ASSUME IInv, NEW r \in Runners, AskToStop(r) PROVE IInv'
<1>. USE PhaseRunnerAssumption DEF IInv, AskToStop, runnerVars, childVars
<1>1. CallsTypeOK'
  BY DEF CallsTypeOK
<1>2. ASSUME NEW c \in Runners, c # r PROVE Control(c)'
  <2>1. SameFor(c)
    BY <1>2 DEF CallsTypeOK, SameFor
  <2>. QED  BY <2>1, FrameKeeps
<1>3. Control(r)'
  <2>1. LogOwned(r)' /\ ChildAt(r)'
    BY DEF CallsTypeOK, Control, LogOwned, ChildAt, At
  <2>2. ErrorStops(r)' /\ Marked(r)'
    BY DEF CallsTypeOK, Control, ErrorStops, Marked
  <2>3. Drained(r)' /\ Genuine(r)'
    BY DEF CallsTypeOK, Control, Drained, Genuine, EndOfFile, At
  <2>. QED  BY <2>1, <2>2, <2>3 DEF Control
<1>. QED  BY <1>1, <1>2, <1>3

LEMMA TimeoutPassesKeeps ==
  ASSUME IInv, NEW r \in Runners, TimeoutPasses(r) PROVE IInv'
<1>. USE PhaseRunnerAssumption DEF IInv, TimeoutPasses, At, runnerVars, childVars
<1>1. CallsTypeOK'
  BY DEF CallsTypeOK
<1>2. ASSUME NEW c \in Runners, c # r PROVE Control(c)'
  <2>1. SameFor(c)
    BY <1>2 DEF CallsTypeOK, SameFor
  <2>. QED  BY <2>1, FrameKeeps
<1>3. Control(r)'
  <2>1. LogOwned(r)' /\ ChildAt(r)'
    BY DEF CallsTypeOK, Control, LogOwned, ChildAt
  <2>2. ErrorStops(r)' /\ Marked(r)'
    BY DEF CallsTypeOK, Control, ErrorStops, Marked
  <2>3. Drained(r)' /\ Genuine(r)'
    BY DEF CallsTypeOK, Control, Drained, Genuine, EndOfFile
  <2>. QED  BY <2>1, <2>2, <2>3 DEF Control
<1>. QED  BY <1>1, <1>2, <1>3

LEMMA SecondPassesKeeps ==
  ASSUME IInv, NEW r \in Runners, SecondPasses(r) PROVE IInv'
<1>. USE PhaseRunnerAssumption DEF IInv, SecondPasses, runnerVars, childVars
<1>1. CallsTypeOK'
  BY DEF CallsTypeOK
<1>2. ASSUME NEW c \in Runners, c # r PROVE Control(c)'
  <2>1. SameFor(c)
    BY <1>2 DEF CallsTypeOK, SameFor
  <2>. QED  BY <2>1, FrameKeeps
<1>3. Control(r)'
  <2>1. LogOwned(r)' /\ ChildAt(r)'
    BY DEF CallsTypeOK, Control, LogOwned, ChildAt, At
  <2>2. ErrorStops(r)' /\ Marked(r)'
    BY DEF CallsTypeOK, Control, ErrorStops, Marked
  <2>3. Drained(r)' /\ Genuine(r)'
    BY DEF CallsTypeOK, Control, Drained, Genuine, EndOfFile, At
  <2>. QED  BY <2>1, <2>2, <2>3 DEF Control
<1>. QED  BY <1>1, <1>2, <1>3

LEMMA WriteOutputKeeps ==
  ASSUME IInv, NEW r \in Runners, WriteOutput(r) PROVE IInv'
<1>. USE PhaseRunnerAssumption DEF IInv, WriteOutput, runnerVars, clockVars
<1>1. CallsTypeOK'
  BY DEF CallsTypeOK
<1>2. ASSUME NEW c \in Runners, c # r PROVE Control(c)'
  <2>1. SameFor(c)
    BY <1>2 DEF CallsTypeOK, SameFor
  <2>. QED  BY <2>1, FrameKeeps
<1>3. Control(r)'
  <2>1. LogOwned(r)' /\ ChildAt(r)'
    BY DEF CallsTypeOK, Control, LogOwned, ChildAt, At
  <2>2. ErrorStops(r)' /\ Marked(r)'
    BY DEF CallsTypeOK, Control, ErrorStops, Marked
  <2>3. Drained(r)' /\ Genuine(r)'
    BY DEF CallsTypeOK, Control, Drained, Genuine, EndOfFile, At
  <2>. QED  BY <2>1, <2>2, <2>3 DEF Control
<1>. QED  BY <1>1, <1>2, <1>3

LEMMA ForkKeeps ==
  ASSUME IInv, NEW r \in Runners, Fork(r) PROVE IInv'
<1>. USE PhaseRunnerAssumption DEF IInv, Fork, runnerVars, clockVars
<1>1. CallsTypeOK'
  BY DEF CallsTypeOK
<1>2. ASSUME NEW c \in Runners, c # r PROVE Control(c)'
  <2>1. SameFor(c)
    BY <1>2 DEF CallsTypeOK, SameFor
  <2>. QED  BY <2>1, FrameKeeps
<1>3. Control(r)'
  <2>1. LogOwned(r)' /\ ChildAt(r)'
    BY DEF CallsTypeOK, Control, LogOwned, ChildAt, At
  <2>2. ErrorStops(r)' /\ Marked(r)'
    BY DEF CallsTypeOK, Control, ErrorStops, Marked
  <2>3. Drained(r)' /\ Genuine(r)'
    BY DEF CallsTypeOK, Control, Drained, Genuine, EndOfFile, At
  <2>. QED  BY <2>1, <2>2, <2>3 DEF Control
<1>. QED  BY <1>1, <1>2, <1>3

LEMMA CloseOutputKeeps ==
  ASSUME IInv, NEW r \in Runners, CloseOutput(r) PROVE IInv'
<1>. USE PhaseRunnerAssumption DEF IInv, CloseOutput, runnerVars, clockVars
<1>1. CallsTypeOK'
  BY DEF CallsTypeOK
<1>2. ASSUME NEW c \in Runners, c # r PROVE Control(c)'
  <2>1. SameFor(c)
    BY <1>2 DEF CallsTypeOK, SameFor
  <2>. QED  BY <2>1, FrameKeeps
<1>3. Control(r)'
  <2>1. LogOwned(r)' /\ ChildAt(r)'
    BY DEF CallsTypeOK, Control, LogOwned, ChildAt, At
  <2>2. ErrorStops(r)' /\ Marked(r)'
    BY DEF CallsTypeOK, Control, ErrorStops, Marked
  <2>3. Drained(r)' /\ Genuine(r)'
    BY DEF CallsTypeOK, Control, Drained, Genuine, EndOfFile, At
  <2>. QED  BY <2>1, <2>2, <2>3 DEF Control
<1>. QED  BY <1>1, <1>2, <1>3

LEMMA ChildExitsKeeps ==
  ASSUME IInv, NEW r \in Runners, ChildExits(r) PROVE IInv'
<1>. USE PhaseRunnerAssumption DEF IInv, ChildExits, runnerVars, clockVars
<1>1. CallsTypeOK'
  BY DEF CallsTypeOK, ExitCodes
<1>2. ASSUME NEW c \in Runners, c # r PROVE Control(c)'
  <2>1. SameFor(c)
    BY <1>2 DEF CallsTypeOK, SameFor
  <2>. QED  BY <2>1, FrameKeeps
<1>3. Control(r)'
  <2>1. LogOwned(r)' /\ ChildAt(r)'
    BY DEF CallsTypeOK, Control, LogOwned, ChildAt, At
  <2>2. ErrorStops(r)' /\ Marked(r)'
    BY DEF CallsTypeOK, Control, ErrorStops, Marked
  <2>3. Drained(r)' /\ Genuine(r)'
    BY DEF CallsTypeOK, Control, Drained, Genuine, EndOfFile, At
  <2>. QED  BY <2>1, <2>2, <2>3 DEF Control
<1>. QED  BY <1>1, <1>2, <1>3

LEMMA ChildKilledKeeps ==
  ASSUME IInv, NEW r \in Runners, ChildKilled(r) PROVE IInv'
<1>. USE PhaseRunnerAssumption DEF IInv, ChildKilled, runnerVars, clockVars
<1>1. CallsTypeOK'
  BY DEF CallsTypeOK, ExitCodes
<1>2. ASSUME NEW c \in Runners, c # r PROVE Control(c)'
  <2>1. SameFor(c)
    BY <1>2 DEF CallsTypeOK, SameFor
  <2>. QED  BY <2>1, FrameKeeps
<1>3. Control(r)'
  <2>1. LogOwned(r)' /\ ChildAt(r)'
    BY DEF CallsTypeOK, Control, LogOwned, ChildAt, At
  <2>2. ErrorStops(r)' /\ Marked(r)'
    BY DEF CallsTypeOK, Control, ErrorStops, Marked
  <2>3. Drained(r)' /\ Genuine(r)'
    BY DEF CallsTypeOK, Control, Drained, Genuine, EndOfFile, At
  <2>. QED  BY <2>1, <2>2, <2>3 DEF Control
<1>. QED  BY <1>1, <1>2, <1>3

LEMMA NextKeeps == IInv /\ [Next]_vars => IInv'
<1>. SUFFICES ASSUME IInv, [Next]_vars PROVE IInv'
  OBVIOUS
<1>1. CASE UNCHANGED vars
  <2>. USE <1>1 DEF vars, callVars, runnerVars, clockVars, childVars
  <2>1. CallsTypeOK'
    BY DEF IInv, CallsTypeOK
  <2>2. ASSUME NEW c \in Runners PROVE Control(c)'
    <3>1. SameFor(c)
      BY DEF SameFor
    <3>. QED  BY <3>1, FrameKeeps DEF IInv
  <2>. QED  BY <2>1, <2>2 DEF IInv
<1>2. ASSUME NEW r \in Runners, RunnerStep(r) PROVE IInv'
  BY <1>2, RecordStartingKeeps, OpenLogKeeps, StartChildKeeps, RecordRunningKeeps,
     InstallHandlersKeeps, SuperviseKeeps, LeaveLoopKeeps, StopChildKeeps, ReadOutputKeeps,
     CloseLogKeeps, RecordErrorKeeps, RecordFinalKeeps
  DEF RunnerStep
<1>. QED
  BY <1>1, <1>2, CheckArtifactsKeeps, StepFailsKeeps, CrashKeeps, KeyboardInterruptKeeps,
     EscapeHandlerKeeps, AskToStopKeeps, TimeoutPassesKeeps, SecondPassesKeeps, WriteOutputKeeps, ForkKeeps,
     CloseOutputKeeps, ChildExitsKeeps, ChildKilledKeeps
  DEF Next, Step

LEMMA SpecIInv == Spec => []IInv
  BY InitIInv, NextKeeps, PTL DEF Spec

\* Records, files, children and steps keep their types; a record never holds
\* the exit of a process that was not started.
THEOREM TypeCorrect == Spec => []TypeOK
<1>1. Init => concurrent \in BOOLEAN
  BY DEF Init
<1>2. concurrent \in BOOLEAN /\ [Next]_vars => (concurrent \in BOOLEAN)'
  BY DEF Next, vars
<1>3. IInv /\ concurrent \in BOOLEAN => TypeOK
  BY DEF IInv, TypeOK
<1>. QED  BY <1>1, <1>2, <1>3, SpecIInv, PTL DEF Spec

\* The phase's command is started at most once, however many calls race.
THEOREM AtMostOneChild == Spec => []OneChild
<1>1. IInv => OneChild
  BY DEF IInv, OneChild, Control, LogOwned
<1>. QED  BY <1>1, SpecIInv, PTL

\* A call that comes back leaves a child running only when SIGINT interrupted
\* it before its handlers, while it started the child or, after an earlier
\* exception, stopped it; no failed step and no later signal does.
THEOREM NoChildLeft == Spec => []EndedChildStopped
<1>1. IInv => EndedChildStopped
  BY DEF IInv, EndedChildStopped, Control, ChildAt, At
<1>. QED  BY <1>1, SpecIInv, PTL

\* So one process at most is ever the phase's child, and it outlives a call that
\* has come back only after such an interrupt.
THEOREM ChildIsSupervised == Spec => []ChildSupervised
  BY AtMostOneChild, NoChildLeft, PTL DEF ChildSupervised

\* A success is a child that exited 0 unprompted with all its output logged.
THEOREM GenuineSuccess == Spec => []SuccessIsGenuine
<1>1. IInv => SuccessIsGenuine
  BY DEF IInv, SuccessIsGenuine, Succeeded, Control, Genuine, EndOfFile
<1>. QED  BY <1>1, SpecIInv, PTL

(***************************************************************************)
(* Calls that do not run at once: the record is the first call's.          *)
(***************************************************************************)
Active(r) == ~At(r, "idle") /\ ~Ended(r)

(* One call is under way; from its first record on, the file is its own.   *)
OneAtATime ==
  /\ CallsTypeOK
  /\ \A r, o \in Runners : Active(r) /\ Active(o) => r = o
  /\ \A r \in Runners :
       /\ At(r, "start") => file = Nothing
       /\ pc[r] # "start" /\ (Active(r) \/ At(r, "returned")) =>
            file # Nothing /\ file.by = r
  /\ Reported

LEMMA InitOneAtATime == Init => OneAtATime
<1>. SUFFICES ASSUME Init PROVE OneAtATime
  OBVIOUS
<1>1. CallsTypeOK
  BY InitIInv DEF IInv
<1>2. \A r \in Runners : pc[r] = "idle"
  BY DEF Init
<1>. QED  BY <1>1, <1>2 DEF OneAtATime, Active, Ended, At, Reported

(* Steps of the children, the clock and the signals.                       *)
LEMMA SameRecordsOneAtATime ==
  ASSUME OneAtATime, CallsTypeOK', UNCHANGED <<pc, rec, file>> PROVE OneAtATime'
  BY DEF OneAtATime, Active, Ended, At, Reported

(* Steps of one call under way that do not write the record.               *)
Quiet(r) ==
  /\ Active(r) /\ UNCHANGED file
  /\ pc[r] # "start" \/ pc'[r] \in {"dead", "raised"}
  /\ pc'[r] \notin {"start", "idle", "returned"}
  /\ \A c \in Runners \ {r} : pc'[c] = pc[c] /\ rec'[c] = rec[c]

LEMMA QuietSteps ==
  ASSUME CallsTypeOK, NEW r \in Runners
  PROVE  OpenLog(r) \/ StartChild(r) \/ InstallHandlers(r) \/ Supervise(r) \/ StepFails(r)
           \/ LeaveLoop(r) \/ StopChild(r) \/ ReadOutput(r) \/ CloseLog(r) \/ RecordError(r)
           \/ Crash(r) \/ KeyboardInterrupt(r) \/ EscapeHandler(r) => Quiet(r)
<1>. USE DEF CallsTypeOK, Quiet, Active, Ended, At, Goto
<1>1. Raise(r) /\ UNCHANGED file /\ Active(r) /\ pc[r] # "start" => Quiet(r)
  BY RaiseFacts
<1>2. OpenLog(r) => Quiet(r)
  BY <1>1 DEF OpenLog
<1>3. StartChild(r) => Quiet(r)
  BY <1>1 DEF StartChild
<1>4. InstallHandlers(r) => Quiet(r)
  BY <1>1 DEF InstallHandlers
<1>5. Supervise(r) => Quiet(r)
  BY <1>1 DEF Supervise
<1>6. StepFails(r) => Quiet(r)
  BY <1>1 DEF StepFails
<1>7. LeaveLoop(r) => Quiet(r)
  BY <1>1 DEF LeaveLoop
<1>8. StopChild(r) => Quiet(r)
  BY <1>1 DEF StopChild, AfterStop
<1>9. ReadOutput(r) => Quiet(r)
  BY <1>1 DEF ReadOutput
<1>10. CloseLog(r) => Quiet(r)
  BY <1>1 DEF CloseLog
<1>11. RecordError(r) => Quiet(r)
  BY <1>1 DEF RecordError
<1>12. Crash(r) => Quiet(r)
  BY <1>1 DEF Crash
<1>13. KeyboardInterrupt(r) => Quiet(r)
  BY <1>1 DEF KeyboardInterrupt
<1>14. EscapeHandler(r) => Quiet(r)
  BY DEF EscapeHandler
<1>. QED
  BY <1>2, <1>3, <1>4, <1>5, <1>6, <1>7, <1>8, <1>9, <1>10, <1>11, <1>12, <1>13, <1>14

LEMMA QuietOneAtATime ==
  ASSUME OneAtATime, CallsTypeOK', NEW r \in Runners, Quiet(r) PROVE OneAtATime'
<1>. USE DEF Quiet
<1>1. \A c \in Runners : Active(c)' => Active(c)
  BY DEF Active, At, Ended
<1>2. Reported'
  BY DEF OneAtATime, Reported, At
<1>. QED  BY <1>1, <1>2 DEF OneAtATime, Active, At, Ended

(* Steps that write the record of the call under way.                      *)
LEMMA PublishOneAtATime ==
  ASSUME OneAtATime, CallsTypeOK', NEW r \in Runners, Active(r),
         Publish(r, rec[r]), UNCHANGED rec,
         pc'[r] \notin {"start", "idle"}, \A c \in Runners \ {r} : pc'[c] = pc[c]
  PROVE  OneAtATime'
<1>1. \A c \in Runners : Active(c)' => Active(c)
  BY DEF Active, At, Ended
<1>2. ASSUME NEW c \in Runners \ {r} PROVE ~Active(c) /\ pc[c] # "returned"
  <2>1. ~Active(c)
    BY DEF OneAtATime
  <2>2. ASSUME pc[c] = "returned" PROVE FALSE
    <3>1. file # Nothing /\ file.by = c
      BY <2>2 DEF OneAtATime, At
    <3>2. pc[r] # "start" /\ file.by = r
      BY <3>1 DEF OneAtATime, At
    <3>. QED  BY <3>1, <3>2
  <2>. QED  BY <2>1, <2>2
<1>3. /\ \A c, o \in Runners : Active(c)' /\ Active(o)' => c = o
      /\ \A c \in Runners : At(c, "start")' => file' = Nothing
  BY <1>1, <1>2 DEF OneAtATime, Active, At, Ended
<1>4. ASSUME NEW c \in Runners, pc'[c] # "start", Active(c)' \/ At(c, "returned")'
      PROVE  file' # Nothing /\ file'.by = c
  <2>1. c = r
    BY <1>1, <1>2, <1>4 DEF At
  <2>2. file' = [by |-> r, dict |-> rec[r]] /\ file' \in Files
    BY DEF Publish, OneAtATime, CallsTypeOK, Files
  <2>3. file' # Nothing
    BY <2>2, PhaseRunnerAssumption
  <2>. QED  BY <2>1, <2>2, <2>3
<1>5. Reported'
  BY <1>2 DEF Reported, Publish, At
<1>. QED  BY <1>3, <1>4, <1>5 DEF OneAtATime

LEMMA NextOneAtATime ==
  ASSUME ~concurrent, IInv, OneAtATime, [Next]_vars PROVE OneAtATime'
<1>1. CallsTypeOK'
  BY NextKeeps DEF IInv
<1>2. ASSUME UNCHANGED <<pc, rec, file>> PROVE OneAtATime'
  BY <1>1, <1>2, SameRecordsOneAtATime
<1>3. ASSUME NEW r \in Runners, CheckArtifacts(r) PROVE OneAtATime'
  <2>1. \A c \in Runners : ~Active(c)
    BY <1>3 DEF CheckArtifacts, Active
  <2>2. /\ UNCHANGED <<rec, file, log>>
        /\ \A c \in Runners \ {r} : pc'[c] = pc[c]
        /\ pc'[r] = "refused" \/ (pc'[r] = "start" /\ file = Nothing)
    BY <1>3 DEF CheckArtifacts, Goto, OneAtATime, CallsTypeOK
  <2>3. Reported'
    BY <2>2 DEF OneAtATime, Reported, At
  <2>4. \A c \in Runners : At(c, "returned")' => c # r /\ At(c, "returned")
    BY <2>2 DEF At
  <2>. QED  BY <1>1, <2>1, <2>2, <2>3, <2>4 DEF OneAtATime, Active, At, Ended
<1>4. ASSUME NEW r \in Runners, RecordStarting(r) \/ RecordRunning(r) \/ RecordFinal(r)
      PROVE  OneAtATime'
  <2>1. /\ UNCHANGED rec /\ Active(r)
        /\ pc'[r] \notin {"start", "idle"} /\ \A c \in Runners \ {r} : pc'[c] = pc[c]
    BY <1>4 DEF RecordStarting, RecordRunning, RecordFinal, At, Goto, Active, Ended,
                OneAtATime, CallsTypeOK
  <2>2. Publish(r, rec[r]) \/ (UNCHANGED file /\ pc'[r] = "raised")
    BY <1>4 DEF RecordStarting, RecordRunning, RecordFinal, Goto, OneAtATime, CallsTypeOK
  <2>3. CASE Publish(r, rec[r])
    BY <1>1, <2>1, <2>3, PublishOneAtATime
  <2>4. CASE UNCHANGED file /\ pc'[r] = "raised"
    <3>1. Quiet(r)
      BY <2>1, <2>4 DEF Quiet
    <3>. QED  BY <1>1, <3>1, QuietOneAtATime
  <2>. QED  BY <2>2, <2>3, <2>4
<1>5. ASSUME NEW r \in Runners, RunnerStep(r) PROVE OneAtATime'
  <2>1. CallsTypeOK
    BY DEF OneAtATime
  <2>. QED  BY <1>1, <1>4, <1>5, <2>1, QuietSteps, QuietOneAtATime DEF RunnerStep
<1>6. ASSUME NEW r \in Runners, StepFails(r) \/ Crash(r) \/ KeyboardInterrupt(r) \/ EscapeHandler(r)
      PROVE  OneAtATime'
  <2>1. CallsTypeOK
    BY DEF OneAtATime
  <2>. QED  BY <1>1, <1>6, <2>1, QuietSteps, QuietOneAtATime
<1>7. ASSUME NEW r \in Runners,
             AskToStop(r) \/ TimeoutPasses(r) \/ SecondPasses(r) \/ WriteOutput(r)
               \/ Fork(r) \/ CloseOutput(r) \/ ChildExits(r) \/ ChildKilled(r)
      PROVE  UNCHANGED <<pc, rec, file>>
  BY <1>7 DEF AskToStop, TimeoutPasses, SecondPasses, WriteOutput, Fork, CloseOutput,
              ChildExits, ChildKilled, runnerVars
<1>8. UNCHANGED vars => UNCHANGED <<pc, rec, file>>
  BY DEF vars, callVars, runnerVars
<1>. QED
  BY <1>2, <1>3, <1>5, <1>6, <1>7, <1>8 DEF Next, Step

(* Two calls, one after the other: what is proved of their record.         *)
LEMMA RecordKept ==
  ASSUME IInv, OneAtATime, [Next]_vars PROVE [file # Nothing => file'.by = file.by]_file
<1>. SUFFICES ASSUME file # Nothing, file' # file PROVE file'.by = file.by
  OBVIOUS
<1>1. PICK r \in Runners : RecordStarting(r) \/ RecordRunning(r) \/ RecordFinal(r)
  <2>1. Step
    BY DEF Next, vars, callVars, runnerVars
  <2>2. ASSUME NEW r \in Runners,
               \/ CheckArtifacts(r) \/ OpenLog(r) \/ StartChild(r) \/ InstallHandlers(r)
               \/ Supervise(r) \/ StepFails(r) \/ LeaveLoop(r) \/ StopChild(r)
        PROVE  FALSE
    BY <2>2 DEF CheckArtifacts, OpenLog, StartChild, InstallHandlers, Supervise, StepFails,
                LeaveLoop, StopChild
  <2>3. ASSUME NEW r \in Runners,
               \/ ReadOutput(r) \/ CloseLog(r) \/ RecordError(r) \/ Crash(r)
               \/ KeyboardInterrupt(r) \/ EscapeHandler(r)
        PROVE  FALSE
    BY <2>3 DEF ReadOutput, CloseLog, RecordError, Crash, KeyboardInterrupt, EscapeHandler
  <2>4. ASSUME NEW r \in Runners,
               \/ AskToStop(r) \/ TimeoutPasses(r) \/ SecondPasses(r) \/ WriteOutput(r)
               \/ Fork(r) \/ CloseOutput(r) \/ ChildExits(r) \/ ChildKilled(r)
        PROVE  FALSE
    BY <2>4 DEF AskToStop, TimeoutPasses, SecondPasses, WriteOutput, Fork, CloseOutput,
                ChildExits, ChildKilled, runnerVars
  <2>. QED
    BY <2>1, <2>2, <2>3, <2>4 DEF Step, RunnerStep
<1>2. Active(r) /\ file' = [by |-> r, dict |-> rec[r]]
  BY <1>1 DEF RecordStarting, RecordRunning, RecordFinal, Publish, At, Active, Ended
<1>3. pc[r] # "start"
  BY DEF OneAtATime, At
<1>. QED  BY <1>2, <1>3 DEF OneAtATime

LEMMA SpecOneAtATime == Spec => [](IInv /\ (~concurrent => OneAtATime))
<1>1. Init => IInv /\ (~concurrent => OneAtATime)
  BY InitIInv, InitOneAtATime
<1>2. [Next]_vars => concurrent' = concurrent
  BY DEF Next, vars
<1>3. IInv /\ (~concurrent => OneAtATime) /\ [Next]_vars
        => (IInv /\ (~concurrent => OneAtATime))'
  BY <1>2, NextKeeps, NextOneAtATime
<1>. QED  BY <1>1, <1>3, PTL DEF Spec

\* Of calls that follow one another, only the one that created the record of
\* the phase writes it.
THEOREM RecordStays == Spec => RecordNotOverwritten
<1>1. IInv /\ (~concurrent => OneAtATime) /\ [Next]_vars
        => [file # Nothing /\ ~concurrent => file'.by = file.by]_file
  BY RecordKept
<1>. QED  BY <1>1, SpecOneAtATime, PTL DEF Spec, RecordNotOverwritten

\* Of calls that follow one another, the record says what each reported.
THEOREM ReportIsRecorded == Spec => []ReportedIsRecorded
<1>1. (~concurrent => OneAtATime) => ReportedIsRecorded
  BY DEF OneAtATime, ReportedIsRecorded
<1>. QED  BY <1>1, SpecOneAtATime, PTL
=============================================================================
