------------------------- MODULE HostScriptsProofs -------------------------
(***************************************************************************)
(* The scripts of the Host, proved for every value of the constants.  Each *)
(* has an inductive invariant and one lemma per action; that of the phase  *)
(* runner is taken from PhaseRunnerProofs.  The theorems at the end put    *)
(* them together.                                                          *)
(***************************************************************************)
EXTENDS HostScripts, SequenceTheorems, TLAPS

-----------------------------------------------------------------------------
(* The Zcode bridge *)
(* How far a run has come, and what its dict then says of its CLI.         *)
RunSound(b) ==
  /\ pc[b] \in {"record", "spawn", "announce", "wait", "term", "grace", "reap", "finish",
       "judge"}
       => claim = b
  /\ cli[b] # "none" => claim = b
  /\ pc[b] \in {"idle", "claim", "record", "spawn"} => cli[b] = "none"
  /\ pc[b] \in {"announce", "wait", "term", "grace", "reap"} => cli[b] # "none"
  /\ pc[b] \in {"idle", "claim", "record", "spawn", "announce", "wait"} => ~rec[b].timed_out
  /\ pc[b] \in {"term", "grace", "reap"} => rec[b].timed_out
  /\ pc[b] \in {"idle", "claim", "record", "spawn", "announce", "wait", "term", "grace", "reap"}
       => rec[b].exit = Nothing
  /\ rec[b].exit # Nothing => cli[b] = rec[b].exit
  /\ sent[b] # "none" => rec[b].timed_out
  /\ pc[b] \in {"finish", "judge", "answered"} /\ cli[b] = "running"
       => rec[b].error /\ ~rec[b].timed_out
  /\ pc[b] # "bridge"

(* The record of a job that has ended is that of its run.                  *)
FilesSound ==
  /\ bridge # Nothing =>
       /\ bridge.by = claim
       /\ bridge.dict.exit # Nothing => /\ bridge.dict = rec[bridge.by]
                                       /\ pc[bridge.by] \in {"judge", "answered", "dead"}
  /\ result # Nothing => cli[result.by] # "none"

\* What a call has read and answered, and of whom.
CallSound(c) ==
  /\ seen[c] # Nothing => cli[seen[c].by] # "none"
  /\ pc[c] = "bridge" => Bridge!Valid(seen[c])
  /\ handoff[c] = "VALID" =>
       /\ Bridge!Valid(seen[c]) /\ claim \in Bridges
       /\ rec[claim].exit = "zero" /\ ~rec[claim].timed_out

\* The inductive invariant of the bridge.
BridgeIInv ==
  /\ Bridge!TypeOK
  /\ \A b \in Bridges : RunSound(b)
  /\ FilesSound
  /\ \A c \in Bridge!Calls : CallSound(c)

\* The invariant holds before the first call.
LEMMA BridgeInit == Bridge!Init => BridgeIInv
<1>. SUFFICES ASSUME Bridge!Init PROVE BridgeIInv
  OBVIOUS
<1>. USE BridgeAssumption DEF Bridge!ZcodeBridgeAssumption, Bridge!Init, Bridge!NewBridge
<1>1. Bridge!TypeOK
  BY DEF Bridge!TypeOK, Bridge!Dicts, Bridge!Written, Bridge!ExitCodes, Bridge!Calls
<1>2. FilesSound /\ \A c \in Bridge!Calls : CallSound(c)
  BY DEF FilesSound, CallSound
<1>3. \A b \in Bridges : RunSound(b)
  BY DEF RunSound, Bridge!Calls
<1>. QED  BY <1>1, <1>2, <1>3 DEF BridgeIInv

\* The fields that a run updates keep its dict a dict.
LEMMA DictUpdates ==
  ASSUME NEW doc \in Bridge!Dicts
  PROVE  /\ [doc EXCEPT !.error = TRUE] \in Bridge!Dicts
         /\ [doc EXCEPT !.timed_out = TRUE] \in Bridge!Dicts
         /\ \A exit \in Bridge!ExitCodes : [doc EXCEPT !.exit = exit] \in Bridge!Dicts
BY DEF Bridge!Dicts

\* Looking for the job directory changes nothing but the run's place.
LEMMA CheckDirectoryKeeps ==
  ASSUME BridgeIInv, NEW b \in Bridges, Bridge!CheckDirectory(b)
  PROVE  BridgeIInv'
<1>. USE BridgeAssumption
        DEF Bridge!ZcodeBridgeAssumption, Bridge!CheckDirectory, BridgeIInv, Bridge!At,
            Bridge!Goto, Bridge!Answer, Bridge!files, Bridge!cliVars
<1>1. Bridge!TypeOK'
  BY SMTT(30) DEF Bridge!TypeOK, Bridge!Dicts, Bridge!Written, Bridge!ExitCodes, Bridge!Calls,
         Bridge!Ended
<1>2. \A o \in Bridges : RunSound(o)'
  BY DEF Bridge!TypeOK, Bridge!Dicts, Bridge!ExitCodes, Bridge!Calls, RunSound,
         Bridge!Ended, Bridge!NewBridge
<1>3. FilesSound'
  BY DEF Bridge!TypeOK, Bridge!Dicts, Bridge!Written, Bridge!ExitCodes, Bridge!Calls,
         RunSound, FilesSound, Bridge!Ended
<1>4. \A c \in Bridge!Calls : CallSound(c)'
  BY DEF Bridge!TypeOK, Bridge!Dicts, Bridge!Written, Bridge!ExitCodes, Bridge!Calls,
         RunSound, FilesSound, CallSound, Bridge!Ended
<1>. QED  BY <1>1, <1>2, <1>3, <1>4

\* The exclusive creation of the claim succeeds for one run only.
LEMMA ClaimKeeps == ASSUME BridgeIInv, NEW b \in Bridges, Bridge!Claim(b) PROVE BridgeIInv'
<1>. USE BridgeAssumption
        DEF Bridge!ZcodeBridgeAssumption, Bridge!Claim, BridgeIInv, Bridge!At, Bridge!Goto,
            Bridge!Answer, Bridge!files, Bridge!cliVars
<1>1. Bridge!TypeOK'
  BY DEF Bridge!TypeOK, Bridge!Dicts, Bridge!Written, Bridge!ExitCodes, Bridge!Calls,
         Bridge!Ended
<1>2. \A o \in Bridges : RunSound(o)'
  BY DEF Bridge!TypeOK, Bridge!Dicts, Bridge!ExitCodes, Bridge!Calls, RunSound,
         Bridge!Ended, Bridge!NewBridge
<1>3. FilesSound'
  BY DEF Bridge!TypeOK, Bridge!Dicts, Bridge!Written, Bridge!ExitCodes, Bridge!Calls,
         RunSound, FilesSound, Bridge!Ended
<1>4. \A c \in Bridge!Calls : CallSound(c)'
  BY DEF Bridge!TypeOK, Bridge!Dicts, Bridge!Written, Bridge!ExitCodes, Bridge!Calls,
         RunSound, FilesSound, CallSound, Bridge!Ended
<1>. QED  BY <1>1, <1>2, <1>3, <1>4

\* The run writes its job before it has a CLI.
LEMMA RecordJobKeeps ==
  ASSUME BridgeIInv, NEW b \in Bridges, Bridge!RecordJob(b)
  PROVE  BridgeIInv'
<1>. USE BridgeAssumption
        DEF Bridge!ZcodeBridgeAssumption, Bridge!RecordJob, BridgeIInv, Bridge!At,
            Bridge!Goto, Bridge!Answer, Bridge!files, Bridge!cliVars
<1>1. Bridge!TypeOK'
  <2>1. /\ pc' \in [Bridge!Calls -> {"idle", "claim", "record", "spawn", "announce",
             "wait", "term",
                              "grace", "reap", "finish", "judge", "bridge", "answered", "dead"}]
        /\ handoff' \in [Bridge!Calls -> {Nothing, "VALID", "INVALID"}]
        /\ \A c \in Bridge!Calls : handoff'[c] # Nothing <=> pc'[c] = "answered"
    BY DEF Bridge!TypeOK, Bridge!Calls
  <2>2. rec' \in [Bridges -> Bridge!Dicts]
    BY DEF Bridge!TypeOK, Bridge!Dicts
  <2>3. bridge' \in [by : Bridges, dict : Bridge!Dicts] \cup {Nothing}
    BY DEF Bridge!TypeOK
  <2>4. /\ cli' \in [Bridges -> {"none", "running"} \cup Bridge!ExitCodes]
        /\ sent' \in [Bridges -> {"none", "TERM", "KILL"}]
    BY DEF Bridge!TypeOK
  <2>. QED  BY <2>1, <2>2, <2>3, <2>4
               DEF Bridge!TypeOK, Bridge!Dicts, Bridge!Written, Bridge!Ended
<1>2. \A o \in Bridges : RunSound(o)'
  BY DEF Bridge!TypeOK, Bridge!Dicts, Bridge!ExitCodes, Bridge!Calls, RunSound,
         Bridge!Ended, Bridge!NewBridge
<1>3. FilesSound'
  BY DEF Bridge!TypeOK, Bridge!Dicts, Bridge!Written, Bridge!ExitCodes, Bridge!Calls,
         RunSound, FilesSound, Bridge!Ended
<1>4. \A c \in Bridge!Calls : CallSound(c)'
  BY DEF Bridge!TypeOK, Bridge!Dicts, Bridge!Written, Bridge!ExitCodes, Bridge!Calls,
         RunSound, FilesSound, CallSound, Bridge!Ended
<1>. QED  BY <1>1, <1>2, <1>3, <1>4

\* Only the run with the claim starts a CLI.
LEMMA StartCliKeeps ==
  ASSUME BridgeIInv, NEW b \in Bridges, Bridge!StartCli(b)
  PROVE  BridgeIInv'
<1>. USE BridgeAssumption
        DEF Bridge!ZcodeBridgeAssumption, Bridge!StartCli, BridgeIInv, Bridge!At,
            Bridge!Goto, Bridge!Answer, Bridge!files, Bridge!cliVars
<1>1. Bridge!TypeOK'
  <2>1. /\ pc' \in [Bridge!Calls -> {"idle", "claim", "record", "spawn", "announce",
             "wait", "term",
                              "grace", "reap", "finish", "judge", "bridge", "answered", "dead"}]
        /\ handoff' \in [Bridge!Calls -> {Nothing, "VALID", "INVALID"}]
        /\ \A c \in Bridge!Calls : handoff'[c] # Nothing <=> pc'[c] = "answered"
    BY DEF Bridge!TypeOK, Bridge!Calls
  <2>2. rec' \in [Bridges -> Bridge!Dicts]
    <3>1. rec \in [Bridges -> Bridge!Dicts]
      BY DEF Bridge!TypeOK
    <3>. QED  BY <3>1, DictUpdates, ZenonT(40)
  <2>3. bridge' \in [by : Bridges, dict : Bridge!Dicts] \cup {Nothing}
    BY DEF Bridge!TypeOK
  <2>4. /\ cli' \in [Bridges -> {"none", "running"} \cup Bridge!ExitCodes]
        /\ sent' \in [Bridges -> {"none", "TERM", "KILL"}]
    BY DEF Bridge!TypeOK
  <2>. QED  BY <2>1, <2>2, <2>3, <2>4
               DEF Bridge!TypeOK, Bridge!Dicts, Bridge!Written, Bridge!Ended
<1>2. \A o \in Bridges : RunSound(o)'
  BY DEF Bridge!TypeOK, Bridge!Dicts, Bridge!ExitCodes, Bridge!Calls, RunSound,
         Bridge!Ended, Bridge!NewBridge
<1>3. FilesSound'
  BY DEF Bridge!TypeOK, Bridge!Dicts, Bridge!Written, Bridge!ExitCodes, Bridge!Calls,
         RunSound, FilesSound, Bridge!Ended
<1>4. \A c \in Bridge!Calls : CallSound(c)'
  BY DEF Bridge!TypeOK, Bridge!Dicts, Bridge!Written, Bridge!ExitCodes, Bridge!Calls,
         RunSound, FilesSound, CallSound, Bridge!Ended
<1>. QED  BY <1>1, <1>2, <1>3, <1>4

\* The pid is recorded, or its recording fails and the CLI is left running.
LEMMA RecordPidKeeps ==
  ASSUME BridgeIInv, NEW b \in Bridges, Bridge!RecordPid(b)
  PROVE  BridgeIInv'
<1>. USE BridgeAssumption
        DEF Bridge!ZcodeBridgeAssumption, Bridge!RecordPid, BridgeIInv, Bridge!At,
            Bridge!Goto, Bridge!Answer, Bridge!files, Bridge!cliVars
<1>1. Bridge!TypeOK'
  <2>1. /\ pc' \in [Bridge!Calls -> {"idle", "claim", "record", "spawn", "announce",
             "wait", "term",
                              "grace", "reap", "finish", "judge", "bridge", "answered", "dead"}]
        /\ handoff' \in [Bridge!Calls -> {Nothing, "VALID", "INVALID"}]
        /\ \A c \in Bridge!Calls : handoff'[c] # Nothing <=> pc'[c] = "answered"
    BY DEF Bridge!TypeOK, Bridge!Calls
  <2>2. rec' \in [Bridges -> Bridge!Dicts]
    <3>1. rec \in [Bridges -> Bridge!Dicts]
      BY DEF Bridge!TypeOK
    <3>. QED  BY <3>1, DictUpdates, ZenonT(40)
  <2>3. bridge' \in [by : Bridges, dict : Bridge!Dicts] \cup {Nothing}
    BY DEF Bridge!TypeOK
  <2>4. /\ cli' \in [Bridges -> {"none", "running"} \cup Bridge!ExitCodes]
        /\ sent' \in [Bridges -> {"none", "TERM", "KILL"}]
    BY DEF Bridge!TypeOK
  <2>. QED  BY <2>1, <2>2, <2>3, <2>4
               DEF Bridge!TypeOK, Bridge!Dicts, Bridge!Written, Bridge!Ended
<1>2. \A o \in Bridges : RunSound(o)'
  BY DEF Bridge!TypeOK, Bridge!Dicts, Bridge!ExitCodes, Bridge!Calls, RunSound,
         Bridge!Ended, Bridge!NewBridge
<1>3. FilesSound'
  BY DEF Bridge!TypeOK, Bridge!Dicts, Bridge!Written, Bridge!ExitCodes, Bridge!Calls,
         RunSound, FilesSound, Bridge!Ended
<1>4. \A c \in Bridge!Calls : CallSound(c)'
  BY DEF Bridge!TypeOK, Bridge!Dicts, Bridge!Written, Bridge!ExitCodes, Bridge!Calls,
         RunSound, FilesSound, CallSound, Bridge!Ended
<1>. QED  BY <1>1, <1>2, <1>3, <1>4

\* The wait ends with the exit code of the CLI, with a timeout or with an error.
LEMMA WaitForCliKeeps ==
  ASSUME BridgeIInv, NEW b \in Bridges, Bridge!WaitForCli(b)
  PROVE  BridgeIInv'
<1>. USE BridgeAssumption
        DEF Bridge!ZcodeBridgeAssumption, Bridge!WaitForCli, BridgeIInv, Bridge!At,
            Bridge!Goto, Bridge!Answer, Bridge!files, Bridge!cliVars
<1>1. Bridge!TypeOK'
  <2>1. /\ pc' \in [Bridge!Calls -> {"idle", "claim", "record", "spawn", "announce",
             "wait", "term",
                              "grace", "reap", "finish", "judge", "bridge", "answered", "dead"}]
        /\ handoff' \in [Bridge!Calls -> {Nothing, "VALID", "INVALID"}]
        /\ \A c \in Bridge!Calls : handoff'[c] # Nothing <=> pc'[c] = "answered"
    BY DEF Bridge!TypeOK, Bridge!Calls
  <2>2. rec' \in [Bridges -> Bridge!Dicts]
    <3>1. rec \in [Bridges -> Bridge!Dicts]
      BY DEF Bridge!TypeOK
    <3>2. rec[b] \in Bridge!Dicts /\ (cli[b] \in Bridge!ExitCodes => [rec[b] EXCEPT !.exit = cli[b]] \in Bridge!Dicts)
                           /\ [rec[b] EXCEPT !.timed_out = TRUE] \in Bridge!Dicts
      BY <3>1, DictUpdates
    <3>. QED  BY <3>1, <3>2
  <2>3. bridge' \in [by : Bridges, dict : Bridge!Dicts] \cup {Nothing}
    BY DEF Bridge!TypeOK
  <2>4. /\ cli' \in [Bridges -> {"none", "running"} \cup Bridge!ExitCodes]
        /\ sent' \in [Bridges -> {"none", "TERM", "KILL"}]
    BY DEF Bridge!TypeOK
  <2>. QED  BY <2>1, <2>2, <2>3, <2>4
               DEF Bridge!TypeOK, Bridge!Dicts, Bridge!Written, Bridge!Ended
<1>2. \A o \in Bridges : RunSound(o)'
  BY DEF Bridge!TypeOK, Bridge!Dicts, Bridge!ExitCodes, Bridge!Calls, RunSound,
         Bridge!Ended, Bridge!NewBridge
<1>3. FilesSound'
  BY DEF Bridge!TypeOK, Bridge!Dicts, Bridge!Written, Bridge!ExitCodes, Bridge!Calls,
         RunSound, FilesSound, Bridge!Ended
<1>4. \A c \in Bridge!Calls : CallSound(c)'
  BY DEF Bridge!TypeOK, Bridge!Dicts, Bridge!Written, Bridge!ExitCodes, Bridge!Calls,
         RunSound, FilesSound, CallSound, Bridge!Ended
<1>. QED  BY <1>1, <1>2, <1>3, <1>4

\* A timed-out CLI gets its signals one after the other, until it is reaped.
LEMMA StopCliKeeps == ASSUME BridgeIInv, NEW b \in Bridges, Bridge!StopCli(b) PROVE BridgeIInv'
<1>. USE BridgeAssumption
        DEF Bridge!ZcodeBridgeAssumption, Bridge!StopCli, BridgeIInv, Bridge!At,
            Bridge!Goto, Bridge!Answer, Bridge!files, Bridge!cliVars
<1>1. Bridge!TypeOK'
  <2>1. /\ pc' \in [Bridge!Calls -> {"idle", "claim", "record", "spawn", "announce",
             "wait", "term",
                              "grace", "reap", "finish", "judge", "bridge", "answered", "dead"}]
        /\ handoff' \in [Bridge!Calls -> {Nothing, "VALID", "INVALID"}]
        /\ \A c \in Bridge!Calls : handoff'[c] # Nothing <=> pc'[c] = "answered"
    BY DEF Bridge!TypeOK, Bridge!Calls
  <2>2. rec' \in [Bridges -> Bridge!Dicts]
    BY DEF Bridge!TypeOK, Bridge!Dicts
  <2>3. bridge' \in [by : Bridges, dict : Bridge!Dicts] \cup {Nothing}
    BY DEF Bridge!TypeOK
  <2>4. /\ cli' \in [Bridges -> {"none", "running"} \cup Bridge!ExitCodes]
        /\ sent' \in [Bridges -> {"none", "TERM", "KILL"}]
    BY DEF Bridge!TypeOK
  <2>. QED  BY <2>1, <2>2, <2>3, <2>4
               DEF Bridge!TypeOK, Bridge!Dicts, Bridge!Written, Bridge!Ended
<1>2. \A o \in Bridges : RunSound(o)'
  BY DEF Bridge!TypeOK, Bridge!Dicts, Bridge!ExitCodes, Bridge!Calls, RunSound,
         Bridge!Ended, Bridge!NewBridge
<1>3. FilesSound'
  BY DEF Bridge!TypeOK, Bridge!Dicts, Bridge!Written, Bridge!ExitCodes, Bridge!Calls,
         RunSound, FilesSound, Bridge!Ended
<1>4. \A c \in Bridge!Calls : CallSound(c)'
  BY DEF Bridge!TypeOK, Bridge!Dicts, Bridge!Written, Bridge!ExitCodes, Bridge!Calls,
         RunSound, FilesSound, CallSound, Bridge!Ended
<1>. QED  BY <1>1, <1>2, <1>3, <1>4

\* The record of the finished run replaces bridge.json.
LEMMA RecordFinishedKeeps ==
  ASSUME BridgeIInv, NEW b \in Bridges, Bridge!RecordFinished(b)
  PROVE  BridgeIInv'
<1>. USE BridgeAssumption
        DEF Bridge!ZcodeBridgeAssumption, Bridge!RecordFinished, BridgeIInv, Bridge!At,
            Bridge!Goto, Bridge!Answer, Bridge!files, Bridge!cliVars
<1>1. Bridge!TypeOK'
  <2>1. /\ pc' \in [Bridge!Calls -> {"idle", "claim", "record", "spawn", "announce",
             "wait", "term",
                              "grace", "reap", "finish", "judge", "bridge", "answered", "dead"}]
        /\ handoff' \in [Bridge!Calls -> {Nothing, "VALID", "INVALID"}]
        /\ \A c \in Bridge!Calls : handoff'[c] # Nothing <=> pc'[c] = "answered"
    BY DEF Bridge!TypeOK, Bridge!Calls
  <2>2. rec' \in [Bridges -> Bridge!Dicts]
    BY DEF Bridge!TypeOK, Bridge!Dicts
  <2>3. bridge' \in [by : Bridges, dict : Bridge!Dicts] \cup {Nothing}
    BY DEF Bridge!TypeOK
  <2>4. /\ cli' \in [Bridges -> {"none", "running"} \cup Bridge!ExitCodes]
        /\ sent' \in [Bridges -> {"none", "TERM", "KILL"}]
    BY DEF Bridge!TypeOK
  <2>. QED  BY <2>1, <2>2, <2>3, <2>4
               DEF Bridge!TypeOK, Bridge!Dicts, Bridge!Written, Bridge!Ended
<1>2. \A o \in Bridges : RunSound(o)'
  BY DEF Bridge!TypeOK, Bridge!Dicts, Bridge!ExitCodes, Bridge!Calls, RunSound,
         Bridge!Ended, Bridge!NewBridge
<1>3. FilesSound'
  BY DEF Bridge!TypeOK, Bridge!Dicts, Bridge!Written, Bridge!ExitCodes, Bridge!Calls,
         RunSound, FilesSound, Bridge!Ended
<1>4. \A c \in Bridge!Calls : CallSound(c)'
  BY DEF Bridge!TypeOK, Bridge!Dicts, Bridge!Written, Bridge!ExitCodes, Bridge!Calls,
         RunSound, FilesSound, CallSound, Bridge!Ended
<1>. QED  BY <1>1, <1>2, <1>3, <1>4

\* The run's answer is VALID only for a clean exit and a valid result.
LEMMA JudgeRunKeeps ==
  ASSUME BridgeIInv, NEW b \in Bridges, Bridge!JudgeRun(b)
  PROVE  BridgeIInv'
<1>. USE BridgeAssumption
        DEF Bridge!ZcodeBridgeAssumption, Bridge!JudgeRun, BridgeIInv, Bridge!At,
            Bridge!Goto, Bridge!Answer, Bridge!files, Bridge!cliVars
<1>1. Bridge!TypeOK'
  BY DEF Bridge!TypeOK, Bridge!Dicts, Bridge!Written, Bridge!ExitCodes, Bridge!Calls,
         Bridge!Ended
<1>2. \A o \in Bridges : RunSound(o)'
  BY DEF Bridge!TypeOK, Bridge!Dicts, Bridge!ExitCodes, Bridge!Calls, RunSound,
         Bridge!Ended, Bridge!NewBridge
<1>3. FilesSound'
  BY DEF Bridge!TypeOK, Bridge!Dicts, Bridge!Written, Bridge!ExitCodes, Bridge!Calls,
         RunSound, FilesSound, Bridge!Ended
<1>4. \A c \in Bridge!Calls : CallSound(c)'
  <2>1. ASSUME NEW c \in Bridge!Calls, c # b PROVE CallSound(c)'
    BY <2>1 DEF Bridge!TypeOK, Bridge!Calls, CallSound, Bridge!Valid, Bridge!Accepts
  <2>2. CallSound(b)'
    <3>1. /\ b \in Bridge!Calls /\ pc[b] = "judge" /\ claim = b
          /\ result # Nothing => cli[result.by] # "none"
          /\ pc'[b] = "answered" /\ UNCHANGED <<rec, claim, cli>>
          /\ handoff'[b] = IF Bridge!Valid(seen'[b]) THEN "VALID" ELSE "INVALID"
      BY DEF Bridge!TypeOK, Bridge!Calls, RunSound, FilesSound
    <3>2. seen'[b] = IF Bridge!CleanExit(rec[b]) THEN result ELSE Nothing
      BY <3>1 DEF Bridge!TypeOK
    <3>3. CASE Bridge!CleanExit(rec[b])
      <4>1. seen'[b] = result /\ rec'[b].exit = "zero" /\ ~rec'[b].timed_out /\ claim' = b
        BY <3>1, <3>2, <3>3 DEF Bridge!CleanExit
      <4>2. seen'[b] # Nothing => cli'[seen'[b].by] # "none"
        BY <3>1, <4>1
      <4>3. handoff'[b] = "VALID" => Bridge!Valid(seen'[b])
        BY <3>1
      <4>. QED  BY <3>1, <4>1, <4>2, <4>3 DEF CallSound, Bridge!Valid, Bridge!Accepts
    <3>4. CASE ~Bridge!CleanExit(rec[b])
      BY <3>1, <3>2, <3>4 DEF CallSound, Bridge!Valid
    <3>. QED  BY <3>3, <3>4
  <2>. QED  BY <2>1, <2>2
<1>. QED  BY <1>1, <1>2, <1>3, <1>4

\* A bridge that dies leaves its files as they are.
LEMMA CrashKeeps == ASSUME BridgeIInv, NEW b \in Bridges, Bridge!Crash(b) PROVE BridgeIInv'
<1>. USE BridgeAssumption
        DEF Bridge!ZcodeBridgeAssumption, Bridge!Crash, BridgeIInv, Bridge!At, Bridge!Goto,
            Bridge!Answer, Bridge!files, Bridge!cliVars
<1>1. Bridge!TypeOK'
  BY DEF Bridge!TypeOK, Bridge!Dicts, Bridge!Written, Bridge!ExitCodes, Bridge!Calls,
         Bridge!Ended
<1>2. \A o \in Bridges : RunSound(o)'
  BY DEF Bridge!TypeOK, Bridge!Dicts, Bridge!ExitCodes, Bridge!Calls, RunSound,
         Bridge!Ended, Bridge!NewBridge
<1>3. FilesSound'
  BY DEF Bridge!TypeOK, Bridge!Dicts, Bridge!Written, Bridge!ExitCodes, Bridge!Calls,
         RunSound, FilesSound, Bridge!Ended
<1>4. \A c \in Bridge!Calls : CallSound(c)'
  BY DEF Bridge!TypeOK, Bridge!Dicts, Bridge!Written, Bridge!ExitCodes, Bridge!Calls,
         RunSound, FilesSound, CallSound, Bridge!Ended
<1>. QED  BY <1>1, <1>2, <1>3, <1>4

\* A CLI that has been started, or what outlives it, writes the result.
LEMMA WriteResultKeeps ==
  ASSUME BridgeIInv, NEW b \in Bridges, Bridge!WriteResult(b)
  PROVE  BridgeIInv'
<1>. USE BridgeAssumption
        DEF Bridge!ZcodeBridgeAssumption, Bridge!WriteResult, BridgeIInv, Bridge!At,
            Bridge!Goto, Bridge!Answer, Bridge!files, Bridge!cliVars
<1>1. Bridge!TypeOK'
  BY DEF Bridge!TypeOK, Bridge!Dicts, Bridge!Written, Bridge!ExitCodes, Bridge!Calls,
         Bridge!Ended
<1>2. \A o \in Bridges : RunSound(o)'
  BY DEF Bridge!TypeOK, Bridge!Dicts, Bridge!ExitCodes, Bridge!Calls, RunSound,
         Bridge!Ended, Bridge!NewBridge
<1>3. FilesSound'
  BY DEF Bridge!TypeOK, Bridge!Dicts, Bridge!Written, Bridge!ExitCodes, Bridge!Calls,
         RunSound, FilesSound, Bridge!Ended
<1>4. \A c \in Bridge!Calls : CallSound(c)'
  BY DEF Bridge!TypeOK, Bridge!Dicts, Bridge!Written, Bridge!ExitCodes, Bridge!Calls,
         RunSound, FilesSound, CallSound, Bridge!Ended
<1>. QED  BY <1>1, <1>2, <1>3, <1>4

\* A CLI may exit by itself at any time.
LEMMA CliExitsKeeps ==
  ASSUME BridgeIInv, NEW b \in Bridges, Bridge!CliExits(b)
  PROVE  BridgeIInv'
<1>. USE BridgeAssumption
        DEF Bridge!ZcodeBridgeAssumption, Bridge!CliExits, BridgeIInv, Bridge!At,
            Bridge!Goto, Bridge!Answer, Bridge!files, Bridge!cliVars
<1>1. Bridge!TypeOK'
  BY DEF Bridge!TypeOK, Bridge!Dicts, Bridge!Written, Bridge!ExitCodes, Bridge!Calls,
         Bridge!Ended
<1>2. \A o \in Bridges : RunSound(o)'
  BY DEF Bridge!TypeOK, Bridge!Dicts, Bridge!ExitCodes, Bridge!Calls, RunSound,
         Bridge!Ended, Bridge!NewBridge
<1>3. FilesSound'
  BY DEF Bridge!TypeOK, Bridge!Dicts, Bridge!Written, Bridge!ExitCodes, Bridge!Calls,
         RunSound, FilesSound, Bridge!Ended
<1>4. \A c \in Bridge!Calls : CallSound(c)'
  BY DEF Bridge!TypeOK, Bridge!Dicts, Bridge!Written, Bridge!ExitCodes, Bridge!Calls,
         RunSound, FilesSound, CallSound, Bridge!Ended
<1>. QED  BY <1>1, <1>2, <1>3, <1>4

\* A CLI that was sent a signal may die of it.
LEMMA CliKilledKeeps ==
  ASSUME BridgeIInv, NEW b \in Bridges, Bridge!CliKilled(b)
  PROVE  BridgeIInv'
<1>. USE BridgeAssumption
        DEF Bridge!ZcodeBridgeAssumption, Bridge!CliKilled, BridgeIInv, Bridge!At,
            Bridge!Goto, Bridge!Answer, Bridge!files, Bridge!cliVars
<1>1. Bridge!TypeOK'
  BY DEF Bridge!TypeOK, Bridge!Dicts, Bridge!Written, Bridge!ExitCodes, Bridge!Calls,
         Bridge!Ended
<1>2. \A o \in Bridges : RunSound(o)'
  BY DEF Bridge!TypeOK, Bridge!Dicts, Bridge!ExitCodes, Bridge!Calls, RunSound,
         Bridge!Ended, Bridge!NewBridge
<1>3. FilesSound'
  BY DEF Bridge!TypeOK, Bridge!Dicts, Bridge!Written, Bridge!ExitCodes, Bridge!Calls,
         RunSound, FilesSound, Bridge!Ended
<1>4. \A c \in Bridge!Calls : CallSound(c)'
  BY DEF Bridge!TypeOK, Bridge!Dicts, Bridge!Written, Bridge!ExitCodes, Bridge!Calls,
         RunSound, FilesSound, CallSound, Bridge!Ended
<1>. QED  BY <1>1, <1>2, <1>3, <1>4

\* A timeout that passes changes nothing else.
LEMMA TimeoutPassesKeeps ==
  ASSUME BridgeIInv, NEW b \in Bridges, Bridge!TimeoutPasses(b)
  PROVE  BridgeIInv'
<1>. USE BridgeAssumption
        DEF Bridge!ZcodeBridgeAssumption, Bridge!TimeoutPasses, BridgeIInv, Bridge!At,
            Bridge!Goto, Bridge!Answer, Bridge!files, Bridge!cliVars
<1>1. Bridge!TypeOK'
  BY DEF Bridge!TypeOK, Bridge!Dicts, Bridge!Written, Bridge!ExitCodes, Bridge!Calls,
         Bridge!Ended
<1>2. \A o \in Bridges : RunSound(o)'
  BY DEF Bridge!TypeOK, Bridge!Dicts, Bridge!ExitCodes, Bridge!Calls, RunSound,
         Bridge!Ended, Bridge!NewBridge
<1>3. FilesSound'
  BY DEF Bridge!TypeOK, Bridge!Dicts, Bridge!Written, Bridge!ExitCodes, Bridge!Calls,
         RunSound, FilesSound, Bridge!Ended
<1>4. \A c \in Bridge!Calls : CallSound(c)'
  BY DEF Bridge!TypeOK, Bridge!Dicts, Bridge!Written, Bridge!ExitCodes, Bridge!Calls,
         RunSound, FilesSound, CallSound, Bridge!Ended
<1>. QED  BY <1>1, <1>2, <1>3, <1>4

\* A validator reads the result first.
LEMMA ReadResultKeeps ==
  ASSUME BridgeIInv, NEW v \in Validators, Bridge!ReadResult(v)
  PROVE  BridgeIInv'
<1>. USE BridgeAssumption
        DEF Bridge!ZcodeBridgeAssumption, Bridge!ReadResult, BridgeIInv, Bridge!At,
            Bridge!Goto, Bridge!Answer, Bridge!files, Bridge!cliVars
<1>1. Bridge!TypeOK'
  BY DEF Bridge!TypeOK, Bridge!Calls
<1>2. \A o \in Bridges : RunSound(o)'
  BY DEF Bridge!TypeOK, Bridge!Calls, RunSound
<1>3. FilesSound'
  BY DEF Bridge!TypeOK, Bridge!Calls, RunSound, FilesSound
<1>4. \A c \in Bridge!Calls : CallSound(c)'
  BY DEF Bridge!TypeOK, Bridge!Calls, FilesSound, CallSound
<1>. QED  BY <1>1, <1>2, <1>3, <1>4

\* Then it reads the record, and says VALID only of a clean exit in it.
LEMMA ReadBridgeKeeps ==
  ASSUME BridgeIInv, NEW v \in Validators, Bridge!ReadBridge(v)
  PROVE  BridgeIInv'
<1>. USE BridgeAssumption
        DEF Bridge!ZcodeBridgeAssumption, Bridge!ReadBridge, BridgeIInv, Bridge!At,
            Bridge!Goto, Bridge!Answer, Bridge!files, Bridge!cliVars
<1>1. Bridge!TypeOK'
  BY DEF Bridge!TypeOK, Bridge!Calls
<1>2. \A o \in Bridges : RunSound(o)'
  BY DEF Bridge!TypeOK, Bridge!Calls, RunSound
<1>3. FilesSound'
  BY DEF Bridge!TypeOK, Bridge!Calls, RunSound, FilesSound
<1>4. \A c \in Bridge!Calls : CallSound(c)'
  BY DEF Bridge!TypeOK, Bridge!Calls, Bridge!ExitCodes, FilesSound, CallSound,
         Bridge!CleanExit
<1>. QED  BY <1>1, <1>2, <1>3, <1>4

\* Every step of the bridge keeps its invariant.
LEMMA BridgeKeeps == ASSUME BridgeIInv, [Bridge!Next]_(Bridge!vars) PROVE BridgeIInv'
<1>1. CASE UNCHANGED Bridge!vars
  BY <1>1
     DEF Bridge!vars, Bridge!files, Bridge!cliVars, BridgeIInv, Bridge!TypeOK, RunSound,
         FilesSound, CallSound, Bridge!Valid, Bridge!Accepts
<1>2. CASE Bridge!Next
  BY <1>2, CheckDirectoryKeeps, ClaimKeeps, RecordJobKeeps, StartCliKeeps, RecordPidKeeps,
     WaitForCliKeeps, StopCliKeeps, RecordFinishedKeeps, JudgeRunKeeps, CrashKeeps,
     WriteResultKeeps, CliExitsKeeps, CliKilledKeeps, TimeoutPassesKeeps, ReadResultKeeps,
     ReadBridgeKeeps DEF Bridge!Next, Bridge!BridgeStep
<1>. QED  BY <1>1, <1>2

\* What the bridge promises follows from its invariant.
LEMMA BridgeFollows ==
  BridgeIInv => Bridge!OneCli /\ Bridge!ValidMeansCleanExit /\ Bridge!AnsweredMeansStopped
<1>. SUFFICES ASSUME BridgeIInv
              PROVE  Bridge!OneCli /\ Bridge!ValidMeansCleanExit /\ Bridge!AnsweredMeansStopped
  OBVIOUS
<1>1. Bridge!OneCli
  BY DEF BridgeIInv, RunSound, Bridge!OneCli
<1>2. Bridge!AnsweredMeansStopped
  BY DEF BridgeIInv, RunSound, Bridge!AnsweredMeansStopped, Bridge!At
<1>3. ASSUME NEW c \in Bridge!Calls, handoff[c] = "VALID"
      PROVE  /\ Bridge!Valid(seen[c]) /\ seen[c].by = claim
             /\ cli[claim] = "zero" /\ sent[claim] = "none"
  <2>1. /\ Bridge!Valid(seen[c]) /\ claim \in Bridges /\ rec[claim].exit = "zero"
        /\ ~rec[claim].timed_out /\ cli[seen[c].by] # "none" /\ seen[c] # Nothing
    BY <1>3 DEF BridgeIInv, CallSound, Bridge!Valid
  <2>2. cli[claim] = "zero" /\ sent[claim] = "none"
    BY <2>1, BridgeAssumption
       DEF Bridge!ZcodeBridgeAssumption, BridgeIInv, RunSound, Bridge!ExitCodes
  <2>3. seen[c].by \in Bridges
    BY <2>1 DEF BridgeIInv, Bridge!TypeOK, Bridge!Written
  <2>. QED  BY <2>1, <2>2, <2>3 DEF BridgeIInv, RunSound
<1>. QED  BY <1>1, <1>2, <1>3 DEF Bridge!ValidMeansCleanExit

-----------------------------------------------------------------------------
(* The benchmark *)
(* The phase at hand has succeeded, from its own log, and been accepted.   *)
PhaseEarned ==
  /\ step \in {"after", "rate", "details", "csv", "fill", "jsonl"} =>
       recorded[phase] = "succeeded" /\ parsed = Bench!Here
  /\ step \in {"csv", "fill", "jsonl"} => phase \in accepted

(* What the counters have gained has been served, restarts or not.         *)
GainServed(count, since) ==
  count.queries - since.queries <= served.queries /\ count.hits - since.hits <= served.hits

\* Between the snapshots of a phase, the counters of one service gain what it served.
CountersSound ==
  /\ step \in {"execute", "command", "after"} => GainServed(counters, before)
  /\ step \in {"rate", "details", "csv", "fill", "jsonl"} => GainServed(after, before)
  /\ step \in {"details", "csv", "fill", "jsonl"} => Bench!ValidDelta

(* The rows of the JSONL file are in the CSV file or about to go there.    *)
RowsKept ==
  /\ csv.state = "absent" => jsonl = <<>> /\ csv.rows = <<>>
  /\ csv.state = "rows" => Bench!Elements(jsonl) \subseteq Bench!Elements(csv.rows)
  /\ step = "fill" => Bench!Elements(jsonl) \subseteq Bench!Elements(existing)
  /\ step = "jsonl" => csv.state = "rows" /\ Bench!Here \in Bench!Elements(csv.rows)

\* The phases before the one at hand, in the order of the invocation.
Earlier(r, p) == r < round \/ (r = round /\ phase = "full" /\ p = "warmup")

\* The phases that are over have their rows, or the invocation has failed.
PhasesDone ==
  /\ Bench!Running => code = "none" /\ round \in 1..rounds
  /\ Bench!Running => \A r \in 1..rounds, p \in Bench!Phases :
                  Earlier(r, p) => <<invocation, r, p>> \in Bench!Elements(jsonl)
  /\ code = "zero" => /\ step = "idle" /\ csv.state = "rows"
                      /\ \A r \in 1..rounds, p \in Bench!Phases : <<invocation, r,
                           p>> \in Bench!Elements(jsonl)

\* The inductive invariant of the benchmark.
BenchIInv == Bench!TypeOK /\ PhaseEarned /\ CountersSound /\ RowsKept /\ PhasesDone

\* The elements of a sequence with one more at its end.
LEMMA ElementsOfAppend ==
  ASSUME NEW S, NEW s \in Seq(S), NEW e \in S
  PROVE  /\ Append(s, e) \in Seq(S) /\ Len(Append(s, e)) = Len(s) + 1
         /\ Bench!Elements(Append(s, e)) = Bench!Elements(s) \cup {e}
<1>1. /\ Append(s, e) \in Seq(S) /\ Len(Append(s, e)) = Len(s) + 1 /\ Len(s) \in Nat
      /\ DOMAIN s = 1..Len(s) /\ DOMAIN Append(s, e) = 1..(Len(s) + 1)
      /\ \A i \in 1..Len(s) : Append(s, e)[i] = s[i]
      /\ Append(s, e)[Len(s) + 1] = e
  OBVIOUS
<1>2. \A i \in 1..(Len(s) + 1) : i \in 1..Len(s) \/ i = Len(s) + 1
  BY <1>1
<1>3. Bench!Elements(Append(s, e)) \subseteq Bench!Elements(s) \cup {e}
  BY <1>1, <1>2 DEF Bench!Elements
<1>4. Bench!Elements(s) \cup {e} \subseteq Bench!Elements(Append(s, e))
  BY <1>1 DEF Bench!Elements
<1>. QED  BY <1>1, <1>3, <1>4

\* The empty sequence has no elements.
LEMMA NoElements == Bench!Elements(<<>>) = {}
BY DEF Bench!Elements

\* The invariant holds before the first invocation.
LEMMA BenchInit == Bench!Init => BenchIInv
<1>. SUFFICES ASSUME Bench!Init PROVE BenchIInv
  OBVIOUS
<1>. USE BenchAssumption
        DEF Bench!PrefixBenchAssumption, Bench!Init, Bench!Zero, Bench!NoRecords
<1>1. Bench!TypeOK
  BY DEF Bench!TypeOK, Bench!Here, Bench!Positions, Bench!Counts, Bench!Phases
<1>2. PhaseEarned /\ CountersSound
  BY DEF PhaseEarned, CountersSound
<1>3. RowsKept /\ PhasesDone
  BY DEF RowsKept, PhasesDone, Bench!Elements, Bench!Running
<1>. QED  BY <1>1, <1>2, <1>3 DEF BenchIInv

\* An invocation begins with no phase of its own.
LEMMA InvokeKeeps == ASSUME BenchIInv, Bench!Invoke PROVE BenchIInv'
<1>. USE BenchAssumption
        DEF Bench!PrefixBenchAssumption, BenchIInv, Bench!Invoke, Bench!position,
            Bench!service, Bench!snapshots, Bench!results
<1>1. Bench!TypeOK'
  <2>1. invocation \in 0..MaxInvocations
    BY DEF Bench!TypeOK, Bench!Here, Bench!Positions
  <2>2. invocation' \in 0..MaxInvocations /\ 1 \in 0..MaxRounds /\ "warmup" \in Bench!Phases
    BY <2>1 DEF Bench!Phases
  <2>3. Bench!Here' \in Bench!Positions'
    BY <2>2 DEF Bench!Here, Bench!Positions, Bench!Phases
  <2>4. /\ recorded' \in [Bench!Phases -> {"none", "running", "succeeded", "failed"}]
        /\ accepted' \subseteq Bench!Phases
    BY DEF Bench!TypeOK, Bench!NoRecords
  <2>5. rounds' \in 1..MaxRounds /\ round' <= rounds'
    OBVIOUS
  <2>6. /\ Bench!Positions' = Bench!Positions
        /\ Bench!Counts' = Bench!Counts
        /\ Bench!Phases' = Bench!Phases
    BY DEF Bench!Positions, Bench!Counts, Bench!Phases
  <2>. QED  BY <2>3, <2>4, <2>5, <2>6 DEF Bench!TypeOK
<1>2. PhaseEarned'
  BY DEF PhaseEarned, Bench!TypeOK, Bench!Here, Bench!Phases
<1>3. CountersSound'
  BY DEF CountersSound, GainServed, Bench!ValidDelta, Bench!Delta, Bench!TypeOK,
         Bench!Counts, Bench!Zero
<1>4. RowsKept'
  BY DEF RowsKept, Bench!TypeOK, Bench!Here
<1>5. PhasesDone'
  BY DEF PhasesDone, Bench!Running, Earlier, RowsKept, Bench!TypeOK, Bench!Here,
         Bench!Phases
<1>. QED  BY <1>1, <1>2, <1>3, <1>4, <1>5

\* The first snapshot starts the account of what is served.
LEMMA SnapshotBeforeKeeps == ASSUME BenchIInv, Bench!SnapshotBefore PROVE BenchIInv'
<1>. USE BenchAssumption
        DEF Bench!PrefixBenchAssumption, BenchIInv, Bench!SnapshotBefore, Bench!position,
            Bench!service, Bench!snapshots, Bench!results
<1>1. Bench!TypeOK'
  BY DEF Bench!TypeOK, Bench!Here, Bench!Positions, Bench!Counts, Bench!Phases, Bench!Zero,
         Bench!NoRecords
<1>2. PhaseEarned'
  BY DEF PhaseEarned, Bench!TypeOK, Bench!Here, Bench!Phases
<1>3. CountersSound'
  BY DEF CountersSound, GainServed, Bench!ValidDelta, Bench!Delta, Bench!TypeOK,
         Bench!Counts, Bench!Zero
<1>4. RowsKept'
  BY DEF RowsKept, Bench!TypeOK, Bench!Here
<1>5. PhasesDone'
  BY DEF PhasesDone, Bench!Running, Earlier, RowsKept, Bench!TypeOK, Bench!Here,
         Bench!Phases
<1>. QED  BY <1>1, <1>2, <1>3, <1>4, <1>5

\* A phase is begun, or refused because its artifacts are there.
LEMMA BeginPhaseKeeps == ASSUME BenchIInv, Bench!BeginPhase PROVE BenchIInv'
<1>. USE BenchAssumption
        DEF Bench!PrefixBenchAssumption, BenchIInv, Bench!BeginPhase, Bench!Record,
            Bench!End, Bench!position, Bench!service, Bench!snapshots, Bench!results
<1>1. Bench!TypeOK'
  BY SMTT(30) DEF Bench!TypeOK, Bench!Here, Bench!Positions, Bench!Counts, Bench!Phases, Bench!Zero,
         Bench!NoRecords
<1>2. PhaseEarned'
  BY DEF PhaseEarned, Bench!TypeOK, Bench!Here, Bench!Phases
<1>3. CountersSound'
  BY DEF CountersSound, GainServed, Bench!ValidDelta, Bench!Delta, Bench!TypeOK,
         Bench!Counts, Bench!Zero
<1>4. RowsKept'
  BY DEF RowsKept, Bench!TypeOK, Bench!Here
<1>5. PhasesDone'
  BY DEF PhasesDone, Bench!Running, Earlier, RowsKept, Bench!TypeOK, Bench!Here,
         Bench!Phases
<1>. QED  BY <1>1, <1>2, <1>3, <1>4, <1>5

\* A phase ends with the record and the log of its own run.
LEMMA EndPhaseKeeps == ASSUME BenchIInv, Bench!EndPhase PROVE BenchIInv'
<1>. USE BenchAssumption
        DEF Bench!PrefixBenchAssumption, BenchIInv, Bench!EndPhase, Bench!Record, Bench!End,
            Bench!position, Bench!service, Bench!snapshots, Bench!results
<1>1. Bench!TypeOK'
  BY SMTT(30) DEF Bench!TypeOK, Bench!Here, Bench!Positions, Bench!Counts, Bench!Phases, Bench!Zero,
         Bench!NoRecords
<1>2. PhaseEarned'
  <2>1. phase \in Bench!Phases /\ DOMAIN recorded = Bench!Phases
    BY DEF Bench!TypeOK, Bench!Here, Bench!Positions
  <2>2. step' = "after"
          => recorded'[phase] = "succeeded" /\ parsed'
            = Bench!Here /\ UNCHANGED <<phase, Bench!Here>>
    BY <2>1 DEF Bench!Here
  <2>3. step' \in {"after", "idle"}
    OBVIOUS
  <2>. QED  BY <2>2, <2>3 DEF PhaseEarned
<1>3. CountersSound'
  BY DEF CountersSound, GainServed, Bench!ValidDelta, Bench!Delta, Bench!TypeOK,
         Bench!Counts, Bench!Zero
<1>4. RowsKept'
  BY DEF RowsKept, Bench!TypeOK, Bench!Here
<1>5. PhasesDone'
  BY DEF PhasesDone, Bench!Running, Earlier, RowsKept, Bench!TypeOK, Bench!Here,
         Bench!Phases
<1>. QED  BY <1>1, <1>2, <1>3, <1>4, <1>5

\* The second snapshot is of the counters at its time.
LEMMA SnapshotAfterKeeps == ASSUME BenchIInv, Bench!SnapshotAfter PROVE BenchIInv'
<1>. USE BenchAssumption
        DEF Bench!PrefixBenchAssumption, BenchIInv, Bench!SnapshotAfter, Bench!position,
            Bench!service, Bench!snapshots, Bench!results
<1>1. Bench!TypeOK'
  BY DEF Bench!TypeOK, Bench!Here, Bench!Positions, Bench!Counts, Bench!Phases, Bench!Zero,
         Bench!NoRecords
<1>2. PhaseEarned'
  BY DEF PhaseEarned, Bench!TypeOK, Bench!Here, Bench!Phases
<1>3. CountersSound'
  BY DEF CountersSound, GainServed, Bench!ValidDelta, Bench!Delta, Bench!TypeOK,
         Bench!Counts, Bench!Zero
<1>4. RowsKept'
  BY DEF RowsKept, Bench!TypeOK, Bench!Here
<1>5. PhasesDone'
  BY DEF PhasesDone, Bench!Running, Earlier, RowsKept, Bench!TypeOK, Bench!Here,
         Bench!Phases
<1>. QED  BY <1>1, <1>2, <1>3, <1>4, <1>5

\* Counters that have gone down are refused.
LEMMA ComputeHitRateKeeps == ASSUME BenchIInv, Bench!ComputeHitRate PROVE BenchIInv'
<1>. USE BenchAssumption
        DEF Bench!PrefixBenchAssumption, BenchIInv, Bench!ComputeHitRate, Bench!End,
            Bench!position, Bench!service, Bench!snapshots, Bench!results
<1>1. Bench!TypeOK'
  BY DEF Bench!TypeOK, Bench!Here, Bench!Positions, Bench!Counts, Bench!Phases, Bench!Zero,
         Bench!NoRecords
<1>2. PhaseEarned'
  BY DEF PhaseEarned, Bench!TypeOK, Bench!Here, Bench!Phases
<1>3. CountersSound'
  BY DEF CountersSound, GainServed, Bench!ValidDelta, Bench!Delta, Bench!TypeOK,
         Bench!Counts, Bench!Zero
<1>4. RowsKept'
  BY DEF RowsKept, Bench!TypeOK, Bench!Here
<1>5. PhasesDone'
  BY DEF PhasesDone, Bench!Running, Earlier, RowsKept, Bench!TypeOK, Bench!Here,
         Bench!Phases
<1>. QED  BY <1>1, <1>2, <1>3, <1>4, <1>5

\* A phase is accepted after its details have been validated.
LEMMA ValidateDetailsKeeps == ASSUME BenchIInv, Bench!ValidateDetails PROVE BenchIInv'
<1>. USE BenchAssumption
        DEF Bench!PrefixBenchAssumption, BenchIInv, Bench!ValidateDetails, Bench!End,
            Bench!position, Bench!service, Bench!snapshots, Bench!results
<1>1. Bench!TypeOK'
  BY DEF Bench!TypeOK, Bench!Here, Bench!Positions, Bench!Counts, Bench!Phases, Bench!Zero,
         Bench!NoRecords
<1>2. PhaseEarned'
  BY DEF PhaseEarned, Bench!TypeOK, Bench!Here, Bench!Phases
<1>3. CountersSound'
  BY DEF CountersSound, GainServed, Bench!ValidDelta, Bench!Delta, Bench!TypeOK,
         Bench!Counts, Bench!Zero
<1>4. RowsKept'
  BY DEF RowsKept, Bench!TypeOK, Bench!Here
<1>5. PhasesDone'
  BY DEF PhasesDone, Bench!Running, Earlier, RowsKept, Bench!TypeOK, Bench!Here,
         Bench!Phases
<1>. QED  BY <1>1, <1>2, <1>3, <1>4, <1>5

\* The CSV file is read before it is truncated.
LEMMA OpenCsvKeeps == ASSUME BenchIInv, Bench!OpenCsv PROVE BenchIInv'
<1>. USE BenchAssumption
        DEF Bench!PrefixBenchAssumption, BenchIInv, Bench!OpenCsv, Bench!End,
            Bench!position, Bench!service, Bench!snapshots, Bench!results
<1>1. Bench!TypeOK'
  <2>1. /\ existing' \in Seq(Bench!Positions) /\ <<>> \in Seq(Bench!Positions)
        /\ csv' \in [state : {"absent", "empty", "rows"}, rows : Seq(Bench!Positions)]
    <3>1. csv \in [state : {"absent", "empty", "rows"}, rows : Seq(Bench!Positions)]
          /\ existing \in Seq(Bench!Positions)
      BY DEF Bench!TypeOK
    <3>2. <<>> \in Seq(Bench!Positions) /\ csv.rows \in Seq(Bench!Positions)
      BY <3>1
    <3>3. [state |-> "empty", rows |-> <<>>] \in [state : {"absent", "empty", "rows"},
            rows : Seq(Bench!Positions)]
      BY <3>2
    <3>. QED  BY <3>1, <3>2, <3>3
  <2>. QED  BY <2>1
               DEF Bench!TypeOK, Bench!Here, Bench!Positions, Bench!Counts, Bench!Phases
<1>2. PhaseEarned'
  BY DEF PhaseEarned, Bench!TypeOK, Bench!Here, Bench!Phases
<1>3. CountersSound'
  BY DEF CountersSound, GainServed, Bench!ValidDelta, Bench!Delta, Bench!TypeOK,
         Bench!Counts, Bench!Zero
<1>4. RowsKept'
  BY NoElements DEF RowsKept, Bench!TypeOK, Bench!Here
<1>5. PhasesDone'
  BY DEF PhasesDone, Bench!Running, Earlier, RowsKept, Bench!TypeOK, Bench!Here,
         Bench!Phases
<1>. QED  BY <1>1, <1>2, <1>3, <1>4, <1>5

\* Closing the CSV file writes what was read and the new row.
LEMMA CloseCsvKeeps == ASSUME BenchIInv, Bench!CloseCsv PROVE BenchIInv'
<1>. USE BenchAssumption
        DEF Bench!PrefixBenchAssumption, BenchIInv, Bench!CloseCsv, Bench!Row,
            Bench!position, Bench!service, Bench!snapshots, Bench!results
<1>1. Bench!TypeOK'
  BY ElementsOfAppend
     DEF Bench!TypeOK, Bench!Here, Bench!Positions, Bench!Counts, Bench!Phases, Bench!Zero,
         Bench!NoRecords
<1>2. PhaseEarned'
  BY DEF PhaseEarned, Bench!TypeOK, Bench!Here, Bench!Phases
<1>3. CountersSound'
  BY DEF CountersSound, GainServed, Bench!ValidDelta, Bench!Delta, Bench!TypeOK,
         Bench!Counts, Bench!Zero
<1>4. RowsKept'
  BY ElementsOfAppend DEF RowsKept, Bench!TypeOK, Bench!Here
<1>5. PhasesDone'
  BY ElementsOfAppend
     DEF PhasesDone, Bench!Running, Earlier, RowsKept, Bench!TypeOK, Bench!Here,
         Bench!Phases
<1>. QED  BY <1>1, <1>2, <1>3, <1>4, <1>5

\* The row goes to the JSONL file after it went to the CSV file.
LEMMA AppendJsonlKeeps == ASSUME BenchIInv, Bench!AppendJsonl PROVE BenchIInv'
<1>. USE BenchAssumption
        DEF Bench!PrefixBenchAssumption, BenchIInv, Bench!AppendJsonl, Bench!NextPhase,
            Bench!Row, Bench!End, Bench!position, Bench!service, Bench!snapshots,
            Bench!results
<1>1. Bench!TypeOK'
  <2>1. jsonl' \in Seq(Bench!Positions)
    BY ElementsOfAppend DEF Bench!TypeOK
  <2>2. invocation \in 0..MaxInvocations /\ round \in 0..MaxRounds /\ rounds \in 1..MaxRounds
        /\ round <= rounds
    BY DEF Bench!TypeOK, Bench!Here, Bench!Positions
  <2>3. round' \in 0..MaxRounds /\ round' <= rounds' /\ phase' \in {"warmup", "full"}
    BY <2>2 DEF Bench!TypeOK, Bench!Here, Bench!Positions, Bench!Phases
  <2>4. Bench!Here' \in Bench!Positions'
    BY <2>2, <2>3 DEF Bench!Here, Bench!Positions, Bench!Phases
  <2>5. /\ Bench!Positions' = Bench!Positions
        /\ Bench!Counts' = Bench!Counts
        /\ Bench!Phases' = Bench!Phases
    BY DEF Bench!Positions, Bench!Counts, Bench!Phases
  <2>. QED  BY <2>1, <2>3, <2>4, <2>5 DEF Bench!TypeOK
<1>2. PhaseEarned'
  BY DEF PhaseEarned, Bench!TypeOK, Bench!Here, Bench!Phases
<1>3. CountersSound'
  BY DEF CountersSound, GainServed, Bench!ValidDelta, Bench!Delta, Bench!TypeOK,
         Bench!Counts, Bench!Zero
<1>4. RowsKept'
  BY ElementsOfAppend DEF RowsKept, Bench!TypeOK, Bench!Here
<1>5. PhasesDone'
  <2>1. /\ invocation \in Nat
        /\ round \in 1..rounds
        /\ rounds \in Nat
        /\ phase \in {"warmup", "full"}
        /\ code = "none" /\ csv.state = "rows"
    BY DEF Bench!TypeOK, Bench!Here, Bench!Positions, Bench!Phases, PhasesDone,
           Bench!Running, RowsKept
  <2>2. Bench!Elements(jsonl') = Bench!Elements(jsonl) \cup {<<invocation, round, phase>>}
    BY ElementsOfAppend DEF Bench!TypeOK, Bench!Here
  <2>3. \A r \in 1..rounds, p \in Bench!Phases : Earlier(r, p)
          => <<invocation, r, p>> \in Bench!Elements(jsonl)
    BY DEF PhasesDone, Bench!Running
  <2>4. \A r \in 1..rounds, p \in Bench!Phases :
           Earlier(r, p) \/ (r = round /\ p = phase)
             => <<invocation, r, p>> \in Bench!Elements(jsonl')
    BY <2>2, <2>3
  <2>5. CASE phase = "warmup"
    BY <2>1, <2>4, <2>5 DEF PhasesDone, Bench!Running, Earlier, Bench!Phases
  <2>6. CASE phase = "full" /\ round < rounds
    <3>1. \A r \in 1..rounds : r < round + 1 => r < round \/ r = round
      BY <2>1
    <3>2. \A r \in 1..rounds, p \in Bench!Phases :
             Earlier(r, p)' => Earlier(r, p) \/ (r = round /\ p = phase)
      BY <2>1, <2>6, <3>1 DEF Earlier, Bench!Phases
    <3>. QED  BY <2>1, <2>4, <2>6, <3>2 DEF PhasesDone, Bench!Running
  <2>7. CASE phase = "full" /\ round = rounds
    <3>1. \A r \in 1..rounds, p \in Bench!Phases : Earlier(r, p) \/ (r = round /\ p = phase)
      BY <2>1, <2>7 DEF Earlier, Bench!Phases
    <3>. QED  BY <2>1, <2>4, <2>7, <3>1 DEF PhasesDone, Bench!Running
  <2>. QED  BY <2>5, <2>6, <2>7
<1>. QED  BY <1>1, <1>2, <1>3, <1>4, <1>5

\* A kill leaves the files as they are.
LEMMA KillKeeps == ASSUME BenchIInv, Bench!Kill PROVE BenchIInv'
<1>. USE BenchAssumption
        DEF Bench!PrefixBenchAssumption, BenchIInv, Bench!Kill, Bench!End, Bench!Running,
            Bench!position, Bench!service, Bench!snapshots, Bench!results
<1>1. Bench!TypeOK'
  BY DEF Bench!TypeOK, Bench!Here, Bench!Positions, Bench!Counts, Bench!Phases, Bench!Zero,
         Bench!NoRecords
<1>2. PhaseEarned'
  BY DEF PhaseEarned, Bench!TypeOK, Bench!Here, Bench!Phases
<1>3. CountersSound'
  BY DEF CountersSound, GainServed, Bench!ValidDelta, Bench!Delta, Bench!TypeOK,
         Bench!Counts, Bench!Zero
<1>4. RowsKept'
  BY DEF RowsKept, Bench!TypeOK, Bench!Here
<1>5. PhasesDone'
  BY DEF PhasesDone, Bench!Running, Earlier, RowsKept, Bench!TypeOK, Bench!Here,
         Bench!Phases
<1>. QED  BY <1>1, <1>2, <1>3, <1>4, <1>5

\* The service counts what it serves.
LEMMA ServeKeeps == ASSUME BenchIInv, Bench!Serve PROVE BenchIInv'
<1>. USE BenchAssumption
        DEF Bench!PrefixBenchAssumption, BenchIInv, Bench!Serve, Bench!position,
            Bench!service, Bench!snapshots, Bench!results
<1>1. Bench!TypeOK'
  <2>1. counters' \in Bench!Counts /\ served' \in Bench!Counts
    <3>1. PICK hit \in {0, 1} :
            /\ counters' = [queries |-> counters.queries + 1, hits |-> counters.hits + hit]
            /\ served' = [queries |-> served.queries + 1, hits |-> served.hits + hit]
      OBVIOUS
    <3>2. counters \in Bench!Counts /\ served \in Bench!Counts
      BY DEF Bench!TypeOK
    <3>. QED  BY <3>1, <3>2 DEF Bench!Counts
  <2>. QED  BY <2>1
               DEF Bench!TypeOK, Bench!Here, Bench!Positions, Bench!Counts, Bench!Phases
<1>2. PhaseEarned'
  BY DEF PhaseEarned, Bench!TypeOK, Bench!Here, Bench!Phases
<1>3. CountersSound'
  <2>1. PICK hit \in {0, 1} :
          /\ counters' = [queries |-> counters.queries + 1, hits |-> counters.hits + hit]
          /\ served' = [queries |-> served.queries + 1, hits |-> served.hits + hit]
    OBVIOUS
  <2>2. counters \in Bench!Counts /\ served \in Bench!Counts /\ before \in Bench!Counts
    BY DEF Bench!TypeOK
  <2>3. GainServed(counters, before) => GainServed(counters, before)'
    BY <2>1, <2>2 DEF GainServed, Bench!Counts
  <2>. QED  BY <2>3 DEF CountersSound
<1>4. RowsKept'
  BY DEF RowsKept, Bench!TypeOK, Bench!Here
<1>5. PhasesDone'
  BY DEF PhasesDone, Bench!Running, Earlier, RowsKept, Bench!TypeOK, Bench!Here,
         Bench!Phases
<1>. QED  BY <1>1, <1>2, <1>3, <1>4, <1>5

\* A restart sets the counters back but serves nothing.
LEMMA RestartServiceKeeps == ASSUME BenchIInv, Bench!RestartService PROVE BenchIInv'
<1>. USE BenchAssumption
        DEF Bench!PrefixBenchAssumption, BenchIInv, Bench!RestartService, Bench!Running,
            Bench!position, Bench!service, Bench!snapshots, Bench!results
<1>1. Bench!TypeOK'
  BY DEF Bench!TypeOK, Bench!Here, Bench!Positions, Bench!Counts, Bench!Phases, Bench!Zero,
         Bench!NoRecords
<1>2. PhaseEarned'
  BY DEF PhaseEarned, Bench!TypeOK, Bench!Here, Bench!Phases
<1>3. CountersSound'
  BY SMTT(30) DEF CountersSound, GainServed, Bench!ValidDelta, Bench!Delta, Bench!TypeOK,
         Bench!Counts, Bench!Zero
<1>4. RowsKept'
  BY DEF RowsKept, Bench!TypeOK, Bench!Here
<1>5. PhasesDone'
  BY DEF PhasesDone, Bench!Running, Earlier, RowsKept, Bench!TypeOK, Bench!Here,
         Bench!Phases
<1>. QED  BY <1>1, <1>2, <1>3, <1>4, <1>5

\* Every step of the benchmark keeps its invariant.
LEMMA BenchKeeps == ASSUME BenchIInv, [Bench!Next]_(Bench!vars) PROVE BenchIInv'
<1>1. CASE UNCHANGED Bench!vars
  BY <1>1
     DEF Bench!vars, Bench!position, Bench!service, Bench!snapshots, Bench!results,
         BenchIInv, Bench!TypeOK, Bench!Here, PhaseEarned, CountersSound, GainServed,
         Bench!ValidDelta, Bench!Delta, RowsKept, PhasesDone, Bench!Running, Earlier
<1>2. CASE Bench!Next
  BY <1>2, InvokeKeeps, SnapshotBeforeKeeps, BeginPhaseKeeps, EndPhaseKeeps,
     SnapshotAfterKeeps, ComputeHitRateKeeps, ValidateDetailsKeeps, OpenCsvKeeps,
     CloseCsvKeeps, AppendJsonlKeeps, KillKeeps, ServeKeeps, RestartServiceKeeps
     DEF Bench!Next, Bench!BenchStep
<1>. QED  BY <1>1, <1>2

\* What the rows promise follows from the invariant.
LEMMA RowsFollow ==
  BenchIInv => Bench!HitsWereServed /\ Bench!JsonlInCsv /\ Bench!ZeroMeansComplete
<1>. SUFFICES ASSUME BenchIInv
              PROVE  Bench!HitsWereServed /\ Bench!JsonlInCsv /\ Bench!ZeroMeansComplete
  OBVIOUS
<1>1. Bench!HitsWereServed
  BY DEF BenchIInv, CountersSound, GainServed, Bench!ValidDelta, Bench!Delta,
         Bench!HitsWereServed
<1>2. Bench!JsonlInCsv
  BY DEF BenchIInv, RowsKept, Bench!JsonlInCsv
<1>3. ASSUME code = "zero", NEW r \in 1..rounds, NEW p \in Bench!Phases,
               NEW rows \in {jsonl, csv.rows}
      PROVE  \E i \in DOMAIN rows : rows[i] = <<invocation, r, p>>
  <2>1. <<invocation, r, p>> \in Bench!Elements(rows)
    BY <1>3 DEF BenchIInv, PhasesDone, RowsKept
  <2>. QED  BY <2>1 DEF Bench!Elements
<1>. QED  BY <1>1, <1>2, <1>3 DEF Bench!ZeroMeansComplete

\* A step that adds a row to either file is one of a phase that succeeded and was
\* accepted, and whose output is in the log.
LEMMA StepsEarnRows ==
  ASSUME BenchIInv, Bench!Next, Len(jsonl') > Len(jsonl) \/ Len(csv'.rows) > Len(csv.rows)
  PROVE  recorded[phase] = "succeeded" /\ phase \in accepted /\ parsed = Bench!Here
<1>1. Len(jsonl) \in Nat /\ Len(csv.rows) \in Nat
  BY DEF BenchIInv, Bench!TypeOK
<1>2. jsonl' # jsonl \/ csv' # csv
  BY <1>1
<1>3. Bench!CloseCsv \/ Bench!AppendJsonl \/ Bench!OpenCsv
  BY <1>2
     DEF Bench!Next, Bench!BenchStep, Bench!Invoke, Bench!SnapshotBefore, Bench!BeginPhase,
         Bench!EndPhase, Bench!SnapshotAfter, Bench!ComputeHitRate, Bench!ValidateDetails,
         Bench!Kill, Bench!Serve, Bench!RestartService, Bench!results
<1>4. ~Bench!OpenCsv
  BY <1>1 DEF Bench!OpenCsv
<1>. QED  BY <1>3, <1>4 DEF Bench!CloseCsv, Bench!AppendJsonl, BenchIInv, PhaseEarned

-----------------------------------------------------------------------------
(* The guarded runs *)
\* The places of a patch command and of a controller, and their records.
CommandPcs == {"none", "done", "failed", "preparing", "saving", "manifest", "installing",
               "recording", "undoing", "checking", "restoring"}

Commands == [pc : CommandPcs, at : Guarded!Sources, writing : BOOLEAN]

ControllerPcs == Guarded!Body \union Guarded!Trap \union {"new", "exited"}

Codes == {0, 1, 130, 137}

Controllers == [pc : ControllerPcs, started : BOOLEAN, ok : BOOLEAN, code : Codes]

(* The lock is with one run: its controller or the command that outlives it. *)
Active(r) == Guarded!Holds(r) \/ Guarded!Running(r)

\* Two runs are never active at once.
OneAtATime == \A r, o \in Runs : Active(r) /\ Active(o) => r = o

\* How far the command of a run has come, and what it has saved and written by then.
CommandSound(r) ==
  /\ cmd[r].writing => cmd[r].pc \in {"installing", "undoing", "restoring"}
  /\ Guarded!Holds(r) /\ Guarded!Running(r) => ctl[r].pc \in {"installing", "restoring"}
  /\ ctl[r].pc = "installing" => cmd[r].pc \notin {"checking", "restoring"}
  /\ cmd[r].pc = "saving" => 1..(cmd[r].at - 1) \subseteq saved[r].backups
  /\ cmd[r].pc = "manifest" \/ saved[r].manifest => saved[r].backups = Guarded!Sources
  /\ cmd[r].pc = "installing" =>
       saved[r].manifest /\ \A k \in 1..(cmd[r].at - 1) : source[k] = r
  /\ \/ ctl[r].pc = "installing" /\ cmd[r].pc \in {"recording", "done"}
     \/ ctl[r].pc = "arm"
     => \A k \in Guarded!Sources : source[k] = r

(* Where no service may be running.                                        *)
Offline(r) ==
  \/ Guarded!Running(r)
  \/ ctl[r].pc \in {"check", "install", "installing", "arm", "restoring"}
  \/ ctl[r].pc \in {"trap_restore", "trap_compare"} /\ ctl[r].ok

\* There the service is stopped.
OfflineMeansStopped == \A r \in Runs : Offline(r) => service = Nothing

\* The inductive invariant of the guarded runs.
GuardedIInv ==
  /\ Guarded!TypeOK /\ cmd \in [Runs -> Commands] /\ ctl \in [Runs -> Controllers]
  /\ OneAtATime /\ (\A r \in Runs : CommandSound(r)) /\ OfflineMeansStopped
  /\ Guarded!PatchedIsRecoverable /\ Guarded!ServiceRunsItsPatch

\* The invariant holds before the first run.
LEMMA GuardedInit == Guarded!Init => GuardedIInv
<1>. SUFFICES ASSUME Guarded!Init PROVE GuardedIInv
  OBVIOUS
<1>. USE GuardedAssumption
        DEF Guarded!SourcePatchAssumption, Guarded!Init, Guarded!PatchInit,
            Guarded!NoCommand, Guarded!EmptyState, Guarded!NotStarted
<1>1. Guarded!TypeOK /\ cmd \in [Runs -> Commands] /\ ctl \in [Runs -> Controllers]
  BY DEF Guarded!TypeOK, Commands, Controllers, Guarded!Sources, CommandPcs, ControllerPcs,
         Codes
<1>2. OneAtATime /\ (\A r \in Runs : CommandSound(r)) /\ OfflineMeansStopped
  BY DEF OneAtATime, Active, CommandSound, OfflineMeansStopped, Offline, Guarded!Holds,
         Guarded!Running, Guarded!Body, Guarded!Trap, Guarded!Sources
<1>3. Guarded!PatchedIsRecoverable /\ Guarded!ServiceRunsItsPatch
  BY DEF Guarded!PatchedIsRecoverable, Guarded!ServiceRunsItsPatch
<1>. QED  BY <1>1, <1>2, <1>3 DEF GuardedIInv

\* A controller with one field updated is a controller.
LEMMA ControllerUpdates ==
  ASSUME NEW c \in Controllers, NEW p \in ControllerPcs, NEW x \in BOOLEAN
  PROVE  [c EXCEPT !.pc = p, !.ok = x] \in Controllers /\ [c EXCEPT !.pc = p,
           !.started = x] \in Controllers
BY DEF Controllers

\* So is one after a step of its own.
LEMMA ControllerMoves ==
  ASSUME ctl \in [Runs -> Controllers], NEW r \in Runs, NEW p \in ControllerPcs,
         \/ ctl' = [ctl EXCEPT ![r].pc = p]
         \/ \E n \in Codes : ctl' = [ctl EXCEPT ![r].pc = p, ![r].code = n]
         \/ \E x \in BOOLEAN : ctl' = [ctl EXCEPT ![r].pc = p, ![r].ok = x]
         \/ \E x \in BOOLEAN : ctl' = [ctl EXCEPT ![r].pc = p, ![r].started = x]
  PROVE  ctl' \in [Runs -> Controllers]
<1>1. CASE ctl' = [ctl EXCEPT ![r].pc = p]
  BY <1>1 DEF Controllers
<1>2. CASE \E n \in Codes : ctl' = [ctl EXCEPT ![r].pc = p, ![r].code = n]
  BY <1>2 DEF Controllers
<1>3. ASSUME NEW x \in BOOLEAN, ctl' = [ctl EXCEPT ![r].pc = p, ![r].ok = x]
      PROVE  ctl' \in [Runs -> Controllers]
  <2>1. [ctl[r] EXCEPT !.pc = p, !.ok = x] \in Controllers
    BY ControllerUpdates
  <2>. QED  BY <1>3, <2>1
<1>4. ASSUME NEW x \in BOOLEAN, ctl' = [ctl EXCEPT ![r].pc = p, ![r].started = x]
      PROVE  ctl' \in [Runs -> Controllers]
  <2>1. [ctl[r] EXCEPT !.pc = p, !.started = x] \in Controllers
    BY ControllerUpdates
  <2>. QED  BY <1>4, <2>1
<1>. QED  BY <1>1, <1>2, <1>3, <1>4

\* A command that goes to another place is still a command.
LEMMA CommandBecomes ==
  ASSUME cmd \in [Runs -> Commands], NEW r \in Runs, NEW p \in CommandPcs, Guarded!Become(r, p)
  PROVE  /\ cmd' \in [Runs -> Commands]
         /\ cmd'[r].pc = p /\ cmd'[r].at = 1 /\ ~cmd'[r].writing
         /\ \A o \in Runs \ {r} : cmd'[o] = cmd[o]
<1>1. 1 \in Guarded!Sources
  BY GuardedAssumption DEF Guarded!SourcePatchAssumption, Guarded!Sources
<1>2. Guarded!NoCommand \in Commands /\ Guarded!NoCommand.at = 1 /\ ~Guarded!NoCommand.writing
  BY <1>1 DEF Commands, CommandPcs, Guarded!NoCommand
<1>3. /\ [Guarded!NoCommand EXCEPT !.pc = p] \in Commands
      /\ [Guarded!NoCommand EXCEPT !.pc = p].pc = p
      /\ [Guarded!NoCommand EXCEPT !.pc = p].at = 1
      /\ ~[Guarded!NoCommand EXCEPT !.pc = p].writing
  BY <1>2 DEF Commands
<1>. QED  BY <1>3 DEF Guarded!Become

\* So is one that goes on to its next source, or to another place after the last.
LEMMA CommandAdvances ==
  ASSUME cmd \in [Runs -> Commands], NEW r \in Runs, NEW p \in CommandPcs, Guarded!Advance(r, p)
  PROVE  /\ cmd' \in [Runs -> Commands]
         /\ ~cmd'[r].writing
         /\ \/ cmd[r].at < NumSources /\ cmd'[r].at = cmd[r].at + 1 /\ cmd'[r].pc = cmd[r].pc
            \/ cmd[r].at = NumSources /\ cmd'[r].at = 1 /\ cmd'[r].pc = p
         /\ \A o \in Runs \ {r} : cmd'[o] = cmd[o]
<1>1. cmd[r] \in Commands /\ cmd[r].at \in Guarded!Sources
  BY DEF Commands
<1>2. CASE cmd[r].at < NumSources
  <2>1. cmd[r].at + 1 \in Guarded!Sources
    BY <1>1, <1>2, GuardedAssumption DEF Guarded!SourcePatchAssumption, Guarded!Sources
  <2>2. [cmd[r] EXCEPT !.at = cmd[r].at + 1, !.writing = FALSE] \in Commands
    BY <1>1, <2>1 DEF Commands
  <2>3. cmd' = [cmd EXCEPT ![r] = [cmd[r] EXCEPT !.at = cmd[r].at + 1, !.writing = FALSE]]
    BY <1>2 DEF Guarded!Advance
  <2>4. cmd'[r] = [cmd[r] EXCEPT !.at = cmd[r].at + 1, !.writing = FALSE]
    BY <2>3
  <2>5. cmd' \in [Runs -> Commands] /\ \A o \in Runs \ {r} : cmd'[o] = cmd[o]
    BY <2>2, <2>3
  <2>6. /\ ~cmd'[r].writing /\ cmd'[r].at = cmd[r].at + 1 /\ cmd'[r].pc = cmd[r].pc
    BY <1>1, <2>4 DEF Commands
  <2>. QED  BY <1>2, <2>5, <2>6
<1>3. CASE ~(cmd[r].at < NumSources)
  <2>1. cmd[r].at = NumSources
    BY <1>1, <1>3, GuardedAssumption DEF Guarded!SourcePatchAssumption, Guarded!Sources
  <2>2. Guarded!Become(r, p)
    BY <1>3 DEF Guarded!Advance
  <2>. QED  BY <2>1, <2>2, CommandBecomes
<1>. QED  BY <1>2, <1>3

\* A controller starts only when it gets the lock.
LEMMA StartControllerKeeps ==
  ASSUME GuardedIInv, NEW r \in Runs, Guarded!StartController(r) PROVE GuardedIInv'
<1>. USE GuardedAssumption
        DEF Guarded!SourcePatchAssumption, GuardedIInv, Guarded!StartController, Guarded!Go,
            Guarded!Fail, Guarded!Stopped, Guarded!LockFree, Guarded!Become,
            Guarded!NoCommand, Guarded!files, Guarded!Holds, Guarded!Running, Guarded!Body,
            Guarded!Trap
<1>1. cmd' \in [Runs -> Commands] /\ ctl' \in [Runs -> Controllers]
  <2>1. {"preflight"} \subseteq ControllerPcs
    BY DEF ControllerPcs
  <2>. QED  BY <2>1, ControllerMoves
<1>2. Guarded!TypeOK'
  BY <1>1 DEF Guarded!TypeOK, Commands, Controllers, ControllerPcs
<1>3. OneAtATime'
  BY DEF OneAtATime, Active, Commands, Controllers
<1>4. ASSUME NEW o \in Runs PROVE CommandSound(o)'
  BY DEF Guarded!TypeOK, OneAtATime, Active, CommandSound, Commands, Controllers,
         Guarded!Sources
<1>5. OfflineMeansStopped'
  BY DEF OneAtATime, Active, CommandSound, OfflineMeansStopped, Offline, Commands,
         Controllers
<1>6. Guarded!PatchedIsRecoverable'
  BY DEF Guarded!TypeOK, CommandSound, Guarded!PatchedIsRecoverable, Commands
<1>7. Guarded!ServiceRunsItsPatch'
  BY DEF Guarded!TypeOK, CommandSound, Guarded!ServiceRunsItsPatch
<1>. QED  BY <1>1, <1>2, <1>3, <1>4, <1>5, <1>6, <1>7

\* The prestart check finds no service.
LEMMA VerifyPrestartKeeps ==
  ASSUME GuardedIInv, NEW r \in Runs, Guarded!VerifyPrestart(r) PROVE GuardedIInv'
<1>. USE GuardedAssumption
        DEF Guarded!SourcePatchAssumption, GuardedIInv, Guarded!VerifyPrestart, Guarded!Go,
            Guarded!Fail, Guarded!Stopped, Guarded!LockFree, Guarded!Become,
            Guarded!NoCommand, Guarded!files, Guarded!Holds, Guarded!Running, Guarded!Body,
            Guarded!Trap
<1>1. cmd' \in [Runs -> Commands] /\ ctl' \in [Runs -> Controllers]
  <2>1. {"check", "trap_stop"} \subseteq ControllerPcs /\ {0, 1, 130, 137} \subseteq Codes
    BY DEF ControllerPcs, Codes
  <2>. QED  BY <2>1, ControllerMoves
<1>2. Guarded!TypeOK'
  BY <1>1 DEF Guarded!TypeOK, Commands, Controllers, ControllerPcs
<1>3. OneAtATime'
  BY DEF OneAtATime, Active, Commands, Controllers
<1>4. ASSUME NEW o \in Runs PROVE CommandSound(o)'
  <2>1. UNCHANGED <<source, saved, cmd>> /\ \A x \in Runs \ {r} : ctl'[x] = ctl[x]
    OBVIOUS
  <2>2. ctl[r].pc = "preflight" /\ ctl'[r].pc \in {"check", "trap_stop"}
    BY DEF Controllers
  <2>. QED  BY <2>1, <2>2 DEF CommandSound
<1>5. OfflineMeansStopped'
  BY DEF OneAtATime, Active, CommandSound, OfflineMeansStopped, Offline, Commands,
         Controllers
<1>6. Guarded!PatchedIsRecoverable'
  BY DEF Guarded!TypeOK, CommandSound, Guarded!PatchedIsRecoverable, Commands
<1>7. Guarded!ServiceRunsItsPatch'
  BY DEF Guarded!TypeOK, CommandSound, Guarded!ServiceRunsItsPatch
<1>. QED  BY <1>1, <1>2, <1>3, <1>4, <1>5, <1>6, <1>7

\* The check command runs under the controller's lock.
LEMMA CheckKeeps ==
  ASSUME GuardedIInv, NEW r \in Runs, Guarded!Check(r) PROVE GuardedIInv'
<1>. USE GuardedAssumption
        DEF Guarded!SourcePatchAssumption, GuardedIInv, Guarded!Check, Guarded!Go,
            Guarded!Fail, Guarded!Stopped, Guarded!LockFree, Guarded!Become,
            Guarded!NoCommand, Guarded!files, Guarded!Holds, Guarded!Running, Guarded!Body,
            Guarded!Trap
<1>1. cmd' \in [Runs -> Commands] /\ ctl' \in [Runs -> Controllers]
  <2>1. {"install", "trap_stop"} \subseteq ControllerPcs /\ {0, 1, 130, 137} \subseteq Codes
    BY DEF ControllerPcs, Codes
  <2>. QED  BY <2>1, ControllerMoves
<1>2. Guarded!TypeOK'
  BY <1>1 DEF Guarded!TypeOK, Commands, Controllers, ControllerPcs
<1>3. OneAtATime'
  BY DEF OneAtATime, Active, Commands, Controllers
<1>4. ASSUME NEW o \in Runs PROVE CommandSound(o)'
  BY DEF Guarded!TypeOK, OneAtATime, Active, CommandSound, Commands, Controllers,
         Guarded!Sources
<1>5. OfflineMeansStopped'
  BY DEF OneAtATime, Active, CommandSound, OfflineMeansStopped, Offline, Commands,
         Controllers
<1>6. Guarded!PatchedIsRecoverable'
  BY DEF Guarded!TypeOK, CommandSound, Guarded!PatchedIsRecoverable, Commands
<1>7. Guarded!ServiceRunsItsPatch'
  BY DEF Guarded!TypeOK, CommandSound, Guarded!ServiceRunsItsPatch
<1>. QED  BY <1>1, <1>2, <1>3, <1>4, <1>5, <1>6, <1>7

\* So does the install, while no service runs.
LEMMA InstallKeeps ==
  ASSUME GuardedIInv, NEW r \in Runs, Guarded!Install(r) PROVE GuardedIInv'
<1>. USE GuardedAssumption
        DEF Guarded!SourcePatchAssumption, GuardedIInv, Guarded!Install, Guarded!Go,
            Guarded!Fail, Guarded!Stopped, Guarded!LockFree, Guarded!Become,
            Guarded!NoCommand, Guarded!files, Guarded!Holds, Guarded!Running, Guarded!Body,
            Guarded!Trap
<1>1. cmd' \in [Runs -> Commands] /\ ctl' \in [Runs -> Controllers]
  <2>1. {"installing"} \subseteq ControllerPcs /\ {"preparing"} \subseteq CommandPcs
    BY DEF ControllerPcs, CommandPcs
  <2>. QED  BY <2>1, ControllerMoves, CommandBecomes
<1>2. Guarded!TypeOK'
  BY <1>1 DEF Guarded!TypeOK, Commands, Controllers, ControllerPcs
<1>3. OneAtATime'
  BY DEF OneAtATime, Active, Commands, Controllers
<1>4. ASSUME NEW o \in Runs PROVE CommandSound(o)'
  BY DEF Guarded!TypeOK, OneAtATime, Active, CommandSound, Commands, Controllers,
         Guarded!Sources
<1>5. OfflineMeansStopped'
  BY DEF OneAtATime, Active, CommandSound, OfflineMeansStopped, Offline, Commands,
         Controllers
<1>6. Guarded!PatchedIsRecoverable'
  BY DEF Guarded!TypeOK, CommandSound, Guarded!PatchedIsRecoverable, Commands
<1>7. Guarded!ServiceRunsItsPatch'
  BY DEF Guarded!TypeOK, CommandSound, Guarded!ServiceRunsItsPatch
<1>. QED  BY <1>1, <1>2, <1>3, <1>4, <1>5, <1>6, <1>7

\* An install that has succeeded leaves the complete patch.
LEMMA InstallEndsKeeps ==
  ASSUME GuardedIInv, NEW r \in Runs, Guarded!InstallEnds(r) PROVE GuardedIInv'
<1>. USE GuardedAssumption
        DEF Guarded!SourcePatchAssumption, GuardedIInv, Guarded!InstallEnds, Guarded!Go,
            Guarded!Fail, Guarded!Stopped, Guarded!LockFree, Guarded!Become,
            Guarded!NoCommand, Guarded!files, Guarded!Holds, Guarded!Running, Guarded!Body,
            Guarded!Trap
<1>1. cmd' \in [Runs -> Commands] /\ ctl' \in [Runs -> Controllers]
  <2>1. {"arm", "trap_stop"} \subseteq ControllerPcs /\ {0, 1, 130, 137} \subseteq Codes
    BY DEF ControllerPcs, Codes
  <2>. QED  BY <2>1, ControllerMoves
<1>2. Guarded!TypeOK'
  BY <1>1 DEF Guarded!TypeOK, Commands, Controllers, ControllerPcs
<1>3. OneAtATime'
  BY DEF OneAtATime, Active, Commands, Controllers
<1>4. ASSUME NEW o \in Runs PROVE CommandSound(o)'
  BY DEF Guarded!TypeOK, OneAtATime, Active, CommandSound, Commands, Controllers,
         Guarded!Sources
<1>5. OfflineMeansStopped'
  BY DEF OneAtATime, Active, CommandSound, OfflineMeansStopped, Offline, Commands,
         Controllers
<1>6. Guarded!PatchedIsRecoverable'
  BY DEF Guarded!TypeOK, CommandSound, Guarded!PatchedIsRecoverable, Commands
<1>7. Guarded!ServiceRunsItsPatch'
  BY DEF Guarded!TypeOK, CommandSound, Guarded!ServiceRunsItsPatch
<1>. QED  BY <1>1, <1>2, <1>3, <1>4, <1>5, <1>6, <1>7

\* The service loads the sources of its run.
LEMMA StartServiceKeeps ==
  ASSUME GuardedIInv, NEW r \in Runs, Guarded!StartService(r) PROVE GuardedIInv'
<1>. USE GuardedAssumption
        DEF Guarded!SourcePatchAssumption, GuardedIInv, Guarded!StartService, Guarded!Go,
            Guarded!Fail, Guarded!Stopped, Guarded!LockFree, Guarded!Become,
            Guarded!NoCommand, Guarded!files, Guarded!Holds, Guarded!Running, Guarded!Body,
            Guarded!Trap
<1>1. cmd' \in [Runs -> Commands] /\ ctl' \in [Runs -> Controllers]
  <2>1. {"serving"} \subseteq ControllerPcs
    BY DEF ControllerPcs
  <2>. QED  BY <2>1, ControllerMoves
<1>2. Guarded!TypeOK'
  BY <1>1 DEF Guarded!TypeOK, Commands, Controllers, ControllerPcs
<1>3. OneAtATime'
  BY DEF OneAtATime, Active, Commands, Controllers
<1>4. ASSUME NEW o \in Runs PROVE CommandSound(o)'
  BY DEF Guarded!TypeOK, OneAtATime, Active, CommandSound, Commands, Controllers,
         Guarded!Sources
<1>5. OfflineMeansStopped'
  BY DEF OneAtATime, Active, CommandSound, OfflineMeansStopped, Offline, Commands,
         Controllers
<1>6. Guarded!PatchedIsRecoverable'
  BY DEF Guarded!TypeOK, CommandSound, Guarded!PatchedIsRecoverable, Commands
<1>7. Guarded!ServiceRunsItsPatch'
  BY DEF Guarded!TypeOK, CommandSound, Guarded!ServiceRunsItsPatch
<1>. QED  BY <1>1, <1>2, <1>3, <1>4, <1>5, <1>6, <1>7

\* Measuring changes nothing but the controller's place.
LEMMA MeasureKeeps ==
  ASSUME GuardedIInv, NEW r \in Runs, Guarded!Measure(r) PROVE GuardedIInv'
<1>. USE GuardedAssumption
        DEF Guarded!SourcePatchAssumption, GuardedIInv, Guarded!Measure, Guarded!Go,
            Guarded!Fail, Guarded!Stopped, Guarded!LockFree, Guarded!Become,
            Guarded!NoCommand, Guarded!files, Guarded!Holds, Guarded!Running, Guarded!Body,
            Guarded!Trap
<1>1. cmd' \in [Runs -> Commands] /\ ctl' \in [Runs -> Controllers]
  <2>1. {"stopping"} \subseteq ControllerPcs
    BY DEF ControllerPcs
  <2>. QED  BY <2>1, ControllerMoves
<1>2. Guarded!TypeOK'
  BY <1>1 DEF Guarded!TypeOK, Commands, Controllers, ControllerPcs
<1>3. OneAtATime'
  BY DEF OneAtATime, Active, Commands, Controllers
<1>4. ASSUME NEW o \in Runs PROVE CommandSound(o)'
  BY DEF Guarded!TypeOK, OneAtATime, Active, CommandSound, Commands, Controllers,
         Guarded!Sources
<1>5. OfflineMeansStopped'
  BY DEF OneAtATime, Active, CommandSound, OfflineMeansStopped, Offline, Commands,
         Controllers
<1>6. Guarded!PatchedIsRecoverable'
  BY DEF Guarded!TypeOK, CommandSound, Guarded!PatchedIsRecoverable, Commands
<1>7. Guarded!ServiceRunsItsPatch'
  BY DEF Guarded!TypeOK, CommandSound, Guarded!ServiceRunsItsPatch
<1>. QED  BY <1>1, <1>2, <1>3, <1>4, <1>5, <1>6, <1>7

\* Stopping the service may fail.
LEMMA StopServiceKeeps ==
  ASSUME GuardedIInv, NEW r \in Runs, Guarded!StopService(r) PROVE GuardedIInv'
<1>. USE GuardedAssumption
        DEF Guarded!SourcePatchAssumption, GuardedIInv, Guarded!StopService, Guarded!Go,
            Guarded!Fail, Guarded!Stopped, Guarded!LockFree, Guarded!Become,
            Guarded!NoCommand, Guarded!files, Guarded!Holds, Guarded!Running, Guarded!Body,
            Guarded!Trap, Guarded!AfterStop, Guarded!Owned
<1>1. cmd' \in [Runs -> Commands] /\ ctl' \in [Runs -> Controllers]
  <2>1. {"verifying"} \subseteq ControllerPcs
    BY DEF ControllerPcs
  <2>. QED  BY <2>1, ControllerMoves
<1>2. Guarded!TypeOK'
  BY <1>1 DEF Guarded!TypeOK, Commands, Controllers, ControllerPcs
<1>3. OneAtATime'
  BY DEF OneAtATime, Active, Commands, Controllers
<1>4. ASSUME NEW o \in Runs PROVE CommandSound(o)'
  BY DEF Guarded!TypeOK, OneAtATime, Active, CommandSound, Commands, Controllers,
         Guarded!Sources
<1>5. OfflineMeansStopped'
  BY DEF OneAtATime, Active, CommandSound, OfflineMeansStopped, Offline, Commands,
         Controllers
<1>6. Guarded!PatchedIsRecoverable'
  BY DEF Guarded!TypeOK, CommandSound, Guarded!PatchedIsRecoverable, Commands
<1>7. Guarded!ServiceRunsItsPatch'
  BY DEF Guarded!TypeOK, CommandSound, Guarded!ServiceRunsItsPatch
<1>. QED  BY <1>1, <1>2, <1>3, <1>4, <1>5, <1>6, <1>7

\* The run goes on only when the service has been proved stopped.
LEMMA VerifyStoppedKeeps ==
  ASSUME GuardedIInv, NEW r \in Runs, Guarded!VerifyStopped(r) PROVE GuardedIInv'
<1>. USE GuardedAssumption
        DEF Guarded!SourcePatchAssumption, GuardedIInv, Guarded!VerifyStopped, Guarded!Go,
            Guarded!Fail, Guarded!Stopped, Guarded!LockFree, Guarded!Become,
            Guarded!NoCommand, Guarded!files, Guarded!Holds, Guarded!Running, Guarded!Body,
            Guarded!Trap
<1>1. cmd' \in [Runs -> Commands] /\ ctl' \in [Runs -> Controllers]
  <2>1. {"ending"} \subseteq ControllerPcs
    BY DEF ControllerPcs
  <2>. QED  BY <2>1, ControllerMoves
<1>2. Guarded!TypeOK'
  BY <1>1 DEF Guarded!TypeOK, Commands, Controllers, ControllerPcs
<1>3. OneAtATime'
  BY DEF OneAtATime, Active, Commands, Controllers
<1>4. ASSUME NEW o \in Runs PROVE CommandSound(o)'
  BY DEF Guarded!TypeOK, OneAtATime, Active, CommandSound, Commands, Controllers,
         Guarded!Sources
<1>5. OfflineMeansStopped'
  BY DEF OneAtATime, Active, CommandSound, OfflineMeansStopped, Offline, Commands,
         Controllers
<1>6. Guarded!PatchedIsRecoverable'
  BY DEF Guarded!TypeOK, CommandSound, Guarded!PatchedIsRecoverable, Commands
<1>7. Guarded!ServiceRunsItsPatch'
  BY DEF Guarded!TypeOK, CommandSound, Guarded!ServiceRunsItsPatch
<1>. QED  BY <1>1, <1>2, <1>3, <1>4, <1>5, <1>6, <1>7

\* The end of the run enters the trap.
LEMMA EndRunKeeps ==
  ASSUME GuardedIInv, NEW r \in Runs, Guarded!EndRun(r) PROVE GuardedIInv'
<1>. USE GuardedAssumption
        DEF Guarded!SourcePatchAssumption, GuardedIInv, Guarded!EndRun, Guarded!Go,
            Guarded!Fail, Guarded!Stopped, Guarded!LockFree, Guarded!Become,
            Guarded!NoCommand, Guarded!files, Guarded!Holds, Guarded!Running, Guarded!Body,
            Guarded!Trap
<1>1. cmd' \in [Runs -> Commands] /\ ctl' \in [Runs -> Controllers]
  <2>1. {"trap_stop"} \subseteq ControllerPcs
    BY DEF ControllerPcs
  <2>. QED  BY <2>1, ControllerMoves
<1>2. Guarded!TypeOK'
  BY <1>1 DEF Guarded!TypeOK, Commands, Controllers, ControllerPcs
<1>3. OneAtATime'
  BY DEF OneAtATime, Active, Commands, Controllers
<1>4. ASSUME NEW o \in Runs PROVE CommandSound(o)'
  BY DEF Guarded!TypeOK, OneAtATime, Active, CommandSound, Commands, Controllers,
         Guarded!Sources
<1>5. OfflineMeansStopped'
  BY DEF OneAtATime, Active, CommandSound, OfflineMeansStopped, Offline, Commands,
         Controllers
<1>6. Guarded!PatchedIsRecoverable'
  BY DEF Guarded!TypeOK, CommandSound, Guarded!PatchedIsRecoverable, Commands
<1>7. Guarded!ServiceRunsItsPatch'
  BY DEF Guarded!TypeOK, CommandSound, Guarded!ServiceRunsItsPatch
<1>. QED  BY <1>1, <1>2, <1>3, <1>4, <1>5, <1>6, <1>7

\* So does a failure or a signal anywhere before it.
LEMMA RunFailsKeeps ==
  ASSUME GuardedIInv, NEW r \in Runs, Guarded!RunFails(r) PROVE GuardedIInv'
<1>. USE GuardedAssumption
        DEF Guarded!SourcePatchAssumption, GuardedIInv, Guarded!RunFails, Guarded!Go,
            Guarded!Fail, Guarded!Stopped, Guarded!LockFree, Guarded!Become,
            Guarded!NoCommand, Guarded!files, Guarded!Holds, Guarded!Running, Guarded!Body,
            Guarded!Trap
<1>1. cmd' \in [Runs -> Commands] /\ ctl' \in [Runs -> Controllers]
  <2>1. {"trap_stop"} \subseteq ControllerPcs /\ {0, 1, 130, 137} \subseteq Codes
    BY DEF ControllerPcs, Codes
  <2>. QED  BY <2>1, ControllerMoves
<1>2. Guarded!TypeOK'
  BY <1>1 DEF Guarded!TypeOK, Commands, Controllers, ControllerPcs
<1>3. OneAtATime'
  BY DEF OneAtATime, Active, Commands, Controllers
<1>4. ASSUME NEW o \in Runs PROVE CommandSound(o)'
  BY DEF Guarded!TypeOK, OneAtATime, Active, CommandSound, Commands, Controllers,
         Guarded!Sources
<1>5. OfflineMeansStopped'
  BY DEF OneAtATime, Active, CommandSound, OfflineMeansStopped, Offline, Commands,
         Controllers
<1>6. Guarded!PatchedIsRecoverable'
  BY DEF Guarded!TypeOK, CommandSound, Guarded!PatchedIsRecoverable, Commands
<1>7. Guarded!ServiceRunsItsPatch'
  BY DEF Guarded!TypeOK, CommandSound, Guarded!ServiceRunsItsPatch
<1>. QED  BY <1>1, <1>2, <1>3, <1>4, <1>5, <1>6, <1>7

\* The trap stops a service that was started, or fails to.
LEMMA TrapStopKeeps ==
  ASSUME GuardedIInv, NEW r \in Runs, Guarded!TrapStop(r) PROVE GuardedIInv'
<1>. USE GuardedAssumption
        DEF Guarded!SourcePatchAssumption, GuardedIInv, Guarded!TrapStop, Guarded!Go,
            Guarded!Fail, Guarded!Stopped, Guarded!LockFree, Guarded!Become,
            Guarded!NoCommand, Guarded!files, Guarded!Holds, Guarded!Running, Guarded!Body,
            Guarded!Trap, Guarded!AfterStop, Guarded!Owned
<1>1. cmd' \in [Runs -> Commands] /\ ctl' \in [Runs -> Controllers]
  <2>1. {"trap_verify", "trap_restore"} \subseteq ControllerPcs
    BY DEF ControllerPcs
  <2>. QED  BY <2>1, ControllerMoves
<1>2. Guarded!TypeOK'
  BY <1>1 DEF Guarded!TypeOK, Commands, Controllers, ControllerPcs
<1>3. OneAtATime'
  BY DEF OneAtATime, Active, Commands, Controllers
<1>4. ASSUME NEW o \in Runs PROVE CommandSound(o)'
  BY DEF Guarded!TypeOK, OneAtATime, Active, CommandSound, Commands, Controllers,
         Guarded!Sources
<1>5. OfflineMeansStopped'
  BY DEF OneAtATime, Active, CommandSound, OfflineMeansStopped, Offline, Commands,
         Controllers
<1>6. Guarded!PatchedIsRecoverable'
  BY DEF Guarded!TypeOK, CommandSound, Guarded!PatchedIsRecoverable, Commands
<1>7. Guarded!ServiceRunsItsPatch'
  BY DEF Guarded!TypeOK, CommandSound, Guarded!ServiceRunsItsPatch
<1>. QED  BY <1>1, <1>2, <1>3, <1>4, <1>5, <1>6, <1>7

\* It restores only after the service has been proved stopped.
LEMMA TrapVerifyKeeps ==
  ASSUME GuardedIInv, NEW r \in Runs, Guarded!TrapVerify(r) PROVE GuardedIInv'
<1>. USE GuardedAssumption
        DEF Guarded!SourcePatchAssumption, GuardedIInv, Guarded!TrapVerify, Guarded!Go,
            Guarded!Fail, Guarded!Stopped, Guarded!LockFree, Guarded!Become,
            Guarded!NoCommand, Guarded!files, Guarded!Holds, Guarded!Running, Guarded!Body,
            Guarded!Trap
<1>1. cmd' \in [Runs -> Commands] /\ ctl' \in [Runs -> Controllers]
  <2>1. {"trap_restore"} \subseteq ControllerPcs
    BY DEF ControllerPcs
  <2>. QED  BY <2>1, ControllerMoves
<1>2. Guarded!TypeOK'
  BY <1>1 DEF Guarded!TypeOK, Commands, Controllers, ControllerPcs
<1>3. OneAtATime'
  BY DEF OneAtATime, Active, Commands, Controllers
<1>4. ASSUME NEW o \in Runs PROVE CommandSound(o)'
  BY DEF Guarded!TypeOK, OneAtATime, Active, CommandSound, Commands, Controllers,
         Guarded!Sources
<1>5. OfflineMeansStopped'
  <2>1. /\ ctl[r].pc = "trap_verify" /\ ctl'[r].pc
             = "trap_restore" /\ (ctl'[r].ok => service = Nothing)
        /\ \A x \in Runs \ {r} : ctl'[x] = ctl[x]
    BY DEF Controllers
  <2>. QED  BY <2>1 DEF CommandSound, OfflineMeansStopped, Offline
<1>6. Guarded!PatchedIsRecoverable'
  BY DEF Guarded!TypeOK, CommandSound, Guarded!PatchedIsRecoverable, Commands
<1>7. Guarded!ServiceRunsItsPatch'
  BY DEF Guarded!TypeOK, CommandSound, Guarded!ServiceRunsItsPatch
<1>. QED  BY <1>1, <1>2, <1>3, <1>4, <1>5, <1>6, <1>7

\* The restore runs under the controller's lock, without a service.
LEMMA TrapRestoreKeeps ==
  ASSUME GuardedIInv, NEW r \in Runs, Guarded!TrapRestore(r) PROVE GuardedIInv'
<1>. USE GuardedAssumption
        DEF Guarded!SourcePatchAssumption, GuardedIInv, Guarded!TrapRestore, Guarded!Go,
            Guarded!Fail, Guarded!Stopped, Guarded!LockFree, Guarded!Become,
            Guarded!NoCommand, Guarded!files, Guarded!Holds, Guarded!Running, Guarded!Body,
            Guarded!Trap, Guarded!MayRestoreNow
<1>1. cmd' \in [Runs -> Commands] /\ ctl' \in [Runs -> Controllers]
  <2>1. /\ {"restoring", "trap_compare"} \subseteq ControllerPcs
        /\ {"checking", "none"} \subseteq CommandPcs
    BY DEF ControllerPcs, CommandPcs
  <2>. QED  BY <2>1, ControllerMoves, CommandBecomes
<1>2. Guarded!TypeOK'
  BY <1>1 DEF Guarded!TypeOK, Commands, Controllers, ControllerPcs
<1>3. OneAtATime'
  BY DEF OneAtATime, Active, Commands, Controllers
<1>4. ASSUME NEW o \in Runs PROVE CommandSound(o)'
  <2>1. {"checking", "none"} \subseteq CommandPcs
    BY DEF CommandPcs
  <2>2. /\ UNCHANGED <<source, saved>>
        /\ \A x \in Runs \ {r} : ctl'[x] = ctl[x] /\ cmd'[x] = cmd[x]
        /\ ctl'[r].pc \in {"restoring", "trap_compare"} /\ ~cmd'[r].writing
        /\ cmd'[r].pc \in {"checking",
             "none"} /\ (ctl'[r].pc # "restoring" => cmd'[r].pc = "none")
    BY <2>1, CommandBecomes DEF Controllers
  <2>. QED  BY <2>2 DEF CommandSound
<1>5. OfflineMeansStopped'
  BY DEF OneAtATime, Active, CommandSound, OfflineMeansStopped, Offline, Commands,
         Controllers
<1>6. Guarded!PatchedIsRecoverable'
  BY DEF Guarded!TypeOK, CommandSound, Guarded!PatchedIsRecoverable, Commands
<1>7. Guarded!ServiceRunsItsPatch'
  BY DEF Guarded!TypeOK, CommandSound, Guarded!ServiceRunsItsPatch
<1>. QED  BY <1>1, <1>2, <1>3, <1>4, <1>5, <1>6, <1>7

\* The outcome of the restore goes into the exit code.
LEMMA RestoreEndsKeeps ==
  ASSUME GuardedIInv, NEW r \in Runs, Guarded!RestoreEnds(r) PROVE GuardedIInv'
<1>. USE GuardedAssumption
        DEF Guarded!SourcePatchAssumption, GuardedIInv, Guarded!RestoreEnds, Guarded!Go,
            Guarded!Fail, Guarded!Stopped, Guarded!LockFree, Guarded!Become,
            Guarded!NoCommand, Guarded!files, Guarded!Holds, Guarded!Running, Guarded!Body,
            Guarded!Trap
<1>1. cmd' \in [Runs -> Commands] /\ ctl' \in [Runs -> Controllers]
  <2>1. {"trap_compare"} \subseteq ControllerPcs
    BY DEF ControllerPcs
  <2>. QED  BY <2>1, ControllerMoves
<1>2. Guarded!TypeOK'
  BY <1>1 DEF Guarded!TypeOK, Commands, Controllers, ControllerPcs
<1>3. OneAtATime'
  BY DEF OneAtATime, Active, Commands, Controllers
<1>4. ASSUME NEW o \in Runs PROVE CommandSound(o)'
  BY DEF Guarded!TypeOK, OneAtATime, Active, CommandSound, Commands, Controllers,
         Guarded!Sources
<1>5. OfflineMeansStopped'
  BY DEF OneAtATime, Active, CommandSound, OfflineMeansStopped, Offline, Commands,
         Controllers
<1>6. Guarded!PatchedIsRecoverable'
  BY DEF Guarded!TypeOK, CommandSound, Guarded!PatchedIsRecoverable, Commands
<1>7. Guarded!ServiceRunsItsPatch'
  BY DEF Guarded!TypeOK, CommandSound, Guarded!ServiceRunsItsPatch
<1>. QED  BY <1>1, <1>2, <1>3, <1>4, <1>5, <1>6, <1>7

\* Success is said after the sources have been compared.
LEMMA TrapCompareKeeps ==
  ASSUME GuardedIInv, NEW r \in Runs, Guarded!TrapCompare(r) PROVE GuardedIInv'
<1>. USE GuardedAssumption
        DEF Guarded!SourcePatchAssumption, GuardedIInv, Guarded!TrapCompare, Guarded!Go,
            Guarded!Fail, Guarded!Stopped, Guarded!LockFree, Guarded!Become,
            Guarded!NoCommand, Guarded!files, Guarded!Holds, Guarded!Running, Guarded!Body,
            Guarded!Trap, Guarded!FinalCode
<1>1. cmd' \in [Runs -> Commands] /\ ctl' \in [Runs -> Controllers]
  <2>1. {"exited"} \subseteq ControllerPcs /\ {0, 1, 130, 137} \subseteq Codes
    BY DEF ControllerPcs, Codes
  <2>. QED  BY <2>1, ControllerMoves
<1>2. Guarded!TypeOK'
  BY <1>1 DEF Guarded!TypeOK, Commands, Controllers, ControllerPcs
<1>3. OneAtATime'
  BY DEF OneAtATime, Active, Commands, Controllers
<1>4. ASSUME NEW o \in Runs PROVE CommandSound(o)'
  BY DEF Guarded!TypeOK, OneAtATime, Active, CommandSound, Commands, Controllers,
         Guarded!Sources
<1>5. OfflineMeansStopped'
  BY DEF OneAtATime, Active, CommandSound, OfflineMeansStopped, Offline, Commands,
         Controllers
<1>6. Guarded!PatchedIsRecoverable'
  BY DEF Guarded!TypeOK, CommandSound, Guarded!PatchedIsRecoverable, Commands
<1>7. Guarded!ServiceRunsItsPatch'
  BY DEF Guarded!TypeOK, CommandSound, Guarded!ServiceRunsItsPatch
<1>. QED  BY <1>1, <1>2, <1>3, <1>4, <1>5, <1>6, <1>7

\* A second signal ends the trap where it is, with a failure.
LEMMA SecondSignalKeeps ==
  ASSUME GuardedIInv, NEW r \in Runs, Guarded!SecondSignal(r) PROVE GuardedIInv'
<1>. USE GuardedAssumption
        DEF Guarded!SourcePatchAssumption, GuardedIInv, Guarded!SecondSignal, Guarded!Go,
            Guarded!Fail, Guarded!Stopped, Guarded!LockFree, Guarded!Become,
            Guarded!NoCommand, Guarded!files, Guarded!Holds, Guarded!Running, Guarded!Body,
            Guarded!Trap
<1>1. cmd' \in [Runs -> Commands] /\ ctl' \in [Runs -> Controllers]
  <2>1. {"exited"} \subseteq ControllerPcs /\ {0, 1, 130, 137} \subseteq Codes
    BY DEF ControllerPcs, Codes
  <2>. QED  BY <2>1, ControllerMoves
<1>2. Guarded!TypeOK'
  BY <1>1 DEF Guarded!TypeOK, Commands, Controllers, ControllerPcs
<1>3. OneAtATime'
  BY DEF OneAtATime, Active, Commands, Controllers
<1>4. ASSUME NEW o \in Runs PROVE CommandSound(o)'
  BY DEF Guarded!TypeOK, OneAtATime, Active, CommandSound, Commands, Controllers,
         Guarded!Sources
<1>5. OfflineMeansStopped'
  BY DEF OneAtATime, Active, CommandSound, OfflineMeansStopped, Offline, Commands,
         Controllers
<1>6. Guarded!PatchedIsRecoverable'
  BY DEF Guarded!TypeOK, CommandSound, Guarded!PatchedIsRecoverable, Commands
<1>7. Guarded!ServiceRunsItsPatch'
  BY DEF Guarded!TypeOK, CommandSound, Guarded!ServiceRunsItsPatch
<1>. QED  BY <1>1, <1>2, <1>3, <1>4, <1>5, <1>6, <1>7

\* A killed controller leaves its lock to its command.
LEMMA KillControllerKeeps ==
  ASSUME GuardedIInv, NEW r \in Runs, Guarded!KillController(r) PROVE GuardedIInv'
<1>. USE GuardedAssumption
        DEF Guarded!SourcePatchAssumption, GuardedIInv, Guarded!KillController, Guarded!Go,
            Guarded!Fail, Guarded!Stopped, Guarded!LockFree, Guarded!Become,
            Guarded!NoCommand, Guarded!files, Guarded!Holds, Guarded!Running, Guarded!Body,
            Guarded!Trap
<1>1. cmd' \in [Runs -> Commands] /\ ctl' \in [Runs -> Controllers]
  <2>1. {"exited"} \subseteq ControllerPcs /\ {0, 1, 130, 137} \subseteq Codes
    BY DEF ControllerPcs, Codes
  <2>. QED  BY <2>1, ControllerMoves
<1>2. Guarded!TypeOK'
  BY <1>1 DEF Guarded!TypeOK, Commands, Controllers, ControllerPcs
<1>3. OneAtATime'
  BY DEF OneAtATime, Active, Commands, Controllers
<1>4. ASSUME NEW o \in Runs PROVE CommandSound(o)'
  BY DEF Guarded!TypeOK, OneAtATime, Active, CommandSound, Commands, Controllers,
         Guarded!Sources
<1>5. OfflineMeansStopped'
  BY DEF OneAtATime, Active, CommandSound, OfflineMeansStopped, Offline, Commands,
         Controllers
<1>6. Guarded!PatchedIsRecoverable'
  BY DEF Guarded!TypeOK, CommandSound, Guarded!PatchedIsRecoverable, Commands
<1>7. Guarded!ServiceRunsItsPatch'
  BY DEF Guarded!TypeOK, CommandSound, Guarded!ServiceRunsItsPatch
<1>. QED  BY <1>1, <1>2, <1>3, <1>4, <1>5, <1>6, <1>7

\* A restore by hand begins when nobody is active.
LEMMA RestoreByHandKeeps ==
  ASSUME GuardedIInv, NEW r \in Runs, Guarded!RestoreByHand(r) PROVE GuardedIInv'
<1>. USE GuardedAssumption
        DEF Guarded!SourcePatchAssumption, GuardedIInv, Guarded!RestoreByHand, Guarded!Go,
            Guarded!Fail, Guarded!Stopped, Guarded!LockFree, Guarded!Become,
            Guarded!NoCommand, Guarded!files, Guarded!Holds, Guarded!Running, Guarded!Body,
            Guarded!Trap
<1>1. cmd' \in [Runs -> Commands] /\ ctl' \in [Runs -> Controllers]
  <2>1. {"checking"} \subseteq CommandPcs
    BY DEF CommandPcs
  <2>. QED  BY <2>1, CommandBecomes
<1>2. Guarded!TypeOK'
  BY <1>1 DEF Guarded!TypeOK, Commands, Controllers, ControllerPcs
<1>3. OneAtATime'
  BY DEF OneAtATime, Active, Commands, Controllers
<1>4. ASSUME NEW o \in Runs PROVE CommandSound(o)'
  BY DEF Guarded!TypeOK, OneAtATime, Active, CommandSound, Commands, Controllers,
         Guarded!Sources
<1>5. OfflineMeansStopped'
  BY DEF OneAtATime, Active, CommandSound, OfflineMeansStopped, Offline, Commands,
         Controllers
<1>6. Guarded!PatchedIsRecoverable'
  BY DEF Guarded!TypeOK, CommandSound, Guarded!PatchedIsRecoverable, Commands
<1>7. Guarded!ServiceRunsItsPatch'
  BY DEF Guarded!TypeOK, CommandSound, Guarded!ServiceRunsItsPatch
<1>. QED  BY <1>1, <1>2, <1>3, <1>4, <1>5, <1>6, <1>7

\* What a step of a patch command has to show: it keeps its own state sound, its sources
\* recoverable, and no service sees it.
LEMMA CommandFrame ==
  ASSUME GuardedIInv, NEW r \in Runs, Guarded!Running(r), UNCHANGED <<ctl, service>>,
         cmd' \in [Runs -> Commands],
         source' \in [Guarded!Sources -> Runs \union {Nothing}],
           tmp' \in [Runs -> SUBSET Guarded!Sources],
         saved' \in [Runs -> [exists : BOOLEAN, backups : SUBSET Guarded!Sources,
           manifest : BOOLEAN]],
         \A o \in Runs \ {r} : cmd'[o] = cmd[o] /\ tmp'[o] = tmp[o] /\ saved'[o] = saved[o],
         cmd'[r].writing => cmd'[r].at \in tmp'[r],
         \A k \in Guarded!Sources : source'[k] \in {source[k], Nothing, r},
         r \in {source'[k] : k \in Guarded!Sources} => saved'[r].manifest,
         CommandSound(r)'
  PROVE  GuardedIInv'
<1>. USE GuardedAssumption DEF Guarded!SourcePatchAssumption
<1>1. \A o \in Runs \ {r} : ~Active(o)
  BY DEF GuardedIInv, OneAtATime, Active
<1>2. Active(r)
  BY DEF Active
<1>3. \A o \in Runs \ {r} : ~Active(o)'
  BY <1>1 DEF Active, Guarded!Holds, Guarded!Running
<1>4. Guarded!TypeOK' /\ ctl' \in [Runs -> Controllers]
  BY DEF GuardedIInv, Guarded!TypeOK, Commands
<1>5. OneAtATime'
  BY <1>3 DEF OneAtATime
<1>6. ASSUME NEW o \in Runs \ {r} PROVE CommandSound(o)'
  BY <1>3
     DEF GuardedIInv, CommandSound, Active, Guarded!Running, Guarded!Holds, Guarded!Body
<1>7. OfflineMeansStopped'
  BY <1>3
     DEF GuardedIInv, OfflineMeansStopped, Offline, Active, Guarded!Running, Guarded!Holds,
         Guarded!Body, Guarded!Trap
<1>8. Guarded!PatchedIsRecoverable'
  BY DEF GuardedIInv, Guarded!PatchedIsRecoverable, CommandSound
<1>9. Guarded!ServiceRunsItsPatch'
  BY DEF GuardedIInv, Guarded!ServiceRunsItsPatch
<1>. QED  BY <1>4, <1>5, <1>6, <1>7, <1>8, <1>9 DEF GuardedIInv

(* What holds of a command that runs; the step of an action follows.       *)
LEMMA RunningCommand ==
  ASSUME GuardedIInv, NEW r \in Runs, Guarded!Running(r)
  PROVE  /\ cmd[r] \in Commands /\ cmd[r].at \in Guarded!Sources /\ cmd[r].at \in 1..NumSources
         /\ cmd \in [Runs -> Commands] /\ CommandSound(r) /\ ctl[r].pc # "arm"
         /\ source \in [Guarded!Sources -> Runs \union {Nothing}]
         /\ tmp \in [Runs -> SUBSET Guarded!Sources]
         /\ saved \in [Runs -> [exists : BOOLEAN, backups : SUBSET Guarded!Sources,
              manifest : BOOLEAN]]
         /\ cmd[r].writing => cmd[r].at \in tmp[r]
         /\ r \in {source[k] : k \in Guarded!Sources} => saved[r].manifest
<1>1. cmd[r] \in Commands /\ CommandSound(r)
  BY DEF GuardedIInv
<1>2. ctl[r].pc # "arm"
  BY <1>1 DEF CommandSound, Guarded!Holds, Guarded!Body
<1>. QED  BY <1>1, <1>2
             DEF GuardedIInv, Guarded!TypeOK, Commands, Guarded!Sources,
                 Guarded!PatchedIsRecoverable

\* The state directory is made, or found.
LEMMA PreparedKeeps ==
  ASSUME GuardedIInv, NEW r \in Runs, Guarded!Prepared(r), UNCHANGED <<ctl, service>>
  PROVE  GuardedIInv'
<1>1. Guarded!Running(r) /\ {"saving", "failed"} \subseteq CommandPcs
  BY DEF Guarded!Prepared, Guarded!Running, CommandPcs
<1>2. /\ cmd' \in [Runs -> Commands] /\ \A o \in Runs \ {r} : cmd'[o] = cmd[o]
      /\ ~cmd'[r].writing
      /\ \/ cmd'[r].pc \in {"preparing", "failed"}
         \/ cmd'[r].pc = "saving" /\ cmd'[r].at = 1
  <2>1. CASE Guarded!Advance(r, "saving")
    <3>1. cmd[r].pc = "preparing" /\ "saving" \in CommandPcs /\ cmd \in [Runs -> Commands]
      BY <1>1, RunningCommand DEF Guarded!Prepared
    <3>2. /\ cmd' \in [Runs -> Commands] /\ ~cmd'[r].writing
          /\ \/ cmd'[r].pc = cmd[r].pc
             \/ cmd'[r].at = 1 /\ cmd'[r].pc = "saving"
          /\ \A o \in Runs \ {r} : cmd'[o] = cmd[o]
      BY <2>1, <3>1, CommandAdvances
    <3>. QED  BY <3>1, <3>2
  <2>2. CASE Guarded!Become(r, "failed")
    BY <1>1, <2>2, RunningCommand, CommandBecomes
  <2>. QED  BY <2>1, <2>2 DEF Guarded!Prepared
<1>3. CommandSound(r)'
  BY <1>1, <1>2, RunningCommand
     DEF CommandSound, Guarded!Prepared, Guarded!files, Guarded!Holds, Guarded!Running
<1>. QED  BY <1>1, <1>2, <1>3, RunningCommand, CommandFrame
             DEF Guarded!Prepared, Guarded!files

\* An original is saved before any source is replaced.
LEMMA SaveSourceKeeps ==
  ASSUME GuardedIInv, NEW r \in Runs, Guarded!SaveSource(r), UNCHANGED <<ctl, service>>
  PROVE  GuardedIInv'
<1>1. Guarded!Running(r) /\ {"manifest", "failed"} \subseteq CommandPcs
  BY DEF Guarded!SaveSource, Guarded!Running, CommandPcs
<1>2. CASE cmd[r].at = 1 /\ saved[r].exists
  <2>1. /\ cmd' \in [Runs -> Commands] /\ \A o \in Runs \ {r} : cmd'[o] = cmd[o]
        /\ ~cmd'[r].writing /\ cmd'[r].pc = "failed" /\ UNCHANGED Guarded!files
    BY <1>1, <1>2, RunningCommand, CommandBecomes DEF Guarded!SaveSource, Guarded!files
  <2>2. CommandSound(r)'
    BY <1>1, <2>1, RunningCommand
       DEF CommandSound, Guarded!SaveSource, Guarded!files, Guarded!Holds, Guarded!Running
  <2>. QED  BY <1>1, <2>1, <2>2, RunningCommand, CommandFrame DEF Guarded!files
<1>3. CASE ~(cmd[r].at = 1 /\ saved[r].exists)
  <2>1. /\ saved' = [saved EXCEPT ![r].exists = TRUE, ![r].backups = @ \union {cmd[r].at}]
        /\ Guarded!Advance(r, "manifest") /\ UNCHANGED <<source, tmp>>
    BY <1>3 DEF Guarded!SaveSource
  <2>2. /\ cmd' \in [Runs -> Commands] /\ \A o \in Runs \ {r} : cmd'[o] = cmd[o]
        /\ ~cmd'[r].writing
        /\ \/ cmd[r].at < NumSources /\ cmd'[r].at = cmd[r].at + 1 /\ cmd'[r].pc = "saving"
           \/ cmd[r].at = NumSources /\ cmd'[r].pc = "manifest"
    BY <1>1, <2>1, RunningCommand, CommandAdvances DEF Guarded!SaveSource
  <2>3. /\ saved' \in [Runs -> [exists : BOOLEAN, backups : SUBSET Guarded!Sources,
             manifest : BOOLEAN]]
        /\ saved'[r].backups = saved[r].backups \union {cmd[r].at}
        /\ saved'[r].manifest = saved[r].manifest
        /\ \A o \in Runs \ {r} : saved'[o] = saved[o]
    BY <1>1, <2>1, RunningCommand, ZenonT(40)
  <2>4. /\ 1..(cmd[r].at - 1) \subseteq saved[r].backups
        /\ saved'[r].backups \subseteq Guarded!Sources
        /\ (saved[r].manifest => saved[r].backups = Guarded!Sources)
    BY <1>1, <2>3, RunningCommand DEF CommandSound, Guarded!SaveSource
  <2>5. 1..cmd[r].at \subseteq saved'[r].backups
    <3>1. cmd[r].at \in Nat /\ \A k \in 1..cmd[r].at : k = cmd[r].at \/ k \in 1..(cmd[r].at - 1)
      <4>1. cmd[r].at \in 1..NumSources /\ NumSources \in Nat
        BY <1>1, RunningCommand, GuardedAssumption DEF Guarded!SourcePatchAssumption
      <4>. QED  BY <4>1
    <3>. QED  BY <2>3, <2>4, <3>1
  <2>6. /\ cmd'[r].pc = "saving" => 1..(cmd'[r].at - 1) \subseteq saved'[r].backups
        /\ cmd'[r].pc = "manifest" \/ saved'[r].manifest => saved'[r].backups = Guarded!Sources
    <3>1. cmd[r].at \in Nat /\ (cmd[r].at + 1) - 1 = cmd[r].at
      BY <1>1, RunningCommand
    <3>2. cmd'[r].pc = "saving" => 1..(cmd'[r].at - 1) \subseteq saved'[r].backups
      BY <2>2, <2>5, <3>1
    <3>3. cmd'[r].pc = "manifest" => saved'[r].backups = Guarded!Sources
      BY <2>2, <2>4, <2>5 DEF Guarded!Sources
    <3>4. saved[r].manifest => saved'[r].backups = Guarded!Sources
      BY <2>3, <2>4
    <3>. QED  BY <2>3, <3>2, <3>3, <3>4
  <2>7. CommandSound(r)'
    BY <1>1, <2>1, <2>2, <2>6, RunningCommand
       DEF CommandSound, Guarded!SaveSource, Guarded!Holds, Guarded!Running
  <2>. QED  BY <1>1, <2>1, <2>2, <2>3, <2>7, RunningCommand, CommandFrame
<1>. QED  BY <1>2, <1>3

\* The manifest is written after the last original.
LEMMA WriteManifestKeeps ==
  ASSUME GuardedIInv, NEW r \in Runs, Guarded!WriteManifest(r), UNCHANGED <<ctl, service>>
  PROVE  GuardedIInv'
<1>1. Guarded!Running(r) /\ "installing" \in CommandPcs
  BY DEF Guarded!WriteManifest, Guarded!Running, CommandPcs
<1>2. /\ cmd' \in [Runs -> Commands] /\ \A o \in Runs \ {r} : cmd'[o] = cmd[o]
      /\ ~cmd'[r].writing /\ cmd'[r].pc = "installing" /\ cmd'[r].at = 1
  BY <1>1, RunningCommand, CommandBecomes DEF Guarded!WriteManifest
<1>3. /\ saved' \in [Runs -> [exists : BOOLEAN, backups : SUBSET Guarded!Sources,
           manifest : BOOLEAN]]
      /\ saved'[r].manifest /\ saved'[r].backups = saved[r].backups
      /\ \A o \in Runs \ {r} : saved'[o] = saved[o]
  BY <1>1, RunningCommand DEF Guarded!WriteManifest
<1>4. CommandSound(r)'
  BY <1>1, <1>2, <1>3, RunningCommand
     DEF CommandSound, Guarded!WriteManifest, Guarded!Holds, Guarded!Running
<1>. QED  BY <1>1, <1>2, <1>3, <1>4, RunningCommand, CommandFrame DEF Guarded!WriteManifest

\* A source that needs no change is skipped.
LEMMA SkipKeeps ==
  ASSUME GuardedIInv, NEW r \in Runs, Guarded!Skip(r), UNCHANGED <<ctl, service>>
  PROVE  GuardedIInv'
<1>1. /\ Guarded!Running(r) /\ {"failed", "recording"} \subseteq CommandPcs
      /\ cmd[r].pc \in {"undoing", "restoring"} /\ Guarded!After(r) \in {"failed", "recording"}
      /\ (cmd[r].pc = "undoing" => Guarded!After(r) = "failed")
  BY DEF Guarded!Skip, Guarded!InLoop, Guarded!Running, CommandPcs, Guarded!Replaces,
         Guarded!After
<1>2. /\ cmd' \in [Runs -> Commands] /\ \A o \in Runs \ {r} : cmd'[o] = cmd[o]
      /\ ~cmd'[r].writing /\ (cmd'[r].pc = cmd[r].pc \/ cmd'[r].pc = Guarded!After(r))
  BY <1>1, RunningCommand, CommandAdvances DEF Guarded!Skip
<1>3. CommandSound(r)'
  BY <1>1, <1>2, RunningCommand
     DEF CommandSound, Guarded!Skip, Guarded!files, Guarded!Holds, Guarded!Running
<1>. QED  BY <1>1, <1>2, <1>3, RunningCommand, CommandFrame DEF Guarded!Skip, Guarded!files

\* The temporary file is opened exclusively.
LEMMA OpenTemporaryKeeps ==
  ASSUME GuardedIInv, NEW r \in Runs, Guarded!OpenTemporary(r), UNCHANGED <<ctl, service>>
  PROVE  GuardedIInv'
<1>1. /\ Guarded!Running(r) /\ {"failed", "undoing"} \subseteq CommandPcs
      /\ cmd[r].pc \in {"installing", "undoing", "restoring"}
      /\ Guarded!OnError(r) \in {"undoing", "failed"}
  BY DEF Guarded!OpenTemporary, Guarded!InLoop, Guarded!Running, CommandPcs, Guarded!OnError
<1>2. CASE Guarded!Become(r, Guarded!OnError(r)) /\ UNCHANGED tmp
  <2>1. /\ cmd' \in [Runs -> Commands] /\ \A o \in Runs \ {r} : cmd'[o] = cmd[o]
        /\ ~cmd'[r].writing /\ cmd'[r].pc \in {"undoing", "failed"}
    BY <1>1, <1>2, RunningCommand, CommandBecomes
  <2>2. CommandSound(r)'
    BY <1>1, <2>1, RunningCommand
       DEF CommandSound, Guarded!OpenTemporary, Guarded!Holds, Guarded!Running
  <2>. QED  BY <1>1, <1>2, <2>1, <2>2, RunningCommand, CommandFrame
               DEF Guarded!OpenTemporary
<1>3. CASE /\ tmp' = [tmp EXCEPT ![r] = @ \union {cmd[r].at}]
           /\ cmd' = [cmd EXCEPT ![r].writing = TRUE]
  <2>1. [cmd[r] EXCEPT !.writing = TRUE] \in Commands
    BY <1>1, RunningCommand DEF Commands
  <2>2. /\ cmd' \in [Runs -> Commands] /\ \A o \in Runs \ {r} : cmd'[o] = cmd[o]
        /\ cmd'[r].pc = cmd[r].pc /\ cmd'[r].at = cmd[r].at
    BY <1>1, <1>3, <2>1, RunningCommand DEF Commands
  <2>3. /\ tmp' \in [Runs -> SUBSET Guarded!Sources] /\ cmd[r].at \in tmp'[r]
        /\ \A o \in Runs \ {r} : tmp'[o] = tmp[o]
    BY <1>1, <1>3, RunningCommand
  <2>4. CommandSound(r)'
    BY <1>1, <2>2, RunningCommand
       DEF CommandSound, Guarded!OpenTemporary, Guarded!Holds, Guarded!Running
  <2>. QED  BY <1>1, <2>2, <2>3, <2>4, RunningCommand, CommandFrame
               DEF Guarded!OpenTemporary
<1>. QED  BY <1>2, <1>3 DEF Guarded!OpenTemporary

\* The rename replaces one source, by the patch or by its original.
LEMMA ReplaceSourceKeeps ==
  ASSUME GuardedIInv, NEW r \in Runs, Guarded!ReplaceSource(r), UNCHANGED <<ctl, service>>
  PROVE  GuardedIInv'
<1>. USE GuardedAssumption DEF Guarded!SourcePatchAssumption
<1>1. cmd[r].pc \in {"installing", "undoing", "restoring"}
  BY DEF Guarded!ReplaceSource, GuardedIInv, CommandSound
<1>2. /\ Guarded!Running(r) /\ {"failed", "recording"} \subseteq CommandPcs
      /\ Guarded!After(r) \in {"failed",
           "recording"} /\ (cmd[r].pc = "undoing" => Guarded!After(r) = "failed")
      /\ Guarded!Wanted(r) \in {Nothing,
           r} /\ (Guarded!Wanted(r) = r <=> cmd[r].pc = "installing")
  BY <1>1 DEF Guarded!Running, CommandPcs, Guarded!After, Guarded!Wanted
<1>3. /\ cmd' \in [Runs -> Commands] /\ \A o \in Runs \ {r} : cmd'[o] = cmd[o]
      /\ ~cmd'[r].writing
      /\ \/ cmd[r].at < NumSources /\ cmd'[r].at = cmd[r].at + 1 /\ cmd'[r].pc = cmd[r].pc
         \/ cmd[r].at = NumSources /\ cmd'[r].pc = Guarded!After(r)
  BY <1>2, RunningCommand, CommandAdvances DEF Guarded!ReplaceSource
<1>4. /\ source' \in [Guarded!Sources -> Runs \union {Nothing}]
      /\ source'[cmd[r].at] = Guarded!Wanted(r)
      /\ \A k \in Guarded!Sources \ {cmd[r].at} : source'[k] = source[k]
      /\ tmp' \in [Runs -> SUBSET Guarded!Sources] /\ \A o \in Runs \ {r} : tmp'[o] = tmp[o]
  BY <1>2, RunningCommand DEF Guarded!ReplaceSource
<1>5. r \in {source'[k] : k \in Guarded!Sources} => saved'[r].manifest
  <2>1. CASE cmd[r].pc = "installing"
    BY <1>2, <2>1, RunningCommand DEF CommandSound, Guarded!ReplaceSource
  <2>2. CASE cmd[r].pc # "installing"
    BY <1>2, <1>4, <2>2, RunningCommand DEF Guarded!ReplaceSource
  <2>. QED  BY <2>1, <2>2
<1>6. ASSUME cmd[r].pc = "installing"
      PROVE  \A k \in 1..cmd[r].at : source'[k] = r
  <2>1. \A k \in 1..(cmd[r].at - 1) : source[k] = r
    BY <1>2, <1>6, RunningCommand DEF CommandSound
  <2>2. ASSUME NEW k \in 1..cmd[r].at PROVE source'[k] = r
    <3>1. k \in Guarded!Sources /\ (k = cmd[r].at \/ k \in 1..(cmd[r].at - 1))
      BY <1>2, RunningCommand DEF Guarded!Sources
    <3>. QED  BY <1>2, <1>4, <1>6, <2>1, <3>1
  <2>. QED  BY <2>2
<1>7. CommandSound(r)'
  <2>1. CASE cmd[r].pc = "installing"
    BY <1>2, <1>3, <1>6, <2>1, RunningCommand
       DEF CommandSound, Guarded!ReplaceSource, Guarded!Holds, Guarded!Running,
           Guarded!After, Guarded!Sources
  <2>2. CASE cmd[r].pc # "installing"
    BY <1>1, <1>2, <1>3, <2>2, RunningCommand
       DEF CommandSound, Guarded!ReplaceSource, Guarded!Holds, Guarded!Running
  <2>. QED  BY <2>1, <2>2
<1>. QED  BY <1>2, <1>3, <1>4, <1>5, <1>7, RunningCommand, CommandFrame
             DEF Guarded!ReplaceSource

\* A restore checks all sources before it replaces one.
LEMMA CheckRestoreKeeps ==
  ASSUME GuardedIInv, NEW r \in Runs, Guarded!CheckRestore(r), UNCHANGED <<ctl, service>>
  PROVE  GuardedIInv'
<1>1. Guarded!Running(r) /\ {"restoring", "failed"} \subseteq CommandPcs
  BY DEF Guarded!CheckRestore, Guarded!Running, CommandPcs
<1>2. /\ cmd' \in [Runs -> Commands] /\ \A o \in Runs \ {r} : cmd'[o] = cmd[o]
      /\ ~cmd'[r].writing /\ cmd'[r].pc \in {"restoring", "failed"}
  BY <1>1, RunningCommand, CommandBecomes DEF Guarded!CheckRestore
<1>3. CommandSound(r)'
  BY <1>1, <1>2, RunningCommand
     DEF CommandSound, Guarded!CheckRestore, Guarded!files, Guarded!Holds, Guarded!Running
<1>. QED  BY <1>1, <1>2, <1>3, RunningCommand, CommandFrame
             DEF Guarded!CheckRestore, Guarded!files

\* The record of the command changes no source.
LEMMA RecordCommandKeeps ==
  ASSUME GuardedIInv, NEW r \in Runs, Guarded!RecordCommand(r), UNCHANGED <<ctl, service>>
  PROVE  GuardedIInv'
<1>1. Guarded!Running(r) /\ "done" \in CommandPcs
  BY DEF Guarded!RecordCommand, Guarded!Running, CommandPcs
<1>2. /\ cmd' \in [Runs -> Commands] /\ \A o \in Runs \ {r} : cmd'[o] = cmd[o]
      /\ ~cmd'[r].writing /\ cmd'[r].pc = "done"
  BY <1>1, RunningCommand, CommandBecomes DEF Guarded!RecordCommand
<1>3. CommandSound(r)'
  BY <1>1, <1>2, RunningCommand
     DEF CommandSound, Guarded!RecordCommand, Guarded!files, Guarded!Holds, Guarded!Running
<1>. QED  BY <1>1, <1>2, <1>3, RunningCommand, CommandFrame
             DEF Guarded!RecordCommand, Guarded!files

\* A command that fails or is killed leaves the files as they are.
LEMMA CommandEndsKeeps ==
  ASSUME GuardedIInv, NEW r \in Runs, Guarded!CommandFails(r) \/ Guarded!KillCommand(r),
           UNCHANGED <<ctl, service>>
  PROVE  GuardedIInv'
<1>1. /\ Guarded!Running(r) /\ {"none", "failed", "undoing"} \subseteq CommandPcs
      /\ Guarded!OnError(r) \in {"failed", "undoing"} /\ UNCHANGED Guarded!files
  BY DEF Guarded!CommandFails, Guarded!KillCommand, Guarded!Running, CommandPcs,
         Guarded!OnError
<1>2. /\ cmd' \in [Runs -> Commands] /\ \A o \in Runs \ {r} : cmd'[o] = cmd[o]
      /\ ~cmd'[r].writing /\ cmd'[r].pc \in {"none", "failed", "undoing"}
  BY <1>1, RunningCommand, CommandBecomes DEF Guarded!CommandFails, Guarded!KillCommand
<1>3. CommandSound(r)'
  BY <1>1, <1>2, RunningCommand
     DEF CommandSound, Guarded!files, Guarded!Holds, Guarded!Running
<1>. QED  BY <1>1, <1>2, <1>3, RunningCommand, CommandFrame DEF Guarded!files

\* A service may end by itself.
LEMMA ServiceEndsKeeps == ASSUME GuardedIInv, Guarded!ServiceEnds PROVE GuardedIInv'
<1>1. UNCHANGED <<source, tmp, saved, cmd, ctl>> /\ service' = Nothing
  BY DEF Guarded!ServiceEnds, Guarded!files
<1>2. /\ Guarded!TypeOK'
      /\ OneAtATime'
      /\ OfflineMeansStopped'
      /\ Guarded!PatchedIsRecoverable'
      /\ Guarded!ServiceRunsItsPatch'
  BY <1>1
     DEF GuardedIInv, Guarded!TypeOK, OneAtATime, Active, Guarded!Holds, Guarded!Running,
         OfflineMeansStopped, Offline, Guarded!PatchedIsRecoverable,
         Guarded!ServiceRunsItsPatch
<1>3. \A r \in Runs : CommandSound(r)'
  BY <1>1 DEF GuardedIInv, CommandSound, Guarded!Holds, Guarded!Running
<1>. QED  BY <1>1, <1>2, <1>3 DEF GuardedIInv

\* Every step of the guarded runs keeps their invariant.
LEMMA GuardedKeeps == ASSUME GuardedIInv, [Guarded!Next]_(Guarded!vars) PROVE GuardedIInv'
<1>1. CASE UNCHANGED Guarded!vars
  <2>1. /\ Guarded!TypeOK'
        /\ OneAtATime'
        /\ OfflineMeansStopped'
        /\ Guarded!PatchedIsRecoverable'
        /\ Guarded!ServiceRunsItsPatch'
    BY <1>1
       DEF Guarded!vars, GuardedIInv, Guarded!TypeOK, OneAtATime, Active, Guarded!Holds,
           Guarded!Running, OfflineMeansStopped, Offline, Guarded!PatchedIsRecoverable,
           Guarded!ServiceRunsItsPatch
  <2>2. \A r \in Runs : CommandSound(r)'
    BY <1>1 DEF Guarded!vars, GuardedIInv, CommandSound, Guarded!Holds, Guarded!Running
  <2>. QED  BY <1>1, <2>1, <2>2 DEF GuardedIInv, Guarded!vars
<1>2. ASSUME NEW r \in Runs, Guarded!ControllerStep(r) PROVE GuardedIInv'
  BY <1>2, StartControllerKeeps, VerifyPrestartKeeps, CheckKeeps, InstallKeeps,
     InstallEndsKeeps, StartServiceKeeps, MeasureKeeps, StopServiceKeeps,
     VerifyStoppedKeeps, EndRunKeeps, RunFailsKeeps, TrapStopKeeps, TrapVerifyKeeps,
     TrapRestoreKeeps, RestoreEndsKeeps, TrapCompareKeeps, SecondSignalKeeps,
     KillControllerKeeps, RestoreByHandKeeps DEF Guarded!ControllerStep
<1>3. ASSUME NEW r \in Runs, Guarded!CommandStep(r), UNCHANGED <<ctl, service>>
      PROVE  GuardedIInv'
  BY <1>3, PreparedKeeps, SaveSourceKeeps, WriteManifestKeeps, SkipKeeps,
     OpenTemporaryKeeps, ReplaceSourceKeeps, CheckRestoreKeeps, RecordCommandKeeps,
     CommandEndsKeeps DEF Guarded!CommandStep
<1>. QED  BY <1>1, <1>2, <1>3, ServiceEndsKeeps DEF Guarded!Next

(* Only a rename of a patch command changes a source.                      *)
LEMMA StepsLeaveSources ==
  ASSUME GuardedIInv, [Guarded!Next]_(Guarded!vars)
  PROVE  service # Nothing /\ service' = service => source' = source
<1>. SUFFICES ASSUME service # Nothing, Guarded!Next PROVE source' = source
  BY DEF Guarded!vars
<1>1. \A r \in Runs : ~Guarded!Running(r)
  BY DEF GuardedIInv, OfflineMeansStopped, Offline
<1>2. \A r \in Runs : ~Guarded!ReplaceSource(r)
  BY <1>1 DEF Guarded!ReplaceSource, GuardedIInv, CommandSound, Guarded!Running
<1>3. ASSUME NEW r \in Runs, Guarded!CommandStep(r) PROVE source' = source
  BY <1>2, <1>3
     DEF Guarded!CommandStep, Guarded!Prepared, Guarded!SaveSource, Guarded!WriteManifest,
         Guarded!Skip, Guarded!OpenTemporary, Guarded!CheckRestore, Guarded!RecordCommand,
         Guarded!CommandFails, Guarded!KillCommand, Guarded!files
<1>4. ASSUME NEW r \in Runs, Guarded!ControllerStep(r) PROVE source' = source
  BY <1>4
     DEF Guarded!ControllerStep, Guarded!StartController, Guarded!VerifyPrestart,
         Guarded!Check, Guarded!Install, Guarded!InstallEnds, Guarded!StartService,
         Guarded!Measure, Guarded!StopService, Guarded!VerifyStopped, Guarded!EndRun,
         Guarded!RunFails, Guarded!TrapStop, Guarded!TrapVerify, Guarded!TrapRestore,
         Guarded!RestoreEnds, Guarded!TrapCompare, Guarded!SecondSignal,
         Guarded!KillController, Guarded!RestoreByHand, Guarded!files
<1>. QED  BY <1>3, <1>4 DEF Guarded!Next, Guarded!ServiceEnds, Guarded!files

\* A controller exits with 0 only when the service is stopped and every source is the
\* original.
LEMMA SuccessIsProven ==
  ASSUME GuardedIInv, [Guarded!Next]_(Guarded!vars), NEW o \in Runs,
         ctl[o].pc # "exited", ctl'[o].pc = "exited", ctl'[o].code = 0
  PROVE  service' = Nothing /\ \A k \in Guarded!Sources : source'[k] = Nothing
<1>1. Guarded!Next
  BY DEF Guarded!vars
<1>2. PICK r \in Runs : Guarded!ControllerStep(r)
  BY <1>1 DEF Guarded!Next, Guarded!ServiceEnds
<1>3. ctl \in [Runs -> Controllers]
  BY DEF GuardedIInv
<1>4. Guarded!TrapCompare(o)
  <2>1. ctl'[o] # ctl[o]
    OBVIOUS
  <2>2. ~(Guarded!SecondSignal(r) \/ Guarded!KillController(r) \/ Guarded!RestoreByHand(r))
    BY <1>3, <2>1
       DEF Guarded!SecondSignal, Guarded!KillController, Guarded!RestoreByHand, Controllers
  <2>3. ~(Guarded!StartController(r) \/ Guarded!VerifyPrestart(r) \/ Guarded!Check(r) \/ Guarded!Install(r) \/ Guarded!InstallEnds(r)
          \/ Guarded!StartService(r))
    BY <1>3, <2>1
       DEF Guarded!StartController, Guarded!VerifyPrestart, Guarded!Check, Guarded!Install,
           Guarded!InstallEnds, Guarded!StartService, Guarded!Go, Guarded!Fail, Controllers
  <2>4. ~(Guarded!Measure(r) \/ Guarded!StopService(r) \/ Guarded!VerifyStopped(r) \/ Guarded!EndRun(r) \/ Guarded!RunFails(r))
    BY <1>3, <2>1
       DEF Guarded!Measure, Guarded!StopService, Guarded!VerifyStopped, Guarded!EndRun,
           Guarded!RunFails, Guarded!Go, Guarded!Fail, Controllers
  <2>5. ~(Guarded!TrapStop(r) \/ Guarded!TrapVerify(r) \/ Guarded!TrapRestore(r) \/ Guarded!RestoreEnds(r))
    BY <1>3, <2>1
       DEF Guarded!TrapStop, Guarded!TrapVerify, Guarded!TrapRestore, Guarded!RestoreEnds,
           Guarded!Go, Controllers
  <2>6. Guarded!TrapCompare(r)
    BY <1>2, <2>2, <2>3, <2>4, <2>5 DEF Guarded!ControllerStep
  <2>7. r = o
    BY <1>3, <2>1, <2>6 DEF Guarded!TrapCompare
  <2>. QED  BY <2>6, <2>7
<1>5. ctl[o].ok /\ \A k \in Guarded!Sources : source[k] = Nothing
  BY <1>3, <1>4 DEF Guarded!TrapCompare, Guarded!FinalCode
<1>. QED  BY <1>4, <1>5
             DEF Guarded!TrapCompare, GuardedIInv, OfflineMeansStopped, Offline,
                 Guarded!files

-----------------------------------------------------------------------------
(* The phase runner has its proofs in a module of its own.                 *)
PhaseProofs == INSTANCE PhaseRunnerProofs WITH
  pc <- call, rec <- dict, elapsed <- late, sent <- signal

\* The two instances of the phase runner are the same: their definitions say so.
LEMMA SamePhase ==
  /\ Phase!Init <=> PhaseProofs!Init
  /\ [Phase!Next]_(Phase!vars) <=> [PhaseProofs!Next]_(PhaseProofs!vars)
  /\ Phase!TypeOK <=> concurrent \in BOOLEAN /\ PhaseProofs!CallsTypeOK
  /\ Phase!PhaseRunnerAssumption <=> PhaseProofs!PhaseRunnerAssumption
BY DEF Phase!PhaseRunnerAssumption, PhaseProofs!PhaseRunnerAssumption, Phase!ExitCodes,
       PhaseProofs!ExitCodes, Phase!Final, PhaseProofs!Final, Phase!Dicts,
       PhaseProofs!Dicts, Phase!Files, PhaseProofs!Files, Phase!runnerVars,
       PhaseProofs!runnerVars, Phase!clockVars, PhaseProofs!clockVars,
       Phase!childVars, PhaseProofs!childVars, Phase!callVars, PhaseProofs!callVars,
       Phase!vars, PhaseProofs!vars, Phase!NoRecord, PhaseProofs!NoRecord,
       Phase!Exited, PhaseProofs!Exited, Phase!Init, PhaseProofs!Init, Phase!At,
       PhaseProofs!At, Phase!Goto, PhaseProofs!Goto, Phase!Ended, PhaseProofs!Ended,
       Phase!Publish, PhaseProofs!Publish, Phase!Raise, PhaseProofs!Raise,
       Phase!CheckLogOnly, PhaseProofs!CheckLogOnly, Phase!CheckArtifacts,
       PhaseProofs!CheckArtifacts, Phase!RecordStarting, PhaseProofs!RecordStarting,
       Phase!OpenLog, PhaseProofs!OpenLog, Phase!StartChild, PhaseProofs!StartChild,
       Phase!RecordRunning, PhaseProofs!RecordRunning, Phase!InstallHandlers,
       PhaseProofs!InstallHandlers, Phase!MustStop, PhaseProofs!MustStop,
       Phase!Supervise, PhaseProofs!Supervise, Phase!StepFails,
       PhaseProofs!StepFails, Phase!LeaveLoop, PhaseProofs!LeaveLoop,
       Phase!AfterStop, PhaseProofs!AfterStop, Phase!TermOnly, PhaseProofs!TermOnly,
       Phase!StopChild, PhaseProofs!StopChild, Phase!EndOfFile,
       PhaseProofs!EndOfFile, Phase!ReadOutput, PhaseProofs!ReadOutput,
       Phase!StatusByExitCode, PhaseProofs!StatusByExitCode, Phase!FinalStatus,
       PhaseProofs!FinalStatus, Phase!CloseLog, PhaseProofs!CloseLog,
       Phase!RecordError, PhaseProofs!RecordError, Phase!Spawn, PhaseProofs!Spawn,
       Phase!WithExit, PhaseProofs!WithExit, Phase!EscapeHandler,
       PhaseProofs!EscapeHandler, Phase!InLoop, PhaseProofs!InLoop, Phase!RecordFinal,
       PhaseProofs!RecordFinal, Phase!Crash, PhaseProofs!Crash,
       Phase!KeyboardInterrupt, PhaseProofs!KeyboardInterrupt, Phase!AskToStop,
       PhaseProofs!AskToStop, Phase!TimeoutPasses, PhaseProofs!TimeoutPasses,
       Phase!SecondPasses, PhaseProofs!SecondPasses, Phase!WriteOutput,
       PhaseProofs!WriteOutput, Phase!Fork, PhaseProofs!Fork, Phase!CloseOutput,
       PhaseProofs!CloseOutput, Phase!ChildExits, PhaseProofs!ChildExits,
       Phase!ChildKilled, PhaseProofs!ChildKilled, Phase!RunnerStep,
       PhaseProofs!RunnerStep, Phase!Step, PhaseProofs!Step, Phase!Next,
       PhaseProofs!Next, Phase!Steps, PhaseProofs!Steps, Phase!CallsTypeOK,
       PhaseProofs!CallsTypeOK, Phase!TypeOK

(* The scripts together.                                                   *)
ScriptsIInv ==
  BridgeIInv /\ BenchIInv /\ GuardedIInv /\ PhaseProofs!IInv /\ concurrent \in BOOLEAN

\* Each script starts in one of its initial states.
LEMMA ScriptsInit == Init => ScriptsIInv
<1>. SUFFICES ASSUME Init PROVE ScriptsIInv
  OBVIOUS
<1>1. BridgeIInv /\ BenchIInv /\ GuardedIInv
  BY BridgeInit, BenchInit, GuardedInit DEF Init
<1>2. PhaseProofs!IInv
  BY SamePhase, PhaseAssumption, PhaseProofs!InitIInv DEF Init
<1>3. concurrent \in BOOLEAN
  BY DEF Init, Phase!Init
<1>. QED  BY <1>1, <1>2, <1>3 DEF ScriptsIInv

\* A step is one of the script that moves, and leaves the variables of the others alone.
LEMMA StepsOfOne ==
  ASSUME [Next]_vars
  PROVE  /\ [Bridge!Next]_(Bridge!vars) /\ [Bench!Next]_(Bench!vars)
         /\ [Guarded!Next]_(Guarded!vars)
         /\ [Phase!Next]_(Phase!vars) /\ (concurrent' = concurrent \/ Phase!Next)
<1>. USE DEF Next, vars, bridgeVars, benchVars, guardedVars, phaseVars, callVars
<1>1. [Bridge!Next]_(Bridge!vars)
  BY DEF Bridge!vars, Bridge!files, Bridge!cliVars
<1>2. [Bench!Next]_(Bench!vars)
  BY DEF Bench!vars, Bench!position, Bench!service, Bench!snapshots, Bench!results
<1>3. [Guarded!Next]_(Guarded!vars)
  BY DEF Guarded!vars
<1>4. [Phase!Next]_(Phase!vars)
  BY DEF Phase!vars, Phase!callVars, Phase!runnerVars, Phase!clockVars, Phase!childVars
<1>5. concurrent' = concurrent \/ Phase!Next
  OBVIOUS
<1>. QED  BY <1>1, <1>2, <1>3, <1>4, <1>5

\* Every step keeps the invariants of all the scripts.
LEMMA ScriptsKeep == ScriptsIInv /\ [Next]_vars => ScriptsIInv'
<1>. SUFFICES ASSUME ScriptsIInv, [Next]_vars PROVE ScriptsIInv'
  OBVIOUS
<1>1. BridgeIInv' /\ BenchIInv' /\ GuardedIInv'
  BY StepsOfOne, BridgeKeeps, BenchKeeps, GuardedKeeps DEF ScriptsIInv
<1>2. PhaseProofs!IInv'
  BY StepsOfOne, SamePhase, PhaseAssumption, PhaseProofs!NextKeeps DEF ScriptsIInv
<1>3. (concurrent \in BOOLEAN)'
  BY StepsOfOne DEF ScriptsIInv, Phase!Next
<1>. QED  BY <1>1, <1>2, <1>3 DEF ScriptsIInv

\* The invariant holds throughout.
THEOREM Invariance == Spec => []ScriptsIInv
BY ScriptsInit, ScriptsKeep, PTL DEF Spec

\* The variables of every script keep their types.
THEOREM TypeCorrect == Spec => []TypeOK
<1>1. ScriptsIInv => TypeOK
  BY SamePhase DEF ScriptsIInv, BridgeIInv, BenchIInv, GuardedIInv, PhaseProofs!IInv, TypeOK
<1>. QED  BY <1>1, Invariance, PTL

\* However many bridges and validators are called for a job, at once or one after the
\* other, and wherever they crash, its CLI is started once at most, and a run that answers
\* after a timeout has stopped it.
THEOREM CliIsUnderControl == Spec => []CliUnderControl
<1>1. ScriptsIInv => CliUnderControl
  BY BridgeFollows DEF ScriptsIInv, CliUnderControl
<1>. QED  BY <1>1, Invariance, PTL

\* VALID is only ever said of what the job's own CLI left when it had exited 0 by itself
\* and in time, although an agent may outlive its CLI and write the result late.
THEOREM ValidIsCleanExit == Spec => []ValidMeansCleanExit
<1>1. ScriptsIInv => ValidMeansCleanExit
  BY BridgeFollows DEF ScriptsIInv, ValidMeansCleanExit
<1>. QED  BY <1>1, Invariance, PTL

\* The hits of a row were served in its phase, whatever the service counts and whenever it
\* restarts; rows are kept from one file to the other; exit code 0 means all of them.
THEOREM CompleteRows == Spec => []RowsAreComplete
<1>1. ScriptsIInv => RowsAreComplete
  BY RowsFollow DEF ScriptsIInv, RowsAreComplete
<1>. QED  BY <1>1, Invariance, PTL

\* A row is written only for a phase that succeeded and was accepted, from its own log.
THEOREM EarnedRows == Spec => RowsEarned
<1>1. ScriptsIInv /\ [Next]_vars =>
        [Len(jsonl') > Len(jsonl) \/ Len(csv'.rows) > Len(csv.rows) =>
           recorded[phase] = "succeeded" /\ phase \in accepted /\ parsed = Bench!Here
        ]_(Bench!results)
  BY StepsOfOne, StepsEarnRows DEF ScriptsIInv, Bench!vars
<1>. QED  BY <1>1, Invariance, PTL DEF Spec, RowsEarned, Bench!RowsEarned

\* Installed sources with a patch can be recovered from the backups, wherever commands and
\* controllers fail or are killed, and a service has loaded the complete patch of its run.
THEOREM WholePatches == Spec => []PatchesAreWhole
<1>1. ScriptsIInv => PatchesAreWhole
  BY DEF ScriptsIInv, GuardedIInv, PatchesAreWhole
<1>. QED  BY <1>1, Invariance, PTL

\* The sources do not change under a live service.
THEOREM SourcesUnderService == Spec => NoChangeUnderService
<1>1. ScriptsIInv /\ [Next]_vars =>
        [service # Nothing /\ service' = service => source' = source]_(Guarded!vars)
  BY StepsOfOne, StepsLeaveSources DEF ScriptsIInv
<1>. QED  BY <1>1, Invariance, PTL DEF Spec, NoChangeUnderService, Guarded!NoChangeUnderService

\* A controller that reports success has left the service stopped and every source
\* original, though a second signal may have cut its cleanup short.
THEOREM SuccessIsRestored == Spec => SuccessMeansRestored
<1>1. ScriptsIInv /\ [Next]_vars =>
        [\A r \in Runs : ctl[r].pc # "exited" /\ ctl'[r].pc = "exited" /\ ctl'[r].code = 0
           => service' = Nothing /\ \A k \in Guarded!Sources : source'[k] = Nothing
        ]_(Guarded!vars)
  BY StepsOfOne, SuccessIsProven DEF ScriptsIInv
<1>. QED  BY <1>1, Invariance, PTL DEF Spec, SuccessMeansRestored, Guarded!SuccessMeansRestored
=============================================================================
