----------------------------- MODULE PrefixBench -----------------------------
(***************************************************************************)
(* The prefix-cache benchmark (glm5-3/adapters/aisbench): prefix_bench.py  *)
(* runs rounds of a warmup and a full phase through run_phase, measures    *)
(* the cache with the counters of hit_rate_collector.py and adds rows to   *)
(* two result files (result_writer.py).  Invocations follow one another;   *)
(* any of them may be killed.  What a phase's command does is abstracted   *)
(* to how run_phase ends; one endpoint and one engine stand for all.       *)
(***************************************************************************)
EXTENDS Integers, Sequences, FiniteSets

CONSTANTS
  MaxRounds,       \* bound: the rounds of an invocation
  MaxInvocations,  \* bound: invocations of main
  MaxQueries,      \* bound: prefix-cache queries the service counts at once
  Nothing

PrefixBenchAssumption ==
  /\ MaxRounds \in Nat \ {0} /\ MaxInvocations \in Nat \ {0} /\ MaxQueries \in Nat

VARIABLES
  step,       \* the next step of the invocation
  invocation, \* invocations so far
  rounds,     \* how many rounds it was given
  round, phase,
  recorded,   \* status in <phase>_execution.json, "none" without the file
  accepted,   \* phases whose <phase>_acceptance.json is in the directory
  counters,   \* the service's counters, reset when it restarts
  served,     \* what it has really served since the phase's first snapshot
  before, after,  \* the phase's two snapshots
  parsed,     \* the phase whose output is in aisbench.log
  csv,        \* the CSV file: "absent", "empty" without a header, or "rows"
  existing,   \* the rows write_csv has read from it
  jsonl,      \* the rows of the JSONL file
  code        \* how the last invocation has ended

position == <<invocation, rounds, round, phase>>
service == <<counters, served>>
snapshots == <<before, after>>
results == <<csv, existing, jsonl>>
vars == <<step, position, recorded, accepted, service, snapshots, parsed, results, code>>

Phases == {"warmup", "full"}
NoRecords == [p \in Phases |-> "none"]
Zero == [queries |-> 0, hits |-> 0]
Here == <<invocation, round, phase>>
Delta == [queries |-> after.queries - before.queries, hits |-> after.hits - before.hits]
(* A row is named by the phase it reports.                                 *)
Row == Here

Init ==
  /\ step = "idle" /\ invocation = 0 /\ rounds = 1 /\ round = 0 /\ phase = "warmup"
  /\ recorded = NoRecords /\ accepted = {}
  /\ counters = Zero /\ served = Zero /\ before = Zero /\ after = Zero
  /\ parsed = Nothing
  /\ csv = [state |-> "absent", rows |-> <<>>] /\ existing = <<>> /\ jsonl = <<>>
  /\ code = "none"

Running == step # "idle"
Record(status) == recorded' = [recorded EXCEPT ![phase] = status]
End(how) == step' = "idle" /\ code' = how

(* main starts its first round, in the directory of the last invocation or *)
(* in another one; the result files are the same.                          *)
Invoke ==
  /\ step = "idle" /\ invocation < MaxInvocations
  /\ invocation' = invocation + 1
  /\ rounds' \in 1..MaxRounds /\ round' = 1 /\ phase' = "warmup"
  /\ \/ recorded' = NoRecords /\ accepted' = {}
     \/ UNCHANGED <<recorded, accepted>>
  /\ step' = "before" /\ code' = "none"
  /\ UNCHANGED <<service, snapshots, parsed, results>>

SnapshotBefore ==
  /\ step = "before"
  /\ before' = counters /\ served' = Zero
  /\ step' = "execute"
  /\ UNCHANGED <<position, recorded, accepted, counters, after, parsed, results, code>>

(* run_phase refuses a phase whose record exists with FileExistsError.     *)
BeginPhase ==
  /\ step = "execute"
  /\ \/ /\ recorded[phase] = "none"
        /\ Record("running")
        /\ step' = "command" /\ UNCHANGED code
     \/ recorded[phase] # "none" /\ End("refused") /\ UNCHANGED recorded
  /\ UNCHANGED <<position, accepted, service, snapshots, parsed, results>>

\* Mutated form: the log of a failed command is parsed like any other.
EndAnyPhase ==
  /\ step = "command"
  /\ \E status \in {"succeeded", "failed"} : Record(status)
  /\ parsed' = Here /\ step' = "after" /\ UNCHANGED code
  /\ UNCHANGED <<position, accepted, service, snapshots, results>>

(* Only a phase that succeeded has its log copied for the parser.          *)
EndPhase ==
  /\ step = "command"
  /\ \/ Record("succeeded") /\ parsed' = Here /\ step' = "after" /\ UNCHANGED code
     \/ Record("failed") /\ End("failed") /\ UNCHANGED parsed
  /\ UNCHANGED <<position, accepted, service, snapshots, results>>

SnapshotAfter ==
  /\ step = "after"
  /\ after' = counters
  /\ step' = "rate"
  /\ UNCHANGED <<position, recorded, accepted, service, before, parsed, results, code>>

\* Mutated form: only the hits are compared with the queries.
UnsignedDelta == Delta.hits <= Delta.queries

ValidDelta == 0 <= Delta.hits /\ Delta.hits <= Delta.queries

ComputeHitRate ==
  /\ step = "rate"
  /\ \/ ValidDelta /\ step' = "details" /\ UNCHANGED code
     \/ ~ValidDelta /\ End("failed")
  /\ UNCHANGED <<position, recorded, accepted, service, snapshots, parsed, results>>

(* The details may be missing, or fail the count, length or success checks; *)
(* the acceptance file is created exclusively.                             *)
ValidateDetails ==
  /\ step = "details"
  /\ \/ /\ phase \notin accepted
        /\ accepted' = accepted \cup {phase}
        /\ step' = "csv" /\ UNCHANGED code
     \/ /\ phase \notin accepted
        /\ accepted' = accepted \cup {phase}
        /\ End("failed")
     \/ End("failed") /\ UNCHANGED accepted
  /\ UNCHANGED <<position, recorded, service, snapshots, parsed, results>>

(* write_csv reads the file and opens it for writing, which empties it; the *)
(* rows, fewer than its buffer holds, reach the file when it is closed.    *)
(* The header of an empty file cannot be read.                             *)
OpenCsv ==
  /\ step = "csv"
  /\ \/ csv.state = "empty" /\ End("failed") /\ UNCHANGED <<csv, existing>>
     \/ /\ csv.state # "empty"
        /\ existing' = csv.rows
        /\ csv' = [state |-> "empty", rows |-> <<>>]
        /\ step' = "fill" /\ UNCHANGED code
  /\ UNCHANGED <<position, recorded, accepted, service, snapshots, parsed, jsonl>>

CloseCsv ==
  /\ step = "fill"
  /\ csv' = [state |-> "rows", rows |-> Append(existing, Row)]
  /\ step' = "jsonl"
  /\ UNCHANGED <<position, recorded, accepted, service, snapshots, parsed, existing, jsonl,
                 code>>

NextPhase ==
  \/ /\ phase = "warmup"
     /\ phase' = "full" /\ step' = "before" /\ UNCHANGED <<round, code>>
  \/ /\ phase = "full" /\ round < rounds
     /\ phase' = "warmup" /\ round' = round + 1 /\ step' = "before" /\ UNCHANGED code
  \/ /\ phase = "full" /\ round = rounds
     /\ End("zero") /\ UNCHANGED <<round, phase>>

AppendJsonl ==
  /\ step = "jsonl"
  /\ jsonl' = Append(jsonl, Row)
  /\ NextPhase
  /\ UNCHANGED <<invocation, rounds, recorded, accepted, service, snapshots, parsed, csv, existing>>

Kill ==
  /\ Running
  /\ End("killed")
  /\ UNCHANGED <<position, recorded, accepted, service, snapshots, parsed, results>>

(***************************************************************************)
(* The service.                                                            *)
(***************************************************************************)
Serve ==
  /\ step = "command" /\ served.queries < MaxQueries
  /\ \E hit \in {0, 1} :
       LET Count(c) == [queries |-> c.queries + 1, hits |-> c.hits + hit]
       IN  counters' = Count(counters) /\ served' = Count(served)
  /\ UNCHANGED <<step, position, recorded, accepted, snapshots, parsed, results, code>>

RestartService ==
  /\ Running /\ counters # Zero
  /\ counters' = Zero
  /\ UNCHANGED <<step, position, recorded, accepted, served, snapshots, parsed, results,
                 code>>

BenchStep ==
  \/ SnapshotBefore \/ BeginPhase \/ EndPhase \/ SnapshotAfter \/ ComputeHitRate
  \/ ValidateDetails \/ OpenCsv \/ CloseCsv \/ AppendJsonl

Next == Invoke \/ BenchStep \/ Kill \/ Serve \/ RestartService

Spec == Init /\ [][Next]_vars

-----------------------------------------------------------------------------
(***************************************************************************)
(* Properties of the prefix-cache benchmark.                               *)
(***************************************************************************)

Positions == (0..MaxInvocations) \X (0..MaxRounds) \X Phases
Counts == [queries : Nat, hits : Nat]
Elements(s) == {s[i] : i \in DOMAIN s}

\* The variables of the benchmark, its files and the service keep their types;
\* no round is begun beyond those that were asked for.
TypeOK ==
  /\ step \in {"idle", "before", "execute", "command", "after", "rate", "details", "csv",
               "fill", "jsonl"}
  /\ Here \in Positions /\ rounds \in 1..MaxRounds /\ round <= rounds
  /\ recorded \in [Phases -> {"none", "running", "succeeded", "failed"}]
  /\ accepted \subseteq Phases
  /\ counters \in Counts /\ served \in Counts /\ before \in Counts /\ after \in Counts
  /\ parsed \in Positions \cup {Nothing}
  /\ csv \in [state : {"absent", "empty", "rows"}, rows : Seq(Positions)]
  /\ existing \in Seq(Positions) /\ jsonl \in Seq(Positions)
  /\ code \in {"none", "zero", "failed", "refused", "killed"}

\* A row is written only for a phase whose command exited 0 and whose details
\* passed, from the log of that phase and no other, although earlier phases
\* and killed invocations have left their logs under the same name.
RowsEarned ==
  [][Len(jsonl') > Len(jsonl) \/ Len(csv'.rows) > Len(csv.rows) =>
       recorded[phase] = "succeeded" /\ phase \in accepted /\ parsed = Here]_results

\* The hits and queries of a row never exceed what the service has served in
\* that phase, although the service may restart, and its counters fall back to
\* zero, between the two snapshots.
HitsWereServed ==
  step \in {"details", "csv", "fill", "jsonl"} =>
    /\ 0 <= Delta.hits /\ Delta.hits <= Delta.queries
    /\ Delta.queries <= served.queries /\ Delta.hits <= served.hits

\* A CSV file with rows has every row of the JSONL file, whichever invocation
\* was killed between the two writes.
JsonlInCsv == csv.state = "rows" => Elements(jsonl) \subseteq Elements(csv.rows)

\* An invocation exits 0 only with a row of both phases of each of its rounds
\* in both files.
ZeroMeansComplete ==
  code = "zero" =>
    \A r \in 1..rounds, p \in Phases :
      \A rows \in {jsonl, csv.rows} :
        \E i \in DOMAIN rows : rows[i] = <<invocation, r, p>>
=============================================================================
