---------------------------- MODULE TargetMetadata ----------------------------
(***************************************************************************)
(* The attention metadata of the target under context parallelism          *)
(* (runtime/target_metadata.py): each rank of the tensor-parallel group    *)
(* takes a slice of the cohort's tokens, and derives from the positions    *)
(* which requests its slice belongs to, how far each of them may look      *)
(* back, and where the new KV goes.  The metadata is either updated in     *)
(* place before a pass or computed ahead into a private scratch and        *)
(* committed.  With it, the pages that a pass may write, as the page audit *)
(* derives them from that metadata (diagnostics/target_page_audit.py).     *)
(***************************************************************************)
EXTENDS Integers, Sequences, FiniteSets, FiniteSetsExt, Functions

CONSTANTS
  BatchSize,    \* 12
  Width,        \* 8 tokens per request
  TpSizes,      \* the sizes of the tensor-parallel group
  GroupRatios,  \* the compression ratio of each attention group, in their order
  BlockSize,    \* tokens, or compressed tokens, per block
  BlockTable,   \* block of a request's column, for every group
  MaxComputed   \* bound: positions

Requests == 0..(BatchSize - 1)
FlatTokens == 0..(BatchSize * Width - 1)
Groups == DOMAIN GroupRatios

TargetMetadataAssumption ==
  /\ BatchSize \in Nat \ {0} /\ Width \in Nat \ {0} /\ BlockSize \in Nat \ {0}
  /\ TpSizes \subseteq Nat \ {0}
  /\ MaxComputed \in Nat
  /\ GroupRatios \in Seq(Nat \ {0})
  \* A row of the table covers the positions of a pass.
  /\ \A r \in Requests :
       0..((MaxComputed + Width - 1) \div BlockSize) \subseteq DOMAIN BlockTable[r]

VARIABLES
  tpSize,     \* tp_size
  computed,   \* num_computed_tokens
  active,     \* by rank and group: the tensors the bound target reads
  scratch,    \* by rank: the next pass computed ahead, or Nothing
  prepared    \* the ranks whose target tensors are ready for the pass

vars == <<tpSize, computed, active, scratch, prepared>>

(***************************************************************************)
(* The slice of a rank, fixed when its updater is built.                   *)
(***************************************************************************)
Ranks == 0..(tpSize - 1)

Clamp(n, low, high) == IF n < low THEN low ELSE IF n > high THEN high ELSE n

QueryStart(r) == r * Width   \* query_start_loc

TokensPerRank == (BatchSize * Width + tpSize - 1) \div tpSize

LocalStart(k) == k * TokensPerRank
LocalEnd(k) == LocalStart(k) + TokensPerRank

LocalBegin(k, r) == Clamp(QueryStart(r), LocalStart(k), LocalEnd(k))
LocalStop(k, r) == Clamp(QueryStart(r + 1), LocalStart(k), LocalEnd(k))
LocalLength(k, r) == LocalStop(k, r) - LocalBegin(k, r)

\* local_query_start_loc, the running sum of the lengths
LocalQueryStart(k) ==
  LET sums[r \in 0..BatchSize] == IF r = 0 THEN 0 ELSE sums[r - 1] + LocalLength(k, r - 1)
  IN  sums

(***************************************************************************)
(* What update computes from the positions of the next pass.               *)
(***************************************************************************)
Position(t) == computed[t \div Width] + (t % Width)
SeqLen(r) == computed[r] + Width

\* The tokens of the request that come after the slice are not seen from it.
LocalSeqLen(k, r) ==
  LET offset == QueryStart(r + 1) - LocalStop(k, r)
  IN  IF LocalLength(k, r) > 0 THEN Max({SeqLen(r) - offset, 0}) ELSE 0

(* The operators' metadata, by what it is computed from: once per ratio.   *)
SparseMetadata(k, g) ==
  LET first == Min({h \in Groups : GroupRatios[h] = GroupRatios[g]})
  IN  [ratio |-> GroupRatios[first], query |-> LocalQueryStart(k),
       lengths |-> [r \in Requests |-> LocalSeqLen(k, r)]]

SlotOf(t) == <<BlockTable[t \div Width][Position(t) \div BlockSize], Position(t) % BlockSize>>

Refreshed(k) ==
  [rope |-> [t \in (LocalStart(k)..(LocalEnd(k) - 1)) \cap FlatTokens |-> Position(t)],
   groups |-> [g \in Groups |->
     [startPos |-> [r \in Requests |-> SeqLen(r) - Width],
      localQueryStart |-> LocalQueryStart(k),
      localSeqLens |-> [r \in Requests |-> LocalSeqLen(k, r)],
      sparse |-> SparseMetadata(k, g),
      slots |-> [t \in FlatTokens |-> SlotOf(t)]]]]

\* Mutated form: the lengths of the groups are not committed.
CommittedWithoutLengths(old, new) ==
  [rope |-> new.rope,
   groups |-> [g \in Groups |-> [new.groups[g] EXCEPT !.localSeqLens = old.groups[g].localSeqLens]]]

(* commit_from: tensor by tensor, into the destinations that keep their    *)
(* addresses.                                                              *)
Committed(old, new) ==
  [old EXCEPT !.rope = new.rope,
              !.groups = [g \in Groups |->
                [old.groups[g] EXCEPT !.startPos = new.groups[g].startPos,
                                      !.localQueryStart = new.groups[g].localQueryStart,
                                      !.localSeqLens = new.groups[g].localSeqLens,
                                      !.sparse = new.groups[g].sparse,
                                      !.slots = new.groups[g].slots]]]

(***************************************************************************)
(* The cycle.                                                              *)
(***************************************************************************)
Nothing == <<>>

Init ==
  /\ tpSize \in TpSizes
  /\ computed \in [Requests -> 0..MaxComputed]
  /\ active = [k \in Ranks |-> Refreshed(k)] /\ scratch = [k \in Ranks |-> Nothing]
  /\ prepared = {}

\* Serial or overlapped with the proposer, after advance_state.
LaunchScratch(k) ==
  /\ prepared = {} /\ scratch[k] = Nothing
  /\ scratch' = [scratch EXCEPT ![k] = Refreshed(k)]
  /\ UNCHANGED <<tpSize, computed, active, prepared>>

CommitScratch(k) ==
  /\ k \notin prepared /\ scratch[k] # Nothing
  /\ active' = [active EXCEPT ![k] = Committed(@, scratch[k])]
  /\ scratch' = [scratch EXCEPT ![k] = Nothing]
  /\ prepared' = prepared \cup {k}
  /\ UNCHANGED <<tpSize, computed>>

Update(k) ==
  /\ k \notin prepared /\ scratch[k] = Nothing
  /\ active' = [active EXCEPT ![k] = Refreshed(k)]
  /\ prepared' = prepared \cup {k}
  /\ UNCHANGED <<tpSize, computed, scratch>>

(* The collectives of the target keep the ranks together: all of them are  *)
(* prepared when the pass runs.                                            *)
Advance ==
  /\ prepared = Ranks
  /\ \E accepted \in [Requests -> 0..Width] :
       computed' = [r \in Requests |-> computed[r] + accepted[r]]
  /\ \A r \in Requests : computed'[r] <= MaxComputed
  /\ prepared' = {}
  /\ UNCHANGED <<tpSize, active, scratch>>

\* A parked request is rewound, and what was computed ahead is dropped.
Park(r) ==
  /\ prepared = {}
  /\ \E position \in 0..computed[r] : computed' = [computed EXCEPT ![r] = position]
  /\ scratch' = [k \in Ranks |-> Nothing]
  /\ UNCHANGED <<tpSize, active, prepared>>

Next ==
  \/ \E k \in Ranks : LaunchScratch(k) \/ CommitScratch(k) \/ Update(k)
  \/ Advance
  \/ \E r \in Requests : Park(r)

Spec == Init /\ [][Next]_vars

(***************************************************************************)
(* The pages of the audit's manifest: blocks of the states of all tokens,  *)
(* and blocks of the compressed tokens that are completed.                 *)
(***************************************************************************)
Compressed(g) == GroupRatios[g] > 1

\* Mutated form: a compressed token counts when its first token is there.
FirstToLastStarted(start, ratio) == (start \div ratio)..((start + Width - 1) \div ratio)

FirstToLastCompleted(start, ratio) == (start \div ratio)..((start + Width) \div ratio - 1)

TablePages(k, g) ==
  LET start(r) == active[k].groups[g].startPos[r]
      columns(r) ==
        IF Compressed(g)
        THEN {p \div BlockSize : p \in FirstToLastCompleted(start(r), GroupRatios[g])}
        ELSE (start(r) \div BlockSize)..((start(r) + Width - 1) \div BlockSize)
  IN  UNION {{BlockTable[r][c] : c \in columns(r)} : r \in Requests}

-----------------------------------------------------------------------------
(***************************************************************************)
(* Properties of the target's metadata.                                    *)
(***************************************************************************)

TableBlocks == UNION {Range(BlockTable[r]) : r \in Requests}

\* The variables keep their types, and so do the tensors of every rank: the
\* running sums lie within the slice and the lengths within the sequences.
TypeOK ==
  /\ tpSize \in TpSizes /\ computed \in [Requests -> 0..MaxComputed]
  /\ prepared \subseteq Ranks
  /\ \A k \in Ranks :
       /\ scratch[k] # Nothing => DOMAIN scratch[k].groups = Groups
       /\ DOMAIN active[k].rope \subseteq FlatTokens
       /\ \A g \in Groups :
            /\ active[k].groups[g].startPos \in [Requests -> 0..MaxComputed]
            /\ active[k].groups[g].localQueryStart \in [0..BatchSize -> 0..TokensPerRank]
            /\ active[k].groups[g].localSeqLens \in [Requests -> 0..(MaxComputed + Width)]
            /\ active[k].groups[g].slots \in
                 [FlatTokens -> TableBlocks \X (0..(BlockSize - 1))]

\* However the cohort is cut, also within a request and with ranks that stay
\* empty, each of its tokens is computed by exactly one rank.
EachTokenOnce ==
  \A t \in FlatTokens :
    Cardinality({k \in Ranks : LocalStart(k) <= t /\ t < LocalEnd(k)}) = 1

\* What the attention kernel makes of a rank's metadata: its row i belongs to
\* the request in whose part of the running sum it lies, and sees the keys
\* that are left when the rows after it are taken from the request's length.
RowIn(query, i) == CHOOSE r \in Requests : query[r] <= i /\ i < query[r + 1]
KeysSeen(query, lengths, i) ==
  LET r == RowIn(query, i) IN lengths[r] - (query[r + 1] - 1 - i)

\* When the ranks run the target, every token of every slice is attributed to
\* its request, sees exactly the keys up to its own position and is rotated by
\* that position, and the operators were prepared with the same lengths.
AttendsCausally ==
  prepared = Ranks =>
    \A k \in Ranks, g \in Groups :
      LET group == active[k].groups[g]
      IN  /\ group.sparse = [ratio |-> GroupRatios[g], query |-> group.localQueryStart,
                             lengths |-> group.localSeqLens]
          /\ \A t \in DOMAIN active[k].rope :
               LET i == t - LocalStart(k)
               IN  /\ RowIn(group.localQueryStart, i) = t \div Width
                   /\ KeysSeen(group.localQueryStart, group.localSeqLens, i) = Position(t) + 1
                   /\ active[k].rope[t] = Position(t)

\* A prepared rank has the metadata of the pass at hand, whether it was
\* updated in place or committed from what was computed ahead.
PreparedIsCurrent == \A k \in prepared : active[k] = Refreshed(k)

\* The pages that a pass writes: of the state of each token it processes, and
\* of each compressed token whose last token it processes.
PagesWritten(g) ==
  UNION {{BlockTable[r][IF Compressed(g) THEN (p \div GroupRatios[g]) \div BlockSize
                                         ELSE p \div BlockSize] :
          p \in {q \in computed[r]..(computed[r] + Width - 1) :
                   Compressed(g) => (q + 1) % GroupRatios[g] = 0}} :
         r \in Requests}

\* The manifest that the page audit derives from the metadata has exactly the
\* pages that the pass writes.
ManifestIsExact ==
  \A k \in prepared, g \in Groups : TablePages(k, g) = PagesWritten(g)
=============================================================================
